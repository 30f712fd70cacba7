--------------------------- MODULE MCPacketFraming --------------------------
(***************************************************************************)
(* PacketFraming with bytes of three values: sizes are 0 to 8, so that a   *)
(* body of seven bytes makes the size field wrap.                          *)
(***************************************************************************)
EXTENDS PacketFraming

MCKey == <<2, 1, 0>>

(* Types are 0 to 8. *)
MCKnown == {1, 2, 3, 6}

(* The smallest packet and the largest one. *)
MCGood == {<<1, 0>>, <<2, 0, 1, 2, 2, 1>>}

(* Of an unknown type, and like a header when read from its middle. *)
MCUnknown == <<1, 2, 1, 1>>

(* Of a known type, but not readable. *)
MCUnreadable == <<1, 0, 2>>

MCUntraceable == {<<0, 1, 0>>}

MCFatal == {<<0, 2>>}

MCReadable == MCGood \cup MCUntraceable \cup MCFatal

(* Without a type, with half a type, and two whose size wraps to 0 and 1. *)
MCMalformed == {<<>>, <<1>>, <<1, 0, 1, 1, 1, 0, 1>>, <<1, 0, 2, 2, 0, 2, 1, 1>>}

MCAll == MCReadable \cup MCMalformed \cup {MCUnknown, MCUnreadable}
=============================================================================
