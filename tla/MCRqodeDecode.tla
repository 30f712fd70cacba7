--------------------------- MODULE MCRqodeDecode ----------------------------
(***************************************************************************)
(* RqodeDecode with bytes of four values: 1 is the tag of a U8, 2 of a     *)
(* U16, 0 and 3 are no tags, and 3 is no text.                             *)
(***************************************************************************)
EXTENDS RqodeDecode, FiniteSetsExt

CONSTANTS
  MaxInput,  \* longest packet of arbitrary bytes
  MaxValues  \* most elements of a packet of elements

MCPayload == [t \in {1, 2} |-> t]

MCText(data) == 3 \notin Range(data)

MCPackets == UNION {[1 .. n -> Byte] : n \in 0 .. MaxInput}

Strings == {<<0>>, <<2>>, <<2, 1>>, <<1, 2, 0>>}

Elements ==
  {[kind |-> "string", tag |-> U16, data |-> s] : s \in Strings}
    \cup {[kind |-> "bytes", tag |-> U16, data |-> <<3, 0>>]}
    \cup {[kind |-> "value", tag |-> 1, data |-> <<n>>] : n \in {0, 2}}
    \cup {[kind |-> "value", tag |-> U16, data |-> Digits(n)] : n \in {0, 1, 3, 8}}

MCContents == UNION {[1 .. n -> Elements] : n \in 1 .. MaxValues}
=============================================================================
