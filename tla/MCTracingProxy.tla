--------------------------- MODULE MCTracingProxy ---------------------------
(***************************************************************************)
(* The tracer with four packet ids; 3 is CompressedData.                   *)
(***************************************************************************)
EXTENDS TracingProxy

CONSTANTS c1, c2

Packed == 3

Plain(type, size) ==
  [type |-> type, inner |-> type, shown |-> type, size |-> size, broken |-> FALSE]

Compressed(type, inner) ==
  [type |-> type, inner |-> inner, shown |-> inner, size |-> 1, broken |-> FALSE]

(* One size that can be cut, a compressed packet, and one of STOP. *)
MCKinds == {Plain(2, 2), Compressed(Packed, 1), Plain(4, 1)}

(* One kind that breaks its connection. *)
MCFragile == {Plain(2, 2), [Plain(1, 1) EXCEPT !.broken = TRUE]}

MCShortKeys == [d \in Direction |-> 1]

MCKeySize == [d \in Direction |-> 2]

MCDefault ==
  [collapse |-> <<3, 1>>, highlight |-> <<>>,
   drop |-> <<>>, mask |-> <<>>, hide |-> <<[ids |-> <<2>>, on |-> TRUE]>>,
   paused |-> FALSE]

(* A setting saved before: one list of packets to drop, not enabled, with what
   is inside the compressed packet and with the packet of STOP. *)
MCDropSaved == [MCDefault EXCEPT !.drop = <<[ids |-> <<1, 4>>, on |-> FALSE]>>]
=============================================================================
