---------------------------- MODULE PacketStream ----------------------------
(***************************************************************************)
(* What the framing of packets promises, without bytes, reads and buffers: *)
(* packets come out in the order they were written, each once, all of them *)
(* in the end unless the connection ends; the handlers see those that can  *)
(* be read.                                                                *)
(***************************************************************************)
EXTENDS Naturals, Sequences

CONSTANTS Bodies, Readable

VARIABLES
  sent,      \* the packets written so far
  taken,     \* how many of them came out
  handled,   \* those the handlers were given
  open       \* the connection has not ended

vars == <<sent, taken, handled, open>>

Init ==
  /\ sent = <<>>
  /\ taken = 0
  /\ handled = <<>>
  /\ open = TRUE

Write(body) ==
  /\ open
  /\ sent' = Append(sent, body)
  /\ UNCHANGED <<taken, handled, open>>

Deliver ==
  /\ open
  /\ taken < Len(sent)
  /\ taken' = taken + 1
  /\ handled' = IF sent[taken + 1] \in Readable
                  THEN Append(handled, sent[taken + 1])
                  ELSE handled
  /\ UNCHANGED <<sent, open>>

End ==
  /\ open
  /\ open' = FALSE
  /\ UNCHANGED <<sent, taken, handled>>

Next == Deliver \/ End \/ \E body \in Bodies : Write(body)

Spec == Init /\ [][Next]_vars /\ WF_vars(Deliver)
=============================================================================
