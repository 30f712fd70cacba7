----------------------------- MODULE RqodeDecode ----------------------------
(***************************************************************************)
(* The guessing reader of packets whose layout is not known                *)
(* (read_guess_all in rqode_binrw.rs).  A value is a tag and a payload     *)
(* whose length the tag determines; a string or a block of bytes has no    *)
(* tag of its own: it is a U16 length, then the bytes, and is recognised   *)
(* by what comes after it.  A byte has Base values.                        *)
(***************************************************************************)
EXTENDS Naturals, Sequences, SequencesExt

CONSTANTS
  Base,     \* 256 in the code
  U16,      \* the tag of numbers and lengths
  Payload,  \* the payload's length of each tag
  IsText(_),\* String::from_utf8 succeeds
  Packets,  \* packets of whatever bytes
  Contents  \* sequences of elements packets are written from

Byte == 0 .. Base - 1

Tag == DOMAIN Payload

Element ==
  [kind : {"value", "string", "bytes"}, tag : Tag, data : Seq(Byte)]

(* Values have the payload of their tag.  Strings and blocks have a length that
   fits a U16; an empty one is left out, for it is written as the number 0. *)
Writable(e) ==
  \/ e.kind = "value" /\ Len(e.data) = Payload[e.tag]
  \/ /\ e.kind = IF IsText(e.data) THEN "string" ELSE "bytes"
     /\ e.tag = U16 /\ Len(e.data) \in 1 .. Base * Base - 1

ASSUME RqodeAssumption ==
  /\ Base \in Nat \ {0, 1}
  /\ Tag \subseteq Byte
  /\ Payload \in [Tag -> Nat]
  /\ U16 \in Tag /\ Payload[U16] = 2
  /\ Packets \subseteq Seq(Byte)
  /\ Contents \subseteq Seq({e \in Element : Writable(e)})

VARIABLES
  input,   \* the bytes of the packet
  values,  \* the elements it was written from, if it was
  pos,     \* the reader's position: bytes read
  out,     \* elements decoded
  result   \* "reading", "ok" or "error"

packet == <<input, values>>

vars == <<packet, pos, out, result>>

-----------------------------------------------------------------------------
(* Little-endian *)
Number(data) == data[1] + Base * data[2]

Digits(n) == <<n % Base, n \div Base>>

Slice(at, n) == SubSeq(input, at + 1, at + n)

(* Mutant: a value is not read when it ends where the packet ends. *)
ReadableWithin(at) ==
  /\ at < Len(input)
  /\ input[at + 1] \in Tag
  /\ at + 1 + Payload[input[at + 1]] < Len(input)

(* DataElement::read succeeds at a position: a known tag with all its payload. *)
Readable(at) ==
  /\ at < Len(input)
  /\ input[at + 1] \in Tag
  /\ at + 1 + Payload[input[at + 1]] <= Len(input)

Value(at) ==
  LET tag == input[at + 1]
  IN [kind |-> "value", tag |-> tag, data |-> Slice(at + 1, Payload[tag])]

(* What a U16 that is a length announces, given the position after it. *)
Announced(at, n) ==
  LET data == Slice(at, n)
  IN [kind |-> IF IsText(data) THEN "string" ELSE "bytes", tag |-> U16, data |-> data]

(* Mutant: only the next element is looked at, not the end. *)
FollowedByElement(at, n) == n > 0 /\ Readable(at + n)

(* A U16 is a length when the bytes are there and the end or an element comes
   after them. *)
Followed(at, n) ==
  /\ n > 0
  /\ at + n <= Len(input)
  /\ at + n = Len(input) \/ Readable(at + n)

(* Mutant: after a wrong guess the reader stays behind the bytes. *)
FallbackBehind(at, n) ==
  /\ out' = Append(out, Value(at))
  /\ pos' = IF at + 3 + n <= Len(input) THEN at + 3 + n ELSE at + 3

(* Mutant: the reader goes back to where the element begins. *)
FallbackBack(at, n) == UNCHANGED <<out, pos>>

(* The number itself: the reader goes back to where it ends. *)
Fallback(at, n) ==
  /\ out' = Append(out, Value(at))
  /\ pos' = at + 3

ReadU16 ==
  LET n == Number(Value(pos).data)
  IN /\ Readable(pos) /\ input[pos + 1] = U16
     /\ \/ /\ Followed(pos + 3, n)
           /\ out' = Append(out, Announced(pos + 3, n))
           /\ pos' = pos + 3 + n
        \/ /\ ~Followed(pos + 3, n)
           /\ Fallback(pos, n)
     /\ UNCHANGED <<packet, result>>

ReadOther ==
  /\ Readable(pos) /\ input[pos + 1] # U16
  /\ out' = Append(out, Value(pos))
  /\ pos' = pos + 1 + Payload[input[pos + 1]]
  /\ UNCHANGED <<packet, result>>

(* read_guess *)
ReadGuess == result = "reading" /\ pos < Len(input) /\ (ReadU16 \/ ReadOther)

(* An unknown tag or a value that is cut: what was decoded is given up. *)
Fail ==
  /\ result = "reading" /\ pos < Len(input)
  /\ ~Readable(pos)
  /\ result' = "error"
  /\ UNCHANGED <<packet, pos, out>>

(* Mutant: what was decoded before an error is the result. *)
EndEarly ==
  /\ result = "reading" /\ ~Readable(pos)
  /\ result' = "ok"
  /\ UNCHANGED <<packet, pos, out>>

End ==
  /\ result = "reading" /\ pos = Len(input)
  /\ result' = "ok"
  /\ UNCHANGED <<packet, pos, out>>

Next == ReadGuess \/ Fail \/ End

-----------------------------------------------------------------------------
(* The bytes an element is written as. *)
Encoded(e) ==
  <<e.tag>> \o (IF e.kind = "value" THEN e.data ELSE Digits(Len(e.data)) \o e.data)

Written(elements) == FlattenSeq([k \in DOMAIN elements |-> Encoded(elements[k])])

(* A packet of whatever bytes, or one written from elements. *)
Init ==
  /\ \/ input \in Packets /\ values = <<>>
     \/ values \in Contents /\ input = Written(values)
  /\ pos = 0 /\ out = <<>> /\ result = "reading"

Spec == Init /\ [][Next]_vars

FairSpec == Spec /\ WF_vars(Next)

-----------------------------------------------------------------------------
(* Every variable has its type, and only a packet that was read to its end has
   a result. *)
TypeOK ==
  /\ input \in Seq(Byte)
  /\ pos \in 0 .. Len(input)
  /\ out \in Seq(Element)
  /\ result \in {"reading", "ok", "error"}
  /\ result = "ok" => pos = Len(input)

(* rqode_binrw.rs:302: nothing is skipped and nothing is read twice, whatever
   the guesses: the elements written again are the bytes read so far. *)
Lossless == Written(out) = SubSeq(input, 1, pos)

(* rqode_binrw.rs:312: the loop without a bound ends for every packet. *)
Ends == <>(result # "reading")

(* rqode_binrw.rs:234: "String/bytes read condition: EOF or next element is
   valid".  Up to the first number that could be a length, every element is
   decoded as what it was written from; strings and blocks of bytes always. *)
Ambiguous(e) == e.kind = "value" /\ e.tag = U16 /\ Number(e.data) # 0

Recovered ==
  \A k \in DOMAIN out \cap DOMAIN values :
    (\A m \in 1 .. k : ~Ambiguous(values[m])) => out[k] = values[k]

(* A packet without such numbers is read to its end. *)
ReadWhole ==
  result = "error" /\ input = Written(values)
    => \E m \in DOMAIN values : Ambiguous(values[m])
=============================================================================
