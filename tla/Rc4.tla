-------------------------------- MODULE Rc4 ---------------------------------
(***************************************************************************)
(* One direction of the ciphered channel (cipher.rs).  The server makes a  *)
(* box, sends it, and both sides transform their copy in the same way; the *)
(* sender then encrypts with its copy and the receiver decrypts with the   *)
(* other one.  A call of xor_in_place works on the box with copies of its  *)
(* two indices, which are stored back when the call ends.  The calls of    *)
(* the two sides cut the stream in different places.  A byte has N values. *)
(***************************************************************************)
EXTENDS Naturals, Sequences

CONSTANTS
  N,             \* 256 in the code
  XorBytes(_, _), \* exclusive or of bytes
  Transform(_),  \* modulus_transform: it changes a part of the table
  Advances,      \* steps of the generator during setup: 1000
  Extra,         \* keys for setup
  Data,          \* bytes that are sent
  MaxBytes       \* bound on how many

Byte == 0 .. N - 1

Table == [Byte -> Byte]

ZeroTable == [n \in Byte |-> 0]

ASSUME Rc4Assumption ==
  /\ N \in Nat \ {0}
  /\ \A a, k \in Byte : XorBytes(a, k) \in Byte /\ XorBytes(XorBytes(a, k), k) = a
  /\ \A a \in Byte : XorBytes(a, 0) = a
  /\ \A s \in Table : Transform(s) \in Table
  /\ Transform(ZeroTable) = ZeroTable
  /\ Extra \subseteq Table /\ Data \subseteq Byte
  /\ Advances \in Nat /\ MaxBytes \in Nat

Box == [s : Table, i : Byte, j : Byte]

Side == {"server", "game"}

VARIABLES
  kind,   \* which box of the handshake: "game_rx" or "game_tx"
  phase,  \* "fresh", "mixing", "advancing", "made", "sent", "talking"
  extra,  \* the key of setup
  count,  \* steps of setup done in this phase
  box,    \* the two copies
  busy,   \* whether a side is inside xor_in_place
  i, j,   \* its copies of the indices
  offer,  \* the bytes of the box in the handshake
  wire,   \* encrypted bytes on their way
  plain,  \* what was given to the sender
  got,    \* what the receiver decrypted
  trail   \* history: the sender's generator when the talk began and after each byte

setupVars == <<kind, phase, extra, count, offer>>
streamVars == <<busy, i, j, wire, plain, got, trail>>
vars == <<setupVars, box, streamVars>>

(* CustomRc4::new *)
NewBox == [s |-> ZeroTable, i |-> 0, j |-> 0]

Init ==
  /\ kind \in {"game_rx", "game_tx"}
  /\ phase = "fresh"
  /\ extra \in Extra
  /\ count = 0
  /\ box = [e \in Side |-> NewBox]
  /\ busy = [e \in Side |-> FALSE]
  /\ i = [e \in Side |-> 0] /\ j = [e \in Side |-> 0]
  /\ offer = <<>>
  /\ wire = <<>> /\ plain = <<>> /\ got = <<>> /\ trail = <<>>

(* Mutant: the first value is lost. *)
SwapLosing(s, a, b) == [s EXCEPT ![a] = s[b]]

Swap(s, a, b) == [s EXCEPT ![a] = s[b], ![b] = s[a]]

(* One step of the generator, for the values of its indices before it. *)
Advanced(s, i0, j0) ==
  LET i1 == (i0 + 1) % N
      j1 == (j0 + s[i1]) % N
  IN [s |-> Swap(s, i1, j1), i |-> i1, j |-> j1]

(* The byte of the key stream a step of the generator yields. *)
KeyByte(b) == b.s[(b.s[b.i] + b.s[b.j]) % N]

-----------------------------------------------------------------------------
(* Making the box. *)

(* setup: the identity first. *)
Setup ==
  /\ phase = "fresh"
  /\ box' = [box EXCEPT !["server"] = [s |-> [n \in Byte |-> n], i |-> 0, j |-> 0]]
  /\ phase' = "mixing"
  /\ UNCHANGED <<kind, extra, count, offer, streamVars>>

(* setup: the key is mixed in, entry by entry. *)
Mix ==
  LET b == box["server"]
      j1 == (b.j + b.s[count] + extra[count]) % N
  IN /\ phase = "mixing" /\ count < N
     /\ box' = [box EXCEPT !["server"] = [b EXCEPT !.s = Swap(b.s, count, j1), !.j = j1]]
     /\ count' = count + 1
     /\ UNCHANGED <<kind, phase, extra, offer, streamVars>>

Mixed ==
  /\ phase = "mixing" /\ count = N
  /\ box' = [box EXCEPT !["server"] = [@ EXCEPT !.i = 0, !.j = 0]]
  /\ phase' = "advancing" /\ count' = 0
  /\ UNCHANGED <<kind, extra, offer, streamVars>>

(* Mutant: one step more. *)
AdvanceOnceMore ==
  LET b == box["server"]
  IN /\ phase = "advancing" /\ count <= Advances
     /\ box' = [box EXCEPT !["server"] = Advanced(b.s, b.i, b.j)]
     /\ count' = count + 1
     /\ UNCHANGED <<kind, phase, extra, offer, streamVars>>

(* setup and dummy_advance: steps whose bytes nobody uses. *)
Advance ==
  LET b == box["server"]
  IN /\ phase = "advancing" /\ count < Advances
     /\ box' = [box EXCEPT !["server"] = Advanced(b.s, b.i, b.j)]
     /\ count' = count + 1
     /\ UNCHANGED <<kind, phase, extra, offer, streamVars>>

(* The box is used as it is: after setup, or as new, which is what
   prepare_rc4_boxes does now that its calls of setup_rand are disabled. *)
Made ==
  /\ phase = "fresh" \/ (phase = "advancing" /\ count = Advances)
  /\ phase' = "made"
  /\ UNCHANGED <<kind, extra, count, offer, box, streamVars>>

-----------------------------------------------------------------------------
(* The handshake. *)

Word(n) == <<n, 0, 0, 0>>

(* to_bytes: the indices become 32 bit words. *)
ToBytes(b) == [s |-> b.s, i |-> Word(b.i), j |-> Word(b.j)]

Value(w) == w[1] + N * (w[2] + N * (w[3] + N * w[4]))

(* from_bytes: they are cut to bytes again. *)
FromBytes(o) == [s |-> o.s, i |-> Value(o.i) % N, j |-> Value(o.j) % N]

(* modulus_transform works on the first bytes of the handshake, which belong to
   the box game_rx. *)
Transformed(b) == IF kind = "game_rx" THEN [b EXCEPT !.s = Transform(@)] ELSE b

(* prepare_rc4_boxes *)
SendBox ==
  /\ phase = "made"
  /\ offer' = ToBytes(box["server"])
  /\ box' = IF kind = "game_rx"
              THEN [box EXCEPT !["server"] = Transformed(FromBytes(ToBytes(@)))]
              ELSE box
  /\ phase' = "sent"
  /\ UNCHANGED <<kind, extra, count, streamVars>>

(* The game does what the proxy does with the boxes of the real server. *)
TakeBox ==
  /\ phase = "sent"
  /\ box' = [box EXCEPT !["game"] = Transformed(FromBytes(offer))]
  /\ phase' = "talking"
  /\ trail' = <<box'["game"]>>
  /\ UNCHANGED <<kind, extra, count, offer, busy, i, j, wire, plain, got>>

-----------------------------------------------------------------------------
(* xor_in_place *)

Sender == IF kind = "game_rx" THEN "server" ELSE "game"

Receiver == IF kind = "game_rx" THEN "game" ELSE "server"

Call(e) ==
  /\ phase = "talking" /\ ~busy[e]
  /\ busy' = [busy EXCEPT ![e] = TRUE]
  /\ i' = [i EXCEPT ![e] = box[e].i]
  /\ j' = [j EXCEPT ![e] = box[e].j]
  /\ UNCHANGED <<setupVars, box, wire, plain, got, trail>>

(* A byte of the data, xor the next byte of the key stream. *)
OneByte(e, data, result) ==
  LET b == Advanced(box[e].s, i[e], j[e])
  IN /\ busy[e]
     /\ result = XorBytes(data, KeyByte(b))
     /\ box' = [box EXCEPT ![e].s = b.s]
     /\ i' = [i EXCEPT ![e] = b.i]
     /\ j' = [j EXCEPT ![e] = b.j]

EncryptByte ==
  /\ Len(plain) < MaxBytes
  /\ \E data \in Data : \E result \in Byte :
       /\ OneByte(Sender, data, result)
       /\ plain' = Append(plain, data)
       /\ wire' = Append(wire, result)
  /\ trail' = Append(trail, [s |-> box'[Sender].s, i |-> i'[Sender], j |-> j'[Sender]])
  /\ UNCHANGED <<setupVars, busy, got>>

DecryptByte ==
  /\ wire # <<>>
  /\ \E result \in Byte :
       /\ OneByte(Receiver, Head(wire), result)
       /\ got' = Append(got, result)
       /\ wire' = Tail(wire)
  /\ UNCHANGED <<setupVars, busy, plain, trail>>

(* Mutant: the indices are not stored back. *)
ReturnForgetting(e) ==
  /\ busy[e]
  /\ busy' = [busy EXCEPT ![e] = FALSE]
  /\ UNCHANGED <<setupVars, box, i, j, wire, plain, got, trail>>

Return(e) ==
  /\ busy[e]
  /\ box' = [box EXCEPT ![e].i = i[e], ![e].j = j[e]]
  /\ busy' = [busy EXCEPT ![e] = FALSE]
  /\ UNCHANGED <<setupVars, i, j, wire, plain, got, trail>>

Next ==
  \/ Setup \/ Mix \/ Mixed \/ Advance \/ Made
  \/ SendBox \/ TakeBox
  \/ EncryptByte \/ DecryptByte
  \/ \E e \in Side : Call(e) \/ Return(e)

Spec == Init /\ [][Next]_vars

-----------------------------------------------------------------------------
(* Every variable has its type, and setup does not overdo its steps. *)
TypeOK ==
  /\ kind \in {"game_rx", "game_tx"}
  /\ phase \in {"fresh", "mixing", "advancing", "made", "sent", "talking"}
  /\ extra \in Extra
  /\ count \in 0 .. IF phase = "mixing" THEN N ELSE Advances
  /\ box \in [Side -> Box]
  /\ busy \in [Side -> BOOLEAN]
  /\ i \in [Side -> Byte] /\ j \in [Side -> Byte]
  /\ phase \in {"sent", "talking"} => offer \in [s : Table, i : Seq(Byte), j : Seq(Byte)]
  /\ wire \in Seq(Byte) /\ plain \in Seq(Byte) /\ got \in Seq(Byte)
  /\ trail \in Seq(Box)

(* cipher.rs:38: however the two sides cut the stream into calls, and whatever
   the box contains, the receiver decrypts what the sender was given. *)
RoundTrip == got = SubSeq(plain, 1, Len(got))

IsPermutation(s) == \A a, b \in Byte : a # b => s[a] # s[b]

(* cipher.rs:85: what setup makes is a permutation of the bytes at every moment,
   and so are both copies as long as nothing else transforms them; a new table
   of zeros stays one. *)
Permutation ==
  kind = "game_tx" \/ phase \notin {"sent", "talking"} =>
    \A e \in Side : box[e].s = ZeroTable \/ IsPermutation(box[e].s)
=============================================================================
