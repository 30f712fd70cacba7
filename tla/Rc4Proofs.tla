----------------------------- MODULE Rc4Proofs ------------------------------
(***************************************************************************)
(* Proofs about Rc4, for every number of byte values, every exclusive or   *)
(* that undoes itself and every transformation of the table.               *)
(*                                                                         *)
(* RoundTrip rests on one idea: the generator does not depend on the data. *)
(* trail is the sequence of its states at the sender; the receiver's copy  *)
(* is at the state of trail that belongs to the bytes it has decrypted.    *)
(***************************************************************************)
EXTENDS Rc4, TLAPS, SequenceTheorems

(* The state of a side's generator: inside xor_in_place the indices are the
   local copies. *)
Generator(e) ==
  [s |-> box[e].s,
   i |-> IF busy[e] THEN i[e] ELSE box[e].i,
   j |-> IF busy[e] THEN j[e] ELSE box[e].j]

Next1(b) == Advanced(b.s, b.i, b.j)

Quiet ==
  /\ \A e \in Side : ~busy[e]
  /\ wire = <<>> /\ plain = <<>> /\ got = <<>> /\ trail = <<>>

BeforeTalk ==
  /\ phase = "fresh" => count = 0
  /\ phase # "talking" => Quiet
  /\ phase = "sent" => /\ FromBytes(offer) \in Box
                       /\ box["server"] = Transformed(FromBytes(offer))

(* How far each side is, and that trail is a run of the generator. *)
Trail ==
  /\ Len(trail) = Len(plain) + 1
  /\ Len(plain) = Len(got) + Len(wire)
  /\ Generator(Sender) = trail[Len(plain) + 1]
  /\ Generator(Receiver) = trail[Len(got) + 1]
  /\ \A k \in 1 .. Len(plain) : trail[k + 1] = Next1(trail[k])

Ciphered ==
  \A k \in 1 .. Len(wire) :
    wire[k] = XorBytes(plain[Len(got) + k], KeyByte(trail[Len(got) + k + 1]))

Received == \A k \in 1 .. Len(got) : got[k] = plain[k]

StreamInv ==
  /\ TypeOK
  /\ BeforeTalk
  /\ phase = "talking" => Trail /\ Ciphered /\ Received

-----------------------------------------------------------------------------

(* Bytes are numbers. *)
LEMMA ByteNat == \A n \in Byte : n \in Nat
BY Rc4Assumption DEF Byte

(* Sums of numbers are numbers. *)
LEMMA SumNat == \A x, y, z \in Nat : x + y + z \in Nat
OBVIOUS

(* A number modulo N is a byte. *)
LEMMA ModByte ==
  ASSUME NEW n \in Nat PROVE n % N \in Byte
BY Rc4Assumption DEF Byte

(* s.swap gives a table. *)
LEMMA SwapType ==
  ASSUME NEW s \in Table, NEW a \in Byte, NEW b \in Byte
  PROVE  Swap(s, a, b) \in Table
BY DEF Swap, Table

(* A wrapping sum of bytes is a byte. *)
LEMMA SumByte ==
  ASSUME NEW a \in Byte, NEW b \in Byte PROVE (a + b) % N \in Byte
BY ModByte DEF Byte

(* One step of the generator gives a box, and swaps at its new indices. *)
LEMMA AdvancedType ==
  ASSUME NEW s \in Table, NEW a \in Byte, NEW b \in Byte
  PROVE  /\ Advanced(s, a, b) \in Box
         /\ Advanced(s, a, b).i \in Byte /\ Advanced(s, a, b).j \in Byte
         /\ Advanced(s, a, b).s
              = Swap(s, Advanced(s, a, b).i, Advanced(s, a, b).j)
<1> DEFINE i1 == (a + 1) % N
           j1 == (b + s[i1]) % N
<1>1. i1 \in Byte
  BY ModByte DEF Byte
<1>2. s[i1] \in Byte
  BY <1>1 DEF Table
<1>3. j1 \in Byte
  BY <1>2, SumByte
<1>4. Advanced(s, a, b) = [s |-> Swap(s, i1, j1), i |-> i1, j |-> j1]
  BY DEF Advanced
<1> HIDE DEF i1, j1
<1> QED
  BY <1>1, <1>3, <1>4, SwapType DEF Box

(* A byte of the key stream is a byte. *)
LEMMA KeyByteType ==
  ASSUME NEW b \in Box PROVE KeyByte(b) \in Byte
<1>1. b.s \in Table /\ b.s[b.i] \in Byte /\ b.s[b.j] \in Byte
  BY DEF Box, Table
<1>2. (b.s[b.i] + b.s[b.j]) % N \in Byte
  BY <1>1, SumByte
<1> QED
  BY <1>1, <1>2 DEF KeyByte, Table

(* A box with a transformed table (modulus_transform) is a box. *)
LEMMA TransformedType ==
  ASSUME NEW b \in Box PROVE Transformed(b) \in Box
BY Rc4Assumption DEF Transformed, Box

(* What the handshake does with a box: nothing. *)
LEMMA BytesAndBack ==
  ASSUME NEW b \in Box PROVE FromBytes(ToBytes(b)) = b
<1>1. b = [s |-> b.s, i |-> b.i, j |-> b.j] /\ b.i \in Byte /\ b.j \in Byte
  BY DEF Box
<1>2. \A n \in Byte : Value(Word(n)) = n
  <2> TAKE n \in Byte
  <2>1. N * (0 + N * (0 + N * 0)) = 0
    BY Rc4Assumption
  <2> QED
    BY <2>1 DEF Value, Word, Byte
<1>3. \A n \in Byte : n % N = n
  BY Rc4Assumption DEF Byte
<1>4. Value(Word(b.i)) % N = b.i /\ Value(Word(b.j)) % N = b.j
  BY <1>1, <1>2, <1>3
<1> QED
  BY <1>1, <1>4 DEF FromBytes, ToBytes

(* The two sides of a channel are two. *)
LEMMA SideFacts ==
  /\ Sender \in Side /\ Receiver \in Side /\ Sender # Receiver
  /\ \A e \in Side : e = Sender \/ e = Receiver
BY DEF Sender, Receiver, Side

-----------------------------------------------------------------------------

(* CustomRc4::new has the types; nobody has encrypted anything. *)
THEOREM InitStream == Init => StreamInv
<1> SUFFICES ASSUME Init PROVE StreamInv
  OBVIOUS
<1>1. 0 \in Byte /\ ZeroTable \in Table
  BY Rc4Assumption DEF Byte, ZeroTable, Table
<1>2. NewBox \in Box
  BY <1>1 DEF NewBox, Box
<1>3. TypeOK
  BY <1>1, <1>2, Rc4Assumption DEF Init, TypeOK
<1>4. BeforeTalk
  BY DEF Init, BeforeTalk, Quiet
<1> QED
  BY <1>3, <1>4 DEF StreamInv, Init

(* One round of xor_in_place: a table and indices that are one step further.
   *)
LEMMA OneByteType ==
  ASSUME TypeOK, NEW e \in Side, NEW data \in Byte, NEW result \in Byte,
         OneByte(e, data, result)
  PROVE  /\ box' \in [Side -> Box]
         /\ i' \in [Side -> Byte] /\ j' \in [Side -> Byte]
         /\ [s |-> box'[e].s, i |-> i'[e], j |-> j'[e]] = Advanced(box[e].s, i[e], j[e])
         /\ Advanced(box[e].s, i[e], j[e]) \in Box
<1> DEFINE b == Advanced(box[e].s, i[e], j[e])
<1>1. box[e] \in Box /\ box[e].s \in Table /\ i[e] \in Byte /\ j[e] \in Byte
  BY DEF TypeOK, Box
<1>2. b \in Box
  BY <1>1, AdvancedType
<1>3. /\ box' = [box EXCEPT ![e].s = b.s]
      /\ i' = [i EXCEPT ![e] = b.i] /\ j' = [j EXCEPT ![e] = b.j]
  BY DEF OneByte
<1> HIDE DEF b
<1>4. b.s \in Table /\ b.i \in Byte /\ b.j \in Byte
      /\ b = [s |-> b.s, i |-> b.i, j |-> b.j]
  BY <1>2 DEF Box
<1>5. box' \in [Side -> Box] /\ box'[e].s = b.s
  BY <1>1, <1>3, <1>4 DEF TypeOK, Box
<1>6. i'[e] = b.i /\ j'[e] = b.j /\ i' \in [Side -> Byte] /\ j' \in [Side -> Byte]
  BY <1>3, <1>4 DEF TypeOK
<1>7. [s |-> box'[e].s, i |-> i'[e], j |-> j'[e]] = b
  BY <1>4, <1>5, <1>6
<1> QED
  BY <1>2, <1>5, <1>6, <1>7 DEF b

(* Setup, the exchange of boxes and xor_in_place keep the types. *)
LEMMA TypeStep ==
  ASSUME TypeOK, BeforeTalk, [Next]_vars
  PROVE  TypeOK'
<1> USE DEF TypeOK
<1>0. box["server"] \in Box /\ box["game"] \in Box
  BY DEF Side
<1>1. CASE Setup
  <2>1. 0 \in Byte /\ [n \in Byte |-> n] \in Table
    BY Rc4Assumption DEF Byte, Table
  <2>2. count' \in 0 .. IF phase' = "mixing" THEN N ELSE Advances
    <3>1. phase' = "mixing" /\ count' = count /\ phase = "fresh" /\ N \in Nat
      BY <1>1, Rc4Assumption DEF Setup
    <3>2. count = 0
      BY <1>1 DEF BeforeTalk, Setup
    <3> QED
      BY <3>1, <3>2
  <2> QED
    BY <1>1, <2>1, <2>2 DEF Setup, streamVars, Box
<1>2. CASE Mix
  <2> DEFINE b == box["server"]
             j1 == (b.j + b.s[count] + extra[count]) % N
  <2>1. count \in Byte /\ b.s \in Table /\ b.j \in Byte
    BY <1>0, <1>2, Rc4Assumption DEF Mix, Byte, Box
  <2>2. b.s[count] \in Byte /\ extra[count] \in Byte
    BY <2>1, Rc4Assumption DEF Table
  <2>3. j1 \in Byte
    <3>1. b.j + b.s[count] + extra[count] \in Nat
      <4>1. /\ b.j \in Nat /\ b.s[count] \in Nat /\ extra[count] \in Nat
        BY <2>1, <2>2, ByteNat
      <4> QED
        BY <4>1, SumNat, Zenon
    <3> QED
      BY <3>1, ModByte
  <2>4. Swap(b.s, count, j1) \in Table
    BY <2>1, <2>3, SwapType
  <2>5. box' = [box EXCEPT !["server"] = [b EXCEPT !.s = Swap(b.s, count, j1), !.j = j1]]
    BY <1>2 DEF Mix
  <2> HIDE DEF j1
  <2>6. box' \in [Side -> Box]
    BY <1>0, <2>3, <2>4, <2>5 DEF Box
  <2> QED
    BY <1>2, <2>6, Rc4Assumption DEF Mix, streamVars
<1>3. CASE Mixed
  <2>1. 0 \in Byte
    BY Rc4Assumption DEF Byte
  <2>2. box' \in [Side -> Box]
    BY <1>0, <1>3, <2>1 DEF Mixed, Box
  <2>3. count' \in 0 .. IF phase' = "mixing" THEN N ELSE Advances
    BY <1>3, Rc4Assumption DEF Mixed
  <2> QED
    BY <1>3, <2>2, <2>3 DEF Mixed, streamVars
<1>4. CASE Advance
  <2>1. Advanced(box["server"].s, box["server"].i, box["server"].j) \in Box
    BY <1>0, AdvancedType DEF Box
  <2>2. box' \in [Side -> Box]
    BY <1>4, <2>1 DEF Advance
  <2> QED
    BY <1>4, <2>2, Rc4Assumption DEF Advance, streamVars
<1>5. CASE Made
  BY <1>5 DEF Made, streamVars
<1>6. CASE SendBox
  <2>1. FromBytes(ToBytes(box["server"])) \in Box
    BY <1>0, BytesAndBack
  <2>2. Transformed(FromBytes(ToBytes(box["server"]))) \in Box
    BY <2>1, TransformedType
  <2>3. \A n \in Byte : Word(n) \in Seq(Byte)
    BY Rc4Assumption DEF Word, Byte
  <2>4. offer' \in [s : Table, i : Seq(Byte), j : Seq(Byte)]
    BY <1>0, <1>6, <2>3 DEF SendBox, ToBytes, Box
  <2>5. box' \in [Side -> Box]
    BY <1>6, <2>2 DEF SendBox
  <2> QED
    BY <1>6, <2>4, <2>5 DEF SendBox, streamVars
<1>7. CASE TakeBox
  <2>1. Transformed(FromBytes(offer)) \in Box
    BY <1>7, TransformedType DEF TakeBox, BeforeTalk
  <2>2. box' \in [Side -> Box] /\ box'["game"] \in Box
    BY <1>7, <2>1 DEF TakeBox, Side
  <2> QED
    BY <1>7, <2>2 DEF TakeBox
<1>8. CASE EncryptByte
  <2>1. PICK data \in Data, result \in Byte :
          /\ OneByte(Sender, data, result)
          /\ plain' = Append(plain, data)
          /\ wire' = Append(wire, result)
          /\ trail' = Append(trail, [s |-> box'[Sender].s, i |-> i'[Sender], j |-> j'[Sender]])
    BY <1>8 DEF EncryptByte
  <2>2. data \in Byte
    BY Rc4Assumption
  <2>3. /\ box' \in [Side -> Box] /\ i' \in [Side -> Byte] /\ j' \in [Side -> Byte]
        /\ [s |-> box'[Sender].s, i |-> i'[Sender], j |-> j'[Sender]] \in Box
    BY <2>1, <2>2, SideFacts, OneByteType
  <2>4. plain' \in Seq(Byte) /\ wire' \in Seq(Byte) /\ trail' \in Seq(Box)
    BY <2>1, <2>2, <2>3
  <2> QED
    BY <1>8, <2>3, <2>4 DEF EncryptByte, setupVars
<1>9. CASE DecryptByte
  <2>1. PICK result \in Byte :
          /\ OneByte(Receiver, Head(wire), result)
          /\ got' = Append(got, result)
          /\ wire' = Tail(wire)
    BY <1>9 DEF DecryptByte
  <2>2. Head(wire) \in Byte /\ Tail(wire) \in Seq(Byte)
    BY <1>9 DEF DecryptByte
  <2>3. box' \in [Side -> Box] /\ i' \in [Side -> Byte] /\ j' \in [Side -> Byte]
    BY <2>1, <2>2, SideFacts, OneByteType
  <2>4. got' \in Seq(Byte) /\ wire' \in Seq(Byte)
    BY <2>1, <2>2
  <2> QED
    BY <1>9, <2>3, <2>4 DEF DecryptByte, setupVars
<1>10. CASE \E e \in Side : Call(e) \/ Return(e)
  <2>1. PICK e \in Side : Call(e) \/ Return(e)
    BY <1>10
  <2>2. CASE Call(e)
    <3>1. box[e].i \in Byte /\ box[e].j \in Byte
      BY DEF Box
    <3> QED
      BY <2>2, <3>1 DEF Call, setupVars
  <2>3. CASE Return(e)
    <3>1. box' \in [Side -> Box]
      BY <2>3 DEF Return, Box
    <3> QED
      BY <2>3, <3>1 DEF Return, setupVars
  <2> QED
    BY <2>1, <2>2, <2>3
<1>11. CASE UNCHANGED vars
  BY <1>11 DEF vars, setupVars, streamVars
<1> QED
  BY <1>1, <1>2, <1>3, <1>4, <1>5, <1>6, <1>7, <1>8, <1>9, <1>10, <1>11 DEF Next

(* Until the boxes are exchanged nothing is encrypted. *)
LEMMA BeforeStep ==
  ASSUME TypeOK, BeforeTalk, [Next]_vars
  PROVE  BeforeTalk'
<1>1. CASE SendBox
  <2>1. box["server"] \in Box
    BY DEF TypeOK, Side
  <2>2. FromBytes(offer') = box["server"]
    BY <1>1, <2>1, BytesAndBack DEF SendBox
  <2>3. box'["server"] = Transformed(box["server"])
    <3>1. CASE kind = "game_rx"
      BY <1>1, <2>1, <3>1, BytesAndBack DEF SendBox, TypeOK, Side, Transformed
    <3>2. CASE kind # "game_rx"
      BY <1>1, <3>2 DEF SendBox, Transformed
    <3> QED
      BY <3>1, <3>2
  <2>4. Transformed(box["server"])' = Transformed(box'["server"])
    BY <1>1 DEF SendBox, Transformed
  <2>5. Quiet'
    BY <1>1 DEF SendBox, BeforeTalk, Quiet, streamVars
  <2>6. FromBytes(offer)' = box["server"]
    BY <2>2 DEF FromBytes, Value
  <2>7. Transformed(FromBytes(offer))' = Transformed(box["server"])
    BY <1>1, <2>6 DEF SendBox, Transformed
  <2> QED
    BY <1>1, <2>1, <2>3, <2>5, <2>6, <2>7 DEF BeforeTalk, SendBox
<1>2. CASE Setup \/ Mix \/ Mixed \/ Advance \/ Made
  BY <1>2 DEF Setup, Mix, Mixed, Advance, Made, BeforeTalk, Quiet, streamVars
<1>3. CASE TakeBox
  BY <1>3 DEF TakeBox, BeforeTalk
<1>4. CASE EncryptByte \/ DecryptByte \/ \E e \in Side : Call(e) \/ Return(e)
  <2>1. phase = "talking"
    BY <1>4, SideFacts DEF EncryptByte, DecryptByte, OneByte, Call, Return, BeforeTalk, Quiet
  <2>2. phase' = "talking"
    BY <1>4, <2>1 DEF EncryptByte, DecryptByte, Call, Return, setupVars
  <2> QED
    BY <2>2 DEF BeforeTalk
<1>5. CASE UNCHANGED vars
  BY <1>5 DEF vars, setupVars, streamVars, BeforeTalk, Quiet, FromBytes, Value, Transformed
<1> QED
  BY <1>1, <1>2, <1>3, <1>4, <1>5 DEF Next

(* xor_in_place advances the generator of its side by one step per byte, *)
LEMMA OneByteAdvances ==
  ASSUME TypeOK, NEW e \in Side, NEW data \in Byte, NEW result \in Byte,
         OneByte(e, data, result), UNCHANGED busy
  PROVE  /\ Generator(e)' = Next1(Generator(e))
         /\ result = XorBytes(data, KeyByte(Generator(e)'))
         /\ \A f \in Side \ {e} : Generator(f)' = Generator(f)
<1>1. /\ busy[e]
      /\ result = XorBytes(data, KeyByte(Advanced(box[e].s, i[e], j[e])))
      /\ box' = [box EXCEPT ![e].s = Advanced(box[e].s, i[e], j[e]).s]
      /\ i' = [i EXCEPT ![e] = Advanced(box[e].s, i[e], j[e]).i]
      /\ j' = [j EXCEPT ![e] = Advanced(box[e].s, i[e], j[e]).j]
  BY DEF OneByte
<1>2. [s |-> box'[e].s, i |-> i'[e], j |-> j'[e]] = Advanced(box[e].s, i[e], j[e])
  BY OneByteType
<1>3. Generator(e)' = [s |-> box'[e].s, i |-> i'[e], j |-> j'[e]]
  BY <1>1 DEF Generator
<1>4. Next1(Generator(e)) = Advanced(box[e].s, i[e], j[e])
  BY <1>1 DEF Generator, Next1
<1>5. \A f \in Side \ {e} : box'[f] = box[f] /\ i'[f] = i[f] /\ j'[f] = j[f]
  BY <1>1 DEF TypeOK
<1>6. \A f \in Side \ {e} : Generator(f)' = Generator(f)
  BY <1>5 DEF Generator
<1> QED
  BY <1>1, <1>2, <1>3, <1>4, <1>6

(* and neither its beginning nor its end do. *)
LEMMA CallsKeepGenerators ==
  ASSUME TypeOK, NEW e \in Side, Call(e) \/ Return(e)
  PROVE  \A f \in Side : Generator(f)' = Generator(f)
<1>1. CASE Call(e)
  BY <1>1 DEF Call, Generator, TypeOK
<1>2. CASE Return(e)
  <2>1. busy[e] /\ busy' = [busy EXCEPT ![e] = FALSE] /\ i' = i /\ j' = j
    BY <1>2 DEF Return
  <2>2. box'[e].s = box[e].s /\ box'[e].i = i[e] /\ box'[e].j = j[e]
    BY <1>2 DEF Return, TypeOK, Box
  <2>3. \A f \in Side \ {e} : box'[f] = box[f]
    BY <1>2 DEF Return, TypeOK
  <2>4. Generator(e)' = Generator(e)
    BY <2>1, <2>2 DEF Generator, TypeOK
  <2>5. \A f \in Side \ {e} : Generator(f)' = Generator(f)
    BY <2>1, <2>3 DEF Generator, TypeOK
  <2> QED
    BY <2>4, <2>5
<1> QED
  BY <1>1, <1>2

(* The box that was sent is the box that was received: both sides start at
   the same step. *)
LEMMA BeginTalk ==
  ASSUME TypeOK, BeforeTalk, TypeOK', TakeBox
  PROVE  Trail' /\ Ciphered' /\ Received'
<1>1. /\ box["server"] = Transformed(FromBytes(offer))
      /\ box' = [box EXCEPT !["game"] = Transformed(FromBytes(offer))]
      /\ trail' = <<box'["game"]>>
      /\ busy' = busy /\ kind' = kind
      /\ wire' = <<>> /\ plain' = <<>> /\ got' = <<>>
  BY DEF TakeBox, BeforeTalk, Quiet
<1>2. \A e \in Side : box'[e] = box'["game"] /\ ~busy'[e] /\ box'[e] \in Box
  BY <1>1 DEF TypeOK, Side, TakeBox, BeforeTalk, Quiet
<1>3. \A e \in Side : Generator(e)' = box'["game"]
  BY <1>2 DEF Generator, Box
<1>4. Sender' \in Side /\ Receiver' \in Side
  BY DEF Sender, Receiver, Side
<1>5. Generator(Sender)' = box'["game"] /\ Generator(Receiver)' = box'["game"]
  BY <1>1, <1>2, <1>4 DEF Generator, Box
<1>6. Len(trail') = 1 /\ trail'[1] = box'["game"] /\ Len(plain') = 0 /\ Len(got') = 0 /\ Len(wire') = 0
  BY <1>1
<1> QED
  BY <1>5, <1>6 DEF Trail, Ciphered, Received

(* A byte encrypted goes one step further on the sender's trail and leaves
   the receiver's. *)
LEMMA EncryptKeeps ==
  ASSUME TypeOK, TypeOK', Trail, Ciphered, Received, EncryptByte
  PROVE  Trail' /\ Ciphered' /\ Received'
<1>1. PICK data \in Data, result \in Byte :
        /\ OneByte(Sender, data, result)
        /\ plain' = Append(plain, data)
        /\ wire' = Append(wire, result)
        /\ trail' = Append(trail, [s |-> box'[Sender].s, i |-> i'[Sender], j |-> j'[Sender]])
  BY DEF EncryptByte
<1>2. PICK S \in Side : S = Sender
  BY SideFacts
<1>3. PICK R \in Side : R = Receiver
  BY SideFacts
<1>4. S # R /\ S = Sender' /\ R = Receiver' /\ busy' = busy /\ got' = got
  BY <1>2, <1>3, SideFacts DEF EncryptByte, setupVars, Sender, Receiver
<1>5. data \in Byte
  BY Rc4Assumption
<1>6. /\ Generator(S)' = Next1(Generator(S))
      /\ result = XorBytes(data, KeyByte(Generator(S)'))
      /\ Generator(R)' = Generator(R)
  BY <1>1, <1>2, <1>4, <1>5, OneByteAdvances
<1>7. busy[S]
  BY <1>1, <1>2 DEF OneByte
<1>8. trail' = Append(trail, Generator(S)')
  BY <1>1, <1>2, <1>4, <1>7 DEF Generator
<1>9. PICK m, n, w \in Nat : m = Len(plain) /\ n = Len(got) /\ w = Len(wire) /\ m = n + w
  BY DEF TypeOK, Trail
<1>10. /\ Len(plain') = m + 1 /\ Len(wire') = w + 1 /\ Len(trail') = m + 2
       /\ plain'[m + 1] = data /\ wire'[w + 1] = result /\ trail'[m + 2] = Generator(S)'
       /\ \A k \in 1 .. m : plain'[k] = plain[k]
       /\ \A k \in 1 .. w : wire'[k] = wire[k]
       /\ \A k \in 1 .. m + 1 : trail'[k] = trail[k]
  BY <1>1, <1>8, <1>9 DEF TypeOK, Trail
<1>11. Generator(S) = trail[m + 1] /\ Generator(R) = trail[n + 1]
  BY <1>2, <1>3, <1>9 DEF Trail
<1>12. Trail'
  <2>1. Generator(Sender)' = Generator(S)' /\ Generator(Receiver)' = Generator(R)'
    BY <1>4 DEF Generator
  <2>2. trail'[m + 2] = Next1(trail'[m + 1])
    BY <1>6, <1>9, <1>10, <1>11
  <2>3. \A k \in 1 .. m + 1 : trail'[k + 1] = Next1(trail'[k])
    <3> TAKE k \in 1 .. m + 1
    <3>1. CASE k = m + 1
      BY <2>2, <3>1
    <3>2. CASE k # m + 1
      <4>1. k \in 1 .. m /\ k + 1 \in 1 .. m + 1 /\ k \in 1 .. m + 1
        BY <3>2
      <4>2. trail[k + 1] = Next1(trail[k])
        BY <1>9, <4>1 DEF Trail
      <4> QED
        BY <1>10, <4>1, <4>2
    <3> QED
      BY <3>1, <3>2
  <2>4. trail'[n + 1] = trail[n + 1]
    BY <1>9, <1>10
  <2>5. Generator(Sender)' = trail'[m + 2] /\ Generator(Receiver)' = trail'[n + 1]
    BY <1>6, <1>10, <1>11, <2>1, <2>4
  <2>6. m + 1 = n + (w + 1) /\ m + 2 = (m + 1) + 1
    BY <1>9
  <2> QED
    BY <1>4, <1>9, <1>10, <2>3, <2>5, <2>6 DEF Trail
<1>13. Ciphered'
  <2> SUFFICES ASSUME NEW k \in 1 .. w + 1
               PROVE  wire'[k] = XorBytes(plain'[n + k], KeyByte(trail'[n + k + 1]))
    BY <1>4, <1>9, <1>10 DEF Ciphered, KeyByte
  <2>1. CASE k = w + 1
    <3>1. n + k = m + 1 /\ n + k + 1 = m + 2
      BY <1>9, <2>1
    <3> QED
      BY <1>6, <1>10, <2>1, <3>1
  <2>2. CASE k # w + 1
    <3>1. k \in 1 .. w /\ n + k \in 1 .. m /\ n + k + 1 \in 1 .. m + 1
      BY <1>9, <2>2
    <3>2. wire[k] = XorBytes(plain[n + k], KeyByte(trail[n + k + 1]))
      BY <1>9, <3>1 DEF Ciphered
    <3> QED
      BY <1>10, <3>1, <3>2
  <2> QED
    BY <2>1, <2>2
<1>14. Received'
  <2>1. \A k \in 1 .. n : k \in 1 .. m
    BY <1>9
  <2> QED
    BY <1>4, <1>9, <1>10, <2>1 DEF Received
<1> QED
  BY <1>12, <1>13, <1>14

(* A byte decrypted goes one step further on the same trail, and gives the
   byte that was encrypted there. *)
LEMMA DecryptKeeps ==
  ASSUME TypeOK, TypeOK', Trail, Ciphered, Received, DecryptByte
  PROVE  Trail' /\ Ciphered' /\ Received'
<1>1. PICK result \in Byte :
        /\ OneByte(Receiver, Head(wire), result)
        /\ got' = Append(got, result)
        /\ wire' = Tail(wire)
  BY DEF DecryptByte
<1>2. PICK S \in Side : S = Sender
  BY SideFacts
<1>3. PICK R \in Side : R = Receiver
  BY SideFacts
<1>4. /\ S # R /\ S = Sender' /\ R = Receiver' /\ busy' = busy
      /\ plain' = plain /\ trail' = trail /\ wire # <<>>
  BY <1>2, <1>3, SideFacts DEF DecryptByte, setupVars, Sender, Receiver
<1>5. Head(wire) \in Byte
  BY <1>4 DEF TypeOK
<1>6. /\ Generator(R)' = Next1(Generator(R))
      /\ result = XorBytes(Head(wire), KeyByte(Generator(R)'))
      /\ Generator(S)' = Generator(S)
  BY <1>1, <1>3, <1>2, <1>4, <1>5, OneByteAdvances
<1>7. PICK m, n, w \in Nat : m = Len(plain) /\ n = Len(got) /\ w + 1 = Len(wire) /\ m = n + w + 1
  <2>1. Len(wire) \in Nat /\ Len(wire) # 0 /\ Len(plain) \in Nat /\ Len(got) \in Nat
    BY <1>4 DEF TypeOK
  <2>2. Len(wire) - 1 \in Nat /\ (Len(wire) - 1) + 1 = Len(wire)
    BY <2>1
  <2> DEFINE w == Len(wire) - 1
  <2>3. /\ Len(plain) \in Nat /\ Len(got) \in Nat /\ w \in Nat
        /\ w + 1 = Len(wire) /\ Len(plain) = Len(got) + w + 1
    BY <2>1, <2>2 DEF Trail
  <2> QED
    BY <2>3, Zenon
<1>8. /\ Len(got') = n + 1 /\ Len(wire') = w
      /\ got'[n + 1] = result
      /\ \A k \in 1 .. n : got'[k] = got[k]
      /\ \A k \in 1 .. w : wire'[k] = wire[k + 1]
      /\ Head(wire) = wire[1]
  BY <1>1, <1>4, <1>7 DEF TypeOK
<1>9. Generator(S) = trail[m + 1] /\ Generator(R) = trail[n + 1]
  BY <1>2, <1>3, <1>7 DEF Trail
<1>10. Generator(R)' = trail[n + 2]
  <2>1. n + 1 \in 1 .. m /\ (n + 1) + 1 = n + 2
    BY <1>7
  <2>2. trail[n + 2] = Next1(trail[n + 1])
    BY <1>7, <2>1 DEF Trail
  <2> QED
    BY <1>6, <1>9, <2>2
<1>11. result = plain[n + 1]
  <2>1. 1 \in 1 .. w + 1 /\ n + 1 + 1 = n + 2 /\ n + 1 \in 1 .. m
    BY <1>7
  <2>2. wire[1] = XorBytes(plain[n + 1], KeyByte(trail[n + 2]))
    BY <1>7, <2>1 DEF Ciphered
  <2>3. plain[n + 1] \in Byte
    <3>1. plain \in Seq(Byte) /\ n + 1 \in 1 .. Len(plain)
      BY <1>7, <2>1 DEF TypeOK
    <3> QED
      BY <3>1
  <2>4. trail[n + 2] \in Box
    <3>1. n + 2 \in 1 .. m + 1
      BY <1>7
    <3> QED
      BY <1>7, <3>1 DEF TypeOK, Trail
  <2>5. KeyByte(trail[n + 2]) \in Byte
    BY <2>4, KeyByteType
  <2>6. XorBytes(XorBytes(plain[n + 1], KeyByte(trail[n + 2])), KeyByte(trail[n + 2])) = plain[n + 1]
    BY <2>3, <2>5, Rc4Assumption
  <2>7. result = XorBytes(wire[1], KeyByte(trail[n + 2]))
    BY <1>6, <1>8, <1>10
  <2> QED
    BY <2>2, <2>6, <2>7
<1>12. Trail'
  <2>1. Generator(Sender)' = Generator(S)' /\ Generator(Receiver)' = Generator(R)'
    BY <1>4 DEF Generator
  <2>2. m = (n + 1) + w /\ (n + 1) + 1 = n + 2
    BY <1>7
  <2> QED
    BY <1>4, <1>6, <1>7, <1>8, <1>9, <1>10, <2>1, <2>2 DEF Trail
<1>13. Ciphered'
  <2> SUFFICES ASSUME NEW k \in 1 .. w
               PROVE  wire'[k] = XorBytes(plain[(n + 1) + k], KeyByte(trail[(n + 1) + k + 1]))
    BY <1>4, <1>7, <1>8 DEF Ciphered, KeyByte
  <2>1. k + 1 \in 1 .. w + 1 /\ (n + 1) + k = n + (k + 1) /\ (n + 1) + k + 1 = n + (k + 1) + 1
    BY <1>7
  <2>2. wire[k + 1] = XorBytes(plain[n + (k + 1)], KeyByte(trail[n + (k + 1) + 1]))
    BY <1>7, <2>1 DEF Ciphered
  <2> QED
    BY <1>8, <2>1, <2>2, SMTT(20)
<1>14. Received'
  <2> SUFFICES ASSUME NEW k \in 1 .. n + 1 PROVE got'[k] = plain[k]
    BY <1>4, <1>8 DEF Received
  <2>1. CASE k = n + 1
    BY <1>8, <1>11, <2>1
  <2>2. CASE k # n + 1
    <3>1. k \in 1 .. n
      BY <1>7, <2>2
    <3> QED
      BY <1>7, <1>8, <3>1 DEF Received
  <2> QED
    BY <2>1, <2>2
<1> QED
  BY <1>12, <1>13, <1>14

(* Every step of setup, exchange and use keeps both sides on one trail. *)
LEMMA StreamStep ==
  ASSUME StreamInv, [Next]_vars
  PROVE  StreamInv'
<1> USE DEF StreamInv
<1>1. TypeOK' /\ BeforeTalk'
  BY TypeStep, BeforeStep
<1>2. CASE Setup \/ Mix \/ Mixed \/ Advance \/ Made \/ SendBox
  BY <1>1, <1>2 DEF Setup, Mix, Mixed, Advance, Made, SendBox
<1>3. CASE TakeBox
  BY <1>1, <1>3, BeginTalk
<1>4. ASSUME EncryptByte \/ DecryptByte \/ \E e \in Side : Call(e) \/ Return(e)
      PROVE  phase = "talking" /\ phase' = "talking"
  BY <1>4, SideFacts DEF EncryptByte, DecryptByte, OneByte, Call, Return, BeforeTalk, Quiet, setupVars
<1>5. CASE EncryptByte
  BY <1>1, <1>4, <1>5, EncryptKeeps
<1>6. CASE DecryptByte
  BY <1>1, <1>4, <1>6, DecryptKeeps
<1>7. CASE \E e \in Side : Call(e) \/ Return(e)
  <2>1. \A f \in Side : Generator(f)' = Generator(f)
    BY <1>7, CallsKeepGenerators
  <2>2. UNCHANGED <<kind, wire, plain, got, trail>>
    BY <1>7 DEF Call, Return, setupVars
  <2>3. Sender' = Sender /\ Receiver' = Receiver
    BY <2>2 DEF Sender, Receiver
  <2>4. Generator(Sender)' = Generator(Sender) /\ Generator(Receiver)' = Generator(Receiver)
    <3>1. PICK S, R \in Side : S = Sender /\ R = Receiver
      BY SideFacts
    <3>2. Generator(Sender)' = Generator(S)' /\ Generator(Receiver)' = Generator(R)'
      BY <2>3, <3>1 DEF Generator
    <3> QED
      BY <2>1, <3>1, <3>2
  <2>5. phase = "talking" /\ phase' = "talking"
    BY <1>4, <1>7
  <2>6. Trail'
    BY <2>2, <2>4, <2>5 DEF Trail
  <2>7. Ciphered' /\ Received'
    BY <2>2, <2>5 DEF Ciphered, Received, KeyByte
  <2> QED
    BY <1>1, <2>6, <2>7
<1>8. CASE UNCHANGED vars
  BY <1>1, <1>8 DEF vars, setupVars, streamVars, Trail, Ciphered, Received, Generator, Sender, Receiver, KeyByte
<1> QED
  BY <1>2, <1>3, <1>5, <1>6, <1>7, <1>8 DEF Next

(* Both sides of a channel are on one trail of states throughout. *)
THEOREM StreamCorrect == Spec => []StreamInv
BY InitStream, StreamStep, PTL DEF Spec

(* Every variable of Rc4 keeps its type. *)
THEOREM CipherTypes == Spec => []TypeOK
<1>1. StreamInv => TypeOK
  BY DEF StreamInv
<1> QED
  BY <1>1, StreamCorrect, PTL

(* cipher.rs:38: the receiver decrypts what the sender was given: for every
   table, key and transformation, and every cut of the stream into calls. *)
THEOREM RoundTripCorrect == Spec => []RoundTrip
<1>1. StreamInv => RoundTrip
  <2> SUFFICES ASSUME StreamInv PROVE RoundTrip
    OBVIOUS
  <2>1. Len(got) <= Len(plain) /\ Received
    BY DEF StreamInv, TypeOK, Trail, BeforeTalk, Quiet, Received
  <2>2. Len(got) \in 0 .. Len(plain) /\ got \in Seq(Byte) /\ plain \in Seq(Byte)
    BY <2>1 DEF StreamInv, TypeOK
  <2>3. /\ SubSeq(plain, 1, Len(got)) \in Seq(Byte)
        /\ Len(SubSeq(plain, 1, Len(got))) = Len(got)
        /\ \A k \in 1 .. Len(got) : SubSeq(plain, 1, Len(got))[k] = plain[k]
    BY <2>2
  <2>4. \A k \in 1 .. Len(got) : got[k] = SubSeq(plain, 1, Len(got))[k]
    BY <2>1, <2>3 DEF Received
  <2> QED
    BY <2>2, <2>3, <2>4, SeqEqual DEF RoundTrip
<1> QED
  BY <1>1, StreamCorrect, PTL

-----------------------------------------------------------------------------
(* A table that is a permutation of the bytes, or the zeros of a new box. *)
Fair(s) == s = ZeroTable \/ IsPermutation(s)

(* s.swap keeps a permutation. *)
LEMMA SwapFair ==
  ASSUME NEW s \in Table, NEW a \in Byte, NEW b \in Byte, Fair(s)
  PROVE  Fair(Swap(s, a, b))
<1>1. /\ Swap(s, a, b) \in Table
      /\ Swap(s, a, b)[b] = s[a]
      /\ a # b => Swap(s, a, b)[a] = s[b]
      /\ \A c \in Byte \ {a, b} : Swap(s, a, b)[c] = s[c]
  BY SwapType DEF Swap, Table
<1>2. CASE s = ZeroTable
  <2>1. \A c \in Byte : Swap(s, a, b)[c] = 0
    BY <1>1, <1>2 DEF ZeroTable
  <2>2. Swap(s, a, b) = [c \in Byte |-> 0]
    BY <1>1, <2>1 DEF Table
  <2> QED
    BY <2>2 DEF Fair, ZeroTable
<1>3. CASE IsPermutation(s)
  <2> HIDE DEF Swap
  <2> SUFFICES ASSUME NEW c \in Byte, NEW d \in Byte, c # d
               PROVE  Swap(s, a, b)[c] # Swap(s, a, b)[d]
    BY DEF Fair, IsPermutation
  <2>1. \A x, y \in Byte : x # y => s[x] # s[y]
    BY <1>3 DEF IsPermutation
  <2> QED
    BY <1>1, <2>1
<1> QED
  BY <1>2, <1>3 DEF Fair

(* A step of the generator keeps a permutation. *)
LEMMA AdvancedFair ==
  ASSUME NEW s \in Table, NEW a \in Byte, NEW b \in Byte, Fair(s)
  PROVE  Fair(Advanced(s, a, b).s)
<1> PICK c, d \in Byte : c = Advanced(s, a, b).i /\ d = Advanced(s, a, b).j
  BY AdvancedType
<1>1. Advanced(s, a, b).s = Swap(s, c, d)
  BY AdvancedType
<1> QED
  BY <1>1, SwapFair

Untransformed == kind = "game_tx" \/ phase \notin {"sent", "talking"}

(* Setup and use keep the table a permutation, unless it was transformed. *)
LEMMA PermutationStep ==
  ASSUME StreamInv, Permutation, [Next]_vars
  PROVE  Permutation'
<1> SUFFICES ASSUME Untransformed', NEW e \in Side
             PROVE  Fair(box'[e].s)
  BY DEF Permutation, Untransformed, Fair, IsPermutation, ZeroTable
<1>1. TypeOK /\ BeforeTalk
  BY DEF StreamInv
<1>2. \A f \in Side : box[f] \in Box /\ box[f].s \in Table /\ box[f].i \in Byte /\ box[f].j \in Byte
                    /\ i[f] \in Byte /\ j[f] \in Byte
  BY <1>1 DEF TypeOK, Box
<1>3. Untransformed
  BY <1>1 DEF Untransformed, Next, vars, setupVars, streamVars, Setup, Mix, Mixed, Advance, Made,
       SendBox, TakeBox, EncryptByte, DecryptByte, Call, Return, TypeOK
<1>4. \A f \in Side : Fair(box[f].s)
  BY <1>3 DEF Permutation, Untransformed, Fair
<1>5. CASE Setup
  <2>1. box' = [box EXCEPT !["server"] = [s |-> [n \in Byte |-> n], i |-> 0, j |-> 0]]
    BY <1>5 DEF Setup
  <2>2. IsPermutation([n \in Byte |-> n])
    BY DEF IsPermutation
  <2>3. box'[e] = box[e] \/ box'[e].s = [n \in Byte |-> n]
    BY <1>1, <2>1 DEF TypeOK
  <2> QED
    BY <1>4, <2>2, <2>3 DEF Fair
<1>6. CASE Mix
  <2>1. count \in Byte /\ extra \in Table
    BY <1>1, <1>6, Rc4Assumption DEF Mix, Byte, TypeOK
  <2> DEFINE j1 == (box["server"].j + box["server"].s[count] + extra[count]) % N
  <2>2. box["server"].s[count] \in Byte /\ extra[count] \in Byte /\ box["server"].j \in Byte
    BY <1>2, <2>1 DEF Table, Side
  <2>3. box["server"].j + box["server"].s[count] + extra[count] \in Nat
    BY <2>2, ByteNat, SumNat, Zenon
  <2>4. j1 \in Byte
    BY <2>3, ModByte
  <2>5. box' = [box EXCEPT !["server"] =
                 [box["server"] EXCEPT !.s = Swap(box["server"].s, count, j1), !.j = j1]]
    BY <1>6 DEF Mix
  <2> HIDE DEF j1
  <2>6. box'[e].s = box[e].s \/ box'[e].s = Swap(box["server"].s, count, j1)
    BY <1>1, <2>5 DEF TypeOK, Box
  <2>7. Fair(Swap(box["server"].s, count, j1))
    BY <1>2, <1>4, <2>1, <2>4, SwapFair DEF Side
  <2> QED
    BY <1>4, <2>6, <2>7
<1>7. CASE Mixed
  <2>1. box'[e].s = box[e].s
    BY <1>1, <1>2, <1>7 DEF Mixed, TypeOK, Box
  <2> QED
    BY <1>4, <2>1
<1>8. CASE Advance
  <2>1. "server" \in Side
    BY DEF Side
  <2>2. Fair(Advanced(box["server"].s, box["server"].i, box["server"].j).s)
    BY <1>2, <1>4, <2>1, AdvancedFair
  <2>3. box'[e] = box[e]
          \/ box'[e] = Advanced(box["server"].s, box["server"].i, box["server"].j)
    BY <1>1, <1>8 DEF Advance, TypeOK
  <2> QED
    BY <1>4, <2>2, <2>3
<1>9. CASE Made
  BY <1>4, <1>9 DEF Made
<1>10. CASE SendBox
  <2>1. kind # "game_rx"
    BY <1>10 DEF SendBox, Untransformed
  <2> QED
    BY <1>4, <1>10, <2>1 DEF SendBox
<1>11. CASE TakeBox
  <2>1. kind # "game_rx"
    BY <1>11 DEF TakeBox, Untransformed
  <2>2. box'[e] = box[e] \/ box'[e] = box["server"]
    BY <1>1, <1>11 DEF TakeBox, BeforeTalk, TypeOK
  <2> QED
    BY <1>4, <2>2 DEF Side
<1>12. ASSUME NEW f \in Side, NEW data, NEW result, OneByte(f, data, result)
       PROVE  Fair(box'[e].s)
  <2>1. box'[e].s = box[e].s \/ box'[e].s = Advanced(box[f].s, i[f], j[f]).s
    BY <1>1, <1>2, <1>12 DEF OneByte, TypeOK, Box
  <2>2. Fair(Advanced(box[f].s, i[f], j[f]).s)
    BY <1>2, <1>4, AdvancedFair
  <2> QED
    BY <1>4, <2>1, <2>2
<1>13. CASE EncryptByte
  BY <1>12, <1>13, SideFacts DEF EncryptByte
<1>14. CASE DecryptByte
  BY <1>12, <1>14, SideFacts DEF DecryptByte
<1>15. CASE \E f \in Side : Call(f) \/ Return(f)
  <2>1. box'[e].s = box[e].s
    BY <1>1, <1>2, <1>15, SMTT(20) DEF Call, Return, TypeOK, Box
  <2> QED
    BY <1>4, <2>1
<1>16. CASE UNCHANGED vars
  BY <1>4, <1>16 DEF vars
<1> QED
  BY <1>5, <1>6, <1>7, <1>8, <1>9, <1>10, <1>11, <1>13, <1>14, <1>15, <1>16 DEF Next

(* cipher.rs:85: the table is a permutation of the bytes at every moment, as long
   as nothing but setup and the generator works on it. *)
THEOREM PermutationCorrect == Spec => []Permutation
<1>1. Init => Permutation
  BY DEF Init, Permutation, NewBox
<1>2. StreamInv /\ Permutation /\ [Next]_vars => Permutation'
  BY PermutationStep
<1> QED
  BY <1>1, <1>2, StreamCorrect, PTL DEF Spec
=============================================================================
