------------------------ MODULE PacketFramingProofs ------------------------
(***************************************************************************)
(* Theorems about PacketFraming for every number of byte values, every     *)
(* buffer that has room for a read on top of an unfinished packet, every   *)
(* key and every set of bodies, and for every way a stream is cut.         *)
(***************************************************************************)
EXTENDS PacketFraming, SetInduction, SequenceTheorems, FiniteSetTheorems, TLAPS

(* FramingAssumption, spelled out as the provers need it. *)
LEMMA Constants ==
  /\ Base \in Nat \ {0} /\ Base >= 2
  /\ MaxSize \in Nat /\ MaxSize = Base * Base - 1 /\ MaxSize >= 4
  /\ Capacity \in Nat /\ MaxRead \in Nat /\ Capacity >= MaxSize - 1 + MaxRead
  /\ Key \in Seq(Byte) /\ Len(Key) \in Nat \ {0}
  /\ Bodies \subseteq Seq(Byte)
  /\ \A body \in Readable : Len(body) >= 2 /\ body[1] + Base * body[2] \in Known
  /\ Byte = 0 .. Base - 1
<1>1. Base \in Nat \ {0} /\ Base >= 2
  BY FramingAssumption
<1>2. MaxSize \in Nat /\ MaxSize = Base * Base - 1
  BY <1>1, FramingAssumption DEF MaxSize
<1>3. Len(Key) \in Nat \ {0}
  BY FramingAssumption, EmptySeq
<1>4. QED
  BY <1>1, <1>2, <1>3, FramingAssumption DEF Byte

(* Two digits make a number below Base * Base, and back. *)
LEMMA Digits ==
  ASSUME NEW a \in Nat
  PROVE  /\ a % Base \in Byte
         /\ a < Base * Base => a \div Base \in Byte
         /\ a = Base * (a \div Base) + (a % Base)
         /\ a < Base * Base => a % (Base * Base) = a
         /\ a % (Base * Base) \in Nat /\ a % (Base * Base) < Base * Base
<1> DEFINE B == Base
<1>0. B \in Nat \ {0}
  BY Constants
<1>1. a % B \in 0 .. B - 1
  BY <1>0
<1>2. a < B * B => a \div B < B /\ a \div B \in Nat
  BY <1>0, Z3
<1>3. a = B * (a \div B) + (a % B)
  BY <1>0
<1>4. B * B \in Nat \ {0}
  BY <1>0, Z3
<1>5. a < B * B => a % (B * B) = a
  BY <1>4, Z3
<1>6. a % (B * B) \in 0 .. (B * B) - 1
  BY <1>4
<1>7. a < B * B => a \div B \in 0 .. B - 1
  BY <1>0, <1>2
<1>8. a % (B * B) \in Nat /\ a % (B * B) < B * B
  BY <1>4, <1>6
<1>9. QED
  BY <1>1, <1>3, <1>5, <1>7, <1>8 DEF Byte

(* A size field of two bytes is a number up to MaxSize. *)
LEMMA Number ==
  ASSUME NEW low \in Byte, NEW high \in Byte
  PROVE  low + Base * high \in Nat /\ low + Base * high <= MaxSize
<1>1. low \in Nat /\ high \in Nat /\ low <= Base - 1 /\ high <= Base - 1
  BY Constants
<1>2. Base * high \in Nat /\ Base * high <= Base * (Base - 1)
  BY <1>1, Constants, Z3
<1>3. Base * (Base - 1) = Base * Base - Base
  BY Constants, Z3
<1>4. Base * Base \in Nat
  BY Constants, Z3
<1>5. QED
  BY <1>1, <1>2, <1>3, <1>4, Constants

(* What a frame consists of. *)
LEMMA FrameBytes ==
  ASSUME NEW body \in Seq(Byte)
  PROVE  /\ Frame(body) \in Seq(Byte)
         /\ Len(Frame(body)) = Len(body) + 2
         /\ Frame(body)[1] = ((Len(body) + 2) % (Base * Base)) % Base
         /\ Frame(body)[2] = ((Len(body) + 2) % (Base * Base)) \div Base
         /\ \A i \in 3 .. Len(body) + 2 : Frame(body)[i] = body[i - 2]
<1> DEFINE size == (Len(body) + 2) % (Base * Base)
           head == <<size % Base, size \div Base>>
<1>1. Len(body) \in Nat
  BY LenProperties
<1>2. size \in Nat /\ size < Base * Base
  BY <1>1, Digits
<1>3. size % Base \in Byte /\ size \div Base \in Byte
  BY <1>2, Digits
<1>4. head \in Seq(Byte) /\ Len(head) = 2 /\ head[1] = size % Base /\ head[2] = size \div Base
  BY <1>3
<1>5. Frame(body) = head \o body
  BY DEF Frame
<1> HIDE DEF head
<1>a. /\ head \o body \in Seq(Byte)
      /\ Len(head \o body) = Len(head) + Len(body)
      /\ \A i \in 1 .. Len(head) + Len(body) :
           (head \o body)[i] = IF i <= Len(head) THEN head[i] ELSE body[i - Len(head)]
  BY <1>4, ConcatProperties, Zenon
<1>6. /\ head \o body \in Seq(Byte)
      /\ Len(head \o body) = 2 + Len(body)
      /\ \A i \in 1 .. 2 + Len(body) :
           (head \o body)[i] = IF i <= 2 THEN head[i] ELSE body[i - 2]
  BY <1>4, <1>a
<1>7. QED
  BY <1>1, <1>4, <1>5, <1>6

(* The first n elements of a sequence. *)
LEMMA Prefix ==
  ASSUME NEW S, NEW s \in Seq(S), NEW n \in 0 .. Len(s)
  PROVE  /\ SubSeq(s, 1, n) \in Seq(S)
         /\ Len(SubSeq(s, 1, n)) = n
         /\ \A i \in 1 .. n : SubSeq(s, 1, n)[i] = s[i]
<1>1. Len(s) \in Nat /\ \A i \in 1 .. n : s[i] \in S
  BY ElementOfSeq
<1>2. QED
  BY <1>1, SubSeqProperties

(* A sequence without its first n elements. *)
LEMMA Suffix ==
  ASSUME NEW S, NEW s \in Seq(S), NEW n \in 0 .. Len(s)
  PROVE  /\ SubSeq(s, n + 1, Len(s)) \in Seq(S)
         /\ Len(SubSeq(s, n + 1, Len(s))) = Len(s) - n
         /\ \A i \in 1 .. Len(s) - n : SubSeq(s, n + 1, Len(s))[i] = s[n + i]
<1>1. Len(s) \in Nat /\ \A i \in n + 1 .. Len(s) : s[i] \in S
  BY ElementOfSeq
<1>2. QED
  BY <1>1, SubSeqProperties

-----------------------------------------------------------------------------
(* Types.  Between two loops there is less than one packet in the buffer, so *)
(* that the next read fits.                                                  *)
RoomInv == mode \in {"uninit", "waiting", "writing"} => Len(rxbuf) < MaxSize

TypeInv == TypeOK /\ RoomInv /\ lost = 0

(* A new connection has the types. *)
LEMMA InitType == Init => TypeInv
<1> SUFFICES ASSUME Init PROVE TypeInv
  OBVIOUS
<1>1. rxbuf = <<>> /\ Len(rxbuf) = 0
  BY DEF Init
<1>2. ~PacketArrived
  BY <1>1 DEF PacketArrived, HeaderSize
<1>3. TypeOK
  <2>1. <<>> \in Seq(Byte) /\ <<>> \in Seq(Bodies) /\ <<>> \in Seq(Seq(Byte)) /\ Key \in Seq(Byte)
    BY Constants
  <2>2. QED
    BY <1>2, <2>1 DEF Init, TypeOK, Modes
<1>4. QED
  BY <1>1, <1>3, Constants DEF Init, TypeInv, RoomInv

(* Without a change of the buffer a packet lies in it or not as before. *)
LEMMA SameBuffer ==
  ASSUME UNCHANGED rxbuf
  PROVE  PacketArrived' = PacketArrived /\ Len(rxbuf') = Len(rxbuf)
BY DEF PacketArrived, Size, HeaderSize

(* The size read from a header (process_client_data) is a number up to
   MaxSize. *)
LEMMA SizeType ==
  ASSUME TypeInv, Len(rxbuf) >= HeaderSize
  PROVE  Size \in Nat /\ Size <= MaxSize
<1>1. rxbuf \in Seq(Byte) /\ Len(rxbuf) >= 2
  BY DEF TypeInv, TypeOK, HeaderSize
<1>2. rxbuf[1] \in Byte /\ rxbuf[2] \in Byte
  BY <1>1, ElementOfSeq
<1>3. QED
  BY <1>2, Number DEF Size

(* A packet the peer writes keeps the types. *)
LEMMA SendType ==
  ASSUME TypeInv, NEW body \in Bodies, Send(body)
  PROVE  TypeInv'
<1>1. Frame(body) \in Seq(Byte)
  BY FrameBytes, Constants
<1>2. net' \in Seq(Byte)
  BY <1>1, ConcatProperties DEF Send, TypeInv, TypeOK
<1>3. QED
  BY <1>2, SameBuffer DEF Send, TypeInv, TypeOK, RoomInv

(* A read, of the key or of packets, keeps the types. *)
LEMMA ReadType ==
  ASSUME TypeInv, NEW n \in 1 .. MaxRead, Read(n)
  PROVE  TypeInv'
<1>1. n \in 0 .. Len(net) /\ n <= MaxRead /\ net \in Seq(Byte)
  BY Constants DEF Read, TypeInv, TypeOK
<1>2. /\ SubSeq(net, n + 1, Len(net)) \in Seq(Byte)
      /\ Arrived(n) \in Seq(Byte)
      /\ Len(Arrived(n)) = n
  BY <1>1, Prefix, Suffix DEF Arrived
<1>3. CASE ReadKey(n)
  BY <1>2, <1>3, SameBuffer DEF ReadKey, TypeInv, TypeOK, RoomInv, Modes
<1>4. CASE ReadData(n)
  <2>1. Len(rxbuf) \in Nat /\ Len(rxbuf) < MaxSize
    BY <1>4 DEF ReadData, TypeInv, TypeOK, RoomInv
  <2>2. n <= Capacity - Len(rxbuf)
    BY <1>1, <2>1, Constants
  <2>3. rxbuf' = rxbuf \o Arrived(n) /\ lost' = lost + (n - n)
    BY <1>4, <2>2 DEF ReadData, Keep
  <2>4. rxbuf' \in Seq(Byte) /\ lost' = 0
    BY <1>1, <1>2, <2>3, ConcatProperties DEF TypeInv, TypeOK
  <2>5. QED
    BY <1>2, <1>4, <2>4 DEF ReadData, TypeInv, TypeOK, RoomInv, Modes
<1>5. QED
  BY <1>3, <1>4 DEF Read

(* One packet of process_client_data's loop keeps the types. *)
LEMMA TakeType ==
  ASSUME TypeInv, Take
  PROVE  TypeInv'
<1> DEFINE body == SubSeq(rxbuf, 3, Size)
<1>1. rxbuf \in Seq(Byte) /\ Size \in 0 .. Len(rxbuf)
  BY SizeType DEF Take, PacketArrived, TypeInv, TypeOK
<1>2. SubSeq(rxbuf, Size + 1, Len(rxbuf)) \in Seq(Byte)
  BY <1>1, Suffix
<1>3. body \in Seq(Byte)
  <2>1. \A i \in 3 .. Size : rxbuf[i] \in Byte
    BY <1>1, ElementOfSeq
  <2>2. QED
    BY <1>1, <2>1, SubSeqProperties
<1>4. /\ taken' \in Seq(Seq(Byte))
      /\ handled' \in Seq(Seq(Byte))
      /\ mode' \in {"taking", "handling", "panicked"}
  <2>1. taken \in Seq(Seq(Byte)) /\ handled \in Seq(Seq(Byte))
    BY DEF TypeInv, TypeOK
  <2>2. Append(taken, body) \in Seq(Seq(Byte)) /\ Append(handled, body) \in Seq(Seq(Byte))
    BY <1>3, <2>1
  <2>3. QED
    BY <2>1, <2>2 DEF Take, Cut, SkipUnread
<1>5. QED
  BY <1>2, <1>4 DEF Take, TypeInv, TypeOK, RoomInv, Modes

(* A loop that ends leaves less than a packet, and room for a read. *)
LEMMA LeaveType ==
  ASSUME TypeInv, LeaveLoop
  PROVE  TypeInv'
<1>1. Len(rxbuf) \in Nat /\ MaxSize \in Nat /\ MaxSize >= 4
  BY Constants DEF TypeInv, TypeOK
<1>2. Len(rxbuf) < MaxSize
  BY <1>1, SizeType DEF LeaveLoop, PacketArrived, HeaderSize
<1>3. UNCHANGED rxbuf /\ ~PacketArrived /\ mode' \in {"waiting", "writing"} /\ reply' = FALSE
  BY DEF LeaveLoop
<1>4. ~PacketArrived' /\ Len(rxbuf') < MaxSize
  BY <1>2, <1>3, SameBuffer
<1>5. QED
  BY <1>3, <1>4 DEF LeaveLoop, TypeInv, TypeOK, RoomInv, Modes

(* The steps that touch no bytes keep the types. *)
LEMMA OtherType ==
  ASSUME TypeInv, HandlerEnds \/ FromShard \/ Written \/ Close
  PROVE  TypeInv'
<1>1. CASE HandlerEnds
  BY <1>1 DEF HandlerEnds, TypeInv, TypeOK, RoomInv, Modes
<1>2. CASE FromShard \/ Written \/ Close
  BY <1>2, SameBuffer DEF FromShard, Written, Close, TypeInv, TypeOK, RoomInv, Modes
<1>3. QED
  BY <1>1, <1>2

(* The types hold throughout, and there is room for every read. *)
LEMMA TypeCorrect == Spec => []TypeInv
<1>1. TypeInv /\ [Next]_vars => TypeInv'
  <2>1. TypeInv /\ UNCHANGED vars => TypeInv'
    BY SameBuffer DEF vars, TypeInv, TypeOK, RoomInv
  <2>2. QED
    BY <2>1, SendType, ReadType, TakeType, LeaveType, OtherType DEF Next, SomeRead
<1>2. QED
  BY InitType, <1>1, PTL DEF Spec

(* No byte of a stream is lost: after every loop a read of any size fits into
   the ring buffer (connection.rs:179). *)
THEOREM NothingLostCorrect == Spec => []NothingLost
<1>1. TypeInv => NothingLost
  BY DEF TypeInv, NothingLost
<1>2. QED
  BY <1>1, TypeCorrect, PTL

-----------------------------------------------------------------------------
(* The key.  Until it is accepted nothing but the key has been sent, and     *)
(* only a read of all of it has its length.                                  *)
KeyInv ==
  /\ mode = "uninit" =>
       /\ sent = <<>> /\ taken = <<>> /\ rxbuf = <<>>
       /\ Len(net) <= Len(Key)
       /\ Len(net) = Len(Key) => net = Key
  /\ mode \notin {"uninit", "closed"} => key = Key

(* A read in CipherState::Uninit takes the whole key and nothing else, or
   ignores what it read. *)
LEMMA ReadKeyStep ==
  ASSUME TypeInv, KeyInv, NEW n \in 1 .. Len(net), ReadKey(n)
  PROVE  /\ KeyInv'
         /\ mode' # "uninit" => net' = <<>>
<1>1. /\ net \in Seq(Byte) /\ Len(net) \in Nat /\ n \in 0 .. Len(net)
      /\ Len(Key) \in Nat /\ Key \in Seq(Byte)
      /\ mode = "uninit" /\ Len(net) <= Len(Key)
  BY Constants DEF TypeInv, TypeOK, ReadKey, KeyInv
<1>2. /\ Arrived(n) \in Seq(Byte) /\ Len(Arrived(n)) = n
      /\ \A i \in 1 .. n : Arrived(n)[i] = net[i]
  BY <1>1, Prefix DEF Arrived
<1>3. net' \in Seq(Byte) /\ Len(net') = Len(net) - n
  BY <1>1, Suffix DEF ReadKey
<1>4. CASE IsKey(Arrived(n))
  <2>1. n = Len(Key) /\ n = Len(net) /\ net = Key
    BY <1>1, <1>2, <1>4 DEF IsKey, KeyInv
  <2>2. Arrived(n) = Key
    BY <1>1, <1>2, <2>1, SeqEqual
  <2>3. net' = <<>>
    BY <1>3, <2>1, EmptySeq
  <2>4. QED
    BY <1>4, <2>2, <2>3 DEF ReadKey, KeyInv
<1>5. CASE ~IsKey(Arrived(n))
  BY <1>1, <1>3, <1>5 DEF ReadKey, KeyInv
<1>6. QED
  BY <1>4, <1>5

(* A connection that left Uninit has its peer's key, throughout. *)
LEMMA KeyCorrect == Spec => [](TypeInv /\ KeyInv)
<1>1. Init => KeyInv
  BY DEF Init, KeyInv
<1>2. TypeInv /\ KeyInv /\ [Next]_vars => KeyInv'
  <2> SUFFICES ASSUME TypeInv, KeyInv, [Next]_vars
               PROVE  KeyInv'
    OBVIOUS
  <2>1. ASSUME NEW body \in Bodies, Send(body)
        PROVE  KeyInv'
    BY <2>1 DEF Send, KeyInv
  <2>2. ASSUME NEW n \in 1 .. MaxRead, Read(n)
        PROVE  KeyInv'
    BY <2>2, ReadKeyStep DEF Read, ReadData, KeyInv
  <2>3. CASE Take
    BY <2>3 DEF Take, Cut, SkipUnread, KeyInv
  <2>4. CASE LeaveLoop \/ HandlerEnds \/ FromShard \/ Written \/ Close
    BY <2>4 DEF LeaveLoop, HandlerEnds, FromShard, Written, Close, KeyInv
  <2>5. CASE UNCHANGED vars
    BY <2>5 DEF vars, KeyInv
  <2>6. QED
    BY <2>1, <2>2, <2>3, <2>4, <2>5 DEF Next, SomeRead
<1>3. QED
  BY TypeCorrect, <1>1, <1>2, PTL DEF Spec

(* A connection never works with a key its peer did not send, however the key
   is cut (connection.rs:90). *)
THEOREM KeyIsWholeCorrect == Spec => []KeyIsWhole
<1>1. KeyInv => KeyIsWhole
  BY DEF KeyInv, KeyIsWhole
<1>2. QED
  BY <1>1, KeyCorrect, PTL

-----------------------------------------------------------------------------
(* Framing.  As long as only well-formed packets were taken, the bytes in    *)
(* the buffer r and on their way n are the frames of the packets not taken,  *)
(* one behind the other: off[k] is where the frame of packet k ends.         *)
Unread(r, n, i) == IF i <= Len(r) THEN r[i] ELSE n[i - Len(r)]

Layout(off, s, t, r, n) ==
  /\ off[t] = 0
  /\ off[Len(s)] = Len(r) + Len(n)
  /\ \A j, k \in t .. Len(s) : j <= k => off[j] <= off[k]
  /\ \A k \in t + 1 .. Len(s) : off[k] = off[k - 1] + Len(s[k]) + 2
  /\ \A k \in t + 1 .. Len(s) : \A i \in 1 .. Len(s[k]) + 2 :
       Unread(r, n, off[k - 1] + i) = Frame(s[k])[i]

Aligned ==
  /\ Len(taken) <= Len(sent)
  /\ \E off \in [Len(taken) .. Len(sent) -> Nat] :
       Layout(off, sent, Len(taken), rxbuf, net)

TakenWellFormed ==
  \A j \in 1 .. Len(taken) : j <= Len(sent) => WellFormed(sent[j])

(* A handler works on the packet that was taken last. *)
GivenInv ==
  mode = "handling" =>
    /\ Len(taken) >= 1 /\ Len(handled) >= 1
    /\ handled[Len(handled)] = taken[Len(taken)]

FrameInv ==
  /\ mode \notin {"uninit", "closed", "panicked"} /\ TakenWellFormed => Aligned
  /\ SoundUntilHarmful
  /\ GivenInv

(* Lengths are numbers. *)
LEMMA Lengths ==
  ASSUME TypeInv
  PROVE  /\ Len(sent) \in Nat /\ Len(taken) \in Nat
         /\ Len(rxbuf) \in Nat /\ Len(net) \in Nat
         /\ \A k \in 1 .. Len(sent) : sent[k] \in Seq(Byte) /\ Len(sent[k]) \in Nat
<1>1. sent \in Seq(Bodies)
  BY DEF TypeInv, TypeOK
<1>2. \A k \in 1 .. Len(sent) : sent[k] \in Seq(Byte)
  BY <1>1, ElementOfSeq, Constants
<1>3. QED
  BY <1>1, <1>2, LenProperties DEF TypeInv, TypeOK

(* A byte of a frame lies within the stream that has the whole frame. *)
LEMMA Within ==
  ASSUME NEW x \in Nat, NEW y \in Nat, NEW l \in Nat, NEW e \in Nat,
         y = x + l + 2, y <= e, NEW i \in 1 .. l + 2
  PROVE  x + i \in 1 .. e
  OBVIOUS

(* Frames keep their place against each other when bytes before them are
   taken. *)
LEMMA Shifted ==
  ASSUME NEW x \in Nat, NEW y \in Nat, NEW l \in Nat, NEW e \in Nat, NEW d \in Nat,
         y = x + l + 2, y <= e, d <= x
  PROVE  /\ y - d = (x - d) + l + 2
         /\ x - d \in Nat /\ y - d \in Nat /\ e - d \in Nat
         /\ y - d <= e - d
  OBVIOUS

(* A new packet's frame comes behind all others. *)
LEMMA SendAligned ==
  ASSUME TypeInv, Aligned, NEW body \in Bodies, Send(body)
  PROVE  Aligned'
<1> DEFINE m == Len(sent)
           t == Len(taken)
           end == Len(rxbuf) + Len(net)
<1>1. /\ m \in Nat /\ t \in Nat /\ Len(rxbuf) \in Nat /\ Len(net) \in Nat /\ end \in Nat
      /\ t <= m
  BY Lengths DEF Aligned
<1>2. /\ Frame(body) \in Seq(Byte)
      /\ Len(Frame(body)) = Len(body) + 2
      /\ Len(body) \in Nat
  BY FrameBytes, Constants, LenProperties
<1>3. /\ sent \in Seq(Bodies)
      /\ sent' = Append(sent, body)
      /\ UNCHANGED <<taken, rxbuf>>
  BY DEF Send, TypeInv, TypeOK
<1>4. /\ Len(sent') = m + 1
      /\ sent'[m + 1] = body
      /\ \A k \in 1 .. m : sent'[k] = sent[k]
  BY <1>3
<1>5. /\ Len(net') = Len(net) + Len(body) + 2
      /\ \A i \in 1 .. Len(net) : net'[i] = net[i]
      /\ \A i \in 1 .. Len(body) + 2 : net'[Len(net) + i] = Frame(body)[i]
  <2>1. net \in Seq(Byte) /\ net' = net \o Frame(body)
    BY DEF Send, TypeInv, TypeOK
  <2>2. /\ Len(net') = Len(net) + Len(Frame(body))
        /\ \A i \in 1 .. Len(net) + Len(Frame(body)) : net'[i] =
             IF i <= Len(net) THEN net[i] ELSE Frame(body)[i - Len(net)]
    BY <1>2, <2>1, ConcatProperties
  <2>3. QED
    BY <1>1, <1>2, <2>2, SMTT(20)
<1>6. /\ \A i \in 1 .. end : Unread(rxbuf', net', i) = Unread(rxbuf, net, i)
      /\ \A i \in 1 .. Len(body) + 2 : Unread(rxbuf', net', end + i) = Frame(body)[i]
  <2>1. ASSUME NEW i \in 1 .. end
        PROVE  Unread(rxbuf', net', i) = Unread(rxbuf, net, i)
    <3>1. i > Len(rxbuf) => i - Len(rxbuf) \in 1 .. Len(net)
      BY <1>1
    <3>2. i > Len(rxbuf) => net'[i - Len(rxbuf)] = net[i - Len(rxbuf)]
      BY <1>5, <3>1
    <3>3. QED
      BY <1>1, <1>3, <3>2 DEF Unread
  <2>2. ASSUME NEW i \in 1 .. Len(body) + 2
        PROVE  Unread(rxbuf', net', end + i) = Frame(body)[i]
    <3>1. ~(end + i <= Len(rxbuf)) /\ end + i - Len(rxbuf) = Len(net) + i
      BY <1>1, <1>2
    <3>2. QED
      BY <1>3, <1>5, <3>1 DEF Unread
  <2>3. QED
    BY <2>1, <2>2
<1>7. PICK off \in [t .. m -> Nat] : Layout(off, sent, t, rxbuf, net)
  BY DEF Aligned
<1>8. /\ off[t] = 0 /\ off[m] = end
      /\ \A k \in t .. m : off[k] \in Nat
      /\ \A j, k \in t .. m : j <= k => off[j] <= off[k]
      /\ \A k \in t + 1 .. m : off[k] = off[k - 1] + Len(sent[k]) + 2
      /\ \A k \in t + 1 .. m : \A i \in 1 .. Len(sent[k]) + 2 :
           Unread(rxbuf, net, off[k - 1] + i) = Frame(sent[k])[i]
  BY <1>7 DEF Layout
<1>9. \A k \in t .. m : off[k] <= end
  BY <1>1, <1>8
<1> DEFINE new == [k \in t .. m + 1 |-> IF k <= m THEN off[k] ELSE end + Len(body) + 2]
<1>10. /\ new \in [t .. m + 1 -> Nat]
       /\ \A k \in t .. m : new[k] = off[k]
       /\ new[m + 1] = end + Len(body) + 2
  BY <1>1, <1>2, <1>8
<1> HIDE DEF new
<1>11. Layout(new, sent', t, rxbuf', net')
  <2>1. new[t] = 0 /\ new[m + 1] = Len(rxbuf') + Len(net')
    BY <1>1, <1>2, <1>3, <1>5, <1>8, <1>10
  <2>2. ASSUME NEW j \in t .. m + 1, NEW k \in t .. m + 1, j <= k
        PROVE  new[j] <= new[k]
    <3>1. CASE k <= m
      BY <1>1, <1>8, <1>10, <2>2, <3>1
    <3>2. CASE k = m + 1 /\ j <= m
      <4>1. j \in t .. m
        BY <1>1, <2>2, <3>2
      <4>2. new[j] \in Nat /\ new[j] <= end
        BY <1>8, <1>9, <1>10, <4>1
      <4>3. QED
        BY <1>1, <1>2, <1>10, <3>2, <4>2
    <3>3. CASE k = m + 1 /\ j = m + 1
      BY <1>1, <1>2, <1>10, <3>3
    <3>4. QED
      BY <1>1, <3>1, <3>2, <3>3
  <2>3. ASSUME NEW k \in t + 1 .. m + 1
        PROVE  /\ new[k] = new[k - 1] + Len(sent'[k]) + 2
               /\ \A i \in 1 .. Len(sent'[k]) + 2 :
                    Unread(rxbuf', net', new[k - 1] + i) = Frame(sent'[k])[i]
    <3>1. CASE k <= m
      <4>1. k \in t + 1 .. m /\ k \in t .. m /\ k - 1 \in t .. m /\ k \in 1 .. m
        BY <1>1, <3>1
      <4>2. sent'[k] = sent[k] /\ Len(sent[k]) \in Nat
        BY <1>4, <4>1, Lengths
      <4>3. /\ new[k - 1] = off[k - 1] /\ new[k] = off[k]
            /\ off[k] = off[k - 1] + Len(sent[k]) + 2
            /\ off[k] <= end /\ off[k - 1] \in Nat /\ off[k] \in Nat
        BY <1>8, <1>9, <1>10, <4>1
      <4>4. ASSUME NEW i \in 1 .. Len(sent[k]) + 2
            PROVE  Unread(rxbuf', net', off[k - 1] + i) = Frame(sent[k])[i]
        <5>1. off[k - 1] + i \in 1 .. end
          BY <1>1, <4>2, <4>3, Within, Zenon
        <5>2. Unread(rxbuf, net, off[k - 1] + i) = Frame(sent[k])[i]
          BY <1>8, <4>1
        <5>3. QED
          BY <1>6, <5>1, <5>2
      <4>5. QED
        BY <4>2, <4>3, <4>4
    <3>2. CASE k = m + 1
      <4>1. k - 1 = m /\ m \in t .. m /\ sent'[k] = body
        BY <1>1, <1>4, <3>2
      <4>2. new[k] = end + Len(body) + 2 /\ new[k - 1] = end
        BY <1>8, <1>10, <3>2, <4>1
      <4>3. QED
        BY <1>6, <4>1, <4>2
    <3>3. QED
      BY <1>1, <3>1, <3>2
  <2>4. QED
    BY <1>4, <2>1, <2>2, <2>3 DEF Layout
<1>12. QED
  BY <1>1, <1>3, <1>4, <1>10, <1>11 DEF Aligned

(* Moving bytes from the stream into the buffer changes no byte's place. *)
LEMMA ReadAligned ==
  ASSUME TypeInv, Aligned, NEW n \in 1 .. MaxRead, n \in 1 .. Len(net), ReadData(n)
  PROVE  Aligned'
<1> DEFINE t == Len(taken)
           end == Len(rxbuf) + Len(net)
<1>1. /\ Len(rxbuf) \in Nat /\ Len(net) \in Nat /\ n \in 0 .. Len(net) /\ n \in Nat
      /\ rxbuf \in Seq(Byte) /\ net \in Seq(Byte) /\ t \in Nat /\ Len(sent) \in Nat
  BY Lengths DEF TypeInv, TypeOK
<1>2. Len(rxbuf) < MaxSize
  BY DEF ReadData, TypeInv, RoomInv
<1>3. n <= Capacity - Len(rxbuf)
  BY <1>1, <1>2, Constants
<1>4. /\ Arrived(n) \in Seq(Byte) /\ Len(Arrived(n)) = n
      /\ \A i \in 1 .. n : Arrived(n)[i] = net[i]
  BY <1>1, Prefix DEF Arrived
<1>5. /\ rxbuf' = rxbuf \o Arrived(n)
      /\ net' = SubSeq(net, n + 1, Len(net))
      /\ UNCHANGED <<sent, taken>>
  BY <1>3 DEF ReadData, Keep
<1>6. /\ Len(rxbuf') = Len(rxbuf) + n
      /\ \A i \in 1 .. Len(rxbuf) + n :
           rxbuf'[i] = IF i <= Len(rxbuf) THEN rxbuf[i] ELSE Arrived(n)[i - Len(rxbuf)]
  <2>1. /\ Len(rxbuf \o Arrived(n)) = Len(rxbuf) + Len(Arrived(n))
        /\ \A i \in 1 .. Len(rxbuf) + Len(Arrived(n)) : (rxbuf \o Arrived(n))[i] =
             IF i <= Len(rxbuf) THEN rxbuf[i] ELSE Arrived(n)[i - Len(rxbuf)]
    BY <1>1, <1>4, ConcatProperties, Zenon
  <2>2. QED
    BY <1>4, <1>5, <2>1
<1>7. /\ Len(net') = Len(net) - n
      /\ \A i \in 1 .. Len(net) - n : net'[i] = net[n + i]
  BY <1>1, <1>5, Suffix
<1>8. ASSUME NEW i \in 1 .. end
      PROVE  Unread(rxbuf', net', i) = Unread(rxbuf, net, i)
  <2>1. CASE i <= Len(rxbuf)
    <3>1. i \in 1 .. Len(rxbuf) + n /\ i <= Len(rxbuf')
      BY <1>1, <1>6, <2>1
    <3>2. QED
      BY <1>6, <2>1, <3>1 DEF Unread
  <2>2. CASE i > Len(rxbuf) /\ i <= Len(rxbuf) + n
    <3>1. /\ i \in 1 .. Len(rxbuf) + n /\ i <= Len(rxbuf') /\ ~(i <= Len(rxbuf))
          /\ i - Len(rxbuf) \in 1 .. n
      BY <1>1, <1>6, <2>2
    <3>2. QED
      BY <1>4, <1>6, <3>1 DEF Unread
  <2>3. CASE i > Len(rxbuf) + n
    <3>1. /\ ~(i <= Len(rxbuf')) /\ ~(i <= Len(rxbuf))
          /\ i - Len(rxbuf') \in 1 .. Len(net) - n
          /\ n + (i - Len(rxbuf')) = i - Len(rxbuf)
      BY <1>1, <1>6, <2>3
    <3>2. QED
      BY <1>7, <3>1 DEF Unread
  <2>4. QED
    BY <1>1, <2>1, <2>2, <2>3
<1>9. PICK off \in [t .. Len(sent) -> Nat] : Layout(off, sent, t, rxbuf, net)
  BY DEF Aligned
<1>10. ASSUME NEW k \in t + 1 .. Len(sent), NEW i \in 1 .. Len(sent[k]) + 2
       PROVE  Unread(rxbuf', net', off[k - 1] + i) = Frame(sent[k])[i]
  <2>1. /\ k \in t .. Len(sent) /\ k - 1 \in t .. Len(sent) /\ k \in 1 .. Len(sent)
        /\ Len(sent) \in t .. Len(sent) /\ k <= Len(sent)
    BY <1>1
  <2>2. /\ off[k] = off[k - 1] + Len(sent[k]) + 2
        /\ off[k] <= end /\ off[k - 1] \in Nat /\ off[k] \in Nat /\ end \in Nat
        /\ Len(sent[k]) \in Nat
    <3>1. off[k] = off[k - 1] + Len(sent[k]) + 2
      BY <1>9 DEF Layout
    <3>2. off[k] <= off[Len(sent)] /\ off[Len(sent)] = end
      BY <1>9, <2>1 DEF Layout
    <3>3. off[k - 1] \in Nat /\ off[k] \in Nat
      BY <1>9, <2>1
    <3>4. Len(sent[k]) \in Nat
      BY <2>1, Lengths
    <3>5. QED
      BY <1>1, <3>1, <3>2, <3>3, <3>4
  <2>3. off[k - 1] + i \in 1 .. end
    BY <2>2, Within, Zenon
  <2>4. QED
    BY <1>8, <1>9, <2>3 DEF Layout
<1>11. Len(rxbuf') + Len(net') = end
  BY <1>1, <1>6, <1>7
<1>12. Layout(off, sent, t, rxbuf', net')
  BY <1>9, <1>10, <1>11 DEF Layout
<1>13. QED
  BY <1>5, <1>9, <1>12 DEF Aligned

(* In an aligned stream the next packet comes out as it was sent. *)
LEMMA NextFrame ==
  ASSUME TypeInv, Aligned, PacketArrived,
         Len(taken) + 1 <= Len(sent) => WellFormed(sent[Len(taken) + 1])
  PROVE  /\ Len(taken) + 1 <= Len(sent)
         /\ Size = Len(sent[Len(taken) + 1]) + 2 /\ Size >= 4
         /\ SubSeq(rxbuf, 3, Size) = sent[Len(taken) + 1]
<1> DEFINE t == Len(taken)
           body == sent[t + 1]
<1>1. /\ t \in Nat /\ Len(sent) \in Nat /\ Len(rxbuf) \in Nat /\ Len(net) \in Nat
      /\ rxbuf \in Seq(Byte) /\ Len(rxbuf) >= 4 /\ Size <= Len(rxbuf)
      /\ t <= Len(sent)
  BY Lengths DEF TypeInv, TypeOK, PacketArrived, HeaderSize, Aligned
<1>2. PICK off \in [t .. Len(sent) -> Nat] : Layout(off, sent, t, rxbuf, net)
  BY DEF Aligned
<1>3. t + 1 <= Len(sent)
  <2>1. t # Len(sent)
    BY <1>1, <1>2 DEF Layout
  <2>2. QED
    BY <1>1, <2>1
<1>4. /\ body \in Seq(Byte) /\ Len(body) \in Nat
      /\ Len(body) >= 2 /\ Len(body) + 2 <= MaxSize
  BY <1>1, <1>3, Lengths DEF WellFormed
<1>5. \A i \in 1 .. Len(body) + 2 : Unread(rxbuf, net, i) = Frame(body)[i]
  <2>1. t + 1 \in t + 1 .. Len(sent) /\ (t + 1) - 1 = t /\ off[t] = 0
    BY <1>1, <1>2, <1>3 DEF Layout
  <2>2. \A i \in 1 .. Len(body) + 2 : Unread(rxbuf, net, off[t] + i) = Frame(body)[i]
    BY <1>2, <2>1 DEF Layout
  <2>3. \A i \in 1 .. Len(body) + 2 : off[t] + i = i
    BY <1>4, <2>1
  <2>4. QED
    BY <2>2, <2>3
<1>6. rxbuf[1] = Frame(body)[1] /\ rxbuf[2] = Frame(body)[2]
  BY <1>1, <1>4, <1>5 DEF Unread
<1>7. Size = Len(body) + 2
  <2> DEFINE a == Len(body) + 2
  <2>1. a \in Nat /\ a < Base * Base
    BY <1>4, Constants, SMTT(20)
  <2>2. a % (Base * Base) = a /\ a = Base * (a \div Base) + (a % Base)
        /\ a % Base \in Byte /\ a \div Base \in Byte
    BY <2>1, Digits
  <2>3. rxbuf[1] = a % Base /\ rxbuf[2] = a \div Base
    BY <1>4, <1>6, <2>2, FrameBytes
  <2>4. Base * (a \div Base) \in Nat /\ a % Base \in Nat
    <3> DEFINE q == a \div Base
    <3>0. Base \in Nat /\ \A x \in Byte : x \in Nat
      BY Constants
    <3>1. q \in Nat /\ a % Base \in Nat /\ Base \in Nat
      BY <2>2, <3>0, Zenon
    <3> HIDE DEF q
    <3>2. Base * q \in Nat
      BY <3>1, Z3
    <3>3. QED
      BY <3>1, <3>2 DEF q
  <2>5. QED
    BY <2>2, <2>3, <2>4 DEF Size
<1>8. SubSeq(rxbuf, 3, Size) = body
  <2>1. \A i \in 3 .. Size : rxbuf[i] \in Byte
    BY <1>1, <1>4, <1>7, ElementOfSeq
  <2>2. /\ SubSeq(rxbuf, 3, Size) \in Seq(Byte)
        /\ Len(SubSeq(rxbuf, 3, Size)) = Len(body)
        /\ \A i \in 1 .. Len(body) : SubSeq(rxbuf, 3, Size)[i] = rxbuf[i + 2]
    BY <1>4, <1>7, <2>1, SubSeqProperties
  <2>3. ASSUME NEW i \in 1 .. Len(body)
        PROVE  rxbuf[i + 2] = body[i]
    <3>1. i + 2 \in 3 .. Len(body) + 2 /\ i + 2 \in 1 .. Len(body) + 2 /\ i + 2 <= Len(rxbuf) /\ (i + 2) - 2 = i
      BY <1>1, <1>4, <1>7
    <3>2. Frame(body)[i + 2] = body[(i + 2) - 2]
      BY <1>4, <3>1, FrameBytes
    <3>3. Unread(rxbuf, net, i + 2) = Frame(body)[i + 2]
      BY <1>5, <3>1
    <3>4. QED
      BY <3>1, <3>2, <3>3 DEF Unread
  <2>4. QED
    BY <1>4, <2>2, <2>3, SeqEqual
<1>9. QED
  BY <1>3, <1>4, <1>7, <1>8

(* A round of the loop that starts at a frame takes exactly this frame, if it
   is well-formed. *)
LEMMA TakeAligned ==
  ASSUME TypeInv, Aligned, Take,
         Len(taken) + 1 <= Len(sent) => WellFormed(sent[Len(taken) + 1])
  PROVE  /\ Aligned'
         /\ taken' = Append(taken, sent[Len(taken) + 1])
         /\ Cut(sent[Len(taken) + 1])
<1> DEFINE t == Len(taken)
           body == sent[t + 1]
           end == Len(rxbuf) + Len(net)
<1>1. /\ t + 1 <= Len(sent)
      /\ Size = Len(body) + 2 /\ Size >= 4
      /\ SubSeq(rxbuf, 3, Size) = body
  BY NextFrame DEF Take
<1>2. /\ t \in Nat /\ Len(sent) \in Nat /\ Len(rxbuf) \in Nat /\ Len(net) \in Nat
      /\ rxbuf \in Seq(Byte) /\ net \in Seq(Byte) /\ taken \in Seq(Seq(Byte))
      /\ Len(body) \in Nat /\ body \in Seq(Byte)
      /\ Size \in 0 .. Len(rxbuf) /\ Size \in Nat
  BY <1>1, Lengths, SizeType DEF TypeInv, TypeOK, Take, PacketArrived
<1>3. /\ taken' = Append(taken, body) /\ Cut(body)
      /\ rxbuf' = SubSeq(rxbuf, Size + 1, Len(rxbuf))
      /\ UNCHANGED <<sent, net>>
  <2>1. Size >= 2 /\ ~(Size < 2)
    BY <1>1, <1>2
  <2>2. Cut(SubSeq(rxbuf, 3, Size))
    BY <2>1 DEF Take
  <2>3. QED
    BY <1>1, <2>2, Zenon DEF Take, Cut
<1>4. Len(taken') = t + 1
  BY <1>2, <1>3
<1>5. /\ Len(rxbuf') = Len(rxbuf) - Size
      /\ \A i \in 1 .. Len(rxbuf) - Size : rxbuf'[i] = rxbuf[Size + i]
  BY <1>2, <1>3, Suffix
<1>6. ASSUME NEW i \in 1 .. end - Size
      PROVE  Unread(rxbuf', net', i) = Unread(rxbuf, net, Size + i)
  <2>1. CASE i <= Len(rxbuf) - Size
    BY <1>2, <1>5, <2>1 DEF Unread
  <2>2. CASE i > Len(rxbuf) - Size
    <3>1. /\ ~(i <= Len(rxbuf')) /\ ~(Size + i <= Len(rxbuf))
          /\ i - Len(rxbuf') = (Size + i) - Len(rxbuf)
      BY <1>2, <1>5, <2>2
    <3>2. net' = net
      BY <1>3
    <3>3. QED
      BY <3>1, <3>2, Zenon DEF Unread
  <2>3. QED
    BY <1>2, <2>1, <2>2
<1>7. PICK off \in [t .. Len(sent) -> Nat] : Layout(off, sent, t, rxbuf, net)
  BY DEF Aligned
<1>8. /\ \A j, k \in t .. Len(sent) : j <= k => off[j] <= off[k]
      /\ off[t] = 0 /\ off[Len(sent)] = end
      /\ \A k \in t + 1 .. Len(sent) : off[k] = off[k - 1] + Len(sent[k]) + 2
      /\ \A k \in t .. Len(sent) : off[k] \in Nat
  BY <1>7 DEF Layout
<1>9. off[t + 1] = Size
  <2>1. t + 1 \in t + 1 .. Len(sent) /\ (t + 1) - 1 = t
    BY <1>1, <1>2
  <2>2. off[t + 1] = off[t] + Len(body) + 2
    BY <1>8, <2>1, Zenon
  <2>3. QED
    BY <1>1, <1>2, <1>8, <2>2
<1>10. \A k \in t + 1 .. Len(sent) : off[k] \in Nat /\ off[k] >= Size
  <2> SUFFICES ASSUME NEW k \in t + 1 .. Len(sent)
               PROVE  off[k] \in Nat /\ off[k] >= Size
    OBVIOUS
  <2>1. k \in t .. Len(sent) /\ t + 1 \in t .. Len(sent) /\ t + 1 <= k
    BY <1>1, <1>2
  <2>2. off[t + 1] <= off[k] /\ off[k] \in Nat
    BY <1>8, <2>1
  <2>3. QED
    BY <1>2, <1>9, <2>2
<1> DEFINE new == [k \in t + 1 .. Len(sent) |-> off[k] - Size]
<1>11. /\ new \in [t + 1 .. Len(sent) -> Nat]
       /\ \A k \in t + 1 .. Len(sent) : new[k] = off[k] - Size
  <2>1. \A k \in t + 1 .. Len(sent) : off[k] - Size \in Nat
    BY <1>2, <1>10
  <2>2. QED
    BY <2>1
<1> HIDE DEF new
<1>12. Layout(new, sent, t + 1, rxbuf', net')
  <2>1. new[t + 1] = 0 /\ new[Len(sent)] = Len(rxbuf') + Len(net')
    <3>1. t + 1 \in t + 1 .. Len(sent) /\ Len(sent) \in t + 1 .. Len(sent)
      BY <1>1, <1>2
    <3>2. new[t + 1] = off[t + 1] - Size /\ new[Len(sent)] = end - Size
      BY <1>8, <1>11, <3>1
    <3>3. end - Size = (Len(rxbuf) - Size) + Len(net) /\ Size - Size = 0
      BY <1>2
    <3>4. QED
      BY <1>3, <1>5, <1>9, <3>2, <3>3, Zenon
  <2>2. ASSUME NEW j \in t + 1 .. Len(sent), NEW k \in t + 1 .. Len(sent), j <= k
        PROVE  new[j] <= new[k]
    <3>1. j \in t .. Len(sent) /\ k \in t .. Len(sent)
      BY <1>2
    <3>2. off[j] <= off[k] /\ off[j] \in Nat /\ off[k] \in Nat
      BY <1>8, <2>2, <3>1
    <3>3. QED
      BY <1>2, <1>11, <3>2
  <2>3. ASSUME NEW k \in (t + 1) + 1 .. Len(sent)
        PROVE  /\ new[k] = new[k - 1] + Len(sent[k]) + 2
               /\ \A i \in 1 .. Len(sent[k]) + 2 :
                    Unread(rxbuf', net', new[k - 1] + i) = Frame(sent[k])[i]
    <3>1. /\ k \in t + 1 .. Len(sent) /\ k - 1 \in t + 1 .. Len(sent)
          /\ k \in t .. Len(sent) /\ Len(sent) \in t .. Len(sent) /\ k <= Len(sent)
          /\ k \in 1 .. Len(sent)
      BY <1>2
    <3>2. /\ off[k] = off[k - 1] + Len(sent[k]) + 2
          /\ off[k] <= end
      BY <1>8, <3>1
    <3>3. /\ off[k - 1] \in Nat /\ off[k] \in Nat /\ off[k - 1] >= Size
          /\ new[k] = off[k] - Size /\ new[k - 1] = off[k - 1] - Size
          /\ Len(sent[k]) \in Nat
      BY <1>10, <1>11, <3>1, Lengths
    <3>a. end \in Nat /\ Size <= off[k - 1]
      BY <1>2, <3>3
    <3>b. /\ new[k] = new[k - 1] + Len(sent[k]) + 2
          /\ new[k - 1] \in Nat /\ new[k] \in Nat /\ end - Size \in Nat
          /\ new[k] <= end - Size
      <4> HIDE DEF end
      <4>1. /\ off[k] - Size = (off[k - 1] - Size) + Len(sent[k]) + 2
            /\ off[k - 1] - Size \in Nat /\ off[k] - Size \in Nat /\ end - Size \in Nat
            /\ off[k] - Size <= end - Size
        BY <1>2, <3>2, <3>3, <3>a, Shifted, Zenon
      <4>2. QED
        BY <3>3, <4>1, Zenon
    <3>4. ASSUME NEW i \in 1 .. Len(sent[k]) + 2
          PROVE  Unread(rxbuf', net', new[k - 1] + i) = Frame(sent[k])[i]
      <4>3. new[k - 1] + i \in 1 .. end - Size
        BY <3>3, <3>b, Within, Zenon
      <4>4. Size + (new[k - 1] + i) = off[k - 1] + i
        BY <1>2, <3>3
      <4>5. Unread(rxbuf', net', new[k - 1] + i) = Unread(rxbuf, net, off[k - 1] + i)
        BY <1>6, <4>3, <4>4
      <4>6. QED
        BY <1>7, <3>1, <4>5 DEF Layout
    <3>5. QED
      BY <3>b, <3>4
  <2>4. QED
    BY <2>1, <2>2, <2>3 DEF Layout
<1>13. Aligned'
  BY <1>1, <1>2, <1>3, <1>4, <1>11, <1>12 DEF Aligned
<1>14. QED
  BY <1>3, <1>13

(* A packet the peer writes is framed behind all others. *)
LEMMA SendFramed ==
  ASSUME TypeInv, FrameInv, NEW body \in Bodies, Send(body)
  PROVE  FrameInv'
<1>1. /\ sent \in Seq(Bodies) /\ sent' = Append(sent, body)
      /\ UNCHANGED <<taken, handled, mode>>
      /\ mode \notin {"uninit", "closed", "panicked"}
      /\ taken \in Seq(Seq(Byte))
  BY DEF Send, TypeInv, TypeOK
<1>2. /\ Len(sent) \in Nat /\ Len(taken) \in Nat
      /\ Len(sent') = Len(sent) + 1
      /\ DOMAIN sent = 1 .. Len(sent) /\ DOMAIN sent' = 1 .. Len(sent) + 1
      /\ \A k \in 1 .. Len(sent) : sent'[k] = sent[k]
      /\ DOMAIN taken = 1 .. Len(taken)
  BY <1>1
<1>3. TakenWellFormed' => TakenWellFormed
  <2> SUFFICES ASSUME TakenWellFormed', NEW j \in 1 .. Len(taken), j <= Len(sent)
               PROVE  WellFormed(sent[j])
    BY DEF TakenWellFormed
  <2>1. j \in 1 .. Len(taken') /\ j <= Len(sent') /\ sent'[j] = sent[j]
    BY <1>1, <1>2
  <2>2. WellFormed(sent'[j])
    BY <2>1 DEF TakenWellFormed
  <2>3. QED
    BY <2>1, <2>2
<1>4. TakenWellFormed' => Aligned'
  BY <1>1, <1>3, SendAligned DEF FrameInv
<1>5. ASSUME NEW k \in DOMAIN taken' \cap DOMAIN sent',
             \A j \in 1 .. k : WellFormed(sent'[j])
      PROVE  taken'[k] = sent'[k]
  <2>1. CASE k <= Len(sent)
    <3>1. k \in DOMAIN taken \cap DOMAIN sent /\ \A j \in 1 .. k : WellFormed(sent[j])
      BY <1>1, <1>2, <1>5, <2>1
    <3>2. QED
      BY <1>1, <1>2, <3>1 DEF FrameInv, SoundUntilHarmful
  <2>2. CASE k = Len(sent) + 1
    <3>1. TakenWellFormed
      BY <1>2, <1>5, <2>2 DEF TakenWellFormed
    <3>3. Len(taken) <= Len(sent)
      BY <1>1, <3>1 DEF FrameInv, Aligned
    <3>4. QED
      BY <1>1, <1>2, <1>5, <2>2, <3>3
  <2>3. QED
    BY <1>2, <1>5, <2>1, <2>2
<1>6. mode' # "panicked"
  BY <1>1
<1>7. GivenInv'
  BY <1>1 DEF FrameInv, GivenInv
<1>8. QED
  BY <1>4, <1>5, <1>6, <1>7 DEF FrameInv, SoundUntilHarmful

(* A read moves bytes from the wire to the buffer and changes no frame. *)
LEMMA ReadFramed ==
  ASSUME TypeInv, KeyInv, FrameInv, NEW n \in 1 .. MaxRead, Read(n)
  PROVE  FrameInv'
<1>1. CASE ReadKey(n)
  <2>1. sent = <<>> /\ taken = <<>> /\ rxbuf = <<>> /\ UNCHANGED <<sent, taken, rxbuf>>
    BY <1>1 DEF ReadKey, KeyInv
  <2>2. mode' # "uninit" => net' = <<>>
    BY <1>1, ReadKeyStep DEF Read
  <2>3. mode' # "uninit" => Aligned'
    <3> SUFFICES ASSUME mode' # "uninit"
                 PROVE  Aligned'
      OBVIOUS
    <3>1. sent' = <<>> /\ taken' = <<>> /\ rxbuf' = <<>> /\ net' = <<>>
      BY <2>1, <2>2
    <3>2. Len(<<>>) = 0
      OBVIOUS
    <3>3. [k \in 0 .. 0 |-> 0] \in [0 .. 0 -> Nat]
      OBVIOUS
    <3>4. Layout([k \in 0 .. 0 |-> 0], <<>>, 0, <<>>, <<>>)
      BY <3>2 DEF Layout
    <3>5. QED
      BY <3>1, <3>2, <3>3, <3>4 DEF Aligned
  <2>4. mode' \notin {"panicked", "handling"}
    BY <1>1 DEF ReadKey
  <2>5. DOMAIN taken' = {}
    BY <2>1
  <2>6. QED
    BY <2>3, <2>4, <2>5 DEF FrameInv, SoundUntilHarmful, GivenInv
<1>2. CASE ReadData(n)
  <2>1. UNCHANGED <<sent, taken>> /\ mode = "waiting" /\ mode' = "taking" /\ n \in 1 .. Len(net)
    BY <1>2 DEF ReadData, Read
  <2>2. TakenWellFormed' => Aligned'
    BY <1>2, <2>1, ReadAligned DEF FrameInv, TakenWellFormed
  <2>3. QED
    BY <2>1, <2>2 DEF FrameInv, SoundUntilHarmful, GivenInv
<1>3. QED
  BY <1>1, <1>2 DEF Read

(* A packet that is well-formed kills the task only when ptrace cannot show
   it. *)
LEMMA CutSurvives ==
  ASSUME NEW body \in Seq(Byte), WellFormed(body), Cut(body), mode' = "panicked",
         mode = "taking"
  PROVE  ~Harmless(body)
<1>1. ~(Len(body) < 2)
  BY DEF WellFormed
<1>2. TracePanics(body)
  BY DEF Cut, SkipUnread
<1>3. QED
  BY <1>1, <1>2 DEF TracePanics, Harmless

(* A packet given to the handlers is the last one taken. *)
LEMMA CutGiven ==
  ASSUME NEW body \in Seq(Byte), TypeInv, mode = "taking", Cut(body)
  PROVE  GivenInv'
<1>1. taken \in Seq(Seq(Byte)) /\ handled \in Seq(Seq(Byte))
  BY DEF TypeInv, TypeOK
<1>2. /\ Len(Append(taken, body)) >= 1
      /\ Append(taken, body)[Len(Append(taken, body))] = body
      /\ Len(Append(handled, body)) >= 1
      /\ Append(handled, body)[Len(Append(handled, body))] = body
  BY <1>1, AppendProperties
<1>3. mode' = "handling" => taken' = Append(taken, body) /\ handled' = Append(handled, body)
  BY DEF Cut, SkipUnread
<1>4. QED
  BY <1>2, <1>3 DEF GivenInv

(* A round of the loop takes the next frame, until the first malformed one.
   *)
LEMMA TakeFramed ==
  ASSUME TypeInv, FrameInv, Take
  PROVE  FrameInv'
<1> DEFINE t == Len(taken)
<1>1. /\ t \in Nat /\ Len(sent) \in Nat /\ taken \in Seq(Seq(Byte))
      /\ DOMAIN sent = 1 .. Len(sent) /\ DOMAIN taken = 1 .. t
      /\ mode = "taking" /\ sent' = sent
      /\ rxbuf \in Seq(Byte)
  BY Lengths DEF TypeInv, TypeOK, Take
<1>a. SubSeq(rxbuf, 3, Size) \in Seq(Byte)
  <2>1. Size \in 0 .. Len(rxbuf) /\ \A i \in 1 .. Len(rxbuf) : rxbuf[i] \in Byte
    BY <1>1, SizeType, ElementOfSeq DEF Take, PacketArrived
  <2>2. QED
    BY <1>1, <2>1, SubSeqProperties
<1>b. GivenInv'
  <2>1. CASE Cut(SubSeq(rxbuf, 3, Size))
    BY <1>1, <1>a, <2>1, CutGiven
  <2>2. CASE mode' = "panicked"
    BY <2>2 DEF GivenInv
  <2>3. QED
    BY <2>1, <2>2 DEF Take
<1>2. CASE /\ TakenWellFormed
           /\ t + 1 <= Len(sent) => WellFormed(sent[t + 1])
  <2>1. Aligned
    BY <1>1, <1>2 DEF FrameInv
  <2>2. /\ Aligned' /\ t + 1 <= Len(sent)
        /\ taken' = Append(taken, sent[t + 1])
        /\ Cut(sent[t + 1])
    BY <1>2, <2>1, TakeAligned, NextFrame DEF Take
  <2>3. sent[t + 1] \in Seq(Byte)
    BY <1>1, <2>2, Lengths
  <2>4. /\ DOMAIN taken' = 1 .. t + 1 /\ taken'[t + 1] = sent[t + 1]
        /\ Len(taken') = t + 1
        /\ \A k \in 1 .. t : taken'[k] = taken[k]
    BY <1>1, <2>2, <2>3
  <2>5. ASSUME NEW k \in DOMAIN taken' \cap DOMAIN sent',
               \A j \in 1 .. k : WellFormed(sent'[j])
        PROVE  taken'[k] = sent'[k]
    <3>1. CASE k = t + 1
      BY <1>1, <2>4, <3>1
    <3>2. CASE k \in 1 .. t
      <4>1. k \in DOMAIN taken \cap DOMAIN sent /\ \A j \in 1 .. k : WellFormed(sent[j])
        BY <1>1, <2>5, <3>2
      <4>2. taken[k] = sent[k]
        BY <4>1 DEF FrameInv, SoundUntilHarmful
      <4>3. QED
        BY <1>1, <2>4, <3>2, <4>2
    <3>3. QED
      BY <1>1, <2>4, <3>1, <3>2
  <2>6. mode' = "panicked" => t + 1 \in DOMAIN sent' /\ t + 1 <= Len(taken') + 1 /\ ~Harmless(sent'[t + 1])
    <3>1. mode' = "panicked" => ~Harmless(sent[t + 1])
      BY <1>1, <1>2, <2>2, <2>3, CutSurvives
    <3>2. t + 1 \in DOMAIN sent' /\ t + 1 <= Len(taken') + 1
      BY <1>1, <2>2, <2>4
    <3>3. QED
      BY <1>1, <3>1, <3>2
  <2>7. QED
    BY <1>b, <2>2, <2>5, <2>6 DEF FrameInv, SoundUntilHarmful
<1>3. CASE ~(/\ TakenWellFormed
             /\ t + 1 <= Len(sent) => WellFormed(sent[t + 1]))
  <2>1. PICK j \in 1 .. t + 1 : j <= Len(sent) /\ ~WellFormed(sent[j])
    <3>1. CASE ~TakenWellFormed
      <4>1. PICK j \in 1 .. t : j <= Len(sent) /\ ~WellFormed(sent[j])
        BY <3>1 DEF TakenWellFormed
      <4>2. j \in 1 .. t + 1
        BY <1>1
      <4>3. QED
        BY <4>1, <4>2
    <3>2. CASE t + 1 <= Len(sent) /\ ~WellFormed(sent[t + 1])
      <4>1. t + 1 \in 1 .. t + 1
        BY <1>1
      <4>2. QED
        BY <3>2, <4>1
    <3>3. QED
      BY <1>3, <3>1, <3>2
  <2>2. j \in DOMAIN sent' /\ ~Harmless(sent'[j])
    BY <1>1, <2>1 DEF Harmless
  <2>3. CASE mode' = "panicked" /\ UNCHANGED taken
    <3>1. j <= Len(taken') + 1
      BY <1>1, <2>3
    <3>2. \A k \in DOMAIN taken' \cap DOMAIN sent' :
            (\A i \in 1 .. k : WellFormed(sent'[i])) => taken'[k] = sent'[k]
      BY <1>1, <2>3 DEF FrameInv, SoundUntilHarmful
    <3>3. QED
      BY <1>b, <2>2, <2>3, <3>1, <3>2 DEF FrameInv, SoundUntilHarmful
  <2>4. CASE taken' = Append(taken, SubSeq(rxbuf, 3, Size))
    <3>1. /\ Len(taken') = t + 1 /\ DOMAIN taken' = 1 .. t + 1
          /\ \A k \in 1 .. t : taken'[k] = taken[k]
      BY <1>1, <1>a, <2>4
    <3>2. ~TakenWellFormed'
      BY <1>1, <2>1, <3>1 DEF TakenWellFormed
    <3>3. ASSUME NEW k \in DOMAIN taken' \cap DOMAIN sent',
                 \A i \in 1 .. k : WellFormed(sent'[i])
          PROVE  taken'[k] = sent'[k]
      <4>1. k # t + 1
        BY <1>1, <2>1, <3>3
      <4>2. k \in DOMAIN taken \cap DOMAIN sent
        BY <1>1, <3>1, <4>1
      <4>3. QED
        BY <1>1, <3>1, <3>3, <4>2 DEF FrameInv, SoundUntilHarmful
    <3>4. j <= Len(taken') + 1
      BY <1>1, <3>1
    <3>5. QED
      BY <1>b, <2>2, <3>2, <3>3, <3>4 DEF FrameInv, SoundUntilHarmful
  <2>5. QED
    BY <2>3, <2>4 DEF Take, Cut
<1>4. QED
  BY <1>2, <1>3

(* A handler that panics has a packet that may kill its task. *)
LEMMA HandlerFramed ==
  ASSUME TypeInv, FrameInv, HandlerEnds
  PROVE  FrameInv'
<1> DEFINE t == Len(taken)
<1>1. /\ t \in Nat /\ Len(sent) \in Nat /\ taken \in Seq(Seq(Byte))
      /\ DOMAIN sent = 1 .. Len(sent) /\ DOMAIN taken = 1 .. t
      /\ mode = "handling" /\ mode' \in {"taking", "panicked"}
      /\ UNCHANGED <<sent, net, rxbuf, taken, handled>>
  <2>1. t \in Nat /\ Len(sent) \in Nat
    BY Lengths
  <2>2. taken \in Seq(Seq(Byte)) /\ sent \in Seq(Bodies)
    BY DEF TypeInv, TypeOK
  <2>3. DOMAIN sent = 1 .. Len(sent) /\ DOMAIN taken = 1 .. t
    BY <2>2
  <2>4. /\ mode = "handling" /\ mode' \in {"taking", "panicked"}
        /\ UNCHANGED <<sent, net, rxbuf, taken, handled>>
    BY DEF HandlerEnds
  <2>5. QED
    BY <2>1, <2>2, <2>3, <2>4
<1>2. CASE mode' = "taking"
  BY <1>1, <1>2 DEF FrameInv, SoundUntilHarmful, GivenInv, TakenWellFormed, Aligned
<1>3. CASE mode' = "panicked"
  <2>1. t >= 1 /\ taken[t] \in Fatal
    BY <1>1, <1>3 DEF HandlerEnds, FrameInv, GivenInv
  <2>2. \E k \in DOMAIN sent : k <= t + 1 /\ ~Harmless(sent[k])
    <3>1. CASE TakenWellFormed
      <4>1. t <= Len(sent)
        BY <1>1, <3>1 DEF FrameInv, Aligned
      <4>2. /\ t \in DOMAIN taken \cap DOMAIN sent
            /\ \A j \in 1 .. t : WellFormed(sent[j])
        BY <1>1, <2>1, <3>1, <4>1 DEF TakenWellFormed
      <4>3. taken[t] = sent[t]
        BY <4>2 DEF FrameInv, SoundUntilHarmful
      <4>4. ~Harmless(sent[t]) /\ t <= t + 1
        BY <1>1, <2>1, <4>3 DEF Harmless
      <4>5. QED
        BY <4>2, <4>4
    <3>2. CASE ~TakenWellFormed
      <4>1. PICK j \in 1 .. t : j <= Len(sent) /\ ~WellFormed(sent[j])
        BY <3>2 DEF TakenWellFormed
      <4>2. j \in DOMAIN sent /\ j <= t + 1 /\ ~Harmless(sent[j])
        BY <1>1, <4>1 DEF Harmless
      <4>3. QED
        BY <4>2
    <3>3. QED
      BY <3>1, <3>2
  <2>3. QED
    BY <1>1, <1>3, <2>2 DEF FrameInv, SoundUntilHarmful, GivenInv
<1>4. QED
  BY <1>1, <1>2, <1>3

(* The buffer and the wire together hold the frames still to be taken,
   throughout. *)
LEMMA FrameCorrect == Spec => []FrameInv
<1>1. Init => FrameInv
  <2>1. Init => DOMAIN taken = {} /\ mode = "uninit"
    BY DEF Init
  <2>2. QED
    BY <2>1 DEF FrameInv, SoundUntilHarmful, GivenInv
<1>2. TypeInv /\ KeyInv /\ FrameInv /\ [Next]_vars => FrameInv'
  <2> SUFFICES ASSUME TypeInv, KeyInv, FrameInv, [Next]_vars
               PROVE  FrameInv'
    OBVIOUS
  <2>1. CASE LeaveLoop \/ FromShard \/ Written \/ Close
    <3>1. /\ UNCHANGED <<sent, net, rxbuf, taken, handled>>
          /\ mode' \in {"waiting", "writing", "closed"}
          /\ mode' # "closed" => mode \notin {"uninit", "closed", "panicked"}
      BY <2>1 DEF LeaveLoop, FromShard, Written, Close
    <3>2. QED
      BY <3>1 DEF FrameInv, SoundUntilHarmful, GivenInv, TakenWellFormed, Aligned
  <2>2. CASE UNCHANGED vars
    BY <2>2 DEF vars, FrameInv, SoundUntilHarmful, GivenInv, TakenWellFormed, Aligned
  <2>3. QED
    BY <2>1, <2>2, SendFramed, ReadFramed, TakeFramed, HandlerFramed DEF Next, SomeRead
<1>3. QED
  BY KeyCorrect, <1>1, <1>2, PTL DEF Spec

(* For every cut of the stream the packets before the first malformed one come
   out as they were sent, in order; the task panics over no packet but a
   malformed one, one that ptrace cannot show and one whose handler panics, and
   not before its turn (connection.rs:183-246). *)
THEOREM SoundUntilHarmfulCorrect == Spec => []SoundUntilHarmful
<1>1. FrameInv => SoundUntilHarmful
  BY DEF FrameInv
<1>2. QED
  BY <1>1, FrameCorrect, PTL

(* Every variable has its type, and between two reads no packet lies in the
   buffer (connection.rs:184-196), for every byte stream. *)
THEOREM TypeOKCorrect == Spec => []TypeOK
<1>1. TypeInv => TypeOK
  BY DEF TypeInv
<1>2. QED
  BY <1>1, TypeCorrect, PTL

-----------------------------------------------------------------------------
(* The abstract stream.  What it shows is the part of the connection before  *)
(* the first packet that may harm.                                           *)
Accepted == Readable \ Untraceable

Sound(s) == Cardinality({k \in DOMAIN s : \A j \in 1 .. k : Harmless(s[j])})

Counted(s, n) == Cardinality({k \in 1 .. n : s[k] \in Accepted})

(* The handlers were given as many packets as were taken and are accepted. *)
HandledInv == Len(handled) = Counted(taken, Len(taken))

(* SoundLength: it ends before the first packet that may harm. *)
LEMMA SoundPrefix ==
  ASSUME NEW s \in Seq(Bodies)
  PROVE  /\ Sound(s) \in 0 .. Len(s)
         /\ \A j \in 1 .. Sound(s) : Harmless(s[j])
         /\ Sound(s) < Len(s) => ~Harmless(s[Sound(s) + 1])
<1> DEFINE T == {n \in 0 .. Len(s) : \A j \in 1 .. n : Harmless(s[j])}
<1>1. Len(s) \in Nat /\ DOMAIN s = 1 .. Len(s)
  OBVIOUS
<1>2. PICK m \in T : \A y \in T : y <= m
  <2>1. T \subseteq Nat /\ 0 \in T /\ \A x \in T : x <= Len(s)
    BY <1>1
  <2> HIDE DEF T
  <2> QED
    BY <1>1, <2>1, GreatestMember
<1>3. {k \in DOMAIN s : \A j \in 1 .. k : Harmless(s[j])} = 1 .. m
  BY <1>1, <1>2
<1>4. Sound(s) = m
  <2>1. m \in Nat /\ 1 \in Int /\ m \in Int
    BY <1>1, <1>2
  <2>2. Cardinality(1 .. m) = IF 1 > m THEN 0 ELSE m - 1 + 1
    BY <2>1, FS_Interval
  <2>3. Cardinality(1 .. m) = m
    BY <2>1, <2>2
  <2> QED
    BY <1>3, <2>3 DEF Sound
<1>5. m < Len(s) => ~Harmless(s[m + 1])
  <2> SUFFICES ASSUME m < Len(s), Harmless(s[m + 1]) PROVE FALSE
    OBVIOUS
  <2>1. m + 1 \in T
    BY <1>1, <1>2
  <2> QED
    BY <1>2, <2>1
<1> QED
  BY <1>2, <1>4, <1>5

(* One packet more is harmless at most when it is and all before it are. *)
LEMMA SoundGrows ==
  ASSUME NEW s \in Seq(Bodies), NEW body \in Bodies
  PROVE  \/ Sound(Append(s, body)) = Sound(s)
         \/ Sound(s) = Len(s) /\ Sound(Append(s, body)) = Len(s) + 1
<1> DEFINE r == Append(s, body)
<1>1. /\ r \in Seq(Bodies) /\ Len(r) = Len(s) + 1 /\ Len(s) \in Nat
      /\ \A k \in 1 .. Len(s) : r[k] = s[k]
  OBVIOUS
<1> HIDE DEF r
<1>2. PICK m \in 0 .. Len(s), n \in 0 .. Len(s) + 1 : m = Sound(s) /\ n = Sound(r)
  BY <1>1, SoundPrefix
<1>3. /\ \A j \in 1 .. m : Harmless(s[j])
      /\ m < Len(s) => ~Harmless(s[m + 1])
  BY <1>2, SoundPrefix
<1>4. /\ \A j \in 1 .. n : Harmless(r[j])
      /\ n < Len(s) + 1 => ~Harmless(r[n + 1])
  BY <1>1, <1>2, SoundPrefix
<1>5. ~(n < m)
  <2> SUFFICES ASSUME n < m PROVE FALSE
    OBVIOUS
  <2>1. n + 1 \in 1 .. m /\ n + 1 \in 1 .. Len(s) /\ n < Len(s) + 1
    BY <1>1
  <2> QED
    BY <1>1, <1>3, <1>4, <2>1
<1>6. ~(m < n /\ m < Len(s))
  <2> SUFFICES ASSUME m < n, m < Len(s) PROVE FALSE
    OBVIOUS
  <2>1. m + 1 \in 1 .. n /\ m + 1 \in 1 .. Len(s)
    BY <1>1
  <2> QED
    BY <1>1, <1>3, <1>4, <2>1
<1>7. n = m \/ (m = Len(s) /\ n = Len(s) + 1)
  BY <1>1, <1>5, <1>6
<1> QED
  BY <1>2, <1>7 DEF r

(* Counting what can be read, one packet after the other. *)
LEMMA Counting ==
  ASSUME NEW s, NEW n \in Nat
  PROVE  /\ Counted(s, n) \in Nat
         /\ Counted(s, 0) = 0
         /\ Counted(s, n + 1) = IF s[n + 1] \in Accepted THEN Counted(s, n) + 1 ELSE Counted(s, n)
         /\ \A m \in 0 .. n : Counted(s, m) \in Nat /\ Counted(s, m) <= Counted(s, n)
<1> DEFINE S(m) == {k \in 1 .. m : s[k] \in Accepted}
<1>1. \A m \in Nat : IsFiniteSet(S(m)) /\ Cardinality(S(m)) \in Nat
  <2> TAKE m \in Nat
  <2>1. IsFiniteSet(1 .. m) /\ S(m) \in SUBSET (1 .. m)
    BY FS_Interval
  <2> QED
    BY <2>1, FS_Subset, FS_CardinalityType
<1>2. S(0) = {}
  OBVIOUS
<1>3. S(n + 1) = IF s[n + 1] \in Accepted THEN S(n) \cup {n + 1} ELSE S(n)
  OBVIOUS
<1>4. n + 1 \notin S(n)
  OBVIOUS
<1>5. Cardinality(S(n + 1)) = IF s[n + 1] \in Accepted THEN Cardinality(S(n)) + 1 ELSE Cardinality(S(n))
  <2> HIDE DEF S
  <2> QED
    BY <1>1, <1>3, <1>4, FS_AddElement
<1>6. \A m \in 0 .. n : Cardinality(S(m)) \in Nat /\ Cardinality(S(m)) <= Cardinality(S(n))
  <2> TAKE m \in 0 .. n
  <2>1. S(m) \in SUBSET S(n)
    OBVIOUS
  <2> HIDE DEF S
  <2> QED
    BY <1>1, <2>1, FS_Subset
<1>7. Cardinality(S(0)) = 0
  BY <1>2, FS_EmptySet
<1>8. \A m : Counted(s, m) = Cardinality(S(m))
  BY DEF Counted
<1> HIDE DEF S
<1> QED
  BY <1>1, <1>5, <1>6, <1>7, <1>8

(* Two streams with the same packets have the same readable ones. *)
LEMMA CountedSame ==
  ASSUME NEW s, NEW r, NEW n \in Nat, \A k \in 1 .. n : s[k] = r[k]
  PROVE  Counted(s, n) = Counted(r, n)
<1>1. {k \in 1 .. n : s[k] \in Accepted} = {k \in 1 .. n : r[k] \in Accepted}
  OBVIOUS
<1> QED
  BY <1>1 DEF Counted

(* Upto: the first n elements, or all there are. *)
LEMMA Beginning ==
  ASSUME NEW X, NEW s \in Seq(X), NEW n \in Nat
  PROVE  /\ Len(s) <= n => Upto(s, n) = s
         /\ n <= Len(s) => /\ Len(Upto(s, n)) = n
                           /\ \A k \in 1 .. n : Upto(s, n)[k] = s[k]
         /\ n <= Len(s) => \A x \in X : Upto(Append(s, x), n) = Upto(s, n)
<1>1. Len(s) \in Nat
  OBVIOUS
<1>2. Len(s) <= n => Upto(s, n) = s
  <2> SUFFICES ASSUME Len(s) <= n PROVE Upto(s, n) = s
    OBVIOUS
  <2>1. Upto(s, n) = SubSeq(s, 1, Len(s))
    BY <1>1 DEF Upto
  <2> QED
    BY <2>1
<1>3. ASSUME n <= Len(s)
      PROVE  /\ Upto(s, n) = SubSeq(s, 1, n)
             /\ Len(Upto(s, n)) = n
             /\ \A k \in 1 .. n : Upto(s, n)[k] = s[k]
  <2>1. Upto(s, n) = SubSeq(s, 1, n)
    BY <1>1, <1>3 DEF Upto
  <2> QED
    BY <1>1, <1>3, <2>1
<1>4. ASSUME n <= Len(s), NEW x \in X PROVE Upto(Append(s, x), n) = Upto(s, n)
  <2>1. Append(s, x) \in Seq(X) /\ Len(Append(s, x)) = Len(s) + 1
    OBVIOUS
  <2>2. Upto(Append(s, x), n) = SubSeq(Append(s, x), 1, n)
    BY <1>1, <1>4, <2>1 DEF Upto
  <2>3. SubSeq(Append(s, x), 1, n) = SubSeq(s, 1, n)
    BY <1>1, <1>4
  <2> QED
    BY <1>3, <1>4, <2>2, <2>3
<1> QED
  BY <1>2, <1>3, <1>4

(* What the provers need of the abstract stream at a state: how many packets
   are sound, and how much of them came out. *)
Shown(m) ==
  /\ m = SoundLength /\ m \in 0 .. Len(sent)
  /\ Counted(sent, m) \in Nat
  /\ Len(taken) <= m => Len(handled) <= Counted(sent, m)
  /\ m <= Len(taken) => Counted(sent, m) <= Len(handled)

LEMMA ShownAt ==
  ASSUME TypeInv, FrameInv, HandledInv
  PROVE  \E m \in Nat : Shown(m)
<1>1. /\ sent \in Seq(Bodies) /\ Len(sent) \in Nat /\ Len(taken) \in Nat
      /\ DOMAIN sent = 1 .. Len(sent) /\ DOMAIN taken = 1 .. Len(taken)
  BY Lengths DEF TypeInv, TypeOK
<1>2. PICK m \in 0 .. Len(sent) : m = Sound(sent)
  BY <1>1, SoundPrefix
<1>3. \A j \in 1 .. m : WellFormed(sent[j])
  BY <1>1, <1>2, SoundPrefix DEF Harmless
<1>4. \A k \in 1 .. m : k <= Len(taken) => taken[k] = sent[k]
  <2> SUFFICES ASSUME NEW k \in 1 .. m, k <= Len(taken) PROVE taken[k] = sent[k]
    OBVIOUS
  <2>1. k \in DOMAIN taken \cap DOMAIN sent /\ \A j \in 1 .. k : WellFormed(sent[j])
    BY <1>1, <1>3
  <2> QED
    BY <2>1 DEF FrameInv, SoundUntilHarmful
<1>5. Counted(sent, m) \in Nat
  BY <1>1, Counting
<1>6. ASSUME Len(taken) <= m PROVE Len(handled) <= Counted(sent, m)
  <2>1. Counted(taken, Len(taken)) = Counted(sent, Len(taken))
    BY <1>1, <1>4, <1>6, CountedSame
  <2>2. Counted(sent, Len(taken)) <= Counted(sent, m)
    BY <1>1, <1>6, Counting
  <2> QED
    BY <2>1, <2>2 DEF HandledInv
<1>7. ASSUME m <= Len(taken) PROVE Counted(sent, m) <= Len(handled)
  <2>1. Counted(taken, m) = Counted(sent, m)
    BY <1>1, <1>4, <1>7, CountedSame
  <2>2. Counted(taken, m) <= Counted(taken, Len(taken))
    BY <1>1, <1>7, Counting
  <2> QED
    BY <2>1, <2>2 DEF HandledInv
<1>8. m \in Nat /\ m = SoundLength
  BY <1>2 DEF Sound, SoundLength
<1>9. Shown(m)
  BY <1>2, <1>5, <1>6, <1>7, <1>8 DEF Shown
<1> QED
  BY <1>8, <1>9

(* write_packet: a sound packet is written, or what is shown stays. *)
LEMMA SendShows ==
  ASSUME TypeInv, FrameInv, HandledInv, NEW body \in Bodies, Send(body)
  PROVE  [Stream!Next]_(Stream!vars)
<1>1. PICK m \in Nat : Shown(m)
  BY ShownAt
<1>2. /\ sent \in Seq(Bodies) /\ sent' = Append(sent, body)
      /\ UNCHANGED <<taken, handled, mode>> /\ mode \notin {"uninit", "closed", "panicked"}
      /\ taken \in Seq(Seq(Byte)) /\ handled \in Seq(Seq(Byte))
  BY DEF Send, TypeInv, TypeOK
<1>3. /\ Len(sent) \in Nat /\ Len(taken) \in Nat /\ Len(handled) \in Nat
      /\ DOMAIN sent = 1 .. Len(sent)
      /\ \A k \in 1 .. Len(sent) : sent'[k] = sent[k]
      /\ sent' \in Seq(Bodies) /\ Len(sent') = Len(sent) + 1
  BY <1>2
<1>4. Counted(sent', m) = Counted(sent, m)
  <2>1. m \in Nat /\ \A k \in 1 .. m : sent'[k] = sent[k]
    BY <1>1, <1>3 DEF Shown
  <2> QED
    BY <2>1, CountedSame
<1>5. CASE SoundLength' = SoundLength
  <2>1. Upto(sent', m) = Upto(sent, m)
    BY <1>1, <1>2, Beginning DEF Shown
  <2> QED
    BY <1>1, <1>2, <1>4, <1>5, <2>1 DEF Shown, Counted, Accepted, Stream!vars
<1>6. CASE m = Len(sent) /\ SoundLength' = m + 1
  <2>1. Len(taken) <= m
    <3>1. \A j \in 1 .. Len(sent) : WellFormed(sent[j])
      BY <1>1, <1>2, <1>6, SoundPrefix DEF Shown, Sound, SoundLength, Harmless
    <3>2. TakenWellFormed
      BY <1>3, <3>1 DEF TakenWellFormed
    <3> QED
      BY <1>2, <1>6, <3>2 DEF FrameInv, Aligned
  <2>2. Len(handled) <= Counted(sent, m) /\ Counted(sent, m) \in Nat
    BY <1>1, <2>1 DEF Shown
  <2>3. Counted(sent', m + 1) \in Nat /\ Len(handled) <= Counted(sent', m + 1)
    <3>1. Counted(sent', m + 1) \in Nat
      BY Counting
    <3>2. Counted(sent', m + 1) = IF sent'[m + 1] \in Accepted THEN Counted(sent', m) + 1 ELSE Counted(sent', m)
      BY Counting
    <3> QED
      BY <1>3, <1>4, <2>2, <3>1, <3>2
  <2>4. Upto(sent, m) = sent /\ Upto(sent', m + 1) = sent'
    <3>1. sent \in Seq(Bodies) /\ m \in Nat /\ Len(sent) <= m
      BY <1>2, <1>3, <1>6
    <3>2. sent' \in Seq(Bodies) /\ m + 1 \in Nat /\ Len(sent') <= m + 1
      BY <1>3, <1>6
    <3>3. Upto(sent, m) = sent
      BY <3>1, Beginning
    <3>4. Upto(sent', m + 1) = sent'
      BY <3>2, Beginning
    <3> QED
      BY <3>3, <3>4
  <2>5. Upto(taken, m) = taken /\ Upto(taken, m + 1) = taken
    BY <1>2, <1>3, <2>1, Beginning
  <2>6. Upto(handled, Counted(sent, m)) = handled /\ Upto(handled, Counted(sent', m + 1)) = handled
    <3>1. handled \in Seq(Seq(Byte))
      BY <1>2
    <3>2. Upto(handled, Counted(sent, m)) = handled
      BY <2>2, <3>1, Beginning
    <3>3. Upto(handled, Counted(sent', m + 1)) = handled
      BY <2>3, <3>1, Beginning
    <3> QED
      BY <3>2, <3>3
  <2>7. m = SoundLength
    BY <1>1 DEF Shown
  <2>8. Stream!Write(body)
    BY <1>2, <1>6, <2>4, <2>5, <2>6, <2>7 DEF Stream!Write, Counted, Accepted
  <2> QED
    BY <2>8 DEF Stream!Next
<1>7. Sound(sent') = Sound(sent) \/ (Sound(sent) = Len(sent) /\ Sound(sent') = Len(sent) + 1)
  <2>1. \/ Sound(Append(sent, body)) = Sound(sent)
        \/ Sound(sent) = Len(sent) /\ Sound(Append(sent, body)) = Len(sent) + 1
    <3>1. sent \in Seq(Bodies)
      BY <1>2
    <3> QED
      BY <3>1, SoundGrows
  <2> QED
    BY <1>2, <2>1
<1> QED
  BY <1>1, <1>5, <1>6, <1>7 DEF Shown, Sound, SoundLength

(* The handlers are given what is readable and can be shown: such a packet has
   a type, and it is a known one. *)
LEMMA TakeCut ==
  ASSUME TypeInv, Take
  PROVE  \/ UNCHANGED <<taken, handled>>
         \/ \E body \in Seq(Byte) :
              /\ body = SubSeq(rxbuf, 3, Size)
              /\ taken' = Append(taken, body)
              /\ handled' = IF body \in Accepted THEN Append(handled, body) ELSE handled
<1> DEFINE body == SubSeq(rxbuf, 3, Size)
<1>1. /\ rxbuf \in Seq(Byte) /\ Size \in Nat /\ Size <= Len(rxbuf) /\ Len(rxbuf) \in Nat
      /\ \A i \in 1 .. Len(rxbuf) : rxbuf[i] \in Byte
  BY SizeType, ElementOfSeq DEF Take, PacketArrived, TypeInv, TypeOK
<1>2. body \in Seq(Byte)
  BY <1>1, SubSeqProperties
<1>3. CASE Size >= 2 /\ Cut(body)
  <2>1. ASSUME body \in Readable
        PROVE  ~(Len(body) < 2) /\ Type \in Known
    <3>1. Len(body) \in Nat /\ Len(body) >= 2 /\ body[1] + Base * body[2] \in Known
      <4>1. Len(body) \in Nat
        BY <1>2, LenProperties
      <4>2. \A b \in Readable : Len(b) >= 2 /\ b[1] + Base * b[2] \in Known
        BY Constants, Zenon
      <4>3. QED
        BY <2>1, <4>1, <4>2, Zenon
    <3>2. Size >= 3 /\ Len(body) = Size - 3 + 1 /\ \A i \in 1 .. Size - 3 + 1 : body[i] = rxbuf[3 + i - 1]
      BY <1>1, <3>1, SubSeqProperties
    <3>3. 1 \in 1 .. Size - 3 + 1 /\ 2 \in 1 .. Size - 3 + 1 /\ 3 + 1 - 1 = 3 /\ 3 + 2 - 1 = 4
      BY <1>1, <3>1, <3>2
    <3>4. body[1] = rxbuf[3] /\ body[2] = rxbuf[4]
      BY <3>2, <3>3
    <3> HIDE DEF body
    <3>5. Type = body[1] + Base * body[2]
      BY <3>4, Zenon DEF Type
    <3>6. Type \in Known
      BY <3>1, <3>5, Zenon
    <3>7. ~(Len(body) < 2)
      BY <3>1
    <3>8. QED
      BY <3>6, <3>7 DEF body
  <2>2. ForHandler(body) <=> body \in Accepted
    BY <2>1 DEF ForHandler, Accepted
  <2>3. TracePanics(body) => body \notin Accepted
    BY <2>1 DEF TracePanics, Accepted
  <2>4. taken' = Append(taken, body) /\ handled' = IF body \in Accepted THEN Append(handled, body) ELSE handled
    BY <1>3, <2>2, <2>3 DEF Cut
  <2>5. QED
    BY <1>2, <2>4
<1>4. CASE UNCHANGED <<taken, handled>>
  BY <1>4
<1>5. QED
  BY <1>3, <1>4 DEF Take

(* A round of the loop delivers a sound packet, or what is shown stays. *)
LEMMA TakeShows ==
  ASSUME TypeInv, FrameInv, HandledInv, Take, TypeInv', FrameInv', HandledInv'
  PROVE  [Stream!Next]_(Stream!vars)
<1> DEFINE t == Len(taken)
<1>1. PICK m \in Nat : Shown(m)
  BY ShownAt
<1>2. /\ sent \in Seq(Bodies) /\ sent' = sent
      /\ taken \in Seq(Seq(Byte)) /\ handled \in Seq(Seq(Byte)) /\ rxbuf \in Seq(Byte)
      /\ mode = "taking" /\ mode' # "closed"
      /\ t \in Nat /\ Len(handled) \in Nat /\ Len(sent) \in Nat
      /\ DOMAIN sent = 1 .. Len(sent)
  BY Lengths DEF Take, Cut, SkipUnread, TypeInv, TypeOK
<1>3. SoundLength' = SoundLength /\ Counted(sent', m) = Counted(sent, m)
  BY <1>2 DEF SoundLength, Counted, Harmless, WellFormed
<1>4. CASE UNCHANGED <<taken, handled>>
  BY <1>1, <1>2, <1>3, <1>4 DEF Shown, Counted, Accepted, Stream!vars
<1>5. ASSUME NEW body \in Seq(Byte), body = SubSeq(rxbuf, 3, Size), taken' = Append(taken, body),
             handled' = IF body \in Accepted THEN Append(handled, body) ELSE handled
      PROVE  [Stream!Next]_(Stream!vars)
  <2>1. CASE m <= t
    <3>1. Upto(taken', m) = Upto(taken, m)
      <4>1. taken \in Seq(Seq(Byte)) /\ m <= Len(taken)
        BY <1>2, <2>1
      <4>2. \A x \in Seq(Byte) : Upto(Append(taken, x), m) = Upto(taken, m)
        BY <4>1, Beginning
      <4> QED
        BY <1>5, <4>2
    <3>2. Counted(sent, m) \in Nat /\ Counted(sent, m) <= Len(handled)
      BY <1>1, <2>1 DEF Shown
    <3>3. Upto(handled', Counted(sent, m)) = Upto(handled, Counted(sent, m))
      <4>1. handled \in Seq(Seq(Byte))
        BY <1>2
      <4>2. \A x \in Seq(Byte) : Upto(Append(handled, x), Counted(sent, m)) = Upto(handled, Counted(sent, m))
        BY <3>2, <4>1, Beginning
      <4> QED
        BY <1>5, <4>2
    <3>4. m = SoundLength
      BY <1>1 DEF Shown
    <3> QED
      BY <1>2, <1>3, <3>1, <3>3, <3>4 DEF Counted, Accepted, Stream!vars
  <2>2. CASE t < m
    <3>1. /\ m = SoundLength /\ m <= Len(sent) /\ Counted(sent, m) \in Nat
          /\ Len(handled) <= Counted(sent, m)
      BY <1>1, <1>2, <2>2 DEF Shown
    <3>2. \A j \in 1 .. m : WellFormed(sent[j])
      BY <1>2, <3>1, SoundPrefix DEF Sound, SoundLength, Harmless
    <3>3. TakenWellFormed /\ Aligned
      <4>1. TakenWellFormed
        BY <1>2, <2>2, <3>2 DEF TakenWellFormed
      <4> QED
        BY <1>2, <4>1 DEF FrameInv
    <3>4. taken' = Append(taken, sent[t + 1])
      BY <1>2, <2>2, <3>2, <3>3, TakeAligned
    <3>5. body = sent[t + 1]
      <4>1. sent[t + 1] \in Seq(Byte)
        BY <1>2, <2>2, <3>1, Lengths
      <4>2. taken'[t + 1] = body
        BY <1>2, <1>5
      <4>3. taken'[t + 1] = sent[t + 1]
        BY <1>2, <3>4, <4>1
      <4> QED
        BY <4>2, <4>3
    <3>6. Len(taken') = t + 1
      BY <1>2, <1>5
    <3>7. Len(handled') <= Counted(sent, m) /\ handled' \in Seq(Seq(Byte))
      <4>1. \A k \in 1 .. t + 1 : taken'[k] = sent[k]
        <5> TAKE k \in 1 .. t + 1
        <5>1. k \in DOMAIN taken' \cap DOMAIN sent' /\ \A j \in 1 .. k : WellFormed(sent'[j])
          BY <1>2, <1>5, <2>2, <3>1, <3>2, <3>6
        <5> QED
          BY <1>2, <5>1 DEF FrameInv, SoundUntilHarmful
      <4>2. Counted(taken', t + 1) = Counted(sent, t + 1)
        <5>1. t + 1 \in Nat
          BY <1>2
        <5> QED
          BY <4>1, <5>1, CountedSame
      <4>3. Counted(sent, t + 1) <= Counted(sent, m)
        BY <1>2, <2>2, Counting
      <4> QED
        BY <3>6, <4>2, <4>3 DEF HandledInv, TypeInv, TypeOK
    <3>8. Upto(taken, m) = taken /\ Upto(taken', m) = taken'
      <4>1. taken' \in Seq(Seq(Byte)) /\ Len(taken') <= m
        BY <1>2, <1>5, <2>2, <3>6
      <4> QED
        BY <1>2, <2>2, <4>1, Beginning
    <3>9. Upto(handled, Counted(sent, m)) = handled /\ Upto(handled', Counted(sent, m)) = handled'
      BY <1>2, <3>1, <3>7, Beginning
    <3>10. Len(Upto(sent, m)) = m /\ Upto(sent, m)[t + 1] = sent[t + 1]
      BY <1>2, <2>2, <3>1, Beginning
    <3>11. Stream!Deliver
      BY <1>2, <1>3, <1>5, <2>2, <3>1, <3>5, <3>6, <3>8, <3>9, <3>10 DEF Stream!Deliver, Counted, Accepted
    <3> QED
      BY <3>11 DEF Stream!Next
  <2> QED
    BY <1>2, <2>1, <2>2
<1> QED
  BY <1>4, <1>5, TakeCut DEF TypeInv

LEMMA HandledStep ==
  ASSUME TypeInv, HandledInv, [Next]_vars
  PROVE  HandledInv'
<1>1. /\ taken \in Seq(Seq(Byte)) /\ handled \in Seq(Seq(Byte)) /\ rxbuf \in Seq(Byte)
      /\ Len(taken) \in Nat /\ Len(handled) \in Nat
  BY DEF TypeInv, TypeOK
<1>2. CASE UNCHANGED <<taken, handled>>
  BY <1>2 DEF HandledInv, Counted
<1>3. ASSUME NEW body \in Seq(Byte), taken' = Append(taken, body),
             handled' = IF body \in Accepted THEN Append(handled, body) ELSE handled
      PROVE  HandledInv'
  <2>1. /\ Len(taken') = Len(taken) + 1 /\ taken'[Len(taken) + 1] = body
        /\ \A k \in 1 .. Len(taken) : taken'[k] = taken[k]
    BY <1>1, <1>3
  <2>2. Counted(taken', Len(taken)) = Counted(taken, Len(taken))
    BY <1>1, <2>1, CountedSame
  <2>3. Counted(taken', Len(taken) + 1)
          = IF taken'[Len(taken) + 1] \in Accepted THEN Counted(taken', Len(taken)) + 1
                                                    ELSE Counted(taken', Len(taken))
    BY <1>1, Counting
  <2>4. Len(handled') = IF body \in Accepted THEN Len(handled) + 1 ELSE Len(handled)
    BY <1>1, <1>3
  <2> QED
    BY <2>1, <2>2, <2>3, <2>4 DEF HandledInv
<1>4. CASE Take
  BY <1>2, <1>3, <1>4, TakeCut
<1>5. CASE Next /\ ~Take
  BY <1>2, <1>5 DEF Next, Send, SomeRead, Read, ReadKey, ReadData, HandlerEnds, LeaveLoop,
                    FromShard, Written, Close
<1> QED
  BY <1>2, <1>4, <1>5 DEF vars

(* The connection implements the abstract stream, step by step: however the
   bytes are cut into reads and whatever is written in between, the packets
   before the first one that may harm come out in the order they were written,
   each once, and those that can be read are handled, until the connection
   ends.  (That they do come out, Stream!Spec's fairness, is left to the
   model checker.) *)
THEOREM FollowsStream == Spec => Stream!Init /\ [][Stream!Next]_(Stream!vars)
<1>1. Init => Stream!Init
  <2> SUFFICES ASSUME Init PROVE Stream!Init
    OBVIOUS
  <2>1. sent = <<>> /\ taken = <<>> /\ handled = <<>> /\ <<>> \in Seq(Bodies) /\ Len(<<>>) = 0
    BY DEF Init
  <2>2. SoundLength = 0
    <3>1. Sound(<<>>) \in 0 .. 0
      BY <2>1, SoundPrefix
    <3> QED
      BY <2>1, <3>1 DEF Sound, SoundLength
  <2>3. Counted(sent, 0) = 0
    BY Counting
  <2>4. Upto(sent, 0) = <<>> /\ Upto(taken, 0) = <<>> /\ Upto(handled, 0) = <<>>
    <3>1. Upto(<<>>, 0) = <<>>
      <4>1. SubSeq(<<>>, 1, 0) = <<>> /\ ~(0 < Len(<<>>)) /\ Len(<<>>) = 0
        BY <2>1
      <4> QED
        BY <4>1 DEF Upto
    <3> QED
      BY <2>1, <3>1
  <2> QED
    BY <2>1, <2>2, <2>3, <2>4 DEF Init, Stream!Init, Counted, Accepted
<1>2. Init => HandledInv
  <2> SUFFICES ASSUME Init PROVE HandledInv
    OBVIOUS
  <2>1. Len(taken) = 0 /\ Len(handled) = 0
    BY DEF Init
  <2> QED
    BY <2>1, Counting DEF HandledInv
<1>3. TypeInv /\ HandledInv /\ [Next]_vars => HandledInv'
  BY HandledStep
<1>4. TypeInv /\ FrameInv /\ HandledInv /\ [Next]_vars /\ TypeInv' /\ FrameInv' /\ HandledInv'
        => [Stream!Next]_(Stream!vars)
  <2> SUFFICES ASSUME TypeInv, FrameInv, HandledInv, [Next]_vars, TypeInv', FrameInv', HandledInv'
               PROVE  [Stream!Next]_(Stream!vars)
    OBVIOUS
  <2>1. CASE UNCHANGED <<sent, taken, handled>> /\ (mode' = "closed") = (mode = "closed")
    BY <2>1 DEF Stream!vars, Upto, SoundLength, Harmless, WellFormed
  <2>2. CASE Close
    <3>1. UNCHANGED <<sent, taken, handled>> /\ mode # "closed" /\ mode' = "closed"
      BY <2>2 DEF Close
    <3>2. Stream!End
      BY <3>1 DEF Stream!End, Upto, SoundLength, Harmless, WellFormed
    <3> QED
      BY <3>2 DEF Stream!Next
  <2>3. CASE SomeRead \/ HandlerEnds \/ LeaveLoop \/ FromShard \/ Written
    BY <2>1, <2>3 DEF SomeRead, Read, ReadKey, ReadData, HandlerEnds, LeaveLoop, FromShard, Written
  <2> QED
    BY <2>1, <2>2, <2>3, SendShows, TakeShows DEF vars, Next
<1>5. QED
  BY <1>1, <1>2, <1>3, <1>4, TypeCorrect, FrameCorrect, PTL DEF Spec
=============================================================================
