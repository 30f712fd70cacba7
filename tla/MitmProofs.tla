----------------------------- MODULE MitmProofs -----------------------------
(***************************************************************************)
(* Proofs about TracingProxy: for all connections, packets, limits and     *)
(* settings, and whatever the window does.                                 *)
(*                                                                         *)
(* Decryptable rests on the alignment of four pairs of key streams: each   *)
(* byte on a wire was encrypted with the step of its box that the reader's *)
(* copy will have reached when it gets there.  Intelligible, WindowTruth   *)
(* and SilentAfterStop rest on a line of packets: what was let through are *)
(* whole packets in order, what waits are all the later ones, and a step   *)
(* only moves a byte, cuts out the packet between them, adds the handshake *)
(* at the front or a packet at the end, or ends the task.                  *)
(***************************************************************************)
EXTENDS TracingProxy, SettingsProofs

Unit == [n : Nat, part : Nat, box : Box \cup {"none"}, at : Nat]

(* The types of what the connections consist of. *)
Shape ==
  /\ task \in [Conn -> {"accepted", "connecting", "open", "returned", "panicked"}]
  /\ step \in [Conn -> {"select", "packets", "write"}]
  /\ dir \in [Conn -> Direction]
  /\ cipher_state \in [Conn -> {"Uninit", "ClientHandshakeReceived", "EncryptedChannel"}]
  /\ buf \in [Conn -> [Direction -> Seq(Unit)]]
  /\ out \in [Conn -> Seq(Unit)]
  /\ mine \in [Conn -> [Box -> Nat]]
  /\ theirs \in [Conn -> [Box -> Nat]]
  /\ arriving \in [Conn -> [Direction -> Seq(Unit)]]
  /\ leaving \in [Conn -> [Direction -> Seq(Unit)]]
  /\ greeted \in [Conn -> [Direction -> BOOLEAN]]
  /\ sent \in [Conn -> [Direction -> Seq(Kind)]]
  /\ received \in [Conn -> [Direction -> Seq(Unit)]]

(* The proxy has read the handshake of d, and has written it or is about to. *)
Handshaken(c, d) ==
  IF d = "up" THEN cipher_state[c] # "Uninit" ELSE cipher_state[c] = "EncryptedChannel"

(* A byte of a packet that was sent. *)
OfPacket(c, d, byte) == byte.part # 0 /\ byte.n \in 1 .. Len(sent[c][d])

(* Bytes that were encrypted with the steps of box from at + 1 on, and that
   belong to packets up to the n-th; those up to key are not looked at. *)
Steps(wire, key, box, at, n) ==
  \A k \in key + 1 .. Len(wire) :
    wire[k].part # 0 /\ wire[k].n \in 1 .. n /\ wire[k].box = box /\ wire[k].at = at + k - key

(* What is on its way to the proxy will be decrypted with the right steps. *)
ArrivingAligned(c, d) ==
  LET b == InBox(d)
      wire == arriving[c][d]
      key == IF Handshaken(c, d) THEN 0 ELSE KeySize[d]
  IN /\ ~greeted[c][d] => wire = <<>> /\ theirs[c][b] = 0 /\ ~Handshaken(c, d)
     /\ ~Handshaken(c, d) => mine[c][b] = 0
     /\ greeted[c][d] =>
          /\ theirs[c][b] + key = mine[c][b] + Len(wire)
          /\ Steps(wire, key, b, mine[c][b], Len(sent[c][d]))

Writing(c, d) == step[c] = "write" /\ dir[c] = d

(* Bytes a receiver will read after `from` others, of which the first `key` are
   not encrypted, when its copy of box is at `at`. *)
Queue(wire, box, at, key, from) ==
  \A k \in 1 .. Len(wire) :
    /\ wire[k].part # 0
    /\ from + k > key => wire[k].box = box /\ wire[k].at = at + (from + k) - key

(* What is on its way from the proxy will be decrypted with the right steps. *)
LeavingAligned(c, d) ==
  LET b == OutBox(d)
      key == IF HasGreeting(c, d) THEN 0 ELSE KeySize[d]
      rest == IF Writing(c, d) THEN Len(out[c]) ELSE 0
  IN /\ Queue(leaving[c][d], b, theirs[c][b], key, 0)
     /\ Writing(c, d) => Queue(out[c], b, theirs[c][b], key, Len(leaving[c][d]))
     /\ ~HasGreeting(c, d) => theirs[c][b] = 0
     /\ Handshaken(c, d) /\ task[c] = "open" =>
          mine[c][b] + key = theirs[c][b] + Len(leaving[c][d]) + rest
     /\ ~Handshaken(c, d) =>
          /\ leaving[c][d] = <<>> /\ ~Writing(c, d) /\ ~HasGreeting(c, d)
          /\ mine[c][b] = 0

(* What is decrypted is not garbage. *)
Plaintext(c, d) ==
  /\ \A k \in DOMAIN buf[c][d] : OfPacket(c, d, buf[c][d][k])
  /\ step[c] = "packets" /\ dir[c] = d =>
       /\ cipher_state[c] = "EncryptedChannel"
       /\ \A k \in DOMAIN out[c] : out[c][k].part # 0
  /\ \A k \in DOMAIN received[c][d] : received[c][d][k].part # 0

Streams(c, d) ==
  /\ task[c] = "open" => ArrivingAligned(c, d)
  /\ task[c] \in {"accepted", "connecting"} => ~greeted[c][d] /\ ArrivingAligned(c, d)
  /\ LeavingAligned(c, d)
  /\ Plaintext(c, d)
  /\ step[c] = "select" => out[c] = <<>>

KeysAligned == Shape /\ \A c \in Conn, d \in Direction : Streams(c, d)

-----------------------------------------------------------------------------
(* Sequences of units. *)

(* InBox and OutBox: every direction is decrypted and encrypted by boxes of
   its own; no box is used for two purposes. *)
LEMMA BoxFacts ==
  ASSUME NEW d \in Direction
  PROVE  /\ InBox(d) \in Box /\ OutBox(d) \in Box
         /\ Other(d) \in Direction
         /\ \A f \in Direction :
              /\ InBox(d) # OutBox(f)
              /\ f # d => InBox(f) # InBox(d) /\ OutBox(f) # OutBox(d)
BY DEF Direction, Box, InBox, OutBox, Other

(* KeySize: a half of the handshake has at least one byte. *)
LEMMA KeySizes == \A d \in Direction : KeySize[d] \in Nat /\ KeySize[d] > 0
BY MitmAssumption

(* Parts: the bytes of a packet, one after the other, in clear. *)
LEMMA PartsType ==
  ASSUME NEW n \in Nat, NEW size \in Nat
  PROVE  /\ Parts(n, size) \in Seq(Unit)
         /\ Len(Parts(n, size)) = size
         /\ \A k \in 1 .. size : Parts(n, size)[k] = Clear(n, k)
BY DEF Parts, Clear, Unit

(* Clear: a byte in clear has the packet and the part it was made with. *)
LEMMA ClearUnit ==
  ASSUME NEW n \in Nat, NEW part \in Nat
  PROVE  Clear(n, part) \in Unit /\ Clear(n, part).n = n /\ Clear(n, part).part = part
BY DEF Clear, Unit

(* Encrypt (xor_in_place): every byte is marked with the box and the step,
   and stays the byte it was. *)
LEMMA EncryptType ==
  ASSUME NEW data \in Seq(Unit), NEW box \in Box, NEW at \in Nat
  PROVE  /\ Encrypt(data, box, at) \in Seq(Unit)
         /\ Len(Encrypt(data, box, at)) = Len(data)
         /\ \A k \in 1 .. Len(data) :
              /\ Encrypt(data, box, at)[k].part = data[k].part
              /\ Encrypt(data, box, at)[k].n = data[k].n
              /\ Encrypt(data, box, at)[k].box = box
              /\ Encrypt(data, box, at)[k].at = at + k
<1>1. \A u \in Unit, n \in Nat : [u EXCEPT !.box = box, !.at = n] \in Unit
                /\ [u EXCEPT !.box = box, !.at = n].n = u.n
                /\ [u EXCEPT !.box = box, !.at = n].part = u.part
                /\ [u EXCEPT !.box = box, !.at = n].box = box
                /\ [u EXCEPT !.box = box, !.at = n].at = n
  BY DEF Unit
<1>2. DOMAIN data = 1 .. Len(data) /\ \A k \in 1 .. Len(data) : data[k] \in Unit /\ at + k \in Nat
  OBVIOUS
<1>3. \A k \in 1 .. Len(data) : Encrypt(data, box, at)[k] = [data[k] EXCEPT !.box = box, !.at = at + k]
  BY <1>2 DEF Encrypt
<1>4. Encrypt(data, box, at) = [k \in 1 .. Len(data) |-> Encrypt(data, box, at)[k]]
  BY <1>2 DEF Encrypt
<1>5. \A k \in 1 .. Len(data) :
        /\ Encrypt(data, box, at)[k] \in Unit
        /\ Encrypt(data, box, at)[k].part = data[k].part
        /\ Encrypt(data, box, at)[k].n = data[k].n
        /\ Encrypt(data, box, at)[k].box = box
        /\ Encrypt(data, box, at)[k].at = at + k
  <2> TAKE k \in 1 .. Len(data)
  <2> PICK u \in Unit, n \in Nat : u = data[k] /\ n = at + k
    BY <1>2
  <2>1. Encrypt(data, box, at)[k] = [u EXCEPT !.box = box, !.at = n]
    BY <1>3
  <2>2. LET e == [u EXCEPT !.box = box, !.at = n]
        IN e \in Unit /\ e.n = u.n /\ e.part = u.part /\ e.box = box /\ e.at = n
    BY <1>1
  <2> QED
    BY <2>1, <2>2, Zenon
<1>6. Encrypt(data, box, at) \in Seq(Unit) /\ Len(Encrypt(data, box, at)) = Len(data)
  BY <1>4, <1>5
<1> QED
  BY <1>5, <1>6

(* Decrypt (xor_in_place): a byte met with the box and the step it was
   encrypted with is the byte that was sent. *)
LEMMA DecryptType ==
  ASSUME NEW data \in Seq(Unit), NEW box \in Box, NEW at \in Nat
  PROVE  /\ Decrypt(data, box, at) \in Seq(Unit)
         /\ Len(Decrypt(data, box, at)) = Len(data)
         /\ \A k \in 1 .. Len(data) :
              data[k].box = box /\ data[k].at = at + k =>
                /\ Decrypt(data, box, at)[k].part = data[k].part
                /\ Decrypt(data, box, at)[k].n = data[k].n
<1>1. \A u \in Unit : /\ Clear(u.n, u.part) \in Unit
                      /\ Clear(u.n, u.part).n = u.n /\ Clear(u.n, u.part).part = u.part
  BY DEF Unit, Clear
<1>2. Garbage \in Unit
  BY DEF Unit, Clear, Garbage
<1>3. DOMAIN data = 1 .. Len(data) /\ \A k \in 1 .. Len(data) : data[k] \in Unit
  OBVIOUS
<1>4. \A k \in 1 .. Len(data) :
        Decrypt(data, box, at)[k] = IF data[k].box = box /\ data[k].at = at + k
                                      THEN Clear(data[k].n, data[k].part) ELSE Garbage
  BY <1>3 DEF Decrypt
<1>5. Decrypt(data, box, at) = [k \in 1 .. Len(data) |-> Decrypt(data, box, at)[k]]
  BY <1>3 DEF Decrypt
<1>6. \A k \in 1 .. Len(data) : Decrypt(data, box, at)[k] \in Unit
  BY <1>1, <1>2, <1>3, <1>4, Zenon
<1>7. Decrypt(data, box, at) \in Seq(Unit) /\ Len(Decrypt(data, box, at)) = Len(data)
  BY <1>5, <1>6
<1>8. \A k \in 1 .. Len(data) :
        data[k].box = box /\ data[k].at = at + k =>
          /\ Decrypt(data, box, at)[k].part = data[k].part
          /\ Decrypt(data, box, at)[k].n = data[k].n
  BY <1>1, <1>3, <1>4, Zenon
<1> QED
  BY <1>7, <1>8

(* Cutting a sequence of bytes in two (reads, pop_slice, partial writes). *)
LEMMA CutType ==
  ASSUME NEW s \in Seq(Unit), NEW k \in 0 .. Len(s)
  PROVE  /\ SubSeq(s, 1, k) \in Seq(Unit) /\ Len(SubSeq(s, 1, k)) = k
         /\ \A m \in 1 .. k : SubSeq(s, 1, k)[m] = s[m]
         /\ SubSeq(s, k + 1, Len(s)) \in Seq(Unit)
         /\ Len(SubSeq(s, k + 1, Len(s))) = Len(s) - k
         /\ \A m \in 1 .. Len(s) - k : SubSeq(s, k + 1, Len(s))[m] = s[k + m]
<1>1. /\ SubSeq(s, 1, k) \in Seq(Unit) /\ Len(SubSeq(s, 1, k)) = k
      /\ \A m \in 1 .. k : SubSeq(s, 1, k)[m] = s[m]
  OBVIOUS
<1>2. /\ SubSeq(s, k + 1, Len(s)) \in Seq(Unit)
      /\ Len(SubSeq(s, k + 1, Len(s))) = Len(s) - k
      /\ \A m \in 1 .. Len(s) - k : SubSeq(s, k + 1, Len(s))[m] = s[k + m]
  OBVIOUS
<1> QED
  BY <1>1, <1>2

(* Bytes behind bytes (push_slice, TCP). *)
LEMMA JoinType ==
  ASSUME NEW s \in Seq(Unit), NEW t \in Seq(Unit)
  PROVE  /\ s \o t \in Seq(Unit)
         /\ Len(s \o t) = Len(s) + Len(t)
         /\ \A m \in 1 .. Len(s) : (s \o t)[m] = s[m]
         /\ \A m \in 1 .. Len(t) : (s \o t)[Len(s) + m] = t[m]
OBVIOUS

(* The values of the variables at one connection and direction. *)
LEMMA ShapeAt ==
  ASSUME Shape, NEW c \in Conn, NEW d \in Direction
  PROVE  /\ task[c] \in {"accepted", "connecting", "open", "returned", "panicked"}
         /\ step[c] \in {"select", "packets", "write"} /\ dir[c] \in Direction
         /\ cipher_state[c] \in {"Uninit", "ClientHandshakeReceived", "EncryptedChannel"}
         /\ buf[c][d] \in Seq(Unit) /\ out[c] \in Seq(Unit)
         /\ mine[c][InBox(d)] \in Nat /\ mine[c][OutBox(d)] \in Nat
         /\ theirs[c][InBox(d)] \in Nat /\ theirs[c][OutBox(d)] \in Nat
         /\ arriving[c][d] \in Seq(Unit) /\ leaving[c][d] \in Seq(Unit)
         /\ greeted[c][d] \in BOOLEAN
         /\ sent[c][d] \in Seq(Kind) /\ received[c][d] \in Seq(Unit)
BY BoxFacts DEF Shape

(* MitmAssumption: packets have at least one byte. *)
LEMMA KindSize ==
  \A p \in Kind : p.size \in Nat /\ p.size > 0
BY MitmAssumption

-----------------------------------------------------------------------------

(* Before the first connection is accepted nothing is on any wire and no
   stream has moved. *)
THEOREM InitAligned == Init => KeysAligned
<1> SUFFICES ASSUME Init PROVE KeysAligned
  OBVIOUS
<1> USE DEF Init, MitmInit
<1>1. Shape
  BY DEF Shape, Direction
<1>2. ASSUME NEW c \in Conn, NEW d \in Direction PROVE Streams(c, d)
  <2>1. ArrivingAligned(c, d)
    BY <1>2, BoxFacts DEF ArrivingAligned, Handshaken
  <2>2. ~HasGreeting(c, d)
    BY KeySizes DEF HasGreeting
  <2>3. LeavingAligned(c, d)
    BY <2>2, BoxFacts DEF LeavingAligned, Writing, Handshaken, Queue
  <2>4. Plaintext(c, d)
    BY DEF Plaintext
  <2> QED
    BY <2>1, <2>3, <2>4 DEF Streams
<1> QED
  BY <1>1, <1>2 DEF KeysAligned

-----------------------------------------------------------------------------
(* Every step keeps the types. *)

(* A task that returns or panics keeps the types. *)
LEMMA EndTaskShape ==
  ASSUME Shape, NEW c \in Conn, NEW how \in {"returned", "panicked"}, EndTask(c, how),
         UNCHANGED <<dir, cipher_state, mine, theirs, greeted, sent, received, leaving>>,
         arriving' \in [Conn -> [Direction -> Seq(Unit)]]
  PROVE  Shape'
<1>1. [d \in Direction |-> <<>>] \in [Direction -> Seq(Unit)] /\ <<>> \in Seq(Unit)
  OBVIOUS
<1>2. buf' = [buf EXCEPT ![c] = [d \in Direction |-> <<>>]] /\ out' = [out EXCEPT ![c] = <<>>]
  BY DEF EndTask
<1>3. buf' \in [Conn -> [Direction -> Seq(Unit)]]
  BY <1>1, <1>2 DEF Shape
<1>4. out' \in [Conn -> Seq(Unit)]
  BY <1>1, <1>2 DEF Shape
<1>5. /\ task' \in [Conn -> {"accepted", "connecting", "open", "returned", "panicked"}]
      /\ step' \in [Conn -> {"select", "packets", "write"}]
  BY DEF Shape, EndTask
<1> QED
  BY <1>3, <1>4, <1>5 DEF Shape

(* What a read leaves on the wire is still a sequence of bytes. *)
LEMMA UnreadShape ==
  ASSUME Shape, NEW c \in Conn, NEW d \in Direction, NEW k \in 1 .. Len(arriving[c][d]),
         Unread(c, d, k)
  PROVE  arriving' \in [Conn -> [Direction -> Seq(Unit)]]
<1>1. arriving[c][d] \in Seq(Unit)
  BY ShapeAt
<1>2. SubSeq(arriving[c][d], k + 1, Len(arriving[c][d])) \in Seq(Unit)
  BY <1>1, CutType
<1>3. arriving' = [arriving EXCEPT ![c][d] = SubSeq(arriving[c][d], k + 1, Len(arriving[c][d]))]
  BY DEF Unread, Shape
<1> QED
  BY <1>2, <1>3 DEF Shape

(* The branches of select! in do_mitm, handshakes included, keep the types.
   *)
LEMMA ReadShape ==
  ASSUME Shape, NEW c \in Conn, NEW d \in Direction, Read(c, d)
  PROVE  Shape'
<1>1. PICK k \in 1 .. Len(arriving[c][d]) :
        Unread(c, d, k) /\ (Bail(c, d, k) \/ ReadHandshake(c, d, k) \/ ReadPackets(c, d, k))
  BY DEF Read
<1>2. UNCHANGED <<leaving, theirs, greeted, sent, received>>
  BY DEF Read, endVars
<1>3. arriving' \in [Conn -> [Direction -> Seq(Unit)]]
  BY <1>1, UnreadShape
<1>4. CASE Bail(c, d, k)
  BY <1>2, <1>3, <1>4, EndTaskShape DEF Bail
<1>5. CASE ReadHandshake(c, d, k)
  <2>1. Parts(0, KeySize[d]) \in Seq(Unit)
    BY PartsType, KeySizes
  <2>2. /\ cipher_state' \in [Conn -> {"Uninit", "ClientHandshakeReceived", "EncryptedChannel"}]
        /\ out' = [out EXCEPT ![c] = Parts(0, KeySize[d])]
        /\ step' = [step EXCEPT ![c] = "write"]
        /\ dir' = [dir EXCEPT ![c] = d]
        /\ UNCHANGED <<task, buf, mine>>
    BY <1>5 DEF ReadHandshake, Keyed, Shape
  <2>3. out' \in [Conn -> Seq(Unit)]
    BY <2>1, <2>2 DEF Shape
  <2> QED
    BY <1>2, <1>3, <2>2, <2>3 DEF Shape
<1>6. CASE ReadPackets(c, d, k)
  <2> DEFINE data == Decrypt(SubSeq(arriving[c][d], 1, k), InBox(d), mine[c][InBox(d)])
  <2>1. data \in Seq(Unit)
    <3>1. arriving[c][d] \in Seq(Unit) /\ k \in 0 .. Len(arriving[c][d]) /\ mine[c][InBox(d)] \in Nat
      BY ShapeAt
    <3>2. SubSeq(arriving[c][d], 1, k) \in Seq(Unit)
      BY <3>1, CutType
    <3> QED
      BY <3>1, <3>2, DecryptType, BoxFacts
  <2>2. /\ mine' = [mine EXCEPT ![c][InBox(d)] = @ + k]
        /\ buf' = [buf EXCEPT ![c][d] = @ \o data]
        /\ step' = [step EXCEPT ![c] = "packets"]
        /\ dir' = [dir EXCEPT ![c] = d]
        /\ UNCHANGED <<task, cipher_state, out>>
    BY <1>6 DEF ReadPackets
  <2> HIDE DEF data
  <2>3. buf[c][d] \o data \in Seq(Unit)
    BY <2>1, ShapeAt, JoinType
  <2>4. buf' \in [Conn -> [Direction -> Seq(Unit)]]
    BY <2>2, <2>3 DEF Shape
  <2>5. mine' \in [Conn -> [Box -> Nat]]
    <3>1. mine[c][InBox(d)] + k \in Nat
      BY ShapeAt
    <3> QED
      BY <2>2, <3>1, BoxFacts DEF Shape
  <2> QED
    BY <1>2, <1>3, <2>2, <2>4, <2>5 DEF Shape
<1> QED
  BY <1>1, <1>4, <1>5, <1>6

(* The first packet of the ring buffer. *)
LEMMA BufferedPacket ==
  ASSUME Shape, NEW c \in Conn, NEW d \in Direction, Plaintext(c, d), PacketArrived(c, d)
  PROVE  /\ PacketOf(c, d, buf[c][d][1]) \in Kind
         /\ PacketOf(c, d, buf[c][d][1]).size \in 0 .. Len(buf[c][d])
<1>1. buf[c][d] \in Seq(Unit) /\ 1 \in 1 .. Len(buf[c][d]) /\ sent[c][d] \in Seq(Kind)
  <2>1. buf[c][d] \in Seq(Unit) /\ buf[c][d] # <<>>
    BY ShapeAt DEF PacketArrived
  <2> QED
    BY <2>1, ShapeAt
<1>2. buf[c][d][1].n \in 1 .. Len(sent[c][d])
  BY <1>1 DEF Plaintext, OfPacket
<1>3. PacketOf(c, d, buf[c][d][1]) \in Kind
  <2>1. \A n \in 1 .. Len(sent[c][d]) : sent[c][d][n] \in Kind
    BY <1>1
  <2> QED
    BY <1>2, <2>1, Zenon DEF PacketOf
<1> QED
  BY <1>1, <1>3, KindSize DEF PacketArrived

(* One packet of on_packet's loop: a piece of the buffer goes away, and to
   `out` or nowhere; no stream moves. *)
LEMMA TakePacketEffect ==
  ASSUME KeysAligned, NEW c \in Conn, TakePacket(c)
  PROVE  LET d == dir[c]
             size == PacketOf(c, d, buf[c][d][1]).size
         IN /\ size \in 0 .. Len(buf[c][d])
            /\ buf' = [buf EXCEPT ![c][d] = SubSeq(buf[c][d], size + 1, Len(buf[c][d]))]
            /\ out' = out \/ out' = [out EXCEPT ![c] = out[c] \o SubSeq(buf[c][d], 1, size)]
            /\ task[c] = "open" /\ step[c] = "packets"
            /\ UNCHANGED <<task, step, dir, cipher_state, mine, endVars, wireVars>>
<1>1. dir[c] \in Direction /\ Streams(c, dir[c])
  BY ShapeAt, Zenon DEF KeysAligned, Direction
<1>2. PacketOf(c, dir[c], buf[c][dir[c]][1]).size \in 0 .. Len(buf[c][dir[c]])
  BY <1>1, BufferedPacket, Zenon DEF KeysAligned, Streams, TakePacket
<1> QED
  BY <1>1, <1>2, Zenon DEF TakePacket, Forward, KeysAligned, Shape

(* One packet of on_packet's loop keeps the types. *)
LEMMA TakePacketShape ==
  ASSUME KeysAligned, NEW c \in Conn, TakePacket(c)
  PROVE  Shape'
<1>1. PICK d \in Direction : d = dir[c]
  BY ShapeAt DEF KeysAligned, Direction
<1>2. PICK size \in 0 .. Len(buf[c][d]) :
        /\ buf' = [buf EXCEPT ![c][d] = SubSeq(buf[c][d], size + 1, Len(buf[c][d]))]
        /\ out' = out \/ out' = [out EXCEPT ![c] = out[c] \o SubSeq(buf[c][d], 1, size)]
        /\ UNCHANGED <<task, step, dir, cipher_state, mine, endVars, wireVars>>
  BY <1>1, TakePacketEffect
<1>3. buf[c][d] \in Seq(Unit) /\ out[c] \in Seq(Unit)
  BY ShapeAt DEF KeysAligned
<1>4. /\ SubSeq(buf[c][d], size + 1, Len(buf[c][d])) \in Seq(Unit)
      /\ SubSeq(buf[c][d], 1, size) \in Seq(Unit)
  BY <1>3, CutType
<1>5. out[c] \o SubSeq(buf[c][d], 1, size) \in Seq(Unit)
  BY <1>3, <1>4, JoinType
<1>6. buf' \in [Conn -> [Direction -> Seq(Unit)]]
  <2>1. PICK rest \in Seq(Unit) : buf' = [buf EXCEPT ![c][d] = rest]
    BY <1>2, <1>4
  <2> QED
    BY <2>1 DEF KeysAligned, Shape
<1>7. out' \in [Conn -> Seq(Unit)]
  <2>1. PICK more \in Seq(Unit) : out' = out \/ out' = [out EXCEPT ![c] = more]
    BY <1>2, <1>5
  <2> QED
    BY <2>1 DEF KeysAligned, Shape
<1> QED
  BY <1>2, <1>6, <1>7 DEF KeysAligned, Shape, endVars, wireVars

(* The end of on_packet and the encryption of what it returned keep the
   types. *)
LEMMA LeaveLoopShape ==
  ASSUME Shape, NEW c \in Conn, LeaveLoop(c)
  PROVE  Shape'
<1>1. PICK d \in Direction : d = dir[c]
  BY ShapeAt DEF Direction
<1>2. /\ out' = [out EXCEPT ![c] = Encrypt(out[c], OutBox(d), mine[c][OutBox(d)])]
      /\ mine' = [mine EXCEPT ![c][OutBox(d)] = mine[c][OutBox(d)] + Len(out[c])]
      /\ step' = [step EXCEPT ![c] = IF out[c] = <<>> THEN "select" ELSE "write"]
      /\ UNCHANGED <<task, dir, cipher_state, buf, endVars, wireVars>>
  BY <1>1 DEF LeaveLoop, Shape
<1>3. out[c] \in Seq(Unit) /\ mine[c][OutBox(d)] \in Nat /\ OutBox(d) \in Box
  BY ShapeAt, BoxFacts
<1>4. PICK data \in Seq(Unit) : data = Encrypt(out[c], OutBox(d), mine[c][OutBox(d)])
  BY <1>3, EncryptType
<1>5. PICK n \in Nat : n = mine[c][OutBox(d)] + Len(out[c])
  BY <1>3
<1>6. out' \in [Conn -> Seq(Unit)]
  BY <1>2, <1>4 DEF Shape
<1>7. mine' \in [Conn -> [Box -> Nat]]
  BY <1>2, <1>3, <1>5 DEF Shape
<1> QED
  BY <1>2, <1>6, <1>7 DEF Shape, endVars, wireVars

(* How much of `out` TCP takes. *)
LEMMA WriteEffect ==
  ASSUME Shape, NEW c \in Conn, Write(c)
  PROVE  \E d \in Direction, k \in 1 .. Len(out[c]) :
           /\ d = dir[c] /\ task[c] = "open" /\ step[c] = "write"
           /\ leaving' = [leaving EXCEPT ![c][d] = leaving[c][d] \o SubSeq(out[c], 1, k)]
           /\ out' = [out EXCEPT ![c] = SubSeq(out[c], k + 1, Len(out[c]))]
           /\ step' = [step EXCEPT ![c] = IF k = Len(out[c]) THEN "select" ELSE "write"]
           /\ UNCHANGED <<task, dir, cipher_state, buf, mine, arriving, endVars>>
<1>1. PICK d \in Direction : d = dir[c]
  BY ShapeAt DEF Direction
<1> DEFINE free == Room - Len(leaving[c][d])
           k == IF Len(out[c]) <= free THEN Len(out[c]) ELSE free
<1>2. Len(out[c]) \in Nat /\ free \in Int
  BY ShapeAt, MitmAssumption
<1>3. /\ task[c] = "open" /\ step[c] = "write" /\ k > 0
      /\ leaving' = [leaving EXCEPT ![c][d] = @ \o SubSeq(out[c], 1, k)]
      /\ out' = [out EXCEPT ![c] = SubSeq(@, k + 1, Len(@))]
      /\ step' = [step EXCEPT ![c] = IF k = Len(out[c]) THEN "select" ELSE "write"]
      /\ UNCHANGED <<task, dir, cipher_state, buf, mine, arriving, endVars>>
  BY <1>1 DEF Write
<1>4. k \in 1 .. Len(out[c])
  BY <1>2, <1>3
<1> HIDE DEF k
<1> QED
  BY <1>1, <1>3, <1>4 DEF Shape

(* write_all, piece by piece, keeps the types. *)
LEMMA WriteShape ==
  ASSUME Shape, NEW c \in Conn, Write(c)
  PROVE  Shape'
<1>1. PICK d \in Direction, k \in 1 .. Len(out[c]) :
        /\ leaving' = [leaving EXCEPT ![c][d] = leaving[c][d] \o SubSeq(out[c], 1, k)]
        /\ out' = [out EXCEPT ![c] = SubSeq(out[c], k + 1, Len(out[c]))]
        /\ step' = [step EXCEPT ![c] = IF k = Len(out[c]) THEN "select" ELSE "write"]
        /\ UNCHANGED <<task, dir, cipher_state, buf, mine, arriving, endVars>>
  BY WriteEffect
<1>2. out[c] \in Seq(Unit) /\ leaving[c][d] \in Seq(Unit) /\ k \in 0 .. Len(out[c])
  BY ShapeAt
<1>3. SubSeq(out[c], 1, k) \in Seq(Unit) /\ SubSeq(out[c], k + 1, Len(out[c])) \in Seq(Unit)
  BY <1>2, CutType
<1>4. PICK more \in Seq(Unit) : more = leaving[c][d] \o SubSeq(out[c], 1, k)
  BY <1>2, <1>3, JoinType
<1>5. leaving' \in [Conn -> [Direction -> Seq(Unit)]] /\ out' \in [Conn -> Seq(Unit)]
  BY <1>1, <1>3, <1>4 DEF Shape
<1> QED
  BY <1>1, <1>5 DEF Shape, endVars

(* The handshakes of the game and the server keep the types. *)
LEMMA GreetShape ==
  ASSUME Shape, NEW c \in Conn, NEW d \in Direction, Greet(c, d)
  PROVE  Shape'
<1>1. /\ greeted' = [greeted EXCEPT ![c][d] = TRUE]
      /\ arriving' = [arriving EXCEPT ![c][d] = arriving[c][d] \o Parts(0, KeySize[d])]
      /\ UNCHANGED <<taskVars, leaving, theirs, sent, received, closed>>
  BY DEF Greet, Shape
<1>2. arriving[c][d] \o Parts(0, KeySize[d]) \in Seq(Unit)
  <2>1. Parts(0, KeySize[d]) \in Seq(Unit)
    BY PartsType, KeySizes
  <2> QED
    BY <2>1, ShapeAt, JoinType
<1>3. arriving' \in [Conn -> [Direction -> Seq(Unit)]]
  BY <1>1, <1>2 DEF Shape
<1> QED
  BY <1>1, <1>3 DEF Shape, taskVars

(* A packet written by the game or the server keeps the types. *)
LEMMA SendShape ==
  ASSUME Shape, NEW c \in Conn, NEW d \in Direction, NEW p \in Kind, SendPacket(c, d, p)
  PROVE  Shape'
<1>1. p.size \in Nat /\ sent[c][d] \in Seq(Kind) /\ theirs[c][InBox(d)] \in Nat /\ InBox(d) \in Box
  BY KindSize, ShapeAt, BoxFacts
<1>2. PICK data \in Seq(Unit) :
        data = Encrypt(Parts(Len(sent[c][d]) + 1, p.size), InBox(d), theirs[c][InBox(d)])
  <2>1. Parts(Len(sent[c][d]) + 1, p.size) \in Seq(Unit)
    <3>1. Len(sent[c][d]) + 1 \in Nat
      BY <1>1
    <3> QED
      BY <1>1, <3>1, PartsType
  <2> QED
    BY <1>1, <2>1, EncryptType
<1>3. /\ sent' = [sent EXCEPT ![c][d] = Append(sent[c][d], p)]
      /\ arriving' = [arriving EXCEPT ![c][d] = arriving[c][d] \o data]
      /\ theirs' = [theirs EXCEPT ![c][InBox(d)] = theirs[c][InBox(d)] + p.size]
      /\ UNCHANGED <<taskVars, leaving, greeted, received, closed>>
  BY <1>1, <1>2 DEF SendPacket, Shape
<1>4. PICK more \in Seq(Unit) : more = arriving[c][d] \o data
  BY ShapeAt, JoinType
<1>5. PICK n \in Nat : n = theirs[c][InBox(d)] + p.size
  BY <1>1
<1>6. PICK s \in Seq(Kind) : s = Append(sent[c][d], p)
  <2>1. Append(sent[c][d], p) \in Seq(Kind)
    BY <1>1
  <2> QED
    BY <2>1
<1>7. arriving' \in [Conn -> [Direction -> Seq(Unit)]] /\ theirs' \in [Conn -> [Box -> Nat]]
      /\ sent' \in [Conn -> [Direction -> Seq(Kind)]]
  BY <1>1, <1>3, <1>4, <1>5, <1>6 DEF Shape
<1> QED
  BY <1>3, <1>7 DEF Shape, taskVars

(* A receiver takes the handshake, or all there is. *)
LEMMA ReceiveCases ==
  ASSUME Shape, NEW c \in Conn, NEW d \in Direction, Receive(c, d)
  PROVE  /\ \/ /\ ~HasGreeting(c, d) /\ KeySize[d] \in 0 .. Len(leaving[c][d])
               /\ received' = [received EXCEPT ![c][d] = SubSeq(leaving[c][d], 1, KeySize[d])]
               /\ leaving' = [leaving EXCEPT
                    ![c][d] = SubSeq(leaving[c][d], KeySize[d] + 1, Len(leaving[c][d]))]
               /\ theirs' = theirs
            \/ /\ HasGreeting(c, d)
               /\ received' = [received EXCEPT ![c][d] =
                    received[c][d] \o Decrypt(leaving[c][d], OutBox(d), theirs[c][OutBox(d)])]
               /\ leaving' = [leaving EXCEPT ![c][d] = <<>>]
               /\ theirs' = [theirs EXCEPT
                    ![c][OutBox(d)] = theirs[c][OutBox(d)] + Len(leaving[c][d])]
         /\ leaving[c][d] # <<>>
         /\ UNCHANGED <<taskVars, arriving, greeted, sent, closed>>
<1>1. KeySize[d] \in Nat /\ Len(leaving[c][d]) \in Nat
  BY KeySizes, ShapeAt
<1> DEFINE all == leaving[c][d]
           b == OutBox(d)
<1>2. CASE ~HasGreeting(c, d)
  <2>1. /\ Len(all) >= KeySize[d]
        /\ received' = [received EXCEPT ![c][d] = SubSeq(all, 1, KeySize[d])]
        /\ leaving' = [leaving EXCEPT ![c][d] = SubSeq(all, KeySize[d] + 1, Len(all))]
        /\ theirs' = theirs
    BY <1>2 DEF Receive
  <2>2. KeySize[d] \in 0 .. Len(all)
    BY <1>1, <2>1
  <2> QED
    BY <1>2, <2>1, <2>2 DEF Receive
<1>3. CASE HasGreeting(c, d)
  <2>1. /\ received' = [received EXCEPT ![c][d] = @ \o Decrypt(all, b, theirs[c][b])]
        /\ leaving' = [leaving EXCEPT ![c][d] = <<>>]
        /\ theirs' = [theirs EXCEPT ![c][b] = @ + Len(all)]
    BY <1>3 DEF Receive
  <2>2. /\ received' = [received EXCEPT ![c][d] = received[c][d] \o Decrypt(all, b, theirs[c][b])]
        /\ theirs' = [theirs EXCEPT ![c][b] = theirs[c][b] + Len(all)]
    BY <2>1 DEF Shape
  <2> QED
    BY <1>3, <2>1, <2>2 DEF Receive
<1> QED
  BY <1>2, <1>3

(* What the game or the server reads keeps the types. *)
LEMMA ReceiveShape ==
  ASSUME Shape, NEW c \in Conn, NEW d \in Direction, Receive(c, d)
  PROVE  Shape'
<1> DEFINE all == leaving[c][d]
           b == OutBox(d)
<1>1. all \in Seq(Unit) /\ received[c][d] \in Seq(Unit) /\ theirs[c][b] \in Nat /\ b \in Box
  BY ShapeAt, BoxFacts
<1>2. UNCHANGED <<task, step, dir, cipher_state, buf, out, mine, arriving, greeted, sent>>
  BY ReceiveCases DEF taskVars
<1>3. CASE ~HasGreeting(c, d)
  <2>1. /\ KeySize[d] \in 0 .. Len(all) /\ theirs' = theirs
        /\ received' = [received EXCEPT ![c][d] = SubSeq(all, 1, KeySize[d])]
        /\ leaving' = [leaving EXCEPT ![c][d] = SubSeq(all, KeySize[d] + 1, Len(all))]
    BY <1>3, ReceiveCases
  <2>2. SubSeq(all, 1, KeySize[d]) \in Seq(Unit) /\ SubSeq(all, KeySize[d] + 1, Len(all)) \in Seq(Unit)
    BY <1>1, <2>1, CutType
  <2> HIDE DEF all
  <2>3. received' \in [Conn -> [Direction -> Seq(Unit)]] /\ leaving' \in [Conn -> [Direction -> Seq(Unit)]]
    BY <2>1, <2>2 DEF Shape
  <2> QED
    BY <1>2, <2>1, <2>3 DEF Shape
<1>4. CASE HasGreeting(c, d)
  <2>1. /\ received' = [received EXCEPT ![c][d] = received[c][d] \o Decrypt(all, b, theirs[c][b])]
        /\ leaving' = [leaving EXCEPT ![c][d] = <<>>]
        /\ theirs' = [theirs EXCEPT ![c][b] = theirs[c][b] + Len(all)]
    BY <1>4, ReceiveCases
  <2>2. Decrypt(all, b, theirs[c][b]) \in Seq(Unit)
    BY <1>1, DecryptType
  <2>3. PICK more \in Seq(Unit) : more = received[c][d] \o Decrypt(all, b, theirs[c][b])
    BY <1>1, <2>2, JoinType
  <2>4. PICK n \in Nat : n = theirs[c][b] + Len(all)
    BY <1>1
  <2>5. <<>> \in Seq(Unit)
    OBVIOUS
  <2> HIDE DEF all, b
  <2>6. received' \in [Conn -> [Direction -> Seq(Unit)]]
    BY <2>1, <2>3 DEF Shape
  <2>7. leaving' \in [Conn -> [Direction -> Seq(Unit)]]
    BY <2>1, <2>5 DEF Shape
  <2>8. theirs' \in [Conn -> [Box -> Nat]]
    BY <1>1, <2>1, <2>4 DEF Shape
  <2> QED
    BY <1>2, <2>6, <2>7, <2>8 DEF Shape
<1> QED
  BY <1>3, <1>4

(* Every step of the proxy, of its ends and of the window keeps the types. *)
LEMMA ShapeStep ==
  ASSUME KeysAligned, [Next]_vars
  PROVE  Shape'
<1>1. Shape
  BY DEF KeysAligned
<1>2. ASSUME NEW c \in Conn, TaskStep(c) PROVE Shape'
  <2>1. CASE ReadCommand(c) \/ Connect(c)
    BY <1>1, <2>1, ZenonT(30) DEF ReadCommand, Connect, Shape, endVars, wireVars
  <2>2. ASSUME NEW d \in Direction, ReadEnd(c, d) PROVE Shape'
    BY <1>1, <2>2, EndTaskShape DEF ReadEnd, endVars, wireVars, Shape
  <2>3. CASE TakeBroken(c) \/ WriteFails(c)
    BY <1>1, <2>3, EndTaskShape DEF TakeBroken, WriteFails, endVars, wireVars, Shape
  <2> QED
    BY <1>1, <1>2, <2>1, <2>2, <2>3, ReadShape, TakePacketShape, LeaveLoopShape, WriteShape
       DEF TaskStep, Select
<1>3. ASSUME NEW c \in Conn, NEW d \in Direction, EndStep(c, d) PROVE Shape'
  <2>1. CASE CloseEnd(c, d)
    BY <1>1, <2>1 DEF CloseEnd, Shape, taskVars, wireVars
  <2> QED
    BY <1>1, <1>3, <2>1, GreetShape, SendShape, ReceiveShape DEF EndStep
<1>4. CASE UNCHANGED mitmVars
  BY <1>1, <1>4 DEF mitmVars, taskVars, endVars, wireVars, Shape
<1> QED
  BY <1>2, <1>3, <1>4 DEF Next, MitmNext, vars

-----------------------------------------------------------------------------
(* What does not disturb an invariant. *)

Same(c) ==
  UNCHANGED <<task[c], step[c], dir[c], cipher_state[c], buf[c], out[c], mine[c], theirs[c],
              arriving[c], leaving[c], greeted[c], sent[c], received[c]>>

(* Whether a direction has had its handshake depends on cipher_state alone.
   *)
LEMMA HandshakenSame ==
  ASSUME NEW c \in Conn, NEW d \in Direction, cipher_state'[c] = cipher_state[c]
  PROVE  Handshaken(c, d)' <=> Handshaken(c, d)
BY DEF Handshaken

(* Bytes of the first m packets are bytes of the first n, if n is no smaller.
   *)
LEMMA MoreSteps ==
  ASSUME NEW wire, NEW key, NEW box, NEW at, NEW m \in Nat, NEW n \in Nat, m <= n,
         Steps(wire, key, box, at, m)
  PROVE  Steps(wire, key, box, at, n)
<1>1. \A i \in 1 .. m : i \in 1 .. n
  OBVIOUS
<1> QED
  BY <1>1 DEF Steps

(* The wire to the proxy stays aligned when neither it nor the two copies of
   its box move. *)
LEMMA ArrivingFrame ==
  ASSUME NEW c \in Conn, NEW d \in Direction, ArrivingAligned(c, d),
         sent[c][d] \in Seq(Kind), sent'[c][d] \in Seq(Kind),
         arriving'[c][d] = arriving[c][d], greeted'[c][d] = greeted[c][d],
         theirs'[c][InBox(d)] = theirs[c][InBox(d)], mine'[c][InBox(d)] = mine[c][InBox(d)],
         Handshaken(c, d)' <=> Handshaken(c, d),
         Len(sent[c][d]) <= Len(sent'[c][d])
  PROVE  ArrivingAligned(c, d)'
<1>1. /\ ~greeted[c][d] => arriving[c][d] = <<>> /\ theirs[c][InBox(d)] = 0 /\ ~Handshaken(c, d)
      /\ ~Handshaken(c, d) => mine[c][InBox(d)] = 0
      /\ greeted[c][d] =>
           theirs[c][InBox(d)] + (IF Handshaken(c, d) THEN 0 ELSE KeySize[d])
             = mine[c][InBox(d)] + Len(arriving[c][d])
  BY DEF ArrivingAligned
<1>2. greeted[c][d] =>
        Steps(arriving[c][d], IF Handshaken(c, d) THEN 0 ELSE KeySize[d], InBox(d),
              mine[c][InBox(d)], Len(sent'[c][d]))
  <2>1. Len(sent[c][d]) \in Nat /\ Len(sent'[c][d]) \in Nat
    OBVIOUS
  <2> QED
    BY <2>1, MoreSteps DEF ArrivingAligned
<1> QED
  BY <1>1, <1>2 DEF ArrivingAligned, Steps

(* The parts of LeavingAligned after a step. *)
LEMMA MakeLeaving ==
  ASSUME NEW c \in Conn, NEW d \in Direction, NEW wire, NEW rest, NEW key, NEW M, NEW T,
         leaving'[c][d] = wire, out'[c] = rest,
         mine'[c][OutBox(d)] = M, theirs'[c][OutBox(d)] = T,
         key = IF HasGreeting(c, d)' THEN 0 ELSE KeySize[d],
         Queue(wire, OutBox(d), T, key, 0),
         Writing(c, d)' => Queue(rest, OutBox(d), T, key, Len(wire)),
         ~HasGreeting(c, d)' => T = 0,
         Handshaken(c, d)' /\ task'[c] = "open" =>
           M + key = T + Len(wire) + (IF Writing(c, d)' THEN Len(rest) ELSE 0),
         ~Handshaken(c, d)' => wire = <<>> /\ ~Writing(c, d)' /\ ~HasGreeting(c, d)' /\ M = 0
  PROVE  LeavingAligned(c, d)'
<1>1. Queue(leaving'[c][d], OutBox(d), theirs'[c][OutBox(d)],
            IF HasGreeting(c, d)' THEN 0 ELSE KeySize[d], 0)
  BY Zenon
<1>2. Writing(c, d)' => Queue(out'[c], OutBox(d), theirs'[c][OutBox(d)],
            IF HasGreeting(c, d)' THEN 0 ELSE KeySize[d], Len(leaving'[c][d]))
  BY Zenon
<1>3. (Queue(leaving[c][d], OutBox(d), theirs[c][OutBox(d)],
             IF HasGreeting(c, d) THEN 0 ELSE KeySize[d], 0))'
  BY <1>1, Zenon DEF Queue
<1>4. (Writing(c, d) => Queue(out[c], OutBox(d), theirs[c][OutBox(d)],
            IF HasGreeting(c, d) THEN 0 ELSE KeySize[d], Len(leaving[c][d])))'
  BY <1>2, Zenon DEF Queue
<1>5. mine'[c][OutBox(d)] = 0 \/ Handshaken(c, d)'
  BY Zenon
<1>6. (Handshaken(c, d) /\ task[c] = "open" =>
         mine[c][OutBox(d)] + (IF HasGreeting(c, d) THEN 0 ELSE KeySize[d])
           = theirs[c][OutBox(d)] + Len(leaving[c][d])
               + (IF Writing(c, d) THEN Len(out[c]) ELSE 0))'
  BY Zenon
<1>7. ~HasGreeting(c, d)' => theirs'[c][OutBox(d)] = 0
  BY Zenon
<1>8. ~Handshaken(c, d)' => leaving'[c][d] = <<>> /\ ~Writing(c, d)' /\ ~HasGreeting(c, d)'
  BY Zenon
<1> QED
  BY <1>3, <1>4, <1>5, <1>6, <1>7, <1>8, Zenon DEF LeavingAligned

(* The wire from the proxy stays aligned when neither it nor the two copies
   of its box move. *)
LEMMA LeavingFrame ==
  ASSUME NEW c \in Conn, NEW d \in Direction, LeavingAligned(c, d),
         leaving'[c][d] = leaving[c][d], received'[c][d] = received[c][d],
         theirs'[c][OutBox(d)] = theirs[c][OutBox(d)], mine'[c][OutBox(d)] = mine[c][OutBox(d)],
         Handshaken(c, d)' <=> Handshaken(c, d),
         Writing(c, d)' => Writing(c, d) /\ out'[c] = out[c],
         task'[c] = "open" =>
           ~Handshaken(c, d) \/ (task[c] = "open" /\ (Writing(c, d)' <=> Writing(c, d)))
  PROVE  LeavingAligned(c, d)'
<1>1. HasGreeting(c, d)' <=> HasGreeting(c, d)
  BY DEF HasGreeting
<1> DEFINE key == IF HasGreeting(c, d) THEN 0 ELSE KeySize[d]
           b == OutBox(d)
<1>2. key = IF HasGreeting(c, d)' THEN 0 ELSE KeySize[d]
  BY <1>1
<1>3. /\ Queue(leaving[c][d], b, theirs[c][b], key, 0)
      /\ Writing(c, d)' => Queue(out'[c], b, theirs[c][b], key, Len(leaving[c][d]))
      /\ ~HasGreeting(c, d)' => theirs[c][b] = 0
      /\ Handshaken(c, d)' /\ task'[c] = "open" =>
           mine[c][b] + key
             = theirs[c][b] + Len(leaving[c][d]) + (IF Writing(c, d)' THEN Len(out'[c]) ELSE 0)
      /\ ~Handshaken(c, d)' =>
           leaving[c][d] = <<>> /\ ~Writing(c, d)' /\ ~HasGreeting(c, d)' /\ mine[c][b] = 0
  BY <1>1 DEF LeavingAligned
<1> HIDE DEF key
<1> QED
  BY <1>2, <1>3, MakeLeaving

(* What is in clear stays so when nothing is added to it. *)
LEMMA PlainFrame ==
  ASSUME NEW c \in Conn, NEW d \in Direction, Plaintext(c, d),
         sent[c][d] \in Seq(Kind), sent'[c][d] \in Seq(Kind),
         buf'[c][d] = buf[c][d] \/ buf'[c][d] = <<>>, received'[c][d] = received[c][d],
         Len(sent[c][d]) <= Len(sent'[c][d]),
         step'[c] = "packets" /\ dir'[c] = d =>
           step[c] = "packets" /\ dir[c] = d /\ cipher_state'[c] = cipher_state[c] /\ out'[c] = out[c]
  PROVE  Plaintext(c, d)'
<1>1. (\A k \in DOMAIN buf[c][d] : OfPacket(c, d, buf[c][d][k]))'
  <2>1. \A k \in DOMAIN buf[c][d] : OfPacket(c, d, buf[c][d][k])
    BY DEF Plaintext
  <2>2. \A n \in 1 .. Len(sent[c][d]) : n \in 1 .. Len(sent'[c][d])
    OBVIOUS
  <2> QED
    BY <2>1, <2>2 DEF OfPacket
<1>2. (step[c] = "packets" /\ dir[c] = d =>
         /\ cipher_state[c] = "EncryptedChannel"
         /\ \A k \in DOMAIN out[c] : out[c][k].part # 0)'
  BY DEF Plaintext
<1>3. (\A k \in DOMAIN received[c][d] : received[c][d][k].part # 0)'
  BY DEF Plaintext
<1> QED
  BY <1>1, <1>2, <1>3 DEF Plaintext

(* The other connections. *)
LEMMA SameStreams ==
  ASSUME Shape, Shape', NEW c \in Conn, NEW d \in Direction, Streams(c, d), Same(c)
  PROVE  Streams(c, d)'
<1>1. Handshaken(c, d)' <=> Handshaken(c, d)
  BY HandshakenSame DEF Same
<1>2. Writing(c, d)' <=> Writing(c, d)
  BY DEF Same, Writing
<1>3. sent[c][d] \in Seq(Kind) /\ sent'[c][d] \in Seq(Kind) /\ Len(sent[c][d]) <= Len(sent'[c][d])
  BY DEF Same, Shape
<1>4. ArrivingAligned(c, d) => ArrivingAligned(c, d)'
  BY <1>1, <1>3, ArrivingFrame DEF Same
<1>5. LeavingAligned(c, d)'
  BY <1>1, <1>2, LeavingFrame DEF Same, Streams
<1>6. Plaintext(c, d)'
  BY <1>3, PlainFrame DEF Same, Streams
<1> QED
  BY <1>4, <1>5, <1>6 DEF Streams, Same

(* A write of one connection leaves all others alone. *)
LEMMA WriteOthers ==
  ASSUME Shape, NEW c \in Conn, NEW e \in Conn, e # c, Write(c)
  PROVE  Same(e)
<1>1. PICK d \in Direction, k \in 1 .. Len(out[c]) :
        /\ leaving' = [leaving EXCEPT ![c][d] = leaving[c][d] \o SubSeq(out[c], 1, k)]
        /\ out' = [out EXCEPT ![c] = SubSeq(out[c], k + 1, Len(out[c]))]
        /\ step' = [step EXCEPT ![c] = IF k = Len(out[c]) THEN "select" ELSE "write"]
        /\ UNCHANGED <<task, dir, cipher_state, buf, mine, arriving, endVars>>
  BY WriteEffect
<1> QED
  BY <1>1 DEF Same, Shape, endVars

(* do_mitm runs once per connection: a step of one leaves all others alone.
   *)
LEMMA OthersSame ==
  ASSUME KeysAligned, NEW c \in Conn, NEW e \in Conn, e # c,
         TaskStep(c) \/ \E d \in Direction : EndStep(c, d)
  PROVE  Same(e)
<1>0. Shape
  BY DEF KeysAligned
<1> USE DEF Same, Shape, taskVars, endVars, wireVars
<1>1. CASE ReadCommand(c) \/ Connect(c)
  BY <1>0, <1>1 DEF ReadCommand, Connect
<1>2. ASSUME NEW d \in Direction, Read(c, d) PROVE Same(e)
  <2>1. PICK k \in 1 .. Len(arriving[c][d]) :
          Unread(c, d, k) /\ (Bail(c, d, k) \/ ReadHandshake(c, d, k) \/ ReadPackets(c, d, k))
    BY <1>2 DEF Read
  <2>2. arriving'[e] = arriving[e] /\ UNCHANGED <<leaving, endVars>>
    BY <1>0, <1>2, <2>1 DEF Unread, Read
  <2>3. CASE Bail(c, d, k)
    BY <1>0, <2>2, <2>3 DEF Bail, EndTask
  <2>4. CASE ReadHandshake(c, d, k)
    BY <1>0, <2>2, <2>4 DEF ReadHandshake, Keyed
  <2>5. CASE ReadPackets(c, d, k)
    BY <1>0, <2>2, <2>5 DEF ReadPackets
  <2> QED
    BY <2>1, <2>3, <2>4, <2>5
<1>3. ASSUME NEW d \in Direction, ReadEnd(c, d) PROVE Same(e)
  BY <1>0, <1>3 DEF ReadEnd, EndTask
<1>4. CASE TakePacket(c)
  <2>1. PICK d \in Direction, size \in Nat :
          /\ buf' = [buf EXCEPT ![c][d] = SubSeq(buf[c][d], size + 1, Len(buf[c][d]))]
          /\ out' = out \/ out' = [out EXCEPT ![c] = out[c] \o SubSeq(buf[c][d], 1, size)]
          /\ UNCHANGED <<task, step, dir, cipher_state, mine, endVars, wireVars>>
    <3>1. PICK d \in Direction : d = dir[c]
      BY <1>0
    <3>2. PICK size \in 0 .. Len(buf[c][d]) :
            /\ buf' = [buf EXCEPT ![c][d] = SubSeq(buf[c][d], size + 1, Len(buf[c][d]))]
            /\ out' = out \/ out' = [out EXCEPT ![c] = out[c] \o SubSeq(buf[c][d], 1, size)]
            /\ UNCHANGED <<task, step, dir, cipher_state, mine, endVars, wireVars>>
      BY <1>4, <3>1, TakePacketEffect
    <3>3. size \in Nat
      BY <1>0, <3>2
    <3> QED
      BY <3>2, <3>3
  <2> QED
    BY <1>0, <2>1
<1>5. CASE TakeBroken(c) \/ WriteFails(c)
  BY <1>0, <1>5 DEF TakeBroken, WriteFails, EndTask
<1>6. CASE LeaveLoop(c)
  BY <1>0, <1>6 DEF LeaveLoop
<1>7. CASE Write(c)
  BY <1>0, <1>7, WriteOthers
<1>8. ASSUME NEW d \in Direction, Greet(c, d) \/ CloseEnd(c, d) PROVE Same(e)
  BY <1>0, <1>8 DEF Greet, CloseEnd
<1>9. ASSUME NEW d \in Direction, NEW p \in Kind, SendPacket(c, d, p) PROVE Same(e)
  BY <1>0, <1>9 DEF SendPacket
<1>10. ASSUME NEW d \in Direction, Receive(c, d) PROVE Same(e)
  <2>1. UNCHANGED <<task, step, dir, cipher_state, buf, out, mine, arriving, greeted, sent>>
    BY <1>0, <1>10, ReceiveCases
  <2>2. received'[e] = received[e] /\ leaving'[e] = leaving[e] /\ theirs'[e] = theirs[e]
    BY <1>0, <1>10, ZenonT(30) DEF Receive
  <2> QED
    BY <2>1, <2>2
<1> QED
  BY <1>1, <1>2, <1>3, <1>4, <1>5, <1>6, <1>7, <1>8, <1>9, <1>10 DEF TaskStep, Select, EndStep

-----------------------------------------------------------------------------
(* Each step of a connection keeps its streams aligned. *)

(* A task that returns or panics loses its buffers, and what is on the wires
   stays aligned. *)
LEMMA EndTaskStreams ==
  ASSUME Shape, Shape', NEW c \in Conn, NEW f \in Direction, Streams(c, f),
         NEW how \in {"returned", "panicked"}, EndTask(c, how),
         UNCHANGED <<dir, cipher_state, mine, theirs, greeted, sent, received, leaving>>
  PROVE  Streams(c, f)'
<1>1. task'[c] = how /\ step'[c] = "select" /\ out'[c] = <<>> /\ buf'[c][f] = <<>>
  BY DEF Shape, EndTask
<1>2. Handshaken(c, f)' <=> Handshaken(c, f)
  BY HandshakenSame
<1>3. ~Writing(c, f)'
  BY <1>1 DEF Writing
<1>4. LeavingAligned(c, f)'
  BY <1>1, <1>2, <1>3, LeavingFrame DEF Streams
<1>5. sent[c][f] \in Seq(Kind) /\ sent'[c][f] \in Seq(Kind) /\ Len(sent[c][f]) <= Len(sent'[c][f])
  BY DEF Shape
<1>6. Plaintext(c, f)'
  BY <1>1, <1>5, PlainFrame DEF Streams
<1> QED
  BY <1>1, <1>4, <1>6 DEF Streams

(* Nothing is on a wire before do_mitm's loop begins. *)
LEMMA ConnectStreams ==
  ASSUME Shape, Shape', NEW c \in Conn, NEW f \in Direction, Streams(c, f),
         ReadCommand(c) \/ Connect(c)
  PROVE  Streams(c, f)'
<1>1. /\ task[c] \in {"accepted", "connecting"} /\ task'[c] \in {"connecting", "open", "returned"}
      /\ UNCHANGED <<step, dir, cipher_state, buf, out, mine, endVars, wireVars>>
  BY DEF ReadCommand, Connect, Shape
<1>2. ArrivingAligned(c, f) /\ ~greeted[c][f]
  BY <1>1 DEF Streams
<1>3. ~Handshaken(c, f)
  BY <1>2 DEF ArrivingAligned
<1>4. Handshaken(c, f)' <=> Handshaken(c, f)
  BY <1>1, HandshakenSame
<1>5. sent[c][f] \in Seq(Kind) /\ sent'[c][f] \in Seq(Kind) /\ Len(sent[c][f]) <= Len(sent'[c][f])
  BY <1>1 DEF Shape, endVars
<1>6. ArrivingAligned(c, f)'
  BY <1>1, <1>2, <1>4, <1>5, ArrivingFrame DEF endVars, wireVars
<1>7. LeavingAligned(c, f)'
  BY <1>1, <1>3, <1>4, LeavingFrame DEF Streams, Writing, endVars, wireVars
<1>8. Plaintext(c, f)'
  BY <1>1, <1>5, PlainFrame DEF Streams, endVars
<1> QED
  BY <1>1, <1>2, <1>6, <1>7, <1>8 DEF Streams, endVars

(* The parts of ArrivingAligned after a step. *)
LEMMA MakeArriving ==
  ASSUME NEW c \in Conn, NEW d \in Direction, NEW wire, NEW key, NEW M, NEW T, NEW n,
         greeted'[c][d], arriving'[c][d] = wire, mine'[c][InBox(d)] = M,
         theirs'[c][InBox(d)] = T, Len(sent'[c][d]) = n,
         key = IF Handshaken(c, d)' THEN 0 ELSE KeySize[d],
         ~Handshaken(c, d)' => M = 0,
         T + key = M + Len(wire),
         Steps(wire, key, InBox(d), M, n)
  PROVE  ArrivingAligned(c, d)'
<1>1. (\A k \in (IF Handshaken(c, d) THEN 0 ELSE KeySize[d]) + 1 .. Len(arriving[c][d]) :
         /\ arriving[c][d][k].part # 0 /\ arriving[c][d][k].n \in 1 .. Len(sent[c][d])
         /\ arriving[c][d][k].box = InBox(d)
         /\ arriving[c][d][k].at =
              mine[c][InBox(d)] + k - (IF Handshaken(c, d) THEN 0 ELSE KeySize[d]))'
  BY Zenon DEF Steps
<1> QED
  BY <1>1, Zenon DEF ArrivingAligned, Steps

(* A handshake comes in clear before everything else, and moves no stream. *)
LEMMA GreetStreams ==
  ASSUME Shape, Shape', NEW c \in Conn, NEW d \in Direction, NEW f \in Direction,
         Streams(c, f), Greet(c, d)
  PROVE  Streams(c, f)'
<1>1. /\ task[c] = "open" /\ ~greeted[c][d]
      /\ greeted' = [greeted EXCEPT ![c][d] = TRUE]
      /\ arriving' = [arriving EXCEPT ![c][d] = arriving[c][d] \o Parts(0, KeySize[d])]
      /\ UNCHANGED <<task, step, dir, cipher_state, buf, out, mine, leaving, theirs, sent, received>>
  BY DEF Greet, Shape, taskVars
<1>2. Handshaken(c, f)' <=> Handshaken(c, f)
  BY <1>1, HandshakenSame
<1>3. sent[c][f] \in Seq(Kind) /\ sent'[c][f] \in Seq(Kind) /\ Len(sent[c][f]) <= Len(sent'[c][f])
  BY <1>1 DEF Shape
<1>4. ArrivingAligned(c, f)
  BY <1>1 DEF Streams
<1>5. ArrivingAligned(c, f)'
  <2>1. CASE f = d
    <3>1. arriving[c][f] = <<>> /\ theirs[c][InBox(f)] = 0 /\ ~Handshaken(c, f) /\ mine[c][InBox(f)] = 0
      BY <1>1, <1>4, <2>1 DEF ArrivingAligned
    <3>2. Parts(0, KeySize[d]) \in Seq(Unit) /\ Len(Parts(0, KeySize[d])) = KeySize[d] /\ KeySize[d] \in Nat
      BY PartsType, KeySizes
    <3>3. arriving'[c][f] = <<>> \o Parts(0, KeySize[d]) /\ greeted'[c][f]
      BY <1>1, <2>1, <3>1 DEF Shape
    <3>4. Len(arriving'[c][f]) = KeySize[f]
      BY <2>1, <3>2, <3>3
    <3>5. \A k \in KeySize[f] + 1 .. Len(arriving'[c][f]) : FALSE
      BY <2>1, <3>2, <3>4
    <3>6. /\ theirs'[c][InBox(f)] + KeySize[f] = mine'[c][InBox(f)] + Len(arriving'[c][f])
          /\ mine'[c][InBox(f)] = 0 /\ ~Handshaken(c, f)'
      BY <1>1, <1>2, <2>1, <3>1, <3>2, <3>4
    <3>7. Steps(arriving'[c][f], KeySize[f], InBox(f), mine'[c][InBox(f)], Len(sent'[c][f]))
      BY <3>5, Zenon DEF Steps
    <3> QED
      BY <3>3, <3>6, <3>7, MakeArriving
  <2>2. CASE f # d
    <3>1. greeted'[c][f] = greeted[c][f] /\ arriving'[c][f] = arriving[c][f]
      BY <1>1, <2>2 DEF Shape
    <3> QED
      BY <1>1, <1>2, <1>3, <1>4, <3>1, ArrivingFrame
  <2> QED
    BY <2>1, <2>2
<1>6. LeavingAligned(c, f)'
  BY <1>1, <1>2, LeavingFrame DEF Streams, Writing
<1>7. Plaintext(c, f)'
  BY <1>1, <1>3, PlainFrame DEF Streams
<1> QED
  BY <1>1, <1>5, <1>6, <1>7 DEF Streams

(* A wire on which bytes follow that were encrypted with the next steps. *)
LEMMA AppendAligned ==
  ASSUME NEW wire \in Seq(Unit), NEW data \in Seq(Unit), NEW b,
         NEW M \in Nat, NEW T \in Nat, NEW key \in Nat, NEW old \in Nat, NEW n \in Nat,
         old <= n,
         T + key = M + Len(wire),
         Steps(wire, key, b, M, old), Steps(data, 0, b, T, n)
  PROVE  /\ (T + Len(data)) + key = M + Len(wire \o data)
         /\ Steps(wire \o data, key, b, M, n)
<1> PICK v, w \in Nat : v = Len(data) /\ w = Len(wire)
  OBVIOUS
<1>1. /\ wire \o data \in Seq(Unit)
      /\ Len(wire \o data) = w + v
      /\ \A k \in 1 .. w : (wire \o data)[k] = wire[k]
      /\ \A k \in 1 .. v : (wire \o data)[w + k] = data[k]
  BY JoinType
<1>2. ASSUME NEW k \in key + 1 .. w + v
      PROVE  /\ (wire \o data)[k].part # 0 /\ (wire \o data)[k].n \in 1 .. n
             /\ (wire \o data)[k].box = b /\ (wire \o data)[k].at = M + k - key
  <2>1. CASE k <= w
    <3>1. k \in key + 1 .. w /\ k \in 1 .. w
      BY <2>1
    <3>2. (wire \o data)[k] = wire[k]
      BY <1>1, <3>1
    <3>3. /\ wire[k].part # 0 /\ wire[k].n \in 1 .. old
          /\ wire[k].box = b /\ wire[k].at = M + k - key
      BY <3>1 DEF Steps
    <3>4. wire[k].n \in 1 .. n
      BY <3>3, SMTT(20)
    <3> QED
      BY <3>2, <3>3, <3>4
  <2>2. CASE k > w
    <3>1. PICK m \in 1 .. v : k = w + m
      <4>1. k - w \in 1 .. v /\ k = w + (k - w)
        BY <2>2
      <4> QED
        BY <4>1
    <3>2. (wire \o data)[k] = data[m]
      BY <1>1, <3>1
    <3>3. T + m = M + k - key
      BY <3>1, SMTT(20)
    <3>4. data[m].part # 0 /\ data[m].n \in 1 .. n /\ data[m].box = b /\ data[m].at = T + m
      <4>1. m \in 0 + 1 .. Len(data) /\ T + m - 0 = T + m
        OBVIOUS
      <4> QED
        BY <4>1 DEF Steps
    <3> QED
      BY <3>2, <3>3, <3>4
  <2> QED
    BY <2>1, <2>2
<1>3. (T + v) + key = M + (w + v)
  OBVIOUS
<1>4. Steps(wire \o data, key, b, M, n)
  BY <1>1, <1>2 DEF Steps
<1> QED
  BY <1>1, <1>3, <1>4

(* A sender encrypts with the step its copy is at, behind all it has sent
   before: the proxy's copy will get there. *)
LEMMA SendStreams ==
  ASSUME Shape, Shape', NEW c \in Conn, NEW d \in Direction, NEW f \in Direction,
         Streams(c, f), NEW p \in Kind, SendPacket(c, d, p)
  PROVE  Streams(c, f)'
<1> DEFINE n == Len(sent[c][d]) + 1
           data == Encrypt(Parts(n, p.size), InBox(d), theirs[c][InBox(d)])
<1>1. /\ task[c] = "open" /\ greeted[c][d]
      /\ sent' = [sent EXCEPT ![c][d] = Append(sent[c][d], p)]
      /\ arriving' = [arriving EXCEPT ![c][d] = arriving[c][d] \o data]
      /\ theirs' = [theirs EXCEPT ![c][InBox(d)] = theirs[c][InBox(d)] + p.size]
      /\ UNCHANGED <<task, step, dir, cipher_state, buf, out, mine, leaving, greeted, received>>
  BY BoxFacts DEF SendPacket, Shape, taskVars
<1>2. Handshaken(c, f)' <=> Handshaken(c, f)
  BY <1>1, HandshakenSame
<1>3. /\ sent[c][f] \in Seq(Kind) /\ sent'[c][f] \in Seq(Kind) /\ sent[c][d] \in Seq(Kind)
      /\ sent'[c][f] = IF f = d THEN Append(sent[c][d], p) ELSE sent[c][f]
  BY <1>1 DEF Shape
<1>4. /\ Len(sent[c][f]) <= Len(sent'[c][f]) /\ n \in Nat /\ n > 0
      /\ f = d => n = Len(sent'[c][f])
  BY <1>3
<1>5. ArrivingAligned(c, f)
  BY <1>1 DEF Streams
<1>6. ArrivingAligned(c, f)'
  <2>1. CASE f = d
    <3>1. PICK wire \in Seq(Unit), T \in Nat, M \in Nat, b \in Box, size \in Nat, key \in Nat, old \in Nat :
            /\ wire = arriving[c][d] /\ b = InBox(d) /\ T = theirs[c][InBox(d)] /\ M = mine[c][InBox(d)]
            /\ size = p.size /\ key = (IF Handshaken(c, d) THEN 0 ELSE KeySize[d])
            /\ old = Len(sent[c][d])
      <4>1. /\ arriving[c][d] \in Seq(Unit) /\ theirs[c][InBox(d)] \in Nat /\ mine[c][InBox(d)] \in Nat
            /\ InBox(d) \in Box /\ Len(sent[c][d]) \in Nat
        BY <1>3, ShapeAt, BoxFacts
      <4>2. p.size \in Nat /\ (IF Handshaken(c, d) THEN 0 ELSE KeySize[d]) \in Nat
        BY KindSize, KeySizes
      <4> HIDE DEF n, data
      <4> QED
        BY <4>1, <4>2, Zenon
    <3>2. Parts(n, size) \in Seq(Unit) /\ Len(Parts(n, size)) = size
          /\ \A k \in 1 .. size : Parts(n, size)[k].n = n /\ Parts(n, size)[k].part = k
      <4> HIDE DEF n, data
      <4>0. n \in Nat
        BY <1>4
      <4>1. \A k \in 1 .. size : Parts(n, size)[k] = Clear(n, k) /\ k \in Nat
        BY <4>0, PartsType
      <4>2. \A k \in 1 .. size : Clear(n, k).n = n /\ Clear(n, k).part = k
        BY <4>0, <4>1, ClearUnit
      <4>3. Parts(n, size) \in Seq(Unit) /\ Len(Parts(n, size)) = size
        BY <4>0, PartsType
      <4> QED
        BY <4>1, <4>2, <4>3
    <3>3. data = Encrypt(Parts(n, size), b, T)
      BY <3>1
    <3> HIDE DEF data
    <3>4. data \in Seq(Unit) /\ Len(data) = size
          /\ Steps(data, 0, b, T, n)
      <4> PICK parts \in Seq(Unit) : parts = Parts(n, size)
        BY <3>2
      <4>1. /\ data \in Seq(Unit) /\ Len(data) = size
            /\ \A k \in 1 .. size :
                 data[k].part = parts[k].part /\ data[k].n = parts[k].n /\ data[k].box = b /\ data[k].at = T + k
        BY <3>2, <3>3, EncryptType
      <4> HIDE DEF n
      <4>2. \A k \in 1 .. size :
              data[k].part # 0 /\ data[k].n = n /\ data[k].box = b /\ data[k].at = T + k
        BY <3>2, <4>1
      <4>3. n \in Nat /\ n > 0
        BY <1>4
      <4> QED
        BY <4>1, <4>2, <4>3 DEF Steps
    <3>5. /\ T + key = M + Len(wire)
          /\ Steps(wire, key, b, M, old)
          /\ ~Handshaken(c, d) => M = 0
      BY <1>1, <1>5, <2>1, <3>1 DEF ArrivingAligned
    <3>6. n = old + 1 /\ n = Len(sent'[c][d])
      BY <1>4, <2>1, <3>1
    <3> HIDE DEF n
    <3>7. /\ (T + Len(data)) + key = M + Len(wire \o data)
          /\ Steps(wire \o data, key, b, M, n)
      <4>1. old <= n /\ n \in Nat
        BY <1>4, <3>6
      <4> QED
        BY <3>4, <3>5, <4>1, AppendAligned, Zenon
    <3>8. /\ arriving'[c][d] = wire \o data /\ theirs'[c][InBox(d)] = T + Len(data)
          /\ mine'[c][InBox(d)] = M /\ greeted'[c][d]
      <4>1. arriving'[c][d] = arriving[c][d] \o data
        <5>1. arriving \in [Conn -> [Direction -> Seq(Unit)]]
          BY DEF Shape
        <5> QED
          BY <1>1, <5>1
      <4>2. theirs'[c][InBox(d)] = theirs[c][InBox(d)] + p.size
        BY <1>1, BoxFacts DEF Shape
      <4> QED
        BY <1>1, <3>1, <3>4, <4>1, <4>2
    <3>9. key = IF Handshaken(c, d)' THEN 0 ELSE KeySize[d]
      BY <1>2, <2>1, <3>1
    <3>10. ArrivingAligned(c, d)'
      BY <1>2, <2>1, <3>1, <3>5, <3>6, <3>7, <3>8, <3>9, MakeArriving
    <3> QED
      BY <2>1, <3>10
  <2>2. CASE f # d
    <3>1. arriving'[c][f] = arriving[c][f] /\ theirs'[c][InBox(f)] = theirs[c][InBox(f)]
      BY <1>1, <2>2, BoxFacts DEF Shape
    <3> QED
      BY <1>1, <1>2, <1>3, <1>4, <1>5, <3>1, ArrivingFrame
  <2> QED
    BY <2>1, <2>2
<1>7. LeavingAligned(c, f)'
  <2>1. theirs'[c][OutBox(f)] = theirs[c][OutBox(f)]
    BY <1>1, BoxFacts DEF Shape
  <2> QED
    BY <1>1, <1>2, <2>1, LeavingFrame DEF Streams, Writing
<1>8. Plaintext(c, f)'
  BY <1>1, <1>3, <1>4, PlainFrame DEF Streams
<1> QED
  BY <1>1, <1>6, <1>7, <1>8 DEF Streams

(* A queue in two. *)
LEMMA QueueCut ==
  ASSUME NEW wire \in Seq(Unit), NEW box, NEW at \in Nat, NEW key \in Nat, NEW from \in Nat,
         NEW k \in 0 .. Len(wire), Queue(wire, box, at, key, from)
  PROVE  /\ Queue(SubSeq(wire, 1, k), box, at, key, from)
         /\ Queue(SubSeq(wire, k + 1, Len(wire)), box, at, key, from + k)
<1> PICK v, w \in Seq(Unit) : v = SubSeq(wire, 1, k) /\ w = SubSeq(wire, k + 1, Len(wire))
  BY CutType
<1>1. /\ Len(v) = k /\ Len(w) = Len(wire) - k
      /\ \A m \in 1 .. k : v[m] = wire[m]
      /\ \A m \in 1 .. Len(wire) - k : w[m] = wire[k + m]
  BY CutType
<1>2. Queue(v, box, at, key, from)
  <2>1. \A m \in 1 .. k : m \in 1 .. Len(wire)
    OBVIOUS
  <2> QED
    BY <1>1, <2>1 DEF Queue
<1>3. Queue(w, box, at, key, from + k)
  <2>1. \A m \in 1 .. Len(wire) - k : k + m \in 1 .. Len(wire) /\ from + (k + m) = from + k + m
    OBVIOUS
  <2> QED
    BY <1>1, <2>1 DEF Queue
<1> QED
  BY <1>2, <1>3

(* A queue and the next one. *)
LEMMA QueueJoin ==
  ASSUME NEW v \in Seq(Unit), NEW w \in Seq(Unit), NEW box, NEW at \in Nat, NEW key \in Nat,
         NEW from \in Nat, Queue(v, box, at, key, from), Queue(w, box, at, key, from + Len(v))
  PROVE  Queue(v \o w, box, at, key, from)
<1>0. v \o w \in Seq(Unit) /\ Len(v) \in Nat /\ Len(w) \in Nat
  BY JoinType
<1> PICK s \in Seq(Unit), m \in Nat, n \in Nat : s = v \o w /\ m = Len(v) /\ n = Len(w)
  BY <1>0, Zenon
<1>1. /\ Len(s) = m + n
      /\ \A k \in 1 .. m : s[k] = v[k]
      /\ \A k \in 1 .. n : s[m + k] = w[k]
  BY JoinType
<1>2. ASSUME NEW k \in 1 .. m + n
      PROVE  s[k].part # 0 /\ (from + k > key => s[k].box = box /\ s[k].at = at + (from + k) - key)
  <2>1. CASE k <= m
    <3>1. k \in 1 .. m
      BY <2>1
    <3> QED
      BY <1>1, <3>1 DEF Queue
  <2>2. CASE k > m
    <3>1. PICK i \in 1 .. n : k = m + i
      <4>1. k - m \in 1 .. n /\ k = m + (k - m)
        BY <2>2
      <4> QED
        BY <4>1
    <3>2. s[k] = w[i] /\ from + m + i = from + k
      BY <1>1, <3>1
    <3> QED
      BY <3>2 DEF Queue
  <2> QED
    BY <2>1, <2>2
<1> QED
  BY <1>1, <1>2 DEF Queue

(* A queue seen by a reader that has read on. *)
LEMMA QueueShift ==
  ASSUME NEW wire \in Seq(Unit), NEW box,
         NEW at \in Nat, NEW key \in Nat, NEW from \in Nat, Queue(wire, box, at, key, from),
         NEW at2 \in Nat, NEW key2 \in Nat, NEW from2 \in Nat,
         from >= key, at + from - key = at2 + from2 - key2
  PROVE  Queue(wire, box, at2, key2, from2)
<1>1. \A k \in 1 .. Len(wire) : from + k > key /\ at + (from + k) - key = at2 + (from2 + k) - key2
  OBVIOUS
<1> QED
  BY <1>1 DEF Queue

(* What decrypts a queue. *)
LEMMA QueueDecrypt ==
  ASSUME NEW wire \in Seq(Unit), NEW box \in Box, NEW at \in Nat, Queue(wire, box, at, 0, 0)
  PROVE  /\ Decrypt(wire, box, at) \in Seq(Unit)
         /\ Len(Decrypt(wire, box, at)) = Len(wire)
         /\ \A k \in 1 .. Len(wire) : Decrypt(wire, box, at)[k].part # 0
<1>1. \A k \in 1 .. Len(wire) : wire[k].part # 0 /\ wire[k].box = box /\ wire[k].at = at + k
  <2>1. \A k \in 1 .. Len(wire) : 0 + k > 0 /\ at + (0 + k) - 0 = at + k
    OBVIOUS
  <2> QED
    BY <2>1 DEF Queue
<1> QED
  BY <1>1, DecryptType

(* The same, for the values at the connection and the direction. *)
LEMMA ReceiveEffect ==
  ASSUME Shape, NEW c \in Conn, NEW d \in Direction, Receive(c, d)
  PROVE  /\ \/ /\ ~HasGreeting(c, d) /\ KeySize[d] \in 0 .. Len(leaving[c][d])
               /\ received'[c][d] = SubSeq(leaving[c][d], 1, KeySize[d])
               /\ leaving'[c][d] = SubSeq(leaving[c][d], KeySize[d] + 1, Len(leaving[c][d]))
               /\ theirs'[c][OutBox(d)] = theirs[c][OutBox(d)]
            \/ /\ HasGreeting(c, d)
               /\ received'[c][d] =
                    received[c][d] \o Decrypt(leaving[c][d], OutBox(d), theirs[c][OutBox(d)])
               /\ leaving'[c][d] = <<>>
               /\ theirs'[c][OutBox(d)] = theirs[c][OutBox(d)] + Len(leaving[c][d])
         /\ leaving[c][d] # <<>>
         /\ \A f \in Direction :
              /\ theirs'[c][InBox(f)] = theirs[c][InBox(f)]
              /\ f # d => /\ leaving'[c][f] = leaving[c][f] /\ received'[c][f] = received[c][f]
                          /\ theirs'[c][OutBox(f)] = theirs[c][OutBox(f)]
<1>1. /\ leaving[c][d] # <<>>
      /\ \/ /\ ~HasGreeting(c, d) /\ KeySize[d] \in 0 .. Len(leaving[c][d])
            /\ received' = [received EXCEPT ![c][d] = SubSeq(leaving[c][d], 1, KeySize[d])]
            /\ leaving' = [leaving EXCEPT
                 ![c][d] = SubSeq(leaving[c][d], KeySize[d] + 1, Len(leaving[c][d]))]
            /\ theirs' = theirs
         \/ /\ HasGreeting(c, d)
            /\ received' = [received EXCEPT ![c][d] =
                 received[c][d] \o Decrypt(leaving[c][d], OutBox(d), theirs[c][OutBox(d)])]
            /\ leaving' = [leaving EXCEPT ![c][d] = <<>>]
            /\ theirs' = [theirs EXCEPT
                 ![c][OutBox(d)] = theirs[c][OutBox(d)] + Len(leaving[c][d])]
  BY ReceiveCases, Zenon
<1>2. /\ received \in [Conn -> [Direction -> Seq(Unit)]]
      /\ leaving \in [Conn -> [Direction -> Seq(Unit)]]
      /\ theirs \in [Conn -> [Box -> Nat]]
  BY DEF Shape
<1>3. /\ OutBox(d) \in Box
      /\ \A f \in Direction : /\ InBox(f) \in Box /\ OutBox(f) \in Box /\ InBox(f) # OutBox(d)
                               /\ f # d => OutBox(f) # OutBox(d)
  BY BoxFacts
<1>4. PICK past, rest, at :
        /\ received' = [received EXCEPT ![c][d] = past]
        /\ leaving' = [leaving EXCEPT ![c][d] = rest]
        /\ theirs' = [theirs EXCEPT ![c][OutBox(d)] = at]
        /\ \/ /\ ~HasGreeting(c, d) /\ KeySize[d] \in 0 .. Len(leaving[c][d])
              /\ past = SubSeq(leaving[c][d], 1, KeySize[d])
              /\ rest = SubSeq(leaving[c][d], KeySize[d] + 1, Len(leaving[c][d]))
              /\ at = theirs[c][OutBox(d)]
           \/ /\ HasGreeting(c, d)
              /\ past = received[c][d] \o Decrypt(leaving[c][d], OutBox(d), theirs[c][OutBox(d)])
              /\ rest = <<>>
              /\ at = theirs[c][OutBox(d)] + Len(leaving[c][d])
  <2>1. theirs = [theirs EXCEPT ![c][OutBox(d)] = theirs[c][OutBox(d)]]
    BY <1>2, <1>3
  <2> QED
    BY <1>1, <2>1, Zenon
<1>5. received'[c][d] = past /\ leaving'[c][d] = rest /\ theirs'[c][OutBox(d)] = at
  BY <1>2, <1>3, <1>4
<1>6. \A f \in Direction :
        /\ theirs'[c][InBox(f)] = theirs[c][InBox(f)]
        /\ f # d => /\ leaving'[c][f] = leaving[c][f] /\ received'[c][f] = received[c][f]
                    /\ theirs'[c][OutBox(f)] = theirs[c][OutBox(f)]
  <2>1. \A b \in Box : b # OutBox(d) => theirs'[c][b] = theirs[c][b]
    BY <1>2, <1>3, <1>4
  <2>2. \A f \in Direction :
          f # d => leaving'[c][f] = leaving[c][f] /\ received'[c][f] = received[c][f]
    BY <1>2, <1>4
  <2>3. \A f \in Direction : theirs'[c][InBox(f)] = theirs[c][InBox(f)]
    <3> TAKE f \in Direction
    <3>1. InBox(f) \in Box /\ InBox(f) # OutBox(d)
      BY BoxFacts
    <3> QED
      BY <2>1, <3>1, Zenon
  <2>4. \A f \in Direction : f # d => theirs'[c][OutBox(f)] = theirs[c][OutBox(f)]
    <3> TAKE f \in Direction
    <3>1. OutBox(f) \in Box /\ (f # d => OutBox(f) # OutBox(d))
      BY BoxFacts
    <3> QED
      BY <2>1, <3>1, Zenon
  <2> QED
    BY <2>2, <2>3, <2>4
<1> QED
  BY <1>1, <1>4, <1>5, <1>6, Zenon

(* A receiver takes its half of the handshake in clear, then decrypts all
   there is with the steps the proxy encrypted it with. *)
LEMMA ReceiveStreams ==
  ASSUME Shape, Shape', NEW c \in Conn, NEW d \in Direction, NEW f \in Direction,
         Streams(c, f), Receive(c, d)
  PROVE  Streams(c, f)'
<1>1. UNCHANGED <<task, step, dir, cipher_state, drop_packets, buf, out, mine, arriving, greeted, sent>>
  BY ReceiveCases DEF taskVars
<1>2. /\ Handshaken(c, f)' <=> Handshaken(c, f)
      /\ Writing(c, f)' <=> Writing(c, f)
  BY <1>1, HandshakenSame DEF Writing
<1>3. sent[c][f] \in Seq(Kind) /\ sent'[c][f] \in Seq(Kind) /\ Len(sent[c][f]) <= Len(sent'[c][f])
  BY <1>1 DEF Shape
<1>4. ArrivingAligned(c, f) => ArrivingAligned(c, f)'
  <2>1. theirs'[c][InBox(f)] = theirs[c][InBox(f)]
    BY ReceiveEffect
  <2> QED
    BY <1>1, <1>2, <1>3, <2>1, ArrivingFrame
<1>5. CASE f # d
  <2>1. /\ leaving'[c][f] = leaving[c][f] /\ received'[c][f] = received[c][f]
        /\ theirs'[c][OutBox(f)] = theirs[c][OutBox(f)]
    BY <1>5, ReceiveEffect
  <2>2. LeavingAligned(c, f)'
    BY <1>1, <1>2, <2>1, LeavingFrame DEF Streams
  <2>3. Plaintext(c, f)'
    BY <1>1, <1>3, <2>1, PlainFrame DEF Streams
  <2> QED
    BY <1>1, <1>4, <2>2, <2>3 DEF Streams
<1>6. CASE f = d
  <2>1. PICK all \in Seq(Unit), rest \in Seq(Unit), past \in Seq(Unit), T \in Nat, M \in Nat, size \in Nat :
          /\ all = leaving[c][d] /\ rest = out[c] /\ past = received[c][d]
          /\ T = theirs[c][OutBox(d)] /\ M = mine[c][OutBox(d)] /\ size = KeySize[d] /\ size > 0
    BY ShapeAt, KeySizes
  <2>2. all # <<>> /\ Len(all) > 0
    <3>1. all # <<>>
      BY <2>1, ReceiveEffect, Zenon
    <3> QED
      BY <3>1
  <2>0. /\ Writing(c, d)' <=> Writing(c, d)
        /\ Handshaken(c, d)' <=> Handshaken(c, d)
        /\ task'[c] = task[c] /\ out'[c] = rest /\ mine'[c][OutBox(d)] = M
    BY <1>1, <1>2, <1>6, <2>1
  <2>3. Handshaken(c, d)
    BY <1>6, <2>1, <2>2 DEF Streams, LeavingAligned
  <2>4. \A k \in 1 .. Len(past) : past[k].part # 0
    BY <1>6, <2>1 DEF Streams, Plaintext
  <2>5. SUFFICES LeavingAligned(c, d)' /\ (\A k \in DOMAIN received[c][d] : received[c][d][k].part # 0)'
    <3>1. ASSUME (\A k \in DOMAIN received[c][d] : received[c][d][k].part # 0)' PROVE Plaintext(c, d)'
      <4>1. Plaintext(c, d) /\ sent' = sent /\ buf' = buf
        BY <1>1, <1>6 DEF Streams
      <4> QED
        BY <1>1, <3>1, <4>1 DEF Plaintext, OfPacket
    <3> QED
      BY <1>1, <1>4, <1>6, <3>1 DEF Streams
  <2>6. CASE ~HasGreeting(c, d)
    <3>1. /\ size \in 0 .. Len(all) /\ theirs'[c][OutBox(d)] = T
          /\ received'[c][d] = SubSeq(all, 1, size)
          /\ leaving'[c][d] = SubSeq(all, size + 1, Len(all))
      BY <2>1, <2>6, ReceiveEffect
    <3>2. PICK v, w \in Seq(Unit) : v = SubSeq(all, 1, size) /\ w = SubSeq(all, size + 1, Len(all))
      BY <3>1, CutType
    <3>3. Len(v) = size /\ Len(w) = Len(all) - size
      BY <3>1, <3>2, CutType
    <3>4. HasGreeting(c, d)'
      BY <2>1, <3>1, <3>2, <3>3 DEF HasGreeting
    <3>5. /\ Queue(all, OutBox(d), 0, size, 0) /\ T = 0
          /\ Writing(c, d) => Queue(rest, OutBox(d), 0, size, Len(all))
          /\ task[c] = "open" => M + size = T + Len(all) + (IF Writing(c, d) THEN Len(rest) ELSE 0)
      BY <1>6, <2>1, <2>3, <2>6 DEF Streams, LeavingAligned
    <3>6. Queue(v, OutBox(d), 0, size, 0) /\ Queue(w, OutBox(d), 0, size, size)
      <4>1. 0 + size = size
        OBVIOUS
      <4> QED
        BY <3>1, <3>2, <3>5, <4>1, QueueCut
    <3>7. Queue(w, OutBox(d), 0, 0, 0)
      <4>1. 0 \in Nat /\ size >= size /\ 0 + size - size = 0 + 0 - 0
        OBVIOUS
      <4> QED
        BY <3>6, <4>1, QueueShift, Zenon
    <3>8. Writing(c, d) => Queue(rest, OutBox(d), 0, 0, Len(w))
      <4>1. /\ 0 \in Nat /\ Len(all) \in Nat /\ Len(w) \in Nat
            /\ Len(all) >= size /\ 0 + Len(all) - size = 0 + Len(w) - 0
        BY <3>1, <3>3
      <4> QED
        BY <3>5, <4>1, QueueShift, Zenon
    <3>9. M + 0 = 0 + Len(w) + (IF Writing(c, d) THEN Len(rest) ELSE 0) \/ task[c] # "open"
      BY <3>1, <3>3, <3>5
    <3>10. LeavingAligned(c, d)'
      BY <2>0, <2>3, <3>1, <3>2, <3>4, <3>5, <3>7, <3>8, <3>9, MakeLeaving
    <3>11. received'[c][d] = v /\ \A k \in 1 .. Len(v) : v[k].part # 0
      BY <3>1, <3>2, <3>6 DEF Queue
    <3>12. DOMAIN v = 1 .. Len(v)
      OBVIOUS
    <3> QED
      BY <3>10, <3>11, <3>12, SMTT(30)
  <2>7. CASE HasGreeting(c, d)
    <3>1. /\ received'[c][d] = past \o Decrypt(all, OutBox(d), T)
          /\ leaving'[c][d] = <<>>
          /\ theirs'[c][OutBox(d)] = T + Len(all)
      BY <2>1, <2>7, ReceiveEffect
    <3>2. /\ Queue(all, OutBox(d), T, 0, 0)
          /\ Writing(c, d) => Queue(rest, OutBox(d), T, 0, Len(all))
          /\ task[c] = "open" => M = T + Len(all) + (IF Writing(c, d) THEN Len(rest) ELSE 0)
      BY <1>6, <2>1, <2>3, <2>7 DEF Streams, LeavingAligned
    <3>3. PICK data \in Seq(Unit) : data = Decrypt(all, OutBox(d), T) /\ Len(data) = Len(all)
            /\ \A k \in 1 .. Len(data) : data[k].part # 0
      BY <3>2, BoxFacts, QueueDecrypt
    <3>4. PICK s \in Seq(Unit) : s = past \o data
      BY JoinType
    <3>5. Len(s) >= Len(past) /\ \A k \in 1 .. Len(s) : s[k].part # 0
      <4>1. /\ Len(s) = Len(past) + Len(data)
            /\ \A m \in 1 .. Len(past) : s[m] = past[m]
            /\ \A m \in 1 .. Len(data) : s[Len(past) + m] = data[m]
        BY <3>4, JoinType
      <4>2. ASSUME NEW k \in 1 .. Len(s), k > Len(past) PROVE s[k].part # 0
        <5>1. k - Len(past) \in 1 .. Len(data) /\ Len(past) + (k - Len(past)) = k
          BY <4>1, <4>2
        <5> QED
          BY <3>3, <4>1, <5>1
      <4>3. ASSUME NEW k \in 1 .. Len(s), k <= Len(past) PROVE s[k].part # 0
        <5>1. k \in 1 .. Len(past)
          BY <4>3
        <5> QED
          BY <2>4, <4>1, <5>1
      <4> QED
        BY <4>1, <4>2, <4>3
    <3>6. HasGreeting(c, d)'
      <4>1. received'[c][d] = s /\ Len(past) >= KeySize[d] /\ Len(s) \in Nat /\ KeySize[d] \in Nat
        <5>1. received'[c][d] = s
          BY <3>1, <3>3, <3>4, Zenon
        <5>2. Len(past) >= KeySize[d] /\ KeySize[d] \in Nat
          BY <2>1, <2>7 DEF HasGreeting
        <5> QED
          BY <5>1, <5>2
      <4>2. Len(s) >= KeySize[d]
        BY <3>5, <4>1
      <4> QED
        BY <4>1, <4>2 DEF HasGreeting
    <3>7. Queue(<<>>, OutBox(d), T + Len(all), 0, 0)
      BY DEF Queue
    <3>8. Writing(c, d) => Queue(rest, OutBox(d), T + Len(all), 0, 0)
      <4>1. /\ 0 \in Nat /\ Len(all) \in Nat /\ T + Len(all) \in Nat
            /\ Len(all) >= 0 /\ T + Len(all) - 0 = (T + Len(all)) + 0 - 0
        OBVIOUS
      <4> QED
        BY <3>2, <4>1, QueueShift, Zenon
    <3>9. PICK T2 \in Nat : T2 = T + Len(all)
      OBVIOUS
    <3>10. M + 0 = T2 + 0 + (IF Writing(c, d) THEN Len(rest) ELSE 0) \/ task[c] # "open"
      <4>1. M + 0 = M /\ T2 + 0 = T2
        OBVIOUS
      <4> QED
        BY <3>2, <3>9, <4>1, Zenon
    <3>11. LeavingAligned(c, d)'
      <4>0. <<>> \in Seq(Unit) /\ Len(<<>>) = 0
        OBVIOUS
      <4>1. PICK w \in Seq(Unit) : w = <<>> /\ Len(w) = 0
        BY <4>0, Zenon
      <4>2. /\ leaving'[c][d] = w /\ theirs'[c][OutBox(d)] = T2
            /\ Queue(w, OutBox(d), T2, 0, 0)
            /\ Writing(c, d)' => Queue(rest, OutBox(d), T2, 0, Len(w))
            /\ task'[c] = "open" =>
                 M + 0 = T2 + Len(w) + (IF Writing(c, d)' THEN Len(rest) ELSE 0)
        <5>1. leaving'[c][d] = w /\ theirs'[c][OutBox(d)] = T2
          BY <3>1, <3>9, <4>1, Zenon
        <5>2. Queue(w, OutBox(d), T2, 0, 0)
          BY <3>7, <3>9, <4>1, Zenon
        <5>3. Writing(c, d)' => Queue(rest, OutBox(d), T2, 0, Len(w))
          BY <2>0, <3>8, <3>9, <4>1, Zenon
        <5>4. task'[c] = "open" =>
                M + 0 = T2 + Len(w) + (IF Writing(c, d)' THEN Len(rest) ELSE 0)
          <6>1. CASE Writing(c, d)
            BY <2>0, <3>10, <4>1, <6>1, Zenon
          <6>2. CASE ~Writing(c, d)
            BY <2>0, <3>10, <4>1, <6>2
          <6> QED
            BY <6>1, <6>2
        <5> QED
          BY <5>1, <5>2, <5>3, <5>4, Zenon
      <4>3. 0 = IF HasGreeting(c, d)' THEN 0 ELSE KeySize[d]
        BY <3>6, Zenon
      <4> QED
        BY <2>0, <2>3, <3>6, <4>2, <4>3, MakeLeaving, Zenon
    <3> QED
      BY <3>1, <3>3, <3>4, <3>5, <3>11
  <2> QED
    BY <2>6, <2>7
<1> QED
  BY <1>5, <1>6

(* The bytes after the k-th of a wire. *)
LEMMA StepsCut ==
  ASSUME NEW wire \in Seq(Unit), NEW key \in Nat, NEW box, NEW at \in Nat, NEW n \in Nat,
         NEW k \in 0 .. Len(wire), key <= k, Steps(wire, key, box, at, n)
  PROVE  Steps(SubSeq(wire, k + 1, Len(wire)), 0, box, at + k - key, n)
<1>0. \A j \in key + 1 .. Len(wire) :
        /\ wire[j].part # 0 /\ wire[j].n \in 1 .. n /\ wire[j].box = box
        /\ wire[j].at = at + j - key
  BY DEF Steps
<1> PICK w \in Seq(Unit) : w = SubSeq(wire, k + 1, Len(wire))
  BY CutType
<1>1. Len(w) = Len(wire) - k /\ \A m \in 1 .. Len(wire) - k : w[m] = wire[k + m]
  BY CutType
<1>2. ASSUME NEW m \in 0 + 1 .. Len(w)
      PROVE  /\ w[m].part # 0 /\ w[m].n \in 1 .. n /\ w[m].box = box
             /\ w[m].at = (at + k - key) + m - 0
  <2>1. PICK j \in key + 1 .. Len(wire) : j = k + m
    BY <1>1
  <2>2. w[m] = wire[j] /\ at + j - key = (at + k - key) + m - 0
    BY <1>1, <2>1
  <2>3. /\ wire[j].part # 0 /\ wire[j].n \in 1 .. n /\ wire[j].box = box
        /\ wire[j].at = at + j - key
    BY <1>0, <2>1, Zenon
  <2> QED
    BY <2>2, <2>3, Zenon
<1>3. Steps(w, 0, box, at + k - key, n)
  BY <1>2, Zenon DEF Steps
<1> QED
  BY <1>3, Zenon

(* What a read leaves on the wires, and where it finds the task. *)
LEMMA ReadFrame ==
  ASSUME Shape, NEW c \in Conn, NEW d \in Direction, NEW k \in 1 .. Len(arriving[c][d]),
         Selecting(c), Unread(c, d, k), UNCHANGED <<leaving, endVars>>
  PROVE  /\ task[c] = "open" /\ step[c] = "select"
         /\ UNCHANGED <<leaving, theirs, greeted, sent, received>>
         /\ arriving'[c][d] = SubSeq(arriving[c][d], k + 1, Len(arriving[c][d]))
         /\ \A f \in Direction : f # d => arriving'[c][f] = arriving[c][f]
BY DEF Selecting, Unread, Shape, endVars

(* A read of exactly a handshake, in the state that expects it, is the
   handshake: the streams begin behind it. *)
LEMMA ReadHandshakeStreams ==
  ASSUME Shape, Shape', NEW c \in Conn, NEW d \in Direction, NEW f \in Direction,
         NEW k \in 1 .. Len(arriving[c][d]), Streams(c, f),
         Selecting(c), Unread(c, d, k), UNCHANGED <<leaving, endVars>>, ReadHandshake(c, d, k)
  PROVE  Streams(c, f)'
<1>1. /\ task[c] = "open" /\ step[c] = "select"
      /\ UNCHANGED <<leaving, theirs, greeted, sent, received>>
      /\ arriving'[c][d] = SubSeq(arriving[c][d], k + 1, Len(arriving[c][d]))
      /\ \A e \in Direction : e # d => arriving'[c][e] = arriving[c][e]
  BY ReadFrame
<1>2. /\ cipher_state[c] = IF d = "up" THEN "Uninit" ELSE "ClientHandshakeReceived"
      /\ cipher_state'[c] = IF d = "up" THEN "ClientHandshakeReceived" ELSE "EncryptedChannel"
      /\ k = KeySize[d]
      /\ out'[c] = Parts(0, KeySize[d]) /\ step'[c] = "write" /\ dir'[c] = d
      /\ UNCHANGED <<task, buf, mine>>
  BY DEF ReadHandshake, IsHandshake, Keyed, Shape
<1>3. sent[c][f] \in Seq(Kind) /\ sent'[c][f] \in Seq(Kind) /\ Len(sent[c][f]) <= Len(sent'[c][f])
  BY <1>1 DEF Shape
<1>4. Plaintext(c, f)'
  BY <1>1, <1>2, <1>3, PlainFrame DEF Streams
<1>5. CASE f # d
  <2>1. Handshaken(c, f)' <=> Handshaken(c, f)
    BY <1>2, <1>5 DEF Handshaken, Direction
  <2>2. ~Writing(c, f) /\ ~Writing(c, f)'
    BY <1>1, <1>2, <1>5 DEF Writing
  <2>3. ArrivingAligned(c, f)'
    BY <1>1, <1>2, <1>3, <1>5, <2>1, ArrivingFrame DEF Streams
  <2>4. LeavingAligned(c, f)'
    BY <1>1, <1>2, <2>1, <2>2, LeavingFrame DEF Streams
  <2> QED
    BY <1>1, <1>2, <1>4, <2>3, <2>4 DEF Streams
<1>6. CASE f = d
  <2>1. ~Handshaken(c, d) /\ Handshaken(c, d)'
    BY <1>2 DEF Handshaken
  <2>2. PICK wire \in Seq(Unit), n \in Nat, T \in Nat, S \in Nat, size \in Nat :
          /\ wire = arriving[c][d] /\ n = Len(sent[c][d]) /\ size = KeySize[d]
          /\ T = theirs[c][InBox(d)] /\ S = theirs[c][OutBox(d)]
    <3>1. /\ arriving[c][d] \in Seq(Unit) /\ Len(sent[c][d]) \in Nat /\ KeySize[d] \in Nat
          /\ theirs[c][InBox(d)] \in Nat /\ theirs[c][OutBox(d)] \in Nat
      BY <1>3, <1>6, ShapeAt, KeySizes
    <3> QED
      BY <3>1, Zenon
  <2>3. ArrivingAligned(c, d)'
    <3>1. ArrivingAligned(c, d) /\ arriving[c][d] # <<>>
      BY <1>1, <1>6, <2>2 DEF Streams
    <3>2. /\ greeted[c][d] /\ mine[c][InBox(d)] = 0
          /\ T + size = 0 + Len(wire) /\ Steps(wire, size, InBox(d), 0, n)
      BY <2>1, <2>2, <3>1 DEF ArrivingAligned, Shape
    <3>4. size \in 0 .. Len(wire) /\ size <= size /\ 0 \in Nat /\ 0 + size - size = 0
      BY <1>2, <2>2
    <3>3. PICK w \in Seq(Unit) : w = SubSeq(wire, size + 1, Len(wire))
      BY <3>4, CutType
    <3>5. Len(w) = Len(wire) - size
      BY <3>3, <3>4, CutType
    <3>6. Steps(w, 0, InBox(d), 0, n)
      <4>1. Steps(w, 0, InBox(d), 0 + size - size, n)
        BY <3>2, <3>3, <3>4, StepsCut, Zenon
      <4> QED
        BY <3>4, <4>1, Zenon
    <3>7. T + 0 = 0 + Len(w)
      BY <3>2, <3>5
    <3>8. /\ arriving'[c][d] = w /\ theirs'[c][InBox(d)] = T /\ mine'[c][InBox(d)] = 0
          /\ Len(sent'[c][d]) = n /\ greeted'[c][d]
      BY <1>1, <1>2, <2>2, <3>2, <3>3
    <3> QED
      BY <2>1, <3>6, <3>7, <3>8, MakeArriving
  <2>4. LeavingAligned(c, d)'
    <3>1. /\ leaving[c][d] = <<>> /\ ~HasGreeting(c, d) /\ mine[c][OutBox(d)] = 0 /\ S = 0
      BY <1>6, <2>1, <2>2 DEF Streams, LeavingAligned
    <3>2. ~HasGreeting(c, d)'
      BY <1>1, <3>1 DEF HasGreeting
    <3>3. PICK rest \in Seq(Unit) : rest = Parts(0, size) /\ Len(rest) = size
            /\ \A m \in 1 .. size : rest[m].part # 0
      <4>1. \A m \in 1 .. size : Parts(0, size)[m] = Clear(0, m) /\ m \in Nat /\ m # 0
        BY PartsType
      <4>2. \A m \in 1 .. size : Clear(0, m).part = m
        BY <4>1, ClearUnit
      <4>3. Parts(0, size) \in Seq(Unit) /\ Len(Parts(0, size)) = size
        BY PartsType
      <4>4. \A m \in 1 .. size : Parts(0, size)[m].part # 0
        BY <4>1, <4>2
      <4> QED
        BY <4>3, <4>4, Zenon
    <3>4. Queue(rest, OutBox(d), 0, size, 0)
      <4>1. \A m \in 1 .. size : ~(0 + m > size)
        OBVIOUS
      <4> QED
        BY <3>3, <4>1 DEF Queue
    <3>5. PICK w \in Seq(Unit) : w = <<>> /\ Len(w) = 0
      <4>1. <<>> \in Seq(Unit) /\ Len(<<>>) = 0
        OBVIOUS
      <4> QED
        BY <4>1, Zenon
    <3>6. Queue(w, OutBox(d), 0, size, 0)
      BY <3>5 DEF Queue
    <3>7. Writing(c, d)' /\ 0 + size = 0 + Len(w) + Len(rest)
      BY <1>2, <3>3, <3>5 DEF Writing
    <3>8. /\ leaving'[c][d] = w /\ out'[c] = rest /\ mine'[c][OutBox(d)] = 0
          /\ theirs'[c][OutBox(d)] = 0 /\ size = IF HasGreeting(c, d)' THEN 0 ELSE KeySize[d]
      BY <1>1, <1>2, <2>2, <3>1, <3>2, <3>3, <3>5
    <3>9. Queue(rest, OutBox(d), 0, size, Len(w))
      BY <3>4, <3>5, Zenon
    <3> QED
      BY <2>1, <3>6, <3>7, <3>8, <3>9, MakeLeaving
  <2> QED
    BY <1>1, <1>2, <1>4, <1>6, <2>3, <2>4 DEF Streams
<1> QED
  BY <1>5, <1>6

(* A read in EncryptedChannel, cut anywhere, is decrypted with the steps it
   was encrypted with. *)
LEMMA ReadPacketsStreams ==
  ASSUME Shape, Shape', NEW c \in Conn, NEW d \in Direction, NEW f \in Direction,
         NEW k \in 1 .. Len(arriving[c][d]), Streams(c, f),
         Selecting(c), Unread(c, d, k), UNCHANGED <<leaving, endVars>>, ReadPackets(c, d, k)
  PROVE  Streams(c, f)'
<1>1. /\ task[c] = "open" /\ step[c] = "select"
      /\ UNCHANGED <<leaving, theirs, greeted, sent, received>>
      /\ arriving'[c][d] = SubSeq(arriving[c][d], k + 1, Len(arriving[c][d]))
      /\ \A e \in Direction : e # d => arriving'[c][e] = arriving[c][e]
  BY ReadFrame
<1> DEFINE data == Decrypt(SubSeq(arriving[c][d], 1, k), InBox(d), mine[c][InBox(d)])
<1>2. /\ cipher_state[c] = "EncryptedChannel"
      /\ mine' = [mine EXCEPT ![c][InBox(d)] = mine[c][InBox(d)] + k]
      /\ buf' = [buf EXCEPT ![c][d] = buf[c][d] \o data]
      /\ step'[c] = "packets" /\ dir'[c] = d
      /\ UNCHANGED <<task, cipher_state, out>>
  BY BoxFacts DEF ReadPackets, Shape
<1>3. sent[c][f] \in Seq(Kind) /\ sent'[c][f] \in Seq(Kind) /\ Len(sent[c][f]) <= Len(sent'[c][f])
  BY <1>1 DEF Shape
<1>4. Handshaken(c, f) /\ Handshaken(c, f)'
  BY <1>2 DEF Handshaken
<1> HIDE DEF data
<1>5. LeavingAligned(c, f)'
  <2>1. mine'[c][OutBox(f)] = mine[c][OutBox(f)]
    BY <1>2, BoxFacts DEF Shape
  <2>2. ~Writing(c, f) /\ ~Writing(c, f)'
    BY <1>1, <1>2 DEF Writing
  <2> QED
    BY <1>1, <1>2, <1>4, <2>1, <2>2, LeavingFrame DEF Streams
<1>6. CASE f # d
  <2>1. mine'[c][InBox(f)] = mine[c][InBox(f)] /\ buf'[c][f] = buf[c][f]
    BY <1>2, <1>6, BoxFacts DEF Shape
  <2>2. ArrivingAligned(c, f)'
    BY <1>1, <1>2, <1>3, <1>4, <1>6, <2>1, ArrivingFrame DEF Streams
  <2>3. Plaintext(c, f)'
    BY <1>1, <1>2, <1>3, <1>6, <2>1, PlainFrame DEF Streams
  <2> QED
    BY <1>1, <1>2, <1>5, <2>2, <2>3 DEF Streams
<1>7. CASE f = d
  <2>1. PICK wire \in Seq(Unit), n \in Nat, T \in Nat, M \in Nat, held \in Seq(Unit), b \in Box :
          /\ wire = arriving[c][d] /\ n = Len(sent[c][d]) /\ b = InBox(d)
          /\ T = theirs[c][InBox(d)] /\ M = mine[c][InBox(d)] /\ held = buf[c][d]
    <3>1. /\ arriving[c][d] \in Seq(Unit) /\ Len(sent[c][d]) \in Nat /\ buf[c][d] \in Seq(Unit)
          /\ theirs[c][InBox(d)] \in Nat /\ mine[c][InBox(d)] \in Nat /\ InBox(d) \in Box
      BY <1>3, <1>7, ShapeAt, BoxFacts
    <3> QED
      BY <3>1, Zenon
  <2>2. greeted[c][d] /\ T + 0 = M + Len(wire) /\ Steps(wire, 0, b, M, n)
    <3>1. ArrivingAligned(c, d) /\ arriving[c][d] # <<>>
      BY <1>1, <1>7, <2>1 DEF Streams
    <3> QED
      BY <1>4, <1>7, <2>1, <3>1 DEF ArrivingAligned, Shape
  <2>3. k \in 0 .. Len(wire) /\ 0 <= k /\ M + k - 0 = M + k
    BY <2>1
  <2>4. ArrivingAligned(c, d)'
    <3>1. PICK w \in Seq(Unit), M2 \in Nat : w = SubSeq(wire, k + 1, Len(wire)) /\ M2 = M + k
      <4>1. SubSeq(wire, k + 1, Len(wire)) \in Seq(Unit) /\ M + k \in Nat
        BY <2>3, CutType
      <4> QED
        BY <4>1, Zenon
    <3>2. Steps(w, 0, b, M2, n)
      <4>1. Steps(w, 0, b, M + k - 0, n)
        BY <2>2, <2>3, <3>1, StepsCut
      <4> QED
        BY <2>3, <3>1, <4>1, Zenon
    <3>3. Len(w) = Len(wire) - k
      BY <2>3, <3>1, CutType
    <3>4. T + 0 = M2 + Len(w)
      BY <2>1, <2>2, <2>3, <3>1, <3>3
    <3>5. mine'[c][InBox(d)] = M2
      BY <1>2, <2>1, <3>1, BoxFacts DEF Shape
    <3>6. /\ arriving'[c][d] = w /\ theirs'[c][InBox(d)] = T
          /\ Len(sent'[c][d]) = n /\ greeted'[c][d]
      BY <1>1, <2>1, <2>2, <3>1
    <3> QED
      BY <1>4, <1>7, <2>1, <3>2, <3>4, <3>5, <3>6, MakeArriving
  <2>5. Plaintext(c, d)'
    <3>1. PICK w \in Seq(Unit) : w = SubSeq(wire, 1, k) /\ Len(w) = k
            /\ \A m \in 1 .. k : w[m] = wire[m]
      BY <2>3, CutType
    <3>2. \A m \in 1 .. k : w[m].part # 0 /\ w[m].n \in 1 .. n /\ w[m].box = b /\ w[m].at = M + m
      <4>1. \A m \in 1 .. k : m \in 0 + 1 .. Len(wire) /\ M + m - 0 = M + m
        BY <2>3
      <4> QED
        BY <2>2, <3>1, <4>1 DEF Steps
    <3>3. data = Decrypt(w, b, M)
      BY <2>1, <3>1 DEF data
    <3>4. data \in Seq(Unit) /\ Len(data) = k
          /\ \A m \in 1 .. k : data[m].part # 0 /\ data[m].n \in 1 .. n
      <4>1. /\ data \in Seq(Unit) /\ Len(data) = Len(w)
            /\ \A m \in 1 .. Len(w) :
                 w[m].box = b /\ w[m].at = M + m => data[m].part = w[m].part /\ data[m].n = w[m].n
        BY <3>3, DecryptType
      <4>2. Len(w) = k
        BY <3>1
      <4> QED
        BY <3>2, <4>1, <4>2
    <3>5. \A m \in 1 .. Len(held) : held[m].part # 0 /\ held[m].n \in 1 .. n
      BY <1>7, <2>1 DEF Streams, Plaintext, OfPacket
    <3>6. PICK s \in Seq(Unit) : s = held \o data
      BY <3>4, JoinType
    <3>7. \A m \in 1 .. Len(s) : s[m].part # 0 /\ s[m].n \in 1 .. n
      <4>1. /\ Len(s) = Len(held) + Len(data)
            /\ \A m \in 1 .. Len(held) : s[m] = held[m]
            /\ \A m \in 1 .. Len(data) : s[Len(held) + m] = data[m]
        <5>1. data \in Seq(Unit) /\ held \in Seq(Unit)
          BY <3>4
        <5>2. /\ Len(held \o data) = Len(held) + Len(data)
              /\ \A m \in 1 .. Len(held) : (held \o data)[m] = held[m]
              /\ \A m \in 1 .. Len(data) : (held \o data)[Len(held) + m] = data[m]
          BY <5>1, JoinType
        <5> QED
          BY <3>6, <5>2, Zenon
      <4> TAKE m \in 1 .. Len(s)
      <4>2. CASE m <= Len(held)
        <5>1. m \in 1 .. Len(held)
          BY <4>2
        <5> QED
          BY <3>5, <4>1, <5>1
      <4>3. CASE m > Len(held)
        <5>1. m - Len(held) \in 1 .. Len(data) /\ Len(held) + (m - Len(held)) = m
          BY <4>1, <4>3
        <5> QED
          BY <3>4, <4>1, <5>1
      <4> QED
        BY <4>2, <4>3
    <3>8. buf'[c][d] = s /\ Len(sent'[c][d]) = n
      <4>1. buf'[c][d] = buf[c][d] \o data
        <5>1. buf \in [Conn -> [Direction -> Seq(Unit)]]
          BY DEF Shape
        <5> QED
          BY <1>2, <5>1
      <4> QED
        BY <1>1, <2>1, <3>6, <4>1
    <3>9. out'[c] = <<>> /\ cipher_state'[c] = "EncryptedChannel"
      BY <1>1, <1>2, <1>7 DEF Streams
    <3>10. (\A m \in DOMAIN buf[c][d] : OfPacket(c, d, buf[c][d][m]))'
      BY <3>7, <3>8 DEF OfPacket
    <3>11. (\A m \in DOMAIN received[c][d] : received[c][d][m].part # 0)'
      BY <1>1, <1>7 DEF Streams, Plaintext
    <3> QED
      BY <3>9, <3>10, <3>11 DEF Plaintext
  <2> QED
    BY <1>1, <1>2, <1>5, <1>7, <2>4, <2>5 DEF Streams
<1> QED
  BY <1>6, <1>7

(* Dropping and forwarding happen in clear: no stream moves, whatever the
   settings say. *)
LEMMA TakePacketStreams ==
  ASSUME KeysAligned, Shape', NEW c \in Conn, NEW f \in Direction, TakePacket(c)
  PROVE  Streams(c, f)'
<1>1. PICK d \in Direction : d = dir[c]
  BY ShapeAt DEF KeysAligned, Direction
<1>2. PICK size \in 0 .. Len(buf[c][d]) :
        /\ buf' = [buf EXCEPT ![c][d] = SubSeq(buf[c][d], size + 1, Len(buf[c][d]))]
        /\ out' = out \/ out' = [out EXCEPT ![c] = out[c] \o SubSeq(buf[c][d], 1, size)]
        /\ task[c] = "open" /\ step[c] = "packets"
        /\ UNCHANGED <<task, step, dir, cipher_state, mine, theirs, greeted, sent, received,
                       arriving, leaving>>
  BY <1>1, TakePacketEffect DEF endVars, wireVars
<1>3. Shape /\ Streams(c, f) /\ Streams(c, d)
  BY DEF KeysAligned
<1>4. /\ Handshaken(c, f)' <=> Handshaken(c, f)
      /\ ~Writing(c, f)' /\ ~Writing(c, f)
  BY <1>2, HandshakenSame DEF Writing
<1>5. sent[c][f] \in Seq(Kind) /\ sent'[c][f] \in Seq(Kind) /\ Len(sent[c][f]) <= Len(sent'[c][f])
  BY <1>2, <1>3 DEF Shape
<1>6. ArrivingAligned(c, f)'
  BY <1>2, <1>3, <1>4, <1>5, ArrivingFrame DEF Streams
<1>7. LeavingAligned(c, f)'
  BY <1>2, <1>3, <1>4, LeavingFrame DEF Streams
<1>8. CASE f # d
  <2>1. buf'[c][f] = buf[c][f]
    BY <1>2, <1>3, <1>8 DEF Shape
  <2>2. Plaintext(c, f)'
    BY <1>1, <1>2, <1>3, <1>5, <1>8, <2>1, PlainFrame DEF Streams
  <2> QED
    BY <1>2, <1>6, <1>7, <2>2 DEF Streams
<1>9. CASE f = d
  <2>1. PICK held, old \in Seq(Unit) : held = buf[c][d] /\ old = out[c]
    BY <1>3, ShapeAt
  <2>2. /\ cipher_state[c] = "EncryptedChannel"
        /\ \A k \in 1 .. Len(held) : OfPacket(c, d, held[k])
        /\ \A k \in 1 .. Len(old) : old[k].part # 0
        /\ \A k \in DOMAIN received[c][d] : received[c][d][k].part # 0
    BY <1>1, <1>2, <1>3, <2>1 DEF Streams, Plaintext
  <2>3. PICK v, w \in Seq(Unit) : v = SubSeq(held, 1, size) /\ w = SubSeq(held, size + 1, Len(held))
          /\ Len(v) = size /\ Len(w) = Len(held) - size
          /\ (\A m \in 1 .. size : v[m] = held[m])
          /\ \A m \in 1 .. Len(held) - size : w[m] = held[size + m]
    <3>1. size \in 0 .. Len(held)
      BY <2>1
    <3> QED
      BY <3>1, CutType
  <2>4. (\A m \in 1 .. Len(v) : v[m].part # 0) /\ \A m \in 1 .. Len(w) : OfPacket(c, d, w[m])
    <3>1. /\ \A m \in 1 .. size : m \in 1 .. Len(held)
          /\ \A m \in 1 .. Len(held) - size : size + m \in 1 .. Len(held)
      BY <2>1
    <3> QED
      BY <2>2, <2>3, <3>1, SMTT(30) DEF OfPacket
  <2>5. buf'[c][d] = w
    BY <1>2, <1>3, <2>1, <2>3 DEF Shape
  <2>6. (\A k \in DOMAIN buf[c][d] : OfPacket(c, d, buf[c][d][k]))'
    <3>1. \A k \in 1 .. Len(w) : w[k].part # 0 /\ w[k].n \in 1 .. Len(sent'[c][d])
      BY <1>2, <2>4 DEF OfPacket
    <3> QED
      BY <2>5, <3>1 DEF OfPacket
  <2>7. (\A k \in DOMAIN out[c] : out[c][k].part # 0)'
    <3>1. PICK s \in Seq(Unit) : s = old \o v
      BY JoinType
    <3>2. \A m \in 1 .. Len(s) : s[m].part # 0
      <4>1. /\ Len(s) = Len(old) + Len(v)
            /\ \A m \in 1 .. Len(old) : s[m] = old[m]
            /\ \A m \in 1 .. Len(v) : s[Len(old) + m] = v[m]
        BY <3>1, JoinType
      <4> TAKE m \in 1 .. Len(s)
      <4>2. CASE m <= Len(old)
        <5>1. m \in 1 .. Len(old)
          BY <4>2
        <5> QED
          BY <2>2, <4>1, <5>1
      <4>3. CASE m > Len(old)
        <5>1. m - Len(old) \in 1 .. Len(v) /\ Len(old) + (m - Len(old)) = m
          BY <4>1, <4>3
        <5> QED
          BY <2>4, <4>1, <5>1
      <4> QED
        BY <4>2, <4>3
    <3>3. out'[c] = old \/ out'[c] = s
      BY <1>2, <1>3, <2>1, <2>3, <3>1 DEF Shape
    <3>4. PICK x \in Seq(Unit) : x = out'[c] /\ \A m \in 1 .. Len(x) : x[m].part # 0
      BY <2>2, <3>2, <3>3, Zenon
    <3>5. DOMAIN x = 1 .. Len(x)
      OBVIOUS
    <3> QED
      BY <3>4, <3>5, Zenon
  <2>8. (\A k \in DOMAIN received[c][d] : received[c][d][k].part # 0)'
    BY <1>2, <2>2
  <2>9. Plaintext(c, d)'
    BY <1>2, <2>2, <2>6, <2>7, <2>8 DEF Plaintext
  <2> QED
    BY <1>2, <1>6, <1>7, <1>9, <2>9 DEF Streams
<1> QED
  BY <1>8, <1>9

(* What is forwarded is encrypted behind all that was encrypted before, also
   when packets between were dropped. *)
LEMMA LeaveLoopStreams ==
  ASSUME Shape, Shape', NEW c \in Conn, NEW f \in Direction, Streams(c, f), LeaveLoop(c)
  PROVE  Streams(c, f)'
<1>1. PICK d \in Direction : d = dir[c]
  BY ShapeAt DEF Direction
<1>2. /\ task[c] = "open" /\ step[c] = "packets"
      /\ out' = [out EXCEPT ![c] = Encrypt(out[c], OutBox(d), mine[c][OutBox(d)])]
      /\ mine' = [mine EXCEPT ![c][OutBox(d)] = mine[c][OutBox(d)] + Len(out[c])]
      /\ step' = [step EXCEPT ![c] = IF out[c] = <<>> THEN "select" ELSE "write"]
      /\ UNCHANGED <<task, dir, cipher_state, buf, theirs, greeted, sent, received, arriving, leaving>>
  BY <1>1 DEF LeaveLoop, Shape, endVars, wireVars
<1>3. PICK old \in Seq(Unit), rest \in Seq(Unit), M \in Nat :
        /\ old = out[c] /\ M = mine[c][OutBox(d)] /\ rest = Encrypt(old, OutBox(d), M)
  <2>1. /\ out[c] \in Seq(Unit) /\ mine[c][OutBox(d)] \in Nat /\ OutBox(d) \in Box
    BY ShapeAt, BoxFacts
  <2>2. Encrypt(out[c], OutBox(d), mine[c][OutBox(d)]) \in Seq(Unit)
    BY <2>1, EncryptType
  <2> QED
    BY <2>1, <2>2, Zenon
<1>4. /\ Len(rest) = Len(old)
      /\ \A k \in 1 .. Len(old) :
           rest[k].part = old[k].part /\ rest[k].box = OutBox(d) /\ rest[k].at = M + k
  BY <1>3, EncryptType, BoxFacts
<1>5. /\ out'[c] = rest /\ mine'[c][OutBox(d)] = M + Len(old)
      /\ step'[c] = (IF rest = <<>> THEN "select" ELSE "write")
      /\ \A b \in Box : b # OutBox(d) => mine'[c][b] = mine[c][b]
  <2>1. OutBox(d) \in Box
    BY BoxFacts
  <2>2. out'[c] = rest
    BY <1>2, <1>3 DEF Shape
  <2>3. mine'[c][OutBox(d)] = M + Len(old)
    BY <1>2, <1>3, <2>1 DEF Shape
  <2>4. \A b \in Box : b # OutBox(d) => mine'[c][b] = mine[c][b]
    BY <1>2, <2>1 DEF Shape
  <2>5. old = <<>> <=> rest = <<>>
    BY <1>4
  <2>6. step'[c] = IF old = <<>> THEN "select" ELSE "write"
    BY <1>2, <1>3 DEF Shape
  <2> QED
    BY <2>2, <2>3, <2>4, <2>5, <2>6
<1>6. Handshaken(c, f)' <=> Handshaken(c, f)
  BY <1>2, HandshakenSame
<1>7. sent[c][f] \in Seq(Kind) /\ sent'[c][f] \in Seq(Kind) /\ Len(sent[c][f]) <= Len(sent'[c][f])
  BY <1>2 DEF Shape
<1>8. ArrivingAligned(c, f)'
  <2>1. mine'[c][InBox(f)] = mine[c][InBox(f)]
    <3>1. InBox(f) \in Box /\ InBox(f) # OutBox(d)
      BY BoxFacts
    <3> QED
      BY <1>5, <3>1
  <2> QED
    BY <1>2, <1>6, <1>7, <2>1, ArrivingFrame DEF Streams
<1>9. Plaintext(c, f)'
  <2>1. step'[c] # "packets"
    BY <1>5
  <2> QED
    BY <1>2, <1>7, <2>1, PlainFrame DEF Streams
<1>10. CASE f # d
  <2>1. ~Writing(c, f) /\ ~Writing(c, f)'
    BY <1>1, <1>2, <1>10 DEF Writing
  <2>2. mine'[c][OutBox(f)] = mine[c][OutBox(f)]
    <3>1. OutBox(f) \in Box /\ OutBox(f) # OutBox(d)
      BY <1>10, BoxFacts
    <3> QED
      BY <1>5, <3>1
  <2>3. LeavingAligned(c, f)'
    BY <1>2, <1>6, <2>1, <2>2, LeavingFrame DEF Streams
  <2> QED
    BY <1>2, <1>5, <1>8, <1>9, <2>3 DEF Streams
<1>11. CASE f = d
  <2>1. PICK wire \in Seq(Unit), T \in Nat, key \in Nat, M2 \in Nat :
          /\ wire = leaving[c][d] /\ T = theirs[c][OutBox(d)] /\ M2 = M + Len(old)
          /\ key = IF HasGreeting(c, d) THEN 0 ELSE KeySize[d]
    <3>1. /\ leaving[c][d] \in Seq(Unit) /\ theirs[c][OutBox(d)] \in Nat /\ M + Len(old) \in Nat
          /\ (IF HasGreeting(c, d) THEN 0 ELSE KeySize[d]) \in Nat
      BY ShapeAt, KeySizes
    <3> QED
      BY <3>1, Zenon
  <2>2. ~Writing(c, d) /\ Handshaken(c, d) /\ \A k \in 1 .. Len(old) : old[k].part # 0
    BY <1>1, <1>2, <1>3, <1>11 DEF Writing, Handshaken, Streams, Plaintext
  <2>3. /\ Queue(wire, OutBox(d), T, key, 0) /\ M + key = T + Len(wire)
        /\ ~HasGreeting(c, d) => T = 0
    BY <1>2, <1>3, <1>11, <2>1, <2>2 DEF Streams, LeavingAligned
  <2>4. Queue(rest, OutBox(d), T, key, Len(wire))
    <3>1. \A k \in 1 .. Len(old) : M + k = T + (Len(wire) + k) - key
      <4>1. PICK w, m \in Nat : w = Len(wire) /\ m = Len(old)
        OBVIOUS
      <4>2. M + key = T + w
        BY <2>3, <4>1, Zenon
      <4>3. \A k \in 1 .. m : M + k = T + (w + k) - key
        BY <4>2
      <4> QED
        BY <4>1, <4>3, Zenon
    <3> QED
      BY <1>4, <2>2, <3>1 DEF Queue
  <2>5. HasGreeting(c, d)' <=> HasGreeting(c, d)
    BY <1>2 DEF HasGreeting
  <2>6. M2 + key = T + Len(wire) + (IF Writing(c, d)' THEN Len(rest) ELSE 0)
    <3>1. Writing(c, d)' <=> rest # <<>>
      BY <1>1, <1>2, <1>5 DEF Writing
    <3>2. rest = <<>> => Len(rest) = 0
      OBVIOUS
    <3>3. PICK w \in Nat, m \in Nat : w = Len(wire) /\ m = Len(old) /\ m = Len(rest)
      <4>1. Len(wire) \in Nat /\ Len(old) \in Nat
        OBVIOUS
      <4> QED
        BY <1>4, <4>1, Zenon
    <3>4. M + key = T + w /\ M2 = M + m
      BY <2>1, <2>3, <3>3, Zenon
    <3>5. M2 + key = T + w + m /\ (m = 0 => M2 + key = T + w + 0)
      BY <3>4
    <3>6. ~Writing(c, d)' => m = 0
      BY <3>1, <3>2, <3>3, Zenon
    <3> QED
      BY <3>3, <3>5, <3>6, Zenon
  <2>7. /\ leaving'[c][d] = wire /\ theirs'[c][OutBox(d)] = T /\ mine'[c][OutBox(d)] = M2
        /\ key = IF HasGreeting(c, d)' THEN 0 ELSE KeySize[d]
    BY <1>2, <1>5, <2>1, <2>5
  <2>8. LeavingAligned(c, d)'
    <3>1. /\ out'[c] = rest /\ Handshaken(c, d)'
          /\ ~HasGreeting(c, d)' => T = 0
      BY <1>5, <1>6, <1>11, <2>2, <2>3, <2>5, Zenon
    <3> QED
      BY <2>3, <2>4, <2>6, <2>7, <3>1, MakeLeaving, Zenon
  <2> QED
    BY <1>2, <1>5, <1>8, <1>9, <1>11, <2>8 DEF Streams
<1> QED
  BY <1>10, <1>11

(* A piece that TCP takes goes from `out` to the wire, in order. *)
LEMMA WriteStreams ==
  ASSUME Shape, Shape', NEW c \in Conn, NEW f \in Direction, Streams(c, f), Write(c)
  PROVE  Streams(c, f)'
<1>1. PICK d \in Direction, k \in 1 .. Len(out[c]) :
        /\ d = dir[c] /\ task[c] = "open" /\ step[c] = "write"
        /\ leaving' = [leaving EXCEPT ![c][d] = leaving[c][d] \o SubSeq(out[c], 1, k)]
        /\ out' = [out EXCEPT ![c] = SubSeq(out[c], k + 1, Len(out[c]))]
        /\ step' = [step EXCEPT ![c] = IF k = Len(out[c]) THEN "select" ELSE "write"]
        /\ UNCHANGED <<task, dir, cipher_state, buf, mine, arriving, endVars>>
  BY WriteEffect
<1>2. Handshaken(c, f)' <=> Handshaken(c, f)
  BY <1>1, HandshakenSame
<1>3. sent[c][f] \in Seq(Kind) /\ sent'[c][f] \in Seq(Kind) /\ Len(sent[c][f]) <= Len(sent'[c][f])
  BY <1>1 DEF Shape, endVars
<1>4. ArrivingAligned(c, f)'
  BY <1>1, <1>2, <1>3, ArrivingFrame DEF Streams, endVars
<1>5. step'[c] = IF k = Len(out[c]) THEN "select" ELSE "write"
  BY <1>1 DEF Shape
<1>6. Plaintext(c, f)'
  BY <1>1, <1>3, <1>5, PlainFrame DEF Streams, endVars
<1>7. PICK old \in Seq(Unit), v \in Seq(Unit), rest \in Seq(Unit), wire \in Seq(Unit), s \in Seq(Unit) :
        /\ old = out[c] /\ wire = leaving[c][d]
        /\ v = SubSeq(old, 1, k) /\ rest = SubSeq(old, k + 1, Len(old)) /\ s = wire \o v
  <2>1. out[c] \in Seq(Unit) /\ leaving[c][d] \in Seq(Unit) /\ k \in 0 .. Len(out[c])
    BY ShapeAt
  <2>2. SubSeq(out[c], 1, k) \in Seq(Unit) /\ SubSeq(out[c], k + 1, Len(out[c])) \in Seq(Unit)
    BY <2>1, CutType
  <2>3. leaving[c][d] \o SubSeq(out[c], 1, k) \in Seq(Unit)
    BY <2>1, <2>2, JoinType
  <2> QED
    BY <2>1, <2>2, <2>3, Zenon
<1>8. /\ k \in 0 .. Len(old) /\ Len(v) = k /\ Len(rest) = Len(old) - k /\ Len(s) = Len(wire) + k
  <2>1. k \in 0 .. Len(old)
    BY <1>7
  <2>2. Len(v) = k /\ Len(rest) = Len(old) - k
    BY <1>7, <2>1, CutType
  <2>3. Len(s) = Len(wire) + Len(v)
    BY <1>7, JoinType
  <2> QED
    BY <2>1, <2>2, <2>3
<1>9. out'[c] = rest /\ (step'[c] = "select" <=> Len(rest) = 0) /\ (step'[c] = "select" => rest = <<>>)
  <2>1. out'[c] = rest
    BY <1>1, <1>7 DEF Shape
  <2>2. k = Len(old) <=> Len(rest) = 0
    BY <1>8
  <2>3. Len(rest) = 0 => rest = <<>>
    OBVIOUS
  <2> QED
    BY <1>5, <1>7, <2>1, <2>2, <2>3
<1>10. CASE f # d
  <2>1. ~Writing(c, f) /\ ~Writing(c, f)'
    BY <1>1, <1>10 DEF Writing
  <2>2. leaving'[c][f] = leaving[c][f]
    BY <1>1, <1>10 DEF Shape
  <2>3. LeavingAligned(c, f)'
    BY <1>1, <1>2, <2>1, <2>2, LeavingFrame DEF Streams, endVars
  <2> QED
    BY <1>1, <1>4, <1>6, <1>9, <2>3 DEF Streams
<1>11. CASE f = d
  <2>1. PICK T \in Nat, M \in Nat, key \in Nat :
          /\ T = theirs[c][OutBox(d)] /\ M = mine[c][OutBox(d)]
          /\ key = IF HasGreeting(c, d) THEN 0 ELSE KeySize[d]
    <3>1. theirs[c][OutBox(d)] \in Nat /\ mine[c][OutBox(d)] \in Nat
          /\ (IF HasGreeting(c, d) THEN 0 ELSE KeySize[d]) \in Nat
      BY ShapeAt, KeySizes
    <3> QED
      BY <3>1, Zenon
  <2>2. Writing(c, d)
    BY <1>1 DEF Writing
  <2>3. /\ Handshaken(c, d) /\ M + key = T + Len(wire) + Len(old)
        /\ Queue(wire, OutBox(d), T, key, 0) /\ Queue(old, OutBox(d), T, key, Len(wire))
        /\ ~HasGreeting(c, d) => T = 0
    BY <1>1, <1>7, <1>11, <2>1, <2>2 DEF Streams, LeavingAligned
  <2>4. Queue(v, OutBox(d), T, key, Len(wire)) /\ Queue(rest, OutBox(d), T, key, Len(wire) + k)
    <3>1. Len(wire) \in Nat
      OBVIOUS
    <3> QED
      BY <1>7, <1>8, <2>3, <3>1, QueueCut
  <2>5. Queue(s, OutBox(d), T, key, 0)
    <3>1. 0 + Len(wire) = Len(wire) /\ 0 \in Nat
      OBVIOUS
    <3>2. Queue(wire \o v, OutBox(d), T, key, 0)
      BY <2>3, <2>4, <3>1, QueueJoin
    <3> QED
      BY <1>7, <3>2, Zenon
  <2>6. Queue(rest, OutBox(d), T, key, Len(s))
    BY <1>8, <2>4, Zenon
  <2>7. HasGreeting(c, d)' <=> HasGreeting(c, d)
    BY <1>1 DEF HasGreeting, endVars
  <2>8. M + key = T + Len(s) + (IF Writing(c, d)' THEN Len(rest) ELSE 0)
    <3>1. Writing(c, d)' <=> Len(rest) # 0
      BY <1>1, <1>5, <1>9 DEF Writing
    <3>2. PICK w \in Nat, m \in Nat, r \in Nat, n \in Nat :
            w = Len(wire) /\ m = Len(old) /\ r = Len(rest) /\ n = Len(s)
      <4>1. Len(wire) \in Nat /\ Len(old) \in Nat /\ Len(rest) \in Nat /\ Len(s) \in Nat
        OBVIOUS
      <4> QED
        BY <4>1, Zenon
    <3>3. M + key = T + w + m /\ r = m - k /\ n = w + k
      BY <1>8, <2>3, <3>2, Zenon
    <3>4. k \in Nat
      BY <1>8
    <3>5. M + key = T + n + r /\ (r = 0 => M + key = T + n + 0)
      BY <3>3, <3>4
    <3>6. ~Writing(c, d)' => r = 0
      BY <3>1, <3>2, Zenon
    <3> QED
      BY <3>2, <3>5, <3>6, Zenon
  <2>9. /\ leaving'[c][d] = s /\ theirs'[c][OutBox(d)] = T /\ mine'[c][OutBox(d)] = M
        /\ key = IF HasGreeting(c, d)' THEN 0 ELSE KeySize[d]
    <3>1. leaving'[c][d] = leaving[c][d] \o SubSeq(out[c], 1, k)
      <4>1. leaving \in [Conn -> [Direction -> Seq(Unit)]]
        BY DEF Shape
      <4> QED
        BY <1>1, <4>1
    <3> QED
      BY <1>1, <1>7, <2>1, <2>7, <3>1 DEF endVars
  <2>10. LeavingAligned(c, d)'
    <3>1. /\ out'[c] = rest /\ Handshaken(c, d)'
          /\ ~HasGreeting(c, d)' => T = 0
      BY <1>2, <1>9, <1>11, <2>3, <2>7, Zenon
    <3> QED
      BY <2>5, <2>6, <2>8, <2>9, <3>1, MakeLeaving, Zenon
  <2> QED
    BY <1>1, <1>4, <1>6, <1>9, <1>11, <2>10 DEF Streams
<1> QED
  BY <1>10, <1>11

-----------------------------------------------------------------------------

(* Every step of do_mitm keeps its connection's streams aligned. *)
LEMMA TaskStreams ==
  ASSUME KeysAligned, Shape', NEW c \in Conn, NEW f \in Direction, TaskStep(c)
  PROVE  Streams(c, f)'
<1>1. Shape /\ Streams(c, f)
  BY DEF KeysAligned
<1>2. CASE ReadCommand(c) \/ Connect(c)
  BY <1>1, <1>2, ConnectStreams
<1>3. ASSUME NEW d \in Direction, Read(c, d) PROVE Streams(c, f)'
  <2>1. PICK k \in 1 .. Len(arriving[c][d]) :
          Unread(c, d, k) /\ (Bail(c, d, k) \/ ReadHandshake(c, d, k) \/ ReadPackets(c, d, k))
    BY <1>3 DEF Read
  <2>2. Selecting(c) /\ UNCHANGED <<leaving, endVars>>
    BY <1>3 DEF Read
  <2>3. CASE Bail(c, d, k)
    BY <1>1, <2>2, <2>3, EndTaskStreams DEF Bail, endVars
  <2>4. CASE ReadHandshake(c, d, k)
    BY <1>1, <2>1, <2>2, <2>4, ReadHandshakeStreams
  <2>5. CASE ReadPackets(c, d, k)
    BY <1>1, <2>1, <2>2, <2>5, ReadPacketsStreams
  <2> QED
    BY <2>1, <2>3, <2>4, <2>5
<1>4. ASSUME NEW d \in Direction, ReadEnd(c, d) PROVE Streams(c, f)'
  BY <1>1, <1>4, EndTaskStreams DEF ReadEnd, endVars, wireVars
<1>5. CASE TakePacket(c)
  BY <1>5, TakePacketStreams
<1>6. CASE TakeBroken(c) \/ WriteFails(c)
  BY <1>1, <1>6, EndTaskStreams DEF TakeBroken, WriteFails, endVars, wireVars
<1>7. CASE LeaveLoop(c)
  BY <1>1, <1>7, LeaveLoopStreams
<1>8. CASE Write(c)
  BY <1>1, <1>8, WriteStreams
<1> QED
  BY <1>2, <1>3, <1>4, <1>5, <1>6, <1>7, <1>8 DEF TaskStep, Select

(* Every step of the game and of the server keeps their connection's streams
   aligned. *)
LEMMA EndStreams ==
  ASSUME KeysAligned, Shape', NEW c \in Conn, NEW d \in Direction, NEW f \in Direction, EndStep(c, d)
  PROVE  Streams(c, f)'
<1>1. Shape /\ Streams(c, f)
  BY DEF KeysAligned
<1>2. CASE CloseEnd(c, d)
  <2>1. Same(c)
    BY <1>2 DEF CloseEnd, Same, taskVars, wireVars
  <2> QED
    BY <1>1, <2>1, SameStreams
<1>3. CASE Greet(c, d)
  BY <1>1, <1>3, GreetStreams
<1>4. ASSUME NEW p \in Kind, SendPacket(c, d, p) PROVE Streams(c, f)'
  BY <1>1, <1>4, SendStreams
<1>5. CASE Receive(c, d)
  BY <1>1, <1>5, ReceiveStreams
<1> QED
  BY <1>2, <1>3, <1>4, <1>5 DEF EndStep

(* Every step keeps every pair of key streams aligned. *)
THEOREM AlignedStep == KeysAligned /\ [Next]_vars => KeysAligned'
<1> SUFFICES ASSUME KeysAligned, [Next]_vars PROVE KeysAligned'
  OBVIOUS
<1>1. Shape /\ Shape'
  BY ShapeStep DEF KeysAligned
<1>2. ASSUME NEW e \in Conn, NEW f \in Direction PROVE Streams(e, f)'
  <2>1. Streams(e, f)
    BY DEF KeysAligned
  <2>2. CASE Same(e)
    BY <1>1, <2>1, <2>2, SameStreams
  <2>3. ASSUME NEW c \in Conn, TaskStep(c) PROVE Streams(e, f)'
    <3>1. CASE c = e
      BY <1>1, <2>3, <3>1, TaskStreams
    <3>2. CASE c # e
      BY <2>2, <2>3, <3>2, OthersSame
    <3> QED
      BY <3>1, <3>2
  <2>4. ASSUME NEW c \in Conn, NEW d \in Direction, EndStep(c, d) PROVE Streams(e, f)'
    <3>1. CASE c = e
      BY <1>1, <2>4, <3>1, EndStreams
    <3>2. CASE c # e
      BY <2>2, <2>4, <3>2, OthersSame
    <3> QED
      BY <3>1, <3>2
  <2>5. CASE UNCHANGED mitmVars
    <3>1. Same(e)
      BY <2>5 DEF mitmVars, taskVars, endVars, wireVars, Same
    <3> QED
      BY <2>2, <3>1
  <2> QED
    BY <2>3, <2>4, <2>5 DEF Next, MitmNext, vars
<1> QED
  BY <1>1, <1>2 DEF KeysAligned

(* The key streams are always aligned: whatever the proxy drops, however the
   bytes are cut into reads and writes, whoever closes, and whatever the window
   does to the settings. *)
THEOREM AlignedCorrect == Spec => []KeysAligned
BY InitAligned, AlignedStep, PTL DEF Spec

(* mitm.rs:120, 132: nobody ever decrypts a byte with a step other than the one it
   was encrypted with. *)
THEOREM DecryptableCorrect == Spec => []Decryptable
<1>1. KeysAligned => Decryptable
  <2> SUFFICES ASSUME KeysAligned, NEW c \in Conn, NEW d \in Direction
               PROVE  /\ \A k \in DOMAIN received[c][d] : received[c][d][k] # Garbage
                      /\ \A k \in DOMAIN buf[c][d] : buf[c][d][k] # Garbage
    BY DEF Decryptable
  <2>1. Garbage.part = 0
    BY DEF Garbage, Clear
  <2>2. Plaintext(c, d)
    BY DEF KeysAligned, Streams
  <2> QED
    BY <2>1, <2>2 DEF Plaintext, OfPacket
<1> QED
  BY <1>1, AlignedCorrect, PTL

-----------------------------------------------------------------------------
(* The event of a packet. *)

(* on_packet tells the window of a packet, or not at all (try_send). *)
LEMMA TakePacketEvent ==
  ASSUME KeysAligned, events \in Seq(Event), NEW c \in Conn, TakePacket(c)
  PROVE  events' = events \/ \E e \in Event : events' = Append(events, e)
<1>1. PICK d \in Direction : d = dir[c]
  BY ShapeAt, Zenon DEF KeysAligned, Direction
<1>2. Shape /\ Plaintext(c, d) /\ PacketArrived(c, d)
  BY <1>1, Zenon DEF KeysAligned, Streams, TakePacket
<1>3. PICK byte \in Unit : byte = buf[c][d][1]
  <2>1. buf[c][d] \in Seq(Unit) /\ buf[c][d] # <<>>
    BY <1>2, ShapeAt DEF PacketArrived
  <2>2. buf[c][d][1] \in Unit
    BY <2>1
  <2> QED
    BY <2>2
<1>4. PICK p \in Kind : p = PacketOf(c, d, byte)
  BY <1>2, <1>3, BufferedPacket
<1>5. PICK stopped \in BOOLEAN : stopped = (drop_packets[c] \/ p.type \in STOP)
  BY Zenon
<1>6. Dropped(p, stopped) \in BOOLEAN
  BY DEF Dropped
<1> DEFINE e == [conn |-> c, dir |-> d, n |-> byte.n, id |-> p.shown, dropped |-> Dropped(p, stopped)]
<1>7. events' = events \/ events' = Append(events, e)
  <2>1. TrySend(e)
    BY <1>1, <1>3, <1>4, <1>5, Zenon DEF TakePacket
  <2> QED
    BY <2>1 DEF TrySend
<1>8. e \in Event
  <2>1. p.shown \in Id
    BY MitmAssumption
  <2>2. byte.n \in Nat
    BY DEF Unit
  <2> QED
    BY <1>6, <2>1, <2>2 DEF Event
<1> HIDE DEF e
<1> QED
  BY <1>7, <1>8

-----------------------------------------------------------------------------
(* Types of what the connections share with the window. *)
GuiType ==
  /\ settings \in Settings /\ draft \in Settings
  /\ locked \in BOOLEAN /\ missed \in BOOLEAN
  /\ window \in {"open", "writing", "renaming", "closed", "down"}
  /\ locked => window \in {"writing", "renaming"}

(* A connection leaves the settings to the window, and at most notes that an
   event was missed (try_send). *)
LEMMA MitmLeavesGui ==
  ASSUME MitmNext, missed \in BOOLEAN
  PROVE  UNCHANGED <<settings, locked>> /\ missed' \in BOOLEAN
BY Zenon DEF MitmNext, TaskStep, Select, EndStep, TakePacket, TakeBroken, LeaveLoop, Write, WriteFails,
       TrySend, guiVars

(* Whatever the window does, the settings and their copy are settings. *)
LEMMA GuiStep ==
  ASSUME GuiType, [Next]_vars
  PROVE  GuiType'
<1>1. CASE MitmNext /\ UNCHANGED windowVars
  BY <1>1, MitmLeavesGui DEF GuiType, windowVars, fileVars
<1>2. CASE ClickAdd \/ ClickRemove \/ ClickAddGroup \/ ClickEnable \/ ClickPause
  <2>1. /\ Orderly(settings, settings') /\ window = "open"
        /\ UNCHANGED <<window, packets, fileVars, missed, events, locked>>
    BY <1>2, EditsOrderly DEF GuiType
  <2> QED
    BY <2>1 DEF GuiType, Orderly, fileVars
<1>3. CASE ClickClear \/ TakeEvent \/ UNCHANGED vars
  <2>1. UNCHANGED <<settings, draft, locked, window>>
    BY <1>3 DEF ClickClear, TakeEvent, vars, guiVars, windowVars, fileVars
  <2>2. missed' \in BOOLEAN
    BY <1>3, Zenon DEF GuiType, ClickClear, TakeEvent, vars, guiVars
  <2> QED
    BY <2>1, <2>2 DEF GuiType
<1>4. CASE ClickSave
  <2>1. NormalizeAll(settings) \in Settings
    BY AllNormalized DEF GuiType
  <2> QED
    BY <1>4, <2>1 DEF GuiType, ClickSave, Click, guiVars
<1>5. CASE CloseWindow
  BY <1>5 DEF GuiType, CloseWindow, Click
<1>6. CASE SaveStep
  BY <1>6 DEF GuiType, SaveStep, WriteTmp, Rename, EndSave
<1> QED
  BY <1>1, <1>2, <1>3, <1>4, <1>5, <1>6 DEF Next, WindowNext

-----------------------------------------------------------------------------
(* Types and limits of the list and the channel. *)
ChannelType ==
  /\ events \in Seq(Event) /\ Len(events) <= EVENT_CAPACITY
  /\ packets \in Seq(Event) /\ Len(packets) <= CLEAR_THRESHOLD

(* An event goes from the channel to the list, which may lose its oldest
   (packet_list), or to nowhere. *)
LEMMA TakeEventType ==
  ASSUME ChannelType, TakeEvent
  PROVE  ChannelType'
<1>1. PICK list \in Seq(Event), queue \in Seq(Event) : list = packets /\ queue = events
  BY DEF ChannelType
<1>2. PICK longer : longer = Append(list, Head(queue))
  OBVIOUS
<1>3. PICK rest : rest = Tail(queue)
  OBVIOUS
<1>4. /\ queue # <<>> /\ events' = rest
      /\ packets' = IF settings.paused THEN list ELSE Trimmed(longer)
  BY <1>1, <1>2, <1>3 DEF TakeEvent
<1>5. /\ rest \in Seq(Event) /\ Head(queue) \in Event
      /\ Len(queue) \in Nat /\ Len(queue) > 0 /\ Len(rest) = Len(queue) - 1
  BY <1>3, <1>4, Behind
<1>6. longer \in Seq(Event) /\ Len(longer) = Len(list) + 1
  BY <1>2, <1>5, Appended
<1>7. Trimmed(longer) \in Seq(Event) /\ Len(Trimmed(longer)) <= CLEAR_THRESHOLD
  <2>1. CLEAR_COUNT \in Nat /\ CLEAR_COUNT > 0 /\ CLEAR_THRESHOLD \in Nat
    BY WindowAssumption
  <2>2. CASE Len(longer) > CLEAR_THRESHOLD
    <3>1. PICK short : short = SubSeq(longer, CLEAR_COUNT + 1, Len(longer))
      OBVIOUS
    <3>2. /\ short \in Seq(Event)
          /\ Len(short) = IF CLEAR_COUNT <= Len(longer) THEN Len(longer) - CLEAR_COUNT ELSE 0
      BY <1>6, <2>1, <3>1, Shortened
    <3>3. Trimmed(longer) = short
      BY <2>2, <3>1 DEF Trimmed
    <3>4. Len(longer) <= CLEAR_THRESHOLD + 1 /\ Len(longer) \in Nat
      BY <1>1, <1>6, <2>1 DEF ChannelType
    <3> QED
      BY <2>1, <3>2, <3>3, <3>4
  <2>3. CASE ~(Len(longer) > CLEAR_THRESHOLD)
    BY <1>6, <2>1, <2>3 DEF Trimmed
  <2> QED
    BY <2>2, <2>3
<1>8. Len(rest) <= EVENT_CAPACITY
  BY <1>1, <1>5, GuiStateAssumption DEF ChannelType
<1> QED
  BY <1>1, <1>4, <1>5, <1>7, <1>8 DEF ChannelType

(* A packet's event is appended while the channel has room, or not at all
   (try_send). *)
LEMMA TellType ==
  ASSUME KeysAligned, ChannelType, NEW c \in Conn, TakePacket(c), packets' = packets
  PROVE  ChannelType'
<1>1. events \in Seq(Event)
  BY DEF ChannelType
<1>2. CASE events' = events
  BY <1>2 DEF ChannelType
<1>3. CASE events' # events
  <2>1. PICK e \in Event : events' = Append(events, e)
    BY <1>1, <1>3, TakePacketEvent, Zenon
  <2>2. Len(events) < EVENT_CAPACITY
    BY <1>3, Zenon DEF TakePacket, TrySend
  <2>3. events' \in Seq(Event) /\ Len(events') = Len(events) + 1 /\ Len(events) \in Nat
    BY <1>1, <2>1
  <2> QED
    BY <2>2, <2>3, GuiStateAssumption DEF ChannelType
<1> QED
  BY <1>2, <1>3

LEMMA ChannelStep ==
  ASSUME KeysAligned, ChannelType, [Next]_vars
  PROVE  ChannelType'
<1>1. ASSUME NEW c \in Conn, TakePacket(c), UNCHANGED windowVars PROVE ChannelType'
  BY <1>1, TellType DEF windowVars
<1>2. CASE MitmNext /\ UNCHANGED windowVars /\ \A c \in Conn : ~TakePacket(c)
  <2>1. UNCHANGED <<events, packets>>
    BY <1>2 DEF MitmNext, TaskStep, Select, EndStep, TakeBroken, LeaveLoop, Write, WriteFails,
                guiVars, windowVars
  <2> QED
    BY <2>1, Zenon DEF ChannelType
<1>3. CASE TakeEvent
  BY <1>3, TakeEventType
<1>4. CASE ClickClear
  BY <1>4, WindowAssumption DEF ChannelType, ClickClear
<1>5. CASE \/ ClickAdd \/ ClickRemove \/ ClickAddGroup \/ ClickEnable \/ ClickPause
           \/ ClickSave \/ CloseWindow \/ SaveStep \/ UNCHANGED vars
  <2>1. UNCHANGED <<events, packets>>
    BY <1>5 DEF ClickAdd, ClickRemove, ClickAddGroup, ClickEnable, ClickPause, ClickSave, CloseWindow,
                SaveStep, WriteTmp, Rename, Edit, vars, guiVars, windowVars
  <2> QED
    BY <2>1 DEF ChannelType
<1> QED
  BY <1>1, <1>2, <1>3, <1>4, <1>5 DEF Next, WindowNext, MitmNext, TaskStep

-----------------------------------------------------------------------------
(* TCP takes no more than it has room for, and a task that writes has
   something to write. *)
Bounded(c) ==
  /\ \A d \in Direction : Len(leaving[c][d]) <= Room
  /\ step[c] = "write" => out[c] # <<>>

Bounds == \A c \in Conn : Bounded(c)

(* write_all takes what there is room for, and ends when nothing is left. *)
LEMMA WriteBounded ==
  ASSUME Shape, NEW c \in Conn, Bounded(c), Write(c)
  PROVE  Bounded(c)'
<1>1. PICK d \in Direction : d = dir[c]
  BY ShapeAt DEF Direction
<1>2. PICK o \in Seq(Unit), l \in Seq(Unit) : o = out[c] /\ l = leaving[c][d]
  BY ShapeAt
<1>3. PICK free \in Int : free = Room - Len(l)
  <2>1. Room - Len(l) \in Int
    BY <1>2, MitmAssumption
  <2> QED
    BY <2>1
<1>4. PICK k : k = IF Len(o) <= free THEN Len(o) ELSE free
  OBVIOUS
<1>5. /\ k > 0
      /\ leaving' = [leaving EXCEPT ![c][d] = l \o SubSeq(o, 1, k)]
      /\ out' = [out EXCEPT ![c] = SubSeq(o, k + 1, Len(o))]
      /\ step' = [step EXCEPT ![c] = IF k = Len(o) THEN "select" ELSE "write"]
  BY <1>1, <1>2, <1>3, <1>4 DEF Write, Shape
<1>6. k \in 1 .. Len(o) /\ k \in 0 .. Len(o) /\ k <= free
  BY <1>2, <1>3, <1>4, <1>5
<1>7. PICK part \in Seq(Unit) : part = SubSeq(o, 1, k) /\ Len(part) = k
  <2>1. SubSeq(o, 1, k) \in Seq(Unit) /\ Len(SubSeq(o, 1, k)) = k
    BY <1>2, <1>6, CutType
  <2> QED
    BY <2>1
<1>8. PICK rest \in Seq(Unit) : rest = SubSeq(o, k + 1, Len(o)) /\ Len(rest) = Len(o) - k
  <2>1. /\ SubSeq(o, k + 1, Len(o)) \in Seq(Unit)
        /\ Len(SubSeq(o, k + 1, Len(o))) = Len(o) - k
    BY <1>2, <1>6, CutType
  <2> QED
    BY <2>1
<1>9. PICK more \in Seq(Unit) : more = l \o part /\ Len(more) = Len(l) + k
  <2>1. l \o part \in Seq(Unit) /\ Len(l \o part) = Len(l) + Len(part)
    BY <1>2, <1>7, JoinType
  <2> QED
    BY <1>7, <2>1
<1>10. Len(more) <= Room
  BY <1>2, <1>3, <1>6, <1>9, MitmAssumption
<1>11. \A f \in Direction : leaving'[c][f] = IF f = d THEN more ELSE leaving[c][f]
  BY <1>5, <1>7, <1>9 DEF Shape
<1>12. out'[c] = rest /\ step'[c] = IF k = Len(o) THEN "select" ELSE "write"
  BY <1>5, <1>8 DEF Shape
<1>13. step'[c] = "write" => out'[c] # <<>>
  <2>1. Len(rest) = 0 => k = Len(o)
    BY <1>2, <1>6, <1>8
  <2>2. rest = <<>> => Len(rest) = 0
    OBVIOUS
  <2> QED
    BY <1>12, <2>1, <2>2
<1> QED
  BY <1>10, <1>11, <1>13 DEF Bounded

(* A receiver makes room. *)
LEMMA ReceiveBounded ==
  ASSUME Shape, NEW c \in Conn, Bounded(c), NEW d \in Direction, Receive(c, d)
  PROVE  Bounded(c)'
<1>1. PICK l \in Seq(Unit) : l = leaving[c][d]
  BY ShapeAt
<1>2. PICK less \in Seq(Unit) : leaving' = [leaving EXCEPT ![c][d] = less] /\ Len(less) <= Len(l)
  <2>1. CASE ~HasGreeting(c, d)
    <3>1. /\ KeySize[d] \in 0 .. Len(l)
          /\ leaving' = [leaving EXCEPT ![c][d] = SubSeq(l, KeySize[d] + 1, Len(l))]
      BY <1>1, <2>1, ReceiveCases
    <3>2. /\ SubSeq(l, KeySize[d] + 1, Len(l)) \in Seq(Unit)
          /\ Len(SubSeq(l, KeySize[d] + 1, Len(l))) = Len(l) - KeySize[d]
      BY <1>1, <3>1, CutType
    <3>3. Len(l) - KeySize[d] <= Len(l)
      BY <1>1, KeySizes
    <3> QED
      BY <3>1, <3>2, <3>3
  <2>2. CASE HasGreeting(c, d)
    <3>1. leaving' = [leaving EXCEPT ![c][d] = <<>>]
      BY <2>2, ReceiveCases
    <3>2. <<>> \in Seq(Unit) /\ Len(<<>>) <= Len(l)
      BY <1>1
    <3> QED
      BY <3>1, <3>2
  <2> QED
    BY <2>1, <2>2
<1>3. step' = step /\ out' = out
  BY ReceiveCases DEF taskVars
<1>4. \A f \in Direction : leaving'[c][f] = IF f = d THEN less ELSE leaving[c][f]
  BY <1>2 DEF Shape
<1>5. Len(less) <= Room
  BY <1>1, <1>2, MitmAssumption DEF Bounded
<1> QED
  BY <1>3, <1>4, <1>5 DEF Bounded

(* A task that reads, cuts packets out or ends writes nothing. *)
LEMMA TaskBounded ==
  ASSUME Shape, NEW c \in Conn, Bounded(c), TaskStep(c)
  PROVE  Bounded(c)'
<1>1. CASE Write(c)
  BY <1>1, WriteBounded
<1>2. ASSUME UNCHANGED leaving, step'[c] # "write" \/ (step'[c] = step[c] /\ out'[c] = out[c])
      PROVE  Bounded(c)'
  BY <1>2 DEF Bounded
<1>3. CASE ReadCommand(c) \/ Connect(c)
  BY <1>2, <1>3 DEF ReadCommand, Connect, wireVars
<1>4. ASSUME NEW d \in Direction, Read(c, d) PROVE Bounded(c)'
  <2>1. leaving' = leaving
    BY <1>4 DEF Read
  <2>2. PICK k \in 1 .. Len(arriving[c][d]) : Bail(c, d, k) \/ ReadHandshake(c, d, k) \/ ReadPackets(c, d, k)
    BY <1>4 DEF Read
  <2>3. CASE Bail(c, d, k)
    BY <1>2, <2>1, <2>3 DEF Bail, EndTask, Shape
  <2>4. CASE ReadPackets(c, d, k)
    BY <1>2, <2>1, <2>4 DEF ReadPackets, Shape
  <2>5. CASE ReadHandshake(c, d, k)
    <3>1. out'[c] = Parts(0, KeySize[d])
      BY <2>5 DEF ReadHandshake, Shape
    <3>2. PICK o \in Seq(Unit) : o = Parts(0, KeySize[d]) /\ Len(o) > 0
      BY PartsType, KeySizes, Zenon
    <3> QED
      BY <2>1, <3>1, <3>2 DEF Bounded
  <2> QED
    BY <2>2, <2>3, <2>4, <2>5
<1>5. ASSUME NEW d \in Direction, ReadEnd(c, d) PROVE Bounded(c)'
  BY <1>2, <1>5 DEF ReadEnd, EndTask, Shape, wireVars
<1>6. CASE TakePacket(c)
  BY <1>2, <1>6, Zenon DEF TakePacket, wireVars
<1>7. CASE TakeBroken(c) \/ WriteFails(c)
  BY <1>2, <1>7 DEF TakeBroken, WriteFails, EndTask, Shape, wireVars
<1>8. CASE LeaveLoop(c)
  <2>1. PICK d \in Direction : d = dir[c]
    BY ShapeAt DEF Direction
  <2>2. /\ out'[c] = Encrypt(out[c], OutBox(d), mine[c][OutBox(d)])
        /\ step'[c] = IF out[c] = <<>> THEN "select" ELSE "write"
        /\ leaving' = leaving
    BY <1>8, <2>1 DEF LeaveLoop, Shape, wireVars
  <2>3. PICK o \in Seq(Unit) : o = out[c]
    BY ShapeAt
  <2>4. PICK data \in Seq(Unit) : data = Encrypt(o, OutBox(d), mine[c][OutBox(d)]) /\ Len(data) = Len(o)
    <3>1. mine[c][OutBox(d)] \in Nat /\ OutBox(d) \in Box
      BY ShapeAt, BoxFacts
    <3> QED
      BY <3>1, EncryptType
  <2>5. o # <<>> => data # <<>>
    BY <2>4
  <2> QED
    BY <2>2, <2>3, <2>4, <2>5 DEF Bounded
<1> QED
  BY <1>1, <1>3, <1>4, <1>5, <1>6, <1>7, <1>8 DEF TaskStep, Select

LEMMA EndBounded ==
  ASSUME Shape, NEW c \in Conn, Bounded(c), NEW d \in Direction, EndStep(c, d)
  PROVE  Bounded(c)'
<1>1. CASE Receive(c, d)
  BY <1>1, ReceiveBounded
<1>2. CASE Greet(c, d) \/ CloseEnd(c, d) \/ \E p \in Kind : SendPacket(c, d, p)
  <2>1. UNCHANGED <<leaving, step, out>>
    BY <1>2 DEF Greet, CloseEnd, SendPacket, taskVars, wireVars
  <2> QED
    BY <2>1 DEF Bounded
<1> QED
  BY <1>1, <1>2 DEF EndStep

LEMMA BoundsStep ==
  ASSUME KeysAligned, Bounds, [Next]_vars
  PROVE  Bounds'
<1>1. ASSUME NEW c \in Conn, NEW x \in Conn, x # c,
             TaskStep(c) \/ \E d \in Direction : EndStep(c, d)
      PROVE  Bounded(x)'
  BY <1>1, OthersSame DEF Bounds, Bounded, Same, KeysAligned
<1>2. ASSUME NEW c \in Conn, TaskStep(c) \/ \E d \in Direction : EndStep(c, d)
      PROVE  Bounded(c)'
  BY <1>2, TaskBounded, EndBounded DEF Bounds, KeysAligned
<1>3. CASE MitmNext
  BY <1>1, <1>2, <1>3 DEF MitmNext, Bounds
<1>4. CASE UNCHANGED mitmVars
  BY <1>4 DEF mitmVars, taskVars, wireVars, Bounds, Bounded
<1> QED
  BY <1>3, <1>4 DEF Next, vars

-----------------------------------------------------------------------------
(* TypeOK, for every channel capacity, list length and room of TCP: whatever
   the window edits and saves while connections come, panic and go, settings
   stay settings, the list and the channel keep to their limits, and a task
   holds bytes to write exactly when it writes or collects them. *)
THEOREM TypeCorrect == Spec => []TypeOK
<1> DEFINE I == KeysAligned /\ GuiType /\ ChannelType /\ Bounds
<1>1. Init => I
  <2> SUFFICES ASSUME Init PROVE I
    OBVIOUS
  <2>1. KeysAligned
    BY InitAligned
  <2>2. GuiType /\ ChannelType
    <3>1. <<>> \in Seq(Event) /\ Len(<<>>) = 0
      OBVIOUS
    <3>2. EVENT_CAPACITY \in Nat /\ CLEAR_THRESHOLD \in Nat /\ DefaultSettings \in Settings
      BY GuiStateAssumption, WindowAssumption
    <3>3. /\ settings = DefaultSettings /\ locked = FALSE /\ events = <<>> /\ missed = FALSE
          /\ window = "open" /\ packets = <<>> /\ draft = DefaultSettings
      BY DEF Init, GuiInit, WindowInit
    <3>4. ChannelType
      BY <3>1, <3>2, <3>3 DEF ChannelType
    <3> QED
      BY <3>2, <3>3, <3>4 DEF GuiType
  <2>3. Bounds
    BY MitmAssumption DEF Init, MitmInit, Bounds, Bounded
  <2> QED
    BY <2>1, <2>2, <2>3
<1>2. I /\ [Next]_vars => I'
  BY AlignedStep, GuiStep, ChannelStep, BoundsStep
<1>3. I => TypeOK
  <2> SUFFICES ASSUME I PROVE TypeOK
    OBVIOUS
  <2>1. ASSUME NEW c \in Conn, NEW d \in Direction
        PROVE  /\ task[c] \in {"accepted", "connecting", "open", "returned", "panicked"}
               /\ step[c] \in {"select", "packets", "write"}
               /\ cipher_state[c] \in {"Uninit", "ClientHandshakeReceived", "EncryptedChannel"}
               /\ step[c] = "select" <=> out[c] = <<>> /\ step[c] # "packets"
               /\ sent[c][d] \in Seq(Kind) /\ Len(leaving[c][d]) <= Room
    BY ShapeAt DEF KeysAligned, Streams, Bounds, Bounded
  <2>2. "up" \in Direction
    BY DEF Direction
  <2> QED
    BY <2>1, <2>2 DEF TypeOK, GuiType, ChannelType
<1> QED
  BY <1>1, <1>2, <1>3, PTL DEF Spec

-----------------------------------------------------------------------------
(* Marks of bytes in a row.  N packets were sent, w has their sizes, and at 0
   the handshake's. *)
Mark == [n : Nat, part : Nat]

(* A byte of one of the packets from the m-th on. *)
Known(a, m, N, w) == a.n \in m .. N /\ a.part \in 1 .. w[a.n]

(* The next byte of a packet, or the first of a later one; of the next one. *)
Later(a, b, w) ==
  IF a.part < w[a.n]
    THEN b.n = a.n /\ b.part = a.part + 1
    ELSE b.n > a.n /\ b.part = 1

Onward(a, b, w) ==
  IF a.part < w[a.n]
    THEN b.n = a.n /\ b.part = a.part + 1
    ELSE b.n = a.n + 1 /\ b.part = 1

(* Packets that were let through: the handshake, then packets in order, some
   left out, each from its first byte to its last, but for the last one. *)
Chained(p, N, w) ==
  /\ \A k \in 1 .. Len(p) : Known(p[k], 0, N, w)
  /\ Len(p) >= 1 => p[1].n = 0 /\ p[1].part = 1
  /\ \A k \in 1 .. Len(p) - 1 : Later(p[k], p[k + 1], w)

Ended(p, w) == Len(p) >= 1 => p[Len(p)].part = w[p[Len(p)].n]

(* Packets that wait to be cut out: every one up to the last that was sent. *)
Queued(q, N, w) ==
  /\ \A k \in 1 .. Len(q) : Known(q[k], 1, N, w)
  /\ Len(q) >= 1 => q[1].part = 1 /\ q[Len(q)].n = N /\ q[Len(q)].part = w[N]
  /\ \A k \in 1 .. Len(q) - 1 : Onward(q[k], q[k + 1], w)

(* The packet that is cut out next. *)
NextOf(q, N) == IF Len(q) >= 1 THEN q[1].n ELSE N + 1

(* The bytes of packet n, and no others. *)
Single(s, n, size) ==
  Len(s) = size /\ \A k \in 1 .. size : s[k].n = n /\ s[k].part = k

(* Marks, one behind the other. *)
Cat(a, b) == a \o b

LEMMA CatType ==
  ASSUME NEW a \in Seq(Mark), NEW b \in Seq(Mark)
  PROVE  /\ Cat(a, b) \in Seq(Mark)
         /\ Len(Cat(a, b)) = Len(a) + Len(b)
         /\ \A k \in 1 .. Len(a) : Cat(a, b)[k] = a[k]
         /\ \A k \in 1 .. Len(b) : Cat(a, b)[Len(a) + k] = b[k]
BY DEF Cat

LEMMA CatElements ==
  ASSUME NEW a \in Seq(Mark), NEW b \in Seq(Mark)
  PROVE  \A k \in 1 .. Len(a) + Len(b) :
           \/ k \in 1 .. Len(a) /\ Cat(a, b)[k] = a[k]
           \/ \E j \in 1 .. Len(b) : k = Len(a) + j /\ Cat(a, b)[k] = b[j]
<1> SUFFICES ASSUME NEW k \in 1 .. Len(a) + Len(b), k \notin 1 .. Len(a)
             PROVE  \E j \in 1 .. Len(b) : k = Len(a) + j /\ Cat(a, b)[k] = b[j]
  BY CatType
<1>1. Len(a) \in Nat /\ Len(b) \in Nat
  OBVIOUS
<1>2. k - Len(a) \in 1 .. Len(b) /\ k = Len(a) + (k - Len(a))
  BY <1>1
<1>3. PICK j \in 1 .. Len(b) : k = Len(a) + j
  BY <1>2
<1> QED
  BY <1>3, CatType

(* Every two neighbours of both, and the two where they meet. *)
LEMMA CatNeighbours ==
  ASSUME NEW a \in Seq(Mark), NEW b \in Seq(Mark), NEW S,
         \A k \in 1 .. Len(a) - 1 : <<a[k], a[k + 1]>> \in S,
         \A k \in 1 .. Len(b) - 1 : <<b[k], b[k + 1]>> \in S,
         Len(a) >= 1 /\ Len(b) >= 1 => <<a[Len(a)], b[1]>> \in S
  PROVE  \A k \in 1 .. Len(a) + Len(b) - 1 : <<Cat(a, b)[k], Cat(a, b)[k + 1]>> \in S
<1> TAKE k \in 1 .. Len(a) + Len(b) - 1
<1> PICK u : u = Cat(a, b)
  OBVIOUS
<1>1. /\ \A i \in 1 .. Len(a) : u[i] = a[i]
      /\ \A i \in 1 .. Len(b) : u[Len(a) + i] = b[i]
  BY CatType
<1>2. PICK x \in Nat, y \in Nat : x = Len(a) /\ y = Len(b)
  OBVIOUS
<1>3. CASE k \in 1 .. x - 1
  <2>1. k \in 1 .. x /\ k + 1 \in 1 .. x
    BY <1>3
  <2>2. u[k] = a[k] /\ u[k + 1] = a[k + 1]
    BY <1>1, <1>2, <2>1
  <2> QED
    BY <1>2, <1>3, <2>2
<1>4. CASE k = x
  <2>1. x >= 1 /\ y >= 1 /\ x \in 1 .. x /\ 1 \in 1 .. y
    BY <1>2, <1>4
  <2>2. u[x] = a[x] /\ u[x + 1] = b[1]
    BY <1>1, <1>2, <2>1
  <2> QED
    BY <1>2, <1>4, <2>1, <2>2
<1>5. CASE k > x
  <2>1. PICK j \in 1 .. y - 1 : k = x + j
    <3>1. k - x \in 1 .. y - 1 /\ k = x + (k - x)
      BY <1>2, <1>5
    <3> QED
      BY <3>1
  <2>2. j \in 1 .. y /\ j + 1 \in 1 .. y /\ k + 1 = x + (j + 1)
    BY <2>1
  <2>3. u[k] = b[j] /\ u[k + 1] = b[j + 1]
    BY <1>1, <1>2, <2>1, <2>2
  <2> QED
    BY <1>2, <2>1, <2>3
<1> QED
  BY <1>2, <1>3, <1>4, <1>5

(* The bytes of a packet follow each other. *)
LEMMA SingleFollows ==
  ASSUME NEW s, NEW n \in Nat, NEW w, w[n] \in Nat, Single(s, n, w[n])
  PROVE  \A k \in 1 .. Len(s) - 1 : Later(s[k], s[k + 1], w) /\ Onward(s[k], s[k + 1], w)
<1> TAKE k \in 1 .. Len(s) - 1
<1>1. k \in 1 .. w[n] /\ k + 1 \in 1 .. w[n] /\ k < w[n]
  BY DEF Single
<1>2. s[k].n = n /\ s[k].part = k /\ s[k + 1].n = n /\ s[k + 1].part = k + 1
  BY <1>1 DEF Single
<1> QED
  BY <1>1, <1>2 DEF Later, Onward

(* A packet later than all others, behind them. *)
LEMMA ChainedMore ==
  ASSUME NEW N \in Nat, NEW w \in [0 .. N -> Nat], NEW p \in Seq(Mark), NEW s \in Seq(Mark),
         NEW n \in 0 .. N, w[n] >= 1, Single(s, n, w[n]),
         Chained(p, N, w), Ended(p, w),
         Len(p) = 0 => n = 0, \A k \in 1 .. Len(p) : p[k].n < n
  PROVE  Chained(Cat(p, s), N, w) /\ Ended(Cat(p, s), w) /\ Len(Cat(p, s)) >= 1
<1> DEFINE u == Cat(p, s)
<1>1. /\ u \in Seq(Mark) /\ Len(u) = Len(p) + Len(s)
      /\ \A k \in 1 .. Len(p) : u[k] = p[k]
      /\ \A k \in 1 .. Len(s) : u[Len(p) + k] = s[k]
  BY CatType
<1>2. \A k \in 1 .. Len(p) + Len(s) :
        \/ k \in 1 .. Len(p) /\ u[k] = p[k]
        \/ \E j \in 1 .. Len(s) : k = Len(p) + j /\ u[k] = s[j]
  BY CatElements
<1>3. \A j \in 1 .. Len(s) : Known(s[j], 0, N, w)
  BY DEF Single, Known
<1>4. \A k \in 1 .. Len(u) : Known(u[k], 0, N, w)
  BY <1>1, <1>2, <1>3 DEF Chained
<1>5. Len(s) \in Nat /\ Len(s) >= 1 /\ Len(p) \in Nat /\ w[n] \in Nat
  BY DEF Single
<1>6. s[1].n = n /\ s[1].part = 1 /\ s[Len(s)].n = n /\ s[Len(s)].part = w[n]
  BY <1>5 DEF Single
<1>7. u[1].n = 0 /\ u[1].part = 1
  <2>1. CASE Len(p) >= 1
    <3>1. u[1] = p[1]
      BY <1>1, <1>5, <2>1
    <3> QED
      BY <2>1, <3>1 DEF Chained
  <2>2. CASE Len(p) = 0
    <3>1. u[1] = s[1]
      BY <1>1, <1>5, <2>2
    <3> QED
      BY <1>6, <2>2, <3>1
  <2> QED
    BY <1>5, <2>1, <2>2
<1>8. \A k \in 1 .. Len(u) - 1 : Later(u[k], u[k + 1], w)
  <2> DEFINE S == {x \in Mark \X Mark : Later(x[1], x[2], w)}
  <2>1. ASSUME NEW a \in Mark, NEW b \in Mark, Later(a, b, w) PROVE <<a, b>> \in S
    BY <2>1
  <2>2. \A k \in 1 .. Len(p) : p[k] \in Mark
    OBVIOUS
  <2>3. \A k \in 1 .. Len(s) : s[k] \in Mark
    OBVIOUS
  <2>4. ASSUME NEW k \in 1 .. Len(p) - 1 PROVE <<p[k], p[k + 1]>> \in S
    BY <2>1, <2>2, <1>5 DEF Chained
  <2>0. \A k \in 1 .. Len(s) - 1 : Later(s[k], s[k + 1], w)
    <3>1. n \in Nat
      OBVIOUS
    <3> QED
      BY <1>5, <3>1, SingleFollows
  <2>5. ASSUME NEW k \in 1 .. Len(s) - 1 PROVE <<s[k], s[k + 1]>> \in S
    BY <2>0, <2>1, <2>3, <1>5
  <2>6. Len(p) >= 1 /\ Len(s) >= 1 => <<p[Len(p)], s[1]>> \in S
    <3> SUFFICES ASSUME Len(p) >= 1 PROVE <<p[Len(p)], s[1]>> \in S
      OBVIOUS
    <3>1. PICK a \in Mark, b \in Mark : a = p[Len(p)] /\ b = s[1]
      BY <1>5, <2>2, <2>3
    <3>2. a.part = w[a.n] /\ a.n < n /\ b.n = n /\ b.part = 1
      BY <1>5, <1>6, <3>1 DEF Ended
    <3>3. w[a.n] \in Nat
      BY <1>5, <3>1, <3>2 DEF Mark
    <3>4. Later(a, b, w)
      BY <3>2, <3>3 DEF Later, Mark
    <3> QED
      BY <2>1, <3>1, <3>4
  <2> HIDE DEF S
  <2>7. \A k \in 1 .. Len(p) + Len(s) - 1 : <<u[k], u[k + 1]>> \in S
    BY <2>4, <2>5, <2>6, CatNeighbours
  <2>8. \A a, b : <<a, b>> \in S => Later(a, b, w)
    BY DEF S
  <2> TAKE k \in 1 .. Len(u) - 1
  <2>9. k \in 1 .. Len(p) + Len(s) - 1
    BY <1>1
  <2>10. <<u[k], u[k + 1]>> \in S
    BY <2>7, <2>9
  <2> QED
    BY <2>8, <2>10
<1>9. u[Len(u)].part = w[u[Len(u)].n]
  <2>1. u[Len(u)] = s[Len(s)]
    BY <1>1, <1>5
  <2> QED
    BY <1>6, <2>1
<1> HIDE DEF u
<1>10. Chained(u, N, w) /\ Ended(u, w) /\ Len(u) >= 1
  BY <1>1, <1>4, <1>5, <1>7, <1>8, <1>9 DEF Chained, Ended
<1> QED
  BY <1>10 DEF u

(* A beginning of packets in order. *)
LEMMA ChainedLess ==
  ASSUME NEW N \in Nat, NEW w, NEW p \in Seq(Mark), NEW s \in Seq(Mark), Chained(Cat(p, s), N, w)
  PROVE  Chained(p, N, w)
<1> PICK u : u = Cat(p, s)
  OBVIOUS
<1>1. /\ u \in Seq(Mark) /\ Len(u) = Len(p) + Len(s)
      /\ \A k \in 1 .. Len(p) : u[k] = p[k]
  BY CatType
<1>2. Len(p) \in Nat /\ Len(s) \in Nat
  OBVIOUS
<1>3. \A k \in 1 .. Len(p) : k \in 1 .. Len(u)
  BY <1>1, <1>2
<1>4. \A k \in 1 .. Len(p) - 1 : k \in 1 .. Len(u) - 1 /\ k \in 1 .. Len(p) /\ k + 1 \in 1 .. Len(p)
  BY <1>1, <1>2
<1>5. Len(p) >= 1 => 1 \in 1 .. Len(p) /\ Len(u) >= 1
  BY <1>1, <1>2
<1> QED
  BY <1>1, <1>3, <1>4, <1>5 DEF Chained

(* What was in order stays so when more is sent. *)
LEMMA ChainedSent ==
  ASSUME NEW N \in Nat, NEW w, NEW M \in Nat, N <= M, NEW v,
         \A n \in 0 .. N : v[n] = w[n],
         NEW p \in Seq(Mark), Chained(p, N, w)
  PROVE  Chained(p, M, v) /\ (Ended(p, w) => Ended(p, v))
<1>1. \A k \in 1 .. Len(p) : p[k].n \in 0 .. N /\ p[k].n \in 0 .. M /\ v[p[k].n] = w[p[k].n]
  BY DEF Chained, Known
<1>2. Len(p) \in Nat /\ \A k \in 1 .. Len(p) - 1 : k \in 1 .. Len(p)
  OBVIOUS
<1>3. Len(p) >= 1 => Len(p) \in 1 .. Len(p)
  OBVIOUS
<1>4. \A k \in 1 .. Len(p) : Known(p[k], 0, M, v)
  BY <1>1 DEF Chained, Known
<1>5. \A k \in 1 .. Len(p) - 1 : Later(p[k], p[k + 1], v)
  BY <1>1, <1>2 DEF Chained, Later
<1> QED
  BY <1>1, <1>3, <1>4, <1>5 DEF Chained, Ended


(* A further packet is the last one that waits. *)
LEMMA QueuedMore ==
  ASSUME NEW N \in Nat, NEW w \in [0 .. N -> Nat], NEW v \in [0 .. N + 1 -> Nat],
         \A n \in 0 .. N : v[n] = w[n], v[N + 1] >= 1,
         NEW q \in Seq(Mark), Queued(q, N, w),
         NEW s \in Seq(Mark), Single(s, N + 1, v[N + 1])
  PROVE  Queued(Cat(q, s), N + 1, v) /\ NextOf(Cat(q, s), N + 1) = NextOf(q, N)
<1> DEFINE u == Cat(q, s)
<1>1. /\ u \in Seq(Mark) /\ Len(u) = Len(q) + Len(s)
      /\ \A k \in 1 .. Len(q) : u[k] = q[k]
      /\ \A k \in 1 .. Len(s) : u[Len(q) + k] = s[k]
  BY CatType
<1>2. \A k \in 1 .. Len(q) + Len(s) :
        \/ k \in 1 .. Len(q) /\ u[k] = q[k]
        \/ \E j \in 1 .. Len(s) : k = Len(q) + j /\ u[k] = s[j]
  BY CatElements
<1>3. \A k \in 1 .. Len(q) :
        q[k].n \in 1 .. N /\ q[k].n \in 0 .. N /\ Known(q[k], 1, N + 1, v)
  <2> TAKE k \in 1 .. Len(q)
  <2>1. Known(q[k], 1, N, w)
    BY DEF Queued
  <2>2. q[k].n \in 1 .. N /\ q[k].part \in 1 .. w[q[k].n]
    BY <2>1 DEF Known
  <2>3. q[k].n \in 0 .. N /\ q[k].n \in 1 .. N + 1 /\ v[q[k].n] = w[q[k].n]
    BY <2>2
  <2> QED
    BY <2>2, <2>3 DEF Known
<1>4. \A k \in 1 .. Len(s) : Known(s[k], 1, N + 1, v)
  BY DEF Single, Known
<1>5. \A k \in 1 .. Len(u) : Known(u[k], 1, N + 1, v)
  BY <1>1, <1>2, <1>3, <1>4
<1>6. Len(s) \in Nat /\ Len(s) >= 1 /\ Len(q) \in Nat /\ v[N + 1] \in Nat /\ N + 1 \in Nat
  BY DEF Single
<1>7. /\ s[1].n = N + 1 /\ s[1].part = 1
      /\ s[Len(s)].n = N + 1 /\ s[Len(s)].part = v[N + 1]
  BY <1>6 DEF Single
<1>8. u[1].part = 1 /\ NextOf(u, N + 1) = NextOf(q, N)
  <2>1. CASE Len(q) >= 1
    <3>0. 1 \in 1 .. Len(q) /\ Len(u) >= 1
      BY <1>1, <1>6, <2>1
    <3>1. u[1] = q[1]
      BY <1>1, <3>0
    <3> QED
      BY <2>1, <3>0, <3>1 DEF Queued, NextOf
  <2>2. CASE Len(q) = 0
    <3>1. u[1] = s[1] /\ Len(u) >= 1
      BY <1>1, <1>6, <2>2
    <3> QED
      BY <1>7, <2>2, <3>1 DEF NextOf
  <2> QED
    BY <1>6, <2>1, <2>2
<1>9. u[Len(u)].n = N + 1 /\ u[Len(u)].part = v[N + 1]
  <2>1. u[Len(u)] = s[Len(s)]
    BY <1>1, <1>6
  <2> QED
    BY <1>7, <2>1
<1>10. \A k \in 1 .. Len(u) - 1 : Onward(u[k], u[k + 1], v)
  <2> DEFINE S == {x \in Mark \X Mark : Onward(x[1], x[2], v)}
  <2>1. ASSUME NEW a \in Mark, NEW b \in Mark, Onward(a, b, v) PROVE <<a, b>> \in S
    BY <2>1
  <2>2. \A k \in 1 .. Len(q) : q[k] \in Mark
    OBVIOUS
  <2>3. \A k \in 1 .. Len(s) : s[k] \in Mark
    OBVIOUS
  <2>4. ASSUME NEW k \in 1 .. Len(q) - 1 PROVE <<q[k], q[k + 1]>> \in S
    <3>1. k \in 1 .. Len(q) /\ k + 1 \in 1 .. Len(q)
      BY <1>6
    <3>2. Onward(q[k], q[k + 1], w) /\ v[q[k].n] = w[q[k].n]
      BY <1>3, <3>1 DEF Queued
    <3>3. Onward(q[k], q[k + 1], v)
      BY <3>2 DEF Onward
    <3> QED
      BY <2>1, <2>2, <3>1, <3>3
  <2>0. \A k \in 1 .. Len(s) - 1 : Onward(s[k], s[k + 1], v)
    BY <1>6, SingleFollows
  <2>5. ASSUME NEW k \in 1 .. Len(s) - 1 PROVE <<s[k], s[k + 1]>> \in S
    BY <2>0, <2>1, <2>3, <1>6
  <2>6. Len(q) >= 1 /\ Len(s) >= 1 => <<q[Len(q)], s[1]>> \in S
    <3> SUFFICES ASSUME Len(q) >= 1 PROVE <<q[Len(q)], s[1]>> \in S
      OBVIOUS
    <3>1. PICK a \in Mark, b \in Mark : a = q[Len(q)] /\ b = s[1]
      BY <1>6, <2>2, <2>3
    <3>2. a.n = N /\ a.part = v[N] /\ b.n = N + 1 /\ b.part = 1 /\ v[N] \in Nat
      BY <1>7, <3>1 DEF Queued
    <3>3. Onward(a, b, v)
      BY <3>2 DEF Onward
    <3> QED
      BY <2>1, <3>1, <3>3
  <2> HIDE DEF S
  <2>7. \A k \in 1 .. Len(q) + Len(s) - 1 : <<u[k], u[k + 1]>> \in S
    BY <2>4, <2>5, <2>6, CatNeighbours
  <2>8. \A a, b : <<a, b>> \in S => Onward(a, b, v)
    BY DEF S
  <2> TAKE k \in 1 .. Len(u) - 1
  <2>9. k \in 1 .. Len(q) + Len(s) - 1
    BY <1>1
  <2>10. <<u[k], u[k + 1]>> \in S
    BY <2>7, <2>9
  <2> QED
    BY <2>8, <2>10
<1> HIDE DEF u
<1>11. Queued(u, N + 1, v) /\ NextOf(u, N + 1) = NextOf(q, N)
  BY <1>1, <1>5, <1>6, <1>8, <1>9, <1>10 DEF Queued
<1> QED
  BY <1>11 DEF u

(* The first packet that waits is there from its first byte on. *)
LEMMA FirstWhole ==
  ASSUME NEW N \in Nat, NEW w \in [0 .. N -> Nat], NEW q \in Seq(Mark), Queued(q, N, w),
         Len(q) >= 1
  PROVE  \A k \in Nat : k \in 1 .. Len(q) /\ k <= w[q[1].n] => q[k].n = q[1].n /\ q[k].part = k
<1>0. PICK n \in 1 .. N, a \in Nat : n = q[1].n /\ a = w[n]
  <2>1. q[1].n \in 1 .. N
    BY DEF Queued, Known
  <2> QED
    BY <2>1
<1> DEFINE S == {k \in Nat : k \in 1 .. Len(q) /\ k <= a => q[k].n = n /\ q[k].part = k}
<1>1. 0 \in S
  OBVIOUS
<1>2. ASSUME NEW k \in Nat, k \in S PROVE k + 1 \in S
  <2> SUFFICES ASSUME k + 1 \in 1 .. Len(q), k + 1 <= a PROVE q[k + 1].n = n /\ q[k + 1].part = k + 1
    OBVIOUS
  <2>1. CASE k = 0
    <3>1. q[k + 1] = q[1] /\ 1 \in 1 .. Len(q)
      BY <2>1
    <3> QED
      BY <1>0, <2>1, <3>1 DEF Queued
  <2>2. CASE k # 0
    <3>1. k \in 1 .. Len(q) /\ k <= a /\ k \in 1 .. Len(q) - 1 /\ k < a
      BY <2>2
    <3>2. q[k].n = n /\ q[k].part = k
      BY <1>2, <3>1
    <3>3. Onward(q[k], q[k + 1], w)
      BY <3>1 DEF Queued
    <3> QED
      BY <1>0, <3>1, <3>2, <3>3 DEF Onward
  <2> QED
    BY <2>1, <2>2
<1> HIDE DEF S
<1>3. \A k \in Nat : k \in S
  BY <1>1, <1>2, Induction
<1> QED
  BY <1>0, <1>3 DEF S

(* on_packet cuts out the first packet that waits, when all of it is there. *)
CutOut(n, N, w, s, r) ==
  n \in 1 .. N /\ Single(s, n, w[n]) /\ Queued(r, N, w) /\ NextOf(r, N) = n + 1

LEMMA QueuedLess ==
  \A N \in Nat : \A w \in [0 .. N -> Nat] : \A s, r \in Seq(Mark), n \in Nat :
    Queued(Cat(s, r), N, w) /\ Len(s) + Len(r) >= 1 /\ n = Cat(s, r)[1].n /\ Len(s) = w[n] =>
      CutOut(n, N, w, s, r)
<1> SUFFICES ASSUME NEW N \in Nat, NEW w \in [0 .. N -> Nat],
                    NEW s \in Seq(Mark), NEW r \in Seq(Mark), Queued(Cat(s, r), N, w),
                    Len(s) + Len(r) >= 1
             PROVE  \A n \in Nat : n = Cat(s, r)[1].n /\ Len(s) = w[n] => CutOut(n, N, w, s, r)
  OBVIOUS
<1>0. SUFFICES ASSUME NEW n \in Nat, n = Cat(s, r)[1].n, Len(s) = w[n]
               PROVE  /\ n \in 1 .. N /\ Single(s, n, w[n])
                      /\ Queued(r, N, w) /\ NextOf(r, N) = n + 1
  BY DEF CutOut
<1>1. PICK q \in Seq(Mark) :
        /\ Len(q) = Len(s) + Len(r) /\ Queued(q, N, w) /\ q[1].n = n
        /\ \A k \in 1 .. Len(s) : q[k] = s[k]
        /\ \A k \in 1 .. Len(r) : q[Len(s) + k] = r[k]
  BY <1>0, CatType
<1>2. PICK a \in Nat, b \in Nat : a = Len(s) /\ b = Len(r)
  OBVIOUS
<1>3. /\ Len(q) = a + b /\ a + b >= 1 /\ 1 \in 1 .. Len(q)
      /\ \A k \in 1 .. b : r[k] = q[a + k]
  BY <1>1, <1>2
<1>4. n \in 1 .. N
  BY <1>1, <1>3 DEF Queued, Known
<1>5. w[n] \in Nat /\ w[n] >= 1 /\ a = w[n]
  <2>1. a = w[n]
    BY <1>0, <1>2
  <2>2. q[1].part \in 1 .. w[n]
    BY <1>1, <1>3 DEF Queued, Known
  <2>3. w[n] \in Nat
    BY <1>4
  <2> QED
    BY <2>1, <2>2, <2>3
<1>6. a >= 1 /\ ~(a < w[n])
  BY <1>5
<1>7. \A k \in 1 .. a : q[k].n = n /\ q[k].part = k
  <2>1. \A k \in Nat : k \in 1 .. Len(q) /\ k <= w[q[1].n] => q[k].n = q[1].n /\ q[k].part = k
    <3>1. Queued(q, N, w) /\ Len(q) >= 1
      BY <1>1, <1>3
    <3> QED
      BY <3>1, FirstWhole
  <2> QED
    BY <1>1, <1>3, <1>5, <2>1
<1>8. Queued(r, N, w) /\ NextOf(r, N) = n + 1
  <2>0. /\ Len(q) = a + b /\ Len(r) = b /\ \A k \in 1 .. b : r[k] = q[a + k]
        /\ Queued(q, N, w) /\ q[1].n = n /\ a >= 1 /\ ~(a < w[n])
        /\ \A k \in 1 .. a : q[k].n = n /\ q[k].part = k
    BY <1>1, <1>2, <1>3, <1>6, <1>7
  <2>1. \A k \in 1 .. Len(q) : Known(q[k], 1, N, w)
    BY <2>0 DEF Queued
  <2>2. n \in 1 .. N
    <3>1. Known(q[1], 1, N, w) /\ q[1].n = n
      BY <2>0, <2>1
    <3> QED
      BY <2>0, <3>1 DEF Known
  <2>4. \A k \in 1 .. b : a + k \in 1 .. Len(q) /\ Known(r[k], 1, N, w)
    BY <2>0, <2>1
  <2>5. ASSUME NEW k \in 1 .. b - 1 PROVE Onward(r[k], r[k + 1], w)
    <3>1. PICK j \in 1 .. Len(q) - 1 : j = a + k
      <4>1. a + k \in 1 .. Len(q) - 1
        BY <2>0
      <4> QED
        BY <2>0, <4>1
    <3>2. k \in 1 .. b /\ k + 1 \in 1 .. b /\ a + (k + 1) = j + 1
      BY <2>0, <3>1
    <3>3. r[k] = q[j] /\ r[k + 1] = q[j + 1]
      BY <2>0, <3>1, <3>2
    <3> QED
      BY <2>0, <3>1, <3>3 DEF Queued
  <2>6. CASE b = 0
    <3>1. a \in 1 .. a /\ Len(q) = a
      BY <2>0, <2>2, <2>6
    <3>2. q[Len(q)].n = n /\ q[Len(q)].n = N
      BY <2>0, <3>1 DEF Queued
    <3>3. Queued(r, N, w) /\ NextOf(r, N) = N + 1
      BY <2>0, <2>6 DEF Queued, NextOf
    <3> QED
      BY <2>0, <3>2, <3>3
  <2>7. CASE b >= 1
    <3>1. a \in 1 .. a /\ a \in 1 .. Len(q) - 1 /\ 1 \in 1 .. b /\ b \in 1 .. b
      BY <2>0, <2>2, <2>7
    <3>2. Onward(q[a], q[a + 1], w) /\ q[a].n = n /\ q[a].part = a
      BY <2>0, <3>1 DEF Queued
    <3>3. q[a + 1].n = n + 1 /\ q[a + 1].part = 1
      BY <2>0, <3>2 DEF Onward
    <3>4. r[1] = q[a + 1] /\ r[b] = q[Len(q)]
      BY <2>0, <3>1
    <3>5. Len(q) >= 1 /\ q[Len(q)].n = N /\ q[Len(q)].part = w[N]
      BY <2>0 DEF Queued
    <3>6. r[1].part = 1 /\ r[b].n = N /\ r[b].part = w[N] /\ NextOf(r, N) = n + 1
      BY <2>0, <2>7, <3>3, <3>4, <3>5 DEF NextOf
    <3>7. Queued(r, N, w)
      BY <2>0, <2>4, <2>5, <3>6 DEF Queued
    <3> QED
      BY <2>0, <3>6, <3>7
  <2> QED
    BY <2>0, <2>6, <2>7
<1>9. Single(s, n, w[n])
  <2>1. Single(s, n, a)
    BY <1>1, <1>2, <1>7 DEF Single
  <2> QED
    BY <1>5, <2>1, Zenon
<1> QED
  BY <1>4, <1>8, <1>9

(* Neighbours are of the same packet or of two in a row. *)
LEMMA OneOnward ==
  ASSUME NEW N \in Nat, NEW w \in [0 .. N -> Nat], NEW q \in Seq(Mark), Queued(q, N, w)
  PROVE  /\ \A k \in 1 .. Len(q) : q[k].n \in 1 .. N
         /\ \A k \in 1 .. Len(q) - 1 : q[k + 1].n = q[k].n \/ q[k + 1].n = q[k].n + 1
<1>1. \A k \in 1 .. Len(q) : Known(q[k], 1, N, w)
  BY DEF Queued
<1>2. \A k \in 1 .. Len(q) - 1 : Onward(q[k], q[k + 1], w)
  BY DEF Queued
<1> QED
  BY <1>1, <1>2 DEF Known, Onward

LEMMA Below ==
  ASSUME NEW x \in Nat, NEW y \in Nat, NEW n \in Nat,
         y = x \/ y = x + 1, x < n, y # n
  PROVE  y < n
OBVIOUS

(* Every packet from the next one on waits. *)
LEMMA QueuedAll ==
  ASSUME NEW N \in Nat, NEW w \in [0 .. N -> Nat], NEW q \in Seq(Mark), Queued(q, N, w)
  PROVE  /\ NextOf(q, N) \in 1 .. N + 1
         /\ \A n \in 1 .. N : n >= NextOf(q, N) <=> \E k \in 1 .. Len(q) : q[k].n = n
<1>1. PICK L \in Nat : L = Len(q)
  OBVIOUS
<1>2. /\ \A k \in 1 .. L : q[k].n \in 1 .. N
      /\ \A k \in 1 .. L - 1 : q[k + 1].n = q[k].n \/ q[k + 1].n = q[k].n + 1
  BY <1>1, OneOnward
<1>3. CASE L = 0
  BY <1>1, <1>3 DEF NextOf
<1>4. CASE L >= 1
  <2>1. 1 \in 1 .. L /\ L \in 1 .. L
    BY <1>4
  <2>2. PICK f \in 1 .. N : f = q[1].n /\ f = NextOf(q, N)
    BY <1>1, <1>2, <1>4, <2>1 DEF NextOf
  <2>3. \A k \in 1 .. L : q[k].n >= f
    <3> DEFINE S == {k \in Nat : k \in 1 .. L => q[k].n >= f}
    <3>1. 0 \in S
      OBVIOUS
    <3>2. ASSUME NEW k \in Nat, k \in S PROVE k + 1 \in S
      <4> SUFFICES ASSUME k + 1 \in 1 .. L PROVE q[k + 1].n >= f
        OBVIOUS
      <4>1. CASE k = 0
        <5>1. k + 1 = 1 /\ f >= f
          BY <4>1
        <5>2. q[k + 1].n = f
          BY <2>2, <5>1, Zenon
        <5> QED
          BY <5>1, <5>2, Zenon
      <4>2. CASE k # 0
        <5>1. k \in 1 .. L /\ k \in 1 .. L - 1
          BY <4>2
        <5>2. q[k].n >= f
          BY <3>2, <5>1
        <5>3. q[k].n \in 1 .. N /\ (q[k + 1].n = q[k].n \/ q[k + 1].n = q[k].n + 1)
          BY <1>2, <5>1
        <5> QED
          BY <5>2, <5>3
      <4> QED
        BY <4>1, <4>2
    <3> HIDE DEF S
    <3>3. \A k \in Nat : k \in S
      BY <3>1, <3>2, Induction
    <3> QED
      BY <3>3 DEF S
  <2>4. ASSUME NEW n \in 1 .. N, n >= f PROVE \E k \in 1 .. L : q[k].n = n
    <3> DEFINE S == {k \in Nat : k \in 1 .. L => q[k].n < n}
    <3> SUFFICES ASSUME \A k \in 1 .. L : q[k].n # n PROVE FALSE
      OBVIOUS
    <3>1. 0 \in S
      OBVIOUS
    <3>2. ASSUME NEW k \in Nat, k \in S PROVE k + 1 \in S
      <4> SUFFICES ASSUME k + 1 \in 1 .. L PROVE q[k + 1].n < n
        OBVIOUS
      <4>0. q[k + 1].n \in 1 .. N /\ q[k + 1].n # n
        BY <1>2
      <4>1. CASE k = 0
        <5>1. q[k + 1] = q[1]
          BY <4>1
        <5>2. q[k + 1].n = f
          BY <2>2, <5>1
        <5> QED
          BY <2>4, <4>0, <5>2
      <4>2. CASE k # 0
        <5>1. k \in 1 .. L /\ k \in 1 .. L - 1
          BY <4>2
        <5>2. q[k].n < n
          BY <3>2, <5>1
        <5>3. PICK x \in 1 .. N, y \in 1 .. N :
                x = q[k].n /\ y = q[k + 1].n /\ (y = x \/ y = x + 1)
          BY <1>2, <4>0, <5>1
        <5>4. x < n /\ y # n
          BY <4>0, <5>2, <5>3, Zenon
        <5>5. y < n
          <6>1. x \in Nat /\ y \in Nat /\ n \in Nat /\ (y = x \/ y = x + 1)
            BY <5>3
          <6> QED
            BY <5>4, <6>1, Below
        <5> QED
          BY <5>3, <5>5, Zenon
      <4> QED
        BY <4>1, <4>2
    <3> HIDE DEF S
    <3>3. \A k \in Nat : k \in S
      BY <3>1, <3>2, Induction
    <3>4. L \in S /\ q[L].n = N
      BY <1>1, <1>4, <3>3 DEF Queued
    <3> QED
      BY <2>1, <3>4 DEF S
  <2> QED
    BY <1>1, <2>2, <2>3, <2>4
<1> QED
  BY <1>1, <1>3, <1>4

-----------------------------------------------------------------------------
(* Marks of sequences of bytes. *)

LEMMA MarksType ==
  ASSUME NEW s \in Seq(Unit)
  PROVE  /\ Marks(s) \in Seq(Mark) /\ Len(Marks(s)) = Len(s)
         /\ \A k \in 1 .. Len(s) : Marks(s)[k].n = s[k].n /\ Marks(s)[k].part = s[k].part
<1>0. \A u \in Unit : u.n \in Nat /\ u.part \in Nat
  BY DEF Unit
<1>1. DOMAIN s = 1 .. Len(s) /\ \A k \in 1 .. Len(s) : s[k].n \in Nat /\ s[k].part \in Nat
  <2>1. DOMAIN s = 1 .. Len(s) /\ \A k \in 1 .. Len(s) : s[k] \in Unit
    OBVIOUS
  <2> QED
    BY <1>0, <2>1
<1>2. Marks(s) = [k \in 1 .. Len(s) |-> [n |-> s[k].n, part |-> s[k].part]]
  BY <1>1 DEF Marks
<1>3. \A k \in 1 .. Len(s) : [n |-> s[k].n, part |-> s[k].part] \in Mark
  BY <1>1 DEF Mark
<1> QED
  BY <1>2, <1>3

(* Bytes that belong to the same places have the same marks. *)
LEMMA MarksSame ==
  ASSUME NEW s \in Seq(Unit), NEW t \in Seq(Unit), Len(s) = Len(t),
         \A k \in 1 .. Len(s) : s[k].n = t[k].n /\ s[k].part = t[k].part
  PROVE  Marks(s) = Marks(t)
<1>1. DOMAIN s = 1 .. Len(s) /\ DOMAIN t = 1 .. Len(s)
  OBVIOUS
<1>2. Marks(s) = [k \in 1 .. Len(s) |-> [n |-> s[k].n, part |-> s[k].part]]
  BY <1>1 DEF Marks
<1>3. Marks(t) = [k \in 1 .. Len(s) |-> [n |-> t[k].n, part |-> t[k].part]]
  BY <1>1 DEF Marks
<1>4. \A k \in 1 .. Len(s) :
        [n |-> s[k].n, part |-> s[k].part] = [n |-> t[k].n, part |-> t[k].part]
  OBVIOUS
<1> QED
  BY <1>2, <1>3, <1>4

LEMMA MarkSame ==
  \A x, y \in Mark : x.n = y.n /\ x.part = y.part => x = y
<1> SUFFICES ASSUME NEW x \in Mark, NEW y \in Mark, x.n = y.n, x.part = y.part PROVE x = y
  OBVIOUS
<1>1. x = [n |-> x.n, part |-> x.part] /\ y = [n |-> y.n, part |-> y.part]
  BY DEF Mark
<1> QED
  BY <1>1, Zenon

LEMMA CatSame ==
  ASSUME NEW a \in Seq(Mark), NEW b \in Seq(Mark), NEW u \in Seq(Mark),
         Len(u) = Len(a) + Len(b),
         \A k \in 1 .. Len(a) : u[k].n = a[k].n /\ u[k].part = a[k].part,
         \A k \in 1 .. Len(b) : u[Len(a) + k].n = b[k].n /\ u[Len(a) + k].part = b[k].part
  PROVE  u = Cat(a, b)
<1>1. PICK v \in Seq(Mark) : v = Cat(a, b)
  BY CatType
<1>2. /\ Len(v) = Len(a) + Len(b)
      /\ \A k \in 1 .. Len(a) : v[k] = a[k]
      /\ \A k \in 1 .. Len(b) : v[Len(a) + k] = b[k]
  <2>1. /\ Len(Cat(a, b)) = Len(a) + Len(b)
        /\ \A k \in 1 .. Len(a) : Cat(a, b)[k] = a[k]
        /\ \A k \in 1 .. Len(b) : Cat(a, b)[Len(a) + k] = b[k]
    BY CatType
  <2> QED
    BY <1>1, <2>1, Zenon
<1>3. \A x, y \in Mark : x.n = y.n /\ x.part = y.part => x = y
  BY MarkSame
<1>4. ASSUME NEW k \in 1 .. Len(u) PROVE u[k] = v[k]
  <2>1. u[k] \in Mark /\ v[k] \in Mark
    BY <1>2
  <2>2. CASE k \in 1 .. Len(a)
    BY <1>2, <1>3, <2>1, <2>2
  <2>3. CASE k \notin 1 .. Len(a)
    <3>1. PICK j \in 1 .. Len(b) : k = Len(a) + j
      <4>1. k - Len(a) \in 1 .. Len(b) /\ k = Len(a) + (k - Len(a))
        BY <2>3
      <4> QED
        BY <4>1
    <3>2. u[k].n = v[k].n /\ u[k].part = v[k].part
      BY <1>2, <3>1
    <3> QED
      BY <1>3, <2>1, <3>2
  <2> QED
    BY <2>2, <2>3
<1>5. u = v
  BY <1>2, <1>4
<1> QED
  BY <1>1, <1>5

LEMMA MarksJoin ==
  ASSUME NEW s \in Seq(Unit), NEW t \in Seq(Unit)
  PROVE  Marks(s \o t) = Cat(Marks(s), Marks(t))
<1>1. PICK j \in Seq(Unit) : j = s \o t
  BY JoinType
<1>2. /\ Len(j) = Len(s) + Len(t)
      /\ \A m \in 1 .. Len(s) : j[m] = s[m]
      /\ \A m \in 1 .. Len(t) : j[Len(s) + m] = t[m]
  BY <1>1, JoinType
<1>3. PICK a \in Seq(Mark), b \in Seq(Mark), u \in Seq(Mark) :
        a = Marks(s) /\ b = Marks(t) /\ u = Marks(j)
  BY MarksType
<1>4. /\ Len(a) = Len(s) /\ Len(b) = Len(t) /\ Len(u) = Len(j)
      /\ \A k \in 1 .. Len(s) : a[k].n = s[k].n /\ a[k].part = s[k].part
      /\ \A k \in 1 .. Len(t) : b[k].n = t[k].n /\ b[k].part = t[k].part
      /\ \A k \in 1 .. Len(j) : u[k].n = j[k].n /\ u[k].part = j[k].part
  BY <1>3, MarksType
<1>5. \A k \in 1 .. Len(a) : u[k].n = a[k].n /\ u[k].part = a[k].part
  <2> TAKE k \in 1 .. Len(a)
  <2>1. k \in 1 .. Len(s) /\ k \in 1 .. Len(j)
    BY <1>2, <1>4
  <2> QED
    BY <1>2, <1>4, <2>1, ZenonT(30)
<1>6. \A k \in 1 .. Len(b) : u[Len(a) + k].n = b[k].n /\ u[Len(a) + k].part = b[k].part
  <2> TAKE k \in 1 .. Len(b)
  <2>1. k \in 1 .. Len(t) /\ Len(a) + k \in 1 .. Len(j) /\ Len(a) = Len(s)
    BY <1>2, <1>4
  <2>2. j[Len(a) + k] = t[k]
    BY <1>2, <2>1
  <2> QED
    BY <1>4, <2>1, <2>2, ZenonT(30)
<1>7. u = Cat(a, b)
  <2>1. Len(u) = Len(a) + Len(b)
    BY <1>2, <1>4
  <2> QED
    BY <1>5, <1>6, <2>1, CatSame
<1> QED
  BY <1>1, <1>3, <1>7

LEMMA MarksNone == Marks(<<>>) = <<>> /\ <<>> \in Seq(Mark) /\ <<>> \in Seq(Unit)
BY DEF Marks

LEMMA MarksCut ==
  ASSUME NEW s \in Seq(Unit), NEW k \in 0 .. Len(s)
  PROVE  Marks(s) = Cat(Marks(SubSeq(s, 1, k)), Marks(SubSeq(s, k + 1, Len(s))))
<1>1. PICK a \in Seq(Unit), b \in Seq(Unit) :
        a = SubSeq(s, 1, k) /\ b = SubSeq(s, k + 1, Len(s))
  BY CutType
<1>2. a \o b = s
  <2>1. SubSeq(s, 1, k) \o SubSeq(s, k + 1, Len(s)) = SubSeq(s, 1, Len(s))
    <3>1. 1 \in 1 .. Len(s) + 1 /\ k \in 1 - 1 .. Len(s) /\ Len(s) \in k .. Len(s)
      OBVIOUS
    <3> QED
      BY <3>1, ConcatAdjacentSubSeq
  <2>2. SubSeq(s, 1, Len(s)) = s
    BY SubSeqFull
  <2> QED
    BY <1>1, <2>1, <2>2, Zenon
<1>3. Marks(a \o b) = Cat(Marks(a), Marks(b))
  BY MarksJoin
<1> QED
  BY <1>1, <1>2, <1>3, Zenon

LEMMA CatNone ==
  ASSUME NEW a \in Seq(Mark)
  PROVE  Cat(a, <<>>) = a /\ Cat(<<>>, a) = a
BY DEF Cat

LEMMA CatCat ==
  ASSUME NEW a \in Seq(Mark), NEW b \in Seq(Mark), NEW e \in Seq(Mark)
  PROVE  Cat(Cat(a, b), e) = Cat(a, Cat(b, e))
BY DEF Cat

(* Encryption leaves the marks alone, *)
LEMMA EncryptMarks ==
  ASSUME NEW data \in Seq(Unit), NEW box \in Box, NEW at \in Nat
  PROVE  Marks(Encrypt(data, box, at)) = Marks(data)
<1>1. /\ Encrypt(data, box, at) \in Seq(Unit) /\ Len(Encrypt(data, box, at)) = Len(data)
      /\ \A k \in 1 .. Len(data) : /\ Encrypt(data, box, at)[k].n = data[k].n
                                   /\ Encrypt(data, box, at)[k].part = data[k].part
  BY EncryptType
<1> QED
  BY <1>1, MarksSame

(* and so does decryption with the steps the bytes were encrypted with. *)
LEMMA DecryptMarks ==
  ASSUME NEW data \in Seq(Unit), NEW box \in Box, NEW at \in Nat,
         \A k \in 1 .. Len(data) : data[k].box = box /\ data[k].at = at + k
  PROVE  Marks(Decrypt(data, box, at)) = Marks(data)
<1>1. /\ Decrypt(data, box, at) \in Seq(Unit) /\ Len(Decrypt(data, box, at)) = Len(data)
      /\ \A k \in 1 .. Len(data) : /\ Decrypt(data, box, at)[k].n = data[k].n
                                   /\ Decrypt(data, box, at)[k].part = data[k].part
  BY DecryptType
<1> QED
  BY <1>1, MarksSame

(* The bytes of one packet. *)
LEMMA PartsMarks ==
  ASSUME NEW n \in Nat, NEW size \in Nat
  PROVE  Marks(Parts(n, size)) \in Seq(Mark) /\ Single(Marks(Parts(n, size)), n, size)
<1>1. PICK s \in Seq(Unit) : s = Parts(n, size)
  BY PartsType
<1>2. Len(s) = size /\ \A k \in 1 .. size : s[k].n = n /\ s[k].part = k
  <2>1. \A k \in 1 .. size : s[k] = Clear(n, k) /\ k \in Nat
    BY <1>1, PartsType
  <2>2. Len(s) = size
    BY <1>1, PartsType
  <2> QED
    BY <2>1, <2>2, ClearUnit
<1>3. Marks(s) \in Seq(Mark) /\ Single(Marks(s), n, size)
  BY <1>2, MarksType DEF Single
<1> QED
  BY <1>1, <1>3

-----------------------------------------------------------------------------
(* What was let through and what waits, in the marks of the places where it
   is. *)
Three(r, l, o) == Cat(Cat(Marks(r), Marks(l)), Marks(o))

Two(b, a) == Cat(Marks(b), Marks(a))

(* What is behind the handshake. *)
Rest(a, key) == SubSeq(a, key + 1, Len(a))

LEMMA ThreeMarks ==
  ASSUME NEW r \in Seq(Unit), NEW l \in Seq(Unit), NEW o \in Seq(Unit)
  PROVE  Marks(r \o l \o o) = Three(r, l, o) /\ Three(r, l, o) \in Seq(Mark)
<1>1. PICK j \in Seq(Unit) : j = r \o l
  BY JoinType
<1>2. Marks(j) = Cat(Marks(r), Marks(l)) /\ Marks(j \o o) = Cat(Marks(j), Marks(o))
  BY <1>1, MarksJoin
<1>3. Marks(j) \in Seq(Mark) /\ Marks(o) \in Seq(Mark)
  BY MarksType
<1>4. Cat(Marks(j), Marks(o)) \in Seq(Mark)
  BY <1>3, CatType
<1> QED
  BY <1>1, <1>2, <1>4, Zenon DEF Three

(* write_all moves bytes to the wire, *)
LEMMA ThreeWrite ==
  ASSUME NEW r \in Seq(Unit), NEW l \in Seq(Unit), NEW o \in Seq(Unit), NEW k \in 0 .. Len(o)
  PROVE  Three(r, l \o SubSeq(o, 1, k), SubSeq(o, k + 1, Len(o))) = Three(r, l, o)
<1>1. PICK x \in Seq(Unit), y \in Seq(Unit) :
        x = SubSeq(o, 1, k) /\ y = SubSeq(o, k + 1, Len(o))
  BY CutType
<1>2. PICK R \in Seq(Mark), L \in Seq(Mark), X \in Seq(Mark), Y \in Seq(Mark) :
        R = Marks(r) /\ L = Marks(l) /\ X = Marks(x) /\ Y = Marks(y)
  BY MarksType
<1>3. Marks(l \o x) = Cat(L, X)
  BY <1>2, MarksJoin
<1>4. Marks(o) = Cat(X, Y)
  BY <1>1, <1>2, MarksCut
<1>5. Cat(R, L) \in Seq(Mark)
  BY CatType
<1>6. Cat(Cat(Cat(R, L), X), Y) = Cat(Cat(R, L), Cat(X, Y))
  BY <1>5, CatCat
<1>7. Cat(Cat(R, L), X) = Cat(R, Cat(L, X))
  BY CatCat
<1>8. Cat(Cat(R, Cat(L, X)), Y) = Cat(Cat(R, L), Cat(X, Y))
  BY <1>6, <1>7, Zenon
<1>9. Three(r, l \o x, y) = Three(r, l, o)
  BY <1>2, <1>3, <1>4, <1>8, Zenon DEF Three
<1> QED
  BY <1>1, <1>9, Zenon

(* a receiver reads the handshake, *)
LEMMA ThreeGreet ==
  ASSUME NEW l \in Seq(Unit), NEW o \in Seq(Unit), NEW k \in 0 .. Len(l)
  PROVE  Three(SubSeq(l, 1, k), SubSeq(l, k + 1, Len(l)), o) = Three(<<>>, l, o)
<1>1. Marks(l) = Cat(Marks(SubSeq(l, 1, k)), Marks(SubSeq(l, k + 1, Len(l))))
  BY MarksCut
<1>2. Marks(l) \in Seq(Mark) /\ Marks(<<>>) = <<>>
  BY MarksType, MarksNone
<1>3. Cat(<<>>, Marks(l)) = Marks(l)
  BY <1>2, CatNone
<1> QED
  BY <1>1, <1>2, <1>3, Zenon DEF Three

(* and whatever is there, *)
LEMMA ThreeRead ==
  ASSUME NEW r \in Seq(Unit), NEW l \in Seq(Unit), NEW o \in Seq(Unit), NEW x \in Seq(Unit),
         Marks(x) = Marks(l)
  PROVE  Three(r \o x, <<>>, o) = Three(r, l, o)
<1>1. Marks(r \o x) = Cat(Marks(r), Marks(x))
  BY MarksJoin
<1>2. Cat(Marks(r), Marks(x)) \in Seq(Mark) /\ Marks(<<>>) = <<>>
  BY MarksType, CatType, MarksNone
<1>3. Cat(Cat(Marks(r), Marks(x)), <<>>) = Cat(Marks(r), Marks(x))
  BY <1>2, CatNone
<1> QED
  BY <1>1, <1>2, <1>3, Zenon DEF Three

(* on_packet lets a packet through. *)
LEMMA ThreeMore ==
  ASSUME NEW r \in Seq(Unit), NEW l \in Seq(Unit), NEW o \in Seq(Unit), NEW s \in Seq(Unit)
  PROVE  Three(r, l, o \o s) = Cat(Three(r, l, o), Marks(s))
<1>1. Marks(o \o s) = Cat(Marks(o), Marks(s))
  BY MarksJoin
<1>2. PICK H \in Seq(Mark), O \in Seq(Mark), S \in Seq(Mark) :
        H = Cat(Marks(r), Marks(l)) /\ O = Marks(o) /\ S = Marks(s)
  BY MarksType, CatType
<1>3. Cat(Cat(H, O), S) = Cat(H, Cat(O, S))
  BY CatCat
<1> QED
  BY <1>1, <1>2, <1>3, Zenon DEF Three

LEMMA ThreeEnd ==
  ASSUME NEW r \in Seq(Unit), NEW l \in Seq(Unit), NEW o \in Seq(Unit)
  PROVE  Three(r, l, o) = Cat(Three(r, l, <<>>), Marks(o))
<1>1. PICK H \in Seq(Mark) : H = Cat(Marks(r), Marks(l))
  BY MarksType, CatType
<1>2. Cat(H, <<>>) = H /\ Marks(<<>>) = <<>>
  BY CatNone, MarksNone
<1> QED
  BY <1>1, <1>2, Zenon DEF Three

LEMMA TwoType ==
  ASSUME NEW b \in Seq(Unit), NEW a \in Seq(Unit)
  PROVE  Two(b, a) \in Seq(Mark) /\ Len(Two(b, a)) = Len(b) + Len(a)
<1>1. /\ Marks(b) \in Seq(Mark) /\ Len(Marks(b)) = Len(b)
      /\ Marks(a) \in Seq(Mark) /\ Len(Marks(a)) = Len(a)
  BY MarksType
<1> QED
  BY <1>1, CatType DEF Two

(* A read moves bytes from the wire to the buffer. *)
LEMMA TwoRead ==
  ASSUME NEW b \in Seq(Unit), NEW a \in Seq(Unit), NEW k \in 0 .. Len(a), NEW x \in Seq(Unit),
         Marks(x) = Marks(SubSeq(a, 1, k))
  PROVE  Two(b \o x, SubSeq(a, k + 1, Len(a))) = Two(b, a)
<1>1. Marks(b \o x) = Cat(Marks(b), Marks(x))
  BY MarksJoin
<1>2. PICK y \in Seq(Unit) : y = SubSeq(a, k + 1, Len(a))
  BY CutType
<1>3. Marks(a) = Cat(Marks(x), Marks(y))
  BY <1>2, MarksCut
<1>4. PICK B \in Seq(Mark), X \in Seq(Mark), Y \in Seq(Mark) :
        B = Marks(b) /\ X = Marks(x) /\ Y = Marks(y)
  BY <1>2, MarksType
<1>5. Cat(Cat(B, X), Y) = Cat(B, Cat(X, Y))
  BY CatCat
<1> QED
  BY <1>1, <1>2, <1>3, <1>4, <1>5, Zenon DEF Two

LEMMA TwoMore ==
  ASSUME NEW b \in Seq(Unit), NEW a \in Seq(Unit), NEW s \in Seq(Unit)
  PROVE  Two(b, a \o s) = Cat(Two(b, a), Marks(s))
<1>1. Marks(a \o s) = Cat(Marks(a), Marks(s))
  BY MarksJoin
<1>2. Cat(Cat(Marks(b), Marks(a)), Marks(s)) = Cat(Marks(b), Cat(Marks(a), Marks(s)))
  BY MarksType, CatCat
<1> QED
  BY <1>1, <1>2, Zenon DEF Two

LEMMA TwoTake ==
  ASSUME NEW b \in Seq(Unit), NEW a \in Seq(Unit), NEW k \in 0 .. Len(b)
  PROVE  Two(b, a) = Cat(Marks(SubSeq(b, 1, k)), Two(SubSeq(b, k + 1, Len(b)), a))
<1>1. PICK x \in Seq(Unit), y \in Seq(Unit) :
        x = SubSeq(b, 1, k) /\ y = SubSeq(b, k + 1, Len(b))
  BY CutType
<1>2. Marks(b) = Cat(Marks(x), Marks(y))
  BY <1>1, MarksCut
<1>3. Cat(Cat(Marks(x), Marks(y)), Marks(a)) = Cat(Marks(x), Cat(Marks(y), Marks(a)))
  BY MarksType, CatCat
<1> QED
  BY <1>1, <1>2, <1>3, Zenon DEF Two

LEMMA RestFacts ==
  ASSUME NEW a \in Seq(Unit), NEW key \in Nat
  PROVE  /\ Rest(a, key) \in Seq(Unit)
         /\ Rest(a, 0) = a
         /\ Len(a) <= key => Rest(a, key) = <<>>
         /\ key <= Len(a) => \A s \in Seq(Unit) : Rest(a \o s, key) = Rest(a, key) \o s
<1>1. Rest(a, 0) = a
  BY DEF Rest
<1>2. Len(a) <= key => Rest(a, key) = <<>>
  BY DEF Rest
<1>3. Rest(a, key) \in Seq(Unit)
  BY DEF Rest
<1>4. ASSUME key <= Len(a), NEW s \in Seq(Unit)
      PROVE  Rest(a \o s, key) = Rest(a, key) \o s
  <2>1. PICK j \in Seq(Unit) : j = a \o s
    BY JoinType
  <2>2. PICK x \in Seq(Unit) : x = Rest(a, key)
    BY <1>3
  <2>3. PICK y \in Seq(Unit) : y = Rest(j, key)
    <3>1. key \in 0 .. Len(j)
      BY <1>4, <2>1
    <3> QED
      BY <3>1, CutType DEF Rest
  <2>4. PICK z \in Seq(Unit) : z = x \o s
    BY JoinType
  <2>5. PICK la \in Nat, ls \in Nat : la = Len(a) /\ ls = Len(s)
    OBVIOUS
  <2>6. /\ Len(j) = la + ls
        /\ \A m \in 1 .. la : j[m] = a[m]
        /\ \A m \in 1 .. ls : j[la + m] = s[m]
    BY <2>1, <2>5, JoinType
  <2>7. Len(x) = la - key /\ \A m \in 1 .. la - key : x[m] = a[key + m]
    <3>1. key \in 0 .. Len(a)
      BY <1>4
    <3> QED
      BY <2>2, <2>5, <3>1, CutType DEF Rest
  <2>8. Len(y) = la + ls - key /\ \A m \in 1 .. la + ls - key : y[m] = j[key + m]
    <3>1. key \in 0 .. Len(j)
      BY <1>4, <2>5, <2>6
    <3>2. /\ Len(Rest(j, key)) = Len(j) - key
          /\ \A m \in 1 .. Len(j) - key : Rest(j, key)[m] = j[key + m]
      BY <3>1, CutType DEF Rest
    <3>3. Len(y) = Len(j) - key /\ \A m \in 1 .. Len(j) - key : y[m] = j[key + m]
      BY <2>3, <3>2, Zenon
    <3>4. Len(j) = la + ls
      BY <2>6
    <3> QED
      <4>1. Len(j) - key = la + ls - key
        BY <3>4
      <4> QED
        BY <3>3, <4>1
  <2>9. /\ Len(z) = la - key + ls
        /\ \A m \in 1 .. la - key : z[m] = x[m]
        /\ \A m \in 1 .. ls : z[(la - key) + m] = s[m]
    <3>1. /\ Len(x \o s) = Len(x) + Len(s)
          /\ \A m \in 1 .. Len(x) : (x \o s)[m] = x[m]
          /\ \A m \in 1 .. Len(s) : (x \o s)[Len(x) + m] = s[m]
      BY JoinType
    <3>2. Len(x) = la - key /\ Len(s) = ls
      BY <2>5, <2>7
    <3> QED
      BY <2>4, <3>1, <3>2, Zenon
  <2>10. ASSUME NEW m \in 1 .. Len(y) PROVE y[m] = z[m]
    <3>0. key <= la /\ m \in 1 .. la + ls - key
      BY <1>4, <2>5, <2>8
    <3>1. CASE m <= la - key
      <4>1. m \in 1 .. la - key /\ key + m \in 1 .. la
        BY <3>0, <3>1
      <4> QED
        BY <2>6, <2>7, <2>8, <2>9, <3>0, <4>1
    <3>2. CASE m > la - key
      <4>1. PICK i \in 1 .. ls : i = m - (la - key)
        BY <3>0, <3>2
      <4>2. key + m = la + i /\ m = (la - key) + i
        BY <3>0, <4>1
      <4>3. y[m] = j[key + m] /\ j[la + i] = s[i] /\ z[(la - key) + i] = s[i]
        BY <2>6, <2>8, <2>9, <3>0, <4>1
      <4> QED
        BY <4>2, <4>3, Zenon
    <3> QED
      BY <3>0, <3>1, <3>2
  <2>11. Len(y) = Len(z)
    BY <2>8, <2>9
  <2>12. y = z
    BY <2>10, <2>11, SeqEqual
  <2> QED
    BY <2>1, <2>2, <2>3, <2>4, <2>12, Zenon
<1> QED
  BY <1>1, <1>2, <1>3, <1>4

-----------------------------------------------------------------------------
(* What a step does to a direction of a connection. *)

(* A task that has not ended. *)
Live(c) == task[c] \notin {"returned", "panicked"}

OutOf(c, d) == IF dir[c] = d THEN out[c] ELSE <<>>

(* What waits, behind the handshake if that is still to be read. *)
Inward(c, d) ==
  Two(buf[c][d], Rest(arriving[c][d], IF Handshaken(c, d) THEN 0 ELSE KeySize[d]))

Still(c, d) ==
  /\ Past(c, d)' = Past(c, d)
  /\ Inward(c, d)' = Inward(c, d)
  /\ sent'[c][d] = sent[c][d]
  /\ Live(c)' <=> Live(c)
  /\ Handshaken(c, d)' <=> Handshaken(c, d)

(* The task ends, and what it did not write is lost. *)
Ends(c, d) ==
  /\ ~Live(c)'
  /\ sent'[c][d] = sent[c][d]
  /\ Past(c, d)' \in Seq(Mark)
  /\ \E s \in Seq(Mark) : Past(c, d) = Cat(Past(c, d)', s)

(* A packet is sent to the proxy. *)
Sends(c, d) ==
  /\ Past(c, d)' = Past(c, d)
  /\ \E p \in Kind, s \in Seq(Mark) :
       /\ sent'[c][d] = Append(sent[c][d], p)
       /\ Single(s, Len(sent[c][d]) + 1, p.size)
       /\ Inward(c, d)' = Cat(Inward(c, d), s)
  /\ Live(c)' <=> Live(c)
  /\ Handshaken(c, d)' <=> Handshaken(c, d)

(* The proxy answers a handshake. *)
Greets(c, d) ==
  /\ \E s \in Seq(Mark) : Single(s, 0, KeySize[d]) /\ Past(c, d)' = Cat(Past(c, d), s)
  /\ Inward(c, d)' = Inward(c, d)
  /\ sent'[c][d] = sent[c][d]
  /\ Live(c)' /\ Live(c)
  /\ Handshaken(c, d)' /\ ~Handshaken(c, d)
  /\ drop_packets' = drop_packets

(* The n-th packet is cut out, and let through unless it is dropped. *)
Takes(c, d, n, dropped) ==
  /\ \E s \in Seq(Mark), r \in Seq(Mark) :
       /\ Inward(c, d) = Cat(s, r) /\ Inward(c, d)' = r
       /\ Inward(c, d)[1].n = n /\ Len(s) = sent[c][d][n].size
       /\ Past(c, d)' = IF dropped THEN Past(c, d) ELSE Cat(Past(c, d), s)
  /\ n \in 1 .. Len(sent[c][d])
  /\ sent'[c][d] = sent[c][d]
  /\ Live(c)' /\ Live(c)
  /\ Handshaken(c, d)' /\ Handshaken(c, d)

LEMMA PastNow ==
  ASSUME Shape, NEW c \in Conn, NEW d \in Direction
  PROVE  /\ OutOf(c, d) \in Seq(Unit) /\ Past(c, d) \in Seq(Mark)
         /\ Past(c, d) = Three(received[c][d], leaving[c][d], OutOf(c, d))
<1>1. received[c][d] \in Seq(Unit) /\ leaving[c][d] \in Seq(Unit) /\ out[c] \in Seq(Unit)
  BY ShapeAt
<1>2. OutOf(c, d) \in Seq(Unit)
  BY <1>1, MarksNone DEF OutOf
<1>3. Past(c, d) = Marks(received[c][d] \o leaving[c][d] \o OutOf(c, d))
  BY DEF Past, OutOf
<1>4. PICK x \in Seq(Unit), y \in Seq(Unit), z \in Seq(Unit) :
        x = received[c][d] /\ y = leaving[c][d] /\ z = OutOf(c, d)
  BY <1>1, <1>2, Zenon
<1>5. Marks(x \o y \o z) = Three(x, y, z) /\ Three(x, y, z) \in Seq(Mark)
  BY ThreeMarks
<1> QED
  BY <1>2, <1>3, <1>4, <1>5, Zenon

LEMMA PastThen ==
  ASSUME Shape', NEW c \in Conn, NEW d \in Direction
  PROVE  /\ OutOf(c, d)' \in Seq(Unit) /\ Past(c, d)' \in Seq(Mark)
         /\ Past(c, d)' = Three(received'[c][d], leaving'[c][d], OutOf(c, d)')
<1>1. received'[c][d] \in Seq(Unit) /\ leaving'[c][d] \in Seq(Unit) /\ out'[c] \in Seq(Unit)
  BY DEF Shape
<1>2. OutOf(c, d)' \in Seq(Unit)
  BY <1>1, MarksNone DEF OutOf
<1>3. Past(c, d)' = Marks(received'[c][d] \o leaving'[c][d] \o OutOf(c, d)')
  BY DEF Past, OutOf
<1>4. PICK x \in Seq(Unit), y \in Seq(Unit), z \in Seq(Unit) :
        x = received'[c][d] /\ y = leaving'[c][d] /\ z = OutOf(c, d)'
  BY <1>1, <1>2, Zenon
<1>5. Marks(x \o y \o z) = Three(x, y, z) /\ Three(x, y, z) \in Seq(Mark)
  BY ThreeMarks
<1> QED
  BY <1>2, <1>3, <1>4, <1>5, Zenon

LEMMA InwardNow ==
  ASSUME Shape, NEW c \in Conn, NEW d \in Direction
  PROVE  Inward(c, d) \in Seq(Mark)
<1>1. buf[c][d] \in Seq(Unit) /\ arriving[c][d] \in Seq(Unit) /\ KeySize[d] \in Nat
  BY ShapeAt, KeySizes
<1> QED
  BY <1>1, RestFacts, TwoType DEF Inward

(* What a step leaves alone: everything, *)
LEMMA SameStill ==
  ASSUME NEW c \in Conn, NEW d \in Direction, Same(c)
  PROVE  Still(c, d)
BY HandshakenSame DEF Same, Still, Past, Inward, Live

(* what was let through, *)
LEMMA PastSame ==
  ASSUME NEW c \in Conn, NEW d \in Direction, OutOf(c, d)' = OutOf(c, d),
         received'[c][d] = received[c][d], leaving'[c][d] = leaving[c][d]
  PROVE  Past(c, d)' = Past(c, d)
<1>1. Past(c, d) = Marks(received[c][d] \o leaving[c][d] \o OutOf(c, d))
  BY DEF Past, OutOf
<1>2. Past(c, d)' = Marks(received'[c][d] \o leaving'[c][d] \o OutOf(c, d)')
  BY DEF Past, OutOf
<1> QED
  BY <1>1, <1>2, Zenon

(* and what waits. *)
LEMMA InwardSame ==
  ASSUME NEW c \in Conn, NEW d \in Direction, Handshaken(c, d)' <=> Handshaken(c, d),
         buf'[c][d] = buf[c][d], arriving'[c][d] = arriving[c][d]
  PROVE  Inward(c, d)' = Inward(c, d)
BY DEF Inward

LEMMA EndTaskEnds ==
  ASSUME Shape, Shape', NEW c \in Conn, NEW d \in Direction,
         NEW how \in {"returned", "panicked"}, EndTask(c, how),
         UNCHANGED <<dir, sent, received, leaving>>
  PROVE  Ends(c, d)
<1>1. task'[c] = how /\ out'[c] = <<>>
  BY DEF Shape, EndTask
<1>2. OutOf(c, d)' = <<>>
  BY <1>1 DEF OutOf
<1>3. Past(c, d)' = Three(received[c][d], leaving[c][d], <<>>) /\ Past(c, d)' \in Seq(Mark)
  BY <1>2, PastThen
<1>4. /\ Past(c, d) = Three(received[c][d], leaving[c][d], OutOf(c, d))
      /\ OutOf(c, d) \in Seq(Unit)
  BY PastNow
<1>5. received[c][d] \in Seq(Unit) /\ leaving[c][d] \in Seq(Unit)
  BY ShapeAt
<1>6. Past(c, d) = Cat(Past(c, d)', Marks(OutOf(c, d)))
  BY <1>3, <1>4, <1>5, ThreeEnd
<1>7. Marks(OutOf(c, d)) \in Seq(Mark)
  BY <1>4, MarksType
<1>8. ~Live(c)'
  BY <1>1 DEF Live
<1> QED
  BY <1>3, <1>6, <1>7, <1>8 DEF Ends

(* serve_socks5 and a closing end touch nothing of it. *)
LEMMA QuietStill ==
  ASSUME Shape, NEW c \in Conn, NEW d \in Direction,
         \/ ReadCommand(c) \/ Connect(c) \/ \E f \in Direction : CloseEnd(c, f)
  PROVE  Still(c, d) \/ Ends(c, d)
<1>1. UNCHANGED <<dir, cipher_state, buf, out, sent, received, arriving, leaving>>
  BY DEF ReadCommand, Connect, CloseEnd, taskVars, endVars, wireVars
<1>2. OutOf(c, d)' = OutOf(c, d) /\ (Handshaken(c, d)' <=> Handshaken(c, d))
  BY <1>1 DEF OutOf, Handshaken
<1>3. Past(c, d)' = Past(c, d) /\ Inward(c, d)' = Inward(c, d) /\ sent'[c][d] = sent[c][d]
  BY <1>1, <1>2, PastSame, InwardSame
<1>4. Live(c)
  BY DEF Live, ReadCommand, Connect, CloseEnd
<1>5. CASE Live(c)'
  BY <1>2, <1>3, <1>4, <1>5 DEF Still
<1>6. CASE ~Live(c)'
  <2>1. Past(c, d) \in Seq(Mark)
    BY PastNow
  <2>2. <<>> \in Seq(Mark) /\ Past(c, d) = Cat(Past(c, d), <<>>)
    BY <2>1, CatNone, MarksNone
  <2>3. Past(c, d)' \in Seq(Mark) /\ Past(c, d) = Cat(Past(c, d)', <<>>)
    BY <1>3, <2>1, <2>2, Zenon
  <2> QED
    BY <1>3, <1>6, <2>2, <2>3 DEF Ends
<1> QED
  BY <1>5, <1>6

(* on_packet's loop is left: what was let through is encrypted. *)
LEMMA LeaveLoopStill ==
  ASSUME Shape, Shape', NEW c \in Conn, NEW d \in Direction, LeaveLoop(c)
  PROVE  Still(c, d)
<1>1. PICK e \in Direction, b \in Box, at \in Nat, o \in Seq(Unit) :
        e = dir[c] /\ b = OutBox(e) /\ at = mine[c][b] /\ o = out[c]
  <2>1. dir[c] \in Direction /\ out[c] \in Seq(Unit)
    BY ShapeAt
  <2>2. OutBox(dir[c]) \in Box /\ mine[c][OutBox(dir[c])] \in Nat
    BY <2>1, BoxFacts, ShapeAt
  <2> QED
    BY <2>1, <2>2, Zenon
<1>2. /\ out'[c] = Encrypt(o, b, at) /\ task[c] = "open"
      /\ UNCHANGED <<task, dir, cipher_state, buf, sent, received, arriving, leaving>>
  BY <1>1 DEF LeaveLoop, Shape, endVars, wireVars
<1>3. Marks(OutOf(c, d)') = Marks(OutOf(c, d))
  BY <1>1, <1>2, EncryptMarks DEF OutOf
<1>4. Past(c, d)' = Past(c, d)
  BY <1>2, <1>3, PastNow, PastThen DEF Three
<1>5. (Handshaken(c, d)' <=> Handshaken(c, d)) /\ (Live(c)' <=> Live(c))
  BY <1>2 DEF Handshaken, Live
<1>6. Inward(c, d)' = Inward(c, d)
  BY <1>2, <1>5, InwardSame
<1> QED
  BY <1>2, <1>4, <1>5, <1>6 DEF Still

(* write_all, piece by piece. *)
LEMMA WriteStill ==
  ASSUME Shape, Shape', NEW c \in Conn, NEW d \in Direction, Write(c)
  PROVE  Still(c, d)
<1>1. PICK e \in Direction, k \in 1 .. Len(out[c]) :
        /\ e = dir[c]
        /\ leaving' = [leaving EXCEPT ![c][e] = leaving[c][e] \o SubSeq(out[c], 1, k)]
        /\ out' = [out EXCEPT ![c] = SubSeq(out[c], k + 1, Len(out[c]))]
        /\ UNCHANGED <<task, dir, cipher_state, buf, mine, arriving, endVars>>
  BY WriteEffect
<1>2. UNCHANGED <<task, dir, cipher_state, buf, sent, received, arriving>>
  BY <1>1 DEF endVars
<1>3. (Handshaken(c, d)' <=> Handshaken(c, d)) /\ (Live(c)' <=> Live(c))
  BY <1>2 DEF Handshaken, Live
<1>4. Inward(c, d)' = Inward(c, d)
  BY <1>2, <1>3, InwardSame
<1>5. CASE d # e
  <2>1. OutOf(c, d)' = OutOf(c, d) /\ leaving'[c][d] = leaving[c][d]
    BY <1>1, <1>2, <1>5 DEF OutOf, Shape
  <2>2. Past(c, d)' = Past(c, d)
    BY <1>2, <2>1, PastSame
  <2> QED
    BY <1>2, <1>3, <1>4, <2>2 DEF Still
<1>6. CASE d = e
  <2>1. PICK r \in Seq(Unit), l \in Seq(Unit), o \in Seq(Unit) :
          r = received[c][d] /\ l = leaving[c][d] /\ o = out[c]
    BY ShapeAt
  <2>2. leaving'[c][d] = l \o SubSeq(o, 1, k)
    BY <1>1, <1>6, <2>1, SMTT(20) DEF Shape
  <2>3. OutOf(c, d)' = SubSeq(o, k + 1, Len(o)) /\ OutOf(c, d) = o
    <3>1. out'[c] = SubSeq(o, k + 1, Len(o))
      BY <1>1, <2>1 DEF Shape
    <3> QED
      BY <1>1, <1>2, <1>6, <2>1, <3>1 DEF OutOf
  <2>4. Past(c, d)' = Three(r, l \o SubSeq(o, 1, k), SubSeq(o, k + 1, Len(o)))
    BY <1>2, <2>1, <2>2, <2>3, PastThen, Zenon
  <2>5. k \in 0 .. Len(o)
    BY <2>1
  <2>6. Past(c, d) = Three(r, l, o)
    BY <2>1, <2>3, PastNow, Zenon
  <2>7. Past(c, d)' = Past(c, d)
    BY <2>4, <2>5, <2>6, ThreeWrite
  <2> QED
    BY <1>2, <1>3, <1>4, <2>7 DEF Still
<1> QED
  BY <1>5, <1>6

(* A sender's half of the handshake is nothing that waits to be cut out. *)
LEMMA GreetStill ==
  ASSUME Shape, Shape', NEW c \in Conn, NEW d \in Direction, NEW e \in Direction, Streams(c, d),
         Greet(c, e)
  PROVE  Still(c, d)
<1>1. /\ ~greeted[c][e] /\ task[c] = "open"
      /\ arriving' = [arriving EXCEPT ![c][e] = @ \o Parts(0, KeySize[e])]
      /\ UNCHANGED <<task, dir, cipher_state, buf, out, sent, received, leaving>>
  BY DEF Greet, taskVars
<1>2. OutOf(c, d)' = OutOf(c, d) /\ (Handshaken(c, d)' <=> Handshaken(c, d)) /\ (Live(c)' <=> Live(c))
  BY <1>1 DEF OutOf, Handshaken, Live
<1>3. Past(c, d)' = Past(c, d)
  BY <1>1, <1>2, PastSame
<1>4. Inward(c, d)' = Inward(c, d)
  <2>1. CASE d # e
    <3>1. arriving'[c][d] = arriving[c][d]
      BY <1>1, <2>1 DEF Shape
    <3> QED
      BY <1>1, <1>2, <3>1, InwardSame
  <2>2. CASE d = e
    <3>1. arriving[c][d] = <<>> /\ ~Handshaken(c, d)
      BY <1>1, <2>2 DEF Streams, ArrivingAligned
    <3>2. PICK K \in Nat, a \in Seq(Unit), b \in Seq(Unit) :
            K = KeySize[d] /\ a = Parts(0, K) /\ b = buf[c][d]
      BY KeySizes, PartsType, ShapeAt
    <3>3. arriving'[c][d] = <<>> \o a
      BY <1>1, <2>2, <3>1, <3>2 DEF Shape
    <3>4. <<>> \o a = a /\ Len(a) = K /\ <<>> \in Seq(Unit) /\ Len(<<>>) = 0
      BY <3>2, PartsType, MarksNone
    <3>5. Rest(a, K) = <<>> /\ Rest(<<>>, K) = <<>>
      <4>1. PICK z \in Seq(Unit) : z = <<>> /\ Len(z) = 0
        BY <3>4, Zenon
      <4>2. Len(a) <= K /\ Len(z) <= K
        BY <3>4, <4>1
      <4>3. (Len(a) <= K => Rest(a, K) = <<>>) /\ (Len(z) <= K => Rest(z, K) = <<>>)
        BY RestFacts
      <4> QED
        BY <4>1, <4>2, <4>3, Zenon
    <3>6. Inward(c, d) = Two(b, <<>>)
      BY <3>1, <3>2, <3>5, Zenon DEF Inward
    <3>7. buf'[c][d] = b /\ ~Handshaken(c, d)' /\ arriving'[c][d] = a
      BY <1>1, <1>2, <3>1, <3>2, <3>3, <3>4, Zenon
    <3>8. Inward(c, d)' = Two(b, <<>>)
      BY <3>2, <3>5, <3>7, Zenon DEF Inward
    <3> QED
      BY <3>6, <3>8
  <2> QED
    BY <2>1, <2>2
<1> QED
  BY <1>1, <1>2, <1>3, <1>4 DEF Still

(* A packet that is sent waits behind all others. *)
LEMMA SendSends ==
  ASSUME Shape, Shape', NEW c \in Conn, NEW d \in Direction, NEW e \in Direction, Streams(c, d),
         NEW p \in Kind, SendPacket(c, e, p)
  PROVE  Still(c, d) \/ Sends(c, d)
<1>1. /\ greeted[c][e] /\ task[c] = "open"
      /\ sent' = [sent EXCEPT ![c][e] = Append(@, p)]
      /\ arriving' = [arriving EXCEPT ![c][e] =
           @ \o Encrypt(Parts(Len(sent[c][e]) + 1, p.size), InBox(e), theirs[c][InBox(e)])]
      /\ UNCHANGED <<task, dir, cipher_state, buf, out, received, leaving>>
  BY DEF SendPacket, taskVars
<1>2. OutOf(c, d)' = OutOf(c, d) /\ (Handshaken(c, d)' <=> Handshaken(c, d)) /\ (Live(c)' <=> Live(c))
  BY <1>1 DEF OutOf, Handshaken, Live
<1>3. Past(c, d)' = Past(c, d)
  BY <1>1, <1>2, PastSame
<1>4. CASE d # e
  <2>1. arriving'[c][d] = arriving[c][d] /\ sent'[c][d] = sent[c][d]
    BY <1>1, <1>4 DEF Shape
  <2>2. Inward(c, d)' = Inward(c, d)
    BY <1>1, <1>2, <2>1, InwardSame
  <2> QED
    BY <1>2, <1>3, <2>1, <2>2 DEF Still
<1>5. CASE d = e
  <2>1. PICK n \in Nat, size \in Nat, box \in Box, at \in Nat :
          /\ n = Len(sent[c][d]) + 1 /\ size = p.size
          /\ box = InBox(d) /\ at = theirs[c][InBox(d)]
    <3>1. Len(sent[c][d]) + 1 \in Nat /\ InBox(d) \in Box /\ theirs[c][InBox(d)] \in Nat
      BY ShapeAt, BoxFacts
    <3> QED
      BY <3>1, KindSize
  <2>2. PICK x \in Seq(Unit), y \in Seq(Unit) : x = Parts(n, size) /\ y = Encrypt(x, box, at)
    BY PartsType, EncryptType
  <2>3. Marks(y) = Marks(x) /\ Marks(x) \in Seq(Mark) /\ Single(Marks(x), n, size)
    BY <2>2, EncryptMarks, PartsMarks
  <2>4. PICK a \in Seq(Unit), b \in Seq(Unit), K \in Nat :
          /\ a = arriving[c][d] /\ b = buf[c][d]
          /\ K = IF Handshaken(c, d) THEN 0 ELSE KeySize[d]
    BY ShapeAt, KeySizes
  <2>5. K <= Len(a)
    <3>1. theirs[c][InBox(d)] + K = mine[c][InBox(d)] + Len(a)
      BY <1>1, <1>5, <2>4 DEF Streams, ArrivingAligned
    <3>2. ~Handshaken(c, d) => mine[c][InBox(d)] = 0
      BY <1>1 DEF Streams, ArrivingAligned
    <3>3. theirs[c][InBox(d)] \in Nat /\ mine[c][InBox(d)] \in Nat
      BY ShapeAt
    <3>4. Handshaken(c, d) => K = 0
      BY <2>4
    <3> QED
      BY <3>1, <3>2, <3>3, <3>4
  <2>6. arriving'[c][d] = a \o y /\ buf'[c][d] = b
    <3>1. arriving'[c][d] =
            arriving[c][d] \o Encrypt(Parts(Len(sent[c][d]) + 1, p.size), InBox(d), theirs[c][InBox(d)])
      <4>1. PICK v : v = arriving[c][e]
                         \o Encrypt(Parts(Len(sent[c][e]) + 1, p.size), InBox(e), theirs[c][InBox(e)])
        OBVIOUS
      <4>2. arriving' = [arriving EXCEPT ![c][e] = v]
        BY <1>1, <4>1, Zenon
      <4>3. arriving \in [Conn -> [Direction -> Seq(Unit)]]
        BY DEF Shape
      <4>4. arriving'[c][e] = v
        BY <4>2, <4>3, Zenon
      <4> QED
        BY <1>5, <4>1, <4>4, Zenon
    <3>2. arriving'[c][d] = arriving[c][d] \o y
      BY <2>1, <2>2, <3>1, Zenon
    <3> QED
      BY <1>1, <2>4, <3>2
  <2>7. Inward(c, d) = Two(b, Rest(a, K))
    BY <2>4, Zenon DEF Inward
  <2>8. Inward(c, d)' = Two(b, Rest(a \o y, K))
    BY <1>2, <2>4, <2>6, Zenon DEF Inward
  <2>9. Rest(a, K) \in Seq(Unit) /\ Rest(a \o y, K) = Rest(a, K) \o y
    BY <2>5, RestFacts
  <2>10. Inward(c, d)' = Cat(Inward(c, d), Marks(x))
    BY <2>3, <2>7, <2>8, <2>9, TwoMore
  <2>11. sent'[c][d] = Append(sent[c][d], p)
    BY <1>1, <1>5 DEF Shape
  <2>12. Single(Marks(x), Len(sent[c][d]) + 1, p.size)
    BY <2>1, <2>3
  <2> QED
    BY <1>2, <1>3, <2>3, <2>10, <2>11, <2>12 DEF Sends
<1> QED
  BY <1>4, <1>5

(* A receiver has read nothing before it reads the whole handshake. *)
Begun(c, d) == HasGreeting(c, d) \/ received[c][d] = <<>>

(* What a receiver reads was let through before. *)
LEMMA ReceiveStill ==
  ASSUME Shape, Shape', NEW c \in Conn, NEW d \in Direction, NEW e \in Direction, Streams(c, d),
         Begun(c, d), Receive(c, e)
  PROVE  Still(c, d)
<1>1. UNCHANGED <<task, dir, cipher_state, buf, out, sent, arriving>>
  BY ReceiveCases DEF taskVars
<1>2. /\ OutOf(c, d)' = OutOf(c, d) /\ (Handshaken(c, d)' <=> Handshaken(c, d))
      /\ (Live(c)' <=> Live(c))
  BY <1>1 DEF OutOf, Handshaken, Live
<1>3. Inward(c, d)' = Inward(c, d)
  BY <1>1, <1>2, InwardSame
<1>4. CASE d # e
  <2>1. leaving'[c][d] = leaving[c][d] /\ received'[c][d] = received[c][d]
    BY <1>4, ReceiveEffect
  <2>2. Past(c, d)' = Past(c, d)
    BY <1>2, <2>1, PastSame
  <2> QED
    BY <1>1, <1>2, <1>3, <2>2 DEF Still
<1>5. CASE d = e
  <2>1. PICK r \in Seq(Unit), l \in Seq(Unit), o \in Seq(Unit), b \in Box, at \in Nat :
          /\ r = received[c][d] /\ l = leaving[c][d] /\ o = OutOf(c, d)
          /\ b = OutBox(d) /\ at = theirs[c][OutBox(d)]
    <3>1. /\ received[c][d] \in Seq(Unit) /\ leaving[c][d] \in Seq(Unit) /\ OutOf(c, d) \in Seq(Unit)
          /\ OutBox(d) \in Box /\ theirs[c][OutBox(d)] \in Nat
      BY ShapeAt, BoxFacts, PastNow
    <3> QED
      BY <3>1, Zenon
  <2>2. Past(c, d) = Three(r, l, o)
    BY <2>1, PastNow, Zenon
  <2>3. Past(c, d)' = Three(received'[c][d], leaving'[c][d], o)
    BY <1>2, <2>1, PastThen, Zenon
  <2>4. CASE ~HasGreeting(c, d)
    <3>1. PICK K \in 0 .. Len(l) :
            /\ received'[c][d] = SubSeq(l, 1, K)
            /\ leaving'[c][d] = SubSeq(l, K + 1, Len(l))
      BY <1>5, <2>1, <2>4, ReceiveEffect
    <3>2. r = <<>>
      BY <2>1, <2>4 DEF Begun
    <3>3. Three(SubSeq(l, 1, K), SubSeq(l, K + 1, Len(l)), o) = Three(<<>>, l, o)
      BY ThreeGreet
    <3>4. Past(c, d)' = Past(c, d)
      BY <2>2, <2>3, <3>1, <3>2, <3>3, Zenon
    <3> QED
      BY <1>1, <1>2, <1>3, <3>4 DEF Still
  <2>5. CASE HasGreeting(c, d)
    <3>1. received'[c][d] = r \o Decrypt(l, b, at) /\ leaving'[c][d] = <<>>
      BY <1>5, <2>1, <2>5, ReceiveEffect
    <3>2. PICK x \in Seq(Unit) : x = Decrypt(l, b, at)
      BY DecryptType
    <3>3. Queue(l, b, at, 0, 0)
      BY <2>1, <2>5 DEF Streams, LeavingAligned
    <3>4. \A k \in 1 .. Len(l) : l[k].box = b /\ l[k].at = at + k
      <4>1. \A k \in 1 .. Len(l) : 0 + k > 0 /\ at + (0 + k) - 0 = at + k
        OBVIOUS
      <4> QED
        BY <3>3, <4>1 DEF Queue
    <3>5. Marks(x) = Marks(l)
      BY <3>2, <3>4, DecryptMarks
    <3>6. Three(r \o x, <<>>, o) = Three(r, l, o)
      BY <3>5, ThreeRead
    <3>7. Past(c, d)' = Past(c, d)
      BY <2>2, <2>3, <3>1, <3>2, <3>6, Zenon
    <3> QED
      BY <1>1, <1>2, <1>3, <3>7 DEF Still
  <2> QED
    BY <2>4, <2>5
<1> QED
  BY <1>4, <1>5

(* A read of a handshake is answered with one. *)
LEMMA ReadHandshakeGreets ==
  ASSUME Shape, Shape', NEW c \in Conn, NEW d \in Direction, NEW e \in Direction,
         NEW k \in 1 .. Len(arriving[c][e]), Streams(c, d),
         Selecting(c), Unread(c, e, k), UNCHANGED <<leaving, endVars>>, ReadHandshake(c, e, k)
  PROVE  Still(c, d) \/ Greets(c, d)
<1>1. /\ task[c] = "open" /\ step[c] = "select"
      /\ UNCHANGED <<leaving, theirs, greeted, sent, received>>
      /\ arriving'[c][e] = SubSeq(arriving[c][e], k + 1, Len(arriving[c][e]))
      /\ \A f \in Direction : f # e => arriving'[c][f] = arriving[c][f]
  BY ReadFrame
<1>2. /\ cipher_state[c] = IF e = "up" THEN "Uninit" ELSE "ClientHandshakeReceived"
      /\ cipher_state'[c] = IF e = "up" THEN "ClientHandshakeReceived" ELSE "EncryptedChannel"
      /\ k = KeySize[e]
      /\ out'[c] = Parts(0, KeySize[e]) /\ dir'[c] = e
      /\ UNCHANGED <<task, drop_packets, buf, mine>>
  BY DEF ReadHandshake, IsHandshake, Keyed, Shape
<1>3. out[c] = <<>> /\ OutOf(c, d) = <<>> /\ (Live(c)' <=> Live(c)) /\ Live(c)
  BY <1>1, <1>2 DEF Streams, OutOf, Live
<1>4. CASE d # e
  <2>1. OutOf(c, d)' = OutOf(c, d)
    BY <1>2, <1>3, <1>4 DEF OutOf
  <2>2. Handshaken(c, d)' <=> Handshaken(c, d)
    BY <1>2, <1>4 DEF Handshaken, Direction
  <2>3. Past(c, d)' = Past(c, d) /\ Inward(c, d)' = Inward(c, d)
    BY <1>1, <1>2, <1>4, <2>1, <2>2, PastSame, InwardSame
  <2> QED
    BY <1>1, <1>3, <2>2, <2>3 DEF Still
<1>5. CASE d = e
  <2>1. ~Handshaken(c, d) /\ Handshaken(c, d)'
    BY <1>2, <1>5 DEF Handshaken
  <2>2. PICK K \in Nat, r \in Seq(Unit), l \in Seq(Unit), b \in Seq(Unit), a \in Seq(Unit),
             x \in Seq(Unit) :
          /\ K = KeySize[d] /\ r = received[c][d] /\ l = leaving[c][d] /\ b = buf[c][d]
          /\ a = arriving[c][d] /\ x = Parts(0, K)
    <3>1. KeySize[d] \in Nat /\ Parts(0, KeySize[d]) \in Seq(Unit)
      BY KeySizes, PartsType
    <3>2. /\ received[c][d] \in Seq(Unit) /\ leaving[c][d] \in Seq(Unit)
          /\ buf[c][d] \in Seq(Unit) /\ arriving[c][d] \in Seq(Unit)
      BY ShapeAt
    <3> QED
      BY <3>1, <3>2, Zenon
  <2>3. Inward(c, d) = Two(b, Rest(a, K))
    BY <2>1, <2>2, Zenon DEF Inward
  <2>4. Rest(a, K) = SubSeq(a, K + 1, Len(a)) /\ Rest(a, K) \in Seq(Unit)
    BY RestFacts DEF Rest
  <2>5. Rest(Rest(a, K), 0) = Rest(a, K)
    <3>1. 0 \in Nat
      OBVIOUS
    <3> QED
      BY <2>4, <3>1, RestFacts
  <2>6. arriving'[c][d] = Rest(a, K) /\ buf'[c][d] = b
    BY <1>1, <1>2, <1>5, <2>2, <2>4, Zenon
  <2>7. Inward(c, d)' = Inward(c, d)
    BY <2>1, <2>3, <2>5, <2>6, Zenon DEF Inward
  <2>8. OutOf(c, d)' = x
    BY <1>2, <1>5, <2>2 DEF OutOf
  <2>9. Past(c, d) = Three(r, l, <<>>) /\ Past(c, d)' = Three(r, l, x)
    BY <1>1, <1>3, <2>2, <2>8, PastNow, PastThen, Zenon
  <2>10. Three(r, l, <<>> \o x) = Cat(Three(r, l, <<>>), Marks(x))
    <3>1. PICK z \in Seq(Unit) : z = <<>>
      BY MarksNone
    <3>2. Three(r, l, z \o x) = Cat(Three(r, l, z), Marks(x))
      BY ThreeMore
    <3> QED
      BY <3>1, <3>2, Zenon
  <2>11. <<>> \o x = x
    OBVIOUS
  <2>12. Past(c, d)' = Cat(Past(c, d), Marks(x))
    BY <2>9, <2>10, <2>11, Zenon
  <2>13. Marks(x) \in Seq(Mark) /\ Single(Marks(x), 0, KeySize[d])
    <3>1. 0 \in Nat
      OBVIOUS
    <3> QED
      BY <2>2, <3>1, PartsMarks
  <2> QED
    BY <1>1, <1>2, <1>3, <2>1, <2>7, <2>12, <2>13 DEF Greets
<1> QED
  BY <1>4, <1>5

(* A read in EncryptedChannel moves what waits from the wire to the buffer. *)
LEMMA ReadPacketsStill ==
  ASSUME Shape, Shape', NEW c \in Conn, NEW d \in Direction, NEW e \in Direction,
         NEW k \in 1 .. Len(arriving[c][e]), Streams(c, d),
         Selecting(c), Unread(c, e, k), UNCHANGED <<leaving, endVars>>, ReadPackets(c, e, k)
  PROVE  Still(c, d)
<1>1. /\ task[c] = "open" /\ step[c] = "select"
      /\ UNCHANGED <<leaving, theirs, greeted, sent, received>>
      /\ arriving'[c][e] = SubSeq(arriving[c][e], k + 1, Len(arriving[c][e]))
      /\ \A f \in Direction : f # e => arriving'[c][f] = arriving[c][f]
  BY ReadFrame
<1>2. /\ cipher_state[c] = "EncryptedChannel"
      /\ buf' = [buf EXCEPT ![c][e] =
           buf[c][e] \o Decrypt(SubSeq(arriving[c][e], 1, k), InBox(e), mine[c][InBox(e)])]
      /\ UNCHANGED <<task, cipher_state, out>>
  BY DEF ReadPackets, Shape
<1>3. OutOf(c, d) = <<>> /\ OutOf(c, d)' = <<>> /\ (Live(c)' <=> Live(c))
  BY <1>1, <1>2 DEF Streams, OutOf, Live
<1>4. Past(c, d)' = Past(c, d)
  BY <1>1, <1>3, PastSame
<1>5. Handshaken(c, d) /\ Handshaken(c, d)'
  BY <1>2 DEF Handshaken
<1>6. CASE d # e
  <2>1. buf'[c][d] = buf[c][d]
    BY <1>2, <1>6 DEF Shape
  <2>2. Inward(c, d)' = Inward(c, d)
    BY <1>1, <1>5, <1>6, <2>1, InwardSame
  <2> QED
    BY <1>1, <1>3, <1>4, <1>5, <2>2 DEF Still
<1>7. CASE d = e
  <2>1. PICK b \in Seq(Unit), a \in Seq(Unit), box \in Box, at \in Nat, n \in Nat :
          /\ b = buf[c][d] /\ a = arriving[c][d] /\ box = InBox(d) /\ at = mine[c][InBox(d)]
          /\ n = Len(sent[c][d])
    <3>1. /\ buf[c][d] \in Seq(Unit) /\ arriving[c][d] \in Seq(Unit) /\ InBox(d) \in Box
          /\ mine[c][InBox(d)] \in Nat /\ Len(sent[c][d]) \in Nat
      BY ShapeAt, BoxFacts
    <3> QED
      BY <3>1, Zenon
  <2>2. k \in 0 .. Len(a) /\ k \in Nat
    BY <1>7, <2>1
  <2>3. PICK s \in Seq(Unit) : s = SubSeq(a, 1, k) /\ Len(s) = k /\ \A m \in 1 .. k : s[m] = a[m]
    BY <2>2, CutType
  <2>4. \A m \in 1 .. Len(s) : s[m].box = box /\ s[m].at = at + m
    <3>1. ArrivingAligned(c, d) /\ greeted[c][d]
      BY <1>1, <1>7 DEF Streams, ArrivingAligned
    <3>2. Steps(a, 0, box, at, n)
      BY <1>5, <2>1, <3>1 DEF ArrivingAligned
    <3>3. \A m \in 1 .. k : m \in 0 + 1 .. Len(a) /\ at + m - 0 = at + m
      BY <2>2
    <3>4. \A m \in 1 .. k : a[m].box = box /\ a[m].at = at + m
      BY <3>2, <3>3 DEF Steps
    <3> QED
      BY <2>3, <3>4
  <2>5. PICK x \in Seq(Unit) : x = Decrypt(s, box, at)
    BY DecryptType
  <2>6. Marks(x) = Marks(SubSeq(a, 1, k))
    BY <2>3, <2>4, <2>5, DecryptMarks
  <2>7. Two(b \o x, SubSeq(a, k + 1, Len(a))) = Two(b, a)
    BY <2>2, <2>6, TwoRead
  <2>8. SubSeq(a, k + 1, Len(a)) \in Seq(Unit)
    BY <2>2, CutType
  <2>9. /\ Rest(a, 0) = a
        /\ Rest(SubSeq(a, k + 1, Len(a)), 0) = SubSeq(a, k + 1, Len(a))
    <3>1. 0 \in Nat
      OBVIOUS
    <3> QED
      BY <2>8, <3>1, RestFacts
  <2>10. buf'[c][d] = b \o x /\ arriving'[c][d] = SubSeq(a, k + 1, Len(a))
    <3>1. buf'[c][d] = buf[c][d] \o x
      <4>1. x = Decrypt(SubSeq(arriving[c][e], 1, k), InBox(e), mine[c][InBox(e)])
        BY <1>7, <2>1, <2>3, <2>5, Zenon
      <4>2. buf' = [buf EXCEPT ![c][e] = buf[c][e] \o x]
        BY <1>2, <4>1, Zenon
      <4> QED
        BY <1>7, <4>2 DEF Shape
    <3> QED
      BY <1>1, <1>7, <2>1, <3>1, Zenon
  <2>11. Inward(c, d) = Two(b, Rest(a, 0))
    BY <1>5, <2>1, Zenon DEF Inward
  <2>12. Inward(c, d)' = Two(b \o x, Rest(SubSeq(a, k + 1, Len(a)), 0))
    BY <1>5, <2>10, Zenon DEF Inward
  <2>13. Inward(c, d)' = Inward(c, d)
    BY <2>7, <2>9, <2>11, <2>12, Zenon
  <2> QED
    BY <1>1, <1>3, <1>4, <1>5, <2>13 DEF Still
<1> QED
  BY <1>6, <1>7

(* on_packet cuts a packet out of the buffer, lets it through or not, and says
   so to the window. *)
LEMMA TakePacketTakes ==
  ASSUME KeysAligned, Shape', drop_packets \in [Conn -> BOOLEAN],
         NEW c \in Conn, NEW d \in Direction, TakePacket(c)
  PROVE  \/ d # dir[c] /\ Still(c, d)
         \/ /\ d = dir[c]
            /\ \E e \in Event : /\ e.conn = c /\ e.dir = d /\ Takes(c, d, e.n, e.dropped)
                                /\ TrySend(e)
                                /\ drop_packets'[c] => e.dropped
                                /\ ~e.dropped => Unlisted(sent[c][d][e.n])
<1>1. PICK f \in Direction : f = dir[c]
  BY ShapeAt, Zenon DEF KeysAligned, Direction
<1>2. Shape /\ Streams(c, f) /\ Streams(c, d) /\ PacketArrived(c, f)
  BY <1>1, ZenonT(30) DEF KeysAligned, TakePacket
<1>3. /\ task[c] = "open" /\ step[c] = "packets" /\ cipher_state[c] = "EncryptedChannel"
      /\ UNCHANGED <<task, dir, cipher_state, sent, received, arriving, leaving>>
  BY <1>1, <1>2, Zenon DEF TakePacket, endVars, wireVars, Streams, Plaintext
<1>4. PICK b \in Seq(Unit), a \in Seq(Unit), r \in Seq(Unit), l \in Seq(Unit), o \in Seq(Unit) :
        /\ b = buf[c][f] /\ a = arriving[c][f] /\ r = received[c][f] /\ l = leaving[c][f]
        /\ o = out[c]
  BY <1>2, ShapeAt
<1>5. b # <<>> /\ Len(b) >= 1
  BY <1>2, <1>4 DEF PacketArrived
<1>6. PICK n \in Nat : n = b[1].n /\ n \in 1 .. Len(sent[c][f])
  <2>1. b[1].n \in 1 .. Len(sent[c][f])
    BY <1>2, <1>4, <1>5 DEF Streams, Plaintext, OfPacket
  <2> QED
    BY <2>1
<1>7. PICK p \in Kind, size \in 0 .. Len(b) :
        p = PacketOf(c, f, b[1]) /\ p = sent[c][f][n] /\ size = p.size
  <2>1. PacketOf(c, f, b[1]) \in Kind /\ PacketOf(c, f, b[1]).size \in 0 .. Len(b)
    BY <1>2, <1>4, BufferedPacket DEF Streams
  <2> QED
    BY <1>6, <2>1 DEF PacketOf
<1>8. PICK stopped \in BOOLEAN, dropped \in BOOLEAN :
        /\ stopped = (drop_packets[c] \/ p.type \in STOP)
        /\ dropped = Dropped(p, stopped)
  BY DEF Dropped
<1>9. PICK x \in Seq(Unit), y \in Seq(Unit) :
        x = SubSeq(b, 1, size) /\ y = SubSeq(b, size + 1, Len(b)) /\ Len(x) = size
  BY CutType, ZenonT(30)
<1>10. /\ drop_packets' = [drop_packets EXCEPT ![c] = stopped]
       /\ buf' = [buf EXCEPT ![c][f] = y]
       /\ out' = IF dropped THEN out ELSE [out EXCEPT ![c] = o \o x]
       /\ TrySend([conn |-> c, dir |-> f, n |-> n, id |-> p.shown, dropped |-> dropped])
  <2>1. /\ drop_packets' = [drop_packets EXCEPT ![c] = stopped]
        /\ buf' = [buf EXCEPT ![c][f] = SubSeq(@, p.size + 1, Len(@))]
        /\ Forward(c, SubSeq(buf[c][f], 1, p.size), dropped)
        /\ TrySend([conn |-> c, dir |-> f, n |-> n, id |-> p.shown, dropped |-> dropped])
    BY <1>1, <1>4, <1>6, <1>7, <1>8, Zenon DEF TakePacket
  <2> QED
    BY <1>2, <1>4, <1>7, <1>9, <2>1, Zenon DEF Forward, Shape
<1>11. /\ (Handshaken(c, d)' <=> Handshaken(c, d)) /\ (Live(c)' <=> Live(c))
       /\ Live(c) /\ Handshaken(c, d)
  BY <1>3 DEF Handshaken, Live
<1>12. CASE d # f
  <2>1. OutOf(c, d)' = OutOf(c, d) /\ buf'[c][d] = buf[c][d]
    BY <1>1, <1>2, <1>3, <1>10, <1>12 DEF OutOf, Shape
  <2>2. Past(c, d)' = Past(c, d) /\ Inward(c, d)' = Inward(c, d)
    BY <1>3, <1>11, <2>1, PastSame, InwardSame
  <2> QED
    BY <1>1, <1>3, <1>11, <1>12, <2>2 DEF Still
<1>13. CASE d = f
  <2> DEFINE e == [conn |-> c, dir |-> f, n |-> n, id |-> p.shown, dropped |-> dropped]
  <2>1. e \in Event
    <3>1. p.shown \in Id
      BY MitmAssumption
    <3> QED
      BY <3>1 DEF Event
  <2>2. drop_packets'[c] => e.dropped
    <3>1. drop_packets'[c] = stopped
      BY <1>10
    <3>2. stopped => dropped
      BY <1>8 DEF Dropped
    <3> QED
      BY <3>1, <3>2
  <2>3. Past(c, d)' = IF dropped THEN Past(c, d) ELSE Cat(Past(c, d), Marks(x))
    <3>1. OutOf(c, d) = o /\ OutOf(c, d)' = IF dropped THEN o ELSE o \o x
      BY <1>1, <1>2, <1>3, <1>4, <1>10, <1>13 DEF OutOf, Shape
    <3>2. Past(c, d) = Three(r, l, o)
      BY <1>2, <1>4, <1>13, <3>1, PastNow, Zenon
    <3>3. Past(c, d)' = Three(r, l, IF dropped THEN o ELSE o \o x)
      BY <1>3, <1>4, <1>13, <3>1, PastThen, Zenon
    <3>4. Three(r, l, o \o x) = Cat(Three(r, l, o), Marks(x))
      BY ThreeMore
    <3> QED
      BY <3>2, <3>3, <3>4, Zenon
  <2>4. Inward(c, d) = Cat(Marks(x), Two(y, a)) /\ Inward(c, d)' = Two(y, a)
    <3>1. Rest(a, 0) = a
      <4>1. 0 \in Nat
        OBVIOUS
      <4> QED
        BY <4>1, RestFacts
    <3>2. buf'[c][d] = y
      BY <1>2, <1>10, <1>13 DEF Shape
    <3>3. Inward(c, d) = Two(b, a)
      BY <1>4, <1>11, <1>13, <3>1, Zenon DEF Inward
    <3>4. Inward(c, d)' = Two(y, a)
      BY <1>3, <1>4, <1>11, <1>13, <3>1, <3>2, Zenon DEF Inward
    <3>5. Two(b, a) = Cat(Marks(x), Two(y, a))
      BY <1>9, TwoTake
    <3> QED
      BY <3>3, <3>4, <3>5, Zenon
  <2>5. Marks(x) \in Seq(Mark) /\ Len(Marks(x)) = sent[c][d][n].size /\ Two(y, a) \in Seq(Mark)
    BY <1>7, <1>9, <1>13, MarksType, TwoType
  <2>6. Inward(c, d)[1].n = n
    <3>1. PICK u \in Seq(Mark), v \in Seq(Mark) : u = Marks(b) /\ v = Marks(a)
      BY MarksType
    <3>2. Len(u) = Len(b) /\ u[1].n = n
      BY <1>5, <1>6, <3>1, MarksType
    <3>3. 1 \in 1 .. Len(u)
      BY <1>5, <3>2
    <3>4. Cat(u, v)[1] = u[1]
      BY <3>3, CatType
    <3>5. Rest(a, 0) = a
      <4>1. 0 \in Nat
        OBVIOUS
      <4> QED
        BY <4>1, RestFacts
    <3>6. Inward(c, d) = Cat(u, v)
      BY <1>4, <1>11, <1>13, <3>1, <3>5, Zenon DEF Inward, Two
    <3> QED
      BY <3>2, <3>4, <3>6
  <2>7. Takes(c, d, n, dropped)
    BY <1>3, <1>6, <1>11, <1>13, <2>3, <2>4, <2>5, <2>6 DEF Takes
  <2>8. e.conn = c /\ e.dir = d /\ Takes(c, d, e.n, e.dropped) /\ TrySend(e)
    BY <1>10, <1>13, <2>7
  <2>9. ~e.dropped => Unlisted(sent[c][d][e.n])
    <3>1. ~dropped => Unlisted(p)
      BY <1>8 DEF Dropped, Unlisted
    <3>2. sent[c][d][n] = p
      BY <1>7, <1>13
    <3> QED
      BY <3>1, <3>2
  <2> HIDE DEF e
  <2> QED
    BY <1>1, <1>13, <2>1, <2>2, <2>8, <2>9
<1> QED
  BY <1>12, <1>13

-----------------------------------------------------------------------------
(* The handshake and what is decrypted reach a receiver in clear. *)
Plain(byte) == byte.box = "none" /\ byte.at = 0

LEMMA ClearPlain == \A n \in Nat, part \in Nat : Plain(Clear(n, part))
BY DEF Plain, Clear

PlainFrom(s, from, key) == \A k \in 1 .. Len(s) : from + k <= key => Plain(s[k])

Opening(c, d) ==
  /\ Begun(c, d)
  /\ \A k \in 1 .. Len(received[c][d]) : Plain(received[c][d][k])
  /\ ~HasGreeting(c, d) =>
       /\ PlainFrom(leaving[c][d], 0, KeySize[d])
       /\ Writing(c, d) => PlainFrom(out[c], Len(leaving[c][d]), KeySize[d])

LEMMA OpeningFrame ==
  ASSUME NEW c \in Conn, NEW d \in Direction, Opening(c, d),
         received'[c][d] = received[c][d], leaving'[c][d] = leaving[c][d],
         Writing(c, d)' => Writing(c, d) /\ out'[c] = out[c]
  PROVE  Opening(c, d)'
BY DEF Opening, Begun, HasGreeting

LEMMA DecryptPlain ==
  ASSUME NEW data \in Seq(Unit), NEW box \in Box, NEW at \in Nat
  PROVE  \A k \in 1 .. Len(data) : Plain(Decrypt(data, box, at)[k])
<1>1. \A n, part : Plain(Clear(n, part))
  BY DEF Plain, Clear
<1>2. DOMAIN data = 1 .. Len(data)
  OBVIOUS
<1>3. \A k \in 1 .. Len(data) :
        Decrypt(data, box, at)[k] = IF data[k].box = box /\ data[k].at = at + k
                                      THEN Clear(data[k].n, data[k].part) ELSE Clear(0, 0)
  BY <1>2 DEF Decrypt, Garbage
<1> QED
  BY <1>1, <1>3, Zenon

(* A piece of what is written moves to the wire. *)
LEMMA PlainWrite ==
  ASSUME NEW l \in Seq(Unit), NEW o \in Seq(Unit), NEW k \in 0 .. Len(o), NEW K \in Nat,
         PlainFrom(l, 0, K), PlainFrom(o, Len(l), K)
  PROVE  /\ PlainFrom(l \o SubSeq(o, 1, k), 0, K)
         /\ PlainFrom(SubSeq(o, k + 1, Len(o)), Len(l \o SubSeq(o, 1, k)), K)
<1>1. PICK x \in Seq(Unit), y \in Seq(Unit) :
        /\ x = SubSeq(o, 1, k) /\ y = SubSeq(o, k + 1, Len(o))
        /\ Len(x) = k /\ Len(y) = Len(o) - k
        /\ \A m \in 1 .. k : x[m] = o[m]
        /\ \A m \in 1 .. Len(o) - k : y[m] = o[k + m]
  BY CutType
<1>2. PICK j \in Seq(Unit) :
        /\ j = l \o x /\ Len(j) = Len(l) + k
        /\ \A m \in 1 .. Len(l) : j[m] = l[m]
        /\ \A m \in 1 .. k : j[Len(l) + m] = x[m]
  <2>1. /\ l \o x \in Seq(Unit) /\ Len(l \o x) = Len(l) + Len(x)
        /\ \A m \in 1 .. Len(l) : (l \o x)[m] = l[m]
        /\ \A m \in 1 .. Len(x) : (l \o x)[Len(l) + m] = x[m]
    BY JoinType
  <2>2. Len(x) = k
    BY <1>1
  <2> QED
    BY <2>1, <2>2, Zenon
<1>3. PlainFrom(j, 0, K)
  <2> SUFFICES ASSUME NEW m \in 1 .. Len(j), 0 + m <= K PROVE Plain(j[m])
    BY DEF PlainFrom
  <2>1. CASE m \in 1 .. Len(l)
    BY <1>2, <2>1 DEF PlainFrom
  <2>2. CASE m \notin 1 .. Len(l)
    <3>1. PICK i \in 1 .. k : m = Len(l) + i
      <4>1. m - Len(l) \in 1 .. k /\ m = Len(l) + (m - Len(l))
        BY <1>2, <2>2
      <4> QED
        BY <4>1
    <3>2. i \in 1 .. Len(o) /\ Len(l) + i <= K /\ j[m] = o[i]
      BY <1>1, <1>2, <3>1
    <3> QED
      BY <3>2 DEF PlainFrom
  <2> QED
    BY <2>1, <2>2
<1>4. PlainFrom(y, Len(j), K)
  <2> SUFFICES ASSUME NEW m \in 1 .. Len(y), Len(j) + m <= K PROVE Plain(y[m])
    BY DEF PlainFrom
  <2>1. PICK i \in 1 .. Len(o) : i = k + m
    <3>1. k + m \in 1 .. Len(o)
      BY <1>1
    <3> QED
      BY <3>1
  <2>2. Len(l) + i <= K /\ y[m] = o[i]
    BY <1>1, <1>2, <2>1
  <2> QED
    BY <2>2 DEF PlainFrom
<1> QED
  BY <1>1, <1>2, <1>3, <1>4

LEMMA WriteOpening ==
  ASSUME Shape, NEW c \in Conn, NEW d \in Direction, Opening(c, d), Write(c)
  PROVE  Opening(c, d)'
<1>1. PICK e \in Direction, k \in 1 .. Len(out[c]) :
        /\ e = dir[c] /\ step[c] = "write"
        /\ leaving' = [leaving EXCEPT ![c][e] = leaving[c][e] \o SubSeq(out[c], 1, k)]
        /\ out' = [out EXCEPT ![c] = SubSeq(out[c], k + 1, Len(out[c]))]
        /\ UNCHANGED <<task, dir, cipher_state, buf, mine, arriving, endVars>>
  BY WriteEffect
<1>2. UNCHANGED <<dir, received>>
  BY <1>1 DEF endVars
<1>3. CASE d # e
  <2>1. leaving'[c][d] = leaving[c][d] /\ ~Writing(c, d)'
    BY <1>1, <1>2, <1>3 DEF Shape, Writing
  <2> QED
    BY <1>2, <2>1, OpeningFrame
<1>4. CASE d = e
  <2>1. PICK l \in Seq(Unit), o \in Seq(Unit), K \in Nat :
          l = leaving[c][d] /\ o = out[c] /\ K = KeySize[d]
    BY ShapeAt, KeySizes
  <2>2. leaving'[c][d] = l \o SubSeq(o, 1, k) /\ out'[c] = SubSeq(o, k + 1, Len(o))
    BY <1>1, <1>4, <2>1 DEF Shape
  <2>3. ASSUME ~HasGreeting(c, d)'
        PROVE  PlainFrom(leaving'[c][d], 0, K) /\ PlainFrom(out'[c], Len(leaving'[c][d]), K)
    <3>1. ~HasGreeting(c, d)
      BY <1>2, <2>3 DEF HasGreeting
    <3>2. Writing(c, d)
      BY <1>1, <1>4 DEF Writing
    <3>3. PlainFrom(l, 0, K) /\ PlainFrom(o, Len(l), K)
      BY <2>1, <3>1, <3>2 DEF Opening
    <3>4. k \in 0 .. Len(o)
      BY <2>1
    <3> QED
      BY <2>2, <3>3, <3>4, PlainWrite
  <2> QED
    BY <1>2, <2>1, <2>3 DEF Opening, Begun, HasGreeting
<1> QED
  BY <1>3, <1>4

LEMMA LeaveLoopOpening ==
  ASSUME Shape, NEW c \in Conn, NEW d \in Direction, Opening(c, d), Streams(c, d), LeaveLoop(c)
  PROVE  Opening(c, d)'
<1>1. /\ task[c] = "open" /\ step[c] = "packets"
      /\ UNCHANGED <<dir, cipher_state, received, leaving>>
  BY DEF LeaveLoop, endVars, wireVars
<1>2. CASE d # dir[c]
  <2>1. ~Writing(c, d)'
    BY <1>1, <1>2 DEF Writing
  <2> QED
    BY <1>1, <2>1, OpeningFrame
<1>3. CASE d = dir[c]
  <2>1. ASSUME ~HasGreeting(c, d)' PROVE KeySize[d] <= Len(leaving[c][d])
    <3>1. ~HasGreeting(c, d) /\ ~Writing(c, d) /\ Handshaken(c, d)
      BY <1>1, <1>3, <2>1 DEF HasGreeting, Writing, Streams, Plaintext, Handshaken
    <3>2. /\ theirs[c][OutBox(d)] = 0
          /\ mine[c][OutBox(d)] + KeySize[d] = theirs[c][OutBox(d)] + Len(leaving[c][d]) + 0
      BY <1>1, <3>1 DEF Streams, LeavingAligned
    <3>3. mine[c][OutBox(d)] \in Nat /\ KeySize[d] \in Nat /\ Len(leaving[c][d]) \in Nat
      BY ShapeAt, KeySizes
    <3> QED
      BY <3>2, <3>3
  <2>2. PICK K \in Nat, L \in Nat : K = KeySize[d] /\ L = Len(leaving[c][d])
    <3>1. KeySize[d] \in Nat /\ Len(leaving[c][d]) \in Nat
      BY ShapeAt, KeySizes
    <3> QED
      BY <3>1
  <2>3. ASSUME ~HasGreeting(c, d)' PROVE PlainFrom(out'[c], Len(leaving'[c][d]), KeySize[d])
    <3>1. \A k \in 1 .. Len(out'[c]) : ~(L + k <= K)
      BY <2>1, <2>2, <2>3
    <3> QED
      BY <1>1, <2>2, <3>1 DEF PlainFrom
  <2>4. (~HasGreeting(c, d))' => ~HasGreeting(c, d)
    BY <1>1 DEF HasGreeting
  <2> QED
    BY <1>1, <2>3, <2>4 DEF Opening, Begun, HasGreeting
<1> QED
  BY <1>2, <1>3

LEMMA ReceiveOpening ==
  ASSUME Shape, NEW c \in Conn, NEW d \in Direction, NEW e \in Direction, Opening(c, d), Receive(c, e)
  PROVE  Opening(c, d)'
<1>1. UNCHANGED <<step, dir, out>>
  BY ReceiveCases DEF taskVars
<1>2. CASE d # e
  <2>1. leaving'[c][d] = leaving[c][d] /\ received'[c][d] = received[c][d]
    BY <1>2, ReceiveEffect
  <2> QED
    BY <1>1, <2>1, OpeningFrame DEF Writing
<1>3. CASE d = e
  <2>1. PICK r \in Seq(Unit), l \in Seq(Unit), b \in Box, at \in Nat, K \in Nat :
          /\ r = received[c][d] /\ l = leaving[c][d] /\ K = KeySize[d]
          /\ b = OutBox(d) /\ at = theirs[c][OutBox(d)]
    <3>1. /\ received[c][d] \in Seq(Unit) /\ leaving[c][d] \in Seq(Unit) /\ KeySize[d] \in Nat
          /\ OutBox(d) \in Box /\ theirs[c][OutBox(d)] \in Nat
      BY ShapeAt, BoxFacts, KeySizes
    <3> QED
      BY <3>1, Zenon
  <2>2. CASE ~HasGreeting(c, d)
    <3>1. received'[c][d] = SubSeq(l, 1, K) /\ K \in 0 .. Len(l)
      BY <1>3, <2>1, <2>2, ReceiveEffect
    <3>2. PICK x \in Seq(Unit) : x = SubSeq(l, 1, K) /\ Len(x) = K /\ \A m \in 1 .. K : x[m] = l[m]
      BY <3>1, CutType
    <3>3. PlainFrom(l, 0, K)
      BY <2>1, <2>2 DEF Opening
    <3>4. \A k \in 1 .. Len(x) : Plain(x[k])
      <4>1. \A k \in 1 .. K : k \in 1 .. Len(l) /\ 0 + k <= K
        BY <3>1
      <4> QED
        BY <3>2, <3>3, <4>1 DEF PlainFrom
    <3>5. received'[c][d] = x /\ Len(x) >= KeySize[d]
      BY <2>1, <3>1, <3>2
    <3> QED
      BY <3>4, <3>5 DEF Opening, Begun, HasGreeting
  <2>3. CASE HasGreeting(c, d)
    <3>1. received'[c][d] = r \o Decrypt(l, b, at)
      BY <1>3, <2>1, <2>3, ReceiveEffect
    <3>2. PICK x \in Seq(Unit) : x = Decrypt(l, b, at) /\ \A k \in 1 .. Len(x) : Plain(x[k])
      <4>1. Decrypt(l, b, at) \in Seq(Unit)
        BY DecryptType
      <4>2. \A k \in 1 .. Len(l) : Plain(Decrypt(l, b, at)[k])
        BY DecryptPlain
      <4>3. Len(Decrypt(l, b, at)) = Len(l)
        BY DecryptType
      <4> QED
        BY <4>1, <4>2, <4>3, Zenon
    <3>3. PICK j \in Seq(Unit) :
            /\ j = r \o x /\ Len(j) = Len(r) + Len(x)
            /\ \A m \in 1 .. Len(r) : j[m] = r[m]
            /\ \A m \in 1 .. Len(x) : j[Len(r) + m] = x[m]
      BY JoinType, ZenonT(30)
    <3>4. Len(r) >= K /\ \A k \in 1 .. Len(r) : Plain(r[k])
      BY <2>1, <2>3 DEF Opening, HasGreeting
    <3>5. ASSUME NEW k \in 1 .. Len(j) PROVE Plain(j[k])
      <4>1. CASE k \in 1 .. Len(r)
        BY <3>3, <3>4, <4>1
      <4>2. CASE k \notin 1 .. Len(r)
        <5>1. PICK i \in 1 .. Len(x) : k = Len(r) + i
          <6>1. k - Len(r) \in 1 .. Len(x) /\ k = Len(r) + (k - Len(r))
            BY <3>3, <4>2
          <6> QED
            BY <6>1
        <5> QED
          BY <3>2, <3>3, <5>1
      <4> QED
        BY <4>1, <4>2
    <3>6. received'[c][d] = j /\ Len(j) >= KeySize[d]
      <4>1. PICK x1 \in Nat, r1 \in Nat : x1 = Len(x) /\ r1 = Len(r)
        OBVIOUS
      <4>2. Len(j) = r1 + x1 /\ r1 >= K
        BY <3>3, <3>4, <4>1, Zenon
      <4>3. r1 + x1 >= K
        BY <4>2
      <4> QED
        BY <2>1, <3>1, <3>2, <3>3, <4>2, <4>3, Zenon
    <3> QED
      BY <3>5, <3>6 DEF Opening, Begun, HasGreeting
  <2> QED
    BY <2>2, <2>3
<1> QED
  BY <1>2, <1>3

LEMMA ReadHandshakeOpening ==
  ASSUME Shape, NEW c \in Conn, NEW d \in Direction, NEW e \in Direction,
         NEW k \in 1 .. Len(arriving[c][e]), Opening(c, d), Streams(c, d),
         Selecting(c), Unread(c, e, k), UNCHANGED <<leaving, endVars>>, ReadHandshake(c, e, k)
  PROVE  Opening(c, d)'
<1>1. UNCHANGED <<leaving, received>>
  BY ReadFrame
<1>2. dir'[c] = e /\ out'[c] = Parts(0, KeySize[e])
  BY DEF ReadHandshake, Shape
<1>3. CASE d # e
  <2>1. ~Writing(c, d)'
    BY <1>2, <1>3 DEF Writing
  <2> QED
    BY <1>1, <2>1, OpeningFrame
<1>4. CASE d = e
  <2>1. PICK K \in Nat : K = KeySize[d]
    BY KeySizes
  <2>2. Len(Parts(0, K)) = K /\ \A m \in 1 .. K : Plain(Parts(0, K)[m])
    <3>1. Len(Parts(0, K)) = K /\ \A m \in 1 .. K : Parts(0, K)[m] = Clear(0, m)
      <4>1. 0 \in Nat
        OBVIOUS
      <4> QED
        BY <4>1, PartsType
    <3> QED
      <4>1. \A m \in 1 .. K : m \in Nat /\ 0 \in Nat
        OBVIOUS
      <4> QED
        BY <3>1, <4>1, ClearPlain, Zenon
  <2>3. \A f \in Nat : PlainFrom(out'[c], f, KeySize[d])
    BY <1>2, <1>4, <2>1, <2>2 DEF PlainFrom
  <2>4. Len(leaving'[c][d]) \in Nat
    BY <1>1, ShapeAt
  <2> QED
    BY <1>1, <2>3, <2>4 DEF Opening, Begun, HasGreeting
<1> QED
  BY <1>3, <1>4

-----------------------------------------------------------------------------
(* What waits before the handshake is the handshake. *)
Greeting(c, d) ==
  Live(c) /\ ~Handshaken(c, d) =>
    \A k \in 1 .. Len(arriving[c][d]) : k <= KeySize[d] => arriving[c][d][k].n = 0

LEMMA GreetingFrame ==
  ASSUME NEW c \in Conn, NEW d \in Direction, Greeting(c, d), arriving'[c][d] = arriving[c][d],
         Live(c)' => Live(c), Handshaken(c, d) => Handshaken(c, d)'
  PROVE  Greeting(c, d)'
BY DEF Greeting

LEMMA GreetGreeting ==
  ASSUME Shape, NEW c \in Conn, NEW d \in Direction, NEW e \in Direction, Streams(c, d),
         Greeting(c, d), Greet(c, e)
  PROVE  Greeting(c, d)'
<1>1. /\ ~greeted[c][e] /\ task[c] = "open"
      /\ arriving' = [arriving EXCEPT ![c][e] = @ \o Parts(0, KeySize[e])]
      /\ UNCHANGED <<task, cipher_state>>
  BY DEF Greet, taskVars
<1>2. CASE d # e
  <2>1. arriving'[c][d] = arriving[c][d]
    BY <1>1, <1>2 DEF Shape
  <2> QED
    BY <1>1, <2>1, GreetingFrame DEF Live, Handshaken
<1>3. CASE d = e
  <2>1. PICK K \in Nat, x \in Seq(Unit) : K = KeySize[d] /\ x = Parts(0, K)
    BY KeySizes, PartsType
  <2>2. arriving[c][d] = <<>>
    BY <1>1, <1>3 DEF Streams, ArrivingAligned
  <2>3. arriving'[c][d] = <<>> \o x
    BY <1>1, <1>3, <2>1, <2>2 DEF Shape
  <2>4. \A k \in 1 .. Len(x) : x[k].n = 0
    <3>1. 0 \in Nat /\ Len(x) = K
      BY <2>1, PartsType
    <3>2. \A k \in 1 .. K : x[k] = Clear(0, k) /\ k \in Nat
      <4>1. \A k \in 1 .. K : Parts(0, K)[k] = Clear(0, k)
        BY <3>1, PartsType
      <4>2. \A k \in 1 .. K : k \in Nat
        OBVIOUS
      <4> QED
        BY <2>1, <4>1, <4>2, Zenon
    <3> QED
      BY <3>1, <3>2, ClearUnit
  <2>5. <<>> \o x = x
    OBVIOUS
  <2>6. arriving'[c][d] = x
    BY <2>3, <2>5
  <2> QED
    BY <2>4, <2>6 DEF Greeting
<1> QED
  BY <1>2, <1>3

LEMMA SendGreeting ==
  ASSUME Shape, NEW c \in Conn, NEW d \in Direction, NEW e \in Direction, Streams(c, d),
         Greeting(c, d), NEW p \in Kind, SendPacket(c, e, p)
  PROVE  Greeting(c, d)'
<1>1. /\ greeted[c][e] /\ task[c] = "open"
      /\ arriving' = [arriving EXCEPT ![c][e] =
           @ \o Encrypt(Parts(Len(sent[c][e]) + 1, p.size), InBox(e), theirs[c][InBox(e)])]
      /\ UNCHANGED <<task, cipher_state>>
  BY DEF SendPacket, taskVars
<1>2. CASE d # e
  <2>1. arriving'[c][d] = arriving[c][d]
    BY <1>1, <1>2 DEF Shape
  <2> QED
    BY <1>1, <2>1, GreetingFrame DEF Live, Handshaken
<1>3. CASE d = e
  <2> SUFFICES ASSUME ~Handshaken(c, d) PROVE Greeting(c, d)'
    BY <1>1 DEF Greeting, Handshaken
  <2>1. PICK n \in Nat, size \in Nat, box \in Box, at \in Nat :
          /\ n = Len(sent[c][d]) + 1 /\ size = p.size
          /\ box = InBox(d) /\ at = theirs[c][InBox(d)]
    <3>1. Len(sent[c][d]) + 1 \in Nat /\ InBox(d) \in Box /\ theirs[c][InBox(d)] \in Nat
      BY ShapeAt, BoxFacts
    <3> QED
      BY <3>1, KindSize
  <2>2. PICK y \in Seq(Unit) : y = Encrypt(Parts(n, size), box, at)
    BY PartsType, EncryptType
  <2>3. PICK a \in Seq(Unit), K \in Nat : a = arriving[c][d] /\ K = KeySize[d]
    BY ShapeAt, KeySizes
  <2>4. K <= Len(a)
    <3>1. theirs[c][InBox(d)] + K = mine[c][InBox(d)] + Len(a) /\ mine[c][InBox(d)] = 0
      BY <1>1, <1>3, <2>3 DEF Streams, ArrivingAligned
    <3>2. theirs[c][InBox(d)] \in Nat
      BY ShapeAt
    <3> QED
      BY <3>1, <3>2
  <2>5. PICK j \in Seq(Unit) : j = a \o y /\ \A m \in 1 .. Len(a) : j[m] = a[m]
    BY JoinType
  <2>6. arriving'[c][d] = j
    BY <1>1, <1>3, <2>1, <2>2, <2>3, <2>5 DEF Shape
  <2>7. \A k \in 1 .. Len(a) : k <= K => a[k].n = 0
    BY <1>1, <2>3 DEF Greeting, Live
  <2>8. \A k \in 1 .. Len(j) : k <= K => j[k].n = 0
    BY <2>4, <2>5, <2>7
  <2> QED
    BY <2>3, <2>6, <2>8 DEF Greeting
<1> QED
  BY <1>2, <1>3

-----------------------------------------------------------------------------
(* Once a packet of STOP has come, there are no handshakes to come. *)
DropOpen ==
  /\ drop_packets \in [Conn -> BOOLEAN]
  /\ \A c \in Conn : drop_packets[c] => cipher_state[c] = "EncryptedChannel"

(* What a direction goes through in one step, and what it may do about a
   packet. *)
Moves(c, d) ==
  \/ Still(c, d)
  \/ Ends(c, d)
  \/ Sends(c, d)
  \/ Greets(c, d)
  \/ \E e \in Event :
       /\ e.conn = c /\ e.dir = d /\ Takes(c, d, e.n, e.dropped) /\ TrySend(e)
       /\ drop_packets'[c] => e.dropped
       /\ ~e.dropped => Unlisted(sent[c][d][e.n])

Calm(c, d) == Opening(c, d) /\ Greeting(c, d)

(* A read does one of them. *)
LEMMA ReadMoves ==
  ASSUME Shape, Shape', NEW c \in Conn, NEW d \in Direction, NEW e \in Direction, Streams(c, d),
         Calm(c, d), Read(c, e)
  PROVE  Moves(c, d) /\ Calm(c, d)'
<1>1. PICK k \in 1 .. Len(arriving[c][e]) :
        Unread(c, e, k) /\ (Bail(c, e, k) \/ ReadHandshake(c, e, k) \/ ReadPackets(c, e, k))
  BY DEF Read
<1>2. Selecting(c) /\ UNCHANGED <<leaving, endVars>> /\ Opening(c, d) /\ Greeting(c, d)
  BY DEF Read, Calm
<1>3. task[c] = "open" /\ step[c] = "select" /\ UNCHANGED <<leaving, sent, received>>
      /\ \A f \in Direction : f # e => arriving'[c][f] = arriving[c][f]
  BY <1>1, <1>2, ReadFrame
<1>4. CASE Bail(c, e, k)
  <2>1. EndTask(c, "returned") /\ UNCHANGED dir
    BY <1>4 DEF Bail
  <2>2. Ends(c, d)
    BY <1>3, <2>1, EndTaskEnds
  <2>3. ~Writing(c, d)' /\ ~Live(c)'
    BY <2>1 DEF EndTask, Writing, Shape, Live
  <2> QED
    BY <1>2, <1>3, <2>2, <2>3, OpeningFrame DEF Moves, Calm, Greeting
<1>5. CASE ReadHandshake(c, e, k)
  <2>1. Still(c, d) \/ Greets(c, d)
    BY <1>1, <1>2, <1>5, ReadHandshakeGreets
  <2>2. Opening(c, d)'
    BY <1>1, <1>2, <1>5, ReadHandshakeOpening
  <2>3. Greeting(c, d)'
    <3>1. CASE d = e
      <4>1. Handshaken(c, d)'
        BY <1>5, <3>1 DEF ReadHandshake, Keyed, Handshaken, Shape
      <4> QED
        BY <4>1 DEF Greeting
    <3>2. CASE d # e
      <4>1. (Handshaken(c, d) => Handshaken(c, d)') /\ (Live(c)' => Live(c))
        BY <1>5, <3>2 DEF ReadHandshake, IsHandshake, Keyed, Handshaken, Shape, Direction, Live
      <4> QED
        BY <1>2, <1>3, <3>2, <4>1, GreetingFrame
    <3> QED
      BY <3>1, <3>2
  <2> QED
    BY <2>1, <2>2, <2>3 DEF Moves, Calm
<1>6. CASE ReadPackets(c, e, k)
  <2>1. Still(c, d)
    BY <1>1, <1>2, <1>6, ReadPacketsStill
  <2>2. ~Writing(c, d)' /\ Handshaken(c, d)'
    BY <1>6 DEF ReadPackets, Writing, Handshaken, Shape
  <2> QED
    BY <1>2, <1>3, <2>1, <2>2, OpeningFrame DEF Moves, Calm, Greeting
<1> QED
  BY <1>1, <1>4, <1>5, <1>6

(* So does every step of the task, *)
LEMMA TaskMoves ==
  ASSUME KeysAligned, Shape', DropOpen, NEW c \in Conn, NEW d \in Direction, Calm(c, d), TaskStep(c)
  PROVE  Moves(c, d) /\ Calm(c, d)'
<1>1. Shape /\ Streams(c, d) /\ Opening(c, d) /\ Greeting(c, d)
  BY DEF KeysAligned, Calm
<1>2. CASE ReadCommand(c) \/ Connect(c)
  <2>1. Still(c, d) \/ Ends(c, d)
    BY <1>1, <1>2, QuietStill
  <2>2. /\ UNCHANGED <<step, dir, cipher_state, out, received, arriving, leaving>>
        /\ Live(c) /\ (Handshaken(c, d) => Handshaken(c, d)')
    BY <1>2 DEF ReadCommand, Connect, endVars, wireVars, Live, Handshaken
  <2>3. Opening(c, d)' /\ Greeting(c, d)'
    BY <1>1, <2>2, OpeningFrame, GreetingFrame DEF Writing
  <2> QED
    BY <2>1, <2>3 DEF Moves, Calm
<1>3. ASSUME NEW e \in Direction, Read(c, e) PROVE Moves(c, d) /\ Calm(c, d)'
  BY <1>1, <1>3, ReadMoves
<1>4. ASSUME NEW how \in {"returned", "panicked"}, EndTask(c, how),
             UNCHANGED <<dir, sent, received, leaving>>
      PROVE  Moves(c, d) /\ Calm(c, d)'
  <2>1. Ends(c, d)
    BY <1>1, <1>4, EndTaskEnds
  <2>2. ~Writing(c, d)' /\ ~Live(c)'
    BY <1>1, <1>4 DEF EndTask, Writing, Shape, Live
  <2> QED
    BY <1>1, <1>4, <2>1, <2>2, OpeningFrame DEF Moves, Calm, Greeting
<1>5. CASE (\E e \in Direction : ReadEnd(c, e)) \/ TakeBroken(c) \/ WriteFails(c)
  <2>1. /\ EndTask(c, "returned") \/ EndTask(c, "panicked")
        /\ UNCHANGED <<dir, sent, received, leaving>>
    BY <1>5 DEF ReadEnd, TakeBroken, WriteFails, endVars, wireVars
  <2> QED
    BY <1>4, <2>1
<1>6. CASE TakePacket(c)
  <2>1. \/ Still(c, d)
        \/ \E e \in Event : /\ e.conn = c /\ e.dir = d /\ Takes(c, d, e.n, e.dropped)
                            /\ TrySend(e)
                            /\ drop_packets'[c] => e.dropped
                            /\ ~e.dropped => Unlisted(sent[c][d][e.n])
    BY <1>6, TakePacketTakes, Zenon DEF DropOpen
  <2>2. /\ ~Writing(c, d)' /\ UNCHANGED <<received, arriving, leaving>>
        /\ Live(c) /\ (Handshaken(c, d) => Handshaken(c, d)')
    BY <1>6, Zenon DEF TakePacket, Writing, endVars, wireVars, Live, Handshaken
  <2>3. Opening(c, d)' /\ Greeting(c, d)'
    BY <1>1, <2>2, OpeningFrame, GreetingFrame
  <2> QED
    BY <2>1, <2>3 DEF Moves, Calm
<1>7. CASE LeaveLoop(c)
  <2>1. Still(c, d) /\ Opening(c, d)'
    BY <1>1, <1>7, LeaveLoopStill, LeaveLoopOpening
  <2>2. arriving' = arriving /\ Live(c) /\ (Handshaken(c, d) => Handshaken(c, d)')
    BY <1>7 DEF LeaveLoop, wireVars, Live, Handshaken
  <2> QED
    BY <1>1, <2>1, <2>2, GreetingFrame DEF Moves, Calm
<1>8. CASE Write(c)
  <2>1. Still(c, d) /\ Opening(c, d)'
    BY <1>1, <1>8, WriteStill, WriteOpening
  <2>2. arriving' = arriving /\ Live(c) /\ (Handshaken(c, d) => Handshaken(c, d)')
    BY <1>8 DEF Write, Live, Handshaken
  <2> QED
    BY <1>1, <2>1, <2>2, GreetingFrame DEF Moves, Calm
<1> QED
  BY <1>2, <1>3, <1>5, <1>6, <1>7, <1>8 DEF TaskStep, Select

(* of the game or the server, *)
LEMMA EndMoves ==
  ASSUME KeysAligned, Shape', NEW c \in Conn, NEW d \in Direction, Calm(c, d),
         NEW e \in Direction, EndStep(c, e)
  PROVE  Moves(c, d) /\ Calm(c, d)'
<1>1. Shape /\ Streams(c, d) /\ Opening(c, d) /\ Greeting(c, d) /\ Begun(c, d)
  BY DEF KeysAligned, Calm, Opening
<1>2. CASE Greet(c, e)
  <2>1. Still(c, d) /\ Greeting(c, d)'
    BY <1>1, <1>2, GreetStill, GreetGreeting
  <2>2. UNCHANGED <<step, dir, out, received, leaving>>
    BY <1>2 DEF Greet, taskVars
  <2> QED
    BY <1>1, <2>1, <2>2, OpeningFrame DEF Moves, Calm, Writing
<1>3. ASSUME NEW p \in Kind, SendPacket(c, e, p) PROVE Moves(c, d) /\ Calm(c, d)'
  <2>1. (Still(c, d) \/ Sends(c, d)) /\ Greeting(c, d)'
    BY <1>1, <1>3, SendSends, SendGreeting
  <2>2. UNCHANGED <<step, dir, out, received, leaving>>
    BY <1>3 DEF SendPacket, taskVars
  <2> QED
    BY <1>1, <2>1, <2>2, OpeningFrame DEF Moves, Calm, Writing
<1>4. CASE Receive(c, e)
  <2>1. Still(c, d) /\ Opening(c, d)'
    BY <1>1, <1>4, ReceiveStill, ReceiveOpening
  <2>2. UNCHANGED <<task, cipher_state, arriving>>
    BY <1>1, <1>4, ReceiveCases DEF taskVars
  <2> QED
    BY <1>1, <2>1, <2>2, GreetingFrame DEF Moves, Calm, Live, Handshaken
<1>5. CASE CloseEnd(c, e)
  <2>1. Still(c, d) \/ Ends(c, d)
    BY <1>1, <1>5, QuietStill
  <2>2. UNCHANGED <<task, step, dir, cipher_state, out, received, arriving, leaving>>
    BY <1>5 DEF CloseEnd, taskVars, wireVars
  <2> QED
    BY <1>1, <2>1, <2>2, OpeningFrame, GreetingFrame DEF Moves, Calm, Writing, Live, Handshaken
<1> QED
  BY <1>2, <1>3, <1>4, <1>5 DEF EndStep

(* and of everybody else. *)
LEMMA SameMoves ==
  ASSUME NEW c \in Conn, NEW d \in Direction, Calm(c, d), Same(c)
  PROVE  Moves(c, d) /\ Calm(c, d)'
<1>1. Still(c, d)
  BY SameStill
<1>2. Opening(c, d)'
  BY OpeningFrame DEF Calm, Same, Writing
<1>3. Greeting(c, d)'
  BY GreetingFrame DEF Calm, Same, Live, Handshaken
<1> QED
  BY <1>1, <1>2, <1>3 DEF Moves, Calm

Calmness == KeysAligned /\ DropOpen /\ \A c \in Conn, d \in Direction : Calm(c, d)

LEMMA StepMoves ==
  ASSUME Calmness, [Next]_vars
  PROVE  \A c \in Conn, d \in Direction : Moves(c, d) /\ Calm(c, d)'
<1> TAKE c \in Conn, d \in Direction
<1>1. Calm(c, d) /\ KeysAligned /\ DropOpen
  BY DEF Calmness
<1>2. Shape'
  BY AlignedStep DEF Calmness, KeysAligned
<1>3. ASSUME NEW e \in Conn, TaskStep(e) \/ \E f \in Direction : EndStep(e, f)
      PROVE  Moves(c, d) /\ Calm(c, d)'
  <2>1. CASE c = e
    BY <1>1, <1>2, <1>3, <2>1, TaskMoves, EndMoves
  <2>2. CASE c # e
    BY <1>1, <1>3, <2>2, OthersSame, SameMoves
  <2> QED
    BY <2>1, <2>2
<1>4. CASE UNCHANGED mitmVars
  <2>1. Same(c)
    BY <1>4 DEF mitmVars, taskVars, endVars, wireVars, Same
  <2> QED
    BY <1>1, <2>1, SameMoves
<1> QED
  BY <1>3, <1>4 DEF Next, MitmNext, vars

(* drop_packets is only ever set while packets are cut out. *)
LEMMA DropStep ==
  ASSUME Calmness, [Next]_vars
  PROVE  DropOpen'
<1>0. Shape /\ DropOpen /\ \A c \in Conn : Streams(c, dir[c])
  BY ShapeAt, Zenon DEF Calmness, KeysAligned, Shape
<1>1. ASSUME NEW c \in Conn, ReadCommand(c) \/ Connect(c) \/ LeaveLoop(c) \/ Write(c) \/ WriteFails(c)
      PROVE  DropOpen'
  BY <1>0, <1>1, Zenon DEF ReadCommand, Connect, LeaveLoop, Write, WriteFails, DropOpen
<1>2. ASSUME NEW c \in Conn, NEW d \in Direction, Read(c, d) \/ ReadEnd(c, d) PROVE DropOpen'
  <2>1. CASE UNCHANGED <<cipher_state, drop_packets>>
    BY <1>0, <2>1 DEF DropOpen
  <2>2. ASSUME NEW k, ReadHandshake(c, d, k) PROVE DropOpen'
    <3>1. /\ cipher_state[c] # "EncryptedChannel" /\ drop_packets' = drop_packets
          /\ \A e \in Conn : e # c => cipher_state'[e] = cipher_state[e]
      BY <1>0, <2>2 DEF ReadHandshake, IsHandshake, Keyed, Shape
    <3> QED
      BY <1>0, <3>1 DEF DropOpen
  <2> QED
    BY <1>2, <2>1, <2>2 DEF Read, ReadEnd, Bail, ReadPackets
<1>3. ASSUME NEW c \in Conn, TakePacket(c) \/ TakeBroken(c) PROVE DropOpen'
  <2>1. cipher_state' = cipher_state /\ cipher_state[c] = "EncryptedChannel"
    BY <1>0, <1>3, Zenon DEF TakePacket, TakeBroken, Streams, Plaintext
  <2>2. PICK now \in BOOLEAN : drop_packets' = [drop_packets EXCEPT ![c] = now]
    <3>1. CASE TakePacket(c)
      <4>1. PICK p : p = PacketOf(c, dir[c], buf[c][dir[c]][1])
        BY Zenon
      <4>2. drop_packets' = [drop_packets EXCEPT ![c] = (drop_packets[c] \/ p.type \in STOP)]
        BY <3>1, <4>1, Zenon DEF TakePacket
      <4>3. (drop_packets[c] \/ p.type \in STOP) \in BOOLEAN
        OBVIOUS
      <4> QED
        BY <4>2, <4>3, Zenon
    <3>2. CASE TakeBroken(c)
      <4>1. PICK p : p = PacketOf(c, dir[c], buf[c][dir[c]][1])
        OBVIOUS
      <4>2. drop_packets' = [drop_packets EXCEPT ![c] = (@ \/ p.type \in STOP)]
        BY <3>2, <4>1 DEF TakeBroken
      <4>3. (drop_packets[c] \/ p.type \in STOP) \in BOOLEAN
        OBVIOUS
      <4>4. drop_packets' = [drop_packets EXCEPT ![c] = (drop_packets[c] \/ p.type \in STOP)]
        BY <1>0, <4>2 DEF DropOpen
      <4> QED
        BY <4>3, <4>4, Zenon
    <3> QED
      BY <1>3, <3>1, <3>2
  <2> QED
    BY <1>0, <2>1, <2>2, Zenon DEF DropOpen
<1>4. ASSUME NEW c \in Conn, NEW d \in Direction, EndStep(c, d) PROVE DropOpen'
  <2>1. UNCHANGED <<cipher_state, drop_packets>>
    BY <1>0, <1>4, ReceiveCases DEF EndStep, Greet, SendPacket, CloseEnd, taskVars
  <2> QED
    BY <1>0, <2>1, SMTT(20) DEF DropOpen
<1>5. CASE UNCHANGED mitmVars
  BY <1>0, <1>5 DEF mitmVars, taskVars, DropOpen
<1> QED
  BY <1>1, <1>2, <1>3, <1>4, <1>5 DEF Next, MitmNext, TaskStep, Select, vars

LEMMA CalmInit ==
  ASSUME Init
  PROVE  Calmness
<1>1. KeysAligned
  BY InitAligned
<1>2. DropOpen
  BY DEF Init, MitmInit, DropOpen
<1>3. ASSUME NEW c \in Conn, NEW d \in Direction PROVE Calm(c, d)
  <2>1. /\ received[c][d] = <<>> /\ leaving[c][d] = <<>> /\ arriving[c][d] = <<>>
        /\ ~Writing(c, d)
    BY <1>3 DEF Init, MitmInit, Writing
  <2> QED
    BY <2>1 DEF Calm, Opening, Greeting, Begun, PlainFrom
<1> QED
  BY <1>1, <1>2, <1>3 DEF Calmness

LEMMA CalmStep == Calmness /\ [Next]_vars => Calmness'
<1> SUFFICES ASSUME Calmness, [Next]_vars PROVE Calmness'
  OBVIOUS
<1>1. KeysAligned'
  BY AlignedStep DEF Calmness
<1> QED
  BY <1>1, DropStep, StepMoves DEF Calmness

-----------------------------------------------------------------------------
(* What is let through are whole packets in order, and what waits are all the
   later ones. *)
Sizes(c, d) == [n \in 0 .. Len(sent[c][d]) |-> SizeOf(c, d, n)]

Row(p, q, N, w) ==
  /\ Ended(p, w)
  /\ Queued(q, N, w)
  /\ \A k \in 1 .. Len(p) : p[k].n < NextOf(q, N)

Line(c, d) ==
  /\ Chained(Past(c, d), Len(sent[c][d]), Sizes(c, d))
  /\ Live(c) => /\ Row(Past(c, d), Inward(c, d), Len(sent[c][d]), Sizes(c, d))
                /\ Handshaken(c, d) <=> Len(Past(c, d)) >= 1

(* A later packet is sent. *)
LEMMA RowSent ==
  ASSUME NEW N \in Nat, NEW w \in [0 .. N -> Nat], NEW v \in [0 .. N + 1 -> Nat],
         \A n \in 0 .. N : v[n] = w[n], v[N + 1] >= 1,
         NEW p \in Seq(Mark), NEW q \in Seq(Mark), NEW s \in Seq(Mark), Single(s, N + 1, v[N + 1]),
         Chained(p, N, w), Row(p, q, N, w)
  PROVE  Chained(p, N + 1, v) /\ Row(p, Cat(q, s), N + 1, v)
<1>1. Chained(p, N + 1, v) /\ Ended(p, v)
  <2>1. N + 1 \in Nat /\ N <= N + 1
    OBVIOUS
  <2> QED
    BY <2>1, ChainedSent DEF Row
<1>2. Queued(Cat(q, s), N + 1, v) /\ NextOf(Cat(q, s), N + 1) = NextOf(q, N)
  BY QueuedMore DEF Row
<1> QED
  BY <1>1, <1>2 DEF Row

(* The handshake is let through first. *)
LEMMA RowGreeted ==
  ASSUME NEW N \in Nat, NEW w \in [0 .. N -> Nat], w[0] >= 1,
         NEW p \in Seq(Mark), Len(p) = 0, NEW q \in Seq(Mark),
         NEW s \in Seq(Mark), Single(s, 0, w[0]),
         Chained(p, N, w), Row(p, q, N, w)
  PROVE  Chained(Cat(p, s), N, w) /\ Row(Cat(p, s), q, N, w) /\ Len(Cat(p, s)) >= 1
<1>1. Chained(Cat(p, s), N, w) /\ Ended(Cat(p, s), w) /\ Len(Cat(p, s)) >= 1
  <2>1. 0 \in 0 .. N /\ (Len(p) = 0 => 0 = 0) /\ \A k \in 1 .. Len(p) : p[k].n < 0
    OBVIOUS
  <2> QED
    BY <2>1, ChainedMore DEF Row
<1>2. NextOf(q, N) \in 1 .. N + 1
  BY QueuedAll DEF Row
<1>3. ASSUME NEW k \in 1 .. Len(Cat(p, s)) PROVE Cat(p, s)[k].n < NextOf(q, N)
  <2>1. k \in 1 .. Len(p) + Len(s)
    BY CatType
  <2>2. \/ k \in 1 .. Len(p) /\ Cat(p, s)[k] = p[k]
        \/ \E j \in 1 .. Len(s) : k = Len(p) + j /\ Cat(p, s)[k] = s[j]
    BY <2>1, CatElements
  <2>3. \A j \in 1 .. Len(s) : s[j].n = 0
    BY DEF Single
  <2>4. Cat(p, s)[k].n = 0
    BY <2>2, <2>3
  <2> QED
    BY <1>2, <2>4
<1> QED
  BY <1>1, <1>3 DEF Row

(* The packet that is cut out goes, and behind the others or nowhere. *)
Passed(n, N, w, p, s, r) ==
  /\ Row(p, r, N, w)
  /\ Chained(Cat(p, s), N, w) /\ Row(Cat(p, s), r, N, w) /\ Len(Cat(p, s)) >= 1
  /\ NextOf(Cat(s, r), N) = n /\ NextOf(r, N) = n + 1 /\ Single(s, n, w[n])

LEMMA RowTaken ==
  \A N \in Nat : \A w \in [0 .. N -> Nat] : \A p, s, r \in Seq(Mark) :
    Len(p) >= 1 /\ Chained(p, N, w) /\ Row(p, Cat(s, r), N, w) =>
      \A n \in 1 .. N : Cat(s, r)[1].n = n /\ Len(s) = w[n] /\ w[n] >= 1 =>
        Passed(n, N, w, p, s, r)
<1> SUFFICES ASSUME NEW N \in Nat, NEW w \in [0 .. N -> Nat],
                    NEW p \in Seq(Mark), NEW s \in Seq(Mark), NEW r \in Seq(Mark), Len(p) >= 1,
                    Chained(p, N, w), Row(p, Cat(s, r), N, w)
             PROVE  \A n \in 1 .. N : Cat(s, r)[1].n = n /\ Len(s) = w[n] /\ w[n] >= 1 =>
                      Passed(n, N, w, p, s, r)
  BY ZenonT(30)
<1>0. SUFFICES ASSUME NEW n \in 1 .. N, Cat(s, r)[1].n = n, Len(s) = w[n], w[n] >= 1
               PROVE  /\ Row(p, r, N, w)
                      /\ Chained(Cat(p, s), N, w) /\ Row(Cat(p, s), r, N, w)
                      /\ Len(Cat(p, s)) >= 1
                      /\ NextOf(Cat(s, r), N) = n /\ NextOf(r, N) = n + 1 /\ Single(s, n, w[n])
  BY DEF Passed
<1>1. Len(s) + Len(r) >= 1 /\ Len(s) >= 1
  <2>1. Len(s) \in Nat /\ Len(r) \in Nat /\ Len(s) >= 1
    BY <1>0
  <2> QED
    BY <2>1
<1>2. Queued(Cat(s, r), N, w) /\ Ended(p, w) /\ \A k \in 1 .. Len(p) : p[k].n < NextOf(Cat(s, r), N)
  BY DEF Row
<1>3. NextOf(Cat(s, r), N) = n
  <2>1. Len(Cat(s, r)) >= 1
    BY <1>1, CatType
  <2> QED
    BY <1>0, <2>1 DEF NextOf
<1>4. Single(s, n, w[n]) /\ Queued(r, N, w) /\ NextOf(r, N) = n + 1
  <2>1. n \in Nat /\ n = Cat(s, r)[1].n /\ Len(s) = w[n]
    BY <1>0
  <2>2. CutOut(n, N, w, s, r)
    BY <1>1, <1>2, <2>1, QueuedLess, Zenon
  <2> QED
    BY <2>2, Zenon DEF CutOut
<1>5. \A k \in 1 .. Len(p) : p[k].n < n /\ p[k].n < n + 1
  <2>1. \A k \in 1 .. Len(p) : p[k].n \in Nat
    <3>1. (\A m \in Mark : m.n \in Nat) /\ \A k \in 1 .. Len(p) : p[k] \in Mark
      <4>1. \A m \in Mark : m.n \in Nat
        BY DEF Mark
      <4>2. \A k \in 1 .. Len(p) : p[k] \in Mark
        OBVIOUS
      <4> QED
        BY <4>1, <4>2
    <3> QED
      BY <3>1, Zenon
  <2> QED
    BY <1>2, <1>3, <2>1
<1>6. Chained(Cat(p, s), N, w) /\ Ended(Cat(p, s), w) /\ Len(Cat(p, s)) >= 1
  <2>1. n \in 0 .. N /\ (Len(p) = 0 => n = 0) /\ \A k \in 1 .. Len(p) : p[k].n < n
    BY <1>5
  <2>2. w[n] >= 1
    BY <1>0
  <2> QED
    BY <1>2, <1>4, <2>1, <2>2, ChainedMore
<1>7. ASSUME NEW k \in 1 .. Len(Cat(p, s)) PROVE Cat(p, s)[k].n < n + 1
  <2>1. k \in 1 .. Len(p) + Len(s)
    BY CatType
  <2>2. \/ k \in 1 .. Len(p) /\ Cat(p, s)[k] = p[k]
        \/ \E j \in 1 .. Len(s) : k = Len(p) + j /\ Cat(p, s)[k] = s[j]
    BY <2>1, CatElements
  <2>3. \A j \in 1 .. Len(s) : s[j].n = n
    BY <1>0, <1>4 DEF Single
  <2> QED
    BY <1>5, <2>2, <2>3, SMTT(20)
<1> QED
  BY <1>2, <1>3, <1>4, <1>5, <1>6, <1>7 DEF Row

LEMMA SizesType ==
  ASSUME Shape, NEW c \in Conn, NEW d \in Direction
  PROVE  /\ Len(sent[c][d]) \in Nat /\ Sizes(c, d) \in [0 .. Len(sent[c][d]) -> Nat]
         /\ Sizes(c, d)[0] = KeySize[d]
         /\ \A n \in 0 .. Len(sent[c][d]) : Sizes(c, d)[n] >= 1 /\ Sizes(c, d)[n] = SizeOf(c, d, n)
         /\ \A n \in 1 .. Len(sent[c][d]) : Sizes(c, d)[n] = sent[c][d][n].size
<1>1. PICK s \in Seq(Kind) : s = sent[c][d]
  BY ShapeAt
<1>2. KeySize[d] \in Nat /\ KeySize[d] >= 1
  BY KeySizes
<1>3. \A n \in 1 .. Len(s) : s[n].size \in Nat /\ s[n].size >= 1
  BY KindSize
<1>4. \A n \in 0 .. Len(s) : SizeOf(c, d, n) \in Nat /\ SizeOf(c, d, n) >= 1
  BY <1>1, <1>2, <1>3 DEF SizeOf
<1>5. Sizes(c, d) = [n \in 0 .. Len(s) |-> SizeOf(c, d, n)]
  BY <1>1 DEF Sizes
<1>6. Len(s) \in Nat /\ 0 \in 0 .. Len(s) /\ \A n \in 1 .. Len(s) : n \in 0 .. Len(s) /\ n # 0
  OBVIOUS
<1>7. SizeOf(c, d, 0) = KeySize[d] /\ \A n \in 1 .. Len(s) : SizeOf(c, d, n) = sent[c][d][n].size
  BY <1>6 DEF SizeOf
<1> QED
  BY <1>1, <1>4, <1>5, <1>6, <1>7

(* One more packet is one more size. *)
LEMMA SizesMore ==
  ASSUME Shape, NEW c \in Conn, NEW d \in Direction, NEW p \in Kind,
         sent'[c][d] = Append(sent[c][d], p)
  PROVE  /\ Len(sent'[c][d]) = Len(sent[c][d]) + 1
         /\ Sizes(c, d)' \in [0 .. Len(sent[c][d]) + 1 -> Nat]
         /\ \A n \in 0 .. Len(sent[c][d]) : Sizes(c, d)'[n] = Sizes(c, d)[n]
         /\ Sizes(c, d)'[Len(sent[c][d]) + 1] = p.size /\ p.size >= 1
<1>1. PICK s \in Seq(Kind), t \in Seq(Kind), N \in Nat :
        /\ s = sent[c][d] /\ N = Len(s) /\ t = sent'[c][d]
        /\ Len(t) = N + 1 /\ t[N + 1] = p /\ \A n \in 1 .. N : t[n] = s[n]
  <2>1. PICK s \in Seq(Kind) : s = sent[c][d]
    BY ShapeAt
  <2>2. /\ Append(s, p) \in Seq(Kind) /\ Len(Append(s, p)) = Len(s) + 1
        /\ \A n \in 1 .. Len(s) : Append(s, p)[n] = s[n]
        /\ Append(s, p)[Len(s) + 1] = p
    BY AppendProperties
  <2>3. PICK N \in Nat, t \in Seq(Kind) : t = Append(s, p) /\ N = Len(s)
    <3>1. Len(s) \in Nat
      OBVIOUS
    <3> QED
      BY <2>2, <3>1, Zenon
  <2>4. t = sent'[c][d]
    BY <2>1, <2>3, Zenon
  <2>5. Len(t) = N + 1 /\ t[N + 1] = p /\ \A n \in 1 .. N : t[n] = s[n]
    BY <2>2, <2>3, Zenon
  <2> QED
    BY <2>1, <2>3, <2>4, <2>5, Zenon
<1>2. KeySize[d] \in Nat /\ p.size \in Nat /\ p.size >= 1
  BY KeySizes, KindSize
<1>3. \A n \in 1 .. N : s[n].size \in Nat
  BY <1>1, KindSize
<1>4. Sizes(c, d)' = [n \in 0 .. N + 1 |-> IF n = 0 THEN KeySize[d] ELSE t[n].size]
  BY <1>1 DEF Sizes, SizeOf
<1>5. Sizes(c, d) = [n \in 0 .. N |-> IF n = 0 THEN KeySize[d] ELSE s[n].size]
  BY <1>1 DEF Sizes, SizeOf
<1>6. \A n \in 0 .. N : (IF n = 0 THEN KeySize[d] ELSE s[n].size) =
                        (IF n = 0 THEN KeySize[d] ELSE t[n].size)
  BY <1>1
<1>7. \A n \in 0 .. N + 1 : (IF n = 0 THEN KeySize[d] ELSE t[n].size) \in Nat
  <2> TAKE n \in 0 .. N + 1
  <2>1. n = 0 \/ n = N + 1 \/ n \in 1 .. N
    OBVIOUS
  <2> QED
    BY <1>1, <1>2, <1>3, <2>1
<1>8. \A n \in 0 .. N : n \in 0 .. N + 1
  OBVIOUS
<1>9. N + 1 \in 0 .. N + 1 /\ N + 1 # 0
  OBVIOUS
<1> QED
  BY <1>1, <1>2, <1>4, <1>5, <1>6, <1>7, <1>8, <1>9

LEMMA LineMoves ==
  ASSUME Shape, Shape', NEW c \in Conn, NEW d \in Direction, Line(c, d), Moves(c, d)
  PROVE  Line(c, d)'
<1>0. PICK N \in Nat : N = Len(sent[c][d])
  BY SizesType
<1>1. PICK w \in [0 .. N -> Nat], p \in Seq(Mark), q \in Seq(Mark) :
        N = Len(sent[c][d]) /\ w = Sizes(c, d) /\ p = Past(c, d) /\ q = Inward(c, d)
  <2>1. Sizes(c, d) \in [0 .. N -> Nat]
    BY <1>0, SizesType
  <2>2. Past(c, d) \in Seq(Mark) /\ Inward(c, d) \in Seq(Mark)
    BY PastNow, InwardNow
  <2> QED
    BY <1>0, <2>1, <2>2, Zenon
<1>2. /\ w[0] = KeySize[d] /\ \A n \in 0 .. N : w[n] >= 1
      /\ \A n \in 1 .. N : w[n] = sent[c][d][n].size
  BY <1>1, SizesType
<1>3. /\ Chained(p, N, w)
      /\ Live(c) => Row(p, q, N, w) /\ (Handshaken(c, d) <=> Len(p) >= 1)
  BY <1>1 DEF Line
<1>4. sent'[c][d] = sent[c][d] => Len(sent'[c][d]) = N /\ Sizes(c, d)' = w
  BY <1>1 DEF Sizes, SizeOf
<1>5. CASE Still(c, d)
  <2>1. /\ Past(c, d)' = p /\ Inward(c, d)' = q /\ Len(sent'[c][d]) = N /\ Sizes(c, d)' = w
        /\ Live(c)' <=> Live(c)
        /\ Handshaken(c, d)' <=> Handshaken(c, d)
    BY <1>1, <1>4, <1>5 DEF Still
  <2> QED
    BY <1>3, <2>1 DEF Line
<1>6. CASE Ends(c, d)
  <2>1. PICK s \in Seq(Mark), u \in Seq(Mark) : u = Past(c, d)' /\ p = Cat(u, s)
    BY <1>1, <1>6 DEF Ends
  <2>2. Chained(u, N, w)
    BY <1>3, <2>1, ChainedLess
  <2>3. /\ Len(sent'[c][d]) = N /\ Sizes(c, d)' = w /\ ~Live(c)'
    BY <1>4, <1>6 DEF Ends
  <2> QED
    BY <2>1, <2>2, <2>3 DEF Line
<1>7. CASE Sends(c, d)
  <2>1. PICK k \in Kind, s \in Seq(Mark) :
          /\ sent'[c][d] = Append(sent[c][d], k)
          /\ Single(s, N + 1, k.size)
          /\ Inward(c, d)' = Cat(q, s)
    BY <1>1, <1>7 DEF Sends
  <2>2. PICK v \in [0 .. N + 1 -> Nat] :
          /\ v = Sizes(c, d)' /\ Len(sent'[c][d]) = N + 1
          /\ \A n \in 0 .. N : v[n] = w[n]
          /\ v[N + 1] = k.size /\ v[N + 1] >= 1
    BY <1>1, <2>1, SizesMore
  <2>3. Single(s, N + 1, v[N + 1])
    BY <2>1, <2>2
  <2>4. Past(c, d)' = p /\ (Live(c)' <=> Live(c)) /\ (Handshaken(c, d)' <=> Handshaken(c, d))
    BY <1>1, <1>7 DEF Sends
  <2>5. CASE Live(c)
    <3>1. Chained(p, N + 1, v) /\ Row(p, Cat(q, s), N + 1, v)
      BY <1>3, <2>2, <2>3, <2>5, RowSent
    <3> QED
      BY <1>3, <2>1, <2>2, <2>4, <2>5, <3>1 DEF Line
  <2>6. CASE ~Live(c)
    <3>1. Chained(p, N + 1, v)
      <4>1. N + 1 \in Nat /\ N <= N + 1
        OBVIOUS
      <4> QED
        BY <1>3, <2>2, <4>1, ChainedSent
    <3> QED
      BY <2>2, <2>4, <2>6, <3>1 DEF Line
  <2> QED
    BY <2>5, <2>6
<1>8. CASE Greets(c, d)
  <2>1. PICK s \in Seq(Mark) : Single(s, 0, w[0]) /\ Past(c, d)' = Cat(p, s)
    BY <1>1, <1>2, <1>8 DEF Greets
  <2>2. /\ Inward(c, d)' = q /\ Len(sent'[c][d]) = N /\ Sizes(c, d)' = w
        /\ Live(c)' /\ Live(c) /\ Handshaken(c, d)' /\ ~Handshaken(c, d)
    BY <1>1, <1>4, <1>8 DEF Greets
  <2>3. Len(p) = 0 /\ w[0] >= 1 /\ Row(p, q, N, w)
    <3>1. ~(Len(p) >= 1) /\ Len(p) \in Nat /\ 0 \in 0 .. N
      BY <1>3, <2>2
    <3> QED
      BY <1>2, <1>3, <2>2, <3>1
  <2>4. Chained(Cat(p, s), N, w) /\ Row(Cat(p, s), q, N, w) /\ Len(Cat(p, s)) >= 1
    BY <1>3, <2>1, <2>3, RowGreeted
  <2> QED
    BY <2>1, <2>2, <2>4 DEF Line
<1>9. ASSUME NEW n, NEW dropped \in BOOLEAN, Takes(c, d, n, dropped) PROVE Line(c, d)'
  <2>1. PICK s \in Seq(Mark), r \in Seq(Mark) :
          /\ q = Cat(s, r) /\ Inward(c, d)' = r
          /\ q[1].n = n /\ Len(s) = sent[c][d][n].size
          /\ Past(c, d)' = IF dropped THEN p ELSE Cat(p, s)
    BY <1>1, <1>9 DEF Takes
  <2>2. /\ n \in 1 .. N /\ Len(sent'[c][d]) = N /\ Sizes(c, d)' = w
        /\ Live(c)' /\ Live(c) /\ Handshaken(c, d)' /\ Handshaken(c, d)
    BY <1>1, <1>4, <1>9 DEF Takes
  <2>3. Row(p, Cat(s, r), N, w) /\ Len(p) >= 1
    BY <1>3, <2>1, <2>2
  <2>4. Cat(s, r)[1].n = n /\ Len(s) = w[n] /\ w[n] >= 1
    <3>1. n \in 0 .. N
      BY <2>2
    <3> QED
      BY <1>2, <2>1, <2>2, <3>1
  <2>5. Passed(n, N, w, p, s, r)
    BY <1>3, <2>2, <2>3, <2>4, RowTaken, Zenon
  <2>6. /\ Row(p, r, N, w)
        /\ Chained(Cat(p, s), N, w) /\ Row(Cat(p, s), r, N, w) /\ Len(Cat(p, s)) >= 1
    BY <2>5, Zenon DEF Passed
  <2> QED
    BY <1>3, <2>1, <2>2, <2>3, <2>6 DEF Line
<1> QED
  <2>1. \A e \in Event : e.dropped \in BOOLEAN
    BY DEF Event
  <2> QED
    BY <1>5, <1>6, <1>7, <1>8, <1>9, <2>1 DEF Moves

-----------------------------------------------------------------------------
LineInv == Calmness /\ \A c \in Conn, d \in Direction : Line(c, d)

LEMMA LineInit ==
  ASSUME Init
  PROVE  LineInv
<1>1. Calmness
  BY CalmInit
<1>2. Shape
  BY <1>1 DEF Calmness, KeysAligned
<1>3. ASSUME NEW c \in Conn, NEW d \in Direction PROVE Line(c, d)
  <2>1. /\ received[c][d] = <<>> /\ leaving[c][d] = <<>> /\ OutOf(c, d) = <<>>
        /\ arriving[c][d] = <<>> /\ buf[c][d] = <<>> /\ sent[c][d] = <<>>
        /\ ~Handshaken(c, d)
    BY <1>3 DEF Init, MitmInit, OutOf, Handshaken
  <2>2. Past(c, d) = <<>>
    <3>1. Past(c, d) = Three(<<>>, <<>>, <<>>)
      BY <1>2, <2>1, PastNow, Zenon
    <3>2. Three(<<>>, <<>>, <<>>) = <<>>
      BY MarksNone, CatNone, Zenon DEF Three
    <3> QED
      BY <3>1, <3>2
  <2>3. Inward(c, d) = <<>>
    <3>1. Inward(c, d) = Two(<<>>, Rest(<<>>, KeySize[d]))
      BY <2>1, Zenon DEF Inward
    <3>2. Rest(<<>>, KeySize[d]) = <<>>
      BY KeySizes DEF Rest
    <3>3. Two(<<>>, <<>>) = <<>>
      BY MarksNone, CatNone, Zenon DEF Two
    <3> QED
      BY <3>1, <3>2, <3>3, Zenon
  <2>4. Len(<<>>) = 0
    OBVIOUS
  <2> QED
    BY <2>1, <2>2, <2>3, <2>4 DEF Line, Chained, Row, Ended, Queued
<1> QED
  BY <1>1, <1>3 DEF LineInv

LEMMA LineStep == LineInv /\ [Next]_vars => LineInv'
<1> SUFFICES ASSUME LineInv, [Next]_vars PROVE LineInv'
  OBVIOUS
<1>1. Calmness /\ Calmness'
  BY CalmStep DEF LineInv
<1>2. Shape /\ Shape'
  BY <1>1 DEF Calmness, KeysAligned
<1>3. ASSUME NEW c \in Conn, NEW d \in Direction PROVE Line(c, d)'
  <2>1. Moves(c, d)
    BY <1>1, StepMoves
  <2>2. Line(c, d)
    BY DEF LineInv
  <2> QED
    BY <1>2, <2>1, <2>2, LineMoves
<1> QED
  BY <1>1, <1>3 DEF LineInv

LEMMA PlainClear ==
  ASSUME NEW byte \in Unit, Plain(byte)
  PROVE  byte = Clear(byte.n, byte.part)
BY DEF Unit, Plain, Clear

(* What a receiver has read is a beginning of what was let through. *)
LEMMA ReceivedInOrder ==
  ASSUME LineInv, NEW c \in Conn, NEW d \in Direction
  PROVE  InOrder(c, d, received[c][d])
<1>0. Shape /\ Opening(c, d) /\ Line(c, d)
  BY DEF LineInv, Calmness, KeysAligned, Calm
<1>1. PICK R \in Seq(Unit) : R = received[c][d]
  BY <1>0, ShapeAt
<1>2. PICK M \in Seq(Mark) :
        /\ M = Marks(R) /\ Len(M) = Len(R)
        /\ \A k \in 1 .. Len(R) : M[k].n = R[k].n /\ M[k].part = R[k].part
  BY MarksType
<1>2a. PICK N \in Nat : N = Len(sent[c][d])
  BY <1>0, SizesType
<1>3. PICK w \in [0 .. N -> Nat] :
        /\ N = Len(sent[c][d]) /\ w = Sizes(c, d)
        /\ \A n \in 0 .. N : w[n] = SizeOf(c, d, n)
  BY <1>0, <1>2a, SizesType
<1>4. Chained(M, N, w)
  <2>1. PICK l \in Seq(Mark), o \in Seq(Mark) : Past(c, d) = Cat(Cat(M, l), o)
    <3>1. leaving[c][d] \in Seq(Unit) /\ OutOf(c, d) \in Seq(Unit)
      BY <1>0, ShapeAt, PastNow
    <3>2. Marks(leaving[c][d]) \in Seq(Mark) /\ Marks(OutOf(c, d)) \in Seq(Mark)
      BY <3>1, MarksType
    <3>3. Past(c, d) = Cat(Cat(M, Marks(leaving[c][d])), Marks(OutOf(c, d)))
      BY <1>0, <1>1, <1>2, PastNow, Zenon DEF Three
    <3> QED
      BY <3>2, <3>3, Zenon
  <2>2. Chained(Cat(Cat(M, l), o), N, w)
    BY <1>0, <1>3, <2>1, Zenon DEF Line
  <2>3. Cat(M, l) \in Seq(Mark)
    BY CatType
  <2>4. Chained(Cat(M, l), N, w)
    BY <2>2, <2>3, ChainedLess
  <2> QED
    BY <2>4, ChainedLess
<1>5. \A k \in 1 .. Len(R) : R[k] \in Unit /\ R[k] = Clear(R[k].n, R[k].part)
  <2>1. \A k \in 1 .. Len(R) : R[k] \in Unit /\ Plain(R[k])
    BY <1>0, <1>1 DEF Opening
  <2> QED
    BY <2>1, PlainClear
<1>6. \A k \in 1 .. Len(R) : R[k].n \in 0 .. N /\ R[k].part \in 1 .. w[R[k].n]
  BY <1>2, <1>4 DEF Chained, Known
<1>7. Len(R) >= 1 => R[1] = Clear(0, 1)
  <2>1. Len(R) >= 1 => 1 \in 1 .. Len(R) /\ R[1].n = 0 /\ R[1].part = 1
    BY <1>2, <1>4 DEF Chained
  <2> QED
    BY <1>5, <2>1
<1>8. ASSUME NEW k \in 1 .. Len(R) - 1
      PROVE  IF R[k].part < SizeOf(c, d, R[k].n)
               THEN R[k + 1] = Clear(R[k].n, R[k].part + 1)
               ELSE R[k + 1] = Clear(R[k + 1].n, 1) /\ R[k + 1].n \in R[k].n + 1 .. N
  <2>1. k \in 1 .. Len(R) /\ k + 1 \in 1 .. Len(R)
    OBVIOUS
  <2>2. Later(M[k], M[k + 1], w)
    BY <1>2, <1>4 DEF Chained
  <2>3. M[k].n = R[k].n /\ M[k].part = R[k].part /\ M[k + 1].n = R[k + 1].n /\ M[k + 1].part = R[k + 1].part
    BY <1>2, <2>1
  <2>4. w[R[k].n] = SizeOf(c, d, R[k].n) /\ R[k].n \in 0 .. N /\ R[k + 1].n \in 0 .. N
    BY <1>3, <1>6, <2>1
  <2>5. IF R[k].part < SizeOf(c, d, R[k].n)
          THEN R[k + 1].n = R[k].n /\ R[k + 1].part = R[k].part + 1
          ELSE R[k + 1].n > R[k].n /\ R[k + 1].part = 1
    BY <2>2, <2>3, <2>4 DEF Later
  <2>6. R[k + 1] = Clear(R[k + 1].n, R[k + 1].part)
    BY <1>5, <2>1
  <2> QED
    BY <2>4, <2>5, <2>6
<1>9. R # <<>> => Len(R) >= 1
  OBVIOUS
<1> QED
  BY <1>1, <1>3, <1>7, <1>8, <1>9 DEF InOrder

(* mitm.rs:214, main.rs:171: however the bytes are cut into reads, whatever is
   dropped and wherever the connection ends, a receiver gets the handshake and
   then whole packets, in order, each at most once; only the last one may not be
   complete. *)
THEOREM IntelligibleCorrect == Spec => []Intelligible
<1>1. Init => LineInv
  BY LineInit
<1>2. LineInv /\ [Next]_vars => LineInv'
  BY LineStep
<1>3. LineInv => Intelligible
  BY ReceivedInOrder DEF Intelligible
<1> QED
  BY <1>1, <1>2, <1>3, PTL DEF Spec

LEMMA PrefixCat ==
  ASSUME NEW a \in Seq(Mark), NEW b \in Seq(Mark)
  PROVE  IsPrefix(a, a) /\ IsPrefix(a, Cat(a, b))
BY DEF IsPrefix, Cat

(* Once drop_packets is set nothing is let through. *)
LEMMA StoppedMoves ==
  ASSUME LineInv, [Next]_vars, NEW c \in Conn, NEW d \in Direction, drop_packets'[c]
  PROVE  IsPrefix(Past(c, d)', Past(c, d))
<1>1. Moves(c, d) /\ DropOpen
  BY StepMoves DEF LineInv, Calmness
<1>2. Past(c, d) \in Seq(Mark)
  BY PastNow DEF LineInv, Calmness, KeysAligned
<1>3. CASE Past(c, d)' = Past(c, d)
  <2>1. <<>> \in Seq(Mark)
    BY MarksNone
  <2>2. IsPrefix(Past(c, d), Past(c, d))
    BY <1>2, <2>1, PrefixCat
  <2> QED
    BY <1>3, <2>2, Zenon
<1>4. CASE Still(c, d) \/ Sends(c, d)
  BY <1>3, <1>4 DEF Still, Sends
<1>5. CASE Ends(c, d)
  <2>1. PICK u \in Seq(Mark), s \in Seq(Mark) : u = Past(c, d)' /\ Past(c, d) = Cat(u, s)
    BY <1>5 DEF Ends
  <2>2. IsPrefix(u, Cat(u, s))
    BY PrefixCat
  <2> QED
    BY <2>1, <2>2, Zenon
<1>6. CASE Greets(c, d)
  <2>1. ~Handshaken(c, d) /\ drop_packets[c]
    BY <1>6 DEF Greets
  <2> QED
    BY <1>1, <2>1 DEF DropOpen, Handshaken
<1>7. ASSUME NEW e \in Event, Takes(c, d, e.n, e.dropped), drop_packets'[c] => e.dropped
      PROVE  Past(c, d)' = Past(c, d)
  BY <1>7 DEF Takes
<1> QED
  BY <1>1, <1>3, <1>4, <1>5, <1>6, <1>7 DEF Moves

(* mitm.rs:234, 253: when a packet of STOP has been cut out, in whichever direction
   and of whatever is being read or written meanwhile, nothing is let through
   any more in either direction. *)
THEOREM SilentCorrect == Spec => SilentAfterStop
<1>1. Init => LineInv
  BY LineInit
<1>2. LineInv /\ [Next]_vars => LineInv'
  BY LineStep
<1>3. LineInv /\ [Next]_vars =>
        [\A c \in Conn, d \in Direction :
           drop_packets'[c] => IsPrefix(Past(c, d)', Past(c, d))]_vars
  BY StoppedMoves
<1> QED
  BY <1>1, <1>2, <1>3, PTL DEF Spec, SilentAfterStop

-----------------------------------------------------------------------------
(* What the window has heard of a direction: the events of the list and behind
   them those of the channel. *)
Told == packets \o events

Of(e, c, d) == e.conn = c /\ e.dir = d

Has(p, n) == \E k \in 1 .. Len(p) : p[k].n = n

(* Each packet before the next one, once and in order, and of each whether it
   is among p. *)
Heard(told, c, d, p, next) ==
  /\ \A j, k \in 1 .. Len(told) :
       Of(told[j], c, d) /\ Of(told[k], c, d) /\ j < k => told[j].n < told[k].n
  /\ \A k \in 1 .. Len(told) :
       Of(told[k], c, d) => told[k].n \in 1 .. next - 1 /\ (~told[k].dropped <=> Has(p, told[k].n))
  /\ \A n \in 1 .. next - 1 : \E k \in 1 .. Len(told) : Of(told[k], c, d) /\ told[k].n = n

LEMMA HasCat ==
  ASSUME NEW a \in Seq(Mark), NEW b \in Seq(Mark), NEW n
  PROVE  Has(Cat(a, b), n) <=> Has(a, n) \/ Has(b, n)
<1>1. Has(Cat(a, b), n) => Has(a, n) \/ Has(b, n)
  <2>1. ASSUME NEW k \in 1 .. Len(Cat(a, b)), Cat(a, b)[k].n = n PROVE Has(a, n) \/ Has(b, n)
    <3>1. k \in 1 .. Len(a) + Len(b)
      BY CatType
    <3>2. \/ k \in 1 .. Len(a) /\ Cat(a, b)[k] = a[k]
          \/ \E j \in 1 .. Len(b) : k = Len(a) + j /\ Cat(a, b)[k] = b[j]
      BY <3>1, CatElements
    <3> QED
      BY <2>1, <3>2 DEF Has
  <2> QED
    BY <2>1 DEF Has
<1>2. ASSUME NEW k \in 1 .. Len(a), a[k].n = n PROVE Has(Cat(a, b), n)
  <2>1. k \in 1 .. Len(Cat(a, b)) /\ Cat(a, b)[k] = a[k]
    <3>1. /\ Len(Cat(a, b)) = Len(a) + Len(b)
          /\ \A i \in 1 .. Len(a) : Cat(a, b)[i] = a[i]
          /\ \A i \in 1 .. Len(b) : Cat(a, b)[Len(a) + i] = b[i]
      BY CatType
    <3> QED
      BY <3>1
  <2> QED
    BY <1>2, <2>1 DEF Has
<1>3. ASSUME NEW k \in 1 .. Len(b), b[k].n = n PROVE Has(Cat(a, b), n)
  <2>1. Len(a) + k \in 1 .. Len(Cat(a, b)) /\ Cat(a, b)[Len(a) + k] = b[k]
    <3>1. /\ Len(Cat(a, b)) = Len(a) + Len(b)
          /\ \A i \in 1 .. Len(a) : Cat(a, b)[i] = a[i]
          /\ \A i \in 1 .. Len(b) : Cat(a, b)[Len(a) + i] = b[i]
      BY CatType
    <3> QED
      BY <3>1
  <2> QED
    BY <1>3, <2>1 DEF Has
<1> QED
  BY <1>1, <1>2, <1>3 DEF Has

LEMMA SingleHas ==
  ASSUME NEW s \in Seq(Mark), NEW n, NEW size \in Nat, size >= 1, Single(s, n, size)
  PROVE  \A m : Has(s, m) <=> m = n
BY DEF Single, Has

(* An event of another direction, *)
LEMMA HeardOther ==
  ASSUME NEW told \in Seq(Event), NEW e \in Event, NEW c, NEW d, NEW p, NEW next \in Nat,
         ~Of(e, c, d), Heard(told, c, d, p, next)
  PROVE  Heard(Append(told, e), c, d, p, next)
<1> PICK u : u = Append(told, e)
  OBVIOUS
<1>1. /\ u \in Seq(Event) /\ Len(u) = Len(told) + 1 /\ u[Len(told) + 1] = e
      /\ \A k \in 1 .. Len(told) : u[k] = told[k]
  BY Appended
<1>2. Len(told) \in Nat
  OBVIOUS
<1>3. \A k \in 1 .. Len(u) : Of(u[k], c, d) => k \in 1 .. Len(told) /\ u[k] = told[k]
  BY <1>1, <1>2
<1>4. \A k \in 1 .. Len(told) : k \in 1 .. Len(u) /\ u[k] = told[k]
  BY <1>1, <1>2
<1>5. Heard(u, c, d, p, next)
  BY <1>3, <1>4 DEF Heard
<1> QED
  BY <1>5

(* the event of the next packet, *)
LEMMA HeardTaken ==
  ASSUME NEW told \in Seq(Event), NEW e \in Event, NEW c, NEW d, NEW p, NEW q, NEW next \in Nat,
         Of(e, c, d), e.n = next, next >= 1, Heard(told, c, d, p, next),
         \A n \in 1 .. next - 1 : Has(q, n) <=> Has(p, n),
         ~e.dropped <=> Has(q, next)
  PROVE  Heard(Append(told, e), c, d, q, next + 1)
<1> PICK u : u = Append(told, e)
  OBVIOUS
<1>1. /\ u \in Seq(Event) /\ Len(u) = Len(told) + 1 /\ u[Len(told) + 1] = e
      /\ \A k \in 1 .. Len(told) : u[k] = told[k]
  BY Appended
<1>2. Len(told) \in Nat /\ (next + 1) - 1 = next
  OBVIOUS
<1>3. \A k \in 1 .. Len(u) :
        \/ k \in 1 .. Len(told) /\ u[k] = told[k]
        \/ k = Len(told) + 1 /\ u[k] = e
  BY <1>1, <1>2
<1>4. \A k \in 1 .. Len(told) : k \in 1 .. Len(u) /\ u[k] = told[k]
  BY <1>1, <1>2
<1>5. \A k \in 1 .. Len(told) : Of(told[k], c, d) => told[k].n \in 1 .. next - 1
  BY DEF Heard
<1>6. ASSUME NEW j \in 1 .. Len(u), NEW k \in 1 .. Len(u), Of(u[j], c, d), Of(u[k], c, d), j < k
      PROVE  u[j].n < u[k].n
  <2>1. j \in 1 .. Len(told) /\ u[j] = told[j]
    BY <1>1, <1>2, <1>3, <1>6
  <2>2. CASE k \in 1 .. Len(told) /\ u[k] = told[k]
    BY <1>6, <2>1, <2>2 DEF Heard
  <2>3. CASE u[k] = e
    BY <1>5, <1>6, <2>1, <2>3
  <2> QED
    BY <1>3, <2>2, <2>3
<1>7. ASSUME NEW k \in 1 .. Len(u), Of(u[k], c, d)
      PROVE  u[k].n \in 1 .. next /\ (~u[k].dropped <=> Has(q, u[k].n))
  <2>1. CASE k \in 1 .. Len(told) /\ u[k] = told[k]
    BY <1>5, <1>7, <2>1 DEF Heard
  <2>2. CASE u[k] = e
    BY <2>2
  <2> QED
    BY <1>3, <2>1, <2>2
<1>8. ASSUME NEW n \in 1 .. next PROVE \E k \in 1 .. Len(u) : Of(u[k], c, d) /\ u[k].n = n
  <2>1. CASE n \in 1 .. next - 1
    BY <1>4, <2>1, SMTT(20) DEF Heard
  <2>2. CASE n = next
    <3>1. Len(told) + 1 \in 1 .. Len(u)
      BY <1>1, <1>2
    <3> QED
      BY <1>1, <2>2, <3>1
  <2> QED
    BY <2>1, <2>2
<1>9. Heard(u, c, d, q, next + 1)
  BY <1>2, <1>6, <1>7, <1>8 DEF Heard
<1> QED
  BY <1>9

(* and the handshake, of which there is none. *)
LEMMA HeardGreeted ==
  ASSUME NEW told \in Seq(Event), NEW c, NEW d, NEW p, NEW q, NEW next \in Nat,
         Heard(told, c, d, p, next), \A n \in 1 .. next - 1 : Has(q, n) <=> Has(p, n)
  PROVE  Heard(told, c, d, q, next)
BY DEF Heard

(* Nothing is heard of a direction but what its task takes. *)
Elsewhere(c, d) ==
  \/ Told' = Told
  \/ \E e \in Event : ~Of(e, c, d) /\ Told' = Append(Told, e)

(* While nothing is missed, a step of the window leaves list and channel
   together as they are, *)
LEMMA WindowTold ==
  ASSUME ChannelType, WindowNext, ~missed'
  PROVE  ~missed /\ Told' = Told /\ Len(events') <= Len(events)
<1>1. CASE TakeEvent
  <2>1. events # <<>> /\ events' = Tail(events) /\ ~missed /\ packets' = Append(packets, Head(events))
    BY <1>1 DEF TakeEvent
  <2>2. Append(packets, Head(events)) \o Tail(events) = packets \o events
    BY <2>1, Moved DEF ChannelType
  <2>3. Len(events') <= Len(events)
    <3>1. Len(events) \in Nat /\ Len(Tail(events)) = Len(events) - 1
      BY <2>1, Behind DEF ChannelType
    <3> QED
      BY <2>1, <3>1
  <2> QED
    BY <2>1, <2>2, <2>3, Zenon DEF Told
<1>2. CASE ClickClear
  BY <1>2 DEF ClickClear
<1>3. CASE \/ ClickAdd \/ ClickRemove \/ ClickAddGroup \/ ClickEnable \/ ClickPause
           \/ ClickSave \/ CloseWindow \/ SaveStep
  <2>1. UNCHANGED <<events, packets, missed>>
    BY <1>3 DEF ClickAdd, ClickRemove, ClickAddGroup, ClickEnable, ClickPause, ClickSave, CloseWindow,
                SaveStep, WriteTmp, Rename, Edit, vars, guiVars, windowVars
  <2>2. Len(events) \in Nat
    <3>1. events \in Seq(Event)
      BY Zenon DEF ChannelType
    <3> QED
      BY <3>1
  <2> QED
    BY <2>1, <2>2 DEF Told
<1> QED
  BY <1>1, <1>2, <1>3 DEF WindowNext

(* and so does a step of a connection that does not take a packet. *)
LEMMA QuietTold ==
  ASSUME ChannelType, MitmNext, UNCHANGED windowVars, \A c \in Conn : ~TakePacket(c)
  PROVE  UNCHANGED <<missed, Told, events>>
BY Zenon DEF MitmNext, TaskStep, Select, EndStep, TakeBroken, LeaveLoop, Write, WriteFails,
       guiVars, windowVars, Told

LEMMA ToldMoves ==
  ASSUME Calmness, ChannelType, [Next]_vars, ~missed', NEW c \in Conn, NEW d \in Direction
  PROVE  /\ ~missed
         /\ \/ Elsewhere(c, d) /\ (Still(c, d) \/ Ends(c, d) \/ Sends(c, d) \/ Greets(c, d))
            \/ \E e \in Event :
                 Of(e, c, d) /\ Takes(c, d, e.n, e.dropped) /\ Told' = Append(Told, e)
<1>0. Shape /\ Shape' /\ KeysAligned /\ DropOpen
  BY AlignedStep DEF Calmness, KeysAligned
<1>1. packets \in Seq(Event) /\ events \in Seq(Event) /\ Len(events) \in Nat
  BY DEF ChannelType
<1>2. ASSUME NEW e \in Event, TrySend(e)
      PROVE  ~missed /\ events' = Append(events, e) /\ Len(events') > Len(events)
  <2>1. ~missed /\ events' = Append(events, e)
    BY <1>2 DEF TrySend
  <2>2. Len(Append(events, e)) = Len(events) + 1
    BY <1>1
  <2> QED
    BY <1>1, <2>1, <2>2
<1>3. CASE ~missed /\ Told' = Told /\ Len(events') <= Len(events)
  <2>1. Len(events') \in Nat
    BY AlignedStep, ChannelStep, <1>0 DEF ChannelType
  <2>2. ~\E e \in Event : TrySend(e)
    BY <1>1, <1>2, <1>3, <2>1
  <2>3. Still(c, d) \/ Ends(c, d) \/ Sends(c, d) \/ Greets(c, d)
    BY <2>2, StepMoves DEF Moves
  <2> QED
    BY <1>3, <2>3 DEF Elsewhere
<1>4. ASSUME NEW b \in Conn, TakePacket(b), UNCHANGED windowVars
      PROVE  /\ ~missed
             /\ \/ Elsewhere(c, d) /\ Still(c, d)
                \/ \E e \in Event :
                     Of(e, c, d) /\ Takes(c, d, e.n, e.dropped) /\ Told' = Append(Told, e)
  <2>1. dir[b] \in Direction
    BY <1>0, ShapeAt
  <2>2. PICK e \in Event : /\ e.conn = b /\ e.dir = dir[b] /\ Takes(b, dir[b], e.n, e.dropped)
                           /\ TrySend(e)
    BY <1>0, <1>4, <2>1, TakePacketTakes DEF DropOpen
  <2>3. ~missed /\ Told' = Append(Told, e)
    <3>1. ~missed /\ events' = Append(events, e) /\ packets' = packets
      BY <1>2, <1>4, <2>2 DEF windowVars
    <3>2. packets \o Append(events, e) = Append(packets \o events, e)
      BY <1>1, JoinedAppend
    <3> QED
      BY <3>1, <3>2, Zenon DEF Told
  <2>4. CASE c = b /\ d = dir[b]
    BY <2>2, <2>3, <2>4 DEF Of
  <2>5. CASE c = b /\ d # dir[b]
    <3>1. Still(c, d)
      BY <1>0, <1>4, <2>5, TakePacketTakes DEF DropOpen
    <3> QED
      BY <2>2, <2>3, <2>5, <3>1 DEF Of, Elsewhere
  <2>6. CASE c # b
    <3>1. Still(c, d)
      BY <1>0, <1>4, <2>6, OthersSame, SameStill DEF TaskStep
    <3> QED
      BY <2>2, <2>3, <2>6, <3>1 DEF Of, Elsewhere
  <2> QED
    BY <2>4, <2>5, <2>6
<1>5. CASE MitmNext /\ UNCHANGED windowVars /\ \A b \in Conn : ~TakePacket(b)
  BY <1>1, <1>3, <1>5, QuietTold
<1>6. CASE WindowNext
  BY <1>3, <1>6, WindowTold
<1>7. CASE UNCHANGED vars
  <2>1. UNCHANGED <<missed, events, packets>>
    BY <1>7 DEF vars, guiVars, windowVars
  <2> QED
    BY <1>1, <1>3, <2>1 DEF Told
<1> QED
  BY <1>4, <1>5, <1>6, <1>7 DEF Next

-----------------------------------------------------------------------------
(* The window has heard of every packet of an open connection that was cut
   out. *)
Tells(c, d) ==
  Live(c) /\ ~missed =>
    Heard(Told, c, d, Past(c, d), NextOf(Inward(c, d), Len(sent[c][d])))

HeardInv == LineInv /\ ChannelType /\ \A c \in Conn, d \in Direction : Tells(c, d)

LEMMA ElsewhereHeard ==
  ASSUME ChannelType, NEW c \in Conn, NEW d \in Direction, Elsewhere(c, d),
         NEW p, NEW next \in Nat, Heard(Told, c, d, p, next)
  PROVE  Heard(Told', c, d, p, next)
<1>1. Told \in Seq(Event)
  BY Joined DEF ChannelType, Told
<1>2. ASSUME NEW e \in Event, ~Of(e, c, d) PROVE Heard(Append(Told, e), c, d, p, next)
  BY <1>1, <1>2, HeardOther
<1> QED
  BY <1>2, Zenon DEF Elsewhere

LEMMA TellsStep ==
  ASSUME HeardInv, [Next]_vars, NEW c \in Conn, NEW d \in Direction
  PROVE  Tells(c, d)'
<1>0. SUFFICES ASSUME Live(c)', ~missed'
               PROVE  Heard(Told', c, d, Past(c, d)', NextOf(Inward(c, d), Len(sent[c][d]))')
  BY DEF Tells
<1>1. /\ Shape /\ Shape' /\ Line(c, d) /\ Calmness /\ ChannelType /\ Tells(c, d)
  BY AlignedStep DEF HeardInv, LineInv, Calmness, KeysAligned
<1>2. /\ ~missed
      /\ \/ Elsewhere(c, d) /\ (Still(c, d) \/ Ends(c, d) \/ Sends(c, d) \/ Greets(c, d))
         \/ \E e \in Event :
              Of(e, c, d) /\ Takes(c, d, e.n, e.dropped) /\ Told' = Append(Told, e)
  BY <1>0, <1>1, ToldMoves
<1>3. PICK N \in Nat : N = Len(sent[c][d])
  BY <1>1, SizesType
<1>4. PICK w \in [0 .. N -> Nat], p \in Seq(Mark), q \in Seq(Mark) :
        w = Sizes(c, d) /\ p = Past(c, d) /\ q = Inward(c, d)
  <2>1. Sizes(c, d) \in [0 .. N -> Nat]
    BY <1>1, <1>3, SizesType
  <2>2. Past(c, d) \in Seq(Mark) /\ Inward(c, d) \in Seq(Mark)
    BY <1>1, PastNow, InwardNow
  <2> QED
    BY <2>1, <2>2, Zenon
<1>5. /\ w[0] = KeySize[d] /\ \A n \in 0 .. N : w[n] >= 1
      /\ \A n \in 1 .. N : w[n] = sent[c][d][n].size
  BY <1>1, <1>3, <1>4, SizesType
<1>6. ASSUME Live(c)
      PROVE  /\ Chained(p, N, w) /\ Row(p, q, N, w) /\ (Handshaken(c, d) <=> Len(p) >= 1)
             /\ Heard(Told, c, d, p, NextOf(q, N))
             /\ NextOf(q, N) \in Nat
  <2>1. Chained(p, N, w) /\ Row(p, q, N, w) /\ (Handshaken(c, d) <=> Len(p) >= 1)
    BY <1>1, <1>3, <1>4, <1>6 DEF Line
  <2>2. Heard(Told, c, d, p, NextOf(q, N))
    BY <1>1, <1>2, <1>3, <1>4, <1>6 DEF Tells
  <2>3. NextOf(q, N) \in 1 .. N + 1
    BY <2>1, QueuedAll DEF Row
  <2> QED
    BY <2>1, <2>2, <2>3
<1>7. CASE Elsewhere(c, d) /\ Still(c, d)
  <2>1. /\ Past(c, d)' = p /\ Inward(c, d)' = q /\ Len(sent'[c][d]) = N /\ Live(c)
    BY <1>0, <1>3, <1>4, <1>7 DEF Still
  <2>2. Heard(Told', c, d, p, NextOf(q, N))
    BY <1>1, <1>6, <1>7, <2>1, ElsewhereHeard
  <2> QED
    BY <2>1, <2>2, Zenon
<1>8. CASE Elsewhere(c, d) /\ Sends(c, d)
  <2>1. PICK k \in Kind, s \in Seq(Mark) :
          /\ sent'[c][d] = Append(sent[c][d], k)
          /\ Single(s, N + 1, k.size)
          /\ Inward(c, d)' = Cat(q, s)
    BY <1>3, <1>4, <1>8 DEF Sends
  <2>2. PICK v \in [0 .. N + 1 -> Nat] :
          /\ v = Sizes(c, d)' /\ Len(sent'[c][d]) = N + 1
          /\ \A n \in 0 .. N : v[n] = w[n]
          /\ v[N + 1] = k.size /\ v[N + 1] >= 1
    BY <1>1, <1>3, <1>4, <2>1, SizesMore
  <2>3. Single(s, N + 1, v[N + 1])
    BY <2>1, <2>2
  <2>4. Past(c, d)' = p /\ Live(c)
    BY <1>0, <1>4, <1>8 DEF Sends
  <2>5. NextOf(Cat(q, s), N + 1) = NextOf(q, N)
    BY <1>6, <2>2, <2>3, <2>4, QueuedMore, ZenonT(30) DEF Row
  <2>6. Heard(Told', c, d, p, NextOf(q, N))
    BY <1>1, <1>6, <1>8, <2>4, ElsewhereHeard
  <2> QED
    BY <2>1, <2>2, <2>4, <2>5, <2>6, Zenon
<1>9. CASE Elsewhere(c, d) /\ Greets(c, d)
  <2>1. PICK s \in Seq(Mark) : Single(s, 0, w[0]) /\ Past(c, d)' = Cat(p, s)
    BY <1>4, <1>5, <1>9 DEF Greets
  <2>2. /\ Inward(c, d)' = q /\ Len(sent'[c][d]) = N /\ Live(c)
    BY <1>3, <1>4, <1>9 DEF Greets
  <2>3. Heard(Told', c, d, p, NextOf(q, N)) /\ NextOf(q, N) \in Nat
    BY <1>1, <1>6, <1>9, <2>2, ElsewhereHeard
  <2>4. w[0] \in Nat /\ w[0] >= 1
    <3>1. 0 \in 0 .. N
      BY <1>3
    <3> QED
      BY <1>5, <3>1
  <2>5. \A m : Has(s, m) <=> m = 0
    BY <2>1, <2>4, SingleHas
  <2>6. \A n \in 1 .. NextOf(q, N) - 1 : Has(Cat(p, s), n) <=> Has(p, n)
    <3> TAKE n \in 1 .. NextOf(q, N) - 1
    <3>1. n # 0
      OBVIOUS
    <3>2. Has(Cat(p, s), n) <=> Has(p, n) \/ Has(s, n)
      BY HasCat
    <3> QED
      BY <2>5, <3>1, <3>2
  <2>7. Told' \in Seq(Event)
    BY <1>1, ChannelStep, Joined DEF ChannelType, Told, Calmness
  <2>8. Heard(Told', c, d, Cat(p, s), NextOf(q, N))
    BY <2>3, <2>6, <2>7, HeardGreeted
  <2> QED
    BY <2>1, <2>2, <2>8, Zenon
<1>10. ASSUME NEW e \in Event, Of(e, c, d), Takes(c, d, e.n, e.dropped), Told' = Append(Told, e)
       PROVE  Heard(Told', c, d, Past(c, d)', NextOf(Inward(c, d), Len(sent[c][d]))')
  <2>0. PICK n \in 1 .. N, dropped \in BOOLEAN :
          n = e.n /\ dropped = e.dropped /\ Takes(c, d, n, dropped)
    <3>1. e.n \in 1 .. N /\ e.dropped \in BOOLEAN
      BY <1>3, <1>10 DEF Takes, Event
    <3> QED
      BY <1>10, <3>1
  <2>1. PICK s \in Seq(Mark), r \in Seq(Mark) :
          /\ q = Cat(s, r) /\ Inward(c, d)' = r
          /\ q[1].n = n /\ Len(s) = sent[c][d][n].size
          /\ Past(c, d)' = IF dropped THEN p ELSE Cat(p, s)
    BY <1>4, <2>0 DEF Takes
  <2>2. Len(sent'[c][d]) = N /\ Live(c) /\ Handshaken(c, d)
    BY <1>3, <2>0 DEF Takes
  <2>3. Row(p, Cat(s, r), N, w) /\ Len(p) >= 1 /\ Chained(p, N, w)
    BY <1>6, <2>1, <2>2
  <2>4. Cat(s, r)[1].n = n /\ Len(s) = w[n] /\ w[n] >= 1 /\ w[n] \in Nat
    <3>1. n \in 0 .. N
      BY <2>0
    <3> QED
      BY <1>5, <2>1, <3>1
  <2>5. Passed(n, N, w, p, s, r)
    BY <2>3, <2>4, RowTaken, Zenon
  <2>6. NextOf(q, N) = n /\ NextOf(r, N) = n + 1 /\ Single(s, n, w[n])
    BY <2>1, <2>5, Zenon DEF Passed
  <2>7. Heard(Told, c, d, p, n) /\ \A k \in 1 .. Len(p) : p[k].n < n
    BY <1>6, <2>1, <2>2, <2>3, <2>6 DEF Row
  <2>8. \A m : Has(s, m) <=> m = n
    BY <2>4, <2>6, SingleHas
  <2>9. PICK t : t = Past(c, d)' /\ t = IF dropped THEN p ELSE Cat(p, s)
    BY <2>1
  <2>10. ~Has(p, n)
    <3>1. \A k \in 1 .. Len(p) : p[k].n < n
      BY <2>7
    <3>2. n \in Nat /\ ~(n < n)
      BY <2>0
    <3> QED
      BY <3>1, <3>2, Zenon DEF Has
  <2>11. \A m : Has(Cat(p, s), m) <=> Has(p, m) \/ Has(s, m)
    BY HasCat
  <2>12. (\A m \in 1 .. n - 1 : Has(t, m) <=> Has(p, m)) /\ (~dropped <=> Has(t, n))
    <3>1. CASE dropped
      BY <2>9, <2>10, <3>1
    <3>2. CASE ~dropped
      <4>1. \A m \in 1 .. n - 1 : m # n
        OBVIOUS
      <4> QED
        BY <2>8, <2>9, <2>11, <3>2, <4>1
    <3> QED
      BY <3>1, <3>2
  <2>13. Told \in Seq(Event) /\ n \in Nat /\ n >= 1
    BY <1>1, Joined DEF ChannelType, Told
  <2>14. Heard(Append(Told, e), c, d, t, n + 1)
    BY <1>10, <2>0, <2>7, <2>12, <2>13, HeardTaken
  <2> QED
    BY <1>10, <2>1, <2>2, <2>6, <2>9, <2>14, Zenon
<1>11. CASE Ends(c, d)
  BY <1>0, <1>11 DEF Ends
<1> QED
  BY <1>2, <1>7, <1>8, <1>9, <1>10, <1>11

LEMMA HeardInit ==
  ASSUME Init
  PROVE  HeardInv
<1>1. LineInv
  BY LineInit
<1>2. events = <<>> /\ packets = <<>>
  BY DEF Init, GuiInit, WindowInit
<1>3. ChannelType
  BY <1>2, GuiStateAssumption, WindowAssumption DEF ChannelType
<1>4. Told = <<>> /\ Len(<<>>) = 0
  BY <1>2 DEF Told
<1>5. ASSUME NEW c \in Conn, NEW d \in Direction PROVE Tells(c, d)
  <2>1. Inward(c, d) = <<>> /\ Len(sent[c][d]) = 0
    <3>1. /\ arriving[c][d] = <<>> /\ buf[c][d] = <<>> /\ sent[c][d] = <<>>
          /\ ~Handshaken(c, d)
      BY <1>5 DEF Init, MitmInit, Handshaken
    <3>2. Inward(c, d) = Two(<<>>, Rest(<<>>, KeySize[d]))
      BY <3>1, Zenon DEF Inward
    <3>3. Rest(<<>>, KeySize[d]) = <<>>
      BY KeySizes DEF Rest
    <3>4. Two(<<>>, <<>>) = <<>>
      BY MarksNone, CatNone, Zenon DEF Two
    <3>5. Inward(c, d) = <<>>
      BY <3>2, <3>3, <3>4, Zenon
    <3> QED
      BY <1>4, <3>1, <3>5, Zenon
  <2>2. NextOf(Inward(c, d), Len(sent[c][d])) = 1
    BY <1>4, <2>1 DEF NextOf
  <2> QED
    BY <1>4, <2>2 DEF Tells, Heard
<1> QED
  BY <1>1, <1>3, <1>5 DEF HeardInv

LEMMA HeardStep == HeardInv /\ [Next]_vars => HeardInv'
<1> SUFFICES ASSUME HeardInv, [Next]_vars PROVE HeardInv'
  OBVIOUS
<1>1. LineInv' /\ KeysAligned /\ ChannelType
  BY LineStep DEF HeardInv, LineInv, Calmness
<1>2. ChannelType'
  BY <1>1, ChannelStep
<1> QED
  BY <1>1, <1>2, TellsStep DEF HeardInv

(* What is in the buffer and on the wire, but for the handshake, is what waits. *)
LEMMA WaitingHas ==
  ASSUME HeardInv, NEW c \in Conn, NEW d \in Direction, Live(c), NEW n \in Nat, n >= 1
  PROVE  n \in Waiting(c, d) <=> Has(Inward(c, d), n)
<1>1. Shape /\ Greeting(c, d)
  BY DEF HeardInv, LineInv, Calmness, KeysAligned, Calm
<1>2. PICK K \in Nat, b \in Seq(Unit), a \in Seq(Unit) :
        K = (IF Handshaken(c, d) THEN 0 ELSE KeySize[d]) /\ b = buf[c][d] /\ a = arriving[c][d]
  <2>1. buf[c][d] \in Seq(Unit) /\ arriving[c][d] \in Seq(Unit) /\ KeySize[d] \in Nat
    BY <1>1, ShapeAt, KeySizes
  <2> QED
    BY <2>1
<1>3. \A k \in 1 .. Len(a) : k <= K => a[k].n = 0
  <2>1. CASE Handshaken(c, d)
    BY <1>2, <2>1
  <2>2. CASE ~Handshaken(c, d)
    BY <1>1, <1>2, <2>2 DEF Greeting
  <2> QED
    BY <2>1, <2>2
<1>4. PICK r \in Seq(Unit) :
        /\ r = Rest(a, K)
        /\ Len(r) = IF K <= Len(a) THEN Len(a) - K ELSE 0
        /\ \A k \in 1 .. Len(r) : K + k \in 1 .. Len(a) /\ r[k] = a[K + k]
  <2>1. PICK r : r = SubSeq(a, K + 1, Len(a))
    OBVIOUS
  <2>2. /\ r \in Seq(Unit)
        /\ Len(r) = IF K <= Len(a) THEN Len(a) - K ELSE 0
        /\ \A k \in 1 .. Len(r) : K + k \in 1 .. Len(a) /\ r[k] = a[K + k]
    BY <2>1, Shortened
  <2> QED
    BY <2>1, <2>2, Zenon DEF Rest
<1>5. PICK B \in Seq(Mark), R \in Seq(Mark) :
        /\ B = Marks(b) /\ R = Marks(r) /\ Len(B) = Len(b) /\ Len(R) = Len(r)
        /\ \A k \in 1 .. Len(b) : B[k].n = b[k].n
        /\ \A k \in 1 .. Len(r) : R[k].n = r[k].n
  BY MarksType
<1>6. Inward(c, d) = Cat(B, R)
  BY <1>2, <1>4, <1>5, Zenon DEF Inward, Two
<1>7. Has(Inward(c, d), n) <=> Has(B, n) \/ Has(R, n)
  BY <1>6, HasCat
<1>8. Has(B, n) <=> \E k \in 1 .. Len(b) : b[k].n = n
  BY <1>5 DEF Has
<1>9. Has(R, n) <=> \E k \in 1 .. Len(a) : a[k].n = n
  <2>1. ASSUME NEW k \in 1 .. Len(r), r[k].n = n PROVE \E j \in 1 .. Len(a) : a[j].n = n
    BY <1>4, <2>1
  <2>2. ASSUME NEW k \in 1 .. Len(a), a[k].n = n PROVE \E j \in 1 .. Len(r) : r[j].n = n
    <3>1. ~(k <= K) /\ Len(a) \in Nat
      BY <1>3, <2>2
    <3>2. k - K \in 1 .. Len(r) /\ K + (k - K) = k
      BY <1>4, <3>1
    <3> QED
      BY <1>4, <2>2, <3>2
  <2> QED
    BY <1>5, <2>1, <2>2 DEF Has
<1>10. n \in Waiting(c, d) <=> (\E k \in 1 .. Len(b) : b[k].n = n) \/ (\E k \in 1 .. Len(a) : a[k].n = n)
  <2>1. PICK u \in Seq(Unit) :
          /\ u = b \o a /\ Len(u) = Len(b) + Len(a)
          /\ \A k \in 1 .. Len(b) : u[k] = b[k]
          /\ \A k \in 1 .. Len(a) : u[Len(b) + k] = a[k]
    <3>1. PICK u : u = b \o a
      OBVIOUS
    <3>2. /\ u \in Seq(Unit) /\ Len(u) = Len(b) + Len(a)
          /\ \A k \in 1 .. Len(b) : u[k] = b[k]
          /\ \A k \in 1 .. Len(a) : u[Len(b) + k] = a[k]
      BY <3>1, Joined
    <3> QED
      BY <3>1, <3>2, Zenon
  <2>2. n \in Waiting(c, d) <=> \E k \in 1 .. Len(u) : u[k].n = n
    <3>1. DOMAIN u = 1 .. Len(u)
      OBVIOUS
    <3>2. Range(u) = {u[k] : k \in 1 .. Len(u)}
      BY <3>1 DEF Range
    <3>3. Waiting(c, d) = {byte.n : byte \in Range(u)}
      BY <1>2, <2>1, Zenon DEF Waiting
    <3> QED
      BY <3>2, <3>3
  <2>3. \A k \in 1 .. Len(b) : k \in 1 .. Len(u)
    BY <2>1
  <2>4. \A k \in 1 .. Len(a) : Len(b) + k \in 1 .. Len(u)
    BY <2>1
  <2>5. ASSUME NEW k \in 1 .. Len(u)
        PROVE  \/ k \in 1 .. Len(b) /\ u[k] = b[k]
               \/ \E j \in 1 .. Len(a) : u[k] = a[j]
    <3>1. CASE k <= Len(b)
      BY <2>1, <3>1
    <3>2. CASE ~(k <= Len(b))
      <4>1. k - Len(b) \in 1 .. Len(a) /\ Len(b) + (k - Len(b)) = k
        BY <2>1, <3>2
      <4> QED
        BY <2>1, <4>1
    <3> QED
      BY <3>1, <3>2
  <2> QED
    BY <2>1, <2>2, <2>3, <2>4, <2>5, ZenonT(30)
<1> QED
  BY <1>7, <1>8, <1>9, <1>10

LEMMA HeardTruth ==
  ASSUME HeardInv, NEW c \in Conn, NEW d \in Direction, ~missed, task[c] = "open"
  PROVE  LET told == packets \o events
             listed == {k \in DOMAIN told : told[k].conn = c /\ told[k].dir = d}
             kept == {k \in listed : ~told[k].dropped}
         IN /\ \A j, k \in listed : j < k => told[j].n < told[k].n
            /\ {told[k].n : k \in listed} = (1 .. Len(sent[c][d])) \ Waiting(c, d)
            /\ {told[k].n : k \in kept} = Forwarded(c, d)
<1>1. Shape /\ Line(c, d) /\ Tells(c, d) /\ ChannelType /\ Live(c)
  BY DEF HeardInv, LineInv, Calmness, KeysAligned, Live
<1>2. PICK N \in Nat : N = Len(sent[c][d])
  BY <1>1, SizesType
<1>3. PICK w \in [0 .. N -> Nat], p \in Seq(Mark), q \in Seq(Mark) :
        w = Sizes(c, d) /\ p = Past(c, d) /\ q = Inward(c, d)
  <2>1. Sizes(c, d) \in [0 .. N -> Nat]
    BY <1>1, <1>2, SizesType
  <2>2. Past(c, d) \in Seq(Mark) /\ Inward(c, d) \in Seq(Mark)
    BY <1>1, PastNow, InwardNow
  <2> QED
    BY <2>1, <2>2, Zenon
<1>4. Row(p, q, N, w)
  BY <1>1, <1>2, <1>3 DEF Line
<1>5. PICK next \in 1 .. N + 1 :
        /\ next = NextOf(q, N)
        /\ \A n \in 1 .. N : n >= next <=> Has(q, n)
  BY <1>4, QueuedAll DEF Row, Has
<1> DEFINE told == packets \o events
<1>6. told \in Seq(Event)
  BY <1>1, Joined DEF ChannelType
<1>7. Heard(told, c, d, p, next)
  BY <1>1, <1>2, <1>3, <1>5 DEF Tells, Told
<1> HIDE DEF told
<1> DEFINE listed == {k \in DOMAIN told : told[k].conn = c /\ told[k].dir = d}
           kept == {k \in listed : ~told[k].dropped}
<1>8. \A k : k \in listed <=> k \in 1 .. Len(told) /\ Of(told[k], c, d)
  BY <1>6 DEF Of
<1>9. \A k : k \in kept <=> k \in listed /\ ~told[k].dropped
  OBVIOUS
<1> HIDE DEF listed, kept
<1>10. \A j, k \in listed : j < k => told[j].n < told[k].n
  BY <1>7, <1>8 DEF Heard
<1>11. \A n \in 1 .. N : n \in Waiting(c, d) <=> n >= next
  BY <1>1, <1>3, <1>5, WaitingHas
<1>12. {told[k].n : k \in listed} = (1 .. N) \ Waiting(c, d)
  <2>1. \A k \in listed : told[k].n \in 1 .. next - 1
    BY <1>7, <1>8 DEF Heard
  <2>2. \A n \in 1 .. next - 1 : \E k \in listed : told[k].n = n
    BY <1>7, <1>8 DEF Heard
  <2>3. \A n : n \in (1 .. N) \ Waiting(c, d) <=> n \in 1 .. next - 1
    BY <1>11
  <2> QED
    BY <2>1, <2>2, <2>3
<1>13. {told[k].n : k \in kept} = Forwarded(c, d)
  <2>1. \A n : n \in Forwarded(c, d) <=> n # 0 /\ Has(p, n)
    <3>1. DOMAIN p = 1 .. Len(p)
      OBVIOUS
    <3>2. Range(p) = {p[k] : k \in 1 .. Len(p)}
      BY <3>1 DEF Range
    <3>3. Forwarded(c, d) = {mark.n : mark \in Range(p)} \ {0}
      BY <1>3, Zenon DEF Forwarded
    <3> QED
      BY <3>2, <3>3 DEF Has
  <2>2. \A k \in kept : told[k].n \in 1 .. next - 1 /\ Has(p, told[k].n)
    BY <1>7, <1>8, <1>9 DEF Heard
  <2>3. \A n : n # 0 /\ Has(p, n) => n \in 1 .. next - 1
    <3>1. \A k \in 1 .. Len(p) : p[k].n < next
      BY <1>4, <1>5, Zenon DEF Row
    <3>2. \A k \in 1 .. Len(p) : p[k].n \in Nat
      <4>1. \A m \in Mark : m.n \in Nat
        BY DEF Mark
      <4>2. \A k \in 1 .. Len(p) : p[k] \in Mark
        OBVIOUS
      <4> QED
        BY <4>1, <4>2
    <3>3. \A m \in Nat : m # 0 /\ m < next => m \in 1 .. next - 1
      OBVIOUS
    <3> QED
      BY <3>1, <3>2, <3>3, Zenon DEF Has
  <2>4. \A n \in 1 .. next - 1 : Has(p, n) => \E k \in kept : told[k].n = n
    <3> TAKE n \in 1 .. next - 1
    <3>1. PICK k \in 1 .. Len(told) : Of(told[k], c, d) /\ told[k].n = n
      BY <1>7 DEF Heard
    <3>2. ~told[k].dropped <=> Has(p, n)
      BY <1>7, <3>1 DEF Heard
    <3> QED
      BY <1>8, <1>9, <3>1, <3>2
  <2>5. \A k \in kept : told[k].n \in Forwarded(c, d)
    <3>1. \A n \in 1 .. next - 1 : n # 0
      OBVIOUS
    <3> QED
      BY <2>1, <2>2, <3>1, Zenon
  <2>6. \A n \in Forwarded(c, d) : \E k \in kept : told[k].n = n
    BY <2>1, <2>3, <2>4, Zenon
  <2> QED
    BY <2>5, <2>6
<1>14. /\ \A j, k \in listed : j < k => told[j].n < told[k].n
       /\ {told[k].n : k \in listed} = (1 .. Len(sent[c][d])) \ Waiting(c, d)
       /\ {told[k].n : k \in kept} = Forwarded(c, d)
  BY <1>2, <1>10, <1>12, <1>13, Zenon
<1> QED
  BY <1>14, Zenon DEF told, listed, kept

(* mitm_gui.rs:340, mitm.rs:260, 275: as long as no event was missed, the list and
   the channel behind it have every packet of an open connection that was cut
   out, once and in order, and those not shown as dropped are exactly those
   whose bytes were let through. *)
THEOREM WindowTruthCorrect == Spec => []WindowTruth
<1>1. Init => HeardInv
  BY HeardInit
<1>2. HeardInv /\ [Next]_vars => HeardInv'
  BY HeardStep
<1>3. HeardInv => WindowTruth
  BY HeardTruth DEF WindowTruth
<1> QED
  BY <1>1, <1>2, <1>3, PTL DEF Spec

-----------------------------------------------------------------------------
(* What comes to be let through. *)
LEMMA ForwardedHas ==
  ASSUME Shape, NEW c \in Conn, NEW d \in Direction
  PROVE  \A n : n \in Forwarded(c, d) <=> n # 0 /\ Has(Past(c, d), n)
<1>1. PICK p \in Seq(Mark) : p = Past(c, d)
  BY PastNow
<1>2. DOMAIN p = 1 .. Len(p)
  OBVIOUS
<1>3. Range(p) = {p[k] : k \in 1 .. Len(p)}
  BY <1>2 DEF Range
<1>4. Forwarded(c, d) = {mark.n : mark \in Range(p)} \ {0}
  BY <1>1, Zenon DEF Forwarded
<1> QED
  BY <1>1, <1>3, <1>4 DEF Has

LEMMA ForwardedThen ==
  ASSUME Shape', NEW c \in Conn, NEW d \in Direction
  PROVE  \A n : n \in Forwarded(c, d)' <=> n # 0 /\ Has(Past(c, d)', n)
<1>1. PICK p \in Seq(Mark) : p = Past(c, d)'
  BY PastThen
<1>2. DOMAIN p = 1 .. Len(p)
  OBVIOUS
<1>3. Range(p) = {p[k] : k \in 1 .. Len(p)}
  BY <1>2 DEF Range
<1>4. Forwarded(c, d)' = {mark.n : mark \in Range(p)} \ {0}
  BY <1>1, Zenon DEF Forwarded
<1> QED
  BY <1>1, <1>3, <1>4 DEF Has

(* Only a packet that is cut out comes to be let through, and only if it is not
   listed. *)
LEMMA HeldBackMoves ==
  ASSUME HeardInv, [Next]_vars, NEW c \in Conn, NEW d \in Direction,
         NEW n \in Forwarded(c, d)' \ Forwarded(c, d)
  PROVE  n \in Waiting(c, d) /\ Unlisted(sent[c][d][n])
<1>1. /\ Shape /\ Shape' /\ Line(c, d) /\ Moves(c, d)
  BY AlignedStep, StepMoves DEF HeardInv, LineInv, Calmness, KeysAligned
<1>2. n # 0 /\ Has(Past(c, d)', n) /\ ~Has(Past(c, d), n)
  BY <1>1, ForwardedHas, ForwardedThen
<1>3. PICK N \in Nat : N = Len(sent[c][d])
  BY <1>1, SizesType
<1>4. PICK w \in [0 .. N -> Nat], p \in Seq(Mark), q \in Seq(Mark) :
        w = Sizes(c, d) /\ p = Past(c, d) /\ q = Inward(c, d)
  <2>1. Sizes(c, d) \in [0 .. N -> Nat]
    BY <1>1, <1>3, SizesType
  <2>2. Past(c, d) \in Seq(Mark) /\ Inward(c, d) \in Seq(Mark)
    BY <1>1, PastNow, InwardNow
  <2> QED
    BY <2>1, <2>2, Zenon
<1>5. /\ w[0] = KeySize[d] /\ \A m \in 0 .. N : w[m] >= 1
      /\ \A m \in 1 .. N : w[m] = sent[c][d][m].size
  BY <1>1, <1>3, <1>4, SizesType
<1>6. ~(Still(c, d) \/ Sends(c, d))
  BY <1>2, Zenon DEF Still, Sends
<1>7. ~Ends(c, d)
  <2> SUFFICES ASSUME Ends(c, d) PROVE FALSE
    OBVIOUS
  <2>1. PICK u \in Seq(Mark), s \in Seq(Mark) : u = Past(c, d)' /\ Past(c, d) = Cat(u, s)
    BY DEF Ends
  <2>2. Has(Cat(u, s), n) <=> Has(u, n) \/ Has(s, n)
    BY HasCat
  <2> QED
    BY <1>2, <2>1, <2>2, Zenon
<1>8. ~Greets(c, d)
  <2> SUFFICES ASSUME Greets(c, d) PROVE FALSE
    OBVIOUS
  <2>1. PICK s \in Seq(Mark) : Single(s, 0, w[0]) /\ Past(c, d)' = Cat(p, s)
    BY <1>4, <1>5 DEF Greets
  <2>2. w[0] \in Nat /\ w[0] >= 1
    <3>1. 0 \in 0 .. N
      BY <1>3
    <3> QED
      BY <1>5, <3>1
  <2>3. \A m : Has(s, m) <=> m = 0
    BY <2>1, <2>2, SingleHas
  <2>4. Has(Cat(p, s), n) <=> Has(p, n) \/ Has(s, n)
    BY HasCat
  <2> QED
    BY <1>2, <1>4, <2>1, <2>3, <2>4, Zenon
<1>9. PICK e \in Event :
        Takes(c, d, e.n, e.dropped) /\ (~e.dropped => Unlisted(sent[c][d][e.n]))
  BY <1>1, <1>6, <1>7, <1>8, Zenon DEF Moves
<1>10. PICK m \in 1 .. N, dropped \in BOOLEAN :
         m = e.n /\ dropped = e.dropped /\ Takes(c, d, m, dropped)
  <2>1. e.n \in 1 .. N /\ e.dropped \in BOOLEAN
    BY <1>3, <1>9 DEF Takes, Event
  <2> QED
    BY <1>9, <2>1
<1>11. PICK s \in Seq(Mark), r \in Seq(Mark) :
         /\ q = Cat(s, r)
         /\ q[1].n = m /\ Len(s) = sent[c][d][m].size
         /\ Past(c, d)' = IF dropped THEN p ELSE Cat(p, s)
  BY <1>4, <1>10 DEF Takes
<1>12. ~dropped /\ Has(s, n)
  <2>1. Has(Cat(p, s), n) <=> Has(p, n) \/ Has(s, n)
    BY HasCat
  <2> QED
    BY <1>2, <1>4, <1>11, <2>1, Zenon
<1>13. Cat(s, r)[1].n = m /\ Len(s) = w[m] /\ w[m] >= 1 /\ w[m] \in Nat
  <2>1. m \in 0 .. N
    BY <1>10
  <2> QED
    BY <1>5, <1>11, <2>1
<1>14. Single(s, m, w[m])
  <2>1. Live(c) /\ Handshaken(c, d)
    BY <1>10 DEF Takes
  <2>2. Row(p, Cat(s, r), N, w) /\ Len(p) >= 1 /\ Chained(p, N, w)
    BY <1>1, <1>3, <1>4, <1>11, <2>1 DEF Line
  <2>3. Passed(m, N, w, p, s, r)
    BY <1>13, <2>2, RowTaken, Zenon
  <2> QED
    BY <2>3, Zenon DEF Passed
<1>15. n = m
  <2>1. \A k : Has(s, k) <=> k = m
    BY <1>13, <1>14, SingleHas
  <2> QED
    BY <1>12, <2>1
<1>16. Has(q, m)
  <2>1. Has(Cat(s, r), m) <=> Has(s, m) \/ Has(r, m)
    BY HasCat
  <2> QED
    BY <1>11, <1>12, <1>15, <2>1, Zenon
<1>17. m \in Waiting(c, d)
  <2>1. Live(c) /\ m \in Nat /\ m >= 1
    BY <1>10 DEF Takes
  <2>2. m \in Waiting(c, d) <=> Has(Inward(c, d), m)
    BY <2>1, WaitingHas
  <2> QED
    BY <1>4, <1>16, <2>2, Zenon
<1> QED
  BY <1>9, <1>10, <1>12, <1>15, <1>17, Zenon

(* mitm.rs:238-265: whatever lists the user makes, enables and changes, and
   whenever, a packet that a drop list names when it is cut out is let through
   neither then nor later. *)
THEOREM DropsCorrect == Spec => ListedHeldBack
<1>1. Init => HeardInv
  BY HeardInit
<1>2. HeardInv /\ [Next]_vars => HeardInv'
  BY HeardStep
<1>3. HeardInv /\ [Next]_vars =>
        [\A c \in Conn, d \in Direction : \A n \in Forwarded(c, d)' \ Forwarded(c, d) :
           n \in Waiting(c, d) /\ Unlisted(sent[c][d][n])]_vars
  BY HeldBackMoves
<1> QED
  BY <1>1, <1>2, <1>3, PTL DEF Spec, ListedHeldBack
=============================================================================
