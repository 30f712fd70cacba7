---------------------------- MODULE PacketFraming ---------------------------
(***************************************************************************)
(* How a connection finds packets in a stream of bytes: the task           *)
(* connection_proc with its handshake, the loop of process_client_data     *)
(* (server/connection.rs) with what it calls for a packet, and the write   *)
(* of the answer, fed by a peer that frames packets as write_packet does.  *)
(* A packet is a size field of two bytes, which counts itself, and a body; *)
(* the body begins with a type of two bytes.  A byte has Base values.      *)
(***************************************************************************)
EXTENDS Naturals, Sequences, FiniteSets

CONSTANTS
  Base,       \* 256 in the code
  Capacity,   \* of the ring buffer: 1000000
  MaxRead,    \* bytes one read may return: 0x10000, 0xFFFF in the proxy
  Key,        \* the peer's public key, 132 bytes
  Bodies,     \* what the peer sends
  Known,      \* the values of PacketType
  Readable,   \* the bodies Packet::read_checked accepts
  Untraceable,\* those ptrace panics over: CompressedData with a short content
  Fatal,      \* those whose handler may panic: EnterWorldRequest
  MaxSent     \* bound on the packets sent

Byte == 0 .. Base - 1

MaxSize == Base * Base - 1

ASSUME FramingAssumption ==
  /\ Base \in Nat \ {0, 1} /\ MaxSize >= 4
  /\ Capacity \in Nat /\ MaxRead \in Nat
  /\ Capacity >= MaxSize - 1 + MaxRead
  /\ Key \in Seq(Byte) /\ Key # <<>>
  /\ Bodies \subseteq Seq(Byte)
  /\ \A body \in Readable : Len(body) >= 2 /\ body[1] + Base * body[2] \in Known
  /\ MaxSent \in Nat

VARIABLES
  sent,      \* bodies the peer has sent
  net,       \* bytes on their way
  mode,      \* where the task is: see Modes
  key,       \* the public key the connection uses
  rxbuf,     \* the ring buffer
  lost,      \* how many bytes push_slice had no room for
  taken,     \* bodies cut out of the buffer
  handled,   \* bodies given to process_packet
  reply      \* there is an answer to the packets of this read

vars == <<sent, net, mode, key, rxbuf, lost, taken, handled, reply>>

(* In select!, before and after the key; in the loop over packets; in a
   handler; in write_all; returned; dead. *)
Modes == {"uninit", "waiting", "taking", "handling", "writing", "closed", "panicked"}

Init ==
  /\ sent = <<>>
  /\ net = Key
  /\ mode = "uninit"
  /\ key = <<>>
  /\ rxbuf = <<>>
  /\ lost = 0
  /\ taken = <<>>
  /\ handled = <<>>
  /\ reply = FALSE

(* Mutant: the size field does not count itself. *)
FrameWithoutSize(body) == <<Len(body) % Base, (Len(body) \div Base) % Base>> \o body

(* write_packet: the size is cut to two bytes. *)
Frame(body) ==
  LET size == (Len(body) + 2) % (Base * Base)
  IN <<size % Base, size \div Base>> \o body

(* The peer sends packets once its key was answered, to a task that lives. *)
Send(body) ==
  /\ mode \notin {"uninit", "closed", "panicked"}
  /\ Len(sent) < MaxSent
  /\ sent' = Append(sent, body)
  /\ net' = net \o Frame(body)
  /\ UNCHANGED <<mode, key, rxbuf, lost, taken, handled, reply>>

(* Mutant: any bytes are taken for a key. *)
IsKeyUnchecked(data) == TRUE

IsKey(data) == Len(data) = Len(Key)

Arrived(n) == SubSeq(net, 1, n)

(* A read in CipherState::Uninit: bytes that are no key are ignored, a key is
   answered with the boxes. *)
ReadKey(n) ==
  /\ mode = "uninit"
  /\ IF IsKey(Arrived(n))
       THEN key' = Arrived(n) /\ mode' = "writing"
       ELSE UNCHANGED <<key, mode>>
  /\ net' = SubSeq(net, n + 1, Len(net))
  /\ UNCHANGED <<sent, rxbuf, lost, taken, handled, reply>>

(* Mutant: what the last loop left is thrown away. *)
KeepNothing(kept) == Arrived(kept)

Keep(kept) == rxbuf \o Arrived(kept)

(* push_slice keeps what there is room for. *)
ReadData(n) ==
  LET room == Capacity - Len(rxbuf)
      kept == IF n <= room THEN n ELSE room
  IN /\ mode = "waiting"
     /\ rxbuf' = Keep(kept)
     /\ lost' = lost + (n - kept)
     /\ net' = SubSeq(net, n + 1, Len(net))
     /\ mode' = "taking"
     /\ UNCHANGED <<sent, key, taken, handled, reply>>

Read(n) ==
  /\ n \in 1 .. Len(net)
  /\ n <= MaxRead
  /\ ReadKey(n) \/ ReadData(n)

HeaderSize == 4

Size == rxbuf[1] + Base * rxbuf[2]

(* Mutant: a packet is taken when a byte of the next one is there. *)
NextArrived == Len(rxbuf) >= HeaderSize /\ Len(rxbuf) > Size

PacketArrived == Len(rxbuf) >= HeaderSize /\ Len(rxbuf) >= Size

(* The type is peeked with the size, before the packet is cut out: that of a
   packet of two or three bytes lies in the packet behind it. *)
Type == rxbuf[3] + Base * rxbuf[4]

(* ptrace slices data[2..] of a packet whose type is not known, and the first
   four bytes of what CompressedData contains. *)
TracePanics(body) ==
  \/ Type \notin Known /\ Len(body) < 2
  \/ Type \in Known /\ body \in Readable \cap Untraceable

ForHandler(body) == Type \in Known /\ body \in Readable \ Untraceable

(* Mutant: a packet that cannot be read ends the loop. *)
BreakUnread(body) == mode' = "waiting"

SkipUnread(body) == UNCHANGED mode

(* What happens to a packet cut out of the buffer; one that is not known or
   cannot be read is skipped. *)
Cut(body) ==
  /\ taken' = Append(taken, body)
  /\ \/ TracePanics(body) /\ mode' = "panicked" /\ UNCHANGED handled
     \/ ForHandler(body) /\ mode' = "handling" /\ handled' = Append(handled, body)
     \/ ~TracePanics(body) /\ ~ForHandler(body) /\ SkipUnread(body) /\ UNCHANGED handled

(* One round of the loop, up to the handler; the slice temp[2..size] panics
   for sizes below 2. *)
Take ==
  /\ mode = "taking"
  /\ PacketArrived
  /\ rxbuf' = SubSeq(rxbuf, Size + 1, Len(rxbuf))
  /\ \/ Size < 2 /\ mode' = "panicked" /\ UNCHANGED <<taken, handled>>
     \/ Size >= 2 /\ Cut(SubSeq(rxbuf, 3, Size))
  /\ UNCHANGED <<sent, net, key, lost, reply>>

(* process_packet returns, with or without an answer or an error, or panics. *)
HandlerEnds ==
  /\ mode = "handling"
  /\ \/ mode' = "taking" /\ reply' \in {reply, TRUE}
     \/ handled[Len(handled)] \in Fatal /\ mode' = "panicked" /\ UNCHANGED reply
  /\ UNCHANGED <<sent, net, key, rxbuf, lost, taken, handled>>

LeaveLoop ==
  /\ mode = "taking"
  /\ ~PacketArrived
  /\ mode' = IF reply THEN "writing" ELSE "waiting"
  /\ reply' = FALSE
  /\ UNCHANGED <<sent, net, key, rxbuf, lost, taken, handled>>

(* select! takes packets of the shard instead of a read: they are written. *)
FromShard ==
  /\ mode = "waiting"
  /\ mode' = "writing"
  /\ UNCHANGED <<sent, net, key, rxbuf, lost, taken, handled, reply>>

(* write_all returns when the peer has taken the whole answer. *)
Written ==
  /\ mode = "writing"
  /\ mode' = "waiting"
  /\ UNCHANGED <<sent, net, key, rxbuf, lost, taken, handled, reply>>

(* The end of the stream, or an error of a read or of write_all. *)
Close ==
  /\ mode \in {"uninit", "waiting", "writing"}
  /\ mode' = "closed"
  /\ UNCHANGED <<sent, net, key, rxbuf, lost, taken, handled, reply>>

SomeRead == \E n \in 1 .. MaxRead : Read(n)

Next ==
  \/ \E body \in Bodies : Send(body)
  \/ SomeRead
  \/ Take
  \/ HandlerEnds
  \/ LeaveLoop
  \/ FromShard
  \/ Written
  \/ Close

(* The task runs while it can; select! is not biased, so that packets of the
   shard do not keep it from reading for ever; a handler waits for the database
   and for locks only; the peer reads what is written to it. *)
Fairness ==
  /\ SF_vars(SomeRead)
  /\ WF_vars(Take \/ LeaveLoop)
  /\ WF_vars(HandlerEnds)
  /\ WF_vars(Written)

Spec == Init /\ [][Next]_vars

FairSpec == Spec /\ Fairness

-----------------------------------------------------------------------------
(* Every variable has its type, and what a finished loop leaves behind is
   less than one packet: between two reads no packet lies in the buffer. *)
TypeOK ==
  /\ sent \in Seq(Bodies)
  /\ net \in Seq(Byte)
  /\ mode \in Modes
  /\ key \in Seq(Byte)
  /\ rxbuf \in Seq(Byte)
  /\ lost \in Nat
  /\ taken \in Seq(Seq(Byte))
  /\ handled \in Seq(Seq(Byte))
  /\ reply \in BOOLEAN
  /\ mode \in {"uninit", "waiting", "writing"} => ~PacketArrived

(* push_slice would drop bytes without a word when the ring buffer is full;
   it never is, however the stream is cut into reads. *)
NothingLost == lost = 0

(* connection.rs:90: a connection that leaves Uninit to work has the whole key
   of its peer, also when the key comes in pieces. *)
KeyIsWhole == mode \notin {"uninit", "closed"} => key = Key

(* A packet whose length fits its size field and that has a type. *)
WellFormed(body) == Len(body) >= 2 /\ Len(body) + 2 <= MaxSize

(* A packet the task survives whatever state its handlers are in. *)
Harmless(body) == WellFormed(body) /\ body \notin Untraceable \cup Fatal

(* A malformed packet - without a type, or so long that its size wraps - costs
   what follows it, but nothing before it.  The task panics over nothing but a
   malformed packet, one that ptrace cannot show (connection.rs:219) and one
   whose handler panics (connection.rs:220), and not before that packet's
   turn. *)
SoundUntilHarmful ==
  /\ \A k \in DOMAIN taken \cap DOMAIN sent :
       (\A j \in 1 .. k : WellFormed(sent[j])) => taken[k] = sent[k]
  /\ mode = "panicked" =>
       \E k \in DOMAIN sent : k <= Len(taken) + 1 /\ ~Harmless(sent[k])

Upto(seq, n) == SubSeq(seq, 1, IF n < Len(seq) THEN n ELSE Len(seq))

(* How many packets were sent before the first one that may harm. *)
SoundLength == Cardinality({k \in DOMAIN sent : \A j \in 1 .. k : Harmless(sent[j])})

(* Every packet sent before a harmful one comes out in the end, in order,
   once, and those that can be read are handled, however the stream was cut,
   whatever follows, and whatever is written in between, unless the connection
   ends. *)
Stream ==
  INSTANCE PacketStream WITH
    Readable <- Readable \ Untraceable,
    sent <- Upto(sent, SoundLength),
    taken <- Len(Upto(taken, SoundLength)),
    handled <- Upto(handled, Cardinality({k \in 1 .. SoundLength : sent[k] \in Readable \ Untraceable})),
    open <- mode # "closed"

DeliversStream == Stream!Spec
=============================================================================
