-------------------------------- MODULE Mitm --------------------------------
(***************************************************************************)
(* One task per proxied connection (do_mitm in main.rs, mitm.rs): it reads *)
(* from the game ("up") and from the real server ("down"), decrypts with   *)
(* the stream it shares with the sender, cuts packets out, drops some, and *)
(* encrypts the others with the stream it shares with the receiver.        *)
(*                                                                         *)
(* A byte is <<n, part>>: the part-th unit of the n-th packet its sender   *)
(* wrote; packet 0 is the sender's half of the handshake.  An encrypted    *)
(* byte also says with which RC4 box and at which step of it it was        *)
(* encrypted; decrypted with any other step it is Garbage.                 *)
(***************************************************************************)
EXTENDS MitmGuiState

CONSTANTS
  Conn,            \* proxied connections
  Kind,            \* kinds of packets: [type, inner, shown, size, broken]
  CompressedData,  \* the id of packets whose content is looked into
  STOP,            \* ids after which the exchange stops
  KeySize,         \* bytes of the handshake: 132 up, 640 down
  Room,            \* bytes TCP takes while the reader does not read
  MaxSent,         \* bound on the packets of a connection
  Hasty            \* ends that may close the connection at any time

Direction == {"up", "down"}

Other(d) == IF d = "up" THEN "down" ELSE "up"

Box == {"game_tx", "game_rx", "srv_tx", "srv_rx"}

ASSUME MitmAssumption ==
  /\ Kind \subseteq [type : Id, inner : Id, shown : Id, size : Nat \ {0}, broken : BOOLEAN]
  /\ KeySize \in [Direction -> Nat \ {0}]
  /\ Room \in Nat /\ MaxSent \in Nat

VARIABLES
  task,          \* "accepted", "connecting", "open", "returned" or "panicked"
  step,          \* where an open task is: "select", "packets" or "write"
  dir,           \* the direction it works on
  cipher_state,  \* Uninit, ClientHandshakeReceived or EncryptedChannel
  drop_packets,  \* set by a packet of STOP
  buf,           \* tx_buf (up) and rx_buf (down)
  out,           \* what on_packet returns, then what write_all has left
  mine,          \* how far the proxy's copy of each box is
  theirs,        \* how far the game's or the server's copy is
  arriving,      \* bytes on their way to the proxy
  leaving,       \* bytes on their way from the proxy
  greeted,       \* whether a sender has written its half of the handshake
  sent,          \* the packets a sender has written
  received,      \* bytes a receiver has read and decrypted
  closed         \* whether a sender has closed its connection

(* What the task holds, what the two ends hold, and the wires between them. *)
taskVars == <<task, step, dir, cipher_state, drop_packets, buf, out, mine>>
endVars == <<theirs, greeted, sent, received, closed>>
wireVars == <<arriving, leaving>>
mitmVars == <<taskVars, endVars, wireVars>>

MitmInit ==
  /\ task = [c \in Conn |-> "accepted"]
  /\ step = [c \in Conn |-> "select"]
  /\ dir = [c \in Conn |-> "up"]
  /\ cipher_state = [c \in Conn |-> "Uninit"]
  /\ drop_packets = [c \in Conn |-> FALSE]
  /\ buf = [c \in Conn |-> [d \in Direction |-> <<>>]]
  /\ out = [c \in Conn |-> <<>>]
  /\ mine = [c \in Conn |-> [b \in Box |-> 0]]
  /\ theirs = [c \in Conn |-> [b \in Box |-> 0]]
  /\ arriving = [c \in Conn |-> [d \in Direction |-> <<>>]]
  /\ leaving = [c \in Conn |-> [d \in Direction |-> <<>>]]
  /\ greeted = [c \in Conn |-> [d \in Direction |-> FALSE]]
  /\ sent = [c \in Conn |-> [d \in Direction |-> <<>>]]
  /\ received = [c \in Conn |-> [d \in Direction |-> <<>>]]
  /\ closed = [c \in Conn |-> [d \in Direction |-> FALSE]]

-----------------------------------------------------------------------------
(* Encryption. *)

Clear(n, part) == [n |-> n, part |-> part, box |-> "none", at |-> 0]

Garbage == Clear(0, 0)

Parts(n, size) == [k \in 1 .. size |-> Clear(n, k)]

(* xor_in_place of data, by a copy of box that has done `at` steps. *)
Encrypt(data, box, at) ==
  [k \in DOMAIN data |-> [data[k] EXCEPT !.box = box, !.at = at + k]]

Decrypt(data, box, at) ==
  [k \in DOMAIN data |->
     IF data[k].box = box /\ data[k].at = at + k
       THEN Clear(data[k].n, data[k].part)
       ELSE Garbage]

(* The boxes by which the proxy decrypts and encrypts a direction. *)
InBox(d) == IF d = "up" THEN "game_tx" ELSE "srv_rx"

(* Mutant: encrypted with the box of the other half. *)
OutBoxSwapped(d) == IF d = "up" THEN "srv_rx" ELSE "game_rx"

OutBox(d) == IF d = "up" THEN "srv_tx" ELSE "game_rx"

-----------------------------------------------------------------------------
(* The game and the server. *)

HasGreeting(c, d) == Len(received[c][d]) >= KeySize[d]

(* The game begins with its key; the server answers it with its boxes. *)
Greet(c, d) ==
  /\ task[c] = "open"
  /\ ~greeted[c][d] /\ ~closed[c][d]
  /\ d = "down" => HasGreeting(c, "up")
  /\ greeted' = [greeted EXCEPT ![c][d] = TRUE]
  /\ arriving' = [arriving EXCEPT ![c][d] = @ \o Parts(0, KeySize[d])]
  /\ UNCHANGED <<taskVars, leaving, theirs, sent, received, closed>>

(* A sender that has the boxes writes a packet. *)
SendPacket(c, d, p) ==
  LET n == Len(sent[c][d]) + 1
      b == InBox(d)
  IN /\ task[c] = "open"
     /\ greeted[c][d] /\ ~closed[c][d]
     /\ d = "up" => HasGreeting(c, "down")
     /\ n + Len(sent[c][Other(d)]) <= MaxSent
     /\ Len(arriving[c][d]) + p.size <= Room
     /\ sent' = [sent EXCEPT ![c][d] = Append(@, p)]
     /\ arriving' = [arriving EXCEPT ![c][d] = @ \o Encrypt(Parts(n, p.size), b, theirs[c][b])]
     /\ theirs' = [theirs EXCEPT ![c][b] = @ + p.size]
     /\ UNCHANGED <<taskVars, leaving, greeted, received, closed>>

(* A receiver reads the handshake, then whatever is there. *)
Receive(c, d) ==
  LET b == OutBox(d)
      all == leaving[c][d]
  IN /\ all # <<>> /\ ~closed[c][Other(d)]
     /\ \/ /\ ~HasGreeting(c, d)
           /\ Len(all) >= KeySize[d]
           /\ received' = [received EXCEPT ![c][d] = SubSeq(all, 1, KeySize[d])]
           /\ leaving' = [leaving EXCEPT ![c][d] = SubSeq(all, KeySize[d] + 1, Len(all))]
           /\ UNCHANGED theirs
        \/ /\ HasGreeting(c, d)
           /\ received' = [received EXCEPT ![c][d] = @ \o Decrypt(all, b, theirs[c][b])]
           /\ leaving' = [leaving EXCEPT ![c][d] = <<>>]
           /\ theirs' = [theirs EXCEPT ![c][b] = @ + Len(all)]
     /\ UNCHANGED <<taskVars, arriving, greeted, sent, closed>>

CloseEnd(c, d) ==
  /\ task[c] = "open"
  /\ d \in Hasty /\ ~closed[c][d]
  /\ closed' = [closed EXCEPT ![c][d] = TRUE]
  /\ UNCHANGED <<taskVars, wireVars, theirs, greeted, sent, received>>

-----------------------------------------------------------------------------
(* The task. *)

(* What a task that ends leaves behind: `out` and its buffers are gone. *)
EndTask(c, how) ==
  /\ task' = [task EXCEPT ![c] = how]
  /\ step' = [step EXCEPT ![c] = "select"]
  /\ out' = [out EXCEPT ![c] = <<>>]
  /\ buf' = [buf EXCEPT ![c] = [d \in Direction |-> <<>>]]

(* serve_socks5: only connect commands are supported. *)
ReadCommand(c) ==
  /\ task[c] = "accepted"
  /\ \E next \in {"connecting", "returned"} : task' = [task EXCEPT ![c] = next]
  /\ UNCHANGED <<step, dir, cipher_state, drop_packets, buf, out, mine, endVars, wireVars>>

(* The game is told of success once the server accepted. *)
Connect(c) ==
  /\ task[c] = "connecting"
  /\ \E next \in {"open", "returned"} : task' = [task EXCEPT ![c] = next]
  /\ UNCHANGED <<step, dir, cipher_state, drop_packets, buf, out, mine, endVars, wireVars>>

Selecting(c) == task[c] = "open" /\ step[c] = "select"

Unread(c, d, k) ==
  arriving' = [arriving EXCEPT ![c][d] = SubSeq(@, k + 1, Len(@))]

(* Mutant: the length of the handshake is not checked. *)
IsHandshakeStart(c, d, k) ==
  cipher_state[c] = IF d = "up" THEN "Uninit" ELSE "ClientHandshakeReceived"

(* A read of k bytes is the handshake: the game's key first, then the server's
   boxes, each in one read. *)
IsHandshake(c, d, k) ==
  /\ cipher_state[c] = IF d = "up" THEN "Uninit" ELSE "ClientHandshakeReceived"
  /\ k = KeySize[d]

(* Anything else before the channel is encrypted ends the task. *)
Bail(c, d, k) ==
  /\ cipher_state[c] # "EncryptedChannel"
  /\ ~IsHandshake(c, d, k)
  /\ EndTask(c, "returned")
  /\ UNCHANGED <<dir, cipher_state, drop_packets, mine>>

Keyed(c, d) ==
  cipher_state' = [cipher_state EXCEPT
    ![c] = IF d = "up" THEN "ClientHandshakeReceived" ELSE "EncryptedChannel"]

(* The game's key is answered by the proxy's to the server, the server's boxes
   by the proxy's own boxes to the game. *)
ReadHandshake(c, d, k) ==
  /\ IsHandshake(c, d, k)
  /\ Keyed(c, d)
  /\ out' = [out EXCEPT ![c] = Parts(0, KeySize[d])]
  /\ step' = [step EXCEPT ![c] = "write"]
  /\ dir' = [dir EXCEPT ![c] = d]
  /\ UNCHANGED <<task, drop_packets, buf, mine>>

(* Decrypt and push into the ring buffer. *)
ReadPackets(c, d, k) ==
  LET b == InBox(d)
      data == Decrypt(SubSeq(arriving[c][d], 1, k), b, mine[c][b])
  IN /\ cipher_state[c] = "EncryptedChannel"
     /\ mine' = [mine EXCEPT ![c][b] = @ + k]
     /\ buf' = [buf EXCEPT ![c][d] = @ \o data]
     /\ step' = [step EXCEPT ![c] = "packets"]
     /\ dir' = [dir EXCEPT ![c] = d]
     /\ UNCHANGED <<task, cipher_state, drop_packets, out>>

(* A branch of select!: k bytes of direction d. *)
Read(c, d) ==
  /\ Selecting(c)
  /\ \E k \in 1 .. Len(arriving[c][d]) :
       /\ Unread(c, d, k)
       /\ Bail(c, d, k) \/ ReadHandshake(c, d, k) \/ ReadPackets(c, d, k)
  /\ UNCHANGED <<leaving, endVars>>

(* A read of no bytes, or an error, when an end has closed. *)
ReadEnd(c, d) ==
  /\ Selecting(c)
  /\ closed[c][d] /\ arriving[c][d] = <<>>
  /\ EndTask(c, "returned")
  /\ UNCHANGED <<dir, cipher_state, drop_packets, mine, endVars, wireVars>>

-----------------------------------------------------------------------------
(* The loop of on_packet, one packet at a time: between two packets the window
   may change the settings. *)

(* The packet a byte belongs to. *)
PacketOf(c, d, byte) == sent[c][d][byte.n]

PacketArrived(c, d) ==
  /\ buf[c][d] # <<>>
  /\ buf[c][d][1].part = 1
  /\ Len(buf[c][d]) >= PacketOf(c, d, buf[c][d][1]).size

(* Mutant: the content of a compressed packet is not looked into. *)
DroppedOuter(p, stopped) == stopped \/ ShouldDrop(settings, p.type)

(* Mutant: only the packet of STOP itself is dropped. *)
DroppedOnce(p, stopped) ==
  p.type \in STOP \/ ShouldDrop(settings, p.type)

(* A packet is dropped for its id or, if it is compressed, for the id inside. *)
Dropped(p, stopped) ==
  \/ stopped
  \/ ShouldDrop(settings, p.type)
  \/ p.type = CompressedData /\ ShouldDrop(settings, p.inner)

(* Mutant: dropped packets are forwarded as well. *)
ForwardAll(c, data, dropped) == out' = [out EXCEPT ![c] = @ \o data]

Forward(c, data, dropped) ==
  out' = IF dropped THEN out ELSE [out EXCEPT ![c] = @ \o data]

TakePacket(c) ==
  LET d == dir[c]
      n == buf[c][d][1].n
      p == PacketOf(c, d, buf[c][d][1])
      stopped == drop_packets[c] \/ p.type \in STOP
      dropped == Dropped(p, stopped)
  IN /\ task[c] = "open" /\ step[c] = "packets" /\ ~locked
     /\ PacketArrived(c, d) /\ ~p.broken
     /\ drop_packets' = [drop_packets EXCEPT ![c] = stopped]
     /\ buf' = [buf EXCEPT ![c][d] = SubSeq(@, p.size + 1, Len(@))]
     /\ Forward(c, SubSeq(buf[c][d], 1, p.size), dropped)
     /\ TrySend([conn |-> c, dir |-> d, n |-> n, id |-> p.shown, dropped |-> dropped])
     /\ UNCHANGED <<task, step, dir, cipher_state, mine, endVars, wireVars, settings, locked>>

(* A packet too short for its type, or a compressed one whose content is,
   panics: a slice is taken that it does not have. *)
TakeBroken(c) ==
  LET d == dir[c]
      p == PacketOf(c, d, buf[c][d][1])
  IN /\ task[c] = "open" /\ step[c] = "packets" /\ ~locked
     /\ PacketArrived(c, d) /\ p.broken
     /\ EndTask(c, "panicked")
     /\ drop_packets' = [drop_packets EXCEPT ![c] = @ \/ p.type \in STOP]
     /\ UNCHANGED <<dir, cipher_state, mine, endVars, wireVars, guiVars>>

(* The loop is left; nothing is written when nothing is forwarded. *)
LeaveLoop(c) ==
  LET b == OutBox(dir[c])
  IN /\ task[c] = "open" /\ step[c] = "packets"
     /\ ~PacketArrived(c, dir[c])
     /\ out' = [out EXCEPT ![c] = Encrypt(@, b, mine[c][b])]
     /\ mine' = [mine EXCEPT ![c][b] = @ + Len(out[c])]
     /\ step' = [step EXCEPT ![c] = IF out[c] = <<>> THEN "select" ELSE "write"]
     /\ UNCHANGED <<task, dir, cipher_state, drop_packets, buf, endVars, wireVars, guiVars>>

(* Mutant: what TCP does not take is not written. *)
WriteOnce(c) ==
  LET d == dir[c]
      free == Room - Len(leaving[c][d])
      k == IF Len(out[c]) <= free THEN Len(out[c]) ELSE free
  IN /\ task[c] = "open" /\ step[c] = "write"
     /\ leaving' = [leaving EXCEPT ![c][d] = @ \o SubSeq(out[c], 1, k)]
     /\ out' = [out EXCEPT ![c] = <<>>]
     /\ step' = [step EXCEPT ![c] = "select"]
     /\ UNCHANGED <<task, dir, cipher_state, drop_packets, buf, mine, arriving, endVars, guiVars>>

(* write_all: as much as TCP takes, until nothing is left. *)
Write(c) ==
  LET d == dir[c]
      free == Room - Len(leaving[c][d])
      k == IF Len(out[c]) <= free THEN Len(out[c]) ELSE free
  IN /\ task[c] = "open" /\ step[c] = "write"
     /\ k > 0
     /\ leaving' = [leaving EXCEPT ![c][d] = @ \o SubSeq(out[c], 1, k)]
     /\ out' = [out EXCEPT ![c] = SubSeq(@, k + 1, Len(@))]
     /\ step' = [step EXCEPT ![c] = IF k = Len(out[c]) THEN "select" ELSE "write"]
     /\ UNCHANGED <<task, dir, cipher_state, drop_packets, buf, mine, arriving, endVars, guiVars>>

(* write_all fails when the receiver has closed its connection. *)
WriteFails(c) ==
  /\ task[c] = "open" /\ step[c] = "write"
  /\ closed[c][Other(dir[c])]
  /\ EndTask(c, "returned")
  /\ UNCHANGED <<dir, cipher_state, drop_packets, mine, endVars, wireVars, guiVars>>

Select(c) == (\E d \in Direction : Read(c, d) \/ ReadEnd(c, d)) /\ UNCHANGED guiVars

TaskStep(c) ==
  \/ (ReadCommand(c) \/ Connect(c)) /\ UNCHANGED guiVars
  \/ Select(c)
  \/ TakePacket(c)
  \/ TakeBroken(c)
  \/ LeaveLoop(c)
  \/ Write(c)
  \/ WriteFails(c)

EndStep(c, d) ==
  /\ \/ Greet(c, d)
     \/ \E p \in Kind : SendPacket(c, d, p)
     \/ Receive(c, d)
     \/ CloseEnd(c, d)
  /\ UNCHANGED guiVars

MitmNext ==
  \E c \in Conn : TaskStep(c) \/ \E d \in Direction : EndStep(c, d)
=============================================================================
