---------------------------- MODULE TracingProxy ----------------------------
(***************************************************************************)
(* The tracer: proxied connections and the window, which share the         *)
(* settings and the event channel.                                         *)
(***************************************************************************)
EXTENDS Mitm, MitmWindow

vars == <<mitmVars, guiVars, windowVars>>

Init == GuiInit /\ MitmInit /\ WindowInit

Next ==
  \/ MitmNext /\ UNCHANGED windowVars
  \/ WindowNext /\ UNCHANGED mitmVars

Spec == Init /\ [][Next]_vars

(* tokio polls a task that can run, and the loop and the writes of a task wait
   for nothing but TCP; the game and the server read what they are sent; the
   file system answers.  Nobody has to use the window. *)
Fairness ==
  /\ \A c \in Conn :
       /\ WF_vars(TaskStep(c) /\ UNCHANGED windowVars)
       /\ \A d \in Direction :
            WF_vars(Receive(c, d) /\ UNCHANGED <<guiVars, windowVars>>)
  /\ WF_vars(SaveStep /\ UNCHANGED mitmVars)

FairSpec == Spec /\ Fairness

-----------------------------------------------------------------------------
Event == [conn : Conn, dir : Direction, n : Nat, id : Id, dropped : BOOLEAN]

(* Every variable has its type, and the list and the channel keep to their
   limits. *)
TypeOK ==
  /\ settings \in Settings
  /\ locked \in BOOLEAN /\ missed \in BOOLEAN
  /\ events \in Seq(Event) /\ Len(events) <= EVENT_CAPACITY
  /\ packets \in Seq(Event) /\ Len(packets) <= CLEAR_THRESHOLD
  /\ window \in {"open", "writing", "renaming", "closed", "down"}
  /\ locked => window \in {"writing", "renaming"}
  /\ \A c \in Conn :
       /\ task[c] \in {"accepted", "connecting", "open", "returned", "panicked"}
       /\ step[c] \in {"select", "packets", "write"}
       /\ cipher_state[c] \in {"Uninit", "ClientHandshakeReceived", "EncryptedChannel"}
       /\ step[c] = "select" <=> out[c] = <<>> /\ step[c] # "packets"
       /\ \A d \in Direction : sent[c][d] \in Seq(Kind) /\ Len(leaving[c][d]) <= Room

(* The size of the n-th packet of a sender, the handshake being the 0-th. *)
SizeOf(c, d, n) == IF n = 0 THEN KeySize[d] ELSE sent[c][d][n].size

(* Whole packets of a sender, in order, some left out, the last one perhaps
   not complete. *)
InOrder(c, d, bytes) ==
  /\ bytes # <<>> => bytes[1] = Clear(0, 1)
  /\ \A k \in 1 .. Len(bytes) - 1 :
       LET b == bytes[k]
           e == bytes[k + 1]
       IN IF b.part < SizeOf(c, d, b.n)
            THEN e = Clear(b.n, b.part + 1)
            ELSE /\ e = Clear(e.n, 1)
                 /\ e.n \in b.n + 1 .. Len(sent[c][d])

(* mitm.rs:120, 132: the proxy decrypts with one stream and encrypts with another.
   Whatever it drops, and however the bytes are cut into reads, everybody
   decrypts each byte with the step of the stream it was encrypted with, *)
Decryptable ==
  \A c \in Conn, d \in Direction :
    /\ \A k \in DOMAIN received[c][d] : received[c][d][k] # Garbage
    /\ \A k \in DOMAIN buf[c][d] : buf[c][d][k] # Garbage

(* and what a receiver gets are whole packets, in order. *)
Intelligible == \A c \in Conn, d \in Direction : InOrder(c, d, received[c][d])

(* Which packets bytes belong to, and where in them they are. *)
Marks(bytes) == [k \in DOMAIN bytes |-> [n |-> bytes[k].n, part |-> bytes[k].part]]

(* What was let through of a direction: read by the receiver, on the wire, or
   about to be written. *)
Past(c, d) ==
  Marks(received[c][d] \o leaving[c][d] \o (IF dir[c] = d THEN out[c] ELSE <<>>))

Forwarded(c, d) == {mark.n : mark \in Range(Past(c, d))} \ {0}

(* Packets of which something is still to be read or to be cut out. *)
Waiting(c, d) == {byte.n : byte \in Range(buf[c][d] \o arriving[c][d])}

(* mitm.rs:260, 275, mitm_gui.rs:340: while the channel has room, and nothing is
   paused or cleared, the window has every packet of an open connection that
   was cut out, in order, and those it shows as dropped are those that are not
   sent on. *)
WindowTruth ==
  \A c \in Conn, d \in Direction :
    LET told == packets \o events
        listed == {k \in DOMAIN told : told[k].conn = c /\ told[k].dir = d}
        kept == {k \in listed : ~told[k].dropped}
    IN ~missed /\ task[c] = "open" =>
         /\ \A j, k \in listed : j < k => told[j].n < told[k].n
         /\ {told[k].n : k \in listed} = (1 .. Len(sent[c][d])) \ Waiting(c, d)
         /\ {told[k].n : k \in kept} = Forwarded(c, d)

(* mitm.rs:234, 253: once a packet of STOP has been cut out, nothing is let
   through in either direction; not that packet either, although the comment at
   mitm.rs:232, "Stop after this packet", says that it is the last one to pass. *)
SilentAfterStop ==
  [][\A c \in Conn, d \in Direction :
       drop_packets'[c] => IsPrefix(Past(c, d)', Past(c, d))]_vars

(* No enabled drop list names the packet, nor, if it is a CompressedData, the
   packet inside. *)
Unlisted(p) ==
  \A id \in {p.type} \cup (IF p.type = CompressedData THEN {p.inner} ELSE {}) :
    ~ShouldDrop(settings, id)

(* mitm.rs:238-265: a packet is let through only while it is cut out, and only
   if no list names it as the settings are at that moment: one that was listed
   when its turn came never gets through, however the user edits the lists
   before or after, and with whatever it was read or glued together.  (An id
   two levels deep, or inside CompressedData2, is not looked for.) *)
ListedHeldBack ==
  [][\A c \in Conn, d \in Direction : \A n \in Forwarded(c, d)' \ Forwarded(c, d) :
       n \in Waiting(c, d) /\ Unlisted(sent[c][d][n])]_vars

(* A packet no setting can drop. *)
Passes(p) ==
  /\ STOP = {}
  /\ ~p.broken
  /\ "drop" \notin Used
  /\ ~ShouldDrop(DefaultSettings, p.type) /\ ~ShouldDrop(DefaultSettings, p.inner)

(* Every packet that nothing drops arrives unless its own connection ends:
   neither the window - busy, saving, closed or never looked at - nor a full
   event channel nor another connection can hold it up. *)
Delivered ==
  \A c \in Conn, d \in Direction : \A n \in 1 .. MaxSent :
    (n <= Len(sent[c][d]) /\ Passes(sent[c][d][n]))
      ~> (task[c] # "open" \/ \E k \in DOMAIN received[c][d] : received[c][d][k].n = n)
=============================================================================
