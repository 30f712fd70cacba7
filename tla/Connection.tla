----------------------------- MODULE Connection -----------------------------
(***************************************************************************)
(* One connection_proc task per client (server/connection.rs) and the      *)
(* packet handlers it calls (handler.rs, state/login.rs, state/datamap.rs).*)
(* The task selects between bytes of the client and recv_from_shard; any   *)
(* packet drops the receive in progress, and the receiver is looked up     *)
(* again afterwards.                                                       *)
(***************************************************************************)
EXTENDS GameClient

VARIABLES
  pc,         \* where the task is
  session,    \* ConnectionInfo.session
  character,  \* ConnectionInfo.character_id
  shard,      \* ConnectionInfo.shard_id
  channel,    \* the channel its last EnterWorldRequest made
  rx          \* the receiver recv_from_shard waits on

connVars == <<pc, session, character, shard, channel, rx>>

ConnTypeOK ==
  /\ pc \in [Conn -> {"uninit", "ready", "registerRx", "joinShard", "closed",
                      "panicked"}]
  /\ session \in [Conn -> Session \cup {None}]
  /\ character \in [Conn -> Char \cup {None}]
  /\ shard \in [Conn -> {CharLocation[id] : id \in DOMAIN CharLocation} \cup {None}]
  /\ channel \in [Conn -> Chan \cup {None}]
  /\ rx \in [Conn -> Chan \cup {None}]

ConnInit ==
  /\ pc = [c \in Conn |-> "uninit"]
  /\ session = [c \in Conn |-> None]
  /\ character = [c \in Conn |-> None]
  /\ shard = [c \in Conn |-> None]
  /\ channel = [c \in Conn |-> None]
  /\ rx = [c \in Conn |-> None]

(* The game's public key arrives; reads of any other size are ignored. *)
Handshake(c) ==
  /\ pc[c] = "uninit"
  /\ pc' = [pc EXCEPT ![c] = "ready"]
  /\ UNCHANGED <<session, character, shard, channel, rx, stateVars, clientVars>>

(* Mutant: the receive is kept while a packet is handled. *)
TakePacketKeepsReceive(c) ==
  /\ pc[c] = "ready"
  /\ UNCHANGED rx

(* A packet of the client wins the select: the pending receive is dropped. *)
TakePacket(c) ==
  /\ pc[c] = "ready"
  /\ rx' = [rx EXCEPT ![c] = None]

(* A packet whose handler changes nothing shared: Connect, heartbeats, chat,
   emotions, exit requests, echoes, unknown packets, an EnterWorldRequest
   refused for its index, and every handler that bails out. *)
OtherPacket(c) ==
  /\ TakePacket(c)
  /\ UNCHANGED <<pc, session, character, shard, channel, stateVars, clientVars>>

MayAuth(c) == Discipline = "any" \/ session[c] = None

MayList(c, s) == Discipline = "any" \/ (sessions[s] # None /\ listed[c] = {})

(* A random session is drawn; that two draws agree is left out. *)
AuthRequest(c, s, account) ==
  /\ TakePacket(c)
  /\ MayAuth(c)
  /\ sessions[s] = None
  /\ session' = [session EXCEPT ![c] = s]
  /\ sessions' = [sessions EXCEPT ![s] = account]
  /\ UNCHANGED <<pc, character, shard, channel, chardata, playerTx, playerRx,
                 txReaders, txClone, queue, shardQ, enters, clientVars>>

(* The slots of the session's account: none when the session or the account
   is unknown, which makes the handlers bail out. *)
SlotsOf(s) ==
  IF s # None /\ sessions[s] \in DOMAIN CharsOf THEN CharsOf[sessions[s]] ELSE <<>>

CharListSize == 52

(* The ids load_char_from_db loads, up to the first that is not stored. *)
LoadedSlots(slots) ==
  {k \in DOMAIN slots :
     k <= CharListSize /\ \A j \in 1 .. k : slots[j] \in DOMAIN CharLocation}

(* Mutant: a list replaces the characters in memory. *)
LoadReplacing(ids) == chardata' = ids

LoadCharacters(ids) == chardata' = chardata \cup ids

(* handle_charlist_req: the client names the session, known or not; a slot
   that cannot be loaded ends the request without an answer. *)
TimeSyncResponse(c, s) ==
  LET slots == SlotsOf(s)
      here  == LoadedSlots(slots)
      all   == here = {k \in DOMAIN slots : k <= CharListSize}
      ids   == {slots[k] : k \in here}
  IN /\ TakePacket(c)
     /\ MayList(c, s)
     /\ session' = [session EXCEPT ![c] = s]
     /\ LoadCharacters(ids)
     /\ listed' = IF all THEN [listed EXCEPT ![c] = @ \cup ids] ELSE listed
     /\ UNCHANGED <<pc, character, shard, channel, sessions, playerTx, playerRx,
                    txReaders, txClone, queue, shardQ, enters, loaded, spawned,
                    view, walked, steps>>

MayEnter(c, id) ==
  CASE Discipline = "any" -> TRUE
    [] Discipline = "relogin" ->
         /\ id \in listed[c] /\ character[c] = None
         /\ \A d \in Conn : character[d] = id => pc[d] \in {"closed", "panicked"}
    [] Discipline = "single" ->
         /\ id \in listed[c] /\ character[c] = None
         /\ \A d \in Conn : character[d] # id

(* Mutant: registries are written without waiting for readers. *)
TxAlwaysWritable == TRUE

TxWritable == txReaders = {}

(* handle_enter_world_req makes the channel and registers its sender, once
   no shard system reads player_tx. *)
EnterWorldRequest(c, idx) ==
  LET slots == SlotsOf(session[c])
      id    == slots[idx + 1]
      ch    == <<id, enters + 1>>
  IN /\ TakePacket(c)
     /\ idx < Len(slots)
     /\ id # 0
     /\ MayEnter(c, id)
     /\ enters < MaxEnters
     /\ TxWritable
     /\ enters' = enters + 1
     /\ character' = [character EXCEPT ![c] = id]
     /\ channel' = [channel EXCEPT ![c] = ch]
     /\ playerTx' = [playerTx EXCEPT ![id] = ch]
     /\ pc' = [pc EXCEPT ![c] = "registerRx"]
     /\ UNCHANGED <<session, shard, sessions, chardata, playerRx, txReaders,
                    txClone, queue, shardQ, clientVars>>

(* Mutant: a receiver that is registered already is kept. *)
InsertRxOnce(id, ch) ==
  playerRx' = IF playerRx[id] = None THEN [playerRx EXCEPT ![id] = ch] ELSE playerRx

InsertRx(id, ch) == playerRx' = [playerRx EXCEPT ![id] = ch]

(* The receiver goes into the other registry, under the other lock. *)
RegisterRx(c) ==
  /\ pc[c] = "registerRx"
  /\ InsertRx(character[c], channel[c])
  /\ pc' = [pc EXCEPT ![c] = "joinShard"]
  /\ UNCHANGED <<session, character, shard, channel, rx, sessions, chardata,
                 playerTx, txReaders, txClone, queue, shardQ, enters, clientVars>>

(* Indexing chardata panics when the character is not in memory.  A location
   without a thread leaves shard_id set and the channel registered. *)
JoinShard(c) ==
  LET id == character[c]
  IN /\ pc[c] = "joinShard"
     /\ \/ /\ id \notin chardata
           /\ pc' = [pc EXCEPT ![c] = "panicked"]
           /\ UNCHANGED <<shard, shardQ>>
        \/ /\ id \in chardata
           /\ pc' = [pc EXCEPT ![c] = "ready"]
           /\ shard' = [shard EXCEPT ![c] = CharLocation[id]]
           /\ shardQ' = IF CharLocation[id] = ShardLocation
                          THEN Append(shardQ, [kind |-> "PlayerEnter", id |-> id])
                          ELSE shardQ
     /\ UNCHANGED <<session, character, channel, rx, sessions, chardata, playerTx,
                    playerRx, txReaders, txClone, queue, enters, clientVars>>

(* Mutant: movement overtakes what waits for the location. *)
PassOnFirst(msg) == shardQ' = <<msg>> \o shardQ

PassOn(msg) == shardQ' = Append(shardQ, msg)

(* send_packet_to_shard: only a connection that has joined passes movement
   on.  Every movement leads to coordinates not used before. *)
CharacterMove(c) ==
  LET id == character[c]
  IN /\ TakePacket(c)
     /\ shard[c] = ShardLocation
     /\ steps < MaxMoves
     /\ steps' = steps + 1
     /\ walked' = [walked EXCEPT ![id] = steps + 1]
     /\ PassOn([kind |-> "PlayerMove", id |-> id, pos |-> steps + 1])
     /\ UNCHANGED <<pc, session, character, shard, channel, sessions, chardata,
                    playerTx, playerRx, txReaders, txClone, queue, enters,
                    listed, loaded, spawned, view>>

(* recv_from_shard finds the receiver of the connection's character... *)
StartRecv(c) ==
  /\ pc[c] = "ready"
  /\ rx[c] = None
  /\ character[c] # None
  /\ playerRx[character[c]] # None
  /\ rx' = [rx EXCEPT ![c] = playerRx[character[c]]]
  /\ UNCHANGED <<pc, session, character, shard, channel, stateVars, clientVars>>

(* ...takes a message from it, whose packets are written to the client... *)
RecvFromShard(c) ==
  /\ pc[c] = "ready"
  /\ rx[c] # None
  /\ queue[rx[c]] # <<>>
  /\ ShowMessage(c, Head(queue[rx[c]]))
  /\ queue' = [queue EXCEPT ![rx[c]] = Tail(@)]
  /\ rx' = [rx EXCEPT ![c] = None]
  /\ UNCHANGED <<pc, session, character, shard, channel, sessions, chardata,
                 playerTx, playerRx, txReaders, txClone, shardQ, enters>>

(* ...or fails because every sender is gone, and the loop starts over. *)
RecvError(c) ==
  /\ pc[c] = "ready"
  /\ rx[c] # None
  /\ queue[rx[c]] = <<>>
  /\ ~SenderAlive(rx[c])
  /\ rx' = [rx EXCEPT ![c] = None]
  /\ UNCHANGED <<pc, session, character, shard, channel, stateVars, clientVars>>

(* End of stream or an I/O error: the task returns, and leaves everything it
   registered behind. *)
Close(c) ==
  /\ pc[c] \in {"uninit", "ready"}
  /\ pc' = [pc EXCEPT ![c] = "closed"]
  /\ rx' = [rx EXCEPT ![c] = None]
  /\ UNCHANGED <<session, character, shard, channel, stateVars, clientVars>>
=============================================================================
