----------------------------- MODULE GameServer -----------------------------
(***************************************************************************)
(* The game server: the connection tasks and the location thread, over the *)
(* state they share.                                                       *)
(***************************************************************************)
EXTENDS Connection, LocShard

vars == <<stateVars, clientVars, connVars, shardVars>>

Init ==
  /\ StateInit
  /\ ClientInit
  /\ ConnInit
  /\ ShardInit

(* What a client makes its connection do. *)
ClientStep(c) ==
  /\ \/ Handshake(c)
     \/ OtherPacket(c)
     \/ \E s \in Session, account \in Account : AuthRequest(c, s, account)
     \/ \E s \in Session : TimeSyncResponse(c, s)
     \/ \E idx \in Index : EnterWorldRequest(c, idx)
     \/ CharacterMove(c)
     \/ Close(c)
  /\ UNCHANGED shardVars

(* What a connection task does by itself: it finishes the request it is
   handling, and it receives. *)
HandlerStep(c) ==
  /\ RegisterRx(c) \/ JoinShard(c)
  /\ UNCHANGED shardVars

LookupStep(c) ==
  /\ StartRecv(c)
  /\ UNCHANGED shardVars

RecvStep(c) ==
  /\ RecvFromShard(c) \/ RecvError(c)
  /\ UNCHANGED shardVars

(* The location thread's loop, and the two systems of its schedule. *)
LoopStep ==
  /\ OnPlayerEnter \/ OnPlayerMove \/ BeginTick \/ EndTick
  /\ UNCHANGED <<clientVars, connVars>>

SpawnStep ==
  /\ \E e \in DOMAIN world :
        LoadPlayer(e) \/ LoadNext(e) \/ AnnounceTo(e) \/ AnnounceNext(e)
  /\ UNCHANGED <<clientVars, connVars>>

MoveStep ==
  /\ \E e \in DOMAIN world : MoveFor(e) \/ MoveNext(e)
  /\ UNCHANGED <<clientVars, connVars>>

Next ==
  \/ \E c \in Conn : ClientStep(c) \/ HandlerStep(c) \/ LookupStep(c) \/ RecvStep(c)
  \/ LoopStep
  \/ SpawnStep
  \/ MoveStep

(* tokio polls a runnable task again and the location is a thread that never
   waits, so each keeps going; select! polls its branches in random order, so
   a receive that keeps being possible is not always beaten by the client.
   Nothing is assumed of clients. *)
Fairness ==
  /\ \A c \in Conn :
       WF_vars(HandlerStep(c)) /\ WF_vars(LookupStep(c)) /\ SF_vars(RecvStep(c))
  /\ WF_vars(LoopStep) /\ WF_vars(SpawnStep) /\ WF_vars(MoveStep)

Spec == Init /\ [][Next]_vars

FairSpec == Spec /\ Fairness

-----------------------------------------------------------------------------
TypeOK ==
  /\ StateTypeOK
  /\ ClientTypeOK
  /\ ConnTypeOK
  /\ ShardTypeOK

Open(c) == pc[c] \notin {"closed", "panicked"}

InWorld(id) == \E e \in DOMAIN world : world[e].id = id

(* A channel carries its owner's PlayerLoaded and news of others only, and a
   connection waits only on channels of the character it plays, although the
   systems address players by id and a connection may change its character:
   locshard.rs "Except self" and "Skip self", datamap.rs recv_from_shard. *)
MessageForOwner ==
  /\ \A ch \in Chan : \A i \in DOMAIN queue[ch] :
       queue[ch][i].kind = "PlayerLoaded" <=> queue[ch][i].id = Owner(ch)
  /\ \A c \in Conn : rx[c] # None => Owner(rx[c]) = character[c]

(* Whatever the clients do, the location never meets the movement of a
   character it has not spawned, and finds every character that enters in
   memory: the observer on_player_move and the lookup in on_msg drop what they
   do not find without a word. *)
MovesFollowEnter ==
  \A i \in DOMAIN shardQ :
    /\ shardQ[i].kind = "PlayerEnter" => shardQ[i].id \in chardata
    /\ shardQ[i].kind = "PlayerMove" =>
         \/ InWorld(shardQ[i].id)
         \/ \E j \in 1 .. i - 1 : shardQ[j] = [kind |-> "PlayerEnter", id |-> shardQ[i].id]

(* A loop that sends through the sender in player_tx, without a clone of it,
   is not left with one that a new login has replaced in the meantime. *)
BorrowedSender ==
  /\ spawnJob # Idle /\ txClone = None => playerTx[Owner(spawnJob.ch)] = spawnJob.ch
  /\ moveJob # Idle => playerTx[Owner(moveJob.ch)] = moveJob.ch

(* login.rs "Char certainly loaded at this point": a connection that gets to
   its character's location finds the character in memory. *)
CharCertainlyLoaded ==
  \A c \in Conn : pc[c] = "joinShard" => character[c] \in chardata

(* login.rs handle_enter_world_req indexes chardata: whatever lists and logins
   go on elsewhere, no task is lost over a character its client was sent in a
   CharList. *)
PanicsOnlyUnlisted ==
  \A c \in Conn : pc[c] = "panicked" => character[c] \notin listed[c]

(* Once its request is through, a connection and the location hold the two
   ends of one channel, the one the connection made. *)
OwnChannel ==
  \A c \in Conn :
    /\ pc[c] = "ready" /\ character[c] # None =>
         /\ playerTx[character[c]] = channel[c]
         /\ playerRx[character[c]] = channel[c]
    /\ rx[c] # None => rx[c] = channel[c]

(* player_spawn initialises a player before it tells it of other entities. *)
SpawnAfterLoaded ==
  \A c \in Conn : spawned[c] # {} => loaded[c] # None

(* An accepted EnterWorldRequest ends with the client in the world, unless
   the connection ends first. *)
EntersWorld ==
  \A c \in Conn : pc[c] = "registerRx" ~> loaded[c] = character[c] \/ ~Open(c)

(* Once the clients stop walking, everyone in the world has been shown every
   other player, where it is. *)
Synced ==
  \A c \in Conn : pc[c] = "ready" /\ loaded[c] # None =>
    \A id \in Char \ {loaded[c]} : InWorld(id) =>
      id \in spawned[c] /\ view[c][id] = walked[id]

EventuallySynced == <>[]Synced

(* Positions as clients see them follow the abstract feed. *)
Feed == INSTANCE PositionFeed WITH Viewer <- Conn

FollowsFeed == Feed!Spec
=============================================================================
