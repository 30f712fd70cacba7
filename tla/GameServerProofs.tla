-------------------------- MODULE GameServerProofs --------------------------
(***************************************************************************)
(* Theorems about GameServer for every set of connections, characters and  *)
(* sessions, every database and every bound.                               *)
(*                                                                         *)
(* For clients of every discipline: its types, whose messages a channel    *)
(* carries, in which order entries and movements reach the location, and   *)
(* which sender a system sends through.                                    *)
(*                                                                         *)
(* For clients that keep to an order of packets: that a connection and the *)
(* location hold the ends of one channel, that a player is initialised     *)
(* before it is told of others, and, when no character enters twice, that  *)
(* the server implements PositionFeed: what clients are shown of positions *)
(* never goes back, through the location's queue, its world, two systems   *)
(* that send in parallel, and the channels.                                *)
(***************************************************************************)
EXTENDS GameServer, SequenceTheorems, TLAPS

(* What a sequence holds after Append, and after its head is taken. *)
LEMMA Appended ==
  ASSUME NEW S, NEW s \in Seq(S), NEW e \in S
  PROVE  /\ Append(s, e) \in Seq(S)
         /\ Len(Append(s, e)) = Len(s) + 1
         /\ DOMAIN Append(s, e) = DOMAIN s \cup {Len(s) + 1}
         /\ \A i \in DOMAIN s : Append(s, e)[i] = s[i]
         /\ Append(s, e)[Len(s) + 1] = e
  OBVIOUS

(* The head of a queue and what is left of it. *)
LEMMA HeadTaken ==
  ASSUME NEW S, NEW s \in Seq(S), s # <<>>
  PROVE  /\ Head(s) \in S
         /\ Head(s) = s[1]
         /\ 1 \in DOMAIN s
         /\ Tail(s) \in Seq(S)
         /\ \A i \in DOMAIN Tail(s) : i + 1 \in DOMAIN s /\ Tail(s)[i] = s[i + 1]
         /\ \A i \in DOMAIN s : i # 1 => i - 1 \in DOMAIN Tail(s)
  OBVIOUS

(* Rewriting the elements of a sequence leaves a sequence of its length. *)
LEMMA Rewritten ==
  ASSUME NEW S, NEW s \in Seq(S), NEW t, t = [i \in DOMAIN s |-> t[i]],
         \A i \in DOMAIN s : t[i] \in S
  PROVE  /\ t \in Seq(S)
         /\ Len(t) = Len(s)
         /\ DOMAIN t = DOMAIN s
<1>1. DOMAIN s = 1 .. Len(s) /\ Len(s) \in Nat
  OBVIOUS
<1>2. t \in [1 .. Len(s) -> S]
  BY <1>1
<1>3. t \in Seq(S)
  BY <1>1, <1>2, SeqDef
<1>4. QED
  BY <1>1, <1>2, <1>3, LenProperties

(* A channel's queue after Send is the queue with the message at its end, or
   the queue as it was. *)
LEMMA Sent ==
  ASSUME queue \in [Chan -> Seq(PlayerMsg)], NEW ch \in Chan \cup {None},
         NEW msg \in PlayerMsg, Send(ch, msg)
  PROVE  /\ queue' \in [Chan -> Seq(PlayerMsg)]
         /\ \A x \in Chan : queue'[x] # queue[x] =>
              x = ch /\ queue'[x] = Append(queue[x], msg)
BY NoneAssumption DEF Send

-----------------------------------------------------------------------------
(* Types.  A connection that has a location has a character: without it the
   movement of no one could reach the location. *)
JoinedHasCharacter == \A c \in Conn : shard[c] # None => character[c] # None

TypeInv == TypeOK /\ JoinedHasCharacter

(* A shard system's job is well formed whatever channel it is for. *)
LEMMA JobType ==
  ASSUME NEW ch \in Chan \cup {None}, NEW D, NEW ents \in SUBSET D
  PROVE  /\ Job(ch, ents) \in [ch : Chan \cup {None}, ents : SUBSET D]
         /\ Job(ch, ents).ch = None <=> Job(ch, ents).ents = {}
BY NoneAssumption DEF Job, Idle

(* The slots a handler looks at are positions of a list of ids. *)
LEMMA SlotsType ==
  ASSUME NEW s
  PROVE  SlotsOf(s) \in Seq(Char \cup {0})
BY DatabaseAssumption DEF SlotsOf

(* A server that has just started is well typed. *)
LEMMA InitType == Init => TypeInv
<1> SUFFICES ASSUME Init PROVE TypeInv
  OBVIOUS
<1>1. StateTypeOK
  BY BoundsAssumption DEF Init, StateInit, StateTypeOK
<1>2. ClientTypeOK
  BY BoundsAssumption DEF Init, ClientInit, ClientTypeOK, Coord
<1>3. ConnTypeOK
  BY DEF Init, ConnInit, ConnTypeOK
<1>4. ShardTypeOK
  <2>1. world = <<>> /\ spawnJob = Idle /\ moveJob = Idle
    BY DEF Init, ShardInit
  <2>2. Idle \in [ch : Chan \cup {None}, ents : SUBSET DOMAIN world]
    BY DEF Idle
  <2>3. Idle.ch = None /\ Idle.ents = {}
    BY DEF Idle
  <2>4. world \in Seq([id : Char, pos : Coord])
    BY <2>1
  <2>5. /\ fresh = {} /\ changed = {} /\ ticking = FALSE
        /\ loads = {} /\ announces = {} /\ moves = {}
    BY DEF Init, ShardInit
  <2>6. \A job \in {spawnJob, moveJob} :
          /\ job \in [ch : Chan \cup {None}, ents : SUBSET DOMAIN world]
          /\ job.ch = None <=> job.ents = {}
    BY <2>1, <2>2, <2>3
  <2>7. QED
    BY <2>4, <2>5, <2>6 DEF ShardTypeOK
<1>5. JoinedHasCharacter
  BY DEF Init, ConnInit, JoinedHasCharacter
<1>6. QED
  BY <1>1, <1>2, <1>3, <1>4, <1>5 DEF TypeInv, TypeOK

(* What a client's packet does keeps the types. *)
LEMMA ClientStepType ==
  ASSUME TypeInv, NEW c \in Conn, ClientStep(c)
  PROVE  TypeInv'
<1> USE NoneAssumption, DatabaseAssumption, BoundsAssumption
    DEF TypeInv, TypeOK, JoinedHasCharacter, StateTypeOK, ClientTypeOK, ConnTypeOK,
        stateVars, clientVars, connVars, shardVars, TakePacket
<1>1. ShardTypeOK'
  BY DEF ClientStep, ShardTypeOK
<1>2. CASE Handshake(c)
  BY <1>1, <1>2 DEF Handshake
<1>3. CASE OtherPacket(c)
  BY <1>1, <1>3 DEF OtherPacket
<1>4. ASSUME NEW s \in Session, NEW account \in Account, AuthRequest(c, s, account)
      PROVE  TypeInv'
  BY <1>1, <1>4 DEF AuthRequest
<1>5. ASSUME NEW s \in Session, TimeSyncResponse(c, s)
      PROVE  TypeInv'
  <2> DEFINE slots == SlotsOf(s)
             ids == {slots[k] : k \in LoadedSlots(slots)}
  <2>1. slots \in Seq(Char \cup {0})
    BY SlotsType
  <2>2. ids \subseteq DOMAIN CharLocation
    <3>1. ASSUME NEW k \in LoadedSlots(slots)
          PROVE  slots[k] \in DOMAIN CharLocation
      <4>1. k \in 1 .. Len(slots) /\ \A j \in 1 .. k : slots[j] \in DOMAIN CharLocation
        BY <2>1 DEF LoadedSlots
      <4>2. k \in 1 .. k
        BY <2>1, <4>1
      <4>3. QED
        BY <4>1, <4>2
    <3>2. QED
      BY <3>1
  <2>3. chardata' = chardata \cup ids /\ (listed' = [listed EXCEPT ![c] = @ \cup ids] \/ listed' = listed)
    BY <1>5 DEF TimeSyncResponse, LoadCharacters
  <2>4. QED
    BY <1>1, <1>5, <2>2, <2>3 DEF TimeSyncResponse
<1>6. ASSUME NEW idx \in Index, EnterWorldRequest(c, idx)
      PROVE  TypeInv'
  <2> DEFINE slots == SlotsOf(session[c])
             id == slots[idx + 1]
             ch == <<id, enters + 1>>
  <2>1. id \in Char
    <3>1. slots \in Seq(Char \cup {0})
      BY SlotsType
    <3>2. idx + 1 \in 1 .. Len(slots) /\ id # 0
      BY <1>6, <3>1 DEF EnterWorldRequest
    <3>3. QED
      BY <3>1, <3>2, ElementOfSeq
  <2>2. ch \in Chan /\ enters + 1 \in 0 .. MaxEnters
    BY <1>6, <2>1 DEF EnterWorldRequest, Chan
  <2>3. QED
    BY <1>1, <1>6, <2>1, <2>2 DEF EnterWorldRequest
<1>7. CASE CharacterMove(c)
  <2> DEFINE msg == [kind |-> "PlayerMove", id |-> character[c], pos |-> steps + 1]
  <2>1. character[c] \in Char /\ steps + 1 \in Coord
    BY <1>7 DEF CharacterMove, Coord
  <2>2. msg \in ShardMsg
    BY <2>1 DEF ShardMsg
  <2>3. shardQ' \in Seq(ShardMsg)
    BY <1>7, <2>2, Appended DEF CharacterMove, PassOn
  <2>4. QED
    BY <1>1, <1>7, <2>1, <2>3 DEF CharacterMove
<1>8. CASE Close(c)
  BY <1>1, <1>8 DEF Close
<1>9. QED
  BY <1>2, <1>3, <1>4, <1>5, <1>6, <1>7, <1>8 DEF ClientStep

(* What a connection task does by itself keeps the types. *)
LEMMA TaskStepType ==
  ASSUME TypeInv, NEW c \in Conn, HandlerStep(c) \/ LookupStep(c) \/ RecvStep(c)
  PROVE  TypeInv'
<1> USE NoneAssumption, DatabaseAssumption
    DEF TypeInv, TypeOK, JoinedHasCharacter, StateTypeOK, ClientTypeOK, ConnTypeOK,
        stateVars, clientVars, connVars, shardVars
<1>1. ShardTypeOK'
  BY DEF HandlerStep, LookupStep, RecvStep, ShardTypeOK
<1>2. CASE RegisterRx(c)
  BY <1>1, <1>2 DEF RegisterRx, InsertRx
<1>3. CASE JoinShard(c)
  <2> DEFINE id == character[c]
             msg == [kind |-> "PlayerEnter", id |-> id]
  <2>1. CASE id \notin chardata
    <3>1. pc' = [pc EXCEPT ![c] = "panicked"] /\ shard' = shard /\ shardQ' = shardQ
      BY <1>3, <2>1 DEF JoinShard
    <3>2. QED
      BY <1>1, <1>3, <3>1 DEF JoinShard
  <2>2. CASE id \in chardata
    <3>1. id \in DOMAIN CharLocation /\ id \in Char
      BY <2>2
    <3>2. /\ pc' = [pc EXCEPT ![c] = "ready"]
          /\ shard' = [shard EXCEPT ![c] = CharLocation[id]]
          /\ shardQ' = Append(shardQ, msg) \/ shardQ' = shardQ
      BY <1>3, <2>2 DEF JoinShard
    <3>3. msg \in ShardMsg
      BY <3>1 DEF ShardMsg
    <3>4. shardQ' \in Seq(ShardMsg)
      <4>1. shardQ \in Seq(ShardMsg)
        OBVIOUS
      <4>2. Append(shardQ, msg) \in Seq(ShardMsg)
        BY <3>3, <4>1, Appended
      <4>3. QED
        BY <3>2, <4>1, <4>2
    <3>5. /\ pc' \in [Conn -> {"uninit", "ready", "registerRx", "joinShard", "closed",
                                "panicked"}]
          /\ shard' \in [Conn -> {CharLocation[x] : x \in DOMAIN CharLocation} \cup {None}]
      BY <3>1, <3>2
    <3>6. JoinedHasCharacter'
      BY <1>3, <3>1, <3>2 DEF JoinShard
    <3>7. QED
      BY <1>1, <1>3, <3>4, <3>5, <3>6 DEF JoinShard
  <2>3. QED
    BY <2>1, <2>2
<1>4. CASE StartRecv(c)
  BY <1>1, <1>4 DEF StartRecv
<1>5. CASE RecvFromShard(c)
  <2> DEFINE msg == Head(queue[rx[c]])
  <2>1. msg \in PlayerMsg /\ Tail(queue[rx[c]]) \in Seq(PlayerMsg)
    BY <1>5, HeadTaken DEF RecvFromShard
  <2>2. queue' \in [Chan -> Seq(PlayerMsg)]
    BY <1>5, <2>1 DEF RecvFromShard
  <2>3. ClientTypeOK'
    <3>1. msg.id \in Char /\ msg.pos \in Coord
      BY <2>1 DEF PlayerMsg
    <3>2. QED
      BY <1>5, <3>1 DEF RecvFromShard, ShowMessage
  <2>4. QED
    BY <1>1, <1>5, <2>2, <2>3 DEF RecvFromShard
<1>6. CASE RecvError(c)
  BY <1>1, <1>6 DEF RecvError
<1>7. QED
  BY <1>2, <1>3, <1>4, <1>5, <1>6 DEF HandlerStep, LookupStep, RecvStep

(* What the location does keeps the types. *)
LEMMA LoopStepType ==
  ASSUME TypeInv, LoopStep
  PROVE  TypeInv'
<1> USE DEF TypeInv, TypeOK, StateTypeOK, stateVars, clientVars, connVars, shardVars
<1>1. ClientTypeOK' /\ ConnTypeOK' /\ JoinedHasCharacter'
  BY DEF LoopStep, ClientTypeOK, ConnTypeOK, JoinedHasCharacter
<1>2. CASE OnPlayerEnter
  <2> DEFINE id == Head(shardQ).id
             entity == [id |-> id, pos |-> 0]
  <2>1. Tail(shardQ) \in Seq(ShardMsg) /\ id \in Char
    BY <1>2, HeadTaken DEF OnPlayerEnter, ShardMsg
  <2>2. CASE id \in chardata
    <3>1. entity \in [id : Char, pos : Coord]
      BY <2>1, BoundsAssumption DEF Coord
    <3>2. world' = Append(world, entity)
      BY <1>2, <2>2 DEF OnPlayerEnter, Spawn
    <3>3. /\ world' \in Seq([id : Char, pos : Coord])
          /\ DOMAIN world \cup {Len(world) + 1} = DOMAIN world'
      BY <3>1, <3>2, Appended DEF ShardTypeOK
    <3>4. ShardTypeOK'
      BY <1>2, <2>2, <3>3 DEF OnPlayerEnter, Spawn, ShardTypeOK
    <3>5. QED
      BY <1>1, <1>2, <2>1, <3>4 DEF OnPlayerEnter
  <2>3. CASE id \notin chardata
    BY <1>1, <1>2, <2>1, <2>3 DEF OnPlayerEnter, ShardTypeOK
  <2>4. QED
    BY <2>2, <2>3
<1>3. CASE OnPlayerMove
  <2> DEFINE msg == Head(shardQ)
             ents == {e \in DOMAIN world : world[e].id = msg.id}
             Entity == [id : Char, pos : Coord]
  <2>1. Tail(shardQ) \in Seq(ShardMsg) /\ msg.pos \in Coord
    BY <1>3, HeadTaken DEF OnPlayerMove, ShardMsg
  <2>2. world' = [e \in DOMAIN world |->
                    IF e \in ents THEN [world[e] EXCEPT !.pos = msg.pos] ELSE world[e]]
    BY <1>3 DEF OnPlayerMove, Write
  <2>3. ASSUME NEW e \in DOMAIN world
        PROVE  world[e] \in Entity /\ world'[e] \in Entity
    <3>1. world \in Seq(Entity) /\ e \in 1 .. Len(world)
      BY DEF ShardTypeOK
    <3>2. world[e] \in Entity
      BY <3>1, ElementOfSeq
    <3>3. [world[e] EXCEPT !.pos = msg.pos] \in Entity
      BY <2>1, <3>2
    <3>4. QED
      BY <2>2, <3>2, <3>3
  <2>4. world' \in Seq(Entity) /\ DOMAIN world' = DOMAIN world
    <3>1. world \in Seq(Entity) /\ world' = [e \in DOMAIN world |-> world'[e]]
      BY <2>2 DEF ShardTypeOK
    <3>2. QED
      BY <2>3, <3>1, Rewritten
  <2>5. ShardTypeOK'
    BY <1>3, <2>4 DEF OnPlayerMove, Write, ShardTypeOK
  <2>6. QED
    BY <1>1, <1>3, <2>1, <2>5 DEF OnPlayerMove
<1>4. CASE BeginTick
  BY <1>1, <1>4 DEF BeginTick, ShardTypeOK
<1>5. CASE EndTick
  BY <1>1, <1>5 DEF EndTick, ShardTypeOK
<1>6. QED
  BY <1>2, <1>3, <1>4, <1>5 DEF LoopStep

(* Every entity is a character at coordinates. *)
LEMMA EntityType ==
  ASSUME TypeInv, NEW e \in DOMAIN world
  PROVE  /\ world[e].id \in Char
         /\ world[e].pos \in Coord
         /\ playerTx[world[e].id] \in Chan \cup {None}
<1>1. world \in Seq([id : Char, pos : Coord]) /\ e \in 1 .. Len(world)
  BY DEF TypeInv, TypeOK, ShardTypeOK
<1>2. world[e] \in [id : Char, pos : Coord]
  BY <1>1, ElementOfSeq
<1>3. QED
  BY <1>2 DEF TypeInv, TypeOK, StateTypeOK

(* A system's message about an entity, and what is left of its job. *)
LEMMA SystemSent ==
  ASSUME TypeInv, NEW ch \in Chan \cup {None}, NEW e \in DOMAIN world,
         NEW rest \in SUBSET DOMAIN world,
         NEW kind \in {"PlayerLoaded", "EntitySpawn", "EntityMove"},
         Send(ch, [kind |-> kind, id |-> world[e].id, pos |-> world[e].pos])
  PROVE  /\ queue' \in [Chan -> Seq(PlayerMsg)]
         /\ Job(ch, rest) \in [ch : Chan \cup {None}, ents : SUBSET DOMAIN world]
         /\ Job(ch, rest).ch = None <=> Job(ch, rest).ents = {}
<1> DEFINE msg == [kind |-> kind, id |-> world[e].id, pos |-> world[e].pos]
<1>1. msg \in PlayerMsg
  BY EntityType DEF PlayerMsg
<1>2. queue \in [Chan -> Seq(PlayerMsg)]
  BY DEF TypeInv, TypeOK, StateTypeOK
<1>3. QED
  BY <1>1, <1>2, Sent, JobType

(* What player_spawn does keeps the types. *)
LEMMA SpawnStepType ==
  ASSUME TypeInv, SpawnStep
  PROVE  TypeInv'
<1> USE DEF stateVars, clientVars, connVars, shardVars
<1>1. ClientTypeOK' /\ ConnTypeOK' /\ JoinedHasCharacter'
  BY DEF TypeInv, TypeOK, SpawnStep, ClientTypeOK, ConnTypeOK, JoinedHasCharacter
<1>2. SUFFICES StateTypeOK' /\ ShardTypeOK'
  BY <1>1 DEF TypeInv, TypeOK
<1>3. PICK e \in DOMAIN world :
        LoadPlayer(e) \/ LoadNext(e) \/ AnnounceTo(e) \/ AnnounceNext(e)
  BY DEF SpawnStep
<1>4. CASE LoadPlayer(e)
  <2> DEFINE id == world[e].id
             ch == playerTx[id]
             ents == Others(DOMAIN world, id)
  <2>1. ch \in Chan \cup {None} /\ ents \in SUBSET DOMAIN world
    BY EntityType DEF Others, TypeInv, TypeOK, StateTypeOK, ShardTypeOK
  <2>2. /\ queue' \in [Chan -> Seq(PlayerMsg)]
        /\ Job(ch, ents) \in [ch : Chan \cup {None}, ents : SUBSET DOMAIN world]
        /\ Job(ch, ents).ch = None <=> Job(ch, ents).ents = {}
    BY <1>4, <2>1, SystemSent DEF LoadPlayer
  <2>3. spawnJob' = Job(ch, ents) /\ txClone' = spawnJob'.ch
    BY <1>4 DEF LoadPlayer
  <2>4. QED
    BY <1>4, <2>2, <2>3 DEF LoadPlayer,
       TypeInv, TypeOK, StateTypeOK, ShardTypeOK
<1>5. ASSUME NEW ch \in Chan \cup {None}, NEW f \in DOMAIN world,
             NEW rest \in SUBSET DOMAIN world, SendSpawn(ch, f, rest)
      PROVE  /\ queue' \in [Chan -> Seq(PlayerMsg)]
             /\ spawnJob' \in [ch : Chan \cup {None}, ents : SUBSET DOMAIN world]
             /\ spawnJob'.ch = None <=> spawnJob'.ents = {}
  BY <1>5, SystemSent DEF SendSpawn
<1>6. CASE LoadNext(e)
  <2>1. /\ queue' \in [Chan -> Seq(PlayerMsg)]
        /\ spawnJob' \in [ch : Chan \cup {None}, ents : SUBSET DOMAIN world]
        /\ spawnJob'.ch = None <=> spawnJob'.ents = {}
    <3>1. spawnJob.ch \in Chan \cup {None} /\ spawnJob.ents \ {e} \in SUBSET DOMAIN world
      BY DEF TypeInv, TypeOK, StateTypeOK, ShardTypeOK
    <3>2. SendSpawn(spawnJob.ch, e, spawnJob.ents \ {e})
      BY <1>6 DEF LoadNext
    <3>3. QED
      BY <1>5, <3>1, <3>2
  <2>2. QED
    BY <1>6, <2>1 DEF LoadNext,
       TypeInv, TypeOK, StateTypeOK, ShardTypeOK
<1>7. CASE AnnounceTo(e)
  <2>1. /\ queue' \in [Chan -> Seq(PlayerMsg)]
        /\ spawnJob' \in [ch : Chan \cup {None}, ents : SUBSET DOMAIN world]
        /\ spawnJob'.ch = None <=> spawnJob'.ents = {}
    <3> DEFINE ents == Others(fresh, world[e].id)
    <3>1. PICK f \in ents : SendSpawn(playerTx[world[e].id], f, ents \ {f})
      BY <1>7 DEF AnnounceTo
    <3>2. /\ f \in DOMAIN world /\ ents \ {f} \in SUBSET DOMAIN world
          /\ playerTx[world[e].id] \in Chan \cup {None}
      BY EntityType DEF Others, TypeInv, TypeOK, StateTypeOK, ShardTypeOK
    <3>3. QED
      BY <1>5, <3>1, <3>2
  <2>2. QED
    BY <1>7, <2>1 DEF AnnounceTo, Hold,
       TypeInv, TypeOK, StateTypeOK, ShardTypeOK
<1>8. CASE AnnounceNext(e)
  <2>1. /\ queue' \in [Chan -> Seq(PlayerMsg)]
        /\ spawnJob' \in [ch : Chan \cup {None}, ents : SUBSET DOMAIN world]
        /\ spawnJob'.ch = None <=> spawnJob'.ents = {}
    <3>1. spawnJob.ch \in Chan \cup {None} /\ spawnJob.ents \ {e} \in SUBSET DOMAIN world
      BY DEF TypeInv, TypeOK, StateTypeOK, ShardTypeOK
    <3>2. SendSpawn(spawnJob.ch, e, spawnJob.ents \ {e})
      BY <1>8 DEF AnnounceNext
    <3>3. QED
      BY <1>5, <3>1, <3>2
  <2>2. QED
    BY <1>8, <2>1 DEF AnnounceNext, Hold,
       TypeInv, TypeOK, StateTypeOK, ShardTypeOK
<1>9. QED
  BY <1>3, <1>4, <1>6, <1>7, <1>8

(* What entity_move does keeps the types. *)
LEMMA MoveStepType ==
  ASSUME TypeInv, MoveStep
  PROVE  TypeInv'
<1> USE DEF stateVars, clientVars, connVars, shardVars
<1>1. ClientTypeOK' /\ ConnTypeOK' /\ JoinedHasCharacter'
  BY DEF TypeInv, TypeOK, MoveStep, ClientTypeOK, ConnTypeOK, JoinedHasCharacter
<1>2. SUFFICES StateTypeOK' /\ ShardTypeOK'
  BY <1>1 DEF TypeInv, TypeOK
<1>3. PICK e \in DOMAIN world : MoveFor(e) \/ MoveNext(e)
  BY DEF MoveStep
<1>4. ASSUME NEW ch \in Chan \cup {None}, NEW f \in DOMAIN world,
             NEW rest \in SUBSET DOMAIN world, SendMove(ch, f, rest)
      PROVE  /\ queue' \in [Chan -> Seq(PlayerMsg)]
             /\ moveJob' \in [ch : Chan \cup {None}, ents : SUBSET DOMAIN world]
             /\ moveJob'.ch = None <=> moveJob'.ents = {}
  BY <1>4, SystemSent DEF SendMove
<1>5. CASE MoveFor(e)
  <2>1. /\ queue' \in [Chan -> Seq(PlayerMsg)]
        /\ moveJob' \in [ch : Chan \cup {None}, ents : SUBSET DOMAIN world]
        /\ moveJob'.ch = None <=> moveJob'.ents = {}
    <3> DEFINE ents == Others(changed, world[e].id)
    <3>1. PICK f \in ents : SendMove(playerTx[world[e].id], f, ents \ {f})
      BY <1>5 DEF MoveFor
    <3>2. /\ f \in DOMAIN world /\ ents \ {f} \in SUBSET DOMAIN world
          /\ playerTx[world[e].id] \in Chan \cup {None}
      BY EntityType DEF Others, TypeInv, TypeOK, StateTypeOK, ShardTypeOK
    <3>3. QED
      BY <1>4, <3>1, <3>2
  <2>2. QED
    BY <1>5, <2>1 DEF MoveFor, Hold,
       TypeInv, TypeOK, StateTypeOK, ShardTypeOK
<1>6. CASE MoveNext(e)
  <2>1. /\ queue' \in [Chan -> Seq(PlayerMsg)]
        /\ moveJob' \in [ch : Chan \cup {None}, ents : SUBSET DOMAIN world]
        /\ moveJob'.ch = None <=> moveJob'.ents = {}
    <3>1. moveJob.ch \in Chan \cup {None} /\ moveJob.ents \ {e} \in SUBSET DOMAIN world
      BY DEF TypeInv, TypeOK, StateTypeOK, ShardTypeOK
    <3>2. SendMove(moveJob.ch, e, moveJob.ents \ {e})
      BY <1>6 DEF MoveNext
    <3>3. QED
      BY <1>4, <3>1, <3>2
  <2>2. QED
    BY <1>6, <2>1 DEF MoveNext, Hold,
       TypeInv, TypeOK, StateTypeOK, ShardTypeOK
<1>7. QED
  BY <1>3, <1>5, <1>6

(* So every step keeps the types. *)
LEMMA NextType == TypeInv /\ [Next]_vars => TypeInv'
<1>1. CASE UNCHANGED vars
  BY <1>1 DEF vars, stateVars, clientVars, connVars, shardVars, TypeInv, TypeOK,
              JoinedHasCharacter, StateTypeOK, ClientTypeOK, ConnTypeOK, ShardTypeOK
<1>2. QED
  BY <1>1, ClientStepType, TaskStepType, LoopStepType, SpawnStepType, MoveStepType
     DEF Next

(* Every variable keeps its type: an id a client names by a list position is
   an id of its account's list, a channel in a registry is one that a request
   made, and every system's job is about entities that exist. *)
THEOREM TypeCorrect == Spec => []TypeOK
<1>1. TypeInv => TypeOK
  BY DEF TypeInv
<1>2. QED
  BY <1>1, InitType, NextType, PTL DEF Spec

(* The types with what makes them inductive, for later proofs. *)
LEMMA TypeInvCorrect == Spec => []TypeInv
BY InitType, NextType, PTL DEF Spec

-----------------------------------------------------------------------------
(* Whose messages a channel carries.  The registries and the connections    *)
(* know a channel under its owner's id, and what a job has left to send     *)
(* is about others, so that no send can break QueuesForOwner.               *)
RegistryOwners ==
  /\ \A id \in Char : playerTx[id] # None => Owner(playerTx[id]) = id
  /\ \A id \in Char : playerRx[id] # None => Owner(playerRx[id]) = id
  /\ \A c \in Conn : channel[c] # None => Owner(channel[c]) = character[c]

JobForOthers(job) == \A e \in job.ents : world[e].id # Owner(job.ch)

JobsForOthers == JobForOthers(spawnJob) /\ JobForOthers(moveJob)

ForOwner(ch, msg) == msg.kind = "PlayerLoaded" <=> msg.id = Owner(ch)

QueuesForOwner ==
  \A ch \in Chan : \A i \in DOMAIN queue[ch] : ForOwner(ch, queue[ch][i])

RxOfCharacter == \A c \in Conn : rx[c] # None => Owner(rx[c]) = character[c]

OwnerInv == RegistryOwners /\ JobsForOthers /\ QueuesForOwner /\ RxOfCharacter

(* Nothing is registered or under way when the server starts. *)
LEMMA OwnerInit == Init => OwnerInv
<1> SUFFICES ASSUME Init PROVE OwnerInv
  OBVIOUS
<1>1. RegistryOwners /\ RxOfCharacter
  BY DEF Init, StateInit, ConnInit, RegistryOwners, RxOfCharacter
<1>2. JobsForOthers
  BY DEF Init, ShardInit, JobsForOthers, JobForOthers, Idle
<1>3. QueuesForOwner
  BY DEF Init, StateInit, QueuesForOwner
<1>4. QED
  BY <1>1, <1>2, <1>3 DEF OwnerInv

(* A send to the right channel keeps the queues right. *)
LEMMA SentForOwner ==
  ASSUME TypeInv, QueuesForOwner, NEW ch \in Chan \cup {None},
         NEW msg \in PlayerMsg, Send(ch, msg), ch # None => ForOwner(ch, msg)
  PROVE  QueuesForOwner'
<1> SUFFICES ASSUME NEW x \in Chan, NEW i \in DOMAIN queue'[x]
             PROVE  ForOwner(x, queue'[x][i])
  BY DEF QueuesForOwner, ForOwner, Owner
<1>1. queue \in [Chan -> Seq(PlayerMsg)]
  BY DEF TypeInv, TypeOK, StateTypeOK
<1>2. CASE queue'[x] = queue[x]
  BY <1>2 DEF QueuesForOwner
<1>3. CASE x = ch /\ queue'[x] = Append(queue[x], msg)
  <2>1. queue[x] \in Seq(PlayerMsg)
    BY <1>1
  <2>2. i \in DOMAIN queue[x] \/ i = Len(queue[x]) + 1
    BY <1>3, <2>1, Appended
  <2>3. CASE i \in DOMAIN queue[x]
    BY <1>3, <2>1, <2>3, Appended DEF QueuesForOwner
  <2>4. CASE i = Len(queue[x]) + 1
    <3>1. queue'[x][i] = msg /\ ch # None
      BY <1>3, <2>1, <2>4, Appended, NoneAssumption
    <3>2. QED
      BY <1>3, <3>1
  <2>5. QED
    BY <2>2, <2>3, <2>4
<1>4. QED
  BY <1>1, <1>2, <1>3, Sent

(* A packet only registers a channel of the character it enters with. *)
LEMMA OwnerClient ==
  ASSUME TypeInv, OwnerInv, NEW c \in Conn, ClientStep(c)
  PROVE  OwnerInv'
<1> USE NoneAssumption DEF TypeInv, TypeOK, StateTypeOK, ConnTypeOK, OwnerInv,
        stateVars, clientVars, connVars, shardVars, TakePacket
<1>1. JobsForOthers'
  BY DEF ClientStep, JobsForOthers, JobForOthers
<1>2. QueuesForOwner'
  BY ZenonT(30) DEF ClientStep, Handshake, OtherPacket, AuthRequest, TimeSyncResponse,
         EnterWorldRequest, CharacterMove, Close, QueuesForOwner, ForOwner
<1>3. CASE \E idx \in Index : EnterWorldRequest(c, idx)
  <2>1. PICK idx \in Index : EnterWorldRequest(c, idx)
    BY <1>3
  <2> DEFINE id == SlotsOf(session[c])[idx + 1]
             ch == <<id, enters + 1>>
  <2>2. /\ playerTx' = [playerTx EXCEPT ![id] = ch]
        /\ playerRx' = playerRx
        /\ channel' = [channel EXCEPT ![c] = ch]
        /\ character' = [character EXCEPT ![c] = id]
        /\ rx' = [rx EXCEPT ![c] = None]
    BY <2>1 DEF EnterWorldRequest
  <2>3. Owner(ch) = id
    BY DEF Owner
  <2>4. RegistryOwners'
    BY <2>2, <2>3 DEF RegistryOwners, Owner
  <2>5. RxOfCharacter'
    BY <2>2 DEF RxOfCharacter, Owner
  <2>6. QED
    BY <1>1, <1>2, <2>4, <2>5
<1>4. CASE ~\E idx \in Index : EnterWorldRequest(c, idx)
  <2>1. /\ UNCHANGED <<playerTx, playerRx, channel, character>>
        /\ rx' = rx \/ rx' = [rx EXCEPT ![c] = None]
    BY <1>4 DEF ClientStep, Handshake, OtherPacket, AuthRequest, TimeSyncResponse,
                CharacterMove, Close
  <2>2. RegistryOwners' /\ RxOfCharacter'
    BY <2>1 DEF RegistryOwners, RxOfCharacter, Owner
  <2>3. QED
    BY <1>1, <1>2, <2>2
<1>5. QED
  BY <1>3, <1>4

(* A task registers its own channel, and looks its character's up. *)
LEMMA OwnerTask ==
  ASSUME TypeInv, OwnerInv, NEW c \in Conn,
         HandlerStep(c) \/ LookupStep(c) \/ RecvStep(c)
  PROVE  OwnerInv'
<1> USE NoneAssumption DEF TypeInv, TypeOK, StateTypeOK, ConnTypeOK, OwnerInv,
        stateVars, clientVars, connVars, shardVars
<1>1. JobsForOthers'
  BY DEF HandlerStep, LookupStep, RecvStep, JobsForOthers, JobForOthers
<1>2. UNCHANGED <<playerTx, channel, character>>
  BY DEF HandlerStep, RegisterRx, JoinShard, LookupStep, StartRecv, RecvStep,
         RecvFromShard, RecvError
<1>3. CASE RegisterRx(c)
  <2>1. playerRx' = [playerRx EXCEPT ![character[c]] = channel[c]]
    BY <1>3 DEF RegisterRx, InsertRx
  <2>2. RegistryOwners'
    BY <1>2, <2>1 DEF RegistryOwners, Owner
  <2>3. RxOfCharacter' /\ QueuesForOwner'
    BY <1>2, <1>3 DEF RegisterRx, RxOfCharacter, QueuesForOwner, ForOwner, Owner
  <2>4. QED
    BY <1>1, <2>2, <2>3
<1>4. CASE JoinShard(c)
  BY <1>1, <1>4 DEF JoinShard, RegistryOwners, RxOfCharacter, QueuesForOwner,
                    ForOwner, Owner
<1>5. CASE StartRecv(c)
  <2>1. rx' = [rx EXCEPT ![c] = playerRx[character[c]]] /\ character[c] \in Char
    BY <1>5 DEF StartRecv
  <2>2. RxOfCharacter'
    BY <1>2, <2>1 DEF RxOfCharacter, RegistryOwners, Owner
  <2>3. RegistryOwners' /\ QueuesForOwner'
    BY <1>2, <1>5 DEF StartRecv, RegistryOwners, QueuesForOwner, ForOwner, Owner
  <2>4. QED
    BY <1>1, <2>2, <2>3
<1>6. CASE RecvFromShard(c)
  <2>1. /\ rx[c] \in Chan /\ queue[rx[c]] \in Seq(PlayerMsg) /\ queue[rx[c]] # <<>>
        /\ queue' = [queue EXCEPT ![rx[c]] = Tail(@)]
        /\ rx' = [rx EXCEPT ![c] = None]
        /\ playerRx' = playerRx
    BY <1>6 DEF RecvFromShard
  <2>2. ASSUME NEW x \in Chan, NEW i \in DOMAIN queue'[x]
        PROVE  ForOwner(x, queue'[x][i])
    <3>1. CASE x = rx[c]
      <4>1. queue'[x] = Tail(queue[x])
        BY <2>1, <3>1
      <4>2. i + 1 \in DOMAIN queue[x] /\ queue'[x][i] = queue[x][i + 1]
        BY <2>1, <2>2, <3>1, <4>1, HeadTaken
      <4>3. QED
        BY <4>2 DEF QueuesForOwner
    <3>2. CASE x # rx[c]
      BY <2>1, <2>2, <3>2 DEF QueuesForOwner
    <3>3. QED
      BY <3>1, <3>2
  <2>3. QueuesForOwner'
    BY <2>2 DEF QueuesForOwner, ForOwner, Owner
  <2>4. RegistryOwners' /\ RxOfCharacter'
    BY <1>2, <2>1 DEF RegistryOwners, RxOfCharacter, Owner
  <2>5. QED
    BY <1>1, <2>3, <2>4
<1>7. CASE RecvError(c)
  BY <1>1, <1>7 DEF RecvError, RegistryOwners, RxOfCharacter, QueuesForOwner,
                    ForOwner, Owner
<1>8. QED
  BY <1>3, <1>4, <1>5, <1>6, <1>7 DEF HandlerStep, LookupStep, RecvStep

(* Nothing the location does takes an entity away or gives it another id. *)
LEMMA EntitiesStay ==
  ASSUME TypeInv, LoopStep
  PROVE  \A e \in DOMAIN world : e \in DOMAIN world' /\ world'[e].id = world[e].id
<1> USE DEF shardVars
<1>1. world \in Seq([id : Char, pos : Coord])
  BY DEF TypeInv, TypeOK, ShardTypeOK
<1>2. CASE OnPlayerEnter
  <2> DEFINE entity == [id |-> Head(shardQ).id, pos |-> 0]
  <2>1. CASE UNCHANGED world
    BY <2>1
  <2>2. CASE world' = Append(world, entity)
    <3>1. Head(shardQ).id \in Char
      BY <1>2, HeadTaken DEF OnPlayerEnter, TypeInv, TypeOK, StateTypeOK, ShardMsg
    <3>2. entity \in [id : Char, pos : Coord]
      BY <3>1, BoundsAssumption DEF Coord
    <3>3. QED
      BY <1>1, <2>2, <3>2, Appended
  <2>3. QED
    BY <1>2, <2>1, <2>2 DEF OnPlayerEnter, Spawn
<1>3. CASE OnPlayerMove
  <2> DEFINE msg == Head(shardQ)
             ents == {e \in DOMAIN world : world[e].id = msg.id}
  <2>1. world' = [e \in DOMAIN world |->
                    IF e \in ents THEN [world[e] EXCEPT !.pos = msg.pos] ELSE world[e]]
    BY <1>3 DEF OnPlayerMove, Write
  <2>2. ASSUME NEW e \in DOMAIN world
        PROVE  e \in DOMAIN world' /\ world'[e].id = world[e].id
    <3>1. world[e] \in [id : Char, pos : Coord]
      <4>1. e \in 1 .. Len(world)
        BY <1>1
      <4>2. QED
        BY <1>1, <4>1, ElementOfSeq
    <3>2. QED
      BY <2>1, <3>1
  <2>3. QED
    BY <2>2
<1>4. CASE BeginTick \/ EndTick
  BY <1>4 DEF BeginTick, EndTick
<1>5. QED
  BY <1>2, <1>3, <1>4 DEF LoopStep

(* The location's queue and its ticks leave jobs and channels alone. *)
LEMMA OwnerLoop ==
  ASSUME TypeInv, OwnerInv, LoopStep
  PROVE  OwnerInv'
<1>1. UNCHANGED <<playerTx, playerRx, queue, channel, character, rx, spawnJob, moveJob>>
  BY DEF LoopStep, OnPlayerEnter, OnPlayerMove, BeginTick, EndTick, stateVars, connVars
<1>2. spawnJob.ents \subseteq DOMAIN world /\ moveJob.ents \subseteq DOMAIN world
  BY DEF TypeInv, TypeOK, ShardTypeOK
<1>3. JobsForOthers'
  BY <1>1, <1>2, EntitiesStay DEF OwnerInv, JobsForOthers, JobForOthers, Owner
<1>4. QED
  BY <1>1, <1>3 DEF OwnerInv, RegistryOwners, QueuesForOwner, ForOwner, RxOfCharacter,
                    Owner

(* A system's message about an entity of another id, and what it has left. *)
LEMMA OtherSent ==
  ASSUME TypeInv, OwnerInv, NEW ch \in Chan \cup {None}, NEW e \in DOMAIN world,
         NEW rest \in SUBSET DOMAIN world,
         NEW kind \in {"PlayerLoaded", "EntitySpawn", "EntityMove"},
         Send(ch, [kind |-> kind, id |-> world[e].id, pos |-> world[e].pos]),
         ch # None => ForOwner(ch, [kind |-> kind, id |-> world[e].id, pos |-> world[e].pos]),
         ch # None => \A f \in rest : world[f].id # Owner(ch)
  PROVE  QueuesForOwner' /\ JobForOthers(Job(ch, rest))
<1> DEFINE msg == [kind |-> kind, id |-> world[e].id, pos |-> world[e].pos]
<1>1. msg \in PlayerMsg
  BY EntityType DEF PlayerMsg
<1>2. QueuesForOwner'
  BY <1>1, SentForOwner DEF OwnerInv
<1>3. JobForOthers(Job(ch, rest))
  BY DEF JobForOthers, Job, Idle
<1>4. QED
  BY <1>2, <1>3

(* player_spawn sends each player its own data and other entities. *)
LEMMA OwnerSpawn ==
  ASSUME TypeInv, OwnerInv, SpawnStep
  PROVE  OwnerInv'
<1>1. UNCHANGED <<playerTx, playerRx, channel, character, rx, world, moveJob>>
  BY DEF SpawnStep, LoadPlayer, LoadNext, AnnounceTo, AnnounceNext, connVars
<1>2. RegistryOwners' /\ RxOfCharacter' /\ JobForOthers(moveJob)'
  BY <1>1 DEF OwnerInv, RegistryOwners, RxOfCharacter, JobsForOthers, JobForOthers, Owner
<1>3. SUFFICES QueuesForOwner' /\ JobForOthers(spawnJob)'
  BY <1>2 DEF OwnerInv, JobsForOthers
<1>4. PICK e \in DOMAIN world :
        LoadPlayer(e) \/ LoadNext(e) \/ AnnounceTo(e) \/ AnnounceNext(e)
  BY DEF SpawnStep
<1> DEFINE id == world[e].id
<1>5. id \in Char /\ playerTx[id] \in Chan \cup {None}
  BY EntityType
<1>6. playerTx[id] # None => Owner(playerTx[id]) = id
  BY <1>5 DEF OwnerInv, RegistryOwners
<1>7. ASSUME NEW ch \in Chan \cup {None}, NEW f \in DOMAIN world,
             NEW rest \in SUBSET DOMAIN world, SendSpawn(ch, f, rest),
             ch # None => world[f].id # Owner(ch),
             ch # None => \A g \in rest : world[g].id # Owner(ch)
      PROVE  QueuesForOwner' /\ JobForOthers(spawnJob)'
  <2> DEFINE msg == [kind |-> "EntitySpawn", id |-> world[f].id, pos |-> world[f].pos]
  <2>1. Send(ch, msg) /\ spawnJob' = Job(ch, rest)
    BY <1>7 DEF SendSpawn
  <2>2. ch # None => ForOwner(ch, msg)
    BY <1>7 DEF ForOwner
  <2>3. QueuesForOwner' /\ JobForOthers(Job(ch, rest))
    BY <1>7, <2>1, <2>2, OtherSent
  <2>4. QED
    BY <1>1, <2>1, <2>3 DEF JobForOthers, Owner
<1>8. CASE LoadPlayer(e)
  <2> DEFINE ch == playerTx[id]
             ents == Others(DOMAIN world, id)
             msg == [kind |-> "PlayerLoaded", id |-> id, pos |-> world[e].pos]
  <2>1. Send(ch, msg) /\ spawnJob' = Job(ch, ents)
    BY <1>8 DEF LoadPlayer
  <2>2. ch # None => ForOwner(ch, msg) /\ \A f \in ents : world[f].id # Owner(ch)
    BY <1>6 DEF ForOwner, Others
  <2>3. ents \in SUBSET DOMAIN world
    BY DEF Others
  <2>4. QueuesForOwner' /\ JobForOthers(Job(ch, ents))
    BY <1>5, <2>1, <2>2, <2>3, OtherSent
  <2>5. QED
    BY <1>1, <2>1, <2>4 DEF JobForOthers, Owner
<1>9. CASE AnnounceTo(e)
  <2> DEFINE ents == Others(fresh, id)
  <2>1. PICK f \in ents : SendSpawn(playerTx[id], f, ents \ {f})
    BY <1>9 DEF AnnounceTo
  <2>2. /\ f \in DOMAIN world /\ ents \ {f} \in SUBSET DOMAIN world
        /\ \A g \in ents : world[g].id # id
    BY DEF Others, TypeInv, TypeOK, ShardTypeOK
  <2>3. QED
    BY <1>5, <1>6, <1>7, <2>1, <2>2
<1>10. CASE LoadNext(e) \/ AnnounceNext(e)
  <2>1. SendSpawn(spawnJob.ch, e, spawnJob.ents \ {e}) /\ e \in spawnJob.ents
    BY <1>10 DEF LoadNext, AnnounceNext, IsFirst
  <2>2. spawnJob.ch \in Chan \cup {None} /\ spawnJob.ents \ {e} \in SUBSET DOMAIN world
    BY DEF TypeInv, TypeOK, ShardTypeOK
  <2>3. \A g \in spawnJob.ents : world[g].id # Owner(spawnJob.ch)
    BY DEF OwnerInv, JobsForOthers, JobForOthers
  <2>4. QED
    BY <1>7, <2>1, <2>2, <2>3
<1>11. QED
  BY <1>4, <1>8, <1>9, <1>10

(* entity_move sends each player other entities. *)
LEMMA OwnerMove ==
  ASSUME TypeInv, OwnerInv, MoveStep
  PROVE  OwnerInv'
<1>1. UNCHANGED <<playerTx, playerRx, channel, character, rx, world, spawnJob>>
  BY DEF MoveStep, MoveFor, MoveNext, connVars
<1>2. RegistryOwners' /\ RxOfCharacter' /\ JobForOthers(spawnJob)'
  BY <1>1 DEF OwnerInv, RegistryOwners, RxOfCharacter, JobsForOthers, JobForOthers, Owner
<1>3. SUFFICES QueuesForOwner' /\ JobForOthers(moveJob)'
  BY <1>2 DEF OwnerInv, JobsForOthers
<1>4. PICK e \in DOMAIN world : MoveFor(e) \/ MoveNext(e)
  BY DEF MoveStep
<1> DEFINE id == world[e].id
<1>5. id \in Char /\ playerTx[id] \in Chan \cup {None}
  BY EntityType
<1>6. playerTx[id] # None => Owner(playerTx[id]) = id
  BY <1>5 DEF OwnerInv, RegistryOwners
<1>7. ASSUME NEW ch \in Chan \cup {None}, NEW f \in DOMAIN world,
             NEW rest \in SUBSET DOMAIN world, SendMove(ch, f, rest),
             ch # None => world[f].id # Owner(ch),
             ch # None => \A g \in rest : world[g].id # Owner(ch)
      PROVE  QueuesForOwner' /\ JobForOthers(moveJob)'
  <2> DEFINE msg == [kind |-> "EntityMove", id |-> world[f].id, pos |-> world[f].pos]
  <2>1. Send(ch, msg) /\ moveJob' = Job(ch, rest)
    BY <1>7 DEF SendMove
  <2>2. ch # None => ForOwner(ch, msg)
    BY <1>7 DEF ForOwner
  <2>3. QueuesForOwner' /\ JobForOthers(Job(ch, rest))
    BY <1>7, <2>1, <2>2, OtherSent
  <2>4. QED
    BY <1>1, <2>1, <2>3 DEF JobForOthers, Owner
<1>8. CASE MoveFor(e)
  <2> DEFINE ents == Others(changed, id)
  <2>1. PICK f \in ents : SendMove(playerTx[id], f, ents \ {f})
    BY <1>8 DEF MoveFor
  <2>2. /\ f \in DOMAIN world /\ ents \ {f} \in SUBSET DOMAIN world
        /\ \A g \in ents : world[g].id # id
    BY DEF Others, TypeInv, TypeOK, ShardTypeOK
  <2>3. QED
    BY <1>5, <1>6, <1>7, <2>1, <2>2
<1>9. CASE MoveNext(e)
  <2>1. SendMove(moveJob.ch, e, moveJob.ents \ {e}) /\ e \in moveJob.ents
    BY <1>9 DEF MoveNext, IsFirst
  <2>2. moveJob.ch \in Chan \cup {None} /\ moveJob.ents \ {e} \in SUBSET DOMAIN world
    BY DEF TypeInv, TypeOK, ShardTypeOK
  <2>3. \A g \in moveJob.ents : world[g].id # Owner(moveJob.ch)
    BY DEF OwnerInv, JobsForOthers, JobForOthers
  <2>4. QED
    BY <1>7, <2>1, <2>2, <2>3
<1>10. QED
  BY <1>4, <1>8, <1>9

(* OwnerInv is inductive over well-typed states. *)
THEOREM OwnerInvCorrect == Spec => []OwnerInv
<1>1. TypeInv /\ OwnerInv /\ [Next]_vars => OwnerInv'
  <2>1. CASE UNCHANGED vars
    BY <2>1 DEF vars, stateVars, clientVars, connVars, shardVars, OwnerInv,
                RegistryOwners, JobsForOthers, JobForOthers, QueuesForOwner, ForOwner,
                RxOfCharacter, Owner
  <2>2. QED
    BY <2>1, OwnerClient, OwnerTask, OwnerLoop, OwnerSpawn, OwnerMove DEF Next
<1>2. QED
  BY <1>1, OwnerInit, TypeInvCorrect, PTL DEF Spec

(* Whatever clients send and whenever the location runs, a channel only ever
   carries its owner's PlayerLoaded and news of others, and a connection only
   waits on channels of the character it plays. *)
THEOREM MessagesForOwner == Spec => []MessageForOwner
<1>1. OwnerInv => MessageForOwner
  BY DEF OwnerInv, QueuesForOwner, RxOfCharacter, ForOwner, MessageForOwner
<1>2. QED
  BY <1>1, OwnerInvCorrect, PTL

-----------------------------------------------------------------------------
(* The order of entries and movements.  A connection may only pass movement *)
(* on once its character's entry is in the queue or has been handled.       *)
Entering(id) == \E j \in DOMAIN shardQ : shardQ[j] = [kind |-> "PlayerEnter", id |-> id]

Joined(c) == pc[c] = "ready" /\ shard[c] = ShardLocation

JoinedHasEntered ==
  /\ \A c \in Conn : pc[c] = "uninit" => shard[c] = None
  /\ \A c \in Conn : Joined(c) => InWorld(character[c]) \/ Entering(character[c])

EnterInv == MovesFollowEnter /\ JoinedHasEntered

(* Nobody has joined when the server starts. *)
LEMMA EnterInit == Init => EnterInv
BY NoneAssumption
   DEF Init, StateInit, ConnInit, EnterInv, MovesFollowEnter, JoinedHasEntered, Joined

(* What is appended to the queue keeps its order right. *)
LEMMA AppendedInOrder ==
  ASSUME TypeInv, MovesFollowEnter, NEW msg \in ShardMsg,
         shardQ' = Append(shardQ, msg), chardata \subseteq chardata', world' = world,
         msg.kind = "PlayerEnter" => msg.id \in chardata,
         msg.kind = "PlayerMove" => InWorld(msg.id) \/ Entering(msg.id)
  PROVE  /\ MovesFollowEnter'
         /\ \A id \in Char : Entering(id) => Entering(id)'
<1>1. shardQ \in Seq(ShardMsg)
  BY DEF TypeInv, TypeOK, StateTypeOK
<1>2. /\ DOMAIN shardQ' = DOMAIN shardQ \cup {Len(shardQ) + 1}
      /\ \A i \in DOMAIN shardQ : shardQ'[i] = shardQ[i]
      /\ shardQ'[Len(shardQ) + 1] = msg
      /\ DOMAIN shardQ = 1 .. Len(shardQ) /\ Len(shardQ) \in Nat
  BY <1>1, Appended
<1>3. ASSUME NEW i \in DOMAIN shardQ'
      PROVE  /\ shardQ'[i].kind = "PlayerEnter" => shardQ'[i].id \in chardata'
             /\ shardQ'[i].kind = "PlayerMove" =>
                  \/ InWorld(shardQ'[i].id)
                  \/ \E j \in 1 .. i - 1 :
                       shardQ'[j] = [kind |-> "PlayerEnter", id |-> shardQ'[i].id]
  <2>1. CASE i \in DOMAIN shardQ
    <3>1. \A j \in 1 .. i - 1 : j \in DOMAIN shardQ
      BY <1>2, <2>1
    <3>2. QED
      BY <1>2, <2>1, <3>1 DEF MovesFollowEnter
  <2>2. CASE i = Len(shardQ) + 1
    <3>1. shardQ'[i] = msg /\ 1 .. i - 1 = DOMAIN shardQ
      BY <1>2, <2>2
    <3>2. QED
      BY <1>2, <3>1 DEF Entering
  <2>3. QED
    BY <1>2, <2>1, <2>2
<1>4. MovesFollowEnter'
  BY <1>3 DEF MovesFollowEnter, InWorld
<1>5. QED
  BY <1>2, <1>4 DEF Entering

(* Movement goes behind its character's entry. *)
LEMMA EnterClient ==
  ASSUME TypeInv, EnterInv, NEW c \in Conn, ClientStep(c)
  PROVE  EnterInv'
<1> USE NoneAssumption DEF EnterInv, shardVars
<1>1. world' = world /\ (shardQ' = shardQ \/ CharacterMove(c)) /\ chardata \subseteq chardata'
  <2>1. world' = world
    BY DEF ClientStep
  <2>2. CASE \E s \in Session : TimeSyncResponse(c, s)
    BY <2>1, <2>2 DEF TimeSyncResponse, LoadCharacters
  <2>3. CASE \E idx \in Index : EnterWorldRequest(c, idx)
    BY <2>1, <2>3 DEF EnterWorldRequest
  <2>4. CASE \/ Handshake(c) \/ OtherPacket(c) \/ CharacterMove(c) \/ Close(c)
             \/ \E s \in Session, account \in Account : AuthRequest(c, s, account)
    BY <2>1, <2>4 DEF Handshake, OtherPacket, AuthRequest, CharacterMove, Close, stateVars
  <2>5. QED
    BY <2>2, <2>3, <2>4 DEF ClientStep
<1>2. CASE CharacterMove(c)
  <2> DEFINE msg == [kind |-> "PlayerMove", id |-> character[c], pos |-> steps + 1]
  <2>1. character[c] \in Char /\ steps + 1 \in Coord
    BY <1>2, BoundsAssumption
       DEF CharacterMove, TypeInv, TypeOK, JoinedHasCharacter, ConnTypeOK, ClientTypeOK, Coord
  <2>2. msg \in ShardMsg /\ shardQ' = Append(shardQ, msg)
    BY <1>2, <2>1 DEF ShardMsg, CharacterMove, PassOn
  <2>3. InWorld(character[c]) \/ Entering(character[c])
    BY <1>2 DEF CharacterMove, TakePacket, JoinedHasEntered, Joined
  <2>4. MovesFollowEnter' /\ \A id \in Char : Entering(id) => Entering(id)'
    BY <1>1, <2>2, <2>3, AppendedInOrder
  <2>5. UNCHANGED <<pc, shard, character>>
    BY <1>2 DEF CharacterMove
  <2>6. ASSUME NEW d \in Conn, Joined(d)'
        PROVE  InWorld(character[d])' \/ Entering(character[d])'
    <3>1. Joined(d) /\ character[d] \in Char
      BY <2>5, <2>6
         DEF Joined, TypeInv, TypeOK, JoinedHasCharacter, ConnTypeOK
    <3>2. InWorld(character[d]) \/ Entering(character[d])
      BY <3>1 DEF JoinedHasEntered
    <3>3. QED
      BY <1>1, <2>4, <2>5, <3>1, <3>2 DEF InWorld, Entering
  <2>7. JoinedHasEntered'
    BY <2>5, <2>6 DEF JoinedHasEntered
  <2>8. QED
    BY <2>4, <2>7
<1>3. CASE shardQ' = shardQ
  <2>1. MovesFollowEnter'
    BY <1>1, <1>3 DEF MovesFollowEnter, InWorld
  <2>2. UNCHANGED shard
    BY DEF ClientStep, Handshake, OtherPacket, AuthRequest, TimeSyncResponse,
           EnterWorldRequest, CharacterMove, Close
  <2>3. \A d \in Conn :
          /\ pc'[d] = "uninit" => pc[d] = "uninit"
          /\ pc'[d] = "ready" => pc[d] \in {"uninit", "ready"} /\ character'[d] = character[d]
    BY DEF ClientStep, Handshake, OtherPacket, AuthRequest, TimeSyncResponse,
           EnterWorldRequest, CharacterMove, Close, TypeInv, TypeOK, ConnTypeOK, TakePacket
  <2>4. ASSUME NEW d \in Conn, Joined(d)'
        PROVE  InWorld(character[d])' \/ Entering(character[d])'
    <3>1. Joined(d) /\ character'[d] = character[d]
      BY <2>2, <2>3, <2>4 DEF Joined, JoinedHasEntered
    <3>2. QED
      BY <1>1, <1>3, <3>1 DEF JoinedHasEntered, InWorld, Entering
  <2>5. JoinedHasEntered'
    BY <2>2, <2>3, <2>4 DEF JoinedHasEntered
  <2>6. QED
    BY <2>1, <2>5
<1>4. QED
  BY <1>1, <1>2, <1>3

(* A task joins by putting the entry into the queue. *)
LEMMA EnterTask ==
  ASSUME TypeInv, EnterInv, NEW c \in Conn,
         HandlerStep(c) \/ LookupStep(c) \/ RecvStep(c)
  PROVE  EnterInv'
<1> USE DEF EnterInv, shardVars
<1>1. world' = world /\ chardata' = chardata /\ character' = character
  BY DEF HandlerStep, RegisterRx, JoinShard, LookupStep, StartRecv, RecvStep,
         RecvFromShard, RecvError, stateVars
<1>2. CASE JoinShard(c) /\ character[c] \in chardata
  <2> DEFINE id == character[c]
             msg == [kind |-> "PlayerEnter", id |-> id]
  <2>1. /\ pc[c] = "joinShard"
        /\ pc' = [pc EXCEPT ![c] = "ready"]
        /\ shard' = [shard EXCEPT ![c] = CharLocation[id]]
        /\ shardQ' = IF CharLocation[id] = ShardLocation THEN Append(shardQ, msg) ELSE shardQ
    BY <1>2 DEF JoinShard
  <2>2. id \in Char /\ msg \in ShardMsg
    BY <1>2, DatabaseAssumption DEF TypeInv, TypeOK, StateTypeOK, ShardMsg
  <2>3. MovesFollowEnter' /\ \A x \in Char : Entering(x) => Entering(x)'
    <3>1. CASE shardQ' = Append(shardQ, msg)
      BY <1>1, <1>2, <2>2, <3>1, AppendedInOrder
    <3>2. CASE shardQ' = shardQ
      BY <1>1, <3>2 DEF MovesFollowEnter, InWorld, Entering
    <3>3. QED
      BY <2>1, <3>1, <3>2
  <2>4. CharLocation[id] = ShardLocation => Entering(id)'
    <3>1. shardQ \in Seq(ShardMsg)
      BY DEF TypeInv, TypeOK, StateTypeOK
    <3>2. CharLocation[id] = ShardLocation =>
            Len(shardQ) + 1 \in DOMAIN shardQ' /\ shardQ'[Len(shardQ) + 1] = msg
      BY <2>1, <2>2, <3>1, Appended
    <3>3. QED
      BY <1>1, <3>2 DEF Entering
  <2>5. pc \in [Conn -> {"uninit", "ready", "registerRx", "joinShard", "closed", "panicked"}]
        /\ DOMAIN shard = Conn
    BY DEF TypeInv, TypeOK, ConnTypeOK
  <2>6. ASSUME NEW d \in Conn, Joined(d)'
        PROVE  InWorld(character[d])' \/ Entering(character[d])'
    <3>1. CASE d = c
      BY <1>1, <2>1, <2>4, <2>5, <2>6, <3>1 DEF Joined
    <3>2. CASE d # c
      <4>1. Joined(d)
        BY <2>1, <2>5, <2>6, <3>2 DEF Joined
      <4>2. character[d] \in Char
        BY <4>1, NoneAssumption
           DEF Joined, TypeInv, TypeOK, JoinedHasCharacter, ConnTypeOK
      <4>3. QED
        BY <1>1, <2>3, <4>1, <4>2 DEF JoinedHasEntered, InWorld, Entering
    <3>3. QED
      BY <3>1, <3>2
  <2>7. \A d \in Conn : pc'[d] = "uninit" => shard'[d] = None
    BY <2>1, <2>5 DEF JoinedHasEntered
  <2>8. QED
    BY <2>3, <2>6, <2>7 DEF JoinedHasEntered
<1>3. CASE ~(JoinShard(c) /\ character[c] \in chardata)
  <2>1. shardQ' = shardQ /\ shard' = shard
    BY <1>3 DEF HandlerStep, RegisterRx, JoinShard, LookupStep, StartRecv, RecvStep,
                RecvFromShard, RecvError, stateVars
  <2>2. \A d \in Conn : pc'[d] \in {"uninit", "ready"} => pc[d] = pc'[d]
    BY <1>3 DEF HandlerStep, RegisterRx, JoinShard, LookupStep, StartRecv, RecvStep,
                RecvFromShard, RecvError, TypeInv, TypeOK, ConnTypeOK
  <2>3. QED
    BY <1>1, <2>1, <2>2 DEF MovesFollowEnter, JoinedHasEntered, Joined, InWorld, Entering
<1>4. QED
  BY <1>2, <1>3

(* The location takes messages from the front: what an entry was waited for
   by is in the world afterwards. *)
LEMMA EnterLoop ==
  ASSUME TypeInv, EnterInv, LoopStep
  PROVE  EnterInv'
<1> USE DEF EnterInv
<1>1. UNCHANGED <<pc, shard, character, chardata>>
  BY DEF LoopStep, OnPlayerEnter, OnPlayerMove, BeginTick, EndTick, connVars, stateVars
<1>2. \A id : InWorld(id) => InWorld(id)'
  BY EntitiesStay DEF InWorld
<1>3. CASE BeginTick \/ EndTick
  BY <1>1, <1>3 DEF BeginTick, EndTick, stateVars, MovesFollowEnter, JoinedHasEntered,
                    Joined, InWorld, Entering
<1>4. CASE OnPlayerEnter \/ OnPlayerMove
  <2>1. /\ shardQ \in Seq(ShardMsg) /\ shardQ # <<>> /\ shardQ' = Tail(shardQ)
        /\ world \in Seq([id : Char, pos : Coord])
    BY <1>4, Zenon DEF OnPlayerEnter, OnPlayerMove, TypeInv, TypeOK, StateTypeOK, ShardTypeOK
  <2>2. /\ \A i \in DOMAIN shardQ' : i + 1 \in DOMAIN shardQ /\ shardQ'[i] = shardQ[i + 1]
        /\ \A i \in DOMAIN shardQ : i # 1 => i - 1 \in DOMAIN shardQ'
        /\ 1 \in DOMAIN shardQ /\ Head(shardQ) = shardQ[1] /\ Head(shardQ) \in ShardMsg
        /\ DOMAIN shardQ = 1 .. Len(shardQ) /\ DOMAIN shardQ' = 1 .. Len(shardQ')
    BY <2>1, HeadTaken
  <2>3. ASSUME NEW id, shardQ[1] = [kind |-> "PlayerEnter", id |-> id]
        PROVE  InWorld(id)'
    <3>1. Head(shardQ).kind = "PlayerEnter" /\ Head(shardQ).id = id
      BY <2>2, <2>3
    <3>2. OnPlayerEnter /\ id \in chardata
      BY <1>4, <2>2, <3>1, Zenon DEF OnPlayerMove, MovesFollowEnter
    <3>3. world' = Append(world, [id |-> id, pos |-> 0])
      BY <3>1, <3>2 DEF OnPlayerEnter, Spawn
    <3>4. id \in Char
      BY <3>2, DatabaseAssumption DEF TypeInv, TypeOK, StateTypeOK
    <3>5. [id |-> id, pos |-> 0] \in [id : Char, pos : Coord]
      BY <3>4, BoundsAssumption DEF Coord
    <3>6. /\ Len(world) + 1 \in DOMAIN world'
          /\ world'[Len(world) + 1] = [id |-> id, pos |-> 0]
      BY <2>1, <3>3, <3>5, Appended
    <3>7. QED
      BY <3>6 DEF InWorld
  <2>4. ASSUME NEW id, Entering(id)
        PROVE  InWorld(id)' \/ Entering(id)'
    <3>1. PICK j \in DOMAIN shardQ : shardQ[j] = [kind |-> "PlayerEnter", id |-> id]
      BY <2>4 DEF Entering
    <3>2. CASE j = 1
      BY <2>3, <3>1, <3>2
    <3>3. CASE j # 1
      <4>1. j - 1 \in DOMAIN shardQ' /\ shardQ'[j - 1] = shardQ[j - 1 + 1] /\ j - 1 + 1 = j
        BY <2>1, <2>2, <3>3
      <4>2. QED
        BY <3>1, <4>1 DEF Entering
    <3>4. QED
      BY <3>2, <3>3
  <2>5. ASSUME NEW i \in DOMAIN shardQ'
        PROVE  /\ shardQ'[i].kind = "PlayerEnter" => shardQ'[i].id \in chardata'
               /\ shardQ'[i].kind = "PlayerMove" =>
                    \/ \E e \in DOMAIN world' : world'[e].id = shardQ'[i].id
                    \/ \E j \in 1 .. i - 1 :
                         shardQ'[j] = [kind |-> "PlayerEnter", id |-> shardQ'[i].id]
    <3>1. i + 1 \in DOMAIN shardQ /\ shardQ'[i] = shardQ[i + 1]
      BY <2>2
    <3> DEFINE id == shardQ[i + 1].id
    <3>2. shardQ[i + 1].kind = "PlayerEnter" => id \in chardata
      BY <3>1 DEF MovesFollowEnter
    <3>3. CASE shardQ[i + 1].kind = "PlayerMove" /\ ~InWorld(id)
      <4>1. PICK j \in 1 .. (i + 1) - 1 : shardQ[j] = [kind |-> "PlayerEnter", id |-> id]
        BY <3>1, <3>3 DEF MovesFollowEnter
      <4>2. CASE j = 1
        <5>1. \E e \in DOMAIN world' : world'[e].id = id
          BY <2>3, <4>1, <4>2 DEF InWorld
        <5>2. QED
          BY <1>1, <3>1, <3>2, <5>1
      <4>3. CASE j # 1
        <5>1. j - 1 \in 1 .. i - 1 /\ j - 1 \in DOMAIN shardQ' /\ j - 1 + 1 = j
          BY <2>2, <2>5, <4>1, <4>3
        <5>2. shardQ'[j - 1] = [kind |-> "PlayerEnter", id |-> shardQ'[i].id]
          BY <2>2, <3>1, <4>1, <5>1
        <5>3. QED
          BY <1>1, <3>1, <3>2, <5>1, <5>2
      <4>4. QED
        BY <4>2, <4>3
    <3>4. CASE InWorld(id)
      <4>1. \E e \in DOMAIN world' : world'[e].id = id
        BY <3>4, EntitiesStay DEF InWorld
      <4>2. QED
        BY <1>1, <3>1, <3>2, <4>1
    <3>5. CASE shardQ[i + 1].kind # "PlayerMove"
      BY <1>1, <3>1, <3>2, <3>5
    <3>6. QED
      BY <3>3, <3>4, <3>5
  <2>6. MovesFollowEnter'
    BY <2>5 DEF MovesFollowEnter, InWorld
  <2>7. JoinedHasEntered'
    <3>1. ASSUME NEW d \in Conn, Joined(d)'
          PROVE  InWorld(character[d])' \/ Entering(character[d])'
      <4>1. InWorld(character[d]) \/ Entering(character[d])
        BY <1>1, <3>1 DEF Joined, JoinedHasEntered
      <4> DEFINE id == character[d]
      <4>2. InWorld(id)' \/ Entering(id)'
        BY <1>2, <2>4, <4>1, <1>1 DEF InWorld, Entering
      <4>3. QED
        BY <4>2
    <3>2. QED
      BY <1>1, <3>1 DEF JoinedHasEntered
  <2>8. QED
    BY <2>6, <2>7
<1>5. QED
  BY <1>3, <1>4 DEF LoopStep

(* The systems only read what the order is about. *)
LEMMA EnterSystems ==
  ASSUME EnterInv, SpawnStep \/ MoveStep
  PROVE  EnterInv'
<1>1. UNCHANGED <<pc, shard, character, chardata, shardQ, world>>
  BY DEF SpawnStep, LoadPlayer, LoadNext, AnnounceTo, AnnounceNext, MoveStep, MoveFor,
         MoveNext, connVars
<1>2. QED
  BY <1>1 DEF EnterInv, MovesFollowEnter, JoinedHasEntered, Joined, InWorld, Entering

(* Whatever the clients do, the location never meets the movement of a
   character it has not spawned, and finds each one that enters in memory. *)
THEOREM MovesInOrder == Spec => []MovesFollowEnter
<1>1. TypeInv /\ EnterInv /\ [Next]_vars => EnterInv'
  <2>1. CASE UNCHANGED vars
    BY <2>1 DEF vars, stateVars, clientVars, connVars, shardVars, EnterInv,
                MovesFollowEnter, JoinedHasEntered, Joined, InWorld, Entering
  <2>2. QED
    BY <2>1, EnterClient, EnterTask, EnterLoop, EnterSystems DEF Next
<1>2. EnterInv => MovesFollowEnter
  BY DEF EnterInv
<1>3. QED
  BY <1>1, <1>2, EnterInit, TypeInvCorrect, PTL DEF Spec

-----------------------------------------------------------------------------
(* The senders the systems use.  Between two messages of a loop body that   *)
(* works on player_tx itself, the system holds the read lock.               *)
JobsHoldLock ==
  /\ spawnJob # Idle /\ txClone = None => "player_spawn" \in txReaders
  /\ moveJob # Idle => "entity_move" \in txReaders

SenderInv == JobsHoldLock /\ BorrowedSender

(* No job is under way when the server starts. *)
LEMMA SenderInit == Init => SenderInv
BY DEF Init, ShardInit, SenderInv, JobsHoldLock, BorrowedSender

(* A login replaces a sender when no system reads the registry. *)
LEMMA SenderClient ==
  ASSUME TypeInv, SenderInv, NEW c \in Conn, ClientStep(c)
  PROVE  SenderInv'
<1>1. UNCHANGED <<spawnJob, moveJob, txClone, txReaders>>
  BY DEF ClientStep, Handshake, OtherPacket, AuthRequest, TimeSyncResponse,
         EnterWorldRequest, CharacterMove, Close, shardVars, stateVars
<1>2. CASE playerTx' = playerTx
  BY <1>1, <1>2 DEF SenderInv, JobsHoldLock, BorrowedSender, Owner
<1>3. CASE txReaders = {}
  BY <1>1, <1>3 DEF SenderInv, JobsHoldLock, BorrowedSender
<1>4. playerTx' = playerTx \/ txReaders = {}
  BY DEF ClientStep, Handshake, OtherPacket, AuthRequest, TimeSyncResponse,
         EnterWorldRequest, TxWritable, CharacterMove, Close, stateVars
<1>5. QED
  BY <1>2, <1>3, <1>4

(* The other tasks and the location's loop do not touch senders. *)
LEMMA SenderOthers ==
  ASSUME SenderInv,
         \/ \E c \in Conn : HandlerStep(c) \/ LookupStep(c) \/ RecvStep(c)
         \/ LoopStep
  PROVE  SenderInv'
<1>1. UNCHANGED <<playerTx, spawnJob, moveJob, txClone, txReaders>>
  BY DEF HandlerStep, RegisterRx, JoinShard, LookupStep, StartRecv, RecvStep,
         RecvFromShard, RecvError, LoopStep, OnPlayerEnter, OnPlayerMove, BeginTick,
         EndTick, shardVars, stateVars
<1>2. QED
  BY <1>1 DEF SenderInv, JobsHoldLock, BorrowedSender, Owner

(* What is left of a job is nothing, or for the same channel. *)
LEMMA JobChannel ==
  ASSUME NEW ch, NEW ents
  PROVE  Job(ch, ents) # Idle => Job(ch, ents).ch = ch /\ ch # None
BY DEF Job

(* player_spawn holds the lock from its job's first message to its last. *)
LEMMA SenderSpawn ==
  ASSUME TypeInv, OwnerInv, SenderInv, SpawnStep
  PROVE  SenderInv'
<1>1. UNCHANGED <<playerTx, moveJob>>
  BY DEF SpawnStep, LoadPlayer, LoadNext, AnnounceTo, AnnounceNext
<1>2. PICK e \in DOMAIN world :
        LoadPlayer(e) \/ LoadNext(e) \/ AnnounceTo(e) \/ AnnounceNext(e)
  BY DEF SpawnStep
<1> DEFINE id == world[e].id
<1>3. id \in Char /\ (playerTx[id] # None => Owner(playerTx[id]) = id)
  BY EntityType DEF OwnerInv, RegistryOwners
<1>4. "entity_move" \in txReaders => "entity_move" \in txReaders'
  BY <1>2 DEF LoadPlayer, LoadNext, AnnounceTo, AnnounceNext, Hold
<1>5. moveJob # Idle =>
        /\ "entity_move" \in txReaders'
        /\ playerTx'[Owner(moveJob.ch)] = moveJob.ch
  BY <1>1, <1>4 DEF SenderInv, JobsHoldLock, BorrowedSender
<1>6. CASE LoadPlayer(e) \/ LoadNext(e)
  <2>1. \E ch, ents : spawnJob' = Job(ch, ents)
    BY <1>6 DEF LoadPlayer, LoadNext, SendSpawn
  <2>2. txClone' = spawnJob'.ch
    BY <1>6 DEF LoadPlayer, LoadNext
  <2>3. spawnJob' # Idle => txClone' # None
    BY <2>1, <2>2, JobChannel
  <2>4. QED
    BY <1>1, <1>5, <2>3 DEF SenderInv, JobsHoldLock, BorrowedSender, Owner, Idle
<1>7. CASE AnnounceTo(e) \/ AnnounceNext(e)
  <2>1. spawnJob' # Idle => "player_spawn" \in txReaders'
    BY <1>7 DEF AnnounceTo, AnnounceNext, Hold
  <2>2. CASE AnnounceTo(e)
    <3>1. \E ents : spawnJob' = Job(playerTx[id], ents)
      BY <2>2 DEF AnnounceTo, SendSpawn
    <3>2. spawnJob' # Idle => playerTx[Owner(spawnJob'.ch)] = spawnJob'.ch
      BY <1>3, <3>1, JobChannel
    <3>3. QED
      BY <1>1, <1>5, <2>1, <3>2 DEF SenderInv, JobsHoldLock, BorrowedSender, Owner, Idle
  <2>3. CASE AnnounceNext(e)
    <3>1. txClone = None /\ e \in spawnJob.ents /\ \E ents : spawnJob' = Job(spawnJob.ch, ents)
      BY <2>3 DEF AnnounceNext, SendSpawn, IsFirst
    <3>2. spawnJob # Idle
      BY <3>1 DEF Idle
    <3>3. spawnJob' # Idle => playerTx[Owner(spawnJob'.ch)] = spawnJob'.ch
      BY <3>1, <3>2, JobChannel DEF SenderInv, BorrowedSender
    <3>4. QED
      BY <1>1, <1>5, <2>1, <3>3 DEF SenderInv, JobsHoldLock, BorrowedSender, Owner, Idle
  <2>4. QED
    BY <1>7, <2>2, <2>3
<1>8. QED
  BY <1>2, <1>6, <1>7

(* So does entity_move. *)
LEMMA SenderMove ==
  ASSUME TypeInv, OwnerInv, SenderInv, MoveStep
  PROVE  SenderInv'
<1>1. UNCHANGED <<playerTx, spawnJob, txClone>>
  BY DEF MoveStep, MoveFor, MoveNext
<1>2. PICK e \in DOMAIN world : MoveFor(e) \/ MoveNext(e)
  BY DEF MoveStep
<1> DEFINE id == world[e].id
<1>3. id \in Char /\ (playerTx[id] # None => Owner(playerTx[id]) = id)
  BY EntityType DEF OwnerInv, RegistryOwners
<1>4. "player_spawn" \in txReaders => "player_spawn" \in txReaders'
  BY <1>2 DEF MoveFor, MoveNext, Hold
<1>5. spawnJob # Idle /\ txClone = None =>
        /\ "player_spawn" \in txReaders'
        /\ playerTx'[Owner(spawnJob.ch)] = spawnJob.ch
  BY <1>1, <1>4 DEF SenderInv, JobsHoldLock, BorrowedSender
<1>6. moveJob' # Idle => "entity_move" \in txReaders'
  BY <1>2 DEF MoveFor, MoveNext, Hold
<1>7. moveJob' # Idle => playerTx[Owner(moveJob'.ch)] = moveJob'.ch
  <2>1. CASE MoveFor(e)
    <3>1. \E ents : moveJob' = Job(playerTx[id], ents)
      BY <2>1 DEF MoveFor, SendMove
    <3>2. QED
      BY <1>3, <3>1, JobChannel
  <2>2. CASE MoveNext(e)
    <3>1. e \in moveJob.ents /\ \E ents : moveJob' = Job(moveJob.ch, ents)
      BY <2>2 DEF MoveNext, SendMove, IsFirst
    <3>2. moveJob # Idle
      BY <3>1 DEF Idle
    <3>3. QED
      BY <3>1, <3>2, JobChannel DEF SenderInv, BorrowedSender
  <2>3. QED
    BY <1>2, <2>1, <2>2
<1>8. QED
  BY <1>1, <1>5, <1>6, <1>7 DEF SenderInv, JobsHoldLock, BorrowedSender, Owner, Idle

(* No system that is in the middle of a loop body sends through a sender
   that a new login has replaced, unless it took a clone of it. *)
THEOREM SendersBorrowed == Spec => []BorrowedSender
<1>1. TypeInv /\ OwnerInv /\ SenderInv /\ [Next]_vars => SenderInv'
  <2>1. CASE UNCHANGED vars
    BY <2>1 DEF vars, stateVars, shardVars, SenderInv, JobsHoldLock, BorrowedSender, Owner
  <2>2. QED
    BY <2>1, SenderClient, SenderOthers, SenderSpawn, SenderMove DEF Next
<1>2. SenderInv => BorrowedSender
  BY DEF SenderInv
<1>3. QED
  BY <1>1, <1>2, SenderInit, TypeInvCorrect, OwnerInvCorrect, PTL DEF Spec

-----------------------------------------------------------------------------
(* Lists and memory.  What a client was shown in a list stays in memory,    *)
(* and a lost task shows nothing more.                                      *)
ListedLoaded == \A c \in Conn : listed[c] \subseteq chardata

ListInv == ListedLoaded /\ PanicsOnlyUnlisted

(* No list has been sent when the server starts. *)
LEMMA ListInit == Init => ListInv
BY DEF Init, ClientInit, ConnInit, ListInv, ListedLoaded, PanicsOnlyUnlisted

(* A list is only answered once its characters are in memory. *)
LEMMA ListClient ==
  ASSUME TypeInv, ListInv, NEW c \in Conn, ClientStep(c)
  PROVE  ListInv'
<1> USE DEF ListInv
<1>1. CASE \E s \in Session : TimeSyncResponse(c, s)
  <2>1. PICK s \in Session : TimeSyncResponse(c, s)
    BY <1>1
  <2> DEFINE ids == {SlotsOf(s)[k] : k \in LoadedSlots(SlotsOf(s))}
  <2>2. /\ chardata' = chardata \cup ids
        /\ listed' = [listed EXCEPT ![c] = @ \cup ids] \/ listed' = listed
        /\ pc[c] = "ready" /\ pc' = pc /\ character' = character
    BY <2>1 DEF TimeSyncResponse, LoadCharacters, TakePacket
  <2>3. DOMAIN listed = Conn
    BY DEF TypeInv, TypeOK, ClientTypeOK
  <2>4. \A d \in Conn : listed'[d] \subseteq chardata' /\ (d # c => listed'[d] = listed[d])
    BY <2>2, <2>3 DEF ListedLoaded
  <2>5. QED
    BY <2>2, <2>4 DEF ListedLoaded, PanicsOnlyUnlisted
<1>2. CASE ~\E s \in Session : TimeSyncResponse(c, s)
  <2>1. /\ UNCHANGED <<listed, chardata>>
        /\ \A d \in Conn : pc'[d] = "panicked" => pc[d] = "panicked" /\ character'[d] = character[d]
    BY <1>2 DEF ClientStep, Handshake, OtherPacket, AuthRequest, EnterWorldRequest,
                CharacterMove, Close, TakePacket, TypeInv, TypeOK, ConnTypeOK, clientVars,
                stateVars
  <2>2. QED
    BY <2>1 DEF ListedLoaded, PanicsOnlyUnlisted
<1>3. QED
  BY <1>1, <1>2

(* A task is only lost over a character that is not in memory. *)
LEMMA ListTask ==
  ASSUME TypeInv, ListInv, NEW c \in Conn,
         HandlerStep(c) \/ LookupStep(c) \/ RecvStep(c)
  PROVE  ListInv'
<1>1. UNCHANGED <<listed, chardata, character>>
  BY DEF HandlerStep, RegisterRx, JoinShard, LookupStep, StartRecv, RecvStep,
         RecvFromShard, RecvError, ShowMessage, clientVars, stateVars
<1>2. \A d \in Conn : pc'[d] = "panicked" => pc[d] = "panicked" \/ character[d] \notin chardata
  BY DEF HandlerStep, RegisterRx, JoinShard, LookupStep, StartRecv, RecvStep,
         RecvFromShard, RecvError, TypeInv, TypeOK, ConnTypeOK
<1>3. QED
  BY <1>1, <1>2 DEF ListInv, ListedLoaded, PanicsOnlyUnlisted

(* The location neither loads characters nor answers lists. *)
LEMMA ListShard ==
  ASSUME ListInv, LoopStep \/ SpawnStep \/ MoveStep
  PROVE  ListInv'
<1>1. UNCHANGED <<listed, chardata, pc, character>>
  BY DEF LoopStep, OnPlayerEnter, OnPlayerMove, BeginTick, EndTick, SpawnStep, LoadPlayer,
         LoadNext, AnnounceTo, AnnounceNext, MoveStep, MoveFor, MoveNext, clientVars,
         connVars, stateVars
<1>2. QED
  BY <1>1 DEF ListInv, ListedLoaded, PanicsOnlyUnlisted

(* A connection task is never lost over a character that its client was sent
   in a CharList, whatever is listed and entered on other connections. *)
THEOREM PanicsUnlisted == Spec => []PanicsOnlyUnlisted
<1>1. TypeInv /\ ListInv /\ [Next]_vars => ListInv'
  <2>1. CASE UNCHANGED vars
    BY <2>1 DEF vars, stateVars, clientVars, connVars, ListInv, ListedLoaded,
                PanicsOnlyUnlisted
  <2>2. QED
    BY <2>1, ListClient, ListTask, ListShard DEF Next
<1>2. ListInv => PanicsOnlyUnlisted
  BY DEF ListInv
<1>3. QED
  BY <1>1, <1>2, ListInit, TypeInvCorrect, PTL DEF Spec

-----------------------------------------------------------------------------
(* The ends of a channel.  Among the connections that have not ended, one   *)
(* plays a character; from its entry on the sender registered for the       *)
(* character is its own, and once its receiver is registered, so is that.   *)
Plays(c, id) == character[c] = id /\ pc[c] \notin {"closed", "panicked"}

OnePlays ==
  \A id \in Char : \A c, d \in Conn : Plays(c, id) /\ Plays(d, id) => c = d

SenderOwn == \A id \in Char : \A c \in Conn : Plays(c, id) => playerTx[id] = channel[c]

ReceiverOwn ==
  \A id \in Char : \A c \in Conn :
    character[c] = id /\ pc[c] \in {"joinShard", "ready"} => playerRx[id] = channel[c]

RxOwn == \A c \in Conn : rx[c] # None => rx[c] = channel[c]

(* Before the handshake nobody has a character. *)
StartsWithout == \A c \in Conn : pc[c] = "uninit" => character[c] = None

ChannelInv == OnePlays /\ SenderOwn /\ ReceiverOwn /\ RxOwn /\ StartsWithout

(* Nobody plays when the server starts. *)
LEMMA ChannelInit == Init => ChannelInv
BY NoneAssumption, DatabaseAssumption
   DEF Init, StateInit, ConnInit, ChannelInv, OnePlays, SenderOwn, ReceiverOwn, RxOwn,
       StartsWithout, Plays

(* What an accepted entry changes: the connection has the character and a new
   channel of it, whose sender is registered. *)
LEMMA EntryEffect ==
  ASSUME TypeInv, NEW c \in Conn, NEW idx \in Index, EnterWorldRequest(c, idx)
  PROVE  \E id \in Char, ch \in Chan :
           /\ MayEnter(c, id) /\ Owner(ch) = id
           /\ character' = [character EXCEPT ![c] = id]
           /\ channel' = [channel EXCEPT ![c] = ch]
           /\ playerTx' = [playerTx EXCEPT ![id] = ch]
           /\ pc[c] = "ready" /\ pc' = [pc EXCEPT ![c] = "registerRx"]
           /\ rx' = [rx EXCEPT ![c] = None]
           /\ UNCHANGED <<playerRx, queue, shardQ, txClone, clientVars>>
<1> DEFINE id == SlotsOf(session[c])[idx + 1]
           ch == <<id, enters + 1>>
<1>1. /\ character' = [character EXCEPT ![c] = id]
      /\ channel' = [channel EXCEPT ![c] = ch]
      /\ playerTx' = [playerTx EXCEPT ![id] = ch]
      /\ pc[c] = "ready" /\ pc' = [pc EXCEPT ![c] = "registerRx"]
      /\ rx' = [rx EXCEPT ![c] = None]
      /\ UNCHANGED <<playerRx, queue, shardQ, txClone, clientVars>>
      /\ idx < Len(SlotsOf(session[c])) /\ id # 0 /\ enters < MaxEnters
  BY DEF EnterWorldRequest, TakePacket
<1>2. MayEnter(c, id)
  BY DEF EnterWorldRequest
<1>3. id \in Char
  <2>1. SlotsOf(session[c]) \in Seq(Char \cup {0}) /\ idx \in Nat
    BY SlotsType, DatabaseAssumption
  <2>2. idx + 1 \in 1 .. Len(SlotsOf(session[c]))
    BY <1>1, <2>1
  <2> QED
    BY <1>1, <2>1, <2>2, ElementOfSeq
<1>4. ch \in Chan /\ Owner(ch) = id
  <2>1. enters + 1 \in 1 .. MaxEnters
    BY <1>1, BoundsAssumption DEF TypeInv, TypeOK, StateTypeOK
  <2> QED
    BY <1>3, <2>1 DEF Chan, Owner
<1> QED
  BY <1>1, <1>2, <1>3, <1>4, Zenon

(* A client that keeps to an order enters with a character nobody plays. *)
LEMMA NobodyPlays ==
  ASSUME Discipline # "any", NEW c \in Conn, NEW id, MayEnter(c, id)
  PROVE  \A d \in Conn : ~Plays(d, id)
<1>1. Discipline = "relogin" \/ Discipline = "single"
  BY DisciplineAssumption
<1>2. CASE Discipline = "relogin"
  BY <1>2 DEF MayEnter, Plays
<1>3. CASE Discipline = "single"
  BY <1>3 DEF MayEnter, Plays
<1> QED
  BY <1>1, <1>2, <1>3

(* An entry is made only with a character nobody plays any more. *)
LEMMA ChannelEntry ==
  ASSUME Discipline # "any", TypeInv, ChannelInv, NEW c \in Conn, NEW idx \in Index,
         EnterWorldRequest(c, idx)
  PROVE  ChannelInv'
<1> PICK id \in Char, ch \in Chan :
      /\ MayEnter(c, id)
      /\ character' = [character EXCEPT ![c] = id]
      /\ channel' = [channel EXCEPT ![c] = ch]
      /\ playerTx' = [playerTx EXCEPT ![id] = ch]
      /\ pc' = [pc EXCEPT ![c] = "registerRx"]
      /\ rx' = [rx EXCEPT ![c] = None]
      /\ playerRx' = playerRx
  BY EntryEffect
<1>3. /\ DOMAIN character = Conn /\ DOMAIN channel = Conn
      /\ DOMAIN pc = Conn /\ DOMAIN rx = Conn /\ DOMAIN playerTx = Char
  BY DEF TypeInv, TypeOK, StateTypeOK, ConnTypeOK
<1>4. \A d \in Conn : ~Plays(d, id)
  BY NobodyPlays
<1>5. \A d \in Conn \ {c} : /\ character'[d] = character[d] /\ channel'[d] = channel[d]
                            /\ pc'[d] = pc[d] /\ rx'[d] = rx[d]
  BY <1>3
<1>6. character'[c] = id /\ channel'[c] = ch /\ pc'[c] = "registerRx" /\ rx'[c] = None
  BY <1>3
<1>7. playerTx'[id] = ch /\ \A x \in Char \ {id} : playerTx'[x] = playerTx[x]
  BY <1>3
<1>8. OnePlays'
  BY <1>4, <1>5, <1>6 DEF ChannelInv, OnePlays, Plays
<1>9. SenderOwn'
  BY <1>4, <1>5, <1>6, <1>7 DEF ChannelInv, SenderOwn, Plays
<1>10. ReceiverOwn' /\ RxOwn'
  BY <1>5, <1>6 DEF ChannelInv, ReceiverOwn, RxOwn
<1>11. StartsWithout'
  BY <1>5, <1>6 DEF ChannelInv, StartsWithout
<1> QED
  BY <1>8, <1>9, <1>10, <1>11 DEF ChannelInv

(* Where no connection's character, channel or registries change, and no task
   gets further than it was, the ends stay where they are. *)
LEMMA ChannelKept ==
  ASSUME TypeInv, ChannelInv, UNCHANGED <<character, channel, playerTx, playerRx>>,
         \A d \in Conn :
           \/ pc'[d] = pc[d] /\ rx'[d] \in {rx[d], None}
           \/ pc'[d] \in {"closed", "panicked"} /\ rx'[d] \in {rx[d], None}
           \/ pc[d] = "uninit" /\ pc'[d] = "ready" /\ rx'[d] = rx[d]
           \/ pc[d] = "joinShard" /\ pc'[d] = "ready" /\ rx'[d] = rx[d]
  PROVE  ChannelInv'
<1>0. ChannelInv
  OBVIOUS
<1>1. \A d \in Conn : rx'[d] # None => rx'[d] = rx[d]
  OBVIOUS
<1>2. \A d \in Conn : \A id \in Char : Plays(d, id)' => Plays(d, id)
  BY NoneAssumption, DatabaseAssumption DEF Plays
<1>3. OnePlays' /\ SenderOwn'
  BY <1>2 DEF ChannelInv, OnePlays, SenderOwn
<1>4. ReceiverOwn'
  BY NoneAssumption, DatabaseAssumption DEF ChannelInv, ReceiverOwn, StartsWithout
<1>5. RxOwn' /\ StartsWithout'
  BY <1>1 DEF ChannelInv, RxOwn, StartsWithout
<1> QED
  BY <1>3, <1>4, <1>5 DEF ChannelInv

(* A task registers the receiver of its own channel. *)
LEMMA ChannelRegister ==
  ASSUME TypeInv, ChannelInv, NEW c \in Conn, RegisterRx(c)
  PROVE  ChannelInv'
<1>1. /\ UNCHANGED <<character, channel, playerTx, rx>>
      /\ pc[c] = "registerRx" /\ pc' = [pc EXCEPT ![c] = "joinShard"]
      /\ playerRx' = [playerRx EXCEPT ![character[c]] = channel[c]]
  BY DEF RegisterRx, InsertRx
<1>2. DOMAIN pc = Conn /\ DOMAIN playerRx = Char
  BY DEF TypeInv, TypeOK, StateTypeOK, ConnTypeOK
<1>3. pc'[c] = "joinShard" /\ \A d \in Conn \ {c} : pc'[d] = pc[d]
  BY <1>1, <1>2
<1>4. \A d \in Conn, id \in Char : Plays(d, id)' <=> Plays(d, id)
  BY <1>1, <1>3 DEF Plays
<1>5. OnePlays' /\ SenderOwn'
  BY <1>1, <1>4 DEF ChannelInv, OnePlays, SenderOwn
<1>6. ReceiverOwn'
  <2> SUFFICES ASSUME NEW id \in Char, NEW d \in Conn,
                      character[d] = id, pc'[d] \in {"joinShard", "ready"}
               PROVE  playerRx'[id] = channel[d]
    BY <1>1 DEF ReceiverOwn
  <2>1. CASE d = c
    BY <1>1, <1>2, <2>1
  <2>2. CASE d # c
    <3>1. Plays(d, id)
      BY <1>3, <2>2 DEF Plays
    <3>2. character[c] # id
      BY <1>1, <2>2, <3>1 DEF ChannelInv, OnePlays, Plays
    <3>3. playerRx'[id] = playerRx[id]
      BY <1>1, <1>2, <3>2
    <3> QED
      BY <1>3, <2>2, <3>3 DEF ChannelInv, ReceiverOwn
  <2> QED
    BY <2>1, <2>2
<1>7. RxOwn' /\ StartsWithout'
  BY <1>1, <1>3 DEF ChannelInv, RxOwn, StartsWithout
<1> QED
  BY <1>5, <1>6, <1>7 DEF ChannelInv

(* The receiver a waiting task finds is the one of its own channel. *)
LEMMA ChannelLookup ==
  ASSUME TypeInv, ChannelInv, NEW c \in Conn, StartRecv(c)
  PROVE  ChannelInv'
<1>1. /\ UNCHANGED <<character, channel, playerTx, playerRx, pc>>
      /\ pc[c] = "ready" /\ character[c] # None
      /\ rx' = [rx EXCEPT ![c] = playerRx[character[c]]]
  BY DEF StartRecv, stateVars
<1>2. DOMAIN rx = Conn /\ character[c] \in Char
  BY <1>1 DEF TypeInv, TypeOK, ConnTypeOK
<1>3. playerRx[character[c]] = channel[c]
  BY <1>1, <1>2 DEF ChannelInv, ReceiverOwn
<1>4. RxOwn'
  BY <1>1, <1>2, <1>3 DEF ChannelInv, RxOwn
<1> QED
  BY <1>1, <1>4 DEF ChannelInv, OnePlays, SenderOwn, ReceiverOwn, StartsWithout, Plays

(* Everything else leaves the ends of the channels alone. *)
LEMMA ChannelStep ==
  ASSUME Discipline # "any", TypeInv, ChannelInv, [Next]_vars
  PROVE  ChannelInv'
<1>0. DOMAIN pc = Conn /\ DOMAIN rx = Conn
  BY DEF TypeInv, TypeOK, ConnTypeOK
<1>1. ASSUME NEW c \in Conn, ClientStep(c) PROVE ChannelInv'
  <2>1. CASE \E idx \in Index : EnterWorldRequest(c, idx)
    BY <2>1, ChannelEntry
  <2>2. CASE Handshake(c) \/ Close(c)
    <3>1. UNCHANGED <<character, channel, playerTx, playerRx>>
      BY <2>2 DEF Handshake, Close, stateVars
    <3> QED
      BY <1>0, <2>2, <3>1, ChannelKept DEF Handshake, Close
  <2>3. CASE \/ OtherPacket(c) \/ CharacterMove(c)
             \/ \E s \in Session, account \in Account : AuthRequest(c, s, account)
             \/ \E s \in Session : TimeSyncResponse(c, s)
    <3>1. /\ UNCHANGED <<character, channel, playerTx, playerRx, pc>>
          /\ rx' = [rx EXCEPT ![c] = None]
      BY <2>3 DEF OtherPacket, CharacterMove, AuthRequest, TimeSyncResponse, TakePacket,
                  stateVars
    <3> QED
      BY <1>0, <3>1, ChannelKept
  <2> QED
    BY <1>1, <2>1, <2>2, <2>3 DEF ClientStep
<1>2. ASSUME NEW c \in Conn, HandlerStep(c) \/ LookupStep(c) \/ RecvStep(c) PROVE ChannelInv'
  <2>1. CASE RegisterRx(c)
    BY <2>1, ChannelRegister
  <2>2. CASE StartRecv(c)
    BY <2>2, ChannelLookup
  <2>3. CASE JoinShard(c)
    <3>1. UNCHANGED <<character, channel, playerTx, playerRx, rx>>
      BY <2>3 DEF JoinShard
    <3> QED
      BY <1>0, <2>3, <3>1, ChannelKept DEF JoinShard
  <2>4. CASE RecvFromShard(c) \/ RecvError(c)
    <3>1. /\ UNCHANGED <<character, channel, playerTx, playerRx, pc>>
          /\ rx' = [rx EXCEPT ![c] = None]
      BY <2>4 DEF RecvFromShard, RecvError, stateVars
    <3> QED
      BY <1>0, <3>1, ChannelKept
  <2> QED
    BY <1>2, <2>1, <2>2, <2>3, <2>4 DEF HandlerStep, LookupStep, RecvStep
<1>3. CASE LoopStep \/ SpawnStep \/ MoveStep \/ UNCHANGED vars
  <2>1. UNCHANGED <<playerTx, playerRx, connVars>>
    BY <1>3 DEF LoopStep, OnPlayerEnter, OnPlayerMove, BeginTick, EndTick, SpawnStep,
                LoadPlayer, LoadNext, AnnounceTo, AnnounceNext, MoveStep, MoveFor,
                MoveNext, stateVars, vars
  <2> QED
    BY <2>1, ChannelKept DEF connVars
<1> QED
  BY <1>1, <1>2, <1>3 DEF Next

(* ChannelInv is inductive over well-typed states. *)
LEMMA ChannelInvCorrect ==
  ASSUME Discipline # "any" PROVE Spec => []ChannelInv
<1>1. TypeInv /\ ChannelInv /\ [Next]_vars => ChannelInv'
  BY ChannelStep
<1> QED
  BY <1>1, ChannelInit, TypeInvCorrect, PTL DEF Spec

(* OwnChannel (handle_enter_world_req and recv_from_shard): if clients enter
   with a character only after its former connection ended, a connection and
   the location hold the two ends of the channel it made, whatever the steps
   between the registries and the lookups interleave with. *)
THEOREM OwnChannelCorrect ==
  ASSUME Discipline # "any" PROVE Spec => []OwnChannel
<1>1. TypeInv /\ ChannelInv => OwnChannel
  <2> SUFFICES ASSUME TypeInv, ChannelInv, NEW c \in Conn
               PROVE  /\ pc[c] = "ready" /\ character[c] # None =>
                           /\ playerTx[character[c]] = channel[c]
                           /\ playerRx[character[c]] = channel[c]
                      /\ rx[c] # None => rx[c] = channel[c]
    BY DEF OwnChannel
  <2>1. character[c] # None => character[c] \in Char
    BY DEF TypeInv, TypeOK, ConnTypeOK
  <2> QED
    BY <2>1 DEF ChannelInv, SenderOwn, ReceiverOwn, RxOwn, Plays
<1> QED
  BY <1>1, ChannelInvCorrect, TypeInvCorrect, PTL

-----------------------------------------------------------------------------
(* Clients of which no character enters twice.  Then a character has one    *)
(* connection, one channel and one sender for good.                         *)
Known(id) == \E c \in Conn : character[c] = id

OneEntry ==
  /\ \A c, d \in Conn : character[c] # None /\ character[c] = character[d] => c = d
  /\ \A c \in Conn : character[c] = None => channel[c] = None
  /\ \A id \in Char : Known(id) => playerTx[id] # None

(* Who is in the world, or in the location's queue, has entered. *)
EnteredKnown ==
  /\ \A e \in DOMAIN world : Known(world[e].id)
  /\ \A i \in DOMAIN shardQ : Known(shardQ[i].id)

KnownInv == OneEntry /\ EnteredKnown

(* Nobody has entered when the server starts. *)
LEMMA KnownInit == Init => KnownInv
BY DatabaseAssumption, NoneAssumption
   DEF Init, StateInit, ConnInit, ShardInit, KnownInv, OneEntry, EnteredKnown, Known

(* An entry is a connection's first, and its character's. *)
LEMMA FirstEntry ==
  ASSUME Discipline = "single", NEW c \in Conn, NEW id, MayEnter(c, id)
  PROVE  character[c] = None /\ \A d \in Conn : character[d] # id
BY DEF MayEnter

(* An entry makes a character known. *)
LEMMA KnownEntry ==
  ASSUME Discipline = "single", TypeInv, KnownInv, NEW c \in Conn, NEW idx \in Index,
         EnterWorldRequest(c, idx), world' = world
  PROVE  KnownInv'
<1> PICK id \in Char, ch \in Chan :
      /\ MayEnter(c, id)
      /\ character' = [character EXCEPT ![c] = id]
      /\ channel' = [channel EXCEPT ![c] = ch]
      /\ playerTx' = [playerTx EXCEPT ![id] = ch]
      /\ shardQ' = shardQ
  BY EntryEffect
<1>1. DOMAIN character = Conn /\ DOMAIN channel = Conn /\ DOMAIN playerTx = Char
  BY DEF TypeInv, TypeOK, StateTypeOK, ConnTypeOK
<1>2. character[c] = None /\ \A d \in Conn : character[d] # id
  BY FirstEntry
<1>3. /\ character'[c] = id /\ channel'[c] = ch
      /\ \A d \in Conn \ {c} : character'[d] = character[d] /\ channel'[d] = channel[d]
  BY <1>1
<1>4. id # None /\ ch # None
  BY NoneAssumption, DatabaseAssumption
<1>5. \A x : x # None => (Known(x)' <=> Known(x) \/ x = id)
  BY <1>2, <1>3 DEF Known
<1>6. playerTx'[id] = ch /\ \A x \in Char \ {id} : playerTx'[x] = playerTx[x]
  BY <1>1
<1>7. OneEntry'
  <2>1. \A x \in Char : x # None
    BY NoneAssumption, DatabaseAssumption
  <2>2. \A x \in Char : Known(x)' => playerTx'[x] # None
    BY <1>4, <1>5, <1>6, <2>1 DEF KnownInv, OneEntry
  <2>3. \A a, b \in Conn : character'[a] # None /\ character'[a] = character'[b] => a = b
    BY <1>2, <1>3 DEF KnownInv, OneEntry
  <2>4. \A a \in Conn : character'[a] = None => channel'[a] = None
    BY <1>3, <1>4 DEF KnownInv, OneEntry
  <2> QED
    BY <2>2, <2>3, <2>4 DEF OneEntry
<1>8. EnteredKnown'
  <2>1. \A e \in DOMAIN world : world[e].id \in Char
    BY EntityType
  <2>2. shardQ \in Seq(ShardMsg)
    BY DEF TypeInv, TypeOK, StateTypeOK
  <2>3. \A i \in DOMAIN shardQ : shardQ[i].id \in Char
    BY <2>2 DEF ShardMsg
  <2>4. \A x \in Char : Known(x) => Known(x)'
    BY <1>5, NoneAssumption, DatabaseAssumption
  <2> QED
    BY <2>1, <2>3, <2>4 DEF KnownInv, EnteredKnown
<1> QED
  BY <1>7, <1>8 DEF KnownInv

(* What the entry of a character adds to the world: nothing, or the character at
   the world's end, where the database has it. *)
LEMMA Entered ==
  ASSUME TypeInv, OnPlayerEnter
  PROVE  \/ UNCHANGED <<world, fresh>>
         \/ /\ DOMAIN world' = DOMAIN world \cup {Len(world) + 1}
            /\ \A e \in DOMAIN world : world'[e] = world[e]
            /\ world'[Len(world) + 1] = [id |-> Head(shardQ).id, pos |-> 0]
            /\ fresh' = fresh \cup {Len(world) + 1}
<1> DEFINE entity == [id |-> Head(shardQ).id, pos |-> 0]
<1>1. CASE world' = Append(world, entity) /\ fresh' = fresh \cup {Len(world) + 1}
  <2>1. Head(shardQ).id \in Char
    BY HeadTaken DEF OnPlayerEnter, TypeInv, TypeOK, StateTypeOK, ShardMsg
  <2>2. entity \in [id : Char, pos : Coord] /\ world \in Seq([id : Char, pos : Coord])
    BY <2>1, BoundsAssumption DEF Coord, TypeInv, TypeOK, ShardTypeOK
  <2> QED
    BY <1>1, <2>2, Appended
<1>2. CASE UNCHANGED <<world, fresh>>
  BY <1>2
<1> QED
  BY <1>1, <1>2 DEF OnPlayerEnter, Spawn

(* What a movement changes: the positions of the entities of its character. *)
LEMMA Moved ==
  ASSUME TypeInv, OnPlayerMove
  PROVE  /\ DOMAIN world' = DOMAIN world
         /\ \A e \in DOMAIN world :
              /\ world'[e].id = world[e].id
              /\ world'[e].pos = IF world[e].id = Head(shardQ).id
                                   THEN Head(shardQ).pos ELSE world[e].pos
<1> DEFINE msg == Head(shardQ)
           ents == {e \in DOMAIN world : world[e].id = msg.id}
<1>1. world' = [e \in DOMAIN world |->
                  IF e \in ents THEN [world[e] EXCEPT !.pos = msg.pos] ELSE world[e]]
  BY DEF OnPlayerMove, Write
<1>2. \A e \in DOMAIN world : world[e] \in [id : Char, pos : Coord]
  <2> TAKE e \in DOMAIN world
  <2>1. world \in Seq([id : Char, pos : Coord])
    BY DEF TypeInv, TypeOK, ShardTypeOK
  <2>2. e \in 1 .. Len(world)
    BY <2>1
  <2> QED
    BY <2>1, <2>2, ElementOfSeq
<1> QED
  BY <1>1, <1>2

(* The queue into the location after its head is taken. *)
LEMMA QueueTaken ==
  ASSUME TypeInv, shardQ # <<>>, shardQ' = Tail(shardQ)
  PROVE  /\ Head(shardQ) = shardQ[1] /\ 1 \in DOMAIN shardQ
         /\ Head(shardQ) \in ShardMsg
         /\ \A i \in DOMAIN shardQ' :
              i \in Nat /\ i + 1 \in DOMAIN shardQ /\ shardQ'[i] = shardQ[i + 1]
<1>1. shardQ \in Seq(ShardMsg)
  BY DEF TypeInv, TypeOK, StateTypeOK
<1>2. Tail(shardQ) \in Seq(ShardMsg)
  BY <1>1, HeadTaken
<1>3. \A i \in DOMAIN Tail(shardQ) : i \in Nat
  BY <1>2
<1> QED
  BY <1>1, <1>3, HeadTaken

(* A message behind the location's queue. *)
LEMMA QueueAppended ==
  ASSUME TypeInv, NEW msg \in ShardMsg, shardQ' = Append(shardQ, msg)
  PROVE  /\ Len(shardQ) \in Nat /\ DOMAIN shardQ = 1 .. Len(shardQ)
         /\ DOMAIN shardQ' = DOMAIN shardQ \cup {Len(shardQ) + 1}
         /\ \A i \in DOMAIN shardQ : shardQ'[i] = shardQ[i]
         /\ shardQ'[Len(shardQ) + 1] = msg
<1>1. shardQ \in Seq(ShardMsg)
  BY DEF TypeInv, TypeOK, StateTypeOK
<1> QED
  BY <1>1, Appended

(* Joining and moving queue a message about the connection's own character. *)
LEMMA OwnMessage ==
  ASSUME TypeInv, NEW c \in Conn, JoinShard(c) \/ CharacterMove(c)
  PROVE  \/ shardQ' = shardQ
         \/ /\ character[c] \in Char
            /\ \E msg \in ShardMsg : msg.id = character[c] /\ shardQ' = Append(shardQ, msg)
<1>1. CASE JoinShard(c) /\ shardQ' # shardQ
  <2>1. character[c] \in chardata
        /\ shardQ' = Append(shardQ, [kind |-> "PlayerEnter", id |-> character[c]])
    BY <1>1 DEF JoinShard
  <2>2. character[c] \in Char
    BY <2>1, DatabaseAssumption DEF TypeInv, TypeOK, StateTypeOK
  <2>3. [kind |-> "PlayerEnter", id |-> character[c]] \in ShardMsg
    BY <2>2 DEF ShardMsg
  <2> QED
    BY <2>1, <2>2, <2>3
<1>2. CASE CharacterMove(c)
  <2>1. character[c] \in Char /\ steps + 1 \in Coord
    BY <1>2, NoneAssumption, BoundsAssumption
       DEF CharacterMove, TypeInv, TypeOK, JoinedHasCharacter, ConnTypeOK, ClientTypeOK, Coord
  <2>2. [kind |-> "PlayerMove", id |-> character[c], pos |-> steps + 1] \in ShardMsg
    BY <2>1 DEF ShardMsg
  <2> QED
    BY <1>2, <2>1, <2>2 DEF CharacterMove, PassOn
<1> QED
  BY <1>1, <1>2

(* Nobody's character, channel or sender changes but by an entry, and what is
   queued or spawned is about characters that have entered. *)
LEMMA KnownStep ==
  ASSUME Discipline = "single", TypeInv, KnownInv, [Next]_vars
  PROVE  KnownInv'
<1>1. CASE \E c \in Conn : ClientStep(c) /\ \E idx \in Index : EnterWorldRequest(c, idx)
  <2>1. world' = world
    BY <1>1 DEF ClientStep, shardVars
  <2> QED
    BY <1>1, <2>1, KnownEntry
<1>2. CASE ~\E c \in Conn : ClientStep(c) /\ \E idx \in Index : EnterWorldRequest(c, idx)
  <2>1. UNCHANGED <<character, channel, playerTx>>
    BY <1>2 DEF Next, ClientStep, Handshake, OtherPacket, AuthRequest, TimeSyncResponse,
                CharacterMove, Close, HandlerStep, RegisterRx, JoinShard, LookupStep,
                StartRecv, RecvStep, RecvFromShard, RecvError, LoopStep, OnPlayerEnter,
                OnPlayerMove, BeginTick, EndTick, SpawnStep, LoadPlayer, LoadNext,
                AnnounceTo, AnnounceNext, MoveStep, MoveFor, MoveNext, stateVars,
                connVars, vars
  <2>2. OneEntry' /\ \A x : Known(x)' <=> Known(x)
    BY <2>1 DEF KnownInv, OneEntry, Known
  <2>3. CASE UNCHANGED <<world, shardQ>>
    BY <2>2, <2>3 DEF KnownInv, EnteredKnown
  <2>4. CASE world' = world /\ \E c \in Conn : JoinShard(c) \/ CharacterMove(c)
    <3>1. PICK c \in Conn : JoinShard(c) \/ CharacterMove(c)
      BY <2>4
    <3>2. CASE shardQ' = shardQ
      BY <2>3, <2>4, <3>2
    <3>3. CASE character[c] \in Char
               /\ \E msg \in ShardMsg : msg.id = character[c] /\ shardQ' = Append(shardQ, msg)
      <4>1. Known(character[c])
        BY DEF Known
      <4>2. \A i \in DOMAIN shardQ' : Known(shardQ'[i].id)
        BY <3>3, <4>1, QueueAppended DEF KnownInv, EnteredKnown
      <4> QED
        BY <2>2, <2>4, <4>2 DEF KnownInv, EnteredKnown
    <3> QED
      BY <3>1, <3>2, <3>3, OwnMessage
  <2>5. CASE OnPlayerEnter \/ OnPlayerMove
    <3>1. shardQ # <<>> /\ shardQ' = Tail(shardQ)
      BY <2>5 DEF OnPlayerEnter, OnPlayerMove
    <3>2. Known(Head(shardQ).id) /\ \A i \in DOMAIN shardQ' : Known(shardQ'[i].id)
      BY <3>1, QueueTaken DEF KnownInv, EnteredKnown
    <3>3. \A e \in DOMAIN world' : Known(world'[e].id)
      BY <2>5, <3>2, Entered, Moved DEF KnownInv, EnteredKnown
    <3> QED
      BY <2>2, <3>2, <3>3 DEF KnownInv, EnteredKnown
  <2> QED
    BY <1>2, <2>3, <2>4, <2>5
       DEF Next, ClientStep, Handshake, OtherPacket, AuthRequest, TimeSyncResponse,
           Close, HandlerStep, RegisterRx, LookupStep, StartRecv, RecvStep,
           RecvFromShard, RecvError, LoopStep, BeginTick, EndTick, SpawnStep, LoadPlayer,
           LoadNext, AnnounceTo, AnnounceNext, MoveStep, MoveFor, MoveNext, stateVars,
           shardVars, vars
<1> QED
  BY <1>1, <1>2

(* KnownInv is inductive over well-typed states. *)
LEMMA KnownInvCorrect ==
  ASSUME Discipline = "single" PROVE Spec => []KnownInv
<1>1. TypeInv /\ KnownInv /\ [Next]_vars => KnownInv'
  BY KnownStep
<1> QED
  BY <1>1, KnownInit, TypeInvCorrect, PTL DEF Spec

-----------------------------------------------------------------------------
(* PlayerLoaded before EntitySpawn.  A channel is initialised once its      *)
(* PlayerLoaded is queued or has been shown to its client; player_spawn     *)
(* only announces entities to such channels, as every player in the world   *)
(* is either new and in the first loop's list, or initialised.              *)
Told(ch) == \E c \in Conn : channel[c] = ch /\ loaded[c] # None

LoadQueued(ch) == \E i \in DOMAIN queue[ch] : queue[ch][i].kind = "PlayerLoaded"

Initialised(ch) == Told(ch) \/ LoadQueued(ch)

LoadsFirst ==
  \A ch \in Chan : \A i \in DOMAIN queue[ch] :
    queue[ch][i].kind = "EntitySpawn" =>
      \/ Told(ch)
      \/ \E j \in DOMAIN queue[ch] : j < i /\ queue[ch][j].kind = "PlayerLoaded"

JobInitialised == spawnJob.ch # None => Initialised(spawnJob.ch)

WorldInitialised ==
  \A p \in DOMAIN world :
    p \notin fresh \/ (ticking /\ p \notin loads) => Initialised(playerTx[world[p].id])

AnnouncesInTick == announces # {} => ticking

LoadedInv ==
  LoadsFirst /\ JobInitialised /\ WorldInitialised /\ AnnouncesInTick /\ SpawnAfterLoaded

(* Nothing is queued, spawned or shown when the server starts. *)
LEMMA LoadedInit == Init => LoadedInv
BY DEF Init, StateInit, ClientInit, ShardInit, LoadedInv, LoadsFirst, JobInitialised,
       WorldInitialised, AnnouncesInTick, SpawnAfterLoaded, Idle

(* The types the steps below look at. *)
LEMMA LoadedTypes ==
  ASSUME TypeInv
  PROVE  /\ queue \in [Chan -> Seq(PlayerMsg)]
         /\ playerTx \in [Char -> Chan \cup {None}]
         /\ character \in [Conn -> Char \cup {None}]
         /\ channel \in [Conn -> Chan \cup {None}] /\ rx \in [Conn -> Chan \cup {None}]
         /\ loaded \in [Conn -> Char \cup {None}] /\ spawned \in [Conn -> SUBSET Char]
         /\ world \in Seq([id : Char, pos : Coord])
         /\ fresh \in SUBSET DOMAIN world
         /\ spawnJob.ch \in Chan \cup {None} /\ spawnJob.ents \in SUBSET DOMAIN world
         /\ spawnJob.ch = None <=> spawnJob.ents = {}
BY DEF TypeInv, TypeOK, StateTypeOK, ClientTypeOK, ConnTypeOK, ShardTypeOK

(* A send keeps what is initialised so; an announcement goes to a channel that
   is, and PlayerLoaded makes its channel so. *)
LEMMA LoadSent ==
  ASSUME TypeInv, LoadsFirst, NEW ch \in Chan \cup {None}, NEW msg \in PlayerMsg,
         Send(ch, msg), UNCHANGED <<channel, loaded>>,
         msg.kind = "EntitySpawn" /\ ch # None => Initialised(ch)
  PROVE  /\ LoadsFirst'
         /\ \A x \in Chan : Initialised(x) => Initialised(x)'
         /\ msg.kind = "PlayerLoaded" /\ ch # None => Initialised(ch)'
<1>1. queue \in [Chan -> Seq(PlayerMsg)]
  BY LoadedTypes
<1>2. \A x \in Chan : Told(x)' <=> Told(x)
  BY DEF Told
<1>3. CASE queue' = queue /\ ch = None
  BY <1>2, <1>3 DEF LoadsFirst, Initialised, LoadQueued
<1>4. CASE ch \in Chan /\ queue' = [queue EXCEPT ![ch] = Append(@, msg)]
  <2>1. \A x \in Chan \ {ch} : queue'[x] = queue[x]
    BY <1>1, <1>4
  <2>2. queue[ch] \in Seq(PlayerMsg) /\ queue'[ch] = Append(queue[ch], msg)
    BY <1>1, <1>4
  <2> PICK q \in Seq(PlayerMsg) : q = queue[ch]
    BY <2>2
  <2>3. /\ DOMAIN queue'[ch] = DOMAIN q \cup {Len(q) + 1}
        /\ \A i \in DOMAIN q : queue'[ch][i] = q[i]
        /\ queue'[ch][Len(q) + 1] = msg
        /\ DOMAIN q = 1 .. Len(q) /\ Len(q) \in Nat
    BY <2>2, Appended
  <2>4. LoadQueued(ch) => LoadQueued(ch)'
    BY <2>3 DEF LoadQueued
  <2>5. \A x \in Chan : Initialised(x) => Initialised(x)'
    BY <1>2, <2>1, <2>4 DEF Initialised, LoadQueued
  <2>6. msg.kind = "PlayerLoaded" => Initialised(ch)'
    BY <2>3 DEF Initialised, LoadQueued
  <2>7. LoadsFirst'
    <3> SUFFICES ASSUME NEW x \in Chan, NEW i \in DOMAIN queue'[x],
                        queue'[x][i].kind = "EntitySpawn", ~Told(x)
                 PROVE  \E j \in DOMAIN queue'[x] :
                          j < i /\ queue'[x][j].kind = "PlayerLoaded"
      BY <1>2 DEF LoadsFirst
    <3>1. CASE x # ch
      BY <2>1, <3>1 DEF LoadsFirst
    <3>2. CASE x = ch /\ i \in DOMAIN q
      BY <2>3, <3>2 DEF LoadsFirst
    <3>3. CASE x = ch /\ i = Len(q) + 1
      <4>1. LoadQueued(ch)
        BY <1>4, <2>3, <3>3, NoneAssumption DEF Initialised
      <4> QED
        BY <2>3, <3>3, <4>1 DEF LoadQueued
    <3> QED
      BY <2>3, <3>1, <3>2, <3>3
  <2> QED
    BY <2>5, <2>6, <2>7
<1> QED
  BY <1>3, <1>4 DEF Send

(* A message a connection takes: of a client that has seen no PlayerLoaded it is
   one, or the movement of another player. *)
LEMMA LoadTaken ==
  ASSUME TypeInv, ChannelInv, KnownInv, OwnerInv, LoadedInv, NEW c \in Conn,
         RecvFromShard(c), UNCHANGED shardVars
  PROVE  LoadedInv'
<1> PICK ch \in Chan : ch = rx[c]
  BY LoadedTypes DEF RecvFromShard
<1> PICK q \in Seq(PlayerMsg) : q = queue[ch]
  BY LoadedTypes
<1>1. /\ q # <<>> /\ queue' = [queue EXCEPT ![ch] = Tail(@)] /\ ShowMessage(c, Head(q))
      /\ UNCHANGED <<channel, character, playerTx>>
  BY DEF RecvFromShard
<1>2. channel[c] = ch
  BY NoneAssumption DEF ChannelInv, RxOwn
<1>3. /\ Head(q) \in PlayerMsg /\ Head(q) = q[1] /\ 1 \in DOMAIN q
      /\ \A i \in DOMAIN Tail(q) : i + 1 \in DOMAIN q /\ Tail(q)[i] = q[i + 1]
      /\ \A i \in DOMAIN q : i # 1 => i - 1 \in DOMAIN Tail(q)
      /\ DOMAIN q = 1 .. Len(q) /\ Len(q) \in Nat
      /\ \A i \in DOMAIN Tail(q) : i \in Nat
  <2>1. Tail(q) \in Seq(PlayerMsg)
    BY <1>1, HeadTaken
  <2> QED
    BY <1>1, <2>1, HeadTaken
<1>4. queue'[ch] = Tail(q) /\ \A x \in Chan \ {ch} : queue'[x] = queue[x]
  BY <1>1, LoadedTypes
<1>5. \A d \in Conn : channel[d] = ch => d = c
  <2>1. character[c] # None /\ Owner(ch) = character[c]
    BY <1>2, NoneAssumption DEF KnownInv, OneEntry, OwnerInv, RegistryOwners
  <2>2. \A d \in Conn : channel[d] = ch => Owner(ch) = character[d]
    BY NoneAssumption DEF OwnerInv, RegistryOwners
  <2> QED
    BY <2>1, <2>2 DEF KnownInv, OneEntry
<1>6. Head(q).kind = "EntitySpawn" => loaded[c] # None
  <2> SUFFICES ASSUME Head(q).kind = "EntitySpawn" PROVE loaded[c] # None
    OBVIOUS
  <2>1. Told(ch) \/ \E j \in DOMAIN q : j < 1 /\ q[j].kind = "PlayerLoaded"
    BY <1>3 DEF LoadedInv, LoadsFirst
  <2>2. Told(ch)
    BY <1>3, <2>1
  <2> QED
    BY <1>5, <2>2 DEF Told
<1>7. /\ \A d \in Conn : loaded[d] # None => loaded'[d] # None
      /\ Head(q).kind = "PlayerLoaded" => loaded'[c] # None
  <2>1. Head(q).id \in Char /\ None \notin Char
    BY <1>3, NoneAssumption, DatabaseAssumption DEF PlayerMsg
  <2> QED
    BY <1>1, <2>1, LoadedTypes DEF ShowMessage
<1>8. \A x \in Chan : Told(x) => Told(x)'
  BY <1>1, <1>7 DEF Told
<1>9. Head(q).kind = "PlayerLoaded" => Told(ch)'
  BY <1>1, <1>2, <1>7 DEF Told
<1>10. \A x \in Chan : Initialised(x) => Initialised(x)'
  <2>1. LoadQueued(ch) => Initialised(ch)'
    <3> SUFFICES ASSUME NEW i \in DOMAIN q, q[i].kind = "PlayerLoaded" PROVE Initialised(ch)'
      BY DEF LoadQueued
    <3>1. CASE i = 1
      BY <1>3, <1>9, <3>1 DEF Initialised
    <3>2. CASE i # 1
      <4>1. i - 1 \in DOMAIN Tail(q) /\ Tail(q)[i - 1] = q[i]
        BY <1>3, <3>2
      <4> QED
        BY <1>4, <4>1 DEF Initialised, LoadQueued
    <3> QED
      BY <3>1, <3>2
  <2> QED
    BY <1>4, <1>8, <2>1 DEF Initialised, LoadQueued
<1>11. LoadsFirst'
  <2> SUFFICES ASSUME NEW x \in Chan, NEW i \in DOMAIN queue'[x],
                      queue'[x][i].kind = "EntitySpawn", ~Told(x)'
               PROVE  \E j \in DOMAIN queue'[x] :
                        j < i /\ queue'[x][j].kind = "PlayerLoaded"
    BY DEF LoadsFirst
  <2>1. CASE x # ch
    BY <1>4, <1>8, <2>1 DEF LoadedInv, LoadsFirst
  <2>2. CASE x = ch
    <3> PICK t : t = Tail(q)
      OBVIOUS
    <3>a. queue'[x] = t
      BY <1>4, <2>2
    <3>b. i \in DOMAIN t /\ t[i].kind = "EntitySpawn"
      BY <3>a
    <3>1. i \in Nat /\ i + 1 \in DOMAIN q /\ q[i + 1].kind = "EntitySpawn"
      BY <1>3, <3>b
    <3>2. PICK j \in DOMAIN q : j < i + 1 /\ q[j].kind = "PlayerLoaded"
      BY <1>8, <2>2, <3>1 DEF LoadedInv, LoadsFirst
    <3>3. j # 1
      BY <1>3, <1>9, <2>2, <3>2
    <3>4. j - 1 \in DOMAIN Tail(q) /\ Tail(q)[j - 1] = q[j] /\ j - 1 < i
      BY <1>3, <3>1, <3>2, <3>3
    <3> QED
      BY <1>4, <2>2, <3>2, <3>4
  <2> QED
    BY <2>1, <2>2
<1>12. JobInitialised' /\ WorldInitialised' /\ AnnouncesInTick'
  <2>1. UNCHANGED <<world, fresh, ticking, loads, announces, spawnJob>>
    BY DEF shardVars
  <2>2. \A p \in DOMAIN world : playerTx[world[p].id] \in Chan
    BY EntityType DEF KnownInv, OneEntry, EnteredKnown
  <2>3. spawnJob.ch # None => spawnJob.ch \in Chan
    BY LoadedTypes
  <2> QED
    BY <1>1, <1>10, <2>1, <2>2, <2>3
       DEF LoadedInv, JobInitialised, WorldInitialised, AnnouncesInTick
<1>13. SpawnAfterLoaded'
  <2>1. \A d \in Conn : spawned'[d] # {} => spawned[d] # {} \/ (d = c /\ Head(q).kind = "EntitySpawn")
    BY <1>1, LoadedTypes DEF ShowMessage
  <2> QED
    BY <1>6, <1>7, <2>1 DEF LoadedInv, SpawnAfterLoaded
<1> QED
  BY <1>11, <1>12, <1>13 DEF LoadedInv

(* player_spawn: the first loop initialises, and what comes after a player's
   turn there is for an initialised channel. *)
LEMMA LoadSpawn ==
  ASSUME TypeInv, KnownInv, LoadedInv, SpawnStep
  PROVE  LoadedInv'
<1>1. UNCHANGED <<channel, loaded, spawned, world, fresh, ticking, playerTx>>
  BY DEF SpawnStep, LoadPlayer, LoadNext, AnnounceTo, AnnounceNext, clientVars, connVars
<1>2. SpawnAfterLoaded'
  BY <1>1 DEF LoadedInv, SpawnAfterLoaded
<1>3. PICK p \in DOMAIN world :
        LoadPlayer(p) \/ LoadNext(p) \/ AnnounceTo(p) \/ AnnounceNext(p)
  BY DEF SpawnStep
<1>4. \A e \in DOMAIN world :
        playerTx[world[e].id] \in Chan /\ playerTx[world[e].id] # None
  BY EntityType DEF KnownInv, OneEntry, EnteredKnown
<1>5. ASSUME NEW ch \in Chan, NEW e \in DOMAIN world, NEW rest,
             SendSpawn(ch, e, rest), Initialised(ch),
             loads' = loads, announces' \subseteq announces
      PROVE  LoadedInv'
  <2> DEFINE msg == [kind |-> "EntitySpawn", id |-> world[e].id, pos |-> world[e].pos]
  <2>1. msg \in PlayerMsg
    BY EntityType DEF PlayerMsg
  <2>2. Send(ch, msg) /\ spawnJob' = Job(ch, rest)
    BY <1>5 DEF SendSpawn
  <2>3. LoadsFirst' /\ \A x \in Chan : Initialised(x) => Initialised(x)'
    BY <1>1, <1>5, <2>1, <2>2, LoadSent DEF LoadedInv
  <2>4. spawnJob'.ch = ch \/ spawnJob'.ch = None
    BY <2>2 DEF Job, Idle
  <2>5. JobInitialised'
    BY <1>5, <2>3, <2>4 DEF JobInitialised, Initialised, Told, LoadQueued
  <2>6. WorldInitialised' /\ AnnouncesInTick'
    BY <1>1, <1>4, <1>5, <2>3 DEF LoadedInv, WorldInitialised, AnnouncesInTick
  <2> QED
    BY <1>2, <2>3, <2>5, <2>6 DEF LoadedInv
<1>6. CASE LoadPlayer(p)
  <2> PICK ch \in Chan : ch = playerTx[world[p].id]
    BY <1>4
  <2> DEFINE msg == [kind |-> "PlayerLoaded", id |-> world[p].id, pos |-> world[p].pos]
  <2>1. msg \in PlayerMsg /\ msg.kind = "PlayerLoaded"
    BY EntityType DEF PlayerMsg
  <2>2. /\ Send(ch, msg) /\ loads' = loads \ {p} /\ announces' = announces
        /\ spawnJob' = Job(ch, Others(DOMAIN world, world[p].id))
    BY <1>6 DEF LoadPlayer
  <2>3. ch # None
    BY <1>4
  <2>4. /\ LoadsFirst' /\ \A x \in Chan : Initialised(x) => Initialised(x)'
        /\ Initialised(ch)'
    <3> HIDE DEF msg
    <3> QED
      BY <1>1, <2>1, <2>2, <2>3, LoadSent DEF LoadedInv
  <2>5. spawnJob'.ch = ch \/ spawnJob'.ch = None
    BY <2>2 DEF Job, Idle
  <2>6. JobInitialised'
    BY <2>4, <2>5 DEF JobInitialised, Initialised, Told, LoadQueued
  <2>7. WorldInitialised' /\ AnnouncesInTick'
    BY <1>1, <1>4, <2>2, <2>4 DEF LoadedInv, WorldInitialised, AnnouncesInTick
  <2> QED
    BY <1>2, <2>4, <2>6, <2>7 DEF LoadedInv
<1>7. CASE LoadNext(p) \/ AnnounceNext(p)
  <2>1. /\ SendSpawn(spawnJob.ch, p, spawnJob.ents \ {p}) /\ p \in spawnJob.ents
        /\ loads' = loads /\ announces' = announces
    BY <1>7 DEF LoadNext, AnnounceNext, IsFirst
  <2>2. spawnJob.ch \in Chan /\ spawnJob.ch # None
    BY <2>1, LoadedTypes
  <2>3. Initialised(spawnJob.ch)
    BY <2>2 DEF LoadedInv, JobInitialised
  <2> QED
    BY <1>5, <2>1, <2>2, <2>3
<1>8. CASE AnnounceTo(p)
  <2> DEFINE ents == Others(fresh, world[p].id)
  <2>1. PICK e \in ents : SendSpawn(playerTx[world[p].id], e, ents \ {e})
    BY <1>8 DEF AnnounceTo
  <2>2. e \in DOMAIN world
    BY LoadedTypes DEF Others
  <2>3. loads = {} /\ loads' = loads /\ announces' \subseteq announces /\ announces # {}
    BY <1>8 DEF AnnounceTo, FirstLoopDone, IsFirst
  <2>4. Initialised(playerTx[world[p].id])
    BY <2>3 DEF LoadedInv, AnnouncesInTick, WorldInitialised
  <2> QED
    BY <1>4, <1>5, <2>1, <2>2, <2>3, <2>4
<1> QED
  BY <1>3, <1>6, <1>7, <1>8

(* entity_move sends movements only, which initialise nobody. *)
LEMMA LoadMove ==
  ASSUME TypeInv, KnownInv, LoadedInv, MoveStep
  PROVE  LoadedInv'
<1>1. UNCHANGED <<channel, loaded, spawned, world, fresh, ticking, playerTx, loads,
                  announces, spawnJob>>
  BY DEF MoveStep, MoveFor, MoveNext, clientVars, connVars
<1>2. ASSUME NEW ch \in Chan \cup {None}, NEW e \in DOMAIN world, NEW rest, SendMove(ch, e, rest)
      PROVE  LoadedInv'
  <2> DEFINE msg == [kind |-> "EntityMove", id |-> world[e].id, pos |-> world[e].pos]
  <2>1. msg \in PlayerMsg /\ msg.kind = "EntityMove"
    BY EntityType DEF PlayerMsg
  <2>2. Send(ch, msg)
    BY <1>2 DEF SendMove
  <2>3. LoadsFirst' /\ \A x \in Chan : Initialised(x) => Initialised(x)'
    <3> HIDE DEF msg
    <3> QED
      BY <1>1, <2>1, <2>2, LoadSent DEF LoadedInv
  <2>4. \A p \in DOMAIN world : playerTx[world[p].id] \in Chan
    BY EntityType DEF KnownInv, OneEntry, EnteredKnown
  <2>5. spawnJob.ch # None => spawnJob.ch \in Chan
    BY LoadedTypes
  <2>6. JobInitialised' /\ WorldInitialised' /\ AnnouncesInTick' /\ SpawnAfterLoaded'
    BY <1>1, <2>3, <2>4, <2>5
       DEF LoadedInv, JobInitialised, WorldInitialised, AnnouncesInTick, SpawnAfterLoaded
  <2> QED
    BY <2>3, <2>6 DEF LoadedInv
<1>3. PICK p \in DOMAIN world : MoveFor(p) \/ MoveNext(p)
  BY DEF MoveStep
<1>4. CASE MoveFor(p)
  <2>1. PICK e \in Others(changed, world[p].id) :
          SendMove(playerTx[world[p].id], e, Others(changed, world[p].id) \ {e})
    BY <1>4 DEF MoveFor
  <2>2. e \in DOMAIN world
    BY DEF Others, TypeInv, TypeOK, ShardTypeOK
  <2> QED
    BY <1>2, <2>1, <2>2, EntityType
<1>5. CASE MoveNext(p)
  <2>1. SendMove(moveJob.ch, p, moveJob.ents \ {p})
    BY <1>5 DEF MoveNext
  <2>2. moveJob.ch \in Chan \cup {None}
    BY DEF TypeInv, TypeOK, ShardTypeOK
  <2> QED
    BY <1>2, <2>1, <2>2
<1> QED
  BY <1>3, <1>4, <1>5

(* The location's loop: who is spawned is in the filter, and so in the first
   loop's list when the schedule runs; it is emptied before the filter. *)
LEMMA LoadLoop ==
  ASSUME TypeInv, LoadedInv, LoopStep
  PROVE  LoadedInv'
<1>1. UNCHANGED <<channel, loaded, spawned, queue, spawnJob, playerTx>>
  BY DEF LoopStep, OnPlayerEnter, OnPlayerMove, BeginTick, EndTick, clientVars, connVars,
         stateVars
<1>2. LoadsFirst' /\ JobInitialised' /\ SpawnAfterLoaded'
  BY <1>1 DEF LoadedInv, LoadsFirst, JobInitialised, SpawnAfterLoaded, Initialised, Told,
              LoadQueued
<1>3. \A x : Initialised(x)' <=> Initialised(x)
  BY <1>1 DEF Initialised, Told, LoadQueued
<1>4. CASE OnPlayerEnter
  <2>1. ~ticking /\ UNCHANGED <<ticking, loads, announces>>
    BY <1>4 DEF OnPlayerEnter
  <2> QED
    BY <1>1, <1>2, <1>3, <1>4, <2>1, Entered DEF LoadedInv, WorldInitialised, AnnouncesInTick
<1>5. CASE OnPlayerMove
  <2>1. UNCHANGED <<fresh, ticking, loads, announces>>
    BY <1>5 DEF OnPlayerMove
  <2> QED
    BY <1>1, <1>2, <1>3, <1>5, <2>1, Moved DEF LoadedInv, WorldInitialised, AnnouncesInTick
<1>6. CASE BeginTick
  <2>1. ticking' = TRUE /\ loads' = fresh /\ UNCHANGED <<world, fresh>>
    BY <1>6 DEF BeginTick
  <2> QED
    BY <1>1, <1>2, <1>3, <2>1 DEF LoadedInv, WorldInitialised, AnnouncesInTick
<1>7. CASE EndTick
  <2>1. ticking /\ loads = {} /\ announces = {} /\ UNCHANGED <<world, announces>>
    BY <1>7 DEF EndTick
  <2> QED
    BY <1>1, <1>2, <1>3, <2>1 DEF LoadedInv, WorldInitialised, AnnouncesInTick
<1> QED
  BY <1>4, <1>5, <1>6, <1>7 DEF LoopStep

(* An entry gives a connection that had none a channel, and a sender to a
   character that is not in the world. *)
LEMMA LoadEntry ==
  ASSUME Discipline = "single", TypeInv, KnownInv, LoadedInv, NEW c \in Conn,
         NEW idx \in Index, EnterWorldRequest(c, idx), UNCHANGED shardVars
  PROVE  LoadedInv'
<1> PICK id \in Char, ch \in Chan :
      /\ MayEnter(c, id)
      /\ channel' = [channel EXCEPT ![c] = ch]
      /\ playerTx' = [playerTx EXCEPT ![id] = ch]
      /\ UNCHANGED <<queue, clientVars>>
  BY EntryEffect
<1>1. UNCHANGED <<queue, loaded, spawned, world, fresh, ticking, loads, announces, spawnJob>>
  BY DEF clientVars, shardVars
<1>2. character[c] = None /\ \A d \in Conn : character[d] # id
  BY FirstEntry
<1>3. channel[c] = None
  BY <1>2 DEF KnownInv, OneEntry
<1>4. \A x \in Chan : Initialised(x) => Initialised(x)'
  <2>1. \A x \in Chan : Told(x) => Told(x)'
    BY <1>1, <1>3, LoadedTypes, NoneAssumption DEF Told
  <2> QED
    BY <1>1, <2>1 DEF Initialised, LoadQueued
<1>5. \A x \in Chan : Told(x) => Told(x)'
  BY <1>1, <1>3, LoadedTypes, NoneAssumption DEF Told
<1>6. LoadsFirst'
  BY <1>1, <1>5 DEF LoadedInv, LoadsFirst
<1>7. JobInitialised'
  BY <1>1, <1>4, LoadedTypes DEF LoadedInv, JobInitialised
<1>8. WorldInitialised'
  <2>1. \A p \in DOMAIN world : world[p].id # id /\ world[p].id \in Char
    BY <1>2, EntityType DEF KnownInv, EnteredKnown, Known
  <2>2. \A p \in DOMAIN world :
          playerTx'[world[p].id] = playerTx[world[p].id] /\ playerTx[world[p].id] \in Chan
    BY <2>1, LoadedTypes DEF KnownInv, OneEntry, EnteredKnown
  <2> QED
    BY <1>1, <1>4, <2>2 DEF LoadedInv, WorldInitialised
<1> QED
  BY <1>1, <1>6, <1>7, <1>8 DEF LoadedInv, AnnouncesInTick, SpawnAfterLoaded

(* What changes neither channels nor what was sent, shown or spawned. *)
LEMMA LoadKept ==
  ASSUME LoadedInv, UNCHANGED <<channel, loaded, spawned, queue, playerTx, shardVars>>
  PROVE  LoadedInv'
BY DEF LoadedInv, LoadsFirst, JobInitialised, WorldInitialised, AnnouncesInTick,
       SpawnAfterLoaded, Initialised, Told, LoadQueued, shardVars

(* Every step keeps the order of initialisation. *)
LEMMA LoadStep ==
  ASSUME Discipline = "single", TypeInv, ChannelInv, KnownInv, OwnerInv, LoadedInv,
         [Next]_vars
  PROVE  LoadedInv'
<1>1. ASSUME NEW c \in Conn, ClientStep(c) PROVE LoadedInv'
  <2>1. UNCHANGED shardVars
    BY <1>1 DEF ClientStep
  <2>2. CASE \E idx \in Index : EnterWorldRequest(c, idx)
    BY <2>1, <2>2, LoadEntry
  <2>3. CASE \/ Handshake(c) \/ OtherPacket(c) \/ CharacterMove(c) \/ Close(c)
             \/ \E s \in Session, account \in Account : AuthRequest(c, s, account)
             \/ \E s \in Session : TimeSyncResponse(c, s)
    <3>1. UNCHANGED <<channel, loaded, spawned, queue, playerTx>>
      BY <2>3 DEF Handshake, OtherPacket, CharacterMove, Close, AuthRequest,
                  TimeSyncResponse, stateVars, clientVars
    <3> QED
      BY <2>1, <3>1, LoadKept
  <2> QED
    BY <1>1, <2>2, <2>3 DEF ClientStep
<1>2. ASSUME NEW c \in Conn, HandlerStep(c) \/ LookupStep(c) \/ RecvStep(c) PROVE LoadedInv'
  <2>1. UNCHANGED shardVars
    BY <1>2 DEF HandlerStep, LookupStep, RecvStep
  <2>2. CASE RecvFromShard(c)
    BY <2>1, <2>2, LoadTaken
  <2>3. CASE RegisterRx(c) \/ JoinShard(c) \/ StartRecv(c) \/ RecvError(c)
    <3>1. UNCHANGED <<channel, loaded, spawned, queue, playerTx>>
      BY <2>3 DEF RegisterRx, JoinShard, StartRecv, RecvError, stateVars, clientVars
    <3> QED
      BY <2>1, <3>1, LoadKept
  <2> QED
    BY <1>2, <2>2, <2>3 DEF HandlerStep, LookupStep, RecvStep
<1>3. CASE UNCHANGED vars
  BY <1>3, LoadKept DEF vars, stateVars, clientVars, connVars
<1> QED
  BY <1>1, <1>2, <1>3, LoadLoop, LoadSpawn, LoadMove DEF Next

(* LoadedInv is inductive, together with the invariants above. *)
LEMMA LoadedInvCorrect ==
  ASSUME Discipline = "single" PROVE Spec => []LoadedInv
<1>1. Discipline # "any"
  OBVIOUS
<1>2. TypeInv /\ ChannelInv /\ KnownInv /\ OwnerInv /\ LoadedInv /\ [Next]_vars => LoadedInv'
  BY LoadStep
<1>3. Spec => []ChannelInv
  BY <1>1, ChannelInvCorrect
<1> QED
  BY <1>2, <1>3, LoadedInit, TypeInvCorrect, KnownInvCorrect, OwnerInvCorrect, PTL DEF Spec

(* SpawnAfterLoaded (player_spawn of locshard.rs and recv_from_shard): where no
   character enters twice, no client is told of another entity before it was
   sent its own player, although two systems send to it in parallel and it takes
   the messages whenever it comes to it. *)
THEOREM SpawnAfterLoadedCorrect ==
  ASSUME Discipline = "single" PROVE Spec => []SpawnAfterLoaded
<1>1. LoadedInv => SpawnAfterLoaded
  BY DEF LoadedInv
<1> QED
  BY <1>1, LoadedInvCorrect, PTL

-----------------------------------------------------------------------------
(* Entries happen once: who is about to enter is not in the world, is in    *)
(* the queue at most once, and no two entities are of one character.        *)
Enters(i) == shardQ[i].kind = "PlayerEnter"

Moves(i) == shardQ[i].kind = "PlayerMove"

QueuedOnce ==
  \A i \in DOMAIN shardQ : Enters(i) =>
    /\ ~InWorld(shardQ[i].id)
    /\ \A j \in DOMAIN shardQ : Enters(j) /\ shardQ[j].id = shardQ[i].id => j = i

NotYetQueued ==
  \A c \in Conn : pc[c] \in {"registerRx", "joinShard"} =>
    /\ ~InWorld(character[c])
    /\ \A i \in DOMAIN shardQ : Enters(i) => shardQ[i].id # character[c]

OneEntity == \A e, f \in DOMAIN world : world[e].id = world[f].id => e = f

OnceInv == QueuedOnce /\ NotYetQueued /\ OneEntity

(* The queue and the world are empty when the server starts. *)
LEMMA OnceInit == Init => OnceInv
BY DEF Init, StateInit, ConnInit, ShardInit, OnceInv, QueuedOnce, NotYetQueued, OneEntity

(* The entry of a connection is the first of its character. *)
LEMMA OnceEntry ==
  ASSUME Discipline = "single", TypeInv, KnownInv, OnceInv, NEW c \in Conn,
         NEW idx \in Index, EnterWorldRequest(c, idx), world' = world
  PROVE  OnceInv'
<1> PICK id \in Char, ch \in Chan :
      /\ MayEnter(c, id)
      /\ character' = [character EXCEPT ![c] = id]
      /\ pc' = [pc EXCEPT ![c] = "registerRx"]
      /\ shardQ' = shardQ
  BY EntryEffect
<1>1. DOMAIN character = Conn /\ DOMAIN pc = Conn
  BY DEF TypeInv, TypeOK, ConnTypeOK
<1>2. ~InWorld(id) /\ \A i \in DOMAIN shardQ : shardQ[i].id # id
  BY FirstEntry DEF KnownInv, EnteredKnown, Known, InWorld
<1>3. NotYetQueued'
  BY <1>1, <1>2 DEF OnceInv, NotYetQueued, Enters, InWorld
<1> QED
  BY <1>3 DEF OnceInv, QueuedOnce, OneEntity, Enters, InWorld

(* A connection joins once. *)
LEMMA OnceJoin ==
  ASSUME TypeInv, KnownInv, OnceInv, NEW c \in Conn, JoinShard(c), world' = world
  PROVE  OnceInv'
<1>1. /\ pc[c] = "joinShard" /\ character' = character
      /\ pc' = [pc EXCEPT ![c] = "ready"] \/ pc' = [pc EXCEPT ![c] = "panicked"]
  BY DEF JoinShard
<1>2. \A d \in Conn : pc'[d] \in {"registerRx", "joinShard"} => d # c /\ pc[d] = pc'[d]
  BY <1>1 DEF TypeInv, TypeOK, ConnTypeOK
<1>3. CASE shardQ' = shardQ
  BY <1>1, <1>2, <1>3 DEF OnceInv, QueuedOnce, NotYetQueued, OneEntity, Enters, InWorld
<1>4. CASE shardQ' # shardQ
  <2> DEFINE msg == [kind |-> "PlayerEnter", id |-> character[c]]
  <2>1. character[c] \in chardata /\ shardQ' = Append(shardQ, msg)
    BY <1>4 DEF JoinShard
  <2>2. character[c] \in Char /\ character[c] # None
    BY <2>1, DatabaseAssumption, NoneAssumption DEF TypeInv, TypeOK, StateTypeOK
  <2>3. msg \in ShardMsg
    BY <2>2 DEF ShardMsg
  <2>4. /\ Len(shardQ) \in Nat /\ DOMAIN shardQ = 1 .. Len(shardQ)
        /\ DOMAIN shardQ' = DOMAIN shardQ \cup {Len(shardQ) + 1}
        /\ \A i \in DOMAIN shardQ : shardQ'[i] = shardQ[i]
        /\ shardQ'[Len(shardQ) + 1] = msg
    BY <2>1, <2>3, QueueAppended
  <2>5. ~InWorld(character[c]) /\ \A i \in DOMAIN shardQ : Enters(i) => shardQ[i].id # character[c]
    BY <1>1 DEF OnceInv, NotYetQueued
  <2>6. QueuedOnce'
    BY <2>4, <2>5 DEF OnceInv, QueuedOnce, Enters, InWorld
  <2>7. \A d \in Conn : d # c => character[d] # character[c]
    BY <2>2 DEF KnownInv, OneEntry
  <2>8. NotYetQueued'
    BY <1>1, <1>2, <2>4, <2>7 DEF OnceInv, NotYetQueued, Enters, InWorld
  <2> QED
    BY <2>6, <2>8 DEF OnceInv, OneEntity
<1> QED
  BY <1>3, <1>4

(* The location takes a message: an entry that it spawns was the only one. *)
LEMMA OnceLoop ==
  ASSUME TypeInv, OnceInv, OnPlayerEnter \/ OnPlayerMove, UNCHANGED <<pc, character>>
  PROVE  OnceInv'
<1>1. shardQ # <<>> /\ shardQ' = Tail(shardQ)
  BY DEF OnPlayerEnter, OnPlayerMove
<1>2. /\ Head(shardQ) = shardQ[1] /\ 1 \in DOMAIN shardQ
      /\ \A i \in DOMAIN shardQ' :
           i \in Nat /\ i + 1 \in DOMAIN shardQ /\ shardQ'[i] = shardQ[i + 1]
  BY <1>1, QueueTaken
<1>3. \A i \in DOMAIN shardQ' : i \in Nat /\ \A j \in DOMAIN shardQ' : i + 1 = j + 1 => i = j
  BY <1>2
<1>4. \A i \in DOMAIN shardQ' : i + 1 # 1
  <2>1. shardQ \in Seq(ShardMsg)
    BY DEF TypeInv, TypeOK, StateTypeOK
  <2>2. \A i \in DOMAIN shardQ' : i \in 1 .. Len(shardQ')
    BY <1>1, <2>1
  <2> QED
    BY <2>2
<1>5. CASE OnPlayerMove \/ world' = world
  <2>0. \A id : InWorld(id)' <=> InWorld(id)
    BY <1>5, Moved DEF InWorld
  <2>1. QueuedOnce'
    BY <1>2, <1>3, <2>0 DEF OnceInv, QueuedOnce, Enters
  <2>2. NotYetQueued'
    BY <1>2, <2>0 DEF OnceInv, NotYetQueued, Enters
  <2>3. OneEntity'
    BY <1>5, Moved DEF OnceInv, OneEntity
  <2> QED
    BY <2>1, <2>2, <2>3 DEF OnceInv
<1>6. CASE OnPlayerEnter /\ world' # world
  <2> DEFINE new == Len(world) + 1
  <2>1. /\ DOMAIN world' = DOMAIN world \cup {new}
        /\ \A e \in DOMAIN world : world'[e] = world[e]
        /\ world'[new].id = shardQ[1].id
    BY <1>2, <1>6, Entered
  <2>2. Enters(1)
    BY <1>2, <1>6 DEF OnPlayerEnter, Enters
  <2>3. \A id : InWorld(id)' <=> InWorld(id) \/ id = shardQ[1].id
    BY <2>1 DEF InWorld
  <2>4. QueuedOnce'
    BY <1>2, <1>3, <1>4, <2>2, <2>3 DEF OnceInv, QueuedOnce, Enters
  <2>5. NotYetQueued'
    BY <1>2, <2>2, <2>3 DEF OnceInv, NotYetQueued, Enters
  <2>6. OneEntity'
    BY <1>2, <2>1, <2>2 DEF OnceInv, QueuedOnce, OneEntity, InWorld
  <2> QED
    BY <2>4, <2>5, <2>6 DEF OnceInv
<1> QED
  BY <1>5, <1>6

(* Every step keeps entries to one for each character. *)
LEMMA OnceStep ==
  ASSUME Discipline = "single", TypeInv, KnownInv, OnceInv, [Next]_vars
  PROVE  OnceInv'
<1>1. ASSUME NEW c \in Conn, ClientStep(c) PROVE OnceInv'
  <2>1. world' = world
    BY <1>1 DEF ClientStep, shardVars
  <2>2. CASE \E idx \in Index : EnterWorldRequest(c, idx)
    BY <2>1, <2>2, OnceEntry
  <2>3. CASE CharacterMove(c)
    <3>1. UNCHANGED <<pc, character>>
      BY <2>3 DEF CharacterMove
    <3> DEFINE msg == [kind |-> "PlayerMove", id |-> character[c], pos |-> steps + 1]
    <3>2. shardQ' = Append(shardQ, msg)
      BY <2>3 DEF CharacterMove, PassOn
    <3>3. msg \in ShardMsg
      BY <2>3, NoneAssumption, BoundsAssumption
         DEF CharacterMove, TypeInv, TypeOK, JoinedHasCharacter, ConnTypeOK, ClientTypeOK,
             Coord, ShardMsg
    <3>4. /\ DOMAIN shardQ' = DOMAIN shardQ \cup {Len(shardQ) + 1}
          /\ \A i \in DOMAIN shardQ : shardQ'[i] = shardQ[i]
          /\ shardQ'[Len(shardQ) + 1].kind = "PlayerMove"
      BY <3>2, <3>3, QueueAppended
    <3> QED
      BY <2>1, <3>1, <3>4 DEF OnceInv, QueuedOnce, NotYetQueued, OneEntity, Enters, InWorld
  <2>4. CASE \/ Handshake(c) \/ OtherPacket(c) \/ Close(c)
             \/ \E s \in Session, account \in Account : AuthRequest(c, s, account)
             \/ \E s \in Session : TimeSyncResponse(c, s)
    <3>1. /\ UNCHANGED <<character, shardQ>>
          /\ \/ pc' = pc \/ pc' = [pc EXCEPT ![c] = "ready"] \/ pc' = [pc EXCEPT ![c] = "closed"]
      BY <2>4 DEF Handshake, OtherPacket, Close, AuthRequest, TimeSyncResponse, stateVars
    <3>2. \A d \in Conn : pc'[d] \in {"registerRx", "joinShard"} => pc[d] = pc'[d]
      BY <3>1 DEF TypeInv, TypeOK, ConnTypeOK
    <3> QED
      BY <2>1, <3>1, <3>2 DEF OnceInv, QueuedOnce, NotYetQueued, OneEntity, Enters, InWorld
  <2> QED
    BY <1>1, <2>2, <2>3, <2>4 DEF ClientStep
<1>2. ASSUME NEW c \in Conn, HandlerStep(c) \/ LookupStep(c) \/ RecvStep(c) PROVE OnceInv'
  <2>1. world' = world
    BY <1>2 DEF HandlerStep, LookupStep, RecvStep, shardVars
  <2>2. CASE JoinShard(c)
    BY <2>1, <2>2, OnceJoin
  <2>3. CASE RegisterRx(c) \/ StartRecv(c) \/ RecvFromShard(c) \/ RecvError(c)
    <3>1. /\ UNCHANGED <<character, shardQ>>
          /\ pc' = pc \/ (pc[c] = "registerRx" /\ pc' = [pc EXCEPT ![c] = "joinShard"])
      BY <2>3 DEF RegisterRx, StartRecv, RecvFromShard, RecvError, stateVars
    <3>2. \A d \in Conn : pc'[d] \in {"registerRx", "joinShard"} =>
                            pc[d] \in {"registerRx", "joinShard"}
      BY <3>1 DEF TypeInv, TypeOK, ConnTypeOK
    <3> QED
      BY <2>1, <3>1, <3>2 DEF OnceInv, QueuedOnce, NotYetQueued, OneEntity, Enters, InWorld
  <2> QED
    BY <1>2, <2>2, <2>3 DEF HandlerStep, LookupStep, RecvStep
<1>3. CASE LoopStep /\ (OnPlayerEnter \/ OnPlayerMove)
  BY <1>3, OnceLoop DEF LoopStep, connVars
<1>4. CASE (LoopStep /\ (BeginTick \/ EndTick)) \/ SpawnStep \/ MoveStep \/ UNCHANGED vars
  <2>1. UNCHANGED <<world, shardQ, pc, character>>
    BY <1>4 DEF LoopStep, BeginTick, EndTick, SpawnStep, LoadPlayer, LoadNext, AnnounceTo,
                AnnounceNext, MoveStep, MoveFor, MoveNext, connVars, stateVars, vars,
                shardVars
  <2> QED
    BY <2>1 DEF OnceInv, QueuedOnce, NotYetQueued, OneEntity, Enters, InWorld
<1> QED
  BY <1>1, <1>2, <1>3, <1>4 DEF Next, LoopStep

(* OnceInv is inductive, together with the types and who is known. *)
LEMMA OnceInvCorrect ==
  ASSUME Discipline = "single" PROVE Spec => []OnceInv
<1>1. TypeInv /\ KnownInv /\ OnceInv /\ [Next]_vars => OnceInv'
  BY OnceStep
<1> QED
  BY <1>1, OnceInit, TypeInvCorrect, KnownInvCorrect, PTL DEF Spec

-----------------------------------------------------------------------------
(* Movements on their way: a character's position in the world, those in    *)
(* the location's queue and the one it was last sent to never go back.      *)
WorldBehindQueue ==
  \A e \in DOMAIN world : \A i \in DOMAIN shardQ :
    Moves(i) /\ shardQ[i].id = world[e].id => world[e].pos <= shardQ[i].pos

QueueInOrder ==
  \A i, j \in DOMAIN shardQ :
    i < j /\ Moves(i) /\ Moves(j) /\ shardQ[i].id = shardQ[j].id =>
      shardQ[i].pos <= shardQ[j].pos

QueueWalked ==
  \A i \in DOMAIN shardQ : Moves(i) => shardQ[i].pos <= walked[shardQ[i].id]

WorldWalked == \A e \in DOMAIN world : world[e].pos <= walked[world[e].id]

WalkedStepped == \A id \in Char : walked[id] <= steps

WalkInv ==
  WorldBehindQueue /\ QueueInOrder /\ QueueWalked /\ WorldWalked /\ WalkedStepped

(* Nobody has moved when the server starts. *)
LEMMA WalkInit == Init => WalkInv
BY DEF Init, StateInit, ClientInit, ShardInit, WalkInv, WorldBehindQueue, QueueInOrder,
       QueueWalked, WorldWalked, WalkedStepped

(* The types of positions. *)
LEMMA PositionTypes ==
  ASSUME TypeInv
  PROVE  /\ \A e \in DOMAIN world : world[e].id \in Char /\ world[e].pos \in Nat
         /\ \A i \in DOMAIN shardQ :
              i \in Nat /\ shardQ[i].id \in Char /\ (Moves(i) => shardQ[i].pos \in Nat)
         /\ walked \in [Char -> Nat] /\ steps \in Nat
<1>1. shardQ \in Seq(ShardMsg) /\ Coord \subseteq Nat
  BY BoundsAssumption DEF TypeInv, TypeOK, StateTypeOK, Coord
<1>2. \A i \in DOMAIN shardQ : i \in Nat /\ shardQ[i] \in ShardMsg
  BY <1>1
<1>3. \A e \in DOMAIN world : world[e].id \in Char /\ world[e].pos \in Nat
  BY <1>1, EntityType
<1>4. walked \in [Char -> Nat] /\ steps \in Nat
  BY <1>1 DEF TypeInv, TypeOK, ClientTypeOK
<1> QED
  BY <1>1, <1>2, <1>3, <1>4 DEF ShardMsg, Moves

(* A movement goes behind all others, to coordinates not used before. *)
LEMMA WalkClient ==
  ASSUME TypeInv, WalkInv, NEW c \in Conn, CharacterMove(c), world' = world
  PROVE  WalkInv' /\ walked[character[c]] < steps + 1
<1> DEFINE msg == [kind |-> "PlayerMove", id |-> character[c], pos |-> steps + 1]
<1>1. character[c] \in Char /\ steps \in Nat /\ steps + 1 \in Coord
  BY NoneAssumption, BoundsAssumption
     DEF CharacterMove, TypeInv, TypeOK, JoinedHasCharacter, ConnTypeOK, ClientTypeOK, Coord
<1>2. msg \in ShardMsg
  BY <1>1 DEF ShardMsg
<1>3. /\ shardQ' = Append(shardQ, msg) /\ steps' = steps + 1
      /\ walked' = [walked EXCEPT ![character[c]] = steps + 1]
  BY DEF CharacterMove, PassOn
<1>4. /\ Len(shardQ) \in Nat /\ DOMAIN shardQ = 1 .. Len(shardQ)
      /\ DOMAIN shardQ' = DOMAIN shardQ \cup {Len(shardQ) + 1}
      /\ \A i \in DOMAIN shardQ : shardQ'[i] = shardQ[i]
      /\ shardQ'[Len(shardQ) + 1] = msg
  BY <1>2, <1>3, QueueAppended
<1>5. /\ walked'[character[c]] = steps + 1
      /\ \A id \in Char : walked[id] <= walked'[id] /\ walked'[id] <= steps + 1
      /\ \A id \in Char : walked[id] < steps + 1
  BY <1>1, <1>3, PositionTypes DEF WalkInv, WalkedStepped
<1>6. WalkedStepped'
  BY <1>3, <1>5 DEF WalkedStepped
<1>7. walked' \in [Char -> Nat]
  BY <1>1, <1>3, PositionTypes
<1>8. WorldWalked'
  BY <1>5, <1>7, PositionTypes DEF WalkInv, WorldWalked
<1>9. QueueWalked'
  BY <1>1, <1>4, <1>5, <1>7, PositionTypes DEF WalkInv, QueueWalked, Moves
<1>10. WorldBehindQueue'
  BY <1>1, <1>4, <1>5, PositionTypes DEF WalkInv, WorldBehindQueue, WorldWalked, Moves
<1>11. QueueInOrder'
  <2> SUFFICES ASSUME NEW i \in DOMAIN shardQ', NEW j \in DOMAIN shardQ', i < j,
                      Moves(i)', Moves(j)', shardQ'[i].id = shardQ'[j].id
               PROVE  shardQ'[i].pos <= shardQ'[j].pos
    BY DEF QueueInOrder
  <2>1. i \in DOMAIN shardQ
    BY <1>4
  <2>2. CASE j \in DOMAIN shardQ
    BY <1>4, <2>1, <2>2 DEF WalkInv, QueueInOrder, Moves
  <2>3. CASE j = Len(shardQ) + 1
    <3>1. shardQ[i].pos <= walked[shardQ[i].id] /\ shardQ[i].id \in Char /\ shardQ[i].pos \in Nat
      BY <1>4, <2>1, PositionTypes DEF WalkInv, QueueWalked, Moves
    <3> QED
      BY <1>1, <1>4, <1>5, <2>1, <2>3, <3>1, PositionTypes
  <2> QED
    BY <1>4, <2>2, <2>3
<1> QED
  BY <1>1, <1>5, <1>6, <1>8, <1>9, <1>10, <1>11 DEF WalkInv

(* The location takes a movement no older than where its character is: no
   entity goes back. *)
LEMMA WalkLoop ==
  ASSUME TypeInv, WalkInv, OnPlayerEnter \/ OnPlayerMove, UNCHANGED <<walked, steps>>
  PROVE  /\ WalkInv'
         /\ \A e \in DOMAIN world :
              /\ e \in DOMAIN world' /\ world'[e].id = world[e].id
              /\ world[e].pos <= world'[e].pos
<1>1. shardQ # <<>> /\ shardQ' = Tail(shardQ)
  BY DEF OnPlayerEnter, OnPlayerMove
<1>2. /\ Head(shardQ) = shardQ[1] /\ 1 \in DOMAIN shardQ
      /\ \A i \in DOMAIN shardQ' :
           i \in Nat /\ i + 1 \in DOMAIN shardQ /\ shardQ'[i] = shardQ[i + 1]
  BY <1>1, QueueTaken
<1>3. \A i \in DOMAIN shardQ' : 1 < i + 1
  <2>1. Tail(shardQ) \in Seq(ShardMsg)
    BY <1>1, HeadTaken DEF TypeInv, TypeOK, StateTypeOK
  <2>2. \A i \in DOMAIN shardQ' : i \in 1 .. Len(shardQ')
    BY <1>1, <2>1
  <2> QED
    BY <2>2
<1>4. QueueInOrder' /\ QueueWalked' /\ WalkedStepped'
  BY <1>2 DEF WalkInv, QueueInOrder, QueueWalked, WalkedStepped, Moves
<1>5. CASE OnPlayerEnter
  <2>1. \A e \in DOMAIN world' :
          \/ e \in DOMAIN world /\ world'[e] = world[e]
          \/ world'[e].pos = 0 /\ world'[e].id = shardQ[1].id
    BY <1>2, <1>5, Entered
  <2>2. \A e \in DOMAIN world : e \in DOMAIN world' /\ world'[e] = world[e]
    BY <1>5, Entered
  <2>3. WorldBehindQueue'
    BY <1>2, <2>1, PositionTypes DEF WalkInv, WorldBehindQueue, Moves
  <2>4. WorldWalked'
    BY <1>2, <2>1, PositionTypes DEF WalkInv, WorldWalked
  <2> QED
    BY <1>4, <2>2, <2>3, <2>4, PositionTypes DEF WalkInv
<1>6. CASE OnPlayerMove
  <2>1. Moves(1)
    BY <1>2, <1>6 DEF OnPlayerMove, Moves
  <2>2. /\ DOMAIN world' = DOMAIN world
        /\ \A e \in DOMAIN world :
             /\ world'[e].id = world[e].id
             /\ world[e].id = shardQ[1].id => world'[e].pos = shardQ[1].pos
             /\ world[e].id # shardQ[1].id => world'[e].pos = world[e].pos
    BY <1>2, <1>6, Moved
  <2>3. \A e \in DOMAIN world : world[e].pos <= world'[e].pos
    BY <1>2, <2>1, <2>2, PositionTypes DEF WalkInv, WorldBehindQueue
  <2>4. WorldBehindQueue'
    BY <1>2, <1>3, <2>1, <2>2 DEF WalkInv, WorldBehindQueue, QueueInOrder, Moves
  <2>5. WorldWalked'
    BY <1>2, <2>1, <2>2 DEF WalkInv, WorldWalked, QueueWalked
  <2> QED
    BY <1>4, <2>2, <2>3, <2>4, <2>5 DEF WalkInv
<1> QED
  BY <1>5, <1>6

(* An entry in the queue is no movement. *)
LEMMA WalkJoin ==
  ASSUME TypeInv, WalkInv, NEW c \in Conn, JoinShard(c), UNCHANGED <<world, walked, steps>>
  PROVE  WalkInv'
<1>1. CASE shardQ' = shardQ
  BY <1>1 DEF WalkInv, WorldBehindQueue, QueueInOrder, QueueWalked, WorldWalked,
              WalkedStepped, Moves
<1>2. CASE shardQ' # shardQ
  <2> DEFINE msg == [kind |-> "PlayerEnter", id |-> character[c]]
  <2>1. character[c] \in chardata /\ shardQ' = Append(shardQ, msg)
    BY <1>2 DEF JoinShard
  <2>2. msg \in ShardMsg
    BY <2>1, DatabaseAssumption DEF TypeInv, TypeOK, StateTypeOK, ShardMsg
  <2>3. /\ DOMAIN shardQ' = DOMAIN shardQ \cup {Len(shardQ) + 1}
        /\ \A i \in DOMAIN shardQ : shardQ'[i] = shardQ[i]
        /\ shardQ'[Len(shardQ) + 1].kind = "PlayerEnter"
    BY <2>1, <2>2, QueueAppended, SMTT(20)
  <2> QED
    BY <2>3 DEF WalkInv, WorldBehindQueue, QueueInOrder, QueueWalked, WorldWalked,
                WalkedStepped, Moves
<1> QED
  BY <1>1, <1>2

(* Every step keeps movements in order. *)
LEMMA WalkStep ==
  ASSUME TypeInv, WalkInv, [Next]_vars
  PROVE  WalkInv'
<1>1. CASE \E c \in Conn : CharacterMove(c) /\ world' = world
  BY <1>1, WalkClient
<1>2. CASE \E c \in Conn : JoinShard(c) /\ UNCHANGED shardVars
  BY <1>2, WalkJoin DEF JoinShard, clientVars, shardVars
<1>3. CASE (OnPlayerEnter \/ OnPlayerMove) /\ UNCHANGED clientVars
  BY <1>3, WalkLoop DEF clientVars
<1>4. CASE UNCHANGED <<world, shardQ, walked, steps>>
  BY <1>4 DEF WalkInv, WorldBehindQueue, QueueInOrder, QueueWalked, WorldWalked,
              WalkedStepped, Moves
<1> QED
  BY <1>1, <1>2, <1>3, <1>4, ZenonT(30)
     DEF Next, ClientStep, Handshake, OtherPacket, AuthRequest, TimeSyncResponse,
         EnterWorldRequest, Close, HandlerStep, RegisterRx, LookupStep, StartRecv,
         RecvStep, RecvFromShard, RecvError, ShowMessage, LoopStep, BeginTick, EndTick,
         SpawnStep, LoadPlayer, LoadNext, AnnounceTo, AnnounceNext, MoveStep, MoveFor,
         MoveNext, stateVars, clientVars, shardVars, vars

(* WalkInv is inductive over well-typed states, whatever clients do. *)
LEMMA WalkInvCorrect == Spec => []WalkInv
<1>1. TypeInv /\ WalkInv /\ [Next]_vars => WalkInv'
  BY WalkStep
<1> QED
  BY <1>1, WalkInit, TypeInvCorrect, PTL DEF Spec

-----------------------------------------------------------------------------
(* What is queued for clients and shown to them never goes back.  A message *)
(* is no older than what its client was shown, and none is newer than the   *)
(* world.                                                                   *)
Reached(id, pos) == \E e \in DOMAIN world : world[e].id = id /\ pos <= world[e].pos

ChannelsReached ==
  \A ch \in Chan : \A i \in DOMAIN queue[ch] : Reached(queue[ch][i].id, queue[ch][i].pos)

ChannelsInOrder ==
  \A ch \in Chan : \A i, j \in DOMAIN queue[ch] :
    i < j /\ queue[ch][i].id = queue[ch][j].id => queue[ch][i].pos <= queue[ch][j].pos

ViewsReached ==
  \A c \in Conn, id \in Char : view[c][id] # None => Reached(id, view[c][id])

ViewsBeforeChannels ==
  \A c \in Conn, id \in Char : view[c][id] # None /\ channel[c] # None =>
    \A i \in DOMAIN queue[channel[c]] :
      queue[channel[c]][i].id = id => view[c][id] <= queue[channel[c]][i].pos

ViewsByChannel == \A c \in Conn : channel[c] = None => \A id \in Char : view[c][id] = None

ViewInv ==
  /\ ChannelsReached /\ ChannelsInOrder
  /\ ViewsReached /\ ViewsBeforeChannels /\ ViewsByChannel

(* Nothing is queued or shown when the server starts. *)
LEMMA ViewInit == Init => ViewInv
BY DEF Init, StateInit, ClientInit, ConnInit, ViewInv, ChannelsReached, ChannelsInOrder,
       ViewsReached, ViewsBeforeChannels, ViewsByChannel

(* Positions that are compared are numbers. *)
LEMMA ViewTypes ==
  ASSUME TypeInv
  PROVE  /\ \A ch \in Chan : \A i \in DOMAIN queue[ch] :
              i \in Nat /\ queue[ch][i].id \in Char /\ queue[ch][i].pos \in Coord
         /\ view \in [Conn -> [Char -> Coord \cup {None}]]
         /\ \A c \in Conn, id \in Char : view[c][id] # None => view[c][id] \in Nat
         /\ Coord \subseteq Nat
<1>1. queue \in [Chan -> Seq(PlayerMsg)] /\ view \in [Conn -> [Char -> Coord \cup {None}]]
  BY DEF TypeInv, TypeOK, StateTypeOK, ClientTypeOK
<1>2. \A ch \in Chan : \A i \in DOMAIN queue[ch] : i \in Nat /\ queue[ch][i] \in PlayerMsg
  <2> TAKE ch \in Chan
  <2>1. queue[ch] \in Seq(PlayerMsg)
    BY <1>1
  <2> QED
    BY <2>1
<1>3. Coord \subseteq Nat
  BY BoundsAssumption DEF Coord
<1>4. \A ch \in Chan : \A i \in DOMAIN queue[ch] :
        queue[ch][i].id \in Char /\ queue[ch][i].pos \in Coord
  BY <1>2 DEF PlayerMsg
<1>5. \A c \in Conn, id \in Char : view[c][id] \in Coord \cup {None}
  BY <1>1
<1> QED
  BY <1>1, <1>2, <1>3, <1>4, <1>5

(* The two systems send what the world has of an entity, and nothing else. *)
LEMMA SystemSends ==
  ASSUME TypeInv, SpawnStep \/ MoveStep
  PROVE  /\ UNCHANGED <<world, channel, view, walked>>
         /\ \E ch \in Chan \cup {None}, e \in DOMAIN world :
            \E kind \in {"PlayerLoaded", "EntitySpawn", "EntityMove"} :
              Send(ch, [kind |-> kind, id |-> world[e].id, pos |-> world[e].pos])
<1>1. UNCHANGED <<world, channel, view, walked>>
  BY DEF SpawnStep, LoadPlayer, LoadNext, AnnounceTo, AnnounceNext, MoveStep, MoveFor,
         MoveNext, clientVars, connVars
<1>2. /\ \A p \in DOMAIN world : playerTx[world[p].id] \in Chan \cup {None}
      /\ spawnJob.ch \in Chan \cup {None} /\ moveJob.ch \in Chan \cup {None}
      /\ fresh \subseteq DOMAIN world /\ changed \subseteq DOMAIN world
  BY EntityType DEF TypeInv, TypeOK, ShardTypeOK
<1>3. ASSUME NEW p \in DOMAIN world, LoadPlayer(p)
      PROVE  \E ch \in Chan \cup {None} :
               Send(ch, [kind |-> "PlayerLoaded", id |-> world[p].id, pos |-> world[p].pos])
  BY <1>2, <1>3 DEF LoadPlayer
<1>4. ASSUME NEW p \in DOMAIN world, LoadNext(p) \/ AnnounceNext(p) \/ AnnounceTo(p)
      PROVE  \E ch \in Chan \cup {None}, e \in DOMAIN world :
               Send(ch, [kind |-> "EntitySpawn", id |-> world[e].id, pos |-> world[e].pos])
  <2>1. CASE LoadNext(p) \/ AnnounceNext(p)
    BY <1>2, <2>1 DEF LoadNext, AnnounceNext, SendSpawn
  <2>2. CASE AnnounceTo(p)
    <3>1. PICK e \in Others(fresh, world[p].id) :
            SendSpawn(playerTx[world[p].id], e, Others(fresh, world[p].id) \ {e})
      BY <2>2 DEF AnnounceTo
    <3>2. e \in DOMAIN world
      BY <1>2 DEF Others
    <3> QED
      BY <1>2, <3>1, <3>2 DEF SendSpawn
  <2> QED
    BY <1>4, <2>1, <2>2
<1>5. ASSUME NEW p \in DOMAIN world, MoveFor(p) \/ MoveNext(p)
      PROVE  \E ch \in Chan \cup {None}, e \in DOMAIN world :
               Send(ch, [kind |-> "EntityMove", id |-> world[e].id, pos |-> world[e].pos])
  <2>1. CASE MoveNext(p)
    BY <1>2, <2>1 DEF MoveNext, SendMove
  <2>2. CASE MoveFor(p)
    <3>1. PICK e \in Others(changed, world[p].id) :
            SendMove(playerTx[world[p].id], e, Others(changed, world[p].id) \ {e})
      BY <2>2 DEF MoveFor
    <3>2. e \in DOMAIN world
      BY <1>2 DEF Others
    <3> QED
      BY <1>2, <3>1, <3>2 DEF SendMove
  <2> QED
    BY <1>5, <2>1, <2>2
<1>6. CASE SpawnStep
  BY <1>1, <1>3, <1>4, <1>6 DEF SpawnStep
<1>7. CASE MoveStep
  BY <1>1, <1>5, <1>7 DEF MoveStep
<1> QED
  BY <1>6, <1>7

(* What the world reached, it has reached for good. *)
LEMMA ReachedKept ==
  ASSUME TypeInv, NEW id, NEW pos \in Nat, Reached(id, pos),
         \A e \in DOMAIN world : /\ e \in DOMAIN world' /\ world'[e].id = world[e].id
                                 /\ world'[e].pos \in Nat /\ world[e].pos <= world'[e].pos
  PROVE  Reached(id, pos)'
<1>1. PICK e \in DOMAIN world : world[e].id = id /\ pos <= world[e].pos
  BY DEF Reached
<1>2. pos <= world'[e].pos
  BY <1>1, PositionTypes
<1> QED
  BY <1>1, <1>2 DEF Reached

(* A message about an entity is no older than all that was sent before of it. *)
LEMMA ViewSent ==
  ASSUME TypeInv, OnceInv, ViewInv, NEW ch \in Chan \cup {None}, NEW e \in DOMAIN world,
         NEW kind \in {"PlayerLoaded", "EntitySpawn", "EntityMove"},
         Send(ch, [kind |-> kind, id |-> world[e].id, pos |-> world[e].pos]),
         UNCHANGED <<world, channel, view>>
  PROVE  ViewInv'
<1> PICK msg \in PlayerMsg :
      /\ msg = [kind |-> kind, id |-> world[e].id, pos |-> world[e].pos]
      /\ msg.id = world[e].id /\ msg.pos = world[e].pos
  BY EntityType DEF PlayerMsg
<1>1. \A id, pos : Reached(id, pos)' <=> Reached(id, pos)
  BY DEF Reached
<1>2. ViewsReached' /\ ViewsByChannel'
  BY <1>1 DEF ViewInv, ViewsReached, ViewsByChannel
<1>3. CASE queue' = queue
  BY <1>1, <1>2, <1>3 DEF ViewInv, ChannelsReached, ChannelsInOrder, ViewsBeforeChannels
<1>4. CASE ch \in Chan /\ queue' = [queue EXCEPT ![ch] = Append(@, msg)]
  <2>1. queue \in [Chan -> Seq(PlayerMsg)]
    BY DEF TypeInv, TypeOK, StateTypeOK
  <2> PICK q \in Seq(PlayerMsg) : q = queue[ch]
    BY <1>4, <2>1
  <2>2. /\ \A x \in Chan \ {ch} : queue'[x] = queue[x]
        /\ queue'[ch] = Append(q, msg)
    BY <1>4, <2>1
  <2>3. /\ DOMAIN queue'[ch] = DOMAIN q \cup {Len(q) + 1}
        /\ \A i \in DOMAIN q : queue'[ch][i] = q[i]
        /\ queue'[ch][Len(q) + 1] = msg
        /\ DOMAIN q = 1 .. Len(q) /\ Len(q) \in Nat
    BY <2>2, Appended
  <2>4. \A id, pos : Reached(id, pos) /\ id = msg.id => pos <= msg.pos
    BY DEF OnceInv, OneEntity, Reached
  <2>5. Reached(msg.id, msg.pos)
    BY PositionTypes DEF Reached
  <2>6. ChannelsReached'
    BY <1>1, <2>2, <2>3, <2>5 DEF ViewInv, ChannelsReached
  <2>7. ChannelsInOrder'
    <3> SUFFICES ASSUME NEW x \in Chan, NEW i \in DOMAIN queue'[x], NEW j \in DOMAIN queue'[x],
                        i < j, queue'[x][i].id = queue'[x][j].id
                 PROVE  queue'[x][i].pos <= queue'[x][j].pos
      BY DEF ChannelsInOrder
    <3>1. CASE x # ch
      BY <2>2, <3>1 DEF ViewInv, ChannelsInOrder
    <3>2. CASE x = ch /\ j \in DOMAIN q
      <4>1. i \in DOMAIN q
        BY <2>3, <3>2
      <4> QED
        BY <2>3, <3>2, <4>1 DEF ViewInv, ChannelsInOrder
    <3>3. CASE x = ch /\ j = Len(q) + 1
      <4>1. i \in DOMAIN q
        BY <2>3, <3>3
      <4>2. Reached(q[i].id, q[i].pos)
        BY <3>3, <4>1 DEF ViewInv, ChannelsReached
      <4> QED
        BY <2>3, <2>4, <3>3, <4>1, <4>2
    <3> QED
      BY <2>3, <3>1, <3>2, <3>3
  <2>8. ViewsBeforeChannels'
    <3> SUFFICES ASSUME NEW c \in Conn, NEW id \in Char, view[c][id] # None, channel[c] # None,
                        NEW i \in DOMAIN queue'[channel[c]], queue'[channel[c]][i].id = id
                 PROVE  view[c][id] <= queue'[channel[c]][i].pos
      BY DEF ViewsBeforeChannels
    <3>0. channel[c] \in Chan
      BY DEF TypeInv, TypeOK, ConnTypeOK
    <3>1. CASE channel[c] # ch
      BY <2>2, <3>0, <3>1 DEF ViewInv, ViewsBeforeChannels
    <3>2. CASE channel[c] = ch /\ i \in DOMAIN q
      BY <2>3, <3>2 DEF ViewInv, ViewsBeforeChannels
    <3>3. CASE channel[c] = ch /\ i = Len(q) + 1
      <4>1. Reached(id, view[c][id])
        BY DEF ViewInv, ViewsReached
      <4> QED
        BY <2>3, <2>4, <3>3, <4>1
    <3> QED
      BY <2>3, <3>1, <3>2, <3>3
  <2> QED
    BY <1>2, <2>6, <2>7, <2>8 DEF ViewInv
<1> QED
  BY <1>3, <1>4 DEF Send

(* A connection gets its first channel while its client was shown nothing. *)
LEMMA ViewEntry ==
  ASSUME Discipline = "single", TypeInv, KnownInv, ViewInv, NEW c \in Conn,
         NEW idx \in Index, EnterWorldRequest(c, idx), world' = world
  PROVE  ViewInv'
<1> PICK id \in Char, ch \in Chan :
      /\ MayEnter(c, id)
      /\ channel' = [channel EXCEPT ![c] = ch]
      /\ UNCHANGED <<queue, clientVars>>
  BY EntryEffect
<1>1. UNCHANGED <<queue, view>>
  BY DEF clientVars
<1>2. channel[c] = None
  BY FirstEntry DEF KnownInv, OneEntry
<1>3. \A x \in Char : view[c][x] = None
  BY <1>2 DEF ViewInv, ViewsByChannel
<1>4. \A d \in Conn \ {c} : channel'[d] = channel[d]
  BY DEF TypeInv, TypeOK, ConnTypeOK
<1>5. ViewsBeforeChannels' /\ ViewsByChannel'
  BY <1>1, <1>3, <1>4 DEF ViewInv, ViewsBeforeChannels, ViewsByChannel
<1> QED
  BY <1>1, <1>5 DEF ViewInv, ChannelsReached, ChannelsInOrder, ViewsReached, Reached

(* A message a connection takes is no older than what its client was shown, and
   no newer than where the character was sent: it is a Tell of the feed. *)
LEMMA ViewTaken ==
  ASSUME TypeInv, ChannelInv, KnownInv, OwnerInv, WalkInv, ViewInv, NEW c \in Conn,
         RecvFromShard(c), world' = world
  PROVE  /\ ViewInv'
         /\ \/ UNCHANGED <<walked, view>>
            \/ \E id \in Char, pos \in Coord : Feed!Tell(c, id, pos)
<1> PICK ch \in Chan : ch = rx[c]
  BY DEF RecvFromShard, TypeInv, TypeOK, ConnTypeOK
<1> PICK q \in Seq(PlayerMsg) : q = queue[ch]
  BY DEF TypeInv, TypeOK, StateTypeOK
<1>1. /\ q # <<>> /\ queue' = [queue EXCEPT ![ch] = Tail(@)] /\ ShowMessage(c, Head(q))
      /\ UNCHANGED <<channel, character>>
  BY DEF RecvFromShard
<1>2. channel[c] = ch /\ channel[c] # None
  BY NoneAssumption DEF ChannelInv, RxOwn
<1> PICK t : t = Tail(q)
  OBVIOUS
<1>3. /\ Head(q) = q[1] /\ 1 \in DOMAIN q
      /\ \A i \in DOMAIN t : i \in Nat /\ 1 < i + 1 /\ i + 1 \in DOMAIN q /\ t[i] = q[i + 1]
  <2>1. t \in Seq(PlayerMsg)
    BY <1>1, HeadTaken
  <2>2. \A i \in DOMAIN t : i \in Nat /\ 1 < i + 1
    BY <2>1
  <2> QED
    BY <1>1, <2>2, HeadTaken
<1> PICK msg \in PlayerMsg : msg = Head(q)
  BY <1>1, HeadTaken
<1>a. \A i, j \in DOMAIN q : i < j /\ q[i].id = q[j].id => q[i].pos <= q[j].pos
  BY DEF ViewInv, ChannelsInOrder
<1>b. \A id \in Char : view[c][id] # None =>
        \A i \in DOMAIN q : q[i].id = id => view[c][id] <= q[i].pos
  BY <1>2 DEF ViewInv, ViewsBeforeChannels
<1>4. queue'[ch] = t /\ \A x \in Chan \ {ch} : queue'[x] = queue[x]
  BY <1>1 DEF TypeInv, TypeOK, StateTypeOK
<1>5. \A d \in Conn : channel[d] = ch => d = c
  <2>1. character[c] # None /\ Owner(ch) = character[c]
    BY <1>2 DEF KnownInv, OneEntry, OwnerInv, RegistryOwners
  <2>2. \A d \in Conn : channel[d] = ch => Owner(ch) = character[d]
    BY NoneAssumption DEF OwnerInv, RegistryOwners
  <2> QED
    BY <2>1, <2>2 DEF KnownInv, OneEntry
<1>6. Reached(msg.id, msg.pos)
  BY <1>3 DEF ViewInv, ChannelsReached
<1>7. /\ walked' = walked /\ msg.id \in Char /\ msg.pos \in Coord
      /\ msg.kind = "PlayerLoaded" => view' = view
      /\ msg.kind # "PlayerLoaded" => view' = [view EXCEPT ![c][msg.id] = msg.pos]
  BY <1>1 DEF ShowMessage, PlayerMsg
<1>8. \A id, pos : Reached(id, pos)' <=> Reached(id, pos)
  BY DEF Reached
<1>9. \A d \in Conn, id \in Char :
        \/ view'[d][id] = view[d][id]
        \/ d = c /\ id = msg.id /\ view'[d][id] = msg.pos
  BY <1>7, ViewTypes
<1>10. ChannelsReached'
  <2> SUFFICES ASSUME NEW x \in Chan, NEW i \in DOMAIN queue'[x]
               PROVE  Reached(queue'[x][i].id, queue'[x][i].pos)
    BY <1>8 DEF ChannelsReached
  <2>1. CASE x = ch
    <3>1. i \in DOMAIN t /\ queue'[x] = t
      BY <1>4, <2>1
    <3> QED
      BY <1>3, <3>1 DEF ViewInv, ChannelsReached
  <2>2. CASE x # ch
    BY <1>4, <2>2 DEF ViewInv, ChannelsReached
  <2> QED
    BY <2>1, <2>2
<1>11. ChannelsInOrder'
  <2> SUFFICES ASSUME NEW x \in Chan, NEW i \in DOMAIN queue'[x], NEW j \in DOMAIN queue'[x],
                      i < j, queue'[x][i].id = queue'[x][j].id
               PROVE  queue'[x][i].pos <= queue'[x][j].pos
    BY DEF ChannelsInOrder
  <2>1. CASE x = ch
    <3>1. i \in DOMAIN t /\ j \in DOMAIN t /\ queue'[x] = t
      BY <1>4, <2>1
    <3>2. i + 1 < j + 1 /\ i + 1 \in DOMAIN q /\ j + 1 \in DOMAIN q
      BY <1>3, <3>1
    <3>3. queue'[x][i] = q[i + 1] /\ queue'[x][j] = q[j + 1]
      BY <1>3, <3>1
    <3> QED
      BY <1>a, <3>2, <3>3
  <2>2. CASE x # ch
    BY <1>4, <2>2 DEF ViewInv, ChannelsInOrder
  <2> QED
    BY <2>1, <2>2
<1>12. ViewsReached'
  BY <1>6, <1>8, <1>9 DEF ViewInv, ViewsReached
<1>13. ViewsByChannel'
  BY <1>1, <1>2, <1>9 DEF ViewInv, ViewsByChannel
<1>14. ViewsBeforeChannels'
  <2> SUFFICES ASSUME NEW d \in Conn, NEW id \in Char, view'[d][id] # None, channel[d] # None,
                      NEW i \in DOMAIN queue'[channel[d]], queue'[channel[d]][i].id = id
               PROVE  view'[d][id] <= queue'[channel[d]][i].pos
    BY <1>1 DEF ViewsBeforeChannels
  <2>0. channel[d] \in Chan
    BY DEF TypeInv, TypeOK, ConnTypeOK
  <2>1. CASE d # c
    <3>1. queue'[channel[d]] = queue[channel[d]] /\ view'[d][id] = view[d][id]
      BY <1>4, <1>5, <1>9, <2>0, <2>1
    <3> QED
      BY <3>1 DEF ViewInv, ViewsBeforeChannels
  <2>2. CASE d = c
    <3>1. i \in DOMAIN t /\ queue'[channel[d]] = t
      BY <1>2, <1>4, <2>2
    <3>2. t[i].id = id /\ t[i] = q[i + 1] /\ i + 1 \in DOMAIN q /\ 1 < i + 1
      BY <1>3, <3>1
    <3>3. CASE view'[d][id] = view[d][id]
      BY <1>b, <2>2, <3>1, <3>2, <3>3
    <3>4. CASE id = msg.id /\ view'[d][id] = msg.pos
      BY <1>3, <1>a, <3>1, <3>2, <3>4
    <3> QED
      BY <1>9, <3>3, <3>4
  <2> QED
    BY <2>1, <2>2
<1>15. msg.kind # "PlayerLoaded" => Feed!Tell(c, msg.id, msg.pos)
  <2>1. view[c][msg.id] # None => view[c][msg.id] <= msg.pos
    BY <1>3, <1>7, <1>b
  <2>2. msg.pos <= walked[msg.id]
    <3>1. PICK e \in DOMAIN world : world[e].id = msg.id /\ msg.pos <= world[e].pos
      BY <1>6 DEF Reached
    <3> QED
      BY <1>7, <3>1, PositionTypes, ViewTypes DEF WalkInv, WorldWalked
  <2> QED
    BY <1>7, <2>1, <2>2 DEF Feed!Tell
<1> QED
  BY <1>7, <1>10, <1>11, <1>12, <1>13, <1>14, <1>15 DEF ViewInv

(* What the location does to its world takes no entity back. *)
LEMMA ViewLoop ==
  ASSUME TypeInv, WalkInv, ViewInv, LoopStep
  PROVE  ViewInv'
<1>1. UNCHANGED <<queue, channel, view>>
  BY DEF LoopStep, OnPlayerEnter, OnPlayerMove, BeginTick, EndTick, stateVars, clientVars,
         connVars
<1>2. \A e \in DOMAIN world : /\ e \in DOMAIN world' /\ world'[e].id = world[e].id
                              /\ world'[e].pos \in Nat /\ world[e].pos <= world'[e].pos
  <2>0. TypeInv'
    BY LoopStepType
  <2>1. \A e \in DOMAIN world' : world'[e].pos \in Nat
    <3>1. world' \in Seq([id : Char, pos : Coord]) /\ Coord \subseteq Nat
      BY <2>0, BoundsAssumption DEF TypeInv, TypeOK, ShardTypeOK, Coord
    <3> PICK w \in Seq([id : Char, pos : Coord]) : w = world'
      BY <3>1
    <3>2. \A e \in DOMAIN w : w[e] \in [id : Char, pos : Coord]
      BY ElementOfSeq, LenProperties
    <3> QED
      BY <3>1, <3>2
  <2>2. CASE OnPlayerEnter \/ OnPlayerMove
    <3>1. UNCHANGED <<walked, steps>>
      BY DEF LoopStep, clientVars
    <3> QED
      BY <2>1, <2>2, <3>1, WalkLoop
  <2>3. CASE BeginTick \/ EndTick
    <3>1. world' = world
      BY <2>3 DEF BeginTick, EndTick
    <3> QED
      BY <3>1, PositionTypes
  <2> QED
    BY <2>2, <2>3 DEF LoopStep
<1>3. \A id, pos : pos \in Nat /\ Reached(id, pos) => Reached(id, pos)'
  BY <1>2, ReachedKept
<1>4. ChannelsReached' /\ ViewsReached'
  BY <1>1, <1>3, ViewTypes DEF ViewInv, ChannelsReached, ViewsReached
<1> QED
  BY <1>1, <1>4 DEF ViewInv, ChannelsInOrder, ViewsBeforeChannels, ViewsByChannel

(* What leaves channels, views and the world alone. *)
LEMMA ViewKept ==
  ASSUME ViewInv, UNCHANGED <<queue, channel, view, world>>
  PROVE  ViewInv'
BY DEF ViewInv, ChannelsReached, ChannelsInOrder, ViewsReached, ViewsBeforeChannels,
       ViewsByChannel, Reached

(* Every step of the server is a step of the feed, or none, and keeps ViewInv. *)
LEMMA FeedStep ==
  ASSUME Discipline = "single", TypeInv, ChannelInv, KnownInv, OwnerInv, OnceInv, WalkInv,
         ViewInv, [Next]_vars
  PROVE  ViewInv' /\ (Feed!Next \/ UNCHANGED <<walked, view>>)
<1>1. ASSUME NEW c \in Conn, ClientStep(c)
      PROVE  ViewInv' /\ (Feed!Next \/ UNCHANGED <<walked, view>>)
  <2>1. world' = world
    BY <1>1 DEF ClientStep, shardVars
  <2>2. CASE \E idx \in Index : EnterWorldRequest(c, idx)
    <3>1. UNCHANGED <<walked, view>>
      BY <2>2 DEF EnterWorldRequest, clientVars
    <3> QED
      BY <2>1, <2>2, <3>1, ViewEntry
  <2>3. CASE CharacterMove(c)
    <3>1. UNCHANGED <<queue, channel, view>>
      BY <2>3 DEF CharacterMove
    <3>2. /\ character[c] \in Char /\ steps + 1 \in Coord
          /\ walked' = [walked EXCEPT ![character[c]] = steps + 1]
      BY <2>3, NoneAssumption, BoundsAssumption
         DEF CharacterMove, TypeInv, TypeOK, JoinedHasCharacter, ConnTypeOK, ClientTypeOK,
             Coord
    <3>3. walked[character[c]] < steps + 1
      BY <2>1, <2>3, WalkClient
    <3>4. Feed!Walk(character[c], steps + 1)
      BY <3>1, <3>2, <3>3 DEF Feed!Walk
    <3>5. Feed!Next
      BY <3>2, <3>4 DEF Feed!Next, Coord
    <3> QED
      BY <2>1, <3>1, <3>5, ViewKept
  <2>4. CASE \/ Handshake(c) \/ OtherPacket(c) \/ Close(c)
             \/ \E s \in Session, account \in Account : AuthRequest(c, s, account)
             \/ \E s \in Session : TimeSyncResponse(c, s)
    <3>1. UNCHANGED <<queue, channel, view, walked>>
      BY <2>4 DEF Handshake, OtherPacket, Close, AuthRequest, TimeSyncResponse, stateVars,
                  clientVars
    <3> QED
      BY <2>1, <3>1, ViewKept
  <2> QED
    BY <1>1, <2>2, <2>3, <2>4 DEF ClientStep
<1>2. ASSUME NEW c \in Conn, HandlerStep(c) \/ LookupStep(c) \/ RecvStep(c)
      PROVE  ViewInv' /\ (Feed!Next \/ UNCHANGED <<walked, view>>)
  <2>1. world' = world
    BY <1>2 DEF HandlerStep, LookupStep, RecvStep, shardVars
  <2>2. CASE RecvFromShard(c)
    <3>1. ViewInv' /\ (UNCHANGED <<walked, view>>
                       \/ \E id \in Char, pos \in Coord : Feed!Tell(c, id, pos))
      BY <2>1, <2>2, ViewTaken
    <3> QED
      BY <3>1 DEF Feed!Next, Coord
  <2>3. CASE RegisterRx(c) \/ JoinShard(c) \/ StartRecv(c) \/ RecvError(c)
    <3>1. UNCHANGED <<queue, channel, view, walked>>
      BY <2>3 DEF RegisterRx, JoinShard, StartRecv, RecvError, stateVars, clientVars
    <3> QED
      BY <2>1, <3>1, ViewKept
  <2> QED
    BY <1>2, <2>2, <2>3 DEF HandlerStep, LookupStep, RecvStep
<1>3. CASE LoopStep
  <2>1. UNCHANGED <<walked, view>>
    BY <1>3 DEF LoopStep, clientVars
  <2> QED
    BY <1>3, <2>1, ViewLoop
<1>4. CASE SpawnStep \/ MoveStep
  BY <1>4, SystemSends, ViewSent
<1>5. CASE UNCHANGED vars
  BY <1>5, ViewKept DEF vars, stateVars, clientVars, connVars, shardVars
<1> QED
  BY <1>1, <1>2, <1>3, <1>4, <1>5 DEF Next

(* FollowsFeed (on_player_move, player_spawn and entity_move of locshard.rs,
   recv_from_shard): where no character enters twice, the server implements
   PositionFeed.  A client is only ever shown where a character's client went,
   and never an older position after a newer one. *)
THEOREM FollowsFeedCorrect ==
  ASSUME Discipline = "single" PROVE Spec => FollowsFeed
<1>1. Init => Feed!Init
  BY DEF Init, ClientInit, Feed!Init
<1>2. /\ TypeInv /\ ChannelInv /\ KnownInv /\ OwnerInv /\ OnceInv /\ WalkInv /\ ViewInv
      /\ [Next]_vars
      => ViewInv' /\ [Feed!Next]_(Feed!vars)
  BY FeedStep DEF Feed!vars
<1>3. Discipline # "any"
  OBVIOUS
<1>4. Spec => []ChannelInv
  BY <1>3, ChannelInvCorrect
<1>5. Spec => []ViewInv /\ [][Feed!Next]_(Feed!vars)
  BY <1>2, <1>4, ViewInit, TypeInvCorrect, KnownInvCorrect, OwnerInvCorrect,
     OnceInvCorrect, WalkInvCorrect, PTL DEF Spec
<1> QED
  BY <1>1, <1>5, PTL DEF Spec, FollowsFeed, Feed!Spec
=============================================================================
