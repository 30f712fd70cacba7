------------------------------ MODULE LocShard ------------------------------
(***************************************************************************)
(* The thread of one location (server/locshard.rs): it empties its queue   *)
(* into the ECS world, then runs the schedule, whose two systems only read *)
(* the world and therefore run in parallel.  Both send through player_tx:  *)
(* player_spawn's first loop through a clone of the sender, every other    *)
(* loop under the read lock.                                               *)
(*                                                                         *)
(* world holds the player entities in the order they were spawned, which   *)
(* is the order queries visit them; nothing ever removes one.              *)
(***************************************************************************)
EXTENDS ServerState

VARIABLES
  world,      \* the entities: character and position
  fresh,      \* entities spawned since the last run: the filter Spawned
  changed,    \* entities written since the last run: the filter Changed
  ticking,    \* whether the schedule runs
  loads,      \* spawned entities player_spawn's first loop has left
  announces,  \* players its second loop has left
  spawnJob,   \* the EntitySpawn messages it is sending
  moves,      \* players entity_move's loop has left
  moveJob     \* the EntityMove messages it is sending

shardVars ==
  <<world, fresh, changed, ticking, loads, announces, spawnJob, moves, moveJob>>

(* A job: entities a loop body has still to send, in order, to one channel. *)
Idle == [ch |-> None, ents |-> {}]

Job(ch, ents) == IF ch = None \/ ents = {} THEN Idle ELSE [ch |-> ch, ents |-> ents]

IsFirst(e, S) == e \in S /\ \A f \in S : e <= f

ShardTypeOK ==
  /\ world \in Seq([id : Char, pos : Coord])
  /\ fresh \subseteq DOMAIN world
  /\ changed \subseteq DOMAIN world
  /\ ticking \in BOOLEAN
  /\ loads \subseteq DOMAIN world
  /\ announces \subseteq DOMAIN world
  /\ moves \subseteq DOMAIN world
  /\ \A job \in {spawnJob, moveJob} :
       /\ job \in [ch : Chan \cup {None}, ents : SUBSET DOMAIN world]
       /\ job.ch = None <=> job.ents = {}

ShardInit ==
  /\ world = <<>>
  /\ fresh = {}
  /\ changed = {}
  /\ ticking = FALSE
  /\ loads = {}
  /\ announces = {}
  /\ spawnJob = Idle
  /\ moves = {}
  /\ moveJob = Idle

Others(ents, id) == {e \in ents : world[e].id # id}

(* Mutant: the entity before the new one is marked. *)
SpawnMarkedWrong(id) ==
  /\ world' = Append(world, [id |-> id, pos |-> 0])
  /\ fresh' = fresh \cup {Len(world)}
  /\ changed' = changed \cup {Len(world)}

(* Mutant: a character that is in the world is not spawned again. *)
SpawnOnce(id) ==
  IF \E e \in DOMAIN world : world[e].id = id
    THEN UNCHANGED <<world, fresh, changed>>
    ELSE /\ world' = Append(world, [id |-> id, pos |-> 0])
         /\ fresh' = fresh \cup {Len(world) + 1}
         /\ changed' = changed \cup {Len(world) + 1}

Spawn(id) ==
  /\ world' = Append(world, [id |-> id, pos |-> 0])
  /\ fresh' = fresh \cup {Len(world) + 1}
  /\ changed' = changed \cup {Len(world) + 1}

(* PlayerEnter: the character in memory is spawned, where the database has it. *)
OnPlayerEnter ==
  LET id == Head(shardQ).id
  IN /\ ~ticking
     /\ shardQ # <<>>
     /\ Head(shardQ).kind = "PlayerEnter"
     /\ shardQ' = Tail(shardQ)
     /\ IF id \in chardata THEN Spawn(id) ELSE UNCHANGED <<world, fresh, changed>>
     /\ UNCHANGED <<sessions, chardata, playerTx, playerRx, txReaders, txClone,
                    queue, enters, ticking, loads, announces, spawnJob, moves,
                    moveJob>>

(* Mutant: writes bypass change detection. *)
WriteUnseen(ents, pos) ==
  /\ world' = [e \in DOMAIN world |->
                 IF e \in ents THEN [world[e] EXCEPT !.pos = pos] ELSE world[e]]
  /\ UNCHANGED changed

Write(ents, pos) ==
  /\ world' = [e \in DOMAIN world |->
                 IF e \in ents THEN [world[e] EXCEPT !.pos = pos] ELSE world[e]]
  /\ changed' = changed \cup ents

(* PlayerMove: the observer on_player_move writes every entity of the id. *)
OnPlayerMove ==
  LET msg == Head(shardQ)
  IN /\ ~ticking
     /\ shardQ # <<>>
     /\ msg.kind = "PlayerMove"
     /\ shardQ' = Tail(shardQ)
     /\ Write({e \in DOMAIN world : world[e].id = msg.id}, msg.pos)
     /\ UNCHANGED <<sessions, chardata, playerTx, playerRx, txReaders, txClone,
                    queue, enters, fresh, ticking, loads, announces, spawnJob,
                    moves, moveJob>>

(* The queue is empty and the schedule runs; a run that finds nothing
   changed does nothing and is left out, as are the iterations of the
   loops over players that have no message to send. *)
BeginTick ==
  /\ ~ticking
  /\ shardQ = <<>>
  /\ changed # {}
  /\ ticking' = TRUE
  /\ loads' = fresh
  /\ announces' = {p \in DOMAIN world : Others(fresh, world[p].id) # {}}
  /\ moves' = {p \in DOMAIN world : Others(changed, world[p].id) # {}}
  /\ UNCHANGED <<stateVars, world, fresh, changed, spawnJob, moveJob>>

(* player_spawn, first loop: a spawned player is sent its own data and then
   every entity of another id, through a clone of its sender. *)
LoadPlayer(p) ==
  LET id == world[p].id
      ch == playerTx[id]
  IN /\ IsFirst(p, loads)
     /\ spawnJob = Idle
     /\ loads' = loads \ {p}
     /\ Send(ch, [kind |-> "PlayerLoaded", id |-> id, pos |-> world[p].pos])
     /\ spawnJob' = Job(ch, Others(DOMAIN world, id))
     /\ txClone' = spawnJob'.ch
     /\ UNCHANGED <<sessions, chardata, playerTx, playerRx, txReaders, shardQ,
                    enters, world, fresh, changed, ticking, announces, moves,
                    moveJob>>

(* Mutant: a spawn is announced with the position of the database. *)
SendSpawnAtOrigin(ch, e, rest) ==
  /\ Send(ch, [kind |-> "EntitySpawn", id |-> world[e].id, pos |-> 0])
  /\ spawnJob' = Job(ch, rest)

(* A loop body sends the message about e, and has the entities of rest left:
   the system keeps its read lock on player_tx until it has none. *)
SendSpawn(ch, e, rest) ==
  /\ Send(ch, [kind |-> "EntitySpawn", id |-> world[e].id, pos |-> world[e].pos])
  /\ spawnJob' = Job(ch, rest)

SendMove(ch, e, rest) ==
  /\ Send(ch, [kind |-> "EntityMove", id |-> world[e].id, pos |-> world[e].pos])
  /\ moveJob' = Job(ch, rest)

Hold(system, job) == IF job = Idle THEN txReaders \ {system} ELSE txReaders \cup {system}

LoadNext(e) ==
  /\ txClone # None
  /\ IsFirst(e, spawnJob.ents)
  /\ SendSpawn(spawnJob.ch, e, spawnJob.ents \ {e})
  /\ txClone' = spawnJob'.ch
  /\ UNCHANGED <<sessions, chardata, playerTx, playerRx, txReaders, shardQ, enters,
                 world, fresh, changed, ticking, loads, announces, moves, moveJob>>

(* Mutant: the second loop does not wait for the first. *)
AnnouncesAtOnce == TRUE

FirstLoopDone == loads = {}

(* player_spawn, second loop: every player, the spawned ones included, is
   sent the spawned entities of other ids, under the read lock. *)
AnnounceTo(p) ==
  LET ents == Others(fresh, world[p].id)
  IN /\ IsFirst(p, announces)
     /\ FirstLoopDone
     /\ spawnJob = Idle
     /\ announces' = announces \ {p}
     /\ \E e \in ents :
          /\ IsFirst(e, ents)
          /\ SendSpawn(playerTx[world[p].id], e, ents \ {e})
     /\ txReaders' = Hold("player_spawn", spawnJob')
     /\ UNCHANGED <<sessions, chardata, playerTx, playerRx, txClone, shardQ, enters,
                    world, fresh, changed, ticking, loads, moves, moveJob>>

AnnounceNext(e) ==
  /\ txClone = None
  /\ IsFirst(e, spawnJob.ents)
  /\ SendSpawn(spawnJob.ch, e, spawnJob.ents \ {e})
  /\ txReaders' = Hold("player_spawn", spawnJob')
  /\ UNCHANGED <<sessions, chardata, playerTx, playerRx, txClone, shardQ, enters,
                 world, fresh, changed, ticking, loads, announces, moves, moveJob>>

(* entity_move: every player is sent the changed entities of other ids, under
   the read lock. *)
MoveFor(p) ==
  LET ents == Others(changed, world[p].id)
  IN /\ IsFirst(p, moves)
     /\ moveJob = Idle
     /\ moves' = moves \ {p}
     /\ \E e \in ents :
          /\ IsFirst(e, ents)
          /\ SendMove(playerTx[world[p].id], e, ents \ {e})
     /\ txReaders' = Hold("entity_move", moveJob')
     /\ UNCHANGED <<sessions, chardata, playerTx, playerRx, txClone, shardQ, enters,
                    world, fresh, changed, ticking, loads, announces, spawnJob>>

MoveNext(e) ==
  /\ IsFirst(e, moveJob.ents)
  /\ SendMove(moveJob.ch, e, moveJob.ents \ {e})
  /\ txReaders' = Hold("entity_move", moveJob')
  /\ UNCHANGED <<sessions, chardata, playerTx, playerRx, txClone, shardQ, enters,
                 world, fresh, changed, ticking, loads, announces, spawnJob, moves>>

(* Both systems are done, and the next run looks at later writes only. *)
EndTick ==
  /\ ticking
  /\ loads = {} /\ announces = {} /\ moves = {}
  /\ spawnJob = Idle /\ moveJob = Idle
  /\ ticking' = FALSE
  /\ fresh' = {}
  /\ changed' = {}
  /\ UNCHANGED <<stateVars, world, loads, announces, spawnJob, moves, moveJob>>
=============================================================================
