---------------------------- MODULE ServerState ----------------------------
(***************************************************************************)
(* What the tasks of the game server share (server/state/mod.rs): the      *)
(* login sessions, the character data in memory, the two registries that   *)
(* hold the ends of every character's message channel, the channels        *)
(* themselves and the queue into the location thread.                      *)
(*                                                                         *)
(* A channel is named by its owner and the number of the EnterWorldRequest *)
(* that made it; the sender in player_tx, the receiver in player_rx and    *)
(* the clones tasks hold all carry that name.                              *)
(***************************************************************************)
EXTENDS Naturals, Sequences

CONSTANTS
  Conn,           \* TCP connections, one connection_proc task each
  Session,        \* the random u64 session keys
  Account,        \* account names a client may send
  Char,           \* ids of characters
  Index,          \* character list positions a client may send, from 0
  CharsOf,        \* Database::get_characters: known account -> ids, in slots
  CharLocation,   \* Database::read_character: stored id -> its location
  ShardLocation,  \* the location whose thread Server::init starts
  MaxEnters,      \* bound: world entries of all connections together
  MaxMoves,       \* bound: movements of all characters together
  None            \* an absent value

ASSUME BoundsAssumption ==
  /\ MaxEnters \in Nat
  /\ MaxMoves \in Nat

ASSUME DatabaseAssumption ==
  /\ Char \subseteq Nat \ {0}
  /\ DOMAIN CharsOf \subseteq Account
  /\ \A a \in DOMAIN CharsOf : CharsOf[a] \in Seq(Char \cup {0})
  /\ DOMAIN CharLocation \subseteq Char
  /\ Index \subseteq Nat

Chan == Char \X (1 .. MaxEnters)

Owner(ch) == ch[1]

ASSUME NoneAssumption ==
  /\ None # ShardLocation
  /\ None \notin Chan
  /\ None \notin Nat
  /\ None \notin Session
  /\ None \notin Account

Coord == 0 .. MaxMoves   \* 0: the position in the database; n: where the n-th move led

PlayerMsg ==      \* MessageFromShardKind
  [kind : {"PlayerLoaded", "EntitySpawn", "EntityMove"}, id : Char, pos : Coord]

ShardMsg ==       \* MessageForShard
  [kind : {"PlayerEnter"}, id : Char]
    \cup [kind : {"PlayerMove"}, id : Char, pos : Coord]

VARIABLES
  sessions,       \* account of every session in use
  chardata,       \* ids of the characters in memory
  playerTx,       \* sender registered for a character
  playerRx,       \* receiver registered for a character
  txReaders,      \* shard systems that hold player_tx's read lock
  txClone,        \* the sender player_spawn cloned out of player_tx
  queue,          \* messages in each character channel
  shardQ,         \* messages in the location's channel
  enters          \* channels made so far

stateVars ==
  <<sessions, chardata, playerTx, playerRx, txReaders, txClone, queue, shardQ,
    enters>>

StateTypeOK ==
  /\ sessions \in [Session -> Account \cup {None}]
  /\ chardata \subseteq DOMAIN CharLocation
  /\ playerTx \in [Char -> Chan \cup {None}]
  /\ playerRx \in [Char -> Chan \cup {None}]
  /\ txReaders \subseteq {"player_spawn", "entity_move"}
  /\ txClone \in Chan \cup {None}
  /\ queue \in [Chan -> Seq(PlayerMsg)]
  /\ shardQ \in Seq(ShardMsg)
  /\ enters \in 0 .. MaxEnters

StateInit ==
  /\ sessions = [s \in Session |-> None]
  /\ chardata = {}
  /\ playerTx = [id \in Char |-> None]
  /\ playerRx = [id \in Char |-> None]
  /\ txReaders = {}
  /\ txClone = None
  /\ queue = [ch \in Chan |-> <<>>]
  /\ shardQ = <<>>
  /\ enters = 0

(* flume: a sender never blocks; what is sent to a channel without receivers
   is never read.  Nothing is sent for a character without a sender. *)
Send(ch, msg) ==
  queue' = IF ch = None THEN queue ELSE [queue EXCEPT ![ch] = Append(@, msg)]

(* flume: receivers of an empty channel wait while a sender of it lives. *)
SenderAlive(ch) == playerTx[Owner(ch)] = ch \/ txClone = ch
=============================================================================
