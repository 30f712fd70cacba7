----------------------------- MODULE GameClient -----------------------------
(***************************************************************************)
(* The game clients at the far end of the connections: what the server     *)
(* has told each of them, and which packets they may send.  The client is  *)
(* not part of the repository; Discipline says how much of the original    *)
(* client's order of packets is assumed:                                   *)
(*   "any"      every packet in every order;                               *)
(*   "relogin"  a client picks characters from a list it was sent, enters  *)
(*              once per connection, and takes a character again only      *)
(*              after the server saw its former connection end;            *)
(*   "single"   as "relogin", and no character enters a second time.       *)
(***************************************************************************)
EXTENDS ServerState

CONSTANT Discipline

ASSUME DisciplineAssumption == Discipline \in {"any", "relogin", "single"}

VARIABLES
  listed,   \* characters in the CharLists sent to the client
  loaded,   \* the character of the PlayerData last sent to it, or None
  spawned,  \* characters whose Entity packet was sent to it
  view,     \* the coordinates it was last sent of each other character
  walked,   \* the coordinates last sent by the clients of a character
  steps     \* the movements sent so far

clientVars == <<listed, loaded, spawned, view, walked, steps>>

ClientTypeOK ==
  /\ listed \in [Conn -> SUBSET Char]
  /\ loaded \in [Conn -> Char \cup {None}]
  /\ spawned \in [Conn -> SUBSET Char]
  /\ view \in [Conn -> [Char -> Coord \cup {None}]]
  /\ walked \in [Char -> Coord]
  /\ steps \in Coord

ClientInit ==
  /\ listed = [c \in Conn |-> {}]
  /\ loaded = [c \in Conn |-> None]
  /\ spawned = [c \in Conn |-> {}]
  /\ view = [c \in Conn |-> [id \in Char |-> None]]
  /\ walked = [id \in Char |-> 0]
  /\ steps = 0

(* The packets recv_from_shard makes of a message reach the client. *)
ShowMessage(c, msg) ==
  /\ loaded' = IF msg.kind = "PlayerLoaded"
                 THEN [loaded EXCEPT ![c] = msg.id] ELSE loaded
  /\ spawned' = IF msg.kind = "EntitySpawn"
                  THEN [spawned EXCEPT ![c] = @ \cup {msg.id}] ELSE spawned
  /\ view' = IF msg.kind = "PlayerLoaded"
               THEN view ELSE [view EXCEPT ![c][msg.id] = msg.pos]
  /\ UNCHANGED <<listed, walked, steps>>
=============================================================================
