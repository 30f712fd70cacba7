---------------------------- MODULE MCGameServer ----------------------------
(***************************************************************************)
(* GameServer on small instances: up to three clients and the accounts of  *)
(* MockDatabase.  Runs that are about play start with the login behind     *)
(* them, or with some players already in the world and everything settled. *)
(***************************************************************************)
EXTENDS GameServer, TLC

CONSTANTS c1, c2, c3, s1, s2

nik == 6
sam == 19

MCAccount == {"nik", "sam", "lev", "nobody"}
MCTwo == {nik, sam}
MCCharsOf == [a \in {"nik", "sam"} |-> IF a = "nik" THEN <<nik>> ELSE <<sam>>]
MCOneAccount == [a \in {"nik"} |-> <<nik, sam>>]
MCOneLocation == [id \in Char |-> 25565]

(* A database with what MockDatabase has not: a second slot, a character that
   is listed but not stored, and one in a location without a thread. *)
far == 51
lost == 99
MCOdd == {nik, far, lost}
MCOddCharsOf ==
  [a \in {"nik", "lev"} |-> IF a = "nik" THEN <<nik, far>> ELSE <<nik, lost>>]
MCOddLocation == [id \in {nik, far} |-> IF id = nik THEN 25565 ELSE 1]

(* c2 is sam's and the others are nik's; with one session all of them have
   the one account. *)
CharOf(c) == IF c = c2 THEN sam ELSE nik
SessionOf(c) == IF c = c2 /\ s2 \in Session THEN s2 ELSE s1
AccountOf(s) == IF s = s1 THEN "nik" ELSE "sam"

(* Every session is in use, and each connection has been sent the list of its
   account.  The connections listed have entered, in that order. *)
Settled(entered) ==
  LET players == {entered[k] : k \in DOMAIN entered}
      Number(id) == CHOOSE k \in DOMAIN entered :
                      /\ CharOf(entered[k]) = id
                      /\ \A j \in DOMAIN entered : CharOf(entered[j]) = id => j <= k
      inside  == {CharOf(c) : c \in players}
      chan    == [id \in Char |-> IF id \in inside THEN <<id, Number(id)>> ELSE None]
      others  == [c \in Conn |-> IF c \in players THEN inside \ {CharOf(c)} ELSE {}]
  IN /\ sessions = [s \in Session |-> AccountOf(s)]
     /\ chardata = Char
     /\ playerTx = chan
     /\ playerRx = chan
     /\ txReaders = {}
     /\ txClone = None
     /\ queue = [ch \in Chan |-> <<>>]
     /\ shardQ = <<>>
     /\ enters = Len(entered)
     /\ listed = [c \in Conn |-> {id \in Char : \E k \in DOMAIN SlotsOf(SessionOf(c)) :
                                              SlotsOf(SessionOf(c))[k] = id}]
     /\ loaded = [c \in Conn |-> IF c \in players THEN CharOf(c) ELSE None]
     /\ spawned = others
     /\ view = [c \in Conn |->
                  [id \in Char |-> IF id \in others[c] THEN 0 ELSE None]]
     /\ walked = [id \in Char |-> 0]
     /\ steps = 0
     /\ pc = [c \in Conn |-> "ready"]
     /\ session = [c \in Conn |-> SessionOf(c)]
     /\ character = loaded
     /\ shard = [c \in Conn |-> IF c \in players THEN ShardLocation ELSE None]
     /\ channel = [c \in Conn |-> IF c \in players THEN chan[CharOf(c)] ELSE None]
     /\ rx = [c \in Conn |-> None]
     /\ world = [k \in DOMAIN entered |-> [id |-> CharOf(entered[k]), pos |-> 0]]
     /\ fresh = {}
     /\ changed = {}
     /\ ticking = FALSE
     /\ loads = {}
     /\ announces = {}
     /\ spawnJob = Idle
     /\ moves = {}
     /\ moveJob = Idle

LoggedInSpec == Settled(<<>>) /\ [][Next]_vars

FairLoggedInSpec == LoggedInSpec /\ Fairness

FairPlayingSpec == Settled(<<c1, c2>>) /\ [][Next]_vars /\ Fairness

(* Three entries are over, by two characters or by one. *)
GhostSpec ==
  (Settled(<<c1, c2, c2>>) \/ Settled(<<c2, c2, c2>>)) /\ [][Next]_vars
=============================================================================
