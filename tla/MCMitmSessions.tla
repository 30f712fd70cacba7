--------------------------- MODULE MCMitmSessions ---------------------------
(***************************************************************************)
(* The window with three packet ids; 3 is GuildAvatar and 1 ServerVars,    *)
(* which Settings::default names in this order.  Connections trace packets *)
(* that a layout reads or a guess does, and one packed twice.              *)
(***************************************************************************)
EXTENDS MitmSessions

CONSTANTS
  named, compressed, compressed2, unknown,
  MaxWork  \* bound on clicks and events together

MCDefault ==
  [collapse |-> <<3, 1>>, highlight |-> <<>>,
   drop |-> <<>>, mask |-> <<>>, hide |-> <<[ids |-> <<2>>, on |-> TRUE]>>,
   paused |-> FALSE]

Bytes(id, fits, guess) == [id |-> id, fits |-> fits, guess |-> guess, inside |-> <<>>]

Packed(id, content) == [id |-> id, fits |-> TRUE, guess |-> FALSE, inside |-> content]

MCTraced ==
  {[source |-> "Client", packet |-> Bytes(unknown, FALSE, TRUE)],
   [source |-> "Server",
    packet |-> Packed(compressed2, Packed(compressed, Bytes(named, FALSE, TRUE)))]}

BoundedNext == Next /\ clicks' + captured' <= MaxWork

BoundedSpec == Init /\ [][BoundedNext]_vars
=============================================================================
