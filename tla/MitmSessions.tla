---------------------------- MODULE MitmSessions ----------------------------
(***************************************************************************)
(* The window over several runs of the program: it is started, may crash   *)
(* at any moment or be closed, and is started again with the settings the  *)
(* file has.  Of the connections only the events are left.                 *)
(***************************************************************************)
EXTENDS MitmWindow, PacketView

CONSTANTS
  Traced,    \* what connections trace: packets, each with its source
  MaxEvents  \* bound on the packet events of one run

ASSUME SessionAssumption ==
  /\ Traced \subseteq [source : Source, packet : Packet]
  /\ MaxEvents \in Nat
  /\ Ascending(DefaultSettings.highlight)

VARIABLE captured   \* events sent in this run of the program

vars == <<guiVars, windowVars, captured>>

(* Settings::load: a file that cannot be read gives the defaults. *)
Loaded == IF file \in {None, Torn} THEN DefaultSettings ELSE file

Init == GuiInit /\ WindowInit /\ captured = 0

(* A connection tells of a packet, dissected into one line. *)
Capture ==
  /\ window # "down" /\ ~locked
  /\ captured < MaxEvents
  /\ captured' = captured + 1
  /\ \E t \in Traced :
       TrySend([n |-> captured + 1, of |-> t, view |-> Dissect(t.source, t.packet, FALSE)])
  /\ UNCHANGED <<windowVars, settings, locked>>

(* The click on a packet of the list: one line or many. *)
ClickPretty ==
  /\ Click("pretty")
  /\ \E k \in DOMAIN packets :
       packets' = [packets EXCEPT ![k].view = Redissect(@, ~@.pretty)]
  /\ UNCHANGED <<window, fileVars, guiVars>>

(* A crash, or the end of the program: whatever is not in a file is gone, and a
   file that is being written is cut. *)
Crash ==
  /\ window # "down"
  /\ window' = "down"
  /\ tmp' = IF window = "writing" THEN Torn ELSE tmp
  /\ packets' = <<>> /\ events' = <<>>
  /\ locked' = FALSE /\ missed' = FALSE /\ captured' = 0
  /\ UNCHANGED <<draft, file, clicks, settings>>

(* start: the settings are loaded before the window opens. *)
Start ==
  /\ window = "down"
  /\ window' = "open"
  /\ settings' = Loaded
  /\ UNCHANGED <<packets, fileVars, clicks, missed, events, locked, captured>>

Next ==
  \/ (WindowNext \/ ClickPretty) /\ UNCHANGED captured
  \/ Capture
  \/ Crash
  \/ Start

Spec == Init /\ [][Next]_vars

-----------------------------------------------------------------------------
Exact(list) == \A id \in Id : Finds(list, id) <=> id \in Range(list)

(* The settings and the file have their types, the list and the channel their
   limits. *)
TypeOK ==
  /\ settings \in Settings /\ draft \in Settings
  /\ file \in Settings \cup {None, Torn} /\ tmp \in Settings \cup {None, Torn}
  /\ window \in {"open", "writing", "renaming", "closed", "down"}
  /\ locked => window \in {"writing", "renaming"}
  /\ Len(packets) <= CLEAR_THRESHOLD /\ Len(events) <= EVENT_CAPACITY

(* mitm_gui.rs:97: the highlight list is searched by halving, which presumes
   that it is sorted.  It begins empty, and stays sorted over all clicks, saves,
   crashes and starts: every id of it is found. *)
HighlightExact == Exact(settings.highlight)

(* mitm_gui.rs:46: the ids the collapse list names are collapsed. *)
CollapseExact == Exact(settings.collapse)

(* A list in order stays so as long as the program runs, and the button that
   saves makes every list exact, in the window and in the file. *)
Tidied ==
  [][\A l \in Lists :
       /\ window # "down" /\ Ascending(settings[l]) => Ascending(settings'[l])
       /\ ~locked /\ window = "renaming" /\ window' = "open" =>
            /\ Exact(settings'[l])
            /\ file' # file => Exact(file'[l])]_vars

(* mitm_gui.rs:91: a crash at any moment of a save leaves the settings of an
   earlier save, never a part of a file. *)
FileNeverTorn == file # Torn

(* The list holds the events of this run in order, and while nothing was
   missed the list and the channel together hold all of them. *)
ListInOrder ==
  LET known == packets \o events
  IN /\ \A k \in 1 .. Len(known) - 1 : known[k].n < known[k + 1].n
     /\ ~missed => [k \in DOMAIN known |-> known[k].n] = [k \in 1 .. captured |-> k]

(* packet_view.rs:34: a view is made anew from itself, not from what was
   traced.  However often the user switches, and whatever left the list
   meanwhile, it is the view of the packet that was traced. *)
ViewOfTraced ==
  \A k \in DOMAIN packets :
    LET e == packets[k]
    IN e.view = Dissect(e.of.source, e.of.packet, e.view.pretty)
=============================================================================
