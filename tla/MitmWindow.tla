----------------------------- MODULE MitmWindow -----------------------------
(***************************************************************************)
(* The window of the tracing proxy (mitm_gui.rs), a thread of its own: it  *)
(* edits the shared settings, keeps a list of the packet events, saves the *)
(* settings on request and when it is closed.                              *)
(***************************************************************************)
EXTENDS MitmGuiState

CONSTANTS
  CLEAR_THRESHOLD,  \* 4000 events are kept,
  CLEAR_COUNT,      \* the oldest 1000 go when there are more
  Used,             \* what the user uses: lists, groups and buttons
  MaxClicks,        \* bound on clicks
  MaxGroup,         \* bound on the lists of a group
  None, Torn        \* no file; a file that was not written to its end

ASSUME WindowAssumption ==
  /\ CLEAR_COUNT \in Nat /\ CLEAR_THRESHOLD \in Nat /\ CLEAR_COUNT > 0
  /\ Used \subseteq Lists \cup Groups \cup {"pause", "clear", "pretty", "save", "close"}
  /\ MaxClicks \in Nat /\ MaxGroup \in Nat
  /\ Torn # None /\ Torn \notin Settings

VARIABLES
  window,   \* "open", "writing" or "renaming" a file, "closed", "down"
  packets,  \* App::packets
  draft,    \* the settings being saved
  file,     \* mitm-gui.toml
  tmp,      \* mitm-gui.toml.tmp
  clicks    \* clicks made

fileVars == <<draft, file, tmp>>
windowVars == <<window, packets, fileVars, clicks>>

WindowInit ==
  /\ window = "open"
  /\ packets = <<>>
  /\ draft = DefaultSettings
  /\ file = None /\ tmp = None
  /\ clicks = 0

-----------------------------------------------------------------------------
(* controls: a copy of the settings is edited and written back.  Nobody else
   writes them, and connections see them only before or after. *)

Click(what) ==
  /\ window = "open"
  /\ what \in Used
  /\ clicks < MaxClicks
  /\ clicks' = clicks + 1

Edit(what, new) ==
  /\ Click(what)
  /\ settings' = new
  /\ UNCHANGED <<window, packets, fileVars, missed, events, locked>>

Added(list, id) == Normalize(Append(list, id))

ClickAdd ==
  \E id \in Id :
    \/ \E l \in Lists :
         Edit(l, [settings EXCEPT ![l] = Added(@, id)])
    \/ \E g \in Groups : \E k \in DOMAIN settings[g] :
         Edit(g, [settings EXCEPT ![g][k].ids = Added(@, id)])

ClickRemove ==
  \/ \E l \in Lists : \E i \in DOMAIN settings[l] :
       Edit(l, [settings EXCEPT ![l] = RemoveAt(@, i)])
  \/ \E g \in Groups : \E k \in DOMAIN settings[g] :
       \/ Edit(g, [settings EXCEPT ![g] = RemoveAt(@, k)])
       \/ \E i \in DOMAIN settings[g][k].ids :
            Edit(g, [settings EXCEPT ![g][k].ids = RemoveAt(@, i)])

ClickAddGroup ==
  \E g \in Groups :
    /\ Len(settings[g]) < MaxGroup
    /\ Edit(g, [settings EXCEPT ![g] = Append(@, [ids |-> <<>>, on |-> FALSE])])

ClickEnable ==
  \E g \in Groups : \E k \in DOMAIN settings[g] :
    Edit(g, [settings EXCEPT ![g][k].on = ~@])

ClickPause == Edit("pause", [settings EXCEPT !.paused = ~@])

ClickClear ==
  /\ Click("clear")
  /\ packets # <<>>
  /\ packets' = <<>>
  /\ missed' = TRUE
  /\ UNCHANGED <<window, fileVars, settings, locked, events>>

(* Mutant: one event too many is kept. *)
TrimmedLate(list) ==
  IF Len(list) > CLEAR_THRESHOLD + 1
    THEN SubSeq(list, CLEAR_COUNT + 1, Len(list))
    ELSE list

(* A list that has become too long loses its oldest events. *)
Trimmed(list) ==
  IF Len(list) > CLEAR_THRESHOLD
    THEN SubSeq(list, CLEAR_COUNT + 1, Len(list))
    ELSE list

(* packet_list: an event is taken from the channel, and kept unless capturing
   is paused. *)
TakeEvent ==
  LET longer == Append(packets, Head(events))
  IN /\ window = "open" /\ events # <<>>
     /\ events' = Tail(events)
     /\ packets' = IF settings.paused THEN packets ELSE Trimmed(longer)
     /\ missed' = (missed \/ packets' # longer)
     /\ UNCHANGED <<window, fileVars, clicks, settings, locked>>

-----------------------------------------------------------------------------
(* Saving: the settings are written to a second file, which then takes the
   first one's name. *)

(* The button normalises the copy, and it becomes the settings when saved. *)
ClickSave ==
  /\ Click("save")
  /\ draft' = NormalizeAll(settings)
  /\ window' = "writing"
  /\ UNCHANGED <<packets, file, tmp, guiVars>>

(* on_exit saves the settings as they are and keeps them locked meanwhile. *)
CloseWindow ==
  /\ Click("close")
  /\ draft' = settings
  /\ window' = "writing"
  /\ locked' = TRUE
  /\ UNCHANGED <<packets, file, tmp, missed, settings, events>>

(* After saving, the button's frame goes on and a closed window ends. *)
EndSave ==
  /\ window' = IF locked THEN "closed" ELSE "open"
  /\ settings' = IF locked THEN settings ELSE draft
  /\ locked' = FALSE

WriteTmp ==
  /\ window = "writing"
  /\ \/ tmp' = draft /\ window' = "renaming" /\ UNCHANGED <<settings, locked>>
     \/ tmp' = Torn /\ EndSave
  /\ UNCHANGED <<packets, draft, file, clicks, missed, events>>

(* Mutant: the name is taken over also when writing failed. *)
RenameTorn ==
  /\ window \in {"writing", "renaming"}
  /\ file' = IF window = "writing" THEN Torn ELSE tmp
  /\ tmp' = None
  /\ EndSave
  /\ UNCHANGED <<packets, draft, clicks, missed, events>>

Rename ==
  /\ window = "renaming"
  /\ \/ file' = tmp /\ tmp' = None
     \/ UNCHANGED <<file, tmp>>
  /\ EndSave
  /\ UNCHANGED <<packets, draft, clicks, missed, events>>

SaveStep == WriteTmp \/ Rename

WindowNext ==
  \/ ClickAdd \/ ClickRemove \/ ClickAddGroup \/ ClickEnable
  \/ ClickPause \/ ClickClear \/ ClickSave \/ CloseWindow
  \/ TakeEvent
  \/ SaveStep
=============================================================================
