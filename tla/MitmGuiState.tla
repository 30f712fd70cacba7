---------------------------- MODULE MitmGuiState ----------------------------
(***************************************************************************)
(* What the proxied connections and the window share (MitmGuiState in      *)
(* mitm_gui.rs): the settings behind a mutex and a bounded channel of      *)
(* packet events; and the operations of Settings.                          *)
(***************************************************************************)
EXTENDS Naturals, Sequences, FiniteSets, Functions, SequencesExt

CONSTANTS
  Id,              \* packet ids
  DefaultSettings, \* Settings::default
  EVENT_CAPACITY   \* of the channel: 8192

(* Lists the window looks ids up in, and groups of lists that can be switched
   on one by one. *)
Lists == {"collapse", "highlight"}

Groups == {"drop", "mask", "hide"}

IdList == [ids : Seq(Id), on : BOOLEAN]

Settings ==
  [collapse : Seq(Id), highlight : Seq(Id),
   drop : Seq(IdList), mask : Seq(IdList), hide : Seq(IdList), paused : BOOLEAN]

ASSUME GuiStateAssumption ==
  /\ Id \subseteq Nat /\ EVENT_CAPACITY \in Nat
  /\ DefaultSettings \in Settings

VARIABLES
  settings,  \* the shared settings
  locked,    \* whether the window holds their mutex for longer than a copy
  events,    \* the event channel
  missed     \* whether an event that was sent is in no list any more

guiVars == <<settings, locked, events, missed>>

-----------------------------------------------------------------------------
(* A round of slice::binary_search: half of a range is left. *)
Halved(list, id, range) ==
  LET half == range.size \div 2
  IN IF range.size <= 1
       THEN range
       ELSE [base |-> IF list[range.base + half] > id THEN range.base ELSE range.base + half,
             size |-> range.size - half]

(* Settings::contains: halve until one element is left, then compare. *)
Finds(list, id) ==
  LET left[n \in 0 .. Len(list)] ==
        IF n = 0
          THEN [base |-> 1, size |-> Len(list)]
          ELSE Halved(list, id, left[n - 1])
  IN list # <<>> /\ list[left[Len(list)].base] = id

(* In order, each id once. *)
Ascending(list) == \A j, k \in DOMAIN list : j < k => list[j] < list[k]

(* Mutant: lists are not sorted. *)
NormalizeNothing(list) == list

(* Settings::normalize: sort, then remove repetitions. *)
Normalize(list) ==
  CHOOSE sorted \in [1 .. Cardinality(Range(list)) -> Range(list)] :
    Ascending(sorted) /\ Range(sorted) = Range(list)

NormalizeGroup(group) ==
  [k \in DOMAIN group |-> [group[k] EXCEPT !.ids = Normalize(@)]]

(* Mutant: the lists are saved as they are. *)
NormalizeNone(s) == s

NormalizeAll(s) ==
  [collapse |-> Normalize(s.collapse), highlight |-> Normalize(s.highlight),
   drop |-> NormalizeGroup(s.drop), mask |-> NormalizeGroup(s.mask),
   hide |-> NormalizeGroup(s.hide), paused |-> s.paused]

InGroup(group, id) == \E k \in DOMAIN group : group[k].on /\ id \in Range(group[k].ids)

ShouldDrop(s, id) == InGroup(s.drop, id)

-----------------------------------------------------------------------------
(* Mutant: an event that does not fit replaces the last one. *)
TrySendOver(event) ==
  /\ events' = Append(IF Len(events) < EVENT_CAPACITY THEN events ELSE Front(events), event)
  /\ UNCHANGED missed

(* Mutant: a task waits for room in the channel. *)
SendBlocking(event) ==
  /\ Len(events) < EVENT_CAPACITY
  /\ events' = Append(events, event)
  /\ UNCHANGED missed

(* Mutant: the channel has no limit. *)
SendUnbounded(event) ==
  /\ events' = Append(events, event)
  /\ UNCHANGED missed

(* flume's try_send: an event that does not fit is dropped. *)
TrySend(event) ==
  \/ /\ Len(events) < EVENT_CAPACITY
     /\ events' = Append(events, event)
     /\ UNCHANGED missed
  \/ /\ Len(events) >= EVENT_CAPACITY
     /\ missed' = TRUE
     /\ UNCHANGED events

GuiInit ==
  /\ settings = DefaultSettings
  /\ locked = FALSE
  /\ events = <<>>
  /\ missed = FALSE
=============================================================================
