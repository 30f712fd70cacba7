--------------------------- MODULE SettingsProofs ---------------------------
(***************************************************************************)
(* Lemmas about the window of the tracer and the settings it shares, for   *)
(* the proofs about both compositions it is part of: sequences that are    *)
(* queues, Settings::normalize, and what an edit keeps.                    *)
(***************************************************************************)
EXTENDS MitmWindow, SetInduction, SequenceTheorems, TLAPS

(* Two sequences after each other: the channel behind the list. *)
LEMMA Joined ==
  ASSUME NEW R, NEW s \in Seq(R), NEW t \in Seq(R), NEW u, u = s \o t
  PROVE  /\ u \in Seq(R)
         /\ Len(u) = Len(s) + Len(t)
         /\ \A k \in 1 .. Len(s) : u[k] = s[k]
         /\ \A k \in 1 .. Len(t) : u[Len(s) + k] = t[k]
OBVIOUS

(* A sequence with one more element. *)
LEMMA Appended ==
  ASSUME NEW R, NEW s \in Seq(R), NEW e \in R, NEW u, u = Append(s, e)
  PROVE  /\ u \in Seq(R)
         /\ Len(u) = Len(s) + 1
         /\ u[Len(s) + 1] = e
         /\ \A k \in 1 .. Len(s) : u[k] = s[k]
OBVIOUS

(* A further event of the channel is a further one of both. *)
LEMMA JoinedAppend ==
  ASSUME NEW R, NEW s \in Seq(R), NEW t \in Seq(R), NEW e \in R
  PROVE  s \o Append(t, e) = Append(s \o t, e)
<1> PICK r : r = Append(t, e)
  OBVIOUS
<1>1. /\ r \in Seq(R)
      /\ Len(r) = Len(t) + 1 /\ r[Len(t) + 1] = e
      /\ \A k \in 1 .. Len(t) : r[k] = t[k]
  BY Appended
<1> PICK v : v = s \o t
  OBVIOUS
<1>5. /\ v \in Seq(R)
      /\ Len(v) = Len(s) + Len(t)
      /\ \A k \in 1 .. Len(s) : v[k] = s[k]
      /\ \A k \in 1 .. Len(t) : v[Len(s) + k] = t[k]
  BY Joined
<1> PICK u : u = s \o r
  OBVIOUS
<1>6. /\ u \in Seq(R)
      /\ Len(u) = Len(s) + Len(r)
      /\ \A k \in 1 .. Len(s) : u[k] = s[k]
      /\ \A k \in 1 .. Len(r) : u[Len(s) + k] = r[k]
  BY Joined
<1> PICK w : w = Append(v, e)
  OBVIOUS
<1>2. /\ w \in Seq(R)
      /\ Len(w) = Len(v) + 1 /\ w[Len(v) + 1] = e
      /\ \A k \in 1 .. Len(v) : w[k] = v[k]
  BY Appended
<1>3. Len(u) = Len(w)
  BY <1>1, <1>2, <1>5, <1>6
<1>4. ASSUME NEW k \in 1 .. Len(u) PROVE u[k] = w[k]
  <2>1. CASE k \in 1 .. Len(s)
    BY <1>2, <1>5, <1>6, <2>1
  <2>2. CASE k \notin 1 .. Len(s)
    <3>1. PICK p \in 1 .. Len(t) + 1 : k = Len(s) + p
      <4>1. k - Len(s) \in 1 .. Len(t) + 1 /\ k = Len(s) + (k - Len(s))
        BY <1>1, <1>6, <2>2
      <4> QED
        BY <4>1
    <3>2. u[k] = r[p]
      BY <1>1, <1>6, <3>1
    <3>3. CASE p \in 1 .. Len(t)
      <4>1. v[k] = t[p] /\ k \in 1 .. Len(v)
        BY <1>5, <3>1, <3>3
      <4> QED
        BY <1>1, <1>2, <3>2, <3>3, <4>1
    <3>4. CASE p = Len(t) + 1
      <4>1. k = Len(v) + 1
        BY <1>5, <3>1, <3>4
      <4> QED
        BY <1>1, <1>2, <3>2, <3>4, <4>1
    <3>5. p \in 1 .. Len(t) \/ p = Len(t) + 1
      OBVIOUS
    <3> QED
      BY <3>3, <3>4, <3>5
  <2> QED
    BY <2>1, <2>2
<1>7. u = w
  BY <1>3, <1>4, SeqEqual
<1> QED
  BY <1>1, <1>2, <1>5, <1>6, <1>7, Zenon

(* Without its first n elements. *)
LEMMA Shortened ==
  ASSUME NEW R, NEW s \in Seq(R), NEW n \in Nat, NEW u, u = SubSeq(s, n + 1, Len(s))
  PROVE  /\ u \in Seq(R)
         /\ Len(u) = IF n <= Len(s) THEN Len(s) - n ELSE 0
         /\ \A k \in 1 .. Len(u) : n + k \in 1 .. Len(s) /\ u[k] = s[n + k]
OBVIOUS

(* Tail: without its first. *)
LEMMA Behind ==
  ASSUME NEW R, NEW s \in Seq(R), s # <<>>, NEW u, u = Tail(s)
  PROVE  /\ u \in Seq(R) /\ Head(s) \in R
         /\ Len(s) \in Nat /\ Len(s) > 0 /\ Len(u) = Len(s) - 1
         /\ Head(s) = s[1]
         /\ \A k \in 1 .. Len(u) : u[k] = s[k + 1]
OBVIOUS

(* An event that goes from the channel to the list stays where it is in both. *)
LEMMA Moved ==
  ASSUME NEW R, NEW s \in Seq(R), NEW t \in Seq(R), t # <<>>
  PROVE  Append(s, Head(t)) \o Tail(t) = s \o t
<1> PICK r : r = Tail(t)
  OBVIOUS
<1>1. /\ r \in Seq(R) /\ Head(t) \in R
      /\ Len(t) \in Nat /\ Len(t) > 0 /\ Len(r) = Len(t) - 1
      /\ Head(t) = t[1]
      /\ \A k \in 1 .. Len(r) : r[k] = t[k + 1]
  BY Behind
<1> PICK a : a = Append(s, Head(t))
  OBVIOUS
<1>2. /\ a \in Seq(R) /\ Len(a) = Len(s) + 1 /\ a[Len(s) + 1] = t[1]
      /\ \A k \in 1 .. Len(s) : a[k] = s[k]
  BY <1>1, Appended
<1> PICK u : u = a \o r
  OBVIOUS
<1>3. /\ u \in Seq(R) /\ Len(u) = Len(a) + Len(r)
      /\ \A k \in 1 .. Len(a) : u[k] = a[k]
      /\ \A k \in 1 .. Len(r) : u[Len(a) + k] = r[k]
  BY <1>1, <1>2, Joined
<1> PICK w : w = s \o t
  OBVIOUS
<1>4. /\ w \in Seq(R) /\ Len(w) = Len(s) + Len(t)
      /\ \A k \in 1 .. Len(s) : w[k] = s[k]
      /\ \A k \in 1 .. Len(t) : w[Len(s) + k] = t[k]
  BY Joined
<1>5. Len(u) = Len(w)
  BY <1>1, <1>2, <1>3, <1>4
<1>6. ASSUME NEW k \in 1 .. Len(u) PROVE u[k] = w[k]
  <2>1. CASE k \in 1 .. Len(s)
    BY <1>2, <1>3, <1>4, <2>1
  <2>2. CASE k = Len(s) + 1
    BY <1>1, <1>2, <1>3, <1>4, <2>2
  <2>3. CASE k > Len(s) + 1
    <3>1. PICK p \in 1 .. Len(r) : k = Len(a) + p /\ k = Len(s) + (p + 1)
      <4>1. /\ k - Len(a) \in 1 .. Len(r) /\ k = Len(a) + (k - Len(a))
            /\ k = Len(s) + (k - Len(a) + 1)
        BY <1>1, <1>2, <1>3, <2>3
      <4> QED
        BY <4>1
    <3>2. u[k] = t[p + 1]
      BY <1>1, <1>3, <3>1
    <3>3. p + 1 \in 1 .. Len(t)
      BY <1>1, <3>1
    <3>4. w[k] = t[p + 1]
      BY <1>4, <3>1, <3>3
    <3> QED
      BY <3>2, <3>4
  <2>4. k \in 1 .. Len(s) \/ k = Len(s) + 1 \/ k > Len(s) + 1
    BY <1>5
  <2> QED
    BY <2>1, <2>2, <2>3, <2>4
<1>7. u = w
  BY <1>3, <1>4, <1>5, <1>6, SeqEqual
<1> QED
  BY <1>7

-----------------------------------------------------------------------------
(* The members of a list: finitely many. *)
LEMMA RangeFinite ==
  ASSUME NEW R, NEW s \in Seq(R)
  PROVE  Range(s) \subseteq R /\ IsFiniteSet(Range(s))
<1>1. DOMAIN s = 1 .. Len(s) /\ \A k \in 1 .. Len(s) : s[k] \in R
  OBVIOUS
<1>2. IsFiniteSet(1 .. Len(s))
  BY FS_Interval
<1>3. s \in Surjection(1 .. Len(s), Range(s))
  <2>1. s \in [1 .. Len(s) -> Range(s)]
    BY <1>1 DEF Range
  <2>2. \A x \in Range(s) : \E k \in 1 .. Len(s) : s[k] = x
    BY <1>1 DEF Range
  <2> QED
    BY <2>1, <2>2 DEF Surjection
<1>4. IsFiniteSet(Range(s))
  BY <1>2, <1>3, FS_Surjection
<1> QED
  BY <1>1, <1>4 DEF Range

(* Settings::normalize: the ids stay, in order, each once. *)
LEMMA Normalized ==
  ASSUME NEW list \in Seq(Id)
  PROVE  /\ Normalize(list) \in Seq(Id)
         /\ Ascending(Normalize(list))
         /\ Range(Normalize(list)) = Range(list)
<1> PICK ids : ids = Range(list)
  OBVIOUS
<1>1. ids \subseteq Id /\ IsFiniteSet(ids) /\ ids \subseteq Nat
  BY RangeFinite, GuiStateAssumption
<1> PICK n \in Nat : n = Cardinality(ids)
  BY <1>1, FS_CardinalityType
<1>2. PICK s \in [1 .. n -> ids] : Ascending(s) /\ Range(s) = ids
  <2>1. PICK s \in [1 .. n -> ids] :
          /\ \A j, k \in 1 .. n : j < k => s[j] < s[k]
          /\ \A x \in ids : \E k \in 1 .. n : s[k] = x
    BY <1>1, SortedList
  <2>2. Ascending(s)
    BY <2>1 DEF Ascending
  <2>3. Range(s) = ids
    <3>1. DOMAIN s = 1 .. n
      OBVIOUS
    <3>2. \A x : x \in ids <=> \E k \in 1 .. n : s[k] = x
      BY <2>1
    <3> QED
      BY <3>1, <3>2 DEF Range
  <2> QED
    BY <2>2, <2>3
<1>3. PICK t : t = Normalize(list)
  OBVIOUS
<1>4. t \in [1 .. n -> ids] /\ Ascending(t) /\ Range(t) = ids
  <2>1. t = CHOOSE u \in [1 .. n -> ids] : Ascending(u) /\ Range(u) = ids
    BY <1>3 DEF Normalize
  <2> QED
    BY <1>2, <2>1, Zenon
<1>5. t \in Seq(Id)
  <2>1. t \in [1 .. n -> Id]
    BY <1>1, <1>4
  <2> QED
    BY <2>1
<1> QED
  BY <1>3, <1>4, <1>5, Zenon

(* A list without one of its elements is in order if the list is. *)
LEMMA RemovedKeeps ==
  ASSUME NEW R, NEW list \in Seq(R), NEW i \in DOMAIN list
  PROVE  /\ RemoveAt(list, i) \in Seq(R)
         /\ Ascending(list) => Ascending(RemoveAt(list, i))
<1>1. i \in 1 .. Len(list) /\ Len(list) \in Nat /\ \A k \in 1 .. Len(list) : list[k] \in R
  OBVIOUS
<1>7. PICK a : a = SubSeq(list, 1, i - 1)
  OBVIOUS
<1>8. PICK b : b = SubSeq(list, i + 1, Len(list))
  OBVIOUS
<1>2. /\ a \in Seq(R) /\ Len(a) = i - 1
      /\ \A k \in 1 .. i - 1 : a[k] = list[k]
  BY <1>1, <1>7
<1>3. /\ b \in Seq(R) /\ Len(b) = Len(list) - i
      /\ \A k \in 1 .. Len(list) - i : b[k] = list[i + k]
  BY <1>1, <1>8
<1>9. PICK u : u = RemoveAt(list, i)
  OBVIOUS
<1>4. /\ u \in Seq(R) /\ Len(u) = Len(a) + Len(b)
      /\ \A k \in 1 .. Len(a) : u[k] = a[k]
      /\ \A k \in 1 .. Len(b) : u[Len(a) + k] = b[k]
  <2>1. u = a \o b
    BY <1>7, <1>8, <1>9 DEF RemoveAt
  <2> QED
    <3>1. a \in Seq(R) /\ b \in Seq(R)
      BY <1>2, <1>3
    <3> QED
      BY <2>1, <3>1, Joined
<1>5. /\ u \in Seq(R) /\ Len(u) = Len(list) - 1
      /\ \A k \in 1 .. Len(list) - 1 : u[k] = IF k < i THEN list[k] ELSE list[k + 1]
  <2>1. u \in Seq(R) /\ Len(u) = Len(list) - 1
    BY <1>1, <1>2, <1>3, <1>4
  <2>2. ASSUME NEW k \in 1 .. Len(list) - 1, k < i PROVE u[k] = list[k]
    <3>1. k \in 1 .. i - 1 /\ k \in 1 .. Len(a)
      BY <1>1, <1>2, <2>2
    <3> QED
      BY <1>2, <1>4, <3>1, Zenon
  <2>3. ASSUME NEW k \in 1 .. Len(list) - 1, ~(k < i) PROVE u[k] = list[k + 1]
    <3>1. PICK p \in 1 .. Len(list) - i : i + p = k + 1 /\ Len(a) + p = k
      <4>1. /\ k + 1 - i \in 1 .. Len(list) - i
            /\ i + (k + 1 - i) = k + 1 /\ Len(a) + (k + 1 - i) = k
        <5>1. Len(list) \in Nat /\ i \in Nat /\ i >= 1 /\ i <= Len(list) /\ Len(a) = i - 1
          BY <1>1, <1>2
        <5>2. k \in Nat /\ k >= i /\ k <= Len(list) - 1
          BY <2>3, <5>1
        <5>3. \A n, h, l : n \in Nat /\ h \in Nat /\ l = h - 1 /\ k \in Nat /\ h >= 1 /\ h <= n /\ k >= h /\ k <= n - 1
                 => k + 1 - h \in 1 .. n - h /\ h + (k + 1 - h) = k + 1 /\ l + (k + 1 - h) = k
          OBVIOUS
        <5> QED
          BY <5>1, <5>2, <5>3, Zenon
      <4> QED
        BY <4>1
    <3>2. p \in 1 .. Len(b) /\ b[p] = list[k + 1]
      BY <1>3, <3>1
    <3> QED
      BY <1>4, <3>1, <3>2, Zenon
  <2> QED
    BY <2>1, <2>2, <2>3
<1>6. ASSUME Ascending(list) PROVE Ascending(u)
  <2>1. DOMAIN u = 1 .. Len(list) - 1 /\ DOMAIN list = 1 .. Len(list)
    BY <1>5
  <2>2. ASSUME NEW j \in 1 .. Len(list) - 1, NEW k \in 1 .. Len(list) - 1, j < k
        PROVE  u[j] < u[k]
    <3> PICK p : p = IF j < i THEN j ELSE j + 1
      OBVIOUS
    <3> PICK q : q = IF k < i THEN k ELSE k + 1
      OBVIOUS
    <3>1. p \in 1 .. Len(list) /\ q \in 1 .. Len(list) /\ p < q
      BY <1>1, <2>2
    <3>2. u[j] = list[p] /\ u[k] = list[q]
      BY <1>5
    <3> QED
      BY <1>6, <2>1, <3>1, <3>2 DEF Ascending
  <2> QED
    BY <2>1, <2>2 DEF Ascending
<1> QED
  BY <1>5, <1>6, <1>9

-----------------------------------------------------------------------------
(* What an edit of the settings keeps: their type, and the order of the lists
   that are in order. *)
Orderly(old, new) ==
  /\ new \in Settings
  /\ \A l \in Lists : Ascending(old[l]) => Ascending(new[l])

LEMMA ListSet ==
  ASSUME NEW s \in Settings, NEW l \in Lists, NEW list \in Seq(Id),
         Ascending(s[l]) => Ascending(list)
  PROVE  Orderly(s, [s EXCEPT ![l] = list])
<1>1. PICK new : new = [s EXCEPT ![l] = list]
  OBVIOUS
<1>2. CASE l = "collapse"
  <2>1. new \in Settings /\ new["collapse"] = list /\ new["highlight"] = s["highlight"]
    BY <1>1, <1>2 DEF Settings
  <2> QED
    BY <1>1, <1>2, <2>1 DEF Lists, Orderly
<1>3. CASE l = "highlight"
  <2>1. new \in Settings /\ new["highlight"] = list /\ new["collapse"] = s["collapse"]
    BY <1>1, <1>3 DEF Settings
  <2> QED
    BY <1>1, <1>3, <2>1 DEF Lists, Orderly
<1> QED
  BY <1>2, <1>3 DEF Lists

LEMMA GroupSet ==
  ASSUME NEW s \in Settings, NEW g \in Groups, NEW group \in Seq(IdList)
  PROVE  Orderly(s, [s EXCEPT ![g] = group])
<1>1. PICK new : new = [s EXCEPT ![g] = group]
  OBVIOUS
<1>2. new["collapse"] = s["collapse"] /\ new["highlight"] = s["highlight"]
  BY <1>1 DEF Settings, Groups
<1>3. new \in Settings
  <2>1. CASE g = "drop"
    BY <1>1, <2>1 DEF Settings
  <2>2. CASE g = "mask"
    BY <1>1, <2>2 DEF Settings
  <2>3. CASE g = "hide"
    BY <1>1, <2>3 DEF Settings
  <2> QED
    BY <2>1, <2>2, <2>3 DEF Groups
<1> QED
  BY <1>1, <1>2, <1>3 DEF Lists, Orderly

(* The lists and groups of settings. *)
LEMMA ListsOfSettings ==
  ASSUME NEW s \in Settings
  PROVE  /\ \A l \in Lists : s[l] \in Seq(Id)
         /\ \A g \in Groups : s[g] \in Seq(IdList)
BY DEF Settings, Lists, Groups

(* A list of a group in place of another. *)
LEMMA MemberSet ==
  ASSUME NEW s \in Settings, NEW g \in Groups, NEW k \in DOMAIN s[g], NEW new \in IdList
  PROVE  Orderly(s, [s EXCEPT ![g] = [s[g] EXCEPT ![k] = new]])
<1>1. s[g] \in Seq(IdList)
  BY ListsOfSettings
<1>2. [s[g] EXCEPT ![k] = new] \in Seq(IdList)
  BY <1>1
<1> QED
  BY <1>2, GroupSet

(* Added: the list with one more id is in order, whatever it was. *)
LEMMA AddedOrderly ==
  ASSUME NEW list \in Seq(Id), NEW id \in Id
  PROVE  Added(list, id) \in Seq(Id) /\ Ascending(Added(list, id))
<1>1. Append(list, id) \in Seq(Id)
  OBVIOUS
<1> QED
  BY <1>1, Normalized DEF Added

(* NormalizeAll: every list is in order. *)
LEMMA AllNormalized ==
  ASSUME NEW s \in Settings
  PROVE  NormalizeAll(s) \in Settings /\ \A l \in Lists : Ascending(NormalizeAll(s)[l])
<1>1. ASSUME NEW group \in Seq(IdList) PROVE NormalizeGroup(group) \in Seq(IdList)
  <2>1. PICK n \in Nat : n = Len(group) /\ DOMAIN group = 1 .. n
    OBVIOUS
  <2>2. ASSUME NEW k \in 1 .. n PROVE [group[k] EXCEPT !.ids = Normalize(@)] \in IdList
    <3>0. group[k] \in IdList
      BY <2>1
    <3>1. group[k] \in IdList /\ group[k].ids \in Seq(Id)
      BY <3>0 DEF IdList
    <3>2. Normalize(group[k].ids) \in Seq(Id)
      BY <3>1, Normalized
    <3> QED
      BY <3>1, <3>2 DEF IdList
  <2>3. NormalizeGroup(group) = [k \in 1 .. n |-> [group[k] EXCEPT !.ids = Normalize(@)]]
    BY <2>1 DEF NormalizeGroup
  <2>4. NormalizeGroup(group) \in [1 .. n -> IdList]
    BY <2>2, <2>3
  <2> QED
    BY <2>4
<1>2. /\ s.collapse \in Seq(Id) /\ s.highlight \in Seq(Id) /\ s.paused \in BOOLEAN
      /\ s.drop \in Seq(IdList) /\ s.mask \in Seq(IdList) /\ s.hide \in Seq(IdList)
  BY DEF Settings
<1>3. /\ Normalize(s.collapse) \in Seq(Id) /\ Ascending(Normalize(s.collapse))
      /\ Normalize(s.highlight) \in Seq(Id) /\ Ascending(Normalize(s.highlight))
  BY <1>2, Normalized
<1>4. /\ NormalizeGroup(s.drop) \in Seq(IdList) /\ NormalizeGroup(s.mask) \in Seq(IdList)
      /\ NormalizeGroup(s.hide) \in Seq(IdList)
  BY <1>1, <1>2
<1>5. NormalizeAll(s) \in Settings
  BY <1>2, <1>3, <1>4 DEF NormalizeAll, Settings
<1>6. /\ NormalizeAll(s)["collapse"] = Normalize(s.collapse)
      /\ NormalizeAll(s)["highlight"] = Normalize(s.highlight)
  BY DEF NormalizeAll
<1> QED
  BY <1>3, <1>5, <1>6 DEF Lists

(* Every click of the controls changes the settings into orderly ones. *)
LEMMA EditsOrderly ==
  ASSUME settings \in Settings,
         ClickAdd \/ ClickRemove \/ ClickAddGroup \/ ClickEnable \/ ClickPause
  PROVE  /\ Orderly(settings, settings') /\ window = "open"
         /\ UNCHANGED <<window, packets, fileVars, missed, events, locked>>
<1> DEFINE Goal == /\ Orderly(settings, settings') /\ window = "open"
                   /\ UNCHANGED <<window, packets, fileVars, missed, events, locked>>
<1>0. ASSUME NEW what, NEW new, Orderly(settings, new), Edit(what, new) PROVE Goal
  BY <1>0 DEF Edit, Click
<1>1. CASE ClickAdd
  <2>1. ASSUME NEW id \in Id, NEW l \in Lists, Edit(l, [settings EXCEPT ![l] = Added(@, id)])
        PROVE  Goal
    <3>1. Orderly(settings, [settings EXCEPT ![l] = Added(settings[l], id)])
      BY AddedOrderly, ListsOfSettings, ListSet
    <3> QED
      BY <1>0, <2>1, <3>1
  <2>2. ASSUME NEW id \in Id, NEW g \in Groups, NEW k \in DOMAIN settings[g],
               Edit(g, [settings EXCEPT ![g][k].ids = Added(@, id)])
        PROVE  Goal
    <3>0. settings[g] \in Seq(IdList) /\ settings[g][k] \in IdList
      BY ListsOfSettings
    <3>1. settings[g][k] \in IdList /\ settings[g][k].ids \in Seq(Id)
      BY <3>0 DEF IdList
    <3>2. [settings[g][k] EXCEPT !.ids = Added(settings[g][k].ids, id)] \in IdList
      BY <3>1, AddedOrderly DEF IdList
    <3>3. Orderly(settings, [settings EXCEPT ![g] = [settings[g] EXCEPT ![k] =
                     [settings[g][k] EXCEPT !.ids = Added(settings[g][k].ids, id)]]])
      BY <3>2, MemberSet
    <3> QED
      BY <1>0, <2>2, <3>3
  <2> QED
    BY <1>1, <2>1, <2>2 DEF ClickAdd
<1>2. CASE ClickRemove
  <2>1. ASSUME NEW l \in Lists, NEW i \in DOMAIN settings[l],
               Edit(l, [settings EXCEPT ![l] = RemoveAt(@, i)])
        PROVE  Goal
    <3>1. Orderly(settings, [settings EXCEPT ![l] = RemoveAt(settings[l], i)])
      BY RemovedKeeps, ListsOfSettings, ListSet
    <3> QED
      BY <1>0, <2>1, <3>1
  <2>2. ASSUME NEW g \in Groups, NEW k \in DOMAIN settings[g],
               Edit(g, [settings EXCEPT ![g] = RemoveAt(@, k)])
        PROVE  Goal
    <3>1. Orderly(settings, [settings EXCEPT ![g] = RemoveAt(settings[g], k)])
      BY RemovedKeeps, ListsOfSettings, GroupSet
    <3> QED
      BY <1>0, <2>2, <3>1
  <2>3. ASSUME NEW g \in Groups, NEW k \in DOMAIN settings[g],
               NEW i \in DOMAIN settings[g][k].ids,
               Edit(g, [settings EXCEPT ![g][k].ids = RemoveAt(@, i)])
        PROVE  Goal
    <3>0. settings[g] \in Seq(IdList) /\ settings[g][k] \in IdList
      BY ListsOfSettings
    <3>1. settings[g][k] \in IdList /\ settings[g][k].ids \in Seq(Id)
      BY <3>0 DEF IdList
    <3>2. [settings[g][k] EXCEPT !.ids = RemoveAt(settings[g][k].ids, i)] \in IdList
      BY <3>1, RemovedKeeps DEF IdList
    <3>3. Orderly(settings, [settings EXCEPT ![g] = [settings[g] EXCEPT ![k] =
                     [settings[g][k] EXCEPT !.ids = RemoveAt(settings[g][k].ids, i)]]])
      BY <3>2, MemberSet
    <3> QED
      BY <1>0, <2>3, <3>3
  <2> QED
    BY <1>2, <2>1, <2>2, <2>3 DEF ClickRemove
<1>3. CASE ClickAddGroup
  <2>1. PICK g \in Groups : Edit(g, [settings EXCEPT ![g] = Append(@, [ids |-> <<>>, on |-> FALSE])])
    BY <1>3 DEF ClickAddGroup
  <2>2. settings[g] \in Seq(IdList)
    BY ListsOfSettings
  <2>3. [ids |-> <<>>, on |-> FALSE] \in IdList
    BY DEF IdList
  <2>4. Append(settings[g], [ids |-> <<>>, on |-> FALSE]) \in Seq(IdList)
    BY <2>2, <2>3
  <2>5. Orderly(settings, [settings EXCEPT ![g] = Append(settings[g], [ids |-> <<>>, on |-> FALSE])])
    BY <2>4, GroupSet
  <2> QED
    BY <1>0, <2>1, <2>5
<1>4. CASE ClickEnable
  <2>0. PICK g \in Groups :
          \E k \in DOMAIN settings[g] : Edit(g, [settings EXCEPT ![g][k].on = ~@])
    BY <1>4 DEF ClickEnable
  <2>1. PICK k \in DOMAIN settings[g] : Edit(g, [settings EXCEPT ![g][k].on = ~@])
    BY <2>0
  <2>2. settings[g] \in Seq(IdList) /\ settings[g][k] \in IdList
    BY ListsOfSettings
  <2>3. [settings[g][k] EXCEPT !.on = ~settings[g][k].on] \in IdList
    BY <2>2 DEF IdList
  <2>4. Orderly(settings, [settings EXCEPT ![g] = [settings[g] EXCEPT ![k] =
                   [settings[g][k] EXCEPT !.on = ~settings[g][k].on]]])
    BY <2>3, MemberSet
  <2> QED
    BY <1>0, <2>1, <2>4
<1>5. CASE ClickPause
  <2>1. Orderly(settings, [settings EXCEPT !.paused = ~settings.paused])
    BY DEF Orderly, Settings, Lists
  <2> QED
    BY <1>0, <1>5, <2>1 DEF ClickPause
<1> QED
  BY <1>1, <1>2, <1>3, <1>4, <1>5
=============================================================================
