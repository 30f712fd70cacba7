---------------------------- MODULE WindowProofs ----------------------------
(***************************************************************************)
(* Proofs about MitmSessions: for every capacity of the channel, length of *)
(* the list and number of events, whatever the user does, and however      *)
(* often the program crashes, the list is in order and knows what it       *)
(* missed, shows the packets that were traced, the settings' lists are     *)
(* searched exactly and the file is never torn.                            *)
(***************************************************************************)
EXTENDS MitmSessions, SettingsProofs

(* What a connection tells of a packet; a view is whatever was dissected. *)
EventOf(V) == [n : Nat, of : Traced, view : V]

(* Events out of the first m, none twice, in order. *)
Ordered(list, m) ==
  /\ \A k \in 1 .. Len(list) : list[k].n \in 1 .. m
  /\ \A j, k \in 1 .. Len(list) : j < k => list[j].n < list[k].n

(* All of the first m events. *)
Complete(list, m) ==
  /\ Len(list) = m
  /\ \A k \in 1 .. Len(list) : list[k].n = k

(* The list and the channel behind it are in order, and have every event
   unless the window knows that one was missed. *)
Consistent(V) ==
  /\ packets \in Seq(EventOf(V)) /\ events \in Seq(EventOf(V))
  /\ Ordered(packets \o events, captured)
  /\ ~missed => Complete(packets \o events, captured)

OrderInv == captured \in Nat /\ missed \in BOOLEAN /\ \E V : Consistent(V)

-----------------------------------------------------------------------------
(* A list that has elements of an ordered one, in its order, is ordered. *)
LEMMA OrderedPart ==
  ASSUME NEW R, NEW s \in Seq(R), NEW t \in Seq(R), NEW m \in Nat,
         NEW f \in [1 .. Len(t) -> 1 .. Len(s)],
         \A k \in 1 .. Len(t) : t[k].n = s[f[k]].n,
         \A j, k \in 1 .. Len(t) : j < k => f[j] < f[k],
         Ordered(s, m)
  PROVE  Ordered(t, m)
<1>1. \A k \in 1 .. Len(t) : t[k].n \in 1 .. m
  BY DEF Ordered
<1>2. ASSUME NEW j \in 1 .. Len(t), NEW k \in 1 .. Len(t), j < k PROVE t[j].n < t[k].n
  <2>1. f[j] \in 1 .. Len(s) /\ f[k] \in 1 .. Len(s) /\ f[j] < f[k]
    BY <1>2
  <2>2. s[f[j]].n < s[f[k]].n
    BY <2>1 DEF Ordered
  <2> QED
    BY <2>2
<1> QED
  BY <1>1, <1>2 DEF Ordered

(* The next event comes last. *)
LEMMA OrderedAppended ==
  ASSUME NEW R, NEW s \in Seq(R), NEW e \in R, NEW m \in Nat, e.n = m + 1, Ordered(s, m)
  PROVE  /\ Ordered(Append(s, e), m + 1)
         /\ Complete(s, m) => Complete(Append(s, e), m + 1)
<1> PICK u : u = Append(s, e)
  OBVIOUS
<1>1. /\ u \in Seq(R)
      /\ Len(u) = Len(s) + 1 /\ u[Len(s) + 1] = e
      /\ \A k \in 1 .. Len(s) : u[k] = s[k]
  BY Appended
<1>2. \A k \in 1 .. Len(s) : u[k].n \in 1 .. m
  BY <1>1 DEF Ordered
<1>3. \A k \in 1 .. Len(u) : k \in 1 .. Len(s) \/ k = Len(s) + 1
  BY <1>1
<1>4. \A k \in 1 .. Len(u) : u[k].n \in 1 .. m + 1
  BY <1>1, <1>2, <1>3
<1>5. ASSUME NEW j \in 1 .. Len(u), NEW k \in 1 .. Len(u), j < k PROVE u[j].n < u[k].n
  <2>1. j \in 1 .. Len(s)
    BY <1>1, <1>5
  <2>2. CASE k \in 1 .. Len(s)
    BY <1>1, <1>5, <2>1, <2>2 DEF Ordered
  <2>3. CASE k = Len(s) + 1
    <3>1. u[j].n \in 1 .. m /\ u[k].n = m + 1
      BY <1>1, <1>2, <2>1, <2>3
    <3> QED
      BY <3>1
  <2> QED
    BY <1>3, <2>2, <2>3
<1>6. Ordered(u, m + 1)
  BY <1>4, <1>5 DEF Ordered
<1>7. Complete(s, m) => Complete(u, m + 1)
  BY <1>1, <1>3 DEF Complete
<1> QED
  BY <1>1, <1>6, <1>7, Zenon

(* Order and completeness are about the numbers of the events only. *)
LEMMA OrderedSame ==
  ASSUME NEW R, NEW a \in Seq(R), NEW b \in Seq(R), NEW q \in Seq(R), NEW m \in Nat,
         Len(b) = Len(a), \A k \in 1 .. Len(a) : b[k].n = a[k].n,
         Ordered(a \o q, m)
  PROVE  /\ Ordered(b \o q, m)
         /\ Complete(a \o q, m) => Complete(b \o q, m)
<1> PICK s : s = a \o q
  OBVIOUS
<1>1. /\ s \in Seq(R)
      /\ Len(s) = Len(a) + Len(q)
      /\ \A k \in 1 .. Len(a) : s[k] = a[k]
      /\ \A k \in 1 .. Len(q) : s[Len(a) + k] = q[k]
  BY Joined
<1> PICK u : u = b \o q
  OBVIOUS
<1>2. /\ u \in Seq(R)
      /\ Len(u) = Len(b) + Len(q)
      /\ \A k \in 1 .. Len(b) : u[k] = b[k]
      /\ \A k \in 1 .. Len(q) : u[Len(b) + k] = q[k]
  BY Joined
<1>3. ASSUME NEW k \in 1 .. Len(s) PROVE u[k].n = s[k].n
  <2>1. CASE k \in 1 .. Len(a)
    BY <1>1, <1>2, <2>1
  <2>2. CASE k \notin 1 .. Len(a)
    <3>1. PICK p \in 1 .. Len(q) : k = Len(a) + p
      <4>1. k - Len(a) \in 1 .. Len(q) /\ k = Len(a) + (k - Len(a))
        BY <1>1, <2>2
      <4> QED
        BY <4>1
    <3>2. u[k] = s[k]
      BY <1>1, <1>2, <3>1
    <3> QED
      BY <3>2
  <2> QED
    BY <2>1, <2>2
<1>4. Len(u) = Len(s)
  BY <1>1, <1>2
<1>5. Ordered(s, m)
  BY <1>1, Zenon
<1>6. Ordered(u, m)
  <2>1. \A k \in 1 .. Len(u) : u[k].n \in 1 .. m
    BY <1>3, <1>4, <1>5, Zenon DEF Ordered
  <2>2. ASSUME NEW j \in 1 .. Len(u), NEW k \in 1 .. Len(u), j < k PROVE u[j].n < u[k].n
    <3>1. /\ j \in 1 .. Len(s) /\ k \in 1 .. Len(s)
          /\ u[j].n = s[j].n /\ u[k].n = s[k].n
      BY <1>3, <1>4, Zenon
    <3>2. s[j].n < s[k].n
      BY <1>5, <2>2, <3>1, Zenon DEF Ordered
    <3> QED
      BY <3>1, <3>2, Zenon
  <2> QED
    BY <2>1, <2>2, Zenon DEF Ordered
<1>7. Complete(s, m) => Complete(u, m)
  BY <1>3, <1>4, Zenon DEF Complete
<1> QED
  BY <1>1, <1>2, <1>6, <1>7, Zenon

(* A view that is made anew leaves the event what it is (ClickPretty). *)
LEMMA Viewed ==
  ASSUME NEW V, NEW e \in EventOf(V), NEW v
  PROVE  /\ [e EXCEPT !.view = v] \in EventOf(V \cup {v})
         /\ [e EXCEPT !.view = v].n = e.n
BY DEF EventOf

(* More views make no event another one. *)
LEMMA Wider ==
  ASSUME NEW V, NEW W, NEW s \in Seq(EventOf(V))
  PROVE  s \in Seq(EventOf(V \cup W))
<1>1. EventOf(V) \subseteq EventOf(V \cup W)
  BY DEF EventOf
<1> QED
  BY <1>1, SeqMonotonic, Zenon

-----------------------------------------------------------------------------
(* Capture: a further event is the last of the channel, or is missed. *)
LEMMA CaptureKeeps ==
  ASSUME OrderInv, Capture
  PROVE  OrderInv'
<1>1. PICK V : Consistent(V)
  BY DEF OrderInv
<1>a. PICK t \in Traced : \E v : TrySend([n |-> captured + 1, of |-> t, view |-> v])
  BY DEF Capture
<1> PICK v : TrySend([n |-> captured + 1, of |-> t, view |-> v])
  BY <1>a
<1> PICK e : e = [n |-> captured + 1, of |-> t, view |-> v]
  OBVIOUS
<1>2. /\ captured \in Nat /\ captured' = captured + 1 /\ packets' = packets
      /\ missed \in BOOLEAN
  BY DEF OrderInv, Capture, windowVars
<1>3. e \in EventOf(V \cup {v}) /\ e.n = captured + 1
  BY <1>2 DEF EventOf
<1>4. packets \in Seq(EventOf(V \cup {v})) /\ events \in Seq(EventOf(V \cup {v}))
  BY <1>1, Wider DEF Consistent
<1> PICK s \in Seq(EventOf(V \cup {v})) : s = packets \o events
  BY <1>4, Joined, Zenon
<1>5. Ordered(s, captured) /\ (~missed => Complete(s, captured))
  BY <1>1 DEF Consistent
<1>6. CASE events' = Append(events, e) /\ missed' = missed
  <2>1. events' \in Seq(EventOf(V \cup {v}))
    BY <1>3, <1>4, <1>6
  <2>2. packets' \o events' = Append(s, e)
    BY <1>2, <1>3, <1>4, <1>6, JoinedAppend
  <2>3. /\ Ordered(packets' \o events', captured')
        /\ ~missed' => Complete(packets' \o events', captured')
    BY <1>2, <1>3, <1>5, <1>6, <2>2, OrderedAppended
  <2> QED
    BY <1>2, <1>4, <1>6, <2>1, <2>3 DEF OrderInv, Consistent
<1>7. CASE events' = events /\ missed' = TRUE
  <2>1. Ordered(s, captured')
    BY <1>2, <1>5 DEF Ordered
  <2> QED
    BY <1>2, <1>4, <1>7, <2>1 DEF OrderInv, Consistent
<1> QED
  BY <1>2, <1>6, <1>7 DEF TrySend

(* ClickPretty: the events stay what they are. *)
LEMMA ClickPrettyKeeps ==
  ASSUME OrderInv, ClickPretty, UNCHANGED captured
  PROVE  OrderInv'
<1>1. PICK V : Consistent(V)
  BY DEF OrderInv
<1>a. PICK p \in DOMAIN packets :
        \E v : packets' = [packets EXCEPT ![p] = [@ EXCEPT !.view = v]]
  BY DEF ClickPretty
<1>2. PICK v : packets' = [packets EXCEPT ![p] = [@ EXCEPT !.view = v]]
  BY <1>a
<1>3. /\ captured \in Nat /\ captured' = captured /\ events' = events /\ missed' = missed
      /\ missed \in BOOLEAN
  BY DEF OrderInv, ClickPretty, guiVars
<1> PICK list \in Seq(EventOf(V)), queue \in Seq(EventOf(V)) : list = packets /\ queue = events
  BY <1>1, Zenon DEF Consistent
<1>4. p \in 1 .. Len(list) /\ list[p] \in EventOf(V)
  BY <1>2
<1>5. PICK e \in EventOf(V \cup {v}) : e = [list[p] EXCEPT !.view = v] /\ e.n = list[p].n
  BY <1>4, Viewed
<1>6. list \in Seq(EventOf(V \cup {v})) /\ queue \in Seq(EventOf(V \cup {v}))
  BY Wider
<1>7. PICK new \in Seq(EventOf(V \cup {v})) :
        /\ new = packets' /\ Len(new) = Len(list)
        /\ \A k \in 1 .. Len(list) : new[k].n = list[k].n
  <2>1. packets' = [list EXCEPT ![p] = e]
    BY <1>2, <1>5
  <2>2. /\ [list EXCEPT ![p] = e] \in Seq(EventOf(V \cup {v}))
        /\ Len([list EXCEPT ![p] = e]) = Len(list)
        /\ \A k \in 1 .. Len(list) : [list EXCEPT ![p] = e][k] = IF k = p THEN e ELSE list[k]
    BY <1>4, <1>6, ExceptSeq
  <2>3. \A k \in 1 .. Len(list) : [list EXCEPT ![p] = e][k].n = list[k].n
    BY <1>5, <2>2
  <2> QED
    BY <2>1, <2>2, <2>3, Zenon
<1>8. Ordered(list \o queue, captured) /\ (~missed => Complete(list \o queue, captured))
  BY <1>1 DEF Consistent
<1>9. Ordered(new \o queue, captured) /\ (~missed => Complete(new \o queue, captured))
  BY <1>3, <1>6, <1>7, <1>8, OrderedSame, Zenon
<1> QED
  BY <1>3, <1>6, <1>7, <1>9 DEF OrderInv, Consistent

-----------------------------------------------------------------------------
(* Events leave the list at its front, or the channel at its front. *)

(* What is left of a sequence when its first n elements have gone. *)
RestOf(rest, whole, n) ==
  \A k \in 1 .. Len(rest) : n + k \in 1 .. Len(whole) /\ rest[k] = whole[n + k]

(* What is left of the list and of the channel is in order. *)
LEMMA OrderedRest ==
  ASSUME NEW R, NEW a \in Seq(R), NEW q \in Seq(R), NEW m \in Nat, Ordered(a \o q, m),
         NEW b \in Seq(R), NEW r \in Seq(R), NEW x \in Nat, NEW y \in Nat,
         RestOf(b, a, x), RestOf(r, q, y)
  PROVE  Ordered(b \o r, m)
<1> PICK s : s = a \o q
  OBVIOUS
<1>1. /\ s \in Seq(R) /\ Len(s) = Len(a) + Len(q)
      /\ \A k \in 1 .. Len(a) : s[k] = a[k]
      /\ \A k \in 1 .. Len(q) : s[Len(a) + k] = q[k]
  BY Joined
<1> PICK u : u = b \o r
  OBVIOUS
<1>2. /\ u \in Seq(R) /\ Len(u) = Len(b) + Len(r)
      /\ \A k \in 1 .. Len(b) : u[k] = b[k]
      /\ \A k \in 1 .. Len(r) : u[Len(b) + k] = r[k]
  BY Joined
<1>3. PICK f :
        f = [k \in 1 .. Len(u) |-> IF k <= Len(b) THEN x + k ELSE Len(a) + y + (k - Len(b))]
  OBVIOUS
<1>4. ASSUME NEW k \in 1 .. Len(u)
      PROVE  f[k] \in 1 .. Len(s) /\ u[k] = s[f[k]] /\ (k <= Len(b) <=> f[k] <= Len(a))
  <2>1. CASE k <= Len(b)
    <3>1. k \in 1 .. Len(b) /\ f[k] = x + k
      BY <1>3, <2>1
    <3>2. x + k \in 1 .. Len(a) /\ b[k] = a[x + k]
      BY <3>1 DEF RestOf
    <3> QED
      BY <1>1, <1>2, <2>1, <3>1, <3>2
  <2>2. CASE ~(k <= Len(b))
    <3>1. PICK p \in 1 .. Len(r) : p = k - Len(b) /\ k = Len(b) + p
      <4>1. k - Len(b) \in 1 .. Len(r) /\ k = Len(b) + (k - Len(b))
        BY <1>2, <2>2
      <4> QED
        BY <4>1
    <3>2. f[k] = Len(a) + (y + p)
      BY <1>3, <2>2, <3>1
    <3>3. y + p \in 1 .. Len(q) /\ r[p] = q[y + p]
      BY <3>1 DEF RestOf
    <3>4. u[k] = r[p]
      BY <1>2, <3>1
    <3>5. s[Len(a) + (y + p)] = q[y + p]
      BY <1>1, <3>3
    <3>6. Len(a) + (y + p) \in 1 .. Len(s) /\ Len(a) + (y + p) > Len(a)
      BY <1>1, <3>3
    <3> QED
      BY <2>2, <3>2, <3>3, <3>4, <3>5, <3>6
  <2> QED
    BY <2>1, <2>2
<1>5. ASSUME NEW j \in 1 .. Len(u), NEW k \in 1 .. Len(u), j < k PROVE f[j] < f[k]
  <2>1. CASE k <= Len(b)
    BY <1>3, <1>5, <2>1
  <2>2. CASE j > Len(b)
    BY <1>2, <1>3, <1>5, <2>2
  <2>3. CASE j <= Len(b) /\ ~(k <= Len(b))
    <3>1. f[j] <= Len(a) /\ ~(f[k] <= Len(a)) /\ f[j] \in 1 .. Len(s) /\ f[k] \in 1 .. Len(s)
      BY <1>4, <2>3
    <3> QED
      BY <1>1, <3>1
  <2> QED
    BY <1>2, <2>1, <2>2, <2>3
<1>6. f \in [1 .. Len(u) -> 1 .. Len(s)]
  BY <1>3, <1>4
<1>7. \A k \in 1 .. Len(u) : u[k].n = s[f[k]].n
  BY <1>4
<1>8. Ordered(u, m)
  BY <1>1, <1>2, <1>5, <1>6, <1>7, OrderedPart
<1> QED
  BY <1>8

(* TakeEvent: the event at the channel's front joins the list, which may lose
   its oldest events, or is dropped while capturing is paused. *)
LEMMA TakeEventKeeps ==
  ASSUME OrderInv, TakeEvent, UNCHANGED captured
  PROVE  OrderInv'
<1>1. PICK V : Consistent(V)
  BY DEF OrderInv
<1> PICK R : R = EventOf(V)
  OBVIOUS
<1>2. PICK list \in Seq(R), queue \in Seq(R) : list = packets /\ queue = events
  BY <1>1, Zenon DEF Consistent
<1>3. /\ captured \in Nat /\ captured' = captured /\ missed \in BOOLEAN /\ queue # <<>>
      /\ Ordered(list \o queue, captured)
      /\ ~missed => Complete(list \o queue, captured)
  BY <1>1, <1>2, Zenon DEF OrderInv, Consistent, TakeEvent
<1> PICK longer : longer = Append(list, Head(queue))
  OBVIOUS
<1> PICK rest : rest = Tail(queue)
  OBVIOUS
<1>4. /\ rest \in Seq(R) /\ Head(queue) \in R
      /\ Len(queue) \in Nat /\ Len(queue) > 0 /\ Len(rest) = Len(queue) - 1
      /\ \A k \in 1 .. Len(rest) : rest[k] = queue[k + 1]
  BY <1>3, Behind
<1>5. longer \in Seq(R) /\ Len(longer) = Len(list) + 1
  BY <1>4, Appended
<1>6. longer \o rest = list \o queue
  BY <1>3, Moved
<1>7. /\ events' = rest
      /\ packets' = IF settings.paused THEN list ELSE Trimmed(longer)
      /\ missed' = (missed \/ packets' # longer)
  BY <1>2, Zenon DEF TakeEvent
<1>8. SUFFICES /\ packets' \in Seq(R)
               /\ Ordered(packets' \o rest, captured)
               /\ packets' # longer \/ packets' \o rest = list \o queue
  <2> SUFFICES ASSUME packets' \in Seq(R),
                      Ordered(packets' \o rest, captured),
                      packets' # longer \/ packets' \o rest = list \o queue
               PROVE  OrderInv'
    BY Zenon
  <2>1. ~missed' => Complete(packets' \o rest, captured)
    BY <1>3, <1>7, Zenon
  <2>2. missed' \in BOOLEAN
    BY <1>7, Zenon
  <2>3. Consistent(V)'
    BY <1>3, <1>4, <1>7, <2>1, Zenon DEF Consistent, EventOf
  <2> QED
    BY <1>3, <2>2, <2>3, Zenon DEF OrderInv
<1>9. CASE settings.paused
  <2>1. packets' = list
    BY <1>7, <1>9
  <2>2. list # longer
    BY <1>5
  <2>3. Ordered(list \o rest, captured)
    <3>1. RestOf(list, list, 0)
      BY DEF RestOf
    <3>2. RestOf(rest, queue, 1)
      BY <1>4 DEF RestOf
    <3>3. 0 \in Nat /\ 1 \in Nat
      OBVIOUS
    <3> QED
      BY <1>3, <1>4, <3>1, <3>2, <3>3, OrderedRest, Zenon
  <2> QED
    BY <2>1, <2>2, <2>3, Zenon
<1>10. CASE ~settings.paused /\ Len(longer) > CLEAR_THRESHOLD
  <2> PICK short : short = SubSeq(longer, CLEAR_COUNT + 1, Len(longer))
    OBVIOUS
  <2>1. /\ short \in Seq(R)
        /\ Len(short) = IF CLEAR_COUNT <= Len(longer) THEN Len(longer) - CLEAR_COUNT ELSE 0
        /\ RestOf(short, longer, CLEAR_COUNT)
    <3>1. CLEAR_COUNT \in Nat
      BY WindowAssumption
    <3> QED
      BY <1>5, <3>1, Shortened DEF RestOf
  <2>2. packets' = short
    BY <1>7, <1>10 DEF Trimmed
  <2>3. short # longer
    BY <1>5, <2>1, WindowAssumption
  <2>4. Ordered(short \o rest, captured)
    <3>1. RestOf(rest, rest, 0)
      BY <1>4 DEF RestOf
    <3>2. 0 \in Nat /\ CLEAR_COUNT \in Nat
      BY WindowAssumption
    <3>3. Ordered(longer \o rest, captured)
      BY <1>3, <1>6, Zenon
    <3> QED
      BY <1>3, <1>4, <1>5, <2>1, <3>1, <3>2, <3>3, OrderedRest, Zenon
  <2> QED
    BY <2>1, <2>2, <2>3, <2>4, Zenon
<1>11. CASE ~settings.paused /\ ~(Len(longer) > CLEAR_THRESHOLD)
  <2>1. packets' = longer
    BY <1>7, <1>11 DEF Trimmed
  <2> QED
    BY <1>3, <1>5, <1>6, <2>1, Zenon
<1> QED
  BY <1>9, <1>10, <1>11, Zenon

(* ClickClear: the list is emptied, the channel is not. *)
LEMMA ClickClearKeeps ==
  ASSUME OrderInv, ClickClear, UNCHANGED captured
  PROVE  OrderInv'
<1>1. PICK V : Consistent(V)
  BY DEF OrderInv
<1>2. PICK list \in Seq(EventOf(V)), queue \in Seq(EventOf(V)) : list = packets /\ queue = events
  BY <1>1, Zenon DEF Consistent
<1>3. /\ captured \in Nat /\ captured' = captured /\ missed' = TRUE
      /\ packets' = <<>> /\ events' = queue
      /\ Ordered(list \o queue, captured)
  BY <1>1, <1>2, Zenon DEF OrderInv, Consistent, ClickClear
<1> PICK none \in Seq(EventOf(V)) : none = <<>> /\ Len(none) = 0
  BY EmptySeq, Zenon
<1>4. Ordered(none \o queue, captured)
  <2>1. RestOf(none, list, 0)
    BY DEF RestOf
  <2>2. RestOf(queue, queue, 0)
    BY DEF RestOf
  <2>3. 0 \in Nat
    OBVIOUS
  <2> QED
    BY <1>3, <2>1, <2>2, <2>3, OrderedRest, Zenon
<1>5. Consistent(V)'
  BY <1>3, <1>4, Zenon DEF Consistent, EventOf
<1> QED
  BY <1>3, <1>5, Zenon DEF OrderInv

-----------------------------------------------------------------------------
(* An empty list and an empty channel: at the start and after a crash. *)
LEMMA Empty ==
  /\ <<>> \in Seq(EventOf({}))
  /\ Ordered(<<>> \o <<>>, 0) /\ Complete(<<>> \o <<>>, 0)
<1>1. <<>> \in Seq(EventOf({})) /\ <<>> \o <<>> = <<>> /\ Len(<<>>) = 0
  OBVIOUS
<1> QED
  BY <1>1 DEF Ordered, Complete

(* Edits and saves leave the list, the channel and what was missed alone. *)
LEMMA Untouched ==
  ASSUME OrderInv, UNCHANGED <<packets, events, missed, captured>>
  PROVE  OrderInv'
<1>1. PICK V : Consistent(V)
  BY DEF OrderInv
<1>2. Consistent(V)'
  BY <1>1 DEF Consistent, EventOf
<1> QED
  BY <1>2 DEF OrderInv

(* Every step of the window, of the connections and of the program keeps the
   list and the channel consistent. *)
LEMMA OrderStep ==
  ASSUME OrderInv, [Next]_vars
  PROVE  OrderInv'
<1>1. CASE Capture
  BY <1>1, CaptureKeeps
<1>2. CASE ClickPretty /\ UNCHANGED captured
  BY <1>2, ClickPrettyKeeps
<1>3. CASE TakeEvent /\ UNCHANGED captured
  BY <1>3, TakeEventKeeps
<1>4. CASE ClickClear /\ UNCHANGED captured
  BY <1>4, ClickClearKeeps
<1>5. CASE Crash
  <2>1. packets' = <<>> /\ events' = <<>> /\ captured' = 0 /\ missed' = FALSE
    BY <1>5 DEF Crash
  <2>2. Consistent({})'
    BY <2>1, Empty, Zenon DEF Consistent, EventOf
  <2> QED
    BY <2>1, <2>2 DEF OrderInv
<1>6. CASE Start
  BY <1>6, Untouched DEF Start
<1>7. CASE (ClickAdd \/ ClickRemove \/ ClickAddGroup \/ ClickEnable \/ ClickPause) /\ UNCHANGED captured
  <2>1. ASSUME NEW what, NEW new, Edit(what, new) PROVE UNCHANGED <<packets, events, missed>>
    BY <2>1 DEF Edit
  <2>2. UNCHANGED <<packets, events, missed>>
    BY <1>7, <2>1 DEF ClickAdd, ClickRemove, ClickAddGroup, ClickEnable, ClickPause
  <2> QED
    BY <1>7, <2>2, Untouched
<1>8. CASE (ClickSave \/ CloseWindow \/ SaveStep) /\ UNCHANGED captured
  <2>1. UNCHANGED <<packets, events, missed>>
    BY <1>8 DEF ClickSave, CloseWindow, SaveStep, WriteTmp, Rename, guiVars
  <2> QED
    BY <1>8, <2>1, Untouched
<1>9. CASE UNCHANGED vars
  BY <1>9, Untouched DEF vars, guiVars, windowVars
<1> QED
  BY <1>1, <1>2, <1>3, <1>4, <1>5, <1>6, <1>7, <1>8, <1>9 DEF Next, WindowNext

(* A consistent list holds the events in order, and all of them unless the
   window knows better. *)
LEMMA OrderImplies == OrderInv => ListInOrder
<1> SUFFICES ASSUME OrderInv PROVE ListInOrder
  OBVIOUS
<1>1. PICK V : Consistent(V)
  BY DEF OrderInv
<1> PICK known : known = packets \o events
  OBVIOUS
<1>2. /\ known \in Seq(EventOf(V)) /\ Ordered(known, captured)
      /\ ~missed => Complete(known, captured)
  BY <1>1, Joined DEF Consistent
<1>3. Len(known) \in Nat /\ DOMAIN known = 1 .. Len(known)
  BY <1>2, LenProperties
<1>4. \A k \in 1 .. Len(known) - 1 : known[k].n < known[k + 1].n
  <2> TAKE k \in 1 .. Len(known) - 1
  <2>1. PICK j \in 1 .. Len(known) : j = k + 1 /\ k < j
    BY <1>3
  <2>2. k \in 1 .. Len(known)
    BY <1>3
  <2> QED
    BY <1>2, <2>1, <2>2 DEF Ordered
<1>5. ~missed => [k \in DOMAIN known |-> known[k].n] = [k \in 1 .. captured |-> k]
  BY <1>2, <1>3 DEF Complete
<1> QED
  BY <1>4, <1>5, Zenon DEF ListInOrder

LEMMA OrderInit == Init => OrderInv
<1> SUFFICES ASSUME Init PROVE OrderInv
  OBVIOUS
<1>1. packets = <<>> /\ events = <<>> /\ captured = 0 /\ missed = FALSE
  BY DEF Init, GuiInit, WindowInit
<1>2. Consistent({})
  BY <1>1, Empty, Zenon DEF Consistent
<1> QED
  BY <1>1, <1>2 DEF OrderInv

(* ListInOrder (packet_list of mitm_gui.rs and the event channel): for every
   capacity, length of the list and traffic, the list holds the events of this
   run in order, and all of them while none was missed. *)
THEOREM ListInOrderCorrect == Spec => []ListInOrder
<1>1. OrderInv /\ [Next]_vars => OrderInv'
  BY OrderStep
<1> QED
  BY <1>1, OrderInit, OrderImplies, PTL DEF Spec

-----------------------------------------------------------------------------
(* The parts of a list a search may be left with. *)
Parts(L) ==
  {r \in [base : Nat, size : Nat] : r.base >= 1 /\ r.size >= 1 /\ r.base + r.size - 1 <= L}

In(i, r) == i \in r.base .. r.base + r.size - 1

(* A round of the search keeps what is looked for in the half that is left. *)
LEMMA HalvedKeeps ==
  ASSUME NEW list \in Seq(Nat), NEW id \in Nat, Ascending(list), NEW r \in Parts(Len(list))
  PROVE  \E h \in Parts(Len(list)) :
           /\ h = Halved(list, id, r)
           /\ r.size > 1 => h.size < r.size
           /\ h.size <= r.size
           /\ \A i \in Nat : In(i, r) /\ list[i] = id => In(i, h)
<1>1. PICK base \in Nat, size \in Nat :
        /\ r = [base |-> base, size |-> size] /\ r.base = base /\ r.size = size
        /\ base >= 1 /\ size >= 1 /\ base + size - 1 <= Len(list)
  <2>1. r = [base |-> r.base, size |-> r.size] /\ r.base \in Nat /\ r.size \in Nat
    BY DEF Parts
  <2> QED
    BY <2>1 DEF Parts
<1>2. CASE size <= 1
  <2>1. Halved(list, id, r) = r
    BY <1>1, <1>2 DEF Halved
  <2> QED
    BY <1>1, <1>2, <2>1
<1>3. CASE size > 1
  <2>1. PICK half \in Nat : half = size \div 2 /\ half >= 1 /\ half < size
    BY <1>3
  <2>2. PICK b \in Nat : b = IF list[base + half] > id THEN base ELSE base + half
    OBVIOUS
  <2>3. PICK h \in [base : Nat, size : Nat] :
          /\ h = [base |-> b, size |-> size - half]
          /\ h.base = b /\ h.size = size - half
    <3>1. size - half \in Nat
      BY <2>1
    <3>2. [base |-> b, size |-> size - half] \in [base : Nat, size : Nat]
      BY <3>1
    <3> QED
      BY <3>2
  <2>4. Halved(list, id, r) = h
    BY <1>1, <1>3, <2>1, <2>2, <2>3 DEF Halved
  <2>5. h \in Parts(Len(list)) /\ h.size < r.size /\ h.size <= r.size
    BY <1>1, <1>3, <2>1, <2>2, <2>3, SMTT(20) DEF Parts
  <2>6. ASSUME NEW i \in Nat, In(i, r), list[i] = id PROVE In(i, h)
    <3>1. i \in base .. base + size - 1
      BY <1>1, <2>6 DEF In
    <3>2. i \in DOMAIN list /\ base + half \in DOMAIN list /\ list[base + half] \in Nat
      BY <1>1, <2>1, <3>1
    <3>3. CASE list[base + half] > id
      <4>1. base + half < i => list[base + half] < list[i]
        BY <3>2 DEF Ascending
      <4>2. base + half # i
        BY <2>6, <3>3
      <4>3. i < base + half
        BY <2>1, <2>6, <3>2, <3>3, <4>1, <4>2
      <4> QED
        BY <2>1, <2>2, <2>3, <3>1, <3>3, <4>3 DEF In
    <3>4. CASE ~(list[base + half] > id)
      <4>1. i < base + half => list[i] < list[base + half]
        BY <3>2 DEF Ascending
      <4>2. i >= base + half
        BY <2>1, <2>6, <3>2, <3>4, <4>1
      <4> QED
        BY <2>1, <2>2, <2>3, <3>1, <3>4, <4>2 DEF In
    <3> QED
      BY <3>3, <3>4
  <2> QED
    BY <2>4, <2>5, <2>6
<1>4. size <= 1 \/ size > 1
  OBVIOUS
<1> QED
  BY <1>2, <1>3, <1>4, Zenon

(* What the search for an id in a list is left with after each round. *)
Rounding(left, list, id) ==
  left = [n \in 0 .. Len(list) |->
            IF n = 0
              THEN [base |-> 1, size |-> Len(list)]
              ELSE Halved(list, id, left[n - 1])]

Left(list, id) == CHOOSE left : Rounding(left, list, id)

(* There is such a function: every round leaves a part of the list. *)
LEMMA Rounds ==
  ASSUME NEW X, NEW a \in X, NEW L \in Nat, NEW list, NEW id
  PROVE  /\ L = Len(list) /\ a = [base |-> 1, size |-> L]
         /\ \A r \in X : Halved(list, id, r) \in X
         => Rounding(Left(list, id), list, id)
<1>1. ASSUME NEW G \in [(1 .. L) \X X -> X]
      PROVE  \E f \in [0 .. L -> X] : f[0] = a /\ \A n \in 1 .. L : f[n] = G[<<n, f[n - 1]>>]
  BY Iterates
<1> HAVE /\ L = Len(list) /\ a = [base |-> 1, size |-> L]
         /\ \A r \in X : Halved(list, id, r) \in X
<1> DEFINE F == [p \in (1 .. L) \X X |-> Halved(list, id, p[2])]
<1>2. F \in [(1 .. L) \X X -> X]
  OBVIOUS
<1>3. \A n \in 1 .. L, r \in X : F[<<n, r>>] = Halved(list, id, r)
  OBVIOUS
<1> HIDE DEF F
<1>4. PICK f \in [0 .. L -> X] : f[0] = a /\ \A n \in 1 .. L : f[n] = F[<<n, f[n - 1]>>]
  BY <1>1, <1>2, Zenon
<1>5. \A n \in 1 .. L : f[n - 1] \in X
  OBVIOUS
<1>6. ASSUME NEW n \in 0 .. L
      PROVE  f[n] = IF n = 0 THEN a ELSE Halved(list, id, f[n - 1])
  <2>1. CASE n = 0
    BY <1>4, <2>1
  <2>2. CASE n # 0
    <3>1. n \in 1 .. L
      BY <2>2
    <3> QED
      BY <1>3, <1>4, <1>5, <2>2, <3>1
  <2> QED
    BY <2>1, <2>2
<1>7. Rounding(f, list, id)
  BY <1>6 DEF Rounding
<1> QED
  BY <1>7, Zenon DEF Left

LEMMA LeftRounding ==
  ASSUME NEW list \in Seq(Nat), NEW id \in Nat, Ascending(list), Len(list) >= 1
  PROVE  Rounding(Left(list, id), list, id)
<1>1. PICK L \in Nat : L = Len(list) /\ L >= 1
  OBVIOUS
<1>2. PICK a \in Parts(L) : a = [base |-> 1, size |-> L]
  <2>1. [base |-> 1, size |-> L] \in [base : Nat, size : Nat]
    OBVIOUS
  <2>2. PICK a \in [base : Nat, size : Nat] :
          a = [base |-> 1, size |-> L] /\ a.base = 1 /\ a.size = L
    BY <2>1
  <2>3. a \in Parts(L)
    BY <1>1, <2>2 DEF Parts
  <2> QED
    BY <2>2, <2>3
<1>3. \A r \in Parts(L) : Halved(list, id, r) \in Parts(L)
  BY <1>1, HalvedKeeps
<1> QED
  BY <1>1, <1>2, <1>3, Rounds

(* After as many rounds as the list is long one element is left, and it is the
   one looked for if there is one. *)
LEMMA LeftFinds ==
  ASSUME NEW list \in Seq(Nat), NEW id \in Nat, Ascending(list), NEW L \in Nat,
         L = Len(list), L >= 1, NEW left, Rounding(left, list, id)
  PROVE  \E base \in 1 .. L : /\ base = left[L].base
                              /\ \A i \in 1 .. L : list[i] = id => i = base
<1>0. /\ left[0] = [base |-> 1, size |-> L]
      /\ \A n \in Nat : n + 1 <= L => left[n + 1] = Halved(list, id, left[n])
  <2>1. \A n \in 0 .. L :
          left[n] = IF n = 0 THEN [base |-> 1, size |-> L] ELSE Halved(list, id, left[n - 1])
    BY DEF Rounding
  <2>2. left[0] = [base |-> 1, size |-> L]
    BY <2>1
  <2>3. ASSUME NEW n \in Nat, n + 1 <= L PROVE left[n + 1] = Halved(list, id, left[n])
    <3>1. n + 1 \in 0 .. L /\ n + 1 # 0 /\ (n + 1) - 1 = n
      BY <2>3
    <3>2. left[n + 1] = Halved(list, id, left[(n + 1) - 1])
      BY <2>1, <3>1, Zenon
    <3> QED
      BY <3>1, <3>2, Zenon
  <2> QED
    BY <2>2, <2>3
<1> DEFINE Good(n) == /\ left[n] \in Parts(L)
                      /\ left[n].size <= 1 \/ left[n].size + n <= L
                      /\ \A i \in 1 .. L : list[i] = id => In(i, left[n])
           S == {n \in Nat : n <= L => Good(n)}
<1>1. Good(0)
  <2>1. PICK a \in Parts(L) : a = left[0] /\ a.base = 1 /\ a.size = L
    BY <1>0 DEF Parts
  <2>2. \A i \in 1 .. L : In(i, a)
    BY <2>1 DEF In
  <2> QED
    BY <2>1, <2>2
<1>2. ASSUME NEW n \in Nat, Good(n), n + 1 <= L PROVE Good(n + 1)
  <2>1. PICK r \in Parts(L) :
          /\ r = left[n]
          /\ r.size <= 1 \/ r.size + n <= L
          /\ \A i \in 1 .. L : list[i] = id => In(i, r)
    BY <1>2
  <2>2. PICK h \in Parts(L) :
          /\ h = Halved(list, id, r)
          /\ r.size > 1 => h.size < r.size
          /\ h.size <= r.size
          /\ \A i \in Nat : In(i, r) /\ list[i] = id => In(i, h)
    BY HalvedKeeps
  <2>3. left[n + 1] = h
    BY <1>0, <1>2, <2>1, <2>2
  <2>4. r.size \in Nat /\ h.size \in Nat
    BY DEF Parts
  <2>5. h.size <= 1 \/ h.size + (n + 1) <= L
    BY <2>1, <2>2, <2>4
  <2>6. \A i \in 1 .. L : list[i] = id => In(i, h)
    BY <2>1, <2>2
  <2> QED
    BY <2>3, <2>5, <2>6
<1>3. Good(L)
  <2>1. 0 \in S
    BY <1>1
  <2>2. ASSUME NEW n \in Nat, n \in S PROVE n + 1 \in S
    BY <1>2, <2>2
  <2>3. \A n \in Nat : n \in S
    <3> HIDE DEF S
    <3> QED
      BY <2>1, <2>2, Induction
  <2>4. L \in S
    BY <2>3
  <2> QED
    BY <2>4
<1>4. PICK r \in Parts(L) :
        /\ r = left[L]
        /\ r.size <= 1 \/ r.size + L <= L
        /\ \A i \in 1 .. L : list[i] = id => In(i, r)
  BY <1>3
<1>5. r.base \in 1 .. L /\ r.size = 1
  BY <1>4 DEF Parts
<1>6. \A i \in 1 .. L : In(i, r) => i = r.base
  BY <1>5 DEF In
<1> QED
  BY <1>4, <1>5, <1>6

(* Settings::contains on a list in order: it finds the ids of the list and no
   others. *)
LEMMA SearchExact ==
  ASSUME NEW list \in Seq(Id), Ascending(list)
  PROVE  Exact(list)
<1> SUFFICES ASSUME NEW id \in Id PROVE Finds(list, id) <=> id \in Range(list)
  BY DEF Exact
<1>1. list \in Seq(Nat) /\ id \in Nat
  <2>1. Id \subseteq Nat
    BY GuiStateAssumption
  <2>2. list \in Seq(Nat) /\ id \in Nat
    BY <2>1, SeqMonotonic
  <2> QED
    BY <2>2
<1>2. CASE list = <<>>
  BY <1>2 DEF Finds, Range
<1>3. CASE list # <<>>
  <2>1. PICK L \in Nat : L = Len(list) /\ L >= 1 /\ DOMAIN list = 1 .. L
    BY <1>1, <1>3
  <2>2. PICK left : left = Left(list, id)
    OBVIOUS
  <2>3. Rounding(left, list, id)
    BY <1>1, <2>1, <2>2, LeftRounding
  <2>7. PICK base \in 1 .. L : base = left[L].base /\ \A i \in 1 .. L : list[i] = id => i = base
    BY <1>1, <2>1, <2>3, LeftFinds
  <2>8. Finds(list, id) <=> list # <<>> /\ list[left[Len(list)].base] = id
    BY <2>2 DEF Finds, Left, Rounding
  <2>9. id \in Range(list) <=> \E i \in 1 .. L : list[i] = id
    BY <2>1 DEF Range
  <2> QED
    BY <1>3, <2>1, <2>7, <2>8, <2>9
<1> QED
  BY <1>2, <1>3

-----------------------------------------------------------------------------
(* The inductive invariant of the settings and their files: the highlight list
   is in order wherever it is kept, what the button saves is in order, and the
   second file has it when it takes the first one's name. *)
Kept(s) == s \in Settings /\ Ascending(s.highlight)

SavedInv ==
  /\ Kept(settings) /\ Kept(draft)
  /\ file = None \/ Kept(file)
  /\ file # Torn
  /\ tmp \in Settings \cup {None, Torn}
  /\ window \in {"open", "writing", "renaming", "closed", "down"}
  /\ window = "renaming" => tmp = draft
  /\ locked \in BOOLEAN
  /\ locked => window \in {"writing", "renaming"}
  /\ ~locked /\ window \in {"writing", "renaming"} => \A l \in Lists : Ascending(draft[l])

LEMMA OrderlyKept ==
  ASSUME NEW old, Kept(old), NEW new, Orderly(old, new)
  PROVE  Kept(new)
<1>1. "highlight" \in Lists /\ old["highlight"] = old.highlight /\ new["highlight"] = new.highlight
  BY DEF Lists
<1> QED
  BY <1>1 DEF Kept, Orderly

LEMMA NotTorn == Torn \notin Settings /\ Torn # None
  BY WindowAssumption

LEMMA EndSaveKeeps ==
  ASSUME SavedInv, window \in {"writing", "renaming"}, EndSave
  PROVE  /\ Kept(settings') /\ window' \in {"closed", "open"} /\ locked' = FALSE
         /\ window' = "open" => ~locked /\ settings' = draft
  BY DEF SavedInv, EndSave

LEMMA SavedStep ==
  ASSUME SavedInv, [Next]_vars
  PROVE  SavedInv'
<1>0. Torn \notin Settings /\ Torn # None
  BY NotTorn
<1>1. CASE ClickAdd \/ ClickRemove \/ ClickAddGroup \/ ClickEnable \/ ClickPause
  <2>1. /\ Orderly(settings, settings') /\ window = "open"
        /\ UNCHANGED <<window, packets, fileVars, missed, events, locked>>
    BY <1>1, EditsOrderly DEF SavedInv, Kept
  <2>2. Kept(settings')
    BY <2>1, OrderlyKept DEF SavedInv
  <2> QED
    BY <2>1, <2>2 DEF SavedInv, fileVars, Kept
<1>2. CASE ClickClear \/ ClickPretty \/ TakeEvent \/ Capture \/ UNCHANGED vars
  <2>1. UNCHANGED <<settings, draft, file, tmp, window, locked>>
    BY <1>2 DEF ClickClear, ClickPretty, TakeEvent, Capture, vars, fileVars, guiVars, windowVars
  <2> QED
    BY <2>1 DEF SavedInv, Kept
<1>3. CASE ClickSave
  <2>1. /\ draft' = NormalizeAll(settings) /\ window = "open" /\ window' = "writing"
        /\ UNCHANGED <<file, tmp, settings, locked>>
    BY <1>3 DEF ClickSave, Click, guiVars
  <2>2. NormalizeAll(settings) \in Settings /\ \A l \in Lists : Ascending(NormalizeAll(settings)[l])
    BY AllNormalized DEF SavedInv, Kept
  <2>3. Kept(draft')
    BY <2>1, <2>2 DEF Kept, Lists
  <2> QED
    BY <2>1, <2>2, <2>3 DEF SavedInv, Kept
<1>4. CASE CloseWindow
  <2>1. /\ draft' = settings /\ window' = "writing" /\ locked' = TRUE
        /\ UNCHANGED <<file, tmp, settings>>
    BY <1>4 DEF CloseWindow
  <2> QED
    BY <2>1 DEF SavedInv, Kept
<1>5. CASE WriteTmp
  <2>1. CASE tmp' = draft /\ window' = "renaming" /\ UNCHANGED <<settings, locked>>
    BY <1>5, <2>1 DEF WriteTmp, SavedInv, Kept
  <2>2. CASE tmp' = Torn /\ EndSave
    <3>1. UNCHANGED <<draft, file>> /\ window = "writing"
      BY <1>5 DEF WriteTmp
    <3>2. /\ Kept(settings') /\ window' \in {"closed", "open"} /\ locked' = FALSE
      BY <2>2, <3>1, EndSaveKeeps
    <3> QED
      BY <2>2, <3>1, <3>2 DEF SavedInv, Kept
  <2> QED
    BY <1>5, <2>1, <2>2 DEF WriteTmp
<1>6. CASE Rename
  <2>1. /\ window = "renaming" /\ EndSave /\ draft' = draft
        /\ (file' = tmp /\ tmp' = None) \/ UNCHANGED <<file, tmp>>
    BY <1>6 DEF Rename
  <2>2. Kept(settings') /\ window' \in {"closed", "open"} /\ locked' = FALSE
    BY <2>1, EndSaveKeeps
  <2>3. tmp = draft
    BY <2>1 DEF SavedInv
  <2>4. CASE file' = tmp /\ tmp' = None
    BY <1>0, <2>1, <2>2, <2>3, <2>4 DEF SavedInv, Kept
  <2>5. CASE UNCHANGED <<file, tmp>>
    BY <2>1, <2>2, <2>5 DEF SavedInv, Kept
  <2> QED
    BY <2>1, <2>4, <2>5
<1>7. CASE Crash
  <2>1. /\ window' = "down" /\ locked' = FALSE
        /\ tmp' = Torn \/ tmp' = tmp
        /\ UNCHANGED <<draft, file, settings>>
    BY <1>7 DEF Crash
  <2> QED
    BY <2>1 DEF SavedInv, Kept
<1>8. CASE Start
  <2>1. /\ window' = "open" /\ settings' = Loaded /\ window = "down"
        /\ UNCHANGED <<draft, file, tmp, locked>>
    BY <1>8 DEF Start, fileVars
  <2>2. Kept(Loaded)
    BY GuiStateAssumption, SessionAssumption DEF Loaded, SavedInv, Kept
  <2> QED
    BY <2>1, <2>2 DEF SavedInv, Kept
<1> QED
  BY <1>1, <1>2, <1>3, <1>4, <1>5, <1>6, <1>7, <1>8 DEF Next, WindowNext, SaveStep

LEMMA SavedInit == Init => SavedInv
  BY GuiStateAssumption, SessionAssumption, NotTorn
     DEF Init, GuiInit, WindowInit, SavedInv, Kept

(* HighlightExact (contains at mitm_gui.rs:97): over all clicks, saves, crashes
   and starts the halving search finds exactly the ids of the highlight list. *)
THEOREM HighlightExactCorrect == Spec => []HighlightExact
<1>1. SavedInv => HighlightExact
  <2> SUFFICES ASSUME SavedInv PROVE HighlightExact
    OBVIOUS
  <2>1. settings.highlight \in Seq(Id) /\ Ascending(settings.highlight)
    BY DEF SavedInv, Kept, Settings
  <2> QED
    BY <2>1, SearchExact DEF HighlightExact
<1> QED
  BY <1>1, SavedInit, SavedStep, PTL DEF Spec

(* FileNeverTorn (save at mitm_gui.rs:91): whenever the program crashes, the
   file has the settings of an earlier save or there is none. *)
THEOREM FileNeverTornCorrect == Spec => []FileNeverTorn
<1>1. SavedInv => FileNeverTorn
  BY DEF SavedInv, FileNeverTorn
<1> QED
  BY <1>1, SavedInit, SavedStep, PTL DEF Spec

(* Tidied (normalize at mitm_gui.rs:100): what is in order stays so, and after
   the button every list of the window and of the file is searched exactly. *)
THEOREM TidiedCorrect == Spec => Tidied
<1> DEFINE A == \A l \in Lists :
       /\ window # "down" /\ Ascending(settings[l]) => Ascending(settings'[l])
       /\ ~locked /\ window = "renaming" /\ window' = "open" =>
            /\ Exact(settings'[l])
            /\ file' # file => Exact(file'[l])
<1>1. SavedInv /\ [Next]_vars => [A]_vars
  <2> SUFFICES ASSUME SavedInv, Next, NEW l \in Lists
               PROVE  /\ window # "down" /\ Ascending(settings[l]) => Ascending(settings'[l])
                      /\ ~locked /\ window = "renaming" /\ window' = "open" =>
                           /\ Exact(settings'[l])
                           /\ file' # file => Exact(file'[l])
    OBVIOUS
  <2>1. CASE ClickAdd \/ ClickRemove \/ ClickAddGroup \/ ClickEnable \/ ClickPause
    BY <2>1, EditsOrderly DEF SavedInv, Kept, Orderly
  <2>2. CASE ClickClear \/ ClickPretty \/ TakeEvent \/ Capture \/ Crash
    BY <2>2 DEF ClickClear, ClickPretty, TakeEvent, Capture, Crash, Click, guiVars, windowVars
  <2>3. CASE ClickSave \/ CloseWindow
    BY <2>3 DEF ClickSave, CloseWindow, Click, guiVars
  <2>4. CASE WriteTmp
    <3>1. CASE tmp' = Torn /\ EndSave
      BY <2>4, <3>1 DEF WriteTmp, EndSave, SavedInv
    <3> QED
      BY <2>4, <3>1 DEF WriteTmp
  <2>5. CASE Rename
    <3>1. /\ window = "renaming" /\ EndSave /\ draft' = draft /\ tmp = draft
          /\ file' = tmp \/ UNCHANGED file
      BY <2>5 DEF Rename, SavedInv
    <3>2. ~locked => Ascending(draft[l]) /\ settings' = draft
      BY <3>1 DEF EndSave, SavedInv
    <3>3. ~locked => Exact(draft[l])
      BY <3>2, ListsOfSettings, SearchExact DEF SavedInv, Kept
    <3>4. locked => settings' = settings /\ window' = "closed"
      BY <3>1 DEF EndSave
    <3> QED
      BY <3>1, <3>2, <3>3, <3>4
  <2>6. CASE Start
    BY <2>6 DEF Start
  <2> QED
    BY <2>1, <2>2, <2>3, <2>4, <2>5, <2>6 DEF Next, WindowNext, SaveStep
<1> QED
  BY <1>1, SavedInit, SavedStep, PTL DEF Spec, Tidied

-----------------------------------------------------------------------------
(* Packets in packets, and what is shown of them: dissect goes as deep as the
   packet does. *)
Nesting(f, m) ==
  f = [n \in 0 .. m |-> IF n = 0 THEN Plain ELSE f[n - 1] \cup Packing(f[n - 1])]

LEMMA NestingExists == \A m \in Nat : \E f : Nesting(f, m)
<1> DEFINE S == {m \in Nat : \E f : Nesting(f, m)}
<1>1. 0 \in S
  <2> DEFINE f == [n \in 0 .. 0 |-> Plain]
  <2>1. f = [n \in 0 .. 0 |-> IF n = 0 THEN Plain ELSE f[n - 1] \cup Packing(f[n - 1])]
    OBVIOUS
  <2>2. Nesting(f, 0)
    BY <2>1, Zenon DEF Nesting
  <2> HIDE DEF f
  <2> QED
    BY <2>2
<1>2. ASSUME NEW m \in Nat, m \in S PROVE m + 1 \in S
  <2>1. PICK f : Nesting(f, m)
    BY <1>2
  <2>2. \A n \in 0 .. m : f[n] = IF n = 0 THEN Plain ELSE f[n - 1] \cup Packing(f[n - 1])
    BY <2>1 DEF Nesting
  <2> DEFINE g == [n \in 0 .. m + 1 |-> IF n = m + 1 THEN f[m] \cup Packing(f[m]) ELSE f[n]]
  <2>3. \A n \in 0 .. m : g[n] = f[n]
    OBVIOUS
  <2>4. ASSUME NEW n \in 0 .. m + 1
        PROVE  g[n] = IF n = 0 THEN Plain ELSE g[n - 1] \cup Packing(g[n - 1])
    <3>1. CASE n = m + 1
      <4>1. g[n] = f[m] \cup Packing(f[m]) /\ n - 1 = m /\ n # 0
        BY <3>1
      <4> HIDE DEF g
      <4> QED
        BY <2>3, <4>1
    <3>2. CASE n # m + 1
      <4>1. n \in 0 .. m /\ (n # 0 => n - 1 \in 0 .. m)
        BY <3>2
      <4> HIDE DEF g
      <4> QED
        BY <2>2, <2>3, <4>1
    <3> QED
      BY <3>1, <3>2
  <2>5. Nesting(g, m + 1)
    <3>1. \A n \in 0 .. m + 1 : g[n] = IF n = m + 1 THEN f[m] \cup Packing(f[m]) ELSE f[n]
      OBVIOUS
    <3>2. g = [n \in 0 .. m + 1 |-> g[n]]
      OBVIOUS
    <3> HIDE DEF g
    <3> QED
      BY <2>4, <3>2 DEF Nesting
  <2> HIDE DEF g
  <2> QED
    BY <2>5
<1> HIDE DEF S
<1>3. \A m \in Nat : m \in S
  BY <1>1, <1>2, Induction
<1> QED
  BY <1>3 DEF S

(* The packets of every depth: what is inside of one is less deep. *)
LEMMA PacketLevels ==
  \E level :
    /\ Packet = level[Depth] /\ level[0] = Plain
    /\ \A n \in Nat : n + 1 <= Depth => level[n + 1] = level[n] \cup Packing(level[n])
<1>1. Depth \in Nat
  BY ViewAssumption
<1>2. PICK level : level = CHOOSE f : Nesting(f, Depth)
  OBVIOUS
<1>3. Nesting(level, Depth)
  BY <1>1, <1>2, NestingExists, Zenon
<1>4. Packet = level[Depth]
  BY <1>2 DEF Packet, Nesting
<1>5. \A n \in 0 .. Depth :
        level[n] = IF n = 0 THEN Plain ELSE level[n - 1] \cup Packing(level[n - 1])
  BY <1>3 DEF Nesting
<1>6. level[0] = Plain
  <2>1. 0 \in 0 .. Depth
    BY <1>1
  <2> QED
    BY <1>5, <2>1, Zenon
<1>7. ASSUME NEW n \in Nat, n + 1 <= Depth PROVE level[n + 1] = level[n] \cup Packing(level[n])
  <2>1. n + 1 \in 0 .. Depth /\ n + 1 # 0 /\ (n + 1) - 1 = n
    BY <1>1, <1>7
  <2>2. level[n + 1] = level[(n + 1) - 1] \cup Packing(level[(n + 1) - 1])
    BY <1>5, <2>1, Zenon
  <2> QED
    BY <2>1, <2>2, Zenon
<1> QED
  BY <1>4, <1>6, <1>7

(* A packet is one of these levels, and so is what is inside of it. *)
Levels(level) ==
  /\ Packet = level[Depth] /\ level[0] = Plain
  /\ \A n \in Nat : n + 1 <= Depth => level[n + 1] = level[n] \cup Packing(level[n])

LEMMA PlainClosed ==
  ASSUME NEW p \in Plain
  PROVE  ~Opens(p)
BY DEF Plain, Opens

LEMMA PackingInside ==
  ASSUME NEW X, NEW p \in Packing(X)
  PROVE  p.inside \in X
BY DEF Packing

(* What is inside of a packet that opens is less deep, so that dissecting ends. *)
LEMMA InsideLevel ==
  ASSUME NEW level, Levels(level)
  PROVE  \A n \in Nat : n <= Depth =>
           \A p \in level[n] : Opens(p) => p.inside \in level[n]
<1> DEFINE Good(n) == \A p \in level[n] : Opens(p) => p.inside \in level[n]
           S == {n \in Nat : n <= Depth => Good(n)}
<1>0. Depth \in Nat
  BY ViewAssumption
<1>1. 0 \in S
  <2>1. Good(0)
    BY PlainClosed DEF Levels
  <2> QED
    BY <2>1
<1>2. ASSUME NEW n \in Nat, n \in S PROVE n + 1 \in S
  <2>1. CASE n + 1 <= Depth
    <3>1. Good(n) /\ level[n + 1] = level[n] \cup Packing(level[n])
      BY <1>0, <1>2, <2>1 DEF Levels
    <3>2. Good(n + 1)
      BY <3>1, PackingInside
    <3> QED
      BY <3>2
  <2>2. CASE ~(n + 1 <= Depth)
    BY <2>2
  <2> QED
    BY <2>1, <2>2
<1>3. \A n \in Nat : n \in S
  <2> HIDE DEF S
  <2> QED
    BY <1>1, <1>2, Induction
<1> QED
  BY <1>3

(* The levels grow. *)
LEMMA LevelsGrow ==
  ASSUME NEW level, Levels(level)
  PROVE  \A n \in Nat : n <= Depth => level[n] \subseteq Packet
<1>0. Depth \in Nat
  BY ViewAssumption
<1> DEFINE S == {k \in Nat : k <= Depth => level[Depth - k] \subseteq Packet}
<1>1. 0 \in S
  BY <1>0 DEF Levels
<1>2. ASSUME NEW k \in Nat, k \in S PROVE k + 1 \in S
  <2>1. CASE k + 1 <= Depth
    <3>1. /\ level[Depth - k] \subseteq Packet
          /\ Depth - (k + 1) \in Nat /\ (Depth - (k + 1)) + 1 = Depth - k
          /\ (Depth - (k + 1)) + 1 <= Depth
      BY <1>0, <1>2, <2>1
    <3>2. level[(Depth - (k + 1)) + 1] = level[Depth - (k + 1)] \cup Packing(level[Depth - (k + 1)])
      BY <3>1 DEF Levels
    <3>3. level[Depth - (k + 1)] \subseteq Packet
      BY <3>1, <3>2
    <3> QED
      BY <3>3
  <2>2. CASE ~(k + 1 <= Depth)
    BY <2>2
  <2> QED
    BY <2>1, <2>2
<1>3. \A n \in Nat : n \in S
  <2> HIDE DEF S
  <2> QED
    BY <1>1, <1>2, Induction
<1>4. ASSUME NEW n \in Nat, n <= Depth PROVE level[n] \subseteq Packet
  <2>1. PICK k \in Nat : k = Depth - n /\ k <= Depth /\ Depth - k = n
    BY <1>0, <1>4
  <2>2. k \in S
    BY <1>3
  <2> QED
    BY <2>1, <2>2
<1> QED
  BY <1>4

(* What dissect computes for the packets of a set. *)
Showing(f, P, source, pretty) ==
  f = [p \in P |-> IF Opens(p) THEN [f[p.inside] EXCEPT !.compressed = TRUE]
                               ELSE View(source, p, pretty)]

LEMMA ShowingExists ==
  ASSUME NEW source, NEW pretty
  PROVE  \E f : Showing(f, Packet, source, pretty)
<1>0. Depth \in Nat
  BY ViewAssumption
<1>1. PICK level : Levels(level)
  BY PacketLevels DEF Levels
<1> DEFINE S == {n \in Nat : n <= Depth => \E f : Showing(f, level[n], source, pretty)}
<1>2. 0 \in S
  <2> DEFINE f == [p \in Plain |-> View(source, p, pretty)]
  <2>1. \A p \in Plain : f[p] = IF Opens(p) THEN [f[p.inside] EXCEPT !.compressed = TRUE]
                                          ELSE View(source, p, pretty)
    BY PlainClosed
  <2>2. f = [p \in Plain |-> f[p]]
    OBVIOUS
  <2>3. Showing(f, level[0], source, pretty)
    <3>1. level[0] = Plain
      BY <1>1 DEF Levels
    <3> HIDE DEF f
    <3> QED
      BY <2>1, <2>2, <3>1 DEF Showing
  <2> HIDE DEF f
  <2> QED
    BY <2>3
<1>3. ASSUME NEW n \in Nat, n \in S PROVE n + 1 \in S
  <2> SUFFICES ASSUME n + 1 <= Depth PROVE \E f : Showing(f, level[n + 1], source, pretty)
    OBVIOUS
  <2>1. PICK f : Showing(f, level[n], source, pretty)
    BY <1>0, <1>3
  <2>2. level[n + 1] = level[n] \cup Packing(level[n])
    BY <1>1 DEF Levels
  <2>3. \A p \in level[n + 1] : Opens(p) => p.inside \in level[n]
    <3>1. \A p \in level[n] : Opens(p) => p.inside \in level[n]
      BY <1>0, <1>1, InsideLevel
    <3> QED
      BY <2>2, <3>1, PackingInside
  <2>4. \A p \in level[n] :
          f[p] = IF Opens(p) THEN [f[p.inside] EXCEPT !.compressed = TRUE]
                             ELSE View(source, p, pretty)
    BY <2>1 DEF Showing
  <2> DEFINE g == [p \in level[n + 1] |->
                     IF Opens(p) THEN [f[p.inside] EXCEPT !.compressed = TRUE]
                                 ELSE View(source, p, pretty)]
  <2>5. \A p \in level[n] : g[p] = f[p]
    BY <2>2, <2>4
  <2>6. \A p \in level[n + 1] :
          g[p] = IF Opens(p) THEN [g[p.inside] EXCEPT !.compressed = TRUE]
                             ELSE View(source, p, pretty)
    <3>1. \A p \in level[n + 1] :
            g[p] = IF Opens(p) THEN [f[p.inside] EXCEPT !.compressed = TRUE]
                               ELSE View(source, p, pretty)
      OBVIOUS
    <3> HIDE DEF g
    <3> QED
      BY <2>3, <2>5, <3>1
  <2>7. g = [p \in level[n + 1] |-> g[p]]
    OBVIOUS
  <2> HIDE DEF g
  <2>8. Showing(g, level[n + 1], source, pretty)
    BY <2>6, <2>7 DEF Showing
  <2> QED
    BY <2>8
<1>4. \A n \in Nat : n \in S
  <2> HIDE DEF S
  <2> QED
    BY <1>2, <1>3, Induction
<1>5. Depth \in S
  BY <1>0, <1>4
<1>6. \E f : Showing(f, level[Depth], source, pretty)
  BY <1>0, <1>5
<1> QED
  BY <1>1, <1>6 DEF Levels

(* dissect, one packet at a time. *)
LEMMA DissectRule ==
  ASSUME NEW source, NEW pretty, NEW p \in Packet
  PROVE  Dissect(source, p, pretty) =
           IF Opens(p) THEN [Dissect(source, p.inside, pretty) EXCEPT !.compressed = TRUE]
                       ELSE View(source, p, pretty)
<1>1. PICK show : show = CHOOSE f : Showing(f, Packet, source, pretty)
  OBVIOUS
<1>2. Showing(show, Packet, source, pretty)
  BY <1>1, ShowingExists, Zenon
<1>3. \A q : Dissect(source, q, pretty) = show[q]
  BY <1>1 DEF Dissect, Showing
<1>4. show[p] = IF Opens(p) THEN [show[p.inside] EXCEPT !.compressed = TRUE]
                            ELSE View(source, p, pretty)
  BY <1>2 DEF Showing
<1> QED
  BY <1>3, <1>4

(* A packet is shown as the packet at its core, marked if it was packed. *)
LEMMA DissectCore ==
  \A p \in Packet : \E c \in Packet, flag \in BOOLEAN :
    /\ ~Opens(c)
    /\ \A source, pretty :
         Dissect(source, p, pretty) = [View(source, c, pretty) EXCEPT !.compressed = flag]
<1>0. Depth \in Nat
  BY ViewAssumption
<1>1. PICK level : Levels(level)
  BY PacketLevels DEF Levels
<1> DEFINE Core(p) == \E c \in Packet, flag \in BOOLEAN :
             /\ ~Opens(c)
             /\ \A source, pretty :
                  Dissect(source, p, pretty) = [View(source, c, pretty) EXCEPT !.compressed = flag]
           S == {n \in Nat : n <= Depth => \A p \in level[n] : Core(p)}
<1>2. ASSUME NEW p \in Packet, ~Opens(p) PROVE Core(p)
  <2>1. \A source, pretty :
          Dissect(source, p, pretty) = [View(source, p, pretty) EXCEPT !.compressed = FALSE]
    BY <1>2, DissectRule DEF View
  <2> QED
    BY <1>2, <2>1
<1>3. ASSUME NEW p \in Packet, Opens(p), Core(p.inside) PROVE Core(p)
  <2>1. PICK c \in Packet, flag \in BOOLEAN :
          /\ ~Opens(c)
          /\ \A source, pretty : Dissect(source, p.inside, pretty)
                                  = [View(source, c, pretty) EXCEPT !.compressed = flag]
    BY <1>3
  <2>2. ASSUME NEW source, NEW pretty
        PROVE  Dissect(source, p, pretty) = [View(source, c, pretty) EXCEPT !.compressed = TRUE]
    <3>1. Dissect(source, p, pretty) = [Dissect(source, p.inside, pretty) EXCEPT !.compressed = TRUE]
      BY <1>3, DissectRule
    <3>2. Dissect(source, p.inside, pretty) = [View(source, c, pretty) EXCEPT !.compressed = flag]
      BY <2>1
    <3> QED
      BY <3>1, <3>2 DEF View
  <2> QED
    BY <2>1, <2>2
<1>4. \A n \in Nat : n <= Depth => level[n] \subseteq Packet
  BY <1>1, LevelsGrow
<1>5. \A n \in Nat : n <= Depth => \A p \in level[n] : Opens(p) => p.inside \in level[n]
  BY <1>1, InsideLevel
<1> HIDE DEF Core
<1>6. 0 \in S
  <2>1. \A p \in level[0] : ~Opens(p) /\ p \in Packet
    BY <1>0, <1>1, <1>4, PlainClosed DEF Levels
  <2> QED
    BY <1>2, <2>1
<1>7. ASSUME NEW n \in Nat, n \in S PROVE n + 1 \in S
  <2> SUFFICES ASSUME n + 1 <= Depth, NEW p \in level[n + 1] PROVE Core(p)
    OBVIOUS
  <2>1. p \in Packet /\ \A q \in level[n] : Core(q)
    BY <1>0, <1>4, <1>7
  <2>2. p \in level[n] \/ p \in Packing(level[n])
    BY <1>1 DEF Levels
  <2>3. CASE p \in level[n]
    BY <2>1, <2>3
  <2>4. CASE p \in Packing(level[n])
    <3>1. p.inside \in level[n]
      BY <2>4, PackingInside
    <3> QED
      BY <1>2, <1>3, <2>1, <3>1
  <2> QED
    BY <2>2, <2>3, <2>4
<1>8. \A n \in Nat : n \in S
  <2> HIDE DEF S
  <2> QED
    BY <1>6, <1>7, Induction
<1>9. Depth \in S /\ Packet = level[Depth]
  BY <1>0, <1>1, <1>8 DEF Levels
<1>10. \A p \in Packet : Core(p)
  BY <1>0, <1>9
<1> QED
  BY <1>10 DEF Core

(* What an event that is kept shows: the packet that was traced. *)
Shown(e) ==
  /\ e.of \in Traced
  /\ e.view = Dissect(e.of.source, e.of.packet, e.view.pretty)

ViewInv ==
  /\ \A k \in DOMAIN packets : Shown(packets[k])
  /\ \A k \in DOMAIN events : Shown(events[k])

LEMMA DissectPretty ==
  ASSUME NEW source, NEW p \in Packet, NEW pretty
  PROVE  Dissect(source, p, pretty).pretty = pretty
<1>1. PICK c \in Packet, flag \in BOOLEAN :
        \A s, q : Dissect(s, p, q) = [View(s, c, q) EXCEPT !.compressed = flag]
  BY DissectCore
<1>2. Dissect(source, p, pretty) = [View(source, c, pretty) EXCEPT !.compressed = flag]
  BY <1>1
<1> QED
  BY <1>2 DEF View

(* redissect of what is shown shows the same packet. *)
LEMMA RedissectShows ==
  ASSUME NEW source, NEW p \in Packet, NEW r, NEW pretty
  PROVE  Redissect(Dissect(source, p, r), pretty) = Dissect(source, p, pretty)
<1>1. PICK c \in Packet, flag \in BOOLEAN :
        /\ ~Opens(c)
        /\ \A s, q : Dissect(s, p, q) = [View(s, c, q) EXCEPT !.compressed = flag]
  BY DissectCore
<1>2. PICK v : v = Dissect(source, p, r)
  OBVIOUS
<1>3. v = [View(source, c, r) EXCEPT !.compressed = flag]
  BY <1>1, <1>2
<1>4. v.source = source /\ v.data = c /\ v.compressed = flag
  BY <1>3 DEF View
<1>5. Dissect(source, c, pretty) = View(source, c, pretty)
  BY <1>1, DissectRule
<1>6. Redissect(v, pretty) = [View(source, c, pretty) EXCEPT !.compressed = flag]
  BY <1>4, <1>5 DEF Redissect
<1>7. Dissect(source, p, pretty) = [View(source, c, pretty) EXCEPT !.compressed = flag]
  BY <1>1
<1> QED
  BY <1>2, <1>6, <1>7

LEMMA TracedPackets == \A t \in Traced : t.packet \in Packet
  BY SessionAssumption

LEMMA CaptureShows ==
  ASSUME OrderInv, ViewInv, Capture
  PROVE  ViewInv'
<1>1. PICK V : Consistent(V)
  BY DEF OrderInv
<1>2. PICK queue \in Seq(EventOf(V)) : queue = events
  BY <1>1 DEF Consistent
<1>3. PICK t \in Traced :
        TrySend([n |-> captured + 1, of |-> t, view |-> Dissect(t.source, t.packet, FALSE)])
  BY DEF Capture
<1>4. PICK e : e = [n |-> captured + 1, of |-> t, view |-> Dissect(t.source, t.packet, FALSE)]
  OBVIOUS
<1>5. Shown(e)
  <2>1. e.of = t /\ e.view = Dissect(t.source, t.packet, FALSE)
    BY <1>4
  <2>2. e.view.pretty = FALSE
    <3>1. Dissect(t.source, t.packet, FALSE).pretty = FALSE
      BY TracedPackets, DissectPretty
    <3> QED
      BY <2>1, <3>1
  <2> QED
    BY <2>1, <2>2 DEF Shown
<1>6. packets' = packets
  BY DEF Capture, windowVars
<1>7. events' = Append(events, e) \/ events' = events
  BY <1>3, <1>4 DEF TrySend
<1>8. CASE events' = Append(events, e)
  <2>1. events' = Append(queue, e)
    BY <1>2, <1>8
  <2>2. /\ DOMAIN Append(queue, e) = 1 .. Len(queue) + 1
        /\ \A k \in 1 .. Len(queue) : Append(queue, e)[k] = queue[k]
        /\ Append(queue, e)[Len(queue) + 1] = e
        /\ DOMAIN queue = 1 .. Len(queue) /\ Len(queue) \in Nat
    OBVIOUS
  <2>3. \A k \in 1 .. Len(queue) + 1 : k \in 1 .. Len(queue) \/ k = Len(queue) + 1
    BY <2>2
  <2>4. \A k \in DOMAIN events' : Shown(events'[k])
    BY <1>2, <1>5, <2>1, <2>2, <2>3 DEF ViewInv
  <2> QED
    BY <1>6, <2>4 DEF ViewInv, Shown
<1>9. CASE events' = events
  BY <1>6, <1>9 DEF ViewInv, Shown
<1> QED
  BY <1>7, <1>8, <1>9

LEMMA ClickPrettyShows ==
  ASSUME OrderInv, ViewInv, ClickPretty
  PROVE  ViewInv'
<1>1. PICK V : Consistent(V)
  BY DEF OrderInv
<1>2. PICK list \in Seq(EventOf(V)) : list = packets
  BY <1>1 DEF Consistent
<1>3. PICK k \in DOMAIN packets :
        packets' = [packets EXCEPT ![k].view = Redissect(@, ~@.pretty)]
  BY DEF ClickPretty
<1>4. PICK pretty : pretty = ~packets[k].view.pretty
  OBVIOUS
<1>5. packets' = [packets EXCEPT ![k] = [packets[k] EXCEPT !.view = Redissect(packets[k].view, pretty)]]
  BY <1>3, <1>4
<1>6. events' = events
  BY DEF ClickPretty, guiVars
<1>7. packets[k] \in EventOf(V) /\ Shown(packets[k]) /\ packets[k].of.packet \in Packet
  BY <1>2, TracedPackets DEF ViewInv, Shown
<1>8. PICK e : e = [packets[k] EXCEPT !.view = Redissect(packets[k].view, pretty)]
  OBVIOUS
<1>9. e.of = packets[k].of /\ e.view = Redissect(packets[k].view, pretty)
  BY <1>7, <1>8 DEF EventOf
<1>10. Shown(e)
  <2>1. e.view = Dissect(e.of.source, e.of.packet, pretty)
    BY <1>7, <1>9, RedissectShows DEF Shown
  <2>2. e.view.pretty = pretty
    BY <1>7, <1>9, <2>1, DissectPretty
  <2> QED
    BY <1>7, <1>9, <2>1, <2>2 DEF Shown
<1>11. /\ DOMAIN packets' = DOMAIN packets
       /\ \A j \in DOMAIN packets : packets'[j] = IF j = k THEN e ELSE packets[j]
  BY <1>2, <1>5, <1>8
<1>12. \A j \in DOMAIN packets' : Shown(packets'[j])
  BY <1>10, <1>11 DEF ViewInv
<1> QED
  BY <1>6, <1>12 DEF ViewInv, Shown

LEMMA TakeEventShows ==
  ASSUME OrderInv, ViewInv, TakeEvent
  PROVE  ViewInv'
<1>1. PICK V : Consistent(V)
  BY DEF OrderInv
<1>2. PICK list \in Seq(EventOf(V)), queue \in Seq(EventOf(V)) : list = packets /\ queue = events
  BY <1>1, Zenon DEF Consistent
<1>3. PICK longer : longer = Append(list, Head(queue))
  OBVIOUS
<1>4. /\ queue # <<>> /\ events' = Tail(queue)
      /\ packets' = IF settings.paused THEN list ELSE Trimmed(longer)
  BY <1>2, <1>3, Zenon DEF TakeEvent
<1>5. PICK rest : rest = Tail(queue)
  OBVIOUS
<1>6. /\ rest \in Seq(EventOf(V)) /\ Head(queue) \in EventOf(V)
      /\ Len(queue) \in Nat /\ Len(queue) > 0 /\ Len(rest) = Len(queue) - 1
      /\ Head(queue) = queue[1]
      /\ \A k \in 1 .. Len(rest) : rest[k] = queue[k + 1]
  BY <1>4, <1>5, Behind
<1>7. /\ DOMAIN list = 1 .. Len(list) /\ DOMAIN queue = 1 .. Len(queue)
      /\ DOMAIN rest = 1 .. Len(rest)
      /\ Len(list) \in Nat
  BY <1>6
<1>8. Shown(queue[1]) /\ \A k \in 1 .. Len(list) : Shown(list[k])
  BY <1>2, <1>6, <1>7 DEF ViewInv
<1>9. \A k \in DOMAIN rest : Shown(rest[k])
  <2> TAKE k \in DOMAIN rest
  <2>1. k + 1 \in DOMAIN queue /\ rest[k] = queue[k + 1]
    BY <1>6, <1>7
  <2> QED
    BY <1>2, <2>1 DEF ViewInv
<1>10. /\ longer \in Seq(EventOf(V)) /\ Len(longer) = Len(list) + 1
       /\ \A k \in 1 .. Len(longer) : Shown(longer[k])
  <2>1. /\ longer \in Seq(EventOf(V)) /\ Len(longer) = Len(list) + 1
        /\ longer[Len(list) + 1] = queue[1]
        /\ \A k \in 1 .. Len(list) : longer[k] = list[k]
    BY <1>3, <1>6, Appended
  <2>2. \A k \in 1 .. Len(longer) : k \in 1 .. Len(list) \/ k = Len(list) + 1
    BY <1>7, <2>1
  <2> QED
    BY <1>8, <2>1, <2>2
<1>11. \A k \in DOMAIN Trimmed(longer) : Shown(Trimmed(longer)[k])
  <2>1. CASE Len(longer) > CLEAR_THRESHOLD
    <3>1. PICK short : short = SubSeq(longer, CLEAR_COUNT + 1, Len(longer))
      OBVIOUS
    <3>2. CLEAR_COUNT \in Nat
      BY WindowAssumption
    <3>3. /\ short \in Seq(EventOf(V))
          /\ \A k \in 1 .. Len(short) :
               CLEAR_COUNT + k \in 1 .. Len(longer) /\ short[k] = longer[CLEAR_COUNT + k]
      BY <1>10, <3>1, <3>2, Shortened
    <3>4. Trimmed(longer) = short /\ DOMAIN short = 1 .. Len(short)
      BY <2>1, <3>1, <3>3 DEF Trimmed
    <3> QED
      BY <1>10, <3>3, <3>4
  <2>2. CASE ~(Len(longer) > CLEAR_THRESHOLD)
    BY <1>10, <2>2 DEF Trimmed
  <2> QED
    BY <2>1, <2>2
<1>12. \A k \in DOMAIN packets' : Shown(packets'[k])
  BY <1>4, <1>7, <1>8, <1>11
<1>13. \A k \in DOMAIN events' : Shown(events'[k])
  BY <1>4, <1>5, <1>9
<1> QED
  BY <1>12, <1>13 DEF ViewInv, Shown

LEMMA ViewStep ==
  ASSUME OrderInv, ViewInv, [Next]_vars
  PROVE  ViewInv'
<1>1. CASE Capture
  BY <1>1, CaptureShows
<1>2. CASE ClickPretty
  BY <1>2, ClickPrettyShows
<1>3. CASE TakeEvent
  BY <1>3, TakeEventShows
<1>4. CASE ClickClear
  BY <1>4 DEF ClickClear, ViewInv, Shown
<1>5. CASE Crash
  BY <1>5 DEF Crash, ViewInv, Shown
<1>6. CASE ClickAdd \/ ClickRemove \/ ClickAddGroup \/ ClickEnable \/ ClickPause
  <2>1. ASSUME NEW what, NEW new, Edit(what, new) PROVE UNCHANGED <<packets, events>>
    BY <2>1 DEF Edit
  <2>2. UNCHANGED <<packets, events>>
    BY <1>6, <2>1 DEF ClickAdd, ClickRemove, ClickAddGroup, ClickEnable, ClickPause
  <2> QED
    BY <2>2 DEF ViewInv, Shown
<1>7. CASE ClickSave \/ CloseWindow \/ SaveStep \/ Start \/ UNCHANGED vars
  <2>1. UNCHANGED <<packets, events>>
    BY <1>7 DEF ClickSave, CloseWindow, SaveStep, WriteTmp, Rename, Start, guiVars, vars, windowVars
  <2> QED
    BY <2>1 DEF ViewInv, Shown
<1> QED
  BY <1>1, <1>2, <1>3, <1>4, <1>5, <1>6, <1>7 DEF Next, WindowNext

(* ViewOfTraced (redissect at packet_view.rs:34): however often the user
   switches, what is shown of a packet is the view of the packet traced, for
   packets packed in packets of any depth. *)
THEOREM ViewOfTracedCorrect == Spec => []ViewOfTraced
<1>1. Init => OrderInv /\ ViewInv
  <2> SUFFICES ASSUME Init PROVE OrderInv /\ ViewInv
    OBVIOUS
  <2>1. packets = <<>> /\ events = <<>>
    BY DEF Init, GuiInit, WindowInit
  <2>2. ViewInv
    BY <2>1 DEF ViewInv
  <2> QED
    BY <2>2, OrderInit
<1>2. OrderInv /\ ViewInv /\ [Next]_vars => OrderInv' /\ ViewInv'
  BY OrderStep, ViewStep
<1>3. ViewInv => ViewOfTraced
  BY DEF ViewInv, Shown, ViewOfTraced
<1> QED
  BY <1>1, <1>2, <1>3, PTL DEF Spec

-----------------------------------------------------------------------------
(* The list and the channel stay within their limits. *)
BoundInv == Len(packets) <= CLEAR_THRESHOLD /\ Len(events) <= EVENT_CAPACITY

LEMMA TakeEventBound ==
  ASSUME OrderInv, BoundInv, TakeEvent
  PROVE  BoundInv'
<1>1. PICK V : Consistent(V)
  BY DEF OrderInv
<1>2. PICK list \in Seq(EventOf(V)), queue \in Seq(EventOf(V)) : list = packets /\ queue = events
  BY <1>1, Zenon DEF Consistent
<1>3. PICK longer : longer = Append(list, Head(queue))
  OBVIOUS
<1>4. /\ queue # <<>> /\ events' = Tail(queue)
      /\ packets' = IF settings.paused THEN list ELSE Trimmed(longer)
  BY <1>2, <1>3, Zenon DEF TakeEvent
<1>5. PICK rest : rest = Tail(queue)
  OBVIOUS
<1>6. /\ rest \in Seq(EventOf(V)) /\ Head(queue) \in EventOf(V)
      /\ Len(queue) \in Nat /\ Len(queue) > 0 /\ Len(rest) = Len(queue) - 1
  BY <1>4, <1>5, Behind
<1>7. Len(events') <= EVENT_CAPACITY
  BY <1>2, <1>4, <1>5, <1>6, GuiStateAssumption DEF BoundInv
<1>8. longer \in Seq(EventOf(V)) /\ Len(longer) = Len(list) + 1
  BY <1>3, <1>6, Appended
<1>9. Len(Trimmed(longer)) <= CLEAR_THRESHOLD
  <2>1. CASE Len(longer) > CLEAR_THRESHOLD
    <3>1. PICK short : short = SubSeq(longer, CLEAR_COUNT + 1, Len(longer))
      OBVIOUS
    <3>2. CLEAR_COUNT \in Nat /\ CLEAR_COUNT > 0 /\ CLEAR_THRESHOLD \in Nat
      BY WindowAssumption
    <3>3. Len(short) = IF CLEAR_COUNT <= Len(longer) THEN Len(longer) - CLEAR_COUNT ELSE 0
      BY <1>8, <3>1, <3>2, Shortened
    <3>4. Trimmed(longer) = short
      BY <2>1, <3>1 DEF Trimmed
    <3>5. Len(longer) <= CLEAR_THRESHOLD + 1 /\ Len(longer) \in Nat
      BY <1>2, <1>8, <3>2 DEF BoundInv
    <3> QED
      BY <3>2, <3>3, <3>4, <3>5
  <2>2. CASE ~(Len(longer) > CLEAR_THRESHOLD)
    BY <1>8, <2>2, WindowAssumption DEF Trimmed
  <2> QED
    BY <2>1, <2>2
<1>10. Len(packets') <= CLEAR_THRESHOLD
  BY <1>2, <1>4, <1>9 DEF BoundInv
<1> QED
  BY <1>7, <1>10 DEF BoundInv

LEMMA BoundStep ==
  ASSUME OrderInv, BoundInv, [Next]_vars
  PROVE  BoundInv'
<1>1. CASE Capture
  <2>1. PICK V : Consistent(V)
    BY DEF OrderInv
  <2>2. PICK queue \in Seq(EventOf(V)) : queue = events
    BY <2>1 DEF Consistent
  <2>3. packets' = packets
    BY <1>1 DEF Capture, windowVars
  <2>4. PICK e : TrySend(e)
    BY <1>1 DEF Capture
  <2>5. CASE Len(events) < EVENT_CAPACITY /\ events' = Append(events, e)
    <3>1. Len(events') = Len(queue) + 1 /\ Len(queue) \in Nat
      BY <2>2, <2>5
    <3> QED
      BY <2>2, <2>3, <2>5, <3>1, GuiStateAssumption DEF BoundInv
  <2>6. CASE events' = events
    BY <2>3, <2>6 DEF BoundInv
  <2> QED
    BY <2>4, <2>5, <2>6 DEF TrySend
<1>2. CASE ClickPretty
  <2>1. PICK V : Consistent(V)
    BY DEF OrderInv
  <2>2. PICK list \in Seq(EventOf(V)) : list = packets
    BY <2>1 DEF Consistent
  <2>3. events' = events
    BY <1>2 DEF ClickPretty, guiVars
  <2>4. PICK k \in DOMAIN packets :
          \E v : packets' = [packets EXCEPT ![k] = [@ EXCEPT !.view = v]]
    BY <1>2 DEF ClickPretty
  <2>5. PICK e : packets' = [list EXCEPT ![k] = e]
    BY <2>2, <2>4
  <2>6. Len(packets') = Len(list)
    BY <2>5
  <2> QED
    BY <2>2, <2>3, <2>6 DEF BoundInv
<1>3. CASE TakeEvent
  BY <1>3, TakeEventBound
<1>4. CASE ClickClear \/ Crash
  <2>1. packets' = <<>> /\ (events' = <<>> \/ events' = events)
    BY <1>4 DEF ClickClear, Crash
  <2> QED
    BY <2>1, GuiStateAssumption, WindowAssumption DEF BoundInv
<1>5. CASE ClickAdd \/ ClickRemove \/ ClickAddGroup \/ ClickEnable \/ ClickPause
  <2>1. ASSUME NEW what, NEW new, Edit(what, new) PROVE UNCHANGED <<packets, events>>
    BY <2>1 DEF Edit
  <2>2. UNCHANGED <<packets, events>>
    BY <1>5, <2>1 DEF ClickAdd, ClickRemove, ClickAddGroup, ClickEnable, ClickPause
  <2> QED
    BY <2>2 DEF BoundInv
<1>6. CASE ClickSave \/ CloseWindow \/ SaveStep \/ Start \/ UNCHANGED vars
  <2>1. UNCHANGED <<packets, events>>
    BY <1>6 DEF ClickSave, CloseWindow, SaveStep, WriteTmp, Rename, Start, guiVars, vars, windowVars
  <2> QED
    BY <2>1 DEF BoundInv
<1> QED
  BY <1>1, <1>2, <1>3, <1>4, <1>5, <1>6 DEF Next, WindowNext

(* TypeOK: settings and files of their types, list and channel within their
   limits, for every limit and capacity. *)
THEOREM TypeCorrect == Spec => []TypeOK
<1>1. Init => OrderInv /\ SavedInv /\ BoundInv
  <2> SUFFICES ASSUME Init PROVE BoundInv
    BY OrderInit, SavedInit
  <2>1. packets = <<>> /\ events = <<>>
    BY DEF Init, GuiInit, WindowInit
  <2> QED
    BY <2>1, GuiStateAssumption, WindowAssumption DEF BoundInv
<1>2. /\ OrderInv /\ SavedInv /\ BoundInv /\ [Next]_vars
      => OrderInv' /\ SavedInv' /\ BoundInv'
  BY OrderStep, SavedStep, BoundStep
<1>3. SavedInv /\ BoundInv => TypeOK
  BY DEF SavedInv, BoundInv, Kept, TypeOK
<1> QED
  BY <1>1, <1>2, <1>3, PTL DEF Spec
=============================================================================
