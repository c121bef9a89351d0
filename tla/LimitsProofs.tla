---------------------------- MODULE LimitsProofs ----------------------------
(***************************************************************************)
(* What VisitorLimits guarantees for any requests, visitors, limit and     *)
(* window, however the threads interleave.                                 *)
(*                                                                         *)
(* A request is alone while it has overlapped no other one.  The argument  *)
(* is about these: a window keeps them in the order of their times, the    *)
(* clean-up of another request forgets only those that have expired, and a *)
(* request that overlaps others takes at most one of them out of a window  *)
(* too early.                                                              *)
(***************************************************************************)
EXTENDS VisitorLimits, FiniteSetTheorems, SequenceTheorems, TLAPS

Alone(t) == t \notin raced

\* A step that reads or changes the window the request has looked up.
Holding == {"test", "read", "pop", "check", "refuse", "append"}

\* The local variables of a request follow its progress, only a request that has
\* been counted can clean up, and two that are under way have overlapped.
Progress ==
    /\ \A t, u \in UnderWay : t # u => ~Alone(t)
    /\ \A t \in Requests : step[t] \in Holding => mine[t] # Nothing
    /\ \A t \in Requests : t \notin UnderWay \/ step[t] = "lookup" => mine[t] = Nothing
    /\ \A t \in Requests : step[t] \notin {"scan", "last", "delete"} => scan[t] = NoScan
    /\ \A t \in Requests : step[t] = "last" => scan[t].at # Nothing /\ scan[t].win # Nothing
    /\ \A t \in granted : step[t] \in {"scan", "last", "delete", "admitted", "error"}

\* A request alone goes by the latest time of all, and by one no earlier than those
\* of all the requests counted so far.
Times ==
    /\ \A t \in Requests : now[t] <= clock
    /\ \A t \in Requests : step[t] = "idle" => now[t] = 0
    /\ \A t \in UnderWay : Alone(t) => \A u \in Requests : now[u] <= now[t]
    /\ \A t \in UnderWay, u \in granted : now[u] <= now[t] \/ (~Alone(t) /\ ~Alone(u))

\* A window has no entries and no users before its request creates it.
Fresh ==
    \A w \in Requests : step[w] \in {"idle", "lookup"} =>
        /\ window[w] = <<>>
        /\ \A v \in Visitors : hits[v] # w
        /\ \A t \in Requests : mine[t] # w

\* A window belongs to one visitor.
Owned ==
    /\ \A v \in Visitors : hits[v] # Nothing => visitor[hits[v]] = v
    /\ \A t \in Requests : mine[t] # Nothing => visitor[mine[t]] = visitor[t]
    /\ \A w \in Requests : \A i \in 1..Len(window[w]) :
          /\ window[w][i] \in granted
          /\ visitor[window[w][i]] = visitor[w]

\* A window holds a request once, and keeps a request alone and any other one in the
\* order of their times.
Sorted ==
    \A w \in Requests : \A i, j \in 1..Len(window[w]) : i < j =>
        /\ window[w][i] # window[w][j]
        /\ \/ now[window[w][i]] <= now[window[w][j]]
           \/ ~Alone(window[w][i]) /\ ~Alone(window[w][j])

Windows == Fresh /\ Owned /\ Sorted

\* A request that is alone finds things as it left them.
Settled(t) ==
    /\ step[t] \in Holding => mine[t] = hits[visitor[t]]
    /\ step[t] \in {"read", "pop"} => window[mine[t]] # <<>>
    /\ step[t] = "pop" => Expired(t, window[mine[t]][1])
    /\ step[t] = "refuse" => Len(window[mine[t]]) >= Limit
    /\ step[t] = "append" => Len(window[mine[t]]) < Limit
    /\ step[t] \in {"check", "refuse"} /\ Racers(t) = {} =>
          \A i \in 1..Len(window[mine[t]]) : ~Expired(t, window[mine[t]][i])
    /\ step[t] \in {"scan", "last"} => scan[t].size = Cardinality(Tracked)
    /\ step[t] = "last" => scan[t].at \in Tracked /\ window[scan[t].win] # <<>>
    /\ scan[t].stale \subseteq Tracked

Undisturbed == \A t \in UnderWay : Alone(t) => Settled(t)

\* What a clean-up takes for stale holds no entry of a request that is alone, unless
\* it has expired.
CleanUp ==
    /\ \A d \in Requests : \A v \in scan[d].stale : hits[v] # Nothing =>
          \A u \in Range(window[hits[v]]) : Alone(u) => Expired(d, u)
    /\ \A d \in Requests : step[d] = "last" =>
          \/ hits[scan[d].at] \in {scan[d].win, Nothing}
          \/ \A u \in Range(window[hits[scan[d].at]]) : ~Alone(u)

\* The time of a request that is alone is in its visitor's window until it has
\* expired for a request, or until a request has taken it out too early.
KeptOrLost(u) ==
    \/ hits[visitor[u]] # Nothing /\ u \in Range(window[hits[visitor[u]]])
    \/ lostTo[u] # Nothing
    \/ \E d \in Requests : Expired(d, u)

Kept == \A u \in granted : Alone(u) => KeptOrLost(u)

\* Nothing in window w that comes before a request alone, or is one, has expired for a.
Clear(a, w) ==
    \A j \in 1..Len(window[w]) : Alone(window[w][j]) =>
        \A i \in 1..j : ~Expired(a, window[w][i])

NoneAlone(w) == \A j \in 1..Len(window[w]) : ~Alone(window[w][j])

\* Only a request that overlapped others takes a time out too early.  From then on
\* it finds no expired time in front of one that is alone: it takes out no second one.
LostBy(u, a) == Alone(u) /\ lostTo[u] = a

Taker(a) ==
    /\ ~Alone(a) /\ step[a] \notin {"idle", "lookup"}
    /\ mine[a] # Nothing =>
          Clear(a, mine[a]) /\ (step[a] = "pop" => NoneAlone(mine[a]))

LostOnce ==
    \A u, a \in Requests : LostBy(u, a) =>
        /\ Taker(a) /\ visitor[a] = visitor[u]
        /\ \A x \in Requests : LostBy(x, a) => x = u

\* Of the requests that are alone, at any time T, few enough were counted.
CountedAt(v, T) ==
    {u \in granted : /\ Alone(u) /\ visitor[u] = v
                     /\ now[u] <= T /\ T <= now[u] + WindowLength}
RacersOf(v) == {u \in raced : visitor[u] = v}

Counted ==
    \A v \in Visitors, T \in Nat :
        Cardinality(CountedAt(v, T)) <= Limit + Cardinality(RacersOf(v))

RefusedAtLimit ==
    \A t \in Requests :
        step[t] = "refused" /\ Racers(t) = {} => Cardinality(Recent(t)) >= Limit

LimitsInv ==
    /\ TypeOK /\ Progress /\ Times /\ Windows /\ Undisturbed /\ CleanUp
    /\ Kept /\ LostOnce /\ ErrorsNeedOverlap /\ Counted /\ RefusedAtLimit

-----------------------------------------------------------------------------
\* Windows as sequences: what taking out the first entry and appending one do.

\* What TypeOK says of a window, entry by entry.
LEMMA WindowFacts ==
  ASSUME TypeOK, NEW w \in Requests
  PROVE  /\ Len(window[w]) \in Nat
         /\ window[w] = <<>> <=> Len(window[w]) = 0
         /\ \A i \in 1..Len(window[w]) : window[w][i] \in Requests
         /\ window[w] # <<>> => Head(window[w]) = window[w][1]
         /\ Range(window[w]) = {window[w][i] : i \in 1..Len(window[w])}
         /\ window[w] = <<>> => Range(window[w]) = {}
<1>1. window[w] \in Seq(Requests)
  BY DEF TypeOK
<1>2. Range(window[w]) = {window[w][i] : i \in 1..Len(window[w])}
  BY <1>1, RangeEquality
<1>3. Len(window[w]) = 0 => Range(window[w]) = {}
  BY <1>2
<1> QED
  BY <1>1, <1>2, <1>3, EmptySeq, LenProperties

\* The window of a request that takes out its first entry, before and after.
PoppedFrom(t) ==
    LET w == mine[t]
        n == Len(window[w])
    IN  /\ w \in Requests /\ n \in Nat \ {0}
        /\ Len(window'[w]) = n - 1
        /\ \A i \in 1..(n - 1) : window'[w][i] = window[w][i + 1]
        /\ \A x \in Requests : x # w => window'[x] = window[x]
        /\ lostTo' = IF Expired(t, window[w][1]) THEN lostTo ELSE [lostTo EXCEPT ![window[w][1]] = t]

\* Taking out the first entry shifts the others; nothing else changes.
LEMMA Popped ==
  ASSUME TypeOK, Progress, NEW t \in Requests, PopFirst(t), window[mine[t]] # <<>>
  PROVE  window' \in [Requests -> Seq(Requests)] /\ PoppedFrom(t)
<1> DEFINE w == mine[t]
<1>1. w \in Requests
  BY DEF TypeOK, Progress, PopFirst, Holding
<1>2. window[w] \in Seq(Requests) /\ window[w] # <<>>
  BY <1>1 DEF TypeOK
<1>3. window' = [window EXCEPT ![w] = Tail(window[w])]
  BY DEF PopFirst
<1>4. /\ Tail(window[w]) \in Seq(Requests)
      /\ Len(Tail(window[w])) = Len(window[w]) - 1
      /\ \A i \in 1..Len(Tail(window[w])) : Tail(window[w])[i] = window[w][i + 1]
  BY <1>2, HeadTailProperties
<1>5. window'[w] = Tail(window[w]) /\ \A x \in Requests : x # w => window'[x] = window[x]
  BY <1>1, <1>3 DEF TypeOK
<1>6. Len(window[w]) \in Nat \ {0} /\ Head(window[w]) = window[w][1]
  BY <1>1, <1>2, WindowFacts
<1>7. window' \in [Requests -> Seq(Requests)]
  BY <1>1, <1>3, <1>4 DEF TypeOK
<1>8. lostTo' = IF Expired(t, window[w][1]) THEN lostTo ELSE [lostTo EXCEPT ![window[w][1]] = t]
  BY <1>6 DEF PopFirst
<1> QED
  BY <1>1, <1>4, <1>5, <1>6, <1>7, <1>8 DEF PoppedFrom

\* The window of a request that is counted, before and after.
AppendedTo(t) ==
    LET w == mine[t]
        n == Len(window[w])
    IN  /\ w \in Requests /\ n \in Nat
        /\ Len(window'[w]) = n + 1
        /\ \A i \in 1..n : window'[w][i] = window[w][i]
        /\ window'[w][n + 1] = t
        /\ \A x \in Requests : x # w => window'[x] = window[x]

\* Counting a request adds it at the end of its window; nothing else changes.
LEMMA Appended ==
  ASSUME TypeOK, Progress, NEW t \in Requests, Count(t)
  PROVE  window' \in [Requests -> Seq(Requests)] /\ AppendedTo(t)
<1> DEFINE w == mine[t]
<1>1. w \in Requests
  BY DEF TypeOK, Progress, Count, Holding
<1>2. window[w] \in Seq(Requests) /\ Len(window[w]) \in Nat
  BY <1>1, WindowFacts DEF TypeOK
<1>3. window' = [window EXCEPT ![w] = Append(window[w], t)]
  BY DEF Count
<1>4. /\ Append(window[w], t) \in Seq(Requests)
      /\ Len(Append(window[w], t)) = Len(window[w]) + 1
      /\ \A i \in 1..Len(window[w]) : Append(window[w], t)[i] = window[w][i]
      /\ Append(window[w], t)[Len(window[w]) + 1] = t
  BY <1>2, AppendProperties
<1>5. window'[w] = Append(window[w], t) /\ \A x \in Requests : x # w => window'[x] = window[x]
  BY <1>1, <1>3 DEF TypeOK
<1>6. window' \in [Requests -> Seq(Requests)]
  BY <1>1, <1>3, <1>4 DEF TypeOK
<1> QED
  BY <1>1, <1>2, <1>4, <1>5, <1>6 DEF AppendedTo

-----------------------------------------------------------------------------
\* Type correctness is preserved by every step.
LEMMA LeaveTyped ==
  ASSUME TypeOK, NEW t \in Requests, NEW to \in Over, Leave(t, to)
  PROVE  /\ step' \in [Requests -> Steps]
         /\ mine' \in [Requests -> Requests \cup {Nothing}]
         /\ scan' \in [Requests -> Scans]
<1>1. NoScan \in Scans
  BY LimitsAssumption DEF NoScan, Scans
<1> QED
  BY <1>1 DEF TypeOK, Leave, Goto, Steps

LEMMA ScanTyped ==
  ASSUME NEW s \in Scans
  PROVE  /\ \A n \in Nat : [s EXCEPT !.size = n] \in Scans
         /\ \A S \in SUBSET Visitors :
               /\ [s EXCEPT !.stale = S] \in Scans
               /\ [s EXCEPT !.stale = S, !.at = Nothing, !.win = Nothing] \in Scans
         /\ \A v \in Visitors, w \in Requests \cup {Nothing} :
               /\ [s EXCEPT !.seen = @ \cup {v}, !.stale = @ \cup {v}] \in Scans
               /\ [s EXCEPT !.seen = @ \cup {v}, !.at = v, !.win = w] \in Scans
<1> QED
  BY DEF Scans

LEMMA TypeStep ==
  ASSUME TypeOK, Progress, [Next]_vars
  PROVE  TypeOK'
<1> USE LimitsAssumption
<1>1. ASSUME NEW t \in Requests, Arrive(t) PROVE TypeOK'
  BY <1>1 DEF TypeOK, Arrive, Goto, UnderWay, Steps
<1>2. ASSUME NEW t \in Requests, Lookup(t) PROVE TypeOK'
  BY <1>2 DEF TypeOK, Lookup, Goto, Steps
<1>3. ASSUME NEW t \in Requests, Test(t) \/ Check(t) \/ ScanEnds(t) PROVE TypeOK'
  <2>1. step' \in [Requests -> Steps]
    BY <1>3 DEF TypeOK, Test, Check, ScanEnds, Goto, Steps
  <2> QED
    BY <1>3, <2>1 DEF TypeOK, Test, Check, ScanEnds
<1>4. ASSUME NEW t \in Requests, Refuse(t) \/ ScanFails(t) \/ DeleteEnds(t)
      PROVE  TypeOK'
  <2>1. \E to \in Over : Leave(t, to)
    BY <1>4 DEF Refuse, ScanFails, DeleteEnds, Over
  <2> QED
    BY <1>4, <2>1, LeaveTyped DEF TypeOK, Refuse, ScanFails, DeleteEnds
<1>5. ASSUME NEW t \in Requests, ReadFirst(t) PROVE TypeOK'
  <2>1. CASE window[mine[t]] = <<>>
    <3>1. Leave(t, "error") /\ "error" \in Over
      BY <1>5, <2>1 DEF ReadFirst, Over
    <3> QED
      BY <1>5, <3>1, LeaveTyped DEF TypeOK, ReadFirst
  <2>2. CASE window[mine[t]] # <<>>
    BY <1>5, <2>2 DEF TypeOK, ReadFirst, Goto, Steps
  <2> QED
    BY <2>1, <2>2
<1>6. ASSUME NEW t \in Requests, PopFirst(t) PROVE TypeOK'
  <2>1. CASE window[mine[t]] = <<>>
    <3>1. Leave(t, "error") /\ "error" \in Over
      BY <1>6, <2>1 DEF PopFirst, Over
    <3> QED
      BY <1>6, <2>1, <3>1, LeaveTyped DEF TypeOK, PopFirst
  <2>2. CASE window[mine[t]] # <<>>
    <3>1. window' \in [Requests -> Seq(Requests)] /\ PoppedFrom(t)
      BY <1>6, <2>2, Popped
    <3>2. lostTo' \in [Requests -> Requests \cup {Nothing}]
      BY <3>1 DEF PoppedFrom, TypeOK
    <3>3. step' \in [Requests -> Steps]
      <4>1. Goto(t, "test")
        BY <1>6, <2>2 DEF PopFirst
      <4> QED
        BY <4>1 DEF TypeOK, Goto, Steps
    <3> QED
      BY <1>6, <2>2, <3>1, <3>2, <3>3 DEF TypeOK, PopFirst
  <2> QED
    BY <2>1, <2>2
<1>7. ASSUME NEW t \in Requests, Count(t) PROVE TypeOK'
  <2>1. window' \in [Requests -> Seq(Requests)]
    BY <1>7, Appended
  <2>2. Cardinality(Tracked) \in Nat
    BY FS_Subset, FS_CardinalityType DEF Tracked
  <2>3. CASE Cardinality(Tracked) > MaxTracked
    <3>1. scan' \in [Requests -> Scans]
      <4>1. scan' = [scan EXCEPT ![t] = [@ EXCEPT !.size = Cardinality(Tracked)]]
        BY <1>7, <2>3 DEF Count
      <4> QED
        BY <2>2, <4>1, ScanTyped DEF TypeOK
    <3>2. step' \in [Requests -> Steps] /\ UNCHANGED mine
      BY <1>7, <2>3 DEF TypeOK, Count, Goto, Steps
    <3> QED
      BY <1>7, <2>1, <3>1, <3>2 DEF TypeOK, Count
  <2>4. CASE ~ (Cardinality(Tracked) > MaxTracked)
    <3>1. Leave(t, "admitted") /\ "admitted" \in Over
      BY <1>7, <2>4 DEF Count, Over
    <3> QED
      BY <1>7, <2>1, <3>1, LeaveTyped DEF TypeOK, Count
  <2> QED
    BY <2>3, <2>4
<1>8. ASSUME NEW t \in Requests, Scan(t) PROVE TypeOK'
  <2>1. scan' \in [Requests -> Scans]
    <3>1. PICK v \in Visitors :
            \/ scan' = [scan EXCEPT ![t] =
                   [@ EXCEPT !.seen = scan[t].seen \cup {v}, !.stale = scan[t].stale \cup {v}]]
            \/ scan' = [scan EXCEPT ![t] =
                   [@ EXCEPT !.seen = scan[t].seen \cup {v}, !.at = v, !.win = hits[v]]]
      BY <1>8 DEF Scan, Tracked
    <3>2. hits[v] \in Requests \cup {Nothing} /\ scan[t] \in Scans
      BY DEF TypeOK
    <3>3. /\ [scan[t] EXCEPT !.seen = @ \cup {v}, !.stale = @ \cup {v}] \in Scans
          /\ [scan[t] EXCEPT !.seen = @ \cup {v}, !.at = v, !.win = hits[v]] \in Scans
      BY <3>2, ScanTyped
    <3> QED
      BY <3>1, <3>2, <3>3 DEF TypeOK
  <2>2. step' \in [Requests -> Steps]
    BY <1>8 DEF TypeOK, Scan, Goto, Steps
  <2> QED
    BY <1>8, <2>1, <2>2 DEF TypeOK, Scan
<1>9. ASSUME NEW t \in Requests, ReadLast(t) PROVE TypeOK'
  <2>1. CASE window[scan[t].win] = <<>>
    <3>1. Leave(t, "error") /\ "error" \in Over
      BY <1>9, <2>1 DEF ReadLast, Over
    <3> QED
      BY <1>9, <3>1, LeaveTyped DEF TypeOK, ReadLast
  <2>2. CASE window[scan[t].win] # <<>>
    <3>1. scan[t].at \in Visitors
      BY <1>9 DEF TypeOK, ReadLast, Progress, Scans
    <3>2. scan' \in [Requests -> Scans]
      <4>1. PICK S \in SUBSET Visitors :
              scan' = [scan EXCEPT ![t] = [@ EXCEPT !.stale = S, !.at = Nothing, !.win = Nothing]]
        <5> DEFINE w == window[scan[t].win]
                   stale == IF Expired(t, w[Len(w)]) THEN scan[t].stale \cup {scan[t].at} ELSE scan[t].stale
        <5>1. stale \in SUBSET Visitors
          BY <3>1 DEF TypeOK, Scans
        <5>2. scan' = [scan EXCEPT ![t] = [@ EXCEPT !.stale = stale, !.at = Nothing, !.win = Nothing]]
          BY <1>9, <2>2 DEF ReadLast
        <5> QED
          BY <5>1, <5>2
      <4>2. [scan[t] EXCEPT !.stale = S, !.at = Nothing, !.win = Nothing] \in Scans
        BY ScanTyped DEF TypeOK
      <4> QED
        BY <4>1, <4>2 DEF TypeOK
    <3>3. step' \in [Requests -> Steps] /\ UNCHANGED mine
      BY <1>9, <2>2 DEF TypeOK, ReadLast, Goto, Steps
    <3> QED
      BY <1>9, <3>2, <3>3 DEF TypeOK, ReadLast
  <2> QED
    BY <2>1, <2>2
<1>10. ASSUME NEW t \in Requests, Delete(t) PROVE TypeOK'
  <2>1. PICK v \in scan[t].stale :
          \/ hits[v] = Nothing /\ Leave(t, "error") /\ UNCHANGED hits
          \/ /\ hits' = [hits EXCEPT ![v] = Nothing]
             /\ scan' = [scan EXCEPT ![t] = [@ EXCEPT !.stale = scan[t].stale \ {v}]]
             /\ UNCHANGED <<step, mine>>
    BY <1>10 DEF Delete
  <2>2. CASE Leave(t, "error") /\ UNCHANGED hits
    <3>1. "error" \in Over
      BY DEF Over
    <3> QED
      BY <1>10, <2>2, <3>1, LeaveTyped DEF TypeOK, Delete
  <2>3. CASE /\ hits' = [hits EXCEPT ![v] = Nothing]
             /\ scan' = [scan EXCEPT ![t] = [@ EXCEPT !.stale = scan[t].stale \ {v}]]
             /\ UNCHANGED <<step, mine>>
    <3>1. scan' \in [Requests -> Scans]
      <4>1. scan' = [scan EXCEPT ![t] = [@ EXCEPT !.stale = scan[t].stale \ {v}]]
        BY <2>3
      <4>2. [scan[t] EXCEPT !.stale = @ \ {v}] \in Scans
        <5>1. scan[t] \in Scans /\ scan[t].stale \ {v} \in SUBSET Visitors
          BY DEF TypeOK, Scans
        <5> QED
          BY <5>1, ScanTyped
      <4> QED
        BY <4>1, <4>2 DEF TypeOK
    <3> QED
      BY <1>10, <2>3, <3>1 DEF TypeOK, Delete
  <2> QED
    BY <2>1, <2>2, <2>3
<1>11. CASE Tick
  BY <1>11 DEF TypeOK, Tick
<1>12. CASE UNCHANGED vars
  BY <1>12 DEF TypeOK, vars
<1> QED
  BY <1>1, <1>2, <1>3, <1>4, <1>5, <1>6, <1>7, <1>8, <1>9, <1>10, <1>11, <1>12 DEF Next, Serve

-----------------------------------------------------------------------------
\* A request that goes on in the limiter moves nobody else and does not change who
\* is alone or what the time is.
Moves(t) ==
    /\ UNCHANGED <<visitor, clock, now, raced>>
    /\ t \in UnderWay /\ UnderWay' \subseteq UnderWay
    /\ step'[t] \in Steps \ {"idle", "lookup"}
    /\ \A u \in Requests : u # t =>
          /\ step'[u] = step[u]
          /\ mine'[u] = mine[u]
          /\ scan'[u] = scan[u]

\* A step of a request leaves who sent what, the times and the other requests alone.
LEMMA ServeMoves ==
  ASSUME TypeOK, NEW t \in Requests, Serve(t)
  PROVE  Moves(t)
<1> DEFINE Others == /\ UNCHANGED <<visitor, clock, now, raced>>
                     /\ step[t] \in Steps \ (Over \cup {"idle"})
                     /\ step'[t] \in Steps \ {"idle", "lookup"}
                     /\ \A u \in Requests : u # t =>
                           step'[u] = step[u] /\ mine'[u] = mine[u] /\ scan'[u] = scan[u]
<1>1. ASSUME Test(t) \/ Check(t) \/ ScanEnds(t) \/ Lookup(t) PROVE Others
  BY <1>1 DEF TypeOK, Test, Check, ScanEnds, Lookup, Goto, Steps, Over
<1>2. ASSUME ReadFirst(t) \/ PopFirst(t) \/ Refuse(t) PROVE Others
  BY <1>2 DEF TypeOK, ReadFirst, PopFirst, Refuse, Goto, Leave, Steps, Over
<1>3. ASSUME Count(t) \/ ScanFails(t) \/ DeleteEnds(t) PROVE Others
  BY <1>3 DEF TypeOK, Count, ScanFails, DeleteEnds, Goto, Leave, Steps, Over
<1>4. ASSUME Scan(t) PROVE Others
  BY <1>4 DEF TypeOK, Scan, Goto, Steps, Over
<1>5. ASSUME ReadLast(t) PROVE Others
  BY <1>5 DEF TypeOK, ReadLast, Goto, Leave, Steps, Over
<1>6. ASSUME Delete(t) PROVE Others
  BY <1>6 DEF TypeOK, Delete, Goto, Leave, Steps, Over
<1>7. Others
  BY <1>1, <1>2, <1>3, <1>4, <1>5, <1>6 DEF Serve
<1> HIDE DEF Others
<1> QED
  BY <1>7 DEF Others, Moves, UnderWay

\* Only four actions change more than the local variables of a request.
LEMMA ServeQuiet ==
  ASSUME NEW t \in Requests, Serve(t),
         ~ Lookup(t), ~ PopFirst(t), ~ Count(t), ~ Delete(t)
  PROVE  UNCHANGED <<hits, window, granted, lostTo>>
<1> QED
  BY DEF Serve, Test, ReadFirst, Check, Refuse, ScanFails, Scan, ReadLast, ScanEnds, DeleteEnds

\* A request is counted by its own step only.
LEMMA GrantedByCount ==
  ASSUME NEW t \in Requests, Serve(t)
  PROVE  \/ UNCHANGED granted
         \/ Count(t) /\ granted' = granted \cup {t}
<1> QED
  BY ServeQuiet DEF Lookup, PopFirst, Count, Delete

\* What a request that goes on does to its own local variables.
LEMMA LocalsStep ==
  ASSUME TypeOK, Progress, NEW t \in Requests, Serve(t)
  PROVE  /\ step'[t] \in Holding => mine'[t] # Nothing
         /\ step'[t] \in Over => mine'[t] = Nothing
         /\ step'[t] \notin {"scan", "last", "delete"} => scan'[t] = NoScan
         /\ step'[t] = "last" => scan'[t].at # Nothing /\ scan'[t].win # Nothing
         /\ t \in granted' => step'[t] \in {"scan", "last", "delete", "admitted", "error"}
<1> USE LimitsAssumption DEF Holding, Over
<1>1. CASE Lookup(t)
  BY <1>1 DEF TypeOK, Progress, Lookup, Goto
<1>2. CASE Test(t) \/ Check(t) \/ ScanEnds(t)
  BY <1>2 DEF TypeOK, Progress, Test, Check, ScanEnds, Goto
<1>3. CASE ReadFirst(t)
  <2>1. \/ Leave(t, "error")
        \/ (Goto(t, "pop") \/ Goto(t, "check")) /\ UNCHANGED <<mine, scan>>
    BY <1>3 DEF ReadFirst
  <2>2. step[t] = "read" /\ UNCHANGED granted
    BY <1>3 DEF ReadFirst
  <2> QED
    BY <2>1, <2>2 DEF TypeOK, Progress, Goto, Leave
<1>9. CASE Refuse(t)
  <2>1. step[t] = "refuse" /\ UNCHANGED granted /\ (Leave(t, "error") \/ Leave(t, "refused"))
    BY <1>9 DEF Refuse
  <2> QED
    BY <2>1 DEF TypeOK, Progress, Goto, Leave
<1>8. CASE PopFirst(t)
  <2>1. \/ Leave(t, "error")
        \/ Goto(t, "test") /\ UNCHANGED <<mine, scan>>
    BY <1>8 DEF PopFirst
  <2>2. step[t] = "pop" /\ UNCHANGED granted
    BY <1>8 DEF PopFirst
  <2> QED
    BY <2>1, <2>2 DEF TypeOK, Progress, Goto, Leave
<1>4. CASE Count(t) \/ ScanFails(t) \/ DeleteEnds(t)
  BY <1>4 DEF TypeOK, Progress, Count, ScanFails, DeleteEnds, Goto, Leave
<1>5. CASE Scan(t)
  <2>1. PICK v \in Tracked :
          \/ scan'[t] = [scan[t] EXCEPT !.seen = scan[t].seen \cup {v}, !.stale = scan[t].stale \cup {v}]
             /\ UNCHANGED step
          \/ scan'[t] = [scan[t] EXCEPT !.seen = scan[t].seen \cup {v}, !.at = v, !.win = hits[v]]
    BY <1>5 DEF Scan, TypeOK
  <2>2. scan[t] \in Scans /\ v \in Visitors /\ hits[v] # Nothing /\ v # Nothing
    BY DEF TypeOK, Tracked
  <2>3. step'[t] = "last" => scan'[t].at = v /\ scan'[t].win = hits[v]
    BY <1>5, <2>1, <2>2 DEF Scan, Scans
  <2>4. step'[t] \in {"scan", "last"} /\ UNCHANGED <<mine, granted>>
    BY <1>5 DEF Scan, Goto, TypeOK
  <2> QED
    BY <2>2, <2>3, <2>4
<1>6. CASE ReadLast(t)
  BY <1>6 DEF TypeOK, Progress, ReadLast, Goto, Leave
<1>7. CASE Delete(t)
  BY <1>7 DEF TypeOK, Progress, Delete, Goto, Leave
<1> QED
  BY <1>1, <1>2, <1>3, <1>4, <1>5, <1>6, <1>7, <1>8, <1>9 DEF Serve

\* Only Arrive makes a request overlap another, and it marks both of them.
LEMMA ProgressStep ==
  ASSUME TypeOK, Progress, [Next]_vars
  PROVE  Progress'
<1>1. ASSUME NEW t \in Requests, Arrive(t) PROVE Progress'
  BY <1>1 DEF TypeOK, Progress, Arrive, Goto, UnderWay, Over, Holding, Alone
<1>2. ASSUME NEW t \in Requests, Serve(t) PROVE Progress'
  <2>1. Moves(t)
    BY <1>2, ServeMoves
  <2>2. UNCHANGED granted \/ granted' = granted \cup {t}
    BY <1>2, GrantedByCount
  <2>3. /\ step'[t] \in Holding => mine'[t] # Nothing
        /\ step'[t] \in Over => mine'[t] = Nothing
        /\ step'[t] \notin {"scan", "last", "delete"} => scan'[t] = NoScan
        /\ step'[t] = "last" => scan'[t].at # Nothing /\ scan'[t].win # Nothing
        /\ t \in granted' => step'[t] \in {"scan", "last", "delete", "admitted", "error"}
    BY <1>2, LocalsStep
  <2> QED
    BY <2>1, <2>2, <2>3 DEF TypeOK, Progress, Moves, Alone, UnderWay
<1>3. CASE Tick \/ UNCHANGED vars
  BY <1>3 DEF Progress, Tick, vars, UnderWay, Alone
<1> QED
  BY <1>1, <1>2, <1>3 DEF Next

\* Times are taken in order.
LEMMA TimesStep ==
  ASSUME TypeOK, Progress, Times, [Next]_vars
  PROVE  Times'
<1>1. ASSUME NEW t \in Requests, Arrive(t) PROVE Times'
  BY <1>1 DEF TypeOK, Progress, Times, Arrive, Goto, UnderWay, Over, Alone
<1>2. ASSUME NEW t \in Requests, Serve(t) PROVE Times'
  <2>1. Moves(t)
    BY <1>2, ServeMoves
  <2>2. UNCHANGED granted \/ granted' = granted \cup {t}
    BY <1>2, GrantedByCount
  <2> QED
    BY <2>1, <2>2 DEF TypeOK, Progress, Times, Moves, Alone
<1>3. CASE Tick
  BY <1>3 DEF TypeOK, Times, Tick, UnderWay, Alone
<1>4. CASE UNCHANGED vars
  BY <1>4 DEF Times, vars, UnderWay, Alone
<1> QED
  BY <1>1, <1>2, <1>3, <1>4 DEF Next

-----------------------------------------------------------------------------
\* Only a request that looks up its window makes one known.
LEMMA OnlyLookupLearns ==
  ASSUME TypeOK, NEW t \in Requests, Serve(t), ~ Lookup(t)
  PROVE  /\ \A u \in Requests : mine'[u] \in {mine[u], Nothing}
         /\ \A v \in Visitors : hits'[v] \in {hits[v], Nothing}
<1>1. CASE Delete(t)
  BY <1>1 DEF TypeOK, Delete, Leave
<1>2. CASE Test(t) \/ Check(t) \/ ScanEnds(t) \/ Scan(t)
  BY <1>2 DEF TypeOK, Test, Check, ScanEnds, Scan
<1>3. CASE ReadFirst(t) \/ Refuse(t) \/ ReadLast(t)
  BY <1>3 DEF TypeOK, ReadFirst, Refuse, ReadLast, Leave
<1>4. CASE PopFirst(t)
  BY <1>4 DEF TypeOK, PopFirst, Leave
<1>5. CASE Count(t) \/ ScanFails(t) \/ DeleteEnds(t)
  BY <1>5 DEF TypeOK, Count, ScanFails, DeleteEnds, Leave
<1> QED
  BY <1>1, <1>2, <1>3, <1>4, <1>5 DEF Serve

\* Only the look-up of its request puts a window into the dictionary.
LEMMA FreshStep ==
  ASSUME TypeOK, Progress, Fresh, [Next]_vars
  PROVE  Fresh'
<1>1. ASSUME NEW t \in Requests, Arrive(t) PROVE Fresh'
  BY <1>1 DEF TypeOK, Fresh, Arrive, Goto
<1>2. ASSUME NEW t \in Requests, Serve(t), ~ Lookup(t) PROVE Fresh'
  <2>1. Moves(t)
    BY <1>2, ServeMoves
  <2>2. /\ \A u \in Requests : mine'[u] \in {mine[u], Nothing}
        /\ \A v \in Visitors : hits'[v] \in {hits[v], Nothing}
    BY <1>2, OnlyLookupLearns
  <2>3. \A w \in Requests : step[w] \in {"idle", "lookup"} => window'[w] = window[w]
    <3>1. CASE Count(t)
      BY <1>2, <3>1, Appended DEF AppendedTo, Fresh
    <3>2. CASE PopFirst(t) /\ window[mine[t]] # <<>>
      BY <1>2, <3>2, Popped DEF PoppedFrom, Fresh
    <3>3. CASE PopFirst(t) /\ window[mine[t]] = <<>>
      BY <1>2, <3>3 DEF PopFirst
    <3>4. CASE ~ Count(t) /\ ~ PopFirst(t)
      BY <1>2, <3>4, ServeQuiet DEF Delete
    <3> QED
      BY <3>1, <3>2, <3>3, <3>4
  <2> QED
    BY <2>1, <2>2, <2>3, LimitsAssumption DEF Fresh, Moves
<1>3. ASSUME NEW t \in Requests, Lookup(t) PROVE Fresh'
  BY <1>3, LimitsAssumption DEF TypeOK, Fresh, Lookup, Goto
<1>4. CASE Tick \/ UNCHANGED vars
  BY <1>4 DEF Fresh, Tick, vars
<1> QED
  BY <1>1, <1>2, <1>3, <1>4 DEF Next

\* A request looks up, creates and fills only a window of its visitor.
LEMMA OwnedStep ==
  ASSUME TypeOK, Progress, Fresh, Owned, [Next]_vars
  PROVE  Owned'
<1>1. ASSUME NEW t \in Requests, Arrive(t) PROVE Owned'
  BY <1>1 DEF Owned, Arrive
<1>2. ASSUME NEW t \in Requests, Lookup(t) PROVE Owned'
  BY <1>2 DEF TypeOK, Owned, Lookup
<1>3. ASSUME NEW t \in Requests, Serve(t), ~ Lookup(t) PROVE Owned'
  <2>1. Moves(t)
    BY <1>3, ServeMoves
  <2>2. /\ \A u \in Requests : mine'[u] \in {mine[u], Nothing}
        /\ \A v \in Visitors : hits'[v] \in {hits[v], Nothing}
    BY <1>3, OnlyLookupLearns
  <2>3. \A w \in Requests : \A i \in 1..Len(window'[w]) :
          window'[w][i] \in granted' /\ visitor[window'[w][i]] = visitor[w]
    <3>1. CASE Count(t)
      <4>1. granted' = granted \cup {t}
        BY <3>1 DEF Count
      <4>2. AppendedTo(t)
        BY <3>1, Appended
      <4>3. PICK w0 \in Requests : w0 = mine[t]
        BY <4>2 DEF AppendedTo
      <4>4. visitor[w0] = visitor[t]
        BY <4>3, LimitsAssumption DEF Owned
      <4>5. PICK n \in Nat :
              /\ n = Len(window[w0])
              /\ Len(window'[w0]) = n + 1
              /\ \A i \in 1..n : window'[w0][i] = window[w0][i]
              /\ window'[w0][n + 1] = t
        BY <4>2, <4>3 DEF AppendedTo
      <4>6. ASSUME NEW w \in Requests, w # w0, NEW i \in 1..Len(window'[w])
            PROVE  window'[w][i] \in granted' /\ visitor[window'[w][i]] = visitor[w]
        <5>1. window'[w] = window[w]
          BY <4>2, <4>3, <4>6 DEF AppendedTo
        <5> QED
          BY <4>1, <4>6, <5>1 DEF Owned
      <4>7. ASSUME NEW i \in 1..Len(window'[w0])
            PROVE  window'[w0][i] \in granted' /\ visitor[window'[w0][i]] = visitor[w0]
        <5>1. CASE i = n + 1
          BY <4>1, <4>4, <4>5, <5>1
        <5>2. CASE i # n + 1
          <6>1. i \in 1..n /\ window'[w0][i] = window[w0][i]
            BY <4>5, <4>7, <5>2
          <6> QED
            BY <4>1, <4>5, <6>1 DEF Owned
        <5> QED
          BY <5>1, <5>2
      <4> QED
        BY <4>6, <4>7
    <3>2. CASE PopFirst(t) /\ window[mine[t]] # <<>>
      <4>1. granted' = granted
        BY <3>2 DEF PopFirst
      <4>2. PoppedFrom(t)
        BY <3>2, Popped
      <4> QED
        BY <4>1, <4>2 DEF PoppedFrom, Owned
    <3>3. CASE PopFirst(t) /\ window[mine[t]] = <<>>
      BY <3>3 DEF PopFirst, Owned
    <3>4. CASE ~ Count(t) /\ ~ PopFirst(t)
      BY <1>3, <3>4, ServeQuiet DEF Delete, Owned
    <3> QED
      BY <3>1, <3>2, <3>3, <3>4
  <2> QED
    BY <2>1, <2>2, <2>3, LimitsAssumption DEF Owned, Moves
<1>4. CASE Tick \/ UNCHANGED vars
  BY <1>4 DEF Owned, Tick, vars
<1> QED
  BY <1>1, <1>2, <1>3, <1>4 DEF Next

\* The request that is appended goes by the latest time, but for others it overlaps.
LEMMA SortedStep ==
  ASSUME TypeOK, Progress, Times, Windows, [Next]_vars
  PROVE  Sorted'
<1>1. ASSUME NEW t \in Requests, Arrive(t) PROVE Sorted'
  <2>1. /\ UNCHANGED window
        /\ raced \subseteq raced'
        /\ \A u \in granted : now'[u] = now[u]
    BY <1>1 DEF TypeOK, Progress, Arrive
  <2> QED
    BY <2>1 DEF Windows, Owned, Sorted, Alone
<1>2. ASSUME NEW t \in Requests, Count(t) PROVE Sorted'
  <2>1. AppendedTo(t) /\ UNCHANGED <<now, raced>>
    BY <1>2, Appended DEF Count
  <2>2. t \notin granted /\ t \in UnderWay
    BY <1>2 DEF Count, Progress, UnderWay, Over
  <2>3. \A i \in 1..Len(window[mine[t]]) :
          LET u == window[mine[t]][i]
          IN  u # t /\ (now[u] <= now[t] \/ (~Alone(u) /\ ~Alone(t)))
    BY <2>1, <2>2 DEF AppendedTo, Windows, Owned, Times
  <2> QED
    <3> SUFFICES ASSUME NEW w \in Requests, NEW i \in 1..Len(window'[w]), NEW j \in 1..Len(window'[w]),
                        i < j
                 PROVE  /\ window'[w][i] # window'[w][j]
                        /\ \/ now[window'[w][i]] <= now[window'[w][j]]
                           \/ ~Alone(window'[w][i]) /\ ~Alone(window'[w][j])
      BY <2>1 DEF Sorted, Alone
    <3>1. CASE w # mine[t]
      BY <2>1, <3>1 DEF AppendedTo, Windows, Sorted
    <3>2. CASE w = mine[t] /\ j <= Len(window[w])
      <4>1. i \in 1..Len(window[w]) /\ j \in 1..Len(window[w])
        BY <2>1, <3>2 DEF AppendedTo
      <4>2. window'[w][i] = window[w][i] /\ window'[w][j] = window[w][j]
        BY <2>1, <3>2, <4>1 DEF AppendedTo
      <4> QED
        BY <4>1, <4>2 DEF Windows, Sorted
    <3>3. CASE w = mine[t] /\ ~ (j <= Len(window[w]))
      <4>1. j = Len(window[w]) + 1 /\ i \in 1..Len(window[w])
        BY <2>1, <3>3 DEF AppendedTo
      <4>2. window'[w][i] = window[w][i] /\ window'[w][j] = t
        BY <2>1, <3>3, <4>1 DEF AppendedTo
      <4> QED
        BY <2>3, <3>3, <4>1, <4>2
    <3> QED
      BY <3>1, <3>2, <3>3
<1>3. ASSUME NEW t \in Requests, PopFirst(t), window[mine[t]] # <<>> PROVE Sorted'
  <2>1. PoppedFrom(t) /\ UNCHANGED <<now, raced>>
    BY <1>3, Popped DEF PopFirst
  <2> QED
    <3> SUFFICES ASSUME NEW w \in Requests, NEW i \in 1..Len(window'[w]), NEW j \in 1..Len(window'[w]),
                        i < j
                 PROVE  /\ window'[w][i] # window'[w][j]
                        /\ \/ now[window'[w][i]] <= now[window'[w][j]]
                           \/ ~Alone(window'[w][i]) /\ ~Alone(window'[w][j])
      BY <2>1 DEF Sorted, Alone
    <3>1. CASE w # mine[t]
      BY <2>1, <3>1 DEF PoppedFrom, Windows, Sorted
    <3>2. CASE w = mine[t]
      <4>1. i + 1 \in 1..Len(window[w]) /\ j + 1 \in 1..Len(window[w]) /\ i + 1 < j + 1
        BY <2>1, <3>2 DEF PoppedFrom
      <4>2. window'[w][i] = window[w][i + 1] /\ window'[w][j] = window[w][j + 1]
        BY <2>1, <3>2, <4>1 DEF PoppedFrom
      <4> QED
        BY <4>1, <4>2 DEF Windows, Sorted
    <3> QED
      BY <3>1, <3>2
<1>4. ASSUME NEW t \in Requests, PopFirst(t), window[mine[t]] = <<>> PROVE Sorted'
  BY <1>4 DEF PopFirst, Windows, Sorted, Alone
<1>5. ASSUME NEW t \in Requests, Serve(t), ~ Count(t), ~ PopFirst(t) PROVE Sorted'
  <2>1. UNCHANGED <<window, now, raced>>
    BY <1>5, ServeMoves, ServeQuiet DEF Moves, Lookup, Delete
  <2> QED
    BY <2>1 DEF Windows, Sorted, Alone
<1>6. CASE Tick \/ UNCHANGED vars
  BY <1>6 DEF Windows, Sorted, Tick, vars, Alone
<1> QED
  BY <1>1, <1>2, <1>3, <1>4, <1>5, <1>6 DEF Next

-----------------------------------------------------------------------------
\* One step of a request that is alone, and what it finds at the next.
LEMMA SettledServe ==
  ASSUME TypeOK, Progress, Windows, NEW t \in Requests, Alone(t), Settled(t), Serve(t)
  PROVE  t \in UnderWay' => Settled(t)'
<1> USE LimitsAssumption DEF Holding
<1>1. Moves(t) /\ Racers(t)' = Racers(t) /\ \A u \in Requests : Expired(t, u)' = Expired(t, u)
  BY ServeMoves DEF Moves, Racers, Expired
<1>2. \A to \in Over : Leave(t, to) => t \notin UnderWay'
  BY DEF TypeOK, Leave, Goto, UnderWay, Over
<1>3. ASSUME Lookup(t) PROVE Settled(t)'
  <2>1. step'[t] = "test" /\ mine'[t] = hits'[visitor'[t]] /\ scan'[t] = NoScan
    BY <1>3 DEF TypeOK, Progress, Lookup, Goto
  <2> QED
    BY <2>1 DEF Settled, NoScan
<1>4. ASSUME Test(t) PROVE Settled(t)'
  <2>1. /\ step[t] = "test" /\ step'[t] \in {"check", "read"}
        /\ UNCHANGED <<mine, hits, window, visitor, scan>>
        /\ step'[t] = "read" => window[mine[t]] # <<>>
        /\ step'[t] = "check" => window[mine[t]] = <<>>
    BY <1>4 DEF TypeOK, Test, Goto
  <2>2. step'[t] = "check" => Len(window[mine[t]]) = 0
    BY <2>1, WindowFacts DEF TypeOK, Progress
  <2> QED
    BY <2>1, <2>2 DEF Settled, Tracked
<1>5. ASSUME ReadFirst(t) PROVE Settled(t)'
  <2> DEFINE w == window[mine[t]]
  <2>1. step[t] = "read" /\ w # <<>> /\ mine[t] \in Requests
    BY <1>5 DEF ReadFirst, Settled, TypeOK, Progress
  <2>2. Head(w) = w[1] /\ Len(w) \in Nat
    BY <2>1, WindowFacts
  <2>3. /\ UNCHANGED <<mine, hits, window, visitor, scan>>
        /\ \/ step'[t] = "pop" /\ Expired(t, w[1])
           \/ step'[t] = "check" /\ ~Expired(t, w[1])
    BY <1>5, <2>1, <2>2 DEF TypeOK, ReadFirst, Goto
  <2>4. ASSUME ~Expired(t, w[1]), Racers(t) = {}, NEW i \in 1..Len(w) PROVE ~Expired(t, w[i])
    <3>1. w[i] \in Requests /\ w[1] \in Requests /\ visitor[w[i]] = visitor[t]
      BY <2>1, <2>2, WindowFacts DEF Windows, Owned
    <3>2. Alone(w[i])
      BY <2>4, <3>1 DEF Racers, Alone
    <3>3. i = 1 \/ now[w[1]] <= now[w[i]]
      BY <2>1, <2>2, <3>2 DEF Windows, Sorted
    <3> QED
      BY <2>4, <3>1, <3>3 DEF Expired, TypeOK
  <2>5. \A i \in 1..Len(w) : w[i] \in Requests
    BY <2>1, WindowFacts
  <2> QED
    BY <1>1, <2>1, <2>2, <2>3, <2>4, <2>5 DEF Settled, Tracked
<1>6. ASSUME PopFirst(t) PROVE Settled(t)'
  <2>1. /\ step[t] = "pop" /\ step'[t] = "test"
        /\ UNCHANGED <<mine, hits, visitor, scan>>
    BY <1>6 DEF PopFirst, Settled, Goto, TypeOK
  <2> QED
    BY <2>1 DEF Settled, Tracked
<1>7. ASSUME Check(t) PROVE Settled(t)'
  <2>1. /\ step[t] = "check" /\ UNCHANGED <<mine, hits, window, visitor, scan>>
        /\ \/ step'[t] = "refuse" /\ Len(window[mine[t]]) >= Limit
           \/ step'[t] = "append" /\ ~ (Len(window[mine[t]]) >= Limit)
    BY <1>7 DEF TypeOK, Check, Goto
  <2>2. Len(window[mine[t]]) \in Nat /\ \A i \in 1..Len(window[mine[t]]) : window[mine[t]][i] \in Requests
    BY <2>1, WindowFacts DEF TypeOK, Progress
  <2> QED
    BY <1>1, <2>1, <2>2 DEF Settled, Tracked
<1>8. ASSUME Count(t), t \in UnderWay' PROVE Settled(t)'
  <2>1. /\ step[t] = "append" /\ UNCHANGED <<hits, visitor>>
        /\ step'[t] = "scan" /\ scan' = [scan EXCEPT ![t] = [@ EXCEPT !.size = Cardinality(Tracked)]]
    BY <1>2, <1>8 DEF Count, TypeOK, Goto, Over
  <2>2. scan[t] = NoScan
    BY <2>1 DEF Progress
  <2>3. scan'[t].size = Cardinality(Tracked) /\ scan'[t].stale = {}
    BY <2>1, <2>2 DEF TypeOK, NoScan
  <2> QED
    BY <2>1, <2>3 DEF Settled, Tracked
<1>9. ASSUME Scan(t) PROVE Settled(t)'
  <2>1. /\ step[t] = "scan" /\ UNCHANGED <<hits, visitor, window>>
        /\ step'[t] \in {"scan", "last"}
    BY <1>9 DEF Scan, TypeOK, Goto
  <2>2. PICK v \in Tracked :
          \/ /\ scan'[t] = [scan[t] EXCEPT !.seen = scan[t].seen \cup {v}, !.stale = scan[t].stale \cup {v}]
             /\ UNCHANGED step
          \/ /\ scan'[t] = [scan[t] EXCEPT !.seen = scan[t].seen \cup {v}, !.at = v, !.win = hits[v]]
             /\ window[hits[v]] # <<>>
    BY <1>9 DEF Scan, TypeOK
  <2>3. scan[t] \in Scans
    BY DEF TypeOK
  <2>4. /\ scan'[t].size = scan[t].size /\ scan'[t].stale \subseteq scan[t].stale \cup {v}
        /\ step'[t] = "last" => scan'[t].at = v /\ window[scan'[t].win] # <<>>
    BY <2>1, <2>2, <2>3 DEF Scans
  <2> QED
    BY <2>1, <2>4 DEF Settled, Tracked
<1>10. ASSUME ReadLast(t) PROVE Settled(t)'
  <2>1. /\ step[t] = "last" /\ UNCHANGED <<hits, visitor>> /\ window[scan[t].win] # <<>>
        /\ step'[t] = "scan"
    BY <1>10 DEF ReadLast, Settled, TypeOK, Goto
  <2> DEFINE w == window[scan[t].win]
             stale == IF Expired(t, w[Len(w)]) THEN scan[t].stale \cup {scan[t].at} ELSE scan[t].stale
  <2>2. scan'[t] = [scan[t] EXCEPT !.stale = stale, !.at = Nothing, !.win = Nothing] /\ scan[t] \in Scans
    BY <1>10, <2>1 DEF ReadLast, TypeOK
  <2>3. scan'[t].size = scan[t].size /\ scan'[t].stale \subseteq scan[t].stale \cup {scan[t].at}
    BY <2>2 DEF Scans
  <2> QED
    BY <2>1, <2>3 DEF Settled, Tracked
<1>11. ASSUME ScanEnds(t) PROVE Settled(t)'
  BY <1>11 DEF ScanEnds, TypeOK, Goto, Settled, Tracked
<1>12. ASSUME Delete(t), t \in UnderWay' PROVE Settled(t)'
  <2>1. PICK v \in scan[t].stale :
          /\ hits' = [hits EXCEPT ![v] = Nothing]
          /\ scan' = [scan EXCEPT ![t] = [@ EXCEPT !.stale = scan[t].stale \ {v}]]
          /\ UNCHANGED <<step, mine>>
    BY <1>2, <1>12 DEF Delete, Over
  <2>2. scan'[t].stale = scan[t].stale \ {v}
    BY <2>1 DEF TypeOK, Scans
  <2>3. step[t] = "delete"
    BY <1>12 DEF Delete
  <2> QED
    BY <2>1, <2>2, <2>3 DEF Settled, Tracked, TypeOK
<1>13. ASSUME Refuse(t) \/ ScanFails(t) \/ DeleteEnds(t) PROVE t \notin UnderWay'
  BY <1>2, <1>13 DEF Refuse, ScanFails, DeleteEnds, Over
<1> QED
  BY <1>3, <1>4, <1>5, <1>6, <1>7, <1>8, <1>9, <1>10, <1>11, <1>12, <1>13 DEF Serve

\* What others do marks a request as overlapped before it could disturb it.
LEMMA UndisturbedStep ==
  ASSUME TypeOK, Progress, Windows, Undisturbed, [Next]_vars
  PROVE  Undisturbed'
<1>1. ASSUME NEW t \in Requests, Arrive(t) PROVE Undisturbed'
  <2>1. ASSUME NEW u \in UnderWay', Alone(u)' PROVE u = t /\ step'[u] = "lookup" /\ scan'[u] = NoScan
    BY <1>1, <2>1 DEF TypeOK, Progress, Arrive, Goto, UnderWay, Over, Alone
  <2> QED
    BY <2>1 DEF Undisturbed, Settled, Holding, NoScan
<1>2. ASSUME NEW t \in Requests, Serve(t) PROVE Undisturbed'
  <2>1. Moves(t)
    BY <1>2, ServeMoves
  <2>2. ASSUME NEW u \in UnderWay', Alone(u)' PROVE u = t /\ Alone(t)
    BY <2>1, <2>2 DEF Moves, Alone, Progress
  <2>3. Alone(t) => Settled(t)
    BY <2>1 DEF Undisturbed, Moves
  <2> QED
    BY <1>2, <2>2, <2>3, SettledServe DEF Undisturbed
<1>3. CASE Tick \/ UNCHANGED vars
  <2>1. UNCHANGED <<visitor, hits, window, step, now, mine, scan, raced>>
    BY <1>3 DEF Tick, vars
  <2>2. ASSUME NEW u \in Requests, Settled(u) PROVE Settled(u)'
    <3>1. UNCHANGED <<Tracked, Racers(u)>> /\ \A x : Expired(u, x)' = Expired(u, x)
      BY <2>1 DEF Tracked, Racers, Expired
    <3> QED
      BY <2>1, <2>2, <3>1 DEF Settled
  <2> QED
    BY <2>1, <2>2 DEF Undisturbed, UnderWay, Alone
<1> QED
  BY <1>1, <1>2, <1>3 DEF Next

\* No step of a request that is alone fails.
LEMMA AloneNeverFails ==
  ASSUME TypeOK, Progress, NEW t \in Requests, Alone(t), Settled(t), Serve(t)
  PROVE  step'[t] # "error"
<1> USE LimitsAssumption
<1>1. ASSUME Lookup(t) \/ Test(t) \/ Check(t) \/ ScanEnds(t) PROVE step'[t] # "error"
  BY <1>1 DEF TypeOK, Lookup, Test, Check, ScanEnds, Goto
<1>2. ASSUME ReadFirst(t) \/ PopFirst(t) PROVE step'[t] # "error"
  BY <1>2 DEF TypeOK, ReadFirst, PopFirst, Goto, Settled
<1>3. ASSUME Refuse(t) PROVE step'[t] # "error"
  <2>1. window[mine[t]] # <<>>
    <3>1. step[t] = "refuse" /\ mine[t] \in Requests
      BY <1>3 DEF Refuse, TypeOK, Progress, Holding
    <3> QED
      BY <3>1, WindowFacts DEF Settled
  <2> QED
    BY <1>3, <2>1 DEF TypeOK, Refuse, Leave, Goto
<1>4. ASSUME Count(t) \/ DeleteEnds(t) PROVE step'[t] # "error"
  BY <1>4 DEF TypeOK, Count, DeleteEnds, Leave, Goto
<1>5. ASSUME ScanFails(t) PROVE FALSE
  BY <1>5 DEF ScanFails, Settled
<1>6. ASSUME Scan(t) PROVE step'[t] # "error"
  BY <1>6 DEF TypeOK, Scan, Goto
<1>7. ASSUME ReadLast(t) PROVE step'[t] # "error"
  BY <1>7 DEF TypeOK, ReadLast, Goto, Settled
<1>8. ASSUME Delete(t) PROVE step'[t] # "error"
  BY <1>8 DEF TypeOK, Delete, Settled, Tracked
<1> QED
  BY <1>1, <1>2, <1>3, <1>4, <1>5, <1>6, <1>7, <1>8 DEF Serve

\* A request that fails has been marked as overlapped before.
LEMMA ErrorsStep ==
  ASSUME TypeOK, Progress, Undisturbed, ErrorsNeedOverlap, [Next]_vars
  PROVE  ErrorsNeedOverlap'
<1>1. ASSUME NEW t \in Requests, Arrive(t) PROVE ErrorsNeedOverlap'
  BY <1>1 DEF TypeOK, ErrorsNeedOverlap, Arrive, Goto
<1>2. ASSUME NEW t \in Requests, Serve(t) PROVE ErrorsNeedOverlap'
  <2>1. Moves(t)
    BY <1>2, ServeMoves
  <2>2. Alone(t) => step'[t] # "error"
    BY <1>2, <2>1, AloneNeverFails DEF Moves, Undisturbed
  <2> QED
    BY <2>1, <2>2 DEF Moves, Alone, ErrorsNeedOverlap
<1>3. CASE Tick \/ UNCHANGED vars
  BY <1>3 DEF ErrorsNeedOverlap, Tick, vars
<1> QED
  BY <1>1, <1>2, <1>3 DEF Next

-----------------------------------------------------------------------------
\* What a window holds changes when a request is counted; otherwise it only loses.
LEMMA EntriesServe ==
  ASSUME TypeOK, Progress, NEW t \in Requests, Serve(t)
  PROVE  /\ ~ Count(t) => \A w \in Requests : Range(window'[w]) \subseteq Range(window[w])
         /\ Count(t) => /\ mine[t] \in Requests
                        /\ Range(window'[mine[t]]) = Range(window[mine[t]]) \cup {t}
                        /\ \A w \in Requests : w # mine[t] => window'[w] = window[w]
<1> DEFINE w == mine[t]
           n == Len(window[w])
<1>1. CASE Count(t)
  <2>1. AppendedTo(t) /\ window'[w] \in Seq(Requests)
    BY <1>1, Appended DEF AppendedTo
  <2>2. 1..Len(window'[w]) = 1..n \cup {n + 1}
    BY <2>1 DEF AppendedTo
  <2>3. Range(window'[w]) = {window'[w][i] : i \in 1..Len(window'[w])}
    BY <2>1, RangeEquality
  <2>4. Range(window[w]) = {window[w][i] : i \in 1..n}
    BY <2>1, WindowFacts DEF AppendedTo
  <2>5. \A i \in 1..n : window'[w][i] = window[w][i]
    BY <2>1 DEF AppendedTo
  <2>6. window'[w][n + 1] = t
    BY <2>1 DEF AppendedTo
  <2> HIDE DEF n, w
  <2>7. Range(window'[w]) = Range(window[w]) \cup {t}
    BY <2>2, <2>3, <2>4, <2>5, <2>6
  <2> QED
    BY <1>1, <2>1, <2>7 DEF AppendedTo, w
<1>2. CASE PopFirst(t) /\ window[mine[t]] # <<>>
  <2>1. PoppedFrom(t) /\ ~ Count(t) /\ window'[w] \in Seq(Requests)
    BY <1>2, Popped DEF PopFirst, Count, PoppedFrom
  <2>2. \A i \in 1..Len(window'[w]) : i + 1 \in 1..n /\ window'[w][i] = window[w][i + 1]
    BY <2>1 DEF PoppedFrom
  <2>3. Range(window'[w]) = {window'[w][i] : i \in 1..Len(window'[w])}
    BY <2>1, RangeEquality
  <2>4. Range(window[w]) = {window[w][i] : i \in 1..n}
    BY <2>1, WindowFacts DEF PoppedFrom
  <2> HIDE DEF n, w
  <2>5. Range(window'[w]) \subseteq Range(window[w])
    BY <2>2, <2>3, <2>4
  <2>6. \A x \in Requests : x # w => window'[x] = window[x]
    BY <2>1 DEF PoppedFrom, w
  <2> QED
    BY <2>1, <2>5, <2>6
<1>3. CASE ~ Count(t) /\ ~ (PopFirst(t) /\ window[mine[t]] # <<>>)
  <2>1. UNCHANGED window
    BY <1>3, ServeQuiet DEF PopFirst, Lookup, Delete
  <2> QED
    BY <1>3, <2>1
<1> QED
  BY <1>1, <1>2, <1>3

\* The last entry of a window speaks for those that are alone.
LEMMA LastIsLatest ==
  ASSUME TypeOK, Windows, NEW w \in Requests, window[w] # <<>>, NEW d \in Requests,
         Expired(d, window[w][Len(window[w])])
  PROVE  \A u \in Range(window[w]) : Alone(u) => Expired(d, u)
<1> DEFINE n == Len(window[w])
<1>1. n \in Nat \ {0} /\ \A i \in 1..n : window[w][i] \in Requests
  BY WindowFacts
<1>2. ASSUME NEW i \in 1..n, Alone(window[w][i]) PROVE Expired(d, window[w][i])
  <2>1. i = n \/ now[window[w][i]] <= now[window[w][n]]
    BY <1>1, <1>2 DEF Windows, Sorted
  <2>2. window[w][i] \in Requests /\ window[w][n] \in Requests
    BY <1>1
  <2>3. now[window[w][i]] \in Nat /\ now[window[w][n]] \in Nat /\ now[d] \in Nat
    BY <2>2 DEF TypeOK
  <2> QED
    BY <2>1, <2>3, LimitsAssumption DEF Expired
<1>3. Range(window[w]) = {window[w][i] : i \in 1..n}
  BY WindowFacts
<1> QED
  BY <1>2, <1>3

\* What one step adds to what a clean-up takes for stale.
LEMMA StaleStep ==
  ASSUME TypeOK, Progress, Windows, CleanUp, NEW t \in Requests, Serve(t)
  PROVE  /\ \A v \in scan'[t].stale :
               \/ v \in scan[t].stale
               \/ /\ hits[v] # Nothing => \A u \in Range(window[hits[v]]) : Alone(u) => Expired(t, u)
                  /\ UNCHANGED <<hits, window>>
         /\ step'[t] = "last" => hits'[scan'[t].at] = scan'[t].win
<1> USE LimitsAssumption
<1>1. CASE Scan(t)
  <2>1. PICK v \in Tracked :
          \/ /\ scan'[t] = [scan[t] EXCEPT !.seen = scan[t].seen \cup {v}, !.stale = scan[t].stale \cup {v}]
             /\ UNCHANGED step /\ window[hits[v]] = <<>>
          \/ /\ scan'[t] = [scan[t] EXCEPT !.seen = scan[t].seen \cup {v}, !.at = v, !.win = hits[v]]
    BY <1>1 DEF Scan, TypeOK
  <2>2. scan[t] \in Scans /\ hits[v] \in Requests
    BY DEF TypeOK, Tracked
  <2>3. step[t] = "scan" /\ UNCHANGED <<hits, window>>
    BY <1>1 DEF Scan
  <2>4. \/ scan'[t].stale = scan[t].stale \cup {v} /\ step'[t] = "scan" /\ window[hits[v]] = <<>>
        \/ scan'[t].stale = scan[t].stale /\ scan'[t].at = v /\ scan'[t].win = hits[v]
    BY <2>1, <2>2, <2>3 DEF Scans
  <2>5. window[hits[v]] = <<>> => Range(window[hits[v]]) = {}
    BY <2>2, WindowFacts
  <2> QED
    BY <2>3, <2>4, <2>5
<1>2. CASE ReadLast(t) /\ window[scan[t].win] # <<>>
  <2> DEFINE w == window[scan[t].win]
             stale == IF Expired(t, w[Len(w)]) THEN scan[t].stale \cup {scan[t].at} ELSE scan[t].stale
  <2>1. /\ scan'[t] = [scan[t] EXCEPT !.stale = stale, !.at = Nothing, !.win = Nothing]
        /\ scan[t] \in Scans /\ step[t] = "last" /\ step'[t] = "scan" /\ UNCHANGED <<hits, window>>
    BY <1>2 DEF ReadLast, Goto, TypeOK
  <2>2. scan'[t].stale = stale
    BY <2>1 DEF Scans
  <2>3. scan[t].win \in Requests
    BY <2>1 DEF Progress, Scans
  <2>4. Expired(t, w[Len(w)]) => \A u \in Range(window[scan[t].win]) : Alone(u) => Expired(t, u)
    BY <1>2, <2>3, LastIsLatest
  <2>5. \/ hits[scan[t].at] \in {scan[t].win, Nothing}
        \/ \A u \in Range(window[hits[scan[t].at]]) : ~Alone(u)
    BY <2>1 DEF CleanUp
  <2> QED
    BY <2>1, <2>2, <2>4, <2>5
<1>3. CASE ReadLast(t) /\ window[scan[t].win] = <<>>
  BY <1>3 DEF ReadLast, Leave, Goto, NoScan, TypeOK
<1>4. CASE Delete(t)
  <2>1. PICK v \in scan[t].stale :
          \/ Leave(t, "error")
          \/ /\ scan'[t] = [scan[t] EXCEPT !.stale = scan[t].stale \ {v}]
             /\ UNCHANGED step
    BY <1>4 DEF Delete, TypeOK
  <2>2. scan[t] \in Scans /\ step[t] = "delete"
    BY <1>4 DEF TypeOK, Delete
  <2>3. CASE Leave(t, "error")
    BY <2>3 DEF Leave, Goto, NoScan, TypeOK
  <2> QED
    BY <2>1, <2>2, <2>3 DEF Scans
<1>5. CASE Count(t)
  <2>1. scan[t] = NoScan /\ NoScan.stale = {}
    BY <1>5 DEF Progress, Count, NoScan
  <2>2. \/ Leave(t, "admitted")
        \/ scan'[t] = [scan[t] EXCEPT !.size = Cardinality(Tracked)] /\ step'[t] = "scan"
    BY <1>5 DEF Count, Goto, TypeOK
  <2>3. scan'[t].stale = {} /\ step'[t] # "last"
    BY <2>1, <2>2 DEF NoScan, Leave, Goto, TypeOK
  <2> QED
    BY <2>3
<1>6. CASE ScanEnds(t)
  BY <1>6 DEF ScanEnds, Goto, TypeOK
<1>7. CASE ScanFails(t) \/ DeleteEnds(t) \/ Refuse(t)
  BY <1>7 DEF ScanFails, DeleteEnds, Refuse, Leave, Goto, NoScan, TypeOK
<1>8. CASE Lookup(t) \/ Test(t) \/ Check(t) \/ ReadFirst(t) \/ PopFirst(t)
  <2>1. scan[t] = NoScan
    BY <1>8 DEF Progress, Lookup, Test, Check, ReadFirst, PopFirst
  <2>2. scan'[t] = NoScan /\ step'[t] # "last"
    BY <1>8, <2>1 DEF Lookup, Test, Check, ReadFirst, PopFirst, Leave, Goto, TypeOK
  <2> QED
    BY <2>2 DEF NoScan
<1> QED
  BY <1>1, <1>2, <1>3, <1>4, <1>5, <1>6, <1>7, <1>8 DEF Serve

\* A request that has just been counted has found nothing stale.
LEMMA CountStale ==
  ASSUME TypeOK, Progress, NEW t \in Requests, Count(t)
  PROVE  scan'[t].stale = {}
<1>1. scan[t] = NoScan /\ NoScan.stale = {}
  BY DEF Progress, Count, NoScan
<1>2. \/ Leave(t, "admitted")
      \/ scan'[t] = [scan[t] EXCEPT !.size = Cardinality(Tracked)]
  BY DEF Count, TypeOK
<1> QED
  BY <1>1, <1>2 DEF NoScan, Leave, TypeOK

\* A window that is put in place of a forgotten one is empty.
LEMMA NewWindow ==
  ASSUME TypeOK, Progress, Windows, NEW t \in Requests, Serve(t), NEW v \in Visitors, hits'[v] # Nothing
  PROVE  hits'[v] = hits[v] \/ Range(window'[hits'[v]]) = {}
<1>1. CASE Lookup(t)
  <2>1. hits'[v] # hits[v] => hits'[v] = t /\ step[t] = "lookup" /\ UNCHANGED window
    BY <1>1 DEF Lookup, TypeOK
  <2>2. step[t] = "lookup" => Range(window[t]) = {}
    BY WindowFacts DEF Windows, Fresh
  <2> QED
    BY <2>1, <2>2
<1>2. CASE ~ Lookup(t)
  BY <1>2, OnlyLookupLearns
<1> QED
  BY <1>1, <1>2

\* A window that is stale for a clean-up gets a new entry only from a request that overlaps it.
LEMMA CleanUpStep ==
  ASSUME TypeOK, Progress, Windows, CleanUp, [Next]_vars
  PROVE  CleanUp'
<1>1. ASSUME NEW t \in Requests, Arrive(t) PROVE CleanUp'
  <2>1. /\ UNCHANGED <<hits, window, scan>> /\ raced \subseteq raced'
        /\ \A u \in Requests : u # t => now'[u] = now[u] /\ step'[u] = step[u]
        /\ step'[t] = "lookup" /\ scan[t] = NoScan
    BY <1>1 DEF TypeOK, Progress, Arrive, Goto
  <2>2. \A w \in Requests : Range(window'[w]) = Range(window[w]) /\ Range(window[w]) \subseteq granted
    <3>1. ASSUME NEW w \in Requests PROVE Range(window[w]) \subseteq granted
      <4>1. \A i \in 1..Len(window[w]) : window[w][i] \in granted
        BY DEF Windows, Owned
      <4>2. Range(window[w]) = {window[w][i] : i \in 1..Len(window[w])}
        BY WindowFacts
      <4> QED
        BY <4>1, <4>2
    <3> QED
      BY <2>1, <3>1
  <2>3. \A u \in granted : now'[u] = now[u]
    BY <1>1, <2>1 DEF Progress, Arrive, TypeOK
  <2>4. \A d \in Requests : d # t => \A u \in granted : Expired(d, u)' = Expired(d, u)
    BY <2>1, <2>3 DEF Expired
  <2>5. \A u \in Requests : Alone(u)' => Alone(u)
    BY <2>1 DEF Alone
  <2>6. scan[t].stale = {}
    BY <2>1 DEF NoScan
  <2>7. ASSUME NEW d \in Requests, NEW v \in scan'[d].stale, hits'[v] # Nothing,
               NEW u \in Range(window'[hits'[v]]), Alone(u)'
        PROVE  Expired(d, u)'
    <3>1. d # t /\ v \in scan[d].stale /\ hits[v] \in Requests
      BY <2>1, <2>6, <2>7 DEF TypeOK, Scans
    <3>2. u \in Range(window[hits[v]]) /\ u \in granted /\ Alone(u)
      BY <2>1, <2>2, <2>5, <2>7, <3>1 DEF TypeOK
    <3> QED
      BY <2>1, <2>4, <2>7, <3>1, <3>2 DEF CleanUp
  <2>8. ASSUME NEW d \in Requests, step'[d] = "last", hits'[scan'[d].at] \notin {scan'[d].win, Nothing},
               NEW u \in Range(window'[hits'[scan'[d].at]])
        PROVE  ~Alone(u)'
    <3>1. step[d] = "last" /\ scan'[d] = scan[d] /\ scan[d].at \in Visitors
      BY <2>1, <2>8 DEF TypeOK, Scans, Progress
    <3>2. hits[scan[d].at] \in Requests
      BY <2>1, <2>8, <3>1 DEF TypeOK
    <3> QED
      BY <2>1, <2>2, <2>5, <2>8, <3>1, <3>2 DEF CleanUp, TypeOK
  <2> QED
    BY <2>7, <2>8 DEF CleanUp
<1>2. ASSUME NEW t \in Requests, Serve(t) PROVE CleanUp'
  <2>1. Moves(t)
    BY <1>2, ServeMoves
  <2>2. \A d, u \in Requests : Expired(d, u)' = Expired(d, u) /\ Alone(u)' = Alone(u)
    BY <2>1 DEF Moves, Expired, Alone
  <2>3. ASSUME NEW d \in Requests, d # t, scan[d] # NoScan,
               NEW w \in Requests, NEW u \in Range(window'[w]), Alone(u)
        PROVE  u \in Range(window[w])
    <3>1. d \in UnderWay
      BY <2>3 DEF Progress, UnderWay, Over
    <3>2. ~Alone(t)
      BY <2>1, <2>3, <3>1 DEF Progress, Moves
    <3> QED
      BY <1>2, <2>3, <3>2, EntriesServe
  <2>4. \A w \in Requests : Range(window[w]) \subseteq Requests
    BY WindowFacts
  <2>5. ASSUME NEW d \in Requests, NEW v \in scan'[d].stale, hits'[v] # Nothing,
               NEW u \in Range(window'[hits'[v]]), Alone(u)'
        PROVE  Expired(d, u)'
    <3>1. v \in Visitors
      BY <1>2, <2>5, TypeStep DEF TypeOK, Scans, Next
    <3>2. CASE hits'[v] # hits[v]
      BY <1>2, <2>5, <3>1, <3>2, NewWindow
    <3>3. CASE hits'[v] = hits[v] /\ d # t
      <4>1. scan[d] # NoScan /\ v \in scan[d].stale /\ hits[v] \in Requests
        BY <2>1, <2>5, <3>1, <3>3 DEF Moves, NoScan, TypeOK
      <4>2. u \in Range(window[hits[v]]) /\ u \in Requests /\ Alone(u)
        BY <2>1, <2>3, <2>4, <2>5, <3>3, <4>1 DEF Moves, Alone
      <4> QED
        BY <2>2, <2>5, <4>1, <4>2, LimitsAssumption DEF CleanUp
    <3>4. CASE hits'[v] = hits[v] /\ d = t
      <4>1. hits[v] \in Requests
        BY <2>5, <3>1, <3>4 DEF TypeOK
      <4>2. \A x \in Range(window[hits[v]]) : Alone(x) => Expired(t, x)
        BY <1>2, <2>5, <3>4, StaleStep DEF CleanUp
      <4>3. ~ Count(t)
        BY <1>2, <2>5, <3>4, CountStale
      <4>4. u \in Range(window[hits[v]])
        BY <1>2, <2>5, <3>4, <4>1, <4>3, EntriesServe
      <4> QED
        BY <2>1, <2>2, <2>4, <2>5, <3>4, <4>1, <4>2, <4>4 DEF Moves, Alone
    <3> QED
      BY <3>2, <3>3, <3>4
  <2>6. ASSUME NEW d \in Requests, step'[d] = "last", hits'[scan'[d].at] \notin {scan'[d].win, Nothing},
               NEW u \in Range(window'[hits'[scan'[d].at]])
        PROVE  ~Alone(u)'
    <3>1. d # t
      BY <1>2, <2>6, StaleStep
    <3>2. step[d] = "last" /\ scan'[d] = scan[d] /\ scan[d].at \in Visitors /\ scan[d] # NoScan
      BY <2>1, <2>6, <3>1 DEF Moves, TypeOK, Scans, Progress, NoScan
    <3>3. CASE hits'[scan[d].at] # hits[scan[d].at]
      BY <1>2, <2>6, <3>2, <3>3, NewWindow
    <3>4. CASE hits'[scan[d].at] = hits[scan[d].at]
      <4>1. hits[scan[d].at] \in Requests
        BY <2>6, <3>2, <3>4 DEF TypeOK
      <4>2. Alone(u) => u \in Range(window[hits[scan[d].at]])
        BY <2>3, <2>6, <3>1, <3>2, <3>4, <4>1
      <4> QED
        BY <2>1, <2>6, <3>2, <3>4, <4>2 DEF CleanUp, Moves, Alone
    <3> QED
      BY <3>3, <3>4
  <2> QED
    BY <2>5, <2>6 DEF CleanUp
<1>3. CASE Tick \/ UNCHANGED vars
  BY <1>3 DEF CleanUp, Tick, vars, Expired, Alone
<1> QED
  BY <1>1, <1>2, <1>3 DEF Next

-----------------------------------------------------------------------------
\* Of a window that loses its first entry all others stay.
LEMMA PopKeeps ==
  ASSUME TypeOK, Progress, NEW t \in Requests, PopFirst(t), window[mine[t]] # <<>>
  PROVE  \A u \in Range(window[mine[t]]) : u = window[mine[t]][1] \/ u \in Range(window'[mine[t]])
<1> DEFINE w == mine[t]
           n == Len(window[w])
<1>1. PoppedFrom(t) /\ window'[w] \in Seq(Requests)
  BY Popped DEF PoppedFrom
<1>2. Range(window[w]) = {window[w][i] : i \in 1..n} /\ w \in Requests /\ n \in Nat \ {0}
  BY <1>1, WindowFacts DEF PoppedFrom
<1>3. Range(window'[w]) = {window'[w][i] : i \in 1..Len(window'[w])}
  BY <1>1, RangeEquality
<1>4. ASSUME NEW i \in 1..n, i # 1 PROVE window[w][i] \in Range(window'[w])
  <2>1. i - 1 \in 1..(n - 1) /\ (i - 1) + 1 = i
    BY <1>2, <1>4
  <2>2. window'[w][i - 1] = window[w][i] /\ i - 1 \in 1..Len(window'[w])
    BY <1>1, <2>1 DEF PoppedFrom
  <2> QED
    BY <1>3, <2>2
<1> QED
  BY <1>2, <1>4

\* A time leaves its visitor's window by expiring, or by a step that lostTo records.
LEMMA KeptStep ==
  ASSUME TypeOK, Progress, Times, Windows, Undisturbed, CleanUp, Kept, [Next]_vars
  PROVE  Kept'
<1> USE LimitsAssumption
<1>1. ASSUME NEW t \in Requests, Arrive(t) PROVE Kept'
  <2>1. /\ UNCHANGED <<visitor, hits, window, granted, lostTo>> /\ raced \subseteq raced'
        /\ \A u \in Requests : u # t => now'[u] = now[u]
        /\ t \notin granted /\ now[t] = 0
    BY <1>1 DEF TypeOK, Progress, Times, Arrive
  <2>2. ASSUME NEW d \in Requests, NEW u \in granted, Expired(d, u) PROVE Expired(d, u)'
    <3>1. d # t /\ u # t
      BY <2>1, <2>2 DEF Expired, TypeOK
    <3> QED
      BY <2>1, <2>2, <3>1 DEF Expired, TypeOK
  <2> QED
    BY <2>1, <2>2 DEF Kept, KeptOrLost, Alone
<1>2. ASSUME NEW t \in Requests, Serve(t) PROVE Kept'
  <2>1. Moves(t)
    BY <1>2, ServeMoves
  <2>2. ASSUME NEW u \in granted, Alone(u), \E d \in Requests : Expired(d, u) PROVE KeptOrLost(u)'
    BY <2>1, <2>2 DEF Moves, Expired, KeptOrLost
  <2>3. ASSUME NEW u \in granted, Alone(u), lostTo[u] # Nothing PROVE KeptOrLost(u)'
    <3>1. lostTo'[u] # Nothing
      <4>1. CASE PopFirst(t) /\ window[mine[t]] # <<>>
        <5>1. PoppedFrom(t)
          BY <4>1, Popped
        <5> QED
          BY <2>3, <5>1 DEF PoppedFrom, TypeOK
      <4>2. CASE PopFirst(t) /\ window[mine[t]] = <<>>
        BY <2>3, <4>2 DEF PopFirst
      <4>3. CASE ~ PopFirst(t)
        BY <1>2, <2>3, <4>3, ServeQuiet DEF Lookup, Count, Delete
      <4> QED
        BY <4>1, <4>2, <4>3
    <3> QED
      BY <3>1 DEF KeptOrLost
  <2>4. ASSUME NEW u \in granted, Alone(u), hits[visitor[u]] # Nothing, u \in Range(window[hits[visitor[u]]])
        PROVE  KeptOrLost(u)'
    <3> DEFINE v == visitor[u]
               h == hits[v]
    <3>1. v \in Visitors /\ h \in Requests /\ visitor' = visitor
      BY <2>1, <2>4 DEF TypeOK, Moves
    <3>2. CASE Lookup(t)
      BY <2>4, <3>1, <3>2 DEF Lookup, KeptOrLost, TypeOK
    <3>3. CASE PopFirst(t) /\ window[mine[t]] # <<>>
      <4>1. PoppedFrom(t) /\ UNCHANGED <<hits, now>>
        BY <3>3, Popped DEF PopFirst
      <4>2. CASE h # mine[t]
        BY <2>4, <3>1, <4>1, <4>2 DEF PoppedFrom, KeptOrLost
      <4>3. CASE h = mine[t] /\ u # window[h][1]
        BY <2>4, <3>1, <3>3, <4>1, <4>3, PopKeeps DEF KeptOrLost
      <4>4. CASE h = mine[t] /\ u = window[h][1]
        <5>1. CASE Expired(t, u)
          BY <2>2, <2>4, <5>1
        <5>2. CASE ~ Expired(t, u)
          <6>1. lostTo'[u] = t
            BY <4>1, <4>4, <5>2 DEF PoppedFrom, TypeOK
          <6> QED
            BY <6>1 DEF KeptOrLost
        <5> QED
          BY <5>1, <5>2
      <4> QED
        BY <4>2, <4>3, <4>4
    <3>4. CASE PopFirst(t) /\ window[mine[t]] = <<>>
      BY <2>4, <3>1, <3>4 DEF PopFirst, KeptOrLost
    <3>5. CASE Count(t)
      <4>1. Range(window[h]) \subseteq Range(window'[h]) /\ UNCHANGED hits
        BY <1>2, <3>1, <3>5, EntriesServe DEF Count
      <4> QED
        BY <2>4, <3>1, <4>1 DEF KeptOrLost
    <3>6. CASE Delete(t)
      <4>1. UNCHANGED window /\ (hits'[v] = h \/ v \in scan[t].stale)
        BY <3>1, <3>6 DEF Delete, TypeOK
      <4>2. v \in scan[t].stale => Expired(t, u)
        BY <2>4 DEF CleanUp
      <4> QED
        BY <2>2, <2>4, <3>1, <4>1, <4>2 DEF KeptOrLost
    <3>7. CASE ~ Lookup(t) /\ ~ PopFirst(t) /\ ~ Count(t) /\ ~ Delete(t)
      BY <1>2, <2>4, <3>1, <3>7, ServeQuiet DEF KeptOrLost
    <3> QED
      BY <3>2, <3>3, <3>4, <3>5, <3>6, <3>7
  <2>5. ASSUME Count(t), Alone(t) PROVE KeptOrLost(t)'
    <3>1. mine[t] = hits[visitor[t]] /\ UNCHANGED <<hits, visitor>>
      BY <2>1, <2>5 DEF Count, Moves, Undisturbed, Settled, Holding
    <3>2. mine[t] \in Requests /\ t \in Range(window'[mine[t]])
      BY <1>2, <2>5, EntriesServe
    <3> QED
      BY <3>1, <3>2 DEF KeptOrLost
  <2>6. ASSUME NEW u \in granted, Alone(u) PROVE KeptOrLost(u)'
    BY <2>2, <2>3, <2>4, <2>6 DEF Kept, KeptOrLost
  <2>7. granted' = granted \/ (Count(t) /\ granted' = granted \cup {t})
    BY <1>2, GrantedByCount
  <2>8. \A u \in Requests : Alone(u)' = Alone(u)
    BY <2>1 DEF Moves, Alone
  <2> QED
    BY <2>5, <2>6, <2>7, <2>8 DEF Kept, TypeOK
<1>3. CASE Tick \/ UNCHANGED vars
  BY <1>3 DEF Kept, KeptOrLost, Tick, vars, Expired, Alone
<1> QED
  BY <1>1, <1>2, <1>3 DEF Next

\* A window stays clear for a request, as it loses entries or gains one of a request
\* that overlapped others.
LEMMA ClearServe ==
  ASSUME TypeOK, Progress, NEW t \in Requests, Serve(t), NEW a \in Requests, NEW w \in Requests,
         Count(t) /\ mine[t] = w => ~Alone(t)
  PROVE  (Clear(a, w) => Clear(a, w)') /\ (NoneAlone(w) => NoneAlone(w)')
<1>1. UNCHANGED <<now, raced>>
  BY ServeMoves DEF Moves
<1>2. CASE window'[w] = window[w]
  BY <1>1, <1>2 DEF Clear, NoneAlone, Alone, Expired
<1>3. CASE Count(t) /\ mine[t] = w
  <2>1. AppendedTo(t) /\ ~Alone(t)
    BY <1>3, Appended
  <2> DEFINE n == Len(window[w])
  <2>2. /\ n \in Nat /\ Len(window'[w]) = n + 1 /\ window'[w][n + 1] = t
        /\ \A i \in 1..n : window'[w][i] = window[w][i]
    BY <1>3, <2>1 DEF AppendedTo
  <2>3. ASSUME NEW j \in 1..Len(window'[w]), Alone(window'[w][j]) PROVE j \in 1..n
    BY <2>1, <2>2, <2>3
  <2>4. \A j \in 1..n : \A i \in 1..j : i \in 1..n
    BY <2>2
  <2> HIDE DEF n
  <2>5. ASSUME Clear(a, w), NEW j \in 1..Len(window'[w]), Alone(window'[w][j]), NEW i \in 1..j
        PROVE  ~Expired(a, window'[w][i])
    <3>1. j \in 1..n /\ i \in 1..n
      BY <2>3, <2>4, <2>5
    <3>2. window'[w][j] = window[w][j] /\ window'[w][i] = window[w][i]
      BY <2>2, <3>1
    <3> QED
      BY <2>5, <3>1, <3>2 DEF Clear, n
  <2>6. ASSUME NoneAlone(w), NEW j \in 1..Len(window'[w]) PROVE ~Alone(window'[w][j])
    BY <2>2, <2>3, <2>6 DEF NoneAlone, n
  <2> QED
    BY <1>1, <2>5, <2>6 DEF Clear, NoneAlone, Alone, Expired
<1>4. CASE PopFirst(t) /\ window[mine[t]] # <<>> /\ mine[t] = w
  <2>1. PoppedFrom(t)
    BY <1>4, Popped
  <2> DEFINE n == Len(window[w])
  <2>2. /\ n \in Nat \ {0} /\ Len(window'[w]) = n - 1
        /\ \A i \in 1..(n - 1) : window'[w][i] = window[w][i + 1]
    BY <1>4, <2>1 DEF PoppedFrom
  <2>3. ASSUME NEW j \in 1..Len(window'[w]), NEW i \in 1..j
        PROVE  /\ j + 1 \in 1..n /\ i + 1 \in 1..(j + 1)
               /\ window'[w][j] = window[w][j + 1] /\ window'[w][i] = window[w][i + 1]
    <3>1. j \in 1..(n - 1) /\ i \in 1..(n - 1)
      BY <2>2
    <3> QED
      BY <2>2, <3>1
  <2>4. ASSUME Clear(a, w), NEW j \in 1..Len(window'[w]), Alone(window'[w][j]), NEW i \in 1..j
        PROVE  ~Expired(a, window'[w][i])
    BY <2>3, <2>4 DEF Clear
  <2>5. ASSUME NoneAlone(w), NEW j \in 1..Len(window'[w]) PROVE ~Alone(window'[w][j])
    <3>1. 1 \in 1..j
      BY <2>2
    <3> QED
      BY <2>3, <2>5, <3>1 DEF NoneAlone
  <2> QED
    BY <1>1, <2>4, <2>5 DEF Clear, NoneAlone, Alone, Expired
<1>5. CASE window'[w] # window[w]
  <2>1. Count(t) \/ (PopFirst(t) /\ window[mine[t]] # <<>>)
    BY <1>5, ServeQuiet DEF Lookup, Delete, PopFirst
  <2>2. mine[t] = w
    BY <1>5, <2>1, Appended, Popped DEF AppendedTo, PoppedFrom
  <2> QED
    BY <1>3, <1>4, <2>1, <2>2
<1> QED
  BY <1>2, <1>5

\* A request that took out one time too early still finds no second one after any step.
LEMMA TakerServe ==
  ASSUME TypeOK, Progress, NEW t \in Requests, Serve(t), NEW a \in Requests, Taker(a)
  PROVE  Taker(a)'
<1> USE LimitsAssumption
<1>1. Moves(t) /\ Alone(a)' = Alone(a)
  BY ServeMoves DEF Moves, Alone
<1>2. step'[a] \notin {"idle", "lookup"}
  BY <1>1 DEF Moves, Taker
<1>3. CASE mine'[a] = Nothing
  BY <1>1, <1>2, <1>3 DEF Taker
<1>4. CASE mine'[a] # Nothing
  <2>1. ~ Lookup(t) \/ a # t
    BY DEF Taker, Lookup
  <2>2. PICK w \in Requests : w = mine[a] /\ mine'[a] = w
    BY <1>1, <1>4, <2>1, OnlyLookupLearns DEF Moves, TypeOK
  <2>3. a \in UnderWay /\ t \in UnderWay
    BY <1>1, <2>2 DEF Progress, Moves
  <2>4. ~Alone(t)
    BY <2>3 DEF Taker, Progress
  <2>5. (Clear(a, w) => Clear(a, w)') /\ (NoneAlone(w) => NoneAlone(w)')
    BY <2>2, <2>4, ClearServe
  <2>6. Clear(a, w) /\ (step[a] = "pop" => NoneAlone(w))
    BY <2>2 DEF Taker
  <2>7. ASSUME step'[a] = "pop" PROVE NoneAlone(w)'
    <3>1. CASE step[a] = "pop"
      BY <2>5, <2>6, <3>1
    <3>2. CASE step[a] # "pop"
      <4>1. a = t
        BY <1>1, <2>7, <3>2 DEF Moves
      <4>2. ReadFirst(t)
        <5>1. ~ Lookup(t) /\ ~ Test(t) /\ ~ PopFirst(t) /\ ~ Check(t)
          BY <2>7, <3>2, <4>1 DEF Lookup, Test, PopFirst, Check, Goto, TypeOK
        <5>2. ~ Refuse(t) /\ ~ Count(t) /\ ~ ScanFails(t) /\ ~ ScanEnds(t) /\ ~ DeleteEnds(t)
          BY <2>7, <4>1 DEF Refuse, Count, ScanFails, ScanEnds, DeleteEnds, Leave, Goto, TypeOK
        <5>3. ~ Scan(t) /\ ~ ReadLast(t) /\ ~ Delete(t)
          BY <2>7, <3>2, <4>1 DEF Scan, ReadLast, Delete, Leave, Goto, TypeOK
        <5> QED
          BY <5>1, <5>2, <5>3 DEF Serve
      <4>3. window[w] # <<>> => Head(window[w]) = window[w][1]
        BY <2>2, WindowFacts
      <4>4. Expired(a, window[w][1]) /\ UNCHANGED <<window, raced>>
        BY <2>2, <2>7, <4>1, <4>2, <4>3 DEF ReadFirst, Leave, Goto, TypeOK
      <4>5. NoneAlone(w)
        <5>1. \A j \in 1..Len(window[w]) : 1 \in 1..j
          BY <2>2, WindowFacts
        <5> QED
          BY <2>6, <4>4, <5>1 DEF Clear, NoneAlone
      <4> QED
        BY <2>5, <4>5
    <3> QED
      BY <3>1, <3>2
  <2>8. Clear(a, w)'
    BY <2>5, <2>6
  <2> QED
    BY <1>1, <1>2, <2>2, <2>7, <2>8 DEF Taker, Clear, NoneAlone, Alone, Expired
<1> QED
  BY <1>3, <1>4

\* A request takes out the time of one that is alone, too early, only after it has
\* overlapped others and only once.
LEMMA TakesFirst ==
  ASSUME TypeOK, Progress, Windows, Undisturbed, LostOnce,
         NEW t \in Requests, PopFirst(t), window[mine[t]] # <<>>,
         Alone(window[mine[t]][1]), ~Expired(t, window[mine[t]][1])
  PROVE  /\ visitor[t] = visitor[window[mine[t]][1]]
         /\ Taker(t)'
         /\ \A x \in Requests : ~LostBy(x, t)
<1> USE LimitsAssumption
<1> DEFINE w == mine[t]
           h == window[w][1]
           n == Len(window[w])
<1>1. PoppedFrom(t) /\ Serve(t) /\ Moves(t) /\ step[t] = "pop"
  BY Popped, ServeMoves DEF PopFirst, Serve
<1>2. w \in Requests /\ n \in Nat \ {0} /\ \A i \in 1..n : window[w][i] \in Requests
  BY <1>1, WindowFacts DEF PoppedFrom
<1>3. visitor[t] = visitor[h]
  BY <1>2 DEF Windows, Owned
<1>4. ~Alone(t)
  BY <1>1 DEF Moves, Undisturbed, Settled
<1>5. ASSUME NEW x \in Requests, LostBy(x, t) PROVE FALSE
  <2>1. Taker(t)
    BY <1>5 DEF LostOnce
  <2> QED
    BY <1>1, <1>2, <2>1 DEF Taker, NoneAlone
<1>6. step'[t] = "test" /\ mine'[t] = w /\ UNCHANGED <<now, raced>>
  BY <1>1 DEF PopFirst, Goto, TypeOK
<1>10. Len(window'[w]) = n - 1 /\ \A i \in 1..(n - 1) : window'[w][i] = window[w][i + 1]
  BY <1>1 DEF PoppedFrom
<1>7. ASSUME NEW i \in 1..Len(window'[w]) PROVE ~Expired(t, window'[w][i])
  <2>1. i + 1 \in 1..n /\ window'[w][i] = window[w][i + 1] /\ 1 < i + 1 /\ 1 \in 1..n
    BY <1>2, <1>10
  <2>2. now[h] <= now[window[w][i + 1]]
    BY <1>2, <2>1 DEF Windows, Sorted
  <2>3. now[h] \in Nat /\ now[window[w][i + 1]] \in Nat /\ now[t] \in Nat
    BY <1>2, <2>1 DEF TypeOK
  <2> QED
    BY <2>1, <2>2, <2>3 DEF Expired
<1>8. \A j \in 1..Len(window'[w]) : \A i \in 1..j : i \in 1..Len(window'[w])
  BY <1>2, <1>10
<1>9. Taker(t)'
  BY <1>4, <1>6, <1>7, <1>8 DEF Taker, Clear, Alone, Expired
<1> QED
  BY <1>3, <1>5, <1>9

\* What a step does to the record of who took a time out too early.
LEMMA LostToServe ==
  ASSUME TypeOK, Progress, NEW t \in Requests, Serve(t), NEW u \in Requests
  PROVE  \/ lostTo'[u] = lostTo[u]
         \/ /\ lostTo'[u] = t
            /\ PopFirst(t) /\ window[mine[t]] # <<>>
            /\ u = window[mine[t]][1] /\ ~Expired(t, u)
<1>1. CASE PopFirst(t) /\ window[mine[t]] # <<>>
  BY <1>1, Popped DEF PoppedFrom, TypeOK
<1>2. CASE ~ (PopFirst(t) /\ window[mine[t]] # <<>>)
  BY <1>2, ServeQuiet DEF PopFirst, Lookup, Count, Delete
<1> QED
  BY <1>1, <1>2

\* No request takes a second time out too early.
LEMMA LostOnceStep ==
  ASSUME TypeOK, Progress, Windows, Undisturbed, LostOnce, [Next]_vars
  PROVE  LostOnce'
<1> USE LimitsAssumption
<1>1. ASSUME NEW t \in Requests, Arrive(t) PROVE LostOnce'
  <2>1. /\ UNCHANGED <<visitor, window, mine, lostTo>> /\ raced \subseteq raced'
        /\ \A u \in Requests : u # t => now'[u] = now[u] /\ step'[u] = step[u]
        /\ step[t] = "idle" /\ t \notin granted
    BY <1>1 DEF TypeOK, Progress, Arrive, Goto
  <2>2. \A u, a \in Requests : LostBy(u, a)' => LostBy(u, a)
    BY <2>1 DEF LostBy, Alone
  <2>3. ASSUME NEW a \in Requests, Taker(a) PROVE Taker(a)'
    <3>1. a # t /\ ~Alone(a)'
      BY <2>1, <2>3 DEF Taker, Alone
    <3>2. CASE mine[a] = Nothing
      BY <2>1, <2>3, <3>1, <3>2 DEF Taker
    <3>3. CASE mine[a] # Nothing
      <4>1. PICK w \in Requests : w = mine[a]
        BY <3>3 DEF TypeOK
      <4>2. Len(window[w]) \in Nat /\ \A i \in 1..Len(window[w]) : window[w][i] \in granted
        BY WindowFacts DEF Windows, Owned
      <4>3. \A i \in 1..Len(window[w]) : Expired(a, window[w][i])' <=> Expired(a, window[w][i])
        BY <2>1, <3>1, <4>2 DEF Expired, TypeOK
      <4>4. \A j \in 1..Len(window[w]) : \A i \in 1..j : i \in 1..Len(window[w])
        BY <4>2
      <4>5. Clear(a, w)'
        <5>1. ASSUME NEW j \in 1..Len(window[w]), Alone(window[w][j]), NEW i \in 1..j
              PROVE  ~Expired(a, window[w][i])'
          <6>1. ~Expired(a, window[w][i])
            BY <2>3, <3>3, <4>1, <5>1 DEF Taker, Clear
          <6> QED
            BY <2>1, <4>3, <4>4, <6>1 DEF Expired
        <5> QED
          BY <2>1, <5>1 DEF Clear, Alone, Expired
      <4>6. step'[a] = "pop" => NoneAlone(w)'
        BY <2>1, <2>3, <3>1, <3>3, <4>1 DEF Taker, NoneAlone, Alone
      <4> QED
        BY <2>1, <2>3, <3>1, <4>1, <4>5, <4>6 DEF Taker, Clear, NoneAlone
    <3> QED
      BY <3>2, <3>3
  <2> QED
    BY <2>1, <2>2, <2>3 DEF LostOnce
<1>2. ASSUME NEW t \in Requests, Serve(t) PROVE LostOnce'
  <2>1. Moves(t)
    BY <1>2, ServeMoves
  <2>2. visitor' = visitor /\ \A u : Alone(u)' = Alone(u)
    BY <2>1 DEF Moves, Alone
  <2>3. ASSUME NEW u \in Requests, NEW a \in Requests, LostBy(u, a)'
        PROVE  /\ Taker(a)' /\ visitor[a] = visitor[u]
               /\ \A x \in Requests : LostBy(x, a)' => x = u
    <3>1. Alone(u) /\ lostTo'[u] = a
      BY <2>2, <2>3 DEF LostBy
    <3>2. CASE lostTo[u] # a
      <4>1. /\ a = t /\ PopFirst(t) /\ window[mine[t]] # <<>>
            /\ u = window[mine[t]][1] /\ ~Expired(t, u)
        BY <1>2, <3>1, <3>2, LostToServe
      <4>2. visitor[t] = visitor[u] /\ Taker(t)' /\ \A x \in Requests : ~LostBy(x, t)
        BY <3>1, <4>1, TakesFirst
      <4>3. ASSUME NEW x \in Requests, LostBy(x, a)' PROVE x = u
        <5>1. lostTo'[x] = a /\ lostTo[x] # a
          BY <2>2, <4>1, <4>2, <4>3 DEF LostBy
        <5> QED
          BY <1>2, <4>1, <5>1, LostToServe
      <4> QED
        BY <4>1, <4>2, <4>3
    <3>3. CASE lostTo[u] = a
      <4>1. LostBy(u, a)
        BY <3>1, <3>3 DEF LostBy
      <4>2. Taker(a) /\ visitor[a] = visitor[u] /\ \A x \in Requests : LostBy(x, a) => x = u
        BY <4>1 DEF LostOnce
      <4>3. Taker(a)'
        BY <1>2, <4>2, TakerServe
      <4>4. ASSUME NEW x \in Requests, LostBy(x, a)' PROVE x = u
        <5>1. Alone(x) /\ lostTo'[x] = a
          BY <2>2, <4>4 DEF LostBy
        <5>2. CASE lostTo[x] = a
          BY <4>2, <5>1, <5>2 DEF LostBy
        <5>3. CASE lostTo[x] # a
          <6>1. /\ a = t /\ PopFirst(t) /\ window[mine[t]] # <<>>
                /\ x = window[mine[t]][1] /\ ~Expired(t, x)
            BY <1>2, <5>1, <5>3, LostToServe
          <6> QED
            BY <4>1, <5>1, <6>1, TakesFirst
        <5> QED
          BY <5>2, <5>3
      <4> QED
        BY <4>2, <4>3, <4>4
    <3> QED
      BY <3>2, <3>3
  <2> QED
    BY <2>2, <2>3 DEF LostOnce
<1>3. CASE Tick \/ UNCHANGED vars
  <2>1. UNCHANGED <<visitor, window, step, now, mine, raced, lostTo>>
    BY <1>3 DEF Tick, vars
  <2> QED
    BY <2>1 DEF LostOnce, LostBy, Taker, Clear, NoneAlone, Alone, Expired
<1> QED
  BY <1>1, <1>2, <1>3 DEF Next

-----------------------------------------------------------------------------
\* A window holds as many requests as it has entries.
LEMMA WindowSize ==
  ASSUME TypeOK, Windows, NEW w \in Requests
  PROVE  /\ IsFiniteSet(Range(window[w]))
         /\ Cardinality(Range(window[w])) = Len(window[w])
<1> DEFINE n == Len(window[w])
           S == Range(window[w])
<1>1. n \in Nat /\ window[w] \in [1..n -> Requests] /\ S = {window[w][i] : i \in 1..n}
  <2>1. window[w] \in Seq(Requests)
    BY DEF TypeOK
  <2> QED
    BY <2>1, WindowFacts, LenProperties
<1>2. \A i, j \in 1..n : i # j => window[w][i] # window[w][j]
  <2>1. \A i, j \in 1..n : i < j => window[w][i] # window[w][j]
    BY DEF Windows, Sorted
  <2> QED
    BY <1>1, <2>1
<1> HIDE DEF n, S
<1>3. window[w] \in Bijection(1..n, S)
  BY <1>1, <1>2 DEF Bijection, Injection, Surjection, IsInjective
<1>4. IsFiniteSet(1..n) /\ Cardinality(1..n) = n
  BY <1>1, FS_Interval
<1>5. ExistsBijection(1..n, S)
  BY <1>3 DEF ExistsBijection
<1>6. IsFiniteSet(S) /\ Cardinality(S) = Cardinality(1..n)
  BY <1>4, <1>5, FS_Bijection
<1> QED
  BY <1>4, <1>6 DEF n, S

\* A request that is refused alone, of a visitor that never overlapped, has as many
\* recent ones before it as the limit allows.
LEMMA RefusedStep ==
  ASSUME TypeOK, Progress, Times, Windows, Undisturbed, RefusedAtLimit, [Next]_vars
  PROVE  RefusedAtLimit'
<1> USE LimitsAssumption
<1>1. \A u \in Requests : IsFiniteSet(Recent(u)) /\ Cardinality(Recent(u)) \in Nat
  <2>1. \A u \in Requests : Recent(u) \in SUBSET Requests
    BY DEF Recent, TypeOK
  <2> QED
    BY <2>1, FS_Subset, FS_CardinalityType
<1>2. ASSUME NEW t \in Requests, Arrive(t) PROVE RefusedAtLimit'
  <2>1. /\ UNCHANGED <<visitor, granted>> /\ raced \subseteq raced' /\ t \notin granted
        /\ step'[t] = "lookup"
        /\ \A u \in Requests : u # t => now'[u] = now[u] /\ step'[u] = step[u]
    BY <1>2 DEF TypeOK, Progress, Arrive, Goto
  <2>2. ASSUME NEW u \in Requests, step'[u] = "refused", Racers(u)' = {}
        PROVE  Cardinality(Recent(u))' >= Limit
    <3>1. u # t /\ step[u] = "refused" /\ Racers(u) = {}
      BY <2>1, <2>2 DEF Racers
    <3>2. Recent(u)' = Recent(u)
      BY <2>1, <3>1 DEF Recent, Expired, TypeOK
    <3>3. Cardinality(Recent(u)) >= Limit
      BY <3>1 DEF RefusedAtLimit
    <3> QED
      BY <3>2, <3>3
  <2> QED
    BY <2>2 DEF RefusedAtLimit
<1>3. ASSUME NEW t \in Requests, Serve(t) PROVE RefusedAtLimit'
  <2>1. Moves(t)
    BY <1>3, ServeMoves
  <2>2. granted \subseteq granted' /\ granted' \subseteq Requests
    BY <1>3, GrantedByCount DEF TypeOK
  <2>3. \A u \in Requests : Racers(u)' = Racers(u)
    BY <2>1 DEF Moves, Racers
  <2>4. \A u \in Requests : Recent(u) \subseteq Recent(u)' /\ Recent(u)' \subseteq Requests
    BY <2>1, <2>2 DEF Moves, Recent, Expired
  <2>5. \A u \in Requests : /\ Cardinality(Recent(u)) <= Cardinality(Recent(u)')
                            /\ Cardinality(Recent(u)') \in Nat
    BY <2>4, FS_Subset, FS_CardinalityType
  <2>6. ASSUME NEW u \in Requests, step'[u] = "refused", Racers(u) = {}
        PROVE  Cardinality(Recent(u)) >= Limit
    <3>1. CASE step[u] = "refused"
      BY <2>6, <3>1 DEF RefusedAtLimit
    <3>2. CASE step[u] # "refused"
      <4>1. u = t
        BY <2>1, <2>6, <3>2 DEF Moves
      <4>2. Refuse(t)
        <5>1. ~ Lookup(t) /\ ~ Test(t) /\ ~ PopFirst(t) /\ ~ Check(t) /\ ~ ReadFirst(t)
          BY <2>6, <3>2, <4>1 DEF Lookup, Test, PopFirst, Check, ReadFirst, Leave, Goto, TypeOK
        <5>2. ~ Count(t) /\ ~ ScanFails(t) /\ ~ ScanEnds(t) /\ ~ DeleteEnds(t)
          BY <2>6, <4>1 DEF Count, ScanFails, ScanEnds, DeleteEnds, Leave, Goto, TypeOK
        <5>3. ~ Scan(t) /\ ~ ReadLast(t) /\ ~ Delete(t)
          BY <2>6, <3>2, <4>1 DEF Scan, ReadLast, Delete, Leave, Goto, TypeOK
        <5> QED
          BY <1>3, <5>1, <5>2, <5>3 DEF Serve
      <4>3. Alone(t) /\ t \in UnderWay /\ step[t] = "refuse"
        BY <2>1, <2>6, <4>1, <4>2 DEF Racers, Alone, Moves, Refuse
      <4>4. PICK w \in Requests : w = mine[t]
        BY <4>3 DEF Progress, Holding, TypeOK
      <4>5. Len(window[w]) >= Limit /\ \A i \in 1..Len(window[w]) : ~Expired(t, window[w][i])
        BY <2>6, <4>1, <4>3, <4>4 DEF Undisturbed, Settled
      <4>6. \A i \in 1..Len(window[w]) : window[w][i] \in Recent(t)
        <5>1. visitor[w] = visitor[t]
          BY <4>4 DEF Windows, Owned
        <5>2. \A i \in 1..Len(window[w]) : /\ window[w][i] \in granted /\ visitor[window[w][i]] = visitor[t]
                                            /\ window[w][i] \in Requests
          BY <5>1, WindowFacts DEF Windows, Owned
        <5>3. \A x \in Requests : now[x] <= now[t]
          BY <4>3 DEF Times
        <5> QED
          BY <4>5, <5>2, <5>3 DEF Recent
      <4>7. Range(window[w]) = {window[w][i] : i \in 1..Len(window[w])} /\ Len(window[w]) \in Nat
        BY WindowFacts
      <4>8. Range(window[w]) \in SUBSET Recent(t)
        BY <4>6, <4>7
      <4>9. Cardinality(Range(window[w])) <= Cardinality(Recent(t))
        BY <1>1, <4>8, FS_Subset
      <4>10. Cardinality(Range(window[w])) = Len(window[w])
        BY WindowSize
      <4> QED
        BY <1>1, <4>1, <4>5, <4>7, <4>9, <4>10
    <3> QED
      BY <3>1, <3>2
  <2> QED
    BY <1>1, <2>3, <2>5, <2>6 DEF RefusedAtLimit
<1>4. CASE Tick \/ UNCHANGED vars
  BY <1>4 DEF RefusedAtLimit, Tick, vars, Recent, Racers, Expired
<1> QED
  BY <1>2, <1>3, <1>4 DEF Next

\* The requests alone of visitor v whose time was taken out too early are no more
\* than the requests of v that overlapped others.
LostOf(v) == {u \in granted : Alone(u) /\ visitor[u] = v /\ lostTo[u] # Nothing}

\* There are no more of these than takers: no two of them have one taker.
LEMMA FewLost ==
  ASSUME TypeOK, LostOnce, NEW v \in Visitors
  PROVE  /\ IsFiniteSet(LostOf(v)) /\ IsFiniteSet(RacersOf(v))
         /\ Cardinality(LostOf(v)) <= Cardinality(RacersOf(v))
<1> DEFINE S == LostOf(v)
           T == RacersOf(v)
           f == [u \in S |-> lostTo[u]]
<1>1. T \in SUBSET Requests /\ S \in SUBSET Requests
  BY DEF TypeOK, LostOf, RacersOf
<1>2. IsFiniteSet(T) /\ IsFiniteSet(S)
  BY <1>1, FS_Subset, LimitsAssumption
<1>3. ASSUME NEW u \in S PROVE lostTo[u] \in T
  <2>1. u \in Requests /\ lostTo[u] \in Requests /\ LostBy(u, lostTo[u]) /\ visitor[u] = v
    BY <1>3 DEF LostOf, TypeOK, LostBy
  <2>2. Taker(lostTo[u]) /\ visitor[lostTo[u]] = v
    BY <2>1 DEF LostOnce
  <2> QED
    BY <2>2 DEF Taker, Alone, RacersOf
<1>4. ASSUME NEW u \in S, NEW x \in S, lostTo[u] = lostTo[x] PROVE u = x
  <2>1. u \in Requests /\ x \in Requests /\ lostTo[u] \in Requests
    BY <1>4 DEF LostOf, TypeOK
  <2>2. LostBy(u, lostTo[u]) /\ LostBy(x, lostTo[u])
    BY <1>4 DEF LostOf, LostBy
  <2> QED
    BY <2>1, <2>2 DEF LostOnce
<1> HIDE DEF S, T
<1>5. f \in Injection(S, T)
  BY <1>3, <1>4 DEF Injection, IsInjective
<1> QED
  BY <1>2, <1>5, FS_Injection DEF S, T

\* A request that is counted alone finds in its window, at less than the limit, every
\* request alone of its visitor that is recent for it, but those taken out too early.
LEMMA CountedAlone ==
  ASSUME TypeOK, Progress, Times, Windows, Undisturbed, Kept, LostOnce,
         NEW t \in Requests, Count(t), Alone(t), NEW T \in Nat, now[t] <= T
  PROVE  Cardinality(CountedAt(visitor[t], T) \cup {t}) <= Limit + Cardinality(RacersOf(visitor[t]))
<1> USE LimitsAssumption
<1>1. t \in UnderWay /\ step[t] = "append"
  BY DEF Count, UnderWay, Over
<1>2. PICK w \in Requests : w = mine[t] /\ hits[visitor[t]] = w
  BY <1>1 DEF Progress, Undisturbed, Settled, Holding, TypeOK
<1>3. Len(window[w]) \in Nat /\ Len(window[w]) < Limit
  BY <1>1, <1>2, WindowFacts DEF Undisturbed, Settled
<1>4. visitor[t] \in Visitors
  BY DEF TypeOK
<1>5. PICK v \in Visitors : v = visitor[t]
  BY <1>4
<1> DEFINE W == Range(window[w])
           L == LostOf(v)
           R == RacersOf(v)
           S == CountedAt(v, T)
<1>6. ASSUME NEW u \in S PROVE u \in W \cup L
  <2>1. u \in granted /\ u \in Requests /\ Alone(u) /\ visitor[u] = v /\ T <= now[u] + WindowLength
    BY <1>6 DEF CountedAt, TypeOK
  <2>2. ~ \E d \in Requests : Expired(d, u)
    <3>1. \A d \in Requests : now[d] <= now[t]
      BY <1>1 DEF Times
    <3>2. now[u] \in Nat /\ now[t] \in Nat /\ \A d \in Requests : now[d] \in Nat
      BY <2>1 DEF TypeOK
    <3> QED
      BY <2>1, <3>1, <3>2 DEF Expired
  <2>3. KeptOrLost(u)
    BY <2>1 DEF Kept
  <2> QED
    BY <1>2, <1>5, <2>1, <2>2, <2>3 DEF KeptOrLost, LostOf
<1>7. IsFiniteSet(W) /\ Cardinality(W) = Len(window[w])
  BY WindowSize
<1>8. IsFiniteSet(L) /\ IsFiniteSet(R) /\ Cardinality(L) <= Cardinality(R)
  BY FewLost
<1> HIDE DEF W, L, R, S
<1>9. /\ IsFiniteSet(W \cup L) /\ Cardinality(W \cup L) \in Nat
      /\ Cardinality(W \cup L) <= Cardinality(W) + Cardinality(L)
  <2>1. /\ IsFiniteSet(W \cup L)
        /\ Cardinality(W \cup L) = Cardinality(W) + Cardinality(L) - Cardinality(W \cap L)
    BY <1>7, <1>8, FS_Union
  <2>2. IsFiniteSet(W \cap L)
    BY <1>7, FS_Intersection
  <2>3. Cardinality(W) \in Nat /\ Cardinality(L) \in Nat /\ Cardinality(W \cap L) \in Nat
        /\ Cardinality(W \cup L) \in Nat
    BY <1>7, <1>8, <2>1, <2>2, FS_CardinalityType
  <2> QED
    BY <2>1, <2>3
<1>10. /\ IsFiniteSet((W \cup L) \cup {t}) /\ Cardinality((W \cup L) \cup {t}) \in Nat
       /\ Cardinality((W \cup L) \cup {t}) <= Cardinality(W \cup L) + 1
  <2>1. IsFiniteSet((W \cup L) \cup {t})
    BY <1>9, FS_AddElement
  <2>2. \/ Cardinality((W \cup L) \cup {t}) = Cardinality(W \cup L)
        \/ Cardinality((W \cup L) \cup {t}) = Cardinality(W \cup L) + 1
    BY <1>9, FS_AddElement
  <2> QED
    BY <1>9, <2>1, <2>2
<1>11. S \cup {t} \in SUBSET ((W \cup L) \cup {t})
  BY <1>6
<1>12. Cardinality(S \cup {t}) <= Cardinality((W \cup L) \cup {t}) /\ Cardinality(S \cup {t}) \in Nat
  BY <1>10, <1>11, FS_Subset, FS_CardinalityType
<1>13. Cardinality(R) \in Nat /\ Cardinality(L) \in Nat
  BY <1>8, FS_CardinalityType
<1>14. Cardinality(S \cup {t}) <= Limit + Cardinality(R)
  BY <1>3, <1>7, <1>8, <1>9, <1>10, <1>12, <1>13
<1> QED
  BY <1>5, <1>14 DEF S, R

\* A request is counted only if its window, and what was lost of it, leaves room.
LEMMA CountedStep ==
  ASSUME TypeOK, Progress, Times, Windows, Undisturbed, Kept, LostOnce, Counted, [Next]_vars
  PROVE  Counted'
<1> USE LimitsAssumption
<1>1. \A v, T : /\ IsFiniteSet(CountedAt(v, T)) /\ IsFiniteSet(RacersOf(v))
                /\ Cardinality(CountedAt(v, T)) \in Nat /\ Cardinality(RacersOf(v)) \in Nat
  <2>1. \A v, T : CountedAt(v, T) \in SUBSET Requests /\ RacersOf(v) \in SUBSET Requests
    BY DEF CountedAt, RacersOf, TypeOK
  <2> QED
    BY <2>1, FS_Subset, FS_CardinalityType
<1>2. ASSUME NEW t \in Requests, Arrive(t) PROVE Counted'
  <2>1. /\ UNCHANGED <<visitor, granted>> /\ raced \subseteq raced' /\ raced' \subseteq Requests
        /\ \A u \in granted : now'[u] = now[u]
    BY <1>2 DEF TypeOK, Progress, Arrive, UnderWay
  <2>2. ASSUME NEW v \in Visitors, NEW T \in Nat
        PROVE  Cardinality(CountedAt(v, T)') <= Limit + Cardinality(RacersOf(v)')
    <3>1. CountedAt(v, T)' \in SUBSET CountedAt(v, T)
      BY <2>1 DEF CountedAt, Alone
    <3>2. RacersOf(v) \in SUBSET RacersOf(v)' /\ RacersOf(v)' \in SUBSET Requests
      BY <2>1 DEF RacersOf
    <3>3. /\ Cardinality(CountedAt(v, T)') <= Cardinality(CountedAt(v, T))
          /\ Cardinality(CountedAt(v, T)') \in Nat
      BY <1>1, <3>1, FS_Subset, FS_CardinalityType
    <3>4. Cardinality(RacersOf(v)) <= Cardinality(RacersOf(v)') /\ Cardinality(RacersOf(v)') \in Nat
      BY <1>1, <3>2, FS_Subset, FS_CardinalityType
    <3>5. Cardinality(CountedAt(v, T)) <= Limit + Cardinality(RacersOf(v))
      BY DEF Counted
    <3> QED
      BY <1>1, <3>3, <3>4, <3>5
  <2> QED
    BY <2>2 DEF Counted
<1>3. ASSUME NEW t \in Requests, Serve(t) PROVE Counted'
  <2>1. Moves(t)
    BY <1>3, ServeMoves
  <2>2. ASSUME NEW v \in Visitors, NEW T \in Nat
        PROVE  Cardinality(CountedAt(v, T)') <= Limit + Cardinality(RacersOf(v)')
    <3>1. RacersOf(v)' = RacersOf(v)
      BY <2>1 DEF Moves, RacersOf
    <3>2. Cardinality(CountedAt(v, T)) <= Limit + Cardinality(RacersOf(v))
      BY DEF Counted
    <3>3. \/ CountedAt(v, T)' = CountedAt(v, T)
          \/ /\ Count(t) /\ Alone(t) /\ v = visitor[t] /\ now[t] <= T
             /\ CountedAt(v, T)' = CountedAt(v, T) \cup {t}
      <4>1. UNCHANGED granted \/ (Count(t) /\ granted' = granted \cup {t})
        BY <1>3, GrantedByCount
      <4> QED
        BY <2>1, <4>1 DEF Moves, CountedAt, Alone
    <3>4. CASE CountedAt(v, T)' = CountedAt(v, T)
      BY <3>1, <3>2, <3>4
    <3>5. CASE /\ Count(t) /\ Alone(t) /\ v = visitor[t] /\ now[t] <= T
               /\ CountedAt(v, T)' = CountedAt(v, T) \cup {t}
      <4>1. Cardinality(CountedAt(visitor[t], T) \cup {t}) <= Limit + Cardinality(RacersOf(visitor[t]))
        BY <3>5, CountedAlone
      <4> QED
        BY <3>1, <3>5, <4>1
    <3> QED
      BY <3>3, <3>4, <3>5
  <2> QED
    BY <2>2 DEF Counted
<1>4. CASE Tick \/ UNCHANGED vars
  <2>1. UNCHANGED <<visitor, now, granted, raced>>
    BY <1>4 DEF Tick, vars
  <2>2. \A v, T : CountedAt(v, T)' = CountedAt(v, T) /\ RacersOf(v)' = RacersOf(v)
    BY <2>1 DEF CountedAt, RacersOf, Alone
  <2> QED
    BY <2>2 DEF Counted
<1> QED
  BY <1>2, <1>3, <1>4 DEF Next

-----------------------------------------------------------------------------
\* At the start nothing is counted, looked up or lost.
LEMMA LimitsInit == Init => LimitsInv
<1> SUFFICES ASSUME Init PROVE LimitsInv
  OBVIOUS
<1> USE LimitsAssumption DEF Init
<1>1. \A w \in Requests : Len(window[w]) = 0
  BY DEF Init
<1>2. UnderWay = {} /\ granted = {} /\ raced = {}
  BY DEF UnderWay, Over
<1>3. TypeOK
  <2>1. NoScan \in Scans
    BY DEF NoScan, Scans
  <2>2. <<>> \in Seq(Requests) /\ "idle" \in Steps
    BY EmptySeq DEF Steps
  <2> QED
    BY <2>1, <2>2 DEF TypeOK
<1>4. Progress /\ Times
  BY <1>2 DEF Progress, Times, Holding
<1>5. Windows
  BY <1>1 DEF Windows, Fresh, Owned, Sorted
<1>6. Undisturbed /\ CleanUp
  BY <1>2 DEF Undisturbed, CleanUp, NoScan
<1>7. Kept /\ LostOnce
  BY <1>2 DEF Kept, LostOnce, LostBy
<1>8. ErrorsNeedOverlap /\ RefusedAtLimit
  BY DEF ErrorsNeedOverlap, RefusedAtLimit
<1>9. Counted
  <2> QED
    <3>1. Cardinality({}) = 0
      BY FS_EmptySet
    <3>2. ASSUME NEW v \in Visitors, NEW T \in Nat
          PROVE  Cardinality(CountedAt(v, T)) <= Limit + Cardinality(RacersOf(v))
      <4>1. CountedAt(v, T) = {} /\ RacersOf(v) = {}
        BY <1>2 DEF CountedAt, RacersOf
      <4>2. Cardinality(CountedAt(v, T)) = 0 /\ Cardinality(RacersOf(v)) = 0
        BY <3>1, <4>1
      <4>3. 0 <= Limit + 0
        OBVIOUS
      <4> QED
        BY <4>2, <4>3
    <3> QED
      BY <3>2 DEF Counted
<1> QED
  BY <1>3, <1>4, <1>5, <1>6, <1>7, <1>8, <1>9 DEF LimitsInv

\* The inductive invariant holds in every reachable state.
THEOREM LimitsAlways == Spec => []LimitsInv
<1>1. LimitsInv /\ [Next]_vars => LimitsInv'
  <2> SUFFICES ASSUME LimitsInv, [Next]_vars PROVE LimitsInv'
    OBVIOUS
  <2>1. /\ TypeOK /\ Progress /\ Times /\ Windows /\ Undisturbed /\ CleanUp
        /\ Kept /\ LostOnce /\ ErrorsNeedOverlap /\ Counted /\ RefusedAtLimit
    BY DEF LimitsInv
  <2>2. TypeOK' /\ Progress' /\ Times'
    BY <2>1, TypeStep, ProgressStep, TimesStep
  <2>3. Windows'
    <3>1. Fresh /\ Owned
      BY <2>1 DEF Windows
    <3> QED
      BY <2>1, <3>1, FreshStep, OwnedStep, SortedStep DEF Windows
  <2>4. Undisturbed' /\ CleanUp' /\ Kept'
    BY <2>1, UndisturbedStep, CleanUpStep, KeptStep
  <2>5. LostOnce' /\ ErrorsNeedOverlap' /\ Counted' /\ RefusedAtLimit'
    BY <2>1, LostOnceStep, ErrorsStep, CountedStep, RefusedStep
  <2> QED
    BY <2>2, <2>3, <2>4, <2>5 DEF LimitsInv
<1> QED
  BY LimitsInit, <1>1, PTL DEF Spec

\* Every variable keeps its type, for any requests, visitors and limit.
THEOREM LimitsTypeCorrect == Spec => []TypeOK
<1>1. LimitsInv => TypeOK
  BY DEF LimitsInv
<1> QED
  BY LimitsAlways, <1>1, PTL

\* The limiter fails only a request that overlapped another one.
THEOREM FailsOnlyWithOverlap == Spec => []ErrorsNeedOverlap
<1>1. LimitsInv => ErrorsNeedOverlap
  BY DEF LimitsInv
<1> QED
  BY LimitsAlways, <1>1, PTL

\* A visitor gets past the limit only by its overlapping requests, each of which
\* accounts for two, and is refused below it only when it had some.
THEOREM LimitHolds == Spec => []LimitKept
<1>1. LimitsInv => LimitKept
  <2> SUFFICES ASSUME LimitsInv, NEW t \in Requests
               PROVE  /\ t \in granted => Cardinality(Recent(t)) <= Limit + 2 * Cardinality(Racers(t))
                      /\ step[t] = "refused" /\ Racers(t) = {} => Cardinality(Recent(t)) >= Limit
    BY DEF LimitKept
  <2>1. TypeOK /\ Counted /\ RefusedAtLimit
    BY DEF LimitsInv
  <2> DEFINE C == CountedAt(visitor[t], now[t])
             R == Racers(t)
  <2>2. IsFiniteSet(C) /\ IsFiniteSet(R)
    <3>1. C \in SUBSET Requests /\ R \in SUBSET Requests
      BY <2>1 DEF CountedAt, Racers, TypeOK
    <3> QED
      BY <3>1, FS_Subset, LimitsAssumption
  <2>3. Cardinality(C) <= Limit + Cardinality(R)
    <3>1. visitor[t] \in Visitors /\ now[t] \in Nat
      BY <2>1 DEF TypeOK
    <3>2. R = RacersOf(visitor[t])
      BY DEF Racers, RacersOf
    <3> QED
      BY <2>1, <3>1, <3>2 DEF Counted
  <2>4. Recent(t) \in SUBSET (C \cup R)
    <3>1. \A u \in granted : ~Expired(t, u) => now[t] <= now[u] + WindowLength
      BY <2>1, LimitsAssumption DEF Expired, TypeOK
    <3> QED
      BY <2>1, <3>1 DEF Recent, CountedAt, Racers, Alone, TypeOK
  <2> HIDE DEF C, R
  <2>5. /\ IsFiniteSet(C \cup R)
        /\ Cardinality(C \cup R) = Cardinality(C) + Cardinality(R) - Cardinality(C \cap R)
    BY <2>2, FS_Union
  <2>6. Cardinality(Recent(t)) <= Cardinality(C \cup R) /\ Cardinality(Recent(t)) \in Nat
    BY <2>4, <2>5, FS_Subset, FS_CardinalityType
  <2>7. Cardinality(C) \in Nat /\ Cardinality(R) \in Nat /\ Cardinality(C \cap R) \in Nat
    BY <2>2, FS_Intersection, FS_CardinalityType
  <2>8. Cardinality(Recent(t)) <= Limit + 2 * Cardinality(R)
    BY <2>3, <2>5, <2>6, <2>7, LimitsAssumption
  <2> QED
    BY <2>1, <2>8 DEF RefusedAtLimit, R
<1> QED
  BY LimitsAlways, <1>1, PTL

=============================================================================
