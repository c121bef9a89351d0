---------------------------- MODULE VisitorLimits ----------------------------
(***************************************************************************)
(* The limit on the requests of a visitor (api/limits.py).  The limiter is *)
(* a plain dependency, so it runs in a thread, and several requests are in *)
(* it at once: a dictionary of windows that nothing locks.  A step is what *)
(* the interpreter does without switching threads: one call on a deque or  *)
(* on the dictionary.                                                      *)
(*                                                                         *)
(* A window is an object of its own: a request that has looked one up      *)
(* keeps it when the dictionary forgets it.  It is named for the request   *)
(* that created it.                                                        *)
(***************************************************************************)
EXTENDS Naturals, Sequences, FiniteSets

CONSTANTS
    Requests,       \* requests to one route with a limit
    Visitors,       \* client addresses
    Senders,        \* who may send which requests: functions from Requests to Visitors
    Limit,          \* settings.RATE_LIMIT_LIGHT_PER_10MIN
    WindowLength,   \* WINDOW_SECONDS
    MaxTracked,     \* _MAX_TRACKED_KEYS
    MaxTime,        \* bound on the clock
    Nothing         \* no window, no visitor

ASSUME LimitsAssumption ==
    /\ IsFiniteSet(Requests) /\ IsFiniteSet(Visitors)
    /\ Senders \subseteq [Requests -> Visitors] /\ Senders # {}
    /\ Limit \in Nat \ {0} /\ WindowLength \in Nat /\ MaxTracked \in Nat /\ MaxTime \in Nat
    /\ Nothing \notin Requests \cup Visitors

VARIABLES
    visitor,    \* visitor[t]: who sends request t
    clock,
    hits,       \* _hits[v]: the window of a visitor
    window,     \* window[w]: the requests whose times are in a window, in order
    step,       \* step[t]: where a request is
    now,        \* now[t]: the time request t goes by
    mine,       \* mine[t]: the window request t has looked up
    scan,       \* scan[t]: the clean-up of request t
    granted,    \* history: the requests the running process has counted
    raced,      \* history: requests under way while another one was
    lostTo      \* history: lostTo[u]: the request that took the time of u out of its
                \* window although it had not expired for that request

vars == <<visitor, clock, hits, window, step, now, mine, scan, granted, raced, lostTo>>

Over  == {"admitted", "refused", "error"}
Steps == Over \cup {"idle", "lookup", "test", "read", "pop", "check", "refuse", "append",
                    "scan", "last", "delete"}

UnderWay == {t \in Requests : step[t] \notin Over \cup {"idle"}}
Tracked  == {v \in Visitors : hits[v] # Nothing}

\* A clean-up: the visitors it has seen, the size of the dictionary when it began,
\* what it takes for stale, and the visitor and the window it is at.
Scans  == [seen : SUBSET Visitors, size : Nat, stale : SUBSET Visitors,
           at : Visitors \cup {Nothing}, win : Requests \cup {Nothing}]
NoScan == [seen |-> {}, size |-> 0, stale |-> {}, at |-> Nothing, win |-> Nothing]

\* The time of u is too old for t.
Expired(t, u) == now[t] > now[u] + WindowLength

Goto(t, to) == step' = [step EXCEPT ![t] = to]

\* The request leaves the limiter, and with it its local variables.
Leave(t, to) ==
    /\ Goto(t, to)
    /\ mine' = [mine EXCEPT ![t] = Nothing]
    /\ scan' = [scan EXCEPT ![t] = NoScan]

-----------------------------------------------------------------------------
\* A request begins and takes the time.
Arrive(t) ==
    /\ step[t] = "idle"
    /\ Goto(t, "lookup")
    /\ now' = [now EXCEPT ![t] = clock]
    /\ raced' = IF UnderWay = {} THEN raced ELSE raced \cup UnderWay \cup {t}
    /\ UNCHANGED <<visitor, clock, hits, window, mine, scan, granted, lostTo>>

\* window = _hits[key]
Lookup(t) ==
    /\ step[t] = "lookup"
    /\ LET v == visitor[t]
           w == IF hits[v] = Nothing THEN t ELSE hits[v]
       IN  /\ hits' = [hits EXCEPT ![v] = w]
           /\ mine' = [mine EXCEPT ![t] = w]
    /\ Goto(t, "test")
    /\ UNCHANGED <<visitor, clock, window, now, scan, granted, raced, lostTo>>

\* Slip: the loop does not ask whether the window is empty.
TestNothing(t) ==
    /\ step[t] = "test"
    /\ Goto(t, "read")
    /\ UNCHANGED <<visitor, clock, hits, window, now, mine, scan, granted, raced, lostTo>>

\* while window and now - window[0] > WINDOW_SECONDS: window.popleft()
Test(t) ==
    /\ step[t] = "test"
    /\ Goto(t, IF window[mine[t]] = <<>> THEN "check" ELSE "read")
    /\ UNCHANGED <<visitor, clock, hits, window, now, mine, scan, granted, raced, lostTo>>

ReadFirst(t) ==
    /\ step[t] = "read"
    /\ \/ window[mine[t]] = <<>> /\ Leave(t, "error")
       \/ /\ window[mine[t]] # <<>>
          /\ Goto(t, IF Expired(t, Head(window[mine[t]])) THEN "pop" ELSE "check")
          /\ UNCHANGED <<mine, scan>>
    /\ UNCHANGED <<visitor, clock, hits, window, now, granted, raced, lostTo>>

\* Slip: the expired time stays.
PopNothing(t) ==
    /\ step[t] = "pop"
    /\ \/ window[mine[t]] = <<>> /\ Leave(t, "error")
       \/ window[mine[t]] # <<>> /\ Goto(t, "test") /\ UNCHANGED <<mine, scan>>
    /\ UNCHANGED <<visitor, clock, hits, window, now, granted, raced, lostTo>>

PopFirst(t) ==
    /\ step[t] = "pop"
    /\ \/ window[mine[t]] = <<>> /\ Leave(t, "error") /\ UNCHANGED <<window, lostTo>>
       \/ /\ window[mine[t]] # <<>>
          /\ Goto(t, "test")
          /\ window' = [window EXCEPT ![mine[t]] = Tail(@)]
          /\ LET u == Head(window[mine[t]])
             IN  lostTo' = IF Expired(t, u) THEN lostTo ELSE [lostTo EXCEPT ![u] = t]
          /\ UNCHANGED <<mine, scan>>
    /\ UNCHANGED <<visitor, clock, hits, now, granted, raced>>

\* Slip: one request more than the limit.
CheckOneMore(t) ==
    /\ step[t] = "check"
    /\ Goto(t, IF Len(window[mine[t]]) > Limit THEN "refuse" ELSE "append")
    /\ UNCHANGED <<visitor, clock, hits, window, now, mine, scan, granted, raced, lostTo>>

\* len(window) >= limit
Check(t) ==
    /\ step[t] = "check"
    /\ Goto(t, IF Len(window[mine[t]]) >= Limit THEN "refuse" ELSE "append")
    /\ UNCHANGED <<visitor, clock, hits, window, now, mine, scan, granted, raced, lostTo>>

\* The answer says when to come back, by window[0].
Refuse(t) ==
    /\ step[t] = "refuse"
    /\ Leave(t, IF window[mine[t]] = <<>> THEN "error" ELSE "refused")
    /\ UNCHANGED <<visitor, clock, hits, window, now, granted, raced, lostTo>>

\* window.append(now), and then len(_hits) > _MAX_TRACKED_KEYS: no other step on
\* the window or on the dictionary changes what the other of the two does.
Count(t) ==
    /\ step[t] = "append"
    /\ window' = [window EXCEPT ![mine[t]] = Append(@, t)]
    /\ granted' = granted \cup {t}
    /\ IF Cardinality(Tracked) > MaxTracked
         THEN /\ Goto(t, "scan")
              /\ scan' = [scan EXCEPT ![t] = [@ EXCEPT !.size = Cardinality(Tracked)]]
              /\ UNCHANGED mine
         ELSE Leave(t, "admitted")
    /\ UNCHANGED <<visitor, clock, hits, now, raced, lostTo>>

-----------------------------------------------------------------------------
\* The clean-up of a request that finds too many visitors.

\* The dictionary has another size than when the iteration began.
ScanFails(t) ==
    /\ step[t] = "scan"
    /\ Cardinality(Tracked) # scan[t].size
    /\ Leave(t, "error")
    /\ UNCHANGED <<visitor, clock, hits, window, now, granted, raced, lostTo>>

\* The next item: an empty window is stale, of another one the last time counts.
Scan(t) ==
    /\ step[t] = "scan"
    /\ Cardinality(Tracked) = scan[t].size
    /\ \E v \in Tracked \ scan[t].seen :
          LET seen == scan[t].seen \cup {v}
          IN  IF window[hits[v]] = <<>>
                THEN /\ scan' = [scan EXCEPT ![t] =
                           [@ EXCEPT !.seen = seen, !.stale = scan[t].stale \cup {v}]]
                     /\ UNCHANGED step
                ELSE /\ scan' = [scan EXCEPT ![t] =
                           [@ EXCEPT !.seen = seen, !.at = v, !.win = hits[v]]]
                     /\ Goto(t, "last")
    /\ UNCHANGED <<visitor, clock, hits, window, now, mine, granted, raced, lostTo>>

\* now - v[-1] > WINDOW_SECONDS, of the window the iteration is at.
ReadLast(t) ==
    /\ step[t] = "last"
    /\ LET s == scan[t]
           w == window[s.win]
       IN  \/ w = <<>> /\ Leave(t, "error")
           \/ /\ w # <<>>
              /\ Goto(t, "scan")
              /\ scan' = [scan EXCEPT ![t] = [@ EXCEPT
                    !.stale = IF Expired(t, w[Len(w)]) THEN s.stale \cup {s.at} ELSE s.stale,
                    !.at = Nothing, !.win = Nothing]]
              /\ UNCHANGED mine
    /\ UNCHANGED <<visitor, clock, hits, window, now, granted, raced, lostTo>>

ScanEnds(t) ==
    /\ step[t] = "scan"
    /\ Cardinality(Tracked) = scan[t].size
    /\ Tracked \subseteq scan[t].seen
    /\ Goto(t, "delete")
    /\ UNCHANGED <<visitor, clock, hits, window, now, mine, scan, granted, raced, lostTo>>

\* del _hits[stale], one after the other; one that is gone is an error.
Delete(t) ==
    /\ step[t] = "delete"
    /\ \E v \in scan[t].stale :
          \/ hits[v] = Nothing /\ Leave(t, "error") /\ UNCHANGED hits
          \/ /\ hits[v] # Nothing
             /\ hits' = [hits EXCEPT ![v] = Nothing]
             /\ scan' = [scan EXCEPT ![t] = [@ EXCEPT !.stale = scan[t].stale \ {v}]]
             /\ UNCHANGED <<step, mine>>
    /\ UNCHANGED <<visitor, clock, window, now, granted, raced, lostTo>>

DeleteEnds(t) ==
    /\ step[t] = "delete"
    /\ scan[t].stale = {}
    /\ Leave(t, "admitted")
    /\ UNCHANGED <<visitor, clock, hits, window, now, granted, raced, lostTo>>

Tick ==
    /\ clock < MaxTime
    /\ clock' = clock + 1
    /\ UNCHANGED <<visitor, hits, window, step, now, mine, scan, granted, raced, lostTo>>

-----------------------------------------------------------------------------
Init ==
    /\ visitor \in Senders
    /\ clock = 0
    /\ hits = [v \in Visitors |-> Nothing]
    /\ window = [w \in Requests |-> <<>>]
    /\ step = [t \in Requests |-> "idle"]
    /\ now = [t \in Requests |-> 0]
    /\ mine = [t \in Requests |-> Nothing]
    /\ scan = [t \in Requests |-> NoScan]
    /\ granted = {}
    /\ raced = {}
    /\ lostTo = [t \in Requests |-> Nothing]

\* What a request does once it has begun.
Serve(t) ==
    \/ Lookup(t) \/ Test(t) \/ ReadFirst(t) \/ PopFirst(t) \/ Check(t) \/ Refuse(t)
    \/ Count(t) \/ ScanFails(t) \/ Scan(t) \/ ReadLast(t) \/ ScanEnds(t)
    \/ Delete(t) \/ DeleteEnds(t)

Next == Tick \/ \E t \in Requests : Arrive(t) \/ Serve(t)

Spec == Init /\ [][Next]_vars

\* The operating system runs every thread.
FairSpec == Spec /\ \A t \in Requests : WF_vars(Serve(t))

-----------------------------------------------------------------------------
\* What is checked.

\* Type correctness of every variable.
TypeOK ==
    /\ visitor \in [Requests -> Visitors]
    /\ clock \in Nat
    /\ hits \in [Visitors -> Requests \cup {Nothing}]
    /\ window \in [Requests -> Seq(Requests)]
    /\ step \in [Requests -> Steps]
    /\ now \in [Requests -> Nat]
    /\ mine \in [Requests -> Requests \cup {Nothing}]
    /\ scan \in [Requests -> Scans]
    /\ granted \subseteq Requests
    /\ raced \subseteq Requests
    /\ lostTo \in [Requests -> Requests \cup {Nothing}]

\* A request the limiter fails, by a window or a dictionary that changed under
\* it, was not alone.
ErrorsNeedOverlap == \A t \in Requests : step[t] = "error" => t \in raced

\* The requests of a visitor that were counted, up to a window before t.
Recent(t) == {u \in granted : /\ visitor[u] = visitor[t]
                              /\ now[u] <= now[t] /\ ~Expired(t, u)}
Racers(t) == {u \in raced : visitor[u] = visitor[t]}

\* However the threads interleave, a visitor is let through more often than the
\* limit allows only by requests that overlapped others: each can get through
\* itself and can make the limiter forget one other request.  A visitor whose
\* requests overlap no others is refused only at the limit.
LimitKept ==
    \A t \in Requests :
        /\ t \in granted => Cardinality(Recent(t)) <= Limit + 2 * Cardinality(Racers(t))
        /\ step[t] = "refused" /\ Racers(t) = {} => Cardinality(Recent(t)) >= Limit

\* Every request leaves the limiter: its loops do not run for ever on a window or
\* a dictionary that others change.
LimiterEnds == \A t \in Requests : t \in UnderWay ~> t \notin UnderWay

=============================================================================
