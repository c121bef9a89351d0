----------------------------- MODULE Subscribers -----------------------------
(***************************************************************************)
(* Who is alerted (notification_service.py, routes_subscribers.py): the    *)
(* subscribe route, the unsubscribe route, the owner's row seeded at       *)
(* startup, and the alert a critical run ends with.                        *)
(*                                                                         *)
(* The routes are plain functions in threads, the alert runs on the event  *)
(* loop and blocks it, one message after the other.  No constraint of the  *)
(* table keeps an address from having two rows for one repository, so a    *)
(* subscription reads and inserts in two steps.  A row is named for the    *)
(* request that inserted it; all requests are about one repository.        *)
(***************************************************************************)
EXTENDS Naturals, FiniteSets

CONSTANTS
    Requests,       \* subscriptions
    AddressOf,      \* AddressOf[t]: the address request t subscribes
    Addresses,
    Owner,          \* settings.ADMIN_ALERT_EMAIL
    Seeds,          \* the rows a seeding can insert, one for each start of the server
    MaxAlerts,      \* bound on the critical runs
    Nothing         \* no row

ASSUME SubscribersAssumption ==
    /\ AddressOf \in [Requests -> Addresses] /\ Owner \in Addresses
    /\ IsFiniteSet(Requests) /\ IsFiniteSet(Seeds)
    /\ Seeds \cap Requests = {} /\ Seeds # {}
    /\ MaxAlerts \in Nat
    /\ Nothing \notin Requests

Rows == Requests \cup Seeds

VARIABLES
    row,        \* row[i]: whether the row is there, and still subscribed
    step,       \* step[t]: where a subscription is
    found,      \* found[t]: the row it has read and is going to revive
    unstarted,  \* the starts of the server that are still to come
    mailing,    \* rows an alert has read and not yet written to
    mails,      \* mails[a]: messages tried to an address about the latest critical run
    alerts,     \* critical runs so far
    met,        \* history: met[t]: the subscriptions under way together with t
    word        \* history: word[a]: whether a was last subscribed or unsubscribed

alertVars == <<mailing, mails, alerts>>
vars == <<row, step, found, unstarted, alertVars, met, word>>

Address(i) == IF i \in Seeds THEN Owner ELSE AddressOf[i]

UnderWay == {t \in Requests : step[t] \in {"asked", "insert", "revive"}}

\* The rows of an address for the repository, and the active rows of all.
RowsOf(a)  == {i \in Requests : row[i] # "none" /\ AddressOf[i] = a}
ActiveRows == {i \in Rows : row[i] = "active"}

-----------------------------------------------------------------------------
\* The subscribe route.

Goto(t, to) == step' = [step EXCEPT ![t] = to]

\* The visitor reads that the address is subscribed.
Answer(t) ==
    /\ Goto(t, "answered")
    /\ word' = [word EXCEPT ![AddressOf[t]] = "subscribed"]

Ask(t) ==
    /\ step[t] = "idle"
    /\ Goto(t, "asked")
    /\ met' = [u \in Requests |-> IF u = t THEN UnderWay
                                  ELSE IF u \in UnderWay THEN met[u] \cup {t} ELSE met[u]]
    /\ UNCHANGED <<row, found, unstarted, alertVars, word>>

\* Slip: an address that has unsubscribed gets a new row.
FindActive(t) ==
    /\ step[t] = "asked"
    /\ LET is == RowsOf(AddressOf[t])
       IN  \/ is \cap ActiveRows = {} /\ Goto(t, "insert") /\ UNCHANGED word
           \/ is \cap ActiveRows # {} /\ Cardinality(is) > 1 /\ Goto(t, "error") /\ UNCHANGED word
           \/ is \cap ActiveRows # {} /\ Cardinality(is) = 1 /\ Answer(t)
    /\ UNCHANGED <<row, found, unstarted, alertVars, met>>

\* one_or_none(): an error if there are several rows.
Find(t) ==
    /\ step[t] = "asked"
    /\ LET is == RowsOf(AddressOf[t])
       IN  \/ is = {} /\ Goto(t, "insert") /\ UNCHANGED <<found, word>>
           \/ Cardinality(is) > 1 /\ Goto(t, "error") /\ UNCHANGED <<found, word>>
           \/ \E i \in is :
                 /\ is = {i}
                 /\ \/ row[i] = "active" /\ Answer(t) /\ UNCHANGED found
                    \/ /\ row[i] = "inactive"
                       /\ Goto(t, "revive")
                       /\ found' = [found EXCEPT ![t] = i]
                       /\ UNCHANGED word
    /\ UNCHANGED <<row, unstarted, alertVars, met>>

Insert(t) ==
    /\ step[t] = "insert"
    /\ row' = [row EXCEPT ![t] = "active"]
    /\ Answer(t)
    /\ UNCHANGED <<found, unstarted, alertVars, met>>

\* Slip: the row that was found stays unsubscribed.
ReviveNothing(t) ==
    /\ step[t] = "revive"
    /\ Answer(t)
    /\ UNCHANGED <<row, found, unstarted, alertVars, met>>

Revive(t) ==
    /\ step[t] = "revive"
    /\ row' = [row EXCEPT ![found[t]] = "active"]
    /\ Answer(t)
    /\ UNCHANGED <<found, unstarted, alertVars, met>>

\* The unsubscribe route: the one row with the token.
Unsubscribe(i) ==
    /\ row[i] # "none"
    /\ row' = [row EXCEPT ![i] = "inactive"]
    /\ word' = IF i \in Seeds THEN word ELSE [word EXCEPT ![AddressOf[i]] = "unsubscribed"]
    /\ UNCHANGED <<step, found, unstarted, alertVars, met>>

-----------------------------------------------------------------------------
\* The alert of a critical run.

\* notify_subscribers: one query for all that are to be written to.
Alert ==
    /\ mailing = {}
    /\ alerts < MaxAlerts
    /\ alerts' = alerts + 1
    /\ mailing' = ActiveRows
    /\ mails' = [a \in Addresses |-> 0]
    /\ UNCHANGED <<row, step, found, unstarted, met, word>>

\* send_critical_alert, which swallows every failure.
Send(i) ==
    /\ i \in mailing
    /\ mailing' = mailing \ {i}
    /\ mails' = [mails EXCEPT ![Address(i)] = @ + 1]
    /\ UNCHANGED <<row, step, found, unstarted, alerts, met, word>>

-----------------------------------------------------------------------------
\* The server starts again: its requests are lost, and so is the rest of an alert.
Forget ==
    /\ step' = [t \in Requests |-> IF t \in UnderWay THEN "lost" ELSE step[t]]
    /\ mailing' = {}
    /\ UNCHANGED <<found, mails, alerts, met, word>>

\* Slip: the owner's row is inserted at every start.
RestartAndSeed(i) ==
    /\ i \in unstarted
    /\ unstarted' = unstarted \ {i}
    /\ row' = [row EXCEPT ![i] = "active"]
    /\ Forget

\* seed_admin_subscriber: an owner who has unsubscribed stays so.
Restart(i) ==
    /\ i \in unstarted
    /\ unstarted' = unstarted \ {i}
    /\ row' = IF \A k \in Seeds : row[k] = "none" THEN [row EXCEPT ![i] = "active"] ELSE row
    /\ Forget

-----------------------------------------------------------------------------
\* The first start has seeded a row.
Init ==
    /\ \E i \in Seeds :
          /\ row = [j \in Rows |-> IF j = i THEN "active" ELSE "none"]
          /\ unstarted = Seeds \ {i}
    /\ step = [t \in Requests |-> "idle"]
    /\ found = [t \in Requests |-> Nothing]
    /\ mailing = {}
    /\ mails = [a \in Addresses |-> 0]
    /\ alerts = 0
    /\ met = [t \in Requests |-> {}]
    /\ word = [a \in Addresses |-> "none"]

Next ==
    \/ \E t \in Requests : Ask(t) \/ Find(t) \/ Insert(t) \/ Revive(t)
    \/ \E i \in Rows : Unsubscribe(i) \/ Send(i) \/ Restart(i)
    \/ Alert

Spec == Init /\ [][Next]_vars

-----------------------------------------------------------------------------
\* What is checked.

\* Type correctness of every variable.
TypeOK ==
    /\ row \in [Rows -> {"none", "active", "inactive"}]
    /\ step \in [Requests -> {"idle", "asked", "insert", "revive", "answered", "error", "lost"}]
    /\ found \in [Requests -> Requests \cup {Nothing}]
    /\ unstarted \subseteq Seeds
    /\ mailing \subseteq Rows
    /\ mails \in [Addresses -> Nat]
    /\ alerts \in Nat
    /\ met \in [Requests -> SUBSET Requests]
    /\ word \in [Addresses -> {"none", "subscribed", "unsubscribed"}]

\* Two subscriptions of an address were under way together.
Doubled(a) == \E t, u \in Requests : u \in met[t] /\ AddressOf[t] = a /\ AddressOf[u] = a

\* A subscription fails only if two of its address have been under way together,
\* which then makes every later one fail.
FailsOnlyWhenDoubled ==
    \A t \in Requests : step[t] = "error" => Doubled(AddressOf[t])

\* An address is written to once about a critical run, and once more if it is the
\* owner's, unless two of its subscriptions were under way together: restarts and
\* coming back after unsubscribing add no message.
OneMailEach ==
    \A a \in Addresses : mails[a] <= (IF a = Owner THEN 2 ELSE 1) \/ Doubled(a)

\* The last word counts, also among requests under way together: an address that
\* was last subscribed has an active row, and one that was last unsubscribed has
\* none, unless two of its subscriptions were under way together.
LastWordCounts ==
    \A a \in Addresses :
        /\ word[a] = "subscribed" => RowsOf(a) \cap ActiveRows # {}
        /\ word[a] = "unsubscribed" /\ ~Doubled(a) => RowsOf(a) \cap ActiveRows = {}

=============================================================================
