-------------------------- MODULE SubscribersProofs --------------------------
(***************************************************************************)
(* What Subscribers guarantees for any addresses, any number of requests   *)
(* and any number of starts of the server.                                 *)
(***************************************************************************)
EXTENDS Subscribers, FiniteSetTheorems, TLAPS

\* Subscriptions that are under way together have met, and nobody has met one that
\* has not begun.
Meetings ==
    /\ \A t, u \in UnderWay : t # u => u \in met[t]
    /\ \A t \in Requests : step[t] = "idle" => met[t] = {}

\* A request has no row before it inserts one, a request that is about to insert
\* has met whoever was quicker, and one that revives a row has found it.
Requested ==
    /\ \A t \in Requests : step[t] \in {"idle", "asked", "insert", "revive"} => row[t] = "none"
    /\ \A t, u \in Requests :
          step[t] = "insert" /\ row[u] # "none" /\ AddressOf[u] = AddressOf[t] => u \in met[t]
    /\ \A t \in Requests : step[t] = "revive" => found[t] \in RowsOf(AddressOf[t])

\* An address has two rows only after two of its subscriptions met.
OneRow ==
    \A t, u \in Requests :
        /\ row[t] # "none" /\ row[u] # "none" /\ AddressOf[t] = AddressOf[u] /\ t # u
        => Doubled(AddressOf[t])

\* The owner has one row for all repositories.
OneSeed == \A i, k \in Seeds : row[i] # "none" /\ row[k] # "none" => i = k

\* A meeting is not forgotten.
LEMMA DoubledStays ==
  ASSUME TypeOK, Meetings, [Next]_vars, NEW a, Doubled(a)
  PROVE  Doubled(a)'
<1>1. \A t \in Requests : met[t] \subseteq met'[t]
  <2>1. ASSUME NEW t \in Requests, Ask(t) PROVE \A u \in Requests : met[u] \subseteq met'[u]
    BY <2>1 DEF TypeOK, Meetings, Ask, UnderWay
  <2>2. ASSUME NEW t \in Requests, Find(t) \/ Insert(t) \/ Revive(t) PROVE UNCHANGED met
    BY <2>2 DEF Find, Insert, Revive
  <2>3. ASSUME NEW i \in Rows, Unsubscribe(i) \/ Send(i) \/ Restart(i) PROVE UNCHANGED met
    BY <2>3 DEF Unsubscribe, Send, Restart, Forget
  <2>4. Alert \/ UNCHANGED vars => UNCHANGED met
    BY DEF Alert, vars
  <2> QED
    BY <2>1, <2>2, <2>3, <2>4 DEF Next
<1> QED
  BY <1>1 DEF Doubled

\* Type correctness is preserved by every step.
LEMMA TypeStep ==
  ASSUME TypeOK, Requested, [Next]_vars
  PROVE  TypeOK'
<1> USE SubscribersAssumption DEF Rows
<1>1. ASSUME NEW t \in Requests, Ask(t) PROVE TypeOK'
  BY <1>1 DEF TypeOK, Ask, Goto, UnderWay, alertVars
<1>2. ASSUME NEW t \in Requests, Find(t) PROVE TypeOK'
  BY <1>2 DEF TypeOK, Find, Goto, Answer, RowsOf, alertVars
<1>3. ASSUME NEW t \in Requests, Insert(t) PROVE TypeOK'
  BY <1>3 DEF TypeOK, Insert, Goto, Answer, alertVars
<1>4. ASSUME NEW t \in Requests, Revive(t) PROVE TypeOK'
  BY <1>4 DEF TypeOK, Revive, Goto, Answer, alertVars
<1>5. ASSUME NEW i \in Rows, Unsubscribe(i) PROVE TypeOK'
  <2>1. word' \in [Addresses -> {"none", "subscribed", "unsubscribed"}]
    BY <1>5 DEF TypeOK, Unsubscribe
  <2> QED
    BY <1>5, <2>1 DEF TypeOK, Unsubscribe, alertVars
<1>6. ASSUME NEW i \in Rows, Send(i) PROVE TypeOK'
  BY <1>6 DEF TypeOK, Send, Address
<1>7. ASSUME NEW i \in Rows, Restart(i) PROVE TypeOK'
  <2>1. row' \in [Rows -> {"none", "active", "inactive"}]
    BY <1>7 DEF TypeOK, Restart
  <2> QED
    BY <1>7, <2>1 DEF TypeOK, Restart, Forget
<1>8. CASE Alert
  BY <1>8 DEF TypeOK, Alert, ActiveRows
<1>9. CASE UNCHANGED vars
  BY <1>9 DEF TypeOK, vars, alertVars
<1> QED
  BY <1>1, <1>2, <1>3, <1>4, <1>5, <1>6, <1>7, <1>8, <1>9 DEF Next

\* The requests, the meetings and the owner's row.
LEMMA RequestsStep ==
  ASSUME TypeOK, Meetings, Requested, OneSeed, [Next]_vars
  PROVE  Meetings' /\ Requested' /\ OneSeed'
<1> USE SubscribersAssumption DEF Rows
<1>1. ASSUME NEW t \in Requests, Ask(t) PROVE Meetings' /\ Requested' /\ OneSeed'
  BY <1>1 DEF TypeOK, Meetings, Requested, OneSeed, Ask, Goto, UnderWay, RowsOf, alertVars
<1>2. ASSUME NEW t \in Requests, Find(t) PROVE Meetings' /\ Requested' /\ OneSeed'
  BY <1>2 DEF TypeOK, Meetings, Requested, OneSeed, Find, Goto, Answer, UnderWay, RowsOf, alertVars
<1>3. ASSUME NEW t \in Requests, Insert(t) PROVE Meetings' /\ Requested' /\ OneSeed'
  BY <1>3 DEF TypeOK, Meetings, Requested, OneSeed, Insert, Goto, Answer, UnderWay, RowsOf, alertVars
<1>4. ASSUME NEW t \in Requests, Revive(t) PROVE Meetings' /\ Requested' /\ OneSeed'
  BY <1>4 DEF TypeOK, Meetings, Requested, OneSeed, Revive, Goto, Answer, UnderWay, RowsOf, alertVars
<1>5. ASSUME NEW i \in Rows, Unsubscribe(i) PROVE Meetings' /\ Requested' /\ OneSeed'
  BY <1>5 DEF TypeOK, Meetings, Requested, OneSeed, Unsubscribe, UnderWay, RowsOf, alertVars
<1>6. ASSUME NEW i \in Rows, Send(i) PROVE Meetings' /\ Requested' /\ OneSeed'
  BY <1>6 DEF Meetings, Requested, OneSeed, Send, UnderWay, RowsOf
<1>7. ASSUME NEW i \in Rows, Restart(i) PROVE Meetings' /\ Requested' /\ OneSeed'
  BY <1>7 DEF TypeOK, Meetings, Requested, OneSeed, Restart, Forget, UnderWay, RowsOf
<1>8. CASE Alert
  BY <1>8 DEF Meetings, Requested, OneSeed, Alert, UnderWay, RowsOf
<1>9. CASE UNCHANGED vars
  BY <1>9 DEF Meetings, Requested, OneSeed, vars, UnderWay, RowsOf
<1> QED
  BY <1>1, <1>2, <1>3, <1>4, <1>5, <1>6, <1>7, <1>8, <1>9 DEF Next

\* The second row of an address comes from a request that met the first one's.
LEMMA OneRowStep ==
  ASSUME TypeOK, Meetings, Requested, OneRow, [Next]_vars
  PROVE  OneRow'
<1> USE SubscribersAssumption DEF Rows
<1>1. \A a : Doubled(a) => Doubled(a)'
  BY DoubledStays
<1>2. ASSUME NEW t \in Requests, Insert(t) PROVE OneRow'
  <2>1. /\ step[t] = "insert" /\ UNCHANGED met
        /\ \A u \in Requests : u # t => row'[u] = row[u]
    BY <1>2 DEF Insert, TypeOK
  <2>2. ASSUME NEW u \in Requests, u # t, row[u] # "none", AddressOf[u] = AddressOf[t]
        PROVE  Doubled(AddressOf[t])'
    BY <2>1, <2>2 DEF Requested, Doubled
  <2> QED
    BY <1>1, <2>1, <2>2 DEF OneRow
<1>3. ASSUME \A u \in Requests : row'[u] # "none" => row[u] # "none" PROVE OneRow'
  BY <1>1, <1>3 DEF OneRow
<1>4. ASSUME NEW t \in Requests, Ask(t) \/ Find(t) PROVE UNCHANGED row
  BY <1>4 DEF Ask, Find
<1>5. ASSUME NEW t \in Requests, Revive(t)
      PROVE  \A u \in Requests : row'[u] # "none" => row[u] # "none"
  BY <1>5 DEF Revive, TypeOK, Requested, RowsOf
<1>6. ASSUME NEW i \in Rows, Unsubscribe(i) \/ Restart(i)
      PROVE  \A u \in Requests : row'[u] # "none" => row[u] # "none"
  BY <1>6 DEF Unsubscribe, Restart, TypeOK
<1>7. ASSUME NEW i \in Rows, Send(i) PROVE UNCHANGED row
  BY <1>7 DEF Send
<1>8. Alert \/ UNCHANGED vars => UNCHANGED row
  BY DEF Alert, vars
<1> QED
  BY <1>2, <1>3, <1>4, <1>5, <1>6, <1>7, <1>8 DEF Next

\* one_or_none fails on two rows, so on an address with two.
LEMMA FailsStep ==
  ASSUME TypeOK, Meetings, OneRow, FailsOnlyWhenDoubled, [Next]_vars
  PROVE  FailsOnlyWhenDoubled'
<1> USE SubscribersAssumption DEF Rows
<1>1. \A a : Doubled(a) => Doubled(a)'
  BY DoubledStays
<1>2. ASSUME NEW t \in Requests, Find(t) PROVE FailsOnlyWhenDoubled'
  <2> DEFINE is == RowsOf(AddressOf[t])
  <2>1. Cardinality(is) > 1 => Doubled(AddressOf[t])
    <3>1. is \subseteq Requests /\ IsFiniteSet(is)
      BY FS_Subset DEF RowsOf
    <3>2. ASSUME Cardinality(is) > 1 PROVE \E u, w \in is : u # w
      <4>1. is # {}
        BY <3>2, FS_EmptySet
      <4>2. PICK u \in is : TRUE
        BY <4>1
      <4>3. is # {u}
        BY <3>2, FS_Singleton
      <4> QED
        BY <4>2, <4>3
    <3> QED
      BY <3>2 DEF OneRow, RowsOf
  <2>2. \A u \in Requests : step'[u] = "error" => step[u] = "error" \/ (u = t /\ Cardinality(is) > 1)
    BY <1>2 DEF Find, Goto, Answer, TypeOK
  <2> QED
    BY <1>1, <2>1, <2>2 DEF FailsOnlyWhenDoubled
<1>3. ASSUME \A u \in Requests : step'[u] = "error" => step[u] = "error" PROVE FailsOnlyWhenDoubled'
  BY <1>1, <1>3 DEF FailsOnlyWhenDoubled
<1>4. ASSUME NEW t \in Requests, Ask(t) \/ Insert(t) \/ Revive(t)
      PROVE  \A u \in Requests : step'[u] = "error" => step[u] = "error"
  BY <1>4 DEF Ask, Insert, Revive, Answer, Goto, TypeOK
<1>5. ASSUME NEW i \in Rows, Unsubscribe(i) \/ Send(i) \/ Restart(i)
      PROVE  \A u \in Requests : step'[u] = "error" => step[u] = "error"
  BY <1>5 DEF Unsubscribe, Send, Restart, Forget
<1>6. Alert \/ UNCHANGED vars => UNCHANGED step
  BY DEF Alert, vars
<1> QED
  BY <1>2, <1>3, <1>4, <1>5, <1>6 DEF Next

-----------------------------------------------------------------------------
\* The messages of an alert.

\* The rows an alert has still to write to, by address.
Pending(a) == {i \in mailing : Address(i) = a}

\* What an address may get about one run.
Allowed(a) == IF a = Owner THEN 2 ELSE 1

Mailed ==
    \A a \in Addresses : mails[a] + Cardinality(Pending(a)) <= Allowed(a) \/ Doubled(a)

\* What is counted is finite.
LEMMA RowsFinite ==
  ASSUME TypeOK, NEW a
  PROVE  IsFiniteSet(Rows) /\ IsFiniteSet(Pending(a)) /\ Cardinality(Pending(a)) \in Nat
<1>1. IsFiniteSet(Rows)
  BY SubscribersAssumption, FS_Union DEF Rows
<1>2. Pending(a) \subseteq Rows
  BY DEF Pending, TypeOK
<1> QED
  BY <1>1, <1>2, FS_Subset, FS_CardinalityType

\* An undisturbed address has one active row, and the owner one more.
LEMMA FewRows ==
  ASSUME TypeOK, OneRow, OneSeed, NEW a \in Addresses, ~Doubled(a)
  PROVE  Cardinality({i \in ActiveRows : Address(i) = a}) <= Allowed(a)
<1> DEFINE is == {i \in ActiveRows : Address(i) = a}
           own == is \cap Requests
           seeded == is \cap Seeds
<1>1. IsFiniteSet(own) /\ IsFiniteSet(seeded) /\ is = own \cup seeded
  BY SubscribersAssumption, FS_Subset DEF ActiveRows, Rows
<1>2. \A i, k \in own : i = k
  BY SubscribersAssumption DEF OneRow, ActiveRows, Address, Rows
<1>3. \A i, k \in seeded : i = k
  BY DEF OneSeed, ActiveRows
<1>4. a # Owner => seeded = {}
  BY DEF Address
<1>5. ASSUME NEW S, \A i, k \in S : i = k PROVE Cardinality(S) \in {0, 1}
  <2>1. CASE S = {}
    BY <2>1, FS_EmptySet
  <2>2. CASE S # {}
    <3>1. PICK i \in S : S = {i}
      BY <1>5, <2>2
    <3> QED
      BY <3>1, FS_Singleton
  <2> QED
    BY <2>1, <2>2
<1>6. Cardinality(own) \in {0, 1} /\ Cardinality(seeded) \in {0, 1}
  BY <1>2, <1>3, <1>5
<1>7. own \cap seeded = {}
  BY SubscribersAssumption
<1>8. Cardinality(is) = Cardinality(own) + Cardinality(seeded)
  <2>1. Cardinality(own \cup seeded) = Cardinality(own) + Cardinality(seeded) - Cardinality(own \cap seeded)
    BY <1>1, FS_Union
  <2> QED
    BY <1>1, <1>6, <1>7, <2>1, FS_EmptySet
<1>9. a # Owner => Cardinality(seeded) = 0
  BY <1>4, FS_EmptySet
<1> QED
  BY <1>6, <1>8, <1>9 DEF Allowed

\* Writing to a row takes it off the list.
LEMMA MailedStep ==
  ASSUME TypeOK, Meetings, OneRow, OneSeed, Mailed, [Next]_vars
  PROVE  Mailed'
<1> USE SubscribersAssumption
<1>1. \A a : Doubled(a) => Doubled(a)'
  BY DoubledStays
<1>2. ASSUME UNCHANGED <<mails, mailing>> PROVE Mailed'
  BY <1>1, <1>2 DEF Mailed, Pending, Allowed
<1>3. CASE Alert
  <2>1. \A a \in Addresses : mails'[a] = 0 /\ Pending(a)' = {i \in ActiveRows : Address(i) = a}
    BY <1>3 DEF Alert, Pending
  <2>2. \A a \in Addresses : Doubled(a) <=> Doubled(a)'
    BY <1>3 DEF Alert, Doubled
  <2>3. ASSUME NEW a \in Addresses, ~Doubled(a)
        PROVE  mails'[a] + Cardinality(Pending(a)') <= Allowed(a)
    <3>1. Cardinality({i \in ActiveRows : Address(i) = a}) <= Allowed(a)
      BY <2>3, FewRows
    <3>2. Cardinality({i \in ActiveRows : Address(i) = a}) \in Nat
      BY RowsFinite, FS_Subset, FS_CardinalityType DEF ActiveRows
    <3> QED
      BY <2>1, <3>1, <3>2
  <2> QED
    BY <2>2, <2>3 DEF Mailed, Allowed
<1>4. ASSUME NEW i \in Rows, Send(i) PROVE Mailed'
  <2>1. ASSUME NEW a \in Addresses, mails[a] + Cardinality(Pending(a)) <= Allowed(a)
        PROVE  mails'[a] + Cardinality(Pending(a)') <= Allowed(a)
    <3>1. mails[a] \in Nat /\ Cardinality(Pending(a)) \in Nat /\ IsFiniteSet(Pending(a))
      BY RowsFinite DEF TypeOK
    <3>2. CASE Address(i) = a
      <4>1. mails'[a] = mails[a] + 1 /\ Pending(a)' = Pending(a) \ {i} /\ i \in Pending(a)
        BY <1>4, <3>2 DEF Send, Pending, TypeOK
      <4>2. Cardinality(Pending(a) \ {i}) = Cardinality(Pending(a)) - 1
        BY <3>1, <4>1, FS_RemoveElement
      <4> QED
        BY <2>1, <3>1, <4>1, <4>2 DEF Allowed
    <3>3. CASE Address(i) # a
      <4>1. mails'[a] = mails[a] /\ Pending(a)' = Pending(a)
        BY <1>4, <3>3 DEF Send, Pending, TypeOK
      <4> QED
        BY <2>1, <4>1
    <3> QED
      BY <3>2, <3>3
  <2> QED
    BY <1>1, <2>1 DEF Mailed, Allowed
<1>5. ASSUME NEW i \in Rows, Restart(i) PROVE Mailed'
  <2>1. mails' = mails /\ \A a \in Addresses : Pending(a)' = {}
    BY <1>5 DEF Restart, Forget, Pending
  <2>2. \A a \in Addresses : mails[a] + Cardinality(Pending(a)) <= Allowed(a) => mails[a] + 0 <= Allowed(a)
    BY RowsFinite DEF TypeOK, Allowed
  <2> QED
    BY <1>1, <2>1, <2>2, FS_EmptySet DEF Mailed, Allowed
<1>6. ASSUME NEW t \in Requests, Ask(t) \/ Find(t) \/ Insert(t) \/ Revive(t)
      PROVE  UNCHANGED <<mails, mailing>>
  BY <1>6 DEF Ask, Find, Insert, Revive, alertVars
<1>7. ASSUME NEW i \in Rows, Unsubscribe(i) PROVE UNCHANGED <<mails, mailing>>
  BY <1>7 DEF Unsubscribe, alertVars
<1>8. UNCHANGED vars => UNCHANGED <<mails, mailing>>
  BY DEF vars, alertVars
<1> QED
  BY <1>2, <1>3, <1>4, <1>5, <1>6, <1>7, <1>8 DEF Next

-----------------------------------------------------------------------------
\* What was last said about an address.

\* Rows become active with a subscription, and the others of the address are there
\* only if two subscriptions have met.
LEMMA LastWordStep ==
  ASSUME TypeOK, Meetings, Requested, OneRow, LastWordCounts, [Next]_vars
  PROVE  LastWordCounts'
<1> USE SubscribersAssumption DEF Rows
<1>1. \A a : Doubled(a) => Doubled(a)'
  BY DoubledStays
<1>2. ASSUME UNCHANGED word, \A u \in Requests : row'[u] = row[u] PROVE LastWordCounts'
  <2>1. \A a \in Addresses : (RowsOf(a) \cap ActiveRows)' = RowsOf(a) \cap ActiveRows
    BY <1>2 DEF RowsOf, ActiveRows
  <2> QED
    BY <1>1, <1>2, <2>1 DEF LastWordCounts
<1>3. ASSUME NEW t \in Requests, NEW i \in RowsOf(AddressOf[t])', row'[i] = "active",
             \A u \in Requests : u # i => row'[u] = row[u], Answer(t)
      PROVE  LastWordCounts'
  <2>1. i \in Requests /\ AddressOf[i] = AddressOf[t]
    BY <1>3 DEF RowsOf
  <2>2. ASSUME NEW a \in Addresses, a # AddressOf[t]
        PROVE  /\ (RowsOf(a) \cap ActiveRows)' = RowsOf(a) \cap ActiveRows
               /\ word'[a] = word[a]
    BY <1>3, <2>1, <2>2 DEF RowsOf, ActiveRows, Answer, TypeOK
  <2>3. i \in (RowsOf(AddressOf[t]) \cap ActiveRows)' /\ word'[AddressOf[t]] = "subscribed"
    BY <1>3, <2>1 DEF ActiveRows, Answer, TypeOK
  <2> QED
    BY <1>1, <2>2, <2>3 DEF LastWordCounts
<1>4. ASSUME NEW t \in Requests, Ask(t) PROVE LastWordCounts'
  BY <1>2, <1>4 DEF Ask
<1>5. ASSUME NEW t \in Requests, Find(t) PROVE LastWordCounts'
  <2>1. UNCHANGED row
    BY <1>5 DEF Find
  <2>2. UNCHANGED word \/ \E i \in RowsOf(AddressOf[t]) : row[i] = "active" /\ Answer(t)
    BY <1>5 DEF Find
  <2>3. RowsOf(AddressOf[t])' = RowsOf(AddressOf[t])
    BY <2>1 DEF RowsOf
  <2> QED
    BY <1>2, <1>3, <2>1, <2>2, <2>3
<1>6. ASSUME NEW t \in Requests, Insert(t) PROVE LastWordCounts'
  <2>1. row'[t] = "active" /\ \A u \in Requests : u # t => row'[u] = row[u]
    BY <1>6 DEF Insert, TypeOK
  <2>2. t \in RowsOf(AddressOf[t])' /\ Answer(t)
    BY <1>6, <2>1 DEF Insert, RowsOf
  <2> QED
    BY <1>3, <2>1, <2>2
<1>7. ASSUME NEW t \in Requests, Revive(t) PROVE LastWordCounts'
  <2>1. found[t] \in Requests /\ AddressOf[found[t]] = AddressOf[t]
    BY <1>7 DEF Revive, Requested, RowsOf
  <2>2. row'[found[t]] = "active" /\ \A u \in Requests : u # found[t] => row'[u] = row[u]
    BY <1>7, <2>1 DEF Revive, TypeOK
  <2>3. found[t] \in RowsOf(AddressOf[t])' /\ Answer(t)
    BY <1>7, <2>1, <2>2 DEF Revive, RowsOf
  <2> QED
    BY <1>3, <2>2, <2>3
<1>8. ASSUME NEW i \in Rows, Unsubscribe(i) PROVE LastWordCounts'
  <2>1. CASE i \in Seeds
    BY <1>2, <1>8, <2>1 DEF Unsubscribe, TypeOK
  <2>2. CASE i \in Requests
    <3>1. /\ row[i] # "none" /\ row'[i] = "inactive" /\ UNCHANGED met
          /\ \A u \in Requests : u # i => row'[u] = row[u]
          /\ word' = [word EXCEPT ![AddressOf[i]] = "unsubscribed"]
      BY <1>8, <2>2 DEF Unsubscribe, TypeOK
    <3>2. ASSUME NEW a \in Addresses, a # AddressOf[i]
          PROVE  /\ (RowsOf(a) \cap ActiveRows)' = RowsOf(a) \cap ActiveRows
                 /\ word'[a] = word[a]
      BY <2>2, <3>1, <3>2 DEF RowsOf, ActiveRows, TypeOK
    <3>3. word'[AddressOf[i]] = "unsubscribed"
      BY <2>2, <3>1 DEF TypeOK
    <3>4. ASSUME NEW u \in (RowsOf(AddressOf[i]) \cap ActiveRows)' PROVE Doubled(AddressOf[i])'
      <4>1. u \in Requests /\ u # i /\ row[u] # "none" /\ AddressOf[u] = AddressOf[i]
        BY <2>2, <3>1 DEF RowsOf, ActiveRows
      <4> QED
        BY <1>1, <2>2, <3>1, <4>1 DEF OneRow
    <3> QED
      BY <1>1, <3>2, <3>3, <3>4 DEF LastWordCounts
  <2> QED
    BY <2>1, <2>2
<1>9. ASSUME NEW i \in Rows, Send(i) \/ Restart(i) PROVE LastWordCounts'
  <2>1. UNCHANGED word
    BY <1>9 DEF Send, Restart, Forget
  <2>2. \A u \in Requests : row'[u] = row[u]
    BY <1>9 DEF Send, Restart, TypeOK
  <2> QED
    BY <1>2, <2>1, <2>2
<1>10. CASE Alert
  BY <1>2, <1>10 DEF Alert
<1>11. CASE UNCHANGED vars
  BY <1>2, <1>11 DEF vars
<1> QED
  BY <1>4, <1>5, <1>6, <1>7, <1>8, <1>9, <1>10, <1>11 DEF Next

-----------------------------------------------------------------------------
\* The inductive invariant.

Inv ==
    /\ TypeOK /\ Meetings /\ Requested /\ OneRow /\ OneSeed
    /\ FailsOnlyWhenDoubled /\ Mailed /\ LastWordCounts

\* It holds after the first start.
LEMMA InvInit == Init => Inv
<1> SUFFICES ASSUME Init PROVE Inv
  OBVIOUS
<1> USE SubscribersAssumption DEF Rows
<1>1. TypeOK
  BY DEF Init, TypeOK
<1>2. Meetings /\ Requested /\ OneRow /\ OneSeed /\ FailsOnlyWhenDoubled
  BY DEF Init, Meetings, Requested, OneRow, OneSeed, FailsOnlyWhenDoubled, UnderWay
<1>3. \A a \in Addresses : mails[a] = 0 /\ Pending(a) = {} /\ word[a] = "none"
  BY DEF Init, Pending
<1>4. Mailed
  BY <1>3, FS_EmptySet DEF Mailed, Allowed
<1>5. LastWordCounts
  BY <1>3 DEF LastWordCounts
<1> QED
  BY <1>1, <1>2, <1>4, <1>5 DEF Inv

\* Every step preserves it.
LEMMA InvStep == Inv /\ [Next]_vars => Inv'
<1> SUFFICES ASSUME Inv, [Next]_vars PROVE Inv'
  OBVIOUS
<1> USE DEF Inv
<1>1. TypeOK'
  BY TypeStep
<1>2. Meetings' /\ Requested' /\ OneSeed'
  BY RequestsStep
<1>3. OneRow' /\ FailsOnlyWhenDoubled'
  BY OneRowStep, FailsStep
<1>4. Mailed' /\ LastWordCounts'
  BY MailedStep, LastWordStep
<1> QED
  BY <1>1, <1>2, <1>3, <1>4

\* So it holds always.
LEMMA Invariant == Spec => []Inv
BY InvInit, InvStep, PTL DEF Spec

-----------------------------------------------------------------------------
\* Every variable of the subscribers' model keeps its type.
THEOREM SubscribersTypeCorrect == Spec => []TypeOK
<1>1. Inv => TypeOK
  BY DEF Inv
<1> QED
  BY <1>1, Invariant, PTL

\* However many requests there are, a subscription fails only for an address that
\* has had two of them under way together (subscribe reads, then inserts).
THEOREM FailsWhenDoubled == Spec => []FailsOnlyWhenDoubled
<1>1. Inv => FailsOnlyWhenDoubled
  BY DEF Inv
<1> QED
  BY <1>1, Invariant, PTL

\* However often the server starts and seeds the owner's row, nobody who has not
\* doubled a subscription is written to more often about a run than the rows that
\* notify_subscribers is meant to find.
THEOREM MailedOnce == Spec => []OneMailEach
<1>1. Inv => OneMailEach
  <2> SUFFICES ASSUME Inv, NEW a \in Addresses, ~Doubled(a) PROVE mails[a] <= Allowed(a)
    BY DEF OneMailEach, Allowed
  <2>1. mails[a] + Cardinality(Pending(a)) <= Allowed(a)
    BY DEF Inv, Mailed
  <2>2. mails[a] \in Nat /\ Cardinality(Pending(a)) \in Nat
    BY RowsFinite DEF Inv, TypeOK
  <2> QED
    BY <2>1, <2>2 DEF Allowed
<1> QED
  BY <1>1, Invariant, PTL

\* Whoever subscribed last gets the alerts, and whoever unsubscribed last gets
\* none, for all requests of all addresses in any order.
THEOREM LastWord == Spec => []LastWordCounts
<1>1. Inv => LastWordCounts
  BY DEF Inv
<1> QED
  BY <1>1, Invariant, PTL

=============================================================================
