----------------------------- MODULE PoolProofs -----------------------------
(***************************************************************************)
(* What SessionPool guarantees for any numbers of jobs, plain routes,      *)
(* threads and connections, and any issue bodies: connections are never    *)
(* leaked, none runs out before as many jobs and plain routes as there are *)
(* connections are under way, and what is stored tells the truth about the *)
(* calls it rests on.                                                      *)
(***************************************************************************)
EXTENDS SessionPool, FiniteSetTheorems, SequenceTheorems, TLAPS

\* A call of a job, or a candidate of a search for context.
At(j, p, n) ==
    \/ p = "call" /\ j \in Callers /\ n \in 1 .. Calls[j]
    \/ p = "path" /\ j \in Seekers /\ n \in 1 .. Len(body[j].paths)
    \/ p \in {"search", "file"} /\ j \in Seekers /\ n \in 1 .. Len(body[j].names)

\* A job that waits for an answer waits for one that is there to come, and the
\* event loop waits with the one job that asks for a connection.
Placed(j) ==
    /\ work[j] = "github" => At(j, place[j], nth[j])
    /\ work[j] \in {"queued", "gemini"} => j \in Runs
    /\ work[j] \in {"save", "created"} => j \in Injections
    /\ work[j] \in {"opening", "created", "reopening"} <=> loop = j

\* Who has a connection, and who has a thread.
Connected(j) ==
    /\ j \in held <=> work[j] \in Keeping
    /\ thread[j] # "none" => work[j] \in {"github", "gemini"}

\* Nothing is stored before its time, and nothing of a request in trouble.
Saved(j) ==
    /\ stored[j] => work[j] \in {"reopening", "answering", "done", "failed"}
    /\ j \in Savers /\ troubled[j] => work[j] \in {"answering", "done", "failed"} /\ ~stored[j]

\* What the candidates before the current one led to.
MissedBefore(j, n)  == \A m \in 1 .. n : body[j].paths[m] = "miss"
UselessBefore(j, n) == \A m \in 1 .. n : body[j].names[m] # "hit"

SoFarOf(b, p, n) ==
    /\ p = "path" => \A m \in 1 .. n - 1 : b.paths[m] = "miss"
    /\ p \in {"search", "file"} =>
          /\ \A m \in 1 .. Len(b.paths) : b.paths[m] = "miss"
          /\ \A m \in 1 .. n - 1 : b.names[m] # "hit"

SoFar(j, p, n) == SoFarOf(body[j], p, n)

\* What a job does whose search for context is over, or stands still with it.
IsSought(j, w) ==
    \/ w \in {"queued", "gemini", "store", "reopening"}
    \/ j \in Lookups /\ w \in {"answering", "done"}

\* The context of an undisturbed search, while it goes on and afterwards.
Informed(j) ==
    j \in Seekers /\ ~troubled[j] =>
        /\ work[j] \in {"idle", "opening", "github", "save", "created"} => context[j] = NoFile
        /\ work[j] = "github" => SoFar(j, place[j], nth[j])
        /\ IsSought(j, work[j]) \/ stored[j] => IsFirstHit(body[j], context[j])

\* All that holds of one job.
JobInv(j) == Placed(j) /\ Connected(j) /\ Saved(j) /\ Informed(j)

JobsInv  == TypeOK /\ \A j \in Jobs : JobInv(j)
Capacity == Cardinality(held) + Cardinality(Holding) + Cardinality(Returned) <= Size

Inv == JobsInv /\ Capacity

Works   == Ended \cup Keeping \cup {"opening", "created", "reopening"}
Kinds   == {"call", "path", "search", "file", "gemini"}
Uses    == {"none", "wanting", "holding", "calling", "returned", "recorded", "failed"}

-----------------------------------------------------------------------------
\* Where the calls lead.

\* The bodies of issues are pairs of sequences.
LEMMA BodyType ==
  ASSUME TypeOK, NEW j \in Seekers
  PROVE  /\ body[j] \in Bodies
         /\ body[j].paths \in Seq({"hit", "miss"})
         /\ body[j].names \in Seq({"hit", "empty", "none"})
         /\ Len(body[j].paths) \in Nat /\ Len(body[j].names) \in Nat
<1>1. body[j] \in Bodies
  BY DEF TypeOK
<1>2. body[j] \in [paths : Seq({"hit", "miss"}), names : Seq({"hit", "empty", "none"})]
  BY <1>1, PoolAssumption
<1> QED
  BY <1>1, <1>2, LenProperties

\* Who is what.
LEMMA JobKinds ==
  /\ Jobs \subseteq Threads /\ Readers \subseteq Threads
  /\ Runs \subseteq Jobs /\ Seekers \subseteq Jobs
  /\ Injections \subseteq Runs /\ Injections \subseteq Callers
  /\ \A j \in Callers : Calls[j] \in Nat /\ 1 \in 1 .. Calls[j]
  /\ \A j \in Seekers : j \notin Savers \cup Polls /\ (j \in Runs <=> j \notin Lookups)
  /\ \A j \in Runs : j \in Seekers
  /\ \A j \in Lookups : j \in Seekers /\ j \in Callers /\ j \notin Injections
  /\ \A j \in Savers \cup Polls : j \notin Seekers /\ j \in Callers /\ j \notin Injections /\ j \notin Lookups
  /\ \A j \in Jobs : j \in Seekers \/ j \in Savers \cup Polls
  /\ Nothing \notin Jobs
  /\ \A x \in Readers : x \notin Jobs
<1>1. \A j \in Callers : Calls[j] \in Nat /\ 1 \in 1 .. Calls[j]
  BY PoolAssumption
<1> QED
  BY <1>1, PoolAssumption DEF Jobs, Threads, Seekers, Savers, Callers

\* What is to come next is a call, a candidate, or what the job is there for.
MayFollow(j, to) ==
    \/ to[1] = "github" /\ At(j, to[2], to[3])
    \/ j \in Seekers /\ to = Sought(j)
    \/ j \in Injections /\ to = <<"save", "call", nth[j]>>
    \/ j \in Savers \cup Polls /\ to = <<"store", "call", nth[j]>>

\* A search ends with the pipeline or with the answer.
LEMMA SoughtTo ==
  ASSUME NEW j \in Seekers
  PROVE  /\ Sought(j)[1] \in {"queued", "answering"} /\ Sought(j)[2] \in Kinds /\ Sought(j)[3] \in Nat
         /\ Sought(j)[1] = "queued" => j \in Runs
         /\ Sought(j)[1] = "answering" => j \in Lookups
         /\ IsSought(j, Sought(j)[1])
<1>1. CASE j \in Lookups
  BY <1>1 DEF Sought, IsSought, Kinds
<1>2. CASE j \notin Lookups
  BY <1>2, JobKinds DEF Sought, IsSought, Kinds
<1> QED
  BY <1>1, <1>2

\* The next candidate of a tier, the first name after the paths, or none.
LEMMA SeekTo ==
  ASSUME TypeOK, NEW j \in Seekers, NEW t \in {"path", "search"}, NEW n \in Nat \ {0}
  PROVE  \/ t = "path" /\ n \in 1 .. Len(body[j].paths) /\ Seek(j, t, n) = <<"github", "path", n>>
         \/ /\ t = "path" /\ n > Len(body[j].paths) /\ 1 \in 1 .. Len(body[j].names)
            /\ Seek(j, t, n) = <<"github", "search", 1>>
         \/ t = "search" /\ n \in 1 .. Len(body[j].names) /\ Seek(j, t, n) = <<"github", "search", n>>
         \/ /\ t = "path" => n > Len(body[j].paths) /\ Len(body[j].names) = 0
            /\ t = "search" => n > Len(body[j].names)
            /\ Seek(j, t, n) = Sought(j)
<1>1. body[j].names # <<>> <=> Len(body[j].names) # 0
  BY BodyType, EmptySeq
<1>2. CASE t = "path" /\ n <= Len(body[j].paths)
  BY <1>2, BodyType DEF Seek
<1>3. CASE t = "path" /\ n > Len(body[j].paths) /\ body[j].names # <<>>
  BY <1>3, <1>1, BodyType DEF Seek
<1>4. CASE t = "search" /\ n <= Len(body[j].names)
  BY <1>4, BodyType DEF Seek
<1>5. CASE ~(t = "path" /\ n <= Len(body[j].paths)) /\ ~(t = "search" /\ n <= Len(body[j].names))
           /\ ~(t = "path" /\ body[j].names # <<>>)
  BY <1>5, <1>1, BodyType DEF Seek
<1> QED
  BY <1>2, <1>3, <1>4, <1>5, BodyType

\* What a step of the search from candidates so far to `to' may leave behind.
Searched(j, to, c) ==
    /\ to[1] = "github" => SoFar(j, to[2], to[3]) /\ c = NoFile
    /\ to[1] = "save" => c = NoFile
    /\ IsSought(j, to[1]) => IsFirstHit(body[j], c)

\* What a search for the next candidate leaves behind it has led to nothing.
LEMMA SeekContext ==
  ASSUME TypeOK, NEW j \in Seekers, NEW t \in {"path", "search"}, NEW n \in Nat \ {0}
  PROVE  /\ MayFollow(j, Seek(j, t, n))
         /\ SoFar(j, t, n) => Searched(j, Seek(j, t, n), NoFile)
<1> DEFINE b == body[j]
<1>1. Len(b.paths) \in Nat /\ Len(b.names) \in Nat
  BY BodyType
<1>2. CASE t = "path" /\ n \in 1 .. Len(b.paths) /\ Seek(j, t, n) = <<"github", "path", n>>
  BY <1>2 DEF MayFollow, At, SoFar, SoFarOf, Searched, IsSought
<1>3. CASE /\ t = "path" /\ n > Len(b.paths) /\ 1 \in 1 .. Len(b.names)
           /\ Seek(j, t, n) = <<"github", "search", 1>>
  <2>1. SoFar(j, t, n) => MissedBefore(j, Len(b.paths))
    BY <1>3, <1>1 DEF SoFar, SoFarOf, MissedBefore
  <2>2. SoFar(j, t, n) => SoFar(j, "search", 1)
    BY <2>1 DEF SoFar, SoFarOf, MissedBefore
  <2> QED
    BY <1>3, <2>2 DEF MayFollow, At, Searched, IsSought
<1>4. CASE t = "search" /\ n \in 1 .. Len(b.names) /\ Seek(j, t, n) = <<"github", "search", n>>
  BY <1>4 DEF MayFollow, At, SoFar, SoFarOf, Searched, IsSought
<1>5. CASE /\ t = "path" => n > Len(b.paths) /\ Len(b.names) = 0
           /\ t = "search" => n > Len(b.names)
           /\ Seek(j, t, n) = Sought(j)
  <2>1. SoFar(j, t, n) => MissedBefore(j, Len(b.paths))
    BY <1>5, <1>1 DEF SoFar, SoFarOf, MissedBefore
  <2>2. SoFar(j, t, n) => UselessBefore(j, Len(b.names))
    BY <1>5, <1>1 DEF SoFar, SoFarOf, UselessBefore
  <2>3. SoFar(j, t, n) => IsFirstHit(b, NoFile)
    BY <2>1, <2>2 DEF IsFirstHit, MissedBefore, UselessBefore
  <2>4. Sought(j)[1] \in {"queued", "answering"}
    BY SoughtTo
  <2> QED
    BY <1>5, <2>3, <2>4 DEF MayFollow, Searched
<1> QED
  BY <1>2, <1>3, <1>4, <1>5, SeekTo

\* The last call before a search or before what is stored.
LEMMA AfterCallsTo ==
  ASSUME TypeOK, NEW j \in Callers
  PROVE  /\ MayFollow(j, AfterCalls(j))
         /\ j \in Seekers => Searched(j, AfterCalls(j), NoFile)
<1>1. CASE j \in Lookups
  <2>1. SoFar(j, "path", 1)
    BY DEF SoFar, SoFarOf
  <2> QED
    BY <1>1, <2>1, SeekContext, JobKinds DEF AfterCalls
<1>2. CASE j \in Injections
  <2>1. AfterCalls(j) = <<"save", "call", nth[j]>>
    BY <1>2, JobKinds DEF AfterCalls
  <2> QED
    BY <1>2, <2>1 DEF MayFollow, Searched, IsSought
<1>3. CASE j \in Savers \cup Polls
  <2>1. AfterCalls(j) = <<"store", "call", nth[j]>> /\ j \notin Seekers
    BY <1>3, JobKinds DEF AfterCalls
  <2> QED
    BY <1>3, <2>1 DEF MayFollow
<1> QED
  BY <1>1, <1>2, <1>3 DEF Callers

\* The same of an answer, which may also be the file that was sought.
LEMMA AnswerContext ==
  ASSUME TypeOK, NEW j \in Jobs, At(j, place[j], nth[j])
  PROVE  /\ MayFollow(j, AfterAnswer(j))
         /\ j \in Seekers /\ SoFar(j, place[j], nth[j]) =>
               Searched(j, AfterAnswer(j), IF IsHit(j) THEN <<place[j], nth[j]>> ELSE NoFile)
         /\ IsHit(j) => place[j] \in {"path", "file"} /\ nth[j] \in Nat
<1> DEFINE b == body[j]
           n == nth[j]
<1>1. CASE place[j] = "call"
  <2>1. j \in Callers /\ n \in 1 .. Calls[j] /\ Calls[j] \in Nat /\ ~IsHit(j)
    BY <1>1, JobKinds DEF At, IsHit
  <2>2. CASE n < Calls[j]
    <3>1. AfterAnswer(j) = <<"github", "call", n + 1>> /\ n + 1 \in 1 .. Calls[j]
      BY <1>1, <2>1, <2>2 DEF AfterAnswer
    <3> QED
      BY <2>1, <3>1 DEF MayFollow, At, Searched, SoFar, SoFarOf, IsSought
  <2>3. CASE n >= Calls[j]
    <3>1. AfterAnswer(j) = AfterCalls(j)
      BY <1>1, <2>1, <2>3 DEF AfterAnswer
    <3> QED
      BY <2>1, <3>1, AfterCallsTo
  <2> QED
    BY <2>1, <2>2, <2>3
<1>2. CASE place[j] # "call"
  <2>0. j \in Seekers
    BY <1>2 DEF At
  <2> USE <2>0
  <2>1. /\ Len(b.paths) \in Nat /\ Len(b.names) \in Nat
        /\ b.paths \in Seq({"hit", "miss"}) /\ b.names \in Seq({"hit", "empty", "none"})
    BY BodyType
  <2>2. CASE place[j] = "path" /\ n \in 1 .. Len(b.paths) /\ b.paths[n] = "miss"
    <3>1. AfterAnswer(j) = Seek(j, "path", n + 1) /\ ~IsHit(j)
      BY <2>2 DEF AfterAnswer, IsHit
    <3>2. SoFar(j, "path", n) => SoFar(j, "path", n + 1)
      BY <2>2 DEF SoFar, SoFarOf
    <3> QED
      BY <2>2, <3>1, <3>2, SeekContext
  <2>3. CASE place[j] = "path" /\ n \in 1 .. Len(b.paths) /\ b.paths[n] = "hit"
    <3>1. AfterAnswer(j) = Sought(j) /\ IsHit(j)
      BY <2>3 DEF AfterAnswer, IsHit
    <3>2. SoFar(j, "path", n) => IsFirstHit(b, <<"path", n>>)
      BY <2>3 DEF SoFar, SoFarOf, IsFirstHit
    <3> QED
      BY <2>3, <3>1, <3>2, SoughtTo DEF MayFollow, Searched
  <2>4. CASE place[j] = "search" /\ n \in 1 .. Len(b.names) /\ b.names[n] = "none"
    <3>1. AfterAnswer(j) = Seek(j, "search", n + 1) /\ ~IsHit(j)
      BY <2>4 DEF AfterAnswer, IsHit
    <3>2. SoFar(j, "search", n) => SoFar(j, "search", n + 1)
      BY <2>4 DEF SoFar, SoFarOf
    <3> QED
      BY <2>4, <3>1, <3>2, SeekContext
  <2>5. CASE place[j] = "search" /\ n \in 1 .. Len(b.names) /\ b.names[n] # "none"
    <3>1. AfterAnswer(j) = <<"github", "file", n>> /\ ~IsHit(j)
      BY <2>5 DEF AfterAnswer, IsHit
    <3> QED
      BY <2>5, <3>1 DEF MayFollow, At, SoFar, SoFarOf, Searched, IsSought
  <2>6. CASE place[j] = "file" /\ n \in 1 .. Len(b.names) /\ b.names[n] # "hit"
    <3>1. AfterAnswer(j) = Seek(j, "search", n + 1) /\ ~IsHit(j)
      BY <2>6 DEF AfterAnswer, IsHit
    <3>2. SoFar(j, "file", n) => SoFar(j, "search", n + 1)
      BY <2>6 DEF SoFar, SoFarOf
    <3> QED
      BY <2>6, <3>1, <3>2, SeekContext
  <2>7. CASE place[j] = "file" /\ n \in 1 .. Len(b.names) /\ b.names[n] = "hit"
    <3>1. AfterAnswer(j) = Sought(j) /\ IsHit(j)
      BY <2>7 DEF AfterAnswer, IsHit
    <3>2. SoFar(j, "file", n) => IsFirstHit(b, <<"file", n>>)
      BY <2>7, <2>1 DEF SoFar, SoFarOf, IsFirstHit
    <3> QED
      BY <2>7, <3>1, <3>2, SoughtTo DEF MayFollow, Searched
  <2>8. \A m \in 1 .. Len(b.paths) : b.paths[m] \in {"hit", "miss"}
    BY <2>1, ElementOfSeq
  <2> QED
    BY <1>2, <2>2, <2>3, <2>4, <2>5, <2>6, <2>7, <2>8 DEF At
<1> QED
  BY <1>1, <1>2

\* A job with its connection begins with a search before which nothing was
\* missed, or with its first call.
LEMMA FirstTo ==
  ASSUME TypeOK, NEW j \in Jobs, work[j] = "created" => j \in Injections
  PROVE  /\ MayFollow(j, First(j))
         /\ j \in Seekers => Searched(j, First(j), NoFile)
<1>1. CASE StartsRun(j)
  <2>1. j \in Seekers /\ First(j) = Seek(j, "path", 1)
    BY <1>1, JobKinds DEF StartsRun, First
  <2>2. SoFar(j, "path", 1)
    BY DEF SoFar, SoFarOf
  <2> QED
    BY <2>1, <2>2, SeekContext
<1>2. CASE ~StartsRun(j)
  <2>1. j \in Callers /\ First(j) = <<"github", "call", 1>>
    BY <1>2, JobKinds DEF StartsRun, First
  <2> QED
    BY <2>1, JobKinds DEF MayFollow, At, Searched, SoFar, SoFarOf, IsSought
<1> QED
  BY <1>1, <1>2

\* What follows is described by values of the three variables that say where a
\* job is, and the job keeps its connection.
LEMMA FollowTypes ==
  ASSUME TypeOK, NEW j \in Jobs, NEW to, MayFollow(j, to)
  PROVE  to[1] \in Keeping /\ to[2] \in Kinds /\ to[3] \in Nat
<1>1. nth[j] \in Nat
  BY DEF TypeOK
<1>2. CASE to[1] = "github" /\ At(j, to[2], to[3])
  BY <1>2 DEF At, Kinds, Keeping
<1>3. CASE j \in Seekers /\ to = Sought(j)
  BY <1>3, SoughtTo DEF Keeping
<1> QED
  BY <1>1, <1>2, <1>3 DEF MayFollow, Kinds, Keeping

-----------------------------------------------------------------------------
\* A step moves one job at most.

\* Nothing of a job changes.
Same(k) ==
    /\ k \in Seekers => body'[k] = body[k]
    /\ work'[k] = work[k] /\ place'[k] = place[k] /\ nth'[k] = nth[k]
    /\ context'[k] = context[k] /\ troubled'[k] = troubled[k] /\ stored'[k] = stored[k]
    /\ thread'[k] = thread[k]
    /\ k \in held' <=> k \in held
    /\ loop' = k <=> loop = k

LEMMA SameKept ==
  ASSUME NEW k \in Jobs, JobInv(k), Same(k)
  PROVE  JobInv(k)'
<1>1. Placed(k)'
  BY DEF JobInv, Same, Placed, At
<1>2. Connected(k)' /\ Saved(k)'
  BY DEF JobInv, Same, Connected, Saved
<1>3. Informed(k)'
  BY DEF JobInv, Same, Informed, IsSought, SoFar
<1> QED
  BY <1>1, <1>2, <1>3 DEF JobInv

LEMMA OneMoves ==
  ASSUME JobsInv, TypeOK', NEW j \in Jobs, JobInv(j)', \A k \in Jobs : k # j => Same(k)
  PROVE  JobsInv'
<1>1. ASSUME NEW k \in Jobs PROVE JobInv(k)'
  <2>1. CASE k = j
    BY <2>1
  <2>2. CASE k # j
    BY <2>2, SameKept DEF JobsInv
  <2> QED
    BY <2>1, <2>2
<1> QED
  BY <1>1 DEF JobsInv

LEMMA NoneMoves ==
  ASSUME JobsInv, TypeOK', \A k \in Jobs : Same(k)
  PROVE  JobsInv'
BY SameKept DEF JobsInv

LEMMA GotoTypes ==
  ASSUME TypeOK, NEW j \in Jobs, NEW to, to[1] \in Works, to[2] \in Kinds, to[3] \in Nat, Goto(j, to)
  PROVE  /\ work' \in [Jobs -> Works] /\ place' \in [Jobs -> Kinds] /\ nth' \in [Jobs -> Nat]
         /\ work'[j] = to[1] /\ place'[j] = to[2] /\ nth'[j] = to[3]
         /\ \A k \in Jobs : k # j => work'[k] = work[k] /\ place'[k] = place[k] /\ nth'[k] = nth[k]
BY DEF TypeOK, Goto, Works, Kinds

\* A job that goes on to what may follow, with its connection and no thread.
LEMMA Follows ==
  ASSUME TypeOK, NEW j \in Jobs, NEW to, MayFollow(j, to),
         work'[j] = to[1], place'[j] = to[2], nth'[j] = to[3],
         body' = body, stored' = stored, loop' # j, j \in held', thread'[j] = "none", ~stored[j],
         j \in Savers => ~troubled'[j],
         j \in Seekers /\ ~troubled'[j] => Searched(j, to, context'[j])
  PROVE  JobInv(j)'
<1>1. to[1] \in Keeping
  BY FollowTypes
<1>2. Placed(j)'
  <2>1. to[1] = "github" => At(j, to[2], to[3])
    BY SoughtTo DEF MayFollow
  <2>2. to[1] \in {"queued", "gemini"} => j \in Runs
    BY SoughtTo DEF MayFollow
  <2>3. to[1] \in {"save", "created"} => j \in Injections
    BY SoughtTo DEF MayFollow
  <2> QED
    BY <1>1, <2>1, <2>2, <2>3 DEF Placed, At, Keeping
<1>3. Connected(j)' /\ Saved(j)'
  BY <1>1 DEF Connected, Saved
<1>4. Informed(j)'
  <2>1. to[1] \notin {"idle", "opening", "created"}
    BY <1>1 DEF Keeping
  <2> QED
    BY <2>1 DEF Informed, Searched, SoFar, IsSought
<1> QED
  BY <1>2, <1>3, <1>4 DEF JobInv

-----------------------------------------------------------------------------
\* One lemma per action, or per actions of one kind.

LEMMA OpenStep == ASSUME JobsInv, NEW j \in Jobs, Open(j) PROVE JobsInv'
<1>1. /\ loop = Nothing /\ loop' = j /\ work[j] = "idle" /\ work' = [work EXCEPT ![j] = "opening"]
      /\ UNCHANGED <<place, nth, context, troubled, held, thread, stored>>
  BY DEF Open
<1>2. body' \in [Seekers -> Bodies] /\ \A k \in Seekers : k # j => body'[k] = body[k]
  BY DEF Open, JobsInv, TypeOK
<1>3. TypeOK'
  BY <1>1, <1>2 DEF JobsInv, TypeOK
<1>4. work'[j] = "opening"
  BY <1>1 DEF JobsInv, TypeOK
<1>5. JobInv(j)
  BY DEF JobsInv
<1>6. JobInv(j)'
  <2>1. Placed(j)' /\ Connected(j)' /\ Saved(j)'
    BY <1>1, <1>4, <1>5 DEF JobInv, Placed, Connected, Saved, Keeping
  <2>2. Informed(j)'
    BY <1>1, <1>4, <1>5 DEF JobInv, Saved, Informed, IsSought
  <2> QED
    BY <2>1, <2>2 DEF JobInv
<1>7. \A k \in Jobs : k # j => Same(k)
  BY <1>1, <1>2, JobKinds DEF JobsInv, TypeOK, Same
<1> QED
  BY <1>3, <1>6, <1>7, OneMoves

\* The loop waits with a job that needs a connection.
LEMMA LoopJob ==
  ASSUME JobsInv, loop # Nothing
  PROVE  /\ loop \in Jobs /\ work[loop] \in {"opening", "created", "reopening"}
         /\ loop \notin held /\ thread[loop] = "none" /\ JobInv(loop)
BY DEF JobsInv, TypeOK, JobInv, Placed, Connected, Keeping

LEMMA LoopGetsStep == ASSUME JobsInv, LoopGets PROVE JobsInv'
<1>1. PICK j \in Jobs : /\ loop = j /\ work[j] \in {"opening", "created", "reopening"}
                        /\ thread[j] = "none" /\ JobInv(j)
  BY LoopJob DEF LoopGets
<1>2. /\ held' = held \cup {j} /\ loop' = Nothing
      /\ UNCHANGED <<body, thread, context, troubled, stored>>
  BY <1>1 DEF LoopGets
<1>3. CASE work[j] = "reopening"
  <2>1. work' = [work EXCEPT ![j] = "answering"] /\ UNCHANGED <<place, nth>>
    BY <1>1, <1>3 DEF LoopGets
  <2>2. TypeOK'
    BY <1>2, <2>1 DEF JobsInv, TypeOK, Keeping
  <2>3. work'[j] = "answering"
    BY <2>1 DEF JobsInv, TypeOK
  <2>4. Placed(j)' /\ Connected(j)' /\ Saved(j)'
    BY <1>1, <1>2, <1>3, <2>1, <2>3, JobKinds DEF JobInv, Placed, Connected, Saved, Keeping
  <2>5. Informed(j)'
    BY <1>1, <1>2, <1>3, <2>3 DEF JobInv, Informed, IsSought
  <2>6. \A k \in Jobs : k # j => Same(k)
    BY <1>1, <1>2, <2>1, JobKinds DEF JobsInv, TypeOK, Same
  <2> QED
    BY <2>2, <2>4, <2>5, <2>6, OneMoves DEF JobInv
<1>4. CASE work[j] # "reopening"
  <2>1. PICK to : to = First(j) /\ Goto(j, to)
    BY <1>1, <1>4 DEF LoopGets
  <2>2. MayFollow(j, to) /\ (j \in Seekers => Searched(j, to, NoFile))
    BY <1>1, <2>1, FirstTo DEF JobsInv, JobInv, Placed
  <2>3. to[1] \in Works /\ to[2] \in Kinds /\ to[3] \in Nat
    BY <2>2, FollowTypes DEF JobsInv, Works
  <2>4. /\ work' \in [Jobs -> Works] /\ place' \in [Jobs -> Kinds] /\ nth' \in [Jobs -> Nat]
        /\ work'[j] = to[1] /\ place'[j] = to[2] /\ nth'[j] = to[3]
        /\ \A k \in Jobs : k # j => work'[k] = work[k] /\ place'[k] = place[k] /\ nth'[k] = nth[k]
    BY <2>1, <2>3, GotoTypes DEF JobsInv
  <2>5. TypeOK'
    BY <1>2, <2>4 DEF JobsInv, TypeOK, Works, Kinds
  <2>6. ~stored[j] /\ (j \in Savers => ~troubled[j]) /\ (j \in Seekers /\ ~troubled[j] => context[j] = NoFile)
    BY <1>1, <1>4 DEF JobInv, Saved, Informed
  <2>7. JobInv(j)'
    BY <1>1, <1>2, <2>2, <2>4, <2>6, Follows, JobKinds DEF JobsInv
  <2>8. \A k \in Jobs : k # j => Same(k)
    BY <1>1, <1>2, <2>4, JobKinds DEF Same
  <2> QED
    BY <2>5, <2>7, <2>8, OneMoves
<1> QED
  BY <1>3, <1>4

LEMMA RefuseRunStep == ASSUME JobsInv, RefuseRun PROVE JobsInv'
<1>1. PICK j \in Jobs : loop = j /\ JobInv(j) /\ StartsRun(j)
  BY LoopJob DEF RefuseRun
<1>2. /\ work' = [work EXCEPT ![j] = "reopening"]
      /\ stored' = [stored EXCEPT ![j] = TRUE] /\ troubled' = [troubled EXCEPT ![j] = TRUE]
      /\ work[j] \in {"opening", "created"}
      /\ UNCHANGED <<body, place, nth, held, thread, loop, context>>
  BY <1>1 DEF RefuseRun
<1>3. TypeOK'
  BY <1>2 DEF JobsInv, TypeOK
<1>4. work'[j] = "reopening" /\ troubled'[j]
  BY <1>2 DEF JobsInv, TypeOK
<1>5. j \notin Savers
  BY <1>1, JobKinds DEF StartsRun, JobInv, Placed
<1>6. Placed(j)' /\ Connected(j)' /\ Saved(j)' /\ Informed(j)'
  BY <1>1, <1>2, <1>4, <1>5 DEF JobInv, Placed, Connected, Saved, Informed, Keeping
<1>7. \A k \in Jobs : k # j => Same(k)
  BY <1>2 DEF JobsInv, TypeOK, Same
<1> QED
  BY <1>3, <1>6, <1>7, OneMoves DEF JobInv

LEMMA AnswerAtOnceStep == ASSUME JobsInv, AnswerAtOnce PROVE JobsInv'
<1>1. PICK j \in Jobs : loop = j /\ JobInv(j) /\ work[j] = "opening" /\ thread[j] = "none"
  BY LoopJob DEF AnswerAtOnce
<1>2. /\ work' = [work EXCEPT ![j] = "answering"] /\ troubled' = [troubled EXCEPT ![j] = TRUE]
      /\ held' = held \cup {j} /\ loop' = Nothing
      /\ UNCHANGED <<body, place, nth, thread, context, stored>>
  BY <1>1 DEF AnswerAtOnce
<1>3. TypeOK'
  BY <1>2 DEF JobsInv, TypeOK, Keeping
<1>4. work'[j] = "answering" /\ troubled'[j]
  BY <1>2 DEF JobsInv, TypeOK
<1>5. Placed(j)' /\ Connected(j)' /\ Saved(j)' /\ Informed(j)'
  BY <1>1, <1>2, <1>4, JobKinds DEF JobInv, Placed, Connected, Saved, Informed, Keeping
<1>6. \A k \in Jobs : k # j => Same(k)
  BY <1>1, <1>2, JobKinds DEF JobsInv, TypeOK, Same
<1> QED
  BY <1>3, <1>5, <1>6, OneMoves DEF JobInv

LEMMA LoopTimesOutStep == ASSUME JobsInv, LoopTimesOut PROVE JobsInv'
<1>1. PICK j \in Jobs : /\ loop = j /\ JobInv(j) /\ work[j] \in {"opening", "created", "reopening"}
                        /\ thread[j] = "none" /\ j \notin held
  BY LoopJob DEF LoopTimesOut
<1>2. /\ work' = [work EXCEPT ![j] = "failed"] /\ loop' = Nothing
      /\ UNCHANGED <<body, place, nth, context, troubled, held, thread, stored>>
  BY <1>1 DEF LoopTimesOut, progress
<1>3. TypeOK'
  BY <1>2 DEF JobsInv, TypeOK, Ended
<1>4. work'[j] = "failed"
  BY <1>2 DEF JobsInv, TypeOK
<1>5. Placed(j)' /\ Connected(j)' /\ Saved(j)'
  BY <1>1, <1>2, <1>4, JobKinds DEF JobInv, Placed, Connected, Saved, Keeping
<1>6. Informed(j)'
  BY <1>1, <1>2, <1>4 DEF JobInv, Informed, IsSought
<1>7. \A k \in Jobs : k # j => Same(k)
  BY <1>1, <1>2, JobKinds DEF JobsInv, TypeOK, Same
<1> QED
  BY <1>3, <1>5, <1>6, <1>7, OneMoves DEF JobInv

\* A recording begins.
LEMMA RecordStep ==
  ASSUME JobsInv, NEW j \in Jobs, Record(j) \/ RecordGemini(j) PROVE JobsInv'
<1>1. /\ work[j] \in {"github", "gemini"} /\ thread' = [thread EXCEPT ![j] = "wanting"]
      /\ UNCHANGED <<work, body, place, nth, context, troubled, held, loop, stored>>
  BY DEF Record, RecordGemini, progress
<1>2. TypeOK'
  BY <1>1 DEF JobsInv, TypeOK
<1>3. JobInv(j)
  BY DEF JobsInv
<1>4. Placed(j)' /\ Connected(j)' /\ Saved(j)'
  BY <1>1, <1>3 DEF JobInv, Placed, At, Connected, Saved
<1>5. Informed(j)'
  BY <1>1, <1>3 DEF JobInv, Informed, SoFar, IsSought
<1>6. \A k \in Jobs : k # j => Same(k)
  BY <1>1, JobKinds DEF JobsInv, TypeOK, Same
<1> QED
  BY <1>2, <1>4, <1>5, <1>6, OneMoves DEF JobInv

LEMMA AnswerStep == ASSUME JobsInv, NEW j \in Jobs, Answer(j) PROVE JobsInv'
<1>1. /\ loop = Nothing /\ work[j] = "github" /\ thread' = [thread EXCEPT ![j] = "none"]
      /\ context' = [context EXCEPT ![j] = IF IsHit(j) THEN <<place[j], nth[j]>> ELSE context[j]]
      /\ UNCHANGED <<body, held, loop, troubled, stored>>
  BY DEF Answer, JobsInv, TypeOK
<1>2. PICK to : to = AfterAnswer(j) /\ Goto(j, to)
  BY DEF Answer
<1>3. JobInv(j) /\ At(j, place[j], nth[j])
  BY <1>1 DEF JobsInv, JobInv, Placed
<1>4. /\ MayFollow(j, to)
      /\ j \in Seekers /\ SoFar(j, place[j], nth[j]) =>
            Searched(j, to, IF IsHit(j) THEN <<place[j], nth[j]>> ELSE NoFile)
      /\ IsHit(j) => place[j] \in {"path", "file"} /\ nth[j] \in Nat
  BY <1>2, <1>3, AnswerContext DEF JobsInv
<1>5. to[1] \in Works /\ to[2] \in Kinds /\ to[3] \in Nat
  BY <1>4, FollowTypes DEF JobsInv, Works
<1>6. /\ work' \in [Jobs -> Works] /\ place' \in [Jobs -> Kinds] /\ nth' \in [Jobs -> Nat]
      /\ work'[j] = to[1] /\ place'[j] = to[2] /\ nth'[j] = to[3]
      /\ \A k \in Jobs : k # j => work'[k] = work[k] /\ place'[k] = place[k] /\ nth'[k] = nth[k]
  BY <1>2, <1>5, GotoTypes DEF JobsInv
<1>7. TypeOK'
  <2>1. context' \in [Jobs -> {"none", "path", "file"} \X Nat]
    BY <1>1, <1>4 DEF JobsInv, TypeOK
  <2>2. thread' \in [Threads -> Uses]
    BY <1>1 DEF JobsInv, TypeOK, Uses
  <2> QED
    BY <1>1, <1>6, <2>1, <2>2 DEF JobsInv, TypeOK, Works, Kinds, Uses
<1>8. /\ ~stored[j] /\ (j \in Savers => ~troubled[j]) /\ j \in held
      /\ j \in Seekers /\ ~troubled[j] => context[j] = NoFile /\ SoFar(j, place[j], nth[j])
  BY <1>1, <1>3 DEF JobInv, Saved, Connected, Informed, Keeping
<1>9. /\ context'[j] = IF IsHit(j) THEN <<place[j], nth[j]>> ELSE context[j]
      /\ thread'[j] = "none"
  BY <1>1, JobKinds DEF JobsInv, TypeOK
<1>10. j \in Seekers /\ ~troubled'[j] => Searched(j, to, context'[j])
  BY <1>1, <1>4, <1>8, <1>9
<1>11. JobInv(j)'
  BY <1>1, <1>4, <1>6, <1>8, <1>9, <1>10, Follows, JobKinds DEF JobsInv
<1>12. \A k \in Jobs : k # j => Same(k)
  BY <1>1, <1>6, JobKinds DEF JobsInv, TypeOK, Same
<1> QED
  BY <1>7, <1>11, <1>12, OneMoves

LEMMA SearchRefusedStep == ASSUME JobsInv, NEW j \in Jobs, SearchRefused(j) PROVE JobsInv'
<1>1. /\ loop = Nothing /\ work[j] = "github" /\ place[j] = "search"
      /\ thread' = [thread EXCEPT ![j] = "none"] /\ troubled' = [troubled EXCEPT ![j] = TRUE]
      /\ UNCHANGED <<body, held, loop, context, stored>>
  BY DEF SearchRefused
<1>2. PICK to : to = Seek(j, "search", nth[j] + 1) /\ Goto(j, to)
  BY DEF SearchRefused
<1>3. JobInv(j) /\ j \in Seekers /\ nth[j] \in Nat
  BY <1>1 DEF JobsInv, TypeOK, JobInv, Placed, At
<1>4. MayFollow(j, to)
  BY <1>2, <1>3, SeekContext DEF JobsInv
<1>5. to[1] \in Works /\ to[2] \in Kinds /\ to[3] \in Nat
  BY <1>4, FollowTypes DEF JobsInv, Works
<1>6. /\ work' \in [Jobs -> Works] /\ place' \in [Jobs -> Kinds] /\ nth' \in [Jobs -> Nat]
      /\ work'[j] = to[1] /\ place'[j] = to[2] /\ nth'[j] = to[3]
      /\ \A k \in Jobs : k # j => work'[k] = work[k] /\ place'[k] = place[k] /\ nth'[k] = nth[k]
  BY <1>2, <1>5, GotoTypes DEF JobsInv
<1>7. TypeOK'
  BY <1>1, <1>6 DEF JobsInv, TypeOK, Works, Kinds
<1>8. /\ ~stored[j] /\ j \notin Savers /\ j \in held /\ thread'[j] = "none" /\ troubled'[j]
  BY <1>1, <1>3, JobKinds DEF JobsInv, TypeOK, JobInv, Saved, Connected, Keeping
<1>9. JobInv(j)'
  BY <1>1, <1>4, <1>6, <1>8, Follows, JobKinds DEF JobsInv
<1>10. \A k \in Jobs : k # j => Same(k)
  BY <1>1, <1>6, JobKinds DEF JobsInv, TypeOK, Same
<1> QED
  BY <1>7, <1>9, <1>10, OneMoves

LEMMA GithubFailsStep == ASSUME JobsInv, NEW j \in Jobs, GithubFails(j) PROVE JobsInv'
<1>1. /\ loop = Nothing /\ work[j] = "github"
      /\ thread' = [thread EXCEPT ![j] = "none"] /\ troubled' = [troubled EXCEPT ![j] = TRUE]
      /\ UNCHANGED <<body, held, loop, context, stored>>
  BY DEF GithubFails, CallRaises
<1>2. PICK to : /\ Goto(j, to)
                /\ \/ to = <<"queued", "gemini", 1>> /\ j \in Runs
                   \/ to = <<"store", "call", nth[j]>> /\ j \in Polls
                   \/ to = <<"answering", "call", nth[j]>>
  BY DEF GithubFails
<1>3. to[1] \in Works /\ to[2] \in Kinds /\ to[3] \in Nat
  BY <1>2 DEF JobsInv, TypeOK, Works, Keeping, Kinds
<1>4. /\ work' \in [Jobs -> Works] /\ place' \in [Jobs -> Kinds] /\ nth' \in [Jobs -> Nat]
      /\ work'[j] = to[1] /\ place'[j] = to[2] /\ nth'[j] = to[3]
      /\ \A k \in Jobs : k # j => work'[k] = work[k] /\ place'[k] = place[k] /\ nth'[k] = nth[k]
  BY <1>2, <1>3, GotoTypes DEF JobsInv
<1>5. TypeOK'
  BY <1>1, <1>4 DEF JobsInv, TypeOK, Works, Kinds
<1>6. JobInv(j) /\ thread'[j] = "none" /\ troubled'[j]
  BY <1>1, JobKinds DEF JobsInv, TypeOK
<1>7. to[1] \in {"queued", "store", "answering"} /\ (j \in Savers => to[1] = "answering")
  BY <1>2, PoolAssumption DEF Seekers
<1>8. Placed(j)' /\ Connected(j)' /\ Saved(j)' /\ Informed(j)'
  BY <1>1, <1>2, <1>4, <1>6, <1>7, JobKinds
     DEF JobInv, Placed, Connected, Saved, Informed, Keeping
<1>9. \A k \in Jobs : k # j => Same(k)
  BY <1>1, <1>4, JobKinds DEF JobsInv, TypeOK, Same
<1> QED
  BY <1>5, <1>8, <1>9, OneMoves DEF JobInv

LEMMA SaveStep == ASSUME JobsInv, NEW j \in Jobs, Save(j) PROVE JobsInv'
<1>1. /\ loop = Nothing /\ loop' = j /\ work[j] = "save" /\ held' = held \ {j}
      /\ work' = [work EXCEPT ![j] = "created"]
      /\ UNCHANGED <<body, place, nth, context, troubled, thread, stored>>
  BY DEF Save, progress
<1>2. TypeOK'
  BY <1>1 DEF JobsInv, TypeOK
<1>3. JobInv(j) /\ work'[j] = "created"
  BY <1>1 DEF JobsInv, TypeOK
<1>4. Placed(j)' /\ Connected(j)' /\ Saved(j)'
  BY <1>1, <1>3 DEF JobInv, Placed, Connected, Saved, Keeping
<1>5. Informed(j)'
  BY <1>1, <1>3 DEF JobInv, Saved, Informed, IsSought
<1>6. \A k \in Jobs : k # j => Same(k)
  BY <1>1, JobKinds DEF JobsInv, TypeOK, Same
<1> QED
  BY <1>2, <1>4, <1>5, <1>6, OneMoves DEF JobInv

LEMMA StartPipelineStep == ASSUME JobsInv, NEW j \in Jobs, StartPipeline(j) PROVE JobsInv'
<1>1. /\ loop = Nothing /\ work[j] = "queued" /\ work' = [work EXCEPT ![j] = "gemini"]
      /\ UNCHANGED <<body, place, nth, context, troubled, held, thread, loop, stored>>
  BY DEF StartPipeline, progress
<1>2. TypeOK'
  BY <1>1 DEF JobsInv, TypeOK, Keeping
<1>3. JobInv(j) /\ work'[j] = "gemini"
  BY <1>1 DEF JobsInv, TypeOK
<1>4. Placed(j)' /\ Connected(j)' /\ Saved(j)'
  BY <1>1, <1>3 DEF JobInv, Placed, Connected, Saved, Keeping
<1>5. Informed(j)'
  BY <1>1, <1>3 DEF JobInv, Informed, IsSought
<1>6. \A k \in Jobs : k # j => Same(k)
  BY <1>1 DEF JobsInv, TypeOK, Same
<1> QED
  BY <1>2, <1>4, <1>5, <1>6, OneMoves DEF JobInv

LEMMA NextGeminiStep == ASSUME JobsInv, NEW j \in Jobs, NextGemini(j) PROVE JobsInv'
<1>1. /\ work[j] = "gemini" /\ thread' = [thread EXCEPT ![j] = "none"]
      /\ nth' = [nth EXCEPT ![j] = nth[j] + 1]
      /\ UNCHANGED <<body, work, place, held, loop, context, troubled, stored>>
  BY DEF NextGemini, JobsInv, TypeOK
<1>2. TypeOK'
  <2>1. nth[j] + 1 \in Nat /\ nth \in [Jobs -> Nat]
    BY DEF JobsInv, TypeOK
  <2>2. nth' \in [Jobs -> Nat]
    BY <1>1, <2>1
  <2>3. thread' \in [Threads -> Uses]
    BY <1>1 DEF JobsInv, TypeOK, Uses
  <2> QED
    BY <1>1, <2>2, <2>3 DEF JobsInv, TypeOK, Uses
<1>3. JobInv(j) /\ thread'[j] = "none"
  BY <1>1, JobKinds DEF JobsInv, TypeOK
<1>4. Placed(j)' /\ Connected(j)' /\ Saved(j)'
  BY <1>1, <1>3 DEF JobInv, Placed, Connected, Saved
<1>5. Informed(j)'
  BY <1>1, <1>3 DEF JobInv, Informed, IsSought
<1>6. \A k \in Jobs : k # j => Same(k)
  BY <1>1, JobKinds DEF JobsInv, TypeOK, Same
<1> QED
  BY <1>2, <1>4, <1>5, <1>6, OneMoves DEF JobInv

LEMMA EndPipelineStep == ASSUME JobsInv, NEW j \in Jobs, EndPipeline(j) PROVE JobsInv'
<1>1. /\ loop = Nothing /\ work[j] = "gemini" /\ work' = [work EXCEPT ![j] = "store"]
      /\ thread' = [thread EXCEPT ![j] = "none"]
      /\ UNCHANGED <<body, place, nth, held, loop, context, stored>>
  BY DEF EndPipeline
<1>2. /\ troubled' \in [Jobs -> BOOLEAN]
      /\ troubled[j] => troubled'[j]
      /\ \A k \in Jobs : k # j => troubled'[k] = troubled[k]
  BY Zenon DEF EndPipeline, JobsInv, TypeOK
<1>3. TypeOK'
  BY <1>1, <1>2 DEF JobsInv, TypeOK, Keeping
<1>4. JobInv(j) /\ thread'[j] = "none" /\ work'[j] = "store" /\ j \in Runs
  BY <1>1, JobKinds DEF JobsInv, TypeOK, JobInv, Placed
<1>5. Placed(j)' /\ Connected(j)' /\ Saved(j)'
  BY <1>1, <1>4, JobKinds DEF JobInv, Placed, Connected, Saved, Keeping
<1>6. Informed(j)'
  BY <1>1, <1>2, <1>4 DEF JobInv, Informed, IsSought
<1>7. \A k \in Jobs : k # j => Same(k)
  BY <1>1, <1>2, JobKinds DEF JobsInv, TypeOK, Same
<1> QED
  BY <1>3, <1>5, <1>6, <1>7, OneMoves DEF JobInv

LEMMA StoreStep == ASSUME JobsInv, NEW j \in Jobs, Store(j) PROVE JobsInv'
<1>1. /\ loop = Nothing /\ work[j] = "store" /\ held' = held \ {j}
      /\ stored' = [stored EXCEPT ![j] = TRUE]
      /\ UNCHANGED <<body, place, nth, context, troubled, thread>>
  BY DEF Store, progress
<1>2. PICK w \in {"done", "reopening"} :
          /\ work' = [work EXCEPT ![j] = w]
          /\ w = "done" => loop' = loop /\ j \in Polls \cup Refreshes
          /\ w = "reopening" => loop' = j
  BY DEF Store
<1>3. TypeOK'
  BY <1>1, <1>2 DEF JobsInv, TypeOK, Ended
<1>4. JobInv(j) /\ work'[j] = w
  BY <1>1, <1>2 DEF JobsInv, TypeOK
<1>5. thread'[j] = "none" /\ (j \in Savers => ~troubled'[j])
  BY <1>1, <1>4 DEF JobInv, Connected, Saved
<1>6. Placed(j)' /\ Connected(j)' /\ Saved(j)'
  BY <1>1, <1>2, <1>4, <1>5, JobKinds DEF Placed, Connected, Saved, Keeping
<1>7. Informed(j)'
  BY <1>1, <1>2, <1>4 DEF JobInv, Informed, IsSought
<1>8. \A k \in Jobs : k # j => Same(k)
  BY <1>1, <1>2, JobKinds DEF JobsInv, TypeOK, Same
<1> QED
  BY <1>3, <1>6, <1>7, <1>8, OneMoves DEF JobInv

LEMMA CommitFailsStep == ASSUME JobsInv, NEW j \in Jobs, CommitFails(j) PROVE JobsInv'
<1>1. /\ loop = Nothing /\ work[j] \in {"save", "store"} /\ work' = [work EXCEPT ![j] = "answering"]
      /\ troubled' = [troubled EXCEPT ![j] = TRUE]
      /\ UNCHANGED <<body, place, nth, held, thread, loop, context, stored>>
  BY DEF CommitFails
<1>2. TypeOK'
  BY <1>1 DEF JobsInv, TypeOK, Keeping
<1>3. JobInv(j) /\ work'[j] = "answering" /\ troubled'[j]
  BY <1>1 DEF JobsInv, TypeOK
<1>4. Placed(j)' /\ Connected(j)' /\ Saved(j)' /\ Informed(j)'
  BY <1>1, <1>3 DEF JobInv, Placed, Connected, Saved, Informed, Keeping
<1>5. \A k \in Jobs : k # j => Same(k)
  BY <1>1 DEF JobsInv, TypeOK, Same
<1> QED
  BY <1>2, <1>4, <1>5, OneMoves DEF JobInv

LEMMA CloseStep == ASSUME JobsInv, NEW j \in Jobs, Close(j) PROVE JobsInv'
<1>1. /\ loop = Nothing /\ work[j] = "answering" /\ work' = [work EXCEPT ![j] = "done"]
      /\ held' = held \ {j}
      /\ UNCHANGED <<body, place, nth, context, troubled, thread, loop, stored>>
  BY DEF Close, progress
<1>2. TypeOK'
  BY <1>1 DEF JobsInv, TypeOK, Ended
<1>3. JobInv(j) /\ work'[j] = "done"
  BY <1>1 DEF JobsInv, TypeOK
<1>4. Placed(j)' /\ Connected(j)' /\ Saved(j)'
  BY <1>1, <1>3 DEF JobInv, Placed, Connected, Saved, Keeping
<1>5. Informed(j)'
  BY <1>1, <1>3 DEF JobInv, Informed, IsSought
<1>6. \A k \in Jobs : k # j => Same(k)
  BY <1>1, JobKinds DEF JobsInv, TypeOK, Same
<1> QED
  BY <1>2, <1>4, <1>5, <1>6, OneMoves DEF JobInv

\* Threads get and give back connections; a job is not moved by that.
LEMMA ThreadStep ==
  ASSUME JobsInv, NEW x \in Threads, Read(x) \/ ThreadNext(x) PROVE JobsInv'
<1>1. UNCHANGED <<work, body, place, nth, context, troubled, held, loop, stored>>
  BY DEF Read, ThreadNext, Take, Release, Again, Leave, Send, TimeOut, progress
<1>2. PICK u \in Uses : thread' = [thread EXCEPT ![x] = u]
  BY DEF Read, ThreadNext, Take, Release, AfterUse, Again, Leave, Send, TimeOut, Uses
<1>3. TypeOK'
  BY <1>1, <1>2 DEF JobsInv, TypeOK, Uses
<1>4. CASE x \in Jobs
  <2>1. thread[x] # "none" /\ JobInv(x)
    BY <1>4, JobKinds DEF Read, ThreadNext, Take, Release, Again, Leave, Send, TimeOut, JobsInv
  <2>2. Placed(x)' /\ Connected(x)' /\ Saved(x)'
    BY <1>1, <2>1 DEF JobInv, Placed, At, Connected, Saved
  <2>3. Informed(x)'
    BY <1>1, <2>1 DEF JobInv, Informed, SoFar, IsSought
  <2>4. \A k \in Jobs : k # x => Same(k)
    BY <1>1, <1>2, JobKinds DEF JobsInv, TypeOK, Same
  <2> QED
    BY <1>3, <1>4, <2>2, <2>3, <2>4, OneMoves DEF JobInv
<1>5. CASE x \notin Jobs
  <2>1. \A k \in Jobs : Same(k)
    BY <1>1, <1>2, <1>5, JobKinds DEF JobsInv, TypeOK, Same
  <2> QED
    BY <1>3, <2>1, NoneMoves
<1> QED
  BY <1>4, <1>5

LEMMA JobsStep == ASSUME JobsInv, [Next]_vars PROVE JobsInv'
<1>1. CASE LoopNext
  BY <1>1, LoopGetsStep, RefuseRunStep, AnswerAtOnceStep, LoopTimesOutStep DEF LoopNext
<1>2. ASSUME NEW j \in Jobs, CallNext(j) PROVE JobsInv'
  BY <1>2, RecordStep, AnswerStep, SearchRefusedStep, GithubFailsStep DEF CallNext
<1>3. ASSUME NEW j \in Jobs, PipelineNext(j) PROVE JobsInv'
  BY <1>3, RecordStep, StartPipelineStep, NextGeminiStep, EndPipelineStep DEF PipelineNext
<1>4. ASSUME NEW j \in Jobs, EndNext(j) PROVE JobsInv'
  BY <1>4, SaveStep, StoreStep, CommitFailsStep, CloseStep DEF EndNext
<1>5. CASE UNCHANGED vars
  <2>1. TypeOK' /\ \A k \in Jobs : Same(k)
    BY <1>5 DEF vars, progress, JobsInv, TypeOK, Same
  <2> QED
    BY <2>1, NoneMoves
<1> QED
  BY <1>1, <1>2, <1>3, <1>4, <1>5, OpenStep, ThreadStep DEF Next, JobNext

-----------------------------------------------------------------------------
\* Counting.

\* The sets that are counted are finite.
LEMMA Finite ==
  ASSUME TypeOK
  PROVE  /\ IsFiniteSet(held) /\ Cardinality(held) \in Nat
         /\ IsFiniteSet(Holding) /\ Cardinality(Holding) \in Nat
         /\ IsFiniteSet(Returned) /\ Cardinality(Returned) \in Nat
         /\ IsFiniteSet(Live) /\ Cardinality(Live) \in Nat
         /\ IsFiniteSet(Visits) /\ Cardinality(Visits) \in Nat
         /\ Size \in Nat /\ ServerThreads \in Nat
<1>1. IsFiniteSet(Jobs) /\ IsFiniteSet(Readers) /\ IsFiniteSet(Threads)
  BY PoolAssumption, FS_Union DEF Threads
<1>2. held \subseteq Jobs /\ Holding \subseteq Threads /\ Live \subseteq Jobs
      /\ Returned \subseteq Readers /\ Visits \subseteq Readers
  BY DEF TypeOK, Holding, Live, Returned, Visits
<1>3. IsFiniteSet(held) /\ IsFiniteSet(Holding) /\ IsFiniteSet(Live)
      /\ IsFiniteSet(Returned) /\ IsFiniteSet(Visits)
  BY <1>1, <1>2, FS_Subset
<1> QED
  BY <1>3, FS_CardinalityType, PoolAssumption

\* Giving back never exceeds the pool.
LEMMA CapacityKept ==
  ASSUME TypeOK, Capacity, held' \subseteq held, Holding' \subseteq Holding, Returned' \subseteq Returned
  PROVE  Capacity'
<1>1. /\ IsFiniteSet(held') /\ Cardinality(held') <= Cardinality(held)
      /\ IsFiniteSet(Holding') /\ Cardinality(Holding') <= Cardinality(Holding)
      /\ IsFiniteSet(Returned') /\ Cardinality(Returned') <= Cardinality(Returned)
  BY Finite, FS_Subset
<1>2. /\ Cardinality(held') \in Nat /\ Cardinality(Holding') \in Nat
      /\ Cardinality(Returned') \in Nat
  BY <1>1, FS_CardinalityType
<1> QED
  BY <1>1, <1>2, Finite DEF Capacity

\* A job takes a connection that is free.
LEMMA CapacityOfJob ==
  ASSUME TypeOK, Free > 0, NEW j, held' = held \cup {j}, UNCHANGED thread
  PROVE  Capacity'
<1>1. Cardinality(held) + Cardinality(Holding) + Cardinality(Returned) < Size
  BY Finite DEF Free
<1>2. Holding' = Holding /\ Returned' = Returned
  BY DEF Holding, Returned
<1>3. Cardinality(held') <= Cardinality(held) + 1 /\ Cardinality(held') \in Nat
  <2>1. Cardinality(held \cup {j}) = IF j \in held THEN Cardinality(held) ELSE Cardinality(held) + 1
    BY Finite, FS_AddElement
  <2> QED
    BY <2>1, Finite
<1> QED
  BY <1>1, <1>2, <1>3, Finite DEF Capacity

\* So does a thread.
LEMMA CapacityOfThread ==
  ASSUME TypeOK, NEW x \in Threads, Take(x)
  PROVE  Capacity'
<1>1. Cardinality(held) + Cardinality(Holding) + Cardinality(Returned) < Size
  BY Finite DEF Take, Free
<1>2. Holding' = Holding \cup {x} /\ Returned' = Returned /\ held' = held
  BY DEF Take, Holding, Returned, TypeOK, Threads
<1>3. Cardinality(Holding') <= Cardinality(Holding) + 1 /\ Cardinality(Holding') \in Nat
  <2>1. Cardinality(Holding \cup {x}) =
            IF x \in Holding THEN Cardinality(Holding) ELSE Cardinality(Holding) + 1
    BY Finite, FS_AddElement
  <2> QED
    BY <1>2, <2>1, Finite
<1> QED
  BY <1>1, <1>2, <1>3, Finite DEF Capacity

\* A thread that has done with its connection gives it back, or keeps it as a
\* plain route that has returned.
LEMMA CapacityReleased ==
  ASSUME TypeOK, Capacity, NEW x \in Threads, Release(x)
  PROVE  Capacity'
<1>1. x \in Holding /\ Holding' = Holding \ {x} /\ held' = held
  BY DEF Release, AfterUse, Holding, TypeOK
<1>2. Cardinality(Holding') = Cardinality(Holding) - 1 /\ Cardinality(Holding') \in Nat
  BY <1>1, Finite, FS_RemoveElement, FS_CardinalityType
<1>3. Returned' \subseteq Returned \cup {x}
  BY DEF Release, Returned, TypeOK, Threads
<1>4. IsFiniteSet(Returned \cup {x}) /\ Cardinality(Returned \cup {x}) <= Cardinality(Returned) + 1
  <2>1. Cardinality(Returned \cup {x}) =
            IF x \in Returned THEN Cardinality(Returned) ELSE Cardinality(Returned) + 1
    BY Finite, FS_AddElement
  <2> QED
    BY <2>1, Finite, FS_AddElement
<1>5. /\ IsFiniteSet(Returned') /\ Cardinality(Returned') <= Cardinality(Returned \cup {x})
      /\ Cardinality(Returned \cup {x}) \in Nat
  BY <1>3, <1>4, FS_Subset, FS_CardinalityType
<1>6. Cardinality(Returned') \in Nat
  BY <1>5, FS_CardinalityType
<1> QED
  BY <1>1, <1>2, <1>4, <1>5, <1>6, Finite DEF Capacity

\* No more connections are out than there are.
LEMMA CapacityStep ==
  ASSUME TypeOK, Capacity, [Next]_vars
  PROVE  Capacity'
<1> USE JobKinds
<1>1. CASE LoopGets \/ AnswerAtOnce
  BY <1>1, CapacityOfJob DEF LoopGets, AnswerAtOnce
<1>2. ASSUME NEW x \in Threads, Read(x) \/ ThreadNext(x) PROVE Capacity'
  <2>1. CASE Read(x) \/ Again(x) \/ Leave(x) \/ Send(x) \/ TimeOut(x)
    <3>1. held' = held /\ Holding' \subseteq Holding /\ Returned' \subseteq Returned
      BY <2>1 DEF Read, Again, Leave, Send, TimeOut, Holding, Returned, TypeOK, Threads
    <3> QED
      BY <3>1, CapacityKept
  <2> QED
    BY <1>2, <2>1, CapacityOfThread, CapacityReleased DEF ThreadNext
<1>3. ASSUME NEW j \in Jobs, Open(j) \/ JobNext(j) PROVE Capacity'
  <2>1. held' \subseteq held
    BY <1>3 DEF Open, JobNext, CallNext, PipelineNext, EndNext, Record, Answer, SearchRefused,
                GithubFails, StartPipeline, RecordGemini, NextGemini, EndPipeline, Save, Store,
                CommitFails, Close
  <2>2. \/ UNCHANGED thread
        \/ \E v \in {"none", "wanting"} : thread' = [thread EXCEPT ![j] = v]
    BY <1>3 DEF Open, JobNext, CallNext, PipelineNext, EndNext, Record, Answer, SearchRefused,
                GithubFails, CallRaises, StartPipeline, RecordGemini, NextGemini, EndPipeline, Save,
                Store, CommitFails, Close
  <2>3. Holding' \subseteq Holding /\ Returned' \subseteq Returned
    BY <2>2 DEF Holding, Returned, TypeOK
  <2> QED
    BY <2>1, <2>3, CapacityKept
<1>4. CASE RefuseRun \/ LoopTimesOut \/ UNCHANGED vars
  <2>1. held' = held /\ UNCHANGED thread
    BY <1>4 DEF RefuseRun, LoopTimesOut, vars, progress
  <2> QED
    BY <2>1, CapacityKept DEF Holding, Returned
<1> QED
  BY <1>1, <1>2, <1>3, <1>4 DEF Next, LoopNext

\* Who has a connection is under way; who waits for one is too, and has none.
LEMMA Crowd ==
  ASSUME JobsInv
  PROVE  /\ held \subseteq Live /\ Returned \subseteq Visits
         /\ loop # Nothing => loop \in Live /\ loop \notin held
         /\ \A x \in Readers : thread[x] = "wanting" => x \in Visits /\ x \notin Returned
<1>1. held \subseteq Live
  BY DEF JobsInv, TypeOK, JobInv, Connected, Live, Keeping, Ended
<1>2. loop # Nothing => loop \in Live /\ loop \notin held
  BY LoopJob DEF Live, Ended
<1> QED
  BY <1>1, <1>2 DEF Returned, Visits

\* A set with one element more than a part of it is larger than the part.
LEMMA OneMore ==
  ASSUME NEW S, IsFiniteSet(S), NEW T \in SUBSET S, NEW x \in S, x \notin T
  PROVE  Cardinality(T) + 1 <= Cardinality(S)
<1>1. IsFiniteSet(T) /\ Cardinality(T) \in Nat /\ Cardinality(S) \in Nat
  BY FS_Subset, FS_CardinalityType
<1>2. Cardinality(T \cup {x}) = Cardinality(T) + 1 /\ T \cup {x} \in SUBSET S
  BY <1>1, FS_AddElement
<1> QED
  BY <1>1, <1>2, FS_Subset

\* If the plain requests and the runs under way are no more than the server has
\* threads, a plain route that has returned finds a thread.
LEMMA ThreadLeft ==
  ASSUME JobsInv, NEW x \in Returned,
         Cardinality(Visits) + Cardinality(Live \cap Runs) <= ServerThreads
  PROVE  ThreadFree
<1> DEFINE A == {y \in Readers : thread[y] \in {"wanting", "holding", "calling"}}
           B == {j \in Runs : work[j] = "gemini"}
<1>1. InThread = A \cup B
  BY DEF InThread
<1>2. A \in SUBSET Visits /\ x \in Visits /\ x \notin A
  BY DEF Returned, Visits
<1>3. B \in SUBSET (Live \cap Runs)
  BY JobKinds DEF Live, Ended
<1>4. IsFiniteSet(Visits) /\ IsFiniteSet(Live \cap Runs) /\ Cardinality(Visits) \in Nat
      /\ Cardinality(Live \cap Runs) \in Nat
  <2>1. IsFiniteSet(Live \cap Runs)
    BY Finite, FS_Subset DEF JobsInv
  <2> QED
    BY <2>1, Finite, FS_CardinalityType DEF JobsInv
<1> HIDE DEF A, B
<1>5. Cardinality(A) + 1 <= Cardinality(Visits) /\ IsFiniteSet(A) /\ Cardinality(A) \in Nat
  BY <1>2, <1>4, OneMore, FS_Subset, FS_CardinalityType
<1>6. Cardinality(B) <= Cardinality(Live \cap Runs) /\ IsFiniteSet(B) /\ Cardinality(B) \in Nat
  BY <1>3, <1>4, FS_Subset, FS_CardinalityType
<1>7. Cardinality(A \cup B) <= Cardinality(A) + Cardinality(B) /\ Cardinality(A \cup B) \in Nat
  <2>1. /\ IsFiniteSet(A \cup B)
        /\ Cardinality(A \cup B) = Cardinality(A) + Cardinality(B) - Cardinality(A \cap B)
    BY <1>5, <1>6, FS_Union
  <2>2. Cardinality(A \cap B) \in Nat /\ Cardinality(A \cup B) \in Nat
    BY <1>5, <2>1, FS_Subset, FS_CardinalityType
  <2> QED
    BY <1>5, <1>6, <2>1, <2>2
<1> QED
  BY <1>1, <1>4, <1>5, <1>6, <1>7, Finite DEF ThreadFree, JobsInv

-----------------------------------------------------------------------------
\* The theorems.

\* The invariant holds at first, is kept by every step, and so always holds.
LEMMA PoolInvInit == Init => Inv
<1> SUFFICES ASSUME Init PROVE Inv
  OBVIOUS
<1>1. TypeOK
  <2>1. body \in [Seekers -> Bodies]
    <3>1. (CHOOSE b \in Bodies : TRUE) \in Bodies
      BY PoolAssumption
    <3> QED
      BY <3>1 DEF Init
  <2> QED
    BY <2>1, JobKinds DEF Init, TypeOK, Ended, NoFile
<1>2. ASSUME NEW j \in Jobs PROVE JobInv(j)
  <2>1. /\ work[j] = "idle" /\ held = {} /\ thread[j] = "none" /\ loop = Nothing
        /\ context[j] = NoFile /\ ~troubled[j] /\ ~stored[j]
    BY JobKinds DEF Init
  <2>2. Placed(j) /\ Connected(j) /\ Saved(j)
    BY <2>1, JobKinds DEF Placed, Connected, Saved, Keeping
  <2>3. Informed(j)
    BY <2>1 DEF Informed, IsSought
  <2> QED
    BY <2>2, <2>3 DEF JobInv
<1>3. Capacity
  <2>1. held = {} /\ Holding = {} /\ Returned = {}
    BY DEF Init, Holding, Returned, Threads
  <2> QED
    BY <2>1, FS_EmptySet, PoolAssumption DEF Capacity
<1> QED
  BY <1>1, <1>2, <1>3 DEF Inv, JobsInv

LEMMA PoolInvStep == Inv /\ [Next]_vars => Inv'
BY JobsStep, CapacityStep DEF Inv, JobsInv

LEMMA PoolInvariant == Spec => []Inv
BY PoolInvInit, PoolInvStep, PTL DEF Spec

\* Every variable keeps its type.
THEOREM PoolTypeCorrect == Spec => []TypeOK
<1>1. Inv => TypeOK
  BY DEF Inv, JobsInv
<1> QED
  BY <1>1, PoolInvariant, PTL

\* No path through a job leaks a connection or a recording, for any number of
\* jobs, plain routes and connections (session.get_db, rate_limit_service).
THEOREM NothingLeaks == Spec => []NoLeak
<1>1. Inv => NoLeak
  BY DEF Inv, JobsInv, JobInv, Connected, Capacity, NoLeak
<1> QED
  BY <1>1, PoolInvariant, PTL

\* No wait for a connection is in vain before as many jobs and plain requests as
\* there are connections are under way at once, and one more where the event
\* loop or a plain request waits; and the jobs alone are that many, unless the
\* event loop waits or the threads of the server are all taken.
THEOREM CrowdFirst == Spec => []ExhaustedMeansCrowded
<1>1. ASSUME Inv PROVE ExhaustedMeansCrowded
  <2> SUFFICES ASSUME Exhausted
               PROVE  /\ Cardinality(Live) + Cardinality(Visits) >= Size
                      /\ loop # Nothing \/ (\E x \in Readers : thread[x] = "wanting") =>
                            Cardinality(Live) + Cardinality(Visits) > Size
                      /\ /\ loop = Nothing
                         /\ Cardinality(Visits) + Cardinality(Live \cap Runs) <= ServerThreads
                         => Cardinality(Live) >= Size
    BY DEF ExhaustedMeansCrowded
  <2>0. JobsInv /\ TypeOK
    BY <1>1 DEF Inv, JobsInv
  <2>1. Cardinality(held) + Cardinality(Returned) = Size
    <3>1. Cardinality(Holding) = 0
      BY FS_EmptySet DEF Exhausted
    <3> QED
      BY <2>0, <3>1, Finite DEF Exhausted, Free
  <2>2. Cardinality(held) <= Cardinality(Live) /\ Cardinality(Returned) <= Cardinality(Visits)
    BY <2>0, Crowd, Finite, FS_Subset
  <2>3. ASSUME loop # Nothing PROVE Cardinality(held) + 1 <= Cardinality(Live)
    BY <2>0, <2>3, Crowd, Finite, OneMore
  <2>4. ASSUME NEW x \in Readers, thread[x] = "wanting"
        PROVE  Cardinality(Returned) + 1 <= Cardinality(Visits)
    BY <2>0, <2>4, Crowd, Finite, OneMore
  <2>5. ASSUME loop = Nothing, Cardinality(Visits) + Cardinality(Live \cap Runs) <= ServerThreads
        PROVE  Returned = {}
    BY <2>0, <2>5, ThreadLeft DEF Exhausted, CanReturn
  <2>6. Returned = {} => Cardinality(Live) >= Size
    BY <2>0, <2>1, <2>2, Finite, FS_EmptySet
  <2> QED
    BY <2>0, <2>1, <2>2, <2>3, <2>4, <2>5, <2>6, Finite
<1> QED
  BY <1>1, PoolInvariant, PTL

\* What is stored or answered is honest about the calls it rests on, for any
\* issue body and any order of failures (approve_remediation_run, connect_repo,
\* refresh_issues, resolve_source_context).
THEOREM HonestlyStored == Spec => []HonestOutcome
<1>1. ASSUME Inv PROVE HonestOutcome
  <2>1. ASSUME NEW j \in Savers, stored[j] PROVE ~troubled[j]
    <3>1. j \in Jobs
      BY DEF Jobs
    <3> QED
      BY <1>1, <2>1, <3>1 DEF Inv, JobsInv, JobInv, Saved
  <2>2. ASSUME NEW j \in Seekers, ~troubled[j],
               stored[j] \/ (j \in Lookups /\ work[j] \in {"answering", "done"})
        PROVE  IsFirstHit(body[j], context[j])
    BY <1>1, <2>2, JobKinds DEF Inv, JobsInv, JobInv, Informed, IsSought
  <2> QED
    BY <2>1, <2>2 DEF HonestOutcome
<1> QED
  BY <1>1, PoolInvariant, PTL

=============================================================================
