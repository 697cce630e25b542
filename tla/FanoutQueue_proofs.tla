------------------------- MODULE FanoutQueue_proofs -------------------------
(***************************************************************************)
(* Theorems about FanoutQueue for every number of videos, workers, pages   *)
(* and attempts: no page is lost, and the queue implements PagedDelivery.  *)
(* Whatever leases expire, replies are lost and workers linger, each of    *)
(* their steps is one that the fan-out's promise allows, or changes        *)
(* nothing that it speaks of.                                              *)
(***************************************************************************)
EXTENDS FanoutQueue, TLAPS

-----------------------------------------------------------------------------
(* What the queue scripts do to each member.                               *)

LEMMA JobTypes ==
  ASSUME NEW j \in Job
  PROVE  /\ j.video \in Video /\ j.page \in Page /\ j.attempt \in Attempt
         /\ j.page \in Nat /\ j.page <= LastPage /\ LastPage \in Nat
         /\ HasSuccessor(j) => Successor(j) \in Job /\ Successor(j) # j
         /\ ~Exhausted(j) => NextAttempt(j) \in Job /\ NextAttempt(j) # j
  BY FanoutAssumption DEF Job, Page, Attempt, HasSuccessor, Successor, Exhausted, NextAttempt

LEMMA RemoveOnlyEffect ==
  ASSUME TypeOK, NEW j \in Job, RemoveOnly(j)
  PROVE  /\ queue' \in [Job -> {"none", "due", "held"}]
         /\ \A k \in Job : k # j => queue'[k] = queue[k]
  BY DEF TypeOK, RemoveOnly

LEMMA AdvanceEffect ==
  ASSUME TypeOK, NEW j \in Job, HasSuccessor(j), Advance(j)
  PROVE  /\ queue' \in [Job -> {"none", "due", "held"}]
         /\ InQueue(Successor(j))'
         /\ \A k \in Job : k # j /\ InQueue(k) => InQueue(k)'
<1> DEFINE s == Successor(j)
           q == IF queue[s] = "none" THEN "due" ELSE queue[s]
<1>1. s \in Job /\ s # j
  BY JobTypes
<1>2. q \in {"due", "held"}
  BY <1>1 DEF TypeOK
<1>3. queue' = [[queue EXCEPT ![s] = q] EXCEPT ![j] = "none"]
  BY DEF Advance
<1> HIDE DEF s, q
<1>4. /\ queue' \in [Job -> {"none", "due", "held"}]
      /\ InQueue(s)'
      /\ \A k \in Job : k # j /\ InQueue(k) => InQueue(k)'
  BY <1>1, <1>2, <1>3 DEF TypeOK, InQueue
<1>5. QED
  BY <1>4 DEF s

LEMMA ReplaceEffect ==
  ASSUME TypeOK, NEW j \in Job, NEW r \in Job, r # j, Replace(j, r)
  PROVE  /\ queue' \in [Job -> {"none", "due", "held"}]
         /\ InQueue(r)'
         /\ \A k \in Job : k # j /\ InQueue(k) => InQueue(k)'
<1>1. queue' = [[queue EXCEPT ![r] = "held"] EXCEPT ![j] = "none"]
  BY DEF Replace
<1>2. QED
  BY <1>1 DEF TypeOK, InQueue

-----------------------------------------------------------------------------
(* The invariant.  NoPageLost alone is not inductive: that a worker is     *)
(* about to remove a job says nothing of whether its page was delivered.   *)

EndsForAReason ==
  \A w \in Worker :
    /\ Holds(w, "delivered") => worker[w].job.page \in served[worker[w].job.video]
    /\ Holds(w, "discard") => worker[w].job.video \in expired

ChainInvariant == TypeOK /\ EndsForAReason /\ NoPageLost

Covered(v, p) == \E j \in Job : InQueue(j) /\ j.video = v /\ j.page <= p

LEMMA ChainInit == Init => ChainInvariant
<1> SUFFICES ASSUME Init PROVE ChainInvariant
  OBVIOUS
<1>1. TypeOK
  BY FanoutAssumption DEF Init, TypeOK, WorkerState
<1>2. EndsForAReason /\ NoPageLost
  BY DEF Init, EndsForAReason, NoPageLost, Holds
<1>3. QED
  BY <1>1, <1>2 DEF ChainInvariant

\* A held job is a job.
LEMMA HeldJob ==
  ASSUME TypeOK, NEW w \in Worker, worker[w] # Idle
  PROVE  worker[w].job \in Job /\ worker[w] \in [step : {"claimed", "discard", "unread",
           "delivered", "undelivered", "preserve"}, job : Job]
  BY DEF TypeOK, WorkerState

\* Deciding on a step, and dropping the job, keep the type and touch no one else.
LEMMA DecideEffect ==
  ASSUME TypeOK, NEW w \in Worker, worker[w] # Idle,
         NEW step \in {"discard", "unread", "delivered", "undelivered", "preserve"},
         Decide(w, step)
  PROVE  /\ worker' \in [Worker -> WorkerState]
         /\ worker'[w].step = step /\ worker'[w].job = worker[w].job
         /\ \A u \in Worker : u # w => worker'[u] = worker[u]
<1>1. worker[w] \in [step : {"claimed", "discard", "unread",
           "delivered", "undelivered", "preserve"}, job : Job]
  BY HeldJob
<1>2. worker' = [worker EXCEPT ![w] = [worker[w] EXCEPT !.step = step]]
  BY DEF Decide
<1>3. [worker[w] EXCEPT !.step = step] = [step |-> step, job |-> worker[w].job]
  BY <1>1
<1>4. [step |-> step, job |-> worker[w].job] \in WorkerState
  BY <1>1 DEF WorkerState
<1>5. worker' = [worker EXCEPT ![w] = [step |-> step, job |-> worker[w].job]]
  BY <1>2, <1>3
<1>6. QED
  BY <1>4, <1>5 DEF TypeOK

LEMMA AcknowledgeEffect ==
  ASSUME TypeOK, NEW w \in Worker, worker[w] # Idle, Acknowledge(w)
  PROVE  /\ worker' \in [Worker -> WorkerState]
         /\ worker'[w] = Idle \/ worker'[w].step = "preserve"
         /\ \A u \in Worker : u # w => worker'[u] = worker[u]
<1>1. CASE Decide(w, "preserve")
  BY <1>1, DecideEffect
<1>2. CASE worker' = [worker EXCEPT ![w] = Idle]
  BY <1>2 DEF TypeOK, WorkerState
<1>3. QED
  BY <1>1, <1>2 DEF Acknowledge

\* A step may take one job out of the queue, provided that every page that the
\* job was still ahead of is settled or has another job ahead of it.
LEMMA RemovalKeepsPages ==
  ASSUME NoPageLost, NEW j \in Job,
         enqueued' \ (expired' \cup truncated') \subseteq enqueued \ (expired \cup truncated),
         \A v \in Video, p \in Page : Settled(v, p) => Settled(v, p)',
         \A k \in Job : k # j /\ InQueue(k) => InQueue(k)',
         \A p \in Page : /\ j.page <= p
                         /\ j.video \in enqueued' \ (expired' \cup truncated')
                         /\ ~Settled(j.video, p)'
                         => Covered(j.video, p)',
         TypeOK, TypeOK'
  PROVE  NoPageLost'
<1> SUFFICES ASSUME NEW v \in enqueued' \ (expired' \cup truncated'), NEW p \in Page,
                    ~Settled(v, p)'
             PROVE  Covered(v, p)'
  BY DEF NoPageLost, Covered
<1>1. v \in Video /\ v \in enqueued \ (expired \cup truncated) /\ ~Settled(v, p)
  BY DEF TypeOK
<1>2. PICK k \in Job : InQueue(k) /\ k.video = v /\ k.page <= p
  BY <1>1 DEF NoPageLost
<1>3. CASE k = j
  BY <1>2, <1>3
<1>4. CASE k # j
  BY <1>2, <1>4 DEF Covered
<1>5. QED
  BY <1>3, <1>4

\* A step that takes nothing out of the queue loses no page.
LEMMA QuietKeepsPages ==
  ASSUME NoPageLost, TypeOK, TypeOK',
         enqueued' \ (expired' \cup truncated') \subseteq enqueued \ (expired \cup truncated),
         \A v \in Video, p \in Page : Settled(v, p) => Settled(v, p)',
         \A k \in Job : InQueue(k) => InQueue(k)'
  PROVE  NoPageLost'
<1> SUFFICES ASSUME NEW v \in enqueued' \ (expired' \cup truncated'), NEW p \in Page,
                    ~Settled(v, p)'
             PROVE  Covered(v, p)'
  BY DEF NoPageLost, Covered
<1>1. v \in Video /\ v \in enqueued \ (expired \cup truncated) /\ ~Settled(v, p)
  BY DEF TypeOK
<1>2. QED
  BY <1>1 DEF NoPageLost, Covered

LEMMA EnqueueKeeps ==
  ASSUME ChainInvariant, NEW v \in Video, Enqueue(v)
  PROVE  ChainInvariant'
<1>1. FirstJob(v) \in Job
  BY FanoutAssumption DEF FirstJob, Job, Page, Attempt
<1>2. TypeOK'
  BY <1>1 DEF ChainInvariant, TypeOK, Enqueue
<1>3. EndsForAReason'
  BY DEF ChainInvariant, EndsForAReason, Enqueue, Holds
<1>4. NoPageLost'
  <2> SUFFICES ASSUME NEW u \in enqueued' \ (expired' \cup truncated'), NEW p \in Page,
                      ~Settled(u, p)'
               PROVE  Covered(u, p)'
    BY DEF NoPageLost, Covered
  <2>1. \A k \in Job : InQueue(k) => InQueue(k)'
    BY <1>1 DEF ChainInvariant, TypeOK, Enqueue, InQueue
  <2>2. CASE u = v
    <3>1. InQueue(FirstJob(v))'
      BY <1>1 DEF ChainInvariant, TypeOK, Enqueue, InQueue
    <3>2. FirstJob(v).video = u /\ FirstJob(v).page <= p
      BY <2>2, FanoutAssumption DEF FirstJob, Page
    <3>3. QED
      BY <1>1, <3>1, <3>2 DEF Covered
  <2>3. CASE u # v
    <3>1. u \in enqueued \ (expired \cup truncated) /\ ~Settled(u, p)
      BY <2>3 DEF Enqueue, Settled
    <3>2. QED
      BY <2>1, <3>1 DEF ChainInvariant, NoPageLost, Covered
  <2>4. QED
    BY <2>2, <2>3
<1>5. QED
  BY <1>2, <1>3, <1>4 DEF ChainInvariant

LEMMA ClaimKeeps ==
  ASSUME ChainInvariant, NEW w \in Worker, NEW j \in Job, Claim(w, j)
  PROVE  ChainInvariant'
<1>1. TypeOK'
  BY DEF ChainInvariant, TypeOK, Claim, WorkerState
<1>2. /\ worker'[w].step = "claimed"
      /\ \A u \in Worker : u # w => worker'[u] = worker[u]
  BY DEF ChainInvariant, TypeOK, Claim
<1>3. EndsForAReason'
  BY <1>2 DEF ChainInvariant, EndsForAReason, Claim, Holds
<1>4. \A k \in Job : InQueue(k) => InQueue(k)'
  BY DEF ChainInvariant, TypeOK, Claim, InQueue
<1>5. NoPageLost'
  BY <1>1, <1>4, QuietKeepsPages DEF ChainInvariant, Claim, Settled
<1>6. QED
  BY <1>1, <1>3, <1>5 DEF ChainInvariant

\* Working on a page leaves the queue alone.
LEMMA ProcessKeeps ==
  ASSUME ChainInvariant, NEW w \in Worker, Process(w) \/ LoseRedis(w)
  PROVE  ChainInvariant'
<1> DEFINE j == worker[w].job
<1>1. TypeOK /\ EndsForAReason /\ NoPageLost /\ worker[w] # Idle /\ j \in Job
  BY HeldJob DEF ChainInvariant, Process, FindExpired, FailToReadPage, DeliverPage,
     FailToDeliver, LoseRedis, Holds
<1>2. j.video \in Video /\ j.page \in Page
  BY <1>1, JobTypes
<1>3. UNCHANGED <<enqueued, expired, queue, givenUp, truncated>>
  BY DEF Process, FindExpired, FailToReadPage, DeliverPage, FailToDeliver, LoseRedis
<1>4. PICK step \in {"discard", "unread", "delivered", "undelivered", "preserve"} :
        /\ Decide(w, step)
        /\ step = "delivered" => DeliverPage(w)
        /\ step = "discard" => FindExpired(w)
  BY DEF Process, FindExpired, FailToReadPage, DeliverPage, FailToDeliver, LoseRedis
<1>5. /\ worker' \in [Worker -> WorkerState]
      /\ worker'[w].step = step /\ worker'[w].job = j
      /\ \A u \in Worker : u # w => worker'[u] = worker[u]
  BY <1>1, <1>4, DecideEffect
<1>6. /\ served' \in [Video -> SUBSET Page]
      /\ \A v \in Video : served[v] \subseteq served'[v]
      /\ DeliverPage(w) => j.page \in served'[j.video]
  <2>1. CASE served' = served
    BY <1>1, <1>2, <2>1 DEF TypeOK, DeliverPage
  <2>2. CASE served' = [served EXCEPT ![j.video] = served[j.video] \cup {j.page}]
    BY <1>1, <1>2, <2>2 DEF TypeOK
  <2>3. QED
    BY <2>1, <2>2 DEF Process, FindExpired, FailToReadPage, DeliverPage, FailToDeliver,
       LoseRedis
<1>7. failures' \in [Video -> [Page -> 0..MaxAttempts]]
  <2>1. CASE failures' = failures
    BY <1>1, <2>1 DEF TypeOK
  <2>2. CASE CountFailure(j.video, j.page)
    <3> DEFINE f == failures[j.video]
               n == IF f[j.page] < MaxAttempts THEN f[j.page] + 1 ELSE f[j.page]
    <3>1. f \in [Page -> 0..MaxAttempts]
      BY <1>1, <1>2 DEF TypeOK
    <3>2. n \in 0..MaxAttempts
      BY <1>2, <3>1, FanoutAssumption
    <3>3. failures' = [failures EXCEPT ![j.video] = [f EXCEPT ![j.page] = n]]
      BY <2>2 DEF CountFailure
    <3> HIDE DEF n, f
    <3>4. [f EXCEPT ![j.page] = n] \in [Page -> 0..MaxAttempts]
      BY <3>1, <3>2
    <3>5. QED
      BY <1>1, <1>2, <3>3, <3>4 DEF TypeOK
  <2>3. QED
    BY <2>1, <2>2 DEF Process, FindExpired, FailToReadPage, DeliverPage, FailToDeliver,
       LoseRedis
<1>8. TypeOK'
  BY <1>1, <1>3, <1>5, <1>6, <1>7 DEF TypeOK
<1>9. EndsForAReason'
  <2> SUFFICES ASSUME NEW u \in Worker
               PROVE  /\ Holds(u, "delivered")' =>
                           worker'[u].job.page \in served'[worker'[u].job.video]
                      /\ Holds(u, "discard")' => worker'[u].job.video \in expired'
    BY DEF EndsForAReason
  <2>1. CASE u = w
    BY <1>3, <1>4, <1>5, <1>6, <2>1 DEF Holds, FindExpired
  <2>2. CASE u # w
    <3>1. worker'[u] = worker[u] /\ expired' = expired
      BY <1>3, <1>5, <2>2
    <3>2. ASSUME worker[u] # Idle PROVE worker[u].job.video \in Video
      BY <1>1, <3>2, HeldJob, JobTypes
    <3>3. QED
      BY <1>1, <1>6, <3>1, <3>2 DEF EndsForAReason, Holds
  <2>3. QED
    BY <2>1, <2>2
<1>10. NoPageLost'
  <2>1. \A v \in Video, p \in Page : Settled(v, p) => Settled(v, p)'
    BY <1>3, <1>6 DEF Settled
  <2>2. \A k \in Job : InQueue(k) => InQueue(k)'
    BY <1>3 DEF InQueue
  <2>3. QED
    BY <1>1, <1>3, <1>8, <2>1, <2>2, QuietKeepsPages
<1>11. QED
  BY <1>8, <1>9, <1>10 DEF ChainInvariant

\* When a worker lets go of its page, the other workers' reasons stand.
LEMMA ReasonsKept ==
  ASSUME TypeOK, EndsForAReason, NEW w \in Worker,
         worker'[w] = Idle \/ worker'[w].step = "preserve",
         \A u \in Worker : u # w => worker'[u] = worker[u],
         UNCHANGED <<expired, served>>
  PROVE  EndsForAReason'
<1> SUFFICES ASSUME NEW u \in Worker
             PROVE  /\ Holds(u, "delivered")' =>
                         worker'[u].job.page \in served'[worker'[u].job.video]
                    /\ Holds(u, "discard")' => worker'[u].job.video \in expired'
  BY DEF EndsForAReason
<1>1. CASE u = w
  BY <1>1 DEF Holds
<1>2. CASE u # w
  BY <1>2 DEF EndsForAReason, Holds
<1>3. QED
  BY <1>1, <1>2

\* The scripts that end a page take its job out of the queue for a reason.
LEMMA FinishKeeps ==
  ASSUME ChainInvariant, NEW w \in Worker, Finish(w)
  PROVE  ChainInvariant'
<1>0. TypeOK /\ EndsForAReason /\ NoPageLost /\ worker[w] # Idle /\ worker[w].job \in Job
  BY HeldJob DEF ChainInvariant, Finish, Discard, Complete, Retry, GiveUp, Holds
<1> PICK j \in Job : j = worker[w].job
  BY <1>0
<1>1. /\ TypeOK /\ EndsForAReason /\ NoPageLost /\ worker[w] # Idle
      /\ j \in Job /\ j = worker[w].job
  BY <1>0
<1>2. /\ j.video \in Video /\ j.page \in Page /\ j.page \in Nat /\ j.page <= LastPage
      /\ LastPage \in Nat
      /\ \A p \in Page : p \in Nat /\ p <= LastPage
  BY <1>1, JobTypes DEF Page
<1>3. /\ worker' \in [Worker -> WorkerState]
      /\ worker'[w] = Idle \/ worker'[w].step = "preserve"
      /\ \A u \in Worker : u # w => worker'[u] = worker[u]
  BY <1>1, AcknowledgeEffect DEF Finish, Discard, Complete, Retry, GiveUp
<1>4. UNCHANGED <<enqueued, expired, served, failures>>
  BY DEF Finish, Discard, Complete, Retry, GiveUp
<1>5. EndsForAReason'
  BY <1>1, <1>3, <1>4, ReasonsKept
<1>6. /\ givenUp' \in [Video -> SUBSET Page]
      /\ \A v \in Video : givenUp[v] \subseteq givenUp'[v]
      /\ truncated' \in SUBSET Video /\ truncated \subseteq truncated'
  <2>1. CASE GiveUp(w)
    BY <1>1, <1>2, <2>1 DEF TypeOK, GiveUp
  <2>2. CASE ~GiveUp(w)
    <3>1. givenUp' = givenUp /\ truncated' = truncated
      BY <2>2 DEF Finish, Discard, Complete, Retry
    <3>2. QED
      BY <1>1, <3>1 DEF TypeOK
  <2>3. QED
    BY <2>1, <2>2
<1>7. \A v \in Video, p \in Page : Settled(v, p) => Settled(v, p)'
  BY <1>4, <1>6 DEF Settled
<1>8. enqueued' \ (expired' \cup truncated') \subseteq enqueued \ (expired \cup truncated)
  BY <1>4, <1>6
<1>9. ASSUME /\ queue' \in [Job -> {"none", "due", "held"}]
             /\ \A k \in Job : k # j /\ InQueue(k) => InQueue(k)'
             /\ \A p \in Page : /\ j.page <= p
                                /\ j.video \in enqueued' \ (expired' \cup truncated')
                                /\ ~Settled(j.video, p)'
                                => Covered(j.video, p)'
      PROVE  ChainInvariant'
  <2>1. TypeOK'
    BY <1>1, <1>3, <1>4, <1>6, <1>9 DEF TypeOK
  <2>2. NoPageLost'
    BY <1>1, <1>7, <1>8, <1>9, <2>1, RemovalKeepsPages
  <2>3. QED
    BY <1>5, <2>1, <2>2 DEF ChainInvariant
<1>10. CASE Discard(w)
  <2>1. RemoveOnly(j) /\ j.video \in expired'
    BY <1>1, <1>4, <1>10 DEF Discard, EndsForAReason
  <2>2. QED
    BY <1>1, <1>9, <2>1, RemoveOnlyEffect DEF InQueue
<1>11. CASE Complete(w)
  <2>1. j.page \in served[j.video]
    BY <1>1, <1>11 DEF Complete, EndsForAReason
  <2>2. Settled(j.video, j.page)'
    BY <1>4, <2>1 DEF Settled
  <2>3. CASE HasSuccessor(j)
    <3>1. Advance(j)
      BY <1>1, <1>11, <2>3 DEF Complete
    <3>2. /\ Successor(j) \in Job /\ InQueue(Successor(j))'
          /\ queue' \in [Job -> {"none", "due", "held"}]
          /\ \A k \in Job : k # j /\ InQueue(k) => InQueue(k)'
      BY <1>1, <2>3, <3>1, AdvanceEffect, JobTypes
    <3>3. Successor(j).video = j.video /\ Successor(j).page = j.page + 1
      BY DEF Successor
    <3>4. \A p \in Page : j.page <= p /\ ~Settled(j.video, p)' => Covered(j.video, p)'
      BY <1>2, <2>2, <3>2, <3>3 DEF Covered
    <3>5. QED
      BY <1>9, <3>2, <3>4
  <2>4. CASE ~HasSuccessor(j)
    <3>1. RemoveOnly(j)
      BY <1>1, <1>11, <2>4 DEF Complete
    <3>2. \A p \in Page : j.page <= p => p = j.page
      BY <1>2, <2>4 DEF HasSuccessor
    <3>3. QED
      BY <1>1, <1>9, <2>2, <3>1, <3>2, RemoveOnlyEffect DEF InQueue
  <2>5. QED
    BY <2>3, <2>4
<1>12. CASE Retry(w)
  <2>1. ~Exhausted(j) /\ Replace(j, NextAttempt(j))
    BY <1>1, <1>12 DEF Retry
  <2>2. /\ NextAttempt(j) \in Job /\ InQueue(NextAttempt(j))'
        /\ queue' \in [Job -> {"none", "due", "held"}]
        /\ \A k \in Job : k # j /\ InQueue(k) => InQueue(k)'
    BY <1>1, <2>1, ReplaceEffect, JobTypes
  <2>3. NextAttempt(j).video = j.video /\ NextAttempt(j).page = j.page
    BY DEF NextAttempt
  <2>4. \A p \in Page : j.page <= p => Covered(j.video, p)'
    BY <2>2, <2>3 DEF Covered
  <2>5. QED
    BY <1>9, <2>2, <2>4
<1>13. CASE GiveUp(w)
  <2>1. Settled(j.video, j.page)'
    <3>1. givenUp' = [givenUp EXCEPT ![j.video] = givenUp[j.video] \cup {j.page}]
      BY <1>1, <1>13 DEF GiveUp
    <3>2. QED
      BY <1>1, <1>2, <3>1 DEF Settled, TypeOK
  <2>2. CASE Holds(w, "undelivered") /\ HasSuccessor(j)
    <3>1. Replace(j, Successor(j))
      BY <1>1, <1>13, <2>2 DEF GiveUp
    <3>2. /\ Successor(j) \in Job /\ InQueue(Successor(j))'
          /\ queue' \in [Job -> {"none", "due", "held"}]
          /\ \A k \in Job : k # j /\ InQueue(k) => InQueue(k)'
      BY <1>1, <2>2, <3>1, ReplaceEffect, JobTypes
    <3>3. Successor(j).video = j.video /\ Successor(j).page = j.page + 1
      BY DEF Successor
    <3>4. \A p \in Page : j.page <= p /\ ~Settled(j.video, p)' => Covered(j.video, p)'
      BY <1>2, <2>1, <3>2, <3>3 DEF Covered
    <3>5. QED
      BY <1>9, <3>2, <3>4
  <2>3. CASE ~(Holds(w, "undelivered") /\ HasSuccessor(j))
    <3>1. RemoveOnly(j)
      BY <1>1, <1>13, <2>3 DEF GiveUp
    <3>2. CASE HasSuccessor(j)
      <4>1. j.video \in truncated'
        BY <1>1, <1>13, <2>3, <3>2 DEF GiveUp
      <4>2. QED
        BY <1>1, <1>9, <3>1, <4>1, RemoveOnlyEffect DEF InQueue
    <3>3. CASE ~HasSuccessor(j)
      <4>1. \A p \in Page : j.page <= p => p = j.page
        BY <1>2, <3>3 DEF HasSuccessor
      <4>2. QED
        BY <1>1, <1>9, <2>1, <3>1, <4>1, RemoveOnlyEffect DEF InQueue
    <3>4. QED
      BY <3>2, <3>3
  <2>4. QED
    BY <2>2, <2>3
<1>14. QED
  BY <1>10, <1>11, <1>12, <1>13 DEF Finish

\* Giving a page back keeps its job, if it is still there.
LEMMA ReleaseKeeps ==
  ASSUME ChainInvariant, NEW w \in Worker, Preserve(w) \/ Cancel(w) \/ Crash(w)
  PROVE  ChainInvariant'
<1> DEFINE j == worker[w].job
<1>1. TypeOK /\ EndsForAReason /\ NoPageLost /\ worker[w] # Idle /\ j \in Job
  BY HeldJob DEF ChainInvariant, Preserve, Cancel, Crash, Holds
<1>2. /\ worker' = [worker EXCEPT ![w] = Idle]
      /\ UNCHANGED <<enqueued, expired, served, failures, givenUp, truncated>>
  BY DEF Preserve, Cancel, Crash
<1>3. /\ worker' \in [Worker -> WorkerState] /\ worker'[w] = Idle
      /\ \A u \in Worker : u # w => worker'[u] = worker[u]
  BY <1>1, <1>2 DEF TypeOK, WorkerState
<1>4. /\ queue' \in [Job -> {"none", "due", "held"}]
      /\ \A k \in Job : InQueue(k) => InQueue(k)'
  BY <1>1 DEF Preserve, Cancel, Crash, TypeOK, InQueue
<1>5. TypeOK'
  BY <1>1, <1>2, <1>3, <1>4 DEF TypeOK
<1>6. EndsForAReason'
  BY <1>1, <1>2, <1>3, ReasonsKept
<1>7. NoPageLost'
  BY <1>1, <1>2, <1>4, <1>5, QuietKeepsPages DEF Settled
<1>8. QED
  BY <1>5, <1>6, <1>7 DEF ChainInvariant

LEMMA TimeKeeps ==
  ASSUME ChainInvariant,
         (\E j \in Job : BecomeDue(j)) \/ (\E v \in Video : Expire(v)) \/ UNCHANGED fanoutVars
  PROVE  ChainInvariant'
<1>1. TypeOK /\ EndsForAReason /\ NoPageLost
  BY DEF ChainInvariant
<1>2. /\ UNCHANGED <<enqueued, worker, served, failures, givenUp, truncated>>
      /\ expired \subseteq expired' /\ expired' \in SUBSET Video
      /\ queue' \in [Job -> {"none", "due", "held"}]
      /\ \A k \in Job : InQueue(k) => InQueue(k)'
  BY <1>1 DEF BecomeDue, Expire, fanoutVars, TypeOK, InQueue
<1>3. TypeOK'
  BY <1>1, <1>2 DEF TypeOK
<1>4. EndsForAReason'
  BY <1>1, <1>2 DEF EndsForAReason, Holds
<1>5. NoPageLost'
  BY <1>1, <1>2, <1>3, QuietKeepsPages DEF Settled
<1>6. QED
  BY <1>3, <1>4, <1>5 DEF ChainInvariant

LEMMA ChainNext == ChainInvariant /\ [Next]_fanoutVars => ChainInvariant'
  BY EnqueueKeeps, ClaimKeeps, ProcessKeeps, FinishKeeps, ReleaseKeeps, TimeKeeps
     DEF Next, WorkerStep

\* No page of watchers is lost, however many workers outlive their leases,
\* crash, or lose the reply of a script.
THEOREM PagesAreKept == Spec => []NoPageLost
<1>1. ChainInvariant => NoPageLost
  BY DEF ChainInvariant
<1>2. QED
  BY <1>1, ChainInit, ChainNext, PTL DEF Spec

-----------------------------------------------------------------------------
(* The refinement: FanoutQueue implements PagedDelivery.  A job, in the queue or in the hands of a worker that    *)
(* may long have lost it, says how far the scan of its video came.         *)

\* Every earlier page is settled, and its own page has failed as often as the
\* job's attempt number says.
OnScan(j) ==
  /\ j.video \in enqueued
  /\ \A q \in Page : q < j.page => Settled(j.video, q)
  /\ j.attempt <= failures[j.video][j.page]

\* A worker that has delivered its page, or failed to, has left a record of it.
HoldsOnScan(w) ==
  worker[w] # Idle =>
    LET j == worker[w].job
    IN /\ OnScan(j)
       /\ worker[w].step = "delivered" => j.page \in served[j.video]
       /\ worker[w].step \in {"unread", "undelivered"} => j.attempt < failures[j.video][j.page]

ScanInvariant ==
  /\ ChainInvariant
  /\ \A j \in Job : InQueue(j) => OnScan(j)
  /\ \A w \in Worker : HoldsOnScan(w)

\* What is recorded of pages only ever grows.
RecordsGrow ==
  /\ enqueued \subseteq enqueued'
  /\ \A v \in Video, p \in Page : Settled(v, p) => Settled(v, p)'
  /\ \A v \in Video, p \in Page : p \in served[v] => p \in served'[v]
  /\ \A v \in Video, p \in Page : failures[v][p] <= failures'[v][p]

LEMMA FailureTypes ==
  ASSUME TypeOK, NEW v \in Video, NEW p \in Page
  PROVE  failures[v][p] \in Nat /\ failures[v][p] <= MaxAttempts
  BY FanoutAssumption DEF TypeOK

LEMMA OnScanKept ==
  ASSUME TypeOK, TypeOK', RecordsGrow, NEW j \in Job, OnScan(j)
  PROVE  OnScan(j)'
<1>1. /\ j.video \in Video /\ j.page \in Page /\ j.attempt \in Nat
  BY JobTypes DEF Attempt
<1>2. /\ failures[j.video][j.page] \in Nat /\ failures'[j.video][j.page] \in Nat
  BY <1>1, FanoutAssumption DEF TypeOK
<1>3. QED
  BY <1>1, <1>2 DEF OnScan, RecordsGrow

\* A step keeps the invariant if what it puts in the queue or gives a worker is on
\* the scan.
LEMMA ScanKept ==
  ASSUME ScanInvariant, ChainInvariant', RecordsGrow,
         \A j \in Job : InQueue(j)' => InQueue(j) \/ OnScan(j)',
         \A w \in Worker : worker'[w] = worker[w] \/ HoldsOnScan(w)'
  PROVE  ScanInvariant'
<1>1. TypeOK /\ TypeOK'
  BY DEF ScanInvariant, ChainInvariant
<1>2. ASSUME NEW j \in Job, InQueue(j)' PROVE OnScan(j)'
  BY <1>1, <1>2, OnScanKept DEF ScanInvariant
<1>3. ASSUME NEW w \in Worker PROVE HoldsOnScan(w)'
  <2>1. CASE HoldsOnScan(w)'
    BY <2>1
  <2>2. CASE worker'[w] = worker[w] /\ worker[w] # Idle
    <3> PICK j \in Job : j = worker[w].job
      BY <1>1, <2>2, HeldJob
    <3>2. /\ HoldsOnScan(w) /\ OnScan(j)
          /\ worker[w].step = "delivered" => j.page \in served[j.video]
          /\ worker[w].step \in {"unread", "undelivered"} =>
               j.attempt < failures[j.video][j.page]
      BY <2>2 DEF ScanInvariant, HoldsOnScan
    <3>3. OnScan(j)'
      BY <1>1, <3>2, OnScanKept
    <3>4. /\ j.video \in Video /\ j.page \in Page /\ j.attempt \in Nat
      BY JobTypes DEF Attempt
    <3>5. /\ failures[j.video][j.page] \in Nat /\ failures'[j.video][j.page] \in Nat
          /\ failures[j.video][j.page] <= failures'[j.video][j.page]
      BY <1>1, <3>4, FanoutAssumption DEF TypeOK, RecordsGrow
    <3>6. worker'[w].step \in {"unread", "undelivered"} =>
            j.attempt < failures'[j.video][j.page]
      BY <2>2, <3>2, <3>4, <3>5
    <3>7. worker'[w].step = "delivered" => j.page \in served'[j.video]
      BY <2>2, <3>2, <3>4 DEF RecordsGrow
    <3>8. worker'[w].job = j
      BY <2>2
    <3>9. QED
      BY <3>3, <3>6, <3>7, <3>8 DEF HoldsOnScan
  <2>3. CASE worker'[w] = worker[w] /\ worker[w] = Idle
    BY <2>3 DEF HoldsOnScan, Idle
  <2>4. QED
    BY <2>1, <2>2, <2>3
<1>4. QED
  BY <1>2, <1>3 DEF ScanInvariant

LEMMA SameRecords ==
  ASSUME TypeOK, enqueued \subseteq enqueued', UNCHANGED <<served, failures, givenUp>>
  PROVE  RecordsGrow
<1>1. \A v \in Video, p \in Page : failures[v][p] <= failures'[v][p]
  BY FailureTypes
<1>2. QED
  BY <1>1 DEF RecordsGrow, Settled

LEMMA ScanInit == Init => ScanInvariant
<1> SUFFICES ASSUME Init PROVE ScanInvariant
  OBVIOUS
<1>1. ChainInvariant
  BY ChainInit
<1>2. QED
  BY <1>1 DEF Init, ScanInvariant, InQueue, HoldsOnScan

-----------------------------------------------------------------------------
(* Each action keeps the invariant and is a step of PagedDelivery, or of   *)
(* nothing that PagedDelivery speaks of.                                   *)

Implements == [Paged!PagedNext]_<<enqueued, expired, served, failures, givenUp>>

LEMMA EnqueueScans ==
  ASSUME ScanInvariant, NEW v \in Video, Enqueue(v)
  PROVE  ScanInvariant' /\ Implements
<1>1. TypeOK /\ ChainInvariant'
  BY EnqueueKeeps DEF ScanInvariant, ChainInvariant
<1>2. TypeOK' /\ RecordsGrow
  BY <1>1, SameRecords DEF Enqueue, ChainInvariant
<1>3. FirstJob(v) \in Job /\ v \in enqueued'
  BY FanoutAssumption DEF FirstJob, Job, Page, Attempt, Enqueue
<1>4. OnScan(FirstJob(v))'
  <2>1. failures'[v][0] \in Nat
    BY <1>2, FailureTypes, FanoutAssumption DEF TypeOK, Page
  <2>2. \A q \in Page : ~(q < 0)
    BY DEF Page
  <2>3. QED
    BY <1>3, <2>1, <2>2 DEF OnScan, FirstJob
<1>5. \A j \in Job : InQueue(j)' => InQueue(j) \/ OnScan(j)'
  BY <1>1, <1>3, <1>4 DEF Enqueue, InQueue, TypeOK
<1>6. ScanInvariant'
  BY <1>1, <1>2, <1>5, ScanKept DEF Enqueue
<1>7. Paged!Announce(v)
  BY DEF Enqueue, Paged!Announce
<1>8. QED
  BY <1>6, <1>7 DEF Implements, Paged!PagedNext

LEMMA ClaimScans ==
  ASSUME ScanInvariant, NEW w \in Worker, NEW j \in Job, Claim(w, j)
  PROVE  ScanInvariant' /\ Implements
<1>1. TypeOK /\ ChainInvariant'
  BY ClaimKeeps DEF ScanInvariant, ChainInvariant
<1>2. TypeOK' /\ RecordsGrow
  BY <1>1, SameRecords DEF Claim, ChainInvariant
<1>3. OnScan(j)'
  BY <1>1, <1>2, OnScanKept DEF ScanInvariant, Claim, InQueue
<1>4. \A k \in Job : InQueue(k)' => InQueue(k)
  BY <1>1 DEF Claim, InQueue, TypeOK
<1>5. worker'[w] = [step |-> "claimed", job |-> j]
  BY <1>1 DEF Claim, TypeOK
<1>6. HoldsOnScan(w)'
  BY <1>3, <1>5 DEF HoldsOnScan
<1>7. \A u \in Worker : worker'[u] = worker[u] \/ HoldsOnScan(u)'
  BY <1>1, <1>6 DEF Claim, TypeOK
<1>8. QED
  BY <1>1, <1>2, <1>4, <1>7, ScanKept DEF Implements, Claim

\* A failed attempt is counted, unless all are used up.
LEMMA FailureCounted ==
  ASSUME TypeOK, NEW v \in Video, NEW p \in Page, CountFailure(v, p)
  PROVE  /\ \A u \in Video, q \in Page : failures[u][q] <= failures'[u][q]
         /\ \/ failures[v][p] = MaxAttempts /\ failures' = failures
            \/ /\ failures[v][p] < MaxAttempts
               /\ failures' = [failures EXCEPT ![v][p] = @ + 1]
               /\ failures'[v][p] = failures[v][p] + 1
<1> DEFINE f == failures[v]
           n == IF f[p] < MaxAttempts THEN f[p] + 1 ELSE f[p]
<1>1. f \in [Page -> 0..MaxAttempts] /\ MaxAttempts \in Nat
  BY FanoutAssumption DEF TypeOK
<1>2. \A u \in Video, q \in Page : failures[u][q] \in Nat /\ failures[u][q] <= MaxAttempts
  BY FailureTypes
<1>3. CASE f[p] = MaxAttempts
  <2>1. failures' = [failures EXCEPT ![v] = [f EXCEPT ![p] = n]] /\ n = f[p]
    BY <1>1, <1>3 DEF CountFailure
  <2>2. [f EXCEPT ![p] = n] = f
    BY <1>1, <2>1
  <2>3. failures' = failures
    BY <2>1, <2>2 DEF TypeOK
  <2>4. QED
    BY <1>2, <1>3, <2>3
<1>4. CASE f[p] < MaxAttempts
  <2>0. n = f[p] + 1
    BY <1>4
  <2>1. failures' = [failures EXCEPT ![v] = [f EXCEPT ![p] = f[p] + 1]]
    BY <1>1, <2>0 DEF CountFailure
  <2>2. failures' = [failures EXCEPT ![v][p] = @ + 1]
    BY <2>1
  <2>3. failures'[v] = [f EXCEPT ![p] = f[p] + 1]
    BY <2>1 DEF TypeOK
  <2>4. failures'[v][p] = f[p] + 1
    BY <1>1, <2>3
  <2>5. ASSUME NEW u \in Video, NEW q \in Page PROVE failures[u][q] <= failures'[u][q]
    <3>1. CASE u = v /\ q = p
      BY <1>2, <2>4, <3>1
    <3>2. CASE u = v /\ q # p
      BY <1>1, <1>2, <2>3, <3>2
    <3>3. CASE u # v
      BY <1>2, <2>1, <3>3 DEF TypeOK
    <3>4. QED
      BY <3>1, <3>2, <3>3
  <2>6. QED
    BY <1>4, <2>2, <2>4, <2>5
<1>5. QED
  BY <1>1, <1>2, <1>3, <1>4

\* The worker of a page decides how it goes on.
LEMMA DecidedOnScan ==
  ASSUME ScanInvariant, ChainInvariant', RecordsGrow, NEW w \in Worker, worker[w] # Idle,
         NEW step \in {"discard", "unread", "delivered", "undelivered", "preserve"},
         Decide(w, step),
         \A k \in Job : InQueue(k)' => InQueue(k) \/ OnScan(k)',
         LET j == worker[w].job
         IN /\ step = "delivered" => j.page \in served'[j.video]
            /\ step \in {"unread", "undelivered"} => j.attempt < failures'[j.video][j.page]
  PROVE  ScanInvariant'
<1>1. TypeOK /\ TypeOK' /\ worker[w].job \in Job
  BY HeldJob DEF ScanInvariant, ChainInvariant
<1> PICK j \in Job : j = worker[w].job
  BY <1>1
<1>2. /\ worker'[w].step = step /\ worker'[w].job = j
      /\ \A u \in Worker : u # w => worker'[u] = worker[u]
  BY <1>1, DecideEffect
<1>3. OnScan(j)
  BY DEF ScanInvariant, HoldsOnScan
<1>4. OnScan(j)'
  BY <1>1, <1>3, OnScanKept
<1>5. HoldsOnScan(w)'
  BY <1>2, <1>4 DEF HoldsOnScan
<1>6. QED
  BY <1>2, <1>5, ScanKept

LEMMA LetGoOnScan ==
  ASSUME ScanInvariant, ChainInvariant', RecordsGrow, NEW w \in Worker, worker[w] # Idle,
         \/ Acknowledge(w)
         \/ worker' = [worker EXCEPT ![w] = Idle],
         \A k \in Job : InQueue(k)' => InQueue(k) \/ OnScan(k)'
  PROVE  ScanInvariant'
<1>1. CASE Decide(w, "preserve")
  BY <1>1, DecidedOnScan
<1>2. CASE worker' = [worker EXCEPT ![w] = Idle]
  <2>1. worker'[w] = Idle /\ \A u \in Worker : u # w => worker'[u] = worker[u]
    BY <1>2 DEF ScanInvariant, ChainInvariant, TypeOK
  <2>2. HoldsOnScan(w)'
    BY <2>1 DEF HoldsOnScan
  <2>3. QED
    BY <2>1, <2>2, ScanKept
<1>3. QED
  BY <1>1, <1>2 DEF Acknowledge

\* Working on a page.  The worker's job is on the scan, so that the page is one
\* that the promise allows to be attempted now, however late the worker is.
LEMMA ProcessScans ==
  ASSUME ScanInvariant, NEW w \in Worker, Process(w) \/ LoseRedis(w)
  PROVE  ScanInvariant' /\ Implements
<1>1. /\ TypeOK /\ worker[w] # Idle /\ worker[w].job \in Job
      /\ ChainInvariant' /\ TypeOK'
  BY HeldJob, ProcessKeeps DEF ScanInvariant, ChainInvariant, Process, FindExpired,
     FailToReadPage, DeliverPage, FailToDeliver, LoseRedis, Holds
<1> PICK j \in Job : j = worker[w].job
  BY <1>1
<1>2. /\ j.video \in Video /\ j.page \in Page /\ j.attempt \in Nat
      /\ j.attempt < MaxAttempts
  BY JobTypes, FanoutAssumption DEF Attempt
<1>3. OnScan(j)
  BY <1>1 DEF ScanInvariant, HoldsOnScan
<1>4. UNCHANGED <<enqueued, expired, queue, givenUp>>
  BY DEF Process, FindExpired, FailToReadPage, DeliverPage, FailToDeliver, LoseRedis
<1>5. \A k \in Job : InQueue(k)' => InQueue(k) \/ OnScan(k)'
  BY <1>4 DEF InQueue
<1>6. CASE FindExpired(w) \/ LoseRedis(w)
  <2>1. UNCHANGED <<served, failures>> /\ RecordsGrow
    BY <1>1, <1>4, <1>6, SameRecords DEF FindExpired, LoseRedis
  <2>2. PICK step \in {"discard", "preserve"} : Decide(w, step)
    BY <1>6 DEF FindExpired, LoseRedis
  <2>3. ScanInvariant'
    BY <1>1, <1>5, <2>1, <2>2, DecidedOnScan
  <2>4. QED
    BY <1>4, <2>1, <2>3 DEF Implements
<1>7. CASE FailToReadPage(w) \/ FailToDeliver(w)
  <2>1. /\ j.video \notin expired /\ served' = served
        /\ CountFailure(j.video, j.page)
    BY <1>7 DEF FailToReadPage, FailToDeliver
  <2>2. /\ \A u \in Video, q \in Page : failures[u][q] <= failures'[u][q]
        /\ \/ failures[j.video][j.page] = MaxAttempts /\ failures' = failures
           \/ /\ failures[j.video][j.page] < MaxAttempts
              /\ failures' = [failures EXCEPT ![j.video][j.page] = @ + 1]
              /\ failures'[j.video][j.page] = failures[j.video][j.page] + 1
    BY <1>1, <1>2, <2>1, FailureCounted
  <2>3. RecordsGrow
    BY <1>4, <2>1, <2>2 DEF RecordsGrow, Settled
  <2>4. j.attempt < failures'[j.video][j.page]
    BY <1>1, <1>2, <1>3, <2>2, FailureTypes DEF OnScan
  <2>5. PICK step \in {"unread", "undelivered"} : Decide(w, step)
    BY <1>7 DEF FailToReadPage, FailToDeliver
  <2>6. ScanInvariant'
    BY <1>1, <1>5, <2>3, <2>4, <2>5, DecidedOnScan
  <2>7. CASE failures' = failures
    BY <1>4, <2>1, <2>6, <2>7 DEF Implements
  <2>8. CASE /\ failures[j.video][j.page] < MaxAttempts
             /\ failures' = [failures EXCEPT ![j.video][j.page] = @ + 1]
    <3>1. Paged!Reached(j.video, j.page)
      BY <1>3 DEF OnScan, Settled, Page, Paged!Reached, Paged!Pages
    <3>2. Paged!Fail(j.video, j.page)
      BY <1>4, <2>1, <2>8, <3>1 DEF Paged!Fail
    <3>3. QED
      BY <1>2, <2>6, <3>2 DEF Implements, Paged!PagedNext, Paged!Pages, Page
  <2>9. QED
    BY <2>2, <2>7, <2>8
<1>8. CASE DeliverPage(w)
  <2>1. /\ j.video \notin expired /\ failures' = failures
        /\ served' = [served EXCEPT ![j.video] = @ \cup {j.page}]
        /\ Decide(w, "delivered")
    BY <1>8 DEF DeliverPage
  <2>2. /\ j.page \in served'[j.video]
        /\ \A v \in Video, p \in Page : p \in served[v] => p \in served'[v]
    BY <1>1, <1>2, <2>1 DEF TypeOK
  <2>3. RecordsGrow
    BY <1>1, <1>4, <2>1, <2>2, FailureTypes DEF RecordsGrow, Settled
  <2>4. ScanInvariant'
    BY <1>1, <1>5, <2>1, <2>2, <2>3, DecidedOnScan
  <2>5. Paged!Reached(j.video, j.page)
    BY <1>3 DEF OnScan, Settled, Page, Paged!Reached, Paged!Pages
  <2>6. Paged!Deliver(j.video, j.page)
    BY <1>4, <2>1, <2>5 DEF Paged!Deliver
  <2>7. QED
    BY <1>2, <2>4, <2>6 DEF Implements, Paged!PagedNext, Paged!Pages, Page
<1>9. QED
  BY <1>6, <1>7, <1>8 DEF Process

\* The job of the next page is on the scan once this page is settled.
LEMMA SuccessorOnScan ==
  ASSUME TypeOK', NEW j \in Job, HasSuccessor(j), OnScan(j)', Settled(j.video, j.page)'
  PROVE  OnScan(Successor(j))'
<1>1. /\ Successor(j) \in Job /\ j.video \in Video
  BY JobTypes
<1>2. /\ Successor(j).page \in Page /\ Successor(j).video = j.video
      /\ Successor(j).page = j.page + 1 /\ Successor(j).attempt = 0
  BY <1>1, JobTypes DEF Successor
<1>3. failures'[j.video][j.page + 1] \in Nat
  BY <1>1, <1>2, FanoutAssumption DEF TypeOK
<1>4. \A q \in Page : q < j.page + 1 => q < j.page \/ q = j.page
  BY JobTypes DEF Page
<1>5. QED
  BY <1>2, <1>3, <1>4 DEF OnScan

\* The scripts that end a page put in the queue only what is on the scan, and a
\* page is given up when its attempts have failed, whoever made them.
LEMMA FinishScans ==
  ASSUME ScanInvariant, NEW w \in Worker, Finish(w)
  PROVE  ScanInvariant' /\ Implements
<1>1. /\ TypeOK /\ worker[w] # Idle /\ worker[w].job \in Job
      /\ ChainInvariant' /\ TypeOK'
  BY HeldJob, FinishKeeps DEF ScanInvariant, ChainInvariant, Finish, Discard, Complete,
     Retry, GiveUp, Holds
<1> PICK j \in Job : j = worker[w].job
  BY <1>1
<1>2. /\ j.video \in Video /\ j.page \in Page /\ j.attempt \in Nat
      /\ MaxAttempts \in Nat
  BY JobTypes, FanoutAssumption DEF Attempt
<1>3. /\ OnScan(j)
      /\ worker[w].step = "delivered" => j.page \in served[j.video]
      /\ worker[w].step \in {"unread", "undelivered"} => j.attempt < failures[j.video][j.page]
  BY <1>1 DEF ScanInvariant, HoldsOnScan
<1>4. Acknowledge(w) /\ UNCHANGED <<enqueued, expired, served, failures>>
  BY DEF Finish, Discard, Complete, Retry, GiveUp
<1>5. failures[j.video][j.page] \in Nat /\ failures[j.video][j.page] <= MaxAttempts
  BY <1>1, <1>2, FailureTypes
<1>6. ASSUME NEW r \in Job,
             OnScan(r)',
             \A k \in Job : InQueue(k)' => InQueue(k) \/ k = r,
             RecordsGrow
      PROVE  ScanInvariant'
  BY <1>1, <1>4, <1>6, LetGoOnScan
<1>7. ASSUME RemoveOnly(j), RecordsGrow
      PROVE  ScanInvariant'
  <2>1. \A k \in Job : InQueue(k)' => InQueue(k)
    BY <1>1, <1>7 DEF RemoveOnly, InQueue, TypeOK
  <2>2. QED
    BY <1>1, <1>4, <1>7, <2>1, LetGoOnScan
<1>8. CASE Discard(w)
  <2>1. RecordsGrow /\ RemoveOnly(j) /\ givenUp' = givenUp
    BY <1>1, <1>4, <1>8, SameRecords DEF Discard
  <2>2. QED
    BY <1>4, <1>7, <2>1 DEF Implements
<1>9. CASE Complete(w)
  <2>1. RecordsGrow /\ givenUp' = givenUp
    BY <1>1, <1>4, <1>9, SameRecords DEF Complete
  <2>2. OnScan(j)' /\ Settled(j.video, j.page)'
    BY <1>1, <1>3, <1>4, <1>9, <2>1, OnScanKept DEF Complete, Holds, Settled
  <2>3. CASE HasSuccessor(j)
    <3>1. Successor(j) \in Job /\ OnScan(Successor(j))'
      BY <1>1, <2>2, <2>3, JobTypes, SuccessorOnScan
    <3>2. \A k \in Job : InQueue(k)' => InQueue(k) \/ k = Successor(j)
      BY <1>1, <1>9, <2>3, <3>1 DEF Complete, Advance, InQueue, TypeOK
    <3>3. QED
      BY <1>4, <1>6, <2>1, <3>1, <3>2 DEF Implements
  <2>4. CASE ~HasSuccessor(j)
    BY <1>4, <1>7, <1>9, <2>1, <2>4 DEF Complete, Implements
  <2>5. QED
    BY <2>3, <2>4
<1>10. CASE Retry(w)
  <2>1. RecordsGrow /\ givenUp' = givenUp /\ Replace(j, NextAttempt(j)) /\ ~Exhausted(j)
    BY <1>1, <1>4, <1>10, SameRecords DEF Retry
  <2>2. OnScan(j)'
    BY <1>1, <1>3, <2>1, OnScanKept
  <2>3. NextAttempt(j) \in Job
    BY <2>1, JobTypes
  <2>4. /\ NextAttempt(j).video = j.video /\ NextAttempt(j).page = j.page
        /\ NextAttempt(j).attempt = j.attempt + 1
    BY DEF NextAttempt
  <2>5. j.attempt + 1 <= failures'[j.video][j.page]
    BY <1>2, <1>3, <1>4, <1>5, <1>10 DEF Retry, Holds
  <2>6. OnScan(NextAttempt(j))'
    BY <2>2, <2>4, <2>5 DEF OnScan
  <2>7. \A k \in Job : InQueue(k)' => InQueue(k) \/ k = NextAttempt(j)
    BY <1>1, <2>1, <2>3 DEF Replace, InQueue, TypeOK
  <2>8. QED
    BY <1>4, <1>6, <2>1, <2>3, <2>6, <2>7 DEF Implements
<1>11. CASE GiveUp(w)
  <2>1. givenUp' = [givenUp EXCEPT ![j.video] = @ \cup {j.page}]
    BY <1>11 DEF GiveUp
  <2>2. /\ \A v \in Video, p \in Page : Settled(v, p) => Settled(v, p)'
        /\ Settled(j.video, j.page)'
    BY <1>1, <1>2, <1>4, <2>1 DEF Settled, TypeOK
  <2>3. RecordsGrow
    BY <1>1, <1>4, <2>2, FailureTypes DEF RecordsGrow
  <2>4. failures[j.video][j.page] = MaxAttempts
    BY <1>2, <1>3, <1>5, <1>11 DEF GiveUp, Holds, Exhausted
  <2>5. Paged!Reached(j.video, j.page)
    BY <1>3 DEF OnScan, Settled, Page, Paged!Reached, Paged!Pages
  <2>6. Paged!Abandon(j.video, j.page)
    BY <1>4, <2>1, <2>4, <2>5 DEF Paged!Abandon
  <2>7. Implements
    BY <1>2, <2>6 DEF Implements, Paged!PagedNext, Paged!Pages, Page
  <2>8. OnScan(j)'
    BY <1>1, <1>3, <2>3, OnScanKept
  <2>9. CASE Holds(w, "undelivered") /\ HasSuccessor(j)
    <3>1. Successor(j) \in Job /\ OnScan(Successor(j))'
      BY <1>1, <2>2, <2>8, <2>9, JobTypes, SuccessorOnScan
    <3>2. \A k \in Job : InQueue(k)' => InQueue(k) \/ k = Successor(j)
      BY <1>1, <1>11, <2>9, <3>1 DEF GiveUp, Replace, InQueue, TypeOK
    <3>3. QED
      BY <1>6, <2>3, <2>7, <3>1, <3>2
  <2>10. CASE ~(Holds(w, "undelivered") /\ HasSuccessor(j))
    BY <1>7, <1>11, <2>3, <2>7, <2>10 DEF GiveUp
  <2>11. QED
    BY <2>9, <2>10
<1>12. QED
  BY <1>8, <1>9, <1>10, <1>11 DEF Finish

LEMMA ReleaseScans ==
  ASSUME ScanInvariant, NEW w \in Worker, Preserve(w) \/ Cancel(w) \/ Crash(w)
  PROVE  ScanInvariant' /\ Implements
<1>1. /\ TypeOK /\ worker[w] # Idle /\ worker[w].job \in Job /\ ChainInvariant'
  BY HeldJob, ReleaseKeeps DEF ScanInvariant, ChainInvariant, Preserve, Cancel, Crash, Holds
<1>2. /\ worker' = [worker EXCEPT ![w] = Idle]
      /\ UNCHANGED <<enqueued, expired, served, failures, givenUp>>
  BY DEF Preserve, Cancel, Crash
<1>3. RecordsGrow
  BY <1>1, <1>2, SameRecords
<1>4. \A k \in Job : InQueue(k)' => InQueue(k)
  BY <1>1 DEF Preserve, Cancel, Crash, InQueue, TypeOK
<1>5. QED
  BY <1>1, <1>2, <1>3, <1>4, LetGoOnScan DEF Implements

LEMMA TimeScans ==
  ASSUME ScanInvariant,
         (\E j \in Job : BecomeDue(j)) \/ (\E v \in Video : Expire(v)) \/ UNCHANGED fanoutVars
  PROVE  ScanInvariant' /\ Implements
<1>1. TypeOK /\ ChainInvariant'
  BY TimeKeeps DEF ScanInvariant, ChainInvariant
<1>2. UNCHANGED <<enqueued, worker, served, failures, givenUp>>
  BY DEF BecomeDue, Expire, fanoutVars
<1>3. RecordsGrow
  BY <1>1, <1>2, SameRecords
<1>4. \A k \in Job : InQueue(k)' => InQueue(k)
  BY <1>1 DEF BecomeDue, Expire, fanoutVars, InQueue, TypeOK
<1>5. ScanInvariant'
  BY <1>1, <1>2, <1>3, <1>4, ScanKept
<1>6. ASSUME NEW v \in Video, Expire(v) PROVE Implements
  <2>1. Paged!Lapse(v)
    BY <1>6 DEF Expire, Paged!Lapse
  <2>2. QED
    BY <2>1 DEF Implements, Paged!PagedNext
<1>7. QED
  BY <1>2, <1>5, <1>6 DEF Implements, BecomeDue, fanoutVars

-----------------------------------------------------------------------------
LEMMA ScanNext ==
  ScanInvariant /\ [Next]_fanoutVars => ScanInvariant' /\ [Paged!PagedNext]_(Paged!pagedVars)
<1>1. ASSUME ScanInvariant, [Next]_fanoutVars PROVE ScanInvariant' /\ Implements
  BY <1>1, EnqueueScans, ClaimScans, ProcessScans, FinishScans, ReleaseScans, TimeScans
     DEF Next, WorkerStep
<1>2. Implements => [Paged!PagedNext]_(Paged!pagedVars)
  BY DEF Implements, Paged!pagedVars
<1>3. QED
  BY <1>1, <1>2

LEMMA ScanStarts == Init => Paged!PagedInit
  BY DEF Init, Page, Paged!PagedInit, Paged!Pages

\* The queue delivers what PagedDelivery promises, however many workers outlive
\* their leases, crash, or lose the reply of a script.
THEOREM QueueScansInOrder == Spec => ScansInOrder
<1>1. Spec => []ScanInvariant
  BY ScanInit, ScanNext, PTL DEF Spec
<1>2. QED
  BY <1>1, ScanStarts, ScanNext, PTL DEF Spec, ScansInOrder, Paged!PagedSpec
=============================================================================
