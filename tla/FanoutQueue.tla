---------------------------- MODULE FanoutQueue ----------------------------
(***************************************************************************)
(* The durable fan-out of new videos to their watchers                     *)
(* (run_new_post_fanout in src/src/event_handler.rs over the Redis queue   *)
(* of src/src/redis_store.rs).                                             *)
(*                                                                         *)
(* A video's watchers are read page by page.  The sorted set               *)
(* new_post_fanout_jobs holds one member per page still to be delivered,   *)
(* attempt number included; its score is the time at which any worker may  *)
(* claim it.  Claiming moves the score to the end of a lease that has no   *)
(* owner: a worker that outlives its lease works on beside the next one.   *)
(* Completing a page inserts the next page's job.                          *)
(*                                                                         *)
(* Scores are milliseconds of the pods' own clocks, so nothing may depend  *)
(* on them: a member is "due" or "held", and a held one (leased, or        *)
(* delayed for a retry) may become due at any time.  Members that differ   *)
(* only in the sender name they carry are one job here.                    *)
(***************************************************************************)
EXTENDS Integers, FiniteSets

CONSTANTS
  Video,        \* videos announced to their author's watchers
  Worker,       \* fan-out workers of all replicas
  LastPage,     \* the page of watchers with which a scan ends
  MaxAttempts   \* MAX_FANOUT_ATTEMPTS

ASSUME FanoutAssumption ==
  /\ LastPage \in Nat
  /\ MaxAttempts \in Nat \ {0}

Page == 0..LastPage
Attempt == 0..(MaxAttempts - 1)
Job == [video : Video, page : Page, attempt : Attempt]

VARIABLES
  enqueued,   \* videos with the marker fanout:enqueued:{event_id}
  expired,    \* videos whose jobs are past expires_at
  queue,      \* new_post_fanout_jobs
  worker,     \* what each worker is doing
  served,     \* history: pages whose deliveries a worker completed
  failures,   \* history: failed attempts at each page, counted up to MaxAttempts
  givenUp,    \* history: pages discarded when their attempts were used up
  truncated   \* history: videos whose chain ended at an unreadable page

fanoutVars == <<enqueued, expired, queue, worker, served, failures, givenUp, truncated>>

Idle == [step |-> "idle"]

InQueue(j) == queue[j] # "none"

-----------------------------------------------------------------------------
(* handle_video_content_event: the script enqueues a video once, however   *)
(* often its event is handled.                                             *)

FirstJob(v) == [video |-> v, page |-> 0, attempt |-> 0]

Enqueue(v) ==
  /\ v \notin enqueued
  /\ enqueued' = enqueued \cup {v}
  /\ queue' = [queue EXCEPT ![FirstJob(v)] = "due"]
  /\ UNCHANGED <<expired, worker, served, failures, givenUp, truncated>>

-----------------------------------------------------------------------------
(* claim_fanout_job *)

Claim(w, j) ==
  /\ worker[w] = Idle
  /\ queue[j] = "due"
  /\ queue' = [queue EXCEPT ![j] = "held"]
  /\ worker' = [worker EXCEPT ![w] = [step |-> "claimed", job |-> j]]
  /\ UNCHANGED <<enqueued, expired, served, failures, givenUp, truncated>>

-----------------------------------------------------------------------------
(* process_fanout_job up to the script that ends it.                       *)

Holds(w, step) == worker[w] # Idle /\ worker[w].step = step

Decide(w, step) == worker' = [worker EXCEPT ![w].step = step]

CountFailure(v, p) ==
  failures' = [failures EXCEPT ![v][p] = IF @ < MaxAttempts THEN @ + 1 ELSE @]

FindExpired(w) ==
  /\ Holds(w, "claimed")
  /\ worker[w].job.video \in expired
  /\ Decide(w, "discard")
  /\ UNCHANGED <<enqueued, expired, queue, served, failures, givenUp, truncated>>

\* SSCAN fails: the successor's cursor is not known.
FailToReadPage(w) ==
  /\ Holds(w, "claimed")
  /\ worker[w].job.video \notin expired
  /\ Decide(w, "unread")
  /\ CountFailure(worker[w].job.video, worker[w].job.page)
  /\ UNCHANGED <<enqueued, expired, queue, served, givenUp, truncated>>

DeliverPage(w) ==
  /\ Holds(w, "claimed")
  /\ worker[w].job.video \notin expired
  /\ Decide(w, "delivered")
  /\ served' = [served EXCEPT ![worker[w].job.video] = @ \cup {worker[w].job.page}]
  /\ UNCHANGED <<enqueued, expired, queue, failures, givenUp, truncated>>

\* Some recipient of the page got nothing.
FailToDeliver(w) ==
  /\ Holds(w, "claimed")
  /\ worker[w].job.video \notin expired
  /\ Decide(w, "undelivered")
  /\ CountFailure(worker[w].job.video, worker[w].job.page)
  /\ UNCHANGED <<enqueued, expired, queue, served, givenUp, truncated>>

-----------------------------------------------------------------------------
(* The scripts that end a page.  Each is atomic, but its reply may be lost *)
(* (the worker then goes on to preserve the member it claimed).            *)

HasSuccessor(j) == j.page < LastPage
Successor(j) == [video |-> j.video, page |-> j.page + 1, attempt |-> 0]
\* Mutant: the last attempt is not made.
ExhaustedEarly(j) == j.attempt + 2 >= MaxAttempts

Exhausted(j) == j.attempt + 1 >= MaxAttempts
NextAttempt(j) == [video |-> j.video, page |-> j.page, attempt |-> j.attempt + 1]

\* Mutant: the job is rescored and stays.
RemoveOnlyRescored(j) == queue' = [queue EXCEPT ![j] = IF @ = "none" THEN @ ELSE "held"]

\* complete_fanout_job without a successor
RemoveOnly(j) == queue' = [queue EXCEPT ![j] = "none"]

\* complete_fanout_job with one: ZADD NX, then ZREM
Advance(j) ==
  queue' = [queue EXCEPT
              ![Successor(j)] = IF @ = "none" THEN "due" ELSE @,
              ![j] = "none"]

\* Mutant: the replacement is added only if it is there already (ZADD XX).
ReplaceIfPresent(j, r) ==
  queue' = [queue EXCEPT ![r] = IF @ = "none" THEN @ ELSE "held", ![j] = "none"]

\* retry_fanout_job: ZADD, then ZREM
Replace(j, r) == queue' = [queue EXCEPT ![r] = "held", ![j] = "none"]

\* The reply arrives, or it does not.
Acknowledge(w) ==
  \/ worker' = [worker EXCEPT ![w] = Idle]
  \/ Decide(w, "preserve")

Discard(w) ==
  /\ Holds(w, "discard")
  /\ RemoveOnly(worker[w].job)
  /\ Acknowledge(w)
  /\ UNCHANGED <<enqueued, expired, served, failures, givenUp, truncated>>

Complete(w) ==
  LET j == worker[w].job
  IN /\ Holds(w, "delivered")
     /\ IF HasSuccessor(j) THEN Advance(j) ELSE RemoveOnly(j)
     /\ Acknowledge(w)
     /\ UNCHANGED <<enqueued, expired, served, failures, givenUp, truncated>>

\* schedule_fanout_retry
Retry(w) ==
  LET j == worker[w].job
  IN /\ Holds(w, "unread") \/ Holds(w, "undelivered")
     /\ ~Exhausted(j)
     /\ Replace(j, NextAttempt(j))
     /\ Acknowledge(w)
     /\ UNCHANGED <<enqueued, expired, served, failures, givenUp, truncated>>

GiveUp(w) ==
  LET j == worker[w].job
      continues == Holds(w, "undelivered") /\ HasSuccessor(j)
  IN /\ Holds(w, "unread") \/ Holds(w, "undelivered")
     /\ Exhausted(j)
     /\ IF continues THEN Replace(j, Successor(j)) ELSE RemoveOnly(j)
     /\ givenUp' = [givenUp EXCEPT ![j.video] = @ \cup {j.page}]
     /\ truncated' = IF Holds(w, "unread") /\ HasSuccessor(j)
                     THEN truncated \cup {j.video} ELSE truncated
     /\ Acknowledge(w)
     /\ UNCHANGED <<enqueued, expired, served, failures>>

-----------------------------------------------------------------------------
(* What else can happen to a worker that holds a page.                     *)

\* The script that would end the page does not reach Redis.
LoseRedis(w) ==
  /\ \E step \in {"discard", "unread", "delivered", "undelivered"} : Holds(w, step)
  /\ Decide(w, "preserve")
  /\ UNCHANGED <<enqueued, expired, queue, served, failures, givenUp, truncated>>

\* rescore_fanout_job: ZADD XX under the member's own name
Preserve(w) ==
  /\ Holds(w, "preserve")
  /\ queue' = [queue EXCEPT ![worker[w].job] = IF @ = "none" THEN @ ELSE "held"]
  /\ worker' = [worker EXCEPT ![w] = Idle]
  /\ UNCHANGED <<enqueued, expired, served, failures, givenUp, truncated>>

\* Shutdown cancels the deliveries of the page and gives the lease back.
Cancel(w) ==
  /\ Holds(w, "claimed")
  /\ queue' = [queue EXCEPT ![worker[w].job] = IF @ = "none" THEN @ ELSE "due"]
  /\ worker' = [worker EXCEPT ![w] = Idle]
  /\ UNCHANGED <<enqueued, expired, served, failures, givenUp, truncated>>

\* The process dies; its replacement starts idle.
Crash(w) ==
  /\ worker[w] # Idle
  /\ worker' = [worker EXCEPT ![w] = Idle]
  /\ UNCHANGED <<enqueued, expired, queue, served, failures, givenUp, truncated>>

-----------------------------------------------------------------------------
(* Time *)

\* A lease or a delay runs out.
BecomeDue(j) ==
  /\ queue[j] = "held"
  /\ queue' = [queue EXCEPT ![j] = "due"]
  /\ UNCHANGED <<enqueued, expired, worker, served, failures, givenUp, truncated>>

Expire(v) ==
  /\ v \in enqueued \ expired
  /\ expired' = expired \cup {v}
  /\ UNCHANGED <<enqueued, queue, worker, served, failures, givenUp, truncated>>

-----------------------------------------------------------------------------
Init ==
  /\ enqueued = {}
  /\ expired = {}
  /\ queue = [j \in Job |-> "none"]
  /\ worker = [w \in Worker |-> Idle]
  /\ served = [v \in Video |-> {}]
  /\ failures = [v \in Video |-> [p \in Page |-> 0]]
  /\ givenUp = [v \in Video |-> {}]
  /\ truncated = {}

Process(w) ==
  \/ FindExpired(w)
  \/ FailToReadPage(w)
  \/ DeliverPage(w)
  \/ FailToDeliver(w)

Finish(w) ==
  \/ Discard(w)
  \/ Complete(w)
  \/ Retry(w)
  \/ GiveUp(w)

WorkerStep(w) ==
  \/ \E j \in Job : Claim(w, j)
  \/ Process(w)
  \/ Finish(w)
  \/ LoseRedis(w)
  \/ Preserve(w)
  \/ Cancel(w)
  \/ Crash(w)

Next ==
  \/ \E v \in Video : Enqueue(v) \/ Expire(v)
  \/ \E j \in Job : BecomeDue(j)
  \/ \E w \in Worker : WorkerStep(w)

Spec == Init /\ [][Next]_fanoutVars

WorksOn(w, j) == worker[w] # Idle /\ worker[w].job = j

\* Leases and delays run out.  The oldest due job is claimed first, so a job
\* that keeps becoming due is claimed.  Workers and Redis do not fail at every
\* attempt, so a page that is worked on again and again is at last processed,
\* and at last ended by its script.
Fairness ==
  \A j \in Job :
    /\ WF_fanoutVars(BecomeDue(j))
    /\ SF_fanoutVars(\E w \in Worker : Claim(w, j))
    /\ SF_fanoutVars(\E w \in Worker : WorksOn(w, j) /\ Process(w))
    /\ SF_fanoutVars(\E w \in Worker : WorksOn(w, j) /\ Finish(w))
    /\ WF_fanoutVars(\E w \in Worker : WorksOn(w, j) /\ Preserve(w))

-----------------------------------------------------------------------------
(* Properties *)

WorkerState ==
  {Idle} \cup [step : {"claimed", "discard", "unread", "delivered", "undelivered",
                       "preserve"}, job : Job]

TypeOK ==
  /\ enqueued \in SUBSET Video
  /\ expired \in SUBSET Video
  /\ queue \in [Job -> {"none", "due", "held"}]
  /\ worker \in [Worker -> WorkerState]
  /\ served \in [Video -> SUBSET Page]
  /\ failures \in [Video -> [Page -> 0..MaxAttempts]]
  /\ givenUp \in [Video -> SUBSET Page]
  /\ truncated \in SUBSET Video

Settled(v, p) == p \in served[v] \/ p \in givenUp[v]

\* No page is dropped silently: until its lifetime ends, a page that was neither
\* delivered nor given up is still ahead of some job in the queue, although stale
\* workers complete, retry and remove jobs that others hold by then
\* (the comment at redis_store.rs:726-735).
NoPageLost ==
  \A v \in enqueued \ (expired \cup truncated), p \in Page :
    Settled(v, p) \/ \E j \in Job : InQueue(j) /\ j.video = v /\ j.page <= p

Paged == INSTANCE PagedDelivery WITH
  announced <- enqueued, delivered <- served, attempts <- failures, abandoned <- givenUp

\* The queue delivers what PagedDelivery promises: whatever stale workers do,
\* pages are taken in the order of the scan, none is attempted while
\* an earlier one is still open, none of an expired video is delivered, and
\* what another worker leaves behind never costs a page its retries
\* (docs/developer-guide.md:472-473).
ScansInOrder == Paged!PagedSpec

\* The queue is drained of every video: no page goes round for ever, and stale
\* workers do not resurrect the chain of a video that expired
\* (redis_store.rs:731-734).  With NoPageLost, every page is settled in the end.
QueueDrains ==
  \A v \in Video :
    v \in enqueued ~> \A j \in Job : j.video = v => ~InQueue(j)
=============================================================================
