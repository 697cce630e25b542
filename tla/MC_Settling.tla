---------------------------- MODULE MC_Settling ----------------------------
(***************************************************************************)
(* What must happen in the end, whoever dies on the way, to what replicas  *)
(* leave for each other in Redis: instances of the notify lists, of the    *)
(* fan-out queue and of the digests, small enough for liveness.  They      *)
(* share no key, so each behaviour runs one of them.                       *)
(***************************************************************************)
EXTENDS NotifyLists

VARIABLES
  machine,
  enqueued, expired, queue, fanoutWorker, served, failures, givenUp, truncated,
  now, generation, bound, disposition, group, due, leases, flushWorker, joined, submitted,
  interrupts, throttle, emitted, handler, charged, refunds, emissions, setting

\* An old list, and two of one later date of which the one with the lower id is
\* retained.  That one tags its author, one creator twice and one beyond the cap.
Lists ==
  {[at |-> 1, id |-> 1, tags |-> <<"ann", "bob">>],
   [at |-> 2, id |-> 2, tags |-> <<"bob">>],
   [at |-> 2, id |-> 1, tags |-> <<"me", "ann", "ann", "cem", "bob">>]}

Fanout == INSTANCE FanoutQueue WITH
  Video <- {"video"}, Worker <- {"w1", "w2"}, LastPage <- 1, MaxAttempts <- 1,
  worker <- fanoutWorker

\* Targets play no part in digests.
Digest == INSTANCE CoalesceQueue WITH
  Event <- {"like"}, ActionOf <- [e \in {"like"} |-> "like"],
  TargetOf <- [e \in {"like"} |-> 0], Capacity <- 1, Refill <- 1,
  DailyWindow <- 1, Setting <- {[limit |-> 0, age |-> 3, cap |-> 1]}, Worker <- {"w1", "w2"},
  Window <- 2, Lease <- 3, FlushTimeout <- 1, Retry <- 1, GroupTTL <- 6, Grace <- 20,
  MaxActions <- 2, Deferral <- {2}, MaxGeneration <- 1,
  MaxInterrupts <- 1, MaxNow <- 12, worker <- flushWorker

fanoutVars == <<enqueued, expired, queue, fanoutWorker, served, failures, givenUp, truncated>>
digestVars == <<now, generation, bound, disposition, group, due, leases, flushWorker, joined,
                submitted, interrupts, throttle, emitted, handler, charged, refunds, emissions>>
vars == <<machine, notifyVars, fanoutVars, digestVars, setting>>

SettlingInit ==
  /\ machine \in {"lists", "fanout", "digest"}
  /\ ListsInit /\ Fanout!Init /\ Digest!Init
  /\ machine # "lists" => stamp = Unstamped

SettlingNext ==
  /\ UNCHANGED machine
  /\ \/ machine = "lists" /\ ListsNext /\ UNCHANGED <<fanoutVars, digestVars, setting>>
     \/ machine = "fanout" /\ Fanout!Next /\ UNCHANGED <<notifyVars, digestVars, setting>>
     \/ machine = "digest" /\ Digest!Next /\ UNCHANGED <<notifyVars, fanoutVars>>

\* The fairness of each machine while it is the one that runs; where the fan-out
\* does not, nothing is ever queued.
FairLists ==
  /\ WF_notifyVars(machine = "lists" /\ ScriptStep)
  /\ \A l \in List : /\ WF_notifyVars(machine = "lists" /\ PublishList(l))
                     /\ SF_notifyVars(machine = "lists" /\ Replace(l))

FairDigest ==
  /\ WF_digestVars(machine = "digest" /\ Digest!Tick)
  /\ \A w \in {"w1", "w2"} :
       /\ WF_digestVars(machine = "digest" /\ (Digest!Claim(w) \/ Digest!PollEmpty(w)))
       /\ WF_digestVars(machine = "digest" /\ (Digest!FlushStep(w) \/ Digest!TimeOut(w)))
       /\ WF_digestVars(machine = "digest" /\ Digest!PutBack(w))

SettlingSpec ==
  SettlingInit /\ [][SettlingNext]_vars /\ FairLists /\ Fanout!Fairness /\ FairDigest

\* Both indexes converge to the list that relays retain, whatever order and
\* however often lists arrive, wherever scripts die and entries are lost; only
\* a stamp of an earlier build with the same date keeps it out
\* (redis_store.rs:850-862).
ListsConverge ==
  \A l \in List : IsRetained(l) => <>[](machine = "lists" => Converged(l))

\* The queue is drained of every video (see FanoutQueue).
QueueDrains == Fanout!QueueDrains

\* No group is left in the outbox (see CoalesceQueue).
GroupsSettle == Digest!GroupsSettle
=============================================================================
