--------------------------- MODULE CoalesceQueue ---------------------------
(***************************************************************************)
(* The coalescing outbox of one account (src/src/coalesce.rs).             *)
(*                                                                         *)
(* With an immediate limit of zero, the shipped one, likes and reposts     *)
(* buffer in one digest per visit generation and time bucket.  With a      *)
(* positive limit they are grouped per target and bucket; that many of a   *)
(* group are pushed at once, and pushes and summaries are rationed by a    *)
(* token bucket and a rolling window.                                      *)
(*                                                                         *)
(* A group is indexed by coalesce:due from its first event on; a  *)
(* flush worker moves it to coalesce:leases under a token of its own,      *)
(* reads it, submits one summary and deletes it, or returns it to          *)
(* coalesce:due for later.  Ingest, claim and completion are one Redis     *)
(* script each; between them workers crash, time out, lose replies, or     *)
(* linger with a lease that has expired.                                   *)
(*                                                                         *)
(* Time is the Redis clock in abstract units from 1 on.  A score of 0      *)
(* stands for a member that is not in the sorted set.  Worker names serve  *)
(* as lease tokens: a worker holds one claim at a time.                    *)
(***************************************************************************)
EXTENDS Integers, FiniteSets, Sequences

CONSTANTS
  Event,         \* signed reactions to the account's posts
  ActionOf,      \* what a group counts of an event: in digests the action, else the actor
  TargetOf,      \* the target of each event
  Setting,       \* what the service may be started with: [limit, age, cap]
  Worker,        \* flush workers of all replicas
  Window,        \* coalesce_window_secs
  Lease,         \* coalesce_lease_secs
  FlushTimeout,  \* coalesce_flush_timeout_secs
  Retry,         \* coalesce_retry_secs
  GroupTTL,      \* coalesce_group_ttl_secs: logical lifetime of a group
  Grace,         \* coalesce_logical_expiry_grace_secs
  MaxActions,    \* MAX_ACTIONS_PER_CATEGORY
  Capacity,      \* recipient_throttle_capacity
  Refill,        \* recipient_throttle_refill_secs
  DailyWindow,   \* recipient_daily_window_secs
  Deferral,      \* the delays after which a deferred group is due again
  MaxGeneration, \* bound on the visit generation
  MaxInterrupts, \* bound on crashes, timeouts and errors
  MaxNow         \* bound on the clock

\* config.rs validates the relations between the lifetimes (lines 700-719).
ASSUME CoalesceAssumption ==
  /\ \A c \in {Window, Lease, FlushTimeout, Retry, GroupTTL, Grace, MaxActions} :
       c \in Nat \ {0}
  /\ GroupTTL > Window + Lease
  /\ Lease > 2 * FlushTimeout
  /\ {Capacity, Refill, DailyWindow} \subseteq Nat \ {0}
  /\ Setting \subseteq [limit : Nat, age : Nat, cap : Nat \ {0}]
  /\ \A s \in Setting : s.age <= (IF s.limit = 0 THEN GroupTTL ELSE Window) + Grace
  /\ Deferral \subseteq Nat \ {0}
  /\ {MaxGeneration, MaxInterrupts} \subseteq Nat /\ MaxNow \in Nat \ {0}

VARIABLES
  setting,      \* what the service was started with
  now,          \* the Redis clock
  generation,   \* the account's visit generation
  bound,        \* the generation each event is bound to; -1 before its first attempt
  disposition,  \* coalesce:disp: the group of each event
  group,        \* coalesce:g
  due,          \* coalesce:due
  leases,       \* coalesce:leases
  worker,       \* the flush each worker is running
  throttle,     \* throttle:{owner}: the token bucket when it was last written
  emitted,      \* emitted:{owner}: when each emission was charged
  handler,      \* the attempt to push each event at once
  joined,       \* history: the groups each event was recorded in
  submitted,    \* history: summaries submitted for each group, by content
  interrupts,   \* history: flushes of each group that did not end in completion
  charged,      \* history: when each emission was charged; 0 once it was given back
  refunds,      \* history: the charges that were given back
  emissions     \* history: emissions that were pushed, with the time of their charge

ingestion == <<bound, disposition, handler, joined>>
index == <<group, due, leases>>
ration == <<throttle, emitted, charged, refunds>>
sends == <<submitted, emissions>>
coalesceVars == <<now, generation, ingestion, index, ration, worker, sends, interrupts>>

Action == {ActionOf[e] : e \in Event}
Generation == 0..MaxGeneration
Bucket == 0..(MaxNow \div Window)
Target == {TargetOf[e] : e \in Event}
Group == (Generation \cup Target) \X Bucket
Emission == ({"push"} \X Event) \cup ({"summary"} \X Group)

ImmediateLimit == setting.limit  \* coalesce_immediate_limit
MaxEventAge == setting.age       \* max_event_age_secs; every event is created at time 0
DailyCap == setting.cap          \* recipient_daily_cap
Digest == ImmediateLimit = 0

\* Mutant: dispositions live as long as their bucket.
DispositionTTLWindow == Window + Grace

\* A digest's dispositions live as long as its group may.
DispositionTTL == (IF Digest THEN GroupTTL ELSE Window) + Grace

Unindexed == 0
Nobody == "nobody"
Idle == [step |-> "idle"]
NoDisposition == [decision |-> "none", expires |-> 0]
NoGroup == [generation |-> 0, immediate |-> 0, actions |-> {}, pending |-> 0, due |-> 0,
            expires |-> 0, lease |-> Nobody, evicted |-> 0]

Exists(grp, g) == grp[g] # NoGroup

-----------------------------------------------------------------------------
(* ingest_for_generation.  A visit since the event was bound, or an event   *)
(* recorded before, changes nothing.  An action is counted once per group,  *)
(* and not at all once the group holds MaxActions of them.                  *)

CurrentGroup(e) == <<IF Digest THEN generation ELSE TargetOf[e], now \div Window>>
\* Mutant: a group is due from the start of its bucket.
DeadlineAtStart == (now \div Window) * Window

Deadline == ((now \div Window) + 1) * Window
\* Mutant: no fence against visits since the event was bound.
RecordableUnfenced(e) ==
  /\ now <= MaxEventAge
  /\ bound[e] # -1
  /\ disposition[e] = NoDisposition

Recordable(e) ==
  /\ now <= MaxEventAge
  /\ bound[e] = generation
  /\ disposition[e] = NoDisposition

Counted(g, a) ==
  a \notin group[g].actions /\ Cardinality(group[g].actions) < MaxActions

Opened(g) ==
  IF Exists(group, g) THEN group[g]
  ELSE [NoGroup EXCEPT !.generation = generation, !.due = Deadline,
                       !.expires = now + GroupTTL]

Decide(e, decision) ==
  disposition' = [disposition EXCEPT ![e] =
                    [decision |-> decision, expires |-> now + DispositionTTL]]

Index(g) == due' = IF due[g] = Unindexed THEN [due EXCEPT ![g] = Deadline] ELSE due

\* A repeated action leaves the group, its deadline and its retention alone.
Ingest(e) ==
  LET g == CurrentGroup(e)
      a == ActionOf[e]
      old == Opened(g)
  IN /\ Digest
     /\ Recordable(e)
     /\ Decide(e, "buffer")
     /\ IF a \in group[g].actions THEN UNCHANGED <<group, due>>
        ELSE /\ Index(g)
             /\ group' = [group EXCEPT ![g] =
                  [old EXCEPT
                     !.actions = IF Counted(g, a) THEN @ \cup {a} ELSE @,
                     !.pending = IF Counted(g, a) THEN @ + 1 ELSE @,
                     !.evicted = now + GroupTTL + Grace]]
     /\ joined' = [joined EXCEPT ![e] = @ \cup {g}]
     /\ UNCHANGED <<now, generation, bound, handler, leases, worker, ration, sends, interrupts>>

\* generation_for_work, at the first attempt to deliver the event.
BindEvent(e) ==
  /\ bound[e] = -1
  /\ now <= MaxEventAge
  /\ bound' = [bound EXCEPT ![e] = generation]
  /\ UNCHANGED <<now, generation, disposition, handler, joined, index, ration, worker, sends,
                 interrupts>>

-----------------------------------------------------------------------------
(* The recipient's ration of pushes and summaries, outside digests: a token  *)
(* bucket that is refilled when it is read, counted in Refill-ths of a       *)
(* token, and a rolling window, pruned when it is read.                      *)

Least(a, b) == IF a <= b THEN a ELSE b

Full == Capacity * Refill
Tokens == Least(Full, throttle.tokens + (now - throttle.at))
Weigh == throttle' = [tokens |-> Tokens, at |-> now]

InWindow(m) == emitted[m] # Unindexed /\ emitted[m] > now - DailyWindow
Windowed == [m \in Emission |-> IF InWindow(m) THEN emitted[m] ELSE Unindexed]

\* Mutant: the window admits one more.
AtCapOneMore == Cardinality({m \in Emission : InWindow(m)}) > DailyCap

AtCap == Cardinality({m \in Emission : InWindow(m)}) >= DailyCap

OldestInWindow ==
  {m \in Emission : InWindow(m) /\ \A x \in Emission : InWindow(x) => emitted[m] <= emitted[x]}
UntilFree(m) == emitted[m] + DailyWindow - now

Affordable == ~AtCap /\ Tokens >= Refill

Charge(m) ==
  /\ throttle' = [tokens |-> Tokens - Refill, at |-> now]
  /\ emitted' = [Windowed EXCEPT ![m] = now]
  /\ charged' = [charged EXCEPT ![m] = now]
  /\ UNCHANGED refunds

\* refund_recipient_token
GiveBack(m) ==
  /\ throttle' = [tokens |-> Least(Full, Tokens + Refill), at |-> now]
  /\ emitted' = [emitted EXCEPT ![m] = Unindexed]
  /\ charged' = [charged EXCEPT ![m] = 0]
  /\ refunds' = refunds \cup {[emission |-> m, charged |-> charged[m], at |-> now]}

Emitted(m) == [emission |-> m, charged |-> charged[m]]

-----------------------------------------------------------------------------
(* With an immediate limit, the first events of a group are pushed at once,  *)
(* as far as the ration goes; the rest is buffered.  The recipient claim of  *)
(* an event keeps further attempts away while one runs, and for good unless  *)
(* it fails before it decided or pushed.                                     *)

Attemptable(e) == ~Digest /\ handler[e] = "none"

PushAtOnce(e) ==
  LET g == CurrentGroup(e)
      old == Opened(g)
  IN /\ Attemptable(e)
     /\ Recordable(e)
     /\ old.immediate < ImmediateLimit
     /\ Affordable
     /\ Charge(<<"push", e>>)
     /\ Decide(e, "push")
     /\ group' = [group EXCEPT ![g] =
          [old EXCEPT !.immediate = @ + 1,
                      !.evicted = now + (IF old.pending > 0 THEN GroupTTL + Grace
                                         ELSE DispositionTTL)]]
     /\ handler' = [handler EXCEPT ![e] = "pushing"]
     /\ UNCHANGED <<now, generation, bound, joined, due, leases, worker, sends, interrupts>>

\* The claim is kept, unless the reply is lost.
Buffer(e) ==
  LET g == CurrentGroup(e)
      old == Opened(g)
  IN /\ Attemptable(e)
     /\ Recordable(e)
     /\ IF old.immediate < ImmediateLimit
        THEN ~Affordable /\ Weigh /\ emitted' = Windowed
        ELSE UNCHANGED <<throttle, emitted>>
     /\ Decide(e, "buffer")
     /\ group' = [group EXCEPT ![g] =
          [old EXCEPT !.actions = @ \cup {ActionOf[e]}, !.pending = @ + 1,
                      !.evicted = now + GroupTTL + Grace]]
     /\ Index(g)
     /\ joined' = [joined EXCEPT ![e] = @ \cup {g}]
     /\ \E step \in {"none", "done"} : handler' = [handler EXCEPT ![e] = step]
     /\ UNCHANGED <<now, generation, bound, leases, charged, refunds, worker, sends, interrupts>>

\* A retry gets the decision that was made, and is not charged again.
Replayed(e) == disposition[e].decision = "push"

Replay(e) ==
  /\ Attemptable(e)
  /\ now <= MaxEventAge
  /\ bound[e] = generation
  /\ Replayed(e)
  /\ handler' = [handler EXCEPT ![e] = "pushing"]
  /\ UNCHANGED <<now, generation, bound, disposition, joined, index, ration, worker, sends,
                 interrupts>>

PushEnds(e, step) ==
  /\ handler[e] = "pushing"
  /\ handler' = [handler EXCEPT ![e] = step]
  /\ UNCHANGED <<now, generation, bound, disposition, joined, index, worker, submitted,
                 interrupts>>

\* No device is awake, or the budget refuses: the charge goes back, if it can.
RefusePush(e) ==
  /\ PushEnds(e, "done")
  /\ GiveBack(<<"push", e>>) \/ UNCHANGED ration
  /\ UNCHANGED emissions

\* Redis fails, or every device gives a retryable failure: the claim goes, the
\* charge stays.
FailPush(e) == PushEnds(e, "none") /\ UNCHANGED <<ration, emissions>>

LandPush(e) ==
  /\ bound[e] = generation
  /\ PushEnds(e, "done")
  /\ emissions' = emissions \cup {Emitted(<<"push", e>>)}
  /\ UNCHANGED ration

-----------------------------------------------------------------------------
(* claim_due_group: expired leases are reconciled first, then the oldest    *)
(* due group is leased.                                                     *)

ExpiredLeases == {g \in Group : leases[g] # Unindexed /\ leases[g] <= now}

Flushable(g) == group[g].pending > 0 /\ now < group[g].expires

\* Mutant: an expired lease is dropped, its group is not due again.
ReconciledForgotten ==
  [group  |-> [g \in Group |-> IF g \in ExpiredLeases /\ ~Flushable(g)
                               THEN NoGroup ELSE group[g]],
   due    |-> due,
   leases |-> [g \in Group |-> IF g \in ExpiredLeases THEN Unindexed ELSE leases[g]]]

Reconciled ==
  [group  |-> [g \in Group |-> IF g \in ExpiredLeases /\ ~Flushable(g)
                               THEN NoGroup ELSE group[g]],
   due    |-> [g \in Group |-> IF g \in ExpiredLeases /\ Flushable(g)
                                  /\ due[g] = Unindexed
                               THEN group[g].due ELSE due[g]],
   leases |-> [g \in Group |-> IF g \in ExpiredLeases THEN Unindexed ELSE leases[g]]]

DueNow(r) == {g \in Group : r.due[g] # Unindexed /\ r.due[g] <= now}

\* Due members without a group are removed on the way to the first with one.
Candidates(r) == {g \in DueNow(r) : Exists(r.group, g)}

Oldest(r) == {g \in Candidates(r) : \A x \in Candidates(r) : r.due[g] <= r.due[x]}

Passed(r, g) ==
  {x \in DueNow(r) \ Candidates(r) : r.due[x] < r.due[g]}

Claim(w) ==
  LET r == Reconciled
  IN /\ worker[w] = Idle
     /\ \E g \in Oldest(r) :
          /\ group' = [r.group EXCEPT ![g].lease = w]
          /\ due' = [x \in Group |-> IF x = g \/ x \in Passed(r, g)
                                     THEN Unindexed ELSE r.due[x]]
          /\ leases' = [r.leases EXCEPT ![g] = now + Lease]
          /\ worker' = [worker EXCEPT ![w] =
                          [step |-> "claimed", gid |-> g, claimedAt |-> now,
                           actions |-> {}, generation |-> 0, expires |-> 0]]
     /\ UNCHANGED <<now, generation, ingestion, ration, sends, interrupts>>

\* Nothing is due: the poll only reconciles.
PollEmpty(w) ==
  LET r == Reconciled
  IN /\ worker[w] = Idle
     /\ Candidates(r) = {}
     /\ group' = r.group
     /\ due' = [g \in Group |-> IF g \in DueNow(r) THEN Unindexed ELSE r.due[g]]
     /\ leases' = r.leases
     /\ UNCHANGED <<now, generation, ingestion, ration, worker, sends, interrupts>>

-----------------------------------------------------------------------------
(* complete_group.  Without the lease token it changes nothing.             *)

Owns(w, g) == group[g].lease = w

\* Mutant: the lease is given back, the group stays due.
FinishedKept(w, g) ==
  IF Owns(w, g)
  THEN /\ group' = [group EXCEPT ![g].lease = Nobody]
       /\ leases' = [leases EXCEPT ![g] = Unindexed]
       /\ due' = [due EXCEPT ![g] = group[g].due]
  ELSE UNCHANGED <<group, leases, due>>

Finished(w, g) ==
  IF Owns(w, g)
  THEN /\ group' = [group EXCEPT ![g] = NoGroup]
       /\ leases' = [leases EXCEPT ![g] = Unindexed]
       /\ due' = due
  ELSE UNCHANGED <<group, leases, due>>

\* Mutant: the group's lifetime is not checked.
RequeuedForEver(w, g, delay) ==
  IF Owns(w, g)
  THEN /\ leases' = [leases EXCEPT ![g] = Unindexed]
       /\ group' = [group EXCEPT ![g].lease = Nobody]
       /\ due' = [due EXCEPT ![g] = now + delay]
  ELSE UNCHANGED <<group, leases, due>>

Requeued(w, g, delay) ==
  IF Owns(w, g)
  THEN /\ leases' = [leases EXCEPT ![g] = Unindexed]
       /\ IF now + delay >= group[g].expires
          THEN /\ group' = [group EXCEPT ![g] = NoGroup]
               /\ due' = due
          ELSE /\ group' = [group EXCEPT ![g].lease = Nobody]
               /\ due' = [due EXCEPT ![g] = now + delay]
  ELSE UNCHANGED <<group, leases, due>>

-----------------------------------------------------------------------------
(* flush_group.  Everything up to its end happens within FlushTimeout.      *)

Flushing(w) == worker[w] # Idle /\ worker[w].step # "failed"

InTime(w) == Flushing(w) /\ now < worker[w].claimedAt + FlushTimeout
At(w, step) == InTime(w) /\ worker[w].step = step
Rest(w) == worker' = [worker EXCEPT ![w] = Idle]

Load(w) ==
  /\ At(w, "claimed")
  /\ Exists(group, worker[w].gid)
  /\ group[worker[w].gid].expires > worker[w].claimedAt
  /\ group[worker[w].gid].pending > 0
  /\ worker' = [worker EXCEPT ![w].step = "loaded",
                              ![w].actions = group[worker[w].gid].actions,
                              ![w].generation = group[worker[w].gid].generation,
                              ![w].expires = group[worker[w].gid].expires]
  /\ UNCHANGED <<now, generation, ingestion, index, ration, sends, interrupts>>

\* There is nothing to send, or the group has expired.
Drop(w) ==
  LET g == worker[w].gid
  IN /\ At(w, "claimed")
     /\ \/ ~Exists(group, g)
        \/ group[g].expires <= worker[w].claimedAt
        \/ group[g].pending = 0
     /\ Finished(w, g)
     /\ Rest(w)
     /\ UNCHANGED <<now, generation, ingestion, ration, sends, interrupts>>

\* A flush that is retried, or recovered, uses the reservation it has made.
Reserved(m) == InWindow(m)

\* consume_recipient_token: the summary of a target is charged before it is sent, or
\* put back until the bound that refuses it has passed.
Spend(w) ==
  LET g == worker[w].gid
      m == <<"summary", g>>
  IN /\ ~Digest
     /\ At(w, "loaded")
     /\ \/ /\ Reserved(m) \/ Affordable
           /\ IF Reserved(m) THEN emitted' = Windowed /\ UNCHANGED <<throttle, charged, refunds>>
              ELSE Charge(m)
           /\ worker' = [worker EXCEPT ![w].step = "charged"]
           /\ UNCHANGED index
        \/ /\ ~Reserved(m)
           /\ \/ /\ AtCap
                 /\ UNCHANGED throttle
                 /\ \E oldest \in OldestInWindow : Requeued(w, g, UntilFree(oldest))
              \/ ~AtCap /\ Tokens < Refill /\ Weigh /\ Requeued(w, g, Refill)
           /\ emitted' = Windowed
           /\ UNCHANGED <<charged, refunds>>
           /\ Rest(w)
     /\ UNCHANGED <<now, generation, ingestion, sends, interrupts>>

\* The charge goes back when nothing is sent, or no device accepts it.
Refund(w) ==
  /\ ~Digest
  /\ At(w, "charged") \/ At(w, "rejected")
  /\ \/ GiveBack(<<"summary", worker[w].gid>>)
     \/ At(w, "rejected") /\ UNCHANGED ration
  /\ worker' = [worker EXCEPT ![w].step = "refunded"]
  /\ UNCHANGED <<now, generation, ingestion, index, sends, interrupts>>

\* Where a flush can end without a push.
Settled(w) == IF Digest THEN At(w, "loaded") \/ At(w, "rejected") ELSE At(w, "refunded")

\* No device, disabled, active, stale visit, capped, the failure is final: the
\* summary is dropped.
Suppress(w) ==
  /\ At(w, "loaded") \/ Settled(w)
  /\ Finished(w, worker[w].gid)
  /\ Rest(w)
  /\ UNCHANGED <<now, generation, ingestion, ration, sends, interrupts>>

\* The budget is cooling down, or the provider asks to retry.
Defer(w) ==
  /\ Settled(w)
  /\ \E delay \in Deferral : Requeued(w, worker[w].gid, delay)
  /\ Rest(w)
  /\ UNCHANGED <<now, generation, ingestion, ration, sends, interrupts>>

\* The reservation is valid (the generation is still the group's) and the group
\* has not expired: the summary goes out.
CanSubmit(w) ==
  /\ At(w, IF Digest THEN "loaded" ELSE "charged")
  /\ now < worker[w].expires
  /\ worker[w].generation = generation

Submitted(w) ==
  submitted' = [submitted EXCEPT ![worker[w].gid] = Append(@, worker[w].actions)]

Submit(w) ==
  /\ CanSubmit(w)
  /\ Submitted(w)
  /\ emissions' = IF Digest THEN emissions ELSE emissions \cup {Emitted(<<"summary", worker[w].gid>>)}
  /\ worker' = [worker EXCEPT ![w].step = "sent"]
  /\ UNCHANGED <<now, generation, ingestion, index, ration, interrupts>>

Complete(w) ==
  /\ At(w, "sent")
  /\ Finished(w, worker[w].gid)
  /\ Rest(w)
  /\ UNCHANGED <<now, generation, ingestion, ration, sends, interrupts>>

-----------------------------------------------------------------------------
(* What interrupts a flush.                                                 *)

\* Bound: within a lease of the end of the clock nothing is interrupted, so that
\* the end of the clock cuts off no recovery.
NearTheEnd == now + Lease >= MaxNow

Interrupt(w) ==
  /\ ~NearTheEnd
  /\ interrupts[worker[w].gid] < MaxInterrupts
  /\ interrupts' = [interrupts EXCEPT ![worker[w].gid] = @ + 1]

\* The lease stays in place.
Crash(w) ==
  /\ worker[w] # Idle
  /\ Interrupt(w)
  /\ Rest(w)
  /\ UNCHANGED <<now, generation, ingestion, index, ration, sends>>

\* run_coalesce_flush gives up on the flush, the lease stays in place.
TimeOut(w) ==
  /\ Flushing(w)
  /\ ~InTime(w)
  /\ interrupts' = [interrupts EXCEPT ![worker[w].gid] = @ + 1]
  /\ Rest(w)
  /\ UNCHANGED <<now, generation, ingestion, index, ration, sends>>

\* A step of the flush fails, or its completion script does.
Fail(w) ==
  /\ InTime(w)
  /\ Interrupt(w)
  /\ worker' = [worker EXCEPT ![w].step = "failed"]
  /\ UNCHANGED <<now, generation, ingestion, index, ration, sends>>

\* The completion script succeeds but its reply is lost.
LoseReply(w) ==
  /\ At(w, "sent")
  /\ Interrupt(w)
  /\ Finished(w, worker[w].gid)
  /\ worker' = [worker EXCEPT ![w].step = "failed"]
  /\ UNCHANGED <<now, generation, ingestion, ration, sends>>

\* Every device refuses the summary, or one takes it and its answer is lost.
SubmitInVain(w) ==
  /\ CanSubmit(w)
  /\ \/ UNCHANGED <<sends, interrupts>>
     \/ Interrupt(w) /\ Submitted(w) /\ UNCHANGED emissions
  /\ worker' = [worker EXCEPT ![w].step = "rejected"]
  /\ UNCHANGED <<now, generation, ingestion, index, ration>>

\* The worker puts the group back, after an error or (at once) when cancelled.
\* No timeout bounds this.
PutBack(w) ==
  /\ worker[w] # Idle /\ worker[w].step = "failed"
  /\ \E delay \in {0, Retry} : Requeued(w, worker[w].gid, delay)
  /\ Rest(w)
  /\ UNCHANGED <<now, generation, ingestion, ration, sends, interrupts>>

-----------------------------------------------------------------------------
(* The environment: visits, and time with the expiry of keys.               *)

Visit ==
  /\ generation < MaxGeneration
  /\ generation' = generation + 1
  /\ UNCHANGED <<now, ingestion, index, ration, worker, sends, interrupts>>

Tick ==
  /\ now < MaxNow
  /\ \A w \in Worker : Flushing(w) =>
       InTime(w) /\ (NearTheEnd => now + 1 < worker[w].claimedAt + FlushTimeout)
  /\ now' = now + 1
  /\ disposition' = [e \in Event |-> IF disposition[e].expires <= now'
                                     THEN NoDisposition ELSE disposition[e]]
  /\ group' = [g \in Group |-> IF group[g].evicted <= now' THEN NoGroup ELSE group[g]]
  /\ UNCHANGED <<generation, bound, handler, joined, due, leases, ration, worker, sends,
                 interrupts>>

-----------------------------------------------------------------------------
Init ==
  /\ setting \in Setting
  /\ now = 1
  /\ generation = 0
  /\ bound = [e \in Event |-> -1]
  /\ disposition = [e \in Event |-> NoDisposition]
  /\ group = [g \in Group |-> NoGroup]
  /\ due = [g \in Group |-> Unindexed]
  /\ leases = [g \in Group |-> Unindexed]
  /\ worker = [w \in Worker |-> Idle]
  /\ throttle = [tokens |-> Full, at |-> now]
  /\ emitted = [m \in Emission |-> Unindexed]
  /\ handler = [e \in Event |-> "none"]
  /\ joined = [e \in Event |-> {}]
  /\ charged = [m \in Emission |-> 0]
  /\ refunds = {}
  /\ emissions = {}
  /\ submitted = [g \in Group |-> <<>>]
  /\ interrupts = [g \in Group |-> 0]

FlushStep(w) ==
  \/ Load(w)
  \/ Drop(w)
  \/ Spend(w)
  \/ Refund(w)
  \/ Suppress(w)
  \/ Defer(w)
  \/ Submit(w)
  \/ SubmitInVain(w)
  \/ Complete(w)

EventStep(e) ==
  \/ BindEvent(e)
  \/ Ingest(e)
  \/ PushAtOnce(e)
  \/ Buffer(e)
  \/ Replay(e)
  \/ RefusePush(e)
  \/ FailPush(e)
  \/ LandPush(e)

WorkerStep(w) ==
  \/ Claim(w)
  \/ PollEmpty(w)
  \/ FlushStep(w)
  \/ TimeOut(w)
  \/ PutBack(w)

Next ==
  /\ UNCHANGED setting
  /\ \/ \E e \in Event : EventStep(e)
     \/ \E w \in Worker : WorkerStep(w) \/ Crash(w) \/ Fail(w) \/ LoseReply(w)
     \/ Visit
     \/ Tick

vars == <<setting, coalesceVars>>

Spec == Init /\ [][Next]_vars

\* Workers poll for ever, a flush takes its next step or is timed out, a failed
\* one is put back, and the clock moves.
Fairness ==
  /\ WF_coalesceVars(Tick)
  /\ \A w \in Worker : /\ WF_coalesceVars(Claim(w) \/ PollEmpty(w))
                       /\ WF_coalesceVars(FlushStep(w) \/ TimeOut(w))
                       /\ WF_coalesceVars(PutBack(w))

-----------------------------------------------------------------------------
(* Properties *)

GroupState ==
  [generation : Generation, immediate : Nat, actions : SUBSET Action, pending : Nat,
   due : Nat, expires : Nat, lease : Worker \cup {Nobody}, evicted : Nat]

FlushState ==
  {Idle} \cup
  [step : {"claimed", "loaded", "charged", "sent", "rejected", "refunded", "failed"},
   gid : Group, claimedAt : Nat, actions : SUBSET Action, generation : Generation,
   expires : Nat]

TypeOK ==
  /\ setting \in Setting
  /\ now \in 1..MaxNow
  /\ generation \in Generation
  /\ bound \in [Event -> Generation \cup {-1}]
  /\ disposition \in [Event -> [decision : {"none", "push", "buffer"}, expires : Nat]]
  /\ throttle \in [tokens : 0..Full, at : 1..now]
  /\ emitted \in [Emission -> Nat]
  /\ handler \in [Event -> {"none", "pushing", "done"}]
  /\ charged \in [Emission -> Nat]
  /\ refunds \subseteq [emission : Emission, charged : Nat, at : Nat]
  /\ emissions \subseteq [emission : Emission, charged : Nat]
  /\ group \in [Group -> GroupState]
  /\ due \in [Group -> Nat]
  /\ leases \in [Group -> Nat]
  /\ worker \in [Worker -> FlushState]
  /\ joined \in [Event -> SUBSET Group]
  /\ submitted \in [Group -> Seq(SUBSET Action)]
  /\ interrupts \in [Group -> Nat]

\* Pending work can always be found again: a group with buffered events is due
\* or leased, whichever worker crashed, lingered or lost a reply
\* (the reconciliation in coalesce.rs:714-741 and the scripts around it).
WorkIndexed ==
  \A g \in Group : group[g].pending > 0 => due[g] # Unindexed \/ leases[g] # Unindexed

\* A group's summary is submitted once, and again only for a flush that crashed,
\* timed out or failed before it could complete.
SubmittedOncePerInterruption ==
  \A g \in Group : Len(submitted[g]) <= 1 + interrupts[g]

\* What is submitted for a group counts every action recorded in it, up to the
\* bound: nothing joins a group that is being flushed, or was (coalesce.rs:13-15).
RecordedIn(g) == {ActionOf[e] : e \in {x \in Event : g \in joined[x]}}

SummariesCountAll ==
  \A g \in Group : \A i \in DOMAIN submitted[g] :
    RecordedIn(g) \subseteq submitted[g][i] \/ Cardinality(submitted[g][i]) = MaxActions

\* An event is counted in one group or pushed at once, however often and late it is
\* replayed: its disposition outlives the age at which it is refused
\* (coalesce.rs:16-18).
PushesOf(e) == {x \in emissions : x.emission = <<"push", e>>}

ToldOnce ==
  \A e \in Event : Cardinality(joined[e]) + Cardinality(PushesOf(e)) <= 1

\* No reaction is lost on the way into a summary, and none is told of twice
\* (coalesce.rs:13-18).
OutboxKeepsEvents == WorkIndexed /\ SummariesCountAll /\ ToldOnce

\* A recipient gets no more than its ration, whatever fails and is retried: in a
\* rolling window at most the cap of pushes and summaries, and in any time at most
\* a full bucket, what that time refills, and what is given back in it for charges
\* from before it; by the times they were charged at.
\* Summaries whose flush was interrupted are not counted: their charge is given
\* back when a later attempt sends nothing (coalesce.rs:1403-1413, 1661-1665).
Rationed(x) == x.emission[1] = "summary" => interrupts[x.emission[2]] = 0

EmittedIn(from, to) == {x \in emissions : Rationed(x) /\ x.charged \in from..to}
LateRefunds(from, to) == {r \in refunds : r.charged < from /\ r.at \in from..to}

EmissionsRationed ==
  \A x \in emissions : \A from \in 1..x.charged :
    LET between == Cardinality(EmittedIn(from, x.charged))
        late == Cardinality(LateRefunds(from, x.charged))
    IN /\ x.charged - from < DailyWindow => between <= DailyCap
       /\ between * Refill <= Full + (x.charged - from) + late * Refill

\* A digest counts only events that were bound to the visit it is sent in,
\* whatever visits came while they waited or were replayed (coalesce.rs:402-404).
SubmitsInVisit ==
  \A g \in Group : submitted'[g] # submitted[g] =>
    \A a \in submitted'[g][Len(submitted'[g])] :
      \E e \in Event : ActionOf[e] = a /\ bound[e] = generation

DigestsStayInVisit == [][Digest => SubmitsInVisit]_vars

\* When no reaction is young enough to be recorded any more, every group is
\* flushed, suppressed or dropped at the end of its logical lifetime; none goes
\* round for ever or waits for its key to be evicted
\* (checked with a retention that the run does not reach).
GroupsSettle ==
  <>[](\A g \in Group : ~Exists(group, g))
=============================================================================
