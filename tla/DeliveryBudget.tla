--------------------------- MODULE DeliveryBudget ---------------------------
(***************************************************************************)
(* The interruption budget of one account                                  *)
(* (src/src/notification_delivery.rs, with src/src/activity.rs).           *)
(*                                                                         *)
(* Any number of delivery tasks, on any number of replicas, work for the   *)
(* account at once.  A task binds its notification to a visit generation,  *)
(* reserves a slot in the budget, and revalidates the reservation right    *)
(* before it submits the push to the provider.  Each of the three is one   *)
(* Redis script; between them time passes, other tasks run, the owner      *)
(* opens or leaves the app, and the task's process may die.  A             *)
(* notification whose task gave up or died may be attempted again.         *)
(*                                                                         *)
(* A reserved identity is a member of a sorted set scored by its latest    *)
(* attempt; nonurgent work and direct messages have a set each.  The score *)
(* 0 stands for an identity that is not in its set (the clock starts at 1).*)
(***************************************************************************)
EXTENDS Activity

CONSTANTS
  Task,            \* delivery tasks that may run at the same time
  DirectMessages,  \* the work of class DirectMessage; the rest is Nonurgent
  Hour,            \* 3600 s
  Day,             \* 86400 s: how long a reservation is kept
  MinInterval,     \* min_interval_secs: the gap between nonurgent pushes
  HourlyCap,       \* hourly_cap
  DailyCap,        \* daily_cap
  AbsenceCap,      \* absence_cap: nonurgent pushes between visits
  RetryHorizon     \* how long after its first attempt work is attempted again

ASSUME BudgetAssumption ==
  /\ DirectMessages \subseteq Work
  /\ Hour \in Nat \ {0}
  /\ Day \in Nat \ {0}
  /\ MinInterval \in Nat \ {0}
  /\ HourlyCap \in Nat \ {0}
  /\ DailyCap \in Nat \ {0}
  /\ AbsenceCap \in Nat \ {0}
  /\ RetryHorizon \in Nat

\* Reservations are pruned after a day, so the gap can be enforced only if it
\* is not longer (config.rs bounds it from below only).
ASSUME RetentionAssumption ==
  /\ Hour <= Day
  /\ MinInterval <= Day
  /\ Day <= StateTTL
  /\ RetryHorizon < WorkTTL

\* Only finitely many notifications are ever addressed to the account.
ASSUME FiniteWorkAssumption == IsFiniteSet(Work)

VARIABLES
  score,        \* delivery_budget / delivery_dm_budget: latest attempt
  reservedGen,  \* delivery_generations / delivery_dm_generations
  task,         \* the step each delivery task is at
  sent,         \* history: latest push submitted for each work
  firstBound,   \* history: first attempt of each work, with its generation
  charged       \* history: work charged to the allowance since the last visit

budgetVars == <<score, reservedGen, task, sent, firstBound, charged>>
vars == <<activityVars, budgetVars>>

Absent == 0
Never == [at |-> 0, generation |-> 0]
Idle == [step |-> "idle"]

Nonurgent == Work \ DirectMessages

-----------------------------------------------------------------------------
(* Reading the sorted sets.  sc is a score function.                       *)

Members(sc, C) == {w \in C : sc[w] # Absent}

\* What is left after the entries of a day ago are removed.
Pruned(sc) == [w \in Work |-> IF sc[w] <= now - Day THEN Absent ELSE sc[w]]

\* Mutant: direct messages do not count towards the hourly bound.
InHourNonurgent(sc) == {w \in Members(sc, Nonurgent) : sc[w] > now - Hour}

\* Both classes count towards the hourly bound.
InHour(sc) == {w \in Members(sc, Work) : sc[w] > now - Hour}
HourFull(sc) == Cardinality(InHour(sc)) >= HourlyCap

\* Mutant: the gap ends one unit early.
CoolingDownShort(sc, w) ==
  \E o \in Members(sc, Nonurgent) \ {w} : sc[o] + MinInterval > now + 1

\* The code reads the two newest members, skips the identity itself, and compares
\* the newest other one with the gap: it is too recent exactly if some other is.
CoolingDown(sc, w) ==
  \E o \in Members(sc, Nonurgent) \ {w} : sc[o] + MinInterval > now

\* Until the account reports activity, the allowance is the rolling day's.
AllowanceUsed(sc) ==
  IF account.reported THEN account.used ELSE Cardinality(Members(sc, Nonurgent))

-----------------------------------------------------------------------------
(* reserve_budget_for_class: the cases that end in Allowed.                *)

Unfenced(gen) == gen = account.generation /\ ~Active

RenewAllowed(sc, w) ==
  /\ sc[w] # Absent
  /\ reservedGen[w] = account.generation
  /\ sc[w] > now - Hour \/ ~HourFull(sc)
  /\ w \in Nonurgent => ~CoolingDown(sc, w)

\* Mutant: the absence cap is off by one.
NewAllowedOneMore(sc, w) ==
  /\ sc[w] = Absent
  /\ w \in Nonurgent => AllowanceUsed(sc) <= AbsenceCap /\ ~CoolingDown(sc, w)
  /\ Cardinality(Members(sc, Work)) < DailyCap
  /\ ~HourFull(sc)

NewAllowed(sc, w) ==
  /\ sc[w] = Absent
  /\ w \in Nonurgent => AllowanceUsed(sc) < AbsenceCap /\ ~CoolingDown(sc, w)
  /\ Cardinality(Members(sc, Work)) < DailyCap
  /\ ~HourFull(sc)

ReserveAllowed(sc, w, gen) ==
  Unfenced(gen) /\ (RenewAllowed(sc, w) \/ NewAllowed(sc, w))

ForgetPruned(sc) == [w \in Work |-> IF sc[w] = Absent THEN 0 ELSE reservedGen[w]]

Reserve(k) ==
  LET w == task[k].work
      sc == Pruned(score)
      charge == sc[w] = Absent /\ w \in Nonurgent /\ account.reported
  IN /\ task[k].step = "eligible"
     /\ ReserveAllowed(sc, w, task[k].generation)
     /\ score' = [sc EXCEPT ![w] = now]
     /\ reservedGen' = [ForgetPruned(sc) EXCEPT ![w] = account.generation]
     /\ account' = IF charge THEN [account EXCEPT !.used = @ + 1] ELSE account
     /\ charged' = IF charge THEN charged \cup {w} ELSE charged
     /\ task' = [task EXCEPT ![k].step = "reserved"]
     /\ UNCHANGED <<now, registered, history, session, presence, visitSequence,
                    marker, sent, firstBound>>

\* Every refusal prunes as well and leaves the push unsent.
Refuse(k) ==
  LET sc == Pruned(score)
  IN /\ task[k].step = "eligible"
     /\ ~ReserveAllowed(sc, task[k].work, task[k].generation)
     /\ score' = sc
     /\ reservedGen' = ForgetPruned(sc)
     /\ task' = [task EXCEPT ![k] = Idle]
     /\ UNCHANGED <<activityVars, sent, firstBound, charged>>

-----------------------------------------------------------------------------
(* validate_reservation_for_class, then the provider request.              *)

Valid(w, gen) ==
  /\ Unfenced(gen)
  /\ score[w] # Absent /\ score[w] > now - Day
  /\ score[w] > now - Hour \/ ~HourFull(score)
  /\ reservedGen[w] = account.generation
  /\ w \in Nonurgent => ~CoolingDown(score, w)

ValidateAndSend(k) ==
  LET w == task[k].work
  IN /\ task[k].step = "reserved"
     /\ Valid(w, task[k].generation)
     /\ score' = [score EXCEPT ![w] = now]
     /\ sent' = [sent EXCEPT ![w] = [at |-> now, generation |-> account.generation]]
     /\ task' = [task EXCEPT ![k] = Idle]
     /\ UNCHANGED <<activityVars, reservedGen, firstBound, charged>>

Invalidate(k) ==
  /\ task[k].step = "reserved"
  /\ ~Valid(task[k].work, task[k].generation)
  /\ task' = [task EXCEPT ![k] = Idle]
  /\ UNCHANGED <<activityVars, score, reservedGen, sent, firstBound, charged>>

-----------------------------------------------------------------------------
(* The delivery task around the scripts.                                   *)

\* First attempts may come at any time; later ones within the horizon that
\* the event age, the group lifetime or the campaign lease sets.
Attemptable(w) ==
  firstBound[w] = Never \/ now <= firstBound[w].at + RetryHorizon

Bind(k, w) ==
  /\ task[k] = Idle
  /\ Attemptable(w)
  /\ GenerationForWork(w)
  /\ task' = [task EXCEPT ![k] =
                [step |-> "bound", work |-> w, generation |-> WorkGeneration(w)]]
  /\ firstBound' = IF firstBound[w] = Never /\ registered
                   THEN [firstBound EXCEPT ![w] =
                           [at |-> now, generation |-> WorkGeneration(w)]]
                   ELSE firstBound
  /\ UNCHANGED <<score, reservedGen, sent, charged>>

\* The account has a device to push to.
FindDevices(k) ==
  /\ task[k].step = "bound"
  /\ registered
  /\ task' = [task EXCEPT ![k].step = "eligible"]
  /\ UNCHANGED <<activityVars, score, reservedGen, sent, firstBound, charged>>

\* The process dies, is cancelled, or finds no device to push to.
Abandon(k) ==
  /\ task[k] # Idle
  /\ task' = [task EXCEPT ![k] = Idle]
  /\ UNCHANGED <<activityVars, score, reservedGen, sent, firstBound, charged>>

-----------------------------------------------------------------------------
Init ==
  /\ ActivityInit
  /\ score = [w \in Work |-> Absent]
  /\ reservedGen = [w \in Work |-> 0]
  /\ task = [k \in Task |-> Idle]
  /\ sent = [w \in Work |-> Never]
  /\ firstBound = [w \in Work |-> Never]
  /\ charged = {}

\* An attempt ends within minutes: one that was bound before the account had a
\* generation is over when that account's state expires, StateTTL later.
AttemptsAreShort ==
  account.generation # 0 /\ account'.generation = 0
    => \A k \in Task : task[k] # Idle => task[k].generation # 0

\* A new visit starts a new account of what the allowance was spent on.
AccountStep ==
  /\ AccountNext
  /\ AttemptsAreShort
  /\ charged' = IF account'.generation # account.generation THEN {} ELSE charged
  /\ UNCHANGED <<score, reservedGen, task, sent, firstBound>>

TaskStep(k) ==
  \/ \E w \in Work : Bind(k, w)
  \/ FindDevices(k)
  \/ Reserve(k)
  \/ Refuse(k)
  \/ ValidateAndSend(k)
  \/ Invalidate(k)
  \/ Abandon(k)

Next == AccountStep \/ \E k \in Task : TaskStep(k)

Spec == Init /\ [][Next]_vars

-----------------------------------------------------------------------------
(* Properties *)

TaskState ==
  {Idle} \cup [step : {"bound", "eligible", "reserved"}, work : Work, generation : Nat]

Stamp == [at : Nat, generation : Nat]

TypeOK ==
  /\ ActivityTypeOK
  /\ score \in [Work -> Nat]
  /\ reservedGen \in [Work -> Nat]
  /\ task \in [Task -> TaskState]
  /\ sent \in [Work -> Stamp]
  /\ firstBound \in [Work -> Stamp]
  /\ charged \in SUBSET Nonurgent

WasSent(w) == sent[w].at # 0

\* Two different nonurgent notifications are never submitted closer together
\* than the minimum gap, whatever visits, retries and slow tasks come between
\* (docs/notification-delivery.md:13, notification_delivery.rs:198-206, 311-318).
GapKept ==
  \A v, w \in Nonurgent :
    v # w /\ WasSent(v) /\ WasSent(w)
      => \/ sent[v].at + MinInterval <= sent[w].at
         \/ sent[w].at + MinInterval <= sent[v].at

\* In any rolling hour at most hourly_cap notifications of both classes are
\* submitted, retries of a reserved identity included
\* (docs/notification-delivery.md:21-22).
HourlyCapKept ==
  Cardinality({w \in Work : WasSent(w) /\ sent[w].at > now - Hour}) <= HourlyCap

\* In any rolling day at most daily_cap notifications of both classes are
\* submitted (docs/notification-delivery.md:21-22).
DailyCapKept ==
  Cardinality({w \in Work : WasSent(w) /\ sent[w].at > now - Day}) <= DailyCap

\* Between two visits of a reporting account at most absence_cap nonurgent
\* notifications are submitted (docs/notification-delivery.md:7-9).
AbsenceCapKept ==
  account.reported =>
    Cardinality({w \in Nonurgent : WasSent(w)
                   /\ sent[w].generation = account.generation}) <= AbsenceCap

\* An account that has not reported, or whose report has expired, gets at most
\* absence_cap nonurgent notifications in a rolling day
\* (docs/notification-delivery.md:9-12).
RollingAllowanceKept ==
  ~account.reported =>
    Cardinality({w \in Nonurgent : WasSent(w) /\ sent[w].at > now - Day})
      <= AbsenceCap

\* The caps over rolling hours and days hold together.
CapsKept == HourlyCapKept /\ DailyCapKept /\ RollingAllowanceKept

\* Work first attempted before a visit is never submitted after it: every push
\* goes out under the generation its first attempt was bound to, also when the
\* attempt that submits it is a retry after the visit
\* (docs/notification-delivery.md:27-28, activity.rs:151-154).
NoPushAcrossVisit ==
  [][\A w \in Work : sent'[w] # sent[w] /\ firstBound[w] # Never
       => sent'[w].generation = firstBound[w].generation]_vars
=============================================================================
