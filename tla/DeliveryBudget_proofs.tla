----------------------- MODULE DeliveryBudget_proofs -----------------------
(***************************************************************************)
(* Theorems about DeliveryBudget for every number of sessions, tasks and   *)
(* notifications, and for every value of the caps, gaps and lifetimes that *)
(* the named assumptions allow; and about Settings, of which these values  *)
(* are taken: what the check at start-up guarantees for every setting that *)
(* it accepts, and what it does not.                                       *)
(***************************************************************************)
EXTENDS DeliveryBudget, Settings, FiniteSetTheorems, TLAPS

-----------------------------------------------------------------------------
(* Type correctness                                                        *)

\* Abbreviations of the two actions, expanded wherever the actions are.
USE DEF NextGeneration, PresenceAfter

\* The visit that a report carries is a number (VisitOf counts a finite set).
LEMMA VisitOfType ==
  ASSUME NEW s, NEW n \in Nat
  PROVE  VisitOf(s, n) \in Nat
<1>1. IsFiniteSet(1..n)
  BY FS_Interval
<1>2. {i \in 1..n : Opens(s, i)} \in SUBSET (1..n)
  OBVIOUS
<1>3. IsFiniteSet({i \in 1..n : Opens(s, i)})
  BY <1>1, <1>2, FS_Subset
<1>4. QED
  BY <1>3, FS_CardinalityType DEF VisitOf

LEMMA RecordActivityType ==
  ASSUME ActivityTypeOK, NEW s \in Session, NEW n \in Sequence,
         RecordActivity(s, n)
  PROVE  ActivityTypeOK'
<1>1. n \in Nat /\ n \in 1..MaxSequence
  BY BoundsAssumption DEF Sequence
<1>2. VisitOf(s, n) \in Nat
  BY <1>1, VisitOfType
<1>3. history[s][n] \in ActivityState
  BY <1>1 DEF ActivityTypeOK, Histories, Sequence
<1>4. session' \in [Session -> [sequence : Nat, visit : Nat,
                               state : ActivityState, expires : Nat]]
  <2>1. now + SessionTTL \in Nat
    BY LifetimesAssumption DEF ActivityTypeOK
  <2> DEFINE new == [sequence |-> n, visit |-> VisitOf(s, n),
                     state |-> history[s][n], expires |-> now + SessionTTL]
  <2>2. new \in [sequence : Nat, visit : Nat, state : ActivityState, expires : Nat]
    BY <1>1, <1>2, <1>3, <2>1
  <2>3. session' = [session EXCEPT ![s] = new]
    BY DEF RecordActivity
  <2> HIDE DEF new
  <2>4. QED
    BY <2>2, <2>3 DEF ActivityTypeOK
<1>5. presence' \in [Session -> Nat]
  BY LifetimesAssumption DEF ActivityTypeOK, RecordActivity
<1>6. visitSequence' \in Nat
  BY DEF ActivityTypeOK, RecordActivity
<1>7. account' \in [generation : Nat, used : Nat, reported : BOOLEAN, expires : Nat]
  BY <1>6, LifetimesAssumption DEF ActivityTypeOK, RecordActivity
<1>8. QED
  BY <1>4, <1>5, <1>6, <1>7 DEF ActivityTypeOK, RecordActivity

LEMMA GenerationForWorkType ==
  ASSUME ActivityTypeOK, NEW w \in Work, GenerationForWork(w)
  PROVE  ActivityTypeOK' /\ WorkGeneration(w) \in Nat
<1>1. CurrentGeneration \in Nat
  BY DEF ActivityTypeOK, CurrentGeneration
<1>2. WorkGeneration(w) \in Nat
  BY <1>1 DEF ActivityTypeOK, WorkGeneration
<1>3. account' \in [generation : Nat, used : Nat, reported : BOOLEAN, expires : Nat]
  <2>1. visitSequence' \in Nat /\ now + StateTTL \in Nat
    BY LifetimesAssumption DEF ActivityTypeOK, GenerationForWork
  <2>2. CASE NeedsGeneration
    <3> DEFINE e == IF account.expires = 0 THEN now + StateTTL ELSE account.expires
    <3>1. e \in Nat
      BY <2>1 DEF ActivityTypeOK
    <3>2. account' = [[account EXCEPT !.generation = visitSequence'] EXCEPT !.expires = e]
      BY <2>2 DEF GenerationForWork
    <3> HIDE DEF e
    <3>3. QED
      BY <2>1, <3>1, <3>2 DEF ActivityTypeOK
  <2>3. CASE ~NeedsGeneration
    BY <2>3 DEF GenerationForWork, ActivityTypeOK
  <2>4. QED
    BY <2>2, <2>3
<1>4. marker' \in [Work -> [generation : Nat, expires : Nat]]
  BY <1>2, LifetimesAssumption DEF ActivityTypeOK, GenerationForWork
<1>5. QED
  BY <1>2, <1>3, <1>4 DEF ActivityTypeOK, GenerationForWork

\* Binding gives a registered account without a generation the next one, and
\* leaves every other account as it is.
LEMMA GivenGeneration ==
  ASSUME ActivityTypeOK, NEW w \in Work, GenerationForWork(w)
  PROVE  /\ account'.generation = CurrentGeneration
         /\ account'.reported = account.reported
         /\ visitSequence' = IF NeedsGeneration THEN visitSequence + 1 ELSE visitSequence
         /\ ~NeedsGeneration => account' = account
<1>1. CASE NeedsGeneration
  <2> DEFINE e == IF account.expires = 0 THEN now + StateTTL ELSE account.expires
  <2>1. account' = [[account EXCEPT !.generation = visitSequence'] EXCEPT !.expires = e]
        /\ visitSequence' = visitSequence + 1
    BY <1>1 DEF GenerationForWork
  <2> HIDE DEF e
  <2>2. QED
    BY <1>1, <2>1 DEF CurrentGeneration, ActivityTypeOK
<1>2. CASE ~NeedsGeneration
  BY <1>2 DEF GenerationForWork, CurrentGeneration
<1>3. QED
  BY <1>1, <1>2

LEMMA TickType ==
  ASSUME ActivityTypeOK, Tick
  PROVE  ActivityTypeOK'
  BY DEF ActivityTypeOK, Tick, NoSession, NoAccount, NoMarker, ActivityState

LEMMA AccountNextType ==
  ASSUME ActivityTypeOK, AccountNext
  PROVE  ActivityTypeOK'
<1>1. CASE \E s \in Session, n \in Sequence : RecordActivity(s, n)
  BY <1>1, RecordActivityType
<1>2. CASE \E r \in BOOLEAN : SetRegistered(r)
  BY <1>2 DEF SetRegistered, ActivityTypeOK
<1>3. CASE Tick
  BY <1>3, TickType
<1>4. QED
  BY <1>1, <1>2, <1>3 DEF AccountNext

\* What the scripts write to the sorted sets stays a score.
LEMMA PrunedType ==
  ASSUME TypeOK
  PROVE  Pruned(score) \in [Work -> Nat] /\ ForgetPruned(Pruned(score)) \in [Work -> Nat]
  BY DEF TypeOK, Pruned, ForgetPruned, Absent

LEMMA InitType == Init => TypeOK
  BY BoundsAssumption DEF Init, ActivityInit, TypeOK, ActivityTypeOK, NoSession,
     NoAccount, NoMarker, ActivityState, TaskState, Stamp, Idle, Never, Absent,
     Nonurgent, Histories

LEMMA NextType == TypeOK /\ [Next]_vars => TypeOK'
<1> SUFFICES ASSUME TypeOK, [Next]_vars
             PROVE  TypeOK'
  OBVIOUS
<1>1. CASE AccountStep
  <2>1. ActivityTypeOK'
    BY <1>1, AccountNextType DEF AccountStep, TypeOK
  <2>2. QED
    BY <1>1, <2>1 DEF AccountStep, TypeOK
<1>2. ASSUME NEW k \in Task, TaskStep(k)
      PROVE  TypeOK'
  <2>1. ASSUME NEW w \in Work, Bind(k, w)
        PROVE  TypeOK'
    <3>1. ActivityTypeOK' /\ WorkGeneration(w) \in Nat
      BY <2>1, GenerationForWorkType DEF Bind, TypeOK
    <3>2. task' \in [Task -> TaskState]
      BY <2>1, <3>1 DEF Bind, TypeOK, TaskState
    <3>3. firstBound' \in [Work -> Stamp]
      BY <2>1, <3>1 DEF Bind, TypeOK, ActivityTypeOK, Stamp
    <3>4. QED
      BY <2>1, <3>1, <3>2, <3>3 DEF Bind, TypeOK
  <2>2. CASE FindDevices(k)
    <3>1. task' \in [Task -> TaskState]
      BY <2>2 DEF FindDevices, TypeOK, TaskState, Idle
    <3>2. QED
      BY <2>2, <3>1 DEF FindDevices, TypeOK, ActivityTypeOK, activityVars
  <2>3. CASE Reserve(k)
    <3>1. task[k] # Idle /\ task[k].work \in Work
      BY <2>3 DEF Reserve, TypeOK, TaskState, Idle
    <3>2. task' \in [Task -> TaskState]
      BY <2>3 DEF Reserve, TypeOK, TaskState, Idle
    <3>3. score' \in [Work -> Nat] /\ reservedGen' \in [Work -> Nat]
      BY <2>3, <3>1, PrunedType DEF Reserve, TypeOK, ActivityTypeOK
    <3>4. ActivityTypeOK'
      BY <2>3 DEF Reserve, TypeOK, ActivityTypeOK
    <3>5. charged' \in SUBSET Nonurgent
      BY <2>3 DEF Reserve, TypeOK
    <3>6. QED
      BY <2>3, <3>2, <3>3, <3>4, <3>5 DEF Reserve, TypeOK
  <2>4. CASE Refuse(k)
    <3>1. task' \in [Task -> TaskState]
      BY <2>4 DEF Refuse, TypeOK, TaskState
    <3>2. QED
      BY <2>4, <3>1, PrunedType DEF Refuse, TypeOK, ActivityTypeOK, activityVars
  <2>5. CASE ValidateAndSend(k)
    <3>1. task[k].work \in Work
      BY <2>5 DEF ValidateAndSend, TypeOK, TaskState, Idle
    <3>2. task' \in [Task -> TaskState]
      BY <2>5 DEF ValidateAndSend, TypeOK, TaskState
    <3>3. sent' \in [Work -> Stamp] /\ score' \in [Work -> Nat]
      BY <2>5, <3>1 DEF ValidateAndSend, TypeOK, ActivityTypeOK, Stamp
    <3>4. QED
      BY <2>5, <3>2, <3>3 DEF ValidateAndSend, TypeOK, ActivityTypeOK, activityVars
  <2>6. CASE Invalidate(k) \/ Abandon(k)
    <3>1. task' \in [Task -> TaskState]
      BY <2>6 DEF Invalidate, Abandon, TypeOK, TaskState
    <3>2. QED
      BY <2>6, <3>1 DEF Invalidate, Abandon, TypeOK, ActivityTypeOK, activityVars
  <2>7. QED
    BY <1>2, <2>1, <2>2, <2>3, <2>4, <2>5, <2>6 DEF TaskStep
<1>3. CASE UNCHANGED vars
  BY <1>3 DEF vars, activityVars, budgetVars, TypeOK, ActivityTypeOK
<1>4. QED
  BY <1>1, <1>2, <1>3 DEF Next

\* Every variable keeps its type, whatever the constants.
THEOREM TypeCorrect == Spec => []TypeOK
<1>1. QED
  BY InitType, NextType, PTL DEF Spec

-----------------------------------------------------------------------------
(* The gap between nonurgent pushes.  GapKept alone is not inductive: that  *)
(* ValidateAndSend finds no recent member in the sorted set says nothing of *)
(* what was sent.  What carries it is that a push of less than a day ago is *)
(* still in the set, scored no earlier than it was sent.                    *)

ScoresNotAhead == \A w \in Work : score[w] <= now

RecentSendsScored ==
  \A w \in Nonurgent : WasSent(w) => \/ sent[w].at <= score[w]
                                     \/ sent[w].at + Day <= now

SendsNotAhead == \A w \in Work : sent[w].at <= now

GapInvariant ==
  TypeOK /\ ScoresNotAhead /\ SendsNotAhead /\ RecentSendsScored /\ GapKept

\* Pruning keeps every score or forgets one of a day ago.
LEMMA PrunedScores ==
  ASSUME TypeOK, NEW w \in Work
  PROVE  Pruned(score)[w] = score[w] \/ (Pruned(score)[w] = 0 /\ score[w] + Day <= now)
  BY BudgetAssumption DEF Pruned, TypeOK, ActivityTypeOK, Absent

LEMMA ClockMovesForward ==
  ASSUME ActivityTypeOK, AccountNext
  PROVE  now <= now'
  BY DEF AccountNext, RecordActivity, SetRegistered, Tick, ActivityTypeOK

LEMMA GapInit == Init => GapInvariant
<1> SUFFICES ASSUME Init PROVE GapInvariant
  OBVIOUS
<1>1. \A w \in Work : sent[w].at = 0 /\ score[w] = 0
  BY DEF Init, Never, Absent
<1>2. TypeOK
  BY InitType
<1>3. QED
  BY <1>1, <1>2 DEF GapInvariant, ScoresNotAhead, SendsNotAhead, RecentSendsScored,
     GapKept, WasSent, Nonurgent, TypeOK, ActivityTypeOK

\* A step that submits nothing and rescores nobody but prunes at most, while
\* the clock may move, keeps the invariant.
LEMMA GapQuiet ==
  ASSUME GapInvariant, TypeOK', now <= now', sent' = sent,
         \A w \in Work : \/ score'[w] = score[w]
                         \/ score'[w] = now
                         \/ score'[w] = 0 /\ score[w] + Day <= now
  PROVE  GapInvariant'
<1>0. /\ now \in Nat /\ now' \in Nat /\ Day \in Nat
      /\ \A w \in Work : /\ score[w] \in Nat /\ score'[w] \in Nat
                         /\ sent[w].at \in Nat
  BY BudgetAssumption DEF GapInvariant, TypeOK, ActivityTypeOK, Stamp
<1>1. ScoresNotAhead' /\ SendsNotAhead'
  BY <1>0 DEF GapInvariant, ScoresNotAhead, SendsNotAhead
<1>2. RecentSendsScored'
  <2> SUFFICES ASSUME NEW w \in Nonurgent, WasSent(w)'
               PROVE  sent'[w].at <= score'[w] \/ sent'[w].at + Day <= now'
    BY DEF RecentSendsScored
  <2>1. w \in Work /\ WasSent(w)
    BY DEF Nonurgent, WasSent
  <2>2. sent[w].at <= score[w] \/ sent[w].at + Day <= now
    BY <2>1 DEF GapInvariant, RecentSendsScored
  <2>3. sent[w].at <= now
    BY <2>1 DEF GapInvariant, SendsNotAhead
  <2>4. CASE score'[w] = score[w] \/ score'[w] = now
    BY <1>0, <2>1, <2>2, <2>3, <2>4
  <2>5. CASE score'[w] = 0 /\ score[w] + Day <= now
    BY <1>0, <2>1, <2>2, <2>5
  <2>6. QED
    BY <2>1, <2>4, <2>5
<1>3. GapKept'
  BY DEF GapInvariant, GapKept, WasSent
<1>4. QED
  BY <1>1, <1>2, <1>3 DEF GapInvariant

\* The push of a valid reservation is a gap away from every other one.
LEMMA GapSend ==
  ASSUME GapInvariant, TypeOK', NEW k \in Task, ValidateAndSend(k)
  PROVE  GapInvariant'
<1> DEFINE w == task[k].work
<1>1. w \in Work /\ Valid(w, task[k].generation)
  BY DEF ValidateAndSend, GapInvariant, TypeOK, TaskState, Idle
<1>2. /\ score' = [score EXCEPT ![w] = now]
      /\ sent' = [sent EXCEPT ![w] = [at |-> now, generation |-> account.generation]]
      /\ now' = now
  BY DEF ValidateAndSend, activityVars
<1> HIDE DEF w
<1>3. \A v \in Work : v # w => sent'[v] = sent[v] /\ score'[v] = score[v]
  BY <1>2 DEF GapInvariant, TypeOK
<1>4. sent'[w].at = now /\ score'[w] = now
  BY <1>1, <1>2 DEF GapInvariant, TypeOK
<1> USE DEF GapInvariant, TypeOK, ActivityTypeOK, Stamp
<1>5. ScoresNotAhead' /\ SendsNotAhead' /\ RecentSendsScored'
  BY <1>2, <1>3, <1>4 DEF ScoresNotAhead, SendsNotAhead, RecentSendsScored, WasSent, Nonurgent
<1>6. ASSUME NEW v \in Nonurgent, v # w, w \in Nonurgent, WasSent(v)
      PROVE  sent[v].at + MinInterval <= now
  <2>1. v \in Work
    BY DEF Nonurgent
  <2>2. sent[v].at \in Nat /\ score[v] \in Nat /\ now \in Nat /\ MinInterval \in Nat /\ Day \in Nat
    BY <2>1, BudgetAssumption
  <2>3. CASE sent[v].at + Day <= now
    BY <2>2, <2>3, RetentionAssumption
  <2>4. CASE sent[v].at <= score[v]
    <3>1. v \in Members(score, Nonurgent) \ {w}
      BY <1>6, <2>2, <2>4 DEF Members, WasSent, Absent
    <3>2. ~CoolingDown(score, w)
      BY <1>1, <1>6 DEF Valid
    <3>3. score[v] + MinInterval <= now
      BY <2>2, <3>1, <3>2 DEF CoolingDown
    <3>4. QED
      BY <2>2, <2>4, <3>3
  <2>5. QED
    BY <1>6, <2>3, <2>4 DEF RecentSendsScored
<1>7. GapKept'
  <2> SUFFICES ASSUME NEW u \in Nonurgent, NEW v \in Nonurgent, u # v,
                      WasSent(u)', WasSent(v)'
               PROVE  \/ sent'[u].at + MinInterval <= sent'[v].at
                      \/ sent'[v].at + MinInterval <= sent'[u].at
    BY DEF GapKept
  <2>1. u \in Work /\ v \in Work
    BY DEF Nonurgent
  <2>2. CASE u = w
    BY <1>3, <1>4, <1>6, <2>1, <2>2 DEF WasSent
  <2>3. CASE v = w
    BY <1>3, <1>4, <1>6, <2>1, <2>3 DEF WasSent
  <2>4. CASE u # w /\ v # w
    BY <1>3, <2>1, <2>4 DEF WasSent, GapKept
  <2>5. QED
    BY <2>2, <2>3, <2>4
<1>8. QED
  BY <1>5, <1>7

LEMMA GapNext == GapInvariant /\ [Next]_vars => GapInvariant'
<1> SUFFICES ASSUME GapInvariant, [Next]_vars
             PROVE  GapInvariant'
  OBVIOUS
<1>1. TypeOK /\ TypeOK'
  BY NextType DEF GapInvariant
<1>2. CASE AccountStep
  <2>1. now <= now' /\ sent' = sent /\ score' = score
    BY <1>1, <1>2, ClockMovesForward DEF AccountStep, TypeOK
  <2>2. QED
    BY <1>1, <2>1, GapQuiet
<1>3. ASSUME NEW k \in Task, TaskStep(k)
      PROVE  GapInvariant'
  <2>1. CASE ValidateAndSend(k)
    BY <1>1, <2>1, GapSend
  <2>2. CASE Reserve(k)
    <3>1. now' = now /\ sent' = sent /\ task[k].work \in Work
          /\ score' = [Pruned(score) EXCEPT ![task[k].work] = now]
      BY <1>1, <2>2 DEF Reserve, TypeOK, TaskState, Idle
    <3>2. \A v \in Work : score'[v] = now \/ score'[v] = Pruned(score)[v]
      BY <1>1, <3>1, PrunedType
    <3>3. QED
      BY <1>1, <3>1, <3>2, PrunedScores, GapQuiet DEF TypeOK, ActivityTypeOK
  <2>3. CASE Refuse(k)
    <3>1. now' = now /\ sent' = sent /\ score' = Pruned(score)
      BY <2>3 DEF Refuse, activityVars
    <3>2. QED
      BY <1>1, <3>1, PrunedScores, GapQuiet DEF TypeOK, ActivityTypeOK
  <2>4. CASE (\E w \in Work : Bind(k, w)) \/ FindDevices(k) \/ Invalidate(k) \/ Abandon(k)
    <3>1. now' = now /\ sent' = sent /\ score' = score
      BY <2>4 DEF Bind, GenerationForWork, FindDevices, Invalidate, Abandon, activityVars
    <3>2. QED
      BY <1>1, <3>1, GapQuiet DEF TypeOK, ActivityTypeOK
  <2>5. QED
    BY <1>3, <2>1, <2>2, <2>3, <2>4 DEF TaskStep
<1>4. CASE UNCHANGED vars
  <2>1. now' = now /\ sent' = sent /\ score' = score
    BY <1>4 DEF vars, activityVars, budgetVars
  <2>2. QED
    BY <1>1, <2>1, GapQuiet DEF TypeOK, ActivityTypeOK
<1>5. QED
  BY <1>2, <1>3, <1>4 DEF Next

\* Two nonurgent notifications are never submitted closer than the gap, for
\* any number of tasks, provided reservations are kept at least that long.
THEOREM GapIsKept == Spec => []GapKept
<1>1. GapInvariant => GapKept
  BY DEF GapInvariant
<1>2. QED
  BY <1>1, GapInit, GapNext, PTL DEF Spec

-----------------------------------------------------------------------------
(* The absence allowance.  The count kept with the account says nothing of  *)
(* which pushes it counts.  What carries AbsenceCapKept is that everything   *)
(* sent, or still reserved, under the current generation has been charged.  *)

\* Generations come from the sequence, so that the next one is fresh.
GenerationsIssued ==
  /\ account.generation <= visitSequence
  /\ \A w \in Work : /\ sent[w].generation <= visitSequence
                     /\ reservedGen[w] <= visitSequence

\* A session without retained state has reported no visit, and an account that
\* does not report retains no session: its next report opens a new visit.
UnreportedHasNoVisits ==
  /\ \A s \in Session : session[s].expires = 0 => session[s].visit = 0
  /\ \A s \in Session : session[s].expires # 0 =>
       /\ account.reported
       /\ session[s].expires < account.expires
       /\ session[s].expires <= now + SessionTTL
  /\ account.reported => account.generation # 0

ChargesCounted ==
  account.reported => /\ Cardinality(charged) <= account.used
                      /\ account.used <= AbsenceCap

ReservedIsCharged ==
  account.reported => \A w \in Nonurgent :
    score[w] # 0 /\ reservedGen[w] = account.generation => w \in charged

SentIsCharged ==
  account.reported => \A w \in Nonurgent :
    WasSent(w) /\ sent[w].generation = account.generation => w \in charged

AllowanceInvariant ==
  /\ TypeOK
  /\ GenerationsIssued
  /\ UnreportedHasNoVisits
  /\ ChargesCounted
  /\ ReservedIsCharged
  /\ SentIsCharged

\* Every report but the very first of a session's history belongs to a visit,
\* and the first opens one.
LEMMA VisitsStartAtOne ==
  ASSUME ActivityTypeOK, NEW s \in Session, NEW n \in Sequence
  PROVE  VisitOf(s, n) >= 1
<1>1. n \in Nat /\ 1 <= n /\ 1 \in Sequence /\ MaxSequence \in Nat
  BY BoundsAssumption DEF Sequence
<1>2. history[s][1] = "foreground"
  BY <1>1 DEF ActivityTypeOK, Histories
<1>3. Opens(s, 1)
  BY <1>2 DEF Opens
<1> DEFINE V == {i \in 1..n : Opens(s, i)}
<1>4. 1 \in V
  BY <1>1, <1>3
<1>5. IsFiniteSet(V)
  <2>1. IsFiniteSet(1..n)
    BY <1>1, FS_Interval
  <2>2. QED
    BY <2>1, FS_Subset
<1>6. Cardinality(V) \in Nat /\ Cardinality(V) # 0
  BY <1>4, <1>5, FS_CardinalityType, FS_EmptySet
<1>7. QED
  BY <1>6 DEF VisitOf

LEMMA ChargedFinite ==
  ASSUME TypeOK
  PROVE  IsFiniteSet(charged) /\ Cardinality(charged) \in Nat
<1>1. charged \in SUBSET Work
  BY DEF TypeOK, Nonurgent
<1>2. IsFiniteSet(charged)
  BY <1>1, FiniteWorkAssumption, FS_Subset
<1>3. QED
  BY <1>2, FS_CardinalityType

LEMMA AllowanceInit == Init => AllowanceInvariant
<1> SUFFICES ASSUME Init PROVE AllowanceInvariant
  OBVIOUS
<1>1. TypeOK
  BY InitType
<1>2. /\ account.reported = FALSE /\ account.generation = 0 /\ visitSequence = 0
      /\ \A s \in Session : session[s].expires = 0 /\ session[s].visit = 0
      /\ \A w \in Work : sent[w].generation = 0 /\ reservedGen[w] = 0
  BY DEF Init, ActivityInit, NoAccount, NoSession, Never
<1>3. QED
  BY <1>1, <1>2 DEF AllowanceInvariant, GenerationsIssued, UnreportedHasNoVisits,
     ChargesCounted, ReservedIsCharged, SentIsCharged

\* The facts about types that the steps below need, in a form for arithmetic.
LEMMA AllowanceTypes ==
  ASSUME TypeOK
  PROVE  /\ now \in Nat /\ now # 0
         /\ account.generation \in Nat /\ account.used \in Nat
         /\ account.expires \in Nat /\ visitSequence \in Nat
         /\ \A s \in Session : session[s].expires \in Nat /\ session[s].visit \in Nat
         /\ \A w \in Work : /\ score[w] \in Nat /\ reservedGen[w] \in Nat
                            /\ sent[w].generation \in Nat /\ sent[w].at \in Nat
         /\ Nonurgent \subseteq Work
         /\ AbsenceCap \in Nat /\ AbsenceCap # 0
         /\ SessionTTL \in Nat /\ SessionTTL # 0 /\ StateTTL \in Nat /\ SessionTTL < StateTTL
  BY BudgetAssumption, LifetimesAssumption DEF TypeOK, ActivityTypeOK, Stamp, Nonurgent

\* A report either opens a visit, with a fresh generation and nothing charged,
\* or comes from a reporting account and leaves its allowance alone.
LEMMA AllowanceRecordActivity ==
  ASSUME AllowanceInvariant, TypeOK', NEW s \in Session, NEW n \in Sequence,
         RecordActivity(s, n), UNCHANGED <<score, reservedGen, sent>>,
         charged' = IF account'.generation # account.generation THEN {} ELSE charged
  PROVE  AllowanceInvariant'
<1>1. TypeOK
  BY DEF AllowanceInvariant
<1>2. VisitOf(s, n) >= 1 /\ VisitOf(s, n) \in Nat
  BY <1>1, VisitsStartAtOne, VisitOfType, BoundsAssumption DEF TypeOK, Sequence
<1>3. /\ account'.reported = TRUE
      /\ account'.expires = now + StateTTL
      /\ now' = now
      /\ session'[s].expires = now + SessionTTL
      /\ session'[s].visit = VisitOf(s, n)
      /\ \A o \in Session : o # s => session'[o] = session[o]
  BY <1>1 DEF RecordActivity, TypeOK, ActivityTypeOK
<1>4. UnreportedHasNoVisits'
  <2>1. account'.generation # 0
    <3>1. CASE NewVisit(s, n)
      BY <1>1, <3>1, AllowanceTypes DEF RecordActivity
    <3>2. CASE ~NewVisit(s, n)
      <4>1. session[s].visit # 0
        BY <1>1, <1>2, <3>2, AllowanceTypes DEF NewVisit
      <4>2. QED
        BY <3>2, <4>1 DEF RecordActivity, AllowanceInvariant, UnreportedHasNoVisits
    <3>3. QED
      BY <3>1, <3>2
  <2>2. \A o \in Session : session[o].expires # 0 => session[o].expires <= now + SessionTTL
    BY DEF AllowanceInvariant, UnreportedHasNoVisits
  <2>3. QED
    BY <1>1, <1>3, <2>1, <2>2, AllowanceTypes DEF AllowanceInvariant, UnreportedHasNoVisits
<1>5. CASE NewVisit(s, n)
  <2>1. /\ visitSequence' = visitSequence + 1
        /\ account'.generation = visitSequence + 1
        /\ account'.used = 0
    BY <1>5 DEF RecordActivity
  <2>2. charged' = {}
    BY <1>1, <2>1, AllowanceTypes DEF AllowanceInvariant, GenerationsIssued
  <2>3. Cardinality(charged') = 0
    BY <2>2, FS_EmptySet
  <2>4. \A w \in Work : sent'[w].generation # account'.generation
                        /\ reservedGen'[w] # account'.generation
    BY <1>1, <2>1, AllowanceTypes DEF AllowanceInvariant, GenerationsIssued
  <2>5. GenerationsIssued'
    BY <1>1, <2>1, AllowanceTypes DEF AllowanceInvariant, GenerationsIssued
  <2>6. ChargesCounted'
    BY <1>1, <2>1, <2>3, AllowanceTypes DEF ChargesCounted
  <2>7. ReservedIsCharged' /\ SentIsCharged'
    BY <1>1, <2>4, AllowanceTypes DEF ReservedIsCharged, SentIsCharged
  <2>8. QED
    BY <1>4, <2>5, <2>6, <2>7 DEF AllowanceInvariant
<1>6. CASE ~NewVisit(s, n)
  <2>1. account.reported
    <3>1. session[s].visit # 0
      BY <1>1, <1>2, <1>6, AllowanceTypes DEF NewVisit
    <3>2. QED
      BY <3>1 DEF AllowanceInvariant, UnreportedHasNoVisits
  <2>2. /\ visitSequence' = visitSequence
        /\ account'.generation = account.generation
        /\ account'.used = account.used
    BY <1>6 DEF RecordActivity
  <2>3. charged' = charged
    BY <2>2
  <2>4. GenerationsIssued'
    BY <2>2 DEF AllowanceInvariant, GenerationsIssued
  <2>5. ChargesCounted'
    BY <2>1, <2>2, <2>3 DEF AllowanceInvariant, ChargesCounted
  <2>6. ReservedIsCharged' /\ SentIsCharged'
    BY <2>1, <2>2, <2>3 DEF AllowanceInvariant, ReservedIsCharged, SentIsCharged, WasSent
  <2>7. QED
    BY <1>4, <2>4, <2>5, <2>6 DEF AllowanceInvariant
<1>7. QED
  BY <1>5, <1>6

\* As time passes a session's state never outlives the account's.
LEMMA AllowanceTick ==
  ASSUME AllowanceInvariant, TypeOK', Tick, UNCHANGED <<score, reservedGen, sent>>,
         charged' = IF account'.generation # account.generation THEN {} ELSE charged
  PROVE  AllowanceInvariant'
<1>1. TypeOK
  BY DEF AllowanceInvariant
<1>2. /\ now' = now + 1 /\ visitSequence' = visitSequence
      /\ \A s \in Session : session'[s] = IF session[s].expires <= now' THEN NoSession
                                          ELSE session[s]
  BY DEF Tick
<1>3. NoSession.expires = 0 /\ NoSession.visit = 0
  BY DEF NoSession
<1>4. CASE account.expires <= now'
  <2>1. account'.reported = FALSE /\ account'.generation = 0
    BY <1>4 DEF Tick, NoAccount
  <2>2. \A s \in Session : session'[s].expires = 0 /\ session'[s].visit = 0
    BY <1>1, <1>2, <1>3, <1>4, AllowanceTypes DEF AllowanceInvariant, UnreportedHasNoVisits
  <2>3. GenerationsIssued' /\ UnreportedHasNoVisits'
    BY <1>1, <1>2, <2>1, <2>2, AllowanceTypes
       DEF AllowanceInvariant, GenerationsIssued, UnreportedHasNoVisits
  <2>4. QED
    BY <2>1, <2>3 DEF AllowanceInvariant, ChargesCounted, ReservedIsCharged, SentIsCharged
<1>5. CASE ~(account.expires <= now')
  <2>1. account' = account /\ charged' = charged
    BY <1>5 DEF Tick
  <2>2. GenerationsIssued' /\ ChargesCounted' /\ ReservedIsCharged' /\ SentIsCharged'
    BY <1>2, <2>1 DEF AllowanceInvariant, GenerationsIssued, ChargesCounted,
       ReservedIsCharged, SentIsCharged, WasSent
  <2>3. UnreportedHasNoVisits'
    BY <1>1, <1>2, <1>3, <2>1, AllowanceTypes DEF AllowanceInvariant, UnreportedHasNoVisits
  <2>4. QED
    BY <2>2, <2>3 DEF AllowanceInvariant
<1>6. QED
  BY <1>4, <1>5

\* A step that leaves the account, its sessions and the stamps alone, and at
\* most forgets reservations, keeps the invariant.
LEMMA AllowanceQuiet ==
  ASSUME AllowanceInvariant, TypeOK',
         UNCHANGED <<now, session, account, visitSequence, sent, charged>>,
         \A w \in Work : \/ score'[w] = score[w] /\ reservedGen'[w] = reservedGen[w]
                         \/ score'[w] = 0 /\ reservedGen'[w] = 0
  PROVE  AllowanceInvariant'
<1>1. TypeOK
  BY DEF AllowanceInvariant
<1>2. GenerationsIssued' /\ UnreportedHasNoVisits' /\ ChargesCounted' /\ SentIsCharged'
  BY <1>1, AllowanceTypes DEF AllowanceInvariant, GenerationsIssued,
     UnreportedHasNoVisits, ChargesCounted, SentIsCharged, WasSent
<1>3. ReservedIsCharged'
  BY <1>1, AllowanceTypes DEF AllowanceInvariant, ReservedIsCharged
<1>4. QED
  BY <1>2, <1>3 DEF AllowanceInvariant

\* Binding gives a generation only to an account that does not report.
LEMMA AllowanceBind ==
  ASSUME AllowanceInvariant, TypeOK', NEW k \in Task, NEW w \in Work, Bind(k, w)
  PROVE  AllowanceInvariant'
<1>1. TypeOK
  BY DEF AllowanceInvariant
<1>2. UNCHANGED <<now, session, score, reservedGen, sent, charged>>
  BY DEF Bind, GenerationForWork
<1>3. CASE NeedsGeneration
  <2>1. visitSequence' = visitSequence + 1
    BY <1>3 DEF Bind, GenerationForWork
  <2>2. account'.generation = visitSequence + 1 /\ account'.reported = account.reported
    BY <1>1, <1>3, GivenGeneration DEF Bind, TypeOK, CurrentGeneration
  <2>3. ~account.reported
    BY <1>3 DEF NeedsGeneration, AllowanceInvariant, UnreportedHasNoVisits
  <2>4. GenerationsIssued' /\ UnreportedHasNoVisits'
    BY <1>1, <1>2, <2>1, <2>2, <2>3, AllowanceTypes
       DEF AllowanceInvariant, GenerationsIssued, UnreportedHasNoVisits
  <2>5. QED
    BY <2>2, <2>3, <2>4 DEF AllowanceInvariant, ChargesCounted, ReservedIsCharged, SentIsCharged
<1>4. CASE ~NeedsGeneration
  <2>1. account' = account /\ visitSequence' = visitSequence
    BY <1>4 DEF Bind, GenerationForWork
  <2>2. QED
    BY <1>2, <2>1, AllowanceQuiet
<1>5. QED
  BY <1>3, <1>4

\* A renewal was charged before; a new reservation is charged when it is made.
LEMMA AllowanceReserve ==
  ASSUME AllowanceInvariant, TypeOK', NEW k \in Task, Reserve(k)
  PROVE  AllowanceInvariant'
<1> DEFINE w == task[k].work
           sc == Pruned(score)
           charge == sc[w] = Absent /\ w \in Nonurgent /\ account.reported
<1>1. TypeOK
  BY DEF AllowanceInvariant
<1>2. /\ w \in Work
      /\ RenewAllowed(sc, w) \/ NewAllowed(sc, w)
      /\ score' = [sc EXCEPT ![w] = now]
      /\ reservedGen' = [ForgetPruned(sc) EXCEPT ![w] = account.generation]
      /\ account' = IF charge THEN [account EXCEPT !.used = account.used + 1] ELSE account
      /\ charged' = IF charge THEN charged \cup {w} ELSE charged
      /\ UNCHANGED <<now, session, visitSequence, sent>>
  BY <1>1 DEF Reserve, ReserveAllowed, TypeOK, TaskState, Idle
<1>3. /\ account'.generation = account.generation
      /\ account'.reported = account.reported
      /\ account'.expires = account.expires
      /\ account'.used = IF charge THEN account.used + 1 ELSE account.used
  BY <1>1, <1>2 DEF TypeOK, ActivityTypeOK
<1>4. \A o \in Work : o # w => \/ score'[o] = score[o] /\ reservedGen'[o] = reservedGen[o]
                               \/ score'[o] = 0 /\ reservedGen'[o] = 0
  <2>1. SUFFICES ASSUME NEW o \in Work, o # w
                 PROVE  \/ score'[o] = score[o] /\ reservedGen'[o] = reservedGen[o]
                        \/ score'[o] = 0 /\ reservedGen'[o] = 0
    OBVIOUS
  <2>2. score'[o] = sc[o] /\ reservedGen'[o] = ForgetPruned(sc)[o]
    BY <1>1, <1>2, <2>1, PrunedType
  <2>3. ForgetPruned(sc)[o] = IF sc[o] = 0 THEN 0 ELSE reservedGen[o]
    BY DEF ForgetPruned, Absent
  <2>4. sc[o] = 0 \/ sc[o] = score[o]
    BY <1>1, PrunedScores
  <2>5. QED
    BY <2>2, <2>3, <2>4
<1>5. reservedGen'[w] = account.generation
  BY <1>1, <1>2, PrunedType
<1>6. sc[w] = 0 \/ sc[w] = score[w]
  BY <1>1, <1>2, PrunedScores
<1> HIDE DEF w, sc
<1>7. GenerationsIssued' /\ UnreportedHasNoVisits'
  BY <1>1, <1>2, <1>3, <1>4, <1>5, AllowanceTypes
     DEF AllowanceInvariant, GenerationsIssued, UnreportedHasNoVisits
<1>8. SentIsCharged'
  BY <1>1, <1>2, <1>3 DEF AllowanceInvariant, SentIsCharged, WasSent
<1>9. w \in Nonurgent /\ account.reported => w \in charged'
  <2>1. CASE sc[w] = Absent
    BY <1>2, <2>1
  <2>2. CASE sc[w] # Absent
    <3>1. reservedGen[w] = account.generation
      BY <1>2, <2>2 DEF RenewAllowed, NewAllowed
    <3>2. w \in Nonurgent /\ account.reported => w \in charged
      BY <1>6, <2>2, <3>1 DEF AllowanceInvariant, ReservedIsCharged, Absent
    <3>3. QED
      BY <1>2, <3>2
  <2>3. QED
    BY <2>1, <2>2
<1>10. ReservedIsCharged'
  <2>1. charged \subseteq charged'
    BY <1>2
  <2>2. QED
    BY <1>1, <1>3, <1>4, <1>9, <2>1, AllowanceTypes DEF AllowanceInvariant, ReservedIsCharged
<1>11. ChargesCounted'
  <2>1. CASE charge
    <3>1. charged' = charged \cup {w} /\ account'.used = account.used + 1
      BY <1>2, <1>3, <2>1
    <3>2. account.used < AbsenceCap
      BY <1>2, <2>1 DEF NewAllowed, RenewAllowed, AllowanceUsed
    <3>3. Cardinality(charged') <= Cardinality(charged) + 1
      BY <1>1, <3>1, ChargedFinite, FS_AddElement
    <3>4. Cardinality(charged') \in Nat
      BY ChargedFinite, <1>1, <3>1, FS_AddElement, FS_CardinalityType
    <3>5. QED
      BY <1>1, <2>1, <3>1, <3>2, <3>3, <3>4, ChargedFinite, AllowanceTypes
         DEF AllowanceInvariant, ChargesCounted
  <2>2. CASE ~charge
    BY <1>2, <1>3, <2>2 DEF AllowanceInvariant, ChargesCounted
  <2>3. QED
    BY <2>1, <2>2
<1>12. QED
  BY <1>7, <1>8, <1>10, <1>11 DEF AllowanceInvariant

\* Only what is reserved under the current generation is submitted.
LEMMA AllowanceSend ==
  ASSUME AllowanceInvariant, TypeOK', NEW k \in Task, ValidateAndSend(k)
  PROVE  AllowanceInvariant'
<1> DEFINE w == task[k].work
<1>1. TypeOK
  BY DEF AllowanceInvariant
<1>2. /\ w \in Work /\ score[w] # 0 /\ reservedGen[w] = account.generation
      /\ score' = [score EXCEPT ![w] = now]
      /\ sent' = [sent EXCEPT ![w] = [at |-> now, generation |-> account.generation]]
      /\ UNCHANGED <<now, session, account, visitSequence, reservedGen, charged>>
  BY <1>1 DEF ValidateAndSend, Valid, activityVars, TypeOK, TaskState, Idle, Absent
<1> HIDE DEF w
<1>3. \A o \in Work : o # w => score'[o] = score[o] /\ sent'[o] = sent[o]
  BY <1>1, <1>2 DEF TypeOK
<1>4. sent'[w].generation = account.generation
  BY <1>1, <1>2 DEF TypeOK
<1>5. w \in Nonurgent /\ account.reported => w \in charged
  BY <1>2 DEF AllowanceInvariant, ReservedIsCharged
<1>6. GenerationsIssued' /\ UnreportedHasNoVisits' /\ ChargesCounted'
  BY <1>1, <1>2, <1>3, <1>4, AllowanceTypes
     DEF AllowanceInvariant, GenerationsIssued, UnreportedHasNoVisits, ChargesCounted
<1>7. ReservedIsCharged' /\ SentIsCharged'
  BY <1>1, <1>2, <1>3, <1>5, AllowanceTypes
     DEF AllowanceInvariant, ReservedIsCharged, SentIsCharged, WasSent
<1>8. QED
  BY <1>6, <1>7 DEF AllowanceInvariant

LEMMA AllowanceNext == AllowanceInvariant /\ [Next]_vars => AllowanceInvariant'
<1> SUFFICES ASSUME AllowanceInvariant, [Next]_vars
             PROVE  AllowanceInvariant'
  OBVIOUS
<1>1. TypeOK /\ TypeOK'
  BY NextType DEF AllowanceInvariant
<1>2. CASE AccountStep
  <2>1. UNCHANGED <<score, reservedGen, sent>>
        /\ charged' = IF account'.generation # account.generation THEN {} ELSE charged
    BY <1>2 DEF AccountStep
  <2>2. CASE \E s \in Session, n \in Sequence : RecordActivity(s, n)
    BY <1>1, <2>1, <2>2, AllowanceRecordActivity
  <2>3. CASE \E r \in BOOLEAN : SetRegistered(r)
    <3>1. UNCHANGED <<now, session, account, visitSequence>>
      BY <2>3 DEF SetRegistered
    <3>2. QED
      BY <1>1, <2>1, <3>1, AllowanceQuiet
  <2>4. CASE Tick
    BY <1>1, <2>1, <2>4, AllowanceTick
  <2>5. QED
    BY <1>2, <2>2, <2>3, <2>4 DEF AccountStep, AccountNext
<1>3. ASSUME NEW k \in Task, TaskStep(k)
      PROVE  AllowanceInvariant'
  <2>1. CASE \E w \in Work : Bind(k, w)
    BY <1>1, <2>1, AllowanceBind
  <2>2. CASE Reserve(k)
    BY <1>1, <2>2, AllowanceReserve
  <2>3. CASE ValidateAndSend(k)
    BY <1>1, <2>3, AllowanceSend
  <2>4. CASE Refuse(k)
    <3>1. /\ UNCHANGED <<now, session, account, visitSequence, sent, charged>>
          /\ score' = Pruned(score) /\ reservedGen' = ForgetPruned(Pruned(score))
      BY <2>4 DEF Refuse, activityVars
    <3>2. \A w \in Work : reservedGen'[w] = IF score'[w] = 0 THEN 0 ELSE reservedGen[w]
      BY <3>1 DEF ForgetPruned, Absent
    <3>3. \A w \in Work : score'[w] = score[w] \/ score'[w] = 0
      BY <1>1, <3>1, PrunedScores
    <3>4. QED
      BY <1>1, <3>1, <3>2, <3>3, AllowanceQuiet
  <2>5. CASE FindDevices(k) \/ Invalidate(k) \/ Abandon(k)
    <3>1. UNCHANGED <<activityVars, score, reservedGen, sent, charged>>
      BY <2>5 DEF FindDevices, Invalidate, Abandon
    <3>2. QED
      BY <1>1, <3>1, AllowanceQuiet DEF activityVars
  <2>6. QED
    BY <1>3, <2>1, <2>2, <2>3, <2>4, <2>5 DEF TaskStep
<1>4. CASE UNCHANGED vars
  BY <1>1, <1>4, AllowanceQuiet DEF vars, activityVars, budgetVars
<1>5. QED
  BY <1>2, <1>3, <1>4 DEF Next

\* Between two visits a reporting account gets at most absence_cap nonurgent
\* notifications, however many tasks and replicas work for it.
THEOREM AbsenceCapIsKept == Spec => []AbsenceCapKept
<1>1. AllowanceInvariant => AbsenceCapKept
  <2> SUFFICES ASSUME AllowanceInvariant, account.reported
               PROVE  Cardinality({w \in Nonurgent : WasSent(w)
                        /\ sent[w].generation = account.generation}) <= AbsenceCap
    BY DEF AbsenceCapKept
  <2> DEFINE S == {w \in Nonurgent : WasSent(w) /\ sent[w].generation = account.generation}
  <2>1. S \subseteq charged
    BY DEF AllowanceInvariant, SentIsCharged
  <2>2. TypeOK
    BY DEF AllowanceInvariant
  <2>3. Cardinality(S) <= Cardinality(charged) /\ Cardinality(S) \in Nat
    BY <2>1, <2>2, ChargedFinite, FS_Subset, FS_CardinalityType
  <2>4. QED
    BY <2>2, <2>3, ChargedFinite, AllowanceTypes DEF AllowanceInvariant, ChargesCounted
<1>2. QED
  BY <1>1, AllowanceInit, AllowanceNext, PTL DEF Spec
-----------------------------------------------------------------------------
(* Pushes and visits.  A notification that has been attempted keeps its     *)
(* marker for as long as it may be attempted again.  An attempt that was    *)
(* bound while the account had no device left no marker; if another attempt *)
(* got a different generation, the first one's will never be current again. *)

MarkersIssued ==
  /\ account.generation <= visitSequence
  /\ \A w \in Work : marker[w].generation <= visitSequence
  /\ \A k \in Task : task[k] # Idle => task[k].generation <= visitSequence

MarkerKeepsFirst ==
  \A w \in Work :
    /\ marker[w].expires # 0 => /\ firstBound[w] # Never
                                /\ marker[w].generation = firstBound[w].generation
    /\ firstBound[w] # Never => \/ firstBound[w].at + WorkTTL <= marker[w].expires
                                \/ firstBound[w].at + WorkTTL <= now

AttemptsKeepFirst ==
  \A w \in Work, k \in Task :
    firstBound[w] # Never /\ task[k] # Idle /\ task[k].work = w
      => \/ task[k].generation = firstBound[w].generation
         \/ task[k].generation # account.generation

FirstNotAhead == \A w \in Work : firstBound[w].at <= now

BindingInvariant ==
  TypeOK /\ FirstNotAhead /\ MarkersIssued /\ MarkerKeepsFirst /\ AttemptsKeepFirst

\* The facts about types that the steps below need, in a form for arithmetic.
LEMMA BindingTypes ==
  ASSUME TypeOK
  PROVE  /\ now \in Nat /\ now # 0
         /\ account.generation \in Nat /\ visitSequence \in Nat
         /\ WorkTTL \in Nat /\ WorkTTL # 0 /\ RetryHorizon \in Nat /\ RetryHorizon < WorkTTL
         /\ \A w \in Work : /\ marker[w].generation \in Nat /\ marker[w].expires \in Nat
                            /\ firstBound[w].at \in Nat /\ firstBound[w].generation \in Nat
         /\ \A k \in Task : task[k] # Idle => task[k].generation \in Nat /\ task[k].work \in Work
  BY BudgetAssumption, LifetimesAssumption, RetentionAssumption
     DEF TypeOK, ActivityTypeOK, Stamp, TaskState, Idle

LEMMA BindingInit == Init => BindingInvariant
<1> SUFFICES ASSUME Init PROVE BindingInvariant
  OBVIOUS
<1>1. TypeOK
  BY InitType
<1>2. /\ account.generation = 0 /\ visitSequence = 0
      /\ \A w \in Work : /\ marker[w].generation = 0 /\ marker[w].expires = 0
                         /\ firstBound[w] = Never
      /\ \A k \in Task : task[k] = Idle
  BY DEF Init, ActivityInit, NoAccount, NoMarker
<1>3. QED
  BY <1>1, <1>2, BindingTypes DEF BindingInvariant, MarkersIssued, MarkerKeepsFirst,
     AttemptsKeepFirst, FirstNotAhead, Never

\* A generation changes to none or to one that was never issued.
LEMMA GenerationMoves ==
  ASSUME TypeOK, AccountNext
  PROVE  /\ \/ account'.generation = account.generation
            \/ account'.generation = 0
            \/ account'.generation = visitSequence' /\ visitSequence' = visitSequence + 1
         /\ visitSequence' = visitSequence \/ visitSequence' = visitSequence + 1
<1>1. CASE \E s \in Session, n \in Sequence : RecordActivity(s, n)
  BY <1>1, BindingTypes DEF RecordActivity
<1>2. CASE \E r \in BOOLEAN : SetRegistered(r)
  BY <1>2 DEF SetRegistered
<1>3. CASE Tick
  BY <1>3 DEF Tick, NoAccount
<1>4. QED
  BY <1>1, <1>2, <1>3 DEF AccountNext

\* A marker goes away only when it expires.
LEMMA MarkersOutlive ==
  ASSUME TypeOK, AccountNext, NEW w \in Work
  PROVE  /\ now' >= now
         /\ \/ marker'[w] = marker[w]
            \/ marker'[w] = NoMarker /\ marker[w].expires <= now'
<1>1. CASE Tick
  BY <1>1, BindingTypes DEF Tick
<1>2. CASE ~Tick
  BY <1>2, BindingTypes DEF AccountNext, RecordActivity, SetRegistered
<1>3. QED
  BY <1>1, <1>2

LEMMA BindingAccount ==
  ASSUME BindingInvariant, TypeOK', AccountStep
  PROVE  BindingInvariant'
<1>1. TypeOK /\ AccountNext /\ AttemptsAreShort /\ UNCHANGED <<task, firstBound>>
  BY DEF BindingInvariant, AccountStep
<1>2. NoMarker.expires = 0 /\ NoMarker.generation = 0
  BY DEF NoMarker
<1>3. now \in Nat /\ now' \in Nat /\ now' >= now
  <2>1. now \in Nat \ {0} /\ now' \in Nat \ {0}
    BY <1>1 DEF TypeOK, ActivityTypeOK
  <2>2. QED
    BY <1>1, <2>1, ClockMovesForward DEF TypeOK
<1>4. MarkersIssued'
  BY <1>1, <1>2, <1>3, GenerationMoves, MarkersOutlive, BindingTypes DEF BindingInvariant, MarkersIssued
<1>5. MarkerKeepsFirst'
  <2> SUFFICES ASSUME NEW w \in Work
               PROVE  /\ marker'[w].expires # 0 =>
                           /\ firstBound'[w] # Never
                           /\ marker'[w].generation = firstBound'[w].generation
                      /\ firstBound'[w] # Never =>
                           \/ firstBound'[w].at + WorkTTL <= marker'[w].expires
                           \/ firstBound'[w].at + WorkTTL <= now'
    BY DEF MarkerKeepsFirst
  <2>1. \/ marker'[w] = marker[w]
        \/ marker'[w] = NoMarker /\ marker[w].expires <= now'
    BY <1>1, MarkersOutlive
  <2>2. QED
    BY <1>1, <1>2, <1>3, <2>1, BindingTypes DEF BindingInvariant, MarkerKeepsFirst
<1>6. AttemptsKeepFirst'
  <2> SUFFICES ASSUME NEW w \in Work, NEW k \in Task,
                      firstBound[w] # Never, task[k] # Idle, task[k].work = w,
                      task[k].generation # firstBound[w].generation
               PROVE  task[k].generation # account'.generation
    BY <1>1 DEF AttemptsKeepFirst
  <2>1. task[k].generation # account.generation
    BY DEF BindingInvariant, AttemptsKeepFirst
  <2>2. task[k].generation <= visitSequence /\ task[k].generation \in Nat
    BY <1>1, BindingTypes DEF BindingInvariant, MarkersIssued
  <2>3. CASE account'.generation = 0 /\ account.generation # 0
    BY <1>1, <2>3 DEF AttemptsAreShort
  <2>4. QED
    BY <1>1, <2>1, <2>2, <2>3, GenerationMoves, BindingTypes
<1>7. FirstNotAhead'
  BY <1>1, <1>3, BindingTypes DEF BindingInvariant, FirstNotAhead
<1>8. QED
  BY <1>4, <1>5, <1>6, <1>7 DEF BindingInvariant

\* An attempt gets the marker's generation, or the current one if there is no
\* marker; the first one of a registered account leaves its marker.
LEMMA BindingBind ==
  ASSUME BindingInvariant, TypeOK', NEW k \in Task, NEW w \in Work, Bind(k, w)
  PROVE  BindingInvariant'
<1> DEFINE g == WorkGeneration(w)
<1>1. TypeOK
  BY DEF BindingInvariant
<1>2. /\ g \in Nat /\ task[k] = Idle /\ Attemptable(w) /\ now' = now
      /\ task' = [task EXCEPT ![k] = [step |-> "bound", work |-> w, generation |-> g]]
      /\ marker' = IF registered
                   THEN [marker EXCEPT ![w] = [generation |-> g, expires |-> now + WorkTTL]]
                   ELSE marker
      /\ firstBound' = IF firstBound[w] = Never /\ registered
                       THEN [firstBound EXCEPT ![w] = [at |-> now, generation |-> g]]
                       ELSE firstBound
  BY <1>1, GenerationForWorkType DEF Bind, GenerationForWork, TypeOK
<1>3. /\ account'.generation = CurrentGeneration
      /\ visitSequence' = IF NeedsGeneration THEN visitSequence + 1 ELSE visitSequence
  BY <1>1, GivenGeneration DEF Bind, TypeOK
<1>4. /\ CurrentGeneration = account.generation \/ CurrentGeneration = visitSequence + 1
      /\ visitSequence <= visitSequence'
      /\ CurrentGeneration <= visitSequence'
  BY <1>1, <1>3, BindingTypes DEF BindingInvariant, MarkersIssued, CurrentGeneration
<1>5. g = IF marker[w].expires # 0 THEN marker[w].generation ELSE CurrentGeneration
  BY DEF WorkGeneration
<1>6. firstBound[w] # Never => marker[w].expires # 0 /\ g = firstBound[w].generation
  <2> SUFFICES ASSUME firstBound[w] # Never
               PROVE  marker[w].expires # 0 /\ g = firstBound[w].generation
    OBVIOUS
  <2>1. now <= firstBound[w].at + RetryHorizon
    BY <1>2 DEF Attemptable
  <2>2. ~(firstBound[w].at + WorkTTL <= now)
    BY <1>1, <2>1, BindingTypes
  <2>3. firstBound[w].at + WorkTTL <= marker[w].expires
    BY <2>2 DEF BindingInvariant, MarkerKeepsFirst
  <2>4. marker[w].expires # 0
    BY <1>1, <2>3, BindingTypes
  <2>5. QED
    BY <1>5, <2>4 DEF BindingInvariant, MarkerKeepsFirst
<1>7. g <= visitSequence'
  <2>1. visitSequence' \in Nat
    BY <1>1, <1>3, BindingTypes
  <2>2. marker[w].generation <= visitSequence
    BY DEF BindingInvariant, MarkersIssued
  <2>3. QED
    BY <1>1, <1>4, <1>5, <2>1, <2>2, BindingTypes
<1>8. firstBound[w] = Never => g = CurrentGeneration
  BY <1>5 DEF BindingInvariant, MarkerKeepsFirst
<1> HIDE DEF g
<1>9. /\ task'[k] # Idle /\ task'[k].work = w /\ task'[k].generation = g
      /\ \A j \in Task : j # k => task'[j] = task[j]
  BY <1>1, <1>2 DEF TypeOK, Idle
<1>10. /\ \A v \in Work : v # w => marker'[v] = marker[v] /\ firstBound'[v] = firstBound[v]
       /\ IF registered THEN marker'[w].generation = g /\ marker'[w].expires = now + WorkTTL
                        ELSE marker'[w] = marker[w]
       /\ IF firstBound[w] = Never /\ registered
          THEN firstBound'[w].at = now /\ firstBound'[w].generation = g
          ELSE firstBound'[w] = firstBound[w]
  BY <1>1, <1>2 DEF TypeOK, ActivityTypeOK
<1>11. firstBound[w] = Never /\ registered => firstBound'[w] # Never
  BY <1>1, <1>10, BindingTypes DEF Never
<1>12. MarkersIssued'
  BY <1>1, <1>3, <1>4, <1>7, <1>9, <1>10, <1>2, BindingTypes DEF BindingInvariant, MarkersIssued
<1>13. MarkerKeepsFirst'
  <2> SUFFICES ASSUME NEW v \in Work
               PROVE  /\ marker'[v].expires # 0 =>
                           /\ firstBound'[v] # Never
                           /\ marker'[v].generation = firstBound'[v].generation
                      /\ firstBound'[v] # Never =>
                           \/ firstBound'[v].at + WorkTTL <= marker'[v].expires
                           \/ firstBound'[v].at + WorkTTL <= now'
    BY DEF MarkerKeepsFirst
  <2>1. CASE v # w
    BY <1>2, <1>10, <2>1 DEF BindingInvariant, MarkerKeepsFirst
  <2>2. CASE v = w /\ ~registered
    BY <1>2, <1>10, <2>2 DEF BindingInvariant, MarkerKeepsFirst
  <2>3. CASE v = w /\ registered /\ firstBound[w] = Never
    BY <1>1, <1>2, <1>10, <1>11, <2>3, BindingTypes
  <2>4. CASE v = w /\ registered /\ firstBound[w] # Never
    <3>1. firstBound'[w] = firstBound[w] /\ marker'[w].generation = firstBound[w].generation
      BY <1>6, <1>10, <2>4
    <3>2. firstBound[w].at <= now
      BY DEF BindingInvariant, FirstNotAhead
    <3>3. firstBound[w].at + WorkTTL <= now + WorkTTL
      BY <1>1, <3>2, BindingTypes
    <3>4. QED
      BY <1>2, <1>10, <2>4, <3>1, <3>3
  <2>5. QED
    BY <2>1, <2>2, <2>3, <2>4
<1>14. AttemptsKeepFirst'
  <2> SUFFICES ASSUME NEW v \in Work, NEW j \in Task,
                      firstBound'[v] # Never, task'[j] # Idle, task'[j].work = v,
                      task'[j].generation # firstBound'[v].generation
               PROVE  task'[j].generation # account'.generation
    BY DEF AttemptsKeepFirst
  <2>1. CASE j = k
    BY <1>6, <1>8, <1>9, <1>10, <2>1
  <2>2. CASE j # k /\ firstBound[v] # Never
    <3>1. firstBound'[v] = firstBound[v] /\ task'[j] = task[j]
      BY <1>9, <1>10, <2>2
    <3>2. task[j].generation # account.generation
      BY <3>1, <2>2 DEF BindingInvariant, AttemptsKeepFirst
    <3>3. task[j].generation <= visitSequence
      BY <3>1 DEF BindingInvariant, MarkersIssued
    <3>4. QED
      BY <1>1, <1>3, <1>4, <3>1, <3>2, <3>3, BindingTypes
  <2>3. CASE j # k /\ firstBound[v] = Never
    <3>1. v = w /\ registered /\ firstBound'[w].generation = g
      BY <1>10, <2>3
    <3>2. QED
      BY <1>3, <1>8, <2>3, <3>1
  <2>4. QED
    BY <2>1, <2>2, <2>3
<1>15. FirstNotAhead'
  BY <1>1, <1>2, <1>10, BindingTypes DEF BindingInvariant, FirstNotAhead
<1>16. QED
  BY <1>12, <1>13, <1>14, <1>15 DEF BindingInvariant

LEMMA BindingNext == BindingInvariant /\ [Next]_vars => BindingInvariant'
<1> SUFFICES ASSUME BindingInvariant, [Next]_vars
             PROVE  BindingInvariant'
  OBVIOUS
<1>1. TypeOK /\ TypeOK'
  BY NextType DEF BindingInvariant
<1>2. CASE AccountStep
  BY <1>1, <1>2, BindingAccount
<1>3. ASSUME NEW k \in Task, TaskStep(k)
      PROVE  BindingInvariant'
  <2>1. CASE \E w \in Work : Bind(k, w)
    BY <1>1, <2>1, BindingBind
  <2>2. CASE ~\E w \in Work : Bind(k, w)
    <3>1. /\ UNCHANGED <<now, marker, visitSequence, firstBound>>
          /\ account'.generation = account.generation
          /\ task[k] # Idle
      BY <1>1, <1>3, <2>2
         DEF TaskStep, FindDevices, Reserve, Refuse, ValidateAndSend, Invalidate, Abandon,
             activityVars, TypeOK, ActivityTypeOK, Idle
    <3>2. /\ task'[k] # Idle => task'[k].generation = task[k].generation
                                /\ task'[k].work = task[k].work
          /\ \A j \in Task : j # k => task'[j] = task[j]
      BY <1>1, <1>3, <2>2, <3>1
         DEF TaskStep, FindDevices, Reserve, Refuse, ValidateAndSend, Invalidate, Abandon,
             TypeOK, TaskState, Idle
    <3>3. \A j \in Task : task'[j] # Idle => /\ task[j] # Idle
                                             /\ task'[j].generation = task[j].generation
                                             /\ task'[j].work = task[j].work
      BY <3>1, <3>2
    <3>4. QED
      BY <1>1, <3>1, <3>3
         DEF BindingInvariant, MarkersIssued, MarkerKeepsFirst, AttemptsKeepFirst, FirstNotAhead
  <2>3. QED
    BY <2>1, <2>2
<1>4. CASE UNCHANGED vars
  BY <1>1, <1>4 DEF vars, activityVars, budgetVars, BindingInvariant, MarkersIssued,
     MarkerKeepsFirst, AttemptsKeepFirst, FirstNotAhead
<1>5. QED
  BY <1>2, <1>3, <1>4 DEF Next

\* No push goes out under another generation than the one that its first
\* attempt was bound to, whatever tasks, retries and visits there are.
THEOREM PushesStayInVisit == Spec => NoPushAcrossVisit
<1>1. ASSUME BindingInvariant, Next
      PROVE  \A w \in Work : sent'[w] # sent[w] /\ firstBound[w] # Never
               => sent'[w].generation = firstBound[w].generation
  <2> SUFFICES ASSUME NEW w \in Work, sent'[w] # sent[w], firstBound[w] # Never
               PROVE  sent'[w].generation = firstBound[w].generation
    OBVIOUS
  <2>1. PICK k \in Task : ValidateAndSend(k)
    BY <1>1 DEF Next, AccountStep, TaskStep, Bind, FindDevices, Reserve, Refuse,
       Invalidate, Abandon
  <2>2. /\ task[k] # Idle /\ task[k].work \in Work
        /\ task[k].generation = account.generation
        /\ sent' = [sent EXCEPT ![task[k].work] =
                      [at |-> now, generation |-> account.generation]]
    BY <1>1, <2>1 DEF ValidateAndSend, Valid, Unfenced, BindingInvariant, TypeOK, TaskState, Idle
  <2>3. task[k].work = w /\ sent'[w].generation = account.generation
    BY <1>1, <2>2 DEF BindingInvariant, TypeOK
  <2>4. QED
    BY <1>1, <2>2, <2>3 DEF BindingInvariant, AttemptsKeepFirst
<1>2. BindingInvariant /\ [Next]_vars
        => [\A w \in Work : sent'[w] # sent[w] /\ firstBound[w] # Never
              => sent'[w].generation = firstBound[w].generation]_vars
  BY <1>1
<1>3. QED
  BY <1>2, BindingInit, BindingNext, PTL DEF Spec, NoPushAcrossVisit

-----------------------------------------------------------------------------
(* The caps over rolling hours and days.  What was sent in the last hour or *)
(* day is still in the sorted sets, so it is enough to bound those; the     *)
(* allowance of an account whose report has expired starts from what was    *)
(* charged to its last visit, which is all that a day can still hold.       *)

SendsScored ==
  \A w \in Work : WasSent(w) => \/ sent[w].at <= score[w]
                                \/ sent[w].at + Day <= now

InDay(C) == {w \in C : score[w] # 0 /\ score[w] > now - Day}

HourBounded == Cardinality(InHour(score)) <= HourlyCap
DayBounded == Cardinality(InDay(Work)) <= DailyCap
RollingBounded == ~account.reported => Cardinality(InDay(Nonurgent)) <= AbsenceCap

\* A reporting account's state is kept for StateTTL from its latest report, and
\* what is reserved under an earlier visit was last attempted before that report.
ReportRenews ==
  account.reported => StateTTL <= account.expires /\ account.expires <= now + StateTTL

OlderThanReport ==
  account.reported =>
    \A w \in Nonurgent :
      score[w] # 0 => \/ reservedGen[w] = account.generation
                      \/ score[w] + StateTTL <= account.expires

CapsInvariant ==
  /\ AllowanceInvariant
  /\ ScoresNotAhead
  /\ SendsScored
  /\ HourBounded
  /\ DayBounded
  /\ RollingBounded
  /\ ReportRenews
  /\ OlderThanReport

\* Sets of notifications are finite, so a smaller one has no larger count.
LEMMA WorkCount ==
  ASSUME NEW S, NEW T, S \subseteq T, T \subseteq Work
  PROVE  /\ IsFiniteSet(S) /\ IsFiniteSet(T)
         /\ Cardinality(S) \in Nat /\ Cardinality(T) \in Nat
         /\ Cardinality(S) <= Cardinality(T)
<1>1. IsFiniteSet(T) /\ IsFiniteSet(S)
  BY FiniteWorkAssumption, FS_Subset
<1>2. QED
  BY <1>1, FS_Subset, FS_CardinalityType

\* A set that gains at most one notification stays within a bound it was below.
LEMMA OneMoreWithin ==
  ASSUME NEW S, NEW T, T \subseteq Work, NEW w \in Work, S \subseteq T \cup {w},
         NEW cap \in Nat, Cardinality(T) < cap
  PROVE  Cardinality(S) <= cap
<1>1. T \cup {w} \subseteq Work
  OBVIOUS
<1>2. IsFiniteSet(T) /\ Cardinality(T) \in Nat
  BY WorkCount
<1>3. Cardinality(T \cup {w}) <= Cardinality(T) + 1 /\ Cardinality(T \cup {w}) \in Nat
  <2>1. Cardinality(T \cup {w}) = IF w \in T THEN Cardinality(T) ELSE Cardinality(T) + 1
    BY <1>2, FS_AddElement
  <2>2. QED
    BY <1>2, <2>1
<1>4. Cardinality(S) <= Cardinality(T \cup {w}) /\ Cardinality(S) \in Nat
  BY <1>1, WorkCount
<1>5. QED
  BY <1>2, <1>3, <1>4

LEMMA CapsTypes ==
  ASSUME TypeOK
  PROVE  /\ now \in Nat /\ now # 0 /\ account.expires \in Nat
         /\ Hour \in Nat /\ Day \in Nat /\ Day # 0 /\ StateTTL \in Nat
         /\ Hour <= Day /\ Day <= StateTTL
         /\ HourlyCap \in Nat /\ DailyCap \in Nat /\ AbsenceCap \in Nat
         /\ \A w \in Work : score[w] \in Nat /\ sent[w].at \in Nat
         /\ Nonurgent \subseteq Work
  BY BudgetAssumption, RetentionAssumption, LifetimesAssumption
     DEF TypeOK, ActivityTypeOK, Stamp, Nonurgent

LEMMA CapsInit == Init => CapsInvariant
<1> SUFFICES ASSUME Init PROVE CapsInvariant
  OBVIOUS
<1>1. TypeOK /\ AllowanceInvariant
  BY InitType, AllowanceInit
<1>2. /\ \A w \in Work : score[w] = 0 /\ sent[w].at = 0
      /\ account.reported = FALSE
  BY DEF Init, ActivityInit, NoAccount, Never, Absent
<1>3. InHour(score) = {} /\ InDay(Work) = {} /\ InDay(Nonurgent) = {}
  BY <1>1, <1>2, CapsTypes DEF InHour, Members, InDay, Absent
<1>4. Cardinality({}) = 0
  BY FS_EmptySet
<1>5. HourBounded /\ DayBounded /\ RollingBounded
  BY <1>1, <1>3, <1>4, CapsTypes DEF HourBounded, DayBounded, RollingBounded
<1>6. QED
  BY <1>1, <1>2, <1>5, CapsTypes
     DEF CapsInvariant, ScoresNotAhead, SendsScored, ReportRenews, OlderThanReport, WasSent

\* A step that submits nothing and rescores nobody but prunes at most, while
\* the clock may move, keeps the bounds; the rolling allowance as long as no
\* report expires.
LEMMA CapsQuiet ==
  ASSUME CapsInvariant, TypeOK', now <= now', sent' = sent,
         \A w \in Work : \/ score'[w] = score[w]
                         \/ score'[w] = 0 /\ score[w] + Day <= now
  PROVE  /\ ScoresNotAhead' /\ SendsScored' /\ HourBounded' /\ DayBounded'
         /\ account'.reported \/ ~account.reported => RollingBounded'
<1>1. TypeOK
  BY DEF CapsInvariant, AllowanceInvariant
<1>2. /\ now' \in Nat
      /\ \A w \in Work : score'[w] \in Nat /\ score'[w] <= score[w]
  <2>1. now' \in Nat
    BY DEF TypeOK, ActivityTypeOK
  <2>2. QED
    BY <1>1, <2>1, CapsTypes
<1>3. ScoresNotAhead'
  BY <1>1, <1>2, CapsTypes DEF CapsInvariant, ScoresNotAhead
<1>4. SendsScored'
  <2> SUFFICES ASSUME NEW w \in Work, WasSent(w)
               PROVE  sent[w].at <= score'[w] \/ sent[w].at + Day <= now'
    BY DEF SendsScored, WasSent
  <2>1. sent[w].at <= score[w] \/ sent[w].at + Day <= now
    BY DEF CapsInvariant, SendsScored
  <2>2. CASE score'[w] = score[w]
    BY <1>1, <1>2, <2>1, <2>2, CapsTypes
  <2>3. CASE score[w] + Day <= now
    BY <1>1, <1>2, <2>1, <2>3, CapsTypes
  <2>4. QED
    BY <2>2, <2>3
<1>5. /\ InHour(score)' \subseteq InHour(score) /\ InHour(score) \subseteq Work
      /\ InDay(Work)' \subseteq InDay(Work) /\ InDay(Work) \subseteq Work
      /\ InDay(Nonurgent)' \subseteq InDay(Nonurgent) /\ InDay(Nonurgent) \subseteq Work
  BY <1>1, <1>2, CapsTypes DEF InHour, InDay, Members, Absent, Nonurgent
<1>6. HourBounded'
  BY <1>1, <1>5, WorkCount, CapsTypes DEF CapsInvariant, HourBounded
<1>7. DayBounded'
  BY <1>1, <1>5, WorkCount, CapsTypes DEF CapsInvariant, DayBounded
<1>8. account'.reported \/ ~account.reported => RollingBounded'
  BY <1>1, <1>5, WorkCount, CapsTypes DEF CapsInvariant, RollingBounded
<1>9. QED
  BY <1>3, <1>4, <1>6, <1>7, <1>8

\* When a report expires, whatever was attempted in the last day was reserved
\* since that report, hence charged to its allowance.
LEMMA CapsExpire ==
  ASSUME CapsInvariant, TypeOK', Tick, account.reported, account.expires <= now',
         UNCHANGED <<score, sent>>
  PROVE  RollingBounded'
<1>1. TypeOK
  BY DEF CapsInvariant, AllowanceInvariant
<1>2. InDay(Nonurgent)' \subseteq charged
  <2> SUFFICES ASSUME NEW w \in Nonurgent, score[w] # 0, score[w] > now' - Day
               PROVE  w \in charged
    BY DEF InDay
  <2>1. w \in Work /\ now' = now + 1
    BY DEF Nonurgent, Tick
  <2>2. ~(score[w] + StateTTL <= account.expires)
    BY <1>1, <2>1, CapsTypes
  <2>3. reservedGen[w] = account.generation
    BY <2>2 DEF CapsInvariant, OlderThanReport
  <2>4. QED
    BY <2>3 DEF CapsInvariant, AllowanceInvariant, ReservedIsCharged
<1>3. charged \subseteq Work /\ Cardinality(charged) <= AbsenceCap
  BY <1>1, ChargedFinite, AllowanceTypes
     DEF CapsInvariant, AllowanceInvariant, ChargesCounted, TypeOK, Nonurgent
<1>4. QED
  BY <1>1, <1>2, <1>3, WorkCount, CapsTypes DEF RollingBounded

LEMMA CapsAccount ==
  ASSUME CapsInvariant, TypeOK', AllowanceInvariant', AccountStep
  PROVE  CapsInvariant'
<1>1. TypeOK
  BY DEF CapsInvariant, AllowanceInvariant
<1>2. UNCHANGED <<score, reservedGen, sent>> /\ AccountNext /\ now <= now'
  BY <1>1, ClockMovesForward DEF AccountStep, TypeOK
<1>3. CASE \E s \in Session, n \in Sequence : RecordActivity(s, n)
  <2>1. /\ account'.reported = TRUE /\ account'.expires = now + StateTTL /\ now' = now
    BY <1>3 DEF RecordActivity
  <2>2. ReportRenews'
    BY <1>1, <2>1, CapsTypes DEF ReportRenews
  <2>3. OlderThanReport'
    BY <1>1, <1>2, <2>1, CapsTypes DEF CapsInvariant, ScoresNotAhead, OlderThanReport
  <2>4. QED
    BY <1>1, <1>2, <2>1, <2>2, <2>3, CapsQuiet DEF CapsInvariant
<1>4. CASE (\E r \in BOOLEAN : SetRegistered(r)) \/ (Tick /\ account' = account)
  <2>1. account' = account
    BY <1>4 DEF SetRegistered
  <2>2. now' \in Nat
    BY DEF TypeOK, ActivityTypeOK
  <2>3. ReportRenews' /\ OlderThanReport'
    BY <1>1, <1>2, <2>1, <2>2, CapsTypes DEF CapsInvariant, ReportRenews, OlderThanReport
  <2>4. QED
    BY <1>1, <1>2, <2>1, <2>3, CapsQuiet DEF CapsInvariant
<1>5. CASE Tick /\ account' # account
  <2>1. account'.reported = FALSE /\ account.expires <= now'
    BY <1>5 DEF Tick, NoAccount
  <2>2. ReportRenews' /\ OlderThanReport'
    BY <2>1 DEF ReportRenews, OlderThanReport
  <2>3. CASE ~account.reported
    BY <1>1, <1>2, <2>2, <2>3, CapsQuiet DEF CapsInvariant
  <2>4. CASE account.reported
    <3>1. RollingBounded'
      BY <1>2, <1>5, <2>1, <2>4, CapsExpire
    <3>2. ScoresNotAhead' /\ SendsScored' /\ HourBounded' /\ DayBounded'
      BY <1>2, CapsQuiet
    <3>3. QED
      BY <2>2, <3>1, <3>2 DEF CapsInvariant
  <2>5. QED
    BY <2>3, <2>4
<1>6. QED
  BY <1>2, <1>3, <1>4, <1>5 DEF AccountNext

\* A new reservation finds each bound with room; a renewal is counted already,
\* or finds the hour with room.
LEMMA CapsReserve ==
  ASSUME CapsInvariant, TypeOK', AllowanceInvariant', NEW k \in Task, Reserve(k)
  PROVE  CapsInvariant'
<1> DEFINE w == task[k].work
           sc == Pruned(score)
<1>1. TypeOK
  BY DEF CapsInvariant, AllowanceInvariant
<1>2. /\ w \in Work
      /\ RenewAllowed(sc, w) \/ NewAllowed(sc, w)
      /\ score' = [sc EXCEPT ![w] = now]
      /\ reservedGen' = [ForgetPruned(sc) EXCEPT ![w] = account.generation]
      /\ now' = now /\ sent' = sent
  BY <1>1 DEF Reserve, ReserveAllowed, TypeOK, TaskState, Idle
<1>3. /\ account'.generation = account.generation
      /\ account'.reported = account.reported
      /\ account'.expires = account.expires
  BY <1>1 DEF Reserve, TypeOK, ActivityTypeOK
<1>4. sc \in [Work -> Nat] /\ \A o \in Work : \/ sc[o] = score[o]
                                              \/ sc[o] = 0 /\ score[o] + Day <= now
  BY <1>1, PrunedType, PrunedScores
<1>5. score'[w] = now /\ \A o \in Work : o # w => score'[o] = sc[o]
  BY <1>2, <1>4
<1>6. reservedGen'[w] = account.generation
  BY <1>1, <1>2, PrunedType
<1>7. \A o \in Work : o # w /\ sc[o] # 0 => reservedGen'[o] = reservedGen[o]
  BY <1>1, <1>2, PrunedType DEF ForgetPruned, Absent
<1>8. \A o \in Work : sc[o] # 0 => sc[o] > now - Day
  BY <1>1, CapsTypes DEF Pruned, Absent
<1> HIDE DEF w, sc
<1>9. ScoresNotAhead'
  BY <1>1, <1>2, <1>4, <1>5, CapsTypes DEF CapsInvariant, ScoresNotAhead
<1>10. SendsScored'
  <2> SUFFICES ASSUME NEW o \in Work, WasSent(o)
               PROVE  sent[o].at <= score'[o] \/ sent[o].at + Day <= now
    BY <1>2 DEF SendsScored, WasSent
  <2>1. sent[o].at <= score[o] \/ sent[o].at + Day <= now
    BY DEF CapsInvariant, SendsScored
  <2>2. score[o] <= now
    BY DEF CapsInvariant, ScoresNotAhead
  <2>3. CASE o = w \/ sc[o] = score[o]
    BY <1>1, <1>5, <2>1, <2>2, <2>3, CapsTypes
  <2>4. CASE score[o] + Day <= now
    BY <1>1, <2>1, <2>4, CapsTypes
  <2>5. QED
    BY <1>4, <2>3, <2>4
<1>11. HourBounded'
  <2>1. InHour(sc) \subseteq InHour(score) /\ InHour(score) \subseteq Work
    BY <1>1, <1>4, CapsTypes DEF InHour, Members, Absent
  <2>2. InHour(score)' \subseteq InHour(sc) \cup {w}
    BY <1>2, <1>5 DEF InHour, Members
  <2>3. CASE sc[w] # Absent /\ sc[w] > now - Hour
    <3>1. InHour(score)' \subseteq InHour(score)
      BY <1>2, <2>1, <2>2, <2>3 DEF InHour, Members
    <3>2. QED
      BY <1>1, <2>1, <3>1, WorkCount, CapsTypes DEF CapsInvariant, HourBounded
  <2>4. CASE ~HourFull(sc)
    <3>1. InHour(sc) \subseteq Work /\ Cardinality(InHour(sc)) \in Nat
      BY <2>1, WorkCount
    <3>2. Cardinality(InHour(sc)) < HourlyCap
      BY <1>1, <2>4, <3>1, CapsTypes DEF HourFull
    <3>3. QED
      BY <1>1, <1>2, <2>2, <3>1, <3>2, OneMoreWithin, CapsTypes DEF HourBounded
  <2>5. QED
    BY <1>2, <2>3, <2>4 DEF RenewAllowed, NewAllowed
<1>12. /\ Members(sc, Work) = {o \in Work : sc[o] # 0}
       /\ Members(sc, Nonurgent) = {o \in Nonurgent : sc[o] # 0}
       /\ Members(sc, Nonurgent) \subseteq Work
       /\ \A C \in {Work, Nonurgent} : /\ Members(sc, C) \subseteq InDay(C)
                                       /\ InDay(C) \subseteq Work
  BY <1>1, <1>4, <1>8, CapsTypes DEF Members, InDay, Absent
<1>13. DayBounded'
  <2>1. InDay(Work)' \subseteq Members(sc, Work) \cup {w}
    BY <1>2, <1>5, <1>12 DEF InDay
  <2>2. CASE sc[w] # Absent
    <3>1. InDay(Work)' \subseteq InDay(Work)
      BY <1>2, <1>12, <2>1, <2>2 DEF Absent
    <3>2. QED
      BY <1>1, <1>12, <3>1, WorkCount, CapsTypes DEF CapsInvariant, DayBounded
  <2>3. CASE NewAllowed(sc, w)
    BY <1>1, <1>2, <1>12, <2>1, <2>3, OneMoreWithin, CapsTypes DEF DayBounded, NewAllowed
  <2>4. QED
    BY <1>2, <2>2, <2>3 DEF RenewAllowed
<1>14. RollingBounded'
  <2> SUFFICES ASSUME ~account.reported
               PROVE  Cardinality(InDay(Nonurgent)') <= AbsenceCap
    BY <1>3 DEF RollingBounded
  <2>1. InDay(Nonurgent)' \subseteq Members(sc, Nonurgent) \cup {w}
    BY <1>2, <1>5, <1>12, CapsTypes, <1>1 DEF InDay
  <2>2. CASE sc[w] # Absent \/ w \notin Nonurgent
    <3>1. InDay(Nonurgent)' \subseteq InDay(Nonurgent)
      <4>1. InDay(Nonurgent)' \subseteq Nonurgent
        BY DEF InDay
      <4>2. QED
        BY <1>2, <1>12, <2>1, <2>2, <4>1 DEF Absent
    <3>2. QED
      BY <1>1, <1>12, <3>1, WorkCount, CapsTypes DEF CapsInvariant, RollingBounded
  <2>3. CASE NewAllowed(sc, w) /\ w \in Nonurgent
    <3>1. Cardinality(Members(sc, Nonurgent)) < AbsenceCap
      BY <2>3 DEF NewAllowed, AllowanceUsed
    <3>2. QED
      BY <1>1, <1>2, <1>12, <2>1, <3>1, OneMoreWithin, CapsTypes
  <2>4. QED
    BY <1>2, <2>2, <2>3 DEF RenewAllowed
<1>15. ReportRenews'
  BY <1>2, <1>3 DEF CapsInvariant, ReportRenews
<1>16. OlderThanReport'
  <2> SUFFICES ASSUME account.reported, NEW o \in Nonurgent, score'[o] # 0
               PROVE  \/ reservedGen'[o] = account.generation
                      \/ score'[o] + StateTTL <= account.expires
    BY <1>3 DEF OlderThanReport
  <2>1. o \in Work
    BY DEF Nonurgent
  <2>2. QED
    BY <1>4, <1>5, <1>6, <1>7, <2>1 DEF CapsInvariant, OlderThanReport
<1>17. QED
  BY <1>9, <1>10, <1>11, <1>13, <1>14, <1>15, <1>16 DEF CapsInvariant

\* A valid reservation is counted by the day's bounds already; the hour's bound
\* counts it, or has room.
LEMMA CapsSend ==
  ASSUME CapsInvariant, TypeOK', AllowanceInvariant', NEW k \in Task, ValidateAndSend(k)
  PROVE  CapsInvariant'
<1> DEFINE w == task[k].work
<1>1. TypeOK
  BY DEF CapsInvariant, AllowanceInvariant
<1>2. /\ w \in Work /\ Valid(w, task[k].generation)
      /\ score' = [score EXCEPT ![w] = now]
      /\ sent' = [sent EXCEPT ![w] = [at |-> now, generation |-> account.generation]]
      /\ UNCHANGED <<now, account, reservedGen>>
  BY <1>1 DEF ValidateAndSend, activityVars, TypeOK, TaskState, Idle
<1> HIDE DEF w
<1>3. /\ score[w] # 0 /\ score[w] > now - Day
      /\ score[w] > now - Hour \/ ~HourFull(score)
      /\ reservedGen[w] = account.generation
  BY <1>2 DEF Valid, Absent
<1>4. /\ score'[w] = now /\ sent'[w].at = now
      /\ \A o \in Work : o # w => score'[o] = score[o] /\ sent'[o] = sent[o]
  BY <1>1, <1>2 DEF TypeOK
<1>5. ScoresNotAhead' /\ SendsScored'
  BY <1>1, <1>2, <1>4, CapsTypes DEF CapsInvariant, ScoresNotAhead, SendsScored, WasSent
<1>6. HourBounded'
  <2>1. InHour(score)' \subseteq InHour(score) \cup {w} /\ InHour(score) \subseteq Work
    BY <1>2, <1>4 DEF InHour, Members
  <2>2. CASE score[w] > now - Hour
    <3>1. InHour(score)' \subseteq InHour(score)
      BY <1>2, <1>3, <2>1, <2>2 DEF InHour, Members, Absent
    <3>2. QED
      BY <1>1, <2>1, <3>1, WorkCount, CapsTypes DEF CapsInvariant, HourBounded
  <2>3. CASE ~HourFull(score)
    <3>1. Cardinality(InHour(score)) \in Nat
      BY <2>1, WorkCount
    <3>2. Cardinality(InHour(score)) < HourlyCap
      BY <1>1, <2>3, <3>1, CapsTypes DEF HourFull
    <3>3. QED
      BY <1>1, <1>2, <2>1, <3>2, OneMoreWithin, CapsTypes DEF HourBounded
  <2>4. QED
    BY <1>3, <2>2, <2>3
<1>7. \A C \in {Work, Nonurgent} : InDay(C)' \subseteq InDay(C) /\ InDay(C) \subseteq Work
  BY <1>1, <1>2, <1>3, <1>4, CapsTypes DEF InDay
<1>8. DayBounded'
  BY <1>1, <1>7, WorkCount, CapsTypes DEF CapsInvariant, DayBounded
<1>9. RollingBounded'
  BY <1>1, <1>2, <1>7, WorkCount, CapsTypes DEF CapsInvariant, RollingBounded
<1>10. ReportRenews'
  BY <1>2 DEF CapsInvariant, ReportRenews
<1>11. OlderThanReport'
  BY <1>1, <1>2, <1>3, <1>4, CapsTypes DEF CapsInvariant, OlderThanReport
<1>12. QED
  BY <1>5, <1>6, <1>8, <1>9, <1>10, <1>11 DEF CapsInvariant

LEMMA CapsNext == CapsInvariant /\ [Next]_vars => CapsInvariant'
<1> SUFFICES ASSUME CapsInvariant, [Next]_vars
             PROVE  CapsInvariant'
  OBVIOUS
<1>1. TypeOK /\ TypeOK' /\ AllowanceInvariant'
  BY NextType, AllowanceNext DEF CapsInvariant, AllowanceInvariant
<1>2. CASE AccountStep
  BY <1>1, <1>2, CapsAccount
<1>3. CASE \E k \in Task : Reserve(k)
  BY <1>1, <1>3, CapsReserve
<1>4. CASE \E k \in Task : ValidateAndSend(k)
  BY <1>1, <1>4, CapsSend
<1>5. CASE \E k \in Task : Refuse(k)
  <2>1. UNCHANGED <<now, account, sent>> /\ score' = Pruned(score)
        /\ reservedGen' = ForgetPruned(Pruned(score))
    BY <1>5 DEF Refuse, activityVars
  <2>2. \A w \in Work : /\ score'[w] = score[w] \/ (score'[w] = 0 /\ score[w] + Day <= now)
                        /\ score'[w] # 0 => reservedGen'[w] = reservedGen[w]
    BY <1>1, <2>1, PrunedScores DEF ForgetPruned, Absent
  <2>3. ReportRenews' /\ OlderThanReport'
    BY <1>1, <2>1, <2>2, CapsTypes DEF CapsInvariant, ReportRenews, OlderThanReport
  <2>4. QED
    BY <1>1, <2>1, <2>2, <2>3, CapsQuiet, CapsTypes DEF CapsInvariant
<1>6. CASE UNCHANGED vars \/ \E k \in Task : (\E w \in Work : Bind(k, w)) \/ FindDevices(k)
                                             \/ Invalidate(k) \/ Abandon(k)
  <2>1. UNCHANGED <<now, sent, score, reservedGen>>
    BY <1>6 DEF vars, activityVars, budgetVars, Bind, GenerationForWork, FindDevices,
       Invalidate, Abandon
  <2>2. account'.reported = account.reported
        /\ (account.reported => account' = account)
    <3>1. CASE \E k \in Task, w \in Work : Bind(k, w)
      <4>1. account.reported => ~NeedsGeneration
        BY DEF NeedsGeneration, CapsInvariant, AllowanceInvariant, UnreportedHasNoVisits
      <4>2. QED
        BY <1>1, <3>1, <4>1, GivenGeneration DEF Bind, TypeOK
    <3>2. CASE ~\E k \in Task, w \in Work : Bind(k, w)
      BY <1>6, <3>2 DEF vars, activityVars, FindDevices, Invalidate, Abandon
    <3>3. QED
      BY <3>1, <3>2
  <2>3. ReportRenews' /\ OlderThanReport'
    BY <2>1, <2>2 DEF CapsInvariant, ReportRenews, OlderThanReport
  <2>4. QED
    BY <1>1, <2>1, <2>2, <2>3, CapsQuiet, CapsTypes DEF CapsInvariant
<1>7. QED
  BY <1>2, <1>3, <1>4, <1>5, <1>6 DEF Next, TaskStep

\* In any rolling hour and day no more is submitted than the caps allow, and to
\* an account that does not report no more than the absence allowance, for any
\* number of tasks and caps.
THEOREM CapsAreKept == Spec => []CapsKept
<1>1. ASSUME CapsInvariant
      PROVE  CapsKept
  <2>1. TypeOK
    BY <1>1 DEF CapsInvariant, AllowanceInvariant
  <2>2. \A w \in Work : WasSent(w) => sent[w].at <= score[w] \/ sent[w].at + Day <= now
    BY <1>1 DEF CapsInvariant, SendsScored
  <2>3. /\ {w \in Work : WasSent(w) /\ sent[w].at > now - Hour} \subseteq InHour(score)
        /\ InHour(score) \subseteq Work
    BY <2>1, <2>2, CapsTypes DEF InHour, Members, Absent, WasSent
  <2>4. /\ {w \in Work : WasSent(w) /\ sent[w].at > now - Day} \subseteq InDay(Work)
        /\ {w \in Nonurgent : WasSent(w) /\ sent[w].at > now - Day} \subseteq InDay(Nonurgent)
        /\ InDay(Work) \subseteq Work /\ InDay(Nonurgent) \subseteq Work
    BY <2>1, <2>2, CapsTypes DEF InDay, WasSent
  <2>5. HourlyCapKept
    BY <1>1, <2>1, <2>3, WorkCount, CapsTypes DEF CapsInvariant, HourBounded, HourlyCapKept
  <2>6. DailyCapKept
    BY <1>1, <2>1, <2>4, WorkCount, CapsTypes DEF CapsInvariant, DayBounded, DailyCapKept
  <2>7. RollingAllowanceKept
    BY <1>1, <2>1, <2>4, WorkCount, CapsTypes
       DEF CapsInvariant, RollingBounded, RollingAllowanceKept
  <2>8. QED
    BY <2>5, <2>6, <2>7 DEF CapsKept
<1>2. QED
  BY <1>1, CapsInit, CapsNext, PTL DEF Spec

-----------------------------------------------------------------------------
(* Reports.  That a session's state is retained less long than its          *)
(* account's, but at least as long as its presence, is what carries         *)
(* StateFollowsReports across expiries and heartbeats.                      *)

SessionsBegin == \A s \in Session : session[s].expires = 0 => session[s].visit = 0

SessionsEnd == \A s \in Session : session[s].expires <= now + SessionTTL

PresenceEnds ==
  \A s \in Session : presence[s] <= session[s].expires

ReportInvariant ==
  /\ ActivityTypeOK
  /\ SessionsBegin
  /\ SessionsEnd
  /\ PresenceEnds
  /\ SessionsHaveAccount
  /\ PresenceFollowsNewest

LEMMA ReportTypes ==
  ASSUME ActivityTypeOK
  PROVE  /\ now \in Nat /\ now # 0 /\ visitSequence \in Nat
         /\ account.generation \in Nat /\ account.expires \in Nat
         /\ \A s \in Session : /\ session[s].expires \in Nat /\ session[s].visit \in Nat
                               /\ session[s].sequence \in Nat /\ presence[s] \in Nat
         /\ \A w \in Work : marker[w].generation \in Nat
         /\ PresenceTTL \in Nat /\ SessionTTL \in Nat /\ SessionTTL # 0
         /\ StateTTL \in Nat /\ PresenceTTL <= SessionTTL /\ SessionTTL < StateTTL
  BY LifetimesAssumption DEF ActivityTypeOK

LEMMA ReportInit == ActivityInit => ReportInvariant
<1> SUFFICES ASSUME ActivityInit PROVE ReportInvariant
  OBVIOUS
<1>1. ActivityTypeOK
  BY BoundsAssumption DEF ActivityInit, ActivityTypeOK, NoSession, NoAccount, NoMarker,
     ActivityState, Histories
<1>2. \A s \in Session : session[s].expires = 0 /\ session[s].visit = 0 /\ presence[s] = 0
  BY DEF ActivityInit, NoSession
<1>3. QED
  BY <1>1, <1>2, ReportTypes DEF ReportInvariant, SessionsBegin, SessionsEnd, PresenceEnds,
     SessionsHaveAccount, PresenceFollowsNewest, LiveSessions

\* A report renews the account for longer than any session is kept.  A session
\* that has reported a visit is live, so that its heartbeat finds the account.
LEMMA ReportApplied ==
  ASSUME ReportInvariant, NEW s \in Session, NEW n \in Sequence, RecordActivity(s, n)
  PROVE  ReportInvariant'
<1>1. ActivityTypeOK /\ ActivityTypeOK'
  BY RecordActivityType DEF ReportInvariant
<1>2. n \in Nat /\ n # 0 /\ VisitOf(s, n) \in Nat /\ VisitOf(s, n) >= 1
  BY <1>1, VisitsStartAtOne, VisitOfType, BoundsAssumption DEF Sequence
<1>3. /\ now' = now /\ history' = history
      /\ account'.reported = TRUE /\ account'.expires = now + StateTTL
      /\ session'[s].expires = now + SessionTTL /\ session'[s].sequence = n
      /\ session'[s].visit = VisitOf(s, n)
      /\ \A o \in Session : o # s => session'[o] = session[o] /\ presence'[o] = presence[o]
      /\ presence'[s] = IF history[s][n] = "foreground" THEN now + PresenceTTL ELSE 0
  BY <1>1 DEF RecordActivity, ActivityTypeOK
<1>4. account'.generation # 0
  <2>1. CASE NewVisit(s, n)
    BY <1>1, <2>1, ReportTypes DEF RecordActivity
  <2>2. CASE ~NewVisit(s, n)
    <3>1. session[s].visit # 0
      BY <1>1, <1>2, <2>2, ReportTypes DEF NewVisit
    <3>2. session[s].expires # 0
      BY <3>1 DEF ReportInvariant, SessionsBegin
    <3>3. account.generation # 0
      BY <3>2 DEF ReportInvariant, SessionsHaveAccount, LiveSessions
    <3>4. QED
      BY <2>2, <3>3 DEF RecordActivity
  <2>3. QED
    BY <2>1, <2>2
<1>5. SessionsBegin' /\ SessionsEnd'
  BY <1>1, <1>3, ReportTypes DEF ReportInvariant, SessionsBegin, SessionsEnd
<1>6. PresenceEnds'
  BY <1>1, <1>3, ReportTypes DEF ReportInvariant, PresenceEnds
<1>7. SessionsHaveAccount'
  BY <1>1, <1>3, <1>4, ReportTypes
     DEF ReportInvariant, SessionsEnd, SessionsHaveAccount, LiveSessions
<1>8. PresenceFollowsNewest'
  BY <1>1, <1>2, <1>3, ReportTypes DEF ReportInvariant, PresenceFollowsNewest
<1>9. QED
  BY <1>1, <1>5, <1>6, <1>7, <1>8 DEF ReportInvariant

\* What the clock takes away it takes away in order: presence no later than the
\* session's state, and that before the account's.
LEMMA ReportTick ==
  ASSUME ReportInvariant, Tick
  PROVE  ReportInvariant'
<1>1. ActivityTypeOK /\ ActivityTypeOK'
  BY TickType DEF ReportInvariant
<1>2. /\ now' = now + 1 /\ history' = history
      /\ \A s \in Session :
           /\ session'[s] = IF session[s].expires <= now' THEN NoSession ELSE session[s]
           /\ presence'[s] = IF presence[s] <= now' THEN 0 ELSE presence[s]
      /\ account.expires <= now' \/ account' = account
      /\ NoSession.expires = 0 /\ NoSession.visit = 0
  BY DEF Tick, NoSession
<1>3. SessionsBegin' /\ SessionsEnd'
  BY <1>1, <1>2, ReportTypes DEF ReportInvariant, SessionsBegin, SessionsEnd
<1>4. PresenceEnds'
  BY <1>1, <1>2, ReportTypes DEF ReportInvariant, PresenceEnds
<1>5. SessionsHaveAccount'
  BY <1>1, <1>2, ReportTypes DEF ReportInvariant, SessionsHaveAccount, LiveSessions
<1>6. PresenceFollowsNewest'
  BY <1>1, <1>2, ReportTypes DEF ReportInvariant, PresenceEnds, PresenceFollowsNewest
<1>7. QED
  BY <1>1, <1>3, <1>4, <1>5, <1>6 DEF ReportInvariant

\* A step that leaves the reports alone, and an account that reports with its
\* generation and its retention.
LEMMA ReportQuiet ==
  ASSUME ReportInvariant, ActivityTypeOK', UNCHANGED <<now, history, session, presence>>,
         account.reported => /\ account'.reported
                             /\ account'.generation = account.generation
                             /\ account'.expires = account.expires
  PROVE  ReportInvariant'
  BY DEF ReportInvariant, SessionsBegin, SessionsEnd, PresenceEnds, SessionsHaveAccount,
     PresenceFollowsNewest, LiveSessions

LEMMA ReportAccount ==
  ASSUME ReportInvariant, AccountNext
  PROVE  ReportInvariant'
<1>1. CASE \E s \in Session, n \in Sequence : RecordActivity(s, n)
  BY <1>1, ReportApplied
<1>2. CASE \E r \in BOOLEAN : SetRegistered(r)
  BY <1>2, ReportQuiet, AccountNextType DEF SetRegistered, ReportInvariant
<1>3. CASE Tick
  BY <1>3, ReportTick
<1>4. QED
  BY <1>1, <1>2, <1>3 DEF AccountNext

\* Only an account without a generation is given one.
LEMMA ReportWork ==
  ASSUME ReportInvariant, NEW w \in Work, GenerationForWork(w)
  PROVE  ReportInvariant'
<1>1. ActivityTypeOK /\ ActivityTypeOK'
  BY GenerationForWorkType DEF ReportInvariant
<1>2. UNCHANGED <<now, history, session, presence>>
  BY DEF GenerationForWork
<1>3. CASE NeedsGeneration
  <2>1. LiveSessions = {}
    BY <1>3 DEF NeedsGeneration, ReportInvariant, SessionsHaveAccount
  <2>2. QED
    BY <1>1, <1>2, <2>1 DEF ReportInvariant, SessionsBegin, SessionsEnd, PresenceEnds,
       SessionsHaveAccount, PresenceFollowsNewest, LiveSessions
<1>4. CASE ~NeedsGeneration
  <2>1. account' = account
    BY <1>4 DEF GenerationForWork
  <2>2. QED
    BY <1>1, <1>2, <2>1, ReportQuiet
<1>5. QED
  BY <1>3, <1>4

LEMMA ReportNext == ReportInvariant /\ [ActivityNext]_activityVars => ReportInvariant'
<1> SUFFICES ASSUME ReportInvariant, [ActivityNext]_activityVars
             PROVE  ReportInvariant'
  OBVIOUS
<1>1. CASE UNCHANGED activityVars
  BY <1>1 DEF activityVars, ReportInvariant, ActivityTypeOK, SessionsBegin, SessionsEnd,
     PresenceEnds, SessionsHaveAccount, PresenceFollowsNewest, LiveSessions
<1>2. QED
  BY <1>1, ReportAccount, ReportWork DEF ActivityNext

\* However the reports of any number of sessions are lost, repeated and
\* reordered, presence follows the newest one applied, and a session whose next
\* report would be a heartbeat has an account that knows of its visit.
THEOREM ReportsAreFollowed == ActivitySpec => []StateFollowsReports
<1>1. ReportInvariant => StateFollowsReports
  BY DEF ReportInvariant, StateFollowsReports
<1>2. QED
  BY <1>1, ReportInit, ReportNext, PTL DEF ActivitySpec

\* The same of the account that delivery tasks work for: what they charge to its
\* allowance disturbs none of it.
THEOREM BudgetFollowsReports == Spec => []StateFollowsReports
<1>1. Init => ReportInvariant
  BY ReportInit DEF Init
<1>2. TypeOK /\ TypeOK' /\ ReportInvariant /\ [Next]_vars => ReportInvariant'
  <2> SUFFICES ASSUME TypeOK, TypeOK', ReportInvariant, [Next]_vars
               PROVE  ReportInvariant'
    OBVIOUS
  <2>1. CASE AccountStep
    BY <2>1, ReportAccount DEF AccountStep
  <2>2. CASE \E k \in Task, w \in Work : Bind(k, w)
    BY <2>2, ReportWork DEF Bind
  <2>3. CASE \E k \in Task : Reserve(k)
    <3>1. UNCHANGED <<now, history, session, presence>>
          /\ account'.reported = account.reported
          /\ account'.generation = account.generation
          /\ account'.expires = account.expires
      BY <2>3 DEF Reserve, TypeOK, ActivityTypeOK
    <3>2. QED
      BY <3>1, ReportQuiet DEF TypeOK
  <2>4. CASE UNCHANGED activityVars
    BY <2>4, ReportNext
  <2>5. QED
    BY <2>1, <2>2, <2>3, <2>4 DEF Next, TaskStep, FindDevices, Refuse, ValidateAndSend,
       Invalidate, Abandon, vars
<1>3. ReportInvariant => StateFollowsReports
  BY DEF ReportInvariant, StateFollowsReports
<1>4. QED
  BY <1>1, <1>2, <1>3, TypeCorrect, PTL DEF Spec

\* A generation that becomes current was never bound to any work, not even after
\* the account's state has expired.
THEOREM GenerationsAreFresh == ActivitySpec => GenerationsNeverReused
<1> DEFINE Issued == /\ ActivityTypeOK
                     /\ \A w \in Work : marker[w].generation <= visitSequence
                     /\ account.generation <= visitSequence
<1>1. ActivityInit => Issued
  BY ReportInit DEF ActivityInit, ReportInvariant, NoAccount, NoMarker
<1>2. ASSUME Issued, [ActivityNext]_activityVars
      PROVE  /\ Issued'
             /\ account'.generation \in {0, account.generation, visitSequence + 1}
  <2>1. CASE AccountNext
    <3>1. ActivityTypeOK'
      BY <1>2, <2>1, AccountNextType
    <3>2. CASE Tick
      BY <1>2, <3>1, <3>2, ReportTypes DEF Tick, NoAccount, NoMarker
    <3>3. CASE ~Tick
      BY <1>2, <2>1, <3>1, <3>3, ReportTypes DEF AccountNext, RecordActivity, SetRegistered
    <3>4. QED
      BY <3>2, <3>3
  <2>2. ASSUME NEW w \in Work, GenerationForWork(w)
        PROVE  /\ Issued'
               /\ account'.generation \in {0, account.generation, visitSequence + 1}
    <3>1. ActivityTypeOK'
      BY <1>2, <2>2, GenerationForWorkType
    <3>2. /\ account'.generation = CurrentGeneration
          /\ visitSequence' = IF NeedsGeneration THEN visitSequence + 1 ELSE visitSequence
      BY <1>2, <2>2, GivenGeneration
    <3>3. CurrentGeneration = IF NeedsGeneration THEN visitSequence + 1
                              ELSE account.generation
      BY DEF CurrentGeneration
    <3>4. WorkGeneration(w) = CurrentGeneration \/ WorkGeneration(w) = marker[w].generation
      BY DEF WorkGeneration
    <3>5. \A v \in Work : \/ marker'[v].generation = marker[v].generation
                          \/ marker'[v].generation = WorkGeneration(w) /\ v = w
      BY <1>2, <2>2 DEF GenerationForWork, ActivityTypeOK
    <3>6. QED
      BY <1>2, <3>1, <3>2, <3>3, <3>4, <3>5, ReportTypes
  <2>3. CASE UNCHANGED activityVars
    BY <1>2, <2>3 DEF activityVars, ActivityTypeOK
  <2>4. QED
    BY <1>2, <2>1, <2>2, <2>3 DEF ActivityNext
<1>3. Issued /\ [ActivityNext]_activityVars => [GenerationIsNew]_activityVars
  <2> SUFFICES ASSUME Issued, [ActivityNext]_activityVars,
                      account'.generation \notin {0, account.generation},
                      NEW w \in Work
               PROVE  marker[w].generation < account'.generation
    BY DEF GenerationIsNew
  <2>1. account'.generation = visitSequence + 1
    BY <1>2
  <2>2. QED
    BY <2>1, ReportTypes
<1>4. Issued /\ [ActivityNext]_activityVars => Issued'
  BY <1>2
<1> HIDE DEF Issued
<1>5. QED
  BY <1>1, <1>3, <1>4, PTL DEF ActivitySpec, GenerationsNeverReused

-----------------------------------------------------------------------------
(* Settings                                                                *)

\* A sum that saturates is exceeded only by what exceeds the sum: no override,
\* however large, wraps into a comparison that passes (config.rs:695).
LEMMA SaturatingIsSafe ==
  ASSUME NEW a \in U64, NEW b \in U64, NEW c \in U64, c > SaturatingAdd(a, b)
  PROVE c > a + b
BY U64Assumption DEF U64, SaturatingAdd

LEMMA NamesOfSettings ==
  ASSUME NEW s \in Setting
  PROVE /\ \A n \in DOMAIN Delivery : s[n] \in U64
        /\ \A n \in DOMAIN Service : s[n] \in U64
BY DEF Setting, Name

LEMMA TypedSettings ==
  ASSUME NEW s \in Setting
  PROVE /\ s["coalesce_group_ttl_secs"] \in U64
        /\ s["coalesce_window_secs"] \in U64
        /\ s["coalesce_lease_secs"] \in U64
        /\ s["coalesce_flush_timeout_secs"] \in U64
        /\ s["coalesce_logical_expiry_grace_secs"] \in U64
        /\ s["max_event_age_secs"] \in U64
        /\ s["min_interval_secs"] \in U64
        /\ s["quiet_start_hour"] \in U64
        /\ s["quiet_end_hour"] \in U64
<1>1. {"coalesce_group_ttl_secs", "coalesce_window_secs", "coalesce_lease_secs",
       "coalesce_flush_timeout_secs", "coalesce_logical_expiry_grace_secs"} \subseteq DOMAIN Service
  BY DEF Service
<1>2. {"max_event_age_secs", "min_interval_secs", "quiet_start_hour", "quiet_end_hour"}
        \subseteq DOMAIN Delivery
  BY DEF Delivery
<1>3. QED
  BY <1>1, <1>2, NamesOfSettings

\* The settings that ship pass the check, and have the relations it leaves to the
\* operator (config.rs:262-382, notification_delivery.rs:28-39).
THEOREM ShippedIsValid == Validates(Shipped) /\ Coherent(Shipped)
<1>1. Name = DOMAIN Delivery \cup DOMAIN Service \cup DOMAIN Nostr
  BY DEF Name
<1>2. /\ \A n \in DOMAIN Delivery : Shipped[n] = Delivery[n]
      /\ \A n \in DOMAIN Service \ DOMAIN Delivery : Shipped[n] = Service[n]
      /\ \A n \in DOMAIN Nostr \ (DOMAIN Delivery \cup DOMAIN Service) : Shipped[n] = Nostr[n]
  BY <1>1 DEF Shipped
<1>3. \A n \in Positive : Shipped[n] > 0
  <2>1. Positive = (DOMAIN Service \ {"coalesce_immediate_limit"}) \cup DOMAIN Nostr
    BY DEF Positive, Service, Nostr
  <2>2. DOMAIN Service \cap DOMAIN Delivery = {}
    BY DEF Service, Delivery
  <2>3. DOMAIN Nostr \cap (DOMAIN Delivery \cup DOMAIN Service) = {}
    BY DEF Service, Delivery, Nostr
  <2>4. \A n \in DOMAIN Service \ {"coalesce_immediate_limit"} : Service[n] > 0
    BY DEF Service
  <2>5. \A n \in DOMAIN Nostr : Nostr[n] > 0
    BY DEF Nostr
  <2>6. QED
    BY <1>2, <2>1, <2>2, <2>3, <2>4, <2>5
<1>4. PolicyIsKept(Shipped)
  <2>1. /\ Shipped["quiet_start_hour"] = 21 /\ Shipped["quiet_end_hour"] = 7
        /\ Shipped["hourly_cap"] = 5 /\ Shipped["daily_cap"] = 20
        /\ Shipped["max_event_age_secs"] = 3600 /\ Shipped["min_interval_secs"] = 21600
        /\ Shipped["absence_cap"] = 2
    BY <1>2 DEF Delivery
  <2>2. QED
    BY <2>1 DEF PolicyIsKept
<1>5. /\ Shipped["coalesce_group_ttl_secs"] = 86400
      /\ Shipped["coalesce_window_secs"] = 7200
      /\ Shipped["coalesce_lease_secs"] = 300
      /\ Shipped["coalesce_flush_timeout_secs"] = 120
      /\ Shipped["coalesce_logical_expiry_grace_secs"] = 3600
      /\ Shipped["processed_event_ttl_secs"] = 604800
      /\ Shipped["new_post_fanout_lease_secs"] = 1200
  BY <1>2 DEF Delivery, Service
<1>6. Shipped["max_event_age_secs"] = 3600 /\ Shipped["min_interval_secs"] = 21600
  BY <1>2 DEF Delivery
<1>7. GroupOutlivesWork(Shipped) /\ LeaseOutlivesFlush(Shipped)
  BY <1>5, U64Assumption DEF GroupOutlivesWork, LeaseOutlivesFlush, SaturatingAdd
<1>8. Coherent(Shipped)
  BY <1>5, <1>6 DEF Coherent, ClaimRelations
<1>9. QED
  BY <1>3, <1>4, <1>7, <1>8 DEF Validates

\* Whatever passes the check and the operator keeps coherent has every relation
\* that the modules of the outbox and of the budget assume of their constants.
THEOREM ValidSettingsSuffice ==
  ASSUME NEW s \in Setting, Validates(s), Coherent(s)
  PROVE OutboxRelations(s) /\ BudgetRelations(s) /\ ClaimRelations(s)
<1>1. s["coalesce_group_ttl_secs"] > s["coalesce_window_secs"] + s["coalesce_lease_secs"]
  BY TypedSettings, SaturatingIsSafe DEF Validates, GroupOutlivesWork
<1>2. s["coalesce_lease_secs"] > s["coalesce_flush_timeout_secs"] + s["coalesce_flush_timeout_secs"]
  BY TypedSettings, SaturatingIsSafe DEF Validates, LeaseOutlivesFlush
<1>3. OutboxRelations(s)
  BY <1>1, <1>2, TypedSettings, U64Assumption DEF OutboxRelations, Coherent, U64
<1>4. BudgetRelations(s)
  <2>1. s["hourly_cap"] > 0 /\ s["daily_cap"] > 0
    BY DEF Validates, PolicyIsKept
  <2>2. PICK gap \in Int : gap = s["min_interval_secs"] /\ gap >= 21600 /\ gap <= 86400
    BY TypedSettings, U64Assumption DEF U64, Validates, PolicyIsKept, Coherent
  <2>3. s["absence_cap"] \in 1..2
    BY DEF Validates, PolicyIsKept
  <2>4. s["absence_cap"] > 0
    BY <2>3, SMT
  <2>5. gap > 0
    BY <2>2, SMT
  <2>6. QED
    BY <2>1, <2>2, <2>4, <2>5 DEF BudgetRelations
<1>5. QED
  BY <1>3, <1>4 DEF Coherent

\* The check bounds the gap between two pushes from below only.  A gap longer
\* than a day passes it, although reservations are pruned after a day
\* (config.rs:560, notification_delivery.rs:179), so that gap is not kept.
THEOREM GapMayOutliveItsRecords ==
  LET s == [Shipped EXCEPT !["min_interval_secs"] = 86401]
  IN Validates(s) /\ ~BudgetRelations(s)
<1> DEFINE s == [Shipped EXCEPT !["min_interval_secs"] = 86401]
<1>1. "min_interval_secs" \in DOMAIN Delivery /\ "min_interval_secs" \notin Positive
  BY DEF Delivery, Positive
<1>2. DOMAIN Shipped = Name /\ "min_interval_secs" \in Name
  BY <1>1 DEF Shipped, Name
<1>3. s["min_interval_secs"] = 86401 /\ \A n \in Name : n # "min_interval_secs" => s[n] = Shipped[n]
  BY <1>2
<1>4. Positive \subseteq Name
  BY DEF Positive, Name, Service, Nostr
<1>5. \A n \in Positive : s[n] > 0
  BY <1>1, <1>3, <1>4, ShippedIsValid DEF Validates
<1>6. {"coalesce_group_ttl_secs", "coalesce_window_secs", "coalesce_lease_secs",
       "coalesce_flush_timeout_secs"} \subseteq Name
  BY DEF Name, Service
<1>7. {"quiet_start_hour", "quiet_end_hour", "hourly_cap", "daily_cap", "max_event_age_secs",
       "absence_cap"} \subseteq Name
  BY DEF Name, Delivery
<1> HIDE DEF s
<1>8. GroupOutlivesWork(s) /\ LeaseOutlivesFlush(s)
  BY <1>3, <1>6, ShippedIsValid DEF Validates, GroupOutlivesWork, LeaseOutlivesFlush
<1>9. PolicyIsKept(s)
  <2>1. PolicyIsKept(Shipped)
    BY ShippedIsValid DEF Validates
  <2>2. \A n \in {"hourly_cap", "daily_cap", "max_event_age_secs"} : s[n] > 0
    BY <1>3, <1>7, <2>1 DEF PolicyIsKept
  <2>3. /\ s["quiet_start_hour"] = Shipped["quiet_start_hour"]
        /\ s["quiet_end_hour"] = Shipped["quiet_end_hour"]
        /\ s["absence_cap"] = Shipped["absence_cap"]
    BY <1>3, <1>7
  <2>4. s["min_interval_secs"] >= 21600
    BY <1>3
  <2>5. QED
    BY <2>1, <2>2, <2>3, <2>4 DEF PolicyIsKept
<1>10. ~BudgetRelations(s)
  BY <1>3 DEF BudgetRelations
<1>11. QED
  BY <1>5, <1>8, <1>9, <1>10 DEF Validates, s

LEMMA HourOfDay ==
  ASSUME NEW second \in SecondOfDay
  PROVE second \div 3600 \in 0..23
BY SMT DEF SecondOfDay

LEMMA HourReached ==
  ASSUME NEW second \in SecondOfDay, NEW h \in 0..24
  PROVE second \div 3600 >= h <=> second >= h * 3600
BY SMT DEF SecondOfDay

LEMMA ValidHours ==
  ASSUME NEW s \in Setting, Validates(s)
  PROVE /\ s["quiet_start_hour"] \in 8..21
        /\ s["quiet_end_hour"] \in 7..23
        /\ s["quiet_start_hour"] > s["quiet_end_hour"]
<1>1. /\ s["quiet_start_hour"] \in 0..23 /\ s["quiet_start_hour"] <= 21
      /\ s["quiet_end_hour"] \in 0..23 /\ s["quiet_end_hour"] >= 7
      /\ s["quiet_start_hour"] > s["quiet_end_hour"]
  BY DEF Validates, PolicyIsKept
<1>2. QED
  BY <1>1, SMT

\* Validated quiet hours cover 21:00 to 07:00 of the device's day
\* (in_quiet_hours, notification_delivery.rs:43).
THEOREM NightIsQuiet ==
  ASSUME NEW s \in Setting, Validates(s), NEW second \in SecondOfDay,
         second >= 21 * 3600 \/ second < 7 * 3600
  PROVE InQuietHours(second, s)
<1>1. PICK hour \in 0..23 : hour = second \div 3600
  BY HourOfDay
<1>2. hour >= 21 \/ ~(hour >= 7)
  <2>1. hour >= 21 <=> second >= 21 * 3600
    BY <1>1, HourReached
  <2>2. hour >= 7 <=> second >= 7 * 3600
    BY <1>1, HourReached
  <2>3. QED
    BY <2>1, <2>2, SMT DEF SecondOfDay
<1>3. PICK start \in 8..21, end \in 7..23 :
        start = s["quiet_start_hour"] /\ end = s["quiet_end_hour"] /\ start > end
  BY ValidHours
<1>4. hour >= start \/ hour < end
  BY <1>2, <1>3, SMT
<1>5. QED
  BY <1>1, <1>3, <1>4 DEF InQuietHours

LEMMA WithinTheDay ==
  ASSUME NEW v \in Int, v >= 0, v < 86400
  PROVE v % 86400 = v /\ (v + 86400) % 86400 = v
BY SMT

LEMMA WaitingReaches ==
  ASSUME NEW second \in Int, second >= 0, second < 86400,
         NEW target \in Int, target >= 0, target < 86400, target # second
  PROVE /\ (target - second) % 86400 \in Nat
        /\ (target - second) % 86400 > 0
        /\ (target - second) % 86400 < 86400
        /\ (second + ((target - second) % 86400)) % 86400 = target
<1>1. CASE target > second
  <2>1. (target - second) % 86400 = target - second
    BY <1>1, SMT
  <2>2. target - second \in Nat /\ target - second > 0 /\ target - second < 86400
    BY <1>1, SMT
  <2>3. second + (target - second) = target
    BY SMT
  <2>4. target % 86400 = target
    BY WithinTheDay
  <2>5. QED
    BY <2>1, <2>2, <2>3, <2>4
<1>2. CASE target < second
  <2>1. (target - second) % 86400 = target - second + 86400
    BY <1>2, SMT
  <2>2. /\ target - second + 86400 \in Nat
        /\ target - second + 86400 > 0
        /\ target - second + 86400 < 86400
    BY <1>2, SMT
  <2>3. second + (target - second + 86400) = target + 86400
    BY SMT
  <2>4. (target + 86400) % 86400 = target
    BY WithinTheDay
  <2>5. QED
    BY <2>1, <2>2, <2>3, <2>4
<1>3. QED
  BY <1>1, <1>2, SMT

LEMMA AwakeAtEnd ==
  ASSUME NEW s \in Setting, Validates(s)
  PROVE ~InQuietHours(s["quiet_end_hour"] * 3600, s)
<1>1. PICK end \in 7..23, start \in 8..21 :
        end = s["quiet_end_hour"] /\ start = s["quiet_start_hour"] /\ start > end
  BY ValidHours
<1>2. (end * 3600) \div 3600 = end
  BY SMT
<1>3. ~(end >= start) /\ ~(end < end)
  BY <1>1, SMT
<1>4. QED
  BY <1>1, <1>2, <1>3 DEF InQuietHours

\* A campaign that met quiet hours is offered again later, within a day, and
\* outside them: it never goes round on the same quiet hours
\* (quiet_hours_retry_after, campaign_delivery.rs:264).
THEOREM RetryIsNotQuiet ==
  ASSUME NEW s \in Setting, Validates(s), NEW second \in SecondOfDay,
         InQuietHours(second, s)
  PROVE /\ UntilQuietEnds(second, s) > 0
        /\ UntilQuietEnds(second, s) < 86400
        /\ ~InQuietHours(SecondAfter(second, UntilQuietEnds(second, s)), s)
<1>1. PICK end \in 7..23, start \in 8..21 :
        end = s["quiet_end_hour"] /\ start = s["quiet_start_hour"] /\ start > end
  BY ValidHours
<1>2. PICK wait : wait = UntilQuietEnds(second, s)
  OBVIOUS
<1>3. wait = (end * 3600 - second) % 86400
  BY <1>1, <1>2 DEF UntilQuietEnds
<1>4. /\ second \div 3600 >= start <=> second >= start * 3600
      /\ second \div 3600 >= end <=> second >= end * 3600
      /\ second \div 3600 \in 0..23
  BY <1>1, HourReached, HourOfDay
<1>5. second # end * 3600
  <2>1. second \div 3600 >= start \/ second \div 3600 < end
    BY <1>1 DEF InQuietHours
  <2>2. second >= start * 3600 \/ ~(second >= end * 3600)
    BY <1>4, <2>1, SMT
  <2>3. QED
    BY <1>1, <2>2, SMT DEF SecondOfDay
<1>6. PICK target \in Int : target = end * 3600 /\ target >= 0 /\ target < 86400
  BY SMT
<1>7. second \in Int /\ second >= 0 /\ second < 86400
  BY DEF SecondOfDay
<1>8. /\ (target - second) % 86400 > 0
      /\ (target - second) % 86400 < 86400
      /\ (second + ((target - second) % 86400)) % 86400 = target
  BY <1>5, <1>6, <1>7, WaitingReaches
<1>9. /\ wait > 0 /\ wait < 86400
      /\ SecondAfter(second, wait) = s["quiet_end_hour"] * 3600
  BY <1>1, <1>3, <1>6, <1>8 DEF SecondAfter
<1>10. QED
  BY <1>2, <1>9, AwakeAtEnd
=============================================================================
