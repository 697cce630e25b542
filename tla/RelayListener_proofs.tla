------------------------ MODULE RelayListener_proofs ------------------------
(***************************************************************************)
(* What is proved of the relay listener and of the supervision that it     *)
(* runs under, for any tasks, archives, capacities and timeouts.           *)
(***************************************************************************)
EXTENDS RelayListener, FiniteSetTheorems, SequenceTheorems, WellFoundedInduction, TLAPS


-----------------------------------------------------------------------------
(* The operators                                                           *)

LEMMA Numbers ==
  /\ Silence \in Nat \ {0} /\ Grace \in Nat /\ Backoff \in Nat \ {0}
  /\ MaxRecoveries \in Nat \ {0} /\ PageLimit \in Nat \ {0}
  /\ FeedCapacity \in Nat \ {0} /\ InboxCapacity \in Nat \ {0} /\ MaxFailures \in Nat
  /\ Listener \in Task /\ Handler \in Task /\ Listener # Handler
  /\ Critical \subseteq Task /\ Critical \cap Tolerated = {}
BY ListenerAssumption, SupervisionAssumption

LEMMA LeastExists ==
  ASSUME NEW S \in SUBSET Nat, S # {}
  PROVE  \E x \in S : \A y \in S : x <= y
<1>1. PICK x \in S : \A y \in S : ~(<<y, x>> \in OpToRel(<, Nat))
  BY NatLessThanWellFounded, WFMin
<1>2. \A y \in S : ~(y < x)
  BY <1>1 DEF OpToRel
<1>3. QED
  BY <1>2

LEMMA MinOfNats ==
  ASSUME NEW S \in SUBSET Nat, S # {}
  PROVE  Min(S) \in S /\ \A y \in S : Min(S) <= y
BY LeastExists DEF Min

LEMMA MaxOfRange ==
  ASSUME NEW n \in Nat, NEW S \in SUBSET (0..n), S # {}
  PROVE  Max(S) \in S /\ \A y \in S : Max(S) >= y
<1> DEFINE T == {n - x : x \in S}
<1>1. T \in SUBSET Nat /\ T # {}
  <2>1. \A x \in S : x \in 0..n /\ n - x \in Nat
    OBVIOUS
  <2>2. QED
    BY <2>1
<1>2. PICK t \in T : \A u \in T : t <= u
  BY <1>1, LeastExists
<1>3. PICK x \in S : t = n - x
  BY <1>2
<1>4. ASSUME NEW y \in S
      PROVE  x >= y
  BY <1>2, <1>3
<1>5. \E z \in S : \A y \in S : z >= y
  BY <1>4
<1>6. QED
  BY <1>5 DEF Max

FromLast(ages, i) == ages[Len(ages) - i]
Sorted(ages) == \A i, j \in 1..Len(ages) : i < j => ages[i] >= ages[j]

\* What is young of sorted ages are the last of them, and all that are below limit.
LEMMA YoungAreLast ==
  ASSUME NEW ages \in Seq(Nat), NEW limit \in Int
  PROVE  /\ Young(ages, limit) \in Seq(Nat)
         /\ Len(Young(ages, limit)) <= Len(ages)
         /\ \A i \in 0..(Len(Young(ages, limit)) - 1) :
              FromLast(Young(ages, limit), i) = FromLast(ages, i)
         /\ \A i \in 1..Len(Young(ages, limit)) : Young(ages, limit)[i] < limit
         /\ Sorted(ages) => /\ Sorted(Young(ages, limit))
                            /\ \A i \in 0..(Len(ages) - 1) :
                                 FromLast(ages, i) < limit => i < Len(Young(ages, limit))
<1> DEFINE old == {0} \cup {i \in DOMAIN ages : ages[i] >= limit}
           y == Young(ages, limit)
<1>1. PICK n \in Nat : /\ Len(ages) = n /\ DOMAIN ages = 1..n
                       /\ \A i \in 1..n : ages[i] \in Nat
  OBVIOUS
<1>2. PICK k \in 0..n : /\ Max(old) = k
                        /\ k # 0 => ages[k] >= limit
                        /\ \A i \in 1..n : ages[i] >= limit => i <= k
  <2>1. old \in SUBSET (0..n) /\ old # {}
    BY <1>1
  <2>2. Max(old) \in old /\ \A i \in old : Max(old) >= i
    BY <2>1, <1>1, MaxOfRange
  <2>3. Max(old) \in 0..n
    BY <2>1, <2>2
  <2>4. \A i \in 1..n : ages[i] >= limit => i \in old
    BY <1>1
  <2>5. Max(old) # 0 => ages[Max(old)] >= limit
    BY <2>2
  <2> HIDE DEF old
  <2>6. QED
    BY <2>2, <2>3, <2>4, <2>5
<1>3. y = SubSeq(ages, k + 1, n)
  <2>1. y = SubSeq(ages, Max(old) + 1, Len(ages))
    BY DEF Young
  <2> HIDE DEF y, old
  <2>2. QED
    BY <2>1, <1>1, <1>2
<1> HIDE DEF y, old
<1>4. /\ y \in Seq(Nat)
      /\ Len(y) = n - k
      /\ \A i \in 1..(n - k) : y[i] = ages[k + i]
  <2>1. \A i \in (k + 1)..n : ages[i] \in Nat
    BY <1>1
  <2>2. /\ SubSeq(ages, k + 1, n) \in Seq(Nat)
        /\ Len(SubSeq(ages, k + 1, n)) = IF k + 1 <= n THEN n - (k + 1) + 1 ELSE 0
        /\ \A i \in 1 .. n - (k + 1) + 1 : SubSeq(ages, k + 1, n)[i] = ages[(k + 1) + i - 1]
    <3>1. k + 1 \in Int /\ n \in Int
      OBVIOUS
    <3>2. QED
      BY <2>1, <3>1, SubSeqProperties
  <2>3. /\ n - (k + 1) + 1 = n - k
        /\ (IF k + 1 <= n THEN n - (k + 1) + 1 ELSE 0) = n - k
        /\ \A i \in 1..(n - k) : (k + 1) + i - 1 = k + i
    OBVIOUS
  <2>4. QED
    BY <1>3, <2>2, <2>3
<1>5. \A i \in (k + 1)..n : ages[i] < limit
  <2>1. ASSUME NEW i \in (k + 1)..n
        PROVE  ages[i] < limit
    <3>1. i \in 1..n /\ ~(i <= k)
      OBVIOUS
    <3>2. ages[i] \in Nat /\ ~(ages[i] >= limit)
      BY <3>1, <1>1, <1>2
    <3>3. QED
      BY <3>2
  <2>2. QED
    BY <2>1
<1>6. Sorted(ages) => \A i \in 1..k : ages[i] >= limit
  <2>1. ASSUME Sorted(ages), NEW i \in 1..k, i # k
        PROVE  ages[i] >= ages[k]
    BY <1>1, <2>1 DEF Sorted
  <2>2. ASSUME Sorted(ages), NEW i \in 1..k
        PROVE  ages[i] >= limit
    <3>1. k \in 1..n /\ k # 0 /\ i \in 1..n
      OBVIOUS
    <3>2. ages[k] >= limit /\ ages[k] \in Nat /\ ages[i] \in Nat
      BY <3>1, <1>1, <1>2
    <3>3. QED
      BY <2>1, <2>2, <3>2
  <2>3. QED
    BY <2>2
<1>7. \A i \in 0..(Len(y) - 1) : FromLast(y, i) = FromLast(ages, i)
  <2>1. ASSUME NEW i \in 0..(n - k - 1)
        PROVE  y[n - k - i] = ages[n - i]
    <3>1. n - k - i \in 1..(n - k) /\ k + (n - k - i) = n - i
      OBVIOUS
    <3>2. QED
      BY <3>1, <1>4
  <2>2. QED
    BY <2>1, <1>1, <1>4 DEF FromLast
<1>8. \A i \in 1..Len(y) : y[i] < limit
  BY <1>1, <1>4, <1>5
<1>9. Sorted(ages) => Sorted(y)
  <2>1. ASSUME Sorted(ages), NEW i \in 1..(n - k), NEW j \in 1..(n - k), i < j
        PROVE  y[i] >= y[j]
    <3>1. k + i \in 1..n /\ k + j \in 1..n /\ k + i < k + j
      BY <2>1
    <3>2. QED
      BY <2>1, <3>1, <1>1, <1>4 DEF Sorted
  <2>2. QED
    BY <2>1, <1>4 DEF Sorted
<1>10. Sorted(ages) => \A i \in 0..(n - 1) : FromLast(ages, i) < limit => i < Len(y)
  <2>1. ASSUME Sorted(ages), NEW i \in 0..(n - 1), ages[n - i] < limit, ~(i < n - k)
        PROVE  FALSE
    <3>1. n - i \in 1..k
      BY <2>1
    <3>2. ages[n - i] \in Nat
      BY <1>1, <3>1
    <3>3. QED
      BY <3>1, <3>2, <2>1, <1>6
  <2>2. QED
    BY <2>1, <1>1, <1>4 DEF FromLast
<1>11. Len(y) <= Len(ages)
  BY <1>1, <1>4
<1>12. QED
  BY <1>1, <1>4, <1>7, <1>8, <1>9, <1>10, <1>11 DEF y
-----------------------------------------------------------------------------
(* Types                                                                   *)

Notifications == {Event, Noise} \cup {Closed(s, limited) : s \in Subscription, limited \in BOOLEAN}
Todos == {Requests, <<"lists">>, <<>>}

Plain == [at : {"connecting", "history", "cancelled", "live", "sending", "ended"}]
Lists == SUBSET UNION Archives
Asking == [at : {"asking"}, archive : Archives, until : {{}} \cup {{d} : d \in Nat}, seen : Lists]
Paging == [at : {"paging"}, archive : Archives, page : Lists, seen : Lists, todo : Lists]
Paged == [at : {"paged"}, missed : Lists, archive : Archives]
FirstAsk == [at : {"subscribing"}, why : {"start", "silence"}, todo : Todos]
NextAsk == [at : {"subscribing"}, why : {"closure"}, todo : Todos, trigger : Subscription,
            waited : {0, Backoff}]
Wait == [at : {"backoff"}, left : 0..Backoff,
         next : {AskAgain(s, Backoff) : s \in Subscription}]

Steps == UNION {Plain, Asking, Paging, Paged, FirstAsk, NextAsk, Wait}

Recoveries == {NoRecovery} \cup [trigger : Subscription, age : Nat, sibling : BOOLEAN,
                                 resumed : BOOLEAN]

ListenerTypeOK ==
  /\ step \in Steps
  /\ sub \in [Subscription -> {"none", "open", "closed"}]
  /\ feed \in Seq(Notifications)
  /\ inbox \in 0..InboxCapacity
  /\ deadline \in 0..Silence
  /\ attempted \in BOOLEAN
  /\ recovery \in Recoveries
  /\ attempts \in Seq(Nat)
  /\ failures \in 0..MaxFailures
  /\ quiet \in 0..LongestQuiet
  /\ overlooked \in SUBSET Subscription
  /\ renewals \in Seq(Nat)

TypeOK == SupervisionTypeOK /\ ListenerTypeOK

-----------------------------------------------------------------------------
(* What a replica reports: why CleanExitWasAskedFor and HealthIsHonest hold. *)

\* Every panic is told to main, or its guard is still at work.
PanicsAreTold ==
  panicked => unexpected \/ \E t \in Task : status[t] \in {"panicked", "dying"}

NothingSpawned == main = "starting" => \A t \in Task : status[t] = "unspawned"

MarkedIsUnexpected == \A t \in Task : status[t] = "marked" => unexpected

\* Nothing is cancelled without being asked for, or something unexpected.
StopHasReason ==
  cancelled \/ main \in {"stopping", "joining"} => signalled \/ unexpected

\* The exit code is chosen when all is over.
CleanExitIsFinal ==
  /\ code # NoCode => main = "exited"
  /\ code = 0 => Joined /\ ~unexpected /\ signalled

\* A task that may not end by itself is dead, or was asked to stop.
DeadIsReported ==
  \A t \in Critical :
    /\ status[t] = "marked" => t \notin alive
    /\ status[t] = "gone" => cancelled

ReportInvariant ==
  /\ NothingSpawned /\ PanicsAreTold /\ MarkedIsUnexpected
  /\ StopHasReason /\ CleanExitIsFinal /\ DeadIsReported

-----------------------------------------------------------------------------
(* The event-flow watchdog: why SilenceIsBounded holds.                    *)

\* What the time without an event and the time left to the watchdog add up to.
QuietIsWatched ==
  /\ At("live") => quiet + deadline <= IF attempted THEN LongestQuiet - 1 ELSE Silence
  /\ At("backoff") => quiet + step.left < Silence + Backoff
  /\ At("subscribing") => quiet < Silence + Backoff
  /\ step.at \notin {"live", "sending", "backoff", "subscribing"} => quiet = 0
  /\ At("subscribing") /\ step.why = "start" => quiet = 0

-----------------------------------------------------------------------------
(* Closures: why ClosureIsHeeded holds.                                    *)

\* While the listener subscribes anew, what it has still to ask for is heeded.
ToAsk == IF At("subscribing") THEN Range(step.todo) ELSE {}

ClosureIsSeen ==
  ~At("backoff") => Unheeded(sub, feed) \subseteq overlooked \cup ToAsk

-----------------------------------------------------------------------------
(* Recoveries: why ReplaysAreRationed holds.                               *)

Recovering == At("backoff") \/ (At("subscribing") /\ step.why = "closure")

\* Every renewal but the oldest stands for an attempt that still counts.
RenewalsAreCounted ==
  \A i \in Nat : i + 1 < Len(renewals) =>
    i < Len(attempts) /\ FromLast(attempts, i) <= FromLast(renewals, i) + Backoff

\* Since the latest renewal the watchdog's timer has run.
RenewalsAreTimed ==
  \A i \in 1..Len(renewals) : Silence - deadline <= renewals[i] /\ renewals[i] < Silence

AttemptsAreFew == Len(attempts) <= MaxRecoveries - (IF Recovering THEN 1 ELSE 0)

SilenceFindsNoRenewal ==
  At("subscribing") /\ step.why = "silence" => renewals = <<>>

\* Whatever is attempted now is later than the attempts that count.
AttemptsAreEarlier ==
  \A i \in 1..Len(attempts) :
    /\ At("backoff") => attempts[i] >= Backoff - step.left
    /\ At("subscribing") /\ step.why = "closure" => attempts[i] >= step.waited

RationInvariant ==
  /\ Sorted(attempts) /\ Sorted(renewals)
  /\ RenewalsAreCounted /\ RenewalsAreTimed
  /\ AttemptsAreFew /\ AttemptsAreEarlier /\ SilenceFindsNoRenewal

-----------------------------------------------------------------------------
(* The replay of notify lists: why ListsAreReplayed holds.                 *)

\* So many lists of one date, no older than l, that they fill a page.
Excused(archive, l) ==
  \E m \in archive :
    m.date >= l.date /\ Cardinality({o \in archive : o.date = m.date}) >= PageLimit

\* Before a page is asked for: what is later than its end was seen, and nothing that
\* is older.
PagesGoBack ==
  At("asking") =>
    /\ step.until = {} => step.seen = {}
    /\ \A d \in step.until :
         /\ \A l \in step.seen : l.date >= d
         /\ \A l \in step.archive \ step.seen : l.date > d => Excused(step.archive, l)

\* While a page is forwarded: what was neither seen nor is on the page is no later
\* than what is, and nothing on the page is later than what was seen.
PageIsNext ==
  At("paging") =>
    /\ step.page \subseteq step.archive
    /\ \A l \in step.seen, p \in step.page : p.date <= l.date
    /\ \A l \in step.archive \ (step.seen \cup step.page) :
         \/ Excused(step.archive, l)
         \/ /\ Cardinality(step.page) >= PageLimit
            /\ \A p \in step.page : l.date <= p.date

ReplayInvariant == PagesGoBack /\ PageIsNext /\ ListsAreReplayed

-----------------------------------------------------------------------------
(* Supervision                                                             *)

\* What the tasks, their guards and main do.
SupervisionNext ==
  \/ \E t \in Task : Return(t) \/ Panic(t) \/ Guard(t)
  \/ FailToStart \/ Signal \/ MainStep

LEMMA SupervisionActs ==
  ASSUME [Next]_replicaVars
  PROVE  SupervisionNext \/ UNCHANGED supervisionVars
<1>1. CASE UNCHANGED replicaVars
  BY <1>1 DEF replicaVars
<1>2. CASE Say \/ \E s \in Subscription : Close(s)
  BY <1>2 DEF Say, Close, Post
<1>3. CASE Answer
  <2>1. End => Return(Listener)
    BY DEF End
  <2>2. CASE FetchPage \/ ForwardList \/ NextPage \/ FinishHistory \/ FinishStored \/ Subscribe
    BY <2>2 DEF FetchPage, ForwardList, NextPage, FinishHistory, FinishStored, Subscribe
  <2>3. CASE Connect \/ FinishSubscribing \/ BackOff \/ Forward
    BY <2>3 DEF Connect, FinishSubscribing, BackOff, Forward, GoTo
  <2>4. CASE FailToConnect \/ FailToSubscribe \/ HeedCancellation \/ LoseHandler \/ HearSilence
    BY <2>1, <2>4, Numbers
       DEF FailToConnect, FailToSubscribe, HeedCancellation, LoseHandler, HearSilence,
           SupervisionNext
  <2>5. CASE Hear
    BY <2>1, <2>5, Numbers
       DEF Hear, ReceiveEvent, ReceiveNoise, ClosedTwice, ClosedOnce, GoTo, SupervisionNext
  <2>6. QED
    BY <1>3, <2>2, <2>3, <2>4, <2>5 DEF Answer
<1>4. CASE ForwardStored \/ LosePool \/ HandleEvent \/ Tick
  BY <1>4, Numbers DEF ForwardStored, LosePool, HandleEvent, Tick, End, SupervisionNext
<1>5. CASE \E t \in Task : TaskEnds(t) \/ TaskPanics(t)
  BY <1>5 DEF TaskEnds, TaskPanics, SupervisionNext
<1>6. CASE Supervised(\E t \in Task : Guard(t))
  BY <1>6 DEF Supervised, SupervisionNext
<1>7. CASE Supervised(FailToStart \/ Signal \/ MainStep)
  BY <1>7 DEF Supervised, SupervisionNext
<1>8. QED
  BY <1>1, <1>2, <1>3, <1>4, <1>5, <1>6, <1>7 DEF Next

LEMMA SupervisionTypes ==
  ASSUME SupervisionTypeOK, SupervisionNext
  PROVE  SupervisionTypeOK'
<1>1. CASE \E t \in Task : Return(t) \/ Panic(t) \/ Guard(t)
  BY <1>1 DEF SupervisionTypeOK, Return, Panic, Guard, Judge, MarkDead, CancelOthers, Becomes,
     UnexpectedAfter, CancelledAfter, mainVars
<1>2. CASE FailToStart \/ Signal \/ MainStep
  BY <1>2 DEF SupervisionTypeOK, FailToStart, Signal, MainStep, Spawn, SeeCancelled, CancelAll,
     Exit, taskVars
<1>3. QED
  BY <1>1, <1>2 DEF SupervisionNext

LEMMA SupervisionSteps ==
  ASSUME SupervisionTypeOK, ReportInvariant, SupervisionNext
  PROVE  ReportInvariant'
<1> USE DEF SupervisionTypeOK, ReportInvariant, PanicsAreTold, NothingSpawned, MarkedIsUnexpected, StopHasReason,
            CleanExitIsFinal, DeadIsReported, Joined
<1>1. ASSUME NEW t \in Task, Return(t)
      PROVE  ReportInvariant'
  BY <1>1, Numbers DEF Return, Running, Becomes, mainVars
<1>2. ASSUME NEW t \in Task, Panic(t)
      PROVE  ReportInvariant'
  BY <1>2, Numbers DEF Panic, Running, Becomes
<1>3. ASSUME NEW t \in Task, Judge(t)
      PROVE  ReportInvariant'
  BY <1>3, Numbers DEF Judge, Ended, InOrder, Becomes, mainVars
<1>4. ASSUME NEW t \in Task, MarkDead(t)
      PROVE  ReportInvariant'
  BY <1>4, Numbers DEF MarkDead, UnexpectedAfter, Becomes, mainVars
<1>5. ASSUME NEW t \in Task, CancelOthers(t)
      PROVE  ReportInvariant'
  BY <1>5, Numbers DEF CancelOthers, CancelledAfter, Becomes, mainVars
<1>6. CASE FailToStart \/ Signal
  BY <1>6, Numbers DEF FailToStart, Signal, taskVars, NoCode
<1>7. CASE Spawn
  BY <1>7, Numbers DEF Spawn, NoCode
<1>8. CASE SeeCancelled \/ CancelAll \/ Exit
  BY <1>8, Numbers DEF SeeCancelled, CancelAll, Exit, taskVars, NoCode
<1>9. QED
  BY <1>1, <1>2, <1>3, <1>4, <1>5, <1>6, <1>7, <1>8 DEF SupervisionNext, Guard, MainStep

SupervisionInvariant == SupervisionTypeOK /\ ReportInvariant

LEMMA SupervisionStarts == SupervisionInit => SupervisionInvariant
<1>1. SupervisionInit => SupervisionTypeOK
  BY DEF SupervisionInit, SupervisionTypeOK
<1>2. SupervisionInit => ReportInvariant
  BY Numbers DEF SupervisionInit, ReportInvariant, PanicsAreTold, NothingSpawned,
     MarkedIsUnexpected, StopHasReason, CleanExitIsFinal, DeadIsReported, NoCode
<1>3. QED
  BY <1>1, <1>2 DEF SupervisionInvariant

LEMMA SupervisionGoesOn == SupervisionInvariant /\ [Next]_replicaVars => SupervisionInvariant'
<1> SUFFICES ASSUME SupervisionInvariant, [Next]_replicaVars
             PROVE  SupervisionInvariant'
  OBVIOUS
<1>1. CASE SupervisionNext
  BY <1>1, SupervisionTypes, SupervisionSteps DEF SupervisionInvariant
<1>2. CASE UNCHANGED supervisionVars
  BY <1>2 DEF SupervisionInvariant, SupervisionTypeOK, ReportInvariant, PanicsAreTold,
     NothingSpawned, MarkedIsUnexpected, StopHasReason, CleanExitIsFinal, DeadIsReported, Joined,
     supervisionVars, taskVars, mainVars
<1>3. QED
  BY <1>1, <1>2, SupervisionActs

LEMMA SupervisionHolds == Spec => []SupervisionInvariant
<1>1. Init => SupervisionInvariant
  BY SupervisionStarts DEF Init
<1>2. QED
  BY <1>1, SupervisionGoesOn, PTL DEF Spec

\* A replica says what is so: it exits with 0 only if it was asked to and no task
\* panicked, and its probes fail while a dead critical task has not stopped it.
THEOREM RepliesAreTrue == Spec => []ReportsAreHonest
<1>1. SupervisionInvariant => ReportsAreHonest
  <2>1. SupervisionInvariant => CleanExitWasAskedFor
    BY DEF SupervisionInvariant, SupervisionTypeOK, ReportInvariant, CleanExitIsFinal,
       PanicsAreTold, Joined, CleanExitWasAskedFor
  <2>2. SupervisionInvariant => HealthIsHonest
    BY DEF SupervisionInvariant, ReportInvariant, DeadIsReported, HealthIsHonest, ProbeStatus
  <2>3. QED
    BY <2>1, <2>2 DEF ReportsAreHonest
<1>2. QED
  BY <1>1, SupervisionHolds, PTL

-----------------------------------------------------------------------------
(* Types of the listener                                                   *)

LEMMA StepShapes ==
  ASSUME step \in Steps
  PROVE  /\ At("asking") => step \in Asking
         /\ At("paging") => step \in Paging
         /\ At("paged") => step \in Paged
         /\ At("subscribing") => step \in FirstAsk \cup NextAsk
         /\ At("backoff") => step \in Wait
BY DEF Steps, Plain, Asking, Paging, Paged, FirstAsk, NextAsk, Wait, At

LEMMA PlainSteps ==
  /\ \A name \in {"connecting", "history", "cancelled", "live", "sending", "ended"} :
       [at |-> name] \in Steps
  /\ \A name \in {"start", "silence"} : Ask(name) \in Steps
  /\ \A s \in Subscription : \A waited \in {0, Backoff} : AskAgain(s, waited) \in Steps
BY DEF Steps, Plain, Ask, AskAgain, FirstAsk, NextAsk, Todos

\* Steps that leave the locals of the live loop as they are.
LocalTypeOK ==
  /\ sub \in [Subscription -> {"none", "open", "closed"}]
  /\ feed \in Seq(Notifications)
  /\ deadline \in 0..Silence
  /\ attempted \in BOOLEAN
  /\ recovery \in Recoveries
  /\ attempts \in Seq(Nat)
  /\ quiet \in 0..LongestQuiet
  /\ overlooked \in SUBSET Subscription
  /\ renewals \in Seq(Nat)

HandlerTypeOK == inbox \in 0..InboxCapacity /\ failures \in 0..MaxFailures

LEMMA TypeParts == ListenerTypeOK <=> step \in Steps /\ LocalTypeOK /\ HandlerTypeOK
BY DEF ListenerTypeOK, LocalTypeOK, HandlerTypeOK

LEMMA TypePartsNext == ListenerTypeOK' <=> step' \in Steps /\ LocalTypeOK' /\ HandlerTypeOK'
BY DEF ListenerTypeOK, LocalTypeOK, HandlerTypeOK

LEMMA DroppedTypes == Dropped => LocalTypeOK'
<1>1. <<>> \in Seq(Nat) /\ <<>> \in Seq(Notifications)
  OBVIOUS
<1>2. Silence \in 0..Silence /\ 0 \in 0..LongestQuiet
  BY Numbers DEF LongestQuiet
<1>3. NoRecovery \in Recoveries
  BY DEF Recoveries
<1>4. QED
  BY <1>1, <1>2, <1>3 DEF Dropped, LocalTypeOK

LEMMA SameLocals ==
  LocalTypeOK /\ UNCHANGED <<sub, feed, watchVars, flowHistory>> => LocalTypeOK'
BY DEF LocalTypeOK, watchVars, flowHistory

LEMMA SameHandler == HandlerTypeOK /\ UNCHANGED handlerVars => HandlerTypeOK'
BY DEF HandlerTypeOK, handlerVars

LEMMA EndTypes == HandlerTypeOK /\ End => ListenerTypeOK'
BY DroppedTypes, SameHandler, PlainSteps, TypePartsNext DEF End

LEMMA FeedTypes ==
  ASSUME LocalTypeOK
  PROVE  /\ \A n \in Notifications : Posted(n) \in Seq(Notifications)
         /\ feed # <<>> => /\ Head(feed) \in Notifications
                           /\ Tail(feed) \in Seq(Notifications)
<1>1. feed \in Seq(Notifications) /\ Len(feed) \in Nat
  BY DEF LocalTypeOK
<1>2. feed # <<>> => Head(feed) \in Notifications /\ Tail(feed) \in Seq(Notifications)
  BY <1>1, HeadTailProperties
<1>3. ASSUME NEW n \in Notifications
      PROVE  Posted(n) \in Seq(Notifications)
  <2>1. CASE Len(feed) < FeedCapacity
    BY <1>1, <2>1, AppendProperties DEF Posted
  <2>2. CASE ~(Len(feed) < FeedCapacity)
    <3>1. feed # <<>>
      BY <1>1, <2>2, Numbers
    <3>2. QED
      BY <1>2, <2>2, <3>1, AppendProperties DEF Posted
  <2>3. QED
    BY <2>1, <2>2
<1>4. QED
  BY <1>2, <1>3

LEMMA PostTypes ==
  ASSUME ListenerTypeOK, NEW n \in Notifications, Post(n),
         sub' \in [Subscription -> {"none", "open", "closed"}]
  PROVE  ListenerTypeOK'
<1>1. feed' \in Seq(Notifications)
  BY FeedTypes, TypeParts DEF Post, LocalTypeOK
<1>2. overlooked' \in SUBSET Subscription
  BY DEF Post, ListenerTypeOK, Unheeded
<1>3. QED
  BY <1>1, <1>2 DEF Post, ListenerTypeOK, watchVars, handlerVars

LEMMA RelayTypes ==
  ASSUME ListenerTypeOK, Say \/ \E s \in Subscription : Close(s)
  PROVE  ListenerTypeOK'
<1>1. CASE Say
  <2>1. PICK n \in {Event, Noise} : Post(n)
    BY <1>1 DEF Say
  <2>2. QED
    BY <1>1, <2>1, PostTypes DEF Say, Notifications, ListenerTypeOK
<1>2. ASSUME NEW s \in Subscription, Close(s)
      PROVE  ListenerTypeOK'
  <2>1. PICK limited \in BOOLEAN : Post(Closed(s, limited))
    BY <1>2 DEF Close
  <2>2. Closed(s, limited) \in Notifications
    BY DEF Notifications
  <2>3. sub' \in [Subscription -> {"none", "open", "closed"}]
    BY <1>2 DEF Close, ListenerTypeOK
  <2>4. QED
    BY <2>1, <2>2, <2>3, PostTypes
<1>3. QED
  BY <1>1, <1>2

LEMMA SendTypes == HandlerTypeOK /\ Send => HandlerTypeOK'
BY Numbers DEF HandlerTypeOK, Send

LEMMA OldestIsDate ==
  ASSUME step \in Paging, step.page # {}
  PROVE  /\ Oldest(step.page) \in Nat
         /\ \A p \in step.page : Oldest(step.page) <= p.date
         /\ \E p \in step.page : Oldest(step.page) = p.date
<1> DEFINE dates == {l.date : l \in step.page}
<1>1. \A l \in step.page : l.date \in Nat
  BY ListenerAssumption DEF Paging, Lists
<1>2. dates \in SUBSET Nat /\ dates # {}
  BY <1>1
<1>3. Min(dates) \in dates /\ \A d \in dates : Min(dates) <= d
  BY <1>2, MinOfNats
<1>4. QED
  BY <1>2, <1>3 DEF Oldest

LEMMA FullPage ==
  ASSUME step \in Paging, ~IsLastPage(step.page, step.seen)
  PROVE  step.page # {}
<1>1. Cardinality({}) = 0
  BY FS_EmptySet
<1>2. QED
  BY <1>1, Numbers DEF IsLastPage

LEMMA HistoryTypes ==
  ASSUME ListenerTypeOK,
         FinishStored \/ FetchPage \/ ForwardList \/ NextPage \/ FinishHistory
  PROVE  ListenerTypeOK'
<1>0. step \in Steps /\ LocalTypeOK /\ HandlerTypeOK
  BY TypeParts
<1>1. LocalTypeOK'
  BY <1>0, SameLocals
     DEF FinishStored, FetchPage, ForwardList, NextPage, FinishHistory
<1>2. HandlerTypeOK'
  BY <1>0, SameHandler, SendTypes
     DEF FinishStored, FetchPage, ForwardList, NextPage, FinishHistory
<1>3. step' \in Steps
  <2>1. CASE FinishStored
    <3>1. PICK archive \in Archives :
            step' = [at |-> "asking", archive |-> archive, until |-> {}, seen |-> {}]
      BY <2>1 DEF FinishStored
    <3>2. step' \in Asking
      BY <3>1 DEF Asking, Lists
    <3>3. QED
      BY <3>2 DEF Steps
  <2>2. CASE FetchPage
    <3>1. step \in Asking
      BY <1>0, <2>2, StepShapes DEF FetchPage
    <3>2. PICK page \in SUBSET step.archive :
            step' = [at |-> "paging", archive |-> step.archive, page |-> page,
                     seen |-> step.seen, todo |-> page \ step.seen]
      BY <2>2 DEF FetchPage
    <3>3. page \in Lists /\ page \ step.seen \in Lists /\ step.seen \in Lists
          /\ step.archive \in Archives
      BY <3>1 DEF Asking, Lists
    <3>4. step' \in Paging
      BY <3>2, <3>3 DEF Paging
    <3>5. QED
      BY <3>4 DEF Steps
  <2>3. CASE ForwardList
    <3>1. step \in Paging
      BY <1>0, <2>3, StepShapes DEF ForwardList
    <3>2. step' \in Paging
      BY <2>3, <3>1 DEF ForwardList, Paging, Lists
    <3>3. QED
      BY <3>2 DEF Steps
  <2>4. CASE NextPage
    <3>1. step \in Paging
      BY <1>0, <2>4, StepShapes DEF NextPage
    <3>2. CASE IsLastPage(step.page, step.seen)
      <4>1. step' = [at |-> "paged", missed |-> step.archive \ (step.seen \cup step.page),
                     archive |-> step.archive]
        BY <2>4, <3>2 DEF NextPage
      <4>2. step' \in Paged
        BY <3>1, <4>1 DEF Paging, Paged, Lists
      <4>3. QED
        BY <4>2 DEF Steps
    <3>3. CASE ~IsLastPage(step.page, step.seen)
      <4>1. step' = [at |-> "asking", archive |-> step.archive, until |-> {Oldest(step.page)},
                     seen |-> step.seen \cup step.page]
        BY <2>4, <3>3 DEF NextPage
      <4>2. Oldest(step.page) \in Nat
        BY <3>1, <3>3, FullPage, OldestIsDate
      <4>3. step' \in Asking
        BY <3>1, <4>1, <4>2 DEF Paging, Asking, Lists
      <4>4. QED
        BY <4>3 DEF Steps
    <3>4. QED
      BY <3>2, <3>3
  <2>5. CASE FinishHistory
    BY <2>5, PlainSteps DEF FinishHistory
  <2>6. QED
    BY <2>1, <2>2, <2>3, <2>4, <2>5
<1>4. QED
  BY <1>1, <1>2, <1>3, TypePartsNext

LEMMA YoungTypes ==
  ASSUME NEW ages \in Seq(Nat), NEW limit \in Int
  PROVE  Young(ages, limit) \in Seq(Nat) /\ AllOlder(ages, limit) \in Seq(Nat)
<1>1. [i \in DOMAIN ages |-> ages[i] + 1] \in Seq(Nat)
  <2>1. PICK n \in Nat : ages \in [1..n -> Nat] /\ DOMAIN ages = 1..n
    OBVIOUS
  <2>2. [i \in 1..n |-> ages[i] + 1] \in [1..n -> Nat]
    BY <2>1
  <2>3. QED
    BY <2>1, <2>2, IsASeq
<1>2. QED
  BY <1>1, YoungAreLast DEF AllOlder

LEMMA RenewalWindowType == RenewalWindow \in Int
BY Numbers DEF RenewalWindow

LEMMA TodoShapes ==
  ASSUME NEW todo \in Todos, todo # <<>>
  PROVE  /\ Head(todo) \in Subscription /\ Tail(todo) \in Todos
         /\ Range(todo) = {Head(todo)} \cup Range(Tail(todo))
<1>1. CASE todo = <<"events", "lists">>
  <2>1. Head(todo) = "events" /\ Tail(todo) = <<"lists">>
    BY <1>1
  <2>2. Range(todo) = {"events", "lists"} /\ Range(<<"lists">>) = {"lists"}
    BY <1>1 DEF Range
  <2>3. QED
    BY <2>1, <2>2 DEF Todos, Subscription
<1>2. CASE todo = <<"lists">>
  <2>1. Head(todo) = "lists" /\ Tail(todo) = <<>>
    BY <1>2
  <2>2. Range(todo) = {"lists"} /\ Range(<<>>) = {}
    BY <1>2 DEF Range
  <2>3. QED
    BY <2>1, <2>2 DEF Todos, Subscription
<1>3. QED
  BY <1>1, <1>2 DEF Todos, Requests

LEMMA SubscribeTypes ==
  ASSUME ListenerTypeOK, Subscribe \/ FinishSubscribing
  PROVE  ListenerTypeOK'
<1>0. step \in Steps /\ LocalTypeOK /\ HandlerTypeOK
  BY TypeParts
<1>1. step \in FirstAsk \cup NextAsk
  BY <1>0, StepShapes DEF Subscribe, FinishSubscribing
<1>2. step.todo \in Todos
  BY <1>1 DEF FirstAsk, NextAsk
<1>3. HandlerTypeOK'
  BY <1>0, SameHandler DEF Subscribe, FinishSubscribing
<1>4. CASE Subscribe
  <2>1. Head(step.todo) \in Subscription /\ Tail(step.todo) \in Todos
    BY <1>2, <1>4, TodoShapes DEF Subscribe
  <2>2. step' \in FirstAsk \cup NextAsk
    BY <1>1, <1>4, <2>1 DEF Subscribe, FirstAsk, NextAsk
  <2>3. LocalTypeOK'
    BY <1>0, <1>4, <2>1 DEF Subscribe, LocalTypeOK, watchVars
  <2>4. QED
    BY <1>3, <2>2, <2>3, TypePartsNext DEF Steps
<1>5. CASE FinishSubscribing
  <2>1. step' \in Steps
    BY <1>5, PlainSteps DEF FinishSubscribing, GoTo
  <2>2. recovery' \in Recoveries /\ attempts' \in Seq(Nat)
    <3>1. CASE step.why = "closure"
      <4>1. step.trigger \in Subscription /\ step.waited \in Nat
        BY <1>1, <3>1, Numbers DEF FirstAsk, NextAsk
      <4>2. Append(attempts, step.waited) \in Seq(Nat)
        BY <1>0, <4>1, AppendProperties DEF LocalTypeOK
      <4>3. recovery' = [trigger |-> step.trigger, age |-> 0, sibling |-> FALSE,
                         resumed |-> FALSE]
        BY <1>5, <3>1 DEF FinishSubscribing
      <4>4. attempts' = Append(attempts, step.waited)
        BY <1>5, <3>1 DEF FinishSubscribing
      <4>5. QED
        BY <4>1, <4>2, <4>3, <4>4 DEF Recoveries
    <3>2. CASE step.why # "closure"
      BY <1>0, <1>5, <3>2 DEF FinishSubscribing, LocalTypeOK
    <3>3. QED
      BY <3>1, <3>2
  <2>3. renewals' \in Seq(Nat)
    <3>1. renewals \in Seq(Nat) /\ Young(renewals, RenewalWindow) \in Seq(Nat)
      BY <1>0, YoungTypes, RenewalWindowType DEF LocalTypeOK
    <3>2. Append(Young(renewals, RenewalWindow), 0) \in Seq(Nat)
      BY <3>1, AppendProperties
    <3>3. QED
      BY <1>5, <3>1, <3>2 DEF FinishSubscribing
  <2>4. LocalTypeOK'
    <3>1. Silence \in 0..Silence /\ (step.why # "start") \in BOOLEAN
      BY Numbers
    <3>2. QED
      BY <1>0, <1>5, <2>2, <2>3, <3>1 DEF FinishSubscribing, LocalTypeOK
  <2>5. QED
    BY <1>3, <2>1, <2>4, TypePartsNext
<1>6. QED
  BY <1>4, <1>5

LEMMA HearTypes ==
  ASSUME ListenerTypeOK, Hear
  PROVE  ListenerTypeOK'
<1>0. step \in Steps /\ LocalTypeOK /\ HandlerTypeOK
  BY TypeParts
<1>1. PICK n \in Range(feed) :
        Receive(n) /\ (ReceiveEvent(n) \/ ReceiveNoise(n) \/ ClosedTwice(n) \/ ClosedOnce(n))
  BY DEF Hear
<1>2. n \in Notifications /\ Tail(feed) \in Seq(Notifications)
  BY <1>0, <1>1, FeedTypes DEF Receive
<1>3. n.type = "closed" => n.sub \in Subscription
  BY <1>2 DEF Notifications, Event, Noise, Closed
<1>4. Current \in Recoveries
  BY <1>0 DEF Current, LocalTypeOK, Recoveries
<1>5. CASE ReceiveEvent(n)
  BY <1>0, <1>2, <1>5, PlainSteps, SameHandler, TypePartsNext
     DEF ReceiveEvent, GoTo, LocalTypeOK, watchVars, flowHistory
<1>6. CASE ReceiveNoise(n)
  BY <1>0, <1>2, <1>6, SameHandler, TypePartsNext
     DEF ReceiveNoise, DeadlineAfterNoise, LocalTypeOK, flowHistory
<1>7. CASE ClosedTwice(n)
  <2>1. CASE StaleSibling(n.sub)
    <3>1. [Current EXCEPT !.sibling = TRUE] \in Recoveries
      BY <1>4, <1>7 DEF Recoveries, ClosedTwice
    <3>2. overlooked' \in SUBSET Subscription
      BY <1>0, <1>7, <2>1 DEF ClosedTwice, LocalTypeOK, Unheeded
    <3>3. LocalTypeOK'
      BY <1>0, <1>2, <1>7, <2>1, <3>1, <3>2 DEF ClosedTwice, LocalTypeOK
    <3>4. QED
      BY <1>0, <1>7, <2>1, <3>3, SameHandler, TypePartsNext DEF ClosedTwice
  <2>2. CASE ~StaleSibling(n.sub)
    BY <1>0, <1>7, <2>2, EndTypes DEF ClosedTwice
  <2>3. QED
    BY <2>1, <2>2
<1>8. CASE ClosedOnce(n)
  <2>1. CASE ~attempted /\ MayRecover
    <3>1. n.sub \in Subscription
      BY <1>3, <1>8 DEF ClosedOnce
    <3>2. AskAgain(n.sub, 0) \in Steps /\ AskAgain(n.sub, Backoff) \in Steps
      BY <3>1, PlainSteps
    <3>3. [at |-> "backoff", left |-> Backoff, next |-> AskAgain(n.sub, Backoff)] \in Steps
      <4>1. Backoff \in 0..Backoff
        BY Numbers
      <4>2. AskAgain(n.sub, Backoff) \in {AskAgain(s, Backoff) : s \in Subscription}
        BY <3>1
      <4> DEFINE next == AskAgain(n.sub, Backoff)
      <4> HIDE DEF next
      <4>3. [at |-> "backoff", left |-> Backoff, next |-> next] \in Wait
        BY <4>1, <4>2 DEF Wait, next
      <4>4. QED
        BY <4>3 DEF Steps, next
    <3>4. step' \in Steps
      BY <1>8, <2>1, <3>2, <3>3 DEF ClosedOnce
    <3>5. LocalTypeOK'
      BY <1>0, <1>2, <1>8, <2>1 DEF ClosedOnce, LocalTypeOK, Recoveries, flowHistory
    <3>6. QED
      BY <1>0, <1>8, <2>1, <3>4, <3>5, SameHandler, TypePartsNext DEF ClosedOnce
  <2>2. CASE ~(~attempted /\ MayRecover)
    BY <1>0, <1>8, <2>2, EndTypes DEF ClosedOnce
  <2>3. QED
    BY <2>1, <2>2
<1>9. QED
  BY <1>1, <1>5, <1>6, <1>7, <1>8

LEMMA AnswerTypes ==
  ASSUME ListenerTypeOK, Answer
  PROVE  ListenerTypeOK'
<1>0. step \in Steps /\ LocalTypeOK /\ HandlerTypeOK
  BY TypeParts
<1>1. CASE Connect
  BY <1>0, <1>1, PlainSteps, SameLocals, SameHandler, TypePartsNext DEF Connect, GoTo
<1>2. CASE FailToConnect \/ FailToSubscribe \/ HeedCancellation \/ LoseHandler
  BY <1>0, <1>2, EndTypes DEF FailToConnect, FailToSubscribe, HeedCancellation, LoseHandler
<1>3. CASE HearSilence
  <2>1. CASE attempted
    BY <1>0, <1>3, <2>1, EndTypes DEF HearSilence
  <2>2. CASE ~attempted
    BY <1>0, <1>3, <2>2, PlainSteps, SameLocals, SameHandler, TypePartsNext DEF HearSilence
  <2>3. QED
    BY <2>1, <2>2
<1>4. CASE BackOff
  <2>1. step \in Wait
    BY <1>0, <1>4, StepShapes DEF BackOff
  <2>2. step' \in Steps
    BY <1>4, <2>1, PlainSteps DEF BackOff, Wait
  <2>3. QED
    BY <1>0, <1>4, <2>2, SameLocals, SameHandler, TypePartsNext DEF BackOff
<1>5. CASE Forward
  <2>1. recovery' \in Recoveries
    BY <1>0, <1>5 DEF Forward, LocalTypeOK, Recoveries
  <2>2. Silence \in 0..Silence /\ 0 \in 0..LongestQuiet
    BY Numbers DEF LongestQuiet
  <2>3. LocalTypeOK'
    BY <1>0, <1>5, <2>1, <2>2 DEF Forward, LocalTypeOK
  <2>4. QED
    BY <1>0, <1>5, <2>3, SendTypes, PlainSteps, TypePartsNext DEF Forward, GoTo
<1>6. QED
  BY <1>1, <1>2, <1>3, <1>4, <1>5, HistoryTypes, SubscribeTypes, HearTypes DEF Answer

LEMMA TickTypes ==
  ASSUME ListenerTypeOK, Tick
  PROVE  ListenerTypeOK'
<1>0. step \in Steps /\ LocalTypeOK /\ HandlerTypeOK
  BY TypeParts
<1>1. step' \in Steps
  <2>1. CASE At("backoff")
    <3>1. step \in Wait /\ step.left > 0
      BY <1>0, <2>1, StepShapes DEF Tick, Waiting, At
    <3>2. step' = [step EXCEPT !.left = @ - 1]
      BY <2>1 DEF Tick
    <3>3. step.left \in 0..Backoff /\ step.left - 1 \in 0..Backoff
      BY <3>1, Numbers DEF Wait
    <3>4. step' \in Wait
      BY <3>1, <3>2, <3>3 DEF Wait
    <3>5. QED
      BY <3>4 DEF Steps
  <2>2. CASE ~At("backoff")
    BY <1>0, <2>2 DEF Tick
  <2>3. QED
    BY <2>1, <2>2
<1>2. deadline' \in 0..Silence
  BY <1>0, Numbers DEF Tick, Shorter, LocalTypeOK
<1>3. quiet' \in 0..LongestQuiet
  BY <1>0, Numbers DEF Tick, Older, LocalTypeOK, LongestQuiet
<1>4. recovery' \in Recoveries
  <2>1. CASE recovery = NoRecovery
    BY <2>1 DEF Tick, Recoveries
  <2>2. CASE recovery # NoRecovery
    <3>1. recovery \in [trigger : Subscription, age : Nat, sibling : BOOLEAN, resumed : BOOLEAN]
      BY <1>0, <2>2 DEF LocalTypeOK, Recoveries
    <3>2. Older(recovery.age, Grace) \in Nat
      BY <3>1, Numbers DEF Older
    <3>3. recovery' = [recovery EXCEPT !.age = Older(recovery.age, Grace)]
      BY <2>2 DEF Tick
    <3>4. QED
      BY <3>1, <3>2, <3>3 DEF Recoveries
  <2>3. QED
    BY <2>1, <2>2
<1>5. attempts' \in Seq(Nat) /\ renewals' \in Seq(Nat)
  <2>1. Silence \in Int
    BY Numbers
  <2>2. QED
    BY <1>0, <2>1, YoungTypes, RenewalWindowType DEF Tick, LocalTypeOK
<1>6. LocalTypeOK'
  BY <1>0, <1>2, <1>3, <1>4, <1>5 DEF Tick, LocalTypeOK
<1>7. QED
  BY <1>0, <1>1, <1>6, SameHandler, TypePartsNext DEF Tick

LEMMA SupervisedTypes ==
  ASSUME ListenerTypeOK, NEW ACTION A, Supervised(A)
  PROVE  ListenerTypeOK'
<1>0. step \in Steps /\ LocalTypeOK /\ HandlerTypeOK
  BY TypeParts
<1>1. HandlerTypeOK'
  BY <1>0, SameHandler DEF Supervised
<1>2. CASE cancelled' /\ ~cancelled /\ Running(Listener) /\ ~At("connecting")
  BY <1>1, <1>2, PlainSteps, DroppedTypes, TypePartsNext DEF Supervised
<1>3. CASE ~(cancelled' /\ ~cancelled /\ Running(Listener) /\ ~At("connecting"))
  <2>1. UNCHANGED listenerVars
    BY <1>3 DEF Supervised
  <2>2. QED
    BY <1>0, <1>1, <2>1, SameLocals, TypePartsNext DEF listenerVars
<1>4. QED
  BY <1>2, <1>3

LEMMA TaskTypes ==
  ASSUME ListenerTypeOK, NEW t \in Task, TaskEnds(t) \/ TaskPanics(t)
  PROVE  ListenerTypeOK'
<1>0. step \in Steps /\ LocalTypeOK /\ HandlerTypeOK
  BY TypeParts
<1>1. HandlerTypeOK'
  BY <1>0, Numbers DEF TaskEnds, TaskPanics, Fail, HandlerTypeOK
<1>2. CASE UNCHANGED listenerVars
  BY <1>0, <1>1, <1>2, SameLocals, TypePartsNext DEF listenerVars
<1>3. CASE step' = [at |-> "ended"] /\ Dropped
  BY <1>1, <1>3, PlainSteps, DroppedTypes, TypePartsNext
<1>4. QED
  BY <1>2, <1>3 DEF TaskEnds, TaskPanics

LEMMA ListenerTypes == ListenerTypeOK /\ [Next]_replicaVars => ListenerTypeOK'
<1> SUFFICES ASSUME ListenerTypeOK, [Next]_replicaVars
             PROVE  ListenerTypeOK'
  OBVIOUS
<1>0. step \in Steps /\ LocalTypeOK /\ HandlerTypeOK
  BY TypeParts
<1>1. CASE UNCHANGED replicaVars
  BY <1>1, <1>0, SameLocals, SameHandler, TypePartsNext DEF replicaVars, listenerVars
<1>2. CASE ForwardStored
  BY <1>2, <1>0, SameLocals, SendTypes, TypePartsNext DEF ForwardStored, listenerVars
<1>3. CASE LosePool
  BY <1>3, <1>0, EndTypes DEF LosePool
<1>4. CASE HandleEvent
  <2>1. HandlerTypeOK'
    BY <1>0, <1>4, Numbers DEF HandleEvent, HandlerTypeOK
  <2>2. QED
    BY <1>4, <1>0, <2>1, SameLocals, TypePartsNext DEF HandleEvent, listenerVars
<1>5. QED
  BY <1>1, <1>2, <1>3, <1>4, RelayTypes, AnswerTypes, TickTypes, SupervisedTypes, TaskTypes
     DEF Next

\* The state of a replica stays what it can be, whatever happens in any order.
THEOREM TypeCorrect == Spec => []TypeOK
<1>1. Init => ListenerTypeOK
  <2>1. <<>> \in Seq(Nat) /\ <<>> \in Seq(Notifications)
    OBVIOUS
  <2>2. Init => LocalTypeOK
    <3>1. Silence \in 0..Silence /\ 0 \in 0..LongestQuiet
      BY Numbers DEF LongestQuiet
    <3>2. NoRecovery \in Recoveries
      BY DEF Recoveries
    <3>3. QED
      BY <2>1, <3>1, <3>2 DEF Init, LocalTypeOK
  <2>3. Init => step \in Steps
    BY PlainSteps DEF Init
  <2>4. Init => HandlerTypeOK
    BY Numbers DEF Init, HandlerTypeOK
  <2>5. QED
    BY <2>2, <2>3, <2>4, TypeParts
<1>2. SupervisionInvariant => SupervisionTypeOK
  BY DEF SupervisionInvariant
<1>3. QED
  BY <1>1, <1>2, ListenerTypes, SupervisionHolds, PTL DEF Spec, TypeOK

-----------------------------------------------------------------------------
(* The steps of the listener                                               *)

\* The listener ends, or learns that it has to.
Stops == Dropped /\ step' \in {[at |-> "ended"], [at |-> "cancelled"]}

GoesThroughHistory == FinishStored \/ FetchPage \/ ForwardList \/ NextPage \/ FinishHistory

Notices(n) ==
  /\ Receive(n)
  /\ \/ ReceiveEvent(n) \/ ReceiveNoise(n)
     \/ ClosedTwice(n) /\ StaleSibling(n.sub)
     \/ ClosedOnce(n) /\ ~attempted /\ MayRecover

ListenerNext ==
  \/ Stops \/ UNCHANGED listenerVars
  \/ \E n \in Notifications : Post(n)
  \/ Connect \/ GoesThroughHistory
  \/ Subscribe \/ FinishSubscribing
  \/ HearSilence /\ ~attempted
  \/ \E n \in Notifications : Notices(n)
  \/ BackOff \/ Forward \/ Tick

LEMMA ListenerActs ==
  ASSUME ListenerTypeOK, [Next]_replicaVars
  PROVE  ListenerNext
<1>0. End => Stops
  BY DEF End, Stops
<1>1. CASE UNCHANGED replicaVars
  BY <1>1 DEF replicaVars, ListenerNext
<1>2. CASE Say \/ \E s \in Subscription : Close(s)
  <2>1. Event \in Notifications /\ Noise \in Notifications
        /\ \A s \in Subscription : \A limited \in BOOLEAN : Closed(s, limited) \in Notifications
    BY DEF Notifications
  <2>2. \E n \in Notifications : Post(n)
    BY <1>2, <2>1 DEF Say, Close
  <2>3. QED
    BY <2>2 DEF ListenerNext
<1>3. CASE Answer
  <2>1. CASE FailToConnect \/ FailToSubscribe \/ HeedCancellation \/ LoseHandler
    BY <1>0, <2>1
       DEF FailToConnect, FailToSubscribe, HeedCancellation, LoseHandler, ListenerNext
  <2>2. CASE HearSilence
    BY <1>0, <2>2 DEF HearSilence, ListenerNext
  <2>3. CASE Hear
    <3>1. PICK n \in Range(feed) :
            Receive(n) /\ (ReceiveEvent(n) \/ ReceiveNoise(n) \/ ClosedTwice(n) \/ ClosedOnce(n))
      BY <2>3 DEF Hear
    <3>2. n \in Notifications
      BY <3>1, FeedTypes, TypeParts DEF Receive
    <3>3. ClosedTwice(n) => StaleSibling(n.sub) \/ Stops
      BY <1>0 DEF ClosedTwice
    <3>4. ClosedOnce(n) => (~attempted /\ MayRecover) \/ Stops
      BY <1>0 DEF ClosedOnce
    <3>5. Notices(n) \/ Stops
      BY <3>1, <3>3, <3>4 DEF Notices
    <3>6. QED
      BY <3>2, <3>5 DEF ListenerNext
  <2>4. QED
    BY <1>3, <2>1, <2>2, <2>3 DEF Answer, ListenerNext, GoesThroughHistory
<1>4. CASE ForwardStored \/ LosePool \/ HandleEvent \/ Tick
  BY <1>0, <1>4 DEF ForwardStored, LosePool, HandleEvent, ListenerNext
<1>5. CASE \E t \in Task : TaskEnds(t) \/ TaskPanics(t)
  BY <1>5 DEF TaskEnds, TaskPanics, ListenerNext, Stops
<1>6. CASE Supervised(\E t \in Task : Guard(t))
  BY <1>6 DEF Supervised, ListenerNext, Stops
<1>7. CASE Supervised(FailToStart \/ Signal \/ MainStep)
  BY <1>7 DEF Supervised, ListenerNext, Stops
<1>8. QED
  BY <1>1, <1>2, <1>3, <1>4, <1>5, <1>6, <1>7 DEF Next

-----------------------------------------------------------------------------
(* The watchdog                                                            *)

LEMMA QuietSteps ==
  ASSUME ListenerTypeOK, QuietIsWatched, ListenerNext
  PROVE  QuietIsWatched'
<1>0. /\ step \in Steps
      /\ deadline \in Nat /\ deadline <= Silence /\ quiet \in Nat /\ attempted \in BOOLEAN
  BY Numbers DEF ListenerTypeOK, LongestQuiet
<1>1. CASE Stops
  BY <1>1 DEF Stops, Dropped, QuietIsWatched, At
<1>2. CASE UNCHANGED <<step, deadline, attempted, quiet>>
  BY <1>2 DEF QuietIsWatched, At
<1>3. CASE Connect
  BY <1>3 DEF Connect, GoTo, QuietIsWatched, At, watchVars, flowHistory
<1>4. CASE GoesThroughHistory
  <2>1. quiet = 0 /\ quiet' = 0
    BY <1>4 DEF GoesThroughHistory, FinishStored, FetchPage, ForwardList, NextPage,
       FinishHistory, QuietIsWatched, At, flowHistory
  <2>2. step'.at \in {"asking", "paging", "paged"} \/ step' = Ask("start")
    <3>1. ForwardList => step'.at = "paging"
      BY <1>0, StepShapes DEF ForwardList, At, Paging
    <3>2. QED
      BY <1>4, <3>1 DEF GoesThroughHistory, FinishStored, FetchPage, NextPage, FinishHistory
  <2>3. QED
    BY <2>1, <2>2, Numbers DEF QuietIsWatched, At, Ask
<1>5. CASE Subscribe
  <2>1. step \in FirstAsk \cup NextAsk
    BY <1>0, <1>5, StepShapes DEF Subscribe
  <2>2. step'.at = "subscribing" /\ step'.why = step.why
    BY <1>5, <2>1 DEF Subscribe, FirstAsk, NextAsk
  <2>3. QED
    BY <1>5, <2>2 DEF Subscribe, QuietIsWatched, At
<1>6. CASE FinishSubscribing
  <2>1. At("subscribing") /\ quiet' = quiet /\ deadline' = Silence /\ step' = [at |-> "live"]
    BY <1>6 DEF FinishSubscribing, GoTo
  <2>2. CASE step.why = "start"
    BY <1>0, <2>1, <2>2, Numbers DEF QuietIsWatched, At, LongestQuiet
  <2>3. CASE step.why # "start"
    <3>1. attempted'
      BY <1>6, <2>3 DEF FinishSubscribing
    <3>2. quiet < Silence + Backoff
      BY <2>1 DEF QuietIsWatched
    <3>3. quiet' + deadline' <= LongestQuiet - 1
      BY <1>0, <2>1, <3>2, Numbers DEF LongestQuiet
    <3>4. QED
      BY <2>1, <3>1, <3>3 DEF QuietIsWatched, At
  <2>4. QED
    BY <2>2, <2>3
<1>7. CASE HearSilence /\ ~attempted
  BY <1>0, <1>7, Numbers DEF HearSilence, Ask, QuietIsWatched, At, watchVars, flowHistory
<1>8. ASSUME NEW n \in Notifications, Notices(n)
      PROVE  QuietIsWatched'
  <2>1. CASE ReceiveEvent(n)
    BY <2>1 DEF ReceiveEvent, GoTo, QuietIsWatched, At
  <2>2. CASE ReceiveNoise(n)
    BY <1>2, <2>2 DEF ReceiveNoise, DeadlineAfterNoise, flowHistory
  <2>3. CASE ClosedTwice(n) /\ StaleSibling(n.sub)
    BY <1>2, <2>3 DEF ClosedTwice
  <2>4. CASE ClosedOnce(n) /\ ~attempted /\ MayRecover
    <3>1. At("live") /\ deadline > 0 /\ quiet' = quiet
      BY <1>8, <2>4 DEF Notices, Receive, ClosedOnce, flowHistory
    <3>2. quiet < Silence
      BY <1>0, <2>4, <3>1, Numbers DEF QuietIsWatched
    <3>3. \/ step'.at = "backoff" /\ step'.left = Backoff
          \/ step'.at = "subscribing" /\ step'.why = "closure"
      BY <2>4 DEF ClosedOnce, AskAgain
    <3>4. QED
      BY <1>0, <3>1, <3>2, <3>3, Numbers DEF QuietIsWatched, At
  <2>5. QED
    BY <1>8, <2>1, <2>2, <2>3, <2>4 DEF Notices
<1>9. CASE BackOff
  <2>1. step \in Wait
    BY <1>0, <1>9, StepShapes DEF BackOff
  <2>2. step'.at = "subscribing" /\ step'.why = "closure"
    BY <1>9, <2>1 DEF BackOff, Wait, AskAgain
  <2>3. QED
    BY <1>0, <1>9, <2>2, Numbers DEF BackOff, QuietIsWatched, At, flowHistory
<1>10. CASE Forward
  BY <1>10, Numbers DEF Forward, GoTo, QuietIsWatched, At
<1>11. CASE Tick
  <2>1. CASE At("live")
    BY <1>0, <1>11, <2>1, Numbers
       DEF Tick, Waiting, QuietIsWatched, At, Shorter, Older, LongestQuiet
  <2>2. CASE At("backoff")
    <3>1. step \in Wait
      BY <1>0, <2>2, StepShapes
    <3>2. step'.at = "backoff" /\ step'.left = step.left - 1 /\ step.left \in Nat
      BY <1>11, <2>2, <3>1 DEF Tick, Wait
    <3>3. quiet' <= quiet + 1 /\ quiet' \in Nat
      BY <1>0, <1>11, <2>2, Numbers DEF Tick, Older, LongestQuiet, At
    <3>4. QED
      BY <1>0, <2>2, <3>2, <3>3, Numbers DEF QuietIsWatched, At
  <2>3. CASE At("sending")
    BY <1>11, <2>3 DEF Tick, QuietIsWatched, At
  <2>4. QED
    BY <1>11, <2>1, <2>2, <2>3 DEF Tick, Waiting
<1>12. QED
  BY <1>1, <1>2, <1>3, <1>4, <1>5, <1>6, <1>7, <1>8, <1>9, <1>10, <1>11
     DEF ListenerNext, Post, listenerVars, watchVars, flowHistory

\* A listener that waits for the relay never goes without an event for longer than
\* two quiet periods and a backoff, whatever the relay says, closes or limits.
THEOREM SilenceIsWatched == Spec => []SilenceIsBounded
<1>1. Init => QuietIsWatched
  BY DEF Init, QuietIsWatched, At
<1>2. ListenerTypeOK /\ QuietIsWatched /\ [Next]_replicaVars => QuietIsWatched'
  BY ListenerActs, QuietSteps
<1>3. ASSUME ListenerTypeOK, QuietIsWatched
      PROVE  SilenceIsBounded
  <2>1. quiet \in Nat /\ deadline \in Nat /\ LongestQuiet = 2 * Silence + Backoff
    BY <1>3, Numbers DEF ListenerTypeOK, LongestQuiet
  <2>2. At("live") => quiet < LongestQuiet
    <3>1. CASE attempted
      BY <1>3, <2>1, <3>1, Numbers DEF QuietIsWatched
    <3>2. CASE ~attempted
      BY <1>3, <2>1, <3>2, Numbers DEF QuietIsWatched
    <3>3. QED
      BY <3>1, <3>2
  <2>3. At("subscribing") => quiet < LongestQuiet
    BY <1>3, <2>1, Numbers DEF QuietIsWatched
  <2>4. At("backoff") => quiet < LongestQuiet
    <3>1. At("backoff") => step.left \in Nat
      BY <1>3, StepShapes, Numbers DEF ListenerTypeOK, Wait
    <3>2. QED
      BY <1>3, <2>1, <3>1, Numbers DEF QuietIsWatched
  <2>5. QED
    BY <2>2, <2>3, <2>4 DEF SilenceIsBounded, At
<1>4. TypeOK => ListenerTypeOK
  BY DEF TypeOK
<1>5. QED
  BY <1>1, <1>2, <1>3, <1>4, TypeCorrect, PTL DEF Spec

-----------------------------------------------------------------------------
(* Closures                                                                *)

\* What is no closure is not waited for.
LEMMA PendingAfter ==
  ASSUME feed \in Seq(Notifications), feed # <<>>, Head(feed).type # "closed",
         NEW s \in Subscription, Pending(feed, s)
  PROVE  Pending(Tail(feed), s)
<1> DEFINE n == Len(feed)
<1>1. /\ n \in Nat /\ DOMAIN feed = 1..n
      /\ DOMAIN Tail(feed) = 1..(n - 1)
      /\ \A i \in 1..(n - 1) : Tail(feed)[i] = feed[i + 1]
  <2>1. /\ Tail(feed) \in Seq(Notifications)
        /\ Len(Tail(feed)) = Len(feed) - 1
        /\ \A i \in 1 .. Len(Tail(feed)) : Tail(feed)[i] = feed[i+1]
    BY HeadTailProperties
  <2>2. DOMAIN Tail(feed) = 1..Len(Tail(feed))
    BY <2>1
  <2>3. QED
    BY <2>1, <2>2
<1>2. Head(feed) = feed[1]
  OBVIOUS
<1> HIDE DEF n
<1>3. PICK i \in 1..n : IsClosed(feed[i], s)
  BY <1>1 DEF Pending
<1>4. i # 1
  BY <1>2, <1>3 DEF IsClosed
<1>5. i - 1 \in 1..(n - 1) /\ Tail(feed)[i - 1] = feed[i]
  BY <1>1, <1>3, <1>4
<1>6. QED
  BY <1>1, <1>3, <1>5 DEF Pending

LEMMA UnheededAfter ==
  ASSUME feed \in Seq(Notifications), feed # <<>>, Head(feed).type # "closed",
         feed' = Tail(feed), sub' = sub
  PROVE  Unheeded(sub', feed') \subseteq Unheeded(sub, feed)
BY PendingAfter DEF Unheeded

LEMMA ClosureSteps ==
  ASSUME ListenerTypeOK, ClosureIsSeen, ListenerNext
  PROVE  ClosureIsSeen'
<1>0. step \in Steps /\ feed \in Seq(Notifications)
  BY DEF ListenerTypeOK
<1>a. \A name \in {"start", "silence"} : Range(Ask(name).todo) = Subscription
  BY DEF Range, Ask, Requests, Subscription
<1>b. \A s \in Subscription : \A w : Range(AskAgain(s, w).todo) = Subscription
  BY DEF Range, AskAgain, Requests, Subscription
<1>c. \A subs, queue : Unheeded(subs, queue) \subseteq Subscription
  BY DEF Unheeded
<1>1. CASE Stops
  BY <1>1 DEF Stops, Dropped, ClosureIsSeen, Unheeded
<1>2. CASE UNCHANGED <<step, sub, feed, overlooked>>
  BY <1>2 DEF ClosureIsSeen, ToAsk, Unheeded, Pending, IsClosed, At
<1>3. ASSUME NEW n \in Notifications, Post(n)
      PROVE  ClosureIsSeen'
  BY <1>3 DEF Post, ClosureIsSeen
<1>4. ASSUME ~At("backoff"), ~At("subscribing"), ~At("backoff")',
             UNCHANGED <<sub, feed, overlooked>>
      PROVE  ClosureIsSeen'
  BY <1>4 DEF ClosureIsSeen, ToAsk, Unheeded, Pending, IsClosed
<1>5. CASE Connect
  BY <1>4, <1>5 DEF Connect, GoTo, At, flowHistory
<1>6. CASE GoesThroughHistory
  <2>1. ForwardList => step'.at = "paging"
    BY <1>0, StepShapes DEF ForwardList, At, Paging
  <2>2. QED
    BY <1>4, <1>6, <2>1 DEF GoesThroughHistory, FinishStored, FetchPage, ForwardList, NextPage,
       FinishHistory, Ask, At, flowHistory
<1>7. CASE Subscribe
  <2>1. step \in FirstAsk \cup NextAsk
    BY <1>0, <1>7, StepShapes DEF Subscribe
  <2>2. /\ step'.at = "subscribing" /\ step'.todo = Tail(step.todo)
        /\ step.todo \in Todos /\ step.todo # <<>>
    BY <1>7, <2>1 DEF Subscribe, FirstAsk, NextAsk
  <2>3. Range(step.todo) = {Head(step.todo)} \cup Range(Tail(step.todo))
    BY <2>2, TodoShapes
  <2>4. Unheeded(sub, feed) \subseteq overlooked \cup Range(step.todo)
    BY <1>7 DEF Subscribe, ClosureIsSeen, ToAsk, At
  <2>5. sub' = [sub EXCEPT ![Head(step.todo)] = "open"] /\ feed' = feed
        /\ overlooked' = overlooked \ {Head(step.todo)}
    BY <1>7 DEF Subscribe
  <2>6. Unheeded(sub', feed') \subseteq Unheeded(sub, feed) \ {Head(step.todo)}
    BY <2>5 DEF Unheeded, ListenerTypeOK
  <2>7. Unheeded(sub', feed') \subseteq overlooked' \cup Range(step'.todo)
    BY <2>2, <2>3, <2>4, <2>5, <2>6
  <2>8. QED
    BY <2>2, <2>7 DEF ClosureIsSeen, ToAsk, At
<1>8. CASE FinishSubscribing
  <2>1. Range(step.todo) = {}
    BY <1>8 DEF FinishSubscribing, Range
  <2>2. Unheeded(sub, feed) \subseteq overlooked
    BY <1>8, <2>1 DEF FinishSubscribing, ClosureIsSeen, ToAsk, At
  <2>3. Unheeded(sub', feed') \subseteq overlooked'
    BY <1>8, <2>2 DEF FinishSubscribing, Unheeded
  <2>4. QED
    BY <2>3 DEF ClosureIsSeen
<1>9. ASSUME step'.at = "subscribing", Range(step'.todo) = Subscription
      PROVE  ClosureIsSeen'
  BY <1>9, <1>c DEF ClosureIsSeen, ToAsk, At
<1>10. CASE HearSilence /\ ~attempted
  BY <1>9, <1>10, <1>a DEF HearSilence, Ask
<1>11. ASSUME NEW n \in Notifications, Notices(n)
       PROVE  ClosureIsSeen'
  <2>0. At("live") /\ feed # <<>> /\ n = Head(feed)
    BY <1>11 DEF Notices, Receive
  <2>1. Unheeded(sub, feed) \subseteq overlooked
    BY <2>0 DEF ClosureIsSeen, ToAsk, At
  <2>2. CASE ReceiveEvent(n) \/ ReceiveNoise(n)
    <3>1. Unheeded(sub', feed') \subseteq Unheeded(sub, feed)
      BY <1>0, <2>0, <2>2, UnheededAfter DEF ReceiveEvent, ReceiveNoise
    <3>2. overlooked' = overlooked
      BY <2>2 DEF ReceiveEvent, ReceiveNoise, flowHistory
    <3>3. QED
      BY <2>1, <3>1, <3>2 DEF ClosureIsSeen
  <2>3. CASE ClosedTwice(n) /\ StaleSibling(n.sub)
    <3>1. overlooked' = overlooked \cup Unheeded(sub, feed') /\ sub' = sub
      BY <2>3 DEF ClosedTwice, StaleSibling
    <3>2. Unheeded(sub', feed') \subseteq overlooked'
      BY <3>1
    <3>3. QED
      BY <3>2 DEF ClosureIsSeen
  <2>4. CASE ClosedOnce(n) /\ ~attempted /\ MayRecover
    <3>1. n.sub \in Subscription
      BY <2>4 DEF ClosedOnce, Notifications, Event, Noise, Closed
    <3>2. CASE n.limited
      BY <2>4, <3>2 DEF ClosedOnce, ClosureIsSeen, At
    <3>3. CASE ~n.limited
      <4>1. step' = AskAgain(n.sub, 0)
        BY <2>4, <3>3 DEF ClosedOnce
      <4>2. step'.at = "subscribing" /\ Range(step'.todo) = Subscription
        BY <3>1, <4>1, <1>b DEF AskAgain
      <4>3. QED
        BY <1>9, <4>2
    <3>4. QED
      BY <3>2, <3>3
  <2>5. QED
    BY <1>11, <2>2, <2>3, <2>4 DEF Notices
<1>12. CASE BackOff
  <2>1. PICK s \in Subscription : step' = AskAgain(s, Backoff)
    BY <1>0, <1>12, StepShapes DEF BackOff, Wait
  <2>2. step'.at = "subscribing" /\ Range(step'.todo) = Subscription
    BY <2>1, <1>b DEF AskAgain
  <2>3. QED
    BY <1>9, <2>2
<1>13. CASE Forward
  BY <1>4, <1>13 DEF Forward, GoTo, At
<1>14. CASE Tick
  <2>1. CASE At("backoff")
    <3>1. step'.at = "backoff"
      BY <1>0, <1>14, <2>1, StepShapes DEF Tick, Wait
    <3>2. QED
      BY <3>1 DEF ClosureIsSeen, At
  <2>2. CASE ~At("backoff")
    BY <1>2, <1>14, <2>2 DEF Tick
  <2>3. QED
    BY <2>1, <2>2
<1>15. QED
  BY <1>1, <1>2, <1>3, <1>5, <1>6, <1>7, <1>8, <1>10, <1>11, <1>12, <1>13, <1>14
     DEF ListenerNext, listenerVars, flowHistory

\* A closed subscription is restored or ends the listener, unless its notice was lost
\* or taken for that of an earlier closure.
THEOREM ClosuresAreHeeded == Spec => []ClosureIsHeeded
<1>1. Init => ClosureIsSeen
  BY DEF Init, ClosureIsSeen, Unheeded
<1>2. ListenerTypeOK /\ ClosureIsSeen /\ [Next]_replicaVars => ClosureIsSeen'
  BY ListenerActs, ClosureSteps
<1>3. ClosureIsSeen => ClosureIsHeeded
  BY DEF ClosureIsSeen, ClosureIsHeeded, ToAsk, At
<1>4. TypeOK => ListenerTypeOK
  BY DEF TypeOK
<1>5. QED
  BY <1>1, <1>2, <1>3, <1>4, TypeCorrect, PTL DEF Spec

-----------------------------------------------------------------------------
(* Recoveries                                                              *)

\* All of them are as old as the timer allows.
LEMMA AgesGrow ==
  ASSUME NEW ages \in Seq(Nat)
  PROVE  LET grown == [i \in DOMAIN ages |-> ages[i] + 1]
         IN  /\ grown \in Seq(Nat) /\ Len(grown) = Len(ages)
             /\ \A i \in 1..Len(ages) : grown[i] = ages[i] + 1
             /\ \A i \in 0..(Len(ages) - 1) : FromLast(grown, i) = FromLast(ages, i) + 1
             /\ Sorted(ages) => Sorted(grown)
<1> DEFINE grown == [i \in DOMAIN ages |-> ages[i] + 1]
<1>1. PICK n \in Nat : /\ Len(ages) = n /\ DOMAIN ages = 1..n
                       /\ \A i \in 1..n : ages[i] \in Nat
  OBVIOUS
<1>2. grown \in [1..n -> Nat] /\ \A i \in 1..n : grown[i] = ages[i] + 1
  BY <1>1
<1> HIDE DEF grown
<1>3. grown \in Seq(Nat) /\ Len(grown) = n
  BY <1>2, IsASeq, LenProperties
<1>4. \A i \in 0..(n - 1) : n - i \in 1..n
  OBVIOUS
<1>5. \A i \in 0..(n - 1) : FromLast(grown, i) = FromLast(ages, i) + 1
  BY <1>1, <1>2, <1>3, <1>4 DEF FromLast
<1>6. Sorted(ages) => Sorted(grown)
  BY <1>1, <1>2, <1>3 DEF Sorted
<1>7. QED
  BY <1>1, <1>2, <1>3, <1>5, <1>6 DEF grown

LEMMA AppendAges ==
  ASSUME NEW ages \in Seq(Nat), NEW age \in Nat
  PROVE  /\ Append(ages, age) \in Seq(Nat) /\ Len(Append(ages, age)) = Len(ages) + 1
         /\ FromLast(Append(ages, age), 0) = age
         /\ \A i \in 1..Len(ages) : FromLast(Append(ages, age), i) = FromLast(ages, i - 1)
         /\ \A i \in 1..Len(ages) : Append(ages, age)[i] = ages[i]
         /\ Append(ages, age)[Len(ages) + 1] = age
<1> DEFINE longer == Append(ages, age)
<1>1. PICK n \in Nat : /\ Len(ages) = n /\ DOMAIN ages = 1..n
  OBVIOUS
<1>2. /\ longer \in Seq(Nat) /\ Len(longer) = n + 1
      /\ \A i \in 1..n : longer[i] = ages[i]
      /\ longer[n + 1] = age
  BY <1>1, AppendProperties
<1> HIDE DEF longer
<1>3. FromLast(longer, 0) = age
  BY <1>2 DEF FromLast
<1>4. ASSUME NEW i \in 1..n
      PROVE  FromLast(longer, i) = FromLast(ages, i - 1)
  <2>1. n + 1 - i \in 1..n /\ n - (i - 1) = n + 1 - i
    OBVIOUS
  <2>2. QED
    BY <1>1, <1>2, <2>1 DEF FromLast
<1>5. QED
  BY <1>1, <1>2, <1>3, <1>4 DEF longer

LEMMA SortedAppend ==
  ASSUME NEW ages \in Seq(Nat), NEW age \in Nat, Sorted(ages),
         \A i \in 1..Len(ages) : ages[i] >= age
  PROVE  Sorted(Append(ages, age))
<1>1. PICK n \in Nat : /\ Len(ages) = n /\ \A i \in 1..n : ages[i] \in Nat
  OBVIOUS
<1>2. /\ Len(Append(ages, age)) = n + 1
      /\ \A i \in 1..n : Append(ages, age)[i] = ages[i]
      /\ Append(ages, age)[n + 1] = age
  BY <1>1, AppendAges
<1>3. ASSUME NEW i \in 1..(n + 1), NEW j \in 1..(n + 1), i < j
      PROVE  Append(ages, age)[i] >= Append(ages, age)[j]
  <2>1. i \in 1..n /\ (j \in 1..n \/ j = n + 1)
    BY <1>3
  <2>2. QED
    BY <1>1, <1>2, <1>3, <2>1 DEF Sorted
<1>4. QED
  BY <1>2, <1>3 DEF Sorted

LEMMA OlderAges ==
  ASSUME NEW ages \in Seq(Nat), NEW limit \in Int
  PROVE  LET older == AllOlder(ages, limit)
         IN  /\ older \in Seq(Nat) /\ Len(older) <= Len(ages)
             /\ \A i \in 0..(Len(older) - 1) : FromLast(older, i) = FromLast(ages, i) + 1
             /\ \A i \in 1..Len(older) :
                  older[i] < limit /\ \E j \in 1..Len(ages) : older[i] = ages[j] + 1
             /\ Sorted(ages) => /\ Sorted(older)
                                /\ \A i \in 0..(Len(ages) - 1) :
                                     FromLast(ages, i) + 1 < limit => i < Len(older)
<1> DEFINE grown == [i \in DOMAIN ages |-> ages[i] + 1]
           older == AllOlder(ages, limit)
<1>1. /\ grown \in Seq(Nat) /\ Len(grown) = Len(ages)
      /\ \A i \in 1..Len(ages) : grown[i] = ages[i] + 1
      /\ \A i \in 0..(Len(ages) - 1) : FromLast(grown, i) = FromLast(ages, i) + 1
      /\ Sorted(ages) => Sorted(grown)
  BY AgesGrow
<1>2. older = Young(grown, limit)
  BY DEF AllOlder
<1> HIDE DEF grown, older
<1>3. /\ older \in Seq(Nat)
      /\ Len(older) <= Len(grown)
      /\ \A i \in 0..(Len(older) - 1) : FromLast(older, i) = FromLast(grown, i)
      /\ \A i \in 1..Len(older) : older[i] < limit
      /\ Sorted(grown) => /\ Sorted(older)
                          /\ \A i \in 0..(Len(grown) - 1) :
                               FromLast(grown, i) < limit => i < Len(older)
  BY <1>1, <1>2, YoungAreLast
<1>4. PICK n \in Nat, m \in Nat : n = Len(ages) /\ m = Len(older) /\ m <= n
  BY <1>1, <1>3, LenProperties
<1>5. ASSUME NEW i \in 0..(m - 1)
      PROVE  FromLast(older, i) = FromLast(ages, i) + 1
  <2>1. i \in 0..(n - 1)
    BY <1>4
  <2>2. QED
    BY <2>1, <1>1, <1>3, <1>4
<1>6. ASSUME NEW i \in 1..m
      PROVE  older[i] < limit /\ \E j \in 1..n : older[i] = ages[j] + 1
  <2>1. m - i \in 0..(m - 1) /\ m - (m - i) = i /\ n - (m - i) \in 1..n
    BY <1>4
  <2>2. older[i] = ages[n - (m - i)] + 1
    BY <2>1, <1>4, <1>5 DEF FromLast
  <2>3. QED
    BY <2>1, <2>2, <1>3, <1>4
<1>7. ASSUME Sorted(ages)
      PROVE  /\ Sorted(older)
             /\ \A i \in 0..(n - 1) : FromLast(ages, i) + 1 < limit => i < m
  BY <1>1, <1>3, <1>4, <1>7
<1>8. QED
  BY <1>3, <1>4, <1>5, <1>6, <1>7, <1>1 DEF older

\* The step of time, for the attempts and the renewals alone.
LEMMA RationTicks ==
  ASSUME ListenerTypeOK, RationInvariant, Tick
  PROVE  RationInvariant'
<1>0. /\ step \in Steps
      /\ attempts \in Seq(Nat) /\ renewals \in Seq(Nat)
      /\ deadline \in Nat /\ deadline <= Silence
  BY Numbers DEF ListenerTypeOK
<1>1. PICK m \in Nat, n \in Nat : m = Len(attempts) /\ n = Len(renewals)
  BY <1>0, LenProperties
<1>2. attempts' = AllOlder(attempts, Silence) /\ renewals' = AllOlder(renewals, RenewalWindow)
  BY DEF Tick
<1>3. /\ attempts' \in Seq(Nat) /\ Len(attempts') <= m /\ Sorted(attempts')
      /\ \A i \in 0..(Len(attempts') - 1) : FromLast(attempts', i) = FromLast(attempts, i) + 1
      /\ \A i \in 1..Len(attempts') : \E j \in 1..m : attempts'[i] = attempts[j] + 1
      /\ \A i \in 0..(m - 1) : FromLast(attempts, i) + 1 < Silence => i < Len(attempts')
  <2>1. Silence \in Int /\ Sorted(attempts)
    BY Numbers DEF RationInvariant
  <2>2. QED
    BY <1>0, <1>1, <1>2, <2>1, OlderAges
<1>4. /\ renewals' \in Seq(Nat) /\ Len(renewals') <= n /\ Sorted(renewals')
      /\ \A i \in 0..(Len(renewals') - 1) : FromLast(renewals', i) = FromLast(renewals, i) + 1
      /\ \A i \in 1..Len(renewals') :
           renewals'[i] < RenewalWindow /\ \E j \in 1..n : renewals'[i] = renewals[j] + 1
  <2>1. Sorted(renewals)
    BY DEF RationInvariant
  <2>2. QED
    BY <1>0, <1>1, <1>2, <2>1, OlderAges, RenewalWindowType
<1>5. PICK m1 \in Nat, n1 \in Nat : m1 = Len(attempts') /\ n1 = Len(renewals')
  BY <1>3, <1>4, LenProperties
<1>6. RenewalsAreCounted'
  <2>1. ASSUME NEW i \in Nat, i + 1 < n1
        PROVE  i < m1 /\ FromLast(attempts', i) <= FromLast(renewals', i) + Backoff
    <3>1. i \in 0..(n1 - 1) /\ i + 1 < n
      BY <1>1, <1>4, <1>5, <2>1
    <3>2. i < m /\ FromLast(attempts, i) <= FromLast(renewals, i) + Backoff
      BY <1>1, <3>1 DEF RationInvariant, RenewalsAreCounted
    <3>3. FromLast(renewals', i) = FromLast(renewals, i) + 1
      BY <1>4, <1>5, <3>1
    <3>4. FromLast(renewals', i) < RenewalWindow
      <4>1. n1 - i \in 1..n1
        BY <3>1
      <4>2. QED
        BY <4>1, <1>4, <1>5 DEF FromLast
    <3>5. FromLast(renewals, i) \in Nat /\ FromLast(attempts, i) \in Nat
      <4>1. n - i \in 1..n /\ m - i \in 1..m
        BY <3>1, <3>2
      <4>2. (\A k \in 1..n : renewals[k] \in Nat) /\ (\A k \in 1..m : attempts[k] \in Nat)
        BY <1>0, <1>1, ElementOfSeq
      <4>3. QED
        BY <4>1, <4>2, <1>1 DEF FromLast
    <3>6. FromLast(attempts, i) + 1 < Silence
      BY <3>2, <3>3, <3>4, <3>5, Numbers DEF RenewalWindow
    <3>7. i < m1
      BY <1>3, <1>5, <3>2, <3>6
    <3>8. FromLast(attempts', i) = FromLast(attempts, i) + 1
      BY <1>3, <1>5, <3>7
    <3>9. QED
      BY <3>2, <3>3, <3>5, <3>7, <3>8, Numbers
  <2>2. QED
    BY <1>5, <2>1 DEF RenewalsAreCounted
<1>7. RenewalsAreTimed'
  <2>1. ASSUME NEW i \in 1..n1
        PROVE  Silence - deadline' <= renewals'[i] /\ renewals'[i] < Silence
    <3>1. PICK j \in 1..n : renewals'[i] = renewals[j] + 1
      BY <1>4, <1>5
    <3>2. Silence - deadline <= renewals[j] /\ renewals[j] \in Nat
      BY <1>0, <1>1, ElementOfSeq DEF RationInvariant, RenewalsAreTimed
    <3>3. renewals'[i] < RenewalWindow
      BY <1>4, <1>5
    <3>4. deadline' \in Nat /\ deadline' >= deadline - 1
      BY <1>0 DEF Tick, Shorter
    <3>5. QED
      BY <1>0, <3>1, <3>2, <3>3, <3>4, Numbers DEF RenewalWindow
  <2>2. QED
    BY <1>5, <2>1 DEF RenewalsAreTimed
<1>8. /\ At("backoff") => /\ At("backoff")' /\ step'.left = step.left - 1
                          /\ step.left \in Nat
      /\ ~At("backoff") => step' = step
      /\ ~At("subscribing") /\ ~At("subscribing")'
  <2>1. CASE At("backoff")
    <3>1. step \in Wait
      BY <1>0, <2>1, StepShapes
    <3>2. step'.at = "backoff" /\ step'.left = step.left - 1 /\ step.left \in Nat
      BY <2>1, <3>1 DEF Tick, Wait
    <3>3. QED
      BY <2>1, <3>2 DEF At
  <2>2. CASE ~At("backoff")
    BY <2>2 DEF Tick, Waiting, At
  <2>3. QED
    BY <2>1, <2>2
<1>9. AttemptsAreFew'
  <2>1. Recovering' <=> Recovering
    BY <1>8 DEF Recovering, At
  <2>2. m <= MaxRecoveries - (IF Recovering THEN 1 ELSE 0)
    BY <1>1 DEF RationInvariant, AttemptsAreFew
  <2>3. m1 <= MaxRecoveries - (IF Recovering' THEN 1 ELSE 0)
    BY <1>3, <1>5, <2>1, <2>2, Numbers
  <2>4. QED
    BY <1>5, <2>3 DEF AttemptsAreFew
<1>10. AttemptsAreEarlier'
  <2>1. ASSUME NEW i \in 1..m1, At("backoff")'
        PROVE  attempts'[i] >= Backoff - step'.left
    <3>1. At("backoff") /\ step'.left = step.left - 1 /\ step.left \in Nat
      BY <1>8, <2>1 DEF At
    <3>2. PICK j \in 1..m : attempts'[i] = attempts[j] + 1
      BY <1>3, <1>5
    <3>3. attempts[j] >= Backoff - step.left /\ attempts[j] \in Nat
      BY <1>0, <1>1, <3>1, ElementOfSeq DEF RationInvariant, AttemptsAreEarlier
    <3>4. QED
      BY <3>1, <3>2, <3>3, Numbers
  <2>2. QED
    BY <1>5, <1>8, <2>1 DEF AttemptsAreEarlier
<1>11. SilenceFindsNoRenewal'
  BY <1>8 DEF SilenceFindsNoRenewal
<1>12. QED
  BY <1>3, <1>4, <1>6, <1>7, <1>9, <1>10, <1>11 DEF RationInvariant

\* The subscriptions are renewed: a renewal and, after a closure, an attempt more.
LEMMA RationRenewal ==
  ASSUME ListenerTypeOK, RationInvariant, FinishSubscribing
  PROVE  RationInvariant'
<1> DEFINE young == Young(renewals, RenewalWindow)
<1>0. /\ step \in FirstAsk \cup NextAsk
      /\ attempts \in Seq(Nat) /\ renewals \in Seq(Nat)
      /\ Sorted(attempts) /\ Sorted(renewals)
  BY StepShapes DEF ListenerTypeOK, FinishSubscribing, RationInvariant
<1>1. PICK m \in Nat, n \in Nat : m = Len(attempts) /\ n = Len(renewals)
  BY <1>0, LenProperties
<1>2. /\ step' = [at |-> "live"] /\ deadline' = Silence /\ At("subscribing")
  BY DEF FinishSubscribing, GoTo
<1>3. /\ young \in Seq(Nat) /\ Len(young) <= n /\ Sorted(young)
      /\ \A i \in 0..(Len(young) - 1) : FromLast(young, i) = FromLast(renewals, i)
  BY <1>0, <1>1, YoungAreLast, RenewalWindowType
<1>4. \A i \in 1..Len(young) : young[i] < Silence
  <2>1. \A i \in 1..Len(young) : young[i] < RenewalWindow
    BY <1>0, YoungAreLast, RenewalWindowType
  <2>2. \A i \in 1..Len(young) : young[i] \in Nat
    BY <1>3, ElementOfSeq
  <2>3. QED
    BY <2>1, <2>2, Numbers DEF RenewalWindow
<1> HIDE DEF young
<1>5. PICK y \in Nat : y = Len(young) /\ y <= n
  BY <1>1, <1>3, LenProperties
<1>6. AttemptsAreEarlier' /\ SilenceFindsNoRenewal' /\ ~Recovering'
  BY <1>2 DEF AttemptsAreEarlier, SilenceFindsNoRenewal, Recovering, At
<1>7. CASE step.why = "start"
  <2>1. attempts' = attempts /\ renewals' = renewals
    BY <1>7 DEF FinishSubscribing
  <2>2. RenewalsAreTimed'
    <3>1. \A i \in 1..n : renewals[i] \in Nat
      BY <1>0, <1>1, ElementOfSeq
    <3>2. QED
      BY <1>1, <1>2, <2>1, <3>1, Numbers DEF RenewalsAreTimed, RationInvariant
  <2>3. RenewalsAreCounted'
    BY <2>1 DEF RenewalsAreCounted, RationInvariant, FromLast
  <2>4. AttemptsAreFew'
    BY <1>6, <2>1, <1>1, Numbers DEF AttemptsAreFew, RationInvariant
  <2>5. QED
    BY <1>0, <1>6, <2>1, <2>2, <2>3, <2>4 DEF RationInvariant
<1>8. CASE step.why # "start"
  <2>1. renewals' = Append(young, 0)
    BY <1>8 DEF FinishSubscribing, young
  <2>2. /\ renewals' \in Seq(Nat) /\ Len(renewals') = y + 1
        /\ FromLast(renewals', 0) = 0
        /\ \A i \in 1..y : FromLast(renewals', i) = FromLast(young, i - 1)
        /\ \A i \in 1..y : renewals'[i] = young[i]
        /\ renewals'[y + 1] = 0
    BY <1>3, <1>5, <2>1, AppendAges
  <2>3. \A i \in 1..y : young[i] \in Nat /\ young[i] < Silence
    BY <1>3, <1>4, <1>5, ElementOfSeq
  <2>4. Sorted(renewals')
    BY <1>3, <1>5, <2>1, <2>3, SortedAppend
  <2>5. RenewalsAreTimed'
    <3>1. ASSUME NEW i \in 1..(y + 1)
          PROVE  0 <= renewals'[i] /\ renewals'[i] < Silence
      <4>1. CASE i = y + 1
        BY <2>2, <4>1, Numbers
      <4>2. CASE i # y + 1
        <5>1. i \in 1..y
          BY <4>2
        <5>2. renewals'[i] = young[i] /\ young[i] \in Nat /\ young[i] < Silence
          BY <2>2, <2>3, <5>1
        <5>3. QED
          BY <5>2
      <4>3. QED
        BY <4>1, <4>2
    <3>2. Silence - deadline' = 0
      BY <1>2, Numbers
    <3>3. QED
      BY <2>2, <3>1, <3>2 DEF RenewalsAreTimed
  <2>6. CASE step.why = "silence"
    <3>1. renewals = <<>>
      BY <1>2, <2>6 DEF RationInvariant, SilenceFindsNoRenewal
    <3>2. n = 0 /\ y = 0
      BY <1>1, <1>5, <3>1
    <3>3. attempts' = attempts
      BY <2>6 DEF FinishSubscribing
    <3>4. RenewalsAreCounted'
      BY <2>2, <3>2 DEF RenewalsAreCounted
    <3>5. AttemptsAreFew'
      BY <1>6, <1>1, <3>3, Numbers DEF AttemptsAreFew, RationInvariant
    <3>6. QED
      BY <1>0, <1>6, <2>4, <2>5, <3>3, <3>4, <3>5 DEF RationInvariant
  <2>7. CASE step.why = "closure"
    <3>1. step.waited \in Nat /\ step.waited <= Backoff
      BY <1>0, <2>7, Numbers DEF FirstAsk, NextAsk
    <3>2. attempts' = Append(attempts, step.waited)
      BY <2>7 DEF FinishSubscribing
    <3>3. /\ Len(attempts') = m + 1
          /\ FromLast(attempts', 0) = step.waited
          /\ \A i \in 1..m : FromLast(attempts', i) = FromLast(attempts, i - 1)
      BY <1>0, <1>1, <3>1, <3>2, AppendAges
    <3>4. Sorted(attempts')
      <4>1. \A i \in 1..Len(attempts) : attempts[i] >= step.waited
        BY <1>2, <2>7 DEF RationInvariant, AttemptsAreEarlier
      <4>2. QED
        BY <1>0, <3>1, <3>2, <4>1, SortedAppend
    <3>5. AttemptsAreFew'
      <4>1. m <= MaxRecoveries - 1
        BY <1>1, <1>2, <2>7 DEF RationInvariant, AttemptsAreFew, Recovering
      <4>2. QED
        BY <1>6, <3>3, <4>1, Numbers DEF AttemptsAreFew
    <3>6. ASSUME NEW i \in Nat, i + 1 < y + 1
          PROVE  i < m + 1 /\ FromLast(attempts', i) <= FromLast(renewals', i) + Backoff
      <4>1. CASE i = 0
        BY <2>2, <3>1, <3>3, <4>1, Numbers
      <4>2. CASE i # 0
        <5>1. i - 1 \in Nat /\ (i - 1) + 1 < n /\ i \in 1..y /\ i - 1 \in 0..(y - 1)
          BY <1>5, <3>6, <4>2
        <5>2. i - 1 < m /\ FromLast(attempts, i - 1) <= FromLast(renewals, i - 1) + Backoff
          BY <1>1, <5>1 DEF RationInvariant, RenewalsAreCounted
        <5>3. FromLast(renewals', i) = FromLast(renewals, i - 1)
          BY <1>3, <1>5, <2>2, <5>1
        <5>4. i \in 1..m /\ FromLast(attempts', i) = FromLast(attempts, i - 1)
          BY <3>3, <5>1, <5>2
        <5>5. QED
          BY <5>2, <5>3, <5>4
      <4>3. QED
        BY <4>1, <4>2
    <3>7. RenewalsAreCounted'
      BY <2>2, <3>3, <3>6 DEF RenewalsAreCounted
    <3>8. QED
      BY <1>6, <2>4, <2>5, <3>4, <3>5, <3>7 DEF RationInvariant
  <2>8. QED
    BY <1>0, <1>8, <2>6, <2>7 DEF FirstAsk, NextAsk
<1>9. QED
  BY <1>7, <1>8

LEMMA RationSteps ==
  ASSUME ListenerTypeOK, RationInvariant, ListenerNext
  PROVE  RationInvariant'
<1>0. /\ step \in Steps
      /\ attempts \in Seq(Nat) /\ renewals \in Seq(Nat)
      /\ deadline \in Nat /\ deadline <= Silence
  BY Numbers DEF ListenerTypeOK
<1>a. Sorted(<<>>) /\ Len(<<>>) = 0
  BY DEF Sorted
<1>1. CASE Stops
  <2>1. attempts' = <<>> /\ renewals' = <<>> /\ ~At("subscribing")' /\ ~At("backoff")'
    BY <1>1 DEF Stops, Dropped, At
  <2>2. AttemptsAreFew'
    BY <1>a, <2>1, Numbers DEF AttemptsAreFew, Recovering
  <2>3. RenewalsAreCounted' /\ RenewalsAreTimed'
    BY <1>a, <2>1 DEF RenewalsAreCounted, RenewalsAreTimed
  <2>4. QED
    BY <1>a, <2>1, <2>2, <2>3 DEF RationInvariant, AttemptsAreEarlier, SilenceFindsNoRenewal
<1>2. \* Nothing is renewed or attempted.
      ASSUME UNCHANGED <<attempts, renewals>>, deadline' = deadline \/ deadline' = Silence,
             AttemptsAreFew', AttemptsAreEarlier', SilenceFindsNoRenewal'
      PROVE  RationInvariant'
  <2>1. RenewalsAreCounted'
    BY <1>2 DEF RationInvariant, RenewalsAreCounted, FromLast
  <2>2. RenewalsAreTimed'
    <3>1. \A i \in 1..Len(renewals) : renewals[i] \in Nat
      BY <1>0, ElementOfSeq
    <3>2. QED
      BY <1>0, <1>2, <3>1, Numbers DEF RationInvariant, RenewalsAreTimed
  <2>3. QED
    BY <1>2, <2>1, <2>2 DEF RationInvariant, Sorted
<1>b. PICK m \in Nat : m = Len(attempts)
  BY <1>0, LenProperties
<1>c. m <= MaxRecoveries - (IF Recovering THEN 1 ELSE 0)
  BY <1>b DEF RationInvariant, AttemptsAreFew
<1>3. \* And no recovery begins.
      ASSUME UNCHANGED <<attempts, renewals>>, deadline' = deadline \/ deadline' = Silence,
             ~Recovering', ~At("subscribing")' \/ step'.why # "silence"
      PROVE  RationInvariant'
  <2>1. AttemptsAreFew'
    BY <1>3, <1>b, <1>c, Numbers DEF AttemptsAreFew
  <2>2. AttemptsAreEarlier' /\ SilenceFindsNoRenewal'
    BY <1>3 DEF AttemptsAreEarlier, SilenceFindsNoRenewal, Recovering
  <2>3. QED
    BY <1>2, <1>3, <2>1, <2>2
<1>4. CASE UNCHANGED <<step, deadline, attempts, renewals>>
  <2>1. AttemptsAreFew' /\ AttemptsAreEarlier' /\ SilenceFindsNoRenewal'
    BY <1>4 DEF RationInvariant, AttemptsAreFew, AttemptsAreEarlier, SilenceFindsNoRenewal,
       Recovering, At
  <2>2. QED
    BY <1>2, <1>4, <2>1
<1>5. CASE Connect \/ Forward
  BY <1>3, <1>5 DEF Connect, Forward, GoTo, Recovering, At, watchVars, flowHistory
<1>6. CASE GoesThroughHistory
  <2>1. ForwardList => step'.at = "paging"
    BY <1>0, StepShapes DEF ForwardList, At, Paging
  <2>2. step'.at \in {"asking", "paging", "paged"} \/ step' = Ask("start")
    BY <1>6, <2>1 DEF GoesThroughHistory, FinishStored, FetchPage, NextPage, FinishHistory
  <2>3. UNCHANGED <<deadline, attempts, renewals>>
    BY <1>6 DEF GoesThroughHistory, FinishStored, FetchPage, ForwardList, NextPage,
       FinishHistory, watchVars, flowHistory
  <2>4. QED
    BY <1>3, <2>2, <2>3 DEF Recovering, At, Ask
<1>7. CASE Subscribe
  <2>1. step \in FirstAsk \cup NextAsk
    BY <1>0, <1>7, StepShapes DEF Subscribe
  <2>2. /\ step'.at = "subscribing" /\ step'.why = step.why /\ step.at = "subscribing"
        /\ step.why = "closure" => step'.waited = step.waited
    BY <1>7, <2>1 DEF Subscribe, FirstAsk, NextAsk
  <2>3. UNCHANGED <<deadline, attempts, renewals>>
    BY <1>7 DEF Subscribe, watchVars
  <2>4. AttemptsAreFew' /\ AttemptsAreEarlier' /\ SilenceFindsNoRenewal'
    BY <2>2, <2>3 DEF RationInvariant, AttemptsAreFew, AttemptsAreEarlier,
       SilenceFindsNoRenewal, Recovering, At
  <2>5. QED
    BY <1>2, <2>3, <2>4
<1>8. CASE HearSilence /\ ~attempted
  <2>1. /\ step' = Ask("silence") /\ deadline = 0 /\ At("live")
        /\ UNCHANGED <<deadline, attempts, renewals>>
    BY <1>8 DEF HearSilence, watchVars, flowHistory
  <2>2. renewals = <<>>
    <3>1. \A i \in 1..Len(renewals) : renewals[i] \in Nat
      BY <1>0, ElementOfSeq
    <3>2. ~(1 \in 1..Len(renewals))
      BY <2>1, <3>1, Numbers DEF RationInvariant, RenewalsAreTimed
    <3>3. Len(renewals) = 0
      BY <1>0, <3>2
    <3>4. QED
      BY <1>0, <3>3
  <2>3. ~Recovering'
    BY <2>1 DEF Recovering, At, Ask
  <2>4. AttemptsAreFew'
    BY <1>b, <1>c, <2>1, <2>3, Numbers DEF AttemptsAreFew
  <2>5. AttemptsAreEarlier' /\ SilenceFindsNoRenewal'
    BY <2>1, <2>2, <2>3 DEF AttemptsAreEarlier, SilenceFindsNoRenewal, Recovering
  <2>6. QED
    BY <1>2, <2>1, <2>4, <2>5
<1>9. ASSUME NEW n \in Notifications, Notices(n)
      PROVE  RationInvariant'
  <2>0. At("live")
    BY <1>9 DEF Notices, Receive
  <2>1. CASE ReceiveEvent(n)
    BY <1>3, <2>1 DEF ReceiveEvent, GoTo, Recovering, At, watchVars, flowHistory
  <2>2. CASE ReceiveNoise(n)
    BY <1>4, <2>2 DEF ReceiveNoise, DeadlineAfterNoise, flowHistory
  <2>3. CASE ClosedTwice(n) /\ StaleSibling(n.sub)
    BY <1>4, <2>3 DEF ClosedTwice
  <2>4. CASE ClosedOnce(n) /\ ~attempted /\ MayRecover
    <3>1. UNCHANGED <<deadline, attempts, renewals>>
      BY <2>4 DEF ClosedOnce, flowHistory
    <3>2. \/ step'.at = "backoff" /\ step'.left = Backoff
          \/ step'.at = "subscribing" /\ step'.why = "closure" /\ step'.waited = 0
      BY <2>4 DEF ClosedOnce, AskAgain
    <3>3. m < MaxRecoveries
      BY <2>4, <1>b DEF MayRecover
    <3>4. AttemptsAreFew'
      BY <1>b, <3>1, <3>3, Numbers DEF AttemptsAreFew
    <3>5. AttemptsAreEarlier'
      <4>1. \A i \in 1..m : attempts'[i] \in Nat
        BY <1>0, <1>b, <3>1, ElementOfSeq
      <4>2. QED
        BY <1>b, <3>1, <3>2, <4>1, Numbers DEF AttemptsAreEarlier, At
    <3>6. SilenceFindsNoRenewal'
      BY <3>2 DEF SilenceFindsNoRenewal, At
    <3>7. QED
      BY <1>2, <3>1, <3>4, <3>5, <3>6
  <2>5. QED
    BY <1>9, <2>1, <2>2, <2>3, <2>4 DEF Notices
<1>10. CASE BackOff
  <2>1. PICK s \in Subscription : step' = AskAgain(s, Backoff)
    BY <1>0, <1>10, StepShapes DEF BackOff, Wait
  <2>2. /\ At("backoff") /\ step.left = 0 /\ UNCHANGED <<deadline, attempts, renewals>>
    BY <1>10 DEF BackOff, watchVars, flowHistory
  <2>3. AttemptsAreFew'
    BY <1>b, <1>c, <2>1, <2>2, Numbers DEF AttemptsAreFew, Recovering
  <2>4. AttemptsAreEarlier'
    BY <2>1, <2>2, Numbers DEF RationInvariant, AttemptsAreEarlier, At, AskAgain
  <2>5. SilenceFindsNoRenewal'
    BY <2>1 DEF SilenceFindsNoRenewal, AskAgain
  <2>6. QED
    BY <1>2, <2>2, <2>3, <2>4, <2>5
<1>11. QED
  BY <1>1, <1>4, <1>5, <1>6, <1>7, <1>8, <1>9, <1>10, RationRenewal, RationTicks
     DEF ListenerNext, Post, listenerVars, watchVars, flowHistory

\* However often the relay closes the subscriptions, and whatever it trickles in
\* between, they are renewed at most once more in a window than the code allows
\* recoveries.
THEOREM RenewalsAreFew == Spec => []ReplaysAreRationed
<1>1. Init => RationInvariant
  <2>1. Sorted(<<>>) /\ Len(<<>>) = 0
    BY DEF Sorted
  <2>2. Init => AttemptsAreFew
    BY <2>1, Numbers DEF Init, AttemptsAreFew, Recovering, At
  <2>3. QED
    BY <2>1, <2>2 DEF Init, RationInvariant, RenewalsAreCounted, RenewalsAreTimed,
       AttemptsAreEarlier, SilenceFindsNoRenewal, At
<1>2. ListenerTypeOK /\ RationInvariant /\ [Next]_replicaVars => RationInvariant'
  BY ListenerActs, RationSteps
<1>3. ASSUME ListenerTypeOK, RationInvariant
      PROVE  ReplaysAreRationed
  <2>1. PICK m \in Nat, n \in Nat : m = Len(attempts) /\ n = Len(renewals)
    BY <1>3, LenProperties DEF ListenerTypeOK
  <2>2. m <= MaxRecoveries
    BY <1>3, <2>1, Numbers DEF RationInvariant, AttemptsAreFew
  <2>3. n >= 2 => n - 2 < m
    <3>1. n >= 2 => n - 2 \in Nat /\ (n - 2) + 1 < n
      BY <2>1
    <3>2. QED
      BY <1>3, <2>1, <3>1 DEF RationInvariant, RenewalsAreCounted
  <2>4. QED
    BY <2>1, <2>2, <2>3, Numbers DEF ReplaysAreRationed
<1>4. TypeOK => ListenerTypeOK
  BY DEF TypeOK
<1>5. QED
  BY <1>1, <1>2, <1>3, <1>4, TypeCorrect, PTL DEF Spec

-----------------------------------------------------------------------------
(* The replay of notify lists                                              *)

LEMMA CardinalityOfPage ==
  ASSUME NEW archive \in Archives, NEW page \in SUBSET archive
  PROVE  /\ Cardinality(page) \in Nat
         /\ \A whole \in SUBSET archive :
              page \subseteq whole => Cardinality(page) <= Cardinality(whole)
         /\ page # {} => Cardinality(page) > 0
         /\ \A whole \in SUBSET archive :
              page \subseteq whole /\ Cardinality(page) = Cardinality(whole) => page = whole
<1>1. IsFiniteSet(archive)
  BY ListenerAssumption
<1>2. \A whole \in SUBSET archive : IsFiniteSet(whole)
  BY <1>1, FS_Subset
<1>3. IsFiniteSet(page) /\ Cardinality(page) \in Nat
  BY <1>2, FS_CardinalityType
<1>4. ASSUME NEW whole \in SUBSET archive, page \subseteq whole
      PROVE  /\ Cardinality(page) <= Cardinality(whole)
             /\ Cardinality(page) = Cardinality(whole) => page = whole
  BY <1>2, <1>4, FS_Subset
<1>5. page # {} => Cardinality(page) > 0
  BY <1>3, FS_EmptySet
<1>6. QED
  BY <1>3, <1>4, <1>5

\* A page is the whole of what was asked for, or it is full.
LEMMA PageIsFull ==
  ASSUME NEW archive \in Archives, NEW asked \in SUBSET archive, NEW page, IsPage(page, asked)
  PROVE  page = asked \/ Cardinality(page) >= PageLimit
<1>1. Cardinality(asked) \in Nat
  BY CardinalityOfPage
<1>2. Min({PageLimit, Cardinality(asked)}) \in {PageLimit, Cardinality(asked)}
  BY <1>1, Numbers, MinOfNats, {PageLimit, Cardinality(asked)} # {}
<1>3. CASE Cardinality(page) = PageLimit
  BY <1>3, Numbers
<1>4. CASE Cardinality(page) = Cardinality(asked)
  <2>1. page \subseteq asked /\ page \in SUBSET archive
    BY DEF IsPage
  <2>2. QED
    BY <1>4, <2>1, CardinalityOfPage
<1>5. QED
  BY <1>2, <1>3, <1>4 DEF IsPage

\* A full page whose lists have all one date excuses what is no later.
LEMMA FullPageExcuses ==
  ASSUME NEW archive \in Archives, NEW page \in SUBSET archive,
         Cardinality(page) >= PageLimit,
         \A p, q \in page : p.date = q.date,
         NEW l \in archive, \A p \in page : l.date <= p.date
  PROVE  Excused(archive, l)
<1>1. page # {}
  BY Numbers, FS_EmptySet
<1>2. PICK p \in page : TRUE
  BY <1>1
<1> DEFINE same == {o \in archive : o.date = p.date}
<1>3. same \in SUBSET archive /\ page \subseteq same
  BY <1>2
<1>4. Cardinality(same) >= PageLimit
  <2>1. Cardinality(page) <= Cardinality(same)
    BY <1>3, CardinalityOfPage
  <2>2. Cardinality(page) \in Nat /\ Cardinality(same) \in Nat
    BY <1>3, CardinalityOfPage
  <2>3. QED
    BY <2>1, <2>2, Numbers
<1>5. p \in archive /\ p.date >= l.date
  BY <1>2, ListenerAssumption
<1>6. QED
  BY <1>4, <1>5 DEF Excused

LEMMA DatesOfArchive ==
  ASSUME NEW archive \in Archives
  PROVE  \A l \in archive : l.date \in Nat
BY ListenerAssumption

LEMMA DatesOfLists ==
  \A S \in Lists : \A l \in S : l.date \in Nat
BY ListenerAssumption DEF Lists

LEMMA FetchKeeps ==
  ASSUME step \in Steps, ReplayInvariant, FetchPage
  PROVE  ReplayInvariant'
<1>1. step \in Asking /\ At("asking")
  BY StepShapes DEF FetchPage
<1>2. PICK page \in SUBSET step.archive :
        /\ IsPage(page, Asked)
        /\ step' = [at |-> "paging", archive |-> step.archive, page |-> page,
                    seen |-> step.seen, todo |-> page \ step.seen]
  BY DEF FetchPage
<1>3. step.archive \in Archives /\ step.seen \in Lists
  BY <1>1 DEF Asking
<1>4. \A l \in step.archive : l.date \in Nat
  BY <1>3, DatesOfArchive
<1>5. \A l \in step.seen : l.date \in Nat
  BY <1>3, DatesOfLists
<1>6. \/ step.until = {} /\ step.seen = {}
      \/ \E d \in Nat :
           /\ step.until = {d}
           /\ \A l \in step.seen : l.date >= d
           /\ \A l \in step.archive \ step.seen : l.date > d => Excused(step.archive, l)
  <2>1. step.until = {} \/ \E d \in Nat : step.until = {d}
    BY <1>1 DEF Asking
  <2>2. /\ step.until = {} => step.seen = {}
        /\ \A d \in step.until :
             /\ \A l \in step.seen : l.date >= d
             /\ \A l \in step.archive \ step.seen : l.date > d => Excused(step.archive, l)
    BY <1>1 DEF ReplayInvariant, PagesGoBack
  <2>3. QED
    BY <2>1, <2>2
<1>7. Asked \in SUBSET step.archive
  BY DEF Asked
<1>8. \A l \in step.seen, p \in page : p.date <= l.date
  <2>1. ASSUME NEW l \in step.seen, NEW p \in page
        PROVE  p.date <= l.date
    <3>1. PICK d \in Nat : step.until = {d} /\ l.date >= d
      BY <1>6
    <3>2. p \in Asked
      BY <1>2 DEF IsPage
    <3>3. p.date <= d
      BY <3>1, <3>2 DEF Asked
    <3>4. p.date \in Nat /\ l.date \in Nat
      BY <1>2, <1>4, <1>5
    <3>5. QED
      BY <3>1, <3>3, <3>4
  <2>2. QED
    BY <2>1
<1>9. ASSUME NEW l \in step.archive \ (step.seen \cup page)
      PROVE  \/ Excused(step.archive, l)
             \/ /\ Cardinality(page) >= PageLimit
                /\ \A p \in page : l.date <= p.date
  <2>1. CASE l \in Asked
    <3>1. page # Asked
      BY <1>9, <2>1
    <3>2. Cardinality(page) >= PageLimit
      BY <1>2, <1>3, <1>7, <3>1, PageIsFull
    <3>3. QED
      BY <1>2, <1>9, <2>1, <3>2 DEF IsPage
  <2>2. CASE l \notin Asked
    <3>1. PICK d \in step.until : ~(l.date <= d)
      BY <1>9, <2>2 DEF Asked
    <3>2. d \in Nat /\ (l.date > d => Excused(step.archive, l))
      BY <1>6, <1>9, <3>1
    <3>3. l.date \in Nat
      BY <1>4, <1>9
    <3>4. QED
      BY <3>1, <3>2, <3>3
  <2>3. QED
    BY <2>1, <2>2
<1>10. step'.at = "paging" /\ step'.archive = step.archive /\ step'.page = page
       /\ step'.seen = step.seen
  BY <1>2
<1>11. PageIsNext'
  BY <1>8, <1>9, <1>10 DEF PageIsNext, Excused
<1>12. PagesGoBack' /\ ListsAreReplayed'
  BY <1>10 DEF PagesGoBack, ListsAreReplayed, At
<1>13. QED
  BY <1>11, <1>12 DEF ReplayInvariant

LEMMA NextPageKeeps ==
  ASSUME step \in Steps, ReplayInvariant, NextPage
  PROVE  ReplayInvariant'
<1>1. step \in Paging /\ At("paging")
  BY StepShapes DEF NextPage
<1>2. step.archive \in Archives /\ step.seen \in Lists
  BY <1>1 DEF Paging
<1>3. /\ step.page \in SUBSET step.archive
      /\ \A l \in step.seen, p \in step.page : p.date <= l.date
      /\ \A l \in step.archive \ (step.seen \cup step.page) :
           \/ Excused(step.archive, l)
           \/ /\ Cardinality(step.page) >= PageLimit
              /\ \A p \in step.page : l.date <= p.date
  BY <1>1 DEF ReplayInvariant, PageIsNext
<1>4. /\ \A l \in step.archive : l.date \in Nat
      /\ \A l \in step.seen : l.date \in Nat
      /\ Cardinality(step.page) \in Nat
  BY <1>2, <1>3, DatesOfArchive, DatesOfLists, CardinalityOfPage
<1>5. CASE IsLastPage(step.page, step.seen)
  <2>1. step' = [at |-> "paged", missed |-> step.archive \ (step.seen \cup step.page),
                 archive |-> step.archive]
    BY <1>5 DEF NextPage
  <2>2. ASSUME NEW l \in step.archive \ (step.seen \cup step.page)
        PROVE  Excused(step.archive, l)
    <3>1. CASE Cardinality(step.page) >= PageLimit /\ \A p \in step.page : l.date <= p.date
      <4>1. step.page \subseteq step.seen
        BY <1>4, <1>5, <3>1, Numbers DEF IsLastPage
      <4>2. ASSUME NEW p \in step.page, NEW q \in step.page
            PROVE  p.date = q.date
        <5>1. p.date <= q.date /\ q.date <= p.date
          BY <1>3, <4>1
        <5>2. QED
          BY <1>3, <1>4, <5>1
      <4>3. QED
        BY <1>2, <1>3, <3>1, <4>2, FullPageExcuses
    <3>2. QED
      BY <1>3, <3>1
  <2>3. /\ step'.at = "paged" /\ step'.archive = step.archive
        /\ step'.missed = step.archive \ (step.seen \cup step.page)
    BY <2>1
  <2>4. ListsAreReplayed'
    BY <2>2, <2>3 DEF ListsAreReplayed, Excused
  <2>5. QED
    BY <2>3, <2>4 DEF ReplayInvariant, PagesGoBack, PageIsNext, At
<1>6. CASE ~IsLastPage(step.page, step.seen)
  <2> DEFINE d == Oldest(step.page)
  <2>1. step' = [at |-> "asking", archive |-> step.archive, until |-> {d},
                 seen |-> step.seen \cup step.page]
    BY <1>6 DEF NextPage
  <2>2. /\ d \in Nat
        /\ \A p \in step.page : d <= p.date
        /\ \E p \in step.page : d = p.date
    BY <1>1, <1>6, FullPage, OldestIsDate
  <2> HIDE DEF d
  <2>3. PICK o \in step.page : d = o.date
    BY <2>2
  <2>4. ASSUME NEW l \in step.seen \cup step.page
        PROVE  l.date >= d
    BY <1>3, <1>4, <2>2, <2>3, <2>4
  <2>5. ASSUME NEW l \in step.archive \ (step.seen \cup step.page), l.date > d
        PROVE  Excused(step.archive, l)
    <3>1. ~(l.date <= o.date)
      BY <1>4, <2>2, <2>3, <2>5
    <3>2. QED
      BY <1>3, <2>3, <2>5, <3>1
  <2>6. /\ step'.at = "asking" /\ step'.archive = step.archive /\ step'.until = {d}
        /\ step'.seen = step.seen \cup step.page
    BY <2>1
  <2>7. PagesGoBack'
    BY <2>4, <2>5, <2>6 DEF PagesGoBack, Excused
  <2>8. QED
    BY <2>6, <2>7 DEF ReplayInvariant, ListsAreReplayed, PageIsNext, At
<1>7. QED
  BY <1>5, <1>6

LEMMA ReplaySteps ==
  ASSUME ListenerTypeOK, ReplayInvariant, ListenerNext
  PROVE  ReplayInvariant'
<1>0. step \in Steps
  BY DEF ListenerTypeOK
<1>1. CASE UNCHANGED step
  <2>1. PagesGoBack'
    BY <1>1 DEF ReplayInvariant, PagesGoBack, Excused, At
  <2>2. PageIsNext'
    BY <1>1 DEF ReplayInvariant, PageIsNext, Excused, At
  <2>3. ListsAreReplayed'
    BY <1>1 DEF ReplayInvariant, ListsAreReplayed, At
  <2>4. QED
    BY <2>1, <2>2, <2>3 DEF ReplayInvariant
<1>2. ASSUME step'.at \notin {"asking", "paging", "paged"}
      PROVE  ReplayInvariant'
  BY <1>2 DEF ReplayInvariant, PagesGoBack, PageIsNext, ListsAreReplayed, At
<1>3. CASE Stops \/ Connect \/ FinishSubscribing \/ Forward
  BY <1>2, <1>3 DEF Stops, Connect, FinishSubscribing, Forward, GoTo
<1>4. CASE GoesThroughHistory
  <2>1. CASE FinishStored
    BY <2>1 DEF FinishStored, ReplayInvariant, PagesGoBack, PageIsNext, ListsAreReplayed, At
  <2>2. CASE ForwardList
    <3>1. step \in Paging
      BY <1>0, <2>2, StepShapes DEF ForwardList
    <3>2. /\ step.at = "paging" /\ step'.at = "paging" /\ step'.archive = step.archive
          /\ step'.page = step.page /\ step'.seen = step.seen
      BY <2>2, <3>1 DEF ForwardList, Paging
    <3>3. QED
      BY <3>2 DEF ReplayInvariant, PagesGoBack, PageIsNext, ListsAreReplayed, Excused, At
  <2>3. CASE FinishHistory
    BY <1>2, <2>3 DEF FinishHistory, Ask
  <2>4. QED
    BY <1>0, <1>4, <2>1, <2>2, <2>3, FetchKeeps, NextPageKeeps DEF GoesThroughHistory
<1>5. CASE Subscribe
  <2>1. step \in FirstAsk \cup NextAsk
    BY <1>0, <1>5, StepShapes DEF Subscribe
  <2>2. step'.at = "subscribing"
    BY <1>5, <2>1 DEF Subscribe, FirstAsk, NextAsk
  <2>3. QED
    BY <1>2, <2>2
<1>6. CASE HearSilence /\ ~attempted
  BY <1>2, <1>6 DEF HearSilence, Ask
<1>7. ASSUME NEW n \in Notifications, Notices(n)
      PROVE  ReplayInvariant'
  BY <1>1, <1>2, <1>7
     DEF Notices, ReceiveEvent, ReceiveNoise, ClosedTwice, ClosedOnce, GoTo, AskAgain
<1>8. CASE BackOff
  <2>1. step'.at = "subscribing"
    BY <1>0, <1>8, StepShapes DEF BackOff, Wait, AskAgain
  <2>2. QED
    BY <1>2, <2>1
<1>9. CASE Tick
  <2>1. CASE At("backoff")
    <3>1. step'.at = "backoff"
      BY <1>0, <1>9, <2>1, StepShapes DEF Tick, Wait
    <3>2. QED
      BY <1>2, <3>1
  <2>2. CASE ~At("backoff")
    BY <1>1, <1>9, <2>2 DEF Tick
  <2>3. QED
    BY <2>1, <2>2
<1>10. QED
  BY <1>1, <1>3, <1>4, <1>5, <1>6, <1>7, <1>8, <1>9 DEF ListenerNext, Post, listenerVars

\* A list that the replay of the stored lists misses is no later than so many lists of
\* one date that they fill a page.
THEOREM ReplayMissesNothing == Spec => []ListsAreReplayed
<1>1. Init => ReplayInvariant
  BY DEF Init, ReplayInvariant, PagesGoBack, PageIsNext, ListsAreReplayed, At
<1>2. ListenerTypeOK /\ ReplayInvariant /\ [Next]_replicaVars => ReplayInvariant'
  BY ListenerActs, ReplaySteps
<1>3. ReplayInvariant => ListsAreReplayed
  BY DEF ReplayInvariant
<1>4. TypeOK => ListenerTypeOK
  BY DEF TypeOK
<1>5. QED
  BY <1>1, <1>2, <1>3, <1>4, TypeCorrect, PTL DEF Spec
=============================================================================
