------------------------ MODULE RecipientDelivery_proofs ------------------------
(***************************************************************************)
(* Theorems about RecipientDelivery for any events, any tasks, and any     *)
(* lifetimes in the relations that the shipped settings are in: a claim    *)
(* outlives what is left of an event and of an attempt, and the gap        *)
(* outlives two attempts; and about ContentRouting for any event, pages,   *)
(* handlers, workers, concurrency and number of attempts.                  *)
(***************************************************************************)
EXTENDS RecipientDelivery, ContentRouting, WellFoundedInduction, TLAPS

-----------------------------------------------------------------------------
(* The inductive invariant                                                 *)

Busy(t) == task[t] # Idle

\* A task of a mention or a bell, at each step that only those reach.
TypesFit ==
  \A t \in Task :
    task[t].step \in {"open", "bell", "limited", "accepted", "recording"} =>
      task[t].type \in {"mention", "bell"}

\* Nothing is known of an event before it is published.
UnknownBefore ==
  \A e \in Event :
    e \notin published =>
      /\ fresh[e] = 0
      /\ claim[e] = NoClaim
      /\ pushes[e] = 0
      /\ \A t \in Task : Busy(t) => task[t].event # e

\* A claim outlasts the attempts that are under way, and those that may begin.
ClaimsLast ==
  \A e \in Event :
    claim[e] # NoClaim =>
      /\ claim[e].owner # Nobody
      /\ fresh[e] > 0 => claim[e].left >= fresh[e] + AttemptTime
      /\ \A t \in Task :
           Busy(t) /\ task[t].event = e => claim[e].left >= AttemptTime - task[t].time + 1

ClaimsOwned == \A t \in Task, e \in Event : HoldsClaim(t, e) => claim[e].owner = t

BeforePush(t, e) ==
  task[t].step \in {"claimed", "sending", "releasing"} /\ task[t].event = e

\* The claim of e is taken, and not by an attempt that may give it up.
Spent(e) == claim[e] # NoClaim /\ \A t \in Task : ~BeforePush(t, e)

\* What is being recorded was pushed.
AcceptedWasPushed ==
  \A t \in Task :
    task[t].step \in {"accepted", "recording"} => pushes[task[t].event] > 0

\* An event that was pushed stays claimed as long as it may be attempted.
PushesSpend ==
  \A e \in Event :
    pushes[e] > 0 /\ e \notin mixed =>
      \/ Spent(e)
      \/ /\ fresh[e] = 0
         /\ \A t \in Task : ~BeforePush(t, e)
         /\ \A t \in Task : Busy(t) /\ BeforeClaim(t) => task[t].event # e

\* While a cleared push is sent and recorded, the gap keeps others away.
HoldsGap(t) ==
  task[t].step \in {"sending", "accepted", "recording"} /\ task[t].type # "other" =>
    cleared = {task[t].event} /\ gap >= Gap - task[t].time

GapsHold == \A t \in Task : HoldsGap(t)

\* What the recipient knows and nobody failed to record.
Known == told \ unrecorded

\* It is recorded, or about to be.
Records(t, c, type) ==
  /\ task[t].step \in {"accepted", "recording"}
  /\ task[t].event.coordinate = c
  /\ type \in task[t].todo

KnownIsRecorded ==
  \A c \in Coordinate, type \in Type :
    <<c, type>> \in Known =>
      <<c, type>> \in videoClaim \/ \E t \in Task : Records(t, c, type)

\* The task will not get to push: another event's push keeps the gap closed for as
\* long as the attempt may take, or the event is spent.
Barred(t) ==
  \/ gap >= AttemptTime - task[t].time + 1 /\ \E e \in Event \ {task[t].event} : cleared = {e}
  \/ task[t].step # "claimed" /\ Spent(task[t].event)

\* A task that looked for a record before there was one is barred.
BarredIfLate(t) ==
  /\ Busy(t)
  /\ task[t].type # "other"
  /\ <<task[t].event.coordinate, task[t].type>> \in Known
  => /\ task[t].step # "sending"
     /\ task[t].step \in {"bell", "limited", "unclaimed", "claimed"} => Barred(t)

LateIsBarred == \A t \in Task : BarredIfLate(t)

ClaimInvariant ==
  TypeOK /\ TypesFit /\ UnknownBefore /\ ClaimsLast /\ ClaimsOwned

PushInvariant ==
  /\ ClaimInvariant
  /\ PushesSpend
  /\ AcceptedWasPushed
  /\ PushedOnceUnlessMixed
  /\ ClaimsAreEarned

EditInvariant ==
  PushInvariant /\ GapsHold /\ KnownIsRecorded /\ LateIsBarred /\ EditTellsNothingTwice

-----------------------------------------------------------------------------
(* Type correctness, and what each step does to the task that takes it      *)

Step == {"open", "bell", "limited", "unclaimed", "claimed", "releasing", "sending",
         "accepted", "recording"}

BusyState == [step : Step, event : Event, type : Type, todo : SUBSET Type, time : 0..AttemptTime]

LEMMA Numbers ==
  /\ MaxAge \in Nat /\ Skew \in Nat /\ AttemptTime \in Nat /\ RateWindow \in Nat
  /\ ClaimTTL \in Nat /\ Gap \in Nat
  /\ ClaimTTL > MaxAge + Skew + AttemptTime /\ Gap > 2 * AttemptTime
  /\ Nobody \notin Task
  /\ \A e \in Event : e.coordinate \in Coordinate /\ e.type \in Type
  BY RecipientAssumption DEF Nobody, Type

LEMMA TaskFields ==
  ASSUME TypeOK, NEW t \in Task
  PROVE  /\ Busy(t) <=> task[t] \in BusyState
         /\ Busy(t) <=> task[t].step # "idle"
         /\ Busy(t) <=> task[t].step \in Step
         /\ Busy(t) => /\ task[t].event \in Event /\ task[t].type \in Type
                       /\ task[t].todo \in SUBSET Type /\ task[t].time \in 0..AttemptTime
<1>1. task[t] \in {Idle} \cup BusyState
  BY DEF TypeOK, TaskState, BusyState, Step
<1>2. Idle.step = "idle" /\ "idle" \notin Step
  BY DEF Idle, Step
<1>3. \A r \in BusyState : /\ r.step \in Step /\ r.event \in Event /\ r.type \in Type
                           /\ r.todo \in SUBSET Type /\ r.time \in 0..AttemptTime
  BY DEF BusyState
<1>4. QED
  BY <1>1, <1>2, <1>3 DEF Busy

\* What a busy task's record looks like after one of its fields was changed.
LEMMA FieldChanged ==
  ASSUME NEW r \in BusyState
  PROVE  /\ \A x \in Step : LET s == [r EXCEPT !.step = x]
                            IN /\ s \in BusyState /\ s.step = x /\ s.event = r.event
                               /\ s.type = r.type /\ s.todo = r.todo /\ s.time = r.time
         /\ \A x \in Type : LET s == [r EXCEPT !.type = x]
                            IN /\ s \in BusyState /\ s.step = r.step /\ s.event = r.event
                               /\ s.type = x /\ s.todo = r.todo /\ s.time = r.time
         /\ \A x \in SUBSET Type :
              LET s == [r EXCEPT !.todo = x]
              IN /\ s \in BusyState /\ s.step = r.step /\ s.event = r.event
                 /\ s.type = r.type /\ s.todo = x /\ s.time = r.time
         /\ \A x \in 0..AttemptTime :
              LET s == [r EXCEPT !.time = x]
              IN /\ s \in BusyState /\ s.step = r.step /\ s.event = r.event
                 /\ s.type = r.type /\ s.todo = r.todo /\ s.time = x
<1>1. ASSUME NEW x \in Step
      PROVE  LET s == [r EXCEPT !.step = x]
             IN /\ s \in BusyState /\ s.step = x /\ s.event = r.event
                /\ s.type = r.type /\ s.todo = r.todo /\ s.time = r.time
  BY DEF BusyState
<1>2. ASSUME NEW x \in Type
      PROVE  LET s == [r EXCEPT !.type = x]
             IN /\ s \in BusyState /\ s.step = r.step /\ s.event = r.event
                /\ s.type = x /\ s.todo = r.todo /\ s.time = r.time
  BY DEF BusyState
<1>3. ASSUME NEW x \in SUBSET Type
      PROVE  LET s == [r EXCEPT !.todo = x]
             IN /\ s \in BusyState /\ s.step = r.step /\ s.event = r.event
                /\ s.type = r.type /\ s.todo = x /\ s.time = r.time
  BY DEF BusyState
<1>4. ASSUME NEW x \in 0..AttemptTime
      PROVE  LET s == [r EXCEPT !.time = x]
             IN /\ s \in BusyState /\ s.step = r.step /\ s.event = r.event
                /\ s.type = r.type /\ s.todo = r.todo /\ s.time = x
  BY DEF BusyState
<1>5. QED
  BY <1>1, <1>2, <1>3, <1>4

\* Task t goes on with its event, at the given step.
GoesOn(t, step) ==
  /\ task' \in [Task -> TaskState]
  /\ \A u \in Task : u # t => task'[u] = task[u]
  /\ task'[t].step = step /\ step \in Step
  /\ task'[t].event = task[t].event
  /\ task'[t].time = task[t].time

\* Task t is done.
Ends(t) ==
  /\ task' \in [Task -> TaskState]
  /\ \A u \in Task : u # t => task'[u] = task[u]
  /\ task'[t] = Idle

LEMMA GoToFields ==
  ASSUME TypeOK, NEW t \in Task, Busy(t), NEW step \in Step, GoTo(t, step)
  PROVE  GoesOn(t, step) /\ task'[t].type = task[t].type /\ task'[t].todo = task[t].todo
<1> DEFINE s == [task[t] EXCEPT !.step = step]
<1>1. task' = [task EXCEPT ![t] = s]
  BY DEF GoTo
<1>2. /\ s \in BusyState /\ s.step = step /\ s.event = task[t].event
      /\ s.type = task[t].type /\ s.todo = task[t].todo /\ s.time = task[t].time
  BY TaskFields, FieldChanged
<1> HIDE DEF s
<1>3. s \in TaskState
  BY <1>2 DEF TaskState, BusyState, Step
<1>4. QED
  BY <1>1, <1>2, <1>3 DEF TypeOK, GoesOn

LEMMA EndFields ==
  ASSUME TypeOK, NEW t \in Task, End(t)
  PROVE  Ends(t)
  BY DEF TypeOK, End, Ends, TaskState

LEMMA BeginFields ==
  ASSUME TypeOK, NEW t \in Task, NEW e \in Event, Begin(t, e)
  PROVE  /\ task' \in [Task -> TaskState]
         /\ \A u \in Task : u # t => task'[u] = task[u]
         /\ task'[t].step = (IF e.type = "other" THEN "unclaimed" ELSE "open")
         /\ task'[t].event = e /\ task'[t].type = e.type /\ task'[t].todo = {}
         /\ task'[t].time = 0
<1> DEFINE s == [step |-> IF e.type = "other" THEN "unclaimed" ELSE "open",
                 event |-> e, type |-> e.type, todo |-> {}, time |-> 0]
<1>1. s \in TaskState
  BY Numbers DEF TaskState
<1>2. task' = [task EXCEPT ![t] = s]
  BY DEF Begin
<1>3. QED
  BY <1>1, <1>2 DEF TypeOK

LEMMA CheckVideoFields ==
  ASSUME TypeOK, NEW t \in Task, CheckVideo(t)
  PROVE  \/ Ends(t)
         \/ \E type \in DeliveryTypes(task[t].event.type) :
              /\ <<task[t].event.coordinate, type>> \notin videoClaim
              /\ GoesOn(t, IF type = "bell" THEN "bell" ELSE "unclaimed")
              /\ task'[t].type = type /\ task'[t].todo = task[t].todo
<1>1. Busy(t) /\ task[t].event \in Event
  BY TaskFields DEF CheckVideo, At, Step
<1>2. DeliveryTypes(task[t].event.type) \subseteq Type
  BY <1>1, Numbers DEF DeliveryTypes, Type
<1>3. ASSUME NEW type \in DeliveryTypes(task[t].event.type),
             task' = [task EXCEPT ![t].type = type,
                                  ![t].step = IF type = "bell" THEN "bell" ELSE "unclaimed"]
      PROVE  /\ GoesOn(t, IF type = "bell" THEN "bell" ELSE "unclaimed")
             /\ task'[t].type = type /\ task'[t].todo = task[t].todo
  <2> DEFINE x == IF type = "bell" THEN "bell" ELSE "unclaimed"
             r == [task[t] EXCEPT !.type = type]
             s == [r EXCEPT !.step = x]
  <2>1. task' = [task EXCEPT ![t] = s]
    BY <1>3
  <2>2. x \in Step
    BY DEF Step
  <2>3. /\ r \in BusyState /\ r.event = task[t].event /\ r.type = type
        /\ r.todo = task[t].todo /\ r.time = task[t].time
    BY <1>1, <1>2, TaskFields, FieldChanged
  <2> HIDE DEF r
  <2>4. /\ s \in BusyState /\ s.step = x /\ s.event = r.event /\ s.type = r.type
        /\ s.todo = r.todo /\ s.time = r.time
    BY <2>2, <2>3, FieldChanged
  <2> HIDE DEF s
  <2>5. s \in TaskState
    BY <2>4 DEF TaskState, BusyState, Step
  <2>6. QED
    BY <2>1, <2>2, <2>3, <2>4, <2>5 DEF TypeOK, GoesOn
<1>4. QED
  BY <1>3, EndFields DEF CheckVideo

\* A push that was accepted is recorded next, except for events that have no record.
LEMMA AcceptFields ==
  ASSUME TypeOK, NEW t \in Task, Accept(t)
  PROVE  /\ task[t].type = "other" => Ends(t)
         /\ task[t].type # "other" =>
              /\ GoesOn(t, IF task[t].type = "bell" THEN "accepted" ELSE "recording")
              /\ task'[t].type = task[t].type
              /\ task'[t].todo = Satisfied(task[t].type)
<1>1. Busy(t) /\ task[t].type \in Type
  BY TaskFields DEF Accept, At, Step
<1>2. CASE task[t].type = "other"
  BY <1>2 DEF Accept, Ends, TypeOK, TaskState
<1>3. CASE task[t].type # "other"
  <2> DEFINE x == IF task[t].type = "bell" THEN "accepted" ELSE "recording"
             y == Satisfied(task[t].type)
             r == [task[t] EXCEPT !.step = x]
             s == [r EXCEPT !.todo = y]
  <2>1. task' = [task EXCEPT ![t] = s]
    BY <1>3 DEF Accept
  <2>2. x \in Step /\ y \in SUBSET Type
    BY <1>1 DEF Step, Satisfied, Type
  <2> HIDE DEF y
  <2>3. /\ r \in BusyState /\ r.step = x /\ r.event = task[t].event /\ r.type = task[t].type
        /\ r.time = task[t].time
    BY <1>1, <2>2, TaskFields, FieldChanged
  <2> HIDE DEF r
  <2>4. /\ s \in BusyState /\ s.step = r.step /\ s.event = r.event /\ s.type = r.type
        /\ s.todo = y /\ s.time = r.time
    BY <2>2, <2>3, FieldChanged
  <2> HIDE DEF s
  <2>5. s \in TaskState
    BY <2>4 DEF TaskState, BusyState, Step
  <2>6. QED
    BY <1>3, <2>1, <2>2, <2>3, <2>4, <2>5 DEF TypeOK, GoesOn, y
<1>4. QED
  BY <1>2, <1>3

LEMMA RecordFields ==
  ASSUME TypeOK, NEW t \in Task, NEW type \in Type, Record(t, type)
  PROVE  \/ Ends(t) /\ task[t].todo = {type}
         \/ /\ GoesOn(t, "recording") /\ task'[t].type = task[t].type
            /\ task'[t].todo = task[t].todo \ {type}
<1>1. Busy(t) /\ task[t].step = "recording" /\ task[t].todo \in SUBSET Type
  BY TaskFields DEF Record, At, Step
<1>2. CASE task[t].todo = {type}
  BY <1>2, EndFields DEF Record
<1>3. CASE task[t].todo # {type}
  <2> DEFINE y == task[t].todo \ {type}
             s == [task[t] EXCEPT !.todo = y]
  <2>1. task' = [task EXCEPT ![t] = s]
    BY <1>3 DEF Record
  <2>2. y \in SUBSET Type
    BY <1>1
  <2> HIDE DEF y
  <2>3. /\ s \in BusyState /\ s.step = task[t].step /\ s.event = task[t].event
        /\ s.type = task[t].type /\ s.todo = y /\ s.time = task[t].time
    BY <1>1, <2>2, TaskFields, FieldChanged
  <2> HIDE DEF s
  <2>4. s \in TaskState
    BY <2>3 DEF TaskState, BusyState, Step
  <2>5. QED
    BY <1>1, <2>1, <2>3, <2>4 DEF TypeOK, GoesOn, Step, y
<1>4. QED
  BY <1>2, <1>3

\* What time does to the tasks.
LEMMA TickFields ==
  ASSUME TypeOK, Tick
  PROVE  /\ task' \in [Task -> TaskState]
         /\ \A t \in Task : /\ ~Busy(t) => task'[t] = Idle
                            /\ Busy(t) => /\ task'[t].step = task[t].step
                                          /\ task'[t].event = task[t].event
                                          /\ task'[t].type = task[t].type
                                          /\ task'[t].todo = task[t].todo
                                          /\ task'[t].time = task[t].time + 1
                                          /\ task[t].time < AttemptTime
<1>1. ASSUME NEW t \in Task
      PROVE  /\ task'[t] \in TaskState
             /\ ~Busy(t) => task'[t] = Idle
             /\ Busy(t) => /\ task'[t].step = task[t].step
                           /\ task'[t].event = task[t].event
                           /\ task'[t].type = task[t].type
                           /\ task'[t].todo = task[t].todo
                           /\ task'[t].time = task[t].time + 1
                           /\ task[t].time < AttemptTime
  <2>1. CASE ~Busy(t)
    BY <2>1 DEF Tick, Busy, TaskState
  <2>2. CASE Busy(t)
    <3> DEFINE n == task[t].time + 1
               s == [task[t] EXCEPT !.time = n]
    <3>1. task'[t] = s /\ task[t].time < AttemptTime
      BY <2>2 DEF Tick, Busy
    <3>2. n \in 0..AttemptTime
      BY <2>2, <3>1, TaskFields, Numbers
    <3> HIDE DEF n
    <3>3. /\ s \in BusyState /\ s.step = task[t].step /\ s.event = task[t].event
          /\ s.type = task[t].type /\ s.todo = task[t].todo /\ s.time = n
      BY <2>2, <3>2, TaskFields, FieldChanged
    <3> HIDE DEF s
    <3>4. s \in TaskState
      BY <3>3 DEF TaskState, BusyState, Step
    <3>5. QED
      BY <2>2, <3>1, <3>3, <3>4 DEF n
  <2>3. QED
    BY <2>1, <2>2
<1>2. task' = [t \in Task |-> task'[t]]
  BY DEF Tick
<1>3. QED
  BY <1>1, <1>2

LEMMA InitType == Init => TypeOK
  BY Numbers DEF Init, TypeOK, TaskState, NoClaim

LEMMA LandType ==
  ASSUME TypeOK, NEW t \in Task, Busy(t), NEW recorded \in BOOLEAN, Land(t, recorded)
  PROVE  /\ pushes' \in [Event -> 0..2]
         /\ told' \in SUBSET (Coordinate \X Type)
         /\ repeated' \in SUBSET (Coordinate \X Type)
         /\ unrecorded' \in SUBSET (Coordinate \X Type)
<1>1. task[t].event \in Event /\ task[t].type \in Type
  BY TaskFields
<1>2. News(t) \in SUBSET (Coordinate \X Type)
  BY <1>1, Numbers DEF News, Type
<1>3. pushes' \in [Event -> 0..2]
  BY <1>1 DEF Land, TypeOK
<1>4. QED
  BY <1>2, <1>3 DEF Land, TypeOK

\* Every step of a task but the first is taken by a busy one, and either ends its
\* attempt or goes on with it.
LEMMA StepShape ==
  ASSUME TypeOK, NEW t \in Task, TaskStep(t), ~\E e \in Event : Begin(t, e)
  PROVE  Busy(t) /\ (Ends(t) \/ \E step \in Step : GoesOn(t, step))
<1>1. Busy(t)
  BY TaskFields DEF TaskStep, Leave, BeforeClaim, CheckVideo, CheckRate, RecordLimited,
     TakeClaim, FailBeforePush, Refuse, Clear, Release, ReleaseFails, Accept, Ingest, Refused,
     CutOff, OpenWindow, Record, CancelBookkeeping, Crash, At, Step
<1>2. CASE End(t)
  BY <1>1, <1>2, EndFields
<1>3. CASE \E step \in Step : GoTo(t, step)
  BY <1>1, <1>3, GoToFields
<1>4. CASE CheckVideo(t)
  BY <1>1, <1>4, CheckVideoFields DEF Step
<1>5. CASE Accept(t)
  BY <1>1, <1>5, AcceptFields DEF Step
<1>6. CASE \E type \in Type : Record(t, type)
  BY <1>1, <1>6, RecordFields DEF Step
<1>7. CASE CheckRate(t) \/ TakeClaim(t) \/ FailBeforePush(t) \/ Clear(t) \/ Ingest(t)
           \/ Refused(t) \/ CutOff(t) \/ OpenWindow(t)
  BY <1>2, <1>3, <1>7 DEF CheckRate, TakeClaim, FailBeforePush, Clear, Ingest, Refused, CutOff,
     OpenWindow, GoOrEnd, AfterFailure, AfterCutOff, Step
<1>8. CASE Leave(t) \/ RecordLimited(t) \/ Refuse(t) \/ Release(t) \/ ReleaseFails(t)
           \/ CancelBookkeeping(t) \/ Crash(t)
  BY <1>2, <1>8 DEF Leave, RecordLimited, Refuse, Release, ReleaseFails, CancelBookkeeping, Crash
<1>9. QED
  BY <1>1, <1>4, <1>5, <1>6, <1>7, <1>8 DEF TaskStep

LEMMA StepType ==
  ASSUME TypeOK, NEW t \in Task, TaskStep(t)
  PROVE  TypeOK'
<1>1. task' \in [Task -> TaskState]
  BY BeginFields, StepShape DEF Ends, GoesOn
<1>2. CASE \E e \in Event : Begin(t, e)
  BY <1>1, <1>2 DEF Begin, TypeOK, claims, budget, history
<1>3. CASE ~\E e \in Event : Begin(t, e)
  <2>1. Busy(t) /\ task[t].event \in Event /\ task[t].todo \in SUBSET Type
    BY <1>3, StepShape, TaskFields
  <2>2. task[t].event.coordinate \in Coordinate
    BY <2>1, Numbers
  <2>3. CASE Leave(t) \/ CheckVideo(t) \/ CheckRate(t) \/ FailBeforePush(t)
    BY <1>1, <2>3 DEF Leave, CheckVideo, CheckRate, FailBeforePush, TypeOK, claims, budget,
       history
  <2>4. CASE RecordLimited(t)
    BY <1>1, <2>2, <2>4 DEF RecordLimited, TypeOK, Type, budget, history
  <2>5. CASE TakeClaim(t)
    <3>1. claim' \in [Event -> [owner : Task \cup {Nobody}, left : 0..ClaimTTL]]
      BY <2>1, <2>5, Numbers DEF TakeClaim, TypeOK
    <3>2. decided' \in SUBSET Event
      BY <2>1, <2>5 DEF TakeClaim, TypeOK
    <3>3. QED
      BY <1>1, <2>5, <3>1, <3>2 DEF TakeClaim, TypeOK, budget
  <2>6. CASE Refuse(t) \/ Ingest(t) \/ ReleaseFails(t) \/ Crash(t)
    BY <1>1, <2>1, <2>6 DEF Refuse, Ingest, ReleaseFails, Crash, TypeOK, claims, budget
  <2>7. CASE Clear(t)
    BY <1>1, <2>1, <2>7, Numbers DEF Clear, TypeOK, claims, budget, history
  <2>8. CASE Release(t)
    <3>1. claim' \in [Event -> [owner : Task \cup {Nobody}, left : 0..ClaimTTL]]
      BY <2>1, <2>8, Numbers DEF Release, TypeOK, NoClaim
    <3>2. QED
      BY <1>1, <2>8, <3>1 DEF Release, TypeOK, budget, history
  <2>9. CASE Accept(t)
    BY <1>1, <2>1, <2>9, LandType DEF Accept, TypeOK, claims, budget
  <2>10. CASE Refused(t) \/ CutOff(t)
    <3>1. /\ UNCHANGED <<published, fresh, claims, budget>>
          /\ NoPush \/ Land(t, FALSE)
          /\ mixed' \in SUBSET Event /\ decided' \in SUBSET Event
      BY <2>1, <2>10 DEF Refused, CutOff, TypeOK
    <3>2. CASE NoPush
      BY <1>1, <3>1, <3>2 DEF NoPush, TypeOK, claims, budget
    <3>3. CASE Land(t, FALSE)
      BY <1>1, <2>1, <3>1, <3>3, LandType DEF TypeOK, claims, budget
    <3>4. QED
      BY <3>1, <3>2, <3>3
  <2>11. CASE OpenWindow(t)
    BY <1>1, <2>11, Numbers DEF OpenWindow, TypeOK, budget, history
  <2>12. CASE \E type \in Type : Record(t, type)
    BY <1>1, <2>2, <2>12 DEF Record, TypeOK, budget
  <2>13. CASE CancelBookkeeping(t)
    BY <1>1, <2>1, <2>2, <2>13 DEF CancelBookkeeping, TypeOK, claims, budget
  <2>14. QED
    BY <1>3, <2>3, <2>4, <2>5, <2>6, <2>7, <2>8, <2>9, <2>10, <2>11, <2>12, <2>13 DEF TaskStep
<1>4. QED
  BY <1>2, <1>3

LEMMA ShorterType == \A n \in Nat : Shorter(n) \in Nat /\ Shorter(n) <= n
  BY DEF Shorter

LEMMA TickType == TypeOK /\ Tick => TypeOK'
<1> SUFFICES ASSUME TypeOK, Tick PROVE TypeOK'
  OBVIOUS
<1>1. fresh' \in [Event -> 0..(MaxAge + Skew + 1)] /\ rate' \in 0..RateWindow /\ gap' \in 0..Gap
  BY Numbers, ShorterType DEF Tick, TypeOK
<1>2. claim' \in [Event -> [owner : Task \cup {Nobody}, left : 0..ClaimTTL]]
  <2> SUFFICES ASSUME NEW e \in Event
               PROVE  claim'[e] \in [owner : Task \cup {Nobody}, left : 0..ClaimTTL]
    BY DEF Tick
  <2>1. claim[e] \in [owner : Task \cup {Nobody}, left : 0..ClaimTTL]
    BY DEF TypeOK
  <2>2. CASE claim[e].left <= 1
    BY <2>2, Numbers DEF Tick, NoClaim
  <2>3. CASE claim[e].left > 1
    <3> DEFINE n == claim[e].left - 1
    <3>1. claim'[e] = [claim[e] EXCEPT !.left = n]
      BY <2>1, <2>3, Numbers DEF Tick
    <3>2. n \in 0..ClaimTTL
      BY <2>1, <2>3, Numbers
    <3> HIDE DEF n
    <3>3. QED
      BY <2>1, <3>1, <3>2
  <2>4. QED
    BY <2>1, <2>2, <2>3, Numbers
<1>3. QED
  BY <1>1, <1>2, TickFields DEF Tick, TypeOK, history

LEMMA NextType == TypeOK /\ [Next]_recipientVars => TypeOK'
<1> SUFFICES ASSUME TypeOK, [Next]_recipientVars PROVE TypeOK'
  OBVIOUS
<1>1. CASE \E e \in Event : Publish(e)
  BY <1>1, Numbers DEF Publish, TypeOK, claims, budget, history
<1>2. CASE UNCHANGED recipientVars
  BY <1>2 DEF recipientVars, TypeOK, claims, budget, history
<1>3. QED
  BY <1>1, <1>2, StepType, TickType DEF Next

\* Every variable keeps its type, whatever the constants.
THEOREM TypeCorrect == Spec => []TypeOK
<1>1. QED
  BY InitType, NextType, PTL DEF Spec

-----------------------------------------------------------------------------
(* The claim, and what it keeps from being pushed twice                    *)

\* What the invariants need of the types, in a form for arithmetic.
LEMMA Values ==
  ASSUME TypeOK
  PROVE  /\ \A e \in Event : /\ fresh[e] \in Nat /\ fresh[e] <= MaxAge + Skew + 1
                             /\ claim[e].left \in Nat
                             /\ claim[e].owner \in Task \cup {Nobody}
                             /\ pushes[e] \in Nat /\ pushes[e] <= 2
         /\ gap \in Nat
         /\ \A t \in Task : Busy(t) => task[t].time \in Nat /\ task[t].time <= AttemptTime
  BY TaskFields, Numbers DEF TypeOK

LEMMA PushInit == Init => PushInvariant
<1> SUFFICES ASSUME Init PROVE PushInvariant
  OBVIOUS
<1>1. TypeOK
  BY InitType
<1>2. /\ \A e \in Event : fresh[e] = 0 /\ claim[e] = NoClaim /\ pushes[e] = 0
      /\ \A t \in Task : ~Busy(t) /\ task[t].step = "idle"
  BY DEF Init, Busy, Idle
<1>3. QED
  BY <1>1, <1>2 DEF PushInvariant, ClaimInvariant, TypesFit, UnknownBefore, ClaimsLast,
     ClaimsOwned, PushesSpend, AcceptedWasPushed, PushedOnceUnlessMixed, ClaimsAreEarned,
     HoldsClaim, BeforePush

\* A step of task t that touches no claim.
Follows(t) ==
  /\ Busy(t)
  /\ Ends(t) \/ \E step \in Step : GoesOn(t, step)
  /\ UNCHANGED <<published, fresh, claim>>
  /\ \A e \in Event : HoldsClaim(t, e)' => HoldsClaim(t, e)
  /\ BeforeClaim(t)' => BeforeClaim(t)
  /\ task'[t].step \in {"open", "bell", "limited", "accepted", "recording"}
       => task'[t].type \in {"mention", "bell"}

\* What the other tasks, and this one, keep in such a step.
LEMMA FollowsFields ==
  ASSUME TypeOK, TypeOK', NEW t \in Task, Follows(t)
  PROVE  /\ \A u \in Task : u # t => task'[u] = task[u]
         /\ \A u \in Task : Busy(u)' => /\ Busy(u)
                                        /\ task'[u].event = task[u].event
                                        /\ task'[u].time = task[u].time
         /\ task'[t].step = "idle" \/ Busy(t)'
         /\ \A u \in Task, e \in Event : HoldsClaim(u, e)' => HoldsClaim(u, e)
         /\ \A u \in Task : BeforeClaim(u)' => BeforeClaim(u)
<1>1. \A u \in Task : u # t => task'[u] = task[u]
  BY DEF Follows, Ends, GoesOn
<1>2. /\ Busy(t)' => task'[t].event = task[t].event /\ task'[t].time = task[t].time
      /\ task'[t].step = "idle" \/ Busy(t)'
  BY DEF Follows, Ends, GoesOn, Busy, Idle, Step
<1>3. QED
  BY <1>1, <1>2 DEF Follows, Busy, HoldsClaim, BeforeClaim

LEMMA ClaimFollows ==
  ASSUME ClaimInvariant, TypeOK', NEW t \in Task, Follows(t),
         \A e \in Event : pushes'[e] = pushes[e] \/ e = task[t].event
  PROVE  ClaimInvariant'
<1>1. TypeOK
  BY DEF ClaimInvariant
<1>2. /\ \A u \in Task : u # t => task'[u] = task[u]
      /\ \A u \in Task : Busy(u)' => /\ Busy(u)
                                     /\ task'[u].event = task[u].event
                                     /\ task'[u].time = task[u].time
      /\ \A u \in Task, e \in Event : HoldsClaim(u, e)' => HoldsClaim(u, e)
  BY <1>1, FollowsFields
<1>3. UNCHANGED <<published, fresh, claim>> /\ Busy(t)
  BY DEF Follows
<1>4. TypesFit'
  BY <1>2 DEF ClaimInvariant, TypesFit, Follows
<1>5. UnknownBefore'
  BY <1>2, <1>3 DEF ClaimInvariant, UnknownBefore
<1>6. ClaimsLast'
  BY <1>2, <1>3 DEF ClaimInvariant, ClaimsLast
<1>7. ClaimsOwned'
  BY <1>2, <1>3 DEF ClaimInvariant, ClaimsOwned
<1>8. QED
  BY <1>4, <1>5, <1>6, <1>7 DEF ClaimInvariant

\* No push: a claim that is kept stands for one that was made or for a decision.
LEMMA PushFollows ==
  ASSUME PushInvariant, TypeOK', NEW t \in Task, Follows(t),
         pushes' = pushes, mixed \subseteq mixed', decided \subseteq decided',
         \A e \in Event : /\ BeforePush(t, e)' => BeforePush(t, e)
                          /\ HoldsClaim(t, e) /\ ~HoldsClaim(t, e)' =>
                               e \in decided' \/ pushes[e] > 0,
         task'[t].step \in {"accepted", "recording"} =>
           task[t].step \in {"accepted", "recording"}
  PROVE  PushInvariant'
<1>1. TypeOK /\ ClaimInvariant /\ ClaimInvariant'
  BY ClaimFollows DEF PushInvariant, ClaimInvariant
<1>2. /\ \A u \in Task : u # t => task'[u] = task[u]
      /\ \A u \in Task : Busy(u)' => Busy(u) /\ task'[u].event = task[u].event
      /\ task'[t].step = "idle" \/ Busy(t)'
      /\ \A u \in Task : BeforeClaim(u)' => BeforeClaim(u)
  BY <1>1, FollowsFields
<1>3. UNCHANGED <<published, fresh, claim>>
  BY DEF Follows
<1>4. \A u \in Task, e \in Event : BeforePush(u, e)' => BeforePush(u, e)
  BY <1>2 DEF BeforePush
<1>5. PushesSpend'
  BY <1>2, <1>3, <1>4 DEF PushInvariant, PushesSpend, Spent
<1>6. AcceptedWasPushed' /\ PushedOnceUnlessMixed'
  BY <1>2 DEF PushInvariant, AcceptedWasPushed, PushedOnceUnlessMixed
<1>7. ClaimsAreEarned'
  <2> SUFFICES ASSUME NEW e \in Event, claim[e] # NoClaim, pushes[e] = 0, e \notin decided'
               PROVE  \E u \in Task : HoldsClaim(u, e)'
    BY <1>1, <1>3, Values DEF ClaimsAreEarned
  <2>1. PICK u \in Task : HoldsClaim(u, e)
    BY DEF PushInvariant, ClaimsAreEarned
  <2>2. HoldsClaim(u, e)'
    BY <1>2, <2>1 DEF HoldsClaim
  <2>3. QED
    BY <2>2
<1>8. QED
  BY <1>1, <1>5, <1>6, <1>7 DEF PushInvariant

\* A push lands: it is the first of its event, or the event was given up before
\* while nobody knew.
LEMMA PushLands ==
  ASSUME PushInvariant, TypeOK', NEW t \in Task, Follows(t), At(t, "sending"),
         pushes' = [pushes EXCEPT ![task[t].event] = IF @ < 2 THEN @ + 1 ELSE 2],
         mixed \subseteq mixed', decided \subseteq decided',
         task'[t].step \in {"claimed", "sending", "releasing"} => task[t].event \in mixed'
  PROVE  PushInvariant'
<1>1. TypeOK /\ ClaimInvariant
  BY DEF PushInvariant, ClaimInvariant
<1>2. PICK e \in Event : e = task[t].event
  BY <1>1, TaskFields DEF Follows
<1>3. /\ pushes'[e] = (IF pushes[e] < 2 THEN pushes[e] + 1 ELSE 2)
      /\ \A f \in Event : f # e => pushes'[f] = pushes[f]
      /\ \A f \in Event : pushes[f] > 0 => pushes'[f] > 0
  BY <1>1, <1>2, Values DEF TypeOK
<1>4. ClaimInvariant'
  BY <1>1, <1>2, <1>3, ClaimFollows
<1>5. /\ \A u \in Task : u # t => task'[u] = task[u]
      /\ \A u \in Task : Busy(u)' => Busy(u) /\ task'[u].event = task[u].event
      /\ task'[t].step = "idle" \/ Busy(t)'
      /\ \A u \in Task, f \in Event : HoldsClaim(u, f)' => HoldsClaim(u, f)
      /\ \A u \in Task : BeforeClaim(u)' => BeforeClaim(u)
  BY <1>1, FollowsFields
<1>6. UNCHANGED <<published, fresh, claim>>
  BY DEF Follows
<1>7. BeforePush(t, e) /\ HoldsClaim(t, e)
  BY <1>2 DEF BeforePush, HoldsClaim, At
<1>8. claim[e].owner = t /\ claim[e] # NoClaim
  BY <1>1, <1>7, Numbers DEF ClaimInvariant, ClaimsOwned, NoClaim
<1>9. \A u \in Task : u # t => ~HoldsClaim(u, e)
  BY <1>1, <1>8 DEF ClaimInvariant, ClaimsOwned
<1>10. \A u \in Task, f \in Event : f # e => (BeforePush(u, f)' => BeforePush(u, f))
  BY <1>2, <1>5 DEF BeforePush, HoldsClaim, Busy, Idle
<1>11. pushes[e] > 0 => e \in mixed
  BY <1>7 DEF PushInvariant, PushesSpend, Spent
<1>12. PushesSpend'
  <2> SUFFICES ASSUME NEW f \in Event, pushes'[f] > 0, f \notin mixed'
               PROVE  \/ Spent(f)'
                      \/ /\ fresh[f] = 0
                         /\ \A u \in Task : ~BeforePush(u, f)'
                         /\ \A u \in Task : Busy(u)' /\ BeforeClaim(u)' =>
                                              task'[u].event # f
    BY <1>6 DEF PushesSpend
  <2>1. CASE f = e
    <3>1. ~BeforePush(t, f)'
      BY <1>2, <2>1 DEF BeforePush
    <3>2. \A u \in Task : u # t => ~BeforePush(u, f)'
      BY <1>5, <1>9, <2>1 DEF BeforePush, HoldsClaim
    <3>3. QED
      BY <1>6, <1>8, <2>1, <3>1, <3>2 DEF Spent
  <2>2. CASE f # e
    BY <1>3, <1>5, <1>6, <1>10, <2>2 DEF PushInvariant, PushesSpend, Spent
  <2>3. QED
    BY <2>1, <2>2
<1>13. AcceptedWasPushed'
  <2> SUFFICES ASSUME NEW u \in Task, task'[u].step \in {"accepted", "recording"}
               PROVE  pushes'[task'[u].event] > 0
    BY DEF AcceptedWasPushed
  <2>1. CASE u = t
    BY <1>1, <1>2, <1>3, <1>5, <2>1, Values
  <2>2. CASE u # t
    <3>1. task[u].event \in Event /\ task[u] = task'[u]
      BY <1>1, <1>5, <2>2, TaskFields DEF Step
    <3>2. QED
      BY <1>3, <3>1 DEF PushInvariant, AcceptedWasPushed
  <2>3. QED
    BY <2>1, <2>2
<1>14. PushedOnceUnlessMixed'
  BY <1>1, <1>3, <1>11, Values DEF PushInvariant, PushedOnceUnlessMixed
<1>15. ClaimsAreEarned'
  <2> SUFFICES ASSUME NEW f \in Event, claim[f] # NoClaim, ~(pushes'[f] > 0), f \notin decided'
               PROVE  \E u \in Task : HoldsClaim(u, f)'
    BY <1>6 DEF ClaimsAreEarned
  <2>1. f # e /\ ~(pushes[f] > 0)
    BY <1>1, <1>3, Values
  <2>2. PICK u \in Task : HoldsClaim(u, f)
    BY <2>1 DEF PushInvariant, ClaimsAreEarned
  <2>3. u # t
    BY <1>2, <2>1, <2>2 DEF HoldsClaim
  <2>4. QED
    BY <1>5, <2>2, <2>3 DEF HoldsClaim
<1>16. QED
  BY <1>4, <1>12, <1>13, <1>14, <1>15 DEF PushInvariant

\* A claim is taken where there was none, so what was pushed is not attempted.
LEMMA PushTakes ==
  ASSUME PushInvariant, TypeOK', NEW t \in Task, At(t, "unclaimed"),
         claim[task[t].event] = NoClaim,
         claim' = [claim EXCEPT ![task[t].event] = [owner |-> t, left |-> ClaimTTL]],
         UNCHANGED <<published, fresh, pushes, mixed>>,
         \/ GoesOn(t, "claimed") /\ decided' = decided
         \/ Ends(t) /\ decided' = decided \cup {task[t].event}
  PROVE  PushInvariant'
<1>1. TypeOK /\ ClaimInvariant /\ Busy(t) /\ BeforeClaim(t)
  BY TaskFields DEF PushInvariant, ClaimInvariant, At, Step, BeforeClaim
<1>2. PICK e \in Event : e = task[t].event
  BY <1>1, TaskFields
<1>3. /\ claim'[e].owner = t /\ claim'[e].left = ClaimTTL
      /\ \A f \in Event : f # e => claim'[f] = claim[f]
  BY <1>1, <1>2 DEF TypeOK
<1>4. claim[e] = NoClaim /\ claim[e].owner = Nobody /\ t # Nobody /\ claim'[e] # NoClaim
  BY <1>2, <1>3, Numbers DEF NoClaim
<1>5. /\ \A u \in Task : u # t => task'[u] = task[u]
      /\ \A u \in Task : Busy(u)' => /\ Busy(u)
                                     /\ task'[u].event = task[u].event
                                     /\ task'[u].time = task[u].time
      /\ \A u \in Task : BeforeClaim(u)' => BeforeClaim(u)
      /\ task'[t].step \in {"idle", "claimed"}
      /\ \A f \in Event : HoldsClaim(t, f)' => f = e
      /\ \A f \in Event : BeforePush(t, f)' => f = e
  BY <1>1, <1>2, TaskFields DEF GoesOn, Ends, Busy, BeforeClaim, Idle, HoldsClaim, BeforePush
<1>6. \A u \in Task : ~HoldsClaim(u, e)
  BY <1>1, <1>4, Numbers DEF ClaimInvariant, ClaimsOwned
<1>7. ClaimInvariant'
  <2>1. TypesFit'
    BY <1>5 DEF PushInvariant, ClaimInvariant, TypesFit
  <2>2. UnknownBefore'
    BY <1>1, <1>2, <1>3, <1>5 DEF ClaimInvariant, UnknownBefore
  <2>3. ClaimsLast'
    <3> SUFFICES ASSUME NEW f \in Event, claim'[f] # NoClaim
                 PROVE  /\ claim'[f].owner # Nobody
                        /\ fresh[f] > 0 => claim'[f].left >= fresh[f] + AttemptTime
                        /\ \A u \in Task : Busy(u)' /\ task'[u].event = f =>
                             claim'[f].left >= AttemptTime - task'[u].time + 1
      BY DEF ClaimsLast
    <3>1. CASE f = e
      BY <1>1, <1>3, <1>4, <1>5, <3>1, Values, Numbers
    <3>2. CASE f # e
      BY <1>1, <1>3, <1>5, <3>2 DEF ClaimInvariant, ClaimsLast
    <3>3. QED
      BY <3>1, <3>2
  <2>4. ClaimsOwned'
    <3> SUFFICES ASSUME NEW u \in Task, NEW f \in Event, HoldsClaim(u, f)'
                 PROVE  claim'[f].owner = u
      BY DEF ClaimsOwned
    <3>1. CASE u = t
      BY <1>3, <1>5, <3>1
    <3>2. CASE u # t
      <4>1. HoldsClaim(u, f)
        BY <1>5, <3>2 DEF HoldsClaim
      <4>2. f # e
        BY <1>6, <4>1
      <4>3. QED
        BY <1>1, <1>3, <4>1, <4>2 DEF ClaimInvariant, ClaimsOwned
    <3>3. QED
      BY <3>1, <3>2
  <2>5. QED
    BY <2>1, <2>2, <2>3, <2>4 DEF ClaimInvariant
<1>8. PushesSpend'
  <2> SUFFICES ASSUME NEW f \in Event, pushes[f] > 0, f \notin mixed
               PROVE  \/ Spent(f)'
                      \/ /\ fresh[f] = 0
                         /\ \A u \in Task : ~BeforePush(u, f)'
                         /\ \A u \in Task : Busy(u)' /\ BeforeClaim(u)' => task'[u].event # f
    BY DEF PushesSpend
  <2>1. f # e
    BY <1>1, <1>2, <1>4 DEF PushInvariant, PushesSpend, Spent
  <2>2. \A u \in Task : BeforePush(u, f)' => BeforePush(u, f)
    BY <1>5, <2>1 DEF BeforePush
  <2>3. QED
    BY <1>3, <1>5, <2>1, <2>2 DEF PushInvariant, PushesSpend, Spent
<1>9. AcceptedWasPushed' /\ PushedOnceUnlessMixed'
  BY <1>5 DEF PushInvariant, AcceptedWasPushed, PushedOnceUnlessMixed
<1>10. ClaimsAreEarned'
  <2> SUFFICES ASSUME NEW f \in Event, claim'[f] # NoClaim, ~(pushes[f] > 0), f \notin decided'
               PROVE  \E u \in Task : HoldsClaim(u, f)'
    BY DEF ClaimsAreEarned
  <2>1. CASE f = e
    BY <1>2, <2>1 DEF GoesOn, HoldsClaim
  <2>2. CASE f # e
    <3>1. PICK u \in Task : HoldsClaim(u, f)
      BY <1>3, <2>2 DEF PushInvariant, ClaimsAreEarned
    <3>2. u # t
      BY <3>1 DEF HoldsClaim, At
    <3>3. QED
      BY <1>5, <3>1, <3>2 DEF HoldsClaim
  <2>3. QED
    BY <2>1, <2>2
<1>11. QED
  BY <1>7, <1>8, <1>9, <1>10 DEF PushInvariant

\* A claim that is released is the attempt's own, and stands for no push.
LEMMA PushReleases ==
  ASSUME PushInvariant, TypeOK', NEW t \in Task, Release(t)
  PROVE  PushInvariant'
<1>1. TypeOK /\ ClaimInvariant /\ Busy(t)
  BY TaskFields DEF PushInvariant, ClaimInvariant, Release, At, Step
<1>2. PICK e \in Event : e = task[t].event
  BY <1>1, TaskFields
<1>3. HoldsClaim(t, e) /\ BeforePush(t, e) /\ claim[e].owner = t
  BY <1>1, <1>2 DEF Release, HoldsClaim, BeforePush, At, ClaimInvariant, ClaimsOwned
<1>4. claim'[e] = NoClaim /\ \A f \in Event : f # e => claim'[f] = claim[f]
  BY <1>1, <1>2, <1>3 DEF Release, TypeOK
<1>5. UNCHANGED <<published, fresh, pushes, mixed, decided>>
  BY DEF Release, history
<1>6. Ends(t)
  BY <1>1, EndFields DEF Release
<1>7. /\ \A u \in Task : task'[u] = task[u] \/ (u = t /\ task'[u] = Idle)
      /\ Idle.step = "idle"
  <2>1. Idle.step = "idle"
    BY DEF Idle
  <2>2. QED
    BY <1>6, <2>1 DEF Ends
<1>8. \A u \in Task : u # t => ~HoldsClaim(u, e)
  BY <1>1, <1>3 DEF ClaimInvariant, ClaimsOwned
<1>9. ClaimInvariant'
  <2>1. TypesFit'
    BY <1>7 DEF PushInvariant, ClaimInvariant, TypesFit
  <2>2. UnknownBefore'
    BY <1>1, <1>4, <1>5, <1>7 DEF ClaimInvariant, UnknownBefore, Busy
  <2>3. ClaimsLast'
    BY <1>1, <1>4, <1>5, <1>7 DEF ClaimInvariant, ClaimsLast, Busy
  <2>4. ClaimsOwned'
    <3> SUFFICES ASSUME NEW u \in Task, NEW f \in Event, HoldsClaim(u, f)'
                 PROVE  claim'[f].owner = u
      BY DEF ClaimsOwned
    <3>1. u # t
      BY <1>6, <1>7 DEF HoldsClaim, Ends
    <3>2. HoldsClaim(u, f)
      BY <1>6, <3>1 DEF HoldsClaim, Ends
    <3>3. f # e
      BY <1>8, <3>1, <3>2
    <3>4. QED
      BY <1>1, <1>4, <3>2, <3>3 DEF ClaimInvariant, ClaimsOwned
  <2>5. QED
    BY <2>1, <2>2, <2>3, <2>4 DEF ClaimInvariant
<1>10. PushesSpend'
  <2> SUFFICES ASSUME NEW f \in Event, pushes[f] > 0, f \notin mixed
               PROVE  \/ Spent(f)'
                      \/ /\ fresh[f] = 0
                         /\ \A u \in Task : ~BeforePush(u, f)'
                         /\ \A u \in Task : Busy(u)' /\ BeforeClaim(u)' => task'[u].event # f
    BY <1>5 DEF PushesSpend
  <2>1. f # e
    BY <1>3 DEF PushInvariant, PushesSpend, Spent
  <2>2. QED
    BY <1>4, <1>7, <2>1 DEF PushInvariant, PushesSpend, Spent, BeforePush, BeforeClaim, Busy
<1>11. AcceptedWasPushed' /\ PushedOnceUnlessMixed'
  BY <1>5, <1>7 DEF PushInvariant, AcceptedWasPushed, PushedOnceUnlessMixed
<1>12. ClaimsAreEarned'
  <2> SUFFICES ASSUME NEW f \in Event, claim'[f] # NoClaim, ~(pushes[f] > 0), f \notin decided
               PROVE  \E u \in Task : HoldsClaim(u, f)'
    BY <1>5 DEF ClaimsAreEarned
  <2>1. f # e
    BY <1>4
  <2>2. PICK u \in Task : HoldsClaim(u, f)
    BY <1>4, <2>1 DEF PushInvariant, ClaimsAreEarned
  <2>3. u # t
    BY <1>2, <2>1, <2>2 DEF HoldsClaim
  <2>4. QED
    BY <1>7, <2>2, <2>3 DEF HoldsClaim
<1>13. QED
  BY <1>9, <1>10, <1>11, <1>12 DEF PushInvariant

\* An event that may still be attempted has a claim that outlasts the attempt.
LEMMA PushBegins ==
  ASSUME PushInvariant, TypeOK', NEW t \in Task, NEW e \in Event, Begin(t, e)
  PROVE  PushInvariant'
<1>1. TypeOK /\ ClaimInvariant /\ task[t].step = "idle"
  BY DEF PushInvariant, ClaimInvariant, Begin, Idle
<1>2. /\ fresh[e] > 0
      /\ UNCHANGED <<published, fresh, claim, pushes, mixed, decided>>
  BY DEF Begin, claims, history
<1>3. /\ \A u \in Task : u # t => task'[u] = task[u]
      /\ task'[t].step \in {"open", "unclaimed"} /\ task'[t].event = e /\ task'[t].time = 0
      /\ task'[t].step = "open" => task'[t].type \in {"mention", "bell"}
  BY <1>1, BeginFields, Numbers DEF Type
<1>4. \A u \in Task, f \in Event : /\ HoldsClaim(u, f)' <=> HoldsClaim(u, f)
                                   /\ BeforePush(u, f)' <=> BeforePush(u, f)
  BY <1>1, <1>3 DEF HoldsClaim, BeforePush
<1>5. ClaimInvariant'
  <2>1. TypesFit'
    BY <1>3 DEF PushInvariant, ClaimInvariant, TypesFit
  <2>2. UnknownBefore'
    BY <1>1, <1>2, <1>3, Values DEF ClaimInvariant, UnknownBefore, Busy
  <2>3. ClaimsLast'
    <3> SUFFICES ASSUME NEW f \in Event, claim[f] # NoClaim, NEW u \in Task,
                        Busy(u)', task'[u].event = f
                 PROVE  claim[f].left >= AttemptTime - task'[u].time + 1
      BY <1>1, <1>2 DEF ClaimInvariant, ClaimsLast
    <3>1. CASE u = t
      BY <1>1, <1>2, <1>3, <3>1, Values, Numbers DEF ClaimInvariant, ClaimsLast
    <3>2. CASE u # t
      BY <1>1, <1>3, <3>2 DEF ClaimInvariant, ClaimsLast, Busy
    <3>3. QED
      BY <3>1, <3>2
  <2>4. ClaimsOwned'
    BY <1>1, <1>2, <1>4 DEF ClaimInvariant, ClaimsOwned
  <2>5. QED
    BY <2>1, <2>2, <2>3, <2>4 DEF ClaimInvariant
<1>6. PushesSpend'
  BY <1>1, <1>2, <1>3, <1>4, Values DEF PushInvariant, PushesSpend, Spent, Busy, BeforeClaim
<1>7. AcceptedWasPushed' /\ PushedOnceUnlessMixed' /\ ClaimsAreEarned'
  BY <1>2, <1>3, <1>4
     DEF PushInvariant, AcceptedWasPushed, PushedOnceUnlessMixed, ClaimsAreEarned
<1>8. QED
  BY <1>5, <1>6, <1>7 DEF PushInvariant

LEMMA PushPublishes ==
  ASSUME PushInvariant, TypeOK', NEW e \in Event, Publish(e)
  PROVE  PushInvariant'
<1>1. TypeOK /\ ClaimInvariant
  BY DEF PushInvariant, ClaimInvariant
<1>2. /\ published' = published \cup {e} /\ e \notin published
      /\ \A f \in Event : f # e => fresh'[f] = fresh[f]
      /\ UNCHANGED <<claim, task, pushes, mixed, decided>>
  BY <1>1 DEF Publish, TypeOK, claims, history
<1>3. claim[e] = NoClaim /\ pushes[e] = 0
  BY <1>1, <1>2 DEF ClaimInvariant, UnknownBefore
<1>4. ClaimInvariant'
  BY <1>1, <1>2, <1>3
     DEF ClaimInvariant, TypesFit, UnknownBefore, ClaimsLast, ClaimsOwned, HoldsClaim, Busy
<1>5. PushesSpend'
  <2> SUFFICES ASSUME NEW f \in Event, pushes[f] > 0, f \notin mixed
               PROVE  \/ Spent(f)
                      \/ /\ fresh'[f] = 0
                         /\ \A u \in Task : ~BeforePush(u, f)
                         /\ \A u \in Task : Busy(u) /\ BeforeClaim(u) => task[u].event # f
    BY <1>2 DEF PushesSpend, Spent, BeforePush, Busy, BeforeClaim
  <2>1. f # e
    BY <1>3
  <2>2. QED
    BY <1>2, <2>1 DEF PushInvariant, PushesSpend
<1>6. AcceptedWasPushed' /\ PushedOnceUnlessMixed' /\ ClaimsAreEarned'
  BY <1>2 DEF PushInvariant, AcceptedWasPushed, PushedOnceUnlessMixed, ClaimsAreEarned,
     HoldsClaim
<1>7. QED
  BY <1>4, <1>5, <1>6 DEF PushInvariant

\* A claim expires only once its event is too old and nobody attempts it.
LEMMA PushTicks ==
  ASSUME PushInvariant, TypeOK', Tick
  PROVE  PushInvariant'
<1>1. TypeOK /\ ClaimInvariant
  BY DEF PushInvariant, ClaimInvariant
<1>2. \A e \in Event :
        /\ fresh'[e] = Shorter(fresh[e])
        /\ claim[e].left <= 1 => claim'[e] = NoClaim
        /\ claim[e].left > 1 => /\ claim'[e].left = claim[e].left - 1
                                /\ claim'[e].owner = claim[e].owner
  BY <1>1 DEF Tick, TypeOK
<1>3. UNCHANGED <<published, pushes, mixed, decided>>
  BY DEF Tick, history
<1>4. \A t \in Task : /\ Busy(t)' <=> Busy(t)
                      /\ task'[t].step = task[t].step
                      /\ Busy(t) => /\ task'[t].event = task[t].event
                                    /\ task'[t].type = task[t].type
                                    /\ task'[t].time = task[t].time + 1
                                    /\ task[t].time < AttemptTime
  BY <1>1, TickFields, TaskFields DEF Busy, Idle
<1>5. \A t \in Task, e \in Event : /\ HoldsClaim(t, e)' <=> HoldsClaim(t, e)
                                   /\ BeforePush(t, e)' <=> BeforePush(t, e)
                                   /\ HoldsClaim(t, e) => Busy(t) /\ task[t].event = e
  BY <1>1, <1>4, TaskFields DEF HoldsClaim, BeforePush, Step
<1>6. \A e \in Event : claim'[e] # NoClaim => /\ claim[e] # NoClaim
                                              /\ claim'[e].owner = claim[e].owner
                                              /\ claim'[e].left = claim[e].left - 1
  BY <1>1, <1>2, Values DEF NoClaim
<1>7. \A e \in Event :
        claim[e] # NoClaim /\ (fresh[e] > 1 \/ \E t \in Task : Busy(t) /\ task[t].event = e)
        => claim'[e].owner = claim[e].owner /\ claim'[e] # NoClaim
  <2> SUFFICES ASSUME NEW e \in Event, claim[e] # NoClaim,
                      fresh[e] > 1 \/ \E t \in Task : Busy(t) /\ task[t].event = e
               PROVE  claim'[e].owner = claim[e].owner /\ claim'[e] # NoClaim
    OBVIOUS
  <2>1. claim[e].left > 1
    <3>1. CASE \E t \in Task : Busy(t) /\ task[t].event = e
      BY <1>1, <1>4, <3>1, Values, Numbers DEF ClaimInvariant, ClaimsLast
    <3>2. CASE fresh[e] > 1
      BY <1>1, <3>2, Values, Numbers DEF ClaimInvariant, ClaimsLast
    <3>3. QED
      BY <3>1, <3>2
  <2>2. claim[e].owner # Nobody
    BY <1>1 DEF ClaimInvariant, ClaimsLast
  <2>3. QED
    BY <1>2, <2>1, <2>2 DEF NoClaim
<1>8. ClaimInvariant'
  <2>1. TypesFit'
    BY <1>1, <1>4, TaskFields DEF ClaimInvariant, TypesFit, Step
  <2>2. UnknownBefore'
    BY <1>1, <1>2, <1>3, <1>4, <1>6 DEF ClaimInvariant, UnknownBefore, Shorter
  <2>3. ClaimsLast'
    <3> SUFFICES ASSUME NEW e \in Event, claim'[e] # NoClaim
                 PROVE  /\ claim'[e].owner # Nobody
                        /\ fresh'[e] > 0 => claim'[e].left >= fresh'[e] + AttemptTime
                        /\ \A t \in Task : Busy(t)' /\ task'[t].event = e =>
                             claim'[e].left >= AttemptTime - task'[t].time + 1
      BY DEF ClaimsLast
    <3>1. claim[e] # NoClaim /\ claim'[e].owner # Nobody
      BY <1>1, <1>6 DEF ClaimInvariant, ClaimsLast
    <3>2. fresh'[e] > 0 => claim'[e].left >= fresh'[e] + AttemptTime
      BY <1>1, <1>2, <1>6, <3>1, Values, Numbers DEF ClaimInvariant, ClaimsLast, Shorter
    <3>3. ASSUME NEW t \in Task, Busy(t)', task'[t].event = e
          PROVE  claim'[e].left >= AttemptTime - task'[t].time + 1
      BY <1>1, <1>4, <1>6, <3>1, <3>3, Values, Numbers DEF ClaimInvariant, ClaimsLast
    <3>4. QED
      BY <3>1, <3>2, <3>3
  <2>4. ClaimsOwned'
    <3> SUFFICES ASSUME NEW t \in Task, NEW e \in Event, HoldsClaim(t, e)
                 PROVE  claim'[e].owner = t
      BY <1>5 DEF ClaimsOwned
    <3>1. claim[e].owner = t /\ claim[e] # NoClaim
      BY <1>1, Numbers DEF ClaimInvariant, ClaimsOwned, NoClaim
    <3>2. QED
      BY <1>5, <1>7, <3>1
  <2>5. QED
    BY <2>1, <2>2, <2>3, <2>4 DEF ClaimInvariant
<1>9. PushesSpend'
  <2> SUFFICES ASSUME NEW e \in Event, pushes[e] > 0, e \notin mixed
               PROVE  \/ Spent(e)'
                      \/ /\ fresh'[e] = 0
                         /\ \A t \in Task : ~BeforePush(t, e)'
                         /\ \A t \in Task : Busy(t)' /\ BeforeClaim(t)' => task'[t].event # e
    BY <1>3 DEF PushesSpend
  <2>1. \A t \in Task : ~BeforePush(t, e) /\ ~BeforePush(t, e)'
    BY <1>5 DEF PushInvariant, PushesSpend, Spent
  <2>2. \A t \in Task : BeforeClaim(t)' <=> BeforeClaim(t)
    BY <1>4 DEF BeforeClaim
  <2>3. CASE Spent(e) /\ (fresh[e] > 1 \/ \E t \in Task : Busy(t) /\ task[t].event = e)
    BY <1>7, <2>1, <2>3 DEF Spent
  <2>4. CASE fresh[e] \in {0, 1} /\ \A t \in Task : Busy(t) /\ BeforeClaim(t) => task[t].event # e
    <3>1. fresh'[e] = 0
      BY <1>2, <2>4 DEF Shorter
    <3>2. QED
      BY <1>4, <2>1, <2>2, <2>4, <3>1
  <2>5. QED
    BY <1>1, <2>3, <2>4, Values DEF PushInvariant, PushesSpend
<1>10. AcceptedWasPushed'
  BY <1>1, <1>3, <1>4, TaskFields DEF PushInvariant, AcceptedWasPushed, Step
<1>11. PushedOnceUnlessMixed' /\ ClaimsAreEarned'
  BY <1>3, <1>5, <1>6 DEF PushInvariant, PushedOnceUnlessMixed, ClaimsAreEarned
<1>12. QED
  BY <1>8, <1>9, <1>10, <1>11 DEF PushInvariant

\* The steps of a task, sorted by what they do to the claim and to the push.
LEMMA StepKinds ==
  ASSUME PushInvariant, TypeOK', NEW t \in Task, TaskStep(t), ~\E e \in Event : Begin(t, e),
         ~Release(t), ~(TakeClaim(t) /\ claim[task[t].event] = NoClaim)
  PROVE  /\ Follows(t)
         /\ mixed \subseteq mixed' /\ decided \subseteq decided'
         /\ \/ /\ pushes' = pushes
               /\ \A e \in Event : /\ BeforePush(t, e)' => BeforePush(t, e)
                                   /\ HoldsClaim(t, e) /\ ~HoldsClaim(t, e)' =>
                                        e \in decided' \/ pushes[e] > 0
               /\ task'[t].step \in {"accepted", "recording"} =>
                    task[t].step \in {"accepted", "recording"}
            \/ /\ At(t, "sending")
               /\ pushes' = [pushes EXCEPT ![task[t].event] = IF @ < 2 THEN @ + 1 ELSE 2]
               /\ task'[t].step \in {"claimed", "sending", "releasing"} =>
                    task[t].event \in mixed'
<1>1. TypeOK /\ TypesFit /\ AcceptedWasPushed
  BY DEF PushInvariant, ClaimInvariant
<1>2. /\ Busy(t) /\ (Ends(t) \/ \E step \in Step : GoesOn(t, step))
      /\ task[t].event \in Event /\ task[t].type \in Type
  BY <1>1, StepShape, TaskFields
<1>3. ASSUME End(t)
      PROVE  task'[t].step = "idle"
  BY <1>1, <1>3, EndFields DEF Ends, Idle
<1>4. ASSUME NEW step \in Step, GoTo(t, step)
      PROVE  /\ task'[t].step = step /\ task'[t].event = task[t].event
             /\ task'[t].type = task[t].type
  BY <1>1, <1>2, <1>4, GoToFields DEF GoesOn
<1>5. CASE Leave(t)
  BY <1>2, <1>3, <1>5 DEF Leave, Follows, HoldsClaim, BeforeClaim, BeforePush, claims, history
<1>6. CASE CheckVideo(t)
  <2>1. \/ task'[t].step = "idle"
        \/ /\ task'[t].step \in {"bell", "unclaimed"}
           /\ task'[t].step = "bell" => task'[t].type = "bell"
    <3>1. CASE Ends(t)
      BY <3>1 DEF Ends, Idle
    <3>2. ASSUME NEW type, GoesOn(t, IF type = "bell" THEN "bell" ELSE "unclaimed"),
                 task'[t].type = type
          PROVE  /\ task'[t].step \in {"bell", "unclaimed"}
                 /\ task'[t].step = "bell" => task'[t].type = "bell"
      BY <3>2 DEF GoesOn
    <3>3. QED
      BY <1>1, <1>6, <3>1, <3>2, CheckVideoFields
  <2>2. task[t].step = "open" /\ UNCHANGED <<published, fresh, claims, budget, history>>
    BY <1>6 DEF CheckVideo, At
  <2>3. QED
    BY <1>2, <2>1, <2>2 DEF Follows, HoldsClaim, BeforeClaim, BeforePush, claims, history
<1>7. CASE CheckRate(t)
  <2>1. /\ task'[t].step \in {"limited", "unclaimed"} /\ task'[t].type = task[t].type
        /\ task[t].step = "bell" /\ task[t].type \in {"mention", "bell"}
    BY <1>1, <1>4, <1>7 DEF CheckRate, Step, At, TypesFit
  <2>2. QED
    BY <1>2, <1>7, <2>1 DEF CheckRate, Follows, HoldsClaim, BeforeClaim, BeforePush, claims,
       history
<1>8. CASE RecordLimited(t)
  BY <1>2, <1>3, <1>8 DEF RecordLimited, Follows, HoldsClaim, BeforeClaim, BeforePush, At,
     history
<1>9. CASE TakeClaim(t)
  BY <1>2, <1>3, <1>9 DEF TakeClaim, Follows, HoldsClaim, BeforeClaim, BeforePush, At
<1>10. CASE FailBeforePush(t)
  <2>1. /\ task'[t].step = "releasing" /\ task'[t].event = task[t].event
        /\ task[t].step = "claimed"
    BY <1>4, <1>10 DEF FailBeforePush, GoOrEnd, AfterFailure, Step, At
  <2>2. QED
    BY <1>2, <1>10, <2>1 DEF FailBeforePush, Follows, HoldsClaim, BeforeClaim, BeforePush,
       claims, history
<1>11. CASE Refuse(t) \/ ReleaseFails(t) \/ Crash(t)
  BY <1>2, <1>3, <1>11 DEF Refuse, ReleaseFails, Crash, Follows, HoldsClaim, BeforeClaim,
     BeforePush, claims, At
<1>12. CASE Ingest(t)
  <2>1. \/ task'[t].step = "idle" /\ decided' = decided \cup {task[t].event}
        \/ /\ task'[t].step = "releasing" /\ task'[t].event = task[t].event
           /\ decided' = decided
    BY <1>3, <1>4, <1>12 DEF Ingest, GoOrEnd, AfterFailure, Step
  <2>2. QED
    BY <1>2, <1>12, <2>1 DEF Ingest, Follows, HoldsClaim, BeforeClaim, BeforePush, claims, At
<1>13. CASE Clear(t)
  <2>1. /\ task'[t].step = "sending" /\ task'[t].event = task[t].event
        /\ task[t].step = "claimed"
    BY <1>4, <1>13 DEF Clear, Step, At
  <2>2. QED
    BY <1>2, <1>13, <2>1 DEF Clear, Follows, HoldsClaim, BeforeClaim, BeforePush, claims,
       history
<1>14. CASE Accept(t)
  <2>1. /\ task[t].step = "sending"
        /\ \/ task'[t].step = "idle"
           \/ /\ task'[t].step \in {"accepted", "recording"}
              /\ task'[t].event = task[t].event /\ task'[t].type = task[t].type
              /\ task[t].type # "other"
    BY <1>1, <1>14, AcceptFields DEF Accept, At, Ends, GoesOn, Idle
  <2>2. Follows(t)
    BY <1>2, <1>14, <2>1 DEF Accept, Follows, HoldsClaim, BeforeClaim, claims, Type
  <2>3. QED
    BY <1>14, <2>1, <2>2 DEF Accept, Land, At
<1>15. CASE Refused(t)
  <2>1. PICK answers \in SUBSET (Answer \ {"accepted"}) :
          LET again == "retryable" \in answers
              e == task[t].event
          IN /\ answers # {}
             /\ GoOrEnd(t, IF again THEN "releasing" ELSE AfterCutOff)
             /\ \/ NoPush /\ UNCHANGED mixed
                \/ /\ "unknown" \in answers
                   /\ Land(t, FALSE)
                   /\ mixed' = IF again THEN mixed \cup {e} ELSE mixed
             /\ decided' = IF again THEN decided ELSE decided \cup {e}
    BY <1>15 DEF Refused
  <2>2. \/ /\ "retryable" \in answers
           /\ task'[t].step = "releasing" /\ task'[t].event = task[t].event
        \/ "retryable" \notin answers /\ task'[t].step = "idle"
    BY <1>3, <1>4, <2>1 DEF GoOrEnd, AfterCutOff, Step
  <2>3. task[t].step = "sending" /\ UNCHANGED <<published, fresh, claims, budget>>
    BY <1>15 DEF Refused, At
  <2>4. Follows(t) /\ mixed \subseteq mixed' /\ decided \subseteq decided'
    BY <1>2, <2>1, <2>2, <2>3 DEF Follows, HoldsClaim, BeforeClaim, claims
  <2>5. CASE NoPush
    BY <2>1, <2>2, <2>3, <2>4, <2>5 DEF NoPush, HoldsClaim, BeforePush
  <2>6. CASE Land(t, FALSE) /\ mixed' = IF "retryable" \in answers
                                         THEN mixed \cup {task[t].event} ELSE mixed
    BY <2>2, <2>3, <2>4, <2>6 DEF Land, At
  <2>7. QED
    BY <2>1, <2>5, <2>6
<1>16. CASE CutOff(t)
  <2>1. task'[t].step = "idle" /\ task[t].step = "sending"
    BY <1>3, <1>16 DEF CutOff, GoOrEnd, AfterCutOff, At
  <2>2. Follows(t)
    BY <1>2, <1>16, <2>1 DEF CutOff, Follows, HoldsClaim, BeforeClaim, claims
  <2>3. CASE NoPush
    BY <1>16, <2>1, <2>2, <2>3 DEF CutOff, NoPush, HoldsClaim, BeforePush
  <2>4. CASE Land(t, FALSE)
    BY <1>16, <2>1, <2>2, <2>4 DEF CutOff, Land, At
  <2>5. QED
    BY <1>16, <2>3, <2>4 DEF CutOff
<1>17. CASE OpenWindow(t)
  <2>1. /\ task'[t].step = "recording" /\ task'[t].event = task[t].event
        /\ task[t].step = "accepted" /\ task'[t].type \in {"mention", "bell"}
    BY <1>1, <1>4, <1>17 DEF OpenWindow, Step, At, TypesFit
  <2>2. QED
    BY <1>2, <1>17, <2>1 DEF OpenWindow, Follows, HoldsClaim, BeforeClaim, BeforePush, history
<1>18. CASE \E type \in Type : Record(t, type)
  <2>1. /\ task[t].step = "recording" /\ pushes[task[t].event] > 0
        /\ task[t].type \in {"mention", "bell"}
    BY <1>1, <1>18 DEF Record, At, TypesFit, AcceptedWasPushed
  <2>2. \/ task'[t].step = "idle"
        \/ /\ task'[t].step = "recording" /\ task'[t].event = task[t].event
           /\ task'[t].type = task[t].type
    BY <1>1, <1>18, RecordFields DEF Ends, GoesOn, Idle
  <2>3. UNCHANGED <<published, fresh, claim, pushes, mixed, decided>>
    BY <1>18 DEF Record
  <2>4. QED
    BY <1>2, <2>1, <2>2, <2>3 DEF Follows, HoldsClaim, BeforeClaim, BeforePush
<1>19. CASE CancelBookkeeping(t)
  BY <1>1, <1>2, <1>3, <1>19 DEF CancelBookkeeping, Follows, HoldsClaim, BeforeClaim,
     BeforePush, AcceptedWasPushed, claims
<1>20. QED
  BY <1>5, <1>6, <1>7, <1>8, <1>9, <1>10, <1>11, <1>12, <1>13, <1>14, <1>15, <1>16, <1>17,
     <1>18, <1>19 DEF TaskStep

LEMMA PushTaskStep ==
  ASSUME PushInvariant, TypeOK', NEW t \in Task, TaskStep(t)
  PROVE  PushInvariant'
<1>1. TypeOK
  BY DEF PushInvariant, ClaimInvariant
<1>2. CASE \E e \in Event : Begin(t, e)
  BY <1>2, PushBegins
<1>3. CASE Release(t)
  BY <1>3, PushReleases
<1>4. CASE TakeClaim(t) /\ claim[task[t].event] = NoClaim
  <2>1. Busy(t)
    BY <1>1, <1>4, TaskFields DEF TakeClaim, At, Step
  <2>2. \/ GoesOn(t, "claimed") /\ decided' = decided
        \/ Ends(t) /\ decided' = decided \cup {task[t].event}
    BY <1>1, <1>4, <2>1, GoToFields, EndFields DEF TakeClaim, Step
  <2>3. QED
    BY <1>4, <2>2, PushTakes DEF TakeClaim
<1>5. CASE /\ ~\E e \in Event : Begin(t, e)
           /\ ~Release(t)
           /\ ~(TakeClaim(t) /\ claim[task[t].event] = NoClaim)
  BY <1>5, StepKinds, PushFollows, PushLands
<1>6. QED
  BY <1>2, <1>3, <1>4, <1>5

LEMMA PushNext == PushInvariant /\ [Next]_recipientVars => PushInvariant'
<1> SUFFICES ASSUME PushInvariant, [Next]_recipientVars
             PROVE  PushInvariant'
  OBVIOUS
<1>1. TypeOK'
  BY NextType DEF PushInvariant, ClaimInvariant
<1>2. CASE UNCHANGED recipientVars
  BY <1>1, <1>2 DEF recipientVars, claims, history, PushInvariant, ClaimInvariant, TypesFit,
     UnknownBefore, ClaimsLast, ClaimsOwned, PushesSpend, AcceptedWasPushed,
     PushedOnceUnlessMixed, ClaimsAreEarned, HoldsClaim, BeforePush, BeforeClaim, Spent, Busy
<1>3. QED
  BY <1>1, <1>2, PushPublishes, PushTaskStep, PushTicks DEF Next

\* An event is not used up by a failure: a claim on which nobody works stands for a
\* push, for a refusal, or for an attempt that was cut off.
THEOREM EventsAreNotUsedUp == Spec => []ClaimsAreEarned
<1>1. PushInvariant => ClaimsAreEarned
  BY DEF PushInvariant
<1>2. QED
  BY <1>1, PushInit, PushNext, PTL DEF Spec

-----------------------------------------------------------------------------
(* Edits tell nothing twice                                                *)

LEMMA EditInit == Init => EditInvariant
<1> SUFFICES ASSUME Init PROVE EditInvariant
  OBVIOUS
<1>1. PushInvariant
  BY PushInit
<1>2. told = {} /\ repeated = {} /\ \A t \in Task : ~Busy(t) /\ task[t].step = "idle"
  BY DEF Init, Busy, Idle
<1>3. QED
  BY <1>1, <1>2 DEF EditInvariant, GapsHold, HoldsGap, KnownIsRecorded, LateIsBarred,
     BarredIfLate, EditTellsNothingTwice, Known

\* Two attempts never hold the claim of one event.
LEMMA OneHolder ==
  ASSUME PushInvariant, NEW t \in Task, NEW u \in Task, NEW e \in Event,
         HoldsClaim(t, e), HoldsClaim(u, e)
  PROVE  t = u
  BY DEF PushInvariant, ClaimInvariant, ClaimsOwned

\* A claim that nobody may give up stays as it is in every step of a task.
LEMMA SpentStays ==
  ASSUME PushInvariant, TypeOK', NEW t \in Task, TaskStep(t), NEW e \in Event, Spent(e)
  PROVE  Spent(e)'
<1>1. TypeOK
  BY DEF PushInvariant, ClaimInvariant
<1>2. CASE \E f \in Event : Begin(t, f)
  <2>1. claim' = claim /\ \A u \in Task : u # t => task'[u] = task[u]
    BY <1>1, <1>2, BeginFields DEF Begin, claims
  <2>2. task'[t].step \in {"open", "unclaimed"}
    BY <1>1, <1>2, BeginFields
  <2>3. QED
    BY <2>1, <2>2 DEF Spent, BeforePush
<1>3. CASE Release(t)
  <2>1. PICK f \in Event : f = task[t].event /\ BeforePush(t, f)
    BY <1>1, <1>3, TaskFields DEF Release, At, Step, BeforePush
  <2>2. e # f
    BY <2>1 DEF Spent
  <2>3. claim'[e] = claim[e]
    BY <1>1, <1>3, <2>1, <2>2 DEF Release, TypeOK
  <2>4. Ends(t) /\ Idle.step = "idle"
    BY <1>1, <1>3, EndFields DEF Release, Idle
  <2>5. QED
    BY <2>3, <2>4 DEF Spent, BeforePush, Ends
<1>4. CASE TakeClaim(t) /\ claim[task[t].event] = NoClaim
  <2>1. PICK f \in Event : f = task[t].event /\ Busy(t)
    BY <1>1, <1>4, TaskFields DEF TakeClaim, At, Step
  <2>2. e # f /\ claim'[e] = claim[e]
    BY <1>1, <1>4, <2>1 DEF TakeClaim, Spent, TypeOK
  <2>3. Ends(t) \/ GoesOn(t, "claimed")
    BY <1>1, <1>4, <2>1, GoToFields, EndFields DEF TakeClaim, Step
  <2>4. \A u \in Task : u # t => task'[u] = task[u]
    BY <2>3 DEF Ends, GoesOn
  <2>5. ~BeforePush(t, e)'
    BY <2>1, <2>2, <2>3 DEF Ends, GoesOn, Idle, BeforePush
  <2>6. QED
    BY <2>2, <2>4, <2>5 DEF Spent, BeforePush
<1>5. CASE /\ ~\E f \in Event : Begin(t, f)
           /\ ~Release(t)
           /\ ~(TakeClaim(t) /\ claim[task[t].event] = NoClaim)
  <2>1. Follows(t) /\ (BeforePush(t, e)' => BeforePush(t, e) \/ At(t, "sending"))
    BY <1>5, StepKinds DEF BeforePush
  <2>2. /\ \A u \in Task : u # t => task'[u] = task[u]
        /\ HoldsClaim(t, e)' => HoldsClaim(t, e)
        /\ Busy(t)' => task'[t].event = task[t].event
    BY <1>1, <2>1, FollowsFields
  <2>3. BeforePush(t, e)' => BeforePush(t, e)
    BY <1>1, <2>1, <2>2 DEF BeforePush, At, Busy, Idle
  <2>4. QED
    BY <2>1, <2>2, <2>3 DEF Follows, Spent, BeforePush
<1>6. QED
  BY <1>2, <1>3, <1>4, <1>5

\* What keeps a task from pushing keeps it from that while the gap is not touched.
LEMMA BarredStays ==
  ASSUME PushInvariant, TypeOK', NEW t \in Task, TaskStep(t), UNCHANGED budget,
         NEW u \in Task, Busy(u), Barred(u),
         task'[u].event = task[u].event, task'[u].time = task[u].time,
         task[u].step # "claimed" /\ Spent(task[u].event) => task'[u].step # "claimed"
  PROVE  Barred(u)'
<1>1. task[u].event \in Event
  BY TaskFields DEF PushInvariant, ClaimInvariant
<1>2. PICK e \in Event : e = task[u].event
  BY <1>1
<1>3. Spent(e) => Spent(e)'
  BY SpentStays
<1>4. Spent(e)' <=> Spent(task[u].event)'
  BY <1>2 DEF Spent, BeforePush
<1>5. QED
  BY <1>2, <1>3, <1>4 DEF Barred, budget, Spent, BeforePush

\* A step of a task that tells nothing, and leaves the gap alone.
LEMMA EditQuiet ==
  ASSUME EditInvariant, PushInvariant', NEW t \in Task, TaskStep(t), UNCHANGED budget,
         \A u \in Task : u # t => task'[u] = task[u],
         Known' \subseteq Known, videoClaim \subseteq videoClaim',
         repeated' \subseteq unrecorded',
         HoldsGap(t)', BarredIfLate(t)',
         \A c \in Coordinate, type \in Type :
           Records(t, c, type) =>
             \/ <<c, type>> \notin Known'
             \/ <<c, type>> \in videoClaim'
             \/ Records(t, c, type)'
  PROVE  EditInvariant'
<1>1. PushInvariant /\ TypeOK' /\ TypeOK
  BY DEF EditInvariant, PushInvariant, ClaimInvariant
<1>2. GapsHold'
  BY DEF EditInvariant, GapsHold, HoldsGap, budget
<1>3. KnownIsRecorded'
  <2> SUFFICES ASSUME NEW c \in Coordinate, NEW type \in Type, <<c, type>> \in Known',
                      <<c, type>> \notin videoClaim'
               PROVE  \E u \in Task : Records(u, c, type)'
    BY DEF KnownIsRecorded
  <2>1. PICK u \in Task : Records(u, c, type)
    BY DEF EditInvariant, KnownIsRecorded
  <2>2. Records(u, c, type)'
    BY <2>1 DEF Records
  <2>3. QED
    BY <2>2
<1>4. LateIsBarred'
  <2> SUFFICES ASSUME NEW u \in Task, u # t
               PROVE  BarredIfLate(u)'
    BY DEF LateIsBarred
  <2>1. task'[u] = task[u]
    OBVIOUS
  <2>2. Busy(u) /\ Barred(u) => Barred(u)'
    BY <1>1, <2>1, BarredStays
  <2>3. BarredIfLate(u)
    BY DEF EditInvariant, LateIsBarred
  <2>4. QED
    BY <2>1, <2>2, <2>3 DEF BarredIfLate, Busy
<1>5. QED
  BY <1>2, <1>3, <1>4 DEF EditInvariant, EditTellsNothingTwice

\* A push is cleared only where no other event's push keeps the gap, so a task that
\* is late is not.
LEMMA EditClears ==
  ASSUME EditInvariant, PushInvariant', NEW t \in Task, Clear(t)
  PROVE  EditInvariant'
<1>1. PushInvariant /\ TypeOK' /\ TypeOK /\ TaskStep(t)
  BY DEF EditInvariant, PushInvariant, ClaimInvariant, TaskStep
<1>2. Busy(t) /\ task[t].step = "claimed"
  BY <1>1, TaskFields DEF Clear, At, Step
<1>3. PICK e \in Event : e = task[t].event
  BY <1>1, <1>2, TaskFields
<1>4. GoesOn(t, "sending") /\ task'[t].type = task[t].type
  BY <1>1, <1>2, GoToFields DEF Clear, Step
<1>5. /\ \A u \in Task : u # t => task'[u] = task[u]
      /\ task'[t].step = "sending" /\ task'[t].event = e /\ task'[t].time = task[t].time
  BY <1>3, <1>4 DEF GoesOn
<1>6. UNCHANGED <<told, unrecorded, repeated, videoClaim, claim>>
  BY DEF Clear, claims, history
<1>7. HoldsClaim(t, e)
  BY <1>2, <1>3 DEF HoldsClaim
<1>8. \A c \in Coordinate, type \in Type : ~Records(t, c, type)
  BY <1>2 DEF Records
<1>9. CASE task[t].type = "other" /\ UNCHANGED budget
  <2>1. HoldsGap(t)' /\ BarredIfLate(t)'
    BY <1>4, <1>9 DEF HoldsGap, BarredIfLate
  <2>2. QED
    BY <1>1, <1>5, <1>6, <1>8, <1>9, <2>1, EditQuiet
       DEF EditInvariant, EditTellsNothingTwice, Known
<1>10. CASE cleared \subseteq {e} /\ gap' = Gap /\ cleared' = {e}
  <2>1. \A u \in Task : u # t => HoldsGap(u)'
    <3> SUFFICES ASSUME NEW u \in Task, u # t,
                        task[u].step \in {"sending", "accepted", "recording"},
                        task[u].type # "other"
                 PROVE  FALSE
      BY <1>5 DEF HoldsGap
    <3>1. cleared = {task[u].event}
      BY DEF EditInvariant, GapsHold, HoldsGap
    <3>2. task[u].event = e
      BY <1>10, <3>1
    <3>3. HoldsClaim(u, e)
      BY <3>2 DEF HoldsClaim
    <3>4. QED
      BY <1>1, <1>7, <3>3, OneHolder
  <2>2. HoldsGap(t)'
    BY <1>1, <1>2, <1>5, <1>10, Values, Numbers DEF HoldsGap
  <2>3. ASSUME NEW u \in Task, u # t
        PROVE  BarredIfLate(u)'
    <3>1. ASSUME Busy(u), Barred(u)
          PROVE  Barred(u)'
      <4>1. PICK f \in Event : f = task[u].event /\ f = task'[u].event
        BY <1>1, <1>5, <2>3, <3>1, TaskFields
      <4>2. CASE \E g \in Event \ {f} : cleared = {g}
        <5>1. f # e
          BY <1>10, <4>2
        <5>2. gap' >= AttemptTime - task'[u].time + 1
          BY <1>1, <1>5, <1>10, <2>3, <3>1, Values, Numbers
        <5>3. QED
          BY <1>3, <1>10, <4>1, <5>1, <5>2 DEF Barred
      <4>3. CASE task[u].step # "claimed" /\ Spent(f)
        <5>1. Spent(f)'
          BY <1>1, <4>3, SpentStays
        <5>2. Spent(f)' <=> Spent(task[u].event)'
          BY <1>5, <2>3, <4>1 DEF Spent, BeforePush
        <5>3. QED
          BY <1>5, <2>3, <4>3, <5>1, <5>2 DEF Barred, Spent, BeforePush
      <4>4. QED
        BY <3>1, <4>1, <4>2, <4>3 DEF Barred
    <3>2. BarredIfLate(u) /\ task'[u] = task[u] /\ Known' = Known
      BY <1>5, <1>6, <2>3 DEF EditInvariant, LateIsBarred, Known
    <3>3. QED
      BY <3>1, <3>2 DEF BarredIfLate, Busy
  <2>4. BarredIfLate(t)'
    <3>1. ~Barred(t)
      BY <1>2, <1>3, <1>10 DEF Barred
    <3>2. task[t].type # "other" => <<e.coordinate, task[t].type>> \notin Known
      BY <1>2, <1>3, <3>1 DEF EditInvariant, LateIsBarred, BarredIfLate
    <3>3. QED
      BY <1>4, <1>5, <1>6, <3>2 DEF BarredIfLate, Known
  <2>5. KnownIsRecorded'
    <3> SUFFICES ASSUME NEW c \in Coordinate, NEW type \in Type, <<c, type>> \in Known,
                        <<c, type>> \notin videoClaim
                 PROVE  \E u \in Task : Records(u, c, type)'
      BY <1>6 DEF KnownIsRecorded, Known
    <3>1. PICK u \in Task : Records(u, c, type)
      BY DEF EditInvariant, KnownIsRecorded
    <3>2. QED
      BY <1>5, <1>8, <3>1 DEF Records
  <2>6. QED
    BY <1>6, <2>1, <2>2, <2>3, <2>4, <2>5
       DEF EditInvariant, GapsHold, LateIsBarred, EditTellsNothingTwice
<1>11. QED
  BY <1>3, <1>9, <1>10 DEF Clear

\* A push that is accepted tells something new, and from now on whoever did not
\* find it recorded is barred.
LEMMA EditAccepts ==
  ASSUME EditInvariant, PushInvariant', NEW t \in Task, Accept(t)
  PROVE  EditInvariant'
<1>1. PushInvariant /\ TypeOK' /\ TypeOK /\ TaskStep(t)
  BY DEF EditInvariant, PushInvariant, ClaimInvariant, TaskStep
<1>2. Busy(t) /\ task[t].step = "sending" /\ task[t].type \in Type
  BY <1>1, TaskFields DEF Accept, At, Step
<1>3. PICK e \in Event : e = task[t].event
  BY <1>1, <1>2, TaskFields
<1>4. /\ UNCHANGED <<claim, videoClaim, budget>>
      /\ told' = told \cup News(t) /\ unrecorded' = unrecorded
      /\ repeated' = repeated \cup ({<<e.coordinate, task[t].type>>} \cap News(t) \cap told)
  BY <1>3 DEF Accept, Land, claims
<1>5. \A c \in Coordinate, type \in Type : ~Records(t, c, type)
  BY <1>2 DEF Records
<1>6. HoldsClaim(t, e)
  BY <1>2, <1>3 DEF HoldsClaim
<1>7. CASE task[t].type = "other"
  <2>1. News(t) = {}
    BY <1>7 DEF News
  <2>2. Ends(t) /\ Idle.step = "idle"
    BY <1>1, <1>7, AcceptFields DEF Idle
  <2>3. HoldsGap(t)' /\ BarredIfLate(t)'
    BY <2>2 DEF HoldsGap, BarredIfLate, Busy, Ends
  <2>4. QED
    BY <1>1, <1>4, <1>5, <2>1, <2>2, <2>3, EditQuiet
       DEF EditInvariant, EditTellsNothingTwice, Known, Ends
<1>8. CASE task[t].type # "other"
  <2>1. /\ \A u \in Task : u # t => task'[u] = task[u]
        /\ task'[t].step \in {"accepted", "recording"}
        /\ task'[t].event = e /\ task'[t].time = task[t].time
        /\ task'[t].type = task[t].type /\ task'[t].todo = Satisfied(task[t].type)
    BY <1>1, <1>3, <1>8, AcceptFields DEF GoesOn
  <2>2. /\ News(t) = {e.coordinate} \X Satisfied(task[t].type)
        /\ task[t].type \in {"mention", "bell"}
    BY <1>2, <1>3, <1>8 DEF News, Satisfied, Type
  <2>3. Known' \subseteq Known \cup News(t)
    BY <1>4 DEF Known
  <2>4. EditTellsNothingTwice'
    <3>1. <<e.coordinate, task[t].type>> \notin Known
      BY <1>2, <1>3, <1>8 DEF EditInvariant, LateIsBarred, BarredIfLate
    <3>2. QED
      BY <1>4, <3>1 DEF EditInvariant, EditTellsNothingTwice, Known
  <2>5. cleared = {e} /\ gap >= Gap - task[t].time
    BY <1>2, <1>3, <1>8 DEF EditInvariant, GapsHold, HoldsGap
  <2>6. GapsHold'
    BY <1>2, <1>3, <1>4, <1>8, <2>1 DEF EditInvariant, GapsHold, HoldsGap, budget
  <2>7. KnownIsRecorded'
    <3> SUFFICES ASSUME NEW c \in Coordinate, NEW type \in Type, <<c, type>> \in Known',
                        <<c, type>> \notin videoClaim
                 PROVE  \E u \in Task : Records(u, c, type)'
      BY <1>4 DEF KnownIsRecorded
    <3>1. CASE <<c, type>> \in News(t)
      <4>1. Records(t, c, type)'
        BY <2>1, <2>2, <3>1 DEF Records
      <4>2. QED
        BY <4>1
    <3>2. CASE <<c, type>> \in Known
      <4>1. PICK u \in Task : Records(u, c, type)
        BY <3>2 DEF EditInvariant, KnownIsRecorded
      <4>2. QED
        BY <1>5, <2>1, <4>1 DEF Records
    <3>3. QED
      BY <2>3, <3>1, <3>2
  <2>8. Spent(e)'
    <3>1. claim[e] # NoClaim
      BY <1>1, <1>6, Numbers DEF PushInvariant, ClaimInvariant, ClaimsOwned, NoClaim
    <3>2. ASSUME NEW u \in Task, u # t
          PROVE  ~BeforePush(u, e)'
      <4>1. ~HoldsClaim(u, e)
        BY <1>1, <1>6, <3>2, OneHolder
      <4>2. QED
        BY <2>1, <3>2, <4>1 DEF HoldsClaim, BeforePush
    <3>3. QED
      BY <1>4, <2>1, <3>1, <3>2 DEF Spent, BeforePush
  <2>9. ASSUME NEW u \in Task
        PROVE  BarredIfLate(u)'
    <3>1. CASE u = t
      BY <2>1, <3>1 DEF BarredIfLate
    <3>2. CASE u # t
      <4> SUFFICES ASSUME Busy(u), task[u].type # "other",
                          <<task[u].event.coordinate, task[u].type>> \in Known'
                   PROVE  /\ task[u].step # "sending"
                          /\ task[u].step \in {"bell", "limited", "unclaimed", "claimed"}
                               => Barred(u)'
        BY <2>1, <3>2 DEF BarredIfLate, Busy
      <4>1. PICK f \in Event : f = task[u].event /\ f = task'[u].event
        BY <1>1, <2>1, <3>2, TaskFields
      <4>2. task[u].step # "sending"
        <5> SUFFICES ASSUME task[u].step = "sending" PROVE FALSE
          OBVIOUS
        <5>1. cleared = {f} /\ HoldsClaim(u, f)
          BY <4>1 DEF EditInvariant, GapsHold, HoldsGap, HoldsClaim
        <5>2. f = e
          BY <2>5, <5>1
        <5>3. QED
          BY <1>1, <1>6, <3>2, <5>1, <5>2, OneHolder
      <4>3. ASSUME task[u].step \in {"bell", "limited", "unclaimed", "claimed"}, f = e
            PROVE  Barred(u)'
        <5>1. task[u].step # "claimed"
          <6>1. task[u].step = "claimed" => HoldsClaim(u, e)
            BY <4>1, <4>3 DEF HoldsClaim
          <6>2. QED
            BY <1>1, <1>6, <3>2, <6>1, OneHolder
        <5>2. QED
          BY <2>1, <2>8, <3>2, <4>1, <4>3, <5>1 DEF Barred, Spent, BeforePush
      <4>4. ASSUME f # e
            PROVE  Barred(u)'
        <5>1. gap' >= AttemptTime - task'[u].time + 1
          BY <1>1, <1>2, <1>4, <2>1, <2>5, <3>2, Values, Numbers DEF budget
        <5>2. cleared' = {e}
          BY <1>4, <2>5 DEF budget
        <5>3. QED
          BY <1>3, <4>1, <4>4, <5>1, <5>2 DEF Barred
      <4>5. QED
        BY <4>2, <4>3, <4>4
    <3>3. QED
      BY <3>1, <3>2
  <2>10. QED
    BY <2>4, <2>6, <2>7, <2>9 DEF EditInvariant, LateIsBarred
<1>9. QED
  BY <1>7, <1>8

\* The look for a record: where there is none yet of what is known, it is about to
\* be written, and whoever writes it keeps the gap or holds the event's claim.
LEMMA EditChecks ==
  ASSUME EditInvariant, PushInvariant', NEW t \in Task, CheckVideo(t)
  PROVE  EditInvariant'
<1>1. PushInvariant /\ TypeOK' /\ TypeOK /\ TaskStep(t)
  BY DEF EditInvariant, PushInvariant, ClaimInvariant, TaskStep
<1>2. Busy(t) /\ task[t].step = "open" /\ UNCHANGED <<claim, videoClaim, budget, history>>
  BY <1>1, TaskFields DEF CheckVideo, At, Step, claims
<1>3. PICK e \in Event : e = task[t].event
  BY <1>1, <1>2, TaskFields
<1>4. \A c \in Coordinate, type \in Type : ~Records(t, c, type)
  BY <1>2 DEF Records
<1>5. UNCHANGED <<told, unrecorded, repeated>> /\ Known' = Known
  BY <1>2 DEF history, Known
<1>6. CASE Ends(t)
  <2>1. HoldsGap(t)' /\ BarredIfLate(t)' /\ \A u \in Task : u # t => task'[u] = task[u]
    BY <1>6 DEF HoldsGap, BarredIfLate, Busy, Ends, Idle
  <2>2. QED
    BY <1>1, <1>2, <1>4, <1>5, <2>1, EditQuiet DEF EditInvariant, EditTellsNothingTwice
<1>7. ASSUME NEW type \in DeliveryTypes(e.type),
             <<e.coordinate, type>> \notin videoClaim,
             GoesOn(t, IF type = "bell" THEN "bell" ELSE "unclaimed"),
             task'[t].type = type
      PROVE  EditInvariant'
  <2>1. type \in Type /\ e.coordinate \in Coordinate
    BY <1>7, Numbers DEF DeliveryTypes, Type
  <2>2. /\ \A u \in Task : u # t => task'[u] = task[u]
        /\ task'[t].step \in {"bell", "unclaimed"}
        /\ task'[t].event = e /\ task'[t].time = task[t].time
    BY <1>3, <1>7 DEF GoesOn
  <2>3. HoldsGap(t)'
    BY <2>2 DEF HoldsGap
  <2>4. BarredIfLate(t)'
    <3> SUFFICES ASSUME <<e.coordinate, type>> \in Known, type # "other"
                 PROVE  Barred(t)'
      BY <1>5, <1>7, <2>2 DEF BarredIfLate
    <3>1. PICK u \in Task : Records(u, e.coordinate, type)
      BY <1>7, <2>1 DEF EditInvariant, KnownIsRecorded
    <3>2. PICK f \in Event : f = task[u].event /\ Busy(u)
      BY <1>1, <3>1, TaskFields DEF Records, Step
    <3>3. task[u].type # "other"
      BY <1>1, <3>1 DEF Records, PushInvariant, ClaimInvariant, TypesFit
    <3>4. cleared = {f} /\ gap >= Gap - task[u].time /\ HoldsClaim(u, f)
      BY <3>1, <3>2, <3>3 DEF Records, EditInvariant, GapsHold, HoldsGap, HoldsClaim
    <3>5. CASE f = e
      <4>1. claim[e] # NoClaim
        BY <1>1, <3>4, <3>5, Numbers DEF PushInvariant, ClaimInvariant, ClaimsOwned, NoClaim
      <4>2. ASSUME NEW w \in Task, BeforePush(w, e)
            PROVE  FALSE
        <5>1. HoldsClaim(w, e)
          BY <4>2 DEF BeforePush, HoldsClaim
        <5>2. w = u
          BY <1>1, <3>4, <3>5, <5>1, OneHolder
        <5>3. QED
          BY <3>1, <4>2, <5>2 DEF BeforePush, Records
      <4>3. Spent(e)
        BY <4>1, <4>2 DEF Spent
      <4>4. Spent(e)'
        BY <1>1, <4>3, SpentStays
      <4>5. QED
        BY <2>2, <4>4 DEF Barred, Spent, BeforePush
    <3>6. CASE f # e
      <4>1. gap' >= AttemptTime - task'[t].time + 1 /\ cleared' = {f}
        BY <1>1, <1>2, <2>2, <3>2, <3>4, Values, Numbers DEF budget
      <4>2. QED
        BY <2>2, <3>6, <4>1 DEF Barred
    <3>7. QED
      BY <3>5, <3>6
  <2>5. QED
    BY <1>1, <1>2, <1>4, <1>5, <2>2, <2>3, <2>4, EditQuiet
       DEF EditInvariant, EditTellsNothingTwice
<1>8. QED
  BY <1>1, <1>3, <1>6, <1>7, CheckVideoFields

\* The other steps tell nothing that stays unrecorded, and leave the gap alone.
LEMMA EditStep ==
  ASSUME EditInvariant, PushInvariant', NEW t \in Task, TaskStep(t),
         ~Clear(t), ~Accept(t), ~CheckVideo(t)
  PROVE  EditInvariant'
<1>1. PushInvariant /\ TypeOK' /\ TypeOK /\ HoldsGap(t) /\ BarredIfLate(t)
      /\ EditTellsNothingTwice
  BY DEF EditInvariant, PushInvariant, ClaimInvariant, GapsHold, LateIsBarred
<1>2. \A u \in Task : u # t => task'[u] = task[u]
  BY <1>1, BeginFields, StepShape DEF Ends, GoesOn
<1>3. UNCHANGED budget
  BY DEF TaskStep, Begin, Leave, CheckRate, RecordLimited, TakeClaim, FailBeforePush, Refuse,
     Release, ReleaseFails, Ingest, Refused, CutOff, OpenWindow, Record, CancelBookkeeping, Crash
<1>4. /\ videoClaim \subseteq videoClaim' /\ unrecorded \subseteq unrecorded'
      /\ Known' \subseteq Known /\ repeated' \subseteq unrecorded'
  <2>1. CASE UNCHANGED <<told, unrecorded, repeated>>
    BY <1>1, <2>1 DEF TaskStep, Begin, Leave, CheckRate, RecordLimited, TakeClaim,
       FailBeforePush, Refuse, Release, ReleaseFails, Ingest, Refused, CutOff, OpenWindow,
       Record, CancelBookkeeping, Crash, claims, Known, EditTellsNothingTwice
  <2>2. CASE (Refused(t) \/ CutOff(t)) /\ Land(t, FALSE)
    BY <1>1, <2>2 DEF Refused, CutOff, Land, claims, Known, EditTellsNothingTwice
  <2>3. CASE (\E type \in Type : Record(t, type)) \/ CancelBookkeeping(t)
    BY <1>1, <2>3 DEF Record, CancelBookkeeping, claims, Known, EditTellsNothingTwice
  <2>4. QED
    BY <2>1, <2>2, <2>3 DEF TaskStep, Begin, Leave, CheckRate, RecordLimited, TakeClaim,
       FailBeforePush, Refuse, Release, ReleaseFails, Ingest, Refused, CutOff, OpenWindow,
       Crash, NoPush, history
<1>5. HoldsGap(t)' /\ BarredIfLate(t)'
  <2>1. CASE \E e \in Event : Begin(t, e)
    BY <1>1, <2>1, BeginFields DEF HoldsGap, BarredIfLate
  <2>2. CASE End(t)
    BY <1>1, <2>2, EndFields DEF Ends, HoldsGap, BarredIfLate, Busy, Idle
  <2>3. CASE GoTo(t, "releasing") /\ Busy(t)
    BY <1>1, <2>3, GoToFields DEF GoesOn, HoldsGap, BarredIfLate, Step
  <2>4. CASE CheckRate(t)
    <3>1. Busy(t) /\ task[t].step = "bell"
      BY <1>1, <2>4, TaskFields DEF CheckRate, At, Step
    <3>2. /\ task'[t].step \in {"limited", "unclaimed"} /\ task'[t].type = task[t].type
          /\ task'[t].event = task[t].event /\ task'[t].time = task[t].time
      BY <1>1, <2>4, <3>1, GoToFields DEF CheckRate, GoesOn, Step
    <3>3. Barred(t) => Barred(t)'
      BY <1>1, <1>3, <3>1, <3>2, BarredStays
    <3>4. QED
      BY <1>1, <1>4, <3>1, <3>2, <3>3 DEF HoldsGap, BarredIfLate
  <2>5. CASE TakeClaim(t) /\ GoTo(t, "claimed") /\ claim[task[t].event] = NoClaim
    <3>1. Busy(t) /\ task[t].step = "unclaimed"
      BY <1>1, <2>5, TaskFields DEF TakeClaim, At, Step
    <3>2. /\ task'[t].step = "claimed" /\ task'[t].type = task[t].type
          /\ task'[t].event = task[t].event /\ task'[t].time = task[t].time
      BY <1>1, <2>5, <3>1, GoToFields DEF GoesOn, Step
    <3>3. Barred(t) => Barred(t)'
      BY <1>1, <1>3, <2>5, <3>1, <3>2, BarredStays DEF Spent
    <3>4. QED
      BY <1>1, <1>4, <3>1, <3>2, <3>3 DEF HoldsGap, BarredIfLate
  <2>6. CASE OpenWindow(t)
    <3>1. Busy(t) /\ task[t].step = "accepted"
      BY <1>1, <2>6, TaskFields DEF OpenWindow, At, Step
    <3>2. /\ task'[t].step = "recording" /\ task'[t].type = task[t].type
          /\ task'[t].event = task[t].event /\ task'[t].time = task[t].time
      BY <1>1, <2>6, <3>1, GoToFields DEF OpenWindow, GoesOn, Step
    <3>3. QED
      BY <1>1, <1>3, <3>1, <3>2 DEF HoldsGap, BarredIfLate, budget
  <2>7. CASE \E type \in Type : Record(t, type)
    <3>1. task[t].step = "recording"
      BY <2>7 DEF Record, At
    <3>2. \/ ~Busy(t)' /\ task'[t].step = "idle"
          \/ /\ task'[t].step = "recording" /\ task'[t].type = task[t].type
             /\ task'[t].event = task[t].event /\ task'[t].time = task[t].time
      BY <1>1, <2>7, RecordFields DEF Ends, GoesOn, Busy, Idle
    <3>3. QED
      BY <1>1, <1>3, <3>1, <3>2 DEF HoldsGap, BarredIfLate, budget
  <2>8. Busy(t) \/ \E e \in Event : Begin(t, e)
    BY <1>1, StepShape
  <2>9. QED
    BY <2>1, <2>2, <2>3, <2>4, <2>5, <2>6, <2>7, <2>8 DEF TaskStep, Leave, RecordLimited,
       TakeClaim, FailBeforePush, Refuse, Release, ReleaseFails, Ingest, Refused, CutOff,
       CancelBookkeeping, Crash, GoOrEnd, AfterFailure, AfterCutOff
<1>6. ASSUME NEW c \in Coordinate, NEW type \in Type, Records(t, c, type)
      PROVE  \/ <<c, type>> \notin Known'
             \/ <<c, type>> \in videoClaim'
             \/ Records(t, c, type)'
  <2>1. /\ task[t].step \in {"accepted", "recording"} /\ task[t].event.coordinate = c
        /\ type \in task[t].todo /\ Busy(t)
    BY <1>1, <1>6, TaskFields DEF Records, Step
  <2>2. CASE OpenWindow(t)
    BY <1>1, <2>1, <2>2, GoToFields DEF OpenWindow, GoesOn, Records, Step
  <2>3. ASSUME NEW other \in Type, Record(t, other)
        PROVE  \/ <<c, type>> \notin Known'
               \/ <<c, type>> \in videoClaim'
               \/ Records(t, c, type)'
    <3>1. CASE type = other
      BY <2>1, <2>3, <3>1 DEF Record, Known
    <3>2. CASE type # other
      BY <1>1, <2>1, <2>3, <3>2, RecordFields DEF GoesOn, Records
    <3>3. QED
      BY <3>1, <3>2
  <2>4. CASE CancelBookkeeping(t)
    <3>1. <<c, type>> \in unrecorded'
      BY <2>1, <2>4 DEF CancelBookkeeping
    <3>2. QED
      BY <3>1 DEF Known
  <2>5. QED
    BY <2>1, <2>2, <2>3, <2>4 DEF TaskStep, Begin, Leave, BeforeClaim, CheckRate,
       RecordLimited, TakeClaim, FailBeforePush, Refuse, Release, ReleaseFails, Ingest,
       Refused, CutOff, Crash, At, Busy
<1>7. QED
  BY <1>2, <1>3, <1>4, <1>5, <1>6, EditQuiet

\* The gap outlasts whoever holds it and whoever it bars.
LEMMA EditTicks ==
  ASSUME EditInvariant, PushInvariant', Tick
  PROVE  EditInvariant'
<1>1. PushInvariant /\ TypeOK' /\ TypeOK
  BY DEF EditInvariant, PushInvariant, ClaimInvariant
<1>2. \A t \in Task : /\ Busy(t)' <=> Busy(t)
                      /\ task'[t].step = task[t].step
                      /\ Busy(t) => /\ task'[t].event = task[t].event
                                    /\ task'[t].type = task[t].type
                                    /\ task'[t].todo = task[t].todo
                                    /\ task'[t].time = task[t].time + 1
                                    /\ task[t].time < AttemptTime
  BY <1>1, TickFields, TaskFields DEF Busy, Idle
<1>3. /\ gap > 1 => gap' = gap - 1 /\ cleared' = cleared
      /\ UNCHANGED <<told, unrecorded, repeated, videoClaim>>
  BY <1>1, Values DEF Tick, Shorter, history
<1>4. ASSUME NEW t \in Task
      PROVE  HoldsGap(t)'
  <2> SUFFICES ASSUME task[t].step \in {"sending", "accepted", "recording"},
                      task'[t].type # "other"
               PROVE  cleared' = {task'[t].event} /\ gap' >= Gap - task'[t].time
    BY <1>2 DEF HoldsGap
  <2>1. Busy(t)
    BY <1>1, TaskFields DEF Step
  <2>2. cleared = {task[t].event} /\ gap >= Gap - task[t].time
    BY <1>2, <2>1 DEF EditInvariant, GapsHold, HoldsGap
  <2>3. gap > 1
    BY <1>1, <1>2, <2>1, <2>2, Values, Numbers
  <2>4. QED
    BY <1>1, <1>2, <1>3, <2>1, <2>2, <2>3, Values, Numbers
<1>5. ASSUME NEW t \in Task
      PROVE  BarredIfLate(t)'
  <2> SUFFICES ASSUME Busy(t), Barred(t) PROVE Barred(t)'
    BY <1>2, <1>3 DEF EditInvariant, LateIsBarred, BarredIfLate, Known
  <2>1. PICK e \in Event : e = task[t].event /\ e = task'[t].event
    BY <1>1, <1>2, TaskFields
  <2>2. CASE gap >= AttemptTime - task[t].time + 1 /\ \E f \in Event \ {e} : cleared = {f}
    <3>1. gap > 1
      BY <1>1, <1>2, <2>2, Values, Numbers
    <3>2. gap' >= AttemptTime - task'[t].time + 1
      BY <1>1, <1>2, <1>3, <2>2, <3>1, Values, Numbers
    <3>3. QED
      BY <1>3, <2>1, <2>2, <3>1, <3>2 DEF Barred
  <2>3. CASE task[t].step # "claimed" /\ Spent(e)
    <3>1. \A u \in Task : ~BeforePush(u, e)'
      BY <1>1, <1>2, <2>3, TaskFields DEF Spent, BeforePush, Step
    <3>2. claim[e].left > 1 /\ claim[e].owner # Nobody
      BY <1>1, <1>2, <2>1, <2>3, Values, Numbers
         DEF PushInvariant, ClaimInvariant, ClaimsLast, Spent
    <3>3. claim'[e].owner # Nobody
      BY <1>1, <2>1, <3>2, Values DEF Tick, TypeOK
    <3>4. QED
      BY <1>2, <2>1, <2>3, <3>1, <3>3 DEF Barred, Spent, BeforePush, NoClaim
  <2>4. QED
    BY <2>1, <2>2, <2>3 DEF Barred
<1>6. KnownIsRecorded'
  <2> SUFFICES ASSUME NEW c \in Coordinate, NEW type \in Type, <<c, type>> \in Known,
                      <<c, type>> \notin videoClaim
               PROVE  \E t \in Task : Records(t, c, type)'
    BY <1>3 DEF KnownIsRecorded, Known
  <2>1. PICK t \in Task : Records(t, c, type)
    BY DEF EditInvariant, KnownIsRecorded
  <2>2. QED
    BY <1>1, <1>2, <2>1, TaskFields DEF Records, Step
<1>7. QED
  BY <1>3, <1>4, <1>5, <1>6
     DEF EditInvariant, GapsHold, LateIsBarred, EditTellsNothingTwice

LEMMA EditNext == EditInvariant /\ [Next]_recipientVars => EditInvariant'
<1> SUFFICES ASSUME EditInvariant, [Next]_recipientVars
             PROVE  EditInvariant'
  OBVIOUS
<1>1. PushInvariant'
  BY PushNext DEF EditInvariant
<1>2. CASE UNCHANGED <<claims, budget, task, history>>
  BY <1>1, <1>2 DEF claims, budget, history, EditInvariant, GapsHold, HoldsGap,
     KnownIsRecorded, Records, LateIsBarred, BarredIfLate, Barred, Spent, BeforePush, Busy,
     EditTellsNothingTwice, Known
<1>3. CASE \E e \in Event : Publish(e)
  BY <1>2, <1>3 DEF Publish
<1>4. QED
  BY <1>1, <1>2, <1>3, EditClears, EditAccepts, EditChecks, EditStep, EditTicks
     DEF Next, recipientVars

\* No event is pushed to a recipient twice, unless one device failed retryably while
\* nobody knows of another; and no edit tells what the recipient was told before,
\* unless the record of that could not be written: for any number of replicas, any
\* repetitions, cancellations and crashes.
THEOREM NothingIsToldTwice == Spec => []ToldOnce
<1>1. EditInvariant => ToldOnce
  BY DEF EditInvariant, PushInvariant, ToldOnce
<1>2. QED
  BY <1>1, EditInit, EditNext, PTL DEF Spec

-----------------------------------------------------------------------------
(* The rounds of ContentRouting: the inductive invariant                   *)

Actor == Handler \cup Worker
Telling(r) == round[r].step = "telling"

Rests == \A r \in Actor : ~Telling(r) => round[r] = Resting

\* Whom r may tell: the mentioned by handlings, the others by bells.
Addressed(r, a) ==
  /\ a \in Account
  /\ a # event.author
  /\ (r \in Handler) <=> (a \in ToSet(event.tagged))

TargetsAreAddressed ==
  \A r \in Actor :
    Telling(r) =>
      /\ round[r].todo \subseteq DOMAIN List(r)
      /\ \A a \in Accounts(List(r), round[r].todo) \cup round[r].active : Addressed(r, a)

\* The type and copy of a round, and so of all its pushes.
Apt(r, type, copy) ==
  /\ type \in PushType
  /\ (type = "bell") <=> (r \in Worker)
  /\ RendersContent(type) /\ copy # "none" => copy \in {"whole", "short and content"}

RoundsAreApt == \A r \in Actor : Telling(r) => Apt(r, round[r].type, round[r].copy)

\* Who is being told has been told nothing, and nobody else is telling it.
TellingIsClaimed ==
  \A r \in Actor : \A a \in round[r].active :
    /\ a \in claimed
    /\ received[a] = <<>>
    /\ \A q \in Actor : a \in round[q].active => q = r

ToldIsClaimed == \A a \in Account : received[a] # <<>> => a \in claimed

\* A round that was not cut off accounts for everybody.
WholeRound(r) ==
  Telling(r) /\ round[r].error \in (IF r \in Handler THEN {"none", "failed"} ELSE {"none"})

MissedIsPending ==
  \A r \in Actor :
    WholeRound(r) =>
      /\ round[r].missed \subseteq
           Accounts(List(r), round[r].todo) \cup round[r].active \cup round[r].failed
      /\ round[r].error = "none" => round[r].failed = {}

\* A page in hand still has those in sight with whom no page is done.
RoundRemembers ==
  \A w \in Worker : \A p \in DOMAIN Pages :
    Telling(w) /\ p = round[w].job.page => Watchers(p) \subseteq round[w].missed \cup settled

RoutingInvariant ==
  /\ RoutingTypeOK
  /\ Rests
  /\ TargetsAreAddressed /\ RoundsAreApt
  /\ TellingIsClaimed /\ ToldIsClaimed
  /\ MissedIsPending /\ RoundRemembers
  /\ ToldRightly /\ NobodyPassedOver

-----------------------------------------------------------------------------
(* A step of a round: what it may do whichever it is                       *)

Moves(r) ==
  /\ Telling(r) /\ round'[r].step = "telling"
  /\ \A q \in Actor : q # r => round'[q] = round[q]
  /\ round'[r].type = round[r].type /\ round'[r].job = round[r].job
  /\ round'[r].copy = round[r].copy \/ round'[r].copy \in Resolved(round[r].type)
  /\ UNCHANGED <<event, jobs, result>>

\* It begins with targets that nobody has, and gives up no claim but for its own.
Claims(r) ==
  /\ round'[r].todo \subseteq round[r].todo
  /\ \A a \in round'[r].active \ round[r].active :
       a \in Accounts(List(r), round[r].todo) /\ a \notin claimed /\ a \in claimed'
  /\ claimed \ claimed' \subseteq round[r].active \ round'[r].active

\* Whoever is told was being told, and stays claimed.
Tells(r) ==
  \A a \in Account :
    received'[a] # received[a] =>
      /\ a \in round[r].active \ round'[r].active
      /\ a \in claimed'
      /\ round[r].copy # "none"
      /\ received'[a] = Append(received[a], [type |-> round[r].type, copy |-> round[r].copy])

\* Unless it cuts the round off it loses sight of nobody.
Accounted(r, a) == a \in Accounts(List(r), round[r].todo) \cup round[r].active \cup round[r].failed

KeepsAccount(r) ==
  WholeRound(r)' =>
    /\ WholeRound(r)
    /\ round'[r].missed \subseteq round[r].missed
    /\ \A a \in round'[r].missed : Accounted(r, a) => Accounted(r, a)'
    /\ round'[r].error = "none" => round[r].error = "none" /\ round'[r].failed = round[r].failed

\* Those whom it puts out of sight are done with.
Settles(r) ==
  /\ settled \subseteq settled'
  /\ r \in Worker => round[r].missed \ round'[r].missed \subseteq settled'

RoundMoves(r) ==
  Moves(r) /\ Claims(r) /\ Tells(r) /\ KeepsAccount(r) /\ Settles(r) /\ RoutingTypeOK'

LEMMA RoundValues ==
  ASSUME RoutingTypeOK, NEW r \in Actor
  PROVE  /\ round[r] \in Round
         /\ DOMAIN round = Actor
BY DEF RoutingTypeOK, Actor

LEMMA RoundFields ==
  ASSUME NEW s \in Round
  PROVE  /\ s.step \in {"rest", "telling"}
         /\ s.todo \in SUBSET Nat
         /\ s.active \in SUBSET Account
         /\ s.copy \in Copy
         /\ s.type \in PushType \cup {"none"}
         /\ s.error \in Error
         /\ s.missed \in SUBSET Account
         /\ s.failed \in SUBSET Account
BY DEF Round

\* A target is an account, at a position of the list.
LEMMA NextTarget ==
  ASSUME RoutingInvariant, NEW r \in Actor, Telling(r), NEW i \in round[r].todo
  PROVE  /\ List(r)[i] \in Account
         /\ List(r)[i] \in Accounts(List(r), round[r].todo)
<1>1. List(r)[i] \in Accounts(List(r), round[r].todo)
  BY DEF Accounts
<1>2. QED
  BY <1>1 DEF RoutingInvariant, TargetsAreAddressed, Addressed

LEMMA NewRound ==
  ASSUME RoutingTypeOK, NEW r \in Actor, NEW s \in Round, round' = [round EXCEPT ![r] = s]
  PROVE  /\ round' \in [Actor -> Round]
         /\ round'[r] = s
         /\ \A q \in Actor : q # r => round'[q] = round[q]
BY DEF RoutingTypeOK, Actor

LEMMA Errors ==
  ASSUME NEW r
  PROVE  /\ FirstError(r, "failed") = IF round[r].error = "none" THEN "failed" ELSE round[r].error
         /\ FirstError(r, "cancelled") =
              IF round[r].error = "none" THEN "cancelled" ELSE round[r].error
BY DEF FirstError

LEMMA SameList ==
  ASSUME UNCHANGED event, NEW r, r \in Handler \/ round'[r].job = round[r].job
  PROVE  /\ List(r)' = List(r)
         /\ \A a : Addressed(r, a)' = Addressed(r, a)
BY DEF List, Addressed

LEMMA SettlesOne ==
  ASSUME RoutingInvariant, NEW r \in Actor, NEW a \in Account,
         settled' \in {settled, SettledBy(r, a)}
  PROVE  settled \subseteq settled' /\ settled' \in SUBSET Account
BY DEF SettledBy, RoutingInvariant, RoutingTypeOK

LEMMA SkipMoves ==
  ASSUME RoutingInvariant, NEW r \in Actor, NEW i \in round[r].todo, Skip(r, i)
  PROVE  RoundMoves(r)
<1> DEFINE a == List(r)[i]
           s == [round[r] EXCEPT !.todo = @ \ {i}, !.missed = @ \ {a}]
<1>1. Telling(r) /\ round[r] \in Round
  BY RoundValues DEF Skip, Startable, Telling, RoutingInvariant
<1>2. /\ s \in Round
      /\ s.step = "telling" /\ s.job = round[r].job /\ s.type = round[r].type
      /\ s.copy = round[r].copy
      /\ s.todo = round[r].todo \ {i} /\ s.active = round[r].active
      /\ s.error = round[r].error /\ s.failed = round[r].failed
      /\ s.missed = round[r].missed \ {a}
  BY <1>1 DEF Round, Telling
<1>3. round' = [round EXCEPT ![r] = s]
  BY DEF Skip
<1> HIDE DEF s
<1>4. /\ round' \in [Actor -> Round] /\ round'[r] = s
      /\ \A q \in Actor : q # r => round'[q] = round[q]
  BY <1>2, <1>3, NewRound DEF RoutingInvariant
<1>5. Moves(r) /\ Claims(r) /\ Tells(r)
  BY <1>1, <1>2, <1>4 DEF Moves, Claims, Tells, Skip
<1>6. KeepsAccount(r)
  BY <1>1, <1>2, <1>4 DEF KeepsAccount, WholeRound, Accounted, Accounts, Skip, List, Telling
<1>7. a \in Account /\ settled' = SettledBy(r, a)
  BY <1>1, NextTarget DEF Skip
<1>8. settled \subseteq settled' /\ settled' \in SUBSET Account
  BY <1>7, SettlesOne
<1>9. Settles(r)
  BY <1>2, <1>4, <1>7, <1>8 DEF Settles, SettledBy
<1>10. RoutingTypeOK'
  BY <1>4, <1>8 DEF RoutingInvariant, RoutingTypeOK, Skip, jobs, Actor
<1>11. QED
  BY <1>5, <1>6, <1>9, <1>10 DEF RoundMoves

LEMMA StartMoves ==
  ASSUME RoutingInvariant, NEW r \in Actor, NEW i \in round[r].todo, Start(r, i)
  PROVE  RoundMoves(r)
<1> DEFINE a == List(r)[i]
           s == [round[r] EXCEPT !.todo = @ \ {i}, !.active = @ \cup {a}]
<1>1. Telling(r) /\ round[r] \in Round
  BY RoundValues DEF Start, Startable, Telling, RoutingInvariant
<1>2. a \in Account /\ a \in Accounts(List(r), round[r].todo)
  BY <1>1, NextTarget
<1>3. /\ s \in Round
      /\ s.step = "telling" /\ s.job = round[r].job /\ s.type = round[r].type
      /\ s.copy = round[r].copy
      /\ s.todo = round[r].todo \ {i} /\ s.active = round[r].active \cup {a}
      /\ s.error = round[r].error /\ s.failed = round[r].failed
      /\ s.missed = round[r].missed
  BY <1>1, <1>2 DEF Round, Telling
<1>4. round' = [round EXCEPT ![r] = s] /\ a \notin claimed /\ claimed' = claimed \cup {a}
  BY DEF Start
<1> HIDE DEF s
<1>5. /\ round' \in [Actor -> Round] /\ round'[r] = s
      /\ \A q \in Actor : q # r => round'[q] = round[q]
  BY <1>3, <1>4, NewRound DEF RoutingInvariant
<1>6. Moves(r) /\ Claims(r) /\ Tells(r)
  BY <1>1, <1>2, <1>3, <1>4, <1>5 DEF Moves, Claims, Tells, Start, outcomes
<1>7. KeepsAccount(r)
  BY <1>1, <1>3, <1>5 DEF KeepsAccount, WholeRound, Accounted, Accounts, Start, List, Telling
<1>8. Settles(r)
  BY <1>3, <1>5 DEF Settles, Start, outcomes
<1>9. RoutingTypeOK'
  BY <1>2, <1>4, <1>5 DEF RoutingInvariant, RoutingTypeOK, Start, jobs, outcomes, Actor
<1>10. QED
  BY <1>6, <1>7, <1>8, <1>9 DEF RoundMoves

LEMMA FailToStartMoves ==
  ASSUME RoutingInvariant, NEW r \in Actor, NEW i \in round[r].todo, FailToStart(r, i)
  PROVE  RoundMoves(r)
<1> DEFINE a == List(r)[i]
           e == FirstError(r, "failed")
           s == [round[r] EXCEPT !.todo = @ \ {i}, !.error = e, !.failed = @ \cup {a}]
<1>1. Telling(r) /\ round[r] \in Round
  BY RoundValues DEF FailToStart, Startable, Telling, RoutingInvariant
<1>2. a \in Account
  BY <1>1, NextTarget
<1>3. e = IF round[r].error = "none" THEN "failed" ELSE round[r].error
  BY Errors
<1>4. e \in Error \ {"none"}
  BY <1>1, <1>3, RoundFields DEF Error
<1>5. round' = [round EXCEPT ![r] = s]
  BY DEF FailToStart, Remaining
<1> HIDE DEF e
<1>6. /\ s \in Round
      /\ s.step = "telling" /\ s.job = round[r].job /\ s.type = round[r].type
      /\ s.copy = round[r].copy
      /\ s.todo = round[r].todo \ {i} /\ s.active = round[r].active
      /\ s.error = e /\ s.failed = round[r].failed \cup {a}
      /\ s.missed = round[r].missed
  BY <1>1, <1>2, <1>4 DEF Round, Telling
<1> HIDE DEF s
<1>7. /\ round' \in [Actor -> Round] /\ round'[r] = s
      /\ \A q \in Actor : q # r => round'[q] = round[q]
  BY <1>5, <1>6, NewRound DEF RoutingInvariant
<1>8. Moves(r) /\ Claims(r) /\ Tells(r)
  BY <1>1, <1>6, <1>7 DEF Moves, Claims, Tells, FailToStart, outcomes
<1>9. KeepsAccount(r)
  <2>1. List(r)' = List(r)
    BY <1>6, <1>7, SameList DEF FailToStart
  <2>2. QED
    BY <1>1, <1>3, <1>4, <1>6, <1>7, <2>1
       DEF KeepsAccount, WholeRound, Accounted, Accounts, Telling
<1>10. Settles(r)
  BY <1>6, <1>7 DEF Settles, FailToStart, outcomes
<1>11. RoutingTypeOK'
  BY <1>7 DEF RoutingInvariant, RoutingTypeOK, FailToStart, jobs, outcomes, Actor
<1>12. QED
  BY <1>8, <1>9, <1>10, <1>11 DEF RoundMoves

LEMMA ResolveMoves ==
  ASSUME RoutingInvariant, NEW r \in Actor, Resolve(r)
  PROVE  RoundMoves(r)
<1>1. PICK copy \in Resolved(round[r].type) : round' = [round EXCEPT ![r].copy = copy]
  BY DEF Resolve
<1> DEFINE s == [round[r] EXCEPT !.copy = copy]
<1>2. round[r] \in Round /\ round[r].active # {}
  BY RoundValues DEF RoutingInvariant, Resolve
<1>3. Telling(r)
  BY <1>2 DEF RoutingInvariant, Rests, Resting
<1>4. copy \in Copy
  BY DEF Resolved, Copy
<1>5. /\ s \in Round
      /\ s.step = "telling" /\ s.job = round[r].job /\ s.type = round[r].type
      /\ s.copy = copy
      /\ s.todo = round[r].todo /\ s.active = round[r].active
      /\ s.error = round[r].error /\ s.failed = round[r].failed
      /\ s.missed = round[r].missed
  BY <1>2, <1>3, <1>4 DEF Round, Telling
<1>6. round' = [round EXCEPT ![r] = s]
  BY <1>1
<1> HIDE DEF s
<1>7. /\ round' \in [Actor -> Round] /\ round'[r] = s
      /\ \A q \in Actor : q # r => round'[q] = round[q]
  BY <1>5, <1>6, NewRound DEF RoutingInvariant
<1>8. Moves(r) /\ Claims(r) /\ Tells(r)
  BY <1>3, <1>5, <1>7 DEF Moves, Claims, Tells, Resolve, outcomes
<1>9. KeepsAccount(r)
  BY <1>3, <1>5, <1>7 DEF KeepsAccount, WholeRound, Accounted, Accounts, Resolve, List, Telling
<1>10. Settles(r)
  BY <1>5, <1>7 DEF Settles, Resolve, outcomes
<1>11. RoutingTypeOK'
  BY <1>7 DEF RoutingInvariant, RoutingTypeOK, Resolve, jobs, outcomes, Actor
<1>12. QED
  BY <1>8, <1>9, <1>10, <1>11 DEF RoundMoves

\* A push is told of in the round's type and copy.
Push(r) == [type |-> round[r].type, copy |-> round[r].copy]

LEMMA PushTyped ==
  ASSUME RoutingInvariant, NEW r \in Actor, NEW a \in Account, Telling(r),
         received' \in {received, [received EXCEPT ![a] = Append(@, Push(r))]}
  PROVE  /\ received' \in [Account -> Seq([type : PushType, copy : Copy])]
         /\ \A b \in Account :
              received'[b] # received[b] => b = a /\ received'[b] = Append(received[b], Push(r))
<1>1. Push(r) \in [type : PushType, copy : Copy]
  <2>1. round[r].copy \in Copy
    BY RoundValues, RoundFields DEF RoutingInvariant
  <2>2. round[r].type \in PushType
    BY DEF RoutingInvariant, RoundsAreApt, Apt
  <2>3. QED
    BY <2>1, <2>2 DEF Push
<1>2. received \in [Account -> Seq([type : PushType, copy : Copy])]
  BY DEF RoutingInvariant, RoutingTypeOK
<1> DEFINE P == [type : PushType, copy : Copy]
           p == Push(r)
<1>3. /\ p \in P /\ received \in [Account -> Seq(P)]
      /\ received' \in {received, [received EXCEPT ![a] = Append(@, p)]}
  BY <1>1, <1>2
<1> HIDE DEF P, p
<1>4. /\ received' \in [Account -> Seq(P)]
      /\ \A b \in Account :
           received'[b] # received[b] => b = a /\ received'[b] = Append(received[b], p)
  <2>1. CASE received' = received
    BY <1>3, <2>1
  <2>2. CASE received' = [received EXCEPT ![a] = Append(@, p)]
    <3>1. Append(received[a], p) \in Seq(P)
      BY <1>3
    <3>2. QED
      BY <1>3, <2>2, <3>1, Zenon
  <2>3. QED
    BY <1>3, <2>1, <2>2
<1>5. QED
  BY <1>4 DEF P, p

LEMMA ActiveTells ==
  ASSUME RoutingInvariant, NEW r \in Actor, NEW a \in Account, a \in round[r].active
  PROVE  Telling(r) /\ round[r] \in Round /\ a \in claimed /\ received[a] = <<>>
BY RoundValues DEF RoutingInvariant, Rests, Resting, TellingIsClaimed

LEMMA SettleMoves ==
  ASSUME RoutingInvariant, NEW r \in Actor, NEW a \in Account, Settle(r, a)
  PROVE  RoundMoves(r)
<1> DEFINE s == [round[r] EXCEPT !.active = @ \ {a}, !.missed = @ \ {a}]
<1>1. Telling(r) /\ round[r] \in Round /\ a \in claimed /\ a \in round[r].active
  BY ActiveTells DEF Settle, Ready
<1>2. /\ s \in Round
      /\ s.step = "telling" /\ s.job = round[r].job /\ s.type = round[r].type
      /\ s.copy = round[r].copy
      /\ s.todo = round[r].todo /\ s.active = round[r].active \ {a}
      /\ s.error = round[r].error /\ s.failed = round[r].failed
      /\ s.missed = round[r].missed \ {a}
  BY <1>1 DEF Round, Telling
<1>3. round' = [round EXCEPT ![r] = s]
  BY DEF Settle
<1> HIDE DEF s
<1>4. /\ round' \in [Actor -> Round] /\ round'[r] = s
      /\ \A q \in Actor : q # r => round'[q] = round[q]
  BY <1>2, <1>3, NewRound DEF RoutingInvariant
<1>5. /\ received' \in [Account -> Seq([type : PushType, copy : Copy])]
      /\ \A b \in Account :
           received'[b] # received[b] => b = a /\ received'[b] = Append(received[b], Push(r))
  BY <1>1, PushTyped DEF Settle, Push
<1>6. Moves(r) /\ Claims(r)
  BY <1>1, <1>2, <1>4 DEF Moves, Claims, Settle
<1>7. Tells(r)
  BY <1>1, <1>2, <1>4, <1>5 DEF Tells, Settle, Ready, Push
<1>8. KeepsAccount(r)
  BY <1>1, <1>2, <1>4 DEF KeepsAccount, WholeRound, Accounted, Accounts, Settle, List, Telling
<1>9. settled \subseteq settled' /\ settled' \in SUBSET Account
  BY SettlesOne DEF Settle
<1>10. Settles(r)
  BY <1>2, <1>4, <1>9 DEF Settles, Settle, SettledBy
<1>11. RoutingTypeOK'
  BY <1>4, <1>5, <1>9 DEF RoutingInvariant, RoutingTypeOK, Settle, jobs, Actor
<1>12. QED
  BY <1>6, <1>7, <1>8, <1>10, <1>11 DEF RoundMoves

LEMMA FailMoves ==
  ASSUME RoutingInvariant, NEW r \in Actor, NEW a \in Account, Fail(r, a)
  PROVE  RoundMoves(r)
<1> DEFINE e == FirstError(r, "failed")
           s == [round[r] EXCEPT !.active = @ \ {a}, !.error = e, !.failed = @ \cup {a}]
<1>1. Telling(r) /\ round[r] \in Round /\ a \in round[r].active
  BY ActiveTells DEF Fail, Ready
<1>2. e = IF round[r].error = "none" THEN "failed" ELSE round[r].error
  BY Errors
<1>3. e \in Error \ {"none"}
  BY <1>1, <1>2, RoundFields DEF Error
<1>4. round' = [round EXCEPT ![r] = s]
  BY DEF Fail
<1> HIDE DEF e
<1>5. /\ s \in Round
      /\ s.step = "telling" /\ s.job = round[r].job /\ s.type = round[r].type
      /\ s.copy = round[r].copy
      /\ s.todo = round[r].todo /\ s.active = round[r].active \ {a}
      /\ s.error = e /\ s.failed = round[r].failed \cup {a}
      /\ s.missed = round[r].missed
  BY <1>1, <1>3 DEF Round, Telling
<1> HIDE DEF s
<1>6. /\ round' \in [Actor -> Round] /\ round'[r] = s
      /\ \A q \in Actor : q # r => round'[q] = round[q]
  BY <1>4, <1>5, NewRound DEF RoutingInvariant
<1>7. Moves(r) /\ Claims(r) /\ Tells(r)
  BY <1>1, <1>5, <1>6 DEF Moves, Claims, Tells, Fail, outcomes
<1>8. KeepsAccount(r)
  <2>1. List(r)' = List(r)
    BY <1>5, <1>6, SameList DEF Fail
  <2>2. QED
    BY <1>1, <1>2, <1>3, <1>5, <1>6, <2>1
       DEF KeepsAccount, WholeRound, Accounted, Accounts, Telling
<1>9. Settles(r)
  BY <1>5, <1>6 DEF Settles, Fail, outcomes
<1>10. RoutingTypeOK'
  BY <1>6 DEF RoutingInvariant, RoutingTypeOK, Fail, jobs, outcomes, Actor
<1>11. QED
  BY <1>7, <1>8, <1>9, <1>10 DEF RoundMoves

LEMMA CancelMoves ==
  ASSUME RoutingInvariant, NEW r \in Actor, NEW a \in Account, Cancel(r, a)
  PROVE  RoundMoves(r)
<1> DEFINE e == IF r \in Handler THEN "cancelled" ELSE FirstError(r, "cancelled")
           t == IF r \in Handler THEN {} ELSE round[r].todo
           s == [round[r] EXCEPT !.active = @ \ {a}, !.todo = t, !.error = e]
<1>1. Telling(r) /\ round[r] \in Round /\ a \in round[r].active /\ a \in claimed
  BY ActiveTells DEF Cancel
<1>2. e \in Error \ {"none"} /\ (r \in Handler => e = "cancelled")
  BY <1>1, Errors, RoundFields DEF Error
<1>3. t \subseteq round[r].todo
  OBVIOUS
<1>4. round' = [round EXCEPT ![r] = s]
  BY DEF Cancel
<1> HIDE DEF e, t
<1>5. /\ s \in Round
      /\ s.step = "telling" /\ s.job = round[r].job /\ s.type = round[r].type
      /\ s.copy = round[r].copy
      /\ s.todo = t /\ s.active = round[r].active \ {a} /\ s.error = e
      /\ s.missed = round[r].missed
  BY <1>1, <1>2, <1>3 DEF Round, Telling
<1> HIDE DEF s
<1>6. /\ round' \in [Actor -> Round] /\ round'[r] = s
      /\ \A q \in Actor : q # r => round'[q] = round[q]
  BY <1>4, <1>5, NewRound DEF RoutingInvariant
<1>7. /\ received' \in [Account -> Seq([type : PushType, copy : Copy])]
      /\ \A b \in Account :
           received'[b] # received[b] => b = a /\ received'[b] = Append(received[b], Push(r))
  <2>1. received' \in {received, [received EXCEPT ![a] = Append(@, Push(r))]}
    BY DEF Cancel, Push
  <2>2. QED
    BY <1>1, <2>1, PushTyped
<1>8. received' # received => Ready(r, a) /\ claimed' = claimed
  BY DEF Cancel
<1>9. claimed' \in {claimed, claimed \ {a}} /\ UNCHANGED <<event, jobs, stopping, result>>
  BY DEF Cancel
<1>10. Moves(r) /\ Claims(r)
  BY <1>1, <1>3, <1>5, <1>6, <1>9 DEF Moves, Claims
<1>11. Tells(r)
  BY <1>1, <1>5, <1>6, <1>7, <1>8 DEF Tells, Ready, Push
<1>12. KeepsAccount(r)
  BY <1>2, <1>5, <1>6 DEF KeepsAccount, WholeRound
<1>13. settled \subseteq settled' /\ settled' \in SUBSET Account
  BY SettlesOne DEF Cancel
<1>14. Settles(r)
  BY <1>5, <1>6, <1>13 DEF Settles
<1>15. RoutingTypeOK'
  BY <1>6, <1>7, <1>9, <1>13 DEF RoutingInvariant, RoutingTypeOK, jobs, Actor
<1>16. QED
  BY <1>10, <1>11, <1>12, <1>14, <1>15 DEF RoundMoves

LEMMA StopEarlyMoves ==
  ASSUME RoutingInvariant, NEW r \in Actor, NEW i \in round[r].todo, StopEarly(r, i)
  PROVE  RoundMoves(r)
<1> DEFINE e == IF r \in Handler THEN "cancelled" ELSE FirstError(r, "cancelled")
           t == IF r \in Handler THEN {} ELSE round[r].todo \ {i}
           s == [round[r] EXCEPT !.todo = t, !.error = e]
<1>1. Telling(r) /\ round[r] \in Round
  BY RoundValues DEF StopEarly, Telling, RoutingInvariant
<1>2. e \in Error \ {"none"} /\ (r \in Handler => e = "cancelled")
  BY <1>1, Errors, RoundFields DEF Error
<1>3. t \subseteq round[r].todo
  OBVIOUS
<1>4. round' = [round EXCEPT ![r] = s]
  BY DEF StopEarly
<1> HIDE DEF e, t
<1>5. /\ s \in Round
      /\ s.step = "telling" /\ s.job = round[r].job /\ s.type = round[r].type
      /\ s.copy = round[r].copy
      /\ s.todo = t /\ s.active = round[r].active /\ s.error = e
      /\ s.missed = round[r].missed
  BY <1>1, <1>2, <1>3 DEF Round, Telling
<1> HIDE DEF s
<1>6. /\ round' \in [Actor -> Round] /\ round'[r] = s
      /\ \A q \in Actor : q # r => round'[q] = round[q]
  BY <1>4, <1>5, NewRound DEF RoutingInvariant
<1>7. Moves(r) /\ Claims(r) /\ Tells(r)
  BY <1>1, <1>3, <1>5, <1>6 DEF Moves, Claims, Tells, StopEarly, outcomes
<1>8. KeepsAccount(r)
  BY <1>2, <1>5, <1>6 DEF KeepsAccount, WholeRound
<1>9. Settles(r)
  BY <1>5, <1>6 DEF Settles, StopEarly, outcomes
<1>10. RoutingTypeOK'
  BY <1>6 DEF RoutingInvariant, RoutingTypeOK, StopEarly, jobs, outcomes, Actor
<1>11. QED
  BY <1>7, <1>8, <1>9, <1>10 DEF RoundMoves

-----------------------------------------------------------------------------
(* The steps of rounds keep the invariant                                  *)

\* What has an active target or something to do is telling.
LEMMA MoversTell ==
  ASSUME RoutingInvariant, NEW r \in Actor, RoundMoves(r)
  PROVE  /\ Telling(r) /\ Telling(r)'
         /\ \A q \in Actor : Telling(q)' <=> Telling(q)
BY DEF RoundMoves, Moves, Telling

LEMMA MovesKeepTargets ==
  ASSUME RoutingInvariant, NEW r \in Actor, RoundMoves(r)
  PROVE  (Rests /\ TargetsAreAddressed /\ RoundsAreApt)'
<1> USE DEF RoundMoves
<1>1. /\ \A q \in Actor : Telling(q)' <=> Telling(q)
      /\ \A q \in Actor : q # r => round'[q] = round[q]
      /\ Telling(r)
      /\ UNCHANGED event
      /\ \A q \in Actor : round'[q].job = round[q].job
  BY MoversTell DEF Moves
<1>2. Rests'
  BY <1>1 DEF Rests, RoutingInvariant, Telling
<1>3. TargetsAreAddressed'
  <2> SUFFICES ASSUME NEW q \in Actor, Telling(q)'
               PROVE  /\ round'[q].todo \subseteq DOMAIN List(q)
                      /\ \A a \in Accounts(List(q), round'[q].todo) \cup round'[q].active :
                           Addressed(q, a)
    BY <1>1, SameList DEF TargetsAreAddressed, Accounts
  <2>1. /\ round[q].todo \subseteq DOMAIN List(q)
        /\ \A a \in Accounts(List(q), round[q].todo) \cup round[q].active : Addressed(q, a)
    BY <1>1 DEF RoutingInvariant, TargetsAreAddressed
  <2>2. CASE q = r
    BY <2>1, <2>2 DEF Claims, Accounts
  <2>3. QED
    BY <1>1, <2>1, <2>2
<1>4. RoundsAreApt'
  <2> SUFFICES ASSUME NEW q \in Actor, Telling(q)'
               PROVE  Apt(q, round'[q].type, round'[q].copy)
    BY DEF RoundsAreApt, Apt
  <2>1. Apt(q, round[q].type, round[q].copy)
    BY <1>1 DEF RoutingInvariant, RoundsAreApt
  <2>2. CASE q = r
    BY <2>1, <2>2 DEF Moves, Apt, Resolved
  <2>3. QED
    BY <1>1, <2>1, <2>2
<1>5. QED
  BY <1>2, <1>3, <1>4

LEMMA MovesKeepClaims ==
  ASSUME RoutingInvariant, NEW r \in Actor, RoundMoves(r)
  PROVE  (TellingIsClaimed /\ ToldIsClaimed)'
<1> USE DEF RoundMoves
<1>1. /\ \A q \in Actor : q # r => round'[q] = round[q]
      /\ \A q \in Actor : round[q].active \subseteq Account /\ round'[q].active \subseteq Account
  BY RoundFields DEF Moves, RoutingInvariant, RoutingTypeOK, Actor
<1>2. /\ \A a \in round[r].active : a \in claimed /\ received[a] = <<>>
      /\ \A q \in Actor : \A a \in round[q].active :
           a \in claimed /\ received[a] = <<>> /\ (a \in round[r].active => q = r)
      /\ \A a \in Account : received[a] # <<>> => a \in claimed
  BY DEF RoutingInvariant, TellingIsClaimed, ToldIsClaimed
<1>3. ASSUME NEW q \in Actor, NEW a \in round'[q].active
      PROVE  a \in claimed' /\ received'[a] = <<>>
  <2>1. CASE q = r /\ a \in round[r].active
    BY <1>1, <1>2, <2>1 DEF Claims, Tells
  <2>2. CASE q = r /\ a \notin round[r].active
    BY <1>1, <1>2, <2>2 DEF Claims, Tells
  <2>3. CASE q # r
    BY <1>1, <1>2, <2>3 DEF Claims, Tells
  <2>4. QED
    BY <2>1, <2>2, <2>3
<1>4. ASSUME NEW q \in Actor, NEW a \in round'[q].active, NEW p \in Actor, a \in round'[p].active
      PROVE  p = q
  BY <1>1, <1>2, <1>4 DEF Claims, RoutingInvariant, TellingIsClaimed
<1>5. ASSUME NEW a \in Account, received'[a] # <<>>
      PROVE  a \in claimed'
  BY <1>2, <1>5 DEF Claims, Tells
<1>6. QED
  BY <1>3, <1>4, <1>5 DEF TellingIsClaimed, ToldIsClaimed

LEMMA MovesKeepAccount ==
  ASSUME RoutingInvariant, NEW r \in Actor, RoundMoves(r)
  PROVE  MissedIsPending'
<1> USE DEF RoundMoves
<1> SUFFICES ASSUME NEW q \in Actor, WholeRound(q)'
             PROVE  /\ \A a \in round'[q].missed : Accounted(q, a)'
                    /\ round'[q].error = "none" => round'[q].failed = {}
  BY DEF MissedIsPending, Accounted
<1>1. \A p \in Actor : WholeRound(p) =>
        /\ \A a \in round[p].missed : Accounted(p, a)
        /\ round[p].error = "none" => round[p].failed = {}
  BY DEF RoutingInvariant, MissedIsPending, Accounted
<1>2. CASE q = r
  BY <1>1, <1>2 DEF KeepsAccount
<1>3. CASE q # r
  <2>1. round'[q] = round[q] /\ List(q)' = List(q)
    BY <1>3, SameList DEF Moves
  <2>2. QED
    BY <1>1, <2>1 DEF WholeRound, Accounted, Accounts, Telling
<1>4. QED
  BY <1>2, <1>3

LEMMA PushIsRight ==
  ASSUME RoutingInvariant, NEW r \in Actor, NEW a \in round[r].active, round[r].copy # "none"
  PROVE  /\ a # event.author
         /\ (round[r].type = "bell") <=> (a \notin ToSet(event.tagged))
         /\ RendersContent(round[r].type) =>
              round[r].copy \in {"whole", "short and content"}
<1>1. Telling(r)
  BY DEF RoutingInvariant, Rests, Resting
<1>2. Addressed(r, a) /\ Apt(r, round[r].type, round[r].copy)
  BY <1>1 DEF RoutingInvariant, TargetsAreAddressed, RoundsAreApt
<1>3. r \in Worker <=> r \notin Handler
  BY RoutingAssumption DEF Actor
<1>4. QED
  BY <1>2, <1>3 DEF Addressed, Apt

LEMMA MovesTellRightly ==
  ASSUME RoutingInvariant, NEW r \in Actor, RoundMoves(r)
  PROVE  ToldRightly'
<1> SUFFICES ASSUME NEW a \in Account, received'[a] # <<>>
             PROVE  /\ a # event.author
                    /\ Len(received'[a]) = 1
                    /\ (received'[a][1].type = "bell") <=> (a \notin ToSet(event.tagged))
                    /\ RendersContent(received'[a][1].type) =>
                         received'[a][1].copy \in {"whole", "short and content"}
  BY DEF ToldRightly, RoundMoves, Moves
<1>1. CASE received'[a] = received[a]
  BY <1>1 DEF RoutingInvariant, ToldRightly
<1>2. CASE received'[a] # received[a]
  <2> DEFINE p == Push(r)
  <2>1. /\ a \in round[r].active /\ round[r].copy # "none"
        /\ received'[a] = Append(received[a], p)
    BY <1>2 DEF RoundMoves, Tells, Push
  <2>2. received[a] = <<>>
    BY <2>1 DEF RoutingInvariant, TellingIsClaimed
  <2> HIDE DEF p
  <2>3. received'[a] = <<p>>
    BY <2>1, <2>2
  <2>4. Len(received'[a]) = 1 /\ received'[a][1] = p
    BY <2>3
  <2>5. p.type = round[r].type /\ p.copy = round[r].copy
    BY DEF p, Push
  <2>6. QED
    BY <2>1, <2>4, <2>5, PushIsRight
<1>3. QED
  BY <1>1, <1>2

\* Of a page everything is given but the event.
LEMMA SameWatchers ==
  ASSUME UNCHANGED event
  PROVE  \A p : Watchers(p)' = Watchers(p)
BY DEF Watchers, Accounts, PageTargets, Deliverable

\* The other rounds remember what they did.
LEMMA OthersRemember ==
  ASSUME RoutingInvariant, NEW r \in Actor,
         \A q \in Actor : q # r => round'[q] = round[q],
         UNCHANGED event, settled \subseteq settled',
         \A p \in DOMAIN Pages :
           r \in Worker /\ Telling(r)' /\ p = round'[r].job.page =>
             Watchers(p) \subseteq round'[r].missed \cup settled'
  PROVE  RoundRemembers'
<1>1. \A p : Watchers(p)' = Watchers(p)
  BY SameWatchers
<1> SUFFICES ASSUME NEW w \in Worker, NEW p \in DOMAIN Pages, Telling(w)', p = round'[w].job.page
             PROVE  Watchers(p) \subseteq round'[w].missed \cup settled'
  BY <1>1 DEF RoundRemembers
<1>2. CASE w = r
  BY <1>2
<1>3. CASE w # r
  <2>1. round'[w] = round[w]
    BY <1>3 DEF Actor
  <2>2. Telling(w) /\ p = round[w].job.page
    BY <2>1 DEF Telling
  <2>3. QED
    BY <2>1, <2>2 DEF RoutingInvariant, RoundRemembers
<1>4. QED
  BY <1>2, <1>3

LEMMA MovesRemember ==
  ASSUME RoutingInvariant, NEW r \in Actor, RoundMoves(r)
  PROVE  RoundRemembers'
<1>1. /\ Telling(r) /\ round'[r].job = round[r].job /\ UNCHANGED event
      /\ \A q \in Actor : q # r => round'[q] = round[q]
      /\ settled \subseteq settled'
      /\ r \in Worker => round[r].missed \ round'[r].missed \subseteq settled'
  BY DEF RoundMoves, Moves, Settles
<1>2. \A p \in DOMAIN Pages :
        r \in Worker /\ p = round'[r].job.page =>
          Watchers(p) \subseteq round'[r].missed \cup settled'
  BY <1>1 DEF RoutingInvariant, RoundRemembers
<1>3. QED
  BY <1>1, <1>2, OthersRemember

\* What leaves the queue and the results alone passes nobody over.
LEMMA QueueKept ==
  ASSUME RoutingInvariant, UNCHANGED <<event, jobs>>, settled \subseteq settled'
  PROVE  (enqueued => \A p \in DOMAIN Pages : \A a \in Watchers(p) \ settled :
                        \E j \in queue : j.page <= p)'
<1>1. \A p : Watchers(p)' = Watchers(p)
  BY SameWatchers
<1>2. QED
  BY <1>1 DEF RoutingInvariant, NobodyPassedOver, jobs

LEMMA RoundMovesKeep ==
  ASSUME RoutingInvariant, NEW r \in Actor, RoundMoves(r)
  PROVE  RoutingInvariant'
<1>1. /\ UNCHANGED <<event, jobs, result>>
      /\ settled \subseteq settled'
  BY DEF RoundMoves, Moves, Settles
<1>2. NobodyPassedOver'
  BY <1>1, QueueKept DEF RoutingInvariant, NobodyPassedOver, jobs
<1>3. QED
  BY <1>2, MovesRemember, MovesKeepTargets, MovesKeepClaims, MovesKeepAccount, MovesTellRightly
     DEF RoutingInvariant, RoundMoves

-----------------------------------------------------------------------------
(* Rounds begin and end                                                    *)

LEMMA FirstPageTyped ==
  /\ 1 \in DOMAIN Pages /\ 0 \in 0..(MaxAttempts - 1)
  /\ \A copy \in {"none", "name", "short"} : [FirstJob EXCEPT !.copy = copy] \in Job
  /\ FirstJob \in Job
<1>1. 1 \in DOMAIN Pages /\ 0 \in 0..(MaxAttempts - 1)
  BY RoutingAssumption
<1>2. QED
  BY <1>1 DEF FirstJob, Job

LEMMA RestingTyped ==
  /\ Resting \in Round
  /\ Resting.step = "rest" /\ Resting.active = {} /\ Resting.failed = {}
BY FirstPageTyped DEF Resting, Round, Copy, Error

LEMMA ContainsIsIn ==
  ASSUME NEW s \in Seq(Account), NEW a
  PROVE  Contains(s, a) <=> a \in ToSet(s)
BY DEF Contains, ToSet

LEMMA ListTyped ==
  ASSUME RoutingTypeOK
  PROVE  /\ event \in Events /\ event.tagged \in Seq(Account) /\ event.kind \in Kind
         /\ \A j \in Job : Pages[j.page] \in Seq(Account)
BY RoutingAssumption DEF RoutingTypeOK, Job

\* A round that begins with targets that r may tell is as it should be.
LEMMA BeginsRight ==
  ASSUME RoutingInvariant, NEW r \in Actor, NEW s \in Round, NEW list \in Seq(Account),
         NEW targets \in SUBSET (DOMAIN list), round[r] = Resting,
         round' = [round EXCEPT ![r] = s], list = List(r)',
         UNCHANGED <<event, claimed, received>>,
         s.step = "telling", s.todo \subseteq targets, s.active = {}, s.failed = {},
         s.error = "none" => s.missed = Accounts(list, s.todo), s.error \in {"none", "unread"},
         \A i \in targets : Addressed(r, list[i]),
         Apt(r, s.type, s.copy)
  PROVE  (Rests /\ TargetsAreAddressed /\ RoundsAreApt /\ TellingIsClaimed /\ ToldIsClaimed
          /\ MissedIsPending /\ ToldRightly)'
<1>1. /\ round' \in [Actor -> Round] /\ round'[r] = s
      /\ \A q \in Actor : q # r => round'[q] = round[q] /\ List(q)' = List(q)
  BY NewRound, SameList DEF RoutingInvariant
<1>2. Rests'
  BY <1>1 DEF RoutingInvariant, Rests, Telling
<1>3. TargetsAreAddressed'
  <2> SUFFICES ASSUME NEW q \in Actor, Telling(q)'
               PROVE  /\ round'[q].todo \subseteq DOMAIN List(q)'
                      /\ \A a \in Accounts(List(q)', round'[q].todo) \cup round'[q].active :
                           Addressed(q, a)
    BY DEF TargetsAreAddressed, Accounts, Addressed
  <2>1. CASE q = r
    BY <1>1, <2>1 DEF Accounts
  <2>2. CASE q # r
    BY <1>1, <2>2 DEF RoutingInvariant, TargetsAreAddressed, Telling
  <2>3. QED
    BY <2>1, <2>2
<1>4. RoundsAreApt'
  BY <1>1 DEF RoutingInvariant, RoundsAreApt, Apt, Telling
<1>5. TellingIsClaimed'
  BY <1>1 DEF RoutingInvariant, TellingIsClaimed
<1>6. ToldIsClaimed' /\ ToldRightly'
  BY DEF RoutingInvariant, ToldIsClaimed, ToldRightly
<1>7. MissedIsPending'
  <2> SUFFICES ASSUME NEW q \in Actor, WholeRound(q)'
               PROVE  /\ round'[q].missed \subseteq Accounts(List(q)', round'[q].todo)
                           \cup round'[q].active \cup round'[q].failed
                      /\ round'[q].error = "none" => round'[q].failed = {}
    BY DEF MissedIsPending, Accounts
  <2>1. CASE q = r
    BY <1>1, <2>1 DEF WholeRound
  <2>2. CASE q # r
    BY <1>1, <2>2 DEF RoutingInvariant, MissedIsPending, WholeRound, Telling
  <2>3. QED
    BY <2>1, <2>2
<1>8. QED
  BY <1>2, <1>3, <1>4, <1>5, <1>6, <1>7

LEMMA HandleKeeps ==
  ASSUME RoutingInvariant, NEW h \in Handler, Handle(h)
  PROVE  RoutingInvariant'
<1> DEFINE targets == Deliverable(event.tagged, Tagged)
           list == event.tagged
           s == [Resting EXCEPT !.step = "telling", !.todo = targets,
                                !.type = TypeOf[event.kind],
                                !.missed = Accounts(list, targets)]
<1>1. /\ round[h] = Resting /\ round' = [round EXCEPT ![h] = s]
      /\ UNCHANGED <<event, claimed, jobs, stopping, received, settled>>
      /\ event.kind # "other" /\ result' = [result EXCEPT ![h] = Pending]
  BY DEF Handle
<1>2. h \in Actor /\ h \notin Worker /\ list \in Seq(Account) /\ event.kind \in Kind
  BY ListTyped, RoutingAssumption DEF Actor, RoutingInvariant
<1>3. targets \in SUBSET (DOMAIN list)
  BY DEF Deliverable, Tagged, Distinct
<1>4. \A i \in DOMAIN list : i \in Nat /\ list[i] \in Account /\ list[i] \in ToSet(list)
  BY <1>2 DEF ToSet
<1>5. \A i \in targets : Addressed(h, list[i])
  BY <1>2, <1>3, <1>4 DEF Deliverable, Addressed
<1>6. TypeOf[event.kind] \in {"like", "comment", "repost", "mention"}
  BY <1>1, <1>2 DEF Kind, TypeOf
<1> DEFINE missed == Accounts(list, targets)
<1>7. missed \in SUBSET Account
  BY <1>3, <1>4 DEF Accounts
<1>8. list = List(h)'
  BY <1>1 DEF List
<1> HIDE DEF targets, list, missed
<1>9. /\ s \in Round /\ s.step = "telling" /\ s.todo = targets /\ s.active = {}
      /\ s.error = "none" /\ s.missed = missed /\ s.failed = {} /\ s.copy = "none"
      /\ s.type = TypeOf[event.kind]
  BY <1>3, <1>4, <1>6, <1>7, FirstPageTyped
     DEF Resting, Round, Copy, PushType, Error, missed
<1> HIDE DEF s
<1>10. Apt(h, s.type, s.copy)
  BY <1>2, <1>6, <1>9 DEF Apt, PushType
<1>11. (Rests /\ TargetsAreAddressed /\ RoundsAreApt /\ TellingIsClaimed /\ ToldIsClaimed
        /\ MissedIsPending /\ ToldRightly)'
  BY <1>1, <1>2, <1>3, <1>5, <1>8, <1>9, <1>10, BeginsRight DEF missed
<1>12. /\ round' \in [Actor -> Round] /\ round'[h] = s
       /\ \A q \in Actor : q # h => round'[q] = round[q]
  BY <1>1, <1>2, <1>9, NewRound DEF RoutingInvariant
<1>13. Pending \in [outcome : Outcome, missed : SUBSET Account] /\ Pending.outcome = "pending"
  BY DEF Pending, Outcome
<1>14. RoutingTypeOK'
  BY <1>1, <1>12, <1>13 DEF RoutingInvariant, RoutingTypeOK, jobs, Actor
<1>15. RoundRemembers'
  BY <1>1, <1>2, <1>12, OthersRemember
<1>16. NobodyPassedOver'
  BY <1>1, <1>13, QueueKept DEF RoutingInvariant, RoutingTypeOK, NobodyPassedOver, jobs
<1>17. QED
  BY <1>11, <1>14, <1>15, <1>16 DEF RoutingInvariant

LEMMA TakePageKeeps ==
  ASSUME RoutingInvariant, NEW w \in Worker, TakePage(w)
  PROVE  RoutingInvariant'
<1>1. PICK j \in queue, error \in {"none", "unread"} :
        round' = [round EXCEPT ![w] =
          [Resting EXCEPT !.step = "telling", !.job = j, !.type = "bell", !.copy = j.copy,
                          !.todo = IF error = "none" THEN PageTargets(Pages[j.page]) ELSE {},
                          !.missed = Watchers(j.page), !.error = error]]
  BY DEF TakePage
<1> DEFINE list == Pages[j.page]
           targets == PageTargets(list)
           todo == IF error = "none" THEN targets ELSE {}
           missed == Watchers(j.page)
           s == [Resting EXCEPT !.step = "telling", !.job = j, !.type = "bell", !.copy = j.copy,
                                !.todo = todo, !.missed = missed, !.error = error]
<1>2. /\ round[w] = Resting /\ round' = [round EXCEPT ![w] = s]
      /\ UNCHANGED <<event, claimed, jobs, stopping, outcomes>>
  BY <1>1 DEF TakePage
<1>3. j \in Job /\ j.copy \in {"none", "name", "short"}
  BY DEF RoutingInvariant, RoutingTypeOK, Job
<1>4. w \in Actor /\ w \notin Handler /\ list \in Seq(Account) /\ event.tagged \in Seq(Account)
  BY <1>3, ListTyped, RoutingAssumption DEF Actor, RoutingInvariant
<1>5. targets \in SUBSET (DOMAIN list)
  BY DEF Deliverable, PageTargets
<1>6. \A i \in DOMAIN list : i \in Nat /\ list[i] \in Account
  BY <1>4
<1>7. \A i \in targets : Addressed(w, list[i])
  BY <1>4, <1>5, <1>6, ContainsIsIn DEF PageTargets, Deliverable, Addressed
<1>8. missed = Accounts(list, targets)
  BY DEF Watchers
<1> HIDE DEF targets, missed
<1>9. /\ missed \in SUBSET Account
      /\ todo \subseteq targets /\ todo \in SUBSET Nat
      /\ error = "none" => missed = Accounts(list, todo)
  BY <1>5, <1>6, <1>8 DEF Accounts
<1> HIDE DEF todo
<1>10. /\ s \in Round /\ s.step = "telling" /\ s.todo = todo /\ s.active = {}
       /\ s.error = error /\ s.missed = missed /\ s.failed = {} /\ s.copy = j.copy
       /\ s.type = "bell" /\ s.job = j
  BY <1>3, <1>9 DEF Resting, Round, Copy, PushType, Error
<1> HIDE DEF s
<1>11. /\ round' \in [Actor -> Round] /\ round'[w] = s
       /\ \A q \in Actor : q # w => round'[q] = round[q]
  BY <1>2, <1>4, <1>10, NewRound DEF RoutingInvariant
<1>12. list = List(w)'
  BY <1>4, <1>10, <1>11 DEF List
<1> HIDE DEF list
<1>13. Apt(w, s.type, s.copy)
  BY <1>4, <1>10 DEF Apt, PushType, RendersContent
<1>14. (Rests /\ TargetsAreAddressed /\ RoundsAreApt /\ TellingIsClaimed /\ ToldIsClaimed
        /\ MissedIsPending /\ ToldRightly)'
  BY <1>2, <1>4, <1>5, <1>7, <1>9, <1>10, <1>12, <1>13, BeginsRight DEF outcomes
<1>15. RoutingTypeOK'
  BY <1>2, <1>11 DEF RoutingInvariant, RoutingTypeOK, jobs, outcomes, Actor
<1>16. RoundRemembers'
  BY <1>2, <1>4, <1>10, <1>11, OthersRemember DEF missed, outcomes
<1>17. NobodyPassedOver'
  BY <1>2, QueueKept DEF RoutingInvariant, NobodyPassedOver, jobs, outcomes
<1>18. QED
  BY <1>14, <1>15, <1>16, <1>17 DEF RoutingInvariant

\* When a round ends, everything else goes on.
LEMMA EndsRight ==
  ASSUME RoutingInvariant, NEW r \in Actor, round' = [round EXCEPT ![r] = Resting],
         UNCHANGED <<event, claimed, received>>
  PROVE  /\ (Rests /\ TargetsAreAddressed /\ RoundsAreApt /\ TellingIsClaimed /\ ToldIsClaimed
             /\ MissedIsPending /\ ToldRightly)'
         /\ round' \in [Actor -> Round]
         /\ \A q \in Actor : q # r => round'[q] = round[q]
         /\ ~Telling(r)'
<1>1. /\ round' \in [Actor -> Round] /\ round'[r] = Resting
      /\ \A q \in Actor : q # r => round'[q] = round[q] /\ List(q)' = List(q)
      /\ ~Telling(r)'
  BY NewRound, RestingTyped, SameList DEF RoutingInvariant, Telling
<1>2. Rests'
  BY <1>1 DEF RoutingInvariant, Rests, Telling
<1>3. TargetsAreAddressed'
  <2> SUFFICES ASSUME NEW q \in Actor, Telling(q)'
               PROVE  /\ round'[q].todo \subseteq DOMAIN List(q)'
                      /\ \A a \in Accounts(List(q)', round'[q].todo) \cup round'[q].active :
                           Addressed(q, a)
    BY DEF TargetsAreAddressed, Accounts, Addressed
  <2>1. q # r
    BY <1>1
  <2>2. QED
    BY <1>1, <2>1 DEF RoutingInvariant, TargetsAreAddressed, Telling
<1>4. RoundsAreApt'
  BY <1>1 DEF RoutingInvariant, RoundsAreApt, Apt, Telling
<1>5. TellingIsClaimed'
  BY <1>1, RestingTyped DEF RoutingInvariant, TellingIsClaimed
<1>6. ToldIsClaimed' /\ ToldRightly'
  BY DEF RoutingInvariant, ToldIsClaimed, ToldRightly
<1>7. MissedIsPending'
  <2> SUFFICES ASSUME NEW q \in Actor, WholeRound(q)'
               PROVE  /\ round'[q].missed \subseteq Accounts(List(q)', round'[q].todo)
                           \cup round'[q].active \cup round'[q].failed
                      /\ round'[q].error = "none" => round'[q].failed = {}
    BY DEF MissedIsPending, Accounts
  <2>1. q # r
    BY <1>1 DEF WholeRound
  <2>2. QED
    BY <1>1, <2>1 DEF RoutingInvariant, MissedIsPending, WholeRound, Telling
<1>8. QED
  BY <1>1, <1>2, <1>3, <1>4, <1>5, <1>6, <1>7

\* A round that comes to its end and was not cut off has missed only what failed.
LEMMA FinishedMisses ==
  ASSUME RoutingInvariant, NEW r \in Actor, WholeRound(r), Finished(r)
  PROVE  /\ round[r].missed \subseteq round[r].failed
         /\ round[r].error = "none" => round[r].missed = {}
BY DEF RoutingInvariant, MissedIsPending, Finished, Accounts

LEMMA ResultOfHandling ==
  ASSUME RoutingInvariant, NEW h \in Handler, NEW outcome \in Outcome, Report(h, outcome)
  PROVE  /\ result' \in [Handler -> [outcome : Outcome, missed : SUBSET Account]]
         /\ result'[h].outcome = outcome
         /\ result'[h].missed = round[h].missed \ round[h].failed
         /\ \A g \in Handler : g # h => result'[g] = result[g]
<1> DEFINE x == [outcome |-> outcome, missed |-> round[h].missed \ round[h].failed]
<1>1. round[h].missed \in SUBSET Account
  BY RoundFields DEF RoutingInvariant, RoutingTypeOK
<1>2. x \in [outcome : Outcome, missed : SUBSET Account]
  BY <1>1
<1>3. result' = [result EXCEPT ![h] = x]
  BY DEF Report
<1>4. x.outcome = outcome /\ x.missed = round[h].missed \ round[h].failed
  OBVIOUS
<1> HIDE DEF x
<1>5. QED
  BY <1>2, <1>3, <1>4 DEF RoutingInvariant, RoutingTypeOK

\* However a handling ends: the job is there, and nobody was passed over.
LEMMA ReportKeeps ==
  ASSUME RoutingInvariant, NEW h \in Handler, NEW outcome \in Outcome, Report(h, outcome),
         Telling(h), Finished(h), outcome \in {round[h].error, "unqueued"},
         event.kind = "video" => outcome = "unqueued" \/ enqueued',
         enqueued => enqueued', enqueued' \in BOOLEAN, queue' \in SUBSET Job,
         UNCHANGED <<event, claimed, stopping, received, settled>>,
         enqueued => queue' = queue,
         enqueued' /\ ~enqueued => \E j \in queue' : j.page = 1
  PROVE  RoutingInvariant'
<1>1. h \in Actor /\ h \notin Worker /\ round' = [round EXCEPT ![h] = Resting]
  BY RoutingAssumption DEF Report, Actor
<1>2. /\ (Rests /\ TargetsAreAddressed /\ RoundsAreApt /\ TellingIsClaimed /\ ToldIsClaimed
          /\ MissedIsPending /\ ToldRightly)'
      /\ round' \in [Actor -> Round]
      /\ \A q \in Actor : q # h => round'[q] = round[q]
  BY <1>1, EndsRight
<1>3. /\ result' \in [Handler -> [outcome : Outcome, missed : SUBSET Account]]
      /\ result'[h].outcome = outcome
      /\ result'[h].missed = round[h].missed \ round[h].failed
      /\ \A g \in Handler : g # h => result'[g] = result[g]
  BY ResultOfHandling
<1>4. RoutingTypeOK'
  BY <1>2, <1>3 DEF RoutingInvariant, RoutingTypeOK, Actor
<1>5. outcome \in {"none", "failed"} => result'[h].missed = {}
  BY <1>1, <1>3, FinishedMisses DEF WholeRound
<1>6. RoundRemembers'
  BY <1>1, <1>2, OthersRemember
<1>7. (enqueued => \A p \in DOMAIN Pages : \A a \in Watchers(p) \ settled :
                     \E j \in queue : j.page <= p)'
  <2>1. CASE enqueued
    BY <2>1, QueueKept DEF jobs
  <2>2. CASE ~enqueued
    <3>1. \A p \in DOMAIN Pages : 1 <= p
      BY RoutingAssumption
    <3>2. QED
      BY <2>2, <3>1
  <2>3. QED
    BY <2>1, <2>2
<1>8. NobodyPassedOver'
  BY <1>3, <1>5, <1>7 DEF RoutingInvariant, NobodyPassedOver
<1>9. QED
  BY <1>2, <1>4, <1>6, <1>8 DEF RoutingInvariant

LEMMA HandlingEnds ==
  ASSUME RoutingInvariant, NEW h \in Handler, EndHandling(h) \/ Queue(h) \/ QueueFails(h)
  PROVE  RoutingInvariant'
<1>1. /\ Telling(h) /\ Finished(h)
      /\ round[h] \in Round /\ round[h].error \in Outcome /\ round[h].copy \in Copy
  BY RoundFields
     DEF RoutingInvariant, RoutingTypeOK, EndHandling, Queue, QueueFails, Telling, Outcome, Error
<1>2. enqueued \in BOOLEAN /\ queue \in SUBSET Job
  BY DEF RoutingInvariant, RoutingTypeOK
<1>3. CASE EndHandling(h)
  <2>1. /\ Report(h, round[h].error) /\ event.kind # "video"
        /\ UNCHANGED <<event, claimed, enqueued, queue, stopping, received, settled>>
    BY <1>3 DEF EndHandling, jobs
  <2>2. QED
    BY <1>1, <1>2, <2>1, ReportKeeps
<1>4. CASE Queue(h)
  <2> DEFINE new == [FirstJob EXCEPT !.copy = NameOf(round[h].copy)]
  <2>1. /\ Report(h, round[h].error)
        /\ enqueued' = TRUE
        /\ queue' = IF enqueued THEN queue ELSE queue \cup {new}
        /\ UNCHANGED <<event, claimed, stopping, received, settled>>
    BY <1>4 DEF Queue
  <2>2. new \in Job
    <3>1. NameOf(round[h].copy) \in {"none", "name", "short"}
      BY DEF NameOf
    <3>2. QED
      BY <3>1, FirstPageTyped
  <2>3. new.page = 1
    BY DEF FirstJob
  <2> HIDE DEF new
  <2>4. queue' \in SUBSET Job /\ (~enqueued => new \in queue')
    BY <1>2, <2>1, <2>2
  <2>5. QED
    BY <1>1, <2>1, <2>3, <2>4, ReportKeeps
<1>5. CASE QueueFails(h)
  <2>1. /\ Report(h, "unqueued") /\ "unqueued" \in Outcome
        /\ UNCHANGED <<event, claimed, enqueued, queue, stopping, received, settled>>
    BY <1>5 DEF QueueFails, Outcome, jobs
  <2>2. QED
    BY <1>1, <1>2, <2>1, ReportKeeps
<1>6. QED
  BY <1>3, <1>4, <1>5

\* What a page's end inserts is a page of the event, with an attempt to go: the
\* page itself to retry, or the next if there is one.
LEMMA ReplacementTyped ==
  ASSUME RoutingInvariant, NEW w \in Worker
  PROVE  /\ Replacement(w) \subseteq Job /\ round[w].job \in Job
         /\ round[w].job \notin Replacement(w)
         /\ Retries(w) /\ ~Exhausted(w) =>
              \E j \in Replacement(w) : j.page = round[w].job.page
         /\ ~(Retries(w) /\ ~Exhausted(w)) /\ round[w].error # "unread"
              /\ round[w].job.page + 1 \in DOMAIN Pages =>
              \E j \in Replacement(w) : j.page = round[w].job.page + 1
<1>1. /\ round[w] \in Round /\ round[w].job \in Job
      /\ round[w].job.page \in DOMAIN Pages
      /\ round[w].job.attempt \in 0..(MaxAttempts - 1)
  BY DEF RoutingInvariant, RoutingTypeOK, Round, Job
<1>2. CASE Retries(w) /\ ~Exhausted(w)
  <2> DEFINE next == [round[w].job EXCEPT !.attempt = @ + 1]
  <2>1. Replacement(w) = {next}
    BY <1>2 DEF Replacement
  <2>2. round[w].job.attempt + 1 \in 0..(MaxAttempts - 1)
    BY <1>1, <1>2, RoutingAssumption DEF Exhausted
  <2>3. /\ next \in Job /\ next.page = round[w].job.page
        /\ next.attempt # round[w].job.attempt
    BY <1>1, <2>2 DEF Job
  <2> HIDE DEF next
  <2>4. QED
    BY <1>1, <1>2, <2>1, <2>3
<1>3. CASE ~(Retries(w) /\ ~Exhausted(w))
  <2>1. NameOf(round[w].copy) \in {"none", "name", "short"}
    BY DEF NameOf
  <2>2. Replacement(w) = Successor(w)
    BY <1>3 DEF Replacement
  <2>3. Successor(w) \subseteq Job
    BY <2>1, FirstPageTyped DEF Successor, Job
  <2>4. \A j \in Successor(w) : j.page = round[w].job.page + 1
    BY DEF Successor
  <2>5. round[w].error # "unread" /\ round[w].job.page + 1 \in DOMAIN Pages =>
          Successor(w) # {}
    BY DEF Successor
  <2>6. round[w].job.page \in Nat
    BY <1>1, RoutingAssumption
  <2>7. QED
    BY <1>1, <1>3, <2>2, <2>3, <2>4, <2>5, <2>6
<1>4. QED
  BY <1>2, <1>3

LEMMA WatchersTyped ==
  ASSUME NEW p \in DOMAIN Pages
  PROVE  Watchers(p) \subseteq Account
<1>1. Pages[p] \in Seq(Account)
  BY RoutingAssumption
<1>2. QED
  BY <1>1 DEF Watchers, Accounts, PageTargets, Deliverable

LEMMA GivenUpTyped ==
  ASSUME RoutingInvariant, NEW w \in Worker
  PROVE  GivenUp(w) \subseteq Account
<1>1. round[w].job.page \in DOMAIN Pages /\ round[w].missed \in SUBSET Account
  BY DEF RoutingInvariant, RoutingTypeOK, Round, Job
<1>2. round[w].job.page..Len(Pages) \subseteq DOMAIN Pages
  BY <1>1, RoutingAssumption
<1>3. UNION {Watchers(p) : p \in round[w].job.page..Len(Pages)} \subseteq Account
  BY <1>2, WatchersTyped
<1>4. QED
  BY <1>1, <1>3 DEF GivenUp

\* Where there was a job before a page's end, there is one for all not settled by it.
LEMMA EndPageLeavesJobs ==
  ASSUME RoutingInvariant, NEW w \in Worker, EndPage(w), enqueued,
         NEW p \in DOMAIN Pages, NEW a \in Watchers(p) \ settled'
  PROVE  \E j \in queue' : j.page <= p
<1> DEFINE page == round[w].job.page
<1>1. /\ Telling(w) /\ Finished(w)
      /\ round[w].error \in {"none", "failed", "unread"}
      /\ queue' = (queue \cup Replacement(w)) \ {round[w].job}
      /\ settled' = settled \cup GivenUp(w)
  BY RoundFields DEF EndPage, Telling, RoutingInvariant, RoutingTypeOK, Error
<1>2. w \in Actor /\ w \notin Handler
  BY RoutingAssumption DEF Actor
<1>3. PICK j \in queue : j.page <= p
  BY <1>1, <1>2 DEF RoutingInvariant, NobodyPassedOver
<1>4. /\ page \in DOMAIN Pages /\ page \in Nat /\ p \in Nat
      /\ \A n \in Nat : page < n /\ n \in DOMAIN Pages => page + 1 \in DOMAIN Pages
  BY ReplacementTyped, RoutingAssumption DEF Job
<1>5. CASE j # round[w].job
  BY <1>1, <1>3, <1>5
<1>6. CASE j = round[w].job
  <2>1. page <= p
    BY <1>3, <1>6
  <2>2. CASE Retries(w) /\ ~Exhausted(w)
    BY <1>1, <2>1, <2>2, ReplacementTyped
  <2>3. CASE ~(Retries(w) /\ ~Exhausted(w))
    <3>1. CASE round[w].error = "unread"
      <4>1. GivenUp(w) = UNION {Watchers(n) : n \in page..Len(Pages)}
        BY <2>3, <3>1 DEF GivenUp, Retries
      <4>2. p \in page..Len(Pages)
        BY <1>4, <2>1
      <4>3. QED
        BY <1>1, <4>1, <4>2
    <3>2. CASE round[w].error # "unread"
      <4>1. round[w].missed \subseteq settled'
        <5>1. CASE Exhausted(w)
          BY <1>1, <3>2, <5>1 DEF GivenUp
        <5>2. CASE ~Exhausted(w)
          BY <1>1, <1>2, <2>3, <3>2, <5>2, FinishedMisses DEF WholeRound, Retries
        <5>3. QED
          BY <5>1, <5>2
      <4>2. page # p
        BY <1>1, <4>1 DEF RoutingInvariant, RoundRemembers
      <4>3. page < p
        BY <1>4, <2>1, <4>2
      <4>4. page + 1 \in DOMAIN Pages /\ page + 1 <= p
        BY <1>4, <4>3
      <4>5. PICK k \in Replacement(w) : k.page = page + 1
        BY <2>3, <3>2, <4>4, ReplacementTyped
      <4>6. k \in queue'
        BY <1>1, <4>5, ReplacementTyped
      <4>7. QED
        BY <4>4, <4>5, <4>6
    <3>3. QED
      BY <3>1, <3>2
  <2>4. QED
    BY <2>2, <2>3
<1>7. QED
  BY <1>5, <1>6

LEMMA EndPageKeeps ==
  ASSUME RoutingInvariant, NEW w \in Worker, EndPage(w)
  PROVE  RoutingInvariant'
<1>1. /\ round' = [round EXCEPT ![w] = Resting]
      /\ queue' = (queue \cup Replacement(w)) \ {round[w].job}
      /\ UNCHANGED <<event, claimed, enqueued, stopping, result, received>>
  BY DEF EndPage
<1>2. w \in Actor
  BY DEF Actor
<1>3. /\ (Rests /\ TargetsAreAddressed /\ RoundsAreApt /\ TellingIsClaimed /\ ToldIsClaimed
          /\ MissedIsPending /\ ToldRightly)'
      /\ round' \in [Actor -> Round]
      /\ \A q \in Actor : q # w => round'[q] = round[q]
      /\ ~Telling(w)'
  BY <1>1, <1>2, EndsRight
<1>4. settled \subseteq settled' /\ settled' \in SUBSET Account
  BY <1>2, GivenUpTyped DEF EndPage, RoutingInvariant, RoutingTypeOK
<1>5. queue' \in SUBSET Job
  BY <1>1, ReplacementTyped DEF RoutingInvariant, RoutingTypeOK
<1>6. RoutingTypeOK'
  BY <1>1, <1>3, <1>4, <1>5 DEF RoutingInvariant, RoutingTypeOK, Actor
<1>7. RoundRemembers'
  BY <1>1, <1>2, <1>3, <1>4, OthersRemember
<1>8. NobodyPassedOver'
  <2>1. \A p : Watchers(p)' = Watchers(p)
    BY <1>1, SameWatchers
  <2>2. (enqueued => \A p \in DOMAIN Pages : \A a \in Watchers(p) \ settled :
                       \E j \in queue : j.page <= p)'
    BY <1>1, <2>1, EndPageLeavesJobs
  <2>3. QED
    BY <1>1, <2>2 DEF RoutingInvariant, NobodyPassedOver
<1>9. QED
  BY <1>3, <1>6, <1>7, <1>8 DEF RoutingInvariant

LEMMA PreservePageKeeps ==
  ASSUME RoutingInvariant, NEW w \in Worker, PreservePage(w)
  PROVE  RoutingInvariant'
<1>1. /\ round' = [round EXCEPT ![w] = Resting]
      /\ UNCHANGED <<event, claimed, jobs, stopping, outcomes>>
  BY DEF PreservePage
<1>2. /\ (Rests /\ TargetsAreAddressed /\ RoundsAreApt /\ TellingIsClaimed /\ ToldIsClaimed
          /\ MissedIsPending /\ ToldRightly)'
      /\ round' \in [Actor -> Round]
      /\ \A q \in Actor : q # w => round'[q] = round[q]
      /\ ~Telling(w)'
  BY <1>1, EndsRight DEF Actor, outcomes
<1>3. RoutingTypeOK'
  BY <1>1, <1>2 DEF RoutingInvariant, RoutingTypeOK, jobs, outcomes, Actor
<1>4. RoundRemembers'
  BY <1>1, <1>2, OthersRemember DEF Actor, outcomes
<1>5. NobodyPassedOver'
  BY <1>1, QueueKept DEF RoutingInvariant, NobodyPassedOver, jobs, outcomes
<1>6. QED
  BY <1>2, <1>3, <1>4, <1>5 DEF RoutingInvariant

-----------------------------------------------------------------------------
(* The theorems                                                            *)

LEMMA RoutingStarts == RoutingInit => RoutingInvariant
<1> SUFFICES ASSUME RoutingInit PROVE RoutingInvariant
  OBVIOUS
<1>1. \A r \in Actor : round[r] = Resting
  BY DEF RoutingInit, Actor
<1>2. \A r \in Actor : ~Telling(r) /\ round[r].active = {}
  BY <1>1, RestingTyped DEF Telling
<1>3. RoutingTypeOK
  <2>1. round \in [Actor -> Round]
    BY RestingTyped DEF RoutingInit, Actor
  <2>2. result \in [Handler -> [outcome : Outcome, missed : SUBSET Account]]
    BY DEF RoutingInit, Pending, Outcome
  <2>3. received \in [Account -> Seq([type : PushType, copy : Copy])]
    BY DEF RoutingInit
  <2>4. QED
    BY <2>1, <2>2, <2>3 DEF RoutingInit, RoutingTypeOK, Actor
<1>4. Rests /\ TargetsAreAddressed /\ RoundsAreApt /\ TellingIsClaimed /\ MissedIsPending
  BY <1>1, <1>2
     DEF Rests, TargetsAreAddressed, RoundsAreApt, TellingIsClaimed, MissedIsPending, WholeRound
<1>5. RoundRemembers
  BY <1>2 DEF RoundRemembers, Actor
<1>6. ToldIsClaimed /\ ToldRightly
  BY DEF RoutingInit, ToldIsClaimed, ToldRightly
<1>7. NobodyPassedOver
  BY DEF RoutingInit, NobodyPassedOver, Pending
<1>8. QED
  BY <1>3, <1>4, <1>5, <1>6, <1>7 DEF RoutingInvariant

\* A process that stops or restarts changes nothing of the rounds.
LEMMA RoundsStand ==
  ASSUME RoutingInvariant, UNCHANGED <<event, round, claimed, jobs, outcomes>>,
         stopping' \in SUBSET Actor
  PROVE  RoutingInvariant'
<1>1. /\ \A r \in Actor : Telling(r)' <=> Telling(r)
      /\ \A r \in Actor : WholeRound(r)' <=> WholeRound(r)
      /\ \A r \in Actor : List(r)' = List(r)
  BY DEF Telling, List, WholeRound
<1>2. RoutingTypeOK'
  BY DEF RoutingInvariant, RoutingTypeOK, Actor, jobs, outcomes
<1>3. (Rests /\ RoundsAreApt)'
  BY <1>1 DEF RoutingInvariant, Rests, RoundsAreApt, Apt, Actor
<1>4. TargetsAreAddressed'
  <2> SUFFICES ASSUME NEW q \in Actor, Telling(q)
               PROVE  /\ round[q].todo \subseteq DOMAIN List(q)
                      /\ \A a \in Accounts(List(q), round[q].todo) \cup round[q].active :
                           Addressed(q, a)
    BY <1>1, SameList DEF TargetsAreAddressed, Accounts
  <2>1. QED
    BY DEF RoutingInvariant, TargetsAreAddressed
<1>5. (TellingIsClaimed /\ ToldIsClaimed /\ ToldRightly)'
  BY DEF RoutingInvariant, TellingIsClaimed, ToldIsClaimed, ToldRightly, outcomes
<1>6. MissedIsPending'
  <2> SUFFICES ASSUME NEW q \in Actor, WholeRound(q)
               PROVE  /\ round[q].missed \subseteq Accounts(List(q), round[q].todo)
                           \cup round[q].active \cup round[q].failed
                      /\ round[q].error = "none" => round[q].failed = {}
    BY <1>1 DEF MissedIsPending, Accounts
  <2>1. QED
    BY DEF RoutingInvariant, MissedIsPending
<1>7. RoundRemembers'
  BY <1>1, SameWatchers DEF RoutingInvariant, RoundRemembers, Actor, outcomes
<1>8. NobodyPassedOver'
  BY QueueKept DEF RoutingInvariant, NobodyPassedOver, jobs, outcomes
<1>9. QED
  BY <1>2, <1>3, <1>4, <1>5, <1>6, <1>7, <1>8 DEF RoutingInvariant

LEMMA RoundStepKeeps ==
  ASSUME RoutingInvariant, NEW r \in Actor, RoundStep(r)
  PROVE  RoutingInvariant'
<1>1. CASE Stop(r) \/ Restart(r)
  <2>1. /\ UNCHANGED <<event, round, claimed, jobs, outcomes>>
        /\ stopping' \in SUBSET Actor
    BY <1>1 DEF Stop, Restart, RoutingInvariant, RoutingTypeOK, Actor
  <2>2. QED
    BY <2>1, RoundsStand
<1>2. CASE ~(Stop(r) \/ Restart(r))
  <2>1. RoundMoves(r)
    BY <1>2, SkipMoves, StartMoves, FailToStartMoves, ResolveMoves, SettleMoves, FailMoves,
       CancelMoves, StopEarlyMoves DEF RoundStep
  <2>2. QED
    BY <2>1, RoundMovesKeep
<1>3. QED
  BY <1>1, <1>2

LEMMA RoutingNextKeeps == RoutingInvariant /\ [RoutingNext]_routingVars => RoutingInvariant'
<1> SUFFICES ASSUME RoutingInvariant, [RoutingNext]_routingVars
             PROVE  RoutingInvariant'
  OBVIOUS
<1>1. CASE UNCHANGED routingVars
  <2>1. stopping' \in SUBSET Actor
    BY <1>1 DEF routingVars, RoutingInvariant, RoutingTypeOK, Actor
  <2>2. QED
    BY <1>1, <2>1, RoundsStand DEF routingVars
<1>2. CASE \E r \in Handler \cup Worker : RoundStep(r)
  BY <1>2, RoundStepKeeps DEF Actor
<1>3. CASE \E h \in Handler : HandlerStep(h)
  BY <1>3, HandleKeeps, HandlingEnds DEF HandlerStep
<1>4. CASE \E w \in Worker : WorkerStep(w)
  BY <1>4, TakePageKeeps, EndPageKeeps, PreservePageKeeps DEF WorkerStep
<1>5. QED
  BY <1>1, <1>2, <1>3, <1>4 DEF RoutingNext

\* Rounds, claims, results and jobs keep their types, whatever the pages, the tags
\* and the concurrency: however many workers insert into the queue at a time, no
\* job is beyond the last page or its last attempt (event_handler.rs:1017-1037,
\* 1052-1091).
THEOREM RoutingTypeCorrect == RoutingSpec => []RoutingTypeOK
<1>1. RoutingInvariant => RoutingTypeOK
  BY DEF RoutingInvariant
<1>2. QED
  BY <1>1, RoutingStarts, RoutingNextKeeps, PTL DEF RoutingSpec

\* Handlings that repeat, fail and are cut off, and any number of workers at one
\* page that outlived its lease, or was inserted again by a stale worker, tell an
\* account of an event at most once, never its author, a mentioned watcher of the
\* mention and not by a bell, and never with a copy resolved for another type
\* (redis_store.rs:727-735, event_handler.rs:1223-1233, 1400-1406, 1877-1897).
THEOREM EverybodyIsToldRightly == RoutingSpec => []ToldRightly
<1>1. RoutingInvariant => ToldRightly
  BY DEF RoutingInvariant
<1>2. QED
  BY <1>1, RoutingStarts, RoutingNextKeeps, PTL DEF RoutingSpec

\* However many accounts an event tags and however many watch its author, the
\* failure of one is nobody else's: no handling that runs to its end leaves out
\* another, the job is queued all the same, and whatever any number of workers
\* make of it, until every watcher of a page is done with or given up there is a job
\* in the queue that comes to that page (event_handler.rs:659-694, 785-829, 983-1037;
\* redis_store.rs:727-735).
THEOREM FailuresAreTheirOwn == RoutingSpec => []NobodyPassedOver
<1>1. RoutingInvariant => NobodyPassedOver
  BY DEF RoutingInvariant
<1>2. QED
  BY <1>1, RoutingStarts, RoutingNextKeeps, PTL DEF RoutingSpec

-----------------------------------------------------------------------------
(* Whom the lists name                                                     *)

\* A set of positions has a first one.
LEMMA FirstPosition ==
  ASSUME NEW S \in SUBSET Nat, S # {}
  PROVE  \E i \in S : \A j \in S : i <= j
<1>1. PICK i \in S : \A j \in S : ~(<<j, i>> \in OpToRel(<, Nat))
  BY NatLessThanWellFounded, WFMin
<1>2. \A j \in S : ~(j < i)
  BY <1>1 DEF OpToRel
<1>3. QED
  BY <1>2

\* Leaving out an account's later mentions leaves out no account.
LEMMA DistinctNamesAll ==
  ASSUME NEW list \in Seq(Account)
  PROVE  /\ Accounts(list, Distinct(list)) = ToSet(list)
         /\ \A i, j \in Distinct(list) : list[i] = list[j] => i = j
<1>1. Distinct(list) \subseteq DOMAIN list /\ DOMAIN list \subseteq Nat
  BY DEF Distinct
<1>2. ASSUME NEW i \in DOMAIN list
      PROVE  \E j \in Distinct(list) : list[j] = list[i]
  <2> DEFINE Same == {j \in DOMAIN list : list[j] = list[i]}
  <2>1. Same \subseteq Nat /\ i \in Same
    BY <1>1
  <2> HIDE DEF Same
  <2>2. PICK j \in Same : \A k \in Same : j <= k
    BY <2>1, FirstPosition
  <2>3. j \in DOMAIN list /\ list[j] = list[i]
    BY <2>2 DEF Same
  <2>4. \A k \in 1..(j - 1) : list[k] # list[j]
    BY <2>2, <2>3 DEF Same
  <2>5. QED
    BY <2>3, <2>4 DEF Distinct
<1>3. Accounts(list, Distinct(list)) = ToSet(list)
  BY <1>1, <1>2 DEF Accounts, ToSet
<1>4. ASSUME NEW i \in Distinct(list), NEW j \in Distinct(list), list[i] = list[j]
      PROVE  i = j
  <2>1. ~(i < j) /\ ~(j < i)
    BY <1>1, <1>4 DEF Distinct
  <2>2. QED
    BY <1>1, <2>1
<1>5. QED
  BY <1>3, <1>4

\* Of any list of tags and any page: a handler's targets are the tagged accounts
\* without the author, each named once by a comment; a page's are its watchers
\* without the author and without the mentioned (event_handler.rs:1198-1206,
\* 1389-1422, 1607-1624).
THEOREM TargetsAreExact ==
  ASSUME event \in Events, NEW page \in ToSet(Pages)
  PROVE  /\ Accounts(event.tagged, Deliverable(event.tagged, Tagged))
              = ToSet(event.tagged) \ {event.author}
         /\ event.kind = "comment" =>
              \A i, j \in Tagged : event.tagged[i] = event.tagged[j] => i = j
         /\ Accounts(page, PageTargets(page))
              = ToSet(page) \ ({event.author} \cup ToSet(event.tagged))
<1>1. event.tagged \in Seq(Account)
  BY RoutingAssumption
<1>2. Accounts(event.tagged, Tagged) = ToSet(event.tagged)
  <2>1. CASE event.kind = "comment"
    BY <1>1, <2>1, DistinctNamesAll DEF Tagged
  <2>2. CASE event.kind # "comment"
    BY <1>1, <2>2 DEF Tagged, Accounts, ToSet
  <2>3. QED
    BY <2>1, <2>2
<1>3. Accounts(event.tagged, Deliverable(event.tagged, Tagged))
        = ToSet(event.tagged) \ {event.author}
  BY <1>2 DEF Accounts, Deliverable
<1>4. event.kind = "comment" =>
        \A i, j \in Tagged : event.tagged[i] = event.tagged[j] => i = j
  BY <1>1, DistinctNamesAll DEF Tagged
<1>5. \A i : Contains(event.tagged, page[i]) <=> page[i] \in ToSet(event.tagged)
  BY DEF Contains, ToSet
<1>6. Accounts(page, PageTargets(page))
        = ToSet(page) \ ({event.author} \cup ToSet(event.tagged))
  BY <1>5 DEF Accounts, PageTargets, Deliverable, ToSet
<1>7. QED
  BY <1>3, <1>4, <1>6
=============================================================================
