------------------------ MODULE CoalesceQueue_proofs ------------------------
(***************************************************************************)
(* Theorems about CoalesceQueue for every number of reactions and workers, *)
(* every lifetime and ration that the named assumption allows, and every   *)
(* setting that the service may be started with.                           *)
(***************************************************************************)
EXTENDS CoalesceQueue, FiniteSetTheorems, SequenceTheorems, TLAPS

-----------------------------------------------------------------------------
(* Buckets of time                                                         *)

LEMMA DivBounds ==
  ASSUME NEW n \in Nat, NEW k \in Nat \ {0}
  PROVE  /\ n \div k \in Nat
         /\ (n \div k) * k <= n
         /\ n < ((n \div k) + 1) * k
OBVIOUS

LEMMA DivMonotone ==
  ASSUME NEW n \in Nat, NEW m \in Nat, NEW k \in Nat \ {0}, n <= m
  PROVE  n \div k <= m \div k
<1> DEFINE p == n \div k
           q == m \div k
<1>1. /\ p \in Nat /\ q \in Nat
      /\ p * k <= n /\ m < (q + 1) * k
  BY DivBounds
<1>2. p * k < (q + 1) * k
  <2> HIDE DEF p, q
  <2>1. p * k \in Nat /\ (q + 1) * k \in Nat
    BY <1>1
  <2>2. QED
    BY <2>1, <1>1
<1>3. p < q + 1
  <2> HIDE DEF p, q
  <2> SUFFICES ASSUME p >= q + 1 PROVE FALSE
    BY <1>1
  <2>1. p * k >= (q + 1) * k
    BY <1>1
  <2> QED
    BY <2>1, <1>2, <1>1
<1> QED
  BY <1>1, <1>3

\* When a group's bucket is over.
DeadlineOf(g) == (g[2] + 1) * Window

LEMMA Lifetimes ==
  /\ Window \in Nat \ {0} /\ Lease \in Nat \ {0} /\ FlushTimeout \in Nat \ {0}
  /\ Retry \in Nat \ {0} /\ GroupTTL \in Nat \ {0} /\ Grace \in Nat \ {0}
  /\ MaxActions \in Nat \ {0} /\ Capacity \in Nat \ {0} /\ Refill \in Nat \ {0}
  /\ DailyWindow \in Nat \ {0} /\ MaxNow \in Nat \ {0} /\ MaxGeneration \in Nat
  /\ GroupTTL > Window + Lease
  /\ Lease > 2 * FlushTimeout
  /\ Deferral \subseteq Nat \ {0}
  /\ Full \in Nat \ {0}
<1>1. Capacity \in Nat \ {0} /\ Refill \in Nat \ {0}
  BY CoalesceAssumption
<1>2. Full \in Nat \ {0}
  BY <1>1 DEF Full
<1>3. QED
  BY <1>2, CoalesceAssumption

LEMMA SettingTyped ==
  ASSUME setting \in Setting
  PROVE  /\ ImmediateLimit \in Nat /\ MaxEventAge \in Nat /\ DailyCap \in Nat \ {0}
         /\ MaxEventAge <= DispositionTTL
         /\ DispositionTTL \in Nat \ {0}
         /\ DispositionTTL >= Window + Grace
         /\ Digest \in BOOLEAN
BY CoalesceAssumption, Lifetimes
  DEF ImmediateLimit, MaxEventAge, DailyCap, DispositionTTL, Digest

LEMMA CurrentGroupIs ==
  ASSUME TypeOK, NEW e \in Event
  PROVE  /\ CurrentGroup(e) \in Group
         /\ CurrentGroup(e)[2] = now \div Window
         /\ Digest => CurrentGroup(e)[1] = generation
         /\ Deadline = DeadlineOf(CurrentGroup(e))
         /\ Deadline \in Nat /\ now < Deadline /\ Deadline <= now + Window
<1>1. now \in Nat /\ MaxNow \in Nat /\ now <= MaxNow /\ generation \in Generation
  BY Lifetimes DEF TypeOK
<1>2. now \div Window \in Bucket
  BY <1>1, DivMonotone, DivBounds, Lifetimes DEF Bucket
<1>3. /\ now \div Window \in Nat
      /\ (now \div Window) * Window <= now
      /\ now < ((now \div Window) + 1) * Window
  BY <1>1, DivBounds, Lifetimes
<1>4. ((now \div Window) + 1) * Window = (now \div Window) * Window + Window
  BY <1>3, Lifetimes
<1>5. TargetOf[e] \in Target
  BY DEF Target
<1>6. CurrentGroup(e) \in Group
  BY <1>1, <1>2, <1>5 DEF CurrentGroup, Group
<1>7. QED
  BY <1>1, <1>3, <1>4, <1>6, Lifetimes DEF CurrentGroup, Deadline, DeadlineOf

LEMMA DeadlineTyped ==
  ASSUME NEW g \in Group
  PROVE  DeadlineOf(g) \in Nat \ {0}
<1>1. MaxNow \div Window \in Nat
  BY DivBounds, Lifetimes
<1>2. g[2] \in Nat
  BY <1>1 DEF Group, Bucket
<1>3. QED
  BY <1>2, Lifetimes DEF DeadlineOf

-----------------------------------------------------------------------------
(* Type correctness                                                        *)

LEMMA NoGroupTyped == NoGroup \in GroupState
BY Lifetimes DEF NoGroup, GroupState, Generation

LEMMA OpenedTyped ==
  ASSUME TypeOK, NEW g \in Group
  PROVE  Opened(g) \in GroupState
<1>1. Deadline \in Nat
  <2>1. now \in Nat
    BY DEF TypeOK
  <2> QED
    BY <2>1, DivBounds, Lifetimes DEF Deadline
<1>2. now \in Nat /\ generation \in Generation /\ group[g] \in GroupState
  BY DEF TypeOK
<1>3. now + GroupTTL \in Nat
  BY <1>2, Lifetimes
<1>4. [NoGroup EXCEPT !.generation = generation, !.due = Deadline, !.expires = now + GroupTTL]
        \in GroupState
  BY <1>1, <1>2, <1>3, NoGroupTyped DEF GroupState
<1>5. QED
  BY <1>2, <1>4 DEF Opened

LEMMA TokensTyped ==
  ASSUME TypeOK
  PROVE  Tokens \in 0..Full
BY Lifetimes DEF TypeOK, Tokens, Least

LEMMA WindowedTyped ==
  ASSUME TypeOK
  PROVE  Windowed \in [Emission -> Nat]
BY DEF TypeOK, Windowed, Unindexed

LEMMA ChargeTyped ==
  ASSUME TypeOK, NEW m \in Emission, Affordable, Charge(m)
  PROVE  /\ throttle' \in [tokens : 0..Full, at : 1..now]
         /\ emitted' \in [Emission -> Nat]
         /\ charged' \in [Emission -> Nat]
         /\ refunds' \subseteq [emission : Emission, charged : Nat, at : Nat]
<1>1. now \in Nat \ {0} /\ charged \in [Emission -> Nat]
  BY DEF TypeOK
<1>2. Tokens - Refill \in 0..Full
  BY TokensTyped, Lifetimes DEF Affordable
<1>3. QED
  BY <1>1, <1>2, WindowedTyped DEF Charge, TypeOK

LEMMA GiveBackTyped ==
  ASSUME TypeOK, NEW m \in Emission, GiveBack(m)
  PROVE  /\ throttle' \in [tokens : 0..Full, at : 1..now]
         /\ emitted' \in [Emission -> Nat]
         /\ charged' \in [Emission -> Nat]
         /\ refunds' \subseteq [emission : Emission, charged : Nat, at : Nat]
<1>1. now \in Nat \ {0} /\ charged \in [Emission -> Nat] /\ emitted \in [Emission -> Nat]
  BY DEF TypeOK
<1>2. Least(Full, Tokens + Refill) \in 0..Full
  BY TokensTyped, Lifetimes DEF Least
<1>3. charged[m] \in Nat
  BY <1>1
<1>4. refunds' \subseteq [emission : Emission, charged : Nat, at : Nat]
  BY <1>1, <1>3 DEF GiveBack, TypeOK
<1>5. throttle' \in [tokens : 0..Full, at : 1..now]
  BY <1>1, <1>2 DEF GiveBack
<1>6. QED
  BY <1>1, <1>4, <1>5 DEF GiveBack, Unindexed

LEMMA EmissionsTyped ==
  /\ \A e \in Event : <<"push", e>> \in Emission
  /\ \A g \in Group : <<"summary", g>> \in Emission
BY DEF Emission

LEMMA ReconciledTyped ==
  ASSUME TypeOK
  PROVE  /\ Reconciled.group \in [Group -> GroupState]
         /\ Reconciled.due \in [Group -> Nat]
         /\ Reconciled.leases \in [Group -> Nat]
BY NoGroupTyped DEF TypeOK, Reconciled, GroupState, Unindexed

LEMMA FlushTyped ==
  ASSUME TypeOK, NEW w \in Worker, worker[w] # Idle
  PROVE  /\ worker[w] \in [step : {"claimed", "loaded", "charged", "sent", "rejected", "refunded", "failed"},
                           gid : Group, claimedAt : Nat, actions : SUBSET Action,
                           generation : Generation, expires : Nat]
         /\ worker[w].gid \in Group
BY DEF TypeOK, FlushState

LEMMA IndexTyped ==
  ASSUME TypeOK, NEW w \in Worker, NEW g \in Group, NEW delay \in Nat,
         Finished(w, g) \/ Requeued(w, g, delay)
  PROVE  /\ group' \in [Group -> GroupState]
         /\ due' \in [Group -> Nat]
         /\ leases' \in [Group -> Nat]
<1>1. now \in Nat /\ group \in [Group -> GroupState] /\ due \in [Group -> Nat]
      /\ leases \in [Group -> Nat]
  BY DEF TypeOK
<1>2. [group EXCEPT ![g].lease = Nobody] \in [Group -> GroupState]
  BY <1>1 DEF GroupState
<1>3. [group EXCEPT ![g] = NoGroup] \in [Group -> GroupState]
  BY <1>1, NoGroupTyped
<1>4. /\ [leases EXCEPT ![g] = Unindexed] \in [Group -> Nat]
      /\ [due EXCEPT ![g] = now + delay] \in [Group -> Nat]
  BY <1>1 DEF Unindexed
<1>5. QED
  BY <1>1, <1>2, <1>3, <1>4 DEF Finished, Requeued

LEMMA UntilFreeTyped ==
  ASSUME TypeOK, NEW m \in OldestInWindow
  PROVE  UntilFree(m) \in Nat \ {0}
BY Lifetimes DEF TypeOK, OldestInWindow, UntilFree, InWindow

\* What recording an event and pushing one do to a group.
LEMMA GroupRecorded ==
  ASSUME NEW r \in GroupState, NEW actions \in SUBSET Action, NEW pending \in Nat, NEW evicted \in Nat
  PROVE  [r EXCEPT !.actions = actions, !.pending = pending, !.evicted = evicted] \in GroupState
BY DEF GroupState

LEMMA GroupPushed ==
  ASSUME NEW r \in GroupState, NEW evicted \in Nat
  PROVE  [r EXCEPT !.immediate = @ + 1, !.evicted = evicted] \in GroupState
<1>1. r.immediate + 1 \in Nat
  BY DEF GroupState
<1>2. QED
  BY <1>1 DEF GroupState

LEMMA EventTypes ==
  ASSUME TypeOK, UNCHANGED setting, NEW e \in Event, EventStep(e)
  PROVE  TypeOK'
<1> USE EmissionsTyped
<1>1. /\ setting' \in Setting
      /\ now \in 1..MaxNow /\ now \in Nat
      /\ generation \in Generation
      /\ bound \in [Event -> Generation \cup {-1}]
      /\ disposition \in [Event -> [decision : {"none", "push", "buffer"}, expires : Nat]]
      /\ handler \in [Event -> {"none", "pushing", "done"}]
      /\ group \in [Group -> GroupState]
      /\ due \in [Group -> Nat]
      /\ joined \in [Event -> SUBSET Group]
  BY DEF TypeOK
<1>2. now + DispositionTTL \in Nat /\ now + (GroupTTL + Grace) \in Nat
      /\ now + GroupTTL + Grace \in Nat
  BY <1>1, SettingTyped, Lifetimes DEF TypeOK
<1>3. \A decision \in {"push", "buffer"} : Decide(e, decision) =>
        disposition' \in [Event -> [decision : {"none", "push", "buffer"}, expires : Nat]]
  BY <1>1, <1>2 DEF Decide
<1>4. \A g \in Group : Index(g) => due' \in [Group -> Nat]
  BY <1>1, CurrentGroupIs DEF Index
<1>5. /\ CurrentGroup(e) \in Group
      /\ ActionOf[e] \in Action
      /\ Opened(CurrentGroup(e)) \in GroupState
  BY CurrentGroupIs, OpenedTyped DEF Action
<1>6. CASE BindEvent(e)
  BY <1>1, <1>6 DEF BindEvent, TypeOK, coalesceVars, index, ration, sends
<1>7. CASE Ingest(e)
  <2> DEFINE g == CurrentGroup(e)
             old == Opened(g)
  <2>1. [old EXCEPT !.actions = IF Counted(g, ActionOf[e]) THEN @ \cup {ActionOf[e]} ELSE @,
                    !.pending = IF Counted(g, ActionOf[e]) THEN @ + 1 ELSE @,
                    !.evicted = now + GroupTTL + Grace] \in GroupState
    <3>1. old \in GroupState /\ ActionOf[e] \in Action
      BY <1>5
    <3>2. old.actions \cup {ActionOf[e]} \in SUBSET Action /\ old.actions \in SUBSET Action
          /\ old.pending + 1 \in Nat /\ old.pending \in Nat
      BY <3>1 DEF GroupState
    <3> HIDE DEF old, g
    <3> QED
      BY <1>2, <3>1, <3>2, GroupRecorded
  <2>2. group' \in [Group -> GroupState] /\ due' \in [Group -> Nat]
    BY <1>1, <1>4, <1>5, <1>7, <2>1 DEF Ingest
  <2>3. joined' \in [Event -> SUBSET Group]
    BY <1>1, <1>5, <1>7 DEF Ingest
  <2>4. disposition' \in [Event -> [decision : {"none", "push", "buffer"}, expires : Nat]]
    BY <1>3, <1>7 DEF Ingest
  <2>5. QED
    BY <1>1, <1>7, <2>2, <2>3, <2>4 DEF Ingest, TypeOK, ration, sends
<1>8. CASE PushAtOnce(e)
  <2> DEFINE g == CurrentGroup(e)
             old == Opened(g)
             evicted == now + (IF old.pending > 0 THEN GroupTTL + Grace ELSE DispositionTTL)
  <2>1. evicted \in Nat
    BY <1>2
  <2>2. [old EXCEPT !.immediate = @ + 1, !.evicted = evicted] \in GroupState
    <3>1. old \in GroupState
      BY <1>5
    <3> HIDE DEF old, g, evicted
    <3> QED
      BY <2>1, <3>1, GroupPushed
  <2>3. group' \in [Group -> GroupState]
    BY <1>1, <1>5, <1>8, <2>2 DEF PushAtOnce
  <2>4. handler' \in [Event -> {"none", "pushing", "done"}]
    BY <1>1, <1>8 DEF PushAtOnce
  <2>5. disposition' \in [Event -> [decision : {"none", "push", "buffer"}, expires : Nat]]
    BY <1>3, <1>8 DEF PushAtOnce
  <2>6. /\ throttle' \in [tokens : 0..Full, at : 1..now]
        /\ emitted' \in [Emission -> Nat]
        /\ charged' \in [Emission -> Nat]
        /\ refunds' \subseteq [emission : Emission, charged : Nat, at : Nat]
    BY <1>8, ChargeTyped DEF PushAtOnce
  <2>7. QED
    BY <1>1, <1>8, <2>3, <2>4, <2>5, <2>6 DEF PushAtOnce, TypeOK, sends
<1>9. CASE Buffer(e)
  <2> DEFINE g == CurrentGroup(e)
             old == Opened(g)
  <2>1. [old EXCEPT !.actions = @ \cup {ActionOf[e]}, !.pending = @ + 1,
                    !.evicted = now + GroupTTL + Grace] \in GroupState
    <3>1. old \in GroupState /\ ActionOf[e] \in Action
      BY <1>5
    <3>2. old.actions \cup {ActionOf[e]} \in SUBSET Action /\ old.actions \in SUBSET Action
          /\ old.pending + 1 \in Nat /\ old.pending \in Nat
      BY <3>1 DEF GroupState
    <3> HIDE DEF old, g
    <3> QED
      BY <1>2, <3>1, <3>2, GroupRecorded
  <2>2. group' \in [Group -> GroupState] /\ due' \in [Group -> Nat]
    BY <1>1, <1>4, <1>5, <1>9, <2>1 DEF Buffer
  <2>3. joined' \in [Event -> SUBSET Group]
    BY <1>1, <1>5, <1>9 DEF Buffer
  <2>4. disposition' \in [Event -> [decision : {"none", "push", "buffer"}, expires : Nat]]
    BY <1>3, <1>9 DEF Buffer
  <2>5. handler' \in [Event -> {"none", "pushing", "done"}]
    BY <1>1, <1>9 DEF Buffer
  <2>6. throttle' \in [tokens : 0..Full, at : 1..now] /\ emitted' \in [Emission -> Nat]
    <3>1. Weigh => throttle' \in [tokens : 0..Full, at : 1..now]
      BY <1>1, TokensTyped DEF Weigh
    <3>2. throttle \in [tokens : 0..Full, at : 1..now] /\ emitted \in [Emission -> Nat]
      BY DEF TypeOK
    <3>3. QED
      BY <1>9, <3>1, <3>2, WindowedTyped DEF Buffer
  <2>7. QED
    BY <1>1, <1>9, <2>2, <2>3, <2>4, <2>5, <2>6 DEF Buffer, TypeOK, sends
<1>10. CASE Replay(e)
  BY <1>1, <1>10 DEF Replay, TypeOK, index, ration, sends
<1>11. ASSUME NEW step \in {"none", "done"}, PushEnds(e, step),
              \/ UNCHANGED ration
              \/ GiveBack(<<"push", e>>),
              emissions' \in {emissions, emissions \cup {Emitted(<<"push", e>>)}}
       PROVE  TypeOK'
  <2>1. /\ throttle' \in [tokens : 0..Full, at : 1..now]
        /\ emitted' \in [Emission -> Nat]
        /\ charged' \in [Emission -> Nat]
        /\ refunds' \subseteq [emission : Emission, charged : Nat, at : Nat]
    BY <1>11, GiveBackTyped DEF TypeOK, ration
  <2>2. emissions' \subseteq [emission : Emission, charged : Nat]
    BY <1>11 DEF TypeOK, Emitted
  <2>3. handler' \in [Event -> {"none", "pushing", "done"}]
    BY <1>1, <1>11 DEF PushEnds
  <2>4. QED
    BY <1>1, <1>11, <2>1, <2>2, <2>3 DEF PushEnds, TypeOK, index
<1>12. CASE RefusePush(e)
  BY <1>11, <1>12 DEF RefusePush
<1>13. CASE FailPush(e)
  BY <1>11, <1>13 DEF FailPush
<1>14. CASE LandPush(e)
  BY <1>11, <1>14 DEF LandPush
<1>15. QED
  BY <1>6, <1>7, <1>8, <1>9, <1>10, <1>12, <1>13, <1>14 DEF EventStep

LEMMA RestTyped ==
  ASSUME TypeOK, NEW w \in Worker, Rest(w)
  PROVE  worker' \in [Worker -> FlushState]
BY DEF Rest, TypeOK, FlushState

\* A worker goes to another step of its flush.
LEMMA StepTyped ==
  ASSUME TypeOK, NEW w \in Worker, worker[w] # Idle,
         NEW step \in {"claimed", "loaded", "charged", "sent", "rejected", "refunded", "failed"},
         worker' = [worker EXCEPT ![w].step = step]
  PROVE  worker' \in [Worker -> FlushState]
BY FlushTyped DEF TypeOK, FlushState

LEMMA SubmittedTyped ==
  ASSUME TypeOK, NEW w \in Worker, worker[w] # Idle, Submitted(w)
  PROVE  submitted' \in [Group -> Seq(SUBSET Action)]
<1>1. submitted \in [Group -> Seq(SUBSET Action)]
  BY DEF TypeOK
<1>2. worker[w].gid \in Group /\ worker[w].actions \in SUBSET Action
  BY FlushTyped
<1>3. Append(submitted[worker[w].gid], worker[w].actions) \in Seq(SUBSET Action)
  BY <1>1, <1>2
<1>4. QED
  BY <1>1, <1>2, <1>3 DEF Submitted

LEMMA InterruptTyped ==
  ASSUME TypeOK, NEW w \in Worker, worker[w] # Idle,
         interrupts' = [interrupts EXCEPT ![worker[w].gid] = @ + 1]
  PROVE  interrupts' \in [Group -> Nat]
<1>1. interrupts \in [Group -> Nat] /\ worker[w].gid \in Group
  BY FlushTyped DEF TypeOK
<1>2. QED
  BY <1>1

LEMMA WorkerTypes ==
  ASSUME TypeOK, UNCHANGED setting, NEW w \in Worker,
         WorkerStep(w) \/ Crash(w) \/ Fail(w) \/ LoseReply(w)
  PROVE  TypeOK'
<1> USE EmissionsTyped
<1> DEFINE g == worker[w].gid
           r == Reconciled
<1>1. /\ setting' \in Setting
      /\ now \in 1..MaxNow /\ now \in Nat
      /\ generation \in Generation
      /\ group \in [Group -> GroupState]
      /\ due \in [Group -> Nat]
      /\ leases \in [Group -> Nat]
      /\ worker \in [Worker -> FlushState]
  BY DEF TypeOK
<1>2. worker[w] # Idle => g \in Group
  BY FlushTyped
<1>3. /\ r.group \in [Group -> GroupState]
      /\ r.due \in [Group -> Nat]
      /\ r.leases \in [Group -> Nat]
  BY ReconciledTyped
<1>4. \A delay \in Nat : g \in Group /\ (Finished(w, g) \/ Requeued(w, g, delay)) =>
        /\ group' \in [Group -> GroupState]
        /\ due' \in [Group -> Nat]
        /\ leases' \in [Group -> Nat]
  BY IndexTyped
<1>5. Rest(w) => worker' \in [Worker -> FlushState]
  BY RestTyped
<1>6. \A s \in {"claimed", "loaded", "charged", "sent", "rejected", "refunded", "failed"} :
        worker[w] # Idle /\ worker' = [worker EXCEPT ![w].step = s]
          => worker' \in [Worker -> FlushState]
  BY StepTyped
<1>7. \A s : At(w, s) => worker[w] # Idle /\ g \in Group
  BY <1>2 DEF At, InTime, Flushing
<1>8. InTime(w) => worker[w] # Idle
  BY DEF InTime, Flushing
<1>9. worker[w] # Idle /\ Interrupt(w) => interrupts' \in [Group -> Nat]
  BY InterruptTyped DEF Interrupt
<1>10. CASE Claim(w)
  <2> PICK h \in Oldest(r) :
        /\ group' = [r.group EXCEPT ![h].lease = w]
        /\ due' = [x \in Group |-> IF x = h \/ x \in Passed(r, h) THEN Unindexed ELSE r.due[x]]
        /\ leases' = [r.leases EXCEPT ![h] = now + Lease]
        /\ worker' = [worker EXCEPT ![w] =
                        [step |-> "claimed", gid |-> h, claimedAt |-> now,
                         actions |-> {}, generation |-> 0, expires |-> 0]]
    BY <1>10 DEF Claim
  <2>1. h \in Group
    BY DEF Oldest, Candidates, DueNow
  <2>2. group' \in [Group -> GroupState]
    BY <1>3, <2>1 DEF GroupState
  <2>3. due' \in [Group -> Nat]
    BY <1>3 DEF Unindexed
  <2>4. leases' \in [Group -> Nat]
    BY <1>1, <1>3, <2>1, Lifetimes
  <2>5. [step |-> "claimed", gid |-> h, claimedAt |-> now,
         actions |-> {}, generation |-> 0, expires |-> 0] \in FlushState
    BY <1>1, <2>1, Lifetimes DEF FlushState, Generation
  <2>6. worker' \in [Worker -> FlushState]
    BY <1>1, <2>5
  <2>7. QED
    BY <1>1, <1>10, <2>2, <2>3, <2>4, <2>6 DEF Claim, TypeOK, ingestion, ration, sends
<1>11. CASE PollEmpty(w)
  <2>1. due' \in [Group -> Nat] /\ group' \in [Group -> GroupState] /\ leases' \in [Group -> Nat]
    BY <1>3, <1>11 DEF PollEmpty, Unindexed
  <2>2. QED
    BY <1>1, <1>11, <2>1 DEF PollEmpty, TypeOK, ingestion, ration, sends
<1>12. CASE Load(w)
  <2>1. worker[w] # Idle /\ g \in Group
    BY <1>7, <1>12 DEF Load
  <2>2. group[g] \in GroupState
    BY <1>1, <2>1
  <2>3. /\ group[g].actions \in SUBSET Action
        /\ group[g].generation \in Generation
        /\ group[g].expires \in Nat
    BY <2>2 DEF GroupState
  <2>4. worker' \in [Worker -> FlushState]
    <3> DEFINE s == [worker[w] EXCEPT !.step = "loaded", !.actions = group[g].actions,
                                      !.generation = group[g].generation,
                                      !.expires = group[g].expires]
    <3>1. s \in FlushState
      BY <2>1, <2>3, FlushTyped DEF FlushState
    <3>2. worker' = [worker EXCEPT ![w] = s]
      BY <1>12 DEF Load
    <3> HIDE DEF s
    <3>3. QED
      BY <1>1, <3>1, <3>2
  <2>5. QED
    BY <1>1, <1>12, <2>4 DEF Load, TypeOK, ingestion, index, ration, sends
<1>13. CASE Drop(w)
  <2>1. g \in Group /\ Finished(w, g) /\ Rest(w)
    BY <1>7, <1>13 DEF Drop
  <2>2. QED
    BY <1>1, <1>4, <1>5, <1>13, <2>1 DEF Drop, TypeOK, ingestion, ration, sends
<1>14. CASE Spend(w)
  <2>1. worker[w] # Idle /\ g \in Group /\ <<"summary", g>> \in Emission
    BY <1>7, <1>14 DEF Spend
  <2>2. /\ throttle \in [tokens : 0..Full, at : 1..now]
        /\ emitted \in [Emission -> Nat] /\ charged \in [Emission -> Nat]
        /\ refunds \subseteq [emission : Emission, charged : Nat, at : Nat]
    BY DEF TypeOK
  <2>3. Weigh => throttle' \in [tokens : 0..Full, at : 1..now]
    BY <1>1, TokensTyped DEF Weigh
  <2>4. CASE /\ Reserved(<<"summary", g>>) \/ Affordable
             /\ IF Reserved(<<"summary", g>>)
                THEN emitted' = Windowed /\ UNCHANGED <<throttle, charged, refunds>>
                ELSE Charge(<<"summary", g>>)
             /\ worker' = [worker EXCEPT ![w].step = "charged"]
             /\ UNCHANGED index
    <3>1. /\ throttle' \in [tokens : 0..Full, at : 1..now]
          /\ emitted' \in [Emission -> Nat]
          /\ charged' \in [Emission -> Nat]
          /\ refunds' \subseteq [emission : Emission, charged : Nat, at : Nat]
      BY <2>1, <2>2, <2>4, ChargeTyped, WindowedTyped
    <3>2. worker' \in [Worker -> FlushState]
      BY <1>6, <2>1, <2>4
    <3>3. QED
      BY <1>1, <1>14, <2>4, <3>1, <3>2 DEF Spend, TypeOK, ingestion, index, sends
  <2>5. CASE /\ \/ /\ AtCap
                   /\ UNCHANGED throttle
                   /\ \E oldest \in OldestInWindow : Requeued(w, g, UntilFree(oldest))
                \/ ~AtCap /\ Tokens < Refill /\ Weigh /\ Requeued(w, g, Refill)
             /\ emitted' = Windowed
             /\ UNCHANGED <<charged, refunds>>
             /\ Rest(w)
    <3>1. \E delay \in Nat : Requeued(w, g, delay)
      BY <2>5, UntilFreeTyped, Lifetimes
    <3>2. throttle' \in [tokens : 0..Full, at : 1..now]
      BY <2>2, <2>3, <2>5
    <3>3. /\ group' \in [Group -> GroupState]
          /\ due' \in [Group -> Nat]
          /\ leases' \in [Group -> Nat]
      BY <1>4, <2>1, <3>1
    <3>4. QED
      BY <1>1, <1>5, <1>14, <2>2, <2>5, <3>2, <3>3, WindowedTyped DEF Spend, TypeOK, ingestion, sends
  <2>6. QED
    BY <1>14, <2>4, <2>5 DEF Spend
<1>15. CASE Refund(w)
  <2>1. worker[w] # Idle /\ <<"summary", g>> \in Emission
    BY <1>7, <1>15 DEF Refund
  <2>2. /\ throttle' \in [tokens : 0..Full, at : 1..now]
        /\ emitted' \in [Emission -> Nat]
        /\ charged' \in [Emission -> Nat]
        /\ refunds' \subseteq [emission : Emission, charged : Nat, at : Nat]
    BY <1>15, <2>1, GiveBackTyped DEF Refund, TypeOK, ration
  <2>3. worker' \in [Worker -> FlushState]
    BY <1>6, <1>15, <2>1 DEF Refund
  <2>4. QED
    BY <1>1, <1>15, <2>2, <2>3 DEF Refund, TypeOK, ingestion, index, sends
<1>16. CASE Suppress(w)
  <2>1. g \in Group /\ Finished(w, g) /\ Rest(w)
    BY <1>7, <1>16 DEF Suppress, Settled
  <2>2. QED
    BY <1>1, <1>4, <1>5, <1>16, <2>1 DEF Suppress, TypeOK, ingestion, ration, sends
<1>17. CASE Defer(w)
  <2>1. g \in Group /\ (\E delay \in Deferral : Requeued(w, g, delay)) /\ Rest(w)
    BY <1>7, <1>17 DEF Defer, Settled
  <2>2. \E delay \in Nat : Requeued(w, g, delay)
    BY <2>1, Lifetimes
  <2>3. QED
    BY <1>1, <1>4, <1>5, <1>17, <2>1, <2>2 DEF Defer, TypeOK, ingestion, ration, sends
<1>18. ASSUME CanSubmit(w) PROVE worker[w] # Idle /\ <<"summary", g>> \in Emission
  BY <1>7, <1>18 DEF CanSubmit
<1>19. CASE Submit(w)
  <2>1. emissions' \subseteq [emission : Emission, charged : Nat]
    <3>1. Emitted(<<"summary", g>>) \in [emission : Emission, charged : Nat]
      BY <1>18, <1>19 DEF Submit, TypeOK, Emitted
    <3>2. emissions \subseteq [emission : Emission, charged : Nat]
      BY DEF TypeOK
    <3>3. QED
      BY <1>19, <3>1, <3>2 DEF Submit
  <2>2. submitted' \in [Group -> Seq(SUBSET Action)]
    BY <1>18, <1>19, SubmittedTyped DEF Submit
  <2>3. worker' \in [Worker -> FlushState]
    BY <1>6, <1>18, <1>19 DEF Submit
  <2>4. QED
    BY <1>1, <1>19, <2>1, <2>2, <2>3 DEF Submit, TypeOK, ingestion, index, ration
<1>20. CASE SubmitInVain(w)
  <2>1. worker' \in [Worker -> FlushState]
    BY <1>6, <1>18, <1>20 DEF SubmitInVain
  <2>2. /\ submitted' \in [Group -> Seq(SUBSET Action)]
        /\ interrupts' \in [Group -> Nat]
        /\ emissions' = emissions
    BY <1>9, <1>18, <1>20, SubmittedTyped DEF SubmitInVain, TypeOK, sends
  <2>3. QED
    BY <1>1, <1>20, <2>1, <2>2 DEF SubmitInVain, TypeOK, ingestion, index, ration
<1>21. CASE Complete(w)
  <2>1. g \in Group /\ Finished(w, g) /\ Rest(w)
    BY <1>7, <1>21 DEF Complete
  <2>2. QED
    BY <1>1, <1>4, <1>5, <1>21, <2>1 DEF Complete, TypeOK, ingestion, ration, sends
<1>22. CASE TimeOut(w)
  <2>1. interrupts' \in [Group -> Nat] /\ worker' \in [Worker -> FlushState]
    BY <1>5, <1>22, InterruptTyped DEF TimeOut, Flushing
  <2>2. QED
    BY <1>1, <1>22, <2>1 DEF TimeOut, TypeOK, ingestion, index, ration, sends
<1>23. CASE PutBack(w)
  <2>1. g \in Group /\ (\E delay \in {0, Retry} : Requeued(w, g, delay)) /\ Rest(w)
    BY <1>2, <1>23 DEF PutBack
  <2>2. \E delay \in Nat : Requeued(w, g, delay)
    BY <2>1, Lifetimes
  <2>3. QED
    BY <1>1, <1>4, <1>5, <1>23, <2>1, <2>2 DEF PutBack, TypeOK, ingestion, ration, sends
<1>24. CASE Crash(w)
  BY <1>1, <1>5, <1>9, <1>24 DEF Crash, TypeOK, ingestion, index, ration, sends
<1>25. CASE Fail(w)
  <2>1. worker' \in [Worker -> FlushState] /\ interrupts' \in [Group -> Nat]
    BY <1>6, <1>8, <1>9, <1>25 DEF Fail
  <2>2. QED
    BY <1>1, <1>25, <2>1 DEF Fail, TypeOK, ingestion, index, ration, sends
<1>26. CASE LoseReply(w)
  <2>1. worker[w] # Idle /\ g \in Group /\ Finished(w, g)
    BY <1>7, <1>26 DEF LoseReply
  <2>2. worker' \in [Worker -> FlushState] /\ interrupts' \in [Group -> Nat]
    BY <1>6, <1>9, <1>26, <2>1 DEF LoseReply
  <2>3. QED
    BY <1>1, <1>4, <1>26, <2>1, <2>2 DEF LoseReply, TypeOK, ingestion, ration, sends
<1>27. QED
  BY <1>10, <1>11, <1>12, <1>13, <1>14, <1>15, <1>16, <1>17, <1>19, <1>20, <1>21, <1>22, <1>23,
     <1>24, <1>25, <1>26 DEF WorkerStep, FlushStep

LEMMA VisitTypes ==
  ASSUME TypeOK, UNCHANGED setting, Visit
  PROVE  TypeOK'
<1>1. generation' \in Generation
  BY Lifetimes DEF Visit, TypeOK, Generation
<1>2. QED
  BY <1>1 DEF Visit, TypeOK, ingestion, index, ration, sends

LEMMA TickTypes ==
  ASSUME TypeOK, UNCHANGED setting, Tick
  PROVE  TypeOK'
<1>1. now' \in 1..MaxNow
  BY Lifetimes DEF Tick, TypeOK
<1>2. /\ disposition \in [Event -> [decision : {"none", "push", "buffer"}, expires : Nat]]
      /\ group \in [Group -> GroupState]
      /\ throttle \in [tokens : 0..Full, at : 1..now]
      /\ now \in Nat
  BY DEF TypeOK
<1>3. disposition' \in [Event -> [decision : {"none", "push", "buffer"}, expires : Nat]]
  BY <1>2 DEF Tick, NoDisposition
<1>4. group' \in [Group -> GroupState]
  BY <1>2, NoGroupTyped DEF Tick
<1>5. throttle' \in [tokens : 0..Full, at : 1..now']
  BY <1>2 DEF Tick, ration
<1>6. QED
  BY <1>1, <1>3, <1>4, <1>5 DEF Tick, TypeOK, ration, sends

LEMMA TypesKept == TypeOK /\ [Next]_vars => TypeOK'
<1> SUFFICES ASSUME TypeOK, [Next]_vars PROVE TypeOK'
  OBVIOUS
<1>1. CASE UNCHANGED vars
  BY <1>1 DEF vars, coalesceVars, ingestion, index, ration, sends, TypeOK
<1>2. CASE Next
  BY <1>2, EventTypes, WorkerTypes, VisitTypes, TickTypes DEF Next
<1>3. QED
  BY <1>1, <1>2

LEMMA TypesAtFirst == Init => TypeOK
<1> SUFFICES ASSUME Init PROVE TypeOK
  OBVIOUS
<1>1. throttle \in [tokens : 0..Full, at : 1..now]
  BY Lifetimes DEF Init
<1>2. group \in [Group -> GroupState]
  BY NoGroupTyped DEF Init
<1>3. submitted \in [Group -> Seq(SUBSET Action)]
  BY DEF Init
<1>4. disposition \in [Event -> [decision : {"none", "push", "buffer"}, expires : Nat]]
  BY DEF Init, NoDisposition
<1>5. QED
  BY <1>1, <1>2, <1>3, <1>4, Lifetimes DEF Init, TypeOK, Generation, FlushState, Unindexed

\* Every state is well-typed: clocks, counts and lifetimes are numbers, and each
\* flush, group and emission is one that there is (coalesce.rs).
THEOREM TypeCorrect == Spec => []TypeOK
BY TypesAtFirst, TypesKept, PTL DEF Spec

-----------------------------------------------------------------------------
(* The inductive invariants                                                *)

\* A group is due when its bucket is over, and belongs to one flush from its claim
\* on; nobody records in it any more then.
DueAtDeadline == \A g \in Group : Exists(group, g) => group[g].due = DeadlineOf(g)

ClosedWhenDue ==
  /\ \A g \in Group : due[g] # Unindexed => DeadlineOf(g) <= due[g]
  /\ \A g \in Group : leases[g] # Unindexed => DeadlineOf(g) <= now
  /\ \A g \in Group : submitted[g] # <<>> => DeadlineOf(g) <= now
  /\ \A w \in Worker : worker[w] # Idle => DeadlineOf(worker[w].gid) <= now

WithinTimeout ==
  \A w \in Worker : Flushing(w) =>
    worker[w].claimedAt <= now /\ now <= worker[w].claimedAt + FlushTimeout

HoldsLease ==
  \A w \in Worker : Flushing(w) =>
    LET g == worker[w].gid
    IN Exists(group, g) =>
         /\ group[g].lease = w
         /\ leases[g] = worker[w].claimedAt + Lease
         /\ due[g] = Unindexed

OneFlushEach ==
  \A v, w \in Worker : Flushing(v) /\ Flushing(w) /\ worker[v].gid = worker[w].gid => v = w

TenureInvariant ==
  /\ TypeOK
  /\ DueAtDeadline /\ ClosedWhenDue
  /\ WithinTimeout /\ HoldsLease /\ OneFlushEach
  /\ WorkIndexed

\* Every submission of a group but the last was followed by an interruption: a group
\* that is there to be claimed, or is claimed, has no unexplained one.
Sent(w) == Flushing(w) /\ worker[w].step = "sent"
Explained(g) == Len(submitted[g]) <= interrupts[g]

SubmitInvariant ==
  /\ SubmittedOncePerInterruption
  /\ \A g \in Group :
       Exists(group, g) /\ (\A w \in Worker : Sent(w) => worker[w].gid # g) => Explained(g)
  /\ \A w \in Worker : Flushing(w) /\ ~Sent(w) => Explained(worker[w].gid)

\* What a group holds, a flush has read and was submitted covers what was recorded.
Covers(g, actions) ==
  \/ RecordedIn(g) \subseteq actions
  \/ Digest /\ Cardinality(actions) = MaxActions

BeforeSubmission == {"loaded", "charged"}

CountInvariant ==
  /\ \A g \in Group : Exists(group, g) =>
       /\ Covers(g, group[g].actions)
       /\ IsFiniteSet(group[g].actions)
       /\ Digest => Cardinality(group[g].actions) <= MaxActions
       /\ DeadlineOf(g) <= group[g].evicted
  /\ \A g \in Group : now < DeadlineOf(g) /\ RecordedIn(g) # {} => Exists(group, g)
  /\ \A w \in Worker : Flushing(w) /\ worker[w].step \in BeforeSubmission =>
       Covers(worker[w].gid, worker[w].actions)
  /\ \A g \in Group : \A i \in DOMAIN submitted[g] : Covers(g, submitted[g][i])

\* A disposition outlives its event, and says which of the two became of it.
Decided(e) == joined[e] # {} \/ handler[e] = "pushing" \/ PushesOf(e) # {}

DispositionOf(e) ==
  /\ joined[e] = {} \/ \E g \in Group : joined[e] = {g}
  /\ PushesOf(e) = {} \/ \E x : PushesOf(e) = {x}
  /\ Decided(e) /\ now <= MaxEventAge => disposition[e] # NoDisposition
  /\ disposition[e] # NoDisposition => MaxEventAge < disposition[e].expires
  /\ disposition[e].decision = "push" => joined[e] = {}
  /\ handler[e] = "pushing" => joined[e] = {}
  /\ PushesOf(e) # {} => handler[e] = "done" /\ joined[e] = {}

DispositionInvariant == \A e \in Event : DispositionOf(e)

\* Actions of a digest are of events that were bound to its visit.
BoundTo(actions, n) == \A a \in actions : \E e \in Event : ActionOf[e] = a /\ bound[e] = n

VisitInvariant ==
  Digest =>
    /\ \A g \in Group : Exists(group, g) =>
         group[g].generation = g[1] /\ BoundTo(group[g].actions, g[1])
    /\ \A w \in Worker : Flushing(w) /\ worker[w].step \in BeforeSubmission =>
         BoundTo(worker[w].actions, worker[w].generation)

-----------------------------------------------------------------------------
(* What steps do to the index                                              *)

\* A flush gives its group up: nothing, or the group is gone, or it is due later.
Released(w, g) ==
  /\ \A x \in Group \ {g} :
       group'[x] = group[x] /\ due'[x] = due[x] /\ leases'[x] = leases[x]
  /\ \/ UNCHANGED index
     \/ /\ Owns(w, g)
        /\ leases'[g] = Unindexed
        /\ \/ group'[g] = NoGroup /\ due'[g] = due[g]
           \/ /\ group'[g] = [group[g] EXCEPT !.lease = Nobody]
              /\ Exists(group, g)
              /\ due'[g] \in Nat \ {0} /\ now <= due'[g]

LEMMA ReleaseEffect ==
  ASSUME TypeOK, NEW w \in Worker, NEW g \in Group, NEW delay \in Nat,
         Finished(w, g) \/ Requeued(w, g, delay)
  PROVE  Released(w, g)
<1>1. now \in Nat \ {0} /\ group \in [Group -> GroupState] /\ due \in [Group -> Nat]
      /\ leases \in [Group -> Nat]
  BY DEF TypeOK
<1>2. now + delay \in Nat \ {0} /\ now <= now + delay
  BY <1>1
<1>3. CASE Finished(w, g)
  BY <1>1, <1>3 DEF Finished, Released, index
<1>4. CASE Requeued(w, g, delay)
  <2>1. CASE ~Owns(w, g)
    BY <1>4, <2>1 DEF Requeued, Released, index
  <2>2. CASE Owns(w, g) /\ now + delay >= group[g].expires
    BY <1>1, <1>4, <2>2 DEF Requeued, Released, index
  <2>3. CASE Owns(w, g) /\ ~(now + delay >= group[g].expires)
    <3>1. Exists(group, g)
      BY <1>2, <2>3 DEF Exists, NoGroup
    <3>2. /\ group' = [group EXCEPT ![g].lease = Nobody]
          /\ due' = [due EXCEPT ![g] = now + delay]
          /\ leases' = [leases EXCEPT ![g] = Unindexed]
      BY <1>4, <2>3 DEF Requeued
    <3>3. /\ group'[g] = [group[g] EXCEPT !.lease = Nobody]
          /\ due'[g] = now + delay
          /\ leases'[g] = Unindexed
      BY <1>1, <3>2
    <3>4. \A x \in Group \ {g} :
            group'[x] = group[x] /\ due'[x] = due[x] /\ leases'[x] = leases[x]
      BY <1>1, <3>2
    <3>5. QED
      BY <1>2, <2>3, <3>1, <3>3, <3>4 DEF Released
  <2>4. QED
    BY <2>1, <2>2, <2>3
<1>5. QED
  BY <1>3, <1>4

\* A step of a flush after its claim.
FlushEffect(w) ==
  /\ worker[w] # Idle
  /\ \A v \in Worker \ {w} : worker'[v] = worker[v]
  /\ \/ worker'[w] = Idle
     \/ /\ worker'[w].gid = worker[w].gid
        /\ worker'[w].claimedAt = worker[w].claimedAt
        /\ worker[w].step = "failed" => worker'[w].step = "failed"
  /\ \/ UNCHANGED index
     \/ /\ Released(w, worker[w].gid)
        /\ worker'[w] = Idle \/ worker'[w].step = "failed"
  /\ UNCHANGED <<now, generation, ingestion>>

AfterClaim(w) == FlushStep(w) \/ TimeOut(w) \/ PutBack(w) \/ Crash(w) \/ Fail(w) \/ LoseReply(w)

LEMMA FlushEffects ==
  ASSUME TypeOK, NEW w \in Worker, AfterClaim(w)
  PROVE  FlushEffect(w)
<1> DEFINE g == worker[w].gid
<1>1. worker \in [Worker -> FlushState]
  BY DEF TypeOK
<1>2. worker[w] # Idle => g \in Group
  BY FlushTyped
<1>3. \A s : At(w, s) => worker[w] # Idle /\ worker[w].step = s
  BY DEF At, InTime, Flushing
<1>4. Rest(w) => worker'[w] = Idle /\ \A v \in Worker \ {w} : worker'[v] = worker[v]
  BY <1>1 DEF Rest
<1>5. \A s : worker[w] # Idle /\ worker' = [worker EXCEPT ![w].step = s] =>
        /\ worker'[w].gid = g
        /\ worker'[w].claimedAt = worker[w].claimedAt
        /\ worker'[w].step = s
        /\ \A v \in Worker \ {w} : worker'[v] = worker[v]
  BY <1>1, FlushTyped
<1>6. \A delay \in Nat : worker[w] # Idle /\ (Finished(w, g) \/ Requeued(w, g, delay))
        => Released(w, g)
  BY <1>2, ReleaseEffect
<1>7. CASE Load(w)
  <2>1. worker[w] # Idle /\ worker[w].step = "claimed"
    BY <1>3, <1>7 DEF Load
  <2>2. /\ worker'[w].gid = g /\ worker'[w].claimedAt = worker[w].claimedAt
        /\ \A v \in Worker \ {w} : worker'[v] = worker[v]
    BY <1>1, <1>7, <2>1, FlushTyped DEF Load
  <2>3. QED
    BY <1>7, <2>1, <2>2 DEF Load, FlushEffect
<1>8. CASE Drop(w) \/ Suppress(w) \/ Complete(w)
  BY <1>3, <1>4, <1>6, <1>8 DEF Drop, Suppress, Settled, Complete, FlushEffect
<1>9. CASE Spend(w)
  <2>1. worker[w] # Idle /\ worker[w].step = "loaded"
    BY <1>3, <1>9 DEF Spend
  <2>2. UNCHANGED <<now, generation, ingestion>>
    BY <1>9 DEF Spend
  <2>3. CASE worker' = [worker EXCEPT ![w].step = "charged"] /\ UNCHANGED index
    BY <1>5, <2>1, <2>2, <2>3 DEF FlushEffect
  <2>4. CASE /\ \/ \E oldest \in OldestInWindow : Requeued(w, g, UntilFree(oldest))
                \/ Requeued(w, g, Refill)
             /\ Rest(w)
    <3>1. Released(w, g)
      BY <1>6, <2>1, <2>4, UntilFreeTyped, Lifetimes
    <3>2. QED
      BY <1>4, <2>1, <2>2, <2>4, <3>1 DEF FlushEffect
  <2>5. QED
    BY <1>9, <2>3, <2>4 DEF Spend
<1>10. CASE Refund(w)
  BY <1>3, <1>5, <1>10 DEF Refund, FlushEffect
<1>11. CASE Defer(w)
  <2>1. Released(w, g)
    BY <1>3, <1>6, <1>11, Lifetimes DEF Defer, Settled
  <2>2. QED
    BY <1>3, <1>4, <1>11, <2>1 DEF Defer, Settled, FlushEffect
<1>12. CASE Submit(w) \/ SubmitInVain(w)
  BY <1>3, <1>5, <1>12 DEF Submit, SubmitInVain, CanSubmit, FlushEffect
<1>13. CASE TimeOut(w) \/ Crash(w)
  BY <1>4, <1>13 DEF TimeOut, Crash, Flushing, FlushEffect
<1>14. CASE PutBack(w)
  <2>1. Released(w, g)
    BY <1>6, <1>14, Lifetimes DEF PutBack
  <2>2. QED
    BY <1>4, <1>14, <2>1 DEF PutBack, FlushEffect
<1>15. CASE Fail(w)
  BY <1>5, <1>15 DEF Fail, InTime, Flushing, FlushEffect
<1>16. CASE LoseReply(w)
  BY <1>3, <1>5, <1>6, <1>16 DEF LoseReply, FlushEffect
<1>17. QED
  BY <1>7, <1>8, <1>9, <1>10, <1>11, <1>12, <1>13, <1>14, <1>15, <1>16 DEF AfterClaim, FlushStep

\* An attempt to deliver an event opens or changes its current group, or leaves all
\* groups alone.
LEMMA EventEffects ==
  ASSUME TypeOK, NEW e \in Event, EventStep(e), NEW g, g = CurrentGroup(e)
  PROVE  /\ UNCHANGED <<now, generation, leases, worker, submitted, interrupts>>
         /\ \A x \in Group \ {g} : group'[x] = group[x] /\ due'[x] = due[x]
         /\ \/ UNCHANGED <<group, due>>
            \/ /\ group'[g].due = Opened(g).due
               /\ group'[g].generation = Opened(g).generation
               /\ Exists(group', g)
               /\ due'[g] \in {due[g], Deadline}
               /\ due'[g] = Unindexed => group'[g].pending = Opened(g).pending
<1>1. /\ g \in Group /\ Opened(g) \in GroupState
      /\ group \in [Group -> GroupState] /\ due \in [Group -> Nat]
      /\ now \in Nat
  <2>1. g \in Group
    BY CurrentGroupIs
  <2>2. Opened(g) \in GroupState
    BY <2>1, OpenedTyped
  <2>3. QED
    BY <2>1, <2>2 DEF TypeOK
<1>2. Deadline \in Nat \ {0} /\ now < Deadline /\ Deadline = DeadlineOf(g)
  BY <1>1, CurrentGroupIs
<1>3. now + GroupTTL + Grace \in Nat \ {0} /\ now + DispositionTTL \in Nat \ {0}
      /\ now + (GroupTTL + Grace) \in Nat \ {0}
  BY <1>1, SettingTyped, Lifetimes DEF TypeOK
<1>4. ASSUME NEW actions, NEW pending, NEW n, NEW evicted \in Nat \ {0},
             group' = [group EXCEPT ![g] = [Opened(g) EXCEPT !.actions = actions, !.pending = pending,
                                                             !.evicted = evicted]]
      PROVE  /\ \A x \in Group \ {g} : group'[x] = group[x]
             /\ group'[g].due = Opened(g).due
             /\ group'[g].generation = Opened(g).generation
             /\ group'[g].pending = pending
             /\ Exists(group', g)
  BY <1>1, <1>4 DEF Exists, NoGroup, GroupState
<1>5. Index(g) => /\ \A x \in Group \ {g} : due'[x] = due[x]
                  /\ due'[g] \in {due[g], Deadline}
                  /\ due'[g] # Unindexed
  BY <1>1, <1>2 DEF Index, Unindexed
<1>6. CASE Ingest(e)
  <2>1. UNCHANGED <<now, generation, leases, worker, submitted, interrupts>>
    BY <1>6 DEF Ingest, sends
  <2>2. CASE UNCHANGED <<group, due>>
    BY <2>1, <2>2
  <2>3. CASE ~UNCHANGED <<group, due>>
    <3> DEFINE actions == IF Counted(g, ActionOf[e]) THEN Opened(g).actions \cup {ActionOf[e]}
                          ELSE Opened(g).actions
               pending == IF Counted(g, ActionOf[e]) THEN Opened(g).pending + 1
                          ELSE Opened(g).pending
    <3>1. /\ Index(g)
          /\ group' = [group EXCEPT ![g] = [Opened(g) EXCEPT !.actions = actions, !.pending = pending,
                                                             !.evicted = now + GroupTTL + Grace]]
      BY <1>6, <2>3 DEF Ingest
    <3> HIDE DEF actions, pending
    <3>2. QED
      BY <1>3, <1>4, <1>5, <2>1, <3>1
  <2>4. QED
    BY <2>2, <2>3
<1>7. CASE Buffer(e)
  <2>1. UNCHANGED <<now, generation, leases, worker, submitted, interrupts>>
    BY <1>7 DEF Buffer, sends
  <2>2. /\ Index(g)
        /\ group' = [group EXCEPT ![g] =
                       [Opened(g) EXCEPT !.actions = Opened(g).actions \cup {ActionOf[e]},
                                         !.pending = Opened(g).pending + 1,
                                         !.evicted = now + GroupTTL + Grace]]
    BY <1>7 DEF Buffer
  <2>3. QED
    BY <1>3, <1>4, <1>5, <2>1, <2>2
<1>8. CASE PushAtOnce(e)
  <2> DEFINE old == Opened(g)
             evicted == now + (IF old.pending > 0 THEN GroupTTL + Grace ELSE DispositionTTL)
  <2>1. UNCHANGED <<now, generation, leases, worker, submitted, interrupts, due>>
    BY <1>8 DEF PushAtOnce, sends
  <2>2. group' = [group EXCEPT ![g] = [old EXCEPT !.immediate = @ + 1, !.evicted = evicted]]
    BY <1>8 DEF PushAtOnce
  <2>3. evicted \in Nat \ {0} /\ old \in GroupState
    BY <1>1, <1>3
  <2> HIDE DEF old, evicted
  <2>4. /\ \A x \in Group \ {g} : group'[x] = group[x]
        /\ group'[g].due = old.due
        /\ group'[g].generation = old.generation
        /\ group'[g].pending = old.pending
        /\ Exists(group', g)
    BY <1>1, <2>2, <2>3 DEF Exists, NoGroup, GroupState
  <2>5. QED
    BY <2>1, <2>4 DEF old
<1>9. CASE BindEvent(e) \/ Replay(e) \/ RefusePush(e) \/ FailPush(e) \/ LandPush(e)
  BY <1>9 DEF BindEvent, Replay, RefusePush, FailPush, LandPush, PushEnds, index, sends
<1>10. QED
  BY <1>6, <1>7, <1>8, <1>9 DEF EventStep

-----------------------------------------------------------------------------
(* Pending work is indexed, and each group is in one flush at a time         *)

LEMMA TenureAtFirst == Init => TenureInvariant
<1> SUFFICES ASSUME Init PROVE TenureInvariant
  OBVIOUS
<1>1. TypeOK
  BY TypesAtFirst
<1>2. /\ \A g \in Group : group[g] = NoGroup /\ due[g] = Unindexed /\ leases[g] = Unindexed
                          /\ submitted[g] = <<>>
      /\ \A w \in Worker : worker[w] = Idle
  BY DEF Init
<1>3. WorkIndexed
  BY <1>2 DEF WorkIndexed, NoGroup
<1>4. QED
  BY <1>1, <1>2, <1>3 DEF TenureInvariant, DueAtDeadline, ClosedWhenDue, WithinTimeout, HoldsLease,
    OneFlushEach, Exists, Flushing

LEMMA EventTenure ==
  ASSUME TenureInvariant, TypeOK', NEW e \in Event, EventStep(e)
  PROVE  TenureInvariant'
<1> DEFINE g == CurrentGroup(e)
<1>1. TypeOK
  BY DEF TenureInvariant
<1>2. /\ g \in Group /\ Deadline = DeadlineOf(g) /\ Deadline \in Nat /\ now < Deadline
      /\ now \in Nat \ {0}
  <2>1. g \in Group /\ Deadline = DeadlineOf(g) /\ Deadline \in Nat /\ now < Deadline
    BY <1>1, CurrentGroupIs
  <2>2. now \in Nat \ {0}
    BY <1>1 DEF TypeOK
  <2>3. QED
    BY <2>1, <2>2
<1> HIDE DEF g
<1>3. /\ UNCHANGED <<now, generation, leases, worker, submitted, interrupts>>
      /\ \A x \in Group \ {g} : group'[x] = group[x] /\ due'[x] = due[x]
      /\ \/ UNCHANGED <<group, due>>
         \/ /\ group'[g].due = Opened(g).due
            /\ group'[g].generation = Opened(g).generation
            /\ Exists(group', g)
            /\ due'[g] \in {due[g], Deadline}
            /\ due'[g] = Unindexed => group'[g].pending = Opened(g).pending
  BY <1>1, EventEffects DEF g
<1>4. Opened(g).due = DeadlineOf(g)
  BY <1>1, <1>2, NoGroupTyped DEF Opened, TenureInvariant, DueAtDeadline, NoGroup
<1>5. \A w \in Worker : worker[w] # Idle => worker[w].gid \in Group \ {g}
  <2> SUFFICES ASSUME NEW w \in Worker, worker[w] # Idle, worker[w].gid = g PROVE FALSE
    BY <1>1, FlushTyped
  <2>1. DeadlineOf(g) <= now
    BY DEF TenureInvariant, ClosedWhenDue
  <2> QED
    BY <1>2, <2>1
<1>6. DueAtDeadline'
  BY <1>3, <1>4 DEF DueAtDeadline, TenureInvariant, Exists
<1>7. ClosedWhenDue'
  BY <1>2, <1>3 DEF ClosedWhenDue, TenureInvariant
<1>8. WithinTimeout' /\ OneFlushEach'
  BY <1>3 DEF WithinTimeout, OneFlushEach, Flushing, TenureInvariant
<1>9. HoldsLease'
  BY <1>3, <1>5 DEF HoldsLease, Flushing, Exists, TenureInvariant
<1>10. WorkIndexed'
  <2> SUFFICES ASSUME NEW x \in Group, group'[x].pending > 0
               PROVE  due'[x] # Unindexed \/ leases'[x] # Unindexed
    BY DEF WorkIndexed
  <2>1. CASE x # g \/ UNCHANGED <<group, due>>
    BY <1>3, <2>1 DEF TenureInvariant, WorkIndexed
  <2>2. CASE x = g /\ ~UNCHANGED <<group, due>> /\ due'[g] = Unindexed
    <3>1. Opened(g).pending > 0
      BY <1>3, <2>2
    <3>2. group[g].pending > 0
      <4>1. CASE Exists(group, g)
        BY <3>1, <4>1 DEF Opened
      <4>2. CASE ~Exists(group, g)
        BY <3>1, <4>2 DEF Opened, NoGroup
      <4>3. QED
        BY <4>1, <4>2
    <3>3. due[g] # Unindexed \/ leases[g] # Unindexed
      BY <1>2, <3>2 DEF TenureInvariant, WorkIndexed
    <3>4. due[g] = Unindexed
      BY <1>2, <1>3, <2>2 DEF Unindexed
    <3>5. QED
      BY <1>3, <2>2, <3>3, <3>4
  <2>3. CASE x = g /\ due'[g] # Unindexed
    BY <2>3
  <2>4. QED
    BY <2>1, <2>2, <2>3
<1>11. QED
  BY <1>6, <1>7, <1>8, <1>9, <1>10 DEF TenureInvariant

LEMMA FlushTenure ==
  ASSUME TenureInvariant, TypeOK', NEW w \in Worker, FlushEffect(w), UNCHANGED setting,
         \A g \in Group : submitted'[g] # submitted[g] => g = worker[w].gid
  PROVE  TenureInvariant'
<1> DEFINE g == worker[w].gid
<1>1. /\ TypeOK /\ now \in Nat \ {0} /\ worker[w] # Idle
      /\ group \in [Group -> GroupState] /\ due \in [Group -> Nat] /\ leases \in [Group -> Nat]
  BY DEF TenureInvariant, TypeOK, FlushEffect
<1>2. /\ g \in Group /\ DeadlineOf(g) <= now /\ DeadlineOf(g) \in Nat
  BY <1>1, FlushTyped, DeadlineTyped DEF TenureInvariant, ClosedWhenDue
<1> HIDE DEF g
<1>3. now' = now
  BY DEF FlushEffect
<1>4. \A v \in Worker \ {w} : worker'[v] = worker[v]
  BY DEF FlushEffect
<1>5. /\ worker'[w] # Idle => /\ worker'[w].gid = g
                              /\ worker'[w].claimedAt = worker[w].claimedAt
      /\ worker'[w] # Idle /\ worker'[w].step # "failed" =>
           Flushing(w) /\ UNCHANGED index
  BY DEF FlushEffect, Flushing, g
<1>6. Released(w, g)
  BY DEF FlushEffect, Released, g, index
<1>7. \A v \in Worker : Flushing(v)' =>
        /\ Flushing(v)
        /\ worker'[v].gid = worker[v].gid
        /\ worker'[v].claimedAt = worker[v].claimedAt
  BY <1>4, <1>5 DEF Flushing, g
<1>8. DueAtDeadline'
  <2> SUFFICES ASSUME NEW x \in Group, Exists(group', x)
               PROVE  group'[x].due = DeadlineOf(x)
    BY DEF DueAtDeadline
  <2>1. CASE group'[x] = group[x]
    BY <2>1 DEF TenureInvariant, DueAtDeadline, Exists
  <2>2. CASE x = g /\ group'[g] = [group[g] EXCEPT !.lease = Nobody] /\ Exists(group, g)
    <3>1. group[g].due = DeadlineOf(g)
      BY <1>2, <2>2 DEF TenureInvariant, DueAtDeadline
    <3>2. group'[g].due = group[g].due
      BY <1>1, <1>2, <2>2 DEF GroupState
    <3>3. QED
      BY <2>2, <3>1, <3>2
  <2>3. CASE x = g /\ group'[g] = NoGroup
    BY <2>3 DEF Exists
  <2>4. QED
    BY <1>6, <2>1, <2>2, <2>3 DEF Released, index
<1>9. ClosedWhenDue'
  <2>1. \A x \in Group : due'[x] # Unindexed => DeadlineOf(x) <= due'[x]
    <3> SUFFICES ASSUME NEW x \in Group, due'[x] # Unindexed PROVE DeadlineOf(x) <= due'[x]
      OBVIOUS
    <3>1. CASE due'[x] = due[x]
      BY <3>1 DEF TenureInvariant, ClosedWhenDue
    <3>2. CASE x = g /\ due'[g] \in Nat \ {0} /\ now <= due'[g]
      BY <1>1, <1>2, <3>2
    <3>3. QED
      BY <1>6, <3>1, <3>2 DEF Released, index
  <2>2. \A x \in Group : leases'[x] # Unindexed => DeadlineOf(x) <= now
    <3> SUFFICES ASSUME NEW x \in Group, leases'[x] # Unindexed PROVE DeadlineOf(x) <= now
      OBVIOUS
    <3>1. leases'[x] = leases[x]
      BY <1>6 DEF Released, index
    <3>2. QED
      BY <3>1 DEF TenureInvariant, ClosedWhenDue
  <2>3. \A x \in Group : submitted'[x] # <<>> => DeadlineOf(x) <= now
    BY <1>2 DEF TenureInvariant, ClosedWhenDue, g
  <2>4. \A v \in Worker : worker'[v] # Idle => DeadlineOf(worker'[v].gid) <= now
    BY <1>2, <1>4, <1>5 DEF TenureInvariant, ClosedWhenDue
  <2>5. QED
    BY <1>3, <2>1, <2>2, <2>3, <2>4 DEF ClosedWhenDue
<1>10. WithinTimeout' /\ OneFlushEach'
  BY <1>3, <1>7 DEF WithinTimeout, OneFlushEach, TenureInvariant
<1>11. HoldsLease'
  <2> SUFFICES ASSUME NEW v \in Worker, Flushing(v)', NEW x, x = worker[v].gid, Exists(group', x)
               PROVE  /\ group'[x].lease = v
                      /\ leases'[x] = worker[v].claimedAt + Lease
                      /\ due'[x] = Unindexed
    BY <1>7 DEF HoldsLease
  <2>1. Flushing(v) /\ x \in Group
    BY <1>1, <1>7, FlushTyped DEF Flushing
  <2>2. Exists(group, x)
    BY <1>6, <2>1 DEF Released, index, Exists
  <2>3. /\ group[x].lease = v
        /\ leases[x] = worker[v].claimedAt + Lease
        /\ due[x] = Unindexed
    BY <2>1, <2>2 DEF TenureInvariant, HoldsLease
  <2>4. CASE x # g \/ UNCHANGED index
    BY <1>6, <2>1, <2>3, <2>4 DEF Released, index
  <2>5. CASE x = g /\ ~UNCHANGED index
    <3>1. Owns(w, g)
      BY <1>6, <2>5 DEF Released
    <3>2. v = w
      BY <2>3, <2>5, <3>1 DEF Owns
    <3>3. UNCHANGED index
      BY <1>5, <3>2 DEF Flushing
    <3>4. QED
      BY <2>5, <3>3
  <2>6. QED
    BY <2>4, <2>5
<1>12. WorkIndexed'
  <2> SUFFICES ASSUME NEW x \in Group, group'[x].pending > 0
               PROVE  due'[x] # Unindexed \/ leases'[x] # Unindexed
    BY DEF WorkIndexed
  <2>1. CASE x # g \/ UNCHANGED index
    BY <1>6, <2>1 DEF Released, index, TenureInvariant, WorkIndexed
  <2>2. CASE x = g /\ group'[g] = NoGroup
    BY <2>2 DEF NoGroup
  <2>3. CASE x = g /\ due'[g] \in Nat \ {0}
    BY <2>3 DEF Unindexed
  <2>4. QED
    BY <1>6, <2>1, <2>2, <2>3 DEF Released
<1>13. QED
  BY <1>8, <1>9, <1>10, <1>11, <1>12 DEF TenureInvariant

\* A reconciliation puts a group back at its deadline or removes it, and leaves the
\* groups that are being flushed alone.
LEMMA ReconcileEffects ==
  ASSUME TenureInvariant, NEW r, r = Reconciled
  PROVE  /\ \A x \in Group :
              /\ r.group[x] \in {group[x], NoGroup}
              /\ r.due[x] # Unindexed => DeadlineOf(x) <= r.due[x]
              /\ r.leases[x] \in {leases[x], Unindexed}
              /\ r.group[x].pending > 0 => r.due[x] # Unindexed \/ r.leases[x] # Unindexed
         /\ \A w \in Worker : Flushing(w) /\ Exists(group, worker[w].gid) =>
              LET x == worker[w].gid
              IN r.group[x] = group[x] /\ r.due[x] = Unindexed /\ r.leases[x] = leases[x]
<1>1. /\ TypeOK /\ now \in Nat \ {0}
      /\ group \in [Group -> GroupState] /\ due \in [Group -> Nat] /\ leases \in [Group -> Nat]
  BY DEF TenureInvariant, TypeOK
<1>2. /\ \A x \in Group : r.group[x] = IF x \in ExpiredLeases /\ ~Flushable(x) THEN NoGroup ELSE group[x]
      /\ \A x \in Group : r.due[x] = IF x \in ExpiredLeases /\ Flushable(x) /\ due[x] = Unindexed
                                     THEN group[x].due ELSE due[x]
      /\ \A x \in Group : r.leases[x] = IF x \in ExpiredLeases THEN Unindexed ELSE leases[x]
  BY DEF Reconciled
<1>3. ASSUME NEW x \in Group, Flushable(x)
      PROVE  group[x].due = DeadlineOf(x) /\ DeadlineOf(x) \in Nat \ {0}
  <2>1. Exists(group, x)
    BY <1>3 DEF Flushable, Exists, NoGroup
  <2>2. QED
    BY <2>1, DeadlineTyped DEF TenureInvariant, DueAtDeadline
<1>4. ASSUME NEW x \in Group
      PROVE  /\ r.group[x] \in {group[x], NoGroup}
             /\ r.due[x] # Unindexed => DeadlineOf(x) <= r.due[x]
             /\ r.leases[x] \in {leases[x], Unindexed}
             /\ r.group[x].pending > 0 => r.due[x] # Unindexed \/ r.leases[x] # Unindexed
  <2>1. r.group[x] \in {group[x], NoGroup} /\ r.leases[x] \in {leases[x], Unindexed}
    BY <1>2
  <2>2. r.due[x] # Unindexed => DeadlineOf(x) <= r.due[x]
    <3>1. CASE r.due[x] = due[x]
      BY <3>1 DEF TenureInvariant, ClosedWhenDue
    <3>2. CASE Flushable(x) /\ r.due[x] = group[x].due
      BY <1>3, <3>2
    <3>3. QED
      BY <1>2, <3>1, <3>2
  <2>3. ASSUME r.group[x].pending > 0 PROVE r.due[x] # Unindexed \/ r.leases[x] # Unindexed
    <3>1. CASE x \in ExpiredLeases
      <4>1. Flushable(x)
        BY <1>2, <2>3, <3>1 DEF NoGroup
      <4>2. QED
        BY <1>2, <1>3, <3>1, <4>1 DEF Unindexed
    <3>2. CASE x \notin ExpiredLeases
      BY <1>2, <2>3, <3>2 DEF TenureInvariant, WorkIndexed
    <3>3. QED
      BY <3>1, <3>2
  <2>4. QED
    BY <2>1, <2>2, <2>3
<1>5. ASSUME NEW w \in Worker, Flushing(w), NEW x, x = worker[w].gid, Exists(group, x)
      PROVE  r.group[x] = group[x] /\ r.due[x] = Unindexed /\ r.leases[x] = leases[x]
  <2>1. /\ x \in Group /\ worker[w].claimedAt \in Nat
    BY <1>1, <1>5, FlushTyped DEF Flushing
  <2>2. /\ leases[x] = worker[w].claimedAt + Lease /\ due[x] = Unindexed
        /\ now <= worker[w].claimedAt + FlushTimeout
    BY <1>5 DEF TenureInvariant, HoldsLease, WithinTimeout
  <2>3. x \notin ExpiredLeases
    BY <1>1, <2>1, <2>2, Lifetimes DEF ExpiredLeases
  <2>4. QED
    BY <1>2, <2>1, <2>2, <2>3
<1>6. QED
  BY <1>4, <1>5

\* A poll: what becomes of the groups, and of the one that is claimed, if any.
PollEffect(w, claimed) ==
  /\ worker[w] = Idle
  /\ claimed \subseteq {g \in Group : /\ Exists(group, g) /\ Reconciled.group[g] = group[g]
                                      /\ Reconciled.due[g] \in 1..now}
  /\ \A g \in Group \ claimed :
       /\ group'[g] = Reconciled.group[g]
       /\ leases'[g] = Reconciled.leases[g]
       /\ due'[g] \in {Reconciled.due[g], Unindexed}
       /\ due'[g] # Reconciled.due[g] => ~Exists(Reconciled.group, g)
  /\ \A g \in claimed :
       /\ group'[g] = [group[g] EXCEPT !.lease = w]
       /\ leases'[g] = now + Lease
       /\ due'[g] = Unindexed
       /\ worker' = [worker EXCEPT ![w] =
            [step |-> "claimed", gid |-> g, claimedAt |-> now,
             actions |-> {}, generation |-> 0, expires |-> 0]]
  /\ claimed = {} => UNCHANGED worker
  /\ UNCHANGED <<now, generation, ingestion, ration, sends, interrupts>>

LEMMA PollEffects ==
  ASSUME TypeOK, NEW w \in Worker, Claim(w) \/ PollEmpty(w)
  PROVE  PollEffect(w, {}) \/ \E g \in Group : PollEffect(w, {g})
<1> DEFINE r == Reconciled
<1>1. /\ r.group \in [Group -> GroupState] /\ r.due \in [Group -> Nat]
      /\ r.leases \in [Group -> Nat] /\ now \in Nat \ {0}
  <2>1. now \in Nat \ {0}
    BY DEF TypeOK
  <2>2. QED
    BY <2>1, ReconciledTyped
<1>2. \A g \in Group : r.group[g] \in {group[g], NoGroup}
  BY DEF Reconciled
<1> HIDE DEF r
<1>3. ASSUME PollEmpty(w) PROVE PollEffect(w, {})
  <2>1. /\ worker[w] = Idle /\ group' = r.group /\ leases' = r.leases
        /\ due' = [g \in Group |-> IF g \in DueNow(r) THEN Unindexed ELSE r.due[g]]
        /\ Candidates(r) = {}
        /\ UNCHANGED <<now, generation, ingestion, ration, worker, sends, interrupts>>
    BY <1>3 DEF PollEmpty, r
  <2>2. \A g \in Group : due'[g] \in {r.due[g], Unindexed}
    BY <2>1
  <2>3. \A g \in Group : due'[g] # r.due[g] => ~Exists(r.group, g)
    BY <2>1 DEF Candidates
  <2>4. QED
    BY <2>1, <2>2, <2>3 DEF PollEffect, r
<1>4. ASSUME Claim(w) PROVE \E g \in Group : PollEffect(w, {g})
  <2>1. PICK g \in Oldest(r) :
          /\ group' = [r.group EXCEPT ![g].lease = w]
          /\ due' = [x \in Group |-> IF x = g \/ x \in Passed(r, g)
                                     THEN Unindexed ELSE r.due[x]]
          /\ leases' = [r.leases EXCEPT ![g] = now + Lease]
          /\ worker' = [worker EXCEPT ![w] =
                          [step |-> "claimed", gid |-> g, claimedAt |-> now,
                           actions |-> {}, generation |-> 0, expires |-> 0]]
    BY <1>4 DEF Claim, r
  <2>2. /\ worker[w] = Idle
        /\ UNCHANGED <<now, generation, ingestion, ration, sends, interrupts>>
    BY <1>4 DEF Claim
  <2>3. /\ g \in Group /\ Exists(r.group, g) /\ r.due[g] \in 1..now
    BY <1>1, <2>1 DEF Oldest, Candidates, DueNow, Unindexed
  <2>4. r.group[g] = group[g] /\ Exists(group, g)
    BY <1>2, <2>3 DEF Exists
  <2>5. /\ group'[g] = [group[g] EXCEPT !.lease = w]
        /\ leases'[g] = now + Lease /\ due'[g] = Unindexed
    BY <1>1, <2>1, <2>3, <2>4
  <2>6. \A x \in Group \ {g} :
          /\ group'[x] = r.group[x] /\ leases'[x] = r.leases[x]
          /\ due'[x] \in {r.due[x], Unindexed}
          /\ due'[x] # r.due[x] => ~Exists(r.group, x)
    BY <1>1, <2>1, <2>3 DEF Passed, Candidates
  <2>7. PollEffect(w, {g})
    BY <2>1, <2>2, <2>3, <2>4, <2>5, <2>6 DEF PollEffect, r
  <2>8. QED
    BY <2>3, <2>7
<1>5. QED
  BY <1>3, <1>4

LEMMA PollTenure ==
  ASSUME TenureInvariant, TypeOK', NEW w \in Worker, NEW claimed, PollEffect(w, claimed),
         claimed = {} \/ \E g \in Group : claimed = {g}
  PROVE  TenureInvariant'
<1> DEFINE r == Reconciled
<1>1. /\ TypeOK /\ now \in Nat \ {0} /\ group \in [Group -> GroupState]
      /\ worker \in [Worker -> FlushState]
  <2>1. TypeOK
    BY DEF TenureInvariant
  <2>2. now \in Nat \ {0}
    BY <2>1 DEF TypeOK
  <2>3. group \in [Group -> GroupState] /\ worker \in [Worker -> FlushState]
    BY <2>1 DEF TypeOK
  <2>4. QED
    BY <2>1, <2>2, <2>3
<1>2. /\ \A x \in Group :
           /\ r.group[x] \in {group[x], NoGroup}
           /\ r.due[x] # Unindexed => DeadlineOf(x) <= r.due[x]
           /\ r.leases[x] \in {leases[x], Unindexed}
           /\ r.group[x].pending > 0 => r.due[x] # Unindexed \/ r.leases[x] # Unindexed
      /\ \A v \in Worker : Flushing(v) /\ Exists(group, worker[v].gid) =>
           LET x == worker[v].gid
           IN r.group[x] = group[x] /\ r.due[x] = Unindexed /\ r.leases[x] = leases[x]
  BY ReconcileEffects
<1>3. UNCHANGED <<now, submitted>>
  BY DEF PollEffect, sends
<1>4. \A x \in Group \ claimed :
        /\ group'[x] = r.group[x] /\ leases'[x] = r.leases[x]
        /\ due'[x] \in {r.due[x], Unindexed}
        /\ due'[x] # r.due[x] => ~Exists(r.group, x)
  BY DEF PollEffect
<1>5. \A x \in claimed :
        /\ x \in Group /\ Exists(group, x) /\ r.due[x] \in 1..now
        /\ group'[x] = [group[x] EXCEPT !.lease = w]
        /\ leases'[x] = now + Lease /\ due'[x] = Unindexed
        /\ worker' = [worker EXCEPT ![w] =
             [step |-> "claimed", gid |-> x, claimedAt |-> now,
              actions |-> {}, generation |-> 0, expires |-> 0]]
  BY DEF PollEffect
<1> HIDE DEF r
<1>6. \A x \in claimed : /\ group'[x].due = group[x].due /\ group'[x].lease = w
                         /\ Exists(group', x) => Exists(group, x)
                         /\ DeadlineOf(x) <= now
                         /\ worker'[w] = [step |-> "claimed", gid |-> x, claimedAt |-> now,
                                          actions |-> {}, generation |-> 0, expires |-> 0]
  <2> SUFFICES ASSUME NEW x \in claimed
               PROVE  /\ group'[x].due = group[x].due /\ group'[x].lease = w
                      /\ DeadlineOf(x) <= now
                      /\ worker'[w] = [step |-> "claimed", gid |-> x, claimedAt |-> now,
                                       actions |-> {}, generation |-> 0, expires |-> 0]
    BY <1>5
  <2>1. group'[x].due = group[x].due /\ group'[x].lease = w
    BY <1>1, <1>5 DEF GroupState
  <2>2. DeadlineOf(x) <= now
    <3>1. x \in Group /\ r.due[x] \in 1..now /\ DeadlineOf(x) \in Nat
      BY <1>5, DeadlineTyped
    <3>2. DeadlineOf(x) <= r.due[x]
      BY <1>2, <3>1 DEF Unindexed
    <3>3. QED
      BY <1>1, <3>1, <3>2
  <2>3. QED
    BY <1>1, <1>5, <2>1, <2>2
<1>7. \A v \in Worker : \/ worker'[v] = worker[v]
                        \/ v = w /\ \E x \in claimed : worker'[v].gid = x /\ worker'[v].claimedAt = now
  <2>1. CASE claimed = {}
    BY <2>1 DEF PollEffect
  <2>2. ASSUME NEW x \in claimed, NEW v \in Worker, worker'[v] # worker[v]
        PROVE  v = w /\ worker'[v].gid = x /\ worker'[v].claimedAt = now
    <3>1. v = w
      BY <1>1, <1>5, <2>2
    <3>2. worker'[w] = [step |-> "claimed", gid |-> x, claimedAt |-> now,
                        actions |-> {}, generation |-> 0, expires |-> 0]
      BY <1>6
    <3>3. QED
      BY <3>1, <3>2
  <2>3. QED
    BY <2>1, <2>2
<1>8. \A v \in Worker : Flushing(v) => worker[v].gid \in Group \ claimed
  <2> SUFFICES ASSUME NEW v \in Worker, Flushing(v), worker[v].gid \in claimed PROVE FALSE
    BY <1>1, FlushTyped DEF Flushing
  <2>1. Exists(group, worker[v].gid) /\ r.due[worker[v].gid] \in 1..now
    BY <1>5
  <2>2. r.due[worker[v].gid] = Unindexed
    BY <1>2, <2>1
  <2>3. QED
    BY <1>1, <2>1, <2>2 DEF Unindexed
<1>9. DueAtDeadline'
  <2> SUFFICES ASSUME NEW x \in Group, Exists(group', x)
               PROVE  group'[x].due = DeadlineOf(x)
    BY DEF DueAtDeadline
  <2>1. CASE x \in claimed
    BY <1>5, <1>6, <2>1 DEF TenureInvariant, DueAtDeadline
  <2>2. CASE x \notin claimed
    BY <1>2, <1>4, <2>2 DEF TenureInvariant, DueAtDeadline, Exists
  <2>3. QED
    BY <2>1, <2>2
<1>10. ClosedWhenDue'
  <2>1. ASSUME NEW x \in Group, due'[x] # Unindexed PROVE DeadlineOf(x) <= due'[x]
    <3>1. x \notin claimed
      BY <1>5, <2>1
    <3>2. due'[x] = r.due[x] /\ r.due[x] # Unindexed
      BY <1>4, <2>1, <3>1
    <3>3. QED
      BY <1>2, <3>2
  <2>2. ASSUME NEW x \in Group, leases'[x] # Unindexed PROVE DeadlineOf(x) <= now
    <3>1. CASE x \in claimed
      BY <1>6, <3>1
    <3>2. CASE x \notin claimed
      BY <1>2, <1>4, <2>2, <3>2 DEF TenureInvariant, ClosedWhenDue
    <3>3. QED
      BY <3>1, <3>2
  <2>3. \A v \in Worker : worker'[v] # Idle => DeadlineOf(worker'[v].gid) <= now
    BY <1>6, <1>7 DEF TenureInvariant, ClosedWhenDue
  <2>4. \A x \in Group : submitted'[x] # <<>> => DeadlineOf(x) <= now
    BY <1>3 DEF TenureInvariant, ClosedWhenDue
  <2>5. QED
    BY <1>3, <2>1, <2>2, <2>3, <2>4 DEF ClosedWhenDue
<1>11. WithinTimeout'
  BY <1>1, <1>3, <1>7, Lifetimes DEF WithinTimeout, Flushing, TenureInvariant
<1>12. OneFlushEach'
  <2> SUFFICES ASSUME NEW u \in Worker, NEW v \in Worker, Flushing(u)', Flushing(v)',
                      worker'[u].gid = worker'[v].gid
               PROVE  u = v
    BY DEF OneFlushEach
  <2>1. CASE worker'[u] = worker[u] /\ worker'[v] = worker[v]
    BY <2>1 DEF TenureInvariant, OneFlushEach, Flushing
  <2>2. CASE u = w /\ v = w
    BY <2>2
  <2>3. ASSUME NEW y \in Worker, NEW z \in Worker, worker'[y] = worker[y], Flushing(y)',
               \E x \in claimed : worker'[z].gid = x
        PROVE  worker'[y].gid # worker'[z].gid
    BY <1>8, <2>3 DEF Flushing
  <2>4. QED
    BY <1>7, <2>1, <2>2, <2>3
<1>13. HoldsLease'
  <2> SUFFICES ASSUME NEW v \in Worker, Flushing(v)', NEW x, x = worker'[v].gid, Exists(group', x)
               PROVE  /\ group'[x].lease = v
                      /\ leases'[x] = worker'[v].claimedAt + Lease
                      /\ due'[x] = Unindexed
    BY DEF HoldsLease
  <2>1. CASE worker'[v] = worker[v]
    <3>1. Flushing(v) /\ x \in Group \ claimed
      BY <1>8, <2>1 DEF Flushing
    <3>2. Exists(group, x)
      BY <1>2, <1>4, <3>1 DEF Exists
    <3>3. group'[x] = group[x] /\ leases'[x] = leases[x] /\ due'[x] = Unindexed
      BY <1>2, <1>4, <2>1, <3>1, <3>2
    <3>4. QED
      BY <2>1, <3>1, <3>2, <3>3 DEF TenureInvariant, HoldsLease
  <2>2. CASE v = w /\ x \in claimed /\ worker'[v].claimedAt = now
    BY <1>5, <1>6, <2>2
  <2>3. QED
    BY <1>7, <2>1, <2>2
<1>14. WorkIndexed'
  <2> SUFFICES ASSUME NEW x \in Group, group'[x].pending > 0
               PROVE  due'[x] # Unindexed \/ leases'[x] # Unindexed
    BY DEF WorkIndexed
  <2>1. CASE x \in claimed
    <3>1. leases'[x] = now + Lease
      BY <1>5, <2>1
    <3>2. QED
      BY <1>1, <3>1, Lifetimes DEF Unindexed
  <2>2. CASE x \notin claimed
    <3>1. Exists(r.group, x)
      BY <1>4, <2>2 DEF Exists, NoGroup
    <3>2. QED
      BY <1>2, <1>4, <2>2, <3>1
  <2>3. QED
    BY <2>1, <2>2
<1>15. QED
  BY <1>9, <1>10, <1>11, <1>12, <1>13, <1>14 DEF TenureInvariant

LEMMA VisitTenure ==
  ASSUME TenureInvariant, TypeOK', Visit
  PROVE  TenureInvariant'
BY DEF TenureInvariant, Visit, index, sends, DueAtDeadline, ClosedWhenDue, WithinTimeout,
  HoldsLease, OneFlushEach, WorkIndexed, Flushing, Exists

LEMMA TickTenure ==
  ASSUME TenureInvariant, TypeOK', Tick
  PROVE  TenureInvariant'
<1>1. /\ now \in Nat /\ now' = now + 1
      /\ group \in [Group -> GroupState]
      /\ \A w \in Worker : Flushing(w) => InTime(w)
      /\ UNCHANGED <<due, leases, worker, submitted>>
  BY DEF TenureInvariant, TypeOK, Tick, sends
<1>2. \A g \in Group : group'[g] \in {group[g], NoGroup}
  BY DEF Tick
<1>3. DueAtDeadline'
  BY <1>2 DEF TenureInvariant, DueAtDeadline, Exists
<1>4. ClosedWhenDue'
  <2>1. \A g \in Group : DeadlineOf(g) \in Nat
    BY DeadlineTyped
  <2>2. \A w \in Worker : worker[w] # Idle => worker[w].gid \in Group
    BY FlushTyped DEF TenureInvariant
  <2>3. QED
    BY <1>1, <2>1, <2>2 DEF TenureInvariant, ClosedWhenDue
<1>5. WithinTimeout' /\ OneFlushEach'
  <2>1. \A w \in Worker : Flushing(w) => worker[w].claimedAt \in Nat
    BY FlushTyped DEF TenureInvariant, Flushing
  <2>2. QED
    BY <1>1, <2>1, Lifetimes DEF TenureInvariant, WithinTimeout, OneFlushEach, Flushing, InTime
<1>6. HoldsLease'
  <2>1. \A w \in Worker : Flushing(w) => worker[w].gid \in Group
    BY FlushTyped DEF TenureInvariant, Flushing
  <2>2. QED
    BY <1>1, <1>2, <2>1 DEF TenureInvariant, HoldsLease, Flushing, Exists
<1>7. WorkIndexed'
  BY <1>1, <1>2 DEF TenureInvariant, WorkIndexed, NoGroup
<1>8. QED
  BY <1>3, <1>4, <1>5, <1>6, <1>7 DEF TenureInvariant

\* What a step leaves of an index that it does not touch.
LEMMA SubmittedAt ==
  ASSUME TypeOK, NEW w \in Worker, AfterClaim(w)
  PROVE  \A g \in Group : submitted'[g] # submitted[g] => g = worker[w].gid
<1>1. submitted \in [Group -> Seq(SUBSET Action)]
  BY DEF TypeOK
<1>2. UNCHANGED submitted \/ Submitted(w)
  BY DEF AfterClaim, FlushStep, Load, Drop, Spend, Refund, Suppress, Defer, Submit, SubmitInVain,
    Complete, TimeOut, PutBack, Crash, Fail, LoseReply, sends
<1>3. QED
  BY <1>1, <1>2 DEF Submitted

LEMMA TenureKept == TenureInvariant /\ [Next]_vars => TenureInvariant'
<1> SUFFICES ASSUME TenureInvariant, [Next]_vars PROVE TenureInvariant'
  OBVIOUS
<1>1. TypeOK /\ TypeOK'
  BY TypesKept DEF TenureInvariant
<1>2. CASE UNCHANGED vars
  BY <1>1, <1>2 DEF vars, coalesceVars, index, sends, TenureInvariant, DueAtDeadline, ClosedWhenDue,
    WithinTimeout, HoldsLease, OneFlushEach, WorkIndexed, Flushing, Exists
<1>3. ASSUME Next, NEW e \in Event, EventStep(e) PROVE TenureInvariant'
  BY <1>1, <1>3, EventTenure
<1>4. ASSUME Next, NEW w \in Worker, AfterClaim(w), UNCHANGED setting PROVE TenureInvariant'
  BY <1>1, <1>4, FlushEffects, SubmittedAt, FlushTenure
<1>5. ASSUME Next, NEW w \in Worker, Claim(w) \/ PollEmpty(w) PROVE TenureInvariant'
  BY <1>1, <1>5, PollEffects, PollTenure
<1>6. CASE Next /\ Visit
  BY <1>1, <1>6, VisitTenure
<1>7. CASE Next /\ Tick
  BY <1>1, <1>7, TickTenure
<1>8. QED
  BY <1>2, <1>3, <1>4, <1>5, <1>6, <1>7 DEF Next, WorkerStep, AfterClaim

THEOREM TenureAlways == Spec => []TenureInvariant
BY TenureAtFirst, TenureKept, PTL DEF Spec

-----------------------------------------------------------------------------
(* A group is submitted again only after an interruption                     *)

\* What a step of a flush submits, and when it counts as an interruption.
Appended(w) ==
  /\ Flushing(w) /\ worker[w].step \in BeforeSubmission /\ worker[w].generation = generation
  /\ submitted'[worker[w].gid] = Append(submitted[worker[w].gid], worker[w].actions)
  /\ worker'[w].step \in {"sent", "rejected"}

Interrupted(w) == interrupts'[worker[w].gid] = interrupts[worker[w].gid] + 1

SendEffect(w) ==
  LET g == worker[w].gid
  IN /\ \A x \in Group \ {g} : submitted'[x] = submitted[x] /\ interrupts'[x] = interrupts[x]
     /\ \/ /\ UNCHANGED <<submitted, interrupts>>
           /\ Flushing(w)' => Flushing(w) /\ worker'[w].step # "sent"
           /\ Sent(w) => ~Flushing(w)' /\ Finished(w, g)
        \/ UNCHANGED submitted /\ Interrupted(w) /\ ~Flushing(w)'
        \/ Appended(w) /\ UNCHANGED interrupts /\ worker'[w].step = "sent"
        \/ Appended(w) /\ Interrupted(w) /\ worker'[w].step = "rejected"

LEMMA SendEffects ==
  ASSUME TypeOK, NEW w \in Worker, AfterClaim(w)
  PROVE  SendEffect(w)
<1> DEFINE g == worker[w].gid
<1>1. /\ worker \in [Worker -> FlushState]
      /\ submitted \in [Group -> Seq(SUBSET Action)] /\ interrupts \in [Group -> Nat]
  BY DEF TypeOK
<1>2. worker[w] # Idle => g \in Group
  BY FlushTyped
<1>3. \A s : At(w, s) => Flushing(w) /\ worker[w] # Idle /\ worker[w].step = s
  BY DEF At, InTime, Flushing
<1>4. Rest(w) => ~Flushing(w)'
  BY <1>1 DEF Rest, Flushing
<1>5. \A s : worker[w] # Idle /\ worker' = [worker EXCEPT ![w].step = s] =>
        worker'[w].step = s /\ (Flushing(w)' => s # "failed")
  BY <1>1, FlushTyped DEF Flushing
<1>6. worker[w] # Idle /\ interrupts' = [interrupts EXCEPT ![g] = @ + 1] =>
        Interrupted(w) /\ \A x \in Group \ {g} : interrupts'[x] = interrupts[x]
  BY <1>1, <1>2 DEF Interrupted
<1>7. worker[w] # Idle /\ Submitted(w) =>
        /\ submitted'[g] = Append(submitted[g], worker[w].actions)
        /\ \A x \in Group \ {g} : submitted'[x] = submitted[x]
  BY <1>1, <1>2 DEF Submitted
<1>8. CASE Load(w)
  <2>1. worker[w] # Idle /\ worker[w].step = "claimed" /\ Flushing(w)
    BY <1>3, <1>8 DEF Load
  <2>2. worker'[w].step = "loaded"
    BY <1>1, <1>8, <2>1, FlushTyped DEF Load
  <2>3. UNCHANGED <<submitted, interrupts>>
    BY <1>8 DEF Load, sends
  <2>4. QED
    BY <2>1, <2>2, <2>3 DEF SendEffect, Sent
<1>9. CASE Drop(w) \/ Suppress(w) \/ Defer(w)
  <2>1. Flushing(w) /\ worker[w].step # "sent"
    BY <1>3, <1>9 DEF Drop, Suppress, Defer, Settled
  <2>2. UNCHANGED <<submitted, interrupts>> /\ Rest(w)
    BY <1>9 DEF Drop, Suppress, Defer, sends
  <2>3. QED
    BY <1>4, <2>1, <2>2 DEF SendEffect, Sent
<1>10. CASE Complete(w)
  BY <1>4, <1>10 DEF Complete, SendEffect, sends
<1>11. CASE Spend(w) \/ Refund(w)
  <2>1. Flushing(w) /\ worker[w] # Idle /\ worker[w].step # "sent"
    BY <1>3, <1>11 DEF Spend, Refund
  <2>2. UNCHANGED <<submitted, interrupts>>
    BY <1>11 DEF Spend, Refund, sends
  <2>3. \/ Rest(w)
        \/ \E s \in {"charged", "refunded"} : worker' = [worker EXCEPT ![w].step = s]
    BY <1>11 DEF Spend, Refund
  <2>4. Flushing(w)' => worker'[w].step # "sent"
    BY <1>4, <1>5, <2>1, <2>3
  <2>5. QED
    BY <2>1, <2>2, <2>4 DEF SendEffect, Sent
<1>12. CASE Submit(w) \/ SubmitInVain(w)
  <2>1. /\ Flushing(w) /\ worker[w] # Idle /\ worker[w].step \in BeforeSubmission
        /\ worker[w].generation = generation
    BY <1>3, <1>12 DEF Submit, SubmitInVain, CanSubmit, BeforeSubmission
  <2>2. CASE Submit(w)
    <3>1. worker'[w].step = "sent" /\ UNCHANGED interrupts
      BY <1>5, <2>1, <2>2 DEF Submit
    <3>2. Submitted(w)
      BY <2>2 DEF Submit
    <3>3. QED
      BY <1>7, <2>1, <3>1, <3>2 DEF SendEffect, Appended
  <2>3. CASE SubmitInVain(w)
    <3>1. worker'[w].step = "rejected"
      BY <1>5, <2>1, <2>3 DEF SubmitInVain
    <3>2. CASE UNCHANGED <<submitted, interrupts>>
      BY <2>1, <3>1, <3>2 DEF SendEffect, Sent, BeforeSubmission
    <3>3. CASE Interrupt(w) /\ Submitted(w)
      <4>1. Interrupted(w) /\ \A x \in Group \ {g} : interrupts'[x] = interrupts[x]
        BY <1>6, <2>1, <3>3 DEF Interrupt
      <4>2. QED
        BY <1>7, <2>1, <3>1, <3>3, <4>1 DEF SendEffect, Appended
    <3>4. QED
      BY <2>3, <3>2, <3>3 DEF SubmitInVain, sends
  <2>4. QED
    BY <1>12, <2>2, <2>3
<1>13. CASE PutBack(w)
  <2>1. UNCHANGED <<submitted, interrupts>> /\ Rest(w) /\ ~Flushing(w)
    BY <1>13 DEF PutBack, sends, Flushing
  <2>2. QED
    BY <1>4, <2>1 DEF SendEffect, Sent
<1>14. CASE TimeOut(w) \/ Crash(w) \/ Fail(w) \/ LoseReply(w)
  <2>1. worker[w] # Idle /\ UNCHANGED submitted
    BY <1>14 DEF TimeOut, Crash, Fail, LoseReply, Flushing, At, InTime, sends
  <2>2. interrupts' = [interrupts EXCEPT ![g] = @ + 1]
    BY <1>14 DEF TimeOut, Crash, Fail, LoseReply, Interrupt
  <2>3. Rest(w) \/ worker' = [worker EXCEPT ![w].step = "failed"]
    BY <1>14 DEF TimeOut, Crash, Fail, LoseReply
  <2>4. ~Flushing(w)'
    BY <1>4, <1>5, <2>1, <2>3
  <2>5. QED
    BY <1>6, <2>1, <2>2, <2>4 DEF SendEffect
<1>15. QED
  BY <1>8, <1>9, <1>10, <1>11, <1>12, <1>13, <1>14 DEF AfterClaim, FlushStep

\* A flush that finishes leaves no group behind.
LEMMA FinishRemoves ==
  ASSUME TenureInvariant, NEW w \in Worker, Flushing(w), Finished(w, worker[w].gid)
  PROVE  ~Exists(group', worker[w].gid)
<1>1. TypeOK
  BY DEF TenureInvariant
<1>2. worker[w].gid \in Group /\ group \in [Group -> GroupState]
  BY <1>1, FlushTyped DEF TypeOK, Flushing
<1>3. CASE Owns(w, worker[w].gid)
  BY <1>2, <1>3 DEF Finished, Exists
<1>4. CASE ~Owns(w, worker[w].gid)
  BY <1>4 DEF Finished, TenureInvariant, HoldsLease, Owns, Exists
<1>5. QED
  BY <1>3, <1>4

LEMMA SubmitsAtFirst == Init => SubmitInvariant
BY DEF Init, SubmitInvariant, SubmittedOncePerInterruption, Explained, Sent, Flushing, Exists

\* Steps outside the flushes: a group that appears is not submitted yet.
LEMMA QuietSubmits ==
  ASSUME TenureInvariant, SubmitInvariant, UNCHANGED <<submitted, interrupts, worker>>,
         \A g \in Group : Exists(group', g) => Exists(group, g) \/ submitted[g] = <<>>
  PROVE  SubmitInvariant'
<1>1. \A g \in Group : submitted[g] = <<>> => Explained(g)
  <2>1. interrupts \in [Group -> Nat]
    BY DEF TenureInvariant, TypeOK
  <2>2. QED
    BY <2>1 DEF Explained
<1>2. \A g \in Group : Exists(group', g) /\ (\A w \in Worker : Sent(w) => worker[w].gid # g)
        => Explained(g)
  BY <1>1 DEF SubmitInvariant
<1>3. QED
  BY <1>2 DEF SubmitInvariant, SubmittedOncePerInterruption, Explained, Sent, Flushing, Exists

LEMMA PollSubmits ==
  ASSUME TenureInvariant, SubmitInvariant, NEW w \in Worker, NEW claimed,
         PollEffect(w, claimed), claimed = {} \/ \E g \in Group : claimed = {g}
  PROVE  SubmitInvariant'
<1>1. UNCHANGED <<submitted, interrupts>>
  BY DEF PollEffect, sends
<1>2. \A g \in Group : Exists(group', g) => Exists(group, g)
  <2>1. \A g \in Group \ claimed : group'[g] \in {group[g], NoGroup}
    BY ReconcileEffects DEF PollEffect
  <2>2. \A g \in claimed : Exists(group, g)
    BY DEF PollEffect
  <2>3. QED
    BY <2>1, <2>2 DEF Exists
<1>3. CASE claimed = {}
  BY <1>1, <1>2, <1>3, QuietSubmits DEF PollEffect
<1>4. ASSUME NEW g \in Group, claimed = {g} PROVE SubmitInvariant'
  <2>1. /\ worker[w] = Idle /\ Exists(group, g) /\ Reconciled.due[g] \in 1..now
        /\ worker' = [worker EXCEPT ![w] =
             [step |-> "claimed", gid |-> g, claimedAt |-> now,
              actions |-> {}, generation |-> 0, expires |-> 0]]
    BY <1>4 DEF PollEffect
  <2>2. worker \in [Worker -> FlushState]
    BY DEF TenureInvariant, TypeOK
  <2>3. /\ worker'[w] = [step |-> "claimed", gid |-> g, claimedAt |-> now,
                         actions |-> {}, generation |-> 0, expires |-> 0]
        /\ \A v \in Worker \ {w} : worker'[v] = worker[v]
    BY <2>1, <2>2
  <2>4. worker'[w].step = "claimed" /\ worker'[w].gid = g
    BY <2>3
  <2>5. \A v \in Worker : Flushing(v) => worker[v].gid # g
    <3> SUFFICES ASSUME NEW v \in Worker, Flushing(v), worker[v].gid = g PROVE FALSE
      OBVIOUS
    <3>1. Reconciled.due[g] = Unindexed
      BY <2>1, ReconcileEffects
    <3>2. now \in Nat
      BY DEF TenureInvariant, TypeOK
    <3>3. QED
      BY <2>1, <3>1, <3>2 DEF Unindexed
  <2>6. Explained(g)
    BY <2>1, <2>5 DEF SubmitInvariant, Sent
  <2>7. \A v \in Worker : Sent(v)' <=> Sent(v)
    BY <2>1, <2>3, <2>4 DEF Sent, Flushing
  <2>8. \A v \in Worker : Sent(v) => worker'[v].gid = worker[v].gid
    BY <2>1, <2>3 DEF Sent, Flushing
  <2>9. \A x \in Group : Exists(group', x) /\ (\A v \in Worker : Sent(v)' => worker'[v].gid # x)
          => Explained(x)
    BY <1>2, <2>7, <2>8 DEF SubmitInvariant
  <2>10. \A v \in Worker : Flushing(v)' /\ ~Sent(v)' => Explained(worker'[v].gid)
    BY <2>3, <2>4, <2>6, <2>7 DEF SubmitInvariant, Flushing
  <2>11. QED
    BY <1>1, <2>9, <2>10 DEF SubmitInvariant, SubmittedOncePerInterruption, Explained, Exists
<1>5. QED
  BY <1>3, <1>4

LEMMA FlushSubmits ==
  ASSUME TenureInvariant, SubmitInvariant, NEW w \in Worker, FlushEffect(w), SendEffect(w),
         NEW g, g = worker[w].gid
  PROVE  SubmitInvariant'
<1>1. /\ TypeOK /\ worker[w] # Idle
      /\ submitted \in [Group -> Seq(SUBSET Action)] /\ interrupts \in [Group -> Nat]
  <2>1. TypeOK /\ worker[w] # Idle
    BY DEF TenureInvariant, FlushEffect
  <2>2. QED
    BY <2>1 DEF TypeOK
<1>2. g \in Group /\ worker[w].actions \in SUBSET Action
  BY <1>1, FlushTyped
<1>3. /\ \A v \in Worker \ {w} : worker'[v] = worker[v]
      /\ Flushing(w)' => worker'[w].gid = g
  BY DEF FlushEffect, Flushing
<1>4. \A x \in Group : Exists(group', x) => Exists(group, x)
  BY DEF FlushEffect, Released, Exists, index
<1>5. \A x \in Group \ {g} : submitted'[x] = submitted[x] /\ interrupts'[x] = interrupts[x]
  BY DEF SendEffect
<1>6. \A v \in Worker : Flushing(v) /\ v # w /\ Flushing(w) => worker[v].gid # g
  BY DEF TenureInvariant, OneFlushEach
<1>7. Len(submitted[g]) \in Nat /\ interrupts[g] \in Nat /\ Len(submitted[g]) <= 1 + interrupts[g]
  BY <1>1, <1>2 DEF SubmitInvariant, SubmittedOncePerInterruption
<1>8. Appended(w) => /\ Len(submitted'[g]) = Len(submitted[g]) + 1
                     /\ Len(submitted[g]) <= interrupts[g]
                     /\ Flushing(w) /\ ~Sent(w)
  BY <1>1, <1>2 DEF Appended, SubmitInvariant, Explained, Sent, BeforeSubmission
\* What holds of this group afterwards.
<1>9. /\ Len(submitted'[g]) <= 1 + interrupts'[g]
      /\ Exists(group', g) /\ ~Sent(w)' /\ (\A v \in Worker \ {w} : Sent(v) => worker[v].gid # g)
           => Explained(g)'
      /\ Flushing(w)' /\ ~Sent(w)' => Explained(g)'
  <2>1. CASE /\ UNCHANGED <<submitted, interrupts>>
             /\ Flushing(w)' => Flushing(w) /\ worker'[w].step # "sent"
             /\ Sent(w) => ~Flushing(w)' /\ Finished(w, g)
    <3>1. Explained(g)' <=> Explained(g)
      BY <2>1 DEF Explained
    <3>2. Flushing(w)' => Explained(g)
      BY <2>1 DEF SubmitInvariant
    <3>3. Exists(group', g) /\ (\A v \in Worker \ {w} : Sent(v) => worker[v].gid # g) => Explained(g)
      <4>1. Sent(w) => ~Exists(group', g)
        BY <2>1, FinishRemoves DEF Sent
      <4>2. QED
        BY <1>2, <1>4, <4>1 DEF SubmitInvariant
    <3>4. QED
      BY <1>7, <2>1, <3>1, <3>2, <3>3
  <2>2. CASE UNCHANGED submitted /\ Interrupted(w) /\ ~Flushing(w)'
    BY <1>7, <2>2 DEF Interrupted, Explained
  <2>3. CASE Appended(w) /\ UNCHANGED interrupts /\ worker'[w].step = "sent"
    <3>1. Flushing(w)' => Sent(w)'
      BY <2>3 DEF Sent
    <3>2. Flushing(w)'
      BY <2>3 DEF Flushing, Idle
    <3>3. QED
      BY <1>7, <1>8, <2>3, <3>1, <3>2
  <2>4. CASE Appended(w) /\ Interrupted(w) /\ worker'[w].step = "rejected"
    BY <1>7, <1>8, <2>4 DEF Interrupted, Explained
  <2>5. QED
    BY <2>1, <2>2, <2>3, <2>4 DEF SendEffect
<1>10. \A v \in Worker \ {w} : (Sent(v)' <=> Sent(v)) /\ (Flushing(v)' <=> Flushing(v))
  BY <1>3 DEF Sent, Flushing
<1>11. ASSUME NEW x \in Group, Exists(group', x), \A v \in Worker : Sent(v)' => worker'[v].gid # x
       PROVE  Explained(x)'
  <2>1. CASE x = g
    BY <1>3, <1>9, <1>10, <1>11, <2>1 DEF Sent
  <2>2. CASE x # g
    <3>1. \A v \in Worker : Sent(v) => worker[v].gid # x
      BY <1>3, <1>10, <1>11, <2>2
    <3>2. Explained(x)
      BY <1>4, <1>11, <3>1 DEF SubmitInvariant
    <3>3. QED
      BY <1>5, <2>2, <3>2 DEF Explained
  <2>3. QED
    BY <2>1, <2>2
<1>12. ASSUME NEW v \in Worker, Flushing(v)', ~Sent(v)' PROVE Explained(worker[v].gid)'
  <2>1. CASE v = w
    BY <1>3, <1>9, <1>12, <2>1
  <2>2. CASE v # w
    <3>1. Flushing(v) /\ ~Sent(v) /\ worker'[v].gid = worker[v].gid
      BY <1>3, <1>10, <1>12, <2>2
    <3>2. worker[v].gid \in Group
      BY <1>1, <3>1, FlushTyped DEF Flushing
    <3>3. Explained(worker[v].gid)
      BY <3>1 DEF SubmitInvariant
    <3>4. CASE worker[v].gid # g
      BY <1>5, <3>1, <3>2, <3>3, <3>4 DEF Explained
    <3>5. CASE worker[v].gid = g
      <4>1. ~Flushing(w)
        BY <1>6, <2>2, <3>1, <3>5
      <4>2. ~Appended(w)
        BY <4>1 DEF Appended
      <4>3. submitted' = submitted /\ (interrupts' = interrupts \/ Interrupted(w))
        BY <4>2 DEF SendEffect
      <4>4. QED
        BY <1>7, <3>1, <3>3, <3>5, <4>3 DEF Explained, Interrupted
    <3>6. QED
      BY <3>4, <3>5
  <2>3. QED
    BY <2>1, <2>2
<1>13. SubmittedOncePerInterruption'
  BY <1>5, <1>9 DEF SubmitInvariant, SubmittedOncePerInterruption
<1>14. QED
  <2>1. \A x \in Group : Exists(group', x) <=> Exists(group, x)'
    BY DEF Exists
  <2>2. QED
    BY <1>11, <1>12, <1>13, <2>1 DEF SubmitInvariant

LEMMA EventOpens ==
  ASSUME TenureInvariant, NEW e \in Event, EventStep(e)
  PROVE  /\ UNCHANGED <<submitted, interrupts, worker>>
         /\ \A g \in Group : Exists(group', g) => Exists(group, g) \/ submitted[g] = <<>>
<1>1. TypeOK /\ now \in Nat
  BY DEF TenureInvariant, TypeOK
<1>2. CurrentGroup(e) \in Group /\ now < DeadlineOf(CurrentGroup(e))
  BY <1>1, CurrentGroupIs
<1>3. submitted[CurrentGroup(e)] = <<>>
  <2>1. DeadlineOf(CurrentGroup(e)) \in Nat
    BY <1>2, DeadlineTyped
  <2>2. QED
    BY <1>1, <1>2, <2>1 DEF TenureInvariant, ClosedWhenDue
<1>4. QED
  BY <1>1, <1>3, EventEffects DEF Exists

LEMMA SubmitsKept == TenureInvariant /\ SubmitInvariant /\ [Next]_vars => SubmitInvariant'
<1> SUFFICES ASSUME TenureInvariant, SubmitInvariant, [Next]_vars PROVE SubmitInvariant'
  OBVIOUS
<1>1. TypeOK
  BY DEF TenureInvariant
<1>2. CASE UNCHANGED vars
  BY <1>2, QuietSubmits DEF vars, coalesceVars, index, sends, Exists
<1>3. ASSUME NEW e \in Event, EventStep(e) PROVE SubmitInvariant'
  BY <1>3, EventOpens, QuietSubmits
<1>4. ASSUME NEW w \in Worker, AfterClaim(w) PROVE SubmitInvariant'
  BY <1>1, <1>4, FlushEffects, SendEffects, FlushSubmits
<1>5. ASSUME NEW w \in Worker, Claim(w) \/ PollEmpty(w) PROVE SubmitInvariant'
  BY <1>1, <1>5, PollEffects, PollSubmits
<1>6. CASE Visit
  BY <1>6, QuietSubmits DEF Visit, index, sends, Exists
<1>7. CASE Tick
  <2>1. UNCHANGED <<submitted, interrupts, worker>>
    BY <1>7 DEF Tick, sends
  <2>2. \A g \in Group : group'[g] \in {group[g], NoGroup}
    BY <1>7 DEF Tick
  <2>3. QED
    BY <2>1, <2>2, QuietSubmits DEF Exists
<1>8. QED
  BY <1>2, <1>3, <1>4, <1>5, <1>6, <1>7 DEF Next, WorkerStep, AfterClaim

\* A group's summary is submitted once, and again only for a flush that crashed, timed
\* out, failed or lost its answer before it could complete (coalesce.rs, flush_group and
\* complete_group).
THEOREM SubmissionsAreExplained == Spec => []SubmittedOncePerInterruption
<1>1. Init => SubmitInvariant
  BY SubmitsAtFirst
<1>2. TenureInvariant /\ SubmitInvariant /\ [Next]_vars => SubmitInvariant'
  BY SubmitsKept
<1>3. SubmitInvariant => SubmittedOncePerInterruption
  BY DEF SubmitInvariant
<1>4. QED
  BY <1>1, <1>2, <1>3, TenureAlways, PTL DEF Spec

-----------------------------------------------------------------------------
(* What groups hold, and what flushes have read of them                      *)

\* A group that is still there holds what it held.
ContentKept ==
  \A g \in Group : Exists(group', g) =>
    /\ Exists(group, g)
    /\ group'[g].actions = group[g].actions
    /\ group'[g].generation = group[g].generation
    /\ group'[g].evicted = group[g].evicted

\* A flush that is about to submit has just read its group, or had read it before.
ReadEffect(w) ==
  /\ \A v \in Worker \ {w} : worker'[v] = worker[v]
  /\ Flushing(w)' /\ worker'[w].step \in BeforeSubmission =>
       /\ worker'[w].gid = worker[w].gid
       /\ Flushing(w)
       /\ \/ /\ worker[w].step \in BeforeSubmission
             /\ worker'[w].actions = worker[w].actions
             /\ worker'[w].generation = worker[w].generation
          \/ /\ Exists(group, worker[w].gid)
             /\ worker'[w].actions = group[worker[w].gid].actions
             /\ worker'[w].generation = group[worker[w].gid].generation

LEMMA FlushContents ==
  ASSUME TypeOK, NEW w \in Worker, FlushEffect(w)
  PROVE  ContentKept /\ UNCHANGED <<now, generation, bound, joined>>
<1>1. group \in [Group -> GroupState] /\ worker[w] # Idle
  BY DEF TypeOK, FlushEffect
<1>2. worker[w].gid \in Group
  BY <1>1, FlushTyped
<1>3. Released(w, worker[w].gid)
  BY DEF FlushEffect, Released, index
<1>4. ContentKept
  <2> SUFFICES ASSUME NEW g \in Group, Exists(group', g)
               PROVE  /\ Exists(group, g)
                      /\ group'[g].actions = group[g].actions
                      /\ group'[g].generation = group[g].generation
                      /\ group'[g].evicted = group[g].evicted
    BY DEF ContentKept
  <2>1. CASE group'[g] = group[g]
    BY <2>1 DEF Exists
  <2>2. CASE group'[g] = [group[g] EXCEPT !.lease = Nobody] /\ Exists(group, g)
    BY <1>1, <2>2 DEF GroupState
  <2>3. QED
    BY <1>3, <2>1, <2>2 DEF Released, index, Exists
<1>5. QED
  BY <1>4 DEF FlushEffect, ingestion

LEMMA PollContents ==
  ASSUME TypeOK, NEW w \in Worker, NEW claimed, PollEffect(w, claimed)
  PROVE  ContentKept /\ UNCHANGED <<now, generation, bound, joined, submitted>>
<1>1. group \in [Group -> GroupState]
  BY DEF TypeOK
<1>2. ContentKept
  <2> SUFFICES ASSUME NEW g \in Group, Exists(group', g)
               PROVE  /\ Exists(group, g)
                      /\ group'[g].actions = group[g].actions
                      /\ group'[g].generation = group[g].generation
                      /\ group'[g].evicted = group[g].evicted
    BY DEF ContentKept
  <2>1. CASE g \notin claimed
    <3>1. group'[g] = Reconciled.group[g]
      BY <2>1 DEF PollEffect
    <3>2. Reconciled.group[g] \in {group[g], NoGroup}
      BY DEF Reconciled
    <3>3. QED
      BY <3>1, <3>2 DEF Exists
  <2>2. CASE g \in claimed
    <3>1. Exists(group, g) /\ group'[g] = [group[g] EXCEPT !.lease = w]
      BY <2>2 DEF PollEffect
    <3>2. QED
      BY <1>1, <3>1 DEF GroupState
  <2>3. QED
    BY <2>1, <2>2
<1>3. QED
  BY <1>2 DEF PollEffect, ingestion, sends

LEMMA PollReads ==
  ASSUME TypeOK, NEW w \in Worker, NEW claimed, PollEffect(w, claimed),
         claimed = {} \/ \E g \in Group : claimed = {g}
  PROVE  ReadEffect(w)
<1>1. worker \in [Worker -> FlushState]
  BY DEF TypeOK
<1>2. CASE claimed = {}
  BY <1>2 DEF PollEffect, ReadEffect, Flushing
<1>3. ASSUME NEW g \in Group, claimed = {g} PROVE ReadEffect(w)
  <2>1. worker' = [worker EXCEPT ![w] =
          [step |-> "claimed", gid |-> g, claimedAt |-> now,
           actions |-> {}, generation |-> 0, expires |-> 0]]
    BY <1>3 DEF PollEffect
  <2>2. worker'[w].step = "claimed" /\ \A v \in Worker \ {w} : worker'[v] = worker[v]
    BY <1>1, <2>1
  <2>3. QED
    BY <2>2 DEF ReadEffect, BeforeSubmission
<1>4. QED
  BY <1>2, <1>3

LEMMA FlushReads ==
  ASSUME TypeOK, NEW w \in Worker, AfterClaim(w)
  PROVE  ReadEffect(w)
<1>1. worker \in [Worker -> FlushState]
  BY DEF TypeOK
<1>2. /\ worker[w] # Idle
      /\ \A v \in Worker \ {w} : worker'[v] = worker[v]
      /\ worker'[w] # Idle => worker'[w].gid = worker[w].gid
      /\ worker[w].step = "failed" /\ worker'[w] # Idle => worker'[w].step = "failed"
  BY FlushEffects DEF FlushEffect
<1>3. CASE worker'[w] = Idle
  BY <1>2, <1>3 DEF ReadEffect, Flushing
<1>4. ASSUME NEW s \in {"charged", "refunded", "sent", "rejected", "failed"},
             worker' = [worker EXCEPT ![w].step = s], s = "charged" => At(w, "loaded")
      PROVE  ReadEffect(w)
  <2>1. /\ worker'[w].step = s /\ worker'[w].actions = worker[w].actions
        /\ worker'[w].generation = worker[w].generation
    BY <1>1, <1>2, <1>4, FlushTyped
  <2>2. QED
    BY <1>2, <1>4, <2>1 DEF ReadEffect, BeforeSubmission, Flushing, At, InTime
<1>5. CASE Load(w)
  <2>1. At(w, "claimed") /\ Exists(group, worker[w].gid)
    BY <1>5 DEF Load
  <2>2. /\ worker'[w].actions = group[worker[w].gid].actions
        /\ worker'[w].generation = group[worker[w].gid].generation
    BY <1>1, <1>2, <1>5, FlushTyped DEF Load
  <2>3. QED
    BY <1>2, <2>1, <2>2 DEF ReadEffect, Flushing, At, InTime
<1>6. CASE ~Load(w)
  <2>1. \/ Rest(w)
        \/ \E s \in {"charged", "refunded", "sent", "rejected", "failed"} :
             worker' = [worker EXCEPT ![w].step = s] /\ (s = "charged" => At(w, "loaded"))
    BY <1>6 DEF AfterClaim, FlushStep, Drop, Spend, Refund, Suppress, Defer, Submit, SubmitInVain,
      Complete, TimeOut, PutBack, Crash, Fail, LoseReply
  <2>2. Rest(w) => worker'[w] = Idle
    BY <1>1 DEF Rest
  <2>3. QED
    BY <1>3, <1>4, <2>1, <2>2
<1>7. QED
  BY <1>5, <1>6

\* An attempt to deliver an event binds it, or records it in its current group, or
\* counts a push there, or touches no group.
Records(e, g) ==
  /\ Recordable(e)
  /\ joined' = [joined EXCEPT ![e] = @ \cup {g}]
  /\ \/ Digest /\ ActionOf[e] \in group[g].actions /\ UNCHANGED group
     \/ /\ \A x \in Group \ {g} : group'[x] = group[x]
        /\ group'[g].generation = Opened(g).generation
        /\ DeadlineOf(g) <= group'[g].evicted
        /\ Exists(group', g)
        /\ \/ /\ group'[g].actions = Opened(g).actions \cup {ActionOf[e]}
              /\ Digest => Counted(g, ActionOf[e])
           \/ /\ group'[g].actions = Opened(g).actions
              /\ Digest /\ ~Counted(g, ActionOf[e]) /\ ActionOf[e] \notin group[g].actions

CountsPush(g) ==
  /\ ~Digest /\ UNCHANGED joined
  /\ \A x \in Group \ {g} : group'[x] = group[x]
  /\ group'[g].actions = Opened(g).actions
  /\ DeadlineOf(g) <= group'[g].evicted
  /\ Exists(group', g)

LEMMA EventContents ==
  ASSUME TypeOK, NEW e \in Event, EventStep(e), NEW g, g = CurrentGroup(e)
  PROVE  \/ UNCHANGED <<group, joined>>
         \/ UNCHANGED bound /\ Records(e, g)
         \/ UNCHANGED bound /\ CountsPush(g)
<1>1. g \in Group /\ Opened(g) \in GroupState
  <2>1. g \in Group
    BY CurrentGroupIs
  <2>2. QED
    BY <2>1, OpenedTyped
<1>2. /\ group \in [Group -> GroupState] /\ now \in Nat /\ setting \in Setting
  BY DEF TypeOK
<1>3. DeadlineOf(g) \in Nat \ {0} /\ DeadlineOf(g) <= now + Window
  BY <1>1, CurrentGroupIs, DeadlineTyped
<1>4. /\ DeadlineOf(g) <= now + GroupTTL + Grace
      /\ DeadlineOf(g) <= now + (GroupTTL + Grace)
      /\ DeadlineOf(g) <= now + DispositionTTL
  BY <1>2, <1>3, SettingTyped, Lifetimes
<1>5. ASSUME NEW actions, NEW pending, NEW evicted \in Nat \ {0},
             group' = [group EXCEPT ![g] = [Opened(g) EXCEPT !.actions = actions, !.pending = pending,
                                                             !.evicted = evicted]]
      PROVE  /\ \A x \in Group \ {g} : group'[x] = group[x]
             /\ group'[g].generation = Opened(g).generation
             /\ group'[g].actions = actions
             /\ group'[g].evicted = evicted
             /\ Exists(group', g)
  BY <1>1, <1>2, <1>5 DEF Exists, NoGroup, GroupState
<1>6. now + GroupTTL + Grace \in Nat \ {0}
  BY <1>2, Lifetimes
<1>7. CASE Ingest(e)
  <2>1. /\ Recordable(e) /\ Digest /\ UNCHANGED bound
        /\ joined' = [joined EXCEPT ![e] = @ \cup {g}]
    BY <1>7 DEF Ingest
  <2>2. CASE ActionOf[e] \in group[g].actions
    BY <1>7, <2>1, <2>2 DEF Ingest, Records
  <2>3. CASE ActionOf[e] \notin group[g].actions
    <3> DEFINE actions == IF Counted(g, ActionOf[e]) THEN Opened(g).actions \cup {ActionOf[e]}
                          ELSE Opened(g).actions
               pending == IF Counted(g, ActionOf[e]) THEN Opened(g).pending + 1
                          ELSE Opened(g).pending
    <3>1. group' = [group EXCEPT ![g] = [Opened(g) EXCEPT !.actions = actions, !.pending = pending,
                                                          !.evicted = now + GroupTTL + Grace]]
      BY <1>7, <2>3 DEF Ingest
    <3>2. /\ Counted(g, ActionOf[e]) => actions = Opened(g).actions \cup {ActionOf[e]}
          /\ ~Counted(g, ActionOf[e]) => actions = Opened(g).actions
      OBVIOUS
    <3> HIDE DEF actions, pending
    <3>3. /\ \A x \in Group \ {g} : group'[x] = group[x]
          /\ group'[g].generation = Opened(g).generation
          /\ group'[g].actions = actions
          /\ group'[g].evicted = now + GroupTTL + Grace
          /\ Exists(group', g)
      BY <1>5, <1>6, <3>1
    <3>4. QED
      BY <1>4, <2>1, <2>3, <3>2, <3>3 DEF Records
  <2>4. QED
    BY <2>2, <2>3
<1>8. CASE Buffer(e)
  <2>1. /\ Recordable(e) /\ ~Digest /\ UNCHANGED bound
        /\ joined' = [joined EXCEPT ![e] = @ \cup {g}]
        /\ group' = [group EXCEPT ![g] =
                       [Opened(g) EXCEPT !.actions = Opened(g).actions \cup {ActionOf[e]},
                                         !.pending = Opened(g).pending + 1,
                                         !.evicted = now + GroupTTL + Grace]]
    BY <1>8 DEF Buffer, Attemptable
  <2>2. /\ \A x \in Group \ {g} : group'[x] = group[x]
        /\ group'[g].generation = Opened(g).generation
        /\ group'[g].actions = Opened(g).actions \cup {ActionOf[e]}
        /\ group'[g].evicted = now + GroupTTL + Grace
        /\ Exists(group', g)
    BY <1>5, <1>6, <2>1
  <2>3. QED
    BY <1>4, <2>1, <2>2 DEF Records
<1>9. CASE PushAtOnce(e)
  <2> DEFINE old == Opened(g)
             evicted == now + (IF old.pending > 0 THEN GroupTTL + Grace ELSE DispositionTTL)
  <2>1. ~Digest /\ UNCHANGED <<joined, bound>>
    BY <1>9 DEF PushAtOnce, Attemptable
  <2>2. group' = [group EXCEPT ![g] = [old EXCEPT !.immediate = @ + 1, !.evicted = evicted]]
    BY <1>9 DEF PushAtOnce
  <2>3. DeadlineOf(g) <= evicted /\ evicted # 0 /\ old \in GroupState
    BY <1>1, <1>2, <1>4, SettingTyped, Lifetimes
  <2> HIDE DEF old, evicted
  <2>4. /\ \A x \in Group \ {g} : group'[x] = group[x]
        /\ group'[g].actions = old.actions
        /\ group'[g].evicted = evicted
        /\ Exists(group', g)
    BY <1>1, <1>2, <2>2, <2>3 DEF Exists, NoGroup, GroupState
  <2>5. QED
    BY <2>1, <2>3, <2>4 DEF CountsPush, old
<1>10. CASE BindEvent(e) \/ Replay(e) \/ RefusePush(e) \/ FailPush(e) \/ LandPush(e)
  BY <1>10 DEF BindEvent, Replay, RefusePush, FailPush, LandPush, PushEnds, index
<1>11. QED
  BY <1>7, <1>8, <1>9, <1>10 DEF EventStep

\* An event is bound once.
LEMMA BoundOnce ==
  ASSUME TypeOK, [Next]_vars
  PROVE  \A e \in Event : bound[e] # -1 => bound'[e] = bound[e]
<1>1. bound \in [Event -> Generation \cup {-1}]
  BY DEF TypeOK
<1>2. CASE UNCHANGED vars
  BY <1>2 DEF vars, coalesceVars, ingestion
<1>3. ASSUME NEW e \in Event, EventStep(e) PROVE UNCHANGED bound \/ BindEvent(e)
  BY <1>3 DEF EventStep, Ingest, PushAtOnce, Buffer, Replay, RefusePush, FailPush, LandPush, PushEnds
<1>4. ASSUME NEW w \in Worker, AfterClaim(w) PROVE UNCHANGED bound
  BY <1>4, FlushEffects DEF FlushEffect, ingestion
<1>5. ASSUME NEW w \in Worker, Claim(w) \/ PollEmpty(w) PROVE UNCHANGED bound
  BY <1>5 DEF Claim, PollEmpty, ingestion
<1>6. Visit \/ Tick => UNCHANGED bound
  BY DEF Visit, Tick, ingestion
<1>7. QED
  BY <1>1, <1>2, <1>3, <1>4, <1>5, <1>6 DEF Next, WorkerStep, AfterClaim, BindEvent

-----------------------------------------------------------------------------
(* Digests stay in their visit                                               *)

LEMMA StaysBound ==
  ASSUME TypeOK, [Next]_vars
  PROVE  \A n \in Generation : \A e \in Event : bound[e] = n => bound'[e] = n
BY BoundOnce, Lifetimes DEF Generation

LEMMA SettingKept ==
  ASSUME [Next]_vars
  PROVE  setting' = setting /\ (Digest' <=> Digest) /\ MaxEventAge' = MaxEventAge
BY DEF Next, vars, Digest, ImmediateLimit, MaxEventAge

LEMMA VisitsAtFirst == Init => VisitInvariant
BY DEF Init, VisitInvariant, Exists, Flushing

\* What the invariant says of a group survives as long as its content does.
LEMMA ContentVisits ==
  ASSUME TypeOK, [Next]_vars, VisitInvariant, Digest, NEW g \in Group, Exists(group, g),
         group'[g].actions = group[g].actions, group'[g].generation = group[g].generation
  PROVE  group'[g].generation = g[1] /\ BoundTo(group[g].actions, g[1])'
<1>1. group[g].generation = g[1] /\ BoundTo(group[g].actions, g[1])
  BY DEF VisitInvariant
<1>2. group[g] \in GroupState
  BY DEF TypeOK
<1>3. g[1] \in Generation
  BY <1>1, <1>2 DEF GroupState
<1>4. \A e \in Event : bound[e] = g[1] => bound'[e] = g[1]
  BY <1>3, StaysBound
<1>5. \A a \in group'[g].actions : \E e \in Event : ActionOf[e] = a /\ bound'[e] = g[1]
  BY <1>1, <1>4 DEF BoundTo
<1>6. QED
  BY <1>1, <1>5 DEF BoundTo

\* Steps of workers, visits and ticks keep contents; flushes read them.
LEMMA ContentsVisit ==
  ASSUME TypeOK, [Next]_vars, VisitInvariant, ContentKept,
         \A w \in Worker : ReadEffect(w) \/ worker'[w] = worker[w]
  PROVE  VisitInvariant'
<1> SUFFICES ASSUME Digest PROVE VisitInvariant'
  BY SettingKept DEF VisitInvariant
<1>1. ASSUME NEW g \in Group, Exists(group', g)
      PROVE  group'[g].generation = g[1] /\ BoundTo(group[g].actions, g[1])'
  BY <1>1, ContentVisits DEF ContentKept
<1>2. ASSUME NEW w \in Worker, Flushing(w)', worker'[w].step \in BeforeSubmission
      PROVE  BoundTo(worker[w].actions, worker[w].generation)'
  <2>1. ASSUME Flushing(w), NEW actions, NEW n \in Generation, BoundTo(actions, n),
               worker'[w].actions = actions, worker'[w].generation = n
        PROVE  BoundTo(worker[w].actions, worker[w].generation)'
    BY <2>1, StaysBound DEF BoundTo
  <2>2. CASE /\ Flushing(w) /\ worker[w].step \in BeforeSubmission
             /\ worker'[w].actions = worker[w].actions
             /\ worker'[w].generation = worker[w].generation
    <3>1. worker[w].generation \in Generation
      BY <2>2, FlushTyped DEF Flushing
    <3>2. BoundTo(worker[w].actions, worker[w].generation)
      BY <2>2 DEF VisitInvariant
    <3>3. QED
      BY <2>1, <2>2, <3>1, <3>2
  <2>3. CASE /\ Flushing(w) /\ Exists(group, worker[w].gid)
             /\ worker'[w].actions = group[worker[w].gid].actions
             /\ worker'[w].generation = group[worker[w].gid].generation
    <3>1. worker[w].gid \in Group /\ group \in [Group -> GroupState]
      <4>1. worker[w].gid \in Group
        BY <2>3, FlushTyped DEF Flushing
      <4>2. QED
        BY <4>1 DEF TypeOK
    <3>2. group[worker[w].gid].generation \in Generation
      BY <3>1 DEF GroupState
    <3>3. BoundTo(group[worker[w].gid].actions, group[worker[w].gid].generation)
      BY <2>3, <3>1 DEF VisitInvariant
    <3>4. QED
      BY <2>1, <2>3, <3>2, <3>3
  <2>4. QED
    BY <1>2, <2>2, <2>3 DEF ReadEffect, Flushing
<1>3. QED
  BY <1>1, <1>2 DEF VisitInvariant, Exists

LEMMA EventVisits ==
  ASSUME TypeOK, [Next]_vars, VisitInvariant, NEW e \in Event, EventStep(e)
  PROVE  VisitInvariant'
<1> SUFFICES ASSUME Digest PROVE VisitInvariant'
  BY SettingKept DEF VisitInvariant
<1>1. PICK g \in Group : g = CurrentGroup(e) /\ g[1] = generation
  BY CurrentGroupIs
<1>2. UNCHANGED <<group, joined>> \/ (UNCHANGED bound /\ Records(e, g))
  BY <1>1, EventContents DEF CountsPush
<1>3. worker' = worker /\ generation \in Generation
  BY EventEffects DEF TypeOK
<1>4. \A w \in Worker : Flushing(w)' /\ worker'[w].step \in BeforeSubmission =>
        BoundTo(worker[w].actions, worker[w].generation)'
  <2> SUFFICES ASSUME NEW w \in Worker, Flushing(w), worker[w].step \in BeforeSubmission
               PROVE  BoundTo(worker[w].actions, worker[w].generation)'
    BY <1>3 DEF Flushing
  <2>1. worker[w].generation \in Generation
    BY FlushTyped DEF Flushing
  <2>2. BoundTo(worker[w].actions, worker[w].generation)
    BY DEF VisitInvariant
  <2>3. QED
    BY <1>3, <2>1, <2>2, StaysBound DEF BoundTo
<1>5. ASSUME NEW x \in Group, Exists(group', x), Exists(group, x), group'[x] = group[x]
      PROVE  group'[x].generation = x[1] /\ BoundTo(group[x].actions, x[1])'
  BY <1>5, ContentVisits
<1>6. ASSUME UNCHANGED bound, Recordable(e), group'[g].generation = Opened(g).generation,
             group'[g].actions \subseteq Opened(g).actions \cup {ActionOf[e]}
      PROVE  group'[g].generation = g[1] /\ BoundTo(group[g].actions, g[1])'
  <2>1. Opened(g).generation = g[1]
    <3>1. CASE Exists(group, g)
      BY <3>1 DEF Opened, VisitInvariant
    <3>2. CASE ~Exists(group, g)
      BY <1>1, <3>2 DEF Opened, NoGroup
    <3>3. QED
      BY <3>1, <3>2
  <2>2. BoundTo(Opened(g).actions, g[1])
    <3>1. CASE Exists(group, g)
      BY <3>1 DEF Opened, VisitInvariant
    <3>2. CASE ~Exists(group, g)
      BY <3>2 DEF Opened, NoGroup, BoundTo
    <3>3. QED
      BY <3>1, <3>2
  <2>3. bound[e] = g[1]
    BY <1>1, <1>6 DEF Recordable
  <2>4. QED
    BY <1>6, <2>1, <2>2, <2>3 DEF BoundTo
<1>7. ASSUME NEW x \in Group, Exists(group', x)
      PROVE  group'[x].generation = x[1] /\ BoundTo(group[x].actions, x[1])'
  <2>1. CASE group'[x] = group[x]
    BY <1>5, <1>7, <2>1 DEF Exists
  <2>2. CASE group'[x] # group[x]
    <3>1. x = g /\ UNCHANGED bound /\ Recordable(e) /\ group'[g].generation = Opened(g).generation
          /\ group'[g].actions \subseteq Opened(g).actions \cup {ActionOf[e]}
      BY <1>2, <2>2 DEF Records
    <3>2. QED
      BY <1>6, <3>1
  <2>3. QED
    BY <2>1, <2>2
<1>8. QED
  BY <1>4, <1>7 DEF VisitInvariant, Exists

LEMMA TickContents ==
  ASSUME Tick
  PROVE  ContentKept /\ UNCHANGED <<worker, joined, submitted>> /\ now' = now + 1
<1>1. \A g \in Group : group'[g] \in {group[g], NoGroup}
  BY DEF Tick
<1>2. ContentKept
  BY <1>1 DEF ContentKept, Exists
<1>3. QED
  BY <1>2 DEF Tick, sends

LEMMA VisitsKept == TypeOK /\ VisitInvariant /\ [Next]_vars => VisitInvariant'
<1> SUFFICES ASSUME TypeOK, VisitInvariant, [Next]_vars PROVE VisitInvariant'
  OBVIOUS
<1>1. UNCHANGED group => ContentKept
  BY DEF ContentKept, Exists
<1>2. CASE UNCHANGED vars
  BY <1>1, <1>2, ContentsVisit DEF vars, coalesceVars, index
<1>3. ASSUME NEW e \in Event, EventStep(e) PROVE VisitInvariant'
  BY <1>3, EventVisits
<1>4. ASSUME NEW w \in Worker, AfterClaim(w) PROVE VisitInvariant'
  <2>1. ContentKept /\ ReadEffect(w)
    BY <1>4, FlushEffects, FlushContents, FlushReads
  <2>2. QED
    BY <2>1, ContentsVisit DEF ReadEffect
<1>5. ASSUME NEW w \in Worker, Claim(w) \/ PollEmpty(w) PROVE VisitInvariant'
  <2>1. PICK claimed : /\ PollEffect(w, claimed)
                       /\ claimed = {} \/ \E g \in Group : claimed = {g}
    BY <1>5, PollEffects
  <2>2. ContentKept /\ ReadEffect(w)
    BY <2>1, PollContents, PollReads
  <2>3. QED
    BY <2>2, ContentsVisit DEF ReadEffect
<1>6. CASE Visit
  BY <1>1, <1>6, ContentsVisit DEF Visit, index
<1>7. CASE Tick
  BY <1>7, TickContents, ContentsVisit
<1>8. QED
  BY <1>2, <1>3, <1>4, <1>5, <1>6, <1>7 DEF Next, WorkerStep, AfterClaim

\* What is appended to a group's submissions in digest mode is of this visit.
LEMMA SubmissionsVisit ==
  ASSUME TypeOK, VisitInvariant, [Next]_vars, Digest
  PROVE  SubmitsInVisit
<1> SUFFICES ASSUME NEW g \in Group, submitted'[g] # submitted[g]
             PROVE  \A a \in submitted'[g][Len(submitted'[g])] :
                      \E e \in Event : ActionOf[e] = a /\ bound[e] = generation
  BY DEF SubmitsInVisit
<1>1. PICK w \in Worker : AfterClaim(w)
  <2>1. ~UNCHANGED submitted
    OBVIOUS
  <2>2. \A e \in Event : EventStep(e) => UNCHANGED submitted
    BY EventEffects
  <2>3. \A w \in Worker : Claim(w) \/ PollEmpty(w) => UNCHANGED submitted
    BY DEF Claim, PollEmpty, sends
  <2>4. QED
    BY <2>1, <2>2, <2>3 DEF Next, WorkerStep, AfterClaim, Visit, Tick, vars, coalesceVars, sends
<1>2. g = worker[w].gid
  BY <1>1, SubmittedAt
<1>3. Appended(w)
  BY <1>1, SendEffects DEF SendEffect
<1>4. submitted \in [Group -> Seq(SUBSET Action)] /\ worker[w].actions \in SUBSET Action
  BY <1>3, FlushTyped DEF TypeOK, Appended, Flushing
<1>5. submitted'[g][Len(submitted'[g])] = worker[w].actions
  BY <1>2, <1>3, <1>4 DEF Appended
<1>6. BoundTo(worker[w].actions, generation)
  BY <1>3 DEF Appended, VisitInvariant
<1>7. QED
  BY <1>5, <1>6 DEF BoundTo

\* A digest counts only events that were bound to the visit it is sent in, whatever
\* visits came while they waited or were replayed (coalesce.rs:402-404).
THEOREM DigestsAreOfTheVisit == Spec => DigestsStayInVisit
<1>1. Init => VisitInvariant
  BY VisitsAtFirst
<1>2. TypeOK /\ VisitInvariant /\ [Next]_vars => VisitInvariant'
  BY VisitsKept
<1>3. TypeOK /\ VisitInvariant /\ [Next]_vars => [Digest => SubmitsInVisit]_vars
  BY SubmissionsVisit
<1>4. QED
  BY <1>1, <1>2, <1>3, TypeCorrect, PTL DEF Spec, DigestsStayInVisit

-----------------------------------------------------------------------------
(* Summaries count what was recorded                                         *)

LEMMA CountsAtFirst == Init => CountInvariant
<1> SUFFICES ASSUME Init PROVE CountInvariant
  OBVIOUS
<1>1. /\ \A g \in Group : group[g] = NoGroup /\ submitted[g] = <<>>
      /\ \A w \in Worker : worker[w] = Idle
      /\ \A e \in Event : joined[e] = {}
  BY DEF Init
<1>2. \A g \in Group : RecordedIn(g) = {}
  BY <1>1 DEF RecordedIn
<1>3. QED
  BY <1>1, <1>2 DEF CountInvariant, Exists, Flushing

LEMMA CoversKept ==
  ASSUME UNCHANGED <<joined, setting>>
  PROVE  \A g, actions : (Covers(g, actions)' <=> Covers(g, actions))
                         /\ RecordedIn(g)' = RecordedIn(g)
BY DEF Covers, RecordedIn, Digest, ImmediateLimit

\* No group goes before its bucket is over.
OpenKept == \A g \in Group : now' < DeadlineOf(g) /\ Exists(group, g) => Exists(group', g)

LEMMA FlushOpen ==
  ASSUME TenureInvariant, NEW w \in Worker, FlushEffect(w)
  PROVE  OpenKept
<1>1. /\ worker[w] # Idle /\ Released(w, worker[w].gid) /\ now' = now
      /\ group \in [Group -> GroupState] /\ now \in Nat
  BY DEF FlushEffect, Released, index, TenureInvariant, TypeOK
<1>2. DeadlineOf(worker[w].gid) <= now /\ worker[w].gid \in Group
  BY <1>1, FlushTyped DEF TenureInvariant, ClosedWhenDue
<1>3. DeadlineOf(worker[w].gid) \in Nat
  BY <1>2, DeadlineTyped
<1>4. QED
  BY <1>1, <1>2, <1>3 DEF OpenKept, Released, Exists

LEMMA PollOpen ==
  ASSUME TenureInvariant, NEW w \in Worker, NEW claimed, PollEffect(w, claimed)
  PROVE  OpenKept
<1> SUFFICES ASSUME NEW g \in Group, now' < DeadlineOf(g), Exists(group, g)
             PROVE  Exists(group', g)
  BY DEF OpenKept
<1>1. now' = now /\ now \in Nat /\ DeadlineOf(g) \in Nat
  BY DeadlineTyped DEF PollEffect, TenureInvariant, TypeOK
<1>2. g \notin ExpiredLeases
  <2>1. leases[g] # Unindexed => DeadlineOf(g) <= now
    BY DEF TenureInvariant, ClosedWhenDue
  <2>2. QED
    BY <1>1, <2>1 DEF ExpiredLeases
<1>3. Reconciled.due[g] = due[g]
  BY <1>2 DEF Reconciled
<1>4. g \notin claimed
  <2> SUFFICES ASSUME g \in claimed PROVE FALSE
    OBVIOUS
  <2>1. due[g] \in 1..now
    BY <1>3 DEF PollEffect
  <2>2. DeadlineOf(g) <= due[g]
    BY <1>1, <2>1 DEF TenureInvariant, ClosedWhenDue, Unindexed
  <2>3. QED
    BY <1>1, <2>1, <2>2
<1>5. QED
  BY <1>2, <1>4 DEF PollEffect, Reconciled, Exists

LEMMA TickOpen ==
  ASSUME TenureInvariant, CountInvariant, Tick
  PROVE  OpenKept
<1> SUFFICES ASSUME NEW g \in Group, now' < DeadlineOf(g), Exists(group, g)
             PROVE  Exists(group', g)
  BY DEF OpenKept
<1>1. now' \in Nat /\ DeadlineOf(g) \in Nat /\ group[g].evicted \in Nat
  BY DeadlineTyped DEF Tick, TenureInvariant, TypeOK, GroupState
<1>2. DeadlineOf(g) <= group[g].evicted
  BY DEF CountInvariant
<1>3. QED
  BY <1>1, <1>2 DEF Tick, Exists

LEMMA AppendElement ==
  ASSUME NEW S, NEW s \in Seq(S), NEW x \in S, NEW t, t = Append(s, x)
  PROVE  \A i \in DOMAIN t : t[i] = x \/ (i \in DOMAIN s /\ t[i] = s[i])
<1>1. /\ t \in Seq(S) /\ Len(t) = Len(s) + 1
      /\ t[Len(s) + 1] = x
      /\ \A i \in 1..Len(s) : t[i] = s[i]
  BY AppendProperties
<1>2. DOMAIN s = 1..Len(s) /\ Len(s) \in Nat
  BY LenProperties
<1>3. DOMAIN t = 1..Len(t)
  BY <1>1, LenProperties
<1>4. QED
  BY <1>1, <1>2, <1>3

\* Steps of workers, visits and ticks.
LEMMA ContentCounts ==
  ASSUME TenureInvariant, CountInvariant, UNCHANGED <<joined, setting>>, ContentKept, OpenKept,
         now' = now \/ now' = now + 1,
         \A w \in Worker : ReadEffect(w) \/ worker'[w] = worker[w],
         UNCHANGED submitted
         \/ \E w \in Worker : /\ Appended(w)
                              /\ \A x \in Group \ {worker[w].gid} : submitted'[x] = submitted[x]
  PROVE  CountInvariant'
<1>1. /\ TypeOK /\ now \in Nat
      /\ submitted \in [Group -> Seq(SUBSET Action)]
  BY DEF TenureInvariant, TypeOK
<1>2. ASSUME NEW g \in Group, Exists(group', g)
      PROVE  /\ Covers(g, group[g].actions)'
             /\ IsFiniteSet(group'[g].actions)
             /\ Digest' => Cardinality(group'[g].actions) <= MaxActions
             /\ DeadlineOf(g) <= group'[g].evicted
  <2>1. /\ Exists(group, g) /\ group'[g].actions = group[g].actions
        /\ group'[g].evicted = group[g].evicted
    BY <1>2 DEF ContentKept
  <2>2. Covers(g, group[g].actions)
    BY <2>1 DEF CountInvariant
  <2>3. Covers(g, group[g].actions)'
    BY <2>1, <2>2, CoversKept
  <2>4. Digest' <=> Digest
    BY DEF Digest, ImmediateLimit
  <2>5. QED
    BY <2>1, <2>3, <2>4 DEF CountInvariant
<1>3. ASSUME NEW g \in Group, now' < DeadlineOf(g), RecordedIn(g)' # {} PROVE Exists(group', g)
  <2>1. RecordedIn(g) # {} /\ now < DeadlineOf(g)
    <3>1. RecordedIn(g) # {}
      BY <1>3, CoversKept
    <3>2. now < DeadlineOf(g)
      BY <1>1, <1>3, DeadlineTyped
    <3>3. QED
      BY <3>1, <3>2
  <2>2. QED
    BY <1>3, <2>1 DEF CountInvariant, OpenKept
<1>4. ASSUME NEW w \in Worker, Flushing(w)', worker'[w].step \in BeforeSubmission
      PROVE  Covers(worker[w].gid, worker[w].actions)'
  <2>1. CASE /\ Flushing(w) /\ worker[w].step \in BeforeSubmission
             /\ worker'[w].gid = worker[w].gid
             /\ worker'[w].actions = worker[w].actions
    <3>1. Covers(worker[w].gid, worker[w].actions)
      BY <2>1 DEF CountInvariant
    <3>2. QED
      BY <2>1, <3>1, CoversKept
  <2>2. CASE /\ Flushing(w) /\ Exists(group, worker[w].gid)
             /\ worker'[w].gid = worker[w].gid
             /\ worker'[w].actions = group[worker[w].gid].actions
    <3>1. worker[w].gid \in Group
      BY <1>1, <2>2, FlushTyped DEF Flushing
    <3>2. Covers(worker[w].gid, group[worker[w].gid].actions)
      BY <2>2, <3>1 DEF CountInvariant
    <3>3. QED
      BY <2>2, <3>2, CoversKept
  <2>3. QED
    BY <1>4, <2>1, <2>2 DEF ReadEffect, Flushing
<1>5. ASSUME NEW g \in Group, NEW i \in DOMAIN submitted'[g]
      PROVE  Covers(g, submitted[g][i])'
  <2>1. CASE submitted'[g] = submitted[g]
    <3>1. Covers(g, submitted[g][i])
      BY <2>1 DEF CountInvariant
    <3>2. QED
      BY <2>1, <3>1, CoversKept
  <2>2. CASE submitted'[g] # submitted[g]
    <3>1. PICK w \in Worker : Appended(w) /\ g = worker[w].gid
      BY <2>2
    <3>2. worker[w].actions \in SUBSET Action
      BY <1>1, <3>1, FlushTyped DEF Appended, Flushing
    <3>3. \A j \in DOMAIN submitted'[g] :
            \/ submitted'[g][j] = worker[w].actions
            \/ j \in DOMAIN submitted[g] /\ submitted'[g][j] = submitted[g][j]
      <4> DEFINE s == submitted[g]
                 t == submitted'[g]
                 x == worker[w].actions
      <4>1. s \in Seq(SUBSET Action) /\ x \in SUBSET Action /\ t = Append(s, x)
        BY <1>1, <3>1, <3>2 DEF Appended
      <4> HIDE DEF s, t, x
      <4>2. \A j \in DOMAIN t : t[j] = x \/ (j \in DOMAIN s /\ t[j] = s[j])
        BY <4>1, AppendElement
      <4>3. QED
        BY <4>2 DEF s, t, x
    <3>4. Covers(g, worker[w].actions)
      BY <3>1 DEF Appended, CountInvariant
    <3>5. \A j \in DOMAIN submitted[g] : Covers(g, submitted[g][j])
      BY DEF CountInvariant
    <3>6. \A j \in DOMAIN submitted'[g] : Covers(g, submitted'[g][j])
      BY <3>3, <3>4, <3>5
    <3>7. QED
      BY <3>6, CoversKept
  <2>3. QED
    BY <2>1, <2>2
<1>6. QED
  BY <1>2, <1>3, <1>4, <1>5 DEF CountInvariant, Exists

LEMMA EventCounts ==
  ASSUME TenureInvariant, CountInvariant, UNCHANGED setting, NEW e \in Event, EventStep(e)
  PROVE  CountInvariant'
<1>1. TypeOK /\ now \in Nat
  BY DEF TenureInvariant, TypeOK
<1>2. PICK g \in Group : g = CurrentGroup(e) /\ now < DeadlineOf(g)
  BY <1>1, CurrentGroupIs
<1>3. /\ UNCHANGED <<now, worker, submitted>>
      /\ \A x \in Group \ {g} : group'[x] = group[x]
  BY <1>1, <1>2, EventEffects
<1>4. /\ submitted[g] = <<>>
      /\ \A w \in Worker : worker[w] # Idle => worker[w].gid \in Group \ {g}
  <2>1. DeadlineOf(g) \in Nat
    BY <1>2, DeadlineTyped
  <2>2. \A w \in Worker : worker[w] # Idle => worker[w].gid \in Group
    BY <1>1, FlushTyped
  <2>3. QED
    BY <1>1, <1>2, <2>1, <2>2 DEF TenureInvariant, ClosedWhenDue
<1>5. joined \in [Event -> SUBSET Group]
  BY <1>1 DEF TypeOK
<1>6. CASE UNCHANGED <<group, joined>>
  <2>1. \A x, actions : (Covers(x, actions)' <=> Covers(x, actions)) /\ RecordedIn(x)' = RecordedIn(x)
    BY <1>6, CoversKept
  <2>2. Digest' <=> Digest
    BY DEF Digest, ImmediateLimit
  <2>3. /\ \A x \in Group : Exists(group', x) <=> Exists(group, x)
        /\ \A w \in Worker : Flushing(w)' <=> Flushing(w)
    BY <1>3, <1>6 DEF Exists, Flushing
  <2>4. ContentKept /\ OpenKept
    BY <1>3, <1>6, <2>3 DEF ContentKept, OpenKept
  <2>5. QED
    BY <1>3, <1>6, <2>4, ContentCounts
<1>7. CASE Records(e, g) \/ CountsPush(g)
  <2>1. \A x \in Group \ {g} : \A actions : (Covers(x, actions)' <=> Covers(x, actions))
                                              /\ RecordedIn(x)' = RecordedIn(x)
    <3>1. \A x \in Group \ {g} : RecordedIn(x)' = RecordedIn(x)
      BY <1>5, <1>7 DEF Records, CountsPush, RecordedIn
    <3>2. QED
      BY <3>1 DEF Covers, Digest, ImmediateLimit
  <2>2. /\ Exists(group', g)
        /\ Covers(g, group[g].actions)'
        /\ IsFiniteSet(group'[g].actions)
        /\ Digest => Cardinality(group'[g].actions) <= MaxActions
        /\ DeadlineOf(g) <= group'[g].evicted
    <3> DEFINE a == ActionOf[e]
               held == Opened(g).actions
    <3>1. /\ Covers(g, held)
          /\ IsFiniteSet(held)
          /\ Digest => Cardinality(held) <= MaxActions
          /\ Cardinality(held) \in Nat
      <4>1. CASE Exists(group, g)
        BY <4>1, FS_CardinalityType DEF Opened, CountInvariant
      <4>2. CASE ~Exists(group, g)
        <5>1. held = {}
          BY <4>2 DEF Opened, NoGroup
        <5>2. RecordedIn(g) = {}
          BY <1>2, <4>2 DEF CountInvariant
        <5>3. QED
          BY <5>1, <5>2, FS_EmptySet, Lifetimes DEF Covers
      <4>3. QED
        BY <4>1, <4>2
    <3>2. group[g].actions = held
      BY DEF Opened, Exists, NoGroup
    <3>3. Digest' <=> Digest
      BY DEF Digest, ImmediateLimit
    <3>4. RecordedIn(g)' \subseteq RecordedIn(g) \cup {a}
      BY <1>5, <1>7 DEF Records, CountsPush, RecordedIn
    <3>5. UNCHANGED joined => RecordedIn(g)' = RecordedIn(g)
      BY DEF RecordedIn
    <3>6. Counted(g, a) <=> a \notin held /\ Cardinality(held) < MaxActions
      BY <3>2 DEF Counted
    <3>7. MaxActions \in Nat \ {0}
      BY Lifetimes
    <3> HIDE DEF held, a
    <3>8. CASE CountsPush(g)
      BY <3>1, <3>3, <3>5, <3>8 DEF CountsPush, Covers, held
    <3>9. CASE Records(e, g) /\ Digest /\ a \in group[g].actions /\ UNCHANGED group
      <4>1. Exists(group, g)
        BY <3>9 DEF Exists, NoGroup
      <4>2. Covers(g, group[g].actions)'
        BY <3>1, <3>2, <3>3, <3>4, <3>9 DEF Covers
      <4>3. QED
        BY <3>9, <4>1, <4>2 DEF CountInvariant, Exists
    <3>10. CASE /\ Records(e, g) /\ group'[g].actions = held \cup {a}
                /\ Digest => Counted(g, a)
                /\ DeadlineOf(g) <= group'[g].evicted /\ Exists(group', g)
      <4>1. IsFiniteSet(held \cup {a})
        BY <3>1, FS_AddElement
      <4>2. Digest => Cardinality(held \cup {a}) <= MaxActions
        <5>1. Cardinality(held \cup {a}) = IF a \in held THEN Cardinality(held) ELSE Cardinality(held) + 1
          BY <3>1, FS_AddElement
        <5>2. QED
          BY <3>1, <3>6, <3>7, <3>10, <5>1
      <4>3. RecordedIn(g) \subseteq held
        BY <3>1, <3>6, <3>7, <3>10 DEF Covers
      <4>4. Covers(g, group[g].actions)'
        BY <3>4, <3>10, <4>3 DEF Covers
      <4>5. QED
        BY <3>10, <4>1, <4>2, <4>4
    <3>11. CASE /\ Records(e, g) /\ group'[g].actions = held
                /\ Digest /\ ~Counted(g, a) /\ a \notin group[g].actions
                /\ DeadlineOf(g) <= group'[g].evicted /\ Exists(group', g)
      <4>1. Cardinality(held) = MaxActions
        BY <3>1, <3>2, <3>6, <3>7, <3>11
      <4>2. QED
        BY <3>1, <3>3, <3>11, <4>1 DEF Covers
    <3>12. QED
      BY <1>7, <3>8, <3>9, <3>10, <3>11 DEF Records, a, held
  <2>3. Digest' <=> Digest
    BY DEF Digest, ImmediateLimit
  <2>4. ASSUME NEW x \in Group, Exists(group', x)
        PROVE  /\ Covers(x, group[x].actions)'
               /\ IsFiniteSet(group'[x].actions)
               /\ Digest' => Cardinality(group'[x].actions) <= MaxActions
               /\ DeadlineOf(x) <= group'[x].evicted
    <3>1. CASE x = g
      BY <2>2, <2>3, <3>1
    <3>2. CASE x # g
      BY <1>3, <2>1, <2>3, <2>4, <3>2 DEF CountInvariant, Exists
    <3>3. QED
      BY <3>1, <3>2
  <2>5. ASSUME NEW x \in Group, now < DeadlineOf(x), RecordedIn(x)' # {} PROVE Exists(group', x)
    <3>1. CASE x = g
      BY <2>2, <3>1
    <3>2. CASE x # g
      BY <1>3, <2>1, <2>5, <3>2 DEF CountInvariant, Exists
    <3>3. QED
      BY <3>1, <3>2
  <2>6. ASSUME NEW w \in Worker, Flushing(w), worker[w].step \in BeforeSubmission
        PROVE  Covers(worker[w].gid, worker[w].actions)'
    <3>1. Covers(worker[w].gid, worker[w].actions) /\ worker[w].gid \in Group \ {g}
      BY <1>4, <2>6 DEF CountInvariant, Flushing
    <3>2. QED
      BY <1>3, <2>1, <3>1
  <2>7. ASSUME NEW x \in Group, NEW i \in DOMAIN submitted[x]
        PROVE  Covers(x, submitted[x][i])'
    <3>1. x # g
      BY <1>4, <2>7
    <3>2. QED
      BY <1>3, <2>1, <2>7, <3>1 DEF CountInvariant
  <2>8. \A w \in Worker : Flushing(w)' <=> Flushing(w)
    BY <1>3 DEF Flushing
  <2>9. QED
    BY <1>3, <2>4, <2>5, <2>6, <2>7, <2>8 DEF CountInvariant, Exists
<1>8. QED
  BY <1>1, <1>2, <1>6, <1>7, EventContents

LEMMA CountsKept == TenureInvariant /\ CountInvariant /\ [Next]_vars => CountInvariant'
<1> SUFFICES ASSUME TenureInvariant, CountInvariant, [Next]_vars PROVE CountInvariant'
  OBVIOUS
<1>1. TypeOK /\ UNCHANGED setting
  BY DEF TenureInvariant, Next, vars
<1>2. UNCHANGED <<group, now>> => ContentKept /\ OpenKept
  BY DEF ContentKept, OpenKept, Exists
<1>3. CASE UNCHANGED vars
  BY <1>1, <1>2, <1>3, ContentCounts DEF vars, coalesceVars, index, ingestion, sends
<1>4. ASSUME NEW e \in Event, EventStep(e) PROVE CountInvariant'
  BY <1>1, <1>4, EventCounts
<1>5. ASSUME NEW w \in Worker, AfterClaim(w) PROVE CountInvariant'
  <2>1. /\ ContentKept /\ ReadEffect(w) /\ OpenKept /\ FlushEffect(w) /\ SendEffect(w)
        /\ UNCHANGED <<now, joined>>
    BY <1>1, <1>5, FlushEffects, FlushContents, FlushReads, FlushOpen, SendEffects
  <2>2. \/ UNCHANGED submitted
        \/ Appended(w) /\ \A x \in Group \ {worker[w].gid} : submitted'[x] = submitted[x]
    BY <2>1 DEF SendEffect
  <2>3. QED
    BY <1>1, <2>1, <2>2, ContentCounts DEF ReadEffect
<1>6. ASSUME NEW w \in Worker, Claim(w) \/ PollEmpty(w) PROVE CountInvariant'
  <2>1. PICK claimed : /\ PollEffect(w, claimed)
                       /\ claimed = {} \/ \E g \in Group : claimed = {g}
    BY <1>1, <1>6, PollEffects
  <2>2. ContentKept /\ ReadEffect(w) /\ OpenKept /\ UNCHANGED <<now, joined, submitted>>
    BY <1>1, <2>1, PollContents, PollReads, PollOpen
  <2>3. QED
    BY <1>1, <2>2, ContentCounts DEF ReadEffect
<1>7. CASE Visit
  BY <1>1, <1>2, <1>7, ContentCounts DEF Visit, index, ingestion, sends
<1>8. CASE Tick
  BY <1>1, <1>8, TickContents, TickOpen, ContentCounts
<1>9. QED
  BY <1>3, <1>4, <1>5, <1>6, <1>7, <1>8 DEF Next, WorkerStep, AfterClaim

LEMMA CountsImply == CountInvariant => SummariesCountAll
BY DEF CountInvariant, SummariesCountAll, Covers

-----------------------------------------------------------------------------
(* An event is told of once                                                  *)

LEMMA DispositionAtFirst == Init => DispositionInvariant
BY DEF Init, DispositionInvariant, DispositionOf, Decided, PushesOf, NoDisposition

\* What is known of an event that a step does not touch.
LEMMA Untouched ==
  ASSUME NEW e \in Event, DispositionOf(e), UNCHANGED <<setting, now>>,
         joined'[e] = joined[e], handler'[e] = handler[e], disposition'[e] = disposition[e],
         PushesOf(e)' = PushesOf(e)
  PROVE  DispositionOf(e)'
<1>1. Decided(e)' <=> Decided(e)
  BY DEF Decided
<1>2. QED
  BY <1>1 DEF DispositionOf, MaxEventAge

\* What an emission adds.
LEMMA PushesAfter ==
  ASSUME NEW m, NEW e \in Event,
         emissions' = emissions \/ emissions' = emissions \cup {Emitted(m)}
  PROVE  /\ m # <<"push", e>> => PushesOf(e)' = PushesOf(e)
         /\ PushesOf(e)' \subseteq PushesOf(e) \cup {Emitted(m)}
BY DEF PushesOf, Emitted

LEMMA WorkerDispositions ==
  ASSUME TypeOK, DispositionInvariant, UNCHANGED setting, NEW w \in Worker,
         AfterClaim(w) \/ Claim(w) \/ PollEmpty(w)
  PROVE  DispositionInvariant'
<1>1. UNCHANGED <<now, joined, handler, disposition>>
  <2>1. CASE AfterClaim(w)
    BY <2>1, FlushEffects DEF FlushEffect, ingestion
  <2>2. CASE Claim(w) \/ PollEmpty(w)
    BY <2>2 DEF Claim, PollEmpty, ingestion
  <2>3. QED
    BY <2>1, <2>2
<1>2. \/ emissions' = emissions
      \/ emissions' = emissions \cup {Emitted(<<"summary", worker[w].gid>>)}
  BY DEF AfterClaim, FlushStep, Load, Drop, Spend, Refund, Suppress, Defer, Submit, SubmitInVain,
    Complete, TimeOut, PutBack, Crash, Fail, LoseReply, Claim, PollEmpty, sends
<1>3. \A e \in Event : PushesOf(e)' = PushesOf(e)
  <2> SUFFICES ASSUME NEW e \in Event PROVE PushesOf(e)' = PushesOf(e)
    OBVIOUS
  <2>1. <<"summary", worker[w].gid>> # <<"push", e>>
    OBVIOUS
  <2>2. QED
    BY <1>2, <2>1 DEF PushesOf, Emitted
<1>4. QED
  BY <1>1, <1>3, Untouched DEF DispositionInvariant

LEMMA EventDispositions ==
  ASSUME TypeOK, DispositionInvariant, UNCHANGED setting, NEW e \in Event, EventStep(e)
  PROVE  DispositionInvariant'
<1> DEFINE m == <<"push", e>>
           g == CurrentGroup(e)
           decided(d) == [decision |-> d, expires |-> now + DispositionTTL]
<1>1. /\ disposition \in [Event -> [decision : {"none", "push", "buffer"}, expires : Nat]]
      /\ joined \in [Event -> SUBSET Group]
      /\ handler \in [Event -> {"none", "pushing", "done"}]
      /\ setting \in Setting /\ now \in Nat \ {0}
  <2>1. now \in Nat \ {0} /\ setting \in Setting
    BY DEF TypeOK
  <2>2. QED
    BY <2>1 DEF TypeOK
<1>2. g \in Group
  BY CurrentGroupIs
<1>3. DispositionOf(e)
  BY DEF DispositionInvariant
<1>4. now' = now /\ MaxEventAge' = MaxEventAge
  BY EventEffects DEF MaxEventAge
<1>5. MaxEventAge \in Nat /\ MaxEventAge < now + DispositionTTL
  BY <1>1, SettingTyped
<1>6. \A d : decided(d) # NoDisposition /\ decided(d).expires = now + DispositionTTL
             /\ decided(d).decision = d
  BY <1>1, <1>5 DEF NoDisposition
<1>7. \A d : Decide(e, d) => /\ disposition'[e] = decided(d)
                             /\ \A x \in Event \ {e} : disposition'[x] = disposition[x]
  BY <1>1 DEF Decide
<1> HIDE DEF g, decided
<1>8. CASE BindEvent(e)
  <2>1. UNCHANGED <<joined, handler, disposition, emissions>>
    BY <1>8 DEF BindEvent, sends
  <2>2. QED
    BY <1>4, <2>1, Untouched DEF DispositionInvariant, PushesOf
<1>9. CASE Ingest(e) \/ Buffer(e) \/ PushAtOnce(e)
  <2>1. Recordable(e) /\ UNCHANGED emissions
    BY <1>9 DEF Ingest, Buffer, PushAtOnce, sends
  <2>2. joined[e] = {} /\ handler[e] # "pushing" /\ PushesOf(e) = {}
    BY <1>3, <2>1 DEF Recordable, DispositionOf, Decided
  <2>3. \A x \in Event : PushesOf(x)' = PushesOf(x)
    BY <2>1 DEF PushesOf
  <2>4. CASE Ingest(e) \/ Buffer(e)
    <3>1. /\ joined' = [joined EXCEPT ![e] = @ \cup {g}] /\ Decide(e, "buffer")
          /\ \E step \in {handler[e], "none", "done"} : handler' = [handler EXCEPT ![e] = step]
      BY <1>1, <2>4 DEF Ingest, Buffer, g
    <3>2. /\ joined'[e] = {g} /\ handler'[e] # "pushing" /\ disposition'[e] = decided("buffer")
          /\ \A x \in Event \ {e} : /\ joined'[x] = joined[x] /\ handler'[x] = handler[x]
                                    /\ disposition'[x] = disposition[x]
      BY <1>1, <1>7, <2>2, <3>1
    <3>3. DispositionOf(e)'
      BY <1>2, <1>4, <1>5, <1>6, <2>2, <2>3, <3>2 DEF DispositionOf
    <3>4. QED
      BY <1>4, <2>3, <3>2, <3>3, Untouched DEF DispositionInvariant
  <2>5. CASE PushAtOnce(e)
    <3>1. /\ UNCHANGED joined /\ Decide(e, "push") /\ handler' = [handler EXCEPT ![e] = "pushing"]
      BY <2>5 DEF PushAtOnce
    <3>2. /\ disposition'[e] = decided("push")
          /\ \A x \in Event \ {e} : handler'[x] = handler[x] /\ disposition'[x] = disposition[x]
      BY <1>1, <1>7, <3>1
    <3>3. DispositionOf(e)'
      BY <1>4, <1>5, <1>6, <2>2, <2>3, <3>1, <3>2 DEF DispositionOf
    <3>4. QED
      BY <1>4, <2>3, <3>1, <3>2, <3>3, Untouched DEF DispositionInvariant
  <2>6. QED
    BY <1>9, <2>4, <2>5
<1>10. CASE Replay(e)
  <2>1. /\ handler[e] = "none" /\ disposition[e].decision = "push"
        /\ handler' = [handler EXCEPT ![e] = "pushing"]
        /\ UNCHANGED <<joined, disposition, emissions>>
    BY <1>10 DEF Replay, Replayed, Attemptable, sends
  <2>2. \A x \in Event : PushesOf(x)' = PushesOf(x)
    BY <2>1 DEF PushesOf
  <2>3. handler'[e] = "pushing" /\ \A x \in Event \ {e} : handler'[x] = handler[x]
    BY <1>1, <2>1
  <2>4. disposition[e] # NoDisposition
    BY <2>1 DEF NoDisposition
  <2>5. DispositionOf(e)'
    BY <1>3, <1>4, <2>1, <2>2, <2>3, <2>4 DEF DispositionOf
  <2>6. QED
    BY <1>4, <2>1, <2>2, <2>3, <2>5, Untouched DEF DispositionInvariant
<1>11. CASE RefusePush(e) \/ FailPush(e) \/ LandPush(e)
  <2>1. PICK step \in {"none", "done"} : PushEnds(e, step) /\ (LandPush(e) => step = "done")
    BY <1>11 DEF RefusePush, FailPush, LandPush
  <2>2. /\ handler[e] = "pushing" /\ UNCHANGED <<joined, disposition>>
        /\ handler'[e] = step /\ \A x \in Event \ {e} : handler'[x] = handler[x]
    BY <1>1, <2>1 DEF PushEnds
  <2>3. PushesOf(e) = {} /\ joined[e] = {}
    BY <1>3, <2>2 DEF DispositionOf
  <2>4. emissions' = emissions \/ (LandPush(e) /\ emissions' = emissions \cup {Emitted(m)})
    BY <1>11 DEF RefusePush, FailPush, LandPush
  <2>5. \A x \in Event \ {e} : PushesOf(x)' = PushesOf(x)
    <3>1. \A x \in Event \ {e} : m # <<"push", x>>
      OBVIOUS
    <3>2. QED
      BY <2>4, <3>1, PushesAfter
  <2>6. \/ PushesOf(e)' = {}
        \/ step = "done" /\ PushesOf(e)' = {Emitted(m)}
    BY <2>1, <2>3, <2>4 DEF PushesOf, Emitted
  <2>7. Decided(e) /\ (now <= MaxEventAge => disposition[e] # NoDisposition)
    BY <1>3, <2>2 DEF DispositionOf, Decided
  <2>8. DispositionOf(e)'
    BY <1>3, <1>4, <2>2, <2>3, <2>6, <2>7 DEF DispositionOf
  <2>9. QED
    BY <1>4, <2>2, <2>5, <2>8, Untouched DEF DispositionInvariant
<1>12. QED
  BY <1>8, <1>9, <1>10, <1>11 DEF EventStep

LEMMA TickDispositions ==
  ASSUME TypeOK, DispositionInvariant, UNCHANGED setting, Tick
  PROVE  DispositionInvariant'
<1> SUFFICES ASSUME NEW e \in Event PROVE DispositionOf(e)'
  BY DEF DispositionInvariant
<1>1. /\ UNCHANGED <<joined, handler, emissions>> /\ now' = now + 1 /\ now \in Nat
      /\ disposition'[e] = IF disposition[e].expires <= now' THEN NoDisposition ELSE disposition[e]
      /\ disposition[e].expires \in Nat /\ MaxEventAge \in Nat
  BY SettingTyped DEF Tick, sends, TypeOK
<1>2. MaxEventAge' = MaxEventAge /\ PushesOf(e)' = PushesOf(e) /\ (Decided(e)' <=> Decided(e))
  BY <1>1 DEF MaxEventAge, PushesOf, Decided
<1>3. DispositionOf(e)
  BY DEF DispositionInvariant
<1>4. NoDisposition.decision = "none"
  BY DEF NoDisposition
<1>5. Decided(e) /\ now' <= MaxEventAge => disposition'[e] # NoDisposition
  BY <1>1, <1>3 DEF DispositionOf
<1>6. QED
  BY <1>1, <1>2, <1>3, <1>4, <1>5 DEF DispositionOf

LEMMA DispositionsKept == TypeOK /\ DispositionInvariant /\ [Next]_vars => DispositionInvariant'
<1> SUFFICES ASSUME TypeOK, DispositionInvariant, [Next]_vars PROVE DispositionInvariant'
  OBVIOUS
<1>1. UNCHANGED setting
  BY DEF Next, vars
<1>2. CASE UNCHANGED vars \/ Visit
  <2>1. UNCHANGED <<now, joined, handler, disposition, emissions>>
    BY <1>2 DEF vars, coalesceVars, ingestion, sends, Visit
  <2>2. QED
    BY <1>1, <2>1, Untouched DEF DispositionInvariant, PushesOf
<1>3. QED
  BY <1>1, <1>2, EventDispositions, WorkerDispositions, TickDispositions
  DEF Next, WorkerStep, AfterClaim

LEMMA DispositionsImply == DispositionInvariant => ToldOnce
<1> SUFFICES ASSUME DispositionInvariant, NEW e \in Event
             PROVE  Cardinality(joined[e]) + Cardinality(PushesOf(e)) <= 1
  BY DEF ToldOnce
<1>1. DispositionOf(e)
  BY DEF DispositionInvariant
<1>2. Cardinality({}) = 0 /\ \A x : Cardinality({x}) = 1
  BY FS_EmptySet, FS_Singleton
<1>3. Cardinality(joined[e]) \in {0, 1} /\ Cardinality(PushesOf(e)) \in {0, 1}
  BY <1>1, <1>2 DEF DispositionOf
<1>4. PushesOf(e) # {} => Cardinality(joined[e]) = 0
  BY <1>1, <1>2 DEF DispositionOf
<1>5. QED
  BY <1>2, <1>3, <1>4

\* No reaction is lost on the way into a summary and none is told of twice: pending work
\* is always due or leased, a summary counts every action recorded in its group, and an
\* event is counted in one group or pushed at once (coalesce.rs:13-18).
THEOREM EventsAreKept == Spec => []OutboxKeepsEvents
<1>1. Init => CountInvariant /\ DispositionInvariant
  BY CountsAtFirst, DispositionAtFirst
<1>2. TenureInvariant /\ CountInvariant /\ DispositionInvariant /\ [Next]_vars
        => CountInvariant' /\ DispositionInvariant'
  BY CountsKept, DispositionsKept DEF TenureInvariant
<1>3. TenureInvariant /\ CountInvariant /\ DispositionInvariant => OutboxKeepsEvents
  BY CountsImply, DispositionsImply DEF OutboxKeepsEvents, TenureInvariant
<1>4. QED
  BY <1>1, <1>2, <1>3, TenureAlways, PTL DEF Spec

-----------------------------------------------------------------------------
(* Emissions are rationed                                                    *)

\* The charges of a span of time that still stand, and what bounds them.  An emission
\* that was told of keeps its charge unless its flush was interrupted.
Standing(from, to) == {m \in Emission : charged[m] # 0 /\ charged[m] \in from..to}

Recent(to) == Standing(to - DailyWindow + 1, to)

Granted(from, to) == Full + (to - from) + Cardinality(LateRefunds(from, to)) * Refill

EmissionsCharged ==
  \A x \in emissions : x.charged <= now /\ (Rationed(x) => charged[x.emission] = x.charged)

EmissionsSubmitted ==
  \A x \in emissions : x.emission[1] = "summary" => submitted[x.emission[2]] # <<>>

FlushesCharged ==
  \A w \in Worker : Flushing(w) /\ ~Digest /\ worker[w].step \in {"charged", "rejected"} =>
    charged[<<"summary", worker[w].gid>>] # 0

PushCharged(e) ==
  handler[e] = "pushing" \/ (handler[e] = "none" /\ disposition[e].decision = "push") =>
    charged[<<"push", e>>] # 0

ChargesStand ==
  /\ EmissionsCharged /\ EmissionsSubmitted /\ FlushesCharged
  /\ \A e \in Event : PushCharged(e)

Charges == {m \in Emission : charged[m] # 0}

\* What the window and the refunds remember agrees with the charges.
ChargesAgree ==
  /\ IsFiniteSet(Charges) /\ IsFiniteSet(refunds)
  /\ \A m \in Emission :
       /\ charged[m] <= now
       /\ emitted[m] # 0 => emitted[m] = charged[m]
       /\ charged[m] # 0 /\ charged[m] > now - DailyWindow => emitted[m] = charged[m]
  /\ \A r \in refunds : r.at <= now /\ (charged[r.emission] = 0 \/ r.at <= charged[r.emission])

WindowsKept == \A to \in 1..now : Cardinality(Recent(to)) <= DailyCap

BucketKept ==
  /\ \A to \in 1..now : \A from \in 1..to :
       Cardinality(Standing(from, to)) * Refill <= Granted(from, to)
  /\ \A from \in 1..now :
       Cardinality(Standing(from, now)) * Refill + Tokens <= Granted(from, now)

RationInvariant == ChargesAgree /\ WindowsKept /\ BucketKept

LEMMA Times ==
  ASSUME NEW m \in Nat, NEW n \in Nat, NEW k \in Nat, m <= n
  PROVE  m * k \in Nat /\ n * k \in Nat /\ m * k <= n * k /\ (n + 1) * k = n * k + k
OBVIOUS

\* How the ration is changed, if it is.
RationKept ==
  /\ Tokens' = Tokens
  /\ UNCHANGED <<charged, refunds>>
  /\ emitted' = emitted \/ emitted' = Windowed

RationEffect ==
  \/ RationKept
  \/ \E m \in Emission : Affordable /\ Charge(m)
  \/ \E m \in Emission : charged[m] # 0 /\ GiveBack(m)

LEMMA TokensAfter ==
  ASSUME TypeOK, UNCHANGED now
  PROVE  /\ UNCHANGED throttle => Tokens' = Tokens
         /\ \A n \in 0..Full : throttle' = [tokens |-> n, at |-> now] => Tokens' = n
<1>1. Full \in Nat /\ now \in Nat
  BY Lifetimes DEF TypeOK
<1>2. UNCHANGED throttle => Tokens' = Tokens
  BY DEF Tokens, Full
<1>3. ASSUME NEW n \in 0..Full, throttle' = [tokens |-> n, at |-> now] PROVE Tokens' = n
  <2>1. Tokens' = Least(Full, throttle'.tokens + (now' - throttle'.at))
    BY DEF Tokens, Least, Full
  <2>2. QED
    BY <1>1, <1>3, <2>1 DEF Least
<1>4. QED
  BY <1>2, <1>3

LEMMA WeighKeeps ==
  ASSUME TypeOK, UNCHANGED now, Weigh
  PROVE  Tokens' = Tokens
BY TokensTyped, TokensAfter DEF Weigh

LEMMA EventRations ==
  ASSUME TypeOK, ChargesStand, NEW e \in Event, EventStep(e)
  PROVE  RationEffect
<1>1. now' = now
  BY EventEffects
<1>2. UNCHANGED ration => RationKept
  BY <1>1, TokensAfter DEF RationKept, ration
<1>3. <<"push", e>> \in Emission
  BY EmissionsTyped
<1>4. CASE PushAtOnce(e)
  BY <1>3, <1>4 DEF PushAtOnce, RationEffect
<1>5. CASE Buffer(e)
  <2>1. UNCHANGED <<charged, refunds>>
    BY <1>5 DEF Buffer
  <2>2. \/ Weigh /\ emitted' = Windowed
        \/ UNCHANGED <<throttle, emitted>>
    BY <1>5 DEF Buffer
  <2>3. Tokens' = Tokens
    BY <1>1, <2>2, WeighKeeps, TokensAfter
  <2>4. QED
    BY <2>1, <2>2, <2>3 DEF RationEffect, RationKept
<1>6. CASE RefusePush(e)
  <2>1. charged[<<"push", e>>] # 0
    BY <1>6 DEF RefusePush, PushEnds, ChargesStand, PushCharged
  <2>2. GiveBack(<<"push", e>>) \/ UNCHANGED ration
    BY <1>6 DEF RefusePush
  <2>3. QED
    BY <1>2, <1>3, <2>1, <2>2 DEF RationEffect
<1>7. CASE BindEvent(e) \/ Ingest(e) \/ Replay(e) \/ FailPush(e) \/ LandPush(e)
  BY <1>2, <1>7 DEF BindEvent, Ingest, Replay, FailPush, LandPush, RationEffect
<1>8. QED
  BY <1>4, <1>5, <1>6, <1>7 DEF EventStep

LEMMA WorkerRations ==
  ASSUME TypeOK, ChargesStand, NEW w \in Worker, WorkerStep(w) \/ Crash(w) \/ Fail(w) \/ LoseReply(w)
  PROVE  RationEffect /\ now' = now
<1> DEFINE m == <<"summary", worker[w].gid>>
<1>1. now' = now
  BY DEF WorkerStep, FlushStep, Load, Drop, Spend, Refund, Suppress, Defer, Submit, SubmitInVain,
    Complete, TimeOut, PutBack, Crash, Fail, LoseReply, Claim, PollEmpty
<1>2. UNCHANGED ration => RationKept
  BY <1>1, TokensAfter DEF RationKept, ration
<1>3. worker[w] # Idle => m \in Emission
  BY FlushTyped, EmissionsTyped
<1>4. \A s : At(w, s) => Flushing(w) /\ worker[w] # Idle /\ worker[w].step = s
  BY DEF At, InTime, Flushing
<1> HIDE DEF m
<1>5. CASE Spend(w)
  <2>1. m \in Emission
    BY <1>3, <1>4, <1>5 DEF Spend
  <2>2. \/ Affordable /\ Charge(m)
        \/ emitted' = Windowed /\ UNCHANGED <<throttle, charged, refunds>>
        \/ emitted' = Windowed /\ Weigh /\ UNCHANGED <<charged, refunds>>
    BY <1>5 DEF Spend, m
  <2>3. QED
    BY <1>1, <2>1, <2>2, WeighKeeps, TokensAfter DEF RationEffect, RationKept
<1>6. CASE Refund(w)
  <2>1. /\ Flushing(w) /\ ~Digest /\ worker[w] # Idle /\ worker[w].step \in {"charged", "rejected"}
        /\ GiveBack(m) \/ UNCHANGED ration
    BY <1>4, <1>6 DEF Refund, m
  <2>2. charged[m] # 0
    BY <2>1 DEF ChargesStand, FlushesCharged, m
  <2>3. QED
    BY <1>1, <1>2, <1>3, <2>1, <2>2 DEF RationEffect
<1>7. CASE ~Spend(w) /\ ~Refund(w)
  BY <1>1, <1>2, <1>7 DEF WorkerStep, FlushStep, Load, Drop, Suppress, Defer, Submit, SubmitInVain,
    Complete, TimeOut, PutBack, Crash, Fail, LoseReply, Claim, PollEmpty, RationEffect
<1>8. QED
  BY <1>1, <1>5, <1>6, <1>7


\* Counting a span of charges, and the refunds in it.
LEMMA SpanCounted ==
  ASSUME ChargesAgree, NEW from, NEW to
  PROVE  /\ IsFiniteSet(Standing(from, to)) /\ Cardinality(Standing(from, to)) \in Nat
         /\ IsFiniteSet(LateRefunds(from, to)) /\ Cardinality(LateRefunds(from, to)) \in Nat
<1>1. Standing(from, to) \subseteq Charges /\ LateRefunds(from, to) \subseteq refunds
  BY DEF Standing, Charges, LateRefunds
<1>2. IsFiniteSet(Standing(from, to)) /\ IsFiniteSet(LateRefunds(from, to))
  BY <1>1, FS_Subset DEF ChargesAgree
<1>3. QED
  BY <1>2, FS_CardinalityType

LEMMA RationBounds ==
  ASSUME TypeOK, TypeOK', UNCHANGED setting
  PROVE  /\ now \in Nat \ {0} /\ now' \in Nat \ {0}
         /\ Tokens \in 0..Full /\ Tokens' \in 0..Full
         /\ DailyCap \in Nat \ {0} /\ DailyCap' = DailyCap
         /\ charged \in [Emission -> Nat] /\ emitted \in [Emission -> Nat]
<1>1. /\ now \in Nat \ {0} /\ now' \in Nat \ {0}
      /\ charged \in [Emission -> Nat] /\ emitted \in [Emission -> Nat]
  BY DEF TypeOK
<1>2. setting \in Setting
  BY DEF TypeOK
<1>3. DailyCap \in Nat \ {0} /\ DailyCap' = DailyCap
  BY <1>2, SettingTyped DEF DailyCap
<1>4. throttle' \in [tokens : 0..Full, at : 1..now']
  BY DEF TypeOK
<1>5. Tokens' \in 0..Full
  BY <1>1, <1>4, Lifetimes DEF Tokens, Least, Full
<1>6. QED
  BY <1>1, <1>3, <1>5, TokensTyped

LEMMA KeptRation ==
  ASSUME TypeOK, TypeOK', RationInvariant, UNCHANGED <<now, setting>>, RationKept
  PROVE  RationInvariant'
<1>1. /\ now \in Nat \ {0} /\ Tokens' = Tokens /\ DailyCap' = DailyCap
      /\ UNCHANGED <<charged, refunds>>
  BY RationBounds DEF RationKept
<1>2. /\ \A from, to : Standing(from, to)' = Standing(from, to)
      /\ \A from, to : Granted(from, to)' = Granted(from, to)
      /\ \A to : Recent(to)' = Recent(to)
      /\ Charges' = Charges
  BY <1>1 DEF Standing, Recent, Granted, LateRefunds, Charges
<1>3. \A m \in Emission : emitted'[m] = emitted[m] \/ (emitted'[m] = 0 /\ ~InWindow(m))
  BY DEF RationKept, Windowed, Unindexed, InWindow
<1>4. ChargesAgree'
  <2>1. \A m \in Emission :
          /\ charged'[m] <= now'
          /\ emitted'[m] # 0 => emitted'[m] = charged'[m]
          /\ charged'[m] # 0 /\ charged'[m] > now' - DailyWindow => emitted'[m] = charged'[m]
    BY <1>1, <1>3, RationBounds DEF RationInvariant, ChargesAgree, InWindow, Unindexed
  <2>2. QED
    BY <1>1, <1>2, <2>1 DEF RationInvariant, ChargesAgree
<1>5. WindowsKept'
  BY <1>1, <1>2 DEF RationInvariant, WindowsKept
<1>6. BucketKept'
  BY <1>1, <1>2 DEF RationInvariant, BucketKept
<1>7. QED
  BY <1>4, <1>5, <1>6 DEF RationInvariant

\* The charges that the window remembers are the recent ones.
LEMMA WindowIsRecent ==
  ASSUME TypeOK, ChargesAgree
  PROVE  {m \in Emission : InWindow(m)} = Recent(now)
<1>1. now \in Nat \ {0} /\ charged \in [Emission -> Nat] /\ emitted \in [Emission -> Nat]
  BY DEF TypeOK
<1>2. ASSUME NEW m \in Emission PROVE InWindow(m) <=> m \in Recent(now)
  <2>1. /\ charged[m] <= now
        /\ emitted[m] # 0 => emitted[m] = charged[m]
        /\ charged[m] # 0 /\ charged[m] > now - DailyWindow => emitted[m] = charged[m]
        /\ charged[m] \in Nat /\ emitted[m] \in Nat
    BY <1>1 DEF ChargesAgree
  <2>2. m \in Recent(now) <=> (charged[m] # 0 /\ charged[m] \in now - DailyWindow + 1..now)
    BY DEF Recent, Standing
  <2>3. QED
    BY <1>1, <2>1, <2>2, Lifetimes DEF InWindow, Unindexed
<1>3. QED
  BY <1>2 DEF Recent, Standing

LEMMA ChargedRation ==
  ASSUME TypeOK, TypeOK', RationInvariant, UNCHANGED <<now, setting>>,
         NEW m \in Emission, Affordable, Charge(m)
  PROVE  RationInvariant'
<1>1. /\ now \in Nat \ {0} /\ Tokens \in 0..Full /\ DailyCap' = DailyCap /\ DailyCap \in Nat
      /\ charged \in [Emission -> Nat] /\ emitted \in [Emission -> Nat]
      /\ Refill \in Nat \ {0} /\ Full \in Nat /\ DailyWindow \in Nat \ {0}
  BY RationBounds, Lifetimes
<1>2. /\ charged'[m] = now /\ emitted'[m] = now
      /\ \A x \in Emission \ {m} :
           /\ charged'[x] = charged[x]
           /\ emitted'[x] = IF InWindow(x) THEN emitted[x] ELSE 0
      /\ UNCHANGED refunds
  BY <1>1 DEF Charge, Windowed, Unindexed
<1>3. Tokens' = Tokens - Refill /\ Tokens - Refill \in 0..Full
  <2>1. Tokens - Refill \in 0..Full
    BY <1>1 DEF Affordable
  <2>2. throttle' = [tokens |-> Tokens - Refill, at |-> now]
    BY DEF Charge
  <2>3. QED
    BY <2>1, <2>2, TokensAfter
<1>4. ChargesAgree
  BY DEF RationInvariant
<1>5. /\ \A from, to : Standing(from, to)' \subseteq Standing(from, to) \cup {m}
      /\ \A from, to \in Int : to < now => Standing(from, to)' \subseteq Standing(from, to)
      /\ \A from, to : LateRefunds(from, to)' = LateRefunds(from, to)
      /\ \A from, to : Granted(from, to)' = Granted(from, to)
      /\ Charges' \subseteq Charges \cup {m}
  <2>1. \A from, to : LateRefunds(from, to)' = LateRefunds(from, to)
    BY <1>2 DEF LateRefunds
  <2>2. \A from, to : Granted(from, to)' = Granted(from, to)
    BY <2>1 DEF Granted
  <2>3. Charges' \subseteq Charges \cup {m}
    BY <1>2 DEF Charges
  <2>4. \A from, to : Standing(from, to)' \subseteq Standing(from, to) \cup {m}
    BY <1>2 DEF Standing
  <2>5. \A from, to \in Int : to < now => Standing(from, to)' \subseteq Standing(from, to)
    BY <1>1, <1>2 DEF Standing
  <2>6. QED
    BY <2>1, <2>2, <2>3, <2>4, <2>5
<1>6. ChargesAgree'
  <2>1. IsFiniteSet(Charges') /\ IsFiniteSet(refunds')
    <3>1. IsFiniteSet(Charges \cup {m}) /\ IsFiniteSet(refunds)
      BY <1>4, FS_AddElement DEF ChargesAgree
    <3>2. QED
      BY <1>2, <1>5, <3>1, FS_Subset
  <2>2. \A x \in Emission :
          /\ charged'[x] <= now'
          /\ emitted'[x] # 0 => emitted'[x] = charged'[x]
          /\ charged'[x] # 0 /\ charged'[x] > now' - DailyWindow => emitted'[x] = charged'[x]
    BY <1>1, <1>2, <1>4 DEF ChargesAgree, InWindow, Unindexed
  <2>3. \A r \in refunds' :
          r.at <= now' /\ (charged'[r.emission] = 0 \/ r.at <= charged'[r.emission])
    <3> SUFFICES ASSUME NEW r \in refunds
                 PROVE  r.at <= now /\ (charged'[r.emission] = 0 \/ r.at <= charged'[r.emission])
      BY <1>2
    <3>1. r.emission \in Emission /\ r.at <= now /\ (charged[r.emission] = 0 \/ r.at <= charged[r.emission])
      BY <1>4 DEF TypeOK, ChargesAgree
    <3>2. QED
      BY <1>2, <3>1
  <2>4. QED
    BY <2>1, <2>2, <2>3 DEF ChargesAgree
<1>7. ASSUME NEW from \in Int, NEW to \in Int
      PROVE  /\ Cardinality(Standing(from, to)) \in Nat /\ Cardinality(Standing(from, to)') \in Nat
             /\ Cardinality(Standing(from, to)') <= Cardinality(Standing(from, to)) + 1
             /\ to < now => Cardinality(Standing(from, to)') <= Cardinality(Standing(from, to))
             /\ Granted(from, to)' = Granted(from, to)
  <2> DEFINE S == Standing(from, to)
             T == Standing(from, to)'
  <2>1. IsFiniteSet(S) /\ Cardinality(S) \in Nat
    BY <1>4, SpanCounted
  <2>2. T \subseteq S \cup {m} /\ (to < now => T \subseteq S)
    BY <1>5
  <2> HIDE DEF S, T
  <2>3. IsFiniteSet(S \cup {m}) /\ Cardinality(S \cup {m}) \in {Cardinality(S), Cardinality(S) + 1}
    BY <2>1, FS_AddElement
  <2>4. IsFiniteSet(T) /\ Cardinality(T) <= Cardinality(S \cup {m})
    BY <2>2, <2>3, FS_Subset
  <2>5. Cardinality(T) \in Nat
    BY <2>4, FS_CardinalityType
  <2>6. to < now => Cardinality(T) <= Cardinality(S)
    BY <2>1, <2>2, FS_Subset
  <2>7. QED
    BY <1>5, <2>1, <2>3, <2>4, <2>5, <2>6 DEF S, T
<1>8. WindowsKept'
  <2> SUFFICES ASSUME NEW to \in 1..now PROVE Cardinality(Recent(to)') <= DailyCap
    BY <1>1 DEF WindowsKept
  <2>1. Cardinality(Recent(to)) <= DailyCap
    BY DEF RationInvariant, WindowsKept
  <2>2. /\ Cardinality(Recent(to)) \in Nat /\ Cardinality(Recent(to)') \in Nat
        /\ Cardinality(Recent(to)') <= Cardinality(Recent(to)) + 1
        /\ to < now => Cardinality(Recent(to)') <= Cardinality(Recent(to))
    <3>1. to \in Int /\ to - DailyWindow + 1 \in Int
      BY <1>1
    <3>2. QED
      BY <1>7, <3>1 DEF Recent
  <2>3. to = now => Cardinality(Recent(to)) < DailyCap
    <3>1. ~(Cardinality(Recent(now)) >= DailyCap)
      BY <1>4, WindowIsRecent DEF Affordable, AtCap
    <3>2. QED
      BY <1>1, <2>2, <3>1
  <2>4. QED
    BY <1>1, <2>1, <2>2, <2>3
<1>9. BucketKept'
  <2>1. ASSUME NEW from \in 1..now
        PROVE  Cardinality(Standing(from, now)') * Refill + Tokens' <= Granted(from, now)'
    <3> DEFINE n == Cardinality(Standing(from, now))
               k == Cardinality(Standing(from, now)')
    <3>1. /\ n \in Nat /\ k \in Nat /\ k <= n + 1 /\ Granted(from, now)' = Granted(from, now)
      <4>1. from \in Int /\ now \in Int
        BY <1>1
      <4>2. QED
        BY <1>7, <4>1
    <3>2. n * Refill + Tokens <= Granted(from, now)
      BY DEF RationInvariant, BucketKept
    <3>3. Granted(from, now) \in Nat
      BY <1>1, <1>4, SpanCounted, Times DEF Granted
    <3> HIDE DEF n, k
    <3>4. k * Refill <= n * Refill + Refill /\ k * Refill \in Nat /\ n * Refill \in Nat
      BY <1>1, <3>1, Times
    <3>5. k * Refill + Tokens' <= Granted(from, now)'
      BY <1>1, <1>3, <3>1, <3>2, <3>3, <3>4
    <3>6. QED
      BY <3>5 DEF k
  <2>2. ASSUME NEW to \in 1..now, NEW from \in 1..to
        PROVE  Cardinality(Standing(from, to)') * Refill <= Granted(from, to)'
    <3> DEFINE n == Cardinality(Standing(from, to))
               k == Cardinality(Standing(from, to)')
    <3>1. /\ n \in Nat /\ k \in Nat /\ (to < now => k <= n) /\ Granted(from, to)' = Granted(from, to)
      <4>1. from \in Int /\ to \in Int
        BY <1>1
      <4>2. QED
        BY <1>7, <4>1
    <3>2. n * Refill <= Granted(from, to)
      BY DEF RationInvariant, BucketKept
    <3>3. Granted(from, to) \in Nat
      BY <1>1, <1>4, SpanCounted, Times DEF Granted
    <3>4. CASE to < now
      <4> HIDE DEF n, k
      <4>1. k * Refill <= n * Refill /\ k * Refill \in Nat /\ n * Refill \in Nat
        BY <1>1, <3>1, <3>4, Times
      <4>2. k * Refill <= Granted(from, to)'
        BY <3>1, <3>2, <3>3, <4>1
      <4>3. QED
        BY <4>2 DEF k
    <3>5. CASE to = now
      <4>1. k * Refill + Tokens' <= Granted(from, to)'
        BY <2>1, <3>5
      <4> HIDE DEF n, k
      <4>2. k * Refill \in Nat
        BY <1>1, <3>1, Times
      <4>3. k * Refill <= Granted(from, to)'
        BY <1>1, <1>3, <3>1, <3>3, <4>1, <4>2
      <4>4. QED
        BY <4>3 DEF k
    <3>6. QED
      BY <1>1, <3>4, <3>5
  <2>3. QED
    BY <2>1, <2>2 DEF BucketKept
<1>10. QED
  BY <1>6, <1>8, <1>9 DEF RationInvariant

LEMMA GivenBackRation ==
  ASSUME TypeOK, TypeOK', RationInvariant, UNCHANGED <<now, setting>>,
         NEW m \in Emission, charged[m] # 0, GiveBack(m)
  PROVE  RationInvariant'
<1> DEFINE new == [emission |-> m, charged |-> charged[m], at |-> now]
<1>1. /\ now \in Nat \ {0} /\ Tokens \in 0..Full /\ DailyCap' = DailyCap /\ DailyCap \in Nat
      /\ charged \in [Emission -> Nat] /\ emitted \in [Emission -> Nat]
      /\ Refill \in Nat \ {0} /\ Full \in Nat /\ DailyWindow \in Nat \ {0}
  BY RationBounds, Lifetimes
<1>2. /\ charged'[m] = 0 /\ emitted'[m] = 0
      /\ \A x \in Emission \ {m} : charged'[x] = charged[x] /\ emitted'[x] = emitted[x]
      /\ refunds' = refunds \cup {new}
  BY <1>1 DEF GiveBack, Unindexed
<1>3. Tokens' <= Tokens + Refill /\ Tokens' \in Nat
  <2>1. Least(Full, Tokens + Refill) \in 0..Full /\ Least(Full, Tokens + Refill) <= Tokens + Refill
    BY <1>1 DEF Least
  <2>2. throttle' = [tokens |-> Least(Full, Tokens + Refill), at |-> now]
    BY DEF GiveBack
  <2>3. Tokens' = Least(Full, Tokens + Refill)
    BY <2>1, <2>2, TokensAfter
  <2>4. QED
    BY <1>1, <2>1, <2>3
<1>4. ChargesAgree
  BY DEF RationInvariant
<1>5. /\ new.emission = m /\ new.charged = charged[m] /\ new.at = now
      /\ charged[m] \in 1..now
      /\ charged[m] < now => new \notin refunds
  <2>1. charged[m] \in 1..now
    BY <1>1, <1>4 DEF ChargesAgree
  <2>2. new \in refunds => now <= charged[m]
    BY <1>1, <1>4 DEF ChargesAgree
  <2>3. QED
    BY <1>1, <2>1, <2>2
<1> HIDE DEF new
<1>6. /\ \A from, to : Standing(from, to)' = Standing(from, to) \ {m}
      /\ \A from, to : LateRefunds(from, to)' = LateRefunds(from, to) \cup
                         (IF charged[m] < from /\ now \in from..to THEN {new} ELSE {})
      /\ Charges' \subseteq Charges
  <2>1. \A from, to : Standing(from, to)' = Standing(from, to) \ {m}
    BY <1>2 DEF Standing
  <2>2. \A from, to : LateRefunds(from, to)' = LateRefunds(from, to) \cup
                        (IF charged[m] < from /\ now \in from..to THEN {new} ELSE {})
    BY <1>2, <1>5 DEF LateRefunds
  <2>3. Charges' \subseteq Charges
    BY <1>2 DEF Charges
  <2>4. QED
    BY <2>1, <2>2, <2>3
<1>7. ChargesAgree'
  <2>1. IsFiniteSet(Charges') /\ IsFiniteSet(refunds')
    BY <1>2, <1>4, <1>6, FS_AddElement, FS_Subset DEF ChargesAgree
  <2>2. \A x \in Emission :
          /\ charged'[x] <= now'
          /\ emitted'[x] # 0 => emitted'[x] = charged'[x]
          /\ charged'[x] # 0 /\ charged'[x] > now' - DailyWindow => emitted'[x] = charged'[x]
    BY <1>1, <1>2, <1>4 DEF ChargesAgree
  <2>3. \A r \in refunds' :
          r.at <= now' /\ (charged'[r.emission] = 0 \/ r.at <= charged'[r.emission])
    <3> SUFFICES ASSUME NEW r \in refunds'
                 PROVE  r.at <= now /\ (charged'[r.emission] = 0 \/ r.at <= charged'[r.emission])
      OBVIOUS
    <3>1. CASE r = new
      BY <1>1, <1>2, <1>5, <3>1
    <3>2. CASE r \in refunds
      <4>1. r.emission \in Emission /\ r.at <= now /\ (charged[r.emission] = 0 \/ r.at <= charged[r.emission])
        BY <1>4, <3>2 DEF TypeOK, ChargesAgree
      <4>2. QED
        BY <1>2, <4>1
    <3>3. QED
      BY <1>2, <3>1, <3>2
  <2>4. QED
    BY <2>1, <2>2, <2>3 DEF ChargesAgree
<1>8. ASSUME NEW from, NEW to
      PROVE  /\ Cardinality(Standing(from, to)) \in Nat /\ Cardinality(Standing(from, to)') \in Nat
             /\ Cardinality(Standing(from, to)') <= Cardinality(Standing(from, to))
             /\ m \in Standing(from, to) =>
                  Cardinality(Standing(from, to)') + 1 = Cardinality(Standing(from, to))
  <2> DEFINE S == Standing(from, to)
             T == Standing(from, to)'
  <2>1. IsFiniteSet(S) /\ Cardinality(S) \in Nat
    BY <1>4, SpanCounted
  <2>2. T = S \ {m}
    BY <1>6
  <2> HIDE DEF S, T
  <2>3. IsFiniteSet(T) /\ Cardinality(T) = IF m \in S THEN Cardinality(S) - 1 ELSE Cardinality(S)
    BY <2>1, <2>2, FS_RemoveElement
  <2>4. Cardinality(T) \in Nat
    BY <2>3, FS_CardinalityType
  <2>5. Cardinality(T) <= Cardinality(S) /\ (m \in S => Cardinality(T) + 1 = Cardinality(S))
    BY <2>1, <2>3, <2>4
  <2>6. QED
    BY <2>1, <2>4, <2>5 DEF S, T
<1>9. WindowsKept'
  <2> SUFFICES ASSUME NEW to \in 1..now PROVE Cardinality(Recent(to)') <= DailyCap
    BY <1>1 DEF WindowsKept
  <2>1. Cardinality(Recent(to)) <= DailyCap
    BY DEF RationInvariant, WindowsKept
  <2>2. /\ Cardinality(Recent(to)) \in Nat /\ Cardinality(Recent(to)') \in Nat
        /\ Cardinality(Recent(to)') <= Cardinality(Recent(to))
    BY <1>8 DEF Recent
  <2>3. QED
    BY <1>1, <2>1, <2>2
\* What is given back late is granted again; what is given back in time is not counted.
<1>10. ASSUME NEW from \in 1..now, NEW to \in 1..now
       PROVE  LET n == Cardinality(Standing(from, to))
                  k == Cardinality(Standing(from, to)')
              IN /\ n \in Nat /\ k \in Nat /\ k * Refill \in Nat /\ n * Refill \in Nat
                 /\ k * Refill <= n * Refill
                 /\ Granted(from, to) \in Int /\ Granted(from, to)' \in Int
                 /\ Granted(from, to) <= Granted(from, to)'
                 /\ to = now => \/ k * Refill + Refill = n * Refill
                                \/ Granted(from, to)' = Granted(from, to) + Refill
  <2> DEFINE n == Cardinality(Standing(from, to))
             k == Cardinality(Standing(from, to)')
             L == LateRefunds(from, to)
             M == LateRefunds(from, to)'
             late == charged[m] < from /\ now \in from..to
  <2>1. IsFiniteSet(L) /\ M = L \cup (IF late THEN {new} ELSE {})
    BY <1>4, <1>6, SpanCounted
  <2>2. late => new \notin L
    BY <1>1, <1>5 DEF LateRefunds
  <2>3. /\ n \in Nat /\ k \in Nat /\ k <= n
        /\ m \in Standing(from, to) => k + 1 = n
    BY <1>8
  <2>4. to = now => late \/ m \in Standing(from, to)
    BY <1>1, <1>5 DEF Standing
  <2>5. Granted(from, to) = Full + (to - from) + Cardinality(L) * Refill
    BY DEF Granted
  <2>6. Granted(from, to)' = Full + (to - from) + Cardinality(M) * Refill
    BY DEF Granted
  <2> HIDE DEF n, k, L, M, late
  <2>7. Cardinality(L) \in Nat /\ Cardinality(M) = IF late THEN Cardinality(L) + 1 ELSE Cardinality(L)
    BY <2>1, <2>2, FS_AddElement, FS_CardinalityType
  <2>8. /\ Cardinality(L) * Refill \in Nat
        /\ (Cardinality(L) + 1) * Refill = Cardinality(L) * Refill + Refill
    BY <1>1, <2>7, Times
  <2>9. k * Refill \in Nat /\ n * Refill \in Nat /\ k * Refill <= n * Refill
        /\ (k + 1) * Refill = k * Refill + Refill
    BY <1>1, <2>3, Times
  <2>10. /\ Granted(from, to) \in Int
         /\ Granted(from, to)' = IF late THEN Granted(from, to) + Refill ELSE Granted(from, to)
    BY <1>1, <2>5, <2>6, <2>7, <2>8
  <2>11. to = now => k * Refill + Refill = n * Refill \/ Granted(from, to)' = Granted(from, to) + Refill
    BY <2>3, <2>4, <2>9, <2>10
  <2>12. Granted(from, to)' \in Int /\ Granted(from, to) <= Granted(from, to)'
    BY <1>1, <2>10
  <2>13. QED
    BY <2>3, <2>9, <2>10, <2>11, <2>12 DEF n, k
<1>11. BucketKept'
  <2>1. ASSUME NEW from \in 1..now
        PROVE  Cardinality(Standing(from, now)') * Refill + Tokens' <= Granted(from, now)'
    <3>1. Cardinality(Standing(from, now)) * Refill + Tokens <= Granted(from, now)
      BY DEF RationInvariant, BucketKept
    <3>2. now \in 1..now
      BY <1>1
    <3> DEFINE x == Cardinality(Standing(from, now)) * Refill
               y == Cardinality(Standing(from, now)') * Refill
               a == Granted(from, now)
               b == Granted(from, now)'
               t == Tokens'
    <3>3. /\ x \in Nat /\ y \in Nat /\ y <= x /\ a \in Int /\ b \in Int /\ a <= b
          /\ y + Refill = x \/ b = a + Refill
      BY <1>10, <3>2
    <3>4. t <= Tokens + Refill /\ t \in Nat
      BY <1>3
    <3> HIDE DEF x, y, a, b, t
    <3>5. x + Tokens <= a
      BY <3>1 DEF x, a
    <3>6. y + t <= b
      BY <1>1, <3>3, <3>4, <3>5
    <3>7. QED
      BY <3>6 DEF y, b, t
  <2>2. ASSUME NEW to \in 1..now, NEW from \in 1..to
        PROVE  Cardinality(Standing(from, to)') * Refill <= Granted(from, to)'
    <3>1. Cardinality(Standing(from, to)) * Refill <= Granted(from, to)
      BY DEF RationInvariant, BucketKept
    <3>2. from \in 1..now
      BY <1>1
    <3> DEFINE x == Cardinality(Standing(from, to)) * Refill
               y == Cardinality(Standing(from, to)') * Refill
               a == Granted(from, to)
               b == Granted(from, to)'
    <3>3. x \in Nat /\ y \in Nat /\ y <= x /\ a \in Int /\ b \in Int /\ a <= b
      BY <1>10, <3>2
    <3> HIDE DEF x, y, a, b
    <3>4. x <= a
      BY <3>1 DEF x, a
    <3>5. y <= b
      BY <3>3, <3>4
    <3>6. QED
      BY <3>5 DEF y, b
  <2>3. QED
    BY <2>1, <2>2 DEF BucketKept
<1>12. QED
  BY <1>7, <1>9, <1>11 DEF RationInvariant

LEMMA TickRation ==
  ASSUME TypeOK, TypeOK', RationInvariant, UNCHANGED setting, Tick
  PROVE  RationInvariant'
<1>1. /\ now \in Nat \ {0} /\ now' = now + 1 /\ Tokens \in 0..Full /\ Tokens' \in 0..Full
      /\ DailyCap' = DailyCap /\ DailyCap \in Nat
      /\ charged \in [Emission -> Nat] /\ emitted \in [Emission -> Nat]
      /\ Refill \in Nat \ {0} /\ Full \in Nat /\ DailyWindow \in Nat \ {0}
      /\ UNCHANGED <<throttle, emitted, charged, refunds>>
  BY RationBounds, Lifetimes DEF Tick, ration
<1>2. Tokens' <= Tokens + 1
  <2>1. throttle \in [tokens : 0..Full, at : 1..now]
    BY DEF TypeOK
  <2>2. QED
    BY <1>1, <2>1 DEF Tokens, Least, Full
<1>3. ChargesAgree
  BY DEF RationInvariant
<1>4. /\ \A from, to : Standing(from, to)' = Standing(from, to)
      /\ \A from, to : LateRefunds(from, to)' = LateRefunds(from, to)
      /\ Charges' = Charges
  BY <1>1 DEF Standing, LateRefunds, Charges
<1>5. /\ \A from \in Int : Standing(from, now + 1) \subseteq Standing(from, now)
      /\ \A from \in Int : from > now => Standing(from, now + 1) = {}
      /\ \A from \in Int : LateRefunds(from, now + 1) = LateRefunds(from, now)
  <2>1. \A m \in Emission : charged[m] \in Nat /\ charged[m] <= now
    BY <1>1, <1>3 DEF ChargesAgree
  <2>2. \A r \in refunds : r.at \in Nat /\ r.at <= now
    BY <1>3 DEF ChargesAgree, TypeOK
  <2>3. \A from \in Int : Standing(from, now + 1) \subseteq Standing(from, now)
    BY <1>1, <2>1 DEF Standing
  <2>4. \A from \in Int : from > now => Standing(from, now + 1) = {}
    BY <1>1, <2>1 DEF Standing
  <2>5. \A from \in Int : LateRefunds(from, now + 1) = LateRefunds(from, now)
    BY <1>1, <2>2 DEF LateRefunds
  <2>6. QED
    BY <2>3, <2>4, <2>5
<1>6. ChargesAgree'
  <2>1. \A m \in Emission :
          /\ charged'[m] <= now'
          /\ emitted'[m] # 0 => emitted'[m] = charged'[m]
          /\ charged'[m] # 0 /\ charged'[m] > now' - DailyWindow => emitted'[m] = charged'[m]
    BY <1>1, <1>3 DEF ChargesAgree
  <2>2. \A r \in refunds' :
          r.at <= now' /\ (charged'[r.emission] = 0 \/ r.at <= charged'[r.emission])
    <3> SUFFICES ASSUME NEW r \in refunds
                 PROVE  r.at <= now + 1 /\ (charged[r.emission] = 0 \/ r.at <= charged[r.emission])
      BY <1>1
    <3>1. r.at \in Nat /\ r.at <= now /\ (charged[r.emission] = 0 \/ r.at <= charged[r.emission])
      BY <1>3 DEF ChargesAgree, TypeOK
    <3>2. QED
      BY <1>1, <3>1
  <2>3. QED
    BY <1>1, <1>3, <1>4, <2>1, <2>2 DEF ChargesAgree
<1>7. WindowsKept'
  <2> SUFFICES ASSUME NEW to \in 1..(now + 1) PROVE Cardinality(Recent(to)') <= DailyCap
    BY <1>1 DEF WindowsKept
  <2>1. Recent(to)' = Recent(to)
    BY <1>4 DEF Recent
  <2>2. CASE to <= now
    BY <1>1, <2>1, <2>2 DEF RationInvariant, WindowsKept
  <2>3. CASE to = now + 1
    <3>1. Recent(to) \subseteq Recent(now)
      BY <1>1, <1>5, <2>3 DEF Recent, Standing
    <3>2. Cardinality(Recent(now)) <= DailyCap
      BY <1>1 DEF RationInvariant, WindowsKept
    <3>3. IsFiniteSet(Recent(now)) /\ Cardinality(Recent(now)) \in Nat
      BY <1>3, SpanCounted DEF Recent
    <3>4. Cardinality(Recent(to)) <= Cardinality(Recent(now)) /\ Cardinality(Recent(to)) \in Nat
      BY <3>1, <3>3, FS_Subset, FS_CardinalityType
    <3>5. QED
      BY <1>1, <2>1, <3>2, <3>3, <3>4
  <2>4. QED
    BY <1>1, <2>2, <2>3
<1>8. \A from, to : Granted(from, to)' = Granted(from, to)
  BY <1>4 DEF Granted
<1>9. ASSUME NEW from \in 1..(now + 1)
      PROVE  Cardinality(Standing(from, now + 1)) * Refill + Tokens' <= Granted(from, now + 1)
  <2> DEFINE late == Cardinality(LateRefunds(from, now))
             x == Cardinality(Standing(from, now + 1))
  <2>1. late \in Nat /\ late * Refill \in Nat
    <3>1. late \in Nat
      BY <1>3, SpanCounted
    <3> HIDE DEF late
    <3>2. QED
      BY <1>1, <3>1, Times
  <2>2. Granted(from, now + 1) = Full + (now + 1 - from) + late * Refill
    BY <1>1, <1>5 DEF Granted
  <2>3. CASE from <= now
    <3> DEFINE y == Cardinality(Standing(from, now))
    <3>1. y \in Nat /\ IsFiniteSet(Standing(from, now))
      BY <1>3, SpanCounted
    <3>2. x <= y /\ x \in Nat
      BY <1>5, <3>1, FS_Subset, FS_CardinalityType
    <3>3. y * Refill + Tokens <= Granted(from, now)
      BY <1>1, <2>3 DEF RationInvariant, BucketKept
    <3>4. Granted(from, now) = Full + (now - from) + late * Refill
      BY DEF Granted
    <3> HIDE DEF late, x, y
    <3>5. x * Refill \in Nat /\ y * Refill \in Nat /\ x * Refill <= y * Refill
      BY <1>1, <3>1, <3>2, Times
    <3>6. x * Refill + Tokens' <= Granted(from, now + 1)
      BY <1>1, <1>2, <2>1, <2>2, <3>3, <3>4, <3>5
    <3>7. QED
      BY <3>6 DEF x
  <2>4. CASE from = now + 1
    <3>1. x = 0
      BY <1>1, <1>5, <2>4, FS_EmptySet
    <3> HIDE DEF late, x
    <3>2. x * Refill + Tokens' <= Granted(from, now + 1)
      BY <1>1, <2>1, <2>2, <2>4, <3>1
    <3>3. QED
      BY <3>2 DEF x
  <2>5. QED
    BY <1>1, <2>3, <2>4
<1>10. BucketKept'
  <2>1. ASSUME NEW from \in 1..(now + 1)
        PROVE  Cardinality(Standing(from, now)') * Refill + Tokens' <= Granted(from, now)'
    <3>1. Standing(from, now)' = Standing(from, now + 1) /\ Granted(from, now)' = Granted(from, now + 1)
      BY <1>1 DEF Standing, Granted, LateRefunds
    <3>2. QED
      BY <1>9, <3>1
  <2>2. ASSUME NEW to \in 1..(now + 1), NEW from \in 1..to
        PROVE  Cardinality(Standing(from, to)) * Refill <= Granted(from, to)
    <3>1. CASE to <= now
      BY <1>1, <3>1 DEF RationInvariant, BucketKept
    <3>2. CASE to = now + 1
      <4> DEFINE x == Cardinality(Standing(from, to)) * Refill
                 a == Granted(from, to)
                 t == Tokens'
      <4>1. x + t <= a /\ t \in Nat
        BY <1>1, <1>9, <3>2
      <4>2. x \in Nat /\ a \in Int
        <5>1. /\ Cardinality(Standing(from, to)) \in Nat /\ Cardinality(LateRefunds(from, to)) \in Nat
          BY <1>3, SpanCounted
        <5>2. Cardinality(LateRefunds(from, to)) * Refill \in Nat /\ x \in Nat
          BY <1>1, <5>1, Times
        <5>3. QED
          BY <1>1, <5>2 DEF Granted
      <4> HIDE DEF x, a, t
      <4>3. x <= a
        BY <4>1, <4>2
      <4>4. QED
        BY <4>3 DEF x, a
    <3>3. QED
      BY <1>1, <3>1, <3>2
  <2>3. QED
    BY <1>1, <1>4, <1>8, <2>1, <2>2 DEF BucketKept
<1>11. QED
  BY <1>6, <1>7, <1>10 DEF RationInvariant

-----------------------------------------------------------------------------
(* The charges of emissions stand                                            *)

LEMMA EmissionNames ==
  ASSUME TypeOK, NEW x \in emissions
  PROVE  /\ x.emission \in Emission /\ x.charged \in Nat
         /\ x = [emission |-> x.emission, charged |-> x.charged]
         /\ \/ \E e \in Event : x.emission = <<"push", e>>
            \/ \E g \in Group : x.emission = <<"summary", g>>
<1>1. x \in [emission : Emission, charged : Nat]
  BY DEF TypeOK
<1>2. x.emission \in Emission /\ x.charged \in Nat
      /\ x = [emission |-> x.emission, charged |-> x.charged]
  BY <1>1
<1>3. QED
  BY <1>2 DEF Emission

\* A step that changes at most one charge, of an emission that is not told of yet.
LEMMA EmissionsStand ==
  ASSUME TypeOK, ChargesAgree, EmissionsCharged, UNCHANGED now, NEW m \in Emission,
         \A x \in Emission \ {m} : charged'[x] = charged[x],
         \/ emissions' = emissions
         \/ UNCHANGED charged /\ emissions' = emissions \cup {Emitted(m)},
         \A g \in Group : interrupts'[g] = 0 => interrupts[g] = 0,
         charged'[m] # charged[m] => \A x \in emissions : x.emission = m => ~Rationed(x)
  PROVE  EmissionsCharged'
<1>1. ASSUME NEW x \in emissions, Rationed(x)' PROVE Rationed(x)
  <2>1. CASE \E e \in Event : x.emission = <<"push", e>>
    BY <2>1 DEF Rationed
  <2>2. CASE \E g \in Group : x.emission = <<"summary", g>>
    BY <1>1, <2>2 DEF Rationed
  <2>3. QED
    BY <2>1, <2>2, EmissionNames
<1>2. \A x \in emissions : x.charged <= now' /\ (Rationed(x)' => charged'[x.emission] = x.charged)
  <2> SUFFICES ASSUME NEW x \in emissions
               PROVE  x.charged <= now /\ (Rationed(x)' => charged'[x.emission] = x.charged)
    OBVIOUS
  <2>1. x.charged <= now /\ (Rationed(x) => charged[x.emission] = x.charged)
    BY DEF EmissionsCharged
  <2>2. x.emission \in Emission
    BY EmissionNames
  <2>3. Rationed(x) => charged'[x.emission] = charged[x.emission]
    BY <2>2
  <2>4. QED
    BY <1>1, <2>1, <2>3
<1>3. ASSUME UNCHANGED charged
      PROVE  Emitted(m).charged <= now /\ Emitted(m).charged = charged'[Emitted(m).emission]
  BY <1>3 DEF Emitted, ChargesAgree
<1>4. QED
  BY <1>2, <1>3 DEF EmissionsCharged

LEMMA EventCharges ==
  ASSUME TypeOK, DispositionInvariant, ChargesAgree, ChargesStand, UNCHANGED setting,
         NEW e \in Event, EventStep(e)
  PROVE  ChargesStand'
<1> DEFINE m == <<"push", e>>
<1>1. /\ now' = now /\ UNCHANGED <<submitted, interrupts, worker>>
      /\ now \in Nat \ {0} /\ charged \in [Emission -> Nat]
      /\ handler \in [Event -> {"none", "pushing", "done"}]
      /\ disposition \in [Event -> [decision : {"none", "push", "buffer"}, expires : Nat]]
      /\ m \in Emission /\ \A x \in Event \ {e} : <<"push", x>> \in Emission \ {m}
      /\ \A g \in Group : <<"summary", g>> \in Emission \ {m}
  <2>1. now' = now /\ UNCHANGED <<submitted, interrupts, worker>>
    BY EventEffects
  <2>2. now \in Nat \ {0}
    BY DEF TypeOK
  <2>3. QED
    BY <2>1, <2>2, EmissionsTyped DEF TypeOK
<1>2. DispositionOf(e) /\ PushCharged(e)
  BY DEF DispositionInvariant, ChargesStand
\* Only the charge of this event changes, and not once it was pushed.
<1>3. /\ \A x \in Emission \ {m} : charged'[x] = charged[x]
      /\ charged'[m] # charged[m] => PushesOf(e) = {}
      /\ emissions' = emissions \/ (UNCHANGED charged /\ emissions' = emissions \cup {Emitted(m)})
      /\ \A x \in Event \ {e} : handler'[x] = handler[x] /\ disposition'[x] = disposition[x]
      /\ PushCharged(e)'
  <2>1. \A d : Decide(e, d) => /\ disposition'[e].decision = d
                               /\ \A x \in Event \ {e} : disposition'[x] = disposition[x]
    BY <1>1 DEF Decide
  <2>2. \A s : handler' = [handler EXCEPT ![e] = s] =>
          handler'[e] = s /\ \A x \in Event \ {e} : handler'[x] = handler[x]
    BY <1>1
  <2>3. CASE PushAtOnce(e)
    <3>1. /\ Recordable(e) /\ Charge(m) /\ Decide(e, "push")
          /\ handler' = [handler EXCEPT ![e] = "pushing"] /\ UNCHANGED emissions
      BY <2>3 DEF PushAtOnce, sends
    <3>2. PushesOf(e) = {}
      BY <1>2, <3>1 DEF Recordable, DispositionOf, Decided
    <3>3. charged'[m] = now /\ \A x \in Emission \ {m} : charged'[x] = charged[x]
      BY <1>1, <3>1 DEF Charge
    <3>4. PushCharged(e)'
      BY <1>1, <3>3 DEF PushCharged
    <3>5. QED
      BY <2>1, <2>2, <3>1, <3>2, <3>3, <3>4
  <2>4. CASE Buffer(e) \/ Ingest(e)
    <3>1. /\ Decide(e, "buffer") /\ UNCHANGED <<charged, emissions>>
          /\ \/ UNCHANGED handler
             \/ \E step \in {"none", "done"} : handler' = [handler EXCEPT ![e] = step]
          /\ Recordable(e)
      BY <2>4 DEF Buffer, Ingest, ration, sends
    <3>2. disposition[e] = NoDisposition
      BY <3>1 DEF Recordable
    <3>3. PushCharged(e)'
      <4>1. handler'[e] = handler[e] \/ handler'[e] \in {"none", "done"}
        BY <1>1, <3>1
      <4>2. disposition'[e].decision = "buffer"
        BY <2>1, <3>1
      <4>3. QED
        BY <1>2, <3>1, <4>1, <4>2 DEF PushCharged
    <3>4. \A x \in Event \ {e} : handler'[x] = handler[x]
      BY <1>1, <3>1
    <3>5. QED
      BY <2>1, <3>1, <3>3, <3>4
  <2>5. CASE Replay(e)
    <3>1. /\ handler[e] = "none" /\ disposition[e].decision = "push"
          /\ handler' = [handler EXCEPT ![e] = "pushing"]
          /\ UNCHANGED <<disposition, charged, emissions>>
      BY <2>5 DEF Replay, Attemptable, Replayed, ration, sends
    <3>2. PushCharged(e)'
      BY <1>2, <3>1 DEF PushCharged
    <3>3. QED
      BY <2>2, <3>1, <3>2
  <2>6. CASE RefusePush(e)
    <3>1. /\ handler[e] = "pushing" /\ handler' = [handler EXCEPT ![e] = "done"]
          /\ UNCHANGED <<disposition, emissions>>
          /\ GiveBack(m) \/ UNCHANGED charged
      BY <2>6 DEF RefusePush, PushEnds, ration
    <3>2. PushesOf(e) = {}
      BY <1>2, <3>1 DEF DispositionOf
    <3>3. \A x \in Emission \ {m} : charged'[x] = charged[x]
      BY <1>1, <3>1 DEF GiveBack
    <3>4. PushCharged(e)'
      <4>1. handler'[e] = "done"
        BY <2>2, <3>1
      <4>2. QED
        BY <4>1 DEF PushCharged
    <3>5. QED
      BY <2>2, <3>1, <3>2, <3>3, <3>4
  <2>7. CASE FailPush(e) \/ LandPush(e)
    <3>1. PICK step \in {"none", "done"} : handler' = [handler EXCEPT ![e] = step]
      BY <2>7 DEF FailPush, LandPush, PushEnds
    <3>2. /\ handler[e] = "pushing" /\ UNCHANGED <<disposition, charged>>
          /\ emissions' \in {emissions, emissions \cup {Emitted(m)}}
      BY <2>7 DEF FailPush, LandPush, PushEnds, ration
    <3>3. PushCharged(e)'
      BY <1>2, <3>2 DEF PushCharged
    <3>4. QED
      BY <2>2, <3>1, <3>2, <3>3
  <2>8. CASE BindEvent(e)
    <3>1. UNCHANGED <<disposition, handler, charged, emissions>>
      BY <2>8 DEF BindEvent, ration, sends
    <3>2. QED
      BY <1>2, <3>1 DEF PushCharged
  <2>9. QED
    BY <2>3, <2>4, <2>5, <2>6, <2>7, <2>8 DEF EventStep
<1>4. EmissionsCharged'
  <2>1. PushesOf(e) = {} => \A x \in emissions : x.emission = m => ~Rationed(x)
    BY DEF PushesOf
  <2>2. QED
    BY <1>1, <1>3, <2>1, EmissionsStand DEF ChargesStand
<1>5. EmissionsSubmitted'
  <2>1. \A x \in emissions' : x \in emissions \/ x.emission[1] = "push"
    BY <1>3 DEF Emitted
  <2>2. QED
    BY <1>1, <2>1 DEF ChargesStand, EmissionsSubmitted
<1>6. FlushesCharged'
  <2> SUFFICES ASSUME NEW w \in Worker, Flushing(w)', ~Digest', worker'[w].step \in {"charged", "rejected"}
               PROVE  charged'[<<"summary", worker'[w].gid>>] # 0
    BY DEF FlushesCharged
  <2>1. Flushing(w) /\ ~Digest /\ worker[w].step \in {"charged", "rejected"} /\ worker[w] # Idle
    BY <1>1 DEF Flushing, Digest, ImmediateLimit
  <2>2. worker[w].gid \in Group
    BY <2>1, FlushTyped
  <2>3. QED
    BY <1>1, <1>3, <2>1, <2>2 DEF ChargesStand, FlushesCharged
<1>7. \A x \in Event : PushCharged(x)'
  <2> SUFFICES ASSUME NEW x \in Event PROVE PushCharged(x)'
    OBVIOUS
  <2>1. CASE x = e
    BY <1>3, <2>1
  <2>2. CASE x # e
    <3>1. PushCharged(x)
      BY DEF ChargesStand
    <3>2. charged'[<<"push", x>>] = charged[<<"push", x>>]
      BY <1>1, <1>3, <2>2
    <3>3. handler'[x] = handler[x] /\ disposition'[x] = disposition[x]
      BY <1>3, <2>2
    <3>4. QED
      BY <3>1, <3>2, <3>3 DEF PushCharged
  <2>3. QED
    BY <2>1, <2>2
<1>8. QED
  BY <1>4, <1>5, <1>6, <1>7 DEF ChargesStand

LEMMA WorkerCharges ==
  ASSUME TenureInvariant, SubmitInvariant, ChargesAgree, ChargesStand, UNCHANGED setting,
         NEW w \in Worker, AfterClaim(w), NEW g, g = worker[w].gid
  PROVE  ChargesStand'
<1> DEFINE m == <<"summary", g>>
<1>1. TypeOK
  BY DEF TenureInvariant
<1>2. FlushEffect(w) /\ SendEffect(w) /\ worker[w] # Idle /\ g \in Group
  BY <1>1, FlushEffects, SendEffects, FlushTyped DEF FlushEffect
<1>3. /\ now' = now /\ UNCHANGED <<handler, disposition>>
      /\ \A v \in Worker \ {w} : worker'[v] = worker[v]
      /\ worker'[w] # Idle => worker'[w].gid = g
      /\ now \in Nat \ {0} /\ charged \in [Emission -> Nat] /\ emitted \in [Emission -> Nat]
      /\ worker \in [Worker -> FlushState]
  <2>1. now \in Nat \ {0}
    BY <1>1 DEF TypeOK
  <2>2. QED
    BY <1>1, <1>2, <2>1 DEF FlushEffect, ingestion, TypeOK
<1>4. m \in Emission /\ \A x \in Event : <<"push", x>> \in Emission \ {m}
  BY <1>2, EmissionsTyped
<1>5. \A s : At(w, s) => Flushing(w) /\ worker[w].step = s
  BY DEF At, InTime
<1>6. ~Digest /\ Flushing(w) /\ worker[w].step \in {"charged", "rejected"} => charged[m] # 0
  BY <1>2 DEF ChargesStand, FlushesCharged
<1>7. \A s : worker' = [worker EXCEPT ![w].step = s] => worker'[w].step = s
  BY <1>1, <1>2, <1>3, FlushTyped
<1>8. \A x \in Group : interrupts'[x] = 0 => interrupts[x] = 0
  <2>1. interrupts \in [Group -> Nat]
    BY <1>1 DEF TypeOK
  <2>2. \A x \in Group : interrupts'[x] \in {interrupts[x], interrupts[x] + 1}
    BY <1>2 DEF SendEffect, Interrupted
  <2>3. QED
    BY <2>1, <2>2
<1>9. /\ Appended(w) => submitted'[g] # <<>>
      /\ \A x \in Group : submitted[x] # <<>> => submitted'[x] # <<>>
  <2>1. Appended(w) => submitted'[g] # <<>>
    <3> SUFFICES ASSUME Appended(w) PROVE submitted'[g] # <<>>
      OBVIOUS
    <3> DEFINE s == submitted[g]
               a == worker[w].actions
    <3>1. s \in Seq(SUBSET Action) /\ a \in SUBSET Action /\ submitted'[g] = Append(s, a)
      BY <1>1, <1>2, FlushTyped DEF Appended, TypeOK
    <3> HIDE DEF s, a
    <3>2. Append(s, a) # <<>>
      BY <3>1, AppendProperties
    <3>3. QED
      BY <3>1, <3>2
  <2>2. \A x \in Group \ {g} : submitted'[x] = submitted[x]
    BY <1>2 DEF SendEffect
  <2>3. submitted'[g] = submitted[g] \/ Appended(w)
    BY <1>2 DEF SendEffect
  <2>4. QED
    BY <2>1, <2>2, <2>3
\* Only the charge of this group's summary changes, and only by a flush that follows an
\* interruption if the group was submitted.
<1>10. /\ charged' = charged \/ (Spend(w) \/ Refund(w))
       /\ \A x \in Emission \ {m} : charged'[x] = charged[x]
       /\ emissions' = emissions \/ (UNCHANGED charged /\ emissions' = emissions \cup {Emitted(m)} /\ Appended(w))
  <2>1. CASE Spend(w) \/ Refund(w)
    <3>1. UNCHANGED emissions
      BY <2>1 DEF Spend, Refund, sends
    <3>2. charged' = charged \/ \E n \in {0, now} : charged' = [charged EXCEPT ![m] = n]
      BY <2>1 DEF Spend, Refund, Charge, GiveBack, ration
    <3>3. \A x \in Emission \ {m} : charged'[x] = charged[x]
      BY <1>3, <3>2
    <3>4. QED
      BY <2>1, <3>1, <3>3
  <2>2. CASE Submit(w)
    <3>1. UNCHANGED charged /\ emissions' \in {emissions, emissions \cup {Emitted(m)}}
      BY <2>2 DEF Submit, ration
    <3>2. worker' = [worker EXCEPT ![w].step = "sent"] /\ CanSubmit(w) /\ Submitted(w)
      BY <2>2 DEF Submit
    <3>3. submitted'[g] = Append(submitted[g], worker[w].actions)
      BY <1>1, <1>2, <3>2 DEF Submitted, TypeOK
    <3>4. Appended(w)
      BY <1>5, <1>7, <3>2, <3>3 DEF CanSubmit, Appended, BeforeSubmission
    <3>5. QED
      BY <3>1, <3>4
  <2>3. CASE ~Spend(w) /\ ~Refund(w) /\ ~Submit(w)
    <3>1. UNCHANGED <<charged, emissions>>
      BY <2>3 DEF AfterClaim, FlushStep, Load, Drop, Suppress, Defer, SubmitInVain, Complete,
        TimeOut, PutBack, Crash, Fail, LoseReply, ration, sends
    <3>2. QED
      BY <3>1
  <2>4. QED
    BY <2>1, <2>2, <2>3
<1>11. charged' # charged => \A x \in emissions : x.emission = m => ~Rationed(x)
  <2> SUFFICES ASSUME Spend(w) \/ Refund(w), NEW x \in emissions, x.emission = m, Rationed(x)
               PROVE  FALSE
    BY <1>10
  <2>1. Flushing(w) /\ ~Sent(w)
    BY <1>5 DEF Spend, Refund, Sent
  <2>2. Explained(g)
    BY <2>1 DEF SubmitInvariant
  <2>3. interrupts[g] = 0 /\ submitted[g] # <<>>
    BY DEF Rationed, ChargesStand, EmissionsSubmitted
  <2>4. submitted[g] \in Seq(SUBSET Action)
    BY <1>1, <1>2 DEF TypeOK
  <2>5. Len(submitted[g]) \in Nat /\ Len(submitted[g]) # 0
    BY <2>3, <2>4, LenProperties
  <2>6. QED
    BY <2>2, <2>3, <2>5 DEF Explained
<1>12. EmissionsCharged'
  <2>1. EmissionsCharged
    BY DEF ChargesStand
  <2>2. charged'[m] # charged[m] => \A x \in emissions : x.emission = m => ~Rationed(x)
    BY <1>11
  <2> HIDE DEF m
  <2>3. QED
    BY <1>1, <1>3, <1>4, <1>8, <1>10, <2>1, <2>2, EmissionsStand
<1>13. EmissionsSubmitted'
  <2>1. ASSUME NEW x \in emissions, x.emission[1] = "summary" PROVE submitted'[x.emission[2]] # <<>>
    <3>1. submitted[x.emission[2]] # <<>>
      BY <2>1 DEF ChargesStand, EmissionsSubmitted
    <3>2. x.emission[2] \in Group
      <4>1. \A e \in Event : <<"push", e>>[1] = "push"
        OBVIOUS
      <4>2. PICK n \in Group : x.emission = <<"summary", n>>
        BY <1>1, <2>1, <4>1, EmissionNames
      <4>3. QED
        BY <4>2
    <3>3. QED
      BY <1>9, <3>1, <3>2
  <2>2. Emitted(m).emission = m /\ m[1] = "summary" /\ m[2] = g
    BY DEF Emitted
  <2>3. QED
    BY <1>9, <1>10, <2>1, <2>2 DEF EmissionsSubmitted
<1>14. FlushesCharged'
  <2> SUFFICES ASSUME NEW v \in Worker, Flushing(v)', ~Digest', worker'[v].step \in {"charged", "rejected"}
               PROVE  charged'[<<"summary", worker'[v].gid>>] # 0
    BY DEF FlushesCharged
  <2>1. ~Digest
    BY DEF Digest, ImmediateLimit
  <2>2. CASE v # w
    <3> DEFINE h == worker[v].gid
    <3>1. worker'[v] = worker[v] /\ Flushing(v) /\ worker[v] # Idle
      BY <1>3, <2>2 DEF Flushing
    <3>2. charged[<<"summary", h>>] # 0
      BY <2>1, <3>1 DEF ChargesStand, FlushesCharged
    <3>3. h \in Group
      BY <1>1, <3>1, FlushTyped
    <3>4. CASE h = g
      <4>1. ~Flushing(w)
        BY <2>2, <3>1, <3>4 DEF TenureInvariant, OneFlushEach
      <4>2. charged' = charged
        BY <1>5, <1>10, <4>1 DEF Spend, Refund
      <4>3. QED
        BY <3>1, <3>2, <4>2
    <3>5. CASE h # g
      <4>1. <<"summary", h>> \in Emission \ {m}
        BY <3>3, <3>5, EmissionsTyped
      <4>2. QED
        BY <1>10, <3>1, <3>2, <4>1
    <3>6. QED
      BY <3>4, <3>5
  <2>3. CASE v = w
    <3>1. worker'[w] # Idle /\ worker'[w].gid = g /\ worker'[w].step \in {"charged", "rejected"}
      BY <1>3, <2>3 DEF Flushing
    <3>2. charged'[m] # 0
      <4>1. CASE Spend(w)
        <5>1. worker'[w] # Idle
          BY <3>1
        <5>2. (Reserved(m) /\ UNCHANGED charged) \/ Charge(m)
          BY <1>3, <4>1, <5>1 DEF Spend, Rest
        <5>3. CASE Reserved(m) /\ UNCHANGED charged
          BY <1>3, <1>4, <5>3 DEF Reserved, InWindow, Unindexed, ChargesAgree
        <5>4. CASE Charge(m)
          <6>1. charged' = [charged EXCEPT ![m] = now]
            BY <5>4 DEF Charge
          <6>2. QED
            BY <1>3, <1>4, <6>1
        <5>5. QED
          BY <5>2, <5>3, <5>4
      <4>2. CASE Refund(w)
        BY <1>7, <3>1, <4>2 DEF Refund
      <4>3. CASE SubmitInVain(w)
        BY <1>5, <1>6, <2>1, <4>3 DEF SubmitInVain, CanSubmit, ration
      <4>4. CASE Load(w)
        <5>1. worker'[w].step = "loaded"
          BY <1>1, <1>3, <4>4, FlushTyped DEF Load, At, InTime, Flushing
        <5>2. QED
          BY <3>1, <5>1
      <4>5. CASE Submit(w) \/ Fail(w) \/ LoseReply(w)
        BY <1>7, <3>1, <4>5 DEF Submit, Fail, LoseReply
      <4>6. CASE Drop(w) \/ Suppress(w) \/ Defer(w) \/ Complete(w) \/ TimeOut(w) \/ PutBack(w) \/ Crash(w)
        <5>1. Rest(w)
          BY <4>6 DEF Drop, Suppress, Defer, Complete, TimeOut, PutBack, Crash
        <5>2. QED
          BY <1>3, <3>1, <5>1 DEF Rest
      <4>7. QED
        BY <4>1, <4>2, <4>3, <4>4, <4>5, <4>6 DEF AfterClaim, FlushStep
    <3>3. QED
      BY <2>3, <3>1, <3>2
  <2>4. QED
    BY <2>2, <2>3
<1>15. \A x \in Event : PushCharged(x)'
  BY <1>3, <1>4, <1>10 DEF ChargesStand, PushCharged
<1>16. QED
  BY <1>12, <1>13, <1>14, <1>15 DEF ChargesStand

LEMMA QuietCharges ==
  ASSUME ChargesStand, UNCHANGED <<charged, emissions, submitted, interrupts, worker, handler, setting>>,
         now' = now \/ (now \in Nat /\ now' = now + 1),
         \A e \in Event : disposition'[e] \in {disposition[e], NoDisposition}, TypeOK
  PROVE  ChargesStand'
<1>1. EmissionsCharged'
  <2>1. \A x \in emissions : x.charged \in Nat
    BY EmissionNames
  <2>2. \A x : Rationed(x)' <=> Rationed(x)
    BY DEF Rationed
  <2>3. QED
    BY <2>1, <2>2 DEF TypeOK, ChargesStand, EmissionsCharged
<1>2. EmissionsSubmitted' /\ FlushesCharged'
  BY DEF ChargesStand, EmissionsSubmitted, FlushesCharged, Flushing, Digest, ImmediateLimit
<1>3. \A e \in Event : PushCharged(e)'
  BY DEF ChargesStand, PushCharged, NoDisposition
<1>4. QED
  BY <1>1, <1>2, <1>3 DEF ChargesStand

LEMMA PollCharges ==
  ASSUME TypeOK, ChargesStand, UNCHANGED setting, NEW w \in Worker, Claim(w) \/ PollEmpty(w)
  PROVE  ChargesStand'
<1>1. UNCHANGED <<now, charged, emissions, submitted, interrupts, handler, disposition>>
  BY DEF Claim, PollEmpty, ingestion, ration, sends
<1>2. \A v \in Worker : worker'[v] = worker[v] \/ worker'[v].step = "claimed"
  <2>1. worker \in [Worker -> FlushState]
    BY DEF TypeOK
  <2>2. UNCHANGED worker \/ \E r : r.step = "claimed" /\ worker' = [worker EXCEPT ![w] = r]
    <3>1. CASE Claim(w)
      <4>1. PICK g : worker' = [worker EXCEPT ![w] =
                        [step |-> "claimed", gid |-> g, claimedAt |-> now,
                         actions |-> {}, generation |-> 0, expires |-> 0]]
        BY <3>1 DEF Claim
      <4>2. QED
        BY <4>1
    <3>2. CASE PollEmpty(w)
      BY <3>2 DEF PollEmpty
    <3>3. QED
      BY <3>1, <3>2
  <2>3. QED
    BY <2>1, <2>2
<1>3. EmissionsCharged' /\ EmissionsSubmitted'
  BY <1>1 DEF ChargesStand, EmissionsCharged, EmissionsSubmitted, Rationed
<1>4. FlushesCharged'
  BY <1>1, <1>2 DEF ChargesStand, FlushesCharged, Flushing, Digest, ImmediateLimit
<1>5. \A e \in Event : PushCharged(e)'
  BY <1>1 DEF ChargesStand, PushCharged
<1>6. QED
  BY <1>3, <1>4, <1>5 DEF ChargesStand

ChargeInvariant ==
  TenureInvariant /\ SubmitInvariant /\ DispositionInvariant /\ RationInvariant /\ ChargesStand

LEMMA RationKeptByAll == TypeOK /\ TypeOK' /\ RationInvariant /\ UNCHANGED <<now, setting>> /\ RationEffect
                         => RationInvariant'
BY KeptRation, ChargedRation, GivenBackRation DEF RationEffect

LEMMA ChargesKept == ChargeInvariant /\ [Next]_vars => RationInvariant' /\ ChargesStand'
<1> SUFFICES ASSUME ChargeInvariant, [Next]_vars PROVE RationInvariant' /\ ChargesStand'
  OBVIOUS
<1>1. /\ TypeOK /\ TypeOK' /\ UNCHANGED setting
      /\ TenureInvariant /\ SubmitInvariant /\ DispositionInvariant /\ RationInvariant /\ ChargesStand
      /\ ChargesAgree
  BY TypesKept DEF ChargeInvariant, TenureInvariant, RationInvariant, Next, vars
<1>2. ASSUME UNCHANGED <<now, ration>> PROVE RationInvariant'
  <2>1. RationKept
    BY <1>1, <1>2, TokensAfter DEF RationKept, ration
  <2>2. QED
    BY <1>1, <1>2, <2>1, KeptRation
<1>3. CASE UNCHANGED vars \/ Visit
  <2>1. /\ UNCHANGED <<now, ration>>
        /\ UNCHANGED <<charged, emissions, submitted, interrupts, worker, handler, disposition>>
    BY <1>3 DEF vars, coalesceVars, Visit, ration, ingestion, sends
  <2>2. QED
    BY <1>1, <1>2, <2>1, QuietCharges
<1>4. ASSUME NEW e \in Event, EventStep(e) PROVE RationInvariant' /\ ChargesStand'
  <2>1. RationEffect /\ now' = now
    BY <1>1, <1>4, EventRations, EventEffects
  <2>2. QED
    BY <1>1, <1>4, <2>1, RationKeptByAll, EventCharges
<1>5. ASSUME NEW w \in Worker, AfterClaim(w) PROVE RationInvariant' /\ ChargesStand'
  <2>1. RationEffect /\ now' = now
    BY <1>1, <1>5, WorkerRations DEF AfterClaim, WorkerStep
  <2>2. QED
    BY <1>1, <1>5, <2>1, RationKeptByAll, WorkerCharges
<1>6. ASSUME NEW w \in Worker, Claim(w) \/ PollEmpty(w) PROVE RationInvariant' /\ ChargesStand'
  <2>1. UNCHANGED <<now, ration>>
    BY <1>6 DEF Claim, PollEmpty
  <2>2. QED
    BY <1>1, <1>2, <1>6, <2>1, PollCharges
<1>7. CASE Tick
  <2>1. /\ UNCHANGED <<charged, emissions, submitted, interrupts, worker, handler>>
        /\ now' = now + 1 /\ now \in Nat
        /\ \A e \in Event : disposition'[e] \in {disposition[e], NoDisposition}
    BY <1>1, <1>7 DEF Tick, ration, sends, TypeOK
  <2>2. QED
    BY <1>1, <1>7, <2>1, TickRation, QuietCharges
<1>8. QED
  BY <1>1, <1>3, <1>4, <1>5, <1>6, <1>7 DEF Next, WorkerStep, AfterClaim

LEMMA ChargesAtFirst == Init => RationInvariant /\ ChargesStand
<1> SUFFICES ASSUME Init PROVE RationInvariant /\ ChargesStand
  OBVIOUS
<1>1. /\ TypeOK /\ now = 1 /\ setting \in Setting
      /\ charged = [m \in Emission |-> 0] /\ emitted = [m \in Emission |-> 0]
      /\ refunds = {} /\ emissions = {}
      /\ worker = [w \in Worker |-> Idle]
  BY TypesAtFirst DEF Init, Unindexed
<1>2. /\ \A from, to : Standing(from, to) = {} /\ LateRefunds(from, to) = {}
      /\ Charges = {} /\ IsFiniteSet({}) /\ Cardinality({}) = 0
  BY <1>1, FS_EmptySet DEF Standing, LateRefunds, Charges
<1>3. DailyCap \in Nat /\ Refill \in Nat /\ Tokens \in 0..Full /\ Full \in Nat
  BY <1>1, SettingTyped, Lifetimes, TokensTyped
<1>4. \A from \in Int : Granted(from, 1) = Full + (1 - from)
  BY <1>2, <1>3 DEF Granted
<1>5. ChargesAgree
  BY <1>1, <1>2 DEF ChargesAgree
<1>6. WindowsKept
  BY <1>2, <1>3 DEF WindowsKept, Recent
<1>7. BucketKept
  <2>1. ASSUME NEW from \in 1..1
        PROVE  /\ Cardinality(Standing(from, 1)) * Refill <= Granted(from, 1)
               /\ Cardinality(Standing(from, 1)) * Refill + Tokens <= Granted(from, 1)
    <3>1. Granted(from, 1) = Full /\ Cardinality(Standing(from, 1)) = 0
      <4>1. from = 1 /\ from \in Int
        OBVIOUS
      <4>2. Granted(from, 1) = Full + (1 - from)
        BY <1>4, <4>1
      <4>3. Cardinality(Standing(from, 1)) = 0
        BY <1>2
      <4>4. QED
        BY <1>3, <4>1, <4>2, <4>3
    <3>2. 0 * Refill = 0
      BY <1>3
    <3>3. QED
      BY <1>3, <3>1, <3>2
  <2>2. QED
    BY <1>1, <2>1 DEF BucketKept
<1>8. ChargesStand
  BY <1>1 DEF Init, NoDisposition, ChargesStand, EmissionsCharged, EmissionsSubmitted, FlushesCharged, Flushing,
    PushCharged
<1>9. QED
  BY <1>5, <1>6, <1>7, <1>8 DEF RationInvariant

\* An emission that counts has a charge of its own that stands.
LEMMA EmittedWithin ==
  ASSUME TypeOK, ChargesAgree, ChargesStand, NEW from \in Nat \ {0}, NEW to \in Nat
  PROVE  /\ IsFiniteSet(EmittedIn(from, to))
         /\ Cardinality(EmittedIn(from, to)) <= Cardinality(Standing(from, to))
<1> DEFINE E == EmittedIn(from, to)
           S == Standing(from, to)
           f == [x \in E |-> x.emission]
<1>1. ASSUME NEW x \in E
      PROVE  /\ x.emission \in S /\ x.charged = charged[x.emission]
             /\ x = [emission |-> x.emission, charged |-> charged[x.emission]]
  <2>1. x \in emissions /\ Rationed(x) /\ x.charged \in from..to
    BY DEF EmittedIn
  <2>2. charged[x.emission] = x.charged
    BY <2>1 DEF ChargesStand, EmissionsCharged
  <2>3. QED
    BY <2>1, <2>2, EmissionNames DEF Standing
<1>2. f \in Injection(E, S)
  <2>1. f \in [E -> S]
    BY <1>1
  <2>2. \A x, y \in E : f[x] = f[y] => x = y
    <3> SUFFICES ASSUME NEW x \in E, NEW y \in E, f[x] = f[y] PROVE x = y
      OBVIOUS
    <3>1. x.emission = y.emission
      OBVIOUS
    <3> HIDE DEF E, f
    <3>2. QED
      BY <1>1, <3>1
  <2> HIDE DEF E, S, f
  <2>3. QED
    BY <2>1, <2>2 DEF Injection, IsInjective
<1>3. IsFiniteSet(S)
  BY SpanCounted
<1> HIDE DEF E, S, f
<1>4. IsFiniteSet(E) /\ Cardinality(E) <= Cardinality(S)
  BY <1>2, <1>3, FS_Injection
<1>5. QED
  BY <1>4 DEF E, S

LEMMA ChargesRation == TypeOK /\ RationInvariant /\ ChargesStand => EmissionsRationed
<1> SUFFICES ASSUME TypeOK, RationInvariant, ChargesStand,
                    NEW x \in emissions, NEW from \in 1..x.charged
             PROVE  LET between == Cardinality(EmittedIn(from, x.charged))
                        late == Cardinality(LateRefunds(from, x.charged))
                    IN /\ x.charged - from < DailyWindow => between <= DailyCap
                       /\ between * Refill <= Full + (x.charged - from) + late * Refill
  BY DEF EmissionsRationed
<1> DEFINE to == x.charged
           between == Cardinality(EmittedIn(from, to))
           spent == Cardinality(Standing(from, to))
<1>1. /\ ChargesAgree /\ Refill \in Nat /\ DailyWindow \in Nat \ {0} /\ now \in Nat
      /\ DailyCap \in Nat
  BY Lifetimes, SettingTyped DEF RationInvariant, TypeOK
<1>2. to \in 1..now /\ from \in Nat \ {0} /\ to \in Nat
  <2>1. to \in Nat /\ to <= now
    BY EmissionNames DEF ChargesStand, EmissionsCharged
  <2>2. QED
    BY <1>1, <2>1
<1>3. between <= spent /\ between \in Nat /\ spent \in Nat
  <2>1. spent \in Nat
    BY <1>1, SpanCounted
  <2>2. IsFiniteSet(EmittedIn(from, to)) /\ between <= spent
    BY <1>1, <1>2, EmittedWithin
  <2>3. between \in Nat
    BY <2>2, FS_CardinalityType
  <2>4. QED
    BY <2>1, <2>2, <2>3
<1>4. to - from < DailyWindow => between <= DailyCap
  <2> SUFFICES ASSUME to - from < DailyWindow PROVE between <= DailyCap
    OBVIOUS
  <2>1. Standing(from, to) \subseteq Recent(to)
    BY <1>1, <1>2 DEF Recent, Standing
  <2>2. IsFiniteSet(Recent(to)) /\ Cardinality(Recent(to)) \in Nat
    BY <1>1, SpanCounted DEF Recent
  <2>3. spent <= Cardinality(Recent(to))
    BY <2>1, <2>2, FS_Subset
  <2>4. Cardinality(Recent(to)) <= DailyCap
    BY <1>2 DEF RationInvariant, WindowsKept
  <2>5. QED
    BY <1>1, <1>3, <2>2, <2>3, <2>4
<1>5. between * Refill <= Granted(from, to)
  <2>1. spent * Refill <= Granted(from, to)
    BY <1>2 DEF RationInvariant, BucketKept
  <2>2. Granted(from, to) \in Int
    <3>1. Cardinality(LateRefunds(from, to)) \in Nat
      BY <1>1, SpanCounted
    <3>2. QED
      BY <1>1, <1>2, <3>1, Lifetimes, Times DEF Granted
  <2> HIDE DEF between, spent
  <2>3. between * Refill <= spent * Refill /\ between * Refill \in Nat /\ spent * Refill \in Nat
    BY <1>1, <1>3, Times
  <2>4. QED
    BY <2>1, <2>2, <2>3
<1>6. QED
  BY <1>4, <1>5 DEF Granted

\* A recipient gets no more pushes and summaries than its ration, whatever fails and is
\* retried: no more than the cap in any rolling window, and in any time no more than a full
\* bucket, what that time refills, and what is given back in it of charges from before it
\* (coalesce.rs, consume_recipient_token and refund_recipient_token).
THEOREM EmissionsAreRationed == Spec => []EmissionsRationed
<1>1. Init => ChargeInvariant
  BY TenureAtFirst, SubmitsAtFirst, DispositionAtFirst, ChargesAtFirst DEF ChargeInvariant
<1>2. ChargeInvariant /\ [Next]_vars => ChargeInvariant'
  BY TenureKept, SubmitsKept, DispositionsKept, ChargesKept DEF ChargeInvariant, TenureInvariant
<1>3. ChargeInvariant => EmissionsRationed
  BY ChargesRation DEF ChargeInvariant, TenureInvariant
<1>4. QED
  BY <1>1, <1>2, <1>3, PTL DEF Spec
=============================================================================
