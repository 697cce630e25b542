------------------------ MODULE TokenRegistry_proofs ------------------------
(***************************************************************************)
(* Theorems about TokenRegistry for any number of accounts, tokens,        *)
(* workers and sweepers, any inactivity window and any lag of the clocks   *)
(* that is shorter than it.                                                *)
(***************************************************************************)
EXTENDS TokenRegistry, TLAPS

-----------------------------------------------------------------------------
(* The invariant.  That the indexes agree is inductive only together with  *)
(* what a sweep may rely on: nothing it has not found is older than its    *)
(* cutoff, and what it has found and nobody touched still has the owner    *)
(* that it read.                                                           *)

ClockCoversLag == now >= Skew + 1

\* The stamp of a tracked token lags its activity by at most Skew.
StampsFollowActivity ==
  \A t \in Token : lastSeen[t] # Untracked => activity[t] <= lastSeen[t] + Skew

SweepsAreOld ==
  \A s \in Sweeper : sweep[s] # Idle =>
    /\ sweep[s].cutoff <= now - MaxAge
    /\ \A t \in Token \ sweep[s].found :
         lastSeen[t] # Untracked => lastSeen[t] > sweep[s].cutoff

OwnersStillHold ==
  \A s \in Sweeper : Sweeping(s, "read") =>
    \A t \in sweep[s].found \ overtaken :
      lastSeen[t] # Untracked /\ lastSeen[t] <= sweep[s].cutoff
        => owner[t] = sweep[s].owners[t]

RegistryInvariant ==
  /\ TypeOK
  /\ ClockCoversLag
  /\ OwnedIsComplete
  /\ AgreeUnlessOvertaken
  /\ StampsFollowActivity
  /\ SweepsAreOld
  /\ OwnersStillHold

USE DEF Nobody, Untracked

LEMMA RegistryInit == Init => RegistryInvariant
<1> SUFFICES ASSUME Init PROVE RegistryInvariant
  OBVIOUS
<1>1. TypeOK /\ ClockCoversLag
  BY RegistryAssumption DEF Init, TypeOK, ClockCoversLag, Owner, Operation, SweepState
<1>2. OwnedIsComplete /\ AgreeUnlessOvertaken /\ StampsFollowActivity
  BY RegistryAssumption DEF Init, OwnedIsComplete, AgreeUnlessOvertaken, StampsFollowActivity
<1>3. SweepsAreOld /\ OwnersStillHold
  BY DEF Init, SweepsAreOld, OwnersStillHold, Sweeping, Idle
<1>4. QED
  BY <1>1, <1>2, <1>3 DEF RegistryInvariant

-----------------------------------------------------------------------------
(* Steps that move only a worker, or only a sweep.                         *)

registry == <<now, userTokens, owner, lastSeen, zoned, activity, overtaken>>

LEMMA OnlyWorkerMoves ==
  ASSUME RegistryInvariant, UNCHANGED <<registry, sweep>>,
         worker' \in [Worker -> Operation]
  PROVE  RegistryInvariant'
  BY DEF RegistryInvariant, registry, TypeOK, ClockCoversLag, OwnedIsComplete,
         AgreeUnlessOvertaken, StampsFollowActivity, SweepsAreOld, OwnersStillHold, Sweeping

LEMMA OnlySweepMoves ==
  ASSUME RegistryInvariant, UNCHANGED <<registry, worker>>,
         sweep' \in [Sweeper -> SweepState], SweepsAreOld', OwnersStillHold'
  PROVE  RegistryInvariant'
  BY DEF RegistryInvariant, registry, TypeOK, ClockCoversLag, OwnedIsComplete,
         AgreeUnlessOvertaken, StampsFollowActivity

\* What the operation of a worker says.
LEMMA OperationTypes ==
  ASSUME TypeOK, NEW w \in Worker
  PROVE  /\ worker[w] # Idle => worker[w].account \in Account /\ worker[w].token \in Token
         /\ Doing(w, "register") => worker[w] # Idle /\ worker[w].owner \in Owner
         /\ \A step \in {"remove", "push", "delivered", "rejected"} :
              Doing(w, step) => worker[w] # Idle
  BY DEF TypeOK, Operation, Doing, Idle

LEMMA SweepTypes ==
  ASSUME TypeOK, NEW s \in Sweeper, sweep[s] # Idle
  PROVE  /\ sweep[s] \in [step : {"scanned", "read"}, cutoff : Int, found : SUBSET Token,
                          owners : [Token -> Owner]]
         /\ sweep[s].cutoff \in Int
         /\ sweep[s].found \in SUBSET Token
         /\ sweep[s].owners \in [Token -> Owner]
  BY DEF TypeOK, SweepState

LEMMA WorkerBegins ==
  ASSUME RegistryInvariant, NEW w \in Worker, NEW a \in Account, NEW t \in Token,
         BeginRegister(w, a, t) \/ BeginRemove(w, a, t) \/ ReadDevice(w, a, t)
  PROVE  RegistryInvariant'
<1>1. TypeOK
  BY DEF RegistryInvariant
<1>2. \E op \in Operation : worker' = [worker EXCEPT ![w] = op]
  BY <1>1 DEF BeginRegister, BeginRemove, ReadDevice, TypeOK, Operation
<1>3. worker' \in [Worker -> Operation]
  BY <1>1, <1>2 DEF TypeOK
<1>4. UNCHANGED <<registry, sweep>>
  BY DEF BeginRegister, BeginRemove, ReadDevice, registry
<1>5. QED
  BY <1>3, <1>4, OnlyWorkerMoves

LEMMA WorkerAnswers ==
  ASSUME RegistryInvariant, NEW w \in Worker, Deliver(w) \/ Reject(w) \/ Abandon(w)
  PROVE  RegistryInvariant'
<1>1. TypeOK
  BY DEF RegistryInvariant
<1>2. worker[w] \in Operation /\ Idle \in Operation
  BY <1>1 DEF TypeOK, Operation
<1>3. Doing(w, "push") => worker[w] \in [step : {"remove", "push", "delivered", "rejected"},
                                         account : Account, token : Token]
  BY <1>2 DEF Operation, Doing, Idle
<1>4. \E op \in Operation : worker' = [worker EXCEPT ![w] = op]
  <2>1. CASE Deliver(w)
    <3>1. [worker[w] EXCEPT !.step = "delivered"] \in Operation
      BY <2>1, <1>3 DEF Deliver, Operation
    <3>2. QED
      BY <2>1, <3>1 DEF Deliver
  <2>2. CASE Reject(w)
    <3>1. [worker[w] EXCEPT !.step = "rejected"] \in Operation
      BY <2>2, <1>3 DEF Reject, Operation
    <3>2. QED
      BY <2>2, <3>1 DEF Reject
  <2>3. CASE Abandon(w)
    BY <2>3, <1>2 DEF Abandon
  <2>4. QED
    BY <2>1, <2>2, <2>3
<1>5. worker' \in [Worker -> Operation]
  BY <1>1, <1>4 DEF TypeOK
<1>6. UNCHANGED <<registry, sweep>>
  BY DEF Deliver, Reject, Abandon, registry
<1>7. QED
  BY <1>5, <1>6, OnlyWorkerMoves

-----------------------------------------------------------------------------
(* The transactions.                                                       *)

LEMMA RegisterKeeps ==
  ASSUME RegistryInvariant, NEW w \in Worker, Register(w)
  PROVE  RegistryInvariant'
<1> USE RegistryAssumption
<1>1. TypeOK
  BY DEF RegistryInvariant
<1>2. PICK a \in Account, t \in Token, from \in Owner :
        a = worker[w].account /\ t = worker[w].token /\ from = worker[w].owner
  BY <1>1, OperationTypes DEF Register
<1>3. PICK stamp \in Clock : lastSeen' = [lastSeen EXCEPT ![t] = stamp]
  BY <1>2 DEF Register
<1>4. /\ userTokens' = Moved(t, from, a)
      /\ owner' = [owner EXCEPT ![t] = a]
      /\ zoned' \in {zoned \cup {t}, zoned \ {t}}
      /\ activity' = [activity EXCEPT ![t] = now]
      /\ overtaken' = IF owner[t] \in {Nobody, from, a} THEN overtaken
                      ELSE overtaken \cup {t}
      /\ worker' = [worker EXCEPT ![w] = Idle]
      /\ now' = now /\ sweep' = sweep
  BY <1>2 DEF Register
<1>5. stamp \in Nat \ {0} /\ stamp >= now - Skew /\ now \in Nat
  BY <1>1, <1>3 DEF Clock, RegistryInvariant, ClockCoversLag, TypeOK
<1>6. TypeOK'
  BY <1>1, <1>3, <1>4, <1>5 DEF TypeOK, Moved, Owner, Operation
<1>7. ClockCoversLag'
  BY <1>4 DEF RegistryInvariant, ClockCoversLag
<1>8. OwnedIsComplete'
  BY <1>1, <1>3, <1>4, <1>5 DEF RegistryInvariant, OwnedIsComplete, TypeOK, Moved, Owner
<1>9. AgreeUnlessOvertaken'
  <2> SUFFICES ASSUME NEW u \in Token, u \notin overtaken'
               PROVE  /\ \A b \in Account : u \in userTokens'[b] <=> owner'[u] = b
                      /\ lastSeen'[u] # Untracked <=> owner'[u] # Nobody
                      /\ u \in zoned' => owner'[u] # Nobody
    BY DEF AgreeUnlessOvertaken
  <2>1. u \notin overtaken
    BY <1>4
  <2>2. /\ \A b \in Account : u \in userTokens[b] <=> owner[u] = b
        /\ lastSeen[u] # Untracked <=> owner[u] # Nobody
        /\ u \in zoned => owner[u] # Nobody
    BY <2>1 DEF RegistryInvariant, AgreeUnlessOvertaken
  <2>3. CASE u = t
    <3>1. owner[t] \in {Nobody, from, a}
      BY <1>4, <2>3
    <3>2. owner'[t] = a /\ lastSeen'[t] = stamp /\ a # Nobody
      BY <1>1, <1>3, <1>4 DEF TypeOK
    <3>3. \A b \in Account : t \in userTokens'[b] <=> b = a
      BY <1>4, <2>2, <2>3, <3>1 DEF Moved
    <3>4. QED
      BY <2>3, <3>2, <3>3, <1>5
  <2>4. CASE u # t
    <3>1. /\ owner'[u] = owner[u] /\ lastSeen'[u] = lastSeen[u]
          /\ u \in zoned' <=> u \in zoned
          /\ \A b \in Account : u \in userTokens'[b] <=> u \in userTokens[b]
      BY <1>1, <1>3, <1>4, <2>4 DEF TypeOK, Moved
    <3>2. QED
      BY <3>1, <2>2
  <2>5. QED
    BY <2>3, <2>4
<1>10. StampsFollowActivity'
  BY <1>1, <1>3, <1>4, <1>5 DEF RegistryInvariant, StampsFollowActivity, TypeOK
<1>11. \A s \in Sweeper : sweep[s] # Idle => stamp > sweep[s].cutoff
  <2> SUFFICES ASSUME NEW s \in Sweeper, sweep[s] # Idle PROVE stamp > sweep[s].cutoff
    OBVIOUS
  <2>1. sweep[s].cutoff \in Int /\ sweep[s].cutoff <= now - MaxAge
    BY <1>1, SweepTypes DEF RegistryInvariant, SweepsAreOld
  <2>2. QED
    BY <2>1, <1>5
<1>12. SweepsAreOld'
  BY <1>1, <1>3, <1>4, <1>11 DEF RegistryInvariant, SweepsAreOld, TypeOK
<1>13. OwnersStillHold'
  <2> SUFFICES ASSUME NEW s \in Sweeper, Sweeping(s, "read"),
                      NEW u \in sweep[s].found, u \notin overtaken',
                      lastSeen'[u] # Untracked, lastSeen'[u] <= sweep[s].cutoff
               PROVE  owner'[u] = sweep[s].owners[u]
    BY <1>4 DEF OwnersStillHold, Sweeping
  <2>1. sweep[s] # Idle
    BY DEF Sweeping, Idle
  <2>2. u \in Token /\ sweep[s].cutoff \in Int
    BY <1>1, <2>1, SweepTypes
  <2>3. u # t
    BY <1>1, <1>3, <1>5, <1>11, <2>1, <2>2 DEF TypeOK
  <2>4. lastSeen'[u] = lastSeen[u] /\ owner'[u] = owner[u] /\ u \notin overtaken
    BY <1>1, <1>3, <1>4, <2>2, <2>3 DEF TypeOK
  <2>5. QED
    BY <2>2, <2>4 DEF RegistryInvariant, OwnersStillHold
<1>14. QED
  BY <1>6, <1>7, <1>8, <1>9, <1>10, <1>12, <1>13 DEF RegistryInvariant

LEMMA RemoveKeeps ==
  ASSUME RegistryInvariant, NEW w \in Worker, Remove(w)
  PROVE  RegistryInvariant'
<1> USE RegistryAssumption
<1>1. TypeOK
  BY DEF RegistryInvariant
<1>2. PICK a \in Account, t \in Token : a = worker[w].account /\ t = worker[w].token
  BY <1>1, OperationTypes DEF Remove
<1>3. /\ userTokens' = [userTokens EXCEPT ![a] = @ \ {t}]
      /\ owner' = [owner EXCEPT ![t] = Nobody]
      /\ lastSeen' = [lastSeen EXCEPT ![t] = Untracked]
      /\ zoned' = zoned \ {t}
      /\ overtaken' = IF owner[t] \in {Nobody, a} THEN overtaken ELSE overtaken \cup {t}
      /\ worker' = [worker EXCEPT ![w] = Idle]
      /\ now' = now /\ sweep' = sweep /\ activity' = activity
  BY <1>2 DEF Remove
<1>4. TypeOK'
  BY <1>1, <1>3 DEF TypeOK, Owner, Operation
<1>5. ClockCoversLag'
  BY <1>3 DEF RegistryInvariant, ClockCoversLag
<1>6. \A u \in Token : u # t => /\ owner'[u] = owner[u] /\ lastSeen'[u] = lastSeen[u]
                                /\ u \in zoned' <=> u \in zoned
                                /\ \A b \in Account : u \in userTokens'[b] <=> u \in userTokens[b]
  BY <1>1, <1>3 DEF TypeOK
<1>7. owner'[t] = Nobody /\ lastSeen'[t] = Untracked /\ t \notin zoned'
  BY <1>1, <1>3 DEF TypeOK
<1>8. OwnedIsComplete'
  BY <1>1, <1>6, <1>7 DEF RegistryInvariant, OwnedIsComplete, TypeOK, Owner
<1>9. AgreeUnlessOvertaken'
  <2> SUFFICES ASSUME NEW u \in Token, u \notin overtaken'
               PROVE  /\ \A b \in Account : u \in userTokens'[b] <=> owner'[u] = b
                      /\ lastSeen'[u] # Untracked <=> owner'[u] # Nobody
                      /\ u \in zoned' => owner'[u] # Nobody
    BY DEF AgreeUnlessOvertaken
  <2>1. u \notin overtaken
    BY <1>3
  <2>2. /\ \A b \in Account : u \in userTokens[b] <=> owner[u] = b
        /\ lastSeen[u] # Untracked <=> owner[u] # Nobody
        /\ u \in zoned => owner[u] # Nobody
    BY <2>1 DEF RegistryInvariant, AgreeUnlessOvertaken
  <2>3. CASE u = t
    <3>1. owner[t] \in {Nobody, a}
      BY <1>3, <2>3
    <3>2. \A b \in Account : t \notin userTokens'[b]
      BY <1>1, <1>3, <2>2, <2>3, <3>1 DEF TypeOK
    <3>3. QED
      BY <2>3, <3>2, <1>7
  <2>4. CASE u # t
    BY <2>2, <2>4, <1>6
  <2>5. QED
    BY <2>3, <2>4
<1>10. StampsFollowActivity'
  BY <1>3, <1>6, <1>7 DEF RegistryInvariant, StampsFollowActivity
<1>11. SweepsAreOld'
  BY <1>3, <1>6, <1>7 DEF RegistryInvariant, SweepsAreOld
<1>12. OwnersStillHold'
  <2> SUFFICES ASSUME NEW s \in Sweeper, Sweeping(s, "read"),
                      NEW u \in sweep[s].found, u \notin overtaken',
                      lastSeen'[u] # Untracked, lastSeen'[u] <= sweep[s].cutoff
               PROVE  owner'[u] = sweep[s].owners[u]
    BY <1>3 DEF OwnersStillHold, Sweeping
  <2>1. sweep[s] # Idle
    BY DEF Sweeping, Idle
  <2>2. u \in Token /\ u # t /\ u \notin overtaken
    BY <1>1, <1>3, <1>7, <2>1, SweepTypes
  <2>3. QED
    BY <2>2, <1>6 DEF RegistryInvariant, OwnersStillHold
<1>13. QED
  BY <1>4, <1>5, <1>8, <1>9, <1>10, <1>11, <1>12 DEF RegistryInvariant

LEMMA RefreshKeeps ==
  ASSUME RegistryInvariant, NEW w \in Worker, Refresh(w)
  PROVE  RegistryInvariant'
<1> USE RegistryAssumption
<1>1. TypeOK
  BY DEF RegistryInvariant
<1>2. PICK t \in Token : t = worker[w].token
  BY <1>1, OperationTypes DEF Refresh
<1>3. PICK stamp \in Clock : lastSeen' = [lastSeen EXCEPT ![t] = Refreshed(t, stamp)]
  BY <1>2 DEF Refresh
<1>4. /\ activity' = [activity EXCEPT ![t] = now]
      /\ worker' = [worker EXCEPT ![w] = Idle]
      /\ UNCHANGED <<now, userTokens, owner, zoned, sweep, overtaken>>
  BY <1>2 DEF Refresh
<1>5. stamp \in Nat \ {0} /\ stamp >= now - Skew /\ now \in Nat
  BY <1>1, <1>3 DEF Clock, RegistryInvariant, ClockCoversLag, TypeOK
<1>6. /\ \A u \in Token : u # t => lastSeen'[u] = lastSeen[u]
      /\ lastSeen[t] = Untracked => lastSeen'[t] = Untracked
      /\ lastSeen[t] # Untracked => lastSeen'[t] >= stamp /\ lastSeen'[t] >= lastSeen[t]
      /\ lastSeen[t] \in Nat /\ lastSeen'[t] \in Nat
  BY <1>1, <1>3, <1>5 DEF TypeOK, Refreshed
<1>7. TypeOK'
  BY <1>1, <1>3, <1>4, <1>5 DEF TypeOK, Refreshed, Operation
<1>8. ClockCoversLag'
  BY <1>4 DEF RegistryInvariant, ClockCoversLag
<1>9. \A u \in Token : lastSeen'[u] # Untracked <=> lastSeen[u] # Untracked
  BY <1>5, <1>6
<1>10. OwnedIsComplete' /\ AgreeUnlessOvertaken'
  BY <1>4, <1>9 DEF RegistryInvariant, OwnedIsComplete, AgreeUnlessOvertaken
<1>11. StampsFollowActivity'
  <2> SUFFICES ASSUME NEW u \in Token, lastSeen'[u] # Untracked
               PROVE  activity'[u] <= lastSeen'[u] + Skew
    BY DEF StampsFollowActivity
  <2>1. CASE u = t
    BY <1>1, <1>4, <1>5, <1>6, <2>1 DEF TypeOK
  <2>2. CASE u # t
    BY <1>1, <1>4, <1>6, <2>2 DEF RegistryInvariant, StampsFollowActivity, TypeOK
  <2>3. QED
    BY <2>1, <2>2
<1>12. SweepsAreOld'
  <2> SUFFICES ASSUME NEW s \in Sweeper, sweep[s] # Idle
               PROVE  /\ sweep[s].cutoff <= now - MaxAge
                      /\ \A u \in Token \ sweep[s].found :
                           lastSeen'[u] # Untracked => lastSeen'[u] > sweep[s].cutoff
    BY <1>4 DEF SweepsAreOld
  <2>1. sweep[s].cutoff \in Int
    BY <1>1, SweepTypes
  <2>2. QED
    BY <2>1, <1>6 DEF RegistryInvariant, SweepsAreOld
<1>13. OwnersStillHold'
  <2> SUFFICES ASSUME NEW s \in Sweeper, Sweeping(s, "read"),
                      NEW u \in sweep[s].found, u \notin overtaken,
                      lastSeen'[u] # Untracked, lastSeen'[u] <= sweep[s].cutoff
               PROVE  owner[u] = sweep[s].owners[u]
    BY <1>4 DEF OwnersStillHold, Sweeping
  <2>1. sweep[s] # Idle
    BY DEF Sweeping, Idle
  <2>2. u \in Token /\ sweep[s].cutoff \in Int
    BY <1>1, <2>1, SweepTypes
  <2>3. lastSeen[u] # Untracked /\ lastSeen[u] <= sweep[s].cutoff
    BY <1>6, <1>9, <2>2
  <2>4. QED
    BY <2>2, <2>3 DEF RegistryInvariant, OwnersStillHold
<1>14. QED
  BY <1>7, <1>8, <1>10, <1>11, <1>12, <1>13 DEF RegistryInvariant

-----------------------------------------------------------------------------
(* The sweep.                                                              *)

LEMMA ScanKeeps ==
  ASSUME RegistryInvariant, NEW s \in Sweeper, Scan(s)
  PROVE  RegistryInvariant'
<1> USE RegistryAssumption
<1>1. TypeOK
  BY DEF RegistryInvariant
<1>2. PICK clock \in Clock :
        sweep' = [sweep EXCEPT ![s] =
                    [step |-> "scanned", cutoff |-> clock - MaxAge,
                     found |-> Stale(clock - MaxAge), owners |-> [t \in Token |-> Nobody]]]
  BY DEF Scan
<1>3. clock \in Int /\ clock <= now /\ now \in Nat
  BY <1>1, <1>2 DEF Clock, TypeOK
<1>4. UNCHANGED <<registry, worker>>
  BY DEF Scan, registry
<1>5. \A x \in Sweeper : x # s => sweep'[x] = sweep[x]
  BY <1>1, <1>2 DEF TypeOK
<1>6. sweep'[s] = [step |-> "scanned", cutoff |-> clock - MaxAge,
                   found |-> Stale(clock - MaxAge), owners |-> [t \in Token |-> Nobody]]
  BY <1>1, <1>2 DEF TypeOK
<1>7. sweep'[s] \in SweepState
  BY <1>3, <1>6 DEF SweepState, Stale, Owner
<1>8. sweep' \in [Sweeper -> SweepState]
  BY <1>1, <1>2, <1>6, <1>7 DEF TypeOK
<1>9. \A t \in Token \ Stale(clock - MaxAge) :
        lastSeen[t] # Untracked => lastSeen[t] > clock - MaxAge
  BY <1>1, <1>3 DEF Stale, TypeOK
<1>10. SweepsAreOld'
  BY <1>3, <1>4, <1>5, <1>6, <1>9 DEF RegistryInvariant, SweepsAreOld, registry
<1>11. OwnersStillHold'
  BY <1>4, <1>5, <1>6 DEF RegistryInvariant, OwnersStillHold, Sweeping, registry
<1>12. QED
  BY <1>4, <1>8, <1>10, <1>11, OnlySweepMoves

LEMMA ReadOwnersKeeps ==
  ASSUME RegistryInvariant, NEW s \in Sweeper, ReadOwners(s)
  PROVE  RegistryInvariant'
<1>1. TypeOK
  BY DEF RegistryInvariant
<1>2. sweep[s] # Idle
  BY DEF ReadOwners, Sweeping, Idle
<1>3. PICK owners \in [Token -> Owner] :
        /\ sweep' = [sweep EXCEPT ![s].step = "read", ![s].owners = owners]
        /\ \A t \in sweep[s].found : owners[t] = owner[t]
  <2> DEFINE o == [t \in Token |-> IF t \in sweep[s].found THEN owner[t] ELSE Nobody]
  <2>1. o \in [Token -> Owner]
    BY <1>1 DEF TypeOK, Owner
  <2>2. \A t \in sweep[s].found : o[t] = owner[t]
    BY <1>1, <1>2, SweepTypes
  <2>3. sweep' = [sweep EXCEPT ![s].step = "read", ![s].owners = o]
    BY DEF ReadOwners
  <2>4. QED
    BY <2>1, <2>2, <2>3
<1>4. UNCHANGED <<registry, worker>>
  BY DEF ReadOwners, registry
<1>5. \A x \in Sweeper : x # s => sweep'[x] = sweep[x]
  BY <1>1, <1>3 DEF TypeOK
<1>6. sweep'[s] = [[sweep[s] EXCEPT !.step = "read"] EXCEPT !.owners = owners]
  BY <1>1, <1>3 DEF TypeOK
<1>7. /\ sweep'[s] \in SweepState
      /\ sweep'[s].cutoff = sweep[s].cutoff
      /\ sweep'[s].found = sweep[s].found
      /\ sweep'[s].owners = owners
  BY <1>1, <1>2, <1>6, SweepTypes DEF SweepState
<1>8. sweep' \in [Sweeper -> SweepState]
  BY <1>1, <1>3, <1>5, <1>7 DEF TypeOK
<1>9. SweepsAreOld'
  BY <1>2, <1>4, <1>5, <1>7 DEF RegistryInvariant, SweepsAreOld, registry
<1>10. OwnersStillHold'
  <2>1. ASSUME NEW x \in Sweeper, sweep'[x].step = "read",
               NEW t \in sweep'[x].found, t \notin overtaken,
               lastSeen[t] # Untracked, lastSeen[t] <= sweep'[x].cutoff
        PROVE  owner[t] = sweep'[x].owners[t]
    <3>1. CASE x = s
      BY <2>1, <3>1, <1>3, <1>7
    <3>2. CASE x # s
      BY <2>1, <3>2, <1>5 DEF RegistryInvariant, OwnersStillHold, Sweeping
    <3>3. QED
      BY <3>1, <3>2
  <2>2. QED
    BY <2>1, <1>4 DEF OwnersStillHold, Sweeping, registry
<1>11. QED
  BY <1>4, <1>8, <1>9, <1>10, OnlySweepMoves

LEMMA AbandonSweepKeeps ==
  ASSUME RegistryInvariant, NEW s \in Sweeper, AbandonSweep(s)
  PROVE  RegistryInvariant'
<1>1. TypeOK
  BY DEF RegistryInvariant
<1>2. UNCHANGED <<registry, worker>>
  BY DEF AbandonSweep, registry
<1>3. /\ sweep' \in [Sweeper -> SweepState]
      /\ sweep'[s] = Idle /\ \A x \in Sweeper : x # s => sweep'[x] = sweep[x]
  BY <1>1 DEF AbandonSweep, TypeOK, SweepState
<1>4. SweepsAreOld'
  BY <1>2, <1>3 DEF RegistryInvariant, SweepsAreOld, registry
<1>5. OwnersStillHold'
  BY <1>2, <1>3 DEF RegistryInvariant, OwnersStillHold, Sweeping, registry, Idle
<1>6. QED
  BY <1>2, <1>3, <1>4, <1>5, OnlySweepMoves

\* What a sweep finds is old, and has no owner but the one that the sweep read.
LEMMA SweepEffect ==
  ASSUME RegistryInvariant, NEW s \in Sweeper, Sweep(s)
  PROVE  /\ sweep[s] # Idle /\ sweep[s].cutoff \in Int /\ sweep[s].cutoff <= now - MaxAge
         /\ \A t \in Token : lastSeen'[t] = IF lastSeen[t] <= sweep[s].cutoff THEN Untracked
                                            ELSE lastSeen[t]
         /\ \A t \in Token : owner'[t] = IF t \in sweep[s].found THEN Nobody ELSE owner[t]
         /\ \A t \in Token, a \in Account :
              t \in userTokens'[a] <=>
                t \in userTokens[a] /\ ~(t \in sweep[s].found /\ sweep[s].owners[t] = a)
         /\ \A t \in Token : t \notin sweep[s].found /\ lastSeen[t] <= sweep[s].cutoff
                               => lastSeen[t] = Untracked
         /\ \A t \in Token \ overtaken' :
              t \in sweep[s].found =>
                /\ t \notin overtaken
                /\ lastSeen[t] <= sweep[s].cutoff
                /\ lastSeen[t] # Untracked => owner[t] = sweep[s].owners[t]
<1>1. TypeOK
  BY DEF RegistryInvariant
<1>2. sweep[s] # Idle /\ Sweeping(s, "read")
  BY DEF Sweep, Sweeping, Idle
<1>3. /\ sweep[s].cutoff \in Int
      /\ sweep[s].found \in SUBSET Token
      /\ sweep[s].owners \in [Token -> Owner]
  BY <1>1, <1>2, SweepTypes
<1>4. /\ sweep[s].cutoff <= now - MaxAge
      /\ \A t \in Token \ sweep[s].found :
           lastSeen[t] # Untracked => lastSeen[t] > sweep[s].cutoff
  BY <1>2 DEF RegistryInvariant, SweepsAreOld
<1>5. \A t \in sweep[s].found \ overtaken :
        lastSeen[t] # Untracked /\ lastSeen[t] <= sweep[s].cutoff
          => owner[t] = sweep[s].owners[t]
  BY <1>2 DEF RegistryInvariant, OwnersStillHold
<1>6. /\ \A t \in Token : lastSeen'[t] = IF lastSeen[t] <= sweep[s].cutoff THEN Untracked
                                         ELSE lastSeen[t]
      /\ \A t \in Token : owner'[t] = IF t \in sweep[s].found THEN Nobody ELSE owner[t]
  BY DEF Sweep
<1>7. \A t \in Token, a \in Account :
        t \in userTokens'[a] <=>
          t \in userTokens[a] /\ ~(t \in sweep[s].found /\ sweep[s].owners[t] = a)
  BY DEF Sweep
<1>8. \A t \in Token : t \notin sweep[s].found /\ lastSeen[t] <= sweep[s].cutoff
                         => lastSeen[t] = Untracked
  BY <1>1, <1>3, <1>4 DEF TypeOK
<1>9. overtaken' = overtaken \cup {t \in sweep[s].found : lastSeen[t] > sweep[s].cutoff}
  BY DEF Sweep
<1>10. \A t \in Token \ overtaken' :
         t \in sweep[s].found =>
           /\ t \notin overtaken
           /\ lastSeen[t] <= sweep[s].cutoff
           /\ lastSeen[t] # Untracked => owner[t] = sweep[s].owners[t]
  BY <1>1, <1>3, <1>5, <1>9 DEF TypeOK
<1>11. QED
  BY <1>2, <1>3, <1>4, <1>6, <1>7, <1>8, <1>10

LEMMA SweepKeeps ==
  ASSUME RegistryInvariant, NEW s \in Sweeper, Sweep(s)
  PROVE  RegistryInvariant'
<1> USE RegistryAssumption
<1>1. TypeOK
  BY DEF RegistryInvariant
<1>2. /\ UNCHANGED <<now, worker, activity>>
      /\ zoned' = zoned \ sweep[s].found
      /\ overtaken' = overtaken \cup {t \in sweep[s].found : lastSeen[t] > sweep[s].cutoff}
      /\ sweep' = [sweep EXCEPT ![s] = Idle]
  BY DEF Sweep
<1>3. sweep'[s] = Idle /\ \A x \in Sweeper : x # s => sweep'[x] = sweep[x]
  BY <1>1, <1>2 DEF TypeOK
<1>4. sweep[s].cutoff \in Int /\ sweep[s].found \in SUBSET Token
  BY <1>1, SweepTypes, SweepEffect
<1>5. TypeOK'
  <2>1. lastSeen' \in [Token -> Nat] /\ owner' \in [Token -> Owner]
        /\ userTokens' \in [Account -> SUBSET Token]
    BY <1>1 DEF Sweep, TypeOK, Owner
  <2>2. sweep' \in [Sweeper -> SweepState]
    BY <1>1, <1>2 DEF TypeOK, SweepState
  <2>3. QED
    BY <1>1, <1>2, <1>4, <2>1, <2>2 DEF TypeOK
<1>6. ClockCoversLag'
  BY <1>2 DEF RegistryInvariant, ClockCoversLag
<1>7. OwnedIsComplete'
  <2> SUFFICES ASSUME NEW t \in Token, owner'[t] # Nobody
               PROVE  t \in userTokens'[owner'[t]] /\ lastSeen'[t] # Untracked
    BY DEF OwnedIsComplete
  <2>1. t \notin sweep[s].found /\ owner'[t] = owner[t] /\ owner[t] \in Account
    BY <1>1, SweepEffect DEF TypeOK, Owner
  <2>2. t \in userTokens[owner[t]] /\ lastSeen[t] # Untracked
    BY <2>1 DEF RegistryInvariant, OwnedIsComplete
  <2>3. t \in userTokens'[owner[t]]
    BY <2>1, <2>2, SweepEffect
  <2>4. ~(lastSeen[t] <= sweep[s].cutoff)
    BY <2>1, <2>2, SweepEffect
  <2>5. QED
    BY <2>1, <2>2, <2>3, <2>4, SweepEffect
<1>8. AgreeUnlessOvertaken'
  <2> SUFFICES ASSUME NEW u \in Token, u \notin overtaken'
               PROVE  /\ \A b \in Account : u \in userTokens'[b] <=> owner'[u] = b
                      /\ lastSeen'[u] # Untracked <=> owner'[u] # Nobody
                      /\ u \in zoned' => owner'[u] # Nobody
    BY DEF AgreeUnlessOvertaken
  <2>1. /\ \A b \in Account : u \in userTokens[b] <=> owner[u] = b
        /\ lastSeen[u] # Untracked <=> owner[u] # Nobody
        /\ u \in zoned => owner[u] # Nobody
    BY <1>2 DEF RegistryInvariant, AgreeUnlessOvertaken
  <2>2. CASE u \in sweep[s].found
    <3>1. lastSeen[u] <= sweep[s].cutoff
          /\ (lastSeen[u] # Untracked => owner[u] = sweep[s].owners[u])
      BY <2>2, SweepEffect
    <3>2. owner'[u] = Nobody /\ lastSeen'[u] = Untracked /\ u \notin zoned'
      BY <1>2, <2>2, <3>1, SweepEffect
    <3>3. \A b \in Account : u \notin userTokens'[b]
      BY <2>1, <2>2, <3>1, SweepEffect
    <3>4. QED
      BY <3>2, <3>3
  <2>3. CASE u \notin sweep[s].found
    <3>1. owner'[u] = owner[u] /\ (u \in zoned' <=> u \in zoned)
          /\ \A b \in Account : u \in userTokens'[b] <=> u \in userTokens[b]
      BY <1>2, <2>3, SweepEffect
    <3>2. lastSeen'[u] = lastSeen[u]
      BY <2>3, SweepEffect
    <3>3. QED
      BY <2>1, <3>1, <3>2
  <2>4. QED
    BY <2>2, <2>3
<1>9. \A t \in Token : lastSeen'[t] \in {Untracked, lastSeen[t]}
  BY SweepEffect
<1>10. StampsFollowActivity'
  BY <1>2, <1>9 DEF RegistryInvariant, StampsFollowActivity
<1>11. SweepsAreOld'
  BY <1>2, <1>3, <1>9 DEF RegistryInvariant, SweepsAreOld
<1>12. OwnersStillHold'
  <2> SUFFICES ASSUME NEW x \in Sweeper, sweep'[x].step = "read",
                      NEW t \in sweep'[x].found, t \notin overtaken',
                      lastSeen'[t] # Untracked, lastSeen'[t] <= sweep'[x].cutoff
               PROVE  owner'[t] = sweep'[x].owners[t]
    BY DEF OwnersStillHold, Sweeping
  <2>1. x # s /\ sweep'[x] = sweep[x] /\ sweep[x] # Idle
    BY <1>3 DEF Idle
  <2>2. t \in Token /\ t \notin overtaken
    BY <1>1, <1>2, <2>1, SweepTypes
  <2>3. lastSeen'[t] = lastSeen[t] /\ ~(lastSeen[t] <= sweep[s].cutoff)
    BY <2>2, SweepEffect
  <2>4. t \notin sweep[s].found
    BY <2>2, <2>3, SweepEffect
  <2>5. owner'[t] = owner[t]
    BY <2>2, <2>4, SweepEffect
  <2>6. QED
    BY <2>1, <2>2, <2>3, <2>5 DEF RegistryInvariant, OwnersStillHold, Sweeping
<1>13. QED
  BY <1>5, <1>6, <1>7, <1>8, <1>10, <1>11, <1>12 DEF RegistryInvariant

LEMMA TickKeeps ==
  ASSUME RegistryInvariant, Tick
  PROVE  RegistryInvariant'
<1> USE RegistryAssumption
<1>1. TypeOK
  BY DEF RegistryInvariant
<1>2. /\ now \in Nat /\ now' = now + 1
      /\ UNCHANGED <<userTokens, owner, lastSeen, zoned, worker, sweep, activity, overtaken>>
  BY <1>1 DEF Tick, TypeOK
<1>3. TypeOK' /\ ClockCoversLag'
  BY <1>1, <1>2 DEF RegistryInvariant, ClockCoversLag, TypeOK
<1>4. OwnedIsComplete' /\ AgreeUnlessOvertaken' /\ StampsFollowActivity'
  BY <1>2 DEF RegistryInvariant, OwnedIsComplete, AgreeUnlessOvertaken, StampsFollowActivity
<1>5. SweepsAreOld'
  <2> SUFFICES ASSUME NEW s \in Sweeper, sweep[s] # Idle
               PROVE  sweep[s].cutoff <= now' - MaxAge
    BY <1>2 DEF RegistryInvariant, SweepsAreOld
  <2>1. sweep[s].cutoff \in Int /\ sweep[s].cutoff <= now - MaxAge
    BY <1>1, SweepTypes DEF RegistryInvariant, SweepsAreOld
  <2>2. QED
    BY <1>2, <2>1
<1>6. OwnersStillHold'
  BY <1>2 DEF RegistryInvariant, OwnersStillHold, Sweeping
<1>7. QED
  BY <1>3, <1>4, <1>5, <1>6 DEF RegistryInvariant

LEMMA StutterKeeps ==
  ASSUME RegistryInvariant, UNCHANGED registryVars
  PROVE  RegistryInvariant'
<1>1. UNCHANGED <<registry, sweep>> /\ worker' = worker
  BY DEF registryVars, registry
<1>2. QED
  BY <1>1, OnlyWorkerMoves DEF RegistryInvariant, TypeOK

LEMMA RegistryStep == RegistryInvariant /\ [Next]_registryVars => RegistryInvariant'
<1> SUFFICES ASSUME RegistryInvariant, [Next]_registryVars PROVE RegistryInvariant'
  OBVIOUS
<1>1. CASE \E w \in Worker : WorkerStep(w)
  <2>1. PICK w \in Worker : WorkerStep(w)
    BY <1>1
  <2>2. CASE \E a \in Account, t \in Token : \/ BeginRegister(w, a, t)
                                             \/ BeginRemove(w, a, t)
                                             \/ ReadDevice(w, a, t)
    BY <2>2, WorkerBegins
  <2>3. CASE Register(w)
    BY <2>3, RegisterKeeps
  <2>4. CASE Remove(w)
    BY <2>4, RemoveKeeps
  <2>5. CASE Deliver(w) \/ Reject(w) \/ Abandon(w)
    BY <2>5, WorkerAnswers
  <2>6. CASE Refresh(w)
    BY <2>6, RefreshKeeps
  <2>7. QED
    BY <2>1, <2>2, <2>3, <2>4, <2>5, <2>6 DEF WorkerStep
<1>2. CASE \E s \in Sweeper : SweepStep(s) \/ AbandonSweep(s)
  BY <1>2, ScanKeeps, ReadOwnersKeeps, SweepKeeps, AbandonSweepKeeps DEF SweepStep
<1>3. CASE Tick
  BY <1>3, TickKeeps
<1>4. CASE UNCHANGED registryVars
  BY <1>4, StutterKeeps
<1>5. QED
  BY <1>1, <1>2, <1>3, <1>4 DEF Next

LEMMA RegistryIsKept == Spec => []RegistryInvariant
  BY RegistryInit, RegistryStep, PTL DEF Spec

-----------------------------------------------------------------------------
(* The theorems.                                                           *)

\* Every owned token is in its owner's set and tracked, whatever registrations,
\* removals, deliveries and sweeps overtake one another.
THEOREM OwnedTokensAreComplete == Spec => []OwnedIsComplete
<1>1. RegistryInvariant => OwnedIsComplete
  BY DEF RegistryInvariant
<1>2. QED
  BY <1>1, RegistryIsKept, PTL

\* The indexes agree on every token that no outdated read was used for.
THEOREM IndexesAgree == Spec => []AgreeUnlessOvertaken
<1>1. RegistryInvariant => AgreeUnlessOvertaken
  BY DEF RegistryInvariant
<1>2. QED
  BY <1>1, RegistryIsKept, PTL

\* Both together.
THEOREM RegistryIsConsistent == Spec => []RegistryConsistent
<1>1. RegistryInvariant => RegistryConsistent
  BY DEF RegistryInvariant, RegistryConsistent
<1>2. QED
  BY <1>1, RegistryIsKept, PTL

\* No registration is removed without a request, a refusal or inactivity, but for
\* the transactions that use an outdated read.
RemovalStep ==
  \A t \in Token : Unregisters(t) => Requested(t) \/ Inactive(t) \/ t \in overtaken'

LEMMA RemovalHasReason == RegistryInvariant /\ [Next]_registryVars => RemovalStep
<1> SUFFICES ASSUME RegistryInvariant, [Next]_registryVars,
                    NEW t \in Token, owner[t] # Nobody, owner'[t] = Nobody
             PROVE  Requested(t) \/ Inactive(t) \/ t \in overtaken'
  BY DEF RemovalStep, Unregisters
<1> USE RegistryAssumption
<1>1. TypeOK
  BY DEF RegistryInvariant
<1>2. CASE \E w \in Worker : Remove(w)
  <2>1. PICK w \in Worker : Remove(w)
    BY <1>2
  <2>2. Doing(w, "remove") /\ t = worker[w].token
        /\ (worker[w].account = owner[t] \/ t \in overtaken')
    BY <1>1, <2>1 DEF Remove, TypeOK
  <2>3. QED
    BY <2>2 DEF Requested
<1>3. CASE \E s \in Sweeper : Sweep(s)
  <2>1. PICK s \in Sweeper : Sweep(s)
    BY <1>3
  <2>2. sweep[s].cutoff \in Int /\ sweep[s].cutoff <= now - MaxAge /\ t \in sweep[s].found
    BY <2>1, SweepEffect
  <2>3. CASE t \notin overtaken'
    <3>1. lastSeen[t] <= sweep[s].cutoff
      BY <2>1, <2>2, <2>3, SweepEffect
    <3>2. lastSeen[t] # Untracked /\ activity[t] <= lastSeen[t] + Skew
      BY DEF RegistryInvariant, OwnedIsComplete, StampsFollowActivity
    <3>3. lastSeen[t] \in Nat /\ activity[t] \in Nat /\ now \in Nat
      BY <1>1 DEF TypeOK
    <3>4. QED
      BY <2>2, <3>1, <3>2, <3>3 DEF Inactive
  <2>4. QED
    BY <2>3
<1>4. CASE \E w \in Worker : Register(w)
  <2>1. PICK w \in Worker : Register(w)
    BY <1>4
  <2>2. worker[w].account \in Account
    BY <1>1, <2>1, OperationTypes DEF Register
  <2>3. QED
    BY <1>1, <2>1, <2>2 DEF Register, TypeOK
<1>5. CASE UNCHANGED owner
  BY <1>5
<1>6. QED
  BY <1>2, <1>3, <1>4, <1>5 DEF Next, WorkerStep, SweepStep, BeginRegister, BeginRemove,
     ReadDevice, Deliver, Reject, Refresh, Abandon, Scan, ReadOwners, AbandonSweep, Tick,
     registryVars

THEOREM RemovalsHaveReasons == Spec => RemovedForAReasonUnlessOvertaken
<1>1. RegistryInvariant /\ [Next]_registryVars => [RemovalStep]_registryVars
  BY RemovalHasReason
<1>2. QED
  BY <1>1, RegistryIsKept, PTL DEF Spec, RemovedForAReasonUnlessOvertaken, RemovalStep
=============================================================================
