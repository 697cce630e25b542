---------------------- MODULE CampaignDelivery_proofs ----------------------
(***************************************************************************)
(* Theorems about CampaignDelivery for any rows and pollers, any lease     *)
(* longer than the reserve, any deduplication window, and any number of    *)
(* failures; and about PushProvider, through which a campaign's pushes     *)
(* go, for any devices, timeouts and delays that an answer may ask for,    *)
(* and of events with any number of tags.                                  *)
(***************************************************************************)
EXTENDS CampaignDelivery, PushProvider, FiniteSetTheorems, SequenceTheorems,
        WellFoundedInduction, TLAPS

-----------------------------------------------------------------------------
(* Type correctness                                                        *)

\* What each step of a poller knows, in a form for the cases below.
LEMMA PollerFields ==
  ASSUME TypeOK, NEW p \in Poller
  PROVE  /\ poller[p].step \in {"idle", "polling", "batch", "checking", "claimed",
                                "sending", "accepted", "releasing", "reporting"}
         /\ poller[p].step = "idle" <=> poller[p] = Idle
         /\ poller[p].step # "idle" => poller[p].left \in Remaining
         /\ poller[p].step \notin {"idle", "polling"} => poller[p].keys \in SUBSET Key
         /\ Delivering(p) => poller[p].ttl \in Remaining /\ poller[p].key \in Key
         /\ At(p, "releasing") => poller[p].result \in Result
         /\ At(p, "reporting") => /\ poller[p].key \in Key /\ poller[p].result \in Result
                                  /\ poller[p].wait \in 0..Reserve
  BY DEF TypeOK, PollerState, Idle, Delivering, At

LEMMA Numbers ==
  /\ Reserve \in Nat /\ Reserve >= 1 /\ Lease \in Nat /\ Lease > Reserve
  /\ Dedup \in Nat /\ MaxFaults \in Nat /\ Nobody \notin Poller
  /\ \A n : n \in Remaining <=> n \in Nat /\ n <= Lease
  BY CampaignAssumption DEF Nobody, Remaining

LEMMA InitType == Init => TypeOK
  BY Numbers DEF Init, TypeOK, PollerState, Idle, NoClaim

\* What a poller is doing after deliver has returned or given up its claim.
LEMMA ResultType ==
  ASSUME TypeOK, NEW p \in Poller, Delivering(p), NEW result \in Result
  PROVE  Reporting(p, result) \in PollerState /\ Releasing(p, result) \in PollerState
  BY PollerFields, Numbers DEF Reporting, Releasing, PollerState, Delivering

LEMMA GoToType ==
  ASSUME TypeOK, NEW p \in Poller, poller[p].step \in {"checking", "claimed", "sending"},
         NEW step \in {"claimed", "sending", "accepted"}
  PROVE  [poller EXCEPT ![p].step = step] \in [Poller -> PollerState]
<1> DEFINE s == [poller[p] EXCEPT !.step = step]
<1>1. poller[p] \in [step : {"checking", "claimed", "sending", "accepted"}, left : Remaining,
                     ttl : Remaining, keys : SUBSET Key, key : Key]
  BY DEF TypeOK, PollerState, Idle
<1>2. s \in [step : {"checking", "claimed", "sending", "accepted"}, left : Remaining,
             ttl : Remaining, keys : SUBSET Key, key : Key]
  BY <1>1
<1>3. s \in PollerState
  BY <1>2 DEF PollerState
<1>4. [poller EXCEPT ![p].step = step] = [poller EXCEPT ![p] = s]
  OBVIOUS
<1> HIDE DEF s
<1>5. QED
  BY <1>3, <1>4 DEF TypeOK

LEMMA LandType ==
  ASSUME TypeOK, NEW k \in Key, Land(k)
  PROVE  /\ sent' \in [Key -> 0..Dedup] /\ pushes' \in [Key -> 0..2]
         /\ pushed' \in SUBSET Key
  BY Numbers DEF TypeOK, Land

LEMMA CutOffType ==
  ASSUME TypeOK, NEW p \in Poller, CutOff(p)
  PROVE  /\ sent' \in [Key -> 0..Dedup] /\ pushes' \in [Key -> 0..2]
         /\ unrecorded' \in SUBSET Key /\ abandoned' \in SUBSET Key /\ pushed' \in SUBSET Key
<1>1. poller[p].step \in {"claimed", "sending", "releasing", "accepted"} => poller[p].key \in Key
  BY PollerFields DEF Delivering
<1>2. CASE At(p, "sending") /\ Land(poller[p].key) /\ UNCHANGED abandoned
           /\ unrecorded' = unrecorded \cup {poller[p].key}
  BY <1>1, <1>2, LandType DEF TypeOK, At
<1>3. CASE ~(At(p, "sending") /\ Land(poller[p].key) /\ UNCHANGED abandoned
             /\ unrecorded' = unrecorded \cup {poller[p].key})
  BY <1>1, <1>3 DEF CutOff, At, TypeOK, history
<1>4. QED
  BY <1>2, <1>3

\* The rows after an offer to poller p.
Leased(p) == [k \in Key |-> IF k \in Offered
                            THEN [state |-> "leased", lease |-> p, left |-> Lease]
                            ELSE row[k]]

LEMMA LeasedType ==
  ASSUME TypeOK, NEW p \in Poller
  PROVE  Leased(p) \in [Key -> [state : {"pending", "leased", "refused", "already", "delivered"},
                                lease : Poller \cup {Nobody}, left : Remaining]]
  BY Numbers DEF TypeOK, Leased

LEMMA FaultType ==
  ASSUME TypeOK, Fault
  PROVE  faults' \in 0..MaxFaults
  BY Numbers DEF TypeOK, Fault

LEMMA StepType ==
  ASSUME TypeOK, NEW p \in Poller, PollerStep(p)
  PROVE  TypeOK'
<1>1. CASE Poll(p)
  <2>1. [step |-> "polling", left |-> Lease] \in PollerState
    BY Numbers DEF PollerState
  <2>2. QED
    BY <1>1, <2>1 DEF Poll, TypeOK, history
<1>2. CASE Offer(p)
  <2>1. row' = Leased(p)
    BY <1>2 DEF Offer, Leased
  <2>2. [step |-> "batch", left |-> poller[p].left, keys |-> Offered] \in PollerState
    BY <1>2, PollerFields DEF Offer, PollerState, At, Offered
  <2>3. QED
    BY <1>2, <2>1, <2>2, LeasedType DEF Offer, TypeOK, history
<1>3. ASSUME NEW k \in Key, Begin(p, k)
      PROVE  TypeOK'
  <2>1. [step |-> "checking", left |-> poller[p].left, ttl |-> ClaimTTL(p),
         keys |-> poller[p].keys \ {k}, key |-> k] \in PollerState
    BY <1>3, PollerFields DEF Begin, PollerState, At, ClaimTTL
  <2>2. QED
    BY <1>3, <2>1 DEF Begin, TypeOK, history
<1>4. CASE EndBatch(p)
  BY <1>4 DEF EndBatch, TypeOK, PollerState, history
<1>5. CASE Deliver(p)
  <2>1. CASE RefuseUnclaimed(p) \/ RefuseClaimed(p)
    <3>1. PICK result \in {"refused", "deferred", "retryable"} :
            /\ FaultIfRepeats(result)
            /\ \/ poller' = [poller EXCEPT ![p] = Reporting(p, result)]
               \/ poller' = [poller EXCEPT ![p] = Releasing(p, result)]
      BY <2>1 DEF RefuseUnclaimed, RefuseClaimed
    <3>2. Reporting(p, result) \in PollerState /\ Releasing(p, result) \in PollerState
      BY <2>1, ResultType DEF RefuseUnclaimed, RefuseClaimed, At, Delivering, Result
    <3>3. poller' \in [Poller -> PollerState]
      BY <3>1, <3>2 DEF TypeOK
    <3>4. faults' \in 0..MaxFaults
      BY <3>1, FaultType DEF FaultIfRepeats, TypeOK
    <3>5. QED
      BY <2>1, <3>3, <3>4 DEF RefuseUnclaimed, RefuseClaimed, TypeOK, history
  <2>2. CASE Claim(p)
    <3>1. poller[p].key \in Key /\ poller[p].ttl \in Remaining
      BY <2>2, PollerFields DEF Claim, At, Delivering
    <3>2. CASE claim[poller[p].key] = NoClaim
      <4>1. poller' \in [Poller -> PollerState]
        BY <2>2, <3>2, GoToType DEF Claim, At, GoTo
      <4>2. claim' \in [Key -> [owner : Poller \cup {Nobody}, left : 0..(Lease + Dedup)]]
        BY <2>2, <3>1, <3>2, Numbers DEF Claim, TypeOK
      <4>3. QED
        BY <2>2, <4>1, <4>2 DEF Claim, TypeOK, history
    <3>3. CASE claim[poller[p].key] # NoClaim
      <4>1. Reporting(p, "already") \in PollerState
        BY <2>2, ResultType DEF Claim, At, Delivering, Result
      <4>2. QED
        BY <2>2, <3>3, <4>1 DEF Claim, TypeOK, history
    <3>4. QED
      BY <3>2, <3>3
  <2>3. CASE Send(p)
    <3>1. poller' \in [Poller -> PollerState]
      BY <2>3, GoToType DEF Send, At, GoTo
    <3>2. QED
      BY <2>3, <3>1 DEF Send, TypeOK, history
  <2>4. CASE Accept(p)
    <3>1. poller' \in [Poller -> PollerState]
      BY <2>4, GoToType DEF Accept, At, GoTo
    <3>2. poller[p].key \in Key
      BY <2>4, PollerFields DEF Accept, At, Delivering
    <3>3. QED
      BY <2>4, <3>1, <3>2, LandType DEF Accept, TypeOK
  <2>5. CASE Fail(p)
    <3>1. /\ Releasing(p, "refused") \in PollerState /\ Releasing(p, "retryable") \in PollerState
          /\ poller[p].key \in Key
      BY <2>5, ResultType, PollerFields DEF Fail, At, Delivering, Result
    <3>2. poller' \in [Poller -> PollerState]
      BY <2>5, <3>1 DEF Fail, TypeOK
    <3>3. faults' \in 0..MaxFaults
      BY <2>5, FaultType DEF Fail, TypeOK
    <3>4. CASE UNCHANGED history
      BY <2>5, <3>2, <3>3, <3>4 DEF Fail, TypeOK, history
    <3>5. CASE Land(poller[p].key) /\ UNCHANGED abandoned
               /\ unrecorded' = unrecorded \cup {poller[p].key}
      BY <2>5, <3>1, <3>2, <3>3, <3>5, LandType DEF Fail, TypeOK
    <3>6. QED
      BY <2>5, <3>4, <3>5 DEF Fail
  <2>6. CASE Promote(p)
    <3>1. /\ Reporting(p, "delivered") \in PollerState
          /\ poller[p].key \in Key /\ poller[p].ttl \in Remaining
      BY <2>6, ResultType, PollerFields DEF Promote, At, Delivering, Result
    <3>2. PromotedTTL(poller[p].ttl) \in 0..(Lease + Dedup)
      BY <3>1, Numbers DEF PromotedTTL
    <3>3. claim' \in [Key -> [owner : Poller \cup {Nobody}, left : 0..(Lease + Dedup)]]
      BY <2>6, <3>1, <3>2 DEF Promote, TypeOK
    <3>4. QED
      BY <2>6, <3>1, <3>3 DEF Promote, TypeOK
  <2>7. CASE Release(p)
    <3>1. poller[p].key \in Key /\ poller[p].result \in Result
      BY <2>7, PollerFields DEF Release, At, Delivering
    <3>2. Reporting(p, poller[p].result) \in PollerState
      BY <2>7, <3>1, ResultType DEF Release, At, Delivering
    <3>3. claim' \in [Key -> [owner : Poller \cup {Nobody}, left : 0..(Lease + Dedup)]]
      BY <2>7, <3>1, Numbers DEF Release, Released, NoClaim, TypeOK
    <3>4. QED
      BY <2>7, <3>2, <3>3 DEF Release, TypeOK, history
  <2>8. QED
    BY <1>5, <2>1, <2>2, <2>3, <2>4, <2>5, <2>6, <2>7 DEF Deliver
<1>6. CASE Report(p)
  <2>1. /\ poller[p].key \in Key /\ poller[p].result \in Result
        /\ [step |-> "batch", left |-> poller[p].left, keys |-> poller[p].keys] \in PollerState
    BY <1>6, PollerFields DEF Report, At, PollerState
  <2>2. [state |-> RowAfter(poller[p].result), lease |-> Nobody, left |-> 0]
          \in [state : {"pending", "leased", "refused", "already", "delivered"},
               lease : Poller \cup {Nobody}, left : Remaining]
    BY <2>1, Numbers DEF RowAfter, Repeats, Result
  <2>3. QED
    BY <1>6, <2>1, <2>2 DEF Report, TypeOK, history
<1>7. QED
  BY <1>1, <1>2, <1>3, <1>4, <1>5, <1>6 DEF PollerStep

LEMMA DisturbType ==
  ASSUME TypeOK, NEW p \in Poller, Disturb(p)
  PROVE  TypeOK'
<1>1. faults' \in 0..MaxFaults
  BY FaultType DEF Disturb, PollFails, ClaimUnanswered, PromoteFails, ReleaseFails, ReportLost,
     TimeOut, Crash
<1>2. CASE PollFails(p)
  <2>1. row' = row \/ row' = Leased(p)
    BY <1>2 DEF PollFails, Leased
  <2>2. QED
    BY <1>1, <1>2, <2>1, LeasedType DEF PollFails, TypeOK, PollerState, history
<1>3. CASE ClaimUnanswered(p)
  <2>1. /\ poller[p].key \in Key /\ poller[p].ttl \in Remaining
        /\ Reporting(p, "retryable") \in PollerState
    BY <1>3, PollerFields, ResultType DEF ClaimUnanswered, At, Delivering, Result
  <2>2. claim' \in [Key -> [owner : Poller \cup {Nobody}, left : 0..(Lease + Dedup)]]
    BY <1>3, <2>1, Numbers DEF ClaimUnanswered, TypeOK
  <2>3. QED
    BY <1>1, <1>3, <2>1, <2>2 DEF ClaimUnanswered, TypeOK
<1>4. CASE PromoteFails(p)
  <2>1. poller[p].key \in Key /\ Reporting(p, "delivered") \in PollerState
    BY <1>4, PollerFields, ResultType DEF PromoteFails, At, Delivering, Result
  <2>2. QED
    BY <1>1, <1>4, <2>1 DEF PromoteFails, TypeOK
<1>5. CASE ReleaseFails(p)
  <2>1. poller[p].key \in Key /\ Reporting(p, poller[p].result) \in PollerState
    BY <1>5, PollerFields, ResultType DEF ReleaseFails, At, Delivering
  <2>2. QED
    BY <1>1, <1>5, <2>1 DEF ReleaseFails, TypeOK
<1>6. CASE ReportLost(p)
  <2>1. [step |-> "batch", left |-> poller[p].left, keys |-> poller[p].keys] \in PollerState
    BY <1>6, PollerFields DEF ReportLost, At, PollerState
  <2>2. QED
    BY <1>1, <1>6, <2>1 DEF ReportLost, TypeOK, history
<1>7. CASE TimeOut(p) \/ Crash(p)
  <2>1. CutOff(p) /\ poller' = [poller EXCEPT ![p] = Idle] /\ UNCHANGED <<row, claim>>
    BY <1>7 DEF TimeOut, Crash
  <2>2. poller' \in [Poller -> PollerState]
    BY <2>1 DEF TypeOK, PollerState
  <2>3. QED
    BY <1>1, <2>1, <2>2, CutOffType DEF TypeOK
<1>8. QED
  BY <1>2, <1>3, <1>4, <1>5, <1>6, <1>7 DEF Disturb

\* What the clock does to one poller.
LEMMA TickPollerFields ==
  ASSUME TypeOK, NEW p \in Poller
  PROVE  /\ TickPoller(p) \in PollerState
         /\ TickPoller(p).step = poller[p].step
         /\ poller[p].step # "idle" => TickPoller(p).left = Shorter(poller[p].left)
         /\ poller[p].step \notin {"idle", "polling"} => TickPoller(p).keys = poller[p].keys
         /\ Delivering(p) => TickPoller(p).ttl = poller[p].ttl
         /\ Delivering(p) \/ At(p, "reporting") => TickPoller(p).key = poller[p].key
         /\ At(p, "reporting") => /\ TickPoller(p).wait = Shorter(poller[p].wait)
                                  /\ TickPoller(p).result = poller[p].result
<1>1. \A n \in Remaining : Shorter(n) \in Remaining
  BY Numbers DEF Shorter
<1>2. \A n \in 0..Reserve : Shorter(n) \in 0..Reserve
  BY Numbers DEF Shorter
<1>3. CASE At(p, "reporting")
  <2> DEFINE r == [poller[p] EXCEPT !.left = Shorter(poller[p].left)]
  <2>1. TickPoller(p) = [r EXCEPT !.wait = Shorter(poller[p].wait)]
    BY <1>3 DEF TickPoller, At, Idle
  <2>2. poller[p] \in [step : {"reporting"}, left : Remaining, keys : SUBSET Key, key : Key,
                       result : Result, wait : 0..Reserve]
    BY <1>3 DEF TypeOK, PollerState, Idle, At
  <2>3. /\ r \in [step : {"reporting"}, left : Remaining, keys : SUBSET Key, key : Key,
                  result : Result, wait : 0..Reserve]
        /\ r.left = Shorter(poller[p].left) /\ r.keys = poller[p].keys
        /\ r.key = poller[p].key /\ r.result = poller[p].result
    BY <1>1, <2>2
  <2> HIDE DEF r
  <2>4. TickPoller(p) \in [step : {"reporting"}, left : Remaining, keys : SUBSET Key, key : Key,
                           result : Result, wait : 0..Reserve]
    BY <1>2, <2>1, <2>2, <2>3
  <2>5. QED
    BY <1>3, <2>1, <2>2, <2>3, <2>4 DEF PollerState, At, Delivering
<1>4. CASE ~At(p, "reporting") /\ poller[p] # Idle
  <2> DEFINE n == Shorter(poller[p].left)
  <2>1. TickPoller(p) = [poller[p] EXCEPT !.left = n]
    BY <1>4 DEF TickPoller
  <2>2. n \in Remaining
    BY <1>1, <1>4, PollerFields
  <2> HIDE DEF n
  <2>3. CASE At(p, "polling")
    BY <2>1, <2>2, <2>3 DEF TypeOK, PollerState, At, Delivering, Idle, n
  <2>4. CASE At(p, "batch")
    BY <2>1, <2>2, <2>4 DEF TypeOK, PollerState, At, Delivering, Idle, n
  <2>5. CASE At(p, "releasing")
    <3>1. poller[p] \in [step : {"releasing"}, left : Remaining, ttl : Remaining,
                         keys : SUBSET Key, key : Key, result : Result]
      BY <2>5 DEF TypeOK, PollerState, At, Idle
    <3>2. QED
      BY <2>1, <2>2, <3>1 DEF PollerState, At, Delivering, n
  <2>6. CASE poller[p].step \in {"checking", "claimed", "sending", "accepted"}
    <3>1. poller[p] \in [step : {"checking", "claimed", "sending", "accepted"},
                         left : Remaining, ttl : Remaining, keys : SUBSET Key, key : Key]
      BY <2>6 DEF TypeOK, PollerState, Idle
    <3>2. QED
      BY <2>1, <2>2, <3>1 DEF PollerState, At, Delivering, n
  <2>7. QED
    BY <1>4, <2>3, <2>4, <2>5, <2>6, PollerFields DEF At
<1>5. CASE poller[p] = Idle
  BY <1>5 DEF TickPoller, PollerState, Idle, Delivering, At
<1>6. QED
  BY <1>3, <1>4, <1>5

LEMMA TickType ==
  ASSUME TypeOK, Tick
  PROVE  TypeOK'
<1>1. row' \in [Key -> [state : {"pending", "leased", "refused", "already", "delivered"},
                        lease : Poller \cup {Nobody}, left : Remaining]]
  <2>1. \A k \in Key : row[k].left \in Remaining /\ Shorter(row[k].left) \in Remaining
    <3>1. \A n \in Remaining : Shorter(n) \in Remaining
      BY Numbers DEF Shorter
    <3>2. QED
      BY <3>1 DEF TypeOK
  <2>2. row' = [k \in Key |-> [row[k] EXCEPT !.left = Shorter(row[k].left)]]
    BY DEF Tick
  <2>3. QED
    BY <2>1, <2>2 DEF TypeOK
<1>2. claim' \in [Key -> [owner : Poller \cup {Nobody}, left : 0..(Lease + Dedup)]]
  <2> SUFFICES ASSUME NEW k \in Key
               PROVE  claim'[k] \in [owner : Poller \cup {Nobody}, left : 0..(Lease + Dedup)]
    BY DEF Tick
  <2>1. claim[k] \in [owner : Poller \cup {Nobody}, left : 0..(Lease + Dedup)]
    BY DEF TypeOK
  <2>2. CASE claim[k].left <= 1
    BY <2>2, Numbers DEF Tick, NoClaim
  <2>3. CASE claim[k].left > 1
    <3>1. claim'[k] = [claim[k] EXCEPT !.left = claim[k].left - 1]
      BY <2>1, <2>3, Numbers DEF Tick
    <3>2. claim[k].left - 1 \in 0..(Lease + Dedup)
      BY <2>1, <2>3, Numbers
    <3>3. QED
      BY <2>1, <3>1, <3>2
  <2>4. QED
    BY <2>1, <2>2, <2>3, Numbers
<1>3. poller' \in [Poller -> PollerState]
  <2>1. poller' = [p \in Poller |-> TickPoller(p)]
    BY DEF Tick
  <2>2. \A p \in Poller : TickPoller(p) \in PollerState
    BY TickPollerFields
  <2>3. QED
    BY <2>1, <2>2
<1>4. /\ sent' \in [Key -> 0..Dedup] /\ pushes' \in [Key -> 0..2]
      /\ unrecorded' \in SUBSET Key
  BY Numbers DEF Tick, TypeOK, Shorter
<1>5. QED
  BY <1>1, <1>2, <1>3, <1>4 DEF Tick, TypeOK

LEMMA NextType == TypeOK /\ [Next]_campaignVars => TypeOK'
  BY StepType, DisturbType, TickType DEF Next, campaignVars, TypeOK

\* Every variable keeps its type, whatever the constants.
THEOREM TypeCorrect == Spec => []TypeOK
<1>1. QED
  BY InitType, NextType, PTL DEF Spec

-----------------------------------------------------------------------------
(* The inductive invariant.  GuardsCoverAttempt says nothing of how much    *)
(* time is left: what carries it is that a lease lasts as long as its       *)
(* poller counts it, that a claim lasts as long as the attempt it covers,   *)
(* and that a delivery or report in time leaves some of the lease.          *)

Holding(p, k) ==
  poller[p].step \in {"claimed", "sending", "accepted", "releasing"} /\ poller[p].key = k

InTime ==
  \A p \in Poller :
    /\ Delivering(p) => poller[p].left >= Reserve /\ poller[p].ttl >= poller[p].left
    /\ At(p, "reporting") => poller[p].left >= poller[p].wait /\ poller[p].wait >= 1

KeysOf(p) ==
  IF poller[p].step \in {"idle", "polling"} THEN {}
  ELSE IF At(p, "batch") THEN poller[p].keys
  ELSE poller[p].keys \cup {poller[p].key}

LeasesHeld ==
  \A p \in Poller : \A k \in KeysOf(p) :
    poller[p].left > 0 =>
      row[k].state = "leased" /\ row[k].lease = p /\ row[k].left >= poller[p].left

KeysDiffer == \A p \in Poller, k \in Key : WorksOn(p, k) => k \notin poller[p].keys

ClaimsHeld ==
  \A p \in Poller, k \in Key :
    Holding(p, k) => claim[k].owner = p /\ claim[k].left >= poller[p].left

GuardInvariant ==
  TypeOK /\ InTime /\ LeasesHeld /\ KeysDiffer /\ ClaimsHeld

\* A push in the window that is not on record as unrecorded is guarded: the
\* attempt that made it is about to promote its claim, or the claim that was
\* promoted lasts as long as the window and nobody holds another.
PushesGuarded ==
  \A k \in Key :
    pushes[k] > 0 /\ k \notin unrecorded =>
      /\ claim[k].owner # Nobody
      /\ \/ \E p \in Poller : At(p, "accepted") /\ poller[p].key = k
         \/ claim[k].left >= sent[k] /\ \A p \in Poller : ~Holding(p, k)

\* A claim is held by the attempt that took it, or stands for a push, or was
\* left behind.
ClaimsExplained ==
  \A k \in Key :
    claim[k].owner # Nobody =>
      k \in pushed \cup abandoned \/ \E p \in Poller : Holding(p, k)

\* A claim without an owner is none.
ClaimsWhole == \A k \in Key : claim[k].owner = Nobody => claim[k] = NoClaim

ResultsExplained ==
  \A p \in Poller :
    /\ At(p, "accepted") => poller[p].key \in pushed
    /\ At(p, "reporting") /\ poller[p].result \in {"delivered", "already"} =>
         poller[p].key \in pushed \cup abandoned

\* A claim is given up only with a result that settles nothing as delivered.
ReleasesRepeat ==
  \A p \in Poller : At(p, "releasing") => poller[p].result \notin {"delivered", "already"}

PushInvariant ==
  /\ GuardInvariant
  /\ ReleasesRepeat
  /\ PushesGuarded
  /\ RecordedPushNotRepeated
  /\ ClaimsWhole
  /\ ClaimsExplained
  /\ ResultsExplained

-----------------------------------------------------------------------------
(* Lease and claim cover the attempt                                        *)

\* What the guards need of the types, in a form for arithmetic.
LEMMA GuardTypes ==
  ASSUME TypeOK
  PROVE  /\ \A k \in Key : /\ row[k].left \in Nat /\ claim[k].left \in Nat
                           /\ row[k].lease \in Poller \cup {Nobody}
         /\ \A p \in Poller : /\ poller[p].step # "idle" => poller[p].left \in Nat
                              /\ Delivering(p) => poller[p].ttl \in Nat
                              /\ At(p, "reporting") => poller[p].wait \in Nat
  BY PollerFields, Numbers DEF TypeOK

LEMMA GuardInit == Init => GuardInvariant
<1> SUFFICES ASSUME Init PROVE GuardInvariant
  OBVIOUS
<1>1. TypeOK
  BY InitType
<1>2. \A p \in Poller : poller[p].step = "idle"
  BY DEF Init, Idle
<1>3. QED
  BY <1>1, <1>2 DEF GuardInvariant, InTime, LeasesHeld, KeysDiffer, ClaimsHeld, KeysOf, At,
     Delivering, WorksOn, Holding

\* A row that somebody still counts on is not offered.
LEMMA HeldNotOffered ==
  ASSUME GuardInvariant, NEW q \in Poller, NEW k \in KeysOf(q), poller[q].left > 0
  PROVE  k \notin Offered
<1>1. k \in Key /\ poller[q].left \in Nat
  BY PollerFields, Numbers DEF GuardInvariant, KeysOf, At, Delivering
<1>2. QED
  BY <1>1, GuardTypes DEF GuardInvariant, LeasesHeld, Offered

\* A step of one poller that touches no row, no claim and no other poller, and
\* leaves that poller with nothing more to work on.
LEMMA GuardQuiet ==
  ASSUME GuardInvariant, TypeOK', NEW p \in Poller, claim' = claim,
         \/ row' = row
         \/ row' = Leased(p),
         \A q \in Poller : q # p => poller'[q] = poller[q],
         poller'[p].step \in {"idle", "polling"}
  PROVE  GuardInvariant'
<1>1. TypeOK
  BY DEF GuardInvariant
<1>2. \A q \in Poller : q # p => \A k \in KeysOf(q) :
        poller[q].left > 0 => k \in Key /\ row'[k] = row[k]
  BY <1>1, HeldNotOffered, PollerFields DEF KeysOf, Leased, At, Delivering
<1>3. InTime' /\ KeysDiffer' /\ ClaimsHeld'
  BY DEF GuardInvariant, InTime, KeysDiffer, ClaimsHeld, Delivering, At, WorksOn, Holding
<1>4. LeasesHeld'
  BY <1>2 DEF GuardInvariant, LeasesHeld, KeysOf, At
<1>5. QED
  BY <1>3, <1>4 DEF GuardInvariant

\* An offer gives its poller leases that last at least as long as it counts.
LEMMA GuardOffer ==
  ASSUME GuardInvariant, TypeOK', NEW p \in Poller, Offer(p)
  PROVE  GuardInvariant'
<1>1. TypeOK
  BY DEF GuardInvariant
<1>2. /\ row' = Leased(p) /\ claim' = claim
      /\ poller'[p] = [step |-> "batch", left |-> poller[p].left, keys |-> Offered]
      /\ \A q \in Poller : q # p => poller'[q] = poller[q]
  BY <1>1 DEF Offer, Leased, TypeOK
<1>3. poller[p].left \in Nat /\ poller[p].left <= Lease
  BY <1>1, PollerFields, Numbers DEF Offer, At
<1>4. \A q \in Poller : q # p => \A k \in KeysOf(q) :
        poller[q].left > 0 => row'[k] = row[k]
  BY <1>1, <1>2, HeldNotOffered, PollerFields DEF KeysOf, Leased, At, Delivering
<1>5. InTime' /\ KeysDiffer' /\ ClaimsHeld'
  BY <1>2 DEF GuardInvariant, InTime, KeysDiffer, ClaimsHeld, Delivering, At, WorksOn, Holding
<1>6. LeasesHeld'
  <2> SUFFICES ASSUME NEW q \in Poller, NEW k \in KeysOf(q)', poller'[q].left > 0
               PROVE  row'[k].state = "leased" /\ row'[k].lease = q
                      /\ row'[k].left >= poller'[q].left
    BY DEF LeasesHeld
  <2>1. CASE q = p
    BY <1>2, <1>3, <2>1 DEF KeysOf, Leased, Offered, At
  <2>2. CASE q # p
    BY <1>2, <1>4, <2>2 DEF GuardInvariant, LeasesHeld, KeysOf, At
  <2>3. QED
    BY <2>1, <2>2
<1>7. QED
  BY <1>5, <1>6 DEF GuardInvariant

\* A delivery begins with enough of the lease, and its claim is to last as long.
LEMMA GuardBegin ==
  ASSUME GuardInvariant, TypeOK', NEW p \in Poller, NEW k \in Key, Begin(p, k)
  PROVE  GuardInvariant'
<1>1. TypeOK
  BY DEF GuardInvariant
<1>2. /\ row' = row /\ claim' = claim
      /\ poller'[p] = [step |-> "checking", left |-> poller[p].left, ttl |-> poller[p].left,
                       keys |-> poller[p].keys \ {k}, key |-> k]
      /\ \A q \in Poller : q # p => poller'[q] = poller[q]
      /\ k \in poller[p].keys /\ poller[p].step = "batch" /\ poller[p].left > Reserve
  BY <1>1 DEF Begin, TypeOK, ClaimTTL, EnoughLeft, At
<1>3. KeysOf(p)' = KeysOf(p) /\ \A q \in Poller : q # p => KeysOf(q)' = KeysOf(q)
  BY <1>2 DEF KeysOf, At
<1>4. InTime'
  BY <1>1, <1>2, GuardTypes, Numbers DEF GuardInvariant, InTime, Delivering, At
<1>5. KeysDiffer' /\ ClaimsHeld'
  BY <1>2 DEF GuardInvariant, KeysDiffer, ClaimsHeld, Delivering, At, WorksOn, Holding
<1>6. LeasesHeld'
  BY <1>2, <1>3 DEF GuardInvariant, LeasesHeld
<1>7. QED
  BY <1>4, <1>5, <1>6 DEF GuardInvariant

\* Two attempts never work on one row: each would hold its lease.
LEMMA OneAttempt ==
  ASSUME GuardInvariant, NEW p \in Poller, NEW q \in Poller, NEW k \in Key,
         WorksOn(p, k), WorksOn(q, k)
  PROVE  p = q
<1>1. TypeOK
  BY DEF GuardInvariant
<1>2. poller[p].left > 0 /\ poller[q].left > 0
  BY <1>1, GuardTypes, Numbers DEF GuardInvariant, InTime, WorksOn, Delivering, At
<1>3. k \in KeysOf(p) /\ k \in KeysOf(q)
  BY DEF KeysOf, WorksOn, Delivering, At
<1>4. QED
  BY <1>2, <1>3 DEF GuardInvariant, LeasesHeld

\* A step in which poller p goes on with the row it works on, with its claim if
\* it holds one afterwards, and touches only that row's claim.
LEMMA GuardDelivers ==
  ASSUME GuardInvariant, TypeOK', NEW p \in Poller, row' = row,
         \A q \in Poller : q # p => poller'[q] = poller[q],
         Delivering(p), Delivering(p)' \/ At(p, "reporting")',
         poller'[p].left = poller[p].left, poller'[p].keys = poller[p].keys,
         poller'[p].key = poller[p].key,
         Delivering(p)' => poller'[p].ttl = poller[p].ttl,
         At(p, "reporting")' => poller'[p].wait = Reserve,
         \A k \in Key : k # poller[p].key => claim'[k] = claim[k],
         Holding(p, poller[p].key)' => /\ claim'[poller[p].key].owner = p
                                       /\ claim'[poller[p].key].left >= poller[p].left
  PROVE  GuardInvariant'
<1>1. TypeOK /\ poller[p].key \in Key
  BY PollerFields DEF GuardInvariant
<1>2. /\ KeysOf(p) = poller[p].keys \cup {poller[p].key} /\ KeysOf(p)' = KeysOf(p)
      /\ \A q \in Poller : q # p => KeysOf(q)' = KeysOf(q)
  BY DEF KeysOf, Delivering, At
<1>3. InTime'
  BY <1>1, GuardTypes, Numbers DEF GuardInvariant, InTime, Delivering, At
<1>4. KeysDiffer'
  BY DEF GuardInvariant, KeysDiffer, WorksOn, Delivering, At
<1>5. LeasesHeld'
  BY <1>2 DEF GuardInvariant, LeasesHeld
<1>6. ClaimsHeld'
  <2> SUFFICES ASSUME NEW q \in Poller, NEW k \in Key, Holding(q, k)'
               PROVE  claim'[k].owner = q /\ claim'[k].left >= poller'[q].left
    BY DEF ClaimsHeld
  <2>1. CASE q = p
    BY <2>1 DEF Holding
  <2>2. CASE q # p
    <3>1. Holding(q, k)
      BY <2>2 DEF Holding
    <3>2. k # poller[p].key
      BY <2>2, <3>1, <1>1, OneAttempt DEF Holding, WorksOn, Delivering
    <3>3. QED
      BY <2>2, <3>1, <3>2 DEF GuardInvariant, ClaimsHeld
  <2>3. QED
    BY <2>1, <2>2
<1>7. QED
  BY <1>3, <1>4, <1>5, <1>6 DEF GuardInvariant

LEMMA GuardDeliver ==
  ASSUME GuardInvariant, TypeOK', NEW p \in Poller,
         \/ Deliver(p)
         \/ ClaimUnanswered(p)
         \/ PromoteFails(p)
         \/ ReleaseFails(p)
  PROVE  GuardInvariant'
<1>1. TypeOK
  BY DEF GuardInvariant
<1>2. Delivering(p) /\ row' = row /\ \A q \in Poller : q # p => poller'[q] = poller[q]
  BY <1>1 DEF Deliver, RefuseUnclaimed, Claim, RefuseClaimed, Send, Accept, Fail, Promote,
     Release, ClaimUnanswered, PromoteFails, ReleaseFails, GoTo, TypeOK, Delivering, At
<1> DEFINE k == poller[p].key
<1>3. k \in Key /\ poller[p].ttl >= poller[p].left /\ poller[p].left \in Nat
      /\ poller[p].ttl \in Nat
  BY <1>1, <1>2, PollerFields, GuardTypes DEF GuardInvariant, InTime, Delivering
<1> HIDE DEF k
<1>4. /\ Delivering(p)' \/ At(p, "reporting")'
      /\ poller'[p].left = poller[p].left /\ poller'[p].keys = poller[p].keys
      /\ poller'[p].key = poller[p].key
      /\ Delivering(p)' => poller'[p].ttl = poller[p].ttl
      /\ At(p, "reporting")' => poller'[p].wait = Reserve
  <2>1. CASE \E result \in Result : poller' = [poller EXCEPT ![p] = Reporting(p, result)]
    BY <1>1, <2>1 DEF Reporting, TypeOK, Delivering, At
  <2>2. CASE \E result \in Result : poller' = [poller EXCEPT ![p] = Releasing(p, result)]
    BY <1>1, <2>2 DEF Releasing, TypeOK, Delivering, At
  <2>3. ASSUME NEW step \in {"claimed", "sending", "accepted"}, GoTo(p, step),
               poller[p].step \in {"checking", "claimed", "sending"}
        PROVE  /\ Delivering(p)' /\ poller'[p].step = step
               /\ poller'[p].left = poller[p].left /\ poller'[p].keys = poller[p].keys
               /\ poller'[p].key = poller[p].key /\ poller'[p].ttl = poller[p].ttl
    <3> DEFINE s == [poller[p] EXCEPT !.step = step]
    <3>1. poller' = [poller EXCEPT ![p] = s]
      BY <2>3 DEF GoTo
    <3>2. poller[p] \in [step : {"checking", "claimed", "sending", "accepted"}, left : Remaining,
                         ttl : Remaining, keys : SUBSET Key, key : Key]
      BY <1>1, <2>3 DEF TypeOK, PollerState, Idle
    <3>3. s.step = step /\ s.left = poller[p].left /\ s.keys = poller[p].keys
          /\ s.key = poller[p].key /\ s.ttl = poller[p].ttl
      BY <3>2
    <3> HIDE DEF s
    <3>4. QED
      BY <1>1, <3>1, <3>3 DEF TypeOK, Delivering
  <2>4. CASE Claim(p) \/ Send(p) \/ Accept(p)
    BY <2>1, <2>3, <2>4 DEF Claim, Send, Accept, At, Result
  <2>5. CASE RefuseUnclaimed(p) \/ RefuseClaimed(p) \/ Fail(p)
    BY <2>1, <2>2, <2>5 DEF RefuseUnclaimed, RefuseClaimed, Fail, Result
  <2>6. CASE Promote(p) \/ ClaimUnanswered(p) \/ PromoteFails(p)
    BY <2>1, <2>6 DEF Promote, ClaimUnanswered, PromoteFails, Result
  <2>7. CASE Release(p) \/ ReleaseFails(p)
    BY <1>1, <2>1, <2>7, PollerFields DEF Release, ReleaseFails, Result
  <2>8. QED
    BY <2>4, <2>5, <2>6, <2>7 DEF Deliver
<1>5. \A j \in Key : j # k => claim'[j] = claim[j]
  BY <1>1, <1>3 DEF Deliver, RefuseUnclaimed, Claim, RefuseClaimed, Send, Accept, Fail, Promote,
     Release, Released, ClaimUnanswered, PromoteFails, ReleaseFails, TypeOK, k
<1>6. Holding(p, k)' => claim'[k].owner = p /\ claim'[k].left >= poller[p].left
  <2>1. CASE Claim(p) /\ claim[k] = NoClaim
    BY <1>1, <1>3, <2>1 DEF Claim, TypeOK, k
  <2>2. CASE Claim(p) /\ claim[k] # NoClaim
    BY <1>1, <2>2 DEF Claim, TypeOK, Reporting, Holding, k
  <2>3. CASE RefuseClaimed(p) \/ Send(p) \/ Accept(p) \/ Fail(p)
    BY <1>3, <2>3 DEF RefuseClaimed, Send, Accept, Fail, GuardInvariant, ClaimsHeld, Holding,
       At, k
  <2>4. CASE RefuseUnclaimed(p) \/ Promote(p) \/ Release(p) \/ ClaimUnanswered(p)
             \/ PromoteFails(p) \/ ReleaseFails(p)
    BY <1>1, <2>4 DEF RefuseUnclaimed, Promote, Release, ClaimUnanswered, PromoteFails,
       ReleaseFails, Reporting, Holding, TypeOK
  <2>5. QED
    BY <2>1, <2>2, <2>3, <2>4 DEF Deliver
<1>7. QED
  BY <1>2, <1>4, <1>5, <1>6, GuardDelivers DEF k

\* A result settles its own row, which no other poller holds and which is not
\* among the rest of the batch.
LEMMA GuardReport ==
  ASSUME GuardInvariant, TypeOK', NEW p \in Poller, Report(p) \/ ReportLost(p)
  PROVE  GuardInvariant'
<1>1. TypeOK /\ poller[p].key \in Key /\ At(p, "reporting")
  BY PollerFields DEF GuardInvariant, Report, ReportLost
<1>2. /\ claim' = claim
      /\ poller'[p] = [step |-> "batch", left |-> poller[p].left, keys |-> poller[p].keys]
      /\ \A q \in Poller : q # p => poller'[q] = poller[q]
      /\ \A k \in Key : k # poller[p].key => row'[k] = row[k]
      /\ row[poller[p].key].lease # p => row' = row
  BY <1>1 DEF Report, ReportLost, TypeOK, Settles, history
<1>3. InTime' /\ KeysDiffer' /\ ClaimsHeld'
  BY <1>2 DEF GuardInvariant, InTime, KeysDiffer, ClaimsHeld, Delivering, At, WorksOn, Holding
<1>4. LeasesHeld'
  <2> SUFFICES ASSUME NEW q \in Poller, NEW k \in KeysOf(q)', poller'[q].left > 0
               PROVE  row'[k].state = "leased" /\ row'[k].lease = q
                      /\ row'[k].left >= poller'[q].left
    BY DEF LeasesHeld
  <2>1. CASE q = p
    <3>1. k \in KeysOf(p) /\ k \in Key /\ k # poller[p].key
      BY <1>1, <1>2, <2>1, PollerFields
         DEF GuardInvariant, KeysDiffer, WorksOn, KeysOf, At
    <3>2. QED
      BY <1>2, <2>1, <3>1 DEF GuardInvariant, LeasesHeld
  <2>2. CASE q # p
    <3>1. k \in KeysOf(q) /\ k \in Key /\ poller[q].left > 0
      BY <1>1, <1>2, <2>2, PollerFields DEF KeysOf, At, Delivering
    <3>2. row[k].lease = q
      BY <3>1 DEF GuardInvariant, LeasesHeld
    <3>3. row'[k] = row[k]
      BY <1>2, <2>2, <3>1, <3>2
    <3>4. QED
      BY <1>2, <2>2, <3>1, <3>3 DEF GuardInvariant, LeasesHeld
  <2>3. QED
    BY <2>1, <2>2
<1>5. QED
  BY <1>3, <1>4 DEF GuardInvariant

\* The clock shortens leases, claims and what the pollers count alike, and waits
\* for a delivery or a report that is out of time.
LEMMA GuardTick ==
  ASSUME GuardInvariant, TypeOK', Tick
  PROVE  GuardInvariant'
<1>1. TypeOK
  BY DEF GuardInvariant
<1>2. /\ \A k \in Key : /\ row'[k].left = Shorter(row[k].left)
                        /\ row'[k].state = row[k].state /\ row'[k].lease = row[k].lease
                        /\ claim[k].left > 1 => /\ claim'[k].left = claim[k].left - 1
                                                /\ claim'[k].owner = claim[k].owner
      /\ \A p \in Poller : poller'[p] = TickPoller(p)
  BY <1>1, GuardTypes DEF Tick, TypeOK
<1>3. \A p \in Poller : /\ Delivering(p) => poller[p].left > Reserve
                        /\ At(p, "reporting") => poller[p].wait > 1
  BY DEF Tick, InBudget, InTimeToAnswer
<1>4. \A p \in Poller : /\ Delivering(p)' <=> Delivering(p)
                        /\ At(p, "reporting")' <=> At(p, "reporting")
                        /\ KeysOf(p)' = KeysOf(p)
                        /\ poller[p].step # "idle" => poller'[p].left = Shorter(poller[p].left)
  <2> SUFFICES ASSUME NEW p \in Poller
               PROVE  /\ Delivering(p)' <=> Delivering(p)
                      /\ At(p, "reporting")' <=> At(p, "reporting")
                      /\ KeysOf(p)' = KeysOf(p)
                      /\ poller[p].step # "idle" => poller'[p].left = Shorter(poller[p].left)
    OBVIOUS
  <2>1. /\ poller'[p].step = poller[p].step
        /\ poller[p].step # "idle" => poller'[p].left = Shorter(poller[p].left)
        /\ poller[p].step \notin {"idle", "polling"} => poller'[p].keys = poller[p].keys
        /\ Delivering(p) \/ At(p, "reporting") => poller'[p].key = poller[p].key
    BY <1>1, <1>2, TickPollerFields
  <2>2. KeysOf(p)' = KeysOf(p)
    BY <1>1, <2>1, PollerFields DEF Delivering, At, KeysOf
  <2>3. QED
    BY <2>1, <2>2 DEF Delivering, At
<1>5. InTime'
  BY <1>1, <1>2, <1>3, <1>4, TickPollerFields, GuardTypes, PollerFields, Numbers
     DEF GuardInvariant, InTime, Shorter, Delivering, At
<1>6. KeysDiffer'
  BY <1>1, <1>2, <1>4, TickPollerFields, PollerFields
     DEF GuardInvariant, KeysDiffer, WorksOn, Delivering, At
<1>7. LeasesHeld'
  <2> SUFFICES ASSUME NEW p \in Poller, NEW k \in KeysOf(p), poller'[p].left > 0
               PROVE  row'[k].state = "leased" /\ row'[k].lease = p
                      /\ row'[k].left >= poller'[p].left
    BY <1>4 DEF LeasesHeld
  <2>1. k \in Key /\ poller[p].step # "idle"
    BY <1>1, PollerFields DEF KeysOf, At, Delivering
  <2>2. QED
    BY <1>1, <1>2, <1>4, <2>1, GuardTypes DEF GuardInvariant, LeasesHeld, Shorter
<1>8. ClaimsHeld'
  <2> SUFFICES ASSUME NEW p \in Poller, NEW k \in Key, Holding(p, k)'
               PROVE  claim'[k].owner = p /\ claim'[k].left >= poller'[p].left
    BY DEF ClaimsHeld
  <2>1. Holding(p, k) /\ Delivering(p)
    BY <1>1, <1>2, TickPollerFields DEF Holding, Delivering
  <2>2. QED
    BY <1>1, <1>2, <1>3, <1>4, <2>1, GuardTypes, Numbers
       DEF GuardInvariant, ClaimsHeld, Shorter, Delivering
<1>9. QED
  BY <1>5, <1>6, <1>7, <1>8 DEF GuardInvariant

LEMMA GuardNext == GuardInvariant /\ [Next]_campaignVars => GuardInvariant'
<1> SUFFICES ASSUME GuardInvariant, [Next]_campaignVars
             PROVE  GuardInvariant'
  OBVIOUS
<1>1. TypeOK /\ TypeOK'
  BY NextType DEF GuardInvariant
<1>2. ASSUME NEW p \in Poller, PollerStep(p) \/ Disturb(p)
      PROVE  GuardInvariant'
  <2>1. CASE Poll(p) \/ EndBatch(p) \/ PollFails(p) \/ TimeOut(p) \/ Crash(p)
    <3>1. /\ claim' = claim /\ (row' = row \/ row' = Leased(p))
          /\ \A q \in Poller : q # p => poller'[q] = poller[q]
          /\ poller'[p].step \in {"idle", "polling"}
      BY <1>1, <2>1 DEF Poll, EndBatch, PollFails, TimeOut, Crash, Leased, TypeOK, Idle
    <3>2. QED
      BY <1>1, <3>1, GuardQuiet
  <2>2. CASE Offer(p)
    BY <1>1, <2>2, GuardOffer
  <2>3. CASE \E k \in Key : Begin(p, k)
    BY <1>1, <2>3, GuardBegin
  <2>4. CASE Deliver(p) \/ ClaimUnanswered(p) \/ PromoteFails(p) \/ ReleaseFails(p)
    BY <1>1, <2>4, GuardDeliver
  <2>5. CASE Report(p) \/ ReportLost(p)
    BY <1>1, <2>5, GuardReport
  <2>6. QED
    BY <1>2, <2>1, <2>2, <2>3, <2>4, <2>5 DEF PollerStep, Disturb
<1>3. CASE Tick
  BY <1>1, <1>3, GuardTick
<1>4. CASE UNCHANGED campaignVars
  BY <1>1, <1>4 DEF campaignVars, GuardInvariant, InTime, LeasesHeld, KeysDiffer, ClaimsHeld,
     KeysOf, At, Delivering, WorksOn, Holding
<1>5. QED
  BY <1>2, <1>3, <1>4 DEF Next

\* From its begin to its report an attempt is covered by the lease and, once it
\* has taken the claim, by the claim, whatever is lost, cut off or late.
THEOREM AttemptsAreCovered == Spec => []GuardsCoverAttempt
<1>1. ASSUME GuardInvariant
      PROVE  GuardsCoverAttempt
  <2>1. TypeOK
    BY <1>1 DEF GuardInvariant
  <2>2. ASSUME NEW p \in Poller, NEW k \in Key, WorksOn(p, k)
        PROVE  row[k].state = "leased" /\ row[k].lease = p /\ row[k].left > 0
    <3>1. poller[p].left > 0 /\ poller[p].left \in Nat
      BY <1>1, <2>1, <2>2, GuardTypes, Numbers
         DEF GuardInvariant, InTime, WorksOn, Delivering, At
    <3>2. k \in KeysOf(p)
      BY <2>2 DEF KeysOf, WorksOn, Delivering, At
    <3>3. QED
      BY <1>1, <2>1, <3>1, <3>2, GuardTypes DEF GuardInvariant, LeasesHeld
  <2>3. ClaimCoversAttempt
    BY <1>1, <2>1, PollerFields
       DEF GuardInvariant, ClaimsHeld, ClaimCoversAttempt, Holding, Owns, Delivering
  <2>4. QED
    BY <2>2, <2>3 DEF GuardsCoverAttempt, LeaseCoversAttempt
<1>2. QED
  BY <1>1, GuardInit, GuardNext, PTL DEF Spec

-----------------------------------------------------------------------------
(* Pushes and what is made of them                                          *)

\* What the pushes need of the types, in a form for arithmetic.
LEMMA PushTypes ==
  ASSUME TypeOK
  PROVE  \A k \in Key : /\ pushes[k] \in Nat /\ pushes[k] <= 2
                        /\ sent[k] \in Nat /\ sent[k] <= Dedup
                        /\ claim[k].left \in Nat
  BY Numbers DEF TypeOK

LEMMA PushInit == Init => PushInvariant
<1> SUFFICES ASSUME Init PROVE PushInvariant
  OBVIOUS
<1>1. GuardInvariant
  BY GuardInit
<1>2. /\ \A k \in Key : pushes[k] = 0 /\ claim[k] = NoClaim /\ claim[k].owner = Nobody
      /\ \A p \in Poller : poller[p].step = "idle"
  BY DEF Init, NoClaim, Idle
<1>3. QED
  BY <1>1, <1>2 DEF PushInvariant, PushesGuarded, RecordedPushNotRepeated, ClaimsWhole,
     ClaimsExplained, ResultsExplained, ReleasesRepeat, At

\* An attempt whose push was not accepted holds no row that was pushed and has
\* that on record.
LEMMA UnpushedYet ==
  ASSUME PushInvariant, NEW p \in Poller, NEW k \in Key, Holding(p, k), ~At(p, "accepted")
  PROVE  pushes[k] > 0 => k \in unrecorded
<1> SUFFICES ASSUME pushes[k] > 0, k \notin unrecorded
             PROVE  FALSE
  OBVIOUS
<1>1. PICK q \in Poller : At(q, "accepted") /\ poller[q].key = k
  BY DEF PushInvariant, PushesGuarded
<1>2. WorksOn(p, k) /\ WorksOn(q, k)
  BY <1>1 DEF Holding, WorksOn, Delivering, At
<1>3. QED
  BY <1>1, <1>2, OneAttempt DEF PushInvariant

\* A step of poller p that takes no claim and makes no push: a claim that it
\* gives up is accounted for, and so is a push that it will not promote.
LEMMA PushStep ==
  ASSUME PushInvariant, GuardInvariant', NEW p \in Poller,
         UNCHANGED <<claim, sent, pushes>>,
         unrecorded \subseteq unrecorded', pushed \subseteq pushed',
         abandoned \subseteq abandoned',
         \A q \in Poller : q # p => poller'[q] = poller[q],
         \A k \in Key : /\ Holding(p, k)' => Holding(p, k)
                        /\ Holding(p, k) /\ ~Holding(p, k)' => k \in abandoned' \cup pushed',
         At(p, "accepted")' => At(p, "accepted") /\ poller'[p].key = poller[p].key,
         At(p, "accepted") => \/ At(p, "accepted")' /\ poller'[p].key = poller[p].key
                              \/ poller[p].key \in unrecorded',
         At(p, "reporting")' /\ poller'[p].result \in {"delivered", "already"} =>
           poller'[p].key \in pushed' \cup abandoned',
         At(p, "releasing")' => poller'[p].result \notin {"delivered", "already"}
  PROVE  PushInvariant'
<1>1. \A q \in Poller, k \in Key : Holding(q, k)' => Holding(q, k)
  BY DEF Holding
<1>2. PushesGuarded'
  <2> SUFFICES ASSUME NEW k \in Key, pushes[k] > 0, k \notin unrecorded'
               PROVE  /\ claim[k].owner # Nobody
                      /\ \/ \E q \in Poller : At(q, "accepted")' /\ poller'[q].key = k
                         \/ claim[k].left >= sent[k] /\ \A q \in Poller : ~Holding(q, k)'
    BY DEF PushesGuarded
  <2>1. claim[k].owner # Nobody
    BY DEF PushInvariant, PushesGuarded
  <2>2. CASE \E q \in Poller : At(q, "accepted") /\ poller[q].key = k
    BY <2>1, <2>2 DEF At
  <2>3. CASE claim[k].left >= sent[k] /\ \A q \in Poller : ~Holding(q, k)
    BY <1>1, <2>1, <2>3
  <2>4. QED
    BY <2>2, <2>3 DEF PushInvariant, PushesGuarded
<1>3. RecordedPushNotRepeated' /\ ClaimsWhole'
  BY DEF PushInvariant, RecordedPushNotRepeated, ClaimsWhole
<1>4. ClaimsExplained'
  <2> SUFFICES ASSUME NEW k \in Key, claim[k].owner # Nobody,
                      k \notin pushed' \cup abandoned'
               PROVE  \E q \in Poller : Holding(q, k)'
    BY DEF ClaimsExplained
  <2>1. PICK q \in Poller : Holding(q, k)
    BY DEF PushInvariant, ClaimsExplained
  <2>2. Holding(q, k)'
    BY <2>1 DEF Holding
  <2>3. QED
    BY <2>2
<1>5. ResultsExplained' /\ ReleasesRepeat'
  BY DEF PushInvariant, ResultsExplained, ReleasesRepeat, At
<1>6. QED
  BY <1>2, <1>3, <1>4, <1>5 DEF PushInvariant

\* A push lands: it is the only one in the window, or it is on record that one
\* may be repeated, and the attempt is about to promote its claim or on record.
LEMMA PushLands ==
  ASSUME PushInvariant, GuardInvariant', NEW p \in Poller, At(p, "sending"),
         Land(poller[p].key), claim' = claim, abandoned' = abandoned,
         \A q \in Poller : q # p => poller'[q] = poller[q],
         \A k \in Key : Holding(p, k)' => Holding(p, k),
         \/ /\ unrecorded' = unrecorded
            /\ At(p, "accepted")' /\ poller'[p].key = poller[p].key
         \/ /\ unrecorded' = unrecorded \cup {poller[p].key}
            /\ poller'[p].step \in {"idle", "releasing"},
         At(p, "releasing")' => poller'[p].result = "retryable"
  PROVE  PushInvariant'
<1>0. PICK k \in Key : k = poller[p].key
  BY PollerFields DEF PushInvariant, GuardInvariant, Release, Promote, At, Delivering
<1> USE <1>0
<1>1. TypeOK /\ k \in Key /\ Holding(p, k)
  BY PollerFields DEF PushInvariant, GuardInvariant, Holding, At, Delivering
<1>2. WorksOn(p, k)
  BY <1>1 DEF WorksOn, Delivering, At
<1>3. /\ pushes'[k] = (IF pushes[k] < 2 THEN pushes[k] + 1 ELSE 2)
      /\ pushed' = pushed \cup {k}
      /\ \A j \in Key : j # k => pushes'[j] = pushes[j] /\ sent'[j] = sent[j]
  BY <1>1 DEF Land, TypeOK
<1>4. pushes[k] > 0 => k \in unrecorded
  BY <1>1, UnpushedYet DEF At
<1>5. claim[k].owner = p /\ p # Nobody
  BY <1>1, Numbers DEF PushInvariant, GuardInvariant, ClaimsHeld
<1>6. \A q \in Poller, j \in Key : Holding(q, j)' => Holding(q, j)
  BY DEF Holding
<1>7. /\ k \in unrecorded' \/ (At(p, "accepted")' /\ poller'[p].key = k)
      /\ unrecorded \subseteq unrecorded' /\ unrecorded' \subseteq unrecorded \cup {k}
  OBVIOUS
<1>8. Holding(p, k)' \/ k \in pushed'
  BY <1>3
<1>9. PushesGuarded'
  <2> SUFFICES ASSUME NEW j \in Key, pushes'[j] > 0, j \notin unrecorded'
               PROVE  /\ claim[j].owner # Nobody
                      /\ \/ \E q \in Poller : At(q, "accepted")' /\ poller'[q].key = j
                         \/ claim[j].left >= sent'[j] /\ \A q \in Poller : ~Holding(q, j)'
    BY DEF PushesGuarded
  <2>1. CASE j = k
    BY <1>5, <1>7, <2>1
  <2>2. CASE j # k
    <3>1. pushes[j] > 0 /\ j \notin unrecorded /\ sent'[j] = sent[j]
      BY <1>3, <1>7, <2>2
    <3>2. CASE \E q \in Poller : At(q, "accepted") /\ poller[q].key = j
      BY <3>1, <3>2 DEF PushInvariant, PushesGuarded, At
    <3>3. CASE claim[j].left >= sent[j] /\ \A q \in Poller : ~Holding(q, j)
      BY <1>6, <3>1, <3>3 DEF PushInvariant, PushesGuarded
    <3>4. QED
      BY <3>1, <3>2, <3>3 DEF PushInvariant, PushesGuarded
  <2>3. QED
    BY <2>1, <2>2
<1>10. RecordedPushNotRepeated'
  BY <1>1, <1>3, <1>4, <1>7, PushTypes DEF PushInvariant, RecordedPushNotRepeated
<1>11. ClaimsWhole'
  BY DEF PushInvariant, ClaimsWhole
<1>12. ClaimsExplained'
  <2> SUFFICES ASSUME NEW j \in Key, claim[j].owner # Nobody,
                      j \notin pushed' \cup abandoned
               PROVE  \E q \in Poller : Holding(q, j)'
    BY DEF ClaimsExplained
  <2>1. PICK q \in Poller : Holding(q, j)
    BY <1>3 DEF PushInvariant, ClaimsExplained
  <2>2. q # p
    BY <1>3, <2>1 DEF Holding
  <2>3. QED
    BY <2>1, <2>2 DEF Holding
<1>13. ResultsExplained' /\ ReleasesRepeat'
  BY <1>3 DEF PushInvariant, ResultsExplained, ReleasesRepeat, At
<1>14. QED
  BY <1>9, <1>10, <1>11, <1>12, <1>13 DEF PushInvariant

\* A claim is taken where there was none, so nothing that was pushed is still
\* guarded by one.
LEMMA PushClaims ==
  ASSUME PushInvariant, GuardInvariant', NEW p \in Poller, At(p, "checking"),
         claim[poller[p].key] = NoClaim,
         claim' = [claim EXCEPT ![poller[p].key] = [owner |-> p, left |-> poller[p].ttl]],
         UNCHANGED <<sent, pushes, unrecorded, pushed>>,
         abandoned \subseteq abandoned',
         \A q \in Poller : q # p => poller'[q] = poller[q],
         poller'[p].key = poller[p].key,
         \/ At(p, "claimed")'
         \/ /\ At(p, "reporting")' /\ poller'[p].result = "retryable"
            /\ poller[p].key \in abandoned'
  PROVE  PushInvariant'
<1>0. PICK k \in Key : k = poller[p].key
  BY PollerFields DEF PushInvariant, GuardInvariant, Release, Promote, At, Delivering
<1> USE <1>0
<1>1. TypeOK /\ k \in Key /\ p # Nobody
  BY PollerFields, Numbers DEF PushInvariant, GuardInvariant, At, Delivering
<1>2. /\ claim'[k].owner = p
      /\ \A j \in Key : j # k => claim'[j] = claim[j]
  BY <1>1 DEF TypeOK
<1>3. pushes[k] > 0 => k \in unrecorded
  BY <1>1 DEF PushInvariant, PushesGuarded, NoClaim
<1>4. \A q \in Poller, j \in Key : j # k => (Holding(q, j)' <=> Holding(q, j))
  BY DEF Holding, At
<1>5. Holding(p, k)' \/ k \in abandoned'
  BY DEF Holding, At
<1>6. \A q \in Poller : At(q, "accepted")' <=> At(q, "accepted")
  BY DEF At
<1>7. PushesGuarded'
  <2> SUFFICES ASSUME NEW j \in Key, pushes[j] > 0, j \notin unrecorded
               PROVE  /\ claim'[j].owner # Nobody
                      /\ \/ \E q \in Poller : At(q, "accepted")' /\ poller'[q].key = j
                         \/ claim'[j].left >= sent[j] /\ \A q \in Poller : ~Holding(q, j)'
    BY DEF PushesGuarded
  <2>1. j # k /\ claim'[j] = claim[j]
    BY <1>2, <1>3
  <2>2. CASE \E q \in Poller : At(q, "accepted") /\ poller[q].key = j
    BY <1>6, <2>1, <2>2 DEF PushInvariant, PushesGuarded, At
  <2>3. CASE claim[j].left >= sent[j] /\ \A q \in Poller : ~Holding(q, j)
    BY <1>4, <2>1, <2>3 DEF PushInvariant, PushesGuarded
  <2>4. QED
    BY <2>2, <2>3 DEF PushInvariant, PushesGuarded
<1>8. RecordedPushNotRepeated'
  BY DEF PushInvariant, RecordedPushNotRepeated
<1>9. ClaimsWhole'
  BY <1>1, <1>2 DEF PushInvariant, ClaimsWhole
<1>10. ClaimsExplained'
  <2> SUFFICES ASSUME NEW j \in Key, claim'[j].owner # Nobody,
                      j \notin pushed \cup abandoned'
               PROVE  \E q \in Poller : Holding(q, j)'
    BY DEF ClaimsExplained
  <2>1. CASE j = k
    BY <1>5, <2>1
  <2>2. CASE j # k
    BY <1>2, <1>4, <2>2 DEF PushInvariant, ClaimsExplained
  <2>3. QED
    BY <2>1, <2>2
<1>11. ResultsExplained' /\ ReleasesRepeat'
  BY DEF PushInvariant, ResultsExplained, ReleasesRepeat, At
<1>12. QED
  BY <1>7, <1>8, <1>9, <1>10, <1>11 DEF PushInvariant

\* The claim of an accepted push is promoted to the whole window.
LEMMA PushPromotes ==
  ASSUME PushInvariant, GuardInvariant', NEW p \in Poller, Promote(p)
  PROVE  PushInvariant'
<1>0. PICK k \in Key : k = poller[p].key
  BY PollerFields DEF PushInvariant, GuardInvariant, Release, Promote, At, Delivering
<1> USE <1>0
<1>1. TypeOK /\ k \in Key /\ poller[p].ttl \in Nat
  BY PollerFields, GuardTypes DEF PushInvariant, GuardInvariant, Promote, At, Delivering
<1>2. Holding(p, k) /\ WorksOn(p, k) /\ claim[k].owner = p /\ p # Nobody
  BY <1>1, Numbers
     DEF PushInvariant, GuardInvariant, ClaimsHeld, Promote, Holding, WorksOn, Delivering, At
<1>3. /\ claim' = [claim EXCEPT ![k].left = PromotedTTL(poller[p].ttl)]
      /\ poller' = [poller EXCEPT ![p] = Reporting(p, "delivered")]
      /\ UNCHANGED <<sent, pushes, unrecorded, abandoned, pushed>>
  BY <1>2 DEF Promote, Owns
<1>4. /\ claim'[k].owner = p /\ claim'[k].left = PromotedTTL(poller[p].ttl)
      /\ \A j \in Key : j # k => claim'[j] = claim[j]
  BY <1>1, <1>2, <1>3 DEF TypeOK
<1>5. PromotedTTL(poller[p].ttl) >= sent[k]
  BY <1>1, PushTypes, Numbers DEF PromotedTTL
<1>6. /\ poller'[p].step = "reporting" /\ poller'[p].key = k
      /\ \A q \in Poller : q # p => poller'[q] = poller[q]
  BY <1>1, <1>3 DEF TypeOK, Reporting
<1>7. k \in pushed
  BY DEF Promote, PushInvariant, ResultsExplained
<1>8. \A q \in Poller, j \in Key : Holding(q, j)' <=> Holding(q, j) /\ q # p
  BY <1>6 DEF Holding
<1>9. \A q \in Poller : ~Holding(q, k)'
  BY <1>1, <1>2, <1>8, OneAttempt DEF PushInvariant, Holding, WorksOn, Delivering
<1>10. PushesGuarded'
  <2> SUFFICES ASSUME NEW j \in Key, pushes[j] > 0, j \notin unrecorded
               PROVE  /\ claim'[j].owner # Nobody
                      /\ \/ \E q \in Poller : At(q, "accepted")' /\ poller'[q].key = j
                         \/ claim'[j].left >= sent[j] /\ \A q \in Poller : ~Holding(q, j)'
    BY <1>3 DEF PushesGuarded
  <2>1. CASE j = k
    BY <1>2, <1>4, <1>5, <1>9, <2>1
  <2>2. CASE j # k
    <3>1. CASE \E q \in Poller : At(q, "accepted") /\ poller[q].key = j
      BY <1>4, <1>6, <2>2, <3>1 DEF PushInvariant, PushesGuarded, At
    <3>2. CASE claim[j].left >= sent[j] /\ \A q \in Poller : ~Holding(q, j)
      BY <1>4, <1>8, <2>2, <3>2 DEF PushInvariant, PushesGuarded
    <3>3. QED
      BY <3>1, <3>2 DEF PushInvariant, PushesGuarded
  <2>3. QED
    BY <2>1, <2>2
<1>11. RecordedPushNotRepeated'
  BY <1>3 DEF PushInvariant, RecordedPushNotRepeated
<1>12. ClaimsWhole'
  BY <1>2, <1>4 DEF PushInvariant, ClaimsWhole
<1>13. ClaimsExplained'
  <2> SUFFICES ASSUME NEW j \in Key, claim'[j].owner # Nobody,
                      j \notin pushed \cup abandoned
               PROVE  \E q \in Poller : Holding(q, j)'
    BY <1>3 DEF ClaimsExplained
  <2>1. j # k
    BY <1>7
  <2>2. PICK q \in Poller : Holding(q, j)
    BY <1>4, <2>1 DEF PushInvariant, ClaimsExplained
  <2>3. q # p
    BY <1>2, <2>1, <2>2 DEF Holding
  <2>4. QED
    BY <1>8, <2>2, <2>3
<1>14. ResultsExplained' /\ ReleasesRepeat'
  BY <1>3, <1>6, <1>7 DEF PushInvariant, ResultsExplained, ReleasesRepeat, At
<1>15. QED
  BY <1>10, <1>11, <1>12, <1>13, <1>14 DEF PushInvariant

\* A claim that is released guards no push.
LEMMA PushReleases ==
  ASSUME PushInvariant, GuardInvariant', NEW p \in Poller, Release(p)
  PROVE  PushInvariant'
<1>0. PICK k \in Key : k = poller[p].key
  BY PollerFields DEF PushInvariant, GuardInvariant, Release, Promote, At, Delivering
<1> USE <1>0
<1>1. TypeOK /\ k \in Key
  BY PollerFields DEF PushInvariant, GuardInvariant, Release, At, Delivering
<1>2. Holding(p, k) /\ claim[k].owner = p /\ At(p, "releasing")
  BY <1>1 DEF PushInvariant, GuardInvariant, ClaimsHeld, Release, Holding, At
<1>3. /\ claim' = [claim EXCEPT ![k] = NoClaim]
      /\ poller' = [poller EXCEPT ![p] = Reporting(p, poller[p].result)]
      /\ UNCHANGED <<sent, pushes, unrecorded, abandoned, pushed>>
  BY <1>2 DEF Release, Owns, Released, history
<1>4. /\ claim'[k] = NoClaim /\ NoClaim.owner = Nobody
      /\ \A j \in Key : j # k => claim'[j] = claim[j]
  BY <1>1, <1>3 DEF TypeOK, NoClaim
<1>5. /\ poller'[p].step = "reporting" /\ poller'[p].key = k
      /\ poller'[p].result = poller[p].result
      /\ \A q \in Poller : q # p => poller'[q] = poller[q]
  BY <1>1, <1>3 DEF TypeOK, Reporting
<1>6. pushes[k] > 0 => k \in unrecorded
  BY <1>1, <1>2, UnpushedYet DEF At
<1>7. \A q \in Poller, j \in Key : Holding(q, j)' <=> Holding(q, j) /\ q # p
  BY <1>5 DEF Holding
<1>8. PushesGuarded'
  <2> SUFFICES ASSUME NEW j \in Key, pushes[j] > 0, j \notin unrecorded
               PROVE  /\ claim'[j].owner # Nobody
                      /\ \/ \E q \in Poller : At(q, "accepted")' /\ poller'[q].key = j
                         \/ claim'[j].left >= sent[j] /\ \A q \in Poller : ~Holding(q, j)'
    BY <1>3 DEF PushesGuarded
  <2>1. j # k /\ claim'[j] = claim[j]
    BY <1>4, <1>6
  <2>2. CASE \E q \in Poller : At(q, "accepted") /\ poller[q].key = j
    BY <1>2, <1>5, <2>1, <2>2 DEF PushInvariant, PushesGuarded, At
  <2>3. CASE claim[j].left >= sent[j] /\ \A q \in Poller : ~Holding(q, j)
    BY <1>7, <2>1, <2>3 DEF PushInvariant, PushesGuarded
  <2>4. QED
    BY <2>2, <2>3 DEF PushInvariant, PushesGuarded
<1>9. RecordedPushNotRepeated'
  BY <1>3 DEF PushInvariant, RecordedPushNotRepeated
<1>10. ClaimsWhole'
  BY <1>4 DEF PushInvariant, ClaimsWhole
<1>11. ClaimsExplained'
  <2> SUFFICES ASSUME NEW j \in Key, claim'[j].owner # Nobody,
                      j \notin pushed \cup abandoned
               PROVE  \E q \in Poller : Holding(q, j)'
    BY <1>3 DEF ClaimsExplained
  <2>1. j # k
    BY <1>4
  <2>2. PICK q \in Poller : Holding(q, j)
    BY <1>4, <2>1 DEF PushInvariant, ClaimsExplained
  <2>3. q # p
    BY <1>2, <2>1, <2>2 DEF Holding
  <2>4. QED
    BY <1>7, <2>2, <2>3
<1>12. ResultsExplained' /\ ReleasesRepeat'
  <2>1. poller[p].result \notin {"delivered", "already"}
    BY <1>2 DEF PushInvariant, ReleasesRepeat
  <2>2. QED
    BY <1>3, <1>5, <2>1 DEF PushInvariant, ResultsExplained, ReleasesRepeat, At
<1>13. QED
  BY <1>8, <1>9, <1>10, <1>11, <1>12 DEF PushInvariant

\* Leases, windows and claims shorten together: a promoted claim outlasts its
\* window.
LEMMA PushTick ==
  ASSUME PushInvariant, GuardInvariant', Tick
  PROVE  PushInvariant'
<1>1. TypeOK
  BY DEF PushInvariant, GuardInvariant
<1>2. \A k \in Key :
        /\ sent'[k] = Shorter(sent[k])
        /\ pushes'[k] = IF sent[k] <= 1 THEN 0 ELSE pushes[k]
        /\ claim[k].left <= 1 => claim'[k] = NoClaim
        /\ claim[k].left > 1 => /\ claim'[k].left = claim[k].left - 1
                                /\ claim'[k].owner = claim[k].owner
        /\ k \in unrecorded' <=> k \in unrecorded /\ sent[k] > 1
  BY <1>1 DEF Tick, TypeOK
<1>3. abandoned' = abandoned /\ pushed' = pushed
  BY DEF Tick
<1>4. \A p \in Poller : poller'[p] = TickPoller(p)
  BY DEF Tick
<1>5. \A p \in Poller : /\ poller'[p].step = poller[p].step
                        /\ Delivering(p) \/ At(p, "reporting") => poller'[p].key = poller[p].key
                        /\ At(p, "reporting") => poller'[p].result = poller[p].result
  BY <1>1, <1>4, TickPollerFields
<1>6. \A p \in Poller : At(p, "releasing") => poller'[p].result = poller[p].result
  <2> SUFFICES ASSUME NEW p \in Poller, At(p, "releasing")
               PROVE  poller'[p].result = poller[p].result
    OBVIOUS
  <2> DEFINE n == Shorter(poller[p].left)
  <2>1. poller'[p] = [poller[p] EXCEPT !.left = n]
    BY <1>4 DEF TickPoller, At, Idle
  <2>2. poller[p] \in [step : {"releasing"}, left : Remaining, ttl : Remaining,
                       keys : SUBSET Key, key : Key, result : Result]
    BY <1>1 DEF TypeOK, PollerState, At, Idle
  <2> HIDE DEF n
  <2>3. QED
    BY <2>1, <2>2
<1>7. \A p \in Poller, k \in Key :
        /\ Holding(p, k)' <=> Holding(p, k)
        /\ (At(p, "accepted") /\ poller[p].key = k)' <=> At(p, "accepted") /\ poller[p].key = k
  BY <1>5 DEF Holding, Delivering, At
<1>8. \A k \in Key : claim'[k].owner # Nobody => claim[k].owner # Nobody
  BY <1>1, <1>2, PushTypes DEF NoClaim
<1>9. PushesGuarded'
  <2> SUFFICES ASSUME NEW k \in Key, pushes'[k] > 0, k \notin unrecorded'
               PROVE  /\ claim'[k].owner # Nobody
                      /\ \/ \E p \in Poller : At(p, "accepted")' /\ poller'[p].key = k
                         \/ claim'[k].left >= sent'[k] /\ \A p \in Poller : ~Holding(p, k)'
    BY DEF PushesGuarded
  <2>1. sent[k] > 1 /\ pushes[k] > 0 /\ k \notin unrecorded /\ sent'[k] = sent[k] - 1
    BY <1>1, <1>2, PushTypes DEF Shorter
  <2>2. ASSUME NEW p \in Poller, At(p, "accepted"), poller[p].key = k
        PROVE  claim'[k].owner # Nobody /\ At(p, "accepted")' /\ poller'[p].key = k
    <3>1. Holding(p, k)' /\ At(p, "accepted")' /\ poller'[p].key = k
      BY <1>7, <2>2 DEF Holding, At
    <3>2. QED
      BY <3>1, Numbers DEF GuardInvariant, ClaimsHeld
  <2>3. CASE claim[k].left >= sent[k] /\ \A p \in Poller : ~Holding(p, k)
    <3>1. claim[k].owner # Nobody
      BY <2>1 DEF PushInvariant, PushesGuarded
    <3>2. claim'[k].left = claim[k].left - 1 /\ claim'[k].owner = claim[k].owner
      BY <1>1, <1>2, <2>1, <2>3, PushTypes
    <3>3. claim'[k].left >= sent'[k]
      BY <1>1, <2>1, <2>3, <3>2, PushTypes
    <3>4. QED
      BY <1>7, <2>3, <3>1, <3>2, <3>3
  <2>4. QED
    BY <2>1, <2>2, <2>3 DEF PushInvariant, PushesGuarded
<1>10. RecordedPushNotRepeated'
  BY <1>1, <1>2, PushTypes DEF PushInvariant, RecordedPushNotRepeated
<1>11. ClaimsWhole'
  BY <1>1, <1>2, PushTypes DEF PushInvariant, ClaimsWhole, NoClaim
<1>12. ClaimsExplained'
  BY <1>3, <1>7, <1>8 DEF PushInvariant, ClaimsExplained
<1>13. ResultsExplained' /\ ReleasesRepeat'
  BY <1>3, <1>5, <1>6 DEF PushInvariant, ResultsExplained, ReleasesRepeat, Delivering, At
<1>14. QED
  BY <1>9, <1>10, <1>11, <1>12, <1>13 DEF PushInvariant

\* Deliver and the failures inside it.
LEMMA PushDelivers ==
  ASSUME PushInvariant, GuardInvariant', NEW p \in Poller,
         \/ Deliver(p)
         \/ ClaimUnanswered(p)
         \/ PromoteFails(p)
         \/ ReleaseFails(p)
  PROVE  PushInvariant'
<1>1. TypeOK /\ Delivering(p) /\ poller[p].key \in Key
  BY PollerFields DEF PushInvariant, GuardInvariant, Deliver, RefuseUnclaimed, Claim,
     RefuseClaimed, Send, Accept, Fail, Promote, Release, ClaimUnanswered, PromoteFails,
     ReleaseFails, Delivering, At
<1>2. \A q \in Poller : q # p => poller'[q] = poller[q]
  BY <1>1 DEF Deliver, RefuseUnclaimed, Claim, RefuseClaimed, Send, Accept, Fail, Promote,
     Release, ClaimUnanswered, PromoteFails, ReleaseFails, GoTo, TypeOK
<1>3. ASSUME NEW step \in {"claimed", "sending", "accepted"}, GoTo(p, step),
             poller[p].step \in {"checking", "claimed", "sending"}
      PROVE  poller'[p].step = step /\ poller'[p].key = poller[p].key
  <2> DEFINE s == [poller[p] EXCEPT !.step = step]
  <2>1. poller' = [poller EXCEPT ![p] = s]
    BY <1>3 DEF GoTo
  <2>2. poller[p] \in [step : {"checking", "claimed", "sending", "accepted"}, left : Remaining,
                       ttl : Remaining, keys : SUBSET Key, key : Key]
    BY <1>1, <1>3 DEF TypeOK, PollerState, Idle
  <2>3. s.step = step /\ s.key = poller[p].key
    BY <2>2
  <2> HIDE DEF s
  <2>4. QED
    BY <1>1, <2>1, <2>3 DEF TypeOK
<1>4. ASSUME NEW result \in Result,
             \/ poller' = [poller EXCEPT ![p] = Reporting(p, result)]
             \/ poller' = [poller EXCEPT ![p] = Releasing(p, result)]
      PROVE  /\ poller'[p].step \in {"reporting", "releasing"}
             /\ poller'[p].key = poller[p].key /\ poller'[p].result = result
             /\ poller' = [poller EXCEPT ![p] = Releasing(p, result)] => At(p, "releasing")'
             /\ poller' = [poller EXCEPT ![p] = Reporting(p, result)] => At(p, "reporting")'
  BY <1>1, <1>4 DEF Reporting, Releasing, TypeOK, At
<1>5. CASE RefuseUnclaimed(p)
  <2>1. /\ poller'[p].step = "reporting" /\ poller'[p].result \in {"refused", "retryable"}
        /\ poller[p].step = "checking"
    BY <1>4, <1>5 DEF RefuseUnclaimed, Result, At
  <2>2. QED
    BY <1>2, <1>5, <2>1, PushStep DEF RefuseUnclaimed, history, Holding, At
<1>6. CASE Claim(p)
  <2>1. CASE claim[poller[p].key] = NoClaim
    BY <1>2, <1>3, <1>6, <2>1, PushClaims DEF Claim, history, At
  <2>2. CASE claim[poller[p].key] # NoClaim
    <3>1. /\ poller'[p].step = "reporting" /\ poller'[p].key = poller[p].key
          /\ poller[p].step = "checking" /\ UNCHANGED <<claim, history>>
      BY <1>4, <1>6, <2>2 DEF Claim, Result, At
    <3>2. claim[poller[p].key].owner # Nobody
      BY <1>1, <2>2 DEF PushInvariant, ClaimsWhole
    <3>3. WorksOn(p, poller[p].key)
      BY <1>1 DEF WorksOn
    <3>4. \A q \in Poller : ~Holding(q, poller[p].key)
      BY <1>1, <3>1, <3>3, OneAttempt DEF PushInvariant, Holding, WorksOn, Delivering
    <3>5. poller[p].key \in pushed \cup abandoned
      BY <1>1, <3>2, <3>4 DEF PushInvariant, ClaimsExplained
    <3>6. QED
      BY <1>2, <3>1, <3>5, PushStep DEF history, Holding, At
  <2>3. QED
    BY <2>1, <2>2
<1>7. CASE RefuseClaimed(p)
  <2>1. /\ poller'[p].step = "releasing" /\ poller'[p].key = poller[p].key
        /\ poller'[p].result \in {"refused", "deferred", "retryable"}
        /\ poller[p].step = "claimed"
    BY <1>4, <1>7 DEF RefuseClaimed, Result, At
  <2>2. QED
    BY <1>2, <1>7, <2>1, PushStep DEF RefuseClaimed, history, Holding, At
<1>8. CASE Send(p)
  <2>1. /\ poller'[p].step = "sending" /\ poller'[p].key = poller[p].key
        /\ poller[p].step = "claimed"
    BY <1>3, <1>8 DEF Send, At
  <2>2. QED
    BY <1>2, <1>8, <2>1, PushStep DEF Send, history, Holding, At
<1>9. CASE Accept(p)
  <2>1. /\ poller'[p].step = "accepted" /\ poller'[p].key = poller[p].key
        /\ poller[p].step = "sending"
    BY <1>3, <1>9 DEF Accept, At
  <2>2. QED
    BY <1>2, <1>9, <2>1, PushLands DEF Accept, Holding, At
<1>10. CASE Fail(p)
  <2>1. /\ poller'[p].step = "releasing" /\ poller'[p].key = poller[p].key
        /\ poller'[p].result \in {"refused", "retryable"}
        /\ poller[p].step = "sending" /\ claim' = claim
    BY <1>4, <1>10 DEF Fail, Result, At
  <2>2. CASE UNCHANGED history
    BY <1>2, <2>1, <2>2, PushStep DEF history, Holding, At
  <2>3. CASE /\ poller' = [poller EXCEPT ![p] = Releasing(p, "retryable")]
             /\ Land(poller[p].key)
             /\ unrecorded' = unrecorded \cup {poller[p].key}
             /\ UNCHANGED abandoned
    <3>1. poller'[p].result = "retryable"
      BY <1>4, <2>3 DEF Result
    <3>2. QED
      BY <1>2, <2>1, <2>3, <3>1, PushLands DEF Holding, At
  <2>4. QED
    BY <1>10, <2>2, <2>3 DEF Fail
<1>11. CASE ClaimUnanswered(p)
  <2>1. /\ poller'[p].step = "reporting" /\ poller'[p].key = poller[p].key
        /\ poller'[p].result = "retryable"
    BY <1>4, <1>11 DEF ClaimUnanswered, Result, At
  <2>2. QED
    BY <1>2, <1>11, <2>1, PushClaims DEF ClaimUnanswered, At
<1>12. CASE PromoteFails(p)
  <2>1. /\ poller'[p].step = "reporting" /\ poller'[p].key = poller[p].key
        /\ poller[p].step = "accepted" /\ poller[p].key \in pushed
    BY <1>4, <1>12 DEF PromoteFails, Result, At, PushInvariant, ResultsExplained
  <2>2. QED
    BY <1>2, <1>12, <2>1, PushStep DEF PromoteFails, Holding, At
<1>13. CASE ReleaseFails(p)
  <2>1. poller[p].result \in Result /\ At(p, "releasing")
    BY <1>1, <1>13, PollerFields DEF ReleaseFails
  <2>2. /\ poller'[p].step = "reporting" /\ poller'[p].key = poller[p].key
        /\ poller'[p].result = poller[p].result
    BY <1>4, <1>13, <2>1 DEF ReleaseFails, At
  <2>3. QED
    BY <1>2, <1>13, <2>1, <2>2, PushStep
       DEF ReleaseFails, Holding, At, PushInvariant, ReleasesRepeat
<1>14. QED
  BY <1>5, <1>6, <1>7, <1>8, <1>9, <1>10, <1>11, <1>12, <1>13, PushPromotes, PushReleases
     DEF Deliver

\* An attempt that is cut off leaves its claim behind, or a push on record.
LEMMA PushCutOff ==
  ASSUME PushInvariant, GuardInvariant', NEW p \in Poller, CutOff(p), claim' = claim,
         poller' = [poller EXCEPT ![p] = Idle]
  PROVE  PushInvariant'
<1>1. /\ poller'[p].step = "idle" /\ \A q \in Poller : q # p => poller'[q] = poller[q]
      /\ poller[p].step \in {"claimed", "sending", "releasing", "accepted"}
           => poller[p].key \in Key
  BY PollerFields DEF PushInvariant, GuardInvariant, TypeOK, Idle, Delivering
<1>2. CASE At(p, "sending") /\ Land(poller[p].key) /\ UNCHANGED abandoned
           /\ unrecorded' = unrecorded \cup {poller[p].key}
  BY <1>1, <1>2, PushLands DEF Holding, At
<1>3. CASE ~(At(p, "sending") /\ Land(poller[p].key) /\ UNCHANGED abandoned
             /\ unrecorded' = unrecorded \cup {poller[p].key})
  BY <1>1, <1>3, PushStep
     DEF CutOff, history, Holding, At, PushInvariant, ResultsExplained
<1>4. QED
  BY <1>2, <1>3

LEMMA PushNext == PushInvariant /\ [Next]_campaignVars => PushInvariant'
<1> SUFFICES ASSUME PushInvariant, [Next]_campaignVars
             PROVE  PushInvariant'
  OBVIOUS
<1>1. TypeOK /\ GuardInvariant'
  BY GuardNext DEF PushInvariant, GuardInvariant
<1>2. ASSUME NEW p \in Poller, PollerStep(p) \/ Disturb(p)
      PROVE  PushInvariant'
  <2>1. CASE Poll(p) \/ EndBatch(p) \/ Offer(p) \/ PollFails(p) \/ (\E k \in Key : Begin(p, k))
             \/ Report(p) \/ ReportLost(p)
    <3>1. /\ poller'[p].step \in {"idle", "polling", "batch", "checking"}
          /\ poller[p].step \in {"idle", "polling", "batch", "reporting"}
          /\ \A q \in Poller : q # p => poller'[q] = poller[q]
          /\ UNCHANGED <<claim, history>>
      BY <1>1, <2>1 DEF Poll, EndBatch, Offer, PollFails, Begin, Report, ReportLost, TypeOK,
         Idle, At
    <3>2. QED
      BY <1>1, <3>1, PushStep DEF history, Holding, At
  <2>2. CASE Deliver(p) \/ ClaimUnanswered(p) \/ PromoteFails(p) \/ ReleaseFails(p)
    BY <1>1, <2>2, PushDelivers
  <2>3. CASE TimeOut(p) \/ Crash(p)
    BY <1>1, <2>3, PushCutOff DEF TimeOut, Crash
  <2>4. QED
    BY <1>2, <2>1, <2>2, <2>3 DEF PollerStep, Disturb
<1>3. CASE Tick
  BY <1>1, <1>3, PushTick
<1>4. CASE UNCHANGED campaignVars
  BY <1>1, <1>4 DEF campaignVars, PushInvariant, PushesGuarded, RecordedPushNotRepeated,
     ClaimsWhole, ClaimsExplained, ResultsExplained, ReleasesRepeat, At, Holding
<1>5. QED
  BY <1>2, <1>3, <1>4 DEF Next

\* Within the deduplication window a row is pushed a second time only when the
\* first push could not be put on record.
THEOREM PushesAreRecorded == Spec => []RecordedPushNotRepeated
<1>1. PushInvariant => RecordedPushNotRepeated
  BY DEF PushInvariant
<1>2. QED
  BY <1>1, PushInit, PushNext, PTL DEF Spec

\* No row is settled as delivered unless it was pushed, or an attempt that
\* claimed it was cut off before it could give its claim back.
THEOREM SettledRowsWerePushed == Spec => DeliveredMeansPushed
<1> DEFINE Settled ==
      \A k \in Key : row'[k].state \in {"delivered", "already"} /\ row[k].state = "leased"
                     => k \in pushed \cup abandoned
<1>1. PushInvariant /\ [Next]_campaignVars => [Settled]_campaignVars
  <2> SUFFICES ASSUME PushInvariant, Next, NEW k \in Key,
                      row'[k].state \in {"delivered", "already"}, row[k].state = "leased"
               PROVE  k \in pushed \cup abandoned
    OBVIOUS
  <2>1. TypeOK
    BY DEF PushInvariant, GuardInvariant
  <2>2. PICK p \in Poller : Report(p)
    <3>1. Tick => row'[k].state = row[k].state
      <4> DEFINE n == Shorter(row[k].left)
      <4>1. Tick => row'[k] = [row[k] EXCEPT !.left = n]
        BY DEF Tick
      <4>2. row[k] \in [state : {"pending", "leased", "refused", "already", "delivered"},
                        lease : Poller \cup {Nobody}, left : Remaining]
        BY <2>1 DEF TypeOK
      <4> HIDE DEF n
      <4>3. QED
        BY <4>1, <4>2
    <3>2. ASSUME NEW p \in Poller, PollerStep(p) \/ Disturb(p), ~Report(p)
          PROVE  row' = row \/ row' = Leased(p)
      BY <3>2 DEF PollerStep, Disturb, Poll, Offer, Begin, EndBatch, Deliver, RefuseUnclaimed,
         Claim, RefuseClaimed, Send, Accept, Fail, Promote, Release, PollFails,
         ClaimUnanswered, PromoteFails, ReleaseFails, ReportLost, TimeOut, Crash, Leased
    <3>3. \A p \in Poller : row' # row /\ row' # Leased(p)
      BY <2>1 DEF Leased, TypeOK
    <3>4. PICK p \in Poller : PollerStep(p) \/ Disturb(p)
      BY <3>1 DEF Next
    <3>5. QED
      BY <3>2, <3>3, <3>4
  <2>3. poller[p].key \in Key /\ At(p, "reporting")
    BY <2>1, <2>2, PollerFields DEF Report
  <2>4. k = poller[p].key /\ row'[k].state = RowAfter(poller[p].result)
    BY <2>1, <2>2, <2>3 DEF Report, TypeOK
  <2>5. poller[p].result \in {"delivered", "already"}
    BY <2>4 DEF RowAfter, Repeats
  <2>6. QED
    BY <2>3, <2>4, <2>5 DEF PushInvariant, ResultsExplained
<1>2. QED
  BY <1>1, PushInit, PushNext, PTL DEF Spec, DeliveredMeansPushed
-----------------------------------------------------------------------------
(* PushProvider: what a send reports                                       *)

\* What a send can be: waiting, under way for some time, or over with a result.
Delay == RetryAfter \cup {0, DefaultRetryAfter}
Verdict ==
  [error : {"none", "RetryableInternal", "TokenNotRegistered", "InvalidRequest",
            "Unauthorized", "Unknown", "InternalRequest", "InternalResponse"},
   delay : Delay]
UnderwayState ==
  [step : {"credential", "request", "unheard"}, time : 0..OperationTimeout, request : Int]
SendState == {Waiting} \cup UnderwayState \cup [step : {"sent"}, result : Verdict]

\* A batch is what is being sent; until a request was made, and as long as the
\* request is unanswered, the push has not reached the device.
SendsAreTyped ==
  /\ send \in [Device -> SendState]
  /\ batch \in SUBSET Notification /\ (batch # {} => \E push \in Notification : batch = {push})
  /\ discarded \in SUBSET Device /\ landed \in SUBSET Device /\ relayed \in SUBSET Device

NotLandedYet ==
  /\ batch = {} => \A d \in Device : send[d].step \in {"waiting", "sent"}
  /\ batch # {} =>
       \A d \in Device :
         send[d].step \in {"waiting", "credential", "request"} => d \notin landed

VerdictInvariant == SendsAreTyped /\ NotLandedYet /\ VerdictsAreTrue

\* Only a status of 2xx is a success; only one of 5xx, or 429, is retryable; and
\* without a code or a text nothing shows that a token is dead.
LEMMA ResultIsVerdict ==
  ASSUME NEW answer, answer.retryAfter \in RetryAfter \cup {None}
  PROVE  ResultOf(answer) \in Verdict
<1>1. DelayAsked(answer) \in Delay
  BY DEF DelayAsked, Delay
<1>2. \A error \in {"none", "TokenNotRegistered", "InvalidRequest", "Unauthorized", "Unknown"} :
        Failure(error) \in Verdict
  BY DEF Failure, Verdict, Delay
<1>3. Classify(answer) \in Verdict
  <2>1. CASE ServerError(answer) \/ answer.status = 429
    BY <1>1, <2>1 DEF Classify, Verdict
  <2>2. CASE ~(ServerError(answer) \/ answer.status = 429)
    BY <1>2, <2>2 DEF Classify
  <2>3. QED
    BY <2>1, <2>2
<1>4. QED
  BY <1>2, <1>3 DEF ResultOf

LEMMA DeadOnEvidence ==
  ASSUME NEW answer, ResultOf(answer).error = "TokenNotRegistered"
  PROVE  ShowsDeadToken(answer)
<1>1. CASE ServerError(answer) \/ answer.status = 429
  BY <1>1 DEF ResultOf, Classify, Failure
<1>2. CASE ~(ServerError(answer) \/ answer.status = 429)
  BY <1>2 DEF ResultOf, Classify, Failure
<1>3. QED
  BY <1>1, <1>2

LEMMA RetryableMeansBusy ==
  ASSUME NEW answer, ResultOf(answer).error = "RetryableInternal"
  PROVE  ~Succeeds(answer)
BY DEF ResultOf, Failure
LEMMA HeardAsSaid ==
  ASSUME NEW answer \in {Acceptance} \cup DeadToken \cup Rejection \cup Backpressure
                          \cup Interference,
         NEW heard \in Heard(answer)
  PROVE  /\ heard.status = answer.status
         /\ heard.retryAfter \in RetryAfter \cup {None}
         /\ answer \in {Acceptance} \cup Rejection \cup Backpressure \cup Interference =>
              ~ShowsDeadToken(heard)
<1> DEFINE Codes == {"UNREGISTERED", "SENDER_ID_MISMATCH", None}
           Texts == {"invalidToken", "serviceNotRegistered", None}
           Answers == [status : Nat, code : Codes, text : Texts,
                       retryAfter : RetryAfter \cup {None}]
<1>1. /\ answer \in Answers
      /\ answer \in {Acceptance} \cup Rejection \cup Backpressure \cup Interference =>
           /\ answer.code \in {"SENDER_ID_MISMATCH", None}
           /\ answer.text \in {"serviceNotRegistered", None}
  <2>1. CASE /\ answer \in DeadToken
             /\ answer \notin {Acceptance} \cup Rejection \cup Backpressure \cup Interference
    BY <2>1 DEF DeadToken, Says
  <2>2. CASE answer \in {Acceptance} \cup Rejection
    BY <2>2 DEF Acceptance, Rejection, Says
  <2>3. CASE answer \in Interference
    BY <2>3 DEF Interference, Says
  <2>4. CASE answer \in Backpressure
    <3>1. PICK status \in {429, 503}, delay \in RetryAfter \cup {None} :
            answer = [Says(status, None, None) EXCEPT !.retryAfter = delay]
      BY <2>4 DEF Backpressure
    <3>2. answer = [status |-> status, code |-> None, text |-> None, retryAfter |-> delay]
      BY <3>1 DEF Says
    <3>3. QED
      BY <3>2
  <2>5. QED
    BY <2>1, <2>2, <2>3, <2>4
<1>2. CASE heard = answer
  BY <1>1, <1>2, ProviderAssumption DEF ShowsDeadToken
<1>3. CASE heard = [answer EXCEPT !.code = None, !.text = None]
  <2>1. /\ heard.status = answer.status /\ heard.retryAfter = answer.retryAfter
        /\ heard.code = None /\ heard.text = None
    BY <1>1, <1>3
  <2>2. QED
    BY <1>1, <2>1, ProviderAssumption DEF ShowsDeadToken
<1>4. QED
  BY <1>2, <1>3 DEF Heard

-----------------------------------------------------------------------------
(* Steps of a send                                                         *)

LEMMA VerdictsAtFirst == ProviderInit => VerdictInvariant
BY DEF ProviderInit, VerdictInvariant, SendsAreTyped, NotLandedYet, VerdictsAreTrue,
       SendState, Waiting, Sent

\* A send goes on with nothing landed that was not requested.
LEMMA SendGoesOn ==
  ASSUME VerdictInvariant, NEW d \in Device, NEW s \in UnderwayState,
         batch # {}, UNCHANGED <<batch, discarded, relayed>>,
         send' = [send EXCEPT ![d] = s],
         landed' = landed \/ (landed' = landed \cup {d} /\ s.step = "unheard"),
         s.step # "unheard" => d \notin landed
  PROVE  VerdictInvariant'
<1>1. SendsAreTyped'
  BY DEF VerdictInvariant, SendsAreTyped, SendState
<1>2. s.step \in {"credential", "request", "unheard"}
  BY DEF UnderwayState
<1>3. \A e \in Device : e # d => send'[e] = send[e]
  BY DEF VerdictInvariant, SendsAreTyped
<1>4. send'[d] = s
  BY DEF VerdictInvariant, SendsAreTyped
<1>5. NotLandedYet'
  BY <1>2, <1>3, <1>4 DEF VerdictInvariant, NotLandedYet
<1>6. VerdictsAreTrue'
  BY <1>2, <1>3, <1>4 DEF VerdictInvariant, VerdictsAreTrue, Sent
<1>7. QED
  BY <1>1, <1>5, <1>6 DEF VerdictInvariant

\* A send that ends tells the truth if its own result does.
LEMMA SendEnds ==
  ASSUME VerdictInvariant, NEW d \in Device, NEW result \in Verdict,
         Finish(d, result), UNCHANGED <<batch, discarded>>,
         landed' = landed \/ landed' = landed \cup {d},
         relayed' = relayed \/ relayed' = relayed \cup {d},
         result.error = "TokenNotRegistered" => d \in discarded,
         result.error = "RetryableInternal" /\ d \notin relayed' => d \notin landed'
  PROVE  VerdictInvariant'
<1> DEFINE s == [step |-> "sent", result |-> result]
<1>1. s \in [step : {"sent"}, result : Verdict] /\ s.step = "sent" /\ s.result = result
  OBVIOUS
<1>2. send' = [send EXCEPT ![d] = s]
  BY DEF Finish
<1> HIDE DEF s
<1>3. SendsAreTyped'
  BY <1>1, <1>2 DEF VerdictInvariant, SendsAreTyped, SendState
<1>4. /\ send'[d] = s
      /\ \A e \in Device : e # d => send'[e] = send[e]
  BY <1>2 DEF VerdictInvariant, SendsAreTyped
<1>5. NotLandedYet'
  BY <1>1, <1>4 DEF VerdictInvariant, NotLandedYet
<1>6. VerdictsAreTrue'
  <2> SUFFICES ASSUME NEW e \in Device, Sent(e)'
               PROVE  /\ send'[e].result.error = "TokenNotRegistered" => e \in discarded'
                      /\ send'[e].result.error = "RetryableInternal" /\ e \notin relayed'
                           => e \notin landed'
    BY DEF VerdictsAreTrue
  <2>1. CASE e = d
    BY <1>1, <1>4, <2>1
  <2>2. CASE e # d
    BY <1>4, <2>2 DEF VerdictInvariant, VerdictsAreTrue, Sent
  <2>3. QED
    BY <2>1, <2>2
<1>7. QED
  BY <1>3, <1>5, <1>6 DEF VerdictInvariant
LEMMA UnderwaySends ==
  ASSUME VerdictInvariant, NEW d \in Device,
         send[d].step \in {"credential", "request", "unheard"}
  PROVE  send[d] \in UnderwayState /\ batch # {}
BY DEF VerdictInvariant, SendsAreTyped, SendState, NotLandedYet, Waiting, UnderwayState

LEMMA VerdictsThroughSend ==
  ASSUME VerdictInvariant, NEW d \in Device, SendStep(d)
  PROVE  VerdictInvariant'
<1>1. CASE StartSend(d)
  <2>1. [step |-> "credential", time |-> 0, request |-> 0] \in UnderwayState
    BY ProviderAssumption DEF UnderwayState
  <2>2. d \notin landed
    BY <1>1 DEF StartSend, VerdictInvariant, NotLandedYet, Waiting
  <2>3. QED
    BY <1>1, <2>1, <2>2, SendGoesOn DEF StartSend
<1>2. CASE GetCredential(d)
  <2>1. send[d] \in UnderwayState /\ batch # {} /\ d \notin landed
    BY <1>2, UnderwaySends DEF GetCredential, VerdictInvariant, NotLandedYet
  <2>2. CASE send' = [send EXCEPT ![d].step = "request"]
    <3>1. [send[d] EXCEPT !.step = "request"] \in UnderwayState
      BY <2>1 DEF UnderwayState
    <3>2. send' = [send EXCEPT ![d] = [send[d] EXCEPT !.step = "request"]]
      BY <2>2
    <3>3. QED
      BY <1>2, <2>1, <3>1, <3>2, SendGoesOn DEF GetCredential
  <2>3. CASE Finish(d, Failure("Unauthorized"))
    <3>1. Failure("Unauthorized") \in Verdict /\ Failure("Unauthorized").error = "Unauthorized"
      BY DEF Failure, Verdict, Delay
    <3>2. QED
      BY <1>2, <2>3, <3>1, SendEnds DEF GetCredential
  <2>4. QED
    BY <1>2, <2>2, <2>3 DEF GetCredential
<1>3. CASE Answered(d)
  <2>1. /\ send[d] \in UnderwayState /\ batch # {} /\ d \notin landed
        /\ UNCHANGED <<batch, discarded, relayed>>
    BY <1>3, UnderwaySends DEF Answered, VerdictInvariant, NotLandedYet
  <2>2. PICK answer \in {Acceptance} \cup DeadToken \cup Rejection \cup Backpressure :
          /\ d \notin discarded => answer \in {Acceptance} \cup Rejection \cup Backpressure
          /\ landed' = IF Succeeds(answer) THEN landed \cup {d} ELSE landed
          /\ \/ \E heard \in Heard(answer) : Finish(d, ResultOf(heard))
             \/ send' = [send EXCEPT ![d].step = "unheard"]
    BY <1>3 DEF Answered
  <2>3. CASE send' = [send EXCEPT ![d].step = "unheard"]
    <3>1. [send[d] EXCEPT !.step = "unheard"] \in UnderwayState
      BY <2>1 DEF UnderwayState
    <3>2. [send[d] EXCEPT !.step = "unheard"].step = "unheard"
      BY <2>1 DEF UnderwayState
    <3>3. send' = [send EXCEPT ![d] = [send[d] EXCEPT !.step = "unheard"]]
      BY <2>3
    <3>4. QED
      BY <2>1, <2>2, <3>1, <3>2, <3>3, SendGoesOn
  <2>4. ASSUME NEW heard \in Heard(answer), Finish(d, ResultOf(heard))
        PROVE  VerdictInvariant'
    <3>1. /\ heard.status = answer.status
          /\ heard.retryAfter \in RetryAfter \cup {None}
          /\ answer \in {Acceptance} \cup Rejection \cup Backpressure => ~ShowsDeadToken(heard)
      BY HeardAsSaid
    <3>2. ResultOf(heard) \in Verdict
      BY <3>1, ResultIsVerdict
    <3>3. ResultOf(heard).error = "TokenNotRegistered" => d \in discarded
      BY <2>2, <3>1, DeadOnEvidence
    <3>4. ResultOf(heard).error = "RetryableInternal" => d \notin landed'
      BY <2>1, <2>2, <3>1, RetryableMeansBusy DEF Succeeds
    <3>5. QED
      BY <2>1, <2>2, <2>4, <3>2, <3>3, <3>4, SendEnds
  <2>5. QED
    BY <2>2, <2>3, <2>4
<1>4. CASE Interfere(d)
  <2>1. PICK answer \in Interference : \E heard \in Heard(answer) : Finish(d, ResultOf(heard))
    BY <1>4 DEF Interfere
  <2>2. PICK heard \in Heard(answer) : Finish(d, ResultOf(heard))
    BY <2>1
  <2>3. heard.retryAfter \in RetryAfter \cup {None} /\ ~ShowsDeadToken(heard)
    BY HeardAsSaid
  <2>4. ResultOf(heard) \in Verdict /\ ResultOf(heard).error # "TokenNotRegistered"
    BY <2>3, ResultIsVerdict, DeadOnEvidence
  <2>5. d \in relayed' /\ relayed' = relayed \cup {d} /\ UNCHANGED <<batch, discarded>>
    BY <1>4 DEF Interfere
  <2>6. landed' = landed \/ landed' = landed \cup {d}
    BY <1>4 DEF Interfere
  <2>7. QED
    BY <2>2, <2>4, <2>5, <2>6, SendEnds
<1>5. CASE Break(d) \/ TimeOutSend(d) \/ Panic(d)
  <2>1. PICK error \in {"InternalRequest", "InternalResponse"} :
          /\ Finish(d, Failure(error))
          /\ UNCHANGED <<batch, discarded, landed, relayed>>
    BY <1>5 DEF Break, TimeOutSend, Panic, Unanswered
  <2>2. Failure(error) \in Verdict /\ Failure(error).error = error
    BY DEF Failure, Verdict, Delay
  <2>3. QED
    BY <2>1, <2>2, SendEnds
<1>6. QED
  BY <1>1, <1>2, <1>3, <1>4, <1>5 DEF SendStep

LEMMA VerdictsThroughStep ==
  ASSUME VerdictInvariant, [ProviderNext]_providerVars
  PROVE  VerdictInvariant'
<1>1. CASE StartBatch
  <2>1. send' = [d \in Device |-> Waiting] /\ landed' = {}
    BY <1>1 DEF StartBatch
  <2>2. \A d \in Device : send'[d].step = "waiting"
    BY <2>1 DEF Waiting
  <2>3. SendsAreTyped'
    BY <1>1, <2>1 DEF StartBatch, VerdictInvariant, SendsAreTyped, SendState
  <2>4. NotLandedYet' /\ VerdictsAreTrue'
    BY <2>1, <2>2 DEF NotLandedYet, VerdictsAreTrue, Sent
  <2>5. QED
    BY <2>3, <2>4 DEF VerdictInvariant
<1>2. ASSUME NEW d \in Device, SendStep(d)
      PROVE  VerdictInvariant'
  BY <1>2, VerdictsThroughSend
<1>3. ASSUME NEW d \in Device, Discard(d)
      PROVE  VerdictInvariant'
  BY <1>3 DEF Discard, VerdictInvariant, SendsAreTyped, NotLandedYet, VerdictsAreTrue, Sent
<1>4. CASE TakeResults
  <2>1. \A d \in Device : send'[d].step = "sent"
    BY <1>4 DEF TakeResults, Sent
  <2>2. QED
    BY <1>4, <2>1
       DEF TakeResults, VerdictInvariant, SendsAreTyped, NotLandedYet, VerdictsAreTrue, Sent
<1>5. CASE DropBatch
  <2>1. \A d \in Device : send'[d].step = "waiting"
    BY <1>5 DEF DropBatch, Waiting
  <2>2. SendsAreTyped'
    BY <1>5 DEF DropBatch, VerdictInvariant, SendsAreTyped, SendState
  <2>3. NotLandedYet' /\ VerdictsAreTrue'
    BY <1>5, <2>1 DEF DropBatch, NotLandedYet, VerdictsAreTrue, Sent
  <2>4. QED
    BY <2>2, <2>3 DEF VerdictInvariant
<1>6. CASE Elapse
  <2>1. ASSUME NEW d \in Device
        PROVE  /\ send'[d] \in SendState /\ send'[d].step = send[d].step
               /\ Sent(d) => send'[d] = send[d]
    <3>1. CASE d \notin Underway
      BY <1>6, <3>1 DEF Elapse, VerdictInvariant, SendsAreTyped
    <3>2. CASE d \in Underway
      <4>1. /\ send[d] \in UnderwayState /\ send[d].time < OperationTimeout
            /\ send'[d] = Older(send[d]) /\ ~Sent(d)
        BY <1>6, <3>2, UnderwaySends DEF Elapse, Underway, Sent
      <4> DEFINE s == send[d]
                 r == IF Requested(s) THEN s.request + 1 ELSE s.request
      <4>2. s.time + 1 \in 0..OperationTimeout /\ r \in Int
        BY <4>1, ProviderAssumption DEF UnderwayState
      <4>3. Older(s) = [s EXCEPT !.time = s.time + 1, !.request = r]
        BY DEF Older
      <4> HIDE DEF s, r
      <4>4. s \in UnderwayState =>
              Older(s) \in UnderwayState /\ Older(s).step = s.step
        BY <4>2, <4>3 DEF UnderwayState
      <4>5. QED
        BY <4>1, <4>4 DEF SendState, s
    <3>3. QED
      BY <3>1, <3>2
  <2>2. UNCHANGED <<batch, discarded, landed, relayed>>
    BY <1>6 DEF Elapse
  <2>3. SendsAreTyped'
    BY <1>6, <2>1, <2>2 DEF Elapse, VerdictInvariant, SendsAreTyped
  <2>4. NotLandedYet'
    BY <2>1, <2>2 DEF VerdictInvariant, NotLandedYet
  <2>5. VerdictsAreTrue'
    BY <2>1, <2>2 DEF VerdictInvariant, VerdictsAreTrue, Sent
  <2>6. QED
    BY <2>3, <2>4, <2>5 DEF VerdictInvariant
<1>7. CASE UNCHANGED providerVars
  BY <1>7 DEF providerVars, VerdictInvariant, SendsAreTyped, NotLandedYet, VerdictsAreTrue, Sent
<1>8. QED
  BY <1>1, <1>2, <1>3, <1>4, <1>5, <1>6, <1>7 DEF ProviderNext

\* Whatever stands in for the provider and however a send ends, only a token
\* that is dead is reported as not registered, and a push that the provider took
\* is never reported as one to retry (fcm_sender.rs:190-208).
THEOREM ReportsOfSendsAreTrue == ProviderSpec => []VerdictsAreTrue
<1>1. ProviderInit => VerdictInvariant
  BY VerdictsAtFirst
<1>2. VerdictInvariant /\ [ProviderNext]_providerVars => VerdictInvariant'
  BY VerdictsThroughStep
<1>3. VerdictInvariant => VerdictsAreTrue
  BY DEF VerdictInvariant
<1>4. QED
  BY <1>1, <1>2, <1>3, PTL DEF ProviderSpec

\* A send that is under way is within the time the whole send may take, and
\* there is at most one batch.
THEOREM ProviderTypeCorrect == ProviderSpec => []ProviderTypeOK
<1>1. ProviderInit => VerdictInvariant
  BY VerdictsAtFirst
<1>2. VerdictInvariant /\ [ProviderNext]_providerVars => VerdictInvariant'
  BY VerdictsThroughStep
<1>3. VerdictInvariant => ProviderTypeOK
  <2> SUFFICES ASSUME VerdictInvariant
               PROVE  ProviderTypeOK
    OBVIOUS
  <2>1. Cardinality(batch) <= 1
    <3>1. batch = {} \/ \E push : batch = {push}
      BY DEF VerdictInvariant, SendsAreTyped
    <3>2. Cardinality(batch) = 0 \/ Cardinality(batch) = 1
      BY <3>1, FS_EmptySet, FS_Singleton
    <3>3. QED
      BY <3>2
  <2>2. \A d \in Underway : send[d].time \in 0..OperationTimeout
    BY UnderwaySends DEF Underway, UnderwayState
  <2>3. QED
    BY <2>1, <2>2 DEF VerdictInvariant, SendsAreTyped, ProviderTypeOK
<1>4. QED
  BY <1>1, <1>2, <1>3, PTL DEF ProviderSpec

-----------------------------------------------------------------------------
(* The least and the greatest of a set of positions                        *)

LEMMA LeastExists ==
  ASSUME NEW S \in SUBSET Nat, S # {}
  PROVE  \E x \in S : \A y \in S : x <= y
<1>1. PICK x \in S : \A y \in S : ~(<<y, x>> \in OpToRel(<, Nat))
  BY NatLessThanWellFounded, WFMin
<1>2. \A y \in S : ~(y < x)
  BY <1>1 DEF OpToRel
<1>3. QED
  BY <1>2

LEMMA GreatestExists ==
  ASSUME NEW n \in Nat, NEW S \in SUBSET (1..n), S # {}
  PROVE  \E x \in S : \A y \in S : x >= y
<1> DEFINE T == {n - x : x \in S}
<1>1. T \in SUBSET Nat /\ T # {}
  <2>1. \A x \in S : x \in 1..n /\ n - x \in Nat
    OBVIOUS
  <2>2. QED
    BY <2>1
<1>2. PICK t \in T : \A u \in T : t <= u
  BY <1>1, LeastExists
<1>3. PICK x \in S : t = n - x
  BY <1>2
<1>4. ASSUME NEW y \in S
      PROVE  x >= y
  <2>1. n - y \in T /\ x \in 1..n /\ y \in 1..n
    OBVIOUS
  <2>2. n - x <= n - y
    BY <1>2, <1>3, <2>1
  <2>3. QED
    BY <2>1, <2>2
<1>5. QED
  BY <1>4

LEMMA MinIs ==
  ASSUME NEW S \in SUBSET Nat, NEW x \in S, \A y \in S : x <= y
  PROVE  Min(S) = x
<1>1. Min(S) \in S /\ \A y \in S : Min(S) <= y
  BY DEF Min
<1>2. Min(S) \in Nat /\ x \in Nat /\ Min(S) <= x /\ x <= Min(S)
  BY <1>1
<1>3. QED
  BY <1>2

LEMMA MaxIs ==
  ASSUME NEW S \in SUBSET Nat, NEW x \in S, \A y \in S : x >= y
  PROVE  Max(S) = x
<1>1. Max(S) \in S /\ \A y \in S : Max(S) >= y
  BY DEF Max
<1>2. Max(S) \in Nat /\ x \in Nat /\ Max(S) >= x /\ x >= Max(S)
  BY <1>1
<1>3. QED
  BY <1>2

LEMMA MinShifts ==
  ASSUME NEW S \in SUBSET Nat, S # {}, NEW k \in Nat
  PROVE  Min(S) \in S /\ Min({x + k : x \in S}) = Min(S) + k
<1>1. PICK m \in S : \A y \in S : m <= y
  BY LeastExists
<1>2. Min(S) = m
  BY <1>1, MinIs
<1> DEFINE T == {x + k : x \in S}
<1>3. T \in SUBSET Nat /\ m + k \in T /\ \A y \in T : m + k <= y
  BY <1>1
<1> HIDE DEF T
<1>4. Min(T) = m + k
  BY <1>3, MinIs
<1>5. QED
  BY <1>2, <1>4 DEF T

\* What is added before does not change the greatest.
LEMMA MaxShifts ==
  ASSUME NEW n \in Nat, NEW S \in SUBSET (1..n), S # {}, NEW k \in Nat,
         NEW B \in SUBSET (1..k)
  PROVE  Max(S) \in S /\ Max(B \cup {x + k : x \in S}) = Max(S) + k
<1>1. PICK m \in S : \A y \in S : m >= y
  BY GreatestExists
<1>2. S \in SUBSET Nat /\ m \in 1..n
  OBVIOUS
<1>3. Max(S) = m
  BY <1>1, <1>2, MaxIs
<1> DEFINE T == B \cup {x + k : x \in S}
<1>4. T \in SUBSET Nat /\ m + k \in T
  <2>1. B \in SUBSET Nat
    OBVIOUS
  <2>2. \A x \in S : x + k \in Nat
    BY <1>2
  <2>3. QED
    BY <1>1, <2>1, <2>2
<1>5. ASSUME NEW y \in T
      PROVE  m + k >= y
  <2>1. CASE y \in B
    <3>1. y \in 1..k
      BY <2>1
    <3>2. QED
      BY <1>2, <3>1
  <2>2. CASE y \notin B
    <3>1. PICK x \in S : y = x + k
      BY <2>2
    <3>2. x \in Nat /\ m >= x
      BY <1>1, <1>2
    <3>3. QED
      BY <3>1, <3>2
  <2>3. QED
    BY <2>1, <2>2
<1> HIDE DEF T
<1>6. Max(T) = m + k
  BY <1>4, <1>5, MaxIs
<1>7. QED
  BY <1>3, <1>6 DEF T

-----------------------------------------------------------------------------
(* The message and the group of a push                                     *)

\* The tags of a reaction that copies more of its thread: three before its own.
LEMMA ThreadTags ==
  ASSUME NEW e, e.tags \in Seq(ToSet(e.tags)), NEW id, NEW coordinate
  PROVE  LET t == InThread(e, id, coordinate).tags
         IN /\ Len(e.tags) \in Nat /\ DOMAIN e.tags = 1..Len(e.tags)
            /\ DOMAIN t = 1..(Len(e.tags) + 3)
            /\ t[1].name = "E" /\ t[2].name = "A" /\ t[3].name = "e"
            /\ \A i \in DOMAIN e.tags : t[i + 3] = e.tags[i]
<1> DEFINE x == [name |-> "E", value |-> id]
           y == [name |-> "A", value |-> coordinate]
           z == [name |-> "e", value |-> id]
           S == ToSet(e.tags) \cup {x, y, z}
           own == e.tags
           t == <<x, y, z>> \o own
<1>1. own \in Seq(S) /\ <<x, y, z>> \in Seq(S) /\ Len(<<x, y, z>>) = 3
  OBVIOUS
<1>2. x.name = "E" /\ y.name = "A" /\ z.name = "e"
  OBVIOUS
<1>3. InThread(e, id, coordinate).tags = t
  BY DEF InThread
<1> HIDE DEF x, y, z, S, own
<1>4. /\ t \in Seq(S) /\ Len(t) = 3 + Len(own)
      /\ \A i \in 1..(3 + Len(own)) : t[i] = IF i <= 3 THEN <<x, y, z>>[i] ELSE own[i - 3]
  BY <1>1, ConcatProperties
<1>5. Len(own) \in Nat /\ DOMAIN own = 1..Len(own)
  BY <1>1
<1>6. t[1] = x /\ t[2] = y /\ t[3] = z /\ \A i \in DOMAIN own : t[i + 3] = own[i]
  BY <1>4, <1>5
<1>7. DOMAIN t = 1..(Len(own) + 3)
  BY <1>4, <1>5
<1> HIDE DEF t
<1>8. QED
  BY <1>2, <1>3, <1>5, <1>6, <1>7 DEF own

\* Copied tags are not the direct address.
LEMMA SameAddress ==
  ASSUME NEW e, e.tags \in Seq(ToSet(e.tags)), NEW id, NEW coordinate
  PROVE  DirectAddress(InThread(e, id, coordinate)) = DirectAddress(e)
<1> DEFINE th == InThread(e, id, coordinate)
           n == Len(e.tags)
           S == Named(e, "a")
<1>1. /\ n \in Nat /\ DOMAIN e.tags = 1..n /\ DOMAIN th.tags = 1..(n + 3)
      /\ th.tags[1].name = "E" /\ th.tags[2].name = "A" /\ th.tags[3].name = "e"
      /\ \A i \in 1..n : th.tags[i + 3] = e.tags[i]
  BY ThreadTags
<1>2. S = {i \in 1..n : e.tags[i].name = "a"}
      /\ Named(th, "a") = {i \in 1..(n + 3) : th.tags[i].name = "a"}
  BY <1>1 DEF Named
<1> HIDE DEF th, n, S
<1>3. Named(th, "a") = {x + 3 : x \in S}
  <2>1. ASSUME NEW i \in 1..(n + 3), th.tags[i].name = "a"
        PROVE  i \in {x + 3 : x \in S}
    <3>1. i \notin {1, 2, 3}
      BY <1>1, <2>1
    <3>2. i - 3 \in 1..n /\ (i - 3) + 3 = i
      BY <1>1, <3>1
    <3>3. i - 3 \in S
      BY <1>1, <1>2, <2>1, <3>2
    <3>4. QED
      BY <3>2, <3>3
  <2>2. ASSUME NEW x \in S
        PROVE  x + 3 \in Named(th, "a")
    <3>1. x \in 1..n /\ e.tags[x].name = "a" /\ x + 3 \in 1..(n + 3)
      BY <1>1, <1>2
    <3>2. th.tags[x + 3] = e.tags[x]
      BY <1>1, <3>1
    <3>3. QED
      BY <1>2, <3>1, <3>2
  <2>3. QED
    BY <1>2, <2>1, <2>2
<1>4. S \in SUBSET Nat
  BY <1>2
<1>5. CASE S = {}
  BY <1>3, <1>5 DEF DirectAddress, Has, S, th
<1>6. CASE S # {}
  <2>1. Min(S) \in S /\ Min(Named(th, "a")) = Min(S) + 3
    BY <1>3, <1>4, <1>6, MinShifts
  <2>2. Named(th, "a") # {}
    BY <1>3, <1>6
  <2>3. th.tags[Min(S) + 3] = e.tags[Min(S)]
    BY <1>1, <1>2, <2>1
  <2>4. QED
    BY <1>6, <2>1, <2>2, <2>3 DEF DirectAddress, Has, First, S, th
<1>7. QED
  BY <1>5, <1>6

\* Nor are they the event that is acted upon, if the reaction names one.
LEMMA SameEvent ==
  ASSUME NEW e, e.tags \in Seq(ToSet(e.tags)), NEW id, NEW coordinate, DirectEvent(e) # None
  PROVE  DirectEvent(InThread(e, id, coordinate)) = DirectEvent(e)
<1> DEFINE th == InThread(e, id, coordinate)
           n == Len(e.tags)
           S == {i \in Named(e, "e") : e.tags[i].value # None}
           T == {i \in Named(th, "e") : th.tags[i].value # None}
           B == T \cap (1..3)
<1>1. /\ n \in Nat /\ DOMAIN e.tags = 1..n /\ DOMAIN th.tags = 1..(n + 3)
      /\ \A i \in 1..n : th.tags[i + 3] = e.tags[i]
  BY ThreadTags
<1>2. /\ S = {i \in 1..n : e.tags[i].name = "e" /\ e.tags[i].value # None}
      /\ T = {i \in 1..(n + 3) : th.tags[i].name = "e" /\ th.tags[i].value # None}
  BY <1>1 DEF Named
<1>3. S # {} /\ DirectEvent(e) = e.tags[Max(S)].value
      /\ DirectEvent(th) = IF T = {} THEN None ELSE th.tags[Max(T)].value
  BY DEF DirectEvent
<1> HIDE DEF th, n, S, T
<1>4. T = B \cup {x + 3 : x \in S}
  <2>1. ASSUME NEW i \in T, i \notin 1..3
        PROVE  i \in {x + 3 : x \in S}
    <3>1. i - 3 \in 1..n /\ (i - 3) + 3 = i
      BY <1>1, <1>2, <2>1
    <3>2. i - 3 \in S
      BY <1>1, <1>2, <2>1, <3>1
    <3>3. QED
      BY <3>1, <3>2
  <2>2. ASSUME NEW x \in S
        PROVE  x + 3 \in T
    BY <1>1, <1>2
  <2>3. QED
    BY <2>1, <2>2
<1>5. S \in SUBSET (1..n) /\ B \in SUBSET (1..3)
  BY <1>2
<1> HIDE DEF B
<1>6. Max(S) \in S /\ Max(T) = Max(S) + 3
  BY <1>1, <1>3, <1>4, <1>5, MaxShifts
<1>7. th.tags[Max(S) + 3] = e.tags[Max(S)] /\ T # {}
  BY <1>1, <1>2, <1>3, <1>4, <1>6
<1>8. QED
  BY <1>3, <1>6, <1>7 DEF th

\* A direct address is the key, and without it the direct event.
LEMMA DirectKey ==
  ASSUME NEW e
  PROVE  /\ DirectAddress(e) # None => GroupKey(e) = DirectAddress(e)
         /\ DirectAddress(e) = None /\ DirectEvent(e) # None => GroupKey(e) = DirectEvent(e)
<1> DEFINE choices == <<DirectAddress(e), DirectEvent(e), ReferencedCoordinate(e),
                        ReferencedEvent(e)>>
           found == {i \in DOMAIN choices : choices[i] # None}
<1>1. GroupKey(e) = IF found = {} THEN None ELSE choices[Min(found)]
  BY DEF GroupKey
<1>2. found = {i \in 1..4 : choices[i] # None}
  OBVIOUS
<1>3. choices[1] = DirectAddress(e) /\ choices[2] = DirectEvent(e)
  OBVIOUS
<1> HIDE DEF choices, found
<1>4. found \in SUBSET Nat
  BY <1>2
<1>5. ASSUME DirectAddress(e) # None
      PROVE  GroupKey(e) = DirectAddress(e)
  <2>1. 1 \in found /\ \A y \in found : 1 <= y
    BY <1>2, <1>3, <1>5
  <2>2. QED
    BY <1>1, <1>3, <1>4, <2>1, MinIs
<1>6. ASSUME DirectAddress(e) = None, DirectEvent(e) # None
      PROVE  GroupKey(e) = DirectEvent(e)
  <2>1. 2 \in found /\ \A y \in found : 2 <= y
    BY <1>2, <1>3, <1>6
  <2>2. QED
    BY <1>1, <1>3, <1>4, <2>1, MinIs
<1>7. QED
  BY <1>5, <1>6

LEMMA GroupStays ==
  ASSUME NEW e, e.tags \in Seq(ToSet(e.tags)), NEW id, NEW coordinate,
         DirectEvent(e) # None \/ DirectAddress(e) # None
  PROVE  GroupKey(InThread(e, id, coordinate)) = GroupKey(e)
<1>1. CASE DirectAddress(e) # None
  BY <1>1, SameAddress, DirectKey
<1>2. CASE DirectAddress(e) = None
  BY <1>2, SameAddress, SameEvent, DirectKey
<1>3. QED
  BY <1>1, <1>2

LEMMA MessagesFit ==
  ASSUME batch \in SUBSET Notification
  PROVE  MessageFits
<1> SUFFICES ASSUME NEW push \in batch
             PROVE  LET payload == Immediate(Payload(push.event, push.type, push.collapse))
                        message == Message(payload)
                    IN /\ payload.type = "dm" =>
                            /\ payload.sender = None
                            /\ payload.references = [event |-> None, address |-> None]
                            /\ ~message.apns.wakes
                       /\ message.apns.push = "alert" <=> message.android.priority = "high"
                       /\ message.apns.expires /\ message.android.expires
                       /\ message.apns.collapse = message.android.collapse
  BY DEF MessageFits
<1> DEFINE first == Payload(push.event, push.type, push.collapse)
           payload == Immediate(first)
<1>1. push.type # None /\ None # "dm"
  BY ProviderAssumption
<1>2. /\ payload.type = push.type /\ payload.title = push.type /\ payload.now = TRUE
      /\ payload.prefetch = (push.type \in PublicContent)
      /\ push.type = "dm" =>
           payload.sender = None /\ payload.references = [event |-> None, address |-> None]
  <2>1. CASE push.type = "dm"
    BY <2>1 DEF Payload, DirectMessagePayload, Immediate, Prefetches
  <2>2. CASE push.type # "dm"
    BY <2>2 DEF Payload, Immediate, Prefetches
  <2>3. QED
    BY <2>1, <2>2
<1> HIDE DEF first, payload
<1>3. Visible(payload)
  BY <1>1, <1>2 DEF Visible
<1>4. /\ Message(payload).apns = Apns(payload) /\ Message(payload).android = Android(payload)
  BY DEF Message
<1>5. /\ Apns(payload).push = "alert" /\ Apns(payload).expires = payload.now
      /\ Apns(payload).wakes <=> payload.prefetch
      /\ Apns(payload).collapse = payload.collapse
  BY <1>3, Zenon DEF Apns
<1>6. /\ Android(payload).priority = "high" /\ Android(payload).expires = payload.now
      /\ Android(payload).collapse = payload.collapse
  BY <1>3 DEF Android
<1>7. "dm" \notin PublicContent
  BY DEF PublicContent
<1>8. QED
  BY <1>2, <1>4, <1>5, <1>6, <1>7 DEF payload, first

\* Any push of any event is shown as urgently on the one platform as on the other, a
\* direct message's says nothing of it, and a reaction is counted with those to the same
\* post whatever tags of its thread it copies (event_handler.rs:2298-2392, 2554-2562).
LEMMA EveryMessageIsRight ==
  ASSUME batch \in SUBSET Notification
  PROVE  MessageIsRight
<1>1. GroupsByPost
  <2>1. \A push \in batch : push.event.tags \in Seq(ToSet(push.event.tags))
    BY ProviderAssumption
  <2>2. QED
    BY <2>1, GroupStays DEF GroupsByPost
<1>2. QED
  BY <1>1, MessagesFit DEF MessageIsRight

\* Whatever an event's tags, how many they are and in what order, a direct
\* message's push reveals nothing and wakes nothing, both platforms agree on what
\* is urgent, on expiry and on what replaces what, and thread tags that are copied
\* into a reaction to a post leave it in that post's group
\* (event_handler.rs:1670-1675, 2298-2392, 2554-2562).
THEOREM MessagesAreRight == ProviderSpec => []MessageIsRight
<1>1. VerdictInvariant => MessageIsRight
  BY EveryMessageIsRight DEF VerdictInvariant, SendsAreTyped
<1>2. QED
  BY <1>1, VerdictsAtFirst, VerdictsThroughStep, PTL DEF ProviderSpec
=============================================================================
