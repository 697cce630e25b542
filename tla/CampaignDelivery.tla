-------------------------- MODULE CampaignDelivery --------------------------
(***************************************************************************)
(* Collection and delivery of campaign notifications                       *)
(* (src/src/campaign_delivery.rs over the claims of src/src/redis_store.rs).*)
(*                                                                         *)
(* The campaign tool, a service outside the repository, offers each of its *)
(* rows under a lease and settles a row only with a result of the lease it *)
(* is under.  Pollers, one per replica, fetch the rows, deliver one after  *)
(* the other and report one by one, and drop the rest of a batch when the  *)
(* lease runs short.  A claim in Redis, owned by the attempt that took it, *)
(* is what keeps a row that is offered again from being pushed again.      *)
(*                                                                         *)
(* Times are what is left of them: a Tick shortens every lease, claim and  *)
(* wait.  A poller is sequential, so its name stands for the lease and for *)
(* the claim owner of its current batch.  Consent, devices, quiet hours    *)
(* and the interruption budget decide here by choice; see DeliveryBudget   *)
(* and TokenRegistry for how they do.                                      *)
(***************************************************************************)
EXTENDS Integers, FiniteSets

CONSTANTS
  Key,        \* idempotency keys, one per row of the campaign tool
  Poller,     \* replicas that collect campaigns
  Lease,      \* leaseSeconds
  Reserve,    \* RESULT_REPORT_RESERVE, also the HTTP client's timeout
  Dedup,      \* dedup_ttl_secs
  MaxFaults   \* bound on failures, deferrals, timeouts, crashes and losses

ASSUME CampaignAssumption ==
  /\ Reserve \in Nat \ {0}
  /\ Lease \in Nat
  /\ Lease > Reserve
  /\ Dedup \in Nat
  /\ MaxFaults \in Nat
  /\ "nobody" \notin Poller

VARIABLES
  row,         \* the campaign tool's rows
  claim,       \* campaign_delivery:{key}: owner and time to live
  poller,      \* what each poller is doing
  faults,      \* failures so far
  sent,        \* history: what is left of the window that the latest push opened
  pushes,      \* history: pushes in that window, counted up to 2
  unrecorded,  \* history: keys with a push in the window whose claim was not promoted
  abandoned,   \* history: keys with a claim that an attempt left behind without a push
  pushed       \* history: keys that were ever pushed

campaignVars == <<row, claim, poller, faults, sent, pushes, unrecorded, abandoned,
                  pushed>>
history == <<sent, pushes, unrecorded, abandoned, pushed>>

Nobody == "nobody"
Idle == [step |-> "idle"]
NoClaim == [owner |-> Nobody, left |-> 0]

At(p, step) == poller[p].step = step
GoTo(p, step) == poller' = [poller EXCEPT ![p].step = step]

\* deliver() runs, under the timeout of poll_once.
Delivering(p) ==
  poller[p].step \in {"checking", "claimed", "sending", "accepted", "releasing"}

Fault ==
  /\ faults < MaxFaults
  /\ faults' = faults + 1

-----------------------------------------------------------------------------
(* poll_once: the request.  The lease is counted from before it is sent.    *)

Poll(p) ==
  /\ poller[p] = Idle
  /\ poller' = [poller EXCEPT ![p] = [step |-> "polling", left |-> Lease]]
  /\ UNCHANGED <<row, claim, faults, history>>

Offered == {k \in Key : row[k].state = "pending"
                        \/ (row[k].state = "leased" /\ row[k].left = 0)}

\* The campaign tool leases what it offers; its answer arrives.
Offer(p) ==
  /\ At(p, "polling")
  /\ row' = [k \in Key |-> IF k \in Offered
                           THEN [state |-> "leased", lease |-> p, left |-> Lease]
                           ELSE row[k]]
  /\ poller' = [poller EXCEPT ![p] = [step |-> "batch", left |-> poller[p].left,
                                      keys |-> Offered]]
  /\ UNCHANGED <<claim, faults, history>>

\* The answer is lost, too late or unreadable.
PollFails(p) ==
  /\ At(p, "polling")
  /\ Fault
  /\ row' \in {row, [k \in Key |-> IF k \in Offered
                                   THEN [state |-> "leased", lease |-> p, left |-> Lease]
                                   ELSE row[k]]}
  /\ poller' = [poller EXCEPT ![p] = Idle]
  /\ UNCHANGED <<claim, history>>

\* Mutant: the reserve is deducted twice.
EnoughLeftTwice(p) == poller[p].left > 2 * Reserve

EnoughLeft(p) == poller[p].left > Reserve

\* Mutant: the claim is only to outlast the delivery, not the report.
ClaimTTLBudget(p) == poller[p].left - Reserve

\* claim_ttl_secs
ClaimTTL(p) == poller[p].left

Begin(p, k) ==
  /\ At(p, "batch")
  /\ k \in poller[p].keys
  /\ EnoughLeft(p)
  /\ poller' = [poller EXCEPT ![p] =
                  [step |-> "checking", left |-> poller[p].left, ttl |-> ClaimTTL(p),
                   keys |-> poller[p].keys \ {k}, key |-> k]]
  /\ UNCHANGED <<row, claim, faults, history>>

EndBatch(p) ==
  /\ At(p, "batch")
  /\ poller[p].keys = {} \/ ~EnoughLeft(p)
  /\ poller' = [poller EXCEPT ![p] = Idle]
  /\ UNCHANGED <<row, claim, faults, history>>

-----------------------------------------------------------------------------
(* deliver: each path ends with a result, after the claim has been taken    *)
(* only once it is released or promoted.                                    *)

\* Results that make the tool offer the row again.
Repeats(result) == result \in {"retryable", "deferred"}

FaultIfRepeats(result) == IF Repeats(result) THEN Fault ELSE UNCHANGED faults

\* What poller p is in once deliver has returned.
Reporting(p, result) ==
  [step |-> "reporting", left |-> poller[p].left, keys |-> poller[p].keys,
   key |-> poller[p].key, result |-> result, wait |-> Reserve]

Releasing(p, result) ==
  [step |-> "releasing", left |-> poller[p].left, ttl |-> poller[p].ttl,
   keys |-> poller[p].keys, key |-> poller[p].key, result |-> result]

\* Expired, not a public key, not allowed, no consent, or a lookup failed.
RefuseUnclaimed(p) ==
  /\ At(p, "checking")
  /\ \E result \in {"refused", "retryable"} :
       /\ FaultIfRepeats(result)
       /\ poller' = [poller EXCEPT ![p] = Reporting(p, result)]
  /\ UNCHANGED <<row, claim, history>>

\* claim_campaign_delivery: SET NX EX
Claim(p) ==
  LET k == poller[p].key
  IN /\ At(p, "checking")
     /\ IF claim[k] = NoClaim
        THEN /\ claim' = [claim EXCEPT ![k] = [owner |-> p, left |-> poller[p].ttl]]
             /\ GoTo(p, "claimed")
        ELSE /\ poller' = [poller EXCEPT ![p] = Reporting(p, "already")]
             /\ UNCHANGED claim
     /\ UNCHANGED <<row, faults, history>>

\* The command takes effect, but its reply is lost.
ClaimUnanswered(p) ==
  LET k == poller[p].key
  IN /\ At(p, "checking")
     /\ Fault
     /\ claim[k] = NoClaim
     /\ claim' = [claim EXCEPT ![k] = [owner |-> p, left |-> poller[p].ttl]]
     /\ abandoned' = abandoned \cup {k}
     /\ poller' = [poller EXCEPT ![p] = Reporting(p, "retryable")]
     /\ UNCHANGED <<row, sent, pushes, unrecorded, pushed>>

\* No device, quiet hours everywhere, no budget, the recipient returned, or a
\* lookup failed.
RefuseClaimed(p) ==
  /\ At(p, "claimed")
  /\ \E result \in {"refused", "deferred", "retryable"} :
       /\ FaultIfRepeats(result)
       /\ poller' = [poller EXCEPT ![p] = Releasing(p, result)]
  /\ UNCHANGED <<row, claim, history>>

\* The reservation is made and still valid.
Send(p) ==
  /\ At(p, "claimed")
  /\ GoTo(p, "sending")
  /\ UNCHANGED <<row, claim, faults, history>>

\* A push reaches some device of the recipient.
Land(k) ==
  /\ sent' = [sent EXCEPT ![k] = Dedup]
  /\ pushes' = [pushes EXCEPT ![k] = IF @ < 2 THEN @ + 1 ELSE 2]
  /\ pushed' = pushed \cup {k}

\* The provider accepts it for some device.
Accept(p) ==
  /\ At(p, "sending")
  /\ Land(poller[p].key)
  /\ GoTo(p, "accepted")
  /\ UNCHANGED <<row, claim, faults, unrecorded, abandoned>>

\* No device is left, or none was reached; a push whose answer was lost or
\* garbled may have been made.
Fail(p) ==
  /\ At(p, "sending")
  /\ \/ /\ poller' = [poller EXCEPT ![p] = Releasing(p, "refused")]
        /\ UNCHANGED <<faults, history>>
     \/ /\ poller' = [poller EXCEPT ![p] = Releasing(p, "retryable")]
        /\ Fault
        /\ \/ UNCHANGED history
           \/ /\ Land(poller[p].key)
              /\ unrecorded' = unrecorded \cup {poller[p].key}
              /\ UNCHANGED abandoned
  /\ UNCHANGED <<row, claim>>

\* Mutant: the claim's life is not extended to the deduplication window.
PromotedTTLKept(ttl) == ttl

PromotedTTL(ttl) == IF Dedup > ttl THEN Dedup ELSE ttl

Owns(p) == claim[poller[p].key].owner = p

\* promote_campaign_delivery, after the activity of the device was refreshed.
Promote(p) ==
  LET k == poller[p].key
  IN /\ At(p, "accepted")
     /\ claim' = IF Owns(p) THEN [claim EXCEPT ![k].left = PromotedTTL(poller[p].ttl)]
                 ELSE claim
     /\ unrecorded' = IF Owns(p) THEN unrecorded ELSE unrecorded \cup {k}
     /\ poller' = [poller EXCEPT ![p] = Reporting(p, "delivered")]
     /\ UNCHANGED <<row, faults, sent, pushes, abandoned, pushed>>

PromoteFails(p) ==
  /\ At(p, "accepted")
  /\ Fault
  /\ unrecorded' = unrecorded \cup {poller[p].key}
  /\ poller' = [poller EXCEPT ![p] = Reporting(p, "delivered")]
  /\ UNCHANGED <<row, claim, sent, pushes, abandoned, pushed>>

\* Mutant: a refusal keeps the claim.
ReleasedKept(k, result) == IF result = "retryable" THEN [claim EXCEPT ![k] = NoClaim] ELSE claim

Released(k, result) == [claim EXCEPT ![k] = NoClaim]

\* release_campaign_delivery
Release(p) ==
  /\ At(p, "releasing")
  /\ claim' = IF Owns(p) THEN Released(poller[p].key, poller[p].result) ELSE claim
  /\ poller' = [poller EXCEPT ![p] = Reporting(p, poller[p].result)]
  /\ UNCHANGED <<row, faults, history>>

ReleaseFails(p) ==
  /\ At(p, "releasing")
  /\ Fault
  /\ abandoned' = abandoned \cup {poller[p].key}
  /\ poller' = [poller EXCEPT ![p] = Reporting(p, poller[p].result)]
  /\ UNCHANGED <<row, claim, sent, pushes, unrecorded, pushed>>

-----------------------------------------------------------------------------
(* report_result.  The tool settles a row for its current lease only.       *)

RowAfter(result) ==
  IF Repeats(result) THEN "pending" ELSE result

Settles(p) == row[poller[p].key].state = "leased" /\ row[poller[p].key].lease = p

Report(p) ==
  LET k == poller[p].key
  IN /\ At(p, "reporting")
     /\ row' = IF Settles(p)
               THEN [row EXCEPT ![k] = [state |-> RowAfter(poller[p].result),
                                        lease |-> Nobody, left |-> 0]]
               ELSE row
     /\ poller' = [poller EXCEPT ![p] = [step |-> "batch", left |-> poller[p].left,
                                         keys |-> poller[p].keys]]
     /\ UNCHANGED <<claim, faults, history>>

ReportLost(p) ==
  /\ At(p, "reporting")
  /\ Fault
  /\ poller' = [poller EXCEPT ![p] = [step |-> "batch", left |-> poller[p].left,
                                      keys |-> poller[p].keys]]
  /\ UNCHANGED <<row, claim, history>>

-----------------------------------------------------------------------------
(* An attempt that is cut off: its claim stays, and a push under way may    *)
(* still be made.                                                           *)

CutOff(p) ==
  LET k == poller[p].key
  IN \/ /\ poller[p].step \in {"claimed", "sending", "releasing"}
        /\ abandoned' = abandoned \cup {k}
        /\ UNCHANGED <<sent, pushes, unrecorded, pushed>>
     \/ /\ At(p, "sending")
        /\ Land(k)
        /\ unrecorded' = unrecorded \cup {k}
        /\ UNCHANGED abandoned
     \/ /\ At(p, "accepted")
        /\ unrecorded' = unrecorded \cup {k}
        /\ UNCHANGED <<sent, pushes, abandoned, pushed>>
     \/ /\ poller[p].step \in {"polling", "batch", "checking", "reporting"}
        /\ UNCHANGED history

\* The delivery budget is used up: the batch ends.
TimeOut(p) ==
  /\ Delivering(p)
  /\ ~EnoughLeft(p)
  /\ Fault
  /\ CutOff(p)
  /\ poller' = [poller EXCEPT ![p] = Idle]
  /\ UNCHANGED <<row, claim>>

\* The process dies; its replacement starts idle.
Crash(p) ==
  /\ poller[p] # Idle
  /\ Fault
  /\ CutOff(p)
  /\ poller' = [poller EXCEPT ![p] = Idle]
  /\ UNCHANGED <<row, claim>>

-----------------------------------------------------------------------------
(* Time.  A delivery does not outlast the timeout it runs under, nor a      *)
(* request to the tool the HTTP client's.                                   *)

InBudget(p) == Delivering(p) => poller[p].left > Reserve

\* The HTTP client gives up after Reserve.
InTimeToAnswer(p) ==
  /\ At(p, "polling") => poller[p].left > Lease - Reserve + 1
  /\ At(p, "reporting") => poller[p].wait > 1

Shorter(n) == IF n = 0 THEN 0 ELSE n - 1

TickPoller(p) ==
  IF poller[p] = Idle THEN Idle
  ELSE IF At(p, "reporting")
       THEN [poller[p] EXCEPT !.left = Shorter(@), !.wait = Shorter(@)]
       ELSE [poller[p] EXCEPT !.left = Shorter(@)]

Tick ==
  /\ \A p \in Poller : InBudget(p) /\ InTimeToAnswer(p)
  /\ row' = [k \in Key |-> [row[k] EXCEPT !.left = Shorter(@)]]
  /\ claim' = [k \in Key |-> IF claim[k].left <= 1 THEN NoClaim
                             ELSE [claim[k] EXCEPT !.left = @ - 1]]
  /\ poller' = [p \in Poller |-> TickPoller(p)]
  /\ sent' = [k \in Key |-> Shorter(sent[k])]
  /\ pushes' = [k \in Key |-> IF sent[k] <= 1 THEN 0 ELSE pushes[k]]
  /\ unrecorded' = {k \in unrecorded : sent[k] > 1}
  /\ UNCHANGED <<faults, abandoned, pushed>>

-----------------------------------------------------------------------------
Init ==
  /\ row = [k \in Key |-> [state |-> "pending", lease |-> Nobody, left |-> 0]]
  /\ claim = [k \in Key |-> NoClaim]
  /\ poller = [p \in Poller |-> Idle]
  /\ faults = 0
  /\ sent = [k \in Key |-> 0]
  /\ pushes = [k \in Key |-> 0]
  /\ unrecorded = {}
  /\ abandoned = {}
  /\ pushed = {}

Deliver(p) ==
  \/ RefuseUnclaimed(p)
  \/ Claim(p)
  \/ RefuseClaimed(p)
  \/ Send(p)
  \/ Accept(p)
  \/ Fail(p)
  \/ Promote(p)
  \/ Release(p)

PollerStep(p) ==
  \/ Poll(p)
  \/ Offer(p)
  \/ \E k \in Key : Begin(p, k)
  \/ EndBatch(p)
  \/ Deliver(p)
  \/ Report(p)

Disturb(p) ==
  \/ PollFails(p)
  \/ ClaimUnanswered(p)
  \/ PromoteFails(p)
  \/ ReleaseFails(p)
  \/ ReportLost(p)
  \/ TimeOut(p)
  \/ Crash(p)

Next ==
  \/ \E p \in Poller : PollerStep(p) \/ Disturb(p)
  \/ Tick

Spec == Init /\ [][Next]_campaignVars

\* Time passes, pollers poll on their interval, and Redis, the provider and the
\* tool do not fail for ever (MaxFaults).  A lease is not used up before the
\* first delivery of its batch every time.
Fairness ==
  /\ WF_campaignVars(Tick)
  /\ \A p \in Poller : WF_campaignVars(PollerStep(p))
  /\ \A k \in Key : SF_campaignVars(\E p \in Poller : Begin(p, k))

FairSpec == Spec /\ Fairness

-----------------------------------------------------------------------------
(* Properties *)

Remaining == 0..Lease
Result == {"refused", "retryable", "deferred", "already", "delivered"}

PollerState ==
  {Idle}
  \cup [step : {"polling"}, left : Remaining]
  \cup [step : {"batch"}, left : Remaining, keys : SUBSET Key]
  \cup [step : {"checking", "claimed", "sending", "accepted"}, left : Remaining,
        ttl : Remaining, keys : SUBSET Key, key : Key]
  \cup [step : {"releasing"}, left : Remaining, ttl : Remaining, keys : SUBSET Key,
        key : Key, result : Result]
  \cup [step : {"reporting"}, left : Remaining, keys : SUBSET Key, key : Key,
        result : Result, wait : 0..Reserve]

TypeOK ==
  /\ row \in [Key -> [state : {"pending", "leased", "refused", "already", "delivered"},
                      lease : Poller \cup {Nobody}, left : Remaining]]
  /\ claim \in [Key -> [owner : Poller \cup {Nobody}, left : 0..(Lease + Dedup)]]
  /\ poller \in [Poller -> PollerState]
  /\ faults \in 0..MaxFaults
  /\ sent \in [Key -> 0..Dedup]
  /\ pushes \in [Key -> 0..2]
  /\ unrecorded \in SUBSET Key
  /\ abandoned \in SUBSET Key
  /\ pushed \in SUBSET Key

WorksOn(p, k) ==
  /\ Delivering(p) \/ At(p, "reporting")
  /\ poller[p].key = k

\* Whatever time the request, the batch and the delivery take, the row under
\* delivery is still under the lease it was offered with, up to the moment its
\* result arrives: no result is discarded as outdated, and no two replicas
\* deliver one row (campaign_delivery.rs:113-118 and 722-726).
LeaseCoversAttempt ==
  \A p \in Poller, k \in Key :
    WorksOn(p, k) => row[k].state = "leased" /\ row[k].lease = p /\ row[k].left > 0

\* An attempt that took the claim owns it until it gives it up: it neither
\* expires under the attempt nor passes to another, so a push never goes out
\* without one (redis_store.rs:389-401).
ClaimCoversAttempt ==
  \A p \in Poller :
    poller[p].step \in {"claimed", "sending", "accepted", "releasing"} => Owns(p)

\* Lease and claim cover an attempt from its begin to its report.
GuardsCoverAttempt == LeaseCoversAttempt /\ ClaimCoversAttempt

\* A push whose claim was promoted is not repeated while the deduplication
\* window lasts, however often its row is offered again
\* (campaign_delivery.rs:385-392).  The push of an attempt that was cut off
\* before the promotion, or whose answer was lost, is.
RecordedPushNotRepeated ==
  \A k \in Key : pushes[k] <= 1 \/ k \in unrecorded

\* A row is settled as delivered, or as delivered already, only for a push that
\* was made, except after an attempt that could not release its claim
\* (campaign_delivery.rs:140-159).
DeliveredMeansPushed ==
  [][\A k \in Key :
       row'[k].state \in {"delivered", "already"} /\ row[k].state = "leased"
       => k \in pushed \cup abandoned]_campaignVars

\* Every row is settled in the end; leases that expired, results that were lost
\* and claims left behind do not keep it going round for ever.
RowsSettle ==
  \A k \in Key : <>(row[k].state \in {"refused", "already", "delivered"})
=============================================================================
