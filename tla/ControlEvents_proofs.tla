------------------------ MODULE ControlEvents_proofs ------------------------
(***************************************************************************)
(* Theorems about what events addressed to the service change: about       *)
(* RosterPublisher and the control events that it reads the effects of,    *)
(* for any accounts, events, replicas and any claims that last as long as  *)
(* the horizon; and about NotifyLists, for any creators, lists, cap and    *)
(* number of faults.                                                       *)
(***************************************************************************)
EXTENDS RosterPublisher, NotifyLists, TLAPS

-----------------------------------------------------------------------------
(* Control events: type correctness                                        *)

LEMMA ControlNumbers ==
  /\ Horizon \in Nat /\ ClaimTTL \in Nat /\ ClaimTTL >= Horizon
  /\ Skew \in Nat /\ MaxNow \in Nat \ {0}
  /\ \A e \in ControlEvent : e.kind \in Kind /\ e.account \in Account
BY ControlAssumption

HandlerState == {Idle} \cup [step : {"claiming", "claimed"}, event : ControlEvent]

LEMMA HandlerFields ==
  ASSUME ControlTypeOK, NEW r \in Replica
  PROVE  /\ handler[r] \in HandlerState
         /\ Doing(r, "claiming") \/ Doing(r, "claimed") => handler[r].event \in ControlEvent
BY DEF ControlTypeOK, HandlerState, Idle, Doing

\* A claim that takes effect, or does not.
LEMMA ClaimTypes ==
  ASSUME ControlTypeOK, NEW e \in ControlEvent, Claim(e) \/ UNCHANGED <<claim, begun, late>>
  PROVE  /\ claim' \in [ControlEvent -> 0..(MaxNow + ClaimTTL)]
         /\ begun' \in [ControlEvent -> 0..MaxNow]
         /\ late' \in SUBSET ControlEvent
<1>1. CASE Claim(e)
  <2>1. now + ClaimTTL \in 0..(MaxNow + ClaimTTL) /\ now \in 0..MaxNow
    BY ControlNumbers DEF ControlTypeOK
  <2>2. QED
    BY <1>1, <2>1 DEF Claim, ControlTypeOK
<1>2. CASE UNCHANGED <<claim, begun, late>>
  BY <1>2 DEF ControlTypeOK
<1>3. QED
  BY <1>1, <1>2

LEMMA ControlTypeInit == Init => ControlTypeOK
<1> SUFFICES ASSUME Init PROVE ControlTypeOK
  OBVIOUS
<1>1. 1 \in 1..MaxNow
  BY ControlNumbers
<1>2. QED
  BY <1>1, ControlNumbers DEF Init, ControlInit, ControlTypeOK, Never, Idle

\* What a handler writes.
LEMMA WriteTypes ==
  ASSUME ControlTypeOK, NEW e \in ControlEvent, Handle(e)
  PROVE  /\ device' \in SUBSET Account
         /\ consent' \in SUBSET Account
         /\ origin' \in [Account -> 0..(MaxNow + Skew)]
<1>1. e.account \in Account /\ date[e] \in 0..(MaxNow + Skew)
  BY ControlNumbers DEF ControlTypeOK
<1>2. CASE Register(e)
  BY <1>1, <1>2 DEF Register, ControlTypeOK
<1>3. CASE Deregister(e)
  BY <1>3 DEF Deregister, ControlTypeOK
<1>4. CASE SetPreferences(e)
  BY <1>1, <1>4 DEF SetPreferences, ControlTypeOK
<1>5. QED
  BY <1>2, <1>3, <1>4 DEF Handle

\* A step of the handler of one replica, and what it leaves.
LEMMA HandlerGoesOn ==
  ASSUME ControlTypeOK, NEW r \in Replica, NEW e \in ControlEvent
  PROVE  /\ [handler EXCEPT ![r] = Idle] \in [Replica -> HandlerState]
         /\ [handler EXCEPT ![r] = [step |-> "claiming", event |-> e]] \in [Replica -> HandlerState]
         /\ Doing(r, "claiming") =>
              /\ [handler EXCEPT ![r].step = "claimed"] =
                   [handler EXCEPT ![r] = [step |-> "claimed", event |-> handler[r].event]]
              /\ [handler EXCEPT ![r].step = "claimed"] \in [Replica -> HandlerState]
<1>1. handler \in [Replica -> HandlerState]
  BY DEF ControlTypeOK, HandlerState
<1>2. Idle \in HandlerState /\ [step |-> "claiming", event |-> e] \in HandlerState
  BY DEF HandlerState
<1>3. ASSUME Doing(r, "claiming")
      PROVE  /\ [handler[r] EXCEPT !.step = "claimed"] =
                   [step |-> "claimed", event |-> handler[r].event]
             /\ [handler[r] EXCEPT !.step = "claimed"] \in HandlerState
  BY <1>1, <1>3 DEF HandlerState, Idle, Doing
<1>4. QED
  BY <1>1, <1>2, <1>3

LEMMA ControlTypeNext ==
  ASSUME ControlTypeOK, [Next]_allVars
  PROVE  ControlTypeOK'
<1> USE DEF HandlerState
<1>1. CASE UNCHANGED controlVars
  BY <1>1 DEF controlVars, redisVars, controlHistory, ControlTypeOK
<1>2. ASSUME NEW e \in ControlEvent, Publish(e)
      PROVE  ControlTypeOK'
  <2>1. \A d \in now..(now + Skew) : d \in 0..(MaxNow + Skew)
    BY ControlNumbers DEF ControlTypeOK
  <2>2. date' \in [ControlEvent -> 0..(MaxNow + Skew)]
    BY <1>2, <2>1 DEF Publish, ControlTypeOK
  <2>3. QED
    BY <1>2, <2>2 DEF Publish, redisVars, controlHistory, ControlTypeOK
<1>3. CASE Tick
  <2>1. now' \in 1..MaxNow
    BY <1>3, ControlNumbers DEF Tick, ControlTypeOK
  <2>2. claim' \in [ControlEvent -> 0..(MaxNow + ClaimTTL)]
    BY <1>3, ControlNumbers DEF Tick, ControlTypeOK, Never
  <2>3. QED
    BY <1>3, <2>1, <2>2 DEF Tick, controlHistory, ControlTypeOK
<1>4. ASSUME NEW r \in Replica, NEW e \in ControlEvent, Take(r, e)
      PROVE  ControlTypeOK'
  BY <1>4, HandlerGoesOn DEF Take, redisVars, controlHistory, ControlTypeOK
<1>5. ASSUME NEW r \in Replica, Win(r)
      PROVE  ControlTypeOK'
  <2>1. handler[r].event \in ControlEvent /\ Doing(r, "claiming")
    BY <1>5, HandlerFields DEF Win
  <2>2. /\ claim' \in [ControlEvent -> 0..(MaxNow + ClaimTTL)]
        /\ begun' \in [ControlEvent -> 0..MaxNow]
        /\ late' \in SUBSET ControlEvent
    BY <1>5, <2>1, ClaimTypes DEF Win
  <2>3. handler' \in [Replica -> HandlerState]
    BY <1>5, <2>1, HandlerGoesOn DEF Win
  <2>4. QED
    BY <1>5, <2>2, <2>3 DEF Win, ControlTypeOK
<1>6. ASSUME NEW r \in Replica, FindClaimed(r)
      PROVE  ControlTypeOK'
  BY <1>6, HandlerFields, HandlerGoesOn DEF FindClaimed, redisVars, controlHistory, ControlTypeOK
<1>7. ASSUME NEW r \in Replica, FailToClaim(r)
      PROVE  ControlTypeOK'
  <2>1. handler[r].event \in ControlEvent
    BY <1>7, HandlerFields DEF FailToClaim
  <2>2. /\ claim' \in [ControlEvent -> 0..(MaxNow + ClaimTTL)]
        /\ begun' \in [ControlEvent -> 0..MaxNow]
        /\ late' \in SUBSET ControlEvent
    BY <1>7, <2>1, ClaimTypes DEF FailToClaim
  <2>3. wasted' \in SUBSET ControlEvent
    BY <1>7, <2>1 DEF FailToClaim, ControlTypeOK
  <2>4. handler' \in [Replica -> HandlerState]
    BY <1>7, <2>1, HandlerGoesOn DEF FailToClaim
  <2>5. QED
    BY <1>7, <2>2, <2>3, <2>4 DEF FailToClaim, ControlTypeOK
<1>8. ASSUME NEW r \in Replica, Apply(r)
      PROVE  ControlTypeOK'
  <2>1. handler[r].event \in ControlEvent
    BY <1>8, HandlerFields DEF Apply
  <2>2. /\ device' \in SUBSET Account /\ consent' \in SUBSET Account
        /\ origin' \in [Account -> 0..(MaxNow + Skew)]
    BY <1>8, <2>1, WriteTypes DEF Apply
  <2>3. applied' \in [ControlEvent -> 0..2]
    BY <1>8, <2>1 DEF Apply, ControlTypeOK
  <2>4. handler' \in [Replica -> HandlerState]
    BY <1>8, <2>1, HandlerGoesOn DEF Apply
  <2>5. QED
    BY <1>8, <2>2, <2>3, <2>4 DEF Apply, ControlTypeOK
<1>9. ASSUME NEW r \in Replica, HandleInVain(r)
      PROVE  ControlTypeOK'
  <2>1. handler[r].event \in ControlEvent
    BY <1>9, HandlerFields DEF HandleInVain
  <2>2. handler' \in [Replica -> HandlerState]
    BY <1>9, <2>1, HandlerGoesOn DEF HandleInVain
  <2>3. QED
    BY <1>9, <2>1, <2>2 DEF HandleInVain, redisVars, ControlTypeOK
<1>10. [Next]_allVars => ControlNext \/ UNCHANGED controlVars
  BY DEF Next, PublisherStep, ListAccounts, ReadConsent, ReadDevices, Upload, FailToRead,
         FailToUpload, allVars
<1>11. QED
  BY <1>1, <1>2, <1>3, <1>4, <1>5, <1>6, <1>7, <1>8, <1>9, <1>10 DEF ControlNext, HandlerStep

\* Whatever control events, replicas and scans do, the state is well-typed.
THEOREM ControlTypeCorrect == Spec => []ControlTypeOK
<1>1. Init => ControlTypeOK
  BY ControlTypeInit
<1>2. ControlTypeOK /\ [Next]_allVars => ControlTypeOK'
  BY ControlTypeNext
<1>3. QED
  BY <1>1, <1>2, PTL DEF Spec


-----------------------------------------------------------------------------
(* Claims.  A claim that was taken lasts for its time to live, or has been *)
(* over for as long; so a second one begins that much later than the       *)
(* first, and is late unless its event was dated ahead.                    *)

Has(r, e) == Doing(r, "claimed") /\ handler[r].event = e

\* The event was handed to a handler more than once.
Twice(e) ==
  \/ applied[e] > 1
  \/ applied[e] > 0 /\ \E r \in Replica : Has(r, e)
  \/ \E r, s \in Replica : r # s /\ Has(r, e) /\ Has(s, e)

AtTheEdge(e) == date[e] >= begun[e] \/ e \in late

ClaimsLast ==
  \A e \in ControlEvent :
    /\ begun[e] <= now
    /\ begun[e] = Never => claim[e] = Never
    /\ begun[e] # Never => begun[e] + ClaimTTL <= claim[e]
                           \/ (claim[e] = Never /\ begun[e] + ClaimTTL <= now)

HandledWasClaimed ==
  \A e \in ControlEvent :
    applied[e] > 0 \/ (\E r \in Replica : Has(r, e)) => begun[e] # Never

ClaimedWasPublished ==
  /\ \A r \in Replica : Doing(r, "claiming") => IsPublished(handler[r].event)
  /\ \A e \in ControlEvent : begun[e] # Never => IsPublished(e)

EdgeInvariant ==
  /\ ControlTypeOK
  /\ ClaimsLast
  /\ HandledWasClaimed
  /\ ClaimedWasPublished
  /\ \A e \in ControlEvent : Twice(e) => AtTheEdge(e)

LEMMA EdgeTypes ==
  ASSUME ControlTypeOK
  PROVE  /\ now \in Nat /\ now # 0
         /\ \A e \in ControlEvent : /\ date[e] \in Nat /\ claim[e] \in Nat /\ begun[e] \in Nat
                                    /\ applied[e] \in 0..2
BY ControlNumbers DEF ControlTypeOK

\* A claim that takes effect is the first, at the edge, or both.
LEMMA ClaimAtTheEdge ==
  ASSUME EdgeInvariant, NEW e \in ControlEvent, Claim(e), UNCHANGED <<now, date>>, IsPublished(e)
  PROVE  /\ ClaimsLast'
         /\ \A o \in ControlEvent : begun'[o] # Never => IsPublished(o)
         /\ begun'[e] # Never
         /\ \A o \in ControlEvent : begun[o] # Never => begun'[o] = begun[o]
         /\ late \subseteq late'
         /\ begun[e] # Never => AtTheEdge(e)'
<1>1. /\ claim[e] = Never
      /\ claim' = [o \in ControlEvent |-> IF o = e THEN now + ClaimTTL ELSE claim[o]]
      /\ begun' = [begun EXCEPT ![e] = IF @ = Never THEN now ELSE @]
      /\ late' = IF IsTooOld(e) THEN late \cup {e} ELSE late
    BY DEF Claim, ClaimKey
<1>2. /\ begun'[e] = IF begun[e] = Never THEN now ELSE begun[e]
      /\ \A o \in ControlEvent : o # e => begun'[o] = begun[o]
      /\ claim'[e] = now + ClaimTTL
      /\ \A o \in ControlEvent : o # e => claim'[o] = claim[o]
  BY <1>1 DEF EdgeInvariant, ControlTypeOK
<1>3. now \in Nat /\ now # 0 /\ begun[e] \in Nat /\ begun[e] <= now /\ date[e] \in Nat
  BY EdgeTypes DEF EdgeInvariant, ClaimsLast
<1>4. ClaimsLast'
  <2> SUFFICES ASSUME NEW o \in ControlEvent
               PROVE  /\ begun'[o] <= now'
                      /\ begun'[o] = Never => claim'[o] = Never
                      /\ begun'[o] # Never =>
                           \/ begun'[o] + ClaimTTL <= claim'[o]
                           \/ claim'[o] = Never /\ begun'[o] + ClaimTTL <= now'
    BY DEF ClaimsLast
  <2>1. CASE o = e
    BY <1>2, <1>3, <2>1, ControlNumbers DEF Never
  <2>2. CASE o # e
    BY <1>2, <2>2 DEF EdgeInvariant, ClaimsLast
  <2>3. QED
    BY <2>1, <2>2
<1>5. begun[e] # Never => AtTheEdge(e)'
  <2> SUFFICES ASSUME begun[e] # Never, ~IsTooOld(e)
               PROVE  date'[e] >= begun'[e]
    BY <1>1 DEF AtTheEdge
  <2>1. begun[e] + ClaimTTL <= now
    BY <1>1, <1>3, ControlNumbers DEF EdgeInvariant, ClaimsLast, Never
  <2>2. date[e] >= now - Horizon
    BY <1>3, ControlNumbers DEF IsTooOld
  <2>3. QED
    BY <1>2, <1>3, <2>1, <2>2, ControlNumbers
<1>6. QED
  BY <1>1, <1>2, <1>3, <1>4, <1>5
     DEF EdgeInvariant, ClaimedWasPublished, Never

\* A step in which nothing is handed to a handler and nothing is applied.
LEMMA NoMoreHandled ==
  ASSUME EdgeInvariant, ControlTypeOK', ClaimsLast', late \subseteq late', UNCHANGED applied,
         \A e \in ControlEvent :
           /\ IsPublished(e) => date'[e] = date[e]
           /\ begun[e] # Never => begun'[e] = begun[e]
           /\ begun'[e] # Never => IsPublished(e),
         \A r \in Replica :
           \/ handler'[r] = handler[r]
           \/ /\ ~(Doing(r, "claimed"))'
              /\ (Doing(r, "claiming"))' => IsPublished(handler'[r].event)
  PROVE  EdgeInvariant'
<1>1. \A r \in Replica, e \in ControlEvent : Has(r, e)' => Has(r, e)
  BY DEF Has, Doing
<1>2. \A e \in ControlEvent : IsPublished(e) => IsPublished(e)'
  BY DEF IsPublished
<1>3. HandledWasClaimed'
  BY <1>1 DEF EdgeInvariant, HandledWasClaimed
<1>4. ClaimedWasPublished'
  <2>1. ASSUME NEW r \in Replica, handler'[r].step = "claiming"
        PROVE  date'[handler'[r].event] # Never
    <3>1. handler'[r].event \in ControlEvent
      BY <2>1 DEF ControlTypeOK, Idle
    <3>2. date[handler'[r].event] # Never
      BY <2>1 DEF EdgeInvariant, ClaimedWasPublished, Doing, IsPublished
    <3>3. QED
      BY <3>1, <3>2 DEF IsPublished
  <2>2. QED
    BY <1>2, <2>1 DEF ClaimedWasPublished, Doing, IsPublished
<1>5. ASSUME NEW e \in ControlEvent, Twice(e)'
      PROVE  AtTheEdge(e)'
  <2>1. Twice(e)
    BY <1>1, <1>5 DEF Twice
  <2>2. begun[e] # Never
    BY <2>1, EdgeTypes DEF EdgeInvariant, HandledWasClaimed, Twice
  <2>3. QED
    BY <2>1, <2>2 DEF EdgeInvariant, AtTheEdge, ClaimedWasPublished
<1>6. QED
  BY <1>3, <1>4, <1>5 DEF EdgeInvariant

LEMMA EdgeInit == Init => EdgeInvariant
<1> SUFFICES ASSUME Init PROVE EdgeInvariant
  OBVIOUS
<1>1. ControlTypeOK
  BY ControlTypeInit
<1>2. /\ \A r \in Replica : handler[r] = Idle
      /\ \A e \in ControlEvent : begun[e] = Never /\ claim[e] = Never /\ applied[e] = 0
      /\ now = 1
  BY DEF Init, ControlInit
<1>3. \A r \in Replica : ~Doing(r, "claimed") /\ ~Doing(r, "claiming")
  BY <1>2 DEF Doing, Idle
<1>4. QED
  BY <1>1, <1>2, <1>3 DEF EdgeInvariant, ClaimsLast, HandledWasClaimed, ClaimedWasPublished,
     Twice, Has, Never

LEMMA EdgeNext ==
  ASSUME EdgeInvariant, [Next]_allVars
  PROVE  EdgeInvariant'
<1>1. ControlTypeOK /\ ControlTypeOK'
  BY ControlTypeNext DEF EdgeInvariant
<1>2. CASE UNCHANGED controlVars
  BY <1>1, <1>2 DEF controlVars, redisVars, controlHistory, EdgeInvariant, ClaimsLast,
     HandledWasClaimed, ClaimedWasPublished, IsPublished, Twice, Has, Doing, AtTheEdge
<1>3. ASSUME NEW e \in ControlEvent, Publish(e)
      PROVE  EdgeInvariant'
  <2>1. /\ ~IsPublished(e) /\ UNCHANGED <<now, handler, claim, begun, applied, late>>
        /\ \A o \in ControlEvent : o # e => date'[o] = date[o]
    BY <1>1, <1>3 DEF Publish, redisVars, controlHistory, ControlTypeOK
  <2>2. ClaimsLast'
    BY <2>1 DEF EdgeInvariant, ClaimsLast
  <2>3. QED
    BY <1>1, <2>1, <2>2, NoMoreHandled DEF EdgeInvariant, ClaimedWasPublished
<1>4. CASE Tick
  <2>1. /\ now' = now + 1 /\ UNCHANGED <<date, handler, begun, applied, late>>
        /\ \A e \in ControlEvent : claim'[e] = IF claim[e] > now' THEN claim[e] ELSE Never
    BY <1>4 DEF Tick, controlHistory
  <2>2. ClaimsLast'
    <3> SUFFICES ASSUME NEW e \in ControlEvent
                 PROVE  /\ begun[e] <= now'
                        /\ begun[e] = Never => claim'[e] = Never
                        /\ begun[e] # Never =>
                             \/ begun[e] + ClaimTTL <= claim'[e]
                             \/ claim'[e] = Never /\ begun[e] + ClaimTTL <= now'
      BY <2>1 DEF ClaimsLast
    <3>1. now \in Nat /\ claim[e] \in Nat /\ begun[e] \in Nat
      BY <1>1, EdgeTypes
    <3>2. QED
      BY <2>1, <3>1, ControlNumbers DEF EdgeInvariant, ClaimsLast, Never
  <2>3. QED
    BY <1>1, <2>1, <2>2, NoMoreHandled DEF EdgeInvariant, ClaimedWasPublished
<1>5. ASSUME NEW r \in Replica, NEW e \in ControlEvent, Take(r, e)
      PROVE  EdgeInvariant'
  <2>1. /\ IsPublished(e) /\ UNCHANGED <<now, date, claim, begun, applied, late>>
        /\ handler' = [handler EXCEPT ![r] = [step |-> "claiming", event |-> e]]
    BY <1>5 DEF Take, redisVars, controlHistory
  <2>2. ClaimsLast'
    BY <2>1 DEF EdgeInvariant, ClaimsLast
  <2>3. \A p \in Replica :
          \/ handler'[p] = handler[p]
          \/ /\ ~(Doing(p, "claimed"))'
             /\ (Doing(p, "claiming"))' => IsPublished(handler'[p].event)
    <3>1. handler'[r] = [step |-> "claiming", event |-> e]
      BY <1>1, <2>1 DEF ControlTypeOK
    <3>2. \A p \in Replica : p # r => handler'[p] = handler[p]
      BY <1>1, <2>1 DEF ControlTypeOK
    <3>3. handler'[r].step = "claiming" /\ handler'[r].event = e
      BY <3>1
    <3>4. QED
      BY <2>1, <3>2, <3>3 DEF Doing
  <2>4. QED
    BY <1>1, <2>1, <2>2, <2>3, NoMoreHandled DEF EdgeInvariant, ClaimedWasPublished
<1>6. ASSUME NEW r \in Replica, Win(r)
      PROVE  EdgeInvariant'
  <2>0. PICK e \in ControlEvent : e = handler[r].event
    BY <1>1, <1>6, HandlerFields DEF Win
  <2>1. /\ Doing(r, "claiming") /\ Claim(e)
        /\ UNCHANGED <<now, date, applied>>
        /\ handler' = [handler EXCEPT ![r] = [step |-> "claimed", event |-> e]]
    BY <1>1, <1>6, <2>0, HandlerGoesOn DEF Win
  <2>2. IsPublished(e)
    BY <2>0, <2>1 DEF EdgeInvariant, ClaimedWasPublished
  <2>3. /\ ClaimsLast'
        /\ \A o \in ControlEvent : begun'[o] # Never => IsPublished(o)
        /\ begun'[e] # Never
        /\ \A o \in ControlEvent : begun[o] # Never => begun'[o] = begun[o]
        /\ late \subseteq late'
        /\ begun[e] # Never => AtTheEdge(e)'
    BY <2>1, <2>2, ClaimAtTheEdge
  <2>4. /\ handler'[r].step = "claimed" /\ handler'[r].event = e
        /\ \A p \in Replica : p # r => handler'[p] = handler[p]
    BY <1>1, <2>1 DEF ControlTypeOK
  <2>5. \A p \in Replica, o \in ControlEvent :
          Has(p, o)' => Has(p, o) \/ (p = r /\ o = e)
    BY <2>4 DEF Has, Doing
  <2>6. HandledWasClaimed'
    BY <2>1, <2>3, <2>5 DEF EdgeInvariant, HandledWasClaimed
  <2>7. ClaimedWasPublished'
    BY <2>1, <2>3, <2>4 DEF EdgeInvariant, ClaimedWasPublished, Doing, IsPublished
  <2>8. ASSUME NEW o \in ControlEvent, Twice(o)'
        PROVE  AtTheEdge(o)'
    <3>1. CASE Twice(o)
      <4>1. begun[o] # Never
        BY <1>1, <3>1, EdgeTypes DEF EdgeInvariant, HandledWasClaimed, Twice
      <4>2. QED
        BY <2>1, <2>3, <3>1, <4>1 DEF EdgeInvariant, AtTheEdge
    <3>2. CASE ~Twice(o)
      <4>1. o = e /\ (applied[e] > 0 \/ \E p \in Replica : Has(p, e))
        BY <1>1, <2>1, <2>5, <2>8, <3>2, EdgeTypes DEF Twice
      <4>2. begun[e] # Never
        BY <2>1, <4>1 DEF EdgeInvariant, HandledWasClaimed
      <4>3. QED
        BY <2>3, <4>1, <4>2
    <3>3. QED
      BY <3>1, <3>2
  <2>9. QED
    BY <1>1, <2>3, <2>6, <2>7, <2>8 DEF EdgeInvariant
<1>7. ASSUME NEW r \in Replica, FindClaimed(r) \/ FailToClaim(r) \/ HandleInVain(r)
      PROVE  EdgeInvariant'
  <2>1. /\ handler' = [handler EXCEPT ![r] = Idle]
        /\ UNCHANGED <<now, date, applied>>
    BY <1>7 DEF FindClaimed, FailToClaim, HandleInVain, redisVars, controlHistory
  <2>2. \A p \in Replica : handler'[p] = handler[p] \/ (~Doing(p, "claimed") /\ ~Doing(p, "claiming"))'
    BY <1>1, <2>1 DEF ControlTypeOK, Doing, Idle
  <2>3. CASE UNCHANGED <<claim, begun, late>>
    <3>1. ClaimsLast'
      BY <2>1, <2>3 DEF EdgeInvariant, ClaimsLast
    <3>2. QED
      BY <1>1, <2>1, <2>2, <2>3, <3>1, NoMoreHandled DEF EdgeInvariant, ClaimedWasPublished
  <2>4. CASE FailToClaim(r) /\ Claim(handler[r].event)
    <3>1. handler[r].event \in ControlEvent /\ IsPublished(handler[r].event)
      BY <1>1, <2>4, HandlerFields DEF FailToClaim, EdgeInvariant, ClaimedWasPublished
    <3>2. /\ ClaimsLast'
          /\ \A o \in ControlEvent : begun'[o] # Never => IsPublished(o)
          /\ \A o \in ControlEvent : begun[o] # Never => begun'[o] = begun[o]
          /\ late \subseteq late'
      BY <2>1, <2>4, <3>1, ClaimAtTheEdge
    <3>3. QED
      BY <1>1, <2>1, <2>2, <3>2, NoMoreHandled
  <2>5. QED
    BY <1>7, <2>3, <2>4 DEF FindClaimed, FailToClaim, HandleInVain, redisVars, controlHistory
<1>8. ASSUME NEW r \in Replica, Apply(r)
      PROVE  EdgeInvariant'
  <2>0. PICK e \in ControlEvent : e = handler[r].event
    BY <1>1, <1>8, HandlerFields DEF Apply
  <2>1. /\ Has(r, e)
        /\ UNCHANGED <<now, date, claim, begun, late>>
        /\ handler' = [handler EXCEPT ![r] = Idle]
        /\ applied' = [applied EXCEPT ![e] = IF @ < 2 THEN @ + 1 ELSE @]
    BY <1>8, <2>0 DEF Apply, Has
  <2>2. \A p \in Replica, o \in ControlEvent : Has(p, o)' => p # r /\ Has(p, o)
    BY <1>1, <2>1 DEF ControlTypeOK, Has, Doing, Idle
  <2>3. /\ \A o \in ControlEvent : o # e => applied'[o] = applied[o]
        /\ applied'[e] = IF applied[e] < 2 THEN applied[e] + 1 ELSE applied[e]
    BY <1>1, <2>1 DEF ControlTypeOK
  <2>4. ClaimsLast'
    BY <2>1 DEF EdgeInvariant, ClaimsLast
  <2>5. HandledWasClaimed'
    BY <2>1, <2>2, <2>3 DEF EdgeInvariant, HandledWasClaimed
  <2>6. ClaimedWasPublished'
    BY <1>1, <2>1 DEF EdgeInvariant, ClaimedWasPublished, ControlTypeOK, Doing, Idle, IsPublished
  <2>7. ASSUME NEW o \in ControlEvent, Twice(o)'
        PROVE  AtTheEdge(o)'
    <3>1. CASE o # e
      BY <2>1, <2>2, <2>3, <2>7, <3>1 DEF EdgeInvariant, Twice, AtTheEdge
    <3>2. CASE o = e
      <4>1. applied[e] \in 0..2
        BY <1>1, <2>1, EdgeTypes
      <4>2. Twice(e)
        BY <2>1, <2>2, <2>3, <2>7, <3>2, <4>1 DEF Twice
      <4>3. QED
        BY <2>1, <3>2, <4>2 DEF EdgeInvariant, AtTheEdge
    <3>3. QED
      BY <3>1, <3>2
  <2>8. QED
    BY <1>1, <2>4, <2>5, <2>6, <2>7 DEF EdgeInvariant
<1>9. [Next]_allVars => ControlNext \/ UNCHANGED controlVars
  BY DEF Next, PublisherStep, ListAccounts, ReadConsent, ReadDevices, Upload, FailToRead,
         FailToUpload, allVars
<1>10. QED
  BY <1>2, <1>3, <1>4, <1>5, <1>6, <1>7, <1>8, <1>9 DEF ControlNext, HandlerStep

\* However often relays repeat a control event and whatever replicas do, it is
\* applied again only if it was dated ahead of its first claim or was claimed when
\* it had become too old (event_handler.rs:107-112, 153-185).
THEOREM RepeatsAreAtTheEdge == Spec => []ReappliedOnlyAtTheEdge
<1>1. Init => EdgeInvariant
  BY EdgeInit
<1>2. EdgeInvariant /\ [Next]_allVars => EdgeInvariant'
  BY EdgeNext
<1>3. EdgeInvariant => ReappliedOnlyAtTheEdge
  BY DEF EdgeInvariant, Twice, AtTheEdge, ReappliedOnlyAtTheEdge
<1>4. QED
  BY <1>1, <1>2, <1>3, PTL DEF Spec


-----------------------------------------------------------------------------
(* The roster                                                              *)

\* A scan has still to read, or is reading, or has read as opted in, whoever was
\* opted in all along; and it has kept nobody who was not, at some time.
ScanState ==
  {Resting}
    \cup [at : {"listed"}, todo : SUBSET Account, roster : SUBSET Account]
    \cup [at : {"consented", "refused"}, todo : SUBSET Account, roster : SUBSET Account,
           account : Account]

Read == IF Scanning("consented") THEN {scan.account} ELSE {}

ScanIsFaithful ==
  /\ scan \in ScanState
  /\ steady \subseteq OptedIn
  /\ scan # Resting =>
       /\ consent \subseteq seen
       /\ steady \subseteq scan.todo \cup scan.roster \cup Read
       /\ scan.roster \cup Read \subseteq seen

LEMMA ScanStates ==
  ASSUME ScanIsFaithful
  PROVE  /\ Scanning("resting") <=> scan = Resting
         /\ scan # Resting => scan.todo \subseteq Account /\ scan.roster \subseteq Account
         /\ scan.at \in {"consented", "refused"} => scan.account \in Account
BY DEF ScanIsFaithful, ScanState, Resting, Scanning

LEMMA ScanInit == ASSUME Init, device \subseteq Account PROVE ScanIsFaithful
BY DEF Init, ScanIsFaithful, ScanState

LEMMA ScanNext ==
  ASSUME ScanIsFaithful, [Next]_allVars, device \subseteq Account
  PROVE  ScanIsFaithful'
<1>1. CASE ListAccounts
  <2>1. scan' = [at |-> "listed", todo |-> device, roster |-> {}]
    BY <1>1 DEF ListAccounts
  <2>2. scan' \in ScanState /\ scan'.at = "listed" /\ scan'.todo = device /\ scan'.roster = {}
    BY <2>1 DEF ScanState
  <2>3. QED
    BY <1>1, <2>2 DEF ListAccounts, ScanIsFaithful, OptedIn, Read, Scanning, controlVars, redisVars
<1>2. ASSUME NEW a \in Account, ReadConsent(a)
      PROVE  ScanIsFaithful'
  <2>1. /\ scan' = [at |-> IF a \in consent THEN "consented" ELSE "refused",
                    todo |-> scan.todo \ {a}, roster |-> scan.roster, account |-> a]
        /\ scan # Resting /\ ~Scanning("consented")
    BY <1>2 DEF ReadConsent, Scanning, Resting
  <2>2. /\ scan' \in ScanState
        /\ scan'.at = IF a \in consent THEN "consented" ELSE "refused"
        /\ scan'.todo = scan.todo \ {a} /\ scan'.roster = scan.roster /\ scan'.account = a
    BY <2>1, ScanStates DEF ScanState
  <2>3. UNCHANGED <<device, consent, steady, seen>>
    BY <1>2 DEF ReadConsent, controlVars, redisVars
  <2>4. QED
    BY <2>1, <2>2, <2>3 DEF ScanIsFaithful, OptedIn, Read, Scanning
<1>3. CASE ReadDevices
  <2>1. /\ scan' = [at |-> "listed", todo |-> scan.todo,
                    roster |-> IF Scanning("consented") /\ scan.account \in device
                               THEN scan.roster \cup {scan.account} ELSE scan.roster]
        /\ scan # Resting /\ UNCHANGED <<device, consent, steady, seen>>
    BY <1>3 DEF ReadDevices, Kept, Resting, controlVars, redisVars
  <2>2. scan' \in ScanState /\ scan'.at = "listed"
    BY <1>3, <2>1, ScanStates DEF ReadDevices, ScanState
  <2>3. QED
    BY <2>1, <2>2 DEF ScanIsFaithful, OptedIn, Read, Scanning
<1>4. CASE Upload \/ FailToRead \/ FailToUpload
  <2>1. scan' = Resting /\ UNCHANGED <<device, consent, steady, seen>>
    BY <1>4 DEF Upload, FailToRead, FailToUpload, AfterFailedRead, controlVars, redisVars
  <2>2. QED
    BY <2>1 DEF ScanIsFaithful, ScanState, OptedIn
<1>5. CASE /\ ControlNext
           /\ steady' = steady \cap OptedIn'
           /\ seen' = seen \cup consent'
           /\ UNCHANGED <<scan, audience, failures>>
  <2>1. UNCHANGED scan /\ steady' = steady \cap OptedIn' /\ seen' = seen \cup consent'
    BY <1>5
  <2>2. QED
    BY <2>1 DEF ScanIsFaithful, Read, Scanning
<1>6. CASE UNCHANGED allVars
  BY <1>6 DEF allVars, rosterVars, controlVars, redisVars, ScanIsFaithful, OptedIn, Read, Scanning
<1>7. QED
  BY <1>1, <1>2, <1>3, <1>4, <1>5, <1>6 DEF Next, PublisherStep

\* Every upload names everyone who was opted in throughout the scan and nobody who
\* was opted out throughout, whatever handlers write in between
\* (roster_publisher.rs:44-48).
THEOREM UploadsAreFaithful == Spec => RosterIsFaithful
<1>1. ASSUME ScanIsFaithful, Next, audience' # audience
      PROVE  steady \subseteq audience' /\ audience' \subseteq seen
  <2>1. Upload /\ audience' = scan.roster /\ scan.todo = {}
    BY <1>1 DEF Next, PublisherStep, ListAccounts, ReadConsent, ReadDevices, Upload, FailToRead,
       FailToUpload
  <2>2. scan # Resting /\ Read = {}
    BY <2>1 DEF Upload, Scanning, Resting, Read
  <2>3. QED
    BY <1>1, <2>1, <2>2 DEF ScanIsFaithful
<1>2. Init => ScanIsFaithful
  BY ScanInit, ControlTypeInit DEF ControlTypeOK
<1>3. ScanIsFaithful /\ ControlTypeOK /\ [Next]_allVars => ScanIsFaithful'
  BY ScanNext DEF ControlTypeOK
<1>4. ScanIsFaithful /\ [Next]_allVars
        => [audience' # audience => steady \subseteq audience' /\ audience' \subseteq seen]_allVars
  BY <1>1
<1>5. QED
  BY <1>2, <1>3, <1>4, ControlTypeCorrect, PTL DEF Spec, RosterIsFaithful

-----------------------------------------------------------------------------
(* Notify lists                                                            *)

\* Whatever the order of its tags and the cap, a list stands for a set of
\* creators.
LEMMA CollectedType == ASSUME NEW l \in List PROVE Collected(l) \subseteq Creator
<1> SUFFICES ASSUME NEW i \in DOMAIN l.tags, l.tags[i] # Subscriber
             PROVE  l.tags[i] \in Creator
  BY DEF Collected
<1>1. l.tags \in Seq(Creator \cup {Subscriber})
  BY NotifyAssumption
<1>2. l.tags[i] \in Creator \cup {Subscriber}
  BY <1>1
<1> QED BY <1>2

\* Every step of the specification keeps the state well-typed.
THEOREM ListsTypeCorrect == ListsSpec => []ListsTypeOK
<1>1. ListsInit => ListsTypeOK
  <2> SUFFICES ASSUME ListsInit PROVE ListsTypeOK
    OBVIOUS
  <2>1. stamp \in {Unstamped} \cup [at : Nat] \cup [at : Nat, id : Nat]
    BY NotifyAssumption DEF ListsInit, Bare
  <2>2. subs \in SUBSET Creator
    BY CollectedType DEF ListsInit
  <2> QED BY <2>1, <2>2, NotifyAssumption DEF ListsInit, ListsTypeOK, ScriptState
<1>2. ListsTypeOK /\ [ListsNext]_notifyVars => ListsTypeOK'
  <2> SUFFICES ASSUME ListsTypeOK, [ListsNext]_notifyVars PROVE ListsTypeOK'
    OBVIOUS
  <2> USE DEF ListsTypeOK
  <2>0. NoScript \in ScriptState
    BY DEF ScriptState
  <2>1. ASSUME NEW l \in List, PublishList(l) PROVE ListsTypeOK'
    BY <2>1 DEF PublishList
  <2>2. ASSUME NEW l \in List, Replace(l) PROVE ListsTypeOK'
    BY <2>2 DEF Replace, ScriptState
  <2>3. ASSUME NEW c \in Creator, FirstWrite(c) PROVE ListsTypeOK'
    <3>1. script' \in ScriptState
      BY <2>3 DEF FirstWrite, ScriptState, NoScript
    <3>2. subs' \in SUBSET Creator /\ watchers' \in SUBSET Creator
      BY <2>3 DEF FirstWrite, WriteReverse, WriteForward
    <3> QED BY <2>3, <3>1, <3>2 DEF FirstWrite
  <2>4. ASSUME NEW c \in Creator, SecondWrite(c) PROVE ListsTypeOK'
    <3>1. script' \in ScriptState
      BY <2>4 DEF SecondWrite, ScriptState, NoScript
    <3>2. subs' \in SUBSET Creator /\ watchers' \in SUBSET Creator
      BY <2>4 DEF SecondWrite, WriteReverse, WriteForward
    <3> QED BY <2>4, <3>1, <3>2 DEF SecondWrite
  <2>5. CASE StartAdding
    <3>1. script.list \in List
      BY <2>5 DEF StartAdding, ScriptState
    <3>2. script' \in ScriptState
      BY <2>5, <3>1, CollectedType DEF StartAdding, ScriptState, NoScript
    <3> QED BY <2>5, <3>2 DEF StartAdding
  <2>6. CASE Stamp
    <3>1. script.list \in List
      BY <2>6 DEF Stamp, ScriptState
    <3>2. stamp' \in [at : Nat, id : Nat]
      BY <2>6, <3>1, NotifyAssumption DEF Stamp
    <3> QED BY <2>0, <2>6, <3>2 DEF Stamp
  <2>7. CASE Die
    BY <2>0, <2>7, NotifyAssumption DEF Die, Fault
  <2>8. ASSUME NEW c \in Creator, LoseWatcher(c) PROVE ListsTypeOK'
    BY <2>8, NotifyAssumption DEF LoseWatcher, Fault
  <2>9. CASE UNCHANGED notifyVars
    BY <2>9 DEF notifyVars
  <2> QED BY <2>1, <2>2, <2>3, <2>4, <2>5, <2>6, <2>7, <2>8, <2>9 DEF ListsNext, ScriptStep
<1> QED BY <1>1, <1>2, PTL DEF ListsSpec

-----------------------------------------------------------------------------
\* What a script that is between a creator's two writes has established: the
\* reverse entry is gone, or the forward entry is there.
HalfIsSafe ==
  script # NoScript /\ script.half # Whole =>
    /\ script.half \in script.todo
    /\ IF script.phase = "drop" THEN script.half \notin watchers ELSE script.half \in subs

ListsInvariant == WatchersAreListed /\ HalfIsSafe

\* A watcher is always listed, whatever the lists, the cap and the number of
\* scripts that died and entries that were lost.
THEOREM ListedAlways == ListsSpec => []WatchersAreListed
<1>1. ListsInit => ListsInvariant
  BY DEF ListsInit, ListsInvariant, WatchersAreListed, HalfIsSafe
<1>2. ListsTypeOK /\ ListsInvariant /\ [ListsNext]_notifyVars => ListsInvariant'
  <2> SUFFICES ASSUME ListsTypeOK, ListsInvariant, [ListsNext]_notifyVars PROVE ListsInvariant'
    OBVIOUS
  <2> USE DEF ListsInvariant, WatchersAreListed, HalfIsSafe
  <2>1. ASSUME NEW l \in List, PublishList(l) PROVE ListsInvariant'
    BY <2>1 DEF PublishList
  <2>2. ASSUME NEW l \in List, Replace(l) PROVE ListsInvariant'
    BY <2>2 DEF Replace
  <2>3. ASSUME NEW c \in Creator, FirstWrite(c) PROVE ListsInvariant'
    <3>1. script.phase \in {"drop", "add"} /\ script'.phase = script.phase /\ script'.half = c
      BY <2>3 DEF FirstWrite, ListsTypeOK, ScriptState, NoScript
    <3>2. CASE script.phase = "drop"
      BY <2>3, <3>1, <3>2 DEF FirstWrite, ReverseFirst, WriteReverse
    <3>3. CASE script.phase = "add"
      BY <2>3, <3>1, <3>3 DEF FirstWrite, ReverseFirst, WriteForward
    <3> QED BY <3>1, <3>2, <3>3
  <2>4. ASSUME NEW c \in Creator, SecondWrite(c) PROVE ListsInvariant'
    <3>1. script.phase \in {"drop", "add"} /\ script'.half = Whole
      BY <2>4 DEF SecondWrite, ListsTypeOK, ScriptState, NoScript
    <3>2. script # NoScript /\ script.half = c /\ c # Whole
      BY <2>4, NotifyAssumption DEF SecondWrite, Whole
    <3>3. CASE script.phase = "drop"
      BY <2>4, <3>1, <3>2, <3>3 DEF SecondWrite, ReverseFirst, WriteForward
    <3>4. CASE script.phase = "add"
      BY <2>4, <3>1, <3>2, <3>4 DEF SecondWrite, ReverseFirst, WriteReverse
    <3> QED BY <3>1, <3>3, <3>4
  <2>5. CASE StartAdding
    <3>1. script.half = Whole
      BY <2>5 DEF StartAdding
    <3> QED BY <2>5, <3>1 DEF StartAdding
  <2>6. CASE Stamp
    BY <2>6 DEF Stamp
  <2>7. CASE Die
    BY <2>7 DEF Die
  <2>8. ASSUME NEW c \in Creator, LoseWatcher(c) PROVE ListsInvariant'
    BY <2>8 DEF LoseWatcher
  <2>9. CASE UNCHANGED notifyVars
    BY <2>9 DEF notifyVars
  <2> QED BY <2>1, <2>2, <2>3, <2>4, <2>5, <2>6, <2>7, <2>8, <2>9 DEF ListsNext, ScriptStep
<1>3. ListsInvariant => WatchersAreListed
  BY DEF ListsInvariant
<1> QED BY <1>1, <1>2, <1>3, ListsTypeCorrect, PTL DEF ListsSpec
=============================================================================
