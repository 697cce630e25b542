--------------------------- MODULE ControlEvents ---------------------------
(***************************************************************************)
(* Registrations, deregistrations and preferences as they arrive: the      *)
(* horizon and the claims of the event handlers of all replicas            *)
(* (run and route_event in src/src/event_handler.rs) and what the handlers *)
(* of the three kinds write.                                               *)
(*                                                                         *)
(* Relays hand a replica every event of the look-back when it starts or    *)
(* subscribes anew, in no order, and each new event once more, live.  A    *)
(* claim under the event's id keeps all but one handler from it; it is     *)
(* taken before the event is handled and never given up.                   *)
(*                                                                         *)
(* An account has one device here; TokenRegistry has what several devices, *)
(* accounts and races between their transactions do.                       *)
(***************************************************************************)
EXTENDS Integers, FiniteSets

CONSTANTS
  Account,
  ControlEvent,   \* events addressed to the service: who publishes what
  Replica,
  Horizon,        \* REPLAY_HORIZON_DAYS
  ClaimTTL,       \* processed_event_ttl_secs
  Skew,           \* bound on how far ahead an event may be dated
  MaxNow          \* bound on the clock

Kind == {"register", "deregister", "opt in", "opt out"}

\* Nothing in the code relates the life of claims to the horizon; the defaults agree.
ASSUME ControlAssumption ==
  /\ ControlEvent \subseteq [kind : Kind, account : Account]
  /\ Horizon \in Nat /\ ClaimTTL \in Nat
  /\ ClaimTTL >= Horizon
  /\ Skew \in Nat /\ MaxNow \in Nat \ {0}

VARIABLES
  now,
  date,      \* created_at of the events that were published
  claim,     \* when dedup:{event_id} expires
  handler,   \* what each replica's event handler is doing
  device,    \* accounts with a registered device
  consent,   \* accounts with campaign_consent:{pubkey} = true
  begun,     \* history: when an event was claimed first
  applied,   \* history: how often an event was applied, up to twice
  wasted,    \* history: events whose claim was taken, or tried for, in vain
  late,      \* history: events that were claimed when they had become too old
  origin     \* history: the date of the registration that an account's device is from

redisVars == <<claim, device, consent>>
controlHistory == <<begun, applied, wasted, late, origin>>
controlVars == <<now, date, handler, redisVars, controlHistory>>

Never == 0
Idle == [step |-> "idle"]
IsPublished(e) == date[e] # Never
Doing(r, step) == handler[r].step = step

-----------------------------------------------------------------------------
(* Relays and time.  The first instant is 1.                               *)

Publish(e) ==
  /\ ~IsPublished(e)
  /\ \E d \in now..(now + Skew) : date' = [date EXCEPT ![e] = d]
  /\ UNCHANGED <<now, handler, redisVars, controlHistory>>

Tick ==
  /\ now < MaxNow
  /\ now' = now + 1
  /\ claim' = [e \in ControlEvent |-> IF claim[e] > now' THEN claim[e] ELSE Never]
  /\ UNCHANGED <<date, handler, device, consent, controlHistory>>

-----------------------------------------------------------------------------
(* run                                                                     *)

\* Mutant: claims are renewed for the kinds, not the events, of an account.
ClaimKeyOfAccount(e) == {o \in ControlEvent : o.account = e.account}

\* The events that share e's claim.
ClaimKey(e) == {e}

\* Mutant: an event is held to be young for one unit more.
IsTooOldLate(e) == date[e] + 1 < now - Horizon

IsTooOld(e) == date[e] < now - Horizon

\* SET NX EX takes effect.
Claim(e) ==
  /\ claim[e] = Never
  /\ claim' = [o \in ControlEvent |-> IF o \in ClaimKey(e) THEN now + ClaimTTL ELSE claim[o]]
  /\ begun' = [begun EXCEPT ![e] = IF @ = Never THEN now ELSE @]
  /\ late' = IF IsTooOld(e) THEN late \cup {e} ELSE late

\* An event comes out of the replica's channel, from whatever replay put it there.
Take(r, e) ==
  /\ Doing(r, "idle")
  /\ IsPublished(e)
  /\ ~IsTooOld(e)
  /\ handler' = [handler EXCEPT ![r] = [step |-> "claiming", event |-> e]]
  /\ UNCHANGED <<now, date, redisVars, controlHistory>>

Win(r) ==
  LET e == handler[r].event
  IN /\ Doing(r, "claiming")
     /\ Claim(e)
     /\ handler' = [handler EXCEPT ![r].step = "claimed"]
     /\ UNCHANGED <<now, date, device, consent, applied, wasted, origin>>

\* Somebody else has the event.
FindClaimed(r) ==
  /\ Doing(r, "claiming")
  /\ claim[handler[r].event] # Never
  /\ handler' = [handler EXCEPT ![r] = Idle]
  /\ UNCHANGED <<now, date, redisVars, controlHistory>>

\* The claim fails: the event is skipped until it is replayed, and for good when
\* only the answer was lost.
FailToClaim(r) ==
  LET e == handler[r].event
  IN /\ Doing(r, "claiming")
     /\ Claim(e) \/ UNCHANGED <<claim, begun, late>>
     /\ wasted' = wasted \cup {e}
     /\ handler' = [handler EXCEPT ![r] = Idle]
     /\ UNCHANGED <<now, date, device, consent, applied, origin>>

-----------------------------------------------------------------------------
(* The handlers of the three kinds, each with one write.  Quiet handlers   *)
(* leave device and consent alone: content that cannot be decrypted is     *)
(* skipped as if it were handled.                                          *)

Register(e) ==
  /\ device' = device \cup {e.account}
  /\ origin' = [origin EXCEPT ![e.account] = date[e]]
  /\ UNCHANGED consent

\* Preferences stay.
Deregister(e) ==
  /\ device' = device \ {e.account}
  /\ UNCHANGED <<consent, origin>>

\* set_user_preferences_with_campaign_consent: both keys in one transaction
SetPreferences(e) ==
  /\ consent' = IF e.kind = "opt in" THEN consent \cup {e.account}
                ELSE consent \ {e.account}
  /\ UNCHANGED <<device, origin>>

Handle(e) ==
  \/ e.kind = "register" /\ Register(e)
  \/ e.kind = "deregister" /\ Deregister(e)
  \/ e.kind \in {"opt in", "opt out"} /\ SetPreferences(e)

Apply(r) ==
  LET e == handler[r].event
  IN /\ Doing(r, "claimed")
     /\ Handle(e)
     /\ applied' = [applied EXCEPT ![e] = IF @ < 2 THEN @ + 1 ELSE @]
     /\ handler' = [handler EXCEPT ![r] = Idle]
     /\ UNCHANGED <<now, date, claim, begun, wasted, late>>

\* The write fails, the content cannot be read, or the process dies: the claim stays.
HandleInVain(r) ==
  /\ Doing(r, "claimed")
  /\ wasted' = wasted \cup {handler[r].event}
  /\ handler' = [handler EXCEPT ![r] = Idle]
  /\ UNCHANGED <<now, date, redisVars, begun, applied, late, origin>>

-----------------------------------------------------------------------------
\* Accounts may have registered and opted in before.
ControlInit ==
  /\ now = 1
  /\ date = [e \in ControlEvent |-> Never]
  /\ claim = [e \in ControlEvent |-> Never]
  /\ handler = [r \in Replica |-> Idle]
  /\ device \in SUBSET Account
  /\ consent \in SUBSET Account
  /\ begun = [e \in ControlEvent |-> Never]
  /\ applied = [e \in ControlEvent |-> 0]
  /\ wasted = {}
  /\ late = {}
  /\ origin = [a \in Account |-> Never]

HandlerStep(r) == Win(r) \/ FindClaimed(r) \/ Apply(r)

ControlNext ==
  \/ \E e \in ControlEvent : Publish(e)
  \/ Tick
  \/ \E r \in Replica :
       \/ \E e \in ControlEvent : Take(r, e)
       \/ HandlerStep(r)
       \/ FailToClaim(r) \/ HandleInVain(r)

\* Every replica replays the look-back when it starts and when it subscribes anew,
\* so what is published comes by again until it is too old; handlers go on.
ControlFairness ==
  /\ \A e \in ControlEvent : SF_controlVars(\E r \in Replica : Take(r, e))
  /\ \A r \in Replica : WF_controlVars(HandlerStep(r))

-----------------------------------------------------------------------------
(* Properties *)

ControlTypeOK ==
  /\ now \in 1..MaxNow
  /\ date \in [ControlEvent -> 0..(MaxNow + Skew)]
  /\ claim \in [ControlEvent -> 0..(MaxNow + ClaimTTL)]
  /\ handler \in [Replica -> {Idle} \cup [step : {"claiming", "claimed"}, event : ControlEvent]]
  /\ device \in SUBSET Account
  /\ consent \in SUBSET Account
  /\ begun \in [ControlEvent -> 0..MaxNow]
  /\ applied \in [ControlEvent -> 0..2]
  /\ wasted \in SUBSET ControlEvent
  /\ late \in SUBSET ControlEvent
  /\ origin \in [Account -> 0..(MaxNow + Skew)]

\* A control event is applied twice, and undoes what came after it, only if it was
\* not older than its first claim (dated ahead, or of the same second), so that it is
\* inside the horizon when the claim expires, or if it left the horizon while its
\* claim was under way (event_handler.rs:107-112, 153-185).
ReappliedOnlyAtTheEdge ==
  \A e \in ControlEvent : applied[e] > 1 => date[e] >= begun[e] \/ e \in late

\* No published event is passed over: it is applied, unless a claim or a handler
\* failed or it became too old (event_handler.rs:153-185).
EventsAreApplied ==
  <>[](\A e \in ControlEvent :
         IsPublished(e) => applied[e] > 0 \/ e \in wasted \/ IsTooOld(e))

\* "The service removes a stored registration under any of these conditions: the
\* client publishes an explicit kind 3080 deregistration"
\* (docs/nip-xx-push-notifications.md:89-91): what is registered after a
\* deregistration was applied is not from before it.
DeregistrationHolds ==
  \A e \in ControlEvent :
    e.kind = "deregister" /\ applied[e] > 0 /\ e.account \in device
      => origin[e.account] >= date[e]
=============================================================================
