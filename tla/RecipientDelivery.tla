------------------------- MODULE RecipientDelivery -------------------------
(***************************************************************************)
(* Delivery of notifications to one recipient                              *)
(* (send_notification_trigger_to_user in src/src/event_handler.rs over the *)
(* claims of src/src/redis_store.rs).                                      *)
(*                                                                         *)
(* Event handlers and fan-out workers of all replicas, here tasks, attempt *)
(* the same events again and again: relays repeat them, pages are retried. *)
(* A claim per event and recipient, taken just before the push, keeps a    *)
(* push from being repeated; a record per video coordinate, recipient and  *)
(* type, written just after it, keeps an edit (another event with the same *)
(* coordinate) from notifying again; a window per creator, opened by a     *)
(* push to a bell watcher, drops further bells.  Other events, reactions,  *)
(* comments and direct messages among them, take the claim and no record.  *)
(*                                                                         *)
(* Several devices answer a push, each for itself (PushProvider); which of *)
(* an event's recipients are attempted, and when, is ContentRouting's.     *)
(*                                                                         *)
(* The recipient and the creator are fixed: all of these keys name both.   *)
(* The interruption budget enters as what DeliveryBudget guarantees of     *)
(* nonurgent pushes: those of different events are Gap apart.  Devices,    *)
(* preferences and the budget's refusals are choices.                      *)
(***************************************************************************)
EXTENDS Integers, FiniteSets

CONSTANTS
  Coordinate,   \* addressable videos: kind, author and d-tag; or what others are about
  Event,        \* versions of videos, and other events
  Task,         \* tasks that deliver
  MaxAge,       \* max_event_age_secs
  Skew,         \* how far in the future an event may be dated
  ClaimTTL,     \* processed_event_ttl_secs
  RateWindow,   \* new_post_rate_limit_secs
  Gap,          \* min_interval_secs
  AttemptTime   \* how long one attempt may take

\* A version names the recipient (a mention) or reaches it as a watcher (a bell).
\* A direct message has no age; its sender retries for as long.
\* The relations between the lifetimes are those of the shipped settings; what
\* dates events may have is up to their authors.
ASSUME RecipientAssumption ==
  /\ Event \subseteq [coordinate : Coordinate, version : Nat, type : {"mention", "bell", "other"}]
  /\ {MaxAge, Skew, AttemptTime, RateWindow} \subseteq Nat
  /\ {ClaimTTL, Gap} \subseteq Nat
  /\ ClaimTTL > MaxAge + Skew + AttemptTime
  /\ Gap > 2 * AttemptTime
  /\ "nobody" \notin Task

VARIABLES
  published,    \* events that were published
  fresh,        \* how long each event is still accepted, 0 if it is too old
  claim,        \* dedup:{event}:{recipient}: owner and time to live
  videoClaim,   \* dedup:{kind}:{type}:{author}:{d}:{recipient}, kept for a year
  rate,         \* what is left of notify_rate:{recipient}:{creator}
  gap,          \* what is left of the gap after the latest push that was cleared
  cleared,      \* the events whose push was cleared in that gap
  task,         \* what each task is doing
  pushes,       \* history: pushes of each event, counted up to 2
  told,         \* history: what pushes told the recipient: coordinates and types
  repeated,     \* history: what they told again
  unrecorded,   \* history: what they told without a record of it being written
  mixed,        \* history: events released though a device may have got the push
  decided       \* history: events refused for good, or whose attempt was cut off

claims == <<claim, videoClaim, rate>>
budget == <<gap, cleared>>
history == <<pushes, told, repeated, unrecorded, mixed, decided>>
recipientVars == <<published, fresh, claims, budget, task, history>>

Nobody == "nobody"
Idle == [step |-> "idle"]
NoClaim == [owner |-> Nobody, left |-> 0]
Type == {"mention", "bell", "other"}

At(t, step) == task[t].step = step
GoTo(t, step) == task' = [task EXCEPT ![t].step = step]
End(t) == task' = [task EXCEPT ![t] = Idle]

-----------------------------------------------------------------------------
(* The gates before the claim                                              *)

\* An event dated in the future counts as new until its date has passed.
Publish(e) ==
  /\ e \notin published
  /\ published' = published \cup {e}
  /\ \E ahead \in 0..Skew : fresh' = [fresh EXCEPT ![e] = MaxAge + ahead + 1]
  /\ UNCHANGED <<claims, budget, task, history>>

Begin(t, e) ==
  /\ task[t] = Idle
  /\ fresh[e] > 0
  /\ task' = [task EXCEPT ![t] = [step |-> IF e.type = "other" THEN "unclaimed" ELSE "open",
                                  event |-> e, type |-> e.type, todo |-> {}, time |-> 0]]
  /\ UNCHANGED <<published, fresh, claims, budget, history>>

BeforeClaim(t) == task[t].step \in {"open", "bell", "limited", "unclaimed"}

\* Not allowed, no device awake, muted, a lookup failed, or cancelled.
Leave(t) ==
  /\ BeforeClaim(t)
  /\ End(t)
  /\ UNCHANGED <<published, fresh, claims, budget, history>>

\* A muted mention reaches a watcher as a bell.
DeliveryTypes(type) == IF type = "mention" THEN {"mention", "bell"} ELSE {type}

\* has_video_claim
CheckVideo(t) ==
  /\ At(t, "open")
  /\ \E type \in DeliveryTypes(task[t].event.type) :
       IF <<task[t].event.coordinate, type>> \in videoClaim
       THEN End(t)
       ELSE task' = [task EXCEPT ![t].type = type,
                                 ![t].step = IF type = "bell" THEN "bell" ELSE "unclaimed"]
  /\ UNCHANGED <<published, fresh, claims, budget, history>>

CheckRate(t) ==
  /\ At(t, "bell")
  /\ GoTo(t, IF rate > 0 THEN "limited" ELSE "unclaimed")
  /\ UNCHANGED <<published, fresh, claims, budget, history>>

\* A bell inside the window is dropped, and so are the bells of later edits.
RecordLimited(t) ==
  /\ At(t, "limited")
  /\ videoClaim' = videoClaim \cup {<<task[t].event.coordinate, "bell">>}
  /\ End(t)
  /\ UNCHANGED <<published, fresh, claim, rate, budget, history>>

-----------------------------------------------------------------------------
(* The claim, and what gives it up                                         *)

\* try_claim_recipient_event: SET NX EX; its reply may be lost.
TakeClaim(t) ==
  LET e == task[t].event
  IN /\ At(t, "unclaimed")
     /\ IF claim[e] = NoClaim
        THEN /\ claim' = [claim EXCEPT ![e] = [owner |-> t, left |-> ClaimTTL]]
             /\ \/ GoTo(t, "claimed") /\ UNCHANGED decided
                \/ End(t) /\ decided' = decided \cup {e}
        ELSE End(t) /\ UNCHANGED <<claim, decided>>
     /\ UNCHANGED <<published, fresh, videoClaim, rate, budget, pushes, told, repeated,
                    unrecorded, mixed>>

\* Mutant: an attempt that ends before the push keeps its claim.
AfterFailureKept == "idle"

\* Where an attempt goes that failed, or was cancelled, before the push.
AfterFailure == "releasing"

GoOrEnd(t, step) == IF step = "idle" THEN End(t) ELSE GoTo(t, step)

\* Cancelled while the copy is resolved, or the budget cannot be reached.
FailBeforePush(t) ==
  /\ At(t, "claimed")
  /\ GoOrEnd(t, AfterFailure)
  /\ UNCHANGED <<published, fresh, claims, budget, history>>

\* Quiet hours, the budget, or a visit: for good.
Refuse(t) ==
  /\ At(t, "claimed")
  /\ End(t)
  /\ decided' = decided \cup {task[t].event}
  /\ UNCHANGED <<published, fresh, claims, budget, pushes, told, repeated, unrecorded,
                 mixed>>

\* A like or repost joins a digest, for good, or that fails; it may also be let
\* through (CoalesceQueue).
Ingest(t) ==
  /\ At(t, "claimed")
  /\ task[t].type = "other"
  /\ \/ End(t) /\ decided' = decided \cup {task[t].event}
     \/ GoOrEnd(t, AfterFailure) /\ UNCHANGED decided
  /\ UNCHANGED <<published, fresh, claims, budget, pushes, told, repeated, unrecorded,
                 mixed>>

\* reserve_budget_for_class and validate_reservation_for_class: an event that
\* was cleared before may be cleared again.  Direct messages know no gap.
Clear(t) ==
  /\ At(t, "claimed")
  /\ \/ /\ cleared \subseteq {task[t].event}
        /\ gap' = Gap
        /\ cleared' = {task[t].event}
     \/ task[t].type = "other" /\ UNCHANGED budget
  /\ GoTo(t, "sending")
  /\ UNCHANGED <<published, fresh, claims, history>>

\* release_recipient_event_claim
Release(t) ==
  /\ At(t, "releasing")
  /\ claim' = IF claim[task[t].event].owner = t
              THEN [claim EXCEPT ![task[t].event] = NoClaim] ELSE claim
  /\ End(t)
  /\ UNCHANGED <<published, fresh, videoClaim, rate, budget, history>>

ReleaseFails(t) ==
  /\ At(t, "releasing")
  /\ End(t)
  /\ decided' = decided \cup {task[t].event}
  /\ UNCHANGED <<published, fresh, claims, budget, pushes, told, repeated, unrecorded,
                 mixed>>

-----------------------------------------------------------------------------
(* The push and what is written after it                                   *)

\* Mutant: a mention leaves the bell's record unwritten.
SatisfiedOnly(type) == {type}

\* satisfied_video_claims
Satisfied(type) ==
  CASE type = "mention" -> {"mention", "bell"}
    [] type = "bell" -> {"bell"}
    [] type = "other" -> {}

\* What a push of the task's type tells the recipient: a mention names the video,
\* so it also says that the video exists.
News(t) ==
  LET type == task[t].type
      bell == IF type = "mention" THEN {"bell"} ELSE {}
  IN {task[t].event.coordinate} \X (({type} \cup bell) \ {"other"})

\* The push reaches a device, and some record of it will be written or not.
Land(t, recorded) ==
  LET e == task[t].event
      news == {<<e.coordinate, task[t].type>>} \cap News(t)
  IN /\ pushes' = [pushes EXCEPT ![e] = IF @ < 2 THEN @ + 1 ELSE 2]
     /\ repeated' = repeated \cup (news \cap told)
     /\ told' = told \cup News(t)
     /\ unrecorded' = IF recorded THEN unrecorded ELSE unrecorded \cup News(t)

NoPush == UNCHANGED <<pushes, told, repeated, unrecorded>>

\* What devices answer: a push was accepted, was not but may be retried, failed
\* for good, or nobody knows.
Answer == {"accepted", "retryable", "failed", "unknown"}

\* Some device accepted it.
Accept(t) ==
  /\ At(t, "sending")
  /\ Land(t, TRUE)
  /\ task' = [task EXCEPT
       ![t] = IF task[t].type = "other" THEN Idle
              ELSE [task[t] EXCEPT
                     !.step = IF task[t].type = "bell" THEN "accepted" ELSE "recording",
                     !.todo = Satisfied(task[t].type)]]
  /\ UNCHANGED <<published, fresh, claims, budget, mixed, decided>>

\* Mutant: a send that is cut off gives its claim up.
AfterCutOffReleased == "releasing"

\* Where an attempt goes whose push may or may not have been made.
AfterCutOff == "idle"

\* No device accepted it.  If any failed retryably, the claim is given up,
\* whatever the others said; else the event is done with.
Refused(t) ==
  /\ At(t, "sending")
  /\ \E answers \in SUBSET (Answer \ {"accepted"}) :
       LET again == "retryable" \in answers
           e == task[t].event
       IN /\ answers # {}
          /\ GoOrEnd(t, IF again THEN "releasing" ELSE AfterCutOff)
          /\ \/ NoPush /\ UNCHANGED mixed
             \/ /\ "unknown" \in answers
                /\ Land(t, FALSE)
                /\ mixed' = IF again THEN mixed \cup {e} ELSE mixed
          /\ decided' = IF again THEN decided ELSE decided \cup {e}
  /\ UNCHANGED <<published, fresh, claims, budget>>

\* The send is cancelled, or the process dies.
CutOff(t) ==
  /\ At(t, "sending")
  /\ GoOrEnd(t, AfterCutOff)
  /\ NoPush \/ Land(t, FALSE)
  /\ decided' = decided \cup {task[t].event}
  /\ UNCHANGED <<published, fresh, claims, budget, mixed>>

\* The window is opened, or the write fails.
OpenWindow(t) ==
  /\ At(t, "accepted")
  /\ rate' \in {RateWindow, rate}
  /\ GoTo(t, "recording")
  /\ UNCHANGED <<published, fresh, claim, videoClaim, budget, history>>

\* record_video_claims: one write after the other; any of them may fail.
Record(t, type) ==
  LET entry == <<task[t].event.coordinate, type>>
  IN /\ At(t, "recording")
     /\ type \in task[t].todo
     /\ \/ videoClaim' = videoClaim \cup {entry} /\ UNCHANGED unrecorded
        \/ unrecorded' = unrecorded \cup {entry} /\ UNCHANGED videoClaim
     /\ IF task[t].todo = {type} THEN End(t)
        ELSE task' = [task EXCEPT ![t].todo = @ \ {type}]
     /\ UNCHANGED <<published, fresh, claim, rate, budget, pushes, told, repeated, mixed,
                    decided>>

\* Cancelled while the provider's answers are gone through.
CancelBookkeeping(t) ==
  /\ task[t].step \in {"accepted", "recording"}
  /\ unrecorded' = unrecorded \cup ({task[t].event.coordinate} \X task[t].todo)
  /\ End(t)
  /\ UNCHANGED <<published, fresh, claims, budget, pushes, told, repeated, mixed,
                    decided>>

\* The process dies; in mid-send it is a CutOff.
Crash(t) ==
  /\ task[t].step \in {"claimed", "releasing"}
  /\ decided' = decided \cup {task[t].event}
  /\ End(t)
  /\ UNCHANGED <<published, fresh, claims, budget, pushes, told, repeated, unrecorded,
                 mixed>>

-----------------------------------------------------------------------------
Shorter(n) == IF n = 0 THEN 0 ELSE n - 1

Tick ==
  /\ \A t \in Task : task[t] # Idle => task[t].time < AttemptTime
  /\ fresh' = [e \in Event |-> Shorter(fresh[e])]
  /\ claim' = [e \in Event |-> IF claim[e].left <= 1 THEN NoClaim
                               ELSE [claim[e] EXCEPT !.left = @ - 1]]
  /\ rate' = Shorter(rate)
  /\ gap' = Shorter(gap)
  /\ cleared' = IF gap <= 1 THEN {} ELSE cleared
  /\ task' = [t \in Task |-> IF task[t] = Idle THEN Idle ELSE [task[t] EXCEPT !.time = @ + 1]]
  /\ UNCHANGED <<published, videoClaim, history>>

-----------------------------------------------------------------------------
Init ==
  /\ published = {}
  /\ fresh = [e \in Event |-> 0]
  /\ claim = [e \in Event |-> NoClaim]
  /\ videoClaim = {}
  /\ rate = 0
  /\ gap = 0
  /\ cleared = {}
  /\ task = [t \in Task |-> Idle]
  /\ pushes = [e \in Event |-> 0]
  /\ told = {}
  /\ repeated = {}
  /\ unrecorded = {}
  /\ mixed = {}
  /\ decided = {}

TaskStep(t) ==
  \/ \E e \in Event : Begin(t, e)
  \/ Leave(t)
  \/ CheckVideo(t)
  \/ CheckRate(t)
  \/ RecordLimited(t)
  \/ TakeClaim(t)
  \/ FailBeforePush(t)
  \/ Refuse(t)
  \/ Clear(t)
  \/ Release(t)
  \/ ReleaseFails(t)
  \/ Accept(t)
  \/ Ingest(t)
  \/ Refused(t)
  \/ CutOff(t)
  \/ OpenWindow(t)
  \/ \E type \in Type : Record(t, type)
  \/ CancelBookkeeping(t)
  \/ Crash(t)

Next ==
  \/ \E e \in Event : Publish(e)
  \/ \E t \in Task : TaskStep(t)
  \/ Tick

Spec == Init /\ [][Next]_recipientVars

-----------------------------------------------------------------------------
(* Properties *)

TaskState ==
  {Idle} \cup
  [step : {"open", "bell", "limited", "unclaimed", "claimed", "releasing", "sending",
           "accepted", "recording"},
   event : Event, type : Type, todo : SUBSET Type, time : 0..AttemptTime]

TypeOK ==
  /\ published \in SUBSET Event
  /\ fresh \in [Event -> 0..(MaxAge + Skew + 1)]
  /\ claim \in [Event -> [owner : Task \cup {Nobody}, left : 0..ClaimTTL]]
  /\ videoClaim \in SUBSET (Coordinate \X Type)
  /\ rate \in 0..RateWindow
  /\ gap \in 0..Gap
  /\ cleared \in SUBSET Event
  /\ task \in [Task -> TaskState]
  /\ pushes \in [Event -> 0..2]
  /\ told \in SUBSET (Coordinate \X Type)
  /\ repeated \in SUBSET (Coordinate \X Type)
  /\ unrecorded \in SUBSET (Coordinate \X Type)
  /\ mixed \in SUBSET Event
  /\ decided \in SUBSET Event

\* A recipient gets at most one push for an event, however often and by however
\* many replicas it is attempted, cut off and retried
\* (docs/nip-xx-push-notifications.md:197).
EventPushedOnce == \A e \in Event : pushes[e] <= 1

\* It does unless one device failed retryably while nobody knows whether another
\* has the push: the claim is given up all the same (event_handler.rs:2272-2281).
PushedOnceUnlessMixed == \A e \in Event : e \notin mixed => pushes[e] <= 1

\* An edit of a video tells the recipient nothing it was told before: not the
\* same again, nor, after a mention, that the video exists; not even when
\* replicas handle both versions at once.  It may only if the record of the
\* earlier push was not written (event_handler.rs:1477-1494).
EditTellsNothingTwice == repeated \subseteq unrecorded

\* No event, and no edit of one, is told of twice, with these exceptions.
ToldOnce == PushedOnceUnlessMixed /\ EditTellsNothingTwice

HoldsClaim(t, e) ==
  /\ task[t].step \in {"claimed", "sending", "accepted", "recording", "releasing"}
  /\ task[t].event = e

\* A failure before the push, or a retryable one, does not use the event up:
\* a claim on which nobody works stands for a push, a final refusal or an
\* attempt that was cut off (docs/developer-guide.md:296-300).
ClaimsAreEarned ==
  \A e \in Event :
    claim[e] # NoClaim =>
      \/ pushes[e] > 0
      \/ e \in decided
      \/ \E t \in Task : HoldsClaim(t, e)
=============================================================================
