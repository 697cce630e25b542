--------------------------- MODULE RelayListener ---------------------------
(***************************************************************************)
(* The relay listener of one replica, its event-flow watchdog and the      *)
(* bounded channel to the event handler (src/src/nostr_listener.rs), under *)
(* the supervision of the replica's tasks.                                 *)
(*                                                                         *)
(* The listener forwards what the relay has stored, the notify lists page  *)
(* by page, and then subscribes twice, to events and to notify lists.      *)
(* What the relay says reaches it through a broadcast channel that drops   *)
(* its oldest entries when it is full; what it forwards goes into a        *)
(* channel that blocks when it is full.  When no event was forwarded for   *)
(* Silence, or the relay closes a subscription, it subscribes anew, and it *)
(* ends, and with it the replica, when that does not help.                 *)
(*                                                                         *)
(* Clocks are timers that count down or up to where the code stops telling *)
(* their values apart.                                                     *)
(***************************************************************************)
EXTENDS Supervision, Sequences, SequencesExt, FiniteSetsExt

CONSTANTS
  Listener,        \* the listener among the tasks
  Handler,         \* the event handler among the tasks
  Silence,         \* event_silence_timeout_secs
  Grace,           \* CLOSED_RECOVERY_GRACE
  Backoff,         \* RATE_LIMIT_RECOVERY_BACKOFF
  MaxRecoveries,   \* MAX_CLOSED_RECOVERIES_PER_WINDOW
  FeedCapacity,    \* entries that the broadcast channel keeps
  InboxCapacity,   \* events that the handler's channel holds
  Archives,        \* sets of notify lists that the relay may have stored
  PageLimit,       \* notify_list_history_limit
  MaxFailures      \* bound on other tasks that fail by themselves

ASSUME ListenerAssumption ==
  /\ {Listener, Handler} \subseteq Critical
  /\ Listener # Handler
  /\ {Silence, MaxRecoveries, FeedCapacity, InboxCapacity, PageLimit} \subseteq Nat \ {0}
  /\ Grace \in Nat /\ Backoff \in Nat \ {0}
  /\ \A archive \in Archives : IsFiniteSet(archive) /\ \A l \in archive : l.date \in Nat
  /\ MaxFailures \in Nat

VARIABLES
  step,        \* what the listener is doing
  sub,         \* the subscriptions at the relay
  feed,        \* relay notifications that the listener has not received
  inbox,       \* events that the handler has not received
  deadline,    \* what is left until silence_deadline
  attempted,   \* recovery_attempted
  recovery,    \* closed_recovery
  attempts,    \* closed_recovery_attempts: how long ago they were, within Silence
  failures,    \* how many other tasks failed by themselves
  quiet,       \* history: time since an event was forwarded
  overlooked,  \* history: closed subscriptions whose notice went unheeded
  renewals     \* history: how long ago subscriptions were renewed

watchVars == <<deadline, attempted, recovery, attempts>>
flowHistory == <<quiet, overlooked, renewals>>
listenerVars == <<step, sub, feed, watchVars, flowHistory>>
handlerVars == <<inbox, failures>>
replicaVars == <<supervisionVars, listenerVars, handlerVars>>

Subscription == {"events", "lists"}
NoRecovery == [trigger |-> "none"]
At(name) == step.at = name

Event == [type |-> "event"]
Noise == [type |-> "noise"]   \* the service's own events, and messages it only logs
Closed(s, limited) == [type |-> "closed", sub |-> s, limited |-> limited]
IsClosed(n, s) == n.type = "closed" /\ n.sub = s
Pending(queue, s) == \E i \in DOMAIN queue : IsClosed(queue[i], s)

\* The subscriptions that would stay closed if the listener knew only of queue.
Unheeded(subs, queue) == {s \in Subscription : subs[s] = "closed" /\ ~Pending(queue, s)}

\* What the listener is polled for; every await of it watches the token first.
Alive == Running(Listener) /\ ~cancelled

\* The listener's locals are dropped.
Dropped ==
  /\ sub' = [s \in Subscription |-> "none"]
  /\ feed' = <<>>
  /\ deadline' = Silence /\ attempted' = FALSE /\ recovery' = NoRecovery /\ attempts' = <<>>
  /\ quiet' = 0 /\ overlooked' = {} /\ renewals' = <<>>

End == step' = [at |-> "ended"] /\ Dropped /\ Return(Listener) /\ UNCHANGED handlerVars

GoTo(name) == step' = [at |-> name] /\ UNCHANGED supervisionVars

-----------------------------------------------------------------------------
(* The relay.  What it says to a listener that was cancelled is lost.      *)

\* The receiver is created after the first subscription.
Attached == step.at \in {"live", "sending", "backoff"} \/ (At("subscribing") /\ step.why # "start")

Posted(n) == IF Len(feed) < FeedCapacity THEN Append(feed, n) ELSE Append(Tail(feed), n)

\* The relay says n; the broadcast channel may drop an older entry.
Post(n) ==
  /\ feed' = IF Attached THEN Posted(n) ELSE feed
  /\ overlooked' = overlooked \cup Unheeded(sub', feed')
  /\ UNCHANGED <<supervisionVars, step, watchVars, quiet, renewals, handlerVars>>

Say ==
  /\ Alive
  /\ \E s \in Subscription : sub[s] = "open"
  /\ UNCHANGED sub
  /\ \E n \in {Event, Noise} : Post(n)

Close(s) ==
  /\ Alive
  /\ sub[s] = "open"
  /\ sub' = [sub EXCEPT ![s] = "closed"]
  /\ \E limited \in BOOLEAN : Post(Closed(s, limited))

-----------------------------------------------------------------------------
(* Start: connection, and stored control events                            *)

\* ensure_connected does not watch the token.
Connect ==
  /\ Running(Listener)
  /\ At("connecting")
  /\ GoTo(IF cancelled THEN "cancelled" ELSE "history")
  /\ UNCHANGED <<sub, feed, watchVars, flowHistory, handlerVars>>

FailToConnect ==
  /\ Running(Listener)
  /\ At("connecting")
  /\ End

\* The handler's channel takes an event.
Send ==
  /\ Alive
  /\ Running(Handler)
  /\ inbox < InboxCapacity
  /\ inbox' = inbox + 1
  /\ UNCHANGED failures

ForwardStored ==
  /\ At("history")
  /\ Send
  /\ UNCHANGED <<supervisionVars, listenerVars>>

\* All control events were forwarded, or their query failed.
FinishStored ==
  /\ Alive
  /\ At("history")
  /\ \E archive \in Archives :
       step' = [at |-> "asking", archive |-> archive, until |-> {}, seen |-> {}]
  /\ UNCHANGED <<supervisionVars, sub, feed, watchVars, flowHistory, handlerVars>>

-----------------------------------------------------------------------------
(* process_historical_notify_lists: pages of at most PageLimit lists, the  *)
(* latest first, back from the oldest date of the page before.  until is   *)
(* the set of that date, and empty before the first page.                  *)

Asked == {l \in step.archive : \A d \in step.until : l.date <= d}

\* A page of what was asked for; of lists with one date the relay may omit any.
IsPage(page, asked) ==
  /\ page \subseteq asked
  /\ Cardinality(page) = Min({PageLimit, Cardinality(asked)})
  /\ \A l \in page, m \in asked \ page : m.date <= l.date

FetchPage ==
  /\ Alive
  /\ At("asking")
  /\ \E page \in SUBSET step.archive :
       /\ IsPage(page, Asked)
       /\ step' = [at |-> "paging", archive |-> step.archive, page |-> page,
                   seen |-> step.seen, todo |-> page \ step.seen]
  /\ UNCHANGED <<supervisionVars, sub, feed, watchVars, flowHistory, handlerVars>>

\* Whether a list of the service's own is skipped is of no interest here.
ForwardList ==
  /\ At("paging")
  /\ \E l \in step.todo : step' = [step EXCEPT !.todo = @ \ {l}]
  /\ Send
  /\ UNCHANGED <<supervisionVars, sub, feed, watchVars, flowHistory>>

\* Mutant: the next page ends before the oldest date of this one.
OldestBefore(page) == Min({l.date : l \in page}) - 1

Oldest(page) == Min({l.date : l \in page})

\* The page is not full, or has nothing new.
IsLastPage(page, seen) == Cardinality(page) < PageLimit \/ page \subseteq seen

NextPage ==
  /\ Alive
  /\ At("paging")
  /\ step.todo = {}
  /\ step' = IF IsLastPage(step.page, step.seen)
             THEN [at |-> "paged", missed |-> step.archive \ (step.seen \cup step.page),
                   archive |-> step.archive]
             ELSE [at |-> "asking", archive |-> step.archive, until |-> {Oldest(step.page)},
                   seen |-> step.seen \cup step.page]
  /\ UNCHANGED <<supervisionVars, sub, feed, watchVars, flowHistory, handlerVars>>

Requests == <<"events", "lists">>
Ask(why) == [at |-> "subscribing", why |-> why, todo |-> Requests]
AskAgain(s, waited) ==
  [at |-> "subscribing", why |-> "closure", todo |-> Requests, trigger |-> s, waited |-> waited]

\* A page that cannot be fetched ends the replay, too.
FinishHistory ==
  /\ Alive
  /\ step.at \in {"asking", "paged"}
  /\ step' = Ask("start")
  /\ UNCHANGED <<supervisionVars, sub, feed, watchVars, flowHistory, handlerVars>>

-----------------------------------------------------------------------------
(* subscribe_to_live_events                                                *)

\* The ages below limit, of ages that stand in the order of what they are the ages
\* of, so that the old ones come first.
Young(ages, limit) ==
  SubSeq(ages, Max({0} \cup {i \in DOMAIN ages : ages[i] >= limit}) + 1, Len(ages))

\* How long renewals count: as long as any two attempts of one window are apart.
RenewalWindow == Silence - Backoff

\* One request at a time
Subscribe ==
  /\ Alive
  /\ At("subscribing")
  /\ step.todo # <<>>
  /\ sub' = [sub EXCEPT ![Head(step.todo)] = "open"]
  /\ step' = [step EXCEPT !.todo = Tail(@)]
  /\ overlooked' = overlooked \ {Head(step.todo)}
  /\ UNCHANGED <<supervisionVars, feed, watchVars, quiet, renewals, handlerVars>>

\* The subscriptions are renewed: run_live_loop starts, or goes on.
FinishSubscribing ==
  /\ Alive
  /\ At("subscribing")
  /\ step.todo = <<>>
  /\ deadline' = Silence
  /\ attempted' = (step.why # "start")
  /\ IF step.why = "closure"
     THEN /\ recovery' = [trigger |-> step.trigger, age |-> 0, sibling |-> FALSE,
                          resumed |-> FALSE]
          /\ attempts' = Append(attempts, step.waited)
     ELSE UNCHANGED <<recovery, attempts>>
  /\ renewals' = IF step.why = "start" THEN renewals
                 ELSE Append(Young(renewals, RenewalWindow), 0)
  /\ GoTo("live")
  /\ UNCHANGED <<sub, feed, quiet, overlooked, handlerVars>>

\* The request cannot be queued.
FailToSubscribe ==
  /\ Alive
  /\ At("subscribing")
  /\ step.todo # <<>>
  /\ End

-----------------------------------------------------------------------------
(* run_live_loop                                                           *)

\* When history is cancelled, the request after it is.
HeedCancellation ==
  /\ Running(Listener)
  /\ At("cancelled")
  /\ End

HearSilence ==
  /\ Alive
  /\ At("live")
  /\ deadline = 0
  /\ IF attempted THEN End
     ELSE /\ step' = Ask("silence")
          /\ UNCHANGED <<supervisionVars, sub, feed, watchVars, flowHistory, handlerVars>>

\* The next notification is taken: the timer comes first.
Receive(n) ==
  /\ Alive
  /\ At("live")
  /\ deadline > 0
  /\ feed # <<>>
  /\ n = Head(feed)

ReceiveEvent(n) ==
  /\ n.type = "event"
  /\ feed' = Tail(feed)
  /\ GoTo("sending")
  /\ UNCHANGED <<sub, watchVars, flowHistory, handlerVars>>

\* Mutant: what is not forwarded keeps the watchdog quiet, too.
DeadlineAfterNoiseReset == Silence

DeadlineAfterNoise == deadline

ReceiveNoise(n) ==
  /\ n.type = "noise"
  /\ feed' = Tail(feed)
  /\ deadline' = DeadlineAfterNoise
  /\ UNCHANGED <<supervisionVars, step, sub, attempted, recovery, attempts, flowHistory,
                 handlerVars>>

\* healthy_grace_elapsed
Healthy(r) == r # NoRecovery /\ r.resumed /\ r.age >= Grace

\* The recovery that a closure is held against.
Current == IF Healthy(recovery) THEN NoRecovery ELSE recovery

\* Mutant: any closure within the grace is taken for the sibling's.
StaleSiblingAlways(s) == Current.age < Grace /\ s # Current.trigger

StaleSibling(s) == Current.age < Grace /\ s # Current.trigger /\ ~Current.sibling

\* Mutant: attempts are not counted.
MayRecoverAlways == TRUE

MayRecover == Len(attempts) < MaxRecoveries

ClosedTwice(n) ==
  /\ n.type = "closed"
  /\ Current # NoRecovery
  /\ IF StaleSibling(n.sub)
     THEN /\ feed' = Tail(feed)
          /\ recovery' = [Current EXCEPT !.sibling = TRUE]
          /\ overlooked' = IF Current.sibling THEN overlooked
                           ELSE overlooked \cup Unheeded(sub, feed')
          /\ UNCHANGED <<supervisionVars, step, sub, deadline, attempted, attempts, quiet,
                         renewals, handlerVars>>
     ELSE End

\* A rate-limited closure waits before the listener subscribes anew.
ClosedOnce(n) ==
  /\ n.type = "closed"
  /\ Current = NoRecovery
  /\ IF ~attempted /\ MayRecover
     THEN /\ feed' = Tail(feed)
          /\ recovery' = NoRecovery
          /\ step' = IF n.limited
                     THEN [at |-> "backoff", left |-> Backoff, next |-> AskAgain(n.sub, Backoff)]
                     ELSE AskAgain(n.sub, 0)
          /\ UNCHANGED <<supervisionVars, sub, deadline, attempted, attempts, flowHistory,
                         handlerVars>>
     ELSE End

Hear ==
  \E n \in Range(feed) :
    /\ Receive(n)
    /\ ReceiveEvent(n) \/ ReceiveNoise(n) \/ ClosedTwice(n) \/ ClosedOnce(n)

BackOff ==
  /\ Alive
  /\ At("backoff")
  /\ step.left = 0
  /\ step' = step.next
  /\ UNCHANGED <<supervisionVars, sub, feed, watchVars, flowHistory, handlerVars>>

Forward ==
  /\ At("sending")
  /\ Send
  /\ attempted' = FALSE
  /\ deadline' = Silence
  /\ recovery' = IF recovery = NoRecovery THEN recovery ELSE [recovery EXCEPT !.resumed = TRUE]
  /\ quiet' = 0
  /\ GoTo("live")
  /\ UNCHANGED <<sub, feed, attempts, overlooked, renewals>>

\* The handler is gone, or the pool shuts down.
LoseHandler ==
  /\ Alive
  /\ step.at \in {"history", "paging", "sending"}
  /\ ~Running(Handler)
  /\ End

LosePool ==
  /\ Alive
  /\ At("live")
  /\ deadline > 0
  /\ End

\* What the listener does by itself.
Answer ==
  \/ Connect \/ FailToConnect \/ FinishStored
  \/ FetchPage \/ ForwardList \/ NextPage \/ FinishHistory
  \/ Subscribe \/ FinishSubscribing \/ FailToSubscribe
  \/ HeedCancellation \/ HearSilence \/ Hear \/ BackOff \/ Forward \/ LoseHandler

-----------------------------------------------------------------------------
(* The other tasks, and time                                               *)

\* Supervision goes on.  Once the token is cancelled, all that is left to a listener
\* that waits is to notice: what it knew is forgotten here.
Supervised(A) ==
  /\ A
  /\ IF cancelled' /\ ~cancelled /\ Running(Listener) /\ ~At("connecting")
     THEN step' = [at |-> "cancelled"] /\ Dropped
     ELSE UNCHANGED listenerVars
  /\ UNCHANGED handlerVars

Fail == failures < MaxFailures /\ failures' = failures + 1

\* event_handler::run ends only on request: main keeps a sender of the channel.
TaskEnds(t) ==
  /\ t # Listener
  /\ Return(t)
  /\ IF cancelled \/ t \in Tolerated THEN UNCHANGED failures ELSE t # Handler /\ Fail
  /\ UNCHANGED <<listenerVars, inbox>>

TaskPanics(t) ==
  /\ Panic(t)
  /\ Fail
  /\ IF t = Listener THEN step' = [at |-> "ended"] /\ Dropped ELSE UNCHANGED listenerVars
  /\ UNCHANGED inbox

HandleEvent ==
  /\ Running(Handler)
  /\ ~cancelled
  /\ inbox > 0
  /\ inbox' = inbox - 1
  /\ UNCHANGED <<supervisionVars, listenerVars, failures>>

Shorter(n) == IF n = 0 THEN 0 ELSE n - 1
Older(n, limit) == IF n < limit THEN n + 1 ELSE limit
AllOlder(ages, limit) == Young([i \in DOMAIN ages |-> ages[i] + 1], limit)

\* Time passes while the listener waits; a timer that is up is not late.
Waiting ==
  \/ At("live") /\ deadline > 0
  \/ At("backoff") /\ step.left > 0
  \/ At("sending") /\ inbox = InboxCapacity

LongestQuiet == 2 * Silence + Backoff

Tick ==
  /\ Alive
  /\ Waiting
  /\ deadline' = Shorter(deadline)
  /\ step' = IF At("backoff") THEN [step EXCEPT !.left = @ - 1] ELSE step
  /\ recovery' = IF recovery = NoRecovery THEN recovery
                  ELSE [recovery EXCEPT !.age = Older(@, Grace)]
  /\ attempts' = AllOlder(attempts, Silence)
  /\ renewals' = AllOlder(renewals, RenewalWindow)
  /\ quiet' = IF At("sending") THEN quiet ELSE Older(quiet, LongestQuiet)
  /\ UNCHANGED <<supervisionVars, sub, feed, attempted, overlooked, handlerVars>>

-----------------------------------------------------------------------------
Init ==
  /\ SupervisionInit
  /\ step = [at |-> "connecting"]
  /\ sub = [s \in Subscription |-> "none"]
  /\ feed = <<>>
  /\ inbox = 0
  /\ deadline = Silence
  /\ attempted = FALSE
  /\ recovery = NoRecovery
  /\ attempts = <<>>
  /\ failures = 0
  /\ quiet = 0
  /\ overlooked = {}
  /\ renewals = <<>>

Next ==
  \/ Say
  \/ \E s \in Subscription : Close(s)
  \/ Answer \/ ForwardStored \/ LosePool
  \/ \E t \in Task : TaskEnds(t) \/ TaskPanics(t)
  \/ HandleEvent
  \/ Tick
  \/ Supervised(\E t \in Task : Guard(t))
  \/ Supervised(FailToStart \/ Signal \/ MainStep)

\* The runtime polls every task that can go on, timers fire, and every task heeds
\* the token.  Nothing is assumed of the relay, of signals and of failures.
Fairness ==
  /\ WF_replicaVars(Answer)
  /\ WF_replicaVars(HandleEvent)
  /\ WF_replicaVars(Tick)
  /\ \A t \in Task : WF_replicaVars(cancelled /\ TaskEnds(t))
  /\ WF_replicaVars(Supervised(\E t \in Task : Guard(t)))
  /\ WF_replicaVars(Supervised(MainStep))

Spec == Init /\ [][Next]_replicaVars /\ Fairness

-----------------------------------------------------------------------------
(* Properties *)

\* The watchdog does its work whatever the relay says in between, closes and
\* rate-limits: a listener that is not blocked by its handler never goes without
\* an event for longer than two quiet periods and a backoff
\* (config/settings.yaml:5-8).
SilenceIsBounded ==
  Running(Listener) /\ step.at \in {"live", "backoff", "subscribing"} => quiet < LongestQuiet

\* A closed subscription is restored or ends the listener, unless its notice was
\* dropped (by the broadcast channel, or before the receiver existed) or taken
\* for that of an earlier closure, once in a recovery (nostr_listener.rs:39-42).
ClosureIsHeeded ==
  At("live") => Unheeded(sub, feed) \subseteq overlooked

\* A relay that keeps closing subscriptions, or that goes silent in between,
\* cannot make the listener replay the look-back again and again
\* (nostr_listener.rs:43-52).
ReplaysAreRationed == Len(renewals) <= MaxRecoveries + 1

\* The replay misses a stored list only if a page cannot be fetched, or if lists
\* of one date, no older than the missed one, fill a page (nostr_listener.rs:64-70).
ListsAreReplayed ==
  At("paged") =>
    \A l \in step.missed :
      \E m \in step.archive :
        /\ m.date >= l.date
        /\ Cardinality({o \in step.archive : o.date = m.date}) >= PageLimit

\* A task that dies takes the replica with it.
FailureStopsReplica ==
  \A t \in Task : status[t] \in {"panicked", "dying"} ~> main = "exited"
=============================================================================
