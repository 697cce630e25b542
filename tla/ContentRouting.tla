--------------------------- MODULE ContentRouting ---------------------------
(***************************************************************************)
(* Who is told of one event, and what becomes of those who could not be    *)
(* (handle_content_event and process_fanout_job of                         *)
(* src/src/event_handler.rs).                                              *)
(*                                                                         *)
(* A handler tells the accounts an event tags one after the other.  For a  *)
(* video it then queues a job, from which workers tell the creator's bell  *)
(* watchers page by page, several at a time, leaving out those the video   *)
(* mentions.  Relays repeat the event, so handlers of several replicas go  *)
(* through it again, and a page's lease has no owner, so workers may be at *)
(* one page together; a claim per recipient (RecipientDelivery) keeps them *)
(* from telling anybody twice.  Replicas shut down at any moment.          *)
(*                                                                         *)
(* A handling and a page are both rounds: targets still to be told, those  *)
(* being told, the copy that they share, and the error to be reported.     *)
(* The queue is FanoutQueue's, but for scores and expiry: a member stays   *)
(* for the taking until a round with it ends.                              *)
(***************************************************************************)
EXTENDS Integers, FiniteSets, Sequences, SequencesExt

CONSTANTS
  Account,      \* accounts
  Events,       \* the events to choose from: [kind, author, tagged]
  Pages,        \* the pages of the author's watchers, a sequence of sequences
  Handler,      \* event handlers, one in each replica
  Worker,       \* fan-out workers
  Concurrency,  \* new_post_delivery_concurrency
  MaxAttempts   \* MAX_FANOUT_ATTEMPTS

VARIABLES
  event,        \* the event
  round,        \* what each handler and worker is doing
  claimed,      \* recipients whose claim for the event is taken
  enqueued,     \* whether the marker fanout:enqueued:{event_id} is set
  queue,        \* the event's members of new_post_fanout_jobs
  stopping,     \* handlers and workers whose replica is shutting down
  result,       \* history: how each handler's latest handling ended
  received,     \* history: the pushes each account got, as a sequence
  settled       \* history: watchers told, refused, found claimed, or given up

jobs == <<enqueued, queue>>
outcomes == <<result, received, settled>>
routingVars == <<event, round, claimed, jobs, stopping, outcomes>>

FirstJob == [page |-> 1, attempt |-> 0, copy |-> "none"]
Resting == [step |-> "rest", job |-> FirstJob, todo |-> {}, active |-> {}, copy |-> "none",
            type |-> "none", error |-> "none", missed |-> {}, failed |-> {}]
Pending == [outcome |-> "pending", missed |-> {}]
Kind == {"reaction", "comment", "repost", "article", "video", "other"}

\* An author without watchers has one page, which is empty.
ASSUME RoutingAssumption ==
  /\ \A e \in Events : e.kind \in Kind /\ e.tagged \in Seq(Account)
  /\ Pages \in Seq(Seq(Account)) /\ Pages # <<>>
  /\ Handler \cap Worker = {}
  /\ MaxAttempts \in Nat \ {0}

-----------------------------------------------------------------------------
(* Recipients: positions in the list of the event's tags or in a page      *)

TypeOf == [reaction |-> "like", comment |-> "comment", repost |-> "repost",
           article |-> "mention", video |-> "mention"]

\* find_comment_recipients: the first mention of each account.
Distinct(list) == {i \in DOMAIN list : \A j \in 1..(i - 1) : list[j] # list[i]}

\* content_notification_targets: only a comment names each account once.
Tagged == IF event.kind = "comment" THEN Distinct(event.tagged) ELSE DOMAIN event.tagged

\* deliverable_targets
Deliverable(list, positions) == {i \in positions : list[i] # event.author}

\* Mutant: a mentioned watcher is belled as well.
PageTargetsAll(page) == Deliverable(page, DOMAIN page)

\* watcher_page_targets: a mention wins over a bell.
PageTargets(page) ==
  {i \in Deliverable(page, DOMAIN page) : ~Contains(event.tagged, page[i])}

Accounts(list, positions) == {list[i] : i \in positions}

\* Those whom page p has to tell.
Watchers(p) == Accounts(Pages[p], PageTargets(Pages[p]))

-----------------------------------------------------------------------------
(* The copy, resolved at most once a round                                 *)

RendersContent(type) == type \in {"comment", "mention"}

\* resolve_event_scoped_copy: a copy has a name, or a short npub if the lookup
\* fails; for some types it has content, formatted, or raw if that fails.
Resolved(type) ==
  IF RendersContent(type) THEN {"whole", "short and content"} ELSE {"name", "short"}

\* What a job keeps of the copy of a round: the name.
NameOf(copy) ==
  CASE copy = "none" -> "none"
    [] copy \in {"whole", "name"} -> "name"
    [] OTHER -> "short"

-----------------------------------------------------------------------------
(* Rounds                                                                  *)

\* The list that r goes through, from its first position to its last.
List(r) == IF r \in Handler THEN event.tagged ELSE Pages[round[r].job.page]

Limit(r) == IF r \in Handler THEN 1 ELSE Concurrency
Finished(r) == round[r].todo = {} /\ round[r].active = {}
FirstError(r, error) == IF round[r].error = "none" THEN error ELSE round[r].error

\* A handler about to begin the next target sees that it is to stop.
StopsHere(r) == r \in Handler /\ r \in stopping

\* The next target of the list.
IsNext(r, i) == i \in round[r].todo /\ \A j \in round[r].todo : i <= j
Startable(r, i) ==
  /\ round[r].step = "telling"
  /\ IsNext(r, i)
  /\ Cardinality(round[r].active) < Limit(r)
  /\ ~StopsHere(r)

\* A page has done with an account.
SettledBy(r, a) == IF r \in Worker THEN settled \cup {a} ELSE settled

\* No device, muted, not allowed, or claimed already.
Skip(r, i) ==
  /\ Startable(r, i)
  /\ round' = [round EXCEPT ![r].todo = @ \ {i}, ![r].missed = @ \ {List(r)[i]}]
  /\ settled' = SettledBy(r, List(r)[i])
  /\ UNCHANGED <<event, claimed, jobs, stopping, result, received>>

Start(r, i) ==
  /\ Startable(r, i)
  /\ List(r)[i] \notin claimed
  /\ claimed' = claimed \cup {List(r)[i]}
  /\ round' = [round EXCEPT ![r].todo = @ \ {i}, ![r].active = @ \cup {List(r)[i]}]
  /\ UNCHANGED <<event, jobs, stopping, outcomes>>

\* Mutant: the first failure ends the round.
RemainingNone(r, i) == {}

\* What a failure leaves to do: the other recipients are told all the same.
Remaining(r, i) == round[r].todo \ {i}

\* A lookup fails.
FailToStart(r, i) ==
  /\ Startable(r, i)
  /\ round' = [round EXCEPT ![r].todo = Remaining(r, i), ![r].error = FirstError(r, "failed"),
                            ![r].failed = @ \cup {List(r)[i]}]
  /\ UNCHANGED <<event, claimed, jobs, stopping, outcomes>>

\* The first recipient past all gates pays for the copy of the round.
Resolve(r) ==
  /\ round[r].active # {}
  /\ round[r].copy = "none"
  /\ \E copy \in Resolved(round[r].type) : round' = [round EXCEPT ![r].copy = copy]
  /\ UNCHANGED <<event, claimed, jobs, stopping, outcomes>>

Ready(r, a) == a \in round[r].active /\ round[r].copy # "none"

\* Told for good: pushed, or refused by the budget or a visit.
Settle(r, a) ==
  /\ Ready(r, a)
  /\ received' \in {received, [received EXCEPT ![a] =
                    Append(@, [type |-> round[r].type, copy |-> round[r].copy])]}
  /\ round' = [round EXCEPT ![r].active = @ \ {a}, ![r].missed = @ \ {a}]
  /\ settled' = SettledBy(r, a)
  /\ UNCHANGED <<event, claimed, jobs, stopping, result>>

\* Every device failed in a way worth a retry, or the budget was out of reach.
Fail(r, a) ==
  /\ Ready(r, a)
  /\ claimed' = claimed \ {a}
  /\ round' = [round EXCEPT ![r].active = @ \ {a}, ![r].error = FirstError(r, "failed"),
                            ![r].failed = @ \cup {a}]
  /\ UNCHANGED <<event, jobs, stopping, outcomes>>

\* Before the push the claim is given up; during the push it is kept, and the
\* push may have been made.  A handler returns at once, a page drains.
Cancel(r, a) ==
  /\ r \in stopping
  /\ a \in round[r].active
  /\ \/ claimed' = claimed \ {a} /\ UNCHANGED <<received, settled>>
     \/ /\ Ready(r, a)
        /\ settled' = SettledBy(r, a)
        /\ received' \in {received, [received EXCEPT ![a] =
                          Append(@, [type |-> round[r].type, copy |-> round[r].copy])]}
        /\ UNCHANGED claimed
  /\ round' = [round EXCEPT ![r].active = @ \ {a},
                            ![r].todo = IF r \in Handler THEN {} ELSE @,
                            ![r].error = IF r \in Handler THEN "cancelled"
                                         ELSE FirstError(r, "cancelled")]
  /\ UNCHANGED <<event, jobs, stopping, result>>

\* A handler stops before its next target; a page's next delivery at its first
\* checkpoint.
StopEarly(r, i) ==
  /\ r \in stopping
  /\ round[r].step = "telling"
  /\ IsNext(r, i)
  /\ round[r].active = {} \/ r \in Worker
  /\ round' = [round EXCEPT ![r].todo = IF r \in Handler THEN {} ELSE @ \ {i},
                            ![r].error = IF r \in Handler THEN "cancelled"
                                         ELSE FirstError(r, "cancelled")]
  /\ UNCHANGED <<event, claimed, jobs, stopping, outcomes>>

-----------------------------------------------------------------------------
(* Handling the event                                                      *)

\* A relay delivers the event, or repeats it.
Handle(h) ==
  /\ round[h] = Resting
  /\ h \notin stopping
  /\ event.kind # "other"
  /\ LET targets == Deliverable(event.tagged, Tagged)
     IN round' = [round EXCEPT ![h] =
          [Resting EXCEPT !.step = "telling", !.todo = targets, !.type = TypeOf[event.kind],
                          !.missed = Accounts(event.tagged, targets)]]
  /\ result' = [result EXCEPT ![h] = Pending]
  /\ UNCHANGED <<event, claimed, jobs, stopping, received, settled>>

Report(h, outcome) ==
  /\ round' = [round EXCEPT ![h] = Resting]
  /\ result' = [result EXCEPT ![h] = [outcome |-> outcome,
                                      missed |-> round[h].missed \ round[h].failed]]

EndHandling(h) ==
  /\ round[h].step = "telling"
  /\ Finished(h)
  /\ event.kind # "video"
  /\ Report(h, round[h].error)
  /\ UNCHANGED <<event, claimed, jobs, stopping, received, settled>>

\* enqueue_initial_fanout_job: once for all handlings of the event.
Queue(h) ==
  /\ round[h].step = "telling"
  /\ Finished(h)
  /\ event.kind = "video"
  /\ enqueued' = TRUE
  /\ queue' = IF enqueued THEN queue
              ELSE queue \cup {[FirstJob EXCEPT !.copy = NameOf(round[h].copy)]}
  /\ Report(h, round[h].error)
  /\ UNCHANGED <<event, claimed, stopping, received, settled>>

QueueFails(h) ==
  /\ round[h].step = "telling"
  /\ Finished(h)
  /\ event.kind = "video"
  /\ Report(h, "unqueued")
  /\ UNCHANGED <<event, claimed, jobs, stopping, received, settled>>

-----------------------------------------------------------------------------
(* Telling the watchers                                                    *)

\* claim_fanout_job, for as long as the lease lasts, and the page, which it may
\* not be possible to read.
TakePage(w) ==
  /\ round[w] = Resting
  /\ w \notin stopping
  /\ \E j \in queue, error \in {"none", "unread"} :
       round' = [round EXCEPT ![w] =
         [Resting EXCEPT !.step = "telling", !.job = j, !.type = "bell", !.copy = j.copy,
                         !.todo = IF error = "none" THEN PageTargets(Pages[j.page]) ELSE {},
                         !.missed = Watchers(j.page), !.error = error]]
  /\ UNCHANGED <<event, claimed, jobs, stopping, outcomes>>

\* fanout_successor_job.  A page that was not read does not say which is next.
Successor(w) ==
  {[page |-> page, attempt |-> 0, copy |-> NameOf(round[w].copy)] :
     page \in IF round[w].error = "unread" THEN {} ELSE {round[w].job.page + 1} \cap DOMAIN Pages}

\* Whether the page's round calls for a retry.
Retries(w) == round[w].error \in {"failed", "unread"}

Exhausted(w) == round[w].job.attempt + 1 >= MaxAttempts

\* Whom the last attempt at a page gives up: those it missed, or, if it was not
\* read, all from there on.
GivenUp(w) ==
  CASE ~Exhausted(w) -> {}
    [] round[w].error = "unread" -> UNION {Watchers(p) : p \in round[w].job.page..Len(Pages)}
    [] OTHER -> round[w].missed

\* Mutant: a page that failed is passed.
ReplacementNext(w) == Successor(w)

\* A retry keeps the name the job had, not one resolved in this round.
Replacement(w) ==
  IF Retries(w) /\ ~Exhausted(w) THEN {[round[w].job EXCEPT !.attempt = @ + 1]}
  ELSE Successor(w)

\* complete_fanout_job and retry_fanout_job insert before they remove, whatever
\* other workers made of the page meanwhile.
EndPage(w) ==
  /\ round[w].step = "telling"
  /\ Finished(w)
  /\ round[w].error # "cancelled"
  /\ queue' = (queue \cup Replacement(w)) \ {round[w].job}
  /\ settled' = settled \cup GivenUp(w)
  /\ round' = [round EXCEPT ![w] = Resting]
  /\ UNCHANGED <<event, claimed, enqueued, stopping, result, received>>

\* A page that was cut off by a shutdown, or whose script failed, is left to be
\* claimed again as it is, if it is still there.
PreservePage(w) ==
  /\ round[w].step = "telling"
  /\ Finished(w)
  /\ round' = [round EXCEPT ![w] = Resting]
  /\ UNCHANGED <<event, claimed, jobs, stopping, outcomes>>

-----------------------------------------------------------------------------
Stop(r) ==
  /\ r \notin stopping
  /\ stopping' = stopping \cup {r}
  /\ UNCHANGED <<event, round, claimed, jobs, outcomes>>

Restart(r) ==
  /\ r \in stopping
  /\ round[r] = Resting
  /\ stopping' = stopping \ {r}
  /\ UNCHANGED <<event, round, claimed, jobs, outcomes>>

RoutingInit ==
  /\ event \in Events
  /\ round = [r \in Handler \cup Worker |-> Resting]
  /\ claimed = {}
  /\ enqueued = FALSE
  /\ queue = {}
  /\ stopping = {}
  /\ result = [h \in Handler |-> Pending]
  /\ received = [a \in Account |-> <<>>]
  /\ settled = {}

RoundStep(r) ==
  \/ \E i \in round[r].todo : Skip(r, i) \/ Start(r, i) \/ FailToStart(r, i) \/ StopEarly(r, i)
  \/ Resolve(r)
  \/ \E a \in Account : Settle(r, a) \/ Fail(r, a) \/ Cancel(r, a)
  \/ Stop(r)
  \/ Restart(r)

HandlerStep(h) == Handle(h) \/ EndHandling(h) \/ Queue(h) \/ QueueFails(h)
WorkerStep(w) == TakePage(w) \/ EndPage(w) \/ PreservePage(w)

RoutingNext ==
  \/ \E r \in Handler \cup Worker : RoundStep(r)
  \/ \E h \in Handler : HandlerStep(h)
  \/ \E w \in Worker : WorkerStep(w)

RoutingSpec == RoutingInit /\ [][RoutingNext]_routingVars

-----------------------------------------------------------------------------
(* Properties *)

Copy == {"none", "whole", "short and content", "name", "short"}
PushType == {"like", "comment", "repost", "mention", "bell"}
Error == {"none", "failed", "cancelled", "unread"}
Outcome == Error \cup {"pending", "unqueued"}
Job ==
  [page : DOMAIN Pages, attempt : 0..(MaxAttempts - 1), copy : {"none", "name", "short"}]
Round ==
  [step : {"rest", "telling"}, job : Job, todo : SUBSET Nat, active : SUBSET Account, copy : Copy,
   type : PushType \cup {"none"}, error : Error,
   missed : SUBSET Account, failed : SUBSET Account]

RoutingTypeOK ==
  /\ event \in Events
  /\ round \in [Handler \cup Worker -> Round]
  /\ claimed \in SUBSET Account
  /\ enqueued \in BOOLEAN
  /\ queue \in SUBSET Job
  /\ stopping \in SUBSET (Handler \cup Worker)
  /\ result \in [Handler -> [outcome : Outcome, missed : SUBSET Account]]
  /\ received \in [Account -> Seq([type : PushType, copy : Copy])]
  /\ settled \in SUBSET Account

\* Nobody is told of their own event, nor of one event twice, however often it is
\* handled, cut off and retried, and by however many workers at a time
\* (redis_store.rs:727-735).  An account that a video mentions is told so, and
\* not by a bell even if it watches the creator (event_handler.rs:1400-1406); and
\* what renders the event's content is given a copy with content, not one
\* resolved for other types (event_handler.rs:1223-1233).
ToldRightly ==
  \A a \in Account :
    received[a] # <<>> =>
      /\ a # event.author
      /\ Len(received[a]) = 1
      /\ (received[a][1].type = "bell") <=> (a \notin ToSet(event.tagged))
      /\ RendersContent(received[a][1].type) =>
           received[a][1].copy \in {"whole", "short and content"}

\* Nobody goes untold for the failure of another.  A handling that runs to its end
\* leaves out only those whose own telling failed, and then reports failure; it
\* queues the watchers' job whatever became of the mentions.  From then on a
\* watcher with whom no page is done, and who is not given up, has a job at its page
\* or an earlier one in the queue, whoever completes, repeats or brings back a page
\* (event_handler.rs:659-694, 785-829, 983-1013; redis_store.rs:727-735).
NobodyPassedOver ==
  /\ \A h \in Handler :
       /\ result[h].outcome \in {"none", "failed"} => result[h].missed = {}
       /\ event.kind = "video" /\ result[h].outcome \in {"none", "failed", "cancelled"} =>
            enqueued
  /\ enqueued => \A p \in DOMAIN Pages : \A a \in Watchers(p) \ settled :
                   \E j \in queue : j.page <= p
=============================================================================
