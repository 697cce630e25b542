---------------------------- MODULE PushProvider ----------------------------
(***************************************************************************)
(* One push sent to the devices of an account (src/src/fcm_sender.rs).     *)
(*                                                                         *)
(* send_batch sends to several devices at a time.  Each send obtains a     *)
(* credential, makes a request and classifies what comes back; a timeout   *)
(* of the request runs inside a timeout of the whole send, because the     *)
(* credential has none of its own.  Callers delete a token that is         *)
(* reported as not registered, retry what is reported as retryable, and    *)
(* take every other failure for final.                                     *)
(*                                                                         *)
(* Whatever stands between the service and the provider may answer in its  *)
(* place.  An answer is a status, FCM's structured error code if any, and  *)
(* what the text of the body is about.                                     *)
(***************************************************************************)
EXTENDS Integers, FiniteSets, PushMessage

CONSTANTS
  Device,            \* tokens of the account
  Notification,      \* the pushes to choose from: [event, type, collapse]
  BatchConcurrency,  \* FCM_BATCH_CONCURRENCY
  RequestTimeout,    \* FCM_REQUEST_TIMEOUT
  OperationTimeout,  \* FCM_OPERATION_TIMEOUT
  RetryAfter         \* delays that an answer may ask for

DefaultRetryAfter == 1

\* No code, text or type stands for an absent one; the whole send is timed.
ASSUME ProviderAssumption ==
  /\ OperationTimeout \in Nat
  /\ None \notin {"UNREGISTERED", "NotRegistered", "invalidToken", "dm"}
  /\ \A push \in Notification :
       push.type # None /\ push.event.tags \in Seq(ToSet(push.event.tags))

VARIABLES
  batch,      \* the push being sent, if any: a set of at most one
  send,       \* how far the send to each device is
  discarded,  \* external: devices whose token is dead
  landed,     \* history: devices that the push may have reached
  relayed     \* history: devices whose answer did not come from the provider

providerVars == <<batch, send, discarded, landed, relayed>>

Waiting == [step |-> "waiting"]
Sent(d) == send[d].step = "sent"

-----------------------------------------------------------------------------
(* Answers                                                                 *)

Code == {"UNREGISTERED", "NotRegistered", "SENDER_ID_MISMATCH", None}
Text == {"invalidToken", "projectMismatch", "serviceNotRegistered", None}
Answer == [status : Nat, code : Code, text : Text, retryAfter : RetryAfter \cup {None}]

Says(status, code, text) ==
  [status |-> status, code |-> code, text |-> text, retryAfter |-> None]

\* What FCM answers, to a push that it takes and to others.
Acceptance == Says(200, None, None)
DeadToken == {Says(404, "UNREGISTERED", None), Says(400, None, "invalidToken")}
Rejection ==
  {Says(403, "SENDER_ID_MISMATCH", None), Says(401, None, None), Says(400, None, None)}
Backpressure ==
  {[Says(status, None, None) EXCEPT !.retryAfter = delay] :
     status \in {429, 503}, delay \in RetryAfter \cup {None}}

\* What a proxy answers, whether or not FCM got the push.
Interference ==
  {Says(404, None, None), Says(404, None, "serviceNotRegistered"),
   Says(502, None, "serviceNotRegistered"), Says(301, None, None)}

-----------------------------------------------------------------------------
(* classify_error                                                          *)

Succeeds(answer) == answer.status \in 200..299
ServerError(answer) == answer.status \in 500..599
ClientError(answer) == answer.status \in 400..499

\* Mutant: a 404 is a dead token.
DeadTokenByStatus(answer) ==
  \/ answer.status = 404
  \/ answer.code \in {"UNREGISTERED", "NotRegistered"}
  \/ answer.text = "invalidToken"

\* Only what is about the token is evidence that it is dead.
ShowsDeadToken(answer) ==
  \/ answer.code \in {"UNREGISTERED", "NotRegistered"}
  \/ answer.text = "invalidToken"

ShowsMismatch(answer) ==
  answer.code = "SENDER_ID_MISMATCH" \/ answer.text = "projectMismatch"

DelayAsked(answer) ==
  IF answer.retryAfter = None THEN DefaultRetryAfter ELSE answer.retryAfter

Failure(error) == [error |-> error, delay |-> 0]

Classify(answer) ==
  CASE ServerError(answer) \/ answer.status = 429 ->
         [error |-> "RetryableInternal", delay |-> DelayAsked(answer)]
    [] ~ServerError(answer) /\ answer.status # 429 /\ ShowsDeadToken(answer) ->
         Failure("TokenNotRegistered")
    [] OTHER ->
         Failure(CASE ShowsMismatch(answer) -> "InvalidRequest"
                   [] ~ShowsMismatch(answer) /\ answer.status \in {401, 403} -> "Unauthorized"
                   [] ~ShowsMismatch(answer) /\ ClientError(answer)
                        /\ answer.status \notin {401, 403} -> "InvalidRequest"
                   [] OTHER -> "Unknown")

ResultOf(answer) == IF Succeeds(answer) THEN Failure("none") ELSE Classify(answer)

-----------------------------------------------------------------------------
(* One send                                                                *)

Finish(d, result) == send' = [send EXCEPT ![d] = [step |-> "sent", result |-> result]]
Underway == {d \in Device : send[d].step \in {"credential", "request", "unheard"}}
Requested(s) == s.step \in {"request", "unheard"}

\* send_batch: every device once, so many at a time.
StartBatch ==
  /\ batch = {}
  /\ \E push \in Notification : batch' = {push}
  /\ landed' = {}
  /\ relayed' = {}
  /\ send' = [d \in Device |-> Waiting]
  /\ UNCHANGED discarded

StartSend(d) ==
  /\ batch # {}
  /\ send[d] = Waiting
  /\ Cardinality(Underway) < BatchConcurrency
  /\ send' = [send EXCEPT ![d] = [step |-> "credential", time |-> 0, request |-> 0]]
  /\ UNCHANGED <<batch, discarded, landed, relayed>>

GetCredential(d) ==
  /\ send[d].step = "credential"
  /\ \/ send' = [send EXCEPT ![d].step = "request"]
     \/ Finish(d, Failure("Unauthorized"))
  /\ UNCHANGED <<batch, discarded, landed, relayed>>

\* The body of an answer may be lost on the way.
Heard(answer) == {answer, [answer EXCEPT !.code = None, !.text = None]}

\* The provider answers; its answer may get lost.
Answered(d) ==
  /\ send[d].step = "request"
  /\ \E answer \in IF d \in discarded THEN DeadToken
                   ELSE {Acceptance} \cup Rejection \cup Backpressure :
       /\ landed' = IF Succeeds(answer) THEN landed \cup {d} ELSE landed
       /\ \/ \E heard \in Heard(answer) : Finish(d, ResultOf(heard))
          \/ send' = [send EXCEPT ![d].step = "unheard"]
  /\ UNCHANGED <<batch, discarded, relayed>>

\* Something on the way answers, whether or not the provider has the push.
Interfere(d) ==
  /\ Requested(send[d])
  /\ relayed' = relayed \cup {d}
  /\ \/ UNCHANGED landed
     \/ send[d].step = "request" /\ d \notin discarded /\ landed' = landed \cup {d}
  /\ \E answer \in Interference : \E heard \in Heard(answer) : Finish(d, ResultOf(heard))
  /\ UNCHANGED <<batch, discarded>>

\* Mutant: a request that ended without an answer may be repeated.
UnansweredRetried == [error |-> "RetryableInternal", delay |-> DefaultRetryAfter]

\* A connection that breaks, and a timeout, leave open what became of the push.
Unanswered == Failure("InternalRequest")

Break(d) ==
  /\ Requested(send[d])
  /\ Finish(d, Unanswered)
  /\ UNCHANGED <<batch, discarded, landed, relayed>>

\* Mutant: only the request is timed.
ExpiredRequest(s) == Requested(s) /\ s.request >= RequestTimeout

Expired(s) ==
  \/ Requested(s) /\ s.request >= RequestTimeout
  \/ s.time >= OperationTimeout

TimeOutSend(d) ==
  /\ d \in Underway
  /\ Expired(send[d])
  /\ Finish(d, Unanswered)
  /\ UNCHANGED <<batch, discarded, landed, relayed>>

\* A panic is caught and costs one device its push.
Panic(d) ==
  /\ d \in Underway
  /\ Finish(d, Failure("InternalResponse"))
  /\ UNCHANGED <<batch, discarded, landed, relayed>>

\* The caller takes the results, or was cancelled and drops the sends.
TakeResults ==
  /\ batch # {}
  /\ \A d \in Device : Sent(d)
  /\ batch' = {}
  /\ UNCHANGED <<send, discarded, landed, relayed>>

DropBatch ==
  /\ batch # {}
  /\ batch' = {}
  /\ send' = [d \in Device |-> Waiting]
  /\ UNCHANGED <<discarded, landed, relayed>>

\* An app is uninstalled.
Discard(d) ==
  /\ discarded' = discarded \cup {d}
  /\ d \notin discarded
  /\ UNCHANGED <<batch, send, landed, relayed>>

\* Time stands still for a send that is due.
Older(s) ==
  [s EXCEPT !.time = @ + 1, !.request = IF Requested(s) THEN @ + 1 ELSE @]

Elapse ==
  /\ Underway # {}
  /\ \A d \in Underway : send[d].time < OperationTimeout
  /\ send' = [d \in Device |-> IF d \in Underway THEN Older(send[d]) ELSE send[d]]
  /\ UNCHANGED <<batch, discarded, landed, relayed>>

ProviderInit ==
  /\ batch = {}
  /\ send = [d \in Device |-> Waiting]
  /\ discarded = {}
  /\ landed = {}
  /\ relayed = {}

SendStep(d) ==
  \/ StartSend(d)
  \/ GetCredential(d)
  \/ Answered(d)
  \/ Interfere(d)
  \/ Break(d)
  \/ TimeOutSend(d)
  \/ Panic(d)

ProviderNext ==
  \/ StartBatch
  \/ \E d \in Device : SendStep(d) \/ Discard(d)
  \/ TakeResults
  \/ DropBatch
  \/ Elapse

\* Executors run what is ready and clocks go on; credentials, connections and
\* answers owe nobody anything.
ProviderFairness ==
  /\ \A d \in Device : WF_providerVars(StartSend(d)) /\ WF_providerVars(TimeOutSend(d))
  /\ WF_providerVars(TakeResults)
  /\ WF_providerVars(Elapse)

ProviderSpec == ProviderInit /\ [][ProviderNext]_providerVars /\ ProviderFairness

-----------------------------------------------------------------------------
(* Properties *)

ProviderTypeOK ==
  /\ batch \in SUBSET Notification /\ Cardinality(batch) <= 1
  /\ \A d \in Underway : send[d].time \in 0..OperationTimeout
  /\ discarded \in SUBSET Device
  /\ landed \in SUBSET Device
  /\ relayed \in SUBSET Device

\* Only a token that is dead is reported as not registered, whatever stands in
\* for the provider (fcm_sender.rs:202-208); and of the provider's own answers
\* only those to a push that it did not take are retryable, however the send ends
\* (fcm_sender.rs:190-194).
VerdictsAreTrue ==
  \A d \in Device :
    Sent(d) =>
      /\ send[d].result.error = "TokenNotRegistered" => d \in discarded
      /\ send[d].result.error = "RetryableInternal" /\ d \notin relayed => d \notin landed

\* Every batch comes to an end, though credentials may never be obtained and
\* requests never answered (fcm_sender.rs:40-52).
BatchesEnd == []<>(batch = {})

-----------------------------------------------------------------------------
(* The message of the batch *)

\* A reaction that copies more of the tags of its thread.
InThread(e, id, coordinate) ==
  [e EXCEPT !.tags = <<[name |-> "E", value |-> id], [name |-> "A", value |-> coordinate],
                       [name |-> "e", value |-> id]>> \o @]

\* A direct message's push says nothing of the sender or the content, and warms
\* nothing up (event_handler.rs:1670-1675).  What the user will see is urgent on
\* both platforms and is delivered now or not at all; both platforms collapse it
\* alike.
MessageFits ==
  \A push \in batch :
    LET payload == Immediate(Payload(push.event, push.type, push.collapse))
        message == Message(payload)
    IN /\ payload.type = "dm" =>
            /\ payload.sender = None
            /\ payload.references = [event |-> None, address |-> None]
            /\ ~message.apns.wakes
       /\ message.apns.push = "alert" <=> message.android.priority = "high"
       /\ message.apns.expires /\ message.android.expires
       /\ message.apns.collapse = message.android.collapse

\* Reactions to one post are counted together and not with those to other posts
\* of the thread: copying the thread's tags into a reaction to a post does not
\* move it to another group (event_handler.rs:2554-2562).
GroupsByPost ==
  \A push \in batch :
    DirectEvent(push.event) # None \/ DirectAddress(push.event) # None =>
      \A id \in {tag.value : tag \in ToSet(push.event.tags)}, coordinate \in Coordinate :
        GroupKey(InThread(push.event, id, coordinate)) = GroupKey(push.event)

\* What a device is sent is what its user should see (event_handler.rs:2298-2392).
MessageIsRight == MessageFits /\ GroupsByPost
=============================================================================
