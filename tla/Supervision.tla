---------------------------- MODULE Supervision ----------------------------
(***************************************************************************)
(* The tasks of one replica and what happens when one of them ends         *)
(* (src/src/main.rs, src/src/health.rs, health_check of src/src/server.rs).*)
(*                                                                         *)
(* main reads the configuration, connects to Redis and to the push         *)
(* provider, and spawns every task under an exit guard.  The guard runs when the    *)
(* task's future returns or unwinds, on whatever thread that is: it looks  *)
(* at the shared cancellation token, and unless the end was in order it    *)
(* marks the task dead for /health, marks the exit as unexpected and       *)
(* cancels the token.  main waits for a signal or the token, cancels,      *)
(* joins all tasks and chooses the exit code.                              *)
(***************************************************************************)
EXTENDS Integers

CONSTANTS
  Task,       \* the tasks that main spawns
  Critical,   \* those that /health reports (CriticalTask)
  Tolerated   \* those that may finish on their own (OnReturn::Tolerated)

ASSUME SupervisionAssumption ==
  /\ Critical \subseteq Task
  /\ Tolerated \subseteq Task
  /\ Critical \cap Tolerated = {}

VARIABLES
  status,       \* what each task is doing
  alive,        \* the flags of TaskHealth
  unexpected,   \* its unexpected_exit
  cancelled,    \* the token
  main,         \* what main is doing
  code,         \* the exit code
  signalled,    \* history: somebody asked the process to stop
  panicked      \* history: a task panicked

taskVars == <<status, alive, unexpected, cancelled>>
mainVars == <<main, code, signalled, panicked>>
supervisionVars == <<taskVars, mainVars>>

NoCode == -1

Running(t) == status[t] = "running"
Ended(t) == status[t] \in {"returned", "panicked"}
Becomes(t, s) == status' = [status EXCEPT ![t] = s]

-----------------------------------------------------------------------------
(* Tasks and their guards                                                  *)

Return(t) ==
  /\ Running(t)
  /\ Becomes(t, "returned")
  /\ UNCHANGED <<alive, unexpected, cancelled, mainVars>>

Panic(t) ==
  /\ Running(t)
  /\ Becomes(t, "panicked")
  /\ panicked' = TRUE
  /\ UNCHANGED <<alive, unexpected, cancelled, main, code, signalled>>

\* Mutant: every return is in order.
InOrderReturned(t) == status[t] = "returned"

\* An end in order: a return, on request or of a task that may finish.
InOrder(t) == status[t] = "returned" /\ (cancelled \/ t \in Tolerated)

\* TaskExitGuard::drop; others may act between its steps.
Judge(t) ==
  /\ Ended(t)
  /\ Becomes(t, IF InOrder(t) THEN "gone" ELSE "dying")
  /\ UNCHANGED <<alive, unexpected, cancelled, mainVars>>

\* Mutant: only a critical task's end is remembered.
UnexpectedIfCritical(t) == unexpected \/ t \in Critical

UnexpectedAfter(t) == TRUE

MarkDead(t) ==
  /\ status[t] = "dying"
  /\ alive' = alive \ {t}
  /\ unexpected' = UnexpectedAfter(t)
  /\ Becomes(t, "marked")
  /\ UNCHANGED <<cancelled, mainVars>>

\* Mutant: only a critical task stops the others.
CancelledIfCritical(t) == cancelled \/ t \in Critical

CancelledAfter(t) == TRUE

CancelOthers(t) ==
  /\ status[t] = "marked"
  /\ cancelled' = CancelledAfter(t)
  /\ Becomes(t, "gone")
  /\ UNCHANGED <<alive, unexpected, mainVars>>

Guard(t) == Judge(t) \/ MarkDead(t) \/ CancelOthers(t)

-----------------------------------------------------------------------------
(* main                                                                    *)

\* Settings::new, AppState::new: what Redis, the provider's credentials or the
\* settings refuse ends the process; a relay that cannot be added does not.
FailToStart ==
  /\ main = "starting"
  /\ main' = "exited"
  /\ code' = 1
  /\ UNCHANGED <<taskVars, signalled, panicked>>

Spawn ==
  /\ main = "starting"
  /\ main' = "waiting"
  /\ status' = [t \in Task |-> "running"]
  /\ UNCHANGED <<alive, unexpected, cancelled, code, signalled, panicked>>

\* SIGINT or SIGTERM
Signal ==
  /\ main = "waiting"
  /\ signalled' = TRUE
  /\ main' = "stopping"
  /\ UNCHANGED <<taskVars, code, panicked>>

SeeCancelled ==
  /\ main = "waiting"
  /\ cancelled
  /\ main' = "stopping"
  /\ UNCHANGED <<taskVars, code, signalled, panicked>>

CancelAll ==
  /\ main = "stopping"
  /\ cancelled' = TRUE
  /\ main' = "joining"
  /\ UNCHANGED <<status, alive, unexpected, code, signalled, panicked>>

\* TaskTracker::wait: a task is joined once its guard is dropped.
Joined == \A t \in Task : status[t] = "gone"

Exit ==
  /\ main = "joining"
  /\ Joined
  /\ main' = "exited"
  /\ code' = IF unexpected THEN 1 ELSE 0
  /\ UNCHANGED <<taskVars, signalled, panicked>>

MainStep == Spawn \/ SeeCancelled \/ CancelAll \/ Exit

\* health_check: the status of the answer to a probe
ProbeStatus == IF alive = Critical THEN 200 ELSE 503

-----------------------------------------------------------------------------
SupervisionInit ==
  /\ status = [t \in Task |-> "unspawned"]
  /\ alive = Critical
  /\ unexpected = FALSE
  /\ cancelled = FALSE
  /\ main = "starting"
  /\ code = NoCode
  /\ signalled = FALSE
  /\ panicked = FALSE

SupervisionTypeOK ==
  /\ status \in [Task -> {"unspawned", "running", "returned", "panicked", "dying", "marked",
                        "gone"}]
  /\ alive \in SUBSET Critical
  /\ unexpected \in BOOLEAN
  /\ cancelled \in BOOLEAN
  /\ main \in {"starting", "waiting", "stopping", "joining", "exited"}
  /\ code \in {NoCode, 0, 1}
  /\ signalled \in BOOLEAN
  /\ panicked \in BOOLEAN

-----------------------------------------------------------------------------
(* Properties *)

\* Restarts are seen in the pod's state: a replica exits with 0 only when it was
\* asked to stop and none of its tasks panicked, even while stopping
\* (README.md:73, health.rs:86-88).
CleanExitWasAskedFor == code = 0 => signalled /\ ~panicked

\* A replica in service whose pipeline is dead fails its probes: as long as
\* nothing was cancelled, a critical task that is gone is reported dead
\* (server.rs:171-175, docs/developer-guide.md:235-237).
HealthIsHonest ==
  ~cancelled /\ (\E t \in Critical : status[t] \in {"marked", "gone"}) => ProbeStatus = 503

\* What a replica says of itself, by its probes and by its exit code.
ReportsAreHonest == CleanExitWasAskedFor /\ HealthIsHonest
=============================================================================
