-------------------------- MODULE RosterPublisher --------------------------
(***************************************************************************)
(* The publisher of the opt-in roster (src/src/roster_publisher.rs), which *)
(* reads all registered accounts one by one while control events change    *)
(* them, and uploads who has consent and a device.  The receiver replaces  *)
(* its audience by what is uploaded, and refuses an empty roster.          *)
(***************************************************************************)
EXTENDS ControlEvents

CONSTANT MaxFailures   \* bound on reads and uploads that fail

ASSUME RosterAssumption == MaxFailures \in Nat

VARIABLES
  scan,      \* what the publisher is doing
  audience,  \* the roster that the receiver has
  failures,  \* failures so far
  steady,    \* history: accounts in the roster ever since the scan began
  seen       \* history: accounts with consent at some time since the scan began

rosterVars == <<scan, audience, failures, steady, seen>>
allVars == <<controlVars, rosterVars>>

Resting == [at |-> "resting"]
OptedIn == device \cap consent

Scanning(step) == scan.at = step

-----------------------------------------------------------------------------
(* collect_opted_in                                                        *)

\* SCAN returns at least the keys that are there from its start to its end.
ListAccounts ==
  /\ Scanning("resting")
  /\ scan' = [at |-> "listed", todo |-> device, roster |-> {}]
  /\ steady' = OptedIn
  /\ seen' = consent
  /\ UNCHANGED <<controlVars, audience, failures>>

ReadConsent(a) ==
  /\ Scanning("listed")
  /\ a \in scan.todo
  /\ scan' = [at |-> IF a \in consent THEN "consented" ELSE "refused",
              todo |-> scan.todo \ {a}, roster |-> scan.roster, account |-> a]
  /\ UNCHANGED <<controlVars, audience, failures, steady, seen>>

Kept(roster) == [at |-> "listed", todo |-> scan.todo, roster |-> roster]

ReadDevices ==
  /\ scan.at \in {"consented", "refused"}
  /\ scan' = Kept(IF Scanning("consented") /\ scan.account \in device
                  THEN scan.roster \cup {scan.account} ELSE scan.roster)
  /\ UNCHANGED <<controlVars, audience, failures, steady, seen>>

\* Mutant: an account that cannot be read is left out.
AfterFailedReadLeftOut == Kept(scan.roster)

\* Any read that fails aborts the snapshot.
AfterFailedRead == Resting

FailToRead ==
  /\ scan.at \in {"consented", "refused"}
  /\ failures < MaxFailures
  /\ failures' = failures + 1
  /\ scan' = AfterFailedRead
  /\ UNCHANGED <<controlVars, audience, steady, seen>>

-----------------------------------------------------------------------------
(* publish_once                                                            *)

\* Mutant: a roster that shrinks is taken for a partial one.
WorthSendingGrown(roster) == roster # {} /\ Cardinality(roster) >= Cardinality(audience)

WorthSending(roster) == roster # {}

Upload ==
  /\ Scanning("listed")
  /\ scan.todo = {}
  /\ audience' = IF WorthSending(scan.roster) THEN scan.roster ELSE audience
  /\ scan' = Resting
  /\ UNCHANGED <<controlVars, failures, steady, seen>>

FailToUpload ==
  /\ Scanning("listed")
  /\ failures < MaxFailures
  /\ failures' = failures + 1
  /\ scan' = Resting
  /\ UNCHANGED <<controlVars, audience, steady, seen>>

-----------------------------------------------------------------------------
Init ==
  /\ ControlInit
  /\ scan = Resting
  /\ audience = {}
  /\ failures = 0
  /\ steady = {}
  /\ seen = {}

PublisherStep ==
  \/ ListAccounts
  \/ \E a \in Account : ReadConsent(a)
  \/ ReadDevices
  \/ Upload

Next ==
  \/ /\ ControlNext
     /\ steady' = steady \cap OptedIn'
     /\ seen' = seen \cup consent'
     /\ UNCHANGED <<scan, audience, failures>>
  \/ PublisherStep
  \/ FailToRead
  \/ FailToUpload

Spec == Init /\ [][Next]_allVars

\* The ticker fires for ever.
FairSpec == Spec /\ ControlFairness /\ WF_rosterVars(PublisherStep)

-----------------------------------------------------------------------------
(* Properties *)

\* Whatever changes during a scan: an upload names everyone who was opted in all
\* along, and no one who had withdrawn before it began
\* (roster_publisher.rs:44-48).
RosterIsFaithful ==
  [][audience' # audience => steady \subseteq audience' /\ audience' \subseteq seen]_allVars

\* The receiver ends up with the accounts that are opted in, also with fewer than
\* before; the last one's withdrawal does not reach it
\* (the comment at roster_publisher.rs:110-113).
RosterConverges == <>[](OptedIn = {} \/ audience = OptedIn)
=============================================================================
