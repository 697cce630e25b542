------------------------- MODULE MC_DeliveryBudget -------------------------
(***************************************************************************)
(* An instance of DeliveryBudget for TLC, and of Activity alone.  The      *)
(* lifetimes keep the order of the real ones: presence 180 s < hour < gap  *)
(* 6 h < day < session 7 d < state 90 d.  Settings has no behaviour of its *)
(* own.                                                                    *)
(***************************************************************************)
EXTENDS DeliveryBudget, Settings, TLC

CONSTANTS s1, s2

VARIABLE machine  \* which of the two is checked

Budget == machine = "budget"
Reports == machine = "sessions"

Enters == <<"foreground", "background", "foreground", "background">>
Stays == <<"foreground", "foreground", "background", "foreground">>

\* Bounds on the budget.  The account keeps a device (Activity covers losing the
\* last one) and one session.  It enters, leaves and enters the app again, or
\* enters, stays and leaves; what other histories do is done by these when reports
\* are lost.
OneSession ==
  /\ registered
  /\ now <= 4
  /\ session[s1].sequence <= 3 /\ history[s1] \in {Enters, Stays}
  /\ session[s2] = NoSession /\ history[s2] = Stays

BothInit == Init /\ (Reports \/ (Budget /\ OneSession))

BothNext ==
  /\ UNCHANGED machine
  /\ \/ Budget /\ Next /\ OneSession'
     \/ Reports /\ ActivityNext /\ UNCHANGED budgetVars

BothSpec == BothInit /\ [][BothNext]_<<machine, vars>>

Symmetry == Permutations(Nonurgent) \cup Permutations(DirectMessages)
              \cup Permutations(Task)

Busy == {k \in Task : task[k] # Idle}

Begun(C) == {w \in C : firstBound[w] # Never \/ \E k \in Busy : task[k].work = w}

NoVisit == history[s1] = Stays /\ session[s1] = NoSession

\* Two nonurgent notifications meet visits, and direct messages meet one and no
\* visit; when the first reservations are a day old, one task at a time attempts
\* them.
BudgetScenarios ==
  \/ Begun(DirectMessages) = {}
  \/ /\ NoVisit
     /\ Cardinality(Begun(Nonurgent)) <= 1
     /\ now = 4 => Cardinality(Busy) <= 1

\* Two sessions whose reports interleave, with one notification.
ReportScenarios == Cardinality({w \in Work : marker[w] # NoMarker}) <= 1

Scenarios == IF Budget THEN BudgetScenarios ELSE ReportScenarios
=============================================================================
