------------------------ MODULE MC_RosterPublisher ------------------------
(* A small instance of RosterPublisher and ControlEvents for TLC. *)
EXTENDS RosterPublisher

By(account, kinds) == [kind : kinds, account : {account}]

\* Ann does everything; Bob, who may be registered and opted in, withdraws.
Events == By("ann", Kind) \cup By("bob", {"opt out"})

Published == {e \in ControlEvent : IsPublished(e)}

\* Bounds: there are two events while time stands still, or one registration; events
\* fail, and a second replica handles them, while nobody has opted in; and the roster
\* is read otherwise.
Reading == scan # Resting \/ audience # {}
Competing == wasted # {} \/ handler["r2"] # Idle

Scenarios ==
  /\ Cardinality(Published) <= 2
  /\ now > 1 => \E e \in ControlEvent : e.kind = "register" /\ Published \subseteq {e}
  /\ now > 1 \/ Competing => consent = {} /\ device \subseteq {"ann"} /\ ~Reading
  /\ Reading => \A e \in Published : date[e] = 1
=============================================================================
