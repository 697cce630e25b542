------------------------- MODULE MC_RelayListener -------------------------
(***************************************************************************)
(* A small instance of RelayListener.  The relay has stored lists of three *)
(* dates: of one date either fewer than fill a page, or as many.           *)
(***************************************************************************)
EXTENDS RelayListener

List(id, date) == [id |-> id, date |-> date]

SomeArchives ==
  {{List(1, 3), List(2, 3), List(3, 2), List(4, 2), List(5, 1)},
   {List(1, 3), List(2, 2), List(3, 2), List(4, 2), List(5, 1)}}

\* Bound: other tasks end, and signals come, while the relay has said nothing that
\* the listener has not received, and no closure is being recovered from.
Scenarios ==
  (failures > 0 \/ signalled \/ \E t \in Tolerated : ~Running(t)) /\ ~cancelled
    => feed \in {<<>>, <<Event>>} /\ recovery = NoRecovery
=============================================================================
