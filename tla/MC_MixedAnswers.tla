---------------------------- MODULE MC_MixedAnswers ----------------------------
(***************************************************************************)
(* One event, attempted once and repeated once, whose devices answer a     *)
(* push differently.                                                       *)
(***************************************************************************)
EXTENDS RecipientDelivery

OneEvent == {[coordinate |-> "first", version |-> 0, type |-> "mention"]}
================================================================================
