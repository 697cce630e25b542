-------------------------- MODULE MC_CoalesceQueue --------------------------
(***************************************************************************)
(* CoalesceQueue for TLC, as account digests, as summaries per target with *)
(* one push at once, and with all reactions pushed at once.                *)
(***************************************************************************)
EXTENDS CoalesceQueue, TLC

CONSTANTS e1, e2, e3, a1, a2, post

TwoActions == e1 :> a1 @@ e2 :> a2 @@ e3 :> a2
OnePost == [e \in {e1, e2, e3} |-> post]

Digests == [limit |-> 0, age |-> 5, cap |-> 1]
Summaries == [limit |-> 1, age |-> 3, cap |-> 1]
Pushes == [limit |-> 3, age |-> 3, cap |-> 2]
Settings == {Digests, Summaries, Pushes}

\* Bounds: two reactions where there are flushes, visits in digests only, and no
\* flush and a shorter time where three are pushed.
Scenarios ==
  /\ setting # Pushes => bound[e3] = -1
  /\ setting # Digests => generation = 0
  /\ setting = Pushes => now <= 5 /\ \A w \in Worker : worker[w] = Idle

Symmetry == Permutations(Worker)
=============================================================================
