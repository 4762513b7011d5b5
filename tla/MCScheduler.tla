----------------------------- MODULE MCScheduler -----------------------------
(***************************************************************************)
(* Instances of Scheduler for TLC.                                         *)
(***************************************************************************)
EXTENDS Scheduler, TLC

CONSTANTS u1, u2, k1, k2

MCTwin2 == [t \in {u1, u2, k1, k2} |->
              CASE t = u1 -> k1 [] t = u2 -> k2 [] t = k1 -> u1 [] t = k2 -> u2]

\* A permutation of the user threads moves their twins along.
TwinPermutations ==
    {p @@ [k \in KernelThread |-> twin[p[twin[k]]]] : p \in Permutations(UserThread)}

Symmetry == {f @@ g : f \in TwinPermutations, g \in Permutations(Pid)}
=============================================================================
