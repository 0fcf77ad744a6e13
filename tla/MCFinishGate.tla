---------------------------- MODULE MCFinishGate ----------------------------
(* FinishGate on small instances, for TLC. *)
EXTENDS FinishGate, TLC

CONSTANTS t1, t2, o1, o2

(* Nothing tells two tests, or two outputs, apart. *)
Alike == Permutations(Tests) \cup Permutations(Outputs)
=============================================================================
