---------------------------- MODULE UsageLedger ----------------------------
(***************************************************************************)
(* What billing promises about background tasks: what a task spends is     *)
(* paid at most once, in full, and nothing is spent after it was paid.     *)
(***************************************************************************)
EXTENDS Naturals

CONSTANT Tasks

VARIABLES spent,  \* what each task spent so far
          paid    \* what was paid for each task, 0 for nothing yet

Init == spent = [t \in Tasks |-> 0] /\ paid = [t \in Tasks |-> 0]

Spend(t) ==
  /\ paid[t] = 0
  /\ spent' = [spent EXCEPT ![t] = @ + 1]
  /\ UNCHANGED paid

Pay(t) ==
  /\ paid[t] = 0
  /\ paid' = [paid EXCEPT ![t] = spent[t]]
  /\ UNCHANGED spent

Next == \E t \in Tasks : Spend(t) \/ Pay(t)

Spec == Init /\ [][Next]_<<spent, paid>>
=============================================================================
