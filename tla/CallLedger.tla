----------------------------- MODULE CallLedger -----------------------------
(***************************************************************************)
(* What the durable wire promises about tool calls, whatever the loop, the *)
(* user and crashes do: calls are declared in batches, one batch at a      *)
(* time; every declared call is settled, once, before the next batch; and  *)
(* only dropping the whole history forgets a call.                         *)
(***************************************************************************)
CONSTANT CallIds

VARIABLES open,    \* declared, without a result
          settled  \* declared, with a result or a placeholder

Init == open = {} /\ settled = {}

Declare(S) ==
  /\ open = {}
  /\ S \cap settled = {}
  /\ open' = S
  /\ UNCHANGED settled

Settle(S) ==
  /\ S \subseteq open
  /\ open' = open \ S
  /\ settled' = settled \cup S

Forget == open' = {} /\ settled' = {}

Next ==
  \/ \E S \in SUBSET CallIds : Declare(S) \/ Settle(S)
  \/ Forget

Spec == Init /\ [][Next]_<<open, settled>>
=============================================================================
