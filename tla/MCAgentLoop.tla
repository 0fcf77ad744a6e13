---------------------------- MODULE MCAgentLoop ----------------------------
(* AgentLoop on small instances, for TLC. *)
EXTENDS AgentLoop, TLC

CONSTANTS c1, c2, c3, u1, u2, s1, s2, a1, a2

(* Messages are interchangeable, so the first is s1.  They are queued in     *)
(* three runs, or in two with one crash or lost write, or in one with both;  *)
(* two messages in up to two runs with one call.                            *)
Bounded ==
  /\ queuedLog # <<>> => queuedLog[1].body = s1 /\ count.sends + count.crashes + lost <= 3
  /\ Len(queuedLog) > 1 => count.sends <= 2 /\ Cardinality(used) <= 1

=============================================================================
