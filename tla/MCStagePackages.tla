---------------------------- MODULE MCStagePackages ----------------------------
(* A package of task 1, the same again and one with another content; one    *)
(* package of task 2 and a malformed one of task 3.                         *)
EXTENDS StagePackages, TLC

CONSTANTS a, b, bad

Delivery(task, content, no) == [task |-> task, content |-> content, no |-> no]

Inbox == {Delivery(1, a, 1), Delivery(1, a, 2), Delivery(1, b, 3), Delivery(2, a, 1), Delivery(3, bad, 1)}

AgentSymmetry == Permutations(Agents)
=============================================================================
