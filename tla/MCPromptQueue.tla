---------------------------- MODULE MCPromptQueue ----------------------------
(* A small instance of PromptQueue for TLC. *)
EXTENDS PromptQueue

CONSTANTS i1, i2, r1, r2, a1, c1, c2

\* Every requeue names the first item; both responses answer the one question.
MCItemOf == [r \in Requeues |-> i1]
MCAskOf == [c \in Responses |-> a1]
=============================================================================
