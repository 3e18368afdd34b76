---------------------------- MODULE ToolResults ----------------------------
(***************************************************************************)
(* What a batch of tool calls promises the agent loop: every call gets one *)
(* result, a result is never replaced, and the batch returns only when no  *)
(* call is left unanswered.                                                *)
(***************************************************************************)
EXTENDS Integers

CONSTANT N

VARIABLES answer,    \* call -> "none" or the kind of its tool result
          returned   \* executeToolCalls has returned

Results == {"ok", "error", "aborted", "skipped"}

Init == answer = [c \in 1..N |-> "none"] /\ returned = FALSE

Answer(c) ==
    /\ ~returned /\ answer[c] = "none"
    /\ \E r \in Results : answer' = [answer EXCEPT ![c] = r]
    /\ UNCHANGED returned

\* The calls nobody answered are answered on return.
Return ==
    /\ ~returned
    /\ returned' = TRUE
    /\ answer' = [c \in 1..N |-> IF answer[c] = "none" THEN "skipped" ELSE answer[c]]

Next == Return \/ \E c \in 1..N : Answer(c)

Spec == Init /\ [][Next]_<<answer, returned>>
=============================================================================
