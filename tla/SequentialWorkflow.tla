------------------------- MODULE SequentialWorkflow -------------------------
(***************************************************************************)
(* What executing a Workflow promises, with no agents, servers or caches:  *)
(* its Actions run one after another, each at most once as far as the      *)
(* record of outcomes goes, and none runs after one that did not succeed.  *)
(***************************************************************************)
EXTENDS Naturals

CONSTANTS
    Workflow,   \* the Workflows
    Position    \* Position[w]: the positions of the Actions of w

VARIABLE outcome    \* outcome[w][k]: what is recorded of Action k of w

Init == outcome = [w \in Workflow |-> [k \in Position[w] |-> "PENDING"]]

Begin(w, k) ==
    /\ outcome[w][k] = "PENDING"
    /\ \A i \in Position[w] : i < k => outcome[w][i] = "SUCCESS"
    /\ outcome' = [outcome EXCEPT ![w][k] = "RUNNING"]

End(w, k, st) ==
    /\ outcome[w][k] = "RUNNING"
    /\ outcome' = [outcome EXCEPT ![w][k] = st]

Next ==
    \E w \in Workflow : \E k \in Position[w] :
        Begin(w, k) \/ \E st \in {"SUCCESS", "FAILED", "TIMEOUT"} : End(w, k, st)

Spec == Init /\ [][Next]_outcome

=============================================================================
