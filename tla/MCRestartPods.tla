-------------------------- MODULE MCRestartPods --------------------------
(* restart_pods on a workload of two pods.                                *)
EXTENDS RestartPods

CONSTANTS u1, u2, u3, u4, u5, u6

MCPods == {u1, u2, u3, u4, u5, u6}

(* The UIDs are alike, so that the first pods may be u1 and u2, and the   *)
(* one without an owner u6.                                               *)
MCInit ==
    /\ Init
    /\ before = {u1, u2}
    /\ \A u \in Pods \ {u6} : st[u] # "orphan"

MCSpec == MCInit /\ [][Next]_vars /\ Fairness

==========================================================================
