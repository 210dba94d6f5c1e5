------------------------------- MODULE Failover -------------------------------
(***************************************************************************)
(* What one caller of a cluster adapter is promised, whatever chooses the    *)
(* nodes: a call works on one node at a time, never comes back to a node     *)
(* that failed it, succeeds only on the node it works on, and gives up only  *)
(* between two nodes.  amqpcluster.ClusterAdapter.Publish and               *)
(* rediscluster.ClusterAdapter.ExecuteWithRetry implement it.               *)
(***************************************************************************)
EXTENDS Naturals, FiniteSets

CONSTANTS
    Nodes, \* the nodes of the cluster
    None,  \* no node (not one of Nodes)
    Limit  \* nodes a call may work on, a natural number

VARIABLES
    outcome, \* of the last call: "none", "pending", "ok", "failed"
    tried,   \* nodes the call under way has worked on
    at       \* the node it works on now

vars == <<outcome, tried, at>>

Init ==
    /\ outcome = "none"
    /\ tried = {}
    /\ at = None

Begin ==
    /\ outcome # "pending"
    /\ outcome' = "pending"
    /\ UNCHANGED <<tried, at>>

Attempt(n) ==
    /\ outcome = "pending"
    /\ at = None
    /\ n \notin tried
    /\ Cardinality(tried) < Limit
    /\ tried' = tried \cup {n}
    /\ at' = n
    /\ UNCHANGED outcome

Fail ==
    /\ at # None
    /\ at' = None
    /\ UNCHANGED <<outcome, tried>>

End(result) ==
    /\ outcome' = result
    /\ tried' = {}
    /\ at' = None

Succeed == at # None /\ End("ok")

GiveUp == outcome = "pending" /\ at = None /\ End("failed")

Next ==
    \/ Begin \/ Fail \/ Succeed \/ GiveUp
    \/ \E n \in Nodes : Attempt(n)

Spec == Init /\ [][Next]_vars

=============================================================================
