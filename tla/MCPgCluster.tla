----------------------------- MODULE MCPgCluster -----------------------------
(***************************************************************************)
(* PgCluster for TLC: callers are interchangeable in the safety runs.       *)
(***************************************************************************)
EXTENDS PgCluster, TLC

CallerSymmetry == Permutations(Callers)

=============================================================================
