---------------------------- MODULE MCAmqpCluster ----------------------------
(***************************************************************************)
(* AmqpCluster for TLC: publishers are interchangeable.                    *)
(***************************************************************************)
EXTENDS AmqpCluster, TLC

PublisherSymmetry == Permutations(Publishers)

=============================================================================
