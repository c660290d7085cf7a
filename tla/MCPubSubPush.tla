---------------------------- MODULE MCPubSubPush ----------------------------
(* PubSubPush for TLC. *)
EXTENDS PubSubPush, TLC

MCEndpoints == {"e1"}

Symmetry == Permutations(Clients)
=============================================================================
