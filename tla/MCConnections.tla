--------------------------- MODULE MCConnections ---------------------------
(***************************************************************************)
(* Instance of Connections for TLC: ids are interchangeable.               *)
(***************************************************************************)
EXTENDS Connections, TLC

Interchangeable == Permutations(Conns) \union Permutations(Runs) \union Permutations(Requests)
=============================================================================
