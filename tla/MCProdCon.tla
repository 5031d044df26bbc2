----------------------------- MODULE MCProdCon -----------------------------
(* Instances of ProdCon for TLC.                                           *)
EXTENDS ProdCon, TLC

Symmetry == Permutations(Producers) \cup Permutations(Consumers)
=============================================================================
