----------------------------- MODULE MCDspmain ------------------------------
(* Small instances of the whole system for TLC.                            *)
EXTENDS Dspmain, TLC

Symmetry == Permutations(Clients)
=============================================================================
