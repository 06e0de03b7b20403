------------------------------ MODULE MCPairing ------------------------------
(* Constants of the model-checked instances of Pairing.                      *)
EXTENDS Pairing, TLC

MCSymmetry == Permutations(Procs) \cup Permutations(Accounts)
=============================================================================
