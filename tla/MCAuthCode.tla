----------------------------- MODULE MCAuthCode -----------------------------
(* Constants of the model-checked instances of AuthCode.                     *)
EXTENDS AuthCode, TLC

MCSymmetry == Permutations(Procs)
=============================================================================
