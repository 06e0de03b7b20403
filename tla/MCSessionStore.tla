--------------------------- MODULE MCSessionStore ---------------------------
(* Constants of the model-checked instances of SessionStore.                 *)
EXTENDS SessionStore, TLC

CONSTANT a1

MCOneAccount == [t \in Tokens |-> a1]

\* The end of every session of an account, with a pre-schema session; and a
\* whole life of one session, from its login past its expiry.
MCMixes == {{"legacy", "brief", "load", "sudo", "list", "disable", "revokeAll", "logout", "abort"},
            {"issue", "load", "sudo", "logout", "abort"}}

MCSingleLife == {{"issue", "load", "sudo", "logout"}}

MCSymmetry == Permutations(Procs)
=============================================================================
