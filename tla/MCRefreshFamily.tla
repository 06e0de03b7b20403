--------------------------- MODULE MCRefreshFamily ---------------------------
(* Constants of the model-checked instance of RefreshFamily.                 *)
EXTENDS RefreshFamily

\* Requests that die while the account is disabled; a client the family was not
\* issued to; and requests that run to their end, although mints fail and the
\* holder revokes.
MCMixes == {{"abort", "account"}, {"stranger"}, {"mintFail", "revoke"}}
=============================================================================
