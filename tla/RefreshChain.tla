---------------------------- MODULE RefreshChain ----------------------------
(***************************************************************************)
(* What a refresh-token family promises: a chain of tokens of which one is *)
(* current.  Only the current token is exchanged, each exchange appends a  *)
(* token never seen before, and a chain that has ended never starts again. *)
(***************************************************************************)
EXTENDS Naturals

CONSTANT Token        \* the tokens a chain can hold

VARIABLES
    state,            \* "none" before the family exists, then "live", then "dead"
    current,          \* the current token of a live chain
    past              \* the tokens that were current once and were exchanged

chainVars == <<state, current, past>>

Init == state = "none" /\ past = {} /\ current \in Token

\* The authorization_code grant starts the chain.
Begin(t) ==
    /\ state = "none" /\ t \in Token
    /\ state' = "live" /\ current' = t
    /\ UNCHANGED past

\* Exchange the current token for one that the chain never held.
Exchange(t) ==
    /\ state = "live" /\ t \in Token /\ t \notin past \cup {current}
    /\ past' = past \cup {current} /\ current' = t
    /\ UNCHANGED state

\* Reuse, a refusal, a revocation or expiry ends the chain.
End ==
    /\ state = "live" /\ state' = "dead"
    /\ UNCHANGED <<current, past>>

Next == End \/ \E t \in Token : Begin(t) \/ Exchange(t)

Spec == Init /\ [][Next]_chainVars
=============================================================================
