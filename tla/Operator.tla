------------------------------ MODULE Operator ------------------------------
(***************************************************************************)
(* The VRChat operator session: admins sign the service in at VRChat, with *)
(* a second factor asked for in a later request, and identities are proved *)
(* by looking up public profiles with the stored cookies.  The cookies are *)
(* sealed into the provider's row; the pending second factor waits in KV.  *)
(* VRChat is remote: it may reject, fail, end the login or slow us down.   *)
(***************************************************************************)
EXTENDS Desk

CONSTANTS
    Admins,        \* an admin's account and session: who is asking
    Challenges,    \* random challenge ids
    MaxProvider,   \* rows the slug has over time are 1..MaxProvider
    MaxLogin,      \* logins at VRChat are 1..MaxLogin
    MaxSeal,       \* sealed secrets (each with a nonce of its own) are 1..MaxSeal
    ChallengeTTL,
    Retries        \* Retry-After values, cut to maxProviderBackoff

ASSUME OperatorAssumption == MaxProvider \in Nat \ {0} /\ ChallengeTTL \in Nat /\ Retries \subseteq Nat

VARIABLES
    prov,      \* upstream_idp row of the slug: id (0: none), enc (0: none), st
    chal,      \* KV: federation:vrchat:operator:<challenge>
    back,      \* KV: federation:provider:<id>:backoff, the deadline
    seals,     \* what was sealed: login, provider id
    logins,    \* logins so far
    dead,      \* logins VRChat has ended, and secrets that are of no use by themselves
    answered,  \* history: requests that were answered "valid", per challenge
    promised   \* history: deadlines of backoffs that were stored

operatorVars == <<prov, chal, back, seals, logins, dead, answered, promised>>

NoProv == [id |-> 0, enc |-> 0, st |-> "none"]

OperatorInit ==
    /\ prov = [NoProv EXCEPT !.id = 1]
    /\ chal = [c \in Challenges |-> NoEntry]
    /\ back = [i \in 1..MaxProvider |-> NoEntry]
    /\ seals = <<>> /\ logins = 0 /\ dead = {}
    /\ answered = [c \in Challenges |-> 0] /\ promised = {}

\* Local variables of a request: caller, challenge, provider row as read, login, the
\* challenge's value as read, Retry-After's deadline.
Empty == [by |-> None, c |-> None, prov |-> NoProv, login |-> 0, raw |-> None, retry |-> 0, till |-> 0]

-----------------------------------------------------------------------------
(* Sealing and storing the session                                           *)

\* SealProviderSecret: the cookies of a login, for one provider id.
Seal(login, id) == Append(seals, [login |-> login, id |-> id])

\* VRChat rejects the cookies in a secret, or they are not even sent.
Useless(e) == <<"login", seals[e].login>> \in dead \/ <<"secret", e>> \in dead

\* Mutated form of UpdateSecret: the row of the slug, whatever its id.
UpdateSecretBySlug(row) ==
    IF prov.id # 0
    THEN prov' = [prov EXCEPT !.enc = Len(seals) + 1, !.st = "valid"]
    ELSE UNCHANGED prov

\* UpdateVRChatOperatorSecret: the row that was read, if it is still there.
UpdateSecret(row) ==
    IF prov.id = row.id
    THEN prov' = [prov EXCEPT !.enc = Len(seals) + 1, !.st = "valid"]
    ELSE UNCHANGED prov

\* RefreshVRChatOperatorSecret: only while the row holds the secret that was validated.
RefreshSecret(row) ==
    IF prov.id = row.id /\ prov.enc = row.enc
    THEN prov' = [prov EXCEPT !.enc = Len(seals) + 1, !.st = "valid"]
    ELSE UNCHANGED prov

\* Mutated form of InvalidateSecret: whatever secret the row holds by now.
InvalidateAny(row) ==
    prov' = IF prov.id = row.id THEN [prov EXCEPT !.st = "invalid"] ELSE prov

\* InvalidateVRChatOperatorSecret: only while the row holds the secret that was rejected.
InvalidateSecret(row) ==
    prov' = IF prov.id = row.id /\ prov.enc = row.enc THEN [prov EXCEPT !.st = "invalid"] ELSE prov

\* persist: the session is stored and the request answered; a row that is gone is an error.
Persist(p) ==
    LET l == loc[p]
    IN  /\ pc[p] = "persist" /\ Len(seals) < MaxSeal
        /\ seals' = Seal(l.login, l.prov.id)
        /\ UpdateSecret(l.prov)
        /\ IF prov.id = l.prov.id
           THEN /\ answered' = IF l.c = None THEN answered ELSE [answered EXCEPT ![l.c] = @ + 1]
                /\ Done(p)
           ELSE /\ IF l.c = None THEN Done(p) ELSE Goto(p, "restoreConsumed") /\ UNCHANGED loc
                /\ UNCHANGED answered
        /\ UNCHANGED <<clock, ops, chal, back, logins, dead, promised>>

\* The database fails the request; the statement may have been executed all the same.
PersistFails(p) ==
    LET l == loc[p]
    IN  /\ pc[p] = "persist" /\ "faults" \in ops /\ Len(seals) < MaxSeal
        /\ seals' = Seal(l.login, l.prov.id)
        /\ UNCHANGED prov \/ UpdateSecret(l.prov)
        /\ IF l.c = None THEN Done(p) ELSE Goto(p, "restoreConsumed") /\ UNCHANGED loc
        /\ UNCHANGED <<clock, ops, chal, back, logins, dead, answered, promised>>

-----------------------------------------------------------------------------
(* Start                                                                     *)

\* Start: the row is read and Authenticate answers; a login that needs no second
\* factor is stored at once.  (Wrong credentials and failures change nothing.)
OperatorStart(p, a) ==
    /\ Idle(p, "operator") /\ prov.id # 0 /\ logins < MaxLogin
    /\ logins' = logins + 1
    /\ \E l \in {"persist", "challenge"} : Goto(p, l)
    /\ Set(p, [Empty EXCEPT !.by = a, !.prov = prov, !.login = logins + 1])
    /\ UNCHANGED <<clock, ops, prov, chal, back, seals, dead, answered, promised>>

\* The challenge is stored with the unfinished login.
PutChallenge(p, c) ==
    LET l == loc[p]
    IN  /\ pc[p] = "challenge" /\ chal[c] = NoEntry /\ answered[c] = 0
        /\ chal' = SetEx(chal, c, [st |-> "ready", id |-> l.prov.id, by |-> l.by, login |-> l.login,
                                   exp |-> clock + ChallengeTTL], ChallengeTTL, clock)
        /\ Done(p)
        /\ UNCHANGED <<clock, ops, prov, back, seals, logins, dead, answered, promised>>

-----------------------------------------------------------------------------
(* Verify                                                                    *)

\* The challenge is ready, the caller's own, and its provider still the same row.
VerifyGet(p, a, c) ==
    /\ Idle(p, "verify") /\ Found(chal, c, clock)
    /\ LET v == chal[c].val
       IN  /\ v.st = "ready" /\ v.by = a /\ clock < v.exp /\ v.id = prov.id
           /\ Goto(p, "claim")
           /\ Set(p, [Empty EXCEPT !.by = a, !.c = c, !.prov = prov, !.raw = v, !.login = v.login])
    /\ UNCHANGED <<clock, ops, operatorVars>>

As(v, st) == [v EXCEPT !.st = st]

\* Replace the challenge's value, for the rest of its lifetime.
SwapChallenge(c, old, new) ==
    CompareAndSwap(chal, c, old, new, new.exp - clock, clock)

\* ready -> verifying: one of the requests that read it may go on.
Claim(p) ==
    LET l == loc[p]
    IN  /\ pc[p] = "claim"
        /\ IF Holds(chal, l.c, l.raw, clock) /\ clock < l.raw.exp
           THEN /\ chal' = SwapChallenge(l.c, l.raw, As(l.raw, "verifying"))
                /\ Goto(p, "factor") /\ UNCHANGED loc
           ELSE UNCHANGED chal /\ Done(p)
        /\ UNCHANGED <<clock, ops, prov, back, seals, logins, dead, answered, promised>>

\* VerifyTwoFactor and CurrentUser: the login is complete, or the code was wrong, VRChat
\* failed, the login was ended...
SecondFactor(p) ==
    /\ pc[p] = "factor"
    /\ \/ <<"login", loc[p].login>> \notin dead /\ Goto(p, "finalize")
       \/ Goto(p, "restore")
    /\ UNCHANGED <<clock, ops, loc, operatorVars>>

\* verifying -> ready: the code may be tried again.
Restore(p) ==
    LET l == loc[p]
    IN  /\ pc[p] = "restore"
        /\ chal' = IF clock < l.raw.exp THEN SwapChallenge(l.c, As(l.raw, "verifying"), l.raw) ELSE chal
        /\ Done(p)
        /\ UNCHANGED <<clock, ops, prov, back, seals, logins, dead, answered, promised>>

\* verifying -> consumed, before the session is stored.
Finalize(p) ==
    LET l == loc[p]
    IN  /\ pc[p] = "finalize"
        /\ IF clock < l.raw.exp /\ Holds(chal, l.c, As(l.raw, "verifying"), clock)
           THEN /\ chal' = SwapChallenge(l.c, As(l.raw, "verifying"), As(l.raw, "consumed"))
                /\ Goto(p, "persist") /\ UNCHANGED loc
           ELSE UNCHANGED chal /\ Done(p)
        /\ UNCHANGED <<clock, ops, prov, back, seals, logins, dead, answered, promised>>

\* consumed -> ready: the session could not be stored.
RestoreConsumed(p) ==
    LET l == loc[p]
    IN  /\ pc[p] = "restoreConsumed"
        /\ chal' = IF clock < l.raw.exp THEN SwapChallenge(l.c, As(l.raw, "consumed"), l.raw) ELSE chal
        /\ Done(p)
        /\ UNCHANGED <<clock, ops, prov, back, seals, logins, dead, answered, promised>>

-----------------------------------------------------------------------------
(* Validate                                                                  *)

\* CurrentUser with the stored cookies: good, rejected, or no answer (no change).  A secret
\* that does not open and cookies that do not decode count as rejected.
Validate(p) ==
    /\ Idle(p, "validate") /\ prov.id # 0 /\ prov.enc # 0
    /\ Goto(p, IF Useless(prov.enc) THEN "invalidate" ELSE "refresh")
    /\ Set(p, [Empty EXCEPT !.prov = prov, !.login = seals[prov.enc].login])
    /\ UNCHANGED <<clock, ops, operatorVars>>

\* persistValidation: the renewed cookies; a newer session is left alone.
PersistValidation(p) ==
    /\ pc[p] = "refresh" /\ Len(seals) < MaxSeal
    /\ seals' = Seal(loc[p].login, loc[p].prov.id)
    /\ RefreshSecret(loc[p].prov)
    /\ Done(p)
    /\ UNCHANGED <<clock, ops, chal, back, logins, dead, answered, promised>>

InvalidateOperator(p) ==
    /\ pc[p] = "invalidate"
    /\ InvalidateSecret(loc[p].prov)
    /\ Done(p)
    /\ UNCHANGED <<clock, ops, chal, back, seals, logins, dead, answered, promised>>

-----------------------------------------------------------------------------
(* Proof of an identity: publishProof                                         *)

\* The federation service loads the provider with its secret.
LoadProvider(p) ==
    /\ Idle(p, "proof") /\ prov.id # 0 /\ prov.enc # 0 /\ prov.st = "valid"
    /\ Goto(p, "lookup") /\ Set(p, [Empty EXCEPT !.prov = prov, !.login = seals[prov.enc].login])
    /\ UNCHANGED <<clock, ops, operatorVars>>

\* providerBackoff, then PublicUser: an answer, a rejection, or 429 with Retry-After.  A
\* secret that does not open is an error here, and nothing more.
PublishProof(p) ==
    LET l == loc[p]
    IN  /\ pc[p] = "lookup"
        /\ \/ (Found(back, l.prov.id, clock) /\ clock < back[l.prov.id].val) /\ Done(p)
           \/ /\ ~(Found(back, l.prov.id, clock) /\ clock < back[l.prov.id].val)
              /\ IF Useless(l.prov.enc) THEN (Goto(p, "invalidate") /\ UNCHANGED loc) \/ Done(p)
                 ELSE \/ Done(p)
                      \/ \E r \in Retries : /\ Goto(p, "backoff")
                                            /\ Set(p, [l EXCEPT !.retry = r, !.till = clock + r])
        /\ UNCHANGED <<clock, ops, operatorVars>>

\* extendProviderBackoff: what is stored now?
BackoffGet(p) ==
    LET l == loc[p]
    IN  /\ pc[p] = "backoff"
        /\ IF ~Found(back, l.prov.id, clock) THEN Goto(p, "backoffSet") /\ Set(p, [l EXCEPT !.raw = None])
           ELSE IF l.till <= back[l.prov.id].val THEN Done(p)
           ELSE Goto(p, "backoffSet") /\ Set(p, [l EXCEPT !.raw = back[l.prov.id].val])
        /\ UNCHANGED <<clock, ops, operatorVars>>

\* Mutated form of BackoffSet: a plain SetEx.
BackoffSetBlind(p) ==
    LET l == loc[p]
    IN  /\ pc[p] = "backoffSet"
        /\ back' = SetEx(back, l.prov.id, l.till, l.retry, clock)
        /\ promised' = promised \cup {<<l.prov.id, l.till>>}
        /\ Done(p)
        /\ UNCHANGED <<clock, ops, prov, chal, seals, logins, dead, answered>>

\* SetNX or CompareAndSwap; from the start again when somebody else was faster.
BackoffSet(p) ==
    LET l == loc[p]
        free == IF l.raw = None THEN ~Found(back, l.prov.id, clock) ELSE Holds(back, l.prov.id, l.raw, clock)
    IN  /\ pc[p] = "backoffSet"
        /\ IF free
           THEN /\ back' = SetEx(back, l.prov.id, l.till, l.retry, clock)
                /\ promised' = promised \cup {<<l.prov.id, l.till>>}
                /\ Done(p)
           ELSE Goto(p, "backoff") /\ UNCHANGED <<back, promised, loc>>
        /\ UNCHANGED <<clock, ops, prov, chal, seals, logins, dead, answered>>

-----------------------------------------------------------------------------
(* The rest of the world                                                     *)

\* VRChat ends a login: its cookies are rejected from now on.
LoginEnds(l) ==
    /\ "ends" \in ops /\ l <= logins /\ dead' = dead \cup {<<"login", l>>}
    /\ UNCHANGED <<desk, prov, chal, back, seals, logins, answered, promised>>

\* The cookies in a secret run out, or the key it is sealed with is taken away.
SecretSpoils(e) ==
    /\ "spoils" \in ops /\ e <= Len(seals) /\ dead' = dead \cup {<<"secret", e>>}
    /\ UNCHANGED <<desk, prov, chal, back, seals, logins, answered, promised>>

\* An admin deletes the provider, and creates another one with the same slug.
DeleteProvider ==
    /\ "recreate" \in ops /\ prov.id # 0 /\ prov.id < MaxProvider
    /\ prov' = [NoProv EXCEPT !.id = prov.id + 1]
    /\ UNCHANGED <<desk, chal, back, seals, logins, dead, answered, promised>>

\* The request dies: a crash, or a KV error with which it returns.
OperatorAbort(p) ==
    /\ "faults" \in ops
    /\ pc[p] \in {"claim", "factor", "restore", "finalize", "persist", "restoreConsumed", "challenge"}
    /\ Done(p) /\ UNCHANGED <<clock, ops, operatorVars>>

OperatorNext ==
    \/ \E p \in Procs :
          \/ \E a \in Admins : OperatorStart(p, a) \/ \E c \in Challenges : VerifyGet(p, a, c)
          \/ \E c \in Challenges : PutChallenge(p, c)
          \/ Claim(p) \/ SecondFactor(p) \/ Restore(p) \/ Finalize(p) \/ RestoreConsumed(p)
          \/ Persist(p) \/ PersistFails(p) \/ OperatorAbort(p)
          \/ Validate(p) \/ PersistValidation(p) \/ InvalidateOperator(p)
          \/ LoadProvider(p) \/ PublishProof(p) \/ BackoffGet(p) \/ BackoffSet(p)
    \/ \E l \in 1..MaxLogin : LoginEnds(l)
    \/ \E e \in 1..MaxSeal : SecretSpoils(e)
    \/ DeleteProvider

\* The stored operator session fits the row it is in: it was sealed for that very
\* provider, and it counts as invalid only if VRChat did end the login it came from or it
\* is of no use itself, although validations and proof lookups decide on a copy of the
\* row they read before they asked VRChat, while admins store new sessions.
OperatorSecretFits ==
    prov.enc # 0 =>
        /\ seals[prov.enc].id = prov.id
        /\ prov.st = "invalid" => Useless(prov.enc)

\* A backoff that VRChat asked for and that was stored stays in force until its
\* deadline: no request that was asked for a shorter one replaces it.
BackoffHolds ==
    \A y \in promised : clock < y[2] => Found(back, y[1], clock) /\ back[y[1]].val >= y[2]
=============================================================================
