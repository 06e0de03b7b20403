----------------------------- MODULE SigningKeys -----------------------------
(***************************************************************************)
(* Signing keys: the life cycle of a row of signing_key (keylifecycle.go,  *)
(* handle_admin_signing_keys.go, the reconcile loop of server.go) and the  *)
(* caches of it that sign (oidc/keys.go, saml/keys_saml.go), one or more   *)
(* in every server process.                                                *)
(***************************************************************************)
EXTENDS ForwardAuth

CONSTANTS
    Kids,      \* key ids
    Caches,    \* key caches
    KeyTTL,    \* keyCacheTTL
    TokenTTL,  \* lifetime of what is signed
    Grace      \* MetadataRotationGrace

ASSUME SigningKeysAssumption == {KeyTTL, TokenTTL, Grace} \subseteq Nat /\ Kids # {}

\* The grace period covers a stale cache and what it still signs.  It does by default (7
\* days, of which a cache takes 5 minutes); the configuration is not checked for it.
GraceCovers == Grace >= KeyTTL + TokenTTL

VARIABLES
    skeys,   \* signing_key: status, retire_after
    cache,   \* per cache: status of the keys it holds, loadedAt, asof (history:
             \* when the rows were read)
    signed   \* history: what was signed and has not expired: key, expiry, late

keyVars == <<skeys, cache, signed>>

NoKeyRow == [status |-> "none", until |-> None]
EmptyCache == [rows |-> [k \in Kids |-> "none"], at |-> None, asof |-> 0]

SigningKeysInit ==
    /\ skeys = [k \in Kids |-> IF "keyring" \in ops /\ k = CHOOSE j \in Kids : TRUE
                               THEN [NoKeyRow EXCEPT !.status = "active"] ELSE NoKeyRow]
    /\ cache = [c \in Caches |-> EmptyCache] /\ signed = {}

\* ListPublishableSigningKeys.
Published(k) == skeys[k].status \in {"pending", "active", "decommissioning"}
Active == {k \in Kids : skeys[k].status = "active"}

\* Both caches of the process that served the change are emptied.
Invalidated(c) == [cache EXCEPT ![c] = EmptyCache]

others == <<tables, policyVars, authorizeVars, samlVars, faVars>>

-----------------------------------------------------------------------------
(* Life cycle                                                                *)

KeyAdmin(s) == Me(s, "keyring") /\ IsAdmin(s)

GenerateKey(s, c, k) ==
    /\ KeyAdmin(s) /\ skeys[k].status = "none"
    /\ skeys' = [skeys EXCEPT ![k].status = "pending"]
    /\ cache' = Invalidated(c)
    /\ UNCHANGED <<others, frame, signed>>

\* One transaction: whatever is active is demoted, the pending key promoted.
PromotedAtOnce(k) ==
    [j \in Kids |-> IF j = k THEN [status |-> "active", until |-> None]
                    ELSE IF skeys[j].status = "active" THEN [status |-> "retired", until |-> None]
                    ELSE skeys[j]]
PromotedBeside(k) == [skeys EXCEPT ![k] = [status |-> "active", until |-> None]]
Promoted(k) ==
    [j \in Kids |-> IF j = k THEN [status |-> "active", until |-> None]
                    ELSE IF skeys[j].status = "active"
                    THEN [status |-> "decommissioning", until |-> clock + Grace] ELSE skeys[j]]

\* WHERE status = 'pending'.
PromoteSigningKey(k) == skeys[k].status = "pending"

ActivateKey(s, c, k) ==
    /\ KeyAdmin(s) /\ PromoteSigningKey(k)
    /\ skeys' = Promoted(k)
    /\ cache' = Invalidated(c)
    /\ UNCHANGED <<others, frame, signed>>

\* The status is read before the update, which repeats the check.
Retirable(k) == skeys[k].status \in {"pending", "decommissioning"}

RetireKeyRead(p, s, c, k) ==
    /\ Idle(p, "keyring") /\ KeyAdmin(s) /\ skeys[k].status \notin {"none", "active"}
    /\ Set(p, [Blank EXCEPT !.op = "retire", !.val = k, !.x = c]) /\ Goto(p, "retire")
    /\ UNCHANGED <<others, keyVars>>

RetireKeyWrite(p) ==
    LET k == loc[p].val
    IN  /\ pc[p] = "retire"
        /\ IF Retirable(k)
           THEN /\ skeys' = [skeys EXCEPT ![k] = [status |-> "decommissioning", until |-> clock + Grace]]
                /\ cache' = Invalidated(loc[p].x)
           ELSE UNCHANGED <<skeys, cache>>
        /\ Finish(p)
        /\ UNCHANGED <<others, signed>>

\* ensureActiveSigningKey, at the start of a process with an empty table.
Bootstrap(k) ==
    /\ "keyboot" \in ops /\ Active = {} /\ skeys[k].status = "none"
    /\ skeys' = [skeys EXCEPT ![k].status = "active"]
    /\ UNCHANGED <<others, frame, cache, signed>>

\* The hourly reconciliation.
ReconciledEarly ==
    [k \in Kids |-> IF skeys[k].status = "decommissioning" THEN [skeys[k] EXCEPT !.status = "retired"]
                    ELSE skeys[k]]
Reconciled ==
    [k \in Kids |-> IF skeys[k].status = "decommissioning" /\ clock >= skeys[k].until
                    THEN [skeys[k] EXCEPT !.status = "retired"] ELSE skeys[k]]

Reconcile ==
    /\ "reconcile" \in ops /\ skeys' = Reconciled
    /\ UNCHANGED <<others, frame, cache, signed>>

-----------------------------------------------------------------------------
(* Signing                                                                   *)

\* maybeRefresh: a cache older than its lifetime, or empty, is to be read again.
StaleNever(c) == cache[c].at = None
Stale(c) == cache[c].at # None => clock - cache[c].at > KeyTTL

\* refresh: the rows are read, and installed under the lock some time later.
RefreshRead(p, c) ==
    /\ Idle(p, "sign") /\ Stale(c)
    /\ Set(p, [Blank EXCEPT !.op = "sign", !.x = c, !.age = clock, !.val =
                  [k \in Kids |-> IF Published(k) THEN skeys[k].status ELSE "none"]])
    /\ Goto(p, "install")
    /\ UNCHANGED <<others, keyVars>>

\* The time that is stored is that of the installation.
RefreshInstall(p) ==
    /\ pc[p] = "install"
    /\ cache' = [cache EXCEPT ![loc[p].x] = [rows |-> loc[p].val, at |-> clock, asof |-> loc[p].age]]
    /\ Goto(p, "sign") /\ UNCHANGED loc
    /\ UNCHANGED <<others, skeys, signed>>

\* A refresh that fails leaves what there is.
RefreshFails(p) ==
    /\ pc[p] = "install"
    /\ Goto(p, "sign") /\ Set(p, [loc[p] EXCEPT !.opt = TRUE])
    /\ UNCHANGED <<others, keyVars>>

\* (late: a refresh failed, its rows are older than the cache says, or they lapsed
\* before the signer got to use them.)
SignWith(c, slow) ==
    LET K == {k \in Kids : cache[c].rows[k] = "active"}
    IN  signed' = {i \in signed : clock < i.exp} \cup
                  {[k |-> k, exp |-> clock + TokenTTL, late |-> slow \/ cache[c].asof # cache[c].at]
                       : k \in K}

\* signingKey: the active key of the cache; without one nothing is signed.
Sign(p) ==
    /\ pc[p] = "sign" /\ SignWith(loc[p].x, loc[p].opt \/ Stale(loc[p].x))
    /\ Finish(p)
    /\ UNCHANGED <<others, skeys, cache>>

SignCached(c) ==
    /\ "sign" \in ops /\ ~Stale(c) /\ SignWith(c, FALSE)
    /\ UNCHANGED <<others, frame, skeys, cache>>

KeysNext ==
    \/ \E s \in Sids, c \in Caches, k \in Kids : GenerateKey(s, c, k) \/ ActivateKey(s, c, k)
    \/ \E k \in Kids : Bootstrap(k)
    \/ Reconcile
    \/ \E c \in Caches : SignCached(c)
    \/ \E p \in Procs :
        \/ \E s \in Sids, c \in Caches, k \in Kids : RetireKeyRead(p, s, c, k)
        \/ \E c \in Caches : RefreshRead(p, c)
        \/ RetireKeyWrite(p) \/ RefreshInstall(p) \/ RefreshFails(p) \/ Sign(p)
=============================================================================
