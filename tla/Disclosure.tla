----------------------------- MODULE Disclosure -----------------------------
(***************************************************************************)
(* What the OpenID provider tells a client about a token's holder: the     *)
(* userinfo and introspection endpoints and the logout by id_token_hint.   *)
(* Every read of these handlers is a step of its own, so accounts, clients *)
(* and grants change under a request.  Token signatures are cryptography:  *)
(* only tokens that were minted are presented.  Forward-auth clients are   *)
(* refused by these endpoints and are left out.                            *)
(***************************************************************************)
EXTENDS Desk

CONSTANTS
    Holders,       \* accounts
    Rps,           \* OIDC clients
    Jtis,          \* tokens: access, id and refresh tokens
    Usernames,     \* at least one more than there are accounts, so that names move
    Addresses,     \* primary email addresses, likewise
    Grants,        \* sets of scopes that were granted
    AliasSets,     \* what an administrator may send as claim aliases
    MaxSecret,     \* client secrets ever generated are 1..MaxSecret, 0: none
    TokenTTL, PreviousWindow

ASSUME DisclosureAssumption ==
    /\ None \notin Holders /\ IsFiniteSet(Rps) /\ TokenTTL \in Nat /\ PreviousWindow \in Nat
    /\ \E f \in [Holders -> Usernames] : IsInjective(f)
    /\ \E f \in [Holders -> Addresses] : IsInjective(f)

VARIABLES
    person,    \* account rows, with the primary address and the confirmed links
    rp,        \* oidc_client rows
    may,       \* pairs of account and client the access policy allows
    token,     \* minted tokens, None: not minted
    denied,    \* revoked_jti
    family,    \* KV: the refresh family, its current and previous token
    sessions,  \* live sessions, by account
    secrets,   \* secrets generated so far
    seen,      \* history, per request: what has been lacking ever since it began, what it may have read
    told       \* history: the answer just given, with what had been lost before it

disclosureVars == <<person, rp, may, token, denied, family, sessions, secrets, seen, told>>

Unseen == [lost |-> {}, held |-> {}, srcs |-> {}]

Public(c) == rp[c].method = "none"

DisclosureInit ==
    /\ LET n == CHOOSE f \in [Holders -> Usernames] : IsInjective(f)
           e == CHOOSE f \in [Holders -> Addresses] : IsInjective(f)
       IN  person = [a \in Holders |-> [disabled |-> FALSE, name |-> n[a], email |-> e[a], linked |-> TRUE]]
    /\ \E src \in IF "rename" \in ops \/ "email" \in ops THEN {"sub", "username", "verified_email"} ELSE {"username"} :
        LET public == IF "public" \in ops THEN Rps ELSE {}
            s == CHOOSE f \in [Rps -> 1..Cardinality(Rps)] : IsInjective(f)
        IN  rp = [c \in Rps |-> [method |-> IF c \in public THEN "none" ELSE "client_secret",
                                 secret |-> IF c \in public THEN 0 ELSE s[c],
                                 source |-> src, aliases |-> {}, disabled |-> FALSE]]
    /\ may = Holders \X Rps
    /\ token = [t \in Jtis |-> None] /\ denied = {}
    /\ family = [cur |-> None, prev |-> None, till |-> 0]
    /\ sessions = Holders /\ secrets = Cardinality(Rps)
    /\ seen = [p \in Procs |-> Unseen] /\ told = None

-----------------------------------------------------------------------------
(* Principals and claims                                                     *)

Uuid(a) == <<"uuid", a>>

\* resolvePrincipal: of an account row as read and the address as it is now.
ResolvePrincipal(a, row, source) ==
    CASE source = "sub" -> Uuid(a)
      [] source = "username" -> row.name
      [] source = "verified_email" -> person[a].email

ValidPrincipalSource(s) == s \in {"sub", "username", "verified_email"}

ReservedClaims == {"sub", "identities"}
AliasSources == {"preferred_username", "email"}

\* Mutated form of ValidateClaimAliases: names are not looked at.
ValidateAliasSources(aliases) == \A x \in aliases : x[2] \in AliasSources

\* validateClaimAliases: an alias is a pair of its name and the claim it repeats.
ValidateClaimAliases(aliases) ==
    \A x \in aliases : x[1] \notin ReservedClaims /\ x[2] \in AliasSources

ProfileClaims(row) == [k \in {"preferred_username"} |-> row.name]
EmailClaims(email) == [k \in (IF email = None THEN {} ELSE {"email"}) |-> email]

\* The claims of the granted scopes.
ScopedClaims(scope, row, email) ==
    LET profile == ProfileClaims(row)
        mail == EmailClaims(email)
    IN  [k \in (IF "profile" \in scope THEN DOMAIN profile ELSE {})
               \cup (IF "email" \in scope THEN DOMAIN mail ELSE {}) |->
            IF k \in DOMAIN profile THEN profile[k] ELSE mail[k]]

\* applyClaimAliases: an alias is written only when its source was granted.
ApplyClaimAliases(claims, granted, aliases) ==
    LET fit == {x \in aliases : x[2] \in DOMAIN granted}
    IN  [k \in DOMAIN claims \cup {x[1] : x \in fit} |->
            IF \E x \in fit : x[1] = k THEN granted[(CHOOSE x \in fit : x[1] = k)[2]] ELSE claims[k]]

\* identitiesForScopes: the account's confirmed links, when the scope was granted.
IdentitiesForScopes(a, scope) ==
    [k \in (IF "identity" \in scope THEN {"identities"} ELSE {}) |-> IF person[a].linked THEN {a} ELSE {}]

\* projectedUserinfoClaims
ProjectedUserinfoClaims(subject, row, email, scope, ids, aliases) ==
    LET granted == ScopedClaims(scope, row, email)
        claims == [k \in {"sub"} \cup DOMAIN granted \cup DOMAIN ids |->
                      CASE k = "sub" -> subject
                        [] k \in DOMAIN granted -> granted[k]
                        [] OTHER -> ids[k]]
    IN  ApplyClaimAliases(claims, granted, aliases)

-----------------------------------------------------------------------------
(* Tokens                                                                    *)

\* mintAccessAndIDTokens and issueRefresh, for a grant in good standing.  Tokens of
\* earlier versions ("legacy") carry no account id, and their subject is the uuid.
\* Bound: one grant.
Mint(t, a, c, kind, scope) ==
    /\ kind \in ops /\ (\A u \in Jtis : token[u] = None) /\ <<a, c>> \in may /\ ~person[a].disabled /\ ~rp[c].disabled
    /\ token' = [token EXCEPT ![t] =
         [kind |-> kind, id |-> IF "legacy" \in ops THEN None ELSE a, owner |-> a, client |-> c, scope |-> scope,
          sub |-> IF "legacy" \in ops THEN Uuid(a) ELSE ResolvePrincipal(a, person[a], rp[c].source),
          exp |-> clock + TokenTTL]]
    /\ family' = IF kind = "refreshToken" THEN [cur |-> t, prev |-> None, till |-> 0] ELSE family
    /\ UNCHANGED <<desk, person, rp, may, denied, sessions, secrets, seen>> /\ told' = None

\* Mutated form of AccountFromTokenClaims: the account that has the principal now.
AccountFromSubject(x) ==
    {a \in Holders : x.sub \in {Uuid(a), person[a].name, person[a].email}}

\* accountFromTokenClaims: by the private account id, else by a subject that is a uuid.
AccountFromTokenClaims(x) ==
    IF x.id # None THEN {x.id} ELSE {a \in Holders : x.sub = Uuid(a)}

\* Mutated form of ValidateAccessToken: a revoked token is only looked for when it is minted.
ValidateUnexpired(t) == token[t].kind = "accessToken" /\ clock < token[t].exp

\* validateAccessToken
ValidateAccessToken(t) == token[t].kind = "accessToken" /\ clock < token[t].exp /\ t \notin denied

\* lookupRefresh and isActiveToken
IsActiveToken(t) == t = family.cur \/ (t = family.prev /\ clock < family.till)

-----------------------------------------------------------------------------
(* What was lost before a request began, and what it could have read          *)

\* What the holder's or the client's standing lacks now for token t, asked with secret s.
Lacking(t, c, s) ==
    LET x == token[t]
    IN  (IF (x.kind = "accessToken" /\ (clock >= x.exp \/ t \in denied)) \/ (x.kind = "refreshToken" /\ ~IsActiveToken(t))
         THEN {"token"} ELSE {})
        \cup (IF person[x.owner].disabled THEN {"account"} ELSE {})
        \cup (IF <<x.owner, x.client>> \notin may THEN {"access"} ELSE {})
        \cup (IF ~person[x.owner].linked THEN {"link"} ELSE {})
        \cup (IF rp[c].disabled THEN {"client"} ELSE {})
        \cup (IF s # 0 /\ rp[c].secret # s THEN {"secret"} ELSE {})

\* The values the holder has now.
Held(t) == LET x == token[t] IN {Uuid(x.owner), person[x.owner].name, person[x.owner].email}

\* A request about token t starts; c asks (at userinfo: the token's client).
Begin(p, t, c, s, acct, source) ==
    /\ Set(p, [tok |-> t, by |-> c, secret |-> s, acct |-> acct, row |-> None, source |-> source,
               aliases |-> {}, sub |-> None, email |-> None])
    /\ seen' = [seen EXCEPT ![p] = [lost |-> Lacking(t, c, s), held |-> Held(t), srcs |-> {rp[token[t].client].source}]]

\* Every change of the world: what came back is no longer lost, what is new may be read.
Watch ==
    /\ UNCHANGED <<ops, pc, loc, token>> /\ told' = None
    /\ seen' = [p \in Procs |-> IF pc[p] = "idle" THEN seen[p] ELSE
                 [lost |-> seen[p].lost \cap Lacking(loc[p].tok, loc[p].by, loc[p].secret)',
                  held |-> seen[p].held \cup Held(loc[p].tok)',
                  srcs |-> seen[p].srcs \cup {rp'[token[loc[p].tok].client].source}]]

\* The request is answered or refused.
Quit(p) == Done(p) /\ seen' = [seen EXCEPT ![p] = Unseen]

Tell(p, endpoint, claims) ==
    told' = [endpoint |-> endpoint, owner |-> token[loc[p].tok].owner, client |-> token[loc[p].tok].client,
             scope |-> token[loc[p].tok].scope, by |-> loc[p].by, lost |-> seen[p].lost, held |-> seen[p].held,
             srcs |-> seen[p].srcs, acct |-> loc[p].acct, claims |-> claims]

World == <<person, rp, may, token, denied, family, sessions, secrets>>

-----------------------------------------------------------------------------
(* Userinfo                                                                  *)

\* The token is valid and not revoked.
HandleUserinfo(p, t) ==
    /\ Idle(p, "userinfo") /\ token[t] # None /\ ValidateAccessToken(t)
    /\ Goto(p, "userinfoAccount") /\ Begin(p, t, token[t].client, 0, None, None)
    /\ UNCHANGED <<clock, ops, World>> /\ told' = None

\* The account is read; a missing or disabled one is refused.
UserinfoAccount(p) ==
    LET found == AccountFromTokenClaims(token[loc[p].tok])
    IN  /\ pc[p] = "userinfoAccount"
        /\ \/ /\ \A a \in found : person[a].disabled
              /\ Quit(p)
           \/ \E a \in found :
                /\ ~person[a].disabled
                /\ Goto(p, "userinfoClient") /\ Set(p, [loc[p] EXCEPT !.acct = a, !.row = person[a]]) /\ UNCHANGED seen
        /\ UNCHANGED <<clock, ops, World>> /\ told' = None

\* GetOIDCClientAny: a disabled client is found here and refused by the access decision.
UserinfoClient(p) ==
    /\ pc[p] = "userinfoClient"
    /\ LET c == rp[token[loc[p].tok].client]
       IN  Set(p, [loc[p] EXCEPT !.source = c.source, !.aliases = c.aliases])
    /\ Goto(p, "userinfoAccess")
    /\ UNCHANGED <<clock, ops, World, seen>> /\ told' = None

\* evaluateOIDCAccess, for the account that was read.
UserinfoAccess(p) ==
    LET c == token[loc[p].tok].client
    IN  /\ pc[p] = "userinfoAccess"
        /\ IF <<loc[p].acct, c>> \in may /\ ~rp[c].disabled
           THEN Goto(p, "userinfoPrincipal") /\ UNCHANGED <<loc, seen>>
           ELSE Quit(p)
        /\ UNCHANGED <<clock, ops, World>> /\ told' = None

\* resolvePrincipal; an account without the configured principal is refused.
UserinfoPrincipal(p) ==
    LET l == loc[p]
        sub == ResolvePrincipal(l.acct, l.row, l.source)
    IN  /\ pc[p] = "userinfoPrincipal"
        /\ IF sub = None \/ ~ValidateClaimAliases(l.aliases)
           THEN Quit(p)
           ELSE Goto(p, "userinfoEmail") /\ Set(p, [l EXCEPT !.sub = sub]) /\ UNCHANGED seen
        /\ UNCHANGED <<clock, ops, World>> /\ told' = None

\* GetAccountPrimaryEmail, a second time if it was the principal.
UserinfoEmail(p) ==
    /\ pc[p] = "userinfoEmail"
    /\ Goto(p, "userinfoAnswer") /\ Set(p, [loc[p] EXCEPT !.email = person[loc[p].acct].email])
    /\ UNCHANGED <<clock, ops, World, seen>> /\ told' = None

\* identitiesForScopes, and the answer.
UserinfoAnswer(p) ==
    LET l == loc[p]
        scope == token[l.tok].scope
        ids == IdentitiesForScopes(l.acct, scope)
    IN  /\ pc[p] = "userinfoAnswer"
        /\ Tell(p, "userinfo", ProjectedUserinfoClaims(l.sub, l.row, l.email, scope, ids, l.aliases))
        /\ Quit(p)
        /\ UNCHANGED <<clock, ops, World>>

-----------------------------------------------------------------------------
(* Introspection                                                             *)

\* What a request presents to authenticate: an id and a secret in the Authorization
\* header (id None: no header), an id and a secret (0: none) in the form.
Credentials == [bid : Rps \cup {None}, bsec : 0..secrets, fid : Rps \cup {None}, fsec : 0..secrets]

\* authenticateClient: one channel only, and the client of a header is that of the form.
AuthenticateClient(x) ==
    LET id == IF x.bid # None THEN x.bid ELSE x.fid
        presented == IF x.bid # None THEN x.bsec ELSE x.fsec
    IN  /\ x.bid = None => x.bsec = 0
        /\ x.bid # None => x.fsec = 0 /\ x.fid \in {None, x.bid}
        /\ id # None /\ ~rp[id].disabled
        /\ IF Public(id) THEN x.bid = None /\ presented = 0 /\ rp[id].secret = 0
                         ELSE presented # 0 /\ presented = rp[id].secret

\* Mutated form of OwnToken: any confidential client may ask.
OwnTokenAny(t, c) == TRUE

\* The token is the asking client's own.
OwnToken(t, c) == token[t].client = c

\* HandleIntrospect: the client is authenticated and not public.
HandleIntrospect(p, t) ==
    /\ Idle(p, "introspect") /\ token[t] # None
    /\ \E x \in Credentials :
        LET c == IF x.bid # None THEN x.bid ELSE x.fid
        IN  /\ AuthenticateClient(x) /\ ~Public(c)
            /\ Begin(p, t, c, IF x.bid # None THEN x.bsec ELSE x.fsec, None, rp[c].source)
    /\ Goto(p, "introspectToken")
    /\ UNCHANGED <<clock, ops, World>> /\ told' = None

\* The token is valid and the client's own.
IntrospectToken(p) ==
    LET t == loc[p].tok
    IN  /\ pc[p] = "introspectToken"
        /\ IF OwnToken(t, loc[p].by) /\ (ValidateAccessToken(t) \/ (token[t].kind = "refreshToken" /\ IsActiveToken(t)))
           THEN Goto(p, "introspectAccount") /\ UNCHANGED <<loc, seen>>
           ELSE Quit(p)
        /\ UNCHANGED <<clock, ops, World>> /\ told' = None

\* The account is read and is enabled; a refresh family names it by its id.
IntrospectAccount(p) ==
    LET x == token[loc[p].tok]
        found == IF x.kind = "refreshToken" THEN {x.owner} ELSE AccountFromTokenClaims(x)
    IN  /\ pc[p] = "introspectAccount"
        /\ \/ /\ \A a \in found : person[a].disabled
              /\ Quit(p)
           \/ \E a \in found :
                /\ ~person[a].disabled
                /\ Goto(p, "introspectAnswer") /\ Set(p, [loc[p] EXCEPT !.acct = a, !.row = person[a]]) /\ UNCHANGED seen
        /\ UNCHANGED <<clock, ops, World>> /\ told' = None

\* The current principal, and the answer.
IntrospectAnswer(p) ==
    LET sub == ResolvePrincipal(loc[p].acct, loc[p].row, loc[p].source)
    IN  /\ pc[p] = "introspectAnswer"
        /\ IF sub = None THEN told' = None ELSE Tell(p, "introspect", [k \in {"sub"} |-> sub])
        /\ Quit(p)
        /\ UNCHANGED <<clock, ops, World>>

-----------------------------------------------------------------------------
(* Logout by hint                                                            *)

\* HandleLogout: an id token of ours, expired or not, names an account and a session.
HandleLogout(p, t) ==
    /\ Idle(p, "logout") /\ token[t] # None /\ token[t].kind = "idToken"
    /\ \E a \in AccountFromTokenClaims(token[t]) :
        Begin(p, t, token[t].client, 0, a, None)
    /\ Goto(p, "logoutRevoke")
    /\ UNCHANGED <<clock, ops, World>> /\ told' = None

\* RevokeBySessionID ends the session if it is the account's; the redirection to the
\* client's registered address that follows changes nothing.
LogoutRevoke(p) ==
    LET a == loc[p].acct
    IN  /\ pc[p] = "logoutRevoke"
        /\ sessions' = IF a = token[loc[p].tok].owner THEN sessions \ {a} ELSE sessions
        /\ Tell(p, "logout", <<>>)
        /\ Quit(p)
        /\ UNCHANGED <<clock, ops, person, rp, may, token, denied, family, secrets>>

-----------------------------------------------------------------------------
(* The world changes                                                         *)

SetDisabled(a) ==
    /\ "disable" \in ops
    /\ person' = [person EXCEPT ![a].disabled = ~@]
    /\ UNCHANGED <<rp, may, denied, family, sessions, secrets>> /\ UNCHANGED clock /\ Watch

\* Usernames are unique; a freed one may be taken by another account.
Rename(a, n) ==
    /\ "rename" \in ops /\ \A b \in Holders : person[b].name # n
    /\ person' = [person EXCEPT ![a].name = n]
    /\ UNCHANGED <<rp, may, denied, family, sessions, secrets>> /\ UNCHANGED clock /\ Watch

\* The primary address is removed, or replaced by a verified one nobody else has.
SetEmail(a, e) ==
    /\ "email" \in ops /\ (e = None \/ \A b \in Holders : person[b].email # e)
    /\ person[a].email # e
    /\ person' = [person EXCEPT ![a].email = e]
    /\ UNCHANGED <<rp, may, denied, family, sessions, secrets>> /\ UNCHANGED clock /\ Watch

Unlink(a) ==
    /\ "unlink" \in ops
    /\ person' = [person EXCEPT ![a].linked = ~@]
    /\ UNCHANGED <<rp, may, denied, family, sessions, secrets>> /\ UNCHANGED clock /\ Watch

\* HandleRevoke of an access token; a refresh token's family is deleted.
RevokeToken(t) ==
    /\ "revoke" \in ops /\ token[t] # None /\ t \notin denied
    /\ IF token[t].kind = "refreshToken"
       THEN family' = [family EXCEPT !.cur = None, !.prev = None] /\ UNCHANGED denied
       ELSE denied' = denied \cup {t} /\ UNCHANGED family
    /\ UNCHANGED <<person, rp, may, sessions, secrets>> /\ UNCHANGED clock /\ Watch

\* The family's token is rotated: the previous one stays good for a while.
RotateFamily(t) ==
    /\ "rotateFamily" \in ops /\ family.cur # None /\ token[t] = None
    /\ token' = [token EXCEPT ![t] = [token[family.cur] EXCEPT !.kind = "refreshToken"]]
    /\ family' = [cur |-> t, prev |-> family.cur, till |-> clock + PreviousWindow]
    /\ UNCHANGED <<desk, person, rp, may, denied, sessions, secrets, seen>> /\ told' = None

\* handleRotateOIDCApplicationSecretHTTP: whatever the client's authentication method.
RotateSecret(c) ==
    /\ "rotateSecret" \in ops /\ secrets < MaxSecret
    /\ secrets' = secrets + 1
    /\ rp' = [rp EXCEPT ![c].secret = secrets + 1]
    /\ UNCHANGED <<person, may, denied, family, sessions>> /\ UNCHANGED clock /\ Watch

\* handleUpdateOIDCIdentityProjectionHTTP
UpdateProjection(c, source, aliases) ==
    /\ "project" \in ops /\ ValidPrincipalSource(source) /\ ValidateClaimAliases(aliases)
    /\ rp' = [rp EXCEPT ![c].source = source, ![c].aliases = aliases]
    /\ UNCHANGED <<person, may, denied, family, sessions, secrets>> /\ UNCHANGED clock /\ Watch

SetClientDisabled(c) ==
    /\ "disable" \in ops
    /\ rp' = [rp EXCEPT ![c].disabled = ~@]
    /\ UNCHANGED <<person, may, denied, family, sessions, secrets>> /\ UNCHANGED clock /\ Watch

\* A manual decision or a change of the rules.
SetAccess(a, c) ==
    /\ "policy" \in ops
    /\ may' = IF <<a, c>> \in may THEN may \ {<<a, c>>} ELSE may \cup {<<a, c>>}
    /\ UNCHANGED <<person, rp, denied, family, sessions, secrets>> /\ UNCHANGED clock /\ Watch

\* Time passes for the tokens and the previous refresh token.
DisclosureTick ==
    /\ "tokensAge" \in ops /\ clock < MaxClock /\ clock' = clock + 1
    /\ UNCHANGED <<person, rp, may, denied, family, sessions, secrets>> /\ Watch

DisclosureNext ==
    \/ DisclosureTick
    \/ \E p \in Procs : 
        \/ \E t \in Jtis : HandleUserinfo(p, t) \/ HandleIntrospect(p, t) \/ HandleLogout(p, t)
        \/ UserinfoAccount(p) \/ UserinfoClient(p) \/ UserinfoAccess(p) \/ UserinfoPrincipal(p)
        \/ UserinfoEmail(p) \/ UserinfoAnswer(p)
        \/ IntrospectToken(p) \/ IntrospectAccount(p) \/ IntrospectAnswer(p) \/ LogoutRevoke(p)
    \/ \E t \in Jtis :
        \/ RevokeToken(t) \/ RotateFamily(t)
        \/ \E a \in Holders, c \in Rps, kind \in {"accessToken", "idToken", "refreshToken"}, s \in Grants : Mint(t, a, c, kind, s)
    \/ \E a \in Holders :
        \/ SetDisabled(a) \/ Unlink(a)
        \/ \E n \in Usernames : Rename(a, n)
        \/ \E e \in Addresses \cup {None} : SetEmail(a, e)
        \/ \E c \in Rps : SetAccess(a, c)
    \/ \E c \in Rps :
        \/ RotateSecret(c) \/ SetClientDisabled(c)
        \/ \E s \in {"sub", "username", "verified_email", "groups"}, x \in AliasSets : UpdateProjection(c, s, x)

-----------------------------------------------------------------------------
(* Properties                                                                *)

\* What must be in order for each endpoint to tell anything.
Needs(endpoint) ==
    CASE endpoint = "userinfo" -> {"token", "account", "access", "client"}
      [] endpoint = "introspect" -> {"token", "account", "secret", "client"}
      [] endpoint = "logout" -> {}

\* Every answer is in good standing: nothing it rests on (the token unrevoked and
\* unexpired, the account enabled, access to the application, the asking client's
\* secret, a link it names) was lost before the request began and is still lost, however
\* the handler's reads and the administrators' writes interleave; and introspection
\* answers only the client the token was issued to.  (userinfo.go 104-213, introspect.go 26-123)
ToldInGoodStanding ==
    told # None =>
        /\ told.lost \cap Needs(told.endpoint) = {}
        /\ "identities" \in DOMAIN told.claims /\ told.claims["identities"] # {} => "link" \notin told.lost
        /\ told.endpoint = "introspect" => told.by = told.client

\* The subject and every claim are the token's own holder's, as they were at some time
\* during the request and of the scopes that were granted, whoever holds the names and
\* addresses in the token by now; an alias never writes over the subject.
\* (identity_projection.go 101-179, claims.go 173-195)
ClaimsOfHolder ==
    told # None =>
        /\ told.acct = told.owner
        /\ \A k \in DOMAIN told.claims \ {"identities"} :
            /\ told.claims[k] \in told.held
            /\ k # "sub" => \/ told.claims[k] \in Usernames /\ "profile" \in told.scope
                            \/ told.claims[k] \in Addresses /\ "email" \in told.scope
        /\ "sub" \in DOMAIN told.claims =>
            \E s \in told.srcs : told.claims["sub"] \in
                CASE s = "sub" -> {Uuid(told.owner)} [] s = "username" -> Usernames [] s = "verified_email" -> Addresses
        /\ "identities" \in DOMAIN told.claims => "identity" \in told.scope /\ told.claims["identities"] \subseteq {told.owner}
=============================================================================
