------------------------------ MODULE Upstream ------------------------------
(***************************************************************************)
(* One upstream OpenID Connect provider: its configuration, how a          *)
(* configuration and the provider's discovery document become the settings *)
(* of a client, the clients the adapter caches for sign-ins, and the       *)
(* administrator's connection test, which runs the sign-in code on a KV    *)
(* record of its own.  Administrators change the configuration, rotate the *)
(* secret or replace the provider at any time, and so does the provider    *)
(* its document.                                                           *)
(***************************************************************************)
EXTENDS Desk

CONSTANTS
    AllConfigs, AllDocuments,   \* configurations and discovery documents there can be
    Configs, Documents,   \* those a provider goes through while requests are served
    Testers,      \* administrators (session and browser) who run tests
    DiagnosticTTL, ClientCacheTTL,
    MaxVersion,   \* bound: configurations, secrets and ids there are
    MaxBegun      \* bound: sign-ins and tests begun

ASSUME UpstreamAssumption ==
    Configs # {} /\ Documents # {} /\ DiagnosticTTL \in Nat /\ MaxBegun \in Nat \ {0}

VARIABLES
    provider,  \* the upstream_idp row: on (there is one), id, cfg, secret (a number)
    document,  \* what the provider's discovery endpoint answers
    clients,   \* clientCache: entries [key, by, r, exp]
    signIns,   \* adapter states of sign-ins under way
    test,      \* KV record of each connection test
    latest,    \* KV last outcome of a test, by provider id
    begun,     \* history: what each sign-in and test began with
    asked      \* history: exchanges of a code or an id_token (again: not the first)

upstreamVars == <<provider, document, clients, signIns, test, latest, begun, asked>>

Flow == 1..MaxBegun

\* A behaviour that begins one flow, or up to MaxBegun.
MayBegin == Len(begun) < IF "one" \in ops THEN 1 ELSE MaxBegun

-----------------------------------------------------------------------------
(* Configurations: mode, auth (token_auth_method), pkce, type                *)
(* (response_type), openid (requested?), endpoints token, jwks and userinfo  *)
(* (None: not overridden).  Documents: token, jwks, userinfo, methods.       *)

\* validateConfig.
ValidateConfig(c) ==
    /\ c.auth = "discovery" => c.mode = "discovery"
    /\ c.auth = "none" => c.pkce = "S256"
    /\ c.type # "code" => c.openid /\ c.jwks # "none"
    /\ c.mode = "manual" => c.token # None /\ c.jwks # None
    /\ c.mode = "manual" /\ c.jwks = "none" => c.userinfo # None

\* The token authentication method: configured, or the better one the document offers.
TokenAuth(c, d) ==
    CASE c.auth # "discovery" -> c.auth
      [] d.methods = None \/ "client_secret_basic" \in d.methods -> "client_secret_basic"
      [] "client_secret_post" \in d.methods -> "client_secret_post"
      [] OTHER -> None

\* An endpoint: overridden, or discovered.
Endpoint(override, discovered, c) ==
    IF override # None THEN override ELSE IF c.mode = "discovery" THEN discovered ELSE ""

ResolvedSettings(c, d) ==
    [auth |-> TokenAuth(c, d), pkce |-> c.pkce, type |-> c.type,
     token |-> Endpoint(c.token, d.token, c), jwks |-> Endpoint(c.jwks, d.jwks, c),
     userinfo |-> Endpoint(c.userinfo, d.userinfo, c)]

\* Mutated form of ResolveConfig: a discovered "none" counts like a configured one.
ResolveDiscoveredNone(c, d) ==
    LET r == ResolvedSettings(c, d)
    IN  IF ValidateConfig(c) /\ r.auth # None /\ (r.jwks = "none" => r.userinfo # "")
        THEN r ELSE None

\* ResolveConfig: None if it fails.
ResolveConfig(c, d) ==
    LET r == ResolvedSettings(c, d)
    IN  IF /\ ValidateConfig(c) /\ r.auth # None
           /\ r.jwks = "none" => c.jwks # None /\ r.userinfo # ""
        THEN r ELSE None

\* NewClient refuses these settings.
NewClientFails(r) ==
    \/ r.auth \notin {"client_secret_basic", "client_secret_post", "none"}
    \/ r.auth = "none" /\ r.pkce # "S256"

ImplicitFlow(r) == r.type \in {"id_token", "id_token token"}

\* Ready: the configuration is valid (a provider that needs a secret has one).
Ready(pr) == ValidateConfig(pr.cfg)

\* providerIdentity: a digest of id, configuration and sealed secret.
ProviderIdentity(pr) == [id |-> pr.id, cfg |-> pr.cfg, secret |-> pr.secret]

-----------------------------------------------------------------------------

\* Local variables: the row read, the flow and its KV record, the settings a client
\* is wanted for (None: those of now) or is, and whether the call succeeded.
NoCall == [pr |-> None, f |-> None, who |-> None, raw |-> None, snap |-> None, by |-> None,
           r |-> None, ok |-> FALSE]

UpstreamInit ==
    /\ provider \in [on : {TRUE}, id : {1}, secret : {1},
                      cfg : IF "anyConfig" \in ops THEN AllConfigs ELSE {CHOOSE c \in Configs : TRUE}]
    /\ document \in IF "anyConfig" \in ops THEN AllDocuments ELSE {CHOOSE d \in Documents : TRUE}
    /\ clients = {} /\ signIns = {} /\ test = [f \in Flow |-> NoEntry]
    /\ latest = [i \in 1..MaxVersion |-> None]
    /\ begun = <<>> /\ asked = {}

-----------------------------------------------------------------------------
(* Sign-in: Adapter.Begin and Adapter.Advance over Adapter.client             *)

SignInBegin(p) ==
    /\ Idle(p, "signIn") /\ MayBegin /\ provider.on
    /\ Goto(p, "client") /\ Set(p, [NoCall EXCEPT !.pr = provider])
    /\ UNCHANGED <<clock, ops, upstreamVars>>

\* The callback, one request at a time for a flow (module Federation): the flow's
\* configuration must be the one of now.
SignInAdvance(p, s) ==
    /\ Idle(p, "signIn") /\ provider.on
    /\ \A q \in Procs : loc[q] # None => loc[q].f # s.f
    /\ IF s.by = ProviderIdentity(provider)
       THEN Goto(p, "client") /\ Set(p, [NoCall EXCEPT !.pr = provider, !.f = s.f, !.snap = s.r])
       ELSE UNCHANGED frame
    /\ UNCHANGED <<clock, ops, upstreamVars>>

\* Mutated form of CacheKey: without the digest of the configuration.
CacheKeySlug(pr, snap) == [by |-> [id |-> pr.id], snap |-> snap]

CacheKey(pr, snap) == [by |-> ProviderIdentity(pr), snap |-> snap]

\* A client the cache has, unless it expired; else one is built.
Client(p) ==
    LET l == loc[p]
        hit == {c \in clients : c.key = CacheKey(l.pr, l.snap) /\ clock < c.exp}
    IN  /\ pc[p] = "client"
        /\ IF hit # {}
           THEN \E c \in hit : Goto(p, "ask") /\ Set(p, [l EXCEPT !.by = c.by, !.r = c.r])
           ELSE Goto(p, "build") /\ UNCHANGED loc
        /\ clients' = {c \in clients : c.key = CacheKey(l.pr, l.snap) => clock < c.exp}
        /\ UNCHANGED <<clock, ops, provider, document, signIns, test, latest, begun, asked>>

\* The secret is opened and the settings are resolved (a snapshot is taken as it is).
Build(p) ==
    LET l == loc[p]
        r == IF l.snap # None THEN l.snap ELSE ResolveConfig(l.pr.cfg, document)
    IN  /\ pc[p] = "build"
        /\ \/ /\ Ready(l.pr) /\ r # None /\ ~NewClientFails(r)
              /\ Goto(p, "keepClient") /\ Set(p, [l EXCEPT !.by = ProviderIdentity(l.pr), !.r = r])
           \/ Done(p)
        /\ UNCHANGED <<clock, ops, upstreamVars>>

\* Expired clients and those of other configurations go; the new one is kept, under
\* its settings too if those were resolved just now.
KeepClient(p) ==
    LET l == loc[p]
        entry(snap) == [key |-> CacheKey(l.pr, snap), by |-> l.by, r |-> l.r, exp |-> clock + ClientCacheTTL]
        new == {entry(l.snap), entry(l.r)}
        stays(c) == clock < c.exp /\ c.key.by = CacheKey(l.pr, None).by /\ c.key \notin {n.key : n \in new}
    IN  /\ pc[p] = "keepClient"
        /\ clients' = {c \in clients : stays(c)} \cup new
        /\ Goto(p, "ask") /\ UNCHANGED loc
        /\ UNCHANGED <<clock, ops, provider, document, signIns, test, latest, begun, asked>>

\* History: the client of <<by, r>> asked for flow f once more.
Ask(f, by, r) ==
    LET again == \E a \in asked : a.f = f
    IN  asked' = asked \cup {[f |-> f, again |-> again, by |-> by, r |-> r]}

Began(pr, r, isTest) == begun' = Append(begun, [by |-> ProviderIdentity(pr), r |-> r, test |-> isTest])

\* Begin answers with the authorization URL; the flow is stored.
BeginStored(p) ==
    LET l == loc[p]
        f == Len(begun) + 1
    IN  /\ pc[p] = "ask" /\ l.f = None /\ MayBegin
        /\ Began(l.pr, l.r, FALSE)
        /\ signIns' = signIns \cup {[f |-> f, by |-> ProviderIdentity(l.pr), r |-> l.r]}
        /\ Done(p)
        /\ UNCHANGED <<clock, ops, provider, document, clients, test, latest, asked>>

\* Advance exchanges the code, or verifies the id_token, unless the token endpoint
\* is no longer the one the flow began with.  A sign-in that fails may be retried.
SignInExchange(p) ==
    LET l == loc[p]
    IN  /\ pc[p] = "ask" /\ l.f # None
        /\ IF ImplicitFlow(l.snap) \/ l.r.token = l.snap.token
           THEN Ask(l.f, l.by, l.r) /\ (signIns' = {s \in signIns : s.f # l.f} \/ UNCHANGED signIns)
           ELSE UNCHANGED <<asked, signIns>>
        /\ Done(p)
        /\ UNCHANGED <<clock, ops, provider, document, clients, test, latest, begun>>

-----------------------------------------------------------------------------
(* The connection test: a record awaiting_callback, then ready, running,      *)
(* succeeded or failed.  It runs with an adapter, and so a cache, of its own.  *)

\* diagnosticFlow.read.
ReadTest(f, who) == Found(test, f, clock) /\ clock < test[f].val.until /\ test[f].val.who = who

\* Mutated form of ReplaceTest: whatever the record holds by now.
ReplaceTestBlind(f, old, new) == SetEx(test, f, new, old.until - clock, clock)

\* replace: a compare-and-swap that keeps the time the record has left.
ReplaceTest(f, old, new) ==
    IF clock < old.until THEN CompareAndSwap(test, f, old, new, old.until - clock, clock) ELSE test

\* clearDiagnosticSecrets.
Cleared(rec, status) == [rec EXCEPT !.status = status, !.secrets = FALSE]

TestLoad(p, who) ==
    /\ Idle(p, "test") /\ MayBegin /\ provider.on /\ Ready(provider)
    /\ Goto(p, "testStart") /\ Set(p, [NoCall EXCEPT !.pr = provider, !.who = who])
    /\ UNCHANGED <<clock, ops, upstreamVars>>

\* Start: through Adapter.Begin; the record is bound to the session and the browser.
TestStart(p) ==
    LET l == loc[p]
        f == Len(begun) + 1
        r == ResolveConfig(l.pr.cfg, document)
        rec == [status |-> "awaiting_callback", who |-> l.who, by |-> ProviderIdentity(l.pr),
                r |-> r, secrets |-> TRUE, code |-> FALSE, until |-> clock + DiagnosticTTL]
    IN  /\ pc[p] = "testStart"
        /\ \/ /\ r # None /\ ~NewClientFails(r) /\ MayBegin
              /\ test' = SetEx(test, f, rec, DiagnosticTTL, clock)
              /\ Began(l.pr, r, TRUE)
           \/ UNCHANGED <<test, begun>>
        /\ Done(p)
        /\ UNCHANGED <<clock, ops, provider, document, clients, signIns, latest, asked>>

\* Callback: the provider sends the browser back with a code (an id_token) or an error.
CallbackRead(p, f, who, ok) ==
    /\ Idle(p, "callback") /\ ReadTest(f, who) /\ test[f].val.status = "awaiting_callback"
    /\ Goto(p, "callbackStore")
    /\ Set(p, [NoCall EXCEPT !.f = f, !.raw = test[f].val, !.ok = ok])
    /\ UNCHANGED <<clock, ops, upstreamVars>>

\* The record is replaced if it is still the one read; then goto done, or give up.
Swap(p, new, label) ==
    LET l == loc[p]
    IN  /\ test' = ReplaceTest(l.f, l.raw, new)
        /\ IF test' # test THEN Goto(p, label) /\ Set(p, [l EXCEPT !.raw = new]) ELSE Done(p)

CallbackStore(p) ==
    LET l == loc[p]
    IN  /\ pc[p] = "callbackStore"
        /\ Swap(p, IF l.ok THEN [l.raw EXCEPT !.status = "ready", !.code = TRUE] ELSE Cleared(l.raw, "failed"),
                IF l.ok THEN "answer" ELSE "recordLatest")
        /\ UNCHANGED <<clock, ops, provider, document, clients, signIns, latest, begun, asked>>

\* Complete: the handler loads the provider...
CompleteLoad(p, f, who) ==
    /\ Idle(p, "complete") /\ f <= Len(begun) /\ provider.on
    /\ Goto(p, "completeRead") /\ Set(p, [NoCall EXCEPT !.pr = provider, !.f = f, !.who = who])
    /\ UNCHANGED <<clock, ops, upstreamVars>>

\* ... and the record, which must be ready...
CompleteRead(p) ==
    LET l == loc[p]
        rec == test[l.f].val
    IN  /\ pc[p] = "completeRead"
        /\ IF ReadTest(l.f, l.who) /\ rec.status = "ready"
           THEN /\ Goto(p, "completeClaim")
                /\ Set(p, [l EXCEPT !.raw = rec,
                                    !.ok = rec.by = ProviderIdentity(l.pr) /\ Ready(l.pr)])
           ELSE Done(p)
        /\ UNCHANGED <<clock, ops, upstreamVars>>

\* ... claims it, dropping the code from the record before it is used; a changed
\* configuration ends the test...
CompleteClaim(p) ==
    LET l == loc[p]
    IN  /\ pc[p] = "completeClaim"
        /\ Swap(p, Cleared(l.raw, IF l.ok THEN "running" ELSE "failed"),
                IF l.ok THEN "testRun" ELSE "recordLatest")
        /\ UNCHANGED <<clock, ops, provider, document, clients, signIns, latest, begun, asked>>

\* ... runs Adapter.Advance, which may fail before or after the exchange...
TestRun(p) ==
    LET l == loc[p]
    IN  /\ pc[p] = "testRun"
        /\ \E ok \in BOOLEAN :
              /\ Ask(l.f, ProviderIdentity(l.pr), l.raw.r) \/ (~ok /\ UNCHANGED asked)
              /\ Goto(p, "testSave") /\ Set(p, [l EXCEPT !.ok = ok])
        /\ UNCHANGED <<clock, ops, provider, document, clients, signIns, test, latest, begun>>

\* ... and saves the result.
TestSave(p) ==
    /\ pc[p] = "testSave"
    /\ Swap(p, [loc[p].raw EXCEPT !.status = IF loc[p].ok THEN "succeeded" ELSE "failed"], "recordLatest")
    /\ UNCHANGED <<clock, ops, provider, document, clients, signIns, latest, begun, asked>>

\* The answer of a callback whose test goes on.
CallbackAnswer(p) ==
    /\ pc[p] = "answer" /\ Done(p) /\ UNCHANGED <<clock, ops, upstreamVars>>

\* recordLatest; a failed write is dropped.
RecordLatest(p) ==
    LET rec == loc[p].raw
    IN  /\ pc[p] = "recordLatest"
        /\ \/ latest' = [latest EXCEPT ![rec.by.id] = [status |-> rec.status, by |-> rec.by]]
           \/ UNCHANGED latest
        /\ Done(p)
        /\ UNCHANGED <<clock, ops, provider, document, clients, signIns, test, begun, asked>>

\* The process dies: a test that runs stays so until the record expires.
UpstreamCrash(p) ==
    /\ "crash" \in ops /\ pc[p] \in {"testRun", "testSave", "recordLatest"}
    /\ Done(p) /\ UNCHANGED <<clock, ops, upstreamVars>>

-----------------------------------------------------------------------------
(* Administration                                                             *)

\* handleUpdateIdentityProvider; the cached clients are dropped after the statement.
SaveConfig(p, c) ==
    /\ Idle(p, "save") /\ provider.on /\ ValidateConfig(c) /\ c # provider.cfg
    /\ provider' = [provider EXCEPT !.cfg = c]
    /\ Goto(p, "dropClients") /\ Set(p, NoCall)
    /\ UNCHANGED <<clock, ops, document, clients, signIns, test, latest, begun, asked>>

InvalidateClientCache(p) ==
    /\ pc[p] = "dropClients" /\ clients' = {} /\ Done(p)
    /\ UNCHANGED <<clock, ops, provider, document, signIns, test, latest, begun, asked>>

\* A rotation drops nothing: the sealed secret is part of the key.
RotateProviderSecret(p) ==
    /\ Idle(p, "rotate") /\ provider.on /\ provider.secret < MaxVersion
    /\ provider' = [provider EXCEPT !.secret = @ + 1]
    /\ UNCHANGED <<desk, document, clients, signIns, test, latest, begun, asked>>

\* The row goes, then what KV remembers of it (errors are ignored).
RemoveProvider(p) ==
    /\ Idle(p, "replace") /\ provider.on
    /\ provider' = [provider EXCEPT !.on = FALSE]
    /\ Goto(p, "forgetLatest") /\ Set(p, [NoCall EXCEPT !.pr = provider])
    /\ UNCHANGED <<clock, ops, document, clients, signIns, test, latest, begun, asked>>

ForgetLatest(p) ==
    /\ pc[p] = "forgetLatest"
    /\ latest' = [latest EXCEPT ![loc[p].pr.id] = None] \/ UNCHANGED latest
    /\ Done(p)
    /\ UNCHANGED <<clock, ops, provider, document, clients, signIns, test, begun, asked>>

\* A provider with the slug of the old one.
ReplaceProvider(p, c) ==
    /\ Idle(p, "replace") /\ ~provider.on /\ provider.id < MaxVersion /\ ValidateConfig(c)
    /\ provider' = [on |-> TRUE, id |-> provider.id + 1, cfg |-> c, secret |-> 1]
    /\ UNCHANGED <<desk, document, clients, signIns, test, latest, begun, asked>>

\* The provider changes its discovery document.
Rediscover(d) ==
    /\ "rediscover" \in ops /\ document' = d /\ d # document
    /\ UNCHANGED <<desk, provider, clients, signIns, test, latest, begun, asked>>

UpstreamNext ==
    \/ \E d \in Documents : Rediscover(d)
    \/ \E p \in Procs :
        \/ SignInBegin(p) \/ \E s \in signIns : SignInAdvance(p, s)
        \/ Client(p) \/ Build(p) \/ KeepClient(p) \/ BeginStored(p) \/ SignInExchange(p)
        \/ \E w \in Testers :
              \/ TestLoad(p, w)
              \/ \E f \in Flow : CompleteLoad(p, f, w) \/ \E ok \in BOOLEAN : CallbackRead(p, f, w, ok)
        \/ TestStart(p) \/ CallbackStore(p) \/ CallbackAnswer(p)
        \/ CompleteRead(p) \/ CompleteClaim(p) \/ TestRun(p) \/ TestSave(p)
        \/ RecordLatest(p) \/ UpstreamCrash(p)
        \/ \E c \in Configs : SaveConfig(p, c) \/ ReplaceProvider(p, c)
        \/ InvalidateClientCache(p) \/ RotateProviderSecret(p) \/ RemoveProvider(p) \/ ForgetLatest(p)

-----------------------------------------------------------------------------

\* A code is exchanged by a client of the configuration and the settings its flow began
\* with (what the cache holds, the administrator saves and the provider publishes
\* meanwhile notwithstanding), the code of a connection test at most once, however many
\* requests complete the test (diagnostics.go:343), and by settings that can end the
\* sign-in: keys to verify an id_token with, or a userinfo endpoint (config.go:296).
ExchangedAsBegun ==
    \A a \in asked :
        /\ a.by = begun[a.f].by /\ a.r = begun[a.f].r
        /\ begun[a.f].test => ~a.again
        /\ a.r.jwks = "none" => a.r.userinfo # "" /\ ~ImplicitFlow(a.r)
=============================================================================
