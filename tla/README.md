# Verification of Prohibitorum

Prohibitorum is an identity provider written in Go: browser sessions, an OIDC
provider, a SAML IdP, forward auth, sign-in with passkeys, passwords and TOTP,
upstream federation, and an admin dashboard. Its authority is kept in two
stores: PostgreSQL (accounts, credentials, clients, policies, keys) and a
key-value store with expiring entries (sessions, codes, refresh families,
pairings, flow and ceremony state). It runs as any number of HTTP handlers,
each a sequence of independent PG and KV calls. No transaction spans the two
stores, and almost nothing in KV is protected by a lock: correctness rests on
single atomic KV operations (Pop, SetNX, compare-and-swap, fenced
compare-and-swap), on the conditions of single SQL statements, on a few row
locks, and on the order of calls.

That is what this project models: **each PG or KV call whose position can be
observed is one step of the request that makes it, and the requests interleave
in every order.** Handlers die, calls fail, leases run out, administrators
change what a request has just read, and time passes between any two steps.

## 1. Inventory

### Components, their state and operations

| Component (source) | State | Operations | What makes it correct |
|---|---|---|---|
| KV store (`pkg/kv`) | key → value, expiry | Get, SetEx, Del, Pop, SetNX, CompareAndSwap, CompareAndDelete, FencedCompareAndSwap, ScanEntries | each is atomic; an expired entry is absent; fence and value are compared together |
| Sessions (`pkg/session`) | KV entry per token, PG row per SessionID, a mutation lease per account | Issue, Load (sliding refresh, backfill), Save, Revoke, ListByAccount, RevokeBySessionID, RevokeAllForAccount, LoadSession | a session that ended stays ended; revoke-all misses nothing |
| OIDC codes and authorize (`oidc/authorize.go`, `codes.go`, `token.go`) | KV code, used-marker, re-auth markers, consent tickets | authorize with its round trips, code grant | single use; a replay kills the family; standing is re-checked; a code rests on session, policy and consent |
| OIDC refresh (`oidc/refresh.go`, `revoke.go`) | one KV record per family | issue, rotate, grant, revoke | one successor per token; reuse ends the family; no lock-out |
| Userinfo, introspection, logout (`oidc/userinfo.go`, `introspect.go`, `identity_projection.go`, `client.go`) | deny list, client secrets | answer a token | nothing lost before the request is relied on; claims are the holder's |
| Device pairing (`credential/pairing`) | KV record by id, index by code | begin, approve, complete, cancel | one approval, one session, of the approving account |
| Sign-in and factors (`handle_auth*.go`, `handle_me*.go`, `credential/password`, `credential/totp`, `authn/throttle.go`) | password, TOTP, recovery-code and passkey rows, partial sessions, ceremonies, failure counters | password then TOTP or recovery code, passkey, enrol, replace, remove | no proof is accepted twice; guesses are bounded; nobody removes his last way in |
| Sudo (`handle_sudo.go`) | intents and challenges in KV, SudoUntil | begin, complete | a grant consumes one intent of the same session |
| E-mail addresses (`account/email`, `handle_me_emails.go`, `handle_admin_account_emails.go`) | address rows, primary, codes in KV | add, send code, verify, set primary, remove, absorb from upstream | a code is guessed and used within limits; the primary is verified |
| Enrollment (`credential/enrollment`, `handle_enrollment*.go`) | token rows, ceremony in KV | bootstrap, invite, reissue, revoke, redeem | a token is consumed once, with its account |
| Upstream federation (`pkg/federation`, `handle_federation*.go`) | flow records with a lease, confirmation grants, identity rows, providers | begin, prepare, callback, resolve, confirm, link, unlink; provider administration | a flow completes once; an identity belongs to one account |
| Upstream adapters (`federation/oidc`, `federation/vrchat`, `federation/diagnostics.go`, outbound HTTP) | client cache, connection tests, sealed operator session, backoff | discover, begin, exchange, test, validate, look up | a code is exchanged as its flow began; a stored secret fits its row; calls stay where they may go |
| Account administration (`handle_account.go`) | account rows | update, set-disabled, delete, revoke | an admin remains; a disabled account loses its sessions |
| Applications and policy (`appaccess`, `handle_admin_*`, `handle_global_groups.go`, `handle_managed_applications.go`) | clients, service providers, groups, decisions, rules, managers | create, update, disable, delete, attach, decide, evaluate | the decision is the policy's; managers stay in scope |
| SAML IdP (`protocol/saml`) | SP sessions, replay entries, consent tickets | SSO, IdP-initiated SSO, SLO | a request is answered once; consent and re-authentication are honoured |
| Forward auth and tokens (`oidc/forward_auth.go`, `credential/pat`) | sessions of the proxy's cookie, states, token rows | verify, callback, sign out, create, revoke | signed out stays out; a token opens what it names |
| Signing keys (`oidc/keys.go`, `keylifecycle.go`, `saml/keys_saml.go`) | key rows, caches per process | generate, activate, retire, reconcile, sign | one active key; what is signed verifies until it expires |
| Settings, wallpapers, avatars, icons (`pkg/branding`, `pkg/wallpaper`, `pkg/avatar`) | settings row with its cache, batches, pictures | read, change, fetch, refresh, pick | the page can be drawn as saved; the user's pick stays |
| Listings (`pkg/pagination`, listing handlers and queries) | sealed cursors | first page, next page | every row once |
| Commands (`cmd/prohibitorum`) | the same tables | clients, service providers, providers, policy, keys, enroll-admin | as the handlers, without their locks |
| Audit, mail, dashboard, smoke tests | — | — | presentation, I/O, tests |

`PROJECT.json` lists every component with its status.

### How they interact

* A login of any kind ends in `SessionStore.Issue`; every request passes
  LoadSession and the account's row, and the maintenance gate.
* `/authorize` reads session, policy (application row and facts, then manual
  decisions, then rules), session row, re-authentication marker and consent,
  and stores a code; `/token` pops it and re-checks; refresh re-checks *after*
  the rotation was stored.
* Policies speak about linked providers; deleting a provider takes its
  identities and its scope out of clients and consents, and makes rules that
  name it invalid.
* Forward auth buys its own cookie by an OIDC round trip; personal access
  tokens pass the same policy.
* Disabling and deleting accounts commit first and revoke sessions afterwards,
  best effort.
* Commands write the same tables beside the running servers.

### What is hard here

Races between a read and the write based on it; two stores that disagree
between two calls; caches invalidated while they are being filled; leases and
deadlines that run out in the middle of an operation; errors deliberately
ignored; responses lost after the state changed; row locks taken on an old
snapshot; configuration changed under a flow that began with the previous one.
The hazards of `PROJECT.json` name each with its line.

## 2. Modules

| Module | Models | Built on |
|---|---|---|
| `Kv` | the KV operations as pure operators on a function from keys to cells | — |
| `SessionStore` | `pkg/session`, logout, revoke-all, set-disabled, the sudo grant, call by call | `Kv` |
| `RefreshChain` | the promise of a refresh family (abstract) | — |
| `RefreshFamily` | `oidc/refresh.go`, `revoke.go`: one family | `Kv`; refines `RefreshChain` |
| `AuthCode` | session gate, mint, `codes.go`, the code grant of `token.go`, call by call | `Kv` |
| `Pairing` | `credential/pairing`, `handle_pairing.go` | `Kv` |
| `Directory` | accounts, sessions, factors, providers, identities: the shared tables and the frame of a request | `Kv` |
| `SignIn` ← `Emails` ← `Enrollment` ← `Federation` ← `AccountAdmin` | the identity core, one component each | `Directory` |
| `Identity` | their composition and its properties | `AccountAdmin` |
| `AppPolicy` ← `Authorize` ← `Saml` ← `ForwardAuth` ← `SigningKeys` ← `Commands` | what applications see, one component each | `Directory` |
| `Applications` | their composition with the changes underneath, and its properties | `Commands` |
| `Desk` | the frame of the services beside the core | `Kv` |
| `Listing`, `Operator`, `Wallpapers` ← `Settings`, `Avatars`, `Outbound`, `Upstream`, `Disclosure` | the services, one component each, with their properties | `Desk` |
| `Services` | all of them side by side | the eight above |
| `KvProofs`, `AuthCodeProofs`, `PairingProofs`, `RefreshFamilyProofs`, `SessionStoreProofs`, `ServicesProofs`, `ApplicationsProofs`, `IdentityProofs` | the proofs | the modules above |
| `MC*` | instances for TLC | the modules above |

An arrow is EXTENDS. The components of the core are stacked rather than
instantiated side by side because they write the same tables: an action of a
higher module names what it leaves unchanged in the lower ones.

### State and actions

All component modules have the same shape. `pc[p]` is the call the request `p`
makes next and `loc[p]` its local variables; `Goto`, `Set` and `Finish` move
them. `clock` is the wall clock in arbitrary units, moved by `Tick` between any
two calls. `Abort(p)` is a crash, a lost response, or a backend error with which
the handler returns: what was written stays. Variables marked *history* are
written by the actions and read by the properties only. Definitions that stand
beside an action under a variant name (`CasBlind`, `RowFreeAlways`, ...) are
plausible bugs; they are part of no specification, and the mutants of
`PROJECT.json` use them to show that each property can fail.

`ops` is the **mix** of a behaviour, chosen in `Init` from `Mixes` and never
changed: a set of words that name the operations it performs (`Idle(p, op)`,
`Admin(s, op)`, `Me(s, op)` test for theirs) and, where a word says so, facts of
its start. In one big specification every operation could meet every other one
and no instance with two requests would end; the mixes are the meetings that
matter, each explored completely. Words that are no operations: start facts
("session", "linked", "closed", "grouped", "managed", "cookie", "token",
"noidp", ...), the kind of application ("oidc", "forward", "saml"), who visits
("both"), what fails ("crash", "faults", "leases"), "time" (the clock moves),
"solo" (requests one after the other), "one" (a single request), "legacy" and
"brief" (SessionStore: a pre-schema session, a short clock).

**SessionStore.** `kv[t]` is the entry `session:<account>:<hash>`, `lease[a]` the
entry `session-mutation:<account>`, `rows` and `stamped` the PG rows and those
with `revoked_at`. `Issue`/`InsertSession`, `LoadGet` … `LoadRelease`,
`Serve`/`KillSession`, `Save`, `RevokeGet`/`RevokeDel`/`RevokeStamp`,
`List`/`ListFill`, `RevokeAllLease` … `RevokeAllRelease`.

**RefreshFamily.** `kv["family"]` is the family record; a token is the number of
its secret. `IssueRefresh`/`PutFamily`, `Present`, `Classify`, `Cas`, `Reload`,
`CheckClient`, `CheckStanding` (four re-checks, one read each), `MintFails`,
`Respond`, `DelFamily`, `RevokeFamily`.

**AuthCode.** `code[c]` and `used[c]` are the code and its marker, `fams` the
live families; `sessKv` and `"session" \in lost` the two views of the session.
**Pairing.** `rec[x]` and `index[x]` are the record and the code index.

**Directory and the identity core.** A transaction under the account's row lock
is one step; what a handler does before and after it are others. `SignIn`: the
password stage stores a partial session, the second stage pops it; throttle
check and failure count are two statements; TOTP and recovery codes are consumed
by conditional updates. `Emails`: a guess reads the code, claims an attempt by
compare-and-swap and consumes the code. `Enrollment`: begin reads the token,
complete consumes it with the account. `Federation`: `FederationLogin`,
`IdentitiesLinkBegin` and `EnrollmentStartFederation` store a flow;
`FederationCallback` takes its lease, consumes it, asks the provider, resolves
in one transaction (`ResolveExisting`, `ApplyAutoProvision`,
`ApplyInviteProvision`, `AttachInviteIdentity`, `ResolveLink`) and restores the
flow on failure; the lease may be lost on the way. `AccountAdmin`: set-disabled
and delete are a read and a write, revoke-all follows the commit.

**Applications.** `AppPolicy` holds applications, groups and decisions;
`Evaluate`, `EvalManual` and `EvalAllows` are the three reads of an evaluation,
each request's next step deciding on all of them. `Authorize`, `Saml` and
`ForwardAuth` keep markers, tickets, states and codes in one `kv` under random
names; `sent` is the instant an answer leaves. `SigningKeys` has rows and
process caches. `Commands` writes the same tables as an operator would from the
command line: without sessions, row locks or cache invalidation.
`Applications` adds what changes underneath and records in `grounds[p]` what
held at some instant of request `p`.

**Services.** One desk, one component at a time: `Listing` (a client that pages
through one listing while rows move), `Operator` (VRChat sessions and backoff),
`Wallpapers` and `Settings`, `Avatars`, `Outbound` (screening of a call and of
every redirect), `Upstream` (OIDC configuration to client settings, cache,
sign-ins, connection tests), `Disclosure` (userinfo, introspection, logout).

### Abstractions worth knowing

* Random tokens, ids and secrets never repeat and hashing is injective on them.
* A TTL the code computes with `time.Until` just before a write is computed at
  the instant of the write.
* Reads nothing can separate observably from the next step share it.
* `maint`, in the identity core and the applications, is maintenance mode as the
  settings caches show it to a handler, not the settings row: it turns over at any
  instant (`MaintenanceShows`), which covers late, stale and differing caches. How
  stale a cache may stay is the subject of `Settings` and `MaintenanceHolds`.
* `dead`, in `Operator`, has the logins VRChat has ended and the sealed secrets that
  are of no use by themselves (cookies that ran out or do not decode, a key that is
  gone): a validation treats both alike, a proof lookup only reports the last.
* Generated queries appear as operators (`ConsumeInviteEnrollment`,
  `UpdatedOIDCClient`, `GetOIDCClient`, ...) named after the query, with the
  columns some modelled decision looks at.
* An account id stands for its username; a provider for its slug and its scope;
  a name identifier for its account; a verified upstream identity for its claims.
* Audit records, rate limits, cookie attributes and formatting are left out.

## 3. Runs

| Run | Instance | Shows | Distinct states |
|---|---|---|---|
| `session_store` | 1 session, 2 requests, lease of 1 tick, 2 mixes | `RevokeAllComplete`, `OnlyUnfencedWritesRevive` | 1,388,578 |
| `session_resurrect` | one life of a session, no failures | **violates** `EndedStaysEnded` | – |
| `refresh_family` | 2 requests, 2 clients, 3 tokens, 3 ticks, 3 mixes, fair | `OneSuccessor`, `MintsInGoodStanding`, `NeverLockedOut`, the refinement `ImplementsChain`, liveness `ReplayEndsFamily` | 525,435 |
| `code_exchange` | 3 requests, 1 code, 2 clients, 4 ticks, losses, failures | `SingleUse`, `KilledStaysKilled`, `ExchangeInGoodStanding` | 219,676 |
| `code_replay` | 2 requests, no failures | **violates** `ReplayRevokesFamily` | – |
| `code_dead_session` | 2 requests, no failures | **violates** `DeadSessionMintsNothing` | – |
| `pairing` | 3 requests, 1 pairing, 2 accounts, failing KV calls | `OneApproval`, `OneSession` | 114,178 |
| `identity` | 2 requests, 2 accounts, 2 providers, 3 sessions, 3 ticks, 39 mixes | `ProofsSpentOnce`, `GuessesBounded`, `MethodRemains`, `OnlyRehashRevives`, `DisabledHoldsNoSession`, `ActiveAdminRemains`, `IdentitiesBound`, `PrimaryFollows` | 147,484 |
| `link_only` | the mix of an invitation and a provider update | **violates** `LinkOnlyNeverCreates` | – |
| `applications` | 2 requests, 2 accounts, one application of each kind, 2 groups, 1 provider, 2 keys in 2 caches, 3 ticks, 63 mixes | `IssuedOnGrounds`, `SpentOnce`, `ConsentHolds`, `KeysServe`, `SignedOutStaysOut`, `ManagersInScope` | 170,248 |
| `services` | 2 requests, 78 mixes | `PagesComplete`, `OperatorSecretFits`, `BackoffHolds`, `LookComplete`, `OutboundContained`, `ExchangedAsBegun`, `ToldInGoodStanding`, `ClaimsOfHolder`, `LatestPickKept` | 447,567 |
| `maintenance` | a gate and the settings it reads | **violates** `MaintenanceHolds` | – |

The comment above each property says what it promises and at which lines of the
code it would go wrong; several of them state a promise *with* its exceptions
(`OnlyRehashRevives`, `DisabledHoldsNoSession`, `ConsentHolds`, `SpentOnce`,
`KeysServe`, `PagesComplete`): the exceptions are races the code does not close,
and the property shows that there are no others.

**Why these bounds.** One session, family, code or pairing: nothing in the code
relates two of them, except the loop of revoke-all, which deletes each entry in
a step of its own and whose error flag is the only thing carried over. Two
requests give every read–write race; three are used where two racing requests
are observed by a third (a replay, a cancellation, a loss of access). Two
accounts are an administrator and a user. The clocks reach one tick past the
deadlines a mix with "time" is about: a TOTP window, a throttle lock, a code, a
marker, a replay entry, a token, the grace of a key. `MaxToken` 3 lets a token
be superseded twice, which distinguishes "previous" from "older". Two caches of
keys are two processes. Rules of depth 2 with a negation are where validity
(depth, children, negated facts, unknown providers) and evaluation differ.

**Deadlock** is not checked: the clock and the supply of tokens are bounded, and
a system in which every request is idle and everything has expired has nothing
left to do.

**Symmetry** (of requests, tokens, flows, accounts in `pairing`) is used with
invariants and with the action property `LatestPickKept`, which the permutations
leave as they are; `refresh_family`, which checks a refinement and a liveness
property, uses none.

**Fairness** (`refresh_family` only): a request that was accepted runs to its
end (weak fairness of the request's own steps: Go schedules every handler, and
no step waits for another request), and time passes. New requests, revocations
and losses are not assumed to happen.

### What the violating runs show

* `session_resurrect`. `applySudoGrant` Loads the session, stamps SudoUntil and
  Saves it with a plain SetEx. A logout or revocation in between is undone: the
  deleted entry is written back. `OnlyUnfencedWritesRevive` shows that this and
  the listing's backfill of pre-schema entries are the *only* ways.
* `code_replay`. The used-marker is the last thing an exchange writes. A second
  presentation while the first exchange is running finds neither code nor
  marker and revokes nothing, although the architecture document says a replay
  revokes the family. `KilledStaysKilled` shows why issue-then-mark is
  nevertheless the right order of the two.
* `code_dead_session`. The exchange checks the PG row of the session, which is
  stamped after the KV entry was deleted (or, for an expired session, never), so
  tokens can be minted for a session that is over. The next refresh notices.
* `link_only`. A provider is made link_only while an invited registration
  through it is under way: the callback creates the account all the same,
  although a comment says link_only never creates accounts on any entrypoint.
* `maintenance`. A reader of the settings cache that read the row before
  maintenance mode was turned on stores what it read after the invalidation:
  non-admins are served until the next change, although the comments say the
  change applies immediately and denies every non-admin.

### Observations without a run of their own

Met while modelling, and part of the model; none contradicts a statement of the
repository that a run could check.

* `CountActiveAdminsForUpdate` is `SELECT COUNT(*) … FOR UPDATE`, which
  PostgreSQL refuses together with an aggregate: the constant `CountLocks` is
  FALSE in the instances, and demoting or deleting an active admin fails.
* The comment at `handle_account.go:524` says set-disabled has no
  session-revocation logic; at 582 it revokes the sessions, dropping the error,
  and another comment says so. The model follows the code.
* `UpdateGlobalGroup` writes back the rule it read (`handle_global_groups.go:522`):
  two edits of a group may undo one another.
* Scopes are validated before a client is inserted or updated
  (`handle_admin_oidc_clients.go:60`, `:243`): a provider deleted in between
  leaves its scope behind.
* `prompt=consent` of a client that requires consent asks again after each
  approval (`authorize.go:262`; `docs/audit.md:311`).
* A SAML consent ticket may be resumed from another, older session of the
  account after a forced re-authentication (`consent_saml.go:82`).
* A confirmed consent written over a row read before a revocation restores what
  was revoked (`handle_consent.go:155`); `ConsentHolds` names it.
* The listing of an account's sessions starts over when the session its cursor
  names is gone; rule previews compare usernames byte-wise in an answer the
  database sorted by its collation.
* The diagnostics handler says `access_token` is read only to reject duplicates;
  the callback stores it with the record.
* The secret of a public client may be rotated, and authenticates nobody
  (`handle_admin_oidc_clients.go:526`, `client.go:228`); introspection does not
  look at access to the application; the alias names "groups" and
  "email_verified" are not reserved.
* Nothing relates `MetadataRotationGrace` to the lifetime of a key cache and of what
  it signs (`configx.go:171`; 7 days by default). The last part of `KeysServe`, that
  a signature's key stays published, is stated where the grace covers both
  (`GraceCovers`).
* A LogoutRequest is used up before its NameID and RelayState are looked at and its
  sessions looked up (`slo.go:190`): one that fails there must be sent again under
  another id (`SloAborts`).
* `group select` locks the application's row but works on the snapshot it began
  with: groups attached while it waits survive a "complete replacement"
  (`rbac.sql.go:1471`).
* `RegisterForwardAuthApp` makes two statements, which the command does not wrap
  in a transaction (the model takes them for one); `oidc-client update` accepts
  the client of a forward-auth application, which the handler refuses; a
  provider is inserted before its secret is sealed; key activation from the
  command line does not invalidate the caches of running servers
  (`KeysServe` holds nevertheless, because the old key stays published for the
  grace period).

## 4. Proofs

TLC checks the instances above; the theorems hold for every number of requests,
codes, clients, tokens, pairings, accounts and mixes, all lifetimes and every
bound of the clock. They assume only what the modules name: `CodeAssumption`,
`PairingAssumption`, `FamilyAssumption`, `SetAssumption` and `TtlAssumption`
(non-empty sets, lifetimes that are natural numbers, those of codes and pairings
positive), `DeskAssumption` and `DirectoryAssumption` (the value "none" is no request,
no account and no instant; sessions are numbered), one assumption per service on the kinds of its constants, and of
the applications `AppPolicyAssumption`, `AuthorizeAssumption`, `SamlAssumption`,
`ForwardAuthAssumption`, `SigningKeysAssumption`, `ApplicationsAssumption` (disjoint
kinds of applications, lifetimes and ages that are natural numbers, a key identifier to
generate, two accounts and a provider to begin with), and of the identity core
`IdentityAssumption` (the bootstrapped admin and another account, a provider, room for two
address rows, and a mix that starts with a session of the user has the user) and
`LimitsAssumption` (finitely many requests are served, at least one; there is a password,
and "none" is nobody's; room for one secret, recovery code and mailed code attempt).

* `KvProofs`: what each KV operator returns and that it keeps a store typed.
* `AuthCodeProofs`: `CodeTypes`, `CodeSingleUse`, `CodeKilledStaysKilled`,
  `CodeMarkerOutlivesCode`, `CodeExchangeInGoodStanding`.
* `PairingProofs`: `PairingTypes`, `PairingOneApproval`, `PairingOneSession`,
  `PairingConsumedIsFinal`, `PairingNeverExtended`.
* `RefreshFamilyProofs`: `FamilyTypes`, `RefreshOneSuccessor`,
  `RefreshMintsInGoodStanding`, `RefreshNeverLockedOut`, `RefreshImplementsChain`.
* `SessionStoreProofs`: `SessionTypes`, `SessionOnlyUnfencedWritesRevive`,
  `SessionRevokeAllComplete`.
* `ServicesProofs`: `OutboundCallsContained`, `OperatorSecretAlwaysFits`,
  `BackoffAlwaysHolds`, `PickStaysUnlessUnseen`, `CodesExchangedAsBegun`,
  `LookStaysComplete`, `AnswersInGoodStanding`, `AnswersOfHolder`.
* `ApplicationsProofs`: `ManagersAlwaysInScope`, `ConsentAlwaysHolds`,
  `SignedOutAlwaysStaysOut`, `KeysAlwaysServe`, `AlwaysSpentOnce`, `AlwaysIssuedOnGrounds`.
* `IdentityProofs`: `TablesHold`, `IdentitiesAlwaysBound`, `PrimaryAlwaysFollows`,
  `OnlyRehashEverRevives`, `DisabledNeverHolds`, `ActiveAdminAlwaysRemains`,
  `ProofsAlwaysSpentOnce`, `GuessesAlwaysBounded`, `MethodAlwaysRemains`.

**AuthCode.** None of the properties is inductive alone: that a code gives one
response does not say why a second request cannot be half-way through an
exchange of it. `AuthInv` adds, per code (`CodeFacts`): while the code is
stored, or not yet minted, nothing came of it and no request holds it; a marker
names a family of that very code and lasts `CodeTTL + Grace` from an instant not
before the mint; a killed code has a family in the past and none now. Per
request (`RequestFacts`): two requests never hold the same code, the holder's
code has no response yet, and before "mark" no family. `StandingFacts` carries
the re-check loop: what remains of the conditions lost at the Pop is still lost
and does not include those already passed. The one step where exclusivity is
*gained* is the Pop (`ConsumeCode`); everything else keeps it. `KilledStaysKilled`
follows because a kill needs a marker, a marker needs the family, and a code
has one family.

**Pairing.** `PairingInv` relates the stored record to the history: a pending
record has no approval, an approved one names the account in `approvals`, and a
record that is not "consumed" belongs to a pairing that was never consumed
(`RecordInv`); a request that won the consumption is the only one and has issued
nothing (`RequestInv`). Each compare-and-swap carries these from the copy that
was read to the record that is replaced; the lemma `SwapFacts` states it once.
That the KV expiry of a record equals the deadline it carries is part of
`RecordInv` and gives `PairingNeverExtended`.

**RefreshFamily.** A rotation is a read, a compare-and-swap and a re-check, so "one
successor" needs to know what a request may still write. `ChainInv` says of the
live record that its token is the current one and that it came from a rotation
on record (`RecordFacts`); of the history that every exchanged token is below
the current one, hence the current one is exchanged once (`HistoryFacts`); and
of a request that the copy it compares with carries a token generated earlier,
the record it wants to store follows that copy, and the pair it is about to hand
out is a link of the chain (`RequestFacts`). `StandingInv` carries the re-check
loop as in AuthCode; `NeverLockedOut` needs only that the first token is handed out
by the request that writes the family (`UsableInv`). `RefreshImplementsChain` is a
step simulation: under `ChainInv` the compare-and-swap that succeeds is the
rotation of `RefreshChain`, a delete or expiry its end, and every other step a
stutter (`ChainStep`).

**SessionStore.** `UsedInv` says that only generated tokens are live, returned, held
by a request or ended; then no step makes a generated token live again except an
unfenced write (`NoRevival`), which gives the first property. `SweptInv` follows
revoke-all through its sweep: a session it marked and no longer has to delete is
gone, or was written back without the fence. The proof never uses that the lease
is exclusive: completeness holds of the sessions that were live when the lease
was won, also when it expires during the sweep. What the lease buys is
`OnlyUnfencedWritesRevive`.

**Services.** Eight components share `pc`, `loc` and the clock. The proof of each
property reasons about its own component's actions only; for the others it uses
the frame lemmas: the labels of two services differ (`LabelsDiffer`), an action
of a service moves a request between labels of that service and "idle" and
leaves the variables of the others alone (`Moves`, `Apart`, `ServiceStep`). The
invariants they need:
`TripInv` (a call under way is contained at every label, redirects included);
`OperatorInv` (every sealed secret belongs to the provider row that holds it, a request that
goes to declare a secret invalid has found it of no use, and a promised backoff is covered by the stored one, whose key lives as long as it);
`AvatarsInv` (what a background fetch knows about the user's choice is still the case
or a choice was made since); `UpstreamInv` (every stored state, cached client and
exchange is of a flow that was begun, the record of an exchanged test is closed,
and one request at most is about to exchange it); `SettingsInv` (the transaction
that holds the row lock finds the row as it left it and no more images);
`DisclosureInv` (what a request has been watched for includes everything that is
the case now, and what it has read was the case at an instant it was watched).

**Applications.** Five components, the commands and the surroundings act on the same
tables. `StepSplit` sorts the steps once: a component moves requests between its
own labels (`Moves`), begins an evaluation of the policy (`Begun`) or makes a
step named in `ComponentStep`, and leaves the variables listed beside it alone.
Each property then goes through that list.
`ManagersInScope`: `ScopeInv` says that a transaction holding an application's row
(`Locked`) is the only one, finds the groups as it read them, and would attach
groups that were attached or within its manager's reach. `ConsentHolds`: `ConsentInv`
says that what an approval has read was agreed to, or the pair is on record as
lapsed. `SignedOutStaysOut`: `NameInv` says that names of entries are counted up and
what is beyond the counter is not there; an entry that is gone stays gone, since
`KvMoves` shows every step to store under the next name only or to renew what it
found. `KeysServe`: `KeyInv` carries, for a row, a cache and a request that is
refreshing one, until when a key lasts (`Lasts`): an active key forever, a demoted
one for the grace period, so that what a cache still trusts outlives what it signs
where `GraceCovers` holds, which is a premise of the property and no assumption.
`SpentOnce`: `UsedInv` says that what was turned into something is gone, that a
forward-auth session and a callback under way name a state that was used up, and
that two requests never resume the same ticket. `AnswerInv` counts who may still
answer a SAML request, requests past its consumption and consent tickets
(`Claims`): while its replay entry must be there (`Excepted` says when it need not
be) there is one claimant and no answer, or no claimant and at most one answer; a
claim passes from a request to its ticket and back, and is made only by a
consumption, which finds no replay entry only before the first.

`IssuedOnGrounds`: a request spends several steps between the first thing it reads and
its answer, and everything it read may be gone by then. `GroundInv` says, label by
label, what the checks passed so far have put among the grounds: whose request it
is (`Subject`), what held when it was taken on (`Grounded`), that the facts and
providers it carries are the current ones or the policy was torn (`Weighing`), what
the manual decisions it read say (`Counted`), that the policy let the account in and
a fresh sign-in is there where one was wanted (`Admitted`), and the consent or
identity (`Answered`). The grounds only grow while a request is served (`Observed`), so
a request that does not move keeps its part (`GroundKept`), whatever is revoked or
deleted meanwhile; each action of the three protocols is then one lemma. What a
request finds in the store it has to trust: `EntryInv` says that a marker stands for a
demand on record, and that a SAML consent ticket carries a message whose forced
sign-in was done. That is kept because the request that stores the ticket passed its
own checks (`Sources`), so the two invariants are proved together. What either refers
to is never rewritten (`Carried`): a session keeps its account and the time of its
sign-in, a message its contents, and demands stay on record.

**Identity.** Dozens of actions of five components write the same dozen tables, so
proving each invariant over each action would be hundreds of cases, most of them alike.
The proof is laid out the other way round. What makes an action harmless is always the
same: the account it acts for exists. `FrameOK` says so of requests, label by label
(`Holder`), `SessionsOK` of sessions, `HoldersOK` of passkeys, partial sessions,
proposals, flows and grants; they are kept because a handler takes its account from a
session, a partial session, a flow or a row that was just found. Under them each
action's effect on each table is told once (`StepEffect`: which rows of accounts,
identities, invitations, addresses, passwords and sessions it may add, change or take
away, and with which account; `Aside`: that all but account administration and deletion
leave accounts and revocations alone), and `StepEffects` puts the actions of all
components under that description. Each invariant is then kept by whatever is so
described, without looking at actions again:
`IdentitiesBound` because `LinksOK` and `InvitesOK` say that a link is inserted only where
no account has the identity, and that a consumed invitation bound to a provider names
the account its redemption created; `PrimaryFollows` because every change of the rows of an
account is one of a transaction that sets its primary again (`MailOK`);
`OnlyRehashRevives` because a password is written in three ways only: by the account's own
choice, which takes the value off the retired ones; by its removal, and "no password" is
never a retired one (`PasswordsOK`); or by the rehash of a verified password, which goes
on record in `revived`. `DisabledHoldsNoSession` because a session issued to an account
that is not enabled is on record as such, and whoever disables or deletes an account
revokes next (`revokeAll`) or, where that fails, puts the sessions that stay on record
(`Excused`, `AdminExcuses`, `AsideExcuses`). `ActiveAdminRemains` is proved for
`~CountLocks`, the value the code has on PostgreSQL: then every demotion, disabling and
deletion of an active admin fails, and `RootSafe` says that no request on its way does
that to the first admin; its second part holds because a request that set out to disable
somebody did not find an admin (`AccountsOK`), so an admin it disables is on record as
raced (`RacedOK`). For `CountLocks = TRUE` it is not claimed: set-disabled reads
the account before it counts, and writes to whoever was promoted in between.

`ProofsSpentOnce` counts uses, so the proof has to know who may still use what. `Claims`
and `Pledges` say which partial session or passkey ceremony a request has popped, and
which sudo intent it has withdrawn, by its label and locals. `SpentInv` then says, table
by table: a token that is stored is claimed by nobody, one that is claimed has one
claimant, and neither was redeemed (`RedeemedOK`); the requests pledging a session's
intent, together with the one stored, are no more than `owed` (`OwedOK`); a code was used
at most once, and one the current authenticator has seen is not above its last step
(`UsesOK`); a recovery code
that is still there was not spent (`CodesOK`); an open invitation has yielded nothing and
was not withdrawn (`YieldsOK`); and of a federation flow there is at most one
thing at a time: the record, the callback that took it, the resolved request, or the
grant (`CompletedOK`). Six moves (`RedeemMove` to `FlowsMove`) tell what a step may do to each of
these tables; every action is shown to be such moves once (`SpentStep`), and the moves
keep the invariant (`SpentMoved`).

`GuessesBounded`: what has to be bounded is not the counter but the requests between the
check and the count. `Triers` are the requests past `CheckLocked` of a factor. While the
factor is locked nobody joins them, and each failure counted is of one who leaves, so
failures counted since plus triers left stay below the number of requests (`Few`); the
one whose failure locked it has left already, which makes it strict. Of mailed codes, a
stored record carries exactly the comparisons made and no acceptance (`Counted`), two
addresses never store the same code, and who claims one found the limit not reached
(`ClaimsOK`); the record is updated by compare-and-swap, so a claim that lost the race
compares nothing.

`MethodRemains`: a way in is a passkey, a password with an authenticator, or an identity
at an open provider (`Way`, which `WaysAre` shows to be what `AvailableMethods` computes).
Most actions only add to these or leave them (`Grows`); three remove under the owner's
row lock and check what would be left (`RevokeWays`, `DeleteWays`, `UnlinkWays`), and a
reset by enrollment removes all passkeys but puts a new method in their place
(`PasskeyWays`, `PasswordWays`). That no two of these interleave to remove both methods
is what holding the row lock from the check to the delete buys. `MethodInv` adds that no
deletion of an account is under way in a mix in which no admin takes a way in.

**Only model-checked:** `PagesComplete`, which is about what sorting a list computes: the
sort is defined by choosing an ordered permutation, and that there is one takes an
induction over finite sets, which these provers cannot instantiate. And the liveness
property `ReplayEndsFamily`, which is beyond the proof system. The runs that expect a
violation stay with TLC by their nature.

## 5. Plan

Done: the modules of section 2 and the proofs of section 4; every safety property the
passing runs check is proved, but for `PagesComplete`.

## 6. Not modelled

* Cryptography (hashing, JWT and XML signatures, WebAuthn assertions, sealing),
  parsing and formatting, image decoding: their results are values.
* The smoke tests (`cmd/smoke`, some 15,000 lines): end-to-end tests of the
  behaviours modelled here, without state of their own.
* Generated code whose only content is the copying of columns, wire and view
  types, routing and the dashboard.
* SAML metadata (re)ingestion, attribute mapping and the form kept for a POST
  request; the host update of a forward-auth application; the groups an
  invitation carries; the per-application group handlers, which no route
  reaches; the middleware that admits personal access tokens to the API.
* Mail delivery, audit output, client IP, the in-process rate limiter; the Redis
  driver of the KV store, of which the model keeps the atomicity.
* Listings, previews and explanations beyond what `Listing` checks: they read.
* Commands that print, show or rotate secrets, and development seeds.

`PROJECT.json` gives the status and the reason for each component.
