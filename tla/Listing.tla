------------------------------ MODULE Listing ------------------------------
(***************************************************************************)
(* Paginated collections.  A listing is stateless: the last row of a page  *)
(* is sealed into a cursor together with the collection, the filters and   *)
(* the sort, and the next request asks for the rows behind it.  Between    *)
(* two pages the table, the caller's role, the encryption keys and the     *)
(* clock move on.                                                          *)
(*                                                                         *)
(* A behaviour lists one table through the handlers of its mix.  A row     *)
(* has the columns some query looks at: id (primary key), at (created_at,  *)
(* issued_at), name (username, as its byte-wise rank), text (what searches *)
(* look into), par (what it belongs to or is linked with: account,         *)
(* provider, group, manager), on (pending, unrevoked, not disabled), fa    *)
(* (forward_auth_enabled).                                                 *)
(***************************************************************************)
EXTENDS Desk

CONSTANTS
    StartRows,     \* the rows at the start
    MaxRow,        \* row ids and ranks of usernames are 1..MaxRow
    Texts, Parents,   \* values of text and par that filters ask for
    Rules,         \* rule documents a preview can be asked for
    Sizes,         \* page sizes clients ask for
    DefaultLimit, MaxLimit, CursorTTL,
    MaxChange,     \* rows changed in one behaviour
    MaxSeen        \* a client asks for no further page after that many rows

VARIABLES
    data,     \* the rows of the table
    changes,  \* rows changed so far
    admin,    \* does the caller of the application lists have role admin?
    byBytes,  \* does the database collate usernames byte-wise?
    active, deks,   \* the active and the configured versions of the DEK
    walk      \* the client: the listing it pages through, its cursor, history

listingVars == <<data, changes, admin, byBytes, active, deks, walk>>

NoFilter == [q |-> None, by |-> None, since |-> 0, rule |-> None]

\* st: none, on (there is a next page), done, refused.  History: seen, the ids
\* answered so far; steady, the ids that belong to the listing all the while.
NoWalk == [st |-> "none", ep |-> None, f |-> NoFilter, cur |-> None, seen |-> <<>>, steady |-> {}]

Caller == CHOOSE a \in Parents : TRUE

ListingInit ==
    /\ data = StartRows /\ changes = 0 
    /\ admin = ("role" \in ops) /\ byBytes \in IF "locale" \in ops THEN BOOLEAN ELSE {TRUE}
    /\ active = 1 /\ deks = {1}
    /\ walk = NoWalk

Ids(S) == {r.id : r \in S}

-----------------------------------------------------------------------------
(* Cursors                                                                   *)

\* Codec.Encode over the last row of the page.
EncodeNextCursor(ep, sort, f, last) ==
    [v |-> active, ep |-> ep, sort |-> sort, f |-> f,
     key |-> [at |-> last.at, id |-> last.id, name |-> last.name], exp |-> clock + CursorTTL]

\* Mutated form of Decode: the filters are not compared.
DecodeAnyFilter(c, ep, sort, f) ==
    c.v \in deks /\ c.ep = ep /\ c.sort = sort /\ clock < c.exp

\* Codec.Decode: the key still exists, and the cursor is one of this listing.
Decode(c, ep, sort, f) ==
    c.v \in deks /\ c.ep = ep /\ c.sort = sort /\ c.f = f /\ clock < c.exp

\* No cursor asks for the first page.
DecodeCursor(c, ep, sort, f) == c = None \/ Decode(c, ep, sort, f)

Limit(v) == IF v <= 0 THEN DefaultLimit ELSE IF v > MaxLimit THEN MaxLimit ELSE v

HasMore(n, lim) == n > lim

-----------------------------------------------------------------------------
(* Queries: the rows behind key k (None: all rows) that match                 *)

\* Mutated form of BehindDesc: created_at alone decides.
BehindDescAt(r, k) == k = None \/ r.at < k.at

\* (created_at, id) < (after_created_at, after_id)
BehindDesc(r, k) == k = None \/ r.at < k.at \/ (r.at = k.at /\ r.id < k.id)

\* The rank of a username in the database's collation.
Rank(n) == IF byBytes THEN n ELSE MaxRow + 1 - n

\* (username, id) > (after_username, after_id)
BehindName(r, k) ==
    k = None \/ Rank(r.name) > Rank(k.name) \/ (r.name = k.name /\ r.id > k.id)

\* The orders of the answers.
NewestFirst(r, s) == r.at > s.at \/ (r.at = s.at /\ r.id > s.id)
OldestFirst(r, s) == r.at < s.at \/ (r.at = s.at /\ r.id < s.id)
ByName(r, s) == Rank(r.name) < Rank(s.name) \/ (r.name = s.name /\ r.id < s.id)
ById(r, s) == r.id > s.id

ListAccounts(f, k) ==
    {r \in data : (f.q # None => r.text = f.q) /\ (f.by # None => r.par = f.by) /\ BehindDesc(r, k)}

ListPendingInvitations(k) == {r \in data : r.on /\ BehindDesc(r, k)}

ListAllSigningKeys(k) == {r \in data : BehindDesc(r, k)}

ListAllUpstreamIDPs(k) == {r \in data : BehindDesc(r, k)}

ListCredentialEvents(f, k) ==
    {r \in data : /\ f.q # None => r.text = f.q
                  /\ f.by # None => r.par = f.by
                  /\ r.at >= f.since
                  /\ k # None => r.id < k.id}

ListNonForwardAuthOIDCClients(all, a, k) ==
    {r \in data : ~r.fa /\ (all \/ r.par = a) /\ BehindDesc(r, k)}

ListForwardAuthClients(all, a, k) ==
    {r \in data : r.fa /\ (all \/ r.par = a) /\ BehindDesc(r, k)}

ListSAMLSPs(all, a, k) == {r \in data : (all \/ r.par = a) /\ BehindDesc(r, k)}

ListCredentialsByAccountPage(a, k) == {r \in data : r.par = a /\ BehindDesc(r, k)}

ListPATsByAccountPage(a, k) == {r \in data : r.par = a /\ r.on /\ BehindDesc(r, k)}

ListManualDecisionsPage(g, k) == {r \in data : r.par = g /\ BehindName(r, k)}

ListActiveAccountAccessFactsPage(k) == {r \in data : r.on /\ BehindName(r, k)}

ListActiveAccountAccessFacts == {r \in data : r.on}

-----------------------------------------------------------------------------
(* Answers                                                                   *)

First(s, n) == SubSeq(s, 1, IF n < Len(s) THEN n ELSE Len(s))

Asks(ep) == ep \in ops /\ walk.st \in {"none", "on"} /\ Len(walk.seen) < MaxSeen

\* A page: items of the listing whose rows are S now, and the next cursor.
Answer(ep, f, S, items, next) ==
    /\ walk' =
          [st |-> IF next = None THEN "done" ELSE "on", ep |-> ep, f |-> f, cur |-> next,
           seen |-> walk.seen \o [i \in DOMAIN items |-> items[i].id],
           steady |-> IF walk.ep = ep /\ walk.f = f THEN walk.steady ELSE Ids(S)]
    /\ UNCHANGED <<data, changes, admin, byBytes, active, deks, desk>>

\* The cursor is refused: pagination_cursor_invalid.
Refuse ==
    /\ walk' = [walk EXCEPT !.st = "refused"]
    /\ UNCHANGED <<data, changes, admin, byBytes, active, deks, desk>>

\* Mutated form of LastItem: the probe row behind the page is sealed.
LastProbed(rows, lim) == rows[Len(rows)]

\* The last row that is returned, not the probe row behind it.
LastItem(rows, lim) == rows[lim]

\* The shape of the SQL listings: one row more than the page is asked for, and the
\* page is followed by another one when it is there.
ServePage(ep, sort, f, size, Query(_), Before(_, _)) ==
    LET c == walk.cur
        lim == Limit(size)
        rows == First(SetToSortSeq(Query(IF c = None THEN None ELSE c.key), Before), lim + 1)
        more == HasMore(Len(rows), lim)
    IN  IF DecodeCursor(c, ep, sort, f)
        THEN Answer(ep, f, Query(None), First(rows, lim),
                    IF more THEN EncodeNextCursor(ep, sort, f, LastItem(rows, lim)) ELSE None)
        ELSE Refuse

\* The shape of the rule previews: all rows are read in the database's order, and
\* those up to the cursor skipped by a byte-wise comparison.
ServePreview(ep, f, bound, size) ==
    LET c == walk.cur
        all == SetToSortSeq(ListActiveAccountAccessFacts, ByName)
        behind == {i \in DOMAIN all : c = None \/ all[i].name > c.key.name}
        start == IF behind = {} THEN Len(all) + 1 ELSE CHOOSE i \in behind : \A j \in behind : i <= j
        items == First(SubSeq(all, start, Len(all)), Limit(size))
    IN  IF DecodeCursor(c, ep, "username", bound)
        THEN Answer(ep, f, ListActiveAccountAccessFacts, items,
                    IF start + Limit(size) <= Len(all)
                    THEN EncodeNextCursor(ep, "username", bound, items[Len(items)]) ELSE None)
        ELSE Refuse

-----------------------------------------------------------------------------
(* Handlers                                                                  *)

HandleListAccounts(f, n) ==
    /\ Asks("accounts") /\ f.since = 0 /\ f.rule = None
    /\ ServePage("accounts", "created_at", f, n, LAMBDA k : ListAccounts(f, k), NewestFirst)

HandleListInvitations(n) ==
    /\ Asks("invitations")
    /\ ServePage("invitations", "created_at", NoFilter, n, ListPendingInvitations, NewestFirst)

HandleListSigningKeys(n) ==
    /\ Asks("signing_keys")
    /\ ServePage("signing_keys", "created_at", NoFilter, n, ListAllSigningKeys, NewestFirst)

HandleListIdentityProviders(n) ==
    /\ Asks("identity_providers")
    /\ ServePage("identity_providers", "created_at", NoFilter, n, ListAllUpstreamIDPs, NewestFirst)

HandleListAuditEvents(f, n) ==
    /\ Asks("audit_events") /\ f.rule = None
    /\ ServePage("audit_events", "id", f, n, LAMBDA k : ListCredentialEvents(f, k), ById)

\* applicationListScopeFromContext: admins see all applications, others their own.
ScopeFilter == [NoFilter EXCEPT !.by = IF admin THEN "all" ELSE Caller]

HandleListOIDCApplications(n) ==
    /\ Asks("oidc_applications")
    /\ ServePage("oidc_applications", "created_at", ScopeFilter, n,
                 LAMBDA k : ListNonForwardAuthOIDCClients(admin, Caller, k), NewestFirst)

HandleListForwardAuthApps(n) ==
    /\ Asks("forward_auth_apps")
    /\ ServePage("forward_auth_apps", "created_at", ScopeFilter, n,
                 LAMBDA k : ListForwardAuthClients(admin, Caller, k), NewestFirst)

HandleListSAMLApplications(n) ==
    /\ Asks("saml_applications")
    /\ ServePage("saml_applications", "created_at", ScopeFilter, n,
                 LAMBDA k : ListSAMLSPs(admin, Caller, k), NewestFirst)

\* Collections inside an account, a group or an application are bound to it.
Within(a) == [NoFilter EXCEPT !.by = a]

HandleListAccountCredentials(a, n) ==
    /\ Asks("account_credentials")
    /\ ServePage("account_credentials", "created_at", Within(a), n,
                 LAMBDA k : ListCredentialsByAccountPage(a, k), NewestFirst)

HandleListAccountTokens(a, n) ==
    /\ Asks("account_tokens")
    /\ ServePage("account_tokens", "created_at", Within(a), n,
                 LAMBDA k : ListPATsByAccountPage(a, k), NewestFirst)

HandleListGlobalGroupDecisions(g, n) ==
    /\ Asks("global_group_decisions")
    /\ ServePage("global_group_decisions", "username", Within(g), n,
                 LAMBDA k : ListManualDecisionsPage(g, k), ByName)

HandleListManagedApplicationAccounts(x, n) ==
    /\ Asks("managed_application_accounts")
    /\ ServePage("managed_application_accounts", "username", Within(x), n,
                 ListActiveAccountAccessFactsPage, ByName)

\* PreviewGroup evaluates the group's rule over one page of active accounts.
HandlePreviewManagedGroup(g, n) ==
    /\ Asks("managed_group_preview")
    /\ ServePage("managed_group_preview", "username", Within(g), n,
                 ListActiveAccountAccessFactsPage, ByName)

\* The preview of an unsaved rule; its cursor is bound to the rule...
HandlePreviewManagedRule(x, rule, n) ==
    LET f == [Within(x) EXCEPT !.rule = rule]
    IN  Asks("managed_rule_preview") /\ ServePreview("managed_rule_preview", f, f, n)

\* ... or to nothing, in the directory of global groups.
HandlePreviewGlobalRule(n) ==
    Asks("global_rule_preview") /\ ServePreview("global_rule_preview", NoFilter, NoFilter, n)

\* ListPageByAccount: all sessions of the account, oldest first, from the one behind
\* the cursor's; from the first one when that session is gone.
ListPageByAccount(a, c, n) ==
    LET all == SetToSortSeq({r \in data : r.par = a /\ r.on}, OldestFirst)
        at == {i \in DOMAIN all : c # None /\ all[i].at = c.key.at /\ all[i].id = c.key.id}
        start == IF at = {} THEN 1 ELSE (CHOOSE i \in at : TRUE) + 1
    IN  [all |-> all, items |-> First(SubSeq(all, start, Len(all)), n),
         more |-> start + n <= Len(all)]

HandleListAccountSessions(a, n) ==
    LET c == walk.cur
        f == Within(a)
        page == ListPageByAccount(a, c, Limit(n))
    IN  /\ Asks("account_sessions")
        /\ IF DecodeCursor(c, "account_sessions", "issued_at", f)
           THEN Answer("account_sessions", f, {r \in data : r.par = a /\ r.on}, page.items,
                       IF page.more
                       THEN EncodeNextCursor("account_sessions", "issued_at", f,
                                             page.items[Len(page.items)])
                       ELSE None)
           ELSE Refuse

-----------------------------------------------------------------------------
(* What happens between two pages                                            *)

\* A row comes, goes or changes: no longer one of the steady ones.
RowChanges(D, id) ==
    /\ "rows" \in ops /\ changes < MaxChange
    /\ data' = D /\ changes' = changes + 1
    /\ walk' = [walk EXCEPT !.steady = @ \ {id}]
    /\ UNCHANGED <<admin, byBytes, active, deks, desk>>

InsertRow(r) ==
    /\ r.id \notin Ids(data) /\ r.id \notin Range(walk.seen)
    /\ r.name \notin {s.name : s \in data}
    /\ RowChanges(data \cup {r}, r.id)

DeleteRow(r) == r \in data /\ RowChanges(data \ {r}, r.id)

UpdateRow(r, on, par) ==
    /\ r \in data /\ <<on, par>> # <<r.on, r.par>>
    /\ RowChanges((data \ {r}) \cup {[r EXCEPT !.on = on, !.par = par]}, r.id)

\* The caller of the application lists is promoted or demoted.
SetRole ==
    /\ "role" \in ops /\ admin' = ~admin
    /\ UNCHANGED <<data, changes, byBytes, active, deks, walk, desk>>

\* The server restarts with a new active key; the old ones are kept or not.
RotateDek ==
    /\ "dek" \in ops /\ active = 1 /\ active' = 2
    /\ deks' \in {deks \cup {2}, {2}}
    /\ UNCHANGED <<data, changes, admin, byBytes, walk, desk>>

ListingNext ==
    \/ \E n \in Sizes :
          \/ \E f \in [q : Texts \cup {None}, by : Parents \cup {None}, since : {0, 1}, rule : {None}] :
                HandleListAccounts(f, n) \/ HandleListAuditEvents(f, n)
          \/ HandleListInvitations(n) \/ HandleListSigningKeys(n)
          \/ HandleListIdentityProviders(n) \/ HandleListOIDCApplications(n)
          \/ HandleListForwardAuthApps(n) \/ HandleListSAMLApplications(n)
          \/ \E a \in Parents :
                \/ HandleListAccountCredentials(a, n) \/ HandleListAccountTokens(a, n)
                \/ HandleListAccountSessions(a, n) \/ HandleListGlobalGroupDecisions(a, n)
                \/ HandleListManagedApplicationAccounts(a, n)
                \/ HandlePreviewManagedGroup(a, n)
                \/ \E rule \in Rules : HandlePreviewManagedRule(a, rule, n)
          \/ HandlePreviewGlobalRule(n)
    \/ \E id \in 1..MaxRow, name \in 1..MaxRow :
          InsertRow([id |-> id, at |-> clock, name |-> name, text |-> CHOOSE t \in Texts : TRUE,
                     par |-> Caller, on |-> TRUE, fa |-> FALSE])
    \/ \E r \in data : DeleteRow(r)
    \/ \E r \in data, on \in BOOLEAN, par \in Parents : UpdateRow(r, on, par)
    \/ SetRole
    \/ RotateDek

Occurrences(id, s) == Cardinality({i \in DOMAIN s : s[i] = id})

\* A client that follows the cursors to the last page has met every row that was
\* listed from its first request to its last exactly once, whatever came, went or
\* tied in between, and never by following a cursor into another listing.  Two
\* listings promise less.  That of an account's sessions starts over when the
\* session its cursor names is gone, so rows repeat; and the rule previews compare
\* usernames byte-wise in an answer the database has sorted, so they promise this
\* only where the database collates the same way.
PagesComplete ==
    (walk.st = "done"
     /\ (walk.ep \in {"managed_rule_preview", "global_rule_preview"} => byBytes)) =>
        \A id \in walk.steady :
            \/ Occurrences(id, walk.seen) = 1
            \/ walk.ep = "account_sessions" /\ id \in Range(walk.seen)
=============================================================================
