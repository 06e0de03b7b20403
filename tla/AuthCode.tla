------------------------------ MODULE AuthCode ------------------------------
(***************************************************************************)
(* The authorization_code grant of pkg/protocol/oidc: HandleAuthorize mints *)
(* a code for a browser session (authorize.go, codes.go); the token        *)
(* endpoint pops it, re-checks the grant and starts a refresh-token family *)
(* (token.go, grantAuthorizationCode); a replay of a consumed code revokes *)
(* the family through the used-marker.  One session of one account; the    *)
(* requests of Procs interleave at every KV or PG call.                    *)
(***************************************************************************)
EXTENDS Integers, Kv

CONSTANTS
    Procs,           \* concurrently served requests
    Codes,           \* authorization codes, each generated once
    Clients,         \* OIDC clients
    Offline,         \* codes whose scope includes offline_access
    CodeTTL, Grace,  \* authCodeTTL, usedMarkerGrace
    Operations,      \* operations performed in this instance
    MaxClock         \* bound of the explored instance

\* What an exchange re-checks, in this order: the account is enabled, the
\* session's PG row is not revoked, app access is granted.
Conditions == {"account", "session", "access"}
CheckAt(i) == CASE i = 1 -> "account" [] i = 2 -> "session" [] i = 3 -> "access"
Checks == 3

ASSUME CodeAssumption ==
    /\ Codes # {} /\ Clients # {} /\ Offline \subseteq Codes
    /\ CodeTTL \in Nat \ {0} /\ Grace \in Nat /\ MaxClock \in Nat

VARIABLES
    clock,
    code,       \* oidc:code:<code>, per code; the value is the client it is bound to
    used,       \* oidc:code:used:<code>, per code; the value is a family id
    fams,       \* family records in KV: id and the code that minted it
    nextFid,    \* the next fresh family id
    sessKv,     \* the session's KV entry exists
    lost,       \* conditions that do not hold now
    pc, loc,    \* control state and local variables of each request
    born,       \* history: the instant each code was minted; -1 before
    minted,     \* history: every family ever started
    answers,    \* history: number of token responses, per code
    marked,     \* history: codes whose used-marker was written
    replayed,   \* history: codes presented again while their exchange was
                \* running or done
    killed      \* history: codes whose replay was recognized and the family deleted

store == <<code, used, fams>>
history == <<born, minted, answers, marked, replayed, killed>>
vars == <<clock, code, used, fams, nextFid, sessKv, lost, pc, loc,
          born, minted, answers, marked, replayed, killed>>

Fam == [fid : Nat, code : Codes]

\* The local variables of a request for code c.  low and dead are for the
\* properties: the conditions lost since before the code was popped, and
\* whether the session's KV entry was gone by then.
Request(c) == [code |-> c, client |-> CHOOSE x \in Clients : TRUE, fid |-> 0,
               i |-> 1, low |-> {}, dead |-> FALSE]
Blank == Request(CHOOSE c \in Codes : TRUE)

Pcs == {"idle", "authAccess", "authRow", "authMint", "usedGet", "replayDel", "check",
        "mint", "issue", "mark", "respond"}

Goto(p, label) == pc' = [pc EXCEPT ![p] = label]
Set(p, l) == loc' = [loc EXCEPT ![p] = l]
Finish(p) == Goto(p, "idle") /\ Set(p, Blank)

Init ==
    /\ clock = 0
    /\ code = [c \in Codes |-> NoEntry] /\ used = [c \in Codes |-> NoEntry]
    /\ fams = {} /\ nextFid = 1 /\ sessKv = TRUE /\ lost = {}
    /\ pc = [p \in Procs |-> "idle"] /\ loc = [p \in Procs |-> Blank]
    /\ born = [c \in Codes |-> -1] /\ answers = [c \in Codes |-> 0]
    /\ minted = {} /\ marked = {} /\ replayed = {} /\ killed = {}

-----------------------------------------------------------------------------
(* HandleAuthorize: the session comes from the middleware, access and the PG *)
(* row are read after it, the code is stored last.                           *)

AuthorizeSession(p, c, cl) ==
    /\ pc[p] = "idle" /\ born[c] = -1 /\ sessKv /\ "account" \notin lost
    /\ \A q \in Procs : pc[q] \in {"authAccess", "authRow", "authMint"} => loc[q].code # c
    /\ Set(p, [Request(c) EXCEPT !.client = cl])
    /\ Goto(p, "authAccess")
    /\ UNCHANGED <<clock, store, nextFid, sessKv, lost, history>>

AuthorizeAccess(p) ==
    /\ pc[p] = "authAccess"
    /\ IF "access" \in lost THEN Finish(p) ELSE Goto(p, "authRow") /\ loc' = loc
    /\ UNCHANGED <<clock, store, nextFid, sessKv, lost, history>>

AuthorizeRow(p) ==
    /\ pc[p] = "authRow"
    /\ IF "session" \in lost THEN Finish(p) ELSE Goto(p, "authMint") /\ loc' = loc
    /\ UNCHANGED <<clock, store, nextFid, sessKv, lost, history>>

MintCode(p) ==
    /\ pc[p] = "authMint"
    /\ code' = SetEx(code, loc[p].code, loc[p].client, CodeTTL, clock)
    /\ born' = [born EXCEPT ![loc[p].code] = clock]
    /\ Finish(p)
    /\ UNCHANGED <<clock, used, fams, nextFid, sessKv, lost, minted, answers,
                   marked, replayed, killed>>

-----------------------------------------------------------------------------
(* grantAuthorizationCode                                                    *)

\* The exchange of code c by client cl goes on when the binding holds: same
\* client, same redirect_uri, PKCE verified (fits).
Exchange(p, c, cl, fits) ==
    IF cl = code[c].val /\ fits
    THEN /\ Set(p, [Request(c) EXCEPT !.client = cl, !.low = lost, !.dead = ~sessKv])
         /\ Goto(p, "check")
    ELSE UNCHANGED <<pc, loc>>

\* consumeCode with Get in place of Pop.
ConsumeCodeKept(p, c, cl, fits) ==
    /\ pc[p] = "idle" /\ Found(code, c, clock)
    /\ Exchange(p, c, cl, fits)
    /\ UNCHANGED <<clock, store, nextFid, sessKv, lost, history>>

\* consumeCode hits: the code is gone whatever the checks below say.
ConsumeCode(p, c, cl, fits) ==
    /\ pc[p] = "idle" /\ Found(code, c, clock)
    /\ code' = Del(code, c)
    /\ Exchange(p, c, cl, fits)
    /\ UNCHANGED <<clock, used, fams, nextFid, sessKv, lost, history>>

\* consumeCode misses: the code expired or was consumed.
ConsumeCodeMisses(p, c, cl) ==
    /\ pc[p] = "idle" /\ born[c] # -1 /\ ~Found(code, c, clock)
    /\ Set(p, [Request(c) EXCEPT !.client = cl])
    /\ Goto(p, "usedGet")
    /\ replayed' = IF \/ \E m \in minted : m.code = c
                      \/ \E q \in Procs : pc[q] \in {"check", "mint", "issue"}
                                          /\ loc[q].code = c
                   THEN replayed \cup {c} ELSE replayed
    /\ UNCHANGED <<clock, store, nextFid, sessKv, lost, born, minted, answers,
                   marked, killed>>

UsedFamily(p) ==
    /\ pc[p] = "usedGet"
    /\ LET c == loc[p].code
       IN  IF Found(used, c, clock)
           THEN Goto(p, "replayDel") /\ Set(p, [loc[p] EXCEPT !.fid = used[c].val])
           ELSE Finish(p)
    /\ UNCHANGED <<clock, store, nextFid, sessKv, lost, history>>

\* The family is deleted (an error of the Del is ignored) and the replay audited.
RevokeReplayed(p) ==
    /\ pc[p] = "replayDel"
    /\ \/ /\ fams' = {f \in fams : f.fid # loc[p].fid}
          /\ killed' = killed \cup {loc[p].code}
       \/ /\ "kvFail" \in Operations
          /\ UNCHANGED <<fams, killed>>
    /\ Finish(p)
    /\ UNCHANGED <<clock, code, used, nextFid, sessKv, lost, born, minted, answers,
                   marked, replayed>>

\* The session row is not looked at again.
CheckGrantSkipsSession(p) ==
    /\ pc[p] = "check"
    /\ IF CheckAt(loc[p].i) \in lost \ {"session"} THEN Finish(p)
       ELSE IF loc[p].i = Checks THEN Goto(p, "mint") /\ loc' = loc
       ELSE pc' = pc /\ Set(p, [loc[p] EXCEPT !.i = @ + 1])
    /\ UNCHANGED <<clock, store, nextFid, sessKv, lost, history>>

\* One of the re-checks.
CheckGrant(p) ==
    /\ pc[p] = "check"
    /\ IF CheckAt(loc[p].i) \in lost THEN Finish(p)
       ELSE IF loc[p].i = Checks THEN Goto(p, "mint") /\ loc' = loc
       ELSE pc' = pc /\ Set(p, [loc[p] EXCEPT !.i = @ + 1])
    /\ UNCHANGED <<clock, store, nextFid, sessKv, lost, history>>

\* mintAccessAndIDTokens; a refresh token only for offline_access.
MintTokens(p) ==
    /\ pc[p] = "mint"
    /\ Goto(p, IF loc[p].code \in Offline THEN "issue" ELSE "respond")
    /\ UNCHANGED <<clock, store, nextFid, sessKv, lost, loc, history>>

IssueFamily(p) ==
    /\ pc[p] = "issue"
    /\ LET f == [fid |-> nextFid, code |-> loc[p].code]
       IN  fams' = fams \cup {f} /\ minted' = minted \cup {f}
    /\ nextFid' = nextFid + 1
    /\ Set(p, [loc[p] EXCEPT !.fid = nextFid])
    /\ Goto(p, "mark")
    /\ UNCHANGED <<clock, code, used, sessKv, lost, born, answers, marked,
                   replayed, killed>>

\* The marker counts from the exchange, so it outlives the code by the grace.
MarkerTtl == CodeTTL + Grace

\* An error of the write is ignored.
MarkCodeUsed(p) ==
    /\ pc[p] = "mark"
    /\ \/ /\ used' = SetEx(used, loc[p].code, loc[p].fid, MarkerTtl, clock)
          /\ marked' = marked \cup {loc[p].code}
       \/ "kvFail" \in Operations /\ UNCHANGED <<used, marked>>
    /\ Goto(p, "respond")
    /\ UNCHANGED <<clock, code, fams, nextFid, sessKv, lost, loc, born, minted,
                   answers, replayed, killed>>

\* The two in the opposite order.
MarkThenIssue(p) ==
    \/ /\ pc[p] = "issue"
       /\ used' = SetEx(used, loc[p].code, nextFid, MarkerTtl, clock)
       /\ marked' = marked \cup {loc[p].code}
       /\ Set(p, [loc[p] EXCEPT !.fid = nextFid])
       /\ nextFid' = nextFid + 1
       /\ Goto(p, "mark")
       /\ UNCHANGED <<clock, code, fams, sessKv, lost, born, minted, answers,
                      replayed, killed>>
    \/ /\ pc[p] = "mark"
       /\ LET f == [fid |-> loc[p].fid, code |-> loc[p].code]
          IN  fams' = fams \cup {f} /\ minted' = minted \cup {f}
       /\ Goto(p, "respond")
       /\ UNCHANGED <<clock, code, used, nextFid, sessKv, lost, loc, born, answers,
                      marked, replayed, killed>>

\* issueRefresh, then the marker that ties the family to the code.
IssueThenMark(p) == IssueFamily(p) \/ MarkCodeUsed(p)

Respond(p) ==
    /\ pc[p] = "respond"
    /\ answers' = [answers EXCEPT ![loc[p].code] = @ + 1]
    /\ Finish(p)
    /\ UNCHANGED <<clock, store, nextFid, sessKv, lost, born, minted, marked,
                   replayed, killed>>

-----------------------------------------------------------------------------
(* The environment                                                           *)

\* The session ends: logout, revocation and expiry remove its KV entry.
EndSession ==
    /\ sessKv /\ sessKv' = FALSE
    /\ UNCHANGED <<clock, store, nextFid, lost, pc, loc, history>>

\* The revocations stamp the PG row afterwards, best effort; expiry never does.
StampSession ==
    /\ ~sessKv /\ "session" \notin lost
    /\ lost' = lost \cup {"session"}
    /\ UNCHANGED <<clock, store, nextFid, sessKv, pc, loc, history>>

\* The account is disabled or deleted, or loses access to the client; both come
\* back, but not while this matters to a request that saw them lost (low).
Lose(c) ==
    /\ "lose" \in Operations /\ c \in {"account", "access"} \ lost
    /\ lost' = lost \cup {c}
    /\ UNCHANGED <<clock, store, nextFid, sessKv, pc, loc, history>>

Restore(c) ==
    /\ c \in lost \ {"session"}
    /\ lost' = lost \ {c}
    /\ loc' = [p \in Procs |-> [loc[p] EXCEPT !.low = @ \ {c}]]
    /\ UNCHANGED <<clock, store, nextFid, sessKv, pc, history>>

\* The family ends for another reason: HandleRevoke, a refused refresh, expiry.
EndFamily(f) ==
    /\ "endFamily" \in Operations
    /\ fams' = fams \ {f}
    /\ UNCHANGED <<clock, code, used, nextFid, sessKv, lost, pc, loc, history>>

\* A backend error that ends the request with an error response, or a crash.
Abort(p) ==
    /\ pc[p] # "idle" /\ "abort" \in Operations
    /\ Finish(p)
    /\ UNCHANGED <<clock, store, nextFid, sessKv, lost, history>>

Tick ==
    /\ clock < MaxClock
    /\ clock' = clock + 1
    /\ UNCHANGED <<store, nextFid, sessKv, lost, pc, loc, history>>

Authorize(p) ==
    \/ \E c \in Codes, cl \in Clients : AuthorizeSession(p, c, cl)
    \/ AuthorizeAccess(p) \/ AuthorizeRow(p) \/ MintCode(p)

Redeem(p) ==
    \/ \E c \in Codes, cl \in Clients :
        \/ \E fits \in BOOLEAN : ConsumeCode(p, c, cl, fits)
        \/ ConsumeCodeMisses(p, c, cl)
    \/ UsedFamily(p) \/ RevokeReplayed(p)
    \/ CheckGrant(p) \/ MintTokens(p) \/ IssueThenMark(p) \/ Respond(p)

Next ==
    \/ \E p \in Procs : Authorize(p) \/ Redeem(p) \/ Abort(p)
    \/ EndSession \/ StampSession
    \/ \E c \in Conditions : Lose(c) \/ Restore(c)
    \/ \E f \in fams : EndFamily(f)
    \/ Tick

Spec == Init /\ [][Next]_vars

-----------------------------------------------------------------------------
(* Properties                                                                *)

Locals == [code : Codes, client : Clients, fid : Nat, i : 1 .. Checks,
           low : SUBSET Conditions, dead : BOOLEAN]

\* The values the code, marker and family entries and a request's local
\* variables range over: a marker names a family, never a code.
TypeOK ==
    /\ clock \in Nat /\ nextFid \in Nat \ {0} /\ sessKv \in BOOLEAN
    /\ code \in [Codes -> Cells(Clients)] /\ used \in [Codes -> Cells(Nat)]
    /\ fams \subseteq Fam /\ minted \subseteq Fam /\ lost \subseteq Conditions
    /\ pc \in [Procs -> Pcs] /\ loc \in [Procs -> Locals]
    /\ born \in [Codes -> Int] /\ answers \in [Codes -> Nat]
    /\ marked \subseteq Codes /\ replayed \subseteq Codes /\ killed \subseteq Codes

\* A code is exchanged at most once, however many requests present it at the
\* same time: one token response and one refresh family (codes.go, consumeCode:
\* "The atomic Pop enforces single-use").
SingleUse ==
    /\ \A c \in Codes : answers[c] <= 1
    /\ \A m, n \in minted : m.code = n.code => m = n

\* After a recognized replay deleted a code's family, no family of that code is
\* ever live again (token.go, grantAuthorizationCode: issue, then mark).
KilledStaysKilled == \A f \in fams : f.code \notin killed

\* The marker of a code that was exchanged for a family is still there for the
\* code's whole lifetime and the grace after it (codes.go, usedMarkerGrace: "a
\* replay arriving just after the code expires is still recognized").
MarkerOutlivesCode ==
    \A c \in marked : clock < born[c] + CodeTTL + Grace => Found(used, c, clock)

\* Tokens are minted only for a grant in good standing: nothing that was lost
\* when the code was popped, and stayed lost, gets past the re-checks (token.go,
\* grantAuthorizationCode).
ExchangeInGoodStanding ==
    \A p \in Procs : pc[p] \in {"mint", "issue", "mark", "respond"} => loc[p].low = {}

-----------------------------------------------------------------------------
(* Statements of the documentation that the code does not keep               *)

\* docs/architecture.md: "Replay revokes the refresh-token family minted by that
\* code".  Once no request is running and every marker was written, a code that
\* was presented again has no live family.
ReplayRevokesFamily ==
    (\A p \in Procs : pc[p] = "idle") =>
        \A f \in fams : f.code \in marked => f.code \notin replayed

\* token.go, grantAuthorizationCode: "refuse the exchange rather than mint
\* tokens (including a long-lived refresh) tied to a dead session".  No exchange
\* mints for a session that was no longer live when the code was popped.
DeadSessionMintsNothing ==
    \A p \in Procs : pc[p] \in {"issue", "mark", "respond"} => ~loc[p].dead
=============================================================================
