---------------------------- MODULE SessionStore ----------------------------
(***************************************************************************)
(* pkg/session: the browser-session store.  A session lives in two places: *)
(* a KV entry (the live marker, with a sliding expiry) and a PG row (the   *)
(* immutable authentication facts, soft-deleted by stamping revoked_at).   *)
(* The operations are multi-step: each KV or PG call is one step of the    *)
(* request that makes it, and the requests of Procs interleave.            *)
(*                                                                         *)
(* A request is identified with the random owner value of its mutation     *)
(* lease: it acquires at most one lease at a time.                         *)
(***************************************************************************)
EXTENDS Integers, Kv

CONSTANTS
    Accounts,     \* account ids
    Tokens,       \* raw cookie tokens, each generated for one account
    Legacy,       \* tokens issued before SessionID existed, live at the start of a "legacy" mix
    AcctOf,       \* the account a token was generated for
    Procs,        \* concurrently served requests
    None,         \* no token, no account
    Mixes,        \* which operations run against each other (see ops)
    Remember,     \* the "keep me signed in" choices of logins
    SessionTTL, RememberTTL,   \* sliding lifetimes
    DayCap,       \* the 24h cap on the refresh step
    LeaseTTL,     \* lifetime of the account mutation lease
    SudoTTL,      \* lifetime of a sudo grant
    MaxClock, BriefClock, MaxSid   \* bounds of the explored instance

ASSUME SetAssumption ==
    /\ Legacy \subseteq Tokens
    /\ AcctOf \in [Tokens -> Accounts]
    /\ None \notin Tokens /\ None \notin Accounts
    /\ Remember \subseteq BOOLEAN

ASSUME TtlAssumption ==
    /\ SessionTTL \in Nat \ {0} /\ RememberTTL \in Nat \ {0}
    /\ LeaseTTL \in Nat \ {0} /\ SudoTTL \in Nat \ {0} /\ DayCap \in Nat
    /\ MaxClock \in Nat /\ BriefClock \in Nat /\ MaxSid \in Nat

VARIABLES
    ops,       \* the mix explored: the operations requests perform; "legacy" when the
               \* Legacy tokens exist, "brief" when the clock stops at BriefClock
    clock,     \* wall clock
    kv,        \* session:<account>:<hash of token>, per token
    lease,     \* session-mutation:<account>, per account
    rows,      \* PG session rows: sid and account
    stamped,   \* sids whose PG row has revoked_at
    nextSid,   \* the next fresh SessionID (0 is the empty one)
    used,      \* tokens generated so far
    cookies,   \* tokens returned to a browser
    disabled,  \* accounts whose disabled flag is set
    pc, loc,   \* control state and local variables of each request
    ended,     \* history: tokens some operation deleted from KV
    raced      \* history: tokens an unfenced SetEx wrote while not live

store == <<kv, lease, rows, stamped>>
history == <<ended, raced>>
vars == <<ops, clock, kv, lease, rows, stamped, nextSid, used, cookies, disabled,
          pc, loc, ended, raced>>

\* authn.SessionData: sid 0 is the empty SessionID of a pre-schema session.
NoData == [sid |-> 0, exp |-> 0, sudo |-> 0, rem |-> FALSE]

\* The local variables of a request that has not started.
Blank == [kind |-> "none", tok |-> None, acct |-> None, raw |-> NoData,
          data |-> NoData, ttl |-> 0, todo |-> {}, fill |-> {}, mark |-> {},
          sid |-> 0, ok |-> TRUE]

Live(t) == Found(kv, t, clock)
TokensOf(a) == {t \in Tokens : AcctOf[t] = a}

ttlFor(d) == IF d.rem THEN RememberTTL ELSE SessionTTL

\* min(ttl/4, 24h)
RefreshStep(ttl) == IF ttl \div 4 <= DayCap THEN ttl \div 4 ELSE DayCap

\* The sliding refresh is due once a step of the lifetime has been used up.
RefreshDue(d) == ttlFor(d) - (d.exp - clock) >= RefreshStep(ttlFor(d))

\* The TTL of Load's write: the full lifetime on a refresh, what remains of it
\* when only a schema field is filled in.
WriteTtl(d) == IF RefreshDue(d) THEN ttlFor(d) ELSE d.exp - clock

\* A pre-schema session gets a fresh SessionID in memory.
Backfilled(d) == IF d.sid = 0 THEN [d EXCEPT !.sid = nextSid] ELSE d
SidAfter(d) == IF d.sid = 0 THEN nextSid + 1 ELSE nextSid

Goto(p, label) == pc' = [pc EXCEPT ![p] = label]
Set(p, l) == loc' = [loc EXCEPT ![p] = l]
Finish(p) == Goto(p, "idle") /\ Set(p, Blank)

Start(p, op) == pc[p] = "idle" /\ op \in ops

\* The pre-schema tokens of this mix.
Old == IF "legacy" \in ops THEN Legacy ELSE {}

Init ==
    /\ ops \in Mixes
    /\ clock = 0
    /\ kv = [t \in Tokens |->
                IF t \in Old
                THEN Entry([sid |-> 0, exp |-> SessionTTL, sudo |-> 0, rem |-> FALSE],
                           SessionTTL)
                ELSE NoEntry]
    /\ lease = [a \in Accounts |-> NoEntry]
    /\ rows = {} /\ stamped = {} /\ nextSid = 1
    /\ used = Old /\ cookies = Old /\ disabled = {}
    /\ pc = [p \in Procs |-> "idle"]
    /\ loc = [p \in Procs |-> Blank]
    /\ ended = {} /\ raced = {}

-----------------------------------------------------------------------------
(* Issue: the KV entry first, then the PG row; the entry is deleted again    *)
(* when the insert fails.  The token reaches the browser only at the end.    *)

Issue(p, t, remember) ==
    /\ Start(p, "issue") /\ t \notin used /\ nextSid <= MaxSid
    /\ LET d == [sid |-> nextSid, exp |-> clock + ttlFor([rem |-> remember]),
                 sudo |-> 0, rem |-> remember]
       IN  /\ kv' = SetEx(kv, t, d, ttlFor(d), clock)
           /\ Set(p, [Blank EXCEPT !.kind = "issue", !.tok = t, !.acct = AcctOf[t],
                                   !.sid = nextSid])
    /\ nextSid' = nextSid + 1
    /\ used' = used \cup {t}
    /\ Goto(p, "insert")
    /\ UNCHANGED <<clock, lease, rows, stamped, cookies, disabled, history>>

InsertSession(p) ==
    /\ pc[p] = "insert"
    /\ rows' = rows \cup {[sid |-> loc[p].sid, acct |-> loc[p].acct]}
    /\ cookies' = cookies \cup {loc[p].tok}
    /\ Finish(p)
    /\ UNCHANGED <<clock, kv, lease, stamped, nextSid, used, disabled, history>>

InsertSessionFails(p) ==
    /\ pc[p] = "insert"
    /\ kv' = Del(kv, loc[p].tok)
    /\ ended' = ended \cup {loc[p].tok}
    /\ Finish(p)
    /\ UNCHANGED <<clock, lease, rows, stamped, nextSid, used, cookies, disabled,
                   raced>>

-----------------------------------------------------------------------------
(* Load, called by the LoadSession middleware (kind "mw") and by the sudo    *)
(* grant (kind "sudo").  A missing entry ends the request unauthenticated.   *)

LoadExpired(p, t) ==
    /\ Start(p, "load") /\ t \in cookies
    /\ Live(t) /\ clock > kv[t].val.exp
    /\ kv' = Del(kv, t)
    /\ ended' = ended \cup {t}
    /\ UNCHANGED <<clock, lease, rows, stamped, nextSid, used, cookies, disabled,
                   pc, loc, raced>>

\* The data Load works on; the refresh changes ExpiresAt in memory whether or
\* not the write below happens.
LoadGet(p, t, kind) ==
    /\ Start(p, IF kind = "mw" THEN "load" ELSE "sudo") /\ t \in cookies
    /\ Live(t) /\ clock <= kv[t].val.exp
    /\ kv[t].val.sid = 0 => nextSid <= MaxSid
    /\ LET d == kv[t].val
           b == Backfilled(d)
           due == RefreshDue(d)
           new == IF due THEN [b EXCEPT !.exp = clock + ttlFor(d)] ELSE b
           writes == due \/ (d.sid = 0 /\ WriteTtl(d) > 0)
       IN  /\ nextSid' = SidAfter(d)
           /\ Set(p, [Blank EXCEPT !.kind = kind, !.tok = t, !.acct = AcctOf[t],
                                   !.raw = d, !.data = new, !.ttl = WriteTtl(d)])
           /\ Goto(p, IF writes THEN "lease" ELSE "loaded")
    /\ UNCHANGED <<clock, store, used, cookies, disabled, history>>

\* acquireMutationLease inside Load: when the lease is taken the write is
\* skipped and the request goes on with what it has in memory.
LoadLease(p) ==
    /\ pc[p] = "lease"
    /\ \/ /\ ~Found(lease, loc[p].acct, clock)
          /\ lease' = SetEx(lease, loc[p].acct, p, LeaseTTL, clock)
          /\ Goto(p, "cas")
       \/ /\ Found(lease, loc[p].acct, clock)
          /\ lease' = lease
          /\ Goto(p, "loaded")
    /\ UNCHANGED <<clock, kv, rows, stamped, nextSid, used, cookies, disabled,
                   loc, history>>

LoadCas(p) ==
    /\ pc[p] = "cas"
    /\ kv' = FencedCompareAndSwap(lease, loc[p].acct, p, kv, loc[p].tok,
                                  loc[p].raw, loc[p].data, loc[p].ttl, clock)
    /\ Goto(p, "release")
    /\ UNCHANGED <<clock, lease, rows, stamped, nextSid, used, cookies, disabled,
                   loc, ended, raced>>

\* An error of the swap is ignored; the lease is released all the same.
LoadCasFails(p) ==
    /\ pc[p] = "cas" /\ "abort" \in ops
    /\ Goto(p, "release")
    /\ UNCHANGED <<clock, store, nextSid, used, cookies, disabled, loc, history>>

LoadRelease(p) ==
    /\ pc[p] = "release"
    /\ lease' = CompareAndDelete(lease, loc[p].acct, p, clock)
    /\ Goto(p, "loaded")
    /\ UNCHANGED <<clock, kv, rows, stamped, nextSid, used, cookies, disabled,
                   loc, history>>

\* LoadSession: the account is read after Load; an enabled one is served.
Serve(p) ==
    /\ pc[p] = "loaded" /\ loc[p].kind = "mw"
    /\ loc[p].acct \notin disabled
    /\ Finish(p)
    /\ UNCHANGED <<clock, store, nextSid, used, cookies, disabled, history>>

\* LoadSession revokes the session of a disabled or deleted account.
KillSession(p) ==
    /\ pc[p] = "loaded" /\ loc[p].kind = "mw"
    /\ loc[p].acct \in disabled
    /\ Goto(p, "rvGet")
    /\ UNCHANGED <<clock, store, nextSid, used, cookies, disabled, loc, history>>

-----------------------------------------------------------------------------
(* applySudoGrant: stamp SudoUntil on what Load returned and Save it, a      *)
(* plain SetEx with the remaining lifetime.                                  *)

Save(p) ==
    /\ pc[p] = "loaded" /\ loc[p].kind = "sudo"
    /\ LET d == loc[p].data
           remaining == d.exp - clock
       IN  IF remaining > 0
           THEN /\ kv' = SetEx(kv, loc[p].tok, [d EXCEPT !.sudo = clock + SudoTTL],
                               remaining, clock)
                /\ raced' = IF Live(loc[p].tok) THEN raced ELSE raced \cup {loc[p].tok}
           ELSE UNCHANGED <<kv, raced>>
    /\ Finish(p)
    /\ UNCHANGED <<clock, lease, rows, stamped, nextSid, used, cookies, disabled,
                   ended>>

-----------------------------------------------------------------------------
(* Revoke: read the SessionID, delete the entry, stamp the row (best effort) *)

Logout(p, t) ==
    /\ Start(p, "logout") /\ t \in cookies
    /\ Set(p, [Blank EXCEPT !.kind = "revoke", !.tok = t, !.acct = AcctOf[t]])
    /\ Goto(p, "rvGet")
    /\ UNCHANGED <<clock, store, nextSid, used, cookies, disabled, history>>

RevokeGet(p) ==
    /\ pc[p] = "rvGet"
    /\ Set(p, [loc[p] EXCEPT !.sid = IF Live(loc[p].tok) THEN kv[loc[p].tok].val.sid
                                                          ELSE 0])
    /\ Goto(p, "rvDel")
    /\ UNCHANGED <<clock, store, nextSid, used, cookies, disabled, history>>

RevokeDel(p) ==
    /\ pc[p] = "rvDel"
    /\ kv' = Del(kv, loc[p].tok)
    /\ ended' = ended \cup {loc[p].tok}
    /\ IF loc[p].sid = 0 THEN Finish(p) ELSE Goto(p, "rvStamp") /\ loc' = loc
    /\ UNCHANGED <<clock, lease, rows, stamped, nextSid, used, cookies, disabled,
                   raced>>

RevokeStamp(p) ==
    /\ pc[p] = "rvStamp"
    /\ stamped' = stamped \cup {loc[p].sid}
    /\ Finish(p)
    /\ UNCHANGED <<clock, kv, lease, rows, nextSid, used, cookies, disabled, history>>

-----------------------------------------------------------------------------
(* ListByAccount (the session list, IsSessionIDLive) and RevokeBySessionID,  *)
(* which lists and then deletes the entry whose SessionID was asked for.     *)
(* Listing writes a fresh SessionID back onto every pre-schema entry.        *)

List(p, a, target) ==
    /\ Start(p, "list")
    /\ target # None => /\ target \in ScanKeys(kv, TokensOf(a), clock)
                        /\ kv[target].val.sid # 0
    /\ LET fill == {[tok |-> t, data |-> kv[t].val] :
                       t \in {u \in ScanKeys(kv, TokensOf(a), clock) : kv[u].val.sid = 0}}
       IN  /\ fill # {} \/ target # None
           /\ Set(p, [Blank EXCEPT !.kind = "list", !.tok = target, !.acct = a,
                                   !.fill = fill,
                                   !.sid = IF target = None THEN 0 ELSE kv[target].val.sid])
           /\ Goto(p, IF fill = {} THEN "rvDel" ELSE "list")
    /\ UNCHANGED <<clock, store, nextSid, used, cookies, disabled, history>>

ListFill(p) ==
    /\ pc[p] = "list" /\ nextSid <= MaxSid
    /\ \E e \in loc[p].fill :
        LET remaining == e.data.exp - clock
            left == loc[p].fill \ {e}
        IN  /\ IF remaining > 0
               THEN /\ kv' = SetEx(kv, e.tok, [e.data EXCEPT !.sid = nextSid],
                                   remaining, clock)
                    /\ raced' = IF Live(e.tok) THEN raced ELSE raced \cup {e.tok}
               ELSE UNCHANGED <<kv, raced>>
            /\ IF left # {} THEN pc' = pc /\ Set(p, [loc[p] EXCEPT !.fill = left])
               ELSE IF loc[p].tok # None
                    THEN Goto(p, "rvDel") /\ Set(p, [loc[p] EXCEPT !.fill = {}])
                    ELSE Finish(p)
    /\ nextSid' = nextSid + 1
    /\ UNCHANGED <<clock, lease, rows, stamped, used, cookies, disabled, ended>>

-----------------------------------------------------------------------------
(* RevokeAllForAccount, alone or after an account is disabled.               *)

RevokeAll(p, a) ==
    /\ Start(p, "revokeAll")
    /\ Set(p, [Blank EXCEPT !.kind = "revokeAll", !.acct = a])
    /\ Goto(p, "raLease")
    /\ UNCHANGED <<clock, store, nextSid, used, cookies, disabled, history>>

\* The set-disabled handler flips the flag, then revokes and drops the error.
SetDisabled(p, a) ==
    /\ Start(p, "disable") /\ a \notin disabled
    /\ disabled' = disabled \cup {a}
    /\ Set(p, [Blank EXCEPT !.kind = "revokeAll", !.acct = a])
    /\ Goto(p, "raLease")
    /\ UNCHANGED <<clock, store, nextSid, used, cookies, history>>

SetEnabled(a) ==
    /\ "disable" \in ops /\ a \in disabled
    /\ disabled' = disabled \ {a}
    /\ UNCHANGED <<clock, store, nextSid, used, cookies, pc, loc, history>>

\* mark records, for the properties, the sessions live when the lease is won.
RevokeAllLease(p) ==
    /\ pc[p] = "raLease"
    /\ \/ /\ ~Found(lease, loc[p].acct, clock)
          /\ lease' = SetEx(lease, loc[p].acct, p, LeaseTTL, clock)
          /\ Set(p, [loc[p] EXCEPT !.mark = ScanKeys(kv, TokensOf(loc[p].acct), clock)])
          /\ Goto(p, "raScan")
       \/ /\ Found(lease, loc[p].acct, clock)
          /\ Finish(p)
          /\ UNCHANGED lease
    /\ UNCHANGED <<clock, kv, rows, stamped, nextSid, used, cookies, disabled,
                   ended, raced>>

RevokeAllScan(p) ==
    /\ pc[p] = "raScan"
    /\ Set(p, [loc[p] EXCEPT !.todo = ScanKeys(kv, TokensOf(loc[p].acct), clock)])
    /\ Goto(p, "raDel")
    /\ UNCHANGED <<clock, store, nextSid, used, cookies, disabled, history>>

RevokeAllDelForgetsError(p) ==
    /\ pc[p] = "raDel"
    /\ \E t \in loc[p].todo :
        /\ \/ kv' = Del(kv, t) /\ ended' = ended \cup {t}
           \/ UNCHANGED <<kv, ended>>
        /\ Set(p, [loc[p] EXCEPT !.todo = @ \ {t}])
    /\ UNCHANGED <<clock, lease, rows, stamped, nextSid, used, cookies, disabled,
                   pc, raced>>

\* One Del; a failing one is remembered and the loop goes on.
RevokeAllDel(p) ==
    /\ pc[p] = "raDel"
    /\ \E t \in loc[p].todo :
        \/ /\ kv' = Del(kv, t)
           /\ ended' = ended \cup {t}
           /\ Set(p, [loc[p] EXCEPT !.todo = @ \ {t}])
        \/ /\ Set(p, [loc[p] EXCEPT !.todo = @ \ {t}, !.ok = FALSE])
           /\ UNCHANGED <<kv, ended>>
    /\ UNCHANGED <<clock, lease, rows, stamped, nextSid, used, cookies, disabled,
                   pc, raced>>

\* RevokeAllSessionsByAccount stamps every row of the account, or fails.
RevokeAllStamp(p) ==
    /\ pc[p] = "raDel" /\ loc[p].todo = {}
    /\ stamped' \in {stamped,
                     stamped \cup {r.sid : r \in {s \in rows : s.acct = loc[p].acct}}}
    /\ Goto(p, "raCheck")
    /\ UNCHANGED <<clock, kv, lease, rows, nextSid, used, cookies, disabled, loc, history>>

\* The lease must still be ours: CAS owner -> owner, which also renews it.
RevokeAllCheck(p) ==
    /\ pc[p] = "raCheck"
    /\ lease' = CompareAndSwap(lease, loc[p].acct, p, p, LeaseTTL, clock)
    /\ Set(p, [loc[p] EXCEPT !.ok = @ /\ Holds(lease, loc[p].acct, p, clock)])
    /\ Goto(p, "raRelease")
    /\ UNCHANGED <<clock, kv, rows, stamped, nextSid, used, cookies, disabled, history>>

\* The scan or the check fails: an error is returned and the lease released.
RevokeAllFails(p) ==
    /\ pc[p] \in {"raScan", "raCheck"} /\ "abort" \in ops
    /\ Set(p, [loc[p] EXCEPT !.ok = FALSE])
    /\ Goto(p, "raRelease")
    /\ UNCHANGED <<clock, store, nextSid, used, cookies, disabled, history>>

RevokeAllRelease(p) ==
    /\ pc[p] = "raRelease"
    /\ lease' = CompareAndDelete(lease, loc[p].acct, p, clock)
    /\ Finish(p)
    /\ UNCHANGED <<clock, kv, rows, stamped, nextSid, used, cookies, disabled, history>>

-----------------------------------------------------------------------------
\* The process dies, or the backend call of the step fails and the operation
\* returns: what was written stays, a lease is left to its TTL.
Abort(p) ==
    /\ pc[p] # "idle" /\ "abort" \in ops
    /\ Finish(p)
    /\ UNCHANGED <<clock, store, nextSid, used, cookies, disabled, history>>

Tick ==
    /\ clock < (IF "brief" \in ops THEN BriefClock ELSE MaxClock)
    /\ clock' = clock + 1
    /\ UNCHANGED <<store, nextSid, used, cookies, disabled, pc, loc, history>>

LoadNext(p) ==
    \/ \E t \in Tokens : LoadExpired(p, t) \/ LoadGet(p, t, "mw") \/ LoadGet(p, t, "sudo")
    \/ LoadLease(p) \/ LoadCas(p) \/ LoadCasFails(p) \/ LoadRelease(p)
    \/ Serve(p) \/ KillSession(p) \/ Save(p)

RevokeNext(p) ==
    \/ \E t \in Tokens : Logout(p, t)
    \/ RevokeGet(p) \/ RevokeDel(p) \/ RevokeStamp(p)
    \/ \E a \in Accounts, t \in Tokens \cup {None} : List(p, a, t)
    \/ ListFill(p)

RevokeAllNext(p) ==
    \/ \E a \in Accounts : RevokeAll(p, a) \/ SetDisabled(p, a)
    \/ RevokeAllLease(p) \/ RevokeAllScan(p) \/ RevokeAllDel(p)
    \/ RevokeAllStamp(p) \/ RevokeAllCheck(p) \/ RevokeAllFails(p) \/ RevokeAllRelease(p)

IssueNext(p) ==
    \/ \E t \in Tokens, r \in Remember : Issue(p, t, r)
    \/ InsertSession(p) \/ InsertSessionFails(p)

Next ==
    /\ \/ \E p \in Procs : IssueNext(p) \/ LoadNext(p) \/ RevokeNext(p)
                           \/ RevokeAllNext(p) \/ Abort(p)
       \/ \E a \in Accounts : SetEnabled(a)
       \/ Tick
    /\ UNCHANGED ops

Spec == Init /\ [][Next]_vars

-----------------------------------------------------------------------------
(* Properties                                                                *)

\* A session that Revoke, RevokeBySessionID, RevokeAllForAccount or an expired
\* Load deleted is live again only if an unfenced SetEx (the sudo Save, the
\* listing's backfill) wrote it: a refresh or backfill of Load that was under
\* way when the session ended never brings it back (session.go, Load).
OnlyUnfencedWritesRevive == \A t \in ended : Live(t) => t \in raced

\* When a revoke-all reports success, every session that was live when it won
\* the lease is gone, unless an unfenced SetEx wrote it back (session.go,
\* RevokeAllForAccount).
RevokeAllComplete ==
    \A p \in Procs : pc[p] = "raRelease" /\ loc[p].ok =>
        \A t \in loc[p].mark : Live(t) => t \in raced

-----------------------------------------------------------------------------
(* A statement of the code's comments that the code does not keep            *)

\* session.go, IsSessionIDLive: "The KV entry is the authoritative live marker:
\* Revoke / RevokeBySessionID / RevokeAllForAccount delete it immediately".
\* A deleted session is never live again.
EndedStaysEnded == \A t \in ended : ~Live(t)
=============================================================================
