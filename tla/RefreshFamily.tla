---------------------------- MODULE RefreshFamily ----------------------------
(***************************************************************************)
(* pkg/protocol/oidc/refresh.go: one family of rotated refresh tokens.     *)
(* The family is a single KV record; there is no lock.  rotateRefresh      *)
(* loads it, classifies the presented token, and replaces the record by    *)
(* compare-and-swap; the refresh_token grant then re-checks the standing   *)
(* of the grant and revokes the family when something was lost.  Requests  *)
(* interleave at every KV or PG call; the clock moves between them.        *)
(*                                                                         *)
(* A token is the number of its secret: hashing is injective on the random *)
(* 32-byte secrets, so equal hashes are equal tokens.  0 is no token.      *)
(***************************************************************************)
EXTENDS Integers, Kv

CONSTANTS
    Procs,                      \* concurrently served requests
    Clients, Owner,             \* OIDC clients; the one the family is bound to
    Mixes,                      \* sets of operations, conditions that can be lost, and
                                \* "stranger": a behaviour performs those of one mix
    InactivityTTL, AbsoluteTTL, \* lifetimes, ordered by validateRefreshTTLs
    Window,                     \* refreshIdempotencyWindow
    MaxClock, MaxToken          \* bounds of the explored instance

\* What every refresh re-checks, in this order: the account is enabled, the
\* originating session is live, app access is granted, no provider of a granted
\* identity scope was deleted.
Conditions == {"account", "session", "access", "provider"}
CheckAt(i) == CASE i = 1 -> "account" [] i = 2 -> "session"
                [] i = 3 -> "access"  [] i = 4 -> "provider"
Checks == 4

ASSUME FamilyAssumption ==
    /\ Owner \in Clients
    /\ InactivityTTL \in Nat \ {0} /\ AbsoluteTTL \in Nat \ {0}
    /\ InactivityTTL <= AbsoluteTTL
    /\ Window \in Nat /\ MaxClock \in Nat /\ MaxToken \in Nat

VARIABLES
    clock,
    ops,       \* the mix of operations of this behaviour
    kv,        \* the record oidc:refresh:family:<fid>, at key "family"
    next,      \* the next fresh secret
    held,      \* tokens that were returned to a client
    lost,      \* conditions that do not hold now
    born,      \* the family was written
    pc, loc,   \* control state and local variables of each request
    last,      \* history: the token that was current last
    link,      \* history: successful rotations, from one token to the next
    given      \* history: responses, from the presented token to the returned

vars == <<clock, ops, kv, next, held, lost, born, pc, loc, last, link, given>>
history == <<last, link, given>>

\* refreshFamily; the client, account, session and scope it carries never change.
NoFamily == [rev |-> 0, cur |-> 0, prev |-> 0, succ |-> 0, pvu |-> 0,
             abs |-> 0, ina |-> 0]

Alive == Found(kv, "family", clock)
Record == kv["family"].val

Blank == [tok |-> 0, client |-> Owner, fam |-> NoFamily, new |-> NoFamily,
          out |-> 0, i |-> 1, low |-> {}]

Goto(p, label) == pc' = [pc EXCEPT ![p] = label]
Set(p, l) == loc' = [loc EXCEPT ![p] = l]
Finish(p) == Goto(p, "idle") /\ Set(p, Blank)

Min2(a, b) == IF a <= b THEN a ELSE b

Init ==
    /\ clock = 0 /\ ops \in Mixes /\ kv = [k \in {"family"} |-> NoEntry]
    /\ next = 1 /\ held = {} /\ lost = {} /\ born = FALSE
    /\ pc = [p \in Procs |-> "idle"] /\ loc = [p \in Procs |-> Blank]
    /\ last = 0 /\ link = {} /\ given = {}

-----------------------------------------------------------------------------
(* issueRefresh, the last act of the authorization_code grant.               *)

\* The deadlines are taken from the clock before the record is written.
IssueRefresh(p) ==
    /\ pc[p] = "idle" /\ next = 1
    /\ next' = 2
    /\ Set(p, [Blank EXCEPT !.tok = 1,
                            !.fam = [NoFamily EXCEPT !.cur = 1,
                                                     !.abs = clock + AbsoluteTTL,
                                                     !.ina = clock + InactivityTTL]])
    /\ Goto(p, "issue")
    /\ UNCHANGED <<clock, ops, kv, held, lost, born, history>>

PutFamily(p) ==
    /\ pc[p] = "issue"
    /\ kv' = SetEx(kv, "family", loc[p].fam, AbsoluteTTL, clock)
    /\ born' = TRUE /\ last' = 1
    /\ held' = held \cup {loc[p].tok}
    /\ Finish(p)
    /\ UNCHANGED <<clock, ops, next, lost, link, given>>

-----------------------------------------------------------------------------
(* rotateRefresh                                                             *)

\* loadFamilyByFID; a miss is invalid_grant.  low is for the properties: the
\* conditions lost before this request and not restored since.
Present(p, t, c) ==
    /\ pc[p] = "idle" /\ t \in held /\ Alive
    /\ Set(p, [Blank EXCEPT !.tok = t, !.client = c, !.fam = Record, !.low = lost])
    /\ Goto(p, "classify")
    /\ UNCHANGED <<clock, ops, kv, next, held, lost, born, history>>

\* isActiveToken's second clause, and the idempotent-replay test.
InWindow(f, t) == clock < f.pvu /\ t = f.prev

\* The record that replaces f when its current token is exchanged.
Rotated(f, t) == [f EXCEPT !.rev = @ + 1, !.cur = t, !.prev = f.cur, !.succ = t,
                           !.pvu = clock + Window,
                           !.ina = Min2(clock + InactivityTTL, f.abs)]

\* Mutated form of Classify: a superseded token is refused, the family left alone.
ClassifyForgivesReuse(p) ==
    /\ pc[p] = "classify"
    /\ \/ /\ loc[p].tok = loc[p].fam.cur /\ next <= MaxToken /\ next' = next + 1
          /\ Goto(p, "cas") /\ Set(p, [loc[p] EXCEPT !.new = Rotated(loc[p].fam, next)])
       \/ loc[p].tok # loc[p].fam.cur /\ next' = next /\ Finish(p)
    /\ UNCHANGED <<clock, ops, kv, held, lost, born, history>>

Classify(p) ==
    /\ pc[p] = "classify"
    /\ LET f == loc[p].fam
           t == loc[p].tok
           expired == clock >= f.abs \/ clock >= f.ina
       IN  \/ /\ expired \/ (~InWindow(f, t) /\ t # f.cur)
              /\ Goto(p, "del") /\ UNCHANGED <<next, loc>>
           \/ /\ ~expired /\ InWindow(f, t)
              /\ Goto(p, "client") /\ Set(p, [loc[p] EXCEPT !.out = f.succ])
              /\ UNCHANGED next
           \/ /\ ~expired /\ ~InWindow(f, t) /\ t = f.cur
              /\ next <= MaxToken /\ next' = next + 1
              /\ Goto(p, "cas") /\ Set(p, [loc[p] EXCEPT !.new = Rotated(f, next)])
    /\ UNCHANGED <<clock, ops, kv, held, lost, born, history>>

\* CompareAndSwap with the time left to the absolute deadline, or the whole
\* absolute lifetime when that has just passed.
KvTtl(f) == IF f.abs > clock THEN f.abs - clock ELSE AbsoluteTTL

\* The rotation without the compare: load, then SetEx.
CasBlind(p) ==
    /\ pc[p] = "cas"
    /\ kv' = SetEx(kv, "family", loc[p].new, KvTtl(loc[p].fam), clock)
    /\ last' = loc[p].new.cur
    /\ link' = link \cup {[from |-> loc[p].tok, to |-> loc[p].new.cur]}
    /\ Goto(p, "client")
    /\ Set(p, [loc[p] EXCEPT !.out = loc[p].new.cur])
    /\ UNCHANGED <<clock, ops, next, held, lost, born, given>>

Cas(p) ==
    /\ pc[p] = "cas"
    /\ kv' = CompareAndSwap(kv, "family", loc[p].fam, loc[p].new, KvTtl(loc[p].fam), clock)
    /\ IF Holds(kv, "family", loc[p].fam, clock)
       THEN /\ last' = loc[p].new.cur
            /\ link' = link \cup {[from |-> loc[p].tok, to |-> loc[p].new.cur]}
            /\ Goto(p, "client")
            /\ Set(p, [loc[p] EXCEPT !.out = loc[p].new.cur])
       ELSE Goto(p, "reload") /\ UNCHANGED <<last, link, loc>>
    /\ UNCHANGED <<clock, ops, next, held, lost, born, given>>

\* The CAS was lost: somebody rotated or revoked the family.
Reload(p) ==
    /\ pc[p] = "reload"
    /\ \/ ~Alive /\ Finish(p)
       \/ /\ Alive /\ InWindow(Record, loc[p].tok)
          /\ Goto(p, "client") /\ Set(p, [loc[p] EXCEPT !.out = Record.succ])
       \/ /\ Alive /\ ~InWindow(Record, loc[p].tok)
          /\ Goto(p, "del") /\ loc' = loc
    /\ UNCHANGED <<clock, ops, kv, next, held, lost, born, history>>

\* Every refusal that ends the family: an unconditional Del of its key.
DelFamily(p) ==
    /\ pc[p] = "del"
    /\ kv' = Del(kv, "family")
    /\ Finish(p)
    /\ UNCHANGED <<clock, ops, next, held, lost, born, history>>

-----------------------------------------------------------------------------
(* grantRefreshToken, after the rotation                                     *)

CheckClient(p) ==
    /\ pc[p] = "client"
    /\ IF loc[p].client = Owner
       THEN Goto(p, "check") /\ loc' = loc
       ELSE Goto(p, "del") /\ loc' = loc
    /\ UNCHANGED <<clock, ops, kv, next, held, lost, born, history>>

\* The re-checks skipped for an idempotent replay.
CheckStandingUnlessReplay(p) ==
    /\ pc[p] = "check"
    /\ IF loc[p].new = NoFamily
       THEN Goto(p, "mint") /\ loc' = loc
       ELSE IF CheckAt(loc[p].i) \in lost
       THEN Goto(p, "del") /\ loc' = loc
       ELSE IF loc[p].i = Checks
            THEN Goto(p, "mint") /\ loc' = loc
            ELSE pc' = pc /\ Set(p, [loc[p] EXCEPT !.i = @ + 1])
    /\ UNCHANGED <<clock, ops, kv, next, held, lost, born, history>>

\* One of the re-checks.
CheckStanding(p) ==
    /\ pc[p] = "check"
    /\ IF CheckAt(loc[p].i) \in lost
       THEN Goto(p, "del") /\ loc' = loc
       ELSE IF loc[p].i = Checks
            THEN Goto(p, "mint") /\ loc' = loc
            ELSE pc' = pc /\ Set(p, [loc[p] EXCEPT !.i = @ + 1])
    /\ UNCHANGED <<clock, ops, kv, next, held, lost, born, history>>

\* Any error of the first re-check, GetAccountByID, counts as a deleted account;
\* an error of a later one ends the request and keeps the family (Abort).
AccountReadFails(p) ==
    /\ pc[p] = "check" /\ loc[p].i = 1 /\ "abort" \in ops
    /\ Goto(p, "del") /\ loc' = loc
    /\ UNCHANGED <<clock, ops, kv, next, held, lost, born, history>>

Respond(p) ==
    /\ pc[p] = "mint"
    /\ held' = held \cup {loc[p].out}
    /\ given' = given \cup {[from |-> loc[p].tok, to |-> loc[p].out]}
    /\ Finish(p)
    /\ UNCHANGED <<clock, ops, kv, next, lost, born, last, link>>

\* Minting fails after a rotation: the client could never use the family again.
MintFailsKeepsFamily(p) ==
    /\ pc[p] = "mint" /\ "mintFail" \in ops
    /\ Finish(p)
    /\ UNCHANGED <<clock, ops, kv, next, held, lost, born, history>>

MintFails(p) ==
    /\ pc[p] = "mint" /\ "mintFail" \in ops
    /\ Goto(p, "del") /\ loc' = loc
    /\ UNCHANGED <<clock, ops, kv, next, held, lost, born, history>>

-----------------------------------------------------------------------------
(* HandleRevoke by the owner, and a replay of the code the family came from. *)

RevokeFamily ==
    /\ "revoke" \in ops /\ Alive
    /\ kv' = Del(kv, "family")
    /\ UNCHANGED <<clock, ops, next, held, lost, born, pc, loc, history>>

-----------------------------------------------------------------------------
(* The environment                                                           *)

\* An account is disabled or deleted, a session ends, access or a provider goes.
Lose(c) ==
    /\ c \in ops \ lost
    /\ lost' = lost \cup {c}
    /\ UNCHANGED <<clock, ops, kv, next, held, born, pc, loc, history>>

\* Everything but a session can come back.
Restore(c) ==
    /\ c \in lost \ {"session"}
    /\ lost' = lost \ {c}
    /\ loc' = [p \in Procs |-> [loc[p] EXCEPT !.low = @ \ {c}]]
    /\ UNCHANGED <<clock, ops, kv, next, held, born, pc, history>>

\* A backend error that leaves the family alone, a crash, a lost response.
Abort(p) ==
    /\ pc[p] # "idle" /\ "abort" \in ops
    /\ Finish(p)
    /\ UNCHANGED <<clock, ops, kv, next, held, lost, born, history>>

Tick ==
    /\ clock < MaxClock
    /\ clock' = clock + 1
    /\ UNCHANGED <<ops, kv, next, held, lost, born, pc, loc, history>>

Rotate(p) == Classify(p) \/ Cas(p) \/ Reload(p)
Grant(p) ==
    \/ CheckClient(p) \/ CheckStanding(p) \/ AccountReadFails(p)
    \/ Respond(p) \/ MintFails(p) \/ DelFamily(p)

Next ==
    \/ \E p \in Procs :
        \/ IssueRefresh(p) \/ PutFamily(p)
        \/ \E t \in held, c \in IF "stranger" \in ops THEN Clients ELSE {Owner} : Present(p, t, c)
        \/ Rotate(p) \/ Grant(p) \/ Abort(p)
    \/ RevokeFamily
    \/ \E c \in Conditions : Lose(c) \/ Restore(c)
    \/ Tick

Spec == Init /\ [][Next]_vars

\* A request that was accepted runs to its end, and time passes.
Fairness ==
    /\ \A p \in Procs : WF_vars(PutFamily(p) \/ Rotate(p) \/ Grant(p))
    /\ WF_vars(Tick)
FairSpec == Spec /\ Fairness

-----------------------------------------------------------------------------
(* Properties                                                                *)

\* However requests race, a refresh token is exchanged for one successor: two
\* responses to the same token carry the same new token (refresh.go,
\* rotateRefresh: the CAS and the idempotent replay).
OneSuccessor ==
    \A r, s \in given : r.from = s.from => r.to = s.to

\* Tokens are minted only for a grant in good standing: no condition that was
\* lost when the request came in, and stayed lost, gets past the re-checks -
\* for a rotation and for an idempotent replay alike (refresh.go,
\* grantRefreshToken).
MintsInGoodStanding ==
    \A p \in Procs : pc[p] = "mint" => loc[p].low = {}

\* Without crashes and backend errors a live family is never locked out: its
\* current token was returned to a client or is on its way to one, or the
\* family is about to be deleted (refresh.go, grantRefreshToken: "live-but-
\* unusable state the client is locked out of").
NeverLockedOut ==
    Alive /\ "abort" \notin ops =>
        \/ last \in held
        \/ \E p \in Procs : pc[p] \in {"client", "check", "mint", "del"} /\ loc[p].out = last

\* A superseded token that is presented after its idempotency window ends the
\* family, unless the request is aborted (refresh.go, rotateRefresh: reuse detection).
ReplayEndsFamily ==
    \A p \in Procs :
        ("abort" \notin ops /\ pc[p] = "classify" /\ loc[p].tok # loc[p].fam.cur /\ clock >= loc[p].fam.pvu)
            ~> ~Alive

\* The family implements the abstract chain: rotations exchange the current
\* token for a fresh one, and a family that ended is never live again.
ChainState == IF ~born THEN "none" ELSE IF Alive THEN "live" ELSE "dead"
Chain == INSTANCE RefreshChain
            WITH Token <- 0 .. (MaxToken + 1), state <- ChainState, current <- last,
                 past <- {l.from : l \in link}
ImplementsChain == Chain!Spec
=============================================================================
