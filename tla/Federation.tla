----------------------------- MODULE Federation -----------------------------
(***************************************************************************)
(* Sign-in, linking and invited registration through upstream providers    *)
(* (pkg/federation, handle_federation*.go, handle_me_identities.go,        *)
(* handle_invite_federation.go) and the administration of providers        *)
(* (handle_admin_upstream_idps.go, upstream_idp_delete.go).  A flow is a   *)
(* KV record a callback advances under a lease; the callback takes the     *)
(* record away before it asks the provider and puts it back if anything    *)
(* fails.  Each resolution is one transaction.                             *)
(***************************************************************************)
EXTENDS Enrollment

CONSTANTS
    Flows,      \* federation flow ids
    LocalIdps,  \* providers without a redirect: identity collected, then proved
    StateTTL,   \* lifetime of a flow
    GrantTTL    \* lifetime of a confirmation grant

VARIABLES
    flow,       \* KV federation flow
    flowLock,   \* KV lease on a flow: the request that holds it
    grants,     \* KV confirmation grants, by the flow that led to them
    begun,      \* flow ids handed out
    completed,  \* history: resolutions of a flow
    popped      \* history: sign-ins a confirmation grant bought

fedVars == <<flow, flowLock, grants, begun, completed, popped>>
fedHistory == <<completed, popped>>

FedPcs == {"flowPrepare", "flowConsume", "flowResolve", "linkConfirm", "fedDone", "fedIssue"}

FederationInit ==
    /\ flow = [f \in Flows |-> NoEntry] /\ flowLock = [f \in Flows |-> None]
    /\ grants = [f \in Flows |-> NoEntry] /\ begun = {}
    /\ completed = [f \in Flows |-> 0] /\ popped = [f \in Flows |-> 0]

-----------------------------------------------------------------------------
(* Beginning a flow.  BySlug sees enabled providers only.                     *)

IdpEnabled(i) == idps[i].on /\ ~idps[i].dis

Begin(f, i, why, a, s, t) ==
    /\ f \notin begun /\ IdpEnabled(i)
    /\ begun' = begun \cup {f}
    /\ flow' = SetEx(flow, f, [idp |-> i, intent |-> why, a |-> a, s |-> s, t |-> t,
                               act |-> IF i \in LocalIdps THEN "collect" ELSE "redirect",
                               until |-> clock + StateTTL], StateTTL, clock)
    /\ UNCHANGED <<directory, enrollVars, flowLock, grants, fedHistory>>

BeginPublic(f, i) == idps[i].signIn /\ Begin(f, i, "login", None, None, None)
FederationLogin(f, i) == "fedlogin" \in ops /\ BeginPublic(f, i)

BeginLink(s, f, i) == Begin(f, i, "link", sess[s].a, s, None)
IdentitiesLinkBegin(s, f, i) == Me(s, "fedlink") /\ BeginLink(s, f, i)

\* InviteProvider: the provider the invitation is bound to, or any.
InviteProvider(t, i) ==
    /\ inv[t].st = "open" /\ inv[t].intent = "invite" /\ clock < inv[t].until
    /\ inv[t].idp \in {None, i}
    /\ idps[i].mode # "link_only"

BeginInvite(f, i, t) == InviteProvider(t, i) /\ Begin(f, i, "invite", None, None, t)
EnrollmentStartFederation(f, i, t) == "fedinvite" \in ops /\ BeginInvite(f, i, t)

-----------------------------------------------------------------------------
(* Advancing it                                                              *)

\* loadBoundFlow: a link continues only in the session that began it, and the
\* provider is read again.
FlowBound(f, s) ==
    /\ Found(flow, f, clock)
    /\ flow[f].val.intent = "link" => Caller(s) /\ s = flow[f].val.s
    /\ IdpEnabled(flow[f].val.idp)

\* The lease is taken (SetNX) before the flow is read.
FlowLoad(p, f, s, step, act) ==
    /\ pc[p] = "idle" /\ flowLock[f] = None
    /\ FlowBound(f, s) /\ flow[f].val.act \in act
    /\ flowLock' = [flowLock EXCEPT ![f] = p]
    /\ Set(p, [op |-> "flow", f |-> f, st |-> flow[f].val, prov |-> idps[flow[f].val.idp]])
    /\ Goto(p, step)
    /\ UNCHANGED <<tables, enrollVars, flow, grants, begun, fedHistory>>

PrepareFlow(p, f, s) == FlowLoad(p, f, s, "flowPrepare", {"collect"})
VerifyFlow(p, f, s, act) == FlowLoad(p, f, s, "flowConsume", {act})

\* The upstream comes back to one of two routes, or a local flow is submitted.
CallbackRouteAllowsIntent(route, why) ==
    CASE route = "public" -> why \in {"login", "invite"}
      [] route = "link" -> why = "link"
      [] OTHER -> TRUE
FederationCallback(p, f, s, route) ==
    /\ Found(flow, f, clock) /\ CallbackRouteAllowsIntent(route, flow[f].val.intent)
    /\ VerifyFlow(p, f, s, IF route = "local" THEN "publish" ELSE "redirect")

\* Only the owner's lease is released.
Release(p, f) == flowLock' = [flowLock EXCEPT ![f] = IF @ = p THEN None ELSE @]

\* The fenced calls: the lease is still ours and the record the one we read.
OwnsUnchecked(p) == TRUE
Owns(p) == flowLock[loc[p].f] = p /\ Holds(flow, loc[p].f, loc[p].st, clock)

FlowPrepared(p) ==
    LET f == loc[p].f
        st == loc[p].st
    IN  /\ pc[p] = "flowPrepare"
        /\ flow' = IF Owns(p)
                   THEN SetEx(flow, f, [st EXCEPT !.act = "publish"], st.until - clock, clock)
                   ELSE flow
        /\ Release(p, f)
        /\ Finish(p)
        /\ UNCHANGED <<tables, enrollVars, grants, begun, fedHistory>>

FlowConsume(p) ==
    LET f == loc[p].f
    IN  /\ pc[p] = "flowConsume"
        /\ IF Owns(p)
           THEN /\ flow' = Del(flow, f)
                /\ Goto(p, "flowResolve") /\ UNCHANGED <<loc, flowLock>>
           ELSE Release(p, f) /\ Finish(p) /\ UNCHANGED flow
        /\ UNCHANGED <<tables, enrollVars, grants, begun, fedHistory>>

\* The lease of a slow or dead request expires.
LeaseLost(f) ==
    /\ "leases" \in ops /\ flowLock[f] # None
    /\ flowLock' = [flowLock EXCEPT ![f] = None]
    /\ UNCHANGED <<directory, enrollVars, flow, grants, begun, fedHistory>>

\* restoreAfterFailure: the provider refused, the lease was lost, or the
\* resolution failed; what is left of the flow's lifetime is given back.
FlowFails(p) ==
    LET f == loc[p].f
        left == loc[p].st.until - clock
    IN  /\ pc[p] = "flowResolve"
        /\ flow' = IF left > 0 THEN SetEx(flow, f, loc[p].st, left, clock) ELSE flow
        /\ Release(p, f)
        /\ Finish(p)
        /\ UNCHANGED <<tables, enrollVars, grants, begun, fedHistory>>

-----------------------------------------------------------------------------
(* Resolving a verified identity u with the verified address addr            *)

Resolving(p, why) == pc[p] = "flowResolve" /\ loc[p].st.intent = why

Bound(u) == {l \in links : l.sub = u}
SubjectFreeUnchecked(u) == TRUE
SubjectFree(u) == Bound(u) = {}

Resolved(p, step, a, u, conf, new) ==
    /\ completed' = [completed EXCEPT ![loc[p].f] = @ + 1]
    /\ Release(p, loc[p].f)
    /\ Set(p, [op |-> "flow", f |-> loc[p].f, st |-> loc[p].st, prov |-> loc[p].prov,
               a |-> a, u |-> u, conf |-> conf, new |-> new])
    /\ Goto(p, step)
    /\ UNCHANGED <<clock, ops, maint, sess, factors, idps, enrolling, withdrawn, codeVars,
                   flow, grants, begun, popped>>

\* The account is still enabled; a verified address is absorbed.
SyncClaims(l, addr) == Enabled(l.a) /\ Absorb(l.a, addr)

\* A known identity signs in to its account, through the provider it is bound to.
ResolveExisting(p, u, addr) ==
    /\ Resolving(p, "login") /\ loc[p].prov.signIn
    /\ \E l \in Bound(u) : /\ l.idp = loc[p].st.idp /\ SyncClaims(l, addr)
                           /\ Resolved(p, "fedDone", l.a, u, l.conf, FALSE)
    /\ UNCHANGED <<acct, links, inv, yields, unbound>>

\* A new account: the username is free and the provider still there.
Provision(p, a, u, addr, admin) ==
    /\ SubjectFree(u) /\ idps[loc[p].st.idp].on
    /\ ~acct[a].on /\ ~acct[a].gone
    /\ InsertAccount(a, admin)
    /\ links' = InsertAccountIdentity(loc[p].st.idp, u, a, FALSE)
    /\ Absorb(a, addr)
    /\ Resolved(p, "fedDone", a, u, FALSE, TRUE)

ApplyAutoProvision(p, a, u, addr) ==
    /\ Resolving(p, "login") /\ loc[p].prov.signIn /\ loc[p].prov.mode = "auto_provision"
    /\ Provision(p, a, u, addr, FALSE)
    /\ UNCHANGED <<inv, yields, unbound>>

\* Does the invitation end in a local credential?
RequireLocal(p) == ~loc[p].prov.signIn \/ inv[loc[p].st.t].local

\* Under the row lock: still open, and bound to this provider if to any.
InviteClaim(p) ==
    LockInviteEnrollment(loc[p].st.t) /\ inv[loc[p].st.t].idp \in {None, loc[p].st.idp}

ApplyInviteProvision(p, a, u, addr) ==
    LET t == loc[p].st.t
    IN  /\ Resolving(p, "invite") /\ ~RequireLocal(p) /\ InviteClaim(p)
        /\ Provision(p, a, u, addr, inv[t].admin)
        /\ inv' = ConsumeInviteEnrollment(t)
        /\ yields' = [yields EXCEPT ![t] = @ + 1]
        /\ unbound' = unbound \cup Unbound(t, a, links')

\* The identity is kept with the invitation, for the local enrollment to use.
AttachInviteIdentity(p, u) ==
    LET t == loc[p].st.t
    IN  /\ Resolving(p, "invite") /\ RequireLocal(p) /\ InviteClaim(p)
        /\ SubjectFree(u) /\ idps[loc[p].st.idp].on
        /\ inv' = AttachedInviteIdentity(t, loc[p].st.idp, u)
        /\ completed' = [completed EXCEPT ![loc[p].f] = @ + 1]
        /\ Release(p, loc[p].f)
        /\ Finish(p)
        /\ UNCHANGED <<tables, enrolling, enrollHistory, mail, nextMail, prim, codeVars, flow,
                       grants, begun, popped>>

ResolveLink(p, u, addr) ==
    LET a == loc[p].st.a
    IN  /\ Resolving(p, "link") /\ SubjectFree(u) /\ Enabled(a) /\ idps[loc[p].st.idp].on
        /\ links' = InsertAccountIdentity(loc[p].st.idp, u, a, FALSE)
        /\ Absorb(a, addr)
        /\ Resolved(p, "linkConfirm", a, u, FALSE, FALSE)
        /\ UNCHANGED <<acct, inv, yields, unbound>>

-----------------------------------------------------------------------------
(* Completing                                                                 *)

\* ConfirmAccountIdentity; an identity unlinked since stays away.
Confirm(a, u) ==
    links' = {IF l.sub = u /\ l.a = a THEN [l EXCEPT !.conf = TRUE] ELSE l : l \in links}

\* After the transaction of a link, best effort.
LinkConfirm(p, ok) ==
    /\ pc[p] = "linkConfirm"
    /\ IF ok THEN Confirm(loc[p].a, loc[p].u) ELSE UNCHANGED links
    /\ Finish(p)
    /\ UNCHANGED <<clock, ops, maint, acct, sess, factors, idps, enrollVars, fedVars>>

CreateConfirmGrant(f, a, u) == SetEx(grants, f, [a |-> a, u |-> u], GrantTTL, clock)

\* writeFederationCompletion: an unconfirmed identity gets a grant, no session.
FederationCompletes(p) ==
    /\ pc[p] = "fedDone"
    /\ IF loc[p].conf
       THEN Goto(p, "fedIssue") /\ UNCHANGED <<loc, grants>>
       ELSE /\ grants' = CreateConfirmGrant(loc[p].f, loc[p].a, loc[p].u)
            /\ Finish(p)
    /\ UNCHANGED <<tables, enrollVars, flow, flowLock, begun, fedHistory>>

PopGrantGet(f) == Found(grants, f, clock) /\ UNCHANGED grants
PopGrant(f) == Found(grants, f, clock) /\ grants' = Del(grants, f)

FederationConfirm(p, f) ==
    /\ pc[p] = "idle" /\ PopGrant(f)
    /\ popped' = [popped EXCEPT ![f] = @ + 1]
    /\ Confirm(grants[f].val.a, grants[f].val.u)
    /\ Set(p, [op |-> "confirm", a |-> grants[f].val.a])
    /\ Goto(p, "fedIssue")
    /\ UNCHANGED <<clock, ops, maint, acct, sess, factors, idps, enrollVars, flow, flowLock,
                   begun, completed>>

ConfirmDecline(f) ==
    /\ PopGrant(f)
    /\ UNCHANGED <<directory, enrollVars, flow, flowLock, begun, fedHistory>>

\* The session is issued without another look at the account.
FederationSignsIn(p) ==
    /\ pc[p] = "fedIssue"
    /\ IF MaintenanceLockout(loc[p].a) THEN UNCHANGED sess ELSE IssueSession(loc[p].a)
    /\ Finish(p)
    /\ UNCHANGED <<clock, ops, maint, acct, factors, federated, enrollVars, fedVars>>

-----------------------------------------------------------------------------
(* Providers                                                                  *)

\* validateProviderWrite
ProviderWrite(mode, signIn) == signIn \/ mode # "auto_provision"

CreateIdentityProvider(s, i, mode, signIn) ==
    /\ Admin(s, "idpnew") /\ ~idps[i].on /\ ~idps[i].gone /\ ProviderWrite(mode, signIn)
    /\ idps' = [idps EXCEPT ![i] = [NoIdp EXCEPT !.on = TRUE, !.dis = i \in LocalIdps,
                                                 !.signIn = signIn, !.mode = mode]]
    /\ UNCHANGED <<links, inv>>

UpdateIdentityProvider(s, i, mode, signIn) ==
    /\ Admin(s, "idpupdate") /\ idps[i].on /\ ProviderWrite(mode, signIn)
    /\ idps' = UpdateUpstreamIDPConfig(i, mode, signIn)
    /\ UNCHANGED <<links, inv>>

SetIdentityProviderDisabled(s, i, dis) ==
    /\ Admin(s, "idpdisable") /\ idps[i].on
    /\ idps' = SetUpstreamIDPDisabled(i, dis)
    /\ UNCHANGED <<links, inv>>

\* With the identities there and the invitations that carry one.
DeleteIdentityProvider(s, i) ==
    /\ Admin(s, "idpdelete") /\ HasFreshSudo(s) /\ idps[i].on
    /\ idps' = [idps EXCEPT ![i] = [NoIdp EXCEPT !.gone = TRUE]]
    /\ links' = DeleteAccountIdentitiesByUpstreamIDP(i)
    /\ inv' = [t \in Invites |-> IF inv[t].snap # None /\ inv[t].snap.idp = i
                                 THEN [NoInvite EXCEPT !.st = "gone"] ELSE inv[t]]

ProviderStep(s, i) ==
    /\ \/ \E mode \in Modes, signIn \in BOOLEAN :
            CreateIdentityProvider(s, i, mode, signIn) \/ UpdateIdentityProvider(s, i, mode, signIn)
       \/ \E dis \in BOOLEAN : SetIdentityProviderDisabled(s, i, dis)
       \/ DeleteIdentityProvider(s, i)
    /\ UNCHANGED <<clock, ops, maint, acct, sess, factors, frame, enrolling, enrollHistory,
                   fedVars>>

-----------------------------------------------------------------------------

ResolveStep(p, u) ==
    \/ \E addr \in Addresses \cup {None} :
        \/ ResolveExisting(p, u, addr) \/ ResolveLink(p, u, addr)
        \/ \E a \in Accounts : ApplyAutoProvision(p, a, u, addr) \/ ApplyInviteProvision(p, a, u, addr)
    \/ AttachInviteIdentity(p, u)

FlowStep(f) ==
    \/ \E i \in Idps : FederationLogin(f, i) \/ (\E s \in Sids : IdentitiesLinkBegin(s, f, i))
                       \/ (\E t \in Invites : EnrollmentStartFederation(f, i, t))
    \/ \E p \in Procs, s \in Sids :
        \/ PrepareFlow(p, f, s)
        \/ \E route \in {"public", "link", "local"} : FederationCallback(p, f, s, route)
    \/ \E p \in Procs : FederationConfirm(p, f)
    \/ LeaseLost(f) \/ ConfirmDecline(f)

FederationNext ==
    /\ \/ \E p \in Procs, u \in Subs : ResolveStep(p, u)
       \/ /\ \/ \E f \in Flows : FlowStep(f)
             \/ \E p \in Procs : FlowPrepared(p) \/ FlowConsume(p) \/ FlowFails(p)
                                 \/ FederationCompletes(p) \/ FederationSignsIn(p)
                                 \/ \E ok \in BOOLEAN : LinkConfirm(p, ok)
             \/ \E s \in Sids, i \in Idps : ProviderStep(s, i)
          /\ UNCHANGED emailVars
    /\ UNCHANGED signInVars
=============================================================================
