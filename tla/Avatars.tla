------------------------------ MODULE Avatars ------------------------------
(***************************************************************************)
(* The avatars of an account: an upload of its own and one picture per     *)
(* connected upstream provider, of which one (or none) is active.  The     *)
(* user uploads, picks and deletes; sign-ins through a provider refresh    *)
(* its picture and may make it the active one.  The writes of a handler    *)
(* are a transaction (visible when it commits); a refresh commits          *)
(* statement by statement.  Icons of providers and applications are kept   *)
(* by the owner's name, beside the owner's row.                            *)
(***************************************************************************)
EXTENDS Desk

CONSTANTS
    Upstreams,   \* sources "upstream:<slug>"
    Shots,       \* pictures there are (an ETag identifies one)
    MaxPick      \* bound of the explored instance

VARIABLES
    stored,   \* account_avatar: source -> picture, or None
    account,  \* avatar_source, avatar_etag, avatar_selected_at
    picks, intact,   \* history: picks so far; is the last one still in effect?
    owners, icons   \* providers and applications there are, and those with an icon

avatarVars == <<stored, account, picks, intact, owners, icons>>

Sources == Upstreams \cup {"user"}

AvatarsInit ==
    /\ stored = [s \in Sources |-> None]
    /\ account = [source |-> None, etag |-> None, picked |-> FALSE]
    /\ picks = 0 /\ intact = FALSE /\ owners = Upstreams /\ icons = {}

\* Local variables: source and picture, the active source and whether the user had
\* picked when it was read, what else was read; seen: picks when the account was read.
NoAvatar == [src |-> None, pic |-> None, was |-> None, changed |-> FALSE, activate |-> FALSE, seen |-> 0]

\* SetActiveAvatar: the pointer, with the ETag of the picture if there is one.
SetActive(av, src) == [account EXCEPT !.source = src, !.etag = av[src]]

\* History: a pick that another write replaces is no longer in effect.
KeepHistory == picks' = picks /\ intact' = (intact /\ account'.source = account.source)

\* ClearActiveAvatar.
ClearActive == [account EXCEPT !.source = "none", !.etag = None]

-----------------------------------------------------------------------------
(* The user                                                                  *)

\* Mutated form of UploadRead: an upload always takes effect.
UploadReadAlways(p, pic) ==
    /\ Idle(p, "upload")
    /\ Goto(p, "uploadCommit")
    /\ Set(p, [NoAvatar EXCEPT !.src = "user", !.pic = pic, !.activate = TRUE, !.seen = picks])
    /\ UNCHANGED <<clock, ops, avatarVars>>

\* handlePutAvatar: in the transaction the account is read: has the user picked?
UploadRead(p, pic) ==
    /\ Idle(p, "upload")
    /\ Goto(p, "uploadCommit")
    /\ Set(p, [NoAvatar EXCEPT !.src = "user", !.pic = pic, !.activate = ~account.picked, !.seen = picks])
    /\ UNCHANGED <<clock, ops, avatarVars>>

\* The upload is stored, and active if the user had never picked.
UploadCommit(p) ==
    LET l == loc[p]
        av == [stored EXCEPT !["user"] = l.pic]
    IN  /\ pc[p] = "uploadCommit"
        /\ stored' = av
        /\ account' = IF l.activate THEN SetActive(av, "user") ELSE account
        /\ Done(p)
        /\ KeepHistory /\ UNCHANGED <<clock, ops, owners, icons>>

\* handlePutAvatarSelection: the source has a picture...
SelectRead(p, src) ==
    /\ Idle(p, "select")
    /\ src # "none" => stored[src] # None
    /\ Goto(p, "selectCommit") /\ Set(p, [NoAvatar EXCEPT !.src = src])
    /\ UNCHANGED <<clock, ops, avatarVars>>

\* ... and becomes the active one; the pick is recorded.
SelectCommit(p) ==
    LET src == loc[p].src
    IN  /\ pc[p] = "selectCommit" /\ picks < MaxPick
        /\ account' = [IF src = "none" THEN ClearActive ELSE SetActive(stored, src) EXCEPT !.picked = TRUE]
        /\ picks' = picks + 1 /\ intact' = TRUE
        /\ Done(p)
        /\ UNCHANGED <<clock, ops, stored, owners, icons>>

\* handleDeleteAvatar: the session was loaded with the active source of that moment.
DeleteLoad(p) ==
    /\ Idle(p, "remove")
    /\ Goto(p, "removeCommit") /\ Set(p, [NoAvatar EXCEPT !.was = account.source])
    /\ UNCHANGED <<clock, ops, avatarVars>>

\* applyDeleteFallback: what takes the upload's place.
Fallback(av) ==
    IF \E s \in Upstreams : av[s] # None
    THEN SetActive(av, CHOOSE s \in Upstreams : av[s] # None)
    ELSE ClearActive

\* The upload is deleted; if it was active, an upstream picture or none takes its place.
DeleteCommit(p) ==
    LET av == [stored EXCEPT !["user"] = None]
    IN  /\ pc[p] = "removeCommit"
        /\ stored' = av
        /\ account' = IF loc[p].was = "user" THEN Fallback(av) ELSE account
        /\ Done(p)
        /\ KeepHistory /\ UNCHANGED <<clock, ops, owners, icons>>

-----------------------------------------------------------------------------
(* A sign-in through a provider: AvatarManager.Refresh                       *)

\* The provider names a picture; one with the URL of the stored one is not fetched.
RefreshList(p, src, pic) ==
    /\ Idle(p, "refresh") /\ src \in owners
    /\ Goto(p, IF stored[src] = pic THEN "refreshRead" ELSE "fetchAvatar")
    /\ Set(p, [NoAvatar EXCEPT !.src = src, !.pic = pic, !.changed = stored[src] # pic])
    /\ UNCHANGED <<clock, ops, avatarVars>>

\* Fetched, processed and stored; a failure ends the refresh.
FetchAvatar(p) ==
    /\ pc[p] = "fetchAvatar"
    /\ \/ /\ loc[p].src \in owners
          /\ stored' = [stored EXCEPT ![loc[p].src] = loc[p].pic]
          /\ Goto(p, "refreshRead") /\ UNCHANGED loc
       \/ Done(p) /\ UNCHANGED stored
    /\ UNCHANGED <<clock, ops, account, picks, intact, owners, icons>>

\* Mutated form of ShouldActivate: an empty slot is filled, picked or not.
ShouldActivateEmpty(src, changed) ==
    IF account.source = src THEN changed ELSE account.source \in {None, "none"}

\* shouldActivate: a new picture of the active source, or an empty slot nobody chose.
ShouldActivate(src, changed) ==
    IF account.source = src THEN changed ELSE account.source \in {None, "none"} /\ ~account.picked

RefreshRead(p) ==
    /\ pc[p] = "refreshRead"
    /\ IF ShouldActivate(loc[p].src, loc[p].changed)
       THEN Goto(p, "activate") /\ Set(p, [loc[p] EXCEPT !.seen = picks])
       ELSE Done(p)
    /\ UNCHANGED <<clock, ops, avatarVars>>

Activate(p) ==
    /\ pc[p] = "activate"
    /\ account' = SetActive(stored, loc[p].src)
    /\ Done(p)
    /\ KeepHistory /\ UNCHANGED <<clock, ops, stored, owners, icons>>

-----------------------------------------------------------------------------
(* Icons of providers and applications                                       *)

\* handlePutIdentityProviderIcon, putOIDCAppIcon...: the owner is looked up...
IconOwner(p, o) ==
    /\ Idle(p, "putIcon") /\ o \in owners
    /\ Goto(p, "putIcon") /\ Set(p, [NoAvatar EXCEPT !.src = o])
    /\ UNCHANGED <<clock, ops, avatarVars>>

\* ... and its icon stored, under its name.
SetEntityIcon(p) ==
    /\ pc[p] = "putIcon"
    /\ icons' = icons \cup {loc[p].src} /\ Done(p)
    /\ UNCHANGED <<clock, ops, stored, account, picks, intact, owners>>

DeleteEntityIcon(p, o) ==
    /\ Idle(p, "putIcon") /\ o \in icons
    /\ icons' = icons \ {o}
    /\ UNCHANGED <<desk, stored, account, picks, intact, owners>>

\* A provider is deleted: the pictures that came from it go with it, in the same
\* statement; its icon is deleted in the next one (an error is ignored).
DeleteOwner(p, o) ==
    /\ Idle(p, "deleteOwner") /\ o \in owners
    /\ owners' = owners \ {o}
    /\ stored' = [stored EXCEPT ![o] = None]
    /\ Goto(p, "dropIcon") /\ Set(p, [NoAvatar EXCEPT !.src = o])
    /\ UNCHANGED <<clock, ops, account, picks, intact, icons>>

DropIcon(p) ==
    /\ pc[p] = "dropIcon"
    /\ icons' = icons \ {loc[p].src} \/ UNCHANGED icons
    /\ Done(p)
    /\ UNCHANGED <<clock, ops, stored, account, picks, intact, owners>>

AvatarsNext ==
    \E p \in Procs :
        \/ \E pic \in Shots : UploadRead(p, pic) \/ \E s \in Upstreams : RefreshList(p, s, pic)
        \/ UploadCommit(p)
        \/ \E s \in Sources \cup {"none"} : SelectRead(p, s)
        \/ SelectCommit(p) \/ DeleteLoad(p) \/ DeleteCommit(p)
        \/ FetchAvatar(p) \/ RefreshRead(p) \/ Activate(p)
        \/ \E o \in Upstreams : IconOwner(p, o) \/ DeleteEntityIcon(p, o) \/ DeleteOwner(p, o)
        \/ SetEntityIcon(p) \/ DropIcon(p)

\* What the user picked stays active until the user changes it: no upload and no sign-in
\* through a provider takes it away, but for those that had read the account before the
\* pick was committed.
LatestPickKept ==
    [][\A p \in Procs :
          pc[p] \in {"uploadCommit", "activate"} /\ pc'[p] = "idle" /\ intact /\ ~intact'
          => loc[p].seen < picks]_<<intact, pc>>
=============================================================================
