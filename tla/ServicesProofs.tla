--------------------------- MODULE ServicesProofs ---------------------------
(***************************************************************************)
(* Services: what the services beside the identity core promise, for any   *)
(* number of requests, of any mix of services at the same time.            *)
(*                                                                         *)
(* The services share the desk: control state and local variables of the   *)
(* requests.  A request is of one service from its first step to its last  *)
(* one, since the labels of the services differ; so each service keeps an  *)
(* invariant of its own state and requests, and the steps of the others    *)
(* leave it alone.                                                         *)
(***************************************************************************)
EXTENDS Services, KvProofs, FiniteSetTheorems, FunctionTheorems

\* The labels of each service, and between requests.
OperatorAt == {"idle", "persist", "challenge", "claim", "factor", "finalize", "restore", "restoreConsumed",
               "invalidate", "refresh", "lookup", "backoff", "backoffSet"}
WallpapersAt == {"idle", "fly", "fetch", "await", "flyImage", "awaitImage", "download"}
SettingsAt == {"idle", "loaded", "getRow", "getLook", "getImages", "fill", "dropCache", "forgetBatches", "admitted",
               "lockLook", "lockClear", "lockImage", "checkLook", "checkClear", "checkImage",
               "writeLook", "writeClear", "writeImage"}
AvatarsAt == {"idle", "uploadCommit", "selectCommit", "removeCommit", "refreshRead", "fetchAvatar", "activate",
              "putIcon", "dropIcon"}
OutboundAt == {"idle", "resolveHost", "dial", "respond"}
UpstreamAt == {"idle", "client", "build", "keepClient", "ask", "testStart", "callbackStore", "answer", "completeRead",
               "completeClaim", "testRun", "testSave", "recordLatest", "dropClients", "forgetLatest"}
DisclosureAt == {"idle", "userinfoAccount", "userinfoClient", "userinfoAccess", "userinfoPrincipal", "userinfoEmail",
                 "userinfoAnswer", "introspectToken", "introspectAccount", "introspectAnswer", "logoutRevoke"}

DeskOK == clock \in Nat /\ DOMAIN pc = Procs /\ DOMAIN loc = Procs

\* Only requests between labels of L move.
Moves(L) ==
    /\ clock' = clock
    /\ DOMAIN pc' = Procs /\ DOMAIN loc' = Procs
    /\ \A q \in Procs : \/ pc'[q] = pc[q] /\ loc'[q] = loc[q]
                        \/ pc[q] \in L /\ pc'[q] \in L

\* Request p goes on, between labels of L.
Step(p, L) ==
    /\ clock' = clock
    /\ pc[p] \in L /\ (\E l \in L : Goto(p, l))
    /\ UNCHANGED loc \/ \E v : Set(p, v)

LEMMA StepMoves ==
    ASSUME DeskOK, NEW L, NEW p \in Procs, Step(p, L)
    PROVE  Moves(L)
<1>1. PICK l \in L : Goto(p, l)  BY DEF Step
<1>2. CASE UNCHANGED loc  BY <1>1, <1>2 DEF Step, Moves, Goto, DeskOK
<1>3. CASE \E v : Set(p, v)
  <2>1. PICK v : Set(p, v)  BY <1>3
  <2> QED  BY <1>1, <2>1 DEF Step, Moves, Goto, Set, DeskOK
<1> QED  BY <1>2, <1>3 DEF Step

LEMMA QuietMoves ==
    ASSUME DeskOK, NEW L, clock' = clock, UNCHANGED <<pc, loc>>
    PROVE  Moves(L)
BY DEF Moves, DeskOK

LEMMA Element ==
    ASSUME NEW S, NEW s \in Seq(S), NEW i \in 1..Len(s)
    PROVE  s[i] \in S
OBVIOUS

-----------------------------------------------------------------------------
(* The steps of each service                                                 *)

LEMMA OperatorMoves ==
    ASSUME DeskOK, OperatorNext
    PROVE  Moves(OperatorAt)
<1>1. ASSUME NEW p \in Procs,
             \/ \E a \in Admins : OperatorStart(p, a) \/ \E c \in Challenges : VerifyGet(p, a, c)
             \/ \E c \in Challenges : PutChallenge(p, c)
      PROVE  Step(p, OperatorAt)
  BY <1>1, Zenon DEF OperatorStart, VerifyGet, PutChallenge, Step, OperatorAt, Idle, Done
<1>2. ASSUME NEW p \in Procs,
             \/ Claim(p) \/ SecondFactor(p) \/ Restore(p) \/ Finalize(p) \/ RestoreConsumed(p)
             \/ Persist(p) \/ PersistFails(p) \/ OperatorAbort(p)
      PROVE  Step(p, OperatorAt)
  BY <1>2, Zenon DEF Claim, SecondFactor, Restore, Finalize, RestoreConsumed, Persist, PersistFails, OperatorAbort,
     Step, OperatorAt, Done
<1>3. ASSUME NEW p \in Procs, Validate(p)
      PROVE  Step(p, OperatorAt)
  <2>1. CASE Useless(prov.enc)  BY <1>3, <2>1, Zenon DEF Validate, Step, OperatorAt, Idle
  <2>2. CASE ~Useless(prov.enc)  BY <1>3, <2>2, Zenon DEF Validate, Step, OperatorAt, Idle
  <2> QED  BY <2>1, <2>2
<1>4. ASSUME NEW p \in Procs,
             \/ PersistValidation(p) \/ InvalidateOperator(p)
             \/ LoadProvider(p) \/ PublishProof(p) \/ BackoffGet(p) \/ BackoffSet(p)
      PROVE  Step(p, OperatorAt)
  BY <1>4, Zenon DEF PersistValidation, InvalidateOperator, LoadProvider, PublishProof, BackoffGet, BackoffSet,
     Step, OperatorAt, Idle, Done
<1>5. ASSUME (\E l \in 1..MaxLogin : LoginEnds(l)) \/ (\E e \in 1..MaxSeal : SecretSpoils(e)) \/ DeleteProvider
      PROVE  Moves(OperatorAt)
  BY <1>5, QuietMoves DEF LoginEnds, SecretSpoils, DeleteProvider, desk
<1> QED  BY <1>1, <1>2, <1>3, <1>4, <1>5, StepMoves DEF OperatorNext

LEMMA LandMoves ==
    ASSUME DeskOK, NEW p \in Procs, NEW l \in WallpapersAt, pc[p] \in WallpapersAt, Land(p, l), clock' = clock
    PROVE  Moves(WallpapersAt)
BY DEF Land, Moves, WallpapersAt, DeskOK

LEMMA WallpapersMoves ==
    ASSUME DeskOK, WallpapersNext
    PROVE  Moves(WallpapersAt)
<1>1. ASSUME NEW p \in Procs, (\E k \in Batches : Cached(p, k)) \/ Fly(p) \/ FlyImage(p)
      PROVE  Step(p, WallpapersAt)
  BY <1>1, Zenon DEF Cached, Fly, FlyImage, Step, WallpapersAt, Idle, Done
<1>2. ASSUME NEW p \in Procs, NEW i \in Pictures, Image(p, i)
      PROVE  Moves(WallpapersAt)
  <2>1. CASE UNCHANGED <<pc, loc>>  BY <1>2, <2>1, QuietMoves DEF Image
  <2>2. CASE ~UNCHANGED <<pc, loc>>
    <3>1. Step(p, WallpapersAt)  BY <1>2, <2>2, Zenon DEF Image, Step, WallpapersAt, Idle
    <3> QED  BY <3>1, StepMoves
  <2> QED  BY <2>1, <2>2
<1>3. ASSUME NEW p \in Procs,
             (\E pics \in Fetched : FetchOk(p, pics)) \/ FetchFails(p) \/ DownloadOk(p) \/ DownloadFails(p)
      PROVE  Moves(WallpapersAt)
  <2>1. pc[p] \in WallpapersAt /\ clock' = clock /\ \E l \in WallpapersAt : Land(p, l)
    BY <1>3, Zenon DEF FetchOk, FetchFails, DownloadOk, DownloadFails, WallpapersAt
  <2> QED  BY <2>1, LandMoves
<1> QED  BY <1>1, <1>2, <1>3, StepMoves DEF WallpapersNext

LEMMA SettingsMoves ==
    ASSUME DeskOK, SettingsNext
    PROVE  Moves(SettingsAt)
<1>1. ASSUME NEW p \in Procs,
             \/ MaintenanceGate(p) \/ MaintenanceLockout(p) \/ HandleGetPublicConfig(p)
             \/ GetRow(p) \/ GetLoginAppearance(p) \/ ListLoginBackgroundImages(p) \/ GetFails(p) \/ Fill(p)
             \/ Admit(p) \/ Answered(p) \/ Invalidate(p)
      PROVE  Step(p, SettingsAt)
  BY <1>1, Zenon DEF MaintenanceGate, MaintenanceLockout, HandleGetPublicConfig, GetRow, GetLoginAppearance,
     ListLoginBackgroundImages, GetFails, Fill, Admit, Answered, Invalidate, LoadFor, Step, SettingsAt, Idle, Done
<1>2. ASSUME NEW p \in Procs,
             \/ \E n \in Names : HandlePutInstanceName(p, n) \/ HandlePutInstanceIcon(p, n)
             \/ HandleDeleteInstanceIcon(p)
             \/ \E on \in BOOLEAN : HandlePutMaintenance(p, on)
             \/ \E i \in gallery : HandleDeleteLoginImage(p, i)
      PROVE  Step(p, SettingsAt)
  BY <1>2, Zenon DEF HandlePutInstanceName, HandlePutInstanceIcon, HandleDeleteInstanceIcon, HandlePutMaintenance,
     HandleDeleteLoginImage, Change, Step, SettingsAt, Idle
<1>3. ASSUME NEW p \in Procs,
             \/ \E src \in (KeyedSources \cap ops) \cup {"none"}, new \in SUBSET (KeyedSources \cap ops) :
                   HandlePutLoginAppearance(p, src, new)
             \/ \E src \in KeyedSources \cap ops : HandleDeleteKey(p, src)
             \/ KeyRequired(p) \/ HandlePostLoginImage(p) \/ ForgetBatches(p)
      PROVE  Step(p, SettingsAt)
  BY <1>3, Zenon DEF HandlePutLoginAppearance, HandleDeleteKey, KeyRequired, HandlePostLoginImage, ForgetBatches,
     LoadFor, Step, SettingsAt, Idle, Done
<1>4. ASSUME NEW p \in Procs, LockInstanceSettings(p)
      PROVE  Step(p, SettingsAt)
  <2>1. pc[p] \in {"lockLook", "lockClear", "lockImage"} /\ Locks[pc[p]] \in {"checkLook", "checkClear", "checkImage"}
    BY <1>4 DEF LockInstanceSettings, Locks
  <2> QED  BY <1>4, <2>1, Zenon DEF LockInstanceSettings, Step, SettingsAt
<1>5. ASSUME NEW p \in Procs,
             \/ CheckLook(p) \/ CheckClear(p) \/ CheckImage(p)
             \/ SetLoginAppearance(p) \/ ClearWallpaperKey(p) \/ InsertLoginBackgroundImage(p)
      PROVE  Step(p, SettingsAt)
  BY <1>5, Zenon DEF CheckLook, CheckClear, CheckImage, SetLoginAppearance, ClearWallpaperKey,
     InsertLoginBackgroundImage, Decide, Commit, Step, SettingsAt
<1> QED  BY <1>1, <1>2, <1>3, <1>4, <1>5, StepMoves DEF SettingsNext

LEMMA AvatarsMoves ==
    ASSUME DeskOK, AvatarsNext
    PROVE  Moves(AvatarsAt)
<1>1. ASSUME NEW p \in Procs,
             \/ \E pic \in Shots : UploadRead(p, pic)
             \/ UploadCommit(p)
             \/ \E s \in Sources \cup {"none"} : SelectRead(p, s)
             \/ SelectCommit(p) \/ DeleteLoad(p) \/ DeleteCommit(p)
             \/ FetchAvatar(p) \/ RefreshRead(p) \/ Activate(p)
             \/ \E o \in Upstreams : IconOwner(p, o) \/ DeleteOwner(p, o)
             \/ SetEntityIcon(p) \/ DropIcon(p)
      PROVE  Step(p, AvatarsAt)
  BY <1>1, Zenon DEF UploadRead, UploadCommit, SelectRead, SelectCommit, DeleteLoad, DeleteCommit, FetchAvatar,
     RefreshRead, Activate, IconOwner, DeleteOwner, SetEntityIcon, DropIcon, Step, AvatarsAt, Idle, Done
<1>2. ASSUME NEW p \in Procs, NEW pic \in Shots, NEW s \in Upstreams, RefreshList(p, s, pic)
      PROVE  Step(p, AvatarsAt)
  <2>1. CASE stored[s] = pic  BY <1>2, <2>1, Zenon DEF RefreshList, Step, AvatarsAt, Idle
  <2>2. CASE stored[s] # pic  BY <1>2, <2>2, Zenon DEF RefreshList, Step, AvatarsAt, Idle
  <2> QED  BY <2>1, <2>2
<1>3. ASSUME NEW p \in Procs, NEW o \in Upstreams, DeleteEntityIcon(p, o)
      PROVE  Moves(AvatarsAt)
  BY <1>3, QuietMoves DEF DeleteEntityIcon, desk
<1> QED  BY <1>1, <1>2, <1>3, StepMoves DEF AvatarsNext

LEMMA OutboundMoves ==
    ASSUME DeskOK, OutboundNext
    PROVE  Moves(OutboundAt)
<1>1. ASSUME NEW p \in Procs,
             (\E u \in Urls, private \in BOOLEAN : StartTrip(p, u, private)) \/ Lookup(p) \/ Dial(p) \/ Respond(p)
      PROVE  Step(p, OutboundAt)
  BY <1>1, Zenon DEF StartTrip, Lookup, Dial, Respond, Step, OutboundAt, Idle, Done
<1> QED  BY <1>1, StepMoves DEF OutboundNext

LEMMA UpstreamMoves ==
    ASSUME DeskOK, UpstreamNext
    PROVE  Moves(UpstreamAt)
<1>1. ASSUME NEW p \in Procs,
             \/ SignInBegin(p) \/ Client(p) \/ Build(p) \/ KeepClient(p) \/ BeginStored(p) \/ SignInExchange(p)
             \/ \E w \in Testers :
                   \/ TestLoad(p, w)
                   \/ \E f \in Flow : CompleteLoad(p, f, w) \/ \E ok \in BOOLEAN : CallbackRead(p, f, w, ok)
      PROVE  Step(p, UpstreamAt)
  BY <1>1, Zenon DEF SignInBegin, Client, Build, KeepClient, BeginStored, SignInExchange, TestLoad, CompleteLoad,
     CallbackRead, Step, UpstreamAt, Idle, Done
<1>2. ASSUME NEW p \in Procs, NEW s \in signIns, SignInAdvance(p, s)
      PROVE  Step(p, UpstreamAt) \/ (clock' = clock /\ UNCHANGED <<pc, loc>>)
  BY <1>2, Zenon DEF SignInAdvance, Step, UpstreamAt, Idle, frame
<1>3. ASSUME NEW p \in Procs, CallbackStore(p) \/ CompleteClaim(p) \/ TestSave(p)
      PROVE  Step(p, UpstreamAt)
  <2>1. CASE loc[p].ok  BY <1>3, <2>1, Zenon DEF CallbackStore, CompleteClaim, TestSave, Swap, Step, UpstreamAt, Done
  <2>2. CASE ~loc[p].ok  BY <1>3, <2>2, Zenon DEF CallbackStore, CompleteClaim, TestSave, Swap, Step, UpstreamAt, Done
  <2> QED  BY <2>1, <2>2
<1>4. ASSUME NEW p \in Procs,
             \/ TestStart(p) \/ CallbackAnswer(p) \/ CompleteRead(p) \/ TestRun(p)
             \/ RecordLatest(p) \/ UpstreamCrash(p)
             \/ \E c \in Configs : SaveConfig(p, c)
             \/ InvalidateClientCache(p) \/ RemoveProvider(p) \/ ForgetLatest(p)
      PROVE  Step(p, UpstreamAt)
  BY <1>4, Zenon DEF TestStart, CallbackAnswer, CompleteRead, TestRun, RecordLatest, UpstreamCrash, SaveConfig,
     InvalidateClientCache, RemoveProvider, ForgetLatest, Step, UpstreamAt, Idle, Done
<1>5. ASSUME \/ \E d \in Documents : Rediscover(d)
             \/ \E p \in Procs : RotateProviderSecret(p) \/ \E c \in Configs : ReplaceProvider(p, c)
      PROVE  clock' = clock /\ UNCHANGED <<pc, loc>>
  BY <1>5, Zenon DEF Rediscover, RotateProviderSecret, ReplaceProvider, desk
<1> QED  BY <1>1, <1>2, <1>3, <1>4, <1>5, StepMoves, QuietMoves DEF UpstreamNext

\* DisclosureTick is a tick of the clock; the other changes of the world leave requests alone.
LEMMA DisclosureMoves ==
    ASSUME DeskOK, DisclosureNext, ~DisclosureTick
    PROVE  Moves(DisclosureAt)
<1>1. ASSUME NEW p \in Procs, NEW t \in Jtis, HandleUserinfo(p, t) \/ HandleIntrospect(p, t) \/ HandleLogout(p, t)
      PROVE  Step(p, DisclosureAt)
  BY <1>1, Zenon DEF HandleUserinfo, HandleIntrospect, HandleLogout, Begin, Step, DisclosureAt, Idle
<1>2. ASSUME NEW p \in Procs,
             \/ UserinfoAccount(p) \/ UserinfoClient(p) \/ UserinfoAccess(p) \/ UserinfoPrincipal(p)
             \/ UserinfoEmail(p) \/ UserinfoAnswer(p)
             \/ IntrospectToken(p) \/ IntrospectAccount(p) \/ IntrospectAnswer(p) \/ LogoutRevoke(p)
      PROVE  Step(p, DisclosureAt)
  BY <1>2, Zenon DEF UserinfoAccount, UserinfoClient, UserinfoAccess, UserinfoPrincipal, UserinfoEmail, UserinfoAnswer,
     IntrospectToken, IntrospectAccount, IntrospectAnswer, LogoutRevoke, Step, DisclosureAt, Quit, Done
<1>3. ASSUME NEW t \in Jtis,
             \/ RevokeToken(t) \/ RotateFamily(t)
             \/ \E a \in Holders, c \in Rps, kind \in {"accessToken", "idToken", "refreshToken"}, s \in Grants :
                   Mint(t, a, c, kind, s)
      PROVE  clock' = clock /\ UNCHANGED <<pc, loc>>
  BY <1>3, Zenon DEF RevokeToken, RotateFamily, Mint, Watch, desk
<1>4. ASSUME NEW a \in Holders,
             \/ SetDisabled(a) \/ Unlink(a)
             \/ \E n \in Usernames : Rename(a, n)
             \/ \E e \in Addresses \cup {None} : SetEmail(a, e)
             \/ \E c \in Rps : SetAccess(a, c)
      PROVE  clock' = clock /\ UNCHANGED <<pc, loc>>
  BY <1>4, Zenon DEF SetDisabled, Unlink, Rename, SetEmail, SetAccess, Watch, desk
<1>5. ASSUME NEW c \in Rps,
             \/ RotateSecret(c) \/ SetClientDisabled(c)
             \/ \E s \in {"sub", "username", "verified_email", "groups"}, x \in AliasSets : UpdateProjection(c, s, x)
      PROVE  clock' = clock /\ UNCHANGED <<pc, loc>>
  BY <1>5, Zenon DEF RotateSecret, SetClientDisabled, UpdateProjection, Watch, desk
<1> QED  BY <1>1, <1>2, <1>3, <1>4, <1>5, StepMoves, QuietMoves DEF DisclosureNext

-----------------------------------------------------------------------------
(* What a service sees of the others                                         *)

\* Requests at labels of L, but for "idle", stay where they are and none joins them.
Apart(L) ==
    /\ clock' = clock \/ clock' = clock + 1
    /\ \A q \in Procs : pc[q] \in L \ {"idle"} \/ pc'[q] \in L \ {"idle"} => pc'[q] = pc[q] /\ loc'[q] = loc[q]

LEMMA MovesApart ==
    ASSUME NEW L, NEW M, L \cap M \subseteq {"idle"}, Moves(M)
    PROVE  Apart(L)
BY DEF Moves, Apart

LEMMA QuietApart ==
    ASSUME NEW L, clock' = clock \/ clock' = clock + 1, UNCHANGED <<pc, loc>>
    PROVE  Apart(L)
BY DEF Apart

\* The labels of two services differ.
LEMMA LabelsDiffer ==
    /\ OperatorAt \cap (WallpapersAt \cup SettingsAt \cup AvatarsAt \cup OutboundAt \cup UpstreamAt \cup DisclosureAt) = {"idle"}
    /\ WallpapersAt \cap (SettingsAt \cup AvatarsAt \cup OutboundAt \cup UpstreamAt \cup DisclosureAt) = {"idle"}
    /\ SettingsAt \cap (AvatarsAt \cup OutboundAt \cup UpstreamAt \cup DisclosureAt) = {"idle"}
    /\ AvatarsAt \cap (OutboundAt \cup UpstreamAt \cup DisclosureAt) = {"idle"}
    /\ OutboundAt \cap (UpstreamAt \cup DisclosureAt) = {"idle"}
    /\ UpstreamAt \cap DisclosureAt = {"idle"}
BY DEF OperatorAt, WallpapersAt, SettingsAt, AvatarsAt, OutboundAt, UpstreamAt, DisclosureAt

\* A step is one of a service with state, and then only its requests move, or a quiet one.
LEMMA ServiceStep ==
    ASSUME DeskOK, [Next]_vars
    PROVE  /\ DeskOK'
           /\ \/ OperatorNext /\ Moves(OperatorAt) /\ UNCHANGED <<wallpaperVars, settingsVars, avatarVars, upstreamVars, disclosureVars>>
              \/ WallpapersNext /\ Moves(WallpapersAt) /\ UNCHANGED <<operatorVars, settingsVars, avatarVars, upstreamVars, disclosureVars>>
              \/ SettingsNext /\ Moves(SettingsAt) /\ UNCHANGED <<operatorVars, avatarVars, upstreamVars, disclosureVars>>
              \/ AvatarsNext /\ Moves(AvatarsAt) /\ UNCHANGED <<operatorVars, wallpaperVars, settingsVars, upstreamVars, disclosureVars>>
              \/ OutboundNext /\ Moves(OutboundAt) /\ UNCHANGED <<operatorVars, wallpaperVars, settingsVars, avatarVars, upstreamVars, disclosureVars>>
              \/ UpstreamNext /\ Moves(UpstreamAt) /\ UNCHANGED <<operatorVars, wallpaperVars, settingsVars, avatarVars, disclosureVars>>
              \/ DisclosureNext /\ Moves(DisclosureAt) /\ UNCHANGED <<operatorVars, wallpaperVars, settingsVars, avatarVars, upstreamVars>>
              \/ /\ clock' = clock \/ clock' = clock + 1
                 /\ UNCHANGED <<pc, loc, operatorVars, wallpaperVars, settingsVars, avatarVars, upstreamVars>>
                 /\ DisclosureTick \/ UNCHANGED disclosureVars
<1>1. \A L : Moves(L) => DeskOK'  BY DEF Moves, DeskOK
<1>2. CASE "listing" \in ops /\ ListingNext /\ UNCHANGED <<desk, operatorVars, wallpaperVars, settingsVars, avatarVars, upstreamVars, disclosureVars>>
  BY <1>2 DEF desk, DeskOK
<1>3. CASE OperatorNext /\ UNCHANGED <<listingVars, wallpaperVars, settingsVars, avatarVars, upstreamVars, disclosureVars>>
  BY <1>1, <1>3, OperatorMoves
<1>4. CASE WallpapersNext /\ UNCHANGED <<listingVars, operatorVars, settingsVars, avatarVars, upstreamVars, disclosureVars>>
  BY <1>1, <1>4, WallpapersMoves
<1>5. CASE SettingsNext /\ UNCHANGED <<listingVars, operatorVars, avatarVars, upstreamVars, disclosureVars>>
  BY <1>1, <1>5, SettingsMoves
<1>6. CASE AvatarsNext /\ UNCHANGED <<listingVars, operatorVars, wallpaperVars, settingsVars, upstreamVars, disclosureVars>>
  BY <1>1, <1>6, AvatarsMoves
<1>7. CASE OutboundNext /\ UNCHANGED <<listingVars, operatorVars, wallpaperVars, settingsVars, avatarVars, upstreamVars, disclosureVars>>
  BY <1>1, <1>7, OutboundMoves
<1>8. CASE UpstreamNext /\ UNCHANGED <<listingVars, operatorVars, wallpaperVars, settingsVars, avatarVars, disclosureVars>>
  BY <1>1, <1>8, UpstreamMoves
<1>9. CASE DisclosureNext /\ UNCHANGED <<listingVars, operatorVars, wallpaperVars, settingsVars, avatarVars, upstreamVars>>
  <2>1. CASE DisclosureTick  BY <1>9, <2>1 DEF DisclosureTick, Watch, DeskOK
  <2>2. CASE ~DisclosureTick  BY <1>1, <1>9, <2>2, DisclosureMoves
  <2> QED  BY <2>1, <2>2
<1>10. CASE Tick  BY <1>10 DEF Tick, DeskOK
<1>11. CASE UNCHANGED vars  BY <1>11 DEF vars, desk, DeskOK
<1> QED  BY <1>2, <1>3, <1>4, <1>5, <1>6, <1>7, <1>8, <1>9, <1>10, <1>11 DEF Next

\* What each service sees: its own steps, and steps apart.
LEMMA OutboundStep ==
    ASSUME DeskOK, [Next]_vars
    PROVE  OutboundNext \/ Apart(OutboundAt)
BY ServiceStep, MovesApart, QuietApart, LabelsDiffer

LEMMA OperatorStep ==
    ASSUME DeskOK, [Next]_vars
    PROVE  \/ OperatorNext /\ clock' = clock
           \/ Apart(OperatorAt) /\ UNCHANGED operatorVars
BY ServiceStep, MovesApart, QuietApart, LabelsDiffer DEF Moves

LEMMA AvatarsStep ==
    ASSUME DeskOK, [Next]_vars
    PROVE  AvatarsNext \/ (Apart(AvatarsAt) /\ UNCHANGED avatarVars)
BY ServiceStep, MovesApart, QuietApart, LabelsDiffer

LEMMA UpstreamStep ==
    ASSUME DeskOK, [Next]_vars
    PROVE  \/ UpstreamNext /\ clock' = clock
           \/ Apart(UpstreamAt) /\ UNCHANGED upstreamVars
BY ServiceStep, MovesApart, QuietApart, LabelsDiffer DEF Moves

LEMMA SettingsStep ==
    ASSUME DeskOK, [Next]_vars
    PROVE  \/ SettingsNext /\ Moves(SettingsAt)
           \/ WallpapersNext /\ Apart(SettingsAt) /\ UNCHANGED settingsVars
           \/ Apart(SettingsAt) /\ Apart(WallpapersAt) /\ UNCHANGED <<settingsVars, wallpaperVars>>
<1> USE ServiceStep, LabelsDiffer
<1>1. CASE WallpapersNext /\ Moves(WallpapersAt) /\ UNCHANGED settingsVars  BY <1>1, MovesApart
<1>2. CASE OperatorNext /\ Moves(OperatorAt) /\ UNCHANGED <<wallpaperVars, settingsVars>>  BY <1>2, MovesApart
<1>3. CASE AvatarsNext /\ Moves(AvatarsAt) /\ UNCHANGED <<wallpaperVars, settingsVars>>  BY <1>3, MovesApart
<1>4. CASE OutboundNext /\ Moves(OutboundAt) /\ UNCHANGED <<wallpaperVars, settingsVars>>  BY <1>4, MovesApart
<1>5. CASE UpstreamNext /\ Moves(UpstreamAt) /\ UNCHANGED <<wallpaperVars, settingsVars>>  BY <1>5, MovesApart
<1>6. CASE DisclosureNext /\ Moves(DisclosureAt) /\ UNCHANGED <<wallpaperVars, settingsVars>>  BY <1>6, MovesApart
<1> QED  BY <1>1, <1>2, <1>3, <1>4, <1>5, <1>6, QuietApart

LEMMA DeskInit == Init => DeskOK
BY DEF Init, DeskOK

LEMMA DeskStep == DeskOK /\ [Next]_vars => DeskOK'
BY ServiceStep

-----------------------------------------------------------------------------
(* Outbound calls                                                            *)

Trips == [private : BOOLEAN, via : Seq(Urls), addrs : SUBSET Classes, to : Classes \cup {None}]

\* A call where it is contained.
Contained(l) ==
    /\ l \in Trips /\ l.via # <<>> /\ Len(l.via) <= MaxRedirects
    /\ l.to \in {None, "public"} \cup (IF l.private THEN {"private"} ELSE {})
    /\ \A i \in 1..(Len(l.via) - 1) : l.via[i].scheme = "https" => l.via[i + 1].scheme = "https"

TripInv == \A p \in Procs : pc[p] \in OutboundAt \ {"idle"} => Contained(loc[p])

\* A step of one call that leaves it contained, or ends it.
LEMMA TripStep ==
    ASSUME DeskOK, TripInv, NEW p \in Procs, NEW l, NEW v, Goto(p, l), Set(p, v), l = "idle" \/ Contained(v)
    PROVE  TripInv'
BY DEF DeskOK, TripInv, Goto, Set, OutboundAt

LEMMA TripInvStep ==
    ASSUME DeskOK, TripInv, [Next]_vars
    PROVE  TripInv'
<1>1. CASE Apart(OutboundAt)  BY <1>1 DEF Apart, TripInv
<1>2. ASSUME NEW p \in Procs, Done(p)
      PROVE  TripInv'
  BY <1>2, TripStep DEF Done
<1>3. ASSUME NEW p \in Procs, NEW u \in Urls, NEW private \in BOOLEAN, StartTrip(p, u, private)
      PROVE  TripInv'
  <2> DEFINE v == [NoTrip EXCEPT !.private = private, !.via = <<u>>]
  <2>1. NoTrip \in Trips /\ NoTrip.to = None /\ <<u>> \in Seq(Urls)  BY DEF NoTrip, Trips
  <2>2. v \in Trips /\ v.via = <<u>> /\ v.to = None  BY <2>1 DEF Trips
  <2>3. Contained(v)
    <3>1. Len(<<u>>) = 1 /\ <<u>> # <<>>  OBVIOUS
    <3> HIDE DEF v
    <3> QED  BY <2>2, <3>1, OutboundAssumption DEF Contained
  <2> QED  BY <1>3, <2>3, TripStep DEF StartTrip
<1>4. ASSUME NEW p \in Procs, Lookup(p)
      PROVE  TripInv'
  <2> DEFINE l == loc[p]
  <2>1. Contained(l)  BY <1>4 DEF Lookup, TripInv, OutboundAt
  <2>2. ASSUME NEW A \in SUBSET Classes
        PROVE  Contained([l EXCEPT !.addrs = A])
    BY <2>1, <2>2 DEF Contained, Trips
  <2>3. CASE Literal(Last(l.via))
    <3>1. {Last(l.via).host} \in SUBSET Classes  BY <2>3 DEF Literal
    <3> QED  BY <1>4, <2>2, <2>3, <3>1, TripStep DEF Lookup
  <2>4. CASE ~Literal(Last(l.via))
    <3>1. PICK A \in SUBSET Classes : (Goto(p, "dial") /\ Set(p, [l EXCEPT !.addrs = A])) \/ Done(p)
      BY <1>4, <2>4, Zenon DEF Lookup
    <3> QED  BY <1>2, <2>2, <3>1, TripStep
  <2> QED  BY <2>3, <2>4
<1>5. ASSUME NEW p \in Procs, Dial(p)
      PROVE  TripInv'
  <2> DEFINE l == loc[p]
  <2>1. Contained(l)  BY <1>5 DEF Dial, TripInv, OutboundAt
  <2>2. PICK a \in l.addrs : IF IpDestinationAllowed(a, l.private)
                             THEN Goto(p, "respond") /\ Set(p, [l EXCEPT !.to = a]) ELSE Done(p)
    BY <1>5, Zenon DEF Dial
  <2>3. CASE IpDestinationAllowed(a, l.private)
    <3>1. a \in Classes /\ a \in {"public"} \cup (IF l.private THEN {"private"} ELSE {})
      BY <2>1, <2>3 DEF Contained, Trips, IpDestinationAllowed
    <3>2. Contained([l EXCEPT !.to = a])  BY <2>1, <3>1 DEF Contained, Trips
    <3> QED  BY <2>2, <2>3, <3>2, TripStep
  <2> QED  BY <1>2, <2>2, <2>3
<1>6. ASSUME NEW p \in Procs, Respond(p)
      PROVE  TripInv'
  <2> DEFINE l == loc[p]
  <2>1. Contained(l)  BY <1>6 DEF Respond, TripInv, OutboundAt
  <2>2. ASSUME NEW u \in Urls, Len(l.via) < MaxRedirects, ValidateRedirectScheme(u, l.via, l.private),
               Goto(p, "resolveHost"), Set(p, [l EXCEPT !.via = Append(@, u), !.addrs = {}, !.to = None])
        PROVE  TripInv'
    <3> DEFINE w == Append(l.via, u)
               v == [l EXCEPT !.via = w, !.addrs = {}, !.to = None]
    <3>1. l.via \in Seq(Urls) /\ l.private \in BOOLEAN /\ Len(l.via) \in Nat \ {0}  BY <2>1 DEF Contained, Trips
    <3>2. w \in Seq(Urls) /\ Len(w) = Len(l.via) + 1 /\ w[Len(l.via) + 1] = u
          /\ \A i \in 1..Len(l.via) : w[i] = l.via[i]
      BY <3>1
    <3>3. l.via[Len(l.via)].scheme = "https" => u.scheme = "https"
      BY <2>2 DEF ValidateRedirectScheme, ValidateOutboundURL, Last
    <3>4. \A i \in 1..(Len(w) - 1) : w[i].scheme = "https" => w[i + 1].scheme = "https"
      <4> SUFFICES ASSUME NEW i \in 1..(Len(w) - 1), w[i].scheme = "https"
                   PROVE  w[i + 1].scheme = "https"
        OBVIOUS
      <4>1. CASE i = Len(l.via)  BY <3>1, <3>2, <3>3, <4>1
      <4>2. CASE i # Len(l.via)
        <5>1. i \in 1..(Len(l.via) - 1) /\ i + 1 \in 1..Len(l.via)  BY <3>1, <3>2, <4>2
        <5> QED  BY <2>1, <3>2, <5>1 DEF Contained
      <4> QED  BY <4>1, <4>2
    <3>5. Len(w) <= MaxRedirects /\ w # <<>>  BY <2>2, <3>1, <3>2, OutboundAssumption
    <3>6. v.via = w /\ v.to = None /\ v.private = l.private /\ v \in Trips
      <4> HIDE DEF w
      <4> QED  BY <2>1, <3>2 DEF Contained, Trips
    <3>7. Contained(v)
      <4> HIDE DEF w, v
      <4> QED  BY <3>4, <3>5, <3>6 DEF Contained
    <3> QED  BY <2>2, <3>7, TripStep
  <2> QED  BY <1>2, <1>6, <2>2 DEF Respond
<1> QED  BY <1>1, <1>3, <1>4, <1>5, <1>6, OutboundStep DEF OutboundNext

\* Whatever names resolve to and wherever servers redirect to, a call reaches no address
\* of a class it may not reach, is not sent back from https to http and ends
\* (screenedDialContext, screenDialControl, checkRedirect in federation's http client).
THEOREM OutboundCallsContained == Spec => []OutboundContained
<1>1. Init => TripInv  BY DEF Init, TripInv, OutboundAt
<1>2. DeskOK /\ TripInv /\ [Next]_vars => DeskOK' /\ TripInv'  BY DeskStep, TripInvStep
<1>3. TripInv => OutboundContained  BY DEF TripInv, OutboundContained, Contained, OutboundAt
<1> QED  BY <1>1, <1>2, <1>3, DeskInit, PTL DEF Spec

-----------------------------------------------------------------------------
(* The operator session                                                      *)

ProviderRows == [id : 0..MaxProvider, enc : Nat, st : {"none", "valid", "invalid"}]
Pending == [st : {"ready", "verifying", "consumed"}, id : Nat, by : Admins, login : Nat, exp : Nat]
Jobs == [by : Admins \cup {None}, c : Challenges \cup {None}, prov : ProviderRows, login : Nat,
         raw : Pending \cup Nat \cup {None}, retry : Nat, till : Nat]

\* What a request at label l knows in its local variables v, when s was sealed so far,
\* the logins and secrets of d are of no use and the clock is at now.  The secret a request
\* goes to declare invalid is one of no use; a backoff it goes to store ends no later
\* than its key's lifetime, and later than the one it replaces.
JobOK(l, v, s, d, now) ==
    /\ v \in Jobs /\ v.prov.id \in 1..MaxProvider
    /\ l \in {"claim", "factor", "finalize", "restore", "restoreConsumed"} => v.c \in Challenges /\ v.raw \in Pending
    /\ l = "persist" => v.c = None \/ (v.c \in Challenges /\ v.raw \in Pending)
    /\ l = "challenge" => v.by \in Admins
    /\ l \in {"lookup", "invalidate"} => v.prov.enc \in 1..Len(s)
    /\ l = "lookup" => v.login = s[v.prov.enc].login
    /\ l = "invalidate" => <<"login", s[v.prov.enc].login>> \in d \/ <<"secret", v.prov.enc>> \in d
    /\ l \in {"backoff", "backoffSet"} => v.till <= now + v.retry
    /\ l = "backoffSet" => v.raw = None \/ (v.raw \in Nat /\ v.raw < v.till)

JobsInv == \A p \in Procs : pc[p] \in OperatorAt \ {"idle"} => JobOK(pc[p], loc[p], seals, dead, clock)

SecretInv ==
    /\ prov \in ProviderRows /\ prov.id \in 1..MaxProvider
    /\ seals \in Seq([login : Nat, id : Nat]) /\ logins \in Nat
    /\ prov.enc \in 0..Len(seals)
    /\ OperatorSecretFits

\* A promised backoff is covered by the stored one, whose key lives as long as it (no cell
\* that was written expires at 0).
BackInv ==
    /\ back \in [1..MaxProvider -> Cells(Nat)] /\ promised \subseteq (1..MaxProvider) \X Nat
    /\ \A i \in 1..MaxProvider : back[i].exp # 0 => back[i].val <= back[i].exp
    /\ \A y \in promised : clock < y[2] => back[y[1]].exp # 0 /\ y[2] <= back[y[1]].val

ChalInv == chal \in [Challenges -> Cells(Pending)]

OperatorInv == SecretInv /\ BackInv /\ ChalInv /\ JobsInv

\* Time passes, logins end, secrets are sealed: what requests know stays true.
Grown ==
    /\ clock' = clock \/ clock' = clock + 1
    /\ dead \subseteq dead'
    /\ seals \in Seq([login : Nat, id : Nat]) /\ seals' \in Seq([login : Nat, id : Nat]) /\ Len(seals) <= Len(seals')
    /\ \A i \in 1..Len(seals) : seals'[i] = seals[i]

LEMMA JobKept ==
    ASSUME DeskOK, Grown, NEW l, NEW v, JobOK(l, v, seals, dead, clock)
    PROVE  JobOK(l, v, seals', dead', clock')
<1>1. Len(seals) \in Nat /\ Len(seals') \in Nat  BY DEF Grown
<1>2. v \in Jobs /\ v.till \in Nat /\ v.retry \in Nat  BY DEF JobOK, Jobs
<1>3. l \in {"lookup", "invalidate"} => v.prov.enc \in 1..Len(seals') /\ seals'[v.prov.enc] = seals[v.prov.enc]
  <2> DEFINE e == v.prov.enc
  <2>1. l \in {"lookup", "invalidate"} => e \in 1..Len(seals)  BY Zenon DEF JobOK
  <2>2. Len(seals) <= Len(seals') /\ \A i \in 1..Len(seals) : seals'[i] = seals[i]  BY DEF Grown
  <2> HIDE DEF e
  <2>3. l \in {"lookup", "invalidate"} => e \in 1..Len(seals') /\ seals'[e] = seals[e]  BY <1>1, <2>1, <2>2
  <2> QED  BY <2>3 DEF e
<1>4. v.till <= clock + v.retry => v.till <= clock' + v.retry  BY <1>2 DEF Grown, DeskOK
<1> QED  BY <1>3, <1>4 DEF JobOK, Grown

LEMMA JobsMove ==
    ASSUME DeskOK, JobsInv, Grown, NEW p \in Procs, NEW l, NEW v, Goto(p, l), Set(p, v),
           l = "idle" \/ JobOK(l, v, seals', dead', clock')
    PROVE  JobsInv'
<1> SUFFICES ASSUME NEW q \in Procs, pc'[q] \in OperatorAt \ {"idle"}
             PROVE  JobOK(pc'[q], loc'[q], seals', dead', clock')
  BY DEF JobsInv
<1>1. pc'[p] = l /\ loc'[p] = v /\ (q # p => pc'[q] = pc[q] /\ loc'[q] = loc[q])  BY DEF Goto, Set, DeskOK
<1>2. CASE q = p  BY <1>1, <1>2
<1>3. CASE q # p  BY <1>1, <1>3, JobKept DEF JobsInv
<1> QED  BY <1>2, <1>3

LEMMA JobsGoto ==
    ASSUME DeskOK, JobsInv, Grown, NEW p \in Procs, NEW l, Goto(p, l), UNCHANGED loc,
           l = "idle" \/ JobOK(l, loc[p], seals', dead', clock')
    PROVE  JobsInv'
<1> SUFFICES ASSUME NEW q \in Procs, pc'[q] \in OperatorAt \ {"idle"}
             PROVE  JobOK(pc'[q], loc'[q], seals', dead', clock')
  BY DEF JobsInv
<1>1. pc'[p] = l /\ loc' = loc /\ (q # p => pc'[q] = pc[q])  BY DEF Goto, DeskOK
<1>2. CASE q = p  BY <1>1, <1>2
<1>3. CASE q # p  BY <1>1, <1>3, JobKept DEF JobsInv
<1> QED  BY <1>2, <1>3

LEMMA JobsDone ==
    ASSUME DeskOK, JobsInv, Grown, NEW p \in Procs, Done(p)
    PROVE  JobsInv'
BY JobsMove DEF Done

LEMMA EmptyJob ==
    Empty \in Jobs /\ Empty.c = None /\ Empty.raw = None
BY OperatorAssumption DEF Empty, Jobs, NoProv, ProviderRows

\* A step that neither seals nor stores a backoff.
LEMMA OperatorStill ==
    ASSUME DeskOK, OperatorInv, UNCHANGED <<prov, seals, back, promised>>, logins' \in Nat, dead \subseteq dead',
           clock' = clock \/ clock' = clock + 1
    PROVE  Grown /\ SecretInv' /\ BackInv'
<1>1. Grown  BY DEF OperatorInv, SecretInv, Grown, DeskOK
<1>2. SecretInv'  BY DEF OperatorInv, SecretInv, OperatorSecretFits, Useless
<1>3. BackInv'
  <2>1. \A y \in promised : clock' < y[2] => clock < y[2]  BY DEF OperatorInv, BackInv, DeskOK
  <2> QED  BY <2>1 DEF OperatorInv, BackInv
<1> QED  BY <1>1, <1>2, <1>3

\* A request that only changes its challenge.
LEMMA SwapTyped ==
    ASSUME DeskOK, OperatorInv, NEW c \in Challenges, NEW old, NEW new \in Pending, clock < new.exp
    PROVE  SwapChallenge(c, old, new) \in [Challenges -> Cells(Pending)]
<1>1. new.exp \in Nat /\ clock \in Nat  BY DEF Pending, DeskOK
<1>2. new.exp - clock \in Nat  BY <1>1
<1> QED  BY <1>1, <1>2, CompareAndSwapTyped DEF SwapChallenge, OperatorInv, ChalInv

LEMMA AsPending ==
    ASSUME NEW v \in Pending, NEW st \in {"ready", "verifying", "consumed"}
    PROVE  As(v, st) \in Pending /\ As(v, st).exp = v.exp
BY DEF As, Pending

\* Appending a secret keeps the ones there are.
LEMMA SealGrows ==
    ASSUME DeskOK, SecretInv, NEW n \in Nat, NEW i \in Nat, seals' = Seal(n, i), UNCHANGED <<clock, dead>>
    PROVE  /\ Grown /\ Len(seals') = Len(seals) + 1 /\ Len(seals) \in Nat
           /\ seals'[Len(seals) + 1].login = n /\ seals'[Len(seals) + 1].id = i
<1> DEFINE x == [login |-> n, id |-> i]
<1>1. seals \in Seq([login : Nat, id : Nat]) /\ x \in [login : Nat, id : Nat] /\ x.login = n /\ x.id = i
  BY DEF SecretInv
<1>2. seals' = Append(seals, x)  BY DEF Seal
<1> HIDE DEF x
<1> QED  BY <1>1, <1>2 DEF Grown

\* Storing the secret that was just sealed for the row's own id, or leaving the row alone.
LEMMA StoreFits ==
    ASSUME DeskOK, OperatorInv, NEW n \in Nat, NEW i \in Nat, seals' = Seal(n, i), UNCHANGED <<clock, dead, logins>>,
           \/ UNCHANGED prov
           \/ prov.id = i /\ prov' = [prov EXCEPT !.enc = Len(seals) + 1, !.st = "valid"]
    PROVE  Grown /\ SecretInv'
<1>0. SecretInv  BY DEF OperatorInv
<1>1. /\ Grown /\ Len(seals') = Len(seals) + 1 /\ Len(seals) \in Nat
      /\ seals'[Len(seals) + 1].login = n /\ seals'[Len(seals) + 1].id = i
  BY <1>0, SealGrows
<1>2. CASE UNCHANGED prov
  <2> DEFINE e == prov.enc
  <2>1. prov.enc # 0 => seals'[prov.enc] = seals[prov.enc]
    <3>1. e \in 0..Len(seals) /\ \A j \in 1..Len(seals) : seals'[j] = seals[j]  BY <1>0, <1>1 DEF SecretInv, Grown
    <3> HIDE DEF e
    <3>2. e # 0 => seals'[e] = seals[e]  BY <1>1, <3>1
    <3> QED  BY <3>2 DEF e
  <2>2. OperatorSecretFits'  BY <1>0, <1>2, <2>1 DEF SecretInv, OperatorSecretFits, Useless
  <2> QED  BY <1>0, <1>1, <1>2, <2>2 DEF SecretInv, Grown
<1>3. CASE prov.id = i /\ prov' = [prov EXCEPT !.enc = Len(seals) + 1, !.st = "valid"]
  <2> DEFINE m == Len(seals) + 1
  <2>1. prov' \in ProviderRows /\ prov'.id = prov.id /\ prov'.enc = Len(seals) + 1 /\ prov'.st = "valid"
    <3>1. m \in Nat /\ prov \in ProviderRows /\ prov' = [prov EXCEPT !.enc = m, !.st = "valid"]
      BY <1>0, <1>1, <1>3 DEF SecretInv
    <3> HIDE DEF m
    <3>2. prov' \in ProviderRows /\ prov'.id = prov.id /\ prov'.enc = m /\ prov'.st = "valid"  BY <3>1 DEF ProviderRows
    <3> QED  BY <3>2 DEF m
  <2>2. OperatorSecretFits'  BY <1>1, <1>3, <2>1 DEF OperatorSecretFits, Useless
  <2> QED  BY <1>0, <1>1, <2>1, <2>2 DEF SecretInv, Grown
<1> QED  BY <1>2, <1>3

LEMMA BackKept ==
    ASSUME OperatorInv, UNCHANGED <<back, promised, clock>>
    PROVE  BackInv'
BY DEF OperatorInv, BackInv

\* A backoff replaces none, or one that ends before it.
LEMMA BackStored ==
    ASSUME DeskOK, BackInv, NEW i \in 1..MaxProvider, NEW t \in Nat, NEW r \in Nat, t <= clock + r,
           back' = SetEx(back, i, t, r, clock), promised' = promised \cup {<<i, t>>}, clock' = clock,
           ~Found(back, i, clock) \/ (back[i].val \in Nat /\ back[i].val < t)
    PROVE  BackInv'
<1> DEFINE K == 1..MaxProvider
<1>0. clock \in Nat /\ back \in [K -> Cells(Nat)] /\ i \in K  BY DEF BackInv, DeskOK
<1>1. /\ back' \in [K -> Cells(Nat)]
      /\ back'[i] = [val |-> t, exp |-> clock + r]
      /\ \A j \in K \ {i} : back'[j] = back[j]
  <2> HIDE DEF K
  <2>1. [val |-> t, exp |-> clock + r] \in Cells(Nat)  BY <1>0 DEF Cells
  <2>2. back' = [back EXCEPT ![i] = [val |-> t, exp |-> clock + r]]  BY DEF SetEx, Entry
  <2> QED  BY <1>0, <2>1, <2>2
<1>2. back'[i].val = t /\ back'[i].exp = clock + r  BY <1>1
<1>3. ASSUME NEW y \in promised, clock < y[2], y[1] = i
      PROVE  y[2] <= t /\ y[2] \in Nat
  <2>1. y[2] \in Nat /\ back[i].exp # 0 /\ y[2] <= back[i].val /\ back[i].val <= back[i].exp
    BY <1>3 DEF BackInv
  <2>2. back[i] \in [val : Nat, exp : Nat]
    <3>1. back[i] \in Cells(Nat)  BY <1>0
    <3> QED  BY <2>1, <3>1 DEF Cells, NoEntry
  <2>3. Found(back, i, clock)  BY <1>0, <1>3, <2>1, <2>2 DEF Found
  <2> QED  BY <2>1, <2>2, <2>3
<1>4. promised' \subseteq K \X Nat  BY DEF BackInv
<1>5. \A j \in K : back'[j].exp # 0 => back'[j].val <= back'[j].exp  BY <1>1, <1>2 DEF BackInv
<1>6. ASSUME NEW y \in promised', clock < y[2]
      PROVE  back'[y[1]].exp # 0 /\ y[2] <= back'[y[1]].val
  <2>1. CASE y = <<i, t>>  BY <1>0, <1>2, <1>6, <2>1
  <2>2. CASE y \in promised /\ y[1] = i  BY <1>0, <1>2, <1>3, <1>6, <2>2
  <2>3. CASE y \in promised /\ y[1] # i
    <3>1. y[1] \in K \ {i}  BY <2>3 DEF BackInv
    <3> QED  BY <1>1, <1>6, <2>3, <3>1 DEF BackInv
  <2> QED  BY <2>1, <2>2, <2>3
<1> QED  BY <1>1, <1>4, <1>5, <1>6 DEF BackInv

LEMMA OperatorInvStep ==
    ASSUME DeskOK, OperatorInv, [Next]_vars
    PROVE  OperatorInv'
<1> USE DEF OperatorInv
<1>1. CASE Apart(OperatorAt) /\ UNCHANGED operatorVars
  <2>1. Grown /\ SecretInv' /\ BackInv' /\ ChalInv'
    <3>1. logins' \in Nat  BY <1>1 DEF operatorVars, SecretInv
    <3> QED  BY <1>1, <3>1, OperatorStill DEF Apart, operatorVars, ChalInv
  <2>2. JobsInv'  BY <1>1, <2>1, JobKept DEF Apart, JobsInv
  <2> QED  BY <2>1, <2>2
<1>2. ASSUME NEW p \in Procs, NEW a \in Admins, OperatorStart(p, a), clock' = clock
      PROVE  OperatorInv'
  <2> DEFINE v == [Empty EXCEPT !.by = a, !.prov = prov, !.login = logins + 1]
  <2>1. logins' \in Nat /\ logins + 1 \in Nat /\ prov \in ProviderRows /\ prov.id \in 1..MaxProvider
    BY <1>2 DEF OperatorStart, SecretInv
  <2>2. Grown /\ SecretInv' /\ BackInv' /\ ChalInv'  BY <1>2, <2>1, OperatorStill DEF OperatorStart, ChalInv
  <2>3. v \in Jobs /\ v.by = a /\ v.c = None /\ v.prov = prov  BY <2>1, EmptyJob DEF Jobs
  <2>4. PICK l \in {"persist", "challenge"} : Goto(p, l)  BY <1>2 DEF OperatorStart
  <2>5. JobOK(l, v, seals', dead', clock')
    <3> HIDE DEF v
    <3> QED  BY <2>1, <2>3 DEF JobOK
  <2>6. Set(p, v)  BY <1>2, Zenon DEF OperatorStart
  <2>7. JobsInv'
    <3> HIDE DEF v
    <3> QED  BY <2>2, <2>4, <2>5, <2>6, JobsMove
  <2> QED  BY <2>2, <2>7
<1>3. ASSUME NEW p \in Procs, NEW a \in Admins, NEW c \in Challenges, VerifyGet(p, a, c)
      PROVE  OperatorInv'
  <2> DEFINE x == chal[c].val
             v == [Empty EXCEPT !.by = a, !.c = c, !.prov = prov, !.raw = x, !.login = x.login]
  <2>1. x \in Pending  BY <1>3, FoundTyped DEF VerifyGet, ChalInv, DeskOK
  <2>2. x.login \in Nat  BY <2>1 DEF Pending
  <2>3. Grown /\ SecretInv' /\ BackInv' /\ ChalInv'
    BY <1>3, OperatorStill DEF VerifyGet, ChalInv, operatorVars, SecretInv
  <2>4. prov \in ProviderRows /\ prov.id \in 1..MaxProvider  BY DEF SecretInv
  <2>5. v \in Jobs /\ v.c = c /\ v.raw = x /\ v.prov = prov
    <3> HIDE DEF x
    <3> QED  BY <2>1, <2>2, <2>4, EmptyJob DEF Jobs
  <2>6. Goto(p, "claim") /\ Set(p, v)  BY <1>3, Zenon DEF VerifyGet
  <2> HIDE DEF x, v
  <2>7. JobOK("claim", v, seals', dead', clock')  BY <2>1, <2>4, <2>5 DEF JobOK
  <2>8. JobsInv'  BY <2>3, <2>6, <2>7, JobsMove
  <2> QED  BY <2>3, <2>8
<1>4. ASSUME NEW p \in Procs, NEW c \in Challenges, PutChallenge(p, c)
      PROVE  OperatorInv'
  <2> DEFINE l == loc[p]
             x == [st |-> "ready", id |-> l.prov.id, by |-> l.by, login |-> l.login, exp |-> clock + ChallengeTTL]
  <2>1. JobOK("challenge", l, seals, dead, clock)  BY <1>4 DEF PutChallenge, JobsInv, OperatorAt
  <2>2. x \in Pending
    <3>1. l.prov.id \in Nat /\ l.by \in Admins /\ l.login \in Nat  BY <2>1, OperatorAssumption DEF JobOK, Jobs, ProviderRows
    <3>2. clock + ChallengeTTL \in Nat  BY OperatorAssumption DEF DeskOK
    <3> QED  BY <3>1, <3>2 DEF Pending
  <2>3. chal' = SetEx(chal, c, x, ChallengeTTL, clock)  BY <1>4, Zenon DEF PutChallenge
  <2> HIDE DEF x
  <2>4. ChalInv'  BY <2>2, <2>3, SetExTyped, OperatorAssumption DEF ChalInv, DeskOK
  <2>5. Grown /\ SecretInv' /\ BackInv'  BY <1>4, OperatorStill DEF PutChallenge, SecretInv
  <2>6. JobsInv'  BY <1>4, <2>5, JobsDone DEF PutChallenge
  <2> QED  BY <2>4, <2>5, <2>6
<1>5. ASSUME NEW p \in Procs, Claim(p)
      PROVE  OperatorInv'
  <2> DEFINE l == loc[p]
  <2>1. JobOK("claim", l, seals, dead, clock)  BY <1>5 DEF Claim, JobsInv, OperatorAt
  <2>2. l.c \in Challenges /\ l.raw \in Pending  BY <2>1 DEF JobOK
  <2>3. As(l.raw, "verifying") \in Pending /\ As(l.raw, "verifying").exp = l.raw.exp  BY <2>2, AsPending
  <2>4. ChalInv'  BY <1>5, <2>2, <2>3, SwapTyped DEF Claim, ChalInv
  <2>5. Grown /\ SecretInv' /\ BackInv'  BY <1>5, OperatorStill DEF Claim, SecretInv
  <2>6. CASE Goto(p, "factor") /\ UNCHANGED loc
    <3>1. JobOK("factor", l, seals, dead, clock)  BY <2>1, <2>2 DEF JobOK
    <3>2. JobsInv'  BY <2>5, <2>6, <3>1, JobsGoto, JobKept
    <3> QED  BY <2>4, <2>5, <3>2
  <2>7. CASE Done(p)  BY <2>4, <2>5, <2>7, JobsDone
  <2> QED  BY <1>5, <2>6, <2>7 DEF Claim
<1>6. ASSUME NEW p \in Procs, SecondFactor(p)
      PROVE  OperatorInv'
  <2>1. JobOK("factor", loc[p], seals, dead, clock)  BY <1>6 DEF SecondFactor, JobsInv, OperatorAt
  <2>2. JobOK("finalize", loc[p], seals, dead, clock) /\ JobOK("restore", loc[p], seals, dead, clock)  BY <2>1 DEF JobOK
  <2>3. Grown /\ SecretInv' /\ BackInv' /\ ChalInv'
    BY <1>6, OperatorStill DEF SecondFactor, operatorVars, SecretInv, ChalInv
  <2>4. JobsInv'  BY <1>6, <2>2, <2>3, JobsGoto, JobKept DEF SecondFactor
  <2> QED  BY <2>3, <2>4
<1>7. ASSUME NEW p \in Procs, Restore(p) \/ RestoreConsumed(p)
      PROVE  OperatorInv'
  <2> DEFINE l == loc[p]
  <2>1. l.c \in Challenges /\ l.raw \in Pending  BY <1>7 DEF Restore, RestoreConsumed, JobsInv, OperatorAt, JobOK
  <2>2. ChalInv'  BY <1>7, <2>1, SwapTyped DEF Restore, RestoreConsumed, ChalInv
  <2>3. Grown /\ SecretInv' /\ BackInv'  BY <1>7, OperatorStill DEF Restore, RestoreConsumed, SecretInv
  <2>4. JobsInv'  BY <1>7, <2>3, JobsDone DEF Restore, RestoreConsumed
  <2> QED  BY <2>2, <2>3, <2>4
<1>8. ASSUME NEW p \in Procs, Finalize(p)
      PROVE  OperatorInv'
  <2> DEFINE l == loc[p]
  <2>1. JobOK("finalize", l, seals, dead, clock)  BY <1>8 DEF Finalize, JobsInv, OperatorAt
  <2>2. l.c \in Challenges /\ l.raw \in Pending  BY <2>1 DEF JobOK
  <2>3. As(l.raw, "consumed") \in Pending /\ As(l.raw, "consumed").exp = l.raw.exp  BY <2>2, AsPending
  <2>4. ChalInv'  BY <1>8, <2>2, <2>3, SwapTyped DEF Finalize, ChalInv
  <2>5. Grown /\ SecretInv' /\ BackInv'  BY <1>8, OperatorStill DEF Finalize, SecretInv
  <2>6. CASE Goto(p, "persist") /\ UNCHANGED loc
    <3>1. JobOK("persist", l, seals, dead, clock)  BY <2>1, <2>2 DEF JobOK
    <3>2. JobsInv'  BY <2>5, <2>6, <3>1, JobsGoto, JobKept
    <3> QED  BY <2>4, <2>5, <3>2
  <2>7. CASE Done(p)  BY <2>4, <2>5, <2>7, JobsDone
  <2> QED  BY <1>8, <2>6, <2>7 DEF Finalize
<1>9. ASSUME NEW p \in Procs, Persist(p) \/ PersistFails(p)
      PROVE  OperatorInv'
  <2> DEFINE l == loc[p]
  <2>1. JobOK("persist", l, seals, dead, clock)  BY <1>9 DEF Persist, PersistFails, JobsInv, OperatorAt
  <2>2. l.login \in Nat /\ l.prov.id \in Nat  BY <2>1, OperatorAssumption DEF JobOK, Jobs
  <2>3. seals' = Seal(l.login, l.prov.id) /\ UNCHANGED <<clock, dead, logins, back, promised, chal>>
        /\ (UNCHANGED prov \/ (prov.id = l.prov.id /\ prov' = [prov EXCEPT !.enc = Len(seals) + 1, !.st = "valid"]))
    BY <1>9, Zenon DEF Persist, PersistFails, UpdateSecret
  <2>4. Grown /\ SecretInv' /\ BackInv' /\ ChalInv'  BY <2>2, <2>3, StoreFits, BackKept DEF ChalInv
  <2>5. Done(p) \/ (l.c # None /\ Goto(p, "restoreConsumed") /\ UNCHANGED loc)
    BY <1>9, Zenon DEF Persist, PersistFails
  <2>6. CASE l.c # None /\ Goto(p, "restoreConsumed") /\ UNCHANGED loc
    <3>1. JobOK("restoreConsumed", l, seals, dead, clock)  BY <2>1, <2>6 DEF JobOK
    <3>2. JobsInv'  BY <2>4, <2>6, <3>1, JobsGoto, JobKept
    <3> QED  BY <2>4, <3>2
  <2> QED  BY <2>4, <2>5, <2>6, JobsDone
<1>10. ASSUME NEW p \in Procs, OperatorAbort(p)
       PROVE  OperatorInv'
  <2>1. Grown /\ SecretInv' /\ BackInv' /\ ChalInv'
    BY <1>10, OperatorStill DEF OperatorAbort, operatorVars, SecretInv, ChalInv
  <2> QED  BY <1>10, <2>1, JobsDone DEF OperatorAbort
<1>11. ASSUME NEW p \in Procs, Validate(p) \/ LoadProvider(p)
       PROVE  OperatorInv'
  <2> DEFINE n == seals[prov.enc].login
             v == [Empty EXCEPT !.prov = prov, !.login = n]
  <2>1. prov \in ProviderRows /\ prov.id \in 1..MaxProvider /\ prov.enc \in 1..Len(seals) /\ n \in Nat
    <3> DEFINE e == prov.enc
    <3>1. prov \in ProviderRows /\ prov.id \in 1..MaxProvider /\ e \in 0..Len(seals) /\ e # 0
          /\ seals \in Seq([login : Nat, id : Nat])
      BY <1>11 DEF Validate, LoadProvider, SecretInv
    <3> HIDE DEF e
    <3>2. e \in 1..Len(seals)  BY <3>1
    <3>3. seals[e] \in [login : Nat, id : Nat]  BY <3>1, <3>2, Element
    <3>4. seals[e].login \in Nat  BY <3>3
    <3> QED  BY <3>1, <3>2, <3>4 DEF e
  <2>2. v \in Jobs /\ v.prov = prov /\ v.login = n /\ v.c = None  BY <2>1, EmptyJob DEF Jobs
  <2>3. Grown /\ SecretInv' /\ BackInv' /\ ChalInv'
    BY <1>11, OperatorStill DEF Validate, LoadProvider, operatorVars, SecretInv, ChalInv
  <2>4. Set(p, v) /\ \/ Useless(prov.enc) /\ Goto(p, "invalidate")
                     \/ Goto(p, "refresh") \/ Goto(p, "lookup")
    BY <1>11, Zenon DEF Validate, LoadProvider
  <2>5. JobOK("refresh", v, seals, dead, clock) /\ JobOK("lookup", v, seals, dead, clock)
        /\ (Useless(prov.enc) => JobOK("invalidate", v, seals, dead, clock))
    <3> HIDE DEF v
    <3> QED  BY <2>1, <2>2 DEF JobOK, Useless
  <2>6. JobsInv'
    <3> HIDE DEF v, n
    <3> QED  BY <2>3, <2>4, <2>5, JobsMove, JobKept
  <2> QED  BY <2>3, <2>6
<1>12. ASSUME NEW p \in Procs, PersistValidation(p)
       PROVE  OperatorInv'
  <2> DEFINE l == loc[p]
  <2>1. l.login \in Nat /\ l.prov.id \in Nat
    <3>1. JobOK("refresh", l, seals, dead, clock)  BY <1>12 DEF PersistValidation, JobsInv, OperatorAt
    <3>2. l \in Jobs /\ l.prov.id \in 1..MaxProvider  BY <3>1 DEF JobOK
    <3> QED  BY <3>2, OperatorAssumption DEF Jobs
  <2>2. seals' = Seal(l.login, l.prov.id) /\ UNCHANGED <<clock, dead, logins, back, promised, chal>> /\ Done(p)
        /\ (UNCHANGED prov \/ (prov.id = l.prov.id /\ prov' = [prov EXCEPT !.enc = Len(seals) + 1, !.st = "valid"]))
    BY <1>12, Zenon DEF PersistValidation, RefreshSecret
  <2>3. Grown /\ SecretInv' /\ BackInv' /\ ChalInv'  BY <2>1, <2>2, StoreFits, BackKept DEF ChalInv
  <2> QED  BY <2>2, <2>3, JobsDone
<1>13. ASSUME NEW p \in Procs, InvalidateOperator(p)
       PROVE  OperatorInv'
  <2> DEFINE l == loc[p]
  <2>1. JobOK("invalidate", l, seals, dead, clock)  BY <1>13 DEF InvalidateOperator, JobsInv, OperatorAt
  <2>2. UNCHANGED <<clock, seals, dead, logins, back, promised, chal>> /\ Done(p)
        /\ (UNCHANGED prov \/ (prov.enc = l.prov.enc /\ prov' = [prov EXCEPT !.st = "invalid"]))
    BY <1>13, Zenon DEF InvalidateOperator, InvalidateSecret
  <2>3. Grown  BY <2>2 DEF Grown, SecretInv, DeskOK
  <2>4. SecretInv'
    <3>1. CASE UNCHANGED prov  BY <2>2, <3>1 DEF SecretInv, OperatorSecretFits, Useless
    <3>2. CASE prov.enc = l.prov.enc /\ prov' = [prov EXCEPT !.st = "invalid"]
      <4>1. prov' \in ProviderRows /\ prov'.id = prov.id /\ prov'.enc = prov.enc  BY <3>2 DEF SecretInv, ProviderRows
      <4>2. Useless(prov.enc)  BY <2>1, <3>2 DEF JobOK, Useless
      <4> QED  BY <2>2, <4>1, <4>2 DEF SecretInv, OperatorSecretFits, Useless
    <3> QED  BY <2>2, <3>1, <3>2
  <2> QED  BY <2>2, <2>3, <2>4, JobsDone, BackKept DEF ChalInv
<1>14. ASSUME NEW p \in Procs, PublishProof(p)
       PROVE  OperatorInv'
  <2> DEFINE l == loc[p]
  <2>1. JobOK("lookup", l, seals, dead, clock)  BY <1>14 DEF PublishProof, JobsInv, OperatorAt
  <2>2. Grown /\ SecretInv' /\ BackInv' /\ ChalInv'
    BY <1>14, OperatorStill DEF PublishProof, operatorVars, SecretInv, ChalInv
  <2>3. \/ Done(p)
        \/ Useless(l.prov.enc) /\ Goto(p, "invalidate") /\ UNCHANGED loc
        \/ \E r \in Retries : Goto(p, "backoff") /\ Set(p, [l EXCEPT !.retry = r, !.till = clock + r])
    BY <1>14, Zenon DEF PublishProof
  <2>4. CASE Useless(l.prov.enc) /\ Goto(p, "invalidate") /\ UNCHANGED loc
    <3>1. JobOK("invalidate", l, seals, dead, clock)  BY <2>1, <2>4 DEF JobOK, Useless
    <3>2. JobsInv'  BY <2>2, <2>4, <3>1, JobsGoto, JobKept
    <3> QED  BY <2>2, <3>2
  <2>5. ASSUME NEW r \in Retries, Goto(p, "backoff"), Set(p, [l EXCEPT !.retry = r, !.till = clock + r])
        PROVE  JobsInv'
    <3> DEFINE v == [l EXCEPT !.retry = r, !.till = clock + r]
    <3>1. r \in Nat /\ clock + r \in Nat  BY OperatorAssumption DEF DeskOK
    <3>2. v \in Jobs /\ v.prov = l.prov /\ v.retry = r /\ v.till = clock + r  BY <2>1, <3>1 DEF JobOK, Jobs
    <3>3. Set(p, v)  BY <2>5
    <3> HIDE DEF v
    <3>4. v.till <= clock + v.retry  BY <3>1, <3>2 DEF DeskOK
    <3>5. JobOK("backoff", v, seals, dead, clock)  BY <2>1, <3>2, <3>4 DEF JobOK
    <3> QED  BY <2>2, <2>5, <3>3, <3>5, JobsMove, JobKept
  <2> QED  BY <2>2, <2>3, <2>4, <2>5, JobsDone
<1>15. ASSUME NEW p \in Procs, BackoffGet(p)
       PROVE  OperatorInv'
  <2> DEFINE l == loc[p]
             i == l.prov.id
  <2>1. JobOK("backoff", l, seals, dead, clock)  BY <1>15 DEF BackoffGet, JobsInv, OperatorAt
  <2>2. Grown /\ SecretInv' /\ BackInv' /\ ChalInv'
    BY <1>15, OperatorStill DEF BackoffGet, operatorVars, SecretInv, ChalInv
  <2>3. ASSUME NEW x, x = None \/ (x \in Nat /\ x < l.till), Goto(p, "backoffSet"), Set(p, [l EXCEPT !.raw = x])
        PROVE  JobsInv'
    <3> DEFINE v == [l EXCEPT !.raw = x]
    <3>1. v \in Jobs /\ v.prov = l.prov /\ v.retry = l.retry /\ v.till = l.till /\ v.raw = x
      BY <2>1, <2>3 DEF JobOK, Jobs
    <3>2. Set(p, v)  BY <2>3
    <3> HIDE DEF v
    <3>3. JobOK("backoffSet", v, seals, dead, clock)  BY <2>1, <2>3, <3>1 DEF JobOK
    <3> QED  BY <2>2, <2>3, <3>2, <3>3, JobsMove, JobKept
  <2>4. CASE ~Found(back, i, clock)  BY <1>15, <2>2, <2>3, <2>4 DEF BackoffGet
  <2>5. CASE Found(back, i, clock)
    <3>1. back[i].val \in Nat  
      <4>1. i \in 1..MaxProvider /\ clock \in Nat /\ back \in [1..MaxProvider -> Cells(Nat)]
        BY <2>1 DEF BackInv, DeskOK, JobOK
      <4> HIDE DEF i
      <4> QED  BY <2>5, <4>1, FoundTyped
    <3>2. l.till \in Nat  BY <2>1 DEF JobOK, Jobs
    <3>3. Done(p) \/ (~(l.till <= back[i].val) /\ Goto(p, "backoffSet") /\ Set(p, [l EXCEPT !.raw = back[i].val]))
      BY <1>15, <2>5, Zenon DEF BackoffGet
    <3>4. ~(l.till <= back[i].val) => back[i].val < l.till  BY <3>1, <3>2
    <3> QED  BY <2>2, <2>3, <3>1, <3>3, <3>4, JobsDone
  <2> QED  BY <2>4, <2>5
<1>16. ASSUME NEW p \in Procs, BackoffSet(p)
       PROVE  OperatorInv'
  <2> DEFINE l == loc[p]
             i == l.prov.id
             free == IF l.raw = None THEN ~Found(back, i, clock) ELSE Holds(back, i, l.raw, clock)
  <2>1. JobOK("backoffSet", l, seals, dead, clock)  BY <1>16 DEF BackoffSet, JobsInv, OperatorAt
  <2>2. i \in 1..MaxProvider /\ l.till \in Nat /\ l.retry \in Nat /\ l.till <= clock + l.retry
        /\ (l.raw = None \/ (l.raw \in Nat /\ l.raw < l.till))
    BY <2>1 DEF JobOK, Jobs
  <2>3. Grown /\ SecretInv' /\ ChalInv'
    <3>1. UNCHANGED <<clock, prov, chal, seals, logins, dead>>  BY <1>16, Zenon DEF BackoffSet
    <3> QED  BY <3>1 DEF Grown, SecretInv, OperatorSecretFits, Useless, ChalInv, DeskOK
  <2>4. CASE ~free
    <3>1. Goto(p, "backoff") /\ UNCHANGED <<back, promised, loc, clock>>  BY <1>16, <2>4, Zenon DEF BackoffSet
    <3>2. JobOK("backoff", l, seals, dead, clock)  BY <2>1 DEF JobOK
    <3> QED  BY <2>3, <3>1, <3>2, JobsGoto, JobKept, BackKept
  <2>5. CASE free
    <3>1. back' = SetEx(back, i, l.till, l.retry, clock) /\ promised' = promised \cup {<<i, l.till>>} /\ Done(p)
          /\ clock' = clock
      BY <1>16, <2>5, Zenon DEF BackoffSet
    <3>2. ~Found(back, i, clock) \/ (back[i].val = l.raw /\ l.raw \in Nat /\ l.raw < l.till)
      BY <2>2, <2>5 DEF Holds
    <3>3. BackInv'
      <4> HIDE DEF i, l
      <4> QED  BY <2>2, <3>1, <3>2, BackStored
    <3> QED  BY <2>3, <3>1, <3>3, JobsDone
  <2> QED  BY <2>4, <2>5
<1>17. ASSUME (\E n \in 1..MaxLogin : LoginEnds(n)) \/ (\E e \in 1..MaxSeal : SecretSpoils(e))
       PROVE  OperatorInv'
  <2>1. Grown /\ SecretInv' /\ BackInv' /\ ChalInv'
    BY <1>17, OperatorStill DEF LoginEnds, SecretSpoils, desk, SecretInv, ChalInv
  <2>2. JobsInv'  BY <1>17, <2>1, JobKept DEF LoginEnds, SecretSpoils, desk, JobsInv
  <2> QED  BY <2>1, <2>2
<1>18. ASSUME DeleteProvider
       PROVE  OperatorInv'
  <2>1. prov' \in ProviderRows /\ prov'.id \in 1..MaxProvider /\ prov'.enc = 0
    <3>1. prov.id + 1 \in 1..MaxProvider  BY <1>18, OperatorAssumption DEF DeleteProvider, SecretInv
    <3> QED  BY <1>18, <3>1 DEF DeleteProvider, NoProv, ProviderRows
  <2>2. SecretInv' /\ BackInv' /\ ChalInv' /\ Grown
    <3>1. UNCHANGED <<clock, chal, back, seals, logins, dead, promised>>  BY <1>18 DEF DeleteProvider, desk
    <3>2. Grown  BY <3>1 DEF Grown, SecretInv, DeskOK
    <3>3. Len(seals) \in Nat  BY DEF SecretInv
    <3>4. SecretInv'  BY <2>1, <3>1, <3>3 DEF SecretInv, OperatorSecretFits, Useless
    <3> QED  BY <3>1, <3>2, <3>4, BackKept DEF ChalInv
  <2>3. JobsInv'  BY <1>18, <2>2, JobKept DEF DeleteProvider, desk, JobsInv
  <2> QED  BY <2>2, <2>3
<1> HIDE DEF OperatorInv
<1> QED  BY <1>1, <1>2, <1>3, <1>4, <1>5, <1>6, <1>7, <1>8, <1>9, <1>10, <1>11, <1>12, <1>13, <1>14, <1>15, <1>16,
            <1>17, <1>18, OperatorStep DEF OperatorNext

LEMMA OperatorInvInit == Init => OperatorInv
<1> SUFFICES ASSUME Init PROVE OperatorInv  OBVIOUS
<1> USE OperatorAssumption DEF Init, OperatorInit
<1>1. SecretInv  BY DEF SecretInv, OperatorSecretFits, Useless, NoProv, ProviderRows
<1>2. BackInv
  <2>1. NoEntry \in Cells(Nat) /\ NoEntry.exp = 0  BY DEF Cells, NoEntry
  <2> QED  BY <2>1 DEF BackInv
<1>3. ChalInv
  <2>1. NoEntry \in Cells(Pending)  BY DEF Cells
  <2> QED  BY <2>1 DEF ChalInv
<1>4. JobsInv  BY DEF JobsInv, OperatorAt
<1> QED  BY <1>1, <1>2, <1>3, <1>4 DEF OperatorInv

\* The operator session in the provider's row was sealed for that row and is called invalid
\* only after VRChat ended its login, whatever admins store and delete while validations
\* and proofs decide on rows they read before (persist, persistValidation, markInvalid).
THEOREM OperatorSecretAlwaysFits == Spec => []OperatorSecretFits
<1>1. OperatorInv => OperatorSecretFits  BY DEF OperatorInv, SecretInv
<1>2. DeskOK /\ OperatorInv /\ [Next]_vars => DeskOK' /\ OperatorInv'  BY DeskStep, OperatorInvStep
<1> QED  BY <1>1, <1>2, DeskInit, OperatorInvInit, PTL DEF Spec

\* A backoff that was stored stays in force until its deadline, whatever requests that
\* were asked for other ones do (extendProviderBackoff's compare-and-swap loop).
THEOREM BackoffAlwaysHolds == Spec => []BackoffHolds
<1>1. DeskOK /\ OperatorInv => BackoffHolds
  <2> SUFFICES ASSUME DeskOK, OperatorInv, NEW y \in promised, clock < y[2]
               PROVE  Found(back, y[1], clock) /\ back[y[1]].val >= y[2]
    BY DEF BackoffHolds
  <2>1. BackInv  BY DEF OperatorInv
  <2>2. y[1] \in 1..MaxProvider /\ y[2] \in Nat /\ back[y[1]].exp # 0 /\ y[2] <= back[y[1]].val
        /\ back[y[1]].val <= back[y[1]].exp
    BY <2>1 DEF BackInv
  <2>3. back[y[1]] \in [val : Nat, exp : Nat]  BY <2>1, <2>2 DEF BackInv, Cells, NoEntry
  <2> QED  BY <2>2, <2>3 DEF Found, DeskOK
<1>2. DeskOK /\ OperatorInv /\ [Next]_vars => DeskOK' /\ OperatorInv'  BY DeskStep, OperatorInvStep
<1> QED  BY <1>1, <1>2, DeskInit, OperatorInvInit, PTL DEF Spec

-----------------------------------------------------------------------------
(* Avatars                                                                   *)

Slots == Sources \cup {"none", None}
Errands == [src : Slots, pic : Shots \cup {None}, was : Slots, changed : BOOLEAN, activate : BOOLEAN, seen : Nat]

\* What a request at label l knows in v, when the account is acc, there have been n picks
\* and ok tells whether the last one is in effect.  An upload that goes to become active
\* saw no pick at all; a refresh that does and saw the last pick refreshes what was picked.
ErrandOK(l, v, acc, n, ok) ==
    /\ v \in Errands /\ v.seen <= n
    /\ l \in {"fetchAvatar", "refreshRead", "activate"} => v.src \in Sources
    /\ l = "selectCommit" => v.src \in Sources \cup {"none"}
    /\ l = "uploadCommit" => (v.activate => v.seen = 0)
    /\ l = "activate" => (ok /\ v.seen = n => acc.source = v.src)

PickInv ==
    /\ account \in [source : Slots, etag : Shots \cup {None}, picked : BOOLEAN]
    /\ stored \in [Sources -> Shots \cup {None}]
    /\ picks \in Nat /\ intact \in BOOLEAN
    /\ account.picked <=> picks > 0
    /\ intact => picks > 0

ErrandsInv == \A p \in Procs : pc[p] \in AvatarsAt \ {"idle"} => ErrandOK(pc[p], loc[p], account, picks, intact)

AvatarsInv == PickInv /\ ErrandsInv

\* The account's source stays, is replaced (which ends the pick), or is picked.
Chosen ==
    \/ picks' = picks /\ intact' = (intact /\ account'.source = account.source)
    \/ picks' = picks + 1 /\ intact' = TRUE

LEMMA ErrandKept ==
    ASSUME PickInv, Chosen, NEW l, NEW v, ErrandOK(l, v, account, picks, intact)
    PROVE  ErrandOK(l, v, account', picks', intact')
<1>1. v.seen \in Nat /\ picks \in Nat /\ intact \in BOOLEAN  BY DEF ErrandOK, Errands, PickInv
<1>2. CASE picks' = picks /\ intact' = (intact /\ account'.source = account.source)  BY <1>1, <1>2 DEF ErrandOK
<1>3. CASE picks' = picks + 1 /\ intact' = TRUE
  <2>1. v.seen <= picks' /\ v.seen # picks'  BY <1>1, <1>3 DEF ErrandOK
  <2> QED  BY <2>1 DEF ErrandOK
<1> QED  BY <1>2, <1>3 DEF Chosen

LEMMA ErrandsMove ==
    ASSUME DeskOK, AvatarsInv, Chosen, NEW p \in Procs, NEW l, Goto(p, l), NEW v, Set(p, v),
           l = "idle" \/ ErrandOK(l, v, account', picks', intact')
    PROVE  ErrandsInv'
<1> SUFFICES ASSUME NEW q \in Procs, pc'[q] \in AvatarsAt \ {"idle"}
             PROVE  ErrandOK(pc'[q], loc'[q], account', picks', intact')
  BY DEF ErrandsInv
<1>1. pc'[p] = l /\ loc'[p] = v /\ (q # p => pc'[q] = pc[q] /\ loc'[q] = loc[q])  BY DEF Goto, Set, DeskOK
<1>2. CASE q = p  BY <1>1, <1>2
<1>3. CASE q # p  BY <1>1, <1>3, ErrandKept DEF ErrandsInv, AvatarsInv
<1> QED  BY <1>2, <1>3

LEMMA ErrandsDone ==
    ASSUME DeskOK, AvatarsInv, Chosen, NEW p \in Procs, Done(p)
    PROVE  ErrandsInv'
BY ErrandsMove DEF Done

\* A step that leaves account and picks alone.
LEMMA PickStill ==
    ASSUME AvatarsInv, UNCHANGED <<account, picks, intact>>, stored' \in [Sources -> Shots \cup {None}]
    PROVE  PickInv' /\ Chosen
<1>1. PickInv'  BY DEF AvatarsInv, PickInv
<1>2. intact \in BOOLEAN  BY DEF AvatarsInv, PickInv
<1>3. Chosen  BY <1>2 DEF Chosen
<1> QED  BY <1>1, <1>3

\* A write of the active source, by whoever has not picked it.
LEMMA SourceWritten ==
    ASSUME AvatarsInv, KeepHistory, account' \in [source : Slots, etag : Shots \cup {None}, picked : BOOLEAN],
           account'.picked = account.picked, stored' \in [Sources -> Shots \cup {None}]
    PROVE  PickInv' /\ Chosen
<1>1. Chosen  BY DEF KeepHistory, Chosen
<1>2. PickInv'  BY DEF AvatarsInv, PickInv, KeepHistory
<1> QED  BY <1>1, <1>2

LEMMA SetActiveTyped ==
    ASSUME PickInv, NEW av \in [Sources -> Shots \cup {None}], NEW s \in Sources
    PROVE  /\ SetActive(av, s) \in [source : Slots, etag : Shots \cup {None}, picked : BOOLEAN]
           /\ SetActive(av, s).picked = account.picked /\ SetActive(av, s).source = s
<1>1. av[s] \in Shots \cup {None} /\ s \in Slots  BY DEF Slots
<1> QED  BY <1>1 DEF SetActive, PickInv

LEMMA ClearActiveTyped ==
    ASSUME PickInv
    PROVE  /\ ClearActive \in [source : Slots, etag : Shots \cup {None}, picked : BOOLEAN]
           /\ ClearActive.picked = account.picked
BY DEF ClearActive, PickInv, Slots

LEMMA NoAvatarTyped ==
    NoAvatar \in Errands /\ NoAvatar.seen = 0 /\ NoAvatar.activate = FALSE
BY DEF NoAvatar, Errands, Slots

LEMMA AvatarsInvStep ==
    ASSUME DeskOK, AvatarsInv, [Next]_vars
    PROVE  AvatarsInv'
<1>0. PickInv /\ ErrandsInv  BY DEF AvatarsInv
<1>1. CASE Apart(AvatarsAt) /\ UNCHANGED avatarVars
  <2>1. PickInv' /\ Chosen  BY <1>0, <1>1, PickStill DEF avatarVars, PickInv
  <2>2. ErrandsInv'  BY <1>0, <1>1, <2>1 DEF Apart, ErrandsInv, avatarVars
  <2> QED  BY <2>1, <2>2 DEF AvatarsInv
<1>2. ASSUME NEW p \in Procs, NEW l, NEW v, UNCHANGED <<account, picks, intact>>,
             stored' \in [Sources -> Shots \cup {None}], Goto(p, l), Set(p, v),
             l = "idle" \/ ErrandOK(l, v, account, picks, intact)
      PROVE  AvatarsInv'
  <2>1. PickInv' /\ Chosen  BY <1>2, PickStill
  <2> QED  BY <1>0, <1>2, <2>1, ErrandsMove, ErrandKept DEF AvatarsInv
<1>3. ASSUME NEW p \in Procs, NEW pic \in Shots, UploadRead(p, pic)
      PROVE  AvatarsInv'
  <2> DEFINE v == [NoAvatar EXCEPT !.src = "user", !.pic = pic, !.activate = ~account.picked, !.seen = picks]
  <2>1. "user" \in Slots /\ (~account.picked) \in BOOLEAN /\ picks \in Nat /\ (~account.picked => picks = 0)
    BY <1>0 DEF PickInv, Slots, Sources
  <2>2. v \in Errands /\ v.seen = picks /\ v.activate = (~account.picked)  BY <2>1, NoAvatarTyped DEF Errands
  <2>3. Goto(p, "uploadCommit") /\ Set(p, v) /\ UNCHANGED <<account, picks, intact, stored>>
    BY <1>3, Zenon DEF UploadRead, avatarVars
  <2> HIDE DEF v
  <2>4. (v.activate => v.seen = 0) /\ v.seen <= picks
    <3>1. v.activate => v.seen = 0  BY <2>1, <2>2, Zenon
    <3> QED  BY <2>1, <2>2, <3>1
  <2>5. ErrandOK("uploadCommit", v, account, picks, intact)  BY <2>2, <2>4 DEF ErrandOK
  <2> QED  BY <1>0, <1>2, <2>3, <2>5 DEF PickInv
<1>4. ASSUME NEW p \in Procs, NEW pic \in Shots, NEW s \in Upstreams, RefreshList(p, s, pic)
      PROVE  AvatarsInv'
  <2> DEFINE v == [NoAvatar EXCEPT !.src = s, !.pic = pic, !.changed = stored[s] # pic]
  <2>1. s \in Sources /\ s \in Slots /\ picks \in Nat  BY <1>0 DEF PickInv, Slots, Sources
  <2>2. v \in Errands /\ v.seen = 0 /\ v.src = s  BY <2>1, NoAvatarTyped DEF Errands
  <2>3. (Goto(p, "refreshRead") \/ Goto(p, "fetchAvatar")) /\ Set(p, v) /\ UNCHANGED <<account, picks, intact, stored>>
    <3>1. CASE stored[s] = pic  BY <1>4, <3>1, Zenon DEF RefreshList, avatarVars
    <3>2. CASE stored[s] # pic  BY <1>4, <3>2, Zenon DEF RefreshList, avatarVars
    <3> QED  BY <3>1, <3>2
  <2> HIDE DEF v
  <2>4. ErrandOK("refreshRead", v, account, picks, intact) /\ ErrandOK("fetchAvatar", v, account, picks, intact)
    BY <2>1, <2>2 DEF ErrandOK
  <2> QED  BY <1>0, <1>2, <2>3, <2>4 DEF PickInv
<1>5. ASSUME NEW p \in Procs, UploadCommit(p)
      PROVE  AvatarsInv'
  <2> DEFINE l == loc[p]
             av == [stored EXCEPT !["user"] = l.pic]
  <2>1. l.pic \in Shots \cup {None}  BY <1>0, <1>5 DEF UploadCommit, ErrandsInv, AvatarsAt, ErrandOK, Errands
  <2>2. av \in [Sources -> Shots \cup {None}] /\ "user" \in Sources  BY <1>0, <2>1 DEF PickInv, Sources
  <2>3. stored' = av /\ account' = (IF l.activate THEN SetActive(av, "user") ELSE account) /\ KeepHistory /\ Done(p)
    BY <1>5, Zenon DEF UploadCommit
  <2> HIDE DEF av
  <2>4. account' \in [source : Slots, etag : Shots \cup {None}, picked : BOOLEAN] /\ account'.picked = account.picked
    BY <1>0, <2>2, <2>3, SetActiveTyped DEF PickInv
  <2>5. PickInv' /\ Chosen  BY <2>2, <2>3, <2>4, SourceWritten
  <2> QED  BY <2>3, <2>5, ErrandsDone DEF AvatarsInv
<1>6. ASSUME NEW p \in Procs, NEW s \in Sources \cup {"none"}, SelectRead(p, s)
      PROVE  AvatarsInv'
  <2> DEFINE v == [NoAvatar EXCEPT !.src = s]
  <2>1. s \in Slots /\ picks \in Nat  BY <1>0 DEF PickInv, Slots
  <2>2. v \in Errands /\ v.seen = 0 /\ v.src = s  BY <2>1, NoAvatarTyped DEF Errands
  <2>3. Goto(p, "selectCommit") /\ Set(p, v) /\ UNCHANGED <<account, picks, intact, stored>>
    BY <1>6, Zenon DEF SelectRead, avatarVars
  <2> HIDE DEF v
  <2>4. ErrandOK("selectCommit", v, account, picks, intact)  BY <2>1, <2>2 DEF ErrandOK
  <2> QED  BY <1>0, <1>2, <2>3, <2>4 DEF PickInv
<1>7. ASSUME NEW p \in Procs, SelectCommit(p)
      PROVE  AvatarsInv'
  <2> DEFINE s == loc[p].src
             act == IF s = "none" THEN ClearActive ELSE SetActive(stored, s)
  <2>1. s \in Sources \cup {"none"}  BY <1>0, <1>7 DEF SelectCommit, ErrandsInv, AvatarsAt, ErrandOK
  <2>2. act \in [source : Slots, etag : Shots \cup {None}, picked : BOOLEAN]
    BY <1>0, <2>1, ClearActiveTyped, SetActiveTyped DEF PickInv
  <2>3. account' = [act EXCEPT !.picked = TRUE] /\ picks' = picks + 1 /\ intact' = TRUE /\ stored' = stored /\ Done(p)
    BY <1>7, Zenon DEF SelectCommit
  <2> HIDE DEF act
  <2>4. account' \in [source : Slots, etag : Shots \cup {None}, picked : BOOLEAN] /\ account'.picked = TRUE
    BY <2>2, <2>3
  <2>5. PickInv'  BY <1>0, <2>3, <2>4 DEF PickInv
  <2>6. Chosen  BY <2>3 DEF Chosen
  <2> QED  BY <2>3, <2>5, <2>6, ErrandsDone DEF AvatarsInv
<1>8. ASSUME NEW p \in Procs, DeleteLoad(p)
      PROVE  AvatarsInv'
  <2> DEFINE v == [NoAvatar EXCEPT !.was = account.source]
  <2>1. account.source \in Slots /\ picks \in Nat  BY <1>0 DEF PickInv
  <2>2. v \in Errands /\ v.seen = 0  BY <2>1, NoAvatarTyped DEF Errands
  <2>3. Goto(p, "removeCommit") /\ Set(p, v) /\ UNCHANGED <<account, picks, intact, stored>>
    BY <1>8, Zenon DEF DeleteLoad, avatarVars
  <2> HIDE DEF v
  <2>4. ErrandOK("removeCommit", v, account, picks, intact)  BY <2>1, <2>2 DEF ErrandOK
  <2> QED  BY <1>0, <1>2, <2>3, <2>4 DEF PickInv
<1>9. ASSUME NEW p \in Procs, DeleteCommit(p)
      PROVE  AvatarsInv'
  <2> DEFINE av == [stored EXCEPT !["user"] = None]
  <2>1. av \in [Sources -> Shots \cup {None}]  BY <1>0 DEF PickInv
  <2>2. stored' = av /\ (account' = account \/ account' = Fallback(av)) /\ KeepHistory /\ Done(p)
    BY <1>9, Zenon DEF DeleteCommit
  <2> HIDE DEF av
  <2>3. \/ Fallback(av) = ClearActive
        \/ \E s \in Upstreams : Fallback(av) = SetActive(av, s)
    <3>1. CASE \E s \in Upstreams : av[s] # None
      <4>1. (CHOOSE s \in Upstreams : av[s] # None) \in Upstreams  BY <3>1
      <4> QED  BY <3>1, <4>1 DEF Fallback
    <3> QED  BY <3>1 DEF Fallback
  <2>4. /\ Fallback(av) \in [source : Slots, etag : Shots \cup {None}, picked : BOOLEAN]
        /\ Fallback(av).picked = account.picked
    BY <1>0, <2>1, <2>3, ClearActiveTyped, SetActiveTyped DEF Sources
  <2>5. PickInv' /\ Chosen
    <3>1. account' \in [source : Slots, etag : Shots \cup {None}, picked : BOOLEAN] /\ account'.picked = account.picked
      BY <1>0, <2>2, <2>4 DEF PickInv
    <3> QED  BY <2>1, <2>2, <3>1, SourceWritten
  <2> QED  BY <2>2, <2>5, ErrandsDone DEF AvatarsInv
<1>10. ASSUME NEW p \in Procs, FetchAvatar(p)
       PROVE  AvatarsInv'
  <2> DEFINE l == loc[p]
  <2>1. ErrandOK("fetchAvatar", l, account, picks, intact)  BY <1>0, <1>10 DEF FetchAvatar, ErrandsInv, AvatarsAt
  <2>2. l.src \in Sources /\ l.pic \in Shots \cup {None}  BY <2>1 DEF ErrandOK, Errands
  <2>3. stored' \in [Sources -> Shots \cup {None}] /\ UNCHANGED <<account, picks, intact>>
    BY <1>0, <1>10, <2>2 DEF FetchAvatar, PickInv
  <2>4. PickInv' /\ Chosen  BY <2>3, PickStill
  <2>5. CASE Goto(p, "refreshRead") /\ UNCHANGED loc
    <3>1. ErrandOK("refreshRead", l, account, picks, intact)  BY <2>1 DEF ErrandOK
    <3>2. ErrandsInv'
      <4> SUFFICES ASSUME NEW q \in Procs, pc'[q] \in AvatarsAt \ {"idle"}
                   PROVE  ErrandOK(pc'[q], loc'[q], account', picks', intact')
        BY DEF ErrandsInv
      <4>1. pc'[p] = "refreshRead" /\ loc' = loc /\ (q # p => pc'[q] = pc[q])  BY <2>5 DEF Goto, DeskOK
      <4>2. CASE q = p  BY <1>0, <2>4, <3>1, <4>1, <4>2, ErrandKept
      <4>3. CASE q # p  BY <1>0, <2>4, <4>1, <4>3, ErrandKept DEF ErrandsInv
      <4> QED  BY <4>2, <4>3
    <3> QED  BY <2>4, <3>2 DEF AvatarsInv
  <2>6. CASE Done(p)  BY <2>4, <2>6, ErrandsDone DEF AvatarsInv
  <2> QED  BY <1>10, <2>5, <2>6 DEF FetchAvatar
<1>11. ASSUME NEW p \in Procs, RefreshRead(p)
       PROVE  AvatarsInv'
  <2> DEFINE l == loc[p]
             v == [l EXCEPT !.seen = picks]
  <2>1. ErrandOK("refreshRead", l, account, picks, intact)  BY <1>0, <1>11 DEF RefreshRead, ErrandsInv, AvatarsAt
  <2>2. UNCHANGED <<account, picks, intact, stored>>  BY <1>11 DEF RefreshRead, avatarVars
  <2>3. CASE ShouldActivate(l.src, l.changed)
    <3>1. Goto(p, "activate") /\ Set(p, v)  BY <1>11, <2>3, Zenon DEF RefreshRead
    <3>2. v \in Errands /\ v.seen = picks /\ v.src = l.src  BY <1>0, <2>1 DEF ErrandOK, Errands, PickInv
    <3>3. intact => account.source = l.src  BY <1>0, <2>3 DEF ShouldActivate, PickInv
    <3> HIDE DEF v
    <3>4. ErrandOK("activate", v, account, picks, intact)  BY <1>0, <2>1, <3>2, <3>3 DEF ErrandOK, PickInv
    <3> QED  BY <1>0, <1>2, <2>2, <3>1, <3>4 DEF PickInv
  <2>4. CASE ~ShouldActivate(l.src, l.changed)  BY <1>0, <1>2, <1>11, <2>2, <2>4 DEF RefreshRead, Done, PickInv
  <2> QED  BY <2>3, <2>4
<1>12. ASSUME NEW p \in Procs, Activate(p)
       PROVE  AvatarsInv'
  <2>1. loc[p].src \in Sources  BY <1>0, <1>12 DEF Activate, ErrandsInv, AvatarsAt, ErrandOK
  <2>2. stored' = stored /\ account' = SetActive(stored, loc[p].src) /\ KeepHistory /\ Done(p)  BY <1>12 DEF Activate
  <2>3. PickInv' /\ Chosen  BY <1>0, <2>1, <2>2, SetActiveTyped, SourceWritten DEF PickInv
  <2> QED  BY <2>2, <2>3, ErrandsDone DEF AvatarsInv
<1>13. ASSUME NEW p \in Procs, NEW o \in Upstreams, IconOwner(p, o) \/ DeleteOwner(p, o)
       PROVE  AvatarsInv'
  <2> DEFINE v == [NoAvatar EXCEPT !.src = o]
  <2>1. o \in Slots /\ picks \in Nat  BY <1>0 DEF PickInv, Slots, Sources
  <2>2. v \in Errands /\ v.seen = 0  BY <2>1, NoAvatarTyped DEF Errands
  <2>3. Set(p, v) /\ (Goto(p, "putIcon") \/ Goto(p, "dropIcon")) /\ UNCHANGED <<account, picks, intact>>
        /\ (stored' = stored \/ stored' = [stored EXCEPT ![o] = None])
    BY <1>13, Zenon DEF IconOwner, DeleteOwner, avatarVars
  <2>4. stored' \in [Sources -> Shots \cup {None}]  BY <1>0, <2>3 DEF PickInv
  <2> HIDE DEF v
  <2>5. ErrandOK("putIcon", v, account, picks, intact) /\ ErrandOK("dropIcon", v, account, picks, intact)
    BY <2>1, <2>2 DEF ErrandOK
  <2> QED  BY <1>2, <2>3, <2>4, <2>5
<1>14. ASSUME NEW p \in Procs, SetEntityIcon(p) \/ DropIcon(p)
       PROVE  AvatarsInv'
  BY <1>0, <1>2, <1>14 DEF SetEntityIcon, DropIcon, Done, PickInv
<1>15. ASSUME NEW p \in Procs, NEW o \in Upstreams, DeleteEntityIcon(p, o)
       PROVE  AvatarsInv'
  BY <1>0, <1>15 DEF DeleteEntityIcon, desk, AvatarsInv, PickInv, ErrandsInv
<1> QED  BY <1>1, <1>3, <1>4, <1>5, <1>6, <1>7, <1>8, <1>9, <1>10, <1>11, <1>12, <1>13, <1>14, <1>15, AvatarsStep
         DEF AvatarsNext

LEMMA AvatarsInvInit == Init => AvatarsInv
<1> SUFFICES ASSUME Init PROVE AvatarsInv  OBVIOUS
<1>1. PickInv
  <2>1. account = [source |-> None, etag |-> None, picked |-> FALSE] /\ picks = 0 /\ intact = FALSE
        /\ stored = [s \in Sources |-> None]
    BY DEF Init, AvatarsInit
  <2>2. account \in [source : Slots, etag : Shots \cup {None}, picked : BOOLEAN]  BY <2>1 DEF Slots
  <2>3. stored \in [Sources -> Shots \cup {None}]  BY <2>1
  <2>4. ~account.picked  BY <2>1, Zenon
  <2>5. picks \in Nat /\ ~(picks > 0)  BY <2>1
  <2>6. intact \in BOOLEAN /\ ~intact  BY <2>1, Zenon
  <2> QED  BY <2>2, <2>3, <2>4, <2>5, <2>6, Zenon DEF PickInv
<1>2. ErrandsInv  BY DEF Init, ErrandsInv, AvatarsAt
<1> QED  BY <1>1, <1>2 DEF AvatarsInv

\* An upload or refresh that takes the pick's place had not seen it.
LEMMA PickTaken ==
    ASSUME DeskOK, AvatarsInv, [Next]_vars, NEW p \in Procs, pc[p] \in {"uploadCommit", "activate"}, pc'[p] = "idle",
           intact, ~intact'
    PROVE  loc[p].seen < picks
<1>0. PickInv /\ ErrandOK(pc[p], loc[p], account, picks, intact)  BY DEF AvatarsInv, ErrandsInv, AvatarsAt
<1>1. loc[p].seen \in Nat /\ picks \in Nat /\ loc[p].seen <= picks /\ picks > 0  BY <1>0 DEF ErrandOK, Errands, PickInv
<1>2. AvatarsNext  BY AvatarsStep DEF Apart, AvatarsAt
<1>3. \A q \in Procs : q # p => \A l : ~Goto(q, l)  BY DEF Goto, DeskOK
<1>4. PICK q \in Procs : UploadCommit(q) \/ DeleteCommit(q) \/ Activate(q)
  BY <1>2 DEF AvatarsNext, UploadRead, RefreshList, SelectRead, SelectCommit, DeleteLoad, FetchAvatar, RefreshRead,
     IconOwner, DeleteEntityIcon, DeleteOwner, SetEntityIcon, DropIcon, avatarVars
<1>5. q = p /\ KeepHistory  BY <1>3, <1>4, Zenon DEF UploadCommit, DeleteCommit, Activate, Done
<1>6. account'.source # account.source  BY <1>5 DEF KeepHistory
<1>7. CASE UploadCommit(p)
  <2>1. loc[p].activate  BY <1>6, <1>7 DEF UploadCommit
  <2> QED  BY <1>0, <1>1, <1>7, <2>1 DEF UploadCommit, ErrandOK
<1>8. CASE Activate(p)
  <2>1. loc[p].src \in Sources /\ stored \in [Sources -> Shots \cup {None}]  BY <1>0, <1>8 DEF Activate, ErrandOK, PickInv
  <2>2. account'.source = loc[p].src  BY <1>0, <1>8, <2>1, SetActiveTyped DEF Activate
  <2>3. loc[p].seen # picks  BY <1>0, <1>6, <1>8, <2>2 DEF Activate, ErrandOK
  <2> QED  BY <1>1, <2>3
<1>9. CASE DeleteCommit(p)  BY <1>9 DEF DeleteCommit
<1> QED  BY <1>4, <1>5, <1>7, <1>8, <1>9

\* What the user picked stays active until the user changes it: no upload and no sign-in
\* through a provider takes its place, but one that had read the account before the pick
\* was committed (handlePutAvatar, shouldActivate).
THEOREM PickStaysUnlessUnseen == Spec => LatestPickKept
<1> DEFINE Kept == \A p \in Procs :
              pc[p] \in {"uploadCommit", "activate"} /\ pc'[p] = "idle" /\ intact /\ ~intact'
              => loc[p].seen < picks
<1>1. DeskOK /\ AvatarsInv /\ [Next]_vars => DeskOK' /\ AvatarsInv'  BY DeskStep, AvatarsInvStep
<1>2. DeskOK /\ AvatarsInv /\ [Next]_vars => [Kept]_<<intact, pc>>  BY PickTaken
<1> QED  BY <1>1, <1>2, DeskInit, AvatarsInvInit, PTL DEF Spec, LatestPickKept

-----------------------------------------------------------------------------
(* Upstream providers                                                        *)

Cfgs == AllConfigs \cup Configs
Docs == AllDocuments \cup Documents
Providers == [on : BOOLEAN, id : Nat, cfg : Cfgs, secret : Nat]
Idents == [id : Nat, cfg : Cfgs, secret : Nat]

\* Settings a client can have, flows that begin with them, and records of a test.
Resolved == {ResolveConfig(c, d) : c \in Cfgs, d \in Docs} \ {None}
Flows == [by : Idents, r : Resolved, test : BOOLEAN]
Open == {"awaiting_callback", "ready"}
TestRecs == [status : Open \cup {"running", "succeeded", "failed"}, who : Testers \cup {None}, by : Idents,
             r : Resolved, secrets : BOOLEAN, code : BOOLEAN, until : Nat]
Calls == [pr : Providers \cup {None}, f : Flow \cup {None}, who : Testers \cup {None}, raw : TestRecs \cup {None},
          snap : Resolved \cup {None}, by : Idents \cup {None}, r : Resolved \cup {None}, ok : BOOLEAN]

\* x is by the client, and with the settings, flow f of b began with.
OfFlow(x, f, b) == f \in 1..Len(b) /\ x.by = b[f].by /\ x.r = b[f].r
OfTest(x, f, b) == OfFlow(x, f, b) /\ b[f].test

\* What a request at label l knows in v, when the flows of b have begun.
CallOK(l, v, b) ==
    /\ v \in Calls
    /\ l \in {"client", "build", "keepClient", "ask"} =>
          /\ v.pr \in Providers
          /\ v.f # None => /\ v.f \in 1..Len(b) /\ ~b[v.f].test
                           /\ ProviderIdentity(v.pr) = b[v.f].by /\ v.snap = b[v.f].r
    /\ l \in {"keepClient", "ask"} =>
          v.by = ProviderIdentity(v.pr) /\ v.r \in Resolved /\ (v.snap # None => v.r = v.snap)
    /\ l \in {"testStart", "completeRead", "completeClaim"} => v.pr \in Providers
    /\ l \in {"callbackStore", "completeRead", "completeClaim", "testRun", "testSave"} => v.f \in Flow
    /\ l \in {"callbackStore", "completeClaim", "testRun", "testSave"} => v.raw \in TestRecs /\ OfTest(v.raw, v.f, b)
    /\ l \in {"callbackStore", "completeClaim"} => v.raw.status \in Open
    /\ l = "completeClaim" => (v.ok => v.raw.by = ProviderIdentity(v.pr))
    /\ l = "testRun" => v.raw.by = ProviderIdentity(v.pr)

CallsInv == \A p \in Procs : pc[p] \in UpstreamAt \ {"idle"} => CallOK(pc[p], loc[p], begun)

\* A client in the cache is one of the configuration and the settings of its key.
CachedOK(c) == c.by = c.key.by /\ c.r \in Resolved /\ (c.key.snap # None => c.r = c.key.snap)

FlowInv ==
    /\ provider \in Providers /\ document \in Docs /\ begun \in Seq(Flows) /\ Len(begun) <= MaxBegun
    /\ test \in [Flow -> Cells(TestRecs)]
    /\ \A s \in signIns : OfFlow(s, s.f, begun) /\ ~begun[s.f].test
    /\ \A c \in clients : CachedOK(c)
    /\ \A a \in asked : OfFlow(a, a.f, begun) /\ (begun[a.f].test => a.again = FALSE)
    /\ \A f \in Flow : test[f].exp # 0 => OfTest(test[f].val, f, begun)

\* The record of a test whose code is exchanged, or about to be, is open no more;
\* and one request at most is about to.
Closed(f, t) == t[f].val.status \notin Open
OnceInv ==
    /\ \A a \in asked : begun[a.f].test => Closed(a.f, test)
    /\ \A p \in Procs : pc[p] = "testRun" =>
          /\ Closed(loc[p].f, test) /\ \A a \in asked : a.f # loc[p].f
          /\ \A q \in Procs : q # p /\ pc[q] = "testRun" => loc[q].f # loc[p].f

UpstreamInv == FlowInv /\ OnceInv /\ CallsInv

\* No flow is forgotten or altered.
Longer == begun' = begun \/ \E e \in Flows : begun' = Append(begun, e)

LEMMA LongerKeeps ==
    ASSUME begun \in Seq(Flows), Longer
    PROVE  /\ begun' \in Seq(Flows)
           /\ \A f \in 1..Len(begun) : f \in 1..Len(begun') /\ begun'[f] = begun[f]
<1>1. CASE begun' = begun  BY <1>1
<1>2. ASSUME NEW e \in Flows, begun' = Append(begun, e)
      PROVE  /\ begun' \in Seq(Flows)
             /\ \A f \in 1..Len(begun) : f \in 1..Len(begun') /\ begun'[f] = begun[f]
  BY <1>2
<1> QED  BY <1>1, <1>2 DEF Longer

LEMMA OfFlowKept ==
    ASSUME begun \in Seq(Flows), Longer, NEW x, NEW f, OfFlow(x, f, begun)
    PROVE  OfFlow(x, f, begun') /\ begun'[f] = begun[f]
BY LongerKeeps DEF OfFlow

LEMMA CallKept ==
    ASSUME begun \in Seq(Flows), Longer, NEW l, NEW v, CallOK(l, v, begun)
    PROVE  CallOK(l, v, begun')
<1>1. \A f \in 1..Len(begun) : f \in 1..Len(begun') /\ begun'[f] = begun[f]  BY LongerKeeps
<1> HIDE DEF CallOK
<1>2. l \in {"client", "build", "keepClient", "ask"} /\ v.f # None =>
           /\ v.f \in 1..Len(begun') /\ ~begun'[v.f].test
           /\ ProviderIdentity(v.pr) = begun'[v.f].by /\ v.snap = begun'[v.f].r
  BY <1>1 DEF CallOK
<1>3. l \in {"callbackStore", "completeClaim", "testRun", "testSave"} => OfTest(v.raw, v.f, begun')
  BY <1>1 DEF CallOK, OfTest, OfFlow
<1> QED  BY <1>2, <1>3 DEF CallOK

LEMMA CallsMove ==
    ASSUME DeskOK, begun \in Seq(Flows), CallsInv, Longer, NEW p \in Procs, NEW l, Goto(p, l), NEW v,
           Set(p, v) \/ (UNCHANGED loc /\ v = loc[p]), l = "idle" \/ CallOK(l, v, begun')
    PROVE  CallsInv'
<1> SUFFICES ASSUME NEW q \in Procs, pc'[q] \in UpstreamAt \ {"idle"}
             PROVE  CallOK(pc'[q], loc'[q], begun')
  BY DEF CallsInv
<1>1. pc'[p] = l /\ loc'[p] = v /\ (q # p => pc'[q] = pc[q] /\ loc'[q] = loc[q])  BY DEF Goto, Set, DeskOK
<1>2. CASE q = p  BY <1>1, <1>2
<1>3. CASE q # p  BY <1>1, <1>3, CallKept DEF CallsInv
<1> QED  BY <1>2, <1>3

\* A step of a request that is not to exchange the code of a test.
LEMMA OnceKept ==
    ASSUME DeskOK, FlowInv, OnceInv, CallsInv, Longer, asked' = asked, NEW p \in Procs, NEW l, l # "testRun", Goto(p, l),
           NEW v, Set(p, v) \/ UNCHANGED loc,
           \A f \in Flow : f \in 1..Len(begun) /\ begun[f].test /\ Closed(f, test) => Closed(f, test')
    PROVE  OnceInv'
<1>1. begun \in Seq(Flows) /\ \A f \in 1..Len(begun) : begun'[f] = begun[f]  BY LongerKeeps DEF FlowInv
<1>2. \A q \in Procs : pc'[q] = "testRun" => q # p /\ pc[q] = "testRun" /\ loc'[q] = loc[q]
  BY DEF Goto, Set, DeskOK
<1>3. \A q \in Procs : pc[q] = "testRun" => loc[q].f \in Flow /\ loc[q].f \in 1..Len(begun) /\ begun[loc[q].f].test
  BY DEF CallsInv, CallOK, UpstreamAt, OfTest, OfFlow
<1>4. \A a \in asked : a.f \in 1..Len(begun) /\ a.f \in Flow
  BY UpstreamAssumption DEF FlowInv, OfFlow, Flow
<1>5. \A a \in asked' : begun'[a.f].test => Closed(a.f, test')  BY <1>1, <1>4 DEF OnceInv
<1>6. \A q \in Procs : pc'[q] = "testRun" =>
          /\ Closed(loc'[q].f, test') /\ \A a \in asked' : a.f # loc'[q].f
          /\ \A o \in Procs : o # q /\ pc'[o] = "testRun" => loc'[o].f # loc'[q].f
  BY <1>2, <1>3 DEF OnceInv
<1> QED  BY <1>5, <1>6 DEF OnceInv

LEMMA SettingsEndSignIn ==
    ASSUME NEW r \in Resolved
    PROVE  r.jwks = "none" => r.userinfo # "" /\ ~ImplicitFlow(r)
<1>1. PICK c \in Cfgs, d \in Docs : r = ResolveConfig(c, d)  BY DEF Resolved
<1>2. /\ r = ResolvedSettings(c, d) /\ ValidateConfig(c)
      /\ r.jwks = "none" => c.jwks # None /\ r.userinfo # ""
  <2> DEFINE s == ResolvedSettings(c, d)
             cond == /\ ValidateConfig(c) /\ s.auth # None
                     /\ s.jwks = "none" => c.jwks # None /\ s.userinfo # ""
  <2>1. r # None  BY DEF Resolved
  <2>2. r = IF cond THEN s ELSE None  BY <1>1, Zenon DEF ResolveConfig
  <2>3. cond /\ r = s  BY <2>1, <2>2, Zenon
  <2> QED  BY <2>3, Zenon
<1>3. r.jwks = Endpoint(c.jwks, d.jwks, c) /\ r.type = c.type  BY <1>2 DEF ResolvedSettings
<1>4. r.jwks = "none" => c.jwks = "none"  BY <1>2, <1>3 DEF Endpoint
<1> QED  BY <1>2, <1>3, <1>4 DEF ValidateConfig, ImplicitFlow

LEMMA IdentityTyped ==
    ASSUME NEW pr \in Providers
    PROVE  ProviderIdentity(pr) \in Idents
BY DEF ProviderIdentity, Providers, Idents

LEMMA NoCallTyped ==
    /\ NoCall \in Calls /\ NoCall.f = None /\ NoCall.snap = None /\ NoCall.r = None
BY DEF NoCall, Calls

\* A step that begins and exchanges nothing and leaves the tests alone.
LEMMA QuietCall ==
    ASSUME DeskOK, UpstreamInv, UNCHANGED <<signIns, test, begun, asked>>, provider' \in Providers, document' \in Docs,
           \A c \in clients' : CachedOK(c), NEW p \in Procs, NEW l, l # "testRun", Goto(p, l), NEW v,
           Set(p, v) \/ (UNCHANGED loc /\ v = loc[p]), l = "idle" \/ CallOK(l, v, begun)
    PROVE  UpstreamInv'
<1>1. FlowInv /\ OnceInv /\ CallsInv /\ Longer  BY DEF UpstreamInv, Longer
<1>2. FlowInv'  BY <1>1 DEF FlowInv
<1>3. CallsInv'  BY <1>1, CallsMove DEF FlowInv
<1>4. OnceInv'  BY <1>1, OnceKept
<1> QED  BY <1>2, <1>3, <1>4 DEF UpstreamInv

\* The same, when no request moves.
LEMMA QuietUpstream ==
    ASSUME UpstreamInv, UNCHANGED <<pc, loc, clients, signIns, test, begun, asked>>, provider' \in Providers, document' \in Docs
    PROVE  UpstreamInv'
<1>1. FlowInv'  BY DEF UpstreamInv, FlowInv
<1>2. CallsInv'  BY DEF UpstreamInv, CallsInv
<1>3. OnceInv'  BY DEF UpstreamInv, OnceInv
<1> QED  BY <1>1, <1>2, <1>3 DEF UpstreamInv

\* What ReplaceTest does to the record of a test.
LEMMA Replaced ==
    ASSUME clock \in Nat, test \in [Flow -> Cells(TestRecs)], NEW f \in Flow, NEW old \in TestRecs, NEW new \in TestRecs,
           test' = ReplaceTest(f, old, new), test' # test
    PROVE  /\ test' \in [Flow -> Cells(TestRecs)]
           /\ test[f].exp # 0 /\ test[f].val = old /\ test'[f].exp # 0 /\ test'[f].val = new
           /\ \A g \in Flow \ {f} : test'[g] = test[g]
<1> DEFINE ttl == old.until - clock
<1>1. clock < old.until /\ old.until \in Nat  BY DEF ReplaceTest, TestRecs
<1>2. ttl \in Nat /\ clock + ttl # 0  BY <1>1
<1>3. Holds(test, f, old, clock) /\ test' = SetEx(test, f, new, ttl, clock)
  BY <1>1 DEF ReplaceTest, CompareAndSwap
<1> HIDE DEF ttl
<1>4. test[f].exp # 0 /\ test[f].val = old
  <2>1. Found(test, f, clock) /\ test[f].val = old  BY <1>3 DEF Holds
  <2>2. test[f].exp \in Nat /\ clock < test[f].exp  BY <2>1, FoundTyped
  <2> QED  BY <2>1, <2>2
<1>5. /\ test' \in [Flow -> Cells(TestRecs)] /\ test'[f] = [val |-> new, exp |-> clock + ttl]
      /\ \A g \in Flow \ {f} : test'[g] = test[g]
  BY <1>2, <1>3, SetExTyped
<1> QED  BY <1>2, <1>4, <1>5

\* A request replaces the record it read: the code is exchanged by the one that closes it.
LEMMA Swapped ==
    ASSUME DeskOK, UpstreamInv, UNCHANGED <<provider, document, clients, signIns, begun, asked>>, NEW p \in Procs,
           CallOK(pc[p], loc[p], begun), pc[p] # "testRun", loc[p].f \in Flow, loc[p].raw \in TestRecs,
           OfTest(loc[p].raw, loc[p].f, begun),
           NEW new \in TestRecs, new.by = loc[p].raw.by, new.r = loc[p].raw.r, new.status \in Open => loc[p].raw.status \in Open,
           NEW l, Swap(p, new, l), CallOK(l, [loc[p] EXCEPT !.raw = new], begun),
           l = "testRun" => new.status \notin Open /\ loc[p].raw.status \in Open
    PROVE  UpstreamInv'
<1> DEFINE f == loc[p].f
           old == loc[p].raw
           v == [loc[p] EXCEPT !.raw = new]
<1>1. FlowInv /\ OnceInv /\ CallsInv /\ Longer /\ clock \in Nat  BY DEF UpstreamInv, Longer, DeskOK
<1>2. test' = ReplaceTest(f, old, new)  BY DEF Swap
<1>3. CASE test' = test
  <2>1. Done(p)  BY <1>3, Zenon DEF Swap
  <2> QED  BY <1>1, <1>3, <2>1, QuietCall DEF Done, FlowInv
<1>4. CASE test' # test
  <2>1. Goto(p, l) /\ Set(p, v)  BY <1>4, Zenon DEF Swap
  <2>2. v.f = f  BY DEF CallOK, Calls
  <2> HIDE DEF v
  <2>3. /\ test' \in [Flow -> Cells(TestRecs)]
        /\ test[f].exp # 0 /\ test[f].val = old /\ test'[f].exp # 0 /\ test'[f].val = new
        /\ \A g \in Flow \ {f} : test'[g] = test[g]
    BY <1>1, <1>2, <1>4, Replaced DEF FlowInv
  <2>4. FlowInv'
    <3>1. OfTest(new, f, begun)  BY DEF OfTest, OfFlow
    <3>2. \A g \in Flow : test'[g].exp # 0 => OfTest(test'[g].val, g, begun)
      BY <1>1, <2>3, <3>1 DEF FlowInv
    <3> QED  BY <1>1, <2>3, <3>2 DEF FlowInv
  <2>5. CallsInv'  BY <1>1, <2>1, CallsMove DEF FlowInv, v
  <2>6. \A g \in Flow : Closed(g, test) => Closed(g, test')
    BY <2>3 DEF Closed
  <2>7. ASSUME l # "testRun" PROVE OnceInv'  BY <1>1, <2>1, <2>6, <2>7, OnceKept
  <2>8. ASSUME l = "testRun" PROVE OnceInv'
    <3>1. ~Closed(f, test) /\ Closed(f, test')  BY <2>3, <2>8 DEF Closed
    <3>2. \A a \in asked : a.f # f  BY <1>1, <3>1 DEF OnceInv, OfTest
    <3>3. \A q \in Procs : pc[q] = "testRun" => loc[q].f # f /\ loc[q].f \in Flow
      BY <1>1, <3>1 DEF OnceInv, CallsInv, CallOK, UpstreamAt
    <3>4. pc'[p] = "testRun" /\ loc'[p] = v /\ \A q \in Procs : q # p => pc'[q] = pc[q] /\ loc'[q] = loc[q]
      BY <2>1, <2>8 DEF Goto, Set, DeskOK
    <3>5. \A a \in asked : begun[a.f].test => Closed(a.f, test')
      <4>1. \A a \in asked : a.f \in Flow  BY <1>1, UpstreamAssumption DEF FlowInv, OfFlow, Flow
      <4> QED  BY <1>1, <2>6, <4>1 DEF OnceInv
    <3>6. \A q \in Procs : pc'[q] = "testRun" =>
          /\ Closed(loc'[q].f, test') /\ \A a \in asked' : a.f # loc'[q].f
          /\ \A o \in Procs : o # q /\ pc'[o] = "testRun" => loc'[o].f # loc'[q].f
      <4> SUFFICES ASSUME NEW q \in Procs, pc'[q] = "testRun"
                   PROVE  /\ Closed(loc'[q].f, test') /\ \A a \in asked' : a.f # loc'[q].f
                          /\ \A o \in Procs : o # q /\ pc'[o] = "testRun" => loc'[o].f # loc'[q].f
        OBVIOUS
      <4>1. CASE q = p  BY <2>2, <3>1, <3>2, <3>3, <3>4, <4>1
      <4>2. CASE q # p  BY <1>1, <2>2, <2>6, <3>3, <3>4, <4>2 DEF OnceInv
      <4> QED  BY <4>1, <4>2
    <3> QED  BY <3>5, <3>6 DEF OnceInv
  <2> QED  BY <2>4, <2>5, <2>7, <2>8 DEF UpstreamInv
<1> QED  BY <1>3, <1>4

\* Flow n begins with what the client of pr and r is for.
LEMMA BeganTyped ==
    ASSUME begun \in Seq(Flows), NEW pr \in Providers, NEW r \in Resolved, NEW b \in BOOLEAN, Began(pr, r, b)
    PROVE  /\ Longer /\ Len(begun') = Len(begun) + 1
           /\ begun'[Len(begun) + 1] = [by |-> ProviderIdentity(pr), r |-> r, test |-> b]
<1> DEFINE e == [by |-> ProviderIdentity(pr), r |-> r, test |-> b]
<1>1. e \in Flows  BY IdentityTyped DEF Flows
<1>2. begun' = Append(begun, e)  BY DEF Began
<1> HIDE DEF e
<1>3. Longer /\ Len(begun') = Len(begun) + 1 /\ begun'[Len(begun) + 1] = e  BY <1>1, <1>2 DEF Longer
<1> QED  BY <1>3 DEF e

LEMMA SignInSteps ==
    ASSUME DeskOK, UpstreamInv, NEW p \in Procs,
           \/ SignInBegin(p) \/ \E s \in signIns : SignInAdvance(p, s)
           \/ Client(p) \/ Build(p) \/ KeepClient(p)
    PROVE  UpstreamInv'
<1>0. FlowInv /\ OnceInv /\ CallsInv  BY DEF UpstreamInv
<1>1. provider \in Providers /\ document \in Docs /\ \A c \in clients : CachedOK(c)  BY <1>0 DEF FlowInv
<1>2. CASE SignInBegin(p)
  <2> DEFINE v == [NoCall EXCEPT !.pr = provider]
  <2>1. v \in Calls /\ v.pr = provider /\ v.f = None  BY <1>1, NoCallTyped DEF Calls
  <2>2. Goto(p, "client") /\ Set(p, v) /\ UNCHANGED upstreamVars  BY <1>2, Zenon DEF SignInBegin
  <2> HIDE DEF v
  <2>3. CallOK("client", v, begun)  BY <1>1, <2>1 DEF CallOK
  <2> QED  BY <1>1, <2>2, <2>3, QuietCall DEF upstreamVars
<1>3. ASSUME NEW s \in signIns, SignInAdvance(p, s)
      PROVE  UpstreamInv'
  <2> DEFINE v == [NoCall EXCEPT !.pr = provider, !.f = s.f, !.snap = s.r]
  <2>1. OfFlow(s, s.f, begun) /\ ~begun[s.f].test /\ begun \in Seq(Flows)  BY <1>0 DEF FlowInv
  <2>2. s.f \in Flow  BY <1>0, <2>1, UpstreamAssumption DEF FlowInv, OfFlow, Flow
  <2>3. begun[s.f] \in Flows  BY <2>1, Element DEF OfFlow
  <2>4. s.r \in Resolved  BY <2>1, <2>3 DEF OfFlow, Flows
  <2>5. v \in Calls /\ v.pr = provider /\ v.f = s.f /\ v.snap = s.r  BY <1>1, <2>2, <2>4, NoCallTyped DEF Calls
  <2>6. UNCHANGED upstreamVars  BY <1>3 DEF SignInAdvance
  <2>7. CASE s.by = ProviderIdentity(provider)
    <3>1. Goto(p, "client") /\ Set(p, v)  BY <1>3, <2>7, Zenon DEF SignInAdvance
    <3> HIDE DEF v
    <3>2. CallOK("client", v, begun)  BY <1>1, <2>1, <2>5, <2>7 DEF CallOK, OfFlow
    <3> QED  BY <1>1, <2>6, <3>1, <3>2, QuietCall DEF upstreamVars
  <2>8. CASE s.by # ProviderIdentity(provider)
    <3>1. UNCHANGED frame  BY <1>3, <2>8, Zenon DEF SignInAdvance
    <3> QED  BY <1>1, <2>6, <3>1, QuietUpstream DEF upstreamVars, frame
  <2> QED  BY <2>7, <2>8
<1> DEFINE l == loc[p]
<1>4. CASE Client(p)
  <2>1. CallOK("client", l, begun)  BY <1>0, <1>4 DEF Client, CallsInv, UpstreamAt
  <2>2. \A c \in clients' : CachedOK(c)  BY <1>1, <1>4 DEF Client
  <2>3. UNCHANGED <<provider, document, signIns, test, begun, asked>>  BY <1>4 DEF Client
  <2>4. ASSUME NEW c \in clients, c.key = CacheKey(l.pr, l.snap), Goto(p, "ask"), Set(p, [l EXCEPT !.by = c.by, !.r = c.r])
        PROVE  UpstreamInv'
    <3> DEFINE v == [l EXCEPT !.by = c.by, !.r = c.r]
    <3>1. c.by = ProviderIdentity(l.pr) /\ c.r \in Resolved /\ (l.snap # None => c.r = l.snap)
      BY <1>1, <2>4 DEF CachedOK, CacheKey
    <3>2. l \in Calls /\ c.by \in Idents  BY <2>1, <3>1, IdentityTyped DEF CallOK
    <3>3. v \in Calls /\ v.by = c.by /\ v.r = c.r /\ v.pr = l.pr /\ v.f = l.f /\ v.snap = l.snap
      BY <3>1, <3>2 DEF Calls
    <3>4. Set(p, v)  BY <2>4
    <3> HIDE DEF v
    <3>5. CallOK("ask", v, begun)  BY <2>1, <3>1, <3>3 DEF CallOK
    <3> QED  BY <1>1, <2>2, <2>3, <2>4, <3>4, <3>5, QuietCall
  <2>5. CASE Goto(p, "build") /\ UNCHANGED loc
    <3>1. CallOK("build", l, begun)  BY <2>1 DEF CallOK
    <3> QED  BY <1>1, <2>2, <2>3, <2>5, <3>1, QuietCall
  <2> QED  BY <1>4, <2>4, <2>5 DEF Client
<1>5. CASE Build(p)
  <2> DEFINE r == IF l.snap # None THEN l.snap ELSE ResolveConfig(l.pr.cfg, document)
             i == ProviderIdentity(l.pr)
             v == [l EXCEPT !.by = i, !.r = r]
  <2>1. CallOK("build", l, begun)  BY <1>0, <1>5 DEF Build, CallsInv, UpstreamAt
  <2>2. UNCHANGED upstreamVars  BY <1>5 DEF Build
  <2>3. CASE r # None /\ Goto(p, "keepClient") /\ Set(p, v)
    <3>1. l \in Calls /\ l.pr \in Providers /\ l.pr.cfg \in Cfgs /\ i \in Idents
      BY <2>1, IdentityTyped DEF CallOK, Providers
    <3>2. r \in Resolved /\ (l.snap # None => r = l.snap)
      BY <1>1, <2>3, <3>1 DEF Calls, Resolved
    <3> HIDE DEF r, i
    <3>3. v \in Calls /\ v.by = i /\ v.r = r /\ v.pr = l.pr /\ v.f = l.f /\ v.snap = l.snap
      BY <3>1, <3>2 DEF Calls
    <3> HIDE DEF v
    <3>4. CallOK("keepClient", v, begun)  BY <2>1, <3>2, <3>3 DEF CallOK, i
    <3> QED  BY <1>1, <2>2, <2>3, <3>4, QuietCall DEF upstreamVars
  <2>4. CASE Done(p)  BY <1>1, <2>2, <2>4, QuietCall DEF upstreamVars, Done
  <2> QED  BY <1>5, <2>3, <2>4, Zenon DEF Build
<1>6. CASE KeepClient(p)
  <2> DEFINE entry(snap) == [key |-> CacheKey(l.pr, snap), by |-> l.by, r |-> l.r, exp |-> clock + ClientCacheTTL]
  <2>1. CallOK("keepClient", l, begun)  BY <1>0, <1>6 DEF KeepClient, CallsInv, UpstreamAt
  <2>2. UNCHANGED <<provider, document, signIns, test, begun, asked, loc>> /\ Goto(p, "ask")  BY <1>6 DEF KeepClient
  <2>3. CachedOK(entry(l.snap)) /\ CachedOK(entry(l.r))  BY <2>1 DEF CallOK, CachedOK, CacheKey
  <2>4. \A c \in clients' : c \in clients \/ c = entry(l.snap) \/ c = entry(l.r)
    BY <1>6, Zenon DEF KeepClient
  <2> HIDE DEF entry
  <2>5. \A c \in clients' : CachedOK(c)  BY <1>1, <2>3, <2>4
  <2>6. CallOK("ask", l, begun)  BY <2>1 DEF CallOK
  <2> QED  BY <1>1, <2>2, <2>5, <2>6, QuietCall
<1> QED  BY <1>2, <1>3, <1>4, <1>5, <1>6

LEMMA BeginStep ==
    ASSUME DeskOK, UpstreamInv, NEW p \in Procs, BeginStored(p)
    PROVE  UpstreamInv'
<1> DEFINE l == loc[p]
           f == Len(begun) + 1
           s == [f |-> f, by |-> ProviderIdentity(l.pr), r |-> l.r]
<1>0. FlowInv /\ OnceInv /\ CallsInv /\ begun \in Seq(Flows)  BY DEF UpstreamInv, FlowInv
<1>1. CallOK("ask", l, begun)  BY <1>0 DEF BeginStored, CallsInv, UpstreamAt
<1>2. /\ Began(l.pr, l.r, FALSE) /\ signIns' = signIns \cup {s} /\ Done(p) /\ MayBegin
      /\ UNCHANGED <<provider, document, clients, test, asked>>
  BY DEF BeginStored
<1>3. l.pr \in Providers /\ l.r \in Resolved /\ FALSE \in BOOLEAN  BY <1>1 DEF CallOK
<1>4. Longer /\ Len(begun') = f /\ begun'[f] = [by |-> ProviderIdentity(l.pr), r |-> l.r, test |-> FALSE]
  BY <1>0, <1>2, <1>3, BeganTyped
<1>5. begun' \in Seq(Flows) /\ f \in 1..Len(begun')  BY <1>0, <1>4, LongerKeeps
<1>6. Len(begun') <= MaxBegun  BY <1>0, <1>2, <1>4, UpstreamAssumption DEF MayBegin, FlowInv
<1>7. \A t \in signIns' : OfFlow(t, t.f, begun') /\ ~begun'[t.f].test
  <2>1. OfFlow(s, s.f, begun') /\ ~begun'[s.f].test  BY <1>4, <1>5 DEF OfFlow
  <2>2. \A t \in signIns : OfFlow(t, t.f, begun') /\ ~begun'[t.f].test  BY <1>0, <1>4, OfFlowKept DEF FlowInv
  <2> HIDE DEF s
  <2> QED  BY <1>2, <2>1, <2>2
<1> HIDE DEF f, s
<1>8. \A a \in asked : OfFlow(a, a.f, begun') /\ (begun'[a.f].test => a.again = FALSE)
  BY <1>0, <1>4, OfFlowKept DEF FlowInv
<1>9. \A g \in Flow : test[g].exp # 0 => OfTest(test[g].val, g, begun')
  BY <1>0, <1>4, OfFlowKept DEF FlowInv, OfTest
<1>10. FlowInv'  BY <1>0, <1>2, <1>5, <1>6, <1>7, <1>8, <1>9 DEF FlowInv
<1>11. CallsInv'  BY <1>0, <1>2, <1>4, CallsMove DEF Done
<1>12. OnceInv'  BY <1>0, <1>2, <1>4, OnceKept DEF Done
<1> QED  BY <1>10, <1>11, <1>12 DEF UpstreamInv

LEMMA TestStartStep ==
    ASSUME DeskOK, UpstreamInv, NEW p \in Procs, TestStart(p)
    PROVE  UpstreamInv'
<1> DEFINE l == loc[p]
           f == Len(begun) + 1
           i == ProviderIdentity(l.pr)
           r == ResolveConfig(l.pr.cfg, document)
           rec == [status |-> "awaiting_callback", who |-> l.who, by |-> i, r |-> r, secrets |-> TRUE, code |-> FALSE,
                   until |-> clock + DiagnosticTTL]
<1>0. FlowInv /\ OnceInv /\ CallsInv /\ begun \in Seq(Flows) /\ clock \in Nat  BY DEF UpstreamInv, FlowInv, DeskOK
<1>1. CallOK("testStart", l, begun)  BY <1>0 DEF TestStart, CallsInv, UpstreamAt
<1>2. Done(p) /\ UNCHANGED <<provider, document, clients, signIns, asked>>  BY DEF TestStart
<1>3. CASE UNCHANGED <<test, begun>>  BY <1>0, <1>2, <1>3, QuietCall DEF Done, FlowInv
<1>4. CASE r # None /\ MayBegin /\ test' = SetEx(test, f, rec, DiagnosticTTL, clock) /\ Began(l.pr, r, TRUE)
  <2>1. l \in Calls /\ l.pr \in Providers /\ l.pr.cfg \in Cfgs /\ i \in Idents /\ l.who \in Testers \cup {None}
    BY <1>1, IdentityTyped DEF CallOK, Providers, Calls
  <2>2. r \in Resolved /\ TRUE \in BOOLEAN /\ document \in Docs  BY <1>0, <1>4, <2>1 DEF Resolved, FlowInv
  <2>3. Longer /\ Len(begun') = f /\ begun'[f] = [by |-> i, r |-> r, test |-> TRUE]
    BY <1>0, <1>4, <2>1, <2>2, BeganTyped
  <2>4. begun' \in Seq(Flows) /\ f \in 1..Len(begun')  BY <1>0, <2>3, LongerKeeps
  <2>5. f <= MaxBegun /\ f \in Flow /\ f \notin 1..Len(begun)
    BY <1>0, <1>4, UpstreamAssumption DEF MayBegin, FlowInv, Flow
  <2> HIDE DEF f, i, r
  <2>6. clock + DiagnosticTTL \in Nat  BY <1>0, UpstreamAssumption
  <2>7. rec \in TestRecs  BY <2>1, <2>2, <2>6 DEF TestRecs, Open
  <2>8. OfTest(rec, f, begun')  BY <2>3, <2>4 DEF OfTest, OfFlow
  <2> HIDE DEF rec
  <2>9. /\ test' \in [Flow -> Cells(TestRecs)] /\ test'[f] = [val |-> rec, exp |-> clock + DiagnosticTTL]
        /\ \A g \in Flow \ {f} : test'[g] = test[g]
    <3>1. test \in [Flow -> Cells(TestRecs)] /\ DiagnosticTTL \in Nat  BY <1>0, UpstreamAssumption DEF FlowInv
    <3>2. test' = SetEx(test, f, rec, DiagnosticTTL, clock)  BY <1>4
    <3>3. f \in Flow /\ clock \in Nat  BY <1>0, <2>5
    <3> QED  BY <2>7, <3>1, <3>2, <3>3, SetExTyped
  <2>10. \A t \in signIns : OfFlow(t, t.f, begun') /\ ~begun'[t.f].test  BY <1>0, <2>3, OfFlowKept DEF FlowInv
  <2>11. \A a \in asked : OfFlow(a, a.f, begun') /\ (begun'[a.f].test => a.again = FALSE)
    BY <1>0, <2>3, OfFlowKept DEF FlowInv
  <2>12. \A g \in Flow : test'[g].exp # 0 => OfTest(test'[g].val, g, begun')
    <3> SUFFICES ASSUME NEW g \in Flow, test'[g].exp # 0 PROVE OfTest(test'[g].val, g, begun')  OBVIOUS
    <3>1. CASE g = f  BY <2>8, <2>9, <3>1
    <3>2. CASE g # f  BY <1>0, <2>3, <2>9, <3>2, OfFlowKept DEF FlowInv, OfTest
    <3> QED  BY <3>1, <3>2
  <2>13. FlowInv'
    <3>1. provider' \in Providers /\ document' \in Docs /\ \A c \in clients' : CachedOK(c)  BY <1>0, <1>2 DEF FlowInv
    <3>2. Len(begun') <= MaxBegun  BY <2>3, <2>5
    <3> QED  BY <1>2, <2>4, <2>9, <2>10, <2>11, <2>12, <3>1, <3>2 DEF FlowInv
  <2>14. CallsInv'  BY <1>0, <1>2, <2>3, CallsMove DEF Done
  <2>15. \A g \in Flow : g \in 1..Len(begun) /\ begun[g].test /\ Closed(g, test) => Closed(g, test')
    BY <2>5, <2>9 DEF Closed
  <2>16. OnceInv'  BY <1>0, <1>2, <2>3, <2>15, OnceKept DEF Done
  <2> QED  BY <2>13, <2>14, <2>16 DEF UpstreamInv
<1> QED  BY <1>3, <1>4, Zenon DEF TestStart

\* The exchange of a sign-in's code: the flow is not a test.
LEMMA ExchangeStep ==
    ASSUME DeskOK, UpstreamInv, NEW p \in Procs, SignInExchange(p)
    PROVE  UpstreamInv'
<1> DEFINE l == loc[p]
<1>0. FlowInv /\ OnceInv /\ CallsInv /\ begun \in Seq(Flows) /\ Longer
  BY DEF UpstreamInv, FlowInv, Longer, SignInExchange
<1>1. CallOK("ask", l, begun) /\ l.f # None  BY <1>0 DEF SignInExchange, CallsInv, UpstreamAt
<1>2. Done(p) /\ UNCHANGED <<provider, document, clients, test, begun>>  BY DEF SignInExchange
<1>3. /\ l.f \in 1..Len(begun) /\ ~begun[l.f].test
      /\ l.by = begun[l.f].by /\ l.snap = begun[l.f].r /\ (l.snap # None => l.r = l.snap)
  BY <1>1 DEF CallOK
<1>4. l.r = begun[l.f].r
  <2>1. begun[l.f] \in Flows  BY <1>0, <1>3, Element
  <2>2. begun[l.f].r # None  BY <2>1 DEF Flows, Resolved
  <2> QED  BY <1>3, <2>2
<1>5. CASE UNCHANGED <<asked, signIns>>  BY <1>0, <1>2, <1>5, QuietCall DEF Done, FlowInv
<1>6. CASE Ask(l.f, l.by, l.r) /\ (signIns' = {s \in signIns : s.f # l.f} \/ UNCHANGED signIns)
  <2>1. PICK again \in BOOLEAN : asked' = asked \cup {[f |-> l.f, again |-> again, by |-> l.by, r |-> l.r]}
    BY <1>6, Zenon DEF Ask
  <2> DEFINE new == [f |-> l.f, again |-> again, by |-> l.by, r |-> l.r]
  <2>2. OfFlow(new, new.f, begun) /\ ~begun[new.f].test /\ new.f = l.f  BY <1>3, <1>4 DEF OfFlow
  <2>3. asked' = asked \cup {new}  BY <2>1
  <2> HIDE DEF new
  <2>4. \A a \in asked' : OfFlow(a, a.f, begun) /\ (begun[a.f].test => a.again = FALSE)  BY <1>0, <2>2, <2>3 DEF FlowInv
  <2>5. FlowInv'  BY <1>0, <1>2, <1>6, <2>4 DEF FlowInv
  <2>6. CallsInv'  BY <1>0, <1>2, CallsMove DEF Done
  <2>7. \A q \in Procs : pc'[q] = "testRun" => pc[q] = "testRun" /\ loc'[q] = loc[q]
    BY <1>2 DEF Done, Goto, Set, DeskOK
  <2>8. \A q \in Procs : pc[q] = "testRun" => begun[loc[q].f].test
    BY <1>0 DEF CallsInv, CallOK, UpstreamAt, OfTest
  <2>9. \A a \in asked' : begun'[a.f].test => Closed(a.f, test')  BY <1>0, <1>2, <2>2, <2>3 DEF OnceInv
  <2>10. \A q \in Procs : pc'[q] = "testRun" =>
          /\ Closed(loc'[q].f, test') /\ \A a \in asked' : a.f # loc'[q].f
          /\ \A o \in Procs : o # q /\ pc'[o] = "testRun" => loc'[o].f # loc'[q].f
    BY <1>0, <1>2, <2>2, <2>3, <2>7, <2>8 DEF OnceInv
  <2>11. OnceInv'  BY <2>9, <2>10 DEF OnceInv
  <2> QED  BY <2>5, <2>6, <2>11 DEF UpstreamInv
<1> QED  BY <1>5, <1>6, Zenon DEF SignInExchange

\* The exchange of a test's code: the first, and the record is closed.
LEMMA TestRunStep ==
    ASSUME DeskOK, UpstreamInv, NEW p \in Procs, TestRun(p)
    PROVE  UpstreamInv'
<1> DEFINE l == loc[p]
           i == ProviderIdentity(l.pr)
<1>0. FlowInv /\ OnceInv /\ CallsInv /\ begun \in Seq(Flows) /\ Longer
  BY DEF UpstreamInv, FlowInv, Longer, TestRun
<1>1. CallOK("testRun", l, begun) /\ pc[p] = "testRun"  BY <1>0 DEF TestRun, CallsInv, UpstreamAt
<1>2. UNCHANGED <<provider, document, clients, signIns, test, begun>>  BY DEF TestRun
<1>3. PICK ok \in BOOLEAN : /\ Ask(l.f, i, l.raw.r) \/ UNCHANGED asked
                            /\ Goto(p, "testSave") /\ Set(p, [l EXCEPT !.ok = ok])
  BY Zenon DEF TestRun
<1> DEFINE v == [l EXCEPT !.ok = ok]
<1>4. v \in Calls /\ v.f = l.f /\ v.raw = l.raw /\ Set(p, v)  BY <1>1, <1>3 DEF CallOK, Calls
<1> HIDE DEF v
<1>5. CallOK("testSave", v, begun)  BY <1>1, <1>4 DEF CallOK
<1>6. CASE UNCHANGED asked  BY <1>0, <1>2, <1>3, <1>4, <1>5, <1>6, QuietCall DEF FlowInv
<1>7. CASE Ask(l.f, i, l.raw.r)
  <2>1. \A a \in asked : a.f # l.f  BY <1>0, <1>1 DEF OnceInv
  <2>2. (\E a \in asked : a.f = l.f) = FALSE  BY <2>1
  <2> DEFINE new == [f |-> l.f, again |-> FALSE, by |-> i, r |-> l.raw.r]
  <2>3. asked' = asked \cup {new}
    <3>1. asked' = asked \cup {[f |-> l.f, again |-> (\E a \in asked : a.f = l.f), by |-> i, r |-> l.raw.r]}
      BY <1>7, Zenon DEF Ask
    <3> QED  BY <2>2, <3>1, Zenon
  <2>4. OfFlow(new, new.f, begun) /\ new.again = FALSE /\ new.f = l.f  BY <1>1 DEF CallOK, OfTest, OfFlow
  <2> HIDE DEF new
  <2>5. \A a \in asked' : OfFlow(a, a.f, begun) /\ (begun[a.f].test => a.again = FALSE)  BY <1>0, <2>3, <2>4 DEF FlowInv
  <2>6. FlowInv'  BY <1>0, <1>2, <2>5 DEF FlowInv
  <2>7. CallsInv'  BY <1>0, <1>2, <1>3, <1>4, <1>5, CallsMove
  <2>8. \A q \in Procs : pc'[q] = "testRun" => q # p /\ pc[q] = "testRun" /\ loc'[q] = loc[q]
    BY <1>3, <1>4 DEF Goto, Set, DeskOK
  <2>9. \A a \in asked' : begun'[a.f].test => Closed(a.f, test')  BY <1>0, <1>1, <1>2, <2>3, <2>4 DEF OnceInv
  <2>10. \A q \in Procs : pc'[q] = "testRun" =>
          /\ Closed(loc'[q].f, test') /\ \A a \in asked' : a.f # loc'[q].f
          /\ \A o \in Procs : o # q /\ pc'[o] = "testRun" => loc'[o].f # loc'[q].f
    BY <1>0, <1>1, <1>2, <2>3, <2>4, <2>8 DEF OnceInv
  <2>11. OnceInv'  BY <2>9, <2>10 DEF OnceInv
  <2> QED  BY <2>6, <2>7, <2>11 DEF UpstreamInv
<1> QED  BY <1>3, <1>6, <1>7

LEMMA TestSteps ==
    ASSUME DeskOK, UpstreamInv, NEW p \in Procs,
           \/ \E w \in Testers :
                 TestLoad(p, w) \/ \E f \in Flow : CompleteLoad(p, f, w) \/ \E ok \in BOOLEAN : CallbackRead(p, f, w, ok)
           \/ CallbackStore(p) \/ CallbackAnswer(p) \/ CompleteRead(p) \/ CompleteClaim(p) \/ TestSave(p)
           \/ RecordLatest(p) \/ UpstreamCrash(p)
    PROVE  UpstreamInv'
<1> DEFINE l == loc[p]
<1>0. FlowInv /\ OnceInv /\ CallsInv /\ clock \in Nat  BY DEF UpstreamInv, DeskOK
<1>1. provider \in Providers /\ document \in Docs /\ \A c \in clients : CachedOK(c)  BY <1>0 DEF FlowInv
<1>2. ASSUME UNCHANGED upstreamVars, NEW label, label # "testRun", NEW v, Goto(p, label), Set(p, v), CallOK(label, v, begun)
      PROVE  UpstreamInv'
  BY <1>1, <1>2, QuietCall DEF upstreamVars
<1>3. ASSUME NEW w \in Testers, TestLoad(p, w)
      PROVE  UpstreamInv'
  <2> DEFINE v == [NoCall EXCEPT !.pr = provider, !.who = w]
  <2>1. v \in Calls /\ v.pr = provider  BY <1>1, NoCallTyped DEF Calls
  <2>2. Goto(p, "testStart") /\ Set(p, v) /\ UNCHANGED upstreamVars  BY <1>3, Zenon DEF TestLoad
  <2> HIDE DEF v
  <2>3. CallOK("testStart", v, begun)  BY <1>1, <2>1 DEF CallOK
  <2> QED  BY <1>2, <2>2, <2>3
<1>4. ASSUME NEW w \in Testers, NEW f \in Flow, CompleteLoad(p, f, w)
      PROVE  UpstreamInv'
  <2> DEFINE v == [NoCall EXCEPT !.pr = provider, !.f = f, !.who = w]
  <2>1. v \in Calls /\ v.pr = provider /\ v.f = f  BY <1>1, NoCallTyped DEF Calls
  <2>2. Goto(p, "completeRead") /\ Set(p, v) /\ UNCHANGED upstreamVars  BY <1>4, Zenon DEF CompleteLoad
  <2> HIDE DEF v
  <2>3. CallOK("completeRead", v, begun)  BY <1>1, <2>1 DEF CallOK
  <2> QED  BY <1>2, <2>2, <2>3
<1>5. ASSUME NEW f \in Flow, NEW w, ReadTest(f, w)
      PROVE  test[f].val \in TestRecs /\ OfTest(test[f].val, f, begun)
  <2>1. test \in [Flow -> Cells(TestRecs)] /\ Found(test, f, clock)  BY <1>0, <1>5 DEF ReadTest, FlowInv
  <2>2. test[f].val \in TestRecs /\ test[f].exp \in Nat /\ clock < test[f].exp  BY <1>0, <2>1, FoundTyped
  <2>3. test[f].exp # 0  BY <1>0, <2>2
  <2> QED  BY <1>0, <2>2, <2>3 DEF FlowInv
<1>6. ASSUME NEW w \in Testers, NEW f \in Flow, NEW ok \in BOOLEAN, CallbackRead(p, f, w, ok)
      PROVE  UpstreamInv'
  <2> DEFINE raw == test[f].val
             v == [NoCall EXCEPT !.f = f, !.raw = raw, !.ok = ok]
  <2>1. /\ Goto(p, "callbackStore") /\ Set(p, v) /\ UNCHANGED upstreamVars
        /\ ReadTest(f, w) /\ raw.status = "awaiting_callback"
    BY <1>6, Zenon DEF CallbackRead
  <2>2. raw \in TestRecs /\ OfTest(raw, f, begun)  BY <1>5, <2>1
  <2> HIDE DEF raw
  <2>3. v \in Calls /\ v.f = f /\ v.raw = raw  BY <2>2, NoCallTyped DEF Calls
  <2> HIDE DEF v
  <2>4. CallOK("callbackStore", v, begun)  BY <2>1, <2>2, <2>3 DEF CallOK, Open
  <2> QED  BY <1>2, <2>1, <2>4
<1>7. CASE CompleteRead(p)
  <2> DEFINE raw == test[l.f].val
             same == raw.by = ProviderIdentity(l.pr) /\ Ready(l.pr)
             v == [l EXCEPT !.raw = raw, !.ok = same]
  <2>1. CallOK("completeRead", l, begun)  BY <1>0, <1>7 DEF CompleteRead, CallsInv, UpstreamAt
  <2>2. UNCHANGED upstreamVars  BY <1>7 DEF CompleteRead
  <2>3. CASE ReadTest(l.f, l.who) /\ raw.status = "ready"
    <3>1. Goto(p, "completeClaim") /\ Set(p, v)  BY <1>7, <2>3, Zenon DEF CompleteRead
    <3>2. l \in Calls /\ l.f \in Flow /\ l.pr \in Providers  BY <2>1 DEF CallOK
    <3>3. raw \in TestRecs /\ OfTest(raw, l.f, begun)  BY <1>5, <2>3, <3>2
    <3>4. same \in BOOLEAN /\ (same => raw.by = ProviderIdentity(l.pr))  OBVIOUS
    <3> HIDE DEF raw, same
    <3>5. v \in Calls /\ v.f = l.f /\ v.raw = raw /\ v.pr = l.pr /\ v.ok = same  BY <3>2, <3>3, <3>4 DEF Calls
    <3> HIDE DEF v
    <3>6. CallOK("completeClaim", v, begun)
      <4>1. v.ok => v.raw.by = ProviderIdentity(v.pr)  BY <3>4, <3>5, Zenon
      <4>2. v.raw.status \in Open  BY <2>3, <3>5 DEF Open
      <4> QED  BY <3>2, <3>3, <3>5, <4>1, <4>2 DEF CallOK
    <3> QED  BY <1>2, <2>2, <3>1, <3>6
  <2>4. CASE ~(ReadTest(l.f, l.who) /\ raw.status = "ready")
    <3>1. Done(p)  BY <1>7, <2>4, Zenon DEF CompleteRead
    <3> QED  BY <1>1, <2>2, <3>1, QuietCall DEF upstreamVars, Done
  <2> QED  BY <2>3, <2>4
\* The three that replace the record.
<1>8. ASSUME pc[p] \in {"callbackStore", "completeClaim", "testSave"}, NEW new \in TestRecs, new.by = l.raw.by, new.r = l.raw.r,
             new.status \in Open => l.raw.status \in Open,
             NEW label \in {"answer", "recordLatest", "testRun"}, Swap(p, new, label),
             label = "testRun" => pc[p] = "completeClaim" /\ l.ok /\ new.status \notin Open,
             UNCHANGED <<provider, document, clients, signIns, begun, asked>>
      PROVE  UpstreamInv'
  <2> DEFINE v == [l EXCEPT !.raw = new]
  <2>1. CallOK(pc[p], l, begun)  BY <1>0, <1>8 DEF CallsInv, UpstreamAt
  <2>2. l \in Calls /\ l.f \in Flow /\ l.raw \in TestRecs /\ OfTest(l.raw, l.f, begun)  BY <1>8, <2>1 DEF CallOK
  <2>3. v \in Calls /\ v.f = l.f /\ v.raw = new /\ v.pr = l.pr  BY <1>8, <2>2 DEF Calls
  <2> HIDE DEF v
  <2>4. CallOK(label, v, begun)
    <3>1. CASE label = "testRun"
      <4>1. l.raw.by = ProviderIdentity(l.pr)  BY <1>8, <2>1, <3>1 DEF CallOK
      <4>2. OfTest(new, l.f, begun)  BY <1>8, <2>2 DEF OfTest, OfFlow
      <4> QED  BY <1>8, <2>2, <2>3, <3>1, <4>1, <4>2 DEF CallOK
    <3>2. CASE label # "testRun"
      <4>1. label = "answer" \/ label = "recordLatest"  BY <1>8, <3>2
      <4> QED  BY <2>3, <4>1 DEF CallOK
    <3> QED  BY <3>1, <3>2
  <2>5. label = "testRun" => l.raw.status \in Open  BY <1>8, <2>1 DEF CallOK
  <2>6. pc[p] # "testRun"  BY <1>8
  <2>7. CallOK(label, [loc[p] EXCEPT !.raw = new], begun)  BY <2>4 DEF v
  <2> QED  BY <1>8, <2>1, <2>2, <2>5, <2>6, <2>7, Swapped
<1>9. ASSUME pc[p] \in {"callbackStore", "completeClaim", "testSave"}
       PROVE  l.raw \in TestRecs /\ (pc[p] # "testSave" => l.raw.status \in Open) /\ l.ok \in BOOLEAN
  BY <1>0, <1>9 DEF CallsInv, CallOK, UpstreamAt, Calls
<1>10. CASE CallbackStore(p)
  <2>1. pc[p] = "callbackStore" /\ UNCHANGED <<provider, document, clients, signIns, begun, asked>>  BY <1>10 DEF CallbackStore
  <2>2. l.raw \in TestRecs  BY <1>9, <2>1
  <2>3. CASE l.ok
    <3> DEFINE new == [l.raw EXCEPT !.status = "ready", !.code = TRUE]
    <3>1. Swap(p, new, "answer")  BY <1>10, <2>3, Zenon DEF CallbackStore
    <3>2. new \in TestRecs /\ new.by = l.raw.by /\ new.r = l.raw.r  BY <2>2 DEF TestRecs, Open
    <3> HIDE DEF new
    <3> QED  BY <1>8, <1>9, <2>1, <3>1, <3>2
  <2>4. CASE ~l.ok
    <3> DEFINE new == Cleared(l.raw, "failed")
    <3>1. Swap(p, new, "recordLatest")  BY <1>10, <2>4, Zenon DEF CallbackStore
    <3>2. new \in TestRecs /\ new.by = l.raw.by /\ new.r = l.raw.r  BY <2>2 DEF TestRecs, Cleared
    <3> HIDE DEF new
    <3> QED  BY <1>8, <1>9, <2>1, <3>1, <3>2
  <2> QED  BY <2>3, <2>4
<1>11. CASE CompleteClaim(p)
  <2>1. pc[p] = "completeClaim" /\ UNCHANGED <<provider, document, clients, signIns, begun, asked>>  BY <1>11 DEF CompleteClaim
  <2>2. l.raw \in TestRecs  BY <1>9, <2>1
  <2>3. CASE l.ok
    <3> DEFINE new == Cleared(l.raw, "running")
    <3>1. Swap(p, new, "testRun")  BY <1>11, <2>3, Zenon DEF CompleteClaim
    <3>2. new \in TestRecs /\ new.by = l.raw.by /\ new.r = l.raw.r /\ new.status = "running"  BY <2>2 DEF TestRecs, Cleared
    <3> HIDE DEF new
    <3>3. new.status \notin Open  BY <3>2 DEF Open
    <3> QED  BY <1>8, <1>9, <2>1, <2>3, <3>1, <3>2, <3>3
  <2>4. CASE ~l.ok
    <3> DEFINE new == Cleared(l.raw, "failed")
    <3>1. Swap(p, new, "recordLatest")  BY <1>11, <2>4, Zenon DEF CompleteClaim
    <3>2. new \in TestRecs /\ new.by = l.raw.by /\ new.r = l.raw.r  BY <2>2 DEF TestRecs, Cleared
    <3> HIDE DEF new
    <3> QED  BY <1>8, <1>9, <2>1, <3>1, <3>2
  <2> QED  BY <2>3, <2>4
<1>12. CASE TestSave(p)
  <2>1. pc[p] = "testSave" /\ UNCHANGED <<provider, document, clients, signIns, begun, asked>>  BY <1>12 DEF TestSave
  <2>2. l.raw \in TestRecs  BY <1>9, <2>1
  <2>3. ASSUME NEW s \in {"succeeded", "failed"}, Swap(p, [l.raw EXCEPT !.status = s], "recordLatest")
        PROVE  UpstreamInv'
    <3> DEFINE new == [l.raw EXCEPT !.status = s]
    <3>1. new \in TestRecs /\ new.by = l.raw.by /\ new.r = l.raw.r /\ new.status = s  BY <2>3, <2>2 DEF TestRecs
    <3>2. Swap(p, new, "recordLatest")  BY <2>3
    <3> HIDE DEF new
    <3>3. new.status \notin Open  BY <3>1, <2>3 DEF Open
    <3> QED  BY <1>8, <2>1, <3>1, <3>2, <3>3
  <2>4. CASE l.ok  BY <1>12, <2>3, <2>4, Zenon DEF TestSave
  <2>5. CASE ~l.ok  BY <1>12, <2>3, <2>5, Zenon DEF TestSave
  <2> QED  BY <2>4, <2>5
<1>13. CASE CallbackAnswer(p) \/ RecordLatest(p) \/ UpstreamCrash(p)
  <2>1. Done(p) /\ UNCHANGED <<provider, document, clients, signIns, test, begun, asked>>
    BY <1>13 DEF CallbackAnswer, RecordLatest, UpstreamCrash, upstreamVars
  <2> QED  BY <1>1, <2>1, QuietCall DEF Done
<1> QED  BY <1>3, <1>4, <1>6, <1>7, <1>10, <1>11, <1>12, <1>13

LEMMA ProviderSteps ==
    ASSUME DeskOK, UpstreamInv,
           \/ \E d \in Documents : Rediscover(d)
           \/ \E p \in Procs :
                \/ \E c \in Configs : SaveConfig(p, c) \/ ReplaceProvider(p, c)
                \/ InvalidateClientCache(p) \/ RotateProviderSecret(p) \/ RemoveProvider(p) \/ ForgetLatest(p)
    PROVE  UpstreamInv'
<1>1. provider \in Providers /\ document \in Docs /\ \A c \in clients : CachedOK(c)  BY DEF UpstreamInv, FlowInv
<1>2. ASSUME NEW d \in Documents, Rediscover(d)
      PROVE  UpstreamInv'
  BY <1>1, <1>2, QuietUpstream DEF Rediscover, desk, Docs
<1>3. ASSUME NEW p \in Procs, NEW c \in Configs, SaveConfig(p, c)
      PROVE  UpstreamInv'
  <2>1. provider' \in Providers  BY <1>1, <1>3 DEF SaveConfig, Providers, Cfgs
  <2>2. CallOK("dropClients", NoCall, begun)  BY NoCallTyped DEF CallOK
  <2> QED  BY <1>1, <1>3, <2>1, <2>2, QuietCall DEF SaveConfig
<1>4. ASSUME NEW p \in Procs, NEW c \in Configs, ReplaceProvider(p, c)
      PROVE  UpstreamInv'
  <2>1. provider' \in Providers  BY <1>1, <1>4 DEF ReplaceProvider, Providers, Cfgs
  <2> QED  BY <1>1, <1>4, <2>1, QuietUpstream DEF ReplaceProvider, desk
<1>5. ASSUME NEW p \in Procs, RotateProviderSecret(p)
      PROVE  UpstreamInv'
  <2>1. provider' \in Providers  BY <1>1, <1>5 DEF RotateProviderSecret, Providers
  <2> QED  BY <1>1, <1>5, <2>1, QuietUpstream DEF RotateProviderSecret, desk
<1>6. ASSUME NEW p \in Procs, InvalidateClientCache(p) \/ ForgetLatest(p)
      PROVE  UpstreamInv'
  BY <1>1, <1>6, QuietCall DEF InvalidateClientCache, ForgetLatest, Done
<1>7. ASSUME NEW p \in Procs, RemoveProvider(p)
      PROVE  UpstreamInv'
  <2> DEFINE v == [NoCall EXCEPT !.pr = provider]
  <2>1. provider' \in Providers  BY <1>1, <1>7 DEF RemoveProvider, Providers
  <2>2. v \in Calls  BY <1>1, NoCallTyped DEF Calls
  <2>3. Goto(p, "forgetLatest") /\ Set(p, v) /\ UNCHANGED <<document, clients, signIns, test, begun, asked>>
    BY <1>7, Zenon DEF RemoveProvider
  <2> HIDE DEF v
  <2>4. CallOK("forgetLatest", v, begun)  BY <2>2 DEF CallOK
  <2> QED  BY <1>1, <2>1, <2>3, <2>4, QuietCall
<1> QED  BY <1>2, <1>3, <1>4, <1>5, <1>6, <1>7

LEMMA UpstreamInvStep ==
    ASSUME DeskOK, UpstreamInv, [Next]_vars
    PROVE  UpstreamInv'
<1>1. CASE Apart(UpstreamAt) /\ UNCHANGED upstreamVars
  <2>1. FlowInv'  BY <1>1 DEF UpstreamInv, FlowInv, upstreamVars
  <2>2. CallsInv'  BY <1>1 DEF UpstreamInv, CallsInv, Apart, upstreamVars
  <2>3. \A q \in Procs : pc'[q] = "testRun" => pc[q] = "testRun" /\ loc'[q] = loc[q]  BY <1>1 DEF Apart, UpstreamAt
  <2>4. OnceInv'  BY <1>1, <2>3 DEF UpstreamInv, OnceInv, upstreamVars
  <2> QED  BY <2>1, <2>2, <2>4 DEF UpstreamInv
<1>2. CASE UpstreamNext
  BY <1>2, SignInSteps, BeginStep, ExchangeStep, TestStartStep, TestSteps, TestRunStep, ProviderSteps DEF UpstreamNext
<1> QED  BY <1>1, <1>2, UpstreamStep

LEMMA UpstreamInvInit == Init => UpstreamInv
<1> SUFFICES ASSUME Init PROVE UpstreamInv  OBVIOUS
<1>1. UpstreamInit /\ \A p \in Procs : pc[p] = "idle"  BY DEF Init
<1>2. (CHOOSE c \in Configs : TRUE) \in Configs /\ (CHOOSE d \in Documents : TRUE) \in Documents  BY UpstreamAssumption
<1>3. document \in Docs  BY <1>1, <1>2 DEF UpstreamInit, Docs
<1>4. provider \in Providers
  <2>1. PICK C \in SUBSET Cfgs : provider \in [on : {TRUE}, id : {1}, secret : {1}, cfg : C]
    <3>1. AllConfigs \in SUBSET Cfgs /\ {CHOOSE c \in Configs : TRUE} \in SUBSET Cfgs  BY <1>2 DEF Cfgs
    <3> QED  BY <1>1, <3>1 DEF UpstreamInit
  <2>2. PICK c \in Cfgs : provider = [on |-> TRUE, id |-> 1, secret |-> 1, cfg |-> c]
    <3>1. provider = [on |-> provider.on, id |-> provider.id, secret |-> provider.secret, cfg |-> provider.cfg]  BY <2>1
    <3>2. provider.on = TRUE /\ provider.id = 1 /\ provider.secret = 1 /\ provider.cfg \in Cfgs  BY <2>1
    <3> QED  BY <3>1, <3>2, Zenon
  <2> QED  BY <2>2 DEF Providers
<1>5. test = [f \in Flow |-> NoEntry] /\ begun = <<>> /\ signIns = {} /\ clients = {} /\ asked = {}
  BY <1>1 DEF UpstreamInit
<1>6. test \in [Flow -> Cells(TestRecs)] /\ \A f \in Flow : test[f].exp = 0  BY <1>5 DEF Cells, NoEntry
<1>7. begun \in Seq(Flows) /\ Len(begun) <= MaxBegun  BY <1>5, UpstreamAssumption
<1>8. FlowInv  BY <1>3, <1>4, <1>5, <1>6, <1>7 DEF FlowInv
<1> QED  BY <1>1, <1>5, <1>8 DEF UpstreamInv, OnceInv, CallsInv, UpstreamAt

\* A code is exchanged by a client of the configuration and the settings its flow began
\* with, the code of a connection test once, and with settings that can end a sign-in
\* (Adapter.Begin, Advance, client; diagnosticFlow.Complete; ResolveConfig).
THEOREM CodesExchangedAsBegun == Spec => []ExchangedAsBegun
<1>1. DeskOK /\ UpstreamInv /\ [Next]_vars => DeskOK' /\ UpstreamInv'  BY DeskStep, UpstreamInvStep
<1>2. UpstreamInv => ExchangedAsBegun
  <2> SUFFICES ASSUME UpstreamInv, NEW a \in asked
               PROVE  /\ a.by = begun[a.f].by /\ a.r = begun[a.f].r
                      /\ begun[a.f].test => ~a.again
                      /\ a.r.jwks = "none" => a.r.userinfo # "" /\ ~ImplicitFlow(a.r)
    BY DEF ExchangedAsBegun
  <2>1. OfFlow(a, a.f, begun) /\ (begun[a.f].test => a.again = FALSE) /\ begun \in Seq(Flows)  BY DEF UpstreamInv, FlowInv
  <2>2. a.r \in Resolved
    <3>1. a.f \in 1..Len(begun) /\ a.r = begun[a.f].r  BY <2>1 DEF OfFlow
    <3>2. begun[a.f] \in Flows  BY <2>1, <3>1, Element
    <3> QED  BY <3>1, <3>2 DEF Flows
  <2>3. a.r.jwks = "none" => a.r.userinfo # "" /\ ~ImplicitFlow(a.r)  BY <2>2, SettingsEndSignIn
  <2>4. begun[a.f].test => ~a.again  BY <2>1, Zenon
  <2> QED  BY <2>1, <2>3, <2>4 DEF OfFlow
<1> QED  BY <1>1, <1>2, DeskInit, UpstreamInvInit, PTL DEF Spec

-----------------------------------------------------------------------------
(* Wallpapers and settings                                                   *)

Maps == {"bing", "unsplash", "pixabay"}
BatchRecs == [ok : BOOLEAN, pics : SUBSET Pictures, fresh : Nat, retry : Nat]
Keys == Batches \cup Pictures

\* What request p at label l knows in v, when fl are the flights under way.
AskOK(p, l, v, fl) ==
    /\ v \in [key : Keys, now : Nat]
    /\ l \in {"fly", "fetch", "await"} => v.key \in Batches
    /\ l \in {"flyImage", "download", "awaitImage"} => v.key \in Pictures
    /\ l \in {"fetch", "download"} => fl[v.key] = p
    /\ l \in {"await", "awaitImage"} => fl[v.key] # None

\* A request that refreshes a batch or downloads a picture is under way to do it.
Flying(x, p, l, v) == p \in Procs /\ l \in {"fetch", "download"} /\ v.key = x

BatchInv == batch \in [Batches -> BatchRecs] /\ kept \subseteq Batches /\ \A k \in kept : batch[k].ok
FlightInv ==
    /\ flight \in [Keys -> Procs \cup {None}]
    /\ \A x \in Keys : flight[x] # None => Flying(x, flight[x], pc[flight[x]], loc[flight[x]])
AsksInv == \A p \in Procs : pc[p] \in WallpapersAt \ {"idle"} => AskOK(p, pc[p], loc[p], flight)

WallpapersInv == BatchInv /\ FlightInv /\ AsksInv

\* A request that neither begins nor ends a flight.
LEMMA AsksMove ==
    ASSUME DeskOK, FlightInv, AsksInv, flight' = flight, NEW p \in Procs, pc[p] \notin {"fetch", "download"}, NEW l, Goto(p, l),
           NEW v, Set(p, v) \/ (UNCHANGED loc /\ v = loc[p]), l = "idle" \/ AskOK(p, l, v, flight)
    PROVE  FlightInv' /\ AsksInv'
<1>1. pc'[p] = l /\ loc'[p] = v /\ \A q \in Procs : q # p => pc'[q] = pc[q] /\ loc'[q] = loc[q]  BY DEF Goto, Set, DeskOK
<1>2. FlightInv'  BY <1>1 DEF FlightInv, Flying
<1>3. AsksInv'  BY <1>1 DEF AsksInv
<1> QED  BY <1>2, <1>3

\* A flight begins.
LEMMA TakeOff ==
    ASSUME DeskOK, FlightInv, AsksInv, NEW p \in Procs, NEW l \in {"fetch", "download"}, NEW x \in Keys, Goto(p, l), UNCHANGED loc,
           pc[p] \in WallpapersAt \ {"idle"}, loc[p].key = x, x \in (IF l = "fetch" THEN Batches ELSE Pictures),
           flight[x] = None, flight' = [flight EXCEPT ![x] = p], pc[p] \notin {"fetch", "download"}
    PROVE  FlightInv' /\ AsksInv'
<1>1. pc'[p] = l /\ loc' = loc /\ \A q \in Procs : q # p => pc'[q] = pc[q]  BY DEF Goto, DeskOK
<1>2. flight' \in [Keys -> Procs \cup {None}] /\ flight'[x] = p /\ \A y \in Keys : y # x => flight'[y] = flight[y]
  BY DEF FlightInv
<1>3. FlightInv'
  <2> SUFFICES ASSUME NEW y \in Keys, flight'[y] # None
               PROVE  Flying(y, flight'[y], pc'[flight'[y]], loc'[flight'[y]])
    BY <1>2 DEF FlightInv
  <2>1. CASE y = x  BY <1>1, <1>2, <2>1 DEF Flying
  <2>2. CASE y # x  BY <1>1, <1>2, <2>2 DEF FlightInv, Flying
  <2> QED  BY <2>1, <2>2
<1>4. ASSUME NEW q \in Procs, pc'[q] \in WallpapersAt \ {"idle"}
      PROVE  AskOK(q, pc'[q], loc'[q], flight')
  <2>1. p # None /\ (pc[q] \in WallpapersAt \ {"idle"}) /\ AskOK(q, pc[q], loc[q], flight)
    BY <1>1, <1>4, DeskAssumption DEF AsksInv
  <2>2. CASE q = p  BY <1>1, <1>2, <2>1, <2>2 DEF AskOK
  <2>3. CASE q # p
    <3>1. pc'[q] = pc[q] /\ loc'[q] = loc[q] /\ loc[q].key \in Keys  BY <1>1, <2>1, <2>3 DEF AskOK
    <3>2. CASE loc[q].key = x  BY <1>2, <2>1, <3>1, <3>2, DeskAssumption DEF AskOK
    <3>3. CASE loc[q].key # x  BY <1>2, <2>1, <3>1, <3>3 DEF AskOK
    <3> QED  BY <3>2, <3>3
  <2> QED  BY <2>2, <2>3
<1> QED  BY <1>3, <1>4 DEF AsksInv

\* A flight ends: everybody who waits for it is answered.
LEMMA Landing ==
    ASSUME DeskOK, FlightInv, AsksInv, NEW p \in Procs,
           NEW l, (pc[p] = "fetch" /\ l = "await") \/ (pc[p] = "download" /\ l = "awaitImage"), Land(p, l)
    PROVE  FlightInv' /\ AsksInv'
<1> DEFINE x == loc[p].key
           Gone(q) == q = p \/ (pc[q] = l /\ loc[q].key = x)
<1>1. AskOK(p, pc[p], loc[p], flight) /\ x \in Keys /\ flight[x] = p  BY DEF AsksInv, AskOK, WallpapersAt
<1>2. /\ flight' = [flight EXCEPT ![x] = None]
      /\ \A q \in Procs : IF Gone(q) THEN pc'[q] = "idle" ELSE pc'[q] = pc[q] /\ loc'[q] = loc[q]
  BY DEF Land
<1>3. flight' \in [Keys -> Procs \cup {None}] /\ flight'[x] = None /\ \A y \in Keys : y # x => flight'[y] = flight[y]
  BY <1>1, <1>2 DEF FlightInv
<1>4. FlightInv'
  <2> SUFFICES ASSUME NEW y \in Keys, flight'[y] # None
               PROVE  Flying(y, flight'[y], pc'[flight'[y]], loc'[flight'[y]])
    BY <1>3 DEF FlightInv
  <2>1. y # x /\ flight'[y] = flight[y]  BY <1>3
  <2>2. Flying(y, flight[y], pc[flight[y]], loc[flight[y]])  BY <2>1 DEF FlightInv
  <2>3. ~Gone(flight[y])  BY <2>1, <2>2 DEF Flying
  <2> QED  BY <1>2, <2>1, <2>2, <2>3 DEF Flying
<1>5. ASSUME NEW q \in Procs, pc'[q] \in WallpapersAt \ {"idle"}
      PROVE  AskOK(q, pc'[q], loc'[q], flight')
  <2>1. ~Gone(q) /\ pc'[q] = pc[q] /\ loc'[q] = loc[q]  BY <1>2, <1>5
  <2>2. AskOK(q, pc[q], loc[q], flight) /\ loc[q].key \in Keys  BY <1>5, <2>1 DEF AsksInv, AskOK
  <2>3. CASE loc[q].key = x
    <3>1. pc[q] \notin {"fetch", "download"}  BY <1>1, <2>1, <2>2, <2>3 DEF AskOK
    <3>2. pc[q] \notin {"await", "awaitImage"}
      BY <1>1, <2>1, <2>2, <2>3, WallpapersAssumption DEF AskOK
    <3> QED  BY <2>1, <2>2, <3>1, <3>2 DEF AskOK
  <2>4. CASE loc[q].key # x  BY <1>3, <2>1, <2>2, <2>4 DEF AskOK
  <2> QED  BY <2>3, <2>4
<1> QED  BY <1>4, <1>5 DEF AsksInv

LEMMA WallpapersNextKeeps ==
    ASSUME DeskOK, WallpapersInv, WallpapersNext
    PROVE  WallpapersInv'
<1>0. BatchInv /\ FlightInv /\ AsksInv /\ clock \in Nat  BY DEF WallpapersInv, DeskOK
<1>1. ASSUME NEW p \in Procs, NEW x \in Keys, NEW l \in {"fly", "flyImage"}, Goto(p, l), Set(p, Asked(x)), pc[p] = "idle",
             x \in (IF l = "fly" THEN Batches ELSE Pictures), UNCHANGED <<batch, flight, kept>>
      PROVE  WallpapersInv'
  <2>1. AskOK(p, l, Asked(x), flight)  BY <1>0, <1>1 DEF AskOK, Asked
  <2>2. FlightInv' /\ AsksInv'  BY <1>0, <1>1, <2>1, AsksMove
  <2>3. BatchInv'  BY <1>0, <1>1 DEF BatchInv
  <2> QED  BY <2>2, <2>3 DEF WallpapersInv
<1>2. ASSUME NEW p \in Procs, NEW k \in Batches, Cached(p, k)
      PROVE  WallpapersInv'
  BY <1>1, <1>2 DEF Cached, Idle, Keys, wallpaperVars
<1>3. ASSUME NEW p \in Procs, Fly(p)
      PROVE  WallpapersInv'
  <2> DEFINE k == loc[p].key
  <2>1. pc[p] = "fly" /\ UNCHANGED <<loc, batch, kept>>  BY <1>3 DEF Fly
  <2>2. AskOK(p, "fly", loc[p], flight)  BY <1>0, <2>1 DEF AsksInv, WallpapersAt
  <2>3. k \in Batches /\ k \in Keys  BY <2>2 DEF AskOK, Keys
  <2>4. CASE flight[k] = None
    <3>1. flight' = [flight EXCEPT ![k] = p] /\ Goto(p, "fetch")  BY <1>3, <2>4 DEF Fly
    <3>2. pc[p] \in WallpapersAt \ {"idle"} /\ pc[p] \notin {"fetch", "download"}  BY <2>1 DEF WallpapersAt
    <3>3. FlightInv' /\ AsksInv'  BY <1>0, <2>1, <2>3, <2>4, <3>1, <3>2, TakeOff
    <3> QED  BY <1>0, <2>1, <3>3 DEF WallpapersInv, BatchInv
  <2>5. CASE flight[k] # None
    <3>1. flight' = flight /\ Goto(p, "await")  BY <1>3, <2>5 DEF Fly
    <3>2. AskOK(p, "await", loc[p], flight)  BY <2>2, <2>5 DEF AskOK
    <3>3. FlightInv' /\ AsksInv'  BY <1>0, <2>1, <3>1, <3>2, AsksMove
    <3> QED  BY <1>0, <2>1, <3>3 DEF WallpapersInv, BatchInv
  <2> QED  BY <2>4, <2>5
<1>4. ASSUME NEW p \in Procs, NEW pics \in Fetched, FetchOk(p, pics)
      PROVE  WallpapersInv'
  <2> DEFINE k == loc[p].key
             n == loc[p].now
             new == [ok |-> TRUE, pics |-> pics, fresh |-> n + FreshFor[MapOf[k]], retry |-> 0]
  <2>1. k \in Batches /\ n \in Nat  BY <1>0, <1>4 DEF FetchOk, AsksInv, AskOK, WallpapersAt
  <2>2. FreshFor[MapOf[k]] \in Nat  BY <2>1, WallpapersAssumption
  <2>3. pics \in SUBSET Pictures  BY DEF Fetched
  <2>4. new \in BatchRecs /\ new.ok = TRUE  BY <2>1, <2>2, <2>3 DEF BatchRecs
  <2>5. NoBatch \in BatchRecs  BY DEF NoBatch, BatchRecs
  <2>6. /\ batch' = [j \in Batches |-> IF j = k THEN new ELSE IF j \in Pruned(k, n) THEN NoBatch ELSE batch[j]]
        /\ kept' = (kept \ Pruned(k, n)) \cup {k} /\ pc[p] = "fetch" /\ Land(p, "await")
    BY <1>4, Zenon DEF FetchOk
  <2> HIDE DEF new, n
  <2>7. batch' \in [Batches -> BatchRecs]  BY <1>0, <2>4, <2>5, <2>6 DEF BatchInv
  <2>8. kept' \subseteq Batches  BY <1>0, <2>1, <2>6 DEF BatchInv
  <2>9. \A j \in kept' : batch'[j].ok
    <3> SUFFICES ASSUME NEW j \in kept' PROVE batch'[j].ok  OBVIOUS
    <3>1. CASE j = k
      <4>1. batch'[j] = new  BY <2>1, <2>6, <3>1
      <4> QED  BY <2>4, <4>1, Zenon
    <3>2. CASE j # k
      <4>1. j \in kept /\ j \in Batches /\ batch'[j] = batch[j]  BY <1>0, <2>6, <3>2 DEF BatchInv
      <4> QED  BY <1>0, <4>1 DEF BatchInv
    <3> QED  BY <3>1, <3>2
  <2>10. FlightInv' /\ AsksInv'  BY <1>0, <2>6, Landing
  <2> QED  BY <2>7, <2>8, <2>9, <2>10 DEF WallpapersInv, BatchInv
<1>5. ASSUME NEW p \in Procs, FetchFails(p)
      PROVE  WallpapersInv'
  <2> DEFINE k == loc[p].key
             n == loc[p].now + RetryAfter
  <2>1. k \in Batches /\ n \in Nat
    BY <1>0, <1>5, WallpapersAssumption DEF FetchFails, AsksInv, AskOK, WallpapersAt
  <2>2. batch' = [batch EXCEPT ![k].retry = n] /\ kept' = kept /\ pc[p] = "fetch" /\ Land(p, "await")
    BY <1>5 DEF FetchFails
  <2> HIDE DEF n
  <2>3. batch[k] \in BatchRecs  BY <1>0, <2>1 DEF BatchInv
  <2>4. [batch[k] EXCEPT !.retry = n] \in BatchRecs /\ [batch[k] EXCEPT !.retry = n].ok = batch[k].ok
    BY <2>1, <2>3 DEF BatchRecs
  <2>5. batch' \in [Batches -> BatchRecs] /\ \A j \in Batches : batch'[j].ok = batch[j].ok
    BY <1>0, <2>1, <2>2, <2>4 DEF BatchInv
  <2>6. \A j \in kept' : batch'[j].ok  BY <1>0, <2>2, <2>5 DEF BatchInv
  <2>7. FlightInv' /\ AsksInv'  BY <1>0, <2>2, Landing
  <2> QED  BY <1>0, <2>2, <2>5, <2>6, <2>7 DEF WallpapersInv, BatchInv
<1>6. ASSUME NEW p \in Procs, NEW i \in Pictures, Image(p, i)
      PROVE  WallpapersInv'
  <2>1. CASE UNCHANGED <<pc, loc>>
    <3>1. UNCHANGED <<batch, flight, kept>>  BY <1>6 DEF Image
    <3> QED  BY <1>0, <2>1, <3>1 DEF WallpapersInv, BatchInv, FlightInv, AsksInv
  <2>2. CASE Goto(p, "flyImage") /\ Set(p, Asked(i))  BY <1>1, <1>6, <2>2 DEF Image, Idle, Keys
  <2> QED  BY <1>6, <2>1, <2>2 DEF Image
<1>7. ASSUME NEW p \in Procs, FlyImage(p)
      PROVE  WallpapersInv'
  <2> DEFINE i == loc[p].key
  <2>1. pc[p] = "flyImage" /\ UNCHANGED <<batch, kept>>  BY <1>7 DEF FlyImage
  <2>2. AskOK(p, "flyImage", loc[p], flight)  BY <1>0, <2>1 DEF AsksInv, WallpapersAt
  <2>3. i \in Pictures /\ i \in Keys  BY <2>2 DEF AskOK, Keys
  <2>4. CASE flight[i] = None /\ flight' = [flight EXCEPT ![i] = p] /\ Goto(p, "download") /\ UNCHANGED loc
    <3>1. pc[p] \in WallpapersAt \ {"idle"} /\ pc[p] \notin {"fetch", "download"}  BY <2>1 DEF WallpapersAt
    <3>2. FlightInv' /\ AsksInv'  BY <1>0, <2>1, <2>3, <2>4, <3>1, TakeOff
    <3> QED  BY <1>0, <2>1, <3>2 DEF WallpapersInv, BatchInv
  <2>5. CASE flight[i] # None /\ Goto(p, "awaitImage") /\ UNCHANGED <<flight, loc>>
    <3>1. AskOK(p, "awaitImage", loc[p], flight)  BY <2>2, <2>5 DEF AskOK
    <3>2. FlightInv' /\ AsksInv'  BY <1>0, <2>1, <2>5, <3>1, AsksMove
    <3> QED  BY <1>0, <2>1, <3>2 DEF WallpapersInv, BatchInv
  <2>6. CASE Done(p) /\ flight' = flight
    <3>1. FlightInv' /\ AsksInv'  BY <1>0, <2>1, <2>6, AsksMove DEF Done
    <3> QED  BY <1>0, <2>1, <3>1 DEF WallpapersInv, BatchInv
  <2> QED  BY <1>7, <2>4, <2>5, <2>6 DEF FlyImage
<1>8. ASSUME NEW p \in Procs, DownloadOk(p) \/ DownloadFails(p)
      PROVE  WallpapersInv'
  <2>1. pc[p] = "download" /\ Land(p, "awaitImage") /\ UNCHANGED <<batch, kept>>  BY <1>8 DEF DownloadOk, DownloadFails
  <2>2. FlightInv' /\ AsksInv'  BY <1>0, <2>1, Landing
  <2> QED  BY <1>0, <2>1, <2>2 DEF WallpapersInv, BatchInv
<1> QED  BY <1>2, <1>3, <1>4, <1>5, <1>6, <1>7, <1>8 DEF WallpapersNext

\* Steps of other services leave flights and waiting requests alone; settings may forget batches.
LEMMA WallpapersApart ==
    ASSUME WallpapersInv, Apart(WallpapersAt), flight' = flight, UNCHANGED <<batch, kept>> \/ Forget
    PROVE  WallpapersInv'
<1>1. \A q \in Procs : pc[q] \in {"fetch", "download"} => pc'[q] = pc[q] /\ loc'[q] = loc[q]
  BY DEF Apart, WallpapersAt
<1>2. FlightInv'  BY <1>1 DEF WallpapersInv, FlightInv, Flying
<1>3. AsksInv'  BY DEF WallpapersInv, AsksInv, Apart
<1>4. BatchInv'
  <2>1. BatchInv  BY DEF WallpapersInv
  <2>2. CASE UNCHANGED <<batch, kept>>  BY <2>1, <2>2 DEF BatchInv
  <2>3. CASE Forget
    <3>1. NoBatch \in BatchRecs  BY DEF NoBatch, BatchRecs
    <3>2. batch' \in [Batches -> BatchRecs]  BY <2>1, <2>3, <3>1 DEF Forget, BatchInv
    <3>3. \A k \in kept' : k \in kept /\ k \in Batches /\ batch'[k] = batch[k]  BY <2>1, <2>3 DEF Forget, BatchInv
    <3> QED  BY <2>1, <3>2, <3>3 DEF BatchInv
  <2> QED  BY <2>2, <2>3
<1> QED  BY <1>2, <1>3, <1>4 DEF WallpapersInv

LEMMA SettingsLeaveFlights ==
    ASSUME SettingsNext
    PROVE  flight' = flight /\ (UNCHANGED <<batch, kept>> \/ Forget)
<1>1. ASSUME NEW p \in Procs, ForgetBatches(p)
      PROVE  flight' = flight /\ (UNCHANGED <<batch, kept>> \/ Forget)
  BY <1>1 DEF ForgetBatches
<1>2. ASSUME NEW p \in Procs,
             \/ MaintenanceGate(p) \/ MaintenanceLockout(p) \/ HandleGetPublicConfig(p)
             \/ GetRow(p) \/ GetLoginAppearance(p) \/ ListLoginBackgroundImages(p) \/ GetFails(p) \/ Fill(p)
             \/ Admit(p) \/ Answered(p) \/ Invalidate(p)
      PROVE  UNCHANGED wallpaperVars
  BY <1>2, Zenon DEF MaintenanceGate, MaintenanceLockout, HandleGetPublicConfig, GetRow, GetLoginAppearance,
     ListLoginBackgroundImages, GetFails, Fill, Admit, Answered, Invalidate, LoadFor
<1>3. ASSUME NEW p \in Procs,
             \/ \E n \in Names : HandlePutInstanceName(p, n) \/ HandlePutInstanceIcon(p, n)
             \/ HandleDeleteInstanceIcon(p)
             \/ \E on \in BOOLEAN : HandlePutMaintenance(p, on)
             \/ \E i \in gallery : HandleDeleteLoginImage(p, i)
      PROVE  UNCHANGED wallpaperVars
  BY <1>3, Zenon DEF HandlePutInstanceName, HandlePutInstanceIcon, HandleDeleteInstanceIcon, HandlePutMaintenance,
     HandleDeleteLoginImage, Change
<1>4. ASSUME NEW p \in Procs,
             \/ \E src \in (KeyedSources \cap ops) \cup {"none"}, new \in SUBSET (KeyedSources \cap ops) :
                   HandlePutLoginAppearance(p, src, new)
             \/ \E src \in KeyedSources \cap ops : HandleDeleteKey(p, src)
             \/ KeyRequired(p) \/ HandlePostLoginImage(p) \/ LockInstanceSettings(p)
      PROVE  UNCHANGED wallpaperVars
  BY <1>4, Zenon DEF HandlePutLoginAppearance, HandleDeleteKey, KeyRequired, HandlePostLoginImage, LoadFor, LockInstanceSettings
<1>5. ASSUME NEW p \in Procs,
             \/ CheckLook(p) \/ CheckClear(p) \/ CheckImage(p)
             \/ SetLoginAppearance(p) \/ ClearWallpaperKey(p) \/ InsertLoginBackgroundImage(p)
      PROVE  UNCHANGED wallpaperVars
  BY <1>5, Zenon DEF CheckLook, CheckClear, CheckImage, SetLoginAppearance, ClearWallpaperKey,
     InsertLoginBackgroundImage, Decide, Commit
<1>6. UNCHANGED wallpaperVars => flight' = flight /\ UNCHANGED <<batch, kept>>  BY DEF wallpaperVars
<1> QED  BY <1>1, <1>2, <1>3, <1>4, <1>5, <1>6 DEF SettingsNext

LEMMA WallpapersInvStep ==
    ASSUME DeskOK, WallpapersInv, [Next]_vars
    PROVE  WallpapersInv'
<1>1. CASE SettingsNext /\ Moves(SettingsAt)
  <2>1. Apart(WallpapersAt)  BY <1>1, MovesApart, LabelsDiffer
  <2> QED  BY <1>1, <2>1, SettingsLeaveFlights, WallpapersApart
<1>2. CASE WallpapersNext  BY <1>2, WallpapersNextKeeps
<1>3. CASE Apart(WallpapersAt) /\ UNCHANGED wallpaperVars  BY <1>3, WallpapersApart DEF wallpaperVars
<1> QED  BY <1>1, <1>2, <1>3, SettingsStep

LEMMA WallpapersInvInit == Init => WallpapersInv
<1> SUFFICES ASSUME Init PROVE WallpapersInv  OBVIOUS
<1>1. NoBatch \in BatchRecs  BY DEF NoBatch, BatchRecs
<1>2. BatchInv  BY <1>1 DEF Init, WallpapersInit, BatchInv
<1>3. FlightInv  BY DEF Init, WallpapersInit, FlightInv, Keys
<1>4. AsksInv  BY DEF Init, AsksInv, WallpapersAt
<1> QED  BY <1>2, <1>3, <1>4 DEF WallpapersInv

Puts == [source : KeyedSources \cup {"none"}, keys : SUBSET KeyedSources]
InstRows == [name : Names \cup {None}, icon : Names \cup {None}, maint : BOOLEAN,
             source : KeyedSources \cup {"none"}, keys : SUBSET KeyedSources]
Copies == [row : InstRows, imgs : SUBSET Nat]
Forms == [put : Puts \cup {None}, got : Copies, why : {"gate", "signin", "config", "look", "forget", None}, strict : BOOLEAN]

\* The labels of a transaction that holds the row's lock.
Locked == {"checkLook", "checkClear", "checkImage", "writeLook", "writeClear", "writeImage"}

\* What request p at label l knows in v, of the row, the images and the lock.
FormOK(p, l, v, row, n, lock) ==
    /\ v \in Forms
    /\ l \in {"getRow", "getLook", "getImages", "fill", "loaded"} => (v.why = "look" => v.put \in Puts)
    /\ l \in {"lockLook", "lockClear", "checkLook", "checkClear", "writeLook", "writeClear"} => v.put \in Puts
    /\ l \in Locked => lock = p
    /\ l = "writeLook" => (v.put.source \in KeyedSources \ v.put.keys => v.put.source \in row.keys)
    /\ l = "writeClear" => row.source # v.put.source
    /\ l = "writeImage" => n < MaxLoginImages

LookInv ==
    /\ inst \in InstRows /\ (inst.source \in KeyedSources => inst.source \in inst.keys)
    /\ gallery \in SUBSET Nat /\ IsFiniteSet(gallery) /\ Cardinality(gallery) <= MaxLoginImages /\ nextImage \in Nat
    /\ cache \in Copies \cup {None}

FormsInv == \A p \in Procs : pc[p] \in SettingsAt \ {"idle"} => FormOK(p, pc[p], loc[p], inst, Cardinality(gallery), rowLock)

SettingsInv == LookInv /\ FormsInv

\* The transaction that holds the lock, unless it is p's, finds the row as it left it and
\* no more images.
LockKept(p) ==
    \A q \in Procs : q # p /\ rowLock = q =>
        rowLock' = rowLock /\ inst' = inst /\ (Cardinality(gallery) < MaxLoginImages => Cardinality(gallery') < MaxLoginImages)

LEMMA FormsMove ==
    ASSUME DeskOK, FormsInv, NEW p \in Procs, LockKept(p), NEW l, Goto(p, l), NEW v, Set(p, v) \/ (UNCHANGED loc /\ v = loc[p]),
           l = "idle" \/ FormOK(p, l, v, inst', Cardinality(gallery'), rowLock')
    PROVE  FormsInv'
<1> DEFINE n == Cardinality(gallery)
           m == Cardinality(gallery')
<1> SUFFICES ASSUME NEW q \in Procs, pc'[q] \in SettingsAt \ {"idle"}
             PROVE  FormOK(q, pc'[q], loc'[q], inst', m, rowLock')
  BY DEF FormsInv
<1>1. pc'[p] = l /\ loc'[p] = v /\ (q # p => pc'[q] = pc[q] /\ loc'[q] = loc[q])  BY DEF Goto, Set, DeskOK
<1>2. CASE q = p  BY <1>1, <1>2
<1>3. CASE q # p
  <2>1. FormOK(q, pc[q], loc[q], inst, n, rowLock)  BY <1>1, <1>3 DEF FormsInv
  <2>2. rowLock = q => rowLock' = q /\ inst' = inst /\ (n < MaxLoginImages => m < MaxLoginImages)  BY <1>3 DEF LockKept
  <2> HIDE DEF n, m
  <2>3. FormOK(q, pc[q], loc[q], inst', m, rowLock')  BY <2>1, <2>2 DEF FormOK, Locked
  <2> QED  BY <1>1, <1>3, <2>3
<1> QED  BY <1>2, <1>3

LEMMA FormsTyped ==
    /\ NoOverride \in InstRows /\ NoSettings \in Copies /\ NoForm \in Forms
    /\ \A why \in {"gate", "signin", "config", "look", "forget", None} : For(why) \in Forms /\ For(why).why = why
    /\ \A put \in Puts : Putting(put) \in Forms /\ Putting(put).put = put
<1>1. NoOverride \in InstRows  BY DEF NoOverride, InstRows
<1>2. NoSettings \in Copies  BY <1>1 DEF NoSettings, Copies
<1>3. NoForm \in Forms  BY <1>2 DEF NoForm, Forms
<1>4. \A why \in {"gate", "signin", "config", "look", "forget", None} : For(why) \in Forms /\ For(why).why = why
  BY <1>3 DEF For, Forms
<1>5. \A put \in Puts : Putting(put) \in Forms /\ Putting(put).put = put  BY <1>3 DEF Putting, Forms
<1> QED  BY <1>1, <1>2, <1>3, <1>4, <1>5

\* A step that changes neither the row, the images nor the lock.
LEMMA QuietForm ==
    ASSUME DeskOK, SettingsInv, UNCHANGED <<inst, gallery, nextImage, rowLock>>, cache' \in Copies \cup {None},
           NEW p \in Procs, NEW l, Goto(p, l), NEW v, Set(p, v) \/ (UNCHANGED loc /\ v = loc[p]),
           l = "idle" \/ FormOK(p, l, v, inst, Cardinality(gallery), rowLock)
    PROVE  SettingsInv'
<1>1. LookInv'  BY DEF SettingsInv, LookInv
<1>2. LockKept(p)  BY DEF LockKept
<1>3. FormsInv'  BY <1>2, FormsMove DEF SettingsInv
<1> QED  BY <1>1, <1>3 DEF SettingsInv

LEMMA LoadKeeps ==
    ASSUME DeskOK, SettingsInv, NEW p \in Procs, NEW form \in Forms, form.why = "look" => form.put \in Puts, LoadFor(p, form)
    PROVE  SettingsInv'
<1> DEFINE s == MaintenanceSteady
           v == [form EXCEPT !.got = cache, !.strict = s]
           w == [form EXCEPT !.strict = s]
<1>1. inst \in InstRows /\ cache \in Copies \cup {None}  BY DEF SettingsInv, LookInv
<1>2. s \in BOOLEAN  BY <1>1 DEF InstRows, MaintenanceSteady
<1>3. UNCHANGED settingsVars  BY DEF LoadFor
<1> HIDE DEF s
<1>4. CASE cache # None
  <2>1. Goto(p, "loaded") /\ Set(p, v)  BY <1>4, Zenon DEF LoadFor, s
  <2>2. v \in Forms /\ v.why = form.why /\ v.put = form.put  BY <1>1, <1>2, <1>4 DEF Forms
  <2> HIDE DEF v
  <2>3. FormOK(p, "loaded", v, inst, Cardinality(gallery), rowLock)  BY <2>2 DEF FormOK, Locked
  <2> QED  BY <1>1, <1>3, <2>1, <2>3, QuietForm DEF settingsVars
<1>5. CASE cache = None
  <2>1. Goto(p, "getRow") /\ Set(p, w)  BY <1>5, Zenon DEF LoadFor, s
  <2>2. w \in Forms /\ w.why = form.why /\ w.put = form.put  BY <1>2 DEF Forms
  <2> HIDE DEF w
  <2>3. FormOK(p, "getRow", w, inst, Cardinality(gallery), rowLock)  BY <2>2 DEF FormOK, Locked
  <2> QED  BY <1>1, <1>3, <2>1, <2>3, QuietForm DEF settingsVars
<1> QED  BY <1>4, <1>5

LEMMA ReadSteps ==
    ASSUME DeskOK, SettingsInv, NEW p \in Procs,
           \/ MaintenanceGate(p) \/ MaintenanceLockout(p) \/ HandleGetPublicConfig(p)
           \/ GetRow(p) \/ GetLoginAppearance(p) \/ ListLoginBackgroundImages(p) \/ GetFails(p) \/ Fill(p)
           \/ Admit(p) \/ Answered(p) \/ Invalidate(p)
    PROVE  SettingsInv'
<1> DEFINE l == loc[p]
           N == Cardinality(gallery)
<1>0. LookInv /\ FormsInv /\ inst \in InstRows /\ gallery \in SUBSET Nat /\ cache \in Copies \cup {None}
  BY DEF SettingsInv, LookInv
<1>1. CASE MaintenanceGate(p) \/ MaintenanceLockout(p) \/ HandleGetPublicConfig(p)
  <2>1. PICK why \in {"gate", "signin", "config"} : LoadFor(p, For(why))
    BY <1>1, Zenon DEF MaintenanceGate, MaintenanceLockout, HandleGetPublicConfig
  <2>2. For(why) \in Forms /\ For(why).why # "look"  BY FormsTyped
  <2> QED  BY <2>1, <2>2, LoadKeeps
<1>2. ASSUME pc[p] \in {"getRow", "getLook", "getImages", "fill"}
      PROVE  l \in Forms /\ (l.why = "look" => l.put \in Puts)
  BY <1>0, <1>2 DEF FormsInv, FormOK, SettingsAt
<1>3. ASSUME pc[p] \in {"getRow", "getLook", "getImages"}, NEW v \in Forms, v.why = l.why, v.put = l.put, Set(p, v),
             NEW label \in {"getLook", "getImages", "fill"}, Goto(p, label), UNCHANGED settingsVars
      PROVE  SettingsInv'
  <2>1. FormOK(p, label, v, inst, N, rowLock)  BY <1>2, <1>3 DEF FormOK, Locked
  <2> QED  BY <1>0, <1>3, <2>1, QuietForm DEF settingsVars
<1>4. CASE GetRow(p)
  <2> DEFINE row == [NoOverride EXCEPT !.name = inst.name, !.icon = inst.icon, !.maint = inst.maint]
             v == [l EXCEPT !.got.row = row]
  <2>1. pc[p] = "getRow" /\ Goto(p, "getLook") /\ Set(p, v) /\ UNCHANGED settingsVars  BY <1>4, Zenon DEF GetRow
  <2>2. row \in InstRows  BY <1>0, FormsTyped DEF InstRows
  <2> HIDE DEF row
  <2>3. v \in Forms /\ v.why = l.why /\ v.put = l.put  BY <1>2, <2>1, <2>2 DEF Forms, Copies
  <2> HIDE DEF v
  <2> QED  BY <1>3, <2>1, <2>3
<1>5. CASE GetLoginAppearance(p)
  <2> DEFINE row == [l.got.row EXCEPT !.source = inst.source, !.keys = inst.keys]
             v == [l EXCEPT !.got.row.source = inst.source, !.got.row.keys = inst.keys]
             w == [l EXCEPT !.got.row = row]
  <2>1. pc[p] = "getLook" /\ Goto(p, "getImages") /\ Set(p, v) /\ UNCHANGED settingsVars  BY <1>5, Zenon DEF GetLoginAppearance
  <2>2. l.got.row \in InstRows  BY <1>2, <2>1 DEF Forms, Copies
  <2>3. row \in InstRows  BY <1>0, <2>2 DEF InstRows
  <2>4. v = w  BY <1>2, <2>1, <2>2 DEF Forms, Copies, InstRows
  <2> HIDE DEF row, v
  <2>5. w \in Forms /\ w.why = l.why /\ w.put = l.put  BY <1>2, <2>1, <2>3 DEF Forms, Copies
  <2> HIDE DEF w
  <2> QED  BY <1>3, <2>1, <2>4, <2>5
<1>6. CASE ListLoginBackgroundImages(p)
  <2> DEFINE v == [l EXCEPT !.got.imgs = gallery]
  <2>1. pc[p] = "getImages" /\ Goto(p, "fill") /\ Set(p, v) /\ UNCHANGED settingsVars  BY <1>6, Zenon DEF ListLoginBackgroundImages
  <2>2. v \in Forms /\ v.why = l.why /\ v.put = l.put  BY <1>0, <1>2, <2>1 DEF Forms, Copies
  <2> HIDE DEF v
  <2> QED  BY <1>3, <2>1, <2>2
<1>7. CASE GetFails(p)
  <2> DEFINE v == [l EXCEPT !.got = NoSettings]
  <2>1. pc[p] \in {"getRow", "getLook", "getImages"} /\ Goto(p, "fill") /\ Set(p, v) /\ UNCHANGED settingsVars
    BY <1>7, Zenon DEF GetFails
  <2>2. v \in Forms /\ v.why = l.why /\ v.put = l.put  BY <1>2, <2>1, FormsTyped DEF Forms
  <2> HIDE DEF v
  <2> QED  BY <1>3, <2>1, <2>2
<1>8. CASE Fill(p)
  <2>1. pc[p] = "fill" /\ Goto(p, "loaded") /\ cache' = l.got /\ UNCHANGED <<loc, inst, gallery, nextImage, rowLock>>
    BY <1>8 DEF Fill
  <2>2. FormOK(p, "loaded", l, inst, N, rowLock) /\ l.got \in Copies  BY <1>2, <2>1 DEF FormOK, Locked, Forms
  <2> QED  BY <2>1, <2>2, QuietForm
<1>9. CASE Admit(p)
  <2>1. pc[p] = "loaded" /\ UNCHANGED settingsVars  BY <1>9 DEF Admit
  <2>2. FormOK(p, "admitted", l, inst, N, rowLock)  BY <1>0, <2>1 DEF FormsInv, FormOK, SettingsAt, Locked
  <2>3. CASE Done(p)  BY <1>0, <2>1, <2>3, QuietForm DEF Done, settingsVars
  <2>4. CASE Goto(p, "admitted") /\ UNCHANGED loc  BY <1>0, <2>1, <2>2, <2>4, QuietForm DEF settingsVars
  <2> QED  BY <1>9, <2>3, <2>4 DEF Admit
<1>10. CASE Answered(p)
  <2>1. Done(p) /\ UNCHANGED settingsVars  BY <1>10 DEF Answered
  <2> QED  BY <1>0, <2>1, QuietForm DEF Done, settingsVars
<1>11. CASE Invalidate(p)
  <2>1. pc[p] = "dropCache" /\ cache' = None /\ UNCHANGED <<inst, gallery, nextImage, rowLock>>  BY <1>11 DEF Invalidate
  <2>2. FormOK(p, "forgetBatches", l, inst, N, rowLock)  BY <1>0, <2>1 DEF FormsInv, FormOK, SettingsAt, Locked
  <2>3. CASE Done(p)  BY <2>1, <2>3, QuietForm DEF Done
  <2>4. CASE Goto(p, "forgetBatches") /\ UNCHANGED loc  BY <2>1, <2>2, <2>4, QuietForm
  <2> QED  BY <1>11, <2>3, <2>4 DEF Invalidate
<1> QED  BY <1>1, <1>4, <1>5, <1>6, <1>7, <1>8, <1>9, <1>10, <1>11

LEMMA PlainChanges ==
    ASSUME DeskOK, SettingsInv, NEW p \in Procs,
           \/ \E n \in Names : HandlePutInstanceName(p, n) \/ HandlePutInstanceIcon(p, n)
           \/ HandleDeleteInstanceIcon(p)
           \/ \E on \in BOOLEAN : HandlePutMaintenance(p, on)
           \/ \E i \in gallery : HandleDeleteLoginImage(p, i)
    PROVE  SettingsInv'
<1>0. LookInv /\ FormsInv /\ inst \in InstRows /\ (inst.source \in KeyedSources => inst.source \in inst.keys)
  BY DEF SettingsInv, LookInv
<1>1. FormOK(p, "dropCache", NoForm, inst', Cardinality(gallery'), rowLock')  BY FormsTyped DEF FormOK, Locked
<1>2. ASSUME NEW row \in InstRows, row.source = inst.source, row.keys = inst.keys, Change(p, row)
      PROVE  SettingsInv'
  <2>1. /\ rowLock = None /\ inst' = row /\ Goto(p, "dropCache") /\ Set(p, NoForm)
        /\ UNCHANGED <<gallery, nextImage, cache>>
    BY <1>2 DEF Change
  <2>2. LookInv'  BY <1>0, <1>2, <2>1 DEF LookInv
  <2>3. LockKept(p)  BY <2>1, DeskAssumption DEF LockKept
  <2>4. FormsInv'  BY <1>0, <1>1, <2>1, <2>3, FormsMove
  <2> QED  BY <2>2, <2>4 DEF SettingsInv
<1>3. ASSUME NEW n \in Names \cup {None}
      PROVE  /\ [inst EXCEPT !.name = n] \in InstRows /\ [inst EXCEPT !.name = n].source = inst.source
             /\ [inst EXCEPT !.name = n].keys = inst.keys
             /\ [inst EXCEPT !.icon = n] \in InstRows /\ [inst EXCEPT !.icon = n].source = inst.source
             /\ [inst EXCEPT !.icon = n].keys = inst.keys
  BY <1>0, <1>3 DEF InstRows
<1>4. ASSUME NEW on \in BOOLEAN
      PROVE  /\ [inst EXCEPT !.maint = on] \in InstRows /\ [inst EXCEPT !.maint = on].source = inst.source
             /\ [inst EXCEPT !.maint = on].keys = inst.keys
  BY <1>0, <1>4 DEF InstRows
<1>5. ASSUME NEW n \in Names, HandlePutInstanceName(p, n) \/ HandlePutInstanceIcon(p, n)
      PROVE  SettingsInv'
  BY <1>2, <1>3, <1>5 DEF HandlePutInstanceName, HandlePutInstanceIcon
<1>6. CASE HandleDeleteInstanceIcon(p)  BY <1>2, <1>3, <1>6 DEF HandleDeleteInstanceIcon
<1>7. ASSUME NEW on \in BOOLEAN, HandlePutMaintenance(p, on)
      PROVE  SettingsInv'
  BY <1>2, <1>4, <1>7 DEF HandlePutMaintenance
<1>8. ASSUME NEW i \in gallery, HandleDeleteLoginImage(p, i)
      PROVE  SettingsInv'
  <2>1. /\ gallery' = gallery \ {i} /\ Goto(p, "dropCache") /\ Set(p, NoForm)
        /\ UNCHANGED <<inst, nextImage, rowLock, cache>>
    BY <1>8 DEF HandleDeleteLoginImage
  <2>2. IsFiniteSet(gallery') /\ Cardinality(gallery') <= Cardinality(gallery)
        /\ Cardinality(gallery') \in Nat /\ Cardinality(gallery) \in Nat
    <3>1. IsFiniteSet(gallery) /\ gallery' \in SUBSET gallery  BY <1>0, <2>1 DEF LookInv
    <3> QED  BY <3>1, FS_Subset, FS_CardinalityType
  <2>3. LookInv'  BY <1>0, <2>1, <2>2, SettingsAssumption DEF LookInv
  <2>4. LockKept(p)  BY <2>1, <2>2, SettingsAssumption DEF LockKept
  <2>5. FormsInv'  BY <1>0, <1>1, <2>1, <2>4, FormsMove
  <2> QED  BY <2>3, <2>5 DEF SettingsInv
<1> QED  BY <1>5, <1>6, <1>7, <1>8

LEMMA LookRequests ==
    ASSUME DeskOK, SettingsInv, NEW p \in Procs,
           \/ \E src \in (KeyedSources \cap ops) \cup {"none"}, new \in SUBSET (KeyedSources \cap ops) :
                 HandlePutLoginAppearance(p, src, new)
           \/ \E src \in KeyedSources \cap ops : HandleDeleteKey(p, src)
           \/ KeyRequired(p) \/ HandlePostLoginImage(p) \/ LockInstanceSettings(p) \/ ForgetBatches(p)
    PROVE  SettingsInv'
<1> DEFINE l == loc[p]
           N == Cardinality(gallery)
<1>0. LookInv /\ FormsInv /\ cache \in Copies \cup {None}  BY DEF SettingsInv, LookInv
<1>1. ASSUME NEW put \in Puts, NEW label \in {"lockLook", "lockClear"}, Goto(p, label), Set(p, Putting(put)), UNCHANGED settingsVars
      PROVE  SettingsInv'
  <2>1. Putting(put) \in Forms /\ Putting(put).put = put  BY FormsTyped
  <2>2. FormOK(p, label, Putting(put), inst, N, rowLock)  BY <1>1, <2>1 DEF FormOK, Locked
  <2> QED  BY <1>0, <1>1, <2>2, QuietForm DEF settingsVars
<1>2. ASSUME NEW src \in (KeyedSources \cap ops) \cup {"none"}, NEW new \in SUBSET (KeyedSources \cap ops),
             HandlePutLoginAppearance(p, src, new)
      PROVE  SettingsInv'
  <2> DEFINE put == [source |-> src, keys |-> new]
  <2>1. put \in Puts  BY DEF Puts
  <2>2. CASE src \in KeyedSources \ new
    <3>1. LoadFor(p, Putting(put))  BY <1>2, <2>2, Zenon DEF HandlePutLoginAppearance
    <3>2. Putting(put) \in Forms /\ Putting(put).put = put  BY <2>1, FormsTyped
    <3> HIDE DEF put
    <3> QED  BY <2>1, <3>1, <3>2, LoadKeeps
  <2>3. CASE src \notin KeyedSources \ new
    <3>1. Goto(p, "lockLook") /\ Set(p, Putting(put)) /\ UNCHANGED settingsVars  BY <1>2, <2>3, Zenon DEF HandlePutLoginAppearance
    <3> HIDE DEF put
    <3> QED  BY <1>1, <2>1, <3>1
  <2> QED  BY <2>2, <2>3
<1>3. ASSUME NEW src \in KeyedSources \cap ops, HandleDeleteKey(p, src)
      PROVE  SettingsInv'
  <2> DEFINE put == [source |-> src, keys |-> {}]
  <2>1. put \in Puts  BY DEF Puts
  <2>2. Goto(p, "lockClear") /\ Set(p, Putting(put)) /\ UNCHANGED settingsVars  BY <1>3, Zenon DEF HandleDeleteKey
  <2> HIDE DEF put
  <2> QED  BY <1>1, <2>1, <2>2
<1>4. CASE KeyRequired(p)
  <2>1. pc[p] = "loaded" /\ l.why = "look" /\ UNCHANGED settingsVars  BY <1>4 DEF KeyRequired
  <2>2. l.put \in Puts  BY <1>0, <2>1 DEF FormsInv, FormOK, SettingsAt
  <2>3. CASE Goto(p, "lockLook") /\ Set(p, Putting(l.put))  BY <1>1, <2>1, <2>2, <2>3
  <2>4. CASE Done(p)  BY <1>0, <2>1, <2>4, QuietForm DEF Done, settingsVars
  <2> QED  BY <1>4, <2>3, <2>4, Zenon DEF KeyRequired
<1>5. CASE HandlePostLoginImage(p)
  <2>1. Goto(p, "lockImage") /\ Set(p, NoForm) /\ UNCHANGED settingsVars  BY <1>5 DEF HandlePostLoginImage
  <2>2. FormOK(p, "lockImage", NoForm, inst, N, rowLock)  BY FormsTyped DEF FormOK, Locked
  <2> QED  BY <1>0, <2>1, <2>2, QuietForm DEF settingsVars
<1>6. CASE LockInstanceSettings(p)
  <2>1. /\ pc[p] \in {"lockLook", "lockClear", "lockImage"} /\ rowLock = None /\ rowLock' = p /\ Goto(p, Locks[pc[p]])
        /\ UNCHANGED <<loc, inst, gallery, nextImage, cache>>
    BY <1>6 DEF LockInstanceSettings, Locks
  <2>2. \/ pc[p] = "lockLook" /\ Locks[pc[p]] = "checkLook"
        \/ pc[p] = "lockClear" /\ Locks[pc[p]] = "checkClear"
        \/ pc[p] = "lockImage" /\ Locks[pc[p]] = "checkImage"
    BY <2>1 DEF Locks
  <2>3. FormOK(p, pc[p], l, inst, N, rowLock)  BY <1>0, <2>1 DEF FormsInv, SettingsAt
  <2>4. FormOK(p, Locks[pc[p]], l, inst', Cardinality(gallery'), rowLock')  BY <2>1, <2>2, <2>3 DEF FormOK, Locked
  <2>5. LockKept(p)  BY <2>1, DeskAssumption DEF LockKept
  <2>6. FormsInv'  BY <1>0, <2>1, <2>4, <2>5, FormsMove
  <2>7. LookInv'  BY <1>0, <2>1 DEF LookInv
  <2> QED  BY <2>6, <2>7 DEF SettingsInv
<1>7. CASE ForgetBatches(p)
  <2>1. Done(p) /\ UNCHANGED settingsVars  BY <1>7 DEF ForgetBatches
  <2> QED  BY <1>0, <2>1, QuietForm DEF Done, settingsVars
<1> QED  BY <1>2, <1>3, <1>4, <1>5, <1>6, <1>7

\* The transactions: nobody else changes the row while one of them holds its lock.
LEMMA Transactions ==
    ASSUME DeskOK, SettingsInv, NEW p \in Procs,
           \/ CheckLook(p) \/ CheckClear(p) \/ CheckImage(p)
           \/ SetLoginAppearance(p) \/ ClearWallpaperKey(p) \/ InsertLoginBackgroundImage(p)
    PROVE  SettingsInv'
<1> DEFINE l == loc[p]
           put == l.put
           N == Cardinality(gallery)
<1>0. LookInv /\ FormsInv /\ inst \in InstRows /\ cache \in Copies \cup {None}  BY DEF SettingsInv, LookInv
<1>1. pc[p] \in Locked /\ FormOK(p, pc[p], l, inst, N, rowLock) /\ rowLock = p
  <2>1. pc[p] \in Locked
    BY DEF CheckLook, CheckClear, CheckImage, SetLoginAppearance, ClearWallpaperKey, InsertLoginBackgroundImage, Locked
  <2> QED  BY <1>0, <2>1 DEF FormsInv, FormOK, SettingsAt, Locked
<1>2. LockKept(p)  BY <1>1 DEF LockKept
<1>3. ASSUME Goto(p, "dropCache"), Set(p, NoForm), rowLock' = None, UNCHANGED <<inst, gallery, nextImage, cache>>
      PROVE  SettingsInv'
  <2>1. FormOK(p, "dropCache", NoForm, inst', Cardinality(gallery'), rowLock')  BY FormsTyped DEF FormOK, Locked
  <2>2. FormsInv'  BY <1>0, <1>2, <1>3, <2>1, FormsMove
  <2>3. LookInv'  BY <1>0, <1>3 DEF LookInv
  <2> QED  BY <2>2, <2>3 DEF SettingsInv
<1>4. ASSUME NEW next, Goto(p, next), UNCHANGED <<loc, rowLock, inst, gallery, nextImage, cache>>,
             FormOK(p, next, l, inst, N, rowLock)
      PROVE  SettingsInv'
  BY <1>0, <1>4, QuietForm
<1>5. CASE CheckLook(p)
  <2> DEFINE ok == put.source \in KeyedSources \ put.keys => put.source \in inst.keys
  <2>1. pc[p] = "checkLook" /\ Decide(p, ok, "writeLook")  BY <1>5, Zenon DEF CheckLook
  <2>2. CASE ok
    <3>1. FormOK(p, "writeLook", l, inst, N, rowLock)  BY <1>1, <2>1, <2>2 DEF FormOK, Locked
    <3>2. Goto(p, "writeLook") /\ UNCHANGED <<loc, rowLock, inst, gallery, nextImage, cache>>
      BY <2>1, <2>2, Zenon DEF Decide
    <3> QED  BY <1>4, <3>1, <3>2
  <2>3. CASE ~ok
    <3>1. Goto(p, "dropCache") /\ Set(p, NoForm) /\ rowLock' = None /\ UNCHANGED <<inst, gallery, nextImage, cache>>
      BY <2>1, <2>3, Zenon DEF Decide
    <3> QED  BY <1>3, <3>1
  <2> QED  BY <2>2, <2>3
<1>6. CASE CheckClear(p)
  <2> DEFINE ok == inst.source # put.source
  <2>1. pc[p] = "checkClear" /\ Decide(p, ok, "writeClear")  BY <1>6, Zenon DEF CheckClear
  <2>2. CASE ok
    <3>1. FormOK(p, "writeClear", l, inst, N, rowLock)  BY <1>1, <2>1, <2>2 DEF FormOK, Locked
    <3>2. Goto(p, "writeClear") /\ UNCHANGED <<loc, rowLock, inst, gallery, nextImage, cache>>
      BY <2>1, <2>2, Zenon DEF Decide
    <3> QED  BY <1>4, <3>1, <3>2
  <2>3. CASE ~ok
    <3>1. Goto(p, "dropCache") /\ Set(p, NoForm) /\ rowLock' = None /\ UNCHANGED <<inst, gallery, nextImage, cache>>
      BY <2>1, <2>3, Zenon DEF Decide
    <3> QED  BY <1>3, <3>1
  <2> QED  BY <2>2, <2>3
<1>7. CASE CheckImage(p)
  <2> DEFINE ok == N < MaxLoginImages
  <2>1. pc[p] = "checkImage" /\ Decide(p, ok, "writeImage")  BY <1>7, Zenon DEF CheckImage
  <2>2. CASE ok
    <3>1. FormOK(p, "writeImage", l, inst, N, rowLock)  BY <1>1, <2>1, <2>2 DEF FormOK, Locked
    <3>2. Goto(p, "writeImage") /\ UNCHANGED <<loc, rowLock, inst, gallery, nextImage, cache>>
      BY <2>1, <2>2, Zenon DEF Decide
    <3> QED  BY <1>4, <3>1, <3>2
  <2>3. CASE ~ok
    <3>1. Goto(p, "dropCache") /\ Set(p, NoForm) /\ rowLock' = None /\ UNCHANGED <<inst, gallery, nextImage, cache>>
      BY <2>1, <2>3, Zenon DEF Decide
    <3> QED  BY <1>3, <3>1
  <2> QED  BY <2>2, <2>3
<1>8. ASSUME NEW row \in InstRows, row.source \in KeyedSources => row.source \in row.keys,
             NEW imgs \in SUBSET Nat, IsFiniteSet(imgs), Cardinality(imgs) <= MaxLoginImages, NEW next \in Nat,
             NEW why \in {"forget", None}, Commit(p, row, imgs, next, why)
      PROVE  SettingsInv'
  <2>1. /\ inst' = row /\ gallery' = imgs /\ nextImage' = next /\ cache' = cache
        /\ Goto(p, "dropCache") /\ Set(p, For(why))
    BY <1>8 DEF Commit
  <2>2. For(why) \in Forms  BY FormsTyped
  <2>3. FormOK(p, "dropCache", For(why), inst', Cardinality(gallery'), rowLock')  BY <2>2 DEF FormOK, Locked
  <2>4. FormsInv'
    <3>1. \A q \in Procs : q # p => rowLock # q  BY <1>1
    <3>2. LockKept(p)  BY <3>1 DEF LockKept
    <3> QED  BY <1>0, <2>1, <2>3, <3>2, FormsMove
  <2>5. LookInv'  BY <1>0, <1>8, <2>1 DEF LookInv
  <2> QED  BY <2>4, <2>5 DEF SettingsInv
<1>9. /\ inst.source \in KeyedSources => inst.source \in inst.keys
      /\ gallery \in SUBSET Nat /\ IsFiniteSet(gallery) /\ N <= MaxLoginImages /\ N \in Nat /\ nextImage \in Nat
  BY <1>0, FS_CardinalityType DEF LookInv
<1>10. CASE SetLoginAppearance(p)
  <2> DEFINE row == [inst EXCEPT !.source = put.source, !.keys = @ \cup put.keys]
  <2>1. pc[p] = "writeLook" /\ Commit(p, row, gallery, nextImage, "forget")  BY <1>10, Zenon DEF SetLoginAppearance
  <2>2. put \in Puts /\ (put.source \in KeyedSources \ put.keys => put.source \in inst.keys)  BY <1>1, <2>1 DEF FormOK
  <2>3. row \in InstRows /\ row.source = put.source /\ row.keys = inst.keys \cup put.keys
    BY <1>0, <2>2 DEF InstRows, Puts
  <2> HIDE DEF row
  <2>4. row.source \in KeyedSources => row.source \in row.keys  BY <2>2, <2>3
  <2> QED  BY <1>8, <1>9, <2>1, <2>3, <2>4
<1>11. CASE ClearWallpaperKey(p)
  <2> DEFINE src == put.source
             row == [inst EXCEPT !.keys = @ \ {src}]
             why == IF src = "unsplash" THEN "forget" ELSE None
  <2>1. pc[p] = "writeClear" /\ Commit(p, row, gallery, nextImage, why)  BY <1>11, Zenon DEF ClearWallpaperKey
  <2>2. inst.source # src  BY <1>1, <2>1 DEF FormOK
  <2>3. row \in InstRows /\ row.source = inst.source /\ row.keys = inst.keys \ {src}  BY <1>0 DEF InstRows
  <2>4. why \in {"forget", None}  OBVIOUS
  <2> HIDE DEF row, why
  <2>5. row.source \in KeyedSources => row.source \in row.keys  BY <1>9, <2>2, <2>3
  <2> QED  BY <1>8, <1>9, <2>1, <2>3, <2>4, <2>5
<1>12. CASE InsertLoginBackgroundImage(p)
  <2> DEFINE imgs == gallery \cup {nextImage}
  <2>1. pc[p] = "writeImage" /\ Commit(p, inst, imgs, nextImage + 1, None)  BY <1>12 DEF InsertLoginBackgroundImage
  <2>2. N < MaxLoginImages  BY <1>1, <2>1 DEF FormOK
  <2>3. IsFiniteSet(imgs) /\ (Cardinality(imgs) = N \/ Cardinality(imgs) = N + 1)  BY <1>9, FS_AddElement
  <2>4. imgs \in SUBSET Nat /\ nextImage + 1 \in Nat  BY <1>9
  <2>5. Cardinality(imgs) <= MaxLoginImages  BY <1>9, <2>2, <2>3, SettingsAssumption
  <2> HIDE DEF imgs
  <2> QED  BY <1>0, <1>8, <1>9, <2>1, <2>3, <2>4, <2>5
<1> QED  BY <1>5, <1>6, <1>7, <1>10, <1>11, <1>12

LEMMA SettingsInvStep ==
    ASSUME DeskOK, SettingsInv, [Next]_vars
    PROVE  SettingsInv'
<1>1. CASE SettingsNext  BY <1>1, ReadSteps, PlainChanges, LookRequests, Transactions DEF SettingsNext
<1>2. CASE Apart(SettingsAt) /\ UNCHANGED settingsVars
  <2>1. LookInv'  BY <1>2 DEF SettingsInv, LookInv, settingsVars
  <2>2. FormsInv'  BY <1>2 DEF SettingsInv, FormsInv, Apart, settingsVars
  <2> QED  BY <2>1, <2>2 DEF SettingsInv
<1> QED  BY <1>1, <1>2, SettingsStep

LEMMA SettingsInvInit == Init => SettingsInv
<1> SUFFICES ASSUME Init PROVE SettingsInv  OBVIOUS
<1>1. inst = NoOverride /\ gallery = {} /\ nextImage = 1 /\ cache = None  BY DEF Init, SettingsInit
<1>2. NoOverride.source = "none"  BY DEF NoOverride
<1>3. LookInv  BY <1>1, <1>2, FormsTyped, FS_EmptySet, SettingsAssumption DEF LookInv
<1>4. FormsInv  BY DEF Init, FormsInv, SettingsAt
<1> QED  BY <1>3, <1>4 DEF SettingsInv

\* The sign-in page can be drawn as it was saved: the source in effect has its key, the
\* limit of images is kept whoever uploads at the same time, no failed refresh takes the
\* wallpapers away and nobody waits for a refresh no request carries out (PGStore's
\* SetAppearance, clearWallpaperKey and AddImage; the wallpaper service's singleflight).
THEOREM LookStaysComplete == Spec => []LookComplete
<1>1. DeskOK /\ SettingsInv /\ WallpapersInv /\ [Next]_vars => DeskOK' /\ SettingsInv' /\ WallpapersInv'
  BY DeskStep, SettingsInvStep, WallpapersInvStep
<1>2. SettingsInv /\ WallpapersInv => LookComplete
  <2> SUFFICES ASSUME SettingsInv, WallpapersInv PROVE LookComplete  OBVIOUS
  <2>1. (inst.source \in KeyedSources => inst.source \in inst.keys) /\ Cardinality(gallery) <= MaxLoginImages
    BY DEF SettingsInv, LookInv
  <2>2. \A k \in kept : batch[k].ok  BY DEF WallpapersInv, BatchInv
  <2>3. ASSUME NEW p \in Procs, pc[p] \in {"await", "awaitImage"}
        PROVE  flight[loc[p].key] # None /\ pc[flight[loc[p].key]] \in {"fetch", "download"}
    <3>1. AskOK(p, pc[p], loc[p], flight)  BY <2>3 DEF WallpapersInv, AsksInv, WallpapersAt
    <3>2. loc[p].key \in Keys /\ flight[loc[p].key] # None  BY <2>3, <3>1 DEF AskOK
    <3> QED  BY <3>2 DEF WallpapersInv, FlightInv, Flying
  <2> QED  BY <2>1, <2>2, <2>3 DEF LookComplete, WallpapersKept
<1> QED  BY <1>1, <1>2, DeskInit, SettingsInvInit, WallpapersInvInit, PTL DEF Spec

-----------------------------------------------------------------------------
(* Disclosure                                                                *)

Srcs == {"sub", "username", "verified_email"}
Uuids == {Uuid(a) : a \in Holders}
Subs == Uuids \cup Usernames \cup Addresses \cup {None}
Rows == [disabled : BOOLEAN, name : Usernames, email : Addresses \cup {None}, linked : BOOLEAN]
RpRows == [method : {"none", "client_secret"}, secret : Nat, source : Srcs, aliases : AliasSets \cup {{}}, disabled : BOOLEAN]
Tokens == [kind : {"accessToken", "idToken", "refreshToken"}, id : Holders \cup {None}, owner : Holders, client : Rps,
           scope : Grants, sub : Subs, exp : Nat]
Queries == [tok : Jtis, by : Rps, secret : Nat, acct : Holders \cup {None}, row : Rows \cup {None}, source : Srcs \cup {None},
            aliases : AliasSets \cup {{}}, sub : Subs, email : Addresses \cup {None}]

\* A token names its owner: by the id, or else by the subject.
TokenOK(x) == x \in Tokens /\ (x.id = x.owner \/ (x.id = None /\ x.sub = Uuid(x.owner)))

WorldInv ==
    /\ person \in [Holders -> Rows] /\ rp \in [Rps -> RpRows]
    /\ DOMAIN token = Jtis /\ \A t \in Jtis : token[t] = None \/ TokenOK(token[t])
    /\ family \in [cur : Jtis \cup {None}, prev : Jtis \cup {None}, till : Nat]
    /\ family.cur # None => TokenOK(token[family.cur])
    /\ secrets \in Nat /\ DOMAIN seen = Procs

\* What request v has been watched for is what is the case now.
Watched(v, s) ==
    /\ v \in Queries /\ token[v.tok] # None
    /\ s.lost \subseteq Lacking(v.tok, v.by, v.secret)
    /\ Held(v.tok) \subseteq s.held
    /\ rp[token[v.tok].client].source \in s.srcs

Principals(source, a) ==
    CASE source = "sub" -> {Uuid(a)} [] source = "username" -> Usernames [] source = "verified_email" -> Addresses

UserinfoAt == {"userinfoAccount", "userinfoClient", "userinfoAccess", "userinfoPrincipal", "userinfoEmail", "userinfoAnswer"}
IntrospectAt == {"introspectToken", "introspectAccount", "introspectAnswer"}

\* What a request at label l about token x knows in v; s: what has been lost all along,
\* and what it may have read.
QueryOK(l, v, s, x) ==
    /\ v \in Queries
    /\ l \in UserinfoAt => v.by = x.client /\ "token" \notin s.lost
    /\ l \in (UserinfoAt \ {"userinfoAccount"}) \cup {"introspectAnswer"} =>
          v.acct = x.owner /\ v.row \in Rows /\ v.row.name \in s.held /\ "account" \notin s.lost
    /\ l \in UserinfoAt \ {"userinfoAccount", "userinfoClient"} => v.source \in Srcs \cap s.srcs
    /\ l \in {"userinfoPrincipal", "userinfoEmail", "userinfoAnswer"} => {"access", "client"} \cap s.lost = {}
    /\ l \in {"userinfoEmail", "userinfoAnswer"} =>
          v.sub \in s.held /\ v.sub \in Principals(v.source, x.owner) /\ ValidateClaimAliases(v.aliases)
    /\ l = "userinfoAnswer" => v.email \in s.held
    /\ l \in IntrospectAt => {"secret", "client"} \cap s.lost = {} /\ v.source \in Srcs /\ (v.by = x.client => v.source \in s.srcs)
    /\ l \in IntrospectAt \ {"introspectToken"} => v.by = x.client /\ "token" \notin s.lost
    /\ l = "logoutRevoke" => v.acct = x.owner

QueriesInv == \A p \in Procs : pc[p] \in DisclosureAt \ {"idle"} =>
    Watched(loc[p], seen[p]) /\ QueryOK(pc[p], loc[p], seen[p], token[loc[p].tok])

DisclosureInv == WorldInv /\ QueriesInv

\* What the disclosing requests see: their own steps, and steps apart from them.
LEMMA DisclosureStep ==
    ASSUME DeskOK, [Next]_vars
    PROVE  \/ DisclosureNext /\ clock' = clock
           \/ DisclosureTick
           \/ Apart(DisclosureAt) /\ UNCHANGED disclosureVars
BY ServiceStep, MovesApart, QuietApart, LabelsDiffer DEF Moves

\* A token names one account, its owner.
LEMMA OneAccount ==
    ASSUME NEW x, TokenOK(x)
    PROVE  AccountFromTokenClaims(x) = {x.owner}
<1>1. x.owner \in Holders /\ x.owner # None  BY DisclosureAssumption DEF TokenOK, Tokens
<1>2. CASE x.id = x.owner  BY <1>1, <1>2 DEF AccountFromTokenClaims
<1>3. CASE x.id = None /\ x.sub = Uuid(x.owner)
  BY <1>1, <1>3 DEF AccountFromTokenClaims, Uuid
<1> QED  BY <1>2, <1>3 DEF TokenOK

\* A request keeps what it knows when less is lost and more may have been read.
LEMMA QueryKept ==
    ASSUME NEW l, NEW v, NEW s, NEW r, NEW x, QueryOK(l, v, s, x),
           r.lost \subseteq s.lost, s.held \subseteq r.held, s.srcs \subseteq r.srcs
    PROVE  QueryOK(l, v, r, x)
BY DEF QueryOK

LEMMA QueryFacts ==
    ASSUME DisclosureInv, NEW p \in Procs, pc[p] \in DisclosureAt \ {"idle"}
    PROVE  /\ WorldInv /\ Watched(loc[p], seen[p]) /\ QueryOK(pc[p], loc[p], seen[p], token[loc[p].tok])
           /\ loc[p] \in Queries /\ TokenOK(token[loc[p].tok])
<1>1. WorldInv /\ Watched(loc[p], seen[p]) /\ QueryOK(pc[p], loc[p], seen[p], token[loc[p].tok])
  BY DEF DisclosureInv, QueriesInv
<1>2. loc[p] \in Queries /\ loc[p].tok \in Jtis /\ token[loc[p].tok] # None  BY <1>1 DEF Watched, Queries
<1> QED  BY <1>1, <1>2 DEF WorldInv

\* Time only takes standing away.
LEMMA StillWatched ==
    ASSUME DeskOK, WorldInv, NEW p \in Procs, Watched(loc[p], seen[p]),
           clock' \in Nat, clock' >= clock, UNCHANGED <<person, rp, may, denied>>,
           token'[loc[p].tok] = token[loc[p].tok],
           IsActiveToken(loc[p].tok)' => IsActiveToken(loc[p].tok),
           loc'[p] \in Queries, loc'[p].tok = loc[p].tok, loc'[p].by = loc[p].by, loc'[p].secret = loc[p].secret,
           seen'[p] = seen[p]
    PROVE  Watched(loc[p], seen[p])'
<1> DEFINE v == loc[p]
           x == token[v.tok]
<1>1. v \in Queries /\ x # None /\ v.tok \in Jtis  BY DEF Watched, Queries
<1>2. x.exp \in Nat  BY <1>1 DEF WorldInv, TokenOK, Tokens
<1>3. clock >= x.exp => clock' >= x.exp  BY <1>2 DEF DeskOK
<1>4. Lacking(v.tok, v.by, v.secret) \subseteq Lacking(v.tok, v.by, v.secret)'
  <2> DEFINE t == v.tok
             c == v.by
             s == v.secret
  <2>1. t' = t /\ c' = c /\ s' = s /\ token'[t] = token[t] /\ (IsActiveToken(t)' => IsActiveToken(t))  OBVIOUS
  <2>2. clock >= token[t].exp => clock' >= token[t].exp  BY <1>3
  <2> HIDE DEF v, t, c, s
  <2>3. SUFFICES ASSUME NEW e \in Lacking(t, c, s) PROVE e \in Lacking(t, c, s)'  BY DEF t, c, s
  <2>4. CASE e = "token"  BY <2>1, <2>2, <2>3, <2>4 DEF Lacking
  <2>5. CASE e # "token"  BY <2>1, <2>3, <2>5 DEF Lacking
  <2> QED  BY <2>4, <2>5
<1>5. Held(v.tok)' = Held(v.tok)  BY DEF Held
<1> QED  BY <1>4, <1>5 DEF Watched

\* The request of q is not touched by a step of another.
LEMMA OthersStill ==
    ASSUME DeskOK, DisclosureInv, UNCHANGED <<clock, person, rp, may, token, denied, family>>,
           NEW q \in Procs, pc[q] \in DisclosureAt \ {"idle"}, pc'[q] = pc[q], loc'[q] = loc[q], seen'[q] = seen[q]
    PROVE  (Watched(loc[q], seen[q]) /\ QueryOK(pc[q], loc[q], seen[q], token[loc[q].tok]))'
<1>1. Watched(loc[q], seen[q])'
  <2>1. clock \in Nat /\ clock' \in Nat /\ clock' >= clock  BY DEF DeskOK
  <2>2. IsActiveToken(loc[q].tok)' => IsActiveToken(loc[q].tok)  BY DEF IsActiveToken
  <2> QED  BY <2>1, <2>2, QueryFacts, StillWatched
<1>2. QueryOK(pc[q], loc[q], seen[q], token[loc[q].tok])'  BY QueryFacts DEF QueryOK
<1> QED  BY <1>1, <1>2

\* The world changes in the sight of the requests.
LEMMA WatchKeeps ==
    ASSUME DeskOK, DisclosureInv, Watch
    PROVE  QueriesInv' /\ DOMAIN seen' = Procs /\ told' = None
<1>1. DOMAIN seen' = Procs /\ told' = None /\ UNCHANGED <<pc, loc, token>>  BY DEF Watch
<1>2. SUFFICES ASSUME NEW p \in Procs, pc[p] \in DisclosureAt \ {"idle"}
               PROVE  (Watched(loc[p], seen[p]) /\ QueryOK(pc[p], loc[p], seen[p], token[loc[p].tok]))'
  BY <1>1 DEF QueriesInv
<1>3. seen'[p] = [lost |-> seen[p].lost \cap Lacking(loc[p].tok, loc[p].by, loc[p].secret)',
                  held |-> seen[p].held \cup Held(loc[p].tok)',
                  srcs |-> seen[p].srcs \cup {rp'[token[loc[p].tok].client].source}]
  BY <1>2 DEF Watch
<1>4. Watched(loc[p], seen[p])'
  BY <1>1, <1>2, <1>3, QueryFacts DEF Watched
<1>5. QueryOK(pc[p], loc[p], seen[p], token[loc[p].tok])'
  <2>1. QueryOK(pc[p], loc[p], seen'[p], token[loc[p].tok])  BY <1>2, <1>3, QueryFacts, QueryKept
  <2> QED  BY <1>1, <2>1 DEF QueryOK
<1> QED  BY <1>1, <1>4, <1>5

\* Administrators and the holder: accounts, clients and the access policy.
LEMMA WorldSteps ==
    ASSUME DeskOK, DisclosureInv,
           \/ DisclosureTick
           \/ \E t \in Jtis : RevokeToken(t)
           \/ \E a \in Holders :
                 \/ SetDisabled(a) \/ Unlink(a)
                 \/ \E n \in Usernames : Rename(a, n)
                 \/ \E e \in Addresses \cup {None} : SetEmail(a, e)
                 \/ \E c \in Rps : SetAccess(a, c)
           \/ \E c \in Rps :
                 \/ RotateSecret(c) \/ SetClientDisabled(c)
                 \/ \E s \in {"sub", "username", "verified_email", "groups"}, x \in AliasSets : UpdateProjection(c, s, x)
    PROVE  DisclosureInv' /\ told' = None
<1>0. WorldInv  BY DEF DisclosureInv
<1>1. Watch
  BY DEF DisclosureTick, RevokeToken, SetDisabled, Unlink, Rename, SetEmail, SetAccess, RotateSecret, SetClientDisabled,
     UpdateProjection
<1>2. QueriesInv' /\ DOMAIN seen' = Procs /\ told' = None /\ UNCHANGED token  BY <1>1, WatchKeeps DEF Watch
<1>3. person' \in [Holders -> Rows] /\ rp' \in [Rps -> RpRows] /\ secrets' \in Nat
  <2>1. CASE UNCHANGED <<person, rp, secrets>>  BY <1>0, <2>1 DEF WorldInv
  <2>2. ASSUME NEW a \in Holders,
               \/ SetDisabled(a) \/ Unlink(a)
               \/ \E n \in Usernames : Rename(a, n)
               \/ \E e \in Addresses \cup {None} : SetEmail(a, e)
        PROVE  person' \in [Holders -> Rows] /\ rp' \in [Rps -> RpRows] /\ secrets' \in Nat
    <3>1. person[a] \in Rows /\ UNCHANGED <<rp, secrets>>  BY <1>0, <2>2 DEF SetDisabled, Unlink, Rename, SetEmail, WorldInv
    <3>2. CASE SetDisabled(a)  BY <1>0, <3>1, <3>2 DEF SetDisabled, WorldInv, Rows
    <3>3. CASE Unlink(a)  BY <1>0, <3>1, <3>3 DEF Unlink, WorldInv, Rows
    <3>4. CASE \E n \in Usernames : Rename(a, n)  BY <1>0, <3>1, <3>4 DEF Rename, WorldInv, Rows
    <3>5. CASE \E e \in Addresses \cup {None} : SetEmail(a, e)  BY <1>0, <3>1, <3>5 DEF SetEmail, WorldInv, Rows
    <3> QED  BY <2>2, <3>2, <3>3, <3>4, <3>5
  <2>3. ASSUME NEW c \in Rps,
               \/ RotateSecret(c) \/ SetClientDisabled(c)
               \/ \E s \in {"sub", "username", "verified_email", "groups"}, x \in AliasSets : UpdateProjection(c, s, x)
        PROVE  person' \in [Holders -> Rows] /\ rp' \in [Rps -> RpRows] /\ secrets' \in Nat
    <3>1. rp[c] \in RpRows /\ UNCHANGED person  BY <1>0, <2>3 DEF RotateSecret, SetClientDisabled, UpdateProjection, WorldInv
    <3>2. CASE RotateSecret(c)  BY <1>0, <3>1, <3>2 DEF RotateSecret, WorldInv, RpRows
    <3>3. CASE SetClientDisabled(c)  BY <1>0, <3>1, <3>3 DEF SetClientDisabled, WorldInv, RpRows
    <3>4. ASSUME NEW s \in {"sub", "username", "verified_email", "groups"}, NEW x \in AliasSets, UpdateProjection(c, s, x)
          PROVE  rp' \in [Rps -> RpRows] /\ secrets' \in Nat
      <4> DEFINE r == [rp[c] EXCEPT !.source = s, !.aliases = x]
      <4>1. s \in Srcs  BY <3>4 DEF UpdateProjection, ValidPrincipalSource, Srcs
      <4>2. r \in RpRows  BY <3>1, <4>1 DEF RpRows
      <4>3. rp' = [rp EXCEPT ![c] = r] /\ UNCHANGED secrets  BY <3>4 DEF UpdateProjection
      <4> HIDE DEF r
      <4> QED  BY <1>0, <4>2, <4>3 DEF WorldInv
    <3>5. person' \in [Holders -> Rows]  BY <1>0, <3>1 DEF WorldInv
    <3> QED  BY <2>3, <3>2, <3>3, <3>4, <3>5
  <2>4. CASE DisclosureTick \/ (\E t \in Jtis : RevokeToken(t)) \/ \E a \in Holders, c \in Rps : SetAccess(a, c)
    BY <2>1, <2>4 DEF DisclosureTick, RevokeToken, SetAccess
  <2> QED  BY <2>2, <2>3, <2>4
<1>4. /\ family' \in [cur : Jtis \cup {None}, prev : Jtis \cup {None}, till : Nat]
      /\ family'.cur # None => TokenOK(token[family'.cur])
  <2>1. CASE UNCHANGED family  BY <1>0, <2>1 DEF WorldInv
  <2>2. CASE family' = [family EXCEPT !.cur = None, !.prev = None]  BY <1>0, <2>2 DEF WorldInv
  <2> QED  BY <2>1, <2>2 DEF DisclosureTick, RevokeToken, SetDisabled, Unlink, Rename, SetEmail, SetAccess, RotateSecret,
             SetClientDisabled, UpdateProjection
<1> QED  BY <1>0, <1>2, <1>3, <1>4 DEF DisclosureInv, WorldInv, TokenOK

\* Tokens are minted for a grant, and rotated.
LEMMA MintSteps ==
    ASSUME DeskOK, DisclosureInv, NEW t \in Jtis,
           \/ RotateFamily(t)
           \/ \E a \in Holders, c \in Rps, kind \in {"accessToken", "idToken", "refreshToken"}, s \in Grants : Mint(t, a, c, kind, s)
    PROVE  DisclosureInv' /\ told' = None
<1>0. WorldInv  BY DEF DisclosureInv
<1>1. told' = None /\ UNCHANGED <<clock, pc, loc, person, rp, may, denied, secrets, seen>>  BY DEF RotateFamily, Mint, desk
<1>2. ASSUME NEW y, TokenOK(y), token' = [token EXCEPT ![t] = y],
             family' = family \/ (family' \in [cur : {t}, prev : Jtis \cup {None}, till : Nat])
      PROVE  WorldInv'
  <2>1. DOMAIN token' = Jtis /\ \A u \in Jtis : token'[u] = None \/ TokenOK(token'[u])  BY <1>0, <1>2 DEF WorldInv
  <2>2. /\ family' \in [cur : Jtis \cup {None}, prev : Jtis \cup {None}, till : Nat]
        /\ family'.cur # None => TokenOK(token'[family'.cur])
    BY <1>0, <1>2 DEF WorldInv
  <2> QED  BY <1>0, <1>1, <2>1, <2>2 DEF WorldInv, TokenOK
<1>3. CASE RotateFamily(t)
  <2> DEFINE x == token[family.cur]
             y == [x EXCEPT !.kind = "refreshToken"]
  <2>1. family.cur \in Jtis /\ TokenOK(x) /\ token[t] = None  BY <1>0, <1>3 DEF RotateFamily, WorldInv
  <2>2. TokenOK(y)  BY <2>1 DEF TokenOK, Tokens
  <2>3. token' = [token EXCEPT ![t] = y]  BY <1>3 DEF RotateFamily
  <2>4. family' = [cur |-> t, prev |-> family.cur, till |-> clock + PreviousWindow]  BY <1>3 DEF RotateFamily
  <2>5. clock + PreviousWindow \in Nat  BY DisclosureAssumption DEF DeskOK
  <2>6. WorldInv'
    <3> HIDE DEF y
    <3> QED  BY <1>2, <2>1, <2>2, <2>3, <2>4, <2>5
  <2>7. QueriesInv'
    <3>1. SUFFICES ASSUME NEW p \in Procs, pc[p] \in DisclosureAt \ {"idle"}
                   PROVE  (Watched(loc[p], seen[p]) /\ QueryOK(pc[p], loc[p], seen[p], token[loc[p].tok]))'
      BY <1>1 DEF QueriesInv
    <3>2. loc[p] \in Queries /\ loc[p].tok \in Jtis /\ loc[p].tok # t /\ token'[loc[p].tok] = token[loc[p].tok]
      BY <1>0, <2>1, <2>3, <3>1, QueryFacts DEF Watched, Queries, WorldInv
    <3>3. IsActiveToken(loc[p].tok)' => IsActiveToken(loc[p].tok)  BY <1>1, <2>4, <3>2 DEF IsActiveToken
    <3>4. Watched(loc[p], seen[p])'
      <4>1. clock \in Nat /\ clock' \in Nat /\ clock' >= clock  BY <1>1 DEF DeskOK
      <4> QED  BY <1>1, <3>1, <3>2, <3>3, <4>1, QueryFacts, StillWatched
    <3>5. QueryOK(pc[p], loc[p], seen[p], token[loc[p].tok])'  BY <1>1, <3>1, <3>2, QueryFacts DEF QueryOK
    <3> QED  BY <3>4, <3>5
  <2> QED  BY <1>1, <2>6, <2>7 DEF DisclosureInv
<1>4. ASSUME NEW a \in Holders, NEW c \in Rps, NEW kind \in {"accessToken", "idToken", "refreshToken"}, NEW s \in Grants,
             Mint(t, a, c, kind, s)
      PROVE  DisclosureInv'
  <2> DEFINE sub == IF "legacy" \in ops THEN Uuid(a) ELSE ResolvePrincipal(a, person[a], rp[c].source)
             id == IF "legacy" \in ops THEN None ELSE a
             y == [kind |-> kind, id |-> id, owner |-> a, client |-> c, scope |-> s, sub |-> sub, exp |-> clock + TokenTTL]
  <2>1. sub \in Subs
    <3>1. person[a] \in Rows /\ rp[c] \in RpRows  BY <1>0 DEF WorldInv
    <3> QED  BY <3>1 DEF Subs, Uuids, ResolvePrincipal, Rows, RpRows, Srcs
  <2>2. id = a \/ (id = None /\ sub = Uuid(a))  OBVIOUS
  <2>3. clock + TokenTTL \in Nat  BY DisclosureAssumption DEF DeskOK
  <2>4. token' = [token EXCEPT ![t] = y] /\ (\A u \in Jtis : token[u] = None)  BY <1>4 DEF Mint
  <2>5. family' = family \/ family' = [cur |-> t, prev |-> None, till |-> 0]  BY <1>4 DEF Mint
  <2>6. TokenOK(y)
    <3> HIDE DEF sub, id
    <3> QED  BY <2>1, <2>2, <2>3 DEF TokenOK, Tokens
  <2>7. WorldInv'
    <3> HIDE DEF y
    <3>1. family' = family \/ family' \in [cur : {t}, prev : Jtis \cup {None}, till : Nat]  BY <2>5
    <3> QED  BY <1>2, <2>4, <2>6, <3>1
  <2>8. QueriesInv'  BY <1>1, <2>4, QueryFacts DEF QueriesInv, Watched, Queries
  <2> QED  BY <2>7, <2>8 DEF DisclosureInv
<1> QED  BY <1>1, <1>3, <1>4

\* The steps of a request.

LEMMA QueryMoves ==
    ASSUME DeskOK, DisclosureInv, NEW p \in Procs, pc[p] \in DisclosureAt \ {"idle"},
           NEW l, NEW v \in Queries, Goto(p, l), Set(p, v) \/ (UNCHANGED loc /\ v = loc[p]),
           UNCHANGED <<clock, World, seen>>,
           v.tok = loc[p].tok, v.by = loc[p].by, v.secret = loc[p].secret,
           QueryOK(l, v, seen[p], token[v.tok])
    PROVE  DisclosureInv'
<1>1. pc'[p] = l /\ loc'[p] = v /\ \A q \in Procs : q # p => pc'[q] = pc[q] /\ loc'[q] = loc[q]
  BY DEF Goto, Set, DeskOK
<1>2. UNCHANGED <<person, rp, may, token, denied, family, secrets>>  BY DEF World
<1>3. WorldInv'  BY <1>2 DEF DisclosureInv, WorldInv, TokenOK
<1>4. Watched(loc[p], seen[p])'
  <2>1. clock \in Nat /\ clock' \in Nat /\ clock' >= clock  BY DEF DeskOK
  <2>2. IsActiveToken(loc[p].tok)' => IsActiveToken(loc[p].tok)  BY <1>1, <1>2 DEF IsActiveToken
  <2> QED  BY <1>1, <1>2, <2>1, <2>2, QueryFacts, StillWatched
<1>5. QueryOK(pc[p], loc[p], seen[p], token[loc[p].tok])'  BY <1>1, <1>2 DEF QueryOK
<1>6. ASSUME NEW q \in Procs, q # p, pc[q] \in DisclosureAt \ {"idle"}
      PROVE  (Watched(loc[q], seen[q]) /\ QueryOK(pc[q], loc[q], seen[q], token[loc[q].tok]))'
  BY <1>1, <1>2, <1>6, OthersStill
<1> QED  BY <1>1, <1>3, <1>4, <1>5, <1>6 DEF DisclosureInv, QueriesInv

LEMMA QueryQuits ==
    ASSUME DeskOK, DisclosureInv, NEW p \in Procs, Quit(p),
           UNCHANGED <<clock, person, rp, may, token, denied, family, secrets>>
    PROVE  DisclosureInv'
<1>0. DOMAIN seen = Procs  BY DEF DisclosureInv, WorldInv
<1>1. /\ pc'[p] = "idle" /\ DOMAIN seen' = Procs
      /\ \A q \in Procs : q # p => pc'[q] = pc[q] /\ loc'[q] = loc[q] /\ seen'[q] = seen[q]
  BY <1>0 DEF Quit, Done, Goto, Set, DeskOK
<1>2. WorldInv'  BY <1>1 DEF DisclosureInv, WorldInv, TokenOK
<1>3. ASSUME NEW q \in Procs, q # p, pc[q] \in DisclosureAt \ {"idle"}
      PROVE  (Watched(loc[q], seen[q]) /\ QueryOK(pc[q], loc[q], seen[q], token[loc[q].tok]))'
  BY <1>1, <1>3, OthersStill
<1> QED  BY <1>1, <1>2, <1>3 DEF DisclosureInv, QueriesInv

Query(t, c, s, acct, source) ==
    [tok |-> t, by |-> c, secret |-> s, acct |-> acct, row |-> None, source |-> source,
     aliases |-> {}, sub |-> None, email |-> None]
Sight(t, c, s) == [lost |-> Lacking(t, c, s), held |-> Held(t), srcs |-> {rp[token[t].client].source}]

LEMMA QueryBegins ==
    ASSUME DeskOK, DisclosureInv, NEW p \in Procs, UNCHANGED <<clock, World>>,
           NEW t \in Jtis, NEW c \in Rps, NEW s \in Nat, NEW acct \in Holders \cup {None}, NEW source \in Srcs \cup {None},
           token[t] # None, Begin(p, t, c, s, acct, source),
           NEW l, Goto(p, l), QueryOK(l, Query(t, c, s, acct, source), Sight(t, c, s), token[t])
    PROVE  DisclosureInv'
<1> DEFINE v == Query(t, c, s, acct, source)
<1>0. DOMAIN seen = Procs  BY DEF DisclosureInv, WorldInv
<1>1. /\ pc'[p] = l /\ loc'[p] = v /\ seen'[p] = Sight(t, c, s) /\ DOMAIN seen' = Procs
      /\ \A q \in Procs : q # p => pc'[q] = pc[q] /\ loc'[q] = loc[q] /\ seen'[q] = seen[q]
  BY <1>0 DEF Begin, Goto, Set, DeskOK, Query, Sight
<1>2. UNCHANGED <<person, rp, may, token, denied, family, secrets>>  BY DEF World
<1>3. WorldInv'  BY <1>1, <1>2 DEF DisclosureInv, WorldInv, TokenOK
<1>4. v \in Queries /\ v.tok = t /\ v.by = c /\ v.secret = s  BY DEF Query, Queries, Subs
<1>5. Lacking(t, c, s)' = Lacking(t, c, s) /\ Held(t)' = Held(t)  BY <1>2 DEF Lacking, Held, IsActiveToken
<1>6. Watched(loc[p], seen[p])'
  <2>1. loc'[p].tok = t /\ loc'[p].by = c /\ loc'[p].secret = s /\ loc'[p] \in Queries  BY <1>1, <1>4
  <2>2. seen'[p].lost = Lacking(t, c, s) /\ seen'[p].held = Held(t) /\ seen'[p].srcs = {rp[token[t].client].source}
    BY <1>1 DEF Sight
  <2>3. Lacking(loc[p].tok, loc[p].by, loc[p].secret)' = Lacking(t, c, s)
    BY <1>2, <2>1 DEF Lacking, IsActiveToken
  <2>4. Held(loc[p].tok)' = Held(t)  BY <1>2, <2>1 DEF Held
  <2> QED  BY <1>2, <2>1, <2>2, <2>3, <2>4 DEF Watched
<1>7. QueryOK(pc[p], loc[p], seen[p], token[loc[p].tok])'
  <2> HIDE DEF v
  <2> QED  BY <1>1, <1>2, <1>4 DEF QueryOK, v
<1>8. ASSUME NEW q \in Procs, q # p, pc[q] \in DisclosureAt \ {"idle"}
      PROVE  (Watched(loc[q], seen[q]) /\ QueryOK(pc[q], loc[q], seen[q], token[loc[q].tok]))'
  BY <1>1, <1>2, <1>8, OthersStill
<1> QED  BY <1>1, <1>3, <1>6, <1>7, <1>8 DEF DisclosureInv, QueriesInv

\* Requests start.
LEMMA AskSteps ==
    ASSUME DeskOK, DisclosureInv, NEW p \in Procs, NEW t \in Jtis,
           HandleUserinfo(p, t) \/ HandleIntrospect(p, t) \/ HandleLogout(p, t)
    PROVE  DisclosureInv' /\ told' = None
<1> DEFINE x == token[t]
<1>0. WorldInv /\ TokenOK(x) /\ x # None
  BY DEF DisclosureInv, WorldInv, HandleUserinfo, HandleIntrospect, HandleLogout
<1>1. x.client \in Rps /\ x.owner \in Holders /\ x.exp \in Nat  BY <1>0 DEF TokenOK, Tokens
<1>2. rp \in [Rps -> RpRows] /\ secrets \in Nat  BY <1>0 DEF WorldInv
<1>3. UNCHANGED <<clock, World>> /\ told' = None  BY DEF HandleUserinfo, HandleIntrospect, HandleLogout
<1>4. \A c \in Rps, s \in Nat, a \in Holders \cup {None}, src \in Srcs \cup {None} : Query(t, c, s, a, src) \in Queries
  BY DEF Query, Queries, Subs
<1>5. CASE HandleUserinfo(p, t)
  <2>1. "token" \notin Lacking(t, x.client, 0)  BY <1>1, <1>5 DEF DeskOK, HandleUserinfo, ValidateAccessToken, Lacking
  <2>2. Query(t, x.client, 0, None, None) \in Queries  BY <1>1, <1>4
  <2>3. QueryOK("userinfoAccount", Query(t, x.client, 0, None, None), Sight(t, x.client, 0), x)
    BY <2>1, <2>2 DEF QueryOK, Query, Sight, UserinfoAt, IntrospectAt
  <2>4. Begin(p, t, x.client, 0, None, None) /\ Goto(p, "userinfoAccount")  BY <1>5 DEF HandleUserinfo
  <2> QED  BY <1>0, <1>1, <1>3, <2>3, <2>4, QueryBegins
<1>6. CASE HandleIntrospect(p, t)
  <2>1. PICK z \in Credentials :
           LET c == IF z.bid # None THEN z.bid ELSE z.fid
           IN  AuthenticateClient(z) /\ ~Public(c) /\ Begin(p, t, c, IF z.bid # None THEN z.bsec ELSE z.fsec, None, rp[c].source)
    BY <1>6 DEF HandleIntrospect
  <2> DEFINE c == IF z.bid # None THEN z.bid ELSE z.fid
             s == IF z.bid # None THEN z.bsec ELSE z.fsec
  <2>2. c \in Rps /\ s \in Nat /\ ~rp[c].disabled /\ s = rp[c].secret
    <3>1. z.bid \in Rps \cup {None} /\ z.fid \in Rps \cup {None} /\ z.bsec \in Nat /\ z.fsec \in Nat
      BY <1>2, <2>1 DEF Credentials
    <3>2. c # None /\ ~rp[c].disabled /\ s = rp[c].secret  BY <2>1 DEF AuthenticateClient
    <3> QED  BY <3>1, <3>2
  <2>3. Begin(p, t, c, s, None, rp[c].source) /\ Goto(p, "introspectToken")  BY <1>6, <2>1 DEF HandleIntrospect
  <2> HIDE DEF c, s
  <2>4. "client" \notin Lacking(t, c, s) /\ "secret" \notin Lacking(t, c, s)  BY <2>2 DEF Lacking
  <2>5. rp[c].source \in Srcs /\ (c = x.client => rp[c].source \in {rp[x.client].source})  BY <1>2, <2>2 DEF RpRows
  <2>6. Query(t, c, s, None, rp[c].source) \in Queries  BY <1>4, <2>2, <2>5
  <2>7. QueryOK("introspectToken", Query(t, c, s, None, rp[c].source), Sight(t, c, s), x)
    BY <2>4, <2>5, <2>6 DEF QueryOK, Query, Sight, UserinfoAt, IntrospectAt
  <2> QED  BY <1>0, <1>3, <2>2, <2>3, <2>5, <2>7, QueryBegins
<1>7. CASE HandleLogout(p, t)
  <2>1. Begin(p, t, x.client, 0, x.owner, None) /\ Goto(p, "logoutRevoke")  BY <1>0, <1>7, OneAccount DEF HandleLogout
  <2>2. Query(t, x.client, 0, x.owner, None) \in Queries  BY <1>1, <1>4
  <2>3. QueryOK("logoutRevoke", Query(t, x.client, 0, x.owner, None), Sight(t, x.client, 0), x)
    BY <2>2 DEF QueryOK, Query, UserinfoAt, IntrospectAt
  <2> QED  BY <1>0, <1>1, <1>3, <2>1, <2>3, QueryBegins
<1> QED  BY <1>3, <1>5, <1>6, <1>7

\* Userinfo reads the account, the client, the access decision, the principal and the address.
LEMMA UserinfoSteps ==
    ASSUME DeskOK, DisclosureInv, NEW p \in Procs,
           UserinfoAccount(p) \/ UserinfoClient(p) \/ UserinfoAccess(p) \/ UserinfoPrincipal(p) \/ UserinfoEmail(p)
    PROVE  DisclosureInv' /\ told' = None
<1> DEFINE x == token[loc[p].tok]
           s == seen[p]
<1>1. UNCHANGED <<clock, World>> /\ told' = None
  BY DEF UserinfoAccount, UserinfoClient, UserinfoAccess, UserinfoPrincipal, UserinfoEmail
<1>2. pc[p] \in UserinfoAt \cap DisclosureAt /\ pc[p] # "idle"
  BY DEF UserinfoAccount, UserinfoClient, UserinfoAccess, UserinfoPrincipal, UserinfoEmail, UserinfoAt, DisclosureAt
<1>3. /\ WorldInv /\ Watched(loc[p], s) /\ QueryOK(pc[p], loc[p], s, x) /\ loc[p] \in Queries /\ TokenOK(x)
  BY <1>2, QueryFacts
<1>4. x.client \in Rps /\ x.owner \in Holders /\ AccountFromTokenClaims(x) = {x.owner} /\ loc[p].by = x.client
  BY <1>2, <1>3, OneAccount DEF TokenOK, Tokens, QueryOK
<1>5. CASE Quit(p)  BY <1>1, <1>5, QueryQuits DEF World
<1>6. CASE UserinfoAccount(p) /\ ~Quit(p)
  <2> DEFINE v == [loc[p] EXCEPT !.acct = x.owner, !.row = person[x.owner]]
  <2>1. /\ pc[p] = "userinfoAccount" /\ ~person[x.owner].disabled
        /\ Goto(p, "userinfoClient") /\ Set(p, v) /\ UNCHANGED seen
    BY <1>4, <1>6 DEF UserinfoAccount
  <2>2. person[x.owner] \in Rows /\ person[x.owner].name \in s.held /\ "account" \notin s.lost
    BY <1>3, <1>4, <2>1 DEF WorldInv, Watched, Held, Lacking
  <2>3. v \in Queries /\ v.tok = loc[p].tok /\ v.by = loc[p].by /\ v.secret = loc[p].secret
        /\ v.acct = x.owner /\ v.row = person[x.owner]
    BY <1>3, <1>4, <2>2 DEF Queries
  <2> HIDE DEF v
  <2>4. QueryOK("userinfoClient", v, s, x)  BY <1>3, <2>1, <2>2, <2>3 DEF QueryOK, UserinfoAt, IntrospectAt
  <2> QED  BY <1>1, <1>2, <2>1, <2>3, <2>4, QueryMoves
<1>7. CASE UserinfoClient(p)
  <2> DEFINE c == rp[x.client]
             v == [loc[p] EXCEPT !.source = c.source, !.aliases = c.aliases]
  <2>1. pc[p] = "userinfoClient" /\ Goto(p, "userinfoAccess") /\ Set(p, v) /\ UNCHANGED seen  BY <1>7 DEF UserinfoClient
  <2>2. c \in RpRows /\ c.source \in s.srcs  BY <1>3, <1>4 DEF WorldInv, Watched
  <2>3. v \in Queries /\ v.tok = loc[p].tok /\ v.by = loc[p].by /\ v.secret = loc[p].secret
        /\ v.acct = loc[p].acct /\ v.row = loc[p].row /\ v.source = c.source /\ v.source \in Srcs
    BY <1>3, <2>2 DEF Queries, RpRows
  <2> HIDE DEF v
  <2>4. QueryOK("userinfoAccess", v, s, x)  BY <1>3, <2>1, <2>2, <2>3 DEF QueryOK, UserinfoAt, IntrospectAt
  <2> QED  BY <1>1, <1>2, <2>1, <2>3, <2>4, QueryMoves
<1>8. CASE UserinfoAccess(p) /\ ~Quit(p)
  <2>1. /\ pc[p] = "userinfoAccess" /\ <<loc[p].acct, x.client>> \in may /\ ~rp[x.client].disabled
        /\ Goto(p, "userinfoPrincipal") /\ UNCHANGED <<loc, seen>>
    BY <1>8 DEF UserinfoAccess
  <2>2. loc[p].acct = x.owner  BY <1>3, <2>1 DEF QueryOK, UserinfoAt
  <2>3. "access" \notin s.lost /\ "client" \notin s.lost  BY <1>3, <1>4, <2>1, <2>2 DEF Watched, Lacking
  <2>4. QueryOK("userinfoPrincipal", loc[p], s, x)  BY <1>3, <2>1, <2>3 DEF QueryOK, UserinfoAt, IntrospectAt
  <2> QED  BY <1>1, <1>2, <1>3, <2>1, <2>4, QueryMoves
<1>9. CASE UserinfoPrincipal(p) /\ ~Quit(p)
  <2> DEFINE sub == ResolvePrincipal(loc[p].acct, loc[p].row, loc[p].source)
             v == [loc[p] EXCEPT !.sub = sub]
  <2>1. /\ pc[p] = "userinfoPrincipal" /\ sub # None /\ ValidateClaimAliases(loc[p].aliases)
        /\ Goto(p, "userinfoEmail") /\ Set(p, v) /\ UNCHANGED seen
    BY <1>9 DEF UserinfoPrincipal
  <2>2. loc[p].acct = x.owner /\ loc[p].row \in Rows /\ loc[p].row.name \in s.held /\ loc[p].source \in Srcs
    BY <1>3, <2>1 DEF QueryOK, UserinfoAt
  <2>3. person[x.owner] \in Rows /\ person[x.owner].email \in s.held /\ Uuid(x.owner) \in s.held
    BY <1>3, <1>4 DEF WorldInv, Watched, Held
  <2>4. sub \in s.held /\ sub \in Principals(loc[p].source, x.owner) /\ sub \in Subs
    BY <1>4, <2>1, <2>2, <2>3 DEF ResolvePrincipal, Principals, Srcs, Rows, Subs, Uuids
  <2> HIDE DEF sub
  <2>5. v \in Queries /\ v.tok = loc[p].tok /\ v.by = loc[p].by /\ v.secret = loc[p].secret
        /\ v.acct = loc[p].acct /\ v.row = loc[p].row /\ v.source = loc[p].source /\ v.aliases = loc[p].aliases /\ v.sub = sub
    BY <1>3, <2>4 DEF Queries
  <2> HIDE DEF v
  <2>6. QueryOK("userinfoEmail", v, s, x)  BY <1>3, <2>1, <2>4, <2>5 DEF QueryOK, UserinfoAt, IntrospectAt
  <2> QED  BY <1>1, <1>2, <2>1, <2>5, <2>6, QueryMoves
<1>10. CASE UserinfoEmail(p)
  <2> DEFINE e == person[loc[p].acct].email
             v == [loc[p] EXCEPT !.email = e]
  <2>1. pc[p] = "userinfoEmail" /\ Goto(p, "userinfoAnswer") /\ Set(p, v) /\ UNCHANGED seen  BY <1>10 DEF UserinfoEmail
  <2>2. loc[p].acct = x.owner  BY <1>3, <2>1 DEF QueryOK, UserinfoAt
  <2>3. e \in Addresses \cup {None} /\ e \in s.held  BY <1>3, <1>4, <2>2 DEF WorldInv, Watched, Held, Rows
  <2> HIDE DEF e
  <2>4. v \in Queries /\ v.tok = loc[p].tok /\ v.by = loc[p].by /\ v.secret = loc[p].secret
        /\ v.acct = loc[p].acct /\ v.row = loc[p].row /\ v.source = loc[p].source /\ v.aliases = loc[p].aliases
        /\ v.sub = loc[p].sub /\ v.email = e
    BY <1>3, <2>3 DEF Queries
  <2> HIDE DEF v
  <2>5. QueryOK("userinfoAnswer", v, s, x)  BY <1>3, <2>1, <2>3, <2>4 DEF QueryOK, UserinfoAt, IntrospectAt
  <2> QED  BY <1>1, <1>2, <2>1, <2>4, <2>5, QueryMoves
<1> QED  BY <1>1, <1>5, <1>6, <1>7, <1>8, <1>9, <1>10

\* Introspection reads the token and the account.
LEMMA IntrospectSteps ==
    ASSUME DeskOK, DisclosureInv, NEW p \in Procs, IntrospectToken(p) \/ IntrospectAccount(p)
    PROVE  DisclosureInv' /\ told' = None
<1> DEFINE x == token[loc[p].tok]
           s == seen[p]
<1>1. UNCHANGED <<clock, World>> /\ told' = None  BY DEF IntrospectToken, IntrospectAccount
<1>2. pc[p] \in IntrospectAt \cap DisclosureAt /\ pc[p] # "idle"
  BY DEF IntrospectToken, IntrospectAccount, IntrospectAt, DisclosureAt
<1>3. /\ WorldInv /\ Watched(loc[p], s) /\ QueryOK(pc[p], loc[p], s, x) /\ loc[p] \in Queries /\ TokenOK(x)
  BY <1>2, QueryFacts
<1>4. x.client \in Rps /\ x.owner \in Holders /\ AccountFromTokenClaims(x) = {x.owner} /\ x.exp \in Nat
  BY <1>2, <1>3, OneAccount DEF TokenOK, Tokens
<1>5. CASE Quit(p)  BY <1>1, <1>5, QueryQuits DEF World
<1>6. CASE IntrospectToken(p) /\ ~Quit(p)
  <2>1. /\ pc[p] = "introspectToken" /\ x.client = loc[p].by
        /\ ValidateAccessToken(loc[p].tok) \/ (x.kind = "refreshToken" /\ IsActiveToken(loc[p].tok))
        /\ Goto(p, "introspectAccount") /\ UNCHANGED <<loc, seen>>
    BY <1>6 DEF IntrospectToken, OwnToken
  <2>2. "token" \notin s.lost
    <3>1. CASE ValidateAccessToken(loc[p].tok)  BY <1>3, <1>4, <3>1 DEF ValidateAccessToken, Watched, Lacking, DeskOK
    <3>2. CASE x.kind = "refreshToken" /\ IsActiveToken(loc[p].tok)  BY <1>3, <3>2 DEF Watched, Lacking
    <3> QED  BY <2>1, <3>1, <3>2
  <2>3. QueryOK("introspectAccount", loc[p], s, x)  BY <1>3, <2>1, <2>2 DEF QueryOK, UserinfoAt, IntrospectAt
  <2> QED  BY <1>1, <1>2, <1>3, <2>1, <2>3, QueryMoves
<1>7. CASE IntrospectAccount(p) /\ ~Quit(p)
  <2> DEFINE v == [loc[p] EXCEPT !.acct = x.owner, !.row = person[x.owner]]
  <2>1. /\ pc[p] = "introspectAccount" /\ ~person[x.owner].disabled
        /\ Goto(p, "introspectAnswer") /\ Set(p, v) /\ UNCHANGED seen
    BY <1>4, <1>7 DEF IntrospectAccount
  <2>2. person[x.owner] \in Rows /\ person[x.owner].name \in s.held /\ "account" \notin s.lost
    BY <1>3, <1>4, <2>1 DEF WorldInv, Watched, Held, Lacking
  <2>3. v \in Queries /\ v.tok = loc[p].tok /\ v.by = loc[p].by /\ v.secret = loc[p].secret /\ v.source = loc[p].source
        /\ v.acct = x.owner /\ v.row = person[x.owner]
    BY <1>3, <1>4, <2>2 DEF Queries
  <2> HIDE DEF v
  <2>4. QueryOK("introspectAnswer", v, s, x)  BY <1>3, <2>1, <2>2, <2>3 DEF QueryOK, UserinfoAt, IntrospectAt
  <2> QED  BY <1>1, <1>2, <2>1, <2>3, <2>4, QueryMoves
<1> QED  BY <1>1, <1>5, <1>6, <1>7

\* What an answer holds: the subject, names and addresses of the granted scopes, and the
\* identities; an alias writes over none but names and addresses.
LEMMA ClaimsProjected ==
    ASSUME NEW subject, NEW row, NEW email, NEW scope, NEW ids, DOMAIN ids \subseteq {"identities"},
           NEW aliases, ValidateClaimAliases(aliases)
    PROVE  LET C == ProjectedUserinfoClaims(subject, row, email, scope, ids, aliases)
           IN  /\ "sub" \in DOMAIN C /\ C["sub"] = subject
               /\ "identities" \in DOMAIN C => "identities" \in DOMAIN ids /\ C["identities"] = ids["identities"]
               /\ \A k \in DOMAIN C \ {"sub", "identities"} :
                     \/ C[k] = row.name /\ "profile" \in scope
                     \/ C[k] = email /\ email # None /\ "email" \in scope
<1> DEFINE granted == ScopedClaims(scope, row, email)
           claims == [k \in {"sub"} \cup DOMAIN granted \cup DOMAIN ids |->
                         CASE k = "sub" -> subject [] k \in DOMAIN granted -> granted[k] [] OTHER -> ids[k]]
           fit == {x \in aliases : x[2] \in DOMAIN granted}
           C == ApplyClaimAliases(claims, granted, aliases)
           Fits(y) == \/ y = row.name /\ "profile" \in scope
                      \/ y = email /\ email # None /\ "email" \in scope
<1>1. DOMAIN granted \subseteq {"preferred_username", "email"} /\ \A k \in DOMAIN granted : Fits(granted[k])
  BY DEF ScopedClaims, ProfileClaims, EmailClaims
<1>2. /\ DOMAIN claims = {"sub"} \cup DOMAIN granted \cup DOMAIN ids
      /\ claims["sub"] = subject
      /\ \A k \in DOMAIN granted : claims[k] = granted[k]
      /\ "identities" \in DOMAIN ids => claims["identities"] = ids["identities"]
  BY <1>1
<1> HIDE DEF granted, claims, Fits
<1>3. \A x \in fit : x[1] \notin {"sub", "identities"}  BY DEF ValidateClaimAliases, ReservedClaims
<1>4. DOMAIN C = DOMAIN claims \cup {x[1] : x \in fit}  BY DEF ApplyClaimAliases
<1>5. \A k \in DOMAIN C : C[k] = IF \E x \in fit : x[1] = k THEN granted[(CHOOSE x \in fit : x[1] = k)[2]] ELSE claims[k]
  BY DEF ApplyClaimAliases
<1> HIDE DEF C
<1>6. "sub" \in DOMAIN C /\ C["sub"] = subject  BY <1>2, <1>3, <1>4, <1>5
<1>7. "identities" \in DOMAIN C => "identities" \in DOMAIN ids /\ C["identities"] = ids["identities"]
  BY <1>1, <1>2, <1>3, <1>4, <1>5
<1>8. ASSUME NEW k \in DOMAIN C \ {"sub", "identities"}
      PROVE  Fits(C[k])
  <2>1. CASE \E x \in fit : x[1] = k
    <3> DEFINE x == CHOOSE y \in fit : y[1] = k
    <3>1. x \in fit  BY <2>1
    <3>2. C[k] = granted[x[2]]  BY <1>5, <2>1
    <3> QED  BY <1>1, <3>1, <3>2
  <2>2. CASE ~\E x \in fit : x[1] = k  BY <1>1, <1>2, <1>4, <1>5, <2>2
  <2> QED  BY <2>1, <2>2
<1> QED  BY <1>6, <1>7, <1>8 DEF ProjectedUserinfoClaims, C, claims, granted, Fits

\* The answers.
LEMMA AnswerSteps ==
    ASSUME DeskOK, DisclosureInv, NEW p \in Procs, UserinfoAnswer(p) \/ IntrospectAnswer(p) \/ LogoutRevoke(p)
    PROVE  DisclosureInv' /\ ToldInGoodStanding' /\ ClaimsOfHolder'
<1> DEFINE x == token[loc[p].tok]
           s == seen[p]
           l == loc[p]
<1>1. Quit(p) /\ UNCHANGED <<clock, person, rp, may, token, denied, family, secrets>>
  BY DEF UserinfoAnswer, IntrospectAnswer, LogoutRevoke, World
<1>2. DisclosureInv'  BY <1>1, QueryQuits
<1>3. pc[p] \in {"userinfoAnswer", "introspectAnswer", "logoutRevoke"}  BY DEF UserinfoAnswer, IntrospectAnswer, LogoutRevoke
<1>4. WorldInv /\ Watched(l, s) /\ QueryOK(pc[p], l, s, x) /\ l \in Queries /\ TokenOK(x)
  BY <1>3, QueryFacts DEF DisclosureAt
<1>5. x.owner \in Holders /\ person[x.owner] \in Rows /\ l.acct = x.owner
  BY <1>3, <1>4 DEF WorldInv, TokenOK, Tokens, QueryOK, UserinfoAt, IntrospectAt
<1>6. CASE told' = None  BY <1>2, <1>6 DEF ToldInGoodStanding, ClaimsOfHolder
<1>7. ASSUME NEW e, NEW C, Tell(p, e, C)
      PROVE  /\ told'.endpoint = e /\ told'.owner = x.owner /\ told'.client = x.client /\ told'.scope = x.scope
             /\ told'.by = l.by /\ told'.lost = s.lost /\ told'.held = s.held /\ told'.srcs = s.srcs
             /\ told'.acct = l.acct /\ told'.claims = C
  BY <1>7 DEF Tell
<1>8. CASE UserinfoAnswer(p)
  <2> DEFINE ids == IdentitiesForScopes(l.acct, x.scope)
             C == ProjectedUserinfoClaims(l.sub, l.row, l.email, x.scope, ids, l.aliases)
  <2>1. pc[p] = "userinfoAnswer" /\ Tell(p, "userinfo", C)  BY <1>8 DEF UserinfoAnswer
  <2>2. /\ s.lost \cap {"token", "account", "access", "client"} = {}
        /\ l.row \in Rows /\ l.row.name \in s.held /\ l.source \in Srcs /\ l.source \in s.srcs
        /\ l.sub \in s.held /\ l.sub \in Principals(l.source, x.owner) /\ ValidateClaimAliases(l.aliases) /\ l.email \in s.held
    BY <1>4, <2>1 DEF QueryOK, UserinfoAt
  <2>3. l.row.name \in Usernames /\ l.email \in Addresses \cup {None}  BY <1>4, <2>2 DEF Rows, Queries
  <2>4. /\ DOMAIN ids \subseteq {"identities"}
        /\ "identities" \in DOMAIN ids =>
              "identity" \in x.scope /\ ids["identities"] = IF person[x.owner].linked THEN {x.owner} ELSE {}
    BY <1>5 DEF IdentitiesForScopes
  <2>5. "link" \in s.lost => ~person[x.owner].linked  BY <1>4 DEF Watched, Lacking
  <2>6. /\ "sub" \in DOMAIN C /\ C["sub"] = l.sub
        /\ "identities" \in DOMAIN C => "identities" \in DOMAIN ids /\ C["identities"] = ids["identities"]
        /\ \A k \in DOMAIN C \ {"sub", "identities"} :
              \/ C[k] = l.row.name /\ "profile" \in x.scope
              \/ C[k] = l.email /\ l.email # None /\ "email" \in x.scope
    BY <2>2, <2>4, ClaimsProjected
  <2> HIDE DEF ids, C
  <2>7. told'.endpoint = "userinfo" /\ told'.owner = x.owner /\ told'.scope = x.scope
        /\ told'.lost = s.lost /\ told'.held = s.held /\ told'.srcs = s.srcs /\ told'.acct = x.owner /\ told'.claims = C
    BY <1>5, <1>7, <2>1
  <2>8. "identities" \in DOMAIN C => /\ "identity" \in x.scope /\ C["identities"] \subseteq {x.owner}
                                     /\ C["identities"] # {} => "link" \notin s.lost
    BY <2>4, <2>5, <2>6
  <2>9. ToldInGoodStanding'
    <3>1. Needs("userinfo") = {"token", "account", "access", "client"}  BY DEF Needs
    <3>2. told'.lost \cap Needs(told.endpoint)' = {}  BY <2>2, <2>7, <3>1 DEF Needs
    <3> QED  BY <2>7, <2>8, <3>2 DEF ToldInGoodStanding
  <2>10. ASSUME NEW k \in DOMAIN C \ {"identities"}
         PROVE  /\ C[k] \in s.held
                /\ k # "sub" => \/ C[k] \in Usernames /\ "profile" \in x.scope
                                \/ C[k] \in Addresses /\ "email" \in x.scope
    BY <2>2, <2>3, <2>6
  <2>11. \E y \in s.srcs : C["sub"] \in
            CASE y = "sub" -> {Uuid(x.owner)} [] y = "username" -> Usernames [] y = "verified_email" -> Addresses
    BY <2>2, <2>6 DEF Principals
  <2>12. ClaimsOfHolder'  BY <2>7, <2>8, <2>10, <2>11 DEF ClaimsOfHolder, Uuid
  <2> QED  BY <1>2, <2>9, <2>12
<1>9. CASE IntrospectAnswer(p) /\ told' # None
  <2> DEFINE sub == ResolvePrincipal(l.acct, l.row, l.source)
             C == [k \in {"sub"} |-> sub]
  <2>1. pc[p] = "introspectAnswer" /\ sub # None /\ Tell(p, "introspect", C)  BY <1>9 DEF IntrospectAnswer
  <2>2. /\ s.lost \cap {"token", "account", "secret", "client"} = {} /\ l.by = x.client
        /\ l.row \in Rows /\ l.row.name \in s.held /\ l.source \in Srcs /\ l.source \in s.srcs
    BY <1>4, <2>1 DEF QueryOK, IntrospectAt
  <2>3. Uuid(x.owner) \in s.held /\ person[x.owner].email \in s.held  BY <1>4 DEF Watched, Held
  <2>4. sub \in s.held /\ sub \in Principals(l.source, x.owner)
    BY <1>5, <2>1, <2>2, <2>3 DEF ResolvePrincipal, Principals, Srcs, Rows
  <2>5. DOMAIN C = {"sub"} /\ C["sub"] = sub  OBVIOUS
  <2> HIDE DEF sub, C
  <2>6. told'.endpoint = "introspect" /\ told'.owner = x.owner /\ told'.by = l.by /\ told'.client = x.client
        /\ told'.lost = s.lost /\ told'.held = s.held /\ told'.srcs = s.srcs /\ told'.acct = x.owner /\ told'.claims = C
    BY <1>5, <1>7, <2>1
  <2>7. ToldInGoodStanding'
    <3>1. told'.lost \cap Needs(told.endpoint)' = {}  BY <2>2, <2>6 DEF Needs
    <3> QED  BY <2>2, <2>5, <2>6, <3>1 DEF ToldInGoodStanding
  <2>8. \E y \in s.srcs : C["sub"] \in
            CASE y = "sub" -> {Uuid(x.owner)} [] y = "username" -> Usernames [] y = "verified_email" -> Addresses
    BY <2>2, <2>4, <2>5 DEF Principals
  <2>9. "identities" \notin DOMAIN C /\ \A k \in DOMAIN C \ {"identities"} : k = "sub" /\ C[k] \in s.held  BY <2>4, <2>5
  <2>10. ClaimsOfHolder'  BY <2>6, <2>8, <2>9 DEF ClaimsOfHolder, Uuid
  <2> QED  BY <1>2, <2>7, <2>10
<1>10. CASE LogoutRevoke(p)
  <2>1. Tell(p, "logout", <<>>)  BY <1>10 DEF LogoutRevoke
  <2>2. told'.endpoint = "logout" /\ told'.owner = x.owner /\ told'.acct = x.owner /\ told'.claims = <<>>
    BY <1>5, <1>7, <2>1
  <2>3. DOMAIN told'.claims = {}  BY <2>2
  <2>4. ToldInGoodStanding'  BY <2>2, <2>3 DEF ToldInGoodStanding, Needs
  <2>5. ClaimsOfHolder'  BY <2>2, <2>3 DEF ClaimsOfHolder
  <2> QED  BY <1>2, <2>4, <2>5
<1> QED  BY <1>6, <1>8, <1>9, <1>10

LEMMA DisclosureInvStep ==
    ASSUME DeskOK, DisclosureInv, ToldInGoodStanding, ClaimsOfHolder, [Next]_vars
    PROVE  DisclosureInv' /\ ToldInGoodStanding' /\ ClaimsOfHolder'
<1>1. CASE Apart(DisclosureAt) /\ UNCHANGED disclosureVars
  <2>1. UNCHANGED <<person, rp, may, token, denied, family, secrets, seen, told>>  BY <1>1 DEF disclosureVars
  <2>2. WorldInv'  BY <2>1 DEF DisclosureInv, WorldInv, TokenOK
  <2>3. ASSUME NEW p \in Procs, pc'[p] \in DisclosureAt \ {"idle"}
        PROVE  (Watched(loc[p], seen[p]) /\ QueryOK(pc[p], loc[p], seen[p], token[loc[p].tok]))'
    <3>1. pc'[p] = pc[p] /\ loc'[p] = loc[p] /\ pc[p] \in DisclosureAt \ {"idle"}  BY <1>1, <2>3 DEF Apart
    <3>2. clock \in Nat /\ clock' \in Nat /\ clock' >= clock  BY <1>1 DEF Apart, DeskOK
    <3>3. loc[p] \in Queries /\ family.till \in Nat  BY <3>1, QueryFacts DEF WorldInv
    <3>4. IsActiveToken(loc[p].tok)' => IsActiveToken(loc[p].tok)  BY <2>1, <3>1, <3>2, <3>3 DEF IsActiveToken
    <3>5. Watched(loc[p], seen[p])'  BY <2>1, <3>1, <3>2, <3>3, <3>4, QueryFacts, StillWatched
    <3>6. QueryOK(pc[p], loc[p], seen[p], token[loc[p].tok])'  BY <2>1, <3>1, QueryFacts DEF QueryOK
    <3> QED  BY <3>5, <3>6
  <2>4. QueriesInv'  BY <2>3 DEF QueriesInv
  <2>5. ToldInGoodStanding' /\ ClaimsOfHolder'  BY <2>1 DEF ToldInGoodStanding, ClaimsOfHolder, Needs
  <2> QED  BY <2>2, <2>4, <2>5 DEF DisclosureInv
<1>2. ASSUME DisclosureInv', told' = None
      PROVE  DisclosureInv' /\ ToldInGoodStanding' /\ ClaimsOfHolder'
  BY <1>2 DEF ToldInGoodStanding, ClaimsOfHolder
<1>3. CASE DisclosureNext \/ DisclosureTick
  BY <1>2, <1>3, WorldSteps, MintSteps, AskSteps, UserinfoSteps, IntrospectSteps, AnswerSteps DEF DisclosureNext
<1> QED  BY <1>1, <1>3, DisclosureStep

LEMMA DisclosureInvInit == Init => DisclosureInv /\ ToldInGoodStanding /\ ClaimsOfHolder
<1> SUFFICES ASSUME Init PROVE DisclosureInv /\ ToldInGoodStanding /\ ClaimsOfHolder  OBVIOUS
<1>1. DisclosureInit /\ \A p \in Procs : pc[p] = "idle"  BY DEF Init
<1>2. person \in [Holders -> Rows]
  <2> DEFINE n == CHOOSE f \in [Holders -> Usernames] : IsInjective(f)
             e == CHOOSE f \in [Holders -> Addresses] : IsInjective(f)
  <2>1. n \in [Holders -> Usernames] /\ e \in [Holders -> Addresses]  BY DisclosureAssumption
  <2>2. person = [a \in Holders |-> [disabled |-> FALSE, name |-> n[a], email |-> e[a], linked |-> TRUE]]
    BY <1>1 DEF DisclosureInit
  <2> HIDE DEF n, e
  <2> QED  BY <2>1, <2>2 DEF Rows
<1>3. rp \in [Rps -> RpRows] /\ secrets \in Nat
  <2> DEFINE s == CHOOSE f \in [Rps -> 1..Cardinality(Rps)] : IsInjective(f)
             public == IF "public" \in ops THEN Rps ELSE {}
  <2>1. Cardinality(Rps) \in Nat /\ ExistsBijection(Rps, 1..Cardinality(Rps))
    BY DisclosureAssumption, FS_CardinalityType, Fun_ExistsBijSymmetric
  <2>2. s \in [Rps -> 1..Cardinality(Rps)]  BY <2>1 DEF ExistsBijection, Bijection, Injection
  <2>3. \A c \in Rps : s[c] \in Nat  BY <2>1, <2>2
  <2>4. PICK src \in Srcs :
           rp = [c \in Rps |-> [method |-> IF c \in public THEN "none" ELSE "client_secret",
                                secret |-> IF c \in public THEN 0 ELSE s[c],
                                source |-> src, aliases |-> {}, disabled |-> FALSE]]
    BY <1>1 DEF DisclosureInit, Srcs
  <2> HIDE DEF s, public
  <2>5. rp \in [Rps -> RpRows]  BY <2>3, <2>4 DEF RpRows
  <2> QED  BY <1>1, <2>1, <2>5 DEF DisclosureInit
<1>4. /\ token = [t \in Jtis |-> None] /\ family = [cur |-> None, prev |-> None, till |-> 0]
      /\ seen = [p \in Procs |-> Unseen] /\ told = None
  BY <1>1 DEF DisclosureInit
<1>5. WorldInv  BY <1>2, <1>3, <1>4 DEF WorldInv
<1> QED  BY <1>1, <1>4, <1>5 DEF DisclosureInv, QueriesInv, ToldInGoodStanding, ClaimsOfHolder

\* Nothing an answer of userinfo or introspection rests on was lost before its request
\* began and is still lost, whatever the accounts, clients, rules and tokens went through
\* meanwhile (HandleUserinfo, HandleIntrospect).
THEOREM AnswersInGoodStanding == Spec => []ToldInGoodStanding
<1>1. DeskOK /\ (DisclosureInv /\ ToldInGoodStanding /\ ClaimsOfHolder) /\ [Next]_vars
         => DeskOK' /\ (DisclosureInv /\ ToldInGoodStanding /\ ClaimsOfHolder)'
  BY DeskStep, DisclosureInvStep
<1> QED  BY <1>1, DeskInit, DisclosureInvInit, PTL DEF Spec

\* Subject and claims are those of the token's holder, of the granted scopes, whoever
\* holds the names and addresses by now (accountFromTokenClaims, projectedUserinfoClaims).
THEOREM AnswersOfHolder == Spec => []ClaimsOfHolder
<1>1. DeskOK /\ (DisclosureInv /\ ToldInGoodStanding /\ ClaimsOfHolder) /\ [Next]_vars
         => DeskOK' /\ (DisclosureInv /\ ToldInGoodStanding /\ ClaimsOfHolder)'
  BY DeskStep, DisclosureInvStep
<1> QED  BY <1>1, DeskInit, DisclosureInvInit, PTL DEF Spec
====================================================================
