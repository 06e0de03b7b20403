------------------------------ MODULE Settings ------------------------------
(***************************************************************************)
(* The instance settings: one row (name, icon, maintenance mode, sign-in   *)
(* page, keys of the wallpaper services) and the background images, which  *)
(* a resolver caches in memory without expiry; an admin's change is        *)
(* written, then the cache dropped.  Every request of a non-admin asks the *)
(* resolver whether maintenance mode is on.                                *)
(***************************************************************************)
EXTENDS Wallpapers

CONSTANTS
    Names,           \* values of the settings that are only shown
    KeyedSources,    \* wallpaper sources that need a key: "unsplash", "pixabay"
    MaxLoginImages,
    MaxImageId       \* bound of the explored instance: images ever uploaded

ASSUME SettingsAssumption == "none" \notin KeyedSources /\ MaxLoginImages \in Nat

VARIABLES
    inst,      \* the row
    gallery,   \* ids of the uploaded background images
    nextImage,
    rowLock,   \* the transaction that holds the row's lock
    cache      \* the resolver's copy of row and images, or None

settingsVars == <<inst, gallery, nextImage, rowLock, cache>>

\* No override: the state of a fresh instance, and what a read error is taken for.
NoOverride == [name |-> None, icon |-> None, maint |-> FALSE, source |-> "none", keys |-> {}]
NoSettings == [row |-> NoOverride, imgs |-> {}]

SettingsInit ==
    /\ inst = NoOverride /\ gallery = {} /\ nextImage = 1 /\ rowLock = None /\ cache = None

\* Local variables of a request; strict: maintenance was on, with no change under
\* way, when the request came in.
NoForm == [put |-> None, got |-> NoSettings, why |-> None, strict |-> FALSE]

For(why) == [NoForm EXCEPT !.why = why]
Putting(put) == [NoForm EXCEPT !.put = put, !.why = "look"]

-----------------------------------------------------------------------------
(* Reading: Resolver.load and PGStore.Get                                    *)

MaintenanceSteady == inst.maint /\ \A q \in Procs : pc[q] # "dropCache"

\* load: the cached copy, or a read of the database, for the request with that form.
LoadFor(p, form) ==
    /\ IF cache # None
       THEN Goto(p, "loaded") /\ Set(p, [form EXCEPT !.got = cache, !.strict = MaintenanceSteady])
       ELSE Goto(p, "getRow") /\ Set(p, [form EXCEPT !.strict = MaintenanceSteady])
    /\ UNCHANGED <<clock, ops, settingsVars, wallpaperVars>>

\* The first query: name, icon and maintenance mode.
GetRow(p) ==
    /\ pc[p] = "getRow"
    /\ Goto(p, "getLook")
    /\ Set(p, [loc[p] EXCEPT !.got.row = [NoOverride EXCEPT !.name = inst.name, !.icon = inst.icon,
                                                              !.maint = inst.maint]])
    /\ UNCHANGED <<clock, ops, settingsVars, wallpaperVars>>

\* GetLoginAppearance: sign-in page and keys.
GetLoginAppearance(p) ==
    /\ pc[p] = "getLook"
    /\ Goto(p, "getImages")
    /\ Set(p, [loc[p] EXCEPT !.got.row.source = inst.source, !.got.row.keys = inst.keys])
    /\ UNCHANGED <<clock, ops, settingsVars, wallpaperVars>>

ListLoginBackgroundImages(p) ==
    /\ pc[p] = "getImages"
    /\ Goto(p, "fill") /\ Set(p, [loc[p] EXCEPT !.got.imgs = gallery])
    /\ UNCHANGED <<clock, ops, settingsVars, wallpaperVars>>

\* One of the queries fails, or the visitor goes away meanwhile: no override.
GetFails(p) ==
    /\ pc[p] \in {"getRow", "getLook", "getImages"} /\ "faults" \in ops
    /\ Goto(p, "fill") /\ Set(p, [loc[p] EXCEPT !.got = NoSettings])
    /\ UNCHANGED <<clock, ops, settingsVars, wallpaperVars>>

\* Whatever was read becomes the cached copy.
Fill(p) ==
    /\ pc[p] = "fill"
    /\ cache' = loc[p].got
    /\ Goto(p, "loaded") /\ UNCHANGED loc
    /\ UNCHANGED <<clock, ops, inst, gallery, nextImage, rowLock, wallpaperVars>>

Invalidate(p) ==
    /\ pc[p] = "dropCache"
    /\ cache' = None
    /\ IF loc[p].why = "forget" THEN Goto(p, "forgetBatches") /\ UNCHANGED loc ELSE Done(p)
    /\ UNCHANGED <<clock, ops, inst, gallery, nextImage, rowLock, wallpaperVars>>

-----------------------------------------------------------------------------
(* Readers                                                                   *)

\* maintenanceGateMW and the forward-auth check: a request of a non-admin.
MaintenanceGate(p) == Idle(p, "gate") /\ LoadFor(p, For("gate"))

\* maintenanceLockout: a non-admin completes a sign-in.
MaintenanceLockout(p) == Idle(p, "signin") /\ LoadFor(p, For("signin"))

\* The boot payload, the icon, a background image, the wallpaper.
HandleGetPublicConfig(p) == Idle(p, "config") /\ LoadFor(p, For("config"))

\* Maintenance: denied, or let through (and the request is served).
Admit(p) ==
    /\ pc[p] = "loaded" /\ loc[p].why \in {"gate", "signin"}
    /\ IF loc[p].got.row.maint THEN Done(p) ELSE Goto(p, "admitted") /\ UNCHANGED loc
    /\ UNCHANGED <<clock, ops, settingsVars, wallpaperVars>>

\* The answer of the others, and the end of a request that was let through.
Answered(p) ==
    /\ (pc[p] = "loaded" /\ loc[p].why = "config") \/ pc[p] = "admitted"
    /\ Done(p) /\ UNCHANGED <<clock, ops, settingsVars, wallpaperVars>>

-----------------------------------------------------------------------------
(* Plain changes                                                             *)

\* One UPDATE of the row, which waits for its lock; then the cache is dropped.
Change(p, row) ==
    /\ rowLock = None /\ row # inst
    /\ inst' = row
    /\ Goto(p, "dropCache") /\ Set(p, NoForm)
    /\ UNCHANGED <<clock, ops, gallery, nextImage, rowLock, cache, wallpaperVars>>

HandlePutInstanceName(p, n) == Idle(p, "name") /\ Change(p, [inst EXCEPT !.name = n])
HandlePutInstanceIcon(p, i) == Idle(p, "icon") /\ Change(p, [inst EXCEPT !.icon = i])
HandleDeleteInstanceIcon(p) == Idle(p, "icon") /\ Change(p, [inst EXCEPT !.icon = None])
HandlePutMaintenance(p, on) == Idle(p, "maintenance") /\ Change(p, [inst EXCEPT !.maint = on])

-----------------------------------------------------------------------------
(* The sign-in page                                                          *)

\* handlePutLoginAppearance: source and new keys.  For a keyed source without a new
\* key the resolver is asked first whether there is one...
HandlePutLoginAppearance(p, src, new) ==
    /\ Idle(p, "look")
    /\ IF src \in KeyedSources \ new THEN LoadFor(p, Putting([source |-> src, keys |-> new]))
       ELSE /\ Goto(p, "lockLook") /\ Set(p, Putting([source |-> src, keys |-> new]))
            /\ UNCHANGED <<clock, ops, settingsVars, wallpaperVars>>

\* ... and a request without one refused.
KeyRequired(p) ==
    LET l == loc[p]
    IN  /\ pc[p] = "loaded" /\ l.why = "look"
        /\ IF l.put.source \in l.got.row.keys
           THEN Goto(p, "lockLook") /\ Set(p, Putting(l.put))
           ELSE Done(p)
        /\ UNCHANGED <<clock, ops, settingsVars, wallpaperVars>>

\* handleDeleteUnsplashKey, handleDeletePixabayKey.
HandleDeleteKey(p, src) ==
    /\ Idle(p, "clear") /\ src \in KeyedSources
    /\ Goto(p, "lockClear") /\ Set(p, Putting([source |-> src, keys |-> {}]))
    /\ UNCHANGED <<clock, ops, settingsVars, wallpaperVars>>

HandlePostLoginImage(p) ==
    /\ Idle(p, "image") /\ nextImage <= MaxImageId
    /\ Goto(p, "lockImage") /\ Set(p, NoForm)
    /\ UNCHANGED <<clock, ops, settingsVars, wallpaperVars>>

Locks == [lockLook |-> "checkLook", lockClear |-> "checkClear", lockImage |-> "checkImage"]

\* Mutated form of LockInstanceSettings: a plain SELECT.
LockNothing(p) ==
    /\ pc[p] \in DOMAIN Locks
    /\ Goto(p, Locks[pc[p]])
    /\ UNCHANGED <<clock, ops, loc, settingsVars, wallpaperVars>>

\* LockInstanceSettings: SELECT ... FOR UPDATE, at the start of the transaction.
LockInstanceSettings(p) ==
    /\ pc[p] \in DOMAIN Locks /\ rowLock = None
    /\ rowLock' = p
    /\ Goto(p, Locks[pc[p]])
    /\ UNCHANGED <<clock, ops, loc, inst, gallery, nextImage, cache, wallpaperVars>>

\* The transaction goes on, or is rolled back; the cache is dropped in either case.
Decide(p, ok, next) ==
    /\ IF ok THEN Goto(p, next) /\ UNCHANGED <<loc, rowLock>>
       ELSE Goto(p, "dropCache") /\ Set(p, NoForm) /\ rowLock' = None
    /\ UNCHANGED <<clock, ops, inst, gallery, nextImage, cache, wallpaperVars>>

\* SetAppearance: is there a key for a keyed source?
CheckLook(p) ==
    LET put == loc[p].put
    IN  /\ pc[p] = "checkLook"
        /\ Decide(p, put.source \in KeyedSources \ put.keys => put.source \in inst.keys, "writeLook")

\* clearWallpaperKey: is the key in use?
CheckClear(p) == pc[p] = "checkClear" /\ Decide(p, inst.source # loc[p].put.source, "writeClear")

\* AddImage: is there room for one more?
CheckImage(p) == pc[p] = "checkImage" /\ Decide(p, Cardinality(gallery) < MaxLoginImages, "writeImage")

\* The transaction commits.
Commit(p, row, imgs, next, why) ==
    /\ inst' = row /\ gallery' = imgs /\ nextImage' = next /\ rowLock' = None
    /\ Goto(p, "dropCache") /\ Set(p, For(why))
    /\ UNCHANGED <<clock, ops, cache, wallpaperVars>>

SetLoginAppearance(p) ==
    LET put == loc[p].put
    IN  /\ pc[p] = "writeLook"
        /\ Commit(p, [inst EXCEPT !.source = put.source, !.keys = @ \cup put.keys], gallery, nextImage, "forget")

ClearWallpaperKey(p) ==
    LET src == loc[p].put.source
    IN  /\ pc[p] = "writeClear"
        /\ Commit(p, [inst EXCEPT !.keys = @ \ {src}], gallery, nextImage,
                  IF src = "unsplash" THEN "forget" ELSE None)

InsertLoginBackgroundImage(p) ==
    /\ pc[p] = "writeImage"
    /\ Commit(p, inst, gallery \cup {nextImage}, nextImage + 1, None)

\* handleDeleteLoginImage: one statement.
HandleDeleteLoginImage(p, i) ==
    /\ Idle(p, "image") /\ i \in gallery
    /\ gallery' = gallery \ {i}
    /\ Goto(p, "dropCache") /\ Set(p, NoForm)
    /\ UNCHANGED <<clock, ops, inst, nextImage, rowLock, cache, wallpaperVars>>

\* The handlers' last step: Unsplash's batches are forgotten.
ForgetBatches(p) ==
    /\ pc[p] = "forgetBatches"
    /\ Forget /\ Done(p)
    /\ UNCHANGED <<clock, ops, settingsVars, flight, images, failedTill>>

SettingsNext ==
    \E p \in Procs :
        \/ MaintenanceGate(p) \/ MaintenanceLockout(p) \/ HandleGetPublicConfig(p)
        \/ GetRow(p) \/ GetLoginAppearance(p) \/ ListLoginBackgroundImages(p) \/ GetFails(p) \/ Fill(p)
        \/ Admit(p) \/ Answered(p) \/ Invalidate(p)
        \/ \E n \in Names : HandlePutInstanceName(p, n) \/ HandlePutInstanceIcon(p, n)
        \/ HandleDeleteInstanceIcon(p)
        \/ \E on \in BOOLEAN : HandlePutMaintenance(p, on)
        \/ \E src \in (KeyedSources \cap ops) \cup {"none"}, new \in SUBSET (KeyedSources \cap ops) :
              HandlePutLoginAppearance(p, src, new)
        \/ \E src \in KeyedSources \cap ops : HandleDeleteKey(p, src)
        \/ KeyRequired(p) \/ HandlePostLoginImage(p) \/ LockInstanceSettings(p)
        \/ CheckLook(p) \/ CheckClear(p) \/ CheckImage(p)
        \/ SetLoginAppearance(p) \/ ClearWallpaperKey(p) \/ InsertLoginBackgroundImage(p)
        \/ \E i \in gallery : HandleDeleteLoginImage(p, i)
        \/ ForgetBatches(p)

\* The sign-in page can be drawn as it was saved: the source in effect has its key,
\* although one admin may remove the key, or replace it, while another one saves the
\* page that needs it (branding/store_pg.go:118); no two uploads pass the limit of images
\* together; and the wallpapers it had stay.
LookComplete ==
    /\ inst.source \in KeyedSources => inst.source \in inst.keys
    /\ Cardinality(gallery) <= MaxLoginImages
    /\ WallpapersKept

\* Maintenance mode denies every non-admin: a request that came in while the mode was
\* on, with the change that turned it on answered, is not let through while it stays on.
MaintenanceHolds ==
    \A p \in Procs : pc[p] = "admitted" /\ loc[p].strict => ~inst.maint
=============================================================================
