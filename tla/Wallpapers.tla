---------------------------- MODULE Wallpapers ----------------------------
(***************************************************************************)
(* The wallpaper service: batches of pictures per source, key and keyword, *)
(* cached in memory, refreshed by one request at a time (singleflight) and *)
(* served on when a refresh fails; and the pictures of Pixabay's batches,  *)
(* downloaded and kept in an LRU cache.                                     *)
(***************************************************************************)
EXTENDS Desk

CONSTANTS
    Batches,      \* cache keys: source, access key, language and keyword
    MapOf,        \* the map a cache key is in: "bing", "unsplash" or "pixabay"
    Pictures,     \* picture ids of Pixabay
    FreshFor,     \* lifetime of a batch, per map
    RetryAfter,   \* a failure is remembered that long
    PruneAfter,   \* batches that are stale that long are dropped
    MaxImages     \* pictures the LRU cache has room for

ASSUME WallpapersAssumption ==
    /\ Batches \cap Pictures = {} /\ RetryAfter \in Nat
    /\ MapOf \in [Batches -> {"bing", "unsplash", "pixabay"}]
    /\ FreshFor \in [{"bing", "unsplash", "pixabay"} -> Nat]

VARIABLES
    batch,    \* cached batches: answer there (ok), its pictures, deadlines
    flight,   \* the request that refreshes a batch or downloads a picture, or None
    images,   \* the LRU cache, most recently used first
    failedTill,   \* imageFailures
    kept      \* history: batches answered once and neither forgotten nor pruned since

wallpaperVars == <<batch, flight, images, failedTill, kept>>

NoBatch == [ok |-> FALSE, pics |-> {}, fresh |-> 0, retry |-> 0]

WallpapersInit ==
    /\ batch = [k \in Batches |-> NoBatch]
    /\ flight = [x \in Batches \cup Pictures |-> None]
    /\ images = <<>> /\ failedTill = [i \in Pictures |-> 0] /\ kept = {}

\* Local variables: the batch or picture asked for, and the clock when it was.
Asked(k) == [key |-> k, now |-> clock]

\* The requests that wait for the flight of p, and p itself, are answered.
Land(p, l) ==
    LET Q == {q \in Procs : q = p \/ (pc[q] = l /\ loc[q].key = loc[p].key)}
    IN  /\ pc' = [q \in Procs |-> IF q \in Q THEN "idle" ELSE pc[q]]
        /\ loc' = [q \in Procs |-> IF q \in Q THEN None ELSE loc[q]]
        /\ flight' = [flight EXCEPT ![loc[p].key] = None]

-----------------------------------------------------------------------------
(* Batches                                                                   *)

\* cached: a fresh batch, or a recent failure's stale batch or error, is the answer;
\* otherwise a refresh is due.
Cached(p, k) ==
    /\ Idle(p, "wallpaper") /\ k \in ops
    /\ LET e == batch[k]
       IN  ~(e.ok /\ clock < e.fresh) /\ ~(clock < e.retry)
    /\ Goto(p, "fly") /\ Set(p, Asked(k))
    /\ UNCHANGED <<clock, ops, wallpaperVars>>

\* singleflight: the first request fetches, the others wait for its answer.
Fly(p) ==
    LET k == loc[p].key
    IN  /\ pc[p] = "fly"
        /\ IF flight[k] = None THEN flight' = [flight EXCEPT ![k] = p] /\ Goto(p, "fetch")
           ELSE UNCHANGED flight /\ Goto(p, "await")
        /\ UNCHANGED <<clock, ops, loc, batch, images, failedTill, kept>>

\* What the remote service may answer: nothing usable is a failure.
Fetched == {{i} : i \in Pictures \cap ops} \cup {Pictures}

\* Batches of the same map whose pictures have been out of date for long.
Pruned(k, now) ==
    {j \in Batches : j # k /\ MapOf[j] = MapOf[k] /\ batch[j].ok /\ now > batch[j].fresh + PruneAfter}

\* The batch is stored, with the clock of the moment it was asked for.
FetchOk(p, pics) ==
    LET k == loc[p].key
        now == loc[p].now
    IN  /\ pc[p] = "fetch"
        /\ batch' = [j \in Batches |->
              IF j = k THEN [ok |-> TRUE, pics |-> pics, fresh |-> now + FreshFor[MapOf[k]], retry |-> 0]
              ELSE IF j \in Pruned(k, now) THEN NoBatch ELSE batch[j]]
        /\ kept' = (kept \ Pruned(k, now)) \cup {k}
        /\ Land(p, "await")
        /\ UNCHANGED <<clock, ops, images, failedTill>>

\* Mutated form of FetchFails: the entry is replaced.
FetchFailsAnew(p) ==
    LET k == loc[p].key
    IN  /\ pc[p] = "fetch"
        /\ batch' = [batch EXCEPT ![k] = [NoBatch EXCEPT !.retry = loc[p].now + RetryAfter]]
        /\ Land(p, "await")
        /\ UNCHANGED <<clock, ops, images, failedTill, kept>>

\* The failure is remembered beside the last good batch, which is the answer.
FetchFails(p) ==
    LET k == loc[p].key
    IN  /\ pc[p] = "fetch"
        /\ batch' = [batch EXCEPT ![k].retry = loc[p].now + RetryAfter]
        /\ Land(p, "await")
        /\ UNCHANGED <<clock, ops, images, failedTill, kept>>

\* Forget: every Unsplash batch is dropped.
Forget ==
    LET gone == {k \in Batches : MapOf[k] = "unsplash"}
    IN  /\ batch' = [k \in Batches |-> IF k \in gone THEN NoBatch ELSE batch[k]]
        /\ kept' = kept \ gone

-----------------------------------------------------------------------------
(* Pictures                                                                  *)

\* lookupPixabay: the picture is in a batch whose addresses are still valid.
LookupPixabay(i) ==
    \E k \in Batches : MapOf[k] = "pixabay" /\ batch[k].ok /\ clock <= batch[k].fresh /\ i \in batch[k].pics

\* The LRU cache: i becomes the most recently used one, the last ones go.
Used(i) == <<i>> \o SelectSeq(images, LAMBDA j : j # i)
Put(i) == LET s == Used(i) IN SubSeq(s, 1, IF Len(s) > MaxImages THEN MaxImages ELSE Len(s))

\* Image: from the cache, or from a download unless the last one failed just now.
Image(p, i) ==
    /\ Idle(p, "picture") /\ i \in ops
    /\ \/ i \in Range(images) /\ images' = Used(i) /\ UNCHANGED <<pc, loc>>
       \/ i \notin Range(images) /\ clock >= failedTill[i] /\ UNCHANGED images
          /\ Goto(p, "flyImage") /\ Set(p, Asked(i))
    /\ UNCHANGED <<clock, ops, batch, flight, failedTill, kept>>

\* One download at a time; the cache and the batches are looked into once more.
FlyImage(p) ==
    LET i == loc[p].key
    IN  /\ pc[p] = "flyImage"
        /\ \/ flight[i] # None /\ Goto(p, "awaitImage") /\ UNCHANGED <<flight, loc, images>>
           \/ flight[i] = None /\ i \in Range(images) /\ images' = Used(i) /\ Done(p) /\ UNCHANGED flight
           \/ flight[i] = None /\ i \notin Range(images) /\ ~LookupPixabay(i) /\ Done(p) /\ UNCHANGED <<flight, images>>
           \/ flight[i] = None /\ i \notin Range(images) /\ LookupPixabay(i)
              /\ flight' = [flight EXCEPT ![i] = p] /\ Goto(p, "download") /\ UNCHANGED <<loc, images>>
        /\ UNCHANGED <<clock, ops, batch, failedTill, kept>>

\* downloadImage succeeds: the failure is forgotten, the picture cached.
DownloadOk(p) ==
    LET i == loc[p].key
    IN  /\ pc[p] = "download"
        /\ images' = Put(i) /\ failedTill' = [failedTill EXCEPT ![i] = 0]
        /\ Land(p, "awaitImage")
        /\ UNCHANGED <<clock, ops, batch, kept>>

\* It fails, or the visitor whose request it is goes away: everybody's failure.
DownloadFails(p) ==
    LET i == loc[p].key
    IN  /\ pc[p] = "download"
        /\ failedTill' = [failedTill EXCEPT ![i] = clock + RetryAfter]
        /\ Land(p, "awaitImage")
        /\ UNCHANGED <<clock, ops, batch, images, kept>>

WallpapersNext ==
    \E p \in Procs :
        \/ \E k \in Batches : Cached(p, k)
        \/ Fly(p) \/ (\E pics \in Fetched : FetchOk(p, pics)) \/ FetchFails(p)
        \/ \E i \in Pictures : Image(p, i)
        \/ FlyImage(p) \/ DownloadOk(p) \/ DownloadFails(p)

\* A sign-in page that had wallpapers keeps having them: no failed refresh, of
\* whichever of the requests that found the batch stale, takes the last good batch
\* away; and nobody waits for a refresh or a download that no request carries out.
WallpapersKept ==
    /\ \A k \in kept : batch[k].ok
    /\ \A p \in Procs : pc[p] \in {"await", "awaitImage"} =>
          /\ flight[loc[p].key] # None
          /\ pc[flight[loc[p].key]] \in {"fetch", "download"}
=============================================================================
