------------------------------- MODULE Lifetime -------------------------------
(***************************************************************************)
(* The life of gdal.Dataset, gdal.Layer and gdal.RasterBand objects: the   *)
(* registry PtrManager, the three ObjectCaches that give a native pointer  *)
(* one JavaScript wrapper, the wrappers' constructors and destructors, the *)
(* operations that create and close native objects, and V8's collector,    *)
(* which runs the wrappers' destructors in an order of its own choosing    *)
(* and the caches' weak callbacks later still.                             *)
(*                                                                         *)
(* A wrapper is known by the uid PtrManager gave it.  Layer::cache and     *)
(* RasterBand::cache have disjoint keys and are one map here, as are       *)
(* PtrManager::layers and ::bands.  Lists of children                      *)
(* (PtrManagerDatasetItem::layers, ::bands) are read off the parent field. *)
(***************************************************************************)
EXTENDS Naturals, FiniteSets, Functions

CONSTANTS
  DsPtr,      \* addresses of GDALDataset objects
  LayerPtr,   \* addresses of OGRLayer objects
  BandPtr,    \* addresses of GDALRasterBand objects
  MaxUid      \* bound: how many wrappers a behaviour creates

Ptr == LayerPtr \cup BandPtr

ASSUME PtrAssumption == DsPtr \cap Ptr = {} /\ LayerPtr \cap BandPtr = {}
ASSUME UidAssumption == MaxUid \in Nat

VARIABLES
  uid,        \* PtrManager::uid, the next one to give out
  datasets,   \* PtrManager::datasets: uid -> address
  items,      \* PtrManager::layers and ::bands: uid -> [ptr, parent, is_result_set]
  dsCache,    \* Dataset::dataset_cache: address -> wrapper
  cache,      \* Layer::cache and RasterBand::cache: address -> wrapper
  released,   \* ObjectCacheItem::status of the item of each wrapper, until it is freed
  wrapped,    \* C++ wrappers: uid -> [ptr, this_, ds_, parent_ds]
  held,       \* wrappers the JavaScript program refers to
  pending,    \* collected wrappers whose destructor has not run yet
  nativeDs,   \* open GDALDatasets
  native,     \* allocated layers and bands: address -> [owner, kind]
  detached    \* history: addresses GDAL freed while a wrapper for them was alive

vars == <<uid, datasets, items, dsCache, cache, released, wrapped, held,
          pending, nativeDs, native, detached>>

Uid == 1..MaxUid
Flag == {"cache", "weak"}   \* ITEM_RELEASED_FROM_CACHE, ITEM_RELEASED_FROM_WEAK_CALLBACK

\* "plain" lives until its dataset closes, "sub" is a mask or overview band,
\* "result" a result set, which only ReleaseResultSet frees.
Kind == {"plain", "sub", "result"}

-------------------------------------------------------------------------------
Init ==
  /\ uid = 1
  /\ datasets = << >> /\ items = << >>
  /\ dsCache = << >> /\ cache = << >> /\ released = << >>
  /\ wrapped = << >> /\ held = {} /\ pending = {}
  /\ nativeDs = {} /\ native = << >> /\ detached = {}

\* PtrManager::isAlive.  No wrapper keeps uid 0: see ParentCached.
Registered(u) == u \in DOMAIN datasets \cup DOMAIN items

\* Dataset::isAlive, Layer::isAlive, RasterBand::isAlive.
Alive(u) == u \in DOMAIN wrapped /\ wrapped[u].this_ /\ Registered(u)

\* What a wrapper keeps from the collector: a layer or a band has its dataset in
\* the private ds_.  Mutant: ds_ is not set.
KeepsNothing(u) == {}
Keeps(u) == {wrapped[u].ds_}

\* JavaScript runs between collections, never inside one.
Calls(u) == pending = {} /\ u \in held
CallsDs(d) == Calls(d) /\ Alive(d) /\ wrapped[d].ptr \in DsPtr
CallsBand(b) == Calls(b) /\ Alive(b) /\ wrapped[b].ptr \in BandPtr

\* std::map assignment and erasure.
Put(f, x, v) == [y \in DOMAIN f \cup {x} |-> IF y = x THEN v ELSE f[y]]
Without(f, S) == Restrict(f, DOMAIN f \ S)

\* Mutants of release: freed by the first party, and never freed.
ReleaseEager(S, flag) == Without(released, S)
ReleaseNever(S, flag) ==
  [u \in DOMAIN released |-> IF u \in S THEN released[u] \cup {flag} ELSE released[u]]

\* ObjectCache::release: an item is freed when both parties have let it go.
Release(S, flag) ==
  LET marked == [u \in DOMAIN released |->
                   IF u \in S THEN released[u] \cup {flag} ELSE released[u]]
  IN  Restrict(marked, {u \in DOMAIN marked : marked[u] # Flag})

-------------------------------------------------------------------------------
\* Mutant: the counter is not advanced.
WrapSameUid(p, ds, raw_parent) ==
  /\ uid' = uid
  /\ released' = Put(released, uid, {})
  /\ wrapped' = Put(wrapped, uid, [ptr |-> p, this_ |-> TRUE, ds_ |-> ds,
                         parent_ds |-> raw_parent])
  /\ held' = held \cup {uid}

\* The wrapper part of Dataset::New, Layer::New and RasterBand::New.
Wrap(p, ds, raw_parent) ==
  /\ uid' = uid + 1
  /\ released' = Put(released, uid, {})
  /\ wrapped' = Put(wrapped, uid, [ptr |-> p, this_ |-> TRUE, ds_ |-> ds,
                         parent_ds |-> raw_parent])
  /\ held' = held \cup {uid}

\* gdal.open, Driver::create and Driver::createCopy: GDAL opens a dataset at
\* a free address and Dataset::New wraps it.
OpenDataset(p) ==
  /\ pending = {}
  /\ p \notin nativeDs
  /\ nativeDs' = nativeDs \cup {p}
  /\ IF p \in DOMAIN dsCache
     THEN /\ held' = held \cup {dsCache[p]}
          /\ UNCHANGED <<uid, datasets, dsCache, released, wrapped>>
     ELSE /\ uid <= MaxUid
          /\ Wrap(p, uid, p)
          /\ datasets' = Put(datasets, uid, p)
          /\ dsCache' = Put(dsCache, p, uid)
  /\ UNCHANGED <<items, cache, pending, native, detached>>

\* Layer::New and RasterBand::New.  The branch for a parent that is not in
\* the cache is the one ParentCached shows unreachable.
New(p, raw_parent, is_result_set) ==
  IF p \in DOMAIN cache
  THEN /\ held' = held \cup {cache[p]}
       /\ UNCHANGED <<uid, items, cache, released, wrapped>>
  ELSE /\ uid <= MaxUid
       /\ raw_parent \in DOMAIN dsCache
       /\ Wrap(p, dsCache[raw_parent], raw_parent)
       /\ items' = Put(items, uid, [ptr |-> p, parent |-> dsCache[raw_parent],
                            is_result_set |-> is_result_set])
       /\ cache' = Put(cache, p, uid)

\* GDAL hands out p: an object the dataset at o has already, or a new one.
HandOut(p, o, kind) ==
  IF p \in DOMAIN native
  THEN native[p].owner = o /\ UNCHANGED native
  ELSE native' = Put(native, p, [owner |-> o, kind |-> kind])

Allocate(p, o, kind) == p \notin DOMAIN native /\ HandOut(p, o, kind)

Rest == <<datasets, dsCache, pending, nativeDs, detached>>

\* DatasetLayers::get and DatasetBands::get (by index or by name).
Get(d, p) ==
  /\ CallsDs(d)
  /\ p \in DOMAIN native => native[p].kind = "plain"
  /\ HandOut(p, wrapped[d].ptr, "plain")
  /\ New(p, wrapped[d].ptr, FALSE)
  /\ UNCHANGED Rest

\* DatasetLayers::create and DatasetBands::create.
Create(d, p) ==
  /\ CallsDs(d)
  /\ Allocate(p, wrapped[d].ptr, "plain")
  /\ New(p, wrapped[d].ptr, FALSE)
  /\ UNCHANGED Rest

\* DatasetLayers::copy: the layer argument must be alive (NODE_ARG_WRAPPED).
Copy(d, l, p) ==
  /\ CallsDs(d) /\ Calls(l) /\ Alive(l) /\ wrapped[l].ptr \in LayerPtr
  /\ Allocate(p, wrapped[d].ptr, "plain")
  /\ New(p, wrapped[d].ptr, FALSE)
  /\ UNCHANGED Rest

\* Dataset::executeSQL.
ExecuteSQL(d, p) ==
  /\ CallsDs(d)
  /\ Allocate(p, wrapped[d].ptr, "result")
  /\ New(p, wrapped[d].ptr, TRUE)
  /\ UNCHANGED Rest

\* RasterBandOverviews::get, ::getBySampleCount and RasterBand::getMaskBand:
\* the band answers another band of its dataset (maybe itself, or an alpha band).
GetSubBand(b, p) ==
  /\ CallsBand(b)
  /\ HandOut(p, wrapped[b].parent_ds, "sub")
  /\ New(p, wrapped[b].parent_ds, FALSE)
  /\ UNCHANGED Rest

-------------------------------------------------------------------------------
\* GDAL frees layers or bands by itself; nothing in the binding hears of it.
Free(S) ==
  /\ native' = Without(native, S)
  /\ detached' = detached \cup (S \cap DOMAIN cache)
  /\ UNCHANGED <<uid, datasets, items, dsCache, cache, released, wrapped,
                 held, pending, nativeDs>>

\* DatasetLayers::remove calls DeleteLayer and nothing else.
Remove(d, p) ==
  /\ CallsDs(d)
  /\ p \in DOMAIN native \cap LayerPtr
  /\ native[p] = [owner |-> wrapped[d].ptr, kind |-> "plain"]
  /\ Free({p})

\* Dataset::buildOverviews with an empty list drops the overviews the dataset
\* had; RasterBand::createMaskBand drops a mask band made up before.
DropSubBands(d, S) ==
  /\ CallsDs(d)
  /\ S # {}
  /\ S \subseteq {p \in DOMAIN native : native[p] = [owner |-> wrapped[d].ptr, kind |-> "sub"]}
  /\ Free(S)

-------------------------------------------------------------------------------
\* PtrManager::dispose(uid): a dataset goes with its layers and its bands.
GoneAlone(u) == {u} \cap DOMAIN items
Gone(u) == {i \in DOMAIN items : i = u \/ items[i].parent = u}

\* The result sets among them are given back before the dataset is closed.
NoResults(gone) == {}
Results(gone) == {items[i].ptr : i \in {j \in gone : items[j].is_result_set}}

\* Layer::cache.erase and RasterBand::cache.erase.
ErasedNone(gone) == {}
Erased(gone) == {items[i].ptr : i \in gone}

\* Each child is erased from its cache and its registry, then the dataset
\* from its cache, and GDALClose frees what the dataset owns.
Dispose(u) ==
  LET closing == IF u \in DOMAIN datasets THEN {datasets[u]} ELSE {}
      gone    == Gone(u)
      ptrs    == Erased(gone)
      owned   == {p \in DOMAIN native : native[p].owner \in closing /\ native[p].kind # "result"}
      entries == {cache[p] : p \in ptrs \cap DOMAIN cache}
                   \cup {dsCache[p] : p \in closing \cap DOMAIN dsCache}
  IN  /\ datasets' = Without(datasets, {u})
      /\ items' = Without(items, gone)
      /\ cache' = Without(cache, ptrs)
      /\ dsCache' = Without(dsCache, closing)
      /\ released' = Release(entries, "cache")
      /\ nativeDs' = nativeDs \ closing
      /\ native' = Without(native, Results(gone) \cup owned)

\* Dataset::close.
Close(d) ==
  /\ CallsDs(d)
  /\ Dispose(d)
  /\ wrapped' = [wrapped EXCEPT ![d].this_ = FALSE]
  /\ UNCHANGED <<uid, held, pending, detached>>

-------------------------------------------------------------------------------
\* The program forgets a wrapper, or asks a layer or band for its dataset
\* (Layer::dsGetter and RasterBand::dsGetter do not look at isAlive).
Drop(u) ==
  /\ Calls(u)
  /\ held' = held \ {u}
  /\ UNCHANGED <<uid, datasets, items, dsCache, cache, released, wrapped,
                 pending, nativeDs, native, detached>>

DsGetter(u) ==
  /\ Calls(u)
  /\ held' = held \cup {wrapped[u].ds_}
  /\ UNCHANGED <<uid, datasets, items, dsCache, cache, released, wrapped,
                 pending, nativeDs, native, detached>>

\* V8 finds some of the wrappers out of reach; what it leaves does not refer
\* to what it takes.
Collect(S) ==
  /\ pending = {} /\ S # {}
  /\ S \subseteq DOMAIN wrapped \ held
  /\ \A u \in DOMAIN wrapped \ S : Keeps(u) \cap S = {}
  /\ pending' = S
  /\ UNCHANGED <<uid, datasets, items, dsCache, cache, released, wrapped,
                 held, nativeDs, native, detached>>

\* First pass: ObjectWrap's weak callback deletes the wrapper, and ~Dataset,
\* ~Layer or ~RasterBand disposes what has not been disposed of yet.
Finalize(u) ==
  /\ u \in pending
  /\ pending' = pending \ {u}
  /\ wrapped' = Without(wrapped, {u})
  /\ IF wrapped[u].this_
     THEN Dispose(u)
     ELSE UNCHANGED <<datasets, items, cache, dsCache, released, nativeDs, native>>
  /\ UNCHANGED <<uid, held, detached>>

\* Second pass: ObjectCache::cacheWeakCallback of a wrapper that is gone.
WeakCallback(u) ==
  /\ pending = {}
  /\ u \in DOMAIN released \ DOMAIN wrapped
  /\ released' = Release({u}, "weak")
  /\ UNCHANGED <<uid, datasets, items, dsCache, cache, wrapped, held,
                 pending, nativeDs, native, detached>>

-------------------------------------------------------------------------------
Operation ==
  \/ \E p \in DsPtr : OpenDataset(p)
  \/ \E d \in held, p \in Ptr : Get(d, p) \/ Create(d, p)
  \/ \E d, l \in held, p \in LayerPtr : Copy(d, l, p)
  \/ \E d \in held, p \in LayerPtr : ExecuteSQL(d, p) \/ Remove(d, p)
  \/ \E b \in held, p \in BandPtr : GetSubBand(b, p)
  \/ \E d \in held, S \in SUBSET BandPtr : DropSubBands(d, S)
  \/ \E d \in held : Close(d)
  \/ \E u \in held : Drop(u) \/ DsGetter(u)

Collector ==
  \/ \E S \in SUBSET DOMAIN wrapped : Collect(S)
  \/ \E u \in pending : Finalize(u)
  \/ \E u \in DOMAIN released : WeakCallback(u)

Next == Operation \/ Collector

Spec == Init /\ [][Next]_vars

\* V8 finishes a collection it started and runs the callbacks it queued; it
\* never owes the program a collection.
FairSpec ==
  /\ Spec
  /\ WF_vars(\E u \in pending : Finalize(u))
  /\ \A u \in Uid : WF_vars(WeakCallback(u))

-------------------------------------------------------------------------------
\* The uids given out so far.
Old == 1..(uid - 1)

RegistryType ==
  /\ DOMAIN datasets \subseteq Old
  /\ \A u \in DOMAIN datasets : datasets[u] \in DsPtr
  /\ DOMAIN items \subseteq Old
  /\ \A u \in DOMAIN items :
       items[u] \in [ptr : Ptr, parent : Old, is_result_set : BOOLEAN]

CacheType ==
  /\ DOMAIN dsCache \subseteq DsPtr /\ \A p \in DOMAIN dsCache : dsCache[p] \in Old
  /\ DOMAIN cache \subseteq Ptr /\ \A p \in DOMAIN cache : cache[p] \in Old
  /\ DOMAIN released \subseteq Old
  /\ \A u \in DOMAIN released : released[u] \in SUBSET Flag

WrapperType ==
  /\ DOMAIN wrapped \subseteq Old
  /\ \A u \in DOMAIN wrapped :
       wrapped[u] \in [ptr : DsPtr \cup Ptr, this_ : BOOLEAN, ds_ : Old, parent_ds : DsPtr]
  /\ held \subseteq DOMAIN wrapped /\ pending \subseteq DOMAIN wrapped

NativeType ==
  /\ nativeDs \subseteq DsPtr
  /\ DOMAIN native \subseteq Ptr
  /\ \A p \in DOMAIN native : native[p] \in [owner : DsPtr, kind : Kind]
  /\ detached \subseteq Ptr

\* Every map has the shape the code gives it, no uid is ahead of the counter,
\* and what the program holds or the collector is to destroy exists.
TypeOK ==
  uid \in 1..(MaxUid + 1) /\ RegistryType /\ CacheType /\ WrapperType /\ NativeType

\* One wrapper per native object: what ObjectCache::get answers for an address
\* is the one wrapper alive for it, and every wrapper alive is found there.
OneWrapper ==
  /\ \A p \in DOMAIN cache : Alive(cache[p]) /\ wrapped[cache[p]].ptr = p
  /\ \A p \in DOMAIN dsCache : Alive(dsCache[p]) /\ wrapped[dsCache[p]].ptr = p
  /\ \A u \in DOMAIN wrapped :
       Alive(u) => LET p == wrapped[u].ptr IN
                   IF p \in DsPtr THEN p \in DOMAIN dsCache /\ dsCache[p] = u
                                  ELSE p \in DOMAIN cache /\ cache[p] = u

\* A layer or band alive has its dataset alive, open and in dataset_cache under
\* the parent_ds it remembers, so "parent dataset disappeared from cache"
\* (Layer::New, RasterBand::New: "should never happen") never does.
ParentCached ==
  \A u \in DOMAIN wrapped : Alive(u) =>
    LET r == wrapped[u].ds_  o == wrapped[u].parent_ds IN
    /\ r \in DOMAIN datasets /\ datasets[r] = o
    /\ o \in DOMAIN dsCache /\ dsCache[o] = r
    /\ o \in nativeDs

\* A wrapper alive stands for a native object that is still allocated by its
\* own dataset, at every address but those GDAL freed behind the binding's back.
NativeBacked ==
  \A u \in DOMAIN wrapped : Alive(u) /\ wrapped[u].ptr \in Ptr \ detached =>
    /\ wrapped[u].ptr \in DOMAIN native
    /\ native[wrapped[u].ptr].owner = wrapped[u].parent_ds

\* obj_cache.hpp:44: get() fetches "the V8 obj that wraps the native pointer".
\* Broken by layers.remove: the cache keeps answering the wrapper of the freed
\* layer, to whichever dataset gets a layer at that address next.
CacheWrapsNative ==
  \A p \in DOMAIN cache \cap DOMAIN native :
    native[p].owner = wrapped[cache[p]].parent_ds

\* No result set outlives its dataset: dispose gives it back before GDALClose,
\* whichever of the two destructors runs first.
ResultSetsReleased ==
  \A p \in DOMAIN native \ detached :
    native[p].kind = "result" => native[p].owner \in nativeDs

\* ObjectCacheItem is freed neither while a cache points to it nor while V8
\* has its weak callback to run.
ItemsOutliveUsers ==
  /\ \A p \in DOMAIN cache : cache[p] \in DOMAIN released /\ "cache" \notin released[cache[p]]
  /\ \A p \in DOMAIN dsCache : dsCache[p] \in DOMAIN released /\ "cache" \notin released[dsCache[p]]
  /\ \A u \in DOMAIN wrapped : u \in DOMAIN released /\ "weak" \notin released[u]

Reachable == held \cup {wrapped[u].ds_ : u \in held}

\* What the program can reach dies only by closing its dataset: no order of the
\* collector's callbacks takes a handle, or the dataset under it, away.
OnlyCloseKills ==
  [][\A u \in Reachable : Alive(u) /\ ~Alive(u)' =>
       LET d == wrapped[u].ds_ IN d \in DOMAIN wrapped' /\ ~wrapped'[d].this_]_vars

\* The cache item of a collected wrapper is freed in the end, whether the
\* wrapper was closed, disposed by its destructor or by its dataset's.
ItemsFreed ==
  \A u \in Uid : u \in DOMAIN released \ DOMAIN wrapped ~> u \notin DOMAIN released

\* The registries, caches and callbacks keep the promise of HandleLifetime.
Handles == INSTANCE HandleLifetime WITH
  Handle <- Uid,
  born <- 1..(uid - 1),
  live <- DOMAIN datasets \cup DOMAIN items,
  root <- [u \in DOMAIN wrapped |-> wrapped[u].ds_],
  held <- held

KeepsPromise == Handles!Spec
===============================================================================
