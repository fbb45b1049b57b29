------------------------------- MODULE SrsCache -------------------------------
(***************************************************************************)
(* gdal.SpatialReference objects and their ObjectCache, the one cache of   *)
(* the binding that uses aliases.                                          *)
(*                                                                         *)
(* A layer or a geometry has a native, reference counted SRS.  Asking for  *)
(* it wraps a clone, cached under the clone's address with the address of  *)
(* the original as an alias, so that asking again answers the same object. *)
(* Nobody tells the cache when the original is freed, and the allocator    *)
(* may use its address again.                                              *)
(***************************************************************************)
EXTENDS Naturals, FiniteSets, Functions

CONSTANTS
  Addr,        \* addresses of OGRSpatialReference objects
  Holder,      \* layers and geometries that may have an SRS
  Def,         \* what an SRS says
  MaxWrapper,  \* bound: how many wrappers a behaviour creates
  NULL         \* no alias, no SRS

ASSUME NullAssumption == NULL \notin Addr
ASSUME WrapperAssumption == MaxWrapper \in Nat

VARIABLES
  heap,      \* allocated SRSs: address -> [def, refs]
  holder,    \* the SRS of each layer or geometry
  cache,     \* ObjectCache::cache: address -> item
  aliases,   \* ObjectCache::aliases: address -> address
  items,     \* ObjectCacheItem: item -> [key, alias, status]; an item has its wrapper's name
  wrapped,   \* C++ wrappers: wrapper -> [this_, def, cached], def being what it
             \* was made from or last told to say
  next,      \* the name of the next wrapper
  held,      \* wrappers the program refers to
  pending,   \* collected wrappers whose destructor has not run yet
  muddled,   \* history: "reused" once an SRS was allocated where the cache had an
             \* answer already, "shared" once an uncached wrapper's SRS became an alias
  modified   \* history: SRSs changed in place since the cache last copied them

history == <<muddled, modified>>
vars == <<heap, holder, cache, aliases, items, wrapped, next, held, pending, history>>

Wrapper == 1..MaxWrapper
Flag == {"cache", "weak"}

-------------------------------------------------------------------------------
\* std::map assignment and erasure.
Put(f, x, v) == [y \in DOMAIN f \cup {x} |-> IF y = x THEN v ELSE f[y]]
Without(f, S) == Restrict(f, DOMAIN f \ S)

\* ObjectCache::has and ::getItem.
Has(a) == a \in DOMAIN cache \cup DOMAIN aliases
Key(a) == IF a \in DOMAIN aliases THEN aliases[a] ELSE a
Item(a) == cache[Key(a)]

\* getItem's cache[key] is NULL, which its callers dereference: the end of the process.
Missing(a) == Has(a) /\ Key(a) \notin DOMAIN cache

\* Mutant: the alias is not recorded.
AddNoAlias(key, alias, w) ==
  /\ cache' = Put(cache, key, w)
  /\ items' = Put(items, w, [key |-> key, alias |-> alias, status |-> {}])
  /\ UNCHANGED aliases

\* ObjectCache::add.
Add(key, alias, w) ==
  /\ cache' = Put(cache, key, w)
  /\ items' = Put(items, w, [key |-> key, alias |-> alias, status |-> {}])
  /\ aliases' = IF alias = NULL THEN aliases ELSE Put(aliases, alias, key)

\* Mutant: freed by the first party.
ReleaseEager(w, flag) == Without(items, {w})

\* ObjectCache::release.
Release(w, flag) ==
  IF items[w].status \cup {flag} = Flag
  THEN Without(items, {w})
  ELSE [items EXCEPT ![w].status = @ \cup {flag}]

\* Mutants: the alias is left behind, and nothing is erased.
EraseKeepAlias(a) ==
  ~Missing(a) /\
  IF Has(a) THEN /\ cache' = Without(cache, {items[Item(a)].key})
                 /\ items' = Release(Item(a), "cache")
                 /\ UNCHANGED aliases
            ELSE UNCHANGED <<cache, aliases, items>>
EraseNothing(a) == UNCHANGED <<cache, aliases, items>>

\* ObjectCache::erase, by address and by item.
Erase(a) ==
  ~Missing(a) /\
  IF Has(a)
  THEN LET w == Item(a) IN
       /\ cache' = Without(cache, {items[w].key})
       /\ aliases' = Without(aliases, {items[w].alias})
       /\ items' = Release(w, "cache")
  ELSE UNCHANGED <<cache, aliases, items>>

\* Mutant: assignSpatialReference takes no reference.
RefForgotten(h, a) == h

\* OGRSpatialReference::Reference and ::Release, on a heap.
Ref(h, a) == [h EXCEPT ![a].refs = @ + 1]
Unref(h, a) == IF h[a].refs = 1 THEN Without(h, {a}) ELSE [h EXCEPT ![a].refs = @ - 1]
Alloc(h, a, d) == Put(h, a, [def |-> d, refs |-> 1])

\* What makes one address mean two things to the cache; a change in place is
\* forgotten with the SRS, and when a new alias stands for a copy of it.
Track ==
  /\ muddled' = muddled
       \cup (IF \E a \in DOMAIN heap' \ DOMAIN heap : Has(a) THEN {"reused"} ELSE {})
       \cup (IF \E a \in DOMAIN aliases' \ DOMAIN aliases, w \in DOMAIN wrapped :
                  wrapped[w].this_ = a THEN {"shared"} ELSE {})
  /\ modified' = (modified \cap DOMAIN heap') \ (DOMAIN aliases' \ DOMAIN aliases)

-------------------------------------------------------------------------------
Init ==
  /\ heap = << >> /\ holder = [h \in Holder |-> NULL]
  /\ cache = << >> /\ aliases = << >> /\ items = << >>
  /\ wrapped = << >> /\ next = 1 /\ held = {} /\ pending = {}
  /\ muddled = {} /\ modified = {}

\* Mutant: two wrappers under one name.
WrapSameName(a, d, cached) ==
  /\ next <= MaxWrapper
  /\ next' = next
  /\ wrapped' = Put(wrapped, next, [this_ |-> a, def |-> d, cached |-> cached])
  /\ held' = held \cup {next}

\* A new wrapper, with or without an item in the cache.
Wrap(a, d, cached) ==
  /\ next <= MaxWrapper
  /\ next' = next + 1
  /\ wrapped' = Put(wrapped, next, [this_ |-> a, def |-> d, cached |-> cached])
  /\ held' = held \cup {next}

\* ObjectCache::get: the handle of a wrapper that was collected is empty.
Answer(a) ==
  /\ ~Missing(a)
  /\ held' = held \cup ({Item(a)} \cap DOMAIN wrapped)
  /\ UNCHANGED <<cache, aliases, items, wrapped, next>>

\* new SpatialReference(wkt): a native of its own, cached under its address.
Construct(a, d) ==
  /\ pending = {} /\ a \notin DOMAIN heap
  /\ heap' = Alloc(heap, a, d)
  /\ Wrap(a, d, TRUE)
  /\ Add(a, NULL, next)
  /\ UNCHANGED <<holder, pending>>
  /\ Track

\* SpatialReference::New(raw, true), from fromEPSG and the other factories,
\* clone, cloneGeogCS and Dataset::srsGetter: raw was just allocated.  The
\* clone at k is wrapped but not cached, and raw is released; when the cache
\* has an answer for raw's address, raw stays.
NewOwned(raw, k, d) ==
  /\ pending = {} /\ raw \notin DOMAIN heap
  /\ k \notin DOMAIN heap \cup {raw}
  /\ IF Has(raw)
     THEN heap' = Alloc(heap, raw, d) /\ Answer(raw)
     ELSE /\ heap' = Alloc(heap, k, d)
          /\ Wrap(k, d, FALSE)
          /\ UNCHANGED <<cache, aliases, items>>
  /\ UNCHANGED <<holder, pending>>
  /\ Track

\* Mutant: wraps the layer's own SRS and takes no reference.
NewUncloned(h, k) ==
  LET raw == holder[h] IN
  /\ pending = {} /\ raw # NULL /\ k = raw
  /\ IF Has(raw) THEN Answer(raw)
                 ELSE Wrap(raw, heap[raw].def, TRUE) /\ Add(raw, NULL, next)
  /\ UNCHANGED <<heap, holder, pending, history>>

\* SpatialReference::New(raw, false), from Layer::srsGetter and
\* Geometry::srsGetter.
NewUnowned(h, k) ==
  LET raw == holder[h] IN
  /\ pending = {} /\ raw # NULL /\ k \notin DOMAIN heap
  /\ IF Has(raw)
     THEN Answer(raw) /\ UNCHANGED heap
     ELSE /\ heap' = Alloc(heap, k, heap[raw].def)
          /\ Wrap(k, heap[raw].def, TRUE)
          /\ Add(k, raw, next)
  /\ UNCHANGED <<holder, pending>>
  /\ Track

\* SpatialReference::dispose, from the destructor in the collector's first pass.
Finalize(w) ==
  /\ w \in pending
  /\ pending' = pending \ {w}
  /\ wrapped' = Without(wrapped, {w})
  /\ Erase(wrapped[w].this_)
  /\ heap' = Unref(heap, wrapped[w].this_)
  /\ UNCHANGED <<holder, next, held>>
  /\ Track

\* ObjectCache::cacheWeakCallback, in the second pass.
WeakCallback(w) ==
  /\ pending = {}
  /\ w \in DOMAIN items \ DOMAIN wrapped /\ "weak" \notin items[w].status
  /\ items' = Release(w, "weak")
  /\ UNCHANGED <<heap, holder, cache, aliases, wrapped, next, held, pending, history>>

-------------------------------------------------------------------------------
CacheVars == <<cache, aliases, items>>
WrapperVars == <<wrapped, next, held, pending>>

\* A layer is opened, or a geometry made, with an SRS of its own.
Load(h, a, d) ==
  /\ pending = {} /\ holder[h] = NULL /\ a \notin DOMAIN heap
  /\ holder' = [holder EXCEPT ![h] = a]
  /\ heap' = Alloc(heap, a, d)
  /\ UNCHANGED <<CacheVars, WrapperVars>>
  /\ Track

\* Geometry::srsSetter: OGRGeometry::assignSpatialReference takes a reference to
\* the wrapper's SRS and lets its own go.
Assign(h, w) ==
  LET a == wrapped[w].this_ IN
  /\ pending = {} /\ w \in held
  /\ holder' = [holder EXCEPT ![h] = a]
  /\ heap' = IF holder[h] = NULL THEN Ref(heap, a) ELSE Unref(Ref(heap, a), holder[h])
  /\ UNCHANGED <<CacheVars, WrapperVars>>
  /\ Track

\* A geometry read from a layer has the layer's SRS: OGR shares it.
Share(g, h) ==
  /\ pending = {} /\ holder[g] = NULL /\ holder[h] # NULL
  /\ holder' = [holder EXCEPT ![g] = holder[h]]
  /\ heap' = Ref(heap, holder[h])
  /\ UNCHANGED <<CacheVars, WrapperVars, history>>

\* The dataset is closed, the geometry freed (by the program or a destructor), or
\* its srs set to null.
Discard(h) ==
  /\ holder[h] # NULL
  /\ holder' = [holder EXCEPT ![h] = NULL]
  /\ heap' = Unref(heap, holder[h])
  /\ UNCHANGED <<CacheVars, WrapperVars>>
  /\ Track

\* setWellKnownGeogCS, morphToESRI, morphFromESRI and autoIdentifyEPSG change the
\* wrapper's SRS in place: everything that has the SRS sees it.
Modify(w, d) ==
  LET a == wrapped[w].this_ IN
  /\ pending = {} /\ w \in held /\ d # heap[a].def
  /\ heap' = [heap EXCEPT ![a].def = d]
  /\ wrapped' = [wrapped EXCEPT ![w].def = d]
  /\ modified' = modified \cup {a}
  /\ UNCHANGED <<holder, CacheVars, next, held, pending, muddled>>

Drop(w) ==
  /\ pending = {} /\ w \in held
  /\ held' = held \ {w}
  /\ UNCHANGED <<heap, holder, CacheVars, wrapped, next, pending, history>>

Collect(S) ==
  /\ pending = {} /\ S # {} /\ S \subseteq DOMAIN wrapped \ held
  /\ pending' = S
  /\ UNCHANGED <<heap, holder, CacheVars, wrapped, next, held, history>>

Next ==
  \/ \E a \in Addr, d \in Def : Construct(a, d)
  \/ \E raw, k \in Addr, d \in Def : NewOwned(raw, k, d)
  \/ \E h \in Holder, k \in Addr : NewUnowned(h, k)
  \/ \E h \in Holder, a \in Addr, d \in Def : Load(h, a, d)
  \/ \E h \in Holder, w \in held : Assign(h, w)
  \/ \E g, h \in Holder : Share(g, h)
  \/ \E h \in Holder : Discard(h)
  \/ \E w \in held, d \in Def : Modify(w, d)
  \/ \E w \in held : Drop(w)
  \/ \E S \in SUBSET DOMAIN wrapped : Collect(S)
  \/ \E w \in pending : Finalize(w)
  \/ \E w \in DOMAIN items : WeakCallback(w)

Spec == Init /\ [][Next]_vars

-------------------------------------------------------------------------------
TypeOK ==
  /\ DOMAIN heap \subseteq Addr
  /\ \A a \in DOMAIN heap : heap[a] \in [def : Def, refs : Nat \ {0}]
  /\ holder \in [Holder -> Addr \cup {NULL}]
  /\ next \in 1..(MaxWrapper + 1)
  /\ DOMAIN wrapped \subseteq 1..(next - 1)
  /\ \A w \in DOMAIN wrapped : wrapped[w] \in [this_ : Addr, def : Def, cached : BOOLEAN]
  /\ DOMAIN items \subseteq 1..(next - 1)
  /\ \A w \in DOMAIN items :
       items[w] \in [key : Addr, alias : Addr \cup {NULL}, status : SUBSET Flag]
  /\ DOMAIN cache \subseteq Addr /\ \A a \in DOMAIN cache : cache[a] \in 1..(next - 1)
  /\ DOMAIN aliases \subseteq Addr /\ \A a \in DOMAIN aliases : aliases[a] \in Addr
  /\ held \subseteq DOMAIN wrapped /\ pending \subseteq DOMAIN wrapped
  /\ muddled \subseteq {"reused", "shared"} /\ modified \subseteq DOMAIN heap

\* A wrapper keeps its SRS whatever happens to the layer, the geometry or the
\* dataset it came from; only a call on the wrapper itself changes what it says,
\* and no other wrapper shares it.
WrapperKeepsSrs ==
  \A w \in DOMAIN wrapped :
    /\ wrapped[w].this_ \in DOMAIN heap
    /\ heap[wrapped[w].this_].def = wrapped[w].def
    /\ \A v \in DOMAIN wrapped \ {w} : wrapped[v].this_ # wrapped[w].this_

\* No SRS is freed under a wrapper, a layer or a geometry that refers to it.
Counted ==
  \A a \in DOMAIN heap :
    heap[a].refs >= Cardinality({w \in DOMAIN wrapped : wrapped[w].this_ = a})
                      + Cardinality({h \in Holder : holder[h] = a})

\* An item is not freed while the cache points to it or V8 has its weak
\* callback to run, whatever the addresses mean.
ItemsOutliveUsers ==
  /\ \A a \in DOMAIN cache :
       cache[a] \in DOMAIN items /\ "cache" \notin items[cache[a]].status
  /\ \A w \in DOMAIN wrapped :
       wrapped[w].cached => w \in DOMAIN items /\ "weak" \notin items[w].status

\* Until an address is used again, the cache answers with a living wrapper.  It
\* says the same as what is allocated at the address unless one of the two was
\* changed in place since the wrapper was made: asked again, a layer answers the
\* wrapper that morphToESRI() changed.
AnswersAgree ==
  "reused" \notin muddled => \A a \in Addr : Has(a) =>
    /\ ~Missing(a) /\ Item(a) \in DOMAIN wrapped
    /\ a \in DOMAIN heap /\ {a, wrapped[Item(a)].this_} \cap modified = {}
         => wrapped[Item(a)].def = heap[a].def

\* "should return the same SpatialReference object" (test/api_layer.test.js:101):
\* a cached wrapper is found under its own address and under its original's.
SameObject ==
  muddled = {} => \A w \in DOMAIN items \cap DOMAIN wrapped :
    /\ items[w].key = wrapped[w].this_
    /\ \A a \in {items[w].key, items[w].alias} \ {NULL} :
         Has(a) /\ ~Missing(a) /\ Item(a) = w

\* The item of a wrapper that is gone has left the cache, so that the weak
\* callback frees it and no empty handle stays behind, until an address is
\* used again.
CollectedReleased ==
  "reused" \notin muddled =>
    \A w \in DOMAIN items \ DOMAIN wrapped : "cache" \in items[w].status

\* obj_cache.hpp:49 of has(): "check if native pointer has been wrapped, or if
\* an alias wraps it".  A wrapper of fromEPSG is not cached, but once its SRS is
\* the alias of another wrapper its destructor erases the other's item: the
\* geometry's SRS is wrapped and has() denies it.
AskingAgain ==
  "reused" \notin muddled =>
    \A h \in Holder, w \in held :
      /\ holder[h] # NULL /\ w \in DOMAIN items /\ items[w].alias = holder[h]
      => Has(holder[h])

\* obj_cache.hpp:45: "call has() before calling to get() to ensure handle
\* exists".  A cached wrapper whose SRS is at the address of a stale alias erases
\* another's item instead of its own, which stays with an empty handle.
HasMeansHandle ==
  pending = {} => \A a \in DOMAIN heap : Has(a) => ~Missing(a) /\ Item(a) \in DOMAIN wrapped
===============================================================================
