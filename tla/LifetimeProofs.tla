---------------------------- MODULE LifetimeProofs ----------------------------
(***************************************************************************)
(* Proofs about Lifetime for every set of addresses and every number of    *)
(* wrappers.  IInv, the inductive invariant, says how the four views of a  *)
(* wrapper agree: PtrManager's registries, the caches, the C++ objects and *)
(* what GDAL has allocated; and that a collection under way touches        *)
(* nothing the program can reach.                                          *)
(***************************************************************************)
EXTENDS Lifetime, TLAPS

\* A registered wrapper exists, and agrees with its registry entry.
RegistryOK ==
  /\ DOMAIN datasets \cap DOMAIN items = {}
  /\ \A u \in DOMAIN datasets :
       /\ u \in DOMAIN wrapped
       /\ wrapped[u].ptr = datasets[u] /\ wrapped[u].parent_ds = datasets[u]
       /\ wrapped[u].ds_ = u /\ wrapped[u].this_
  /\ \A u \in DOMAIN items :
       /\ u \in DOMAIN wrapped
       /\ items[u].parent \in DOMAIN datasets
       /\ wrapped[u].ptr = items[u].ptr /\ wrapped[u].parent_ds = datasets[items[u].parent]
       /\ wrapped[u].ds_ = items[u].parent /\ wrapped[u].this_

\* The caches are the inverses of the registries.
CacheOK ==
  /\ \A p \in DOMAIN dsCache : dsCache[p] \in DOMAIN datasets /\ datasets[dsCache[p]] = p
  /\ \A u \in DOMAIN datasets : datasets[u] \in DOMAIN dsCache /\ dsCache[datasets[u]] = u
  /\ \A p \in DOMAIN cache : cache[p] \in DOMAIN items /\ items[cache[p]].ptr = p
  /\ \A u \in DOMAIN items : items[u].ptr \in DOMAIN cache /\ cache[items[u].ptr] = u
  /\ nativeDs = DOMAIN dsCache

\* Away from detached addresses, a registered child is allocated by its
\* dataset, and a result set is registered as one.
NativeOK ==
  /\ \A u \in DOMAIN items : items[u].ptr \notin detached =>
       /\ items[u].ptr \in DOMAIN native
       /\ native[items[u].ptr].owner = datasets[items[u].parent]
  /\ \A p \in DOMAIN native \ detached : native[p].kind = "result" =>
       p \in DOMAIN cache /\ items[cache[p]].is_result_set

\* The item of a wrapper waits for its weak callback, and for its cache
\* while the wrapper is registered.
StatusOK ==
  /\ \A u \in DOMAIN wrapped : u \in DOMAIN released /\ "weak" \notin released[u]
  /\ \A u \in DOMAIN datasets \cup DOMAIN items : "cache" \notin released[u]

\* What the collector leaves does not refer to what it takes.
PendingOK ==
  /\ pending \cap held = {}
  /\ \A u \in DOMAIN wrapped \ pending : wrapped[u].ds_ \in DOMAIN wrapped \ pending

IInv == TypeOK /\ RegistryOK /\ CacheOK /\ NativeOK /\ StatusOK /\ PendingOK

-------------------------------------------------------------------------------
\* What an item's status is after a release, and which items it frees.
LEMMA ReleaseFacts ==
  ASSUME NEW S, NEW flag
  PROVE  /\ DOMAIN Release(S, flag) \subseteq DOMAIN released
         /\ \A u \in DOMAIN Release(S, flag) :
              Release(S, flag)[u] = IF u \in S THEN released[u] \cup {flag} ELSE released[u]
         /\ \A u \in DOMAIN released :
              (IF u \in S THEN released[u] \cup {flag} ELSE released[u]) # Flag
                => u \in DOMAIN Release(S, flag)
BY DEF Release, Restrict

-------------------------------------------------------------------------------
LEMMA InitIInv == Init => IInv
BY UidAssumption DEF Init, IInv, TypeOK, RegistryType, CacheType, WrapperType, NativeType, RegistryOK, CacheOK, NativeOK, StatusOK, PendingOK

\* What it means to add one wrapper, in a form the steps below use.
Added(f, g, x, v) ==
  /\ DOMAIN g = DOMAIN f \cup {x}
  /\ g[x] = v
  /\ \A y \in DOMAIN f : g[y] = f[y]

LEMMA PutNew ==
  ASSUME NEW f, NEW x, NEW v, x \notin DOMAIN f
  PROVE  Added(f, Put(f, x, v), x, v)
BY DEF Put, Added

Wrapper(p, ds, o) == [ptr |-> p, this_ |-> TRUE, ds_ |-> ds, parent_ds |-> o]
Wrappers(O) == [ptr : DsPtr \cup Ptr, this_ : BOOLEAN, ds_ : O, parent_ds : DsPtr]

\* A wrapper gets a uid that no map knows yet.
LEMMA WrapFacts ==
  ASSUME IInv, uid <= MaxUid,
         NEW p \in DsPtr \cup Ptr, NEW ds \in Old \cup {uid}, NEW o \in DsPtr, Wrap(p, ds, o)
  PROVE  /\ uid' \in 1..(MaxUid + 1) /\ Old' = Old \cup {uid}
         /\ uid \notin DOMAIN datasets \cup DOMAIN items \cup DOMAIN wrapped \cup DOMAIN released
         /\ uid \notin Old
         /\ held' = held \cup {uid}
         /\ Added(released, released', uid, {})
         /\ Added(wrapped, wrapped', uid, Wrapper(p, ds, o))
         /\ \A u \in DOMAIN wrapped' : wrapped'[u] \in Wrappers(Old')
<1>1. uid' \in 1..(MaxUid + 1) /\ Old' = Old \cup {uid} /\ uid \notin Old
  BY UidAssumption DEF Wrap, IInv, TypeOK, Old
<1>2. uid \notin DOMAIN datasets \cup DOMAIN items \cup DOMAIN wrapped \cup DOMAIN released
  BY <1>1 DEF TypeOK, RegistryType, WrapperType, CacheType, IInv
<1>3. /\ Added(released, released', uid, {})
      /\ Added(wrapped, wrapped', uid, Wrapper(p, ds, o))
  BY <1>2, PutNew DEF Wrap, Wrapper
<1>4. Wrapper(p, ds, o) \in Wrappers(Old') /\ Wrappers(Old) \subseteq Wrappers(Old')
  BY <1>1 DEF Wrapper, Wrappers
<1>5. \A u \in DOMAIN wrapped : wrapped[u] \in Wrappers(Old)
  BY DEF TypeOK, WrapperType, Wrappers, IInv
<1>6. \A u \in DOMAIN wrapped' : wrapped'[u] \in Wrappers(Old')
  BY <1>3, <1>4, <1>5 DEF Added
<1>7. QED
  BY <1>1, <1>2, <1>3, <1>6 DEF Wrap

\* Dataset::New: a new dataset is registered and cached at once.
LEMMA OpenDatasetStep ==
  ASSUME IInv, NEW p \in DsPtr, OpenDataset(p)
  PROVE  IInv'
<1>1. p \notin DOMAIN dsCache
  BY DEF CacheOK, IInv, OpenDataset
<1>2. /\ uid <= MaxUid /\ Wrap(p, uid, p) /\ pending = {}
      /\ nativeDs' = nativeDs \cup {p}
      /\ UNCHANGED <<items, cache, pending, native, detached>>
  BY <1>1 DEF OpenDataset
<1>3. /\ uid' \in 1..(MaxUid + 1) /\ Old' = Old \cup {uid}
      /\ uid \notin DOMAIN datasets \cup DOMAIN items \cup DOMAIN wrapped \cup DOMAIN released
      /\ held' = held \cup {uid}
      /\ Added(released, released', uid, {})
      /\ Added(wrapped, wrapped', uid, Wrapper(p, uid, p))
      /\ \A u \in DOMAIN wrapped' : wrapped'[u] \in Wrappers(Old')
  BY <1>2, WrapFacts
<1>4. Added(datasets, datasets', uid, p) /\ Added(dsCache, dsCache', p, uid)
  BY <1>1, <1>3, PutNew DEF OpenDataset
<1>5. TypeOK'
  <2>1. RegistryType'
    BY <1>2, <1>3, <1>4 DEF TypeOK, RegistryType, IInv, Added
  <2>2. CacheType'
    BY <1>2, <1>3, <1>4 DEF TypeOK, CacheType, IInv, Added
  <2>3. WrapperType'
    BY <1>2, <1>3 DEF TypeOK, WrapperType, Wrappers, IInv, Added
  <2>4. NativeType'
    BY <1>2 DEF TypeOK, NativeType, IInv
  <2>5. QED
    BY <1>3, <2>1, <2>2, <2>3, <2>4 DEF TypeOK
<1>6. RegistryOK'
  BY <1>2, <1>3, <1>4 DEF RegistryOK, IInv, Added, Wrapper
<1>7. CacheOK'
  BY <1>1, <1>2, <1>3, <1>4 DEF CacheOK, IInv, Added
<1>8. NativeOK'
  BY <1>2, <1>4 DEF NativeOK, RegistryOK, IInv, Added
<1>9. StatusOK'
  BY <1>2, <1>3, <1>4 DEF StatusOK, RegistryOK, IInv, Added
<1>10. PendingOK'
  BY <1>2, <1>3 DEF PendingOK, IInv, Added, Wrapper
<1>11. QED
  BY <1>5, <1>6, <1>7, <1>8, <1>9, <1>10 DEF IInv

\* Layer::New and RasterBand::New, with what GDAL hands out to them.
LEMMA NewStep ==
  ASSUME IInv, pending = {}, NEW p \in Ptr, NEW o \in DsPtr,
         NEW result \in BOOLEAN, NEW kind \in Kind, kind = "result" => result,
         HandOut(p, o, kind), New(p, o, result), UNCHANGED Rest
  PROVE  IInv'
<1>1. /\ NativeType'
      /\ \A q \in DOMAIN native : q \in DOMAIN native' /\ native'[q] = native[q]
      /\ DOMAIN native' = DOMAIN native \cup {p} /\ native'[p].owner = o
      /\ p \notin DOMAIN native => native'[p].kind = kind
  <2>1. CASE p \in DOMAIN native
    BY <2>1 DEF HandOut, TypeOK, NativeType, IInv, Rest
  <2>2. CASE p \notin DOMAIN native
    <3> DEFINE n == [owner |-> o, kind |-> kind]
    <3>1. Added(native, native', p, n)
      BY <2>2, PutNew DEF HandOut
    <3>2. n \in [owner : DsPtr, kind : Kind]
      OBVIOUS
    <3>3. QED
      BY <2>2, <3>1, <3>2 DEF Added, TypeOK, NativeType, IInv, Rest
  <2>3. QED
    BY <2>1, <2>2
<1>2. CASE p \in DOMAIN cache
  <2>1. /\ held' = held \cup {cache[p]}
        /\ UNCHANGED <<uid, items, cache, released, wrapped, Rest>>
    BY <1>2 DEF New
  <2>2. cache[p] \in DOMAIN items /\ cache[p] \in DOMAIN wrapped /\ items[cache[p]].ptr = p
    BY <1>2 DEF CacheOK, RegistryOK, IInv
  <2>3. TypeOK'
    <3>1. RegistryType' /\ Old' = Old /\ uid' = uid
      BY <2>1 DEF TypeOK, RegistryType, IInv, Rest, Old
    <3>2. CacheType'
      BY <2>1, <3>1 DEF TypeOK, CacheType, IInv, Rest
    <3>3. WrapperType'
      BY <2>1, <2>2, <3>1 DEF TypeOK, WrapperType, IInv, Rest
    <3>4. QED
      BY <1>1, <3>1, <3>2, <3>3 DEF TypeOK, IInv
  <2>4. RegistryOK'
    BY <2>1 DEF RegistryOK, IInv, Rest
  <2>5. CacheOK'
    BY <2>1 DEF CacheOK, IInv, Rest
  <2>6. NativeOK'
    BY <1>1, <2>1, <2>2 DEF NativeOK, IInv, Rest
  <2>7. StatusOK'
    BY <2>1 DEF StatusOK, IInv, Rest
  <2>8. PendingOK'
    BY <2>1 DEF PendingOK, IInv, Rest
  <2>9. QED
    BY <2>3, <2>4, <2>5, <2>6, <2>7, <2>8 DEF IInv
<1>3. CASE p \notin DOMAIN cache
  <2> DEFINE r == dsCache[o]
             i == [ptr |-> p, parent |-> r, is_result_set |-> result]
  <2>1. /\ uid <= MaxUid /\ o \in DOMAIN dsCache /\ Wrap(p, r, o)
        /\ UNCHANGED <<datasets, dsCache, pending, nativeDs, detached>>
    BY <1>3 DEF New, Rest
  <2>2. r \in DOMAIN datasets /\ r \in DOMAIN wrapped /\ datasets[r] = o /\ r \in Old
    BY <2>1 DEF CacheOK, RegistryOK, TypeOK, RegistryType, IInv
  <2>3. /\ uid' \in 1..(MaxUid + 1) /\ Old' = Old \cup {uid}
        /\ uid \notin DOMAIN datasets \cup DOMAIN items \cup DOMAIN wrapped \cup DOMAIN released
        /\ held' = held \cup {uid}
        /\ Added(released, released', uid, {})
        /\ Added(wrapped, wrapped', uid, Wrapper(p, r, o))
        /\ \A u \in DOMAIN wrapped' : wrapped'[u] \in Wrappers(Old')
    BY <2>1, <2>2, WrapFacts
  <2>4. Added(items, items', uid, i) /\ Added(cache, cache', p, uid)
    BY <1>3, <2>3, PutNew DEF New
  <2>5. TypeOK'
    <3>1. i \in [ptr : Ptr, parent : Old', is_result_set : BOOLEAN]
      BY <2>2, <2>3
    <3>2. [ptr : Ptr, parent : Old, is_result_set : BOOLEAN]
            \subseteq [ptr : Ptr, parent : Old', is_result_set : BOOLEAN]
      BY <2>3
    <3>3. RegistryType'
      BY <2>1, <2>3, <2>4, <3>1, <3>2 DEF TypeOK, RegistryType, IInv, Added
    <3>4. CacheType'
      BY <2>1, <2>3, <2>4 DEF TypeOK, CacheType, IInv, Added
    <3>5. WrapperType'
      BY <2>1, <2>3 DEF TypeOK, WrapperType, Wrappers, IInv, Added
    <3>6. QED
      BY <1>1, <2>3, <3>3, <3>4, <3>5 DEF TypeOK
  <2>6. RegistryOK'
    BY <2>1, <2>2, <2>3, <2>4 DEF RegistryOK, IInv, Added, Wrapper
  <2>7. CacheOK'
    BY <1>3, <2>1, <2>3, <2>4 DEF CacheOK, IInv, Added
  <2>8. NativeOK'
    BY <1>1, <1>3, <2>1, <2>2, <2>3, <2>4 DEF NativeOK, CacheOK, RegistryOK, IInv, Added
  <2>9. StatusOK'
    BY <2>1, <2>3, <2>4 DEF StatusOK, RegistryOK, IInv, Added
  <2>10. PendingOK'
    BY <2>1, <2>2, <2>3 DEF PendingOK, IInv, Added, Wrapper
  <2>11. QED
    BY <2>5, <2>6, <2>7, <2>8, <2>9, <2>10 DEF IInv
<1>4. QED
  BY <1>2, <1>3

\* The dataset and band operations that end in New.
LEMMA CallsDsFacts ==
  ASSUME IInv, NEW d, CallsDs(d)
  PROVE  /\ pending = {} /\ d \in held /\ d \in DOMAIN datasets
         /\ wrapped[d].ptr = datasets[d] /\ datasets[d] \in DsPtr /\ wrapped[d].this_
<1>1. d \in DOMAIN datasets \cup DOMAIN items /\ wrapped[d].ptr \in DsPtr
      /\ pending = {} /\ d \in held /\ wrapped[d].this_
  BY DEF CallsDs, Calls, Alive, Registered
<1>2. d \notin DOMAIN items
  BY <1>1, PtrAssumption DEF RegistryOK, TypeOK, RegistryType, IInv
<1>3. QED
  BY <1>1, <1>2 DEF RegistryOK, TypeOK, RegistryType, IInv

LEMMA GetStep ==
  ASSUME IInv, NEW d \in held, NEW p \in Ptr, Get(d, p) \/ Create(d, p)
  PROVE  IInv'
<1>1. "plain" \in Kind /\ FALSE \in BOOLEAN /\ "plain" # "result"
  BY DEF Kind
<1>2. CallsDs(d) /\ HandOut(p, wrapped[d].ptr, "plain") /\ New(p, wrapped[d].ptr, FALSE)
      /\ UNCHANGED Rest
  BY DEF Get, Create, Allocate
<1>3. QED
  BY <1>1, <1>2, CallsDsFacts, NewStep

LEMMA CopyStep ==
  ASSUME IInv, NEW d \in held, NEW l \in held, NEW p \in LayerPtr, Copy(d, l, p)
  PROVE  IInv'
<1>1. "plain" \in Kind /\ FALSE \in BOOLEAN /\ "plain" # "result" /\ p \in Ptr
  BY DEF Kind, Ptr
<1>2. CallsDs(d) /\ HandOut(p, wrapped[d].ptr, "plain") /\ New(p, wrapped[d].ptr, FALSE)
      /\ UNCHANGED Rest
  BY DEF Copy, Allocate
<1>3. QED
  BY <1>1, <1>2, CallsDsFacts, NewStep

LEMMA ExecuteSQLStep ==
  ASSUME IInv, NEW d \in held, NEW p \in LayerPtr, ExecuteSQL(d, p)
  PROVE  IInv'
<1>1. "result" \in Kind /\ TRUE \in BOOLEAN /\ p \in Ptr
  BY DEF Kind, Ptr
<1>2. CallsDs(d) /\ HandOut(p, wrapped[d].ptr, "result") /\ New(p, wrapped[d].ptr, TRUE)
      /\ UNCHANGED Rest
  BY DEF ExecuteSQL, Allocate
<1>3. QED
  BY <1>1, <1>2, CallsDsFacts, NewStep

LEMMA GetSubBandStep ==
  ASSUME IInv, NEW b \in held, NEW p \in BandPtr, GetSubBand(b, p)
  PROVE  IInv'
<1>1. "sub" \in Kind /\ FALSE \in BOOLEAN /\ "sub" # "result" /\ p \in Ptr
  BY DEF Kind, Ptr
<1>2. /\ pending = {} /\ HandOut(p, wrapped[b].parent_ds, "sub")
      /\ New(p, wrapped[b].parent_ds, FALSE) /\ UNCHANGED Rest
  BY DEF GetSubBand, CallsBand, Calls
<1>3. wrapped[b].parent_ds \in DsPtr
  BY DEF TypeOK, WrapperType, IInv
<1>4. QED
  BY <1>1, <1>2, <1>3, NewStep

-------------------------------------------------------------------------------
\* GDAL frees what is no result set: the freed addresses that some wrapper
\* stands for become detached.
LEMMA FreeStep ==
  ASSUME IInv, NEW S \in SUBSET DOMAIN native, \A p \in S : native[p].kind # "result", Free(S)
  PROVE  IInv'
<1>1. /\ DOMAIN native' = DOMAIN native \ S
      /\ \A p \in DOMAIN native' : native'[p] = native[p]
      /\ detached' = detached \cup (S \cap DOMAIN cache)
      /\ UNCHANGED <<uid, datasets, items, dsCache, cache, released, wrapped,
                     held, pending, nativeDs>>
  BY DEF Free, Without, Restrict
<1>2. TypeOK'
  <2>1. RegistryType' /\ CacheType' /\ WrapperType' /\ uid' = uid
    BY <1>1 DEF TypeOK, RegistryType, CacheType, WrapperType, IInv, Old
  <2>2. NativeType'
    BY <1>1 DEF TypeOK, NativeType, IInv
  <2>3. QED
    BY <2>1, <2>2 DEF TypeOK, IInv
<1>3. NativeOK'
  BY <1>1 DEF NativeOK, CacheOK, IInv
<1>4. RegistryOK' /\ CacheOK' /\ StatusOK' /\ PendingOK'
  BY <1>1 DEF RegistryOK, CacheOK, StatusOK, PendingOK, IInv
<1>5. QED
  BY <1>2, <1>3, <1>4 DEF IInv

LEMMA RemoveStep ==
  ASSUME IInv, NEW d \in held, NEW p \in LayerPtr, Remove(d, p)
  PROVE  IInv'
<1>1. {p} \in SUBSET DOMAIN native /\ native[p].kind # "result" /\ Free({p})
  BY DEF Remove
<1>2. QED
  BY <1>1, FreeStep

LEMMA DropSubBandsStep ==
  ASSUME IInv, NEW d \in held, NEW S \in SUBSET BandPtr, DropSubBands(d, S)
  PROVE  IInv'
<1>1. S \in SUBSET DOMAIN native /\ (\A p \in S : native[p].kind # "result") /\ Free(S)
  BY DEF DropSubBands
<1>2. QED
  BY <1>1, FreeStep

-------------------------------------------------------------------------------
\* g is f without the keys in S.
Dropped(f, g, S) ==
  /\ DOMAIN g = DOMAIN f \ S
  /\ \A x \in DOMAIN g : g[x] = f[x]

\* PtrManager::dispose(u) takes u, and the children of u, out of every map at
\* once, and leaves the entries of every other wrapper alone.
LEMMA DisposeFacts ==
  ASSUME IInv, NEW u \in DOMAIN wrapped, Dispose(u)
  PROVE  /\ Dropped(datasets, datasets', {u})
         /\ Dropped(items, items', Gone(u))
         /\ Dropped(cache, cache', {p \in DOMAIN cache : cache[p] \in Gone(u)})
         /\ Dropped(dsCache, dsCache', {p \in DOMAIN dsCache : dsCache[p] = u})
         /\ nativeDs' = DOMAIN dsCache'
         /\ DOMAIN native' \subseteq DOMAIN native
         /\ \A p \in DOMAIN native' : native'[p] = native[p]
         /\ \A v \in DOMAIN items' : items[v].ptr \notin detached => items[v].ptr \in DOMAIN native'
         /\ \A p \in DOMAIN native' \ detached : native[p].kind = "result" =>
              p \in DOMAIN cache /\ cache[p] \notin Gone(u)
         /\ \A v \in DOMAIN released' :
              v \in DOMAIN released /\ released'[v] \in SUBSET Flag
         /\ \A v \in DOMAIN wrapped : v \in DOMAIN released' /\ "weak" \notin released'[v]
         /\ \A v \in DOMAIN datasets' \cup DOMAIN items' : "cache" \notin released'[v]
         /\ released' = Release(Gone(u) \cup ({u} \cap DOMAIN datasets), "cache")
<1> DEFINE closing == IF u \in DOMAIN datasets THEN {datasets[u]} ELSE {}
           gone    == Gone(u)
           ptrs    == Erased(gone)
           owned   == {p \in DOMAIN native : native[p].owner \in closing /\ native[p].kind # "result"}
           entries == {cache[p] : p \in ptrs \cap DOMAIN cache}
                        \cup {dsCache[p] : p \in closing \cap DOMAIN dsCache}
<1>1. /\ datasets' = Without(datasets, {u}) /\ items' = Without(items, gone)
      /\ cache' = Without(cache, ptrs) /\ dsCache' = Without(dsCache, closing)
      /\ released' = Release(entries, "cache") /\ nativeDs' = nativeDs \ closing
      /\ native' = Without(native, Results(gone) \cup owned)
  BY DEF Dispose
<1>2. gone = {i \in DOMAIN items : i = u \/ items[i].parent = u}
  BY DEF Gone
<1>3. \A p \in DOMAIN cache : p \in ptrs <=> cache[p] \in gone
  BY <1>2 DEF Erased, CacheOK, IInv
<1>4. \A p \in DOMAIN dsCache : p \in closing <=> dsCache[p] = u
  BY DEF CacheOK, IInv
<1>5. entries = gone \cup ({u} \cap DOMAIN datasets)
  <2>1. \A v \in gone : items[v].ptr \in ptrs \cap DOMAIN cache /\ cache[items[v].ptr] = v
    BY <1>2 DEF Erased, CacheOK, IInv
  <2>2. \A p \in closing : p \in DOMAIN dsCache /\ dsCache[p] = u /\ u \in DOMAIN datasets
    BY DEF CacheOK, IInv
  <2>3. u \in DOMAIN datasets => datasets[u] \in closing
    OBVIOUS
  <2>4. QED
    BY <1>3, <2>1, <2>2, <2>3
<1> HIDE DEF closing, ptrs, entries
<1>6. Dropped(datasets, datasets', {u}) /\ Dropped(items, items', gone)
  BY <1>1 DEF Without, Restrict, Dropped
<1>7. Dropped(cache, cache', {p \in DOMAIN cache : cache[p] \in gone})
  <2>1. Dropped(cache, cache', ptrs)
    BY <1>1 DEF Without, Restrict, Dropped
  <2>2. QED
    BY <1>3, <2>1 DEF Dropped
<1>8. /\ Dropped(dsCache, dsCache', {p \in DOMAIN dsCache : dsCache[p] = u})
      /\ nativeDs' = DOMAIN dsCache'
  <2>1. Dropped(dsCache, dsCache', closing)
    BY <1>1 DEF Without, Restrict, Dropped
  <2>2. nativeDs' = DOMAIN dsCache'
    BY <1>1, <2>1 DEF Dropped, CacheOK, IInv
  <2>3. QED
    BY <1>4, <2>1, <2>2 DEF Dropped
<1>9. /\ DOMAIN native' = DOMAIN native \ (Results(gone) \cup owned)
      /\ \A p \in DOMAIN native' : native'[p] = native[p]
  BY <1>1 DEF Without, Restrict
<1>10. ASSUME NEW v \in DOMAIN items', items[v].ptr \notin detached
       PROVE  items[v].ptr \in DOMAIN native'
  <2>1. v \in DOMAIN items /\ v # u /\ items[v].parent # u
    BY <1>2, <1>6 DEF Dropped
  <2>2. /\ items[v].ptr \in DOMAIN native
        /\ native[items[v].ptr].owner = datasets[items[v].parent]
    BY <1>10, <2>1 DEF NativeOK, IInv
  <2>3. items[v].ptr \notin Results(gone)
    BY <1>2, <2>1 DEF Results, CacheOK, IInv
  <2>4. datasets[items[v].parent] \notin closing
    BY <2>1 DEF closing, CacheOK, RegistryOK, IInv
  <2>5. QED
    BY <1>9, <2>2, <2>3, <2>4
<1>11. ASSUME NEW p \in DOMAIN native' \ detached, native[p].kind = "result"
       PROVE  p \in DOMAIN cache /\ cache[p] \notin gone
  <2>1. p \in DOMAIN native /\ p \notin Results(gone)
    BY <1>9
  <2>2. p \in DOMAIN cache /\ items[cache[p]].is_result_set /\ items[cache[p]].ptr = p
    BY <1>11, <2>1 DEF NativeOK, CacheOK, IInv
  <2>3. QED
    BY <2>1, <2>2 DEF Results
<1>12. /\ \A v \in DOMAIN released' : v \in DOMAIN released /\ released'[v] \in SUBSET Flag
       /\ \A v \in DOMAIN wrapped : v \in DOMAIN released' /\ "weak" \notin released'[v]
  BY <1>1, ReleaseFacts DEF StatusOK, TypeOK, CacheType, Flag, IInv
<1>13. ASSUME NEW v \in DOMAIN datasets' \cup DOMAIN items'
       PROVE  "cache" \notin released'[v]
  <2>1. v \in DOMAIN datasets \cup DOMAIN items /\ v # u /\ v \notin gone
    BY <1>2, <1>6 DEF Dropped, RegistryOK, IInv
  <2>2. v \in DOMAIN released' /\ "cache" \notin released[v]
    BY <1>12, <2>1 DEF StatusOK, RegistryOK, IInv
  <2>3. v \notin entries
    BY <1>5, <2>1
  <2>4. QED
    BY <1>1, <2>2, <2>3, ReleaseFacts
<1>14. QED
  BY <1>1, <1>5, <1>6, <1>7, <1>8, <1>9, <1>10, <1>11, <1>12, <1>13

\* What is left after PtrManager::dispose agrees again, whether the wrapper is
\* kept with this_ cleared (close) or goes as well (its destructor).
LEMMA DisposeStep ==
  ASSUME IInv, NEW u \in DOMAIN wrapped, Dispose(u), UNCHANGED <<uid, detached>>,
         DOMAIN wrapped' \subseteq DOMAIN wrapped,
         \A v \in DOMAIN wrapped \ {u} : v \in DOMAIN wrapped' /\ wrapped'[v] = wrapped[v],
         \A v \in DOMAIN wrapped' : wrapped'[v] \in Wrappers(Old),
         held' \subseteq DOMAIN wrapped', pending' \subseteq DOMAIN wrapped'
  PROVE  TypeOK' /\ RegistryOK' /\ CacheOK' /\ NativeOK' /\ StatusOK'
<1> DEFINE gone == Gone(u)
<1>1. /\ Dropped(datasets, datasets', {u})
      /\ Dropped(items, items', gone)
      /\ Dropped(cache, cache', {p \in DOMAIN cache : cache[p] \in gone})
      /\ Dropped(dsCache, dsCache', {p \in DOMAIN dsCache : dsCache[p] = u})
      /\ nativeDs' = DOMAIN dsCache'
  BY DisposeFacts
<1>2. /\ DOMAIN native' \subseteq DOMAIN native
      /\ \A p \in DOMAIN native' : native'[p] = native[p]
      /\ \A v \in DOMAIN items' : items[v].ptr \notin detached => items[v].ptr \in DOMAIN native'
      /\ \A p \in DOMAIN native' \ detached : native[p].kind = "result" =>
           p \in DOMAIN cache /\ cache[p] \notin gone
  BY DisposeFacts
<1>3. /\ \A v \in DOMAIN released' : v \in DOMAIN released /\ released'[v] \in SUBSET Flag
      /\ \A v \in DOMAIN wrapped : v \in DOMAIN released' /\ "weak" \notin released'[v]
      /\ \A v \in DOMAIN datasets' \cup DOMAIN items' : "cache" \notin released'[v]
  BY DisposeFacts
<1>4. gone = {i \in DOMAIN items : i = u \/ items[i].parent = u}
  BY DEF Gone
<1>5. TypeOK'
  <2>1. RegistryType' /\ Old' = Old /\ uid' = uid
    BY <1>1 DEF TypeOK, RegistryType, IInv, Dropped, Old
  <2>2. CacheType'
    BY <1>1, <1>3, <2>1 DEF TypeOK, CacheType, IInv, Dropped
  <2>3. WrapperType'
    BY <2>1 DEF TypeOK, WrapperType, Wrappers, IInv
  <2>4. NativeType'
    BY <1>1, <1>2, <2>2 DEF TypeOK, NativeType, CacheType, IInv
  <2>5. QED
    BY <2>1, <2>2, <2>3, <2>4 DEF TypeOK, IInv
<1>6. RegistryOK'
  BY <1>1, <1>4 DEF RegistryOK, IInv, Dropped
<1>7. CacheOK'
  BY <1>1, <1>4 DEF CacheOK, RegistryOK, IInv, Dropped
<1>8. NativeOK'
  BY <1>1, <1>2, <1>4 DEF NativeOK, CacheOK, RegistryOK, IInv, Dropped
<1>9. StatusOK'
  BY <1>3 DEF StatusOK
<1>10. QED
  BY <1>5, <1>6, <1>7, <1>8, <1>9

\* Dataset::close.
LEMMA CloseStep ==
  ASSUME IInv, NEW d \in held, Close(d)
  PROVE  IInv'
<1>1. d \in DOMAIN wrapped /\ Dispose(d) /\ UNCHANGED <<uid, held, pending, detached>>
      /\ wrapped' = [wrapped EXCEPT ![d].this_ = FALSE]
  BY DEF Close, TypeOK, WrapperType, IInv
<1>2. /\ DOMAIN wrapped' = DOMAIN wrapped
      /\ \A v \in DOMAIN wrapped \ {d} : wrapped'[v] = wrapped[v]
      /\ \A v \in DOMAIN wrapped' : wrapped'[v].ds_ = wrapped[v].ds_
      /\ \A v \in DOMAIN wrapped' : wrapped'[v] \in Wrappers(Old)
  BY <1>1 DEF TypeOK, WrapperType, Wrappers, IInv
<1>3. TypeOK' /\ RegistryOK' /\ CacheOK' /\ NativeOK' /\ StatusOK'
  BY <1>1, <1>2, DisposeStep DEF TypeOK, WrapperType, IInv
<1>4. PendingOK'
  BY <1>1, <1>2 DEF PendingOK, IInv
<1>5. QED
  BY <1>3, <1>4 DEF IInv

\* The destructors, in whatever order the collector runs them.
LEMMA FinalizeStep ==
  ASSUME IInv, NEW u \in pending, Finalize(u)
  PROVE  IInv'
<1>1. /\ u \in DOMAIN wrapped /\ u \notin held
      /\ pending' = pending \ {u} /\ UNCHANGED <<uid, held, detached>>
      /\ wrapped' = Without(wrapped, {u})
  BY DEF Finalize, PendingOK, TypeOK, WrapperType, IInv
<1>2. /\ DOMAIN wrapped' = DOMAIN wrapped \ {u}
      /\ \A v \in DOMAIN wrapped' : wrapped'[v] = wrapped[v]
  BY <1>1 DEF Without, Restrict
<1>3. /\ \A v \in DOMAIN wrapped' : wrapped'[v] \in Wrappers(Old)
      /\ held' \subseteq DOMAIN wrapped' /\ pending' \subseteq DOMAIN wrapped'
  BY <1>1, <1>2 DEF TypeOK, WrapperType, Wrappers, IInv
<1>4. TypeOK' /\ RegistryOK' /\ CacheOK' /\ NativeOK' /\ StatusOK'
  <2>1. CASE wrapped[u].this_
    <3>1. Dispose(u)
      BY <2>1 DEF Finalize
    <3>2. QED
      BY <1>1, <1>2, <1>3, <3>1, DisposeStep
  <2>2. CASE ~wrapped[u].this_
    <3>1. UNCHANGED <<datasets, items, cache, dsCache, released, nativeDs, native>>
      BY <2>2 DEF Finalize
    <3>2. u \notin DOMAIN datasets \cup DOMAIN items
      BY <2>2 DEF RegistryOK, IInv
    <3>3. TypeOK'
      <4>1. RegistryType' /\ CacheType' /\ NativeType' /\ Old' = Old
        BY <1>1, <3>1 DEF TypeOK, RegistryType, CacheType, NativeType, IInv, Old
      <4>2. WrapperType'
        BY <1>2, <1>3, <4>1 DEF WrapperType, Wrappers, IInv, TypeOK
      <4>3. QED
        BY <1>1, <4>1, <4>2 DEF TypeOK, IInv
    <3>4. RegistryOK'
      BY <1>2, <3>1, <3>2 DEF RegistryOK, IInv
    <3>5. CacheOK' /\ NativeOK' /\ StatusOK'
      BY <1>1, <1>2, <3>1 DEF CacheOK, NativeOK, StatusOK, IInv
    <3>6. QED
      BY <3>3, <3>4, <3>5
  <2>3. QED
    BY <2>1, <2>2
<1>5. PendingOK'
  BY <1>1, <1>2 DEF PendingOK, IInv
<1>6. QED
  BY <1>4, <1>5 DEF IInv

-------------------------------------------------------------------------------
\* The steps that move references only, and the start of a collection.
LEMMA ReferenceStep ==
  ASSUME IInv, NEW u, Drop(u) \/ DsGetter(u) \/ Collect(u)
  PROVE  IInv'
<1>1. UNCHANGED <<uid, datasets, items, dsCache, cache, released, wrapped,
                  nativeDs, native, detached>>
  BY DEF Drop, DsGetter, Collect
<1>2. /\ held' \subseteq DOMAIN wrapped /\ pending' \subseteq DOMAIN wrapped
      /\ pending' \cap held' = {}
      /\ \A v \in DOMAIN wrapped \ pending' : wrapped[v].ds_ \in DOMAIN wrapped \ pending'
  <2>1. CASE Drop(u)
    BY <2>1 DEF Drop, Calls, PendingOK, TypeOK, WrapperType, IInv
  <2>2. CASE DsGetter(u)
    BY <2>2 DEF DsGetter, Calls, PendingOK, TypeOK, WrapperType, IInv
  <2>3. CASE Collect(u)
    BY <2>3 DEF Collect, Keeps, PendingOK, TypeOK, WrapperType, IInv
  <2>4. QED
    BY <2>1, <2>2, <2>3
<1>3. TypeOK'
  <2>1. RegistryType' /\ CacheType' /\ NativeType' /\ uid' = uid /\ Old' = Old
    BY <1>1 DEF TypeOK, RegistryType, CacheType, NativeType, IInv, Old
  <2>2. WrapperType'
    BY <1>1, <1>2, <2>1 DEF TypeOK, WrapperType, IInv
  <2>3. QED
    BY <2>1, <2>2 DEF TypeOK, IInv
<1>4. RegistryOK' /\ CacheOK' /\ NativeOK' /\ StatusOK'
  BY <1>1 DEF RegistryOK, CacheOK, NativeOK, StatusOK, IInv
<1>5. PendingOK'
  BY <1>1, <1>2 DEF PendingOK
<1>6. QED
  BY <1>3, <1>4, <1>5 DEF IInv

\* ObjectCache::cacheWeakCallback only meets the items of wrappers that are gone.
LEMMA WeakCallbackStep ==
  ASSUME IInv, NEW u, WeakCallback(u)
  PROVE  IInv'
<1>1. /\ u \notin DOMAIN wrapped /\ released' = Release({u}, "weak")
      /\ UNCHANGED <<uid, datasets, items, dsCache, cache, wrapped, held,
                     pending, nativeDs, native, detached>>
  BY DEF WeakCallback
<1>2. /\ \A v \in DOMAIN released' : v \in DOMAIN released /\ released'[v] \in SUBSET Flag
      /\ \A v \in DOMAIN wrapped : v \in DOMAIN released' /\ released'[v] = released[v]
  <2>1. \A v \in DOMAIN wrapped : v \in DOMAIN released /\ released[v] # Flag /\ v # u
    BY <1>1 DEF StatusOK, Flag, IInv
  <2>2. \A v \in DOMAIN released : released[v] \cup {"weak"} \in SUBSET Flag
                                 /\ released[v] \in SUBSET Flag
    BY DEF TypeOK, CacheType, Flag, IInv
  <2>3. /\ DOMAIN released' \subseteq DOMAIN released
        /\ \A v \in DOMAIN released' :
             released'[v] = IF v = u THEN released[v] \cup {"weak"} ELSE released[v]
        /\ \A v \in DOMAIN released : v # u /\ released[v] # Flag => v \in DOMAIN released'
    BY <1>1 DEF Release, Restrict
  <2>4. QED
    BY <2>1, <2>2, <2>3
<1>3. TypeOK'
  <2>1. RegistryType' /\ WrapperType' /\ NativeType' /\ uid' = uid /\ Old' = Old
    BY <1>1 DEF TypeOK, RegistryType, WrapperType, NativeType, IInv, Old
  <2>2. CacheType'
    BY <1>1, <1>2, <2>1 DEF TypeOK, CacheType, IInv
  <2>3. QED
    BY <2>1, <2>2 DEF TypeOK, IInv
<1>4. RegistryOK' /\ CacheOK' /\ NativeOK' /\ PendingOK'
  BY <1>1 DEF RegistryOK, CacheOK, NativeOK, PendingOK, IInv
<1>5. StatusOK'
  BY <1>1, <1>2 DEF StatusOK, RegistryOK, IInv
<1>6. QED
  BY <1>3, <1>4, <1>5 DEF IInv

\* Every step keeps the invariant.
LEMMA NextStep == IInv /\ [Next]_vars => IInv'
<1> SUFFICES ASSUME IInv, [Next]_vars PROVE IInv'
  OBVIOUS
<1>1. CASE Operation
  <2>1. ASSUME NEW p \in DsPtr, OpenDataset(p) PROVE IInv'
    BY <2>1, OpenDatasetStep
  <2>2. ASSUME NEW d \in held, NEW p \in Ptr, Get(d, p) \/ Create(d, p) PROVE IInv'
    BY <2>2, GetStep
  <2>3. ASSUME NEW d \in held, NEW l \in held, NEW p \in LayerPtr, Copy(d, l, p) PROVE IInv'
    BY <2>3, CopyStep
  <2>4. ASSUME NEW d \in held, NEW p \in LayerPtr, ExecuteSQL(d, p) \/ Remove(d, p) PROVE IInv'
    BY <2>4, ExecuteSQLStep, RemoveStep
  <2>5. ASSUME NEW b \in held, NEW p \in BandPtr, GetSubBand(b, p) PROVE IInv'
    BY <2>5, GetSubBandStep
  <2>6. ASSUME NEW d \in held, NEW S \in SUBSET BandPtr, DropSubBands(d, S) PROVE IInv'
    BY <2>6, DropSubBandsStep
  <2>7. ASSUME NEW d \in held, Close(d) PROVE IInv'
    BY <2>7, CloseStep
  <2>8. ASSUME NEW u \in held, Drop(u) \/ DsGetter(u) PROVE IInv'
    BY <2>8, ReferenceStep
  <2>9. QED
    BY <1>1, <2>1, <2>2, <2>3, <2>4, <2>5, <2>6, <2>7, <2>8 DEF Operation
<1>2. CASE Collector
  <2>1. ASSUME NEW S \in SUBSET DOMAIN wrapped, Collect(S) PROVE IInv'
    BY <2>1, ReferenceStep
  <2>2. ASSUME NEW u \in pending, Finalize(u) PROVE IInv'
    BY <2>2, FinalizeStep
  <2>3. ASSUME NEW u \in DOMAIN released, WeakCallback(u) PROVE IInv'
    BY <2>3, WeakCallbackStep
  <2>4. QED
    BY <1>2, <2>1, <2>2, <2>3 DEF Collector
<1>3. CASE UNCHANGED vars
  BY <1>3 DEF vars, IInv, TypeOK, RegistryType, CacheType, WrapperType, NativeType, Old,
     RegistryOK, CacheOK, NativeOK, StatusOK, PendingOK
<1>4. QED
  BY <1>1, <1>2, <1>3 DEF Next

-------------------------------------------------------------------------------
\* The registries, the caches, the C++ objects and GDAL agree in every state,
\* whatever the program does and in whatever order the collector runs.
THEOREM Invariance == Spec => []IInv
BY InitIInv, NextStep, PTL DEF Spec

\* The maps keep their shape, and no uid runs ahead of PtrManager's counter.
THEOREM TypeCorrect == Spec => []TypeOK
<1>1. IInv => TypeOK
  BY DEF IInv
<1>2. QED
  BY <1>1, Invariance, PTL

\* ObjectCache: one wrapper for each native object, found under its address.
THEOREM OneWrapperHolds == Spec => []OneWrapper
<1>1. IInv => OneWrapper
  <2> SUFFICES ASSUME IInv PROVE OneWrapper
    OBVIOUS
  <2>1. \A p \in DOMAIN cache : Alive(cache[p]) /\ wrapped[cache[p]].ptr = p
    BY DEF IInv, CacheOK, RegistryOK, Alive, Registered
  <2>2. \A p \in DOMAIN dsCache : Alive(dsCache[p]) /\ wrapped[dsCache[p]].ptr = p
    BY DEF IInv, CacheOK, RegistryOK, Alive, Registered
  <2>3. ASSUME NEW u \in DOMAIN wrapped, Alive(u)
        PROVE  LET p == wrapped[u].ptr IN
               IF p \in DsPtr THEN p \in DOMAIN dsCache /\ dsCache[p] = u
                              ELSE p \in DOMAIN cache /\ cache[p] = u
    <3>1. CASE u \in DOMAIN datasets
      BY <3>1 DEF IInv, CacheOK, RegistryOK, TypeOK, RegistryType
    <3>2. CASE u \in DOMAIN items
      <4>1. wrapped[u].ptr = items[u].ptr /\ items[u].ptr \in Ptr
        BY <3>2 DEF IInv, RegistryOK, TypeOK, RegistryType
      <4>2. wrapped[u].ptr \notin DsPtr
        BY <4>1, PtrAssumption
      <4>3. QED
        BY <3>2, <4>1, <4>2 DEF IInv, CacheOK
    <3>3. QED
      BY <2>3, <3>1, <3>2 DEF Alive, Registered
  <2>4. QED
    BY <2>1, <2>2, <2>3 DEF OneWrapper
<1>2. QED
  BY <1>1, Invariance, PTL

\* Layer::New and RasterBand::New always find the parent dataset in its cache.
THEOREM ParentCachedHolds == Spec => []ParentCached
<1>1. IInv => ParentCached
  BY DEF IInv, ParentCached, RegistryOK, CacheOK, Alive, Registered
<1>2. QED
  BY <1>1, Invariance, PTL

\* A wrapper alive has its native object, unless GDAL freed it unheard.
THEOREM NativeBackedHolds == Spec => []NativeBacked
<1>1. IInv => NativeBacked
  <2> SUFFICES ASSUME IInv, NEW u \in DOMAIN wrapped, Alive(u),
                      wrapped[u].ptr \in Ptr \ detached
               PROVE  /\ wrapped[u].ptr \in DOMAIN native
                      /\ native[wrapped[u].ptr].owner = wrapped[u].parent_ds
    BY DEF NativeBacked
  <2>1. u \in DOMAIN items
    BY PtrAssumption DEF IInv, RegistryOK, TypeOK, RegistryType, Alive, Registered
  <2>2. QED
    BY <2>1 DEF IInv, RegistryOK, NativeOK
<1>2. QED
  BY <1>1, Invariance, PTL

\* obj_cache.hpp:44, delimited: at an address that GDAL never freed under a living
\* wrapper, the cache answers the wrapper of the very object that is there.  So
\* CacheWrapsNative is broken by layers.remove and by the removal of sub-bands alone.
THEOREM StaleOnlyDetached ==
  Spec => [](\A p \in (DOMAIN cache \cap DOMAIN native) \ detached :
               native[p].owner = wrapped[cache[p]].parent_ds)
<1>1. ASSUME IInv, NEW p \in (DOMAIN cache \cap DOMAIN native) \ detached
      PROVE  native[p].owner = wrapped[cache[p]].parent_ds
  <2>1. cache[p] \in DOMAIN items /\ items[cache[p]].ptr = p
    BY <1>1 DEF IInv, CacheOK
  <2>2. native[p].owner = datasets[items[cache[p]].parent]
    BY <1>1, <2>1 DEF IInv, NativeOK
  <2>3. QED
    BY <1>1, <2>1, <2>2 DEF IInv, RegistryOK
<1>2. IInv => \A p \in (DOMAIN cache \cap DOMAIN native) \ detached :
                native[p].owner = wrapped[cache[p]].parent_ds
  BY <1>1
<1>3. QED
  BY <1>2, Invariance, PTL

\* PtrManager::dispose gives every result set back before its dataset closes.
THEOREM ResultSetsReleasedHolds == Spec => []ResultSetsReleased
<1>1. IInv => ResultSetsReleased
  <2> SUFFICES ASSUME IInv, NEW p \in DOMAIN native \ detached, native[p].kind = "result"
               PROVE  native[p].owner \in nativeDs
    BY DEF ResultSetsReleased
  <2>1. p \in DOMAIN cache /\ cache[p] \in DOMAIN items /\ items[cache[p]].ptr = p
    BY DEF IInv, NativeOK, CacheOK
  <2>2. native[p].owner = datasets[items[cache[p]].parent]
        /\ items[cache[p]].parent \in DOMAIN datasets
    BY <2>1 DEF IInv, NativeOK, RegistryOK
  <2>3. QED
    BY <2>2 DEF IInv, CacheOK
<1>2. QED
  BY <1>1, Invariance, PTL

\* ObjectCacheItem is never freed under a cache or under V8.
THEOREM ItemsOutliveUsersHolds == Spec => []ItemsOutliveUsers
<1>1. IInv => ItemsOutliveUsers
  BY DEF IInv, ItemsOutliveUsers, StatusOK, CacheOK, RegistryOK
<1>2. QED
  BY <1>1, Invariance, PTL

-------------------------------------------------------------------------------
(* The promise of HandleLifetime, kept step by step.  A wrapper is alive just  *)
(* when it is registered; a step either leaves all of that as it is, or is one *)
(* action of HandleLifetime.                                                   *)

Live == DOMAIN datasets \cup DOMAIN items

\* What a step may be to HandleLifetime.
Kept == [Handles!Next]_(Handles!vars)

Unseen == UNCHANGED <<uid, datasets, items, wrapped, held>>

LEMMA UnseenKept == Unseen => Kept
BY DEF Unseen, Kept, Handles!vars

LEMMA LiveFacts ==
  ASSUME IInv
  PROVE  /\ Live \subseteq DOMAIN wrapped /\ DOMAIN wrapped \subseteq Uid /\ held \subseteq DOMAIN wrapped
         /\ \A u \in DOMAIN datasets : wrapped[u].ds_ = u
         /\ \A u \in DOMAIN items : wrapped[u].ds_ = items[u].parent
                                   /\ items[u].parent \in DOMAIN datasets
         /\ \A u : Alive(u) <=> u \in Live
<1>1. Old \subseteq Uid
  BY UidAssumption DEF IInv, TypeOK, Old, Uid
<1>2. DOMAIN wrapped \subseteq Uid /\ held \subseteq DOMAIN wrapped
  BY <1>1 DEF IInv, TypeOK, WrapperType
<1>3. QED
  BY <1>2 DEF IInv, RegistryOK, Live, Alive, Registered

\* A new wrapper is a new handle.
LEMMA CreateKept ==
  ASSUME IInv, uid <= MaxUid, NEW p \in DsPtr \cup Ptr, NEW r \in Live \cup {uid}, NEW o \in DsPtr,
         Wrap(p, r, o), Live' = Live \cup {uid}
  PROVE  Kept
<1>1. Live \subseteq Old
  BY DEF Live, IInv, TypeOK, RegistryType
<1>2. /\ Old' = Old \cup {uid} /\ uid \notin Old /\ held' = held \cup {uid}
      /\ Added(wrapped, wrapped', uid, Wrapper(p, r, o))
  BY <1>1, WrapFacts
<1>3. PICK h \in Uid : h = uid
  BY UidAssumption DEF IInv, TypeOK, Uid
<1>4. [u \in DOMAIN wrapped' |-> wrapped'[u].ds_]
        = [k \in DOMAIN wrapped \cup {h} |-> IF k = h THEN r ELSE wrapped[k].ds_]
  <2>1. /\ DOMAIN wrapped' = DOMAIN wrapped \cup {h} /\ wrapped'[h].ds_ = r
        /\ \A u \in DOMAIN wrapped : wrapped'[u].ds_ = wrapped[u].ds_
    BY <1>2, <1>3 DEF Added, Wrapper
  <2>2. h \notin DOMAIN wrapped
    BY <1>2, <1>3 DEF IInv, TypeOK, WrapperType
  <2>3. QED
    BY <2>1, <2>2
<1>5. r \in Uid
  BY <1>3, LiveFacts
<1>6. Handles!Create(h, r)
  BY <1>2, <1>3, <1>4 DEF Handles!Create, Live, Old
<1>7. QED
  BY <1>3, <1>5, <1>6 DEF Kept, Handles!Next

LEMMA OpenDatasetKept ==
  ASSUME IInv, NEW p \in DsPtr, OpenDataset(p)
  PROVE  Kept /\ Live \subseteq Live'
<1>1. p \notin DOMAIN dsCache
  BY DEF CacheOK, IInv, OpenDataset
<1>2. /\ uid <= MaxUid /\ Wrap(p, uid, p) /\ datasets' = Put(datasets, uid, p)
      /\ items' = items
  BY <1>1 DEF OpenDataset
<1>3. Live' = Live \cup {uid}
  BY <1>2 DEF Live, Put
<1>4. QED
  BY <1>2, <1>3, CreateKept

\* get, create, copy, executeSQL and the getters of bands.
LEMMA NewKept ==
  ASSUME IInv, NEW p \in Ptr, NEW o \in DsPtr, NEW result, New(p, o, result), UNCHANGED Rest
  PROVE  Kept /\ Live \subseteq Live'
<1>1. CASE p \in DOMAIN cache
  <2>1. PICK h : h = cache[p] /\ h \in Live /\ h \in Uid
    BY <1>1, LiveFacts DEF IInv, CacheOK, Live
  <2>2. held' = held \cup {h} /\ UNCHANGED <<uid, datasets, items, wrapped>>
    BY <1>1, <2>1 DEF New, Rest
  <2>3. Handles!Hold(h)
    BY <2>1, <2>2 DEF Handles!Hold, Live
  <2>4. QED
    BY <2>1, <2>2, <2>3 DEF Kept, Handles!Next, Live
<1>2. CASE p \notin DOMAIN cache
  <2>1. PICK r : r = dsCache[o]
    OBVIOUS
  <2>2. /\ uid <= MaxUid /\ o \in DOMAIN dsCache /\ Wrap(p, r, o) /\ datasets' = datasets
        /\ DOMAIN items' = DOMAIN items \cup {uid}
    BY <1>2, <2>1 DEF New, Put, Rest
  <2>3. r \in Live
    BY <2>1, <2>2 DEF IInv, CacheOK, Live
  <2>4. Live' = Live \cup {uid}
    BY <2>2 DEF Live
  <2>5. QED
    BY <2>2, <2>3, <2>4, CreateKept
<1>3. QED
  BY <1>1, <1>2

\* PtrManager::dispose kills a wrapper and those under it.
LEMMA DisposeKills ==
  ASSUME IInv, NEW u \in DOMAIN wrapped, Dispose(u)
  PROVE  Live' = Live \ ({h \in Live : wrapped[h].ds_ = u} \cup {u})
<1>1. DOMAIN datasets' = DOMAIN datasets \ {u} /\ DOMAIN items' = DOMAIN items \ Gone(u)
  BY DEF Dispose, Without, Restrict
<1>2. \A i \in DOMAIN items : i \in Gone(u) <=> i = u \/ wrapped[i].ds_ = u
  BY LiveFacts DEF Gone
<1>3. \A d \in DOMAIN datasets : wrapped[d].ds_ = d
  BY LiveFacts
<1>4. DOMAIN datasets \cap DOMAIN items = {}
  BY DEF IInv, RegistryOK
<1>5. \A h \in Live' : h \in Live /\ h # u /\ wrapped[h].ds_ # u
  BY <1>1, <1>2, <1>3 DEF Live, Gone
<1>6. \A h \in Live : h # u /\ wrapped[h].ds_ # u => h \in Live'
  BY <1>1, <1>2 DEF Live
<1>7. QED
  BY <1>5, <1>6

LEMMA CloseKept ==
  ASSUME IInv, NEW d \in held, Close(d)
  PROVE  Kept
<1>1. d \in DOMAIN datasets /\ d \in Uid /\ d \in Live /\ wrapped[d].ds_ = d
  BY CallsDsFacts, LiveFacts DEF Close, Live
<1>2. /\ Live' = Live \ {h \in Live : wrapped[h].ds_ = d}
      /\ UNCHANGED <<uid, held>> /\ wrapped' = [wrapped EXCEPT ![d].this_ = FALSE]
  BY <1>1, DisposeKills, LiveFacts DEF Close
<1>3. [u \in DOMAIN wrapped' |-> wrapped'[u].ds_] = [u \in DOMAIN wrapped |-> wrapped[u].ds_]
  <2>1. DOMAIN wrapped' = DOMAIN wrapped /\ \A u \in DOMAIN wrapped : wrapped'[u].ds_ = wrapped[u].ds_
    BY <1>2 DEF IInv, TypeOK, WrapperType
  <2>2. QED
    BY <2>1
<1>4. {h \in Live : [u \in DOMAIN wrapped |-> wrapped[u].ds_][h] = d} = {h \in Live : wrapped[h].ds_ = d}
  BY LiveFacts
<1>5. Handles!Close(d)
  BY <1>1, <1>2, <1>3, <1>4 DEF Handles!Close, Handles!Tree, Live
<1>6. QED
  BY <1>1, <1>5 DEF Kept, Handles!Next

\* What is collected is out of the program's reach, and so is all that goes with it.
LEMMA FinalizeKept ==
  ASSUME IInv, NEW u \in pending, Finalize(u)
  PROVE  /\ Kept
         /\ \A h \in Reachable : h \in Live => h \in Live'
<1>1. u \in DOMAIN wrapped /\ u \in Uid /\ u \notin Reachable
      /\ \A h \in Reachable : h \in DOMAIN wrapped /\ wrapped[h].ds_ # u
  <2>1. u \in DOMAIN wrapped /\ u \in Uid /\ held \subseteq DOMAIN wrapped \ pending
    BY LiveFacts DEF IInv, TypeOK, WrapperType, PendingOK
  <2>2. \A h \in DOMAIN wrapped \ pending : wrapped[h].ds_ \in DOMAIN wrapped \ pending
    BY DEF IInv, PendingOK
  <2>3. Reachable \subseteq DOMAIN wrapped \ pending
    BY <2>1, <2>2 DEF Reachable
  <2>4. QED
    BY <2>1, <2>2, <2>3
<1>2. UNCHANGED <<uid, held>> /\ DOMAIN wrapped' = DOMAIN wrapped \ {u}
      /\ \A h \in DOMAIN wrapped' : wrapped'[h] = wrapped[h]
  BY DEF Finalize, Without, Restrict
<1>3. Live' = Live \ ({h \in Live : wrapped[h].ds_ = u} \cup {u})
  <2>1. CASE wrapped[u].this_
    BY <1>1, <2>1, DisposeKills DEF Finalize
  <2>2. CASE ~wrapped[u].this_
    <3>1. u \notin Live
      BY <2>2 DEF IInv, RegistryOK, Live
    <3>2. \A h \in Live : wrapped[h].ds_ # u
      BY <3>1, LiveFacts DEF Live
    <3>3. Live' = Live
      BY <2>2 DEF Finalize, Live
    <3>4. QED
      BY <3>1, <3>2, <3>3
  <2>3. QED
    BY <2>1, <2>2
<1>4. [h \in DOMAIN wrapped' |-> wrapped'[h].ds_]
        = [k \in DOMAIN wrapped \ {u} |-> [h \in DOMAIN wrapped |-> wrapped[h].ds_][k]]
  BY <1>2
<1>5. {h \in Live : [k \in DOMAIN wrapped |-> wrapped[k].ds_][h] = u} = {h \in Live : wrapped[h].ds_ = u}
  BY LiveFacts
<1>6. u \notin held \cup {[k \in DOMAIN wrapped |-> wrapped[k].ds_][h] : h \in held}
  BY <1>1, LiveFacts DEF Reachable
<1>7. Handles!Collect(u)
  BY <1>1, <1>2, <1>3, <1>4, <1>5, <1>6 DEF Handles!Collect, Handles!Tree, Handles!Reachable, Live
<1>8. Kept
  BY <1>1, <1>7 DEF Kept, Handles!Next
<1>9. QED
  BY <1>1, <1>3, <1>8

LEMMA ReferenceKept ==
  ASSUME IInv, NEW u \in held, Drop(u) \/ DsGetter(u)
  PROVE  Kept /\ Live' = Live
<1>1. UNCHANGED <<uid, datasets, items, wrapped>> /\ u \in Uid /\ u \in DOMAIN wrapped
  BY LiveFacts DEF Drop, DsGetter
<1>2. CASE Drop(u)
  BY <1>1, <1>2 DEF Drop, Kept, Handles!Next, Handles!Release, Live
<1>3. CASE DsGetter(u)
  <2>1. [k \in DOMAIN wrapped |-> wrapped[k].ds_][u] = wrapped[u].ds_
    BY <1>1
  <2>2. Handles!HoldRoot(u)
    BY <1>1, <1>3, <2>1 DEF DsGetter, Handles!HoldRoot
  <2>3. QED
    BY <1>1, <2>2 DEF Kept, Handles!Next, Live
<1>4. QED
  BY <1>2, <1>3

\* Every step of the binding is one of HandleLifetime, or none it can see; and nothing
\* but close kills what the program can reach.
LEMMA StepKept ==
  ASSUME IInv, [Next]_vars
  PROVE  /\ Kept
         /\ \/ \E d \in held : Close(d)
            \/ \A h \in Reachable : h \in Live => h \in Live'
<1>1. CASE Operation
  <2>1. ASSUME NEW p \in DsPtr, OpenDataset(p) PROVE Kept /\ Live \subseteq Live'
    BY <2>1, OpenDatasetKept
  <2>2. ASSUME NEW d \in held, NEW p \in Ptr,
               Get(d, p) \/ Create(d, p) \/ ExecuteSQL(d, p) \/ (\E l \in held : Copy(d, l, p))
        PROVE  Kept /\ Live \subseteq Live'
    <3>1. wrapped[d].ptr \in DsPtr /\ UNCHANGED Rest
          /\ \E result \in BOOLEAN : New(p, wrapped[d].ptr, result)
      BY <2>2 DEF Get, Create, ExecuteSQL, Copy, CallsDs
    <3>2. QED
      BY <3>1, NewKept
  <2>3. ASSUME NEW b \in held, NEW p \in BandPtr, GetSubBand(b, p) PROVE Kept /\ Live \subseteq Live'
    <3>1. wrapped[b].parent_ds \in DsPtr /\ UNCHANGED Rest /\ New(p, wrapped[b].parent_ds, FALSE)
          /\ p \in Ptr
      BY <2>3, LiveFacts DEF GetSubBand, IInv, TypeOK, WrapperType, Ptr
    <3>2. QED
      BY <3>1, NewKept
  <2>4. ASSUME NEW S, Free(S) PROVE Kept /\ Live' = Live
    BY <2>4, UnseenKept DEF Free, Unseen, Live
  <2>5. ASSUME NEW d \in held, Close(d) PROVE Kept /\ \E c \in held : Close(c)
    BY <2>5, CloseKept
  <2>6. ASSUME NEW u \in held, Drop(u) \/ DsGetter(u) PROVE Kept /\ Live' = Live
    BY <2>6, ReferenceKept
  <2>7. LayerPtr \subseteq Ptr
    BY DEF Ptr
  <2>8. ASSUME NEW d \in held, NEW p \in LayerPtr, Remove(d, p) PROVE Kept /\ Live' = Live
    BY <2>4, <2>8 DEF Remove
  <2>9. ASSUME NEW d \in held, NEW S \in SUBSET BandPtr, DropSubBands(d, S) PROVE Kept /\ Live' = Live
    BY <2>4, <2>9 DEF DropSubBands
  <2>10. QED
    BY <1>1, <2>1, <2>2, <2>3, <2>5, <2>6, <2>7, <2>8, <2>9 DEF Operation
<1>2. CASE Collector
  <2>1. ASSUME NEW S \in SUBSET DOMAIN wrapped, Collect(S) PROVE Kept /\ Live' = Live
    BY <2>1, UnseenKept DEF Collect, Unseen, Live
  <2>2. ASSUME NEW u \in pending, Finalize(u)
        PROVE  Kept /\ \A h \in Reachable : h \in Live => h \in Live'
    BY <2>2, FinalizeKept
  <2>3. ASSUME NEW u \in DOMAIN released, WeakCallback(u) PROVE Kept /\ Live' = Live
    BY <2>3, UnseenKept DEF WeakCallback, Unseen, Live
  <2>4. QED
    BY <1>2, <2>1, <2>2, <2>3 DEF Collector
<1>3. CASE UNCHANGED vars
  <2>1. Unseen /\ Live' = Live
    BY <1>3 DEF vars, Unseen, Live
  <2>2. QED
    BY <2>1, UnseenKept
<1>4. QED
  BY <1>1, <1>2, <1>3 DEF Next

\* What close kills is the closed dataset's.
LEMMA CloseIsSeen ==
  ASSUME IInv, NEW d \in held, Close(d), NEW u \in Live, u \notin Live'
  PROVE  wrapped[u].ds_ \in DOMAIN wrapped' /\ ~wrapped'[wrapped[u].ds_].this_
<1>1. d \in DOMAIN wrapped /\ wrapped[d].ds_ = d /\ Dispose(d)
      /\ wrapped' = [wrapped EXCEPT ![d].this_ = FALSE]
  BY CallsDsFacts, LiveFacts DEF Close
<1>2. wrapped[u].ds_ = d
  BY <1>1, DisposeKills
<1>3. d \in DOMAIN wrapped' /\ ~wrapped'[d].this_
  BY <1>1 DEF IInv, TypeOK, WrapperType
<1>4. QED
  BY <1>2, <1>3

LEMMA OnlyCloseKillsStep ==
  ASSUME IInv, IInv', [Next]_vars, NEW u \in Reachable, Alive(u), ~Alive(u)'
  PROVE  wrapped[u].ds_ \in DOMAIN wrapped' /\ ~wrapped'[wrapped[u].ds_].this_
<1>1. u \in Live
  BY LiveFacts
<1>2. u \notin Live'
  BY DEF IInv, RegistryOK, Live, Alive, Registered
<1>3. PICK d \in held : Close(d)
  BY <1>1, <1>2, StepKept
<1>4. QED
  BY <1>1, <1>2, <1>3, CloseIsSeen

\* No order of V8's callbacks takes away what the program can reach: a handle dies only
\* by Dataset::close, or with the dataset that was closed.
THEOREM OnlyCloseKillsHolds == Spec => OnlyCloseKills
<1>1. IInv /\ IInv' /\ [Next]_vars =>
        [\A u \in Reachable : Alive(u) /\ ~Alive(u)' =>
           LET d == wrapped[u].ds_ IN d \in DOMAIN wrapped' /\ ~wrapped'[d].this_]_vars
  BY OnlyCloseKillsStep
<1>2. QED
  BY <1>1, Invariance, PTL DEF Spec, OnlyCloseKills

LEMMA InitKept == Init => Handles!Init
BY DEF Init, Handles!Init

\* PtrManager, ObjectCache, the wrappers and their callbacks implement HandleLifetime:
\* a handle is born alive under a dataset alive, a dataset's tree dies as a whole, and
\* the collector takes only what is out of reach.
THEOREM KeepsPromiseHolds == Spec => KeepsPromise
<1>1. IInv /\ [Next]_vars => [Handles!Next]_(Handles!vars)
  BY StepKept DEF Kept
<1>2. QED
  BY <1>1, InitKept, Invariance, PTL DEF Spec, KeepsPromise, Handles!Spec

-------------------------------------------------------------------------------
(* What ItemsFreed rests on.  Under fairness TLC shows that the item of a      *)
(* collected wrapper is freed in the end; proved here is that nothing but its  *)
(* own weak callback is missing, and that nothing else can free it first.      *)

\* Each item has its weak callback before it, and its cache has let it go or
\* its wrapper is registered still.
Awaiting ==
  \A u \in DOMAIN released : "weak" \notin released[u] /\ (u \in Live \/ "cache" \in released[u])

\* The items of the wrappers that are gone.
Orphans == DOMAIN released \ DOMAIN wrapped

\* PtrManager::dispose makes the caches release the items of what it unregisters.
LEMMA DisposeReleases ==
  ASSUME IInv, NEW u \in DOMAIN wrapped, Dispose(u)
  PROVE  released' = Release(Live \ Live', "cache")
<1>1. /\ DOMAIN datasets' = DOMAIN datasets \ {u} /\ DOMAIN items' = DOMAIN items \ Gone(u)
      /\ released' = Release(Gone(u) \cup ({u} \cap DOMAIN datasets), "cache")
  BY DisposeFacts DEF Dropped
<1>2. Gone(u) \subseteq DOMAIN items /\ DOMAIN datasets \cap DOMAIN items = {}
  BY DEF Gone, RegistryOK, IInv
<1>3. Live \ Live' = Gone(u) \cup ({u} \cap DOMAIN datasets)
  BY <1>1, <1>2 DEF Live
<1>4. QED
  BY <1>1, <1>3

\* All that can happen to the items and to the registries in one step.
Resting == released' = released /\ Live' = Live /\ DOMAIN wrapped' \subseteq DOMAIN wrapped
Adding ==
  /\ uid \notin DOMAIN released
  /\ Added(released, released', uid, {})
  /\ Live' = Live \cup {uid}
  /\ DOMAIN wrapped' = DOMAIN wrapped \cup {uid}
Disposing ==
  /\ released' = Release(Live \ Live', "cache")
  /\ Live' \subseteq Live
  /\ DOMAIN wrapped' \subseteq DOMAIN wrapped

LEMMA WrapAdds ==
  ASSUME IInv, uid <= MaxUid, NEW p \in DsPtr \cup Ptr, NEW r \in Old \cup {uid}, NEW o \in DsPtr,
         Wrap(p, r, o), Live' = Live \cup {uid}
  PROVE  Adding
BY WrapFacts DEF Adding, Added

LEMMA NewAdds ==
  ASSUME IInv, NEW p \in Ptr, NEW o \in DsPtr, NEW result, New(p, o, result), UNCHANGED Rest
  PROVE  Resting \/ Adding
<1>1. CASE p \in DOMAIN cache
  BY <1>1 DEF New, Rest, Resting, Live
<1>2. CASE p \notin DOMAIN cache
  <2>1. PICK r : r = dsCache[o]
    OBVIOUS
  <2>2. /\ uid <= MaxUid /\ o \in DOMAIN dsCache /\ Wrap(p, r, o) /\ datasets' = datasets
        /\ DOMAIN items' = DOMAIN items \cup {uid}
    BY <1>2, <2>1 DEF New, Put, Rest
  <2>3. r \in Old /\ Live' = Live \cup {uid}
    BY <2>1, <2>2 DEF IInv, TypeOK, CacheType, Live
  <2>4. QED
    BY <2>2, <2>3, WrapAdds
<1>3. QED
  BY <1>1, <1>2

LEMMA OpenDatasetAdds ==
  ASSUME IInv, NEW p \in DsPtr, OpenDataset(p)
  PROVE  Adding
<1>1. p \notin DOMAIN dsCache
  BY DEF CacheOK, IInv, OpenDataset
<1>2. /\ uid <= MaxUid /\ Wrap(p, uid, p) /\ datasets' = Put(datasets, uid, p)
      /\ items' = items
  BY <1>1 DEF OpenDataset
<1>3. Live' = Live \cup {uid}
  BY <1>2 DEF Live, Put
<1>4. QED
  BY <1>2, <1>3, WrapAdds

LEMMA DisposeDisposes ==
  ASSUME IInv, NEW u \in DOMAIN wrapped, Dispose(u), DOMAIN wrapped' \subseteq DOMAIN wrapped
  PROVE  Disposing
BY DisposeReleases, DisposeKills DEF Disposing

LEMMA ItemStep ==
  ASSUME IInv, [Next]_vars
  PROVE  \/ Resting \/ Adding \/ Disposing
         \/ \E u \in Orphans : WeakCallback(u)
<1>1. CASE Operation
  <2>1. ASSUME NEW p \in DsPtr, OpenDataset(p) PROVE Adding
    BY <2>1, OpenDatasetAdds
  <2>2. ASSUME NEW d \in held, NEW p \in Ptr,
               Get(d, p) \/ Create(d, p) \/ ExecuteSQL(d, p) \/ (\E l \in held : Copy(d, l, p))
        PROVE  Resting \/ Adding
    <3>1. wrapped[d].ptr \in DsPtr /\ UNCHANGED Rest
          /\ \E result \in BOOLEAN : New(p, wrapped[d].ptr, result)
      BY <2>2 DEF Get, Create, ExecuteSQL, Copy, CallsDs
    <3>2. QED
      BY <3>1, NewAdds
  <2>3. ASSUME NEW b \in held, NEW p \in BandPtr, GetSubBand(b, p) PROVE Resting \/ Adding
    <3>1. wrapped[b].parent_ds \in DsPtr /\ UNCHANGED Rest /\ New(p, wrapped[b].parent_ds, FALSE)
          /\ p \in Ptr
      BY <2>3, LiveFacts DEF GetSubBand, IInv, TypeOK, WrapperType, Ptr
    <3>2. QED
      BY <3>1, NewAdds
  <2>4. ASSUME NEW d \in held, NEW S, Remove(d, S) \/ DropSubBands(d, S) PROVE Resting
    BY <2>4 DEF Remove, DropSubBands, Free, Resting, Live
  <2>5. ASSUME NEW d \in held, Close(d) PROVE Disposing
    BY <2>5, LiveFacts, DisposeDisposes DEF Close
  <2>6. ASSUME NEW u \in held, Drop(u) \/ DsGetter(u) PROVE Resting
    BY <2>6 DEF Drop, DsGetter, Resting, Live
  <2>7. LayerPtr \subseteq Ptr
    BY DEF Ptr
  <2>8. QED
    BY <1>1, <2>1, <2>2, <2>3, <2>4, <2>5, <2>6, <2>7 DEF Operation
<1>2. CASE Collector
  <2>1. ASSUME NEW S \in SUBSET DOMAIN wrapped, Collect(S) PROVE Resting
    BY <2>1 DEF Collect, Resting, Live
  <2>2. ASSUME NEW u \in pending, Finalize(u) PROVE Resting \/ Disposing
    <3>1. u \in DOMAIN wrapped /\ DOMAIN wrapped' = DOMAIN wrapped \ {u}
      BY <2>2 DEF Finalize, Without, Restrict, IInv, TypeOK, WrapperType
    <3>2. CASE wrapped[u].this_
      BY <2>2, <3>1, <3>2, DisposeDisposes DEF Finalize
    <3>3. CASE ~wrapped[u].this_
      BY <2>2, <3>1, <3>3 DEF Finalize, Resting, Live
    <3>4. QED
      BY <3>2, <3>3
  <2>3. ASSUME NEW u \in DOMAIN released, WeakCallback(u) PROVE u \in Orphans
    BY <2>3 DEF WeakCallback, Orphans
  <2>4. QED
    BY <1>2, <2>1, <2>2, <2>3 DEF Collector
<1>3. CASE UNCHANGED vars
  BY <1>3 DEF vars, Resting, Live
<1>4. QED
  BY <1>1, <1>2, <1>3 DEF Next

\* The item of a wrapper that is gone has been let go by its cache, and by it alone.
LEMMA OrphansWait ==
  ASSUME IInv, Awaiting, NEW u \in Orphans
  PROVE  released[u] = {"cache"}
<1>1. u \in DOMAIN released /\ released[u] \in SUBSET Flag
  BY DEF Orphans, IInv, TypeOK, CacheType
<1>2. u \notin Live
  BY LiveFacts DEF Orphans
<1>3. QED
  BY <1>1, <1>2 DEF Awaiting, Flag

LEMMA AwaitingStep == IInv /\ Awaiting /\ [Next]_vars => Awaiting'
<1> SUFFICES ASSUME IInv, Awaiting, [Next]_vars PROVE Awaiting'
  OBVIOUS
<1>1. CASE Resting
  BY <1>1 DEF Resting, Awaiting
<1>2. CASE Adding
  BY <1>2 DEF Adding, Added, Awaiting
<1>3. CASE Disposing
  <2>1. released' = Release(Live \ Live', "cache")
    BY <1>3 DEF Disposing
  <2>2. /\ DOMAIN released' \subseteq DOMAIN released
        /\ \A v \in DOMAIN released' :
             released'[v] = IF v \in Live \ Live' THEN released[v] \cup {"cache"} ELSE released[v]
    BY <2>1, ReleaseFacts
  <2>3. QED
    BY <2>2 DEF Awaiting
<1>4. CASE \E u \in Orphans : WeakCallback(u)
  <2>1. PICK u \in Orphans : WeakCallback(u)
    BY <1>4
  <2>2. released' = Release({u}, "weak") /\ Live' = Live
    BY <2>1 DEF WeakCallback, Live
  <2>3. u \notin DOMAIN released'
    BY <2>2, OrphansWait DEF Release, Restrict, Flag
  <2>4. /\ DOMAIN released' \subseteq DOMAIN released
        /\ \A v \in DOMAIN released' : v # u => released'[v] = released[v]
    BY <2>2, ReleaseFacts
  <2>5. QED
    BY <2>2, <2>3, <2>4 DEF Awaiting
<1>5. QED
  BY <1>1, <1>2, <1>3, <1>4, ItemStep

LEMMA AwaitingHolds == Spec => []Awaiting
<1>1. Init => Awaiting
  BY DEF Init, Awaiting
<1>2. QED
  BY <1>1, AwaitingStep, Invariance, PTL DEF Spec

\* The weak callback of an item whose wrapper is gone frees it, and no other step
\* frees it or gives it a wrapper again.
Freed(u) ==
  IF WeakCallback(u) THEN u \notin DOMAIN released' ELSE u \in Orphans'

LEMMA OrphanFreed ==
  ASSUME IInv, Awaiting, [Next]_vars, NEW u \in Orphans
  PROVE  Freed(u)
<1>1. u \in DOMAIN released /\ u \notin DOMAIN wrapped /\ released[u] = {"cache"} /\ u \notin Live
  BY OrphansWait, LiveFacts DEF Orphans
<1>2. CASE WeakCallback(u)
  <2>1. u \notin DOMAIN released'
    BY <1>1, <1>2 DEF WeakCallback, Release, Restrict, Flag
  <2>2. QED
    BY <1>2, <2>1 DEF Freed
<1>3. ASSUME ~WeakCallback(u) PROVE u \in Orphans'
  <2>1. CASE Resting
    BY <1>1, <2>1 DEF Resting, Orphans
  <2>2. CASE Adding
    BY <1>1, <2>2 DEF Adding, Added, Orphans
  <2>3. CASE Disposing
    <3>1. u \in DOMAIN released'
      BY <1>1, <2>3, ReleaseFacts DEF Disposing, Flag
    <3>2. QED
      BY <1>1, <2>3, <3>1 DEF Disposing, Orphans
  <2>4. CASE \E v \in Orphans : WeakCallback(v)
    <3>1. PICK v \in Orphans : WeakCallback(v)
      BY <2>4
    <3>2. released' = Release({v}, "weak") /\ wrapped' = wrapped /\ v # u
      BY <1>3, <3>1 DEF WeakCallback
    <3>3. u \in DOMAIN released'
      BY <1>1, <3>2, ReleaseFacts DEF Flag
    <3>4. QED
      BY <1>1, <3>2, <3>3 DEF Orphans
  <2>5. QED
    BY <2>1, <2>2, <2>3, <2>4, ItemStep
<1>4. QED
  BY <1>2, <1>3 DEF Freed

\* While a collection is under way every step is one of its destructors.
LEMMA CollectionEnds ==
  ASSUME Next, pending # {}
  PROVE  \E u \in pending : pending' = pending \ {u}
BY DEF Next, Operation, Collector, OpenDataset, Get, Create, Copy, ExecuteSQL, GetSubBand,
   Remove, DropSubBands, Close, Drop, DsGetter, Collect, Finalize, WeakCallback,
   CallsDs, CallsBand, Calls

\* The safety half of ItemsFreed: cacheWeakCallback always finds the item of a wrapper
\* that is gone released by its cache and by nobody else, and frees it, and no
\* other step does; and between the collector's two passes nothing else runs,
\* so a collection that goes on comes to its end.
THEOREM ItemsNeedOnlyTheirCallback ==
  Spec => /\ [](\A u \in Orphans : released[u] = {"cache"})
          /\ [][\A u \in Orphans : Freed(u)]_vars
          /\ [][pending # {} => \E u \in pending : pending' = pending \ {u}]_vars
<1>1. IInv /\ Awaiting => \A u \in Orphans : released[u] = {"cache"}
  BY OrphansWait
<1>2. IInv /\ Awaiting /\ [Next]_vars => [\A u \in Orphans : Freed(u)]_vars
  BY OrphanFreed
<1>3. [Next]_vars => [pending # {} => \E u \in pending : pending' = pending \ {u}]_vars
  BY CollectionEnds
<1>4. QED
  BY <1>1, <1>2, <1>3, Invariance, AwaitingHolds, PTL DEF Spec
===============================================================================
