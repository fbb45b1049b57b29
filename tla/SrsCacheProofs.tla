---------------------------- MODULE SrsCacheProofs ----------------------------
(***************************************************************************)
(* Proofs about SrsCache for every set of addresses, layers, geometries    *)
(* and definitions and every number of wrappers.  HeapInv says who keeps   *)
(* an SRS allocated, whatever the cache does; CacheInv says what the cache *)
(* and its aliases are worth, as long as nothing made one address mean two *)
(* things.                                                                 *)
(***************************************************************************)
EXTENDS SrsCache, FiniteSetTheorems, TLAPS

Srs == [def : Def, refs : Nat \ {0}]
Wrapped == [this_ : Addr, def : Def, cached : BOOLEAN]

WrappersAt(a) == {w \in DOMAIN wrapped : wrapped[w].this_ = a}
HoldersOf(a) == {h \in Holder : holder[h] = a}
Users(a) == Cardinality(WrappersAt(a)) + Cardinality(HoldersOf(a))
HaveSrs == {h \in Holder : holder[h] # NULL}

\* The program has created a number of wrappers, and finitely many layers and
\* geometries have an SRS.
Few ==
  /\ next \in 1..(MaxWrapper + 1)
  /\ DOMAIN wrapped \subseteq 1..(next - 1)
  /\ IsFiniteSet(HaveSrs)

\* The half of TypeOK that is about natives and wrappers; the program has no
\* wrapper that is being collected.
HeapTyped ==
  /\ Few
  /\ DOMAIN heap \subseteq Addr /\ \A a \in DOMAIN heap : heap[a] \in Srs
  /\ holder \in [Holder -> Addr \cup {NULL}]
  /\ \A h \in Holder : holder[h] # NULL => holder[h] \in DOMAIN heap
  /\ \A w \in DOMAIN wrapped : wrapped[w] \in Wrapped
  /\ held \subseteq DOMAIN wrapped /\ pending \subseteq DOMAIN wrapped
  /\ pending \cap held = {}

HeapInv == HeapTyped /\ WrapperKeepsSrs /\ Counted

-------------------------------------------------------------------------------
LEMMA OneMore ==
  ASSUME NEW S, IsFiniteSet(S), NEW x, x \notin S
  PROVE  Cardinality(S \cup {x}) = Cardinality(S) + 1 /\ Cardinality(S) \in Nat
BY FS_AddElement, FS_CardinalityType

LEMMA OneLess ==
  ASSUME NEW S, IsFiniteSet(S), NEW x, x \in S
  PROVE  Cardinality(S) = Cardinality(S \ {x}) + 1 /\ Cardinality(S \ {x}) \in Nat
BY FS_RemoveElement, FS_CardinalityType

LEMMA CountedIs ==
  /\ Counted <=> \A a \in DOMAIN heap : heap[a].refs >= Users(a)
  /\ Counted' <=> \A a \in DOMAIN heap' : heap'[a].refs >= Users(a)'
BY DEF Counted, Users, WrappersAt, HoldersOf

\* An SRS has finitely many users.
LEMMA UsersFinite ==
  ASSUME NEW a \in Addr
  PROVE  /\ Few => /\ IsFiniteSet(WrappersAt(a)) /\ Cardinality(WrappersAt(a)) \in Nat
                         /\ IsFiniteSet(HoldersOf(a)) /\ Cardinality(HoldersOf(a)) \in Nat
         /\ Few' => /\ IsFiniteSet(WrappersAt(a)') /\ Cardinality(WrappersAt(a)') \in Nat
                          /\ IsFiniteSet(HoldersOf(a)') /\ Cardinality(HoldersOf(a)') \in Nat
<1>1. ASSUME Few
      PROVE  /\ IsFiniteSet(WrappersAt(a)) /\ Cardinality(WrappersAt(a)) \in Nat
             /\ IsFiniteSet(HoldersOf(a)) /\ Cardinality(HoldersOf(a)) \in Nat
  <2>1. IsFiniteSet(1..(next - 1))
    BY <1>1, FS_Interval, WrapperAssumption DEF Few
  <2>2. WrappersAt(a) \in SUBSET (1..(next - 1)) /\ HoldersOf(a) \in SUBSET HaveSrs
    BY <1>1, NullAssumption DEF Few, WrappersAt, HoldersOf, HaveSrs
  <2>3. QED
    BY <1>1, <2>1, <2>2, FS_Subset, FS_CardinalityType DEF Few
<1>2. ASSUME Few'
      PROVE  /\ IsFiniteSet(WrappersAt(a)') /\ Cardinality(WrappersAt(a)') \in Nat
             /\ IsFiniteSet(HoldersOf(a)') /\ Cardinality(HoldersOf(a)') \in Nat
  <2>1. IsFiniteSet(1..(next' - 1))
    BY <1>2, FS_Interval, WrapperAssumption DEF Few
  <2>2. WrappersAt(a)' \in SUBSET (1..(next' - 1)) /\ HoldersOf(a)' \in SUBSET HaveSrs'
    BY <1>2, NullAssumption DEF Few, WrappersAt, HoldersOf, HaveSrs
  <2>3. QED
    BY <1>2, <2>1, <2>2, FS_Subset, FS_CardinalityType DEF Few
<1>3. QED
  BY <1>1, <1>2

-------------------------------------------------------------------------------
\* Releasing an SRS frees it only when nobody uses it any more.
LEMMA UnrefStep ==
  ASSUME Few', NEW g, DOMAIN g \subseteq Addr, NEW b \in DOMAIN g, heap' = Unref(g, b),
         \A e \in DOMAIN g : g[e] \in Srs /\ g[e].refs >= Users(e)',
         g[b].refs >= Users(b)' + 1
  PROVE  /\ Counted'
         /\ DOMAIN heap' \subseteq DOMAIN g
         /\ \A e \in DOMAIN heap' : heap'[e] \in Srs /\ heap'[e].def = g[e].def
         /\ \A e \in DOMAIN g \ DOMAIN heap' : WrappersAt(e)' = {} /\ HoldersOf(e)' = {}
<1>1. Users(b)' \in Nat /\ (Users(b)' = 0 => WrappersAt(b)' = {} /\ HoldersOf(b)' = {})
  <2>1. /\ Cardinality(WrappersAt(b)') \in Nat /\ Cardinality(HoldersOf(b)') \in Nat
        /\ Cardinality(WrappersAt(b)') = 0 => WrappersAt(b)' = {}
        /\ Cardinality(HoldersOf(b)') = 0 => HoldersOf(b)' = {}
    BY UsersFinite, FS_EmptySet
  <2>2. QED
    BY <2>1 DEF Users
<1>2. g[b] \in Srs
  OBVIOUS
<1>3. CASE g[b].refs = 1
  <2>1. DOMAIN heap' = DOMAIN g \ {b} /\ \A e \in DOMAIN heap' : heap'[e] = g[e]
    BY <1>3 DEF Unref, Without, Restrict
  <2>2. Users(b)' = 0
    BY <1>1, <1>3
  <2>3. Counted'
    BY <2>1, CountedIs
  <2>4. QED
    BY <1>1, <2>1, <2>2, <2>3
<1>4. CASE g[b].refs # 1
  <2>1. /\ DOMAIN heap' = DOMAIN g /\ \A e \in DOMAIN g \ {b} : heap'[e] = g[e]
        /\ heap'[b] = [g[b] EXCEPT !.refs = @ - 1]
    BY <1>4 DEF Unref
  <2>2. heap'[b].refs = g[b].refs - 1 /\ heap'[b] \in Srs /\ heap'[b].def = g[b].def
    BY <1>2, <1>4, <2>1 DEF Srs
  <2>3. heap'[b].refs >= Users(b)'
    BY <1>1, <1>2, <2>2 DEF Srs
  <2>4. Counted'
    BY <2>1, <2>3, CountedIs
  <2>5. QED
    BY <2>1, <2>2, <2>4
<1>5. QED
  BY <1>3, <1>4

\* Nobody uses an address that is not allocated.
LEMMA NoUsersElsewhere ==
  ASSUME HeapInv, NEW a \in Addr, a \notin DOMAIN heap
  PROVE  WrappersAt(a) = {} /\ HoldersOf(a) = {}
BY NullAssumption DEF HeapInv, HeapTyped, WrapperKeepsSrs, WrappersAt, HoldersOf

LEMMA InitHeap == Init => HeapInv
<1> SUFFICES ASSUME Init PROVE HeapInv
  OBVIOUS
<1>1. /\ DOMAIN heap = {} /\ DOMAIN wrapped = {} /\ next = 1 /\ held = {} /\ pending = {}
      /\ holder = [h \in Holder |-> NULL] /\ HaveSrs = {}
  BY DEF Init, HaveSrs
<1>2. Few
  BY <1>1, FS_EmptySet, WrapperAssumption DEF Few
<1>3. HeapTyped
  BY <1>1, <1>2 DEF HeapTyped
<1>4. WrapperKeepsSrs /\ Counted
  BY <1>1 DEF WrapperKeepsSrs, Counted
<1>5. QED
  BY <1>3, <1>4 DEF HeapInv

\* A native is made for a new wrapper.
LEMMA WrapHeap ==
  ASSUME HeapInv, NEW a \in Addr, NEW d \in Def, NEW cached \in BOOLEAN,
         a \notin DOMAIN heap, heap' = Alloc(heap, a, d), Wrap(a, d, cached),
         pending = {}, UNCHANGED <<holder, pending>>
  PROVE  HeapInv'
<1>1. HeapTyped /\ Few
  BY DEF HeapInv, HeapTyped
<1>2. /\ DOMAIN heap' = DOMAIN heap \cup {a} /\ heap'[a] = [def |-> d, refs |-> 1]
      /\ \A e \in DOMAIN heap : heap'[e] = heap[e]
  BY DEF Alloc, Put
<1>3. next \notin DOMAIN wrapped /\ next' = next + 1 /\ next \in 1..MaxWrapper
  BY <1>1, WrapperAssumption DEF Wrap, Few
<1>4. /\ DOMAIN wrapped' = DOMAIN wrapped \cup {next}
      /\ wrapped'[next] = [this_ |-> a, def |-> d, cached |-> cached]
      /\ \A w \in DOMAIN wrapped : wrapped'[w] = wrapped[w]
      /\ held' = held \cup {next}
  BY <1>3 DEF Wrap, Put
<1>5. Few'
  <2>1. DOMAIN wrapped' \subseteq 1..(next' - 1) /\ next' \in 1..(MaxWrapper + 1)
    BY <1>1, <1>3, <1>4, WrapperAssumption DEF Few
  <2>2. QED
    BY <1>1, <2>1 DEF Few, HaveSrs
<1>6. HeapTyped'
  <2>1. heap'[a] \in Srs /\ wrapped'[next] \in Wrapped
    BY <1>2, <1>4 DEF Srs, Wrapped
  <2>2. QED
    BY <1>1, <1>2, <1>4, <1>5, <2>1 DEF HeapTyped
<1>7. WrapperKeepsSrs'
  BY <1>2, <1>3, <1>4 DEF HeapInv, WrapperKeepsSrs
<1>8. /\ \A e \in DOMAIN heap : WrappersAt(e)' = WrappersAt(e) /\ HoldersOf(e)' = HoldersOf(e)
      /\ WrappersAt(a)' = {next} /\ HoldersOf(a)' = {}
  <2>1. /\ \A e \in DOMAIN heap : WrappersAt(e)' = WrappersAt(e) /\ HoldersOf(e)' = HoldersOf(e)
        /\ WrappersAt(a)' = WrappersAt(a) \cup {next} /\ HoldersOf(a)' = HoldersOf(a)
    BY <1>3, <1>4 DEF WrappersAt, HoldersOf
  <2>2. QED
    BY <2>1, NoUsersElsewhere
<1>9. Users(a)' = 1 /\ \A e \in DOMAIN heap : Users(e)' = Users(e)
  <2>1. Cardinality({next}) = 1 /\ Cardinality({}) = 0
    BY FS_EmptySet, FS_Singleton
  <2>2. Users(a)' = 1
    BY <1>8, <2>1 DEF Users
  <2>3. QED
    BY <1>8, <2>2 DEF Users
<1>10. Counted'
  BY <1>2, <1>9, CountedIs DEF HeapInv
<1>11. QED
  BY <1>6, <1>7, <1>10 DEF HeapInv

\* The wrappers and the holders stay as they are; at most an SRS is allocated that
\* nobody will ever use.
LEMMA QuietHeap ==
  ASSUME HeapInv, UNCHANGED <<holder, wrapped, next>>,
         UNCHANGED heap \/ \E a \in Addr \ DOMAIN heap, d \in Def : heap' = Alloc(heap, a, d),
         held' \subseteq DOMAIN wrapped, pending' \subseteq DOMAIN wrapped, pending' \cap held' = {}
  PROVE  HeapInv'
<1>1. HeapTyped /\ Few
  BY DEF HeapInv, HeapTyped
<1>2. \A e : WrappersAt(e)' = WrappersAt(e) /\ HoldersOf(e)' = HoldersOf(e) /\ Users(e)' = Users(e)
  BY DEF WrappersAt, HoldersOf, Users
<1>3. /\ DOMAIN heap \subseteq DOMAIN heap' /\ DOMAIN heap' \subseteq Addr
      /\ \A e \in DOMAIN heap : heap'[e] = heap[e]
      /\ \A e \in DOMAIN heap' \ DOMAIN heap : heap'[e] \in Srs /\ heap'[e].refs = 1
  <2>1. CASE UNCHANGED heap
    BY <1>1, <2>1 DEF HeapTyped
  <2>2. ASSUME NEW a \in Addr \ DOMAIN heap, NEW d \in Def, heap' = Alloc(heap, a, d)
        PROVE  /\ DOMAIN heap \subseteq DOMAIN heap' /\ DOMAIN heap' \subseteq Addr
               /\ \A e \in DOMAIN heap : heap'[e] = heap[e]
               /\ \A e \in DOMAIN heap' \ DOMAIN heap : heap'[e] \in Srs /\ heap'[e].refs = 1
    <3>1. /\ DOMAIN heap' = DOMAIN heap \cup {a}
          /\ heap'[a] = [def |-> d, refs |-> 1]
          /\ \A e \in DOMAIN heap \ {a} : heap'[e] = heap[e]
      BY <2>2 DEF Alloc, Put
    <3>2. QED
      BY <1>1, <2>2, <3>1 DEF HeapTyped, Srs
  <2>3. QED
    BY <2>1, <2>2
<1>4. HeapTyped'
  BY <1>1, <1>3 DEF HeapTyped, Few, HaveSrs
<1>5. WrapperKeepsSrs'
  BY <1>3 DEF HeapInv, WrapperKeepsSrs
<1>6. ASSUME NEW e \in DOMAIN heap' \ DOMAIN heap PROVE Users(e)' = 0
  <2>1. WrappersAt(e) = {} /\ HoldersOf(e) = {}
    BY <1>3, NoUsersElsewhere
  <2>2. Users(e) = 0
    BY <2>1, FS_EmptySet DEF Users
  <2>3. QED
    BY <1>2, <2>2
<1>7. Counted'
  BY <1>2, <1>3, <1>6, CountedIs DEF HeapInv
<1>8. QED
  BY <1>4, <1>5, <1>7 DEF HeapInv

\* A layer or geometry more has an SRS, a new one or another's.
LEMMA HoldHeap ==
  ASSUME HeapInv, NEW h \in Holder, holder[h] = NULL, NEW a \in Addr,
         holder' = [holder EXCEPT ![h] = a], UNCHANGED <<wrapped, next, held, pending>>,
         \/ a \notin DOMAIN heap /\ \E d \in Def : heap' = Alloc(heap, a, d)
         \/ a \in DOMAIN heap /\ heap' = Ref(heap, a)
  PROVE  HeapInv'
<1>1. HeapTyped /\ Few /\ a # NULL
  BY NullAssumption DEF HeapInv, HeapTyped
<1>2. /\ DOMAIN heap' = DOMAIN heap \cup {a} /\ heap'[a] \in Srs
      /\ \A e \in DOMAIN heap \ {a} : heap'[e] = heap[e]
      /\ a \notin DOMAIN heap => heap'[a].refs = 1
      /\ a \in DOMAIN heap => heap'[a].refs = heap[a].refs + 1 /\ heap'[a].def = heap[a].def
  <2>1. CASE a \notin DOMAIN heap
    <3>1. PICK d \in Def : heap' = Alloc(heap, a, d)
      BY <2>1
    <3>2. /\ DOMAIN heap' = DOMAIN heap \cup {a}
          /\ heap'[a] = [def |-> d, refs |-> 1]
          /\ \A e \in DOMAIN heap \ {a} : heap'[e] = heap[e]
      BY <3>1 DEF Alloc, Put
    <3>3. QED
      BY <2>1, <3>2 DEF Srs
  <2>2. CASE a \in DOMAIN heap
    <3>1. heap[a] \in Srs
      BY <1>1, <2>2 DEF HeapTyped
    <3>2. QED
      BY <2>2, <3>1 DEF Ref, Srs
  <2>3. QED
    BY <2>1, <2>2
<1>3. Few'
  <2>1. HaveSrs' = HaveSrs \cup {h}
    BY <1>1 DEF HaveSrs, HeapTyped
  <2>2. QED
    BY <1>1, <2>1, FS_AddElement DEF Few
<1>4. HeapTyped'
  BY <1>1, <1>2, <1>3 DEF HeapTyped
<1>5. WrapperKeepsSrs'
  BY <1>2 DEF HeapInv, WrapperKeepsSrs
<1>6. /\ \A e \in Addr \ {a} : WrappersAt(e)' = WrappersAt(e) /\ HoldersOf(e)' = HoldersOf(e)
      /\ WrappersAt(a)' = WrappersAt(a) /\ HoldersOf(a)' = HoldersOf(a) \cup {h}
      /\ h \notin HoldersOf(a)
  BY <1>1, NullAssumption DEF WrappersAt, HoldersOf, HeapTyped
<1>7. Users(a)' = Users(a) + 1 /\ \A e \in DOMAIN heap \ {a} : Users(e)' = Users(e)
  <2>1. Cardinality(HoldersOf(a)') = Cardinality(HoldersOf(a)) + 1
    BY <1>1, <1>6, UsersFinite, OneMore
  <2>2. \A e \in DOMAIN heap \ {a} : Users(e)' = Users(e)
    BY <1>1, <1>6 DEF Users, HeapTyped
  <2>3. Cardinality(WrappersAt(a)) \in Nat /\ Cardinality(HoldersOf(a)) \in Nat
    BY <1>1, UsersFinite
  <2>4. QED
    BY <1>6, <2>1, <2>2, <2>3 DEF Users
<1>8. a \notin DOMAIN heap => Users(a) = 0
  BY NoUsersElsewhere, FS_EmptySet DEF Users
<1>9. Users(a) \in Nat
  BY <1>1, UsersFinite DEF Users
<1>10. heap'[a].refs >= Users(a)'
  <2>1. CASE a \notin DOMAIN heap
    BY <1>2, <1>7, <1>8, <2>1
  <2>2. CASE a \in DOMAIN heap
    <3>1. heap[a].refs >= Users(a) /\ heap[a].refs \in Nat
      BY <1>1, <2>2, CountedIs DEF HeapInv, HeapTyped, Srs
    <3>2. QED
      BY <1>2, <1>7, <1>9, <2>2, <3>1
  <2>3. QED
    BY <2>1, <2>2
<1>11. Counted'
  BY <1>2, <1>7, <1>10, CountedIs DEF HeapInv
<1>12. QED
  BY <1>4, <1>5, <1>11 DEF HeapInv

-------------------------------------------------------------------------------
\* What a step that releases an SRS may do besides.
LEMMA ReleaseHeap ==
  ASSUME HeapInv, Few', NEW g, DOMAIN g = DOMAIN heap, NEW b \in DOMAIN g, heap' = Unref(g, b),
         \A e \in DOMAIN g : g[e] \in Srs /\ g[e].def = heap[e].def /\ g[e].refs >= Users(e)',
         g[b].refs >= Users(b)' + 1,
         holder' \in [Holder -> Addr \cup {NULL}],
         \A h \in Holder : holder'[h] # NULL => holder'[h] \in DOMAIN heap,
         DOMAIN wrapped' \subseteq DOMAIN wrapped,
         \A w \in DOMAIN wrapped' : wrapped'[w] = wrapped[w],
         held' \subseteq DOMAIN wrapped', pending' \subseteq DOMAIN wrapped', pending' \cap held' = {}
  PROVE  HeapInv'
<1>1. HeapTyped /\ DOMAIN g \subseteq Addr
  BY DEF HeapInv, HeapTyped
<1>2. /\ Counted'
      /\ DOMAIN heap' \subseteq DOMAIN g
      /\ \A e \in DOMAIN heap' : heap'[e] \in Srs /\ heap'[e].def = g[e].def
      /\ \A e \in DOMAIN g \ DOMAIN heap' : WrappersAt(e)' = {} /\ HoldersOf(e)' = {}
  BY <1>1, UnrefStep
<1>3. \A h \in Holder : holder'[h] # NULL => holder'[h] \in DOMAIN heap'
  BY <1>2 DEF HoldersOf
<1>4. \A w \in DOMAIN wrapped' : wrapped'[w].this_ \in DOMAIN heap'
  BY <1>2 DEF WrappersAt, HeapInv, WrapperKeepsSrs
<1>5. HeapTyped'
  BY <1>1, <1>2, <1>3 DEF HeapTyped
<1>6. WrapperKeepsSrs'
  BY <1>2, <1>4 DEF HeapInv, WrapperKeepsSrs
<1>7. QED
  BY <1>2, <1>5, <1>6 DEF HeapInv

\* The dataset closes, or the geometry lets its SRS go.
LEMMA DiscardHeap ==
  ASSUME HeapInv, NEW h \in Holder, Discard(h)
  PROVE  HeapInv'
<1>1. HeapTyped /\ Few
  BY DEF HeapInv, HeapTyped
<1>2. PICK b \in DOMAIN heap : b = holder[h] /\ b \in Addr /\ b # NULL
  BY <1>1 DEF Discard, HeapTyped
<1>3. /\ holder' = [holder EXCEPT ![h] = NULL] /\ heap' = Unref(heap, b)
      /\ UNCHANGED <<wrapped, next, held, pending>>
  BY <1>2 DEF Discard, WrapperVars
<1>4. Few'
  <2>1. HaveSrs' = HaveSrs \ {h}
    BY <1>1, <1>3 DEF HaveSrs, HeapTyped
  <2>2. QED
    BY <1>1, <1>3, <2>1, FS_RemoveElement DEF Few
<1>5. /\ \A e \in Addr \ {b} : WrappersAt(e)' = WrappersAt(e) /\ HoldersOf(e)' = HoldersOf(e)
      /\ WrappersAt(b)' = WrappersAt(b) /\ HoldersOf(b)' = HoldersOf(b) \ {h}
      /\ h \in HoldersOf(b)
  BY <1>1, <1>2, <1>3, NullAssumption DEF WrappersAt, HoldersOf, HeapTyped
<1>6. Users(b) = Users(b)' + 1 /\ Users(b)' \in Nat
  <2>1. /\ Cardinality(HoldersOf(b)) = Cardinality(HoldersOf(b)') + 1
        /\ Cardinality(HoldersOf(b)') \in Nat /\ Cardinality(WrappersAt(b)) \in Nat
    BY <1>1, <1>2, <1>5, UsersFinite, OneLess
  <2>2. QED
    BY <1>5, <2>1 DEF Users
<1>7. \A e \in DOMAIN heap \ {b} : Users(e)' = Users(e)
  BY <1>1, <1>5 DEF Users, HeapTyped
<1>8. /\ heap[b].refs >= Users(b)' + 1
      /\ \A e \in DOMAIN heap : heap[e] \in Srs /\ heap[e].refs >= Users(e)'
  <2>1. \A e \in DOMAIN heap : heap[e] \in Srs /\ heap[e].refs >= Users(e) /\ heap[e].refs \in Nat
    BY <1>1, CountedIs DEF HeapInv, HeapTyped, Srs
  <2>2. heap[b].refs >= Users(b)' + 1 /\ heap[b].refs >= Users(b)'
    BY <1>6, <2>1
  <2>3. QED
    BY <1>7, <2>1, <2>2
<1>9. /\ holder' \in [Holder -> Addr \cup {NULL}]
      /\ \A k \in Holder : holder'[k] # NULL => holder'[k] \in DOMAIN heap
  BY <1>1, <1>3 DEF HeapTyped
<1>10. QED
  BY <1>1, <1>3, <1>4, <1>8, <1>9, ReleaseHeap DEF HeapTyped

\* A wrapper is destroyed.
LEMMA FinalizeHeap ==
  ASSUME HeapInv, NEW w, Finalize(w)
  PROVE  HeapInv'
<1>1. HeapTyped /\ Few /\ w \in DOMAIN wrapped /\ w \in pending
  BY DEF HeapInv, HeapTyped, Finalize
<1>2. PICK b \in DOMAIN heap : b = wrapped[w].this_ /\ b \in Addr
  BY <1>1 DEF HeapInv, HeapTyped, WrapperKeepsSrs
<1>3. /\ DOMAIN wrapped' = DOMAIN wrapped \ {w}
      /\ \A v \in DOMAIN wrapped' : wrapped'[v] = wrapped[v]
      /\ heap' = Unref(heap, b) /\ pending' = pending \ {w}
      /\ UNCHANGED <<holder, next, held>>
  BY <1>2 DEF Finalize, Without, Restrict
<1>4. Few'
  BY <1>1, <1>3 DEF Few, HaveSrs
<1>5. /\ \A e \in Addr \ {b} : WrappersAt(e)' = WrappersAt(e) /\ HoldersOf(e)' = HoldersOf(e)
      /\ HoldersOf(b)' = HoldersOf(b) /\ WrappersAt(b)' = WrappersAt(b) \ {w}
      /\ w \in WrappersAt(b)
  BY <1>1, <1>2, <1>3 DEF WrappersAt, HoldersOf
<1>6. Users(b) = Users(b)' + 1 /\ Users(b)' \in Nat
  <2>1. /\ Cardinality(WrappersAt(b)) = Cardinality(WrappersAt(b)') + 1
        /\ Cardinality(WrappersAt(b)') \in Nat /\ Cardinality(HoldersOf(b)) \in Nat
    BY <1>1, <1>2, <1>5, UsersFinite, OneLess
  <2>2. QED
    BY <1>5, <2>1 DEF Users
<1>7. \A e \in DOMAIN heap \ {b} : Users(e)' = Users(e)
  BY <1>1, <1>5 DEF Users, HeapTyped
<1>8. /\ heap[b].refs >= Users(b)' + 1
      /\ \A e \in DOMAIN heap : heap[e] \in Srs /\ heap[e].refs >= Users(e)'
  <2>1. \A e \in DOMAIN heap : heap[e] \in Srs /\ heap[e].refs >= Users(e) /\ heap[e].refs \in Nat
    BY <1>1, CountedIs DEF HeapInv, HeapTyped, Srs
  <2>2. heap[b].refs >= Users(b)' + 1 /\ heap[b].refs >= Users(b)'
    BY <1>6, <2>1
  <2>3. QED
    BY <1>7, <2>1, <2>2
<1>9. held' \subseteq DOMAIN wrapped' /\ pending' \subseteq DOMAIN wrapped' /\ pending' \cap held' = {}
  BY <1>1, <1>3 DEF HeapTyped
<1>10. QED
  BY <1>1, <1>3, <1>4, <1>8, <1>9, ReleaseHeap DEF HeapTyped

\* A geometry takes a wrapper's SRS and lets its own go, which may be the same one.
LEMMA AssignHeap ==
  ASSUME HeapInv, NEW h \in Holder, NEW w \in held, Assign(h, w)
  PROVE  HeapInv'
<1>1. HeapTyped /\ Few /\ w \in DOMAIN wrapped
  BY DEF HeapInv, HeapTyped
<1>2. PICK a \in DOMAIN heap : a = wrapped[w].this_ /\ a \in Addr /\ a # NULL
  BY <1>1, NullAssumption DEF HeapInv, HeapTyped, WrapperKeepsSrs
<1>3. /\ holder' = [holder EXCEPT ![h] = a]
      /\ heap' = IF holder[h] = NULL THEN Ref(heap, a) ELSE Unref(Ref(heap, a), holder[h])
      /\ UNCHANGED <<wrapped, next, held, pending>>
  BY <1>2 DEF Assign, WrapperVars
<1>4. CASE holder[h] = NULL
  BY <1>2, <1>3, <1>4, HoldHeap
<1>5. CASE holder[h] # NULL
  <2>1. PICK b \in DOMAIN heap : b = holder[h] /\ b \in Addr
    BY <1>1, <1>5 DEF HeapTyped
  <2>2. PICK g : g = Ref(heap, a)
    OBVIOUS
  <2>3. /\ DOMAIN g = DOMAIN heap
        /\ \A e \in DOMAIN g : g[e] \in Srs /\ g[e].def = heap[e].def /\ g[e].refs \in Nat
        /\ \A e \in DOMAIN g \ {a} : g[e].refs = heap[e].refs
        /\ g[a].refs = heap[a].refs + 1
    BY <1>1, <2>2 DEF Ref, HeapTyped, Srs
  <2>4. heap' = Unref(g, b)
    BY <1>3, <1>5, <2>1, <2>2
  <2>5. Few'
    <3>1. HaveSrs' = HaveSrs
      BY <1>1, <1>2, <1>3, <1>5 DEF HaveSrs, HeapTyped
    <3>2. QED
      BY <1>1, <1>3, <3>1 DEF Few
  <2>6. \A e \in DOMAIN heap : heap[e].refs \in Nat /\ heap[e].refs >= Users(e)
    BY <1>1, CountedIs DEF HeapInv, HeapTyped, Srs
  <2>7. \A e \in DOMAIN heap : Users(e) \in Nat /\ Users(e)' \in Nat
    BY <1>1, <2>5, UsersFinite DEF Users, HeapTyped
  <2>8. /\ \A e \in DOMAIN g : g[e].refs >= Users(e)'
        /\ g[b].refs >= Users(b)' + 1
    <3>1. CASE a = b
      <4>1. \A e : Users(e)' = Users(e)
        BY <1>1, <1>3, <2>1, <3>1 DEF Users, WrappersAt, HoldersOf, HeapTyped
      <4>2. QED
        BY <2>3, <2>6, <2>7, <3>1, <4>1
    <3>2. CASE a # b
      <4>1. /\ \A e : WrappersAt(e)' = WrappersAt(e)
            /\ \A e \in Addr \ {a, b} : HoldersOf(e)' = HoldersOf(e)
            /\ HoldersOf(a)' = HoldersOf(a) \cup {h} /\ h \notin HoldersOf(a)
            /\ HoldersOf(b)' = HoldersOf(b) \ {h} /\ h \in HoldersOf(b)
        BY <1>1, <1>2, <1>3, <2>1, <3>2 DEF WrappersAt, HoldersOf, HeapTyped
      <4>2. \A e \in DOMAIN heap \ {a, b} : Users(e)' = Users(e)
        BY <1>1, <4>1 DEF Users, HeapTyped
      <4>3. Users(a)' = Users(a) + 1
        <5>1. /\ Cardinality(HoldersOf(a)') = Cardinality(HoldersOf(a)) + 1
              /\ Cardinality(HoldersOf(a)) \in Nat /\ Cardinality(WrappersAt(a)) \in Nat
          BY <1>1, <1>2, <4>1, UsersFinite, OneMore
        <5>2. QED
          BY <4>1, <5>1 DEF Users
      <4>4. Users(b) = Users(b)' + 1
        <5>1. /\ Cardinality(HoldersOf(b)) = Cardinality(HoldersOf(b)') + 1
              /\ Cardinality(HoldersOf(b)') \in Nat /\ Cardinality(WrappersAt(b)) \in Nat
          BY <1>1, <2>1, <4>1, UsersFinite, OneLess
        <5>2. QED
          BY <4>1, <5>1 DEF Users
      <4>5. \A e \in DOMAIN g \ {a, b} : g[e].refs >= Users(e)'
        BY <2>3, <2>6, <4>2
      <4>6. g[a].refs >= Users(a)' /\ g[b].refs >= Users(b)' + 1 /\ g[b].refs >= Users(b)'
        BY <2>3, <2>6, <2>7, <3>2, <4>3, <4>4
      <4>7. QED
        BY <4>5, <4>6
    <3>3. QED
      BY <3>1, <3>2
  <2>9. /\ holder' \in [Holder -> Addr \cup {NULL}]
        /\ \A k \in Holder : holder'[k] # NULL => holder'[k] \in DOMAIN heap
    BY <1>1, <1>2, <1>3 DEF HeapTyped
  <2>10. QED
    BY <1>1, <1>3, <2>3, <2>4, <2>5, <2>8, <2>9, ReleaseHeap DEF HeapTyped
<1>6. QED
  BY <1>4, <1>5

\* An SRS is changed in place: it stays its wrapper's, which is told.
LEMMA ModifyHeap ==
  ASSUME HeapInv, NEW w \in held, NEW d \in Def, Modify(w, d)
  PROVE  HeapInv'
<1>1. HeapTyped /\ Few /\ w \in DOMAIN wrapped /\ wrapped[w] \in Wrapped
  BY DEF HeapInv, HeapTyped
<1>2. PICK a \in DOMAIN heap : a = wrapped[w].this_ /\ heap[a] \in Srs
  BY <1>1 DEF HeapInv, HeapTyped, WrapperKeepsSrs
<1>3. /\ DOMAIN heap' = DOMAIN heap /\ \A e \in DOMAIN heap \ {a} : heap'[e] = heap[e]
      /\ heap'[a] = [heap[a] EXCEPT !.def = d]
      /\ DOMAIN wrapped' = DOMAIN wrapped /\ \A v \in DOMAIN wrapped \ {w} : wrapped'[v] = wrapped[v]
      /\ wrapped'[w] = [wrapped[w] EXCEPT !.def = d]
      /\ UNCHANGED <<holder, next, held, pending>>
  BY <1>1, <1>2 DEF Modify
<1>4. /\ heap'[a] \in Srs /\ heap'[a].def = d /\ heap'[a].refs = heap[a].refs
      /\ wrapped'[w] \in Wrapped /\ wrapped'[w].def = d /\ wrapped'[w].this_ = a
  BY <1>1, <1>2, <1>3 DEF Srs, Wrapped
<1>5. HeapTyped'
  BY <1>1, <1>3, <1>4 DEF HeapTyped, Few, HaveSrs
<1>6. WrapperKeepsSrs'
  <2>1. \A v \in DOMAIN wrapped \ {w} :
          /\ wrapped[v].this_ \in DOMAIN heap \ {a} /\ heap[wrapped[v].this_].def = wrapped[v].def
          /\ \A u \in DOMAIN wrapped \ {v} : wrapped[u].this_ # wrapped[v].this_
    BY <1>1, <1>2 DEF HeapInv, WrapperKeepsSrs
  <2>2. ASSUME NEW v \in DOMAIN wrapped \ {w}
        PROVE  /\ wrapped'[v].this_ \in DOMAIN heap' /\ heap'[wrapped'[v].this_].def = wrapped'[v].def
               /\ \A u \in DOMAIN wrapped' \ {v} : wrapped'[u].this_ # wrapped'[v].this_
    <3>1. wrapped'[v] = wrapped[v] /\ heap'[wrapped[v].this_] = heap[wrapped[v].this_]
      BY <1>3, <2>1
    <3>2. ASSUME NEW u \in DOMAIN wrapped' \ {v} PROVE wrapped'[u].this_ # wrapped'[v].this_
      <4>1. CASE u = w
        BY <1>4, <2>1, <3>1, <4>1
      <4>2. CASE u # w
        <5>1. u \in DOMAIN wrapped \ {v} /\ wrapped'[u] = wrapped[u]
          BY <1>3, <3>2, <4>2
        <5>2. QED
          BY <2>1, <3>1, <5>1
      <4>3. QED
        BY <4>1, <4>2
    <3>3. QED
      BY <1>3, <2>1, <3>1, <3>2
  <2>3. \A u \in DOMAIN wrapped' \ {w} : wrapped'[u].this_ # wrapped'[w].this_
    BY <1>3, <1>4, <2>1
  <2>4. QED
    BY <1>3, <1>4, <2>2, <2>3 DEF WrapperKeepsSrs
<1>7. Counted'
  <2>1. \A v \in DOMAIN wrapped : wrapped'[v].this_ = wrapped[v].this_
    BY <1>2, <1>3, <1>4
  <2>2. \A e \in DOMAIN heap : WrappersAt(e)' = WrappersAt(e) /\ HoldersOf(e)' = HoldersOf(e)
    BY <1>3, <2>1 DEF WrappersAt, HoldersOf
  <2>3. \A e \in DOMAIN heap : Users(e)' = Users(e) /\ heap'[e].refs = heap[e].refs
    BY <1>3, <1>4, <2>2 DEF Users
  <2>4. QED
    BY <1>3, <2>3, CountedIs DEF HeapInv
<1>8. QED
  BY <1>5, <1>6, <1>7 DEF HeapInv

-------------------------------------------------------------------------------
\* What a step does to natives and wrappers, whatever the cache says.
LEMMA NextHeap ==
  ASSUME HeapInv, [Next]_vars
  PROVE  HeapInv'
<1>1. HeapTyped /\ held \subseteq DOMAIN wrapped /\ pending \subseteq DOMAIN wrapped /\ pending \cap held = {}
  BY DEF HeapInv, HeapTyped
<1>2. ASSUME NEW a \in Addr, NEW d \in Def, Construct(a, d) PROVE HeapInv'
  BY <1>2, WrapHeap DEF Construct
<1>3. ASSUME NEW raw \in Addr, NEW k \in Addr, NEW d \in Def, NewOwned(raw, k, d) PROVE HeapInv'
  <2>1. CASE Has(raw)
    <3>1. /\ raw \in Addr \ DOMAIN heap /\ heap' = Alloc(heap, raw, d)
          /\ pending' = {} /\ UNCHANGED <<holder, wrapped, next>>
          /\ held' \subseteq DOMAIN wrapped
      BY <1>1, <1>3, <2>1 DEF NewOwned, Answer
    <3>2. QED
      BY <3>1, QuietHeap
  <2>2. CASE ~Has(raw)
    BY <1>3, <2>2, WrapHeap DEF NewOwned
  <2>3. QED
    BY <2>1, <2>2
<1>4. ASSUME NEW h \in Holder, NEW k \in Addr, NewUnowned(h, k) PROVE HeapInv'
  <2>1. CASE Has(holder[h])
    <3>1. /\ pending' = {} /\ UNCHANGED <<heap, holder, wrapped, next>>
          /\ held' \subseteq DOMAIN wrapped
      BY <1>1, <1>4, <2>1 DEF NewUnowned, Answer
    <3>2. QED
      BY <3>1, QuietHeap
  <2>2. CASE ~Has(holder[h])
    <3>1. heap[holder[h]] \in Srs
      BY <1>1, <1>4 DEF NewUnowned, HeapTyped
    <3>2. PICK d \in Def : d = heap[holder[h]].def
      BY <3>1 DEF Srs
    <3>3. QED
      BY <1>4, <2>2, <3>2, WrapHeap DEF NewUnowned
  <2>3. QED
    BY <2>1, <2>2
<1>5. ASSUME NEW h \in Holder, NEW a \in Addr, NEW d \in Def, Load(h, a, d) PROVE HeapInv'
  BY <1>5, HoldHeap DEF Load, WrapperVars
<1>6. ASSUME NEW h \in Holder, NEW w \in held, Assign(h, w) PROVE HeapInv'
  BY <1>6, AssignHeap
<1>7. ASSUME NEW g \in Holder, NEW h \in Holder, Share(g, h) PROVE HeapInv'
  <2>1. PICK a \in DOMAIN heap : a = holder[h] /\ a \in Addr
    BY <1>1, <1>7 DEF Share, HeapTyped
  <2>2. QED
    BY <1>7, <2>1, HoldHeap DEF Share, WrapperVars
<1>8. ASSUME NEW h \in Holder, Discard(h) PROVE HeapInv'
  BY <1>8, DiscardHeap
<1>9. ASSUME NEW w \in held, Drop(w) PROVE HeapInv'
  BY <1>1, <1>9, QuietHeap DEF Drop
<1>10. ASSUME NEW S \in SUBSET DOMAIN wrapped, Collect(S) PROVE HeapInv'
  BY <1>1, <1>10, QuietHeap DEF Collect
<1>11. ASSUME NEW w \in pending, Finalize(w) PROVE HeapInv'
  BY <1>11, FinalizeHeap
<1>12. ASSUME NEW w \in DOMAIN items, WeakCallback(w) PROVE HeapInv'
  BY <1>1, <1>12, QuietHeap DEF WeakCallback
<1>13. ASSUME NEW w \in held, NEW d \in Def, Modify(w, d) PROVE HeapInv'
  BY <1>13, ModifyHeap
<1>14. CASE UNCHANGED vars
  BY <1>1, <1>14, QuietHeap DEF vars
<1>15. QED
  BY <1>2, <1>3, <1>4, <1>5, <1>6, <1>7, <1>8, <1>9, <1>10, <1>11, <1>12, <1>13, <1>14 DEF Next

-------------------------------------------------------------------------------
\* The other half of TypeOK.
CacheTyped ==
  /\ DOMAIN items \subseteq 1..(next - 1)
  /\ \A w \in DOMAIN items :
       items[w] \in [key : Addr, alias : Addr \cup {NULL}, status : SUBSET Flag]
  /\ DOMAIN cache \subseteq Addr /\ \A a \in DOMAIN cache : cache[a] \in 1..(next - 1)
  /\ DOMAIN aliases \subseteq Addr /\ \A a \in DOMAIN aliases : aliases[a] \in Addr
  /\ muddled \subseteq {"reused", "shared"}

\* An item knows where the cache has it, and what its wrapper wraps.
Keyed ==
  /\ \A a \in DOMAIN cache : cache[a] \in DOMAIN items /\ items[cache[a]].key = a
  /\ \A w \in DOMAIN items \cap DOMAIN wrapped : items[w].key = wrapped[w].this_

\* Until an address is used again: an alias leads to the item it was recorded for,
\* the cache leads to the wrapper of what is at the address, an alias whose native
\* is still there says the same unless one of the two was changed in place, and an
\* item that is not released is cached.
Clean == "reused" \notin muddled =>
  /\ DOMAIN cache \cap DOMAIN aliases = {}
  /\ \A a \in DOMAIN aliases : aliases[a] \in DOMAIN cache /\ items[cache[aliases[a]]].alias = a
  /\ \A a \in DOMAIN cache : cache[a] \in DOMAIN wrapped /\ wrapped[cache[a]].this_ = a
  /\ \A a \in (DOMAIN aliases \cap DOMAIN heap) \ modified :
       aliases[a] \notin modified => wrapped[cache[aliases[a]]].def = heap[a].def
  /\ \A w \in DOMAIN items : "cache" \notin items[w].status =>
       items[w].key \in DOMAIN cache /\ cache[items[w].key] = w

\* No alias is a wrapper's own address.
Unshared == muddled = {} =>
  \A a \in DOMAIN aliases : \A w \in DOMAIN wrapped : wrapped[w].this_ # a

CacheInv == CacheTyped /\ ItemsOutliveUsers /\ Keyed /\ Clean /\ Unshared /\ SameObject

\* Only an SRS that is allocated is known to have been changed in place.
Dated == modified \subseteq DOMAIN heap

IInv == HeapInv /\ CacheInv /\ Dated

LEMMA TrackFacts ==
  ASSUME Track
  PROVE  /\ muddled \subseteq muddled' /\ muddled' \subseteq muddled \cup {"reused", "shared"}
         /\ "reused" \notin muddled' => \A a \in DOMAIN heap' \ DOMAIN heap : ~Has(a)
         /\ "shared" \notin muddled' =>
              \A a \in DOMAIN aliases' \ DOMAIN aliases : \A w \in DOMAIN wrapped : wrapped[w].this_ # a
         /\ modified' \subseteq DOMAIN heap'
         /\ \A a \in (modified \cap DOMAIN heap') \ modified' : a \in DOMAIN aliases' \ DOMAIN aliases
BY DEF Track

LEMMA InitCache == Init => CacheInv /\ Dated
<1> SUFFICES ASSUME Init PROVE CacheInv /\ Dated
  OBVIOUS
<1>1. DOMAIN items = {} /\ DOMAIN cache = {} /\ DOMAIN aliases = {} /\ DOMAIN wrapped = {} /\ muddled = {} /\ modified = {}
  BY DEF Init
<1>2. QED
  BY <1>1 DEF CacheInv, CacheTyped, ItemsOutliveUsers, Keyed, Clean, Unshared, SameObject, Dated

\* The cache is left alone: an SRS may be allocated or freed, and an uncached
\* wrapper made.
LEMMA QuietCache ==
  ASSUME IInv, UNCHANGED <<cache, aliases, items>>,
         next' \in Nat, next <= next',
         DOMAIN wrapped \subseteq DOMAIN wrapped',
         \A w \in DOMAIN wrapped : wrapped'[w] = wrapped[w],
         \A w \in DOMAIN wrapped' \ DOMAIN wrapped :
           /\ w \notin DOMAIN items /\ ~wrapped'[w].cached
           /\ wrapped'[w].this_ \in DOMAIN heap' \ DOMAIN heap,
         \A a \in DOMAIN heap \cap DOMAIN heap' : heap'[a].def = heap[a].def,
         muddled \subseteq muddled', muddled' \subseteq {"reused", "shared"},
         "reused" \notin muddled' => \A a \in DOMAIN heap' \ DOMAIN heap : ~Has(a),
         WrapperKeepsSrs', modified \cap DOMAIN heap' \subseteq modified'
  PROVE  CacheInv'
<1>1. CacheTyped /\ Few /\ next \in Nat
  BY WrapperAssumption DEF IInv, CacheInv, HeapInv, HeapTyped, Few
<1>2. CacheTyped'
  BY <1>1 DEF CacheTyped
<1>3. ItemsOutliveUsers'
  BY DEF ItemsOutliveUsers, IInv, CacheInv
<1>4. Keyed'
  BY DEF Keyed, IInv, CacheInv
<1>5. Clean'
  <2> SUFFICES ASSUME "reused" \notin muddled'
               PROVE  /\ DOMAIN cache \cap DOMAIN aliases = {}
                      /\ \A a \in DOMAIN aliases :
                           aliases[a] \in DOMAIN cache /\ items[cache[aliases[a]]].alias = a
                      /\ \A a \in DOMAIN cache :
                           cache[a] \in DOMAIN wrapped' /\ wrapped'[cache[a]].this_ = a
                      /\ \A a \in (DOMAIN aliases \cap DOMAIN heap') \ modified' :
                           aliases[a] \notin modified' =>
                             wrapped'[cache[aliases[a]]].def = heap'[a].def
                      /\ \A w \in DOMAIN items : "cache" \notin items[w].status =>
                           items[w].key \in DOMAIN cache /\ cache[items[w].key] = w
    BY DEF Clean
  <2>1. "reused" \notin muddled /\ Clean
    BY DEF IInv, CacheInv
  <2>2. ASSUME NEW a \in (DOMAIN aliases \cap DOMAIN heap') \ modified', aliases[a] \notin modified'
        PROVE  wrapped'[cache[aliases[a]]].def = heap'[a].def
    <3>1. a \in DOMAIN heap /\ a \notin modified
      BY <2>2 DEF Has
    <3>2. PICK u \in DOMAIN wrapped : u = cache[aliases[a]] /\ wrapped[u].this_ = aliases[a]
      BY <2>1, <2>2 DEF Clean
    <3>3. aliases[a] \in DOMAIN heap'
      BY <3>2 DEF WrapperKeepsSrs
    <3>4. wrapped[u].def = heap[a].def
      BY <2>1, <2>2, <3>1, <3>2, <3>3 DEF Clean
    <3>5. QED
      BY <2>2, <3>1, <3>2, <3>4
  <2>3. QED
    BY <2>1, <2>2 DEF Clean
<1>6. Unshared'
  <2> SUFFICES ASSUME muddled' = {}, NEW a \in DOMAIN aliases, NEW w \in DOMAIN wrapped'
               PROVE  wrapped'[w].this_ # a
    BY DEF Unshared
  <2>1. CASE w \in DOMAIN wrapped
    BY <2>1 DEF Unshared, IInv, CacheInv
  <2>2. CASE w \notin DOMAIN wrapped
    BY <2>2 DEF Has
  <2>3. QED
    BY <2>1, <2>2
<1>7. SameObject'
  <2>1. DOMAIN items \cap DOMAIN wrapped' = DOMAIN items \cap DOMAIN wrapped
    OBVIOUS
  <2>2. \A a : (Has(a)' <=> Has(a)) /\ (Missing(a)' <=> Missing(a)) /\ Item(a)' = Item(a)
    BY DEF Has, Missing, Item, Key
  <2>3. QED
    BY <2>1, <2>2 DEF SameObject, IInv, CacheInv
<1>8. QED
  BY <1>2, <1>3, <1>4, <1>5, <1>6, <1>7 DEF CacheInv

\* A wrapper is cached under its clone's address, and under the original's.
LEMMA AddCache ==
  ASSUME IInv, NEW k \in Addr, k \notin DOMAIN heap, NEW d \in Def, NEW alias,
         heap' = Alloc(heap, k, d), Wrap(k, d, TRUE), Add(k, alias, next), Track,
         \/ alias = NULL
         \/ alias \in DOMAIN heap /\ ~Has(alias) /\ heap[alias].def = d
  PROVE  CacheInv'
<1>1. /\ CacheTyped /\ Few /\ next \in 1..MaxWrapper /\ next' = next + 1
      /\ next \notin DOMAIN wrapped /\ next \notin DOMAIN items
      /\ DOMAIN heap \subseteq Addr /\ NULL \notin Addr /\ k # alias
  BY WrapperAssumption, NullAssumption
     DEF IInv, CacheInv, CacheTyped, HeapInv, HeapTyped, Few, Wrap
<1>2. /\ DOMAIN heap' = DOMAIN heap \cup {k} /\ heap'[k].def = d
      /\ \A a \in DOMAIN heap : heap'[a] = heap[a]
  BY DEF Alloc, Put
<1>3. /\ DOMAIN wrapped' = DOMAIN wrapped \cup {next}
      /\ wrapped'[next].this_ = k /\ wrapped'[next].def = d
      /\ \A w \in DOMAIN wrapped : wrapped'[w] = wrapped[w]
  BY <1>1 DEF Wrap, Put
<1>4. /\ DOMAIN cache' = DOMAIN cache \cup {k} /\ cache'[k] = next
      /\ \A a \in DOMAIN cache \ {k} : cache'[a] = cache[a]
  BY DEF Add, Put
<1>5. /\ DOMAIN items' = DOMAIN items \cup {next}
      /\ items'[next] = [key |-> k, alias |-> alias, status |-> {}]
      /\ \A w \in DOMAIN items : items'[w] = items[w]
  BY <1>1 DEF Add, Put
<1>6. /\ alias = NULL => aliases' = aliases
      /\ alias # NULL => /\ DOMAIN aliases' = DOMAIN aliases \cup {alias}
                         /\ aliases'[alias] = k
                         /\ \A a \in DOMAIN aliases \ {alias} : aliases'[a] = aliases[a]
  BY DEF Add, Put
<1>7. /\ muddled \subseteq muddled' /\ muddled' \subseteq {"reused", "shared"}
      /\ "reused" \notin muddled' => ~Has(k)
      /\ muddled' = {} =>
           \A a \in DOMAIN aliases' \ DOMAIN aliases : \A w \in DOMAIN wrapped : wrapped[w].this_ # a
      /\ \A a \in (modified \cap DOMAIN heap') \ modified' : a \in DOMAIN aliases' \ DOMAIN aliases
      /\ modified \subseteq DOMAIN heap
  BY <1>1, <1>2, TrackFacts DEF CacheTyped, IInv, Dated
<1>8. /\ \A a \in DOMAIN cache : cache[a] \in DOMAIN items /\ cache[a] # next
      /\ \A w \in DOMAIN wrapped : wrapped[w].cached => w \in DOMAIN items
  BY <1>1 DEF IInv, CacheInv, ItemsOutliveUsers
<1>9. CacheTyped'
  <2>1. /\ DOMAIN items' \subseteq 1..(next' - 1)
        /\ \A a \in DOMAIN cache' : cache'[a] \in 1..(next' - 1)
    BY <1>1, <1>4, <1>5 DEF CacheTyped
  <2>2. items'[next] \in [key : Addr, alias : Addr \cup {NULL}, status : SUBSET Flag]
    BY <1>1, <1>5
  <2>3. DOMAIN aliases' \subseteq Addr /\ \A a \in DOMAIN aliases' : aliases'[a] \in Addr
    BY <1>1, <1>6 DEF CacheTyped
  <2>4. QED
    BY <1>1, <1>4, <1>5, <1>7, <2>1, <2>2, <2>3 DEF CacheTyped
<1>10. ItemsOutliveUsers'
  <2>1. \A a \in DOMAIN cache' : cache'[a] \in DOMAIN items' /\ "cache" \notin items'[cache'[a]].status
    BY <1>4, <1>5, <1>8 DEF IInv, CacheInv, ItemsOutliveUsers
  <2>2. \A w \in DOMAIN wrapped' :
          wrapped'[w].cached => w \in DOMAIN items' /\ "weak" \notin items'[w].status
    BY <1>3, <1>5 DEF IInv, CacheInv, ItemsOutliveUsers
  <2>3. QED
    BY <2>1, <2>2 DEF ItemsOutliveUsers
<1>11. Keyed'
  <2>1. \A a \in DOMAIN cache' : cache'[a] \in DOMAIN items' /\ items'[cache'[a]].key = a
    BY <1>4, <1>5, <1>8 DEF IInv, CacheInv, Keyed
  <2>2. \A w \in DOMAIN items' \cap DOMAIN wrapped' : items'[w].key = wrapped'[w].this_
    BY <1>1, <1>3, <1>5 DEF IInv, CacheInv, Keyed
  <2>3. QED
    BY <2>1, <2>2 DEF Keyed
<1>12. Clean'
  <2> SUFFICES ASSUME "reused" \notin muddled'
               PROVE  Clean'
    BY DEF Clean
  <2>1. /\ "reused" \notin muddled /\ Clean /\ k \notin DOMAIN cache /\ k \notin DOMAIN aliases
        /\ alias # NULL => alias \notin DOMAIN cache /\ alias \notin DOMAIN aliases
    BY <1>1, <1>7 DEF IInv, CacheInv, Has
  <2>2. DOMAIN cache' \cap DOMAIN aliases' = {}
    BY <1>1, <1>4, <1>6, <2>1 DEF Clean
  <2>3. ASSUME NEW a \in DOMAIN aliases'
        PROVE  /\ aliases'[a] \in DOMAIN cache' /\ items'[cache'[aliases'[a]]].alias = a
               /\ a \in DOMAIN heap' \ modified' /\ aliases'[a] \notin modified'
                    => wrapped'[cache'[aliases'[a]]].def = heap'[a].def
    <3>1. CASE a \in DOMAIN aliases
      <4>1. /\ aliases'[a] = aliases[a] /\ aliases[a] \in DOMAIN cache
            /\ cache'[aliases[a]] = cache[aliases[a]] /\ a # k
        BY <1>4, <1>6, <2>1, <3>1 DEF Clean
      <4>2. cache[aliases[a]] \in DOMAIN items /\ cache[aliases[a]] \in DOMAIN wrapped
        BY <1>8, <2>1, <4>1 DEF Clean
      <4>3. /\ items[cache[aliases[a]]].alias = a
            /\ a \in DOMAIN heap \ modified /\ aliases[a] \notin modified
                 => wrapped[cache[aliases[a]]].def = heap[a].def
        BY <2>1, <3>1 DEF Clean
      <4>4. /\ a \in DOMAIN heap' \ modified' => a \in DOMAIN heap \ modified /\ heap'[a] = heap[a]
            /\ aliases'[a] \notin modified' => aliases[a] \notin modified
        <5>1. a \in DOMAIN heap' => a \in DOMAIN heap /\ heap'[a] = heap[a]
          BY <1>2, <4>1
        <5>2. aliases[a] \in DOMAIN aliases' => aliases[a] \in DOMAIN aliases
          BY <1>6, <2>1, <4>1
        <5>3. QED
          BY <1>2, <1>7, <3>1, <4>1, <5>1, <5>2
      <4>5. /\ items'[cache[aliases[a]]] = items[cache[aliases[a]]]
            /\ wrapped'[cache[aliases[a]]] = wrapped[cache[aliases[a]]]
        BY <1>3, <1>5, <4>2
      <4>6. QED
        BY <1>4, <4>1, <4>3, <4>4, <4>5
    <3>2. CASE a \notin DOMAIN aliases
      <4>1. alias # NULL /\ a = alias /\ aliases'[a] = k
        BY <1>6, <3>2
      <4>2. QED
        BY <1>1, <1>2, <1>3, <1>4, <1>5, <4>1
    <3>3. QED
      BY <3>1, <3>2
  <2>4. \A a \in DOMAIN cache' : cache'[a] \in DOMAIN wrapped' /\ wrapped'[cache'[a]].this_ = a
    BY <1>3, <1>4, <2>1 DEF Clean
  <2>5. \A w \in DOMAIN items' : "cache" \notin items'[w].status =>
          items'[w].key \in DOMAIN cache' /\ cache'[items'[w].key] = w
    BY <1>4, <1>5, <2>1 DEF Clean
  <2>6. QED
    BY <2>2, <2>3, <2>4, <2>5 DEF Clean
<1>13. Unshared'
  <2> SUFFICES ASSUME muddled' = {}, NEW a \in DOMAIN aliases', NEW w \in DOMAIN wrapped'
               PROVE  wrapped'[w].this_ # a
    BY DEF Unshared
  <2>1. Unshared /\ muddled = {} /\ k \notin DOMAIN aliases
    BY <1>7 DEF IInv, CacheInv, Has
  <2>2. k \notin DOMAIN aliases'
    BY <1>1, <1>6, <2>1
  <2>3. CASE w = next
    BY <1>3, <2>2, <2>3
  <2>4. CASE w \in DOMAIN wrapped
    BY <1>3, <1>7, <2>1, <2>4 DEF Unshared
  <2>5. QED
    BY <1>3, <2>3, <2>4
<1>14. SameObject'
  <2> SUFFICES ASSUME muddled' = {}, NEW w \in DOMAIN items' \cap DOMAIN wrapped'
               PROVE  /\ items'[w].key = wrapped'[w].this_
                      /\ \A a \in {items'[w].key, items'[w].alias} \ {NULL} :
                           Has(a)' /\ ~Missing(a)' /\ Item(a)' = w
    BY DEF SameObject
  <2>1. /\ muddled = {} /\ SameObject /\ k \notin DOMAIN cache /\ k \notin DOMAIN aliases
        /\ alias # NULL => alias \notin DOMAIN cache /\ alias \notin DOMAIN aliases
    BY <1>7 DEF IInv, CacheInv, Has
  <2>2. k \notin DOMAIN aliases'
    BY <1>1, <1>6, <2>1
  <2>3. CASE w = next
    BY <1>3, <1>4, <1>5, <1>6, <2>2, <2>3 DEF Has, Missing, Item, Key
  <2>4. CASE w # next
    <3>1. /\ w \in DOMAIN items \cap DOMAIN wrapped
          /\ items'[w] = items[w] /\ wrapped'[w] = wrapped[w]
      BY <1>3, <1>5, <2>4
    <3>2. ASSUME NEW a \in {items[w].key, items[w].alias} \ {NULL}
          PROVE  Has(a)' /\ ~Missing(a)' /\ Item(a)' = w
      <4>1. Has(a) /\ ~Missing(a) /\ Item(a) = w
        BY <2>1, <3>1, <3>2 DEF SameObject
      <4>2. /\ a # k /\ a # alias
            /\ a \in DOMAIN aliases' <=> a \in DOMAIN aliases
            /\ a \in DOMAIN aliases => aliases'[a] = aliases[a]
        BY <1>6, <2>1, <4>1 DEF Has
      <4>3. Key(a)' = Key(a) /\ Key(a) \in DOMAIN cache /\ Key(a) # k
        BY <2>1, <4>1, <4>2 DEF Missing, Key
      <4>4. QED
        BY <1>4, <4>1, <4>2, <4>3 DEF Has, Missing, Item
    <3>3. QED
      BY <2>1, <3>1, <3>2 DEF SameObject
  <2>5. QED
    BY <2>3, <2>4
<1>15. QED
  BY <1>9, <1>10, <1>11, <1>12, <1>13, <1>14 DEF CacheInv

-------------------------------------------------------------------------------
\* A party lets item v go: the item is gone or remembers that, and the others stay.
Let(v, flag) ==
  /\ DOMAIN items' \subseteq DOMAIN items
  /\ \A u \in DOMAIN items \ {v} : u \in DOMAIN items' /\ items'[u] = items[u]
  /\ v \in DOMAIN items' <=> items[v].status \cup {flag} # Flag
  /\ v \in DOMAIN items' =>
       /\ items'[v] \in [key : Addr, alias : Addr \cup {NULL}, status : SUBSET Flag]
       /\ items'[v].key = items[v].key /\ items'[v].alias = items[v].alias
       /\ items'[v].status = items[v].status \cup {flag}

LEMMA ReleaseFacts ==
  ASSUME CacheTyped, NEW v \in DOMAIN items, NEW flag \in Flag, items' = Release(v, flag)
  PROVE  Let(v, flag)
<1>1. items[v] \in [key : Addr, alias : Addr \cup {NULL}, status : SUBSET Flag]
  BY DEF CacheTyped
<1>2. CASE items[v].status \cup {flag} = Flag
  BY <1>2 DEF Release, Without, Restrict, Let
<1>3. CASE items[v].status \cup {flag} # Flag
  <2>1. /\ DOMAIN items' = DOMAIN items
        /\ \A u \in DOMAIN items \ {v} : items'[u] = items[u]
        /\ items'[v] = [items[v] EXCEPT !.status = @ \cup {flag}]
    BY <1>3 DEF Release
  <2>2. /\ items'[v] \in [key : Addr, alias : Addr \cup {NULL}, status : SUBSET Flag]
        /\ items'[v].key = items[v].key /\ items'[v].alias = items[v].alias
        /\ items'[v].status = items[v].status \cup {flag}
    BY <1>1, <2>1
  <2>3. QED
    BY <1>3, <2>1, <2>2 DEF Let
<1>4. QED
  BY <1>2, <1>3

\* A release changes nothing of what the SRSs that stay say.
LEMMA UnrefDef ==
  ASSUME NEW g, NEW b \in DOMAIN g, g[b] \in Srs, heap' = Unref(g, b)
  PROVE  DOMAIN heap' \subseteq DOMAIN g /\ \A e \in DOMAIN heap' : heap'[e].def = g[e].def
<1>1. CASE g[b].refs = 1
  BY <1>1 DEF Unref, Without, Restrict
<1>2. CASE g[b].refs # 1
  <2>1. /\ DOMAIN heap' = DOMAIN g /\ \A e \in DOMAIN g \ {b} : heap'[e] = g[e]
        /\ heap'[b] = [g[b] EXCEPT !.refs = @ - 1]
    BY <1>2 DEF Unref
  <2>2. heap'[b].def = g[b].def
    BY <2>1 DEF Srs
  <2>3. QED
    BY <2>1, <2>2
<1>3. QED
  BY <1>1, <1>2

\* A wrapper is destroyed, and the item the cache has for its SRS is erased.
LEMMA FinalizeCache ==
  ASSUME IInv, HeapInv', NEW w, Finalize(w)
  PROVE  CacheInv'
<1>1. /\ CacheTyped /\ ItemsOutliveUsers /\ Keyed /\ HeapTyped /\ WrapperKeepsSrs
      /\ w \in DOMAIN wrapped /\ next' = next
  BY DEF IInv, CacheInv, HeapInv, HeapTyped, Finalize
<1>2. PICK a \in DOMAIN heap : a = wrapped[w].this_ /\ a \in Addr /\ heap[a] \in Srs
  BY <1>1 DEF HeapTyped, WrapperKeepsSrs
<1>3. /\ DOMAIN wrapped' = DOMAIN wrapped \ {w}
      /\ \A u \in DOMAIN wrapped' : wrapped'[u] = wrapped[u]
      /\ heap' = Unref(heap, a) /\ Erase(a) /\ Track
  BY <1>2 DEF Finalize, Without, Restrict
<1>4. DOMAIN heap' \subseteq DOMAIN heap /\ \A e \in DOMAIN heap' : heap'[e].def = heap[e].def
  BY <1>2, <1>3, UnrefDef
<1>5. /\ muddled \subseteq muddled' /\ muddled' \subseteq {"reused", "shared"}
      /\ modified \cap DOMAIN heap' \subseteq modified'
  <2>1. DOMAIN aliases' \subseteq DOMAIN aliases
    BY <1>3 DEF Erase, Without, Restrict
  <2>2. QED
    BY <1>1, <1>3, <2>1, TrackFacts DEF CacheTyped
<1>6. \A c \in DOMAIN cache : "reused" \notin muddled /\ cache[c] = w => c = a /\ Key(a) = a
  <2> SUFFICES ASSUME NEW c \in DOMAIN cache, "reused" \notin muddled, cache[c] = w
               PROVE  c = a /\ Key(a) = a
    OBVIOUS
  <2>1. Clean
    BY DEF IInv, CacheInv
  <2>2. QED
    BY <1>2, <2>1 DEF Clean, Key
<1>7. CASE ~Has(a)
  <2>1. UNCHANGED <<cache, aliases, items>>
    BY <1>3, <1>7 DEF Erase
  <2>2. CacheTyped' /\ ItemsOutliveUsers' /\ Keyed'
    BY <1>1, <1>3, <1>5, <2>1 DEF CacheTyped, ItemsOutliveUsers, Keyed
  <2>3. ASSUME "reused" \notin muddled PROVE \A c \in DOMAIN cache : cache[c] # w
    BY <1>6, <1>7, <2>3 DEF Has
  <2>4. Clean'
    <3> SUFFICES ASSUME "reused" \notin muddled' PROVE Clean'
      BY DEF Clean
    <3>1. "reused" \notin muddled /\ Clean /\ \A c \in DOMAIN cache : cache[c] # w
      BY <1>5, <2>3 DEF IInv, CacheInv
    <3>2. \A c \in DOMAIN cache : cache[c] \in DOMAIN wrapped' /\ wrapped'[cache[c]].this_ = c
      BY <1>3, <3>1 DEF Clean
    <3>3. \A c \in DOMAIN cache : c \in modified => c \in modified'
      BY <1>5, <3>2 DEF HeapInv, WrapperKeepsSrs
    <3>4. ASSUME NEW b \in (DOMAIN aliases \cap DOMAIN heap') \ modified', aliases[b] \notin modified'
          PROVE  wrapped'[cache[aliases[b]]].def = heap'[b].def
      <4>1. /\ b \in (DOMAIN aliases \cap DOMAIN heap) \ modified /\ aliases[b] \notin modified
            /\ aliases[b] \in DOMAIN cache
        BY <1>4, <1>5, <3>1, <3>3, <3>4 DEF Clean
      <4>2. wrapped[cache[aliases[b]]].def = heap[b].def
        BY <3>1, <4>1 DEF Clean
      <4>3. QED
        BY <1>3, <1>4, <3>2, <3>4, <4>1, <4>2
    <3>5. QED
      BY <2>1, <3>1, <3>2, <3>4 DEF Clean
  <2>5. Unshared'
    BY <1>3, <1>5, <2>1 DEF Unshared, IInv, CacheInv
  <2>6. SameObject'
    <3>1. \A b : (Has(b)' <=> Has(b)) /\ (Missing(b)' <=> Missing(b)) /\ Item(b)' = Item(b)
      BY <2>1 DEF Has, Missing, Item, Key
    <3>2. QED
      BY <1>3, <1>5, <2>1, <3>1 DEF SameObject, IInv, CacheInv
  <2>7. QED
    BY <2>2, <2>4, <2>5, <2>6 DEF CacheInv
<1>8. CASE Has(a)
  <2>1. PICK key : key = Key(a) /\ key \in DOMAIN cache
    BY <1>3, <1>8 DEF Erase, Missing
  <2>2. PICK v : v = cache[key] /\ v = Item(a) /\ v \in DOMAIN items /\ items[v].key = key
    BY <1>1, <2>1 DEF Item, Keyed
  <2>3. /\ DOMAIN cache' = DOMAIN cache \ {key}
        /\ \A c \in DOMAIN cache' : cache'[c] = cache[c]
        /\ DOMAIN aliases' = DOMAIN aliases \ {items[v].alias}
        /\ \A b \in DOMAIN aliases' : aliases'[b] = aliases[b]
        /\ items' = Release(v, "cache")
    BY <1>3, <1>8, <2>2 DEF Erase, Without, Restrict
  <2>4. Let(v, "cache")
    BY <1>1, <2>2, <2>3, ReleaseFacts DEF Flag
  <2>5. \A c \in DOMAIN cache' : cache[c] # v /\ cache[c] \in DOMAIN items
    BY <1>1, <2>2, <2>3 DEF Keyed
  <2>6. CacheTyped'
    BY <1>1, <1>5, <2>3, <2>4 DEF CacheTyped, Let
  <2>7. ItemsOutliveUsers'
    <3>1. \A c \in DOMAIN cache' : cache'[c] \in DOMAIN items' /\ "cache" \notin items'[cache'[c]].status
      BY <1>1, <2>3, <2>4, <2>5 DEF ItemsOutliveUsers, Let
    <3>2. ASSUME NEW u \in DOMAIN wrapped', wrapped'[u].cached
          PROVE  u \in DOMAIN items' /\ "weak" \notin items'[u].status
      <4>1. u \in DOMAIN items /\ "weak" \notin items[u].status
        BY <1>1, <1>3, <3>2 DEF ItemsOutliveUsers
      <4>2. CASE u = v
        BY <2>4, <4>1, <4>2 DEF Let, Flag
      <4>3. CASE u # v
        BY <2>4, <4>1, <4>3 DEF Let
      <4>4. QED
        BY <4>2, <4>3
    <3>3. QED
      BY <3>1, <3>2 DEF ItemsOutliveUsers
  <2>8. Keyed'
    <3>1. \A c \in DOMAIN cache' : cache'[c] \in DOMAIN items' /\ items'[cache'[c]].key = c
      BY <1>1, <2>3, <2>4, <2>5 DEF Keyed, Let
    <3>2. \A u \in DOMAIN items' \cap DOMAIN wrapped' : items'[u].key = wrapped'[u].this_
      BY <1>1, <1>3, <2>4 DEF Keyed, Let
    <3>3. QED
      BY <3>1, <3>2 DEF Keyed
  <2>9. Clean'
    <3> SUFFICES ASSUME "reused" \notin muddled' PROVE Clean'
      BY DEF Clean
    <3>1. "reused" \notin muddled /\ Clean
      BY <1>5 DEF IInv, CacheInv
    <3>2. \A c \in DOMAIN cache' : cache[c] # w
      BY <1>6, <2>1, <2>3, <3>1
    <3>3. DOMAIN cache' \cap DOMAIN aliases' = {}
      BY <2>3, <3>1 DEF Clean
    <3>4. ASSUME NEW b \in DOMAIN aliases'
          PROVE  /\ aliases'[b] \in DOMAIN cache' /\ items'[cache'[aliases'[b]]].alias = b
                 /\ b \in DOMAIN heap' \ modified' /\ aliases'[b] \notin modified'
                      => wrapped'[cache'[aliases'[b]]].def = heap'[b].def
      <4>1. PICK c \in DOMAIN cache : c = aliases[b] /\ aliases'[b] = c /\ items[cache[c]].alias = b
        BY <2>3, <3>1, <3>4 DEF Clean
      <4>2. c # key
        BY <2>2, <2>3, <3>4, <4>1
      <4>3. c \in DOMAIN cache' /\ cache'[c] = cache[c]
        BY <2>3, <4>2
      <4>4. items'[cache[c]] = items[cache[c]]
        BY <2>4, <2>5, <4>3 DEF Let
      <4>5. wrapped'[cache[c]] = wrapped[cache[c]]
        BY <1>3, <3>1, <3>2, <4>3 DEF Clean
      <4>6. b \in DOMAIN heap' \ modified' /\ c \notin modified' => wrapped[cache[c]].def = heap'[b].def
        <5>1. c \in DOMAIN heap'
          BY <1>3, <3>1, <3>2, <4>3 DEF Clean, HeapInv, WrapperKeepsSrs
        <5>2. /\ b \in DOMAIN heap' \ modified' => b \in DOMAIN heap \ modified /\ heap'[b].def = heap[b].def
              /\ c \notin modified' => c \notin modified
          BY <1>4, <1>5, <5>1
        <5>3. QED
          BY <2>3, <3>1, <3>4, <4>1, <5>2 DEF Clean
      <4>7. QED
        BY <4>1, <4>3, <4>4, <4>5, <4>6
    <3>5. \A c \in DOMAIN cache' : cache'[c] \in DOMAIN wrapped' /\ wrapped'[cache'[c]].this_ = c
      BY <1>3, <2>3, <3>1, <3>2 DEF Clean
    <3>6. ASSUME NEW u \in DOMAIN items', "cache" \notin items'[u].status
          PROVE  items'[u].key \in DOMAIN cache' /\ cache'[items'[u].key] = u
      <4>1. u # v /\ u \in DOMAIN items /\ items'[u] = items[u]
        BY <2>4, <3>6 DEF Let
      <4>2. items[u].key \in DOMAIN cache /\ cache[items[u].key] = u
        BY <3>1, <3>6, <4>1 DEF Clean
      <4>3. QED
        BY <2>2, <2>3, <4>1, <4>2
    <3>7. QED
      BY <3>3, <3>4, <3>5, <3>6 DEF Clean
  <2>10. Unshared'
    BY <1>3, <1>5, <2>3 DEF Unshared, IInv, CacheInv
  <2>11. SameObject'
    <3> SUFFICES ASSUME muddled' = {}, NEW u \in DOMAIN items' \cap DOMAIN wrapped'
                 PROVE  /\ items'[u].key = wrapped'[u].this_
                        /\ \A b \in {items'[u].key, items'[u].alias} \ {NULL} :
                             Has(b)' /\ ~Missing(b)' /\ Item(b)' = u
      BY DEF SameObject
    <3>1. muddled = {} /\ Clean /\ Unshared /\ SameObject
      BY <1>5 DEF IInv, CacheInv
    <3>2. a \notin DOMAIN aliases /\ key = a
      BY <1>1, <1>2, <2>1, <3>1 DEF Unshared, Key
    <3>3. v = w
      <4>1. v \in DOMAIN wrapped /\ wrapped[v].this_ = a
        BY <2>1, <2>2, <3>1, <3>2 DEF Clean
      <4>2. QED
        BY <1>1, <1>2, <4>1 DEF WrapperKeepsSrs
    <3>4. /\ u \in DOMAIN items \cap DOMAIN wrapped /\ u # v
          /\ items'[u] = items[u] /\ wrapped'[u] = wrapped[u]
      BY <1>3, <2>4, <3>3 DEF Let
    <3>5. ASSUME NEW b \in {items[u].key, items[u].alias} \ {NULL}
          PROVE  Has(b)' /\ ~Missing(b)' /\ Item(b)' = u
      <4>1. Has(b) /\ ~Missing(b) /\ Item(b) = u
        BY <3>1, <3>4, <3>5 DEF SameObject
      <4>2. b # items[v].alias
        BY <1>1, <2>2, <3>1, <3>3, <3>4, <3>5, <4>1 DEF SameObject
      <4>3. Key(b) \in DOMAIN cache /\ cache[Key(b)] = u
        BY <4>1 DEF Missing, Item
      <4>4. Key(b) # key
        BY <2>2, <3>4, <4>3
      <4>5. Key(b)' = Key(b) /\ (b \in DOMAIN aliases' <=> b \in DOMAIN aliases)
        BY <2>3, <4>2 DEF Key
      <4>6. Key(b) \in DOMAIN cache' /\ cache'[Key(b)] = u
        BY <2>3, <4>3, <4>4
      <4>7. Has(b)'
        BY <2>3, <4>1, <4>4, <4>5 DEF Has, Key
      <4>8. QED
        BY <4>5, <4>6, <4>7 DEF Missing, Item
    <3>6. QED
      BY <3>1, <3>4, <3>5 DEF SameObject
  <2>12. QED
    BY <2>6, <2>7, <2>8, <2>9, <2>10, <2>11 DEF CacheInv
<1>9. QED
  BY <1>7, <1>8

\* The weak callback frees an item that the cache does not have any more, or leaves
\* it to the cache.
LEMMA WeakCache ==
  ASSUME IInv, NEW w \in DOMAIN items, WeakCallback(w)
  PROVE  CacheInv'
<1>1. /\ CacheTyped /\ ItemsOutliveUsers /\ Keyed
      /\ w \notin DOMAIN wrapped
      /\ items' = Release(w, "weak")
      /\ UNCHANGED <<heap, cache, aliases, wrapped, next, muddled, modified>>
  BY DEF IInv, CacheInv, WeakCallback, history
<1>2. Let(w, "weak")
  BY <1>1, ReleaseFacts DEF Flag
<1>3. CacheTyped'
  BY <1>1, <1>2 DEF CacheTyped, Let
<1>4. \A c \in DOMAIN cache : /\ cache[c] \in DOMAIN items' /\ "cache" \notin items'[cache[c]].status
                             /\ items'[cache[c]].key = items[cache[c]].key
  <2> SUFFICES ASSUME NEW c \in DOMAIN cache
               PROVE  /\ cache[c] \in DOMAIN items' /\ "cache" \notin items'[cache[c]].status
                      /\ items'[cache[c]].key = items[cache[c]].key
    OBVIOUS
  <2>1. cache[c] \in DOMAIN items /\ "cache" \notin items[cache[c]].status
    BY <1>1 DEF ItemsOutliveUsers
  <2>2. CASE cache[c] = w
    <3>1. items[w].status \cup {"weak"} # Flag /\ "cache" \notin items[w].status \cup {"weak"}
      BY <2>1, <2>2 DEF Flag
    <3>2. QED
      BY <1>2, <2>2, <3>1 DEF Let
  <2>3. CASE cache[c] # w
    BY <1>2, <2>1, <2>3 DEF Let
  <2>4. QED
    BY <2>2, <2>3
<1>5. \A u \in DOMAIN items \cap DOMAIN wrapped : u \in DOMAIN items' /\ items'[u] = items[u]
  BY <1>1, <1>2 DEF Let
<1>6. ItemsOutliveUsers'
  BY <1>1, <1>4, <1>5 DEF ItemsOutliveUsers
<1>7. Keyed'
  BY <1>1, <1>2, <1>4, <1>5 DEF Keyed, Let
<1>8. Clean'
  <2> SUFFICES ASSUME "reused" \notin muddled PROVE Clean'
    BY <1>1 DEF Clean
  <2>1. Clean
    BY DEF IInv, CacheInv
  <2>2. \A c \in DOMAIN cache : items'[cache[c]] = items[cache[c]]
    BY <1>1, <1>5, <2>1 DEF Clean, ItemsOutliveUsers
  <2>3. ASSUME NEW u \in DOMAIN items', "cache" \notin items'[u].status
        PROVE  items'[u].key \in DOMAIN cache /\ cache[items'[u].key] = u
    <3>1. u \in DOMAIN items /\ "cache" \notin items[u].status /\ items'[u].key = items[u].key
      BY <1>2, <2>3 DEF Let
    <3>2. QED
      BY <2>1, <3>1 DEF Clean
  <2>4. QED
    BY <1>1, <2>1, <2>2, <2>3 DEF Clean
<1>9. Unshared'
  BY <1>1 DEF Unshared, IInv, CacheInv
<1>10. SameObject'
  <2>1. \A b : (Has(b)' <=> Has(b)) /\ (Missing(b)' <=> Missing(b)) /\ Item(b)' = Item(b)
    BY <1>1 DEF Has, Missing, Item, Key
  <2>2. \A u \in DOMAIN items' \cap DOMAIN wrapped' : u \in DOMAIN items \cap DOMAIN wrapped
    BY <1>1, <1>2 DEF Let
  <2>3. QED
    BY <1>1, <1>5, <2>1, <2>2 DEF SameObject, IInv, CacheInv
<1>11. QED
  BY <1>3, <1>6, <1>7, <1>8, <1>9, <1>10 DEF CacheInv

\* A change in place leaves the cache alone, and its answers agree no longer.
LEMMA ModifyCache ==
  ASSUME IInv, NEW w \in held, NEW d \in Def, Modify(w, d)
  PROVE  CacheInv'
<1>1. /\ CacheTyped /\ WrapperKeepsSrs /\ w \in DOMAIN wrapped /\ wrapped[w] \in Wrapped
      /\ UNCHANGED <<cache, aliases, items, next, muddled>>
  BY DEF IInv, CacheInv, HeapInv, HeapTyped, Modify, CacheVars
<1>2. PICK a \in DOMAIN heap : a = wrapped[w].this_
  BY <1>1 DEF WrapperKeepsSrs
<1>3. /\ DOMAIN heap' = DOMAIN heap /\ \A e \in DOMAIN heap \ {a} : heap'[e] = heap[e]
      /\ DOMAIN wrapped' = DOMAIN wrapped /\ \A v \in DOMAIN wrapped \ {w} : wrapped'[v] = wrapped[v]
      /\ wrapped'[w] = [wrapped[w] EXCEPT !.def = d]
      /\ modified' = modified \cup {a}
  BY <1>1, <1>2 DEF Modify
<1>4. \A v \in DOMAIN wrapped : /\ wrapped'[v].this_ = wrapped[v].this_
                                /\ wrapped'[v].cached = wrapped[v].cached
  BY <1>1, <1>3 DEF Wrapped
<1>5. CacheTyped' /\ ItemsOutliveUsers' /\ Keyed'
  BY <1>1, <1>3, <1>4 DEF IInv, CacheInv, CacheTyped, ItemsOutliveUsers, Keyed
<1>6. Clean'
  <2> SUFFICES ASSUME "reused" \notin muddled PROVE Clean'
    BY <1>1 DEF Clean
  <2>1. Clean
    BY DEF IInv, CacheInv
  <2>2. ASSUME NEW b \in (DOMAIN aliases \cap DOMAIN heap') \ modified', aliases[b] \notin modified'
        PROVE  wrapped'[cache[aliases[b]]].def = heap'[b].def
    <3>1. PICK u \in DOMAIN wrapped : u = cache[aliases[b]] /\ wrapped[u].this_ = aliases[b]
      BY <2>1, <2>2 DEF Clean
    <3>2. u # w /\ b # a
      BY <1>2, <1>3, <2>2, <3>1
    <3>3. wrapped[u].def = heap[b].def
      BY <1>3, <2>1, <2>2, <3>1 DEF Clean
    <3>4. QED
      BY <1>3, <2>2, <3>1, <3>2, <3>3
  <2>3. \A c \in DOMAIN cache : cache[c] \in DOMAIN wrapped' /\ wrapped'[cache[c]].this_ = c
    BY <1>3, <1>4, <2>1 DEF Clean
  <2>4. QED
    BY <1>1, <2>1, <2>2, <2>3 DEF Clean
<1>7. Unshared'
  BY <1>1, <1>3, <1>4 DEF Unshared, IInv, CacheInv
<1>8. SameObject'
  <2>1. \A b : (Has(b)' <=> Has(b)) /\ (Missing(b)' <=> Missing(b)) /\ Item(b)' = Item(b)
    BY <1>1 DEF Has, Missing, Item, Key
  <2>2. QED
    BY <1>1, <1>3, <1>4, <2>1 DEF SameObject, IInv, CacheInv
<1>9. QED
  BY <1>5, <1>6, <1>7, <1>8 DEF CacheInv

\* The history stays about SRSs that are allocated.
LEMMA NextDated ==
  ASSUME IInv, [Next]_vars
  PROVE  Dated'
<1>1. Dated /\ HeapTyped /\ WrapperKeepsSrs
  BY DEF IInv, HeapInv
<1>2. Track => Dated'
  BY TrackFacts DEF Dated
<1>3. ASSUME NEW g \in Holder, NEW h \in Holder, Share(g, h) PROVE Dated'
  BY <1>1, <1>3 DEF Share, Ref, Dated, history
<1>4. ASSUME NEW w \in held, NEW d \in Def, Modify(w, d) PROVE Dated'
  <2>1. wrapped[w].this_ \in DOMAIN heap
    BY <1>1 DEF HeapTyped, WrapperKeepsSrs
  <2>2. QED
    BY <1>1, <1>4, <2>1 DEF Modify, Dated
<1>5. ASSUME UNCHANGED <<heap, history>> PROVE Dated'
  BY <1>1, <1>5 DEF Dated, history
<1>6. QED
  BY <1>2, <1>3, <1>4, <1>5 DEF Next, vars, Construct, NewOwned, NewUnowned, Load, Assign, Discard,
     Drop, Collect, Finalize, WeakCallback

-------------------------------------------------------------------------------
\* What a step does to the cache.
LEMMA NextCache ==
  ASSUME IInv, HeapInv', [Next]_vars
  PROVE  CacheInv'
<1>1. /\ CacheTyped /\ HeapTyped /\ WrapperKeepsSrs /\ next \in Nat
      /\ muddled \subseteq {"reused", "shared"} /\ next \notin DOMAIN items /\ next \notin DOMAIN wrapped
      /\ WrapperKeepsSrs'
  BY WrapperAssumption DEF IInv, CacheInv, HeapInv, HeapTyped, CacheTyped, Few
<1> DEFINE Grows == /\ muddled \subseteq muddled' /\ muddled' \subseteq {"reused", "shared"}
                    /\ "reused" \notin muddled' => \A a \in DOMAIN heap' \ DOMAIN heap : ~Has(a)
                    /\ UNCHANGED aliases => modified \cap DOMAIN heap' \subseteq modified'
<1>2. Track => Grows
  BY <1>1, TrackFacts
<1> HIDE DEF Grows
<1>3. ASSUME NEW a \in Addr, NEW d \in Def, Construct(a, d) PROVE CacheInv'
  BY <1>3, AddCache DEF Construct
<1>4. ASSUME NEW raw \in Addr, NEW k \in Addr, NEW d \in Def, NewOwned(raw, k, d) PROVE CacheInv'
  <2>1. raw \notin DOMAIN heap /\ k \notin DOMAIN heap /\ Grows
    BY <1>2, <1>4 DEF NewOwned
  <2>2. CASE Has(raw)
    <3>1. /\ heap' = Alloc(heap, raw, d)
          /\ UNCHANGED <<cache, aliases, items, wrapped, next>>
      BY <1>4, <2>2 DEF NewOwned, Answer
    <3>2. \A a \in DOMAIN heap \cap DOMAIN heap' : heap'[a].def = heap[a].def
      BY <2>1, <3>1 DEF Alloc, Put
    <3>3. QED
      BY <1>1, <2>1, <3>1, <3>2, QuietCache DEF Grows
  <2>3. CASE ~Has(raw)
    <3>1. /\ heap' = Alloc(heap, k, d) /\ Wrap(k, d, FALSE)
          /\ UNCHANGED <<cache, aliases, items>>
      BY <1>4, <2>3 DEF NewOwned
    <3>2. /\ \A a \in DOMAIN heap \cap DOMAIN heap' : heap'[a].def = heap[a].def
          /\ k \in DOMAIN heap' \ DOMAIN heap
      BY <2>1, <3>1 DEF Alloc, Put
    <3>3. /\ next' \in Nat /\ next <= next'
          /\ DOMAIN wrapped' = DOMAIN wrapped \cup {next}
          /\ wrapped'[next].this_ = k /\ ~wrapped'[next].cached
          /\ \A w \in DOMAIN wrapped : wrapped'[w] = wrapped[w]
      BY <1>1, <3>1 DEF Wrap, Put
    <3>4. QED
      BY <1>1, <2>1, <3>1, <3>2, <3>3, QuietCache DEF Grows
  <2>4. QED
    BY <2>2, <2>3
<1>5. ASSUME NEW h \in Holder, NEW k \in Addr, NewUnowned(h, k) PROVE CacheInv'
  <2>1. PICK raw \in DOMAIN heap : raw = holder[h] /\ k \notin DOMAIN heap
    BY <1>1, <1>5 DEF NewUnowned, HeapTyped
  <2>2. CASE Has(raw)
    <3>1. UNCHANGED <<heap, cache, aliases, items, wrapped, next>> /\ Grows
      BY <1>2, <1>5, <2>1, <2>2 DEF NewUnowned, Answer
    <3>2. QED
      BY <1>1, <3>1, QuietCache DEF Grows
  <2>3. CASE ~Has(raw)
    <3>1. PICK d \in Def : d = heap[raw].def
      BY <1>1, <2>1 DEF HeapTyped, Srs
    <3>2. QED
      BY <1>5, <2>1, <2>3, <3>1, AddCache DEF NewUnowned
  <2>4. QED
    BY <2>2, <2>3
<1>6. ASSUME NEW h \in Holder, NEW a \in Addr, NEW d \in Def, Load(h, a, d) PROVE CacheInv'
  <2>1. UNCHANGED <<cache, aliases, items, wrapped, next>> /\ Grows
    BY <1>2, <1>6 DEF Load, CacheVars, WrapperVars
  <2>2. \A e \in DOMAIN heap \cap DOMAIN heap' : heap'[e].def = heap[e].def
    BY <1>6 DEF Load, Alloc, Put
  <2>3. QED
    BY <1>1, <2>1, <2>2, QuietCache DEF Grows
<1>7. ASSUME NEW h \in Holder, NEW w \in held, Assign(h, w) PROVE CacheInv'
  <2>1. UNCHANGED <<cache, aliases, items, wrapped, next>> /\ Grows
    BY <1>2, <1>7 DEF Assign, CacheVars, WrapperVars
  <2>2. PICK a \in DOMAIN heap : a = wrapped[w].this_ /\ heap[a] \in Srs
    BY <1>1 DEF HeapTyped, WrapperKeepsSrs
  <2>3. PICK g : g = Ref(heap, a)
    OBVIOUS
  <2>4. DOMAIN g = DOMAIN heap /\ \A e \in DOMAIN g : g[e] \in Srs /\ g[e].def = heap[e].def
    BY <1>1, <2>2, <2>3 DEF Ref, HeapTyped, Srs
  <2>5. \A e \in DOMAIN heap \cap DOMAIN heap' : heap'[e].def = heap[e].def
    <3>1. CASE holder[h] = NULL
      BY <1>7, <2>2, <2>3, <2>4, <3>1 DEF Assign
    <3>2. CASE holder[h] # NULL
      <4>1. PICK b \in DOMAIN g : b = holder[h]
        BY <1>1, <2>4, <3>2 DEF HeapTyped
      <4>2. heap' = Unref(g, b)
        BY <1>7, <2>2, <2>3, <3>2, <4>1 DEF Assign
      <4>3. QED
        BY <2>4, <4>2, UnrefDef
    <3>3. QED
      BY <3>1, <3>2
  <2>6. QED
    BY <1>1, <2>1, <2>5, QuietCache DEF Grows
<1>8. ASSUME NEW g \in Holder, NEW h \in Holder, Share(g, h) PROVE CacheInv'
  <2>1. UNCHANGED <<cache, aliases, items, wrapped, next, history>> /\ heap' = Ref(heap, holder[h])
    BY <1>8 DEF Share, CacheVars, WrapperVars
  <2>2. DOMAIN heap' = DOMAIN heap /\ \A e \in DOMAIN heap : heap'[e].def = heap[e].def
    BY <1>1, <2>1 DEF Ref, HeapTyped, Srs
  <2>3. QED
    BY <1>1, <2>1, <2>2, QuietCache DEF history
<1>9. ASSUME NEW h \in Holder, Discard(h) PROVE CacheInv'
  <2>1. UNCHANGED <<cache, aliases, items, wrapped, next>> /\ Grows
    BY <1>2, <1>9 DEF Discard, CacheVars, WrapperVars
  <2>2. PICK b \in DOMAIN heap : b = holder[h] /\ heap[b] \in Srs
    BY <1>1, <1>9 DEF Discard, HeapTyped
  <2>3. \A e \in DOMAIN heap \cap DOMAIN heap' : heap'[e].def = heap[e].def
    BY <1>9, <2>2, UnrefDef DEF Discard
  <2>4. QED
    BY <1>1, <2>1, <2>3, QuietCache DEF Grows
<1>10. ASSUME NEW w \in held, Drop(w) PROVE CacheInv'
  BY <1>1, <1>10, QuietCache DEF Drop, CacheVars, history
<1>11. ASSUME NEW S \in SUBSET DOMAIN wrapped, Collect(S) PROVE CacheInv'
  BY <1>1, <1>11, QuietCache DEF Collect, CacheVars, history
<1>12. ASSUME NEW w \in pending, Finalize(w) PROVE CacheInv'
  BY <1>12, FinalizeCache
<1>13. ASSUME NEW w \in DOMAIN items, WeakCallback(w) PROVE CacheInv'
  BY <1>13, WeakCache
<1>14. ASSUME NEW w \in held, NEW d \in Def, Modify(w, d) PROVE CacheInv'
  BY <1>14, ModifyCache
<1>15. CASE UNCHANGED vars
  BY <1>1, <1>15, QuietCache DEF vars, history
<1>16. QED
  BY <1>3, <1>4, <1>5, <1>6, <1>7, <1>8, <1>9, <1>10, <1>11, <1>12, <1>13, <1>14, <1>15 DEF Next

-------------------------------------------------------------------------------
\* Whatever layers, geometries, wrappers, the collector and the allocator do, in any
\* order, natives keep their users and the cache is worth what IInv says.
THEOREM Invariance == Spec => []IInv
<1>1. Init => IInv
  BY InitHeap, InitCache DEF IInv
<1>2. IInv /\ [Next]_vars => IInv'
  <2>1. IInv /\ [Next]_vars => HeapInv'
    BY NextHeap DEF IInv
  <2>2. QED
    BY <2>1, NextCache, NextDated DEF IInv
<1>3. QED
  BY <1>1, <1>2, PTL DEF Spec

LEMMA IInvHolds == IInv => TypeOK /\ AnswersAgree /\ CollectedReleased
<1> SUFFICES ASSUME IInv PROVE TypeOK /\ AnswersAgree /\ CollectedReleased
  OBVIOUS
<1>1. HeapTyped /\ CacheTyped /\ Few /\ WrapperKeepsSrs /\ Clean /\ Dated
  BY DEF IInv, HeapInv, CacheInv, HeapTyped
<1>2. TypeOK
  BY <1>1 DEF HeapTyped, CacheTyped, Few, Srs, Wrapped, Dated, TypeOK
<1>3. AnswersAgree
  <2> SUFFICES ASSUME "reused" \notin muddled, NEW a \in Addr, Has(a)
               PROVE  /\ ~Missing(a) /\ Item(a) \in DOMAIN wrapped
                      /\ a \in DOMAIN heap /\ {a, wrapped[Item(a)].this_} \cap modified = {}
                           => wrapped[Item(a)].def = heap[a].def
    BY DEF AnswersAgree
  <2>1. CASE a \in DOMAIN aliases
    <3>1. /\ Key(a) = aliases[a] /\ aliases[a] \in DOMAIN cache /\ Item(a) = cache[aliases[a]]
          /\ Item(a) \in DOMAIN wrapped /\ wrapped[Item(a)].this_ = aliases[a]
      BY <1>1, <2>1 DEF Clean, Item, Key
    <3>2. QED
      BY <1>1, <2>1, <3>1 DEF Clean, Missing
  <2>2. CASE a \notin DOMAIN aliases
    <3>1. a \in DOMAIN cache /\ Key(a) = a
      BY <2>2 DEF Has, Key
    <3>2. cache[a] \in DOMAIN wrapped /\ wrapped[cache[a]].this_ = a
      BY <1>1, <3>1 DEF Clean
    <3>3. QED
      BY <1>1, <3>1, <3>2 DEF WrapperKeepsSrs, Missing, Item
  <2>3. QED
    BY <2>1, <2>2
<1>4. CollectedReleased
  BY <1>1 DEF Clean, CollectedReleased
<1>5. QED
  BY <1>2, <1>3, <1>4

\* Every variable keeps its type.
THEOREM TypeCorrect == Spec => []TypeOK
BY Invariance, IInvHolds, PTL

\* A wrapper's SRS is allocated, says what the wrapper was made from or last told to
\* say and is no other wrapper's, whatever happens to the layer, the geometry or the
\* dataset it came from.
THEOREM WrapperKeepsSrsHolds == Spec => []WrapperKeepsSrs
BY Invariance, PTL DEF IInv, HeapInv

\* The reference count of an SRS covers its wrapper and every layer and geometry.
THEOREM CountedHolds == Spec => []Counted
BY Invariance, PTL DEF IInv, HeapInv

\* No item is freed while the cache or the collector is still to use it, even where
\* an address is used again.
THEOREM ItemsOutliveUsersHolds == Spec => []ItemsOutliveUsers
BY Invariance, PTL DEF IInv, CacheInv

\* Until an address is used again, the cache answers with a living wrapper, which says
\* the same as the SRS it is asked for unless the program changed one of the two in
\* place since the wrapper was made.
THEOREM AnswersAgreeHolds == Spec => []AnswersAgree
BY Invariance, IInvHolds, PTL

\* A layer or geometry asked again answers the same object, as long as addresses
\* mean one thing to the cache.
THEOREM SameObjectHolds == Spec => []SameObject
BY Invariance, PTL DEF IInv, CacheInv

\* The item of a collected wrapper has left the cache, until an address is used again.
THEOREM CollectedReleasedHolds == Spec => []CollectedReleased
BY Invariance, IInvHolds, PTL

-------------------------------------------------------------------------------
(* The two comments of obj_cache.hpp that a run refutes, and when they are *)
(* true: the cache fails them only after one address came to mean two      *)
(* things.                                                                 *)

\* obj_cache.hpp:45: has() answers for a handle that exists, until the allocator
\* gives the cache an address it still has an entry or an alias for.
THEOREM HandleUntilReused == Spec => []("reused" \notin muddled => HasMeansHandle)
<1>1. IInv => ("reused" \notin muddled => HasMeansHandle)
  <2>1. IInv => DOMAIN heap \subseteq Addr
    BY DEF IInv, HeapInv, HeapTyped
  <2>2. QED
    BY <2>1, IInvHolds DEF AnswersAgree, HasMeansHandle
<1>2. QED
  BY <1>1, Invariance, PTL

\* obj_cache.hpp:49: has() knows every SRS that a wrapper in the program's hands
\* stands for, until an address is used again or one wrapper's SRS becomes
\* another's alias.
THEOREM AskingAgainUnshared == Spec => [](muddled = {} => AskingAgain)
<1>1. IInv => (muddled = {} => AskingAgain)
  <2>1. IInv => SameObject /\ held \subseteq DOMAIN wrapped
    BY DEF IInv, HeapInv, HeapTyped, CacheInv
  <2>2. QED
    BY <2>1 DEF SameObject, AskingAgain
<1>2. QED
  BY <1>1, Invariance, PTL
===============================================================================
