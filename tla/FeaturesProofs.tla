---------------------------- MODULE FeaturesProofs ----------------------------
(***************************************************************************)
(* Proofs about Features for every set of addresses, layers, wrappers,     *)
(* features and fields, and every bound on a definition's fields.  The     *)
(* program may create any number of users, one at a time, so that at every *)
(* moment there are finitely many: that is what the count of a definition  *)
(* needs, and the only thing IInv adds to the invariants TLC checks.       *)
(***************************************************************************)
EXTENDS Features, FiniteSetTheorems, TLAPS

FinitelyMany ==
  IsFiniteSet(DOMAIN layers) /\ IsFiniteSet(DOMAIN wrappers) /\ IsFiniteSet(DOMAIN features)

IInv == TypeOK /\ UsersBacked /\ Counted /\ Independent /\ OnlyCloneLeaks /\ FinitelyMany

-------------------------------------------------------------------------------
\* Putting in a key that is new, and taking one out.
LEMMA PutNew ==
  ASSUME NEW f, NEW x, NEW v, x \notin DOMAIN f
  PROVE  /\ DOMAIN Put(f, x, v) = DOMAIN f \cup {x}
         /\ Put(f, x, v)[x] = v
         /\ \A y \in DOMAIN f : Put(f, x, v)[y] = f[y]
BY DEF Put

LEMMA WithoutFacts ==
  ASSUME NEW f, NEW x
  PROVE  /\ DOMAIN Without(f, x) = DOMAIN f \ {x}
         /\ \A y \in DOMAIN f \ {x} : Without(f, x)[y] = f[y]
BY DEF Without, Restrict

\* Finite sets of users by one more and by one less.
LEMMA OneMore ==
  ASSUME NEW S, IsFiniteSet(S), NEW x, x \notin S
  PROVE  Cardinality(S \cup {x}) = Cardinality(S) + 1 /\ Cardinality(S) \in Nat
BY FS_AddElement, FS_CardinalityType

LEMMA OneLess ==
  ASSUME NEW S, IsFiniteSet(S), NEW x, x \in S
  PROVE  Cardinality(S) = Cardinality(S \ {x}) + 1 /\ Cardinality(S \ {x}) \in Nat
BY FS_RemoveElement, FS_CardinalityType

\* The number of users of a definition, which Counted is about.
Users(d) == Cardinality(LayersOf(d)) + Cardinality(WrappersOf(d)) + Cardinality(FeaturesOf(d))
Unused(d) == LayersOf(d) \cup WrappersOf(d) \cup FeaturesOf(d) = {}

LEMMA UsersFinite ==
  ASSUME NEW d
  PROVE  /\ FinitelyMany => /\ IsFiniteSet(LayersOf(d)) /\ IsFiniteSet(WrappersOf(d))
                             /\ IsFiniteSet(FeaturesOf(d))
         /\ FinitelyMany' => /\ IsFiniteSet(LayersOf(d)') /\ IsFiniteSet(WrappersOf(d)')
                              /\ IsFiniteSet(FeaturesOf(d)')
<1>1. /\ LayersOf(d) \in SUBSET DOMAIN layers /\ WrappersOf(d) \in SUBSET DOMAIN wrappers
      /\ FeaturesOf(d) \in SUBSET DOMAIN features
      /\ LayersOf(d)' \in SUBSET DOMAIN layers' /\ WrappersOf(d)' \in SUBSET DOMAIN wrappers'
      /\ FeaturesOf(d)' \in SUBSET DOMAIN features'
  BY DEF LayersOf, WrappersOf, FeaturesOf
<1>2. QED
  BY <1>1, FS_Subset DEF FinitelyMany

LEMMA SumIsZero ==
  ASSUME NEW a \in Nat, NEW b \in Nat, NEW c \in Nat
  PROVE  a + b + c \in Nat /\ (a + b + c = 0 <=> a = 0 /\ b = 0 /\ c = 0)
OBVIOUS

LEMMA UnusedIsZero ==
  ASSUME NEW d
  PROVE  /\ FinitelyMany => Users(d) \in Nat /\ (Unused(d) <=> Users(d) = 0)
         /\ FinitelyMany' => Users(d)' \in Nat /\ (Unused(d)' <=> Users(d)' = 0)
<1>1. ASSUME FinitelyMany PROVE Users(d) \in Nat /\ (Unused(d) <=> Users(d) = 0)
  <2>1. IsFiniteSet(LayersOf(d)) /\ IsFiniteSet(WrappersOf(d)) /\ IsFiniteSet(FeaturesOf(d))
    BY <1>1, UsersFinite
  <2>2. /\ Cardinality(LayersOf(d)) \in Nat /\ (Cardinality(LayersOf(d)) = 0 <=> LayersOf(d) = {})
        /\ Cardinality(WrappersOf(d)) \in Nat /\ (Cardinality(WrappersOf(d)) = 0 <=> WrappersOf(d) = {})
        /\ Cardinality(FeaturesOf(d)) \in Nat /\ (Cardinality(FeaturesOf(d)) = 0 <=> FeaturesOf(d) = {})
    BY <2>1, FS_EmptySet, FS_CardinalityType
  <2>3. Users(d) \in Nat
         /\ (Users(d) = 0 <=> LayersOf(d) = {} /\ WrappersOf(d) = {} /\ FeaturesOf(d) = {})
    BY <2>2, SumIsZero DEF Users
  <2>4. QED
    BY <2>3 DEF Unused
<1>2. ASSUME FinitelyMany' PROVE Users(d)' \in Nat /\ (Unused(d)' <=> Users(d)' = 0)
  <2>1. IsFiniteSet(LayersOf(d)') /\ IsFiniteSet(WrappersOf(d)') /\ IsFiniteSet(FeaturesOf(d)')
    BY <1>2, UsersFinite
  <2>2. /\ Cardinality(LayersOf(d)') \in Nat /\ (Cardinality(LayersOf(d)') = 0 <=> LayersOf(d)' = {})
        /\ Cardinality(WrappersOf(d)') \in Nat /\ (Cardinality(WrappersOf(d)') = 0 <=> WrappersOf(d)' = {})
        /\ Cardinality(FeaturesOf(d)') \in Nat /\ (Cardinality(FeaturesOf(d)') = 0 <=> FeaturesOf(d)' = {})
    BY <2>1, FS_EmptySet, FS_CardinalityType
  <2>3. Users(d)' \in Nat
         /\ (Users(d)' = 0 <=> LayersOf(d)' = {} /\ WrappersOf(d)' = {} /\ FeaturesOf(d)' = {})
    BY <2>2, SumIsZero DEF Users
  <2>4. QED
    BY <2>3 DEF Unused
<1>3. QED
  BY <1>1, <1>2

\* Nobody uses what is not allocated.
LEMMA NoUsersElsewhere ==
  ASSUME UsersBacked, NEW d, d \notin DOMAIN defns
  PROVE  LayersOf(d) = {} /\ WrappersOf(d) = {} /\ FeaturesOf(d) = {}
BY DEF UsersBacked, LayersOf, WrappersOf, FeaturesOf, Range

-------------------------------------------------------------------------------
\* What a definition is laid out by.
LEMMA LayoutIsSeq ==
  ASSUME NEW s
  PROVE  s \in Layout <=> s \in Seq(Field) /\ Len(s) <= MaxFields
<1>1. ASSUME s \in Layout PROVE s \in Seq(Field) /\ Len(s) <= MaxFields
  BY <1>1, FieldsAssumption DEF Layout
<1>2. ASSUME s \in Seq(Field), Len(s) <= MaxFields PROVE s \in Layout
  <2>1. Len(s) \in 0..MaxFields /\ s \in [1..Len(s) -> Field]
    BY <1>2, FieldsAssumption
  <2>2. QED
    BY <2>1 DEF Layout
<1>3. QED
  BY <1>1, <1>2

LEMMA EmptyLayout == << >> \in Layout
<1>1. << >> \in Seq(Field) /\ Len(<< >>) <= MaxFields
  BY FieldsAssumption
<1>2. QED
  BY <1>1, LayoutIsSeq, Zenon

LEMMA AddLayout ==
  ASSUME NEW s \in Layout, NEW t \in Layout, Len(s) + Len(t) <= MaxFields
  PROVE  s \o t \in Layout
<1>1. s \in Seq(Field) /\ t \in Seq(Field)
  BY LayoutIsSeq
<1>2. s \o t \in Seq(Field) /\ Len(s \o t) <= MaxFields
  BY <1>1
<1>3. QED
  BY <1>2, LayoutIsSeq, Zenon

LEMMA RemoveLayout ==
  ASSUME NEW s \in Layout, NEW i \in DOMAIN s
  PROVE  SubSeq(s, 1, i - 1) \o SubSeq(s, i + 1, Len(s)) \in Layout
<1>1. s \in Seq(Field) /\ Len(s) <= MaxFields /\ i \in 1..Len(s)
  BY LayoutIsSeq
<1>2. /\ SubSeq(s, 1, i - 1) \in Seq(Field) /\ Len(SubSeq(s, 1, i - 1)) = i - 1
      /\ SubSeq(s, i + 1, Len(s)) \in Seq(Field)
      /\ Len(SubSeq(s, i + 1, Len(s))) = Len(s) - i
  BY <1>1
<1>3. /\ SubSeq(s, 1, i - 1) \o SubSeq(s, i + 1, Len(s)) \in Seq(Field)
      /\ Len(SubSeq(s, 1, i - 1) \o SubSeq(s, i + 1, Len(s))) <= MaxFields
  <2>1. ASSUME NEW p \in Seq(Field), NEW q \in Seq(Field)
        PROVE  p \o q \in Seq(Field) /\ Len(p \o q) = Len(p) + Len(q)
    OBVIOUS
  <2>2. (i - 1) + (Len(s) - i) <= MaxFields
    BY <1>1, FieldsAssumption
  <2>3. QED
    BY <1>2, <2>1, <2>2
<1>4. QED
  BY <1>3, LayoutIsSeq, Zenon

LEMMA ReorderLayout ==
  ASSUME NEW s \in Layout, NEW map \in FieldMap, DOMAIN map = DOMAIN s
  PROVE  [i \in DOMAIN map |-> s[map[i]]] \in Layout
<1>1. PICK n \in 0..MaxFields : s \in [1..n -> Field]
  BY DEF Layout
<1>2. PICK m \in 0..MaxFields : map \in [1..m -> 1..m]
  BY DEF FieldMap
<1>3. \A i \in DOMAIN map : map[i] \in DOMAIN map
  BY <1>2
<1>4. [i \in DOMAIN map |-> s[map[i]]] \in [1..n -> Field]
  BY <1>1, <1>3
<1>5. QED
  BY <1>4 DEF Layout

-------------------------------------------------------------------------------
\* TypeOK and UsersBacked without Range.
Typed ==
  /\ DOMAIN defns \subseteq DefnPtr
  /\ \A d \in DOMAIN defns : defns[d] \in [fields : Layout, refs : Nat]
  /\ DOMAIN layers \subseteq Layer /\ \A l \in DOMAIN layers : layers[l] \in DOMAIN defns
  /\ DOMAIN wrappers \subseteq FeatureDefn /\ \A w \in DOMAIN wrappers : wrappers[w] \in DOMAIN defns
  /\ DOMAIN features \subseteq Feature
  /\ \A f \in DOMAIN features :
       features[f] \in [defn : DefnPtr, layout : Layout] /\ features[f].defn \in DOMAIN defns
  /\ abandoned \subseteq DefnPtr

LEMMA TypedIs ==
  /\ Typed <=> TypeOK /\ UsersBacked
  /\ Typed' <=> TypeOK' /\ UsersBacked'
BY DEF Typed, TypeOK, UsersBacked, Range

\* Counted and OnlyCloneLeaks in terms of Users and Unused.
LEMMA CountedIs ==
  /\ Counted <=> \A d \in DOMAIN defns : defns[d].refs = Users(d)
  /\ Counted' <=> \A d \in DOMAIN defns' : defns'[d].refs = Users(d)'
  /\ OnlyCloneLeaks <=> abandoned = {d \in DOMAIN defns : Unused(d)}
  /\ OnlyCloneLeaks' <=> abandoned' = {d \in DOMAIN defns' : Unused(d)'}
BY DEF Counted, OnlyCloneLeaks, Users, Unused

\* Nothing changes who uses definition d.
SameUsers(d) ==
  /\ LayersOf(d)' = LayersOf(d)
  /\ WrappersOf(d)' = WrappersOf(d)
  /\ FeaturesOf(d)' = FeaturesOf(d)

LEMMA SameUsersFacts ==
  ASSUME NEW d, SameUsers(d)
  PROVE  Users(d)' = Users(d) /\ Unused(d)' = Unused(d)
BY DEF SameUsers, Users, Unused

LEMMA InitIInv == Init => IInv
<1> SUFFICES ASSUME Init PROVE IInv
  OBVIOUS
<1>1. /\ DOMAIN defns = {} /\ DOMAIN layers = {} /\ DOMAIN wrappers = {} /\ DOMAIN features = {}
      /\ abandoned = {}
  BY DEF Init
<1>2. QED
  BY <1>1, TypedIs, FS_EmptySet
     DEF Typed, IInv, Counted, Independent, OnlyCloneLeaks, FinitelyMany

-------------------------------------------------------------------------------
\* A new definition with one user, the wrapper that is made for it.
LEMMA WrapStep ==
  ASSUME IInv, NEW w \in FeatureDefn, NEW new \in DefnPtr, NEW fields \in Layout,
         Wrap(w, new, fields), UNCHANGED <<layers, features, abandoned>>
  PROVE  IInv'
<1>1. Typed /\ w \notin DOMAIN wrappers /\ new \notin DOMAIN defns
  BY TypedIs DEF IInv, Wrap
<1>2. /\ DOMAIN defns' = DOMAIN defns \cup {new}
      /\ defns'[new] = [fields |-> fields, refs |-> 1]
      /\ \A d \in DOMAIN defns : defns'[d] = defns[d]
  BY <1>1 DEF Wrap, Put
<1>3. /\ DOMAIN wrappers' = DOMAIN wrappers \cup {w}
      /\ wrappers'[w] = new
      /\ \A v \in DOMAIN wrappers : wrappers'[v] = wrappers[v]
  BY <1>1 DEF Wrap, Put
<1>4. Typed'
  BY <1>1, <1>2, <1>3 DEF Typed
<1>5. \A d \in DOMAIN defns : SameUsers(d)
  BY <1>1, <1>3 DEF SameUsers, LayersOf, WrappersOf, FeaturesOf
<1>6. LayersOf(new)' = {} /\ WrappersOf(new)' = {w} /\ FeaturesOf(new)' = {}
  BY <1>1, <1>3 DEF Typed, LayersOf, WrappersOf, FeaturesOf
<1>7. Users(new)' = 1 /\ ~Unused(new)'
  <2>1. Cardinality({w}) = 1 /\ Cardinality({}) = 0
    BY FS_EmptySet, FS_Singleton
  <2>2. QED
    BY <1>6, <2>1 DEF Users, Unused
<1>8. Counted' /\ OnlyCloneLeaks'
  BY <1>2, <1>5, <1>7, CountedIs, SameUsersFacts DEF IInv
<1>9. Independent'
  BY <1>1, <1>3, <1>5, <1>6 DEF Independent, SameUsers, IInv, Typed
<1>10. FinitelyMany'
  <2>1. IsFiniteSet(DOMAIN wrappers \cup {w})
    BY FS_AddElement DEF FinitelyMany, IInv
  <2>2. QED
    BY <1>3, <2>1 DEF FinitelyMany, IInv
<1>11. QED
  BY <1>4, <1>8, <1>9, <1>10, TypedIs DEF IInv

\* The copy that clone forgets is abandoned; the other one has one user.
LEMMA CloneStep ==
  ASSUME IInv, NEW v \in FeatureDefn, NEW w \in FeatureDefn,
         NEW copy \in DefnPtr, NEW new \in DefnPtr, Clone(v, w, copy, new)
  PROVE  IInv'
<1>1. /\ Typed /\ v \in DOMAIN wrappers /\ w \notin DOMAIN wrappers
      /\ copy # new /\ copy \notin DOMAIN defns /\ new \notin DOMAIN defns
  BY TypedIs DEF IInv, Clone
<1> DEFINE fields == defns[wrappers[v]].fields
<1>2. fields \in Layout
  BY <1>1 DEF Typed
<1>3. /\ DOMAIN defns' = DOMAIN defns \cup {copy, new}
      /\ defns'[copy] = [fields |-> fields, refs |-> 0]
      /\ defns'[new] = [fields |-> fields, refs |-> 1]
      /\ \A d \in DOMAIN defns : defns'[d] = defns[d]
  BY <1>1 DEF Clone, Put
<1>4. /\ DOMAIN wrappers' = DOMAIN wrappers \cup {w}
      /\ wrappers'[w] = new
      /\ \A u \in DOMAIN wrappers : wrappers'[u] = wrappers[u]
      /\ abandoned' = abandoned \cup {copy}
      /\ UNCHANGED <<layers, features>>
  BY <1>1 DEF Clone, Put
<1>5. Typed'
  BY <1>1, <1>2, <1>3, <1>4 DEF Typed
<1>6. \A d \in DOMAIN defns : SameUsers(d)
  BY <1>1, <1>4 DEF SameUsers, LayersOf, WrappersOf, FeaturesOf
<1>7. /\ LayersOf(new)' = {} /\ WrappersOf(new)' = {w} /\ FeaturesOf(new)' = {}
      /\ LayersOf(copy)' = {} /\ WrappersOf(copy)' = {} /\ FeaturesOf(copy)' = {}
  BY <1>1, <1>4 DEF Typed, LayersOf, WrappersOf, FeaturesOf
<1>8. /\ Users(new)' = 1 /\ ~Unused(new)'
      /\ Users(copy)' = 0 /\ Unused(copy)'
  <2>1. Cardinality({w}) = 1 /\ Cardinality({}) = 0
    BY FS_EmptySet, FS_Singleton
  <2>2. QED
    BY <1>7, <2>1 DEF Users, Unused
<1>9. Counted'
  BY <1>3, <1>6, <1>8, CountedIs, SameUsersFacts DEF IInv
<1>10. OnlyCloneLeaks'
  BY <1>3, <1>4, <1>6, <1>8, CountedIs, SameUsersFacts DEF IInv
<1>11. Independent'
  BY <1>1, <1>4, <1>6, <1>7 DEF Independent, SameUsers, IInv, Typed
<1>12. FinitelyMany'
  BY <1>4, FS_AddElement DEF FinitelyMany, IInv
<1>13. QED
  BY <1>5, <1>9, <1>10, <1>11, <1>12, TypedIs DEF IInv

\* A feature more counts a definition that had a user already.
LEMMA MakeStep ==
  ASSUME IInv, NEW f \in Feature, NEW d \in DOMAIN defns, ~Unused(d), Make(f, d)
  PROVE  IInv'
<1>1. /\ Typed /\ f \notin DOMAIN features
      /\ UNCHANGED <<layers, wrappers, abandoned>>
  BY TypedIs DEF IInv, Make
<1>2. /\ DOMAIN defns' = DOMAIN defns
      /\ defns'[d].fields = defns[d].fields /\ defns'[d].refs = defns[d].refs + 1
      /\ defns'[d] \in [fields : Layout, refs : Nat]
      /\ \A e \in DOMAIN defns \ {d} : defns'[e] = defns[e]
  BY <1>1 DEF Make, Reference, Typed
<1>3. /\ DOMAIN features' = DOMAIN features \cup {f}
      /\ features'[f].defn = d
      /\ features'[f] \in [defn : DefnPtr, layout : Layout]
      /\ \A g \in DOMAIN features : features'[g] = features[g]
  BY <1>1 DEF Make, Put, Typed
<1>4. Typed'
  BY <1>1, <1>2, <1>3 DEF Typed
<1>5. \A e \in DOMAIN defns \ {d} : SameUsers(e)
  BY <1>1, <1>3 DEF SameUsers, LayersOf, WrappersOf, FeaturesOf
<1>6. /\ LayersOf(d)' = LayersOf(d) /\ WrappersOf(d)' = WrappersOf(d)
      /\ FeaturesOf(d)' = FeaturesOf(d) \cup {f} /\ f \notin FeaturesOf(d)
  BY <1>1, <1>3 DEF LayersOf, WrappersOf, FeaturesOf
<1>7. Users(d)' = Users(d) + 1 /\ ~Unused(d)'
  BY <1>6, UsersFinite, OneMore, FS_CardinalityType DEF Users, Unused, IInv
<1>8. Counted'
  BY <1>2, <1>5, <1>7, CountedIs, SameUsersFacts DEF IInv
<1>9. OnlyCloneLeaks'
  BY <1>1, <1>2, <1>5, <1>7, CountedIs, SameUsersFacts DEF IInv
<1>10. Independent'
  BY <1>1 DEF Independent, LayersOf, WrappersOf, IInv
<1>11. FinitelyMany'
  BY <1>1, <1>3, FS_AddElement DEF FinitelyMany, IInv
<1>12. QED
  BY <1>4, <1>8, <1>9, <1>10, <1>11, TypedIs DEF IInv

-------------------------------------------------------------------------------
\* A user less.  Release finds at least one user counted, and frees the
\* definition exactly when it was the only one.
LEMMA ReleaseStep ==
  ASSUME IInv, FinitelyMany', UNCHANGED abandoned,
         NEW d \in DOMAIN defns, defns' = Release(d),
         Users(d)' + 1 = Users(d),
         \A e \in DOMAIN defns \ {d} : SameUsers(e)
  PROVE  /\ Counted' /\ OnlyCloneLeaks'
         /\ DOMAIN defns' = IF Unused(d)' THEN DOMAIN defns \ {d} ELSE DOMAIN defns
         /\ \A e \in DOMAIN defns' : defns'[e] \in [fields : Layout, refs : Nat]
<1>1. /\ Typed /\ Users(d) = defns[d].refs /\ defns[d] \in [fields : Layout, refs : Nat]
  BY TypedIs, CountedIs DEF IInv, Typed
<1>2. /\ Users(d)' \in Nat /\ (Unused(d)' <=> Users(d)' = 0)
      /\ ~Unused(d)
  BY UnusedIsZero DEF IInv
<1>3. CASE Unused(d)'
  <2>1. defns[d].refs <= 1
    BY <1>1, <1>2, <1>3
  <2>2. DOMAIN defns' = DOMAIN defns \ {d} /\ \A e \in DOMAIN defns' : defns'[e] = defns[e]
    BY <2>1, WithoutFacts DEF Release
  <2>4. Counted' /\ OnlyCloneLeaks'
    BY <1>2, <1>3, <2>2, CountedIs, SameUsersFacts DEF IInv
  <2>5. QED
    BY <1>1, <1>3, <2>2, <2>4 DEF Typed
<1>4. CASE ~Unused(d)'
  <2>1. ~(defns[d].refs <= 1)
    BY <1>1, <1>2, <1>4
  <2>2. /\ DOMAIN defns' = DOMAIN defns
        /\ \A e \in DOMAIN defns \ {d} : defns'[e] = defns[e]
        /\ defns'[d].refs = Users(d)' /\ defns'[d] \in [fields : Layout, refs : Nat]
    BY <1>1, <1>2, <2>1 DEF Release
  <2>4. Counted' /\ OnlyCloneLeaks'
    BY <1>2, <1>4, <2>2, CountedIs, SameUsersFacts DEF IInv
  <2>5. QED
    BY <1>1, <1>4, <2>2, <2>4 DEF Typed
<1>5. QED
  BY <1>3, <1>4

LEMMA CollectDefnStep ==
  ASSUME IInv, NEW w \in FeatureDefn, CollectDefn(w)
  PROVE  IInv'
<1>0. PICK d \in DOMAIN defns : d = wrappers[w]
  BY TypedIs DEF IInv, CollectDefn, Typed
<1>1. /\ Typed /\ w \in DOMAIN wrappers
      /\ defns' = Release(d) /\ UNCHANGED <<layers, features, abandoned>>
  BY <1>0, TypedIs DEF IInv, CollectDefn
<1>2. /\ DOMAIN wrappers' = DOMAIN wrappers \ {w}
      /\ \A v \in DOMAIN wrappers' : wrappers'[v] = wrappers[v]
  BY WithoutFacts DEF CollectDefn
<1>3. FinitelyMany'
  BY <1>1, <1>2, FS_RemoveElement DEF FinitelyMany, IInv
<1>4. \A e \in DOMAIN defns \ {d} : SameUsers(e)
  BY <1>0, <1>1, <1>2 DEF SameUsers, LayersOf, WrappersOf, FeaturesOf
<1>5. /\ LayersOf(d)' = LayersOf(d) /\ FeaturesOf(d)' = FeaturesOf(d)
      /\ WrappersOf(d)' = WrappersOf(d) \ {w} /\ w \in WrappersOf(d)
  BY <1>0, <1>1, <1>2 DEF LayersOf, WrappersOf, FeaturesOf
<1>6. Users(d)' + 1 = Users(d)
  BY <1>5, UsersFinite, OneLess, FS_CardinalityType DEF Users, IInv
<1>7. /\ Counted' /\ OnlyCloneLeaks'
      /\ DOMAIN defns' = IF Unused(d)' THEN DOMAIN defns \ {d} ELSE DOMAIN defns
      /\ \A e \in DOMAIN defns' : defns'[e] \in [fields : Layout, refs : Nat]
  BY <1>1, <1>3, <1>4, <1>6, ReleaseStep
<1>8. Unused(d)' => /\ \A l \in DOMAIN layers' : layers'[l] # d
                    /\ \A v \in DOMAIN wrappers' : wrappers'[v] # d
                    /\ \A f \in DOMAIN features' : features'[f].defn # d
  BY DEF Unused, LayersOf, WrappersOf, FeaturesOf
<1>9. Typed'
  BY <1>1, <1>2, <1>7, <1>8 DEF Typed
<1>10. Independent'
  BY <1>1, <1>2 DEF Independent, LayersOf, WrappersOf, IInv
<1>11. QED
  BY <1>3, <1>7, <1>9, <1>10, TypedIs DEF IInv

LEMMA DestroyStep ==
  ASSUME IInv, NEW f \in Feature, Destroy(f)
  PROVE  IInv'
<1>0. PICK d \in DOMAIN defns : d = features[f].defn
  BY TypedIs DEF IInv, Destroy, Typed
<1>1. /\ Typed /\ f \in DOMAIN features
      /\ defns' = Release(d) /\ UNCHANGED <<layers, wrappers, abandoned>>
  BY <1>0, TypedIs DEF IInv, Destroy
<1>2. /\ DOMAIN features' = DOMAIN features \ {f}
      /\ \A g \in DOMAIN features' : features'[g] = features[g]
  BY WithoutFacts DEF Destroy
<1>3. FinitelyMany'
  BY <1>1, <1>2, FS_RemoveElement DEF FinitelyMany, IInv
<1>4. \A e \in DOMAIN defns \ {d} : SameUsers(e)
  BY <1>0, <1>1, <1>2 DEF SameUsers, LayersOf, WrappersOf, FeaturesOf
<1>5. /\ LayersOf(d)' = LayersOf(d) /\ WrappersOf(d)' = WrappersOf(d)
      /\ FeaturesOf(d)' = FeaturesOf(d) \ {f} /\ f \in FeaturesOf(d)
  BY <1>0, <1>1, <1>2 DEF LayersOf, WrappersOf, FeaturesOf
<1>6. Users(d)' + 1 = Users(d)
  BY <1>5, UsersFinite, OneLess, FS_CardinalityType DEF Users, IInv
<1>7. /\ Counted' /\ OnlyCloneLeaks'
      /\ DOMAIN defns' = IF Unused(d)' THEN DOMAIN defns \ {d} ELSE DOMAIN defns
      /\ \A e \in DOMAIN defns' : defns'[e] \in [fields : Layout, refs : Nat]
  BY <1>1, <1>3, <1>4, <1>6, ReleaseStep
<1>8. Unused(d)' => /\ \A l \in DOMAIN layers' : layers'[l] # d
                    /\ \A v \in DOMAIN wrappers' : wrappers'[v] # d
                    /\ \A g \in DOMAIN features' : features'[g].defn # d
  BY DEF Unused, LayersOf, WrappersOf, FeaturesOf
<1>9. Typed'
  BY <1>1, <1>2, <1>7, <1>8 DEF Typed
<1>10. Independent'
  BY <1>1 DEF Independent, LayersOf, WrappersOf, IInv
<1>11. QED
  BY <1>3, <1>7, <1>9, <1>10, TypedIs DEF IInv

LEMMA CloseLayerStep ==
  ASSUME IInv, NEW l \in Layer, CloseLayer(l)
  PROVE  IInv'
<1>0. PICK d \in DOMAIN defns : d = layers[l]
  BY TypedIs DEF IInv, CloseLayer, Typed
<1>1. /\ Typed /\ l \in DOMAIN layers
      /\ defns' = Release(d) /\ UNCHANGED <<wrappers, features, abandoned>>
  BY <1>0, TypedIs DEF IInv, CloseLayer
<1>2. /\ DOMAIN layers' = DOMAIN layers \ {l}
      /\ \A m \in DOMAIN layers' : layers'[m] = layers[m]
  BY WithoutFacts DEF CloseLayer
<1>3. FinitelyMany'
  BY <1>1, <1>2, FS_RemoveElement DEF FinitelyMany, IInv
<1>4. \A e \in DOMAIN defns \ {d} : SameUsers(e)
  BY <1>0, <1>1, <1>2 DEF SameUsers, LayersOf, WrappersOf, FeaturesOf
<1>5. /\ FeaturesOf(d)' = FeaturesOf(d) /\ WrappersOf(d)' = WrappersOf(d)
      /\ LayersOf(d)' = LayersOf(d) \ {l} /\ l \in LayersOf(d)
  BY <1>0, <1>1, <1>2 DEF LayersOf, WrappersOf, FeaturesOf
<1>6. Users(d)' + 1 = Users(d)
  BY <1>5, UsersFinite, OneLess, FS_CardinalityType DEF Users, IInv
<1>7. /\ Counted' /\ OnlyCloneLeaks'
      /\ DOMAIN defns' = IF Unused(d)' THEN DOMAIN defns \ {d} ELSE DOMAIN defns
      /\ \A e \in DOMAIN defns' : defns'[e] \in [fields : Layout, refs : Nat]
  BY <1>1, <1>3, <1>4, <1>6, ReleaseStep
<1>8. Unused(d)' => /\ \A m \in DOMAIN layers' : layers'[m] # d
                    /\ \A v \in DOMAIN wrappers' : wrappers'[v] # d
                    /\ \A f \in DOMAIN features' : features'[f].defn # d
  BY DEF Unused, LayersOf, WrappersOf, FeaturesOf
<1>9. Typed'
  BY <1>1, <1>2, <1>7, <1>8 DEF Typed
<1>10. Independent'
  BY <1>1, <1>2 DEF Independent, LayersOf, WrappersOf, IInv
<1>11. QED
  BY <1>3, <1>7, <1>9, <1>10, TypedIs DEF IInv

-------------------------------------------------------------------------------
\* A layer's schema is a new definition, and the layer its first user.
LEMMA OpenLayerStep ==
  ASSUME IInv, NEW l \in Layer, NEW new \in DefnPtr, NEW fields \in Layout,
         OpenLayer(l, new, fields)
  PROVE  IInv'
<1>1. /\ Typed /\ l \notin DOMAIN layers /\ new \notin DOMAIN defns
      /\ UNCHANGED <<wrappers, features, abandoned>>
  BY TypedIs DEF IInv, OpenLayer
<1>2. /\ DOMAIN defns' = DOMAIN defns \cup {new}
      /\ defns'[new] = [fields |-> fields, refs |-> 1]
      /\ \A d \in DOMAIN defns : defns'[d] = defns[d]
  BY <1>1 DEF OpenLayer, Put
<1>3. /\ DOMAIN layers' = DOMAIN layers \cup {l}
      /\ layers'[l] = new
      /\ \A m \in DOMAIN layers : layers'[m] = layers[m]
  BY <1>1 DEF OpenLayer, Put
<1>4. Typed'
  BY <1>1, <1>2, <1>3 DEF Typed
<1>5. \A d \in DOMAIN defns : SameUsers(d)
  BY <1>1, <1>3 DEF SameUsers, LayersOf, WrappersOf, FeaturesOf
<1>6. LayersOf(new)' = {l} /\ WrappersOf(new)' = {} /\ FeaturesOf(new)' = {}
  BY <1>1, <1>3 DEF Typed, LayersOf, WrappersOf, FeaturesOf
<1>7. Users(new)' = 1 /\ ~Unused(new)'
  <2>1. Cardinality({l}) = 1 /\ Cardinality({}) = 0
    BY FS_EmptySet, FS_Singleton
  <2>2. QED
    BY <1>6, <2>1 DEF Users, Unused
<1>8. Counted' /\ OnlyCloneLeaks'
  BY <1>1, <1>2, <1>5, <1>7, CountedIs, SameUsersFacts DEF IInv
<1>9. Independent'
  BY <1>1, <1>5 DEF Independent, SameUsers, IInv, Typed
<1>10. FinitelyMany'
  BY <1>1, <1>3, FS_AddElement DEF FinitelyMany, IInv
<1>11. QED
  BY <1>4, <1>8, <1>9, <1>10, TypedIs DEF IInv

\* Editing a definition changes nobody's count.
LEMMA EditStep ==
  ASSUME IInv, NEW d \in DOMAIN defns, NEW fields \in Layout, Edit(d, fields)
  PROVE  IInv'
<1>1. Typed /\ UNCHANGED <<layers, wrappers, features, abandoned>>
  BY TypedIs DEF IInv, Edit
<1>2. /\ DOMAIN defns' = DOMAIN defns
      /\ \A e \in DOMAIN defns : /\ defns'[e].refs = defns[e].refs
                                 /\ defns'[e] \in [fields : Layout, refs : Nat]
  BY <1>1 DEF Edit, Typed
<1>3. Typed'
  BY <1>1, <1>2 DEF Typed
<1>4. \A e : SameUsers(e)
  BY <1>1 DEF SameUsers, LayersOf, WrappersOf, FeaturesOf
<1>5. Counted' /\ OnlyCloneLeaks'
  BY <1>1, <1>2, <1>4, CountedIs, SameUsersFacts DEF IInv
<1>6. Independent' /\ FinitelyMany'
  BY <1>1, <1>4 DEF Independent, SameUsers, FinitelyMany, IInv
<1>7. QED
  BY <1>3, <1>5, <1>6, TypedIs DEF IInv

LEMMA AddStep ==
  ASSUME IInv, NEW d \in DOMAIN defns, NEW fields \in Layout, Add(d, fields)
  PROVE  IInv'
<1>1. defns[d].fields \in Layout
  BY TypedIs DEF Typed, IInv
<1>2. defns[d].fields \o fields \in Layout
  BY <1>1, AddLayout DEF Add
<1>3. QED
  BY <1>2, EditStep DEF Add

LEMMA RemoveStep ==
  ASSUME IInv, NEW d \in DOMAIN defns, NEW i, Remove(d, i)
  PROVE  IInv'
<1> DEFINE old == defns[d].fields
           left == SubSeq(old, 1, i - 1) \o SubSeq(old, i + 1, Len(old))
<1>1. old \in Layout /\ i \in DOMAIN old
  BY TypedIs DEF Typed, IInv, Remove
<1>2. left \in Layout
  BY <1>1, RemoveLayout
<1>3. Edit(d, left)
  BY DEF Remove
<1>4. QED
  BY <1>2, <1>3, EditStep

LEMMA ReorderStep ==
  ASSUME IInv, NEW d \in DOMAIN defns, NEW map \in FieldMap, Reorder(d, map)
  PROVE  IInv'
<1>1. defns[d].fields \in Layout /\ DOMAIN map = DOMAIN defns[d].fields
  BY TypedIs DEF Typed, IInv, Reorder
<1>2. [i \in DOMAIN map |-> defns[d].fields[map[i]]] \in Layout
  BY <1>1, ReorderLayout
<1>3. QED
  BY <1>2, EditStep DEF Reorder

-------------------------------------------------------------------------------
\* What a layer, a wrapper or a feature refers to is allocated and used.
LEMMA UsersUse ==
  ASSUME IInv
  PROVE  /\ \A l \in DOMAIN layers : layers[l] \in DOMAIN defns /\ ~Unused(layers[l])
         /\ \A w \in DOMAIN wrappers : wrappers[w] \in DOMAIN defns /\ ~Unused(wrappers[w])
         /\ \A f \in DOMAIN features :
              features[f].defn \in DOMAIN defns /\ ~Unused(features[f].defn)
         /\ \A d \in DOMAIN defns : defns[d].fields \in Layout
BY TypedIs DEF Typed, IInv, Unused, LayersOf, WrappersOf, FeaturesOf

\* Each action, by the definition it is about.
LEMMA NextStep == IInv /\ [Next]_vars => IInv'
<1> SUFFICES ASSUME IInv, [Next]_vars PROVE IInv'
  OBVIOUS
<1>1. ASSUME NEW w \in FeatureDefn, NEW d \in DefnPtr, NewFeatureDefn(w, d) PROVE IInv'
  BY <1>1, EmptyLayout, WrapStep DEF NewFeatureDefn
<1>2. ASSUME NEW f \in Feature, NEW w \in FeatureDefn, NEW d \in DefnPtr, DefnGetter(f, w, d)
      PROVE  IInv'
  <2>1. PICK fields \in Layout : fields = defns[features[f].defn].fields
    BY <1>2, UsersUse DEF DefnGetter
  <2>2. QED
    BY <1>2, <2>1, WrapStep DEF DefnGetter
<1>3. ASSUME NEW v \in FeatureDefn, NEW w \in FeatureDefn, NEW c \in DefnPtr, NEW d \in DefnPtr,
             Clone(v, w, c, d)
      PROVE  IInv'
  BY <1>3, CloneStep
<1>4. ASSUME NEW w \in FeatureDefn, CollectDefn(w) PROVE IInv'
  BY <1>4, CollectDefnStep
<1>5. ASSUME NEW f \in Feature, NEW l \in Layer, FeatureOfLayer(f, l) PROVE IInv'
  <2>1. PICK d \in DOMAIN defns : d = layers[l] /\ ~Unused(d)
    BY <1>5, UsersUse DEF FeatureOfLayer
  <2>2. QED
    BY <1>5, <2>1, MakeStep DEF FeatureOfLayer
<1>6. ASSUME NEW f \in Feature, NEW w \in FeatureDefn, FeatureOfDefn(f, w) PROVE IInv'
  <2>1. PICK d \in DOMAIN defns : d = wrappers[w] /\ ~Unused(d)
    BY <1>6, UsersUse DEF FeatureOfDefn
  <2>2. QED
    BY <1>6, <2>1, MakeStep DEF FeatureOfDefn
<1>7. ASSUME NEW f \in Feature, NEW g \in Feature, CloneFeature(g, f) PROVE IInv'
  <2>1. PICK d \in DOMAIN defns : d = features[g].defn /\ ~Unused(d)
    BY <1>7, UsersUse DEF CloneFeature
  <2>2. QED
    BY <1>7, <2>1, MakeStep DEF CloneFeature
<1>8. ASSUME NEW f \in Feature, Destroy(f) PROVE IInv'
  BY <1>8, DestroyStep
<1>9. ASSUME NEW l \in Layer, NEW d \in DefnPtr, NEW fields \in Layout, OpenLayer(l, d, fields)
      PROVE  IInv'
  BY <1>9, OpenLayerStep
<1>10. ASSUME NEW l \in Layer, CloseLayer(l) PROVE IInv'
  BY <1>10, CloseLayerStep
<1>11. ASSUME NEW w \in FeatureDefn, w \in DOMAIN wrappers,
              \/ \E fields \in Layout : DefnFieldsAdd(w, fields)
              \/ \E i \in 1..MaxFields : DefnFieldsRemove(w, i)
              \/ \E map \in FieldMap : DefnFieldsReorder(w, map)
       PROVE  IInv'
  <2>1. PICK d \in DOMAIN defns : d = wrappers[w]
    BY <1>11, UsersUse
  <2>2. QED
    BY <1>11, <2>1, AddStep, RemoveStep, ReorderStep
       DEF DefnFieldsAdd, DefnFieldsRemove, DefnFieldsReorder
<1>12. ASSUME NEW l \in Layer, l \in DOMAIN layers,
              \/ \E fields \in Layout : LayerFieldsAdd(l, fields)
              \/ \E i \in 1..MaxFields : LayerFieldsRemove(l, i)
              \/ \E map \in FieldMap : LayerFieldsReorder(l, map)
       PROVE  IInv'
  <2>1. PICK d \in DOMAIN defns : d = layers[l]
    BY <1>12, UsersUse
  <2>2. QED
    BY <1>12, <2>1, AddStep, RemoveStep, ReorderStep
       DEF LayerFieldsAdd, LayerFieldsRemove, LayerFieldsReorder
<1>13. CASE UNCHANGED vars
  <2>1. /\ UNCHANGED <<defns, layers, wrappers, features, abandoned>>
        /\ \A d : SameUsers(d)
    BY <1>13 DEF vars, SameUsers, LayersOf, WrappersOf, FeaturesOf
  <2>2. Typed' /\ Counted' /\ OnlyCloneLeaks'
    BY <2>1, TypedIs, CountedIs, SameUsersFacts DEF IInv, Typed
  <2>3. Independent' /\ FinitelyMany'
    BY <2>1 DEF Independent, SameUsers, FinitelyMany, IInv
  <2>4. QED
    BY <2>2, <2>3, TypedIs DEF IInv
<1>14. QED
  BY <1>1, <1>2, <1>3, <1>4, <1>5, <1>6, <1>7, <1>8, <1>9, <1>10, <1>11, <1>12, <1>13
     DEF Next, DefnFieldsAdd, DefnFieldsRemove, DefnFieldsReorder,
         LayerFieldsAdd, LayerFieldsRemove, LayerFieldsReorder

\* Whatever the program, the drivers and the collector do with definitions and
\* features, the count of each definition, its users and the copies that clone
\* forgets stay in step.
THEOREM Invariance == Spec => []IInv
BY InitIInv, NextStep, PTL DEF Spec

\* Every variable keeps its type: edits keep a definition within its bound.
THEOREM TypeCorrect == Spec => []TypeOK
BY Invariance, PTL DEF IInv

\* No layer, wrapper or feature ever finds its definition freed, in whatever order
\* they let it go.
THEOREM UsersBackedHolds == Spec => []UsersBacked
BY Invariance, PTL DEF IInv

\* The reference count of a definition is the number of its users.
THEOREM CountedHolds == Spec => []Counted
BY Invariance, PTL DEF IInv

\* The definition of a gdal.FeatureDefn is nobody else's but its features'.
THEOREM IndependentHolds == Spec => []Independent
BY Invariance, PTL DEF IInv

\* Nothing but the copies of FeatureDefn::clone is ever left allocated and unused,
\* and every one of those is.
THEOREM OnlyCloneLeaksHolds == Spec => []OnlyCloneLeaks
BY Invariance, PTL DEF IInv

-------------------------------------------------------------------------------
\* What GDAL asks of whoever edits a definition.
RuleObserved == \A d \in DOMAIN defns \cap DOMAIN defns' :
  FeaturesOf(d) # {} => defns'[d].fields = defns[d].fields

\* A step keeps a feature or makes one that is laid out by its definition.
LEMMA FeaturesKept ==
  ASSUME IInv, [Next]_vars, NEW f \in DOMAIN features'
  PROVE  \/ f \in DOMAIN features /\ features'[f] = features[f]
         \/ features'[f].layout = defns'[features'[f].defn].fields
<1>1. CASE UNCHANGED features
  BY <1>1
<1>2. ASSUME NEW g \in Feature, NEW d, d \in DOMAIN defns, Make(g, d)
      PROVE  \/ f \in DOMAIN features /\ features'[f] = features[f]
             \/ features'[f].layout = defns'[features'[f].defn].fields
  <2>1. defns'[d].fields = defns[d].fields
    BY <1>2, TypedIs DEF Make, Reference, Typed, IInv
  <2>2. QED
    BY <1>2, <2>1 DEF Make, Put
<1>3. ASSUME NEW g \in Feature, Destroy(g)
      PROVE  f \in DOMAIN features /\ features'[f] = features[f]
  BY <1>3, WithoutFacts DEF Destroy
<1>4. QED
  BY <1>1, <1>2, <1>3, UsersUse
     DEF Next, vars, NewFeatureDefn, DefnGetter, Clone, CollectDefn, FeatureOfLayer,
         FeatureOfDefn, CloneFeature, OpenLayer, CloseLayer, DefnFieldsAdd, LayerFieldsAdd,
         DefnFieldsRemove, LayerFieldsRemove, DefnFieldsReorder, LayerFieldsReorder,
         Add, Remove, Reorder, Edit

\* GDAL's rule is enough: as long as no definition is edited that features are laid
\* out by, every feature has the fields its definition says.  The binding does not
\* keep the rule, and the run features_layout shows what follows.
THEOREM RuleSuffices == Spec /\ [][RuleObserved]_vars => []LayoutCurrent
<1>1. Init => LayoutCurrent
  BY DEF Init, LayoutCurrent
<1>2. IInv /\ IInv' /\ LayoutCurrent /\ [Next]_vars /\ [RuleObserved]_vars => LayoutCurrent'
  <2> SUFFICES ASSUME IInv, IInv', LayoutCurrent, [Next]_vars, [RuleObserved]_vars,
                      NEW f \in DOMAIN features'
               PROVE  features'[f].layout = defns'[features'[f].defn].fields
    BY DEF LayoutCurrent
  <2>1. CASE f \in DOMAIN features /\ features'[f] = features[f]
    <3>1. PICK d : d = features[f].defn
      OBVIOUS
    <3>2. d \in DOMAIN defns \cap DOMAIN defns' /\ f \in FeaturesOf(d)
      BY <2>1, <3>1 DEF IInv, UsersBacked, FeaturesOf
    <3>3. defns'[d].fields = defns[d].fields
      BY <3>2 DEF RuleObserved, vars
    <3>4. QED
      BY <2>1, <3>1, <3>3 DEF LayoutCurrent
  <2>2. QED
    BY <2>1, FeaturesKept
<1>3. QED
  BY <1>1, <1>2, Invariance, PTL DEF Spec
===============================================================================
