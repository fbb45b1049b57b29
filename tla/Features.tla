------------------------------- MODULE Features -------------------------------
(***************************************************************************)
(* Feature definitions and the features laid out by them.                  *)
(*                                                                         *)
(* An OGRFeatureDefn is counted: its users are the layer whose schema it   *)
(* is, each gdal.FeatureDefn that wraps it and each OGRFeature made from   *)
(* it.  The binding counts by hand, one Reference in every FeatureDefn::New*)
(* and one Release in ~FeatureDefn, and hands a layer's or a feature's     *)
(* definition to JavaScript only as a copy.  A feature has one value for   *)
(* each field its definition had when the feature was made, and looks      *)
(* fields up in the definition as it is now.                               *)
(*                                                                         *)
(* Values, geometry fields and the rows a layer stores are left out.  A    *)
(* wrapper that is destroyed or collected is out of the maps: a destroyed  *)
(* feature's methods throw.                                                *)
(***************************************************************************)
EXTENDS Naturals, FiniteSets, Sequences, Functions

CONSTANTS
  DefnPtr,     \* addresses of OGRFeatureDefn objects
  Layer,       \* layers
  FeatureDefn, \* gdal.FeatureDefn wrappers
  Feature,     \* gdal.Feature wrappers
  Field,       \* field definitions, by value
  MaxFields    \* bound: fields a definition has

ASSUME FieldsAssumption == MaxFields \in Nat

VARIABLES
  defns,       \* allocated definitions: address -> [fields, refs]
  layers,      \* open layers: layer -> address of its definition
  wrappers,    \* FeatureDefn wrappers: wrapper -> this_
  features,    \* features that have a this_: feature -> [defn, layout]
  abandoned    \* history: copies FeatureDefn::clone made and gave to nobody

vars == <<defns, layers, wrappers, features, abandoned>>

Layout == UNION {[1..n -> Field] : n \in 0..MaxFields}

-------------------------------------------------------------------------------
Init ==
  /\ defns = << >> /\ layers = << >> /\ wrappers = << >> /\ features = << >>
  /\ abandoned = {}

Put(f, x, v) == [y \in DOMAIN f \cup {x} |-> IF y = x THEN v ELSE f[y]]
Without(f, x) == Restrict(f, DOMAIN f \ {x})

\* Mutant: the definition is deleted whoever else uses it.
ReleaseLast(d) == Without(defns, d)

\* OGRFeatureDefn::Reference and Release, the latter deleting at zero.
Reference(d) == [defns EXCEPT ![d].refs = @ + 1]
Release(d) ==
  IF defns[d].refs <= 1 THEN Without(defns, d)
  ELSE [defns EXCEPT ![d].refs = @ - 1]

-------------------------------------------------------------------------------
\* Mutant: FeatureDefn::New forgets def->Reference().
WrapUncounted(w, new_def, fields) ==
  /\ w \notin DOMAIN wrappers
  /\ new_def \notin DOMAIN defns
  /\ wrappers' = Put(wrappers, w, new_def)
  /\ defns' = Put(defns, new_def, [fields |-> fields, refs |-> 0])

\* FeatureDefn::New(def, false): wraps the copy new_def of def and counts it.
Wrap(w, new_def, fields) ==
  /\ w \notin DOMAIN wrappers
  /\ new_def \notin DOMAIN defns
  /\ wrappers' = Put(wrappers, w, new_def)
  /\ defns' = Put(defns, new_def, [fields |-> fields, refs |-> 1])

\* new gdal.FeatureDefn().
NewFeatureDefn(w, new_def) ==
  /\ Wrap(w, new_def, << >>)
  /\ UNCHANGED <<layers, features, abandoned>>

\* Mutant: the getter wraps the feature's definition itself, with a reference.
DefnGetterShared(f, w, new_def) ==
  /\ f \in DOMAIN features
  /\ w \notin DOMAIN wrappers
  /\ wrappers' = Put(wrappers, w, features[f].defn)
  /\ defns' = Reference(features[f].defn)
  /\ UNCHANGED <<layers, features, abandoned>>

\* feature.defn: a copy of the feature's definition.
DefnGetter(f, w, new_def) ==
  /\ f \in DOMAIN features
  /\ Wrap(w, new_def, defns[features[f].defn].fields)
  /\ UNCHANGED <<layers, features, abandoned>>

\* defn.clone(): FeatureDefn::New copies the copy it is given, and nobody has the
\* first one.
Clone(v, w, copy, new_def) ==
  /\ v \in DOMAIN wrappers /\ w \notin DOMAIN wrappers
  /\ copy # new_def /\ {copy, new_def} \cap DOMAIN defns = {}
  /\ LET fields == defns[wrappers[v]].fields
     IN  defns' = Put(Put(defns, copy, [fields |-> fields, refs |-> 0]),
                      new_def, [fields |-> fields, refs |-> 1])
  /\ wrappers' = Put(wrappers, w, new_def)
  /\ abandoned' = abandoned \cup {copy}
  /\ UNCHANGED <<layers, features>>

\* ~FeatureDefn, when the collector finds the wrapper out of reach.
CollectDefn(w) ==
  /\ w \in DOMAIN wrappers
  /\ defns' = Release(wrappers[w])
  /\ wrappers' = Without(wrappers, w)
  /\ UNCHANGED <<layers, features, abandoned>>

-------------------------------------------------------------------------------
\* A feature made from definition d counts it and has a value for each field.
Make(f, d) ==
  /\ f \notin DOMAIN features
  /\ defns' = Reference(d)
  /\ features' = Put(features, f, [defn |-> d, layout |-> defns[d].fields])
  /\ UNCHANGED <<layers, wrappers, abandoned>>

\* new gdal.Feature(layer); layer.features.get, first and next, where the driver
\* makes what it hands out from the layer's definition.
FeatureOfLayer(f, l) == l \in DOMAIN layers /\ Make(f, layers[l])

\* new gdal.Feature(defn): the wrapper's own definition, not a copy.
FeatureOfDefn(f, w) == w \in DOMAIN wrappers /\ Make(f, wrappers[w])

\* feature.clone().
CloneFeature(g, f) == g \in DOMAIN features /\ Make(f, features[g].defn)

\* Mutant: dispose leaves the OGRFeature, and its reference, behind.
DestroyNothing(f) ==
  /\ f \in DOMAIN features
  /\ features' = Without(features, f)
  /\ UNCHANGED <<defns, layers, wrappers, abandoned>>

\* Feature::dispose: feature.destroy() or the collector.
Destroy(f) ==
  /\ f \in DOMAIN features
  /\ defns' = Release(features[f].defn)
  /\ features' = Without(features, f)
  /\ UNCHANGED <<layers, wrappers, abandoned>>

-------------------------------------------------------------------------------
\* A driver opens a layer with some schema, and closes it with its dataset.
OpenLayer(l, new_def, fields) ==
  /\ l \notin DOMAIN layers /\ new_def \notin DOMAIN defns
  /\ layers' = Put(layers, l, new_def)
  /\ defns' = Put(defns, new_def, [fields |-> fields, refs |-> 1])
  /\ UNCHANGED <<wrappers, features, abandoned>>

CloseLayer(l) ==
  /\ l \in DOMAIN layers
  /\ defns' = Release(layers[l])
  /\ layers' = Without(layers, l)
  /\ UNCHANGED <<wrappers, features, abandoned>>

\* GDAL edits a definition in place, whoever uses it.
Edit(d, fields) ==
  /\ defns' = [defns EXCEPT ![d].fields = fields]
  /\ UNCHANGED <<layers, wrappers, features, abandoned>>

Add(d, new_fields) ==
  /\ Len(defns[d].fields) + Len(new_fields) <= MaxFields
  /\ Edit(d, defns[d].fields \o new_fields)

\* Mutant: the fields after i are taken from one too early.
RemoveTooEarly(d, i) ==
  /\ i \in DOMAIN defns[d].fields
  /\ LET old == defns[d].fields
     IN  Edit(d, SubSeq(old, 1, i) \o SubSeq(old, i, Len(old)))

\* ARG_FIELD_ID lets through an index of a field.
Remove(d, i) ==
  /\ i \in DOMAIN defns[d].fields
  /\ LET old == defns[d].fields
     IN  Edit(d, SubSeq(old, 1, i - 1) \o SubSeq(old, i + 1, Len(old)))

\* The map's length and range are checked, and GDAL refuses what is no permutation.
Reorder(d, map) ==
  /\ DOMAIN map = DOMAIN defns[d].fields
  /\ Range(map) = DOMAIN map
  /\ Edit(d, [i \in DOMAIN map |-> defns[d].fields[map[i]]])

\* defn.fields.add.  An array is added element by element: where one is no
\* FieldDefn the call throws and the fields before it stay, so new_fields is any
\* prefix of the argument.
DefnFieldsAdd(w, new_fields) == w \in DOMAIN wrappers /\ Add(wrappers[w], new_fields)

\* layer.fields.add, where the driver may also refuse a field halfway.
LayerFieldsAdd(l, new_fields) == l \in DOMAIN layers /\ Add(layers[l], new_fields)

\* fields.remove and fields.reorder of a definition and of a layer.
DefnFieldsRemove(w, i) == w \in DOMAIN wrappers /\ Remove(wrappers[w], i)
LayerFieldsRemove(l, i) == l \in DOMAIN layers /\ Remove(layers[l], i)
DefnFieldsReorder(w, map) == w \in DOMAIN wrappers /\ Reorder(wrappers[w], map)
LayerFieldsReorder(l, map) == l \in DOMAIN layers /\ Reorder(layers[l], map)

FieldMap == UNION {[1..n -> 1..n] : n \in 0..MaxFields}

Next ==
  \/ \E w \in FeatureDefn, d \in DefnPtr : NewFeatureDefn(w, d)
  \/ \E f \in Feature, w \in FeatureDefn, d \in DefnPtr : DefnGetter(f, w, d)
  \/ \E v, w \in FeatureDefn, c, d \in DefnPtr : Clone(v, w, c, d)
  \/ \E w \in FeatureDefn : CollectDefn(w)
  \/ \E f \in Feature, l \in Layer : FeatureOfLayer(f, l)
  \/ \E f \in Feature, w \in FeatureDefn : FeatureOfDefn(f, w)
  \/ \E f, g \in Feature : CloneFeature(g, f)
  \/ \E f \in Feature : Destroy(f)
  \/ \E l \in Layer, d \in DefnPtr, fields \in Layout : OpenLayer(l, d, fields)
  \/ \E l \in Layer : CloseLayer(l)
  \/ \E w \in FeatureDefn, fields \in Layout : DefnFieldsAdd(w, fields)
  \/ \E l \in Layer, fields \in Layout : LayerFieldsAdd(l, fields)
  \/ \E w \in FeatureDefn, i \in 1..MaxFields : DefnFieldsRemove(w, i)
  \/ \E l \in Layer, i \in 1..MaxFields : LayerFieldsRemove(l, i)
  \/ \E w \in FeatureDefn, map \in FieldMap : DefnFieldsReorder(w, map)
  \/ \E l \in Layer, map \in FieldMap : LayerFieldsReorder(l, map)

Spec == Init /\ [][Next]_vars

-------------------------------------------------------------------------------
LayersOf(d) == {l \in DOMAIN layers : layers[l] = d}
WrappersOf(d) == {w \in DOMAIN wrappers : wrappers[w] = d}
FeaturesOf(d) == {f \in DOMAIN features : features[f].defn = d}

\* Every variable keeps its type.
TypeOK ==
  /\ DOMAIN defns \subseteq DefnPtr
  /\ \A d \in DOMAIN defns : defns[d] \in [fields : Layout, refs : Nat]
  /\ DOMAIN layers \subseteq Layer /\ Range(layers) \subseteq DefnPtr
  /\ DOMAIN wrappers \subseteq FeatureDefn /\ Range(wrappers) \subseteq DefnPtr
  /\ DOMAIN features \subseteq Feature
  /\ Range(features) \subseteq [defn : DefnPtr, layout : Layout]
  /\ abandoned \subseteq DefnPtr

\* A definition is freed after its last user: whatever order a layer is closed,
\* wrappers are collected and features destroyed in, each finds its own allocated.
UsersBacked ==
  /\ Range(layers) \cup Range(wrappers) \subseteq DOMAIN defns
  /\ \A f \in DOMAIN features : features[f].defn \in DOMAIN defns

\* The count that New, clone, the destructors and GDAL keep together is the number
\* of users, so a definition without users can only be one that was never counted.
Counted == \A d \in DOMAIN defns :
  defns[d].refs = Cardinality(LayersOf(d)) + Cardinality(WrappersOf(d))
                    + Cardinality(FeaturesOf(d))

\* A FeatureDefn is the program's own: its definition is no layer's and no other
\* wrapper's, so its fields.add and remove never change what another one says.
Independent == \A w \in DOMAIN wrappers :
  /\ LayersOf(wrappers[w]) = {}
  /\ WrappersOf(wrappers[w]) = {w}

\* A definition nobody uses any more is freed, but for the copies that
\* FeatureDefn::clone makes and forgets.
OnlyCloneLeaks == abandoned =
  {d \in DOMAIN defns : LayersOf(d) \cup WrappersOf(d) \cup FeaturesOf(d) = {}}

\* GDAL asks that a definition's fields change only "while there are no OGRFeature
\* objects in existence based on this OGRFeatureDefn": a feature has a value for
\* each field of its definition, in the definition's order.
LayoutCurrent == \A f \in DOMAIN features :
  features[f].layout = defns[features[f].defn].fields
===============================================================================
