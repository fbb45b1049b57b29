----------------------------- MODULE FeatureCalls -----------------------------
(*****************************************************************************)
(* The calls of features, the values of their fields, and definitions.  A    *)
(* definition is named Class_method and is the set of paths a call of that   *)
(* C++ function can take, as steps of CallMacros; after it, one record per   *)
(* class gathers them under the method's name.                               *)
(*****************************************************************************)
EXTENDS CallMacros

\* gdal.Feature
Feature_New == {<<"check", "ret">>, <<"lasting", "read", "ret">>, <<"throw">>}
Feature_getGeometry == {<<"self">>} ++ GeometryCopy
Feature_getFieldDefn_goes_on == {<<"self", "int", "read", "throw", "read", "ret">>}
Feature_getFieldDefn == {<<"int", "self", "read", "check">>} ++ Cloned
Feature_setGeometry == {<<"lasting?", "self", "try", "err">>}
Feature_equals == WithResult1Wrapped("wrapped")
Feature_clone == {<<"self">>} ++ Cloned
Feature_destroy == {<<"self", "close">>}
Feature_setFrom ==
  {<<"wrapped", "self", "bool?">>} ++ Several ++ {<<"err">>}
  \cup {<<"wrapped", "self", "array", "bool?", "check", "measure", "new">>}
       ++ SomeTimes({<<"element", "rely">>}) ++ Several ++ {<<"free", "err">>}
  \cup {<<"wrapped", "self", "array", "bool?", "check", "measure", "new">>}
       ++ SomeTimes({<<"element", "rely">>}) ++ {<<"free", "throw">>}
Feature_fidGetter == Getter
Feature_defnGetter == {<<"self">>} ++ Cloned
Feature_fidSetter == {<<"self", "int", "try">>}

Feature == [New |-> Feature_New, getGeometry |-> Feature_getGeometry,
    getFieldDefn |-> Feature_getFieldDefn, setGeometry |-> Feature_setGeometry,
    equals |-> Feature_equals, clone |-> Feature_clone, destroy |-> Feature_destroy,
    setFrom |-> Feature_setFrom, fidGetter |-> Feature_fidGetter,
    defnGetter |-> Feature_defnGetter, fidSetter |-> Feature_fidSetter]

\* feature.fields
FeatureFields_New == InternalConstructor
FeatureFields_set ==
  {<<"self", "field", "write", "ret">>, <<"self", "field", "throw">>, <<"self", "throw">>}
  \cup {<<"self", "read">>} ++ AnyTimes({<<"element", "write">>}) ++ {<<"ret">>}
  \cup {<<"self", "read">>} ++ AnyTimes({<<"element", "write">>}) ++ {<<"element", "throw">>}
  \cup {<<"self", "read">>} ++ AnyTimes({<<"read", "element", "write">>, <<"read">>})
       ++ {<<"ret">>, <<"read", "element", "throw">>}
FeatureFields_reset ==
  {<<"self", "read", "write", "ret">>}
  \cup {<<"self", "read", "object">>} ++ AnyTimes({<<"read", "element", "write">>})
       ++ {<<"ret">>}
  \cup {<<"self", "read", "object">>} ++ AnyTimes({<<"read", "element", "write">>})
       ++ {<<"read", "element", "throw">>}
FeatureFields_count == Getter
FeatureFields_indexOf == {<<"self", "string", "read", "ret">>}
FeatureFields_toObject ==
  {<<"self", "read">>} ++ AnyTimes({<<"read", "read">>}) ++ {<<"ret">>}
  \cup {<<"self", "read">>} ++ AnyTimes({<<"read", "read">>}) ++ {<<"read", "throw">>}
       ++ AnyTimes({<<"read", "read">>}) ++ {<<"ret">>}
  \cup {<<"self", "read">>} ++ AnyTimes({<<"read", "read">>}) ++ {<<"read", "throw">>}
FeatureFields_toArray ==
  {<<"self", "read">>} ++ AnyTimes({<<"read">>}) ++ {<<"ret">>}
  \cup {<<"self", "read">>} ++ AnyTimes({<<"read">>}) ++ {<<"throw">>}
       ++ AnyTimes({<<"read">>}) ++ {<<"ret">>}
FeatureFields_get ==
  {<<"self", "field", "read", "ret">>, <<"self", "field", "read", "throw", "ret">>}
FeatureFields_getNames ==
  {<<"self", "read">>} ++ AnyTimes({<<"read">>}) ++ {<<"ret">>}
  \cup {<<"self", "read">>} ++ AnyTimes({<<"read">>}) ++ {<<"throw">>}

FeatureFields == [New |-> FeatureFields_New, set |-> FeatureFields_set,
    reset |-> FeatureFields_reset, count |-> FeatureFields_count,
    indexOf |-> FeatureFields_indexOf, toObject |-> FeatureFields_toObject,
    toArray |-> FeatureFields_toArray, get |-> FeatureFields_get,
    getNames |-> FeatureFields_getNames]

\* gdal.FeatureDefn
FeatureDefn_New == {<<"check", "ret">>, <<"throw">>}
\* The clone made here is not the one that New makes of it and wraps.
FeatureDefn_clone == {<<"read", "new", "new", "own", "ret">>}
FeatureDefn_nameGetter == PlainGetter
FeatureDefn_geomTypeGetter == PlainGetter
FeatureDefn_geomIgnoredGetter == PlainGetter
FeatureDefn_styleIgnoredGetter == PlainGetter
FeatureDefn_geomTypeSetter == {<<"int", "write">>}
FeatureDefn_geomIgnoredSetter == {<<"bool", "write">>}
FeatureDefn_styleIgnoredSetter == {<<"bool", "write">>}

FeatureDefn == [New |-> FeatureDefn_New, clone |-> FeatureDefn_clone,
    nameGetter |-> FeatureDefn_nameGetter, geomTypeGetter |-> FeatureDefn_geomTypeGetter,
    geomIgnoredGetter |-> FeatureDefn_geomIgnoredGetter,
    styleIgnoredGetter |-> FeatureDefn_styleIgnoredGetter,
    geomTypeSetter |-> FeatureDefn_geomTypeSetter,
    geomIgnoredSetter |-> FeatureDefn_geomIgnoredSetter,
    styleIgnoredSetter |-> FeatureDefn_styleIgnoredSetter]

\* defn.fields
FeatureDefnFields_New == InternalConstructor
FeatureDefnFields_count == Getter
FeatureDefnFields_indexOf == {<<"self", "string", "read", "ret">>}
FeatureDefnFields_get == {<<"self", "field">>} ++ Cloned
FeatureDefnFields_getNames == Getter
FeatureDefnFields_remove == {<<"self", "field", "try", "err">>}
FeatureDefnFields_add ==
  {<<"self", "write">>, <<"self", "throw">>}
  \cup {<<"self">>} ++ AnyTimes({<<"element", "write">>})
  \cup {<<"self">>} ++ AnyTimes({<<"element", "write">>}) ++ {<<"element", "throw">>}
FeatureDefnFields_reorder ==
  {<<"self", "array", "read", "measure", "check", "new">>} ++ AnyTimes({<<"element">>})
       ++ {<<"rely", "try", "free", "err">>}
  \cup {<<"self", "array", "read", "measure", "check", "new">>} ++ AnyTimes({<<"element">>})
       ++ {<<"element", "free", "throw">>}

FeatureDefnFields == [New |-> FeatureDefnFields_New, count |-> FeatureDefnFields_count,
    indexOf |-> FeatureDefnFields_indexOf, get |-> FeatureDefnFields_get,
    getNames |-> FeatureDefnFields_getNames, remove |-> FeatureDefnFields_remove,
    add |-> FeatureDefnFields_add, reorder |-> FeatureDefnFields_reorder]

\* gdal.FieldDefn
FieldDefn_New == {<<"check", "ret">>, <<"string", "string", "check", "ret">>, <<"throw">>}
FieldDefn_nameGetter == PlainGetter
FieldDefn_typeGetter == PlainGetter
FieldDefn_ignoredGetter == PlainGetter
FieldDefn_justificationGetter == PlainGetter
FieldDefn_widthGetter == PlainGetter
FieldDefn_precisionGetter == PlainGetter
FieldDefn_nameSetter == {<<"string", "write">>}
FieldDefn_typeSetter == {<<"string", "check", "write">>}
FieldDefn_justificationSetter == {<<"text", "string?", "check", "write">>}
FieldDefn_widthSetter == {<<"int", "write">>}
FieldDefn_precisionSetter == {<<"int", "write">>}
FieldDefn_ignoredSetter == {<<"bool", "write">>}

FieldDefn == [New |-> FieldDefn_New, nameGetter |-> FieldDefn_nameGetter,
    typeGetter |-> FieldDefn_typeGetter, ignoredGetter |-> FieldDefn_ignoredGetter,
    justificationGetter |-> FieldDefn_justificationGetter,
    widthGetter |-> FieldDefn_widthGetter, precisionGetter |-> FieldDefn_precisionGetter,
    nameSetter |-> FieldDefn_nameSetter, typeSetter |-> FieldDefn_typeSetter,
    justificationSetter |-> FieldDefn_justificationSetter,
    widthSetter |-> FieldDefn_widthSetter, precisionSetter |-> FieldDefn_precisionSetter,
    ignoredSetter |-> FieldDefn_ignoredSetter]
===============================================================================
