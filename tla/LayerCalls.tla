------------------------------ MODULE LayerCalls ------------------------------
(*****************************************************************************)
(* The calls of layers, their features and their fields.  A definition is    *)
(* named Class_method and is the set of paths a call of that C++ function    *)
(* can take, as steps of CallMacros; after it, one record per class gathers  *)
(* them under the method's name.                                             *)
(*****************************************************************************)
EXTENDS CallMacros

\* gdal.Layer
Layer_New == InternalConstructor
Layer_toString == PlainGetter
Layer_syncToDisk == WithOgrErrResult(Several)
Layer_testCapability == WithResult1String
Layer_getExtent == {<<"self", "bool?", "new", "ask", "err", "free", "ret">>}
Layer_getSpatialFilter == {<<"self">>} ++ GeometryCopy
Layer_setSpatialFilter_early == {<<"self", "write", "lasting?", "write">>}
Layer_setSpatialFilter ==
  {<<"self", "lasting?", "write">>,
       <<"self", "double", "double", "double", "double", "write">>, <<"self", "throw">>}
Layer_setAttributeFilter == {<<"self", "string?">>} ++ Several ++ {<<"err">>}
Layer_srsGetter == {<<"self">>} ++ ClonedOrNull
Layer_nameGetter == Getter
Layer_geomColumnGetter == Getter
Layer_fidColumnGetter == Getter
Layer_geomTypeGetter == Getter

Layer == [New |-> Layer_New, toString |-> Layer_toString, syncToDisk |-> Layer_syncToDisk,
    testCapability |-> Layer_testCapability, getExtent |-> Layer_getExtent,
    getSpatialFilter |-> Layer_getSpatialFilter, setSpatialFilter |-> Layer_setSpatialFilter,
    setAttributeFilter |-> Layer_setAttributeFilter, srsGetter |-> Layer_srsGetter,
    nameGetter |-> Layer_nameGetter, geomColumnGetter |-> Layer_geomColumnGetter,
    fidColumnGetter |-> Layer_fidColumnGetter, geomTypeGetter |-> Layer_geomTypeGetter]

\* layer.features
LayerFeatures_New == InternalConstructor
LayerFeatures_get == {<<"self", "int">>} ++ Made
LayerFeatures_first == {<<"self", "write">>} ++ Made
LayerFeatures_next == {<<"self", "write">>} ++ Made
LayerFeatures_add == {<<"self", "wrapped", "try", "err">>}
LayerFeatures_count == {<<"self", "bool?", "read", "ret">>}
LayerFeatures_set ==
  {<<"self", "wrapped", "alive", "try", "err">>,
       <<"self", "int", "wrapped", "try", "err", "alive", "try", "err">>, <<"self", "throw">>}
LayerFeatures_remove_silent == {<<"self", "int", "try">>}
LayerFeatures_remove == {<<"self", "int", "try", "err">>}

LayerFeatures == [New |-> LayerFeatures_New, get |-> LayerFeatures_get,
    first |-> LayerFeatures_first, next |-> LayerFeatures_next, add |-> LayerFeatures_add,
    count |-> LayerFeatures_count, set |-> LayerFeatures_set, remove |-> LayerFeatures_remove]

\* layer.fields
LayerFields_New == InternalConstructor
LayerFields_count == {<<"self", "ask", "err", "read", "ret">>}
LayerFields_indexOf == {<<"self", "ask", "err", "string", "read", "ret">>}
LayerFields_get == {<<"self", "ask", "err", "field">>} ++ Cloned
LayerFields_getNames == {<<"self", "ask", "err", "read", "ret">>}
LayerFields_remove == {<<"self", "ask", "err", "field", "try", "err">>}
LayerFields_add ==
  {<<"self", "bool?", "try", "err">>, <<"self", "bool?", "throw">>}
  \cup {<<"self", "bool?">>} ++ AnyTimes({<<"element", "try", "err">>})
  \cup {<<"self", "bool?">>} ++ AnyTimes({<<"element", "try", "err">>})
       ++ {<<"element", "throw">>}
LayerFields_reorder ==
  {<<"self", "ask", "err", "array", "read", "measure", "check", "new">>}
       ++ AnyTimes({<<"element">>}) ++ {<<"rely", "try", "free", "err">>}
  \cup {<<"self", "ask", "err", "array", "read", "measure", "check", "new">>}
       ++ AnyTimes({<<"element">>}) ++ {<<"element", "free", "throw">>}

LayerFields == [New |-> LayerFields_New, count |-> LayerFields_count,
    indexOf |-> LayerFields_indexOf, get |-> LayerFields_get,
    getNames |-> LayerFields_getNames, remove |-> LayerFields_remove, add |-> LayerFields_add,
    reorder |-> LayerFields_reorder]
===============================================================================
