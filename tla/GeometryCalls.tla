---------------------------- MODULE GeometryCalls -----------------------------
(*****************************************************************************)
(* The calls of geometries and their children.  A definition is named        *)
(* Class_method and is the set of paths a call of that C++ function can      *)
(* take, as steps of CallMacros; after it, one record per class gathers      *)
(* them under the method's name.                                             *)
(*****************************************************************************)
EXTENDS CallMacros

\* gdal.Geometry
Geometry_New == InternalConstructor
Geometry_toString == PlainGetter
Geometry_closeRings == WrappedMethod
Geometry_empty == WrappedMethod
Geometry_swapXY == WrappedMethod
Geometry_isEmpty == WithResult
Geometry_isValid == WithResult
Geometry_isSimple == WithResult
Geometry_isRing == WithResult
Geometry_intersects == WithResult1Wrapped("lasting")
Geometry_equals == WithResult1Wrapped("lasting")
Geometry_disjoint == WithResult1Wrapped("lasting")
Geometry_touches == WithResult1Wrapped("lasting")
Geometry_crosses == WithResult1Wrapped("lasting")
Geometry_within == WithResult1Wrapped("lasting")
Geometry_contains == WithResult1Wrapped("lasting")
Geometry_overlaps == WithResult1Wrapped("lasting")
Geometry_distance == {<<"lasting", "self">>} ++ Unlooked
Geometry_segmentize == With1Double
Geometry_transform == WithOgrErrResult1Wrapped("lasting", Several)
Geometry_transformTo == WithOgrErrResult1Wrapped("lasting", Several)
Geometry_clone == Cloned
Geometry_convexHull == Made
Geometry_boundary == Made
Geometry_intersection == {<<"lasting">>} ++ Made
Geometry_unionGeometry == {<<"lasting">>} ++ Made
Geometry_difference == {<<"lasting">>} ++ Made
Geometry_symDifference == {<<"lasting">>} ++ Made
Geometry_simplify == {<<"double">>} ++ Made
Geometry_simplifyPreserveTopology == {<<"double">>} ++ Made
Geometry_buffer == {<<"double", "int?">>} ++ Made
Geometry_exportToWKT == {<<"ask", "err", "new", "ret">>}
Geometry_exportToWKB ==
  {<<"read", "new", "string?", "check", "string?", "check", "read", "own", "ret">>,
       <<"read", "new", "string?", "check", "string?", "check", "fails", "free", "throw">>}
Exported == {<<"fails">>, <<"read", "new", "free", "ret">>}
Geometry_exportToKML == Exported
Geometry_exportToGML == Exported
Geometry_exportToJSON == Exported
Geometry_centroid == {<<"new", "ask", "own", "ret">>}
Geometry_getEnvelope == {<<"new", "read", "free", "ret">>}
Geometry_getEnvelope3D == {<<"new", "read", "free", "ret">>}
Geometry_createFromWkt ==
  {<<"string", "lasting?", "ask", "err", "new", "own", "ret">>,
       <<"string", "lasting?", "ask", "err", "new", "throw", "ret">>}
Geometry_createFromWkb ==
  {<<"object", "lasting?", "check", "ask", "err", "new", "own", "ret">>,
       <<"object", "lasting?", "check", "ask", "err", "new", "throw", "ret">>}
Geometry_createFromGeoJson ==
  {<<"check", "string">>, <<"check", "object", "text", "check">>} ++ Made
Geometry_create ==
  {<<"enum">>} ++ (Made \cup {<<"read", "new", "throw", "ret">>})
Geometry_srsGetter == ClonedOrNull
Geometry_srsSetter == {<<"check", "write">>}
Geometry_nameGetter == PlainGetter
Geometry_typeGetter == PlainGetter
Geometry_wkbSizeGetter == PlainGetter
Geometry_dimensionGetter == PlainGetter
Geometry_coordinateDimensionGetter == PlainGetter
Geometry_coordinateDimensionSetter == {<<"int", "check", "write">>}
Geometry_getConstructor == {<<"enum", "ret">>}
Geometry_getName == {<<"enum", "ret">>}

Geometry == [New |-> Geometry_New, toString |-> Geometry_toString,
    closeRings |-> Geometry_closeRings, empty |-> Geometry_empty, swapXY |-> Geometry_swapXY,
    isEmpty |-> Geometry_isEmpty, isValid |-> Geometry_isValid, isSimple |-> Geometry_isSimple,
    isRing |-> Geometry_isRing, intersects |-> Geometry_intersects, equals |-> Geometry_equals,
    disjoint |-> Geometry_disjoint, touches |-> Geometry_touches, crosses |-> Geometry_crosses,
    within |-> Geometry_within, contains |-> Geometry_contains, overlaps |-> Geometry_overlaps,
    distance |-> Geometry_distance, segmentize |-> Geometry_segmentize,
    transform |-> Geometry_transform, transformTo |-> Geometry_transformTo,
    clone |-> Geometry_clone, convexHull |-> Geometry_convexHull,
    boundary |-> Geometry_boundary, intersection |-> Geometry_intersection,
    unionGeometry |-> Geometry_unionGeometry, difference |-> Geometry_difference,
    symDifference |-> Geometry_symDifference, simplify |-> Geometry_simplify,
    simplifyPreserveTopology |-> Geometry_simplifyPreserveTopology, buffer |-> Geometry_buffer,
    exportToWKT |-> Geometry_exportToWKT, exportToWKB |-> Geometry_exportToWKB,
    exportToKML |-> Geometry_exportToKML, exportToGML |-> Geometry_exportToGML,
    exportToJSON |-> Geometry_exportToJSON, centroid |-> Geometry_centroid,
    getEnvelope |-> Geometry_getEnvelope, getEnvelope3D |-> Geometry_getEnvelope3D,
    createFromWkt |-> Geometry_createFromWkt, createFromWkb |-> Geometry_createFromWkb,
    createFromGeoJson |-> Geometry_createFromGeoJson, create |-> Geometry_create,
    srsGetter |-> Geometry_srsGetter, srsSetter |-> Geometry_srsSetter,
    nameGetter |-> Geometry_nameGetter, typeGetter |-> Geometry_typeGetter,
    wkbSizeGetter |-> Geometry_wkbSizeGetter, dimensionGetter |-> Geometry_dimensionGetter,
    coordinateDimensionGetter |-> Geometry_coordinateDimensionGetter,
    coordinateDimensionSetter |-> Geometry_coordinateDimensionSetter,
    getConstructor |-> Geometry_getConstructor, getName |-> Geometry_getName]

\* gdal.Point
Point_New == {<<"check", "ret">>, <<"check", "double?", "double?", "double?", "check", "ret">>}
Point_xGetter == PlainGetter
Point_xSetter == {<<"double", "write">>}
Point_yGetter == PlainGetter
Point_ySetter == {<<"double", "write">>}
Point_zGetter == PlainGetter
Point_zSetter == {<<"double", "write">>}

Point == [New |-> Point_New, xGetter |-> Point_xGetter, xSetter |-> Point_xSetter,
    yGetter |-> Point_yGetter, ySetter |-> Point_ySetter, zGetter |-> Point_zGetter,
    zSetter |-> Point_zSetter]

\* gdal.LineString
LineString_New == {<<"check", "ret">>, <<"check", "check", "ret">>}
LineString_getLength == WithResult
LineString_value == {<<"new", "double", "read", "own", "ret">>}
LineString_addSubLineString == {<<"lasting", "int?", "int?", "read", "check", "write">>}

LineString == [New |-> LineString_New, getLength |-> LineString_getLength,
    value |-> LineString_value, addSubLineString |-> LineString_addSubLineString]

\* gdal.LinearRing
LinearRing_New == {<<"check", "ret">>, <<"check", "check", "ret">>}
LinearRing_getArea == WithResult

LinearRing == [New |-> LinearRing_New, getArea |-> LinearRing_getArea]

\* gdal.Polygon
Polygon_New == {<<"check", "ret">>, <<"check", "check", "ret">>}
Polygon_getArea == WithResult

Polygon == [New |-> Polygon_New, getArea |-> Polygon_getArea]

\* gdal.GeometryCollection
GeometryCollection_New == {<<"check", "ret">>, <<"check", "check", "ret">>}
GeometryCollection_getArea == WithResult
GeometryCollection_getLength == WithResult

GeometryCollection == [New |-> GeometryCollection_New, getArea |-> GeometryCollection_getArea,
    getLength |-> GeometryCollection_getLength]

\* gdal.MultiLineString
MultiLineString_New == {<<"check", "ret">>, <<"check", "check", "ret">>}
MultiLineString_polygonize == Made

MultiLineString == [New |-> MultiLineString_New, polygonize |-> MultiLineString_polygonize]

\* gdal.MultiPoint
MultiPoint_New == {<<"check", "ret">>, <<"check", "check", "ret">>}

MultiPoint == [New |-> MultiPoint_New]

\* gdal.MultiPolygon
MultiPolygon_New == {<<"check", "ret">>, <<"check", "check", "ret">>}
MultiPolygon_unionCascaded == Made
MultiPolygon_getArea == WithResult

MultiPolygon == [New |-> MultiPolygon_New, unionCascaded |-> MultiPolygon_unionCascaded,
    getArea |-> MultiPolygon_getArea]

\* collection.children
GeometryCollectionChildren_New == InternalConstructor
GeometryCollectionChildren_count == PlainGetter
GeometryCollectionChildren_get == {<<"int">>} ++ GeometryCopy
GeometryCollectionChildren_remove == {<<"int", "try", "err">>}
GeometryCollectionChildren_add ==
  {<<"try", "err">>, <<"throw">>}
  \cup AnyTimes({<<"element", "try", "err">>})
  \cup AnyTimes({<<"element", "try", "err">>}) ++ {<<"element", "throw">>}

GeometryCollectionChildren == [New |-> GeometryCollectionChildren_New,
    count |-> GeometryCollectionChildren_count, get |-> GeometryCollectionChildren_get,
    remove |-> GeometryCollectionChildren_remove, add |-> GeometryCollectionChildren_add]

\* polygon.rings
PolygonRings_New == InternalConstructor
PolygonRings_count == PlainGetter
PolygonRings_get == {<<"int">>} ++ ClonedOrNull
PolygonRings_add ==
  {<<"try">>, <<"throw">>}
  \cup AnyTimes({<<"element", "try">>})
  \cup AnyTimes({<<"element", "try">>}) ++ {<<"element", "throw">>}

PolygonRings == [New |-> PolygonRings_New, count |-> PolygonRings_count,
    get |-> PolygonRings_get, add |-> PolygonRings_add]

\* line.points
LineStringPoints_New == InternalConstructor
LineStringPoints_count == PlainGetter
LineStringPoints_reverse == {<<"write">>}
LineStringPoints_resize == {<<"int", "write">>}
LineStringPoints_get ==
  {<<"new", "int", "read", "read", "own", "ret">>, <<"new", "int", "read", "ret">>}
LineStringPoints_set ==
  {<<"int", "read", "measure", "check", "object", "rely", "write">>,
       <<"int", "read", "measure", "check", "object", "key", "key", "key?", "rely",
       "write">>, <<"int", "read", "measure", "check", "double", "double", "rely", "write">>,
       <<"int", "read", "measure", "check", "double", "double", "double", "rely", "write">>,
       <<"int", "read", "measure", "check", "throw">>}
LineStringPoints_add ==
  {<<"object", "write">>, <<"object", "key", "key", "key?", "write">>,
       <<"double", "double", "write">>, <<"double", "double", "double", "write">>, <<"throw">>}
  \cup {<<"object">>} ++ AnyTimes({<<"element", "object", "write">>,
                                   <<"element", "object", "key", "key", "key?", "write">>})

LineStringPoints == [New |-> LineStringPoints_New, count |-> LineStringPoints_count,
    reverse |-> LineStringPoints_reverse, resize |-> LineStringPoints_resize,
    get |-> LineStringPoints_get, set |-> LineStringPoints_set, add |-> LineStringPoints_add]
===============================================================================
