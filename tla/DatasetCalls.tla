----------------------------- MODULE DatasetCalls -----------------------------
(*****************************************************************************)
(* The calls of datasets, a dataset's layers, and drivers.  A definition is  *)
(* named Class_method and is the set of paths a call of that C++ function    *)
(* can take, as steps of CallMacros; after it, one record per class gathers  *)
(* them under the method's name.                                             *)
(*****************************************************************************)
EXTENDS CallMacros

\* gdal.Dataset
Dataset_New == InternalConstructor
Dataset_getMetadata == {<<"self", "string?", "read", "ret">>}
Dataset_testCapability == {<<"self", "string", "read", "ret">>}
Dataset_getGCPProjection == Getter
Dataset_close == {<<"self", "close">>}
Dataset_flush == {<<"self", "write">>}
\* GDAL also answers NULL, which throws, for a statement that has no result set.
Dataset_executeSQL ==
  {<<"self", "string", "lasting?", "string?">>}
       ++ (Several ++ {<<"err", "ret">>} \cup {<<"write", "throw">>})
Dataset_getFileList_twice == {<<"self", "read", "new", "free", "free", "ret">>}
Dataset_getFileList == {<<"self", "read", "ret">>, <<"self", "read", "new", "free", "ret">>}
Dataset_getGCPs == Getter
Dataset_setGCPs ==
  {<<"self", "array", "string?", "measure", "new", "new", "new">>}
       ++ AnyTimes({<<"element", "rely", "key", "key", "key", "key", "key?", "key?",
       "key?">>}) ++ {<<"try", "free", "free", "free", "err">>}
  \cup {<<"self", "array", "string?", "measure", "new", "new", "new">>}
       ++ AnyTimes({<<"element", "rely", "key", "key", "key", "key", "key?", "key?",
       "key?">>}) ++ {<<"element", "free", "free", "free", "throw">>}
Dataset_buildOverviews ==
  {<<"self", "string", "array", "array?", "new">>} ++ AnyTimes({<<"element">>})
       ++ Several ++ {<<"free", "err">>}
  \cup {<<"self", "string", "array", "array?", "new">>} ++ AnyTimes({<<"element">>})
       ++ {<<"new">>} ++ AnyTimes({<<"element", "read">>}) ++ Several ++ {<<"free", "free", "err">>}
  \cup {<<"self", "string", "array", "array?", "new">>} ++ AnyTimes({<<"element">>})
       ++ {<<"element", "free", "throw">>}
  \cup {<<"self", "string", "array", "array?", "new">>} ++ AnyTimes({<<"element">>})
       ++ {<<"new">>} ++ AnyTimes({<<"element", "read">>})
       ++ {<<"element", "free", "free", "throw">>}
  \cup {<<"self", "string", "array", "array?", "new">>} ++ AnyTimes({<<"element">>})
       ++ {<<"new">>} ++ AnyTimes({<<"element", "read">>})
       ++ {<<"element", "read", "free", "free", "throw">>}
Dataset_descriptionGetter == Getter
Dataset_rasterSizeGetter == Getter
Dataset_srsGetter ==
  {<<"self", "read", "ret">>, <<"self", "read", "new", "ask", "err", "own", "ret">>}
Dataset_geoTransformGetter == {<<"self">>} ++ Unlooked
Dataset_driverGetter == Getter
Dataset_srsSetter ==
  {<<"self", "try", "err">>, <<"self", "ask", "err", "new", "free", "try", "err">>,
       <<"self", "throw">>}
Dataset_geoTransformSetter_buffer ==
  {<<"self", "array", "check", "new">>} ++ AnyTimes({<<"element", "check">>}) ++ {<<"try", "free", "err">>}
Dataset_geoTransformSetter ==
  {<<"self", "array", "check">>} ++ AnyTimes({<<"element", "check">>}) ++ {<<"try", "err">>}

Dataset == [New |-> Dataset_New, getMetadata |-> Dataset_getMetadata,
    testCapability |-> Dataset_testCapability, getGCPProjection |-> Dataset_getGCPProjection,
    close |-> Dataset_close, flush |-> Dataset_flush, executeSQL |-> Dataset_executeSQL,
    getFileList |-> Dataset_getFileList, getGCPs |-> Dataset_getGCPs,
    setGCPs |-> Dataset_setGCPs, buildOverviews |-> Dataset_buildOverviews,
    descriptionGetter |-> Dataset_descriptionGetter,
    rasterSizeGetter |-> Dataset_rasterSizeGetter, srsGetter |-> Dataset_srsGetter,
    geoTransformGetter |-> Dataset_geoTransformGetter, driverGetter |-> Dataset_driverGetter,
    srsSetter |-> Dataset_srsSetter, geoTransformSetter |-> Dataset_geoTransformSetter]

\* dataset.layers
DatasetLayers_New == InternalConstructor
DatasetLayers_get == {<<"self", "check">>} ++ Unlooked
DatasetLayers_create ==
  {<<"self", "string", "lasting?", "enum?", "try", "err", "ret">>}
  \cup {<<"self", "string", "lasting?", "enum?">>} ++ StringList_parse
       ++ {<<"try", "err", "ret">>}
DatasetLayers_count == Getter
DatasetLayers_copy ==
  {<<"self", "wrapped", "string">>} ++ ({<< >>} \cup StringList_parse)
       ++ Several ++ {<<"err", "ret">>}
DatasetLayers_remove == {<<"self", "int", "try", "err">>}

DatasetLayers == [New |-> DatasetLayers_New, get |-> DatasetLayers_get,
    create |-> DatasetLayers_create, count |-> DatasetLayers_count,
    copy |-> DatasetLayers_copy, remove |-> DatasetLayers_remove]

\* gdal.Driver
Driver_New == InternalConstructor
Driver_descriptionGetter == PlainGetter
Driver_deleteDataset == {<<"string">>} ++ Several ++ {<<"err">>}
Driver_create ==
  {<<"string">>, <<"string", "int", "int", "int?", "string?">>}
       ++ ({<< >>} \cup StringList_parse) ++ Several ++ {<<"err", "ret">>}
Driver_createCopy ==
  {<<"self", "string", "check", "wrapped">>} ++ ({<< >>} \cup StringList_parse)
       ++ Several ++ {<<"err", "ret">>}
Driver_copyFiles == {<<"string", "string", "try", "err">>}
Driver_rename == {<<"string", "string", "try", "err">>}
Driver_getMetadata == {<<"string?", "read", "ret">>}
Driver_open == {<<"string", "string?", "check", "new", "ask", "free", "err", "ret">>}

Driver == [New |-> Driver_New, descriptionGetter |-> Driver_descriptionGetter,
    deleteDataset |-> Driver_deleteDataset, create |-> Driver_create,
    createCopy |-> Driver_createCopy, copyFiles |-> Driver_copyFiles, rename |-> Driver_rename,
    getMetadata |-> Driver_getMetadata, open |-> Driver_open]

\* gdal.drivers
GDALDrivers_New == InternalConstructor
GDALDrivers_get == {<<"check", "read", "ret">>, <<"check", "throw">>}
GDALDrivers_getNames == {<<"read">>} ++ AnyTimes({<<"read">>}) ++ {<<"ret">>}
GDALDrivers_count == PlainGetter

GDALDrivers == [New |-> GDALDrivers_New, get |-> GDALDrivers_get,
    getNames |-> GDALDrivers_getNames, count |-> GDALDrivers_count]
===============================================================================
