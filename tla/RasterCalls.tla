----------------------------- MODULE RasterCalls ------------------------------
(*****************************************************************************)
(* The calls of raster bands, their overviews and pixels, and a dataset's    *)
(* bands.  A definition is named Class_method and is the set of paths a      *)
(* call of that C++ function can take, as steps of CallMacros; after it,     *)
(* one record per class gathers them under the method's name.                *)
(*****************************************************************************)
EXTENDS CallMacros

\* gdal.RasterBand
RasterBand_New == InternalConstructor
\* GDALRasterBand::FlushCache has a status, and the macro takes no notice of it.
RasterBand_flush == {<<"self", "try">>}
RasterBand_getMaskFlags == WithResult
RasterBand_createMaskBand == WithCplErrResult1Integer
RasterBand_getMaskBand == {<<"self">>} ++ Unlooked
RasterBand_fill == {<<"double", "double?", "self">>} ++ Several ++ {<<"err">>}
RasterBand_getStatistics ==
  {<<"bool", "bool", "self", "try", "err", "ret">>,
       <<"bool", "bool", "self", "try", "throw", "ret">>}
RasterBand_computeStatistics ==
  {<<"bool", "self", "try", "err", "ret">>, <<"bool", "self", "try", "throw", "ret">>}
RasterBand_setStatistics == {<<"double", "double", "double", "double", "self", "try", "err">>}
RasterBand_getMetadata == {<<"string?", "self", "read", "ret">>}
RasterBand_idGetter == Getter
RasterBand_descriptionGetter == Getter
RasterBand_sizeGetter == Getter
RasterBand_blockSizeGetter == Getter
RasterBand_minimumGetter == {<<"self">>} ++ Unlooked
RasterBand_maximumGetter == {<<"self">>} ++ Unlooked
RasterBand_offsetGetter == {<<"self">>} ++ Unlooked
RasterBand_scaleGetter == {<<"self">>} ++ Unlooked
RasterBand_noDataValueGetter == Getter
RasterBand_unitTypeGetter == Getter
RasterBand_dataTypeGetter == {<<"self", "read", "ret">>, <<"self", "read">>}
RasterBand_readOnlyGetter == Getter
RasterBand_hasArbitraryOverviewsGetter == Getter
RasterBand_categoryNamesGetter == Getter
RasterBand_colorInterpretationGetter == {<<"self", "read", "ret">>, <<"self", "read">>}
RasterBand_unitTypeSetter == {<<"self", "string", "try", "err">>}
RasterBand_noDataValueSetter == {<<"self", "double?", "try", "err">>}
RasterBand_scaleSetter == {<<"self", "double", "try", "err">>}
RasterBand_offsetSetter == {<<"self", "double", "try", "err">>}
RasterBand_categoryNamesSetter ==
  {<<"self", "array", "try", "err">>}
  \cup {<<"self", "array", "measure", "new", "new">>}
       ++ SomeTimes({<<"element", "text", "rely">>}) ++ {<<"try", "free", "err">>}
RasterBand_colorInterpretationSetter == {<<"self", "string?", "try", "err">>}

RasterBand == [New |-> RasterBand_New, flush |-> RasterBand_flush,
    getMaskFlags |-> RasterBand_getMaskFlags, createMaskBand |-> RasterBand_createMaskBand,
    getMaskBand |-> RasterBand_getMaskBand, fill |-> RasterBand_fill,
    getStatistics |-> RasterBand_getStatistics,
    computeStatistics |-> RasterBand_computeStatistics,
    setStatistics |-> RasterBand_setStatistics, getMetadata |-> RasterBand_getMetadata,
    idGetter |-> RasterBand_idGetter, descriptionGetter |-> RasterBand_descriptionGetter,
    sizeGetter |-> RasterBand_sizeGetter, blockSizeGetter |-> RasterBand_blockSizeGetter,
    minimumGetter |-> RasterBand_minimumGetter, maximumGetter |-> RasterBand_maximumGetter,
    offsetGetter |-> RasterBand_offsetGetter, scaleGetter |-> RasterBand_scaleGetter,
    noDataValueGetter |-> RasterBand_noDataValueGetter,
    unitTypeGetter |-> RasterBand_unitTypeGetter, dataTypeGetter |-> RasterBand_dataTypeGetter,
    readOnlyGetter |-> RasterBand_readOnlyGetter,
    hasArbitraryOverviewsGetter |-> RasterBand_hasArbitraryOverviewsGetter,
    categoryNamesGetter |-> RasterBand_categoryNamesGetter,
    colorInterpretationGetter |-> RasterBand_colorInterpretationGetter,
    unitTypeSetter |-> RasterBand_unitTypeSetter,
    noDataValueSetter |-> RasterBand_noDataValueSetter, scaleSetter |-> RasterBand_scaleSetter,
    offsetSetter |-> RasterBand_offsetSetter,
    categoryNamesSetter |-> RasterBand_categoryNamesSetter,
    colorInterpretationSetter |-> RasterBand_colorInterpretationSetter]

\* band.overviews
RasterBandOverviews_New == InternalConstructor
RasterBandOverviews_get == {<<"self", "int", "ask", "err", "ret">>}
RasterBandOverviews_getBySampleCount == {<<"self", "int", "read", "ret">>}
RasterBandOverviews_count_unchecked == {<<"read", "ret">>}
RasterBandOverviews_count == Getter

RasterBandOverviews == [New |-> RasterBandOverviews_New, get |-> RasterBandOverviews_get,
    getBySampleCount |-> RasterBandOverviews_getBySampleCount,
    count |-> RasterBandOverviews_count]

\* band.pixels
RasterBandPixels_New == InternalConstructor
RasterBandPixels_get == {<<"self", "int", "int", "ask", "err", "ret">>}
RasterBandPixels_set == {<<"self", "int", "int", "double", "try", "err">>}
RasterBandPixels_read ==
  {<<"self", "int", "int", "int", "int", "read", "int?", "int?", "string?">>}
       ++ ({<<"int?", "int?", "check">>} ++ TypedArray_New
  \cup {<<"object">>} ++ TypedArray_Identify ++ {<<"check", "int?", "int?", "check">>})
       ++ TypedArray_Validate ++ {<<"ask", "err", "ret">>}
RasterBandPixels_write ==
  {<<"self", "int", "int", "int", "int", "object", "int?", "int?">>} ++ TypedArray_Identify
       ++ {<<"check", "int?", "int?", "check">>} ++ TypedArray_Validate ++ Several
       ++ {<<"err">>}
RasterBandPixels_readBlock ==
  {<<"self", "int", "int", "read">>} ++ ({<<"object">>}
  \cup TypedArray_New) ++ TypedArray_Validate ++ {<<"ask", "err", "ret">>}
RasterBandPixels_writeBlock ==
  {<<"self", "read", "int", "int", "object", "read">>} ++ TypedArray_Validate
       ++ {<<"try", "err">>}

RasterBandPixels == [New |-> RasterBandPixels_New, get |-> RasterBandPixels_get,
    set |-> RasterBandPixels_set, read |-> RasterBandPixels_read,
    write |-> RasterBandPixels_write, readBlock |-> RasterBandPixels_readBlock,
    writeBlock |-> RasterBandPixels_writeBlock]

\* dataset.bands
DatasetBands_New == InternalConstructor
DatasetBands_get == {<<"self", "int">>} ++ Unlooked
DatasetBands_create ==
  {<<"self", "check", "string?", "try", "err", "read", "ret">>}
  \cup {<<"self", "check", "string?">>} ++ StringList_parse ++ {<<"try", "err", "read", "ret">>}
DatasetBands_count == Getter

DatasetBands == [New |-> DatasetBands_New, get |-> DatasetBands_get,
    create |-> DatasetBands_create, count |-> DatasetBands_count]
===============================================================================
