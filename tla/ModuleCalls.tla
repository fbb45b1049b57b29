----------------------------- MODULE ModuleCalls ------------------------------
(*****************************************************************************)
(* The calls of the functions of the module itself: gdal.open and the        *)
(* settings, warping, algorithms.  A definition is named Class_method and    *)
(* is the set of paths a call of that C++ function can take, as steps of     *)
(* CallMacros; after it, one record per class gathers them under the         *)
(* method's name.                                                            *)
(*****************************************************************************)
EXTENDS CallMacros
WarpOptions_parseResamplingAlg == {<<"check">>}
WarpOptions_parse ==
  {<<"check", "element">>} ++ StringList_parse ++ {<<"key?", "element">>}
       ++ WarpOptions_parseResamplingAlg ++ {<<"key", "wrapped">>}
       ++ {<<"element">>, <<"element", "check", "wrapped">>} ++ ({<<"element">>}
       ++ IntegerList_parse ++ {<<"check">>}) ++ ({<<"element">>} ++ IntegerList_parse
       ++ {<<"check">>}) ++ {<<"key?", "key?", "key?", "key?", "key?", "key?", "element">>}

\* functions and settings of the module
gdal_open == {<<"string", "string?", "check", "ask", "err", "ret">>}
gdal_setConfigOption == {<<"string", "check", "write">>}
gdal_getConfigOption == {<<"string", "read", "ret">>}
gdal_decToDMS == {<<"double", "string", "int?", "check", "read", "ret">>}
gdal_LastErrorGetter == PlainGetter
gdal_LastErrorSetter == {<<"check", "write">>}
gdal_QuietOutput == {<<"write">>}
gdal_VerboseOutput == {<<"write">>}
gdal_StartLogging == {<<"string", "check", "write", "try", "err">>}
gdal_StopLogging == {<<"write">>}
gdal_Log == {<<"string", "write">>}
gdal_ThrowDummyCPLError == {<<"write">>}
gdal_isAlive == {<<"int", "read", "ret">>}

Gdal == [open |-> gdal_open, setConfigOption |-> gdal_setConfigOption,
    getConfigOption |-> gdal_getConfigOption, decToDMS |-> gdal_decToDMS,
    LastErrorGetter |-> gdal_LastErrorGetter, LastErrorSetter |-> gdal_LastErrorSetter,
    QuietOutput |-> gdal_QuietOutput, VerboseOutput |-> gdal_VerboseOutput,
    StartLogging |-> gdal_StartLogging, StopLogging |-> gdal_StopLogging, Log |-> gdal_Log,
    ThrowDummyCPLError |-> gdal_ThrowDummyCPLError, isAlive |-> gdal_isAlive]

\* gdal.reprojectImage, gdal.suggestedWarpOutput
GDALReprojectImageMulti ==
  {<<"fails">>} \cup {<<"read", "new", "new", "read">>} ++ Several ++ {<<"free", "free">>}
Warper_reprojectImage ==
  {<<"object">>} ++ WarpOptions_parse
       ++ {<<"check", "key", "lasting", "key", "lasting", "key?">>}
       ++ ({<<"fails", "throw">>, <<"read", "new", "fails", "free", "throw">>}
  \cup {<<"read", "new", "read", "new">>} ++ (Several
  \cup GDALReprojectImageMulti) ++ {<<"free", "free", "err">>})
Warper_suggestedWarpOutput ==
  {<<"object", "key", "wrapped", "key", "lasting", "key", "lasting", "key?">>}
       ++ {<<"fails", "throw">>, <<"read", "new", "fails", "free", "throw">>,
       <<"read", "new", "read", "new", "fails", "free", "free", "throw">>,
       <<"read", "new", "read", "new", "read", "new", "fails", "free", "free", "free",
       "throw">>, <<"read", "new", "read", "new", "read", "new", "ask", "free", "free",
       "free", "err", "ret">>,
       <<"read", "new", "read", "new", "read", "new", "read", "new", "ask", "free", "free",
       "free", "free", "err", "ret">>}

Warper == [reprojectImage |-> Warper_reprojectImage,
    suggestedWarpOutput |-> Warper_suggestedWarpOutput]

\* gdal.fillNodata and the other algorithms
Algorithms_fillNodata ==
  {<<"object", "key", "wrapped", "key?", "wrapped?", "key", "key?">>} ++ Several
       ++ {<<"err">>}
Algorithms_contourGenerate ==
  {<<"object", "key", "wrapped", "key", "wrapped", "key?", "key?", "key?", "key?",
       "element">>} ++ DoubleList_parse ++ {<<"element">>} ++ Several
       ++ {<<"err">>}
  \cup {<<"object", "key", "wrapped", "key", "wrapped", "key?", "key?", "key?", "key?",
       "element">>} ++ DoubleList_parse ++ {<<"element", "throw">>} ++ Several
       ++ {<<"err">>}
Algorithms_sieveFilter ==
  {<<"object", "key", "wrapped", "key", "wrapped", "key?", "wrapped?", "key", "key?", "check">>}
       ++ Several ++ {<<"err">>}
Algorithms_checksumImage ==
  {<<"wrapped", "read", "int?", "int?", "int?", "int?", "check", "read", "ret">>}
Algorithms_polygonize ==
  {<<"object", "key", "wrapped", "key", "wrapped", "key?", "wrapped?", "key?", "key", "check",
       "element">>} ++ Several ++ {<<"err">>}
  \cup {<<"object", "key", "wrapped", "key", "wrapped", "key?", "wrapped?", "key?", "key",
       "new", "element">>} ++ Several ++ {<<"free", "err">>}

Algorithms == [fillNodata |-> Algorithms_fillNodata,
    contourGenerate |-> Algorithms_contourGenerate, sieveFilter |-> Algorithms_sieveFilter,
    checksumImage |-> Algorithms_checksumImage, polygonize |-> Algorithms_polygonize]
===============================================================================
