------------------------------- MODULE SrsCalls -------------------------------
(*****************************************************************************)
(* The calls of spatial references and transformations.  A definition is     *)
(* named Class_method and is the set of paths a call of that C++ function    *)
(* can take, as steps of CallMacros; after it, one record per class gathers  *)
(* them under the method's name.                                             *)
(*****************************************************************************)
EXTENDS CallMacros

\* gdal.SpatialReference
SpatialReference_New ==
  {<<"check", "ret">>, <<"check", "string?", "new", "own", "ret">>,
       <<"check", "string?", "new", "ask", "err", "own", "ret">>}
SpatialReference_setWellKnownGeogCS == WithOgrErrResult1String
SpatialReference_morphToESRI == WithOgrErrResult(Once)
SpatialReference_morphFromESRI == WithOgrErrResult(Several)
SpatialReference_EPSGTreatsAsLatLong == WithResult
SpatialReference_EPSGTreatsAsNorthingEasting == WithResult
SpatialReference_isGeocentric == WithResult
SpatialReference_isGeographic == WithResult
SpatialReference_isProjected == WithResult
SpatialReference_isLocal == WithResult
SpatialReference_isVertical == WithResult
SpatialReference_isCompound == WithResult
SpatialReference_isSameGeogCS == WithResult1Wrapped("lasting")
SpatialReference_isSameVertCS == WithResult1Wrapped("lasting")
SpatialReference_isSame == WithResult1Wrapped("lasting")
SpatialReference_autoIdentifyEPSG == WithOgrErrResult(Several)
SpatialReference_clone == Cloned
SpatialReference_cloneGeogCS == ClonedOrNull
SpatialReference_getAuthorityName == {<<"string?", "read", "ret">>}
SpatialReference_getAuthorityCode == {<<"string?", "read", "ret">>}
SpatialReference_exportToWKT == {<<"ask", "err", "new", "free", "ret">>}
SpatialReference_exportToPrettyWKT == {<<"bool?", "ask", "err", "new", "free", "ret">>}
SpatialReference_exportToProj4 == {<<"ask", "err", "new", "free", "ret">>}
SpatialReference_exportToXML == {<<"ask", "err", "new", "free", "ret">>}
SpatialReference_getAttrValue == {<<"string", "int?", "read", "ret">>}
SpatialReference_fromWKT == Factory({<<"string">>})
SpatialReference_fromProj4 == Factory({<<"string">>})
SpatialReference_fromWMSAUTO == Factory({<<"string">>})
SpatialReference_fromXML == Factory({<<"string">>})
SpatialReference_fromURN == Factory({<<"string">>})
SpatialReference_fromCRSURL == Factory({<<"string">>})
SpatialReference_fromURL == Factory({<<"string">>})
SpatialReference_fromMICoordSys == Factory({<<"string">>})
SpatialReference_fromUserInput == Factory({<<"string">>})
SpatialReference_fromEPSG == Factory({<<"int">>})
SpatialReference_fromEPSGA == Factory({<<"int">>})
SpatialReference_fromESRI ==
  {<<"check">>} ++ StringList_parse ++ {<<"new", "ask", "err", "own", "ret">>}
SpatialReference_getLinearUnits == PlainGetter
SpatialReference_getAngularUnits == PlainGetter
SpatialReference_validate == {<<"read", "ret">>, <<"fails", "throw">>}

SpatialReference == [New |-> SpatialReference_New,
    setWellKnownGeogCS |-> SpatialReference_setWellKnownGeogCS,
    morphToESRI |-> SpatialReference_morphToESRI,
    morphFromESRI |-> SpatialReference_morphFromESRI,
    EPSGTreatsAsLatLong |-> SpatialReference_EPSGTreatsAsLatLong,
    EPSGTreatsAsNorthingEasting |-> SpatialReference_EPSGTreatsAsNorthingEasting,
    isGeocentric |-> SpatialReference_isGeocentric,
    isGeographic |-> SpatialReference_isGeographic,
    isProjected |-> SpatialReference_isProjected, isLocal |-> SpatialReference_isLocal,
    isVertical |-> SpatialReference_isVertical, isCompound |-> SpatialReference_isCompound,
    isSameGeogCS |-> SpatialReference_isSameGeogCS,
    isSameVertCS |-> SpatialReference_isSameVertCS, isSame |-> SpatialReference_isSame,
    autoIdentifyEPSG |-> SpatialReference_autoIdentifyEPSG, clone |-> SpatialReference_clone,
    cloneGeogCS |-> SpatialReference_cloneGeogCS,
    getAuthorityName |-> SpatialReference_getAuthorityName,
    getAuthorityCode |-> SpatialReference_getAuthorityCode,
    exportToWKT |-> SpatialReference_exportToWKT,
    exportToPrettyWKT |-> SpatialReference_exportToPrettyWKT,
    exportToProj4 |-> SpatialReference_exportToProj4,
    exportToXML |-> SpatialReference_exportToXML,
    getAttrValue |-> SpatialReference_getAttrValue, fromWKT |-> SpatialReference_fromWKT,
    fromProj4 |-> SpatialReference_fromProj4, fromWMSAUTO |-> SpatialReference_fromWMSAUTO,
    fromXML |-> SpatialReference_fromXML, fromURN |-> SpatialReference_fromURN,
    fromCRSURL |-> SpatialReference_fromCRSURL, fromURL |-> SpatialReference_fromURL,
    fromMICoordSys |-> SpatialReference_fromMICoordSys,
    fromUserInput |-> SpatialReference_fromUserInput, fromEPSG |-> SpatialReference_fromEPSG,
    fromEPSGA |-> SpatialReference_fromEPSGA, fromESRI |-> SpatialReference_fromESRI,
    getLinearUnits |-> SpatialReference_getLinearUnits,
    getAngularUnits |-> SpatialReference_getAngularUnits,
    validate |-> SpatialReference_validate]

\* gdal.CoordinateTransformation
CoordinateTransformation_New ==
  {<<"check", "ret">>,
       <<"check", "check", "lasting", "check", "lasting", "ask", "err", "new", "own",
       "ret">>, <<"check", "check", "lasting", "check", "wrapped", "ask", "err", "new", "new",
       "new", "ask", "err", "own", "free", "free", "ret">>,
       <<"check", "check", "lasting", "check", "throw">>}
CoordinateTransformation_transformPoint ==
  {<<"check", "element", "element", "element", "check", "ask", "err", "ret">>,
       <<"double", "double", "double?", "ask", "err", "ret">>}

CoordinateTransformation == [New |-> CoordinateTransformation_New,
    transformPoint |-> CoordinateTransformation_transformPoint]
===============================================================================
