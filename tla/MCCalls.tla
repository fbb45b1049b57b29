-------------------------------- MODULE MCCalls --------------------------------
(***************************************************************************)
(* Every call of the binding, for TLC.                                     *)
(***************************************************************************)
EXTENDS Calls, RasterCalls, DatasetCalls, LayerCalls, FeatureCalls, GeometryCalls,
        SrsCalls, ModuleCalls

\* The wrappers PtrManager and Feature.destroy can leave without a native
\* object, and the collections that reach one through their parent.
Perishable ==
  {"Dataset", "DatasetBands", "DatasetLayers", "Layer", "LayerFeatures", "LayerFields",
   "RasterBand", "RasterBandOverviews", "RasterBandPixels", "Feature", "FeatureFields"}

AllCalls ==
  [RasterBand |-> RasterBand, RasterBandOverviews |-> RasterBandOverviews,
   RasterBandPixels |-> RasterBandPixels, DatasetBands |-> DatasetBands,
   Dataset |-> Dataset, DatasetLayers |-> DatasetLayers, Driver |-> Driver,
   GDALDrivers |-> GDALDrivers, Layer |-> Layer, LayerFeatures |-> LayerFeatures,
   LayerFields |-> LayerFields, Feature |-> Feature, FeatureFields |-> FeatureFields,
   FeatureDefn |-> FeatureDefn, FeatureDefnFields |-> FeatureDefnFields,
   FieldDefn |-> FieldDefn, Geometry |-> Geometry, Point |-> Point,
   LineString |-> LineString, LinearRing |-> LinearRing, Polygon |-> Polygon,
   GeometryCollection |-> GeometryCollection, MultiLineString |-> MultiLineString,
   MultiPoint |-> MultiPoint, MultiPolygon |-> MultiPolygon,
   GeometryCollectionChildren |-> GeometryCollectionChildren,
   PolygonRings |-> PolygonRings, LineStringPoints |-> LineStringPoints,
   SpatialReference |-> SpatialReference,
   CoordinateTransformation |-> CoordinateTransformation,
   Gdal |-> Gdal, Warper |-> Warper, Algorithms |-> Algorithms]
===============================================================================
