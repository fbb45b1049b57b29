--------------------------------- MODULE Calls ---------------------------------
(***************************************************************************)
(* One call of a function of the binding, from its arguments to its        *)
(* answer.  The table of calls is a constant: RasterCalls, DatasetCalls    *)
(* and the others translate the handlers, and MCCalls puts them together.  *)
(*                                                                         *)
(* A call runs on the one JavaScript thread, yet it is not alone: reading  *)
(* a property of an argument, or turning an object into a string, may run  *)
(* the program's own code in the middle of the call, and that code may     *)
(* close the dataset or destroy the feature the call is about, or change   *)
(* the array whose length was taken.  Where a property does not hold of    *)
(* every handler, the handlers it does not hold of are named with it.      *)
(***************************************************************************)
EXTENDS CallMacros, FiniteSets

CONSTANTS
  Table,    \* class -> method -> the paths of its calls
  Mortal    \* classes whose native object can be freed under a living wrapper

Calls == {<<c, m>> : c \in DOMAIN Table, m \in UNION {DOMAIN Table[k] : k \in DOMAIN Table}}

ASSUME TableAssumption ==
  \A c \in DOMAIN Table : \A m \in DOMAIN Table[c] : Table[c][m] \subseteq Seq(Step)

VARIABLES
  status,     \* "idle", "running", "returned", or "aborted": the process is gone
  call,       \* which call: <<class, method>>
  path, pc,   \* its path, and the next step on it
  recv,       \* is the native object of the receiver alive?
  arg,        \* are those of the wrappers taken as arguments?
  failed,     \* a native call failed and nobody has looked yet
  threw,      \* an exception is on its way to the program
  changed,    \* native state was changed
  held,       \* memory this call must still release
  measured    \* is what was measured still so?

vars == <<status, call, path, pc, recv, arg, failed, threw, changed, held, measured>>

Life == {"alive", "dead"}
NoCall == <<"none", "none">>

-------------------------------------------------------------------------------
Fresh ==
  /\ failed' = FALSE /\ threw' = FALSE /\ changed' = FALSE
  /\ held' = 0 /\ measured' = "none" /\ arg' = "none"

Init ==
  /\ status = "idle" /\ call = NoCall /\ path = << >> /\ pc = 1
  /\ recv = "alive" /\ arg = "none" /\ failed = FALSE /\ threw = FALSE
  /\ changed = FALSE /\ held = 0 /\ measured = "none"

\* The program may call through a wrapper whose native object is gone, except
\* where the call makes the wrapper.
Begin ==
  /\ status = "idle" /\ status' = "running"
  /\ \E c \in DOMAIN Table : \E m \in DOMAIN Table[c] :
       /\ call' = <<c, m>>
       /\ path' \in Table[c][m]
       /\ recv' \in IF c \in Mortal /\ m # "New" THEN Life ELSE {"alive"}
  /\ pc' = 1 /\ Fresh

At(steps) == status = "running" /\ pc <= Len(path) /\ path[pc] \in steps
Advance == pc' = pc + 1 /\ UNCHANGED <<status, call, path>>
Throw == threw' = TRUE /\ status' = "returned" /\ UNCHANGED <<call, path, pc>>

Continue == Advance /\ UNCHANGED <<recv, arg, failed, threw, changed, held, measured>>
Refuse == Throw /\ UNCHANGED <<recv, arg, failed, changed, held, measured>>

-------------------------------------------------------------------------------
(* Arguments.                                                              *)

Convert ==
  /\ At(Conversion \cup Optional)
  /\ \E k \in Kind : IF k \in Accepts(path[pc]) THEN Continue ELSE Refuse

Check == At({"check", "field", "lasting", "lasting?"}) /\ (Continue \/ Refuse)

CheckSelf == At({"self"}) /\ IF recv = "alive" THEN Continue ELSE Refuse

\* An argument that died earlier in the call stays dead whatever comes next.
TakeWrapped ==
  /\ At(Wrapper)
  /\ \/ Refuse
     \/ path[pc] = "wrapped?" /\ Continue
     \/ /\ arg' = IF arg = "dead" THEN "dead" ELSE "alive"
        /\ Advance /\ UNCHANGED <<recv, failed, threw, changed, held, measured>>

CheckAlive == At({"alive"}) /\ IF arg = "dead" THEN Refuse ELSE Continue

\* The program's code does what it likes with objects it can reach.
RunProgram ==
  /\ At(Program)
  /\ recv' \in {recv} \cup IF call[1] \in Mortal THEN {"dead"} ELSE {}
  /\ arg' \in {arg} \cup IF arg = "alive" THEN {"dead"} ELSE {}
  /\ measured' \in {measured} \cup IF measured = "fresh" THEN {"stale"} ELSE {}
  /\ Advance /\ UNCHANGED <<failed, threw, changed, held>>

\* A property is missing, or not of the type asked for.
Unsuitable == At(Keyed) /\ Refuse

\* An accessor threw: Nan::Get(...).ToLocalChecked() ends the process.
Abort ==
  /\ At(Program \ {"text"})
  /\ status' = "aborted"
  /\ UNCHANGED <<call, path, pc, recv, arg, failed, threw, changed, held, measured>>

-------------------------------------------------------------------------------
(* Native calls and what becomes of their status.                          *)

Read == At({"read"}) /\ Continue

Write ==
  /\ At({"write"}) /\ changed' = TRUE
  /\ Advance /\ UNCHANGED <<recv, arg, failed, threw, held, measured>>

Ask ==
  /\ At({"ask", "fails"})
  /\ \/ path[pc] = "ask" /\ Continue
     \/ failed' = TRUE /\ Advance /\ UNCHANGED <<recv, arg, threw, changed, held, measured>>

Try ==
  /\ At({"try"})
  /\ \/ changed' = TRUE /\ UNCHANGED failed
     \/ failed' = TRUE /\ UNCHANGED changed
  /\ Advance /\ UNCHANGED <<recv, arg, threw, held, measured>>

Close ==
  /\ At({"close"}) /\ recv' = "dead" /\ changed' = TRUE
  /\ Advance /\ UNCHANGED <<arg, failed, threw, held, measured>>

Report == At({"err"}) /\ IF failed THEN Refuse ELSE Continue

\* Nan::ThrowError itself; what follows it on the path runs all the same.
Raise ==
  /\ At({"throw"}) /\ threw' = TRUE
  /\ Advance /\ UNCHANGED <<recv, arg, failed, changed, held, measured>>

-------------------------------------------------------------------------------
(* Memory, measurements, answers.                                          *)

Allocate ==
  /\ At({"new"}) /\ held' = held + 1
  /\ Advance /\ UNCHANGED <<recv, arg, failed, threw, changed, measured>>

Release ==
  /\ At({"free", "own"}) /\ held' = held - 1
  /\ Advance /\ UNCHANGED <<recv, arg, failed, threw, changed, measured>>

Measure ==
  /\ At({"measure"}) /\ measured' = "fresh"
  /\ Advance /\ UNCHANGED <<recv, arg, failed, threw, changed, held>>

Answer == At({"rely", "ret"}) /\ Continue

Return ==
  /\ status = "running" /\ pc > Len(path) /\ status' = "returned"
  /\ UNCHANGED <<call, path, pc, recv, arg, failed, threw, changed, held, measured>>

Finish ==
  /\ status = "returned" /\ status' = "idle"
  /\ call' = NoCall /\ path' = << >> /\ pc' = 1 /\ recv' = "alive" /\ Fresh

Stopped == status = "aborted" /\ UNCHANGED vars

Next ==
  \/ Begin \/ Convert \/ Check \/ CheckSelf \/ TakeWrapped \/ CheckAlive
  \/ RunProgram \/ Unsuitable \/ Abort
  \/ Read \/ Write \/ Ask \/ Try \/ Close \/ Report \/ Raise
  \/ Allocate \/ Release \/ Measure \/ Answer \/ Return \/ Finish \/ Stopped

Spec == Init /\ [][Next]_vars

-------------------------------------------------------------------------------
TypeOK ==
  /\ status \in {"idle", "running", "returned", "aborted"}
  /\ call \in Calls \cup {NoCall}
  /\ path \in Seq(Step) /\ pc \in 1..(Len(path) + 1)
  /\ recv \in Life /\ arg \in Life \cup {"none"}
  /\ failed \in BOOLEAN /\ threw \in BOOLEAN /\ changed \in BOOLEAN
  /\ held \in Nat
  /\ measured \in {"none", "fresh", "stale"}

\* These read elements or properties of an argument after they have checked
\* that the objects of the call are alive; Layer.toString checks nothing.
Reentrant ==
  {<<"Algorithms", m>> : m \in {"contourGenerate", "fillNodata", "polygonize", "sieveFilter"}}
  \cup {<<"Warper", "reprojectImage">>, <<"Warper", "suggestedWarpOutput">>}
  \cup {<<"Dataset", m>> : m \in {"buildOverviews", "geoTransformSetter", "setGCPs"}}
  \cup {<<"DatasetBands", "create">>, <<"DatasetLayers", "create">>, <<"DatasetLayers", "copy">>}
  \cup {<<"Driver", "createCopy">>, <<"RasterBand", "categoryNamesSetter">>}
  \cup {<<"RasterBandPixels", m>> : m \in {"read", "write", "readBlock", "writeBlock"}}
  \cup {<<"Feature", "setFrom">>, <<"FeatureFields", "set">>, <<"FeatureFields", "reset">>}
  \cup {<<"LayerFields", "add">>, <<"LayerFields", "reorder">>, <<"Layer", "toString">>}

\* When a call reaches into GDAL, the native objects of its receiver and of the
\* wrappers it was given are alive: the isAlive checks (gdal_dataset.hpp:82-84,
\* the argument macros) come before every use, whatever the program closed or
\* destroyed before the call; and except in the calls above nothing between the
\* check and the use lets the program close or destroy them.
AliveAtUse == (At(Native) /\ call \notin Reentrant) => recv = "alive" /\ arg # "dead"

\* An exception of these leaves a first part done: the handler applies its argument
\* element by element, or does one thing before it checks for the next; or GDAL goes
\* through several geometries, blocks, files or settings and fails at one of them
\* (Several); or, as executeSQL, the call throws when GDAL has done all it was asked.
Partial ==
  {<<c, "add">> : c \in {"FeatureDefnFields", "LayerFields", "GeometryCollectionChildren",
                         "PolygonRings", "LineStringPoints"}}
  \cup {<<"FeatureFields", "set">>, <<"FeatureFields", "reset">>, <<"LayerFeatures", "set">>}
  \cup {<<"RasterBand", "getStatistics">>, <<"RasterBand", "computeStatistics">>}
  \cup {<<"Gdal", "StartLogging">>, <<"Warper", "reprojectImage">>, <<"Feature", "setFrom">>}
  \cup {<<"Algorithms", m>> : m \in {"contourGenerate", "fillNodata", "polygonize", "sieveFilter"}}
  \cup {<<"Geometry", m>> : m \in {"transform", "transformTo"}}
  \cup {<<"SpatialReference", m>> : m \in {"autoIdentifyEPSG", "morphFromESRI"}}
  \cup {<<"Dataset", m>> : m \in {"buildOverviews", "executeSQL"}}
  \cup {<<"Driver", m>> : m \in {"create", "createCopy", "deleteDataset"}}
  \cup {<<"DatasetLayers", "copy">>, <<"Layer", "syncToDisk">>, <<"Layer", "setAttributeFilter">>}
  \cup {<<"RasterBand", "fill">>, <<"RasterBandPixels", "write">>}

\* Of every other call: when it throws it has changed nothing. Its arguments are all
\* looked at before GDAL changes anything, and what GDAL then refuses to do, one
\* thing only, it has not done.
CleanThrow == (status = "returned" /\ threw /\ call \notin Partial) => ~changed

\* These return without freeing what they allocated: on a throw in the middle of
\* a loop or from a macro, on an import that fails (every factory of
\* gdal.SpatialReference), or always: Geometry.exportToWKT its text, and
\* FeatureDefn.clone the clone that FeatureDefn::New copies once more
\* (gdal_feature_defn.cpp:146, 117).
Leaky ==
  {<<"SpatialReference", m>> :
     m \in {"New", "fromCRSURL", "fromEPSG", "fromEPSGA", "fromESRI", "fromMICoordSys",
            "fromProj4", "fromURL", "fromURN", "fromUserInput", "fromWKT", "fromWMSAUTO",
            "fromXML"}}
  \cup {<<"Geometry", m>> :
     m \in {"create", "createFromWkb", "createFromWkt", "exportToWKB", "exportToWKT"}}
  \cup {<<"CoordinateTransformation", "New">>, <<"Dataset", "setGCPs">>}
  \cup {<<"Dataset", "srsGetter">>, <<"Layer", "getExtent">>, <<"LineString", "value">>}
  \cup {<<"LineStringPoints", "get">>, <<"RasterBand", "categoryNamesSetter">>}
  \cup {<<"FeatureDefn", "clone">>}

\* Whichever way a call ends, it has released what it allocated or handed it to
\* a wrapper, whose destructor releases it.
NoLeak == (status = "returned" /\ call \notin Leaky) => held = 0

\* These go on after Nan::ThrowError: gdal_algorithms.cpp:119 has no return, and
\* toObject and toArray take no notice of FeatureFields::get's exception.
GoesOn ==
  {<<"Algorithms", "contourGenerate">>} \cup
  {<<"FeatureFields", "toObject">>, <<"FeatureFields", "toArray">>}

\* Once a call has raised an exception it leaves GDAL alone.
StopsAfterThrow == (At(Native) /\ call \notin GoesOn) => ~threw

\* These never look at the code or the flag GDAL answers: RasterBand.flush is written
\* by a macro for calls that have none (gdal_rasterband.cpp:184); fid =, rings.add
\* and centroid drop an OGRErr (gdal_feature.cpp:435, polygon_rings.cpp:173,
\* gdal_geometry.cpp:744); distance answers GDAL's -1; minimum, maximum, offset and
\* scale take no notice of "success" (gdal_rasterband.cpp:587-648).
Unheeded ==
  {<<"RasterBand", m>> :
     m \in {"flush", "minimumGetter", "maximumGetter", "offsetGetter", "scaleGetter"}}
  \cup {<<"Feature", "fidSetter">>, <<"PolygonRings", "add">>}
  \cup {<<"Geometry", "centroid">>, <<"Geometry", "distance">>}

\* These answer null or undefined when GDAL fails, as for what is not there: the
\* geometries of gdal_geometry.cpp:412-564, 930 and 950 and the texts of 673-727,
\* geoTransform (gdal_dataset.cpp:834), getMaskBand (gdal_rasterband.cpp:233), what a
\* collection does not find or read.
Nulling ==
  {<<"Geometry", m>> :
     m \in {"convexHull", "boundary", "intersection", "unionGeometry", "difference",
            "symDifference", "simplify", "simplifyPreserveTopology", "buffer", "create",
            "createFromGeoJson", "exportToKML", "exportToGML", "exportToJSON"}}
  \cup {<<"MultiLineString", "polygonize">>, <<"MultiPolygon", "unionCascaded">>}
  \cup {<<"RasterBand", "getMaskBand">>}
  \cup {<<"Dataset", "geoTransformGetter">>, <<"DatasetBands", "get">>, <<"DatasetLayers", "get">>}
  \cup {<<"LayerFeatures", m>> : m \in {"get", "first", "next"}}

Ignoring == Unheeded \cup Nulling

\* Of every other call: it throws whenever GDAL answers that something failed, though
\* GDAL does so by a code, a NULL or a flag, differently from function to function.
FailureReported == (status = "returned" /\ failed /\ call \notin Ignoring) => threw

\* These use a length, a count or an index check taken before an element of
\* their argument was read; StringList::parse (string_list.cpp:28-34) does, and
\* so does every call that takes creation options.
Remeasured ==
  {<<"Dataset", "setGCPs">>, <<"Feature", "setFrom">>, <<"LineStringPoints", "set">>}
  \cup {<<"LayerFields", "reorder">>, <<"FeatureDefnFields", "reorder">>}
  \cup {<<"RasterBand", "categoryNamesSetter">>, <<"SpatialReference", "fromESRI">>}
  \cup {<<"DatasetBands", "create">>, <<"DatasetLayers", "create">>, <<"DatasetLayers", "copy">>}
  \cup {<<"Driver", "create">>, <<"Driver", "createCopy">>, <<"Warper", "reprojectImage">>}

\* Memory sized by a length, and an index checked against a count, are used only
\* while the program has had no chance to change that length or count.
MeasuresFresh == (At({"rely"}) /\ call \notin Remeasured) => measured = "fresh"

-------------------------------------------------------------------------------
(* The order of a handler's steps, which the promises above come from.     *)

\* Every use of a native object comes after the check that it is alive, and the
\* program does not run between the two.
Guarded(c, m, p) ==
  \A j \in DOMAIN p : p[j] \in Native =>
    /\ \/ c \notin Mortal /\ \A k \in 1..(j-1) : p[k] # "close"
       \/ m = "New" /\ \A k \in 1..(j-1) : p[k] \notin Program \cup {"close"}
       \/ \E i \in 1..(j-1) : p[i] = "self" /\
            \A k \in (i+1)..(j-1) : p[k] \notin Program \cup {"close"}
    /\ \A i, k \in 1..(j-1) : p[i] \in Wrapper /\ i < k => p[k] \notin Program

\* Nothing native follows a Nan::ThrowError.
Quiet(p) == \A i, j \in DOMAIN p : p[i] = "throw" /\ i < j => p[j] \notin Native

\* The status of every native call that has one is looked at, or the call throws.
Looked(p) ==
  \A i \in DOMAIN p : p[i] \in {"ask", "fails", "try"} =>
    \E j \in DOMAIN p : i < j /\ p[j] \in {"err", "throw"}

\* What is relied on was measured, and the program has not run since.
Prompt(p) ==
  \A j \in DOMAIN p : p[j] = "rely" =>
    \E i \in 1..(j-1) : p[i] = "measure" /\ \A k \in (i+1)..(j-1) : p[k] \notin Program

\* Steps at which a call may throw and return.
Throwing == Guard \cup Wrapper \cup Keyed \cup {"field", "self", "alive", "err"}

\* What throws comes before what changes, but for the look at the status of a
\* change that was then not made; every status before it has been looked at.
Clean(p) ==
  \A i, j \in DOMAIN p : p[i] \in Writing =>
    /\ p[j] # "throw"
    /\ i < j /\ p[j] \in Throwing =>
         /\ p[j] = "err"
         /\ \A k \in 1..(j-1) : k # i /\ p[k] \in {"ask", "fails", "try"} =>
              \E l \in (k+1)..(j-1) : p[l] = "err"

\* What the first n steps of a path allocate, and release.
Allocated(p, n) == Cardinality({i \in 1..n : p[i] = "new"})
Released(p, n) == Cardinality({i \in 1..n : p[i] \in {"free", "own"}})

\* Nothing is released before it is allocated.
Paired(p) == \A j \in DOMAIN p : Released(p, j) <= Allocated(p, j)

\* Where a call may end it has nothing left to release.
Tidy(p) ==
  /\ Released(p, Len(p)) = Allocated(p, Len(p))
  /\ \A j \in DOMAIN p : p[j] \in Throwing => Released(p, j) = Allocated(p, j)

AllGuarded ==
  \A c \in DOMAIN Table : \A m \in DOMAIN Table[c] : <<c, m>> \notin Reentrant =>
    \A p \in Table[c][m] : Guarded(c, m, p)
AllQuiet ==
  \A c \in DOMAIN Table : \A m \in DOMAIN Table[c] : <<c, m>> \notin GoesOn =>
    \A p \in Table[c][m] : Quiet(p)
AllLooked ==
  \A c \in DOMAIN Table : \A m \in DOMAIN Table[c] : <<c, m>> \notin Ignoring =>
    \A p \in Table[c][m] : Looked(p)
AllPrompt ==
  \A c \in DOMAIN Table : \A m \in DOMAIN Table[c] : <<c, m>> \notin Remeasured =>
    \A p \in Table[c][m] : Prompt(p)
AllClean ==
  \A c \in DOMAIN Table : \A m \in DOMAIN Table[c] : <<c, m>> \notin Partial =>
    \A p \in Table[c][m] : Clean(p)
AllPaired ==
  \A c \in DOMAIN Table : \A m \in DOMAIN Table[c] : \A p \in Table[c][m] : Paired(p)
AllTidy ==
  \A c \in DOMAIN Table : \A m \in DOMAIN Table[c] : <<c, m>> \notin Leaky =>
    \A p \in Table[c][m] : Tidy(p)
================================================================================
