# node-gdal in TLA+

A model of the parts of [node-gdal](../src) where a mistake is hard to test: who
keeps which JavaScript object, C++ wrapper and GDAL object alive, in which order
V8's collector destroys them, and what the binding's caches answer meanwhile;
what each call does between its arguments and its answer, also when the
program's own code runs in the middle of it; the arithmetic of pixel buffers;
loops whose callbacks change what they loop over; and the global state of errors.
Every definition is translated from the source of the binding (`src/src`,
`src/lib`); GDAL, V8 and nan are modelled by their effect on what the binding
keeps, and their definitions are marked external in `PROJECT.json`.

## Inventory

Paths are under `src/src` unless they start with `lib`.

| component | state | operations | properties that make it correct |
|---|---|---|---|
| `PtrManager` (`utils/ptr_manager`) | `uid`, `layers`, `bands`, `datasets`, each dataset's lists of children | `add`, `dispose`, `isAlive` | a dataset is disposed with its children, a child once, result sets before the dataset |
| `ObjectCache` (`utils/obj_cache.hpp`) | `cache`, `aliases`, the items' `status` | `add`, `get`, `has`, `erase`, weak callback | one wrapper per native object; an item is freed once, after both its users |
| `Dataset`, `Layer`, `RasterBand` | `this_`, `uid`, `parent_ds`, private `ds_` | constructors, destructors, `close`, `executeSQL`, `ds`, `srs`, `getMaskBand`, `buildOverviews` | no wrapper alive without its dataset; `close` kills the whole tree; nothing else kills what the program can reach |
| dataset collections (`collections/dataset_layers`, `dataset_bands`, `rasterband_overviews`) | private `parent_` | `get`, `create`, `copy`, `remove`, `getBySampleCount` | they answer wrappers of their own dataset |
| `SpatialReference` | `this_`, `owned_`, the cache with aliases | constructor, `New(raw, owned)`, factories, `clone`, destructor, `setWellKnownGeogCS` and the others that change it in place; `srs` getters and setters of others | a wrapper's SRS outlives where it came from; asking twice answers one object, which says the same until it is told otherwise |
| drivers, `gdal.open` (`gdal_driver`, `gdal_drivers`, `node_gdal`, `lib/gdal.js`) | driver cache | `open`, `create`, `createCopy`, driver list | the driver list opens one dataset |
| raster pixels, typed arrays (`rasterband_pixels`, `typed_array`) | none | `read`, `write`, `readBlock`, `writeBlock` | the array is long enough for what RasterIO touches |
| statistics and error handlers (`gdal_rasterband` 272-386, `node_gdal` 80-133) | `stats_file_err`, `last_err_handler`, GDAL's handler and last error | `getStatistics`, `computeStatistics`, `quiet`, `verbose`, `lastError` | one call's error does not reach another; errors are printed as the program chose |
| layer features (`layer_features`, `lib/gdal.js` forEach) | GDAL's cursor of the layer | `get`, `first`, `next`, `add`, `count`, `set`, `remove` | an iteration sees every feature once |
| features, definitions, geometries | `this_`, `owned_` | constructors, `clone`, `setFrom`, `setGeometry`, `destroy`, `fields` | every native object is freed once, by its owner |
| geometry classes and children | private `parent_` | `get`, `add`, `remove`, points | indexes are checked; what is added is cloned or owned |
| envelopes (`lib/envelope.js`, `envelope_3d.js`) | the bounds | `merge`, `intersects`, `contains`, ... | merge is the least upper bound of contains |
| warper, algorithms, transformations | options | `reprojectImage`, `contourGenerate`, ... | options are released on every path |
| string and number lists, argument macros (`utils/*_list`, `gdal_common.hpp`) | the parsed list | `parse`, `NODE_ARG_*` | a length is not stale when it is used; nothing changes before the last argument is looked at |

How they interact.  The binding runs on one thread and has no asynchronous
operation.  A call is nevertheless not alone: an accessor or a `toString` of an
argument, and every callback, runs the program's code in the middle of it.  What runs concurrently with a program is V8's collector: between
any two JavaScript steps it may find wrappers out of reach; it then runs, in an
order of its own, the weak callbacks of `Nan::ObjectWrap`, which delete the C++
wrappers (the first pass, with JavaScript stopped), and later, between
JavaScript steps, the weak callbacks of `ObjectCache` (the second pass).  A
destructor calls `PtrManager::dispose`, which erases the wrapper and its
children from the caches and closes the GDAL dataset.  The caches are keyed by
address, and GDAL may free an object and use its address again.

The hard behaviours are therefore: destructors in any order; a cache item with
two owners; wrappers that stay when their native object goes (`close`,
`layers.remove`, `buildOverviews`); addresses that come back; objects changed in
place that a cache answers for others; reference counts shared with GDAL; the
program's code in the middle of a call; errors on one of several steps; global state
kept between calls; and 32-bit sizes.
`PROJECT.json` lists each at its line under `hazards`.

## Modules

| module | role |
|---|---|
| `HandleLifetime` | abstract specification: handles are born alive, a dataset's tree dies as a whole, only `close` and the collector kill, and the collector only what is out of reach |
| `Lifetime` | `PtrManager`, the three caches without aliases, wrappers, collector and what GDAL allocates; implements `HandleLifetime` |
| `MCLifetime` | instances of `Lifetime` for TLC |
| `LifetimeProofs` | the inductive invariant of `Lifetime`, the theorems and the refinement of `HandleLifetime` |
| `SrsCache` | `SpatialReference`, the cache with aliases, and the reference counts |
| `MCSrsCache` | instances of `SrsCache` for TLC |
| `SrsCacheProofs` | the inductive invariant of `SrsCache` and the theorems |
| `Features` | feature definitions, their reference counts, and the features laid out by them |
| `MCFeatures` | instances of `Features` for TLC |
| `FeaturesProofs` | the inductive invariant of `Features` and the theorems |
| `CallMacros` | the steps in which calls are written; the macros of `gdal_common.hpp`, the lists and typed arrays |
| `RasterCalls`, `DatasetCalls`, `LayerCalls`, `FeatureCalls`, `GeometryCalls`, `SrsCalls`, `ModuleCalls` | every function the binding exports, class by class, as the set of paths a call can take |
| `Calls` | the state machine that takes a path step by step, for any table of handlers |
| `MCCalls` | the table of all of them, for TLC; composes the seven class modules with `Calls` |
| `CallsProofs` | theorems for every table of handlers whose steps are in the right order |
| `Pixels`, `MCPixels`, `PixelsProofs` | the arithmetic of pixel buffers, an instance with short ints, and the theorems |
| `Iteration`, `MCIteration`, `IterationProofs` | the loops of `lib/gdal.js` and `gdal.open`, an instance, and the theorems |
| `ErrorState`, `MCErrorState`, `ErrorStateProofs` | error handlers and messages, an instance, and the theorems |
| `Envelope` | the bounding boxes of `lib/envelope*.js`, with their theorems |

### Lifetime

| variable | in the code |
|---|---|
| `uid` | `PtrManager::uid` |
| `datasets`, `items` | `PtrManager::datasets`; `layers` and `bands` together; the children of a dataset are the items whose `parent` it is |
| `dsCache`, `cache` | `Dataset::dataset_cache`; `Layer::cache` and `RasterBand::cache` together (their keys are disjoint) |
| `released` | `ObjectCacheItem::status`, as the set of the parties that let the item go; an item is in the domain until it is deleted |
| `wrapped` | the C++ objects: `this_` (whether it is set), `ptr` (what it was), private `ds_`, `parent_ds` |
| `held` | the wrappers the program refers to. Holding `ds.layers` or `band.pixels`, which have a private `parent_`, counts as holding the parent |
| `pending` | wrappers of the collection under way whose destructor has not run |
| `nativeDs`, `native` | what GDAL has allocated, with its owner |
| `detached` | history: addresses GDAL freed without the binding's knowledge while a wrapper stood for them |

Each action is one call from JavaScript, one destructor or one weak callback.
`Dispose` is all of `PtrManager::dispose`, with the loop over the children:
no JavaScript and no collection can run inside it.  Arguments that make a call
throw before it changes anything (a dead wrapper, a wrong type, an error from
GDAL) are steps that change nothing and are the stuttering steps of `Spec`.
`JavaScript runs between collections`: every call has `pending = {}`.
Two things stand for GDAL: `HandOut` (a getter may answer an object the dataset
has already or a new one, so that addresses are used again) and `Free`
(`DeleteLayer`, overviews and mask bands rebuilt).

`KeepsPromise` is the refinement: `born` is `1..uid-1`, `live` the registered
uids, `root` each existing wrapper's `ds_`, `held` itself.

### SrsCache

`heap` holds the reference-counted `OGRSpatialReference`s, `holder` the SRS of
each layer or geometry, `items` the cache items with `key`, `alias` and
`status`, `wrapped` the C++ wrappers with what they were made from or last told
to say (`def`, a history) and whether they were cached.  `getItem` uses an alias before a key;
where `cache[key]` is then `NULL`, its callers dereference it: such a step does
not exist in the model (`Missing`).  `Modify` stands for `setWellKnownGeogCS`,
`morphToESRI`, `morphFromESRI` and `autoIdentifyEPSG`: the wrapper's SRS may say
anything afterwards.  Nobody is told: a layer it was cloned from does not change with
it, nor does a wrapper that was cloned from it.

Two variables are histories.  `muddled`: the cache cannot tell apart two lives of
one address, so three properties are claimed until an address is "reused", or the
SRS of an uncached wrapper is "shared"; what happens after that is what the two
violations show.  `modified`: the addresses whose SRS was changed in place.
After `s = layer.srs; s.morphToESRI()` the cache still answers `s` for `layer.srs`,
and `s` no longer says what the layer's SRS says; `AnswersAgree` is claimed where
neither the one asked about nor the one answered was changed.  `SameObject`
and everything about lifetimes hold regardless.

### Features

`defns` holds the `OGRFeatureDefn`s with their fields and count, `layers` the
definition of each open layer, `wrappers` what each `FeatureDefn` wraps,
`features` what each feature was made from and its `layout`, the fields it has a
value for.  `abandoned` is a history: `FeatureDefn::clone` copies a definition,
and `FeatureDefn::New` copies the copy, so the first one has a count of zero and
no user for ever.  A wrapper is collected, and a feature destroyed, at any time:
either is out of its map afterwards.  `fields.add` of an array adds one element
at a time and keeps what it added when it then throws; `DefnFieldsAdd` and
`LayerFieldsAdd` therefore add any sequence.  Field values, `setFrom` and the
rows of a layer are not in the model; a feature whose layout is old is followed
no further than its count.

### Calls

A handler is the set of its paths, a path the sequence of its steps in the order
of the C++ (`CallMacros` lists the words).  A path fixes what arguments and data
decide (which branch, how often a loop runs); what can go wrong at a step is
decided by `Calls`, one action for each kind of step.

| variable | in the code |
|---|---|
| `path`, `pc` | the handler's control |
| `recv`, `arg` | whether the native objects of the receiver and of the wrappers among the arguments are alive |
| `failed` | a status of GDAL that nobody has looked at |
| `threw` | an exception that was thrown and is not yet with the program |
| `changed` | whether GDAL was told to change anything |
| `held` | what `new`, `CPLMalloc` and GDAL allocated for this call and the call must release |
| `measured` | whether what was last measured (`Length()`, `getNumPoints`) still holds |

`RunProgram` is the heart: at a step that reads an element or a property, or
calls `toString`, the program may close the dataset or destroy the feature, and
change the array.  `Abort` is the `ToLocalChecked()` of an accessor that threw,
which ends the process.  A dead wrapper at the start (`Begin`) is one whose
dataset was closed or whose feature was destroyed: `Mortal` names the classes.

Where a property does not hold of every handler, the handlers it does not hold
of are listed above it by name (`Reentrant`, `Partial`, `Leaky`, `GoesOn`,
`Ignoring`, `Remeasured`) with the reason.  The lists are the result: each entry is a call
on which TLC finds the property fail when it is taken off the list, and nobody joins
the list unnoticed.

What GDAL does inside one call matters to `CleanThrow`.  A `try` (`Once`) changes the
object or fails; that is so of what GDAL does to one thing, and is assumed of what a
format driver does.  Where GDAL's own code goes through several things it is `Several`,
which may also change some and then fail: the members of a collection that is transformed,
the bands, blocks and rows of a raster, the files of a dataset, the layer
`CopyLayer` makes before it fills it, the filter that goes before the next one
compiles, the parts of an SRS.  `Driver.rename` and `copyFiles` undo what
they did when a later file fails, and are `Once`.  `executeSQL` has a path of its own: GDAL
answers NULL for a statement that has no result set, and the call throws after it was
carried out.

A failure is a code, a flag, or a NULL that GDAL answers for it, whether or not the
call looks: `Made` is the NULL that a geometry operation or a cursor answers, and that
`New` turns into null; `Unlooked` a flag or a NULL that goes straight to the answer.
A NULL that only means there is none (no SRS, no geometry, no category names) is an answer,
as is a value computed in spite of an error that GDAL does not return
(`GDALChecksumImage`).  `Ignoring` has two parts: `Unheeded` drop the status, and
`Nulling` answer null or undefined as they do for what is not there.

Memory that a getter copies and wraps at once is `new`, `own` (`Cloned`).  What
`SpatialReference::New` does with one it is handed is in `SrsCache`.  Methods that answer a constant (`toString` of most classes) and
getters of child collections, which create a wrapper and touch nothing native,
are left out of the table.

### Pixels

`op`, `stage` and `outcome` follow one call of `pixels.read`, `write`,
`readBlock` or `writeBlock`; the others are the handler's locals under their own
names.  Ints have `2 * Half` values and wrap (`Wrap`; `Unsigned` for the byte
count of `TypedArray::New`); `wrapped` is a history of whether one did.
`LastByte` is the end of what GDAL reads or writes.  Signed overflow is undefined
in C++; wrapping is what the compilers the project is built with do here, and
the properties that matter are claimed of calls in which no int wrapped, except
for the block calls, where they hold of all.

### Iteration

`stack` holds the loops that run, each with the number of callbacks made, the
count taken at its start, and histories of what its callback saw.  Between two
actions that continue a loop any of the program's actions may happen: moving the
cursor, adding, removing and reordering, and starting a loop.  `features_get` may
leave the cursor or reset it: OGR's default `GetFeature` and `GetFeatureCount`
rewind, drivers that do better do not.  A loop that a callback disturbed is
`moved`, and no more is claimed of it.

### ErrorState

`handler` is GDAL's global error handler.  In a call GDAL raises any sequence of
errors and then returns any code: the code need not tell what was raised, which
is why the binding has a handler of its own.  A message is told by whether it
comes from this call or an earlier one.

### Envelope

An envelope is a pair of functions on the axes, so that one module is both
classes.  The methods are operators; what is claimed is theorems, for all
integers, and there is no run.

## Runs

| run | instance | shows |
|---|---|---|
| `lifetime` | 2 datasets, 1 layer and 2 band addresses, 4 wrappers | all safety and action properties and the refinement |
| `lifetime_live` | 1 dataset, 1 layer, 1 band address, 4 wrappers | every cache item is freed |
| `lifetime_stale` | 2 datasets, 1 layer address | a violation, below |
| `srs_cache` | 3 addresses, a layer and a geometry, 2 definitions, 3 wrappers | wrappers keep their SRS; counts; the cache's answers |
| `srs_asking_again`, `srs_has_handle` | the same | two violations, below |
| `features` | 3 addresses, a layer, 2 wrappers, 2 features, up to 2 of 2 fields | counts, freeing after the last user, no sharing between wrappers, no leak but `clone`'s |
| `features_layout` | the same | a violation, below |
| `calls` | the table of all functions | liveness of natives at use, clean exceptions, memory, reported failures, stale measurements |
| `pixels` | ints of 10 bits, 5 data types | GDAL stays inside the array; the array made is long enough; none is refused without need; the one division by zero |
| `iteration` | 3 features or elements, loops 2 deep, lists of up to 3 drivers | what `forEach` shows, that it ends, what `gdal.open` answers |
| `error_state` | unbounded, finite | errors are printed as chosen; statistics are refused where a file did not open, and for a file only where one ever did not |

Bounds.  `MaxUid` and `MaxWrapper` bound how many wrappers a behaviour makes.
Four are a dataset with two children and a wrapper made after one of them is
gone, or two datasets with a child each; every hazard listed needs at most a
dataset, two children of which one is a result set, and one address used
again.  In `features`, three definitions are a layer's, a wrapper's and what
`clone` abandons; two features of one definition are enough for a count above
one, and two fields for an order.  In `srs_cache`, three addresses are the layer's own SRS, its clone and one that comes
back.  Addresses are interchangeable, so the safety runs use symmetry; the
liveness run does not.  Deadlock is not checked in these: at the bound, with everything
collected, nothing is left to do, and a program may end.  It is checked in the
others.

In `calls`, the body of a loop is taken at most three times (`SomeTimes`, `AnyTimes`), each
time along any of its paths.  That no more are needed is proved (`RoundsKeepOrder`,
`RoundsHoldNothing`, below); no loop of the table allocates or releases in its body.
A call is independent of the one before it but for the life of its natives,
which `Begin` chooses freely.  In `pixels`, ints of 10 bits make 20 lines of 20
pixels wrap and leave 3 lines of 3 well inside; the spaces are negative, shorter
than a pixel, padded, and beyond an int; the proof is for every width.  In
`iteration`, three elements are one to be shown, one to be added and one to be
removed, and two loops are one inside another's callback; `seen` is cut when it
is longer than the features there are, which shows a repetition.
`error_state` has no bound: `lastError` and the message are told by their age.

Fairness.  `FairSpec` asks that a collection that has begun finishes (V8 runs all
first-pass callbacks before it returns to JavaScript) and that each second-pass
callback runs in the end (V8 queues them).  Both are weak fairness.  It does
not ask for a collection: V8 owes nobody one.

`FairSpec` of `Iteration` asks that a callback comes to its end: of each depth of
nesting, that a loop whose callback runs goes on if it could again and again
(strong fairness, since a callback may start a loop inside, during which the outer
one cannot go on).  It does not bound what callbacks do meanwhile.  A callback
that never returns is the program's, not the loop's, affair.

### Disagreements found

- `lifetime_stale` / `CacheWrapsNative`: `layers.remove(i)` deletes the native
  layer and leaves its wrapper alive in `Layer::cache`.  If GDAL makes a layer of
  another dataset at that address, that dataset's `layers.get` answers the
  wrapper of the first.  `StaleOnlyDetached` proves that the comment is true of every
  address that GDAL has not freed under a living wrapper.
- `srs_asking_again` / `AskingAgain`: a `SpatialReference` made by `fromEPSG` or
  `clone` is not in the cache, but its destructor erases its address.  When
  `geometry.srs` was set to it, the address is the alias of the wrapper that
  `geometry.srs` answers, and that wrapper's item goes.
- `srs_has_handle` / `HasMeansHandle`: the alias of a freed SRS stays.  When a
  clone is allocated at its address, erasing by address hits the wrong item, and
  `has` stays true for an item whose wrapper is gone.  `AskingAgainUnshared` and
  `HandleUntilReused` prove that both comments are true until an address has come to
  mean two things.
- `features_layout` / `LayoutCurrent`: GDAL's documentation asks that the fields of
  a definition change only while no feature is based on it
  (`ogrfeaturedefn.cpp:423`, `ogrsf_frmts.dox:2073`).  `defn.fields.add` after
  `new gdal.Feature(defn)`, or `layer.fields.add` after `layer.features.first()`,
  changes them; the feature has values for the old fields only.  `RuleSuffices` proves
  that breaking this rule is the only way: while it is observed, `LayoutCurrent` holds.

Others have no statement of the repository that a run could refute, or are not
worth one:

- `options.data_type` of `pixels.read` (documented at `rasterband_pixels.cpp:175`) is
  read as `options.type` (`lib/gdal.js:672`).
- a file that once failed to open in a statistics call fails all later ones.
- a list of drivers is tried to its end after one has opened the file.
- `count()` and `get()` inside `features.forEach` may restart it.
- an array without bytes may be answered with nothing and no exception
  (`TypedArray::Validate`).
- an SRS changed in place stays what the cache answers for the layer it was cloned for.
- `executeSQL` throws "Error executing SQL" after a `CREATE INDEX` or `DELETE` that GDAL
  carried out.
- the calls in `Leaky` lose memory, those in `Reentrant` and `Remeasured` trust what
  an accessor may have changed, those in `GoesOn` do not return after a throw, and those
  in `Ignoring` lose a failure: a `RasterBand.flush` that fails is silent, and a
  `union` that GEOS gives up on is null.

## Proofs

Each safety property that a passing run checks is also a theorem, for every value of the constants that the module's assumptions allow; the invariants
that the proofs rest on were checked by TLC on the runs' instances first.

### Lifetime

`LifetimeProofs` proves, for every set of addresses (`DsPtr`, `LayerPtr` and
`BandPtr` disjoint) and every `MaxUid`, that `IInv` is an invariant of `Spec`.
From it follow `TypeOK`, `OneWrapper`, `ParentCached`, `NativeBacked`,
`ResultSetsReleased` and `ItemsOutliveUsers`.

None of these is inductive alone.  `OneWrapper` needs the caches to be the exact
inverses of the registries (`CacheOK`), or an erase by address could hit another
entry.  `ParentCached` needs a registered child to have a registered parent that
agrees with what the child remembers (`RegistryOK`).  `ResultSetsReleased` needs
every result set to be registered as one (`NativeOK`).  `ItemsOutliveUsers` needs
to know which parties have an item still (`StatusOK`).  `PendingOK` says that
what the collector leaves does not refer to what it takes, so that the operation
after it finds every `ds_`.  `DisposeFacts` is the heart: what `Dispose` erases by
address is the registry entries of the wrapper and of its children, and no other.

The refinement (`KeepsPromiseHolds`) is proved step by step.  Under the mapping a
handle is live if it is registered, so `Wrap` is a birth, `close` the death of a
dataset's tree (`DisposeKills`: exactly the handles whose root it is), a destructor the
same for a handle out of reach, and dropping or taking a reference is itself.  Asking
again for what is cached, weak callbacks and what GDAL does by itself change nothing
the abstract specification sees (`UnseenKept`).  That the collector takes only what the
program cannot reach, which `HandleLifetime` demands, is `PendingOK`; that a
dataset's death takes no handle of another is `RegistryOK`.  `OnlyCloseKillsHolds`
is the action property from the same facts: what a destructor takes along is
out of the program's reach too.

`ItemsNeedOnlyTheirCallback` is the safety half of `ItemsFreed`.  `Awaiting` says of
each cache item that its weak callback has not run and that its cache has let it go,
unless its wrapper is registered still; it is kept because `Dispose` releases exactly
the items of what it unregisters (`DisposeReleases`).  So the item of a wrapper that is
gone has been released by its cache alone; its weak callback frees it, and no other step
does.  Between the destructors of a collection nothing else runs, so that each step of
it leaves one less.  What is left to fairness is that V8 takes these steps.

### SrsCache

`SrsCacheProofs` has an invariant in two halves, for any addresses, layers, geometries
and definitions.  `HeapInv` is about reference counts and knows nothing of the cache:
a count covers its users, an address nobody uses is not counted on, and each wrapper
has an SRS of its own.  It holds unconditionally; the lemmas about `Ref`, `Unref` and
`Alloc` say what each does to the number of users.  `CacheInv` says that the two owners of an item are known
whatever addresses mean, which makes `ItemsOutliveUsers` unconditional; that keys,
aliases, items and wrappers agree until an address is used again (`Clean`); and that
no alias is a wrapper's own address until one is shared (`Unshared`).  `AnswersAgree` is
inductive because what leaves `modified` is freed or has just been cloned (`TrackFacts`,
`Dated`), and a step that gives an SRS another definition adds it (`ModifyCache`).  The hypotheses
on `muddled` are those of the properties themselves; the two violation runs show what
happens without them.

### Features

`FeaturesProofs` proves for any addresses, layers, fields and lengths that the count of
a definition is *exactly* the number of its users.  `IInv` adds that there are finitely
many users (`FinitelyMany`), without which a count says nothing.  `UsersBacked` and
`Counted` need each other: a definition is freed at zero, which `Counted` makes mean
nobody, and a step that takes or gives back a reference finds the count it changes
only because `UsersBacked` says that the definition is there.

### Iteration

`IterationProofs` proves for any number of features, depth of nesting and history of
callbacks what a frame of the stack knows: a loop over features that was not moved has
shown, in ascending order, all of the kept ones before the cursor and none behind it
(`FeatureFrame`); a loop over elements has shown the first `i` of those there were, and
the rest are still where they were (`ElementFrame`).
`OpensIfOneDoes` is about the fold over a list of drivers of any length.

`LoopsRunDown` is the safety half of `EndsUnlessMoved`.  `Left` counts what a loop has
before it: the elements it has not shown, or the feature ids from the cursor on.  It is
a natural number (`SomethingLeft`); a loop's own step makes it smaller, and no other
step makes it larger (`RunsDown`), a loop in a callback included, until a callback moves
the cursor.  What is left to fairness is that each callback comes to its end.

The
library's induction theorems are out of the provers' reach, so the lemmas use the
least counterexample instead: a set of natural numbers that is not empty has a least
element (`LeastNatural`, from `WFMin`), and the step before it refutes it.

### Calls

`CallsProofs` is about `Calls` for *every* table of handlers.  A property of the
run of a call is derived from the order of the steps on its path:

| if on every path | then | theorem |
|---|---|---|
| a native step has its check before it, and none of the program's code between (`AllGuarded`) | `AliveAtUse` | `UsesTheLiving` |
| nothing native follows a throw (`AllQuiet`) | `StopsAfterThrow` | `LeavesGdalAlone` |
| every status is looked at (`AllLooked`) | `FailureReported` | `ReportsFailures` |
| a reliance follows its measurement, and none of the program's code between (`AllPrompt`) | `MeasuresFresh` | `ReliesOnTheFresh` |
| what throws comes before what changes, except the look at a change's own status (`AllClean`) | `CleanThrow` | `ThrowsCleanly` |
| nothing is released before it is allocated (`AllPaired`) | `TypeOK` | `TypeCorrect` |
| and all is released where the call may end (`AllTidy`) | `NoLeak` | `LeavesNothingBehind` |

The invariants say what the steps taken so far, the prefix of `path` before `pc`, have
established (`Known`, `Effects`, `Memory`).  `ThrowsCleanly` needs to know more than
that something was changed and something failed: a `try` does one or the other, so that
if both are true they come from two steps, and the second is a status that was not
looked at (`ChangedKnown`).  Each hypothesis exempts the calls of its list.  They are
constant formulas; of the binding's own table all seven are true, as TLC says at once
of `ASSUME AllGuarded /\ AllQuiet /\ AllLooked /\ AllPrompt /\ AllClean /\ AllPaired /\
AllTidy` in a module that extends `MCCalls`.  They are not one of the run's properties: the
run checks what they are for, on the table itself.

TLC takes the body of a loop up to three times; the code takes it as often as an array is
long.  `RoundsKeepOrder` closes the gap for the five hypotheses about order, and
`RoundsHoldNothing` for the two about memory: if they hold of every path with one to three
rounds of the body, each along any of its paths, and whatever steps `p` before and `q`
after, they hold with any number of rounds.  The argument: whatever is wrong with
the order of a path shows at three of its steps, and stays wrong when steps that lie
between them are left out (`Stays`); three steps lie in at most three rounds, so of four
rounds or more one can be left out.  The least number of rounds with which something is
wrong is therefore at most three.  As `p` and `q` are any paths, this covers loops that follow
each other, and loops in loops from the inside out.  For memory the body must
neither allocate nor release, or a wrong count would need more steps to show; that is true
of every loop of the table.  `Rounds(L, B)` is the recursive definition of the
paths `L[n]` with `n` rounds of `B`; it is a hypothesis only because the theorem of the
library that such a function exists takes an operator.

### Pixels

`PixelsProofs` proves for every width of int, set of types, sizes and spaces that
`IInv` is an invariant, and from it `TypeOK`, `InBounds`, `OnlyUnnamedCrashes`,
`MadeFits` and `NoNeedlessRefusal`.  The
argument of `InBounds` is that `min_length` elements, rounded up, hold `min_size`
bytes, and that the last line, at most `line_space` long, leaves out exactly the
padding after its last pixel; it is nonlinear, and stands on lemmas about products
and quotients.  The other two need the converse: an array that the call made has exactly the bytes
asked for (`ArrayWhole`), and no more is asked for than GDAL writes (`AsksNoMore`).
`PixelsAssumption` is what the proof assumes of the constants: an
int holds the size of every type, the sizes of pixels are those of GDAL, a block
has a positive size.  `WidthAssumption` says that half of the ints are a multiple of 64, as for
every width from 7 bits on: the product `length * size * 8` of `TypedArray::New` loses no part of a pixel
when it wraps.

### ErrorState and Envelope

`ErrorStateProofs` proves the three properties of `ErrorState` from an invariant that
ties `handler` and `last_err_handler` to `chosen` and `stage`, and `stats_file_err` to
`met` and to the errors raised.

`Envelope` proves that `merge` and `intersect` are the least upper and greatest lower
bounds of `contains`, and delimits the one exception: `isEmpty` takes all zeros for
"never set", so a point at the origin merged first is forgotten, and nothing else.

### Only model-checked

- `ItemsFreed` of `Lifetime` and `EndsUnlessMoved` of `Iteration`: liveness under
  fairness, which is out of the prover's reach.  Their safety halves are proved
  (`ItemsNeedOnlyTheirCallback`, `LoopsRunDown`): what has to happen still grows no
  larger, and the steps that fairness grants make it smaller.
- the four violations, which are counterexamples of an instance.

## What is left

- The conversion of field values (`fields.set`, `get`, `reset`): `Calls` has the order of
  its checks and of its calls to GDAL, but no module has the values themselves.
- Two hazards have no property: that `buildOverviews([])` and `createMaskBand` free
  bands under living wrappers is in `Lifetime` (`DropSubBands`), but no property can hold
  of what is freed unheard: `NativeBacked` and `StaleOnlyDetached` say that nothing else is
  affected; and the indices that `setFrom` hands on are GDAL's to interpret.
- Which of GDAL's calls are `Several` was read off GDAL's own code in `deps/libgdal`; a
  format driver may do better or worse.

Not modelled, and not planned: what GDAL, OGR and GEOS compute; metadata; logging;
the wording of errors; the external memory a geometry reports to V8; GDAL itself;
the branches for GDAL 1.
