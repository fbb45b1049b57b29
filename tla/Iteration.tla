------------------------------- MODULE Iteration -------------------------------
(***************************************************************************)
(* The loops of lib/gdal.js.  layer.features.forEach walks the one cursor  *)
(* the native layer has; the forEach of the other collections counts once  *)
(* and then asks for one element after another; fields.forEach walks a     *)
(* copy.  Between two elements the program's callback runs, and may read,  *)
(* add and remove elements, move the cursor, and start further loops over  *)
(* the same collection.  map and toArray are forEach with a callback that  *)
(* never answers false.                                                    *)
(*                                                                         *)
(* gdal.open with a list of drivers is a loop too: Array.prototype.forEach *)
(* over the names, which a callback cannot stop.                           *)
(***************************************************************************)
EXTENDS Naturals, Sequences, SequencesExt

CONSTANTS
  MaxFid,      \* feature ids and elements are 1..MaxFid
  MaxDepth,    \* bound: loops inside callbacks of loops
  MaxDrivers   \* bound: names in the list of gdal.open

ASSUME IterationAssumption == {MaxFid, MaxDepth, MaxDrivers} \subseteq Nat \ {0}

Fid == 1..MaxFid
Loop == {"features", "indexed", "fields"}

VARIABLES
  subject,     \* what the program works on: "features", "elements" or, for gdal.open,
               \* "files"; loops over two collections have nothing in common
  features,    \* the feature ids of a layer
  cursor,      \* the least id GetNextFeature may answer
  elements,    \* the elements of a collection with an index
  stack,       \* the loops that run, the innermost last
  ended,       \* the loop that ended in the last step
  opened       \* what gdal.open did in the last step

vars == <<subject, features, cursor, elements, stack, ended, opened>>

-------------------------------------------------------------------------------
(* A loop that runs.                                                       *)

\* i: calls of the callback so far.  n: the count taken at the start.  seen: what
\* the callback got (bound: of features, MaxFid + 1 show a repetition).  start: the elements at the start.  kept: the features that
\* were there all the time.  moved: a callback moved the cursor, or elements.
Frame(loop, start, kept) ==
  [loop |-> loop, i |-> 0, n |-> Len(start), seen |-> << >>, start |-> start,
   kept |-> kept, moved |-> FALSE]

None == Frame("none", << >>, {})
NotOpened == [drivers |-> << >>, mode |-> "r", ds |-> 0, threw |-> FALSE]

Top == stack[Len(stack)]
Outer == SubSeq(stack, 1, Len(stack) - 1)

\* Only the program's code runs between loops and in a callback.
Room(collection) == subject = collection /\ Len(stack) < MaxDepth
InCallback == stack # << >>

Quietly == ended' = None /\ opened' = NotOpened
End(frame) == ended' = frame /\ opened' = NotOpened

\* What a loop saw no longer matters once it was moved.
Moved(frame) == [frame EXCEPT !.moved = TRUE, !.seen = << >>, !.kept = {}]
Disturb(frames, loop) ==
  [k \in DOMAIN frames |-> IF frames[k].loop = loop THEN Moved(frames[k]) ELSE frames[k]]

-------------------------------------------------------------------------------
(* The layer's cursor.                                                     *)

Unread(c) == {f \in features : f >= c}
Least(s) == CHOOSE f \in s : \A g \in s : f <= g
After(c) == IF Unread(c) = {} THEN c ELSE Least(Unread(c)) + 1

\* Loops that wait for the cursor are disturbed when it moves.
Waiting(frames, c) == IF c = cursor THEN frames ELSE Disturb(frames, "features")

\* A loop over features gets the next one from c, or ends.
Fetch(frame, outer, c) ==
  /\ cursor' = After(c)
  /\ \/ /\ Unread(c) = {}
        /\ stack' = Waiting(outer, After(c)) /\ End(frame)
     \/ /\ Unread(c) # {}
        /\ stack' = Append(Waiting(outer, After(c)),
                      IF frame.moved \/ Len(frame.seen) > MaxFid THEN frame
                      ELSE [frame EXCEPT !.seen = Append(@, Least(Unread(c)))])
        /\ Quietly
  /\ UNCHANGED <<subject, features, elements>>

\* LayerFeatures.forEach: first(), then next() while there is a feature.
forEach_features_unreset == Room("features") /\ Fetch(Frame("features", << >>, features), stack, cursor)
forEach_features == Room("features") /\ Fetch(Frame("features", << >>, features), stack, 1)

next_features_first == InCallback /\ Top.loop = "features" /\ Fetch(Top, Outer, 1)
next_features == InCallback /\ Top.loop = "features" /\ Fetch(Top, Outer, cursor)

\* The program's own calls.  get and count read the layer from its start where
\* its driver has no better way, and leave the cursor there.
Move(c) ==
  /\ subject = "features" /\ cursor' = c /\ stack' = Waiting(stack, c)
  /\ Quietly /\ UNCHANGED <<subject, features, elements>>

features_first == Move(After(1))
features_next == Move(After(cursor))
features_get == Move(1) \/ Move(cursor)

\* A new feature comes after the others.
features_add ==
  /\ subject = "features"
  /\ \E f \in Fid : /\ \A g \in features : g < f
                    /\ f - 1 \in features \cup {0}
                    /\ features' = features \cup {f}
  /\ Quietly /\ UNCHANGED <<subject, cursor, elements, stack>>

features_remove ==
  /\ \E f \in features :
       /\ features' = features \ {f}
       /\ stack' = [k \in DOMAIN stack |-> [stack[k] EXCEPT !.kept = @ \ {f}]]
  /\ Quietly /\ UNCHANGED <<subject, cursor, elements>>

-------------------------------------------------------------------------------
(* Collections with an index, and the fields of a feature.                 *)

\* The callback gets element i + 1; where that was removed, get answers null
\* (here 0) or throws, as the collection has it.
Call(frame, outer, e) ==
  /\ stack' = Append(outer, IF frame.moved THEN [frame EXCEPT !.i = @ + 1]
                            ELSE [frame EXCEPT !.i = @ + 1, !.seen = Append(@, e)])
  /\ Quietly

Element(frame) ==
  IF frame.loop = "fields" THEN frame.start[frame.i + 1]
  ELSE IF frame.i < Len(elements) THEN elements[frame.i + 1] ELSE 0

More_counted_again(frame) ==
  frame.i < IF frame.loop = "fields" THEN frame.n ELSE Len(elements)
More(frame) == frame.i < frame.n

Ask(frame, outer) ==
  /\ \/ More(frame) /\ Call(frame, outer, Element(frame))
     \/ More(frame) /\ Element(frame) = 0 /\ stack' = outer /\ Quietly
     \/ ~More(frame) /\ stack' = outer /\ End(frame)
  /\ UNCHANGED <<subject, features, cursor, elements>>

\* defaultForEach and DatasetBands.forEach; FeatureFields.forEach.
forEach_indexed ==
  /\ Room("elements")
  /\ \E loop \in {"indexed", "fields"} : Ask(Frame(loop, elements, {}), stack)

next_indexed == InCallback /\ Top.loop # "features" /\ Ask(Top, Outer)

elements_add ==
  /\ subject = "elements"
  /\ \E e \in Fid : e \notin ToSet(elements) /\ elements' = Append(elements, e)
  /\ Quietly /\ UNCHANGED <<subject, features, cursor, stack>>

elements_remove ==
  /\ \E k \in DOMAIN elements : elements' = RemoveAt(elements, k)
  /\ stack' = Disturb(stack, "indexed")
  /\ Quietly /\ UNCHANGED <<subject, features, cursor>>

elements_reorder ==
  /\ Len(elements) > 1 /\ elements' = Reverse(elements)
  /\ stack' = Disturb(stack, "indexed")
  /\ Quietly /\ UNCHANGED <<subject, features, cursor>>

\* A callback answers false, or throws.
Leave ==
  /\ InCallback /\ stack' = Outer
  /\ Quietly /\ UNCHANGED <<subject, features, cursor, elements>>

-------------------------------------------------------------------------------
(* gdal.open.                                                              *)

\* What a name stands for: no driver, a driver that opens (creates) the file, or
\* one that does not.
Driver == {"unknown", "opens", "fails"}

OpenWith_uncaught(acc, k, driver) ==
  IF acc.threw \/ driver # "opens" THEN [acc EXCEPT !.threw = TRUE] ELSE [acc EXCEPT !.ds = k]
OpenWith(acc, k, driver) ==
  CASE acc.threw -> acc
    [] ~acc.threw /\ driver = "unknown" -> [acc EXCEPT !.threw = TRUE]
    [] ~acc.threw /\ driver = "opens" -> [acc EXCEPT !.ds = k]
    [] ~acc.threw /\ driver = "fails" -> acc

\* The loop over the names goes on after a driver has opened the file.
OpenList(drivers) ==
  LET start == [drivers |-> drivers, mode |-> "r", ds |-> 0, threw |-> FALSE]
      acc[k \in 0..Len(drivers)] ==
        IF k = 0 THEN start ELSE OpenWith(acc[k-1], k, drivers[k])
      last == acc[Len(drivers)]
  IN  [last EXCEPT !.threw = @ \/ last.ds = 0]

Create(drivers) ==
  LET made == Len(drivers) = 1 /\ drivers[1] = "opens"
  IN  [drivers |-> drivers, mode |-> "w", ds |-> IF made THEN 1 ELSE 0, threw |-> ~made]

open ==
  /\ subject = "files"
  /\ \E k \in 1..MaxDrivers : \E drivers \in [1..k -> Driver] :
       opened' \in {OpenList(drivers), Create(drivers)}
  /\ ended' = None /\ UNCHANGED <<subject, features, cursor, elements, stack>>

-------------------------------------------------------------------------------
Init ==
  /\ \/ subject = "features" /\ features \in SUBSET Fid /\ elements = << >>
     \/ /\ subject = "elements" /\ features = {}
        /\ elements \in {SubSeq([k \in Fid |-> k], 1, m) : m \in 0..MaxFid}
     \/ subject = "files" /\ features = {} /\ elements = << >>
  /\ cursor = 1
  /\ stack = << >> /\ ended = None /\ opened = NotOpened

Next ==
  \/ forEach_features \/ next_features \/ forEach_indexed \/ next_indexed \/ Leave
  \/ features_first \/ features_next \/ features_get \/ features_add \/ features_remove
  \/ elements_add \/ elements_remove \/ elements_reorder \/ open

\* A callback comes to its end, whatever it does before: the loop it belongs to
\* goes on.  Loops begin and callbacks act as the program likes.
GoOn(depth) == Len(stack) = depth /\ (next_features \/ next_indexed)
Fairness == \A depth \in 1..MaxDepth : SF_vars(GoOn(depth))

Spec == Init /\ [][Next]_vars
FairSpec == Spec /\ Fairness

-------------------------------------------------------------------------------
Ascending(s) == \A a, b \in DOMAIN s : a < b => s[a] < s[b]

\* layer.features.forEach that came to its end has shown its callback every
\* feature that was there all the time, and none twice, also where callbacks added
\* and removed features; unless a callback moved the cursor, which get, count,
\* first, next and another forEach do (layer_features.cpp:109, 132, 159, 221).
EveryFeatureOnce ==
  (ended.loop = "features" /\ ~ended.moved) =>
    ended.kept \subseteq ToSet(ended.seen) /\ Ascending(ended.seen)

\* forEach of the other collections shows exactly the elements that were there
\* when it began, in their order, also where callbacks added others; unless they
\* removed or reordered some.  fields.forEach shows them whatever callbacks do.
EveryElementOnce ==
  (ended.loop \in {"indexed", "fields"} /\ ~ended.moved) => ended.seen = ended.start

\* An outermost loop ends, although its callbacks start other loops, and add and
\* remove elements for ever: the count is taken once (lib/gdal.js:85).  The cursor
\* only goes forward, and meets the last feature if callbacks add no more than
\* MaxFid has room for, unless a callback moves it.
EndsUnlessMoved ==
  (stack # << >>) ~> (stack = << >> \/ (stack[1].loop = "features" /\ stack[1].moved))

\* gdal.open answers a dataset that one of the drivers opened, and throws only if
\* there is none or a name is unknown: one driver's exception is not the loop's
\* (lib/gdal.js:558-563).
OpensIfOneDoes ==
  opened.drivers # << >> =>
    IF opened.threw
    THEN \/ \A k \in DOMAIN opened.drivers : opened.drivers[k] # "opens"
         \/ "unknown" \in ToSet(opened.drivers)
         \/ opened.mode = "w" /\ Len(opened.drivers) # 1
    ELSE opened.drivers[opened.ds] = "opens"
===============================================================================
