------------------------------ MODULE Envelope ------------------------------
(***************************************************************************)
(* The bounding boxes of lib/envelope.js (Axes = {"x", "y"}) and           *)
(* lib/envelope_3d.js (Axes = {"x", "y", "z"}): an envelope is a pair of   *)
(* functions, the least and the greatest coordinate on each axis.  Math.min*)
(* and Math.max are those of numbers; NaN, -0 and missing bounds are left  *)
(* out, and a coordinate is an integer.  A method that changes its receiver*)
(* is an operator that returns the receiver's new value.                   *)
(*                                                                         *)
(* The code has no mark for an envelope that was never set: isEmpty takes  *)
(* every bound at zero for it.  The theorems say what that costs (only a   *)
(* point at the origin) and that nothing else is ever lost.                *)
(***************************************************************************)
EXTENDS Integers, TLAPS

CONSTANT Axes

Envelopes == [min : [Axes -> Int], max : [Axes -> Int]]

Least(a, b) == IF a <= b THEN a ELSE b
Greatest(a, b) == IF a <= b THEN b ELSE a

Zero == [min |-> [a \in Axes |-> 0], max |-> [a \in Axes |-> 0]]

isEmpty(this) == \A a \in Axes : this.min[a] = 0 /\ this.max[a] = 0

\* The box that two envelopes span, and the one that they share.
Span(this, e) == [min |-> [a \in Axes |-> Least(e.min[a], this.min[a])],
                  max |-> [a \in Axes |-> Greatest(e.max[a], this.max[a])]]
Common(this, e) == [min |-> [a \in Axes |-> Greatest(e.min[a], this.min[a])],
                    max |-> [a \in Axes |-> Least(e.max[a], this.max[a])]]

\* Called with coordinates, merge takes the point's own envelope.
Point(p) == [min |-> p, max |-> p]
merge(this, e) == IF isEmpty(this) THEN e ELSE Span(this, e)

intersects(this, e) ==
  \A a \in Axes : this.min[a] <= e.max[a] /\ this.max[a] >= e.min[a]

intersect(this, e) ==
  IF ~intersects(this, e) THEN Zero
  ELSE IF isEmpty(this) THEN e ELSE Common(this, e)

contains(this, e) ==
  \A a \in Axes : this.min[a] <= e.min[a] /\ this.max[a] >= e.max[a]

-----------------------------------------------------------------------------
\* An envelope whose bounds are in order, as those of GDAL and of merge are.
Ordered(e) == \A a \in Axes : e.min[a] <= e.max[a]

LEMMA Closed ==
  ASSUME NEW t \in Envelopes, NEW e \in Envelopes
  PROVE  /\ Span(t, e) \in Envelopes /\ Common(t, e) \in Envelopes
         /\ Zero \in Envelopes /\ merge(t, e) \in Envelopes
         /\ intersect(t, e) \in Envelopes
BY DEF Envelopes, Span, Common, Zero, merge, intersect, Least, Greatest

(***************************************************************************)
(* After merge the receiver covers what it was given, and all that it      *)
(* covered unless every bound was zero; and no smaller envelope would do.  *)
(***************************************************************************)
THEOREM MergeIsLeast ==
  ASSUME NEW t \in Envelopes, NEW e \in Envelopes
  PROVE  /\ contains(merge(t, e), e)
         /\ ~isEmpty(t) => contains(merge(t, e), t)
         /\ \A u \in Envelopes :
              contains(u, t) /\ contains(u, e) => contains(u, merge(t, e))
BY DEF Envelopes, merge, Span, contains, Least, Greatest

(***************************************************************************)
(* An envelope that was set, in order and not merely the origin never looks*)
(* unset again: a series of merges forgets nothing once a point other than *)
(* the origin was merged.                                                  *)
(***************************************************************************)
THEOREM MergeNeverForgets ==
  ASSUME NEW t \in Envelopes, NEW e \in Envelopes, ~isEmpty(t), Ordered(t)
  PROVE  ~isEmpty(merge(t, e))
<1> DEFINE m == merge(t, e)
<1>1. contains(m, t)
  BY MergeIsLeast
<1>2. m \in Envelopes
  BY Closed
<1> SUFFICES ASSUME isEmpty(m) PROVE isEmpty(t)
  OBVIOUS
<1>3. ASSUME NEW a \in Axes PROVE t.min[a] = 0 /\ t.max[a] = 0
  <2>1. 0 <= t.min[a] /\ 0 >= t.max[a] /\ t.min[a] <= t.max[a]
    BY <1>1, <1>2 DEF isEmpty, contains, Ordered
  <2> QED
    BY <2>1 DEF Envelopes
<1> QED
  BY <1>3 DEF isEmpty

(***************************************************************************)
(* A point at the origin merged into a new envelope is all that isEmpty    *)
(* forgets: the next merge puts its own box in its place.                  *)
(***************************************************************************)
THEOREM OnlyTheOriginIsLost ==
  ASSUME NEW e \in Envelopes, NEW p \in [Axes -> Int]
  PROVE  /\ (merge(merge(Zero, Point(p)), e) = e) \/ ~isEmpty(Point(p))
         /\ ~isEmpty(Point(p)) =>
              contains(merge(merge(Zero, Point(p)), e), Point(p))
<1>1. Point(p) \in Envelopes /\ merge(Zero, Point(p)) = Point(p)
  BY DEF Envelopes, Point, merge, Zero, isEmpty
<1>2. ~isEmpty(Point(p)) => contains(merge(Point(p), e), Point(p))
  BY <1>1, MergeIsLeast
<1>3. isEmpty(Point(p)) => merge(Point(p), e) = e
  BY DEF merge
<1> QED
  BY <1>1, <1>2, <1>3

(***************************************************************************)
(* Where two envelopes in order touch, intersect leaves the largest box in *)
(* both, again in order, unless every bound of the receiver was zero.      *)
(***************************************************************************)
THEOREM IntersectIsGreatest ==
  ASSUME NEW t \in Envelopes, NEW e \in Envelopes, Ordered(t), Ordered(e),
         intersects(t, e), ~isEmpty(t)
  PROVE  /\ contains(t, intersect(t, e)) /\ contains(e, intersect(t, e))
         /\ Ordered(intersect(t, e))
         /\ \A u \in Envelopes :
              contains(t, u) /\ contains(e, u) => contains(intersect(t, e), u)
<1>1. intersect(t, e) = Common(t, e)
  BY DEF intersect
<1>2. contains(t, Common(t, e)) /\ contains(e, Common(t, e))
  BY DEF Envelopes, Common, contains, Least, Greatest
<1>3. Ordered(Common(t, e))
  BY DEF Envelopes, Common, Ordered, intersects, Least, Greatest
<1>4. ASSUME NEW u \in Envelopes, contains(t, u), contains(e, u)
      PROVE  contains(Common(t, e), u)
  BY <1>4 DEF Envelopes, Common, contains, Least, Greatest
<1> QED
  BY <1>1, <1>2, <1>3, <1>4

(***************************************************************************)
(* intersects does not depend on which envelope is asked, and is true of   *)
(* two that share a third, however the third is placed.                    *)
(***************************************************************************)
THEOREM IntersectsIsShared ==
  ASSUME NEW t \in Envelopes, NEW e \in Envelopes
  PROVE  /\ intersects(t, e) = intersects(e, t)
         /\ \A u \in Envelopes : Ordered(u) /\ contains(t, u) /\ contains(e, u)
                                  => intersects(t, e)
<1>1. intersects(t, e) <=> intersects(e, t)
  BY DEF Envelopes, intersects
<1>2. ASSUME NEW u \in Envelopes, Ordered(u), contains(t, u), contains(e, u)
      PROVE  intersects(t, e)
  BY <1>2 DEF Envelopes, Ordered, contains, intersects
<1>3. intersects(t, e) \in BOOLEAN /\ intersects(e, t) \in BOOLEAN
  BY DEF intersects
<1> QED
  BY <1>1, <1>2, <1>3
=============================================================================
