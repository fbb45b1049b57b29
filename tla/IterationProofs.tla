---------------------------- MODULE IterationProofs ----------------------------
(***************************************************************************)
(* Proofs about Iteration for every number of features and elements, every *)
(* depth of loops in callbacks and every list of drivers.  What a loop has *)
(* shown so far is told by FrameOK; what gdal.open answers is a fold over  *)
(* a list, and is proved by looking at the first round that goes wrong.    *)
(***************************************************************************)
EXTENDS Iteration, WellFoundedInduction, TLAPS

FrameType ==
  [loop : Loop, i : Nat, n : Nat, seen : Seq(Fid), start : Seq(Fid),
   kept : SUBSET Fid, moved : BOOLEAN]

\* A loop over features has shown exactly those of the features it must show that
\* lie before the cursor, in their order.
FeatureFrame(frame, fs, c) ==
  (frame.loop = "features" /\ ~frame.moved) =>
    /\ frame.kept \subseteq fs
    /\ Ascending(frame.seen)
    /\ Len(frame.seen) < c
    /\ \A k \in DOMAIN frame.seen : frame.seen[k] < c
    /\ \A f \in frame.kept : f < c => f \in ToSet(frame.seen)

\* Another loop has shown the first i of the elements there were, and finds the rest
\* where they were.
ElementFrame(frame, es) ==
  frame.loop # "features" =>
    /\ frame.n = Len(frame.start) /\ frame.i <= frame.n
    /\ frame.loop = "fields" => ~frame.moved
    /\ ~frame.moved => /\ Len(frame.seen) = frame.i
                       /\ \A k \in 1..frame.i : frame.seen[k] = frame.start[k]
    /\ (frame.loop = "indexed" /\ ~frame.moved) =>
         frame.n <= Len(es) /\ \A k \in 1..frame.n : es[k] = frame.start[k]

FrameOK(frame, fs, es, c) ==
  frame \in FrameType /\ FeatureFrame(frame, fs, c) /\ ElementFrame(frame, es)

StackOK(frames, fs, es, c) ==
  /\ frames \in Seq(FrameType)
  /\ \A k \in 1..Len(frames) : FrameOK(frames[k], fs, es, c)

Loops ==
  /\ features \subseteq Fid /\ cursor \in 1..(MaxFid + 1) /\ elements \in Seq(Fid)
  /\ StackOK(stack, features, elements, cursor)

\* fields.forEach walks a copy: nothing a callback does changes what it shows.
FieldsShown == ended.loop = "fields" => ended.seen = ended.start

Answers == EveryFeatureOnce /\ EveryElementOnce /\ FieldsShown

IInv == Loops /\ Answers /\ OpensIfOneDoes

-------------------------------------------------------------------------------
(* A set of natural numbers has a least one, and a function that is defined by *)
(* recursion on a number exists.                                               *)

LEMMA LeastNatural ==
  ASSUME NEW S \in SUBSET Nat, S # {}
  PROVE  \E m \in S : \A k \in S : m <= k
<1> DEFINE R == {p \in Nat \X Nat : p[1] < p[2]}
<1>1. R = OpToRel(<, Nat)
  BY DEF OpToRel
<1>2. IsWellFoundedOn(R, Nat)
  BY <1>1, NatLessThanWellFounded
<1>3. \A x, y \in Nat : <<y, x>> \in R <=> y < x
  OBVIOUS
<1> HIDE DEF R
<1>4. PICK x \in S : \A y \in S : ~(<<y, x>> \in R)
  BY <1>2, WFMin
<1>5. ASSUME NEW k \in S PROVE x <= k
  <2>1. k \in Nat /\ x \in Nat
    OBVIOUS
  <2>2. ~(k < x)
    BY <1>3, <1>4, <2>1
  <2>3. QED
    BY <2>1, <2>2
<1>6. QED
  BY <1>5

LEMMA FidFacts == MaxFid \in Nat \ {0} /\ MaxDrivers \in Nat \ {0} /\ Fid \subseteq Nat \ {0}
BY IterationAssumption DEF Fid

\* Least and After are what their names say.
LEMMA UnreadFacts ==
  ASSUME features \subseteq Fid, NEW c \in 1..(MaxFid + 1)
  PROVE  /\ Unread(c) # {} =>
              /\ Least(Unread(c)) \in Unread(c) /\ Least(Unread(c)) \in Fid
              /\ \A f \in Unread(c) : Least(Unread(c)) <= f
         /\ After(c) \in 1..(MaxFid + 1) /\ After(c) >= c
<1>1. Unread(c) \in SUBSET Nat /\ Unread(c) \subseteq Fid /\ \A f \in Unread(c) : f >= c
  BY FidFacts DEF Unread
<1>2. ASSUME Unread(c) # {}
      PROVE  Least(Unread(c)) \in Unread(c) /\ \A f \in Unread(c) : Least(Unread(c)) <= f
  BY <1>1, <1>2, LeastNatural DEF Least
<1>3. CASE Unread(c) = {}
  BY <1>3, FidFacts DEF After
<1>4. CASE Unread(c) # {}
  <2>1. PICK m \in Fid : m = Least(Unread(c)) /\ m >= c
    BY <1>1, <1>2, <1>4
  <2>2. After(c) = m + 1
    BY <1>4, <2>1 DEF After
  <2>3. m + 1 \in 1..(MaxFid + 1) /\ m + 1 >= c
    BY <2>1, FidFacts DEF Fid
  <2>4. QED
    BY <1>1, <1>2, <1>4, <2>2, <2>3
<1>5. QED
  BY <1>3, <1>4

-------------------------------------------------------------------------------
(* The stack of loops.                                                         *)

LEMMA FrontFacts ==
  ASSUME NEW S, NEW s \in Seq(S), s # << >>, NEW n \in Nat, n = Len(s) - 1
  PROVE  /\ SubSeq(s, 1, n) \in Seq(S) /\ Len(SubSeq(s, 1, n)) = n
         /\ \A k \in 1..n : SubSeq(s, 1, n)[k] = s[k]
<1>1. SubSeq(s, 1, n) \in Seq(S)
  OBVIOUS
<1>2. Len(SubSeq(s, 1, n)) = n
  OBVIOUS
<1>3. \A k \in 1..n : SubSeq(s, 1, n)[k] = s[k]
  OBVIOUS
<1>4. QED
  BY <1>1, <1>2, <1>3

LEMMA AppendOK ==
  ASSUME NEW fs, NEW es, NEW c, NEW frames, NEW frame,
         StackOK(frames, fs, es, c), FrameOK(frame, fs, es, c)
  PROVE  StackOK(Append(frames, frame), fs, es, c)
<1>1. frames \in Seq(FrameType) /\ frame \in FrameType
  BY DEF StackOK, FrameOK
<1>2. /\ Append(frames, frame) \in Seq(FrameType)
      /\ Len(Append(frames, frame)) = Len(frames) + 1 /\ Len(frames) \in Nat
  BY <1>1
<1>3. ASSUME NEW k \in 1..(Len(frames) + 1)
      PROVE  FrameOK(Append(frames, frame)[k], fs, es, c)
  <2>1. CASE k = Len(frames) + 1
    BY <1>1, <2>1
  <2>2. CASE k \in 1..Len(frames)
    BY <1>1, <2>2 DEF StackOK
  <2>3. QED
    BY <1>2, <2>1, <2>2
<1>4. QED
  BY <1>2, <1>3 DEF StackOK

LEMMA PopOK ==
  ASSUME NEW fs, NEW es, NEW c, StackOK(stack, fs, es, c), InCallback
  PROVE  StackOK(Outer, fs, es, c) /\ FrameOK(Top, fs, es, c)
<1>1. stack \in Seq(FrameType) /\ stack # << >> /\ Len(stack) \in Nat \ {0}
  BY DEF StackOK, InCallback
<1>2. FrameOK(Top, fs, es, c)
  <2>1. Len(stack) \in 1..Len(stack)
    BY <1>1
  <2>2. QED
    BY <2>1 DEF StackOK, Top
<1>3. PICK n \in Nat : n = Len(stack) - 1
  BY <1>1
<1>4. Outer \in Seq(FrameType) /\ Len(Outer) = n /\ \A k \in 1..n : Outer[k] = stack[k]
  BY <1>1, <1>3, FrontFacts DEF Outer
<1>5. \A k \in 1..Len(Outer) : k \in 1..Len(stack)
  BY <1>1, <1>3, <1>4
<1>6. QED
  BY <1>2, <1>4, <1>5 DEF StackOK

\* A loop that was moved promises nothing but its count.
LEMMA MovedOK ==
  ASSUME NEW fs, NEW es, NEW c, NEW frame \in FrameType,
         frame.loop # "fields",
         frame.loop # "features" => frame.n = Len(frame.start) /\ frame.i <= frame.n
  PROVE  FrameOK(Moved(frame), fs, es, c)
<1>1. /\ Moved(frame) \in FrameType /\ Moved(frame).moved
      /\ Moved(frame).loop = frame.loop /\ Moved(frame).n = frame.n
      /\ Moved(frame).i = frame.i /\ Moved(frame).start = frame.start
  <2>1. << >> \in Seq(Fid) /\ {} \in SUBSET Fid /\ TRUE \in BOOLEAN
    OBVIOUS
  <2>2. QED
    BY <2>1 DEF Moved, FrameType
<1>2. QED
  BY <1>1 DEF FrameOK, FeatureFrame, ElementFrame

LEMMA DisturbOK ==
  ASSUME NEW fs, NEW es, NEW c, NEW es2, NEW c2, NEW frames, NEW loop \in {"features", "indexed"},
         StackOK(frames, fs, es, c),
         loop = "features" => es2 = es,
         loop = "indexed" => c2 = c
  PROVE  StackOK(Disturb(frames, loop), fs, es2, c2)
<1>1. frames \in Seq(FrameType) /\ Len(frames) \in Nat /\ DOMAIN frames = 1..Len(frames)
  BY DEF StackOK
<1>2. ASSUME NEW k \in 1..Len(frames)
      PROVE  FrameOK(Disturb(frames, loop)[k], fs, es2, c2)
  <2>1. FrameOK(frames[k], fs, es, c)
    BY DEF StackOK
  <2>2. CASE frames[k].loop = loop
    <3>1. Disturb(frames, loop)[k] = Moved(frames[k])
      BY <1>1, <2>2 DEF Disturb
    <3>2. frames[k] \in FrameType /\ frames[k].loop # "fields"
      BY <2>1, <2>2 DEF FrameOK
    <3>3. frames[k].loop # "features" =>
            frames[k].n = Len(frames[k].start) /\ frames[k].i <= frames[k].n
      BY <2>1 DEF FrameOK, ElementFrame
    <3>4. QED
      BY <3>1, <3>2, <3>3, MovedOK
  <2>3. CASE frames[k].loop # loop
    <3>1. Disturb(frames, loop)[k] = frames[k]
      BY <1>1, <2>3 DEF Disturb
    <3>2. QED
      BY <2>1, <2>3, <3>1 DEF FrameOK, FeatureFrame, ElementFrame
  <2>4. QED
    BY <2>2, <2>3
<1>3. \A k \in 1..Len(frames) : Disturb(frames, loop)[k] \in FrameType
  BY <1>2 DEF FrameOK
<1>4. /\ Disturb(frames, loop) = [k \in 1..Len(frames) |-> Disturb(frames, loop)[k]]
  BY <1>1 DEF Disturb
<1>5. Disturb(frames, loop) \in Seq(FrameType) /\ Len(Disturb(frames, loop)) = Len(frames)
  BY <1>1, <1>3, <1>4
<1>6. QED
  BY <1>2, <1>5 DEF StackOK

LEMMA WaitingOK ==
  ASSUME NEW c, NEW frames, StackOK(frames, features, elements, cursor)
  PROVE  StackOK(Waiting(frames, c), features, elements, c)
BY DisturbOK DEF Waiting

-------------------------------------------------------------------------------
(* The steps that loop over features.                                          *)

LEMMA QuietAnswers ==
  ASSUME Quietly
  PROVE  Answers' /\ OpensIfOneDoes'
BY DEF Quietly, None, NotOpened, Frame, Answers, EveryFeatureOnce, EveryElementOnce,
       FieldsShown, OpensIfOneDoes

\* A frame shows one feature more.
LEMMA ShownOK ==
  ASSUME features \subseteq Fid, NEW c \in 1..(MaxFid + 1), NEW frame \in FrameType,
         frame.loop = "features", FeatureFrame(frame, features, c),
         Unread(c) # {}, NEW es,
         NEW m \in Fid, m = Least(Unread(c))
  PROVE  FrameOK(IF frame.moved \/ Len(frame.seen) > MaxFid THEN frame
                 ELSE [frame EXCEPT !.seen = Append(@, m)], features, es, m + 1)
<1>1. m \in Unread(c) /\ (\A f \in Unread(c) : m <= f) /\ m \in Nat /\ m >= c
  BY UnreadFacts, FidFacts DEF Unread
<1>2. CASE frame.moved
  BY <1>2 DEF FrameOK, FeatureFrame, ElementFrame
<1>3. CASE ~frame.moved
  <2>1. /\ frame.kept \subseteq features /\ Ascending(frame.seen) /\ Len(frame.seen) < c
        /\ \A k \in DOMAIN frame.seen : frame.seen[k] < c
        /\ \A f \in frame.kept : f < c => f \in ToSet(frame.seen)
    BY <1>3 DEF FeatureFrame
  <2>2. frame.seen \in Seq(Fid) /\ Len(frame.seen) \in Nat
    BY DEF FrameType
  <2>3. ~(Len(frame.seen) > MaxFid)
    BY <1>1, <2>1, <2>2, FidFacts DEF Fid
  <2>4. PICK longer : longer = Append(frame.seen, m)
    OBVIOUS
  <2>5. PICK g : g = [frame EXCEPT !.seen = longer]
    OBVIOUS
  <2>6. /\ longer \in Seq(Fid) /\ Len(longer) = Len(frame.seen) + 1
        /\ DOMAIN longer = 1..Len(longer) /\ DOMAIN frame.seen = 1..Len(frame.seen)
        /\ longer[Len(longer)] = m
        /\ \A k \in 1..Len(frame.seen) : longer[k] = frame.seen[k] /\ longer[k] \in Nat
    <3>1. /\ longer \in Seq(Fid) /\ Len(longer) = Len(frame.seen) + 1
          /\ longer[Len(longer)] = m
      BY <2>2, <2>4
    <3>2. DOMAIN longer = 1..Len(longer) /\ DOMAIN frame.seen = 1..Len(frame.seen)
      BY <2>2, <3>1
    <3>3. \A k \in 1..Len(frame.seen) : longer[k] = frame.seen[k]
      BY <2>2, <2>4
    <3>4. \A k \in 1..Len(frame.seen) : frame.seen[k] \in Fid
      BY <2>2
    <3>5. QED
      BY <3>1, <3>2, <3>3, <3>4, FidFacts
  <2>7. /\ g \in FrameType /\ g.seen = longer /\ g.loop = "features"
        /\ g.kept = frame.kept /\ g.moved = frame.moved
    BY <2>5, <2>6 DEF FrameType
  <2>8. Ascending(longer)
    <3> SUFFICES ASSUME NEW a \in 1..Len(longer), NEW b \in 1..Len(longer), a < b
                 PROVE  longer[a] < longer[b]
      BY <2>6 DEF Ascending
    <3>1. CASE b \in 1..Len(frame.seen)
      BY <2>1, <2>2, <2>6, <3>1 DEF Ascending
    <3>2. CASE b = Len(longer)
      <4>1. a \in 1..Len(frame.seen)
        BY <2>2, <2>6, <3>2
      <4>2. longer[a] < c
        BY <2>1, <2>6, <4>1
      <4>3. QED
        BY <1>1, <2>6, <3>2, <4>1, <4>2
    <3>3. QED
      BY <2>2, <2>6, <3>1, <3>2
  <2>9. Len(longer) < m + 1
    BY <1>1, <2>1, <2>2, <2>6
  <2>10. \A k \in DOMAIN longer : longer[k] < m + 1
    <3> SUFFICES ASSUME NEW k \in 1..Len(longer) PROVE longer[k] < m + 1
      BY <2>6
    <3>1. CASE k \in 1..Len(frame.seen)
      <4>1. longer[k] < c /\ longer[k] \in Nat
        BY <2>1, <2>6, <3>1
      <4>2. QED
        BY <1>1, <4>1
    <3>2. CASE k = Len(longer)
      BY <1>1, <2>6, <3>2
    <3>3. QED
      BY <2>2, <2>6, <3>1, <3>2
  <2>11. ASSUME NEW f \in frame.kept, f < m + 1 PROVE f \in ToSet(longer)
    <3>1. f \in features /\ f \in Nat
      BY <2>1, FidFacts
    <3>2. CASE f < c
      <4>1. PICK k \in 1..Len(frame.seen) : frame.seen[k] = f
        BY <2>1, <2>6, <3>2 DEF ToSet
      <4>2. k \in DOMAIN longer /\ longer[k] = f
        BY <2>2, <2>6, <4>1
      <4>3. QED
        BY <4>2 DEF ToSet
    <3>3. CASE ~(f < c)
      <4>1. f \in Unread(c)
        BY <3>1, <3>3 DEF Unread
      <4>2. f = m
        BY <1>1, <2>11, <3>1, <4>1
      <4>3. Len(longer) \in DOMAIN longer
        BY <2>2, <2>6
      <4>4. QED
        BY <2>6, <4>2, <4>3 DEF ToSet
    <3>4. QED
      BY <3>2, <3>3
  <2>12. FrameOK(g, features, es, m + 1)
    BY <2>1, <2>7, <2>8, <2>9, <2>10, <2>11 DEF FrameOK, FeatureFrame, ElementFrame
  <2>13. QED
    BY <1>3, <2>3, <2>4, <2>5, <2>12
<1>4. QED
  BY <1>2, <1>3 DEF FrameType

LEMMA FetchStep ==
  ASSUME Loops, NEW c \in 1..(MaxFid + 1), NEW frame \in FrameType, NEW outer,
         frame.loop = "features", FeatureFrame(frame, features, c),
         StackOK(outer, features, elements, cursor),
         Fetch(frame, outer, c)
  PROVE  IInv'
<1>1. features \subseteq Fid /\ elements \in Seq(Fid) /\ features' = features /\ elements' = elements
  BY DEF Loops, Fetch
<1>2. cursor' = After(c) /\ cursor' \in 1..(MaxFid + 1)
  BY <1>1, UnreadFacts DEF Fetch
<1>3. StackOK(Waiting(outer, After(c)), features, elements, After(c))
  BY WaitingOK
<1>4. CASE Unread(c) = {}
  <2>1. stack' = Waiting(outer, After(c)) /\ ended' = frame /\ opened' = NotOpened
    BY <1>4 DEF Fetch, End
  <2>2. Loops'
    BY <1>1, <1>2, <1>3, <2>1 DEF Loops
  <2>3. frame.kept \subseteq ToSet(frame.seen) \/ frame.moved
    <3> SUFFICES ASSUME ~frame.moved, NEW f \in frame.kept PROVE f \in ToSet(frame.seen)
      OBVIOUS
    <3>1. f \in features
      BY DEF FeatureFrame
    <3>2. f \in Nat /\ c \in Nat
      BY <1>1, <3>1, FidFacts
    <3>3. f < c
      BY <1>4, <3>1, <3>2 DEF Unread
    <3>4. QED
      BY <3>3 DEF FeatureFrame
  <2>4. Ascending(frame.seen) \/ frame.moved
    BY DEF FeatureFrame
  <2>5. Answers'
    BY <2>1, <2>3, <2>4 DEF Answers, EveryFeatureOnce, EveryElementOnce, FieldsShown
  <2>6. OpensIfOneDoes'
    BY <2>1 DEF OpensIfOneDoes, NotOpened
  <2>7. QED
    BY <2>2, <2>5, <2>6 DEF IInv
<1>5. CASE Unread(c) # {}
  <2>1. PICK m \in Fid : m = Least(Unread(c))
    BY <1>1, <1>5, UnreadFacts
  <2>2. PICK g : g = IF frame.moved \/ Len(frame.seen) > MaxFid THEN frame
                     ELSE [frame EXCEPT !.seen = Append(@, m)]
    OBVIOUS
  <2>3. FrameOK(g, features, elements, m + 1)
    BY <1>1, <1>5, <2>1, <2>2, ShownOK
  <2>4. After(c) = m + 1
    BY <1>5, <2>1 DEF After
  <2>5. stack' = Append(Waiting(outer, After(c)), g) /\ Quietly
    BY <1>5, <2>1, <2>2 DEF Fetch
  <2>6. StackOK(stack', features, elements, After(c))
    BY <1>3, <2>3, <2>4, <2>5, AppendOK
  <2>7. Loops'
    BY <1>1, <1>2, <2>6 DEF Loops
  <2>8. QED
    BY <2>5, <2>7, QuietAnswers DEF IInv
<1>6. QED
  BY <1>4, <1>5

-------------------------------------------------------------------------------
(* The steps that loop over a collection with an index, or over fields.        *)

\* A frame asks for the element after the ones it has shown.
LEMMA AskedOK ==
  ASSUME NEW fs, NEW c, elements \in Seq(Fid), NEW frame \in FrameType,
         frame.loop # "features", ElementFrame(frame, elements), More(frame)
  PROVE  FrameOK(IF frame.moved THEN [frame EXCEPT !.i = @ + 1]
                 ELSE [frame EXCEPT !.i = @ + 1, !.seen = Append(@, Element(frame))],
                 fs, elements, c)
<1>1. /\ frame.i \in Nat /\ frame.n \in Nat /\ frame.start \in Seq(Fid) /\ frame.seen \in Seq(Fid)
      /\ frame.loop \in {"indexed", "fields"} /\ frame.moved \in BOOLEAN
  BY DEF FrameType, Loop
<1>2. frame.i < frame.n /\ frame.n = Len(frame.start) /\ (frame.loop = "fields" => ~frame.moved)
  BY DEF More, ElementFrame
<1>3. PICK j \in Nat : j = frame.i + 1 /\ j \in 1..frame.n
  BY <1>1, <1>2
<1>4. CASE frame.moved
  <2>1. PICK g : g = [frame EXCEPT !.i = j]
    OBVIOUS
  <2>2. /\ g \in FrameType /\ g.i = j /\ g.loop = frame.loop /\ g.n = frame.n
        /\ g.start = frame.start /\ g.moved
    BY <1>4, <2>1 DEF FrameType
  <2>3. j <= frame.n
    BY <1>1, <1>3
  <2>4. FrameOK(g, fs, elements, c)
    BY <1>2, <1>4, <2>2, <2>3 DEF FrameOK, FeatureFrame, ElementFrame
  <2>5. QED
    BY <1>3, <1>4, <2>1, <2>4
<1>5. CASE ~frame.moved
  <2>1. Element(frame) = frame.start[j] /\ Element(frame) \in Fid
    <3>1. frame.start[j] \in Fid
      BY <1>1, <1>2, <1>3
    <3>2. CASE frame.loop = "fields"
      BY <1>3, <3>1, <3>2 DEF Element
    <3>3. CASE frame.loop = "indexed"
      <4>1. frame.n <= Len(elements) /\ \A k \in 1..frame.n : elements[k] = frame.start[k]
        BY <1>5, <3>3 DEF ElementFrame
      <4>2. Len(elements) \in Nat
        OBVIOUS
      <4>3. frame.i < Len(elements) /\ elements[j] = frame.start[j]
        BY <1>1, <1>2, <1>3, <4>1, <4>2
      <4>4. QED
        BY <1>3, <3>1, <3>3, <4>3 DEF Element
    <3>4. QED
      BY <1>1, <3>2, <3>3
  <2>2. PICK e \in Fid : e = Element(frame) /\ e = frame.start[j]
    BY <2>1
  <2>3. Len(frame.seen) = frame.i /\ \A k \in 1..frame.i : frame.seen[k] = frame.start[k]
    BY <1>5 DEF ElementFrame
  <2>4. PICK longer : longer = Append(frame.seen, e)
    OBVIOUS
  <2>5. /\ longer \in Seq(Fid) /\ Len(longer) = j /\ longer[j] = e
        /\ \A k \in 1..frame.i : longer[k] = frame.seen[k]
    BY <1>1, <1>3, <2>3, <2>4
  <2>6. \A k \in 1..j : longer[k] = frame.start[k]
    <3>1. \A k \in 1..j : k = j \/ k \in 1..frame.i
      BY <1>1, <1>3
    <3>2. QED
      BY <2>2, <2>3, <2>5, <3>1
  <2>7. PICK g : g = [frame EXCEPT !.i = j, !.seen = longer]
    OBVIOUS
  <2>8. /\ g \in FrameType /\ g.i = j /\ g.seen = longer /\ g.loop = frame.loop
        /\ g.n = frame.n /\ g.start = frame.start /\ g.moved = frame.moved
    BY <2>5, <2>7 DEF FrameType
  <2>9. j <= frame.n
    BY <1>1, <1>3
  <2>10. FrameOK(g, fs, elements, c)
    BY <1>2, <1>5, <2>5, <2>6, <2>8, <2>9 DEF FrameOK, FeatureFrame, ElementFrame
  <2>11. QED
    BY <1>3, <1>5, <2>2, <2>4, <2>7, <2>10
<1>6. QED
  BY <1>1, <1>4, <1>5

LEMMA AskStep ==
  ASSUME Loops, NEW frame, NEW outer, frame.loop # "features",
         FrameOK(frame, features, elements, cursor),
         StackOK(outer, features, elements, cursor),
         Ask(frame, outer)
  PROVE  IInv'
<1>1. /\ features \subseteq Fid /\ cursor \in 1..(MaxFid + 1) /\ elements \in Seq(Fid)
      /\ UNCHANGED <<features, cursor, elements>>
      /\ frame \in FrameType /\ ElementFrame(frame, elements)
  BY DEF Loops, Ask, FrameOK
<1>2. CASE More(frame) /\ Call(frame, outer, Element(frame))
  <2>1. PICK g : g = IF frame.moved THEN [frame EXCEPT !.i = @ + 1]
                     ELSE [frame EXCEPT !.i = @ + 1, !.seen = Append(@, Element(frame))]
    OBVIOUS
  <2>2. FrameOK(g, features, elements, cursor)
    BY <1>1, <1>2, <2>1, AskedOK
  <2>3. stack' = Append(outer, g) /\ Quietly
    BY <1>2, <2>1 DEF Call
  <2>4. StackOK(stack', features, elements, cursor)
    BY <2>2, <2>3, AppendOK
  <2>5. QED
    BY <1>1, <2>3, <2>4, QuietAnswers DEF IInv, Loops
<1>3. CASE stack' = outer /\ Quietly
  BY <1>1, <1>3, QuietAnswers DEF IInv, Loops
<1>4. CASE ~More(frame) /\ stack' = outer /\ End(frame)
  <2>1. ended' = frame /\ opened' = NotOpened
    BY <1>4 DEF End
  <2>2. ~frame.moved => frame.seen = frame.start
    <3> SUFFICES ASSUME ~frame.moved PROVE frame.seen = frame.start
      OBVIOUS
    <3>1. /\ frame.i \in Nat /\ frame.n \in Nat
          /\ frame.start \in Seq(Fid) /\ frame.seen \in Seq(Fid)
      BY <1>1 DEF FrameType
    <3>2. /\ frame.n = Len(frame.start) /\ frame.i <= frame.n /\ Len(frame.seen) = frame.i
          /\ \A k \in 1..frame.i : frame.seen[k] = frame.start[k]
      BY <1>1 DEF ElementFrame
    <3>3. frame.i = frame.n
      BY <1>4, <3>1, <3>2 DEF More
    <3>4. QED
      BY <3>1, <3>2, <3>3
  <2>3. frame.loop = "fields" => ~frame.moved
    BY <1>1 DEF ElementFrame
  <2>4. Answers'
    BY <2>1, <2>2, <2>3 DEF Answers, EveryFeatureOnce, EveryElementOnce, FieldsShown
  <2>5. OpensIfOneDoes'
    BY <2>1 DEF OpensIfOneDoes, NotOpened
  <2>6. QED
    BY <1>1, <1>4, <2>4, <2>5 DEF IInv, Loops
<1>5. QED
  BY <1>2, <1>3, <1>4 DEF Ask

-------------------------------------------------------------------------------
(* The steps of the program.                                                   *)

LEMMA MoveStep ==
  ASSUME Loops, NEW c \in 1..(MaxFid + 1), Move(c)
  PROVE  IInv'
<1>1. StackOK(stack', features, elements, c)
  BY WaitingOK DEF Loops, Move
<1>2. Loops'
  BY <1>1 DEF Loops, Move
<1>3. QED
  BY <1>2, QuietAnswers DEF IInv, Move

LEMMA RemoveStep ==
  ASSUME Loops, features_remove
  PROVE  IInv'
<1>1. PICK f \in features :
        /\ features' = features \ {f}
        /\ stack' = [k \in DOMAIN stack |-> [stack[k] EXCEPT !.kept = @ \ {f}]]
  BY DEF features_remove
<1>2. /\ stack \in Seq(FrameType) /\ DOMAIN stack = 1..Len(stack) /\ Len(stack) \in Nat
      /\ \A k \in 1..Len(stack) : FrameOK(stack[k], features, elements, cursor)
  BY DEF Loops, StackOK
<1>3. ASSUME NEW k \in 1..Len(stack)
      PROVE  FrameOK(stack'[k], features', elements, cursor)
  <2>1. stack'[k] = [stack[k] EXCEPT !.kept = @ \ {f}]
    BY <1>1, <1>2
  <2>2. PICK g \in FrameType : g = stack[k] /\ FeatureFrame(g, features, cursor) /\ ElementFrame(g, elements)
    BY <1>2 DEF FrameOK
  <2>3. PICK h : h = [g EXCEPT !.kept = @ \ {f}]
    OBVIOUS
  <2>4. /\ h \in FrameType /\ h.kept = g.kept \ {f} /\ h.loop = g.loop /\ h.moved = g.moved
        /\ h.seen = g.seen /\ h.n = g.n /\ h.i = g.i /\ h.start = g.start
    BY <2>3 DEF FrameType
  <2>5. FeatureFrame(h, features', cursor)
    BY <1>1, <2>2, <2>4 DEF FeatureFrame
  <2>6. ElementFrame(h, elements)
    BY <2>2, <2>4 DEF ElementFrame
  <2>7. QED
    BY <2>1, <2>2, <2>3, <2>4, <2>5, <2>6 DEF FrameOK
<1>4. \A k \in 1..Len(stack) : stack'[k] \in FrameType
  BY <1>3 DEF FrameOK
<1>5. stack' = [k \in 1..Len(stack) |-> stack'[k]]
  BY <1>1, <1>2
<1>6. stack' \in Seq(FrameType) /\ Len(stack') = Len(stack)
  BY <1>2, <1>4, <1>5
<1>7. StackOK(stack', features', elements, cursor)
  BY <1>3, <1>6 DEF StackOK
<1>8. QED
  BY <1>1, <1>7, QuietAnswers DEF IInv, Loops, features_remove

\* The elements that a loop is still to show stay where they are when one is added.
LEMMA AddStep ==
  ASSUME Loops, elements_add
  PROVE  IInv'
<1>1. PICK e \in Fid : elements' = Append(elements, e)
  BY DEF elements_add
<1>2. elements \in Seq(Fid) /\ Len(elements) \in Nat
  BY DEF Loops
<1>3. elements' \in Seq(Fid) /\ Len(elements') = Len(elements) + 1
  BY <1>1, <1>2
<1>4. \A k \in 1..Len(elements) : elements'[k] = elements[k]
  BY <1>1, <1>2
<1>5. ASSUME NEW k \in 1..Len(stack)
      PROVE  FrameOK(stack[k], features, elements', cursor)
  <2>1. PICK g \in FrameType : g = stack[k] /\ FeatureFrame(g, features, cursor) /\ ElementFrame(g, elements)
    BY DEF Loops, StackOK, FrameOK
  <2>2. ASSUME g.loop = "indexed", ~g.moved
        PROVE  g.n <= Len(elements') /\ \A m \in 1..g.n : elements'[m] = g.start[m]
    <3>1. g.n \in Nat /\ g.n <= Len(elements) /\ \A m \in 1..g.n : elements[m] = g.start[m]
      BY <2>1, <2>2 DEF ElementFrame, FrameType
    <3>2. \A m \in 1..g.n : m \in 1..Len(elements)
      BY <1>2, <3>1
    <3>3. g.n <= Len(elements')
      BY <1>2, <1>3, <3>1
    <3>4. QED
      BY <1>4, <3>1, <3>2, <3>3
  <2>3. ElementFrame(g, elements')
    BY <2>1, <2>2 DEF ElementFrame
  <2>4. QED
    BY <2>1, <2>3 DEF FrameOK
<1>6. StackOK(stack, features, elements', cursor)
  BY <1>5 DEF Loops, StackOK
<1>7. QED
  BY <1>3, <1>6, QuietAnswers DEF IInv, Loops, elements_add

\* A loop finds nothing where it was once elements are removed or reordered.
LEMMA ShuffleStep ==
  ASSUME Loops, elements_remove \/ elements_reorder
  PROVE  IInv'
<1>1. elements \in Seq(Fid) /\ Len(elements) \in Nat /\ DOMAIN elements = 1..Len(elements)
  BY DEF Loops
<1>2. elements' \in Seq(Fid)
  <2>1. ASSUME NEW k \in DOMAIN elements, elements' = RemoveAt(elements, k) PROVE elements' \in Seq(Fid)
    <3>1. SubSeq(elements, 1, k - 1) \in Seq(Fid)
      <4>1. PICK m \in Int : m = k - 1 /\ m <= Len(elements)
        BY <1>1, <2>1
      <4>2. \A j \in 1..m : elements[j] \in Fid
        BY <1>1, <4>1
      <4>3. SubSeq(elements, 1, m) \in Seq(Fid)
        BY <1>1, <4>1, <4>2
      <4>4. QED
        BY <4>1, <4>3
    <3>2. SubSeq(elements, k + 1, Len(elements)) \in Seq(Fid)
      <4>1. PICK m \in Nat : m = k + 1
        BY <1>1, <2>1
      <4>2. \A j \in m..Len(elements) : elements[j] \in Fid
        BY <1>1, <2>1, <4>1
      <4>3. SubSeq(elements, m, Len(elements)) \in Seq(Fid)
        BY <1>1, <4>1, <4>2
      <4>4. QED
        BY <4>1, <4>3
    <3>3. QED
      BY <2>1, <3>1, <3>2 DEF RemoveAt
  <2>2. ASSUME elements' = Reverse(elements) PROVE elements' \in Seq(Fid)
    <3>1. \A k \in 1..Len(elements) : elements[(Len(elements) - k) + 1] \in Fid
      BY <1>1
    <3>2. QED
      BY <1>1, <2>2, <3>1 DEF Reverse
  <2>3. QED
    BY <2>1, <2>2 DEF elements_remove, elements_reorder
<1>3. stack' = Disturb(stack, "indexed") /\ Quietly /\ UNCHANGED <<features, cursor>>
  BY DEF elements_remove, elements_reorder
<1>4. StackOK(Disturb(stack, "indexed"), features, elements', cursor)
  BY DisturbOK DEF Loops
<1>5. QED
  BY <1>2, <1>3, <1>4, QuietAnswers DEF IInv, Loops

\* A feature more takes nothing from a loop, which is not to show it.
LEMMA GrowStep ==
  ASSUME Loops, features_add
  PROVE  IInv'
<1>1. features \subseteq features' /\ features' \subseteq Fid
  BY DEF features_add, Loops
<1>2. ASSUME NEW k \in 1..Len(stack)
      PROVE  FrameOK(stack[k], features', elements, cursor)
  <2>1. FrameOK(stack[k], features, elements, cursor)
    BY DEF Loops, StackOK
  <2>2. QED
    BY <1>1, <2>1 DEF FrameOK, FeatureFrame
<1>3. StackOK(stack, features', elements, cursor)
  BY <1>2 DEF Loops, StackOK
<1>4. QED
  BY <1>1, <1>3, QuietAnswers DEF IInv, Loops, features_add

-------------------------------------------------------------------------------
(* gdal.open.                                                                  *)

\* What the loop over the names has after each round.
Rounds(drivers, acc) ==
  acc = [k \in 0..Len(drivers) |->
          IF k = 0 THEN [drivers |-> drivers, mode |-> "r", ds |-> 0, threw |-> FALSE]
          ELSE OpenWith(acc[k-1], k, drivers[k])]

\* The recursion of OpenList is one: if a function goes up to some round and none
\* goes to the next, that round is the first of those no function reaches.
LEMMA OpenListIs ==
  ASSUME NEW n \in Nat, NEW drivers, Len(drivers) = n
  PROVE  \E acc : /\ Rounds(drivers, acc)
                  /\ OpenList(drivers) = [acc[n] EXCEPT !.threw = @ \/ acc[n].ds = 0]
<1> DEFINE start == [drivers |-> drivers, mode |-> "r", ds |-> 0, threw |-> FALSE]
           Reaches(m, g) ==
             g = [k \in 0..m |-> IF k = 0 THEN start ELSE OpenWith(g[k-1], k, drivers[k])]
           Bad == {m \in 0..n : ~\E g : Reaches(m, g)}
<1>1. Bad = {}
  <2> SUFFICES ASSUME Bad # {} PROVE FALSE
    OBVIOUS
  <2>1. PICK m \in Bad : \A k \in Bad : m <= k
    <3>1. Bad \in SUBSET Nat
      OBVIOUS
    <3> HIDE DEF Bad
    <3>2. QED
      BY <3>1, LeastNatural
  <2>2. m # 0
    <3>1. Reaches(0, [k \in 0..0 |-> start])
      OBVIOUS
    <3>2. QED
      BY <3>1
  <2>3. PICK p \in 0..n : p = m - 1 /\ m = p + 1 /\ p < m
    BY <2>2
  <2>4. PICK g : Reaches(p, g)
    <3>1. p \notin Bad
      <4> HIDE DEF Bad
      <4>1. QED
        BY <2>1, <2>3
    <3> HIDE DEF Reaches
    <3>2. QED
      BY <3>1
  <2>5. PICK h : h = [k \in 0..m |-> IF k < m THEN g[k] ELSE OpenWith(g[p], m, drivers[m])]
    OBVIOUS
  <2>6. h[m] = OpenWith(h[m-1], m, drivers[m])
    BY <2>3, <2>5
  <2>7. ASSUME NEW k \in 0..p
        PROVE  h[k] = IF k = 0 THEN start ELSE OpenWith(h[k-1], k, drivers[k])
    <3>1. h[k] = g[k] /\ (k # 0 => h[k-1] = g[k-1])
      BY <2>3, <2>5
    <3>2. g[k] = IF k = 0 THEN start ELSE OpenWith(g[k-1], k, drivers[k])
      BY <2>4
    <3>3. QED
      BY <3>1, <3>2
  <2>8. \A k \in 0..m : k = m \/ k \in 0..p
    BY <2>3
  <2>9. \A k \in 0..m : h[k] = IF k = 0 THEN start ELSE OpenWith(h[k-1], k, drivers[k])
    BY <2>2, <2>6, <2>7, <2>8
  <2>10. Reaches(m, h)
    BY <2>5, <2>9
  <2>11. QED
    BY <2>10
<1>2. \E g : Reaches(n, g)
  <2>1. n \in 0..n
    OBVIOUS
  <2> HIDE DEF Reaches
  <2>2. QED
    BY <1>1, <2>1
<1>3. QED
  BY <1>2 DEF OpenList, Rounds

\* What holds after k rounds: an exception is an unknown name's, and what was opened
\* is the file, by a driver that opens it.
RoundOK(drivers, a, k) ==
  /\ a \in [drivers : {drivers}, mode : {"r"}, ds : 0..k, threw : BOOLEAN]
  /\ a.threw => \E j \in 1..k : drivers[j] = "unknown"
  /\ a.ds # 0 => drivers[a.ds] = "opens"
  /\ (~a.threw /\ a.ds = 0) => \A j \in 1..k : drivers[j] # "opens"

LEMMA RoundsOK ==
  ASSUME NEW n \in Nat, NEW drivers \in [1..n -> Driver], NEW acc, Len(drivers) = n,
         Rounds(drivers, acc)
  PROVE  \A k \in 0..n : RoundOK(drivers, acc[k], k)
<1> DEFINE Bad == {k \in 0..n : ~RoundOK(drivers, acc[k], k)}
<1> SUFFICES ASSUME Bad # {} PROVE FALSE
  OBVIOUS
<1>1. PICK m \in Bad : \A k \in Bad : m <= k
  <2>1. Bad \in SUBSET Nat
    OBVIOUS
  <2> HIDE DEF Bad
  <2>2. QED
    BY <2>1, LeastNatural
<1>2. m \in 0..n /\ ~RoundOK(drivers, acc[m], m) /\ \A k \in 0..n : k < m => RoundOK(drivers, acc[k], k)
  BY <1>1
<1>3. \A k \in 0..n : acc[k] = IF k = 0 THEN [drivers |-> drivers, mode |-> "r", ds |-> 0, threw |-> FALSE]
                                ELSE OpenWith(acc[k-1], k, drivers[k])
  BY DEF Rounds
<1> HIDE DEF Bad
<1>4. m # 0
  <2>1. RoundOK(drivers, acc[0], 0)
    <3>1. 0 \in 0..n
      OBVIOUS
    <3>2. acc[0] = [drivers |-> drivers, mode |-> "r", ds |-> 0, threw |-> FALSE]
      BY <1>3, <3>1
    <3>3. QED
      BY <3>2 DEF RoundOK
  <2>2. QED
    BY <1>2, <2>1
<1>5. PICK p \in 0..n : p = m - 1 /\ m \in 1..n /\ p < m
  BY <1>2, <1>4
<1>6. PICK a : a = acc[p] /\ RoundOK(drivers, a, p)
  BY <1>2, <1>5
<1>7. acc[m] = OpenWith(a, m, drivers[m]) /\ drivers[m] \in Driver
  BY <1>3, <1>4, <1>5, <1>6
<1>8. a \in [drivers : {drivers}, mode : {"r"}, ds : 0..m, threw : BOOLEAN]
  BY <1>5, <1>6 DEF RoundOK
<1>9. \A j \in 1..m : j = m \/ j \in 1..p
  BY <1>5
<1>10. \A j \in 1..p : j \in 1..m
  BY <1>5
<1>11. CASE a.threw
  <2>1. acc[m] = a
    BY <1>7, <1>11 DEF OpenWith
  <2>2. RoundOK(drivers, a, m)
    BY <1>6, <1>8, <1>10, <1>11 DEF RoundOK
  <2>3. QED
    BY <1>2, <2>1, <2>2
<1>12. CASE ~a.threw /\ drivers[m] = "unknown"
  <2>1. acc[m] = [a EXCEPT !.threw = TRUE]
    BY <1>7, <1>12 DEF OpenWith
  <2>2. acc[m] \in [drivers : {drivers}, mode : {"r"}, ds : 0..m, threw : BOOLEAN]
        /\ acc[m].ds = a.ds /\ acc[m].threw
    BY <1>8, <2>1
  <2>3. m \in 1..m
    BY <1>5
  <2>4. RoundOK(drivers, acc[m], m)
    BY <1>6, <1>12, <2>2, <2>3 DEF RoundOK
  <2>5. QED
    BY <1>2, <2>4
<1>13. CASE ~a.threw /\ drivers[m] = "opens"
  <2>1. acc[m] = [a EXCEPT !.ds = m]
    BY <1>7, <1>13 DEF OpenWith
  <2>2. acc[m] \in [drivers : {drivers}, mode : {"r"}, ds : 0..m, threw : BOOLEAN]
        /\ acc[m].ds = m /\ ~acc[m].threw
    BY <1>5, <1>8, <1>13, <2>1
  <2>3. RoundOK(drivers, acc[m], m)
    BY <1>5, <1>13, <2>2 DEF RoundOK
  <2>4. QED
    BY <1>2, <2>3
<1>14. CASE ~a.threw /\ drivers[m] = "fails"
  <2>1. acc[m] = a
    BY <1>7, <1>14 DEF OpenWith
  <2>2. RoundOK(drivers, a, m)
    BY <1>6, <1>8, <1>9, <1>14 DEF RoundOK
  <2>3. QED
    BY <1>2, <2>1, <2>2
<1>15. QED
  BY <1>7, <1>8, <1>11, <1>12, <1>13, <1>14 DEF Driver

LEMMA OthersStay ==
  ASSUME Loops, open, OpensIfOneDoes'
  PROVE  IInv'
<1>1. Loops'
  BY DEF Loops, open
<1>2. Answers'
  BY DEF open, None, Frame, Answers, EveryFeatureOnce, EveryElementOnce, FieldsShown
<1>3. QED
  BY <1>1, <1>2 DEF IInv

LEMMA OpenStep ==
  ASSUME Loops, open
  PROVE  IInv'
<1>1. PICK n \in 1..MaxDrivers : \E drivers \in [1..n -> Driver] :
        opened' \in {OpenList(drivers), Create(drivers)}
  BY DEF open
<1>2. PICK drivers \in [1..n -> Driver] : opened' \in {OpenList(drivers), Create(drivers)}
  BY <1>1
<1>3. n \in Nat \ {0} /\ drivers \in Seq(Driver) /\ Len(drivers) = n /\ DOMAIN drivers = 1..n
  BY FidFacts
<1>4. CASE opened' = OpenList(drivers)
  <2>1. PICK acc : /\ Rounds(drivers, acc)
                   /\ opened' = [acc[n] EXCEPT !.threw = @ \/ acc[n].ds = 0]
    BY <1>3, <1>4, OpenListIs
  <2>2. RoundOK(drivers, acc[n], n)
    BY <1>3, <2>1, RoundsOK
  <2>3. PICK last : last = acc[n] /\ RoundOK(drivers, last, n)
                    /\ opened' = [last EXCEPT !.threw = @ \/ last.ds = 0]
    BY <2>1, <2>2
  <2>4. /\ last \in [drivers : {drivers}, mode : {"r"}, ds : 0..n, threw : BOOLEAN]
        /\ opened'.drivers = drivers /\ opened'.ds = last.ds
        /\ opened'.threw <=> (last.threw \/ last.ds = 0)
    BY <2>3 DEF RoundOK
  <2>5. ASSUME opened'.threw PROVE OpensIfOneDoes'
    <3>1. CASE last.threw
      <4>1. PICK j \in 1..n : drivers[j] = "unknown"
        BY <2>3, <3>1 DEF RoundOK
      <4>2. "unknown" \in ToSet(drivers)
        BY <1>3, <4>1 DEF ToSet
      <4>3. QED
        BY <2>4, <2>5, <4>2 DEF OpensIfOneDoes
    <3>2. CASE ~last.threw
      <4>1. \A j \in 1..n : drivers[j] # "opens"
        BY <2>3, <2>4, <2>5, <3>2 DEF RoundOK
      <4>2. QED
        BY <1>3, <2>4, <2>5, <4>1 DEF OpensIfOneDoes
    <3>3. QED
      BY <3>1, <3>2
  <2>6. ASSUME ~opened'.threw PROVE OpensIfOneDoes'
    <3>1. drivers[last.ds] = "opens"
      BY <2>3, <2>4, <2>6 DEF RoundOK
    <3>2. QED
      BY <2>4, <2>6, <3>1 DEF OpensIfOneDoes
  <2>7. OpensIfOneDoes'
    BY <2>5, <2>6
  <2>8. QED
    BY <2>7, OthersStay
<1>5. CASE opened' = Create(drivers)
  <2>1. CASE n = 1 /\ drivers[1] = "opens"
    <3>1. opened' = [drivers |-> drivers, mode |-> "w", ds |-> 1, threw |-> FALSE]
      BY <1>3, <1>5, <2>1 DEF Create
    <3>2. opened'.threw = FALSE /\ opened'.drivers = drivers /\ opened'.ds = 1
      BY <3>1
    <3>3. OpensIfOneDoes'
      BY <2>1, <3>2 DEF OpensIfOneDoes
    <3>4. QED
      BY <3>3, OthersStay
  <2>2. CASE ~(n = 1 /\ drivers[1] = "opens")
    <3>1. opened' = [drivers |-> drivers, mode |-> "w", ds |-> 0, threw |-> TRUE]
      BY <1>3, <1>5, <2>2 DEF Create
    <3>2. n = 1 => \A k \in DOMAIN drivers : drivers[k] # "opens"
      BY <1>3, <2>2
    <3>3. opened'.threw = TRUE /\ opened'.drivers = drivers /\ opened'.mode = "w"
      BY <3>1
    <3>4. OpensIfOneDoes'
      BY <1>3, <3>2, <3>3 DEF OpensIfOneDoes
    <3>5. QED
      BY <3>4, OthersStay
  <2>3. QED
    BY <2>1, <2>2
<1>6. QED
  BY <1>2, <1>4, <1>5

-------------------------------------------------------------------------------
LEMMA InitOK == Init => IInv
<1> SUFFICES ASSUME Init PROVE IInv
  OBVIOUS
<1>1. stack = << >> /\ cursor = 1 /\ ended = None /\ opened = NotOpened
  BY DEF Init
<1>2. features \subseteq Fid
  BY DEF Init
<1>3. elements \in Seq(Fid)
  <2>1. CASE elements = << >>
    BY <2>1
  <2>2. ASSUME NEW m \in 0..MaxFid, elements = SubSeq([k \in Fid |-> k], 1, m)
        PROVE  elements \in Seq(Fid)
    <3>1. PICK s : s = [k \in Fid |-> k]
      OBVIOUS
    <3>2. s \in Seq(Fid) /\ Len(s) = MaxFid /\ m \in Nat /\ m <= MaxFid
      BY <3>1, FidFacts DEF Fid
    <3>3. \A k \in 1..m : s[k] \in Fid
      BY <3>2
    <3>4. SubSeq(s, 1, m) \in Seq(Fid)
      BY <3>2, <3>3
    <3>5. QED
      BY <2>2, <3>1, <3>4
  <2>3. QED
    BY <2>1, <2>2 DEF Init
<1>4. StackOK(stack, features, elements, cursor)
  BY <1>1 DEF StackOK
<1>5. 1 \in 1..(MaxFid + 1)
  BY FidFacts
<1>6. Loops
  BY <1>1, <1>2, <1>3, <1>4, <1>5 DEF Loops
<1>7. Answers /\ OpensIfOneDoes
  BY <1>1 DEF None, NotOpened, Frame, Answers, EveryFeatureOnce, EveryElementOnce,
              FieldsShown, OpensIfOneDoes
<1>8. QED
  BY <1>6, <1>7 DEF IInv

\* A loop over features starts with nothing shown and the cursor before all of them.
LEMMA StartFeatures ==
  ASSUME Loops, forEach_features
  PROVE  IInv'
<1>1. PICK g : g = Frame("features", << >>, features)
  OBVIOUS
<1>2. features \subseteq Fid /\ StackOK(stack, features, elements, cursor)
  BY DEF Loops
<1>3. /\ g = [loop |-> "features", i |-> 0, n |-> 0, seen |-> << >>, start |-> << >>,
             kept |-> features, moved |-> FALSE]
  BY <1>1 DEF Frame
<1>4. g \in FrameType /\ g.loop = "features" /\ g.seen = << >> /\ g.kept = features
  <2>1. << >> \in Seq(Fid) /\ features \in SUBSET Fid /\ "features" \in Loop
    BY <1>2 DEF Loop
  <2>2. QED
    BY <1>3, <2>1 DEF FrameType
<1>5. 1 \in 1..(MaxFid + 1) /\ \A f \in features : ~(f < 1)
  BY <1>2, FidFacts DEF Fid
<1>6. FeatureFrame(g, features, 1)
  BY <1>4, <1>5 DEF FeatureFrame, Ascending
<1>7. QED
  BY <1>1, <1>2, <1>4, <1>5, <1>6, FetchStep DEF forEach_features

LEMMA StartElements ==
  ASSUME Loops, NEW loop \in {"indexed", "fields"}, Ask(Frame(loop, elements, {}), stack)
  PROVE  IInv'
<1>1. PICK g : g = Frame(loop, elements, {})
  OBVIOUS
<1>2. elements \in Seq(Fid) /\ Len(elements) \in Nat /\ StackOK(stack, features, elements, cursor)
  BY DEF Loops
<1>3. g = [loop |-> loop, i |-> 0, n |-> Len(elements), seen |-> << >>, start |-> elements,
           kept |-> {}, moved |-> FALSE]
  BY <1>1 DEF Frame
<1>4. /\ g \in FrameType /\ g.loop = loop /\ g.i = 0 /\ g.n = Len(elements) /\ g.seen = << >>
      /\ g.start = elements /\ ~g.moved
  <2>1. << >> \in Seq(Fid) /\ {} \in SUBSET Fid /\ loop \in Loop
    BY DEF Loop
  <2>2. QED
    BY <1>2, <1>3, <2>1 DEF FrameType
<1>5. ElementFrame(g, elements)
  BY <1>2, <1>4 DEF ElementFrame
<1>6. FrameOK(g, features, elements, cursor)
  BY <1>4, <1>5 DEF FrameOK, FeatureFrame
<1>7. QED
  BY <1>1, <1>2, <1>4, <1>6, AskStep

LEMMA NextOK == IInv /\ [Next]_vars => IInv'
<1> SUFFICES ASSUME IInv, [Next]_vars PROVE IInv'
  OBVIOUS
<1>1. Loops /\ cursor \in 1..(MaxFid + 1) /\ features \subseteq Fid
      /\ StackOK(stack, features, elements, cursor)
  BY DEF IInv, Loops
<1>2. ASSUME InCallback
      PROVE  StackOK(Outer, features, elements, cursor) /\ FrameOK(Top, features, elements, cursor)
  BY <1>1, <1>2, PopOK
<1>3. CASE forEach_features
  BY <1>1, <1>3, StartFeatures
<1>4. CASE next_features
  BY <1>1, <1>2, <1>4, FetchStep DEF next_features, FrameOK
<1>5. CASE forEach_indexed
  BY <1>1, <1>5, StartElements DEF forEach_indexed
<1>6. CASE next_indexed
  BY <1>1, <1>2, <1>6, AskStep DEF next_indexed
<1>7. CASE Leave
  BY <1>1, <1>2, <1>7, QuietAnswers DEF Leave, IInv, Loops
<1>8. CASE features_first
  <2>1. 1 \in 1..(MaxFid + 1)
    BY FidFacts
  <2>2. After(1) \in 1..(MaxFid + 1)
    BY <1>1, <2>1, UnreadFacts
  <2>3. QED
    BY <1>1, <1>8, <2>2, MoveStep DEF features_first
<1>9. CASE features_next
  <2>1. After(cursor) \in 1..(MaxFid + 1)
    BY <1>1, UnreadFacts
  <2>2. QED
    BY <1>1, <1>9, <2>1, MoveStep DEF features_next
<1>10. CASE features_get
  <2>1. 1 \in 1..(MaxFid + 1)
    BY FidFacts
  <2>2. QED
    BY <1>1, <1>10, <2>1, MoveStep DEF features_get
<1>11. CASE features_add
  BY <1>1, <1>11, GrowStep
<1>12. CASE features_remove
  BY <1>1, <1>12, RemoveStep
<1>13. CASE elements_add
  BY <1>1, <1>13, AddStep
<1>14. CASE elements_remove \/ elements_reorder
  BY <1>1, <1>14, ShuffleStep
<1>15. CASE open
  BY <1>1, <1>15, OpenStep
<1>16. CASE UNCHANGED vars
  BY <1>16 DEF vars, IInv, Loops, Answers, EveryFeatureOnce, EveryElementOnce, FieldsShown,
               OpensIfOneDoes
<1>17. QED
  BY <1>3, <1>4, <1>5, <1>6, <1>7, <1>8, <1>9, <1>10, <1>11, <1>12, <1>13, <1>14, <1>15, <1>16
     DEF Next

-------------------------------------------------------------------------------
\* Whatever the callbacks do, every loop that runs has shown what it should have shown
\* by now, or was moved, and every loop that ended did.
THEOREM Invariance == Spec => []IInv
BY InitOK, NextOK, PTL DEF Spec

\* layer.features.forEach shows every feature that stays, once and in order, unless a
\* callback moves the cursor; whatever callbacks add and remove.
THEOREM EveryFeatureOnceHolds == Spec => []EveryFeatureOnce
BY Invariance, PTL DEF IInv, Answers

\* forEach of the other collections shows the elements there were, in order, unless a
\* callback removes or reorders some.
THEOREM EveryElementOnceHolds == Spec => []EveryElementOnce
BY Invariance, PTL DEF IInv, Answers

\* fields.forEach shows every field there was, whatever callbacks do: it walks a copy.
THEOREM FieldsAlwaysShown == Spec => []FieldsShown
BY Invariance, PTL DEF IInv, Answers

\* gdal.open with a list of drivers, however long: it answers a dataset that one of
\* them opened, and throws only if none does or a name is unknown.
THEOREM OpensIfOneDoesHolds == Spec => []OpensIfOneDoes
BY Invariance, PTL DEF IInv

-------------------------------------------------------------------------------
(* Loops run down.                                                             *)

\* What is left of a loop: elements, or feature ids that the cursor has not passed.
Left(frame, c) == IF frame.loop = "features" THEN (MaxFid + 1) - c ELSE frame.n - frame.i

\* No callback has moved the cursor under it.
Counted(frame) == frame.loop = "features" => ~frame.moved

Forward(g, f, d, c) == g.loop = f.loop /\ (Counted(g) => Counted(f) /\ Left(g, d) <= Left(f, c))
Nearer(g, f, d, c) == Counted(g) => Left(g, d) < Left(f, c)

\* A step brings no loop that runs further from its end, and one of its own steps
\* brings it nearer.
RunsDown ==
  \A k \in DOMAIN stack \cap DOMAIN stack' :
    /\ Forward(stack'[k], stack[k], cursor', cursor)
    /\ k = Len(stack) /\ (next_features \/ next_indexed)
         => Nearer(stack'[k], stack[k], cursor', cursor)

SomethingLeft == \A k \in DOMAIN stack : Left(stack[k], cursor) \in Nat

LEMMA SameForward ==
  ASSUME NEW f \in FrameType, NEW g, NEW c \in 1..(MaxFid + 1), NEW d \in 1..(MaxFid + 1),
         g.loop = f.loop, g.n = f.n, g.i = f.i, f.moved => g.moved,
         f.loop = "features" => g.moved \/ d = c
  PROVE  Forward(g, f, d, c)
<1>1. f.n \in Nat /\ f.i \in Nat
  BY DEF FrameType
<1>2. (MaxFid + 1) - c \in Int /\ f.n - f.i \in Int
  BY <1>1, FidFacts
<1>3. CASE f.loop = "features"
  BY <1>2, <1>3 DEF Forward, Counted, Left
<1>4. CASE f.loop # "features"
  BY <1>2, <1>4 DEF Forward, Counted, Left
<1> QED
  BY <1>3, <1>4

LEMMA DisturbForward ==
  ASSUME NEW frames \in Seq(FrameType), NEW loop, NEW k \in 1..Len(frames),
         NEW c \in 1..(MaxFid + 1), NEW d \in 1..(MaxFid + 1), loop = "features" \/ d = c
  PROVE  /\ Len(Disturb(frames, loop)) = Len(frames)
         /\ Forward(Disturb(frames, loop)[k], frames[k], d, c)
<1>1. Len(frames) \in Nat /\ DOMAIN frames = 1..Len(frames)
  OBVIOUS
<1>2. Len(Disturb(frames, loop)) = Len(frames)
  BY <1>1 DEF Disturb
<1>3. PICK f \in FrameType : f = frames[k]
  BY <1>1
<1>4. /\ Moved(f).moved /\ Moved(f).loop = f.loop /\ Moved(f).n = f.n /\ Moved(f).i = f.i
  BY DEF Moved, FrameType
<1>5. CASE f.loop = loop
  <2>1. Disturb(frames, loop)[k] = Moved(f)
    BY <1>1, <1>3, <1>5 DEF Disturb
  <2> QED
    BY <1>2, <1>3, <1>4, <2>1, SameForward
<1>6. CASE f.loop # loop
  <2>1. Disturb(frames, loop)[k] = f
    BY <1>1, <1>3, <1>6 DEF Disturb
  <2> QED
    BY <1>2, <1>3, <1>6, <2>1, SameForward
<1> QED
  BY <1>5, <1>6

LEMMA WaitingForward ==
  ASSUME NEW frames \in Seq(FrameType), NEW k \in 1..Len(frames),
         cursor \in 1..(MaxFid + 1), NEW d \in 1..(MaxFid + 1)
  PROVE  /\ Len(Waiting(frames, d)) = Len(frames)
         /\ Forward(Waiting(frames, d)[k], frames[k], d, cursor)
<1>1. CASE d = cursor
  BY <1>1, SameForward DEF Waiting
<1>2. CASE d # cursor
  BY <1>2, DisturbForward DEF Waiting
<1> QED
  BY <1>1, <1>2

\* A loop over features begins in a callback.
LEMMA BeginRunsDown ==
  ASSUME Loops, NEW c \in 1..(MaxFid + 1), NEW frame, Fetch(frame, stack, c),
         NEW k \in DOMAIN stack \cap DOMAIN stack'
  PROVE  Forward(stack'[k], stack[k], cursor', cursor)
<1>1. /\ stack \in Seq(FrameType) /\ k \in 1..Len(stack) /\ Len(stack) \in Nat
      /\ cursor \in 1..(MaxFid + 1)
  BY DEF Loops, StackOK
<1>2. cursor' = After(c) /\ After(c) \in 1..(MaxFid + 1)
  BY UnreadFacts DEF Fetch, Loops
<1>3. PICK w : w = Waiting(stack, After(c))
  OBVIOUS
<1>4. Len(w) = Len(stack) /\ Forward(w[k], stack[k], cursor', cursor)
  BY <1>1, <1>2, <1>3, WaitingForward
<1>5. w \in Seq(FrameType)
  BY <1>3, WaitingOK DEF StackOK, Loops
<1>6. stack' = w \/ \E g : stack' = Append(w, g)
  BY <1>3 DEF Fetch
<1>7. ASSUME NEW g PROVE Append(w, g)[k] = w[k]
  BY <1>1, <1>4, <1>5
<1> QED
  BY <1>4, <1>6, <1>7

LEMMA FetchRunsDown ==
  ASSUME Loops, InCallback, Top.loop = "features", Fetch(Top, Outer, cursor),
         NEW k \in DOMAIN stack \cap DOMAIN stack'
  PROVE  /\ Forward(stack'[k], stack[k], cursor', cursor)
         /\ k = Len(stack) => Nearer(stack'[k], stack[k], cursor', cursor)
<1>1. PICK n \in Nat : n = Len(stack) - 1 /\ n + 1 = Len(stack)
  <2>1. stack \in Seq(FrameType) /\ stack # << >> /\ Len(stack) \in Nat \ {0}
    BY DEF Loops, StackOK, InCallback
  <2> QED
    BY <2>1
<1>2. /\ stack \in Seq(FrameType) /\ cursor \in 1..(MaxFid + 1) /\ stack # << >>
      /\ Len(stack) \in Nat /\ k \in 1..(n + 1)
  BY <1>1 DEF Loops, StackOK, InCallback
<1>3. Outer \in Seq(FrameType) /\ Len(Outer) = n /\ \A j \in 1..n : Outer[j] = stack[j]
  BY <1>1, <1>2, FrontFacts DEF Outer
<1>4. cursor' = After(cursor) /\ After(cursor) \in 1..(MaxFid + 1)
  BY <1>2, UnreadFacts DEF Fetch, Loops
<1>5. PICK w : w = Waiting(Outer, After(cursor))
  OBVIOUS
<1>6. StackOK(Outer, features, elements, cursor)
  BY PopOK DEF Loops
<1>7. w \in Seq(FrameType) /\ Len(w) = n
  <2>1. w \in Seq(FrameType)
    BY <1>5, <1>6, WaitingOK DEF StackOK
  <2>2. Len(Disturb(Outer, "features")) = n
    BY <1>3 DEF Disturb
  <2> QED
    BY <1>3, <1>5, <2>1, <2>2 DEF Waiting
<1>8. ASSUME NEW j \in 1..n PROVE Forward(w[j], stack[j], cursor', cursor)
  BY <1>2, <1>3, <1>4, <1>5, WaitingForward
<1>9. CASE Unread(cursor) = {}
  <2>1. stack' = w
    BY <1>5, <1>9 DEF Fetch
  <2>2. k \in 1..n /\ k # Len(stack)
    BY <1>1, <1>7, <2>1
  <2> QED
    BY <1>8, <2>1, <2>2
<1>10. CASE Unread(cursor) # {}
  <2>1. PICK m \in Fid : m = Least(Unread(cursor)) /\ m >= cursor
    BY <1>2, <1>10, UnreadFacts, FidFacts DEF Loops, Unread
  <2>2. cursor' = m + 1
    BY <1>4, <1>10, <2>1 DEF After
  <2>3. PICK g : g = IF Top.moved \/ Len(Top.seen) > MaxFid THEN Top
                     ELSE [Top EXCEPT !.seen = Append(@, m)]
    OBVIOUS
  <2>4. stack' = Append(w, g)
    BY <1>5, <1>10, <2>1, <2>3 DEF Fetch
  <2>5. CASE k \in 1..n
    <3>1. stack'[k] = w[k] /\ k # Len(stack)
      BY <1>1, <1>7, <2>4, <2>5
    <3> QED
      BY <1>8, <2>5, <3>1
  <2>6. CASE k = n + 1
    <3>1. stack'[k] = g /\ stack[k] = Top
      BY <1>1, <1>7, <2>4, <2>6 DEF Top
    <3>2. Top \in FrameType
      BY <1>1, <1>2 DEF Top
    <3>3. g.loop = "features" /\ g.moved = Top.moved
      BY <2>3, <3>2 DEF FrameType
    <3>4. (MaxFid + 1) - (m + 1) < (MaxFid + 1) - cursor
      BY <1>2, <2>1, FidFacts
    <3>5. Left(g, cursor') < Left(Top, cursor) /\ Left(g, cursor') <= Left(Top, cursor)
      BY <1>2, <2>1, <2>2, <3>3, <3>4, FidFacts DEF Left
    <3> QED
      BY <3>1, <3>3, <3>5 DEF Forward, Nearer, Counted
  <2> QED
    BY <1>2, <2>5, <2>6
<1> QED
  BY <1>9, <1>10

LEMMA AskRunsDown ==
  ASSUME Loops, NEW frame, NEW outer, Ask(frame, outer), frame.loop # "features",
         \/ outer = stack
         \/ InCallback /\ outer = Outer /\ frame = Top,
         NEW k \in DOMAIN stack \cap DOMAIN stack'
  PROVE  /\ Forward(stack'[k], stack[k], cursor', cursor)
         /\ (k = Len(stack) /\ outer # stack) => Nearer(stack'[k], stack[k], cursor', cursor)
<1>1. /\ stack \in Seq(FrameType) /\ cursor \in 1..(MaxFid + 1) /\ cursor' = cursor
      /\ Len(stack) \in Nat /\ k \in 1..Len(stack)
  BY DEF Loops, StackOK, Ask
<1>2. Forward(stack[k], stack[k], cursor, cursor)
  BY <1>1, SameForward
<1>3. CASE outer = stack
  <2>1. stack' = stack \/ \E g : stack' = Append(stack, g)
    BY <1>3 DEF Ask, Call
  <2>2. stack'[k] = stack[k]
    BY <1>1, <2>1
  <2> QED
    BY <1>1, <1>2, <1>3, <2>2
<1>4. CASE InCallback /\ outer = Outer /\ frame = Top
  <2>1. PICK n \in Nat : n = Len(stack) - 1 /\ n + 1 = Len(stack)
    <3>1. stack # << >> /\ Len(stack) \in Nat \ {0}
      BY <1>1, <1>4 DEF InCallback
    <3> QED
      BY <3>1
  <2>2. Outer \in Seq(FrameType) /\ Len(Outer) = n /\ \A j \in 1..n : Outer[j] = stack[j]
    BY <1>1, <1>4, <2>1, FrontFacts DEF Outer, InCallback
  <2>3. CASE stack' = Outer
    <3>1. k \in 1..n /\ k # Len(stack) /\ stack'[k] = stack[k]
      BY <2>1, <2>2, <2>3
    <3> QED
      BY <1>1, <1>2, <3>1
  <2>4. CASE More(Top) /\ Call(Top, Outer, Element(Top))
    <3>1. PICK g : /\ g = IF Top.moved THEN [Top EXCEPT !.i = @ + 1]
                          ELSE [Top EXCEPT !.i = @ + 1, !.seen = Append(@, Element(Top))]
                   /\ stack' = Append(Outer, g)
      BY <2>4 DEF Call
    <3>2. CASE k \in 1..n
      <4>1. stack'[k] = stack[k] /\ k # Len(stack)
        BY <2>1, <2>2, <3>1, <3>2
      <4> QED
        BY <1>1, <1>2, <4>1
    <3>3. CASE k = n + 1
      <4>1. stack'[k] = g /\ stack[k] = Top
        BY <2>1, <2>2, <3>1, <3>3 DEF Top
      <4>2. Top \in FrameType /\ Top.loop # "features"
        BY <1>1, <1>4, <2>1 DEF Top
      <4>3. g.loop = Top.loop /\ g.n = Top.n /\ g.i = Top.i + 1
        BY <3>1, <4>2 DEF FrameType
      <4>4. Top.n \in Nat /\ Top.i \in Nat
        BY <4>2 DEF FrameType
      <4>5. Left(g, cursor) < Left(Top, cursor) /\ Left(g, cursor) <= Left(Top, cursor)
        BY <4>2, <4>3, <4>4 DEF Left
      <4> QED
        BY <1>1, <4>1, <4>2, <4>3, <4>5 DEF Forward, Nearer, Counted
    <3> QED
      BY <1>1, <2>1, <3>2, <3>3
  <2> QED
    BY <1>4, <2>3, <2>4 DEF Ask
<1> QED
  BY <1>3, <1>4

\* What the program does in a callback, or between loops.
LEMMA OthersRunDown ==
  ASSUME Loops, NEW k \in DOMAIN stack \cap DOMAIN stack',
         \/ \E d \in 1..(MaxFid + 1) : Move(d)
         \/ features_remove \/ elements_remove \/ elements_reorder \/ Leave
         \/ UNCHANGED <<stack, cursor>>
  PROVE  Forward(stack'[k], stack[k], cursor', cursor)
<1>1. /\ stack \in Seq(FrameType) /\ cursor \in 1..(MaxFid + 1)
      /\ Len(stack) \in Nat /\ k \in 1..Len(stack) /\ DOMAIN stack = 1..Len(stack)
  BY DEF Loops, StackOK
<1>2. CASE \E d \in 1..(MaxFid + 1) : Move(d)
  BY <1>1, <1>2, WaitingForward DEF Move
<1>3. CASE features_remove
  <2>1. PICK f \in features : stack'[k] = [stack[k] EXCEPT !.kept = @ \ {f}]
    BY <1>1, <1>3 DEF features_remove
  <2>2. PICK h \in FrameType : h = stack[k]
    BY <1>1
  <2>3. PICK g : g = [h EXCEPT !.kept = @ \ {f}]
    OBVIOUS
  <2>4. g.loop = h.loop /\ g.n = h.n /\ g.i = h.i /\ g.moved = h.moved
    BY <2>2, <2>3 DEF FrameType
  <2>5. Forward(g, h, cursor, cursor)
    BY <1>1, <2>2, <2>4, SameForward
  <2> QED
    BY <1>3, <2>1, <2>2, <2>3, <2>5 DEF features_remove
<1>4. CASE elements_remove \/ elements_reorder
  <2>1. stack' = Disturb(stack, "indexed") /\ cursor' = cursor
    BY <1>4 DEF elements_remove, elements_reorder
  <2> QED
    BY <1>1, <2>1, DisturbForward
<1>5. CASE Leave
  <2>1. PICK n \in Nat : n = Len(stack) - 1
    <3>1. stack # << >> /\ Len(stack) \in Nat \ {0}
      BY <1>1, <1>5 DEF Leave, InCallback
    <3> QED
      BY <3>1
  <2>2. Len(Outer) = n /\ \A j \in 1..n : Outer[j] = stack[j]
    BY <1>1, <1>5, <2>1, FrontFacts DEF Outer, Leave, InCallback
  <2>3. stack'[k] = stack[k] /\ cursor' = cursor
    <3>1. stack' = Outer /\ cursor' = cursor
      BY <1>5 DEF Leave
    <3>2. Outer \in Seq(FrameType)
      BY <1>5, PopOK DEF Loops, Leave, StackOK
    <3>3. k \in 1..n
      BY <2>2, <3>1, <3>2
    <3> QED
      BY <2>2, <3>1, <3>3
  <2> QED
    BY <1>1, <2>3, SameForward
<1>6. CASE UNCHANGED <<stack, cursor>>
  BY <1>1, <1>6, SameForward
<1> QED
  BY <1>2, <1>3, <1>4, <1>5, <1>6

\* No step brings a loop further from its end.
LEMMA StepForward ==
  ASSUME Loops, Next, NEW k \in DOMAIN stack \cap DOMAIN stack'
  PROVE  Forward(stack'[k], stack[k], cursor', cursor)
<1>1. cursor \in 1..(MaxFid + 1) /\ 1 \in 1..(MaxFid + 1) /\ features \subseteq Fid
  BY FidFacts DEF Loops
<1>2. After(1) \in 1..(MaxFid + 1) /\ After(cursor) \in 1..(MaxFid + 1)
  BY <1>1, UnreadFacts
<1>3. CASE forEach_features
  BY <1>1, <1>3, BeginRunsDown DEF forEach_features
<1>4. CASE next_features
  BY <1>4, FetchRunsDown DEF next_features
<1>5. CASE forEach_indexed
  <2>1. PICK loop \in {"indexed", "fields"} : Ask(Frame(loop, elements, {}), stack)
    BY <1>5 DEF forEach_indexed
  <2>2. Frame(loop, elements, {}).loop # "features"
    BY DEF Frame
  <2> QED
    BY <2>1, <2>2, AskRunsDown
<1>6. CASE next_indexed
  BY <1>6, AskRunsDown DEF next_indexed
<1>7. CASE features_first \/ features_next \/ features_get
  <2>1. \E d \in 1..(MaxFid + 1) : Move(d)
    BY <1>1, <1>2, <1>7 DEF features_first, features_next, features_get
  <2> QED
    BY <2>1, OthersRunDown
<1>8. CASE features_remove \/ elements_remove \/ elements_reorder \/ Leave
  BY <1>8, OthersRunDown
<1>9. CASE features_add \/ elements_add \/ open
  <2>1. UNCHANGED <<stack, cursor>>
    BY <1>9 DEF features_add, elements_add, open
  <2> QED
    BY <2>1, OthersRunDown
<1> QED
  BY <1>3, <1>4, <1>5, <1>6, <1>7, <1>8, <1>9 DEF Next

LEMMA NextRunsDown == IInv /\ [Next]_vars => RunsDown \/ UNCHANGED vars
<1> SUFFICES ASSUME IInv, Next PROVE RunsDown
  OBVIOUS
<1>1. Loops
  BY DEF IInv
<1>2. ASSUME NEW k \in DOMAIN stack \cap DOMAIN stack', k = Len(stack),
             next_features \/ next_indexed
      PROVE  Nearer(stack'[k], stack[k], cursor', cursor)
  <2>1. CASE next_features
    BY <1>1, <1>2, <2>1, FetchRunsDown DEF next_features
  <2>2. CASE next_indexed
    <3>1. InCallback /\ Ask(Top, Outer) /\ Top.loop # "features"
      BY <2>2 DEF next_indexed
    <3>2. Outer # stack
      <4>1. stack \in Seq(FrameType) /\ stack # << >> /\ Len(stack) \in Nat \ {0}
        BY <1>1, <3>1 DEF Loops, StackOK, InCallback
      <4>2. PICK l \in Nat \ {0} : l = Len(stack)
        BY <4>1
      <4>3. PICK n \in Nat : n = l - 1 /\ n # l
        BY <4>2
      <4>4. Len(Outer) = n
        BY <4>1, <4>2, <4>3, FrontFacts DEF Outer
      <4> QED
        BY <4>2, <4>3, <4>4
    <3> QED
      BY <1>1, <1>2, <3>1, <3>2, AskRunsDown
  <2> QED
    BY <1>2, <2>1, <2>2
<1>3. \A k \in DOMAIN stack \cap DOMAIN stack' : Forward(stack'[k], stack[k], cursor', cursor)
  BY <1>1, StepForward
<1> QED
  BY <1>2, <1>3 DEF RunsDown

LEMMA CountsDown == IInv => SomethingLeft
<1> SUFFICES ASSUME Loops, NEW k \in DOMAIN stack PROVE Left(stack[k], cursor) \in Nat
  BY DEF IInv, SomethingLeft
<1>1. cursor \in 1..(MaxFid + 1) /\ k \in 1..Len(stack)
  BY DEF Loops, StackOK
<1>2. PICK f \in FrameType : f = stack[k] /\ ElementFrame(f, elements)
  BY <1>1 DEF Loops, StackOK, FrameOK
<1>3. f.loop # "features" => f.n - f.i \in Nat
  <2>1. f.n \in Nat /\ f.i \in Nat
    BY <1>2 DEF FrameType
  <2> QED
    BY <1>2, <2>1 DEF ElementFrame
<1>4. (MaxFid + 1) - cursor \in Nat
  BY <1>1, FidFacts
<1> QED
  BY <1>2, <1>3, <1>4 DEF Left

\* Every loop of lib/gdal.js runs down, whatever callbacks do, other loops in them
\* included: each of its own steps leaves it fewer elements, or fewer ids before the
\* end of the layer, and no other step leaves it more, until a callback moves the
\* cursor.  So no loop calls back more often than that.
THEOREM LoopsRunDown == Spec => []SomethingLeft /\ [][RunsDown]_vars
<1>1. IInv /\ [Next]_vars => [RunsDown]_vars
  BY NextRunsDown
<1> QED
  BY <1>1, CountsDown, Invariance, PTL DEF Spec
===============================================================================
