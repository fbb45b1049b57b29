------------------------------ MODULE PixelsProofs ------------------------------
(***************************************************************************)
(* What Pixels promises, for ints of every width and buffers, spaces,      *)
(* blocks and arrays of every size.                                        *)
(***************************************************************************)
EXTENDS Pixels, TLAPS

PixelSize == {1, 2, 4, 8, 16}

-------------------------------------------------------------------------------
(* C arithmetic.                                                           *)

LEMMA ModRange ==
  ASSUME NEW a \in Int, NEW b \in Nat, b > 0
  PROVE  /\ a % b \in 0..(b - 1)
         /\ a \in 0..(b - 1) => a % b = a
  OBVIOUS

\* What is stored in an int is an int, and what fits in one is stored as it is.
LEMMA WrapRange == ASSUME NEW n \in Int PROVE Wrap(n) \in CInt
  BY ModRange, PixelsAssumption DEF Wrap, CInt

LEMMA WrapFits == ASSUME NEW n \in CInt PROVE Wrap(n) = n
  BY ModRange, PixelsAssumption DEF Wrap, CInt

LEMMA QuotientRange ==
  ASSUME NEW n \in CInt, NEW d \in PixelSize PROVE Quotient(n, d) \in CInt
  <1>1. CASE d = 1  BY <1>1, PixelsAssumption DEF Quotient, CInt
  <1>2. CASE d = 2  BY <1>2, PixelsAssumption DEF Quotient, CInt
  <1>3. CASE d = 4  BY <1>3, PixelsAssumption DEF Quotient, CInt
  <1>4. CASE d = 8  BY <1>4, PixelsAssumption DEF Quotient, CInt
  <1>5. CASE d = 16 BY <1>5, PixelsAssumption DEF Quotient, CInt
  <1> QED BY <1>1, <1>2, <1>3, <1>4, <1>5 DEF PixelSize

\* (n + d - 1) / d counts the pieces of d bytes that hold n bytes, and no more.
LEMMA QuotientUp ==
  ASSUME NEW n \in Int, NEW d \in PixelSize
  PROVE  /\ Quotient(n + d - 1, d) \in Int
         /\ n <= Quotient(n + d - 1, d) * d
         /\ n > 0 => (Quotient(n + d - 1, d) - 1) * d < n
  <1>1. CASE d = 1  BY <1>1 DEF Quotient
  <1>2. CASE d = 2  BY <1>2 DEF Quotient
  <1>3. CASE d = 4  BY <1>3 DEF Quotient
  <1>4. CASE d = 8  BY <1>4 DEF Quotient
  <1>5. CASE d = 16 BY <1>5 DEF Quotient
  <1> QED BY <1>1, <1>2, <1>3, <1>4, <1>5 DEF PixelSize

LEMMA QuotientGrows ==
  ASSUME NEW m \in Int, NEW n \in Int, NEW d \in PixelSize, m <= n
  PROVE  Quotient(m + d - 1, d) <= Quotient(n + d - 1, d)
  <1>1. CASE d = 1  BY <1>1 DEF Quotient
  <1>2. CASE d = 2  BY <1>2 DEF Quotient
  <1>3. CASE d = 4  BY <1>3 DEF Quotient
  <1>4. CASE d = 8  BY <1>4 DEF Quotient
  <1>5. CASE d = 16 BY <1>5 DEF Quotient
  <1> QED BY <1>1, <1>2, <1>3, <1>4, <1>5 DEF PixelSize

\* An array's length is what fits of its bytes.
LEMMA WholeElements ==
  ASSUME NEW b \in Nat, NEW d \in PixelSize
  PROVE  /\ b \div d \in Nat /\ b \div d <= b
         /\ (b \div d) * d <= b /\ b < (b \div d + 1) * d
  <1>1. CASE d = 1  BY <1>1
  <1>2. CASE d = 2  BY <1>2
  <1>3. CASE d = 4  BY <1>3
  <1>4. CASE d = 8  BY <1>4
  <1>5. CASE d = 16 BY <1>5
  <1> QED BY <1>1, <1>2, <1>3, <1>4, <1>5 DEF PixelSize

-------------------------------------------------------------------------------
(* The inductive invariant: what is known at each stage.                   *)

Raster == {"read", "write"}
InBlocks == {"readBlock", "writeBlock"}

\* The sizes are computed and the spaces are checked.
Ready == stage \in {"array", "validate", "io"} \/ outcome = "short"

Ended == (stage = "returned") <=> (outcome # "none")
Staged ==
  /\ stage \in {"spaces", "check", "sizes"} => op \in Raster
  /\ stage = "array" => op \in {"read", "readBlock"}
  /\ Ready => op \in Raster \cup InBlocks
Identified ==
  (stage \in {"spaces", "check", "sizes"} /\ type = "Unknown") => op = "read" /\ array = NoArray
Lined ==
  (op \in Raster /\ (Ready \/ stage \in {"check", "sizes"}) /\ ~wrapped) =>
    pixel_space * buffer_w \in CInt
Sized ==
  (op \in Raster /\ (Ready \/ (op = "write" /\ stage = "check"))) =>
    /\ bytes_per_pixel \in PixelSize
    /\ length = Elements(size) /\ min_length = Elements(min_size)
    /\ ~wrapped => ~Overflows
Spaced == (op \in Raster /\ (Ready \/ (op = "read" /\ stage = "sizes"))) => SpacesOK
Blocked ==
  (op \in InBlocks /\ Ready) =>
    /\ bytes_per_pixel \in PixelSize /\ buffer_w > 0 /\ buffer_h > 0
    /\ length = Wrap(buffer_w * buffer_h) /\ min_length = length
Owned ==
  made => /\ stage \in {"validate", "io", "returned"}
          /\ array = TypedArray_New(type, length)
Looked ==
  /\ stage = "io" => Valid /\ LongEnough
  /\ outcome = "short" => Valid /\ ~LongEnough

IInv ==
  /\ TypeOK /\ Ended /\ Staged /\ Identified /\ Lined /\ Sized /\ Spaced
  /\ Blocked /\ Owned /\ Looked /\ OnlyUnnamedCrashes

\* A pixel of a known type has bytes, one of an unknown type none.
LEMMA PixelBytes ==
  ASSUME NEW t \in Types
  PROVE  /\ Bytes[t] \in PixelSize \cup {0} /\ Bytes[t] \in Nat
         /\ t # "Unknown" <=> Bytes[t] \in PixelSize
  BY PixelsAssumption DEF PixelSize

LEMMA ElementsRange ==
  ASSUME NEW n \in CInt, bytes_per_pixel \in PixelSize
  PROVE  Elements(n) \in CInt
  <1>1. n + bytes_per_pixel - 1 \in Int
    BY PixelsAssumption DEF CInt, PixelSize
  <1> QED BY <1>1, WrapRange, QuotientRange DEF Elements

LEMMA ArraysTyped ==
  ASSUME NEW a \in Given
  PROVE  /\ a.type \in Types /\ a.bytes \in Nat
         /\ a.type = "Unknown" => a = NoArray
  <1>1. CASE a = NoArray
    BY <1>1, PixelsAssumption DEF NoArray, Types
  <1>2. ASSUME NEW t \in Plain, NEW n \in Counts, a = [type |-> t, bytes |-> n * Bytes[t]]
        PROVE  a.type \in Types /\ a.type # "Unknown" /\ a.bytes \in Nat
    <2>1. t \in Types /\ t # "Unknown" /\ n \in Nat
      BY PixelsAssumption DEF CInt
    <2>2. Bytes[t] \in Nat
      BY <2>1, PixelBytes
    <2> QED BY <1>2, <2>1, <2>2
  <1> QED BY <1>1, <1>2 DEF Given, Arrays

LEMMA NewTyped ==
  ASSUME NEW t \in Types, NEW n \in Int
  PROVE  TypedArray_New(t, n).type = t /\ TypedArray_New(t, n).bytes \in Nat
  <1>1. Bytes[t] \in Nat
    BY PixelBytes
  <1>2. Unsigned(n) \in Nat
    BY ModRange, PixelsAssumption DEF Unsigned
  <1>3. Unsigned(Unsigned(n) * 8 * Bytes[t]) \in Nat
    BY <1>1, <1>2, ModRange, PixelsAssumption DEF Unsigned
  <1> QED BY <1>3, WholeElements, 8 \in PixelSize DEF TypedArray_New, PixelSize

-------------------------------------------------------------------------------
(* Every step keeps it.                                                    *)

LEMMA InvInit == Init => IInv
  <1> SUFFICES ASSUME Init PROVE IInv
    OBVIOUS
  <1>1. 0 \in CInt /\ NoArray.type \in Types /\ NoArray.bytes \in Nat
    BY PixelsAssumption DEF CInt, NoArray
  <1>2. TypeOK
    BY <1>1, PixelsAssumption DEF Init, TypeOK, Op
  <1> QED BY <1>2 DEF Init, IInv, Ended, Staged, Identified, Lined, Sized, Spaced,
            Blocked, Owned, Looked, Ready, Raster, InBlocks, OnlyUnnamedCrashes

\* A call that begins has nothing computed.
LEMMA InvBegin == IInv /\ (read \/ write) => IInv'
  <1> SUFFICES ASSUME IInv, read \/ write PROVE IInv'
    OBVIOUS
  <1> USE DEF IInv
  <1>1. /\ op' \in Raster /\ stage = "idle" /\ outcome = "none"
        /\ UNCHANGED <<length, min_length, pixel_space, line_space, made, wrapped>>
        /\ buffer_w' \in CInt /\ buffer_h' \in CInt
        /\ type' \in Types /\ array'.type \in Types /\ array'.bytes \in Nat
        /\ type' = "Unknown" => array' = NoArray /\ (op' = "read" \/ stage' = "returned")
        /\ \/ stage' = "spaces" /\ outcome' = "none"
           \/ stage' = "returned" /\ outcome' = "invalid"
    BY ArraysTyped, PixelsAssumption
    DEF read, write, Begin, Stop, Go, Raster, Ended, NoArray, Types
  <1>2. TypeOK'
    BY <1>1 DEF TypeOK, Op, Raster
  <1>3. made' = FALSE
    BY <1>1 DEF Owned, TypeOK
  <1> QED BY <1>1, <1>2, <1>3
          DEF Ended, Staged, Identified, Lined, Sized, Spaced, Blocked, Owned, Looked,
              Ready, Raster, InBlocks, OnlyUnnamedCrashes

LEMMA InvBlock == IInv /\ (readBlock \/ writeBlock) => IInv'
  <1> SUFFICES ASSUME IInv, readBlock \/ writeBlock PROVE IInv'
    OBVIOUS
  <1> USE DEF IInv
  <1>1. /\ op' \in InBlocks /\ stage = "idle" /\ outcome = "none" /\ outcome' = "none"
        /\ UNCHANGED <<pixel_space, line_space, made, wrapped>>
        /\ type' \in Types \ {"Unknown"} /\ array'.type \in Types /\ array'.bytes \in Nat
        /\ stage' = "validate" \/ (stage' = "array" /\ op' = "readBlock")
    BY ArraysTyped, PixelsAssumption
    DEF readBlock, writeBlock, Block, Begin, Go, InBlocks, Ended, NoArray, Types
  <1>2. PICK b \in Blocks : /\ buffer_w' = b[1] /\ buffer_h' = b[2]
                           /\ length' = Wrap(b[1] * b[2]) /\ min_length' = length'
    BY DEF readBlock, writeBlock, Block
  <1>3. b[1] \in CInt /\ b[1] > 0 /\ b[2] \in CInt /\ b[2] > 0
    BY PixelsAssumption
  <1>4. length' \in CInt
    BY <1>2, <1>3, WrapRange DEF CInt
  <1>5. TypeOK'
    BY <1>1, <1>2, <1>3, <1>4 DEF TypeOK, Op, InBlocks
  <1>6. made' = FALSE
    BY <1>1 DEF Owned, TypeOK
  <1>7. bytes_per_pixel' \in PixelSize
    BY <1>1, PixelBytes DEF bytes_per_pixel
  <1> QED BY <1>1, <1>2, <1>3, <1>5, <1>6, <1>7
          DEF Ended, Staged, Identified, Lined, Sized, Spaced, Blocked, Owned, Looked,
              Ready, Raster, InBlocks, OnlyUnnamedCrashes

LEMMA InvSpaces == IInv /\ SetSpaces => IInv'
  <1> SUFFICES ASSUME IInv, SetSpaces PROVE IInv'
    OBVIOUS
  <1> USE DEF IInv, SetSpaces, Go
  <1>1. pixel_space' \in CInt
    BY PixelBytes, PixelsAssumption DEF bytes_per_pixel, TypeOK, CInt, PixelSize
  <1>2. line_space' \in CInt
    BY <1>1, WrapRange, PixelsAssumption DEF TypeOK, CInt
  <1>3. wrapped' \in BOOLEAN
    OBVIOUS
  <1>4. TypeOK'
    BY <1>1, <1>2, <1>3 DEF TypeOK
  <1>5. op \in Raster /\ outcome' = "none"
    BY DEF Staged, Ended, TypeOK
  <1>6. made' = FALSE
    BY DEF Owned, TypeOK
  <1>7. Lined'
    BY DEF Lined
  <1> QED BY <1>4, <1>5, <1>6, <1>7
          DEF Ended, Staged, Identified, Sized, Spaced, Blocked, Owned, Looked,
              Ready, Raster, InBlocks, OnlyUnnamedCrashes

LEMMA InvCheck == IInv /\ CheckSpaces => IInv'
  <1> SUFFICES ASSUME IInv, CheckSpaces PROVE IInv'
    OBVIOUS
  <1> USE DEF IInv, CheckSpaces, Go, Stop
  <1>1. TypeOK'
    BY DEF TypeOK
  <1>2. op \in Raster /\ outcome = "none" /\ made = FALSE
    BY DEF Staged, Ended, Owned, TypeOK
  <1>3. UNCHANGED <<bytes_per_pixel, size, min_size, Overflows, SpacesOK>>
        /\ Elements(size)' = Elements(size) /\ Elements(min_size)' = Elements(min_size)
    BY DEF bytes_per_pixel, size, min_size, Overflows, SpacesOK, Unpadded, Elements
  <1>4. CASE ~SpacesOK
    BY <1>1, <1>2, <1>4
    DEF Ended, Staged, Identified, Lined, Sized, Spaced, Blocked, Owned, Looked,
        Ready, Raster, InBlocks, OnlyUnnamedCrashes
  <1>5. CASE SpacesOK
    <2>1. stage' = IF op = "read" THEN "sizes" ELSE "validate"
      BY <1>5
    <2>2. outcome' = "none"
      BY <1>2, <1>5
    <2> QED BY <1>1, <1>2, <1>3, <1>5, <2>1, <2>2
            DEF Ended, Staged, Identified, Lined, Sized, Spaced, Blocked, Owned, Looked,
                Ready, Raster, InBlocks, OnlyUnnamedCrashes
  <1> QED BY <1>4, <1>5

LEMMA InvSizes == IInv /\ ComputeSizes => IInv'
  <1> SUFFICES ASSUME IInv, ComputeSizes PROVE IInv'
    OBVIOUS
  <1> USE DEF IInv, ComputeSizes, Go, Stop
  <1>1. op \in Raster /\ outcome = "none" /\ made = FALSE
    BY DEF Staged, Ended, Owned, TypeOK
  <1>2. CASE bytes_per_pixel = 0
    <2>1. type = "Unknown"
      BY <1>2, PixelBytes DEF TypeOK, bytes_per_pixel, PixelSize
    <2>2. op = "read" /\ array = NoArray
      BY <2>1 DEF Identified
    <2>3. TypeOK'
      BY <1>2 DEF TypeOK
    <2> QED BY <1>1, <1>2, <2>1, <2>2, <2>3
            DEF Ended, Staged, Identified, Lined, Sized, Spaced, Blocked, Owned, Looked,
                Ready, Raster, InBlocks, OnlyUnnamedCrashes
  <1>3. CASE bytes_per_pixel # 0
    <2>1. bytes_per_pixel \in PixelSize /\ bytes_per_pixel \in Int
      BY <1>3, PixelBytes DEF TypeOK, bytes_per_pixel
    <2>2. size \in CInt
      BY WrapRange DEF size, TypeOK, CInt
    <2>3. min_size \in CInt
      BY <2>1, <2>2, WrapRange DEF min_size, TypeOK, CInt
    <2>4. length' \in CInt /\ min_length' \in CInt
      BY <1>3, <2>1, <2>2, <2>3, ElementsRange
    <2>5. UNCHANGED <<bytes_per_pixel, size, min_size, SpacesOK>>
          /\ Elements(size)' = Elements(size) /\ Elements(min_size)' = Elements(min_size)
      BY DEF bytes_per_pixel, size, min_size, SpacesOK, Unpadded, Elements
    <2>6. Overflows' = Overflows
      BY DEF Overflows, size, min_size, bytes_per_pixel
    <2>7. /\ stage' \in {"check", "array", "validate"} /\ outcome' = "none"
          /\ stage' = "check" <=> op = "write"
          /\ stage' = "array" => op = "read"
      BY <1>1, <1>3 DEF Raster
    <2>8. wrapped' = (wrapped \/ Overflows)
      BY <1>3
    <2>9. TypeOK'
      BY <2>4, <2>7, <2>8 DEF TypeOK
    <2>10. Sized'
      BY <1>3, <2>1, <2>5, <2>6, <2>8 DEF Sized
    <2>11. Spaced' /\ Lined'
      BY <1>1, <2>5, <2>7, <2>8 DEF Spaced, Lined, Ready, Raster
    <2>12. type # "Unknown"
      BY <2>1, PixelBytes DEF TypeOK, bytes_per_pixel
    <2> QED BY <1>1, <2>7, <2>9, <2>10, <2>11, <2>12
            DEF Ended, Staged, Identified, Blocked, Owned, Looked,
                Ready, Raster, InBlocks, OnlyUnnamedCrashes
  <1> QED BY <1>2, <1>3

LEMMA InvMake == IInv /\ MakeArray => IInv'
  <1> SUFFICES ASSUME IInv, MakeArray PROVE IInv'
    OBVIOUS
  <1> USE DEF IInv, MakeArray, Go, Stop
  <1>1. op \in {"read", "readBlock"} /\ outcome = "none" /\ made = FALSE /\ Ready
    BY DEF Staged, Ended, Owned, TypeOK, Ready
  <1>2. UNCHANGED <<bytes_per_pixel, size, min_size, Overflows, SpacesOK>>
        /\ Elements(size)' = Elements(size) /\ Elements(min_size)' = Elements(min_size)
    BY DEF bytes_per_pixel, size, min_size, Overflows, SpacesOK, Unpadded, Elements
  <1>3. CASE stage' = "returned"
    <2>1. outcome' \in {"unsupported", "aborted"} /\ UNCHANGED <<array, made>>
      BY <1>3
    <2>2. TypeOK'
      BY <1>3, <2>1 DEF TypeOK
    <2> QED BY <1>1, <1>3, <2>1, <2>2
            DEF Ended, Staged, Identified, Lined, Sized, Spaced, Blocked, Owned, Looked,
                Ready, Raster, InBlocks, OnlyUnnamedCrashes
  <1>4. CASE stage' # "returned"
    <2>1. /\ stage' = "validate" /\ outcome' = "none" /\ made'
          /\ array' = TypedArray_New(type, length) /\ type \in Plain
      BY <1>1, <1>4
    <2>2. array'.type \in Types /\ array'.bytes \in Nat
      BY <2>1, NewTyped DEF TypeOK, CInt
    <2>3. TypeOK'
      BY <2>1, <2>2 DEF TypeOK
    <2>4. Owned'
      BY <2>1 DEF Owned, TypedArray_New
    <2> QED BY <1>1, <1>2, <2>1, <2>3, <2>4
            DEF Ended, Staged, Identified, Lined, Sized, Spaced, Blocked, Looked,
                Ready, Raster, InBlocks, OnlyUnnamedCrashes
  <1> QED BY <1>3, <1>4

LEMMA InvValidate == IInv /\ Validate => IInv'
  <1> SUFFICES ASSUME IInv, Validate PROVE IInv'
    OBVIOUS
  <1> USE DEF IInv, Validate, Go, Stop
  <1>1. outcome = "none" /\ Ready /\ op \in Raster \cup InBlocks
    BY DEF Staged, Ended, Ready
  <1>2. UNCHANGED <<bytes_per_pixel, size, min_size, Overflows, SpacesOK, Valid, LongEnough>>
        /\ Elements(size)' = Elements(size) /\ Elements(min_size)' = Elements(min_size)
    BY DEF bytes_per_pixel, size, min_size, Overflows, SpacesOK, Unpadded, Elements,
           Valid, LongEnough, ArrayLength
  <1>3. \/ stage' = "returned" /\ outcome' \in {"unsupported", "nothing"}
        \/ stage' = "returned" /\ outcome' = "short" /\ Valid /\ ~LongEnough
        \/ stage' = "io" /\ outcome' = "none" /\ Valid /\ LongEnough
    BY <1>1
  <1>4. TypeOK'
    BY <1>3 DEF TypeOK
  <1>5. Owned' /\ Looked'
    BY <1>2, <1>3 DEF Owned, Looked, TypedArray_New
  <1>6. Sized' /\ Spaced' /\ Lined'
    BY <1>1, <1>2, <1>3 DEF Sized, Spaced, Lined, Ready
  <1> QED BY <1>1, <1>2, <1>3, <1>4, <1>5, <1>6
          DEF Ended, Staged, Identified, Blocked, Ready, Raster, InBlocks, OnlyUnnamedCrashes

LEMMA InvRasterIO == IInv /\ RasterIO => IInv'
  <1> SUFFICES ASSUME IInv, RasterIO PROVE IInv'
    OBVIOUS
  <1> USE DEF IInv, RasterIO, Stop
  <1>1. stage' = "returned" /\ outcome' \in {"answered", "refused"}
    OBVIOUS
  <1>2. TypeOK'
    BY <1>1 DEF TypeOK
  <1> QED BY <1>1, <1>2
          DEF Ended, Staged, Identified, Lined, Sized, Spaced, Blocked, Owned, Looked,
              TypedArray_New, Ready, Raster, InBlocks, OnlyUnnamedCrashes

LEMMA InvFinish == IInv /\ Finish => IInv'
  <1> SUFFICES ASSUME IInv, Finish PROVE IInv'
    OBVIOUS
  <1> USE DEF IInv, Finish
  <1>1. 0 \in CInt /\ NoArray.type \in Types /\ NoArray.bytes \in Nat
    BY PixelsAssumption DEF CInt, NoArray
  <1>2. TypeOK'
    BY <1>1, PixelsAssumption DEF TypeOK, Op
  <1> QED BY <1>2
          DEF Ended, Staged, Identified, Lined, Sized, Spaced, Blocked, Owned, Looked,
              Ready, Raster, InBlocks, OnlyUnnamedCrashes

LEMMA InvStutter == IInv /\ UNCHANGED vars => IInv'
  BY DEF vars, IInv, TypeOK, Ended, Staged, Identified, Lined, Sized, Spaced, Blocked, Owned,
         Looked, Ready, OnlyUnnamedCrashes, bytes_per_pixel, size, min_size, Overflows,
         SpacesOK, Unpadded, Elements, Valid, LongEnough, ArrayLength, TypedArray_New

\* The invariant holds in every reachable state.
THEOREM Invariance == Spec => []IInv
  <1>1. IInv /\ [Next]_vars => IInv'
    BY InvBegin, InvBlock, InvSpaces, InvCheck, InvSizes, InvMake, InvValidate,
       InvRasterIO, InvFinish, InvStutter DEF Next, Stopped
  <1> QED BY <1>1, InvInit, PTL DEF Spec

-------------------------------------------------------------------------------
(* What it means for the calls.                                            *)

LEMMA WrapBelow == ASSUME NEW n \in Nat PROVE Wrap(n) <= n
  <1>1. ASSUME NEW a \in Nat, NEW b \in Nat, b > 0 PROVE a % b <= a
    BY <1>1
  <1>2. (n + Half) % (2 * Half) <= n + Half
    BY <1>1, PixelsAssumption
  <1> QED BY <1>2, ModRange, PixelsAssumption DEF Wrap

\* An array that passes Validate has min_length pixels.
LEMMA Held ==
  ASSUME TypeOK, LongEnough, bytes_per_pixel \in PixelSize
  PROVE  min_length * bytes_per_pixel <= array.bytes
  <1> DEFINE n == array.bytes \div bytes_per_pixel
  <1>1. n \in Nat /\ n * bytes_per_pixel <= array.bytes
    BY WholeElements DEF TypeOK
  <1>2. min_length <= n
    <2>1. Wrap(n) <= n /\ Wrap(n) \in Int
      BY <1>1, WrapBelow, WrapRange, PixelsAssumption DEF CInt
    <2> QED BY <1>1, <2>1 DEF LongEnough, ArrayLength, TypeOK, CInt
  <1>3. ASSUME NEW a \in Int, NEW b \in Int, NEW d \in PixelSize, a <= b
        PROVE  a * d <= b * d
    BY <1>3 DEF PixelSize
  <1>4. min_length * bytes_per_pixel <= n * bytes_per_pixel
    BY <1>1, <1>2, <1>3 DEF TypeOK, CInt
  <1> HIDE DEF n
  <1> QED BY <1>1, <1>4, bytes_per_pixel \in Int DEF TypeOK, CInt, PixelSize

\* What the four calls count, when no int wrapped.
LEMMA Counted ==
  ASSUME IInv, Ready, op \in Raster, ~wrapped
  PROVE  /\ bytes_per_pixel \in PixelSize
         /\ pixel_space >= bytes_per_pixel /\ line_space >= pixel_space * buffer_w
         /\ pixel_space * buffer_w \in Int /\ line_space * buffer_h \in Int
         /\ size = line_space * buffer_h
         /\ min_size = line_space * buffer_h - (pixel_space - bytes_per_pixel)
         /\ length = Quotient(size + bytes_per_pixel - 1, bytes_per_pixel)
         /\ min_length = Quotient(min_size + bytes_per_pixel - 1, bytes_per_pixel)
  <1>1. /\ bytes_per_pixel \in PixelSize
        /\ length = Elements(size) /\ min_length = Elements(min_size)
        /\ ~Overflows /\ SpacesOK /\ pixel_space * buffer_w \in CInt
    BY DEF IInv, Sized, Spaced, Lined
  <1>2. Wrap(pixel_space * buffer_w) = pixel_space * buffer_w
    BY <1>1, WrapFits
  <1>3. size = line_space * buffer_h
    BY <1>1, WrapFits DEF Overflows, size
  <1>4. min_size = size - (pixel_space - bytes_per_pixel)
    BY <1>1, WrapFits DEF Overflows, min_size
  <1>5. length = Quotient(size + bytes_per_pixel - 1, bytes_per_pixel)
    BY <1>1, WrapFits DEF Overflows, Elements
  <1>6. min_length = Quotient(min_size + bytes_per_pixel - 1, bytes_per_pixel)
    BY <1>1, WrapFits DEF Overflows, Elements
  <1>7. line_space * buffer_h \in Int /\ pixel_space * buffer_w \in Int
    BY DEF IInv, TypeOK, CInt
  <1> QED BY <1>1, <1>2, <1>3, <1>4, <1>5, <1>6, <1>7 DEF SpacesOK, Unpadded

\* The bytes from the first pixel to the last.
LEMMA Extent ==
  ASSUME NEW p \in Int, NEW l \in Int, NEW w \in Int, NEW h \in Int, NEW d \in Int
  PROVE  /\ l * (h - 1) + p * (w - 1) + d = l * h - l + p * w - p + d
         /\ (d * w) * (h - 1) + d * (w - 1) + d = (w * h) * d
  OBVIOUS

LEMMA InBoundsFromInv == IInv => InBounds
  <1> SUFFICES ASSUME IInv, stage = "io", Touches, ~wrapped PROVE LastByte <= array.bytes
    BY DEF InBounds
  <1>1. Ready /\ Valid /\ LongEnough /\ op \in Raster \cup InBlocks /\ TypeOK
    BY DEF IInv, Ready, Looked, Staged
  <1>2. CASE op \in Raster
    <2>1. LastByte = line_space * buffer_h - line_space
                       + pixel_space * buffer_w - pixel_space + bytes_per_pixel
      BY <1>1, <1>2, Counted, Extent DEF LastByte, LineSpace, PixelSpace, Raster, TypeOK, CInt, PixelSize
    <2>2. LastByte <= min_size /\ min_size \in Int /\ LastByte \in Int
      <3> DEFINE a == line_space * buffer_h
                 b == pixel_space * buffer_w
      <3>1. a \in Int /\ b \in Int /\ line_space >= b /\ bytes_per_pixel \in Int
            /\ min_size = a - (pixel_space - bytes_per_pixel)
        BY <1>1, <1>2, Counted DEF PixelSize
      <3>2. LastByte = a - line_space + b - pixel_space + bytes_per_pixel
        BY <2>1
      <3> HIDE DEF a, b
      <3> QED BY <1>1, <3>1, <3>2 DEF TypeOK, CInt
    <2>3. min_size <= min_length * bytes_per_pixel
      BY <1>1, <1>2, <2>2, Counted, QuotientUp
    <2>4. min_length * bytes_per_pixel <= array.bytes
      BY <1>1, <1>2, Counted, Held
    <2>5. min_length * bytes_per_pixel \in Int /\ array.bytes \in Int
      BY <1>1, <1>2, Counted DEF TypeOK, CInt, PixelSize
    <2> QED BY <2>2, <2>3, <2>4, <2>5
  <1>3. CASE op \in InBlocks
    <2>1. /\ bytes_per_pixel \in PixelSize /\ bytes_per_pixel \in Int
          /\ min_length = Wrap(buffer_w * buffer_h)
          /\ buffer_w \in Int /\ buffer_h \in Int
      BY <1>1, <1>3 DEF IInv, Blocked, PixelSize, TypeOK, CInt
    <2>2. LastByte = (buffer_w * buffer_h) * bytes_per_pixel
      <3>1. PixelSpace = bytes_per_pixel /\ LineSpace = bytes_per_pixel * buffer_w
        BY <1>3 DEF PixelSpace, LineSpace, InBlocks
      <3>2. LastByte = (bytes_per_pixel * buffer_w) * (buffer_h - 1)
                         + bytes_per_pixel * (buffer_w - 1) + bytes_per_pixel
        BY <3>1 DEF LastByte
      <3> QED BY <2>1, <3>2, Extent
    <2>3. buffer_w * buffer_h \in CInt
      <3>1. buffer_w * buffer_h * bytes_per_pixel \in CInt
        BY <1>3 DEF Touches, InBlocks
      <3>2. ASSUME NEW n \in Int, NEW d \in PixelSize, n * d \in CInt PROVE n \in CInt
        BY <3>2, PixelsAssumption DEF PixelSize, CInt
      <3> QED BY <2>1, <3>1, <3>2
    <2>4. min_length * bytes_per_pixel <= array.bytes
      BY <1>1, <2>1, Held
    <2> QED BY <2>1, <2>2, <2>3, <2>4, WrapFits
  <1> QED BY <1>1, <1>2, <1>3

\* Every byte RasterIO, ReadBlock and WriteBlock read or write lies in the array,
\* for ints of any width and any spaces, while no int wraps.
THEOREM InBoundsHolds == Spec => []InBounds
  BY Invariance, InBoundsFromInv, PTL

\* Only a read that makes its own array of a type unknown to GDAL divides by zero.
THEOREM OnlyUnnamedCrashesHolds == Spec => []OnlyUnnamedCrashes
  <1>1. IInv => OnlyUnnamedCrashes
    BY DEF IInv
  <1> QED BY <1>1, Invariance, PTL

-------------------------------------------------------------------------------
(* Whether an array is long enough, exactly.                               *)

\* An array that a call did not make is one of the program's.
Ours == made \/ array \in Given

LEMMA OursAlways == Spec => []Ours
  <1>1. Init => Ours
    BY DEF Init, Ours, Given
  <1>2. Ours /\ [Next]_vars => Ours'
    <2> SUFFICES ASSUME Ours, [Next]_vars PROVE Ours'
      OBVIOUS
    <2>1. CASE read \/ write
      BY <2>1 DEF Ours, Given, read, write, Begin
    <2>2. CASE readBlock \/ writeBlock
      BY <2>2 DEF Ours, Given, readBlock, writeBlock, Block, Begin
    <2>3. CASE SetSpaces \/ CheckSpaces \/ ComputeSizes \/ Validate \/ RasterIO \/ UNCHANGED vars
      BY <2>3 DEF Ours, Given, Arrays, SetSpaces, CheckSpaces, ComputeSizes, Validate, RasterIO, vars
    <2>4. CASE MakeArray
      BY <2>4 DEF Ours, Given, Arrays, MakeArray
    <2>5. CASE Finish
      BY <2>5 DEF Ours, Given, Finish
    <2> QED BY <2>1, <2>2, <2>3, <2>4, <2>5 DEF Next, Stopped
  <1> QED BY <1>1, <1>2, PTL DEF Spec

LEMMA Euclid ==
  ASSUME NEW a \in Nat, NEW b \in Nat, b > 0
  PROVE  a \div b \in Nat /\ a % b \in 0..(b - 1) /\ a = b * (a \div b) + (a % b)
  OBVIOUS

\* As many bits as pixels of d bytes have, as an unsigned int of bits keeps them,
\* are those of a number of pixels again.
LEMMA WholePixels ==
  ASSUME NEW n \in Nat, NEW d \in PixelSize
  PROVE  /\ \E m \in Nat : Unsigned(n * 8 * d) \div 8 = m * d /\ m < Half
         /\ n * 8 * d < 2 * Half => Unsigned(n * 8 * d) \div 8 = n * d
  <1>1. PICK q \in Nat : Half = 64 * q /\ q > 0
    <2>1. Half \in Nat /\ Half > 16 /\ Half % 64 = 0
      BY PixelsAssumption, WidthAssumption
    <2>2. Half = 64 * (Half \div 64) /\ Half \div 64 \in Nat
      BY <2>1
    <2>3. PICK q \in Nat : Half = 64 * q
      BY <2>2
    <2>4. q > 0
      BY <2>1, <2>3
    <2> QED BY <2>3, <2>4
  <1>2. PICK x \in Nat : x = n * 8 * d
    BY DEF PixelSize
  <1>3. PICK k \in Nat : x = (2 * Half) * k + Unsigned(x) /\ Unsigned(x) \in 0..(2 * Half - 1)
    <2>1. ASSUME NEW b \in Nat, b > 0
          PROVE  \E k \in Nat : x = b * k + (x % b) /\ x % b \in 0..(b - 1)
      BY <2>1, Euclid
    <2>2. 2 * Half \in Nat /\ 2 * Half > 0
      BY <1>1
    <2> QED BY <2>1, <2>2 DEF Unsigned
  <1>4. PICK u \in Nat : u = Unsigned(x) /\ x = (2 * Half) * k + u /\ u < 2 * Half
    BY <1>1, <1>3
  <1>5. PICK r \in Nat : r = q * k
    OBVIOUS
  <1>6. (2 * Half) * k = 128 * r
    BY <1>1, <1>5
  <1>7. n * 8 * d = 128 * r + u
    BY <1>2, <1>4, <1>6
  <1>8. \E m \in Nat : u = 8 * (m * d) /\ m <= u
    <2>1. CASE d = 1  BY <2>1, <1>7, n - 16 * r \in Nat
    <2>2. CASE d = 2  BY <2>2, <1>7, n - 8 * r \in Nat
    <2>3. CASE d = 4  BY <2>3, <1>7, n - 4 * r \in Nat
    <2>4. CASE d = 8  BY <2>4, <1>7, n - 2 * r \in Nat
    <2>5. CASE d = 16 BY <2>5, <1>7, n - r \in Nat
    <2> QED BY <2>1, <2>2, <2>3, <2>4, <2>5 DEF PixelSize
  <1>9. PICK m \in Nat : u = 8 * (m * d) /\ m <= u
    BY <1>8
  <1>10. m * d \in Nat /\ u \div 8 = m * d /\ m <= m * d
    <2>1. m * d \in Nat /\ m <= m * d
      BY DEF PixelSize
    <2>2. ASSUME NEW a \in Nat PROVE (8 * a) \div 8 = a
      OBVIOUS
    <2> QED BY <1>9, <2>1, <2>2
  <1>11. m < Half
    BY <1>1, <1>4, <1>9, <1>10
  <1>12. ASSUME x < 2 * Half PROVE u \div 8 = n * d
    <2>1. u = x
      BY <1>1, <1>2, <1>4, <1>12, ModRange DEF Unsigned
    <2>2. n * d \in Nat /\ x = 8 * (n * d)
      BY <1>2 DEF PixelSize
    <2>3. ASSUME NEW a \in Nat PROVE (8 * a) \div 8 = a
      OBVIOUS
    <2> QED BY <2>1, <2>2, <2>3
  <1> QED BY <1>2, <1>4, <1>10, <1>11, <1>12

\* An array of the right type is a number of pixels long, and that number is its length.
LEMMA ArrayWhole ==
  ASSUME IInv, Ours, Valid, bytes_per_pixel \in PixelSize
  PROVE  \E n \in Nat : n < Half /\ array.bytes = n * bytes_per_pixel /\ ArrayLength = n
  <1>1. ASSUME NEW n \in Nat, n < Half, array.bytes = n * bytes_per_pixel
        PROVE  ArrayLength = n
    <2>1. ASSUME NEW d \in PixelSize PROVE (n * d) \div d = n
      BY DEF PixelSize
    <2>2. n \in CInt
      BY <1>1, PixelsAssumption DEF CInt
    <2> QED BY <1>1, <2>1, <2>2, WrapFits DEF ArrayLength
  <1>2. CASE ~made
    <2>1. array # NoArray
      BY PixelsAssumption DEF Valid, NoArray
    <2>2. PICK t \in Plain, n \in Counts : array = [type |-> t, bytes |-> n * Bytes[t]]
      BY <1>2, <2>1 DEF Ours, Given, Arrays
    <2>3. n \in Nat /\ n < Half /\ array.bytes = n * bytes_per_pixel
      BY <2>2, PixelsAssumption DEF Valid, bytes_per_pixel, CInt
    <2> QED BY <1>1, <2>3
  <1>3. CASE made
    <2>1. array.bytes = Unsigned(Unsigned(length) * 8 * bytes_per_pixel) \div 8
      BY <1>3 DEF IInv, Owned, TypedArray_New, bytes_per_pixel
    <2>2. Unsigned(length) \in Nat
      BY ModRange, PixelsAssumption DEF Unsigned, IInv, TypeOK, CInt
    <2>3. PICK m \in Nat : array.bytes = m * bytes_per_pixel /\ m < Half
      BY <2>1, <2>2, WholePixels
    <2> QED BY <1>1, <2>3
  <1> QED BY <1>2, <1>3

\* No more pixels are asked for than the array is made with.
LEMMA AsksNoMore ==
  ASSUME IInv, Ready, ~wrapped
  PROVE  min_length <= length /\ bytes_per_pixel \in PixelSize /\ length \in CInt
  <1>1. length \in CInt /\ min_length \in CInt /\ op \in Raster \cup InBlocks
    BY DEF IInv, TypeOK, Staged
  <1>2. CASE op \in Raster
    <2>1. /\ bytes_per_pixel \in PixelSize /\ pixel_space >= bytes_per_pixel
          /\ min_size = line_space * buffer_h - (pixel_space - bytes_per_pixel)
          /\ size = line_space * buffer_h /\ line_space * buffer_h \in Int
          /\ length = Quotient(size + bytes_per_pixel - 1, bytes_per_pixel)
          /\ min_length = Quotient(min_size + bytes_per_pixel - 1, bytes_per_pixel)
      BY <1>2, Counted
    <2>2. pixel_space \in Int /\ bytes_per_pixel \in Int
      BY <2>1 DEF IInv, TypeOK, CInt, PixelSize
    <2>3. min_size \in Int /\ size \in Int /\ min_size <= size
      BY <2>1, <2>2
    <2> QED BY <1>1, <2>1, <2>3, QuotientGrows
  <1>3. CASE op \in InBlocks
    BY <1>1, <1>3 DEF IInv, Blocked, CInt
  <1> QED BY <1>1, <1>2, <1>3

LEMMA MadeFitsFromInv == IInv /\ Ours => MadeFits
  <1> SUFFICES ASSUME IInv, Ours, stage = "returned", outcome = "short", made, ~wrapped,
                      length * 8 * bytes_per_pixel < 2 * Half
               PROVE  FALSE
    <2>1. ASSUME IInv, Ready PROVE length * 8 * bytes_per_pixel \in Int
      BY <2>1, PixelBytes DEF IInv, TypeOK, CInt, bytes_per_pixel
    <2> QED BY <2>1, PixelsAssumption DEF MadeFits, Ready
  <1>1. Ready /\ Valid /\ ~LongEnough /\ op \in Raster \cup InBlocks
    BY DEF IInv, Ready, Looked, Staged
  <1>2. min_length <= length /\ bytes_per_pixel \in PixelSize /\ length \in CInt /\ min_length \in CInt
    BY <1>1, AsksNoMore DEF IInv, TypeOK
  <1>3. PICK n \in Nat : n < Half /\ array.bytes = n * bytes_per_pixel /\ ArrayLength = n
    BY <1>1, <1>2, ArrayWhole
  <1>4. n < min_length
    BY <1>1, <1>2, <1>3 DEF LongEnough, CInt
  <1>5. length \in Nat /\ length < 2 * Half
    BY <1>2, <1>4, PixelsAssumption DEF CInt
  <1>6. Unsigned(length) = length
    BY <1>5, ModRange, PixelsAssumption DEF Unsigned
  <1>7. array.bytes = Unsigned(length * 8 * bytes_per_pixel) \div 8
    BY <1>6 DEF IInv, Owned, TypedArray_New, bytes_per_pixel
  <1>8. array.bytes = length * bytes_per_pixel
    BY <1>2, <1>5, <1>7, WholePixels
  <1>9. ASSUME NEW a \in Nat, NEW b \in Nat, NEW d \in PixelSize, a * d = b * d PROVE a = b
    BY <1>9 DEF PixelSize
  <1>10. n = length
    BY <1>2, <1>3, <1>5, <1>8, <1>9
  <1> QED BY <1>2, <1>4, <1>5, <1>10 DEF CInt

LEMMA NoNeedlessRefusalFromInv == IInv /\ Ours => NoNeedlessRefusal
  <1> SUFFICES ASSUME IInv, Ours, stage = "returned", outcome = "short", ~wrapped, Touches,
                      LineSpace = PixelSpace * buffer_w
               PROVE  array.bytes < LastByte
    BY DEF NoNeedlessRefusal
  <1>1. Ready /\ Valid /\ ~LongEnough /\ op \in Raster \cup InBlocks
    BY DEF IInv, Ready, Looked, Staged
  <1>2. bytes_per_pixel \in PixelSize /\ min_length \in CInt
    BY <1>1, AsksNoMore DEF IInv, TypeOK
  <1>3. PICK n \in Nat : n < Half /\ array.bytes = n * bytes_per_pixel /\ ArrayLength = n
    BY <1>1, <1>2, ArrayWhole
  <1>4. n < min_length
    BY <1>1, <1>2, <1>3 DEF LongEnough, CInt
  <1>5. buffer_w \in Nat /\ buffer_w > 0 /\ buffer_h \in Nat /\ buffer_h > 0
    BY DEF Touches, IInv, TypeOK, CInt
  <1>6. ASSUME NEW a \in Int, NEW b \in Int, NEW d \in PixelSize, a <= b PROVE a * d <= b * d
    BY <1>6 DEF PixelSize
  <1>7. CASE op \in Raster
    <2>1. /\ pixel_space >= bytes_per_pixel
          /\ min_size = line_space * buffer_h - (pixel_space - bytes_per_pixel)
          /\ min_length = Quotient(min_size + bytes_per_pixel - 1, bytes_per_pixel)
          /\ line_space * buffer_h \in Int
      BY <1>1, <1>7, Counted
    <2>2. pixel_space \in Int /\ bytes_per_pixel \in Int /\ line_space \in Int /\ bytes_per_pixel > 0
      BY <1>2 DEF IInv, TypeOK, CInt, PixelSize
    <2>3. line_space = pixel_space * buffer_w /\ LineSpace = line_space /\ PixelSpace = pixel_space
      BY <1>7 DEF LineSpace, PixelSpace, Raster
    <2>4. LastByte = line_space * buffer_h - line_space
                       + pixel_space * buffer_w - pixel_space + bytes_per_pixel
      BY <1>5, <2>2, <2>3, Extent DEF LastByte
    <2>5. LastByte = min_size /\ min_size \in Int
      BY <2>1, <2>2, <2>3, <2>4
    <2>6. min_size > 0
      <3>1. ASSUME NEW a \in Nat, NEW b \in Nat PROVE a * b \in Nat
        OBVIOUS
      <3>2. line_space \in Nat /\ pixel_space \in Nat /\ buffer_h - 1 \in Nat /\ buffer_w - 1 \in Nat
        BY <1>5, <2>1, <2>2, <2>3, <3>1
      <3>3. line_space * (buffer_h - 1) \in Nat /\ pixel_space * (buffer_w - 1) \in Nat
        BY <3>1, <3>2
      <3> QED BY <2>2, <2>3, <2>5, <3>3 DEF LastByte
    <2>7. (min_length - 1) * bytes_per_pixel < min_size
      BY <1>2, <2>1, <2>5, <2>6, QuotientUp
    <2>8. n * bytes_per_pixel <= (min_length - 1) * bytes_per_pixel
      BY <1>2, <1>4, <1>6 DEF CInt
    <2>9. n * bytes_per_pixel \in Int /\ (min_length - 1) * bytes_per_pixel \in Int
      BY <1>2 DEF CInt, PixelSize
    <2> QED BY <1>3, <2>5, <2>7, <2>8, <2>9
  <1>8. CASE op \in InBlocks
    <2>1. min_length = Wrap(buffer_w * buffer_h) /\ bytes_per_pixel \in Int
      BY <1>1, <1>2, <1>8 DEF IInv, Blocked, PixelSize
    <2>2. buffer_w * buffer_h \in CInt
      <3>1. buffer_w * buffer_h * bytes_per_pixel \in CInt
        BY <1>8 DEF Touches, InBlocks
      <3>2. ASSUME NEW m \in Int, NEW d \in PixelSize, m * d \in CInt PROVE m \in CInt
        BY <3>2, PixelsAssumption DEF PixelSize, CInt
      <3> QED BY <1>2, <1>5, <3>1, <3>2
    <2>3. min_length = buffer_w * buffer_h
      BY <2>1, <2>2, WrapFits
    <2>4. LastByte = (buffer_w * buffer_h) * bytes_per_pixel
      <3>1. PixelSpace = bytes_per_pixel /\ LineSpace = bytes_per_pixel * buffer_w
        BY <1>8 DEF PixelSpace, LineSpace, InBlocks
      <3>2. LastByte = (bytes_per_pixel * buffer_w) * (buffer_h - 1)
                         + bytes_per_pixel * (buffer_w - 1) + bytes_per_pixel
        BY <3>1 DEF LastByte
      <3> QED BY <1>5, <2>1, <3>2, Extent
    <2>5. ASSUME NEW a \in Nat, NEW b \in Int, NEW d \in PixelSize, a < b PROVE a * d < b * d
      BY <2>5 DEF PixelSize
    <2> QED BY <1>2, <1>3, <1>4, <2>3, <2>4, <2>5 DEF CInt
  <1> QED BY <1>1, <1>7, <1>8

\* An array that read or readBlock made is refused only when its bits were more than an
\* unsigned int; until an int wraps, and in readBlock also when the pixels of the
\* block do.
THEOREM MadeFitsHolds == Spec => []MadeFits
  BY Invariance, OursAlways, MadeFitsFromInv, PTL

\* An array is refused only if GDAL would have gone beyond its end, where lines are not
\* padded: the length asked for is the least that suffices.
THEOREM NoNeedlessRefusalHolds == Spec => []NoNeedlessRefusal
  BY Invariance, OursAlways, NoNeedlessRefusalFromInv, PTL
===============================================================================
