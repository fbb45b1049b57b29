-------------------------------- MODULE Pixels --------------------------------
(***************************************************************************)
(* band.pixels.read, write, readBlock and writeBlock: how many elements an *)
(* array must have for GDAL to fill or read it, computed in C ints that    *)
(* wrap, and the array itself, given by the program or made for it.        *)
(*                                                                         *)
(* The order of conversions and checks is in RasterCalls; here are the     *)
(* numbers.  An argument left out has its default value, which is one of   *)
(* the values it may have.                                                 *)
(***************************************************************************)
EXTENDS Integers

CONSTANTS
  Half,       \* an int is in -Half..(Half-1), an unsigned int in 0..(2*Half-1)
  Bytes,      \* data type -> bytes of a pixel; "Unknown" has none
  Plain,      \* the data types that have a typed array
  Sizes,      \* widths and heights of buffers
  Spaces,     \* values of pixel_space and line_space
  Blocks,     \* sizes of a band's blocks
  Counts      \* lengths of the arrays a program has

Types == DOMAIN Bytes
CInt == (-Half)..(Half - 1)

ASSUME PixelsAssumption ==
  /\ Half \in Nat /\ Half > 16
  /\ "Unknown" \in Types /\ Plain \subseteq Types \ {"Unknown"}
  /\ \A t \in Types : Bytes[t] \in IF t = "Unknown" THEN {0} ELSE {1, 2, 4, 8, 16}
  /\ Sizes \subseteq CInt /\ Spaces \subseteq CInt
  /\ Blocks \subseteq (CInt \ {0}) \X (CInt \ {0}) /\ \A b \in Blocks : b[1] > 0 /\ b[2] > 0
  /\ Counts \subseteq CInt /\ \A n \in Counts : n >= 0

\* The unsigned int of bits wraps between bytes and between pixels: 2 * Half is a
\* multiple of the bits of the longest pixel.
ASSUME WidthAssumption == Half % 64 = 0

Op == {"none", "read", "write", "readBlock", "writeBlock"}
NoArray == [type |-> "Unknown", bytes |-> 0]

VARIABLES
  op, stage,         \* which call, and where it is
  outcome,           \* how it ended
  type,              \* GDALDataType of the buffer
  buffer_w, buffer_h, pixel_space, line_space,
  length, min_length,
  array, made,       \* the array, and whether the call made it
  wrapped            \* a size, a space or a length was more than an int

vars == <<op, stage, outcome, type, buffer_w, buffer_h, pixel_space, line_space,
          length, min_length, array, made, wrapped>>

-------------------------------------------------------------------------------
(* C arithmetic.                                                           *)

Wrap(n) == ((n + Half) % (2 * Half)) - Half
Unsigned(n) == n % (2 * Half)
Quotient(n, d) == IF n >= 0 THEN n \div d ELSE -((-n) \div d)

bytes_per_pixel == Bytes[type]

size == Wrap(line_space * buffer_h)
min_size_without_pixel == Wrap(size - pixel_space)
min_size == Wrap(size - (pixel_space - bytes_per_pixel))

\* (n + bytes_per_pixel - 1) / bytes_per_pixel
Elements(n) == Quotient(Wrap(n + bytes_per_pixel - 1), bytes_per_pixel)

Overflows ==
  \/ line_space * buffer_h \notin CInt
  \/ size - (pixel_space - bytes_per_pixel) \notin CInt
  \/ size + bytes_per_pixel - 1 \notin CInt
  \/ min_size + bytes_per_pixel - 1 \notin CInt

-------------------------------------------------------------------------------
(* The array.                                                              *)

\* A typed array the program has, with the _gdal_type that lib/gdal.js gives it;
\* or another object.
Arrays == {[type |-> t, bytes |-> n * Bytes[t]] : t \in Plain, n \in Counts}
Given == Arrays \cup {NoArray}

\* The byte count is computed in unsigned ints, from bits.
TypedArray_New_of_bytes(t, n) == [type |-> t, bytes |-> Unsigned(n)]
TypedArray_New(t, n) ==
  [type |-> t, bytes |-> Unsigned(Unsigned(n) * 8 * Bytes[t]) \div 8]

ArrayLength == Wrap(array.bytes \div bytes_per_pixel)
Valid == array.type = type /\ type \in Plain
LongEnough_strictly == ArrayLength > min_length
LongEnough == ArrayLength >= min_length

-------------------------------------------------------------------------------
Stop(how) == stage' = "returned" /\ outcome' = how
Go(to) == stage' = to /\ outcome' = outcome

Init ==
  /\ op = "none" /\ stage = "idle" /\ outcome = "none" /\ type = "Unknown"
  /\ buffer_w = 0 /\ buffer_h = 0 /\ pixel_space = 0 /\ line_space = 0
  /\ length = 0 /\ min_length = 0 /\ array = NoArray /\ made = FALSE /\ wrapped = FALSE

Begin(o) ==
  /\ stage = "idle" /\ op' = o
  /\ UNCHANGED <<pixel_space, line_space, made, wrapped>>

\* The type of the pixels is that of the array, else the one asked for, else the
\* band's: without an array it may be any, also one GDAL does not know.
read ==
  /\ Begin("read") /\ UNCHANGED <<length, min_length>>
  /\ buffer_w' \in Sizes /\ buffer_h' \in Sizes
  /\ \/ type' \in Types /\ array' = NoArray /\ Go("spaces")
     \/ /\ array' \in Given /\ type' = array'.type
        /\ IF type' = "Unknown" THEN Stop("invalid") ELSE Go("spaces")

write_unidentified ==
  /\ Begin("write") /\ UNCHANGED <<length, min_length>>
  /\ buffer_w' \in Sizes /\ buffer_h' \in Sizes
  /\ array' \in Given /\ type' = array'.type /\ Go("spaces")
write ==
  /\ Begin("write") /\ UNCHANGED <<length, min_length>>
  /\ buffer_w' \in Sizes /\ buffer_h' \in Sizes
  /\ array' \in Given /\ type' = array'.type
  /\ IF type' = "Unknown" THEN Stop("invalid") ELSE Go("spaces")

\* A block is given or taken whole, in the type of the band.
Block(o) ==
  /\ Begin(o) /\ type' \in Types \ {"Unknown"}
  /\ \E b \in Blocks :
       /\ buffer_w' = b[1] /\ buffer_h' = b[2]
       /\ length' = Wrap(b[1] * b[2]) /\ min_length' = Wrap(b[1] * b[2])

readBlock ==
  /\ Block("readBlock")
  /\ \/ array' = NoArray /\ Go("array")
     \/ array' \in Given /\ Go("validate")

writeBlock == Block("writeBlock") /\ array' \in Given /\ Go("validate")

-------------------------------------------------------------------------------
(* Spaces and sizes.  read checks the spaces before it computes sizes from *)
(* them, write after.                                                      *)

SetSpaces ==
  /\ stage = "spaces" /\ Go(IF op = "read" THEN "check" ELSE "sizes")
  /\ pixel_space' \in Spaces \cup {bytes_per_pixel}
  /\ line_space' \in Spaces \cup {Wrap(pixel_space' * buffer_w)}
  /\ wrapped' = (pixel_space' * buffer_w \notin CInt)
  /\ UNCHANGED <<op, type, buffer_w, buffer_h, length, min_length, array, made>>

Unpadded == pixel_space >= bytes_per_pixel
SpacesOK == Unpadded /\ line_space >= Wrap(pixel_space * buffer_w)

CheckSpaces ==
  /\ stage = "check"
  /\ IF SpacesOK THEN Go(IF op = "read" THEN "sizes" ELSE "validate") ELSE Stop("spaces")
  /\ UNCHANGED <<op, type, buffer_w, buffer_h, pixel_space, line_space,
                 length, min_length, array, made, wrapped>>

\* Without bytes there is nothing to divide by.
ComputeSizes ==
  /\ stage = "sizes"
  /\ IF bytes_per_pixel = 0
     THEN Stop("crashed") /\ UNCHANGED <<length, min_length, wrapped>>
     ELSE /\ Go(IF op = "write" THEN "check" ELSE IF array = NoArray THEN "array" ELSE "validate")
          /\ length' = Elements(size) /\ min_length' = Elements(min_size)
          /\ wrapped' = (wrapped \/ Overflows)
  /\ UNCHANGED <<op, type, buffer_w, buffer_h, pixel_space, line_space, array, made>>

\* new ArrayBuffer may throw, and ToLocalChecked ends the process then.
MakeArray ==
  /\ stage = "array"
  /\ \/ type \notin Plain /\ Stop("unsupported") /\ UNCHANGED <<array, made>>
     \/ type \in Plain /\ Stop("aborted") /\ UNCHANGED <<array, made>>
     \/ /\ type \in Plain /\ Go("validate")
        /\ array' = TypedArray_New(type, length) /\ made' = TRUE
  /\ UNCHANGED <<op, type, buffer_w, buffer_h, pixel_space, line_space,
                 length, min_length, wrapped>>

\* An array that is not the right type throws, and one that is too short; one
\* without bytes may have no address, and the call then returns as if it threw.
Validate ==
  /\ stage = "validate"
  /\ \/ ~Valid /\ Stop("unsupported")
     \/ Valid /\ ~LongEnough /\ Stop("short")
     \/ Valid /\ LongEnough /\ Go("io")
     \/ Valid /\ LongEnough /\ array.bytes = 0 /\ Stop("nothing")
  /\ UNCHANGED <<op, type, buffer_w, buffer_h, pixel_space, line_space,
                 length, min_length, array, made, wrapped>>

RasterIO ==
  /\ stage = "io" /\ (Stop("answered") \/ Stop("refused"))
  /\ UNCHANGED <<op, type, buffer_w, buffer_h, pixel_space, line_space,
                 length, min_length, array, made, wrapped>>

Finish ==
  /\ stage = "returned" /\ outcome \notin {"crashed", "aborted"}
  /\ op' = "none" /\ stage' = "idle" /\ outcome' = "none" /\ type' = "Unknown"
  /\ buffer_w' = 0 /\ buffer_h' = 0 /\ pixel_space' = 0 /\ line_space' = 0
  /\ length' = 0 /\ min_length' = 0 /\ array' = NoArray /\ made' = FALSE /\ wrapped' = FALSE

Stopped == outcome \in {"crashed", "aborted"} /\ UNCHANGED vars

Next ==
  \/ read \/ write \/ readBlock \/ writeBlock \/ SetSpaces \/ CheckSpaces
  \/ ComputeSizes \/ MakeArray \/ Validate \/ RasterIO \/ Finish \/ Stopped

Spec == Init /\ [][Next]_vars

-------------------------------------------------------------------------------
(* What GDAL does with the array.                                          *)

\* RasterIO is called with the spaces, ReadBlock and WriteBlock have none.
PixelSpace == IF op \in {"read", "write"} THEN pixel_space ELSE bytes_per_pixel
LineSpace == IF op \in {"read", "write"} THEN line_space ELSE bytes_per_pixel * buffer_w

\* RasterIO skips an empty buffer; InitBlockInfo refuses a block of more bytes
\* than an int.
Touches ==
  /\ buffer_w > 0 /\ buffer_h > 0
  /\ op \in {"readBlock", "writeBlock"} => buffer_w * buffer_h * bytes_per_pixel \in CInt

LastByte == LineSpace * (buffer_h - 1) + PixelSpace * (buffer_w - 1) + bytes_per_pixel

TypeOK ==
  /\ op \in Op /\ stage \in {"idle", "spaces", "check", "sizes", "array", "validate", "io", "returned"}
  /\ outcome \in {"none", "answered", "refused", "invalid", "spaces", "short", "unsupported",
                  "nothing", "crashed", "aborted"}
  /\ type \in Types
  /\ {buffer_w, buffer_h, pixel_space, line_space, length, min_length} \subseteq CInt
  /\ array.type \in Types /\ array.bytes \in Nat
  /\ made \in BOOLEAN /\ wrapped \in BOOLEAN

\* Every byte GDAL reads or writes is in the array (rasterband_pixels.cpp:243-262):
\* the last pixel of the last line ends where the array does or before, whatever
\* the spaces between pixels and lines, as long as no int wrapped; in the block
\* calls even then.
InBounds == (stage = "io" /\ Touches /\ ~wrapped) => LastByte <= array.bytes

\* An array that read or readBlock made itself is long enough for what it asks of
\* it (rasterband_pixels.cpp:245-257), until its bits are more than an unsigned
\* int (typed_array.cpp:40), in read as long as no int wrapped.
MadeFits ==
  (stage = "returned" /\ outcome = "short" /\ made /\ ~wrapped) =>
    length * 8 * bytes_per_pixel >= 2 * Half

\* No array that is big enough is refused (ValidateLength), but where the lines
\* are padded: the padding after the last line is asked for as well.
NoNeedlessRefusal ==
  ( /\ stage = "returned" /\ outcome = "short" /\ ~wrapped /\ Touches
    /\ LineSpace = PixelSpace * buffer_w ) => array.bytes < LastByte

\* Only a read that makes its own array, of a type whose name GDAL does not know,
\* divides by zero (rasterband_pixels.cpp:216, 245).
OnlyUnnamedCrashes ==
  outcome = "crashed" => op = "read" /\ array = NoArray /\ type = "Unknown"
===============================================================================
