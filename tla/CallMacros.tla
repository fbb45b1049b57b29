------------------------------ MODULE CallMacros ------------------------------
(***************************************************************************)
(* The words in which the calls of the binding are written.                *)
(*                                                                         *)
(* A handler is the set of paths a call of it can take; a path is the      *)
(* sequence of its steps, in the order the C++ takes them.  A step throws  *)
(* or not, and succeeds or not, when Calls takes it; a path only fixes     *)
(* what the arguments and the native data decide: how many elements an     *)
(* array has, which branch is taken.                                       *)
(*                                                                         *)
(*   int ... object      an argument of that type; with "?", an optional   *)
(*                       one (NODE_ARG macros)                              *)
(*   wrapped, wrapped?   a living Dataset, Layer, RasterBand or Feature    *)
(*   lasting, lasting?   a wrapper whose native object lasts as long as it *)
(*   alive               the argument is still alive                       *)
(*   self                the receiver is alive                             *)
(*   field, check        a field's name or index (ARG_FIELD_ID); a check   *)
(*                       of an argument's value                            *)
(*   key, key?           a property of an options object (NODE_*_FROM_OBJ) *)
(*   element, text       Nan::Get of a property or an element;             *)
(*                       Nan::Utf8String of a value that may be an object  *)
(*   read, write         a native call with no status: it changes nothing, *)
(*                       it may change the object                          *)
(*   ask, try            the same with a status, a NULL or an error code   *)
(*   fails               a native call whose failure this path follows     *)
(*   close               the receiver's native object is freed             *)
(*   err                 the status is looked at and, if bad, thrown       *)
(*   throw, ret          an exception is thrown; a value is answered       *)
(*   new, free, own      memory is allocated, is released, is handed to a  *)
(*                       wrapper (SrsCache: what becomes of an SRS there)  *)
(*   measure, rely       a length or a count is taken; memory or an index  *)
(*                       is used that is right only if it still holds      *)
(***************************************************************************)
EXTENDS Naturals, Sequences

Conversion == {"int", "double", "enum", "bool", "string", "array", "object"}
Optional == {"int?", "double?", "enum?", "bool?", "string?", "array?"}
Wrapper == {"wrapped", "wrapped?"}
Guard == Conversion \cup Optional \cup {"check", "lasting", "lasting?"}

\* Steps at which the program's own code may run: an accessor, a toString.
Program == {"key", "key?", "element", "text"}
Keyed == {"key", "key?"}

\* Steps that use the native object of the receiver or of an argument.
Reading == {"read", "ask", "fails", "field"}
Writing == {"write", "try", "close"}
Native == Reading \cup Writing

Step == Guard \cup Wrapper \cup Program \cup Native \cup
        {"self", "alive", "err", "throw", "ret",
         "new", "free", "own", "measure", "rely"}

-------------------------------------------------------------------------------
(* What the conversions take.  "integer" is a number that is an int32.     *)

Kind == {"absent", "undefined", "null", "boolean", "integer", "number",
         "string", "array", "object"}

ArgInt == {"integer", "number"}
ArgDouble == {"integer", "number"}
ArgEnum == {"integer"}
ArgBool == {"boolean"}
ArgString == {"string"}
ArgArray == {"array"}
ArgObject == {"array", "object"}
Nothing == {"absent", "undefined", "null"}
OptInt == Nothing \cup {"integer"}
OptDouble == Nothing \cup {"integer", "number"}
OptEnum == Nothing \cup {"integer"}
OptBool == Nothing \cup {"boolean"}
OptString == Nothing \cup {"string"}
OptArray == Nothing \cup {"array"}

Accepts(step) ==
  CASE step = "int" -> ArgInt        [] step = "int?" -> OptInt
    [] step = "double" -> ArgDouble  [] step = "double?" -> OptDouble
    [] step = "enum" -> ArgEnum      [] step = "enum?" -> OptEnum
    [] step = "bool" -> ArgBool      [] step = "bool?" -> OptBool
    [] step = "string" -> ArgString  [] step = "string?" -> OptString
    [] step = "array" -> ArgArray    [] step = "array?" -> OptArray
    [] step = "object" -> ArgObject

-------------------------------------------------------------------------------
(* Paths one after the other; a loop's body, as often as three times: a    *)
(* fourth round shows nothing new (RoundsKeepOrder in CallsProofs).        *)

A ++ B == {a \o b : a \in A, b \in B}
SomeTimes(body) == body \cup (body ++ body) \cup (body ++ body ++ body)
AnyTimes(body) == {<< >>} \cup SomeTimes(body)

-------------------------------------------------------------------------------
(* Handlers the macros write, and the shapes most hand-written ones have.  *)

\* What GDAL does in a call changes the object or fails; where it goes through
\* several things it may have changed some of them when it fails at the next.
Once == {<<"try">>}
Several == {<<"try">>, <<"write", "fails">>}

WrappedMethod == {<<"self", "write">>}
With1Double == {<<"double", "self", "write">>}
WithResult == {<<"self", "read", "ret">>}
WithResult1Wrapped(kind) == {<<kind, "self", "read", "ret">>}
WithResult1String == {<<"string", "self", "read", "ret">>}
WithCplErrResult1Integer == {<<"int", "self", "try", "err">>}
WithOgrErrResult(native) == {<<"self">>} ++ native ++ {<<"err">>}
WithOgrErrResult1Wrapped(kind, native) == {<<kind, "self">>} ++ native ++ {<<"err">>}
WithOgrErrResult1String == {<<"string", "self", "try", "err">>}

Getter == {<<"self", "read", "ret">>}
PlainGetter == {<<"read", "ret">>}
InternalConstructor == {<<"check", "ret">>, <<"check", "throw">>}

\* The flag or code GDAL answers with a value is not looked at.
Unlooked == {<<"ask", "ret">>}

\* A copy is made and wrapped, or null answered where there is nothing to copy.
Cloned == {<<"read", "new", "own", "ret">>}
ClonedOrNull == Cloned \cup {<<"read", "ret">>}

\* The binding has no class for a copied geometry's type: Geometry::New throws.
GeometryCopy == ClonedOrNull \cup {<<"read", "throw", "ret">>}

\* GDAL makes an object for its caller; the NULL it fails with is answered as null.
Made == {<<"read", "new", "own", "ret">>, <<"fails", "ret">>}
Factory(argument) == argument ++ {<<"new", "ask", "err", "own", "ret">>}

-------------------------------------------------------------------------------
(* Lists and typed arrays among the arguments.  A list that is neither an  *)
(* array nor null is refused, and the caller returns.                      *)

StringList_parse ==
  {<<"check">>}
  \cup {<<"measure">>} ++ SomeTimes({<<"element", "text", "rely">>})
  \cup {<<"measure">>} ++ SomeTimes({<<"text", "element", "text">>})
IntegerList_parse == {<<"check">>} \cup SomeTimes({<<"element", "check">>})
DoubleList_parse_rereads ==
  {<<"check">>} \cup {<<"measure">>} ++ SomeTimes({<<"element", "check", "rely">>})
DoubleList_parse == {<<"check">>} \cup SomeTimes({<<"element", "check">>})

TypedArray_New == {<<"check", "element", "element", "check">>}
TypedArray_Identify == {<<"element">>}
TypedArray_Validate == TypedArray_Identify ++ {<<"check">>}
===============================================================================
