---------------------------- MODULE ErrorStateProofs ----------------------------
(***************************************************************************)
(* The error handler is the program's between calls and comes back after   *)
(* each, however many errors of whatever kind GDAL raises in a call.       *)
(***************************************************************************)
EXTENDS ErrorState, TLAPS

\* Outside a statistics call the handler is the one chosen, inside the statistics
\* handler stands before it.
InPlace ==
  IF stage = "working" /\ call.name \in Statistics
  THEN handler = "statistics" /\ last_err_handler = chosen
  ELSE handler = chosen

\* The message kept is there as long as a failure was met, and is of this call as
\* soon as one was.
Kept ==
  /\ stats_file_err # "" => met
  /\ (call.name \in Statistics /\ \E class \in Class : <<class, "OpenFailed">> \in errors) =>
       stats_file_err # ""

IInv == TypeOK /\ InPlace /\ Kept /\ PrintedAsChosen /\ RefusedForAFile /\ OpenFailureThrown

LEMMA InvInit == Init => IInv
  <1> SUFFICES ASSUME Init PROVE IInv
    OBVIOUS
  <1>1. TypeOK
    BY DEF Init, TypeOK, Handler, Message, Class, Number
  <1> QED BY <1>1 DEF Init, IInv, InPlace, Kept, PrintedAsChosen, RefusedForAFile,
                      OpenFailureThrown, Statistics

LEMMA InvStep == IInv /\ [Next]_vars => IInv'
  <1> SUFFICES ASSUME IInv, [Next]_vars PROVE IInv'
    OBVIOUS
  <1> USE DEF IInv
  <1>1. CASE quiet \/ verbose
    BY <1>1 DEF quiet, verbose, Choose, TypeOK, InPlace, Kept, PrintedAsChosen,
                RefusedForAFile, OpenFailureThrown, Handler
  <1>2. CASE LastErrorSetter
    <2>1. lastError' \in [class : {"none"} \cup Class, message : Message]
      BY <1>2 DEF LastErrorSetter, Message
    <2>2. UNCHANGED <<handler, last_err_handler, stats_file_err, call, stage, chosen,
                      errors, printed, met, answer>>
      BY <1>2 DEF LastErrorSetter
    <2>3. TypeOK'
      BY <2>1, <2>2 DEF TypeOK
    <2> QED BY <2>2, <2>3 DEF InPlace, Kept, PrintedAsChosen, RefusedForAFile,
                              OpenFailureThrown
  <1>3. CASE NativeCall
    <2>1. TypeOK'
      BY <1>3 DEF NativeCall, Begin, Older, TypeOK, Message
    <2> QED BY <1>3, <2>1 DEF NativeCall, Begin, Older, TypeOK, InPlace, Kept, PrintedAsChosen,
                RefusedForAFile, OpenFailureThrown, Message, Statistics
  <1>4. CASE StatisticsCall
    <2>1. TypeOK'
      <3>1. call' \in [name : Statistics, force : BOOLEAN]
        BY <1>4 DEF StatisticsCall, Begin
      <3>2. lastError' \in [class : {"none"} \cup Class, message : Message]
        BY <1>4 DEF StatisticsCall, Begin, Older, TypeOK, Message
      <3>3. handler' = "statistics" /\ last_err_handler' = chosen
        BY <1>4 DEF StatisticsCall, pushStatsErrorHandler, Begin, InPlace
      <3> QED BY <1>4, <3>1, <3>2, <3>3
              DEF StatisticsCall, Begin, Older, TypeOK, Message, Handler
    <2>2. /\ call'.name \in Statistics /\ errors' = {} /\ printed' = {} /\ answer' = "none"
          /\ stage' = "working" /\ met' = met /\ chosen' = chosen
          /\ stats_file_err' = Older(stats_file_err)
      BY <1>4 DEF StatisticsCall, Begin
    <2>3. InPlace'
      BY <1>4, <2>2 DEF StatisticsCall, pushStatsErrorHandler, Begin, InPlace
    <2>4. Kept'
      BY <2>2 DEF Kept, Older
    <2> QED BY <2>1, <2>2, <2>3, <2>4 DEF PrintedAsChosen, RefusedForAFile, OpenFailureThrown
  <1>5. CASE CPLError
    <2>1. PICK class \in Class, number \in Number :
            /\ lastError' = [class |-> class, message |-> "now"]
            /\ errors' = errors \cup {<<class, number>>}
            /\ met' = (met \/ (call.name \in Statistics /\ number = "OpenFailed"))
            /\ IF handler = "statistics" THEN statisticsErrorHandler(class, number)
               ELSE /\ printed' = printed \cup IF Prints(handler) THEN {<<class, number>>} ELSE {}
                    /\ UNCHANGED stats_file_err
      BY <1>5 DEF CPLError
    <2>2. /\ stage = "working" /\ stage' = "working"
          /\ UNCHANGED <<handler, last_err_handler, call, chosen, answer>>
      BY <1>5 DEF CPLError
    <2>3. handler = "statistics" <=> call.name \in Statistics
      BY <2>2 DEF InPlace, TypeOK
    <2>4. PrintedAsChosen'
      BY <2>1, <2>2, <2>3
      DEF PrintedAsChosen, statisticsErrorHandler, Prints, InPlace, TypeOK
    <2>5. Kept'
      BY <2>1, <2>2, <2>3 DEF Kept, statisticsErrorHandler, Statistics
    <2>6. TypeOK'
      <3>1. lastError' \in [class : {"none"} \cup Class, message : Message]
        BY <2>1 DEF Message
      <3>2. errors' \subseteq Class \X Number /\ printed' \subseteq errors'
        BY <2>1, <2>2, <2>4 DEF TypeOK, PrintedAsChosen
      <3>3. stats_file_err' \in Message /\ met' \in BOOLEAN
        BY <2>1 DEF TypeOK, statisticsErrorHandler, Message
      <3> QED BY <2>2, <3>1, <3>2, <3>3 DEF TypeOK
    <2>7. InPlace' /\ RefusedForAFile' /\ OpenFailureThrown'
      BY <2>1, <2>2 DEF InPlace, RefusedForAFile, OpenFailureThrown
    <2> QED BY <2>4, <2>5, <2>6, <2>7
  <1>6. CASE StatisticsReturn
    BY <1>6 DEF StatisticsReturn, popStatsErrorHandler, StatsAnswer, ReturnCode, TypeOK, InPlace,
                Kept, PrintedAsChosen, RefusedForAFile, OpenFailureThrown, Handler
  <1>7. CASE NativeReturn
    BY <1>7 DEF NativeReturn, ReturnCode, TypeOK, InPlace, Kept, PrintedAsChosen,
                RefusedForAFile, OpenFailureThrown, Statistics
  <1>8. CASE UNCHANGED vars
    <2>1. TypeOK'
      BY <1>8 DEF vars, TypeOK
    <2>2. InPlace' /\ Kept'
      BY <1>8 DEF vars, InPlace, Kept
    <2> QED BY <1>8, <2>1, <2>2 DEF vars, PrintedAsChosen, RefusedForAFile, OpenFailureThrown
  <1> QED BY <1>1, <1>2, <1>3, <1>4, <1>5, <1>6, <1>7, <1>8 DEF Next

LEMMA Invariance == Spec => []IInv
  BY InvInit, InvStep, PTL DEF Spec

\* Errors are printed as the program chose, in every call and after any number.
THEOREM PrintedAsChosenHolds == Spec => []PrintedAsChosen
  <1>1. IInv => PrintedAsChosen
    BY DEF IInv
  <1> QED BY <1>1, Invariance, PTL

\* Only a file that did not open in a statistics call makes one throw its message.
THEOREM RefusedForAFileHolds == Spec => []RefusedForAFile
  <1>1. IInv => RefusedForAFile
    BY DEF IInv
  <1> QED BY <1>1, Invariance, PTL

\* A file that does not open is never passed over by a statistics call.
THEOREM OpenFailureThrownHolds == Spec => []OpenFailureThrown
  <1>1. IInv => OpenFailureThrown
    BY DEF IInv
  <1> QED BY <1>1, Invariance, PTL
===============================================================================
