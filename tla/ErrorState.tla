------------------------------- MODULE ErrorState -------------------------------
(***************************************************************************)
(* What the binding and GDAL keep about errors from one call to the next:  *)
(* GDAL's error handler and last error, which are global, and the handler  *)
(* that getStatistics and computeStatistics put in its place while GDAL    *)
(* reads a band.  GDAL may raise any number of errors in a call, and may   *)
(* yet say that the call went well, as it does where a file of a VRT does  *)
(* not open.                                                               *)
(*                                                                         *)
(* A message is told by the call it comes from: this one, or an earlier.   *)
(***************************************************************************)
EXTENDS Naturals

VARIABLES
  handler,           \* GDAL's error handler
  last_err_handler,  \* the one the statistics handler passes errors on to
  stats_file_err,    \* the message of the last file that did not open
  lastError,         \* GDAL's last error: its class, and its message
  call,              \* the call that runs, and whether it was told to force
  stage,             \* where it is
  chosen,            \* the program's last word: quiet or verbose
  errors,            \* what GDAL raised in this call
  printed,           \* what was printed of it
  met,               \* a statistics call has ever met a file that did not open
  answer             \* how the last call ended

vars == <<handler, last_err_handler, stats_file_err, lastError, call, stage,
          chosen, errors, printed, met, answer>>

Statistics == {"getStatistics", "computeStatistics"}
Handler == {"quiet", "default", "statistics"}
Class == {"warning", "failure"}
Number == {"OpenFailed", "other"}
Message == {"", "earlier", "now"}

Older(message) == IF message = "" THEN "" ELSE "earlier"

-------------------------------------------------------------------------------
\* lib/gdal.js calls gdal.quiet() when it is loaded.
Init ==
  /\ handler = "quiet" /\ last_err_handler = "none" /\ stats_file_err = ""
  /\ lastError = [class |-> "none", message |-> ""]
  /\ call = [name |-> "none", force |-> FALSE] /\ stage = "idle"
  /\ chosen = "quiet" /\ errors = {} /\ printed = {}
  /\ met = FALSE /\ answer = "none"

Choose(h) ==
  /\ stage = "idle" /\ handler' = h /\ chosen' = h
  /\ UNCHANGED <<last_err_handler, stats_file_err, lastError, call, stage, errors,
                 printed, met, answer>>
quiet == Choose("quiet")
verbose == Choose("default")

LastErrorSetter ==
  /\ stage = "idle" /\ lastError' = [class |-> "none", message |-> ""]
  /\ UNCHANGED <<handler, last_err_handler, stats_file_err, call, stage, chosen,
                 errors, printed, met, answer>>

\* A call begins; what is known of errors is from earlier calls.
Begin(name, force) ==
  /\ stage = "idle" /\ call' = [name |-> name, force |-> force]
  /\ lastError' = [lastError EXCEPT !.message = Older(@)]
  /\ stats_file_err' = Older(stats_file_err)
  /\ errors' = {} /\ printed' = {} /\ answer' = "none"
  /\ UNCHANGED <<chosen, met>>

NativeCall ==
  /\ Begin("other", FALSE) /\ stage' = "working"
  /\ UNCHANGED <<handler, last_err_handler>>

pushStatsErrorHandler == handler' = "statistics" /\ last_err_handler' = handler

StatisticsCall ==
  /\ \E name \in Statistics, force \in BOOLEAN :
       (name = "computeStatistics" => force) /\ Begin(name, force)
  /\ pushStatsErrorHandler /\ stage' = "working"

-------------------------------------------------------------------------------
\* The handler that has the last word prints an error or not.
Prints(h) == h = "default"

statisticsErrorHandler_alone(class, number) ==
  /\ stats_file_err' = IF number = "OpenFailed" THEN "now" ELSE stats_file_err
  /\ printed' = printed
statisticsErrorHandler(class, number) ==
  /\ stats_file_err' = IF number = "OpenFailed" THEN "now" ELSE stats_file_err
  /\ printed' = printed \cup IF Prints(last_err_handler) THEN {<<class, number>>} ELSE {}

CPLError ==
  /\ stage = "working"
  /\ \E class \in Class, number \in Number :
       /\ lastError' = [class |-> class, message |-> "now"]
       /\ errors' = errors \cup {<<class, number>>}
       /\ met' = (met \/ (call.name \in Statistics /\ number = "OpenFailed"))
       /\ IF handler = "statistics" THEN statisticsErrorHandler(class, number)
          ELSE /\ printed' = printed \cup IF Prints(handler) THEN {<<class, number>>} ELSE {}
               /\ UNCHANGED stats_file_err
  /\ UNCHANGED <<handler, last_err_handler, call, stage, chosen, answer>>

popStatsErrorHandler_never == handler' = handler
popStatsErrorHandler ==
  handler' = IF last_err_handler = "none" THEN handler ELSE last_err_handler

\* GDAL returns, with a code that need not tell what it raised.
ReturnCode == {"CE_None", "CE_Warning", "CE_Failure"}

StatsAnswer_by_code(err) == IF err = "CE_None" THEN "result" ELSE "error"
StatsAnswer(err) ==
  IF stats_file_err # "" THEN "file"
  ELSE IF err = "CE_None" THEN "result"
  ELSE IF call.name = "getStatistics" /\ ~call.force /\ err = "CE_Warning" THEN "scan"
  ELSE "error"

StatisticsReturn ==
  /\ stage = "working" /\ call.name \in Statistics /\ stage' = "idle"
  /\ popStatsErrorHandler
  /\ \E err \in ReturnCode : answer' = StatsAnswer(err)
  /\ UNCHANGED <<last_err_handler, stats_file_err, lastError, call, chosen, errors,
                 printed, met>>

\* NODE_THROW_CPLERR throws GDAL's last message.
NativeReturn ==
  /\ stage = "working" /\ call.name = "other" /\ stage' = "idle"
  /\ \E err \in ReturnCode : answer' = IF err = "CE_None" THEN "result" ELSE "error"
  /\ UNCHANGED <<handler, last_err_handler, stats_file_err, lastError, call, chosen,
                 errors, printed, met>>

Next ==
  \/ quiet \/ verbose \/ LastErrorSetter \/ NativeCall \/ StatisticsCall
  \/ CPLError \/ StatisticsReturn \/ NativeReturn

Spec == Init /\ [][Next]_vars

-------------------------------------------------------------------------------
TypeOK ==
  /\ handler \in Handler /\ last_err_handler \in {"none", "quiet", "default"}
  /\ stats_file_err \in Message
  /\ lastError \in [class : {"none"} \cup Class, message : Message]
  /\ stage \in {"idle", "working"} /\ chosen \in {"quiet", "default"}
  /\ call \in [name : {"none", "other"} \cup Statistics, force : BOOLEAN]
  /\ errors \subseteq Class \X Number /\ printed \subseteq errors
  /\ met \in BOOLEAN
  /\ answer \in {"none", "result", "error", "file", "scan"}

\* Errors are printed when the program asked for it and only then, during a
\* statistics call and after it, whatever calls came before and however they ended:
\* the handler passes on what it gets, and the one before it comes back
\* (gdal_rasterband.cpp:276-290).
PrintedAsChosen == stage = "working" => printed = IF chosen = "default" THEN errors ELSE {}

\* Statistics are refused with a file's name only where a file did not open in this
\* call or an earlier statistics call: what other calls fail to open does not spoil
\* them.  An earlier failure does, for ever and for every band, since nothing clears
\* stats_file_err.
RefusedForAFile == answer = "file" => met

\* Statistics of a band of which a file did not open are not answered, also where
\* GDAL itself says that all went well (gdal_rasterband.cpp:271-279, 323, 372).
OpenFailureThrown ==
  ( /\ stage = "idle" /\ call.name \in Statistics
    /\ \E class \in Class : <<class, "OpenFailed">> \in errors ) => answer = "file"
===============================================================================
