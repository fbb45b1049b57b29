------------------------------ MODULE CallsProofs ------------------------------
(***************************************************************************)
(* Whatever the table of calls: if the steps of every path come in the     *)
(* right order, the calls keep their promises.  The order is a property of *)
(* the text of a handler, one path at a time (Guarded, Quiet, Looked,      *)
(* Prompt, Clean, Paired, Tidy); the promises are about every behaviour,   *)
(* with the program running in the middle of a call.                       *)
(*                                                                         *)
(* The table takes a loop's body three times at most.  The second half     *)
(* shows that no order of steps gets wrong in a fourth round.              *)
(***************************************************************************)
EXTENDS Calls, FiniteSetTheorems, FunctionTheorems, SequenceTheorems,
        WellFoundedInduction, TLAPS

-------------------------------------------------------------------------------
(* Where a call is: on a path of the table, and what it has passed.        *)

OnPath ==
  status # "idle" =>
    \E c \in DOMAIN Table : \E m \in DOMAIN Table[c] :
      call = <<c, m>> /\ path \in Table[c][m]

Located == /\ status \in {"idle", "running", "returned", "aborted"}
           /\ path \in Seq(Step) /\ pc \in Nat \ {0} /\ pc <= Len(path) + 1
           /\ OnPath

Passed == 1..(pc-1)
After(i) == (i+1)..(pc-1)

Statuses == {"ask", "fails", "try"}

\* What a step does to native state and to memory; a try does not change what
\* it fails at.
Affected ==
  /\ changed' => changed \/ path[pc] \in Writing
  /\ changed' /\ failed' => \/ changed /\ failed
                            \/ changed /\ path[pc] \in Statuses
                            \/ failed /\ path[pc] \in Writing
  /\ path[pc] = "new" => held' = held + 1
  /\ path[pc] \in {"free", "own"} => held' = held - 1
  /\ path[pc] \notin {"new", "free", "own"} => held' = held

\* A step that goes on along the path, and what it may do on the way.
Moved ==
  /\ status = "running" /\ status' = "running"
  /\ pc <= Len(path) /\ pc' = pc + 1 /\ UNCHANGED <<call, path>>
  /\ recv' # recv => path[pc] = "close" \/ (path[pc] \in Program /\ call[1] \in Mortal)
  /\ path[pc] = "self" => recv = "alive"
  /\ arg' = "alive" => arg = "alive" \/ path[pc] \in Wrapper
  /\ arg' = "dead" => arg = "dead" \/ (arg = "alive" /\ path[pc] \in Program)
  /\ threw' => threw \/ path[pc] = "throw"
  /\ threw \/ path[pc] = "throw" => threw'
  /\ failed' => (failed \/ path[pc] \in Statuses) /\ path[pc] # "err"
  /\ path[pc] = "measure" => measured' = "fresh"
  /\ measured = "fresh" /\ path[pc] \notin Program => measured' = "fresh"
  /\ Affected

\* A step that ends the call, or the process.
Ended ==
  /\ status = "running" /\ status' \in {"returned", "aborted"}
  /\ UNCHANGED <<call, path, pc, failed, changed, held>>
  /\ threw => threw'
  /\ status' = "returned" =>
       \/ pc > Len(path) /\ threw' = threw
       \/ /\ pc <= Len(path) /\ path[pc] \in Throwing /\ threw'
          /\ path[pc] = "err" => failed

LEMMA Shape ==
  ASSUME Next PROVE Begin \/ Moved \/ Ended \/ Finish \/ UNCHANGED vars
<1> USE DEF At, Advance, Throw, Continue, Refuse, Program, Keyed, Wrapper, Statuses, Affected,
        Conversion, Optional, Guard, Throwing, Writing
<1>1. ASSUME Convert PROVE Moved \/ Ended
  BY <1>1 DEF Convert, Conversion, Optional, Moved, Ended, Program, Keyed, Statuses, Wrapper
<1>2. ASSUME Check PROVE Moved \/ Ended
  BY <1>2 DEF Check, Moved, Ended
<1>3. ASSUME CheckSelf PROVE Moved \/ Ended
  BY <1>3 DEF CheckSelf, Moved, Ended
<1>4. ASSUME TakeWrapped PROVE Moved \/ Ended
  BY <1>4 DEF TakeWrapped, Moved, Ended, Wrapper
<1>5. ASSUME CheckAlive PROVE Moved \/ Ended
  BY <1>5 DEF CheckAlive, Moved, Ended
<1>6. ASSUME RunProgram PROVE Moved \/ Ended
  BY <1>6 DEF RunProgram, Moved, Ended, Program, Keyed
<1>7. ASSUME Unsuitable \/ Abort \/ Return PROVE Ended
  BY <1>7 DEF Unsuitable, Abort, Return, Ended
<1>8. ASSUME Read \/ Write \/ Ask \/ Try \/ Close PROVE Moved
  BY <1>8 DEF Read, Write, Ask, Try, Close, Moved, Statuses
<1>9. ASSUME Report PROVE Moved \/ Ended
  BY <1>9 DEF Report, Moved, Ended
<1>10. ASSUME Raise \/ Allocate \/ Release \/ Measure \/ Answer PROVE Moved
  BY <1>10 DEF Raise, Allocate, Release, Measure, Answer, Moved
<1> QED
  BY <1>1, <1>2, <1>3, <1>4, <1>5, <1>6, <1>7, <1>8, <1>9, <1>10 DEF Next, Stopped

-------------------------------------------------------------------------------
(* What a running call has behind it says what it can know.                *)

Killing == Program \cup {"close"}

RecvKnown ==
  /\ call[1] \notin Mortal /\ (\A k \in Passed : path[k] # "close") => recv = "alive"
  /\ call[2] = "New" /\ (\A k \in Passed : path[k] \notin Killing) => recv = "alive"
  /\ \A i \in Passed :
       path[i] = "self" /\ (\A k \in After(i) : path[k] \notin Killing) => recv = "alive"
ArgKnown ==
  /\ arg = "alive" => \E i \in Passed : path[i] \in Wrapper
  /\ arg = "dead" => \E i, k \in Passed : i < k /\ path[i] \in Wrapper /\ path[k] \in Program
ThrewKnown == threw => \E i \in Passed : path[i] = "throw"
FailedKnown ==
  failed => threw \/ \E i \in Passed :
    path[i] \in Statuses /\ \A k \in After(i) : path[k] \notin {"err", "throw"}
MeasuredKnown ==
  \A i \in Passed :
    path[i] = "measure" /\ (\A k \in After(i) : path[k] \notin Program) => measured = "fresh"

Known == status = "running" => RecvKnown /\ ArgKnown /\ ThrewKnown /\ FailedKnown /\ MeasuredKnown

Inv == Located /\ Known

\* The call is on a path of the table, and no step loses what is known.
LEMMA InvInit == Init => Inv
BY DEF Init, Inv, Located, OnPath, Known

LEMMA LocatedStep == Located /\ [Next]_vars => Located'
<1> SUFFICES ASSUME Located, [Next]_vars PROVE Located'
  OBVIOUS
<1>1. CASE Begin
  <2>1. PICK c \in DOMAIN Table : \E m \in DOMAIN Table[c] :
          call' = <<c, m>> /\ path' \in Table[c][m]
    BY <1>1 DEF Begin
  <2>2. PICK m \in DOMAIN Table[c] : call' = <<c, m>> /\ path' \in Table[c][m]
    BY <2>1
  <2>3. path' \in Seq(Step)
    BY <2>2, TableAssumption
  <2>4. pc' = 1 /\ status' = "running"
    BY <1>1 DEF Begin
  <2>5. OnPath'
    BY <2>2 DEF OnPath
  <2> QED
    BY <2>3, <2>4, <2>5 DEF Located
<1>2. CASE Moved
  BY <1>2 DEF Moved, Located, OnPath
<1>3. CASE Ended
  BY <1>3 DEF Ended, Located, OnPath
<1>4. CASE Finish
  BY <1>4 DEF Finish, Fresh, Located, OnPath
<1>5. CASE UNCHANGED vars
  BY <1>5 DEF vars, Located, OnPath
<1> QED
  BY <1>1, <1>2, <1>3, <1>4, <1>5, Shape

LEMMA KnownStep == Inv /\ [Next]_vars => Known'
<1> SUFFICES ASSUME Inv, [Next]_vars, status' = "running" PROVE Known'
  BY DEF Known
<1>1. CASE Begin
  <2>1. pc' = 1 /\ Passed' = {}
    BY <1>1 DEF Begin, Passed
  <2>2. failed' = FALSE /\ threw' = FALSE /\ arg' = "none"
    BY <1>1 DEF Begin, Fresh
  <2>3. /\ call'[1] \notin Mortal => recv' = "alive"
        /\ call'[2] = "New" => recv' = "alive"
    <3>1. PICK c \in DOMAIN Table : \E m \in DOMAIN Table[c] :
            call' = <<c, m>> /\ recv' \in IF c \in Mortal /\ m # "New" THEN Life ELSE {"alive"}
      BY <1>1 DEF Begin
    <3>2. PICK m \in DOMAIN Table[c] :
            call' = <<c, m>> /\ recv' \in IF c \in Mortal /\ m # "New" THEN Life ELSE {"alive"}
      BY <3>1
    <3> QED
      BY <3>2
  <2>4. RecvKnown'
    BY <2>1, <2>3 DEF RecvKnown
  <2>5. ArgKnown' /\ ThrewKnown' /\ FailedKnown' /\ MeasuredKnown'
    BY <2>1, <2>2 DEF ArgKnown, ThrewKnown, FailedKnown, MeasuredKnown
  <2> QED
    BY <2>4, <2>5 DEF Known
<1>2. CASE Moved
  <2>1. pc \in Nat \ {0} /\ Passed' = Passed \cup {pc} /\ pc \notin Passed
    BY <1>2 DEF Moved, Passed, Inv, Located
  <2>2. \A i \in Passed : After(i)' = After(i) \cup {pc}
    BY <1>2, <2>1 DEF Moved, After, Passed
  <2>3. After(pc)' = {}
    BY <1>2, <2>1 DEF Moved, After
  <2>4. Known /\ status = "running" /\ path' = path /\ call' = call
    BY <1>2 DEF Moved, Inv
  <2>5. RecvKnown'
    <3>1. path[pc] \notin Killing => recv' = recv
      BY <1>2 DEF Moved, Killing
    <3>2. ASSUME call'[1] \notin Mortal, \A k \in Passed' : path'[k] # "close"
          PROVE recv' = "alive"
      BY <3>2, <1>2, <2>1, <2>4 DEF Moved, Known, RecvKnown
    <3>3. ASSUME call'[2] = "New", \A k \in Passed' : path'[k] \notin Killing
          PROVE recv' = "alive"
      BY <3>1, <3>3, <2>1, <2>4 DEF Known, RecvKnown
    <3>4. ASSUME NEW i \in Passed', path'[i] = "self",
                 \A k \in After(i)' : path'[k] \notin Killing
          PROVE recv' = "alive"
      <4>1. CASE i = pc
        <5>1. path[pc] = "self" /\ path[pc] \notin Killing
          BY <3>4, <4>1, <2>4 DEF Killing, Program
        <5> QED
          BY <5>1, <3>1, <1>2 DEF Moved
      <4>2. CASE i \in Passed
        <5>1. path[pc] \notin Killing /\ \A k \in After(i) : path[k] \notin Killing
          BY <3>4, <4>2, <2>2, <2>4
        <5>2. recv = "alive"
          BY <5>1, <3>4, <4>2, <2>4 DEF Known, RecvKnown
        <5> QED
          BY <5>1, <5>2, <3>1
      <4> QED
        BY <3>4, <4>1, <4>2, <2>1
    <3> QED
      BY <3>2, <3>3, <3>4 DEF RecvKnown
  <2>6. ArgKnown'
    <3>1. CASE arg' = "alive"
      BY <3>1, <1>2, <2>1, <2>4 DEF Moved, Known, ArgKnown
    <3>2. CASE arg' = "dead"
      <4>1. CASE arg = "dead"
        BY <4>1, <3>2, <2>1, <2>4 DEF Known, ArgKnown
      <4>2. CASE arg = "alive" /\ path[pc] \in Program
        <5>1. PICK i \in Passed : path[i] \in Wrapper
          BY <4>2, <2>4 DEF Known, ArgKnown
        <5>2. i < pc
          BY <2>1 DEF Passed
        <5> QED
          BY <5>1, <5>2, <4>2, <3>2, <2>1, <2>4 DEF ArgKnown
      <4> QED
        BY <4>1, <4>2, <3>2, <1>2 DEF Moved
    <3> QED
      BY <3>1, <3>2 DEF ArgKnown
  <2>7. ThrewKnown'
    BY <1>2, <2>1, <2>4 DEF Moved, Known, ThrewKnown
  <2>8. ASSUME failed', ~threw'
        PROVE \E i \in Passed' : path'[i] \in Statuses /\
                \A k \in After(i)' : path'[k] \notin {"err", "throw"}
    <3>1. ~threw /\ path[pc] \notin {"err", "throw"} /\ (failed \/ path[pc] \in Statuses)
      BY <2>8, <1>2 DEF Moved
    <3>2. CASE failed
      <4>1. PICK i \in Passed :
              path[i] \in Statuses /\ \A k \in After(i) : path[k] \notin {"err", "throw"}
        BY <3>1, <3>2, <2>4 DEF Known, FailedKnown
      <4>2. i \in Passed' /\ \A k \in After(i)' : path'[k] \notin {"err", "throw"}
        BY <4>1, <3>1, <2>1, <2>2, <2>4
      <4> QED
        BY <4>1, <4>2, <2>4
    <3>3. CASE path[pc] \in Statuses
      <4>1. PICK i \in Passed' : i = pc
        BY <2>1
      <4>2. After(i)' = {}
        BY <4>1, <2>1, <1>2 DEF After, Moved
      <4> QED
        BY <4>1, <4>2, <3>3, <2>4
    <3> QED
      BY <3>1, <3>2, <3>3
  <2>9. MeasuredKnown'
    BY <1>2, <2>1, <2>2, <2>3, <2>4 DEF Moved, Known, MeasuredKnown
  <2> QED
    BY <2>5, <2>6, <2>7, <2>8, <2>9 DEF Known, FailedKnown
<1>3. CASE Ended \/ Finish
  BY <1>3 DEF Ended, Finish
<1>4. CASE UNCHANGED vars
  BY <1>4 DEF vars, Inv, Known, RecvKnown, ArgKnown, ThrewKnown, FailedKnown, MeasuredKnown,
    Passed, After
<1> QED
  BY <1>1, <1>2, <1>3, <1>4, Shape

LEMMA InvAlways == Spec => []Inv
<1>1. Inv /\ [Next]_vars => Inv'
  BY LocatedStep, KnownStep DEF Inv
<1> QED
  BY <1>1, InvInit, PTL DEF Spec

-------------------------------------------------------------------------------
\* If every path checks before it uses (Guarded), no call uses an object the
\* program has closed or destroyed: AliveAtUse, for every table of calls.
THEOREM UsesTheLiving == ASSUME AllGuarded PROVE Spec => []AliveAtUse
<1>1. Inv => AliveAtUse
  <2> SUFFICES ASSUME Inv, At(Native), call \notin Reentrant
               PROVE recv = "alive" /\ arg # "dead"
    BY DEF AliveAtUse
  <2>1. /\ status = "running" /\ pc \in DOMAIN path /\ path[pc] \in Native
        /\ Passed = 1..(pc-1)
    BY DEF At, Inv, Located, Passed
  <2>2. PICK c \in DOMAIN Table : \E m \in DOMAIN Table[c] :
          call = <<c, m>> /\ path \in Table[c][m]
    BY <2>1 DEF Inv, Located, OnPath
  <2>3. PICK m \in DOMAIN Table[c] : call = <<c, m>> /\ path \in Table[c][m]
    BY <2>2
  <2>4. Guarded(c, m, path)
    BY <2>3 DEF AllGuarded
  <2>5. call[1] = c /\ call[2] = m /\ RecvKnown /\ ArgKnown
    BY <2>1, <2>3 DEF Inv, Known
  <2>6. recv = "alive"
    BY <2>1, <2>4, <2>5 DEF Guarded, RecvKnown, Killing, Passed, After
  <2>7. arg # "dead"
    BY <2>1, <2>4, <2>5 DEF Guarded, ArgKnown, Passed
  <2> QED
    BY <2>6, <2>7
<1> QED
  BY <1>1, InvAlways, PTL

\* If nothing native follows a throw on any path (Quiet), a call that has raised
\* an exception leaves GDAL alone: StopsAfterThrow, for every table of calls.
THEOREM LeavesGdalAlone == ASSUME AllQuiet PROVE Spec => []StopsAfterThrow
<1>1. Inv => StopsAfterThrow
  <2> SUFFICES ASSUME Inv, At(Native), call \notin GoesOn, threw PROVE FALSE
    BY DEF StopsAfterThrow
  <2>1. status = "running" /\ pc \in DOMAIN path /\ path[pc] \in Native
    BY DEF At, Inv, Located
  <2>2. PICK c \in DOMAIN Table : \E m \in DOMAIN Table[c] :
          call = <<c, m>> /\ path \in Table[c][m]
    BY <2>1 DEF Inv, Located, OnPath
  <2>3. Quiet(path)
    BY <2>2 DEF AllQuiet
  <2>4. PICK i \in Passed : path[i] = "throw"
    BY <2>1 DEF Inv, Known, ThrewKnown
  <2>5. i \in DOMAIN path /\ i < pc
    BY <2>1, <2>4 DEF Passed, Inv, Located
  <2> QED
    BY <2>1, <2>3, <2>4, <2>5 DEF Quiet
<1> QED
  BY <1>1, InvAlways, PTL

\* If every path looks at the status of its native calls (Looked), no failure is
\* lost: FailureReported, for every table of calls.
THEOREM ReportsFailures == ASSUME AllLooked PROVE Spec => []FailureReported
<1>1. Inv /\ FailureReported /\ [Next]_vars => FailureReported'
  <2> SUFFICES ASSUME Inv, FailureReported, [Next]_vars, status' = "returned", failed',
                      call' \notin Ignoring
               PROVE threw'
    BY DEF FailureReported
  <2>1. CASE Ended
    <3>1. CASE pc > Len(path) /\ ~threw
      <4>1. status = "running" /\ failed /\ call \notin Ignoring
        BY <2>1 DEF Ended
      <4>2. PICK c \in DOMAIN Table : \E m \in DOMAIN Table[c] :
              call = <<c, m>> /\ path \in Table[c][m]
        BY <4>1 DEF Inv, Located, OnPath
      <4>3. Looked(path)
        BY <4>1, <4>2 DEF AllLooked
      <4>4. PICK i \in Passed :
              path[i] \in Statuses /\ \A k \in After(i) : path[k] \notin {"err", "throw"}
        BY <3>1, <4>1 DEF Inv, Known, FailedKnown
      <4>5. path \in Seq(Step) /\ pc = Len(path) + 1 /\ Passed = DOMAIN path
        BY <3>1 DEF Inv, Located, Passed
      <4>6. PICK j \in DOMAIN path : i < j /\ path[j] \in {"err", "throw"}
        BY <4>3, <4>4, <4>5 DEF Looked, Statuses
      <4>7. j \in After(i)
        BY <4>4, <4>5, <4>6 DEF After
      <4> QED
        BY <4>4, <4>6, <4>7
    <3> QED
      BY <2>1, <3>1 DEF Ended
  <2>2. CASE UNCHANGED vars
    BY <2>2 DEF vars, FailureReported
  <2> QED
    BY <2>1, <2>2, Shape DEF Begin, Moved, Finish
<1>2. Init => FailureReported
  BY DEF Init, FailureReported
<1> QED
  BY <1>1, <1>2, InvAlways, PTL DEF Spec

\* If every path measures after the program last ran (Prompt), what a call relies
\* on still holds: MeasuresFresh, for every table of calls.
THEOREM ReliesOnTheFresh == ASSUME AllPrompt PROVE Spec => []MeasuresFresh
<1>1. Inv => MeasuresFresh
  <2> SUFFICES ASSUME Inv, At({"rely"}), call \notin Remeasured PROVE measured = "fresh"
    BY DEF MeasuresFresh
  <2>1. status = "running" /\ pc \in DOMAIN path /\ path[pc] = "rely"
    BY DEF At, Inv, Located
  <2>2. PICK c \in DOMAIN Table : \E m \in DOMAIN Table[c] :
          call = <<c, m>> /\ path \in Table[c][m]
    BY <2>1 DEF Inv, Located, OnPath
  <2>3. Prompt(path)
    BY <2>2 DEF AllPrompt
  <2>4. PICK i \in 1..(pc-1) :
          path[i] = "measure" /\ \A k \in (i+1)..(pc-1) : path[k] \notin Program
    BY <2>1, <2>3 DEF Prompt
  <2>5. MeasuredKnown
    BY <2>1 DEF Inv, Known
  <2> QED
    BY <2>4, <2>5 DEF MeasuredKnown, Passed, After
<1> QED
  BY <1>1, InvAlways, PTL

-------------------------------------------------------------------------------
(* What a call has changed, and failed at.                                 *)

ChangedKnown ==
  /\ changed => \E i \in Passed : path[i] \in Writing
  /\ changed /\ failed /\ ~threw => \E i, k \in Passed :
       i # k /\ path[i] \in Writing /\ path[k] \in Statuses /\ \A l \in After(k) : path[l] # "err"

Effects == status = "running" => ChangedKnown

LEMMA EffectsStep == Inv /\ Effects /\ [Next]_vars => Effects'
<1> SUFFICES ASSUME Inv, Effects, [Next]_vars, status' = "running" PROVE ChangedKnown'
  BY DEF Effects
<1>1. CASE Begin
  BY <1>1 DEF Begin, Fresh, ChangedKnown
<1>2. CASE Moved
  <2>1. pc \in Nat \ {0} /\ Passed' = Passed \cup {pc} /\ pc \notin Passed
    BY <1>2 DEF Moved, Passed, Inv, Located
  <2>2. \A i \in Passed : After(i)' = After(i) \cup {pc}
    BY <1>2, <2>1 DEF Moved, After, Passed
  <2>3. PICK now \in Passed' : now = pc /\ After(now)' = {}
    BY <1>2, <2>1 DEF Moved, After
  <2>4. Known /\ ChangedKnown /\ status = "running" /\ path' = path
    BY <1>2 DEF Moved, Inv, Effects
  <2>5. ASSUME changed' PROVE \E i \in Passed' : path'[i] \in Writing
    BY <2>5, <1>2, <2>1, <2>4 DEF Moved, Affected, ChangedKnown
  <2>6. ASSUME changed', failed', ~threw'
        PROVE \E i, k \in Passed' : /\ i # k /\ path'[i] \in Writing /\ path'[k] \in Statuses
                                    /\ \A l \in After(k)' : path'[l] # "err"
    <3>1. ~threw /\ path[pc] # "err"
      BY <2>6, <1>2 DEF Moved
    <3>2. CASE changed /\ failed
      <4>1. PICK i, k \in Passed : /\ i # k /\ path[i] \in Writing /\ path[k] \in Statuses
                                   /\ \A l \in After(k) : path[l] # "err"
        BY <3>1, <3>2, <2>4 DEF ChangedKnown
      <4>2. \A l \in After(k)' : path'[l] # "err"
        BY <4>1, <3>1, <2>2, <2>4
      <4> QED
        BY <4>1, <4>2, <2>1, <2>4
    <3>3. CASE changed /\ path[pc] \in Statuses
      <4>1. PICK i \in Passed : path[i] \in Writing
        BY <3>3, <2>4 DEF ChangedKnown
      <4>2. i \in Passed' /\ i # now /\ path'[i] \in Writing /\ path'[now] \in Statuses
        BY <4>1, <3>3, <2>1, <2>3, <2>4
      <4> QED
        BY <4>2, <2>3
    <3>4. CASE failed /\ path[pc] \in Writing
      <4>1. PICK k \in Passed :
              path[k] \in Statuses /\ \A l \in After(k) : path[l] \notin {"err", "throw"}
        BY <3>1, <3>4, <2>4 DEF Known, FailedKnown
      <4>2. \A l \in After(k)' : path'[l] # "err"
        BY <4>1, <3>1, <2>2, <2>4
      <4> QED
        BY <4>1, <4>2, <3>4, <2>1, <2>3, <2>4
    <3> QED
      BY <3>2, <3>3, <3>4, <2>6, <1>2 DEF Moved, Affected
  <2> QED
    BY <2>5, <2>6 DEF ChangedKnown
<1>3. CASE Ended \/ Finish
  BY <1>3 DEF Ended, Finish
<1>4. CASE UNCHANGED vars
  BY <1>4 DEF vars, Effects, ChangedKnown, Passed, After
<1> QED
  BY <1>1, <1>2, <1>3, <1>4, Shape

\* If no path has a step that throws after one that changes (Clean), a call that
\* throws has changed nothing: CleanThrow, for every table of calls.
THEOREM ThrowsCleanly == ASSUME AllClean PROVE Spec => []CleanThrow
<1>1. Inv /\ Effects /\ CleanThrow /\ [Next]_vars => CleanThrow'
  <2> SUFFICES ASSUME Inv, Effects, CleanThrow, [Next]_vars,
                      status' = "returned", threw', call' \notin Partial, changed'
               PROVE FALSE
    BY DEF CleanThrow
  <2>1. CASE Ended
    <3>1. status = "running" /\ changed /\ call \notin Partial
      BY <2>1 DEF Ended
    <3>2. PICK c \in DOMAIN Table : \E m \in DOMAIN Table[c] :
            call = <<c, m>> /\ path \in Table[c][m]
      BY <3>1 DEF Inv, Located, OnPath
    <3>3. Clean(path)
      BY <3>1, <3>2 DEF AllClean
    <3>4. /\ path \in Seq(Step) /\ pc \in Nat \ {0} /\ pc <= Len(path) + 1
          /\ Passed \subseteq DOMAIN path /\ \A i \in Passed : i < pc
      BY DEF Inv, Located, Passed
    <3>5. ChangedKnown /\ Known
      BY <3>1 DEF Effects, Inv
    <3>6. ~threw
      <4> SUFFICES ASSUME threw PROVE FALSE
        OBVIOUS
      <4>1. PICK i \in Passed, j \in Passed : path[i] \in Writing /\ path[j] = "throw"
        BY <3>1, <3>5 DEF Known, ChangedKnown, ThrewKnown
      <4> QED
        BY <4>1, <3>3, <3>4 DEF Clean
    <3>7. pc \in DOMAIN path /\ path[pc] \in Throwing /\ (path[pc] = "err" => failed)
      <4>1. pc <= Len(path) /\ path[pc] \in Throwing /\ (path[pc] = "err" => failed)
        BY <2>1, <3>6 DEF Ended
      <4> QED
        BY <4>1, <3>4
    <3>8. PICK i \in Passed : path[i] \in Writing
      BY <3>1, <3>5 DEF ChangedKnown
    <3>9. path[pc] = "err"
      BY <3>3, <3>4, <3>7, <3>8 DEF Clean
    <3>10. PICK w, k \in Passed : /\ w # k /\ path[w] \in Writing /\ path[k] \in Statuses
                                  /\ \A l \in After(k) : path[l] # "err"
      BY <3>1, <3>5, <3>6, <3>7, <3>9 DEF ChangedKnown
    <3>11. \E l \in (k+1)..(pc-1) : path[l] = "err"
      BY <3>3, <3>4, <3>7, <3>10 DEF Clean, Statuses, Passed
    <3> QED
      BY <3>10, <3>11 DEF After
  <2>2. CASE UNCHANGED vars
    BY <2>2 DEF vars, CleanThrow
  <2> QED
    BY <2>1, <2>2, Shape DEF Begin, Moved, Finish
<1>2. Init => CleanThrow /\ Effects
  BY DEF Init, CleanThrow, Effects
<1> QED
  BY <1>1, <1>2, EffectsStep, InvAlways, PTL DEF Spec

-------------------------------------------------------------------------------
(* What a call holds.                                                      *)

\* One step more, one more that allocates or releases.
LEMMA OneMoreStep ==
  ASSUME NEW n \in Nat, NEW P, NEW Q, P = {i \in 1..n : i \in Q},
         NEW R, R = {i \in 1..(n + 1) : i \in Q}
  PROVE  /\ Cardinality(P) \in Nat
         /\ Cardinality(R) = IF n + 1 \in Q THEN Cardinality(P) + 1 ELSE Cardinality(P)
<1>1. IsFiniteSet(P)
  <2>1. IsFiniteSet(1..n) /\ P \in SUBSET (1..n)
    BY FS_Interval
  <2> QED
    BY <2>1, FS_Subset
<1>2. CASE n + 1 \in Q
  <2>1. R = P \cup {n + 1} /\ n + 1 \notin P
    BY <1>2
  <2> QED
    BY <1>1, <1>2, <2>1, FS_AddElement, FS_CardinalityType
<1>3. CASE n + 1 \notin Q
  <2>1. R = P
    BY <1>3
  <2> QED
    BY <1>1, <1>3, <2>1, FS_CardinalityType
<1> QED
  BY <1>2, <1>3

LEMMA CountStep ==
  ASSUME NEW p, NEW n \in Nat
  PROVE  /\ Allocated(p, n) \in Nat /\ Released(p, n) \in Nat
         /\ Allocated(p, n + 1) = IF p[n + 1] = "new" THEN Allocated(p, n) + 1
                                                      ELSE Allocated(p, n)
         /\ Released(p, n + 1) = IF p[n + 1] \in {"free", "own"} THEN Released(p, n) + 1
                                                                 ELSE Released(p, n)
<1>1. /\ Allocated(p, n) \in Nat
      /\ Allocated(p, n + 1) = IF p[n + 1] = "new" THEN Allocated(p, n) + 1 ELSE Allocated(p, n)
  <2> DEFINE Q == {i \in 1..(n + 1) : p[i] = "new"}
             P == {i \in 1..n : p[i] = "new"}
  <2>1. P = {i \in 1..n : i \in Q} /\ Q = {i \in 1..(n + 1) : i \in Q}
    OBVIOUS
  <2>2. n + 1 \in Q <=> p[n + 1] = "new"
    OBVIOUS
  <2>3. Allocated(p, n) = Cardinality(P) /\ Allocated(p, n + 1) = Cardinality(Q)
    BY DEF Allocated
  <2> HIDE DEF P, Q
  <2> QED
    BY <2>1, <2>2, <2>3, OneMoreStep
<1>2. /\ Released(p, n) \in Nat
      /\ Released(p, n + 1) = IF p[n + 1] \in {"free", "own"} THEN Released(p, n) + 1
                                                              ELSE Released(p, n)
  <2> DEFINE Q == {i \in 1..(n + 1) : p[i] \in {"free", "own"}}
             P == {i \in 1..n : p[i] \in {"free", "own"}}
  <2>1. P = {i \in 1..n : i \in Q} /\ Q = {i \in 1..(n + 1) : i \in Q}
    OBVIOUS
  <2>2. n + 1 \in Q <=> p[n + 1] \in {"free", "own"}
    OBVIOUS
  <2>3. Released(p, n) = Cardinality(P) /\ Released(p, n + 1) = Cardinality(Q)
    BY DEF Released
  <2> HIDE DEF P, Q
  <2> QED
    BY <2>1, <2>2, <2>3, OneMoreStep
<1> QED
  BY <1>1, <1>2

LEMMA NothingYet ==
  ASSUME NEW p PROVE Allocated(p, 0) = 0 /\ Released(p, 0) = 0
<1>1. {i \in 1..0 : p[i] = "new"} = {} /\ {i \in 1..0 : p[i] \in {"free", "own"}} = {}
  OBVIOUS
<1> QED
  BY <1>1, FS_EmptySet DEF Allocated, Released

\* It holds what the steps behind it have allocated and not released.
Memory == held \in Nat /\ held + Released(path, pc - 1) = Allocated(path, pc - 1)

LEMMA MemoryStep == ASSUME AllPaired PROVE Inv /\ Memory /\ [Next]_vars => Memory'
<1> SUFFICES ASSUME Inv, Memory, [Next]_vars PROVE Memory'
  OBVIOUS
<1>1. CASE Begin \/ Finish
  <2>1. held' = 0 /\ pc' = 1 /\ pc' - 1 = 0
    BY <1>1 DEF Begin, Finish, Fresh
  <2> QED
    BY <2>1, NothingYet DEF Memory
<1>2. CASE Moved
  <2>1. /\ status = "running" /\ path' = path /\ pc \in DOMAIN path /\ pc' - 1 = pc
        /\ pc - 1 \in Nat /\ (pc - 1) + 1 = pc
    BY <1>2 DEF Moved, Inv, Located
  <2>2. PICK c \in DOMAIN Table : \E m \in DOMAIN Table[c] :
          call = <<c, m>> /\ path \in Table[c][m]
    BY <2>1 DEF Inv, Located, OnPath
  <2>3. Released(path, pc) <= Allocated(path, pc)
    BY <2>1, <2>2 DEF AllPaired, Paired
  <2>4. /\ Allocated(path, pc - 1) \in Nat /\ Released(path, pc - 1) \in Nat
        /\ Allocated(path, pc) = IF path[pc] = "new" THEN Allocated(path, pc - 1) + 1
                                                     ELSE Allocated(path, pc - 1)
        /\ Released(path, pc) = IF path[pc] \in {"free", "own"} THEN Released(path, pc - 1) + 1
                                                                ELSE Released(path, pc - 1)
    BY <2>1, CountStep
  <2>5. held' \in Nat /\ held' + Released(path, pc) = Allocated(path, pc)
    <3>1. CASE path[pc] = "new"
      BY <3>1, <1>2, <2>4 DEF Moved, Affected, Memory
    <3>2. CASE path[pc] \in {"free", "own"}
      BY <3>2, <1>2, <2>3, <2>4 DEF Moved, Affected, Memory
    <3>3. CASE path[pc] \notin {"new", "free", "own"}
      BY <3>3, <1>2, <2>4 DEF Moved, Affected, Memory
    <3> QED
      BY <3>1, <3>2, <3>3
  <2> QED
    BY <2>1, <2>5 DEF Memory
<1>3. CASE Ended \/ UNCHANGED vars
  BY <1>3 DEF Ended, vars, Memory
<1> QED
  BY <1>1, <1>2, <1>3, Shape

LEMMA InitMemory == Init => Memory
BY NothingYet DEF Init, Memory

\* If every path has released where a call may end what it allocated (Tidy), no
\* call leaks: NoLeak, for every table of calls that releases nothing twice.
THEOREM LeavesNothingBehind == ASSUME AllPaired, AllTidy PROVE Spec => []NoLeak
<1>1. Inv /\ Memory /\ NoLeak /\ [Next]_vars => NoLeak'
  <2> SUFFICES ASSUME Inv, Memory, NoLeak, [Next]_vars,
                      status' = "returned", call' \notin Leaky
               PROVE held' = 0
    BY DEF NoLeak
  <2>1. CASE Ended
    <3>1. status = "running" /\ held' = held /\ call \notin Leaky
      BY <2>1 DEF Ended
    <3>2. PICK c \in DOMAIN Table : \E m \in DOMAIN Table[c] :
            call = <<c, m>> /\ path \in Table[c][m]
      BY <3>1 DEF Inv, Located, OnPath
    <3>3. Tidy(path)
      BY <3>1, <3>2 DEF AllTidy
    <3>4. /\ path \in Seq(Step) /\ pc \in Nat \ {0} /\ pc <= Len(path) + 1
          /\ pc - 1 \in Nat /\ (pc - 1) + 1 = pc
      BY DEF Inv, Located
    <3>5. Allocated(path, pc - 1) \in Nat /\ Released(path, pc - 1) \in Nat
      BY <3>4, CountStep
    <3>6. Released(path, pc - 1) = Allocated(path, pc - 1)
      <4>1. CASE pc > Len(path)
        <5>1. pc - 1 = Len(path)
          BY <4>1, <3>4
        <5> QED
          BY <5>1, <3>3 DEF Tidy
      <4>2. CASE pc <= Len(path)
        <5>1. path[pc] \in Throwing
          BY <4>2, <2>1, <3>4 DEF Ended
        <5>2. Released(path, pc) = Allocated(path, pc)
          BY <5>1, <4>2, <3>3, <3>4 DEF Tidy
        <5>3. path[pc] \notin {"new", "free", "own"}
          BY <5>1 DEF Throwing, Guard, Conversion, Optional, Wrapper, Keyed
        <5>4. /\ Allocated(path, pc) = Allocated(path, pc - 1)
              /\ Released(path, pc) = Released(path, pc - 1)
          BY <5>3, <3>4, CountStep
        <5> QED
          BY <5>2, <5>4
      <4> QED
        BY <4>1, <4>2, <3>4
    <3> QED
      BY <3>1, <3>5, <3>6 DEF Memory
  <2>2. CASE UNCHANGED vars
    BY <2>2 DEF vars, NoLeak
  <2> QED
    BY <2>1, <2>2, Shape DEF Begin, Moved, Finish
<1>2. Init => NoLeak
  BY DEF Init, NoLeak
<1> QED
  BY <1>1, <1>2, InitMemory, MemoryStep, InvAlways, PTL DEF Spec

-------------------------------------------------------------------------------
Flags ==
  /\ call \in Calls \cup {NoCall}
  /\ recv \in Life /\ arg \in Life \cup {"none"}
  /\ failed \in BOOLEAN /\ threw \in BOOLEAN /\ changed \in BOOLEAN
  /\ measured \in {"none", "fresh", "stale"}

LEMMA FlagsStep == Flags /\ [Next]_vars => Flags'
<1> SUFFICES ASSUME Flags, [Next]_vars PROVE Flags'
  OBVIOUS
<1> USE DEF Flags, Life, Advance, Throw, Continue, Refuse
<1>1. CASE Begin
  <2>1. call' \in Calls
    BY <1>1 DEF Begin, Calls
  <2>2. recv' \in Life
    <3>1. PICK c \in DOMAIN Table : \E m \in DOMAIN Table[c] :
            recv' \in IF c \in Mortal /\ m # "New" THEN Life ELSE {"alive"}
      BY <1>1 DEF Begin
    <3> QED
      BY <3>1
  <2> QED
    BY <1>1, <2>1, <2>2 DEF Begin, Fresh
<1>2. CASE Convert \/ Check \/ CheckSelf \/ TakeWrapped \/ CheckAlive
  BY <1>2 DEF Convert, Check, CheckSelf, TakeWrapped, CheckAlive
<1>3. CASE RunProgram
  BY <1>3 DEF RunProgram
<1>4. CASE Unsuitable \/ Abort \/ Return \/ Stopped \/ UNCHANGED vars
  BY <1>4 DEF Unsuitable, Abort, Return, Stopped, vars
<1>5. CASE Read \/ Write \/ Ask \/ Try \/ Close
  BY <1>5 DEF Read, Write, Ask, Try, Close
<1>6. CASE Report \/ Raise \/ Allocate \/ Release \/ Measure \/ Answer
  BY <1>6 DEF Report, Raise, Allocate, Release, Measure, Answer
<1>7. CASE Finish
  BY <1>7 DEF Finish, Fresh
<1> QED
  BY <1>1, <1>2, <1>3, <1>4, <1>5, <1>6, <1>7 DEF Next

\* If no path releases more than it has allocated (Paired), every variable keeps its
\* type: no call frees what it does not hold.
THEOREM TypeCorrect == ASSUME AllPaired PROVE Spec => []TypeOK
<1>1. Init => Flags
  BY DEF Init, Flags, NoCall, Life
<1>2. Inv /\ Memory /\ Flags => TypeOK
  BY DEF Inv, Located, Memory, Flags, TypeOK
<1> QED
  BY <1>1, <1>2, FlagsStep, InitMemory, MemoryStep, InvAlways, PTL DEF Spec

-------------------------------------------------------------------------------
(* A loop's body is taken three times at most (SomeTimes).  Whatever is    *)
(* wrong with the order of a path shows at three of its steps, so of four  *)
(* rounds one can be left out, and what is wrong stays.                    *)

LEMMA LeastNatural ==
  ASSUME NEW S \in SUBSET Nat, S # {}
  PROVE  \E m \in S : \A k \in S : m <= k
<1> DEFINE R == {p \in Nat \X Nat : p[1] < p[2]}
<1>1. R = OpToRel(<, Nat)
  BY DEF OpToRel
<1>2. IsWellFoundedOn(R, Nat)
  BY <1>1, NatLessThanWellFounded
<1>3. \A x, y \in Nat : <<y, x>> \in R <=> y < x
  OBVIOUS
<1> HIDE DEF R
<1>4. PICK x \in S : \A y \in S : ~(<<y, x>> \in R)
  BY <1>2, WFMin
<1>5. ASSUME NEW k \in S PROVE x <= k
  <2>1. k \in Nat /\ x \in Nat /\ ~(k < x)
    BY <1>3, <1>4
  <2> QED
    BY <2>1
<1> QED
  BY <1>5

\* One path after the other, kept folded: the provers do not look into \o.
Join(s, t) == s \o t

LEMMA JoinFacts ==
  ASSUME NEW s \in Seq(Step), NEW t \in Seq(Step)
  PROVE  /\ Join(s, t) \in Seq(Step) /\ Len(s) \in Nat
         /\ Len(Join(s, t)) = Len(s) + Len(t)
         /\ \A i \in 1..(Len(s) + Len(t)) :
              Join(s, t)[i] = IF i <= Len(s) THEN s[i] ELSE t[i - Len(s)]
BY ConcatProperties, LenProperties DEF Join

LEMMA Regrouped ==
  ASSUME NEW s \in Seq(Step), NEW t \in Seq(Step), NEW u \in Seq(Step)
  PROVE  Join(Join(s, t), u) = Join(s, Join(t, u))
BY ConcatAssociative DEF Join

\* A path that goes through one body more.
Then(A, body) == A ++ body

\* L[n]: the paths that go through a loop's body n times.
Rounds(L, body) == L[0] = {<< >>} /\ \A n \in Nat \ {0} : L[n] = Then(L[n - 1], body)

\* A loop in its place: p comes before it, q after it.
Around(p, X, q) == {p} ++ X ++ {q}

LEMMA InThen ==
  ASSUME NEW A, NEW body, NEW x
  PROVE  x \in Then(A, body) <=> \E a \in A, b \in body : x = Join(a, b)
BY DEF Then, ++, Join

LEMMA InAround ==
  ASSUME NEW p, NEW X, NEW q, NEW x
  PROVE  x \in Around(p, X, q) <=> \E a \in X : x = Join(Join(p, a), q)
<1>1. Around(p, X, q) = Then(Then({p}, X), {q})
  BY DEF Around, Then
<1>2. \A y : y \in Then({p}, X) <=> \E a \in X : y = Join(p, a)
  BY InThen
<1>3. x \in Then(Then({p}, X), {q}) <=> \E y \in Then({p}, X) : x = Join(y, q)
  BY InThen
<1> QED
  BY <1>1, <1>2, <1>3

\* The last round of some, and one round more.
LEMMA LastRound ==
  ASSUME NEW B, NEW L, Rounds(L, B), NEW n \in Nat, NEW m \in Nat, m = n + 1
  PROVE  /\ \A x \in L[m] : \E a \in L[n], b \in B : x = Join(a, b)
         /\ \A a \in L[n], b \in B : Join(a, b) \in L[m]
<1>1. m \in Nat \ {0} /\ n = m - 1
  OBVIOUS
<1>2. L[m] = Then(L[n], B)
  BY <1>1 DEF Rounds
<1> QED
  BY <1>2, InThen

LEMMA RoundsType ==
  ASSUME NEW B \in SUBSET Seq(Step), NEW L, Rounds(L, B), NEW n \in Nat
  PROVE  L[n] \subseteq Seq(Step)
<1> DEFINE Bad == {k \in Nat : ~(L[k] \subseteq Seq(Step))}
<1> SUFFICES ASSUME Bad # {} PROVE FALSE
  OBVIOUS
<1>1. PICK m \in Bad : \A k \in Bad : m <= k
  <2>1. Bad \in SUBSET Nat
    OBVIOUS
  <2> HIDE DEF Bad
  <2> QED
    BY <2>1, LeastNatural
<1>2. m # 0
  <2>1. L[0] \subseteq Seq(Step)
    BY EmptySeq DEF Rounds
  <2> QED
    BY <2>1
<1>3. PICK k \in Nat : m = k + 1 /\ k < m
  BY <1>2
<1>4. L[k] \subseteq Seq(Step)
  BY <1>1, <1>3
<1>5. \A x \in L[m] : x \in Seq(Step)
  <2> SUFFICES ASSUME NEW x \in L[m] PROVE x \in Seq(Step)
    OBVIOUS
  <2>1. m \in Nat
    OBVIOUS
  <2>2. PICK a \in L[k], b \in B : x = Join(a, b)
    BY <1>3, <2>1, LastRound
  <2> QED
    BY <1>4, <2>2, JoinFacts
<1> QED
  BY <1>5

\* One round, two and three are what SomeTimes has.
LEMMA FewRounds ==
  ASSUME NEW B \in SUBSET Seq(Step), NEW L, Rounds(L, B), NEW n \in 1..3
  PROVE  L[n] \subseteq SomeTimes(B)
<1>1. 1 \in Nat \ {0} /\ 2 \in Nat \ {0} /\ 3 \in Nat \ {0} /\ 1 - 1 = 0 /\ 2 - 1 = 1 /\ 3 - 1 = 2
  OBVIOUS
<1>2. L[0] = {<< >>} /\ L[1] = Then(L[0], B) /\ L[2] = Then(L[1], B) /\ L[3] = Then(L[2], B)
  BY <1>1, Zenon DEF Rounds
<1>3. L[1] = B
  <2>1. \A b \in B : Join(<< >>, b) = b
    BY ConcatEmptySeq DEF Join
  <2>2. ASSUME NEW x PROVE x \in Then({<< >>}, B) <=> \E b \in B : x = Join(<< >>, b)
    BY InThen
  <2>3. \A x : x \in L[1] <=> x \in B
    BY <2>1, <2>2, <1>2
  <2> QED
    BY <2>3
<1>4. L[2] = B ++ B
  BY <1>2, <1>3 DEF Then
<1>5. L[3] = B ++ B ++ B
  BY <1>2, <1>4 DEF Then
<1>6. /\ B \subseteq SomeTimes(B) /\ B ++ B \subseteq SomeTimes(B)
      /\ B ++ B ++ B \subseteq SomeTimes(B)
  BY DEF SomeTimes
<1>7. n = 1 \/ n = 2 \/ n = 3
  OBVIOUS
<1> QED
  BY <1>3, <1>4, <1>5, <1>6, <1>7

\* x goes through a and then through the body's path b.
Ends(p, x, v, a, b) ==
  /\ Join(p, a) \in Seq(Step) /\ b \in Seq(Step) /\ Join(b, v) \in Seq(Step)
  /\ Join(Join(p, x), v) = Join(Join(p, a), Join(b, v))
  /\ Join(Join(p, x), v) = Join(Join(Join(p, a), b), v)
  /\ Len(Join(p, x)) = Len(Join(p, a)) + Len(b)

\* The last of some rounds, before what follows the loop.
LEMMA LastOfLoop ==
  ASSUME NEW B \in SUBSET Seq(Step), NEW L, Rounds(L, B), NEW n \in Nat, NEW m \in Nat, m = n + 1,
         NEW p \in Seq(Step), NEW v \in Seq(Step), NEW x \in L[m]
  PROVE  \E a \in L[n], b \in B : Ends(p, x, v, a, b)
<1>1. PICK a \in L[n], b \in B : x = Join(a, b)
  BY LastRound
<1>2. a \in Seq(Step) /\ b \in Seq(Step)
  BY RoundsType
<1>3. Join(p, a) \in Seq(Step) /\ Join(b, v) \in Seq(Step)
  BY <1>2, JoinFacts
<1>4. Join(p, x) = Join(Join(p, a), b)
  BY <1>1, <1>2, Regrouped
<1>5. Len(Join(p, x)) = Len(Join(p, a)) + Len(b)
  BY <1>2, <1>3, <1>4, JoinFacts
<1>6. Join(Join(Join(p, a), b), v) = Join(Join(p, a), Join(b, v))
  BY <1>2, <1>3, Regrouped
<1> QED
  BY <1>2, <1>3, <1>4, <1>5, <1>6 DEF Ends

\* v is the last k rounds and what follows the loop.
Ending(L, p, q, v, k) ==
  \A m, n \in Nat : n = m + k => \A a \in L[m] : Join(Join(p, a), v) \in Around(p, L[n], q)

LEMMA EndingStep ==
  ASSUME NEW B \in SUBSET Seq(Step), NEW L, Rounds(L, B), NEW k \in Nat, NEW l \in Nat, l = k + 1,
         NEW p \in Seq(Step), NEW q \in Seq(Step), NEW v \in Seq(Step), NEW b \in B,
         Ending(L, p, q, v, k)
  PROVE  Ending(L, p, q, Join(b, v), l)
<1> SUFFICES ASSUME NEW m \in Nat, NEW n \in Nat, n = m + l, NEW a \in L[m]
             PROVE  Join(Join(p, a), Join(b, v)) \in Around(p, L[n], q)
  BY DEF Ending
<1>1. PICK o \in Nat : o = m + 1 /\ n = o + k
  OBVIOUS
<1>2. Join(a, b) \in L[o]
  BY <1>1, LastRound
<1>3. a \in Seq(Step) /\ b \in Seq(Step)
  BY RoundsType
<1>4. Join(p, a) \in Seq(Step)
  BY <1>3, JoinFacts
<1>5. Join(Join(p, a), Join(b, v)) = Join(Join(p, Join(a, b)), v)
  BY <1>3, <1>4, Regrouped
<1> QED
  BY <1>1, <1>2, <1>5 DEF Ending

\* None of the three is among the d that follow the first l.
Apart(l, d, i, j, k) == {i, j, k} \cap ((l + 1)..(l + d)) = {}

\* Of four rounds, one is away from any three steps.
Spares(P, B, X, i, j, k) ==
  \E u, v \in Seq(Step) : \E b \in B :
    P = Join(Join(u, b), v) /\ Apart(Len(u), Len(b), i, j, k) /\ Join(u, v) \in X

LEMMA SpareRound ==
  ASSUME NEW B \in SUBSET Seq(Step), NEW L, Rounds(L, B),
         NEW n4 \in Nat, NEW n5 \in Nat, n5 = n4 + 1, n5 \notin 0..3,
         NEW p \in Seq(Step), NEW q \in Seq(Step), NEW P \in Around(p, L[n5], q),
         NEW i \in Nat, NEW j \in Nat, NEW k \in Nat
  PROVE  Spares(P, B, Around(p, L[n4], q), i, j, k)
<1>0. PICK n1, n2, n3 \in Nat : n2 = n1 + 1 /\ n3 = n2 + 1 /\ n4 = n3 + 1
  <2>1. n4 - 3 \in Nat /\ n4 - 2 \in Nat /\ n4 - 1 \in Nat
    OBVIOUS
  <2> QED
    BY <2>1
<1>1. PICK x5 \in L[n5] : P = Join(Join(p, x5), q)
  BY InAround
<1>2. PICK x4 \in L[n4], b4 \in B : Ends(p, x5, q, x4, b4)
  BY <1>0, LastOfLoop
<1>3. PICK v3 \in Seq(Step) : v3 = Join(b4, q)
  BY <1>2 DEF Ends
<1>4. PICK x3 \in L[n3], b3 \in B : Ends(p, x4, v3, x3, b3)
  BY <1>0, LastOfLoop
<1>5. PICK v2 \in Seq(Step) : v2 = Join(b3, v3)
  BY <1>4 DEF Ends
<1>6. PICK x2 \in L[n2], b2 \in B : Ends(p, x3, v2, x2, b2)
  BY <1>0, LastOfLoop
<1>7. PICK v1 \in Seq(Step) : v1 = Join(b2, v2)
  BY <1>6 DEF Ends
<1>8. PICK x1 \in L[n1], b1 \in B : Ends(p, x2, v1, x1, b1)
  BY <1>0, LastOfLoop
<1>9. PICK u1, u2, u3, u4 \in Seq(Step) :
        u1 = Join(p, x1) /\ u2 = Join(p, x2) /\ u3 = Join(p, x3) /\ u4 = Join(p, x4)
  BY <1>2, <1>4, <1>6, <1>8 DEF Ends
<1>10. /\ P = Join(Join(u4, b4), q) /\ P = Join(Join(u3, b3), v3)
       /\ P = Join(Join(u2, b2), v2) /\ P = Join(Join(u1, b1), v1)
  BY <1>1, <1>2, <1>3, <1>4, <1>5, <1>6, <1>7, <1>8, <1>9 DEF Ends
<1>11. /\ Join(u4, q) \in Around(p, L[n4], q) /\ Join(u3, v3) \in Around(p, L[n4], q)
       /\ Join(u2, v2) \in Around(p, L[n4], q) /\ Join(u1, v1) \in Around(p, L[n4], q)
  <2>1. Ending(L, p, q, q, 0)
    <3> SUFFICES ASSUME NEW m \in Nat, NEW a \in L[m]
                 PROVE  Join(Join(p, a), q) \in Around(p, L[m], q)
      BY DEF Ending
    <3> QED
      BY InAround
  <2>2. 0 \in Nat /\ 1 \in Nat /\ 2 \in Nat /\ 3 \in Nat /\ 1 = 0 + 1 /\ 2 = 1 + 1 /\ 3 = 2 + 1
    OBVIOUS
  <2>3. Ending(L, p, q, v3, 1)
    BY <2>1, <2>2, <1>3, EndingStep
  <2>4. Ending(L, p, q, v2, 2)
    BY <2>2, <2>3, <1>5, EndingStep
  <2>5. Ending(L, p, q, v1, 3)
    BY <2>2, <2>4, <1>7, EndingStep
  <2>6. n4 = n3 + 1 /\ n4 = n2 + 2 /\ n4 = n1 + 3
    BY <1>0
  <2>7. Join(u4, q) \in Around(p, L[n4], q)
    BY <1>9, InAround
  <2>8. Join(u3, v3) \in Around(p, L[n4], q)
    BY <2>3, <2>6, <1>9 DEF Ending
  <2>9. Join(u2, v2) \in Around(p, L[n4], q)
    BY <2>4, <2>6, <1>9 DEF Ending
  <2>10. Join(u1, v1) \in Around(p, L[n4], q)
    BY <2>5, <2>6, <1>9 DEF Ending
  <2> QED
    BY <2>7, <2>8, <2>9, <2>10
<1>12. /\ Len(u2) = Len(u1) + Len(b1) /\ Len(u3) = Len(u2) + Len(b2)
       /\ Len(u4) = Len(u3) + Len(b3)
  BY <1>4, <1>6, <1>8, <1>9 DEF Ends
<1>13. /\ Len(u1) \in Nat /\ Len(b1) \in Nat /\ Len(b2) \in Nat /\ Len(b3) \in Nat
       /\ Len(b4) \in Nat
  BY <1>2, <1>4, <1>6, <1>8, LenProperties DEF Ends
<1>14. PICK l1, l2, l3, l4 \in Nat :
         l1 = Len(u1) /\ l2 = Len(u2) /\ l3 = Len(u3) /\ l4 = Len(u4)
  BY LenProperties
<1>15. PICK d1, d2, d3, d4 \in Nat :
         d1 = Len(b1) /\ d2 = Len(b2) /\ d3 = Len(b3) /\ d4 = Len(b4)
  BY <1>13
<1>16. l2 = l1 + d1 /\ l3 = l2 + d2 /\ l4 = l3 + d3
  BY <1>12, <1>14, <1>15, Zenon
<1>17. PICK l5 \in Nat : l5 = l4 + d4
  OBVIOUS
<1>18. \/ {i, j, k} \cap ((l1 + 1)..l2) = {} \/ {i, j, k} \cap ((l2 + 1)..l3) = {}
       \/ {i, j, k} \cap ((l3 + 1)..l4) = {} \/ {i, j, k} \cap ((l4 + 1)..l5) = {}
  <2>1. l1 <= l2 /\ l2 <= l3 /\ l3 <= l4 /\ l4 <= l5
    BY <1>16, <1>17
  <2>2. \/ ~(l1 < i /\ i <= l2) /\ ~(l1 < j /\ j <= l2) /\ ~(l1 < k /\ k <= l2)
        \/ ~(l2 < i /\ i <= l3) /\ ~(l2 < j /\ j <= l3) /\ ~(l2 < k /\ k <= l3)
        \/ ~(l3 < i /\ i <= l4) /\ ~(l3 < j /\ j <= l4) /\ ~(l3 < k /\ k <= l4)
        \/ ~(l4 < i /\ i <= l5) /\ ~(l4 < j /\ j <= l5) /\ ~(l4 < k /\ k <= l5)
    BY <2>1
  <2>3. ASSUME NEW l \in Nat, NEW m \in Nat,
               ~(l < i /\ i <= m), ~(l < j /\ j <= m), ~(l < k /\ k <= m)
        PROVE  {i, j, k} \cap ((l + 1)..m) = {}
    BY <2>3
  <2> QED
    BY <2>2, <2>3
<1>19. \/ Apart(l1, d1, i, j, k) \/ Apart(l2, d2, i, j, k)
       \/ Apart(l3, d3, i, j, k) \/ Apart(l4, d4, i, j, k)
  BY <1>16, <1>17, <1>18, Zenon DEF Apart
<1>20. b1 \in B /\ b2 \in B /\ b3 \in B /\ b4 \in B
  OBVIOUS
<1> QED
  BY <1>10, <1>11, <1>14, <1>15, <1>19, <1>20 DEF Spares

\* Where the steps of a path show what is wrong with it: away from three of
\* them, a round can be left out of it and it stays so.
Shown(P, Good, B, i, j, k) ==
  \A u, v \in Seq(Step), b \in B :
    P = Join(Join(u, b), v) /\ Apart(Len(u), Len(b), i, j, k) => Join(u, v) \notin Good
Delimited(Good, B) ==
  \A P \in Seq(Step) \ Good : \E i, j, k \in Nat : Shown(P, Good, B, i, j, k)

LEMMA RoundsBounded ==
  ASSUME NEW B \in SUBSET Seq(Step), NEW L, Rounds(L, B),
         NEW p \in Seq(Step), NEW q \in Seq(Step), NEW Good, Delimited(Good, B),
         Around(p, SomeTimes(B), q) \subseteq Good, NEW n \in Nat \ {0}
  PROVE  Around(p, L[n], q) \subseteq Good
<1> DEFINE Bad == {m \in Nat \ {0} : ~(Around(p, L[m], q) \subseteq Good)}
<1> SUFFICES ASSUME Bad # {} PROVE FALSE
  OBVIOUS
<1>1. PICK m \in Bad : \A k \in Bad : m <= k
  <2>1. Bad \in SUBSET Nat
    OBVIOUS
  <2> HIDE DEF Bad
  <2> QED
    BY <2>1, LeastNatural
<1>2. m \in Nat \ {0} /\ ~(Around(p, L[m], q) \subseteq Good)
  OBVIOUS
<1>3. m \notin 1..3
  <2> SUFFICES ASSUME m \in 1..3 PROVE FALSE
    OBVIOUS
  <2>1. L[m] \subseteq SomeTimes(B)
    BY FewRounds
  <2>2. \A x : x \in Around(p, L[m], q) => x \in Around(p, SomeTimes(B), q)
    BY <2>1, InAround
  <2> QED
    BY <1>2, <2>2
<1>4. PICK h \in Nat : m = h + 1 /\ h # 0 /\ h < m
  <2>1. m - 1 \in Nat
    BY <1>2, <1>3
  <2> QED
    BY <1>2, <1>3, <2>1
<1>5. Around(p, L[h], q) \subseteq Good
  <2>1. h \notin Bad
    BY <1>1, <1>2, <1>4
  <2> QED
    BY <1>4, <2>1
<1>6. PICK P : P \in Around(p, L[m], q) /\ P \notin Good
  BY <1>2
<1>7. P \in Seq(Step)
  <2>1. PICK a \in L[m] : P = Join(Join(p, a), q)
    BY <1>6, InAround
  <2>2. a \in Seq(Step)
    BY <1>2, <2>1, RoundsType
  <2> QED
    BY <2>1, <2>2, JoinFacts
<1>8. PICK i, j, k \in Nat : Shown(P, Good, B, i, j, k)
  BY <1>6, <1>7 DEF Delimited
<1>9. m \in Nat /\ m \notin 0..3
  BY <1>2, <1>3
<1>10. Spares(P, B, Around(p, L[h], q), i, j, k)
  <2>1. P \in Around(p, L[m], q)
    BY <1>6
  <2> HIDE DEF Bad
  <2> QED
    BY <2>1, <1>4, <1>9, SpareRound
<1> QED
  BY <1>5, <1>8, <1>10 DEF Shown, Spares

\* y's place, when the d steps after the first l come back.
Place(l, d, y) == IF y <= l THEN y ELSE y + d

\* Q is P without d steps.
Shorter(P, Q, l, d) ==
  /\ \A y \in DOMAIN Q : Place(l, d, y) \in DOMAIN P /\ Q[y] = P[Place(l, d, y)]
  /\ \A x \in DOMAIN P : x \notin (l + 1)..(l + d) =>
       \E y \in DOMAIN Q : Place(l, d, y) = x

\* The d steps after the first l are those of b.
LiesIn(P, l, d, b) == \A x \in (l + 1)..(l + d) : x - l \in DOMAIN b /\ P[x] = b[x - l]

LEMMA LeftOut ==
  ASSUME NEW u \in Seq(Step), NEW v \in Seq(Step), NEW b \in Seq(Step)
  PROVE  /\ Len(u) \in Nat /\ Len(b) \in Nat
         /\ Join(u, v) \in Seq(Step) /\ Join(Join(u, b), v) \in Seq(Step)
         /\ Shorter(Join(Join(u, b), v), Join(u, v), Len(u), Len(b))
         /\ LiesIn(Join(Join(u, b), v), Len(u), Len(b), b)
<1>1. PICK l, d, e \in Nat : l = Len(u) /\ d = Len(b) /\ e = Len(v)
  BY LenProperties
<1>2. PICK P, Q, U \in Seq(Step) : P = Join(Join(u, b), v) /\ Q = Join(u, v) /\ U = Join(u, b)
  BY JoinFacts
<1>3. Len(U) = l + d /\ Len(Q) = l + e
  BY <1>1, <1>2, JoinFacts
<1>4. P = Join(U, v) /\ Len(P) = (l + d) + e
  <2>1. P = Join(U, v)
    BY <1>2, Zenon
  <2>2. Len(P) = Len(U) + Len(v)
    BY <1>2, <2>1, JoinFacts
  <2> QED
    BY <1>1, <1>3, <2>1, <2>2
<1>5. DOMAIN P = 1..(l + d + e) /\ DOMAIN Q = 1..(l + e)
  BY <1>3, <1>4, LenProperties
<1>6. \A i \in 1..(l + e) : Q[i] = IF i <= l THEN u[i] ELSE v[i - l]
  BY <1>1, <1>2, JoinFacts
<1>7. \A i \in 1..(l + d) : U[i] = IF i <= l THEN u[i] ELSE b[i - l]
  BY <1>1, <1>2, JoinFacts
<1>8. \A i \in 1..(l + d + e) : P[i] = IF i <= l + d THEN U[i] ELSE v[i - (l + d)]
  <2>1. \A i \in 1..(Len(U) + Len(v)) :
          Join(U, v)[i] = IF i <= Len(U) THEN U[i] ELSE v[i - Len(U)]
    BY <1>2, JoinFacts
  <2> QED
    BY <1>1, <1>3, <1>4, <2>1
<1>9. ASSUME NEW y \in DOMAIN Q
      PROVE  Place(l, d, y) \in DOMAIN P /\ Q[y] = P[Place(l, d, y)]
  <2>1. y \in 1..(l + e) /\ y \in Nat
    BY <1>5, <1>9
  <2>2. CASE y <= l
    <3>1. Place(l, d, y) = y /\ y \in 1..(l + d + e) /\ y \in 1..(l + d) /\ y <= l + d
      BY <2>1, <2>2 DEF Place
    <3> QED
      BY <3>1, <2>1, <2>2, <1>5, <1>6, <1>7, <1>8
  <2>3. CASE ~(y <= l)
    <3>1. PICK x \in Nat : x = y + d
      BY <2>1
    <3>2. Place(l, d, y) = x /\ x \in 1..(l + d + e) /\ ~(x <= l + d) /\ x - (l + d) = y - l
      BY <2>1, <2>3, <3>1 DEF Place
    <3> QED
      BY <3>2, <2>1, <2>3, <1>5, <1>6, <1>8
  <2> QED
    BY <2>2, <2>3
<1>10. ASSUME NEW x \in DOMAIN P, x \notin (l + 1)..(l + d)
       PROVE  \E y \in DOMAIN Q : Place(l, d, y) = x
  <2>1. x \in 1..(l + d + e)
    BY <1>5
  <2>2. CASE x <= l
    <3>1. x \in 1..(l + e) /\ Place(l, d, x) = x
      BY <2>1, <2>2 DEF Place
    <3> QED
      BY <3>1, <1>5
  <2>3. CASE x > l + d
    <3>1. PICK y \in 1..(l + e) : y = x - d
      BY <2>1, <2>3
    <3>2. Place(l, d, y) = x
      BY <2>1, <2>3, <3>1 DEF Place
    <3> QED
      BY <3>1, <3>2, <1>5
  <2> QED
    BY <2>1, <2>2, <2>3, <1>10
<1>11. Shorter(P, Q, l, d)
  BY <1>9, <1>10 DEF Shorter
<1>12. ASSUME NEW x \in (l + 1)..(l + d)
       PROVE  x - l \in DOMAIN b /\ P[x] = b[x - l]
  <2>1. /\ x \in 1..(l + d) /\ x \in 1..(l + d + e) /\ x <= l + d /\ ~(x <= l)
        /\ x - l \in 1..d
    OBVIOUS
  <2>2. DOMAIN b = 1..d
    BY <1>1, LenProperties
  <2> QED
    BY <2>1, <2>2, <1>7, <1>8
<1>13. LiesIn(P, l, d, b)
  BY <1>12 DEF LiesIn
<1> QED
  BY <1>1, <1>2, <1>11, <1>13

\* Enough for Delimited: what is wrong stays whichever steps out of Z are left out.
Stays(P, Good, Z, i, j, k) ==
  \A l, d \in Nat, Q \in Seq(Step) :
    /\ Apart(l, d, i, j, k) /\ Shorter(P, Q, l, d)
    /\ \A x \in (l + 1)..(l + d) : P[x] \in Z
    => Q \notin Good

LEMMA DelimitedIf ==
  ASSUME NEW Z \in SUBSET Step, NEW B \in SUBSET Seq(Z), NEW Good,
         \A P \in Seq(Step) \ Good : \E i, j, k \in Nat : Stays(P, Good, Z, i, j, k)
  PROVE  Delimited(Good, B)
<1> SUFFICES ASSUME NEW P \in Seq(Step) \ Good
             PROVE  \E i, j, k \in Nat : Shown(P, Good, B, i, j, k)
  BY DEF Delimited
<1>1. PICK i, j, k \in Nat : Stays(P, Good, Z, i, j, k)
  OBVIOUS
<1>2. ASSUME NEW u \in Seq(Step), NEW v \in Seq(Step), NEW b \in B, P = Join(Join(u, b), v),
             Apart(Len(u), Len(b), i, j, k)
      PROVE  Join(u, v) \notin Good
  <2>1. b \in Seq(Step) /\ \A x \in DOMAIN b : b[x] \in Z
    <3>1. b \in Seq(Z) /\ Z \subseteq Step
      OBVIOUS
    <3> QED
      BY <3>1, LenProperties, ElementOfSeq
  <2>2. /\ Len(u) \in Nat /\ Len(b) \in Nat /\ Join(u, v) \in Seq(Step)
        /\ Shorter(P, Join(u, v), Len(u), Len(b))
        /\ LiesIn(P, Len(u), Len(b), b)
    BY <1>2, <2>1, LeftOut
  <2>3. \A x \in (Len(u) + 1)..(Len(u) + Len(b)) : P[x] \in Z
    BY <2>1, <2>2 DEF LiesIn
  <2> QED
    BY <1>1, <1>2, <2>2, <2>3 DEF Stays
<1>3. Shown(P, Good, B, i, j, k)
  BY <1>2, Zenon DEF Shown
<1> QED
  BY <1>3

\* A step that is not left out is in its place.
LEMMA Kept ==
  ASSUME NEW P, NEW Q, NEW l, NEW d, Shorter(P, Q, l, d),
         NEW i, NEW j, NEW k, Apart(l, d, i, j, k), NEW x \in DOMAIN P \cap {i, j, k}
  PROVE  \E y \in DOMAIN Q : Place(l, d, y) = x /\ Q[y] = P[x]
<1>1. x \notin (l + 1)..(l + d)
  BY DEF Apart
<1>2. PICK y \in DOMAIN Q : Place(l, d, y) = x
  BY <1>1, Zenon DEF Shorter
<1>3. Q[y] = P[Place(l, d, y)]
  BY Zenon DEF Shorter
<1> QED
  BY <1>2, <1>3

\* Every step of the shorter path is one of the longer one, in the same order.
LEMMA Origin ==
  ASSUME NEW P, NEW Q \in Seq(Step), NEW l \in Nat, NEW d \in Nat, Shorter(P, Q, l, d)
  PROVE  /\ \A y \in DOMAIN Q : y \in Nat /\ Place(l, d, y) \in DOMAIN P /\ Q[y] = P[Place(l, d, y)]
         /\ \A y, z \in DOMAIN Q : /\ y < z <=> Place(l, d, y) < Place(l, d, z)
                                   /\ Place(l, d, y) = Place(l, d, z) <=> y = z
<1>1. \A y \in DOMAIN Q : y \in Nat
  BY LenProperties
<1>2. \A y \in DOMAIN Q : Place(l, d, y) \in DOMAIN P /\ Q[y] = P[Place(l, d, y)]
  BY Zenon DEF Shorter
<1>3. \A y, z \in DOMAIN Q : /\ y < z <=> Place(l, d, y) < Place(l, d, z)
                             /\ Place(l, d, y) = Place(l, d, z) <=> y = z
  <2> SUFFICES ASSUME NEW y \in DOMAIN Q, NEW z \in DOMAIN Q
               PROVE  /\ y < z <=> Place(l, d, y) < Place(l, d, z)
                      /\ Place(l, d, y) = Place(l, d, z) <=> y = z
    OBVIOUS
  <2>1. y \in Nat /\ z \in Nat
    BY <1>1
  <2> QED
    BY <2>1 DEF Place
<1> QED
  BY <1>1, <1>2, <1>3

LEMMA QuietStays ==
  ASSUME NEW P \in Seq(Step), ~Quiet(P)
  PROVE  \E i, j, k \in Nat : Stays(P, {x \in Seq(Step) : Quiet(x)}, Step, i, j, k)
<1>1. PICK i, j \in DOMAIN P : P[i] = "throw" /\ i < j /\ P[j] \in Native
  BY DEF Quiet
<1>2. i \in Nat /\ j \in Nat
  BY LenProperties
<1>3. ASSUME NEW l \in Nat, NEW d \in Nat, NEW Q \in Seq(Step),
             Apart(l, d, i, j, j), Shorter(P, Q, l, d)
      PROVE  ~Quiet(Q)
  <2>1. PICK y \in DOMAIN Q : Place(l, d, y) = i /\ Q[y] = P[i]
    BY <1>3, Kept
  <2>2. PICK z \in DOMAIN Q : Place(l, d, z) = j /\ Q[z] = P[j]
    BY <1>3, Kept
  <2>3. y < z
    BY <1>1, <1>3, <2>1, <2>2, Origin
  <2> QED
    BY <1>1, <2>1, <2>2, <2>3 DEF Quiet
<1>4. Stays(P, {x \in Seq(Step) : Quiet(x)}, Step, i, j, j)
  BY <1>3 DEF Stays
<1> QED
  BY <1>2, <1>4

LEMMA LookedStays ==
  ASSUME NEW P \in Seq(Step), ~Looked(P)
  PROVE  \E i, j, k \in Nat : Stays(P, {x \in Seq(Step) : Looked(x)}, Step, i, j, k)
<1>1. PICK i \in DOMAIN P : /\ P[i] \in {"ask", "fails", "try"}
                            /\ \A j \in DOMAIN P : i < j => P[j] \notin {"err", "throw"}
  BY DEF Looked
<1>2. i \in Nat
  BY LenProperties
<1>3. ASSUME NEW l \in Nat, NEW d \in Nat, NEW Q \in Seq(Step),
             Apart(l, d, i, i, i), Shorter(P, Q, l, d)
      PROVE  ~Looked(Q)
  <2>1. PICK y \in DOMAIN Q : Place(l, d, y) = i /\ Q[y] = P[i]
    BY <1>3, Kept
  <2>2. \A z \in DOMAIN Q : y < z => Q[z] \notin {"err", "throw"}
    BY <1>1, <1>3, <2>1, Origin
  <2> QED
    BY <1>1, <2>1, <2>2 DEF Looked
<1>4. Stays(P, {x \in Seq(Step) : Looked(x)}, Step, i, i, i)
  BY <1>3 DEF Stays
<1> QED
  BY <1>2, <1>4

LEMMA CleanStays ==
  ASSUME NEW P \in Seq(Step), ~Clean(P)
  PROVE  \E i, j, k \in Nat : Stays(P, {x \in Seq(Step) : Clean(x)}, Step, i, j, k)
<1> DEFINE Unseen(p, i, j, k) == /\ k < j /\ k # i /\ p[k] \in {"ask", "fails", "try"}
                                 /\ \A l \in DOMAIN p : k < l /\ l < j => p[l] # "err"
           Late(p, i, j, k) == i < j /\ p[j] \in Throwing /\ (p[j] # "err" \/ Unseen(p, i, j, k))
           Worse(p, i, j, k) == p[i] \in Writing /\ (p[j] = "throw" \/ Late(p, i, j, k))
<1>1. ASSUME NEW p \in Seq(Step)
      PROVE  Clean(p) <=> ~ \E i, j, k \in DOMAIN p : Worse(p, i, j, k)
  <2>1. DOMAIN p = 1..Len(p) /\ Len(p) \in Nat
    BY LenProperties
  <2>2. ASSUME NEW i \in DOMAIN p, NEW j \in DOMAIN p
        PROVE  (\A k \in 1..(j-1) : k # i /\ p[k] \in {"ask", "fails", "try"} =>
                  \E l \in (k+1)..(j-1) : p[l] = "err")
               <=> ~ \E k \in DOMAIN p : Unseen(p, i, j, k)
    <3>1. \A k \in DOMAIN p : k \in 1..(j-1) <=> k < j
      BY <2>1
    <3>2. \A k \in 1..(j-1) : k \in DOMAIN p
      BY <2>1
    <3>3. \A k \in DOMAIN p, l \in DOMAIN p : l \in (k+1)..(j-1) <=> k < l /\ l < j
      BY <2>1
    <3>4. \A k \in DOMAIN p : \A l \in (k+1)..(j-1) : l \in DOMAIN p
      BY <2>1
    <3> QED
      BY <3>1, <3>2, <3>3, <3>4
  <2>3. ASSUME NEW i \in DOMAIN p, NEW j \in DOMAIN p
        PROVE  (p[i] \in Writing =>
                 /\ p[j] # "throw"
                 /\ i < j /\ p[j] \in Throwing =>
                      /\ p[j] = "err"
                      /\ \A k \in 1..(j-1) : k # i /\ p[k] \in {"ask", "fails", "try"} =>
                           \E l \in (k+1)..(j-1) : p[l] = "err")
               <=> ~ \E k \in DOMAIN p : Worse(p, i, j, k)
    <3> DEFINE Seen == \A k \in 1..(j-1) : k # i /\ p[k] \in {"ask", "fails", "try"} =>
                         \E l \in (k+1)..(j-1) : p[l] = "err"
    <3>1. Seen <=> ~ \E k \in DOMAIN p : Unseen(p, i, j, k)
      BY <2>2
    <3> HIDE DEF Seen, Unseen
    <3>2. (p[i] \in Writing =>
            p[j] # "throw" /\ (i < j /\ p[j] \in Throwing => p[j] = "err" /\ Seen))
          <=> ~ \E k \in DOMAIN p : Worse(p, i, j, k)
      BY <3>1
    <3> QED
      BY <3>2, Zenon DEF Seen
  <2> HIDE DEF Worse
  <2> QED
    BY <2>3 DEF Clean
<1>2. PICK i, j, k \in DOMAIN P : Worse(P, i, j, k)
  BY <1>1
<1>3. i \in Nat /\ j \in Nat /\ k \in Nat
  BY LenProperties
<1>4. ASSUME NEW l \in Nat, NEW d \in Nat, NEW Q \in Seq(Step),
             Apart(l, d, i, j, k), Shorter(P, Q, l, d)
      PROVE  ~Clean(Q)
  <2>1. PICK y \in DOMAIN Q : Place(l, d, y) = i /\ Q[y] = P[i]
    BY <1>4, Kept
  <2>2. PICK z \in DOMAIN Q : Place(l, d, z) = j /\ Q[z] = P[j]
    BY <1>4, Kept
  <2>3. PICK w \in DOMAIN Q : Place(l, d, w) = k /\ Q[w] = P[k]
    BY <1>4, Kept
  <2>4. Unseen(P, i, j, k) => Unseen(Q, y, z, w)
    BY <1>4, <2>1, <2>2, <2>3, Origin
  <2>5. i < j => y < z
    BY <1>4, <2>1, <2>2, Origin
  <2>6. Late(P, i, j, k) => Late(Q, y, z, w)
    <3> HIDE DEF Unseen
    <3> QED
      BY <2>2, <2>4, <2>5
  <2> HIDE DEF Late
  <2>7. Worse(Q, y, z, w)
    BY <1>2, <2>1, <2>2, <2>6
  <2> HIDE DEF Worse
  <2> QED
    BY <1>1, <2>7
<1>5. Stays(P, {x \in Seq(Step) : Clean(x)}, Step, i, j, k)
  <2> HIDE DEF Worse
  <2> QED
    BY <1>4 DEF Stays
<1> QED
  BY <1>3, <1>5

\* Each step of A before the j-th is followed, before it, by one of X; then so is the
\* last.  k is that one of X, or j where there is none.
Undone(P, j, A, X) ==
  \A i \in 1..(j-1) : P[i] \in A => \E k \in (i+1)..(j-1) : P[k] \in X
LastUndone(P, j, k, A, X) ==
  /\ k \in 1..j /\ (k < j => P[k] \in X)
  /\ \A i \in 1..(j-1) : P[i] \in A => i < k /\ k < j
  /\ k = j => \A i \in 1..(j-1) : P[i] \notin X

LEMMA LastUndoing ==
  ASSUME NEW P, NEW j \in Nat, j # 0, NEW A, NEW X, Undone(P, j, A, X)
  PROVE  \E k \in Nat : LastUndone(P, j, k, A, X)
<1>1. CASE \A i \in 1..(j-1) : P[i] \notin X
  <2>1. \A i \in 1..(j-1) : \A k \in (i+1)..(j-1) : k \in 1..(j-1)
    OBVIOUS
  <2>2. \A i \in 1..(j-1) : P[i] \notin A
    BY <1>1, <2>1 DEF Undone
  <2>3. j \in 1..j /\ ~(j < j)
    OBVIOUS
  <2> QED
    BY <1>1, <2>2, <2>3 DEF LastUndone
<1>2. CASE \E i \in 1..(j-1) : P[i] \in X
  <2> DEFINE S == {n \in Nat : \E k \in 1..(j-1) : n = j - k /\ P[k] \in X}
  <2>1. S \in SUBSET Nat
    OBVIOUS
  <2>2. S # {}
    <3>1. PICK k \in 1..(j-1) : P[k] \in X
      BY <1>2
    <3>2. j - k \in Nat
      OBVIOUS
    <3> QED
      BY <3>1, <3>2
  <2>3. PICK n \in S : \A m \in S : n <= m
    <3> HIDE DEF S
    <3> QED
      BY <2>1, <2>2, LeastNatural
  <2>4. PICK k \in 1..(j-1) : n = j - k /\ P[k] \in X
    OBVIOUS
  <2>5. ASSUME NEW i \in 1..(j-1), P[i] \in X PROVE i <= k
    <3>1. j - i \in Nat
      OBVIOUS
    <3>2. j - i \in S
      BY <2>5, <3>1
    <3>3. n <= j - i
      BY <2>3, <3>2
    <3> QED
      BY <2>4, <3>3
  <2>6. ASSUME NEW i \in 1..(j-1), P[i] \in A PROVE i < k
    <3>1. PICK h \in (i+1)..(j-1) : P[h] \in X
      BY <2>6 DEF Undone
    <3>2. h \in 1..(j-1) /\ i < h
      OBVIOUS
    <3>3. h <= k
      BY <2>5, <3>1, <3>2
    <3> QED
      BY <3>2, <3>3
  <2>7. k \in 1..j /\ k < j /\ k # j /\ k \in Nat
    OBVIOUS
  <2> HIDE DEF S
  <2> QED
    BY <2>4, <2>6, <2>7 DEF LastUndone
<1> QED
  BY <1>1, <1>2

\* What LastUndone says of a path it says of a shorter one.
LEMMA StillUndone ==
  ASSUME NEW P \in Seq(Step), NEW Q \in Seq(Step), NEW l \in Nat, NEW d \in Nat,
         Shorter(P, Q, l, d), NEW h, NEW j \in DOMAIN P, NEW k \in Nat, Apart(l, d, h, j, k),
         NEW A, NEW X, LastUndone(P, j, k, A, X), NEW z \in DOMAIN Q, Place(l, d, z) = j
  PROVE  /\ Undone(Q, z, A, X)
         /\ k < j => \E w \in 1..(z-1) : Q[w] \in X
<1>1. DOMAIN P = 1..Len(P) /\ DOMAIN Q = 1..Len(Q) /\ Len(P) \in Nat /\ Len(Q) \in Nat
  BY LenProperties
<1>2. k \in DOMAIN P /\ j \in Nat /\ z \in Nat
  BY <1>1 DEF LastUndone
<1>3. PICK w \in DOMAIN Q : Place(l, d, w) = k /\ Q[w] = P[k]
  BY <1>2, Kept
<1>4. w \in Nat
  BY <1>1
<1>5. \A i \in 1..(z-1) : i \in DOMAIN Q /\ i < z
  BY <1>1, <1>2
<1>6. ASSUME k < j PROVE w \in 1..(z-1) /\ Q[w] \in X
  <2>1. w < z
    BY <1>3, <1>6, Origin
  <2>2. w \in 1..Len(Q)
    BY <1>1
  <2>3. P[k] \in X
    BY <1>6 DEF LastUndone
  <2> QED
    BY <1>2, <1>3, <2>1, <2>2, <2>3
<1>7. ASSUME NEW i \in 1..(z-1), Q[i] \in A PROVE \E x \in (i+1)..(z-1) : Q[x] \in X
  <2>1. i \in DOMAIN Q /\ i < z
    BY <1>5
  <2>2. Place(l, d, i) \in DOMAIN P /\ P[Place(l, d, i)] \in A /\ Place(l, d, i) < j
    BY <1>7, <2>1, Origin
  <2>3. PICK g \in DOMAIN P : g = Place(l, d, i)
    BY <2>2
  <2>4. g \in 1..(j-1)
    BY <1>1, <1>2, <2>2, <2>3
  <2>5. g < k /\ k < j
    BY <2>2, <2>3, <2>4 DEF LastUndone
  <2>6. i < w
    BY <1>3, <2>1, <2>3, <2>5, Origin
  <2>7. w \in (i+1)..(z-1) /\ Q[w] \in X
    BY <1>4, <1>6, <2>5, <2>6
  <2> QED
    BY <2>7
<1> QED
  BY <1>6, <1>7 DEF Undone

LEMMA PromptStays ==
  ASSUME NEW P \in Seq(Step), ~Prompt(P)
  PROVE  \E i, j, k \in Nat : Stays(P, {x \in Seq(Step) : Prompt(x)}, Step, i, j, k)
<1>1. PICK j \in DOMAIN P : /\ P[j] = "rely"
                            /\ Undone(P, j, {"measure"}, Program)
  BY DEF Prompt, Undone
<1>2. j \in Nat /\ j # 0
  BY LenProperties
<1>3. PICK k \in Nat : LastUndone(P, j, k, {"measure"}, Program)
  BY <1>1, <1>2, LastUndoing
<1>4. ASSUME NEW l \in Nat, NEW d \in Nat, NEW Q \in Seq(Step),
             Apart(l, d, j, j, k), Shorter(P, Q, l, d)
      PROVE  ~Prompt(Q)
  <2>1. PICK z \in DOMAIN Q : Place(l, d, z) = j /\ Q[z] = P[j]
    BY <1>4, Kept
  <2>2. Undone(Q, z, {"measure"}, Program)
    BY <1>3, <1>4, <2>1, StillUndone
  <2> QED
    BY <1>1, <2>1, <2>2 DEF Prompt, Undone
<1>5. Stays(P, {x \in Seq(Step) : Prompt(x)}, Step, j, j, k)
  BY <1>4 DEF Stays
<1> QED
  BY <1>2, <1>3, <1>5

\* The j-th step uses a native object nobody has looked at, or not since.
Bare(c, m, P, j) ==
  /\ c \notin Mortal => \E k \in 1..(j-1) : P[k] = "close"
  /\ m = "New" => \E k \in 1..(j-1) : P[k] \in Killing
  /\ Undone(P, j, {"self"}, Killing)
Spoilt(P, j) == \E i, k \in 1..(j-1) : P[i] \in Wrapper /\ i < k /\ P[k] \in Program

LEMMA NotGuarded ==
  ASSUME NEW c, NEW m, NEW P
  PROVE  ~Guarded(c, m, P) <=>
           \E j \in DOMAIN P : P[j] \in Native /\ (Bare(c, m, P, j) \/ Spoilt(P, j))
<1>1. ASSUME NEW j
      PROVE  Bare(c, m, P, j) <=>
               ~(\/ c \notin Mortal /\ \A k \in 1..(j-1) : P[k] # "close"
                 \/ m = "New" /\ \A k \in 1..(j-1) : P[k] \notin Program \cup {"close"}
                 \/ \E i \in 1..(j-1) : P[i] = "self" /\
                      \A k \in (i+1)..(j-1) : P[k] \notin Program \cup {"close"})
  BY Zenon DEF Bare, Undone, Killing
<1>2. ASSUME NEW j
      PROVE  Spoilt(P, j) <=>
               ~ \A i, k \in 1..(j-1) : P[i] \in Wrapper /\ i < k => P[k] \notin Program
  BY DEF Spoilt
<1> QED
  BY <1>1, <1>2, Zenon DEF Guarded

\* What comes before a step that is not left out still comes before it.
LEMMA StillBefore ==
  ASSUME NEW P \in Seq(Step), NEW Q \in Seq(Step), NEW l \in Nat, NEW d \in Nat,
         Shorter(P, Q, l, d), NEW h, NEW i, NEW j \in DOMAIN P, Apart(l, d, h, i, j),
         NEW x \in 1..(j-1) \cap {h, i}, NEW z \in DOMAIN Q, Place(l, d, z) = j
  PROVE  \E w \in 1..(z-1) : Place(l, d, w) = x /\ Q[w] = P[x]
<1>1. DOMAIN P = 1..Len(P) /\ DOMAIN Q = 1..Len(Q) /\ Len(P) \in Nat /\ Len(Q) \in Nat
  BY LenProperties
<1>2. j \in Nat /\ z \in Nat /\ x \in DOMAIN P /\ x < j /\ x \in {h, i, j}
  BY <1>1
<1>3. PICK w \in DOMAIN Q : Place(l, d, w) = x /\ Q[w] = P[x]
  BY <1>2, Kept
<1>4. w < z
  BY <1>2, <1>3, Origin
<1>5. w \in 1..(z-1)
  BY <1>1, <1>2, <1>4
<1> QED
  BY <1>3, <1>5

LEMMA GuardedStays ==
  ASSUME NEW c, NEW m, NEW P \in Seq(Step), ~Guarded(c, m, P)
  PROVE  \E i, j, k \in Nat : Stays(P, {x \in Seq(Step) : Guarded(c, m, x)}, Step, i, j, k)
<1>1. PICK j \in DOMAIN P : P[j] \in Native /\ (Bare(c, m, P, j) \/ Spoilt(P, j))
  BY NotGuarded
<1>2. j \in Nat /\ j # 0
  BY LenProperties
<1>3. CASE Bare(c, m, P, j)
  <2>1. PICK k \in Nat : LastUndone(P, j, k, {"self"}, Killing)
    BY <1>2, <1>3, LastUndoing DEF Bare
  <2>2. PICK h \in Nat : c \notin Mortal => h \in 1..(j-1) /\ P[h] = "close"
    <3>1. CASE c \notin Mortal
      BY <1>3, <3>1 DEF Bare
    <3>2. CASE c \in Mortal
      BY <3>2
    <3> QED
      BY <3>1, <3>2
  <2>3. m = "New" => k < j
    <3>1. m = "New" => k # j
      BY <1>3, <2>1, Zenon DEF Bare, LastUndone
    <3>2. k \in 1..j
      BY <2>1 DEF LastUndone
    <3> QED
      BY <1>2, <3>1, <3>2
  <2>4. ASSUME NEW l \in Nat, NEW d \in Nat, NEW Q \in Seq(Step),
               Apart(l, d, h, j, k), Shorter(P, Q, l, d)
        PROVE  ~Guarded(c, m, Q)
    <3>1. PICK z \in DOMAIN Q : Place(l, d, z) = j /\ Q[z] = P[j]
      BY <2>4, Kept
    <3>2. Undone(Q, z, {"self"}, Killing) /\ (k < j => \E w \in 1..(z-1) : Q[w] \in Killing)
      BY <2>1, <2>4, <3>1, StillUndone
    <3>3. c \notin Mortal => \E w \in 1..(z-1) : Q[w] = "close"
      <4>1. Apart(l, d, h, h, j)
        BY <2>4 DEF Apart
      <4> QED
        BY <2>2, <2>4, <3>1, <4>1, StillBefore
    <3>4. Bare(c, m, Q, z)
      BY <2>3, <3>2, <3>3 DEF Bare
    <3> QED
      BY <1>1, <3>1, <3>4, NotGuarded
  <2>5. Stays(P, {x \in Seq(Step) : Guarded(c, m, x)}, Step, h, j, k)
    BY <2>4 DEF Stays
  <2> QED
    BY <1>2, <2>5
<1>4. CASE Spoilt(P, j)
  <2>1. PICK i, k \in 1..(j-1) : P[i] \in Wrapper /\ i < k /\ P[k] \in Program
    BY <1>4 DEF Spoilt
  <2>2. i \in Nat /\ k \in Nat
    OBVIOUS
  <2>3. ASSUME NEW l \in Nat, NEW d \in Nat, NEW Q \in Seq(Step),
               Apart(l, d, i, k, j), Shorter(P, Q, l, d)
        PROVE  ~Guarded(c, m, Q)
    <3>1. PICK z \in DOMAIN Q : Place(l, d, z) = j /\ Q[z] = P[j]
      BY <2>3, Kept
    <3>2. PICK y \in 1..(z-1) : Place(l, d, y) = i /\ Q[y] = P[i]
      BY <2>3, <3>1, StillBefore
    <3>3. PICK w \in 1..(z-1) : Place(l, d, w) = k /\ Q[w] = P[k]
      BY <2>3, <3>1, StillBefore
    <3>4. y < w
      <4>1. DOMAIN Q = 1..Len(Q) /\ Len(Q) \in Nat
        BY LenProperties
      <4>2. y \in DOMAIN Q /\ w \in DOMAIN Q
        BY <4>1
      <4> QED
        BY <2>1, <2>3, <3>2, <3>3, <4>2, Origin
    <3>5. Spoilt(Q, z)
      BY <2>1, <3>2, <3>3, <3>4 DEF Spoilt
    <3> QED
      BY <1>1, <3>1, <3>5, NotGuarded
  <2>4. Stays(P, {x \in Seq(Step) : Guarded(c, m, x)}, Step, i, k, j)
    BY <2>3 DEF Stays
  <2> QED
    BY <1>2, <2>2, <2>4
<1> QED
  BY <1>1, <1>3, <1>4

\* Steps that neither allocate nor release.
Light == Step \ {"new", "free", "own"}

\* How many of the first n steps are of H.
HowMany(p, n, H) == Cardinality({i \in 1..n : p[i] \in H})

\* No step of H is left out, so there are as many.
LEMMA AsMany ==
  ASSUME NEW P \in Seq(Step), NEW Q \in Seq(Step), NEW l \in Nat, NEW d \in Nat,
         Shorter(P, Q, l, d), NEW H, \A x \in (l + 1)..(l + d) : P[x] \notin H,
         NEW z \in DOMAIN Q, NEW j \in Nat, Place(l, d, z) = j
  PROVE  HowMany(Q, z, H) = HowMany(P, j, H)
<1> DEFINE S == {i \in 1..z : Q[i] \in H}
           T == {i \in 1..j : P[i] \in H}
           f == [i \in S |-> Place(l, d, i)]
<1>1. DOMAIN P = 1..Len(P) /\ DOMAIN Q = 1..Len(Q) /\ Len(P) \in Nat /\ Len(Q) \in Nat
  BY LenProperties
<1>2. z \in Nat /\ j \in DOMAIN P
  BY <1>1, Origin
<1>3. IsFiniteSet(S)
  <2>1. IsFiniteSet(1..z) /\ S \in SUBSET (1..z)
    BY <1>2, FS_Interval
  <2> QED
    BY <2>1, FS_Subset
<1>4. ASSUME NEW y \in S PROVE y \in DOMAIN Q /\ Place(l, d, y) \in T
  <2>1. y \in DOMAIN Q /\ (y = z \/ y < z) /\ Q[y] \in H
    BY <1>1, <1>2
  <2>2. Place(l, d, y) \in DOMAIN P /\ P[Place(l, d, y)] \in H
    BY <2>1, Origin
  <2>3. Place(l, d, y) = j \/ Place(l, d, y) < j
    BY <2>1, Origin
  <2> QED
    BY <1>1, <1>2, <2>2, <2>3
<1>5. ASSUME NEW x \in T PROVE \E y \in S : Place(l, d, y) = x
  <2>1. x \in DOMAIN P /\ P[x] \in H /\ x \in Nat /\ x <= j
    BY <1>1, <1>2
  <2>2. x \notin (l + 1)..(l + d)
    BY <2>1
  <2>3. PICK y \in DOMAIN Q : Place(l, d, y) = x
    BY <2>1, <2>2, Zenon DEF Shorter
  <2>4. y \in Nat /\ Q[y] \in H /\ ~(z < y)
    BY <1>2, <2>1, <2>3, Origin
  <2>5. y \in 1..z
    BY <1>1, <1>2, <2>4
  <2> QED
    BY <2>3, <2>4, <2>5
<1>6. \A a, b \in S : f[a] = f[b] => a = b
  BY <1>4, Origin
<1>7. f \in [S -> T]
  BY <1>4
<1>8. \A t \in T : \E s \in S : f[s] = t
  BY <1>5
<1>9. ExistsBijection(S, T)
  <2> HIDE DEF S, T, f
  <2>1. f \in Bijection(S, T)
    BY <1>6, <1>7, <1>8, Fun_IsBij
  <2> QED
    BY <2>1 DEF ExistsBijection
<1> HIDE DEF S, T
<1>10. Cardinality(S) = Cardinality(T)
  BY <1>3, <1>9, FS_Bijection
<1> QED
  BY <1>10 DEF S, T, HowMany

LEMMA HoldsAsMuch ==
  ASSUME NEW P \in Seq(Step), NEW Q \in Seq(Step), NEW l \in Nat, NEW d \in Nat,
         Shorter(P, Q, l, d), \A x \in (l + 1)..(l + d) : P[x] \in Light,
         NEW z \in DOMAIN Q, NEW j \in Nat, Place(l, d, z) = j
  PROVE  Allocated(Q, z) = Allocated(P, j) /\ Released(Q, z) = Released(P, j)
<1>1. \A x \in (l + 1)..(l + d) : P[x] \notin {"new"} /\ P[x] \notin {"free", "own"}
  BY DEF Light
<1>2. \A p, n : /\ Allocated(p, n) = HowMany(p, n, {"new"})
                /\ Released(p, n) = HowMany(p, n, {"free", "own"})
  <2> SUFFICES ASSUME NEW p, NEW n
               PROVE  Allocated(p, n) = HowMany(p, n, {"new"})
    BY DEF Released, HowMany
  <2>1. {i \in 1..n : p[i] = "new"} = {i \in 1..n : p[i] \in {"new"}}
    OBVIOUS
  <2> QED
    BY <2>1 DEF Allocated, HowMany
<1>3. HowMany(Q, z, {"new"}) = HowMany(P, j, {"new"})
  BY <1>1, AsMany
<1>4. HowMany(Q, z, {"free", "own"}) = HowMany(P, j, {"free", "own"})
  BY <1>1, AsMany
<1> QED
  BY <1>2, <1>3, <1>4

LEMMA PairedStays ==
  ASSUME NEW P \in Seq(Step), ~Paired(P)
  PROVE  \E i, j, k \in Nat : Stays(P, {x \in Seq(Step) : Paired(x)}, Light, i, j, k)
<1>1. PICK j \in DOMAIN P : ~(Released(P, j) <= Allocated(P, j))
  BY Zenon DEF Paired
<1>2. j \in Nat
  BY LenProperties
<1>3. ASSUME NEW l \in Nat, NEW d \in Nat, NEW Q \in Seq(Step),
             Apart(l, d, j, j, j), Shorter(P, Q, l, d), \A x \in (l + 1)..(l + d) : P[x] \in Light
      PROVE  ~Paired(Q)
  <2>1. PICK z \in DOMAIN Q : Place(l, d, z) = j /\ Q[z] = P[j]
    BY <1>3, Kept
  <2>2. Allocated(Q, z) = Allocated(P, j) /\ Released(Q, z) = Released(P, j)
    BY <1>2, <1>3, <2>1, HoldsAsMuch
  <2> QED
    BY <1>1, <2>1, <2>2, Zenon DEF Paired
<1>4. Stays(P, {x \in Seq(Step) : Paired(x)}, Light, j, j, j)
  BY <1>3 DEF Stays
<1> QED
  BY <1>2, <1>4

LEMMA TidyStays ==
  ASSUME NEW P \in Seq(Step), ~Tidy(P)
  PROVE  \E i, j, k \in Nat : Stays(P, {x \in Seq(Step) : Tidy(x)}, Light, i, j, k)
<1>1. DOMAIN P = 1..Len(P) /\ Len(P) \in Nat
  BY LenProperties
<1>2. PICK j \in DOMAIN P : /\ j = Len(P) \/ P[j] \in Throwing
                            /\ Released(P, j) # Allocated(P, j)
  <2>1. CASE Released(P, Len(P)) # Allocated(P, Len(P))
    <3>1. Len(P) # 0
      BY <2>1, NothingYet
    <3> QED
      BY <1>1, <2>1, <3>1
  <2>2. CASE Released(P, Len(P)) = Allocated(P, Len(P))
    BY <2>2 DEF Tidy
  <2> QED
    BY <2>1, <2>2
<1>3. j \in Nat
  BY <1>1
<1>4. ASSUME NEW l \in Nat, NEW d \in Nat, NEW Q \in Seq(Step),
             Apart(l, d, j, j, j), Shorter(P, Q, l, d), \A x \in (l + 1)..(l + d) : P[x] \in Light
      PROVE  ~Tidy(Q)
  <2>1. PICK z \in DOMAIN Q : Place(l, d, z) = j /\ Q[z] = P[j]
    BY <1>4, Kept
  <2>2. Allocated(Q, z) = Allocated(P, j) /\ Released(Q, z) = Released(P, j)
    BY <1>3, <1>4, <2>1, HoldsAsMuch
  <2>3. j = Len(P) => z = Len(Q)
    <3>1. DOMAIN Q = 1..Len(Q) /\ Len(Q) \in Nat
      BY LenProperties
    <3>2. Len(Q) \in DOMAIN Q /\ z <= Len(Q) /\ z \in Nat
      BY <3>1
    <3>3. Place(l, d, Len(Q)) \in DOMAIN P
      BY <1>4, <3>2, Origin
    <3>4. ASSUME j = Len(P) PROVE ~(Place(l, d, z) < Place(l, d, Len(Q)))
      BY <1>1, <2>1, <3>3, <3>4
    <3>5. z < Len(Q) => Place(l, d, z) < Place(l, d, Len(Q))
      BY <1>4, <3>2, Origin
    <3> QED
      BY <3>2, <3>4, <3>5
  <2> QED
    BY <1>2, <2>1, <2>2, <2>3 DEF Tidy
<1>5. Stays(P, {x \in Seq(Step) : Tidy(x)}, Light, j, j, j)
  BY <1>4 DEF Stays
<1> QED
  BY <1>3, <1>5

LEMMA SomeTimesType ==
  ASSUME NEW B \in SUBSET Seq(Step), NEW p \in Seq(Step), NEW q \in Seq(Step)
  PROVE  \A x \in Around(p, SomeTimes(B), q) : x \in Seq(Step)
<1>1. \A x \in SomeTimes(B) : x \in Seq(Step)
  <2>1. SomeTimes(B) = B \cup Then(B, B) \cup Then(Then(B, B), B)
    BY DEF SomeTimes, Then
  <2>2. \A x \in Then(B, B) : x \in Seq(Step)
    BY InThen, JoinFacts
  <2>3. \A x \in Then(Then(B, B), B) : x \in Seq(Step)
    BY <2>2, InThen, JoinFacts
  <2> QED
    BY <2>1, <2>2, <2>3
<1> QED
  BY <1>1, InAround, JoinFacts

LEMMA AllRounds ==
  ASSUME NEW Z \in SUBSET Step, NEW B \in SUBSET Seq(Z), NEW L, Rounds(L, B),
         NEW p \in Seq(Step), NEW q \in Seq(Step), NEW n \in Nat \ {0}, NEW Good,
         \A P \in Seq(Step) \ Good : \E i, j, k \in Nat : Stays(P, Good, Z, i, j, k),
         Around(p, SomeTimes(B), q) \subseteq Good
  PROVE  Around(p, L[n], q) \subseteq Good
<1>1. B \in SUBSET Seq(Step)
  <2>1. \A b \in B : b \in Seq(Step)
    BY SeqMonotonic
  <2> QED
    BY <2>1
<1>2. Delimited(Good, B)
  BY DelimitedIf
<1> QED
  BY <1>1, <1>2, RoundsBounded

\* However often a loop's body is taken: if the paths that take it once, twice and three
\* times have their steps in the right order, so have all others.  p and q are what
\* the call does before the loop and after it, other loops' rounds included.
THEOREM RoundsKeepOrder ==
  ASSUME NEW B \in SUBSET Seq(Step), NEW L, Rounds(L, B),
         NEW p \in Seq(Step), NEW q \in Seq(Step), NEW n \in Nat \ {0}
  PROVE  /\ \A c, m : (\A x \in Around(p, SomeTimes(B), q) : Guarded(c, m, x))
                        => \A x \in Around(p, L[n], q) : Guarded(c, m, x)
         /\ (\A x \in Around(p, SomeTimes(B), q) : Quiet(x))
              => \A x \in Around(p, L[n], q) : Quiet(x)
         /\ (\A x \in Around(p, SomeTimes(B), q) : Looked(x))
              => \A x \in Around(p, L[n], q) : Looked(x)
         /\ (\A x \in Around(p, SomeTimes(B), q) : Prompt(x))
              => \A x \in Around(p, L[n], q) : Prompt(x)
         /\ (\A x \in Around(p, SomeTimes(B), q) : Clean(x))
              => \A x \in Around(p, L[n], q) : Clean(x)
<1>1. Step \in SUBSET Step /\ \A x \in Around(p, SomeTimes(B), q) : x \in Seq(Step)
  BY SomeTimesType
<1>2. ASSUME NEW c, NEW m, \A x \in Around(p, SomeTimes(B), q) : Guarded(c, m, x)
      PROVE  \A x \in Around(p, L[n], q) : Guarded(c, m, x)
  <2> DEFINE Good == {x \in Seq(Step) : Guarded(c, m, x)}
  <2>1. \A P \in Seq(Step) \ Good : \E i, j, k \in Nat : Stays(P, Good, Step, i, j, k)
    BY GuardedStays
  <2>2. Around(p, SomeTimes(B), q) \subseteq Good
    BY <1>1, <1>2
  <2>3. Around(p, L[n], q) \subseteq Good
    <3> HIDE DEF Good
    <3> QED
      BY <1>1, <2>1, <2>2, AllRounds
  <2> QED
    BY <2>3
<1>3. ASSUME \A x \in Around(p, SomeTimes(B), q) : Quiet(x)
      PROVE  \A x \in Around(p, L[n], q) : Quiet(x)
  <2> DEFINE Good == {x \in Seq(Step) : Quiet(x)}
  <2>1. \A P \in Seq(Step) \ Good : \E i, j, k \in Nat : Stays(P, Good, Step, i, j, k)
    BY QuietStays
  <2>2. Around(p, SomeTimes(B), q) \subseteq Good
    BY <1>1, <1>3
  <2>3. Around(p, L[n], q) \subseteq Good
    <3> HIDE DEF Good
    <3> QED
      BY <1>1, <2>1, <2>2, AllRounds
  <2> QED
    BY <2>3
<1>4. ASSUME \A x \in Around(p, SomeTimes(B), q) : Looked(x)
      PROVE  \A x \in Around(p, L[n], q) : Looked(x)
  <2> DEFINE Good == {x \in Seq(Step) : Looked(x)}
  <2>1. \A P \in Seq(Step) \ Good : \E i, j, k \in Nat : Stays(P, Good, Step, i, j, k)
    BY LookedStays
  <2>2. Around(p, SomeTimes(B), q) \subseteq Good
    BY <1>1, <1>4
  <2>3. Around(p, L[n], q) \subseteq Good
    <3> HIDE DEF Good
    <3> QED
      BY <1>1, <2>1, <2>2, AllRounds
  <2> QED
    BY <2>3
<1>5. ASSUME \A x \in Around(p, SomeTimes(B), q) : Prompt(x)
      PROVE  \A x \in Around(p, L[n], q) : Prompt(x)
  <2> DEFINE Good == {x \in Seq(Step) : Prompt(x)}
  <2>1. \A P \in Seq(Step) \ Good : \E i, j, k \in Nat : Stays(P, Good, Step, i, j, k)
    BY PromptStays
  <2>2. Around(p, SomeTimes(B), q) \subseteq Good
    BY <1>1, <1>5
  <2>3. Around(p, L[n], q) \subseteq Good
    <3> HIDE DEF Good
    <3> QED
      BY <1>1, <2>1, <2>2, AllRounds
  <2> QED
    BY <2>3
<1>6. ASSUME \A x \in Around(p, SomeTimes(B), q) : Clean(x)
      PROVE  \A x \in Around(p, L[n], q) : Clean(x)
  <2> DEFINE Good == {x \in Seq(Step) : Clean(x)}
  <2>1. \A P \in Seq(Step) \ Good : \E i, j, k \in Nat : Stays(P, Good, Step, i, j, k)
    BY CleanStays
  <2>2. Around(p, SomeTimes(B), q) \subseteq Good
    BY <1>1, <1>6
  <2>3. Around(p, L[n], q) \subseteq Good
    <3> HIDE DEF Good
    <3> QED
      BY <1>1, <2>1, <2>2, AllRounds
  <2> QED
    BY <2>3
<1> QED
  BY <1>2, <1>3, <1>4, <1>5, <1>6

\* And where the body neither allocates nor releases, however often it is taken the call
\* releases what it allocated, after it allocated it, as it does in three rounds.
THEOREM RoundsHoldNothing ==
  ASSUME NEW B \in SUBSET Seq(Light), NEW L, Rounds(L, B),
         NEW p \in Seq(Step), NEW q \in Seq(Step), NEW n \in Nat \ {0}
  PROVE  /\ (\A x \in Around(p, SomeTimes(B), q) : Paired(x))
              => \A x \in Around(p, L[n], q) : Paired(x)
         /\ (\A x \in Around(p, SomeTimes(B), q) : Tidy(x))
              => \A x \in Around(p, L[n], q) : Tidy(x)
<1>1. Light \in SUBSET Step /\ \A x \in Around(p, SomeTimes(B), q) : x \in Seq(Step)
  <2>1. Light \in SUBSET Step
    BY DEF Light
  <2>2. \A b \in B : b \in Seq(Step)
    BY <2>1, SeqMonotonic
  <2> QED
    BY <2>1, <2>2, SomeTimesType
<1>2. ASSUME \A x \in Around(p, SomeTimes(B), q) : Paired(x)
      PROVE  \A x \in Around(p, L[n], q) : Paired(x)
  <2> DEFINE Good == {x \in Seq(Step) : Paired(x)}
  <2>1. \A P \in Seq(Step) \ Good : \E i, j, k \in Nat : Stays(P, Good, Light, i, j, k)
    BY PairedStays
  <2>2. Around(p, SomeTimes(B), q) \subseteq Good
    BY <1>1, <1>2
  <2>3. Around(p, L[n], q) \subseteq Good
    <3> HIDE DEF Good
    <3> QED
      BY <1>1, <2>1, <2>2, AllRounds
  <2> QED
    BY <2>3
<1>3. ASSUME \A x \in Around(p, SomeTimes(B), q) : Tidy(x)
      PROVE  \A x \in Around(p, L[n], q) : Tidy(x)
  <2> DEFINE Good == {x \in Seq(Step) : Tidy(x)}
  <2>1. \A P \in Seq(Step) \ Good : \E i, j, k \in Nat : Stays(P, Good, Light, i, j, k)
    BY TidyStays
  <2>2. Around(p, SomeTimes(B), q) \subseteq Good
    BY <1>1, <1>3
  <2>3. Around(p, L[n], q) \subseteq Good
    <3> HIDE DEF Good
    <3> QED
      BY <1>1, <2>1, <2>2, AllRounds
  <2> QED
    BY <2>3
<1> QED
  BY <1>2, <1>3
===============================================================================
