------------------------ MODULE ControlCenter_proofs ------------------------
(***************************************************************************)
(* What the control centre shows of its app and its daemon, proved for any *)
(* number of processes and daemons, logs of any length that are read in    *)
(* any pieces, and termination handlers that run as late as they like.     *)
(***************************************************************************)
EXTENDS ControlCenter, TLAPS

Line == [slot : Slot, up : BOOLEAN]

\* The log is a sequence of connects and disconnects; what is written of it,
\* and what the task has read, are positions in it.
LogOK ==
  /\ log \in Seq(Line) /\ Len(log) <= MaxLines
  /\ written \in 0 .. 2 * Len(log)
  /\ offset \in 0 .. 2 * MaxLines
  /\ counted \subseteq Slot
  /\ torn \in BOOLEAN

\* What the counter names at any position in the log, not only at its end: as
\* long as no poll has ended inside a line, the task stands between two lines
\* and has counted those before.
CounterOK ==
  tailing /\ ~shared /\ ~torn =>
    /\ offset % 2 = 0 /\ offset <= written
    /\ counted = Connected(offset \div 2)

\* Beside the properties: the process that is held is one of the apps'
\* processes or none.
IInv ==
  /\ injected \in [running : BOOLEAN, process : App \cup {NoApp}]
  /\ apps \in [App -> {"none", "running", "ended"}]
  /\ daemons \in 0 .. MaxDaemons
  /\ RunningAppHasProcess
  /\ CountOnlyWhileOnline
  /\ LogOK
  /\ CounterOK

-----------------------------------------------------------------------------
(* The lines of the log                                                    *)

\* consumeLines, over the lines that follow the first m, makes of the slots
\* these have left connected those that the first n leave connected.
LEMMA Counting ==
  ASSUME log \in Seq(Line), NEW m \in Nat, NEW n \in Nat, m <= n, n <= Len(log)
  PROVE  ConsumeLines(Connected(m), SubSeq(log, m + 1, n)) = Connected(n)
<1> DEFINE lines == SubSeq(log, m + 1, n)
<1>1. /\ DOMAIN lines = 1 .. n - m /\ Len(lines) = n - m
      /\ \A i \in 1 .. n - m : lines[i] = log[m + i] /\ lines[i] \in Line
  OBVIOUS
<1>2. \A j \in m + 1 .. n : j - m \in 1 .. n - m /\ lines[j - m] = log[j]
  BY <1>1
<1>3. \A i \in 1 .. n : log[i] \in Line
  OBVIOUS
<1>4. Range(lines) = {lines[i] : i \in 1 .. n - m}
  BY <1>1 DEF Range
<1> HIDE DEF lines
<1>5. ASSUME NEW s \in ConsumeLines(Connected(m), lines) PROVE s \in Connected(n)
  <2>1. CASE s \in Connected(m) /\ \A i \in 1 .. n - m : lines[i].slot # s
    <3>1. PICK i \in 1 .. m : log[i] = [slot |-> s, up |-> TRUE]
                           /\ \A j \in i + 1 .. m : log[j].slot # s
      BY <2>1 DEF Connected
    <3>2. \A j \in i + 1 .. n : log[j].slot # s
      BY <1>2, <2>1, <3>1, SMTT(60)
    <3> QED BY <2>1, <3>1, <3>2 DEF Connected
  <2>2. ASSUME NEW i \in 1 .. n - m, s = lines[i].slot, lines[i].up, LastOfSlot(lines, i)
        PROVE  s \in Connected(n)
    <3>1. log[m + i] = [slot |-> s, up |-> TRUE] /\ s \in Slot
      BY <1>1, <2>2 DEF Line
    <3>2. ASSUME NEW j \in m + i + 1 .. n PROVE log[j].slot # s
      <4>1. j - m \in i + 1 .. Len(lines)
        BY <1>1
      <4>2. lines[j - m].slot # s
        BY <2>2, <4>1 DEF LastOfSlot
      <4> QED BY <1>2, <4>2
    <3>3. m + i \in 1 .. n
      OBVIOUS
    <3> QED BY <3>1, <3>2, <3>3 DEF Connected
  <2>3. \/ s \in Connected(m) /\ \A i \in 1 .. n - m : lines[i].slot # s
        \/ \E i \in 1 .. n - m : s = lines[i].slot /\ lines[i].up /\ LastOfSlot(lines, i)
    BY <1>1, <1>4, <1>5, Zenon DEF ConsumeLines
  <2> QED BY <2>1, <2>2, <2>3
<1>6. ASSUME NEW s \in Connected(n) PROVE s \in ConsumeLines(Connected(m), lines)
  <2>1. PICK i \in 1 .. n : log[i] = [slot |-> s, up |-> TRUE]
                         /\ \A j \in i + 1 .. n : log[j].slot # s
    BY DEF Connected
  <2>2. s \in Slot
    BY DEF Connected
  <2>3. CASE i <= m
    <3>1. s \in Connected(m)
      BY <2>1, <2>2, <2>3 DEF Connected
    <3>2. \A k \in 1 .. n - m : lines[k].slot # s
      BY <1>1, <2>1, <2>3, SMTT(60)
    <3> QED BY <1>4, <3>1, <3>2, Zenon DEF ConsumeLines
  <2>4. CASE i > m
    <3> DEFINE k == i - m
    <3>0. k \in 1 .. n - m /\ lines[k] = log[i]
      BY <1>2, <2>4
    <3>1. k \in 1 .. n - m /\ lines[k].slot = s /\ lines[k].up
      BY <2>1, <3>0
    <3>2. \A j \in k + 1 .. n - m : lines[j].slot # lines[k].slot
      BY <1>1, <2>1, <2>4, <3>1, SMTT(60)
    <3>3. LastOfSlot(lines, k)
      BY <1>1, <3>2 DEF LastOfSlot
    <3> HIDE DEF k
    <3> QED BY <1>1, <3>1, <3>3, Zenon DEF ConsumeLines
  <2> QED BY <2>3, <2>4
<1>7. ConsumeLines(Connected(m), lines) = Connected(n)
  BY <1>5, <1>6
<1> QED BY <1>7 DEF lines

\* The first n lines decide, whatever follows them.
Named(lines, n) ==
  {s \in Slot : \E i \in 1 .. n : lines[i] = [slot |-> s, up |-> TRUE]
                               /\ \A j \in i + 1 .. n : lines[j].slot # s}

LEMMA NamedAgain ==
  ASSUME NEW p, NEW q, NEW n \in Nat, \A i \in 1 .. n : p[i] = q[i], NEW s \in Named(p, n)
  PROVE  s \in Named(q, n)
<1>1. s \in Slot
  BY DEF Named
<1>2. PICK i \in 1 .. n : p[i] = [slot |-> s, up |-> TRUE] /\ \A j \in i + 1 .. n : p[j].slot # s
  BY DEF Named
<1>3. q[i] = [slot |-> s, up |-> TRUE]
  BY <1>2, Zenon
<1>4. \A j \in i + 1 .. n : q[j].slot # s
  <2> SUFFICES ASSUME NEW j \in i + 1 .. n PROVE q[j].slot # s
    OBVIOUS
  <2>1. j \in 1 .. n
    OBVIOUS
  <2>2. q[j] = p[j]
    BY <2>1
  <2> QED BY <1>2, <2>2, Zenon
<1> QED BY <1>1, <1>3, <1>4, Zenon DEF Named

LEMMA SameLines ==
  ASSUME NEW p, NEW q, NEW n \in Nat, \A i \in 1 .. n : p[i] = q[i]
  PROVE  Named(p, n) = Named(q, n)
<1>1. Named(p, n) \subseteq Named(q, n)
  BY NamedAgain
<1>2. Named(q, n) \subseteq Named(p, n)
  <2>1. \A i \in 1 .. n : q[i] = p[i]
    OBVIOUS
  <2> QED BY <2>1, NamedAgain
<1> QED BY <1>1, <1>2

LEMMA NoLines == <<>> \in Seq(Line) /\ Len(<<>>) = 0
  OBVIOUS

-----------------------------------------------------------------------------
(* The inductive invariant                                                 *)

\* The control centre starts with nothing running and nothing counted.
THEOREM Initially == Init => IInv
<1> SUFFICES ASSUME Init PROVE IInv
  OBVIOUS
<1>1. LogOK
  <2>1. Len(log) = 0 /\ log \in Seq(Line) /\ written = 0 /\ offset = 0 /\ counted = {} /\ torn = FALSE
    BY NoLines DEF Init
  <2>2. 0 \in 0 .. 2 * Len(log) /\ 0 \in 0 .. 2 * MaxLines /\ Len(log) <= MaxLines
    BY <2>1, ControlCenterAssumption DEF ControlCenterAssumption
  <2> QED BY <2>1, <2>2 DEF LogOK
<1> QED
  BY <1>1, ControlCenterAssumption
     DEF ControlCenterAssumption, Init, IInv, RunningAppHasProcess, CountOnlyWhileOnline, CounterOK

\* The buttons and processes of the app: the flag follows the process that is
\* held, and a handler that belongs to another only ever clears it.
LEMMA AppSteps ==
  ASSUME IInv,
         \/ UnlockAdminPrivileges \/ HandleFileImport \/ StopInjectedApp
         \/ \E p \in App : LaunchInjectedApp(p) \/ AppEnds(p) \/ TerminationHandler(p)
  PROVE  IInv'
<1> USE DEF IInv, RunningAppHasProcess, CountOnlyWhileOnline, tailVars, appVars
<1>0. LogOK' /\ CounterOK'
  <2>1. UNCHANGED <<tailing, offset, counted, log, written, torn, shared>>
    BY Zenon DEF UnlockAdminPrivileges, HandleFileImport, StopInjectedApp, LaunchInjectedApp, AppEnds,
                 TerminationHandler, logVars
  <2>2. Connected(offset \div 2)' = Connected(offset \div 2)
    BY <2>1 DEF Connected
  <2> QED BY <2>1, <2>2 DEF LogOK, CounterOK
<1>1. CASE UnlockAdminPrivileges \/ HandleFileImport
  BY <1>0, <1>1 DEF UnlockAdminPrivileges, HandleFileImport
<1>2. CASE StopInjectedApp
  BY <1>0, <1>2 DEF StopInjectedApp
<1>3. ASSUME NEW p \in App, LaunchInjectedApp(p) PROVE IInv'
  <2>1. p # NoApp
    BY ControlCenterAssumption DEF ControlCenterAssumption
  <2> QED BY <1>0, <1>3, <2>1 DEF LaunchInjectedApp
<1>4. ASSUME NEW p \in App, AppEnds(p) PROVE IInv'
  BY <1>0, <1>4 DEF AppEnds
<1>5. ASSUME NEW p \in App, TerminationHandler(p) PROVE IInv'
  BY <1>0, <1>5 DEF TerminationHandler
<1> QED BY <1>1, <1>2, <1>3, <1>4, <1>5

\* The log of a daemon that has just been started is empty.
LEMMA StartDaemonKeeps == ASSUME IInv, StartDaemon PROVE IInv'
<1>1. /\ daemons < MaxDaemons /\ daemons' = daemons + 1 /\ ~online
      /\ log' = <<>> /\ written' = 0 /\ ~torn' /\ online' /\ tailing' /\ offset' = 0
      /\ UNCHANGED <<injected, apps, counted>>
  BY DEF StartDaemon, StartTailingDaemonLog, appVars
<1>2. LogOK'
  <2>1. Len(log') = 0 /\ log' \in Seq(Line) /\ torn' = FALSE
    BY <1>1, NoLines DEF StartDaemon
  <2>2. 0 \in 0 .. 2 * Len(log') /\ 0 \in 0 .. 2 * MaxLines /\ Len(log') <= MaxLines
    BY <2>1, ControlCenterAssumption DEF ControlCenterAssumption
  <2> QED BY <1>1, <2>1, <2>2 DEF IInv, LogOK
<1>3. counted = {} /\ Connected(0)' = {}
  BY <1>1 DEF IInv, CountOnlyWhileOnline, Connected
<1>4. CounterOK'
  BY <1>1, <1>3 DEF CounterOK
<1>5. daemons' \in 0 .. MaxDaemons
  BY <1>1, ControlCenterAssumption DEF IInv, ControlCenterAssumption
<1> QED BY <1>1, <1>2, <1>4, <1>5 DEF IInv, RunningAppHasProcess, CountOnlyWhileOnline

LEMMA StopDaemonKeeps == ASSUME IInv, StopDaemon PROVE IInv'
<1>1. Signalled(DaemonPath) \in {0, daemons}
  BY DEF Signalled
<1>2. /\ daemons' = daemons - Signalled(DaemonPath)
      /\ ~tailing' /\ ~online' /\ counted' = {}
      /\ UNCHANGED <<injected, apps, offset, log, written, torn>>
  BY DEF StopDaemon, appVars, logVars
<1>3. daemons' \in 0 .. MaxDaemons
  BY <1>1, <1>2, ControlCenterAssumption DEF IInv, ControlCenterAssumption
<1>4. LogOK' /\ CounterOK'
  BY <1>2 DEF IInv, LogOK, CounterOK
<1> QED BY <1>2, <1>3, <1>4 DEF IInv, RunningAppHasProcess, CountOnlyWhileOnline

\* What the daemon prints and writes out lies behind what has been read.
LEMMA DaemonWrites ==
  ASSUME IInv, DaemonEnds \/ Flush \/ \E s \in Slot : PrintLine(s)
  PROVE  IInv'
<1>1. UNCHANGED <<injected, apps, online, tailing, offset, counted, torn, shared>>
  BY Zenon DEF DaemonEnds, Flush, PrintLine, appVars, tailVars
<1>2. daemons' \in 0 .. MaxDaemons
  <2>1. daemons \in 0 .. MaxDaemons
    BY DEF IInv
  <2>2. daemons' = daemons \/ (daemons > 0 /\ daemons' = daemons - 1)
    BY Zenon DEF DaemonEnds, Flush, PrintLine
  <2> QED BY <2>1, <2>2, ControlCenterAssumption DEF ControlCenterAssumption
<1>3. /\ log' \in Seq(Line) /\ Len(log') <= MaxLines
      /\ written' \in 0 .. 2 * Len(log') /\ written <= written'
  <2>1. CASE DaemonEnds \/ Flush
    BY <2>1, SMTT(60) DEF IInv, LogOK, DaemonEnds, Flush
  <2>2. CASE \E s \in Slot : PrintLine(s)
    BY <2>2, ControlCenterAssumption DEF IInv, LogOK, PrintLine, Line, ControlCenterAssumption
  <2> QED BY <2>1, <2>2
<1>4. CounterOK'
  <2> SUFFICES ASSUME tailing, ~shared, ~torn
               PROVE  offset % 2 = 0 /\ offset <= written' /\ counted = Connected(offset \div 2)'
    BY <1>1 DEF CounterOK
  <2>1. offset % 2 = 0 /\ offset <= written /\ counted = Connected(offset \div 2)
    BY DEF IInv, CounterOK
  <2>2. offset \div 2 \in Nat /\ offset \div 2 <= Len(log)
    BY <2>1 DEF IInv, LogOK
  <2>3. Connected(offset \div 2)' = Connected(offset \div 2)
    <3>1. CASE log' = log
      BY <1>1, <3>1 DEF Connected
    <3>2. CASE \E s \in Slot : PrintLine(s)
      <4>1. PICK line \in Line : log' = Append(log, line)
        BY <3>2 DEF PrintLine, Line
      <4> DEFINE n == offset \div 2
      <4>2. log \in Seq(Line) /\ n \in Nat /\ n <= Len(log)
        BY <2>2 DEF IInv, LogOK
      <4> HIDE DEF n
      <4>3. \A i \in 1 .. n : log'[i] = log[i]
        BY <4>1, <4>2
      <4>4. n' = n
        BY <1>1 DEF n
      <4>5. Named(log', n) = Named(log, n)
        BY <4>2, <4>3, SameLines
      <4>6. Connected(n)' = Connected(n)
        BY <4>4, <4>5 DEF Connected, Named
      <4> QED BY <4>6 DEF n
    <3> QED BY <3>1, <3>2 DEF DaemonEnds, Flush
  <2>4. offset <= written'
    BY <1>3, <2>1 DEF IInv, LogOK
  <2> QED BY <2>1, <2>3, <2>4
<1>5. LogOK'
  BY <1>1, <1>3 DEF IInv, LogOK
<1> QED BY <1>1, <1>2, <1>4, <1>5 DEF IInv, RunningAppHasProcess, CountOnlyWhileOnline

\* A poll that ends between two lines has read all of the lines between its
\* place and the last one's, and counts them.
LEMMA PollKeeps == ASSUME IInv, PollDaemonLog PROVE IInv'
<1>1. /\ tailing /\ offset < written /\ offset' = written
      /\ torn' = (torn \/ written % 2 = 1)
      /\ UNCHANGED <<injected, apps, online, tailing, daemons, log, written, shared>>
  BY DEF PollDaemonLog, appVars
<1>2. \/ counted' = ConsumeLines(counted, WholeLines)
      \/ (offset % 2 = 1 \/ written % 2 = 1) /\ counted' = counted
  BY DEF PollDaemonLog
<1>3. /\ log \in Seq(Line) /\ Len(log) <= MaxLines /\ written \in 0 .. 2 * Len(log)
      /\ offset \in Nat /\ counted \subseteq Slot /\ torn \in BOOLEAN
  BY DEF IInv, LogOK
<1>4. counted' \subseteq Slot
  <2>1. \A i \in DOMAIN WholeLines : WholeLines[i].slot \in Slot
    <3>1. WholeLines \in Seq(Line)
      BY <1>3 DEF WholeLines
    <3>2. \A i \in DOMAIN WholeLines : WholeLines[i] \in Line
      BY <3>1
    <3> QED BY <3>2 DEF Line
  <2>2. ConsumeLines(counted, WholeLines) \subseteq Slot
    BY <1>3, <2>1 DEF ConsumeLines
  <2> QED BY <1>2, <1>3, <2>2
<1>5. LogOK'
  <2>1. written \in 0 .. 2 * MaxLines
    BY <1>3, ControlCenterAssumption DEF ControlCenterAssumption
  <2> QED BY <1>1, <1>3, <1>4, <2>1 DEF LogOK
<1>6. CounterOK'
  <2> SUFFICES ASSUME ~shared, ~torn'
               PROVE  written % 2 = 0 /\ counted' = Connected(written \div 2)'
    BY <1>1, <1>3 DEF CounterOK
  <2>1. ~torn /\ written % 2 = 0
    <3>1. ~torn /\ written % 2 # 1
      BY <1>1, Zenon
    <3> QED BY <1>3, <3>1
  <2>2. offset % 2 = 0 /\ counted = Connected(offset \div 2)
    BY <1>1, <2>1 DEF IInv, CounterOK
  <2> DEFINE m == offset \div 2
             n == written \div 2
  <2>3. m \in Nat /\ n \in Nat /\ m <= n /\ n <= Len(log) /\ (offset + 1) \div 2 = m
    BY <1>1, <1>3, <2>1, <2>2
  <2>4. counted' = ConsumeLines(counted, WholeLines)
    BY <1>2, <1>3, <2>1, <2>2
  <2>5. WholeLines = SubSeq(log, m + 1, n)
    BY <2>3, Zenon DEF WholeLines
  <2>6. counted = Connected(m)
    BY <2>2
  <2>7. n' = n
    BY <1>1
  <2> HIDE DEF m, n
  <2>8. ConsumeLines(Connected(m), SubSeq(log, m + 1, n)) = Connected(n)
    BY <1>3, <2>3, Counting
  <2>9. Connected(n)' = Connected(n)
    BY <1>1, <2>7 DEF Connected
  <2>10. counted' = Connected(n)'
    BY <2>4, <2>5, <2>6, <2>8, <2>9
  <2> QED BY <2>1, <2>10 DEF n
<1> QED BY <1>1, <1>5, <1>6 DEF IInv, RunningAppHasProcess, CountOnlyWhileOnline

\* The invariant holds in every state.
THEOREM Invariance == Spec => []IInv
<1>1. IInv /\ [Next]_vars => IInv'
  <2> SUFFICES ASSUME IInv, [Next]_vars PROVE IInv'
    OBVIOUS
  <2>1. CASE Next
    BY <2>1, AppSteps, StartDaemonKeeps, StopDaemonKeeps, DaemonWrites, PollKeeps DEF Next
  <2>2. CASE UNCHANGED vars
    <3>1. Connected(offset \div 2)' = Connected(offset \div 2)
      BY <2>2 DEF vars, logVars, tailVars, Connected
    <3> QED
      BY <2>2, <3>1 DEF vars, appVars, tailVars, logVars, IInv, RunningAppHasProcess,
                        CountOnlyWhileOnline, LogOK, CounterOK
  <2> QED BY <2>1, <2>2
<1> QED BY <1>1, Initially, PTL DEF Spec

\* Behind the app that is shown as running there is a process, however the
\* buttons, the ends of processes and their handlers follow on each other.
THEOREM RunningAppIsReal == Spec => []RunningAppHasProcess
<1>1. IInv => RunningAppHasProcess
  BY DEF IInv
<1> QED BY <1>1, Invariance, PTL

\* No controller is counted but while the daemon is shown as running.
THEOREM CountNeedsDaemon == Spec => []CountOnlyWhileOnline
<1>1. IInv => CountOnlyWhileOnline
  BY DEF IInv
<1> QED BY <1>1, Invariance, PTL

\* Every variable keeps to its type: no slot is counted that the daemon does
\* not have, and no position lies behind the end of the log.
THEOREM TypeCorrect == Spec => []TypeOK
<1>1. IInv => TypeOK
  BY DEF IInv, LogOK, TypeOK
<1> QED BY <1>1, Invariance, PTL

\* The counter names the controllers that are connected once the log is read,
\* for logs of any length, written and read in pieces of any size, as long as
\* no piece has ended inside a line.
THEOREM CounterFollows == Spec => []CounterFollowsUntornLog
<1>1. IInv => CounterFollowsUntornLog
  BY DEF IInv, CounterOK, CounterFollowsUntornLog
<1> QED BY <1>1, Invariance, PTL
=============================================================================
