--------------------------- MODULE ControlCenter ---------------------------
(***************************************************************************)
(* The control centre (ControlCenterViewModel.swift): what its buttons do, *)
(* the injected apps and daemons it starts, which live on their own, the   *)
(* handlers that tell it of an app's end, and the task that follows the    *)
(* daemon's log.  All of its code runs on the main actor, one call at a    *)
(* time; the buttons are enabled as ContentView.swift has them.            *)
(***************************************************************************)
EXTENDS Integers, SequencesExt

CONSTANTS
  Slot,        \* the daemon's slots
  App,         \* injected processes that can exist at a time
  NoApp,       \* injectedProcess is nil
  MaxDaemons,  \* bound on the daemons that are alive
  MaxLines     \* bound on the connects and disconnects in a log

ASSUME ControlCenterAssumption ==
  /\ NoApp \notin App
  /\ MaxDaemons \in Nat \ {0} /\ MaxLines \in Nat

VARIABLES
  ui,        \* app selected, admin unlocked, an app launched before
  injected,  \* injectedAppRunning and injectedProcess
  apps,      \* each process: "none", "running", or "ended" with its
             \* termination handler still to run
  online,    \* daemonRunning
  tailing,   \* daemonTailTask exists
  offset,    \* daemonLogOffset, in halves of lines
  counted,   \* connectedSlots
  daemons,   \* daemons alive
  log,       \* the connects and disconnects the daemon has printed, oldest first
  written,   \* how many halves of these lines have left its stdio buffer
  torn,      \* a poll has ended inside a line
  shared     \* another daemon is alive that writes to the same file

logVars == <<log, written, torn, shared>>
tailVars == <<tailing, offset, counted>>
appVars == <<injected, apps>>
vars == <<ui, appVars, online, tailVars, daemons, logVars>>

Init ==
  /\ ui = [selected |-> FALSE, unlocked |-> FALSE, launched |-> FALSE]
  /\ injected = [running |-> FALSE, process |-> NoApp]
  /\ apps = [p \in App |-> "none"]
  /\ online = FALSE
  /\ tailing = FALSE /\ offset = 0 /\ counted = {}
  /\ daemons = 0
  /\ log = <<>> /\ written = 0 /\ torn = FALSE /\ shared = FALSE

-----------------------------------------------------------------------------
(* The injected app.                                                       *)

HandleFileImport ==
  /\ ui' = [ui EXCEPT !.selected = TRUE]
  /\ UNCHANGED <<appVars, online, tailVars, daemons, logVars>>

UnlockAdminPrivileges ==
  /\ ui.selected /\ ~ui.unlocked
  /\ ui' = [ui EXCEPT !.unlocked = TRUE]
  /\ UNCHANGED <<appVars, online, tailVars, daemons, logVars>>

LaunchInjectedApp(p) ==
  /\ ui.selected /\ ~injected.running
  /\ apps[p] = "none"
  /\ apps' = [apps EXCEPT ![p] = "running"]
  /\ injected' = [running |-> TRUE, process |-> p]
  /\ ui' = [ui EXCEPT !.launched = TRUE]
  /\ UNCHANGED <<online, tailVars, daemons, logVars>>

\* mutant: the flag waits for the termination handler
StopInjectedAppLater ==
  /\ injected.running
  /\ injected' = [injected EXCEPT !.process = NoApp]
  /\ UNCHANGED <<ui, apps, online, tailVars, daemons, logVars>>

\* the process is asked to end, and does so when it likes
StopInjectedApp ==
  /\ injected.running
  /\ injected' = [running |-> FALSE, process |-> NoApp]
  /\ UNCHANGED <<ui, apps, online, tailVars, daemons, logVars>>

AppEnds(p) ==
  /\ apps[p] = "running"
  /\ apps' = [apps EXCEPT ![p] = "ended"]
  /\ UNCHANGED <<ui, injected, online, tailVars, daemons, logVars>>

\* mutant: only the handler of a process that was stopped runs
TerminationHandlerOfStopped(p) ==
  /\ apps[p] = "ended" /\ injected.process # p
  /\ apps' = [apps EXCEPT ![p] = "none"]
  /\ injected' = [injected EXCEPT !.running = FALSE]
  /\ UNCHANGED <<ui, online, tailVars, daemons, logVars>>

\* the handler does not ask whether its process is the one injectedProcess
\* holds
TerminationHandler(p) ==
  /\ apps[p] = "ended"
  /\ apps' = [apps EXCEPT ![p] = "none"]
  /\ injected' = [injected EXCEPT !.running = FALSE]
  /\ UNCHANGED <<ui, online, tailVars, daemons, logVars>>

-----------------------------------------------------------------------------
(* The daemon.                                                             *)

\* the command line startDaemon gives it, from its directory, and the path
\* stopDaemon looks for, a component at a time
CommandLine == <<".", "xbox_daemon">>
DaemonPath  == <<"XboxDaemon", "xbox_daemon">>

\* pkill -f signals the processes whose command line contains the pattern
Signalled(pattern) == IF pattern \in SubSeqs(CommandLine) THEN daemons ELSE 0

\* mutant: the tail goes on where it was in the old log
StartTailingDaemonLogWhereItWas ==
  /\ tailing' = TRUE
  /\ UNCHANGED <<offset, counted>>

StartTailingDaemonLog ==
  /\ tailing' = TRUE /\ offset' = 0
  /\ UNCHANGED counted

\* The shell empties the log and returns as soon as the daemon has been
\* spawned.  A daemon left over goes on writing at its old place in the file;
\* what the log holds then is left open.
StartDaemon ==
  /\ ui.unlocked /\ ui.launched /\ ~online
  /\ daemons < MaxDaemons
  /\ daemons' = daemons + 1
  /\ log' = <<>> /\ written' = 0 /\ torn' = FALSE
  /\ shared' = (daemons > 0)
  /\ online' = TRUE
  /\ StartTailingDaemonLog
  /\ UNCHANGED <<ui, appVars>>

\* mutant: the tail is not cancelled
StopDaemonKeepsTail ==
  /\ online
  /\ daemons' = daemons - Signalled(DaemonPath)
  /\ online' = FALSE /\ counted' = {}
  /\ UNCHANGED <<ui, appVars, tailing, offset, logVars>>

StopDaemon ==
  /\ online
  /\ daemons' = daemons - Signalled(DaemonPath)
  /\ tailing' = FALSE /\ online' = FALSE /\ counted' = {}
  /\ UNCHANGED <<ui, appVars, offset, logVars>>

\* a daemon that fails, loses its dongle or is interrupted; its buffer is
\* written out
DaemonEnds ==
  /\ daemons > 0
  /\ daemons' = daemons - 1
  /\ written' = 2 * Len(log)
  /\ UNCHANGED <<ui, appVars, online, tailVars, log, torn, shared>>

-----------------------------------------------------------------------------
(* The log.  Standard output is a file, so it is written in blocks, which  *)
(* end anywhere in a line.                                                 *)

LastOfSlot(lines, i) == \A j \in i + 1 .. Len(lines) : lines[j].slot # lines[i].slot

\* the slots the first n lines leave connected
Connected(n) ==
  {s \in Slot : \E i \in 1 .. n : log[i] = [slot |-> s, up |-> TRUE]
                               /\ \A j \in i + 1 .. n : log[j].slot # s}

\* on_connect and on_disconnect print what they do
PrintLine(s) ==
  /\ daemons > 0 /\ ~shared /\ Len(log) < MaxLines
  /\ log' = Append(log, [slot |-> s, up |-> s \notin Connected(Len(log))])
  /\ UNCHANGED <<ui, appVars, online, tailVars, daemons, written, torn, shared>>

Flush ==
  /\ daemons > 0
  /\ \E n \in written + 1 .. 2 * Len(log) : written' = n
  /\ UNCHANGED <<ui, appVars, online, tailVars, daemons, log, torn, shared>>

\* the lines that begin and end in the chunk a poll reads
WholeLines == SubSeq(log, (offset + 1) \div 2 + 1, written \div 2)

\* consumeLines and parseControllerActivity: a line puts its slot in or takes
\* it out, so that the last one of a slot decides; a piece of a line has no
\* keyword or no number
ConsumeLines(on, lines) ==
  (on \ {line.slot : line \in Range(lines)})
    \cup {lines[i].slot : i \in {k \in DOMAIN lines : lines[k].up /\ LastOfSlot(lines, k)}}

\* mutant: slots are counted from 1
PollDaemonLogFromOne ==
  /\ tailing /\ offset < written
  /\ offset' = written
  /\ torn' = (torn \/ written % 2 = 1)
  /\ counted' = {s + 1 : s \in ConsumeLines({s - 1 : s \in counted}, WholeLines)}
  /\ UNCHANGED <<ui, appVars, online, tailing, daemons, log, written, shared>>

\* mutant: a poll waits for the end of the line
PollDaemonLogWaits ==
  /\ tailing /\ offset < written /\ written % 2 = 0
  /\ offset' = written
  /\ counted' = ConsumeLines(counted, WholeLines)
  /\ UNCHANGED <<ui, appVars, online, tailing, daemons, log, written, torn, shared>>

\* pollDaemonLog.  A chunk that begins or ends inside the arrow of a line is
\* no text, and is passed over.
PollDaemonLog ==
  /\ tailing /\ offset < written
  /\ offset' = written
  /\ torn' = (torn \/ written % 2 = 1)
  /\ \/ counted' = ConsumeLines(counted, WholeLines)
     \/ /\ offset % 2 = 1 \/ written % 2 = 1
        /\ UNCHANGED counted
  /\ UNCHANGED <<ui, appVars, online, tailing, daemons, log, written, shared>>

Next ==
  \/ HandleFileImport \/ UnlockAdminPrivileges
  \/ \E p \in App : LaunchInjectedApp(p) \/ AppEnds(p) \/ TerminationHandler(p)
  \/ StopInjectedApp
  \/ StartDaemon \/ StopDaemon \/ DaemonEnds
  \/ \E s \in Slot : PrintLine(s)
  \/ Flush \/ PollDaemonLog

Spec ==
  /\ Init /\ [][Next]_vars
  /\ \A p \in App : WF_vars(TerminationHandler(p))
  /\ WF_vars(PollDaemonLog)

-----------------------------------------------------------------------------
(* The variables hold values of their types.                               *)
TypeOK ==
  /\ injected.process \in App \cup {NoApp}
  /\ \A p \in App : apps[p] \in {"none", "running", "ended"}
  /\ counted \subseteq Slot
  /\ daemons \in 0 .. MaxDaemons
  /\ offset \in 0 .. 2 * MaxLines /\ written \in 0 .. 2 * Len(log)

(* The app is shown as running only while a process stands behind the      *)
(* flag: one that runs, or whose termination handler will clear it.        *)
RunningAppHasProcess ==
  injected.running => injected.process # NoApp /\ apps[injected.process] # "none"

(* The counter never shows a controller of a daemon that was stopped: the  *)
(* task that follows the log ends with it, also when it was behind.        *)
CountOnlyWhileOnline == (tailing <=> online) /\ (counted # {} => online)

(* The counter: once the log is read, as far as the daemon has written it, *)
(* it names the controllers that are connected, through stops and starts   *)
(* of the daemon.  Only where a poll has met half a line it may not.       *)
CounterFollowsUntornLog ==
  tailing /\ ~shared /\ ~torn /\ offset = written => counted = Connected(written \div 2)

(* An app that has ended is not shown as running for ever.                 *)
EndedAppIsNoticed ==
  \A p \in App :
    (injected.running /\ injected.process = p /\ apps[p] = "ended") ~> ~injected.running

(* What the daemon has written is counted, or its log given up.            *)
LogIsFollowed == (tailing /\ offset < written) ~> (~tailing \/ offset = written)

(* "Daemon stopped." (ControlCenterViewModel.swift:128): once a stop has   *)
(* been asked for, the daemons the control centre has started come to an   *)
(* end, unless it starts another.                                          *)
StoppedDaemonIsGone == ~online ~> (online \/ daemons = 0)
=============================================================================
