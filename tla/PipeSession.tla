----------------------------- MODULE PipeSession -----------------------------
(***************************************************************************)
(* The life cycle of one named lspipe session on a Unix system: any number *)
(* of lspipe command lines, and the daemon processes they start, sharing a *)
(* record file and a socket path and nothing else.  There is no lock: each *)
(* action below is one file, socket or signal operation of one process     *)
(* (internal/app/lspipe/app.go, internal/lspipe/{daemon,state,rpc,client}). *)
(*                                                                         *)
(* The record file holds the pid of a daemon; the address in it is always  *)
(* the same path, so whoever has bound that path last is who answers.      *)
(***************************************************************************)
EXTENDS Naturals, FiniteSets

CONSTANTS
  Clis,       \* command-line invocations that may run at the same time
  Daemons,    \* daemon processes (pids); bounds how many there are at a time
  None,       \* no file, no process
  Torn,       \* a record file truncated by os.WriteFile and not yet written
  Modes,      \* what command lines do: "ensure", "replace", "exec", "close"
  LateClose   \* may the shutdown of a daemon outlast the closeSession that
              \* asked for it?  (Run returns as soon as the listener is closed,
              \* so the process normally ends at once.)

ASSUME PipeSessionAssumption ==
  /\ None \notin Daemons /\ Torn \notin Daemons /\ None # Torn
  /\ Modes \subseteq {"ensure", "replace", "exec", "close"}
  /\ LateClose \in BOOLEAN

VARIABLES
  record,     \* the session record file: a daemon, None or Torn
  sock,       \* the daemon that bound the file at the socket path, or None
  proc,       \* how far each daemon process has come
  signalled,  \* daemons whose signal goroutine has SIGTERM to act on
  told,       \* daemons that wrote "OK" to the pipe of their parent
  pc,         \* where each command line is
  mode,       \* "ensure", "replace", "exec" or "close"
  target,     \* the session it loaded, then the daemon it started or dialled
  result,     \* how its last run ended
  job,        \* the request's goroutine in the daemon the client dialled
  copy,       \* the record that goroutine has loaded
  round       \* 1 in TouchSession, 2 in the load and save that follow it

fileVars == <<record, sock>>
procVars == <<proc, signalled, told>>
cliVars == <<pc, mode, target, result>>
jobVars == <<job, copy, round>>
vars == <<fileVars, procVars, cliVars, jobVars>>

Booting == {"starting", "unlinked", "bound", "connected", "truncated", "saved", "ready"}
Listening == {"bound", "connected", "truncated", "saved", "ready", "serving"}
Stopping == {"closing", "removing", "removed"}
Running == Booting \cup Stopping \cup {"serving"}

Init ==
  /\ record = None /\ sock = None
  /\ proc = [d \in Daemons |-> "unborn"]
  /\ signalled = {} /\ told = {}
  /\ pc = [c \in Clis |-> "idle"]
  /\ mode = [c \in Clis |-> "ensure"]
  /\ target = [c \in Clis |-> None]
  /\ result = [c \in Clis |-> "none"]
  /\ job = [c \in Clis |-> "none"]
  /\ copy = [c \in Clis |-> None]
  /\ round = [c \in Clis |-> 1]

(***************************************************************************)
(* The daemon process: Run, Close.                                         *)
(***************************************************************************)
Becomes(d, stage) == proc' = [proc EXCEPT ![d] = stage]
Boots(d, from, to) ==
  /\ proc[d] = from /\ Becomes(d, to)
  /\ UNCHANGED <<signalled, cliVars, jobVars>>

\* os.Remove of the socket path, whoever listens there.
UnlinkOld(d) ==
  /\ Boots(d, "starting", "unlinked")
  /\ sock' = None
  /\ UNCHANGED <<record, told>>

\* net.Listen fails if the path exists, and the daemon ends.
Listen(d) ==
  /\ \/ sock = None /\ sock' = d /\ Boots(d, "unlinked", "bound")
     \/ sock # None /\ UNCHANGED sock /\ Boots(d, "unlinked", "gone")
  /\ UNCHANGED <<record, told>>

\* connectAll: every host is tried, which may take long.
Connect(d) ==
  /\ Boots(d, "bound", "connected")
  /\ UNCHANGED <<fileVars, told>>

\* SaveSession: os.WriteFile truncates ...
Truncate(d) ==
  /\ Boots(d, "connected", "truncated")
  /\ record' = Torn
  /\ UNCHANGED <<sock, told>>

\* ... and then writes.
Save(d) ==
  /\ Boots(d, "truncated", "saved")
  /\ record' = d
  /\ UNCHANGED <<sock, told>>

\* notifyParentReady
Ready(d) ==
  /\ Boots(d, "saved", "ready")
  /\ told' = told \cup {d}
  /\ UNCHANGED fileVars

\* signal.Notify and the accept loop
Serve(d) ==
  /\ Boots(d, "ready", "serving")
  /\ UNCHANGED <<fileVars, told>>

Stops(d, from, to) ==
  /\ proc[d] = from /\ Becomes(d, to)
  /\ UNCHANGED <<signalled, told, cliVars, jobVars>>

\* Close: closing a Unix listener unlinks its path, whoever bound it since.
CloseListener(d) ==
  /\ d \in signalled
  /\ Stops(d, "serving", "closing")
  /\ sock' = None
  /\ UNCHANGED record

\* RemoveSession, the record first
RemoveRecord(d) ==
  /\ Stops(d, "closing", "removing")
  /\ record' = None
  /\ UNCHANGED sock

RemoveSock(d) ==
  /\ Stops(d, "removing", "removed")
  /\ sock' = None
  /\ UNCHANGED record

\* Accept fails, Run returns and main ends the process, whether or not the
\* signal goroutine has finished Close.
Exit(d) ==
  /\ \E from \in Stopping : Stops(d, from, "gone")
  /\ UNCHANGED fileVars

\* A panic, SIGKILL or a reboot.  The files stay.
Crash(d) ==
  /\ \E from \in Running : Stops(d, from, "gone")
  /\ UNCHANGED fileVars

\* The operating system forgets a process nothing refers to any more.
Reap(d) ==
  /\ proc[d] = "gone" /\ record # d /\ sock # d
  /\ \A c \in Clis : /\ pc[c] # "idle" => target[c] # d
                     /\ pc[c] = "waiting" => copy[c] # d
  /\ Becomes(d, "unborn")
  /\ signalled' = signalled \ {d} /\ told' = told \ {d}
  /\ UNCHANGED <<fileVars, cliVars, jobVars>>

(***************************************************************************)
(* One command line.                                                       *)
(***************************************************************************)
Goto(c, place) == pc' = [pc EXCEPT ![c] = place]
At(c, place) == pc[c] = place
Ends(c, r) == Goto(c, "idle") /\ result' = [result EXCEPT ![c] = r]
Unborn == {d \in Daemons : proc[d] = "unborn"}
Busy == {c \in Clis : pc[c] # "idle"}

\* Bound: a command line is started only while a daemon is left for it.
Start(c, m) ==
  /\ At(c, "idle")
  /\ Cardinality(Unborn) > Cardinality(Busy)
  /\ mode' = [mode EXCEPT ![c] = m]
  /\ target' = [target EXCEPT ![c] = None]
  /\ result' = [result EXCEPT ![c] = "none"]
  /\ Goto(c, IF m = "close" THEN "closeLoad" ELSE "load")
  /\ UNCHANGED <<fileVars, procVars, jobVars>>

Loaded == record \notin {None, Torn}

\* LoadSession: a missing file and a torn one are both just an error.
Loads(c, found, missing) ==
  /\ IF Loaded THEN found /\ target' = [target EXCEPT ![c] = record]
               ELSE missing /\ UNCHANGED target
  /\ UNCHANGED <<fileVars, procVars, mode, jobVars>>

\* ensureSessionState
Load(c) ==
  /\ At(c, "load")
  /\ Loads(c, Goto(c, "ping") /\ UNCHANGED result, Goto(c, "spawn") /\ UNCHANGED result)

\* closeSession loads the record again.
CloseLoad(c) ==
  /\ At(c, "closeLoad")
  /\ Loads(c, Goto(c, "signal") /\ UNCHANGED result,
              IF mode[c] = "close" THEN Ends(c, "failed")
                                   ELSE Goto(c, "spawn") /\ UNCHANGED result)

\* PingSession.  A serving daemon answers; one that still connects its hosts
\* leaves the dial in its backlog and the 2 s deadline passes; one that is
\* about to serve is waited for.
Pong == sock # None /\ proc[sock] = "serving"
NoPong == sock # None => proc[sock] \in {"unborn", "gone", "starting", "unlinked", "bound",
                                         "connected", "truncated"} \cup Stopping

\* Deviation: a session is replaced without closing it.
PingSpawnsAtOnce(c) ==
  /\ At(c, "ping")
  /\ Pong \/ NoPong
  /\ IF Pong /\ mode[c] # "replace"
     THEN IF mode[c] = "exec" THEN Goto(c, "execLoad") /\ UNCHANGED result
                              ELSE Ends(c, "reused")
     ELSE Goto(c, "spawn") /\ UNCHANGED result
  /\ UNCHANGED <<fileVars, procVars, mode, target, jobVars>>

\* The second half of ensureSessionState.
Ping(c) ==
  /\ At(c, "ping")
  /\ Pong \/ NoPong
  /\ IF Pong /\ mode[c] # "replace"
     THEN IF mode[c] = "exec" THEN Goto(c, "execLoad") /\ UNCHANGED result
                              ELSE Ends(c, "reused")
     ELSE Goto(c, "closeLoad") /\ UNCHANGED result
  /\ UNCHANGED <<fileVars, procVars, mode, target, jobVars>>

\* closeSession sends SIGTERM to the pid in the record it loaded.  Before
\* signal.Notify the signal kills the daemon.
Terminates(d) ==
  /\ signalled' = IF proc[d] = "serving" THEN signalled \cup {d} ELSE signalled
  /\ IF proc[d] \in Booting THEN Becomes(d, "gone") ELSE UNCHANGED proc

Signal(c) ==
  /\ At(c, "signal")
  /\ Terminates(target[c])
  /\ Goto(c, "wait")
  /\ UNCHANGED <<fileVars, told, mode, target, result, jobVars>>

\* Deviation: the new session is started without waiting for the old one.
WaitNot(c) ==
  /\ At(c, "wait")
  /\ Goto(c, "rmRecord")
  /\ UNCHANGED <<fileVars, procVars, mode, target, result, jobVars>>

\* closeSession pings until there is no answer, or 20 times.
Wait(c) ==
  /\ At(c, "wait")
  /\ LateClose \/ (NoPong /\ proc[target[c]] = "gone")
  /\ Goto(c, "rmRecord")
  /\ UNCHANGED <<fileVars, procVars, mode, target, result, jobVars>>

\* RemoveSession
CliRemoveRecord(c) ==
  /\ At(c, "rmRecord")
  /\ record' = None
  /\ Goto(c, "rmSock")
  /\ UNCHANGED <<sock, procVars, mode, target, result, jobVars>>

CliRemoveSock(c) ==
  /\ At(c, "rmSock")
  /\ sock' = None
  /\ IF mode[c] = "close" THEN Ends(c, "closed") ELSE Goto(c, "spawn") /\ UNCHANGED result
  /\ UNCHANGED <<record, procVars, mode, target, jobVars>>

\* Deviation: the parent saves the record with the pid of its child, as
\* spawnFIFOWorker does.
SpawnSaves(c) ==
  /\ At(c, "spawn")
  /\ \E d \in Unborn : /\ Becomes(d, "starting") /\ record' = d
                       /\ target' = [target EXCEPT ![c] = d]
  /\ Goto(c, "await")
  /\ UNCHANGED <<sock, signalled, told, mode, result, jobVars>>

\* spawnDaemon starts the process and reads the ready pipe ...
Spawn(c) ==
  /\ At(c, "spawn")
  /\ \E d \in Unborn : Becomes(d, "starting") /\ target' = [target EXCEPT ![c] = d]
  /\ Goto(c, "await")
  /\ UNCHANGED <<fileVars, signalled, told, mode, result, jobVars>>

\* ... until "OK" or end of file.
Await(c) ==
  /\ At(c, "await")
  /\ \/ /\ target[c] \in told
        /\ IF mode[c] = "exec" THEN Goto(c, "execLoad") /\ UNCHANGED result
                               ELSE Ends(c, "ready")
     \/ /\ target[c] \notin told /\ proc[target[c]] = "gone"
        /\ Ends(c, "failed")
  /\ UNCHANGED <<fileVars, procVars, mode, target, jobVars>>

(***************************************************************************)
(* Execute, and what the daemon does to the record for it.                 *)
(***************************************************************************)
ExecLoad(c) ==
  /\ At(c, "execLoad")
  /\ Loads(c, Goto(c, "execPing") /\ UNCHANGED result, Ends(c, "failed"))

ExecPing(c) ==
  /\ At(c, "execPing")
  /\ Pong \/ NoPong
  /\ IF Pong THEN Goto(c, "dial") /\ UNCHANGED result ELSE Ends(c, "failed")
  /\ UNCHANGED <<fileVars, procVars, mode, target, jobVars>>

\* dialSession reaches whoever listens at the path now.
Dial(c) ==
  /\ At(c, "dial")
  /\ IF sock # None /\ proc[sock] \in Listening
     THEN /\ target' = [target EXCEPT ![c] = sock]
          /\ job' = [job EXCEPT ![c] = "accepted"]
          /\ Goto(c, "waiting") /\ UNCHANGED result
     ELSE Ends(c, "failed") /\ UNCHANGED <<target, job>>
  /\ UNCHANGED <<fileVars, procVars, mode, copy, round>>

\* A goroutine of the daemon works as long as its process does.
JobAt(c, place) ==
  /\ job[c] = place
  /\ proc[target[c]] \in Stopping \cup {"serving"}
JobGoto(c, place) == job' = [job EXCEPT ![c] = place]

\* The command has run on every target (PipeDaemon).
JobRan(c) ==
  /\ JobAt(c, "accepted")
  /\ JobGoto(c, "load")
  /\ round' = [round EXCEPT ![c] = 1]
  /\ UNCHANGED <<fileVars, procVars, cliVars, copy>>

\* TouchSession, then LoadSession and SaveSession again: each loads the whole
\* record and writes it back.
Next2(c) ==
  IF round[c] = 1 THEN JobGoto(c, "load") /\ round' = [round EXCEPT ![c] = 2]
                  ELSE JobGoto(c, "answer") /\ UNCHANGED round
JobLoad(c) ==
  /\ JobAt(c, "load")
  /\ IF Loaded
     THEN JobGoto(c, "truncate") /\ copy' = [copy EXCEPT ![c] = record] /\ UNCHANGED round
     ELSE Next2(c) /\ UNCHANGED copy
  /\ UNCHANGED <<fileVars, procVars, cliVars>>

JobTruncate(c) ==
  /\ JobAt(c, "truncate")
  /\ record' = Torn
  /\ JobGoto(c, "write")
  /\ UNCHANGED <<sock, procVars, cliVars, copy, round>>

JobWrite(c) ==
  /\ JobAt(c, "write")
  /\ record' = copy[c]
  /\ Next2(c)
  /\ UNCHANGED <<sock, procVars, cliVars, copy>>

\* The done event.
JobAnswer(c) ==
  /\ JobAt(c, "answer") /\ At(c, "waiting")
  /\ JobGoto(c, "answered")
  /\ Ends(c, "success")
  /\ UNCHANGED <<fileVars, procVars, mode, target, copy, round>>

\* Deviation: only a done event ends the client's loop.
EndOfFileAfterDone(c) ==
  /\ At(c, "waiting") /\ proc[target[c]] = "gone" /\ job[c] = "answered"
  /\ Ends(c, "success")
  /\ JobGoto(c, "cut")
  /\ UNCHANGED <<fileVars, procVars, mode, target, copy, round>>

\* The daemon is gone before it answered.  Execute reads end of file, and
\* its exit code is still the initial 0.
EndOfFile(c) ==
  /\ At(c, "waiting") /\ proc[target[c]] = "gone"
  /\ Ends(c, "success")
  /\ JobGoto(c, "cut")
  /\ UNCHANGED <<fileVars, procVars, mode, target, copy, round>>

DaemonStep(d) ==
  \/ UnlinkOld(d) \/ Listen(d) \/ Connect(d) \/ Truncate(d) \/ Save(d) \/ Ready(d)
  \/ Serve(d) \/ CloseListener(d) \/ Exit(d)
CloseGoesOn(d) == RemoveRecord(d) \/ RemoveSock(d)

CliStep(c) ==
  \/ Load(c) \/ Ping(c) \/ CloseLoad(c) \/ Signal(c) \/ Wait(c)
  \/ CliRemoveRecord(c) \/ CliRemoveSock(c) \/ Spawn(c) \/ Await(c)
  \/ ExecLoad(c) \/ ExecPing(c) \/ Dial(c) \/ EndOfFile(c)

JobStep(c) ==
  JobRan(c) \/ JobLoad(c) \/ JobTruncate(c) \/ JobWrite(c) \/ JobAnswer(c)

Next ==
  \/ \E d \in Daemons : DaemonStep(d) \/ CloseGoesOn(d) \/ Crash(d) \/ Reap(d)
  \/ \E c \in Clis : CliStep(c) \/ JobStep(c)
  \/ \E c \in Clis, m \in Modes : Start(c, m)

Spec == Init /\ [][Next]_vars

\* Every process that can go on does, and remote commands end.  Nobody is
\* obliged to start a command line or to crash.
FairSpec ==
  /\ Spec
  /\ \A d \in Daemons : WF_vars(DaemonStep(d))
  /\ \A c \in Clis : WF_vars(CliStep(c)) /\ WF_vars(JobStep(c))

(***************************************************************************)
(* Properties.                                                             *)
(***************************************************************************)
Stages == Running \cup {"unborn", "gone"}
Places == {"idle", "load", "ping", "closeLoad", "signal", "wait", "rmRecord", "rmSock",
           "spawn", "await", "execLoad", "execPing", "dial", "waiting"}
\* Places at which a command line works on a session it has found.
HasTarget == {"ping", "signal", "wait", "await", "execPing", "dial", "waiting"}

\* The types, and where a command line knows a daemon.
TypeOK ==
  /\ record \in Daemons \cup {None, Torn}
  /\ sock \in Daemons \cup {None}
  /\ proc \in [Daemons -> Stages]
  /\ signalled \subseteq Daemons /\ told \subseteq Daemons
  /\ pc \in [Clis -> Places]
  /\ mode \in [Clis -> {"ensure", "replace", "exec", "close"}]
  /\ target \in [Clis -> Daemons \cup {None}]
  /\ result \in [Clis -> {"none", "reused", "ready", "closed", "failed", "success"}]
  /\ job \in [Clis -> {"none", "accepted", "load", "truncate", "write", "answer",
                       "answered", "cut"}]
  /\ copy \in [Clis -> Daemons \cup {None}]
  /\ round \in [Clis -> {1, 2}]
  /\ \A c \in Clis : pc[c] \in HasTarget => target[c] # None

\* The record, and every copy of it a daemon is about to write back, names a
\* daemon that had connected its hosts: SaveSession comes after connectAll.
Unsaved == {"unborn", "starting", "unlinked", "bound", "connected", "truncated"}
RecordNamesConnected ==
  /\ record \in Daemons => proc[record] \notin Unsaved
  /\ \A c \in Clis : pc[c] = "waiting" /\ job[c] \in {"truncate", "write"} =>
       copy[c] \in Daemons /\ proc[copy[c]] \notin Unsaved

\* A session is one handle: no two daemons serve it at once, apart from one
\* that has been told to stop.
SingleHandle ==
  \A d, e \in Daemons :
    /\ proc[d] = "serving" /\ d \notin signalled
    /\ proc[e] = "serving" /\ e \notin signalled
    => d = e

\* When no command line runs, a daemon that serves is the one that the
\* record names and the socket reaches.
Reachable ==
  Busy = {} => \A d \in Daemons : proc[d] = "serving" /\ d \notin signalled =>
    record = d /\ sock = d

\* A client reports success only for a command the daemon answered.
SuccessMeansAnswered ==
  \A c \in Clis : result[c] = "success" => job[c] = "answered"

\* Every command line comes to an end, whatever the others do and wherever a
\* daemon dies.
CliEnds == \A c \in Clis : pc[c] # "idle" ~> pc[c] = "idle"

=============================================================================
