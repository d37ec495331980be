---------------------------- MODULE MountRunner ----------------------------
(***************************************************************************)
(* lsshfs at one mountpoint (internal/lsshfs/{runner,state,backend}.go and *)
(* internal/app/lsshfs/app.go): background processes that serve a remote   *)
(* directory, each started by an lsshfs command line, and lsshfs --unmount.*)
(* They share the kernel's mount table and one record file, which is named *)
(* after the mountpoint, and lock neither.                                 *)
(*                                                                         *)
(* Everything that unmounts does so by path: it takes the topmost mount,   *)
(* whoever made it.                                                        *)
(***************************************************************************)
EXTENDS Naturals, Sequences, SequencesExt

CONSTANTS
  Runners,            \* background processes (pids), each started at most once
  None,               \* no record
  MountRetryCount,    \* defaultMountRetryCount
  AliveFailureLimit,  \* r.aliveFailureLimit
  Overlap,            \* may the user start a runner before the last has ended
                      \* and before --unmount has returned?
  SlowMounts          \* may a FUSE mount come after Run stopped waiting for it?

ASSUME MountRunnerAssumption ==
  /\ None \notin Runners
  /\ MountRetryCount \in Nat \ {0} /\ AliveFailureLimit \in Nat \ {0}
  /\ Overlap \in BOOLEAN /\ SlowMounts \in BOOLEAN

VARIABLES
  kind,       \* "fuse" and "nfs" over SSH, "connector" (FUSE over a connector)
  record,     \* the runner named by the record file, or None
  mounts,     \* the mounts at the mountpoint, the topmost one last
  pc,         \* where Run is
  conn,       \* "none", "up", "silent" (no answer), "lost" or "closed"
  serve,      \* the goroutine in FUSEForward or NFSForward
  serveErrCh, \* its buffered result: "empty", "nil" or "err"
  attempts,   \* mount commands that failed
  failures,   \* aliveFailures
  armed,      \* runners whose Run has called signal.Notify
  sigCh,      \* those with a signal in the channel of Run
  serverSig,  \* those with one in the channel of the FUSE server (go-sshlib)
  told,       \* those that called ReadyNotifier: "Mounted in background"
  killed,     \* those a signal has killed
  upc,        \* where lsshfs --unmount is
  target      \* the runner in the record it loaded, or None

runVars == <<pc, conn, attempts, failures, armed, told>>
serveVars == <<serve, serveErrCh>>
signalVars == <<sigCh, serverSig, killed>>
unmountVars == <<upc, target>>
vars == <<kind, record, mounts, runVars, serveVars, signalVars, unmountVars>>

Init ==
  /\ kind \in [Runners -> {"fuse", "nfs", "connector"}]
  /\ record = None /\ mounts = <<>>
  /\ pc = [r \in Runners |-> "idle"]
  /\ conn = [r \in Runners |-> "none"]
  /\ serve = [r \in Runners |-> "off"]
  /\ serveErrCh = [r \in Runners |-> "empty"]
  /\ attempts = [r \in Runners |-> 0]
  /\ failures = [r \in Runners |-> 0]
  /\ armed = {} /\ sigCh = {} /\ serverSig = {} /\ told = {} /\ killed = {}
  /\ upc = "idle" /\ target = None

Alive(r) == pc[r] \notin {"idle", "gone"}
Mounted(r) == r \in Range(mounts)

\* A mount whose server has died: every access to the mountpoint fails.
Stale == mounts # <<>> /\ ~Alive(Last(mounts))

\* The unmount commands, up to the lazy and forced ones: one of them works.
UnmountTop == mounts' = IF mounts = <<>> THEN mounts ELSE Front(mounts)

Goto(r, at) == pc' = [pc EXCEPT ![r] = at]

(***************************************************************************)
(* Run: start, mount, wait, report.                                        *)
(***************************************************************************)
\* os.MkdirAll fails on a stale mount, and Run returns.
Launch(r) ==
  /\ pc[r] = "idle"
  /\ ~Overlap => /\ upc = "idle"
                 /\ \A q \in Runners : ~Alive(q)
  /\ Goto(r, IF Stale THEN "gone" ELSE "connecting")
  /\ UNCHANGED <<kind, record, mounts, conn, attempts, failures, armed, told,
                 serveVars, signalVars, unmountVars>>

Connect(r) ==
  /\ pc[r] = "connecting"
  /\ \/ Goto(r, "connected") /\ conn' = [conn EXCEPT ![r] = "up"]
     \/ Goto(r, "gone") /\ UNCHANGED conn
  /\ UNCHANGED <<kind, record, mounts, attempts, failures, armed, told,
                 serveVars, signalVars, unmountVars>>

\* Overwrites the record of whoever is mounted there.
WriteMountRecord(r) ==
  /\ pc[r] = "connected" /\ Goto(r, "recorded")
  /\ record' = r
  /\ UNCHANGED <<kind, mounts, conn, attempts, failures, armed, told,
                 serveVars, signalVars, unmountVars>>

\* Starts the serving goroutine, unless pickFreePort fails: then Run returns
\* at once and leaves the rest to its deferred calls.
StartServing(r) ==
  /\ pc[r] = "recorded"
  /\ \/ /\ Goto(r, IF kind[r] = "nfs" THEN "mounting" ELSE "settling")
        /\ serve' = [serve EXCEPT ![r] = "starting"]
     \/ kind[r] = "nfs" /\ Goto(r, "returning") /\ UNCHANGED serve
  /\ UNCHANGED <<kind, record, mounts, conn, attempts, failures, armed, told,
                 serveErrCh, signalVars, unmountVars>>

TakeServeErr(r) ==
  /\ serveErrCh[r] # "empty"
  /\ serveErrCh' = [serveErrCh EXCEPT ![r] = "empty"]

\* FUSE: half a second in which the serving goroutine may fail.
Settle(r) ==
  /\ pc[r] = "settling"
  /\ \/ TakeServeErr(r) /\ serveErrCh[r] = "err" /\ Goto(r, "unmounting")
     \/ TakeServeErr(r) /\ serveErrCh[r] = "nil" /\ Goto(r, "returning")
     \/ Goto(r, "waiting") /\ UNCHANGED serveErrCh
  /\ UNCHANGED <<kind, record, mounts, conn, attempts, failures, armed, told,
                 serve, signalVars, unmountVars>>

\* NFS, mountWithRetry: the mount command, which needs the server, ...
MountCommand(r) ==
  /\ pc[r] = "mounting" /\ serve[r] = "serving"
  /\ mounts' = Append(mounts, r) /\ Goto(r, "waiting")
  /\ UNCHANGED <<kind, record, conn, attempts, failures, armed, told,
                 serveVars, signalVars, unmountVars>>

\* ... may fail, also for the last time or with the server (NFSForward only
\* returns with an error).
MountCommandFails(r) ==
  /\ pc[r] = "mounting"
  /\ attempts' = [attempts EXCEPT ![r] = @ + 1]
  /\ \/ TakeServeErr(r) /\ Goto(r, "unmounting")
     \/ /\ serveErrCh[r] = "empty" /\ UNCHANGED serveErrCh
        /\ Goto(r, IF attempts'[r] = MountRetryCount THEN "unmounting" ELSE "mounting")
  /\ UNCHANGED <<kind, record, mounts, conn, failures, armed, told,
                 serve, signalVars, unmountVars>>

\* isMountActive looks for any mount at the path, until the time is over.
WaitForMountActive(r) ==
  /\ pc[r] = "waiting"
  /\ Goto(r, IF mounts # <<>> THEN "active" ELSE "unmounting")
  /\ UNCHANGED <<kind, record, mounts, conn, attempts, failures, armed, told,
                 serveVars, signalVars, unmountVars>>

NotifyReady(r) ==
  /\ pc[r] = "active" /\ Goto(r, "notified")
  /\ told' = told \cup {r}
  /\ UNCHANGED <<kind, record, mounts, conn, attempts, failures, armed,
                 serveVars, signalVars, unmountVars>>

SignalNotify(r) ==
  /\ pc[r] = "notified" /\ Goto(r, "looping")
  /\ armed' = armed \cup {r}
  /\ UNCHANGED <<kind, record, mounts, conn, attempts, failures, told,
                 serveVars, signalVars, unmountVars>>

(***************************************************************************)
(* Run: the loop, the cleanup and the deferred calls.                      *)
(***************************************************************************)
ServeExited(r) ==
  /\ pc[r] = "looping" /\ TakeServeErr(r) /\ Goto(r, "unmounting")
  /\ UNCHANGED <<kind, record, mounts, conn, attempts, failures, armed, told,
                 serve, signalVars, unmountVars>>

SignalReceived(r) ==
  /\ pc[r] = "looping" /\ r \in sigCh /\ Goto(r, "unmounting")
  /\ sigCh' = sigCh \ {r}
  /\ UNCHANGED <<kind, record, mounts, conn, attempts, failures, armed, told,
                 serveVars, serverSig, killed, unmountVars>>

\* The ticker fires and CheckClientAlive sends its request ...
Tick(r) ==
  /\ pc[r] = "looping" /\ Goto(r, "checking")
  /\ UNCHANGED <<kind, record, mounts, conn, attempts, failures, armed, told,
                 serveVars, signalVars, unmountVars>>

\* ... and the loop stands still until it is answered or the transport fails.
CheckOk(r) ==
  /\ pc[r] = "checking" /\ conn[r] = "up" /\ Goto(r, "looping")
  /\ failures' = [failures EXCEPT ![r] = 0]
  /\ UNCHANGED <<kind, record, mounts, conn, attempts, armed, told,
                 serveVars, signalVars, unmountVars>>

\* Deviation: the failures are not counted.
NextFailuresForgotten(n) == 0

NextFailures(n) == n + 1

TooMany(n) == n >= AliveFailureLimit

CheckFails(r) ==
  /\ pc[r] = "checking" /\ conn[r] \in {"up", "lost"}
  /\ failures' = [failures EXCEPT ![r] = NextFailures(@)]
  /\ Goto(r, IF TooMany(failures'[r]) THEN "unmounting" ELSE "looping")
  /\ UNCHANGED <<kind, record, mounts, conn, attempts, armed, told,
                 serveVars, signalVars, unmountVars>>

CleanupUnmounts(r) ==
  /\ pc[r] = "unmounting" /\ Goto(r, "closing")
  /\ UnmountTop
  /\ UNCHANGED <<kind, record, conn, attempts, failures, armed, told,
                 serveVars, signalVars, unmountVars>>

\* The connector's Close unmounts once more, by path, if it ever mounted.
CleanupCloses(r) ==
  /\ pc[r] = "closing" /\ Goto(r, "returning")
  /\ conn' = [conn EXCEPT ![r] = "closed"]
  /\ IF kind[r] = "connector" /\ serve[r] \in {"serving", "ended"}
       THEN UnmountTop \/ UNCHANGED mounts
       ELSE UNCHANGED mounts
  /\ UNCHANGED <<kind, record, attempts, failures, armed, told,
                 serveVars, signalVars, unmountVars>>

\* The process ends and takes its goroutines, its variables, its channels and
\* its connection with it.
Ends(r) ==
  /\ Goto(r, "gone")
  /\ conn' = [conn EXCEPT ![r] = "closed"]
  /\ serve' = [serve EXCEPT ![r] = "off"]
  /\ serveErrCh' = [serveErrCh EXCEPT ![r] = "empty"]
  /\ attempts' = [attempts EXCEPT ![r] = 0] /\ failures' = [failures EXCEPT ![r] = 0]
  /\ armed' = armed \ {r} /\ sigCh' = sigCh \ {r} /\ serverSig' = serverSig \ {r}

\* Deviation: the record is only removed after a cleanup.
RemoveMountRecordIfClosed(r) ==
  record' = IF conn[r] = "closed" THEN None ELSE record

RemoveMountRecord(r) == record' = None

\* signal.Stop, removeMountRecord, connect.Close
Return(r) ==
  /\ pc[r] = "returning" /\ Ends(r)
  /\ RemoveMountRecord(r)
  /\ UNCHANGED <<kind, mounts, told, killed, unmountVars>>

RunStep(r) ==
  \/ Connect(r) \/ WriteMountRecord(r) \/ StartServing(r) \/ Settle(r)
  \/ MountCommand(r) \/ MountCommandFails(r) \/ WaitForMountActive(r)
  \/ NotifyReady(r) \/ SignalNotify(r) \/ ServeExited(r) \/ SignalReceived(r)
  \/ Tick(r) \/ CheckOk(r) \/ CheckFails(r)
  \/ CleanupUnmounts(r) \/ CleanupCloses(r) \/ Return(r)

(***************************************************************************)
(* The serving goroutine.                                                  *)
(***************************************************************************)
\* FUSE mounts by itself; NFS only listens.
Serve(r) ==
  /\ serve[r] = "starting" /\ serve' = [serve EXCEPT ![r] = "serving"]
  /\ IF kind[r] = "nfs" THEN UNCHANGED mounts
     ELSE /\ SlowMounts \/ pc[r] \in {"settling", "waiting"}
          /\ mounts' = Append(mounts, r)
  /\ UNCHANGED <<kind, record, runVars, serveErrCh, signalVars, unmountVars>>

ServeFails(r) ==
  /\ serve[r] = "starting" /\ serve' = [serve EXCEPT ![r] = "ended"]
  /\ serveErrCh' = [serveErrCh EXCEPT ![r] = "err"]
  /\ UNCHANGED <<kind, record, mounts, runVars, signalVars, unmountVars>>

\* server.Wait returns once the file system is unmounted.
ServeEnds(r) ==
  /\ serve[r] = "serving" /\ kind[r] # "nfs" /\ ~Mounted(r)
  /\ serve' = [serve EXCEPT ![r] = "ended"]
  /\ serveErrCh' = [serveErrCh EXCEPT ![r] = "nil"]
  /\ serverSig' = serverSig \ {r}
  /\ UNCHANGED <<kind, record, mounts, runVars, sigCh, killed, unmountVars>>

\* go-sshlib's FUSE server unmounts on a signal; a busy mount stays.
ServerUnmounts(r) ==
  /\ r \in serverSig /\ serverSig' = serverSig \ {r}
  /\ UnmountTop \/ UNCHANGED mounts
  /\ UNCHANGED <<kind, record, runVars, serveVars, sigCh, killed, unmountVars>>

(***************************************************************************)
(* The world: the network, signals, kill -9.                               *)
(***************************************************************************)
ConnectionBreaks(r) ==
  /\ Alive(r) /\ conn[r] = "up"
  /\ \E c \in {"silent", "lost"} : conn' = [conn EXCEPT ![r] = c]
  /\ UNCHANGED <<kind, record, mounts, pc, attempts, failures, armed, told,
                 serveVars, signalVars, unmountVars>>

\* TCP gives up on what it could not deliver.
TransportGivesUp(r) ==
  /\ conn[r] = "silent" /\ conn' = [conn EXCEPT ![r] = "lost"]
  /\ UNCHANGED <<kind, record, mounts, pc, attempts, failures, armed, told,
                 serveVars, signalVars, unmountVars>>

InServer(r) == kind[r] = "fuse" /\ serve[r] = "serving"
InRun(r) == r \in armed /\ pc[r] # "returning"

\* SIGTERM or SIGINT: to every channel that was registered, and otherwise
\* the process dies without its deferred calls.
Signal(r) ==
  IF InServer(r) \/ InRun(r)
    THEN /\ sigCh' = sigCh \cup {q \in {r} : InRun(q)}
         /\ serverSig' = serverSig \cup {q \in {r} : InServer(q)}
         /\ UNCHANGED <<runVars, serveVars, killed>>
    ELSE Ends(r) /\ killed' = killed \cup {r} /\ UNCHANGED told

UserSignals(r) ==
  /\ Alive(r) /\ Signal(r)
  /\ UNCHANGED <<kind, record, mounts, unmountVars>>

Kill9(r) ==
  /\ Alive(r) /\ Ends(r) /\ killed' = killed \cup {r}
  /\ UNCHANGED <<kind, record, mounts, told, unmountVars>>

(***************************************************************************)
(* lsshfs --unmount                                                        *)
(***************************************************************************)
\* Load the record and signal the process it names, if that still runs.
UnmountBegins ==
  /\ upc = "idle"
  /\ target' = record
  /\ upc' = IF record = None THEN "commands" ELSE "waiting"
  /\ IF record # None /\ Alive(record) THEN Signal(record)
     ELSE UNCHANGED <<runVars, serveVars, signalVars>>
  /\ UNCHANGED <<kind, record, mounts>>

\* The record is gone, or two seconds have passed.
UnmountWaited ==
  /\ upc = "waiting" /\ upc' = "commands"
  /\ UNCHANGED <<kind, record, mounts, runVars, serveVars, signalVars, target>>

\* Deviation: the commands are left to a process that still has its record.
UnmountRunsIfGone ==
  /\ upc = "commands" /\ upc' = "removing"
  /\ IF record = None THEN UnmountTop ELSE UNCHANGED mounts
  /\ UNCHANGED <<kind, record, runVars, serveVars, signalVars, target>>

UnmountRuns ==
  /\ upc = "commands" /\ upc' = "removing"
  /\ UnmountTop
  /\ UNCHANGED <<kind, record, runVars, serveVars, signalVars, target>>

UnmountRemoves ==
  /\ upc = "removing" /\ upc' = "done"
  /\ record' = None
  /\ UNCHANGED <<kind, mounts, runVars, serveVars, signalVars, target>>

UnmountReturns ==
  /\ upc = "done" /\ upc' = "idle" /\ target' = None
  /\ UNCHANGED <<kind, record, mounts, runVars, serveVars, signalVars>>

UnmountStep ==
  UnmountBegins \/ UnmountWaited \/ UnmountRuns \/ UnmountRemoves \/ UnmountReturns

RunnersNext ==
  \E r \in Runners :
    \/ Launch(r) \/ RunStep(r)
    \/ Serve(r) \/ ServeFails(r) \/ ServeEnds(r) \/ ServerUnmounts(r)
    \/ ConnectionBreaks(r) \/ TransportGivesUp(r) \/ UserSignals(r) \/ Kill9(r)

Next == RunnersNext \/ UnmountStep

\* Run gets to run, its ticker ticks, its commands end, and TCP does not
\* retransmit for ever.
Fairness ==
  \A r \in Runners : WF_vars(RunStep(r)) /\ WF_vars(TransportGivesUp(r))

Spec == Init /\ [][Next]_vars
FairSpec == Spec /\ Fairness

\* Nobody calls lsshfs --unmount.
NoUnmountSpec == Init /\ [][RunnersNext]_vars

(***************************************************************************)
(* Properties                                                              *)
(***************************************************************************)
\* Types.
TypeOK ==
  /\ kind \in [Runners -> {"fuse", "nfs", "connector"}]
  /\ record \in Runners \cup {None} /\ mounts \in Seq(Runners)
  /\ pc \in [Runners -> {"idle", "connecting", "connected", "recorded", "settling",
                         "mounting", "waiting", "active", "notified", "looping",
                         "checking", "unmounting", "closing", "returning", "gone"}]
  /\ conn \in [Runners -> {"none", "up", "silent", "lost", "closed"}]
  /\ serve \in [Runners -> {"off", "starting", "serving", "ended"}]
  /\ serveErrCh \in [Runners -> {"empty", "nil", "err"}]
  /\ attempts \in [Runners -> 0 .. MountRetryCount]
  /\ failures \in [Runners -> 0 .. AliveFailureLimit]
  /\ armed \subseteq Runners /\ sigCh \subseteq armed /\ serverSig \subseteq Runners
  /\ told \subseteq Runners /\ killed \subseteq Runners
  /\ upc \in {"idle", "waiting", "commands", "removing", "done"}
  /\ target \in Runners \cup {None}

\* However Run comes to its end (a failed start, a lost connection, a signal,
\* somebody else's umount), it leaves neither its mount nor its record behind.
\* Only a signal that killed the process excuses it.
LeavesNothing ==
  \A r \in Runners \ killed : pc[r] = "gone" => ~Mounted(r) /\ record # r

\* When lsshfs --unmount returns, the mount it found recorded is gone with its
\* record: also when the process had died before, dies of the signal, does not
\* come to see it, or is not done in two seconds.
UnmountCleans ==
  upc = "done" /\ target # None => ~Mounted(target) /\ record # target

\* README: "automatically unmounts when the SSH connection is lost", and the
\* process ends, at whatever point of its life the connection breaks.
LostIsUnmounted ==
  \A r \in Runners :
    conn[r] \in {"silent", "lost"} ~>
      \/ r \in killed
      \/ pc[r] = "gone" /\ ~Mounted(r) /\ record # r

\* README: "Mounts are recorded locally so you can list them later or unmount
\* by mountpoint": while a runner serves a mount there is a record.
MountsAreRecorded ==
  (\E r \in Runners : pc[r] = "looping" /\ Mounted(r)) => record # None
=============================================================================
