------------------------- MODULE MountRunnerProofs -------------------------
(***************************************************************************)
(* Proofs about lsshfs at one mountpoint, for any number of background     *)
(* processes, any number of calls of lsshfs --unmount and any limits, if   *)
(* the user starts a process only after the last has ended (~Overlap).     *)
(***************************************************************************)
EXTENDS MountRunner, TLAPS

Types ==
  /\ kind \in [Runners -> {"fuse", "nfs", "connector"}]
  /\ record \in Runners \cup {None}
  /\ pc \in [Runners -> {"idle", "connecting", "connected", "recorded", "settling",
                         "mounting", "waiting", "active", "notified", "looping",
                         "checking", "unmounting", "closing", "returning", "gone"}]
  /\ conn \in [Runners -> {"none", "up", "silent", "lost", "closed"}]
  /\ serve \in [Runners -> {"off", "starting", "serving", "ended"}]
  /\ serveErrCh \in [Runners -> {"empty", "nil", "err"}]
  /\ attempts \in [Runners -> Nat] /\ failures \in [Runners -> Nat]
  /\ upc \in {"idle", "waiting", "commands", "removing", "done"}
  /\ target \in Runners \cup {None}

\* There is at most one mount at the mountpoint, and while a process runs there
\* is none of another: on a stale one it would not have started.
OneMount ==
  /\ \A q, r \in Runners : Alive(q) /\ Alive(r) => q = r
  /\ \/ mounts = <<>>
     \/ \E q \in Runners : mounts = <<q>> /\ \A r \in Runners : Alive(r) => r = q

\* Where a process is before it mounts, and that it mounts once.
Unrecorded == {"idle", "connecting", "connected"}
NotYet(r) == pc[r] \in Unrecorded \cup {"recorded"}
MountedOnce(r) ==
  IF kind[r] = "nfs" THEN pc[r] \notin {"settling", "mounting"} ELSE serve[r] \in {"serving", "ended"}
Mounting ==
  \A r \in Runners :
    /\ NotYet(r) => serve[r] = "off" /\ ~Mounted(r)
    /\ ~Alive(r) => serve[r] = "off"
    /\ Alive(r) /\ Mounted(r) => MountedOnce(r)
    /\ pc[r] \in {"active", "notified", "looping", "checking"} \/ r \in armed => Alive(r) /\ ~NotYet(r) /\ MountedOnce(r)
    /\ pc[r] = "mounting" => kind[r] = "nfs"
    /\ pc[r] = "settling" => kind[r] # "nfs"
    /\ record = r => pc[r] \notin Unrecorded

\* lsshfs --unmount: the process it found recorded will not mount again.
Unmounting ==
  target # None /\ upc # "idle" =>
    /\ pc[target] \notin Unrecorded
    /\ Alive(target) => ~NotYet(target) /\ MountedOnce(target)
    /\ upc \in {"removing", "done"} => ~Mounted(target)
    /\ upc = "done" => record # target

MountInv == Types /\ OneMount /\ Mounting /\ Unmounting

\* A process that is about to return has no mount any more, ...
Unmounted ==
  \A r \in Runners :
    /\ pc[r] \in {"closing", "returning"} => ~Mounted(r)
    /\ serveErrCh[r] = "nil" => kind[r] # "nfs" /\ serve[r] = "ended" /\ ~Mounted(r)

\* ... and one that has returned, no record either.
Cleaned == MountInv /\ Unmounted /\ LeavesNothing

(***************************************************************************)
(* Sequences of at most one mount.                                         *)
(***************************************************************************)
LEMMA NoMounts == Range(<<>>) = {}
  BY DEF Range

LEMMA OneMounted ==
  ASSUME NEW q
  PROVE  /\ Range(<<q>>) = {q} /\ Last(<<q>>) = q /\ Front(<<q>>) = <<>>
         /\ Append(<<>>, q) = <<q>> /\ <<q>> # <<>>
<1>1. DOMAIN <<q>> = {1} /\ <<q>>[1] = q /\ Len(<<q>>) = 1
  OBVIOUS
<1>2. Range(<<q>>) = {q}
  BY <1>1 DEF Range
<1>3. Last(<<q>>) = q
  BY <1>1 DEF Last
<1>4. Front(<<q>>) = <<>>
  BY <1>1 DEF Front
<1>5. Append(<<>>, q) = <<q>> /\ <<q>> # <<>>
  OBVIOUS
<1> QED
  BY <1>2, <1>3, <1>4, <1>5

\* What is mounted, by whom.
LEMMA WhoMounts ==
  ASSUME OneMount
  PROVE  \/ mounts = <<>> /\ \A r \in Runners : ~Mounted(r)
         \/ \E q \in Runners : /\ mounts = <<q>>
                              /\ \A r \in Runners : (Mounted(r) <=> r = q) /\ (Alive(r) => r = q)
<1>1. CASE mounts = <<>>
  BY <1>1, NoMounts DEF Mounted
<1>2. CASE \E q \in Runners : mounts = <<q>> /\ \A r \in Runners : Alive(r) => r = q
  <2>1. PICK q \in Runners : mounts = <<q>> /\ \A r \in Runners : Alive(r) => r = q
    BY <1>2
  <2>2. Range(mounts) = {q}
    BY <2>1, OneMounted
  <2> QED
    BY <2>1, <2>2 DEF Mounted
<1> QED
  BY <1>1, <1>2 DEF OneMount

\* Unmounting the topmost mount leaves none.
LEMMA UnmountTopLeavesNone ==
  ASSUME OneMount, UnmountTop
  PROVE  mounts' = <<>>
<1>1. CASE mounts = <<>>
  BY <1>1 DEF UnmountTop
<1>2. CASE \E q \in Runners : mounts = <<q>>
  BY <1>2, OneMounted DEF UnmountTop
<1> QED
  BY <1>1, <1>2 DEF OneMount

(***************************************************************************)
(* Types.                                                                  *)
(***************************************************************************)
LEMMA TypesInit == Init => Types
  BY DEF Init, Types

LEMMA EndsTypes ==
  ASSUME Types, NEW r \in Runners, Ends(r)
  PROVE  /\ pc' = [pc EXCEPT ![r] = "gone"]
         /\ (pc \in [Runners -> {"idle", "connecting", "connected", "recorded", "settling",
                         "mounting", "waiting", "active", "notified", "looping",
                         "checking", "unmounting", "closing", "returning", "gone"}])'
         /\ (conn \in [Runners -> {"none", "up", "silent", "lost", "closed"}])'
         /\ (serve \in [Runners -> {"off", "starting", "serving", "ended"}])'
         /\ (serveErrCh \in [Runners -> {"empty", "nil", "err"}])'
         /\ (attempts \in [Runners -> Nat] /\ failures \in [Runners -> Nat])'
  BY DEF Types, Ends, Goto

LEMMA TypesNext == Types /\ [Next]_vars => Types'
<1> SUFFICES ASSUME Types, [Next]_vars
             PROVE  Types'
  OBVIOUS
<1> USE DEF runVars, serveVars, signalVars, unmountVars
<1>1. ASSUME NEW r \in Runners, Signal(r), UNCHANGED <<kind, record, mounts>>,
             upc' \in {"idle", "waiting", "commands", "removing", "done"}, target' \in Runners \cup {None}
      PROVE  Types'
  BY <1>1, EndsTypes DEF Signal, Types
<1>2. ASSUME NEW r \in Runners, RunStep(r)
      PROVE  Types'
  <2>1. CASE Connect(r) \/ WriteMountRecord(r) \/ MountCommand(r)
    BY <2>1 DEF Connect, WriteMountRecord, MountCommand, Goto, Types
  <2>6. CASE WaitForMountActive(r) \/ NotifyReady(r) \/ SignalNotify(r) \/ SignalReceived(r)
    BY <2>6 DEF WaitForMountActive, NotifyReady, SignalNotify, SignalReceived, Goto, Types
  <2>5. CASE StartServing(r) \/ Settle(r) \/ ServeExited(r)
    BY <2>5 DEF StartServing, Settle, ServeExited, TakeServeErr, Goto, Types
  <2>2. CASE MountCommandFails(r) \/ Tick(r) \/ CheckOk(r) \/ CheckFails(r)
    BY <2>2 DEF MountCommandFails, Tick, CheckOk, CheckFails, NextFailures, TakeServeErr, Goto, Types
  <2>3. CASE CleanupUnmounts(r) \/ CleanupCloses(r)
    BY <2>3 DEF CleanupUnmounts, CleanupCloses, Goto, Types
  <2>4. CASE Return(r)
    BY <2>4, EndsTypes DEF Return, RemoveMountRecord, Types
  <2> QED
    BY <1>2, <2>1, <2>2, <2>3, <2>4, <2>5, <2>6 DEF RunStep
<1>3. ASSUME NEW r \in Runners,
             Launch(r) \/ Serve(r) \/ ServeFails(r) \/ ServeEnds(r) \/ ServerUnmounts(r)
      PROVE  Types'
  <2>1. CASE Launch(r)
    BY <2>1 DEF Launch, Goto, Types
  <2>2. CASE Serve(r) \/ ServeFails(r) \/ ServeEnds(r)
    BY <2>2 DEF Serve, ServeFails, ServeEnds, Types
  <2>3. CASE ServerUnmounts(r)
    BY <2>3 DEF ServerUnmounts, Types
  <2> QED
    BY <1>3, <2>1, <2>2, <2>3
<1>4. ASSUME NEW r \in Runners, ConnectionBreaks(r) \/ TransportGivesUp(r)
      PROVE  Types'
  BY <1>4 DEF ConnectionBreaks, TransportGivesUp, Types
<1>5. ASSUME NEW r \in Runners, UserSignals(r) \/ Kill9(r)
      PROVE  Types'
  <2>1. CASE UserSignals(r)
    <3>1. upc \in {"idle", "waiting", "commands", "removing", "done"} /\ target \in Runners \cup {None}
      BY DEF Types
    <3> QED
      BY <1>1, <2>1, <3>1 DEF UserSignals
  <2>2. CASE Kill9(r)
    BY <2>2, EndsTypes DEF Kill9, Types
  <2> QED
    BY <1>5, <2>1, <2>2
<1>6. CASE UnmountBegins
  <2>1. CASE record # None /\ Alive(record)
    BY <1>1, <1>6, <2>1 DEF UnmountBegins, Types
  <2>2. CASE ~(record # None /\ Alive(record))
    BY <1>6, <2>2 DEF UnmountBegins, Types
  <2> QED
    BY <2>1, <2>2
<1>7. CASE UnmountWaited \/ UnmountRuns \/ UnmountRemoves \/ UnmountReturns \/ UNCHANGED vars
  BY <1>7 DEF UnmountWaited, UnmountRuns, UnmountRemoves, UnmountReturns, vars, Types
<1> QED
  BY <1>2, <1>3, <1>4, <1>5, <1>6, <1>7 DEF Next, RunnersNext, UnmountStep

\* Channels and limits: a process gives up at the last failed mount command and
\* at the last failed check, and only who has called signal.Notify gets signals.
Limits ==
  /\ mounts \in Seq(Runners)
  /\ armed \subseteq Runners /\ sigCh \subseteq armed /\ serverSig \subseteq Runners
  /\ told \subseteq Runners /\ killed \subseteq Runners
  /\ \A r \in Runners :
       /\ attempts[r] <= MountRetryCount /\ failures[r] <= AliveFailureLimit
       /\ NotYet(r) \/ pc[r] = "mounting" => attempts[r] < MountRetryCount
       /\ pc[r] \notin {"unmounting", "closing", "returning"} => failures[r] < AliveFailureLimit

LEMMA LimitsInit == Init => Limits
  BY MountRunnerAssumption DEF Init, Limits

LEMMA EndsLimits ==
  ASSUME Types, Limits, NEW r \in Runners, Ends(r), UNCHANGED <<mounts, told>>,
         killed' \in {killed, killed \cup {r}}
  PROVE  Limits'
  BY MountRunnerAssumption DEF Types, Limits, Ends, Goto, NotYet, Unrecorded

LEMMA LimitsNext == Types /\ Limits /\ [Next]_vars => Limits'
<1> SUFFICES ASSUME Types, Limits, [Next]_vars
             PROVE  Limits'
  OBVIOUS
<1> USE DEF runVars, serveVars, signalVars, unmountVars, NotYet, Unrecorded
<1>1. ASSUME NEW r \in Runners, Signal(r), UNCHANGED mounts
      PROVE  Limits'
  BY <1>1, EndsLimits DEF Signal, InRun, InServer, Limits
<1>2. ASSUME UnmountTop
      PROVE  mounts' \in Seq(Runners)
  BY <1>2 DEF UnmountTop, Front, Limits
<1>3. ASSUME NEW r \in Runners,
             \/ Launch(r) \/ Connect(r) \/ WriteMountRecord(r) \/ StartServing(r) \/ Settle(r)
             \/ WaitForMountActive(r) \/ NotifyReady(r) \/ SignalNotify(r) \/ ServeExited(r)
             \/ SignalReceived(r) \/ Tick(r)
      PROVE  Limits'
  <2>1. UNCHANGED <<mounts, attempts, failures>>
    BY <1>3 DEF Launch, Connect, WriteMountRecord, StartServing, Settle, WaitForMountActive,
                NotifyReady, SignalNotify, ServeExited, SignalReceived, Tick
  <2>2. \A q \in Runners :
          /\ NotYet(q)' \/ pc'[q] = "mounting" => NotYet(q) \/ pc[q] = "mounting"
          /\ pc'[q] \notin {"unmounting", "closing", "returning"}
               => pc[q] \notin {"unmounting", "closing", "returning"}
    BY <1>3 DEF Launch, Connect, WriteMountRecord, StartServing, Settle, WaitForMountActive,
                NotifyReady, SignalNotify, ServeExited, SignalReceived, Tick, Goto, Types
  <2>3. /\ armed' \subseteq Runners /\ sigCh' \subseteq armed' /\ serverSig' \subseteq Runners
        /\ told' \subseteq Runners /\ killed' \subseteq Runners
    BY <1>3 DEF Launch, Connect, WriteMountRecord, StartServing, Settle, WaitForMountActive,
                NotifyReady, SignalNotify, ServeExited, SignalReceived, Tick, Limits
  <2> QED
    BY <2>1, <2>2, <2>3 DEF Limits
<1>4. ASSUME NEW r \in Runners, MountCommandFails(r) \/ CheckOk(r) \/ CheckFails(r)
      PROVE  Limits'
  <2> USE MountRunnerAssumption
  <2>1. CASE MountCommandFails(r)
    <3>1. attempts'[r] = attempts[r] + 1 /\ attempts[r] < MountRetryCount
          /\ (pc'[r] = "unmounting" \/ (pc'[r] = "mounting" /\ attempts'[r] # MountRetryCount))
      BY <2>1 DEF MountCommandFails, Goto, Types, Limits
    <3>2. \A q \in Runners \ {r} : pc'[q] = pc[q] /\ attempts'[q] = attempts[q]
      BY <2>1 DEF MountCommandFails, Goto, Types
    <3> QED
      BY <2>1, <3>1, <3>2 DEF MountCommandFails, Types, Limits
  <2>2. CASE CheckOk(r) \/ CheckFails(r)
    <3>1. failures'[r] <= AliveFailureLimit
          /\ (pc'[r] # "unmounting" => failures'[r] < AliveFailureLimit)
          /\ pc'[r] \in {"looping", "unmounting"}
      <4>1. failures[r] \in Nat /\ failures[r] < AliveFailureLimit /\ AliveFailureLimit \in Nat
            /\ AliveFailureLimit > 0
        <5>1. pc[r] = "checking"
          BY <2>2 DEF CheckOk, CheckFails
        <5>2. failures[r] < AliveFailureLimit
          BY <5>1 DEF Limits
        <5> QED
          BY <5>2 DEF Types
      <4>2. CASE CheckOk(r)
        BY <4>1, <4>2 DEF CheckOk, Goto, Types
      <4>3. CASE CheckFails(r)
        <5>1. failures'[r] = failures[r] + 1
          BY <4>3 DEF CheckFails, NextFailures, Types
        <5>2. pc'[r] = IF failures'[r] >= AliveFailureLimit THEN "unmounting" ELSE "looping"
          BY <4>3 DEF CheckFails, TooMany, Goto, Types
        <5> QED
          BY <4>1, <5>1, <5>2
      <4> QED
        BY <2>2, <4>2, <4>3
    <3>2. \A q \in Runners \ {r} : pc'[q] = pc[q] /\ failures'[q] = failures[q]
      BY <2>2 DEF CheckOk, CheckFails, Goto, Types
    <3> QED
      BY <2>2, <3>1, <3>2 DEF CheckOk, CheckFails, Types, Limits
  <2> QED
    BY <1>4, <2>1, <2>2
<1>5. ASSUME NEW r \in Runners,
             MountCommand(r) \/ CleanupUnmounts(r) \/ CleanupCloses(r) \/ Serve(r) \/ ServerUnmounts(r)
      PROVE  Limits'
  <2>1. mounts' \in Seq(Runners)
    BY <1>2, <1>5 DEF MountCommand, CleanupUnmounts, CleanupCloses, Serve, ServerUnmounts, Limits
  <2> QED
    <3>1. CASE MountCommand(r) \/ CleanupUnmounts(r) \/ CleanupCloses(r)
      <4>1. /\ UNCHANGED <<armed, sigCh, serverSig, told, killed, attempts, failures>>
            /\ \A q \in Runners \ {r} : pc'[q] = pc[q]
        BY <3>1 DEF MountCommand, CleanupUnmounts, CleanupCloses, Goto, Types
      <4>2. /\ pc'[r] \in {"waiting", "closing", "returning"}
            /\ pc'[r] = "waiting" => pc[r] = "mounting"
        BY <3>1 DEF MountCommand, CleanupUnmounts, CleanupCloses, Goto, Types
      <4> QED
        BY <2>1, <4>1, <4>2 DEF Limits
    <3>2. CASE Serve(r) \/ ServerUnmounts(r)
      <4>1. UNCHANGED <<pc, armed, sigCh, told, killed, attempts, failures>> /\ serverSig' \subseteq serverSig
        BY <3>2 DEF Serve, ServerUnmounts
      <4> QED
        BY <2>1, <4>1 DEF Limits
    <3> QED
      BY <1>5, <3>1, <3>2
<1>6. ASSUME NEW r \in Runners, Return(r) \/ UserSignals(r) \/ Kill9(r)
      PROVE  Limits'
  BY <1>1, <1>6, EndsLimits DEF Return, UserSignals, Kill9
<1>7. ASSUME NEW r \in Runners,
             ServeFails(r) \/ ServeEnds(r) \/ ConnectionBreaks(r) \/ TransportGivesUp(r)
      PROVE  Limits'
  BY <1>7 DEF ServeFails, ServeEnds, ConnectionBreaks, TransportGivesUp, Limits
<1>8. CASE UnmountBegins
  BY <1>1, <1>8 DEF UnmountBegins, Types, Limits
<1>9. CASE UnmountWaited \/ UnmountRuns \/ UnmountRemoves \/ UnmountReturns \/ UNCHANGED vars
  BY <1>2, <1>9 DEF UnmountWaited, UnmountRuns, UnmountRemoves, UnmountReturns, vars, Limits
<1> QED
  BY <1>3, <1>4, <1>5, <1>6, <1>7, <1>8, <1>9 DEF Next, RunnersNext, RunStep, UnmountStep

\* Types, for any number of processes and any limits: the attempts and the
\* failures stay within theirs.
THEOREM TypeCorrect == Spec => []TypeOK
<1>1. Init => Types /\ Limits
  BY TypesInit, LimitsInit
<1>2. Types /\ Limits /\ [Next]_vars => (Types /\ Limits)'
  BY TypesNext, LimitsNext
<1>3. Types /\ Limits => TypeOK
  BY MountRunnerAssumption DEF Types, Limits, TypeOK
<1> QED
  BY <1>1, <1>2, <1>3, PTL DEF Spec

(***************************************************************************)
(* One mount, and lsshfs --unmount.                                        *)
(***************************************************************************)
LEMMA InvInit == Init => OneMount /\ Mounting /\ Unmounting
<1> SUFFICES ASSUME Init
             PROVE  OneMount /\ Mounting /\ Unmounting
  OBVIOUS
<1>1. \A r \in Runners : pc[r] = "idle" /\ serve[r] = "off" /\ ~Mounted(r) /\ record # r
  BY NoMounts, MountRunnerAssumption DEF Init, Mounted
<1> QED
  BY <1>1 DEF Init, OneMount, Mounting, Unmounting, Alive, Unrecorded, NotYet

\* A process dies.
LEMMA InvEnds ==
  ASSUME MountInv, NEW r \in Runners, Ends(r), UNCHANGED <<kind, mounts, told>>,
         \/ UNCHANGED <<record, unmountVars>>
         \/ record' = None /\ UNCHANGED unmountVars
         \/ /\ UNCHANGED record /\ upc = "idle" /\ record = r
            /\ target' = r /\ upc' = "waiting"
  PROVE  (OneMount /\ Mounting /\ Unmounting)'
<1> USE DEF MountInv, Types, Ends, Goto, Alive, unmountVars
<1>1. \A q \in Runners : Mounted(q)' <=> Mounted(q)
  BY DEF Mounted
<1>2. OneMount'
  BY DEF OneMount
<1>3. Mounting'
  BY <1>1, MountRunnerAssumption DEF Mounting, Unrecorded, NotYet, MountedOnce
<1>4. Unmounting'
  BY <1>1, MountRunnerAssumption DEF Unmounting, Unrecorded, NotYet, MountedOnce
<1> QED
  BY <1>2, <1>3, <1>4

\* A process registered for signals has mounted.
LEMMA InvSignal ==
  ASSUME MountInv, NEW r \in Runners, Signal(r), Alive(r), UNCHANGED <<kind, record, mounts>>,
         \/ UNCHANGED unmountVars
         \/ upc = "idle" /\ record = r /\ target' = r /\ upc' = "waiting"
  PROVE  (OneMount /\ Mounting /\ Unmounting)'
<1>1. CASE ~(InServer(r) \/ InRun(r))
  BY <1>1, InvEnds DEF Signal
<1>2. CASE InServer(r) \/ InRun(r)
  <2>1. UNCHANGED <<runVars, serveVars>> /\ \A q \in Runners : Mounted(q)' <=> Mounted(q)
    BY <1>2 DEF Signal, Mounted
  <2>2. Alive(r) /\ ~NotYet(r) /\ MountedOnce(r)
    BY <1>2 DEF InServer, InRun, MountInv, Mounting, MountedOnce
  <2> USE DEF MountInv, Types, Alive, NotYet, Unrecorded, runVars, serveVars, unmountVars
  <2>3. OneMount' /\ Mounting'
    BY <2>1 DEF OneMount, Mounting, MountedOnce
  <2>4. Unmounting'
    BY <2>1, <2>2 DEF Unmounting, MountedOnce
  <2> QED
    BY <2>3, <2>4
<1> QED
  BY <1>1, <1>2

\* A process mounts: there was no mount before.
LEMMA InvMounts ==
  ASSUME MountInv, NEW r \in Runners, mounts' = Append(mounts, r), Alive(r), ~Mounted(r),
         UNCHANGED <<kind, record, unmountVars, armed>>, ~MountedOnce(r), ~NotYet(r),
         \/ /\ kind[r] # "nfs" /\ serve' = [serve EXCEPT ![r] = "serving"] /\ UNCHANGED pc
         \/ /\ kind[r] = "nfs" /\ pc' = [pc EXCEPT ![r] = "waiting"] /\ UNCHANGED serve
  PROVE  (OneMount /\ Mounting /\ Unmounting)'
<1>1. mounts' = <<r>>
  BY WhoMounts, OneMounted DEF MountInv
<1>2. \A q \in Runners : (Mounted(q)' <=> q = r) /\ (Alive(q) <=> Alive(q)') /\ (Alive(q) => q = r)
  BY <1>1, OneMounted DEF Mounted, Alive, MountInv, Types, OneMount
<1> USE DEF MountInv, Types, Unrecorded, NotYet, MountedOnce, unmountVars
<1>3. OneMount'
  BY <1>1, <1>2 DEF OneMount
<1>4. Mounting'
  BY <1>2 DEF Mounting, Alive
<1>5. Unmounting'
  BY <1>2 DEF Unmounting
<1> QED
  BY <1>3, <1>4, <1>5

\* Somebody unmounts: no mount is left.
LEMMA InvUnmounts ==
  ASSUME MountInv, UnmountTop, UNCHANGED <<kind, record, serve, armed, target>>,
         \/ UNCHANGED <<pc, upc>>
         \/ UNCHANGED pc /\ upc = "commands" /\ upc' = "removing"
         \/ \E r \in Runners : /\ pc[r] \in {"unmounting", "closing"} /\ UNCHANGED upc
                            /\ \E to \in {"closing", "returning"} : pc' = [pc EXCEPT ![r] = to]
  PROVE  mounts' = <<>> /\ (OneMount /\ Mounting /\ Unmounting)'
<1>1. mounts' = <<>> /\ \A q \in Runners : ~Mounted(q)'
  BY UnmountTopLeavesNone, NoMounts DEF MountInv, Mounted
<1>2. \A q \in Runners : (Alive(q) <=> Alive(q)') /\ (NotYet(q) <=> NotYet(q)') /\ (MountedOnce(q) <=> MountedOnce(q)')
                        /\ (pc[q] \in Unrecorded <=> pc'[q] \in Unrecorded)
  BY DEF MountInv, Types, Alive, NotYet, MountedOnce, Unrecorded
<1>3. OneMount'
  BY <1>1, <1>2 DEF OneMount, MountInv
<1>4. Mounting'
  BY <1>1, <1>2 DEF Mounting, MountInv, Types
<1>5. Unmounting'
  BY <1>1, <1>2 DEF Unmounting, MountInv, Types
<1> QED
  BY <1>1, <1>3, <1>4, <1>5

\* Steps that change neither mounts nor where processes are.
LEMMA InvFrame ==
  ASSUME MountInv, UNCHANGED <<kind, record, mounts, pc, armed, unmountVars>>,
         \A q \in Runners : serve'[q] = serve[q] \/ (serve[q] \in {"starting", "serving"} /\ serve'[q] = "ended")
  PROVE  (OneMount /\ Mounting /\ Unmounting)'
<1>1. \A q \in Runners : Mounted(q)' <=> Mounted(q)
  BY DEF Mounted
<1> USE DEF MountInv, Types, Alive, NotYet, Unrecorded, MountedOnce, unmountVars
<1>2. OneMount'
  BY DEF OneMount
<1>3. Mounting'
  BY <1>1 DEF Mounting
<1>4. Unmounting'
  BY <1>1 DEF Unmounting
<1> QED
  BY <1>2, <1>3, <1>4

LEMMA InvNext == ~Overlap /\ MountInv /\ [Next]_vars => (OneMount /\ Mounting /\ Unmounting)'
<1> SUFFICES ASSUME ~Overlap, MountInv, [Next]_vars
             PROVE  (OneMount /\ Mounting /\ Unmounting)'
  OBVIOUS
<1>1. CASE UNCHANGED vars
  BY <1>1, InvFrame DEF vars, runVars, serveVars, unmountVars
<1>2. ASSUME NEW r \in Runners, Launch(r)
      PROVE  (OneMount /\ Mounting /\ Unmounting)'
  <2> USE DEF MountInv, Types, Alive, NotYet, Unrecorded, MountedOnce, runVars, serveVars,
              unmountVars, Launch, Goto
  <2>1. \A q \in Runners : (Mounted(q)' <=> Mounted(q)) /\ ~Alive(q) /\ pc[r] = "idle" /\ upc = "idle"
    BY <1>2 DEF Mounted
  <2>2. CASE Stale
    BY <1>2, <2>1, <2>2 DEF OneMount, Mounting, Unmounting
  <2>3. CASE ~Stale
    <3>1. mounts = <<>>
      BY <2>1, <2>3, OneMounted DEF Stale, OneMount
    <3> QED
      BY <1>2, <2>1, <2>3, <3>1, NoMounts DEF OneMount, Mounting, Unmounting
  <2> QED
    BY <2>2, <2>3
\* Steps of a process that mount nothing.
<1>3. ASSUME NEW r \in Runners,
             \/ Connect(r) \/ WriteMountRecord(r) \/ StartServing(r) \/ Settle(r)
             \/ MountCommandFails(r) \/ WaitForMountActive(r) \/ NotifyReady(r)
             \/ SignalNotify(r) \/ ServeExited(r) \/ SignalReceived(r)
             \/ Tick(r) \/ CheckOk(r) \/ CheckFails(r)
      PROVE  (OneMount /\ Mounting /\ Unmounting)'
  <2>1. \A q \in Runners : Mounted(q)' <=> Mounted(q)
    BY <1>3 DEF Mounted, Connect, WriteMountRecord, StartServing, Settle, MountCommandFails,
                WaitForMountActive, NotifyReady, SignalNotify, ServeExited, SignalReceived,
                Tick, CheckOk, CheckFails
  <2>2. OneMount'
    <3>1. \A q \in Runners : Alive(q)' => Alive(q)
      BY <1>3 DEF MountInv, Types, Alive, Connect, WriteMountRecord, StartServing, Settle,
                  MountCommandFails, WaitForMountActive, NotifyReady, SignalNotify, ServeExited,
                  SignalReceived, Tick, CheckOk, CheckFails, Goto
    <3>2. mounts' = mounts
      BY <1>3 DEF Connect, WriteMountRecord, StartServing, Settle, MountCommandFails,
                  WaitForMountActive, NotifyReady, SignalNotify, ServeExited, SignalReceived,
                  Tick, CheckOk, CheckFails
    <3> QED
      BY <3>1, <3>2 DEF MountInv, OneMount
  <2>3. mounts # <<>> => Mounted(r)
    <3>1. Alive(r)
      BY <1>3 DEF Alive, Connect, WriteMountRecord, StartServing, Settle, MountCommandFails,
                  WaitForMountActive, NotifyReady, SignalNotify, ServeExited, SignalReceived,
                  Tick, CheckOk, CheckFails
    <3> QED
      BY <3>1, WhoMounts DEF MountInv
  <2> USE DEF MountInv, Types, Alive, NotYet, Unrecorded, MountedOnce, runVars, serveVars,
              unmountVars, Goto, TakeServeErr
  <2>4. CASE Connect(r)
    <3>1. Mounting'
      BY <2>1, <2>3, <2>4, MountRunnerAssumption DEF Connect, Mounting
    <3>2. Unmounting'
      BY <2>1, <2>4, MountRunnerAssumption DEF Connect, Mounting, Unmounting
    <3> QED
      BY <2>2, <3>1, <3>2
  <2>5. CASE WriteMountRecord(r)
    <3>1. Mounting'
      BY <2>1, <2>3, <2>5, MountRunnerAssumption DEF WriteMountRecord, Mounting
    <3>2. Unmounting'
      BY <2>1, <2>5, MountRunnerAssumption DEF WriteMountRecord, Mounting, Unmounting
    <3> QED
      BY <2>2, <3>1, <3>2
  <2>6. CASE StartServing(r)
    <3>1. Mounting'
      BY <2>1, <2>3, <2>6, MountRunnerAssumption DEF StartServing, Mounting
    <3>2. Unmounting'
      BY <2>1, <2>6, MountRunnerAssumption DEF StartServing, Mounting, Unmounting
    <3> QED
      BY <2>2, <3>1, <3>2
  <2>7. CASE Settle(r)
    <3>1. Mounting'
      BY <2>1, <2>3, <2>7, MountRunnerAssumption DEF Settle, Mounting
    <3>2. Unmounting'
      BY <2>1, <2>7, MountRunnerAssumption DEF Settle, Mounting, Unmounting
    <3> QED
      BY <2>2, <3>1, <3>2
  <2>8. CASE MountCommandFails(r)
    <3>1. Mounting'
      BY <2>1, <2>3, <2>8, MountRunnerAssumption DEF MountCommandFails, Mounting
    <3>2. Unmounting'
      BY <2>1, <2>8, MountRunnerAssumption DEF MountCommandFails, Mounting, Unmounting
    <3> QED
      BY <2>2, <3>1, <3>2
  <2>9. CASE WaitForMountActive(r)
    <3>1. Mounting'
      BY <2>1, <2>3, <2>9, MountRunnerAssumption DEF WaitForMountActive, Mounting
    <3>2. Unmounting'
      BY <2>1, <2>9, MountRunnerAssumption DEF WaitForMountActive, Mounting, Unmounting
    <3> QED
      BY <2>2, <3>1, <3>2
  <2>10. CASE NotifyReady(r)
    <3>1. Mounting'
      BY <2>1, <2>3, <2>10, MountRunnerAssumption DEF NotifyReady, Mounting
    <3>2. Unmounting'
      BY <2>1, <2>10, MountRunnerAssumption DEF NotifyReady, Mounting, Unmounting
    <3> QED
      BY <2>2, <3>1, <3>2
  <2>11. CASE SignalNotify(r)
    <3>1. Mounting'
      BY <2>1, <2>3, <2>11, MountRunnerAssumption DEF SignalNotify, Mounting
    <3>2. Unmounting'
      BY <2>1, <2>11, MountRunnerAssumption DEF SignalNotify, Mounting, Unmounting
    <3> QED
      BY <2>2, <3>1, <3>2
  <2>12. CASE ServeExited(r)
    <3>1. Mounting'
      BY <2>1, <2>3, <2>12, MountRunnerAssumption DEF ServeExited, Mounting
    <3>2. Unmounting'
      BY <2>1, <2>12, MountRunnerAssumption DEF ServeExited, Mounting, Unmounting
    <3> QED
      BY <2>2, <3>1, <3>2
  <2>13. CASE SignalReceived(r)
    <3>1. Mounting'
      BY <2>1, <2>3, <2>13, MountRunnerAssumption DEF SignalReceived, Mounting
    <3>2. Unmounting'
      BY <2>1, <2>13, MountRunnerAssumption DEF SignalReceived, Mounting, Unmounting
    <3> QED
      BY <2>2, <3>1, <3>2
  <2>14. CASE Tick(r)
    <3>1. Mounting'
      BY <2>1, <2>3, <2>14, MountRunnerAssumption DEF Tick, Mounting
    <3>2. Unmounting'
      BY <2>1, <2>14, MountRunnerAssumption DEF Tick, Mounting, Unmounting
    <3> QED
      BY <2>2, <3>1, <3>2
  <2>15. CASE CheckOk(r)
    <3>1. Mounting'
      BY <2>1, <2>3, <2>15, MountRunnerAssumption DEF CheckOk, Mounting
    <3>2. Unmounting'
      BY <2>1, <2>15, MountRunnerAssumption DEF CheckOk, Mounting, Unmounting
    <3> QED
      BY <2>2, <3>1, <3>2
  <2>16. CASE CheckFails(r)
    <3>1. Mounting'
      BY <2>1, <2>3, <2>16, MountRunnerAssumption DEF CheckFails, Mounting
    <3>2. Unmounting'
      BY <2>1, <2>16, MountRunnerAssumption DEF CheckFails, Mounting, Unmounting
    <3> QED
      BY <2>2, <3>1, <3>2
  <2> QED
    BY <1>3, <2>4, <2>5, <2>6, <2>7, <2>8, <2>9, <2>10, <2>11, <2>12, <2>13, <2>14, <2>15, <2>16
<1>4. ASSUME NEW r \in Runners, MountCommand(r)
      PROVE  (OneMount /\ Mounting /\ Unmounting)'
  <2>1. /\ Alive(r) /\ ~NotYet(r) /\ ~MountedOnce(r) /\ ~Mounted(r) /\ kind[r] = "nfs"
    BY <1>4 DEF MountCommand, Alive, NotYet, Unrecorded, MountedOnce, MountInv, Mounting
  <2> QED
    BY <1>4, <2>1, InvMounts DEF MountCommand, Goto, serveVars
<1>5. ASSUME NEW r \in Runners, CleanupUnmounts(r) \/ CleanupCloses(r)
      PROVE  (OneMount /\ Mounting /\ Unmounting)'
  <2>1. CASE UnmountTop
    BY <1>5, <2>1, InvUnmounts DEF CleanupUnmounts, CleanupCloses, Goto, serveVars, unmountVars
  <2>2. CASE ~UnmountTop
    <3>1. CleanupCloses(r) /\ \A q \in Runners : Mounted(q)' <=> Mounted(q)
      BY <1>5, <2>2 DEF CleanupUnmounts, CleanupCloses, Mounted
    <3> QED
      BY <2>2, <3>1 DEF CleanupCloses, Goto, MountInv, Types, OneMount, Mounting, Unmounting, Alive,
                 NotYet, Unrecorded, MountedOnce, serveVars, unmountVars
  <2> QED
    BY <2>1, <2>2
<1>6. ASSUME NEW r \in Runners, Return(r)
      PROVE  (OneMount /\ Mounting /\ Unmounting)'
  BY <1>6, InvEnds DEF Return, RemoveMountRecord
<1>7. ASSUME NEW r \in Runners, Serve(r)
      PROVE  (OneMount /\ Mounting /\ Unmounting)'
  <2>1. Alive(r) /\ ~NotYet(r)
    BY <1>7 DEF Serve, MountInv, Mounting
  <2>2. CASE kind[r] = "nfs"
    <3>1. \A q \in Runners : Mounted(q)' <=> Mounted(q)
      BY <1>7, <2>2 DEF Serve, Mounted
    <3> QED
      BY <1>7, <2>1, <2>2, <3>1 DEF Serve, MountInv, Types, OneMount, Mounting, Unmounting, Alive,
                 NotYet, Unrecorded, MountedOnce, runVars, unmountVars
  <2>3. CASE kind[r] # "nfs"
    <3>1. ~MountedOnce(r) /\ ~Mounted(r)
      BY <1>7, <2>1, <2>3 DEF Serve, MountedOnce, MountInv, Mounting
    <3> QED
      BY <1>7, <2>1, <2>3, <3>1, InvMounts DEF Serve, runVars
  <2> QED
    BY <2>2, <2>3
<1>8. ASSUME NEW r \in Runners,
             ServeFails(r) \/ ServeEnds(r) \/ ConnectionBreaks(r) \/ TransportGivesUp(r)
      PROVE  (OneMount /\ Mounting /\ Unmounting)'
  BY <1>8, InvFrame DEF ServeFails, ServeEnds, ConnectionBreaks, TransportGivesUp, runVars,
                        serveVars, unmountVars, MountInv, Types
<1>9. ASSUME NEW r \in Runners, ServerUnmounts(r)
      PROVE  (OneMount /\ Mounting /\ Unmounting)'
  <2>1. CASE UnmountTop
    BY <1>9, <2>1, InvUnmounts DEF ServerUnmounts, runVars, serveVars, unmountVars
  <2>2. CASE ~UnmountTop
    BY <1>9, <2>2, InvFrame DEF ServerUnmounts, runVars, serveVars, unmountVars
  <2> QED
    BY <2>1, <2>2
<1>10. ASSUME NEW r \in Runners, UserSignals(r) \/ Kill9(r)
       PROVE  (OneMount /\ Mounting /\ Unmounting)'
  BY <1>10, InvSignal, InvEnds DEF UserSignals, Kill9
<1>11. CASE UnmountBegins
  <2>1. CASE record # None /\ Alive(record)
    <3>1. record \in Runners
      BY <2>1 DEF MountInv, Types
    <3> QED
      BY <1>11, <2>1, <3>1, InvSignal DEF UnmountBegins
  <2>2. CASE ~(record # None /\ Alive(record))
    <3>1. UNCHANGED <<kind, record, mounts, runVars, serveVars>> /\ target' = record
          /\ upc' \in {"waiting", "commands"}
      BY <1>11, <2>2 DEF UnmountBegins
    <3>2. \A q \in Runners : Mounted(q)' <=> Mounted(q)
      BY <3>1 DEF Mounted
    <3> QED
      BY <2>2, <3>1, <3>2 DEF MountInv, Types, OneMount, Mounting, Unmounting, Alive, NotYet, Unrecorded,
                        MountedOnce, runVars, serveVars
  <2> QED
    BY <2>1, <2>2
<1>12. CASE UnmountRuns
  BY <1>12, InvUnmounts DEF UnmountRuns, runVars, serveVars
<1>13. CASE UnmountWaited \/ UnmountRemoves \/ UnmountReturns
  <2>1. \A q \in Runners : Mounted(q)' <=> Mounted(q)
    BY <1>13 DEF UnmountWaited, UnmountRemoves, UnmountReturns, Mounted
  <2> QED
    BY <1>13, <2>1, MountRunnerAssumption
       DEF UnmountWaited, UnmountRemoves, UnmountReturns, MountInv, Types, OneMount, Mounting,
           Unmounting, Alive, NotYet, Unrecorded, MountedOnce, runVars, serveVars
<1> QED
  BY <1>1, <1>2, <1>3, <1>4, <1>5, <1>6, <1>7, <1>8, <1>9, <1>10, <1>11, <1>12, <1>13
     DEF Next, RunnersNext, RunStep, UnmountStep

LEMMA InvCleans == MountInv => UnmountCleans
  BY DEF MountInv, Unmounting, UnmountCleans

\* When lsshfs --unmount returns, the mount it found recorded is gone with its
\* record: for any number of processes, one after the other, also when the
\* process has died, dies of the signal, hangs, or mounts late.
THEOREM UnmountsWhatItFound == ~Overlap => (Spec => []UnmountCleans)
<1> SUFFICES ASSUME ~Overlap
             PROVE  Spec => []UnmountCleans
  OBVIOUS
<1>1. Init => MountInv
  BY TypesInit, InvInit DEF MountInv
<1>2. MountInv /\ [Next]_vars => MountInv'
  BY TypesNext, InvNext DEF MountInv
<1> QED
  BY <1>1, <1>2, InvCleans, PTL DEF Spec

(***************************************************************************)
(* What a process leaves behind.                                           *)
(***************************************************************************)
\* Steps that mount nothing, of a process or of lsshfs --unmount, and after
\* which process r is where the step put it.
LEMMA InvKeepsClean ==
  ASSUME Cleaned, kind' = kind,
         \A q \in Runners : Mounted(q)' => Mounted(q),
         record' \in {record, None},
         killed \subseteq killed',
         NEW r \in Runners,
         \A q \in Runners \ {r} : /\ pc'[q] = pc[q] /\ serve'[q] = serve[q]
                                 /\ serveErrCh'[q] = serveErrCh[q],
         pc'[r] \in {"closing", "returning"} => ~Mounted(r)',
         serveErrCh'[r] = "nil" => kind[r] # "nfs" /\ serve'[r] = "ended" /\ ~Mounted(r)',
         pc'[r] = "gone" => r \in killed' \/ (~Mounted(r)' /\ record' # r)
  PROVE  (Unmounted /\ LeavesNothing)'
<1>1. Unmounted'
  BY DEF Cleaned, Unmounted
<1>2. LeavesNothing'
  BY MountRunnerAssumption DEF Cleaned, LeavesNothing
<1> QED
  BY <1>1, <1>2

\* A signal that kills leaves the mount and the record: it is excused.
LEMMA SignalKeepsClean ==
  ASSUME Cleaned, NEW r \in Runners, Signal(r) \/ (Ends(r) /\ killed' = killed \cup {r}),
         UNCHANGED <<kind, record, mounts>>
  PROVE  (Unmounted /\ LeavesNothing)'
<1>1. \A q \in Runners : Mounted(q)' <=> Mounted(q)
  BY DEF Mounted
<1>2. CASE Ends(r) /\ killed' = killed \cup {r}
  BY <1>1, <1>2, InvKeepsClean DEF Ends, Goto, Cleaned, MountInv, Types
<1>3. CASE Signal(r) /\ (InServer(r) \/ InRun(r))
  BY <1>1, <1>3 DEF Signal, runVars, serveVars, Cleaned, Unmounted, LeavesNothing
<1> QED
  BY <1>2, <1>3 DEF Signal

LEMMA CleanNext ==
  ASSUME ~Overlap, ~SlowMounts, Cleaned, [Next]_vars
  PROVE  (Unmounted /\ LeavesNothing)'
<1>1. MountInv /\ Unmounted /\ LeavesNothing
  BY DEF Cleaned
<1>2. UnmountTop => mounts' = <<>> /\ \A q \in Runners : ~Mounted(q)'
  BY <1>1, UnmountTopLeavesNone, NoMounts DEF MountInv, Mounted
<1> USE DEF runVars, serveVars, signalVars, unmountVars
\* Steps that change no mount.
<1>3. ASSUME NEW r \in Runners,
             \/ Launch(r) \/ Connect(r) \/ StartServing(r) \/ Settle(r)
             \/ MountCommandFails(r) \/ WaitForMountActive(r) \/ NotifyReady(r)
             \/ SignalNotify(r) \/ ServeExited(r) \/ SignalReceived(r)
             \/ Tick(r) \/ CheckOk(r) \/ CheckFails(r)
      PROVE  (Unmounted /\ LeavesNothing)'
  <2>1. UNCHANGED <<kind, record, mounts, killed>>
    BY <1>3 DEF Launch, Connect, StartServing, Settle, MountCommandFails, WaitForMountActive,
                NotifyReady, SignalNotify, ServeExited, SignalReceived, Tick, CheckOk, CheckFails
  <2>2. \A q \in Runners : Mounted(q)' <=> Mounted(q)
    BY <2>1 DEF Mounted
  <2>3. /\ pc'[r] \in {"closing", "returning"} => ~Mounted(r)
        /\ pc'[r] = "gone" => ~Mounted(r) /\ record # r
    BY <1>1, <1>3 DEF MountInv, Types, Mounting, NotYet, Unrecorded, Unmounted, Goto, TakeServeErr,
                      Launch, Connect, StartServing, Settle, MountCommandFails, WaitForMountActive,
                      NotifyReady, SignalNotify, ServeExited, SignalReceived, Tick, CheckOk, CheckFails
  <2>4. /\ \A q \in Runners \ {r} : pc'[q] = pc[q] /\ serve'[q] = serve[q] /\ serveErrCh'[q] = serveErrCh[q]
        /\ serveErrCh'[r] = "nil" => serveErrCh[r] = "nil" /\ (serve[r] = "ended" => serve'[r] = "ended")
    BY <1>1, <1>3 DEF MountInv, Types, Mounting, NotYet, Unrecorded, Unmounted, Goto, TakeServeErr,
                      Launch, Connect, StartServing, Settle, MountCommandFails, WaitForMountActive,
                      NotifyReady, SignalNotify, ServeExited, SignalReceived, Tick, CheckOk, CheckFails
  <2> QED
    BY <1>1, <2>1, <2>2, <2>3, <2>4, InvKeepsClean DEF Unmounted
<1>4. ASSUME NEW r \in Runners, WriteMountRecord(r)
      PROVE  (Unmounted /\ LeavesNothing)'
  <2>1. \A q \in Runners : Mounted(q)' <=> Mounted(q)
    BY <1>4 DEF WriteMountRecord, Mounted
  <2> QED
    BY <1>1, <1>4, <2>1 DEF WriteMountRecord, MountInv, Types, Goto, Unmounted, LeavesNothing
\* Steps that mount: the process is not about to return.
<1>5. ASSUME NEW r \in Runners, MountCommand(r) \/ Serve(r)
      PROVE  (Unmounted /\ LeavesNothing)'
  <2>1. \A q \in Runners \ {r} : Mounted(q)' => Mounted(q)
    <3>1. CASE mounts' = mounts
      BY <3>1 DEF Mounted
    <3>2. CASE mounts' = Append(mounts, r)
      <4>1. Alive(r) /\ ~Mounted(r)
        BY <1>1, <1>5, <3>2, OneMounted, NoMounts DEF MountCommand, Serve, Alive, MountInv, Types,
           Mounting, MountedOnce
      <4>2. mounts' = <<r>>
        BY <1>1, <3>2, <4>1, WhoMounts, OneMounted DEF MountInv
      <4> QED
        BY <4>2, OneMounted DEF Mounted
    <3> QED
      BY <1>5, <3>1, <3>2 DEF MountCommand, Serve
  <2>2. pc'[r] \notin {"closing", "returning", "gone"} \/ (kind[r] = "nfs" /\ mounts' = mounts)
    BY <1>1, <1>5 DEF MountCommand, Serve, MountInv, Types, Goto
  <2>3. /\ \A q \in Runners \ {r} : pc'[q] = pc[q] /\ serve'[q] = serve[q]
        /\ UNCHANGED <<kind, record, killed, serveErrCh>>
        /\ serveErrCh[r] # "nil"
    BY <1>1, <1>5 DEF MountCommand, Serve, MountInv, Types, Unmounted, Goto
  <2> QED
    <3>1. CASE MountCommand(r)
      BY <1>1, <2>1, <2>3, <3>1 DEF Unmounted, LeavesNothing, MountCommand, Goto, MountInv, Types
    <3>2. CASE Serve(r) /\ kind[r] = "nfs"
      <4>1. UNCHANGED <<mounts, pc>>
        BY <3>2 DEF Serve
      <4>2. \A q \in Runners : Mounted(q)' <=> Mounted(q)
        BY <4>1 DEF Mounted
      <4> QED
        BY <1>1, <2>3, <4>1, <4>2 DEF Unmounted, LeavesNothing
    <3>3. CASE Serve(r) /\ kind[r] # "nfs"
      <4>1. pc' = pc /\ pc[r] \in {"settling", "waiting"}
        BY <3>3 DEF Serve
      <4> QED
        BY <1>1, <2>1, <2>3, <4>1 DEF Unmounted, LeavesNothing
    <3> QED
      BY <1>5, <3>1, <3>2, <3>3
\* Steps that unmount.
<1>6. ASSUME NEW r \in Runners, CleanupUnmounts(r) \/ CleanupCloses(r) \/ ServerUnmounts(r)
      PROVE  (Unmounted /\ LeavesNothing)'
  <2>1. \A q \in Runners : Mounted(q)' => Mounted(q)
    BY <1>2, <1>6 DEF CleanupUnmounts, CleanupCloses, ServerUnmounts, Mounted
  <2>2. pc'[r] # pc[r] => ~Mounted(r)' /\ pc'[r] # "gone"
    BY <1>1, <1>2, <1>6, <2>1 DEF CleanupUnmounts, CleanupCloses, ServerUnmounts, Unmounted, Goto,
       MountInv, Types
  <2>3. /\ \A q \in Runners \ {r} : pc'[q] = pc[q]
        /\ UNCHANGED <<kind, record, killed, serve, serveErrCh>>
    BY <1>1, <1>6 DEF CleanupUnmounts, CleanupCloses, ServerUnmounts, Goto, MountInv, Types
  <2> QED
    BY <1>1, <2>1, <2>2, <2>3 DEF Unmounted, LeavesNothing
<1>7. ASSUME NEW r \in Runners, Return(r)
      PROVE  (Unmounted /\ LeavesNothing)'
  <2>1. \A q \in Runners : Mounted(q)' <=> Mounted(q)
    BY <1>7 DEF Return, Mounted
  <2> QED
    BY <1>1, <1>7, <2>1, InvKeepsClean, MountRunnerAssumption
       DEF Return, Ends, Goto, RemoveMountRecord, Unmounted, MountInv, Types
<1>8. ASSUME NEW r \in Runners,
             ServeFails(r) \/ ServeEnds(r) \/ ConnectionBreaks(r) \/ TransportGivesUp(r)
      PROVE  (Unmounted /\ LeavesNothing)'
  <2>1. \A q \in Runners : Mounted(q)' <=> Mounted(q)
    BY <1>8 DEF ServeFails, ServeEnds, ConnectionBreaks, TransportGivesUp, Mounted
  <2> QED
    BY <1>1, <1>8, <2>1 DEF ServeFails, ServeEnds, ConnectionBreaks, TransportGivesUp, Unmounted,
       LeavesNothing, MountInv, Types
<1>9. ASSUME NEW r \in Runners, UserSignals(r) \/ Kill9(r)
      PROVE  (Unmounted /\ LeavesNothing)'
  BY <1>9, SignalKeepsClean DEF UserSignals, Kill9
<1>10. CASE UnmountBegins
  <2>1. CASE record # None /\ Alive(record)
    <3>1. record \in Runners
      BY <1>1, <2>1 DEF MountInv, Types
    <3> QED
      BY <1>10, <2>1, <3>1, SignalKeepsClean DEF UnmountBegins
  <2>2. CASE ~(record # None /\ Alive(record))
    BY <1>1, <1>10, <2>2 DEF UnmountBegins, Unmounted, LeavesNothing, Mounted
  <2> QED
    BY <2>1, <2>2
<1>11. CASE UnmountWaited \/ UnmountRuns \/ UnmountRemoves \/ UnmountReturns \/ UNCHANGED vars
  <2>1. \A q \in Runners : Mounted(q)' => Mounted(q)
    BY <1>2, <1>11 DEF UnmountWaited, UnmountRuns, UnmountRemoves, UnmountReturns, vars, Mounted
  <2> QED
    BY <1>1, <1>11, <2>1, MountRunnerAssumption DEF UnmountWaited, UnmountRuns, UnmountRemoves,
       UnmountReturns, vars, Unmounted, LeavesNothing
<1> QED
  BY <1>3, <1>4, <1>5, <1>6, <1>7, <1>8, <1>9, <1>10, <1>11
     DEF Next, RunnersNext, RunStep, UnmountStep

\* A process that returns leaves neither its mount nor its record: for any
\* number of processes and any limits, however it comes to its end, if FUSE
\* mounts while Run waits for it.
THEOREM ReturnsClean == ~Overlap /\ ~SlowMounts => (Spec => []LeavesNothing)
<1> SUFFICES ASSUME ~Overlap, ~SlowMounts
             PROVE  Spec => []LeavesNothing
  OBVIOUS
<1>1. Init => Cleaned
  <2>1. Init => Unmounted /\ LeavesNothing
    BY DEF Init, Unmounted, LeavesNothing
  <2> QED
    BY <2>1, TypesInit, InvInit DEF MountInv, Cleaned
<1>2. Cleaned /\ [Next]_vars => Cleaned'
  BY TypesNext, InvNext, CleanNext DEF MountInv, Cleaned
<1>3. Cleaned => LeavesNothing
  BY DEF Cleaned
<1> QED
  BY <1>1, <1>2, <1>3, PTL DEF Spec
=============================================================================
