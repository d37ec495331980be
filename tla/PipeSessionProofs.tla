------------------------- MODULE PipeSessionProofs -------------------------
(***************************************************************************)
(* Proofs about the life cycle of an lspipe session, for any number of     *)
(* command lines and daemons, with any of them interleaved or crashing.    *)
(***************************************************************************)
EXTENDS PipeSession, TLAPS

\* A request is being worked on only while its client waits for the answer.
JobWaits ==
  \A c \in Clis : job[c] \in {"accepted", "load", "truncate", "write", "answer"} =>
    pc[c] = "waiting"

SessionInv == TypeOK /\ JobWaits /\ RecordNamesConnected

LEMMA InitEstablishes == Init => SessionInv
BY PipeSessionAssumption
   DEF Init, SessionInv, TypeOK, JobWaits, RecordNamesConnected, Stages, Running, Booting,
       Stopping, Places, HasTarget, Unsaved

LEMMA NextPreserves == SessionInv /\ [Next]_vars => SessionInv'
<1> SUFFICES ASSUME SessionInv, [Next]_vars
             PROVE  SessionInv'
  OBVIOUS
<1> USE PipeSessionAssumption
    DEF SessionInv, TypeOK, JobWaits, RecordNamesConnected, Stages, Running, Booting,
        Stopping, Places, HasTarget, Unsaved, fileVars, procVars, cliVars, jobVars
<1>1. ASSUME NEW d \in Daemons, DaemonStep(d)
      PROVE  SessionInv'
  <2>1. CASE UnlinkOld(d)
    BY <2>1 DEF UnlinkOld, Boots, Becomes
  <2>2. CASE Listen(d)
    BY <2>2 DEF Listen, Boots, Becomes
  <2>3. CASE Connect(d)
    BY <2>3 DEF Connect, Boots, Becomes
  <2>4. CASE Truncate(d)
    BY <2>4 DEF Truncate, Boots, Becomes
  <2>5. CASE Save(d)
    BY <2>5 DEF Save, Boots, Becomes
  <2>6. CASE Ready(d)
    BY <2>6 DEF Ready, Boots, Becomes
  <2>7. CASE Serve(d)
    BY <2>7 DEF Serve, Boots, Becomes
  <2>8. CASE CloseListener(d)
    BY <2>8 DEF CloseListener, Stops, Becomes
  <2>9. CASE Exit(d)
    BY <2>9 DEF Exit, Stops, Becomes
  <2> QED
    BY <1>1, <2>1, <2>2, <2>3, <2>4, <2>5, <2>6, <2>7, <2>8, <2>9 DEF DaemonStep
<1>2. ASSUME NEW d \in Daemons, CloseGoesOn(d)
      PROVE  SessionInv'
  BY <1>2 DEF CloseGoesOn, RemoveRecord, RemoveSock, Stops, Becomes
<1>3. ASSUME NEW d \in Daemons, Crash(d)
      PROVE  SessionInv'
  BY <1>3 DEF Crash, Stops, Becomes
<1>4. ASSUME NEW d \in Daemons, Reap(d)
      PROVE  SessionInv'
  BY <1>4 DEF Reap, Becomes
<1>5. ASSUME NEW c \in Clis, CliStep(c)
      PROVE  SessionInv'
  <2> USE DEF At, Goto, Ends
  <2>1. CASE Load(c)
    BY <2>1 DEF Load, Loads, Loaded
  <2>2. CASE Ping(c)
    BY <2>2 DEF Ping
  <2>3. CASE CloseLoad(c)
    BY <2>3 DEF CloseLoad, Loads, Loaded
  <2>4. CASE Signal(c)
    BY <2>4 DEF Signal, Terminates, Becomes
  <2>5. CASE Wait(c)
    BY <2>5 DEF Wait
  <2>6. CASE CliRemoveRecord(c)
    BY <2>6 DEF CliRemoveRecord
  <2>7. CASE CliRemoveSock(c)
    BY <2>7 DEF CliRemoveSock
  <2>8. CASE Spawn(c)
    BY <2>8 DEF Spawn, Unborn, Becomes
  <2>9. CASE Await(c)
    BY <2>9 DEF Await
  <2>10. CASE ExecLoad(c)
    BY <2>10 DEF ExecLoad, Loads, Loaded
  <2>11. CASE ExecPing(c)
    BY <2>11 DEF ExecPing
  <2>12. CASE Dial(c)
    BY <2>12 DEF Dial
  <2>13. CASE EndOfFile(c)
    BY <2>13 DEF EndOfFile, JobGoto
  <2> QED
    BY <1>5, <2>1, <2>2, <2>3, <2>4, <2>5, <2>6, <2>7, <2>8, <2>9, <2>10, <2>11, <2>12, <2>13
       DEF CliStep
<1>6. ASSUME NEW c \in Clis, JobStep(c)
      PROVE  SessionInv'
  <2> USE DEF JobAt, JobGoto, Next2
  <2>1. CASE JobRan(c)
    BY <2>1 DEF JobRan
  <2>2. CASE JobLoad(c)
    BY <2>2 DEF JobLoad, Loaded
  <2>3. CASE JobTruncate(c)
    BY <2>3 DEF JobTruncate
  <2>4. CASE JobWrite(c)
    BY <2>4 DEF JobWrite
  <2>5. CASE JobAnswer(c)
    BY <2>5 DEF JobAnswer, At, Ends, Goto
  <2> QED
    BY <1>6, <2>1, <2>2, <2>3, <2>4, <2>5 DEF JobStep
<1>7. ASSUME NEW c \in Clis, NEW m \in Modes, Start(c, m)
      PROVE  SessionInv'
  BY <1>7 DEF Start, At, Goto
<1>8. CASE UNCHANGED vars
  BY <1>8 DEF vars
<1> QED
  BY <1>1, <1>2, <1>3, <1>4, <1>5, <1>6, <1>7, <1>8 DEF Next

LEMMA Invariance == Spec => []SessionInv
BY InitEstablishes, NextPreserves, PTL DEF Spec

\* Every variable keeps its type, and a command line that works on a session
\* knows a daemon.
THEOREM TypeCorrect == Spec => []TypeOK
BY Invariance, PTL DEF SessionInv

\* Through torn writes, lost updates and records written back after the
\* session was closed, no record names a daemon that was still connecting.
THEOREM RecordIsOfConnected == Spec => []RecordNamesConnected
BY Invariance, PTL DEF SessionInv

(***************************************************************************)
(* One command line after the other, and a daemon that ends with its       *)
(* shutdown: then there is one daemon, and it can be found.                *)
(***************************************************************************)
OneCli == \E c : Clis = {c}
Alive(d) == proc[d] \notin {"unborn", "gone"}

\* Where a command line neither stops nor starts a daemon.
AtRest == {"idle", "load", "ping", "closeLoad", "signal", "execLoad", "execPing", "dial", "waiting"}

OneDaemon == \A d, e \in Daemons : Alive(d) /\ Alive(e) => d = e

\* A new process has no marks of an old one; only a saved daemon writes "OK".
Marks ==
  \A d \in Daemons :
    /\ proc[d] = "unborn" => d \notin signalled /\ d \notin told
    /\ d \in told => proc[d] \notin Booting \ {"ready"}

\* What the command line may assume of a daemon that is alive: at rest it can
\* be found; it stops the one it has found, waits for its end and removes its
\* files before it starts another; and it waits for that one.
Found(c, d) ==
  /\ pc[c] \in AtRest =>
       /\ proc[d] \in {"ready", "serving"} /\ d \notin signalled /\ sock = d
       /\ record = d \/ (pc[c] = "waiting" /\ job[c] = "write")
  /\ pc[c] \in {"signal", "waiting", "wait", "await"} => target[c] = d
  /\ pc[c] = "waiting" /\ job[c] \in {"truncate", "write"} => copy[c] = d
  /\ pc[c] = "wait" => proc[d] \in Stopping \/ (proc[d] = "serving" /\ d \in signalled)
  /\ pc[c] \notin {"rmRecord", "rmSock", "spawn"}
  /\ pc[c] = "await" =>
       /\ d \notin signalled /\ proc[d] \in Booting \cup {"serving"}
       /\ proc[d] = "unlinked" => sock = None
       /\ proc[d] \in Listening => sock = d
       /\ proc[d] \in {"saved", "ready", "serving"} => record = d

AloneInv == OneDaemon /\ Marks /\ \A c \in Clis, d \in Daemons : Alive(d) => Found(c, d)

LEMMA AloneNext ==
  ASSUME OneCli, ~LateClose, SessionInv, AloneInv, [Next]_vars
  PROVE  AloneInv'
<1>1. PICK c : Clis = {c}
  BY DEF OneCli
<1> USE PipeSessionAssumption, <1>1
    DEF SessionInv, TypeOK, JobWaits, AloneInv, OneDaemon, Marks, Found, Alive, AtRest, Stages,
        Running, Booting, Listening, Stopping, Places, HasTarget, fileVars, procVars, cliVars, jobVars
<1>2. ASSUME NEW d \in Daemons, DaemonStep(d)
      PROVE  AloneInv'
  <2>1. CASE UnlinkOld(d)
    BY <2>1 DEF UnlinkOld, Boots, Becomes
  <2>2. CASE Listen(d)
    BY <2>2 DEF Listen, Boots, Becomes
  <2>3. CASE Connect(d)
    BY <2>3 DEF Connect, Boots, Becomes
  <2>4. CASE Truncate(d)
    BY <2>4 DEF Truncate, Boots, Becomes
  <2>5. CASE Save(d)
    BY <2>5 DEF Save, Boots, Becomes
  <2>6. CASE Ready(d)
    BY <2>6 DEF Ready, Boots, Becomes
  <2>7. CASE Serve(d)
    BY <2>7 DEF Serve, Boots, Becomes
  <2>8. CASE CloseListener(d)
    BY <2>8 DEF CloseListener, Stops, Becomes
  <2>9. CASE Exit(d)
    BY <2>9 DEF Exit, Stops, Becomes
  <2> QED
    BY <1>2, <2>1, <2>2, <2>3, <2>4, <2>5, <2>6, <2>7, <2>8, <2>9 DEF DaemonStep
<1>3. ASSUME NEW d \in Daemons, CloseGoesOn(d)
      PROVE  AloneInv'
  BY <1>3 DEF CloseGoesOn, RemoveRecord, RemoveSock, Stops, Becomes
<1>4. ASSUME NEW d \in Daemons, Crash(d)
      PROVE  AloneInv'
  BY <1>4 DEF Crash, Stops, Becomes
<1>5. ASSUME NEW d \in Daemons, Reap(d)
      PROVE  AloneInv'
  BY <1>5 DEF Reap, Becomes
<1>6. ASSUME CliStep(c)
      PROVE  AloneInv'
  <2> USE DEF At, Goto, Ends
  <2>1. CASE Load(c)
    BY <2>1 DEF Load, Loads, Loaded
  <2>2. CASE Ping(c)
    BY <2>2 DEF Ping
  <2>3. CASE CloseLoad(c)
    BY <2>3 DEF CloseLoad, Loads, Loaded
  <2>4. CASE Signal(c)
    BY <2>4 DEF Signal, Terminates, Becomes
  <2>5. CASE Wait(c)
    BY <2>5 DEF Wait
  <2>6. CASE CliRemoveRecord(c)
    BY <2>6 DEF CliRemoveRecord
  <2>7. CASE CliRemoveSock(c)
    BY <2>7 DEF CliRemoveSock
  <2>8. CASE Spawn(c)
    BY <2>8 DEF Spawn, Unborn, Becomes
  <2>9. CASE Await(c)
    BY <2>9 DEF Await
  <2>10. CASE ExecLoad(c)
    BY <2>10 DEF ExecLoad, Loads, Loaded
  <2>11. CASE ExecPing(c)
    BY <2>11 DEF ExecPing
  <2>12. CASE Dial(c)
    BY <2>12 DEF Dial
  <2>13. CASE EndOfFile(c)
    BY <2>13 DEF EndOfFile, JobGoto
  <2> QED
    BY <1>6, <2>1, <2>2, <2>3, <2>4, <2>5, <2>6, <2>7, <2>8, <2>9, <2>10, <2>11, <2>12, <2>13
       DEF CliStep
<1>7. ASSUME JobStep(c)
      PROVE  AloneInv'
  <2> USE DEF JobAt, JobGoto, Next2
  <2>1. CASE JobRan(c)
    BY <2>1 DEF JobRan
  <2>2. CASE JobLoad(c)
    BY <2>2 DEF JobLoad, Loaded
  <2>3. CASE JobTruncate(c)
    BY <2>3 DEF JobTruncate
  <2>4. CASE JobWrite(c)
    BY <2>4 DEF JobWrite
  <2>5. CASE JobAnswer(c)
    BY <2>5 DEF JobAnswer, At, Ends, Goto
  <2> QED
    BY <1>7, <2>1, <2>2, <2>3, <2>4, <2>5 DEF JobStep
<1>8. ASSUME NEW m \in Modes, Start(c, m)
      PROVE  AloneInv'
  BY <1>8 DEF Start, At, Goto
<1>9. CASE UNCHANGED vars
  BY <1>9 DEF vars
<1> QED
  BY <1>2, <1>3, <1>4, <1>5, <1>6, <1>7, <1>8, <1>9 DEF Next

LEMMA AloneInvariance == OneCli /\ ~LateClose => (Spec => []AloneInv)
<1> SUFFICES ASSUME OneCli, ~LateClose
             PROVE  Spec => []AloneInv
  OBVIOUS
<1>1. Init => AloneInv
  BY DEF Init, AloneInv, OneDaemon, Marks, Alive, Booting
<1>2. SessionInv /\ AloneInv /\ [Next]_vars => AloneInv'
  BY AloneNext
<1> QED
  BY <1>1, <1>2, Invariance, PTL DEF Spec

\* One lspipe after the other, whatever each does and wherever daemons crash,
\* leaves at most one daemon that serves.
THEOREM OneHandle == OneCli /\ ~LateClose => (Spec => []SingleHandle)
<1> SUFFICES ASSUME OneCli, ~LateClose
             PROVE  Spec => []SingleHandle
  OBVIOUS
<1>1. AloneInv => SingleHandle
  BY DEF AloneInv, OneDaemon, Alive, SingleHandle
<1> QED
  BY <1>1, AloneInvariance, PTL

\* Between two command lines the daemon that serves is the one the record names
\* and the socket reaches.
THEOREM FoundAgain == OneCli /\ ~LateClose => (Spec => []Reachable)
<1> SUFFICES ASSUME OneCli, ~LateClose
             PROVE  Spec => []Reachable
  OBVIOUS
<1>1. SessionInv /\ AloneInv => Reachable
  BY DEF OneCli, SessionInv, TypeOK, AloneInv, Found, Alive, AtRest, Reachable, Busy
<1> QED
  BY <1>1, AloneInvariance, Invariance, PTL
=============================================================================
