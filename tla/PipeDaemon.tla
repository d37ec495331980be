----------------------------- MODULE PipeDaemon -----------------------------
(***************************************************************************)
(* The lspipe daemon (internal/lspipe/daemon.go): one process that keeps a *)
(* table of SSH connections, one per host of the session, and runs every   *)
(* command of every client over them.                                      *)
(*                                                                         *)
(* A client request starts one goroutine per target host.  The goroutines  *)
(* of different requests share conns and health, which d.mu guards for the *)
(* length of one access only: a connection read under the lock is probed,  *)
(* used and closed after the lock is released.  Each action below is one   *)
(* such access, or one call on a connection.                               *)
(***************************************************************************)
EXTENDS Naturals, FiniteSets

CONSTANTS
  HostList,        \* d.Hosts, a sequence: nothing removes what is listed twice
  ConnectorHosts,  \* those for which Config.ServerUsesConnector is true
  Strangers,       \* host names a request may carry that are not in d.Hosts
  Clients,         \* client connections (one request each at a time)
  Conns,           \* identities of *sshlib.Connect values
  NoConn,          \* the nil connection
  NoHost           \* the host of a connection that was never dialled

Entries == DOMAIN HostList
Hosts == {HostList[e] : e \in Entries}

ASSUME PipeDaemonAssumption ==
  /\ Entries # {}
  /\ ConnectorHosts \subseteq Hosts
  /\ Strangers \cap Hosts = {}
  /\ NoConn \notin Conns
  /\ NoHost \notin Hosts

VARIABLES
  daemon,     \* "starting", "serving", "closing", "exited" or "crashed"
  toConnect,  \* entries of d.Hosts connectAll has not visited yet
  pool,       \* d.conns
  health,     \* d.health ("unknown" where the map has no entry)
  connState,  \* "unused", "open", "lost" (transport dead) or "closed"
  connHost,   \* the host a connection was dialled to
  crossed,    \* history: hosts a connection was dialled to while another
              \* dial to them was under way, or that connectAll dialled twice
  request,    \* "idle", "running", "rejected" or "done", per client
  targets,    \* the entries of d.Hosts a running request is executed on
  exitCode,   \* the exit code of the client's last "done" event (0 or not)
  pc,         \* control state of the goroutine of each <<client, entry>>
  held,       \* its local variable conn
  outcome     \* what its command came to

poolVars == <<pool, health, connState, connHost, crossed>>
requestVars == <<request, targets, exitCode>>
workerVars == <<pc, held, outcome>>
vars == <<daemon, toConnect, poolVars, requestVars, workerVars>>

Workers == Clients \X Entries
HostOf(w) == HostList[w[2]]

\* "ok": exit status 0; "exit": non-zero exit status; "error": the command
\* could not be run or lost its connection; "error0": the (0, err) result of
\* the connector path.
Outcomes == {"none", "ok", "exit", "error", "error0"}

\* Deviation: a host that could not be reached reports 0.
CodeOfErrorLost(o) == IF o = "exit" THEN 1 ELSE 0

\* The code sent on the results channel.
Code(o) == IF o \in {"exit", "error"} THEN 1 ELSE 0

Answered(c) == request[c] # "running"
Alive == daemon \in {"serving", "closing"}

Init ==
  /\ daemon = "starting"
  /\ toConnect = Entries
  /\ pool = [h \in Hosts |-> NoConn]
  /\ health = [h \in Hosts |-> "unknown"]
  /\ connState = [n \in Conns |-> "unused"]
  /\ connHost = [n \in Conns |-> NoHost]
  /\ crossed = {}
  /\ request = [c \in Clients |-> "idle"]
  /\ targets = [c \in Clients |-> {}]
  /\ exitCode = [c \in Clients |-> 0]
  /\ pc = [w \in Workers |-> "idle"]
  /\ held = [w \in Workers |-> NoConn]
  /\ outcome = [w \in Workers |-> "none"]

(***************************************************************************)
(* The table of connections.                                               *)
(***************************************************************************)

\* A connection value no goroutine and no table entry refers to.
Fresh(n) ==
  /\ connState[n] \in {"unused", "closed"}
  /\ \A h \in Hosts : pool[h] # n
  /\ \A w \in Workers : held[w] # n

Dialled(n, h) ==
  /\ connState' = [connState EXCEPT ![n] = "open"]
  /\ connHost' = [connHost EXCEPT ![n] = h]

SetPool(h, n) ==
  /\ pool' = [pool EXCEPT ![h] = n]
  /\ health' = [health EXCEPT ![h] = "up"]

SetHealthUp(h) ==
  /\ health' = [health EXCEPT ![h] = "up"]
  /\ UNCHANGED <<pool, connState, connHost, crossed>>

\* Deviation: the entry goes but the connection stays open.
SetHealthDownNoClose(h) ==
  /\ health' = [health EXCEPT ![h] = "down"]
  /\ pool' = [pool EXCEPT ![h] = NoConn]
  /\ UNCHANGED <<connState, connHost, crossed>>

\* setHealth with Connected false: whatever connection the table holds for
\* the host is closed and dropped, whoever uses it.
SetHealthDown(h) ==
  /\ health' = [health EXCEPT ![h] = "down"]
  /\ pool' = [pool EXCEPT ![h] = NoConn]
  /\ connState' = [n \in Conns |-> IF n = pool[h] THEN "closed" ELSE connState[n]]
  /\ UNCHANGED <<connHost, crossed>>

\* Another goroutine is in getOrReconnect for the host of w.
OtherReconnects(w) ==
  \E v \in Workers : /\ v # w /\ HostOf(v) = HostOf(w)
                     /\ pc[v] \in {"check", "drop", "dial", "publish"}

\* What connect puts in the table for h replaces what another dial to h may
\* have put there, unseen and unclosed.
Crossing(h, meets) == crossed' = IF meets THEN crossed \cup {h} ELSE crossed

(***************************************************************************)
(* Start and end of the process.                                           *)
(***************************************************************************)

\* One turn of connectAll's loop.  A connector host has nothing to dial; a
\* host that is listed twice is dialled twice.
ConnectHost(e) ==
  /\ daemon = "starting"
  /\ e \in toConnect
  /\ toConnect' = toConnect \ {e}
  /\ LET h == HostList[e] IN
     \/ h \in ConnectorHosts /\ SetHealthUp(h)
     \/ h \notin ConnectorHosts /\ SetHealthDown(h)
     \/ /\ h \notin ConnectorHosts
        /\ \E n \in Conns : Fresh(n) /\ Dialled(n, h) /\ SetPool(h, n)
        /\ Crossing(h, \E f \in Entries \ toConnect : HostList[f] = h)
  /\ UNCHANGED <<daemon, requestVars, workerVars>>

\* connectAll has returned (it never fails): the session record is saved
\* and the accept loop begins.
FinishStartup ==
  /\ daemon = "starting"
  /\ toConnect = {}
  /\ daemon' = "serving"
  /\ UNCHANGED <<toConnect, poolVars, requestVars, workerVars>>

\* Close, from the signal goroutine.  Goroutines of accepted requests go on
\* until the process ends.
Close ==
  /\ daemon = "serving"
  /\ daemon' = "closing"
  /\ pool' = [h \in Hosts |-> NoConn]
  /\ connState' = [n \in Conns |->
                     IF \E h \in Hosts : pool[h] = n THEN "closed" ELSE connState[n]]
  /\ UNCHANGED <<toConnect, health, connHost, crossed, requestVars, workerVars>>

\* Accept fails once the listener is closed, and Run returns.
Exit ==
  /\ daemon = "closing"
  /\ daemon' = "exited"
  /\ UNCHANGED <<toConnect, poolVars, requestVars, workerVars>>

\* The transport of a connection dies; nobody is told.
LoseConn(n) ==
  /\ daemon \in {"starting", "serving", "closing"}
  /\ connState[n] = "open"
  /\ connState' = [connState EXCEPT ![n] = "lost"]
  /\ UNCHANGED <<daemon, toConnect, pool, health, connHost, crossed, requestVars,
                 workerVars>>

(***************************************************************************)
(* execRequest.                                                            *)
(***************************************************************************)

\* A request names hosts, each once (ResolveExecHosts), or is for all that are
\* listed, some perhaps twice: it names none, or comes from a FIFO worker, which
\* sends the list.  It may be --raw.
EntryOf(h) == CHOOSE e \in Entries : HostList[e] = h
ResolveTargets(names) == IF names = {} THEN Entries ELSE {EntryOf(h) : h \in names}
Acceptable(names, raw) ==
  /\ names \subseteq Hosts
  /\ raw => Cardinality(ResolveTargets(names)) = 1

Reject(c, names, raw) ==
  /\ Alive /\ Answered(c)
  /\ ~Acceptable(names, raw)
  /\ request' = [request EXCEPT ![c] = "rejected"]
  /\ UNCHANGED <<daemon, toConnect, poolVars, targets, exitCode, workerVars>>

Accept(c, names, raw) ==
  /\ Alive /\ Answered(c)
  /\ Acceptable(names, raw)
  /\ request' = [request EXCEPT ![c] = "running"]
  /\ targets' = [targets EXCEPT ![c] = ResolveTargets(names)]
  /\ pc' = [w \in Workers |->
              IF w[1] = c /\ w[2] \in ResolveTargets(names) THEN "lookup" ELSE pc[w]]
  /\ outcome' = [w \in Workers |-> IF w[1] = c THEN "none" ELSE outcome[w]]
  /\ UNCHANGED <<daemon, toConnect, poolVars, exitCode, held>>

\* wg.Wait has returned.  The aggregate is the last non-zero code read, so
\* it is zero exactly when all of them are.
Answer(c) ==
  /\ Alive /\ request[c] = "running"
  /\ \A e \in targets[c] : pc[<<c, e>>] = "reported"
  /\ request' = [request EXCEPT ![c] = "done"]
  /\ exitCode' = [exitCode EXCEPT ![c] =
                    IF \E e \in targets[c] : Code(outcome[<<c, e>>]) # 0 THEN 1 ELSE 0]
  /\ pc' = [w \in Workers |-> IF w[1] = c THEN "idle" ELSE pc[w]]
  /\ UNCHANGED <<daemon, toConnect, poolVars, targets, held, outcome>>

(***************************************************************************)
(* The goroutine of one target of one request: runCommand.                 *)
(***************************************************************************)
At(w, place) == Alive /\ pc[w] = place
Goto(w, place) == pc' = [pc EXCEPT ![w] = place]
Came(w, o) == outcome' = [outcome EXCEPT ![w] = o]
Drops(w) == held' = [held EXCEPT ![w] = NoConn]

\* (*Connect).Close leaves Client nil; CheckClientAlive and CreateSession
\* dereference it and no goroutine of the daemon recovers.
Panic(w) ==
  /\ connState[held[w]] = "closed"
  /\ daemon' = IF daemon = "serving" THEN "crashed" ELSE "exited"
  /\ UNCHANGED <<toConnect, poolVars, requestVars, workerVars>>

\* getOrReconnect reads the table under RLock.
Lookup(w) ==
  /\ At(w, "lookup")
  /\ LET n == pool[HostOf(w)] IN
     IF HostOf(w) \in ConnectorHosts
     THEN Goto(w, "connector") /\ UNCHANGED held
     ELSE /\ Goto(w, IF n = NoConn THEN "dial" ELSE "check")
          /\ held' = [held EXCEPT ![w] = n]
  /\ UNCHANGED <<daemon, toConnect, poolVars, requestVars, outcome>>

\* CheckClientAlive, after RUnlock.  On a connection closed meanwhile the
\* keepalive fails or the daemon panics.
CheckAlive(w) ==
  /\ At(w, "check")
  /\ \/ /\ Goto(w, IF connState[held[w]] = "open" THEN "run" ELSE "drop")
        /\ UNCHANGED <<daemon, toConnect, poolVars, requestVars, held, outcome>>
     \/ Panic(w)

\* The dead connection is closed; the table still holds it.
DropDead(w) ==
  /\ At(w, "drop")
  /\ connState' = [connState EXCEPT ![held[w]] = "closed"]
  /\ Goto(w, "dial") /\ Drops(w)
  /\ UNCHANGED <<daemon, toConnect, pool, health, connHost, crossed, requestVars, outcome>>

\* Deviation: the goroutines share the loop variable.
DialOkAnyHost(w, n) ==
  /\ At(w, "dial") /\ Fresh(n)
  /\ \E e \in targets[w[1]] : Dialled(n, HostList[e])
  /\ held' = [held EXCEPT ![w] = n]
  /\ Goto(w, "publish")
  /\ UNCHANGED <<daemon, toConnect, pool, health, crossed, requestVars, outcome>>

\* connect dials outside the lock ...
DialOk(w, n) ==
  /\ At(w, "dial") /\ Fresh(n)
  /\ Dialled(n, HostOf(w))
  /\ held' = [held EXCEPT ![w] = n]
  /\ Goto(w, "publish")
  /\ UNCHANGED <<daemon, toConnect, pool, health, crossed, requestVars, outcome>>

DialFail(w) ==
  /\ At(w, "dial")
  /\ SetHealthDown(HostOf(w))
  /\ Came(w, "error") /\ Goto(w, "report")
  /\ UNCHANGED <<daemon, toConnect, requestVars, held>>

\* ... and overwrites the table entry without looking at it.
Publish(w) ==
  /\ At(w, "publish")
  /\ SetPool(HostOf(w), held[w])
  /\ Crossing(HostOf(w), OtherReconnects(w))
  /\ Goto(w, "run")
  /\ UNCHANGED <<daemon, toConnect, connState, connHost, requestVars, held, outcome>>

\* CreateSession and Start.  They may fail on an open connection too.
OpenSession(w) ==
  /\ At(w, "run")
  /\ \/ /\ connState[held[w]] = "open"
        /\ Goto(w, "exec")
        /\ UNCHANGED <<daemon, toConnect, poolVars, requestVars, held, outcome>>
     \/ /\ Goto(w, "mark") /\ Came(w, "error") /\ Drops(w)
        /\ UNCHANGED <<daemon, toConnect, poolVars, requestVars>>
     \/ Panic(w)

\* session.Wait: an exit status, or an error when the connection is gone.
CommandEnds(w) ==
  /\ At(w, "exec")
  /\ \E o \in IF connState[held[w]] = "open" THEN {"ok", "exit"} ELSE {"error"} :
       Came(w, o)
  /\ Goto(w, "mark") /\ Drops(w)
  /\ UNCHANGED <<daemon, toConnect, poolVars, requestVars>>

\* setHealth after the command: a non-zero exit status is an error as well.
Mark(w) ==
  /\ At(w, "mark")
  /\ IF outcome[w] = "ok" THEN SetHealthUp(HostOf(w)) ELSE SetHealthDown(HostOf(w))
  /\ Goto(w, "report")
  /\ UNCHANGED <<daemon, toConnect, requestVars, held, outcome>>

\* runConnectorCommand: a provider runs the command, no pooled connection.
ConnectorRuns(w) ==
  /\ At(w, "connector")
  /\ \E o \in Outcomes \ {"none"} :
       /\ Came(w, o)
       /\ IF o \in {"ok", "exit"}
          THEN SetHealthUp(HostOf(w)) ELSE SetHealthDown(HostOf(w))
  /\ Goto(w, "report")
  /\ UNCHANGED <<daemon, toConnect, requestVars, held>>

\* Deviation: the goroutine returns on an error before it sends its code.
ReportUnlessError(w) ==
  /\ At(w, "report") /\ outcome[w] # "error"
  /\ Goto(w, "reported")
  /\ UNCHANGED <<daemon, toConnect, poolVars, requestVars, held, outcome>>

\* The error, if any, is sent as a stderr event, the code on results.
Report(w) ==
  /\ At(w, "report")
  /\ Goto(w, "reported")
  /\ UNCHANGED <<daemon, toConnect, poolVars, requestVars, held, outcome>>

Work(w) ==
  \/ Lookup(w) \/ CheckAlive(w) \/ DropDead(w)
  \/ DialFail(w) \/ (\E n \in Conns : DialOk(w, n)) \/ Publish(w)
  \/ OpenSession(w) \/ CommandEnds(w) \/ Mark(w)
  \/ ConnectorRuns(w) \/ Report(w)

Terminated == daemon \in {"exited", "crashed"} /\ UNCHANGED vars

Next ==
  \/ \E e \in Entries : ConnectHost(e)
  \/ FinishStartup \/ Close \/ Exit \/ Terminated
  \/ \E n \in Conns : LoseConn(n)
  \/ \E c \in Clients, names \in SUBSET (Hosts \cup Strangers), raw \in BOOLEAN :
       Accept(c, names, raw) \/ Reject(c, names, raw)
  \/ \E c \in Clients : Answer(c)
  \/ \E w \in Workers : Work(w)

Spec == Init /\ [][Next]_vars

\* The Go scheduler runs every runnable goroutine; dials and remote commands
\* are taken to end.  No fairness on LoseConn, Close, Accept or Reject.
Fairness ==
  /\ \A e \in Entries : WF_vars(ConnectHost(e))
  /\ WF_vars(FinishStartup) /\ WF_vars(Exit)
  /\ \A w \in Workers : WF_vars(Work(w))
  /\ \A c \in Clients : WF_vars(Answer(c))

FairSpec == Spec /\ Fairness

(***************************************************************************)
(* Properties.                                                             *)
(***************************************************************************)

\* Places of runCommand at which the goroutine has a connection in hand.
Holding == {"check", "drop", "publish", "run", "exec"}
PcStates == Holding \cup {"idle", "lookup", "dial", "mark", "connector",
                          "report", "reported"}

\* The types, and which places of the goroutine carry a connection.
TypeOK ==
  /\ daemon \in {"starting", "serving", "closing", "exited", "crashed"}
  /\ toConnect \subseteq Entries
  /\ pool \in [Hosts -> Conns \cup {NoConn}]
  /\ health \in [Hosts -> {"unknown", "up", "down"}]
  /\ connState \in [Conns -> {"unused", "open", "lost", "closed"}]
  /\ connHost \in [Conns -> Hosts \cup {NoHost}]
  /\ crossed \subseteq Hosts
  /\ request \in [Clients -> {"idle", "running", "rejected", "done"}]
  /\ targets \in [Clients -> SUBSET Entries]
  /\ exitCode \in [Clients -> {0, 1}]
  /\ pc \in [Workers -> PcStates]
  /\ held \in [Workers -> Conns \cup {NoConn}]
  /\ outcome \in [Workers -> Outcomes]
  /\ \A w \in Workers : held[w] # NoConn <=> pc[w] \in Holding

\* A host with a pooled connection is recorded as connected, and a connector
\* host never has one (connect and setHealth change both maps under d.mu).
PooledIsUp ==
  \A h \in Hosts : pool[h] # NoConn => health[h] = "up" /\ h \notin ConnectorHosts

\* Through pool, probe, redial and overwrite by other goroutines, the
\* connection a goroutine runs a command on was dialled to its own host.
RightHost ==
  /\ \A h \in Hosts : pool[h] # NoConn => connHost[pool[h]] = h
  /\ \A w \in Workers : held[w] # NoConn => connHost[held[w]] = HostOf(w)

\* Exit code 0 is sent only when the command exited 0 on every target that
\* is reached over SSH (execRequest's aggregation of the results channel).
ZeroMeansSuccess ==
  \A c \in Clients : request[c] = "done" /\ exitCode[c] = 0 =>
    \A e \in targets[c] : HostList[e] \notin ConnectorHosts => outcome[<<c, e>>] = "ok"

\* The daemon survives its commands: no goroutine touches a closed
\* connection (getOrReconnect and runSessionCommand use it unlocked).
DaemonSurvives == daemon # "crashed"

\* An open connection a serving daemon can no longer reach, from the table or
\* from a goroutine, is to a host that was dialled twice at once: by connectAll
\* because it is listed twice, or by two goroutines in getOrReconnect.  No other
\* order of probing, redialling, failing and replacing leaks one.
NoLeakedConn ==
  daemon = "serving" => \A n \in Conns : connState[n] = "open" =>
    \/ (\E h \in Hosts : pool[h] = n) \/ (\E w \in Workers : held[w] = n)
    \/ connHost[n] \in crossed

\* Every request is answered, unless the process ends first.
RequestsAnswered ==
  \A c \in Clients : request[c] = "running" ~> request[c] # "running" \/ ~Alive

\* The service the daemon promises its clients, whatever becomes of the
\* connections: see PipeService.
Service == INSTANCE PipeService WITH
  Hosts <- Entries,
  up <- daemon \notin {"exited", "crashed"},
  result <- [w \in Workers |-> IF pc[w] \in {"idle", "reported"} THEN outcome[w]
                                                                ELSE "none"]
ImplementsService == Service!Spec
=============================================================================
