-------------------------- MODULE PipeDaemonProofs --------------------------
(***************************************************************************)
(* Proofs about the lspipe daemon, for every set of hosts, clients and     *)
(* connections.  DaemonInv is the inductive invariant; the safety          *)
(* properties of PipeDaemon are its parts or follow from it.               *)
(***************************************************************************)
EXTENDS PipeDaemon, TLAPS

\* A goroutine that is not idle belongs to a running request and one of its
\* targets: Accept starts them, Answer waits for all of them.
ActiveIsTarget ==
  \A w \in Workers :
    pc[w] # "idle" => request[w[1]] = "running" /\ w[2] \in targets[w[1]]

\* Connector hosts never reach the code that handles connections, and only
\* they reach the code that runs a provider.
ConnectorApart ==
  \A w \in Workers :
    /\ pc[w] \in Holding \cup {"dial"} => HostOf(w) \notin ConnectorHosts
    /\ pc[w] = "connector" => HostOf(w) \in ConnectorHosts
    /\ outcome[w] = "error0" => HostOf(w) \in ConnectorHosts

\* A goroutine that is about to report knows what its command came to.
OutcomeKnown ==
  \A w \in Workers : pc[w] \in {"mark", "report", "reported"} => outcome[w] # "none"

\* An answered request has an outcome on every target.
DoneIsComplete ==
  \A c \in Clients : request[c] = "done" =>
    \A e \in targets[c] : outcome[<<c, e>>] # "none"

\* Goroutines are pairs of a client and an entry of d.Hosts.
LEMMA WorkerHost ==
  /\ \A w \in Workers : HostOf(w) \in Hosts /\ w[1] \in Clients /\ w[2] \in Entries
  /\ \A c \in Clients, e \in Entries : <<c, e>> \in Workers /\ HostOf(<<c, e>>) = HostList[e]
  /\ \A e \in Entries : HostList[e] \in Hosts
BY DEF Workers, HostOf, Hosts

\* A request that names hosts of the session runs on entries of its list, at
\* least on one.
LEMMA TargetsAreEntries ==
  ASSUME NEW names \in SUBSET Hosts
  PROVE  ResolveTargets(names) \in SUBSET Entries /\ ResolveTargets(names) # {}
<1>1. \A h \in Hosts : EntryOf(h) \in Entries
  BY DEF EntryOf, Hosts
<1> QED
  BY <1>1, PipeDaemonAssumption DEF ResolveTargets

DaemonInv ==
  /\ TypeOK
  /\ PooledIsUp
  /\ RightHost
  /\ ActiveIsTarget
  /\ ConnectorApart
  /\ OutcomeKnown
  /\ DoneIsComplete
  /\ ZeroMeansSuccess

LEMMA InitEstablishes == Init => DaemonInv
BY PipeDaemonAssumption, WorkerHost
   DEF Init, DaemonInv, TypeOK, PooledIsUp, RightHost, ActiveIsTarget, ConnectorApart,
       OutcomeKnown, DoneIsComplete, ZeroMeansSuccess, Holding, PcStates, Outcomes

LEMMA NextPreserves == DaemonInv /\ [Next]_vars => DaemonInv'
<1> SUFFICES ASSUME DaemonInv, [Next]_vars
             PROVE  DaemonInv'
  OBVIOUS
<1> USE PipeDaemonAssumption, WorkerHost
    DEF DaemonInv, TypeOK, PooledIsUp, RightHost, ActiveIsTarget, ConnectorApart,
        OutcomeKnown, DoneIsComplete, ZeroMeansSuccess, Holding, PcStates, Outcomes, Code
<1>1. ASSUME NEW e \in Entries, ConnectHost(e)
      PROVE  DaemonInv'
  <2> DEFINE h == HostList[e]
  <2>h. h \in Hosts
    OBVIOUS
  <2>0. UNCHANGED <<daemon, requestVars, workerVars>> /\ toConnect' \in SUBSET Entries
    BY <1>1 DEF ConnectHost
  <2> HIDE DEF h
  <2>1. CASE h \in ConnectorHosts /\ SetHealthUp(h)
    BY <2>h, <2>0, <2>1, SMTT(30) DEF SetHealthUp, requestVars, workerVars
  <2>2. CASE h \notin ConnectorHosts /\ SetHealthDown(h)
    <3>1. TypeOK'
      BY <2>h, <2>0, <2>2, SMTT(30) DEF SetHealthDown, requestVars, workerVars
    <3>2. (PooledIsUp /\ RightHost)'
      BY <2>h, <2>0, <2>2, SMTT(30) DEF SetHealthDown, requestVars, workerVars
    <3>3. (ActiveIsTarget /\ ConnectorApart /\ OutcomeKnown /\ DoneIsComplete /\ ZeroMeansSuccess)'
      BY <2>0, SMTT(30) DEF requestVars, workerVars
    <3> HIDE DEF TypeOK, PooledIsUp, RightHost, ActiveIsTarget, ConnectorApart,
                 OutcomeKnown, DoneIsComplete, ZeroMeansSuccess
    <3> QED
      BY <3>1, <3>2, <3>3
  <2>3. ASSUME NEW n \in Conns, h \notin ConnectorHosts, Fresh(n), Dialled(n, h), SetPool(h, n),
               NEW meets \in BOOLEAN, Crossing(h, meets)
        PROVE  DaemonInv'
    <3>1. TypeOK'
      BY <2>h, <2>0, <2>3, SMTT(30) DEF SetPool, Dialled, Crossing, requestVars, workerVars
    <3>2. (PooledIsUp /\ RightHost)'
      BY <2>h, <2>0, <2>3, SMTT(30) DEF SetPool, Dialled, Fresh, requestVars, workerVars
    <3>3. (ActiveIsTarget /\ ConnectorApart /\ OutcomeKnown /\ DoneIsComplete /\ ZeroMeansSuccess)'
      BY <2>0, SMTT(30) DEF requestVars, workerVars
    <3> HIDE DEF TypeOK, PooledIsUp, RightHost, ActiveIsTarget, ConnectorApart,
                 OutcomeKnown, DoneIsComplete, ZeroMeansSuccess
    <3> QED
      BY <3>1, <3>2, <3>3
  <2> HIDE DEF DaemonInv
  <2> QED
    BY <1>1, <2>1, <2>2, <2>3 DEF ConnectHost, h
<1>2. ASSUME FinishStartup
      PROVE  DaemonInv'
  BY <1>2, SMTT(30) DEF FinishStartup, poolVars, requestVars, workerVars
<1>3. ASSUME Close
      PROVE  DaemonInv'
  BY <1>3, SMTT(30) DEF Close, requestVars, workerVars
<1>4. ASSUME Exit
      PROVE  DaemonInv'
  BY <1>4, SMTT(30) DEF Exit, poolVars, requestVars, workerVars
<1>5. ASSUME NEW n \in Conns, LoseConn(n)
      PROVE  DaemonInv'
  BY <1>5, SMTT(30) DEF LoseConn, requestVars, workerVars
<1>6. ASSUME NEW c \in Clients, NEW names, NEW raw, Accept(c, names, raw)
      PROVE  DaemonInv'
  <2>1. ResolveTargets(names) \in SUBSET Entries
    BY <1>6, TargetsAreEntries DEF Accept, Acceptable
  <2> HIDE DEF PooledIsUp, RightHost
  <2>2. (PooledIsUp /\ RightHost)'
    BY <1>6 DEF Accept, poolVars, PooledIsUp, RightHost
  <2> QED
    BY <1>6, <2>1, <2>2, SMTT(30) DEF Accept, Answered, poolVars
<1>7. ASSUME NEW c \in Clients, NEW names, NEW raw, Reject(c, names, raw)
      PROVE  DaemonInv'
  BY <1>7, SMTT(30) DEF Reject, Answered, poolVars, workerVars
<1>8. ASSUME NEW c \in Clients, Answer(c)
      PROVE  DaemonInv'
  <2>1. TypeOK'
    <3>1. exitCode' \in [Clients -> {0, 1}]
      <4> DEFINE failed == \E e \in targets[c] : Code(outcome[<<c, e>>]) # 0
      <4>1. exitCode' = [exitCode EXCEPT ![c] = IF failed THEN 1 ELSE 0]
        BY <1>8 DEF Answer
      <4> HIDE DEF failed
      <4> QED BY <4>1
    <3>2. pc' \in [Workers -> PcStates] /\ \A w \in Workers : pc'[w] = IF w[1] = c THEN "idle" ELSE pc[w]
      BY <1>8 DEF Answer
    <3>3. \A w \in Workers : held'[w] # NoConn <=> pc'[w] \in Holding
      <4>1. \A w \in Workers : w[1] = c => held[w] = NoConn
        <5> SUFFICES ASSUME NEW w \in Workers, w[1] = c, held[w] # NoConn PROVE FALSE
          OBVIOUS
        <5>1. pc[w] \in Holding /\ w[2] \in targets[c]
          OBVIOUS
        <5>2. pc[<<c, w[2]>>] = "reported" /\ w = <<c, w[2]>>
          BY <1>8, <5>1 DEF Answer, Workers
        <5> QED BY <5>1, <5>2
      <4> QED
        BY <1>8, <3>2, <4>1 DEF Answer
    <3> QED
      BY <1>8, <3>1, <3>2, <3>3 DEF Answer, poolVars
  <2>2. (PooledIsUp /\ RightHost)'
    BY <1>8, SMTT(20) DEF Answer, poolVars
  <2>3. ActiveIsTarget'
    <3>1. /\ request' = [request EXCEPT ![c] = "done"]
          /\ pc' = [w \in Workers |-> IF w[1] = c THEN "idle" ELSE pc[w]]
          /\ targets' = targets
      BY <1>8 DEF Answer
    <3>2. \A w \in Workers : pc'[w] # "idle" => w[1] # c /\ pc[w] # "idle"
      BY <3>1
    <3> QED
      BY <3>1, <3>2 DEF HostOf
  <2>4. (ConnectorApart /\ OutcomeKnown)'
    BY <1>8, SMTT(20) DEF Answer, poolVars
  <2>5. DoneIsComplete'
    BY <1>8, SMTT(20) DEF Answer, poolVars
  <2>6. ZeroMeansSuccess'
    <3>1. /\ request' = [request EXCEPT ![c] = "done"]
          /\ exitCode' = [exitCode EXCEPT ![c] =
               IF \E e \in targets[c] : Code(outcome[<<c, e>>]) # 0 THEN 1 ELSE 0]
          /\ UNCHANGED <<targets, outcome>>
      BY <1>8 DEF Answer
    <3>2. \A e \in targets[c] : HostList[e] \notin ConnectorHosts =>
             outcome[<<c, e>>] \in {"ok", "exit", "error"}
      <4> SUFFICES ASSUME NEW e \in targets[c], HostList[e] \notin ConnectorHosts
                   PROVE  outcome[<<c, e>>] \in {"ok", "exit", "error"}
        OBVIOUS
      <4>1. <<c, e>> \in Workers /\ pc[<<c, e>>] = "reported"
        BY <1>8 DEF Answer
      <4>2. outcome[<<c, e>>] \in Outcomes /\ outcome[<<c, e>>] # "none"
        BY <4>1
      <4>4. outcome[<<c, e>>] # "error0"
        BY <4>1
      <4> QED
        BY <4>2, <4>4
    <3>3. exitCode'[c] = 0 =>
            \A e \in targets[c] : HostList[e] \notin ConnectorHosts => outcome[<<c, e>>] = "ok"
      <4> SUFFICES ASSUME exitCode'[c] = 0, NEW e \in targets[c], HostList[e] \notin ConnectorHosts
                   PROVE  outcome[<<c, e>>] = "ok"
        OBVIOUS
      <4> DEFINE failed == \E g \in targets[c] : Code(outcome[<<c, g>>]) # 0
      <4>0. exitCode \in [Clients -> {0, 1}] /\ exitCode' = [exitCode EXCEPT ![c] = IF failed THEN 1 ELSE 0]
        BY <3>1
      <4>1. ~ failed
        <5> HIDE DEF failed
        <5> QED BY <4>0
      <4>2. Code(outcome[<<c, e>>]) = 0
        BY <4>1
      <4> QED
        BY <4>2, <3>2
    <3> QED
      BY <3>1, <3>3
  <2> HIDE DEF TypeOK, PooledIsUp, RightHost, ActiveIsTarget, ConnectorApart,
               OutcomeKnown, DoneIsComplete, ZeroMeansSuccess
  <2> QED
    BY <2>1, <2>2, <2>3, <2>4, <2>5, <2>6
<1>9. ASSUME NEW w \in Workers, Lookup(w)
      PROVE  DaemonInv'
  <2>0. /\ pc[w] = "lookup"
        /\ UNCHANGED <<daemon, toConnect, poolVars, requestVars, outcome>>
    BY <1>9 DEF Lookup, At
  <2>1. CASE HostOf(w) \in ConnectorHosts
    <3>1. pc' = [pc EXCEPT ![w] = "connector"] /\ held' = held
      BY <1>9, <2>1 DEF Lookup, Goto
    <3> QED
      BY <2>0, <2>1, <3>1, SMTT(30) DEF poolVars, requestVars
  <2>2. CASE HostOf(w) \notin ConnectorHosts
    <3>1. /\ pc' = [pc EXCEPT ![w] = IF pool[HostOf(w)] = NoConn THEN "dial" ELSE "check"]
          /\ held' = [held EXCEPT ![w] = pool[HostOf(w)]]
      BY <1>9, <2>2 DEF Lookup, Goto
    <3> QED
      BY <2>0, <2>2, <3>1, SMTT(30) DEF poolVars, requestVars
  <2> QED
    BY <2>1, <2>2
<1>10. ASSUME NEW w \in Workers, CheckAlive(w)
      PROVE  DaemonInv'
  BY <1>10, SMTT(30) DEF CheckAlive, At, Goto, Panic, poolVars, requestVars, workerVars
<1>11. ASSUME NEW w \in Workers, DropDead(w)
      PROVE  DaemonInv'
  BY <1>11, SMTT(30) DEF DropDead, At, Goto, Drops, requestVars
<1>12. ASSUME NEW w \in Workers, NEW n \in Conns, DialOk(w, n)
      PROVE  DaemonInv'
  BY <1>12, SMTT(30) DEF DialOk, At, Goto, Fresh, Dialled, requestVars
<1>13. ASSUME NEW w \in Workers, DialFail(w)
      PROVE  DaemonInv'
  BY <1>13, SMTT(30) DEF DialFail, At, Goto, Came, SetHealthDown, requestVars
<1>14. ASSUME NEW w \in Workers, Publish(w)
      PROVE  DaemonInv'
  <2>1. held[w] \in Conns /\ connHost[held[w]] = HostOf(w) /\ HostOf(w) \in Hosts
    BY <1>14 DEF Publish, At
  <2>2. /\ pool' = [pool EXCEPT ![HostOf(w)] = held[w]]
        /\ health' = [health EXCEPT ![HostOf(w)] = "up"]
        /\ pc' = [pc EXCEPT ![w] = "run"]
        /\ crossed' \subseteq crossed \cup {HostOf(w)}
        /\ UNCHANGED <<daemon, toConnect, connState, connHost, request, targets,
                       exitCode, held, outcome>>
    BY <1>14 DEF Publish, SetPool, Crossing, Goto, requestVars
  <2>3. pc[w] = "publish" /\ HostOf(w) \notin ConnectorHosts
    BY <1>14 DEF Publish, At
  <2>4. TypeOK' BY <2>1, <2>2, <2>3
  <2>5. PooledIsUp' BY <2>1, <2>2, <2>3
  <2>6. RightHost' BY <2>1, <2>2, <2>3
  <2>7. (ActiveIsTarget /\ ConnectorApart /\ OutcomeKnown)' BY <2>2, <2>3
  <2>8. (DoneIsComplete /\ ZeroMeansSuccess)' BY <2>2
  <2> QED BY <2>4, <2>5, <2>6, <2>7, <2>8
<1>15. ASSUME NEW w \in Workers, OpenSession(w)
      PROVE  DaemonInv'
  <2>1. CASE /\ connState[held[w]] = "open" /\ Goto(w, "exec")
             /\ UNCHANGED <<daemon, toConnect, poolVars, requestVars, held, outcome>>
    BY <1>15, <2>1, SMTT(20) DEF OpenSession, At, Goto, poolVars, requestVars
  <2>2. CASE /\ Goto(w, "mark") /\ Came(w, "error") /\ Drops(w)
             /\ UNCHANGED <<daemon, toConnect, poolVars, requestVars>>
    BY <1>15, <2>2, SMTT(20) DEF OpenSession, At, Goto, Came, Drops, poolVars, requestVars
  <2>3. CASE Panic(w)
    BY <2>3, SMTT(20) DEF Panic, poolVars, requestVars, workerVars
  <2> QED
    BY <1>15, <2>1, <2>2, <2>3 DEF OpenSession
<1>16. ASSUME NEW w \in Workers, CommandEnds(w)
      PROVE  DaemonInv'
  BY <1>16, SMTT(30) DEF CommandEnds, At, Goto, Came, Drops, poolVars, requestVars
<1>17. ASSUME NEW w \in Workers, Mark(w)
      PROVE  DaemonInv'
  <2>1. /\ pc[w] = "mark" /\ pc' = [pc EXCEPT ![w] = "report"]
        /\ UNCHANGED <<daemon, toConnect, request, targets, exitCode, held, outcome>>
    BY <1>17 DEF Mark, At, Goto, requestVars
  <2>2. CASE SetHealthUp(HostOf(w))
    BY <2>1, <2>2, SMTT(20) DEF SetHealthUp
  <2>3. CASE SetHealthDown(HostOf(w))
    BY <2>1, <2>3, SMTT(20) DEF SetHealthDown
  <2> QED
    BY <1>17, <2>2, <2>3 DEF Mark
<1>18. ASSUME NEW w \in Workers, ConnectorRuns(w)
      PROVE  DaemonInv'
  BY <1>18, SMTT(30) DEF ConnectorRuns, At, Goto, Came, SetHealthUp, SetHealthDown, requestVars
<1>19. ASSUME NEW w \in Workers, Report(w)
      PROVE  DaemonInv'
  BY <1>19, SMTT(30) DEF Report, At, Goto, poolVars, requestVars
<1>20. CASE UNCHANGED vars
  BY <1>20 DEF vars, poolVars, requestVars, workerVars
<1> QED
  BY <1>1, <1>2, <1>3, <1>4, <1>5, <1>6, <1>7, <1>8, <1>9, <1>10,
     <1>11, <1>12, <1>13, <1>14, <1>15, <1>16, <1>17, <1>18, <1>19, <1>20
  DEF Next, Work, Terminated

LEMMA Invariance == Spec => []DaemonInv
BY InitEstablishes, NextPreserves, PTL DEF Spec

\* Every variable keeps its type, and a goroutine holds a connection exactly
\* at the places of runCommand that use one.
THEOREM TypeCorrect == Spec => []TypeOK
BY Invariance, PTL DEF DaemonInv

\* The tables conns and health agree in every reachable state.
THEOREM PooledAlwaysUp == Spec => []PooledIsUp
BY Invariance, PTL DEF DaemonInv

\* No command runs on another host's connection, however many requests probe,
\* redial and overwrite the table at once.
THEOREM AlwaysRightHost == Spec => []RightHost
BY Invariance, PTL DEF DaemonInv

\* Exit code 0 is never sent when the command failed on an SSH host.
THEOREM ZeroCodeIsSuccess == Spec => []ZeroMeansSuccess
BY Invariance, PTL DEF DaemonInv
(***************************************************************************)
(* The daemon implements PipeService.  A request is accepted, rejected and *)
(* answered by the actions of the same names; a host finishes when its     *)
(* goroutine reports; every step on the connections is a stutter.          *)
(***************************************************************************)

\* What a client may know of a goroutine's command: nothing until it reports.
Shown(w) == IF pc[w] \in {"idle", "reported"} THEN outcome[w] ELSE "none"
IsUp == daemon \notin {"exited", "crashed"}

LEMMA ServiceStutter ==
  ASSUME UNCHANGED <<request, targets, exitCode>>, IsUp' = IsUp,
         \A w \in Workers : Shown(w)' = Shown(w)
  PROVE  UNCHANGED Service!vars
BY DEF Service!vars, Shown, IsUp

LEMMA ServiceDown ==
  ASSUME UNCHANGED <<request, targets, exitCode>>, IsUp, ~IsUp',
         \A w \in Workers : Shown(w)' = Shown(w)
  PROVE  Service!GoDown
BY DEF Service!GoDown, Shown, IsUp

LEMMA InitRefines == Init => Service!Init
BY DEF Init, Service!Init, Workers

\* The steps that neither change the process nor end a goroutine's work.
LEMMA QuietRefines ==
  ASSUME DaemonInv, NEW w \in Workers, UNCHANGED <<request, targets, exitCode, daemon>>,
         pc[w] \notin {"idle", "reported"}, NEW place \in PcStates \ {"idle", "reported"},
         pc' = [pc EXCEPT ![w] = place],
         \/ UNCHANGED outcome
         \/ \E o : outcome' = [outcome EXCEPT ![w] = o]
  PROVE  UNCHANGED Service!vars
<1>1. \A v \in Workers : Shown(v)' = Shown(v)
  BY DEF Shown, DaemonInv, TypeOK
<1> QED
  BY <1>1, ServiceStutter DEF IsUp

LEMMA NextRefines ==
  DaemonInv /\ [Next]_vars => [Service!Next]_(Service!vars)
<1> SUFFICES ASSUME DaemonInv, [Next]_vars
             PROVE  [Service!Next]_(Service!vars)
  OBVIOUS
<1>1. ASSUME NEW e \in Entries, ConnectHost(e)
      PROVE  UNCHANGED Service!vars
  BY <1>1, ServiceStutter DEF ConnectHost, requestVars, workerVars, Shown, IsUp
<1>2. ASSUME FinishStartup
      PROVE  UNCHANGED Service!vars
  BY <1>2, ServiceStutter DEF FinishStartup, requestVars, workerVars, Shown, IsUp
<1>3. ASSUME Close
      PROVE  UNCHANGED Service!vars
  BY <1>3, ServiceStutter DEF Close, requestVars, workerVars, Shown, IsUp
<1>4. ASSUME Exit
      PROVE  Service!GoDown
  BY <1>4, ServiceDown DEF Exit, requestVars, workerVars, Shown, IsUp
<1>5. ASSUME NEW n \in Conns, LoseConn(n)
      PROVE  UNCHANGED Service!vars
  BY <1>5, ServiceStutter DEF LoseConn, requestVars, workerVars, Shown, IsUp
<1>6. ASSUME NEW c \in Clients, NEW names, NEW raw, Accept(c, names, raw)
      PROVE  Service!Next
  <2>1. ResolveTargets(names) \in SUBSET Entries /\ ResolveTargets(names) # {}
    BY <1>6, TargetsAreEntries DEF Accept, Acceptable
  <2>2. \A w \in Workers : Shown(w)' = IF w[1] = c THEN "none" ELSE Shown(w)
    BY <1>6 DEF Accept, Shown, DaemonInv, TypeOK, ActiveIsTarget, Answered, Workers
  <2>3. Service!Accept(c, ResolveTargets(names))
    BY <1>6, <2>1, <2>2 DEF Accept, Answered, Alive, Service!Accept, Shown, Workers
  <2> QED
    BY <2>1, <2>3 DEF Service!Next
<1>7. ASSUME NEW c \in Clients, NEW names, NEW raw, Reject(c, names, raw)
      PROVE  Service!Next
  <2>1. Service!Reject(c)
    BY <1>7 DEF Reject, Answered, Alive, workerVars, Service!Reject
  <2> QED
    BY <2>1 DEF Service!Next
<1>8. ASSUME NEW c \in Clients, Answer(c)
      PROVE  Service!Next
  <2>1. \A e \in targets[c] : <<c, e>> \in Workers /\ Shown(<<c, e>>) = outcome[<<c, e>>]
    BY <1>8 DEF Answer, Shown, DaemonInv, TypeOK, Workers
  <2>2. \A w \in Workers : Shown(w)' = Shown(w)
    BY <1>8 DEF Answer, Shown, DaemonInv, TypeOK, ActiveIsTarget, Workers
  <2>3. \A e \in targets[c] : Shown(<<c, e>>) # "none"
    BY <1>8, <2>1 DEF Answer, DaemonInv, OutcomeKnown
  <2>4. (\E e \in targets[c] : Code(outcome[<<c, e>>]) # 0)
          <=> \E e \in targets[c] : Service!Failed(Shown(<<c, e>>))
    BY <2>1 DEF Code, Service!Failed
  <2>5. Service!Answer(c)
    BY <1>8, <2>1, <2>2, <2>3, <2>4 DEF Answer, Alive, Service!Answer, Service!Failed, Shown, Code
  <2> QED
    BY <2>5 DEF Service!Next
<1>9. ASSUME NEW w \in Workers, Work(w)
      PROVE  Service!Next \/ UNCHANGED Service!vars
  <2>1. CASE Lookup(w)
    BY <1>9, <2>1, QuietRefines DEF Lookup, At, Goto, requestVars, PcStates, Holding
  <2>2. CASE CheckAlive(w)
    <3>1. CASE Panic(w)
      BY <2>2, <3>1, ServiceDown, ServiceStutter
         DEF CheckAlive, At, Alive, Panic, requestVars, workerVars, Shown, IsUp, Service!Next
    <3>2. CASE ~Panic(w)
      BY <2>2, <3>2, QuietRefines DEF CheckAlive, At, Goto, requestVars, PcStates, Holding
    <3> QED BY <3>1, <3>2
  <2>3. CASE DropDead(w)
    BY <2>3, QuietRefines DEF DropDead, At, Goto, requestVars, PcStates, Holding
  <2>4. CASE DialFail(w)
    BY <2>4, QuietRefines DEF DialFail, At, Goto, Came, requestVars, PcStates, Holding
  <2>5. ASSUME NEW n \in Conns, DialOk(w, n)
        PROVE  UNCHANGED Service!vars
    BY <2>5, QuietRefines DEF DialOk, At, Goto, requestVars, PcStates, Holding
  <2>6. CASE Publish(w)
    BY <2>6, QuietRefines DEF Publish, At, Goto, requestVars, PcStates, Holding
  <2>7. CASE OpenSession(w)
    <3>1. CASE Panic(w)
      BY <2>7, <3>1, ServiceDown, ServiceStutter
         DEF OpenSession, At, Alive, Panic, requestVars, workerVars, Shown, IsUp, Service!Next
    <3>2. CASE ~Panic(w)
      BY <2>7, <3>2, QuietRefines DEF OpenSession, At, Goto, Came, requestVars, PcStates, Holding
    <3> QED BY <3>1, <3>2
  <2>8. CASE CommandEnds(w)
    BY <2>8, QuietRefines DEF CommandEnds, At, Goto, Came, requestVars, PcStates, Holding
  <2>9. CASE Mark(w)
    BY <2>9, QuietRefines DEF Mark, At, Goto, requestVars, PcStates, Holding
  <2>10. CASE ConnectorRuns(w)
    BY <2>10, QuietRefines DEF ConnectorRuns, At, Goto, Came, requestVars, PcStates, Holding
  <2>11. CASE Report(w)
    <3>1. PICK c \in Clients, e \in Entries : w = <<c, e>>
      BY DEF Workers
    <3>2. request[c] = "running" /\ e \in targets[c] /\ outcome[w] \in Service!Results
      BY <2>11, <3>1 DEF Report, At, DaemonInv, TypeOK, ActiveIsTarget, OutcomeKnown,
                         Outcomes, Service!Results
    <3>3. [v \in Workers |-> Shown(v)]' = [[v \in Workers |-> Shown(v)] EXCEPT ![w] = outcome[w]]
      BY <2>11 DEF Report, At, Goto, Shown, DaemonInv, TypeOK
    <3>4. PICK r \in Service!Results : r = outcome[w]
      BY <3>2
    <3>5. Service!HostFinishes(c, e, r)
      BY <2>11, <3>1, <3>2, <3>3, <3>4
         DEF Report, At, Alive, requestVars, Shown, Service!HostFinishes
    <3> QED
      BY <3>5 DEF Service!Next
  <2> QED
    BY <1>9, <2>1, <2>2, <2>3, <2>4, <2>5, <2>6, <2>7, <2>8, <2>9, <2>10, <2>11 DEF Work
<1>10. CASE UNCHANGED vars
  BY <1>10, ServiceStutter DEF vars, requestVars, workerVars, Shown, IsUp
<1> QED
  BY <1>1, <1>2, <1>3, <1>4, <1>5, <1>6, <1>7, <1>8, <1>9, <1>10
     DEF Next, Terminated, Service!Next

\* Whatever becomes of its connections, a daemon of any size shows its clients
\* only behaviours of the abstract service.
THEOREM Implements == Spec => ImplementsService
BY InitRefines, NextRefines, Invariance, PTL DEF Spec, ImplementsService, Service!Spec

(***************************************************************************)
(* What is not leaked.  As long as no two dials to a host cross, the       *)
(* connection that is replaced has been closed or lost before.             *)
(***************************************************************************)

\* The table has an open connection for the host.
Busy(h) == pool[h] # NoConn /\ connState[pool[h]] = "open"

\* While connectAll runs there are no requests, and a host it has not come to
\* has no connection.
StartsEmpty ==
  daemon = "starting" =>
    /\ \A c \in Clients : request[c] = "idle"
    /\ \A h \in Hosts : (\A f \in Entries \ toConnect : HostList[f] # h) => pool[h] = NoConn

\* Where no dials crossed, the open connection a goroutine uses is the one of
\* the table, one that redials replaces no open one, and the dead one it found
\* was the table's.
TableAgrees ==
  daemon = "serving" => \A w \in Workers : HostOf(w) \notin crossed =>
    /\ pc[w] \in {"check", "drop", "run", "exec"} =>
         pool[HostOf(w)] = held[w] \/ connState[held[w]] # "open"
    /\ pc[w] \in {"check", "drop"} => pool[HostOf(w)] = held[w] \/ ~Busy(HostOf(w))
    /\ pc[w] = "drop" => connState[held[w]] # "open"
    /\ pc[w] \in {"dial", "publish"} => ~Busy(HostOf(w))

InUse(n) == (\E h \in Hosts : pool[h] = n) \/ (\E w \in Workers : held[w] = n)
OpenInUse ==
  daemon \in {"starting", "serving"} => \A n \in Conns : connState[n] = "open" =>
    InUse(n) \/ connHost[n] \in crossed

LeakInv == StartsEmpty /\ TableAgrees /\ OpenInUse

LEMMA LeakNext ==
  ASSUME DaemonInv, LeakInv, [Next]_vars
  PROVE  LeakInv'
<1>2. /\ pool \in [Hosts -> Conns \cup {NoConn}] /\ connState \in [Conns -> {"unused", "open", "lost", "closed"}]
      /\ pc \in [Workers -> PcStates] /\ held \in [Workers -> Conns \cup {NoConn}]
      /\ connHost \in [Conns -> Hosts \cup {NoHost}]
      /\ request \in [Clients -> {"idle", "running", "rejected", "done"}]
      /\ toConnect \subseteq Entries /\ NoConn \notin Conns
      /\ \A w \in Workers : held[w] # NoConn <=> pc[w] \in Holding
  BY PipeDaemonAssumption DEF DaemonInv, TypeOK
<1>3. \A w \in Workers : pc[w] # "idle" => request[w[1]] = "running"
  BY DEF DaemonInv, ActiveIsTarget
<1>4. /\ \A h \in Hosts : pool[h] # NoConn => connHost[pool[h]] = h
      /\ \A w \in Workers : held[w] # NoConn => connHost[held[w]] = HostOf(w)
  BY DEF DaemonInv, RightHost
<1> USE WorkerHost, <1>2, <1>3, <1>4
    DEF LeakInv, StartsEmpty, TableAgrees, Busy, OpenInUse, InUse, Holding, poolVars, requestVars, workerVars
<1>5. ASSUME NEW e \in Entries, ConnectHost(e)
      PROVE  LeakInv'
  BY <1>5 DEF ConnectHost, SetHealthUp, SetHealthDown, Fresh, Dialled, SetPool, Crossing
<1>6. ASSUME FinishStartup
      PROVE  LeakInv'
  BY <1>6 DEF FinishStartup
<1>7. ASSUME Close \/ Exit
      PROVE  LeakInv'
  BY <1>7 DEF Close, Exit
<1>8. ASSUME NEW n \in Conns, LoseConn(n)
      PROVE  LeakInv'
  BY <1>8 DEF LoseConn
<1>9. ASSUME NEW c \in Clients, NEW names, NEW raw, Accept(c, names, raw) \/ Reject(c, names, raw)
      PROVE  LeakInv'
  BY <1>9 DEF Accept, Reject, Alive
<1>10. ASSUME NEW c \in Clients, Answer(c)
       PROVE  LeakInv'
  BY <1>10 DEF Answer, Alive
<1>11. ASSUME NEW w \in Workers, Work(w)
       PROVE  LeakInv'
  <2> USE DEF At, Goto, Alive
  <2>1. CASE Lookup(w)
    BY <2>1 DEF Lookup
  <2>2. CASE CheckAlive(w)
    BY <2>2 DEF CheckAlive, Panic
  <2>3. CASE DropDead(w)
    BY <2>3 DEF DropDead, Drops
  <2>4. CASE DialFail(w)
    BY <2>4 DEF DialFail, SetHealthDown
  <2>5. ASSUME NEW n \in Conns, DialOk(w, n)
        PROVE  LeakInv'
    BY <2>5 DEF DialOk, Fresh, Dialled
  <2>6. CASE Publish(w)
    BY <2>6 DEF Publish, SetPool, Crossing, OtherReconnects
  <2>7. CASE OpenSession(w)
    BY <2>7 DEF OpenSession, Drops, Panic
  <2>8. CASE CommandEnds(w)
    BY <2>8 DEF CommandEnds, Drops
  <2>9. CASE Mark(w)
    BY <2>9 DEF Mark, SetHealthUp, SetHealthDown
  <2>10. CASE ConnectorRuns(w)
    BY <2>10 DEF ConnectorRuns, SetHealthUp, SetHealthDown
  <2>11. CASE Report(w)
    BY <2>11 DEF Report
  <2> QED
    BY <1>11, <2>1, <2>2, <2>3, <2>4, <2>5, <2>6, <2>7, <2>8, <2>9, <2>10, <2>11 DEF Work
<1>12. CASE UNCHANGED vars
  BY <1>12 DEF vars
<1> QED
  BY <1>5, <1>6, <1>7, <1>8, <1>9, <1>10, <1>11, <1>12 DEF Next, Terminated

\* For any list of hosts and any number of clients: a connection a serving
\* daemon loses sight of while it is open is to a host that was dialled twice
\* at once; nothing else that connections, commands and requests do leaks one.
THEOREM KeepsConns == Spec => []NoLeakedConn
<1>1. Init => LeakInv
  BY WorkerHost DEF Init, LeakInv, StartsEmpty, TableAgrees, OpenInUse, Busy
<1>2. DaemonInv /\ LeakInv /\ [Next]_vars => LeakInv'
  BY LeakNext
<1>3. LeakInv => NoLeakedConn
  BY DEF LeakInv, OpenInUse, InUse, NoLeakedConn
<1> QED
  BY <1>1, <1>2, <1>3, Invariance, PTL DEF Spec
=============================================================================
