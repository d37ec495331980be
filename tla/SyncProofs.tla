------------------------------ MODULE SyncProofs ------------------------------
(***************************************************************************)
(* Proofs about Sync: what a run of lssync can do to the destination, for  *)
(* any trees, pool, number of failures and length of the daemon's life.    *)
(***************************************************************************)
EXTENDS Sync, TLAPS

PlanEntries == {"none", "absent", "dir", "part", "file"}
WorkerStates ==
  [at : {"off", "ready", "taken", "open", "copy"}, file : Paths \cup {Root}, to : Sides,
   time : Nat, read : Nodes \cup {"none"}, stale : BOOLEAN]

\* The types the steps below rely on.
Typed ==
  /\ tree \in [Sides -> [Paths -> Nodes]]
  /\ stamp \in [Sides -> [Paths -> Nat]] /\ now \in Nat
  /\ edits \in Nat /\ to \in Sides
  /\ plan \in [Paths -> PlanEntries] /\ later \in [Paths -> PlanEntries]
  /\ planStamp \in [Paths -> Nat] /\ laterStamp \in [Paths -> Nat]
  /\ queue \subseteq Paths
  /\ worker \in [Workers -> WorkerStates]

\* What each loop of ApplyPlan still has to do comes from the plan.
LoopsFollowPlan ==
  /\ phase = "ensure" => queue \subseteq Directories(plan)
  /\ phase \in {"check", "copy"} => queue \subseteq Files(plan)
  /\ todo \subseteq Files(plan) /\ (todo # {} => phase = "check")
  /\ phase = "delete" => queue \cap Protected = {} /\ (queue # {} => delete)

\* So does what a worker of this cycle has in hand; one of an earlier cycle is
\* past the point where it removes anything.
WorkersFollowPlan ==
  \A w \in Workers :
    /\ worker[w].stale => worker[w].at \in {"open", "copy"}
    /\ worker[w].at \in {"taken", "open", "copy"} => worker[w].file \in Paths
    /\ worker[w].at # "off" /\ ~worker[w].stale => phase = "copy" /\ worker[w].to = to
    /\ worker[w].at \in {"taken", "open", "copy"} /\ ~worker[w].stale =>
         worker[w].file \in Files(plan)

\* Under --dry-run no worker gets as far as opening files.
DryWorkers == dry => \A w \in Workers : worker[w].at \notin {"open", "copy"}

SyncInv == Typed /\ LoopsFollowPlan /\ WorkersFollowPlan /\ DryWorkers

-------------------------------------------------------------------------------
\* The first and the last of a set of paths are members of it.
LEMMA FirstLast ==
  ASSUME NEW S \in SUBSET Paths, S # {}
  PROVE  First(S) \in S /\ Last(S) \in S
  BY SyncAssumption DEF First, Last

\* Trees stay trees of nodes under the operations of the file systems.
LEMMA TreeOps ==
  ASSUME NEW t \in [Paths -> Nodes], NEW p \in Paths, NEW dirs \in SUBSET Paths
  PROVE  /\ Without(t, p) \in [Paths -> Nodes]
         /\ WithDirs(t, dirs) \in [Paths -> Nodes]
         /\ [WithDirs(t, dirs) EXCEPT ![p] = "part"] \in [Paths -> Nodes]
  BY DEF Without, WithDirs, Nodes

\* Becomes touches one side and keeps the types.
LEMMA BecomesTyped ==
  ASSUME Typed, NEW s \in Sides, NEW t \in [Paths -> Nodes], Becomes(s, t)
  PROVE  /\ tree' \in [Sides -> [Paths -> Nodes]]
         /\ stamp' \in [Sides -> [Paths -> Nat]]
         /\ tree'[s] = t
         /\ tree'[Other(s)] = tree[Other(s)]
<1>1. Retimed(s, t) \in [Paths -> Nat]
  BY DEF Typed, Retimed, Sides
<1>2. stamp' = [stamp EXCEPT ![s] = Retimed(s, t)] /\ tree' = [tree EXCEPT ![s] = t]
  BY DEF Becomes
<1>3. QED
  BY <1>1, <1>2 DEF Typed, Sides, Other

\* Written puts a file where a file is.
LEMMA WrittenTyped ==
  ASSUME Typed, NEW w \in Workers, worker[w].file \in Paths, NEW node \in Nodes, IsFile(node), NEW time \in Nat,
         Written(w, node, time)
  PROVE  /\ tree' \in [Sides -> [Paths -> Nodes]]
         /\ stamp' \in [Sides -> [Paths -> Nat]]
         /\ tree'[Other(worker[w].to)] = tree[Other(worker[w].to)]
         /\ \A s \in Sides, p \in Paths : tree'[s][p] = "absent" <=> tree[s][p] = "absent"
<1>. DEFINE p == worker[w].file
<1>. DEFINE s == worker[w].to
<1>1. p \in Paths /\ s \in Sides
  BY DEF Typed, WorkerStates
<1>2. CASE IsFile(tree[s][p])
  <2>1. /\ tree' = [tree EXCEPT ![s][p] = node]
        /\ stamp' = [stamp EXCEPT ![s][p] = time]
    BY <1>2 DEF Written
  <2>2. node # "absent" /\ tree[s][p] # "absent"
    BY <1>2, SyncAssumption DEF IsFile
  <2>3. QED
    BY <1>1, <2>1, <2>2 DEF Typed, Sides, Other
<1>3. CASE ~IsFile(tree[s][p])
  <2>1. UNCHANGED treeVars
    BY <1>3 DEF Written
  <2>2. QED
    BY <2>1 DEF Typed, treeVars
<1>4. QED
  BY <1>2, <1>3

-------------------------------------------------------------------------------
\* A plan made by Scan has the types of a plan.
LEMMA PlanTyped ==
  ASSUME Typed, NEW s \in Sides
  PROVE  PlanOf(s) \in [Paths -> PlanEntries]
  BY SyncAssumption DEF Typed, PlanOf, Entry, PlanEntries, Nodes

\* Return leaves nothing to do and no worker of the cycle.
LEMMA ReturnKeeps ==
  ASSUME SyncInv, NEW r, Return(r), UNCHANGED treeVars, UNCHANGED userVars
  PROVE  SyncInv'
<1>1. Typed'
  <2>1. worker' \in [Workers -> WorkerStates]
    <3>1. Off \in WorkerStates
      BY DEF Off, WorkerStates, Sides
    <3>2. \A w \in Workers : [worker[w] EXCEPT !.stale = TRUE] \in WorkerStates
      BY DEF SyncInv, Typed, WorkerStates
    <3>3. QED
      BY <3>1, <3>2 DEF Return
  <2>2. QED
    BY <2>1 DEF SyncInv, Typed, Return, treeVars, userVars, Sides, NoPlan, NoStamps,
                PlanEntries
<1>2. LoopsFollowPlan'
  BY DEF Return, LoopsFollowPlan
<1>3. WorkersFollowPlan'
  BY DEF SyncInv, Typed, WorkersFollowPlan, Return, WorkerStates, Off
<1>4. DryWorkers'
  BY DEF SyncInv, Typed, DryWorkers, Return, userVars, WorkerStates, Off
<1>5. QED
  BY <1>1, <1>2, <1>3, <1>4 DEF SyncInv

-------------------------------------------------------------------------------
\* The invariant holds at first and is kept by every step.
LEMMA SyncInvInit == Init => SyncInv
<1> SUFFICES ASSUME Init PROVE SyncInv
  OBVIOUS
<1>1. tree \in [Sides -> [Paths -> Nodes]]
  BY SyncAssumption DEF Init, Sides, Nodes, Trees
<1>2. stamp \in [Sides -> [Paths -> Nat]]
  <2>1. stamp \in [Sides -> [Paths -> Stamps]] /\ Stamps \subseteq Nat
    BY SyncAssumption DEF Init
  <2>2. QED
    BY <2>1
<1>3. worker \in [Workers -> WorkerStates]
  BY DEF Init, WorkerStates, Off, Sides
<1>4. Typed
  BY <1>1, <1>2, <1>3 DEF Init, Typed, Sides, NoPlan, NoStamps, PlanEntries
<1>5. LoopsFollowPlan /\ WorkersFollowPlan /\ DryWorkers
  BY DEF Init, LoopsFollowPlan, WorkersFollowPlan, DryWorkers, Off
<1>6. QED
  BY <1>4, <1>5 DEF SyncInv

\* The main goroutine's steps keep it.
LEMMA MainKeeps == SyncInv /\ (MainStep \/ Fails) => SyncInv'
<1> SUFFICES ASSUME SyncInv, MainStep \/ Fails PROVE SyncInv'
  OBVIOUS
<1>. USE DEF SyncInv
<1>1. CASE Scan
  <2>1. Typed'
    <3>1. PlanOf("left") \in [Paths -> PlanEntries] /\ PlanOf("right") \in [Paths -> PlanEntries]
      BY PlanTyped DEF Sides
    <3>2. QED
      BY <1>1, <3>1 DEF Typed, Scan, treeVars, poolVars, Sides, Directories
  <2>2. LoopsFollowPlan'
    BY <1>1 DEF LoopsFollowPlan, Scan, Goto, Directories, poolVars, Files
  <2>3. WorkersFollowPlan'
    BY <1>1 DEF WorkersFollowPlan, Scan, Goto, poolVars
  <2>4. DryWorkers'
    BY <1>1 DEF DryWorkers, Scan, poolVars
  <2>5. QED
    BY <2>1, <2>2, <2>3, <2>4
<1>2. CASE EnsureDirectory
  <2>. DEFINE p == First(queue)
  <2>. DEFINE t == EnsureCleared(p)
  <2>1. p \in queue /\ p \in Paths
    BY <1>2, FirstLast DEF Typed, EnsureDirectory
  <2>2. CASE MkdirFails(t, Ancestors[p])
    <3>1. Return("error") /\ UNCHANGED treeVars /\ UNCHANGED userVars
      BY <1>2, <2>2 DEF EnsureDirectory
    <3>2. QED
      BY <3>1, ReturnKeeps
  <2>3. CASE ~MkdirFails(t, Ancestors[p])
    <3>. DEFINE u == WithDirs(t, Ancestors[p] \cup {p})
    <3>1. /\ queue' = queue \ {p}
          /\ UNCHANGED <<phase, planVars, todo, poolVars>> /\ UNCHANGED userVars
          /\ (UNCHANGED treeVars) \/ Becomes(to, u)
      BY <1>2, <2>3 DEF EnsureDirectory
    <3>2. tree' \in [Sides -> [Paths -> Nodes]] /\ stamp' \in [Sides -> [Paths -> Nat]]
      <4>1. Ancestors[p] \cup {p} \in SUBSET Paths
        BY <2>1, SyncAssumption
      <4>2. tree[to] \in [Paths -> Nodes]
        BY DEF Typed
      <4>3. t \in [Paths -> Nodes]
        BY <2>1, <4>2, TreeOps DEF EnsureCleared
      <4>4. u \in [Paths -> Nodes]
        BY <2>1, <4>1, <4>3, TreeOps
      <4>5. CASE Becomes(to, u)
        BY <4>4, <4>5, BecomesTyped DEF Typed
      <4>6. CASE UNCHANGED treeVars
        BY <4>6 DEF Typed, treeVars
      <4>7. QED
        BY <3>1, <4>5, <4>6
    <3>3. Typed'
      BY <3>1, <3>2 DEF Typed, planVars, poolVars, userVars
    <3>4. phase = "ensure"
      BY <1>2 DEF EnsureDirectory
    <3>5. LoopsFollowPlan'
      BY <3>1, <3>4 DEF LoopsFollowPlan, planVars
    <3>6. WorkersFollowPlan'
      BY <3>1 DEF WorkersFollowPlan, planVars, poolVars
    <3>7. DryWorkers'
      BY <3>1 DEF DryWorkers, poolVars, userVars
    <3>8. QED
      BY <3>3, <3>5, <3>6, <3>7
  <2>4. QED
    BY <2>2, <2>3
<1>3. CASE DirectoriesEnsured
  <2>1. Typed'
    BY <1>3 DEF Typed, DirectoriesEnsured, treeVars, planVars, poolVars, userVars, Goto, Files
  <2>2. LoopsFollowPlan'
    BY <1>3 DEF Typed, LoopsFollowPlan, Protected, DirectoriesEnsured, treeVars, planVars, poolVars, userVars, Goto, Files
  <2>3. WorkersFollowPlan'
    BY <1>3 DEF WorkersFollowPlan, DirectoriesEnsured, treeVars, planVars, poolVars, userVars, Goto, Files
  <2>4. DryWorkers'
    BY <1>3 DEF DryWorkers, DirectoriesEnsured, treeVars, planVars, poolVars, userVars, Goto, Files
  <2>5. QED
    BY <2>1, <2>2, <2>3, <2>4
<1>4. CASE FileNeedsCopy
  <2>1. CASE CheckFails(First(queue))
    <3>1. Return("error") /\ UNCHANGED treeVars /\ UNCHANGED userVars
      BY <1>4, <2>1 DEF FileNeedsCopy
    <3>2. QED
      BY <3>1, ReturnKeeps
  <2>2. CASE ~CheckFails(First(queue))
    <3>1. First(queue) \in queue
      BY <1>4, FirstLast DEF Typed, FileNeedsCopy
    <3>2. /\ phase = "check" /\ queue' = queue \ {First(queue)}
          /\ todo' \subseteq todo \cup {First(queue)}
          /\ UNCHANGED <<treeVars, phase, planVars, poolVars, userVars>>
      BY <1>4, <2>2 DEF FileNeedsCopy
    <3>3. Typed'
      BY <3>2 DEF Typed, treeVars, planVars, poolVars, userVars
    <3>4. LoopsFollowPlan'
      BY <3>1, <3>2 DEF LoopsFollowPlan, planVars
    <3>5. WorkersFollowPlan'
      BY <3>2 DEF WorkersFollowPlan, planVars, poolVars
    <3>6. DryWorkers'
      BY <3>2 DEF DryWorkers, poolVars, userVars
    <3>7. QED
      BY <3>3, <3>4, <3>5, <3>6
  <2>3. QED
    BY <2>1, <2>2
<1>5. CASE NothingToCopy
  <2>1. Typed'
    BY <1>5 DEF Typed, NothingToCopy, treeVars, planVars, poolVars, userVars, Goto
  <2>2. LoopsFollowPlan'
    BY <1>5 DEF Typed, LoopsFollowPlan, Protected, NothingToCopy, treeVars, planVars, poolVars, userVars, Goto
  <2>3. WorkersFollowPlan'
    BY <1>5 DEF WorkersFollowPlan, NothingToCopy, treeVars, planVars, poolVars, userVars, Goto
  <2>4. DryWorkers'
    BY <1>5 DEF DryWorkers, NothingToCopy, treeVars, planVars, poolVars, userVars, Goto
  <2>5. QED
    BY <2>1, <2>2, <2>3, <2>4
<1>6. CASE StartPool
  <2>1. Typed'
    <3>1. Idle \subseteq Workers /\ [Off EXCEPT !.at = "ready", !.to = to] \in WorkerStates
      BY DEF Typed, Idle, Off, WorkerStates, Sides
    <3>2. worker' \in [Workers -> WorkerStates]
      BY <1>6, <3>1 DEF Typed, StartPool
    <3>3. QED
      BY <1>6, <3>2, SyncAssumption DEF Typed, LoopsFollowPlan, Files, StartPool, treeVars,
                                       planVars, userVars
  <2>2. LoopsFollowPlan'
    BY <1>6 DEF LoopsFollowPlan, StartPool, Goto, planVars
  <2>3. WorkersFollowPlan'
    BY <1>6 DEF Typed, WorkersFollowPlan, StartPool, Goto, planVars, Idle, Off
  <2>4. DryWorkers'
    BY <1>6 DEF Typed, DryWorkers, StartPool, Idle, Off, userVars
  <2>5. QED
    BY <2>1, <2>2, <2>3, <2>4
<1>7. CASE CopyFailed
  BY <1>7, ReturnKeeps DEF CopyFailed
<1>8. CASE CopiesDone
  <2>1. Typed'
    BY <1>8 DEF Typed, CopiesDone, treeVars, planVars, userVars
  <2>2. LoopsFollowPlan'
    BY <1>8 DEF LoopsFollowPlan, CopiesDone, Goto, planVars
  <2>3. WorkersFollowPlan'
    BY <1>8 DEF WorkersFollowPlan, CopiesDone, PoolOver, Goto, planVars
  <2>4. DryWorkers'
    BY <1>8 DEF DryWorkers, CopiesDone, userVars
  <2>5. QED
    BY <2>1, <2>2, <2>3, <2>4
<1>9. CASE Sweep
  <2>1. Typed'
    BY <1>9 DEF Typed, Sweep, treeVars, planVars, poolVars, userVars, Goto
  <2>2. LoopsFollowPlan'
    BY <1>9 DEF Typed, LoopsFollowPlan, Protected, Sweep, treeVars, planVars, poolVars, userVars, Goto
  <2>3. WorkersFollowPlan'
    BY <1>9 DEF WorkersFollowPlan, Sweep, treeVars, planVars, poolVars, userVars, Goto
  <2>4. DryWorkers'
    BY <1>9 DEF DryWorkers, Sweep, treeVars, planVars, poolVars, userVars, Goto
  <2>5. QED
    BY <2>1, <2>2, <2>3, <2>4
<1>10. CASE DeletePath
  <2>1. Last(queue) \in Paths
    BY <1>10, FirstLast DEF Typed, DeletePath
  <2>2. tree' \in [Sides -> [Paths -> Nodes]] /\ stamp' \in [Sides -> [Paths -> Nat]]
    <3>1. Without(tree[to], Last(queue)) \in [Paths -> Nodes]
      BY <2>1, TreeOps DEF Typed
    <3>2. CASE dry
      BY <1>10, <3>2 DEF Typed, DeletePath, treeVars
    <3>3. CASE ~dry
      <4>1. Becomes(to, Without(tree[to], Last(queue)))
        BY <1>10, <3>3 DEF DeletePath
      <4>2. QED
        BY <3>1, <4>1, BecomesTyped DEF Typed
    <3>4. QED
      BY <3>2, <3>3
  <2>3. Typed'
    BY <1>10, <2>2 DEF Typed, DeletePath, planVars, poolVars, userVars
  <2>4. LoopsFollowPlan'
    BY <1>10 DEF LoopsFollowPlan, Protected, DeletePath, planVars, userVars
  <2>5. WorkersFollowPlan'
    BY <1>10 DEF WorkersFollowPlan, DeletePath, planVars, poolVars
  <2>6. DryWorkers'
    BY <1>10 DEF DryWorkers, DeletePath, poolVars, userVars
  <2>7. QED
    BY <2>3, <2>4, <2>5, <2>6
<1>11. CASE SecondPlan
  <2>1. Typed'
    BY <1>11 DEF Typed, SecondPlan, treeVars, poolVars, userVars, Directories, NoPlan, NoStamps,
                 PlanEntries, Sides
  <2>2. LoopsFollowPlan'
    BY <1>11 DEF LoopsFollowPlan, SecondPlan, Goto
  <2>3. WorkersFollowPlan'
    BY <1>11 DEF WorkersFollowPlan, SecondPlan, Goto, poolVars
  <2>4. DryWorkers'
    BY <1>11 DEF DryWorkers, SecondPlan, poolVars, userVars
  <2>5. QED
    BY <2>1, <2>2, <2>3, <2>4
<1>12. CASE CycleDone
  BY <1>12, ReturnKeeps DEF CycleDone
<1>13. CASE Fails
  BY <1>13, ReturnKeeps DEF Fails
<1>14. QED
  BY <1>1, <1>2, <1>3, <1>4, <1>5, <1>6, <1>7, <1>8, <1>9, <1>10, <1>11, <1>12, <1>13
  DEF MainStep

\* A worker that goes on with its file, takes the next or leaves keeps to it.
LEMMA WorkerMoves ==
  ASSUME SyncInv, NEW w \in Workers, NEW r \in WorkerStates,
         worker' = [worker EXCEPT ![w] = r],
         UNCHANGED <<phase, planVars, userVars>>,
         worker[w].at \in {"ready", "taken", "open", "copy"},
         \/ r.at = "off" /\ ~r.stale
         \/ r.at = "ready" /\ ~r.stale /\ ~worker[w].stale /\ r.to = worker[w].to
         \/ /\ ~dry /\ r.at \in {"open", "copy"} /\ worker[w].at \in {"taken", "open"}
            /\ r.file = worker[w].file /\ r.to = worker[w].to /\ r.stale = worker[w].stale
  PROVE  worker' \in [Workers -> WorkerStates] /\ WorkersFollowPlan' /\ DryWorkers'
<1>1. worker \in [Workers -> WorkerStates]
  BY DEF SyncInv, Typed
<1>2. worker'[w] = r /\ \A v \in Workers : v # w => worker'[v] = worker[v]
  BY <1>1
<1>3. phase' = phase /\ to' = to /\ plan' = plan /\ dry' = dry
  BY DEF planVars, userVars
<1>4. WorkersFollowPlan'
  BY <1>2, <1>3 DEF SyncInv, WorkersFollowPlan, Files
<1>5. DryWorkers'
  BY <1>2, <1>3 DEF SyncInv, DryWorkers
<1>6. QED
  BY <1>1, <1>4, <1>5

\* The records Off and NextFile put are worker states.
LEMMA OffAndReady ==
  ASSUME NEW s \in Sides
  PROVE  /\ Off \in WorkerStates /\ Off.at = "off" /\ ~Off.stale
         /\ [Off EXCEPT !.at = "ready", !.to = s] \in WorkerStates
         /\ [Off EXCEPT !.at = "ready", !.to = s].at = "ready"
         /\ [Off EXCEPT !.at = "ready", !.to = s].to = s
         /\ ~[Off EXCEPT !.at = "ready", !.to = s].stale
  BY DEF Off, WorkerStates, Sides

\* So do the workers' steps.
LEMMA WorkerKeeps ==
  ASSUME SyncInv, NEW w \in Workers, WorkerStep(w)
  PROVE  SyncInv'
<1>. USE DEF SyncInv
<1>. DEFINE p == worker[w].file
<1>. DEFINE s == worker[w].to
<1>1. s \in Sides /\ Other(s) \in Sides /\ worker[w] \in WorkerStates
  BY DEF Typed, WorkerStates, Sides, Other
<1>2. CASE NoMoreTasks(w)
  <2>1. worker' = [worker EXCEPT ![w] = Off] /\ UNCHANGED <<treeVars, planVars, userVars>>
        /\ UNCHANGED <<phase, queue, todo>>
    BY <1>2 DEF NoMoreTasks, WorkerOff
  <2>2. Typed'
    BY <2>1 DEF Typed, treeVars, planVars, userVars, Off, WorkerStates, Sides
  <2>3. LoopsFollowPlan'
    BY <2>1 DEF LoopsFollowPlan, Protected, planVars, userVars
  <2>4. WorkersFollowPlan' /\ DryWorkers'
    BY <2>1 DEF Typed, WorkersFollowPlan, DryWorkers, planVars, userVars, Off
  <2>5. QED
    BY <2>2, <2>3, <2>4
<1>3. CASE BeginCopy(w)
  <2>1. /\ worker[w].at = "taken" /\ p \in Paths
        /\ UNCHANGED <<phase, queue, todo>> /\ UNCHANGED <<planVars, userVars>>
    BY <1>3 DEF WorkersFollowPlan, BeginCopy
  <2>2. tree' \in [Sides -> [Paths -> Nodes]] /\ stamp' \in [Sides -> [Paths -> Nat]]
    <3>1. Without(tree[s], p) \in [Paths -> Nodes]
      BY <1>1, <2>1, TreeOps DEF Typed
    <3>2. UNCHANGED treeVars \/ Becomes(s, Without(tree[s], p))
      BY <1>3 DEF BeginCopy
    <3>3. QED
      BY <1>1, <3>1, <3>2, BecomesTyped DEF Typed, treeVars
  <2>3. \/ worker' = [worker EXCEPT ![w] = Off]
        \/ worker' = [worker EXCEPT ![w] = [Off EXCEPT !.at = "ready", !.to = worker[w].to]]
        \/ ~dry /\ worker' = [worker EXCEPT ![w].at = "open"]
    BY <1>3 DEF BeginCopy, WorkerOff, NextFile, WorkerGoto
  <2>4. worker' \in [Workers -> WorkerStates] /\ WorkersFollowPlan' /\ DryWorkers'
    <3>1. ~worker[w].stale
      BY <2>1 DEF WorkersFollowPlan
    <3>2. CASE worker' = [worker EXCEPT ![w] = Off]
      BY <1>1, <2>1, <3>2, OffAndReady, WorkerMoves
    <3>3. CASE worker' = [worker EXCEPT ![w] = [Off EXCEPT !.at = "ready", !.to = worker[w].to]]
      BY <1>1, <2>1, <3>1, <3>3, OffAndReady, WorkerMoves
    <3>4. CASE ~dry /\ worker' = [worker EXCEPT ![w].at = "open"]
      <4>. DEFINE r == [worker[w] EXCEPT !.at = "open"]
      <4>1. /\ r \in WorkerStates /\ r.at = "open" /\ r.file = worker[w].file
            /\ r.to = worker[w].to /\ r.stale = worker[w].stale
        BY <1>1 DEF WorkerStates
      <4>2. worker' = [worker EXCEPT ![w] = r]
        BY <3>4 DEF Typed
      <4>3. QED
        BY <2>1, <3>4, <4>1, <4>2, WorkerMoves
    <3>5. QED
      BY <2>3, <3>2, <3>3, <3>4
  <2>5. Typed'
    BY <2>1, <2>2, <2>4 DEF Typed, planVars, userVars
  <2>6. LoopsFollowPlan'
    BY <2>1 DEF LoopsFollowPlan, Protected, planVars, userVars
  <2>7. WorkersFollowPlan' /\ DryWorkers'
    BY <2>4
  <2>8. QED
    BY <2>5, <2>6, <2>7
<1>4. CASE OpenFiles(w)
  <2>. DEFINE t == WithDirs(tree[s], Ancestors[p])
  <2>1. /\ worker[w].at = "open" /\ p \in Paths /\ ~dry
        /\ UNCHANGED <<phase, queue, todo>> /\ UNCHANGED <<planVars, userVars>>
    BY <1>4 DEF WorkersFollowPlan, DryWorkers, OpenFiles
  <2>2. /\ \/ UNCHANGED treeVars
           \/ Becomes(s, t)
           \/ Becomes(s, [t EXCEPT ![p] = "part"])
        /\ \/ worker' = [worker EXCEPT ![w] = Off]
           \/ worker' = [worker EXCEPT ![w].at = "copy", ![w].read = tree[Other(s)][p]]
    BY <1>4 DEF OpenFiles, WorkerFails, WorkerOff
  <2>3. tree' \in [Sides -> [Paths -> Nodes]] /\ stamp' \in [Sides -> [Paths -> Nat]]
    <3>1. Ancestors[p] \in SUBSET Paths /\ tree[s] \in [Paths -> Nodes]
      BY <1>1, <2>1, SyncAssumption DEF Typed
    <3>2. t \in [Paths -> Nodes] /\ [t EXCEPT ![p] = "part"] \in [Paths -> Nodes]
      BY <2>1, <3>1, TreeOps
    <3>3. QED
      BY <1>1, <2>2, <3>2, BecomesTyped DEF Typed, treeVars
  <2>4. worker' \in [Workers -> WorkerStates] /\ WorkersFollowPlan' /\ DryWorkers'
    <3>1. CASE worker' = [worker EXCEPT ![w] = Off]
      BY <1>1, <2>1, <3>1, OffAndReady, WorkerMoves
    <3>2. CASE worker' = [worker EXCEPT ![w].at = "copy", ![w].read = tree[Other(s)][p]]
      <4>. DEFINE r == [worker[w] EXCEPT !.at = "copy", !.read = tree[Other(s)][p]]
      <4>1. tree[Other(s)][p] \in Nodes
        BY <1>1, <2>1 DEF Typed
      <4>2. /\ r \in WorkerStates /\ r.at = "copy" /\ r.file = worker[w].file
            /\ r.to = worker[w].to /\ r.stale = worker[w].stale
        BY <1>1, <4>1 DEF WorkerStates
      <4>3. worker' = [worker EXCEPT ![w] = r]
        BY <3>2 DEF Typed
      <4>4. QED
        BY <2>1, <4>2, <4>3, WorkerMoves
    <3>3. QED
      BY <2>2, <3>1, <3>2
  <2>5. Typed'
    BY <2>1, <2>3, <2>4 DEF Typed, planVars, userVars
  <2>6. LoopsFollowPlan'
    BY <2>1 DEF LoopsFollowPlan, Protected, planVars, userVars
  <2>7. WorkersFollowPlan' /\ DryWorkers'
    BY <2>4
  <2>8. QED
    BY <2>5, <2>6, <2>7
<1>5. CASE CopyFile(w) \/ CutCopy(w)
  <2>1. /\ worker[w].at = "copy" /\ p \in Paths /\ ~dry
        /\ UNCHANGED <<phase, queue, todo>> /\ UNCHANGED <<planVars, userVars>>
    BY <1>5 DEF WorkersFollowPlan, DryWorkers, CopyFile, CutCopy
  <2>2. /\ \/ UNCHANGED treeVars
           \/ \E node \in Nodes : IsFile(node) /\ Written(w, node, worker[w].time)
        /\ \/ worker' = [worker EXCEPT ![w] = Off]
           \/ /\ ~worker[w].stale
              /\ worker' = [worker EXCEPT ![w] =
                              [Off EXCEPT !.at = "ready", !.to = worker[w].to]]
    <3>1. CASE CopyFile(w)
      BY <3>1 DEF CopyFile, NextFile, IsFile, Nodes
    <3>2. CASE CutCopy(w)
      <4>1. IsFile("part") /\ "part" \in Nodes
        BY DEF IsFile, Nodes
      <4>2. QED
        BY <3>2, <4>1 DEF CutCopy, NextFile, WorkerOff
    <3>3. QED
      BY <1>5, <3>1, <3>2
  <2>3. tree' \in [Sides -> [Paths -> Nodes]] /\ stamp' \in [Sides -> [Paths -> Nat]]
    <3>1. worker[w].time \in Nat
      BY <1>1 DEF WorkerStates
    <3>2. QED
      BY <2>1, <2>2, <3>1, WrittenTyped DEF Typed, treeVars
  <2>4. worker' \in [Workers -> WorkerStates] /\ WorkersFollowPlan' /\ DryWorkers'
    BY <1>1, <2>1, <2>2, OffAndReady, WorkerMoves
  <2>5. Typed'
    BY <2>1, <2>3, <2>4 DEF Typed, planVars, userVars
  <2>6. LoopsFollowPlan'
    BY <2>1 DEF LoopsFollowPlan, Protected, planVars, userVars
  <2>7. WorkersFollowPlan' /\ DryWorkers'
    BY <2>4
  <2>8. QED
    BY <2>5, <2>6, <2>7
<1>6. QED
  BY <1>2, <1>3, <1>4, <1>5 DEF WorkerStep

\* And those of the feeder, the signal and the user.
LEMMA OthersKeep ==
  SyncInv /\ (Feeder \/ Stop \/ Interrupt \/ \E s \in Sides, p \in Paths : Edit(s, p)) => SyncInv'
<1> SUFFICES ASSUME SyncInv,
                    Feeder \/ Stop \/ Interrupt \/ \E s \in Sides, p \in Paths : Edit(s, p)
             PROVE  SyncInv'
  OBVIOUS
<1>. USE DEF SyncInv
<1>1. CASE CloseTasks
  <2>1. Typed' /\ LoopsFollowPlan'
    BY <1>1 DEF Typed, LoopsFollowPlan, CloseTasks, treeVars, planVars, userVars
  <2>2. WorkersFollowPlan' /\ DryWorkers'
    BY <1>1 DEF WorkersFollowPlan, DryWorkers, CloseTasks, planVars, userVars
  <2>3. QED
    BY <2>1, <2>2
<1>2. ASSUME NEW w \in Workers, Feed(w) PROVE SyncInv'
  <2>. DEFINE f == First(queue)
  <2>1. f \in queue /\ f \in Paths /\ f \in Files(plan)
    BY <1>2, FirstLast DEF Typed, LoopsFollowPlan, Feed
  <2>. DEFINE r == [worker[w] EXCEPT !.at = "taken", !.file = f, !.time = planStamp[f]]
  <2>2. /\ worker' = [worker EXCEPT ![w] = r]
        /\ queue' = queue \ {f} /\ phase = "copy" /\ worker[w].at = "ready"
        /\ UNCHANGED <<phase, todo>> /\ UNCHANGED <<treeVars, planVars, userVars>>
    BY <1>2 DEF Typed, Feed
  <2>3. r \in WorkerStates
    BY <2>1 DEF Typed, WorkerStates
  <2>4. /\ worker'[w] = r /\ \A v \in Workers : v # w => worker'[v] = worker[v]
        /\ r.at = "taken" /\ r.file = f /\ r.to = worker[w].to /\ r.stale = worker[w].stale
    BY <2>2, <2>3 DEF Typed, WorkerStates
  <2>5. Typed'
    BY <2>2, <2>3 DEF Typed, treeVars, planVars, userVars
  <2>6. LoopsFollowPlan'
    BY <2>2 DEF LoopsFollowPlan, planVars
  <2>7. ~worker[w].stale
    BY <2>2 DEF WorkersFollowPlan
  <2>8. WorkersFollowPlan' /\ DryWorkers'
    BY <2>1, <2>2, <2>7, <2>4 DEF WorkersFollowPlan, DryWorkers, planVars, userVars, Files
  <2>9. QED
    BY <2>5, <2>6, <2>8
<1>3. CASE Stop
  <2>1. worker' \in [Workers -> WorkerStates]
    BY <1>3 DEF Stop, Off, WorkerStates, Sides
  <2>2. Typed'
    BY <1>3, <2>1 DEF Typed, Stop, treeVars, planVars, userVars
  <2>3. LoopsFollowPlan'
    BY <1>3 DEF LoopsFollowPlan, Stop, Goto, planVars
  <2>4. WorkersFollowPlan' /\ DryWorkers'
    BY <1>3 DEF WorkersFollowPlan, DryWorkers, Stop, Off, userVars
  <2>5. QED
    BY <2>2, <2>3, <2>4
<1>4. CASE Interrupt
  <2>1. Typed' /\ LoopsFollowPlan'
    BY <1>4 DEF Typed, LoopsFollowPlan, Protected, Interrupt, treeVars, planVars, poolVars
  <2>2. WorkersFollowPlan' /\ DryWorkers'
    BY <1>4 DEF WorkersFollowPlan, DryWorkers, Interrupt, planVars, poolVars
  <2>3. QED
    BY <2>1, <2>2
<1>5. ASSUME NEW s \in Sides, NEW p \in Paths, Edit(s, p) PROVE SyncInv'
  <2>1. /\ \E node \in Nodes : tree' = [tree EXCEPT ![s][p] = node]
        /\ stamp' = [stamp EXCEPT ![s][p] = now] \/ stamp' = stamp
        /\ now' = now + 1 \/ now' = now
        /\ edits' = edits + 1
        /\ UNCHANGED <<delete, dry, phase, queue, todo>> /\ UNCHANGED <<planVars, poolVars>>
    BY <1>5 DEF Edit, Nodes
  <2>2. Typed'
    <3>1. tree' \in [Sides -> [Paths -> Nodes]]
      BY <2>1 DEF Typed
    <3>2. stamp' \in [Sides -> [Paths -> Nat]]
      <4>1. [stamp EXCEPT ![s][p] = now] \in [Sides -> [Paths -> Nat]]
        BY DEF Typed
      <4>2. QED
        BY <2>1, <4>1 DEF Typed
    <3>3. now' \in Nat
      BY <2>1 DEF Typed
    <3>4. QED
      BY <2>1, <3>1, <3>2, <3>3 DEF Typed, planVars, poolVars
  <2>3. LoopsFollowPlan'
    BY <2>1 DEF LoopsFollowPlan, Protected, planVars
  <2>4. WorkersFollowPlan' /\ DryWorkers'
    BY <2>1 DEF WorkersFollowPlan, DryWorkers, planVars, poolVars
  <2>5. QED
    BY <2>2, <2>3, <2>4
<1>6. QED
  BY <1>1, <1>2, <1>3, <1>4, <1>5 DEF Feeder

\* The plan rules every loop and every worker, in every reachable state.
THEOREM PlanRules == Spec => []SyncInv
<1>1. SyncInv /\ UNCHANGED vars => SyncInv'
  BY DEF SyncInv, Typed, LoopsFollowPlan, WorkersFollowPlan, DryWorkers, Protected, vars,
         treeVars, userVars, planVars, poolVars
<1>2. SyncInv /\ [Next]_vars => SyncInv'
  BY <1>1, MainKeeps, WorkerKeeps, OthersKeep DEF Next, Terminated
<1>3. QED
  BY <1>2, SyncInvInit, PTL DEF Spec

-------------------------------------------------------------------------------
\* A removal below p on the side ApplyPlan writes: who may have asked for it?
LEMMA BelowProtected ==
  ASSUME NEW p \in Paths, NEW q \in Paths, p \in Ancestors[q] \cup {q}, p \notin Protected
  PROVE  q \notin Protected
<1>1. SUFFICES ASSUME q \in Protected PROVE FALSE
  OBVIOUS
<1>2. PICK r \in Paths : plan[r] # "none" /\ q \in Ancestors[r] \cup {r}
  BY <1>1 DEF Protected
<1>3. p \in Ancestors[r] \cup {r}
  BY <1>2, SyncAssumption
<1>4. p \in Protected
  BY <1>2, <1>3 DEF Protected
<1>5. QED
  BY <1>4

\* Steps that only decide what to do next leave the trees alone.
QuietStep ==
  \/ Scan \/ DirectoriesEnsured \/ FileNeedsCopy \/ NothingToCopy \/ StartPool \/ CopyFailed
  \/ CopiesDone \/ Sweep \/ SecondPlan \/ CycleDone \/ Fails \/ Stop \/ Interrupt \/ Terminated
  \/ CloseTasks \/ \E w \in Workers : Feed(w) \/ NoMoreTasks(w)

\* No such step touches a tree.
LEMMA QuietSteps == QuietStep => UNCHANGED treeVars
<1>1. Scan \/ DirectoriesEnsured \/ NothingToCopy \/ StartPool \/ CopyFailed => UNCHANGED treeVars
  BY DEF Scan, DirectoriesEnsured, NothingToCopy, StartPool, CopyFailed
<1>2. CopiesDone \/ Sweep \/ SecondPlan \/ CycleDone \/ Fails => UNCHANGED treeVars
  BY DEF CopiesDone, Sweep, SecondPlan, CycleDone, Fails
<1>3. Stop \/ Interrupt \/ Terminated \/ CloseTasks => UNCHANGED treeVars
  BY DEF Stop, Interrupt, Terminated, CloseTasks, vars
<1>4. FileNeedsCopy => UNCHANGED treeVars
  BY DEF FileNeedsCopy
<1>5. ASSUME NEW w \in Workers PROVE Feed(w) \/ NoMoreTasks(w) => UNCHANGED treeVars
  BY DEF Feed, NoMoreTasks
<1>6. QED
  BY <1>1, <1>2, <1>3, <1>4, <1>5 DEF QuietStep

\* What a step removes from the side it writes was in the way, or extra.
LEMMA RemovalsJustified ==
  ASSUME SyncInv, Next,
         NEW p \in Paths, tree["right"][p] # "absent", tree'["right"][p] = "absent"
  PROVE  edits' # edits \/ (p \notin Protected /\ delete) \/ InTheWay(p)
<1>. USE DEF SyncInv
<1>0. "right" \in Sides /\ Other("right") = "left" /\ Other("left") = "right"
  BY DEF Sides, Other
<1>1. UNCHANGED treeVars => FALSE
  BY DEF treeVars
<1>2. CASE EnsureDirectory
  <2>. DEFINE d == First(queue)
  <2>1. d \in queue /\ d \in Paths /\ plan[d] = "dir"
    BY <1>2, FirstLast DEF Typed, LoopsFollowPlan, EnsureDirectory, Directories
  <2>. DEFINE t == EnsureCleared(d)
  <2>. DEFINE dirs == Ancestors[d] \cup {d}
  <2>2. Becomes(to, WithDirs(t, dirs))
    BY <1>1, <1>2 DEF EnsureDirectory
  <2>3. tree' = [tree EXCEPT ![to] = WithDirs(t, dirs)]
    BY <2>2 DEF Becomes
  <2>4. to = "right" /\ WithDirs(t, dirs)[p] = "absent"
    BY <2>3 DEF Typed, Sides
  <2>5. t[p] = "absent"
    BY <2>4 DEF WithDirs
  <2>6. IsFile(tree[to][d]) /\ d \in Ancestors[p] \cup {p}
    BY <2>1, <2>4, <2>5 DEF EnsureCleared, Without
  <2>7. QED
    BY <2>1, <2>6 DEF InTheWay
<1>3. CASE DeletePath
  <2>. DEFINE d == Last(queue)
  <2>1. d \in queue /\ d \in Paths /\ d \notin Protected /\ delete
    BY <1>3, FirstLast DEF Typed, LoopsFollowPlan, DeletePath
  <2>2. Becomes(to, Without(tree[to], d))
    BY <1>1, <1>3 DEF DeletePath
  <2>3. tree' = [tree EXCEPT ![to] = Without(tree[to], d)]
    BY <2>2 DEF Becomes
  <2>4. to = "right" /\ Without(tree[to], d)[p] = "absent"
    BY <2>3 DEF Typed, Sides
  <2>5. d \in Ancestors[p] \cup {p}
    BY <2>4 DEF Without
  <2>6. QED
    BY <2>1, <2>5, BelowProtected
<1>4. ASSUME NEW w \in Workers, BeginCopy(w)
      PROVE  InTheWay(p)
  <2>. DEFINE f == worker[w].file
  <2>. DEFINE s == worker[w].to
  <2>1. f \in Files(plan) /\ s = to
    BY <1>4 DEF WorkersFollowPlan, BeginCopy
  <2>2. tree[s][f] = "dir" /\ tree' = [tree EXCEPT ![s] = Without(tree[s], f)]
    BY <1>1, <1>4 DEF BeginCopy, Becomes
  <2>3. to = "right" /\ Without(tree[to], f)[p] = "absent"
    BY <2>1, <2>2 DEF Typed, Sides
  <2>4. f \in Ancestors[p] \cup {p}
    BY <2>3 DEF Without
  <2>5. QED
    BY <2>1, <2>2, <2>4 DEF InTheWay, Files
<1>5. ASSUME NEW w \in Workers, OpenFiles(w)
      PROVE  FALSE
  <2>. DEFINE f == worker[w].file
  <2>. DEFINE s == worker[w].to
  <2>. DEFINE t == WithDirs(tree[s], Ancestors[f])
  <2>1. s \in Sides /\ f \in Paths
    BY <1>5 DEF Typed, WorkerStates, WorkersFollowPlan, OpenFiles
  <2>2. tree' = [tree EXCEPT ![s] = t] \/ tree' = [tree EXCEPT ![s] = [t EXCEPT ![f] = "part"]]
    BY <1>1, <1>5 DEF OpenFiles, Becomes
  <2>3. s = "right" /\ (t[p] = "absent" \/ [t EXCEPT ![f] = "part"][p] = "absent")
    BY <2>1, <2>2 DEF Typed, Sides
  <2>4. t[p] = "absent"
    BY <2>1, <2>3 DEF WithDirs
  <2>5. QED
    BY <2>3, <2>4 DEF WithDirs
<1>6. ASSUME NEW w \in Workers, CopyFile(w) \/ CutCopy(w)
      PROVE  FALSE
  <2>1. worker[w].file \in Paths /\ worker[w].time \in Nat
    BY <1>6 DEF Typed, WorkerStates, WorkersFollowPlan, CopyFile, CutCopy
  <2>2. \E node \in Nodes : IsFile(node) /\ Written(w, node, worker[w].time)
    <3>1. CASE CopyFile(w)
      BY <3>1 DEF CopyFile, IsFile, Nodes
    <3>2. CASE CutCopy(w)
      <4>1. IsFile("part") /\ "part" \in Nodes
        BY DEF IsFile, Nodes
      <4>2. QED
        BY <1>1, <3>2, <4>1 DEF CutCopy
    <3>3. QED
      BY <1>6, <3>1, <3>2
  <2>3. QED
    BY <1>0, <2>1, <2>2, WrittenTyped
<1>7. ASSUME NEW s \in Sides, NEW q \in Paths, Edit(s, q)
      PROVE  edits' # edits
  BY <1>7 DEF Typed, Edit
<1>8. QuietStep => FALSE
  BY <1>1, QuietSteps
<1>9. \/ QuietStep \/ EnsureDirectory \/ DeletePath
      \/ \E w \in Workers : BeginCopy(w) \/ OpenFiles(w) \/ CopyFile(w) \/ CutCopy(w)
      \/ \E s \in Sides, q \in Paths : Edit(s, q)
  BY DEF Next, MainStep, WorkerStep, Feeder, QuietStep
<1>10. QED
  BY <1>2, <1>3, <1>4, <1>5, <1>6, <1>7, <1>8, <1>9

\* The property OnlyExtrasGo: lssync removes from the destination only what is
\* in the way of the plan, or extra when --delete is given.  The plan's loops
\* and workers have to be tied to the plan for that (PlanRules).
THEOREM RemovesOnlyExtras == Spec => OnlyExtrasGo
<1> DEFINE Allowed ==
      \A p \in Paths : tree["right"][p] # "absent" /\ tree'["right"][p] = "absent" =>
        \/ edits' # edits
        \/ p \notin Protected /\ delete
        \/ InTheWay(p)
<1>1. SyncInv /\ Next => Allowed
  <2> SUFFICES ASSUME SyncInv, Next, NEW p \in Paths,
                      tree["right"][p] # "absent", tree'["right"][p] = "absent"
               PROVE  edits' # edits \/ (p \notin Protected /\ delete) \/ InTheWay(p)
    OBVIOUS
  <2>1. QED
    BY RemovalsJustified
<1>2. SyncInv /\ [Next]_vars => [Allowed]_vars
  <2> HIDE DEF Allowed
  <2>1. QED
    BY <1>1
<1>3. QED
  BY <1>2, PlanRules, PTL DEF Spec, OnlyExtrasGo

\* Under --dry-run a step leaves the destination alone, apart from the user's.
LEMMA DryStep ==
  ASSUME SyncInv, Next, dry
  PROVE  UNCHANGED treeVars \/ \E s \in Sides, p \in Paths : Edit(s, p)
<1>1. EnsureDirectory \/ DeletePath => UNCHANGED treeVars
  BY DEF EnsureDirectory, DeletePath
<1>2. ASSUME NEW w \in Workers
      PROVE  BeginCopy(w) \/ OpenFiles(w) \/ CopyFile(w) \/ CutCopy(w) => UNCHANGED treeVars
  <2>1. worker[w].at \notin {"open", "copy"}
    BY DEF SyncInv, DryWorkers
  <2>2. QED
    BY <2>1 DEF BeginCopy, OpenFiles, CopyFile, CutCopy
<1>3. QED
  BY <1>1, <1>2, QuietSteps DEF Next, MainStep, WorkerStep, Feeder, QuietStep

\* The property DryRunChangesNothing, when the user does not edit the
\* destination: neither ApplyPlan's loops nor any worker writes to it.
THEOREM DryRunIsHarmless ==
  ASSUME EditSides = {"left"}
  PROVE  Spec => DryRunChangesNothing
<1> DEFINE Same == dry => tree'["right"] = tree["right"]
<1>1. SyncInv /\ [Next]_vars => [Same]_vars
  <2> SUFFICES ASSUME SyncInv, Next, dry PROVE tree'["right"] = tree["right"]
    OBVIOUS
  <2>1. CASE UNCHANGED treeVars
    BY <2>1 DEF treeVars
  <2>2. ASSUME NEW s \in Sides, NEW p \in Paths, Edit(s, p)
        PROVE  tree'["right"] = tree["right"]
    <3>1. s = "left" /\ \E node : tree' = [tree EXCEPT ![s][p] = node]
      BY <2>2 DEF Edit
    <3>2. QED
      BY <3>1 DEF SyncInv, Typed, Sides
  <2>3. QED
    BY <2>1, <2>2, DryStep
<1>2. QED
  BY <1>1, PlanRules, PTL DEF Spec, DryRunChangesNothing

-------------------------------------------------------------------------------
(***************************************************************************)
(* One way, to a destination reached over SFTP: what a cycle has done so   *)
(* far, if nothing disturbed it.  The connection is closed with the cycle, *)
(* so that workers a failed cycle has left behind can write nothing.       *)
(***************************************************************************)
OneWay == ~Bidirectional /\ "right" \in Remote
Calm == ~(dry \/ interrupted \/ cut \/ edited)
Source == tree["left"]
Dest == tree["right"]

\* Files have directories above them, and those of the source are whole.
TreesSound ==
  /\ WellFormed(Source) /\ WellFormed(Dest)
  /\ \A p \in Paths : Source[p] # "part"

\* Everything is written to the destination.  The feeder hands out all files
\* unless an error is on the results channel, and no other error cancels.
PoolSound ==
  /\ to = "right" /\ \A w \in Workers : worker[w].to = "right"
  /\ phase = "copy" /\ ~feeding => queue = {}
  /\ cancelled => failed

PlanIsSource ==
  Calm /\ InCycle => \A p \in Paths :
    plan[p] = IF Source[p] = "absent" THEN "none" ELSE Entry(Source[p])

DirsMade ==
  Calm /\ InCycle => \A p \in Paths :
    Source[p] = "dir" => Dest[p] = "dir" \/ (phase = "ensure" /\ p \in queue)

\* The worker has the file in hand.
Has(w, p) == ~worker[w].stale /\ worker[w].at \in {"taken", "open", "copy"} /\ worker[w].file = p

\* Each file is copied, or will be, or an error says that it is not.
FilesCopied ==
  Calm /\ phase \in {"check", "copy", "sweep", "delete"} => \A p \in Paths : IsFile(Source[p]) =>
    \/ Dest[p] = Source[p]
    \/ phase \in {"check", "copy"} /\ p \in queue \cup todo
    \/ phase = "copy" /\ (failed \/ \E w \in Workers : Has(w, p))

\* What a worker has read is what it should write, and there is a file for it.
ReadIsSource ==
  Calm => \A w \in Workers, p \in Paths : Has(w, p) /\ worker[w].at = "copy" =>
    IsFile(Dest[p]) /\ worker[w].read = Source[p]

ExtrasQueued ==
  Calm /\ phase = "delete" /\ delete => \A p \in Paths :
    Source[p] = "absent" /\ Dest[p] # "absent" => p \in queue

CopyInv ==
  /\ TreesSound /\ PoolSound /\ PlanIsSource /\ DirsMade /\ FilesCopied /\ ReadIsSource
  /\ ExtrasQueued /\ OkMeansSynced

\* Nothing is above itself.
LEMMA Above ==
  /\ Ancestors \in [Paths -> SUBSET Paths]
  /\ \A p \in Paths : p \notin Ancestors[p]
  /\ \A p \in Paths : \A q \in Ancestors[p] : Ancestors[q] \subseteq Ancestors[p]
<1>1. ASSUME NEW p \in Paths, p \in Ancestors[p] PROVE FALSE
  <2>1. Rank[p] < Rank[p] /\ Rank[p] \in Nat
    BY <1>1, SyncAssumption
  <2>2. QED
    BY <2>1
<1>2. QED
  BY <1>1, SyncAssumption

\* The file systems' operations keep files in directories.
LEMMA StaysWellFormed ==
  ASSUME NEW t \in [Paths -> Nodes], WellFormed(t), NEW p \in Paths
  PROVE  /\ WellFormed(Without(t, p))
         /\ WellFormed(WithDirs(t, Ancestors[p])) /\ WellFormed(WithDirs(t, Ancestors[p] \cup {p}))
         /\ \A node \in Nodes : node # "absent" /\ t[p] # "dir" /\ (\A q \in Ancestors[p] : t[q] = "dir") =>
              WellFormed([t EXCEPT ![p] = node])
<1>1. WellFormed(Without(t, p))
  BY Above DEF WellFormed, Without
<1>2. WellFormed(WithDirs(t, Ancestors[p])) /\ WellFormed(WithDirs(t, Ancestors[p] \cup {p}))
  BY Above DEF WellFormed, WithDirs
<1>3. ASSUME NEW node \in Nodes, node # "absent", t[p] # "dir", \A q \in Ancestors[p] : t[q] = "dir"
      PROVE  WellFormed([t EXCEPT ![p] = node])
  BY <1>3, Above DEF WellFormed
<1>4. QED
  BY <1>1, <1>2, <1>3

\* The names of nodes are not contents.
LEMMA NodesDiffer ==
  /\ IsFile("part") /\ ~IsFile("dir") /\ ~IsFile("absent")
  /\ \A node \in Nodes : IsFile(node) <=> node # "dir" /\ node # "absent"
  /\ Nodes = {"absent", "dir", "part"} \cup Contents
BY SyncAssumption DEF IsFile, Nodes

\* What a plan made from the source names, and protects.
LEMMA PlanMeans ==
  ASSUME SyncInv, TreesSound, \A p \in Paths : plan[p] = IF Source[p] = "absent" THEN "none" ELSE Entry(Source[p])
  PROVE  /\ Directories(plan) = {p \in Paths : Source[p] = "dir"}
         /\ Files(plan) = {p \in Paths : IsFile(Source[p])}
         /\ Protected = {p \in Paths : Source[p] # "absent"}
<1>1. \A p \in Paths : Source[p] \in Nodes /\ Source[p] # "part"
  BY DEF SyncInv, Typed, Sides, Source, TreesSound
<1>2. \A p \in Paths : /\ plan[p] = "dir" <=> Source[p] = "dir"
                       /\ plan[p] = "file" <=> IsFile(Source[p])
                       /\ plan[p] = "none" <=> Source[p] = "absent"
                       /\ ~IsFile(plan[p])
  BY <1>1, NodesDiffer, SyncAssumption DEF Entry, IsFile
<1>3. \A p \in Paths : Source[p] # "absent" => \A q \in Ancestors[p] : Source[q] = "dir"
  BY DEF TreesSound, WellFormed
<1>4. Protected = {p \in Paths : Source[p] # "absent"}
  BY <1>2, <1>3, Above DEF Protected
<1>5. QED
  BY <1>2, <1>4 DEF Directories, Files

\* A cycle that returns leaves no obligation but the one of its result.
LEMMA ReturnCopies ==
  ASSUME OneWay, SyncInv, CopyInv, NEW r, Return(r), UNCHANGED treeVars, UNCHANGED userVars,
         UNCHANGED cut, r = "error" \/ (Calm => Synced)
  PROVE  CopyInv'
<1>1. TreesSound'
  BY DEF CopyInv, TreesSound, treeVars, Source, Dest
<1>2. PoolSound'
  <2>1. \A w \in Workers : worker'[w].to = "right"
    BY DEF CopyInv, PoolSound, Return, Off, SyncInv, Typed, WorkerStates
  <2>2. QED
    BY <2>1 DEF PoolSound, Return, Goto
<1>3. phase' = "idle"
  BY DEF Return, Goto
<1>4. PlanIsSource' /\ DirsMade' /\ FilesCopied' /\ ExtrasQueued'
  BY <1>3 DEF PlanIsSource, DirsMade, FilesCopied, ExtrasQueued, InCycle
<1>5. \A w \in Workers : worker'[w].at = "off" \/ worker'[w].stale
  BY DEF Return, Off, SyncInv, Typed, WorkerStates
<1>6. ReadIsSource'
  BY <1>5 DEF ReadIsSource, Has
<1>7. OkMeansSynced'
  BY DEF OneWay, OkMeansSynced, Synced, Calm, Return, treeVars, userVars
<1>8. QED
  BY <1>1, <1>2, <1>4, <1>6, <1>7 DEF CopyInv

\* The main goroutine, apart from what it writes.
LEMMA MainCopies ==
  ASSUME OneWay, SyncInv, CopyInv,
         Scan \/ DirectoriesEnsured \/ FileNeedsCopy \/ NothingToCopy \/ StartPool \/ CopyFailed
           \/ CopiesDone \/ Sweep \/ SecondPlan \/ CycleDone \/ Fails
  PROVE  CopyInv'
<1>. USE DEF Source, Dest, InCycle, Calm
<1>1. \A w \in Workers : worker[w].at # "off" /\ ~worker[w].stale => phase = "copy"
  BY DEF SyncInv, WorkersFollowPlan
<1>2. CASE Scan
  <2>1. UNCHANGED <<tree, dry, interrupted, delete, worker, feeding, failed, cancelled>> /\ phase' = "ensure"
        /\ to' = "right" /\ plan' = PlanOf("left") /\ queue' = Directories(PlanOf("left"))
        /\ outcome' = "none" /\ phase = "idle"
    BY <1>2 DEF Scan, Goto, treeVars, poolVars
  <2>2. \A p \in Paths : PlanOf("left")[p] = IF tree["left"][p] = "absent" THEN "none" ELSE Entry(tree["left"][p])
    BY DEF OneWay, PlanOf, Gives
  <2>3. \A p \in Paths : tree["left"][p] = "dir" => p \in Directories(PlanOf("left"))
    BY <2>2, SyncAssumption DEF Directories, Entry
  <2>4. TreesSound' /\ PoolSound'
    BY <2>1 DEF CopyInv, TreesSound, PoolSound
  <2>5. PlanIsSource' /\ DirsMade' /\ FilesCopied' /\ ExtrasQueued'
    BY <2>1, <2>2, <2>3 DEF PlanIsSource, DirsMade, FilesCopied, ExtrasQueued
  <2>6. ReadIsSource'
    BY <1>1, <2>1 DEF ReadIsSource, Has
  <2>7. OkMeansSynced'
    BY <2>1 DEF OkMeansSynced
  <2>8. QED
    BY <2>4, <2>5, <2>6, <2>7 DEF CopyInv
<1>3. CASE DirectoriesEnsured
  <2>1. UNCHANGED <<tree, dry, interrupted, delete, cut, edited, worker, feeding, failed, cancelled, to, plan, todo>>
        /\ phase = "ensure" /\ phase' = "check" /\ queue = {} /\ queue' = Files(plan)
    BY <1>3 DEF cutVars, DirectoriesEnsured, Goto, treeVars, poolVars, planVars, userVars
  <2>2. TreesSound' /\ PoolSound'
    BY <2>1 DEF CopyInv, TreesSound, PoolSound
  <2>3. PlanIsSource' /\ DirsMade' /\ ExtrasQueued'
    BY <2>1 DEF CopyInv, PlanIsSource, DirsMade, ExtrasQueued
  <2>4. FilesCopied'
    <3>1. Calm => Files(plan) = {p \in Paths : IsFile(Source[p])}
      BY <2>1, PlanMeans DEF CopyInv, PlanIsSource
    <3>2. QED
      BY <2>1, <3>1 DEF FilesCopied
  <2>5. ReadIsSource'
    BY <1>1, <2>1 DEF ReadIsSource, Has
  <2>6. OkMeansSynced'
    BY <2>1 DEF OkMeansSynced
  <2>7. QED
    BY <2>2, <2>3, <2>4, <2>5, <2>6 DEF CopyInv
<1>4. CASE FileNeedsCopy
  <2>1. CASE CheckFails(First(queue))
    <3>1. Return("error") /\ UNCHANGED treeVars /\ UNCHANGED userVars /\ UNCHANGED cut
      BY <1>4, <2>1 DEF cutVars, FileNeedsCopy
    <3>2. QED
      BY <3>1, ReturnCopies
  <2>2. CASE ~CheckFails(First(queue))
    <3>1. PICK p : p = First(queue)
      OBVIOUS
    <3>2. UNCHANGED <<tree, dry, interrupted, delete, cut, edited, worker, feeding, failed, cancelled, to, plan, phase>>
          /\ phase = "check" /\ queue' = queue \ {p}
          /\ todo' = IF NeedsCopy(p) THEN todo \cup {p} ELSE todo
      BY <1>4, <2>2, <3>1 DEF cutVars, FileNeedsCopy, treeVars, poolVars, planVars, userVars
    <3>3. TreesSound' /\ PoolSound'
      BY <3>2 DEF CopyInv, TreesSound, PoolSound
    <3>4. PlanIsSource' /\ DirsMade' /\ ExtrasQueued'
      BY <3>2 DEF CopyInv, PlanIsSource, DirsMade, ExtrasQueued
    <3>5. FilesCopied'
      <4>1. ~NeedsCopy(p) => tree["left"][p] = tree["right"][p]
        BY DEF NeedsCopy, CopyInv, PoolSound, Other, From
      <4>2. QED
        BY <3>2, <4>1 DEF CopyInv, FilesCopied
    <3>6. ReadIsSource'
      BY <1>1, <3>2 DEF ReadIsSource, Has
    <3>7. OkMeansSynced'
      BY <3>2 DEF OkMeansSynced
    <3>8. QED
      BY <3>3, <3>4, <3>5, <3>6, <3>7 DEF CopyInv
  <2>3. QED
    BY <2>1, <2>2
<1>5. CASE NothingToCopy \/ CopiesDone \/ Sweep
  <2>1. /\ UNCHANGED <<tree, dry, interrupted, delete, cut, edited, worker, feeding, failed, to, plan, todo>>
        /\ cancelled' = cancelled \/ cancelled' = FALSE
        /\ phase' \in {"sweep", "delete"} /\ phase \in {"check", "copy", "sweep"}
        /\ phase' = "delete" => phase = "sweep" /\ (delete => queue' = {p \in Paths : tree[to][p] # "absent"} \ Protected)
        /\ phase = "check" => queue = {} /\ todo = {}
        /\ phase = "copy" => ~feeding /\ PoolOver /\ ~failed
    BY <1>5 DEF cutVars, NothingToCopy, CopiesDone, Sweep, Goto, treeVars, poolVars, planVars, userVars
  <2>2. TreesSound' /\ PoolSound'
    BY <2>1 DEF CopyInv, TreesSound, PoolSound
  <2>3. PlanIsSource'
    BY <2>1 DEF CopyInv, PlanIsSource
  <2>4. DirsMade'
    BY <2>1 DEF CopyInv, DirsMade
  <2>5. todo # {} => phase = "check"
    BY DEF SyncInv, LoopsFollowPlan
  <2>6. phase = "copy" => queue = {} /\ \A w \in Workers, p \in Paths : ~Has(w, p)
    BY <2>1 DEF CopyInv, PoolSound, PoolOver, Has
  <2>7. FilesCopied'
    BY <2>1, <2>5, <2>6 DEF CopyInv, FilesCopied
  <2>8. ReadIsSource'
    BY <2>1, <2>6, <1>1 DEF ReadIsSource, Has
  <2>9. ExtrasQueued'
    <3>1. Calm /\ InCycle => Protected = {p \in Paths : Source[p] # "absent"}
      BY PlanMeans DEF CopyInv, PlanIsSource
    <3>2. to = "right"
      BY DEF CopyInv, PoolSound
    <3>3. QED
      BY <2>1, <3>1, <3>2 DEF ExtrasQueued
  <2>10. OkMeansSynced'
    BY <2>1 DEF OkMeansSynced
  <2>11. QED
    BY <2>2, <2>3, <2>4, <2>7, <2>8, <2>9, <2>10 DEF CopyInv
<1>6. CASE StartPool
  <2>1. PICK pool \in SUBSET Idle :
          worker' = [w \in Workers |->
            IF w \in pool THEN [Off EXCEPT !.at = "ready", !.to = to] ELSE worker[w]]
    BY <1>6 DEF StartPool
  <2>2. /\ UNCHANGED <<tree, dry, interrupted, delete, cut, edited, failed, cancelled, to, plan>>
        /\ phase = "check" /\ phase' = "copy" /\ queue = {} /\ queue' = todo /\ todo' = {} /\ feeding'
    BY <1>6 DEF cutVars, StartPool, Goto, treeVars, planVars, userVars
  <2>3. \A w \in Workers : /\ worker'[w] = worker[w] \/ (worker'[w].at = "ready" /\ worker'[w].to = to)
    BY <2>1 DEF Off
  <2>4. TreesSound' /\ PoolSound'
    BY <2>2, <2>3 DEF CopyInv, TreesSound, PoolSound
  <2>5. PlanIsSource' /\ DirsMade' /\ ExtrasQueued' /\ FilesCopied'
    BY <2>2 DEF CopyInv, PlanIsSource, DirsMade, ExtrasQueued, FilesCopied
  <2>6. ReadIsSource'
    BY <1>1, <2>2, <2>3 DEF ReadIsSource, Has
  <2>7. OkMeansSynced'
    BY <2>2 DEF OkMeansSynced
  <2>8. QED
    BY <2>4, <2>5, <2>6, <2>7 DEF CopyInv
<1>7. CASE CopyFailed \/ Fails
  BY <1>7, ReturnCopies DEF cutVars, CopyFailed, Fails
<1>8. CASE SecondPlan
  BY <1>8 DEF SecondPlan, OneWay
<1>9. CASE CycleDone
  <2>1. phase = "delete" /\ queue = {} /\ Return("ok") /\ UNCHANGED treeVars /\ UNCHANGED userVars /\ UNCHANGED cut
    BY <1>9 DEF cutVars, CycleDone
  <2>2. Calm => Synced
    <3>1. todo = {}
      BY <2>1 DEF SyncInv, LoopsFollowPlan
    <3>2. SUFFICES ASSUME Calm, NEW p \in Paths
                   PROVE  IF Source[p] # "absent" THEN Dest[p] = Source[p]
                          ELSE delete => Dest[p] = "absent"
      BY DEF OneWay, Synced
    <3>3. Source[p] = "dir" => Dest[p] = "dir"
      BY <2>1, <3>2 DEF CopyInv, DirsMade
    <3>4. IsFile(Source[p]) => Dest[p] = Source[p]
      BY <2>1, <3>2 DEF CopyInv, FilesCopied
    <3>5. Source[p] = "absent" /\ delete => Dest[p] = "absent"
      BY <2>1, <3>2 DEF CopyInv, ExtrasQueued
    <3>6. Source[p] \in Nodes
      BY DEF SyncInv, Typed, Sides
    <3>7. QED
      BY <3>3, <3>4, <3>5, <3>6, NodesDiffer
  <2>3. QED
    BY <2>1, <2>2, ReturnCopies
<1>10. QED
  BY <1>2, <1>3, <1>4, <1>5, <1>6, <1>7, <1>8, <1>9

\* The main goroutine writes: directories first, deletions last.
LEMMA MainWrites ==
  ASSUME OneWay, SyncInv, CopyInv, EnsureDirectory \/ DeletePath
  PROVE  CopyInv'
<1>. USE DEF InCycle, Calm
<1>1. /\ to = "right" /\ "right" \in Sides /\ Other("right") = "left" /\ queue \subseteq Paths
      /\ Dest \in [Paths -> Nodes]
      /\ \A w \in Workers : worker[w].at # "off" /\ ~worker[w].stale => phase = "copy"
  BY DEF CopyInv, PoolSound, Sides, Other, SyncInv, Typed, WorkersFollowPlan, Dest
<1>3. CASE EnsureDirectory
  <2>1. PICK p : p = First(queue)
    OBVIOUS
  <2>2. p \in queue /\ p \in Paths
    BY <1>1, <1>3, <2>1, FirstLast DEF EnsureDirectory
  <2>3. PICK t : t = EnsureCleared(p)
    OBVIOUS
  <2>4. t = IF IsFile(Dest[p]) THEN Without(Dest, p) ELSE Dest
    BY <1>1, <2>3 DEF EnsureCleared, Dest
  <2>5. CASE MkdirFails(t, Ancestors[p])
    <3>1. Return("error") /\ UNCHANGED treeVars /\ UNCHANGED userVars /\ UNCHANGED cut
      BY <1>3, <2>1, <2>3, <2>5 DEF cutVars, EnsureDirectory
    <3>2. QED
      BY <3>1, ReturnCopies
  <2>6. CASE ~MkdirFails(t, Ancestors[p])
    <3>1. PICK u : u = WithDirs(t, Ancestors[p] \cup {p})
      OBVIOUS
    <3>2. /\ phase = "ensure" /\ queue' = queue \ {p}
          /\ UNCHANGED <<phase, to, plan, todo, worker, feeding, failed, cancelled, outcome, delete, dry,
                         interrupted, cut, edited>>
          /\ UNCHANGED tree \/ Becomes(to, u)
          /\ ~dry => Becomes(to, u)
      BY <1>3, <2>1, <2>3, <2>6, <3>1 DEF cutVars, EnsureDirectory, treeVars, planVars, poolVars, userVars
    <3>3. t \in [Paths -> Nodes] /\ WellFormed(t)
      BY <1>1, <2>2, <2>4, TreeOps, StaysWellFormed DEF CopyInv, TreesSound
    <3>4. u \in [Paths -> Nodes] /\ WellFormed(u)
      <4>1. Ancestors[p] \cup {p} \in SUBSET Paths
        BY <2>2, Above
      <4>2. QED
        BY <2>2, <3>1, <3>3, <4>1, TreeOps, StaysWellFormed
    <3>5. Source' = Source /\ (Dest' = Dest \/ Dest' = u) /\ (~dry => Dest' = u)
      <4>1. Becomes(to, u) => Source' = Source /\ Dest' = u
        BY <1>1, <3>4, BecomesTyped DEF SyncInv, Source, Dest
      <4>2. UNCHANGED tree => Source' = Source /\ Dest' = Dest
        BY DEF Source, Dest
      <4>3. QED
        BY <3>2, <4>1, <4>2
    <3>6. \A q \in Paths : Dest[q] = "dir" => u[q] = "dir"
      <4>1. IsFile(Dest[p]) => \A q \in Paths : Dest[q] = "dir" => p \notin Ancestors[q] \cup {q}
        BY <2>2, NodesDiffer, SyncAssumption DEF CopyInv, TreesSound, WellFormed
      <4>2. \A q \in Paths : Dest[q] = "dir" => t[q] = "dir"
        BY <2>4, <4>1 DEF Without
      <4>3. QED
        BY <3>1, <4>2 DEF WithDirs
    <3>7. u[p] = "dir"
      BY <2>2, <3>1 DEF WithDirs
    <3>8. TreesSound' /\ PoolSound'
      <4>1. WellFormed(Dest') /\ WellFormed(Source') /\ \A q \in Paths : Source'[q] # "part"
        BY <3>4, <3>5 DEF CopyInv, TreesSound
      <4>2. TreesSound'
        BY <4>1 DEF TreesSound, WellFormed
      <4>3. PoolSound'
        BY <3>2 DEF CopyInv, PoolSound
      <4>4. QED
        BY <4>2, <4>3
    <3>9. PlanIsSource'
      BY <3>2, <3>5 DEF CopyInv, PlanIsSource
    <3>10. DirsMade'
      <4>1. SUFFICES ASSUME Calm, NEW q \in Paths, Source[q] = "dir"
                     PROVE  u[q] = "dir" \/ q \in queue'
        BY <3>2, <3>5 DEF DirsMade
      <4>2. Dest[q] = "dir" \/ q \in queue
        BY <3>2, <4>1 DEF CopyInv, DirsMade
      <4>3. QED
        BY <3>2, <3>6, <3>7, <4>2
    <3>11. ReadIsSource'
      BY <1>1, <3>2 DEF ReadIsSource, Has
    <3>12. FilesCopied' /\ ExtrasQueued' /\ OkMeansSynced'
      BY <3>2 DEF FilesCopied, ExtrasQueued, OkMeansSynced
    <3>13. QED
      BY <3>8, <3>9, <3>10, <3>11, <3>12 DEF CopyInv
  <2>7. QED
    BY <2>5, <2>6
<1>4. CASE DeletePath
  <2>1. PICK p : p = Last(queue)
    OBVIOUS
  <2>2. p \in queue /\ p \in Paths /\ p \notin Protected
    BY <1>1, <1>4, <2>1, FirstLast DEF DeletePath, SyncInv, LoopsFollowPlan
  <2>3. PICK u : u = Without(Dest, p)
    OBVIOUS
  <2>4. /\ phase = "delete" /\ queue' = queue \ {p}
        /\ UNCHANGED <<phase, to, plan, todo, worker, feeding, failed, cancelled, outcome, delete, dry,
                       interrupted, cut, edited>>
        /\ UNCHANGED tree \/ Becomes(to, u)
        /\ ~dry => Becomes(to, u)
    BY <1>1, <1>4, <2>1, <2>3 DEF cutVars, DeletePath, Dest, treeVars, planVars, poolVars, userVars
  <2>5. u \in [Paths -> Nodes] /\ WellFormed(u)
    BY <1>1, <2>2, <2>3, TreeOps, StaysWellFormed DEF CopyInv, TreesSound
  <2>6. Source' = Source /\ (Dest' = Dest \/ Dest' = u) /\ (~dry => Dest' = u)
    <3>1. Becomes(to, u) => Source' = Source /\ Dest' = u
      BY <1>1, <2>5, BecomesTyped DEF SyncInv, Source, Dest
    <3>2. UNCHANGED tree => Source' = Source /\ Dest' = Dest
      BY DEF Source, Dest
    <3>3. QED
      BY <2>4, <3>1, <3>2
  <2>7. Calm => Protected = {q \in Paths : Source[q] # "absent"}
    BY <2>4, PlanMeans DEF CopyInv, PlanIsSource
  <2>8. Calm => \A q \in Paths : Source[q] # "absent" => u[q] = Dest[q]
    <3>1. SUFFICES ASSUME Calm, NEW q \in Paths, q \in Protected PROVE u[q] = Dest[q]
      BY <2>7
    <3>2. p \notin Ancestors[q] \cup {q}
      BY <2>2, <3>1, BelowProtected
    <3>3. QED
      BY <2>3, <3>2 DEF Without
  <2>9. TreesSound' /\ PoolSound'
    <3>1. WellFormed(Dest') /\ WellFormed(Source') /\ \A q \in Paths : Source'[q] # "part"
      BY <2>5, <2>6 DEF CopyInv, TreesSound
    <3>2. TreesSound'
      BY <3>1 DEF TreesSound, WellFormed
    <3>3. PoolSound'
      BY <2>4 DEF CopyInv, PoolSound
    <3>4. QED
      BY <3>2, <3>3
  <2>10. PlanIsSource'
    BY <2>4, <2>6 DEF CopyInv, PlanIsSource
  <2>11. DirsMade'
    <3>1. SUFFICES ASSUME Calm, NEW q \in Paths, Source[q] = "dir" PROVE Dest'[q] = "dir"
      BY <2>4, <2>6 DEF DirsMade
    <3>2. Dest[q] = "dir" /\ Source[q] # "absent"
      BY <2>4, <3>1 DEF CopyInv, DirsMade
    <3>3. QED
      BY <2>6, <2>8, <3>1, <3>2
  <2>12. FilesCopied'
    <3>1. SUFFICES ASSUME Calm, NEW q \in Paths, IsFile(Source[q]) PROVE Dest'[q] = Source[q]
      BY <2>4, <2>6 DEF FilesCopied
    <3>2. Dest[q] = Source[q] /\ Source[q] # "absent"
      BY <2>4, <3>1, NodesDiffer DEF CopyInv, FilesCopied
    <3>3. QED
      BY <2>6, <2>8, <3>1, <3>2
  <2>13. ReadIsSource'
    BY <1>1, <2>4 DEF ReadIsSource, Has
  <2>14. ExtrasQueued'
    <3>1. SUFFICES ASSUME Calm, delete, NEW q \in Paths, Source[q] = "absent", Dest'[q] # "absent"
                   PROVE  q \in queue \ {p}
      BY <2>4, <2>6 DEF ExtrasQueued
    <3>2. u[q] # "absent"
      BY <2>6, <3>1
    <3>3. q # p /\ Dest[q] # "absent"
      BY <2>3, <3>2 DEF Without
    <3>4. QED
      BY <2>4, <3>1, <3>3 DEF CopyInv, ExtrasQueued
  <2>15. OkMeansSynced'
    BY <2>4 DEF OkMeansSynced
  <2>16. QED
    BY <2>9, <2>10, <2>11, <2>12, <2>13, <2>14, <2>15 DEF CopyInv
<1>5. QED
  BY <1>3, <1>4

\* A worker of a failed cycle can open nothing and write nothing.
LEMMA StaleIsHarmless ==
  ASSUME OneWay, SyncInv, CopyInv, NEW w \in Workers, worker[w].stale, OpenFiles(w) \/ CutCopy(w)
  PROVE  UNCHANGED <<tree, failed, cancelled, cut>> /\ WorkerOff(w)
<1>1. worker[w].to = "right" /\ worker[w].to \in Remote /\ worker[w].stale = TRUE
  BY DEF OneWay, CopyInv, PoolSound, SyncInv, Typed, WorkerStates
<1>2. CASE OpenFiles(w)
  <2>1. WorkerFails(w) /\ UNCHANGED treeVars /\ UNCHANGED cut
    BY <1>1, <1>2 DEF cutVars, OpenFiles, CannotOpen, treeVars
  <2>2. QED
    BY <1>1, <2>1 DEF WorkerFails, treeVars
<1>3. CASE CutCopy(w)
  BY <1>1, <1>3 DEF cutVars, CutCopy, treeVars
<1>4. QED
  BY <1>2, <1>3

\* A step that moves one worker and leaves the trees, with an error or after
\* the file is done.
LEMMA LeavesTrees ==
  ASSUME OneWay, SyncInv, CopyInv, NEW w \in Workers, NEW r \in WorkerStates,
         worker' = [worker EXCEPT ![w] = r], r.to = "right", ~(r.at = "copy" /\ ~r.stale),
         UNCHANGED <<tree, phase, to, plan, queue, todo, feeding, delete, dry, interrupted, edited, outcome>>,
         cut' = cut \/ cut', cancelled' => failed',
         \/ UNCHANGED <<failed, cancelled>>
         \/ ~worker[w].stale /\ failed',
         \/ failed' \/ ~Calm'
         \/ \A p \in Paths : Has(w, p) => Has(w, p)'
  PROVE  CopyInv'
<1>. USE DEF Source, Dest, InCycle, Calm
<1>1. /\ worker'[w] = r /\ \A v \in Workers : v # w => worker'[v] = worker[v]
  BY DEF SyncInv, Typed
<1>2. TreesSound' /\ PoolSound'
  BY <1>1 DEF CopyInv, TreesSound, PoolSound
<1>3. PlanIsSource' /\ DirsMade' /\ ExtrasQueued'
  BY DEF CopyInv, PlanIsSource, DirsMade, ExtrasQueued
<1>4. FilesCopied'
  <2>1. SUFFICES ASSUME Calm', phase \in {"check", "copy", "sweep", "delete"}, NEW p \in Paths, IsFile(Source[p])
                 PROVE  \/ Dest[p] = Source[p]
                        \/ phase \in {"check", "copy"} /\ p \in queue \cup todo
                        \/ phase = "copy" /\ (failed' \/ \E v \in Workers : Has(v, p)')
    BY DEF FilesCopied
  <2>2. \/ Dest[p] = Source[p]
        \/ phase \in {"check", "copy"} /\ p \in queue \cup todo
        \/ phase = "copy" /\ (failed \/ \E v \in Workers : Has(v, p))
    BY <2>1 DEF CopyInv, FilesCopied
  <2>3. failed => failed'
    OBVIOUS
  <2>4. ASSUME NEW v \in Workers, Has(v, p) PROVE failed' \/ Has(v, p)'
    BY <1>1, <2>1, <2>4 DEF Has
  <2>5. QED
    BY <2>2, <2>3, <2>4
<1>5. ReadIsSource'
  BY <1>1 DEF CopyInv, ReadIsSource, Has
<1>6. OkMeansSynced'
  BY DEF CopyInv, OkMeansSynced, Synced
<1>7. QED
  BY <1>2, <1>3, <1>4, <1>5, <1>6 DEF CopyInv

\* Worker w of the cycle makes the destination t, which differs at its file f
\* and in directories only, and becomes r.
Writing(w, f, r, t) ==
  /\ worker[w].at \in {"taken", "open", "copy"} /\ ~worker[w].stale /\ f = worker[w].file
  /\ worker' = [worker EXCEPT ![w] = r] /\ r.to = "right" /\ ~r.stale
  /\ UNCHANGED <<phase, to, plan, queue, todo, feeding, delete, dry, interrupted, edited, outcome>>
  /\ UNCHANGED cut \/ cut' = TRUE
  /\ UNCHANGED <<failed, cancelled>> \/ failed' = TRUE
  /\ t \in [Paths -> Nodes] /\ WellFormed(t) /\ tree' = [tree EXCEPT !["right"] = t]
  /\ r.at = "copy" => r.file = f /\ IsFile(t[f]) /\ (Calm' => r.read = Source[f])
  /\ Calm' =>
       /\ t[f] = Source[f] \/ (r.at \in {"open", "copy"} /\ r.file = f) \/ failed'
       /\ Dest[f] = t[f] \/ t[f] = Source[f] \/ t[f] = "part" \/ (r.at = "open" /\ Dest[f] = "dir")
       /\ \A q \in Paths \ {f} :
            Source[q] # "absent" => Dest[q] = t[q] \/ (Source[q] = "dir" /\ t[q] = "dir")

\* A file of the plan is in nobody's way: its directories are directories of
\* the source, and nothing is below it there.
LEMMA WritesFile ==
  ASSUME OneWay, SyncInv, CopyInv, NEW w \in Workers, NEW f \in Paths, NEW r \in WorkerStates, NEW t,
         Writing(w, f, r, t)
  PROVE  CopyInv'
<1>. USE DEF InCycle, Calm, Writing
<1>1. /\ worker'[w] = r /\ \A v \in Workers : v # w => worker'[v] = worker[v]
      /\ \A v \in Workers : worker[v].at # "off" /\ ~worker[v].stale => phase = "copy"
      /\ f \in Files(plan)
  BY DEF SyncInv, Typed, WorkersFollowPlan
<1>2. Source' = Source /\ Dest' = t /\ Dest \in [Paths -> Nodes] /\ phase = "copy"
  BY <1>1 DEF SyncInv, Typed, Sides, Source, Dest
<1>3. TreesSound' /\ PoolSound'
  <2>1. WellFormed(Dest') /\ WellFormed(Source') /\ \A q \in Paths : Source'[q] # "part"
    BY <1>2 DEF CopyInv, TreesSound
  <2>2. TreesSound'
    BY <2>1 DEF TreesSound, WellFormed
  <2>3. PoolSound'
    BY <1>1 DEF CopyInv, PoolSound
  <2>4. QED
    BY <2>2, <2>3
<1>4. PlanIsSource'
  BY <1>2 DEF CopyInv, PlanIsSource
<1>5. Calm => Files(plan) = {p \in Paths : IsFile(Source[p])}
  BY <1>2, PlanMeans DEF CopyInv, PlanIsSource
<1>6. Calm => IsFile(Source[f]) /\ Source[f] # "dir" /\ Source[f] # "absent"
  BY <1>1, <1>5, NodesDiffer
<1>7. DirsMade'
  <2>1. SUFFICES ASSUME Calm', Calm, NEW q \in Paths, Source[q] = "dir" PROVE t[q] = "dir"
    BY <1>2 DEF DirsMade
  <2>2. q # f /\ Dest[q] = "dir" /\ Source[q] # "absent"
    BY <1>2, <1>6, <2>1, SyncAssumption DEF CopyInv, DirsMade
  <2>3. QED
    BY <2>1, <2>2
<1>8. \A q \in Paths \ {f} : Calm' /\ IsFile(Source[q]) => Dest[q] = t[q]
  BY NodesDiffer
<1>9. FilesCopied'
  <2>1. SUFFICES ASSUME Calm', Calm, NEW q \in Paths, IsFile(Source[q])
                 PROVE  \/ t[q] = Source[q]
                        \/ q \in queue \cup todo \/ failed'
                        \/ \E v \in Workers : Has(v, q)'
    BY <1>2 DEF FilesCopied
  <2>2. CASE q = f
    BY <1>1, <2>1, <2>2 DEF Has
  <2>3. CASE q # f
    <3>1. \/ Dest[q] = Source[q]
          \/ q \in queue \cup todo \/ failed
          \/ \E v \in Workers : Has(v, q)
      BY <1>2, <2>1 DEF CopyInv, FilesCopied
    <3>2. ASSUME NEW v \in Workers, Has(v, q) PROVE Has(v, q)'
      BY <1>1, <2>3, <3>2 DEF Has
    <3>3. QED
      BY <1>8, <2>1, <2>3, <3>1, <3>2
  <2>4. QED
    BY <2>2, <2>3
<1>10. ReadIsSource'
  <2>1. SUFFICES ASSUME Calm', Calm, NEW v \in Workers, NEW q \in Paths, Has(v, q)', worker'[v].at = "copy"
                 PROVE  IsFile(t[q]) /\ worker'[v].read = Source[q]
    BY <1>2 DEF ReadIsSource
  <2>2. CASE v = w
    BY <1>1, <2>1, <2>2 DEF Has
  <2>3. CASE v # w
    <3>1. Has(v, q) /\ worker[v].at = "copy" /\ worker'[v] = worker[v]
      BY <1>1, <2>1, <2>3 DEF Has
    <3>2. IsFile(Dest[q]) /\ worker[v].read = Source[q]
      BY <2>1, <3>1 DEF CopyInv, ReadIsSource
    <3>3. q \in Files(plan)
      BY <3>1 DEF Has, SyncInv, WorkersFollowPlan
    <3>4. IsFile(Source[q])
      BY <1>5, <2>1, <3>3
    <3>5. CASE q # f
      BY <1>8, <2>1, <3>1, <3>2, <3>4, <3>5
    <3>6. CASE q = f
      BY <1>6, <2>1, <3>1, <3>2, <3>4, <3>6, NodesDiffer
    <3>7. QED
      BY <3>5, <3>6
  <2>4. QED
    BY <2>2, <2>3
<1>11. ExtrasQueued' /\ OkMeansSynced'
  BY <1>2 DEF ExtrasQueued, OkMeansSynced
<1>12. QED
  BY <1>3, <1>4, <1>7, <1>9, <1>10, <1>11 DEF CopyInv

\* What each step of a worker does to that.
LEMMA WorkerCopies ==
  ASSUME OneWay, SyncInv, CopyInv, NEW w \in Workers, WorkerStep(w)
  PROVE  CopyInv'
<1>. USE DEF Calm
<1>0. PICK f : f = worker[w].file
  OBVIOUS
<1>. DEFINE ready == [Off EXCEPT !.at = "ready", !.to = worker[w].to]
<1>1. /\ worker \in [Workers -> WorkerStates] /\ worker[w] \in WorkerStates /\ worker[w].to = "right"
      /\ "right" \in Sides /\ Other("right") = "left" /\ tree \in [Sides -> [Paths -> Nodes]]
      /\ Dest = tree["right"] /\ Source = tree["left"] /\ Dest \in [Paths -> Nodes] /\ WellFormed(Dest)
  BY DEF SyncInv, Typed, CopyInv, PoolSound, TreesSound, Sides, Other, Source, Dest
<1>2. /\ Off \in WorkerStates /\ Off.at = "off" /\ Off.to = "right" /\ ~Off.stale
      /\ ready \in WorkerStates /\ ready.at = "ready" /\ ready.to = "right" /\ ~ready.stale
  BY <1>1, OffAndReady DEF Off
<1>3. /\ worker[w].at \in {"taken", "open", "copy"} => f \in Paths
      /\ worker[w].at \in {"taken", "open", "copy"} /\ ~worker[w].stale => f \in Files(plan) /\ phase = "copy"
      /\ worker[w].at \in {"ready", "taken"} => ~worker[w].stale
      /\ dry => worker[w].at \notin {"open", "copy"}
  BY <1>0 DEF SyncInv, WorkersFollowPlan, DryWorkers
<1>4. Calm /\ phase = "copy" => Files(plan) = {p \in Paths : IsFile(Source[p])}
  BY PlanMeans DEF CopyInv, PlanIsSource, InCycle
\* The directories above a file of the source, and nothing below it.
<1>5. ASSUME f \in Paths, Calm, f \in Files(plan), phase = "copy"
      PROVE  /\ IsFile(Source[f]) /\ Source[f] # "dir"
             /\ \A q \in Ancestors[f] : Source[q] = "dir"
             /\ \A q \in Paths : Source[q] # "absent" => f \notin Ancestors[q]
  BY <1>4, <1>5, NodesDiffer DEF CopyInv, TreesSound, WellFormed
<1>6. ASSUME worker[w].stale, OpenFiles(w) \/ CutCopy(w)
      PROVE  CopyInv'
  <2>1. UNCHANGED <<tree, failed, cancelled, cut>> /\ worker' = [worker EXCEPT ![w] = Off]
    BY <1>6, StaleIsHarmless DEF WorkerOff
  <2>2. UNCHANGED <<phase, to, plan, queue, todo, feeding, delete, dry, interrupted, edited, outcome>>
    BY <1>6 DEF OpenFiles, CutCopy, planVars, userVars
  <2>3. \A p \in Paths : ~Has(w, p)
    BY <1>6 DEF Has
  <2>4. QED
    BY <1>2, <2>1, <2>2, <2>3, LeavesTrees DEF CopyInv, PoolSound
<1>7. CASE NoMoreTasks(w)
  <2>1. /\ worker[w].at = "ready" /\ worker' = [worker EXCEPT ![w] = Off] /\ UNCHANGED <<tree, failed, cancelled, cut>>
        /\ UNCHANGED <<phase, to, plan, queue, todo, feeding, delete, dry, interrupted, edited, outcome>>
    BY <1>7 DEF cutVars, NoMoreTasks, WorkerOff, treeVars, planVars, userVars
  <2>2. \A p \in Paths : ~Has(w, p)
    BY <2>1 DEF Has
  <2>3. QED
    BY <1>2, <2>1, <2>2, LeavesTrees DEF CopyInv, PoolSound
<1>8. CASE BeginCopy(w)
  <2>1. /\ worker[w].at = "taken" /\ ~worker[w].stale /\ UNCHANGED <<failed, cancelled, cut>>
        /\ UNCHANGED <<phase, to, plan, queue, todo, feeding, delete, dry, interrupted, edited, outcome>>
    BY <1>3, <1>8 DEF cutVars, BeginCopy, planVars, userVars
  <2>2. CASE Cancelled \/ dry
    <3>1. UNCHANGED tree /\ (worker' = [worker EXCEPT ![w] = Off] \/ worker' = [worker EXCEPT ![w] = ready])
      BY <1>8, <2>2 DEF BeginCopy, WorkerOff, NextFile, treeVars
    <3>2. failed' \/ ~Calm'
      BY <2>1, <2>2 DEF Cancelled, CopyInv, PoolSound
    <3>3. QED
      BY <1>2, <2>1, <3>1, <3>2, LeavesTrees DEF CopyInv, PoolSound
  <2>3. CASE ~(Cancelled \/ dry)
    <3>. DEFINE r == [worker[w] EXCEPT !.at = "open"]
    <3>1. r \in WorkerStates /\ r.at = "open" /\ r.file = f /\ r.to = "right" /\ ~r.stale
      BY <1>0, <1>1, <2>1 DEF WorkerStates
    <3>2. worker' = [worker EXCEPT ![w] = r]
      BY <1>1, <1>8, <2>3 DEF BeginCopy, WorkerGoto
    <3>3. PICK t : t = IF Dest[f] = "dir" THEN Without(Dest, f) ELSE Dest
      OBVIOUS
    <3>4. t \in [Paths -> Nodes] /\ WellFormed(t)
      BY <1>1, <1>3, <2>1, <3>3, TreeOps, StaysWellFormed
    <3>5. tree' = [tree EXCEPT !["right"] = t]
      BY <1>0, <1>1, <1>8, <2>3, <3>3 DEF BeginCopy, Becomes, treeVars
    <3>6. Calm => \A q \in Paths \ {f} : Source[q] # "absent" => Dest[q] = t[q]
      BY <1>3, <1>5, <2>1, <3>3 DEF Without
    <3>7. Dest[f] = t[f] \/ Dest[f] = "dir"
      BY <3>3
    <3>8. Calm' => Calm
      BY <2>1
    <3> HIDE DEF r
    <3>9. Calm' =>
            /\ t[f] = Source[f] \/ (r.at \in {"open", "copy"} /\ r.file = f) \/ failed'
            /\ Dest[f] = t[f] \/ t[f] = Source[f] \/ t[f] = "part" \/ (r.at = "open" /\ Dest[f] = "dir")
            /\ \A q \in Paths \ {f} :
                 Source[q] # "absent" => Dest[q] = t[q] \/ (Source[q] = "dir" /\ t[q] = "dir")
      BY <3>1, <3>6, <3>7, <3>8
    <3>10. Writing(w, f, r, t)
      BY <1>0, <2>1, <3>1, <3>2, <3>4, <3>5, <3>9 DEF Writing
    <3>11. QED
      BY <1>3, <2>1, <3>1, <3>10, WritesFile
  <2>4. QED
    BY <2>2, <2>3
<1>9. CASE OpenFiles(w) /\ ~worker[w].stale
  <2>1. /\ worker[w].at = "open" /\ ~worker[w].stale /\ UNCHANGED cut /\ f \in Paths /\ Ancestors[f] \in SUBSET Paths
        /\ UNCHANGED <<phase, to, plan, queue, todo, feeding, delete, dry, interrupted, edited, outcome>>
    BY <1>3, <1>9, Above DEF cutVars, OpenFiles, planVars, userVars
  <2>2. PICK d : d = WithDirs(Dest, Ancestors[f])
    OBVIOUS
  <2>3. /\ d \in [Paths -> Nodes] /\ WellFormed(d) /\ \A q \in Ancestors[f] : d[q] = "dir"
        /\ d[f] = Dest[f]
        /\ Calm => \A q \in Paths \ {f} : Source[q] # "absent" => Dest[q] = d[q] \/ (Source[q] = "dir" /\ d[q] = "dir")
    <3>1. d \in [Paths -> Nodes] /\ WellFormed(d)
      BY <1>1, <2>1, <2>2, TreeOps, StaysWellFormed
    <3>2. (\A q \in Ancestors[f] : d[q] = "dir") /\ d[f] = Dest[f]
      BY <1>1, <2>1, <2>2, Above DEF WithDirs
    <3>3. Calm => \A q \in Paths \ {f} : Source[q] # "absent" => Dest[q] = d[q] \/ (Source[q] = "dir" /\ d[q] = "dir")
      BY <1>3, <1>5, <2>1, <2>2 DEF WithDirs
    <3>4. QED
      BY <3>1, <3>2, <3>3
  <2>4. \/ /\ UNCHANGED tree \/ tree' = [tree EXCEPT !["right"] = d]
           /\ worker' = [worker EXCEPT ![w] = Off] /\ failed' = TRUE /\ cancelled' = TRUE
        \/ /\ Dest[f] # "dir" /\ tree' = [tree EXCEPT !["right"] = [d EXCEPT ![f] = "part"]]
           /\ worker' = [worker EXCEPT ![w].at = "copy", ![w].read = Source[f]]
           /\ UNCHANGED <<failed, cancelled>>
    BY <1>0, <1>1, <1>9, <2>2 DEF OpenFiles, CannotOpen, WorkerFails, WorkerOff, Becomes, treeVars
  <2>5. CASE UNCHANGED tree /\ worker' = [worker EXCEPT ![w] = Off] /\ failed' = TRUE /\ cancelled' = TRUE
    BY <1>2, <2>1, <2>5, LeavesTrees
  <2>6. CASE /\ tree' = [tree EXCEPT !["right"] = d]
             /\ worker' = [worker EXCEPT ![w] = Off] /\ failed' = TRUE /\ cancelled' = TRUE
    <3>1. Calm' => Calm
      BY <2>1
    <3>2. Calm' =>
            /\ d[f] = Source[f] \/ (Off.at \in {"open", "copy"} /\ Off.file = f) \/ failed'
            /\ Dest[f] = d[f] \/ d[f] = Source[f] \/ d[f] = "part" \/ (Off.at = "open" /\ Dest[f] = "dir")
            /\ \A q \in Paths \ {f} :
                 Source[q] # "absent" => Dest[q] = d[q] \/ (Source[q] = "dir" /\ d[q] = "dir")
      BY <2>3, <2>6, <3>1
    <3>3. Writing(w, f, Off, d)
      BY <1>0, <1>2, <2>1, <2>3, <2>6, <3>2 DEF Writing
    <3>4. QED
      BY <1>2, <2>1, <3>3, WritesFile
  <2>7. CASE /\ Dest[f] # "dir" /\ tree' = [tree EXCEPT !["right"] = [d EXCEPT ![f] = "part"]]
             /\ worker' = [worker EXCEPT ![w].at = "copy", ![w].read = Source[f]]
             /\ UNCHANGED <<failed, cancelled>>
    <3>. DEFINE r == [worker[w] EXCEPT !.at = "copy", !.read = Source[f]]
    <3>1. Source[f] \in Nodes
      BY <1>1, <2>1 DEF Sides
    <3>2. r \in WorkerStates /\ r.at = "copy" /\ r.file = f /\ r.to = "right" /\ ~r.stale /\ r.read = Source[f]
      BY <1>0, <1>1, <2>1, <3>1 DEF WorkerStates
    <3>3. worker' = [worker EXCEPT ![w] = r]
      BY <1>1, <2>7
    <3>4. PICK t : t = [d EXCEPT ![f] = "part"]
      OBVIOUS
    <3>5. t \in [Paths -> Nodes] /\ WellFormed(t) /\ t[f] = "part" /\ \A q \in Paths \ {f} : t[q] = d[q]
      <4>1. "part" \in Nodes /\ "part" # "absent"
        BY DEF Nodes
      <4>2. QED
        BY <2>1, <2>3, <2>7, <3>4, <4>1, StaysWellFormed
    <3>6. Calm' => Calm
      BY <2>1
    <3> HIDE DEF r
    <3>7. Calm' =>
            /\ t[f] = Source[f] \/ (r.at \in {"open", "copy"} /\ r.file = f) \/ failed'
            /\ Dest[f] = t[f] \/ t[f] = Source[f] \/ t[f] = "part" \/ (r.at = "open" /\ Dest[f] = "dir")
            /\ \A q \in Paths \ {f} :
                 Source[q] # "absent" => Dest[q] = t[q] \/ (Source[q] = "dir" /\ t[q] = "dir")
      BY <2>3, <3>2, <3>5, <3>6
    <3>8. IsFile(t[f])
      BY <3>5, NodesDiffer
    <3>9. Writing(w, f, r, t)
      BY <1>0, <2>1, <2>7, <3>2, <3>3, <3>4, <3>5, <3>7, <3>8 DEF Writing
    <3>10. QED
      BY <2>1, <3>2, <3>9, WritesFile
  <2>8. QED
    BY <2>4, <2>5, <2>6, <2>7
<1>10. CASE (CopyFile(w) \/ CutCopy(w)) /\ ~worker[w].stale
  <2>1. /\ worker[w].at = "copy" /\ ~worker[w].stale /\ f \in Paths /\ UNCHANGED <<failed, cancelled>>
        /\ UNCHANGED <<phase, to, plan, queue, todo, feeding, delete, dry, interrupted, edited, outcome>>
        /\ worker' = [worker EXCEPT ![w] = ready]
    BY <1>3, <1>10 DEF CopyFile, CutCopy, NextFile, planVars, userVars
  <2>2. \/ UNCHANGED cut /\ \E node \in {worker[w].read, Source[f]} :
              IsFile(node) /\ Written(w, node, worker[w].time)
        \/ cut' = TRUE /\ (UNCHANGED tree \/ Written(w, "part", worker[w].time))
    BY <1>0, <1>1, <1>10 DEF cutVars, CopyFile, CutCopy, treeVars
  <2>3. PICK node, t : /\ tree' = [tree EXCEPT !["right"] = t]
                       /\ t = Dest \/ (IsFile(Dest[f]) /\ node \in Nodes /\ IsFile(node) /\ t = [Dest EXCEPT ![f] = node])
                       /\ Calm' => t[f] = Source[f] /\ UNCHANGED cut
    <3>1. CASE cut' = TRUE /\ (UNCHANGED tree \/ Written(w, "part", worker[w].time))
      <4>1. tree' = tree \/ (IsFile(Dest[f]) /\ tree' = [tree EXCEPT !["right"][f] = "part"])
        <5>1. CASE UNCHANGED tree
          BY <5>1
        <5>2. ASSUME NEW x \in Nodes, Written(w, x, worker[w].time)
              PROVE  tree' = tree \/ (IsFile(Dest[f]) /\ tree' = [tree EXCEPT !["right"][f] = x])
          BY <1>0, <1>1, <5>2 DEF Written, treeVars
        <5>3. QED
          BY <3>1, <5>1, <5>2, NodesDiffer
      <4>2. tree = [tree EXCEPT !["right"] = Dest] /\ [tree EXCEPT !["right"][f] = "part"] = [tree EXCEPT !["right"] = [Dest EXCEPT ![f] = "part"]]
        BY <1>1
      <4>3. QED
        BY <3>1, <4>1, <4>2, NodesDiffer
    <3>2. CASE UNCHANGED cut /\ \E node \in {worker[w].read, Source[f]} :
                 IsFile(node) /\ Written(w, node, worker[w].time)
      <4>1. PICK node \in {worker[w].read, Source[f]} : IsFile(node) /\ Written(w, node, worker[w].time) /\ UNCHANGED cut
        BY <3>2
      <4>2. Calm' => IsFile(Dest[f]) /\ worker[w].read = Source[f]
        BY <1>0, <2>1, <4>1 DEF CopyInv, ReadIsSource, Has
      <4>3. node \in Nodes
        BY <4>1, NodesDiffer DEF IsFile
      <4>4. CASE IsFile(Dest[f])
        <5>1. tree' = [tree EXCEPT !["right"][f] = node]
          BY <1>0, <1>1, <4>1, <4>4 DEF Written
        <5>2. tree' = [tree EXCEPT !["right"] = [Dest EXCEPT ![f] = node]]
          BY <1>1, <5>1
        <5>3. [Dest EXCEPT ![f] = node][f] = node
          BY <1>1, <2>1
        <5>4. QED
          BY <4>1, <4>2, <4>3, <4>4, <5>2, <5>3
      <4>5. CASE ~IsFile(Dest[f])
        <5>1. tree' = tree
          BY <1>0, <1>1, <4>1, <4>5 DEF Written, treeVars
        <5>2. tree = [tree EXCEPT !["right"] = Dest]
          BY <1>1
        <5>3. QED
          BY <4>1, <4>2, <4>5, <5>1, <5>2
      <4>6. QED
        BY <4>4, <4>5
    <3>3. QED
      BY <2>2, <3>1, <3>2
  <2>4. t \in [Paths -> Nodes] /\ \A q \in Paths \ {f} : t[q] = Dest[q]
    BY <1>1, <2>1, <2>3
  <2>5. WellFormed(t)
    <3>1. IsFile(Dest[f]) => \A q \in Ancestors[f] : Dest[q] = "dir"
      BY <1>1, <2>1, NodesDiffer DEF WellFormed
    <3>2. ASSUME IsFile(Dest[f]), node \in Nodes, IsFile(node) PROVE WellFormed([Dest EXCEPT ![f] = node])
      BY <1>1, <2>1, <3>1, <3>2, NodesDiffer, StaysWellFormed
    <3>3. QED
      BY <1>1, <2>3, <3>2
  <2>6. Calm' =>
            /\ t[f] = Source[f] \/ (ready.at \in {"open", "copy"} /\ ready.file = f) \/ failed'
            /\ Dest[f] = t[f] \/ t[f] = Source[f] \/ t[f] = "part" \/ (ready.at = "open" /\ Dest[f] = "dir")
            /\ \A q \in Paths \ {f} :
                 Source[q] # "absent" => Dest[q] = t[q] \/ (Source[q] = "dir" /\ t[q] = "dir")
    BY <2>3, <2>4
  <2>7. UNCHANGED cut \/ cut' = TRUE
    BY <2>2
  <2> HIDE DEF ready
  <2>8. Writing(w, f, ready, t)
    BY <1>0, <1>2, <2>1, <2>3, <2>4, <2>5, <2>6, <2>7 DEF Writing
  <2>9. QED
    BY <1>2, <2>1, <2>8, WritesFile
<1>11. QED
  BY <1>6, <1>7, <1>8, <1>9, <1>10 DEF WorkerStep, CopyFile

\* The other steps copy nothing.
LEMMA OthersCopy ==
  ASSUME OneWay, SyncInv, CopyInv,
         Feeder \/ Stop \/ Interrupt \/ Terminated \/ UNCHANGED vars \/ \E s \in Sides, p \in Paths : Edit(s, p)
  PROVE  CopyInv'
<1>. USE DEF InCycle, Calm, Source, Dest
<1>1. /\ worker \in [Workers -> WorkerStates] /\ tree \in [Sides -> [Paths -> Nodes]] /\ queue \subseteq Paths
      /\ \A w \in Workers : worker[w].at = "ready" => ~worker[w].stale
  BY DEF SyncInv, Typed, WorkersFollowPlan
<1>2. CASE CloseTasks
  <2>1. /\ UNCHANGED <<tree, phase, to, plan, todo, worker, failed, cancelled, outcome, delete, dry,
                       interrupted, cut, edited>>
        /\ phase = "copy" /\ queue' = {} /\ (queue = {} \/ cancelled \/ interrupted)
    BY <1>2 DEF cutVars, CloseTasks, Cancelled, treeVars, planVars, userVars
  <2>2. TreesSound' /\ PoolSound'
    BY <2>1 DEF CopyInv, TreesSound, PoolSound
  <2>3. PlanIsSource' /\ DirsMade' /\ ExtrasQueued' /\ OkMeansSynced'
    BY <2>1 DEF CopyInv, PlanIsSource, DirsMade, ExtrasQueued, OkMeansSynced
  <2>4. FilesCopied'
    <3>1. Calm => queue' = queue \/ failed
      BY <2>1 DEF CopyInv, PoolSound
    <3>2. \A w \in Workers, p \in Paths : Has(w, p)' = Has(w, p)
      BY <2>1 DEF Has
    <3>3. QED
      BY <2>1, <3>1, <3>2 DEF CopyInv, FilesCopied
  <2>5. ReadIsSource'
    BY <2>1 DEF CopyInv, ReadIsSource, Has
  <2>6. QED
    BY <2>2, <2>3, <2>4, <2>5 DEF CopyInv
<1>3. ASSUME NEW w \in Workers, Feed(w)
      PROVE  CopyInv'
  <2>1. PICK f : f = First(queue)
    OBVIOUS
  <2>2. /\ UNCHANGED <<tree, phase, to, plan, todo, feeding, failed, cancelled, outcome, delete, dry,
                       interrupted, cut, edited>>
        /\ phase = "copy" /\ queue' = queue \ {f} /\ worker[w].at = "ready" /\ feeding
    BY <1>3, <2>1 DEF cutVars, Feed, treeVars, planVars, userVars
  <2>3. /\ \A v \in Workers : v # w => worker'[v] = worker[v]
        /\ worker'[w].at = "taken" /\ worker'[w].file = f /\ worker'[w].to = worker[w].to
        /\ worker'[w].stale = worker[w].stale
    BY <1>1, <1>3, <2>1 DEF Feed, WorkerStates
  <2>4. TreesSound' /\ PoolSound'
    BY <2>2, <2>3 DEF CopyInv, TreesSound, PoolSound
  <2>5. PlanIsSource' /\ DirsMade' /\ ExtrasQueued' /\ OkMeansSynced'
    BY <2>2 DEF CopyInv, PlanIsSource, DirsMade, ExtrasQueued, OkMeansSynced
  <2>6. FilesCopied'
    <3>1. Has(w, f)'
      BY <1>1, <2>2, <2>3 DEF Has
    <3>2. ASSUME NEW v \in Workers, NEW p \in Paths, Has(v, p) PROVE Has(v, p)'
      BY <2>2, <2>3, <3>2 DEF Has
    <3>3. SUFFICES ASSUME Calm, NEW p \in Paths, IsFile(Source[p])
                   PROVE  \/ Dest[p] = Source[p] \/ p \in queue' \cup todo \/ failed
                          \/ \E v \in Workers : Has(v, p)'
      BY <2>2 DEF FilesCopied
    <3>4. \/ Dest[p] = Source[p] \/ p \in queue \cup todo \/ failed
          \/ \E v \in Workers : Has(v, p)
      BY <2>2, <3>3 DEF CopyInv, FilesCopied
    <3>5. QED
      BY <2>2, <3>1, <3>2, <3>4
  <2>7. ReadIsSource'
    BY <2>2, <2>3 DEF CopyInv, ReadIsSource, Has
  <2>8. QED
    BY <2>4, <2>5, <2>6, <2>7 DEF CopyInv
<1>4. CASE Stop
  <2>1. /\ UNCHANGED <<tree, to, queue, failed, cancelled>> /\ phase' = "stopped"
        /\ \A w \in Workers : worker'[w] = Off
    BY <1>4 DEF Stop, Goto, treeVars, planVars
  <2>2. TreesSound' /\ PoolSound'
    BY <2>1 DEF CopyInv, TreesSound, PoolSound, Off
  <2>3. PlanIsSource' /\ DirsMade' /\ ExtrasQueued' /\ OkMeansSynced' /\ FilesCopied'
    BY <2>1 DEF PlanIsSource, DirsMade, ExtrasQueued, OkMeansSynced, FilesCopied
  <2>4. ReadIsSource'
    BY <2>1 DEF ReadIsSource, Has, Off
  <2>5. QED
    BY <2>2, <2>3, <2>4 DEF CopyInv
<1>5. CASE Interrupt
  <2>1. interrupted' = TRUE /\ UNCHANGED <<tree, to, phase, queue, feeding, worker, failed, cancelled>>
    BY <1>5 DEF Interrupt, treeVars, planVars, poolVars
  <2>2. TreesSound' /\ PoolSound'
    BY <2>1 DEF CopyInv, TreesSound, PoolSound
  <2>3. QED
    BY <2>1, <2>2 DEF CopyInv, PlanIsSource, DirsMade, ExtrasQueued, OkMeansSynced, FilesCopied, ReadIsSource
<1>6. ASSUME NEW s \in Sides, NEW p \in Paths, Edit(s, p)
      PROVE  CopyInv'
  <2>1. PICK node : /\ node \in Contents \cup {"absent"} /\ IsFile(tree[s][p])
                    /\ tree' = [tree EXCEPT ![s][p] = node]
    BY <1>6 DEF Edit
  <2>2. edited' = TRUE /\ UNCHANGED <<to, phase, queue, feeding, worker, failed, cancelled>>
    BY <1>6 DEF Edit, planVars, poolVars
  <2>3. TreesSound'
    <3>1. node # "part" /\ node \in Nodes /\ tree[s][p] # "dir" /\ tree[s][p] # "absent"
      BY <2>1, NodesDiffer, SyncAssumption
    <3>2. WellFormed([tree[s] EXCEPT ![p] = node])
      <4>1. WellFormed(tree[s])
        BY DEF CopyInv, TreesSound, Sides
      <4>2. QED
        BY <1>1, <3>1, <4>1, Above DEF WellFormed
    <3>3. /\ tree'[s] = [tree[s] EXCEPT ![p] = node]
          /\ \A q \in Sides : q # s => tree'[q] = tree[q]
      BY <1>1, <2>1
    <3>4. \A q \in Sides : WellFormed(tree'[q])
      BY <3>2, <3>3 DEF CopyInv, TreesSound, Sides
    <3>5. \A q \in Paths : tree'["left"][q] # "part"
      BY <1>1, <3>1, <3>3 DEF CopyInv, TreesSound, Sides
    <3>6. QED
      BY <3>4, <3>5 DEF TreesSound, WellFormed, Sides
  <2>4. PoolSound'
    BY <2>2 DEF CopyInv, PoolSound
  <2>5. QED
    BY <2>2, <2>3, <2>4 DEF CopyInv, PlanIsSource, DirsMade, ExtrasQueued, OkMeansSynced, FilesCopied, ReadIsSource
<1>7. CASE UNCHANGED vars \/ Terminated
  <2>. USE DEF vars, cutVars, treeVars, userVars, planVars, poolVars
  <2>1. UNCHANGED vars
    BY <1>7 DEF Terminated
  <2>2. TreesSound' /\ PoolSound'
    BY <2>1 DEF CopyInv, TreesSound, PoolSound
  <2>3. PlanIsSource' /\ DirsMade' /\ ExtrasQueued'
    BY <2>1 DEF CopyInv, PlanIsSource, DirsMade, ExtrasQueued
  <2>4. FilesCopied' /\ ReadIsSource'
    BY <2>1 DEF CopyInv, FilesCopied, ReadIsSource, Has
  <2>5. OkMeansSynced'
    BY <2>1 DEF CopyInv, OkMeansSynced, Synced
  <2>6. QED
    BY <2>2, <2>3, <2>4, <2>5 DEF CopyInv
<1>8. QED
  BY <1>2, <1>3, <1>4, <1>5, <1>6, <1>7 DEF Feeder

\* At first nothing has been promised.
LEMMA CopyInit == OneWay /\ Init => CopyInv
<1> SUFFICES ASSUME OneWay, Init PROVE CopyInv
  OBVIOUS
<1>1. tree["left"] \in Trees("left") /\ tree["right"] \in Trees("right")
  BY DEF Init
<1>2. "left" \in Sides /\ "right" \in Sides
  BY DEF Sides
<1>3. TreesSound
  BY <1>1, <1>2, SyncAssumption DEF TreesSound, Trees, Source, Dest
<1>4. PoolSound
  BY DEF Init, PoolSound, Off
<1>5. QED
  BY <1>3, <1>4
     DEF Init, CopyInv, PlanIsSource, DirsMade, FilesCopied, ReadIsSource, Has, Off, ExtrasQueued,
         OkMeansSynced, InCycle

\* A one-way cycle to a remote destination that returns no error has synced:
\* no error of a worker is lost, whatever a failed cycle has left running.
THEOREM OkIsSynced == OneWay => (Spec => []OkMeansSynced)
<1> SUFFICES ASSUME OneWay
             PROVE  Spec => []OkMeansSynced
  OBVIOUS
<1>1. Init => CopyInv
  BY CopyInit
<1>2. SyncInv /\ CopyInv /\ [Next]_vars => CopyInv'
  <2> SUFFICES ASSUME SyncInv, CopyInv, [Next]_vars PROVE CopyInv'
    OBVIOUS
  <2>1. CASE MainStep \/ Fails
    BY <2>1, MainCopies, MainWrites DEF MainStep
  <2>2. CASE \E w \in Workers : WorkerStep(w)
    BY <2>2, WorkerCopies
  <2>3. QED
    BY <2>1, <2>2, OthersCopy DEF Next
<1>3. CopyInv => OkMeansSynced
  BY DEF CopyInv
<1>4. QED
  BY <1>1, <1>2, <1>3, PlanRules, PTL DEF Spec

-------------------------------------------------------------------------------
\* The newest contents of a path survive.  The argument has two parts: nothing
\* is ever planned or done that would put a directory in the place of a tracked
\* path or a file above it (RoomInv), and as long as no copy is left half way
\* the side that has the newest contents is the one plans take them from
\* (NewestInv).
\*
\* The paths whose newest contents are followed.
Tracked == {p \in Paths : newest[p] # "none"}
\* A worker has truncated p on side s and not yet written it.
Copying(s, p) == \E w \in Workers : worker[w].at = "copy" /\ worker[w].to = s /\ worker[w].file = p

\* There is room for what is tracked: no directory in its place, no file above.
Roomy(t) ==
  /\ WellFormed(t)
  /\ \A p \in Tracked : t[p] # "dir" /\ \A q \in Ancestors[p] : ~IsFile(t[q])
\* An entry at p is in the way of nothing that is tracked.
Fits(p, entry) ==
  /\ Ancestors[p] \cap Tracked = {}
  /\ entry = "dir" => p \notin Tracked
  /\ entry # "dir" => \A q \in Tracked : p \notin Ancestors[q]
\* A worker with a file in hand.
Busy(w) == worker[w].at \in {"taken", "open", "copy"}
\* There is room on both sides, and will be after what is planned or in hand.
RoomInv ==
  /\ \A s \in Sides : Roomy(tree[s])
  /\ Tracked # {} => Bidirectional
  /\ Bidirectional => ~delete
  /\ newest \in [Paths -> Contents \cup {"none"}]
  /\ \A p \in Paths : /\ plan[p] # "none" => Fits(p, plan[p])
                      /\ later[p] # "none" => Fits(p, later[p])
  /\ \A w \in Workers : Busy(w) => Fits(worker[w].file, "file")

\* compareSnapshotEntries prefers side s to other contents: a tie goes left.
Ahead(s, p) ==
  \/ stamp[Other(s)][p] < stamp[s][p]
  \/ s = "left" /\ stamp["right"][p] = stamp["left"][p]
\* Side s has the newest contents, and no later scan will overrule it.
Leads(s, p) ==
  /\ tree[s][p] = newest[p]
  /\ \/ tree[Other(s)][p] \in {"absent", newest[p]}
     \/ Ahead(s, p) \/ Copying(Other(s), p)

\* What the plans take, and have of its time; only one of them takes p.
PlanGives(p) ==
  /\ plan[p] # "none" => tree[From][p] = newest[p] /\ planStamp[p] = stamp[From][p]
  /\ later[p] # "none" => /\ to = "right" /\ plan[p] = "none"
                          /\ tree["right"][p] = newest[p] /\ laterStamp[p] = stamp["right"][p]
\* Only what is being copied is cut or has the time of a later edit.
SidesOf(p) ==
  \A s \in Sides : /\ tree[s][p] = "part" => Copying(s, p)
                   /\ stamp[s][p] < now \/ Copying(s, p)
\* What workers have in hand is what the plan took.
WorkersGive ==
  \A w \in Workers :
    /\ worker[w].at = "copy" => ~worker[w].stale
    /\ Busy(w) /\ ~worker[w].stale => worker[w].time = planStamp[worker[w].file]
    /\ worker[w].at = "copy" /\ worker[w].file \in Tracked =>
         /\ worker[w].read = newest[worker[w].file]
         /\ IsFile(tree[worker[w].to][worker[w].file])
\* One side leads for every tracked path, and the plans and workers go by it.
NewestHeld ==
  /\ ~InCycle => plan = NoPlan /\ later = NoPlan
  /\ WorkersGive
  /\ \A p \in Tracked : PlanGives(p) /\ SidesOf(p) /\ \E s \in Sides : Leads(s, p)
\* So it is before a copy is left half way.
NewestInv == Bidirectional /\ ~halfway => NewestHeld

\* There are two sides.
LEMMA OtherSide ==
  /\ Sides = {"left", "right"}
  /\ \A s \in Sides : Other(s) \in Sides /\ Other(s) # s /\ Other(Other(s)) = s
BY DEF Sides, Other

\* Operations that are not about tracked paths, nor above them, spare them.
LEMMA RoomSpared ==
  ASSUME NEW t \in [Paths -> Nodes], Roomy(t), NEW p \in Paths
  PROVE  /\ p \notin Tracked /\ (\A q \in Tracked : p \notin Ancestors[q]) =>
              Roomy(Without(t, p)) /\ \A q \in Tracked : Without(t, p)[q] = t[q]
         /\ Fits(p, "dir") =>
              LET u == WithDirs(t, Ancestors[p] \cup {p}) IN
              Roomy(u) /\ \A q \in Tracked : u[q] = t[q]
         /\ Fits(p, "file") =>
              LET u == WithDirs(t, Ancestors[p]) IN
              Roomy(u) /\ \A q \in Tracked : u[q] = t[q]
<1>. USE DEF Tracked, Roomy
<1>1. \A q \in Paths : Ancestors[q] \subseteq Paths
  BY Above
<1>2. ASSUME p \notin Tracked, \A q \in Tracked : p \notin Ancestors[q]
      PROVE  Roomy(Without(t, p)) /\ \A q \in Tracked : Without(t, p)[q] = t[q]
  <2>1. \A q \in Tracked : Without(t, p)[q] = t[q]
    BY <1>2 DEF Without
  <2>2. \A q \in Paths : Without(t, p)[q] \in {"absent", t[q]}
    BY DEF Without
  <2>3. WellFormed(Without(t, p))
    BY StaysWellFormed
  <2>. QED
    BY <1>1, <2>1, <2>2, <2>3, NodesDiffer
<1>3. ASSUME NEW dirs \in {Ancestors[p], Ancestors[p] \cup {p}}, dirs \cap Tracked = {}
      PROVE  Roomy(WithDirs(t, dirs)) /\ \A q \in Tracked : WithDirs(t, dirs)[q] = t[q]
  <2>1. \A q \in Tracked : WithDirs(t, dirs)[q] = t[q]
    BY <1>3 DEF WithDirs
  <2>2. \A q \in Paths : WithDirs(t, dirs)[q] \in {"dir", t[q]}
    BY DEF WithDirs
  <2>3. WellFormed(WithDirs(t, dirs))
    BY <1>3, StaysWellFormed
  <2>. QED
    BY <1>1, <2>1, <2>2, <2>3, NodesDiffer
<1>. QED
  BY <1>2, <1>3 DEF Fits

\* A side that becomes t gives a tracked path a new time only if its contents
\* change: nothing is below it.
LEMMA TrackedTimes ==
  ASSUME SyncInv, NEW s \in Sides, Roomy(tree[s]), NEW t \in [Paths -> Nodes], Roomy(t), Becomes(s, t)
  PROVE  /\ tree'[s] = t /\ tree'[Other(s)] = tree[Other(s)] /\ stamp'[Other(s)] = stamp[Other(s)]
         /\ \A p \in Tracked :
              stamp'[s][p] = IF Bidirectional /\ t[p] # tree[s][p] THEN now ELSE stamp[s][p]
<1>1. tree'[s] = t /\ tree'[Other(s)] = tree[Other(s)]
  BY BecomesTyped DEF SyncInv
<1>2. stamp' = [stamp EXCEPT ![s] = Retimed(s, t)] /\ stamp \in [Sides -> [Paths -> Nat]]
  BY DEF Becomes, SyncInv, Typed
<1>3. stamp'[s] = Retimed(s, t) /\ stamp'[Other(s)] = stamp[Other(s)]
  BY <1>2, OtherSide
<1>4. ASSUME NEW p \in Tracked, NEW q \in Paths, IsParent(p, q)
      PROVE  (t[q] = "absent") = (tree[s][q] = "absent")
  <2>1. p \in Ancestors[q] /\ t[p] # "dir" /\ tree[s][p] # "dir"
    BY <1>4 DEF IsParent, Roomy
  <2>2. t[q] = "absent" /\ tree[s][q] = "absent"
    BY <2>1 DEF Roomy, WellFormed
  <2>. QED
    BY <2>2
<1>5. ASSUME NEW p \in Tracked
      PROVE  Retimed(s, t)[p] = IF Bidirectional /\ t[p] # tree[s][p] THEN now ELSE stamp[s][p]
  BY <1>4 DEF Retimed, Tracked
<1>. QED
  BY <1>1, <1>3, <1>5

\* A plan made from trees that have room for what is tracked has it as well.
LEMMA PlanFits ==
  ASSUME SyncInv, NEW s \in Sides, Roomy(tree[s]), NEW p \in Paths, PlanOf(s)[p] # "none"
  PROVE  Fits(p, PlanOf(s)[p])
<1>1. tree[s][p] # "absent" /\ PlanOf(s)[p] = Entry(tree[s][p]) /\ tree[s][p] \in Nodes
  BY DEF PlanOf, Gives, SyncInv, Typed
<1>2. Ancestors[p] \cap Tracked = {}
  BY <1>1, Above DEF Roomy, WellFormed
<1>3. PlanOf(s)[p] = "dir" <=> tree[s][p] = "dir"
  BY <1>1, SyncAssumption DEF Entry
<1>4. PlanOf(s)[p] # "dir" => IsFile(tree[s][p])
  BY <1>1, <1>3, NodesDiffer
<1>. QED
  BY <1>2, <1>3, <1>4 DEF Fits, Roomy, Tracked

\* So does a file that changes or goes.
LEMMA FileChanges ==
  ASSUME NEW t \in [Paths -> Nodes], Roomy(t), NEW p \in Paths, IsFile(t[p]),
         NEW node \in Nodes, node # "dir"
  PROVE  Roomy([t EXCEPT ![p] = node])
<1>. DEFINE u == [t EXCEPT ![p] = node]
<1>1. \A q \in Paths : u[q] = IF q = p THEN node ELSE t[q]
  OBVIOUS
<1>2. t[p] # "dir" /\ t[p] # "absent"
  BY NodesDiffer
<1>3. WellFormed(u)
  BY <1>1, <1>2, Above DEF Roomy, WellFormed
<1>4. \A q \in Tracked : u[q] # "dir" /\ \A r \in Ancestors[q] : ~IsFile(u[r])
  BY <1>1, Above DEF Roomy, Tracked
<1>. QED
  BY <1>3, <1>4 DEF Roomy

\* What is tracked stays as it is, on either side.
TrackedKept == \A s \in Sides, p \in Tracked : tree'[s][p] = tree[s][p] /\ stamp'[s][p] = stamp[s][p]

\* A step that changes one side, and there nothing tracked.
LEMMA SideSpared ==
  ASSUME SyncInv, RoomInv, NEW s \in Sides, NEW t \in [Paths -> Nodes], Roomy(t),
         \A q \in Tracked : t[q] = tree[s][q], Becomes(s, t) \/ UNCHANGED treeVars
  PROVE  TrackedKept /\ \A r \in Sides : Roomy(tree'[r])
<1>1. \A r \in Sides : r = s \/ r = Other(s)
  BY OtherSide
<1>2. CASE Becomes(s, t)
  <2>1. /\ tree'[s] = t /\ tree'[Other(s)] = tree[Other(s)] /\ stamp'[Other(s)] = stamp[Other(s)]
        /\ \A p \in Tracked : stamp'[s][p] = stamp[s][p]
    BY <1>2, TrackedTimes DEF RoomInv
  <2>. QED
    BY <1>1, <2>1, OtherSide DEF RoomInv, TrackedKept
<1>3. CASE UNCHANGED treeVars
  BY <1>3 DEF RoomInv, TrackedKept, treeVars
<1>. QED
  BY <1>2, <1>3

\* The main goroutine touches no tracked path: what it clears or deletes is not
\* one, nor above one.
LEMMA MainSpares ==
  ASSUME SyncInv, RoomInv, MainStep \/ Fails
  PROVE  TrackedKept /\ \A r \in Sides : Roomy(tree'[r])
<1>. USE DEF SyncInv
<1>0. to \in Sides /\ tree[to] \in [Paths -> Nodes] /\ Roomy(tree[to])
  BY DEF Typed, RoomInv
<1>1. CASE EnsureDirectory
  <2>. DEFINE p == First(queue)
  <2>. DEFINE t == EnsureCleared(p)
  <2>. DEFINE u == WithDirs(t, Ancestors[p] \cup {p})
  <2>1. p \in Paths /\ plan[p] = "dir"
    BY <1>1, FirstLast DEF Typed, EnsureDirectory, LoopsFollowPlan, Directories
  <2>2. Fits(p, "dir")
    BY <2>1 DEF RoomInv
  <2>3. Roomy(t) /\ t \in [Paths -> Nodes] /\ \A q \in Tracked : t[q] = tree[to][q]
    <3>1. CASE IsFile(tree[to][p])
      <4>1. p \notin Tracked /\ \A q \in Tracked : p \notin Ancestors[q]
        BY <1>0, <2>2, <3>1 DEF Fits, Roomy
      <4>. QED
        <5>1. t = Without(tree[to], p)
          BY <3>1 DEF EnsureCleared
        <5>2. Without(tree[to], p) \in [Paths -> Nodes]
          BY <1>0, <2>1, TreeOps
        <5>3. /\ Roomy(Without(tree[to], p))
              /\ \A q \in Tracked : Without(tree[to], p)[q] = tree[to][q]
          BY <1>0, <2>1, <4>1, RoomSpared
        <5>. HIDE DEF t
        <5>. QED
          BY <5>1, <5>2, <5>3
    <3>2. CASE ~IsFile(tree[to][p])
      BY <1>0, <3>2 DEF EnsureCleared
    <3>. QED
      BY <3>1, <3>2
  <2>4. Roomy(u) /\ \A q \in Tracked : u[q] = tree[to][q]
    BY <2>1, <2>2, <2>3, RoomSpared
  <2>5. u \in [Paths -> Nodes]
    BY <2>1, <2>3, TreeOps, Above
  <2>6. Becomes(to, u) \/ UNCHANGED treeVars
    BY <1>1 DEF EnsureDirectory
  <2>. QED
    BY <1>0, <2>4, <2>5, <2>6, SideSpared
<1>2. CASE DeletePath
  <2>. DEFINE t == Without(tree[to], Last(queue))
  <2>1. Last(queue) \in Paths /\ queue # {} /\ delete
    BY <1>2, FirstLast DEF Typed, DeletePath, LoopsFollowPlan
  <2>2. Tracked = {}
    BY <2>1 DEF RoomInv
  <2>3. Roomy(t) /\ t \in [Paths -> Nodes]
    BY <1>0, <2>1, <2>2, RoomSpared, TreeOps
  <2>4. Becomes(to, t) \/ UNCHANGED treeVars
    BY <1>2 DEF DeletePath
  <2>. QED
    BY <1>0, <2>2, <2>3, <2>4, SideSpared
<1>3. CASE UNCHANGED treeVars
  BY <1>0, <1>3, SideSpared
<1>4. MainStep \/ Fails => EnsureDirectory \/ DeletePath \/ QuietStep
  BY DEF MainStep, QuietStep
<1>. QED
  BY <1>1, <1>2, <1>3, <1>4, QuietSteps

\* What a worker writes to a path that is not tracked.
LEMMA WorkerRoom ==
  ASSUME SyncInv, RoomInv, NEW w \in Workers, WorkerStep(w)
  PROVE  /\ \A r \in Sides : Roomy(tree'[r])
         /\ BeginCopy(w) \/ worker[w].file \notin Tracked => TrackedKept
         /\ OpenFiles(w) /\ worker'[w].at # "copy" => TrackedKept
<1>. USE DEF SyncInv
<1>. DEFINE p == worker[w].file
<1>. DEFINE s == worker[w].to
<1>1. s \in Sides /\ worker[w] \in WorkerStates
  BY DEF Typed, WorkerStates
<1>2. tree[s] \in [Paths -> Nodes] /\ Roomy(tree[s]) /\ (Busy(w) => p \in Paths /\ Fits(p, "file"))
  BY <1>1 DEF Typed, RoomInv, WorkersFollowPlan, Busy
<1>3. CASE UNCHANGED treeVars
  BY <1>1, <1>2, <1>3, SideSpared
<1>4. CASE BeginCopy(w) /\ ~UNCHANGED treeVars
  <2>1. Busy(w) /\ tree[s][p] = "dir" /\ Becomes(s, Without(tree[s], p))
    BY <1>4 DEF BeginCopy, Busy
  <2>2. p \notin Tracked /\ \A q \in Tracked : p \notin Ancestors[q]
    BY <1>2, <2>1 DEF Fits, Roomy
  <2>. DEFINE t == Without(tree[s], p)
  <2>3. t \in [Paths -> Nodes] /\ Roomy(t) /\ \A q \in Tracked : t[q] = tree[s][q]
    BY <1>2, <2>1, <2>2, RoomSpared, TreeOps
  <2>. HIDE DEF t
  <2>. QED
    BY <1>1, <2>1, <2>3, SideSpared DEF t
<1>5. CASE OpenFiles(w) /\ ~UNCHANGED treeVars
  <2>. DEFINE t == WithDirs(tree[s], Ancestors[p])
  <2>. DEFINE u == [t EXCEPT ![p] = "part"]
  <2>1. /\ Busy(w) /\ ~MkdirFails(tree[s], Ancestors[p]) /\ ~BeginCopy(w)
        /\ \/ Becomes(s, t)
           \/ Becomes(s, u) /\ tree[s][p] # "dir" /\ worker'[w].at = "copy"
    BY <1>1, <1>5 DEF OpenFiles, BeginCopy, Busy, CannotOpen, Typed, WorkerStates
  <2>0. p \in Paths /\ Fits(p, "file") /\ Ancestors[p] \in SUBSET Paths
    BY <1>2, <2>1, Above
  <2>2. Roomy(t) /\ t \in [Paths -> Nodes] /\ \A q \in Tracked : t[q] = tree[s][q]
    <3>1. t \in [Paths -> Nodes]
      BY <1>2, <2>0, TreeOps
    <3>2. Roomy(t) /\ \A q \in Tracked : t[q] = tree[s][q]
      BY <1>2, <2>0, RoomSpared
    <3>. QED
      BY <3>1, <3>2
  <2>3. CASE Becomes(s, t)
    BY <1>1, <2>2, <2>3, SideSpared
  <2>4. CASE Becomes(s, u) /\ tree[s][p] # "dir" /\ worker'[w].at = "copy"
    <3>1. u \in [Paths -> Nodes] /\ t[p] # "dir" /\ \A q \in Ancestors[p] : t[q] = "dir"
      <4>1. u \in [Paths -> Nodes]
        BY <2>2, NodesDiffer
      <4>2. p \notin Ancestors[p]
        BY <2>0, Above
      <4>. QED
        BY <2>0, <2>4, <4>1, <4>2 DEF WithDirs
    <3>2. WellFormed(u)
      BY <1>2, <2>1, <2>2, <3>1, StaysWellFormed, NodesDiffer DEF Roomy
    <3>3. \A q \in Paths : u[q] = IF q = p THEN "part" ELSE t[q]
      BY <2>2
    <3>4. \A q \in Tracked : u[q] # "dir" /\ \A r \in Ancestors[q] : ~IsFile(u[r])
      BY <1>2, <2>1, <2>2, <3>3, Above DEF Roomy, Tracked, Fits
    <3>5. Roomy(u)
      BY <3>2, <3>4 DEF Roomy
    <3>6. tree'[s] = u /\ tree'[Other(s)] = tree[Other(s)]
      BY <1>1, <2>4, <3>1, BecomesTyped
    <3>7. \A r \in Sides : Roomy(tree'[r])
      BY <1>1, <3>5, <3>6, OtherSide DEF RoomInv
    <3>8. p \notin Tracked => \A q \in Tracked : u[q] = tree[s][q]
      BY <2>2, <3>3
    <3>. QED
      BY <1>1, <2>1, <2>4, <3>1, <3>5, <3>7, <3>8, SideSpared
  <2>. QED
    BY <2>1, <2>3, <2>4
<1>6. CASE (CopyFile(w) \/ CutCopy(w)) /\ ~UNCHANGED treeVars
  <2>. DEFINE time == worker[w].time
  <2>1. PICK node \in Nodes : IsFile(node) /\ Written(w, node, time) /\ Busy(w)
    BY <1>6, NodesDiffer DEF CopyFile, CutCopy, Busy, Nodes, IsFile
  <2>2. /\ IsFile(tree[s][p])
        /\ tree' = [tree EXCEPT ![s][p] = node] /\ stamp' = [stamp EXCEPT ![s][p] = time]
    BY <1>6, <2>1 DEF Written
  <2>3. node # "dir" /\ Roomy([tree[s] EXCEPT ![p] = node])
    BY <1>2, <2>1, <2>2, NodesDiffer, FileChanges
  <2>4. tree'[s] = [tree[s] EXCEPT ![p] = node] /\ tree'[Other(s)] = tree[Other(s)]
    BY <1>1, <2>2, OtherSide DEF Typed
  <2>5. p \notin Tracked => TrackedKept
    BY <1>1, <2>2 DEF Typed, TrackedKept, Tracked
  <2>. QED
    BY <1>1, <2>3, <2>4, <2>5, <1>6, OtherSide DEF RoomInv, BeginCopy, OpenFiles, CopyFile, CutCopy
<1>7. NoMoreTasks(w) => UNCHANGED treeVars
  BY DEF NoMoreTasks
<1>. QED
  BY <1>3, <1>4, <1>5, <1>6, <1>7 DEF WorkerStep

-------------------------------------------------------------------------------
\* Who is busy after a step was busy with the same file, or took one of the plan.
LEMMA RoomFollows ==
  ASSUME SyncInv, RoomInv, \A r \in Sides : Roomy(tree'[r]), UNCHANGED <<newest, delete>>,
         \A p \in Paths : /\ plan'[p] # "none" => Fits(p, plan'[p])
                          /\ later'[p] # "none" => Fits(p, later'[p]),
         \A w \in Workers : Busy(w)' => \/ Busy(w) /\ worker'[w].file = worker[w].file
                                        \/ worker'[w].file \in Files(plan)
  PROVE  RoomInv'
<1>1. Tracked' = Tracked
  BY DEF Tracked
<1>2. ASSUME NEW p \in Paths, p \in Files(plan) PROVE Fits(p, "file")
  <2>1. plan[p] # "none" /\ plan[p] # "dir"
    BY <1>2, SyncAssumption DEF Files, IsFile
  <2>. QED
    BY <2>1 DEF RoomInv, Fits
<1>3. \A w \in Workers : Busy(w)' => Fits(worker'[w].file, "file")
  BY <1>2 DEF RoomInv, Files
<1>4. \A t : Roomy(t) => Roomy(t)'
  BY <1>1 DEF Roomy, WellFormed
<1>5. \A p, entry : Fits(p, entry) => Fits(p, entry)'
  BY <1>1 DEF Fits
<1>. QED
  BY <1>1, <1>3, <1>4, <1>5 DEF RoomInv

\* What a step does to what is planned and in hand.
LEMMA PlansAndHands ==
  ASSUME SyncInv, RoomInv, MainStep \/ Fails \/ Stop \/ Feeder \/ Interrupt \/ Terminated
                           \/ UNCHANGED vars \/ \E w \in Workers : WorkerStep(w)
  PROVE  /\ UNCHANGED <<newest, delete, now>>
         /\ \A w \in Workers : Busy(w)' => \/ Busy(w) /\ worker'[w].file = worker[w].file
                                           \/ worker'[w].file \in Files(plan)
         /\ \A p \in Paths : /\ plan'[p] # "none" => Fits(p, plan'[p])
                             /\ later'[p] # "none" => Fits(p, later'[p])
<1>. USE DEF SyncInv, Busy
<1>. DEFINE
       Hands == \A w \in Workers : Busy(w)' => \/ Busy(w) /\ worker'[w].file = worker[w].file
                                               \/ worker'[w].file \in Files(plan)
       Plans == \A p \in Paths : /\ plan'[p] # "none" => Fits(p, plan'[p])
                                 /\ later'[p] # "none" => Fits(p, later'[p])
       Rest == UNCHANGED <<newest, delete, now>>
<1>1. UNCHANGED worker => Hands
  OBVIOUS
<1>2. UNCHANGED planVars => Plans
  BY DEF RoomInv, planVars
<1>3. ASSUME NEW r, Return(r) PROVE Hands /\ Plans
  BY <1>3 DEF Return, NoPlan, Typed, WorkerStates, Off
<1>4. CASE Scan
  <2>1. plan' = PlanOf("left") /\ later' \in {later, PlanOf("right")} /\ UNCHANGED worker /\ Rest
    BY <1>4 DEF Scan, poolVars
  <2>2. Plans
    BY <2>1, PlanFits, OtherSide DEF RoomInv
  <2>. QED
    BY <1>1, <2>1, <2>2
<1>5. CASE SecondPlan
  <2>1. plan' = later /\ later' = NoPlan /\ UNCHANGED worker /\ Rest
    BY <1>5 DEF SecondPlan, poolVars, userVars
  <2>2. Plans
    BY <2>1 DEF RoomInv, NoPlan
  <2>. QED
    BY <1>1, <2>1, <2>2
<1>6. CASE StartPool
  <2>1. Plans /\ Rest
    BY <1>2, <1>6 DEF StartPool, userVars
  <2>2. Hands
    BY <1>6 DEF StartPool, Off, Typed
  <2>. QED
    BY <2>1, <2>2
<1>7. CASE EnsureDirectory \/ FileNeedsCopy \/ CopyFailed \/ CycleDone \/ Fails
  <2>1. Rest /\ ((UNCHANGED worker /\ UNCHANGED planVars) \/ \E r : Return(r))
    BY <1>7 DEF EnsureDirectory, FileNeedsCopy, CopyFailed, CycleDone, Fails, userVars, poolVars
  <2>. QED
    BY <1>1, <1>2, <1>3, <2>1
<1>8. CASE \/ DirectoriesEnsured \/ NothingToCopy \/ CopiesDone \/ Sweep \/ DeletePath \/ CloseTasks
           \/ Interrupt \/ Terminated \/ UNCHANGED vars
  <2>1. Rest /\ UNCHANGED worker /\ UNCHANGED planVars
    BY <1>8 DEF DirectoriesEnsured, NothingToCopy, CopiesDone, Sweep, DeletePath, CloseTasks,
                Interrupt, Terminated, vars, userVars, poolVars
  <2>. QED
    BY <1>1, <1>2, <2>1
<1>9. CASE Stop
  <2>1. Plans /\ Rest
    BY <1>2, <1>9 DEF Stop, userVars
  <2>2. Hands
    BY <1>9 DEF Stop, Off
  <2>. QED
    BY <2>1, <2>2
<1>10. ASSUME NEW w \in Workers, Feed(w) PROVE Plans /\ Rest /\ Hands
  <2>1. Plans /\ Rest
    BY <1>2, <1>10 DEF Feed, userVars
  <2>2. First(queue) \in Files(plan)
    BY <1>10, FirstLast DEF Typed, LoopsFollowPlan, Feed
  <2>3. Hands
    BY <1>10, <2>2 DEF Feed, Typed, WorkerStates
  <2>. QED
    BY <2>1, <2>3
<1>11. ASSUME NEW w \in Workers, WorkerStep(w) PROVE Plans /\ Rest /\ Hands
  <2>1. Plans /\ Rest
    BY <1>2, <1>11 DEF WorkerStep, NoMoreTasks, BeginCopy, OpenFiles, CopyFile, CutCopy, userVars
  <2>2. /\ \A v \in Workers : v # w => worker'[v] = worker[v]
        /\ worker'[w].at \in {"off", "ready"} \/ (Busy(w) /\ worker'[w].file = worker[w].file)
    <3>1. \/ WorkerOff(w) \/ NextFile(w)
          \/ worker[w].at = "taken" /\ WorkerGoto(w, "open")
          \/ \E node : worker[w].at = "open" /\ worker' = [worker EXCEPT ![w].at = "copy", ![w].read = node]
      BY <1>11 DEF WorkerStep, NoMoreTasks, BeginCopy, OpenFiles, CopyFile, CutCopy, WorkerFails
    <3>2. worker \in [Workers -> WorkerStates] /\ Off.at = "off"
      BY DEF Typed, Off
    <3>3. CASE WorkerOff(w) \/ NextFile(w)
      BY <3>2, <3>3 DEF WorkerOff, NextFile, Off
    <3>4. CASE worker[w].at = "taken" /\ WorkerGoto(w, "open")
      BY <3>2, <3>4 DEF WorkerGoto, WorkerStates
    <3>5. ASSUME NEW node, worker[w].at = "open", worker' = [worker EXCEPT ![w].at = "copy", ![w].read = node]
          PROVE  /\ \A v \in Workers : v # w => worker'[v] = worker[v]
                 /\ worker'[w].file = worker[w].file
      BY <3>2, <3>5 DEF WorkerStates
    <3>. QED
      BY <3>1, <3>3, <3>4, <3>5
  <2>3. Hands
    BY <2>2
  <2>. QED
    BY <2>1, <2>3
<1>. QED
  BY <1>4, <1>5, <1>6, <1>7, <1>8, <1>9, <1>10, <1>11 DEF MainStep, Feeder

\* An edit changes or removes a file, and what is newest only where it is tracked.
LEMMA EditRoom ==
  ASSUME SyncInv, RoomInv, NEW s \in Sides, NEW p \in Paths, Edit(s, p)
  PROVE  RoomInv' /\ Tracked' = Tracked
<1>1. PICK node \in Contents \cup (IF Bidirectional THEN {} ELSE {"absent"}) :
        /\ IsFile(tree[s][p])
        /\ tree' = [tree EXCEPT ![s][p] = node]
        /\ newest' = IF newest[p] = "none" THEN newest ELSE [newest EXCEPT ![p] = node]
        /\ UNCHANGED <<delete, planVars, poolVars>>
  BY DEF Edit
<1>2. node \in Nodes /\ node # "dir" /\ tree[s] \in [Paths -> Nodes] /\ Roomy(tree[s])
  BY SyncAssumption DEF Nodes, SyncInv, Typed, RoomInv
<1>3. tree'[s] = [tree[s] EXCEPT ![p] = node] /\ \A r \in Sides : r # s => tree'[r] = tree[r]
  BY <1>1 DEF SyncInv, Typed
<1>4. \A r \in Sides : Roomy(tree'[r])
  BY <1>1, <1>2, <1>3, FileChanges DEF RoomInv
<1>5. p \in Tracked => node \in Contents
  BY <1>1 DEF RoomInv
<1>6. newest' \in [Paths -> Contents \cup {"none"}] /\ \A q \in Paths : newest'[q] = "none" <=> newest[q] = "none"
  <2>1. CASE p \notin Tracked
    BY <1>1, <2>1 DEF RoomInv, Tracked
  <2>2. CASE p \in Tracked
    <3>1. newest' = [newest EXCEPT ![p] = node] /\ node # "none"
      BY <1>1, <1>5, <2>2, SyncAssumption DEF Tracked
    <3>. QED
      BY <1>5, <2>2, <3>1 DEF RoomInv, Tracked
  <2>. QED
    BY <2>1, <2>2
<1>7. Tracked' = Tracked
  BY <1>6 DEF Tracked
<1>8. \A t : Roomy(t) => Roomy(t)'
  BY <1>7 DEF Roomy, WellFormed
<1>9. \A q, entry : Fits(q, entry) => Fits(q, entry)'
  BY <1>7 DEF Fits
<1>10. \A w \in Workers : Busy(w)' <=> Busy(w)
  BY <1>1 DEF Busy, poolVars
<1>11. plan' = plan /\ later' = later /\ worker' = worker /\ delete' = delete
  BY <1>1 DEF planVars, poolVars
<1>. QED
  BY <1>4, <1>6, <1>7, <1>8, <1>9, <1>10, <1>11 DEF RoomInv

\* RoomInv holds on, and what is tracked does not change.
LEMMA RoomNext ==
  ASSUME SyncInv, RoomInv, [Next]_vars
  PROVE  RoomInv' /\ Tracked' = Tracked
<1>1. CASE \E s \in Sides, p \in Paths : Edit(s, p)
  BY <1>1, EditRoom
<1>2. CASE MainStep \/ Fails \/ Stop \/ Feeder \/ Interrupt \/ Terminated \/ UNCHANGED vars
           \/ \E w \in Workers : WorkerStep(w)
  <2>1. \A r \in Sides : Roomy(tree'[r])
    <3>1. CASE MainStep \/ Fails
      BY <3>1, MainSpares
    <3>2. CASE \E w \in Workers : WorkerStep(w)
      BY <3>2, WorkerRoom
    <3>3. CASE Stop \/ Feeder \/ Interrupt \/ Terminated \/ UNCHANGED vars
      <4>1. UNCHANGED treeVars
        BY <3>3, QuietSteps DEF QuietStep, Feeder, vars
      <4>. QED
        BY <4>1 DEF RoomInv, treeVars
    <3>. QED
      BY <1>2, <3>1, <3>2, <3>3
  <2>. QED
    BY <1>2, <2>1, PlansAndHands, RoomFollows DEF Tracked
<1>. QED
  BY <1>1, <1>2 DEF Next

\* The trees at first have room for all that is tracked: what is contested is not.
LEMMA RoomInit == Init => RoomInv
<1> SUFFICES ASSUME Init PROVE RoomInv
  OBVIOUS
<1>1. PICK l \in Trees("left"), r \in Trees("right") : tree = [left |-> l, right |-> r]
  BY DEF Init
<1>2. /\ l \in [Paths -> {"absent", "dir"} \cup Contents] /\ WellFormed(l)
      /\ r \in [Paths -> {"absent", "dir"} \cup Contents] /\ WellFormed(r)
      /\ tree["left"] = l /\ tree["right"] = r
  <2>1. Original["left"] \subseteq Contents /\ Original["right"] \subseteq Contents
    BY SyncAssumption DEF Sides
  <2>. QED
    BY <1>1, <2>1 DEF Trees
<1>3. ~Bidirectional => newest = NoPlan
  BY DEF Init
<1>4. Bidirectional => newest = Newest(l, r, stamp["left"], stamp["right"])
  BY <1>2 DEF Init
<1>5. \A p \in Paths : /\ IsFile(l[p]) <=> l[p] \in Contents
                       /\ IsFile(r[p]) <=> r[p] \in Contents
  BY <1>2, SyncAssumption DEF IsFile
<1>6. newest \in [Paths -> Contents \cup {"none"}]
  BY <1>3, <1>4, <1>5 DEF NoPlan, Newest
<1>7. Tracked # {} => Bidirectional
  BY <1>3 DEF Tracked, NoPlan
<1>8. ASSUME NEW p \in Tracked
      PROVE  /\ Bidirectional /\ p \in Paths /\ ~Contested(l, r, p) /\ (IsFile(l[p]) \/ IsFile(r[p]))
             /\ newest[p] = IF IsFile(l[p]) /\ (IsFile(r[p]) => stamp["left"][p] >= stamp["right"][p]) THEN l[p] ELSE r[p]
  <2>1. Bidirectional /\ p \in Paths /\ newest[p] # "none"
    BY <1>7, <1>8 DEF Tracked
  <2>. QED
    BY <1>4, <2>1 DEF Newest
<1>9. ASSUME NEW p \in Tracked
      PROVE  /\ l[p] # "dir" /\ r[p] # "dir"
             /\ \A q \in Ancestors[p] : ~IsFile(l[q]) /\ ~IsFile(r[q])
  <2>1. p \in Paths /\ Ancestors[p] \subseteq Paths /\ ~IsFile("dir") /\ ~IsFile("absent")
    BY <1>8, Above, NodesDiffer
  <2>2. \A q \in Ancestors[p] \cup {p} : ~(l[q] = "dir" /\ IsFile(r[q])) /\ ~(r[q] = "dir" /\ IsFile(l[q]))
    BY <1>8 DEF Contested
  <2>3. CASE IsFile(l[p])
    <3>1. \A q \in Ancestors[p] : l[q] = "dir"
      BY <1>2, <2>1, <2>3 DEF WellFormed
    <3>. QED
      BY <2>1, <2>2, <2>3, <3>1
  <2>4. CASE IsFile(r[p])
    <3>1. \A q \in Ancestors[p] : r[q] = "dir"
      BY <1>2, <2>1, <2>4 DEF WellFormed
    <3>. QED
      BY <2>1, <2>2, <2>4, <3>1
  <2>. QED
    BY <1>8, <2>3, <2>4
<1>10. \A s \in Sides : Roomy(tree[s])
  BY <1>2, <1>9, OtherSide DEF Roomy
<1>11. plan = NoPlan /\ later = NoPlan /\ \A w \in Workers : ~Busy(w)
  BY DEF Init, Busy, Off
<1>12. Bidirectional => ~delete
  BY DEF Init
<1>. QED
  BY <1>6, <1>7, <1>10, <1>11, <1>12 DEF RoomInv, NoPlan

-------------------------------------------------------------------------------
\* A worker that puts nothing at a tracked path, nor gives one up.
Moves(w) ==
  \/ worker'[w] = worker[w]
  \/ /\ worker'[w].at \in {"off", "ready"}
     /\ worker[w].at = "copy" => worker[w].file \notin Tracked
  \/ worker[w].at = "taken" /\ worker'[w] = [worker[w] EXCEPT !.at = "open"]
  \/ /\ worker'[w].at = "taken" /\ worker[w].at # "copy"
     /\ worker'[w].time = planStamp[worker'[w].file]
  \/ /\ worker[w].at = "open" /\ ~worker[w].stale /\ worker[w].file \notin Tracked
     /\ \E node : worker'[w] = [worker[w] EXCEPT !.at = "copy", !.read = node]

\* Whose copy is under way, and where it goes, does not change then.
LEMMA SameCopies ==
  ASSUME SyncInv, \A w \in Workers : Moves(w)
  PROVE  /\ \A w \in Workers : worker[w].at = "copy" /\ worker[w].file \in Tracked => worker'[w] = worker[w]
         /\ \A w \in Workers : worker'[w].at = "copy" /\ worker'[w].file \in Tracked => worker'[w] = worker[w]
         /\ \A s, p : p \in Tracked => (Copying(s, p)' <=> Copying(s, p))
<1>. USE DEF SyncInv, Typed, WorkerStates
<1>1. ASSUME NEW w \in Workers, worker[w].at = "copy", worker[w].file \in Tracked PROVE worker'[w] = worker[w]
  BY <1>1 DEF Moves
<1>2. ASSUME NEW w \in Workers, worker'[w].at = "copy", worker'[w].file \in Tracked PROVE worker'[w] = worker[w]
  <2>1. worker[w] \in WorkerStates
    OBVIOUS
  <2>. QED
    BY <1>2, <2>1 DEF Moves
<1>. QED
  BY <1>1, <1>2 DEF Copying

\* A step that neither touches what is tracked nor plans keeps the newest.
LEMMA QuietNewest ==
  ASSUME SyncInv, RoomInv, NewestInv, TrackedKept, UNCHANGED <<newest, now, planVars, halfway>>,
         ~InCycle' => ~InCycle, \A w \in Workers : Moves(w)
  PROVE  NewestInv'
<1>. SUFFICES ASSUME Bidirectional, ~halfway, NewestHeld
              PROVE  NewestHeld'
  BY DEF NewestInv
<1>1. Tracked' = Tracked /\ \A p \in Tracked : newest'[p] = newest[p]
  BY DEF Tracked
<1>2. \A s \in Sides, p \in Tracked : /\ tree'[s][p] = tree[s][p] /\ stamp'[s][p] = stamp[s][p]
                                      /\ Copying(s, p)' <=> Copying(s, p)
  BY SameCopies DEF TrackedKept
<1>3. UNCHANGED <<plan, planStamp, later, laterStamp, to, now>> /\ From' = From /\ From \in Sides
  BY OtherSide DEF planVars, From, SyncInv, Typed
<1>4. WorkersGive'
  <2>. SUFFICES ASSUME NEW w \in Workers
                PROVE  /\ worker'[w].at = "copy" => ~worker'[w].stale
                       /\ Busy(w)' /\ ~worker'[w].stale => worker'[w].time = planStamp[worker'[w].file]
                       /\ worker'[w].at = "copy" /\ worker'[w].file \in Tracked =>
                            /\ worker'[w].read = newest[worker'[w].file]
                            /\ IsFile(tree'[worker'[w].to][worker'[w].file])
    BY <1>1, <1>3 DEF WorkersGive
  <2>1. /\ worker[w] \in WorkerStates
        /\ worker[w].at = "copy" => ~worker[w].stale
        /\ Busy(w) /\ ~worker[w].stale => worker[w].time = planStamp[worker[w].file]
        /\ worker[w].at = "copy" /\ worker[w].file \in Tracked =>
             /\ worker[w].read = newest[worker[w].file]
             /\ IsFile(tree[worker[w].to][worker[w].file])
    BY DEF NewestHeld, WorkersGive, SyncInv, Typed
  <2>2. /\ worker'[w].at = "copy" => ~worker'[w].stale
        /\ Busy(w)' /\ ~worker'[w].stale => worker'[w].time = planStamp[worker'[w].file]
    BY <2>1 DEF Moves, Busy, WorkerStates
  <2>3. worker'[w].at = "copy" /\ worker'[w].file \in Tracked =>
                            /\ worker'[w].read = newest[worker'[w].file]
                            /\ IsFile(tree'[worker'[w].to][worker'[w].file])
    BY <1>2, <2>1, SameCopies DEF WorkerStates
  <2>. QED
    BY <2>2, <2>3
<1>5. ~InCycle' => plan' = NoPlan /\ later' = NoPlan
  BY <1>3 DEF NewestHeld
<1>6. ASSUME NEW p \in Tracked PROVE (PlanGives(p) /\ SidesOf(p) /\ \E s \in Sides : Leads(s, p))'
  <2>1. PlanGives(p)'
    BY <1>1, <1>2, <1>3, OtherSide DEF NewestHeld, PlanGives
  <2>2. SidesOf(p)'
    BY <1>2, <1>3 DEF NewestHeld, SidesOf
  <2>3. ASSUME NEW s \in Sides, Leads(s, p) PROVE Leads(s, p)'
    BY <1>1, <1>2, <2>3, OtherSide DEF Leads, Ahead
  <2>. QED
    BY <2>1, <2>2, <2>3 DEF NewestHeld
<1>. QED
  BY <1>1, <1>4, <1>5, <1>6 DEF NewestHeld

\* Between cycles nothing is under way.
LEMMA AtRest ==
  ASSUME SyncInv, NewestHeld, \A w \in Workers : worker[w].at # "copy", NEW p \in Tracked
  PROVE  /\ \A s \in Sides : ~Copying(s, p) /\ tree[s][p] # "part" /\ stamp[s][p] < now
         /\ \E s \in Sides : /\ tree[s][p] = newest[p]
                             /\ tree[Other(s)][p] \in {"absent", newest[p]} \/ Ahead(s, p)
<1>1. \A s \in Sides : ~Copying(s, p)
  BY DEF Copying
<1>. QED
  BY <1>1, OtherSide DEF NewestHeld, SidesOf, Leads

\* A cycle that returns with no copy under way leaves things as they are.
LEMMA ReturnNewest ==
  ASSUME SyncInv, NewestInv, NEW r, Return(r), UNCHANGED treeVars, UNCHANGED userVars,
         ~halfway' => ~halfway,
         ~halfway' /\ Bidirectional => \A w \in Workers : worker[w].at = "copy" => worker[w].stale
  PROVE  NewestInv'
<1>. SUFFICES ASSUME Bidirectional, ~halfway', NewestHeld
              PROVE  NewestHeld'
  BY DEF NewestInv
<1>1. \A w \in Workers : worker[w].at # "copy"
  BY DEF NewestHeld, WorkersGive
<1>2. /\ plan' = NoPlan /\ later' = NoPlan /\ UNCHANGED <<tree, stamp, newest, now>> /\ Tracked' = Tracked
      /\ ~InCycle'
  BY DEF Return, Goto, InCycle, treeVars, userVars, Tracked
<1>3. \A w \in Workers : worker'[w].at # "copy" /\ (Busy(w)' => worker'[w].stale)
  BY <1>1 DEF Return, Off, Busy, SyncInv, Typed, WorkerStates
<1>4. WorkersGive'
  BY <1>3 DEF WorkersGive
<1>5. ASSUME NEW p \in Tracked PROVE (PlanGives(p) /\ SidesOf(p) /\ \E s \in Sides : Leads(s, p))'
  <2>1. p \in Paths
    BY DEF Tracked
  <2>2. PlanGives(p)'
    BY <1>2, <2>1 DEF PlanGives, NoPlan
  <2>3. SidesOf(p)'
    BY <1>1, <1>2, AtRest DEF SidesOf
  <2>4. PICK s \in Sides : /\ tree[s][p] = newest[p]
                           /\ tree[Other(s)][p] \in {"absent", newest[p]} \/ Ahead(s, p)
    BY <1>1, AtRest
  <2>5. Leads(s, p)'
    BY <1>2, <2>4 DEF Leads, Ahead
  <2>. QED
    BY <2>2, <2>3, <2>5
<1>. QED
  BY <1>2, <1>4, <1>5 DEF NewestHeld

\* A plan takes a tracked path from the side that has the newest contents.
LEMMA PlanTakesNewest ==
  ASSUME SyncInv, RoomInv, NewestHeld, Bidirectional, \A w \in Workers : worker[w].at # "copy",
         NEW s \in Sides, NEW p \in Tracked
  PROVE  /\ PlanOf(s)[p] # "none" => tree[s][p] = newest[p]
         /\ PlanOf("left")[p] = "none" \/ PlanOf("right")[p] = "none"
<1>1. /\ p \in Paths /\ \A t \in Sides : tree[t][p] \in Nodes /\ tree[t][p] # "dir"
      /\ newest[p] \in Contents
      /\ stamp["left"][p] \in Nat /\ stamp["right"][p] \in Nat
  BY OtherSide DEF Tracked, RoomInv, Roomy, SyncInv, Typed
<1>2. \A t \in Sides : PlanOf(t)[p] # "none" <=> Gives(t, p)
  <2>1. \A node \in Nodes : Entry(node) # "none"
    BY SyncAssumption DEF Entry, Nodes
  <2>. QED
    BY <1>1, <2>1 DEF PlanOf
<1>3. CompareSnapshotEntries(p) = IF tree["left"][p] = tree["right"][p] THEN 0
                                  ELSE IF stamp["left"][p] < stamp["right"][p] THEN 0 - 1 ELSE 1
  BY <1>1, OtherSide DEF CompareSnapshotEntries, Newer
<1>4. PICK h \in Sides : /\ tree[h][p] = newest[p]
                         /\ tree[Other(h)][p] \in {"absent", newest[p]} \/ Ahead(h, p)
  BY AtRest
<1>5. newest[p] # "absent"
  BY <1>1, SyncAssumption
<1>6. Other("left") = "right" /\ Other("right") = "left" /\ Sides = {"left", "right"}
  BY DEF Other, Sides
<1>7. Gives("left", p) <=> /\ tree["left"][p] # "absent"
                           /\ tree["right"][p] = "absent" \/ CompareSnapshotEntries(p) = 1
  BY <1>6 DEF Gives
<1>8. Gives("right", p) <=> /\ tree["right"][p] # "absent"
                            /\ tree["left"][p] = "absent" \/ CompareSnapshotEntries(p) = 0 - 1
  BY <1>6 DEF Gives
<1>9. ~(Gives("left", p) /\ Gives("right", p))
  BY <1>3, <1>7, <1>8
<1>10. Gives("left", p) => tree["left"][p] = newest[p]
  BY <1>1, <1>3, <1>4, <1>5, <1>6, <1>7 DEF Ahead
<1>11. Gives("right", p) => tree["right"][p] = newest[p]
  BY <1>1, <1>3, <1>4, <1>5, <1>6, <1>8 DEF Ahead
<1>. QED
  BY <1>2, <1>6, <1>9, <1>10, <1>11

\* A scan plans to copy the newest contents, with the time they have.
LEMMA ScanNewest ==
  ASSUME SyncInv, RoomInv, NewestInv, Scan
  PROVE  NewestInv'
<1>. SUFFICES ASSUME Bidirectional, ~halfway, NewestHeld
              PROVE  NewestHeld'
  BY DEF NewestInv, Scan
<1>1. /\ phase = "idle" /\ InCycle' /\ to' = "right"
      /\ plan' = PlanOf("left") /\ planStamp' = stamp["left"]
      /\ later' = PlanOf("right") /\ laterStamp' = stamp["right"]
      /\ UNCHANGED <<tree, stamp, now, newest, worker>>
  BY DEF Scan, Goto, InCycle, treeVars, poolVars
<1>2. \A w \in Workers : worker[w].at # "copy" /\ (Busy(w) => worker[w].stale)
  BY <1>1 DEF NewestHeld, WorkersGive, Busy, SyncInv, WorkersFollowPlan
<1>3. From' = "left" /\ Tracked' = Tracked /\ \A w \in Workers : Busy(w)' <=> Busy(w)
  BY <1>1 DEF From, Other, Tracked, Busy
<1>4. WorkersGive'
  BY <1>1, <1>2, <1>3 DEF WorkersGive
<1>5. ASSUME NEW p \in Tracked PROVE (PlanGives(p) /\ SidesOf(p) /\ \E s \in Sides : Leads(s, p))'
  <2>1. PlanGives(p)'
    BY <1>1, <1>2, <1>3, PlanTakesNewest DEF PlanGives, Sides
  <2>2. SidesOf(p)'
    BY <1>1, <1>2, AtRest DEF SidesOf
  <2>3. PICK s \in Sides : /\ tree[s][p] = newest[p]
                           /\ tree[Other(s)][p] \in {"absent", newest[p]} \/ Ahead(s, p)
    BY <1>2, AtRest
  <2>4. Leads(s, p)'
    BY <1>1, <2>3 DEF Leads, Ahead
  <2>. QED
    BY <2>1, <2>2, <2>4
<1>. QED
  BY <1>1, <1>3, <1>4, <1>5 DEF NewestHeld

\* The second plan still holds when its turn comes: the first one did not
\* touch its paths.
LEMMA SecondPlanNewest ==
  ASSUME SyncInv, RoomInv, NewestInv, SecondPlan
  PROVE  NewestInv'
<1>. SUFFICES ASSUME Bidirectional, ~halfway, NewestHeld
              PROVE  NewestHeld'
  BY DEF NewestInv, SecondPlan, cutVars
<1>1. /\ phase = "delete" /\ InCycle' /\ to' = "left" /\ plan' = later /\ planStamp' = laterStamp
      /\ later' = NoPlan /\ UNCHANGED <<tree, stamp, now, newest, worker>>
  BY DEF SecondPlan, Goto, InCycle, treeVars, poolVars, userVars
<1>2. \A w \in Workers : worker[w].at # "copy" /\ (Busy(w) => worker[w].stale)
  BY <1>1 DEF NewestHeld, WorkersGive, Busy, SyncInv, WorkersFollowPlan
<1>3. From' = "right" /\ Tracked' = Tracked /\ \A w \in Workers : Busy(w)' <=> Busy(w)
  BY <1>1 DEF From, Other, Tracked, Busy
<1>4. WorkersGive'
  BY <1>1, <1>2, <1>3 DEF WorkersGive
<1>5. ASSUME NEW p \in Tracked PROVE (PlanGives(p) /\ SidesOf(p) /\ \E s \in Sides : Leads(s, p))'
  <2>1. PlanGives(p)'
    BY <1>1, <1>3 DEF NewestHeld, PlanGives, NoPlan, Tracked
  <2>2. SidesOf(p)'
    BY <1>1, <1>2, AtRest DEF SidesOf
  <2>3. PICK s \in Sides : /\ tree[s][p] = newest[p]
                           /\ tree[Other(s)][p] \in {"absent", newest[p]} \/ Ahead(s, p)
    BY <1>2, AtRest
  <2>4. Leads(s, p)'
    BY <1>1, <2>3 DEF Leads, Ahead
  <2>. QED
    BY <2>1, <2>2, <2>4
<1>. QED
  BY <1>1, <1>3, <1>4, <1>5 DEF NewestHeld

\* While the user edits between cycles only, an edit is newer than all there is.
LEMMA EditNewest ==
  ASSUME SyncInv, RoomInv, NewestInv, ~EditDuringCycle, NEW s \in Sides, NEW p \in Paths, Edit(s, p)
  PROVE  NewestInv'
<1>. SUFFICES ASSUME Bidirectional, ~halfway, NewestHeld
              PROVE  NewestHeld'
  BY DEF NewestInv, Edit, cutVars
<1>1. PICK node \in Contents :
        /\ phase = "idle" /\ IsFile(tree[s][p])
        /\ tree' = [tree EXCEPT ![s][p] = node] /\ stamp' = [stamp EXCEPT ![s][p] = now]
        /\ now' = now + 1
        /\ newest' = IF newest[p] = "none" THEN newest ELSE [newest EXCEPT ![p] = node]
        /\ UNCHANGED <<phase, plan, planStamp, later, laterStamp, to, worker>>
  BY DEF Edit, planVars, poolVars
<1>2. \A w \in Workers : worker[w].at # "copy" /\ (Busy(w) => worker[w].stale)
  BY <1>1 DEF NewestHeld, WorkersGive, Busy, SyncInv, WorkersFollowPlan
<1>3. Tracked' = Tracked /\ (\A w \in Workers : Busy(w)' <=> Busy(w)) /\ plan = NoPlan /\ later = NoPlan
  BY <1>1, EditRoom DEF Busy, NewestHeld, InCycle
<1>4. WorkersGive'
  BY <1>1, <1>2, <1>3 DEF WorkersGive
<1>5. /\ \A r \in Sides, q \in Paths : /\ tree'[r][q] = IF r = s /\ q = p THEN node ELSE tree[r][q]
                                       /\ stamp'[r][q] = IF r = s /\ q = p THEN now ELSE stamp[r][q]
                                       /\ stamp[r][q] \in Nat
      /\ now \in Nat
  BY <1>1 DEF SyncInv, Typed
<1>6. \A q \in Tracked : newest'[q] = IF q = p THEN node ELSE newest[q]
  BY <1>1 DEF Tracked, RoomInv
<1>7. node # "part"
  BY SyncAssumption
<1>8. ASSUME NEW q \in Tracked PROVE (PlanGives(q) /\ SidesOf(q) /\ \E r \in Sides : Leads(r, q))'
  <2>1. /\ q \in Paths
        /\ \A r \in Sides : ~Copying(r, q) /\ tree[r][q] # "part" /\ stamp[r][q] < now
    BY <1>2, AtRest DEF Tracked
  <2>2. PlanGives(q)'
    BY <1>1, <1>3, <2>1 DEF PlanGives, NoPlan
  <2>3. SidesOf(q)'
    BY <1>1, <1>5, <1>7, <2>1 DEF SidesOf
  <2>4. CASE q = p
    <3>1. Other(s) \in Sides /\ Other(s) # s
      BY OtherSide
    <3>2. tree'[s][q] = newest'[q] /\ stamp'[Other(s)][q] < stamp'[s][q]
      BY <1>5, <1>6, <2>1, <2>4, <3>1
    <3>3. Leads(s, q)'
      BY <3>2 DEF Leads, Ahead
    <3>. QED
      BY <2>2, <2>3, <3>3
  <2>5. CASE q # p
    <3>1. PICK r \in Sides : /\ tree[r][q] = newest[q]
                             /\ tree[Other(r)][q] \in {"absent", newest[q]} \/ Ahead(r, q)
      BY <1>2, AtRest
    <3>2. Leads(r, q)'
      BY <1>5, <1>6, <2>1, <2>5, <3>1, OtherSide DEF Leads, Ahead
    <3>. QED
      BY <2>2, <2>3, <3>2
  <2>. QED
    BY <2>4, <2>5
<1>. QED
  BY <1>1, <1>3, <1>4, <1>8 DEF NewestHeld

\* A worker of this cycle has the newest contents before it, and the time the
\* plan has for them, if its file is tracked; it writes where the cycle does.
LEMMA SourceIsNewest ==
  ASSUME SyncInv, RoomInv, NewestHeld, NEW w \in Workers, Busy(w), ~worker[w].stale,
         worker[w].file \in Tracked
  PROVE  LET p == worker[w].file  s == worker[w].to IN
         /\ p \in Paths /\ s \in Sides /\ s = to /\ From = Other(s)
         /\ plan[p] # "none" /\ later[p] = "none"
         /\ tree[Other(s)][p] = newest[p] /\ newest[p] \in Contents
         /\ worker[w].time = stamp[Other(s)][p] /\ stamp[Other(s)][p] < now
         /\ ~Copying(Other(s), p)
<1>. DEFINE p == worker[w].file
<1>. DEFINE s == worker[w].to
<1>1. /\ p \in Paths /\ p \in Files(plan) /\ s = to /\ to \in Sides
  BY DEF SyncInv, WorkersFollowPlan, Busy, Typed
<1>2. plan[p] # "none" /\ newest[p] \in Contents
  BY <1>1, SyncAssumption DEF Files, IsFile, RoomInv, Tracked
<1>3. /\ tree[From][p] = newest[p] /\ planStamp[p] = stamp[From][p] /\ later[p] = "none"
  BY <1>2 DEF NewestHeld, PlanGives
<1>4. worker[w].time = planStamp[p]
  BY DEF NewestHeld, WorkersGive
<1>5. From = Other(s) /\ From \in Sides /\ From # to
  BY <1>1, OtherSide DEF From
<1>6. ~Copying(From, p)
  BY <1>5 DEF Copying, NewestHeld, WorkersGive, SyncInv, WorkersFollowPlan
<1>7. stamp[From][p] < now
  BY <1>5, <1>6 DEF NewestHeld, SidesOf
<1>. QED
  BY <1>1, <1>2, <1>3, <1>4, <1>5, <1>6, <1>7

\* A file is truncated only where the other side has the newest contents.
LEMMA OpenNewest ==
  ASSUME SyncInv, RoomInv, NewestInv, NEW w \in Workers, OpenFiles(w)
  PROVE  NewestInv'
<1>. SUFFICES ASSUME Bidirectional, ~halfway, NewestHeld
              PROVE  NewestInv'
  BY DEF NewestInv, OpenFiles, cutVars
<1>. DEFINE p == worker[w].file
<1>. DEFINE s == worker[w].to
<1>0. /\ worker \in [Workers -> WorkerStates] /\ worker[w].at = "open" /\ Busy(w)
      /\ p \in Paths /\ s \in Sides
  BY DEF OpenFiles, SyncInv, Typed, WorkerStates, WorkersFollowPlan, Busy
<1>1. /\ UNCHANGED <<newest, now, phase, planVars, halfway>>
      /\ \A v \in Workers : v # w => worker'[v] = worker[v]
      /\ \/ worker'[w] = Off
         \/ /\ ~worker[w].stale
            /\ worker'[w] = [worker[w] EXCEPT !.at = "copy", !.read = tree[Other(s)][p]]
            /\ Becomes(s, [WithDirs(tree[s], Ancestors[p]) EXCEPT ![p] = "part"])
  BY <1>0 DEF OpenFiles, WorkerFails, WorkerOff, CannotOpen, userVars, cutVars
<1>2. \A v \in Workers : v # w => Moves(v)
  BY <1>1 DEF Moves
<1>3. CASE worker'[w] = Off \/ p \notin Tracked
  <2>1. Moves(w)
    <3>1. CASE worker'[w] = Off
      BY <1>0, <3>1 DEF Moves, Off
    <3>2. CASE worker'[w] # Off
      BY <1>0, <1>1, <1>3, <3>2 DEF Moves
    <3>. QED
      BY <3>1, <3>2
  <2>2. WorkerStep(w)
    BY DEF WorkerStep
  <2>3. TrackedKept
    BY <1>3, <2>2, WorkerRoom DEF Off
  <2>. QED
    BY <1>1, <1>2, <2>1, <2>3, QuietNewest DEF InCycle
<1>4. CASE worker'[w] # Off /\ p \in Tracked
  <2>. DEFINE t == [WithDirs(tree[s], Ancestors[p]) EXCEPT ![p] = "part"]
  <2>1. /\ ~worker[w].stale /\ Becomes(s, t)
        /\ worker'[w] = [worker[w] EXCEPT !.at = "copy", !.read = tree[Other(s)][p]]
    BY <1>1, <1>4
  <2>2. /\ s = to /\ From = Other(s) /\ plan[p] # "none" /\ later[p] = "none"
        /\ tree[Other(s)][p] = newest[p] /\ newest[p] \in Contents
        /\ worker[w].time = stamp[Other(s)][p] /\ stamp[Other(s)][p] < now
    BY <1>0, <1>4, <2>1, SourceIsNewest
  <2>3. /\ t \in [Paths -> Nodes] /\ Roomy(tree[s])
        /\ Ancestors[p] \in SUBSET Paths
    <3>1. Ancestors[p] \in SUBSET Paths /\ tree[s] \in [Paths -> Nodes]
      BY <1>0, Above DEF SyncInv, Typed
    <3>. QED
      BY <1>0, <3>1, TreeOps DEF RoomInv
  <2>4. tree'[s] = t /\ tree'[Other(s)] = tree[Other(s)]
    BY <1>0, <2>1, <2>3, BecomesTyped DEF SyncInv
  <2>5. Roomy(t)
    BY <1>0, <2>4, WorkerRoom DEF WorkerStep
  <2>6. /\ stamp'[Other(s)] = stamp[Other(s)]
        /\ \A q \in Tracked : stamp'[s][q] = IF t[q] # tree[s][q] THEN now ELSE stamp[s][q]
    <3>. HIDE DEF t
    <3>. QED
      BY <1>0, <2>1, <2>3, <2>5, TrackedTimes
  <2>7. /\ t[p] = "part"
        /\ \A q \in Tracked : q # p => t[q] = tree[s][q]
    <3>1. /\ \A q \in Tracked : q \in Paths /\ q \notin Ancestors[p]
      BY <1>0 DEF RoomInv, Fits, Tracked
    <3>2. \A q \in Paths : t[q] = IF q = p THEN "part" ELSE IF q \in Ancestors[p] THEN "dir" ELSE tree[s][q]
      BY DEF WithDirs
    <3>. QED
      BY <1>0, <3>1, <3>2
  <2>8. /\ \A r \in Sides : r = s \/ r = Other(s)
        /\ Other(s) \in Sides /\ Other(s) # s /\ Other(Other(s)) = s
    BY <1>0, OtherSide
  <2>9. \A q \in Tracked, r \in Sides : q # p \/ r # s =>
          tree'[r][q] = tree[r][q] /\ stamp'[r][q] = stamp[r][q]
    <3>. HIDE DEF t
    <3>1. ASSUME NEW q \in Tracked, NEW r \in Sides, q # p \/ r # s
          PROVE  tree'[r][q] = tree[r][q] /\ stamp'[r][q] = stamp[r][q]
      <4>1. CASE r = Other(s)
        BY <2>4, <2>6, <4>1
      <4>2. CASE r # Other(s)
        <5>1. r = s /\ q # p /\ t[q] = tree[s][q]
          BY <2>7, <2>8, <3>1, <4>2
        <5>2. stamp'[s][q] = stamp[s][q]
          BY <2>6, <5>1
        <5>. QED
          BY <2>4, <5>1, <5>2
      <4>. QED
        BY <4>1, <4>2
    <3>. QED
      BY <3>1
  <2>10. /\ worker'[w].at = "copy" /\ worker'[w].file = p /\ worker'[w].to = s
         /\ worker'[w].read = newest[p] /\ worker'[w].time = worker[w].time /\ ~worker'[w].stale
    BY <1>0, <2>1, <2>2 DEF WorkerStates
  <2>11. \A r, q : Copying(r, q) \/ (r = s /\ q = p) => Copying(r, q)'
    BY <1>0, <1>1, <2>10 DEF Copying
  <2>12. /\ Tracked' = Tracked /\ From' = From
         /\ UNCHANGED <<newest, now, to, plan, planStamp, later, laterStamp, phase>>
    BY <1>1 DEF Tracked, planVars, From
  <2>13. WorkersGive'
    <3>. SUFFICES ASSUME NEW v \in Workers
                  PROVE  /\ worker'[v].at = "copy" => ~worker'[v].stale
                         /\ Busy(v)' /\ ~worker'[v].stale => worker'[v].time = planStamp[worker'[v].file]
                         /\ worker'[v].at = "copy" /\ worker'[v].file \in Tracked =>
                              /\ worker'[v].read = newest[worker'[v].file]
                              /\ IsFile(tree'[worker'[v].to][worker'[v].file])
      BY <2>12 DEF WorkersGive
    <3>1. CASE v = w
      <4>1. worker[w].time = planStamp[p]
        BY <1>0, <2>1 DEF NewestHeld, WorkersGive
      <4>2. IsFile(tree'[s][p])
        BY <2>4, <2>7 DEF IsFile
      <4>. QED
        BY <2>10, <3>1, <4>1, <4>2
    <3>2. CASE v # w
      <4>1. /\ worker'[v] = worker[v] /\ worker[v].to \in Sides
            /\ worker[v].at = "copy" => ~worker[v].stale
            /\ Busy(v) /\ ~worker[v].stale => worker[v].time = planStamp[worker[v].file]
            /\ worker[v].at = "copy" /\ worker[v].file \in Tracked =>
                 /\ worker[v].read = newest[worker[v].file]
                 /\ IsFile(tree[worker[v].to][worker[v].file])
        BY <1>0, <1>1, <3>2 DEF NewestHeld, WorkersGive, WorkerStates
      <4>2. IsFile(tree'[s][p])
        BY <2>4, <2>7 DEF IsFile
      <4>. QED
        BY <2>9, <4>1, <4>2 DEF Busy
    <3>. QED
      BY <3>1, <3>2
  <2>14. ASSUME NEW q \in Tracked PROVE (PlanGives(q) /\ SidesOf(q) /\ \E r \in Sides : Leads(r, q))'
    <3>1. PlanGives(q) /\ SidesOf(q) /\ \E r \in Sides : Leads(r, q)
      BY DEF NewestHeld
    <3>2. CASE q = p
      <4>1. PlanGives(q)'
        BY <2>2, <2>8, <2>9, <2>12, <3>1, <3>2 DEF PlanGives
      <4>2. SidesOf(q)'
        BY <2>8, <2>9, <2>11, <2>12, <3>1, <3>2 DEF SidesOf
      <4>3. ASSUME NEW r \in Sides, r = Other(s) PROVE Leads(r, q)'
        <5>1. tree'[r][q] = newest'[q] /\ Other(r) = s
          BY <2>2, <2>4, <2>8, <2>12, <3>2, <4>3
        <5>2. Copying(Other(r), q)'
          BY <2>11, <3>2, <5>1
        <5>. QED
          BY <5>1, <5>2 DEF Leads
      <4>. QED
        BY <2>8, <4>1, <4>2, <4>3
    <3>3. CASE q # p
      <4>1. PlanGives(q)'
        BY <2>8, <2>9, <2>12, <2>2, <3>1, <3>3, OtherSide DEF PlanGives
      <4>2. SidesOf(q)'
        BY <2>9, <2>11, <2>12, <3>1, <3>3 DEF SidesOf
      <4>3. ASSUME NEW r \in Sides, Leads(r, q) PROVE Leads(r, q)'
        BY <2>9, <2>11, <2>12, <3>3, <4>3, OtherSide DEF Leads, Ahead
      <4>. QED
        BY <3>1, <4>1, <4>2, <4>3
    <3>. QED
      BY <3>2, <3>3
  <2>15. InCycle' <=> InCycle
    BY <2>12 DEF InCycle
  <2>. QED
    BY <2>12, <2>13, <2>14, <2>15 DEF NewestHeld, NewestInv
<1>. QED
  BY <1>3, <1>4

\* A copy brings the newest contents to the other side, with their time.
LEMMA CopyNewest ==
  ASSUME SyncInv, RoomInv, NewestInv, NEW w \in Workers, CopyFile(w)
  PROVE  NewestInv'
<1>. SUFFICES ASSUME Bidirectional, ~halfway, NewestHeld
              PROVE  NewestInv'
  BY DEF NewestInv, CopyFile, cutVars
<1>. DEFINE p == worker[w].file
<1>. DEFINE s == worker[w].to
<1>0. /\ worker \in [Workers -> WorkerStates] /\ worker[w].at = "copy" /\ ~worker[w].stale /\ Busy(w)
      /\ p \in Paths /\ s \in Sides
  BY DEF CopyFile, SyncInv, Typed, WorkerStates, WorkersFollowPlan, Busy
<1>1. /\ UNCHANGED <<newest, now, phase, planVars, halfway>>
      /\ \A v \in Workers : v # w => worker'[v] = worker[v]
      /\ worker'[w] = [Off EXCEPT !.at = "ready", !.to = s]
  BY <1>0 DEF CopyFile, NextFile, userVars, cutVars
<1>2. worker'[w].at = "ready"
  BY <1>1 DEF Off
<1>3. CASE p \notin Tracked
  <2>1. \A v \in Workers : Moves(v)
    BY <1>1, <1>2, <1>3 DEF Moves
  <2>2. WorkerStep(w)
    BY DEF WorkerStep
  <2>3. TrackedKept
    BY <1>3, <2>2, WorkerRoom
  <2>. QED
    BY <1>1, <2>1, <2>3, QuietNewest DEF InCycle
<1>4. CASE p \in Tracked
  <2>2. /\ s = to /\ From = Other(s) /\ plan[p] # "none" /\ later[p] = "none"
        /\ tree[Other(s)][p] = newest[p] /\ newest[p] \in Contents
        /\ worker[w].time = stamp[Other(s)][p] /\ stamp[Other(s)][p] < now
    BY <1>0, <1>4, SourceIsNewest
  <2>3. worker[w].read = newest[p] /\ IsFile(tree[s][p])
    BY <1>0, <1>4 DEF NewestHeld, WorkersGive
  <2>4. /\ tree' = [tree EXCEPT ![s][p] = newest[p]]
        /\ stamp' = [stamp EXCEPT ![s][p] = stamp[Other(s)][p]]
    BY <2>2, <2>3 DEF CopyFile, Written
  <2>8. /\ \A r \in Sides : r = s \/ r = Other(s)
        /\ Other(s) \in Sides /\ Other(s) # s /\ Other(Other(s)) = s
    BY <1>0, OtherSide
  <2>9. /\ \A q \in Paths, r \in Sides : q # p \/ r # s =>
             tree'[r][q] = tree[r][q] /\ stamp'[r][q] = stamp[r][q]
        /\ tree'[s][p] = newest[p] /\ stamp'[s][p] = stamp[Other(s)][p]
    BY <1>0, <2>4 DEF SyncInv, Typed
  <2>10. \A r, q : q # p => (Copying(r, q)' <=> Copying(r, q))
    BY <1>0, <1>1, <1>2 DEF Copying
  <2>12. /\ Tracked' = Tracked /\ From' = From /\ (InCycle' <=> InCycle)
         /\ UNCHANGED <<newest, now, to, plan, planStamp, later, laterStamp, phase>>
    BY <1>1 DEF Tracked, planVars, From, InCycle
  <2>13. WorkersGive'
    <3>. SUFFICES ASSUME NEW v \in Workers, v # w
                  PROVE  /\ worker'[v].at = "copy" => ~worker'[v].stale
                         /\ Busy(v)' /\ ~worker'[v].stale => worker'[v].time = planStamp[worker'[v].file]
                         /\ worker'[v].at = "copy" /\ worker'[v].file \in Tracked =>
                              /\ worker'[v].read = newest[worker'[v].file]
                              /\ IsFile(tree'[worker'[v].to][worker'[v].file])
      BY <1>2, <2>12 DEF WorkersGive, Busy
    <3>1. /\ worker'[v] = worker[v] /\ worker[v].to \in Sides
          /\ worker[v].at = "copy" => ~worker[v].stale
          /\ Busy(v) /\ ~worker[v].stale => worker[v].time = planStamp[worker[v].file]
          /\ worker[v].at = "copy" /\ worker[v].file \in Tracked =>
               /\ worker[v].read = newest[worker[v].file]
               /\ IsFile(tree[worker[v].to][worker[v].file])
      BY <1>0, <1>1 DEF NewestHeld, WorkersGive, WorkerStates
    <3>2. IsFile(tree'[s][p])
      BY <2>2, <2>9 DEF IsFile
    <3>. QED
      BY <2>9, <3>1, <3>2 DEF Busy, Tracked
  <2>14. ASSUME NEW q \in Tracked PROVE (PlanGives(q) /\ SidesOf(q) /\ \E r \in Sides : Leads(r, q))'
    <3>1. q \in Paths /\ PlanGives(q) /\ SidesOf(q) /\ \E r \in Sides : Leads(r, q)
      BY DEF NewestHeld, Tracked
    <3>2. CASE q = p
      <4>1. PlanGives(q)'
        BY <2>2, <2>8, <2>9, <2>12, <3>1, <3>2 DEF PlanGives
      <4>2. SidesOf(q)'
        <5>1. newest[q] # "part"
          BY <2>2, <3>2, SyncAssumption
        <5>. QED
          BY <2>2, <2>8, <2>9, <2>12, <3>1, <3>2, <5>1 DEF SidesOf
      <4>3. ASSUME NEW r \in Sides, r = s PROVE Leads(r, q)'
        <5>1. tree'[r][q] = newest'[q] /\ tree'[Other(r)][q] = newest'[q]
          BY <1>0, <2>2, <2>8, <2>9, <2>12, <3>2, <4>3
        <5>. QED
          BY <5>1 DEF Leads
      <4>. QED
        BY <1>0, <4>1, <4>2, <4>3
    <3>3. CASE q # p
      <4>1. PlanGives(q)'
        BY <2>8, <2>9, <2>12, <2>2, <3>1, <3>3, OtherSide DEF PlanGives
      <4>2. SidesOf(q)'
        BY <2>9, <2>10, <2>12, <3>1, <3>3 DEF SidesOf
      <4>3. ASSUME NEW r \in Sides, Leads(r, q) PROVE Leads(r, q)'
        BY <2>9, <2>10, <2>12, <3>1, <3>3, <4>3, OtherSide DEF Leads, Ahead
      <4>. QED
        BY <3>1, <4>1, <4>2, <4>3
    <3>. QED
      BY <3>2, <3>3
  <2>. QED
    BY <2>12, <2>13, <2>14 DEF NewestHeld, NewestInv
<1>. QED
  BY <1>3, <1>4

\* So do the other steps of a worker; a copy that is cut ends the matter.
LEMMA WorkerNewest ==
  ASSUME SyncInv, RoomInv, NewestInv, NEW w \in Workers, WorkerStep(w)
  PROVE  NewestInv'
<1>0. worker \in [Workers -> WorkerStates]
  BY DEF SyncInv, Typed
<1>1. CASE OpenFiles(w)
  BY <1>1, OpenNewest
<1>2. CASE CopyFile(w)
  BY <1>2, CopyNewest
<1>3. CASE CutCopy(w)
  <2>1. NewestInv /\ worker[w].stale => ~Bidirectional \/ halfway
    BY <1>3 DEF CutCopy, NewestInv, NewestHeld, WorkersGive
  <2>2. ~worker[w].stale => halfway' = Bidirectional
    BY <1>3 DEF CutCopy
  <2>3. worker[w].stale => halfway' = halfway
    BY <1>3 DEF CutCopy, cutVars
  <2>. QED
    BY <2>1, <2>2, <2>3 DEF NewestInv
<1>4. CASE NoMoreTasks(w) \/ BeginCopy(w)
  <2>1. UNCHANGED <<newest, now, phase, planVars, halfway>>
    BY <1>4 DEF NoMoreTasks, BeginCopy, userVars, cutVars
  <2>2. TrackedKept
    BY <1>4, WorkerRoom DEF NoMoreTasks, treeVars, TrackedKept
  <2>3. /\ \A v \in Workers : v # w => worker'[v] = worker[v]
        /\ worker[w].at \in {"ready", "taken"}
        /\ \/ worker'[w].at \in {"off", "ready"}
           \/ worker[w].at = "taken" /\ worker'[w] = [worker[w] EXCEPT !.at = "open"]
    <3>1. /\ worker[w].at \in {"ready", "taken"}
          /\ \/ WorkerOff(w) \/ NextFile(w)
             \/ worker[w].at = "taken" /\ WorkerGoto(w, "open")
      BY <1>4 DEF NoMoreTasks, BeginCopy
    <3>2. CASE WorkerOff(w) \/ NextFile(w)
      <4>1. \E x : worker' = [worker EXCEPT ![w] = x] /\ x.at \in {"off", "ready"}
        <5>. DEFINE ready == [Off EXCEPT !.at = "ready", !.to = worker[w].to]
        <5>1. Off.at = "off" /\ ready.at = "ready"
          BY DEF Off
        <5>2. worker' = [worker EXCEPT ![w] = Off] \/ worker' = [worker EXCEPT ![w] = ready]
          BY <3>2 DEF WorkerOff, NextFile
        <5>. HIDE DEF ready
        <5>. QED
          BY <5>1, <5>2
      <4>. QED
        BY <1>0, <3>1, <4>1
    <3>3. CASE worker[w].at = "taken" /\ WorkerGoto(w, "open")
      BY <1>0, <3>1, <3>3 DEF WorkerGoto
    <3>. QED
      BY <3>1, <3>2, <3>3
  <2>4. \A v \in Workers : Moves(v)
    BY <2>3 DEF Moves
  <2>. QED
    BY <2>1, <2>2, <2>4, QuietNewest DEF InCycle
<1>. QED
  BY <1>1, <1>2, <1>3, <1>4 DEF WorkerStep

\* So do the steps of the main goroutine.
LEMMA MainNewest ==
  ASSUME SyncInv, RoomInv, NewestInv, MainStep \/ Fails
  PROVE  NewestInv'
<1>0. /\ worker \in [Workers -> WorkerStates] /\ TrackedKept
      /\ \A w \in Workers : worker[w].at # "off" /\ ~worker[w].stale => phase = "copy"
  BY MainSpares DEF SyncInv, Typed, WorkersFollowPlan
<1>1. ASSUME NEW r, Return(r), UNCHANGED treeVars, UNCHANGED userVars, UNCHANGED halfway, phase # "copy"
      PROVE  NewestInv'
  BY <1>0, <1>1, ReturnNewest
<1>2. ASSUME UNCHANGED <<newest, now, planVars, halfway>>, InCycle', \A w \in Workers : Moves(w)
      PROVE  NewestInv'
  BY <1>0, <1>2, QuietNewest
<1>3. UNCHANGED worker => \A w \in Workers : Moves(w)
  BY DEF Moves
<1>4. CASE Scan
  BY <1>4, ScanNewest
<1>5. CASE SecondPlan
  BY <1>5, SecondPlanNewest
<1>6. CASE CopyFailed
  <2>1. Return("error") /\ UNCHANGED treeVars /\ UNCHANGED userVars
        /\ halfway' = (halfway \/ (Bidirectional /\ \E w \in Workers : worker[w].at = "copy"))
    BY <1>6 DEF CopyFailed
  <2>. QED
    BY <2>1, ReturnNewest
<1>7. CASE EnsureDirectory \/ FileNeedsCopy
  <2>1. \/ Return("error") /\ UNCHANGED treeVars
        \/ UNCHANGED <<planVars, worker, phase>>
    BY <1>7 DEF EnsureDirectory, FileNeedsCopy, poolVars
  <2>2. UNCHANGED userVars /\ UNCHANGED halfway /\ phase \in {"ensure", "check"}
    BY <1>7 DEF EnsureDirectory, FileNeedsCopy, cutVars
  <2>3. UNCHANGED <<newest, now>>
    BY <2>2 DEF userVars
  <2>. QED
    BY <1>1, <1>2, <1>3, <2>1, <2>2, <2>3 DEF InCycle
<1>8. CASE CycleDone \/ Fails
  <2>1. \E r : Return(r)
    BY <1>8 DEF CycleDone, Fails
  <2>2. UNCHANGED treeVars /\ UNCHANGED userVars /\ UNCHANGED halfway /\ phase # "copy"
    BY <1>8 DEF CycleDone, Fails, cutVars
  <2>. QED
    BY <1>1, <2>1, <2>2
<1>9. CASE DirectoriesEnsured \/ NothingToCopy \/ CopiesDone \/ Sweep \/ DeletePath
  <2>1. UNCHANGED <<newest, now, planVars, halfway, worker>> /\ InCycle'
    BY <1>9 DEF DirectoriesEnsured, NothingToCopy, CopiesDone, Sweep, DeletePath, userVars, cutVars, poolVars,
                Goto, InCycle
  <2>. QED
    BY <1>2, <1>3, <2>1
<1>10. CASE StartPool
  <2>1. UNCHANGED <<newest, now, planVars, halfway>> /\ InCycle'
    BY <1>10 DEF StartPool, userVars, cutVars, Goto, InCycle
  <2>2. \A w \in Workers : worker'[w] = worker[w] \/ (worker[w].at = "off" /\ worker'[w].at = "ready")
    BY <1>10 DEF StartPool, Idle, Off
  <2>3. \A w \in Workers : Moves(w)
    BY <2>2 DEF Moves
  <2>. QED
    BY <1>2, <2>1, <2>3
<1>. QED
  BY <1>4, <1>5, <1>6, <1>7, <1>8, <1>9, <1>10 DEF MainStep

\* And the feeder, the signal and the end of the process.
LEMMA OtherNewest ==
  ASSUME SyncInv, RoomInv, NewestInv, Stop \/ Feeder \/ Interrupt \/ Terminated \/ UNCHANGED vars
  PROVE  NewestInv'
<1>1. UNCHANGED treeVars
  BY QuietSteps DEF QuietStep, Feeder, vars
<1>2. TrackedKept
  BY <1>1 DEF treeVars, TrackedKept
<1>3. UNCHANGED <<newest, now, planVars, halfway>>
  BY DEF Stop, Feeder, CloseTasks, Feed, Interrupt, Terminated, vars, userVars, cutVars
<1>4. ~InCycle' => ~InCycle
  BY DEF Stop, Feeder, CloseTasks, Feed, Interrupt, Terminated, vars, InCycle, Goto
<1>5. \A w \in Workers : Moves(w)
  <2>1. CASE Stop
    BY <2>1 DEF Stop, Moves, Off
  <2>2. CASE CloseTasks \/ Interrupt \/ Terminated \/ UNCHANGED vars
    BY <2>2 DEF CloseTasks, Interrupt, Terminated, vars, poolVars, Moves
  <2>3. ASSUME NEW v \in Workers, Feed(v) PROVE \A w \in Workers : Moves(w)
    <3>1. /\ \A w \in Workers : w # v => worker'[w] = worker[w]
          /\ worker[v].at = "ready" /\ worker'[v].at = "taken"
          /\ worker'[v].file = First(queue) /\ worker'[v].time = planStamp[First(queue)]
      BY <2>3 DEF Feed, SyncInv, Typed, WorkerStates
    <3>. QED
      BY <3>1 DEF Moves
  <2>. QED
    BY <2>1, <2>2, <2>3 DEF Feeder
<1>. QED
  BY <1>2, <1>3, <1>4, <1>5, QuietNewest

\* No step loses the newest contents.
LEMMA NewestNext ==
  ASSUME SyncInv, RoomInv, NewestInv, ~EditDuringCycle, [Next]_vars
  PROVE  NewestInv'
  BY WorkerNewest, MainNewest, OtherNewest, EditNewest DEF Next

\* At first the newest contents are those of the later time, or of the left side.
LEMMA NewestInit == Init => NewestInv
<1> SUFFICES ASSUME Init, Bidirectional PROVE NewestHeld
  BY DEF NewestInv
<1>1. PICK l \in Trees("left"), r \in Trees("right") : tree = [left |-> l, right |-> r]
  BY DEF Init
<1>2. /\ l \in [Paths -> {"absent", "dir"} \cup Contents]
      /\ r \in [Paths -> {"absent", "dir"} \cup Contents]
      /\ tree["left"] = l /\ tree["right"] = r
  <2>1. Original["left"] \subseteq Contents /\ Original["right"] \subseteq Contents
    BY SyncAssumption DEF Sides
  <2>. QED
    BY <1>1, <2>1 DEF Trees
<1>3. newest = Newest(l, r, stamp["left"], stamp["right"])
  BY <1>2 DEF Init
<1>4. \A s \in Sides, p \in Paths : stamp[s][p] \in Nat /\ stamp[s][p] < now
  <2>1. stamp \in [Sides -> [Paths -> Stamps]] /\ now = 3 /\ Stamps \subseteq 0..2
    BY SyncAssumption DEF Init
  <2>. QED
    <3>1. \A n \in 0..2 : n \in Nat /\ n < 3
      OBVIOUS
    <3>2. \A s \in Sides, p \in Paths : stamp[s][p] \in 0..2
      BY <2>1
    <3>. QED
      BY <2>1, <3>1, <3>2
<1>5. plan = NoPlan /\ later = NoPlan /\ \A w \in Workers : worker[w].at = "off"
  BY DEF Init, Off
<1>6. WorkersGive
  BY <1>5 DEF WorkersGive, Busy
<1>7. RoomInv
  BY RoomInit
<1>8. ASSUME NEW p \in Tracked PROVE PlanGives(p) /\ SidesOf(p) /\ \E s \in Sides : Leads(s, p)
  <2>1. /\ p \in Paths /\ newest[p] \in Contents
        /\ l[p] # "dir" /\ r[p] # "dir" /\ l[p] # "part" /\ r[p] # "part"
        /\ \A s \in Sides : tree[s][p] # "part"
    BY <1>2, <1>7, OtherSide, SyncAssumption DEF Tracked, RoomInv, Roomy
  <2>2. PlanGives(p)
    BY <1>5, <2>1 DEF PlanGives, NoPlan
  <2>3. SidesOf(p)
    BY <1>4, <2>1 DEF SidesOf
  <2>4. /\ l[p] # "absent" <=> IsFile(l[p])
        /\ r[p] # "absent" <=> IsFile(r[p])
    BY <1>2, <2>1, NodesDiffer DEF IsFile
  <2>5. newest[p] = IF IsFile(l[p]) /\ (IsFile(r[p]) => stamp["left"][p] >= stamp["right"][p]) THEN l[p]
                    ELSE r[p]
    BY <1>3, <2>1, SyncAssumption DEF Newest
  <2>6. /\ stamp["left"][p] \in Nat /\ stamp["right"][p] \in Nat
        /\ "left" \in Sides /\ "right" \in Sides /\ Other("left") = "right" /\ Other("right") = "left"
    BY <1>4, <2>1 DEF Sides, Other
  <2>7. CASE newest[p] = l[p]
    <3>1. r[p] = "absent" \/ r[p] = newest[p] \/ stamp["right"][p] <= stamp["left"][p]
      BY <2>4, <2>5, <2>6, <2>7
    <3>2. Leads("left", p)
      BY <1>2, <2>6, <2>7, <3>1 DEF Leads, Ahead
    <3>. QED
      BY <2>2, <2>3, <2>6, <3>2
  <2>8. CASE newest[p] # l[p]
    <3>1. newest[p] = r[p] /\ (l[p] = "absent" \/ stamp["left"][p] < stamp["right"][p])
      BY <2>4, <2>5, <2>6, <2>8
    <3>2. Leads("right", p)
      BY <1>2, <2>6, <3>1 DEF Leads, Ahead
    <3>. QED
      BY <2>2, <2>3, <2>6, <3>2
  <2>. QED
    BY <2>7, <2>8
<1>. QED
  BY <1>5, <1>6, <1>8 DEF NewestHeld

\* The property NewestKept, for a user who edits between cycles only (a cycle
\* overwrites what is edited after its scan): with any trees, pool, failures and
\* signals, the newest contents of a file that no directory competes with stay
\* on one side, until a copy is cut or left behind by a failed cycle.
THEOREM NewestSurvives ==
  ASSUME ~EditDuringCycle
  PROVE  Spec => []NewestKept
<1>1. Init => RoomInv /\ NewestInv
  BY RoomInit, NewestInit
<1>2. SyncInv /\ RoomInv /\ NewestInv /\ [Next]_vars => (RoomInv /\ NewestInv)'
  BY RoomNext, NewestNext
<1>3. RoomInv /\ NewestInv => NewestKept
  <2>. SUFFICES ASSUME RoomInv, NewestInv, ~halfway, NEW p \in Paths, newest[p] # "none"
                PROVE  \E s \in Sides : tree[s][p] = newest[p]
    BY DEF NewestKept, NewestNeverLost
  <2>1. p \in Tracked /\ Bidirectional
    BY DEF Tracked, RoomInv
  <2>. QED
    BY <2>1 DEF NewestInv, NewestHeld, Leads
<1>. QED
  BY <1>1, <1>2, <1>3, PlanRules, PTL DEF Spec
=============================================================================
