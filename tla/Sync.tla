--------------------------------- MODULE Sync ---------------------------------
(***************************************************************************)
(* lssync: cycles that make two directory trees alike.  A cycle scans the  *)
(* trees, makes one plan (one way) or two (bidirectional), and applies     *)
(* them one after the other: directories, then files through a pool of     *)
(* worker goroutines, then deletions (internal/sync).                      *)
(*                                                                         *)
(* A file is its contents; all contents have one size, "part" is a file    *)
(* that was truncated and not written.  The files of the source root are   *)
(* mapped to the files of the same relative path; a scan is one step.      *)
(***************************************************************************)
EXTENDS Naturals, FiniteSets

CONSTANTS
  Paths,            \* relative paths below the two roots
  Root,             \* the roots themselves
  Ancestors,        \* the directories above each path, up to the root
  Rank,             \* the order of paths; a directory comes before its entries
  Contents,         \* contents of whole files
  Original,         \* those each side's files may have at first
  Stamps,           \* modification times the trees may have at first, all before
                    \* the first edit
  Workers,          \* worker goroutines, those of earlier cycles included
  MaxParallel,      \* bound on the workers of one pool
  Bidirectional,    \* --bidirectional
  Remote,           \* the sides reached over SFTP
  EditSides,        \* sides on which the user works meanwhile
  EditDuringCycle,  \* also while a cycle runs
  Interrupts,       \* may SIGINT or SIGTERM come?
  MaxEdits,         \* bound on the user's edits
  MaxFails          \* bound on failing file operations

Sides == {"left", "right"}
Nodes == {"absent", "dir", "part"} \cup Contents

ASSUME SyncAssumption ==
  /\ Root \notin Paths /\ Ancestors \in [Paths -> SUBSET Paths]
  /\ \A p \in Paths : \A q \in Ancestors[p] : Ancestors[q] \subseteq Ancestors[p]
  /\ Rank \in [Paths -> Nat]
  /\ \A p \in Paths : \A q \in Ancestors[p] : Rank[q] < Rank[p]
  /\ \A S \in SUBSET Paths : S # {} =>
       /\ \E p \in S : \A q \in S : Rank[p] <= Rank[q]
       /\ \E p \in S : \A q \in S : Rank[q] <= Rank[p]
  /\ {"absent", "dir", "part", "none", "file"} \cap Contents = {}
  /\ Original \in [Sides -> SUBSET Contents] /\ Stamps \subseteq 0..2
  /\ MaxParallel \in Nat \ {0} /\ MaxParallel <= Cardinality(Workers)
  /\ Bidirectional \in BOOLEAN /\ Remote \subseteq Sides /\ EditSides \subseteq Sides
  /\ EditDuringCycle \in BOOLEAN /\ Interrupts \in BOOLEAN
  /\ MaxEdits \in Nat /\ MaxFails \in Nat

VARIABLES
  tree,         \* what is at each path of each side
  stamp,        \* its modification time (bidirectional mode only)
  now,          \* the time until the next edit (bidirectional mode only)
  delete, dry,  \* --delete, --dry-run
  parallelNum,  \* --parallel
  phase,        \* where ApplyPlan is; "idle" between cycles
  to,           \* the side ApplyPlan writes
  plan,         \* Plan.Desired: what it is to put at each path
  planStamp,    \* and the modification times
  later,        \* the plan for the other direction, yet to be applied
  laterStamp,
  queue,        \* paths left in the current loop, or for the feeder goroutine
  todo,         \* copyTargets
  feeding,      \* the tasks channel is open
  failed,       \* the results channel holds an error
  cancelled,    \* the workers' context is cancelled
  worker,       \* each worker: where it is, its file, side, time and contents
                \* read, and whether the cycle it belongs to is over
  outcome,      \* what the last cycle returned
  interrupted,  \* the signal context is done
  cut,          \* a copy of this cycle stopped half way, unreported
  halfway,      \* a copy was ever cut, or left behind by a cycle that failed
                \* (bidirectional mode only)
  edited,       \* the user has changed a tree since the scan
  newest,       \* bidirectional: the newest contents of a path, if no
                \* directory competes for it, else "none"
  edits, fails

treeVars == <<tree, stamp>>
planVars == <<to, plan, planStamp, later, laterStamp>>
poolVars == <<feeding, failed, cancelled, worker>>
userVars == <<now, delete, dry, parallelNum, interrupted, edited, newest, edits>>
cutVars == <<cut, halfway>>
vars == <<treeVars, userVars, phase, planVars, queue, todo, poolVars, outcome, cutVars, fails>>

(***************************************************************************)
(* Trees.                                                                  *)
(***************************************************************************)
Other(s) == IF s = "left" THEN "right" ELSE "left"
From == Other(to)
First(S) == CHOOSE p \in S : \A q \in S : Rank[p] <= Rank[q]
Last(S) == CHOOSE p \in S : \A q \in S : Rank[q] <= Rank[p]
IsParent(p, q) == p \in Ancestors[q] /\ Ancestors[q] = Ancestors[p] \cup {p}
IsFile(node) == node \in Contents \cup {"part"}
Size(node) == IF node = "part" THEN 0 ELSE 1

\* removePathRecursive and MkdirAll, which fails on a file in the way.
Without(t, p) == [q \in Paths |-> IF p \in Ancestors[q] \cup {q} THEN "absent" ELSE t[q]]
MkdirFails(t, dirs) == \E q \in dirs : IsFile(t[q])
WithDirs(t, dirs) == [q \in Paths |-> IF q \in dirs THEN "dir" ELSE t[q]]

\* Side s becomes t.  What changes is stamped now, and so is the directory of
\* what appears or goes.
Retimed(s, t) ==
  [p \in Paths |->
     IF Bidirectional
        /\ \/ t[p] # tree[s][p]
           \/ \E q \in Paths : IsParent(p, q) /\ (t[q] = "absent") # (tree[s][q] = "absent")
     THEN now ELSE stamp[s][p]]
Becomes(s, t) ==
  /\ tree' = [tree EXCEPT ![s] = t]
  /\ stamp' = [stamp EXCEPT ![s] = Retimed(s, t)]

WellFormed(t) == \A p \in Paths :
  t[p] # "absent" => \A q \in Ancestors[p] : t[q] = "dir"
Trees(s) == {t \in [Paths -> {"absent", "dir"} \cup Original[s]] : WellFormed(t)}

(***************************************************************************)
(* compareSnapshotEntries: 1 if the left entry wins, -1 if the right one.  *)
(***************************************************************************)
Newer(p, tie) == IF stamp["left"][p] > stamp["right"][p] THEN 1
                 ELSE IF stamp["left"][p] < stamp["right"][p] THEN 0 - 1 ELSE tie
\* Deviations: files of one age are not looked into; the older file wins.
CompareNoTie(p) ==
  LET l == tree["left"][p]  r == tree["right"][p] IN
  IF (l = "dir") # (r = "dir") THEN Newer(p, 1) ELSE Newer(p, 0)
CompareSwapped(p) ==
  LET l == tree["left"][p]  r == tree["right"][p] IN
  IF (l = "dir") # (r = "dir") THEN Newer(p, 1)
  ELSE IF l = "dir" THEN Newer(p, 0)
  ELSE IF l = r THEN 0
  ELSE 0 - Newer(p, 1)

CompareSnapshotEntries(p) ==
  LET l == tree["left"][p]  r == tree["right"][p] IN
  IF (l = "dir") # (r = "dir") THEN Newer(p, 1)
  ELSE IF l = "dir" THEN Newer(p, 0)
  ELSE IF l = r THEN 0
  ELSE Newer(p, 1)

\* BuildPlan, BuildBidirectionalPlans: does side s give its entry at p?
Gives(s, p) ==
  /\ tree[s][p] # "absent"
  /\ IF ~Bidirectional THEN s = "left"
     ELSE \/ tree[Other(s)][p] = "absent"
          \/ CompareSnapshotEntries(p) = IF s = "left" THEN 1 ELSE 0 - 1
Entry(node) == IF node \in Contents THEN "file" ELSE node
PlanOf(s) == [p \in Paths |-> IF Gives(s, p) THEN Entry(tree[s][p]) ELSE "none"]
NoPlan == [p \in Paths |-> "none"]
NoStamps == [p \in Paths |-> 0]
Directories(pl) == {p \in Paths : pl[p] = "dir"}
Files(pl) == {p \in Paths : IsFile(pl[p]) \/ pl[p] = "file"}

\* The newest contents of each path, unless a file on one side competes with
\* a directory on the other, there or above.
Contested(t, u, p) == \E q \in Ancestors[p] \cup {p} :
  (t[q] = "dir" /\ IsFile(u[q])) \/ (u[q] = "dir" /\ IsFile(t[q]))
Newest(t, u, a, b) ==
  [p \in Paths |-> IF Contested(t, u, p) THEN "none"
                   ELSE IF IsFile(t[p]) /\ (IsFile(u[p]) => a[p] >= b[p]) THEN t[p]
                   ELSE IF IsFile(u[p]) THEN u[p] ELSE "none"]

Off == [at |-> "off", file |-> Root, to |-> "right", time |-> 0, read |-> "none",
        stale |-> FALSE]

Init ==
  /\ tree \in {[left |-> t, right |-> u] : t \in Trees("left"), u \in Trees("right")}
  /\ stamp \in [Sides -> [Paths -> Stamps]]
  /\ now = 3
  /\ delete \in IF Bidirectional THEN {FALSE} ELSE BOOLEAN
  /\ dry \in BOOLEAN /\ parallelNum \in 1..MaxParallel
  /\ phase = "idle"
  /\ to = "right" /\ plan = NoPlan /\ later = NoPlan
  /\ planStamp = NoStamps /\ laterStamp = NoStamps
  /\ queue = {} /\ todo = {}
  /\ feeding = FALSE /\ failed = FALSE /\ cancelled = FALSE
  /\ worker = [w \in Workers |-> Off]
  /\ outcome = "none" /\ interrupted = FALSE /\ cut = FALSE /\ halfway = FALSE
  /\ edited = FALSE
  /\ newest = IF Bidirectional
              THEN Newest(tree["left"], tree["right"], stamp["left"], stamp["right"])
              ELSE NoPlan
  /\ edits = 0 /\ fails = 0

(***************************************************************************)
(* The main goroutine of a cycle: ApplyPlan.                               *)
(***************************************************************************)
InCycle == phase \notin {"idle", "stopped"}
Goto(place) == phase' = place

\* localToRemoteOnce, bidirectionalLocalRemoteOnce and the like: connect, scan
\* both trees, make the plans.  A first cycle always runs; later the select
\* may prefer the ticker to a context that is done.
Scan ==
  /\ phase = "idle" /\ Goto("ensure")
  /\ to' = "right"
  /\ plan' = PlanOf("left") /\ planStamp' = stamp["left"]
  /\ IF Bidirectional THEN later' = PlanOf("right") /\ laterStamp' = stamp["right"]
                      ELSE UNCHANGED <<later, laterStamp>>
  /\ queue' = Directories(PlanOf("left"))
  /\ outcome' = "none" /\ cut' = FALSE /\ edited' = FALSE
  /\ UNCHANGED <<treeVars, now, delete, dry, parallelNum, interrupted, newest, edits,
                 todo, poolVars, halfway, fails>>

\* The cycle returns.  Its connection is closed (defer conn.Close); workers
\* that are still copying are left to find out.
Return(result) ==
  /\ Goto("idle") /\ outcome' = result
  /\ to' = "right" /\ plan' = NoPlan /\ later' = NoPlan
  /\ planStamp' = NoStamps /\ laterStamp' = NoStamps
  /\ queue' = {} /\ todo' = {}
  /\ feeding' = FALSE /\ failed' = FALSE /\ cancelled' = FALSE
  /\ worker' = [w \in Workers |-> IF worker[w].at \in {"off", "ready", "taken"} THEN Off
                                  ELSE [worker[w] EXCEPT !.stale = TRUE]]

\* Any file operation of the main goroutine may fail; it returns the error.
Fails ==
  /\ phase \in {"ensure", "check", "sweep", "delete"} /\ fails < MaxFails
  /\ fails' = fails + 1
  /\ Return("error")
  /\ UNCHANGED <<treeVars, userVars, cutVars>>

\* Deviation: whatever is at the path is removed first.
EnsureAfresh(p) == Without(tree[to], p)
\* ensureDirectory removes a file that is in the way.
EnsureCleared(p) == IF IsFile(tree[to][p]) THEN Without(tree[to], p) ELSE tree[to]

EnsureDirectory ==
  /\ phase = "ensure" /\ queue # {}
  /\ LET p == First(queue)  dirs == Ancestors[p] \cup {p}  t == EnsureCleared(p) IN
     IF MkdirFails(t, Ancestors[p])
     THEN Return("error") /\ UNCHANGED <<treeVars, fails>>
     ELSE /\ queue' = queue \ {p}
          /\ IF dry THEN UNCHANGED treeVars ELSE Becomes(to, WithDirs(t, dirs))
          /\ UNCHANGED <<phase, planVars, todo, poolVars, outcome, fails>>
  /\ UNCHANGED <<userVars, cutVars>>

DirectoriesEnsured ==
  /\ phase = "ensure" /\ queue = {} /\ Goto("check")
  /\ queue' = Files(plan)
  /\ UNCHANGED <<treeVars, userVars, planVars, todo, poolVars, outcome, cutVars, fails>>

\* Deviation: what exists is left alone.
NeedsCopyIfMissing(p) == tree[to][p] \in {"absent", "dir"}
\* fileNeedsCopy: missing, a directory, of another size or of another sum.
NeedsCopy(p) ==
  \/ tree[to][p] \in {"absent", "dir"}
  \/ Size(tree[to][p]) # Size(plan[p])
  \/ tree[From][p] # tree[to][p]
\* It opens the source only to compare sums.  A path below a file is an error
\* on a local file system and a missing file over SFTP.
CheckFails(p) ==
  \/ IsFile(tree[to][p]) /\ Size(tree[to][p]) = Size(plan[p]) /\ ~IsFile(tree[From][p])
  \/ to \notin Remote /\ MkdirFails(tree[to], Ancestors[p])

FileNeedsCopy ==
  /\ phase = "check" /\ queue # {}
  /\ LET p == First(queue) IN
     IF CheckFails(p) THEN Return("error")
     ELSE /\ queue' = queue \ {p}
          /\ todo' = IF NeedsCopy(p) THEN todo \cup {p} ELSE todo
          /\ UNCHANGED <<phase, planVars, poolVars, outcome>>
  /\ UNCHANGED <<treeVars, userVars, cutVars, fails>>

NothingToCopy ==
  /\ phase = "check" /\ queue = {} /\ todo = {} /\ Goto("sweep")
  /\ UNCHANGED <<treeVars, userVars, planVars, queue, todo, poolVars, outcome, cutVars, fails>>

(***************************************************************************)
(* copyFiles: workers, the feeder goroutine, and the main one waiting for  *)
(* results.                                                                *)
(***************************************************************************)
Cancelled == cancelled \/ interrupted
Idle == {w \in Workers : worker[w].at = "off"}
PoolOver == \A w \in Workers : worker[w].at = "off" \/ worker[w].stale

\* Bound: a pool waits for workers of earlier cycles if too few are left.
StartPool ==
  /\ phase = "check" /\ queue = {} /\ todo # {} /\ Goto("copy")
  /\ \E pool \in SUBSET Idle :
       /\ Cardinality(pool) = parallelNum
       /\ worker' = [w \in Workers |->
            IF w \in pool THEN [Off EXCEPT !.at = "ready", !.to = to] ELSE worker[w]]
  /\ queue' = todo /\ todo' = {}
  /\ feeding' = TRUE
  /\ UNCHANGED <<treeVars, userVars, planVars, failed, cancelled, outcome, cutVars, fails>>

\* The select of the feeder may prefer tasks <- file to a context that is done.
Feed(w) ==
  /\ phase = "copy" /\ feeding /\ queue # {} /\ worker[w].at = "ready"
  /\ worker' = [worker EXCEPT ![w] = [@ EXCEPT !.at = "taken", !.file = First(queue),
                                               !.time = planStamp[First(queue)]]]
  /\ queue' = queue \ {First(queue)}
  /\ UNCHANGED <<treeVars, userVars, phase, planVars, todo, feeding, failed, cancelled,
                 outcome, cutVars, fails>>

\* Deviation: the feeder polls for a free worker, and never the context.
FeederPolls ==
  /\ phase = "copy" /\ feeding
  /\ IF queue # {} THEN UNCHANGED feeding ELSE feeding' = FALSE
  /\ UNCHANGED <<treeVars, userVars, phase, planVars, queue, todo, failed, cancelled, worker,
                 outcome, cutVars, fails>>
CloseTasks ==
  /\ phase = "copy" /\ feeding /\ (queue = {} \/ Cancelled)
  /\ feeding' = FALSE /\ queue' = {}
  /\ UNCHANGED <<treeVars, userVars, phase, planVars, todo, failed, cancelled, worker,
                 outcome, cutVars, fails>>

WorkerGoto(w, place) == worker' = [worker EXCEPT ![w].at = place]
WorkerOff(w) == worker' = [worker EXCEPT ![w] = Off]
NextFile(w) ==
  worker' = [worker EXCEPT ![w] = [Off EXCEPT !.at = "ready", !.to = worker[w].to]]

NoMoreTasks(w) ==
  /\ worker[w].at = "ready" /\ ~feeding /\ WorkerOff(w)
  /\ UNCHANGED <<treeVars, userVars, phase, planVars, queue, todo, feeding, failed, cancelled,
                 outcome, cutVars, fails>>

\* Deviation: an error cancels the other workers and goes nowhere.
WorkerFailsUnseen(w) ==
  /\ WorkerOff(w) /\ UNCHANGED failed
  /\ IF worker[w].stale THEN UNCHANGED cancelled ELSE cancelled' = TRUE

\* A worker's error goes to the buffered results channel.
WorkerFails(w) ==
  /\ WorkerOff(w)
  /\ IF worker[w].stale THEN UNCHANGED <<failed, cancelled>>
                        ELSE failed' = TRUE /\ cancelled' = TRUE

\* copySingleFile, first half: skip if cancelled; print only, if --dry-run;
\* else remove a directory that is in the way.
BeginCopy(w) ==
  /\ worker[w].at = "taken"
  /\ LET p == worker[w].file  s == worker[w].to IN
     IF Cancelled THEN WorkerOff(w) /\ UNCHANGED treeVars
     ELSE IF dry THEN NextFile(w) /\ UNCHANGED treeVars
     ELSE /\ WorkerGoto(w, "open")
          /\ IF tree[s][p] = "dir" THEN Becomes(s, Without(tree[s], p)) ELSE UNCHANGED treeVars
  /\ UNCHANGED <<userVars, phase, planVars, queue, todo, feeding, failed, cancelled, outcome,
                 cutVars, fails>>

\* MkdirAll, Open, and OpenWriter, which truncates.
CannotOpen(w) ==
  LET p == worker[w].file  s == worker[w].to IN
  \/ worker[w].stale
  \/ ~IsFile(tree[Other(s)][p]) \/ tree[s][p] = "dir"
OpenFiles(w) ==
  /\ worker[w].at = "open"
  /\ LET p == worker[w].file  s == worker[w].to  dirs == Ancestors[p]
         gone == worker[w].stale /\ s \in Remote IN
     \/ /\ MkdirFails(tree[s], dirs) \/ gone
        /\ WorkerFails(w) /\ UNCHANGED <<treeVars, fails>>
     \/ /\ ~MkdirFails(tree[s], dirs) /\ ~gone /\ CannotOpen(w)
        /\ Becomes(s, WithDirs(tree[s], dirs))
        /\ WorkerFails(w) /\ UNCHANGED fails
     \/ /\ ~MkdirFails(tree[s], dirs) /\ ~CannotOpen(w)
        /\ Becomes(s, [WithDirs(tree[s], dirs) EXCEPT ![p] = "part"])
        /\ worker' = [worker EXCEPT ![w].at = "copy", ![w].read = tree[Other(s)][p]]
        /\ /\ UNCHANGED <<failed, cancelled, fails>>
     \/ /\ fails < MaxFails /\ fails' = fails + 1
        /\ WorkerFails(w) /\ UNCHANGED treeVars
  /\ UNCHANGED <<userVars, phase, planVars, queue, todo, feeding, outcome, cutVars>>

\* The copy, then Chtimes.  The reader may or may not see what the user has
\* changed since the file was opened.
Written(w, node, time) ==
  LET p == worker[w].file  s == worker[w].to IN
  IF IsFile(tree[s][p])
  THEN tree' = [tree EXCEPT ![s][p] = node] /\ stamp' = [stamp EXCEPT ![s][p] = time]
  ELSE UNCHANGED treeVars

CopyFile(w) ==
  /\ worker[w].at = "copy" /\ ~worker[w].stale
  /\ \E node \in {worker[w].read, tree[Other(worker[w].to)][worker[w].file]} :
       IsFile(node) /\ Written(w, node, worker[w].time)
  /\ NextFile(w)
  /\ UNCHANGED <<userVars, phase, planVars, queue, todo, feeding, failed, cancelled, outcome,
                 cutVars, fails>>

\* Reading or writing fails half way.  ProgressPrinter drops the error, and the
\* file that was cut gets the time of the whole one, if it can be reached.
CutCopy(w) ==
  /\ worker[w].at = "copy"
  /\ \/ /\ worker[w].stale /\ WorkerOff(w)
        /\ IF worker[w].to \in Remote THEN UNCHANGED treeVars
                                      ELSE Written(w, "part", worker[w].time)
        /\ UNCHANGED <<cutVars, fails>>
     \/ /\ ~worker[w].stale /\ NextFile(w)
        /\ fails < MaxFails /\ fails' = fails + 1
        /\ cut' = TRUE /\ halfway' = Bidirectional
        /\ UNCHANGED treeVars \/ Written(w, "part", worker[w].time)
  /\ UNCHANGED <<userVars, phase, planVars, queue, todo, feeding, failed, cancelled, outcome>>

\* The main goroutine ranges over results: the first error ends it, at once.
CopyFailed ==
  /\ phase = "copy" /\ failed
  /\ Return("error")
  /\ halfway' = (halfway \/ (Bidirectional /\ \E w \in Workers : worker[w].at = "copy"))
  /\ UNCHANGED <<treeVars, userVars, cut, fails>>

\* wg.Wait and close(results).  Cancelled from outside, copyFiles returns nil.
CopiesDone ==
  /\ phase = "copy" /\ ~feeding /\ PoolOver /\ ~failed
  /\ Goto("sweep")
  /\ cancelled' = FALSE
  /\ UNCHANGED <<treeVars, userVars, planVars, queue, todo, feeding, failed, worker,
                 outcome, cutVars, fails>>

(***************************************************************************)
(* deleteExtraPaths, and the end of the cycle.                             *)
(***************************************************************************)
\* pathsToDelete: what is there, neither desired nor above what is desired.
Protected == LET desired == {p \in Paths : plan[p] # "none"} IN
  desired \cup UNION {Ancestors[p] : p \in desired}
Sweep ==
  /\ phase = "sweep" /\ Goto("delete")
  /\ queue' = IF delete THEN {p \in Paths : tree[to][p] # "absent"} \ Protected ELSE {}
  /\ UNCHANGED <<treeVars, userVars, planVars, todo, poolVars, outcome, cutVars, fails>>

DeletePath ==
  /\ phase = "delete" /\ queue # {}
  /\ queue' = queue \ {Last(queue)}
  /\ IF dry THEN UNCHANGED treeVars ELSE Becomes(to, Without(tree[to], Last(queue)))
  /\ UNCHANGED <<userVars, phase, planVars, todo, poolVars, outcome, cutVars, fails>>

\* The second plan of a bidirectional cycle is applied only after the first
\* one has succeeded.
SecondPlan ==
  /\ phase = "delete" /\ queue = {} /\ Bidirectional /\ to = "right"
  /\ Goto("ensure")
  /\ to' = "left" /\ plan' = later /\ planStamp' = laterStamp
  /\ later' = NoPlan /\ laterStamp' = NoStamps
  /\ queue' = Directories(later)
  /\ UNCHANGED <<treeVars, userVars, todo, poolVars, outcome, cutVars, fails>>

CycleDone ==
  /\ phase = "delete" /\ queue = {} /\ (Bidirectional => to = "left")
  /\ Return("ok")
  /\ UNCHANGED <<treeVars, userVars, cutVars, fails>>

\* RunDaemonLoop sees the signal; Progress.Wait waits for copies under way.
Stop ==
  /\ phase = "idle" /\ interrupted /\ \A w \in Workers : worker[w].at # "copy"
  /\ Goto("stopped")
  /\ worker' = [w \in Workers |-> Off]
  /\ UNCHANGED <<treeVars, userVars, planVars, queue, todo, feeding, failed, cancelled,
                 outcome, cutVars, fails>>

(***************************************************************************)
(* The user.                                                               *)
(***************************************************************************)
Interrupt ==
  /\ Interrupts /\ ~interrupted /\ phase # "stopped"
  /\ interrupted' = TRUE
  /\ UNCHANGED <<treeVars, now, delete, dry, parallelNum, edited, newest, edits, phase,
                 planVars, queue, todo, poolVars, outcome, cutVars, fails>>

\* A file is changed, or removed.
Edit(s, p) ==
  /\ edits < MaxEdits /\ s \in EditSides /\ (phase # "idle" => EditDuringCycle)
  /\ IsFile(tree[s][p])
  /\ \E node \in Contents \cup (IF Bidirectional THEN {} ELSE {"absent"}) :
       /\ \A side \in Sides : node # tree[side][p]
       /\ tree' = [tree EXCEPT ![s][p] = node]
       /\ newest' = IF newest[p] = "none" THEN newest ELSE [newest EXCEPT ![p] = node]
  /\ stamp' = IF Bidirectional THEN [stamp EXCEPT ![s][p] = now] ELSE stamp
  /\ now' = IF Bidirectional THEN now + 1 ELSE now
  /\ edited' = TRUE /\ edits' = edits + 1
  /\ UNCHANGED <<delete, dry, parallelNum, interrupted, phase, planVars, queue, todo, poolVars, outcome,
                 cutVars, fails>>

MainStep ==
  \/ Scan \/ EnsureDirectory \/ DirectoriesEnsured \/ FileNeedsCopy \/ NothingToCopy
  \/ StartPool \/ CopyFailed \/ CopiesDone \/ Sweep \/ DeletePath \/ SecondPlan \/ CycleDone
WorkerStep(w) ==
  NoMoreTasks(w) \/ BeginCopy(w) \/ OpenFiles(w) \/ CopyFile(w) \/ CutCopy(w)
Feeder == CloseTasks \/ \E w \in Workers : Feed(w)
Terminated == phase = "stopped" /\ UNCHANGED vars

Next ==
  \/ MainStep \/ Fails \/ Stop \/ Feeder \/ Interrupt \/ Terminated
  \/ \E w \in Workers : WorkerStep(w)
  \/ \E s \in Sides, p \in Paths : Edit(s, p)

Spec == Init /\ [][Next]_vars

\* Goroutines run, files are read and written to the end, the ticker ticks.
FairSpec ==
  /\ Spec /\ WF_vars(MainStep) /\ WF_vars(Feeder)
  /\ \A w \in Workers : WF_vars(WorkerStep(w))

(***************************************************************************)
(* Properties.                                                             *)
(***************************************************************************)
\* The types; trees stay trees, and a worker copies a file of the plan.
TypeOK ==
  /\ tree \in [Sides -> [Paths -> Nodes]] /\ \A s \in Sides : WellFormed(tree[s])
  /\ stamp \in [Sides -> [Paths -> Nat]] /\ now \in Nat
  /\ {delete, dry, feeding, failed, cancelled, interrupted, cut, halfway, edited} \subseteq BOOLEAN
  /\ parallelNum \in 1..MaxParallel
  /\ phase \in {"idle", "ensure", "check", "copy", "sweep", "delete", "stopped"}
  /\ to \in Sides
  /\ {plan, later} \subseteq [Paths -> {"none", "absent", "dir", "part", "file"}]
  /\ {planStamp, laterStamp} \subseteq [Paths -> Nat]
  /\ queue \subseteq Paths /\ todo \subseteq Files(plan)
  /\ outcome \in {"none", "ok", "error"}
  /\ \A w \in Workers :
       /\ worker[w].at \in {"off", "ready", "taken", "open", "copy"}
       /\ worker[w].at \in {"taken", "open", "copy"} => worker[w].file \in Paths
       /\ worker[w].at # "off" /\ ~worker[w].stale =>
            phase = "copy" /\ worker[w].to = to /\ worker[w].file \in Files(plan) \cup {Root}
  /\ edits \in 0..MaxEdits /\ fails \in 0..MaxFails

\* One way: the source's entries are in the destination, and with --delete
\* nothing else.  Bidirectional: the sides are the same.
Synced ==
  IF Bidirectional THEN tree["left"] = tree["right"]
  ELSE \A p \in Paths : IF tree["left"][p] # "absent" THEN tree["right"][p] = tree["left"][p]
                        ELSE delete => tree["right"][p] = "absent"

\* A cycle that returns no error has synced, unless the signal came, a copy was
\* cut unnoticed, or the user went on working: no error of the pool is lost.
OkMeansSynced ==
  phase = "idle" /\ outcome = "ok" /\ ~(dry \/ interrupted \/ cut \/ edited) => Synced

\* What lssync removes from the destination was in the way of the plan, or is an
\* extra and --delete is given.
InTheWay(p) == \E q \in Ancestors[p] \cup {p} :
  \/ tree[to][q] = "dir" /\ (plan[q] = "file" \/ IsFile(plan[q]))
  \/ IsFile(tree[to][q]) /\ plan[q] = "dir"
OnlyExtrasGo ==
  [][\A p \in Paths : tree["right"][p] # "absent" /\ tree'["right"][p] = "absent" =>
       \/ edits' # edits
       \/ p \notin Protected /\ delete
       \/ InTheWay(p)]_vars

\* --dry-run changes nothing in the destination.
DryRunChangesNothing == [][dry => tree'["right"] = tree["right"]]_vars

\* Every cycle comes to an end, also when workers fail or the signal comes.
CycleEnds == InCycle ~> ~InCycle

\* The daemon repairs what failures, cut copies and the user's edits have left.
DaemonMends == <>[](dry \/ interrupted \/ Synced)

\* The newest contents of a path are never lost from both sides.
NewestNeverLost ==
  \A p \in Paths : newest[p] = "none" \/ \E s \in Sides : tree[s][p] = newest[p]

\* They are not before a copy was left half way, whatever else has failed, was
\* interrupted or is in the way of each other.
NewestKept == ~halfway => NewestNeverLost
=============================================================================
