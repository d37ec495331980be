------------------------------ MODULE Transfer ------------------------------
(***************************************************************************)
(* One directory copied between this machine and several hosts over SFTP:  *)
(* lscp (push, pull, via) and the lsftp commands put, get and copy.  For   *)
(* each host a goroutine walks the directory and feeds a pool of workers,  *)
(* each with a connection of its own.                                      *)
(*                                                                         *)
(* The copy of an item has one of two places: "at", where the copied       *)
(* directory gets the name of the destination, and "in", where it keeps    *)
(* its own name inside the destination.  (via does not look at the         *)
(* destination and writes to the source's own path: "at".)                 *)
(***************************************************************************)
EXTENDS Naturals, Sequences, FiniteSets

CONSTANTS
  Hosts,
  Walk,         \* the items in the order of the walk, the directory itself first
  Dirs,         \* those that are directories
  Above,        \* the items an item lies below
  MaxParallel,  \* bound on --parallel
  MaxWorkers,   \* bound on the workers of all hosts
  MaxFails      \* bound on failing operations

Items == {Walk[n] : n \in 1..Len(Walk)}
Root == Walk[1]
Places == {"at", "in"}
Workers == Hosts \X (1..MaxParallel)

\* A walk meets a directory before what lies in it.
ASSUME TransferAssumption ==
  /\ IsFiniteSet(Hosts) /\ Walk \in Seq(Items) /\ Walk # <<>>
  /\ Dirs \subseteq Items /\ Root \in Dirs
  /\ Above \in [Items -> SUBSET Dirs] /\ Above[Root] = {}
  /\ \A n \in 1..Len(Walk) : \A i \in Above[Walk[n]] : \E m \in 1..(n - 1) : Walk[m] = i
  /\ MaxParallel \in Nat \ {0} /\ MaxWorkers \in Nat /\ MaxFails \in Nat

VARIABLES
  cmd, parallel, dry,  \* the command, --parallel and --dry-run
  targets,      \* the hosts named
  existed,      \* the destination is a directory at first
  empty,        \* files without contents
  main,         \* where the command is
  pool,         \* where the goroutine of each host is
  dialed,       \* workers it has tried to connect
  fed,          \* items it has handed out
  worker,       \* where each worker is, its item, its place, its connection
  tree,         \* what has arrived: each item in each place
  missed,       \* items of each host that the walk did not list or put did not open
  reported,     \* hosts for which an error was printed
  stuck,        \* a progress bar will never complete
  interrupted,  \* lsftp: the context of the command is done
  fails

options == <<cmd, parallel, dry, targets, existed, empty>>
vars == <<options, main, pool, dialed, fed, worker, tree, missed, reported, stuck, interrupted, fails>>

Push == cmd \in {"push", "put"}
Pull == cmd \in {"pull", "get"}
Lsftp == cmd \in {"put", "get", "copy"}
Multi == Cardinality(targets) > 1

\* What lies below a directory.
Below(i) == {j \in Items : i \in Above[j]}

\* The directories a copy lies in.
AboveNode(place, item) ==
  {<<place, i>> : i \in Above[item]} \cup (IF place = "in" THEN {<<"at", Root>>} ELSE {})
MkdirAll(t, nodes) == [n \in DOMAIN t |-> IF n \in nodes THEN "dir" ELSE t[n]]
\* Mkdir fails, unnoticed, if the directory is there or what it is to lie in is not.
Mkdir(t, place, item) ==
  IF \A n \in AboveNode(place, item) : t[n] = "dir" THEN MkdirAll(t, {<<place, item>>}) ELSE t

Off == [at |-> "off", item |-> Root, place |-> "at", closed |-> FALSE]

Init ==
  /\ cmd \in {"push", "pull", "via", "put", "get", "copy"}
  /\ parallel \in IF cmd = "copy" THEN {1} ELSE 1..MaxParallel
  /\ dry \in BOOLEAN
  /\ targets \in {T \in (SUBSET Hosts) \ {{}} : Cardinality(T) * parallel <= MaxWorkers}
  /\ existed \in BOOLEAN /\ empty \in SUBSET (Items \ Dirs)
  /\ main = "start"
  /\ pool = [h \in Hosts |-> "idle"]
  /\ dialed = [h \in Hosts |-> 0] /\ fed = [h \in Hosts |-> 0]
  /\ worker = [w \in Workers |-> Off]
  /\ tree = [h \in Hosts |-> [n \in Places \X Items |->
               IF n = <<"at", Root>> /\ existed THEN "dir" ELSE "absent"]]
  /\ missed = [h \in Hosts |-> {}]
  /\ reported = {} /\ stuck = FALSE /\ interrupted = FALSE /\ fails = 0

Report(h) == reported' = reported \cup {h}
Fail == fails < MaxFails /\ fails' = fails + 1
PoolGoto(h, at) == pool' = [pool EXCEPT ![h] = at]

(***************************************************************************)
(* The command: connect, start a goroutine for each host, wait for them    *)
(* and for the progress bars.                                              *)
(***************************************************************************)
\* createScpConnects (pull and via) leaves out hosts that cannot be reached; the
\* other commands start with every host.  push and put end at once if the source
\* is not there, and list it once for all hosts: WalkDir leaves out, and nobody
\* is told, what lies in a directory that cannot be read.
Begin ==
  /\ main = "start"
  /\ \E lost \in SUBSET targets, unread \in SUBSET Dirs :
       /\ lost # {} => cmd \in {"pull", "via"} \/ (Push /\ lost = targets)
       /\ unread # {} => Push
       /\ IF lost = {} /\ unread = {} THEN UNCHANGED fails ELSE Fail
       /\ pool' = [h \in Hosts |-> IF h \in lost THEN "lost" ELSE pool[h]]
       /\ missed' = [h \in Hosts |-> missed[h] \cup UNION {Below(d) : d \in unread}]
       /\ reported' = reported \cup lost
       /\ main' = IF lost = targets THEN "exited" ELSE "launch"
  /\ UNCHANGED <<options, dialed, fed, worker, tree, stuck, interrupted>>

\* pullPath and get make a directory for each host if there are several.  get
\* makes it, and the destination, in a dry run too.
HostDir(h) ==
  IF Pull /\ (Multi \/ existed) /\ (dry => cmd = "get")
  THEN [tree EXCEPT ![h] = MkdirAll(@, {<<"at", Root>>})] ELSE tree
Launch(h) ==
  /\ main = "launch" /\ h \in targets /\ pool[h] = "idle"
  /\ PoolGoto(h, "dialing")
  /\ tree' = HostDir(h)
  /\ UNCHANGED <<options, missed, main, dialed, fed, worker, reported, stuck, interrupted, fails>>

\* That directory cannot be made: pullPath gives up the host, get everything: it
\* cancels its context, and does not wait for the hosts it has started.
LaunchFails(h) ==
  /\ main = "launch" /\ h \in targets /\ pool[h] = "idle" /\ Pull /\ Multi
  /\ Fail /\ Report(h)
  /\ IF cmd = "get" THEN main' = "aborted" /\ interrupted' = TRUE
                    ELSE UNCHANGED <<main, interrupted>>
  /\ PoolGoto(h, "done")
  /\ UNCHANGED <<options, missed, dialed, fed, worker, tree, stuck>>

\* Deviation: it waits for the first host only.
AnyDone == \E h \in targets : pool[h] \in {"lost", "done"}
AllDone == \A h \in targets : pool[h] \in {"lost", "done"}
Wait ==
  /\ main = "launch" /\ AllDone /\ main' = "wait"
  /\ UNCHANGED <<options, missed, pool, dialed, fed, worker, tree, reported, stuck, interrupted, fails>>

\* Progress.Wait returns when every bar has completed.
ProgressWait ==
  /\ main = "wait" /\ ~stuck /\ main' = "exited"
  /\ UNCHANGED <<options, missed, pool, dialed, fed, worker, tree, reported, stuck, interrupted, fails>>

(***************************************************************************)
(* The goroutine of a host: dial, feed, close, join.                       *)
(***************************************************************************)
\* lsftp's own connection is the first worker's.
Dial(h) ==
  /\ pool[h] = "dialing" /\ dialed[h] < parallel
  /\ dialed' = [dialed EXCEPT ![h] = @ + 1]
  /\ worker' = [worker EXCEPT ![<<h, dialed'[h]>>] = [Off EXCEPT !.at = "ready"]]
  /\ UNCHANGED <<options, missed, main, pool, fed, tree, reported, stuck, interrupted, fails>>

DialFails(h) ==
  /\ pool[h] = "dialing" /\ dialed[h] < parallel
  /\ Lsftp => dialed[h] > 0
  /\ Fail /\ Report(h)
  /\ dialed' = [dialed EXCEPT ![h] = @ + 1]
  /\ UNCHANGED <<options, missed, main, pool, fed, worker, tree, stuck, interrupted>>

\* push asks whether there is any worker; pull and via do not.
Pooled(h) == {w \in Workers : w[1] = h /\ worker[w].at # "off"}
StartFeeding(h) ==
  /\ pool[h] = "dialing" /\ dialed[h] = parallel
  /\ PoolGoto(h, IF cmd = "push" /\ Pooled(h) = {} THEN "done" ELSE "feeding")
  /\ UNCHANGED <<options, missed, main, dialed, fed, worker, tree, reported, stuck, interrupted, fails>>

\* via has one feeder, for hosts whose workers are all connected.
Turn(h) == cmd = "via" =>
  \A g \in targets : pool[g] = "lost" \/ (pool[g] \notin {"idle", "dialing"} /\ fed[h] <= fed[g])
Feeding(h) == pool[h] = "feeding" /\ fed[h] < Len(Walk) /\ Turn(h)
NextItem(h) == Walk[fed[h] + 1]
Listed(h) == Feeding(h) /\ NextItem(h) \notin missed[h]
Fed(h) == fed' = [fed EXCEPT ![h] = @ + 1]

\* copySourceBase and resolve...DestinationPath, where they do not depend on
\* what a worker finds.
Place(h) ==
  IF cmd = "copy" \/ (Pull /\ (Multi \/ existed)) THEN "in" ELSE "at"

Feed(h, w) ==
  /\ Listed(h) /\ w[1] = h /\ worker[w].at = "ready"
  /\ NextItem(h) \notin Dirs \/ Push
  /\ worker' = [worker EXCEPT ![w] = [@ EXCEPT !.at = IF Push THEN "taken" ELSE "placed",
                                               !.item = NextItem(h), !.place = Place(h)]]
  /\ Fed(h)
  /\ UNCHANGED <<options, missed, main, pool, dialed, tree, reported, stuck, interrupted, fails>>

\* pull, get, copy: MkdirAll.  via: Mkdir.
FeedDir(h) ==
  /\ Listed(h) /\ NextItem(h) \in Dirs /\ ~Push
  /\ cmd = "get" => ~interrupted
  /\ cmd = "copy" => worker[<<h, 1>>].at = "ready"
  /\ Fed(h)
  /\ LET place == Place(h)  item == NextItem(h) IN
     tree' = IF dry THEN tree
             ELSE [tree EXCEPT ![h] =
                     IF cmd = "via" THEN Mkdir(@, place, item)
                     ELSE MkdirAll(@, AboveNode(place, item) \cup {<<place, item>>})]
  /\ UNCHANGED <<options, missed, main, pool, dialed, worker, reported, stuck, interrupted, fails>>

\* What the walk does not list is not handed out.
PassOver(h) ==
  /\ Feeding(h) /\ NextItem(h) \in missed[h] /\ Fed(h)
  /\ UNCHANGED <<options, missed, main, pool, dialed, worker, tree, reported, stuck, interrupted, fails>>

\* The walker cannot look at the source, or cannot read the directory it has just
\* listed: it goes on with what lies outside; copy gives up.  via walks for all
\* hosts at once.  Glob, which pull asks first, takes a source it cannot look at
\* for one that does not exist, and pull says nothing.
WalkFails(h) ==
  /\ Feeding(h) /\ ~Push /\ Fail
  /\ fed[h] > 0 => Walk[fed[h]] \in Dirs \ missed[h]
  /\ cmd = "copy" => worker[<<h, 1>>].at = "ready"
  /\ LET walked == IF cmd = "via" THEN {g \in targets : pool[g] # "lost"} ELSE {h} IN
     /\ \A g \in walked : fed[g] = fed[h]
     /\ missed' = [g \in Hosts |-> IF g \notin walked THEN missed[g]
                     ELSE missed[g] \cup (IF fed[h] = 0 THEN Items ELSE Below(Walk[fed[h]]))]
     /\ \/ reported' = reported \cup walked
        \/ cmd = "pull" /\ fed[h] = 0 /\ UNCHANGED reported
  /\ fed' = IF cmd = "copy" THEN [fed EXCEPT ![h] = Len(Walk)] ELSE fed
  /\ UNCHANGED <<options, main, pool, dialed, worker, tree, stuck, interrupted>>

\* Deviation: the last item is not handed out.
LastFed(h) == fed[h] + 1 >= Len(Walk)
AllFed(h) == fed[h] = Len(Walk)
\* Deviation: the feeder only returns when the context is done.
FeederPolls(h) ==
  /\ pool[h] = "feeding" /\ (AllFed(h) \/ interrupted)
  /\ pool' = IF interrupted THEN [pool EXCEPT ![h] = "joining"] ELSE pool
  /\ UNCHANGED <<options, missed, main, dialed, fed, worker, tree, reported, stuck, interrupted, fails>>
CloseTasks(h) ==
  /\ pool[h] = "feeding"
  /\ AllFed(h) \/ (interrupted /\ cmd \in {"put", "get"})
  /\ PoolGoto(h, "joining")
  /\ UNCHANGED <<options, missed, main, dialed, fed, worker, tree, reported, stuck, interrupted, fails>>

\* Deviation: one worker less is waited for.
JoinedButOne(h) == Cardinality(Pooled(h)) <= 1
Joined(h) == Pooled(h) = {}
Join(h) ==
  /\ pool[h] = "joining" /\ Joined(h)
  /\ PoolGoto(h, "done")
  /\ UNCHANGED <<options, missed, main, dialed, fed, worker, tree, reported, stuck, interrupted, fails>>

(***************************************************************************)
(* A worker: pushPath, pushFile, pushData, pullData and the loops around   *)
(* them.                                                                   *)
(***************************************************************************)
WorkerGoto(w, at) == worker' = [worker EXCEPT ![w].at = at]

\* The tasks channel is closed, or the context done, which the select may choose.
Leave(w) ==
  /\ worker[w].at = "ready"
  /\ pool[w[1]] = "joining" \/ (interrupted /\ cmd \in {"put", "get"} /\ pool[w[1]] = "feeding")
  /\ worker' = [worker EXCEPT ![w] = Off]
  /\ UNCHANGED <<options, missed, main, pool, dialed, fed, tree, reported, stuck, interrupted, fails>>

\* Deviation: they look at what an earlier worker has put there.
IsItem(w) == ~worker[w].closed /\ tree[w[1]][<<"in", Root>>] = "dir"
\* push and put look at the destination anew for each item: Lstat.
IsDir(w) == ~worker[w].closed /\ tree[w[1]][<<"at", Root>>] = "dir"
Lookup(w) ==
  /\ worker[w].at = "taken"
  /\ worker' = [worker EXCEPT ![w].at = "placed",
                              ![w].place = IF IsDir(w) THEN "in" ELSE "at"]
  /\ UNCHANGED <<options, missed, main, pool, dialed, fed, tree, reported, stuck, interrupted, fails>>

Placed(w) == worker[w].at = "placed"
Node(w) == <<worker[w].place, worker[w].item>>
Opened(w) == MkdirAll(tree[w[1]], AboveNode(worker[w].place, worker[w].item))

MakeDir(w) ==
  /\ Placed(w) /\ worker[w].item \in Dirs /\ WorkerGoto(w, "ready")
  /\ tree' = IF dry \/ worker[w].closed THEN tree
             ELSE [tree EXCEPT ![w[1]] = Mkdir(@, worker[w].place, worker[w].item)]
  /\ UNCHANGED <<options, missed, main, pool, dialed, fed, reported, stuck, interrupted, fails>>

\* A dry run only prints, but pullPath makes the directories.  get asks whether
\* the context is done.
SkipFile(w) ==
  /\ Placed(w) /\ worker[w].item \notin Dirs /\ WorkerGoto(w, "ready")
  /\ dry \/ (interrupted /\ cmd = "get")
  /\ tree' = IF cmd = "pull" THEN [tree EXCEPT ![w[1]] = Opened(w)] ELSE tree
  /\ UNCHANGED <<options, missed, main, pool, dialed, fed, reported, stuck, interrupted, fails>>

\* MkdirAll, then OpenFile and Truncate.
OpenFile(w) ==
  /\ Placed(w) /\ worker[w].item \notin Dirs /\ ~dry /\ ~worker[w].closed
  /\ WorkerGoto(w, "copy")
  /\ tree' = [tree EXCEPT ![w[1]] = [Opened(w) EXCEPT ![Node(w)] = "part"]]
  /\ UNCHANGED <<options, missed, main, pool, dialed, fed, reported, stuck, interrupted, fails>>

\* An error before the copy, up to that of Truncate.  put prints nothing.  copy gives up the source.
OpenFails(w) ==
  /\ Placed(w) /\ worker[w].item \notin Dirs /\ ~dry
  /\ IF worker[w].closed THEN UNCHANGED fails ELSE Fail
  /\ WorkerGoto(w, "ready")
  /\ IF cmd = "put"
     THEN missed' = [missed EXCEPT ![w[1]] = @ \cup {worker[w].item}] /\ UNCHANGED reported
     ELSE Report(w[1]) /\ UNCHANGED missed
  /\ fed' = IF cmd = "copy" THEN [fed EXCEPT ![w[1]] = Len(Walk)] ELSE fed
  /\ \E t \in {tree[w[1]]} \cup (IF worker[w].closed /\ cmd = "put" THEN {} ELSE {Opened(w)})
         \cup (IF worker[w].closed THEN {} ELSE {[Opened(w) EXCEPT ![Node(w)] = "part"]}) :
       tree' = [tree EXCEPT ![w[1]] = t]
  /\ UNCHANGED <<options, main, pool, dialed, stuck, interrupted>>

\* The bar of an empty file has no total, and never completes.
CopyDone(w) ==
  /\ worker[w].at = "copy" /\ ~worker[w].closed /\ WorkerGoto(w, "ready")
  /\ tree' = [tree EXCEPT ![w[1]][Node(w)] = "file"]
  /\ stuck' = (stuck \/ worker[w].item \in empty)
  /\ UNCHANGED <<options, missed, main, pool, dialed, fed, reported, interrupted, fails>>

\* lscp prints the error, and has counted what it read, if not written, on the
\* bar.  In lsftp ProgressPrinter drops the error.
CopyBreaks(w) ==
  /\ worker[w].at = "copy" /\ WorkerGoto(w, "ready")
  /\ IF worker[w].closed THEN UNCHANGED fails ELSE Fail
  /\ IF Lsftp THEN stuck' = TRUE /\ UNCHANGED reported
              ELSE stuck' \in {stuck, TRUE} /\ Report(w[1])
  /\ UNCHANGED <<options, missed, main, pool, dialed, fed, tree, interrupted>>

(***************************************************************************)
(* put and get: SIGINT and SIGTERM.                                        *)
(***************************************************************************)
Interrupt ==
  /\ cmd \in {"put", "get"} /\ main \notin {"exited", "aborted"} /\ ~interrupted
  /\ interrupted' = TRUE
  /\ UNCHANGED <<options, missed, main, pool, dialed, fed, worker, tree, reported, stuck, fails>>

\* closeExtraClients: the connections of all workers but the first, one by one;
\* those dialed later close their own.
CloseExtra(w) ==
  /\ interrupted /\ w[2] > 1 /\ worker[w].at # "off" /\ ~worker[w].closed
  /\ worker' = [worker EXCEPT ![w].closed = TRUE]
  /\ UNCHANGED <<options, missed, main, pool, dialed, fed, tree, reported, stuck, interrupted, fails>>

HostStep(h) ==
  \/ Launch(h) \/ Dial(h) \/ StartFeeding(h) \/ FeedDir(h) \/ PassOver(h) \/ CloseTasks(h)
  \/ Join(h)
  \/ \E w \in Workers : Feed(h, w)
WorkerStep(w) ==
  Leave(w) \/ Lookup(w) \/ MakeDir(w) \/ SkipFile(w) \/ OpenFile(w) \/ OpenFails(w)
  \/ CopyDone(w) \/ CopyBreaks(w)
MainStep == Begin \/ Wait \/ ProgressWait

\* Nothing is left to do: the command has ended, or hangs.
Blocked(h) == Listed(h) /\ NextItem(h) \notin Dirs /\ Pooled(h) = {}
Hangs ==
  \/ main = "wait" /\ stuck
  \/ \E h \in targets : Blocked(h)
Terminated ==
  /\ main \in {"exited", "aborted"} \/ Hangs
  /\ UNCHANGED vars

Next ==
  \/ MainStep \/ Interrupt \/ Terminated
  \/ \E h \in Hosts : HostStep(h) \/ LaunchFails(h) \/ DialFails(h) \/ WalkFails(h)
  \/ \E w \in Workers : WorkerStep(w) \/ CloseExtra(w)

Spec == Init /\ [][Next]_vars

\* Goroutines run, and reads and writes return.
FairSpec ==
  /\ Spec /\ WF_vars(MainStep)
  /\ \A h \in Hosts : WF_vars(HostStep(h))
  /\ \A w \in Workers : WF_vars(WorkerStep(w))

(***************************************************************************)
(* Properties.                                                             *)
(***************************************************************************)
\* The types; what has arrived is always a tree, and a worker's item has its
\* place in it.
TypeOK ==
  /\ main \in {"start", "launch", "wait", "exited", "aborted"}
  /\ pool \in [Hosts -> {"idle", "dialing", "feeding", "joining", "done", "lost"}]
  /\ dialed \in [Hosts -> 0..parallel] /\ fed \in [Hosts -> 0..Len(Walk)]
  /\ worker \in [Workers -> [at : {"off", "ready", "taken", "placed", "copy"},
                            item : Items, place : Places, closed : BOOLEAN]]
  /\ missed \in [Hosts -> SUBSET Items]
  /\ reported \subseteq targets /\ stuck \in BOOLEAN /\ interrupted \in BOOLEAN
  /\ fails \in 0..MaxFails
  /\ \A h \in Hosts, p \in Places, i \in Items :
       /\ tree[h][<<p, i>>] \in {"absent"} \cup (IF i \in Dirs THEN {"dir"} ELSE {"part", "file"})
       /\ tree[h][<<p, i>>] # "absent" => \A n \in AboveNode(p, i) : tree[h][n] = "dir"
  /\ \A w \in Workers : worker[w].at = "copy" => tree[w[1]][Node(w)] # "absent"

\* No other error is lost: when a command has ended, each host has the whole of
\* every file or an error was printed for it, apart from what WalkDir and Glob
\* left out in silence (push, put, pull) and from files that put did not open.
Whole(h, f) == \E p \in Places : tree[h][<<p, f>>] = "file"
FilesArrive ==
  main = "exited" /\ ~dry /\ ~interrupted =>
    \A h \in targets \ reported : \A f \in Items \ Dirs :
      Whole(h, f) \/ (cmd \in {"push", "put", "pull"} /\ f \in missed[h])

\* However many workers there are and whatever is there, the directory arrives
\* in one place, and nothing in the other.  Several workers of push or put may
\* lose an empty directory: its Mkdir comes before that of the one above.
MayBeLost(i) ==
  Push /\ parallel > 1 /\ i \in Dirs /\ \A f \in Items \ Dirs : i \notin Above[f]
Arrived(h, place) == \A i \in Items, p \in Places :
  IF p = place
  THEN \/ tree[h][<<p, i>>] = IF i \in Dirs THEN "dir" ELSE "file"
       \/ MayBeLost(i) /\ tree[h][<<p, i>>] = "absent"
  ELSE tree[h][<<p, i>>] = IF <<p, i>> = <<"at", Root>> THEN "dir" ELSE "absent"
Completed == main = "exited" /\ ~dry /\ ~interrupted /\ fails = 0
ArrivesInPlace ==
  Completed /\ (Push => existed) =>
    \A h \in targets : Arrived(h, IF Push THEN "in" ELSE Place(h))

\* The path resolution tests: a single directory copied to a new destination
\* gets the destination's name.
NewDestinationRenamesRoot ==
  Completed /\ Push /\ ~existed => \A h \in targets : Arrived(h, "at")

\* When a command has returned, no worker of it still writes.
QuietAtEnd ==
  main = "exited" => \A w \in Workers : worker[w].at = "off"

\* Every command ends, whatever fails and whenever the signal comes, unless a
\* bar cannot complete or no worker of a host could connect.
CommandEnds == <>(main \in {"exited", "aborted"} \/ Hangs)
=============================================================================
