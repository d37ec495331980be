--------------------------- MODULE TransferProofs ---------------------------
(***************************************************************************)
(* Proofs about copies to and from several hosts, for any number of hosts, *)
(* workers and failures, and any directory.                                *)
(***************************************************************************)
EXTENDS Transfer, TLAPS

(***************************************************************************)
(* Types.                                                                  *)
(***************************************************************************)
Contents == {"absent", "dir", "part", "file"}
WorkerRecord == [at : {"off", "ready", "taken", "placed", "copy"},
                 item : Items, place : Places, closed : BOOLEAN]

OptionTypes == /\ cmd \in {"push", "pull", "via", "put", "get", "copy"}
               /\ parallel \in 1..MaxParallel
               /\ dry \in BOOLEAN
               /\ targets \subseteq Hosts
HostTypes == /\ pool \in [Hosts -> {"idle", "dialing", "feeding", "joining", "done", "lost"}]
             /\ dialed \in [Hosts -> 0..parallel]
             /\ fed \in [Hosts -> 0..Len(Walk)]
             /\ missed \in [Hosts -> SUBSET Items]
WorkerTypes == worker \in [Workers -> WorkerRecord]
TreeTypes == tree \in [Hosts -> [Places \X Items -> Contents]]
OtherTypes == /\ main \in {"start", "launch", "wait", "exited", "aborted"}
              /\ stuck \in BOOLEAN /\ interrupted \in BOOLEAN
              /\ fails \in Nat

Types == OptionTypes /\ HostTypes /\ WorkerTypes /\ TreeTypes /\ OtherTypes

\* What is handed out are items of the walk.
LEMMA WalkItems ==
  /\ Len(Walk) \in Nat \ {0}
  /\ \A n \in 1..Len(Walk) : Walk[n] \in Items
  /\ Root \in Items
<1>1. Walk \in Seq(Items) /\ Walk # <<>>
  BY TransferAssumption
<1> QED
  BY <1>1 DEF Root, Items

\* A tree that can be reached, and two that have the same files.
Trees == [Places \X Items -> Contents]
SameFiles(t, u) == \A p \in Places, f \in Items \ Dirs : t[<<p, f>>] = u[<<p, f>>]

\* The directories above an item are directories of the tree.
LEMMA NodesAbove ==
  ASSUME NEW place \in Places, NEW item \in Items
  PROVE  AboveNode(place, item) \in SUBSET (Places \X Dirs)
  BY TransferAssumption, WalkItems DEF AboveNode, Places

\* Making directories keeps the type of a tree, and the files in it.
LEMMA DirsMade ==
  ASSUME NEW t \in Trees, NEW nodes \in SUBSET (Places \X Dirs)
  PROVE  MkdirAll(t, nodes) \in Trees /\ SameFiles(MkdirAll(t, nodes), t)
<1>1. \A n \in Places \X Items : MkdirAll(t, nodes)[n] = IF n \in nodes THEN "dir" ELSE t[n]
  BY DEF MkdirAll, Trees
<1>2. MkdirAll(t, nodes) \in Trees
  BY <1>1 DEF MkdirAll, Contents, Trees
<1>3. ASSUME NEW p \in Places, NEW f \in Items \ Dirs
      PROVE  MkdirAll(t, nodes)[<<p, f>>] = t[<<p, f>>]
  <2>1. <<p, f>> \in Places \X Items /\ <<p, f>> \notin nodes
    OBVIOUS
  <2> QED
    BY <1>1, <2>1
<1> QED
  BY <1>2, <1>3 DEF SameFiles

LEMMA DirMade ==
  ASSUME NEW t \in Trees, NEW place \in Places, NEW item \in Dirs
  PROVE  Mkdir(t, place, item) \in Trees /\ SameFiles(Mkdir(t, place, item), t)
<1>1. {<<place, item>>} \in SUBSET (Places \X Dirs)
  OBVIOUS
<1>2. MkdirAll(t, {<<place, item>>}) \in Trees /\ SameFiles(MkdirAll(t, {<<place, item>>}), t)
  BY <1>1, DirsMade
<1> QED
  BY <1>2 DEF Mkdir, SameFiles

\* The tree once the directories above a worker's item are there.
LEMMA OpenedTree ==
  ASSUME NEW w \in Workers, WorkerTypes, TreeTypes
  PROVE  /\ w[1] \in Hosts /\ Node(w) \in Places \X Items /\ Node(w)[2] = worker[w].item
         /\ tree[w[1]] \in Trees
         /\ Opened(w) \in Trees /\ SameFiles(Opened(w), tree[w[1]])
<1>1. w[1] \in Hosts
  BY DEF Workers
<1>2. worker[w].place \in Places /\ worker[w].item \in Items
  BY DEF WorkerTypes, WorkerRecord
<1>3. tree[w[1]] \in Trees
  BY <1>1 DEF TreeTypes, Trees
<1>4. AboveNode(worker[w].place, worker[w].item) \in SUBSET (Places \X Dirs)
  BY <1>2, NodesAbove
<1>5. Opened(w) \in Trees /\ SameFiles(Opened(w), tree[w[1]])
  BY <1>3, <1>4, DirsMade DEF Opened
<1> QED
  BY <1>1, <1>2, <1>3, <1>5 DEF Node

LEMMA HostDirTree ==
  ASSUME NEW h \in Hosts, TreeTypes
  PROVE  HostDir(h) \in [Hosts -> Trees] /\ \A g \in Hosts : SameFiles(HostDir(h)[g], tree[g])
<1>1. {<<"at", Root>>} \in SUBSET (Places \X Dirs)
  BY TransferAssumption DEF Places
<1>2. tree \in [Hosts -> Trees] /\ tree[h] \in Trees
  BY DEF TreeTypes, Trees
<1>3. /\ MkdirAll(tree[h], {<<"at", Root>>}) \in Trees
      /\ SameFiles(MkdirAll(tree[h], {<<"at", Root>>}), tree[h])
  BY <1>1, <1>2, DirsMade
<1> QED
  BY <1>2, <1>3 DEF HostDir, SameFiles

\* The tree after the walker has made a directory.
LEMMA DirFed ==
  ASSUME NEW h \in Hosts, TreeTypes, HostTypes, FeedDir(h)
  PROVE  tree' \in [Hosts -> Trees] /\ \A g \in Hosts : SameFiles(tree'[g], tree[g])
<1> DEFINE nodes == AboveNode(Place(h), NextItem(h)) \cup {<<Place(h), NextItem(h)>>}
           one == Mkdir(tree[h], Place(h), NextItem(h))
<1>1. NextItem(h) \in Dirs /\ NextItem(h) \in Items /\ Place(h) \in Places
  BY TransferAssumption DEF FeedDir, Listed, Place, Places
<1>2. tree \in [Hosts -> Trees] /\ tree[h] \in Trees
  BY DEF TreeTypes, Trees
<1>3. one \in Trees /\ SameFiles(one, tree[h])
  BY <1>1, <1>2, DirMade
<1>4. nodes \in SUBSET (Places \X Dirs)
  BY <1>1, NodesAbove
<1>5. MkdirAll(tree[h], nodes) \in Trees /\ SameFiles(MkdirAll(tree[h], nodes), tree[h])
  BY <1>2, <1>4, DirsMade
<1>6. \A g \in Hosts : SameFiles(tree[g], tree[g])
  BY DEF SameFiles
<1>7. PICK t \in Trees : SameFiles(t, tree[h]) /\ tree' \in {tree, [tree EXCEPT ![h] = t]}
  <2> HIDE DEF nodes, one
  <2>1. tree' = IF dry THEN tree
                ELSE [tree EXCEPT ![h] = IF cmd = "via" THEN one ELSE MkdirAll(tree[h], nodes)]
    BY DEF FeedDir, nodes, one
  <2> QED
    BY <1>3, <1>5, <2>1
<1>8. CASE tree' = tree
  BY <1>2, <1>6, <1>8
<1>9. CASE tree' = [tree EXCEPT ![h] = t]
  <2>1. \A g \in Hosts : tree'[g] = IF g = h THEN t ELSE tree[g]
    BY <1>2, <1>9
  <2> QED
    BY <1>2, <1>6, <1>7, <1>9, <2>1
<1> QED
  BY <1>7, <1>8, <1>9

LEMMA FailCounts == fails \in Nat /\ Fail => fails' \in Nat
  BY DEF Fail

\* The types hold in every state, for any number of hosts and workers.
LEMMA TypesNext == Types /\ [Next]_vars => Types'
<1> SUFFICES ASSUME Types, [Next]_vars
             PROVE  Types'
  OBVIOUS
<1> USE DEF Types, OptionTypes, HostTypes, WorkerTypes, OtherTypes, options
<1>1. parallel \in 1..MaxParallel /\ parallel \in Nat /\ MaxParallel \in Nat
  BY TransferAssumption
<1>2. CASE MainStep
  <2>1. fails' \in Nat
    BY <1>2, FailCounts DEF MainStep, Begin, Wait, ProgressWait
  <2>2. missed' \in [Hosts -> SUBSET Items]
    BY <1>2 DEF MainStep, Begin, Wait, ProgressWait, Below
  <2> QED
    BY <1>2, <2>1, <2>2 DEF MainStep, Begin, Wait, ProgressWait, TreeTypes
<1>3. CASE Interrupt \/ Terminated \/ UNCHANGED vars
  BY <1>3 DEF Interrupt, Terminated, vars, TreeTypes
<1>4. ASSUME NEW h \in Hosts, HostStep(h) \/ LaunchFails(h) \/ DialFails(h) \/ WalkFails(h)
      PROVE  Types'
  <2>1. CASE Launch(h)
    <3>1. TreeTypes'
      BY <2>1, HostDirTree DEF Launch, TreeTypes, Trees
    <3> QED
      BY <2>1, <3>1 DEF Launch, PoolGoto
  <2>2. CASE Dial(h)
    <3>1. [Off EXCEPT !.at = "ready"] \in WorkerRecord
      BY WalkItems DEF Off, WorkerRecord, Places
    <3>2. worker' \in [Workers -> WorkerRecord]
      <4>1. PICK v : worker' = [worker EXCEPT ![v] = [Off EXCEPT !.at = "ready"]]
        BY <2>2 DEF Dial
      <4> QED
        BY <3>1, <4>1
    <3>3. dialed' \in [Hosts -> 0..parallel]
      BY <2>2, <1>1 DEF Dial
    <3> QED
      BY <2>2, <3>2, <3>3 DEF Dial, TreeTypes
  <2>3. CASE StartFeeding(h) \/ CloseTasks(h) \/ Join(h)
    <3>1. PICK at \in {"done", "feeding", "joining"} : pool' = [pool EXCEPT ![h] = at]
      BY <2>3 DEF StartFeeding, CloseTasks, Join, PoolGoto
    <3>2. pool' \in [Hosts -> {"idle", "dialing", "feeding", "joining", "done", "lost"}]
      BY <3>1
    <3>3. UNCHANGED <<options, missed, main, dialed, fed, worker, tree, stuck, interrupted, fails>>
      BY <2>3 DEF StartFeeding, CloseTasks, Join
    <3> QED
      BY <3>2, <3>3 DEF TreeTypes
  <2>4. CASE FeedDir(h)
    <3>1. fed[h] + 1 \in 1..Len(Walk)
      BY <2>4, WalkItems DEF FeedDir, Listed, Feeding
    <3>7. TreeTypes'
      BY <2>4, DirFed DEF TreeTypes, Trees
    <3>8. fed' \in [Hosts -> 0..Len(Walk)]
      BY <2>4, <3>1 DEF FeedDir, Fed
    <3> QED
      BY <2>4, <3>7, <3>8 DEF FeedDir
  <2>5. ASSUME NEW w \in Workers, Feed(h, w)
        PROVE  Types'
    <3>1. fed[h] + 1 \in 1..Len(Walk) /\ NextItem(h) \in Items
      BY <2>5, WalkItems DEF Feed, Listed, Feeding, NextItem
    <3>2. worker' \in [Workers -> WorkerRecord]
      <4>1. Place(h) \in Places
        BY DEF Place, Places
      <4>2. PICK at \in {"taken", "placed"} :
              worker' = [worker EXCEPT ![w] = [@ EXCEPT !.at = at, !.item = NextItem(h),
                                                        !.place = Place(h)]]
        BY <2>5 DEF Feed
      <4>3. [worker[w] EXCEPT !.at = at, !.item = NextItem(h), !.place = Place(h)] \in WorkerRecord
        BY <3>1, <4>1 DEF WorkerRecord
      <4> QED
        BY <4>2, <4>3
    <3>3. fed' \in [Hosts -> 0..Len(Walk)]
      BY <2>5, <3>1 DEF Feed, Fed
    <3> QED
      BY <2>5, <3>2, <3>3 DEF Feed, TreeTypes
  <2>6. CASE LaunchFails(h)
    BY <2>6, FailCounts DEF LaunchFails, PoolGoto, TreeTypes
  <2>7. CASE DialFails(h)
    <3>1. dialed' \in [Hosts -> 0..parallel]
      BY <2>7, <1>1 DEF DialFails
    <3> QED
      BY <2>7, <3>1, FailCounts DEF DialFails, TreeTypes
  <2>8. CASE WalkFails(h)
    <3>1. fed' \in [Hosts -> 0..Len(Walk)]
      BY <2>8, WalkItems DEF WalkFails
    <3>2. missed' \in [Hosts -> SUBSET Items]
      BY <2>8 DEF WalkFails, Below
    <3> QED
      BY <2>8, <3>1, <3>2, FailCounts DEF WalkFails, TreeTypes
  <2>9. CASE PassOver(h)
    <3>1. fed[h] + 1 \in 1..Len(Walk)
      BY <2>9, WalkItems DEF PassOver, Feeding
    <3>2. fed' \in [Hosts -> 0..Len(Walk)]
      BY <2>9, <3>1 DEF PassOver, Fed
    <3> QED
      BY <2>9, <3>2 DEF PassOver, TreeTypes
  <2> QED
    BY <1>4, <2>1, <2>2, <2>3, <2>4, <2>5, <2>6, <2>7, <2>8, <2>9 DEF HostStep
<1>5. ASSUME NEW w \in Workers, WorkerStep(w) \/ CloseExtra(w)
      PROVE  Types'
  <2>0. /\ w[1] \in Hosts /\ Node(w) \in Places \X Items
        /\ tree[w[1]] \in Trees /\ Opened(w) \in [Places \X Items -> Contents]
    BY OpenedTree DEF Trees
  <2>1. CASE Leave(w)
    <3>1. Off \in WorkerRecord
      BY WalkItems DEF Off, WorkerRecord, Places
    <3> QED
      BY <2>1, <3>1 DEF Leave, TreeTypes
  <2>2. CASE Lookup(w)
    <3>1. PICK place \in Places : worker' = [worker EXCEPT ![w].at = "placed", ![w].place = place]
      BY <2>2 DEF Lookup, Places
    <3>2. [worker[w] EXCEPT !.at = "placed", !.place = place] \in WorkerRecord
      BY DEF WorkerRecord
    <3>3. worker' = [worker EXCEPT ![w] = [worker[w] EXCEPT !.at = "placed", !.place = place]]
      BY <3>1
    <3>4. worker' \in [Workers -> WorkerRecord]
      BY <3>2, <3>3
    <3> QED
      BY <2>2, <3>4 DEF Lookup, TreeTypes
  <2>3. CASE MakeDir(w)
    <3>1. worker[w].place \in Places /\ worker[w].item \in Dirs
      BY <2>3, <2>0 DEF MakeDir, WorkerRecord
    <3>2. Mkdir(tree[w[1]], worker[w].place, worker[w].item) \in [Places \X Items -> Contents]
      BY <2>0, <3>1, DirMade DEF Trees
    <3>3. TreeTypes'
      BY <2>3, <3>2 DEF MakeDir, TreeTypes
    <3> QED
      BY <2>3, <3>3 DEF MakeDir, WorkerGoto, WorkerRecord
  <2>4. CASE SkipFile(w)
    BY <2>4, <2>0 DEF SkipFile, WorkerGoto, WorkerRecord, TreeTypes
  <2>5. CASE OpenFile(w)
    <3>1. [Opened(w) EXCEPT ![Node(w)] = "part"] \in [Places \X Items -> Contents]
      BY <2>0 DEF Contents
    <3> QED
      BY <2>5, <3>1 DEF OpenFile, WorkerGoto, WorkerRecord, TreeTypes
  <2>6. CASE OpenFails(w)
    <3>1. [Opened(w) EXCEPT ![Node(w)] = "part"] \in [Places \X Items -> Contents]
      BY <2>0 DEF Contents
    <3>2. TreeTypes'
      <4>1. PICK t \in [Places \X Items -> Contents] : tree' = [tree EXCEPT ![w[1]] = t]
        BY <2>6, <2>0, <3>1 DEF OpenFails, TreeTypes
      <4> QED
        BY <4>1, <2>0 DEF TreeTypes
    <3>3. worker' \in [Workers -> WorkerRecord]
      BY <2>6 DEF OpenFails, WorkerGoto, WorkerRecord
    <3>4. fed' \in [Hosts -> 0..Len(Walk)]
      BY <2>6, <2>0, WalkItems DEF OpenFails
    <3>5. fails' \in Nat
      BY <2>6, FailCounts DEF OpenFails
    <3>6. missed' \in [Hosts -> SUBSET Items]
      <4>1. worker[w].item \in Items /\ w \in Workers
        BY DEF WorkerRecord
      <4>2. missed' \in {missed, [missed EXCEPT ![w[1]] = @ \cup {worker[w].item}]}
        BY <2>6 DEF OpenFails
      <4> QED
        BY <2>0, <4>1, <4>2
    <3> QED
      BY <2>6, <3>2, <3>3, <3>4, <3>5, <3>6 DEF OpenFails
  <2>7. CASE CopyDone(w)
    <3>1. TreeTypes'
      BY <2>7, <2>0 DEF CopyDone, TreeTypes, Contents
    <3> QED
      BY <2>7, <3>1 DEF CopyDone, WorkerGoto, WorkerRecord
  <2>8. CASE CopyBreaks(w)
    <3>1. fails' \in Nat
      BY <2>8, FailCounts DEF CopyBreaks
    <3>2. worker' \in [Workers -> WorkerRecord]
      BY <2>8 DEF CopyBreaks, WorkerGoto, WorkerRecord
    <3> QED
      BY <2>8, <3>1, <3>2 DEF CopyBreaks, TreeTypes
  <2>9. CASE CloseExtra(w)
    BY <2>9 DEF CloseExtra, WorkerRecord, TreeTypes
  <2> QED
    BY <1>5, <2>1, <2>2, <2>3, <2>4, <2>5, <2>6, <2>7, <2>8, <2>9 DEF WorkerStep
<1> QED
  BY <1>2, <1>3, <1>4, <1>5 DEF Next

LEMMA TypesInit == Init => Types
<1> SUFFICES ASSUME Init
             PROVE  Types
  OBVIOUS
<1>1. Off \in WorkerRecord
  BY WalkItems DEF Off, WorkerRecord, Places
<1>2. parallel \in 1..MaxParallel
  BY TransferAssumption DEF Init
<1>3. TreeTypes
  BY DEF Init, TreeTypes, Contents
<1>4. HostTypes
  BY <1>2, WalkItems DEF Init, HostTypes
<1>5. WorkerTypes
  BY <1>1 DEF Init, WorkerTypes
<1>6. OtherTypes
  BY DEF Init, OtherTypes
<1>7. OptionTypes
  BY <1>2 DEF Init, OptionTypes
<1> QED
  BY <1>3, <1>4, <1>5, <1>6, <1>7 DEF Types

\* Every command's state has its types: hosts, workers and what has arrived.
THEOREM TypeCorrect == Spec => []Types
<1> QED
  BY TypesInit, TypesNext, PTL DEF Spec

(***************************************************************************)
(* Quiet at the end.                                                       *)
(***************************************************************************)
\* Before a host's goroutine starts and once it has ended it has no workers, and
\* a command waits for the bars when all have ended.
QuietInv ==
  /\ main = "start" => \A h \in Hosts : pool[h] = "idle"
  /\ \A h \in Hosts \ targets : pool[h] = "idle"
  /\ main \in {"wait", "exited"} => \A h \in targets : pool[h] \in {"lost", "done"}
  /\ \A w \in Workers : pool[w[1]] \in {"idle", "lost", "done"} => worker[w].at = "off"

LEMMA QuietInit == Init => QuietInv
  BY DEF Init, QuietInv, Off, Workers

LEMMA QuietNext == Types /\ QuietInv /\ [Next]_vars => QuietInv'
<1> SUFFICES ASSUME Types, QuietInv, [Next]_vars
             PROVE  QuietInv'
  OBVIOUS
<1> USE DEF Types, OptionTypes, HostTypes, WorkerTypes, OtherTypes, QuietInv, options
<1>1. \A w \in Workers : w[1] \in Hosts
  BY DEF Workers
<1>2. CASE MainStep
  BY <1>1, <1>2 DEF MainStep, Begin, Wait, AllDone, ProgressWait
<1>3. CASE Interrupt \/ Terminated \/ UNCHANGED vars
  BY <1>3 DEF Interrupt, Terminated, vars
<1>4. ASSUME NEW h \in Hosts, HostStep(h) \/ LaunchFails(h) \/ DialFails(h) \/ WalkFails(h)
      PROVE  QuietInv'
  <2>1. CASE Launch(h) \/ LaunchFails(h)
    BY <1>1, <2>1 DEF Launch, LaunchFails, PoolGoto
  <2>2. CASE Dial(h)
    <3>1. /\ pool[h] = "dialing" /\ UNCHANGED <<main, pool, targets>>
          /\ \A w \in Workers : w[1] # h => worker'[w] = worker[w]
      BY <2>2 DEF Dial
    <3> QED
      BY <1>1, <3>1
  <2>3. CASE StartFeeding(h)
    BY <1>1, <2>3 DEF StartFeeding, PoolGoto, Pooled
  <2>4. CASE CloseTasks(h)
    BY <1>1, <2>4 DEF CloseTasks, PoolGoto
  <2>5. CASE Join(h)
    BY <1>1, <2>5 DEF Join, Joined, PoolGoto, Pooled
  <2>6. CASE FeedDir(h) \/ PassOver(h) \/ DialFails(h) \/ WalkFails(h)
    BY <2>6 DEF FeedDir, PassOver, DialFails, WalkFails
  <2>7. ASSUME NEW w \in Workers, Feed(h, w)
        PROVE  QuietInv'
    <3>1. /\ pool[w[1]] = "feeding" /\ UNCHANGED <<main, pool, targets>>
          /\ \A v \in Workers : v # w => worker'[v] = worker[v]
      BY <2>7 DEF Feed, Listed, Feeding
    <3> QED
      BY <1>1, <3>1
  <2> QED
    BY <1>4, <2>1, <2>2, <2>3, <2>4, <2>5, <2>6, <2>7 DEF HostStep
<1>5. ASSUME NEW w \in Workers, WorkerStep(w) \/ CloseExtra(w)
      PROVE  QuietInv'
  <2>1. UNCHANGED <<main, pool, targets>> /\ worker[w].at # "off"
    BY <1>5 DEF WorkerStep, Leave, Lookup, MakeDir, SkipFile, OpenFile, OpenFails, CopyDone,
                CopyBreaks, CloseExtra, Placed
  <2>2. \A v \in Workers : v # w => worker'[v] = worker[v]
    BY <1>5 DEF WorkerStep, Leave, Lookup, MakeDir, SkipFile, OpenFile, OpenFails, CopyDone,
                CopyBreaks, CloseExtra, WorkerGoto
  <2> QED
    BY <1>1, <2>1, <2>2
<1> QED
  BY <1>2, <1>3, <1>4, <1>5 DEF Next

LEMMA QuietEnd == QuietInv /\ Types => QuietAtEnd
  BY DEF QuietInv, Types, OptionTypes, QuietAtEnd, Workers

\* When a command has returned no worker of it still writes, for any number of
\* hosts and workers, whatever fails and whenever the signal comes.
THEOREM Quiet == Spec => []QuietAtEnd
<1>1. Types /\ QuietInv /\ [Next]_vars => (Types /\ QuietInv)'
  BY TypesNext, QuietNext
<1> QED
  BY <1>1, TypesInit, QuietInit, QuietEnd, PTL DEF Spec

(***************************************************************************)
(* Files arrive, or an error is printed.                                   *)
(***************************************************************************)
\* What becomes of a file that was handed out: a worker has it, it has arrived,
\* it was missed in silence, or there is an excuse.
Busy(h, f) ==
  \E w \in Workers : w[1] = h /\ worker[w].item = f /\ worker[w].at \in {"taken", "placed", "copy"}
Excused(h) ==
  dry \/ interrupted \/ h \in reported \/ (Lsftp /\ stuck)
Silent(h, f) == cmd \in {"push", "put", "pull"} /\ f \in missed[h]
Handled(h, f) == Excused(h) \/ Silent(h, f) \/ Whole(h, f) \/ Busy(h, f)

FilesHandled ==
  \A h \in Hosts : \A n \in 1..fed[h] : Walk[n] \in Items \ Dirs => Handled(h, Walk[n])

\* A host's goroutine ends when all is handed out, or with an excuse.
EndsFed ==
  /\ \A h \in Hosts : pool[h] = "idle" => dialed[h] = 0
  /\ \A h \in Hosts : pool[h] = "lost" => h \in reported
  /\ \A h \in Hosts : pool[h] = "dialing" =>
       \A i \in 1..dialed[h] : worker[<<h, i>>].at # "off" \/ h \in reported
  /\ \A h \in Hosts : pool[h] \in {"joining", "done"} =>
       fed[h] = Len(Walk) \/ interrupted \/ h \in reported
  /\ \A w \in Workers : pool[w[1]] = "dialing" => worker[w].at \in {"off", "ready"}

\* Nothing is missed while nothing fails, and via, get and copy print an error for
\* what they miss.
MissedSaid ==
  /\ fails = 0 /\ ~interrupted => \A h \in Hosts : missed[h] = {}
  /\ cmd \notin {"push", "put", "pull"} => \A h \in Hosts : missed[h] # {} => h \in reported

\* A command that has ended has no bar that is stuck, and connections are closed
\* by the signal only.
EndsUnstuck ==
  /\ main \in {"start", "exited"} => ~stuck
  /\ \A w \in Workers : worker[w].closed => interrupted

LEMMA UnstuckNext == Types /\ QuietInv /\ EndsUnstuck /\ [Next]_vars => EndsUnstuck'
<1> SUFFICES ASSUME Types, QuietInv, EndsUnstuck, [Next]_vars
             PROVE  EndsUnstuck'
  OBVIOUS
<1> USE DEF Types, OptionTypes, HostTypes, WorkerTypes, OtherTypes, EndsUnstuck, options
<1>1. CASE MainStep
  BY <1>1 DEF MainStep, Begin, Wait, ProgressWait
<1>2. CASE Interrupt \/ Terminated \/ UNCHANGED vars
  BY <1>2 DEF Interrupt, Terminated, vars
<1>3. ASSUME NEW h \in Hosts, HostStep(h) \/ LaunchFails(h) \/ DialFails(h) \/ WalkFails(h)
      PROVE  EndsUnstuck'
  <2>1. CASE Dial(h)
    <3>1. \A w \in Workers : worker'[w].closed => worker[w].closed
      BY <2>1 DEF Dial, Off
    <3> QED
      BY <2>1, <3>1 DEF Dial
  <2>2. ASSUME NEW w \in Workers, Feed(h, w)
        PROVE  EndsUnstuck'
    <3>1. \A v \in Workers : worker'[v].closed = worker[v].closed
      BY <2>2 DEF Feed, WorkerRecord
    <3> QED
      BY <2>2, <3>1 DEF Feed
  <2>3. CASE \/ Launch(h) \/ StartFeeding(h) \/ FeedDir(h) \/ CloseTasks(h) \/ Join(h)
             \/ PassOver(h) \/ DialFails(h) \/ WalkFails(h)
    BY <2>3 DEF Launch, StartFeeding, FeedDir, PassOver, CloseTasks, Join, PassOver, DialFails, WalkFails
  <2>4. CASE LaunchFails(h)
    BY <2>4 DEF LaunchFails
  <2> QED
    BY <1>3, <2>1, <2>2, <2>3, <2>4 DEF HostStep
<1>4. ASSUME NEW w \in Workers, WorkerStep(w) \/ CloseExtra(w)
      PROVE  EndsUnstuck'
  <2>1. main' = main /\ main \notin {"start", "exited"}
    <3>1. worker[w].at # "off" /\ main' = main
      BY <1>4 DEF WorkerStep, Leave, Lookup, MakeDir, SkipFile, OpenFile, OpenFails, CopyDone,
                  CopyBreaks, CloseExtra, Placed
    <3> QED
      BY <3>1 DEF QuietInv, Workers
  <2>2. CASE CloseExtra(w)
    BY <2>1, <2>2 DEF CloseExtra
  <2>3. CASE WorkerStep(w)
    <3>1. \A v \in Workers : worker'[v].closed => worker[v].closed
      <4>1. CASE Leave(w)
        BY <4>1 DEF Leave, Off
      <4>2. CASE Lookup(w)
        BY <4>2 DEF Lookup, WorkerRecord
      <4>3. CASE \E at : WorkerGoto(w, at)
        BY <4>3 DEF WorkerGoto, WorkerRecord
      <4>4. Leave(w) \/ Lookup(w) \/ \E at : WorkerGoto(w, at)
        BY <2>3 DEF WorkerStep, MakeDir, SkipFile, OpenFile, OpenFails, CopyDone, CopyBreaks
      <4> QED
        BY <4>1, <4>2, <4>3, <4>4
    <3>2. interrupted' = interrupted
      BY <2>3 DEF WorkerStep, Leave, Lookup, MakeDir, SkipFile, OpenFile, OpenFails, CopyDone,
                  CopyBreaks
    <3> QED
      BY <2>1, <3>1, <3>2
  <2> QED
    BY <1>4, <2>2, <2>3
<1> QED
  BY <1>1, <1>2, <1>3, <1>4 DEF Next

LEMMA MissedSaidNext == Types /\ EndsUnstuck /\ MissedSaid /\ [Next]_vars => MissedSaid'
<1> SUFFICES ASSUME Types, EndsUnstuck, MissedSaid, [Next]_vars
             PROVE  MissedSaid'
  OBVIOUS
<1> USE DEF Types, HostTypes, OtherTypes, MissedSaid, options
<1> DEFINE Same == /\ cmd' = cmd /\ missed' = missed /\ reported \subseteq reported'
                   /\ fails' = 0 /\ ~interrupted' => fails = 0 /\ ~interrupted
<1>0. Fail => fails' # 0
  BY DEF Fail
<1>1. CASE Begin
  <2>1. CASE Push
    BY <1>0, <1>1, <2>1 DEF Begin, Push
  <2>2. CASE ~Push
    <3>1. missed' = missed /\ cmd' = cmd /\ reported \subseteq reported'
      BY <1>1, <2>2 DEF Begin
    <3>2. (fails' = fails \/ Fail) /\ interrupted' = interrupted
      BY <1>1 DEF Begin
    <3> QED
      BY <1>0, <3>1, <3>2
  <2> QED
    BY <2>1, <2>2
<1>2. ASSUME NEW g \in Hosts, WalkFails(g)
      PROVE  MissedSaid'
  <2>1. fails' # 0 /\ cmd' = cmd
    BY <1>0, <1>2 DEF WalkFails
  <2>2. cmd # "pull" => \A h \in Hosts : missed'[h] # {} => missed[h] # {} \/ h \in reported'
    BY <1>2 DEF WalkFails
  <2>3. reported \subseteq reported'
    BY <1>2 DEF WalkFails
  <2> QED
    BY <2>1, <2>2, <2>3
<1>3. ASSUME NEW w \in Workers, OpenFails(w)
      PROVE  MissedSaid'
  <2>1. fails' # 0 \/ interrupted'
    BY <1>0, <1>3 DEF OpenFails, EndsUnstuck
  <2>2. cmd' = cmd /\ reported \subseteq reported' /\ (cmd # "put" => missed' = missed)
    BY <1>3 DEF OpenFails, Report
  <2> QED
    BY <2>1, <2>2
<1>4. CASE Same
  BY <1>4
<1>5. ASSUME NEW g \in Hosts, HostStep(g) \/ LaunchFails(g) \/ DialFails(g)
      PROVE  Same
  BY <1>0, <1>5 DEF HostStep, Launch, Dial, StartFeeding, FeedDir, PassOver, CloseTasks, Join, Feed,
              LaunchFails, DialFails, Report
<1>6. ASSUME NEW w \in Workers, WorkerStep(w) \/ CloseExtra(w), ~OpenFails(w)
      PROVE  Same
  <2>1. CASE CopyBreaks(w)
    <3>1. (fails' = fails \/ Fail) /\ interrupted' = interrupted
      BY <2>1 DEF CopyBreaks
    <3>2. cmd' = cmd /\ missed' = missed /\ reported \subseteq reported'
      BY <2>1 DEF CopyBreaks, Report
    <3> QED
      BY <1>0, <3>1, <3>2
  <2>2. CASE ~CopyBreaks(w)
    BY <1>6, <2>2 DEF WorkerStep, Leave, Lookup, MakeDir, SkipFile, OpenFile, CopyDone, CloseExtra
  <2> QED
    BY <2>1, <2>2
<1>7. ASSUME Wait \/ ProgressWait \/ Interrupt \/ Terminated \/ UNCHANGED vars
      PROVE  Same
  BY <1>7 DEF Wait, ProgressWait, Interrupt, Terminated, vars
<1> QED
  BY <1>1, <1>2, <1>3, <1>4, <1>5, <1>6, <1>7 DEF Next, MainStep

LEMMA DialedWorkers ==
  ASSUME OptionTypes, HostTypes, NEW g \in Hosts, NEW i \in 1..dialed[g]
  PROVE  <<g, i>> \in Workers
<1>1. dialed[g] \in 0..parallel /\ parallel \in 1..MaxParallel /\ MaxParallel \in Nat
  BY TransferAssumption DEF OptionTypes, HostTypes
<1>2. i \in 1..MaxParallel
  BY <1>1
<1> QED
  BY <1>2 DEF Workers

\* The workers of other goroutines, and of those that dial, stay where they are.
LEMMA DialedStay ==
  ASSUME Types, EndsFed, UNCHANGED <<pool, dialed>>, reported \subseteq reported',
         NEW w \in Workers, \A v \in Workers : v # w => worker'[v] = worker[v],
         pool[w[1]] = "dialing" => worker'[w].at = worker[w].at
  PROVE  /\ \A g \in Hosts : pool'[g] = "dialing" =>
              \A i \in 1..dialed'[g] : worker'[<<g, i>>].at # "off" \/ g \in reported'
         /\ \A v \in Workers : pool'[v[1]] = "dialing" => worker'[v].at \in {"off", "ready"}
<1>1. \A v \in Workers : pool[v[1]] = "dialing" => worker'[v].at = worker[v].at
  OBVIOUS
<1>2. ASSUME NEW g \in Hosts, pool[g] = "dialing", NEW i \in 1..dialed[g]
      PROVE  worker'[<<g, i>>].at # "off" \/ g \in reported'
  <2>1. <<g, i>> \in Workers /\ <<g, i>>[1] = g
    BY DialedWorkers DEF Types
  <2>2. worker[<<g, i>>].at # "off" \/ g \in reported
    BY <1>2 DEF EndsFed
  <2> QED
    BY <1>1, <1>2, <2>1, <2>2
<1> QED
  BY <1>1, <1>2 DEF EndsFed

LEMMA EndsFedNext == Types /\ QuietInv /\ EndsFed /\ [Next]_vars => EndsFed'
<1> SUFFICES ASSUME Types, QuietInv, EndsFed, [Next]_vars
             PROVE  EndsFed'
  OBVIOUS
<1> USE DEF Types, OptionTypes, HostTypes, WorkerTypes, OtherTypes, EndsFed, options
<1>1. \A w \in Workers : w[1] \in Hosts
  BY DEF Workers
<1>2. CASE MainStep
  BY <1>1, <1>2 DEF MainStep, Begin, Wait, ProgressWait, QuietInv
<1>3. CASE Interrupt \/ Terminated \/ UNCHANGED vars
  BY <1>3 DEF Interrupt, Terminated, vars
<1>4. ASSUME NEW h \in Hosts, HostStep(h) \/ LaunchFails(h) \/ DialFails(h) \/ WalkFails(h)
      PROVE  EndsFed'
  <2>1. CASE Launch(h)
    BY <1>1, <2>1 DEF Launch, PoolGoto, QuietInv
  <2>2. CASE LaunchFails(h)
    BY <1>1, <2>2 DEF LaunchFails, PoolGoto, Report
  <2>3. CASE Dial(h)
    <3>0. dialed[h] \in Nat /\ dialed[h] + 1 \in 1..MaxParallel /\ parallel \in Nat
      BY <2>3, TransferAssumption DEF Dial
    <3>1. <<h, dialed[h] + 1>> \in Workers
      BY <3>0 DEF Workers
    <3>2. /\ dialed' = [dialed EXCEPT ![h] = dialed[h] + 1]
          /\ worker' = [worker EXCEPT ![<<h, dialed[h] + 1>>] = [Off EXCEPT !.at = "ready"]]
          /\ UNCHANGED <<pool, fed, reported, interrupted>>
      BY <2>3 DEF Dial
    <3>3. [Off EXCEPT !.at = "ready"].at = "ready"
      BY DEF Off
    <3>4. /\ worker'[<<h, dialed[h] + 1>>].at = "ready"
          /\ \A w \in Workers : w # <<h, dialed[h] + 1>> => worker'[w] = worker[w]
      BY <3>1, <3>2, <3>3
    <3>5. \A g \in Hosts : pool[g] = "dialing" =>
            \A i \in 1..dialed'[g] : worker'[<<g, i>>].at # "off" \/ g \in reported
      <4> SUFFICES ASSUME NEW g \in Hosts, pool[g] = "dialing", NEW i \in 1..dialed'[g]
                   PROVE  worker'[<<g, i>>].at # "off" \/ g \in reported
        OBVIOUS
      <4>1. CASE <<g, i>> = <<h, dialed[h] + 1>>
        BY <4>1, <3>4
      <4>2. CASE <<g, i>> # <<h, dialed[h] + 1>>
        <5>1. i \in 1..dialed[g]
          BY <4>2, <3>0, <3>2
        <5>2. <<g, i>> \in Workers
          BY <5>1, TransferAssumption DEF Workers
        <5> QED
          BY <5>1, <5>2, <4>2, <3>4
      <4> QED
        BY <4>1, <4>2
    <3>6. \A w \in Workers : pool[w[1]] = "dialing" => worker'[w].at \in {"off", "ready"}
      BY <3>4
    <3>7. pool[h] = "dialing"
      BY <2>3 DEF Dial
    <3> QED
      BY <3>2, <3>5, <3>6, <3>7
  <2>4. CASE DialFails(h)
    <3>1. /\ dialed' = [dialed EXCEPT ![h] = dialed[h] + 1] /\ reported' = reported \cup {h}
          /\ UNCHANGED <<pool, fed, worker, interrupted>> /\ pool[h] = "dialing"
      BY <2>4 DEF DialFails, Report
    <3> QED
      BY <1>1, <3>1
  <2>5. CASE StartFeeding(h)
    <3>1. CASE Pooled(h) = {}
      <4>1. 1 \in 1..dialed[h] /\ <<h, 1>> \in Workers
        BY <2>5, TransferAssumption DEF StartFeeding, Workers
      <4>2. worker[<<h, 1>>].at = "off"
        BY <4>1, <3>1 DEF Pooled
      <4>3. h \in reported
        BY <4>1, <4>2, <2>5 DEF StartFeeding
      <4> QED
        BY <1>1, <2>5, <4>3 DEF StartFeeding, PoolGoto
    <3>2. CASE Pooled(h) # {}
      BY <1>1, <2>5, <3>2 DEF StartFeeding, PoolGoto
    <3> QED
      BY <3>1, <3>2
  <2>6. CASE CloseTasks(h)
    BY <1>1, <2>6 DEF CloseTasks, PoolGoto, AllFed
  <2>7. CASE Join(h)
    BY <1>1, <2>7 DEF Join, PoolGoto
  <2>8. CASE FeedDir(h) \/ PassOver(h) \/ WalkFails(h)
    <3>1. /\ \A g \in Hosts : g # h => fed'[g] = fed[g]
          /\ reported \subseteq reported' /\ pool[h] = "feeding"
          /\ UNCHANGED <<pool, dialed, worker, interrupted>>
      BY <2>8 DEF FeedDir, PassOver, WalkFails, Listed, Feeding, Fed
    <3> QED
      BY <1>1, <3>1
  <2>9. ASSUME NEW w \in Workers, Feed(h, w)
        PROVE  EndsFed'
    <3>1. /\ \A g \in Hosts : g # h => fed'[g] = fed[g]
          /\ \A v \in Workers : v # w => worker'[v] = worker[v]
          /\ pool[h] = "feeding" /\ w[1] = h
          /\ UNCHANGED <<pool, dialed, reported, interrupted>>
      BY <2>9 DEF Feed, Listed, Feeding, Fed
    <3>2. /\ \A g \in Hosts : pool'[g] = "dialing" =>
               \A i \in 1..dialed'[g] : worker'[<<g, i>>].at # "off" \/ g \in reported'
          /\ \A v \in Workers : pool'[v[1]] = "dialing" => worker'[v].at \in {"off", "ready"}
      BY <3>1, DialedStay
    <3> QED
      BY <3>1, <3>2
  <2> QED
    BY <1>4, <2>1, <2>2, <2>3, <2>4, <2>5, <2>6, <2>7, <2>8, <2>9 DEF HostStep
<1>5. ASSUME NEW w \in Workers, WorkerStep(w) \/ CloseExtra(w)
      PROVE  EndsFed'
  <2>1. /\ UNCHANGED <<pool, dialed>> /\ reported \subseteq reported' /\ interrupted' = interrupted
        /\ \A v \in Workers : v # w => worker'[v] = worker[v]
    BY <1>5 DEF WorkerStep, Leave, Lookup, MakeDir, SkipFile, OpenFile, OpenFails, CopyDone,
                CopyBreaks, CloseExtra, WorkerGoto, Report
  <2>3. pool[w[1]] = "dialing" => worker'[w].at = worker[w].at
    BY <1>5 DEF WorkerStep, Leave, Lookup, MakeDir, SkipFile, OpenFile, OpenFails, CopyDone,
                CopyBreaks, CloseExtra, Placed, WorkerRecord
  <2>4. \A g \in Hosts : fed'[g] = fed[g] \/ fed'[g] = Len(Walk)
    BY <1>5 DEF WorkerStep, Leave, Lookup, MakeDir, SkipFile, OpenFile, OpenFails, CopyDone,
                CopyBreaks, CloseExtra
  <2>5. /\ \A g \in Hosts : pool'[g] = "dialing" =>
             \A i \in 1..dialed'[g] : worker'[<<g, i>>].at # "off" \/ g \in reported'
        /\ \A v \in Workers : pool'[v[1]] = "dialing" => worker'[v].at \in {"off", "ready"}
    BY <2>1, <2>3, DialedStay
  <2> QED
    BY <2>1, <2>4, <2>5
<1> QED
  BY <1>2, <1>3, <1>4, <1>5 DEF Next

\* An excuse is never withdrawn, and what was missed stays missed.
LEMMA ExcusedStays == ASSUME NEW h \in Hosts, Types, QuietInv, [Next]_vars
                      PROVE  /\ Excused(h) => Excused(h)'
                             /\ \A f : Silent(h, f) => Silent(h, f)'
<1> USE DEF Excused, Lsftp
<1>1. cmd' = cmd /\ dry' = dry
  <2>1. ASSUME NEW g \in Hosts, HostStep(g) \/ LaunchFails(g) \/ DialFails(g) \/ WalkFails(g)
        PROVE  UNCHANGED options
    BY <2>1 DEF HostStep, Launch, Dial, StartFeeding, FeedDir, PassOver, CloseTasks, Join, Feed, LaunchFails,
                DialFails, WalkFails
  <2>2. ASSUME NEW w \in Workers, WorkerStep(w) \/ CloseExtra(w)
        PROVE  UNCHANGED options
    BY <2>2 DEF WorkerStep, Leave, Lookup, MakeDir, SkipFile, OpenFile, OpenFails, CopyDone,
                CopyBreaks, CloseExtra
  <2>3. ASSUME MainStep \/ Interrupt
        PROVE  UNCHANGED options
    BY <2>3 DEF MainStep, Begin, Wait, ProgressWait, Interrupt
  <2>4. ASSUME Terminated \/ UNCHANGED vars
        PROVE  UNCHANGED options
    BY <2>4 DEF Terminated, vars
  <2> DEFINE Same == UNCHANGED options
  <2>5. Same
    <3> HIDE DEF Same
    <3>1. CASE Terminated \/ UNCHANGED vars
      BY <2>4, <3>1 DEF Same
    <3>2. CASE MainStep \/ Interrupt
      BY <2>3, <3>2 DEF Same
    <3>3. ASSUME NEW g \in Hosts, HostStep(g) \/ LaunchFails(g) \/ DialFails(g) \/ WalkFails(g)
          PROVE  Same
      BY <2>1, <3>3 DEF Same
    <3>4. ASSUME NEW w \in Workers, WorkerStep(w) \/ CloseExtra(w)
          PROVE  Same
      BY <2>2, <3>4 DEF Same
    <3> QED
      BY <3>1, <3>2, <3>3, <3>4 DEF Next
  <2> QED
    BY <2>5 DEF options
<1>2. reported \subseteq reported'
  BY DEF Next, MainStep, Begin, Wait, ProgressWait, Interrupt, Terminated, vars, HostStep, Launch,
         Dial, StartFeeding, FeedDir, PassOver, CloseTasks, Join, Feed, LaunchFails, DialFails, WalkFails,
         WorkerStep, Leave, Lookup, MakeDir, SkipFile, OpenFile, OpenFails, CopyDone, CopyBreaks,
         CloseExtra, Report
<1>3. interrupted => interrupted'
  BY DEF Next, MainStep, Begin, Wait, ProgressWait, Interrupt, Terminated, vars, HostStep, Launch,
         Dial, StartFeeding, FeedDir, PassOver, CloseTasks, Join, Feed, LaunchFails, DialFails, WalkFails,
         WorkerStep, Leave, Lookup, MakeDir, SkipFile, OpenFile, OpenFails, CopyDone, CopyBreaks,
         CloseExtra
<1>4. stuck => stuck'
  BY DEF Next, MainStep, Begin, Wait, ProgressWait, Interrupt, Terminated, vars, HostStep, Launch,
         Dial, StartFeeding, FeedDir, PassOver, CloseTasks, Join, Feed, LaunchFails, DialFails, WalkFails,
         WorkerStep, Leave, Lookup, MakeDir, SkipFile, OpenFile, OpenFails, CopyDone, CopyBreaks,
         CloseExtra
<1>5. missed[h] \subseteq missed'[h]
  <2>1. CASE Begin
    BY <2>1 DEF Begin
  <2>2. ASSUME NEW g \in Hosts, WalkFails(g)
        PROVE  missed[h] \subseteq missed'[h]
    BY <2>2 DEF WalkFails
  <2>3. ASSUME NEW w \in Workers, OpenFails(w)
        PROVE  missed[h] \subseteq missed'[h]
    <3>1. missed' \in {missed, [missed EXCEPT ![w[1]] = @ \cup {worker[w].item}]}
      BY <2>3 DEF OpenFails
    <3> QED
      BY <3>1 DEF Types, HostTypes
  <2>4. \/ Begin \/ (\E g \in Hosts : WalkFails(g)) \/ (\E w \in Workers : OpenFails(w))
        \/ missed' = missed
    BY DEF Next, MainStep, Wait, ProgressWait, Interrupt, Terminated, vars,
           HostStep, Launch, Dial, StartFeeding, FeedDir, PassOver, CloseTasks, Join, Feed,
           LaunchFails, DialFails, WorkerStep, Leave, Lookup, MakeDir, SkipFile, OpenFile,
           CopyDone, CopyBreaks, CloseExtra
  <2> QED
    BY <2>1, <2>2, <2>3, <2>4
<1> QED
  BY <1>1, <1>2, <1>3, <1>4, <1>5 DEF Silent

\* A worker's step: its own file gets an excuse, arrives or stays with it, and
\* other files keep what they have.
LEMMA WorkerKeeps ==
  ASSUME Types, EndsUnstuck, NEW w \in Workers, WorkerStep(w), ~Excused(w[1])',
         NEW f \in Items \ Dirs, ~Silent(w[1], f)', Whole(w[1], f) \/ Busy(w[1], f)
  PROVE  Whole(w[1], f)' \/ Busy(w[1], f)'
<1> DEFINE h == w[1]
           BusyAt == {"taken", "placed", "copy"}
<1> USE DEF Types, WorkerTypes, options
<1>1. /\ h \in Hosts /\ Node(w) \in Places \X Items /\ Node(w)[2] = worker[w].item
      /\ tree[h] \in Trees /\ Opened(w) \in [Places \X Items -> Contents]
      /\ \A p \in Places : Opened(w)[<<p, f>>] = tree[h][<<p, f>>]
  BY OpenedTree DEF Trees, SameFiles
<1>2. /\ tree \in [Hosts -> [Places \X Items -> Contents]]
      /\ \A p \in Places : <<p, f>> \in Places \X Items
  BY DEF TreeTypes
<1>3. \A v \in Workers : v # w => worker'[v] = worker[v]
  BY DEF WorkerStep, Leave, Lookup, MakeDir, SkipFile, OpenFile, OpenFails, CopyDone, CopyBreaks,
         WorkerGoto
<1>4. ASSUME \A p \in Places : tree'[h][<<p, f>>] = tree[h][<<p, f>>],
             worker[w].item # f \/ worker[w].at \notin BusyAt
      PROVE  Whole(h, f)' \/ Busy(h, f)'
  BY <1>3, <1>4 DEF Whole, Busy
<1>5. CASE Leave(w)
  BY <1>4, <1>5 DEF Leave
<1>6. CASE Lookup(w)
  <2>1. /\ tree' = tree
        /\ worker'[w].at = "placed" /\ worker'[w].item = worker[w].item
    BY <1>6 DEF Lookup, WorkerRecord
  <2> QED
    BY <1>3, <2>1 DEF Whole, Busy
<1>7. CASE MakeDir(w)
  <2>1. worker[w].place \in Places /\ worker[w].item \in Dirs
    BY <1>1, <1>7 DEF MakeDir, WorkerRecord
  <2>2. \A p \in Places :
          Mkdir(tree[h], worker[w].place, worker[w].item)[<<p, f>>] = tree[h][<<p, f>>]
    <3>1. SameFiles(Mkdir(tree[h], worker[w].place, worker[w].item), tree[h])
      BY <1>1, <2>1, DirMade
    <3> QED
      BY <3>1 DEF SameFiles
  <2>3. \A p \in Places : tree'[h][<<p, f>>] = tree[h][<<p, f>>]
    BY <1>1, <1>2, <1>7, <2>2 DEF MakeDir
  <2> QED
    BY <1>4, <2>1, <2>3
<1>8. CASE SkipFile(w)
  BY <1>8 DEF SkipFile, Excused
<1>9. CASE OpenFile(w)
  <2>1. CASE worker[w].item = f
    <3>1. worker'[w].at = "copy" /\ worker'[w].item = f
      BY <1>9, <2>1 DEF OpenFile, WorkerGoto, WorkerRecord
    <3> QED
      BY <3>1 DEF Busy
  <2>2. CASE worker[w].item # f
    <3>1. \A p \in Places : <<p, f>> # Node(w)
      BY <1>1, <2>2
    <3>2. \A p \in Places : tree'[h][<<p, f>>] = tree[h][<<p, f>>]
      BY <1>1, <1>2, <1>9, <3>1 DEF OpenFile
    <3> QED
      BY <1>4, <2>2, <3>2
  <2> QED
    BY <2>1, <2>2
<1>10. CASE OpenFails(w)
  <2>1. CASE cmd # "put"
    BY <1>1, <1>10, <2>1 DEF OpenFails, Report, Excused
  <2>2. CASE cmd = "put" /\ worker[w].closed
    BY <1>10, <2>2 DEF OpenFails, EndsUnstuck, Excused
  <2>3. CASE cmd = "put" /\ ~worker[w].closed
    <3>1. cmd' = "put" /\ worker[w].item \in missed'[h]
      BY <1>1, <1>10, <2>3 DEF OpenFails, HostTypes
    <3>2. worker[w].item # f
      BY <3>1 DEF Silent
    <3>3. PICK t \in {tree[h], Opened(w), [Opened(w) EXCEPT ![Node(w)] = "part"]} :
            tree' = [tree EXCEPT ![h] = t]
      BY <1>10, <2>3 DEF OpenFails
    <3>4. \A p \in Places : <<p, f>> # Node(w)
      BY <1>1, <3>2
    <3>5. \A p \in Places : t[<<p, f>>] = tree[h][<<p, f>>]
      BY <1>1, <1>2, <3>3, <3>4
    <3>6. \A p \in Places : tree'[h][<<p, f>>] = tree[h][<<p, f>>]
      BY <1>1, <1>2, <3>3, <3>5
    <3> QED
      BY <1>4, <3>2, <3>6
  <2> QED
    BY <2>1, <2>2, <2>3
<1>11. CASE CopyDone(w)
  <2>1. tree' = [tree EXCEPT ![h] = [tree[h] EXCEPT ![Node(w)] = "file"]]
    BY <1>11 DEF CopyDone
  <2>2. CASE worker[w].item = f
    <3>1. Node(w) = <<worker[w].place, f>> /\ worker[w].place \in Places
      BY <2>2 DEF Node, WorkerRecord
    <3>2. tree'[h][<<worker[w].place, f>>] = "file"
      BY <1>1, <1>2, <2>1, <3>1
    <3> QED
      BY <3>1, <3>2 DEF Whole
  <2>3. CASE worker[w].item # f
    <3>1. \A p \in Places : <<p, f>> # Node(w)
      BY <1>1, <2>3
    <3>2. \A p \in Places : tree'[h][<<p, f>>] = tree[h][<<p, f>>]
      BY <1>1, <1>2, <2>1, <3>1
    <3> QED
      BY <1>4, <2>3, <3>2
  <2> QED
    BY <2>2, <2>3
<1>12. CASE CopyBreaks(w)
  BY <1>1, <1>12 DEF CopyBreaks, Report, Excused, Lsftp
<1> QED
  BY <1>5, <1>6, <1>7, <1>8, <1>9, <1>10, <1>11, <1>12 DEF WorkerStep

\* Steps that leave busy workers and files alone.
LEMMA OthersKeep ==
  ASSUME NEW h, NEW f, Whole(h, f) \/ Busy(h, f),
         \A p \in Places : tree'[h][<<p, f>>] = tree[h][<<p, f>>],
         \A w \in Workers : w[1] = h /\ worker[w].at \in {"taken", "placed", "copy"} =>
           worker'[w].at = worker[w].at /\ worker'[w].item = worker[w].item
  PROVE  Whole(h, f)' \/ Busy(h, f)'
  BY DEF Whole, Busy

\* A file that was handed out stays handled.
LEMMA StaysHandled ==
  ASSUME Types, QuietInv, EndsFed, EndsUnstuck, [Next]_vars,
         NEW h \in Hosts, NEW f \in Items \ Dirs, Handled(h, f)
  PROVE  Handled(h, f)'
<1> SUFFICES ASSUME ~Excused(h)', ~Silent(h, f)'
             PROVE  Whole(h, f)' \/ Busy(h, f)'
  BY DEF Handled
<1> USE DEF Types, WorkerTypes, options
<1>1. Whole(h, f) \/ Busy(h, f)
  BY ExcusedStays DEF Handled
<1>2. CASE UNCHANGED <<worker, tree>>
  BY <1>1, <1>2, OthersKeep
<1>3. CASE MainStep \/ Interrupt \/ Terminated \/ UNCHANGED vars
  BY <1>2, <1>3 DEF MainStep, Begin, Wait, ProgressWait, Interrupt, Terminated, vars
<1>4. ASSUME NEW g \in Hosts, HostStep(g) \/ LaunchFails(g) \/ DialFails(g) \/ WalkFails(g)
      PROVE  Whole(h, f)' \/ Busy(h, f)'
  <2>1. CASE Launch(g)
    <3>1. worker' = worker /\ tree' = HostDir(g)
      BY <2>1 DEF Launch
    <3>2. \A p \in Places : tree'[h][<<p, f>>] = tree[h][<<p, f>>]
      BY <3>1, HostDirTree DEF SameFiles
    <3> QED
      BY <1>1, <3>1, <3>2, OthersKeep
  <2>2. CASE Dial(g)
    <3>1. /\ tree' = tree /\ pool[g] = "dialing"
          /\ \A w \in Workers : w[1] # g => worker'[w] = worker[w]
      BY <2>2 DEF Dial
    <3>2. CASE h = g
      <4>1. \A w \in Workers : w[1] = h => worker[w].at \in {"off", "ready"}
        BY <3>1, <3>2 DEF EndsFed
      <4> QED
        BY <1>1, <3>1, <4>1, OthersKeep
    <3>3. CASE h # g
      BY <1>1, <3>1, <3>3, OthersKeep
    <3> QED
      BY <3>2, <3>3
  <2>3. CASE FeedDir(g)
    <3>1. SameFiles(tree'[h], tree[h])
      BY <2>3, DirFed
    <3>6. worker' = worker /\ \A p \in Places : tree'[h][<<p, f>>] = tree[h][<<p, f>>]
      BY <2>3, <3>1 DEF FeedDir, SameFiles
    <3> QED
      BY <1>1, <3>6, OthersKeep
  <2>4. ASSUME NEW w \in Workers, Feed(g, w)
        PROVE  Whole(h, f)' \/ Busy(h, f)'
    <3>1. /\ tree' = tree /\ worker[w].at = "ready"
          /\ \A v \in Workers : v # w => worker'[v] = worker[v]
      BY <2>4 DEF Feed
    <3> QED
      BY <1>1, <3>1, OthersKeep
  <2>5. CASE \/ StartFeeding(g) \/ PassOver(g) \/ CloseTasks(g) \/ Join(g)
             \/ LaunchFails(g) \/ DialFails(g) \/ WalkFails(g)
    BY <1>2, <2>5 DEF StartFeeding, PassOver, CloseTasks, Join, LaunchFails, DialFails, WalkFails
  <2> QED
    BY <1>4, <2>1, <2>2, <2>3, <2>4, <2>5 DEF HostStep
<1>5. ASSUME NEW w \in Workers, WorkerStep(w)
      PROVE  Whole(h, f)' \/ Busy(h, f)'
  <2>1. CASE w[1] = h
    BY <1>1, <1>5, <2>1, WorkerKeeps
  <2>2. CASE w[1] # h
    <3>1. \A v \in Workers : v # w => worker'[v] = worker[v]
      BY <1>5 DEF WorkerStep, Leave, Lookup, MakeDir, SkipFile, OpenFile, OpenFails, CopyDone,
                  CopyBreaks, WorkerGoto
    <3>2. tree'[h] = tree[h]
      BY <1>5, <2>2 DEF WorkerStep, Leave, Lookup, MakeDir, SkipFile, OpenFile, OpenFails,
                        CopyDone, CopyBreaks, TreeTypes
    <3> QED
      BY <1>1, <2>2, <3>1, <3>2, OthersKeep
  <2> QED
    BY <2>1, <2>2
<1>6. ASSUME NEW w \in Workers, CloseExtra(w)
      PROVE  Whole(h, f)' \/ Busy(h, f)'
  <2>1. /\ tree' = tree
        /\ \A v \in Workers : worker'[v].at = worker[v].at /\ worker'[v].item = worker[v].item
    BY <1>6 DEF CloseExtra, WorkerRecord
  <2> QED
    BY <1>1, <2>1, OthersKeep
<1> QED
  BY <1>3, <1>4, <1>5, <1>6 DEF Next

LEMMA FilesHandledNext ==
  Types /\ QuietInv /\ EndsFed /\ EndsUnstuck /\ MissedSaid /\ FilesHandled /\ [Next]_vars
    => FilesHandled'
<1> SUFFICES ASSUME Types, QuietInv, EndsFed, EndsUnstuck, MissedSaid, FilesHandled, [Next]_vars,
                    NEW g \in Hosts, NEW n \in 1..fed'[g], Walk[n] \in Items \ Dirs
             PROVE  Handled(g, Walk[n])'
  BY DEF FilesHandled, Handled, Silent, Whole, Busy, Excused, Lsftp
<1> USE DEF Types, HostTypes, options
<1>1. CASE fed'[g] = fed[g]
  BY <1>1, StaysHandled DEF FilesHandled
<1>2. fed[g] \in Nat /\ Len(Walk) \in Nat
  BY WalkItems
<1>3. CASE Excused(g)'
  BY <1>3 DEF Handled
<1>4. CASE MainStep \/ Interrupt \/ Terminated \/ UNCHANGED vars
  BY <1>1, <1>4 DEF MainStep, Begin, Wait, ProgressWait, Interrupt, Terminated, vars
<1>5. ASSUME NEW h \in Hosts, HostStep(h) \/ LaunchFails(h) \/ DialFails(h) \/ WalkFails(h)
      PROVE  Handled(g, Walk[n])'
  <2>1. CASE \/ Launch(h) \/ Dial(h) \/ StartFeeding(h) \/ CloseTasks(h) \/ Join(h)
             \/ LaunchFails(h) \/ DialFails(h)
    BY <1>1, <2>1 DEF Launch, Dial, StartFeeding, CloseTasks, Join, LaunchFails, DialFails
  <2>2. CASE FeedDir(h)
    <3>1. fed' = [fed EXCEPT ![h] = fed[h] + 1] /\ Walk[fed[h] + 1] \in Dirs
      BY <2>2 DEF FeedDir, Fed, NextItem
    <3>2. n \in 1..fed[g]
      BY <1>2, <3>1
    <3> QED
      BY <3>2, StaysHandled DEF FilesHandled
  <2>3. CASE WalkFails(h)
    <3>1. CASE g = h /\ cmd = "copy"
      BY <1>3, <2>3, <3>1 DEF WalkFails, Excused
    <3>2. CASE g # h \/ cmd # "copy"
      BY <1>1, <2>3, <3>2 DEF WalkFails
    <3> QED
      BY <3>1, <3>2
  <2>5. CASE PassOver(h)
    <3>1. fed' = [fed EXCEPT ![h] = fed[h] + 1] /\ Walk[fed[h] + 1] \in missed[h]
      BY <2>5 DEF PassOver, Fed, NextItem
    <3>2. CASE n \in 1..fed[g]
      BY <3>2, StaysHandled DEF FilesHandled
    <3>3. CASE n \notin 1..fed[g]
      <4>1. g = h /\ Walk[n] \in missed[h]
        BY <1>2, <3>1, <3>3
      <4>2. UNCHANGED <<cmd, missed, reported>> /\ fed[h] < Len(Walk)
        BY <2>5 DEF PassOver, Feeding
      <4>3. CASE cmd \in {"push", "put", "pull"}
        BY <4>1, <4>2, <4>3 DEF Handled, Silent
      <4>4. CASE cmd \notin {"push", "put", "pull"}
        BY <1>3, <4>1, <4>2, <4>4 DEF MissedSaid, Excused
      <4> QED
        BY <4>3, <4>4
    <3> QED
      BY <3>2, <3>3
  <2>4. ASSUME NEW w \in Workers, Feed(h, w)
        PROVE  Handled(g, Walk[n])'
    <3>1. /\ fed' = [fed EXCEPT ![h] = fed[h] + 1] /\ w[1] = h
          /\ worker'[w].at \in {"taken", "placed"} /\ worker'[w].item = Walk[fed[h] + 1]
      BY <2>4 DEF Feed, Fed, NextItem, WorkerTypes, WorkerRecord
    <3>2. CASE g = h /\ n = fed[h] + 1
      BY <3>1, <3>2 DEF Handled, Busy
    <3>3. CASE g # h \/ n # fed[h] + 1
      <4>1. n \in 1..fed[g]
        BY <1>2, <3>1, <3>3
      <4> QED
        BY <4>1, StaysHandled DEF FilesHandled
    <3> QED
      BY <3>2, <3>3
  <2> QED
    BY <1>5, <2>1, <2>2, <2>3, <2>4, <2>5 DEF HostStep
<1>6. ASSUME NEW w \in Workers, WorkerStep(w) \/ CloseExtra(w)
      PROVE  Handled(g, Walk[n])'
  <2>1. CASE OpenFails(w)
    <3>1. CASE cmd = "copy" /\ g = w[1]
      BY <1>3, <2>1, <3>1 DEF OpenFails, Report, Excused
    <3>2. CASE ~(cmd = "copy" /\ g = w[1])
      BY <1>1, <2>1, <3>2 DEF OpenFails
    <3> QED
      BY <3>1, <3>2
  <2>2. CASE ~OpenFails(w)
    BY <1>1, <1>6, <2>2 DEF WorkerStep, Leave, Lookup, MakeDir, SkipFile, OpenFile, CopyDone,
                            CopyBreaks, CloseExtra
  <2> QED
    BY <2>1, <2>2
<1> QED
  BY <1>4, <1>5, <1>6 DEF Next

LEMMA ArriveInit == Init => EndsFed /\ EndsUnstuck /\ MissedSaid /\ FilesHandled
  BY DEF Init, EndsFed, EndsUnstuck, MissedSaid, FilesHandled, Off, Workers

LEMMA ArriveEnd ==
  Types /\ QuietInv /\ EndsFed /\ EndsUnstuck /\ FilesHandled => FilesArrive
<1> SUFFICES ASSUME Types, QuietInv, EndsFed, EndsUnstuck, FilesHandled,
                    main = "exited", ~dry, ~interrupted,
                    NEW h \in targets \ reported, NEW f \in Items \ Dirs
             PROVE  Whole(h, f) \/ Silent(h, f)
  BY DEF FilesArrive, Silent
<1>1. h \in Hosts /\ pool[h] = "done"
  BY DEF Types, OptionTypes, QuietInv, EndsFed
<1>2. fed[h] = Len(Walk)
  BY <1>1 DEF EndsFed
<1>3. PICK n \in 1..Len(Walk) : Walk[n] = f
  BY DEF Items
<1>4. Handled(h, f)
  BY <1>1, <1>2, <1>3 DEF FilesHandled
<1>5. ~Excused(h)
  BY DEF Excused, EndsUnstuck
<1>6. ~Busy(h, f)
  BY <1>1 DEF Busy, QuietInv
<1> QED
  BY <1>4, <1>5, <1>6 DEF Handled

\* No error is lost: for any number of hosts, workers and failures and any
\* directory, when a command that was not interrupted has ended, each host has
\* the whole of every file or an error was printed for it, apart from what WalkDir
\* and Glob left out and put did not open.
THEOREM Arrive == Spec => []FilesArrive
<1> DEFINE Inv == Types /\ QuietInv /\ EndsFed /\ EndsUnstuck /\ MissedSaid /\ FilesHandled
<1>1. Init => Inv
  BY TypesInit, QuietInit, ArriveInit
<1>2. Inv /\ [Next]_vars => Inv'
  BY TypesNext, QuietNext, EndsFedNext, UnstuckNext, MissedSaidNext, FilesHandledNext
<1>3. Inv => FilesArrive
  BY ArriveEnd
<1> QED
  BY <1>1, <1>2, <1>3, PTL DEF Spec
(***************************************************************************)
(* The directory arrives in one place.                                     *)
(***************************************************************************)
\* While nothing has failed and no signal has come, a command that copies has
\* one place for each host.
InPlace == ~dry /\ ~interrupted /\ fails = 0 /\ (Push => existed)
Dest(h) == IF Push THEN "in" ELSE Place(h)

\* What lies above a file on its way is there.
AboveThere(h, item) == \A m \in AboveNode(Dest(h), item) : tree[h][m] = "dir"

\* Every worker writes to that place, and nothing is in the other.
PlaceInv ==
  InPlace =>
    /\ reported = {}
    /\ existed => \A h \in Hosts : tree[h][<<"at", Root>>] = "dir"
    /\ \A w \in Workers :
         /\ worker[w].at = "taken" => Push
         /\ worker[w].at \in {"placed", "copy"} => worker[w].place = Dest(w[1])
         /\ worker[w].at = "copy" => worker[w].item \notin Dirs /\ AboveThere(w[1], worker[w].item)
    /\ \A h \in Hosts : \A p \in Places, i \in Items :
         /\ p # Dest(h) /\ <<p, i>> # <<"at", Root>> => tree[h][<<p, i>>] = "absent"
         /\ i \in Dirs => tree[h][<<p, i>>] \in {"absent", "dir"}
    /\ \A h \in Hosts : \A f \in Items \ Dirs :
         tree[h][<<Dest(h), f>>] # "absent" => AboveThere(h, f)

\* A directory that was handed out is there, unless several workers of push or
\* put may pass each other, or their only worker still has it.  Workers are
\* among those dialed, and an only worker has what was handed out last.
DirDone(h, i) == /\ tree[h][<<Dest(h), i>>] = "dir"
                 /\ Dest(h) = "in" => tree[h][<<"at", Root>>] = "dir"
DirHandled(h, n) ==
  \/ DirDone(h, Walk[n])
  \/ Push /\ (parallel > 1 \/ (n = fed[h] /\ Busy(h, Walk[n])))

Dialed(w) == worker[w].at # "off" => w[2] \in 1..dialed[w[1]]
HasLast(w) == worker[w].at \in {"taken", "placed", "copy"} =>
  fed[w[1]] \in 1..Len(Walk) /\ worker[w].item = Walk[fed[w[1]]]

DirsInv ==
  InPlace =>
    /\ \A w \in Workers : Dialed(w) /\ (Push /\ parallel = 1 => HasLast(w))
    /\ \A h \in Hosts : \A n \in 1..fed[h] : Walk[n] \in Dirs => DirHandled(h, n)

LEMMA DestPlace == ASSUME NEW h PROVE Dest(h) \in Places
  BY DEF Dest, Place, Places

\* The steps of a command to which nothing has happened.
LEMMA CleanSteps ==
  ASSUME Types, EndsUnstuck, MissedSaid, [Next]_vars, InPlace'
  PROVE  /\ InPlace /\ UNCHANGED <<options, reported>>
         /\ \/ UNCHANGED <<worker, tree, fed, dialed>>
            \/ \E h \in Hosts : Launch(h) \/ Dial(h) \/ FeedDir(h) \/ \E w \in Workers : Feed(h, w)
            \/ \E w \in Workers : Leave(w) \/ Lookup(w) \/ MakeDir(w) \/ OpenFile(w) \/ CopyDone(w)
<1> DEFINE Clean == UNCHANGED <<options, reported, fails, interrupted>>
<1>1. fails' = 0 /\ ~interrupted' /\ ~dry'
  BY DEF InPlace
<1>2. ~Fail
  BY <1>1 DEF Fail, Types, OtherTypes
<1>3. ASSUME MainStep \/ Interrupt \/ Terminated \/ UNCHANGED vars
      PROVE  Clean /\ UNCHANGED <<worker, tree, fed, dialed>>
  <2>1. CASE Begin
    <3>1. reported' = reported
      BY <1>2, <2>1 DEF Begin
    <3>2. UNCHANGED <<options, worker, tree, fed, dialed, fails, interrupted>>
      BY <1>2, <2>1 DEF Begin
    <3> QED
      BY <3>1, <3>2
  <2>2. CASE Wait \/ ProgressWait
    BY <2>2 DEF Wait, ProgressWait
  <2>3. CASE Terminated \/ UNCHANGED vars
    BY <2>3 DEF Terminated, vars
  <2>4. ~Interrupt
    BY <1>1 DEF Interrupt
  <2> QED
    BY <1>3, <2>1, <2>2, <2>3, <2>4 DEF MainStep
<1>4. ASSUME NEW h \in Hosts, HostStep(h) \/ LaunchFails(h) \/ DialFails(h) \/ WalkFails(h)
      PROVE  /\ Clean
             /\ \/ UNCHANGED <<worker, tree, fed, dialed>>
                \/ Launch(h) \/ Dial(h) \/ FeedDir(h) \/ \E w \in Workers : Feed(h, w)
  <2>1. HostStep(h)
    BY <1>2, <1>4 DEF LaunchFails, DialFails, WalkFails
  <2>2. CASE Launch(h) \/ Dial(h) \/ FeedDir(h)
    BY <2>2 DEF Launch, Dial, FeedDir
  <2>3. CASE StartFeeding(h) \/ CloseTasks(h) \/ Join(h)
    BY <2>3 DEF StartFeeding, CloseTasks, Join
  <2>4. ASSUME NEW w \in Workers, Feed(h, w)
        PROVE  Clean
    BY <2>4 DEF Feed
  <2>5. ~PassOver(h)
    <3>1. ASSUME PassOver(h)
          PROVE  FALSE
      <4>1. fails = 0 /\ ~interrupted
        BY <1>1, <3>1 DEF PassOver
      <4> QED
        BY <3>1, <4>1 DEF PassOver, MissedSaid
    <3> QED
      BY <3>1
  <2> QED
    BY <2>1, <2>2, <2>3, <2>4, <2>5 DEF HostStep
<1>5. ASSUME NEW w \in Workers, WorkerStep(w) \/ CloseExtra(w)
      PROVE  /\ Clean
             /\ Leave(w) \/ Lookup(w) \/ MakeDir(w) \/ OpenFile(w) \/ CopyDone(w)
  <2>1. ~CloseExtra(w)
    BY <1>1 DEF CloseExtra
  <2>2. UNCHANGED <<options, interrupted>>
    BY <1>5, <2>1 DEF WorkerStep, Leave, Lookup, MakeDir, SkipFile, OpenFile, OpenFails, CopyDone,
                      CopyBreaks
  <2>3. ~interrupted /\ ~dry /\ ~worker[w].closed
    BY <1>1, <2>2 DEF EndsUnstuck, options
  <2>4. Leave(w) \/ Lookup(w) \/ MakeDir(w) \/ OpenFile(w) \/ CopyDone(w)
    BY <1>2, <1>5, <2>1, <2>3 DEF WorkerStep, SkipFile, OpenFails, CopyBreaks
  <2>5. UNCHANGED <<reported, fails>>
    BY <2>4 DEF Leave, Lookup, MakeDir, OpenFile, CopyDone
  <2> QED
    BY <2>2, <2>4, <2>5
<1>6. Clean => InPlace
  BY DEF InPlace, Push, options
<1> HIDE DEF Clean
<1>7. Clean /\ (\/ UNCHANGED <<worker, tree, fed, dialed>>
                \/ \E h \in Hosts : Launch(h) \/ Dial(h) \/ FeedDir(h) \/ \E w \in Workers : Feed(h, w)
                \/ \E w \in Workers : Leave(w) \/ Lookup(w) \/ MakeDir(w) \/ OpenFile(w) \/ CopyDone(w))
  <2>1. CASE MainStep \/ Interrupt \/ Terminated \/ UNCHANGED vars
    BY <1>3, <2>1
  <2> QED
    BY <1>4, <1>5, <2>1 DEF Next
<1> QED
  BY <1>6, <1>7 DEF Clean

\* The directories a clean command makes, and how its trees grow: directories
\* stay, and a file has what it lies in.
DestDirs(h) == {n \in Places \X Dirs : n[1] = Dest(h) \/ n = <<"at", Root>>}
Grown(h, t, u) ==
  \A n \in Places \X Items :
    \/ u[n] = t[n]
    \/ n[2] \in Dirs /\ u[n] = "dir" /\ (n[1] = Dest(h) \/ n = <<"at", Root>>)
    \/ n[2] \notin Dirs /\ n[1] = Dest(h) /\ \A m \in AboveNode(Dest(h), n[2]) : u[m] = "dir"

LEMMA DestAbove ==
  ASSUME NEW h \in Hosts, NEW item \in Items
  PROVE  /\ AboveNode(Dest(h), item) \subseteq DestDirs(h)
         /\ item \in Dirs => <<Dest(h), item>> \in DestDirs(h)
         /\ DestDirs(h) \subseteq Places \X Items
<1>1. Dest(h) \in Places /\ "at" \in Places
  BY DestPlace DEF Places
<1>2. Above[item] \subseteq Dirs /\ Root \in Dirs /\ Dirs \subseteq Items
  BY TransferAssumption
<1> QED
  BY <1>1, <1>2 DEF AboveNode, DestDirs

LEMMA MkdirAllGrows ==
  ASSUME NEW h \in Hosts, NEW t \in Trees, NEW nodes \in SUBSET DestDirs(h)
  PROVE  Grown(h, t, MkdirAll(t, nodes))
<1>1. ASSUME NEW n \in Places \X Items
      PROVE  MkdirAll(t, nodes)[n] = IF n \in nodes THEN "dir" ELSE t[n]
  BY DEF MkdirAll, Trees
<1>2. \A n \in nodes : n[2] \in Dirs /\ (n[1] = Dest(h) \/ n = <<"at", Root>>)
  BY DEF DestDirs
<1> QED
  BY <1>1, <1>2 DEF Grown

LEMMA MkdirGrows ==
  ASSUME NEW h \in Hosts, NEW t \in Trees, NEW item \in Dirs
  PROVE  Grown(h, t, Mkdir(t, Dest(h), item))
<1>1. {<<Dest(h), item>>} \in SUBSET DestDirs(h)
  BY DestPlace DEF DestDirs
<1>2. Grown(h, t, MkdirAll(t, {<<Dest(h), item>>}))
  BY <1>1, MkdirAllGrows
<1>3. Grown(h, t, t)
  BY DEF Grown
<1> QED
  BY <1>2, <1>3 DEF Mkdir

\* A file may be written where its directories are.
LEMMA FileGrows ==
  ASSUME NEW h \in Hosts, NEW t \in Trees, NEW u \in Trees, Grown(h, t, u),
         NEW f \in Items \ Dirs, NEW c, \A m \in AboveNode(Dest(h), f) : u[m] = "dir"
  PROVE  Grown(h, t, [u EXCEPT ![<<Dest(h), f>>] = c])
<1> DEFINE v == [u EXCEPT ![<<Dest(h), f>>] = c]
<1>1. \A n \in Places \X Items : n # <<Dest(h), f>> => v[n] = u[n]
  BY DEF Trees
<1>2. \A n \in DestDirs(h) : n \in Places \X Items /\ n # <<Dest(h), f>>
  BY TransferAssumption DEF DestDirs
<1>3. ASSUME NEW i \in Items, \A m \in AboveNode(Dest(h), i) : u[m] = "dir"
      PROVE  \A m \in AboveNode(Dest(h), i) : v[m] = "dir"
  BY <1>1, <1>2, <1>3, DestAbove
<1> HIDE DEF v
<1>4. ASSUME NEW n \in Places \X Items
      PROVE  \/ v[n] = t[n]
             \/ n[2] \in Dirs /\ v[n] = "dir" /\ (n[1] = Dest(h) \/ n = <<"at", Root>>)
             \/ n[2] \notin Dirs /\ n[1] = Dest(h) /\ \A m \in AboveNode(Dest(h), n[2]) : v[m] = "dir"
  <2>1. CASE n = <<Dest(h), f>>
    BY <1>3, <2>1
  <2>2. CASE n # <<Dest(h), f>>
    BY <1>1, <1>3, <2>2 DEF Grown
  <2> QED
    BY <2>1, <2>2
<1>5. Grown(h, t, v)
  BY <1>4 DEF Grown
<1> QED
  BY <1>5 DEF v

\* Each tree grows with every step of a clean command.
LEMMA TreesGrow ==
  ASSUME Types, EndsUnstuck, MissedSaid, PlaceInv, [Next]_vars, InPlace', NEW g \in Hosts
  PROVE  Grown(g, tree[g], tree'[g])
<1>1. InPlace /\ ~dry /\ ~interrupted
  BY CleanSteps DEF InPlace
<1>2. \A w \in Workers : ~worker[w].closed
  BY <1>1 DEF EndsUnstuck
<1>3. tree \in [Hosts -> Trees] /\ tree[g] \in Trees
  BY DEF Types, TreeTypes, Trees
<1>4. CASE tree'[g] = tree[g]
  BY <1>4 DEF Grown
<1>5. ASSUME NEW h \in Hosts, Launch(h)
      PROVE  Grown(g, tree[g], tree'[g])
  <2>1. CASE tree' = [tree EXCEPT ![h] = MkdirAll(@, {<<"at", Root>>})] /\ g = h
    <3>1. {<<"at", Root>>} \in SUBSET DestDirs(g)
      BY TransferAssumption DEF DestDirs, Places
    <3> QED
      BY <1>3, <2>1, <3>1, MkdirAllGrows
  <2> QED
    BY <1>3, <1>4, <1>5, <2>1 DEF Launch, HostDir
<1>6. ASSUME NEW h \in Hosts, FeedDir(h)
      PROVE  Grown(g, tree[g], tree'[g])
  <2> DEFINE nodes == AboveNode(Place(h), NextItem(h)) \cup {<<Place(h), NextItem(h)>>}
             one == Mkdir(tree[h], Place(h), NextItem(h))
  <2>1. NextItem(h) \in Dirs /\ NextItem(h) \in Items /\ Place(h) = Dest(h)
    BY <1>6, TransferAssumption DEF FeedDir, Dest
  <2>2. Grown(h, tree[h], MkdirAll(tree[h], nodes)) /\ Grown(h, tree[h], one)
    <3>1. nodes \in SUBSET DestDirs(h)
      BY <2>1, DestAbove
    <3>2. tree[h] \in Trees
      BY <1>3
    <3> QED
      BY <2>1, <3>1, <3>2, MkdirAllGrows, MkdirGrows
  <2>3. tree' = [tree EXCEPT ![h] = IF cmd = "via" THEN one ELSE MkdirAll(tree[h], nodes)]
    BY <1>1, <1>6 DEF FeedDir
  <2> HIDE DEF nodes, one
  <2>4. CASE g = h
    BY <1>3, <2>2, <2>3, <2>4
  <2> QED
    BY <1>3, <1>4, <2>3, <2>4
<1>7. ASSUME NEW w \in Workers, g = w[1], worker[w].at \in {"placed", "copy"}
      PROVE  /\ worker[w].item \in Items /\ worker[w].place = Dest(g) /\ Node(w) \in Places \X Items
             /\ Opened(w) \in Trees /\ Grown(g, tree[g], Opened(w))
             /\ \A m \in AboveNode(Dest(g), worker[w].item) : Opened(w)[m] = "dir"
  <2>1. worker[w].item \in Items /\ worker[w].place = Dest(g)
    BY <1>1, <1>7 DEF PlaceInv, Types, WorkerTypes, WorkerRecord
  <2>2. Node(w) \in Places \X Items /\ Opened(w) \in Trees
    BY OpenedTree DEF Types
  <2>3. AboveNode(Dest(g), worker[w].item) \in SUBSET DestDirs(g)
    BY <2>1, DestAbove
  <2>4. Opened(w) = MkdirAll(tree[g], AboveNode(Dest(g), worker[w].item))
    BY <1>7, <2>1 DEF Opened
  <2>5. Grown(g, tree[g], Opened(w))
    BY <1>3, <2>3, <2>4, MkdirAllGrows
  <2>6. \A m \in AboveNode(Dest(g), worker[w].item) : m \in Places \X Items
    BY <2>1, DestAbove
  <2>7. \A m \in AboveNode(Dest(g), worker[w].item) : Opened(w)[m] = "dir"
    BY <1>3, <2>4, <2>6 DEF MkdirAll, Trees
  <2> QED
    BY <2>1, <2>2, <2>5, <2>7
<1>8. ASSUME NEW w \in Workers, MakeDir(w)
      PROVE  Grown(g, tree[g], tree'[g])
  <2>1. CASE g = w[1]
    <3>1. worker[w].place = Dest(g) /\ worker[w].item \in Dirs
      BY <1>7, <1>8, <2>1 DEF MakeDir, Placed
    <3>2. Grown(g, tree[g], Mkdir(tree[g], Dest(g), worker[w].item))
      BY <1>3, <3>1, MkdirGrows
    <3>3. tree'[g] = Mkdir(tree[g], Dest(g), worker[w].item)
      BY <1>1, <1>2, <1>3, <1>8, <2>1, <3>1 DEF MakeDir
    <3> QED
      BY <3>2, <3>3
  <2> QED
    BY <1>3, <1>4, <1>8, <2>1 DEF MakeDir
<1>9. ASSUME NEW w \in Workers, OpenFile(w)
      PROVE  Grown(g, tree[g], tree'[g])
  <2>1. CASE g = w[1]
    <3>1. /\ worker[w].item \in Items \ Dirs /\ worker[w].place = Dest(g)
          /\ Node(w) \in Places \X Items
          /\ Opened(w) \in Trees /\ Grown(g, tree[g], Opened(w))
          /\ \A m \in AboveNode(Dest(g), worker[w].item) : Opened(w)[m] = "dir"
      BY <1>7, <1>9, <2>1 DEF OpenFile, Placed
    <3>2. tree'[g] = [Opened(w) EXCEPT ![Node(w)] = "part"]
      BY <1>3, <1>9, <2>1 DEF OpenFile
    <3> QED
      <4>1. Node(w) = <<Dest(g), worker[w].item>>
        BY <3>1 DEF Node
      <4>2. Grown(g, tree[g], [Opened(w) EXCEPT ![<<Dest(g), worker[w].item>>] = "part"])
        BY <1>3, <3>1, FileGrows
      <4> QED
        BY <3>2, <4>1, <4>2
  <2> QED
    BY <1>3, <1>4, <1>9, <2>1 DEF OpenFile
<1>10. ASSUME NEW w \in Workers, CopyDone(w)
       PROVE  Grown(g, tree[g], tree'[g])
  <2>1. CASE g = w[1]
    <3>1. /\ worker[w].item \in Items \ Dirs /\ Node(w) \in Places \X Items
          /\ worker[w].place = Dest(g) /\ AboveThere(g, worker[w].item)
      BY <1>1, <1>7, <1>10, <2>1 DEF CopyDone, PlaceInv
    <3>2. tree'[g] = [tree[g] EXCEPT ![Node(w)] = "file"]
      BY <1>3, <1>10, <2>1 DEF CopyDone
    <3>3. Grown(g, tree[g], tree[g])
      BY DEF Grown
    <3> QED
      BY <1>3, <3>1, <3>2, <3>3, FileGrows DEF Node, AboveThere
  <2> QED
    BY <1>3, <1>4, <1>10, <2>1 DEF CopyDone
<1>11. ASSUME NEW h \in Hosts, Dial(h) \/ \E w \in Workers : Feed(h, w)
       PROVE  Grown(g, tree[g], tree'[g])
  <2>1. ASSUME NEW w \in Workers, Feed(h, w)
        PROVE  tree' = tree
    BY <2>1 DEF Feed
  <2>2. tree' = tree
    BY <1>11, <2>1 DEF Dial
  <2> QED
    BY <1>4, <2>2
<1>12. ASSUME NEW w \in Workers, Leave(w) \/ Lookup(w)
       PROVE  Grown(g, tree[g], tree'[g])
  <2>1. tree' = tree
    BY <1>12 DEF Leave, Lookup
  <2> QED
    BY <1>4, <2>1
<1>13. CASE UNCHANGED <<worker, tree, fed, dialed>>
  BY <1>4, <1>13
<1>14. CASE \E h \in Hosts : Launch(h) \/ Dial(h) \/ FeedDir(h) \/ \E w \in Workers : Feed(h, w)
  BY <1>5, <1>6, <1>11, <1>14
<1>15. CASE \E w \in Workers : Leave(w) \/ Lookup(w) \/ MakeDir(w) \/ OpenFile(w) \/ CopyDone(w)
  BY <1>8, <1>9, <1>10, <1>12, <1>15
<1> QED
  BY <1>13, <1>14, <1>15, CleanSteps

LEMMA DestStays == ASSUME UNCHANGED options, NEW h PROVE Dest(h)' = Dest(h) /\ Push' = Push
  BY DEF options, Dest, Place, Push, Pull, Multi

\* What lies above an item stays there.
LEMMA AboveStays ==
  ASSUME NEW h \in Hosts, NEW i \in Items, Grown(h, tree[h], tree'[h]), UNCHANGED options,
         AboveThere(h, i)
  PROVE  AboveThere(h, i)'
<1>1. ASSUME NEW m \in AboveNode(Dest(h), i)
      PROVE  tree'[h][m] = "dir"
  <2>1. m \in DestDirs(h) /\ m \in Places \X Items
    BY DestAbove
  <2>2. m[2] \in Dirs /\ tree[h][m] = "dir"
    BY <2>1 DEF DestDirs, AboveThere
  <2> QED
    BY <2>1, <2>2 DEF Grown
<1>2. AboveThere(h, i)' <=> \A m \in AboveNode(Dest(h), i) : tree'[h][m] = "dir"
  BY DestStays DEF AboveThere
<1> QED
  BY <1>1, <1>2

\* The parts of PlaceInv.
WorkerPlaced(w) ==
  /\ worker[w].at = "taken" => Push
  /\ worker[w].at \in {"placed", "copy"} => worker[w].place = Dest(w[1])
  /\ worker[w].at = "copy" => worker[w].item \notin Dirs /\ AboveThere(w[1], worker[w].item)

LEMMA WorkerPlacedNext ==
  ASSUME Types, EndsUnstuck, MissedSaid, PlaceInv, [Next]_vars, InPlace', NEW v \in Workers
  PROVE  WorkerPlaced(v)'
<1>1. InPlace /\ ~dry /\ ~interrupted /\ UNCHANGED options
  BY CleanSteps DEF InPlace
<1>2. WorkerPlaced(v) /\ v[1] \in Hosts /\ worker[v].item \in Items
  BY <1>1 DEF PlaceInv, WorkerPlaced, Workers, Types, WorkerTypes, WorkerRecord
<1>3. Grown(v[1], tree[v[1]], tree'[v[1]]) /\ Dest(v[1])' = Dest(v[1]) /\ Push' = Push
  BY <1>1, <1>2, TreesGrow, DestStays
<1>4. CASE worker'[v] = worker[v]
  <2>1. PICK item \in Items : worker[v].item = item
    BY <1>2
  <2>2. worker[v].at = "copy" => AboveThere(v[1], item)'
    BY <1>1, <1>2, <1>3, <2>1, AboveStays DEF WorkerPlaced
  <2> QED
    BY <1>2, <1>3, <1>4, <2>1, <2>2 DEF WorkerPlaced, AboveThere
<1>5. CASE worker'[v].at \in {"off", "ready"}
  BY <1>5 DEF WorkerPlaced
<1>6. ASSUME NEW h \in Hosts, NEW w \in Workers, Feed(h, w)
      PROVE  WorkerPlaced(v)'
  <2>1. CASE v = w
    <3>1. /\ worker'[v].at = IF Push THEN "taken" ELSE "placed"
          /\ worker'[v].place = Place(h) /\ v[1] = h
      BY <1>6, <2>1 DEF Feed, Types, WorkerTypes, WorkerRecord
    <3>2. ~Push => worker'[v].place = Dest(v[1])
      BY <3>1 DEF Dest
    <3> QED
      BY <1>3, <3>1, <3>2 DEF WorkerPlaced
  <2> QED
    BY <1>4, <1>6, <2>1 DEF Feed
<1>7. CASE Lookup(v)
  <2>1. Push /\ existed
    BY <1>1, <1>2, <1>7 DEF Lookup, WorkerPlaced, InPlace
  <2>2. IsDir(v)
    BY <1>1, <1>2, <2>1 DEF IsDir, PlaceInv, EndsUnstuck
  <2>3. worker'[v].at = "placed" /\ worker'[v].place = "in"
    BY <1>7, <2>2 DEF Lookup, Types, WorkerTypes, WorkerRecord
  <2> QED
    BY <1>3, <2>1, <2>3 DEF WorkerPlaced, Dest
<1>8. CASE OpenFile(v)
  <2>1. /\ worker[v].item \in Items \ Dirs /\ worker[v].place = Dest(v[1])
        /\ worker'[v] = [worker[v] EXCEPT !.at = "copy"]
    BY <1>2, <1>8 DEF OpenFile, Placed, WorkerPlaced, WorkerGoto, Types, WorkerTypes
  <2>2. \A m \in AboveNode(Dest(v[1]), worker[v].item) : tree'[v[1]][m] = "dir"
    <3> DEFINE nodes == AboveNode(Dest(v[1]), worker[v].item)
    <3>1. Opened(v) = MkdirAll(tree[v[1]], nodes) /\ Node(v) = <<Dest(v[1]), worker[v].item>>
      BY <2>1 DEF Opened, Node
    <3>2. Opened(v) \in Trees /\ tree \in [Hosts -> Trees]
      BY OpenedTree DEF Types, TreeTypes, Trees
    <3>3. tree'[v[1]] = [Opened(v) EXCEPT ![Node(v)] = "part"]
      BY <1>2, <1>8, <3>2 DEF OpenFile
    <3>4. \A m \in nodes : m \in Places \X Items /\ m[2] \in Dirs
      BY <2>1, <1>2, DestAbove DEF DestDirs
    <3>5. \A m \in nodes : Opened(v)[m] = "dir"
      BY <1>2, <3>1, <3>2, <3>4 DEF MkdirAll, Trees
    <3>6. \A m \in nodes : m # Node(v)
      BY <2>1, <3>1, <3>4
    <3> HIDE DEF nodes
    <3>7. \A m \in nodes : tree'[v[1]][m] = "dir"
      BY <3>2, <3>3, <3>4, <3>5, <3>6 DEF Trees
    <3> QED
      BY <3>7 DEF nodes
  <2>3. worker'[v].at = "copy" /\ worker'[v].place = worker[v].place /\ worker'[v].item = worker[v].item
    BY <2>1 DEF Types, WorkerTypes, WorkerRecord
  <2> QED
    BY <1>3, <2>1, <2>2, <2>3 DEF WorkerPlaced, AboveThere
<1>9. ASSUME NEW w \in Workers, Leave(w) \/ Lookup(w) \/ MakeDir(w) \/ OpenFile(w) \/ CopyDone(w)
      PROVE  WorkerPlaced(v)'
  <2>1. CASE v = w
    <3>1. CASE Leave(v) \/ MakeDir(v) \/ CopyDone(v)
      <4>1. worker'[v].at \in {"off", "ready"}
        BY <3>1 DEF Leave, MakeDir, CopyDone, WorkerGoto, Off, Types, WorkerTypes, WorkerRecord
      <4> QED
        BY <1>5, <4>1
    <3> QED
      BY <1>7, <1>8, <1>9, <2>1, <3>1
  <2>2. CASE v # w
    <3>1. worker'[v] = worker[v]
      <4>1. PICK r : worker' = [worker EXCEPT ![w] = r]
        BY <1>9 DEF Leave, Lookup, MakeDir, OpenFile, CopyDone, WorkerGoto
      <4> QED
        BY <2>2, <4>1 DEF Types, WorkerTypes
    <3> QED
      BY <1>4, <3>1
  <2> QED
    BY <2>1, <2>2
<1>10. ASSUME NEW h \in Hosts, Launch(h) \/ Dial(h) \/ FeedDir(h)
       PROVE  WorkerPlaced(v)'
  <2>1. worker'[v] = worker[v] \/ worker'[v].at = "ready"
    BY <1>10 DEF Launch, Dial, FeedDir, Off, Types, WorkerTypes
  <2> QED
    BY <1>4, <1>5, <2>1
<1>11. CASE UNCHANGED <<worker, tree, fed, dialed>>
  BY <1>4, <1>11
<1>12. CASE \E h \in Hosts : Launch(h) \/ Dial(h) \/ FeedDir(h) \/ \E w \in Workers : Feed(h, w)
  BY <1>6, <1>10, <1>12
<1>13. CASE \E w \in Workers : Leave(w) \/ Lookup(w) \/ MakeDir(w) \/ OpenFile(w) \/ CopyDone(w)
  BY <1>9, <1>13
<1> QED
  BY <1>11, <1>12, <1>13, CleanSteps

LEMMA PlaceInvNext == Types /\ EndsUnstuck /\ MissedSaid /\ PlaceInv /\ [Next]_vars => PlaceInv'
<1> SUFFICES ASSUME Types, EndsUnstuck, MissedSaid, PlaceInv, [Next]_vars, InPlace'
             PROVE  PlaceInv'
  BY DEF PlaceInv
<1>1. InPlace /\ UNCHANGED <<options, reported>>
  BY CleanSteps
<1>2. UNCHANGED <<existed, reported>> /\ \A h : Dest(h)' = Dest(h)
  BY <1>1, DestStays DEF options
<1>3. reported' = {}
  BY <1>1, <1>2 DEF PlaceInv
<1>4. \A w \in Workers : WorkerPlaced(w)'
  BY WorkerPlacedNext
<1>5. ASSUME NEW h \in Hosts, NEW p \in Places, NEW i \in Items
      PROVE  /\ existed /\ <<p, i>> = <<"at", Root>> => tree'[h][<<p, i>>] = "dir"
             /\ p # Dest(h) /\ <<p, i>> # <<"at", Root>> => tree'[h][<<p, i>>] = "absent"
             /\ i \in Dirs => tree'[h][<<p, i>>] \in {"absent", "dir"}
             /\ i \notin Dirs /\ p = Dest(h) /\ tree'[h][<<p, i>>] # "absent" => AboveThere(h, i)'
  <2>1. Grown(h, tree[h], tree'[h])
    BY TreesGrow
  <2>2. /\ existed /\ <<p, i>> = <<"at", Root>> => tree[h][<<p, i>>] = "dir"
        /\ p # Dest(h) /\ <<p, i>> # <<"at", Root>> => tree[h][<<p, i>>] = "absent"
        /\ i \in Dirs => tree[h][<<p, i>>] \in {"absent", "dir"}
        /\ i \notin Dirs /\ p = Dest(h) /\ tree[h][<<p, i>>] # "absent" => AboveThere(h, i)
    BY <1>1 DEF PlaceInv
  <2>3. CASE tree'[h][<<p, i>>] = tree[h][<<p, i>>]
    <3>1. i \notin Dirs /\ p = Dest(h) /\ tree'[h][<<p, i>>] # "absent" => AboveThere(h, i)'
      BY <1>1, <2>1, <2>2, <2>3, AboveStays
    <3> QED
      BY <2>2, <2>3, <3>1
  <2>4. CASE i \in Dirs /\ tree'[h][<<p, i>>] = "dir" /\ (p = Dest(h) \/ <<p, i>> = <<"at", Root>>)
    BY <2>4
  <2>5. CASE /\ i \notin Dirs /\ p = Dest(h)
             /\ \A m \in AboveNode(Dest(h), i) : tree'[h][m] = "dir"
    <3>1. AboveThere(h, i)'
      BY <1>2, <2>5 DEF AboveThere
    <3>2. <<p, i>> # <<"at", Root>>
      BY <2>5, TransferAssumption
    <3> QED
      BY <2>5, <3>1, <3>2
  <2>6. <<p, i>> \in Places \X Items /\ <<p, i>>[1] = p /\ <<p, i>>[2] = i
    OBVIOUS
  <2> QED
    BY <2>1, <2>3, <2>4, <2>5, <2>6 DEF Grown
<1>6. "at" \in Places /\ Root \in Items
  BY WalkItems DEF Places
<1>7. \A h \in Hosts : existed => tree'[h][<<"at", Root>>] = "dir"
  BY <1>5, <1>6
<1>8. \A h \in Hosts, f \in Items \ Dirs : tree'[h][<<Dest(h), f>>] # "absent" => AboveThere(h, f)'
  BY <1>5, DestPlace
<1> QED
  BY <1>2, <1>3, <1>4, <1>5, <1>7, <1>8 DEF PlaceInv, WorkerPlaced

\* The only worker of a host.
LEMMA OneWorker ==
  ASSUME Types, parallel = 1, NEW v \in Workers, NEW w \in Workers, Dialed(v), Dialed(w), v[1] = w[1],
         worker[v].at # "off", worker[w].at # "off"
  PROVE  v = w
<1>1. dialed[v[1]] \in 0..1 /\ v[1] \in Hosts
  BY DEF Types, HostTypes, Workers
<1>2. v[2] = 1 /\ w[2] = 1
  BY <1>1, TransferAssumption DEF Dialed, Workers
<1> QED
  BY <1>2 DEF Workers

\* An only worker has what was handed out last.
LEMMA DialedNext ==
  ASSUME Types, EndsUnstuck, MissedSaid, DirsInv, [Next]_vars, InPlace', NEW v \in Workers
  PROVE  Dialed(v)' /\ (Push /\ parallel = 1 => HasLast(v)')
<1>1. /\ InPlace /\ UNCHANGED options /\ v[1] \in Hosts
      /\ \A w \in Workers : Dialed(w) /\ (Push /\ parallel = 1 => HasLast(w))
  BY CleanSteps DEF DirsInv, Workers
<1>2. /\ dialed \in [Hosts -> 0..parallel] /\ parallel \in Nat /\ fed \in [Hosts -> 0..Len(Walk)]
      /\ Len(Walk) \in Nat
      /\ worker \in [Workers -> WorkerRecord] /\ worker[v] \in WorkerRecord
  BY TransferAssumption, WalkItems DEF Types, HostTypes, OptionTypes, WorkerTypes
<1>3. CASE worker'[v].at = "off"
  BY <1>3 DEF Dialed, HasLast
<1>4. CASE /\ UNCHANGED <<fed, dialed>> /\ worker'[v].item = worker[v].item /\ worker[v].at # "off"
           /\ worker[v].at # "ready" \/ worker'[v].at \in {"off", "ready"}
  BY <1>1, <1>2, <1>4 DEF Dialed, HasLast, WorkerRecord
<1>5. CASE UNCHANGED <<fed, dialed>> /\ worker'[v] = worker[v]
  BY <1>1, <1>5 DEF Dialed, HasLast
<1>6. ASSUME NEW h \in Hosts, Launch(h)
      PROVE  Dialed(v)' /\ (Push /\ parallel = 1 => HasLast(v)')
  BY <1>5, <1>6 DEF Launch
<1>7. ASSUME NEW h \in Hosts, Dial(h)
      PROVE  Dialed(v)' /\ (Push /\ parallel = 1 => HasLast(v)')
  <2>1. /\ dialed' = [dialed EXCEPT ![h] = dialed[h] + 1] /\ fed' = fed
        /\ worker' = [worker EXCEPT ![<<h, dialed[h] + 1>>] = [Off EXCEPT !.at = "ready"]]
    <3>1. dialed' = [dialed EXCEPT ![h] = dialed[h] + 1] /\ dialed'[h] = dialed[h] + 1
      BY <1>2, <1>7 DEF Dial
    <3> QED
      BY <1>7, <3>1 DEF Dial
  <2>2. dialed[h] \in Nat /\ \A g \in Hosts : 1..dialed[g] \subseteq 1..dialed'[g]
    BY <1>2, <2>1
  <2>3. CASE v = <<h, dialed[h] + 1>>
    <3>1. worker'[v].at = "ready" /\ dialed'[h] = dialed[h] + 1 /\ v[1] = h /\ v[2] = dialed[h] + 1
      BY <1>2, <2>1, <2>3 DEF Off
    <3> QED
      BY <2>2, <3>1 DEF Dialed, HasLast
  <2>4. CASE v # <<h, dialed[h] + 1>>
    <3>1. worker'[v] = worker[v]
      BY <1>2, <2>1, <2>4
    <3> QED
      BY <1>1, <2>1, <2>2, <3>1 DEF Dialed, HasLast
  <2> QED
    BY <2>3, <2>4
<1>8. ASSUME NEW h \in Hosts, FeedDir(h)
      PROVE  Dialed(v)' /\ (Push /\ parallel = 1 => HasLast(v)')
  BY <1>1, <1>8 DEF FeedDir, Dialed
<1>9. ASSUME NEW h \in Hosts, NEW w \in Workers, Feed(h, w)
      PROVE  Dialed(v)' /\ (Push /\ parallel = 1 => HasLast(v)')
  <2>1. /\ dialed' = dialed /\ w[1] = h /\ worker[w].at = "ready"
        /\ fed' = [fed EXCEPT ![h] = fed[h] + 1] /\ fed[h] + 1 \in 1..Len(Walk)
    BY <1>2, <1>9 DEF Feed, Listed, Feeding, Fed
  <2>2. CASE v = w
    <3>1. worker'[v].item = Walk[fed[h] + 1] /\ fed'[h] = fed[h] + 1 /\ worker[v].at # "off"
      BY <1>2, <1>9, <2>1, <2>2 DEF Feed, NextItem, WorkerRecord
    <3> QED
      BY <1>1, <2>1, <2>2, <3>1 DEF Dialed, HasLast
  <2>3. CASE v # w
    <3>1. worker'[v] = worker[v]
      BY <1>2, <1>9, <2>3 DEF Feed
    <3>2. CASE v[1] # h
      BY <1>1, <2>1, <3>1, <3>2 DEF Dialed, HasLast
    <3>3. CASE v[1] = h
      <4>1. Push /\ parallel = 1 => worker[v].at = "off"
        BY <1>1, <2>1, <2>3, <3>3, OneWorker
      <4> QED
        BY <1>1, <2>1, <3>1, <4>1 DEF Dialed, HasLast
    <3> QED
      BY <3>2, <3>3
  <2> QED
    BY <2>2, <2>3
<1>10. ASSUME NEW w \in Workers, Leave(w) \/ Lookup(w) \/ MakeDir(w) \/ OpenFile(w) \/ CopyDone(w)
       PROVE  Dialed(v)' /\ (Push /\ parallel = 1 => HasLast(v)')
  <2>1. UNCHANGED <<fed, dialed>>
    BY <1>10 DEF Leave, Lookup, MakeDir, OpenFile, CopyDone
  <2>2. CASE v = w
    <3>1. CASE Leave(v)
      BY <1>2, <1>3, <3>1 DEF Leave, Off
    <3>2. CASE Lookup(v)
      <4>1. worker[v].at = "taken" /\ worker'[v].item = worker[v].item
        BY <1>2, <3>2 DEF Lookup, WorkerRecord
      <4> QED
        BY <1>4, <2>1, <4>1
    <3>3. CASE MakeDir(v) \/ OpenFile(v) \/ CopyDone(v)
      <4>1. worker[v].at \in {"placed", "copy"} /\ worker'[v].item = worker[v].item
        BY <1>2, <3>3 DEF MakeDir, OpenFile, CopyDone, Placed, WorkerGoto, WorkerRecord
      <4> QED
        BY <1>4, <2>1, <4>1
    <3> QED
      BY <1>10, <2>2, <3>1, <3>2, <3>3
  <2>3. CASE v # w
    <3>1. worker'[v] = worker[v]
      <4>1. PICK r : worker' = [worker EXCEPT ![w] = r]
        BY <1>10 DEF Leave, Lookup, MakeDir, OpenFile, CopyDone, WorkerGoto
      <4> QED
        BY <1>2, <2>3, <4>1
    <3> QED
      BY <1>5, <2>1, <3>1
  <2> QED
    BY <2>2, <2>3
<1>11. CASE UNCHANGED <<worker, tree, fed, dialed>>
  BY <1>5, <1>11
<1>12. CASE \E h \in Hosts : Launch(h) \/ Dial(h) \/ FeedDir(h) \/ \E w \in Workers : Feed(h, w)
  BY <1>6, <1>7, <1>8, <1>9, <1>12
<1>13. CASE \E w \in Workers : Leave(w) \/ Lookup(w) \/ MakeDir(w) \/ OpenFile(w) \/ CopyDone(w)
  BY <1>10, <1>13
<1> QED
  BY <1>11, <1>12, <1>13, CleanSteps

\* What lies above a directory comes before it in the walk.
LEMMA AboveDone ==
  ASSUME NEW h \in Hosts, NEW n \in 1..Len(Walk),
         \A m \in 1..(n - 1) : Walk[m] \in Dirs => DirDone(h, Walk[m]),
         Dest(h) = "in" => tree[h][<<"at", Root>>] = "dir"
  PROVE  AboveThere(h, Walk[n])
<1>1. ASSUME NEW i \in Above[Walk[n]]
      PROVE  tree[h][<<Dest(h), i>>] = "dir"
  <2>1. PICK m \in 1..(n - 1) : Walk[m] = i
    BY TransferAssumption
  <2>2. i \in Dirs
    BY TransferAssumption, WalkItems
  <2> QED
    BY <2>1, <2>2 DEF DirDone
<1> QED
  BY <1>1 DEF AboveThere, AboveNode

LEMMA DoneStays ==
  ASSUME UNCHANGED options, NEW h \in Hosts, Grown(h, tree[h], tree'[h]), NEW i \in Dirs, DirDone(h, i)
  PROVE  DirDone(h, i)'
<1>1. <<Dest(h), i>> \in Places \X Items /\ <<"at", Root>> \in Places \X Items
  BY DestPlace, WalkItems, TransferAssumption DEF Places
<1>2. i \in Dirs /\ Root \in Dirs
  BY TransferAssumption
<1>3. tree'[h][<<Dest(h), i>>] = "dir" /\ (Dest(h) = "in" => tree'[h][<<"at", Root>>] = "dir")
  BY <1>1, <1>2 DEF Grown, DirDone
<1> QED
  BY <1>3, DestStays DEF DirDone

LEMMA DirHandledNext ==
  ASSUME Types, EndsUnstuck, MissedSaid, PlaceInv, DirsInv, [Next]_vars, InPlace',
         NEW h \in Hosts, NEW n \in 1..fed'[h], Walk[n] \in Dirs
  PROVE  DirHandled(h, n)'
<1>1. /\ InPlace /\ ~dry /\ UNCHANGED options /\ Dest(h)' = Dest(h) /\ Push' = Push
      /\ Grown(h, tree[h], tree'[h])
  BY CleanSteps, DestStays, TreesGrow DEF InPlace
<1>2. /\ fed \in [Hosts -> 0..Len(Walk)] /\ Len(Walk) \in Nat
      /\ worker \in [Workers -> WorkerRecord] /\ tree \in [Hosts -> Trees]
      /\ parallel \in 1..MaxParallel /\ MaxParallel \in Nat
  BY TransferAssumption, WalkItems DEF Types, HostTypes, OptionTypes, WorkerTypes, TreeTypes, Trees
<1>3. ASSUME NEW m \in 1..fed[h], Walk[m] \in Dirs, DirDone(h, Walk[m])
      PROVE  DirDone(h, Walk[m])'
  <2>1. PICK i \in Dirs : Walk[m] = i
    BY <1>3
  <2>2. DirDone(h, i)'
    BY <1>1, <1>3, <2>1, DoneStays
  <2> QED
    BY <2>1, <2>2
<1>4. CASE Push /\ parallel > 1
  BY <1>1, <1>4 DEF DirHandled, options
<1>5. ASSUME n \in 1..fed[h], DirDone(h, Walk[n])
      PROVE  DirHandled(h, n)'
  BY <1>3, <1>5 DEF DirHandled
<1>6. ASSUME n \in 1..fed[h], ~DirDone(h, Walk[n]), ~(Push /\ parallel > 1)
      PROVE  /\ Push /\ parallel = 1 /\ n = fed[h]
             /\ \E v \in Workers : /\ v[1] = h /\ worker[v].item = Walk[n]
                                   /\ worker[v].at \in {"taken", "placed", "copy"}
  BY <1>1, <1>2, <1>6 DEF DirsInv, DirHandled, Busy
<1>7. ASSUME fed'[h] = fed[h], n \in 1..fed[h], NEW v \in Workers, v[1] = h,
             worker'[v].item = Walk[n], worker'[v].at \in {"taken", "placed", "copy"},
             Push, parallel = 1, n = fed[h]
      PROVE  DirHandled(h, n)'
  BY <1>1, <1>7 DEF DirHandled, Busy
<1>8. ASSUME fed'[h] = fed[h], n \in 1..fed[h],
             \A v \in Workers : v[1] = h /\ worker[v].at \in {"taken", "placed", "copy"} =>
               worker'[v].at \in {"taken", "placed", "copy"} /\ worker'[v].item = worker[v].item
      PROVE  DirHandled(h, n)'
  BY <1>4, <1>5, <1>6, <1>7, <1>8
<1>9. ASSUME NEW g \in Hosts, Launch(g)
      PROVE  DirHandled(h, n)'
  BY <1>8, <1>9 DEF Launch
<1>10. ASSUME NEW g \in Hosts, Dial(g)
       PROVE  DirHandled(h, n)'
  <2>1. dialed[g] \in Nat /\ fed' = fed
    BY <1>10 DEF Dial, Types, HostTypes
  <2>2. \A v \in Workers : worker[v].at \in {"taken", "placed", "copy"} => worker'[v] = worker[v]
    <3>1. \A v \in Workers : worker[v].at # "off" => v # <<g, dialed[g] + 1>>
      BY <1>1, <2>1 DEF DirsInv, Dialed
    <3>2. worker' = [worker EXCEPT ![<<g, dialed[g] + 1>>] = [Off EXCEPT !.at = "ready"]]
      <4>1. dialed' = [dialed EXCEPT ![g] = dialed[g] + 1] /\ dialed'[g] = dialed[g] + 1
        BY <1>10 DEF Dial, Types, HostTypes
      <4> QED
        BY <1>10, <4>1 DEF Dial
    <3> QED
      BY <1>2, <3>1, <3>2
  <2> QED
    BY <1>8, <2>1, <2>2
<1>11. ASSUME NEW g \in Hosts, NEW w \in Workers, Feed(g, w)
       PROVE  DirHandled(h, n)'
  <2>1. /\ fed' = [fed EXCEPT ![g] = fed[g] + 1] /\ w[1] = g /\ worker[w].at = "ready"
        /\ NextItem(g) = Walk[fed[g] + 1]
        /\ NextItem(g) \notin Dirs \/ Push
        /\ worker'[w].at \in {"taken", "placed"} /\ worker'[w].item = NextItem(g)
        /\ \A v \in Workers : v # w => worker'[v] = worker[v]
    BY <1>2, <1>11 DEF Feed, Fed, NextItem, WorkerRecord
  <2>2. CASE g # h
    <3>1. fed'[h] = fed[h]
      BY <1>2, <2>1, <2>2
    <3> QED
      BY <1>8, <2>1, <3>1
  <2>3. CASE g = h /\ n = fed[h] + 1
    <3>1. Push /\ n = fed'[h] /\ worker'[w].item = Walk[n]
      BY <1>2, <2>1, <2>3
    <3> QED
      BY <1>1, <2>1, <2>3, <3>1 DEF DirHandled, Busy
  <2>4. CASE g = h /\ n \in 1..fed[h]
    <3>1. DirDone(h, Walk[n]) \/ (Push /\ parallel > 1)
      <4> SUFFICES ASSUME ~DirDone(h, Walk[n]), ~(Push /\ parallel > 1)
                   PROVE  FALSE
        OBVIOUS
      <4>1. PICK v \in Workers : v[1] = h /\ worker[v].at \in {"taken", "placed", "copy"} /\ parallel = 1
        BY <1>6, <2>4
      <4>2. v = w
        BY <1>1, <2>1, <2>4, <4>1, OneWorker DEF DirsInv
      <4> QED
        BY <2>1, <4>1, <4>2
    <3> QED
      BY <1>4, <1>5, <2>4, <3>1
  <2> QED
    BY <1>2, <2>1, <2>2, <2>3, <2>4
<1>12. ASSUME NEW g \in Hosts, FeedDir(g)
       PROVE  DirHandled(h, n)'
  <2>1. /\ fed' = [fed EXCEPT ![g] = fed[g] + 1] /\ worker' = worker /\ ~Push
        /\ NextItem(g) = Walk[fed[g] + 1]
    BY <1>12 DEF FeedDir, Fed, NextItem
  <2>2. CASE n \in 1..fed[h]
    BY <1>5, <1>6, <2>1, <2>2
  <2>3. CASE g = h /\ n = fed[h] + 1
    <3> DEFINE item == Walk[n]
               nodes == AboveNode(Dest(h), item) \cup {<<Dest(h), item>>}
    <3>1. NextItem(h) = item /\ Place(h) = Dest(h) /\ item \in Dirs /\ item \in Items
      BY <2>1, <2>3, TransferAssumption DEF Dest
    <3>2. tree[h] \in Trees /\ nodes \subseteq Places \X Items
      BY <1>2, <3>1, DestAbove
    <3>3. \A m \in nodes : MkdirAll(tree[h], nodes)[m] = "dir"
      BY <3>2 DEF MkdirAll, Trees
    <3>4. Dest(h) = "in" => <<"at", Root>> \in nodes
      BY DEF AboveNode
    <3>5. CASE cmd = "via"
      <4>1. Dest(h) = "at"
        BY <2>1, <3>5 DEF Dest, Place, Pull
      <4>2. n \in 1..Len(Walk) /\ n - 1 = fed[h]
        BY <1>2, <1>12, <2>3 DEF FeedDir, Listed, Feeding
      <4>3. \A m \in 1..(n - 1) : Walk[m] \in Dirs => DirDone(h, Walk[m])
        BY <1>1, <2>1, <4>2 DEF DirsInv, DirHandled
      <4>4. AboveThere(h, item)
        BY <4>1, <4>2, <4>3, AboveDone
      <4>5. tree'[h] = MkdirAll(tree[h], {<<Dest(h), item>>})
        BY <1>1, <1>2, <1>12, <2>3, <3>1, <3>5, <4>4 DEF FeedDir, Mkdir, AboveThere
      <4>6. tree'[h][<<Dest(h), item>>] = "dir"
        BY <3>2, <4>5 DEF MkdirAll, Trees
      <4> QED
        BY <1>1, <4>1, <4>6 DEF DirHandled, DirDone
    <3>6. CASE cmd # "via"
      <4>1. tree'[h] = MkdirAll(tree[h], nodes)
        BY <1>1, <1>2, <1>12, <2>3, <3>1, <3>6 DEF FeedDir
      <4>2. tree'[h][<<Dest(h), item>>] = "dir" /\ (Dest(h) = "in" => tree'[h][<<"at", Root>>] = "dir")
        BY <3>3, <3>4, <4>1
      <4> QED
        BY <1>1, <4>2 DEF DirHandled, DirDone
    <3> QED
      BY <3>5, <3>6
  <2> QED
    BY <1>2, <2>1, <2>2, <2>3
<1>13. ASSUME NEW w \in Workers, MakeDir(w)
       PROVE  DirHandled(h, n)'
  <2>1. /\ fed' = fed /\ worker[w].at = "placed"
        /\ \A v \in Workers : v # w => worker'[v] = worker[v]
    BY <1>2, <1>13 DEF MakeDir, Placed, WorkerGoto
  <2>2. CASE w[1] # h \/ ~Push \/ parallel # 1 \/ n # fed[h] \/ DirDone(h, Walk[n])
    <3>1. CASE w[1] # h
      BY <1>8, <2>1, <3>1
    <3> QED
      BY <1>4, <1>5, <1>6, <2>1, <2>2, <3>1
  <2>3. CASE w[1] = h /\ Push /\ parallel = 1 /\ n = fed[h]
    <3>1. /\ worker[w].item = Walk[n] /\ worker[w].place = Dest(h) /\ ~worker[w].closed
          /\ Dest(h) = "in" /\ tree[h][<<"at", Root>>] = "dir"
      BY <1>1, <2>1, <2>3 DEF DirsInv, HasLast, PlaceInv, EndsUnstuck, InPlace, Dest
    <3>2. n \in 1..Len(Walk)
      BY <1>2, <2>1
    <3>3. \A m \in 1..(n - 1) : Walk[m] \in Dirs => DirDone(h, Walk[m])
      <4>1. \A m \in 1..(n - 1) : m \in 1..fed[h] /\ m # fed[h]
        BY <2>3, <3>2
      <4> QED
        BY <1>1, <2>3, <4>1 DEF DirsInv, DirHandled
    <3>4. AboveThere(h, Walk[n])
      BY <3>1, <3>2, <3>3, AboveDone
    <3>5. tree'[h] = MkdirAll(tree[h], {<<Dest(h), Walk[n]>>})
      BY <1>1, <1>2, <1>13, <2>3, <3>1, <3>4 DEF MakeDir, Mkdir, AboveThere
    <3>6. <<Dest(h), Walk[n]>> # <<"at", Root>> /\ <<Dest(h), Walk[n]>> \in Places \X Items
          /\ <<"at", Root>> \in Places \X Items
      BY <3>1, <3>2, WalkItems DEF Places
    <3>7. tree'[h][<<Dest(h), Walk[n]>>] = "dir" /\ tree'[h][<<"at", Root>>] = "dir"
      BY <1>2, <3>1, <3>5, <3>6 DEF MkdirAll, Trees
    <3> QED
      BY <1>1, <3>7 DEF DirHandled, DirDone
  <2> QED
    BY <2>2, <2>3
<1>14. ASSUME NEW w \in Workers, Leave(w) \/ Lookup(w) \/ OpenFile(w) \/ CopyDone(w)
       PROVE  DirHandled(h, n)'
  <2>1. fed' = fed /\ n \in 1..fed[h]
    BY <1>14 DEF Leave, Lookup, OpenFile, CopyDone
  <2>2. \A v \in Workers : v # w => worker'[v] = worker[v]
    BY <1>2, <1>14 DEF Leave, Lookup, OpenFile, CopyDone, WorkerGoto
  <2>3. CASE Leave(w)
    BY <1>8, <2>1, <2>2, <2>3 DEF Leave
  <2>4. CASE Lookup(w)
    <3>1. worker'[w].at = "placed" /\ worker'[w].item = worker[w].item
      BY <1>2, <2>4 DEF Lookup, WorkerRecord
    <3> QED
      BY <1>8, <2>1, <2>2, <3>1
  <2>5. CASE OpenFile(w) \/ CopyDone(w)
    <3>1. worker[w].item \notin Dirs
      BY <1>1, <2>5 DEF OpenFile, CopyDone, PlaceInv
    <3>2. CASE DirDone(h, Walk[n]) \/ (Push /\ parallel > 1)
      BY <1>4, <1>5, <2>1, <3>2
    <3>3. CASE ~DirDone(h, Walk[n]) /\ ~(Push /\ parallel > 1)
      <4>1. PICK v \in Workers : /\ v[1] = h /\ worker[v].item = Walk[n] /\ Push /\ parallel = 1
                                 /\ n = fed[h] /\ worker[v].at \in {"taken", "placed", "copy"}
        BY <1>6, <2>1, <3>3
      <4>2. worker'[v] = worker[v]
        BY <2>2, <3>1, <4>1
      <4> QED
        BY <1>7, <2>1, <4>1, <4>2
    <3> QED
      BY <3>2, <3>3
  <2> QED
    BY <1>14, <2>3, <2>4, <2>5
<1>15. CASE UNCHANGED <<worker, tree, fed, dialed>>
  BY <1>8, <1>15
<1>16. CASE \E g \in Hosts : Launch(g) \/ Dial(g) \/ FeedDir(g) \/ \E w \in Workers : Feed(g, w)
  BY <1>9, <1>10, <1>11, <1>12, <1>16
<1>17. CASE \E w \in Workers : Leave(w) \/ Lookup(w) \/ MakeDir(w) \/ OpenFile(w) \/ CopyDone(w)
  BY <1>13, <1>14, <1>17
<1> QED
  BY <1>15, <1>16, <1>17, CleanSteps

LEMMA DirsInvNext ==
  Types /\ EndsUnstuck /\ MissedSaid /\ PlaceInv /\ DirsInv /\ [Next]_vars => DirsInv'
<1> SUFFICES ASSUME Types, EndsUnstuck, MissedSaid, PlaceInv, DirsInv, [Next]_vars, InPlace'
             PROVE  DirsInv'
  BY DEF DirsInv
<1>1. UNCHANGED <<Push, parallel>>
  BY CleanSteps, DestStays DEF options
<1>2. \A w \in Workers : Dialed(w)' /\ (Push /\ parallel = 1 => HasLast(w)')
  BY DialedNext
<1>3. \A h \in Hosts : \A n \in 1..fed'[h] : Walk[n] \in Dirs => DirHandled(h, n)'
  BY DirHandledNext
<1> QED
  BY <1>1, <1>2, <1>3 DEF DirsInv

LEMMA PlaceInit == Init => PlaceInv /\ DirsInv
<1> SUFFICES ASSUME Init
             PROVE  PlaceInv /\ DirsInv
  OBVIOUS
<1>1. \A h \in Hosts, p \in Places, i \in Items :
        tree[h][<<p, i>>] = IF <<p, i>> = <<"at", Root>> /\ existed THEN "dir" ELSE "absent"
  BY DEF Init
<1>2. "at" \in Places /\ Root \in Items /\ Root \in Dirs /\ \A h : Dest(h) \in Places
  BY WalkItems, DestPlace, TransferAssumption DEF Places
<1>3. \A w \in Workers : worker[w].at = "off"
  BY DEF Init, Off
<1>4. \A h \in Hosts : fed[h] = 0
  BY DEF Init
<1>5. \A h \in Hosts, f \in Items \ Dirs : tree[h][<<Dest(h), f>>] = "absent"
  BY <1>1, <1>2
<1>6. reported = {}
  BY DEF Init
<1>7. PlaceInv
  BY <1>1, <1>2, <1>3, <1>5, <1>6 DEF PlaceInv
<1>8. DirsInv
  BY <1>3, <1>4 DEF DirsInv, Dialed, HasLast
<1> QED
  BY <1>7, <1>8

LEMMA PlaceEnd ==
  Types /\ QuietInv /\ EndsFed /\ MissedSaid /\ PlaceInv /\ DirsInv /\ FilesArrive => ArrivesInPlace
<1> SUFFICES ASSUME Types, QuietInv, EndsFed, MissedSaid, PlaceInv, DirsInv, FilesArrive,
                    Completed, Push => existed, NEW h \in targets
             PROVE  Arrived(h, Dest(h))
  BY DEF ArrivesInPlace, Dest
<1>1. InPlace /\ main = "exited" /\ h \in Hosts /\ reported = {}
  BY DEF Completed, InPlace, PlaceInv, Types, OptionTypes
<1>2. pool[h] = "done" /\ fed[h] = Len(Walk)
  BY <1>1 DEF QuietInv, EndsFed, Completed
<1>3. \A w \in Workers : w[1] = h => worker[w].at = "off"
  BY <1>2 DEF QuietInv
<1>4. ASSUME NEW f \in Items \ Dirs
      PROVE  tree[h][<<Dest(h), f>>] = "file" /\ AboveThere(h, f)
  <2>1. Whole(h, f)
    BY <1>1 DEF FilesArrive, Completed, MissedSaid
  <2>2. PICK p \in Places : tree[h][<<p, f>>] = "file"
    BY <2>1 DEF Whole
  <2>3. f # Root
    BY TransferAssumption
  <2>4. p = Dest(h)
    BY <1>1, <2>2, <2>3 DEF PlaceInv
  <2>5. AboveThere(h, f)
    BY <1>1, <2>2, <2>4 DEF PlaceInv
  <2> QED
    BY <2>2, <2>4, <2>5
<1>5. ASSUME NEW i \in Dirs
      PROVE  DirDone(h, i) \/ (Push /\ parallel > 1)
  <2>1. PICK n \in 1..Len(Walk) : Walk[n] = i
    BY TransferAssumption DEF Items
  <2>2. DirHandled(h, n)
    BY <1>1, <1>2, <2>1 DEF DirsInv
  <2> QED
    BY <1>3, <2>1, <2>2 DEF DirHandled, Busy
<1>6. ASSUME NEW i \in Dirs, ~MayBeLost(i)
      PROVE  tree[h][<<Dest(h), i>>] = "dir"
  <2>1. CASE DirDone(h, i)
    BY <2>1 DEF DirDone
  <2>2. CASE Push /\ parallel > 1
    <3>1. PICK f \in Items \ Dirs : i \in Above[f]
      BY <1>6, <2>2 DEF MayBeLost
    <3>2. <<Dest(h), i>> \in AboveNode(Dest(h), f)
      BY <3>1 DEF AboveNode
    <3> QED
      BY <1>4, <3>2 DEF AboveThere
  <2> QED
    BY <1>5, <2>1, <2>2
<1>7. Dest(h) = "in" => tree[h][<<"at", Root>>] = "dir"
  <2>1. CASE Push
    BY <1>1, <2>1 DEF PlaceInv
  <2>2. CASE ~Push
    BY <1>5, <2>2, TransferAssumption DEF DirDone
  <2> QED
    BY <2>1, <2>2
<1>8. ASSUME NEW i \in Items, NEW p \in Places, p # Dest(h)
      PROVE  tree[h][<<p, i>>] = IF <<p, i>> = <<"at", Root>> THEN "dir" ELSE "absent"
  <2>1. Dest(h) \in Places
    BY DestPlace
  <2>2. p = "at" => Dest(h) = "in"
    BY <1>8, <2>1 DEF Places
  <2> QED
    BY <1>1, <1>7, <1>8, <2>2 DEF PlaceInv
<1>9. ASSUME NEW i \in Items
      PROVE  \/ tree[h][<<Dest(h), i>>] = IF i \in Dirs THEN "dir" ELSE "file"
             \/ MayBeLost(i) /\ tree[h][<<Dest(h), i>>] = "absent"
  <2>1. CASE i \in Dirs /\ ~MayBeLost(i)
    BY <1>6, <2>1
  <2>2. CASE i \in Dirs /\ MayBeLost(i)
    BY <1>1, <2>2, DestPlace DEF PlaceInv
  <2>3. CASE i \notin Dirs
    BY <1>4, <2>3
  <2> QED
    BY <2>1, <2>2, <2>3
<1>10. PICK d \in Places : d = Dest(h)
  BY DestPlace
<1>11. ASSUME NEW i \in Items, NEW p \in Places
       PROVE  IF p = d
              THEN \/ tree[h][<<p, i>>] = IF i \in Dirs THEN "dir" ELSE "file"
                   \/ MayBeLost(i) /\ tree[h][<<p, i>>] = "absent"
              ELSE tree[h][<<p, i>>] = IF <<p, i>> = <<"at", Root>> THEN "dir" ELSE "absent"
  BY <1>8, <1>9, <1>10
<1>12. Arrived(h, d)
  BY <1>11, Zenon DEF Arrived
<1> QED
  BY <1>10, <1>12

\* For any directory and any number of hosts and workers, a command that
\* completed has put the directory in one place of each host and nothing in the
\* other; only an empty directory may be missing, after push and put with several
\* workers.
THEOREM ArriveInPlace == Spec => []ArrivesInPlace
<1> DEFINE Inv == Types /\ QuietInv /\ EndsFed /\ EndsUnstuck /\ MissedSaid /\ PlaceInv /\ DirsInv
<1>1. Init => Inv
  BY TypesInit, QuietInit, ArriveInit, PlaceInit
<1>2. Inv /\ [Next]_vars => Inv'
  BY TypesNext, QuietNext, EndsFedNext, UnstuckNext, MissedSaidNext, PlaceInvNext, DirsInvNext
<1>3. Inv /\ FilesArrive => ArrivesInPlace
  BY PlaceEnd
<1> QED
  BY <1>1, <1>2, <1>3, Arrive, PTL DEF Spec

=============================================================================
