------------------------- MODULE ConfigShellProofs -------------------------
(***************************************************************************)
(* Proofs about reading the configuration, for any files, any number of    *)
(* providers and any answers in any order; and, in the second part, about  *)
(* the command lines of lsshell, for any hosts, lines and sizes of pipes.  *)
(***************************************************************************)
EXTENDS ConfigRead, ShellPipeline, FiniteSetTheorems, SequenceTheorems, TLAPS

(***************************************************************************)
(* Reading the configuration.                                              *)
(***************************************************************************)
\* The phases that follow each part of Read.
AfterMatch == {"check", "ready"}
AfterFetch == {"match"} \cup AfterMatch
AfterIncludes == {"fetch"} \cup AfterFetch
AfterImports == {"includes"} \cup AfterIncludes
AfterFile == {"openssh"} \cup AfterImports

\* fail_open is what the files read so far say.
OpenSoFar == failOpen <=> disk.failOpen \/ \E f \in DOMAIN disk.include \ unread : disk.include[f].failOpen

\* Goroutines have run for exactly the providers that were to be asked.
CallsAsked == \A p \in Provider : call[p] # "none" <=> p \in Asked

BadImport == \E i \in ToSet(disk.sshconfig) : i.when = "bad" \/ (i.when = "holds" /\ ~i.readable)
Cause ==
  \/ ~disk.readable
  \/ BadImport
  \/ \E f \in DOMAIN disk.include : ~disk.include[f].readable
  \/ \E p \in DOMAIN provider : provider[p].when = "bad" \/ GivesUp(p)
  \/ \E n \in DOMAIN server : \/ ~Complete(server[n].config)
                              \/ \E b \in ToSet(server[n].match) : b.when = "bad"

Types ==
  /\ disk \in Disks
  /\ phase \in {"file", "exited"} \cup AfterFile
  /\ call \in [Provider -> {"none", "waiting", "describe", "list", "done"}]
  /\ failOpen \in BOOLEAN
  /\ DOMAIN provider \subseteq Provider

\* What has been found to be in order so far, or why Read has exited.
ReadInv ==
  /\ phase \in AfterFile => /\ disk.readable /\ unread \subseteq DOMAIN disk.include /\ OpenSoFar
                            /\ \A f \in DOMAIN disk.include \ unread : disk.include[f].readable
  /\ phase \in AfterImports => ~BadImport
  /\ phase \in AfterIncludes => /\ unread = {} /\ CallsAsked
                                /\ \A p \in DOMAIN provider : provider[p].when # "bad"
  /\ phase \in AfterFetch => \A p \in DOMAIN provider : ~GivesUp(p)
  /\ phase \in AfterMatch => \A n \in DOMAIN server : \A b \in ToSet(server[n].match) : b.when # "bad"
  /\ phase = "ready" => \A n \in DOMAIN server : Complete(server[n].config)
  /\ phase = "exited" => Cause

LEMMA ReadInit == Init => Types /\ ReadInv
<1> SUFFICES ASSUME Init
             PROVE  Types /\ ReadInv
  OBVIOUS
<1>1. phase = "file" /\ disk \in Disks /\ failOpen = FALSE /\ provider = <<>>
  BY DEF Init
<1>2. call \in [Provider -> {"none", "waiting", "describe", "list", "done"}]
  BY DEF Init
<1>3. DOMAIN provider \subseteq Provider
  BY <1>1
<1>4. ReadInv
  BY <1>1 DEF ReadInv, AfterFile, AfterImports, AfterIncludes, AfterFetch, AfterMatch
<1> QED
  BY <1>1, <1>2, <1>3, <1>4 DEF Types

LEMMA TypesNext == Types /\ ReadInv /\ [Next]_vars => Types'
<1> SUFFICES ASSUME Types, ReadInv, [Next]_vars
             PROVE  Types'
  OBVIOUS
<1> USE DEF Types, AfterFile, AfterImports, AfterIncludes, AfterFetch, AfterMatch
<1>1. disk \in Disks /\ DOMAIN disk.provider \subseteq Provider /\ disk.failOpen \in BOOLEAN
  BY DisksAssumption
<1>2. CASE UNCHANGED vars \/ Terminated
  BY <1>2 DEF vars, tables, calls, Terminated
<1>3. CASE ReadFile
  BY <1>1, <1>3 DEF ReadFile, Exit, tables, calls
<1>4. CASE ReadOpenSSHConfig
  BY <1>4 DEF ReadOpenSSHConfig, Exit, tables, calls
<1>5. ASSUME NEW f, ReadIncludeFile(f)
      PROVE  Types'
  <2>1. f \in DOMAIN disk.include
    BY <1>5 DEF ReadIncludeFile, ReadInv
  <2>2. DOMAIN disk.include[f].provider \subseteq Provider /\ disk.include[f].failOpen \in BOOLEAN
    BY <2>1, DisksAssumption
  <2>3. DOMAIN Put(provider, disk.include[f].provider) \subseteq Provider
    BY <2>2 DEF Put
  <2> QED
    BY <1>5, <2>2, <2>3 DEF ReadIncludeFile, Exit, tables, calls
<1>6. CASE StartProviders
  BY <1>6 DEF StartProviders, Exit, tables
<1>7. ASSUME NEW p \in Provider, Take(p) \/ Describe(p) \/ List(p)
      PROVE  Types'
  <2>1. call' \in [Provider -> {"none", "waiting", "describe", "list", "done"}]
    BY <1>7 DEF Take, Describe, List
  <2> QED
    BY <1>7, <2>1 DEF Take, Describe, List, tables
<1>8. CASE MergeProviders
  BY <1>8 DEF MergeProviders, MergeIn, Exit, tables, calls
<1>9. CASE ResolveConditionalMatches
  BY <1>9 DEF ResolveConditionalMatches, Exit, tables, calls
<1>10. CASE CheckFormat
  BY <1>10 DEF CheckFormat, tables, calls
<1> QED
  BY <1>2, <1>3, <1>4, <1>5, <1>6, <1>7, <1>8, <1>9, <1>10 DEF Next, Fetch

LEMMA ReadInvNext == Types /\ ReadInv /\ [Next]_vars => ReadInv'
<1> SUFFICES ASSUME Types, ReadInv, [Next]_vars
             PROVE  ReadInv'
  OBVIOUS
<1> USE DEF Types, AfterFile, AfterImports, AfterIncludes, AfterFetch, AfterMatch
<1>1. CASE UNCHANGED vars \/ Terminated
  <2>1. UNCHANGED <<disk, phase, common, server, unread, provider, failOpen, maxParallel, call, answer>>
    BY <1>1 DEF vars, tables, calls, Terminated
  <2>2. CallsAsked' = CallsAsked /\ OpenSoFar' = OpenSoFar /\ BadImport' = BadImport
    BY <2>1 DEF CallsAsked, Asked, Active, OpenSoFar, BadImport
  <2>3. \A p : GivesUp(p)' = GivesUp(p)
    BY <2>1 DEF GivesUp, MayFail
  <2>4. Cause' = Cause
    BY <2>1, <2>2, <2>3 DEF Cause, Complete
  <2> QED
    BY <2>1, <2>2, <2>3, <2>4 DEF ReadInv, Complete
<1>2. CASE ReadFile
  <2>1. CASE disk.readable
    BY <1>2, <2>1 DEF ReadFile, ReadInv, OpenSoFar
  <2>2. CASE ~disk.readable
    BY <1>2, <2>2 DEF ReadFile, Exit, ReadInv, Cause
  <2> QED
    BY <2>1, <2>2
<1>3. CASE ReadOpenSSHConfig
  <2>1. CASE BadImport
    BY <1>3, <2>1 DEF ReadOpenSSHConfig, BadImport, Exit, ReadInv, Cause
  <2>2. CASE ~BadImport
    BY <1>3, <2>2 DEF ReadOpenSSHConfig, BadImport, ReadInv, OpenSoFar
  <2> QED
    BY <2>1, <2>2
<1>4. ASSUME NEW f, ReadIncludeFile(f)
      PROVE  ReadInv'
  <2>1. /\ phase = "includes" /\ f \in DOMAIN disk.include /\ unread' = unread \ {f} /\ disk' = disk
        /\ f \in unread
    BY <1>4 DEF ReadIncludeFile, ReadInv
  <2>2. CASE disk.include[f].readable
    <3>1. phase' = phase /\ failOpen' = (failOpen \/ disk.include[f].failOpen)
      BY <1>4, <2>2 DEF ReadIncludeFile
    <3>2. DOMAIN disk.include \ unread' = (DOMAIN disk.include \ unread) \cup {f}
      BY <2>1
    <3>3. OpenSoFar'
      BY <2>1, <3>1, <3>2 DEF ReadInv, OpenSoFar
    <3> QED
      BY <2>1, <2>2, <3>1, <3>2, <3>3 DEF ReadInv, BadImport
  <2>3. CASE ~disk.include[f].readable
    BY <1>4, <2>1, <2>3 DEF ReadIncludeFile, Exit, ReadInv, Cause
  <2> QED
    BY <2>2, <2>3
<1>5. CASE StartProviders
  <2>1. CASE \E p \in DOMAIN provider : provider[p].when = "bad"
    BY <1>5, <2>1 DEF StartProviders, Exit, tables, ReadInv, Cause
  <2>2. CASE \A p \in DOMAIN provider : provider[p].when # "bad"
    <3>1. /\ phase' = "fetch" /\ phase = "includes" /\ unread = {}
          /\ UNCHANGED <<disk, unread, failOpen, provider>>
          /\ call' = [p \in Provider |-> IF p \in Asked THEN "waiting" ELSE "none"]
      BY <1>5, <2>2 DEF StartProviders, tables
    <3>2. CallsAsked'
      BY <3>1 DEF CallsAsked, Asked, Active
    <3> QED
      BY <2>2, <3>1, <3>2 DEF ReadInv, OpenSoFar, BadImport
  <2> QED
    BY <2>1, <2>2
<1>6. ASSUME NEW p \in Provider, Take(p) \/ Describe(p) \/ List(p)
      PROVE  ReadInv'
  <2>1. /\ phase = "fetch" /\ UNCHANGED <<disk, phase, tables, unread>>
        /\ call[p] # "none" /\ call'[p] # "none" /\ \A q \in Provider : q # p => call'[q] = call[q]
    BY <1>6 DEF Take, Describe, List
  <2>2. CallsAsked'
    BY <2>1 DEF CallsAsked, ReadInv, Asked, Active, tables
  <2> QED
    BY <2>1, <2>2 DEF ReadInv, OpenSoFar, BadImport, tables
<1>7. CASE MergeProviders
  <2>1. /\ phase = "fetch" /\ UNCHANGED <<disk, unread, calls, provider, failOpen>>
        /\ \A p \in Provider : call[p] \in {"none", "done"}
    BY <1>7 DEF MergeProviders, MergeIn, Exit, tables
  <2>2. \A p \in DOMAIN provider : call[p] = "done" <=> p \in Asked
    BY <2>1 DEF ReadInv, CallsAsked
  <2>3. \A p \in DOMAIN provider : MayFail(p) <=> FailOpen(p)
    BY <2>1 DEF MayFail, FailOpen, ReadInv, OpenSoFar
  <2>4. \A p \in Asked : p \in DOMAIN provider
    BY DEF Asked, Active
  <2>5. (\E p \in DOMAIN provider : GivesUp(p)) <=>
        \E p \in Asked : IF answer[p].kind = "error" THEN ~FailOpen(p)
                         ELSE answer[p].kind = "malformed" \/ ~provider[p].valid
    BY <2>2, <2>3, <2>4 DEF GivesUp
  <2>6. \A p : GivesUp(p)' <=> GivesUp(p)
    BY <2>1 DEF GivesUp, MayFail, calls
  <2>7. CASE \E p \in DOMAIN provider : GivesUp(p)
    <3>1. phase' = "exited"
      BY <1>7, <2>5, <2>7 DEF MergeProviders, MergeIn, Exit
    <3> QED
      BY <2>1, <2>6, <2>7, <3>1 DEF ReadInv, Cause
  <2>8. CASE \A p \in DOMAIN provider : ~GivesUp(p)
    <3>1. phase' = "match"
      BY <1>7, <2>5, <2>8 DEF MergeProviders, MergeIn
    <3>2. CallsAsked'
      BY <2>1 DEF ReadInv, CallsAsked, Asked, Active, calls
    <3> QED
      BY <2>1, <2>6, <2>8, <3>1, <3>2 DEF ReadInv, OpenSoFar, BadImport
  <2> QED
    BY <2>7, <2>8
<1>8. CASE ResolveConditionalMatches
  <2>1. phase = "match" /\ UNCHANGED <<disk, unread, calls, provider, failOpen>>
    BY <1>8 DEF ResolveConditionalMatches, Exit, tables
  <2>2. CASE \E n \in DOMAIN server : \E b \in ToSet(server[n].match) : b.when = "bad"
    BY <1>8, <2>2 DEF ResolveConditionalMatches, Exit, tables, ReadInv, Cause
  <2>3. CASE \A n \in DOMAIN server : \A b \in ToSet(server[n].match) : b.when # "bad"
    <3>1. /\ phase' = "check" /\ DOMAIN server' = DOMAIN server
          /\ \A n \in DOMAIN server : server'[n].match = server[n].match
      BY <1>8, <2>3 DEF ResolveConditionalMatches, Host
    <3>2. \A n \in DOMAIN server' : \A b \in ToSet(server'[n].match) : b.when # "bad"
      BY <2>3, <3>1
    <3>3. CallsAsked' /\ OpenSoFar' /\ ~BadImport' /\ \A p \in DOMAIN provider : ~GivesUp(p)'
      BY <2>1 DEF ReadInv, CallsAsked, Asked, Active, calls, GivesUp, MayFail, BadImport, OpenSoFar
    <3> QED
      BY <2>1, <3>1, <3>2, <3>3 DEF ReadInv
  <2> QED
    BY <2>2, <2>3
<1>9. CASE CheckFormat
  <2>1. phase = "check" /\ UNCHANGED <<disk, unread, calls, tables>>
    BY <1>9 DEF CheckFormat
  <2>2. CallsAsked' /\ OpenSoFar' /\ ~BadImport' /\ \A p \in DOMAIN provider : ~GivesUp(p)'
    BY <2>1 DEF ReadInv, CallsAsked, Asked, Active, calls, tables, GivesUp, MayFail, BadImport, OpenSoFar
  <2>3. CASE phase' = "ready" /\ \A n \in DOMAIN server : Complete(server[n].config)
    BY <2>1, <2>2, <2>3 DEF ReadInv, tables, Complete
  <2>4. CASE phase' = "exited" /\ \E n \in DOMAIN server : ~Complete(server[n].config)
    BY <2>1, <2>4 DEF ReadInv, tables, Cause, Complete
  <2> QED
    BY <1>9, <2>3, <2>4 DEF CheckFormat
<1> QED
  BY <1>1, <1>2, <1>3, <1>4, <1>5, <1>6, <1>7, <1>8, <1>9 DEF Next, Fetch

LEMMA ReadEnd == Types /\ ReadInv => ExitsForCause
  BY DEF ReadInv, ExitsForCause, Cause, BadImport, AfterFile, AfterImports, AfterIncludes, AfterFetch,
         AfterMatch

\* Whatever the files say and the providers answer, in any order: lssh exits if
\* and only if something that has no leave to fail has failed.
THEOREM ExitsForCauseOnly == Spec => []ExitsForCause
<1>1. Types /\ ReadInv /\ [Next]_vars => (Types /\ ReadInv)'
  BY TypesNext, ReadInvNext
<1> QED
  BY <1>1, ReadInit, ReadEnd, PTL DEF Spec

(***************************************************************************)
(* A command line of lsshell.                                              *)
(***************************************************************************)
Row == [run : {"off", "running", "exited"}, in : 0..Window, out : 0..Window,
        made : 0..MaxOut, copied : BOOLEAN]

LineTyped == Len(line) \in Nat /\ DOMAIN line = 1..Len(line)

\* Before a line is typed there is none.
Untyped == mode = "prompt" => lanes = {} /\ done = {} /\ ~interrupted /\ killed = {} /\ inTime = {}

ShellTypes == ShellTypeOK /\ LineTyped /\ Untyped

LEMMA StageParts ==
  ASSUME NEW s \in LineStages
  PROVE  /\ s = <<s[1], s[2]>> /\ s[1] \in lanes /\ s[2] \in 1..Len(line)
         /\ ~Last_(s) /\ LineTyped => Following(s) \in LineStages
BY DEF LineStages, Following, Last_, LineTyped

LEMMA RunsAreProcs ==
  ASSUME connected \subseteq Hosts, NEW s, NEW p \in Runs(s)
  PROVE  p \in Procs
BY DEF Runs, ActiveConnects, Procs

LEMMA TypedLines ==
  ASSUME NEW parts \in Typed
  PROVE  LET n == Normalized(JoinPipeLine(parts)) IN
           Len(n) \in Nat /\ DOMAIN n = 1..Len(n)
<1> DEFINE l == JoinPipeLine(parts)
           n == Normalized(l)
           S == {n[i] : i \in DOMAIN n}
<1>1. l \in Seq(ToSet(l))
  BY TypedAssumption
<1> HIDE DEF l
<1>2. Len(l) \in Nat /\ DOMAIN l = 1..Len(l)
  BY <1>1
<1>3. n = [i \in 1..Len(l) |-> n[i]]
  BY <1>2 DEF Normalized
<1>4. n \in [1..Len(l) -> S]
  BY <1>2, <1>3 DEF Normalized
<1> HIDE DEF n, S
<1>5. n \in Seq(S)
  BY <1>2, <1>4, SeqDef
<1> QED
  BY <1>5 DEF n, l

-----------------------------------------------------------------------------
(* What a step does to the stages and their commands *)

\* A command that was launched is one the stage runs, and has printed nothing
\* before; PushInput serves the commands of its stage.
LaunchInv ==
  \A s \in LineStages :
    /\ \A h \in todo[s] : h \in Runs(s) \cap Hosts /\ proc[<<s, h>>].run # "off"
    /\ \A p \in Procs :
         /\ proc[<<s, p>>].run = "off" => proc[<<s, p>>].out = 0
         /\ proc[<<s, p>>].run # "off" => p \in Runs(s) /\ stage[s] # "start"
         /\ p \in Runs(s) /\ (Executes(s) \/ stage[s] = "run") /\ stage[s] # "start"
              => proc[<<s, p>>].run # "off"

StageMoves(s) ==
  \/ stage'[s] = stage[s]
  \/ stage[s] = "start" /\ stage'[s] = "run" /\ \A p \in Runs(s) : proc'[<<s, p>>].run = "running"
  \/ stage[s] = "start" /\ stage'[s] = "done" /\ ~Executes(s)
  \/ stage[s] = "run" /\ stage'[s] = "told" /\ IsRemote(s) /\ (\A p \in Runs(s) : Returned(s, p))
       /\ (Quick => ~Moving /\ ~(s \in inTime /\ Killing(s[1])))
  \/ stage[s] = "run" /\ stage'[s] = "done" /\ ~IsRemote(s) /\ Returned(s, Here)
  \/ stage[s] \in {"told", "shut"} /\ stage'[s] \in {"shut", "done"}

\* The output of a command has been closed, or the input of the stage behind it.
CutOff(s) == ~Last_(s) /\ (OutClosed(s) \/ InClosed(Following(s)))

CommandMoves(s, p) ==
  \/ proc'[<<s, p>>] = proc[<<s, p>>]
  \/ /\ stage[s] = "start" /\ stage'[s] = "run" /\ p \in Runs(s)
     /\ proc'[<<s, p>>] = [Off EXCEPT !.run = "running"]
  \/ /\ stage'[s] = stage[s] /\ p \in Runs(s) /\ proc[<<s, p>>].run # "off"
     /\ \/ proc'[<<s, p>>].run = proc[<<s, p>>].run
        \/ /\ proc[<<s, p>>].run = "running" /\ proc'[<<s, p>>].run = "exited"
           /\ feed[s] = "ended" \/ ProgOf(s) # "filter" \/ interrupted' \/ CutOff(s)
     /\ proc[<<s, p>>].run = "running" \/ proc'[<<s, p>>].out <= proc[<<s, p>>].out
     /\ proc'[<<s, p>>].copied \/ ~proc[<<s, p>>].copied \/ CutOff(s)

FeedMoves(s) ==
  \/ feed'[s] = feed[s]
  \/ /\ feed'[s] = "ended" /\ stage[s] = "run" /\ stage'[s] = stage[s]
     /\ \/ s[2] > 1 /\ OutClosed(Prev(s))
        \/ ~IsRemote(s) /\ proc[<<s, Here>>].run = "exited"

Moves ==
  /\ UNCHANGED lineVars
  /\ interrupted => interrupted'
  /\ stage' \in [LineStages -> {"start", "run", "told", "shut", "done"}]
  /\ proc' \in [LineStages \X Procs -> Row]
  /\ feed' \in [LineStages -> {"open", "ended"}]
  /\ todo' \in [LineStages -> SUBSET Hosts]
  /\ \A s \in LineStages :
       /\ StageMoves(s) /\ FeedMoves(s)
       /\ \A p \in Procs : CommandMoves(s, p)
       /\ todo'[s] \subseteq todo[s] \/ (stage[s] = "run" /\ IsRemote(s) /\ todo'[s] \subseteq Fed(s))

\* The steps that leave a part of the state alone.
LEMMA KeepsStages ==
  ASSUME stage' = stage, NEW s
  PROVE  StageMoves(s)
BY DEF StageMoves

LEMMA KeepsCommands ==
  ASSUME proc' = proc, NEW s, NEW p
  PROVE  CommandMoves(s, p)
BY DEF CommandMoves

LEMMA KeepsFeeds ==
  ASSUME feed' = feed, NEW s
  PROVE  FeedMoves(s)
BY DEF FeedMoves

\* A step that only moves stages on.
LEMMA StageStep ==
  ASSUME ShellTypes, UNCHANGED <<lineVars, proc, feed, todo, interrupted>>,
         NEW s \in LineStages, NEW to \in {"start", "run", "told", "shut", "done"},
         stage' = [stage EXCEPT ![s] = to], StageMoves(s)
  PROVE  Moves
<1>1. \A t \in LineStages : StageMoves(t)
  BY DEF StageMoves, ShellTypes, ShellTypeOK
<1>2. stage' \in [LineStages -> {"start", "run", "told", "shut", "done"}]
  BY DEF ShellTypes, ShellTypeOK
<1> QED
  BY <1>1, <1>2, KeepsCommands, KeepsFeeds DEF Moves, ShellTypes, ShellTypeOK, Row

\* A step of one command, of a stage that stays where it is.
LEMMA OneCommand ==
  ASSUME ShellTypes, NEW s \in LineStages, NEW p \in Procs, NEW r \in Row,
         proc' = [proc EXCEPT ![<<s, p>>] = r], CommandMoves(s, p)
  PROVE  /\ proc' \in [LineStages \X Procs -> Row]
         /\ \A t \in LineStages : \A q \in Procs : CommandMoves(t, q)
<1>1. proc' \in [LineStages \X Procs -> Row]
  BY DEF ShellTypes, ShellTypeOK, Row
<1>2. ASSUME NEW t \in LineStages, NEW q \in Procs
      PROVE  CommandMoves(t, q)
  <2>1. CASE <<t, q>> = <<s, p>>
    BY <2>1
  <2>2. CASE <<t, q>> # <<s, p>>
    <3>1. proc'[<<t, q>>] = proc[<<t, q>>]
      BY <2>2 DEF ShellTypes, ShellTypeOK
    <3> QED
      BY <3>1 DEF CommandMoves
  <2> QED
    BY <2>1, <2>2
<1> QED
  BY <1>1, <1>2

LEMMA CommandStep ==
  ASSUME ShellTypes, UNCHANGED <<lineVars, stage, feed, todo, interrupted>>,
         NEW s \in LineStages, NEW p \in Procs, NEW r \in Row,
         proc' = [proc EXCEPT ![<<s, p>>] = r], CommandMoves(s, p)
  PROVE  Moves
BY OneCommand, KeepsStages, KeepsFeeds DEF Moves, ShellTypes, ShellTypeOK

LEMMA HereIsNoHost == Here \notin Hosts /\ Here \in Procs
BY ConnectsAssumption DEF Procs

LEMMA RowsAre ==
  ASSUME ShellTypes, NEW s \in LineStages, NEW p \in Procs
  PROVE  /\ proc[<<s, p>>] \in Row
         /\ proc[<<s, p>>].run \in {"off", "running", "exited"}
         /\ proc[<<s, p>>].in \in 0..Window /\ proc[<<s, p>>].out \in 0..Window
         /\ proc[<<s, p>>].made \in 0..MaxOut /\ proc[<<s, p>>].copied \in BOOLEAN
BY DEF ShellTypes, ShellTypeOK, Row

LEMMA StagesMove ==
  ASSUME ShellTypes, NEW s \in LineStages,
         EndEarly(s) \/ Tell(s) \/ Shut(s) \/ Finish(s) \/ LocalEnds(s)
  PROVE  Moves
<1> USE DEF Goes, Still, killVars, StageMoves
<1>0. stage[s] \in {"start", "run", "told", "shut", "done"} /\ DOMAIN stage = LineStages
  BY DEF ShellTypes, ShellTypeOK
<1>1. CASE EndEarly(s)
  <2>1. ~Executes(s)
    BY <1>1 DEF EndEarly, Executes, IsRemote
  <2> QED
    BY <1>0, <1>1, <2>1, StageStep DEF EndEarly
<1>2. CASE Tell(s)
  BY <1>0, <1>2, StageStep DEF Tell
<1>3. CASE Shut(s)
  BY <1>0, <1>3, StageStep DEF Shut
<1>4. CASE Finish(s)
  BY <1>0, <1>4, StageStep DEF Finish
<1>5. CASE LocalEnds(s)
  BY <1>0, <1>5, StageStep DEF LocalEnds
<1> QED
  BY <1>1, <1>2, <1>3, <1>4, <1>5

LEMMA LaunchMoves ==
  ASSUME ShellTypes, NEW s \in LineStages, Launch(s)
  PROVE  Moves
<1> DEFINE running == [Off EXCEPT !.run = "running"]
<1>0. /\ stage[s] = "start" /\ stage' = [stage EXCEPT ![s] = "run"]
      /\ UNCHANGED <<lineVars, feed, todo, interrupted>>
  BY DEF Launch, Goes, Still, killVars
<1>2. running \in Row
  <2>1. Off \in Row
    BY SizeAssumption DEF Off, Row
  <2> QED
    BY <2>1 DEF Row
<1>3. proc' = [sp \in LineStages \X Procs |-> IF sp[1] = s /\ sp[2] \in Runs(s) THEN running ELSE proc[sp]]
  BY DEF Launch, ShellTypes, ShellTypeOK
<1>4. proc' \in [LineStages \X Procs -> Row]
  BY <1>2, <1>3 DEF ShellTypes, ShellTypeOK, Row
<1>1. ASSUME NEW t \in LineStages
      PROVE  StageMoves(t)
  <2>1. \A p \in Runs(s) : proc'[<<s, p>>] = running
    BY <1>3, RunsAreProcs DEF ShellTypes, ShellTypeOK
  <2>2. running.run = "running"
    BY DEF Off
  <2> HIDE DEF running
  <2> QED
    BY <1>0, <2>1, <2>2 DEF StageMoves, ShellTypes, ShellTypeOK
<1>5. ASSUME NEW t \in LineStages, NEW q \in Procs
      PROVE  CommandMoves(t, q)
  <2>1. proc'[<<t, q>>] = IF t = s /\ q \in Runs(s) THEN running ELSE proc[<<t, q>>]
    BY <1>3
  <2>2. stage'[s] = "run"
    BY <1>0 DEF ShellTypes, ShellTypeOK
  <2> QED
    BY <1>0, <2>1, <2>2 DEF CommandMoves
<1>6. stage' \in [LineStages -> {"start", "run", "told", "shut", "done"}]
  BY <1>0 DEF ShellTypes, ShellTypeOK
<1> QED
  BY <1>0, <1>1, <1>4, <1>5, <1>6, KeepsFeeds DEF Moves, ShellTypes, ShellTypeOK

LEMMA CommandsMove ==
  ASSUME ShellTypes, LaunchInv, NEW s \in LineStages, NEW p \in Runs(s),
         Prints(s, p) \/ Filter(s, p) \/ CommandExits(s, p) \/ CopyFails(s, p) \/ Push(s, p)
  PROVE  Moves
<1> USE DEF Still, killVars
<1>0. p \in Procs
  BY RunsAreProcs DEF ShellTypes, ShellTypeOK
<1>1. PICK q \in Row : q = proc[<<s, p>>]
  BY <1>0, RowsAre
<1>2. /\ q.run \in {"off", "running", "exited"} /\ q.in \in 0..Window /\ q.out \in 0..Window
      /\ q.made \in 0..MaxOut /\ q.copied \in BOOLEAN
      /\ MaxOut \in Nat /\ Window \in Nat /\ DOMAIN proc = LineStages \X Procs
  BY <1>0, <1>1, RowsAre, SizeAssumption DEF ShellTypes, ShellTypeOK
<1>3. CASE Prints(s, p)
  <2> DEFINE r == [q EXCEPT !.made = @ + 1, !.out = @ + 1]
  <2>0. q.run = "running" /\ q.made + 1 \in 0..MaxOut /\ q.out + 1 \in 0..Window
    BY <1>1, <1>2, <1>3 DEF Prints, Acts
  <2>1. r \in Row /\ r.run = "running" /\ q.run = "running" /\ r.copied = q.copied
    BY <2>0 DEF Row
  <2>2. proc' = [proc EXCEPT ![<<s, p>>] = r]
    BY <1>1, <1>3 DEF Prints
  <2> HIDE DEF r
  <2>4. CommandMoves(s, p)
    BY <1>0, <1>1, <1>2, <1>3, <2>1, <2>2 DEF Prints, CommandMoves
  <2> QED
    BY <1>0, <1>3, <2>1, <2>2, <2>4, CommandStep DEF Prints
<1>4. CASE Filter(s, p)
  <2> DEFINE r == [q EXCEPT !.in = @ - 1, !.out = @ + 1,
                            !.run = IF ProgOf(s) = "head" THEN "exited" ELSE @]
  <2>0. q.run = "running" /\ q.in - 1 \in 0..Window /\ q.out + 1 \in 0..Window
    BY <1>1, <1>2, <1>4 DEF Filter, CanFilter
  <2>1. /\ r \in Row /\ r.copied = q.copied
        /\ r.run = IF ProgOf(s) = "head" THEN "exited" ELSE q.run
    BY <2>0 DEF Row
  <2>2. proc' = [proc EXCEPT ![<<s, p>>] = r]
    BY <1>1, <1>4 DEF Filter
  <2>3. r.run = "running" \/ (r.run = "exited" /\ ProgOf(s) # "filter")
    BY <2>0, <2>1
  <2> HIDE DEF r
  <2>4. CommandMoves(s, p)
    BY <1>0, <1>1, <1>2, <1>4, <2>0, <2>1, <2>2, <2>3 DEF Filter, CommandMoves
  <2> QED
    BY <1>0, <1>4, <2>1, <2>2, <2>4, CommandStep DEF Filter
<1>5. CASE CommandExits(s, p)
  <2> DEFINE r == [q EXCEPT !.run = "exited"]
  <2>1. r \in Row /\ r.run = "exited" /\ r.out = q.out /\ q.run = "running" /\ r.copied = q.copied
    BY <1>1, <1>2, <1>5 DEF CommandExits, Acts, Row
  <2>2. proc' = [proc EXCEPT ![<<s, p>>] = r]
    BY <1>1, <1>5 DEF CommandExits
  <2>3. feed[s] = "ended" \/ ProgOf(s) # "filter"
    BY <1>5 DEF CommandExits, SeesEnd
  <2> HIDE DEF r
  <2>4. CommandMoves(s, p)
    BY <1>0, <1>1, <1>2, <1>5, <2>1, <2>2, <2>3 DEF CommandExits, CommandMoves
  <2> QED
    BY <1>0, <1>5, <2>1, <2>2, <2>4, CommandStep DEF CommandExits
<1>6. CASE CopyFails(s, p)
  <2> DEFINE direct == p \in Hosts /\ Kind[p] = "direct"
             r == [q EXCEPT !.copied = FALSE, !.run = IF direct THEN @ ELSE "exited",
                            !.out = IF direct THEN @ ELSE 0]
  <2>1. CutOff(s) /\ q.out > 0
    BY <1>1, <1>6 DEF CopyFails, CutOff
  <2>2. q.run # "off"
    <3>1. q.out # 0
      BY <1>2, <2>1
    <3> QED
      BY <1>0, <1>1, <3>1 DEF LaunchInv
  <2>3. r \in Row /\ r.run \in {q.run, "exited"} /\ r.out <= q.out /\ r.copied = FALSE
    <3>1. 0 \in 0..Window /\ q.out <= q.out
      BY <1>2
    <3>2. CASE direct
      BY <3>1, <3>2 DEF Row
    <3>3. CASE ~direct
      <4>1. r = [q EXCEPT !.copied = FALSE, !.run = "exited", !.out = 0]
        BY <3>3
      <4>2. r \in Row /\ r.run = "exited" /\ r.out = 0 /\ r.copied = FALSE
        BY <3>1, <4>1 DEF Row
      <4> QED
        BY <1>2, <4>2
    <3> QED
      BY <3>2, <3>3
  <2>4. proc' = [proc EXCEPT ![<<s, p>>] = r]
    BY <1>1, <1>6 DEF CopyFails
  <2>5. q.run = "exited" => r.run = q.run
    BY <2>3
  <2> HIDE DEF r
  <2>6. CommandMoves(s, p)
    BY <1>0, <1>1, <1>2, <1>6, <2>1, <2>2, <2>3, <2>4, <2>5 DEF CopyFails, CommandMoves
  <2> QED
    BY <1>0, <1>6, <2>3, <2>4, <2>6, CommandStep DEF CopyFails
<1>7. CASE Push(s, p)
  <2> DEFINE r == IF Returned(s, p) THEN q ELSE [q EXCEPT !.in = @ + 1]
  <2>1. p \in todo[s] /\ q.run # "off"
    BY <1>1, <1>7 DEF Push, CanPush, IsFirst, LaunchInv
  <2>2. r \in Row /\ r.run = q.run /\ r.out = q.out /\ r.copied = q.copied
    <3>1. Returned(s, p) \/ q.in + 1 \in 0..Window
      BY <1>1, <1>2, <1>7 DEF Push, CanPush
    <3> QED
      BY <3>1 DEF Row
  <2>3. proc' = [proc EXCEPT ![<<s, p>>] = r]
    <3>1. CASE Returned(s, p)
      BY <1>0, <1>1, <1>2, <1>7, <3>1 DEF Push, ShellTypes, ShellTypeOK
    <3>2. CASE ~Returned(s, p)
      BY <1>1, <1>7, <3>2 DEF Push
    <3> QED
      BY <3>1, <3>2
  <2> HIDE DEF r
  <2>4. CommandMoves(s, p)
    BY <1>0, <1>1, <1>2, <1>7, <2>1, <2>2, <2>3 DEF Push, CommandMoves
  <2>5. /\ proc' \in [LineStages \X Procs -> Row]
        /\ \A t \in LineStages : \A o \in Procs : CommandMoves(t, o)
    BY <1>0, <2>2, <2>3, <2>4, OneCommand
  <2>6. \A t \in LineStages : todo'[t] \subseteq todo[t]
    BY <1>7 DEF Push, ShellTypes, ShellTypeOK
  <2>7. todo' \in [LineStages -> SUBSET Hosts]
    BY <1>7 DEF Push, ShellTypes, ShellTypeOK
  <2> QED
    BY <1>7, <2>5, <2>6, <2>7, KeepsStages, KeepsFeeds DEF Push, Moves, ShellTypes, ShellTypeOK
<1> QED
  BY <1>3, <1>4, <1>5, <1>6, <1>7

LEMMA CopyMoves ==
  ASSUME ShellTypes, LaunchInv, NEW s \in LineStages, NEW p \in Runs(s), Copy(s, p)
  PROVE  Moves
<1> USE DEF Still, killVars
<1> DEFINE t == Following(s)
           r == [proc[<<s, p>>] EXCEPT !.out = @ - 1]
           given == [proc EXCEPT ![<<s, p>>] = r]
<1>0. p \in Procs
  BY RunsAreProcs DEF ShellTypes, ShellTypeOK
<1>1. PICK q \in Row : q = proc[<<s, p>>]
  BY <1>0, RowsAre
<1>2. /\ q.run \in {"off", "running", "exited"} /\ q.in \in 0..Window /\ q.out \in 0..Window
      /\ q.made \in 0..MaxOut /\ q.copied \in BOOLEAN
      /\ MaxOut \in Nat /\ Window \in Nat /\ DOMAIN proc = LineStages \X Procs
  BY <1>0, <1>1, RowsAre, SizeAssumption DEF ShellTypes, ShellTypeOK
<1>3. CanCopy(s, p) /\ q.out > 0 /\ UNCHANGED <<lineVars, stage, interrupted>>
  BY <1>1 DEF Copy, CanCopy
<1>4. q.run # "off"
  <2>1. q.out # 0
    BY <1>2, <1>3
  <2> QED
    BY <1>0, <1>1, <2>1 DEF LaunchInv
<1>5. r \in Row /\ r.run = q.run /\ r.out <= q.out /\ r.copied = q.copied
  <2>1. q.out - 1 \in 0..Window /\ q.out - 1 <= q.out
    BY <1>2, <1>3
  <2> QED
    BY <1>1, <2>1 DEF Row
<1>6. given = [proc EXCEPT ![<<s, p>>].out = @ - 1]
  OBVIOUS
<1> HIDE DEF r
<1>7. ASSUME proc' = given
      PROVE  /\ proc' \in [LineStages \X Procs -> Row]
             /\ \A u \in LineStages : \A o \in Procs : CommandMoves(u, o)
  <2>1. CommandMoves(s, p)
    BY <1>0, <1>1, <1>2, <1>3, <1>4, <1>5, <1>7 DEF CommandMoves
  <2> QED
    BY <1>0, <1>5, <1>7, <2>1, OneCommand
<1>8. ~Last_(s) => t \in LineStages /\ t # s /\ stage[t] = "run"
  BY <1>3, StageParts DEF CanCopy, ShellTypes, LineTyped, Following
<1>9. CASE Last_(s)
  <2>1. proc' = given /\ UNCHANGED <<feed, todo>>
    BY <1>6, <1>9 DEF Copy
  <2> QED
    BY <1>3, <1>7, <2>1, KeepsStages, KeepsFeeds DEF Moves, ShellTypes, ShellTypeOK
<1>10. CASE ~Last_(s) /\ IsRemote(t)
  <2>1. proc' = given /\ todo' = [todo EXCEPT ![t] = Fed(t)] /\ UNCHANGED feed
    BY <1>6, <1>10 DEF Copy
  <2>2. Fed(t) \subseteq Hosts
    BY <1>10 DEF Fed, Runs, ActiveConnects, ShellTypes, ShellTypeOK
  <2>3. todo' \in [LineStages -> SUBSET Hosts]
    BY <2>1, <2>2 DEF ShellTypes, ShellTypeOK
  <2>4. \A u \in LineStages : todo'[u] \subseteq todo[u] \/ (stage[u] = "run" /\ IsRemote(u) /\ todo'[u] \subseteq Fed(u))
    BY <1>8, <1>10, <2>1 DEF ShellTypes, ShellTypeOK
  <2> QED
    BY <1>3, <1>7, <2>1, <2>3, <2>4, KeepsStages, KeepsFeeds DEF Moves, ShellTypes, ShellTypeOK
<1>11. CASE ~Last_(s) /\ ~IsRemote(t) /\ proc[<<t, Here>>].run = "exited"
  <2>1. proc' = given /\ feed' = [feed EXCEPT ![t] = "ended"] /\ UNCHANGED todo
    BY <1>6, <1>11 DEF Copy
  <2>2. feed' \in [LineStages -> {"open", "ended"}]
    BY <2>1 DEF ShellTypes, ShellTypeOK
  <2>3. \A u \in LineStages : FeedMoves(u)
    BY <1>3, <1>8, <1>11, <2>1 DEF FeedMoves, ShellTypes, ShellTypeOK
  <2> QED
    BY <1>3, <1>7, <2>1, <2>2, <2>3, KeepsStages DEF Moves, ShellTypes, ShellTypeOK
<1>12. CASE ~Last_(s) /\ ~IsRemote(t) /\ proc[<<t, Here>>].run # "exited"
  <2> DEFINE o == proc[<<t, Here>>]
             w == [o EXCEPT !.in = @ + 1]
  <2>1. /\ proc' = [given EXCEPT ![<<t, Here>>].in = @ + 1]
        /\ UNCHANGED <<feed, todo>>
    BY <1>6, <1>12 DEF Copy
  <2>2. o \in Row /\ o.in \in 0..Window /\ o.out \in 0..Window /\ o.copied \in BOOLEAN
    BY <1>8, <1>12, RowsAre, HereIsNoHost
  <2>3. o.in < Window
    BY <1>3, <1>8, <1>12 DEF CanCopy
  <2>4. w \in Row /\ w.run = o.run /\ w.out = o.out /\ w.copied = o.copied
    <3>1. o.in + 1 \in 0..Window
      BY <1>2, <2>2, <2>3
    <3> QED
      BY <2>2, <3>1 DEF Row
  <2>5. Here \in Runs(t) /\ o.run # "off"
    BY <1>8, <1>12, HereIsNoHost DEF Runs, LaunchInv
  <2>6. <<t, Here>> \in LineStages \X Procs /\ <<t, Here>> # <<s, p>>
    BY <1>8, <1>12, HereIsNoHost
  <2>7. proc' = [given EXCEPT ![<<t, Here>>] = w]
    BY <2>1, <2>6, <1>2
  <2> HIDE DEF w, o
  <2>8. proc' \in [LineStages \X Procs -> Row]
    BY <1>5, <2>4, <2>7 DEF ShellTypes, ShellTypeOK, Row
  <2>9. ASSUME NEW u \in LineStages, NEW h \in Procs
        PROVE  CommandMoves(u, h)
    <3>1. CASE <<u, h>> = <<t, Here>>
      <4>1. proc'[<<u, h>>] = w /\ proc[<<u, h>>] = o /\ u = t /\ h = Here
        BY <1>2, <2>6, <2>7, <3>1 DEF o
      <4> QED
        BY <1>3, <1>12, <2>2, <2>4, <2>5, <4>1 DEF CommandMoves
    <3>2. CASE <<u, h>> = <<s, p>>
      <4>1. proc'[<<u, h>>] = r /\ u = s /\ h = p
        BY <1>2, <2>6, <2>7, <3>2
      <4> QED
        BY <1>0, <1>1, <1>2, <1>3, <1>4, <1>5, <4>1 DEF CommandMoves
    <3>3. CASE <<u, h>> # <<t, Here>> /\ <<u, h>> # <<s, p>>
      <4>1. proc'[<<u, h>>] = proc[<<u, h>>]
        BY <1>2, <2>6, <2>7, <3>3
      <4> QED
        BY <4>1 DEF CommandMoves
    <3> QED
      BY <3>1, <3>2, <3>3
  <2> QED
    BY <1>3, <2>1, <2>8, <2>9, KeepsStages, KeepsFeeds DEF Moves, ShellTypes, ShellTypeOK
<1> QED
  BY <1>9, <1>10, <1>11, <1>12

LEMMA FeedEndMoves ==
  ASSUME ShellTypes, NEW s \in LineStages, FeedEnds(s)
  PROVE  Moves
<1>1. /\ feed' = [feed EXCEPT ![s] = "ended"]
      /\ UNCHANGED <<lineVars, stage, proc, todo, interrupted>>
  BY DEF FeedEnds, Still, killVars
<1>2. feed' \in [LineStages -> {"open", "ended"}]
  BY <1>1 DEF ShellTypes, ShellTypeOK
<1>3. \A t \in LineStages : FeedMoves(t)
  BY <1>1 DEF FeedEnds, FeedMoves, ShellTypes, ShellTypeOK
<1> QED
  BY <1>1, <1>2, <1>3, KeepsStages, KeepsCommands DEF Moves, ShellTypes, ShellTypeOK, Row

-----------------------------------------------------------------------------
(* Ctrl-C *)

Took(l) == {i \in 1..Len(line) : <<l, i>> \in killed}

\* Nobody sends a kill before Ctrl-C, and the kills of a lane are for its stages.
KillInv ==
  /\ ~interrupted => killed = {} /\ \A l \in lanes : sending[l] = 0
  /\ \A l \in lanes : sending[l] > 0 => sending[l] + Cardinality(Took(l)) = Len(line)

LEMMA TookIsFinite ==
  ASSUME LineTyped, NEW l
  PROVE  /\ IsFiniteSet(Took(l)) /\ Cardinality(Took(l)) \in Nat
         /\ Cardinality(Took(l)) <= Len(line)
         /\ Cardinality(Took(l)) = Len(line) => Took(l) = 1..Len(line)
<1>1. IsFiniteSet(1..Len(line)) /\ Cardinality(1..Len(line)) = Len(line)
  <2>1. PICK n \in Nat : n = Len(line)
    BY DEF LineTyped
  <2>2. IsFiniteSet(1..n) /\ Cardinality(1..n) = IF 1 > n THEN 0 ELSE n - 1 + 1
    BY FS_Interval
  <2>3. Cardinality(1..n) = n
    BY <2>2
  <2> QED
    BY <2>1, <2>2, <2>3
<1>2. Took(l) \in SUBSET (1..Len(line))
  BY DEF Took
<1> QED
  BY <1>1, <1>2, FS_Subset, FS_CardinalityType

LEMMA KillMoves ==
  ASSUME ShellTypes, LaunchInv, KillInv, NEW s \in LineStages, TakeKill(s)
  PROVE  Moves /\ KillInv' /\ ShellTypes'
<1>1. /\ s[1] \in lanes /\ s[2] \in 1..Len(line) /\ s = <<s[1], s[2]>>
      /\ sending[s[1]] > 0 /\ interrupted /\ s \notin killed
      /\ UNCHANGED <<mode, lineVars, done, interrupted, stage, feed, todo>>
  BY StageParts DEF TakeKill, KillInv, Still, CanTake
<1>2. /\ sending' = [sending EXCEPT ![s[1]] = @ - 1]
      /\ killed' = killed \cup {s}
      /\ sending \in [lanes -> 0..Len(line)] /\ Len(line) \in Nat
  BY DEF TakeKill, ShellTypes, ShellTypeOK, LineTyped
<1>3. proc' = [sp \in LineStages \X Procs |->
                IF sp[1] = s /\ proc[sp].run = "running" /\ Dies(s, sp[2])
                THEN [proc[sp] EXCEPT !.run = "exited"] ELSE proc[sp]]
  BY DEF TakeKill, ShellTypes, ShellTypeOK
<1>4. proc' \in [LineStages \X Procs -> Row]
  <2>1. \A q \in Row : [q EXCEPT !.run = "exited"] \in Row
    BY DEF Row
  <2>2. \A sp \in LineStages \X Procs : proc[sp] \in Row
    BY DEF ShellTypes, ShellTypeOK, Row
  <2> QED
    BY <1>3, <2>1, <2>2
<1>5. ASSUME NEW t \in LineStages, NEW p \in Procs
      PROVE  CommandMoves(t, p)
  <2> DEFINE q == proc[<<t, p>>]
  <2>1. q \in Row /\ q.out \in 0..Window /\ q.copied \in BOOLEAN
    BY RowsAre
  <2>2. CASE t = s /\ q.run = "running" /\ Dies(s, p)
    <3>1. proc'[<<t, p>>] = [q EXCEPT !.run = "exited"]
      BY <1>3, <2>2
    <3>2. /\ proc'[<<t, p>>].run = "exited" /\ proc'[<<t, p>>].out = q.out
          /\ proc'[<<t, p>>].copied = q.copied
      BY <2>1, <3>1 DEF Row
    <3>3. p \in Runs(t)
      BY <2>2 DEF LaunchInv
    <3> QED
      BY <1>1, <2>1, <2>2, <3>2, <3>3 DEF CommandMoves
  <2>3. CASE ~(t = s /\ q.run = "running" /\ Dies(s, p))
    <3>1. proc'[<<t, p>>] = proc[<<t, p>>]
      BY <1>3, <2>3
    <3> QED
      BY <3>1 DEF CommandMoves
  <2> QED
    BY <2>2, <2>3
<1>6. Moves
  BY <1>1, <1>4, <1>5, KeepsStages, KeepsFeeds DEF Moves, ShellTypes, ShellTypeOK
<1>7. KillInv'
  <2> SUFFICES ASSUME NEW l \in lanes, sending'[l] > 0
               PROVE  sending'[l] + Cardinality(Took(l)') = Len(line)
    BY <1>1 DEF KillInv, lineVars
  <2>1. CASE l = s[1]
    <3>1. Took(l)' = Took(l) \cup {s[2]} /\ s[2] \notin Took(l)
      BY <1>1, <1>2, <2>1 DEF Took, lineVars
    <3>2. Cardinality(Took(l)') = Cardinality(Took(l)) + 1
      BY <3>1, TookIsFinite, FS_AddElement DEF ShellTypes
    <3>3. sending'[l] = sending[l] - 1 /\ sending[l] + Cardinality(Took(l)) = Len(line)
      BY <1>1, <1>2, <2>1 DEF KillInv
    <3>4. sending[l] \in Nat /\ Cardinality(Took(l)) \in Nat
      BY <1>2, TookIsFinite DEF ShellTypes
    <3> QED
      BY <3>2, <3>3, <3>4
  <2>2. CASE l # s[1]
    <3>1. Took(l)' = Took(l) /\ sending'[l] = sending[l]
      BY <1>1, <1>2, <2>2 DEF Took, lineVars
    <3> QED
      BY <3>1 DEF KillInv
  <2> QED
    BY <2>1, <2>2
<1>8. sending' \in [lanes -> 0..Len(line)] /\ killed' \subseteq LineStages /\ inTime' = inTime
  <2>1. sending[s[1]] - 1 \in 0..Len(line)
    BY <1>1, <1>2
  <2> QED
    BY <1>2, <2>1 DEF TakeKill, ShellTypes, ShellTypeOK
<1>9. LineStages' = LineStages
  BY <1>1 DEF LineStages, lineVars
<1>10. mode # "prompt"
  BY DEF TakeKill
<1> QED
  BY <1>1, <1>4, <1>6, <1>7, <1>8, <1>9, <1>10
  DEF ShellTypes, ShellTypeOK, LineTyped, Untyped, Row, lineVars

\* What a line asks for does not change while it runs.
LEMMA LineStays ==
  ASSUME UNCHANGED lineVars
  PROVE  /\ LineStages' = LineStages /\ (LineTyped <=> LineTyped')
         /\ \A s : /\ KindOf(s)' = KindOf(s) /\ ProgOf(s)' = ProgOf(s)
                  /\ (IsRemote(s) <=> IsRemote(s)') /\ (Last_(s) <=> Last_(s)')
                  /\ (Unresolved(s) <=> Unresolved(s)') /\ (Refuses(s) <=> Refuses(s)')
                  /\ (Idle(s) <=> Idle(s)') /\ ActiveConnects(s)' = ActiveConnects(s)
                  /\ Runs(s)' = Runs(s) /\ Fed(s)' = Fed(s)
                  /\ (Executes(s) <=> Executes(s)') /\ (ReadsAll(s) <=> ReadsAll(s)')
                  /\ (AllReadBehind(s) <=> AllReadBehind(s)')
<1> USE DEF lineVars
<1>1. LineStages' = LineStages /\ (LineTyped <=> LineTyped')
  BY DEF LineStages, LineTyped
<1>2. \A s : /\ KindOf(s)' = KindOf(s) /\ ProgOf(s)' = ProgOf(s)
            /\ (IsRemote(s) <=> IsRemote(s)') /\ (Last_(s) <=> Last_(s)')
            /\ (Unresolved(s) <=> Unresolved(s)')
  BY DEF KindOf, ProgOf, IsRemote, Last_, Unresolved
<1>3. \A s : ActiveConnects(s)' = ActiveConnects(s)
  BY DEF ActiveConnects, Resolved, KindOf
<1>4. \A s : /\ (Refuses(s) <=> Refuses(s)') /\ (Idle(s) <=> Idle(s)')
            /\ Runs(s)' = Runs(s)
  BY <1>2, <1>3 DEF Refuses, Idle, Runs
<1>5. \A s : Fed(s)' = Fed(s)
  BY <1>4 DEF Fed
<1>6. \A s : Executes(s) <=> Executes(s)'
  BY <1>2, <1>4 DEF Executes
<1>7. \A s : ReadsAll(s) <=> ReadsAll(s)'
  BY <1>2, <1>4, <1>6 DEF ReadsAll
<1>8. \A s : AllReadBehind(s) <=> AllReadBehind(s)'
  BY <1>7 DEF AllReadBehind
<1> QED
  BY <1>1, <1>2, <1>3, <1>4, <1>5, <1>6, <1>7, <1>8

\* Steps that are none of the signal goroutine's or of the way back.
LEMMA QuietStep ==
  ASSUME ShellTypes, KillInv, Moves, UNCHANGED <<mode, done, killVars>>
  PROVE  ShellTypes' /\ KillInv'
<1>1. ShellTypes'
  BY LineStays DEF ShellTypes, ShellTypeOK, LineTyped, Untyped, Moves, Row, lineVars, killVars
<1>2. \A l : Took(l)' = Took(l)
  BY DEF Took, Moves, lineVars, killVars
<1>3. KillInv'
  BY <1>2 DEF KillInv, Moves, lineVars, killVars
<1> QED
  BY <1>1, <1>3

LEMMA NothingMoves ==
  ASSUME ShellTypes, UNCHANGED <<lineVars, stage, proc, feed, todo>>, interrupted => interrupted'
  PROVE  Moves
BY KeepsStages, KeepsCommands, KeepsFeeds DEF Moves, ShellTypes, ShellTypeOK, Row

LEMMA InterruptStep ==
  ASSUME ShellTypes, KillInv, NEW l \in lanes, Interrupt(l)
  PROVE  Moves /\ ShellTypes' /\ KillInv' /\ mode' = mode
<1>1. /\ UNCHANGED <<lineVars, mode, done, stage, proc, feed, todo, killed>>
      /\ ~interrupted /\ interrupted' /\ sending' = [sending EXCEPT ![l] = Len(line)]
      /\ mode = "running"
  BY DEF Interrupt, Still
<1>2. Moves
  BY <1>1, NothingMoves
<1>3. sending' \in [lanes -> 0..Len(line)] /\ inTime' \subseteq LineStages
  <2>1. Busy(l) \subseteq LineStages
    BY DEF Busy, LineStages
  <2> QED
    BY <1>1, <2>1 DEF Interrupt, ShellTypes, ShellTypeOK, LineTyped
<1>4. ShellTypes'
  BY <1>1, <1>2, <1>3, LineStays DEF ShellTypes, ShellTypeOK, LineTyped, Untyped, Moves, Row, lineVars
<1>5. KillInv'
  <2> SUFFICES ASSUME NEW m \in lanes, sending'[m] > 0
               PROVE  sending'[m] + Cardinality(Took(m)') = Len(line)
    BY <1>1 DEF KillInv, lineVars
  <2>1. Took(m)' = {}
    BY <1>1 DEF Took, KillInv, lineVars
  <2>2. m = l
    BY <1>1 DEF KillInv, ShellTypes, ShellTypeOK
  <2>3. sending'[m] = Len(line) /\ Len(line) \in Nat
    BY <1>1, <2>2 DEF ShellTypes, ShellTypeOK, LineTyped
  <2>4. Cardinality(Took(m)') = 0
    BY <2>1, FS_EmptySet
  <2> QED
    BY <2>3, <2>4
<1> QED
  BY <1>1, <1>2, <1>4, <1>5

LEMMA ReturnStep ==
  ASSUME ShellTypes, KillInv, (\E l \in lanes : Return(l)) \/ Back
  PROVE  Moves /\ ShellTypes' /\ KillInv'
<1>1. /\ UNCHANGED <<lineVars, stage, proc, feed, todo, killVars>>
      /\ mode = "running" /\ mode' \in {"running", "back", "crashed"} /\ done' \subseteq lanes
  BY DEF Return, Back, ShellTypes, ShellTypeOK
<1>2. Moves
  BY <1>1, NothingMoves DEF killVars
<1>3. ShellTypes'
  BY <1>1, <1>2, LineStays DEF ShellTypes, ShellTypeOK, LineTyped, Untyped, Moves, Row, lineVars, killVars
<1>4. \A l : Took(l)' = Took(l)
  BY <1>1 DEF Took, lineVars, killVars
<1>5. KillInv'
  BY <1>1, <1>4 DEF KillInv, lineVars, killVars
<1> QED
  BY <1>2, <1>3, <1>5

\* The steps of a line that is running.
LEMMA RunningStep ==
  ASSUME ShellTypes, LaunchInv, KillInv,
         (\E l \in lanes : Interrupt(l)) \/ Work
  PROVE  Moves /\ ShellTypes' /\ KillInv'
<1> USE DEF Still
<1>1. ASSUME NEW s \in LineStages,
             EndEarly(s) \/ Tell(s) \/ Shut(s) \/ Finish(s) \/ LocalEnds(s)
      PROVE  Moves /\ UNCHANGED <<mode, done, killVars>>
  BY <1>1, StagesMove DEF EndEarly, Tell, Shut, Finish, LocalEnds
<1>2. ASSUME NEW s \in LineStages, Launch(s) \/ FeedEnds(s)
      PROVE  Moves /\ UNCHANGED <<mode, done, killVars>>
  BY <1>2, LaunchMoves, FeedEndMoves DEF Launch, FeedEnds
<1>3. ASSUME NEW s \in LineStages, NEW p \in Runs(s),
             Prints(s, p) \/ Filter(s, p) \/ CommandExits(s, p) \/ CopyFails(s, p) \/ Push(s, p)
      PROVE  Moves /\ UNCHANGED <<mode, done, killVars>>
  BY <1>3, CommandsMove DEF Prints, Filter, CommandExits, CopyFails, Push
<1>4. ASSUME NEW s \in LineStages, NEW p \in Runs(s), Copy(s, p)
      PROVE  Moves /\ UNCHANGED <<mode, done, killVars>>
  BY <1>4, CopyMoves DEF Copy
<1> QED
  BY <1>1, <1>2, <1>3, <1>4, KillMoves, InterruptStep, ReturnStep, QuietStep DEF Work

\* A line is typed once, and is stopped before anything happens to it.
LEMMA TypeStep ==
  ASSUME ShellTypes, NEW parts \in Typed, Type(parts)
  PROVE  /\ ShellTypes' /\ LaunchInv' /\ KillInv' /\ mode' = "running" /\ done' = {} /\ ~interrupted'
         /\ inTime' = {}
         /\ line' = Normalized(JoinPipeLine(parts))
         /\ lanes' = IF HasPerHostLocalCommand(JoinPipeLine(parts))
                     THEN ScopedConnects(JoinPipeLine(parts)) ELSE {All}
         /\ stage' = [s \in LineStages' |-> "start"]
         /\ proc' = [sp \in LineStages' \X Procs |-> Off]
         /\ \A s \in LineStages' : s[2] > 1 => feed'[s] = "open"
<1> DEFINE joined == JoinPipeLine(parts)
           first(s) == s[2] = 1 /\ Len(joined) > 1
<1>1. /\ mode = "prompt" /\ mode' = "running" /\ line' = Normalized(joined)
      /\ lanes' = IF HasPerHostLocalCommand(joined) THEN ScopedConnects(joined) ELSE {All}
      /\ feed' = [s \in LineStages' |-> IF first(s) THEN "ended" ELSE "open"]
      /\ stage' = [s \in LineStages' |-> "start"]
      /\ proc' = [sp \in LineStages' \X Procs |-> Off]
      /\ todo' = [s \in LineStages' |-> {}]
      /\ sending' = [l \in lanes' |-> 0]
      /\ UNCHANGED <<connected, dead, done, interrupted, killed, inTime>>
  BY DEF Type
<1> HIDE DEF joined
<1>2. done = {} /\ ~interrupted /\ killed = {} /\ inTime = {}
  BY <1>1 DEF ShellTypes, Untyped
<1>3. LineTyped'
  BY <1>1, TypedLines DEF LineTyped, joined
<1>4. Off \in Row
  BY SizeAssumption DEF Off, Row
<1>5. lanes' \subseteq Hosts \cup {All}
  BY <1>1 DEF ScopedConnects
<1>6. sending' \in [lanes' -> 0..Len(line')]
  BY <1>1, <1>3 DEF LineTyped
<1>7. ShellTypeOK'
  BY <1>1, <1>2, <1>4, <1>5, <1>6 DEF ShellTypes, ShellTypeOK, Row
<1>8. ShellTypes'
  BY <1>1, <1>3, <1>7 DEF ShellTypes, Untyped
<1>9. LaunchInv'
  <2>1. Off.run = "off" /\ Off.out = 0
    BY DEF Off
  <2> QED
    BY <1>1, <2>1 DEF LaunchInv
<1>10. KillInv'
  BY <1>1, <1>2 DEF KillInv
<1>11. \A s \in LineStages' : s[2] > 1 => feed'[s] = "open"
  BY <1>1, <1>3 DEF LineStages, LineTyped
<1> QED
  BY <1>1, <1>2, <1>8, <1>9, <1>10, <1>11 DEF joined

LEMMA LaunchKept ==
  ASSUME ShellTypes, LaunchInv, Moves
  PROVE  LaunchInv'
<1> SUFFICES ASSUME NEW s \in LineStages
             PROVE  /\ \A h \in todo'[s] : h \in Runs(s) \cap Hosts /\ proc'[<<s, h>>].run # "off"
                    /\ \A p \in Procs :
                         /\ proc'[<<s, p>>].run = "off" => proc'[<<s, p>>].out = 0
                         /\ proc'[<<s, p>>].run # "off" => p \in Runs(s) /\ stage'[s] # "start"
                         /\ p \in Runs(s) /\ (Executes(s) \/ stage'[s] = "run") /\ stage'[s] # "start"
                              => proc'[<<s, p>>].run # "off"
  BY LineStays DEF LaunchInv, Moves
<1>1. StageMoves(s) /\ \A p \in Procs : CommandMoves(s, p)
  BY DEF Moves
<1>2. \A p \in Procs :
        /\ proc[<<s, p>>].run = "off" => proc[<<s, p>>].out = 0
        /\ proc[<<s, p>>].run # "off" => p \in Runs(s) /\ stage[s] # "start"
        /\ p \in Runs(s) /\ (Executes(s) \/ stage[s] = "run") /\ stage[s] # "start"
              => proc[<<s, p>>].run # "off"
  BY DEF LaunchInv
<1>3. [Off EXCEPT !.run = "running"].run = "running"
  BY DEF Off
<1>4. stage[s] # "start" => stage'[s] # "start"
  BY <1>1 DEF StageMoves
<1>5. ASSUME NEW p \in Procs
      PROVE  /\ proc'[<<s, p>>].run = "off" => proc'[<<s, p>>].out = 0
             /\ proc'[<<s, p>>].run # "off" => p \in Runs(s) /\ stage'[s] # "start"
             /\ proc[<<s, p>>].run # "off" => proc'[<<s, p>>].run # "off"
  BY <1>1, <1>2, <1>3, <1>4 DEF CommandMoves
<1>6. ASSUME NEW p \in Runs(s), Executes(s) \/ stage'[s] = "run", stage'[s] # "start", p \in Procs
      PROVE  proc'[<<s, p>>].run # "off"
  BY <1>1, <1>2, <1>5, <1>6 DEF StageMoves
<1>7. ASSUME NEW h \in todo'[s]
      PROVE  h \in Runs(s) \cap Hosts /\ proc'[<<s, h>>].run # "off"
  <2>1. CASE h \in todo[s]
    BY <1>5, <2>1 DEF LaunchInv, Procs
  <2>2. CASE stage[s] = "run" /\ IsRemote(s) /\ h \in Fed(s)
    <3>1. h \in Runs(s) /\ h \in Hosts
      BY <2>2 DEF Fed, Runs, ActiveConnects, ShellTypes, ShellTypeOK
    <3>2. h \in Procs
      BY <3>1 DEF Procs
    <3> QED
      BY <1>2, <1>5, <2>2, <3>1, <3>2
  <2> QED
    BY <2>1, <2>2 DEF Moves
<1> QED
  BY <1>5, <1>6, <1>7

-----------------------------------------------------------------------------
(* Nothing is cut *)

\* A set of numbers between two others that holds the successor of each does
\* not hold the lower one.
LEMMA NoEndlessChain ==
  ASSUME NEW i \in Int, NEW n \in Int, NEW S \in SUBSET (i..n), i \in S,
         \A j \in S : j + 1 \in S
  PROVE  FALSE
<1> DEFINE f == [j \in S |-> j + 1]
<1>1. IsFiniteSet(i..n)
  BY FS_Interval
<1>2. IsFiniteSet(S)
  BY <1>1, FS_Subset
<1>3. f \in Injection(S, S)
  BY DEF Injection, IsInjective
<1> HIDE DEF f
<1>4. f \in Surjection(S, S)
  BY <1>2, <1>3, FS_Injection
<1>5. PICK j \in S : f[j] = i
  BY <1>4 DEF Surjection
<1> QED
  BY <1>5 DEF f

\* Some host is the first of those that PushInput serves.
LEMMA SomeFirst ==
  ASSUME NEW hs \in SUBSET Hosts, hs # {}
  PROVE  \E h \in hs : IsFirst(h, hs)
<1> SUFFICES ASSUME \A h \in hs : ~IsFirst(h, hs)
             PROVE  FALSE
  OBVIOUS
<1>1. PICK n \in Nat : DOMAIN Connects = 1..n
  BY ConnectsAssumption
<1>2. \A h \in Hosts : Position(h) \in 1..n
  BY <1>1 DEF Hosts, ToSet, Position
<1>3. PICK last \in hs : TRUE
  OBVIOUS
<1> DEFINE U == {u \in 0..n : \A g \in hs : Position(g) > u}
<1>4. 0 \in U
  BY <1>2
<1>5. ASSUME NEW u \in U
      PROVE  u + 1 \in U
  <2>1. u \in 0..n /\ (\A g \in hs : Position(g) \in 1..n /\ Position(g) > u)
    BY <1>2
  <2>2. u + 1 \in 0..n
    BY <1>3, <2>1
  <2>3. ASSUME NEW g \in hs
        PROVE  Position(g) > u + 1
    <3>1. PICK k \in hs : Position(k) < Position(g)
      BY <2>1 DEF IsFirst
    <3> QED
      BY <2>1, <3>1
  <2> QED
    BY <2>2, <2>3
<1> HIDE DEF U
<1>6. U \in SUBSET (0..n) /\ \A u \in U : u + 1 \in U
  BY <1>5 DEF U
<1>7. 0 \in Int /\ n \in Int
  OBVIOUS
<1> QED
  BY ONLY <1>4, <1>6, <1>7, NoEndlessChain

Past == {"told", "shut", "done"}

\* While the stages behind s read everything and nobody interrupts: they see
\* the end of their input only once s has closed its output, they go on until
\* then, s writes until it closes its output itself, and by the time it tells
\* all it printed has gone on.
CutInv ==
  ~interrupted =>
    \A s \in LineStages : AllReadBehind(s) =>
      /\ \A t \in LineStages : t[1] = s[1] /\ t[2] > s[2] /\ feed[t] = "ended" => OutClosed(s)
      /\ ReadsAll(s) /\ (stage[s] \in Past \/ \E p \in Runs(s) : proc[<<s, p>>].run = "exited")
           => feed[s] = "ended"
      /\ \A p \in Procs : ~proc[<<s, p>>].copied => ~Last_(s) /\ OutClosed(s)
      /\ Quick /\ stage[s] \in Past =>
           \A p \in Procs : proc[<<s, p>>].run # "running" /\ proc[<<s, p>>].out = 0

LEMMA ReadersBehind ==
  ASSUME LineTyped, NEW s \in LineStages, AllReadBehind(s),
         NEW t \in LineStages, t[1] = s[1], t[2] > s[2]
  PROVE  ReadsAll(t) /\ AllReadBehind(t) /\ Executes(t) /\ Runs(t) # {} /\ ProgOf(t) = "filter"
<1>1. /\ s[2] \in 1..Len(line) /\ t[2] \in 1..Len(line) /\ Len(line) \in Nat
      /\ t = <<s[1], t[2]>> /\ t[2] \in (s[2] + 1)..Len(line)
  BY StageParts DEF LineTyped
<1>2. ReadsAll(t)
  BY <1>1 DEF AllReadBehind
<1>3. \A i \in (t[2] + 1)..Len(line) : i \in (s[2] + 1)..Len(line)
  BY <1>1
<1>4. AllReadBehind(t)
  BY <1>1, <1>3 DEF AllReadBehind
<1> QED
  BY <1>2, <1>4 DEF ReadsAll

\* A stage behind one that still writes is not over before it.
LEMMA BehindWrites ==
  ASSUME ShellTypes, CutInv, ~interrupted,
         NEW s \in LineStages, AllReadBehind(s), ~OutClosed(s),
         NEW t \in LineStages, t[1] = s[1], t[2] > s[2]
  PROVE  /\ feed[t] = "open" /\ stage[t] \notin Past /\ ~OutClosed(t) /\ ~InClosed(t)
         /\ \A p \in Runs(t) : proc[<<t, p>>].run # "exited"
<1>1. ReadsAll(t) /\ AllReadBehind(t)
  BY ReadersBehind DEF ShellTypes
<1>2. feed[t] = "open"
  BY DEF CutInv, ShellTypes, ShellTypeOK
<1>3. stage[t] \notin Past /\ \A p \in Runs(t) : proc[<<t, p>>].run # "exited"
  BY <1>1, <1>2 DEF CutInv
<1> QED
  BY <1>2, <1>3 DEF OutClosed, InClosed, Past

LEMMA CutOffCloses ==
  ASSUME ShellTypes, CutInv, ~interrupted, NEW s \in LineStages, AllReadBehind(s), CutOff(s)
  PROVE  ~Last_(s) /\ OutClosed(s)
<1>1. ~Last_(s) /\ Following(s) \in LineStages
  BY StageParts DEF CutOff, ShellTypes
<1>2. Following(s)[1] = s[1] /\ Following(s)[2] > s[2]
  <2>1. s[2] \in 1..Len(line) /\ Len(line) \in Nat
    BY StageParts DEF ShellTypes, LineTyped
  <2> QED
    BY <2>1 DEF Following
<1> QED
  BY <1>1, <1>2, BehindWrites DEF CutOff

\* When nothing moves, what a stage with only readers behind it printed has
\* gone on: otherwise the next stage would have to have its hands full as well,
\* and so on without end.
LEMMA Drained ==
  ASSUME ShellTypes, LaunchInv, CutInv, ~interrupted, ~Moving,
         NEW s \in LineStages, AllReadBehind(s), stage[s] = "run"
  PROVE  \A p \in Procs : proc[<<s, p>>].out = 0
<1> SUFFICES ASSUME NEW p \in Procs, proc[<<s, p>>].out # 0
             PROVE  FALSE
  OBVIOUS
<1> DEFINE l == s[1]
           S == {j \in s[2]..Len(line) : \E q \in Procs : proc[<<<<l, j>>, q>>].out # 0}
<1>1. /\ s = <<l, s[2]>> /\ l \in lanes /\ s[2] \in 1..Len(line) /\ Len(line) \in Nat
      /\ ~OutClosed(s) /\ Window \in Nat /\ Window > 0
  BY StageParts, SizeAssumption DEF ShellTypes, LineTyped, OutClosed
<1>2. s[2] \in S
  BY <1>1
<1>3. ASSUME NEW j \in S
      PROVE  j + 1 \in S
  <2> DEFINE t == <<l, j>>
             u == Following(t)
  <2>1. PICK q \in Procs : proc[<<t, q>>].out # 0
    OBVIOUS
  <2>2. t \in LineStages /\ t[1] = s[1] /\ t[2] = j /\ j \in s[2]..Len(line)
    BY <1>1 DEF LineStages
  <2>3. t = s \/ t[2] > s[2]
    BY <1>1, <2>2
  <2>4. /\ stage[t] = "run" /\ ~OutClosed(t) /\ AllReadBehind(t)
    <3>1. CASE t = s
      BY <1>1, <3>1
    <3>2. CASE t[2] > s[2]
      <4>1. stage[t] \notin Past /\ ~OutClosed(t) /\ AllReadBehind(t)
        BY <1>1, <2>2, <3>2, BehindWrites, ReadersBehind DEF ShellTypes
      <4>2. stage[t] # "start"
        BY <2>2 DEF Moving
      <4> QED
        BY <2>2, <4>1, <4>2 DEF Past, ShellTypes, ShellTypeOK
    <3> QED
      BY <2>3, <3>1, <3>2
  <2>5. /\ q \in Runs(t) /\ proc[<<t, q>>].out > 0 /\ proc[<<t, q>>].copied
    <3>1. proc[<<t, q>>].out \in 0..Window
      BY <2>1, <2>2, RowsAre
    <3>2. proc[<<t, q>>].copied
      BY <2>2, <2>4 DEF CutInv
    <3> QED
      BY <1>1, <2>1, <2>2, <3>1, <3>2 DEF LaunchInv
  <2>6. ~CanCopy(t, q)
    BY <2>2, <2>5 DEF Moving
  <2>7. ~Last_(t)
    BY <2>4, <2>5, <2>6 DEF CanCopy
  <2>8. u \in LineStages /\ u = <<l, j + 1>> /\ u[1] = s[1] /\ u[2] > s[2]
    BY <1>1, <2>2, <2>7, StageParts DEF ShellTypes, Following
  <2>9. /\ feed[u] = "open" /\ stage[u] = "run" /\ ProgOf(u) = "filter" /\ Executes(u)
        /\ \A h \in Runs(u) : proc[<<u, h>>].run = "running"
    <3>1. /\ feed[u] = "open" /\ stage[u] \notin Past
          /\ \A h \in Runs(u) : proc[<<u, h>>].run # "exited"
      BY <1>1, <2>8, BehindWrites
    <3>2. stage[u] # "start"
      BY <2>8 DEF Moving
    <3>3. stage[u] = "run"
      BY <2>8, <3>1, <3>2 DEF Past, ShellTypes, ShellTypeOK
    <3>4. Executes(u) /\ ProgOf(u) = "filter"
      BY <1>1, <2>8, ReadersBehind DEF ShellTypes
    <3>5. ASSUME NEW h \in Runs(u)
          PROVE  proc[<<u, h>>].run = "running"
      <4>1. h \in Procs
        BY RunsAreProcs DEF ShellTypes, ShellTypeOK
      <4> QED
        BY <2>8, <3>1, <3>3, <4>1, RowsAre DEF LaunchInv
    <3> QED
      BY <3>1, <3>3, <3>4, <3>5
  <2>10. PICK h \in Runs(u) : proc[<<u, h>>].in >= Window
    <3>1. CASE IsRemote(u)
      <4>1. todo[u] # {}
        BY <2>4, <2>5, <2>6, <2>7, <2>9, <3>1 DEF CanCopy
      <4>2. PICK h \in todo[u] : IsFirst(h, todo[u])
        BY <2>8, <4>1, SomeFirst DEF ShellTypes, ShellTypeOK
      <4>3. h \in Runs(u) /\ h \in Procs
        BY <2>8, <4>2 DEF LaunchInv, Procs
      <4>4. ~CanPush(u, h)
        BY <2>8, <4>3 DEF Moving
      <4>5. ~(proc[<<u, h>>].in < Window)
        BY <4>2, <4>4 DEF CanPush
      <4>6. proc[<<u, h>>].in \in 0..Window
        BY <2>8, <4>3, RowsAre
      <4> QED
        BY <1>1, <4>3, <4>5, <4>6
    <3>2. CASE ~IsRemote(u)
      <4>1. KindOf(u) = "local" /\ Here \in Runs(u) /\ Here \in Procs
        BY <2>9, <3>2 DEF Executes, Runs, Procs
      <4>2. ~(proc[<<u, Here>>].in < Window)
        BY <2>4, <2>5, <2>6, <2>7, <2>9, <3>2, <4>1 DEF CanCopy
      <4>3. proc[<<u, Here>>].in \in 0..Window
        BY <2>8, <4>1, RowsAre
      <4> QED
        BY <1>1, <4>1, <4>2, <4>3
    <3> QED
      BY <3>1, <3>2
  <2>11. h \in Procs /\ proc[<<u, h>>].in \in 0..Window /\ proc[<<u, h>>].out \in 0..Window
    BY <2>8, RunsAreProcs, RowsAre DEF ShellTypes, ShellTypeOK
  <2>12. ~CanFilter(u, h)
    BY <2>8 DEF Moving
  <2>13. ~(proc[<<u, h>>].out < Window)
    BY <1>1, <2>9, <2>10, <2>11, <2>12 DEF CanFilter
  <2>14. proc[<<u, h>>].out # 0
    BY <1>1, <2>11, <2>13
  <2>15. j + 1 \in s[2]..Len(line)
    BY <1>1, <2>2, <2>7 DEF Last_
  <2> QED
    BY <2>8, <2>11, <2>14, <2>15
<1>4. S \in SUBSET (s[2]..Len(line)) /\ (\A j \in S : j + 1 \in S) /\ s[2] \in Int /\ Len(line) \in Int
  BY <1>1, <1>3
<1> QED
  BY ONLY <1>2, <1>4, NoEndlessChain

LEMMA CutInvKept ==
  ASSUME ShellTypes, LaunchInv, CutInv, Moves, LaunchInv', ShellTypes'
  PROVE  CutInv'
<1> SUFFICES ASSUME ~interrupted', NEW s \in LineStages, AllReadBehind(s)
             PROVE  /\ \A t \in LineStages : t[1] = s[1] /\ t[2] > s[2] /\ feed'[t] = "ended" => OutClosed(s)'
                    /\ ReadsAll(s) /\ (stage'[s] \in Past \/ \E p \in Runs(s) : proc'[<<s, p>>].run = "exited")
                         => feed'[s] = "ended"
                    /\ \A p \in Procs : ~proc'[<<s, p>>].copied => ~Last_(s) /\ OutClosed(s)'
                    /\ Quick /\ stage'[s] \in Past =>
                         \A p \in Procs : proc'[<<s, p>>].run # "running" /\ proc'[<<s, p>>].out = 0
  <2>1. Moves => UNCHANGED lineVars
    BY DEF Moves
  <2> QED
    BY <2>1, LineStays DEF CutInv
<1>1. /\ ~interrupted
      /\ \A t \in LineStages : StageMoves(t) /\ FeedMoves(t)
      /\ \A t \in LineStages : \A p \in Procs : CommandMoves(t, p)
      /\ \A t \in LineStages : stage[t] \in {"start", "run", "told", "shut", "done"} /\ feed[t] \in {"open", "ended"}
  BY DEF Moves, ShellTypes, ShellTypeOK
<1>2. OutClosed(s) => OutClosed(s)' /\ stage[s] \in Past
  BY <1>1, LineStays DEF OutClosed, StageMoves, Past, Moves
<1>3. [Off EXCEPT !.run = "running"].copied /\ [Off EXCEPT !.run = "running"].run = "running"
  BY DEF Off
<1>4. ASSUME NEW p \in Procs
      PROVE  /\ proc[<<s, p>>].out \in Nat /\ proc'[<<s, p>>].out \in Nat
             /\ proc[<<s, p>>].run \in {"off", "running", "exited"}
  <2>1. proc'[<<s, p>>].out \in 0..Window /\ Window \in Nat
    BY SizeAssumption DEF Moves, Row
  <2> QED
    BY <2>1, RowsAre
<1>5. CutOff(s) => ~Last_(s) /\ OutClosed(s)
  BY <1>1, CutOffCloses
<1>6. ASSUME NEW t \in LineStages, t[1] = s[1], t[2] > s[2], feed'[t] = "ended"
      PROVE  OutClosed(s)'
  <2>1. SUFFICES ASSUME ~OutClosed(s)
                 PROVE  FALSE
    BY <1>2
  <2>2. feed[t] = "open" /\ (\A p \in Runs(t) : proc[<<t, p>>].run # "exited")
    BY <1>1, <1>6, <2>1, BehindWrites
  <2>3. CASE t[2] > 1 /\ OutClosed(Prev(t))
    <3>1. /\ t = <<s[1], t[2]>> /\ t[2] \in 1..Len(line) /\ s[2] \in 1..Len(line) /\ s[1] \in lanes
          /\ s = <<s[1], s[2]>> /\ Len(line) \in Nat
      BY <1>6, StageParts DEF ShellTypes, LineTyped
    <3>2. Prev(t) = <<s[1], t[2] - 1>> /\ Prev(t) \in LineStages /\ (Prev(t) = s \/ Prev(t)[2] > s[2])
      BY <1>6, <2>3, <3>1 DEF Prev, LineStages
    <3>3. Prev(t)[1] = s[1]
      BY <3>2
    <3> QED
      BY <1>1, <2>1, <2>3, <3>2, <3>3, BehindWrites
  <2>4. CASE ~IsRemote(t) /\ proc[<<t, Here>>].run = "exited"
    BY <2>2, <2>4 DEF Runs
  <2> QED
    BY <1>1, <1>6, <2>2, <2>3, <2>4 DEF FeedMoves
<1>7. ASSUME ReadsAll(s), stage'[s] \in Past \/ \E p \in Runs(s) : proc'[<<s, p>>].run = "exited"
      PROVE  feed'[s] = "ended"
  <2>1. SUFFICES ASSUME feed[s] # "ended"
                 PROVE  FALSE
    BY <1>1 DEF FeedMoves
  <2>2. stage[s] \notin Past /\ \A p \in Runs(s) : proc[<<s, p>>].run # "exited"
    BY <1>1, <1>7, <2>1 DEF CutInv
  <2>3. Executes(s) /\ Runs(s) # {} /\ ProgOf(s) = "filter"
    BY <1>7 DEF ReadsAll
  <2>4. CASE stage'[s] \in Past
    BY <1>1, <2>2, <2>3, <2>4 DEF StageMoves, Past, Returned, Runs
  <2>5. ASSUME NEW p \in Runs(s), proc'[<<s, p>>].run = "exited"
        PROVE  FALSE
    <3>1. p \in Procs
      BY RunsAreProcs DEF ShellTypes, ShellTypeOK
    <3>2. ~CutOff(s)
      BY <1>2, <1>5, <2>2
    <3> QED
      BY <1>1, <1>3, <2>1, <2>2, <2>3, <2>5, <3>1, <3>2 DEF CommandMoves
  <2> QED
    BY <1>7, <2>4, <2>5
<1>8. ASSUME NEW p \in Procs, ~proc'[<<s, p>>].copied
      PROVE  ~Last_(s) /\ OutClosed(s)'
  <2>1. CASE ~proc[<<s, p>>].copied
    BY <1>1, <1>2, <2>1 DEF CutInv
  <2>2. CASE CutOff(s)
    BY <1>2, <1>5, <2>2
  <2> QED
    BY <1>1, <1>3, <1>8, <2>1, <2>2 DEF CommandMoves
<1>9. ASSUME Quick, stage'[s] \in Past, NEW p \in Procs
      PROVE  proc'[<<s, p>>].run # "running" /\ proc'[<<s, p>>].out = 0
  <2>1. CASE stage[s] \in Past
    <3>1. proc[<<s, p>>].run # "running" /\ proc[<<s, p>>].out = 0
      BY <1>1, <1>9, <2>1 DEF CutInv
    <3>2. \/ proc'[<<s, p>>] = proc[<<s, p>>]
          \/ proc'[<<s, p>>].run = proc[<<s, p>>].run /\ proc'[<<s, p>>].out <= proc[<<s, p>>].out
      BY <1>1, <2>1, <3>1 DEF CommandMoves, Past
    <3> QED
      BY <1>4, <3>1, <3>2
  <2>2. CASE stage[s] \notin Past
    <3>1. /\ stage[s] \in {"start", "run"} /\ stage'[s] # stage[s] /\ stage'[s] # "run"
          /\ proc'[<<s, p>>] = proc[<<s, p>>]
      BY <1>1, <1>9, <2>2 DEF CommandMoves, Past
    <3>2. CASE stage[s] = "start"
      BY <3>1, <3>2 DEF LaunchInv
    <3>3. CASE stage[s] = "run"
      <4>1. p \in Runs(s) => proc[<<s, p>>].run = "exited"
        BY <1>1, <3>1, <3>3 DEF StageMoves, Returned, Runs
      <4>2. p \notin Runs(s) => proc[<<s, p>>].run = "off" /\ proc[<<s, p>>].out = 0
        BY DEF LaunchInv
      <4>3. CASE IsRemote(s)
        <5>1. ~Moving
          BY <1>1, <1>9, <3>1, <3>3, <4>3 DEF StageMoves
        <5> QED
          BY <1>1, <3>1, <3>3, <4>1, <4>2, <5>1, Drained
      <4>4. CASE ~IsRemote(s)
        <5>1. Returned(s, Here) /\ Runs(s) = {Here}
          BY <1>1, <3>1, <3>3, <4>4 DEF StageMoves, Runs
        <5>2. proc[<<s, Here>>].out = 0
          BY <5>1, HereIsNoHost DEF Returned
        <5> QED
          BY <3>1, <4>1, <4>2, <5>1, <5>2
      <4> QED
        BY <4>3, <4>4
    <3> QED
      BY <3>1, <3>2, <3>3
  <2> QED
    BY <2>1, <2>2
<1> QED
  BY <1>6, <1>7, <1>8, <1>9

-----------------------------------------------------------------------------
(* What the invariants give *)

\* A line that is run once per host names the same single host in all its
\* targeted commands, if it has any.
OneTarget ==
  \A parts \in Typed :
    LET l == JoinPipeLine(parts)
        targeted == {i \in DOMAIN l : l[i].kind = "targeted"}
    IN  HasPerHostLocalCommand(l) =>
          \A i, j \in targeted : l[i].at = l[j].at /\ \E h : l[i].at = {h}

\* The lanes serve the targets, and a lane that is done has started everything.
LanesInv ==
  /\ mode = "back" => done = lanes
  /\ \A l \in done : \A i \in 1..Len(line) : stage[<<l, i>>] # "start"
  /\ OneTarget =>
       \/ lanes = {All}
       \/ /\ lanes \subseteq Hosts
          /\ \A i \in DOMAIN line : line[i].kind = "targeted" /\ line[i].at \subseteq Hosts
                                      => \E h \in lanes : line[i].at = {h}

\* While every stage takes its kill: the stages that still ran a command at
\* Ctrl-C are remote ones of the lane whose kills are being sent, and by the
\* time one of them tells, no kill is left to send.
TimeInv ==
  /\ ~interrupted => inTime = {}
  /\ \A s \in inTime : IsRemote(s) /\ \A m \in lanes : sending[m] > 0 => m = s[1]
  /\ Quick /\ (\A s \in LineStages : Executes(s)) =>
       \A s \in inTime : stage[s] \in Past => sending[s[1]] = 0

ShellInv ==
  /\ ShellTypes /\ LaunchInv /\ KillInv /\ CutInv
  /\ TimeInv /\ SurvivesInterrupt /\ LanesInv

LEMMA ShellInvInit == ShellInit => ShellInv
<1> SUFFICES ASSUME ShellInit
             PROVE  ShellInv
  OBVIOUS
<1>1. /\ mode = "prompt" /\ line = <<>> /\ lanes = {} /\ done = {} /\ ~interrupted
      /\ killed = {} /\ inTime = {}
      /\ stage = <<>> /\ proc = <<>> /\ feed = <<>> /\ todo = <<>> /\ sending = <<>>
      /\ connected \subseteq Hosts /\ dead \subseteq connected
  BY DEF ShellInit
<1>2. LineStages = {} /\ LineStages \X Procs = {}
  BY <1>1 DEF LineStages
<1>3. LineTyped
  BY <1>1 DEF LineTyped
<1>4. ShellTypes
  BY <1>1, <1>2, <1>3 DEF ShellTypes, ShellTypeOK, Untyped
<1> QED
  BY <1>1, <1>2, <1>4 DEF ShellInv, LaunchInv, KillInv, CutInv, TimeInv, SurvivesInterrupt, LanesInv

LEMMA LanesOfType ==
  ASSUME OneTarget, NEW parts \in Typed
  PROVE  LET joined == JoinPipeLine(parts)
             typed == Normalized(joined)
             ls == IF HasPerHostLocalCommand(joined) THEN ScopedConnects(joined) ELSE {All}
         IN  \/ ls = {All}
             \/ /\ ls \subseteq Hosts
                /\ \A i \in DOMAIN typed : typed[i].kind = "targeted" /\ typed[i].at \subseteq Hosts
                                           => \E h \in ls : typed[i].at = {h}
<1> DEFINE joined == JoinPipeLine(parts)
           typed == Normalized(joined)
           ls == ScopedConnects(joined)
<1>1. \A i \in DOMAIN joined : DOMAIN joined[i] = {"kind", "prog", "at"}
  BY TypedAssumption
<1>2. HasPerHostLocalCommand(joined) =>
        \A i, j \in {k \in DOMAIN joined : joined[k].kind = "targeted"} :
          joined[i].at = joined[j].at /\ \E h : joined[i].at = {h}
  BY DEF OneTarget
<1> HIDE DEF joined
<1>3. SUFFICES ASSUME HasPerHostLocalCommand(joined)
               PROVE  /\ ls \subseteq Hosts
                      /\ \A i \in DOMAIN typed : typed[i].kind = "targeted" /\ typed[i].at \subseteq Hosts
                                                 => \E h \in ls : typed[i].at = {h}
  BY DEF joined
<1>4. ls \subseteq Hosts
  BY DEF ScopedConnects
<1>5. ASSUME NEW i \in DOMAIN typed, typed[i].kind = "targeted", typed[i].at \subseteq Hosts
      PROVE  \E h \in ls : typed[i].at = {h}
  <2>1. i \in DOMAIN joined
    BY DEF Normalized
  <2>2. joined[i].kind # "perhost"
    BY <1>1, <1>5, <2>1 DEF Normalized
  <2>3. typed[i] = joined[i]
    BY <2>1, <2>2 DEF Normalized
  <2>4. PICK h : joined[i].at = {h}
    BY <1>2, <1>3, <1>5, <2>1, <2>3
  <2>5. \A j \in DOMAIN joined : joined[j].kind = "targeted" => h \in joined[j].at
    BY <1>2, <1>3, <1>5, <2>1, <2>3, <2>4
  <2>6. h \in ls
    BY <1>5, <2>3, <2>4, <2>5 DEF ScopedConnects
  <2> QED
    BY <2>3, <2>4, <2>6
<1> QED
  BY <1>4, <1>5

LEMMA OnlyReturnGoesBack ==
  ASSUME (\E l \in lanes : Interrupt(l)) \/ Work
  PROVE  UNCHANGED <<mode, done>> \/ (\E l \in lanes : Return(l)) \/ Back
<1> USE DEF Still
<1>1. \A s : EndEarly(s) \/ Launch(s) \/ Tell(s) \/ Shut(s) \/ Finish(s) => UNCHANGED <<mode, done>>
  BY DEF EndEarly, Launch, Tell, Shut, Finish
<1>2. \A s : LocalEnds(s) \/ FeedEnds(s) \/ TakeKill(s) => UNCHANGED <<mode, done>>
  BY DEF LocalEnds, FeedEnds, TakeKill
<1>3. \A s, p : Prints(s, p) \/ Filter(s, p) \/ CommandExits(s, p) => UNCHANGED <<mode, done>>
  BY DEF Prints, Filter, CommandExits
<1>4. \A s, p : Copy(s, p) \/ CopyFails(s, p) \/ Push(s, p) => UNCHANGED <<mode, done>>
  BY DEF Copy, CopyFails, Push
<1>5. \A l : Interrupt(l) => UNCHANGED <<mode, done>>
  BY DEF Interrupt
<1> QED
  BY <1>1, <1>2, <1>3, <1>4, <1>5 DEF Work

\* Kills are only made by Ctrl-C and only taken by a stage, and the stages that
\* were in time do not change afterwards.
LEMMA KillsOnlyFall ==
  ASSUME Work
  PROVE  inTime' = inTime /\ (sending' = sending \/ \E s \in LineStages : TakeKill(s))
<1> USE DEF killVars
<1>1. \A s : EndEarly(s) \/ Launch(s) \/ Tell(s) \/ Shut(s) \/ Finish(s) \/ LocalEnds(s) \/ FeedEnds(s)
               => UNCHANGED <<sending, inTime>>
  BY DEF EndEarly, Launch, Tell, Shut, Finish, LocalEnds, FeedEnds
<1>2. \A s, p : Prints(s, p) \/ Filter(s, p) \/ CommandExits(s, p) => UNCHANGED <<sending, inTime>>
  BY DEF Prints, Filter, CommandExits
<1>3. \A s, p : Copy(s, p) \/ CopyFails(s, p) \/ Push(s, p) => UNCHANGED <<sending, inTime>>
  BY DEF Copy, CopyFails, Push
<1>4. (\E l \in lanes : Return(l)) \/ Back => UNCHANGED <<sending, inTime>>
  BY DEF Return, Back
<1>5. \A s : TakeKill(s) => inTime' = inTime
  BY DEF TakeKill
<1> QED
  BY <1>1, <1>2, <1>3, <1>4, <1>5 DEF Work

\* When nothing moves and no kill of the lane can be taken, all have been.
LEMMA AllTaken ==
  ASSUME ShellTypes, KillInv, \A s \in LineStages : Executes(s),
         ~Moving, NEW l \in lanes, ~Killing(l)
  PROVE  sending[l] = 0
<1> SUFFICES ASSUME sending[l] # 0
             PROVE  FALSE
  OBVIOUS
<1>1. sending[l] \in 0..Len(line) /\ Len(line) \in Nat
  BY DEF ShellTypes, ShellTypeOK, LineTyped
<1>2. sending[l] > 0
  BY <1>1
<1>3. ASSUME NEW i \in 1..Len(line)
      PROVE  <<l, i>> \in killed
  <2>1. <<l, i>> \in LineStages
    BY DEF LineStages
  <2>2. Executes(<<l, i>>) /\ stage[<<l, i>>] # "start" /\ ~CanTake(<<l, i>>)
    BY <1>2, <2>1 DEF Moving, Killing
  <2> QED
    BY <2>2 DEF Executes, CanTake
<1>4. Took(l) = 1..Len(line)
  BY <1>3 DEF Took
<1>5. Cardinality(Took(l)) = Len(line)
  <2>1. PICK n \in Nat : n = Len(line)
    BY <1>1
  <2>2. Cardinality(1..n) = IF 1 > n THEN 0 ELSE n - 1 + 1
    BY FS_Interval
  <2> QED
    BY <1>4, <2>1, <2>2
<1>6. sending[l] + Cardinality(Took(l)) = Len(line)
  BY <1>2 DEF KillInv
<1> QED
  BY <1>1, <1>2, <1>5, <1>6

LEMMA TimeStep ==
  ASSUME ShellInv, (\E l \in lanes : Interrupt(l)) \/ Work
  PROVE  TimeInv'
<1>1. Moves /\ UNCHANGED lineVars /\ (\A t \in LineStages : StageMoves(t))
  BY RunningStep DEF ShellInv, Moves
<1>2. /\ sending \in [lanes -> 0..Len(line)] /\ Len(line) \in Nat /\ inTime \subseteq LineStages
      /\ lanes' = lanes /\ \A s : IsRemote(s) <=> IsRemote(s)'
  BY <1>1, LineStays DEF ShellInv, ShellTypes, ShellTypeOK, LineTyped, lineVars
<1>3. ASSUME NEW l \in lanes, Interrupt(l)
      PROVE  TimeInv'
  <2>1. /\ interrupted' /\ inTime' = Busy(l) /\ sending' = [sending EXCEPT ![l] = Len(line)]
        /\ stage' = stage /\ \A m \in lanes : sending[m] = 0
    BY <1>3 DEF Interrupt, ShellInv, KillInv
  <2>2. \A s \in Busy(l) : IsRemote(s) /\ s[1] = l /\ stage[s] \notin Past
    BY DEF Busy, Past
  <2>3. \A m \in lanes : sending'[m] > 0 => m = l
    BY <1>2, <2>1
  <2> QED
    BY <1>2, <2>1, <2>2, <2>3 DEF TimeInv
<1>4. ASSUME Work
      PROVE  TimeInv'
  <2>1. /\ inTime' = inTime /\ (interrupted => interrupted')
        /\ \A m \in lanes : sending[m] = 0 => sending'[m] = 0
        /\ \A m \in lanes : sending'[m] > 0 => sending[m] > 0
    <3>1. CASE sending' = sending
      BY <1>1, <1>4, <3>1, KillsOnlyFall DEF Moves
    <3>2. ASSUME NEW s \in LineStages, TakeKill(s)
          PROVE  /\ \A m \in lanes : sending[m] = 0 => sending'[m] = 0
                 /\ \A m \in lanes : sending'[m] > 0 => sending[m] > 0
      BY <1>2, <3>2, StageParts DEF TakeKill
    <3> QED
      BY <1>1, <1>4, <3>1, <3>2, KillsOnlyFall DEF Moves
  <2>2. ASSUME Quick, \A s \in LineStages : Executes(s), NEW s \in inTime, stage'[s] \in Past
        PROVE  sending'[s[1]] = 0
    <3>1. s \in LineStages /\ s[1] \in lanes /\ IsRemote(s)
      BY <1>2, StageParts DEF ShellInv, TimeInv
    <3>2. CASE stage[s] \in Past
      BY <2>1, <2>2, <3>1, <3>2 DEF ShellInv, TimeInv
    <3>3. CASE stage[s] \notin Past
      <4>1. ~Moving /\ ~Killing(s[1])
        BY <1>1, <2>2, <3>1, <3>3 DEF StageMoves, Past
      <4>2. sending[s[1]] = 0
        BY <2>2, <3>1, <4>1, AllTaken DEF ShellInv
      <4> QED
        BY <2>1, <3>1, <4>2
    <3> QED
      BY <3>2, <3>3
  <2>3. (\A s \in LineStages : Executes(s))' => \A s \in LineStages : Executes(s)
    BY <1>1, LineStays
  <2>4. ~interrupted' => inTime' = {}
    BY <2>1 DEF ShellInv, TimeInv
  <2>5. \A s \in inTime' : IsRemote(s)' /\ \A m \in lanes' : sending'[m] > 0 => m = s[1]
    BY <1>2, <2>1 DEF ShellInv, TimeInv
  <2> QED
    BY <2>1, <2>2, <2>3, <2>4, <2>5 DEF TimeInv
<1> QED
  BY <1>3, <1>4

\* The lane whose kills are being sent waits for the token of a stage that was
\* in time, and that one tells only when they have been taken.
LEMMA CrashStep ==
  ASSUME ShellInv, (\E l \in lanes : Interrupt(l)) \/ Work
  PROVE  SurvivesInterrupt'
<1>0. UNCHANGED lineVars
  BY RunningStep DEF ShellInv, Moves
<1> SUFFICES ASSUME mode' = "crashed", Quick, inTime' # {}, \A s \in LineStages : Executes(s)
             PROVE  FALSE
  BY <1>0, LineStays DEF SurvivesInterrupt
<1>1. mode = "running" \/ inTime' = inTime
  BY KillsOnlyFall DEF Interrupt
<1>2. mode # "crashed"
  BY <1>1 DEF ShellInv, SurvivesInterrupt
<1>3. PICK l \in lanes : Return(l) /\ sending[l] > 0
  BY <1>2, OnlyReturnGoesBack DEF Return, Back
<1>4. PICK s \in inTime : TRUE
  BY <1>3 DEF Return, killVars
<1>5. s \in LineStages /\ s[1] = l
  BY <1>3 DEF ShellInv, TimeInv, ShellTypes, ShellTypeOK
<1>6. Told(s)
  BY <1>3, <1>5, StageParts DEF Return
<1>7. sending[l] = 0
  BY <1>5, <1>6 DEF ShellInv, TimeInv, Told, Past
<1> QED
  BY <1>3, <1>7

LEMMA LanesStep ==
  ASSUME ShellInv, (\E l \in lanes : Interrupt(l)) \/ Work
  PROVE  LanesInv'
<1>1. Moves
  BY RunningStep DEF ShellInv
<1>2. /\ line' = line /\ lanes' = lanes
      /\ \A s \in LineStages : stage[s] # "start" => stage'[s] # "start"
  BY <1>1 DEF Moves, StageMoves, lineVars
<1>3. /\ mode' = "back" => done' = lanes
      /\ \A l \in done' : l \in done \/ \A i \in 1..Len(line) : stage[<<l, i>>] # "start"
  <2>1. CASE (\E l \in lanes : Return(l)) \/ Back
    BY <2>1 DEF Return, Back, Told, ShellInv, LanesInv
  <2>2. CASE ~((\E l \in lanes : Return(l)) \/ Back)
    <3>1. UNCHANGED <<mode, done>>
      BY <2>2, OnlyReturnGoesBack
    <3> QED
      BY <3>1 DEF ShellInv, LanesInv
  <2> QED
    BY <2>1, <2>2
<1>4. \A l \in done' : l \in lanes
  BY RunningStep, <1>2 DEF ShellInv, ShellTypes, ShellTypeOK
<1>5. \A l \in done' : \A i \in 1..Len(line) : stage'[<<l, i>>] # "start"
  BY <1>2, <1>3, <1>4 DEF ShellInv, LanesInv, LineStages
<1> QED
  BY <1>2, <1>3, <1>5 DEF ShellInv, LanesInv

LEMMA ShellInvNext ==
  ASSUME ShellInv, [ShellNext]_shellVars
  PROVE  ShellInv'
<1>1. ASSUME NEW parts \in Typed, Type(parts)
      PROVE  ShellInv'
  <2>1. /\ ShellTypes' /\ LaunchInv' /\ KillInv' /\ mode' = "running" /\ done' = {} /\ ~interrupted'
        /\ inTime' = {}
        /\ line' = Normalized(JoinPipeLine(parts))
        /\ lanes' = IF HasPerHostLocalCommand(JoinPipeLine(parts))
                    THEN ScopedConnects(JoinPipeLine(parts)) ELSE {All}
        /\ stage' = [s \in LineStages' |-> "start"]
        /\ proc' = [sp \in LineStages' \X Procs |-> Off]
        /\ \A s \in LineStages' : s[2] > 1 => feed'[s] = "open"
    BY <1>1, TypeStep DEF ShellInv
  <2>2. CutInv'
    <3>1. Off.run = "off" /\ Off.copied
      BY DEF Off
    <3>2. ASSUME NEW s \in LineStages', NEW t \in LineStages', t[2] > s[2]
          PROVE  feed'[t] = "open"
      <4>1. s[2] \in 1..Len(line') /\ t[2] \in 1..Len(line')
        BY DEF LineStages
      <4>2. Len(line') \in Nat
        BY <2>1 DEF ShellTypes, LineTyped
      <4> QED
        BY <2>1, <3>2, <4>1, <4>2
    <3>3. \A s \in LineStages' : /\ stage'[s] = "start"
                                 /\ \A p \in Procs : proc'[<<s, p>>] = Off
      BY <2>1
    <3>4. \A s \in LineStages' : \A p \in Runs(s)' : p \in Procs
      BY <2>1 DEF Runs, ActiveConnects, Procs, ShellTypes, ShellTypeOK
    <3> QED
      BY <3>1, <3>2, <3>3, <3>4 DEF CutInv, Past
  <2>3. SurvivesInterrupt' /\ TimeInv'
    BY <2>1 DEF SurvivesInterrupt, TimeInv
  <2>4. LanesInv'
    BY <2>1, LanesOfType DEF LanesInv
  <2> QED
    BY <2>1, <2>2, <2>3, <2>4 DEF ShellInv
<1>2. ASSUME (\E l \in lanes : Interrupt(l)) \/ Work
      PROVE  ShellInv'
  <2>1. Moves /\ ShellTypes' /\ KillInv'
    BY <1>2, RunningStep DEF ShellInv
  <2>2. LaunchInv'
    BY <2>1, LaunchKept DEF ShellInv
  <2>3. CutInv'
    BY <2>1, <2>2, CutInvKept DEF ShellInv
  <2> QED
    BY <1>2, <2>1, <2>2, <2>3, TimeStep, CrashStep, LanesStep DEF ShellInv
<1>3. ASSUME UNCHANGED shellVars
      PROVE  ShellInv'
  <2>1. Moves /\ UNCHANGED <<mode, done, killVars>>
    BY <1>3, NothingMoves DEF shellVars, killVars, lineVars, ShellInv
  <2>2. ShellTypes' /\ KillInv'
    BY <2>1, QuietStep DEF ShellInv
  <2>3. LaunchInv' /\ CutInv'
    BY <2>1, <2>2, LaunchKept, CutInvKept DEF ShellInv
  <2>4. SurvivesInterrupt' /\ TimeInv'
    BY <1>3, <2>1, LineStays DEF ShellInv, SurvivesInterrupt, TimeInv, Moves, shellVars, lineVars, killVars
  <2>5. LanesInv'
    BY <1>3 DEF ShellInv, LanesInv, shellVars, lineVars
  <2> QED
    BY <2>2, <2>3, <2>4, <2>5 DEF ShellInv
<1> QED
  BY <1>1, <1>2, <1>3 DEF ShellNext

LEMMA ShellInvAlways == ShellSpec => []ShellInv
BY ShellInvInit, ShellInvNext, PTL DEF ShellSpec

\* The states of a command line of lsshell are what their comments say, for
\* any hosts, lines, numbers of lines of text and sizes of pipes.
THEOREM ShellTypeCorrect == ShellSpec => []ShellTypeOK
<1>1. ShellInv => ShellTypeOK
  BY DEF ShellInv, ShellTypes
<1> QED
  BY <1>1, ShellInvAlways, PTL

\* What a stage printed has gone on when it closes its output, however many
\* stages and hosts there are and wherever the commands behind it run.
THEOREM NothingIsCut == ShellSpec => []NothingCut
<1>1. ShellInv => NothingCut
  BY DEF ShellInv, CutInv, NothingCut, Past
<1> QED
  BY <1>1, ShellInvAlways, PTL

\* Ctrl-C while a remote stage of the lane still runs a command does not end
\* lsshell, for any line whose stages all take their kill: that stage tells half
\* a second later than its commands end, and until then the kills have been
\* taken, whichever stages took them first and however the others ended.
THEOREM CtrlCIsSurvived == ShellSpec => []SurvivesInterrupt
<1>1. ShellInv => SurvivesInterrupt
  BY DEF ShellInv
<1> QED
  BY <1>1, ShellInvAlways, PTL

\* When the prompt is back every command has run on every connected host it was
\* typed for, for lines with a ++command if they name one host (section 7 of the
\* README has one that does not).
THEOREM RunsEverywhere == OneTarget => (ShellSpec => []RunsWhereTyped)
<1> SUFFICES ASSUME OneTarget
             PROVE  ShellSpec => []RunsWhereTyped
  OBVIOUS
<1>1. ShellInv => RunsWhereTyped
  <2> SUFFICES ASSUME ShellInv, mode = "back", NEW i \in DOMAIN line,
                      NEW h \in WantedOn(i) \cap (connected \ dead),
                      line[i].kind \in {"remote", "targeted"}, WantedOn(i) \subseteq Hosts, ~FeedsConnector(i)
               PROVE  \E l \in lanes : proc[<<<<l, i>>, h>>].run # "off"
    BY DEF RunsWhereTyped
  <2>1. i \in 1..Len(line) /\ h \in Hosts /\ h \in Procs
    BY DEF ShellInv, ShellTypes, LineTyped, Procs
  <2>2. ASSUME NEW l \in lanes, h \in Resolved(<<l, i>>), ~Unresolved(<<l, i>>),
               Resolved(<<l, i>>) \subseteq WantedOn(i)
        PROVE  proc[<<<<l, i>>, h>>].run # "off"
    <3> DEFINE s == <<l, i>>
    <3>1. s \in LineStages /\ KindOf(s) = line[i].kind /\ IsRemote(s) /\ s[2] = i
      BY <2>1 DEF LineStages, KindOf, IsRemote
    <3>2. h \in ActiveConnects(s) /\ ActiveConnects(s) \subseteq WantedOn(i) \cap connected
      BY <2>2 DEF ActiveConnects
    <3>3. ~Refuses(s) /\ ~Idle(s)
      BY <3>1, <3>2 DEF Refuses, Idle, FeedsConnector
    <3>4. Executes(s) /\ h \in Runs(s)
      BY <2>2, <3>1, <3>2, <3>3 DEF Executes, Runs
    <3>5. stage[s] # "start"
      BY <2>1 DEF ShellInv, LanesInv
    <3> QED
      BY <2>1, <3>1, <3>4, <3>5 DEF ShellInv, LaunchInv
  <2>3. CASE line[i].kind = "remote"
    <3>1. PICK l \in lanes : h \in LaneConnects(l)
      BY <2>3 DEF WantedOn
    <3>2. /\ Resolved(<<l, i>>) = LaneConnects(l) /\ ~Unresolved(<<l, i>>)
          /\ LaneConnects(l) \subseteq WantedOn(i)
      BY <2>3 DEF Resolved, Unresolved, KindOf, WantedOn
    <3> QED
      BY <2>2, <3>1, <3>2
  <2>4. CASE line[i].kind = "targeted"
    <3>1. WantedOn(i) = line[i].at /\ \A l : Resolved(<<l, i>>) = line[i].at
      BY <2>4 DEF WantedOn, Resolved, KindOf
    <3>2. PICK l \in lanes : line[i].at \subseteq LaneConnects(l)
      <4>1. CASE lanes = {All}
        BY <3>1, <4>1 DEF LaneConnects
      <4>2. CASE lanes # {All}
        <5>1. PICK g \in lanes : line[i].at = {g} /\ g \in Hosts
          BY <2>4, <3>1, <4>2 DEF ShellInv, LanesInv
        <5>2. LaneConnects(g) = {g}
          BY <5>1, ConnectsAssumption DEF LaneConnects
        <5> QED
          BY <5>1, <5>2
      <4> QED
        BY <4>1, <4>2
    <3>3. ~Unresolved(<<l, i>>)
      BY <3>2 DEF Unresolved, KindOf
    <3> QED
      BY <2>2, <3>1, <3>3
  <2> QED
    BY <2>3, <2>4
<1> QED
  BY <1>1, ShellInvAlways, PTL
=============================================================================
