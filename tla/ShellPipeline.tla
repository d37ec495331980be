---------------------------- MODULE ShellPipeline ----------------------------
(***************************************************************************)
(* One command line of lsshell (src/internal/pshell): how a pipeline of    *)
(* remote, local and built-in commands is joined into stages, spread over  *)
(* the connected hosts, fed, interrupted and brought back to the prompt.   *)
(*                                                                         *)
(* Every stage is a goroutine (shell.run).  A remote stage starts the      *)
(* command on every host it is meant for, PushInput copies what it reads   *)
(* to all of them, and their output is copied to the next stage, or to the *)
(* screen, by goroutines that sshlib's Command does not wait for.  A line  *)
(* with a ++command is run once per host (a lane each); any other line is  *)
(* run in the single lane All.  Lines of text are counted, not told apart. *)
(***************************************************************************)
EXTENDS Integers, Sequences, FiniteSets, SequencesExt

CONSTANTS Connects,  \* the hosts, in the order of s.Connects
          Kind,      \* how each is reached: "direct", "control", "connector"
          Here,      \* where a local command runs
          All,       \* the lane of a line without ++commands
          Typed,     \* the command lines the user may type
          MaxOut,    \* how many lines a command prints by itself
          Window,    \* how many lines wait in front of and behind a command
          MaxConnected, \* a bound on the hosts that are connected
          Quick      \* whether copying keeps up with shell.go's half seconds

Hosts == ToSet(Connects)

ASSUME ConnectsAssumption == /\ Connects \in Seq(Hosts) /\ IsInjective(Connects)
                             /\ Here \notin Hosts /\ All \notin Hosts
ASSUME KindAssumption == Kind \in [Hosts -> {"direct", "control", "connector"}]
ASSUME SizeAssumption == MaxOut \in Nat /\ Window \in Nat \ {0} /\ Quick \in BOOLEAN

\* What a line is typed from: the kind of command, what it does with its input
\* ("source": prints up to MaxOut lines, "filter": passes lines on, "head":
\* passes one on, "quiet": prints nothing, "forever": prints and never ends)
\* and, if it is targeted, the hosts it names.  "usage" is a built-in that only
\* tells how it is used (%out with --help or no number, %outexec with too few
\* arguments); "mute" is clear, and %history when its file cannot be read.
Kinds == {"remote", "targeted", "local", "perhost", "badsubst", "builtin", "usage", "mute"}

VARIABLES mode,         \* "prompt", "running", "back" at the prompt, "crashed"
          connected,    \* the hosts whose Connected flag is set
          dead,         \* those whose connection is lost, unnoticed so far
          line,         \* the stages of the command line
          lanes,        \* its lanes; those that have returned are in done
          done,
          stage,        \* where each stage's goroutine is
          proc,         \* the commands the stages run
          feed,         \* whether a stage's input is still read
          todo,         \* the hosts PushInput still hands its chunk to
          interrupted,  \* whether Ctrl-C was pressed
          sending,      \* the kills a lane's signal goroutine has to send
          killed,       \* the stages that took one
          inTime        \* the remote stages that still ran a command at Ctrl-C

lineVars == <<connected, dead, line, lanes>>
killVars == <<interrupted, sending, killed, inTime>>
shellVars == <<mode, lineVars, done, stage, proc, feed, todo, killVars>>

Procs == Hosts \cup {Here}

Off == [run |-> "off", in |-> 0, out |-> 0, made |-> 0, copied |-> TRUE]

-----------------------------------------------------------------------------
(* From the line to its stages *)

\* Two remote commands next to each other are one command of the remote shell.
JoinedParts(a, b) == [a EXCEPT !.prog = IF a.prog = "filter" THEN b.prog ELSE a.prog]

\* joinPipeLine: local, built-in and targeted commands stand alone.
JoinPipeLine(parts) ==
  FoldLeft(LAMBDA joined, p :
             IF joined # <<>> /\ p.kind = "remote" /\ Last(joined).kind = "remote"
             THEN Front(joined) \o <<JoinedParts(Last(joined), p)>>
             ELSE Append(joined, p), <<>>, parts)

\* What is joined is a line of commands again.
ASSUME TypedAssumption ==
  \A parts \in Typed :
    LET l == JoinPipeLine(parts)
    IN  l \in Seq(ToSet(l)) /\ \A i \in DOMAIN l : DOMAIN l[i] = {"kind", "prog", "at"}

HasPerHostLocalCommand(l) == \E i \in DOMAIN l : l[i].kind = "perhost"

Normalized(l) == [i \in DOMAIN l |-> IF l[i].kind = "perhost"
                                     THEN [l[i] EXCEPT !.kind = "local"] ELSE l[i]]

\* pipelineScopedConnects: the hosts that every targeted command names.
ScopedConnects(l) == {h \in Hosts : \A i \in DOMAIN l : l[i].kind = "targeted" => h \in l[i].at}

Last_(s) == s[2] = Len(line)
Prev(s) == <<s[1], s[2] - 1>>
Following(s) == <<s[1], s[2] + 1>>
KindOf(s) == line[s[2]].kind
ProgOf(s) == line[s[2]].prog
IsRemote(s) == KindOf(s) \in {"remote", "targeted"}

\* A lane's currentConns, and what resolveTargetedConnects makes of them.
LaneConnects(l) == IF l = All THEN Hosts ELSE {l}

\* Deviation: a host that is not connected counts as unknown.
UnresolvedIfDown(s) == KindOf(s) = "targeted" /\ ~(line[s[2]].at \subseteq LaneConnects(s[1]) \cap connected)

Unresolved(s) == KindOf(s) = "targeted" /\ ~(line[s[2]].at \subseteq LaneConnects(s[1]))
Resolved(s) == IF KindOf(s) = "targeted" THEN line[s[2]].at ELSE LaneConnects(s[1])
ActiveConnects(s) == Resolved(s) \cap connected

\* A remote stage that ends before it runs anything: nobody is connected, or a
\* connector host would have to be given input.
Idle(s) == ActiveConnects(s) = {}
Refuses(s) == s[2] > 1 /\ \E h \in ActiveConnects(s) : Kind[h] = "connector"

\* The commands a stage runs: a host whose session cannot be created is left out.
Runs(s) == IF ~IsRemote(s) THEN {Here} ELSE ActiveConnects(s) \ {h \in dead : Kind[h] = "direct"}

\* The hosts PushInput writes to, one after the other in the order of s.Connects.
Fed(s) == {h \in Runs(s) : Kind[h] # "connector"}
Position(h) == CHOOSE i \in DOMAIN Connects : Connects[i] = h
IsFirst(h, hs) == h \in hs /\ \A g \in hs : Position(h) <= Position(g)

-----------------------------------------------------------------------------
(* Where things stand *)

\* The stages of the line that is running.
LineStages == lanes \X (1..Len(line))

\* The token that executeJoinedPipeLine waits for.
Told(s) == stage[s] \in {"told", "shut", "done"} /\ KindOf(s) # "mute"

\* Deviation: a remote stage with nothing to run leaves its input open.
InClosedIfRun(s) == stage[s] = "done" /\ (KindOf(s) \in {"local", "perhost", "badsubst"}
                                          \/ (IsRemote(s) /\ ~Unresolved(s) /\ ~Idle(s) /\ ~Refuses(s)))

\* A stage that fails to expand <(), or only tells how it is used, leaves its
\* output open, and only stages that got as far as the deferred call close their
\* input.
OutClosed(s) == stage[s] \in {"shut", "done"} /\ KindOf(s) \notin {"badsubst", "usage", "mute"}
InClosed(s) == stage[s] = "done" /\ (KindOf(s) \in {"local", "perhost", "badsubst"}
                                     \/ (IsRemote(s) /\ ~Unresolved(s)))

\* sshlib copies a direct session's input without ever closing it: only local
\* commands and those behind a control master or a connector see its end.
SeesEnd(s, p) == feed[s] = "ended" /\ (p \in Hosts => Kind[p] # "direct")

\* Command has returned: a direct session does not wait for its output.
Returned(s, p) == proc[<<s, p>>].run = "exited" /\ (proc[<<s, p>>].out = 0 \/ (p \in Hosts /\ Kind[p] = "direct"))

Goes(s, from, to) == stage[s] = from /\ stage' = [stage EXCEPT ![s] = to]

Still == UNCHANGED <<mode, lineVars, done>>

-----------------------------------------------------------------------------
(* The prompt *)

ShellInit ==
  /\ mode = "prompt"
  /\ connected \in {hs \in SUBSET Hosts : Cardinality(hs) <= MaxConnected}
  /\ dead \in SUBSET connected
  /\ line = <<>> /\ lanes = {} /\ done = {}
  /\ stage = <<>> /\ proc = <<>> /\ feed = <<>> /\ todo = <<>> /\ sending = <<>>
  /\ interrupted = FALSE /\ killed = {} /\ inTime = {}

\* Executor, parseExecuter: a line is joined and given to its lanes.  A first
\* command whose output is piped reads an empty string.
Type(parts) ==
  /\ mode = "prompt"
  /\ mode' = "running"
  /\ LET joined == JoinPipeLine(parts) IN
       /\ line' = Normalized(joined)
       /\ lanes' = IF HasPerHostLocalCommand(joined) THEN ScopedConnects(joined) ELSE {All}
       /\ feed' = [s \in LineStages' |-> IF s[2] = 1 /\ Len(joined) > 1 THEN "ended" ELSE "open"]
  /\ stage' = [s \in LineStages' |-> "start"]
  /\ proc' = [sp \in LineStages' \X Procs |-> Off]
  /\ todo' = [s \in LineStages' |-> {}]
  /\ sending' = [l \in lanes' |-> 0]
  /\ UNCHANGED <<connected, dead, done, interrupted, killed, inTime>>

-----------------------------------------------------------------------------
(* A stage's goroutine *)

\* A stage that is over before it started.  Whether it tells, and what it
\* closes, is said by Told, OutClosed and InClosed.
EndEarly(s) ==
  /\ Goes(s, "start", "done")
  /\ IsRemote(s) => Unresolved(s) \/ Idle(s) \/ Refuses(s)
  /\ KindOf(s) \notin {"local", "builtin", "usage"}
  /\ UNCHANGED <<proc, feed, todo, killVars>> /\ Still

Launch(s) ==
  /\ Goes(s, "start", "run")
  /\ KindOf(s) \notin {"badsubst", "mute"}
  /\ IsRemote(s) => ~Unresolved(s) /\ ~Idle(s) /\ ~Refuses(s)
  /\ proc' = [sp \in DOMAIN proc |-> IF sp[1] = s /\ sp[2] \in Runs(s)
                                         THEN [Off EXCEPT !.run = "running"] ELSE proc[sp]]
  /\ UNCHANGED <<feed, todo, killVars>> /\ Still

CanCopy(s, p) ==
  /\ proc[<<s, p>>].out > 0 /\ proc[<<s, p>>].copied
  /\ LET t == Following(s) IN
     IF Last_(s) THEN stage[s] # "done"
     ELSE /\ ~OutClosed(s) /\ stage[t] = "run" /\ feed[t] = "open"
          /\ IF IsRemote(t) THEN todo[t] = {}
             ELSE KindOf(t) = "local" /\ (proc[<<t, Here>>].in < Window \/ proc[<<t, Here>>].run = "exited")

CanPush(s, h) ==
  /\ IsFirst(h, todo[s])
  /\ proc[<<s, h>>].in < Window \/ Returned(s, h)

CanFilter(s, p) ==
  /\ proc[<<s, p>>].run = "running" /\ ProgOf(s) \in {"filter", "head"}
  /\ proc[<<s, p>>].in > 0 /\ proc[<<s, p>>].out < Window

\* What is on its way anywhere: with Quick, half a second is enough for a stage
\* to start its commands, and for what there is to be copied.
Moving == \E s \in LineStages :
            \/ stage[s] = "start"
            \/ \E p \in Runs(s) : CanCopy(s, p) \/ CanFilter(s, p) \/ CanPush(s, p)

\* Deviation: no half second.
TellAtOnce(s) ==
  /\ Goes(s, "run", "told")
  /\ IsRemote(s)
  /\ \A p \in Runs(s) : Returned(s, p)
  /\ UNCHANGED <<proc, feed, todo, killVars>> /\ Still

\* A stage waits for a kill from its start on, even when it has ended.
CanTake(s) ==
  /\ s \notin killed
  /\ KindOf(s) = "local" \/ (IsRemote(s) /\ ~Unresolved(s) /\ ~Idle(s) /\ ~Refuses(s))
  /\ stage[s] # "start"

\* A kill of the lane is on its way.
Killing(l) == sending[l] > 0 /\ \E i \in 1..Len(line) : CanTake(<<l, i>>)

\* All commands of a remote stage have returned; after half a second the
\* pipeline is told, the output closed, and after another one the screen.  With
\* Quick half a second is enough for the kills, too, if Ctrl-C came before it.
Tell(s) ==
  /\ Goes(s, "run", "told")
  /\ IsRemote(s)
  /\ \A p \in Runs(s) : Returned(s, p)
  /\ Quick => ~Moving /\ ~(s \in inTime /\ Killing(s[1]))
  /\ UNCHANGED <<proc, feed, todo, killVars>> /\ Still

Shut(s) == Goes(s, "told", "shut") /\ UNCHANGED <<proc, feed, todo, killVars>> /\ Still

Finish(s) ==
  /\ Goes(s, "shut", "done")
  /\ Quick => ~Moving
  /\ UNCHANGED <<proc, feed, todo, killVars>> /\ Still

\* exec's Wait waits for the goroutine that feeds the command, unless its
\* input is the terminal, and for those that copy its output.
LocalEnds(s) ==
  /\ Goes(s, "run", "done")
  /\ ~IsRemote(s)
  /\ Returned(s, Here)
  /\ KindOf(s) = "local" => feed[s] = "ended" \/ Len(line) = 1
  /\ UNCHANGED <<proc, feed, todo, killVars>> /\ Still

-----------------------------------------------------------------------------
(* The commands *)

Acts(s, p, how) == proc[<<s, p>>].run = "running" /\ ProgOf(s) \in how

Prints(s, p) ==
  /\ Acts(s, p, {"source", "forever"})
  /\ proc[<<s, p>>].made < MaxOut /\ proc[<<s, p>>].out < Window
  /\ proc' = [proc EXCEPT ![<<s, p>>].made = @ + 1, ![<<s, p>>].out = @ + 1]
  /\ UNCHANGED <<stage, feed, todo, killVars>> /\ Still

Filter(s, p) ==
  /\ CanFilter(s, p)
  /\ proc' = [proc EXCEPT ![<<s, p>>].in = @ - 1, ![<<s, p>>].out = @ + 1,
                          ![<<s, p>>].run = IF ProgOf(s) = "head" THEN "exited" ELSE @]
  /\ UNCHANGED <<stage, feed, todo, killVars>> /\ Still

CommandExits(s, p) ==
  /\ Acts(s, p, {"source", "quiet", "filter", "head"})
  /\ ProgOf(s) \in {"filter", "head"} => proc[<<s, p>>].in = 0 /\ SeesEnd(s, p)
  /\ proc' = [proc EXCEPT ![<<s, p>>].run = "exited"]
  /\ UNCHANGED <<stage, feed, todo, killVars>> /\ Still

-----------------------------------------------------------------------------
(* The copies *)

\* A line goes to the screen, to PushInput, or to a local command; one that
\* has exited lets its feeder fail.
Copy(s, p) ==
  /\ CanCopy(s, p)
  /\ LET t == Following(s)
         given == [proc EXCEPT ![<<s, p>>].out = @ - 1]
     IN IF Last_(s) THEN proc' = given /\ UNCHANGED <<feed, todo>>
        ELSE IF IsRemote(t) THEN /\ proc' = given
                                 /\ todo' = [todo EXCEPT ![t] = Fed(t)]
                                 /\ UNCHANGED feed
        ELSE IF proc[<<t, Here>>].run = "exited" THEN /\ proc' = given
                                                  /\ feed' = [feed EXCEPT ![t] = "ended"]
                                                  /\ UNCHANGED todo
        ELSE /\ proc' = [given EXCEPT ![<<t, Here>>].in = @ + 1]
             /\ UNCHANGED <<feed, todo>>
  /\ UNCHANGED <<stage, killVars>> /\ Still

\* The next stage has closed its input, or this one its output.  A direct
\* session's command is not told that its output is no longer read.
CopyFails(s, p) ==
  /\ proc[<<s, p>>].out > 0 /\ proc[<<s, p>>].copied
  /\ ~Last_(s)
  /\ OutClosed(s) \/ InClosed(Following(s))
  /\ proc' = [proc EXCEPT ![<<s, p>>].copied = FALSE,
                          ![<<s, p>>].run = IF p \in Hosts /\ Kind[p] = "direct" THEN @ ELSE "exited",
                          ![<<s, p>>].out = IF p \in Hosts /\ Kind[p] = "direct" THEN @ ELSE 0]
  /\ UNCHANGED <<stage, feed, todo, killVars>> /\ Still

\* PushInput hands its chunk to the next host; a command that has returned
\* closed its pipe.
Push(s, h) ==
  /\ CanPush(s, h)
  /\ proc' = IF Returned(s, h) THEN proc ELSE [proc EXCEPT ![<<s, h>>].in = @ + 1]
  /\ todo' = [todo EXCEPT ![s] = @ \ {h}]
  /\ UNCHANGED <<stage, feed, killVars>> /\ Still

\* The stage before has closed the pipe.
FeedEnds(s) ==
  /\ stage[s] = "run" /\ UNCHANGED stage
  /\ s[2] > 1 /\ feed[s] = "open" /\ todo[s] = {} /\ OutClosed(Prev(s))
  /\ feed' = [feed EXCEPT ![s] = "ended"]
  /\ UNCHANGED <<proc, todo, killVars>> /\ Still

-----------------------------------------------------------------------------
(* Ctrl-C and the way back *)

Waiting(l) == l \notin done

\* The remote stages of a lane that have a command to run or to wait for.
Busy(l) == {s \in {l} \X (1..Len(line)) : /\ IsRemote(s) /\ stage[s] \in {"start", "run"}
                                          /\ \E p \in Runs(s) : ~Returned(s, p)}

\* Deviation: a kill for every stage and one more.
InterruptOneMore(l) ==
  /\ mode = "running" /\ Waiting(l) /\ ~interrupted
  /\ interrupted' = TRUE
  /\ sending' = [sending EXCEPT ![l] = Len(line) + 1]
  /\ inTime' = Busy(l)
  /\ UNCHANGED <<stage, proc, feed, todo, killed>> /\ Still

\* SIGINT goes to the one signal goroutine that takes it off s.Signal: it has
\* a kill for every stage of its lane.
Interrupt(l) ==
  /\ mode = "running" /\ Waiting(l) /\ ~interrupted
  /\ interrupted' = TRUE
  /\ sending' = [sending EXCEPT ![l] = Len(line)]
  /\ inTime' = Busy(l)
  /\ UNCHANGED <<stage, proc, feed, todo, killed>> /\ Still

\* What a kill ends: local commands, direct sessions, and behind a control
\* master those whose remote terminal makes ^C of the byte 3.
Dies(s, p) == p \in Hosts => Kind[p] = "direct" \/ (Kind[p] = "control" /\ Len(line) = 1)

TakeKill(s) ==
  /\ mode = "running" /\ Waiting(s[1]) /\ sending[s[1]] > 0 /\ CanTake(s)
  /\ sending' = [sending EXCEPT ![s[1]] = @ - 1]
  /\ killed' = killed \cup {s}
  /\ proc' = [sp \in DOMAIN proc |->
                IF sp[1] = s /\ proc[sp].run = "running" /\ Dies(s, sp[2])
                THEN [proc[sp] EXCEPT !.run = "exited"] ELSE proc[sp]]
  /\ UNCHANGED <<interrupted, inTime, stage, feed, todo>> /\ Still

\* All stages of a lane have told; the deferred calls close kill, and a signal
\* goroutine that still has a kill to send panics, whether a stage waits for it
\* or not.
Return(l) ==
  /\ mode = "running" /\ Waiting(l)
  /\ \A i \in 1..Len(line) : Told(<<l, i>>)
  /\ IF sending[l] > 0 THEN mode' = "crashed" /\ UNCHANGED done
                       ELSE done' = done \cup {l} /\ UNCHANGED mode
  /\ UNCHANGED <<lineVars, stage, proc, feed, todo, killVars>>

\* parseExecuter goes on when every lane has returned.
Back ==
  /\ mode = "running" /\ done = lanes
  /\ mode' = "back"
  /\ UNCHANGED <<lineVars, done, stage, proc, feed, todo, killVars>>

Work ==
  \/ \E s \in LineStages : EndEarly(s) \/ Launch(s) \/ Tell(s) \/ Shut(s) \/ Finish(s)
                       \/ LocalEnds(s) \/ FeedEnds(s) \/ TakeKill(s)
  \/ \E s \in LineStages : \E p \in Runs(s) : Prints(s, p) \/ Filter(s, p) \/ CommandExits(s, p)
                                               \/ Copy(s, p) \/ CopyFails(s, p) \/ Push(s, p)
  \/ \E l \in lanes : Return(l)
  \/ Back

ShellNext ==
  \/ \E parts \in Typed : Type(parts)
  \/ \E l \in lanes : Interrupt(l)
  \/ Work

ShellSpec == ShellInit /\ [][ShellNext]_shellVars

\* Goroutines and commands go on; nobody has to type or to press Ctrl-C.  A
\* line takes finitely many steps, so that none of them is passed over.
FairShellSpec == ShellSpec /\ WF_shellVars(Work)

-----------------------------------------------------------------------------
(* Properties *)

ShellTypeOK ==
  /\ mode \in {"prompt", "running", "back", "crashed"}
  /\ dead \subseteq connected /\ connected \subseteq Hosts
  /\ done \subseteq lanes /\ lanes \subseteq Hosts \cup {All}
  /\ stage \in [LineStages -> {"start", "run", "told", "shut", "done"}]
  /\ proc \in [LineStages \X Procs -> [run : {"off", "running", "exited"}, in : 0..Window,
                                  out : 0..Window, made : 0..MaxOut, copied : BOOLEAN]]
  /\ feed \in [LineStages -> {"open", "ended"}]
  /\ todo \in [LineStages -> SUBSET Hosts]
  /\ sending \in [lanes -> 0..Len(line)]
  /\ killed \subseteq LineStages /\ inTime \subseteq LineStages

Executes(s) == KindOf(s) = "local" \/ (IsRemote(s) /\ ~Unresolved(s) /\ ~Idle(s) /\ ~Refuses(s))
ReadsAll(s) == Executes(s) /\ Runs(s) # {} /\ ProgOf(s) = "filter"
AllReadBehind(s) == \A i \in (s[2] + 1)..Len(line) : ReadsAll(<<s[1], i>>)
HasDirect(s) == \E p \in Runs(s) \cap Hosts : Kind[p] = "direct"

\* What a stage needs to come to its end without Ctrl-C: it tells, it leaves
\* no pipe open that others wait on, its commands end, and see the end of what
\* they read; and a direct session's output is read to its end, or is small.
ComesToEnd(s) ==
  /\ KindOf(s) # "mute"
  /\ KindOf(s) \in {"badsubst", "usage"} => Last_(s)
  /\ s[2] > 1 => KindOf(s) \notin {"builtin", "usage"} /\ ~Unresolved(s)
  /\ Executes(s) =>
       /\ ProgOf(s) # "forever"
       /\ ProgOf(s) \in {"filter", "head"} => ~IsRemote(s) \/ ~HasDirect(s)
       /\ IsRemote(s) /\ HasDirect(s) => AllReadBehind(s)

\* What Ctrl-C can end: one lane, whose stages all take a kill and pass it on.
EndsByKill == /\ Cardinality(lanes) = 1
              /\ \A s \in LineStages : Executes(s) /\ \A p \in Runs(s) : Dies(s, p)

\* The prompt comes back after every command line whose stages come to an end,
\* and after Ctrl-C if that reaches all of them: no order of finishing, closing
\* and copying leaves executeJoinedPipeLine waiting for a token.
\* (That it does not crash instead is SurvivesInterrupt.)
PromptReturns ==
  (mode = "running" /\ ((\A s \in LineStages : ComesToEnd(s)) \/ (interrupted /\ EndsByKill)))
    ~> mode # "running"

\* What the commands of a stage printed has gone on when the stage closes its
\* output, although Command returns before it is copied, provided that the
\* stages behind read everything, and that starting and copying keep up with
\* half a second.
NothingCut ==
  Quick /\ ~interrupted =>
    \A s \in LineStages : \A p \in Procs :
      (stage[s] = "done" \/ (stage[s] = "shut" /\ ~Last_(s)))
        /\ AllReadBehind(s)
        => proc[<<s, p>>].out = 0

\* lsshell survives Ctrl-C if every stage of the line takes its kill, and a remote
\* stage of the lane still ran a command when it was pressed: no order in which
\* the stages take their kills, end and close leaves the signal goroutine with a
\* kill to send on the closed channel.
SurvivesInterrupt ==
  Quick /\ inTime # {} /\ (\A s \in LineStages : Executes(s)) => mode # "crashed"

\* Pressed while the line is ending it may crash, though every stage takes its
\* kill: the lane returns and closes the channel before the signal goroutine has
\* sent them.  (Not so: violated.)
SurvivesLateInterrupt == (\A s \in LineStages : Executes(s)) => mode # "crashed"

\* A command runs on every connected host it was typed for, in one lane or
\* another, unless it would have to hand its input to a connector.
WantedOn(i) == IF line[i].kind = "targeted" THEN line[i].at ELSE UNION {LaneConnects(l) : l \in lanes}
FeedsConnector(i) == i > 1 /\ \E h \in WantedOn(i) \cap connected : Kind[h] = "connector"
RunsWhereTyped ==
  mode = "back" =>
    \A i \in DOMAIN line : \A h \in WantedOn(i) \cap (connected \ dead) :
      line[i].kind \in {"remote", "targeted"} /\ WantedOn(i) \subseteq Hosts /\ ~FeedsConnector(i)
        => \E l \in lanes : proc[<<<<l, i>>, h>>].run # "off"
=============================================================================
