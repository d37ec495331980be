# TLA+ models of lssh

lssh is a family of Go programs around one host inventory: `lssh`, `lscp`,
`lsftp`, `lssync`, `lsdiff`, `lsshfs`, `lsmon`, `lsshell`, `lsmux` and `lspipe`.
This directory models the parts of it that are hard to test: background
processes that share files, sockets and mounts without a lock, goroutines that
share connections and channels, the copy engines of `lssync`, `lscp` and
`lsftp`, the pages of `lsmux`, the pipelines of `lsshell`, the reading of the
configuration, and the session protocol of the AWS SSM connector. `PROJECT.json` holds the
line-by-line map from definitions to source, the runs, the mutants that show
what each property is sensitive to, the findings, the hazards and the theorems.

Contents: [1 inventory](#1-inventory), [2 plan](#2-plan),
[3 modules](#3-modules), [4 runs](#4-runs-and-bounds),
[5 fairness](#5-fairness-and-other-assumptions), [6 proofs](#6-proofs),
[7 findings](#7-findings), [8 what is left out](#8-what-is-not-modelled).

## 1 Inventory

| Part | Source | State it keeps | Operations | What makes it correct |
|---|---|---|---|---|
| lspipe daemon | `internal/lspipe/daemon.go` | connections and health per host, under a mutex for single accesses only | connect all, accept a request, run it on each host, probe, redial, close | a command runs on its own host; exit code 0 means success; every request is answered; the daemon survives |
| lspipe session | `internal/app/lspipe/app.go`, `internal/lspipe/{state,rpc,client}.go` | a record file and a socket file | create or reuse, replace, close, execute | one daemon per name; it can be reached; only close and replace stop it |
| lspipe FIFO bridge | `internal/lspipe/fifo*.go` | three named pipes per endpoint, the pending input | read a command, attach the pending input, write the output | a command gets the input written for it |
| lsmux persistent session | `internal/lsmuxsession`, `internal/app/lsmux/app.go` | a child on a pty, at most one attached terminal, a replay buffer | attach, refuse, replay, input, detach, kill | the session outlives its terminals; output is shown once and not lost; keys arrive in order |
| lssync | `internal/sync` | two trees, a plan, a pool of copying goroutines | scan, plan, make directories, copy, delete; cycles of a daemon | success means in sync; only extras are deleted; the newest file survives |
| lsshfs | `internal/lsshfs`, `internal/app/lsshfs` | a record file, the mount, a connection | start in background, mount, check alive, clean up, `--unmount` | nothing stays behind; a lost connection ends in an unmount; live mounts are recorded |
| lscp, lsftp | `internal/scp`, `internal/sftp` | worker pools per host, what has arrived, progress bars, a signal context | push, pull, host to host, put, get, copy | each file arrives whole or an error is printed; in one place, whatever workers see of each other; the command ends, also when no worker connects or the user interrupts |
| output | `internal/output` | pipes and scanners per host, progress bars | line printer, input fan-out, progress | no line is lost; a writer is never blocked for ever |
| lsmux user interface | `internal/mux` | pages, panes, focus, selectors and what their closures captured, the page list | open, connect, split, switch, close, broadcast, cancel; sessions that end by themselves | every session can be reached; a key reaches each pane once; lsmux stops only when nothing is left |
| lsshell | `internal/pshell` | connected hosts, the stages of a command line, their pipes, kill channels | join and spread a pipeline over hosts and local commands, interrupt, keepalive, reconnect | the prompt returns; no output is cut; a command runs on the hosts it names; Ctrl-C does not end the shell |
| lsmon | `internal/monitor` | a poller per host | poll, draw, reconnect | pollers survive a reconnect |
| lsdiff | `internal/lsdiff` | none | fetch from each host, compare | all fetches are joined |
| ssh | `internal/ssh` | connections, proxies, forwards, connector processes | connect, run, shell, forward | streams are closed exactly once; input reaches every host |
| configuration | `internal/config`, `internal/ssh_config` | the merged table of hosts and providers | read file, OpenSSH files, includes, provider inventories; match; check | the last source wins whoever answers last; only what may fail may be missing; reading ends |
| providers: protocol | `providerapi`, `providerutil`, `internal/connectorruntime` | none beyond a request | describe, inventory, secret, connect | one answer per request |
| providers: AWS SSM session | `provider/mixed/provider-mixed-aws-ec2/ssmsession` | sequence numbers of both directions, output held back, a WebSocket | handshake, acknowledge, send input, start a command, relay a port, close | output once and in order; input numbered in order; the session ends with its link |
| providers: the others | `provider` | none beyond a request | calls to cloud and secret services | |
| presentation and helpers | `internal/{list,check,common,textcolsafe,termenv,version}`, `cmd`, `completion` | none | | |

How they interact. The command-line programs read the configuration, choose
hosts and ask `internal/ssh` for connections (vendored `go-sshlib`, or a
provider's connector process). `lspipe`, `lsmux` and `lsshfs` start a copy of
themselves as a background process, which reports "OK" through a pipe (fd 3)
and is found again through a JSON record in the cache directory: the record,
the socket and the mountpoint are the only things several processes share, and
nothing locks them. `lssync`, `lscp` and `lsftp` use pools of goroutines fed
through unbuffered channels. All of them print through `internal/output`.

The hard behaviours, each listed at its line under "hazards" in `PROJECT.json`:
a connection used after the lock that protected it is released; check and
creation of a session by several processes; records written in place and
written back late; daemons that crash between two file operations; a terminal
that detaches while output is in flight; workers that fail together while a
feeder hands out work; a copy that breaks half way; a mount, a record and a
signal handler that come and go in different orders; channels nobody reads;
several workers that look at a directory while they make it; callbacks that run
what they captured when panes were different; a message sent again, a counter
that several goroutines number by; a stage that closes its output while another
goroutine still copies into it; provider processes that answer in any order.

## 2 Plan

Order of work: first what several processes or goroutines share and a unit
test cannot schedule.

| # | Module | Composes / abstracts | State |
|---|---|---|---|
| 1 | `PipeDaemon`, with `PipeService` | `PipeService` is what a client is promised; `PipeDaemon` implements it | checked, proved |
| 2 | `PipeSession` | command lines and daemon processes; abstracts `PipeDaemon` to a job that ends | checked, partly proved |
| 3 | `MuxSession` | daemon, terminals, `--kill-session` | checked, partly proved |
| 4 | `Sync` | scan, plan, pool, cycles, user | checked, partly proved |
| 5 | `MountRunner` | runners, FUSE/NFS servers, `--unmount`, kernel | checked, partly proved |
| 6 | `Transfer` | the worker pools of `scp` and `sftp`: walkers, workers, signals, bars | checked, partly proved |
| 7 | `MuxManager` | pages, panes, selectors, late connections | checked, proved |
| 8 | `SsmSession` | one SSM session over its WebSocket: shell, command or port | checked, partly proved |
| 9 | `ShellPipeline` | one command line of lsshell: stages, lanes, pipes, Ctrl-C | checked, proved |
| 10 | `ConfigRead` | files, OpenSSH imports, includes, providers in parallel, match, check | checked, partly proved |
| 11 | `PipeFifo` | FIFO bridge over `PipeService` | later |
| 12 | `ShellConnections`, `Monitor` | keepalive and reconnection of lsshell, lsftp and lsmon | later |

Abstract specifications worth stating: `PipeService` (done); for `MountRunner`
a mount that is "absent, starting, served, ending" as `--list-mounts` shows it;
for `SsmSession` and `MuxSession` a byte stream with one reader at a time.

Theorems worth proving next: `OkMeansSynced` of `Sync` for bidirectional cycles,
from a `CopyInv` that follows two plans in turn. Termination stays with TLC.

## 3 Modules

Every operation of the source is one action, named after its function where
there is one; an action covers everything up to the next point at which another
process or goroutine may be seen (a lock, a file operation, a channel, a call on
a connection).

**PipeDaemon** (`internal/lspipe/daemon.go`). `HostList` is `d.Hosts`, from which
nothing removes a host that is listed twice; `Entries` are its places. One
goroutine per client and entry walks through `Lookup`, `CheckAlive`, `DropDead`, `DialOk`/`DialFail`,
`Publish`, `OpenSession`, `CommandEnds`, `Mark`, `Report`, which are the
accesses of `getOrReconnect`, `connect`, `runSessionCommand`, `setHealth` and
`runCommand`. `pool` and `health` are the two maps; `held` is the goroutine's
local connection, which stays in use after `d.mu` is released; `crossed` only
remembers the hosts to which two dials were under way at once, or that
`connectAll` dialled twice. `Accept`,
`Reject` and `Answer` are `handleConn` and `execRequest`; `ConnectorRuns` is the
path that has no connection; `Panic` is the nil dereference of a closed
`*Connect`. `PipeService` states the promise without connections.

**PipeSession** (`app.go`, `state.go`, `rpc.go`, `client.go`). Each daemon
process goes through unlink, listen, connect, truncate, save, ready, serve,
close, remove record, remove socket, exit; each command line through load,
ping, spawn, await or load, signal, wait, remove, or load, ping, dial, wait for
the answer. A daemon's request goroutine writes the record back (`JobLoad`,
`JobTruncate`, `JobWrite`, twice). `Torn` is a record that `os.WriteFile` has
truncated and not yet written. `Crash` kills a daemon anywhere.

**MuxSession** (`internal/lsmuxsession`). The daemon's goroutines `readPTY`
(`Broadcast`, `SendOutput`, `SendFailed`, `ReadEnds`), `waitChild` and one
handler per connection (`Attach`, `Refuse`, `Replay`, `TouchLoad`,
`TouchTruncate`, `TouchWrite`, `ReceiveInput`, ...), and the terminals (`Show`,
`Type`, `SeeEnd`, `Vanish`). `record` is "empty" between the two steps of
`os.WriteFile` and "mixed" when two handlers have written it at once (`overlap`
remembers that); `unsent` counts the bytes read since a terminal was last
attached. Terminals are numbered in the order in which their hello is answered
(`InTurn`), which loses nothing, as they are alike. Output bytes are their numbers, so order, loss and repetition can be seen; the
sockets are bounded sequences, so a terminal that does not read blocks `send`.

**Sync** (`internal/sync`). `Scan` makes the plans (`BuildPlan`,
`BuildBidirectionalPlans`, `compareSnapshotEntries` as the functions `PlanOf`,
`Gives`, `CompareSnapshotEntries`); `EnsureDirectory`, `FileNeedsCopy`,
`StartPool`, `Feed`, `BeginCopy`, `OpenFiles`, `CopyFile`/`CutCopy`,
`CopiesDone`, `Sweep`, `DeletePath` are the loops of `ApplyPlan`, `copyFiles`,
`copySingleFile` and `deleteExtraPaths`; `Fails` is any failing file operation
outside the pool; `SecondPlan` goes on to the other direction; `CycleDone`,
`Stop` and `Interrupt` are the daemon loop and the signal. Workers that outlive
a failed cycle stay in `worker`, marked `stale`, and may meet the next one. Two
variables only remember: `newest`, the contents of a file that a bidirectional
run must not lose, and `halfway`, whether a copy was ever cut or left behind.

**MountRunner** (`internal/lsshfs`, `internal/app/lsshfs`). `RunStep` is
`Runner.Run` in order: connect, write the record, start serving, settle or
mount with retries, wait for the mount, notify the parent, register the signal
handler, loop (`Tick`, `CheckOk`, `CheckFails`, `ServeExited`,
`SignalReceived`), clean up, return through the deferred calls. `mounts` is the
kernel's stack of mounts at the mountpoint; whatever unmounts takes its top.
`Signal` delivers SIGTERM to the channel of `Run`, to that of go-sshlib's FUSE
server, to both, or kills the process, whichever it had registered.
`UnmountStep` is `lsshfs --unmount`.

**Transfer** (`internal/scp`, `internal/sftp`). Each host has a goroutine
(`Launch`, `Dial`, `DialFails`, `StartFeeding`, `Feed`, `FeedDir`, `WalkFails`,
`CloseTasks`, `Join`) and workers (`Lookup`, `MakeDir`, `SkipFile`, `OpenFile`,
`OpenFails`, `CopyDone`, `CopyBreaks`, `Leave`); `cmd` says which of push, pull,
via, put, get and copy it is, and guards carry their differences. An item is
copied to one of two places, "at" the destination or "in" it, which is what the
commands decide from what they find there; `tree` is what has arrived. `Begin`
chooses the directories that push and put cannot read: `common.WalkDir` passes
over them without a word. `PassOver` says what a host goes without, in `missed`:
those, and files that `put` did not open. `Begin`,
`Wait` and `ProgressWait` are the command itself; `stuck` a bar that never
completes. `Interrupt` and `CloseExtra` are the signal context and the goroutine
that closes the extra connections.

**MuxManager** (`internal/mux/manager.go`, `manager_input.go`). Everything runs
on the one goroutine of the user interface, so a key, click or callback is one
step. `ui` is the `Manager`; the operators from `Refresh` to `AddPanes` are its
methods. `prefixActive` is that of the manager: `Prefix`, then a `Command` or an
`Unbound` key, which goes to the focused pane only, whatever `broadcast` says
(`Broadcasted`). `selector` holds what the closures of a selector captured when it was
opened; `Connected`, `ConnectFails` and `Exits` are the callbacks of a
connection. `overlapped` and `orphaned` remember two situations in which the
code loses a session or stops too early (section 7).

**SsmSession** (`ssmsession/session.go`, `port.go`). `AgentSends`,
`AgentResends` and `LinkEnds` are the agent and the network; `Receive` is one
round of `readLoop` with `handleOutputMessage`, `filterStartupOutput` and the
acknowledgement; `Load`, `Store`, `Write` are one call of `sendInputPayload` by
any of its five callers; `TimerFires`, `Ready`, `NeverReady`, `StartCommand`,
`SendReturn`, `Relay`, `Ends`, `Close` are `Run`, the startup command and
the relay of a port; `Type`, `InputEnds`, `FlagSent`, `Resize` the terminal.

**ShellPipeline** (`internal/pshell`). `Type` is the joining of the parsed line
(`joinPipeLine`), its targets and its lanes; a stage then goes through `Launch`,
`Tell` (the token on the channel `exit`), `Shut` (closing its output) and its end;
`Prints`, `Filter`, `CommandExits`, `Copy`, `Push` are the command, the copying of its
output and `PushInput`, which serves the hosts in their order; `Interrupt`,
`TakeKill` are Ctrl-C; `Return` and `Back` collect the lanes, and `Return` crashes
if kills are left to send (`sending`), for the channel is closed then. `inTime`
remembers the remote stages of the lane that still ran a command at Ctrl-C. What a
stage that ends early tells and closes is said by `Told`, `OutClosed` and
`InClosed`: "usage" stands for `%out` with `--help` or a bad number and `%outexec`
with missing arguments, "mute" for `clear` and a `%history` that cannot be read. A command prints at
most `MaxOut` lines; pipes hold at most `Window` lines, which are counted.

**ConfigRead** (`internal/config`). `ReadFile`, `ReadOpenSSHConfig`,
`ReadIncludeFile` (in any order, as a Go map is ranged over),
`StartProviders`, `Take` (a place in the semaphore), `Describe`, `List`,
`MergeProviders`, `ResolveConditionalMatches`, `CheckFormat` are the steps of
`Read`; `Reduct` is `serverConfigReduct`, `Overlay` the override of a match
branch. `LastSourceWins` compares the table that these assignments build with a
definition that looks each setting up from its most specific source.

`MC*` modules add only what TLC needs: symmetry sets, the path trees of `Sync`
and `Transfer`, the command lines of `ShellPipeline`, the files and plugins of
`ConfigRead`. `*Proofs` modules hold the theorems; `MuxProofs` those of `MuxSession`
and `MuxManager`, `ConfigShellProofs` those of `ConfigRead` and `ShellPipeline`.

Operators named "Deviation" in a comment are never used by a specification:
each is a plausible bug that one property must reveal.

## 4 Runs and bounds

| Run | What it shows | Bounds, and why they are enough |
|---|---|---|
| `pipe_daemon_one` | right host, no leaked connection but where two dials crossed, refinement of `PipeService`, every request answered | an SSH host that is listed twice, a connector host and a stranger; one client with any number of requests; two connections, each lost, closed and dialled again. A request for all hosts has two goroutines for the host listed twice: they probe, redial, fail and replace each other's connection in every order, as those of two clients would |
| `pipe_session_one` | one handle, reachable daemons, truthful records, everything ends | one command line at a time, three daemon processes (the one that serves, one that stops, one that starts), crashes anywhere |
| `mux_session` | nothing lost, order but for the replay, exact replay buffer, persistence, keys in order, the daemon ends with its child | two terminals, three bytes of output, a buffer of two, three keys (prefix, detach, other): output in flight meets detach, attach and replay; a full buffer gives up one byte and keeps the other; two handlers write the record at once |
| `sync_oneway` | a destination is like its source after success, only extras or obstacles go, cycles end, later cycles repair | three paths (a file or directory `d`, `d/f` and `g`) in every arrangement on both sides, one or two workers, one edit, one failing or cut copy, a signal at any time |
| `sync_both` | both sides equal after success; the newest file survives while no copy is left half way | the same paths with two time stamps, edits on either side, the left side remote, three workers so that stale ones meet a new pool; cycles fail where a file stands in the way of a directory |
| `sync_cut` (violation) | with one cut copy the newest file is lost (`NewestNeverLost`) | two paths |
| `mount_one` | nothing stays behind, `--unmount` cleans up, a lost connection ends in an unmount | two runners of any backend one after the other, two mount attempts and two failed alive checks standing for 20 and 3, kill -9 and signals anywhere, any number of `--unmount` |
| `transfer` | files arrive or an error is printed, in one place, no worker outlives its command, commands end | all six commands, two hosts with one worker or one host with two, a directory with an empty directory, a file, and a directory with another file in it, any of which may be unreadable; files with and without contents, one failing operation, dry runs, a signal at any time: a second worker, a second host and a second file are each met |
| `mux_manager` | the page list is true, a key reaches no pane twice and with broadcast no session on the page is left out, sessions can be reached, lsmux stops only when nothing is left | three pages and five panes ever made: a selector, a page beside it and one that closes, and panes that move to the first page |
| `ssm_session` | output once and in order, input numbered in order, the session ends with its link | shells, commands and ports; three messages of the agent (handshake, marker and output meet), one message sent again, one input, one change of size |
| `shell_pipeline` | no output is cut, Ctrl-C does not end the shell, commands run where they were typed, the prompt returns | seventeen command lines of up to three stages, which cover every kind of stage in front of every other that the code treats differently; three hosts of the three kinds of connection, two of them connected; up to two lines of output through pipes of one |
| `config_read` | the last source wins, lssh ends for cause only; no deadlock, so reading ends | four servers named in every pair of sources, two includes, three providers of which two may be asked at a time, each failing at describe or inventory or answering in any order, and files that are broken in nine ways |

Bounds by name: `MaxOut`, `MaxKeys`, `MaxBuf`, `ReadMax`, `WireCap`
(`MuxSession`), `MaxEdits`, `MaxFails`, `MaxParallel` (`Sync`),
`MountRetryCount`, `AliveFailureLimit` (`MountRunner`; constants of the code),
`MaxParallel`, `MaxWorkers`, `MaxFails` (`Transfer`), `MaxPages`, `MaxPanes`
(`MuxManager`), `MaxOut`, `MaxEvents` (`SsmSession`), `MaxOut`, `Window`,
`MaxConnected` (`ShellPipeline`), and the sets of processes, hosts and
connections. Symmetry is used only where no liveness property is checked.
Deadlock is checked except in `pipe_session_one`, where all processes may have
ended and nobody has to start another, and in `shell_pipeline`, where one line is
typed and then over or hung; other models that end have a `Terminated`, `Stopped`
or `Exited` step. In `config_read` that is how it is checked that `Read` comes to
an end: every `Read` takes finitely many steps, and none stops before its end, as
one would whose providers wait for a place in the semaphore that is never free.

What the properties leave out. `NoLeakedConn` excepts connections to hosts in
`crossed`: two goroutines that redial the same host, or `connectAll` with a host
listed twice, overwrite an entry without closing it. The run has one client;
`PipeDaemon_two.cfg` has two, with one host and three connections (85,000
states), and `TypeOK`, `PooledIsUp`, `RightHost`, `ZeroMeansSuccess`,
`NoLeakedConn` and the refinement are proved for any number. `SessionPersists`
allows an empty record while a handler is writing it, and a garbled one once two
have written it at once. `FilesArrive` excepts, for push, put and pull, what
`missed` names. `KeyOncePerPane` says what broadcast reaches at least;
that it also reaches other pages is a finding. `SurvivesInterrupt` is about
Ctrl-C while a remote stage of the lane still runs a command. `NothingLost` is
limited to terminals that stay: the bytes of a send that fails with its terminal
are lost, as the code accepts. `OnlyReplayIsOvertaken` says precisely how much
disorder `attachConn` allows. `ArrivesInPlace` leaves out push and put to a
destination that did not exist, and empty directories under several workers;
`InputNumbered` leaves out terminals and ports; `SessionsReachable` and
`StopsWhenDone` leave out what `overlapped` and `orphaned` mark; `PromptReturns`
names what a stage needs to come to its end (`ComesToEnd`). Each exception is a
case in which the code does otherwise, listed in section 7.

## 5 Fairness and other assumptions

Weak fairness is given to goroutines and processes that can go on (`Work`,
`Answer`, `DaemonStep`, `CliStep`, `JobStep`, `Reader`, `Waiter`, `Handler`,
`MainStep`, `Feeder`, `HostStep`, `WorkerStep`, `RunStep`, `ReaderStep`,
`SenderStep`): the Go scheduler and the operating system run them, tickers tick,
and every such step is a bounded piece of code. `ShellPipeline`
has it for its work as a whole: a command line takes finitely many steps, so that
none can be passed over. A plugin answers, fails or is killed by its timeout. Beyond that it is assumed that remote commands, dials and local
commands end; that an attached terminal reads its socket (`Screen`), without
which `DaemonEnds` would be false: the code has no write timeout; and that TCP
gives up on a silent connection (`TransportGivesUp`). Nobody is obliged to
start, type, edit, signal, detach, lose a connection or crash, and an SSM agent
need not speak.

Three assumptions are constants that can be switched:
* `LateClose` (`PipeSession`): the shutdown of a daemon may outlast the command
  that asked for it. `Run` returns as soon as the listener is closed, so the
  process normally ends first; with `LateClose` an old daemon can remove the
  files of its successor.
* `SlowMounts` (`MountRunner`): a FUSE mount may come after `Run` has waited
  more than ten seconds and given up. With it `LeavesNothing` is false.
* `Quick` (`ShellPipeline`): within the half second that `shell.go` waits after a
  command has returned, the stages of the line have started their commands and
  what was printed is copied on. Where the session of a stage takes longer to
  open, or a reader longer to read, output of the stage in front of it is lost:
  without `Quick`, `NothingCut` is false. The same half second is enough for the
  kills of a Ctrl-C that was pressed before it began: the signal goroutine and the
  stages only pass tokens to each other. Nothing is assumed of a Ctrl-C that
  comes later, which is why `SurvivesInterrupt` speaks of `inTime`.

`Overlap` (`MountRunner`) says whether the user may start a second runner at a
mountpoint in use. `DryRunIsHarmless` assumes that the user edits the source
side only, as in `sync_oneway`.

Process identifiers are not reused. Data is abstract: contents of files are
compared, not read; all whole files have the same size, a cut file another one.

## 6 Proofs

All proofs are checked by `tlapm`; they hold for every value of the constants
that satisfies the named assumption of the module (`PipeDaemonAssumption`,
`PipeSessionAssumption`, `MuxSessionAssumption`, `SyncAssumption`,
`TransferAssumption`, `MountRunnerAssumption`, `SsmSessionAssumption`,
`MuxManagerAssumption`; `SettingsAssumption`, `ProvidersAssumption` and
`DisksAssumption` of `ConfigRead`; `ConnectsAssumption`, `KindAssumption`,
`SizeAssumption` and `TypedAssumption` of `ShellPipeline`), which TLC evaluates in
every run of that module. `TypedAssumption` says that what `joinPipeLine` makes
of a typed line is again a line of commands: the joining is a fold, and what a
fold computes would need induction over data.

* **PipeDaemonProofs**. `DaemonInv` adds to the checked invariants what they
  need to be inductive: only targets of a running request have an active
  goroutine (`ActiveIsTarget`), connector hosts never touch connections
  (`ConnectorApart`), a goroutine that has reported has an outcome
  (`OutcomeKnown`), an answered request has all of them (`DoneIsComplete`).
  Without the last two `ZeroMeansSuccess` does not follow from its own step:
  `Answer` reads outcomes that other steps wrote. From it: `TypeCorrect`,
  `PooledAlwaysUp`, `AlwaysRightHost`, `ZeroCodeIsSuccess`. `Implements` maps each
  step to a step of `PipeService` or to a stutter (a `Report` is
  `HostFinishes`; everything about connections stutters). `KeepsConns` is for any
  list of hosts and any number of clients. Its `LeakInv` speaks of the hosts to
  which no two dials crossed: there a connection is followed from the table into
  the hands of goroutines and back (`TableAgrees`). What a goroutine uses is what
  the table has, or is no longer open, and where one dials, the table has nothing
  open (`~Busy`), although others of the same host probe, fail and close.
* **PipeSessionProofs**. `SessionInv` = types, `RecordNamesConnected` and
  `JobWaits`: a request goroutine that still writes has a waiting client, so the
  copy it writes back is one that was loaded from a record. From it:
  `TypeCorrect`, `RecordIsOfConnected`. `OneHandle` and `FoundAgain` are for one
  command line at a time (`OneCli`) and daemons that end with their shutdown
  (`~LateClose`); each is false without its hypotheses (sections 5, 7). `AloneInv`
  says what the command line may assume of the one daemon that is alive at each
  point of its course: at rest it is found, before a new one is started the old
  one has ended, and the record is its own but while a request writes it back.
* **MuxProofs**, sessions. `PersistInv` gives `Persists`: until the child has
  exited `waitChild` waits, and a handler that has truncated the record finds it
  empty, and no other one at it, unless two overlapped (`Overlaps`); so each
  truncation is followed by a write, and one alone leaves the record whole. A step
  that neither begins nor ends a write leaves it alone (`WriterStays`). `TailInv`,
  with lemmas on subsequences and on the length of the bytes kept, gives
  `TailKeptForNext` for any buffer and read sizes: the buffer has exactly as many
  bytes as were read since a terminal was attached, or as fit. `OneInv` (who may hold, send to and show what before it is admitted)
  gives `OneAtATime`. For what a terminal is shown, lemmas say what showing,
  sending and leaving do to its stream, and `QuietSteps` that only `SendOutput`
  and `Replay` bring bytes to one. `OrderInv` (what is sent live is newer than
  every stream and every replay; each replay rises and none of it was sent
  before it) gives `OrderKept`. `Heard` and `Attends` say that the daemon hangs
  up only on terminals that left, or when it shuts down; with them `AllKept`
  follows each byte from the pty to the buffer, a replay or `readPTY`'s hands
  and on to a stream, which gives `NoByteLost`.
* **MuxProofs**, user interface. Every step is first reduced to what it does
  to the layout, whatever keys, clicks and callbacks cause it (`Step`): it only
  looks, it opens panes on a page, it closes a selector, or it removes a pane
  (`Looks`, `Opens`, `Closes`, `Removes`). Numbers are given out once (`Ids`), so a
  page that a selector captured is still the one it meant. `Placement`: one
  assignment of panes to pages, made when they are made, agrees with every
  page, every capture and the screen; it gives `KeysOncePerPane`: whatever the
  prefix, a key comes to a pane by the focus or by the broadcast and never by
  both, and a broadcast reaches all sessions of the page. `ListInv` gives
  `PageListNamesPages`. `SessionsStayReachable` and `StopsWhenDoneHolds` need to know
  what a selector will find when it is cancelled: it is alone on the page it
  opened (`OwnPage`), keeps the keys until it is closed unless a pane goes
  (`Captive`), and every page in the list has a session or is such a selector's
  (`Inhabited`). Without `Captive` a second selector could be opened over the
  first, which is how the code does lose sessions (section 7).
* **SyncProofs**. `SyncInv`: types; the loops of `ApplyPlan` only hold paths of
  the plan; a worker of the current pool copies a file of the plan to the side
  of the plan (a stale one only has a path); under dry run no worker opens a
  file. It is what makes a removal traceable to the plan: `RemovesOnlyExtras`
  goes through the five actions that remove something, and `DryRunIsHarmless`
  through those that write. `PlanRules` is `SyncInv` itself. `OkIsSynced` is for
  one-way cycles to a destination reached over SFTP (`OneWay`); on a local one it
  is false (section 7). Its `CopyInv` says what an undisturbed cycle has done so
  far: the plan is the source as it is, directories are made, each file is
  copied, queued, in a worker's hands or covered by an error (`FilesCopied`), a
  worker writes what the source holds, and the extras are queued. `WritesFile`
  is the step the workers share: a file of the plan is in no other's way,
  because the source is a tree. `StaleIsHarmless` uses that a failed cycle has
  closed its connection.
  `NewestSurvives` is `NewestKept` for bidirectional runs of any length, with any
  failures and signals, on local or remote sides. Its hypothesis is that the user
  edits between cycles only: a cycle overwrites an edit made after its scan. It
  rests on two invariants. `RoomInv`: no directory is in the place of a path
  whose newest contents are followed (`Tracked`) and no file above it, on either
  side, in either plan or in any worker's hands; so the main goroutine, clearing
  and making directories, never touches one (`MainSpares`). `NewestInv`: for each
  of them one side has the newest contents and wins the next comparison, or the
  other one is just being copied from it (`Leads`); the plans, of which only one
  takes the path, and the workers have these contents and their time. At a scan
  no copy is under way, so the plans take the right side (`PlanTakesNewest`);
  a worker that truncates a file has the newest contents on the other side
  (`SourceIsNewest`), and leaves a file of the same contents and time. A copy that
  is cut, or left behind by a cycle that failed, breaks this, which `halfway`
  remembers: a cut file with a new time wins (section 7).
  `SyncAssumption` says that the times the trees have at first are before the
  first edit: clocks that run apart are not modelled.
* **TransferProofs**. `Types`, with lemmas on what making directories does to a
  tree: it keeps every file. `QuietInv` (before its goroutine starts and once it
  has ended a host has no workers; a command waits for the bars when all have
  ended) gives `Quiet`. `Arrive` says, for any directory and any number of hosts,
  workers and failures, that a file of a host without an error is there, or is one
  of those that push, put and pull leave out in silence: whatever else goes wrong
  is printed. That no other command has any (`MissedSaid`) and that an item once
  missed stays so are invariants of their own. `FilesArrive` is far from
  inductive; its strengthening follows each file that was handed out
  (`FilesHandled`): a worker is busy with it, it has arrived, or one of the
  excuses holds, which are never withdrawn (`ExcusedStays`). `WorkerKeeps` shows
  it for each step of a worker, `EndsFed` that a host's goroutine ends only when
  everything was handed out or an error printed, `EndsUnstuck` that the last
  excuse, a bar that hangs, is none once the command has ended.
  `ArriveInPlace` is for commands to which nothing happened. Their workers write
  to one place only and a file has what it lies in (`PlaceInv`); a directory
  that was handed out is there (`DirsInv`), unless several workers of push or put
  passed each other. `CleanSteps` says which steps are left when nothing may
  fail, `Grown` what each of them may do to a tree. The theorem uses, as part of
  `TransferAssumption`, that a walk meets a directory before what lies in it:
  workers do not make the directory a directory lies in.
* **MountRunnerProofs**. `UnmountsWhatItFound` and `ReturnsClean` are for processes
  that do not overlap (`~Overlap`), the second also for FUSE mounts that come in
  time (`~SlowMounts`); each is false without (sections 5, 7). `MountInv`: at
  most one process is alive and at most one mount is there, which is the living
  one's (`OneMount`); a process that can be told to stop has mounted, and mounts
  once (`Mounting`); so what `--unmount` found recorded will not mount again after
  it was unmounted (`Unmounting`). With `Unmounted` (a process that is about to
  return has no mount) it is inductive for `LeavesNothing`.
* **SsmSessionProofs**. `OutInv`: messages on their way are handled in turn
  (`InTurn`), what was written rises and what is held back comes after it
  (`InOrder`), output is held back from the command to the marker at most
  (`Startup`), and each handled message is written, held back or excused
  (`AllCovered`); it gives `WritesOutputOnce`. `InInv` says in which phase of the
  session each sender may be in `sendInputPayload` and how the counter and the
  number the agent waits for go together there, which gives `NumbersInput`.
* **ConfigShellProofs**, configuration. `ReadInv` has one line per phase of `Read`: what has been
  read is in order, `fail_open` is what the files read so far say, and exactly the
  providers to be asked have been asked. `ExitsForCauseOnly` follows for any files
  and providers.
* **ConfigShellProofs**, lsshell. `ShellInv` holds of lines of any length. Its steps are
  reduced to what they do to one stage, its commands and its input (`Moves`).
  `LaunchInv`: a command that runs was launched by its stage. `KillInv`: the kills
  that a lane has left and the stages that took one add up to its stages.
  `TimeInv`: while every stage takes its kill, a remote stage that still ran a
  command at Ctrl-C tells only when none is left to send; for nothing moves then, so
  all stages have started, and those that cannot take a kill any more have taken
  one (`AllTaken`). As the lane returns when all have told, that one included, its
  signal goroutine has nothing left for the closed channel (`CtrlCIsSurvived`). `CutInv`:
  the readers behind a stage see the end of their input only after it has closed
  its output and run until then, and what it printed has gone on by the time it
  tells. That the shell waits long enough (`Quick`) is a statement about all stages behind
  it; a stage whose pipe is full waits for the next one, and so on: such
  a chain would have no end in a line that has one (`NoEndlessChain`), so
  somewhere in it something still moves. With `LanesInv` (lanes serve the targets,
  and a lane that is done has started everything) `RunsEverywhere` has the
  hypothesis `OneTarget`, without which it is false (section 7,
  `ShellPipeline_targets.cfg`).

Only model-checked: everything temporal under fairness (`RequestsAnswered`,
`CliEnds`, `DaemonEnds`, `CycleEnds`, `DaemonMends`, `LostIsUnmounted`,
`CommandEnds`, `SessionEnds`, `PromptReturns`), which is out of the
prover's reach. `KeysArrive` compares flattened sequences, which is induction
over data, and so is what the folds of `ConfigRead` compute (`LastSourceWins`).
Not attempted: the wider case of `OkMeansSynced`, which is about bidirectional
cycles.
`SingleHandle`, `Reachable`, `OkMeansSynced`, `NewestKept`, `UnmountCleans` and
`LeavesNothing` are theorems under the hypotheses named above and not of the full
systems; `NoLeakedConn`, `FilesArrive` and `SurvivesInterrupt` are theorems of the full
systems that name in the formula what they except.

## 7 Findings, and statements the code does not keep

`sync_cut` is a run that must fail; `PROJECT.json` quotes the line it
contradicts: a copy that breaks is reported as success and gets the time stamp
of the whole file; the next bidirectional cycle copies the broken file over the
whole one. The proof of `NewestKept` showed a second way to the same loss, without
any operation that fails (`Sync_conflict.cfg` of `MCSync`, first row below).

Other statements of the documentation that the models show not to hold. Each has
a configuration, which is no run of the project; TLC violates it within seconds.

| Statement | Configuration | What happens |
|---|---|---|
| the newer side wins in bidirectional mode (`cmd/lssync/README.md:72`) | `Sync_conflict.cfg` of `MCSync`, `NewestNeverLost` | a file on one side stands in the way of a directory of the other: the worker that meets it fails and the cycle returns while another worker copies to the remote side (`execute.go:189`); its connection closes, the truncated file there has a new time, and the next cycle copies it over the whole one |
| a session stays available for later commands (`cmd/lspipe/README.md:69`) | `PipeDaemon_crash.cfg` of `MCPipeDaemon`, `DaemonSurvives` | a command that fails closes the pooled connection under another client's goroutine, which then dereferences a nil client: the daemon and its session are gone (`daemon.go:446-452`, `503-506`) |
| a session is a single local handle (`cmd/lspipe/README.md:153`) | `PipeSession_race.cfg` of `MCPipeSession`, `SingleHandle` | two `lspipe` at once both find no session and both start a daemon |
| a client reports how its command ended (`behavior_test.go:142`, `179`) | `PipeSession_eof.cfg` of `MCPipeSession`, `SuccessMeansAnswered` | when a daemon dies after it read a request, the client sees the end of the stream and reports success (`client.go:78`) |
| mounts are listed (`cmd/lsshfs/README.md:72`) | `MountRunner_two.cfg` of `MCMountRunner`, `MountsAreRecorded` | a second `lsshfs` at the same mountpoint takes away the record of the first, which stays mounted (`runner.go:144`, `147`) |
| broadcast is for the panes of the page (`cmd/lsmux/README.md:190`) | `MuxManager_broadcast.cfg` of `MCMuxManager`, `BroadcastStaysOnPage` | keys go to the panes of all pages (`manager_input.go:359`) |
| a command can be limited to hosts (`cmd/lsshell/README.md:171`, `179`) | `ShellPipeline_targets.cfg` of `MCShellPipeline`, `RunsWhereTyped` | with two hosts and a `++` command in the line it runs nowhere (`executor.go:165-178`, `306-319`) |

What the models had to allow for, beyond the documentation:

* `lspipe`. A host that is named twice (`-H web01 -H web01`; the daemon only sorts
  the list, `daemon.go:85-87`) is dialled twice by `connectAll`, whose second
  connection replaces the first one in the table without closing it
  (`daemon.go:433-442`). Two goroutines that redial one host at once, of two
  clients or of one request for all hosts, do the same (`daemon.go:492`). Such a
  connection stays open until the daemon ends.
* `lsmux` sessions. `TouchSession` writes the record with `os.WriteFile`. A client
  that reads it while it is empty does not find the session: `--attach` fails, and
  `--session` (`ensureMuxSession`, `app.go:301-306`) starts a second daemon, which
  takes the socket of the first. Two handlers that write at once may leave a
  record that nobody can read until the next terminal attaches.
* Files left out with success. `common.WalkDir` passes over a directory that
  cannot be read, `push` drops what `WalkDir` returns, `put` the error of a file it
  cannot open, and the `Glob` of `pull` an error of the source
  (`common.go:339-345`, `scp/main.go:185-188`, `721`, `cmd_put.go:218`).
* Copies. Several workers of `push` or `put` that make a new destination split
  the directory over two places (`NewDestinationRenamesRoot` states what the
  path tests expect) and may lose empty directories. The bar of an empty file,
  or of a copy that broke, never completes, and the command hangs; `pull` and
  `via` hang when no worker of a host could connect. `get` that gives up leaves
  the goroutines of other hosts, and a dry `pull` makes directories.
* `lssync -D` to a local directory. A cycle that fails returns while its other
  workers still copy; their source is gone with the connection, their
  destination is not. `Sync_local.cfg` of `MCSync` shows one that cuts a file
  the next cycle has just copied and reported as done (`execute.go:189`, `224`);
  the cycle after that repairs it.
* `lsmux`. A selector opened over another one, which takes that a pane went in
  between, may take panes with it when it is cancelled; cancelling a selector whose
  page has been emptied stops `lsmux` with sessions on other pages; keys typed in
  the page list are broadcast to the panes, too; a key after the prefix that means
  nothing goes to the focused pane alone, although broadcast is on
  (`manager_input.go:200-201`); a pane that connects cannot be closed.
* SSM sessions. With a terminal or a port two senders may number two messages
  alike, or one not at all, and an older window size may be the last one sent.
  A command's exit code is always 0: `Run` takes the line that carries it out of
  the stream before `RunStreamCommand` looks for it. The flag with which the
  agent disconnects a port is ignored.
* `lsshell`. `clear`, and `%history` with a file that cannot be read
  (`cmd.go:1052-1055`), never give their token, so
  the prompt does not return; nor does it when something is piped into a
  built-in command or a target that is not connected, when `<()` fails in front
  of another stage, when `%out --help`, `%out abc` or `%outexec` without a command
  stand there, which do not close their output (`cmd.go:136-147`,
  `cmd_outexec.go:77-88`), or when a direct session's reader ends first. On direct
  connections a remote command that reads to the end of its input waits for
  ever, as in the example `hostname | +cat | cat` of `cmd/lsshell/README.md`.
  Ctrl-C sends on a closed channel when a stage takes no kill. It does so although
  all would take one when it is pressed in the half second after the last command
  has ended: the lane returns and closes the channel while the signal goroutine
  still has kills to send (`executor.go:106-107`, `141-153`;
  `ShellPipeline_late.cfg` of `MCShellPipeline` violates `SurvivesLateInterrupt`).
  With a `++` command it reaches one lane. Output is cut when the next stage takes
  more than half a second to open its session.
* Configuration. Include files are read in random order, so that a server
  defined by two of them has a random winner. A `describe` that fails is
  dropped, and the keys it would have reserved become settings of the servers.
  A malformed answer ends lssh whatever `fail_open` says. A boolean cannot be
  set back to false but by a match branch.

## 8 What is not modelled

* Windows variants (TCP endpoints, drive letters), terminal sizes, texts of
  messages and events, the event writer and stty filter of the lspipe daemon.
* `PipeSession`: the host selector, `--list`, reuse of process identifiers.
* `PipeDaemon`: the result (0, err) of a connector command whose session could
  not be opened is modelled as the outcome "error0" and excepted in
  `ZeroMeansSuccess`; what happens inside a connector is not modelled.
* `MuxSession`: two starts of one session at once (the same race as in
  `PipeSession`), resizing.
* `Sync`: several sources that map to one path, remote-to-remote runs, scans
  that see a change half way, permissions, symbolic links, file sizes, the
  process being killed during a copy, the text of a dry run, progress bars.
* `MountRunner`: the file operations served by the mount, torn records,
  busy mounts that withstand the forced commands, a mount command that outlives
  its killed runner.
* `Transfer`: an entry that vanishes between the listing and its `Lstat`, on which
  the walk function of `WalkDir` dereferences a nil `FileInfo` and the program
  ends; how hosts are chosen and dialed, several sources in one command,
  permissions, symbolic links, path syntax, the other commands of lsftp (one
  remote call per host) and its keepalive.
* `MuxManager`: how a page is divided and drawn, copy mode, mouse selection, clicks
  (one on a pane moves the focus as `next_pane` does; one on the status bar gives
  the bar the focus of the application, so that the focused pane gets no keys
  until it is focused again), the transfer wizard, logging.
* `SsmSession`: how a session is started, the WebSocket frames, the encoding and
  contents of messages; the other providers, which wrap the APIs of cloud and secret services.
* `ShellPipeline`: `&&` and `||`, the contents of history and `%out`, `%get`,
  `%put`, `%sync`, `%diff`, aliases, completion, keepalive and reconnection; a local
  command that cannot be started at all (`cmd.Start` fails, for want of processes
  or descriptors: `cmd.Process` is nil, and a Ctrl-C then panics in `p.Kill`,
  `cmd.go:1406-1421`); `%set` and `%save`, which are reserved,
  but for which `run` has no case, so that the hosts are asked to run them.
* `ConfigRead`: decoding of files, the conditions of `when` and match themselves,
  the user, address and port of OpenSSH matches, secrets, preparation of
  connectors, a plugin that ends but leaves a child holding its output (which
  outlasts the timeout).
* The FIFO bridge of lspipe: `.stdin` is stored by another goroutine than the one
  that reads `.cmd`, and which comes first is left to the writer; each of its
  requests is one of a client of `PipeDaemon`.
* Everything listed as `not_modelled` in `PROJECT.json`, with the reason.
