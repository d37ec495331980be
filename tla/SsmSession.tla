----------------------------- MODULE SsmSession -----------------------------
(***************************************************************************)
(* A native AWS SSM session: one WebSocket over which an agent on the      *)
(* instance sends numbered output, which the session acknowledges, and the *)
(* session sends numbered input.  A shell, a command (exec) or one         *)
(* forwarded TCP connection (port) runs over it.                           *)
(*                                                                         *)
(* Five goroutines send input: readLoop answers the handshake, Run sends   *)
(* the window size and the startup command, copyInput what is typed, the   *)
(* watcher of SIGWINCH a new size, and whoever closes a forwarded          *)
(* connection a flag.  The counter they number it by, s.sequence, has no   *)
(* lock: each send is a load, a store and a write.                         *)
(***************************************************************************)
EXTENDS Integers, Sequences, FiniteSets, SequencesExt

CONSTANTS
  MaxOut,     \* bound on the agent's messages
  MaxEvents   \* bound on messages sent again, input typed and changes of the window's size

ASSUME SsmSessionAssumption == {MaxOut, MaxEvents} \subseteq Nat

VARIABLES
  kind, tty,   \* "shell", "exec" or "port"; a terminal is attached
  command,     \* the startup command: "none", "plain", or "marked" (startupMarker)
  greets,      \* the agent begins with a handshake
  out,         \* what the agent has sent, message n being out[n]
  down,        \* numbers of messages on their way, in order
  link,        \* the WebSocket: "up", "ending" (the agent has closed it or it broke), "closed"
  up,          \* the input that has left: which of it the agent waits for, the next number
  sequence,    \* s.sequence
  sending,     \* the senders in sendInputPayload
  lastOutputSeq,
  ready,       \* the channel s.ready is closed
  readErr,     \* the channel, of capacity 1
  run, reader, input,  \* where Run (or the relay of a port), readLoop and copyInput are
  local,       \* port: the local connection is open
  pending,     \* s.hasPendingSize: a change of the window (what it is, is not modelled)
  suppress, buffer, \* the output of the startup command is held back, and what is
  shown,       \* the output that was written
  held,        \* the number of the last message before output was first held back
  events       \* of the three kinds that MaxEvents bounds

static == <<kind, tty, command, greets>>
agent == <<out, down>>
sender == <<up, sequence, sending>>
startup == <<suppress, buffer, shown, held>>
vars == <<static, agent, link, sender, lastOutputSeq, ready, readErr, run, reader,
          input, local, pending, startup, events>>

Capacity == 1    \* of readErr
Senders == {"reader", "run", "input", "watcher", "close"}
Idle == [at |-> "idle", reg |-> 0, what |-> "none"]

Init ==
  /\ kind \in {"shell", "exec", "port"}
  /\ tty \in IF kind = "shell" THEN BOOLEAN ELSE {FALSE}
  /\ command \in CASE kind = "shell" -> {"none", "plain", "marked"}
                   [] kind = "exec" -> {"plain"} [] OTHER -> {"none"}
  /\ greets \in IF kind = "shell" THEN BOOLEAN ELSE {TRUE}
  /\ out = <<>> /\ down = <<>> /\ link = "up"
  /\ up = [got |-> {}, next |-> 0] /\ sequence = 0
  /\ sending = [a \in Senders |-> Idle]
  /\ lastOutputSeq = 0 /\ ready = FALSE /\ readErr = 0
  /\ run = IF kind = "port" THEN "relay" ELSE "waiting"
  /\ reader = "reading" /\ input = IF kind = "port" THEN "reading" ELSE "off"
  /\ local = (kind = "port")
  /\ pending = tty
  /\ suppress = FALSE /\ buffer = <<>> /\ shown = <<>> /\ held = MaxOut
  /\ events = 0

\* Run's caller exits; the process of a forwarded connection need not.
Finished == run = "ended" /\ (kind = "port" => reader = "ended")
Lives == ~Finished

(***************************************************************************)
(* sendInputPayload, called by a: load and store of s.sequence++, then the *)
(* number is taken, from the register or by loading it again, and the      *)
(* message written.                                                        *)
(***************************************************************************)
Call(a, what) == sending' = [sending EXCEPT ![a] = [at |-> "load", reg |-> 0, what |-> what]]
Awaited == {"response", "return"}   \* what the agent waits for
Disorder == -1                      \* no number comes next
Returned(a) == sending[a].at \in {"idle", "failed"}
Succeeded(a) == sending[a].at = "idle"

Load(a) ==
  /\ Lives
  /\ sending[a].at = "load"
  /\ sending' = [sending EXCEPT ![a].at = "store", ![a].reg = sequence]
  /\ UNCHANGED <<static, agent, link, up, sequence, lastOutputSeq, ready, readErr,
                 run, reader, input, local, pending, startup, events>>
Store(a) ==
  /\ Lives
  /\ sending[a].at = "store"
  /\ sequence' = sending[a].reg + 1
  /\ sending' = [sending EXCEPT ![a].at = "write"]
  /\ UNCHANGED <<static, agent, link, up, lastOutputSeq, ready, readErr, run, reader,
                 input, local, pending, startup, events>>
\* A write to a connection that is going down may still succeed.
Write(a) ==
  /\ Lives
  /\ sending[a].at = "write"
  /\ \/ /\ link # "closed"
        /\ \E n \in {sending[a].reg, sequence - 1} :
             up' = [got |-> up.got \cup ({sending[a].what} \cap Awaited),
                    next |-> IF n = up.next THEN n + 1 ELSE Disorder]
        /\ sending' = [sending EXCEPT ![a].at = "idle", ![a].reg = 0]
     \/ /\ link # "up"
        /\ sending' = [sending EXCEPT ![a].at = "failed", ![a].reg = 0] /\ UNCHANGED up
  /\ UNCHANGED <<static, agent, link, sequence, lastOutputSeq, ready, readErr, run,
                 reader, input, local, pending, startup, events>>

Event == events < MaxEvents /\ events' = events + 1

(***************************************************************************)
(* The agent and the network (external).  The agent answers to a handshake *)
(* response by starting the program, which prints; it sends again what has *)
(* not been acknowledged; nothing overtakes on the WebSocket.              *)
(***************************************************************************)
Received(what) == what \in up.got
\* The program echoes the startup command, then prints its marker, then its output.
Printed == {"text"} \cup (IF command = "marked" /\ Received("return") THEN {"echo", "marker"} ELSE {})
AgentSends ==
  /\ link = "up" /\ Len(out) < MaxOut
  /\ \E m \in IF greets /\ out = <<>> THEN {"handshake"}
              ELSE IF greets /\ Len(out) = 1 THEN {"complete"} ELSE Printed :
       /\ m = "complete" => Received("response")
       /\ m \in {"echo", "marker"} => "marker" \notin ToSet(out)
       /\ m = "text" /\ command = "marked" /\ Received("return") => "marker" \in ToSet(out)
       /\ out' = Append(out, m)
  /\ down' = Append(down, Len(out'))
  /\ UNCHANGED <<static, link, sender, lastOutputSeq, ready, readErr, run,
                 reader, input, local, pending, startup, events>>

AgentResends ==
  /\ link = "up" /\ Event
  /\ \E n \in DOMAIN out : down' = Append(down, n)
  /\ UNCHANGED <<static, out, link, sender, lastOutputSeq, ready, readErr, run,
                 reader, input, local, pending, startup>>

\* The program has ended (channel_closed), or the connection breaks.
LinkEnds ==
  /\ link = "up" /\ link' = "ending"
  /\ UNCHANGED <<static, agent, sender, lastOutputSeq, ready, readErr, run, reader,
                 input, local, pending, startup, events>>

(***************************************************************************)
(* readLoop.                                                               *)
(***************************************************************************)
\* Writes to a local connection that has been closed fail.
Show(ns) == shown' = IF kind = "port" /\ ~local THEN shown ELSE shown \o ns

\* filterStartupOutput and the write to stdout or stderr.  A message with the
\* marker is taken for what follows it.  After three seconds all is let go.
Filter(n) ==
  IF ~suppress
  THEN Show(<<n>>) /\ UNCHANGED <<suppress, buffer, held>>
  ELSE \/ /\ Show(Append(buffer, n))
          /\ suppress' = FALSE /\ buffer' = <<>> /\ UNCHANGED held
       \/ /\ out[n] = "marker" /\ Show(<<n>>)
          /\ suppress' = FALSE /\ buffer' = <<>> /\ UNCHANGED held
       \/ /\ out[n] # "marker"
          /\ buffer' = Append(buffer, n) /\ UNCHANGED <<suppress, shown, held>>

\* Deviation: what comes twice is handled twice.
AnyMessage(n) == n > 0
\* handleOutputMessage acknowledges a message and drops it if it is not new.
NewMessage(n) == n > lastOutputSeq
\* Deviation: the session is ready before the handshake is answered.
ReadyAtOnce == TRUE
ReadyOnRequest == ready
Receive ==
  /\ reader = "reading" /\ link # "closed" /\ down # <<>>
  /\ down' = Tail(down)
  /\ LET n == Head(down) IN
     IF ~NewMessage(n)
     THEN UNCHANGED <<lastOutputSeq, ready, reader, sending, startup>>
     ELSE /\ lastOutputSeq' = n
          /\ CASE out[n] = "handshake" ->
                    /\ reader' = "answering" /\ Call("reader", "response")
                    /\ ready' = ReadyOnRequest
                    /\ UNCHANGED startup
               [] out[n] = "complete" ->
                    ready' = TRUE /\ UNCHANGED <<reader, sending, startup>>
               [] OTHER ->
                    /\ ready' = TRUE /\ Filter(n)
                    /\ UNCHANGED <<reader, sending>>
  /\ UNCHANGED <<static, out, link, up, sequence, readErr, run, input, local, pending, events>>

\* handleHandshakeRequest, after the response.
HandshakeAnswered ==
  /\ reader = "answering" /\ Returned("reader")
  /\ IF Succeeded("reader")
     THEN ready' = TRUE /\ reader' = "reading" ELSE reader' = "ending" /\ UNCHANGED ready
  /\ UNCHANGED <<static, agent, link, sender, lastOutputSeq, readErr, run, input,
                 local, pending, startup, events>>

\* The acknowledgement of a message or the next read fails, or the channel is closed.
ReceiveFails ==
  /\ reader = "reading" /\ link # "up" /\ reader' = "ending"
  /\ down' = <<>>
  /\ UNCHANGED <<static, out, link, sender, lastOutputSeq, ready, readErr, run,
                 input, local, pending, startup, events>>

\* s.readErr <- err
ReaderEnds ==
  /\ reader = "ending" /\ readErr < Capacity
  /\ readErr' = readErr + 1 /\ reader' = "ended"
  /\ UNCHANGED <<static, agent, link, sender, lastOutputSeq, ready, run, input,
                 local, pending, startup, events>>

\* The timer of startStartupSuppress, after the same three seconds, drops what
\* has been held back.
TimerFires ==
  /\ suppress
  /\ suppress' = FALSE /\ buffer' = <<>>
  /\ UNCHANGED <<static, agent, link, sender, lastOutputSeq, ready, readErr, run,
                 reader, input, local, pending, shown, held, events>>

(***************************************************************************)
(* Run.                                                                    *)
(***************************************************************************)
TakeErr == readErr > 0 /\ readErr' = readErr - 1
RunGoto(at) == run' = at

\* Both channels may be ready: select takes either.
Ready ==
  /\ run = "waiting" /\ ready
  /\ IF tty THEN RunGoto("size") /\ Call("run", "size")
            ELSE RunGoto("flush") /\ UNCHANGED sending
  /\ UNCHANGED <<static, agent, link, up, sequence, lastOutputSeq, ready, readErr,
                 reader, input, local, pending, startup, events>>
NeverReady ==
  /\ run = "waiting" /\ TakeErr /\ RunGoto("closing")
  /\ UNCHANGED <<static, agent, link, sender, lastOutputSeq, ready, reader, input,
                 local, pending, startup, events>>

\* sendCurrentTerminalSize has returned; flushPendingResize.
Flush ==
  /\ run \in {"size", "flush"} /\ Returned("run")
  /\ RunGoto("flushed") /\ pending' = FALSE
  /\ IF pending THEN Call("run", "size") ELSE UNCHANGED sending
  /\ UNCHANGED <<static, agent, link, up, sequence, lastOutputSeq, ready, readErr,
                 reader, input, local, startup, events>>

\* The startup command waits for output or three seconds, then is sent.
StartCommand ==
  /\ run = "flushed" /\ Returned("run") /\ command # "none"
  /\ RunGoto("command") /\ Call("run", "command")
  /\ IF command = "marked"
     THEN suppress' = TRUE /\ buffer' = <<>> /\ held' = lastOutputSeq /\ UNCHANGED shown
     ELSE UNCHANGED startup
  /\ UNCHANGED <<static, agent, link, up, sequence, lastOutputSeq, ready, readErr,
                 reader, input, local, pending, events>>
SendReturn ==
  /\ run = "command" /\ Succeeded("run")
  /\ RunGoto("return") /\ Call("run", "return")
  /\ UNCHANGED <<static, agent, link, up, sequence, lastOutputSeq, ready, readErr,
                 reader, input, local, pending, startup, events>>
CommandFails ==
  /\ run \in {"command", "return"} /\ sending["run"].at = "failed" /\ RunGoto("closing")
  /\ UNCHANGED <<static, agent, link, sender, lastOutputSeq, ready, readErr, reader,
                 input, local, pending, startup, events>>

\* go copyInput, and wait for the end.
Relay ==
  /\ \/ run = "flushed" /\ Returned("run") /\ command = "none"
     \/ run = "return" /\ Succeeded("run")
  /\ RunGoto("relay") /\ input' = "reading"
  /\ UNCHANGED <<static, agent, link, sender, lastOutputSeq, ready, readErr, reader,
                 local, pending, startup, events>>

\* Also the goroutine of startPortSessionRelay, which closes the local connection too.
Ends ==
  /\ run = "relay" /\ TakeErr /\ RunGoto("closing")
  /\ local' = FALSE
  /\ UNCHANGED <<static, agent, link, sender, lastOutputSeq, ready, reader, input,
                 pending, startup, events>>

\* Session.Close, and the end of Run.
Close ==
  /\ run = "closing" /\ RunGoto("ended") /\ link' = "closed" /\ down' = <<>>
  /\ UNCHANGED <<static, out, sender, lastOutputSeq, ready, readErr, reader, input,
                 local, pending, startup, events>>

(***************************************************************************)
(* Input, the window and the local connection of a port.                   *)
(***************************************************************************)
Type ==
  /\ Lives
  /\ input = "reading" /\ Event
  /\ kind = "port" => local
  /\ input' = "sending" /\ Call("input", "input")
  /\ UNCHANGED <<static, agent, link, up, sequence, lastOutputSeq, ready, readErr,
                 run, reader, local, pending, startup>>

\* copyInput and copyPortInput; a failed send is reported if there is room for it.
InputSent ==
  /\ Lives
  /\ input = "sending" /\ Returned("input")
  /\ IF Succeeded("input") THEN input' = "reading" /\ UNCHANGED readErr
     ELSE /\ input' = "ended"
          /\ readErr' = IF readErr < Capacity THEN readErr + 1 ELSE readErr
  /\ UNCHANGED <<static, agent, link, sender, lastOutputSeq, ready, run, reader,
                 local, pending, startup, events>>

\* The end of the input: copyPortInput sends a flag, or, if the relay closed the
\* connection, reports that.
InputEnds ==
  /\ Lives /\ input = "reading"
  /\ kind = "port" => ~local
  /\ IF kind = "port" /\ run = "relay" THEN input' = "flag" /\ Call("input", "flag")
                                       ELSE input' = "ended" /\ UNCHANGED sending
  /\ readErr' = IF kind = "port" /\ run # "relay" /\ readErr < Capacity THEN readErr + 1 ELSE readErr
  /\ UNCHANGED <<static, agent, link, up, sequence, lastOutputSeq, ready,
                 run, reader, local, pending, startup, events>>
FlagSent ==
  /\ input = "flag" /\ Returned("input") /\ input' = "ended"
  /\ UNCHANGED <<static, agent, link, sender, lastOutputSeq, ready, readErr, run,
                 reader, local, pending, startup, events>>

\* The window changes and the watcher calls Resize.
Resize ==
  /\ Lives
  /\ tty /\ Event /\ run # "ended" /\ Returned("watcher")
  /\ IF ready THEN Call("watcher", "size") /\ UNCHANGED pending
              ELSE pending' = TRUE /\ UNCHANGED sending
  /\ UNCHANGED <<static, agent, link, up, sequence, lastOutputSeq, ready, readErr,
                 run, reader, input, local, startup>>

\* nativePortConn.Close: the local connection, then a flag, then the session.
UserCloses ==
  /\ kind = "port" /\ local /\ local' = FALSE /\ Call("close", "flag")
  /\ UNCHANGED <<static, agent, link, up, sequence, lastOutputSeq, ready, readErr,
                 run, reader, input, pending, startup, events>>
\* Deviation: the session stays open.
UserClosedOnly ==
  /\ sending["close"].what = "flag" /\ Returned("close")
  /\ sending' = [sending EXCEPT !["close"].what = "none"]
  /\ UNCHANGED <<static, agent, link, up, sequence, lastOutputSeq, ready, readErr, run,
                 reader, input, local, pending, startup, events>>
UserClosed ==
  /\ sending["close"].what = "flag" /\ Returned("close")
  /\ link' = "closed" /\ down' = <<>> /\ sending' = [sending EXCEPT !["close"].what = "none"]
  /\ UNCHANGED <<static, out, up, sequence, lastOutputSeq, ready, readErr, run,
                 reader, input, local, pending, startup, events>>

ReaderStep == Receive \/ HandshakeAnswered \/ ReceiveFails \/ ReaderEnds
RunStep ==
  \/ Ready \/ NeverReady \/ Flush \/ StartCommand \/ SendReturn \/ CommandFails \/ Relay
  \/ Ends \/ Close
SenderStep(a) == Load(a) \/ Store(a) \/ Write(a)

Exited == Finished /\ UNCHANGED vars

Next ==
  \/ AgentSends \/ AgentResends \/ LinkEnds
  \/ ReaderStep \/ RunStep \/ TimerFires
  \/ Type \/ InputSent \/ InputEnds \/ FlagSent \/ Resize \/ UserCloses \/ UserClosed
  \/ \E a \in Senders : SenderStep(a)
  \/ Exited

Spec == Init /\ [][Next]_vars

\* The goroutines run, and calls to the network return.  Nobody need type, the
\* agent need not speak, and the link need not end.
FairSpec ==
  /\ Spec /\ WF_vars(ReaderStep) /\ WF_vars(RunStep) /\ WF_vars(UserClosed)
  /\ \A a \in Senders : WF_vars(SenderStep(a))

(***************************************************************************)
(* Properties.                                                             *)
(***************************************************************************)
\* Whatever the agent sends again, and whenever the startup command's echo is
\* held back or let go by the timer, output is written once and in order, and
\* nothing is missing but what came between the command and its marker.
HeldBack(n) == n > held /\ \A m \in 1..n : out[m] # "marker"
OutputOnce ==
  /\ \A i, j \in DOMAIN shown : i < j => shown[i] < shown[j]
  /\ \A n \in 1..lastOutputSeq :
       \/ out[n] \in {"handshake", "complete"} \/ n \in ToSet(shown)
       \/ HeldBack(n) \/ (kind = "port" /\ ~local)

\* The input of a command, and of a shell without a terminal, is numbered one
\* by one in the order it is sent: the handshake, the command, what is typed.
\* (The watcher of a terminal, and the input of a port, do not wait for others.)
InputNumbered ==
  kind = "exec" \/ (kind = "shell" /\ ~tty) => up.next # Disorder

\* When the link ends, in whatever phase, or a forwarded connection is closed,
\* Run or the relay returns and readLoop ends: nobody waits for the other.
SessionEnds == (link # "up" \/ (kind = "port" /\ ~local)) ~> Finished
=============================================================================
