----------------------------- MODULE MuxSession -----------------------------
(***************************************************************************)
(* A persistent lsmux session: the daemon that owns the pty of one mux      *)
(* child, and the terminals that attach to it (internal/lsmuxsession/      *)
(* {daemon,client,state}.go).  The daemon's goroutines are readPTY,        *)
(* waitChild, the accept loop and one handleConn per terminal; d.mu makes  *)
(* the reads and writes of client, buffer and shutdown atomic, and nothing *)
(* else.  Output is the sequence of bytes 1, 2, 3, ... the child writes.   *)
(***************************************************************************)
EXTENDS Naturals, SequencesExt

CONSTANTS
  Terms,      \* attachments, each one run of lsmux --attach, numbered as they are answered
  None,       \* no attached client
  MaxOut,     \* bound: bytes the child writes
  MaxKeys,    \* bound: keys typed at each terminal
  ReadMax,    \* the size of readPTY's buffer (8192 in the code)
  MaxBuf,     \* maxBufferedOutput (1 << 20 in the code)
  WireCap     \* messages a socket holds before a write to it blocks

ASSUME MuxSessionAssumption ==
  /\ None \notin Terms
  /\ MaxOut \in Nat /\ MaxKeys \in Nat
  /\ ReadMax \in Nat \ {0} /\ MaxBuf \in Nat /\ ReadMax <= MaxBuf
  /\ WireCap \in Nat \ {0}

\* Only so that they have an order.
ASSUME TermsAssumption == Terms \subseteq Nat

VARIABLES
  child,      \* the mux child: "running" or "exited"
  made,       \* bytes the child has written to the pty
  got,        \* bytes readPTY has taken from it
  ptyOpen,    \* the daemon's end of the pty is open
  reader,     \* the goroutine readPTY: where it is, what it sends and to whom
  waiter,     \* the goroutine waitChild, and Close, which it ends in
  told,       \* the client waitChild read under the lock
  client,     \* d.client
  buffer,     \* d.buffer
  unsent,     \* history: bytes read for the buffer since it was last handed over
  shutdown,   \* d.shutdown
  listener,   \* "open", "unlinked" (its path is gone) or "closed"
  ended,      \* the daemon process is gone
  record,     \* the session's record file: "none", "empty" (truncated), "whole",
              \* or "mixed" of what two handlers wrote, which nobody can read
  overlap,    \* history: two handlers have saved the record at the same time
  handler,    \* the goroutine attachConn of each terminal
  replay,     \* its local variable buffered
  conn,       \* the daemon's end of each connection is open
  wire,       \* messages on their way to the terminal
  up,         \* messages on their way to the daemon (none once it has hung up)
  term,       \* the terminal's process: "idle", "open" or "left"
  shown,      \* the bytes it has written to its screen
  prefixed,   \* pendingPrefix of its stdin goroutine
  typed,      \* the keys typed at it
  fed         \* the keys of that terminal the pty was given

ptyVars == <<child, made, got, ptyOpen>>
readerVars == <<reader>>
closeVars == <<waiter, told, shutdown, listener, ended>>
attachVars == <<client, buffer, unsent>>
recordVars == <<record, overlap>>
handlerVars == <<handler, replay, conn, fed>>
termVars == <<term, shown, prefixed, typed>>
vars == <<ptyVars, readerVars, closeVars, attachVars, recordVars, handlerVars, wire, up, termVars>>

Keys == {"text", "prefix", "detach"}
Message(t, d) == [type |-> t, data |-> d]
Idle == [at |-> "read", to |-> None, data |-> <<>>]

Init ==
  /\ child = "running" /\ made = 0 /\ got = 0 /\ ptyOpen = TRUE
  /\ reader = Idle
  /\ waiter = "wait" /\ told = None
  /\ client = None /\ buffer = <<>> /\ unsent = 0 /\ shutdown = FALSE
  /\ listener = "open" /\ ended = FALSE /\ record = "whole" /\ overlap = FALSE
  /\ handler = [c \in Terms |-> "none"]
  /\ replay = [c \in Terms |-> <<>>]
  /\ conn = [c \in Terms |-> FALSE]
  /\ wire = [c \in Terms |-> <<>>]
  /\ up = [c \in Terms |-> <<>>]
  /\ term = [c \in Terms |-> "idle"]
  /\ shown = [c \in Terms |-> <<>>]
  /\ prefixed = [c \in Terms |-> FALSE]
  /\ typed = [c \in Terms |-> <<>>]
  /\ fed = [c \in Terms |-> <<>>]

(***************************************************************************)
(* Connections.  A write to a connection that either side has closed fails *)
(* at once; one to a full socket waits.                                    *)
(***************************************************************************)
Broken(c) == ~conn[c] \/ term[c] # "open"

Sends(c, m) ==
  /\ ~Broken(c) => Len(wire[c]) < WireCap
  /\ wire' = IF Broken(c) THEN wire ELSE [wire EXCEPT ![c] = Append(@, m)]

\* detachClient: only the terminal that is attached is cleared, the
\* connection is closed in any case.
Detach(c) ==
  /\ client' = IF client = c THEN None ELSE client
  /\ conn' = [conn EXCEPT ![c] = FALSE]
  /\ UNCHANGED <<buffer, unsent>>

\* Bound: keys are typed by one terminal alone, while the child is silent.
Typing == \E c \in Terms : typed[c] # <<>>
OnlyTypes(c) == made = 0 /\ \A d \in Terms \ {c} : term[d] = "idle"

(***************************************************************************)
(* The child, and lsmux --kill-session.                                    *)
(***************************************************************************)
\* Bound: the child is at most one read ahead.
Produce ==
  /\ child = "running" /\ made < MaxOut /\ made < got + ReadMax /\ ~Typing
  /\ made' = made + 1
  /\ UNCHANGED <<child, got, ptyOpen, readerVars, closeVars, attachVars, recordVars, handlerVars,
                 wire, up, termVars>>

ChildExits ==
  /\ child = "running"
  /\ child' = "exited"
  /\ UNCHANGED <<made, got, ptyOpen, readerVars, closeVars, attachVars, recordVars, handlerVars,
                 wire, up, termVars>>

\* Deviation: the record is removed, nothing is killed.
KillSessionSparesChild ==
  /\ record = "whole"
  /\ record' = "none" /\ UNCHANGED overlap
  /\ listener' = IF listener = "open" THEN "unlinked" ELSE listener
  /\ UNCHANGED <<child, made, got, ptyOpen, readerVars, waiter, told, shutdown, ended, attachVars,
                 handlerVars, wire, up, termVars>>

\* killMuxSession loads the record, whose pid is the child's and not the
\* daemon's, kills it and calls RemoveSession, which removes the socket if it
\* can read the record again.  When others come in between the two, the kill
\* is a ChildExits and this is the rest.
KillSession ==
  /\ record = "whole" \/ (record \in {"empty", "mixed"} /\ child = "exited")
  /\ child' = "exited"
  /\ record' = "none" /\ UNCHANGED overlap
  /\ listener' = IF record = "whole" /\ listener = "open" THEN "unlinked" ELSE listener
  /\ UNCHANGED <<made, got, ptyOpen, readerVars, waiter, told, shutdown, ended, attachVars,
                 handlerVars, wire, up, termVars>>

(***************************************************************************)
(* readPTY: broadcastOutput decides under d.mu, then sends without it.     *)
(***************************************************************************)
\* Deviation: a full buffer is emptied instead of trimmed.
BufferedStartsAnew(old, data) ==
  IF Len(old) + Len(data) <= MaxBuf THEN old \o data ELSE data

\* Deviation: the new bytes are put before the old ones.
BufferedInFront(old, data) == data \o old

\* appendBufferedOutput: the oldest bytes make room for the new ones.
Buffered(old, data) ==
  LET trim == (Len(old) + Len(data)) - MaxBuf
  IN  IF Len(old) + Len(data) <= MaxBuf THEN old \o data
      ELSE IF trim > Len(old) THEN data
      ELSE SubSeq(old, trim + 1, Len(old)) \o data

Bytes(first, last) == [i \in 1..((last + 1) - first) |-> (first + i) - 1]

Broadcast ==
  /\ reader.at = "read" /\ ptyOpen /\ ~ended
  /\ \E n \in 1..ReadMax :
       /\ got + n <= made
       /\ got' = got + n
       /\ LET data == Bytes(got + 1, got + n)
          IN  IF client = None
              THEN /\ buffer' = Buffered(buffer, data) /\ unsent' = unsent + n
                   /\ UNCHANGED reader
              ELSE /\ reader' = [at |-> "send", to |-> client, data |-> data]
                   /\ UNCHANGED <<buffer, unsent>>
  /\ UNCHANGED <<child, made, ptyOpen, closeVars, client, recordVars, handlerVars, wire, up, termVars>>

SendOutput ==
  /\ reader.at = "send" /\ ~ended
  /\ Sends(reader.to, Message("output", reader.data))
  /\ reader' = IF Broken(reader.to) THEN [reader EXCEPT !.at = "failed"] ELSE Idle
  /\ UNCHANGED <<ptyVars, closeVars, attachVars, recordVars, handlerVars, up, termVars>>

SendFailed ==
  /\ reader.at = "failed" /\ ~ended
  /\ Detach(reader.to)
  /\ reader' = Idle
  /\ UNCHANGED <<ptyVars, closeVars, recordVars, handler, replay, fed, wire, up, termVars>>

\* Read fails: the pty is closed, or the child is gone and the pty is empty.
ReadEnds ==
  /\ reader.at = "read" /\ ~ended
  /\ ptyOpen => child = "exited" /\ got = made
  /\ reader' = [Idle EXCEPT !.at = "done"]
  /\ UNCHANGED <<ptyVars, closeVars, attachVars, recordVars, handlerVars, wire, up, termVars>>

(***************************************************************************)
(* waitChild and Close.                                                    *)
(***************************************************************************)
Waits(from, to) ==
  /\ waiter = from /\ waiter' = to /\ ~ended
  /\ UNCHANGED <<child, made, got, readerVars, attachVars, handler, replay, fed, up, termVars>>

ChildWaited ==
  /\ child = "exited"
  /\ Waits("wait", IF client = None THEN "close" ELSE "tell")
  /\ told' = client
  /\ UNCHANGED <<ptyOpen, shutdown, listener, ended, recordVars, conn, wire>>

TellExit ==
  /\ Waits("tell", "close")
  /\ Sends(told, Message("exit", <<>>))
  /\ told' = None
  /\ UNCHANGED <<ptyOpen, shutdown, listener, ended, recordVars, conn>>

CloseMark ==
  /\ Waits("close", "closing")
  /\ shutdown' = TRUE
  /\ told' = client
  /\ UNCHANGED <<ptyOpen, listener, ended, recordVars, conn, wire>>

CloseConns ==
  /\ Waits("closing", "closed")
  /\ conn' = IF told = None THEN conn ELSE [conn EXCEPT ![told] = FALSE]
  /\ listener' = "closed"
  /\ told' = None
  /\ UNCHANGED <<ptyOpen, shutdown, ended, recordVars, wire>>

\* The pty is closed, the child killed (it is gone) and RemoveSession called.
CloseRest ==
  /\ Waits("closed", "done")
  /\ ptyOpen' = FALSE
  /\ record' = "none" /\ UNCHANGED overlap
  /\ UNCHANGED <<told, shutdown, listener, ended, conn, wire>>

\* Deviation: every error of Accept is taken for a temporary one.
ExitRetries ==
  /\ shutdown /\ listener = "closed" /\ ~ended
  /\ UNCHANGED vars

\* Accept fails after the listener was closed: Run returns and the process
\* ends, wherever the goroutine that runs Close has come.
Exit ==
  /\ shutdown /\ listener = "closed" /\ ~ended
  /\ ended' = TRUE
  /\ ptyOpen' = FALSE
  /\ conn' = [c \in Terms |-> FALSE]
  /\ up' = [c \in Terms |-> <<>>]
  /\ UNCHANGED <<child, made, got, readerVars, waiter, told, shutdown, listener, attachVars, recordVars,
                 handler, replay, fed, wire, termVars>>

(***************************************************************************)
(* handleConn and attachConn, one goroutine per terminal.                  *)
(***************************************************************************)
Handles(c, from, to) ==
  /\ handler[c] = from /\ ~ended
  /\ handler' = [handler EXCEPT ![c] = to]
  /\ UNCHANGED <<ptyVars, readerVars, closeVars, termVars>>

\* The terminals are numbered in the order in which their hello is answered.
InTurn(c) == \A d \in Terms : d < c => handler[d] \notin {"none", "hello"}

\* Deviation: the buffer is reset before it is copied.
AttachResetsFirst(c) ==
  /\ InTurn(c) /\ client = None
  /\ Handles(c, "hello", "replay")
  /\ client' = c
  /\ replay' = [replay EXCEPT ![c] = <<>>]
  /\ buffer' = <<>> /\ unsent' = 0
  /\ UNCHANGED <<recordVars, conn, fed, wire, up>>

Attach(c) ==
  /\ InTurn(c) /\ client = None
  /\ Handles(c, "hello", "replay")
  /\ client' = c
  /\ replay' = [replay EXCEPT ![c] = buffer]
  /\ buffer' = <<>> /\ unsent' = 0
  /\ UNCHANGED <<recordVars, conn, fed, wire, up>>

\* "session is already attached"
Refuse(c) ==
  /\ InTurn(c) /\ client # None
  /\ Handles(c, "hello", "refused")
  /\ Sends(c, Message("error", <<>>))
  /\ conn' = [conn EXCEPT ![c] = FALSE]
  /\ up' = [up EXCEPT ![c] = <<>>]
  /\ UNCHANGED <<recordVars, attachVars, replay, fed>>

Replay(c) ==
  /\ Handles(c, "replay", "touch")
  /\ IF replay[c] = <<>> THEN UNCHANGED wire ELSE Sends(c, Message("output", replay[c]))
  /\ UNCHANGED <<recordVars, attachVars, replay, conn, fed, up>>

\* LoadSession, and SaveSession if there was a record it could read: WriteFile
\* truncates the file, or makes it again, ...  The handler of a terminal that
\* was lost may still be at it when that of the next one comes.
TouchLoad(c) ==
  /\ Handles(c, "touch", IF record = "whole" THEN "save" ELSE "loop")
  /\ UNCHANGED <<recordVars, attachVars, replay, conn, fed, wire, up>>

TouchTruncate(c) ==
  /\ Handles(c, "save", "write")
  /\ record' = "empty"
  /\ overlap' = (overlap \/ \E d \in Terms : handler[d] = "write")
  /\ UNCHANGED <<attachVars, replay, conn, fed, wire, up>>

\* ... and then writes it from its start.  A record that another handler wrote
\* in between may be longer (a time is written without trailing zeros), and its
\* end stays.  If it was removed in between, the write goes to a file without
\* a name, whatever another terminal has made since.
TouchWrite(c) ==
  /\ Handles(c, "write", "loop")
  /\ \/ record = "empty" /\ record' = "whole"
     \/ record \in {"whole", "mixed"} /\ record' \in {"whole", "mixed"}
     \/ child = "exited" /\ UNCHANGED record
  /\ UNCHANGED <<overlap, attachVars, replay, conn, fed, wire, up>>

\* The decoder may still hold messages of a connection that was closed.
Takes(c) == up[c] # <<>> /\ up' = [up EXCEPT ![c] = Tail(@)]

ReceiveInput(c) ==
  /\ ptyOpen
  /\ Handles(c, "loop", "loop")
  /\ Takes(c) /\ Head(up[c]).type = "input"
  /\ fed' = [fed EXCEPT ![c] = @ \o Head(up[c]).data]
  /\ UNCHANGED <<recordVars, attachVars, replay, conn, wire>>

ReceiveDetach(c) ==
  /\ Handles(c, "loop", "gone")
  /\ up[c] # <<>>
  /\ up' = [up EXCEPT ![c] = <<>>]
  /\ ptyOpen => Head(up[c]).type = "detach"
  /\ Detach(c)
  /\ UNCHANGED <<recordVars, replay, fed, wire>>

ReceiveFails(c) ==
  /\ Handles(c, "loop", "gone")
  /\ conn[c] => term[c] # "open" /\ up[c] = <<>>
  /\ up' = [up EXCEPT ![c] = <<>>]
  /\ Detach(c)
  /\ UNCHANGED <<recordVars, replay, fed, wire>>

(***************************************************************************)
(* The attaching process: lsmuxsession.Attach.                             *)
(***************************************************************************)
TermUnchanged == UNCHANGED <<ptyVars, readerVars, closeVars, attachVars, recordVars>>

Dial(c) ==
  /\ term[c] = "idle" /\ record = "whole" /\ listener = "open" /\ ~Typing
  /\ term' = [term EXCEPT ![c] = "open"]
  /\ conn' = [conn EXCEPT ![c] = TRUE]
  /\ handler' = [handler EXCEPT ![c] = "hello"]
  /\ TermUnchanged
  /\ UNCHANGED <<replay, fed, wire, up, shown, prefixed, typed>>

\* Attach returns and closes the connection; what was on its way is lost, and
\* what was shown is no longer followed.
Leaves(c) ==
  /\ term' = [term EXCEPT ![c] = "left"]
  /\ wire' = [wire EXCEPT ![c] = <<>>]
  /\ shown' = [shown EXCEPT ![c] = <<>>]

Show(c) ==
  /\ term[c] = "open" /\ wire[c] # <<>>
  /\ IF Head(wire[c]).type = "output"
     THEN /\ shown' = [shown EXCEPT ![c] = @ \o Head(wire[c]).data]
          /\ wire' = [wire EXCEPT ![c] = Tail(@)]
          /\ UNCHANGED term
     ELSE Leaves(c)
  /\ TermUnchanged
  /\ UNCHANGED <<handlerVars, up, prefixed, typed>>

SeeEnd(c) ==
  /\ term[c] = "open" /\ wire[c] = <<>> /\ ~conn[c]
  /\ Leaves(c)
  /\ TermUnchanged
  /\ UNCHANGED <<handlerVars, up, prefixed, typed>>

Says(c, t, keys) == up' = [up EXCEPT ![c] = Append(@, Message(t, keys))]

\* Deviation: the key after a prefix is sent without the prefix.
TypeDropsPrefix(c, k) ==
  /\ term[c] = "open" /\ Len(typed[c]) < MaxKeys /\ OnlyTypes(c)
  /\ typed' = [typed EXCEPT ![c] = Append(@, k)]
  /\ prefixed' = [prefixed EXCEPT ![c] = ~@ /\ k = "prefix"]
  /\ IF ~prefixed[c] /\ k = "prefix" THEN UNCHANGED <<up, term, wire, shown>>
     ELSE IF ~conn[c] THEN Leaves(c) /\ UNCHANGED up
     ELSE IF prefixed[c] /\ k = "detach" THEN Says(c, "detach", <<>>) /\ Leaves(c)
     ELSE Says(c, "input", <<k>>) /\ UNCHANGED <<term, wire, shown>>
  /\ TermUnchanged
  /\ UNCHANGED <<handlerVars, shown>>

\* One byte of stdin.  The send fails if the daemon has hung up.
Type(c, k) ==
  /\ term[c] = "open" /\ Len(typed[c]) < MaxKeys /\ OnlyTypes(c)
  /\ typed' = [typed EXCEPT ![c] = Append(@, k)]
  /\ prefixed' = [prefixed EXCEPT ![c] = ~@ /\ k = "prefix"]
  /\ IF ~prefixed[c] /\ k = "prefix" THEN UNCHANGED <<up, term, wire, shown>>
     ELSE IF ~conn[c] THEN Leaves(c) /\ UNCHANGED up
     ELSE IF ~prefixed[c] THEN Says(c, "input", <<k>>) /\ UNCHANGED <<term, wire, shown>>
     ELSE IF k = "detach" THEN Says(c, "detach", <<>>) /\ Leaves(c)
     ELSE Says(c, "input", <<"prefix", k>>) /\ UNCHANGED <<term, wire, shown>>
  /\ TermUnchanged
  /\ UNCHANGED handlerVars

StdinEnds(c) ==
  /\ term[c] = "open"
  /\ IF conn[c] THEN Says(c, "detach", <<>>) ELSE UNCHANGED up
  /\ Leaves(c)
  /\ TermUnchanged
  /\ UNCHANGED <<handlerVars, prefixed, typed>>

\* The terminal is killed or its machine loses it.
Vanish(c) ==
  /\ term[c] = "open"
  /\ Leaves(c)
  /\ TermUnchanged
  /\ UNCHANGED <<handlerVars, up, prefixed, typed>>

Terminated ==
  /\ ended /\ \A c \in Terms : term[c] # "open"
  /\ UNCHANGED vars

Reader == Broadcast \/ SendOutput \/ SendFailed \/ ReadEnds
Waiter == ChildWaited \/ TellExit \/ CloseMark \/ CloseConns \/ CloseRest
Handler(c) ==
  \/ Attach(c) \/ Refuse(c) \/ Replay(c) \/ TouchLoad(c)
  \/ TouchTruncate(c) \/ TouchWrite(c)
  \/ ReceiveInput(c) \/ ReceiveDetach(c) \/ ReceiveFails(c)
Screen(c) == Show(c) \/ SeeEnd(c)
Keyboard(c) == StdinEnds(c) \/ Vanish(c) \/ \E k \in Keys : Type(c, k)

Next ==
  \/ Produce \/ ChildExits \/ KillSession
  \/ Reader \/ Waiter \/ Exit
  \/ \E c \in Terms : Dial(c) \/ Handler(c) \/ Screen(c) \/ Keyboard(c)
  \/ Terminated

\* The goroutines run, and an attached terminal reads its connection; nobody
\* has to attach, type, leave or exit.
Fairness ==
  /\ WF_vars(Reader) /\ WF_vars(Waiter) /\ WF_vars(Exit)
  /\ \A c \in Terms : WF_vars(Handler(c)) /\ WF_vars(Screen(c))

Spec == Init /\ [][Next]_vars
FairSpec == Spec /\ Fairness

(***************************************************************************)
(* Properties.                                                             *)
(***************************************************************************)
Serving(c) == handler[c] \in {"replay", "touch", "save", "write", "loop"}
MessageTypes == {"output", "exit", "error", "input", "detach"}

\* Types, and that readPTY holds a client exactly while it sends to one.
TypeOK ==
  /\ child \in {"running", "exited"} /\ made \in 0..MaxOut /\ got \in 0..made
  /\ ptyOpen \in BOOLEAN /\ shutdown \in BOOLEAN /\ ended \in BOOLEAN
  /\ record \in {"none", "empty", "mixed", "whole"} /\ overlap \in BOOLEAN
  /\ unsent \in 0..got
  /\ \/ reader \in {Idle, [Idle EXCEPT !.at = "done"]}
     \/ reader.at \in {"send", "failed"} /\ reader.to \in Terms
  /\ waiter \in {"wait", "tell", "close", "closing", "closed", "done"}
  /\ told \in Terms \cup {None} /\ (waiter = "tell" => told # None)
  /\ client \in Terms \cup {None}
  /\ listener \in {"open", "unlinked", "closed"}
  /\ handler \in [Terms -> {"none", "hello", "replay", "touch", "save", "write",
                         "loop", "gone", "refused"}]
  /\ conn \in [Terms -> BOOLEAN]
  /\ term \in [Terms -> {"idle", "open", "left"}]
  /\ prefixed \in [Terms -> BOOLEAN]
  /\ \A c \in Terms :
       /\ \A s \in {buffer, replay[c], shown[c]} : ToSet(s) \subseteq 1..got
       /\ \A m \in ToSet(wire[c]) \cup ToSet(up[c]) : m.type \in MessageTypes
       /\ Len(wire[c]) <= WireCap
       /\ ToSet(typed[c]) \cup ToSet(fed[c]) \subseteq Keys

\* However a terminal is lost (its own detach, an error of its handler or a
\* failed send of readPTY that comes late), at most one connection is served
\* at a time, and d.client names it; one that was refused is shown nothing
\* and its keys go nowhere.
OneAttached ==
  \A c \in Terms :
    /\ Serving(c) /\ conn[c] => client = c
    /\ handler[c] = "refused" => fed[c] = <<>> /\ shown[c] = <<>>

\* The buffer is exactly the end of what was read, all of it that fits and was
\* not handed to a terminal: appendBufferedOutput gives up no byte too early,
\* keeps none too long, and nothing is buffered for an attached terminal.
BufferIsTail ==
  /\ Len(buffer) = IF unsent <= MaxBuf THEN unsent ELSE MaxBuf
  /\ buffer = Bytes((got - Len(buffer)) + 1, got)
  /\ buffer # <<>> => client = None

\* What a terminal was shown, and the messages on their way to it.
Pieces(c) == 0..Len(wire[c])
Piece(c, p) == IF p = 0 THEN shown[c] ELSE wire[c][p].data

\* The bytes that are in the daemon's hands.
InHand(c) == IF handler[c] = "replay" THEN replay[c] ELSE <<>>
Streamed(c) == UNION {ToSet(Piece(c, p)) : p \in Pieces(c)}
Held ==
  (UNION {Streamed(c) \cup ToSet(InHand(c)) : c \in Terms}) \cup ToSet(buffer) \cup ToSet(reader.data)

\* While every terminal that attached is still there, and nothing had to make
\* room in the buffer, every byte read is on a screen or on its way to one.
NothingLost ==
  (got <= MaxBuf /\ ~shutdown /\ \A c \in Terms : term[c] # "left") => 1..got \subseteq Held

\* Only the replay of the buffer, which attachConn sends after it unlocked,
\* can be overtaken, and only by output that is sent live: the replay itself
\* and the live output are each shown in the order of the pty.
OnlyReplayIsOvertaken ==
  \A c \in Terms : \A p, q \in Pieces(c) :
    \A i \in DOMAIN Piece(c, p), j \in DOMAIN Piece(c, q) :
      (p < q \/ (p = q /\ i < j)) /\ Piece(c, p)[i] > Piece(c, q)[j] =>
        Piece(c, q)[j] \in ToSet(replay[c]) /\ Piece(c, p)[i] \notin ToSet(replay[c])

\* Every key reaches the pty once and in order, a prefix that is still waiting
\* for its second key excepted, and the key that detaches.
Sent(c) == fed[c] \o FlattenSeq([i \in DOMAIN up[c] |-> up[c][i].data])
Waiting(c) == IF prefixed[c] THEN <<"prefix">> ELSE <<>>
KeysArrive ==
  \A c \in Terms :
    /\ IsPrefix(fed[c], typed[c])
    /\ term[c] = "open" /\ conn[c] => Sent(c) \o Waiting(c) = typed[c]

\* The session outlives its terminals: until the child has exited the daemon
\* listens and does not shut down, and its record is there for others to read:
\* only --kill-session removes it.  It cannot be read for the moment in which
\* the handler of a terminal, perhaps one that left, has truncated it and is
\* about to write it, and for good only if two handlers saved it at the same
\* time: no order of the saves leaves it empty.
SessionPersists ==
  child = "running" =>
    /\ listener = "open" /\ ~shutdown /\ ~ended /\ ptyOpen
    /\ \/ record = "whole"
       \/ record = "empty" /\ \E c \in Terms : handler[c] = "write"
       \/ record = "mixed" /\ overlap

\* After the child has exited, the daemon ends.
DaemonEnds == child = "exited" ~> ended

=============================================================================
