------------------------------ MODULE MuxProofs ------------------------------
(***************************************************************************)
(* Proofs about lsmux.  The first part is about persistent sessions, for   *)
(* any number of terminals and any sizes of the buffers; the second about  *)
(* the pages, panes and selectors of the user interface, for any number of *)
(* pages and panes.                                                        *)
(***************************************************************************)
EXTENDS MuxSession, MuxManager, SequenceTheorems, TLAPS

(***************************************************************************)
(* The buffer.                                                             *)
(***************************************************************************)
LEMMA LenBytes ==
  ASSUME NEW first \in Nat, NEW last \in Nat, first <= last + 1
  PROVE  /\ Bytes(first, last) \in Seq(Nat)
         /\ Len(Bytes(first, last)) = (last + 1) - first
<1>1. (last + 1) - first \in Nat
  OBVIOUS
<1>2. \A i \in 1..((last + 1) - first) : (first + i) - 1 \in Nat
  OBVIOUS
<1> QED
  BY <1>1, <1>2, IsASeq DEF Bytes

\* The last k of the first g bytes of output.
LEMMA LastBytes ==
  ASSUME NEW g \in Nat, NEW k \in 0..g
  PROVE  /\ Bytes((g - k) + 1, g) \in Seq(Nat)
         /\ Len(Bytes((g - k) + 1, g)) = k
         /\ \A i \in 1..k : Bytes((g - k) + 1, g)[i] = (g - k) + i
<1>1. (g - k) + 1 \in Nat /\ (g - k) + 1 <= g + 1 /\ (g + 1) - ((g - k) + 1) = k
  OBVIOUS
<1>2. Bytes((g - k) + 1, g) \in Seq(Nat) /\ Len(Bytes((g - k) + 1, g)) = k
  BY <1>1, LenBytes
<1>3. ASSUME NEW i \in 1..k
      PROVE  Bytes((g - k) + 1, g)[i] = (g - k) + i
  BY <1>1 DEF Bytes
<1> QED
  BY <1>2, <1>3

Fits(n) == IF n <= MaxBuf THEN n ELSE MaxBuf

\* appendBufferedOutput keeps the end of the output, as much as fits.
LEMMA BufferedIsTail ==
  ASSUME NEW g \in Nat, NEW b \in 0..g, b <= MaxBuf, NEW n \in 1..ReadMax
  PROVE  \E k \in 0..(g + n) :
           /\ k <= MaxBuf /\ k = Fits(b + n)
           /\ Buffered(Bytes((g - b) + 1, g), Bytes(g + 1, g + n)) = Bytes(((g + n) - k) + 1, g + n)
           /\ Len(Buffered(Bytes((g - b) + 1, g), Bytes(g + 1, g + n))) = k
<1> DEFINE old == Bytes((g - b) + 1, g)
           data == Bytes(g + 1, g + n)
           tail(k) == Bytes(((g + n) - k) + 1, g + n)
<1> USE MuxSessionAssumption
<1>1. /\ old \in Seq(Nat) /\ Len(old) = b
      /\ \A i \in 1..b : old[i] = (g - b) + i
  BY LastBytes
<1>2. /\ data \in Seq(Nat) /\ Len(data) = n
      /\ \A i \in 1..n : data[i] = g + i
  <2>1. g + n \in Nat /\ n \in 0..(g + n) /\ (g + n) - n = g
    OBVIOUS
  <2> QED
    BY <2>1, LastBytes
<1>3. ASSUME NEW k \in 0..(g + n)
      PROVE  /\ tail(k) \in Seq(Nat) /\ Len(tail(k)) = k
             /\ \A i \in 1..k : tail(k)[i] = ((g + n) - k) + i
  <2>1. g + n \in Nat
    OBVIOUS
  <2> QED
    BY <2>1, LastBytes
<1> HIDE DEF old, data, tail
<1>4. CASE b + n <= MaxBuf
  <2>1. b + n \in 0..(g + n)
    OBVIOUS
  <2>2. Buffered(old, data) = old \o data
    BY <1>1, <1>2, <1>4 DEF Buffered
  <2>3. /\ old \o data \in Seq(Nat) /\ Len(old \o data) = b + n
        /\ \A i \in 1..(b + n) : (old \o data)[i] = IF i <= b THEN old[i] ELSE data[i - b]
    <3>1. /\ old \o data \in Seq(Nat) /\ Len(old \o data) = Len(old) + Len(data)
          /\ \A i \in 1..(Len(old) + Len(data)) :
               (old \o data)[i] = IF i <= Len(old) THEN old[i] ELSE data[i - Len(old)]
      <4>1. old \in Seq(Nat) /\ data \in Seq(Nat)
        BY <1>1, <1>2
      <4> QED
        BY <4>1, ConcatProperties, Zenon
    <3>2. Len(old) = b /\ Len(data) = n
      BY <1>1, <1>2
    <3> QED
      BY <3>1, <3>2
  <2>4. ASSUME NEW i \in 1..(b + n)
        PROVE  (old \o data)[i] = tail(b + n)[i]
    <3>1. tail(b + n)[i] = (g - b) + i
      BY <1>3, <2>1
    <3>2. CASE i <= b
      BY <1>1, <2>3, <3>1, <3>2
    <3>3. CASE ~(i <= b)
      BY <1>2, <2>3, <3>1, <3>3
    <3> QED
      BY <3>2, <3>3
  <2>5. old \o data = tail(b + n)
    BY <1>3, <2>1, <2>3, <2>4, SeqEqual
  <2> QED
    BY <1>4, <2>1, <2>2, <2>3, <2>5 DEF old, data, tail, Fits
<1>5. CASE ~(b + n <= MaxBuf)
  <2> DEFINE trim == (b + n) - MaxBuf
             rest == SubSeq(old, trim + 1, b)
  <2>1. trim \in 1..b /\ MaxBuf \in 0..(g + n) /\ b - trim = MaxBuf - n
    BY <1>5
  <2>2. Buffered(old, data) = rest \o data
    BY <1>1, <1>2, <1>5, <2>1 DEF Buffered
  <2>3. /\ rest \in Seq(Nat) /\ Len(rest) = b - trim
        /\ \A i \in 1..(b - trim) : rest[i] = old[trim + i]
    <3>1. trim + 1 \in Int /\ b \in Int
      BY <2>1
    <3>2. \A i \in (trim + 1)..b : old[i] \in Nat
      BY <1>1, <2>1
    <3>3. /\ rest \in Seq(Nat)
          /\ Len(rest) = IF trim + 1 <= b THEN (b - (trim + 1)) + 1 ELSE 0
          /\ \A i \in 1..((b - (trim + 1)) + 1) : rest[i] = old[((trim + 1) + i) - 1]
      BY <3>1, <3>2, SubSeqProperties
    <3> HIDE DEF rest
    <3>4. Len(rest) = b - trim
      BY <2>1, <3>3
    <3>5. ASSUME NEW i \in 1..(b - trim)
          PROVE  rest[i] = old[trim + i]
      <4>1. i \in 1..((b - (trim + 1)) + 1) /\ ((trim + 1) + i) - 1 = trim + i
        BY <2>1
      <4> QED
        BY <3>3, <4>1
    <3> QED
      BY <3>3, <3>4, <3>5
  <2> HIDE DEF rest
  <2>4. /\ rest \o data \in Seq(Nat) /\ Len(rest \o data) = MaxBuf
        /\ \A i \in 1..MaxBuf :
             (rest \o data)[i] = IF i <= b - trim THEN rest[i] ELSE data[i - (b - trim)]
    BY <1>2, <2>1, <2>3, ConcatProperties
  <2>5. ASSUME NEW i \in 1..MaxBuf
        PROVE  (rest \o data)[i] = tail(MaxBuf)[i]
    <3>1. tail(MaxBuf)[i] = ((g + n) - MaxBuf) + i
      BY <1>3, <2>1
    <3>2. CASE i <= b - trim
      <4>1. rest[i] = (g - b) + (trim + i)
        BY <1>1, <2>1, <2>3, <3>2
      <4> QED
        BY <2>1, <2>4, <3>1, <3>2, <4>1
    <3>3. CASE ~(i <= b - trim)
      <4>1. i - (b - trim) \in 1..n
        BY <2>1, <3>3
      <4>2. data[i - (b - trim)] = g + (i - (b - trim))
        BY <1>2, <4>1
      <4> QED
        BY <2>1, <2>4, <3>1, <3>3, <4>2
    <3> QED
      BY <3>2, <3>3
  <2>6. rest \o data = tail(MaxBuf)
    BY <1>3, <2>1, <2>4, <2>5, SeqEqual
  <2>7. Buffered(old, data) = tail(MaxBuf) /\ Len(Buffered(old, data)) = MaxBuf
    BY <2>2, <2>4, <2>6
  <2> QED
    BY <1>5, <2>1, <2>7 DEF old, data, tail, Fits
<1> QED
  BY <1>4, <1>5

\* The length of the buffer is the witness of BufferIsTail.
TailInv ==
  /\ got \in Nat
  /\ client \in Terms \cup {None}
  /\ \E k \in 0..got : k <= MaxBuf /\ buffer = Bytes((got - k) + 1, got) /\ Len(buffer) = k
  /\ buffer # <<>> => client = None
  /\ unsent \in Nat /\ Len(buffer) = Fits(unsent)

\* An empty buffer is the tail of any output.
LEMMA EmptyTail ==
  ASSUME NEW g \in Nat
  PROVE  /\ <<>> = Bytes((g - 0) + 1, g) /\ Len(<<>>) = 0
         /\ \E k \in 0..g : k <= MaxBuf /\ <<>> = Bytes((g - k) + 1, g) /\ Len(<<>>) = k
<1>1. 0 \in 0..g /\ 0 <= MaxBuf
  BY MuxSessionAssumption
<1>2. <<>> = Bytes((g - 0) + 1, g)
  BY <1>1, LastBytes, EmptySeq
<1>3. Len(<<>>) = 0
  OBVIOUS
<1> QED
  BY <1>1, <1>2, <1>3

\* Steps that read nothing and leave the buffer alone, or take it.
LEMMA TailKept ==
  ASSUME TailInv, UNCHANGED got,
         \/ UNCHANGED <<buffer, unsent>> /\ client' \in {None, client}
         \/ client' \in Terms /\ buffer' = <<>> /\ unsent' = 0
  PROVE  TailInv'
<1>1. CASE UNCHANGED <<buffer, unsent>> /\ client' \in {None, client}
  BY <1>1 DEF TailInv
<1>2. CASE client' \in Terms /\ buffer' = <<>> /\ unsent' = 0
  BY <1>2, EmptyTail, MuxSessionAssumption DEF TailInv, Fits
<1> QED
  BY <1>1, <1>2

\* readPTY extends the tail, or finds the buffer empty and leaves it so.
LEMMA TailGrows == TailInv /\ Broadcast => TailInv'
<1> SUFFICES ASSUME TailInv, Broadcast
             PROVE  TailInv'
  OBVIOUS
<1>1. PICK n \in 1..ReadMax : got' = got + n
        /\ IF client = None
           THEN buffer' = Buffered(buffer, Bytes(got + 1, got + n)) /\ unsent' = unsent + n
           ELSE UNCHANGED <<buffer, unsent>>
  BY DEF Broadcast
<1>2. client' = client /\ got' \in Nat
  BY <1>1, MuxSessionAssumption DEF Broadcast, TailInv
<1>3. CASE client = None
  <2>1. PICK b \in 0..got : b <= MaxBuf /\ buffer = Bytes((got - b) + 1, got) /\ Len(buffer) = b
    BY DEF TailInv
  <2>2. got \in Nat /\ unsent \in Nat /\ b = Fits(unsent)
    BY <2>1 DEF TailInv
  <2>3. \E k \in 0..got' :
          /\ k <= MaxBuf /\ k = Fits(b + n)
          /\ buffer' = Bytes((got' - k) + 1, got') /\ Len(buffer') = k
    BY <1>1, <1>3, <2>1, <2>2, BufferedIsTail
  <2>4. unsent' \in Nat /\ Fits(b + n) = Fits(unsent')
    BY <1>1, <1>3, <2>2, MuxSessionAssumption DEF Fits
  <2> QED
    BY <1>2, <1>3, <2>3, <2>4 DEF TailInv
<1>4. CASE client # None
  <2>1. buffer' = <<>> /\ UNCHANGED unsent
    BY <1>1, <1>4 DEF TailInv
  <2> QED
    BY <1>2, <1>4, <2>1, EmptyTail DEF TailInv
<1> QED
  BY <1>3, <1>4

LEMMA TailNext == TailInv /\ [Next]_vars => TailInv'
<1> SUFFICES ASSUME TailInv, [Next]_vars
             PROVE  TailInv'
  OBVIOUS
<1> USE DEF ptyVars, readerVars, closeVars, attachVars, recordVars, handlerVars, termVars,
            TermUnchanged
<1>1. CASE Produce \/ ChildExits \/ KillSession \/ Exit \/ Terminated \/ UNCHANGED vars
  <2>1. UNCHANGED <<got, client, buffer, unsent>>
    BY <1>1 DEF Produce, ChildExits, KillSession, Exit, Terminated, vars
  <2> QED
    BY <2>1, TailKept
<1>2. CASE Reader
  <2>1. CASE Broadcast
    BY <2>1, TailGrows
  <2>2. CASE SendOutput \/ SendFailed \/ ReadEnds
    <3>1. UNCHANGED <<got, buffer, unsent>> /\ client' \in {None, client}
      BY <2>2 DEF SendOutput, SendFailed, ReadEnds, Detach
    <3> QED
      BY <3>1, TailKept
  <2> QED
    BY <1>2, <2>1, <2>2 DEF Reader
<1>3. CASE Waiter
  <2>1. UNCHANGED <<got, client, buffer, unsent>>
    BY <1>3 DEF Waiter, ChildWaited, TellExit, CloseMark, CloseConns, CloseRest, Waits
  <2> QED
    BY <2>1, TailKept
<1>4. ASSUME NEW c \in Terms, Handler(c)
      PROVE  TailInv'
  <2>1. CASE Attach(c)
    <3>1. UNCHANGED got /\ client' \in Terms /\ buffer' = <<>> /\ unsent' = 0
      BY <2>1 DEF Attach, Handles
    <3> QED
      BY <3>1, TailKept
  <2>2. CASE Refuse(c) \/ Replay(c) \/ TouchLoad(c) \/ TouchTruncate(c) \/ TouchWrite(c) \/ ReceiveInput(c)
    <3>1. UNCHANGED <<got, client, buffer, unsent>>
      BY <2>2 DEF Refuse, Replay, TouchLoad, TouchTruncate, TouchWrite, ReceiveInput, Handles
    <3> QED
      BY <3>1, TailKept
  <2>3. CASE ReceiveDetach(c) \/ ReceiveFails(c)
    <3>1. UNCHANGED <<got, buffer, unsent>> /\ client' \in {None, client}
      BY <2>3 DEF ReceiveDetach, ReceiveFails, Handles, Detach
    <3> QED
      BY <3>1, TailKept
  <2> QED
    BY <1>4, <2>1, <2>2, <2>3 DEF Handler
<1>5. ASSUME NEW c \in Terms, Dial(c) \/ Screen(c) \/ Keyboard(c)
      PROVE  TailInv'
  <2>1. UNCHANGED <<got, client, buffer, unsent>>
    BY <1>5 DEF Dial, Screen, Show, SeeEnd, Keyboard, StdinEnds, Vanish, Type
  <2> QED
    BY <2>1, TailKept
<1> QED
  BY <1>1, <1>2, <1>3, <1>4, <1>5 DEF Next

\* What a terminal that attaches is sent first is the end of the output, as
\* much as the buffer holds, and nothing is buffered while one is attached.
THEOREM TailKeptForNext == Spec => []BufferIsTail
<1>1. Init => TailInv
  BY EmptyTail, MuxSessionAssumption DEF Init, TailInv, Fits
<1>2. TailInv => BufferIsTail
  BY DEF TailInv, BufferIsTail, Fits
<1> QED
  BY <1>1, <1>2, TailNext, PTL DEF Spec

(***************************************************************************)
(* One terminal at a time.                                                 *)
(***************************************************************************)
Shapes ==
  /\ handler \in [Terms -> {"none", "hello", "replay", "touch", "save", "write", "loop", "gone", "refused"}]
  /\ term \in [Terms -> {"idle", "open", "left"}]
  /\ conn \in [Terms -> BOOLEAN]
  /\ DOMAIN wire = Terms /\ DOMAIN fed = Terms /\ DOMAIN shown = Terms
  /\ reader = [at |-> reader.at, to |-> reader.to, data |-> reader.data]

\* Terminals that have been the attached one: only they are sent output.
Admitted == {c \in Terms : handler[c] \in {"replay", "touch", "save", "write", "loop", "gone"}}

SentTo ==
  /\ client \in Admitted \cup {None}
  /\ told \in Admitted \cup {None} /\ (waiter = "tell" => told # None)
  /\ reader.at \in {"send", "failed"} => reader.to \in Admitted

\* The others have seen and said nothing, but may be told that they are refused.
Outside ==
  /\ \A c \in Terms : term[c] = "idle" => handler[c] = "none"
  /\ \A c \in Terms : handler[c] \in {"none", "hello", "refused"} =>
       fed[c] = <<>> /\ shown[c] = <<>>
  /\ \A c \in Terms : handler[c] \in {"none", "hello"} => wire[c] = <<>>
  /\ \A c \in Terms : handler[c] = "refused" =>
       wire[c] = <<>> \/ wire[c] = <<Message("error", <<>>)>>

OneInv == Shapes /\ SentTo /\ Outside /\ OneAttached

LEMMA OneNext == OneInv /\ [Next]_vars => OneInv'
<1> SUFFICES ASSUME OneInv, [Next]_vars
             PROVE  OneInv'
  OBVIOUS
<1> USE MuxSessionAssumption
    DEF OneInv, Shapes, SentTo, Admitted, Outside, OneAttached, Serving, ptyVars, readerVars,
        closeVars, attachVars, recordVars, handlerVars, termVars,
            TermUnchanged
<1>0. CASE Produce \/ ChildExits \/ KillSession
  BY <1>0 DEF Produce, ChildExits, KillSession
<1>1. CASE Exit \/ Terminated \/ UNCHANGED vars
  <2>1. CASE Exit
    BY <2>1 DEF Exit
  <2>2. CASE UNCHANGED vars
    BY <2>2 DEF vars
  <2> QED
    BY <1>1, <2>1, <2>2 DEF Terminated
<1>2. CASE Broadcast
  BY <1>2 DEF Broadcast
<1>3. CASE SendOutput
  BY <1>3 DEF SendOutput, Sends, Idle
<1>4. CASE SendFailed
  BY <1>4 DEF SendFailed, Detach, Idle
<1>5. CASE ReadEnds
  BY <1>5 DEF ReadEnds, Idle
<1>6. CASE ChildWaited
  BY <1>6 DEF ChildWaited, Waits
<1>7. CASE TellExit
  BY <1>7 DEF TellExit, Waits, Sends
<1>8. CASE CloseMark
  BY <1>8 DEF CloseMark, Waits
<1>9. CASE CloseConns
  BY <1>9 DEF CloseConns, Waits
<1>10. CASE CloseRest
  BY <1>10 DEF CloseRest, Waits
<1>11. ASSUME NEW c \in Terms, Handler(c)
       PROVE  OneInv'
  <2> USE DEF Handles
  <2>1. CASE Attach(c)
    BY <2>1 DEF Attach
  <2>2. CASE Refuse(c)
    <3>1. wire' \in {wire, [wire EXCEPT ![c] = Append(@, Message("error", <<>>))]}
      BY <2>2 DEF Refuse, Sends
    <3>2. handler[c] = "hello" /\ wire[c] = <<>>
      BY <2>2 DEF Refuse
    <3>3. DOMAIN wire' = Terms /\ \A d \in Terms \ {c} : wire'[d] = wire[d]
      BY <3>1
    <3>4. wire'[c] \in {<<>>, <<Message("error", <<>>)>>}
      BY <3>1, <3>2
    <3> QED
      BY <2>2, <3>2, <3>3, <3>4 DEF Refuse
  <2>3. CASE Replay(c)
    BY <2>3 DEF Replay, Sends
  <2>4. CASE TouchLoad(c)
    BY <2>4 DEF TouchLoad
  <2>5. CASE TouchTruncate(c) \/ TouchWrite(c)
    BY <2>5 DEF TouchTruncate, TouchWrite
  <2>6. CASE ReceiveInput(c)
    BY <2>6 DEF ReceiveInput
  <2>7. CASE ReceiveDetach(c)
    BY <2>7 DEF ReceiveDetach, Detach
  <2>8. CASE ReceiveFails(c)
    BY <2>8 DEF ReceiveFails, Detach
  <2> QED
    BY <1>11, <2>1, <2>2, <2>3, <2>4, <2>5, <2>6, <2>7, <2>8 DEF Handler
<1>12. ASSUME NEW c \in Terms, Dial(c)
       PROVE  OneInv'
  BY <1>12 DEF Dial
<1>13. ASSUME NEW c \in Terms, Screen(c)
       PROVE  OneInv'
  <2>1. CASE Show(c)
    <3>1. /\ UNCHANGED <<handler, conn, fed, client, told, waiter, reader>>
          /\ term[c] = "open" /\ wire[c] # <<>>
          /\ term' = term \/ term' = [term EXCEPT ![c] = "left"]
      BY <2>1 DEF Show, Leaves
    <3>2. /\ DOMAIN wire' = Terms /\ DOMAIN shown' = Terms
          /\ \A d \in Terms \ {c} : wire'[d] = wire[d] /\ shown'[d] = shown[d]
      BY <2>1 DEF Show, Leaves
    <3>3. CASE handler[c] = "refused"
      <4>1. Head(wire[c]).type = "error"
        BY <3>1, <3>3 DEF Message
      <4>2. shown'[c] = <<>> /\ wire'[c] = <<>>
        BY <2>1, <4>1 DEF Show, Leaves, OneInv, Shapes
      <4> QED
        BY <3>1, <3>2, <3>3, <4>2
    <3>4. CASE handler[c] # "refused"
      BY <3>1, <3>2, <3>4
    <3> QED
      BY <3>3, <3>4
  <2>2. CASE SeeEnd(c)
    BY <2>2 DEF SeeEnd, Leaves
  <2> QED
    BY <1>13, <2>1, <2>2 DEF Screen
<1>14. ASSUME NEW c \in Terms, Keyboard(c)
       PROVE  OneInv'
  <2>1. CASE StdinEnds(c) \/ Vanish(c)
    BY <2>1 DEF StdinEnds, Vanish, Leaves
  <2>2. ASSUME NEW k \in Keys, Type(c, k)
        PROVE  OneInv'
    BY <2>2 DEF Type, Leaves
  <2> QED
    BY <1>14, <2>1, <2>2 DEF Keyboard
<1> QED
  BY <1>0, <1>1, <1>2, <1>3, <1>4, <1>5, <1>6, <1>7, <1>8, <1>9, <1>10, <1>11, <1>12, <1>13,
     <1>14
     DEF Next, Reader, Waiter

\* In the beginning nobody has dialled.
LEMMA StartsAlone == Init => OneInv
  BY MuxSessionAssumption
     DEF Init, Idle, OneInv, Shapes, SentTo, Admitted, Outside, OneAttached, Serving

\* However late the loss of a terminal is noticed, at most one is served, and
\* one that was refused takes no part.
THEOREM OneAtATime == Spec => []OneAttached
  BY StartsAlone, OneNext, PTL DEF Spec, OneInv

(***************************************************************************)
(* The session outlives its terminals.                                     *)
(***************************************************************************)
\* Until the child has exited, waitChild waits: nobody shuts the daemon down.
\* A handler that is about to write the record finds it as it left it, unless
\* another one was at it too.
Overlaps ==
  \A c \in Terms : handler[c] = "write" =>
    overlap \/ (record = "empty" /\ \A d \in Terms : handler[d] = "write" => d = c)

PersistInv ==
  /\ SessionPersists
  /\ child = "running" => waiter = "wait" /\ Overlaps

\* A step that neither begins nor ends a write leaves the record alone.
LEMMA WriterStays ==
  ASSUME OneInv, PersistInv, UNCHANGED <<child, ptyOpen, waiter, shutdown, listener, ended, record, overlap>>,
         \A c \in Terms : handler[c] = "write" <=> handler'[c] = "write"
  PROVE  PersistInv'
  BY DEF PersistInv, SessionPersists, Overlaps

LEMMA PersistNext == OneInv /\ PersistInv /\ [Next]_vars => PersistInv'
<1> SUFFICES ASSUME OneInv, PersistInv, [Next]_vars
             PROVE  PersistInv'
  OBVIOUS
<1>0. DOMAIN handler = Terms /\ \A c \in Terms : term[c] = "idle" => handler[c] = "none"
  BY DEF OneInv, Shapes, Outside
<1> USE DEF ptyVars, readerVars, closeVars, attachVars, recordVars, handlerVars, termVars,
            TermUnchanged
<1>1. CASE Produce \/ ChildExits \/ KillSession
  BY <1>1 DEF Produce, ChildExits, KillSession, PersistInv, SessionPersists, Overlaps
<1>2. CASE Reader
  <2>1. UNCHANGED <<child, ptyOpen, waiter, shutdown, listener, ended, record, overlap, handler>>
    BY <1>2 DEF Reader, Broadcast, SendOutput, SendFailed, ReadEnds, Detach
  <2> QED
    BY <2>1, WriterStays
<1>3. CASE Waiter
  BY <1>3 DEF Waiter, ChildWaited, TellExit, CloseMark, CloseConns, CloseRest, Waits, PersistInv,
              SessionPersists
<1>4. CASE Exit
  BY <1>4 DEF Exit, PersistInv, SessionPersists
<1>5. ASSUME NEW c \in Terms, Handler(c)
      PROVE  PersistInv'
  <2>1. UNCHANGED <<ptyVars, closeVars>>
    <3>1. CASE Attach(c) \/ Refuse(c) \/ Replay(c)
      BY <3>1 DEF Attach, Refuse, Replay, Handles
    <3>2. CASE TouchLoad(c) \/ TouchTruncate(c) \/ TouchWrite(c)
      BY <3>2 DEF TouchLoad, TouchTruncate, TouchWrite, Handles
    <3>3. CASE ReceiveInput(c) \/ ReceiveDetach(c) \/ ReceiveFails(c)
      BY <3>3 DEF ReceiveInput, ReceiveDetach, ReceiveFails, Handles
    <3> QED
      BY <1>5, <3>1, <3>2, <3>3 DEF Handler
  <2>2. ASSUME NEW from, NEW to, handler[c] = from, from # "write", to # "write",
               handler' = [handler EXCEPT ![c] = to]
        PROVE  \A d \in Terms : handler[d] = "write" <=> handler'[d] = "write"
    BY <1>0, <2>2
  <2>3. CASE Attach(c) \/ Refuse(c) \/ Replay(c) \/ TouchLoad(c)
    <3>1. UNCHANGED recordVars
      BY <2>3 DEF Attach, Refuse, Replay, TouchLoad
    <3>2. \E from \in {"hello", "replay", "touch"} :
            \E to \in {"replay", "refused", "touch", "save", "loop"} :
            handler[c] = from /\ handler' = [handler EXCEPT ![c] = to]
      BY <2>3 DEF Attach, Refuse, Replay, TouchLoad, Handles
    <3> QED
      BY <2>1, <2>2, <3>1, <3>2, WriterStays
  <2>4. CASE ReceiveInput(c) \/ ReceiveDetach(c) \/ ReceiveFails(c)
    <3>1. UNCHANGED recordVars
      BY <2>4 DEF ReceiveInput, ReceiveDetach, ReceiveFails
    <3>2. \E to \in {"loop", "gone"} : handler[c] = "loop" /\ handler' = [handler EXCEPT ![c] = to]
      BY <2>4 DEF ReceiveInput, ReceiveDetach, ReceiveFails, Handles
    <3> QED
      BY <2>1, <2>2, <3>1, <3>2, WriterStays
  <2>5. CASE TouchTruncate(c)
    <3>1. /\ record' = "empty" /\ handler'[c] = "write"
          /\ overlap' = (overlap \/ \E d \in Terms : handler[d] = "write")
          /\ \A d \in Terms \ {c} : handler'[d] = handler[d]
      BY <1>0, <2>5 DEF TouchTruncate, Handles
    <3>2. Overlaps'
      BY <3>1 DEF Overlaps
    <3>3. child = "running" => SessionPersists'
      BY <2>1, <3>1 DEF PersistInv, SessionPersists
    <3> QED
      BY <2>1, <3>2, <3>3 DEF PersistInv, SessionPersists
  <2>6. CASE TouchWrite(c)
    <3>1. /\ handler[c] = "write" /\ overlap' = overlap
          /\ \A d \in Terms : handler'[d] = "write" <=> handler[d] = "write" /\ d # c
      BY <1>0, <2>6 DEF TouchWrite, Handles
    <3>2. CASE child # "running"
      BY <2>1, <3>2 DEF PersistInv, SessionPersists
    <3>3. CASE child = "running"
      <4>1. record' \in {"whole", "mixed"} /\ (record' = "mixed" => record # "empty")
        BY <2>6, <3>3 DEF TouchWrite, PersistInv, SessionPersists
      <4>2. overlap \/ (record = "empty" /\ \A d \in Terms : handler[d] = "write" => d = c)
        BY <3>1, <3>3 DEF PersistInv, Overlaps
      <4> QED
        BY <2>1, <3>1, <3>3, <4>1, <4>2 DEF PersistInv, SessionPersists, Overlaps
    <3> QED
      BY <3>2, <3>3
  <2> QED
    BY <1>5, <2>3, <2>4, <2>5, <2>6 DEF Handler
<1>6. ASSUME NEW c \in Terms, Dial(c)
      PROVE  PersistInv'
  <2>1. \A d \in Terms : handler[d] = "write" <=> handler'[d] = "write"
    BY <1>0, <1>6 DEF Dial
  <2>2. UNCHANGED <<ptyVars, closeVars, recordVars>>
    BY <1>6 DEF Dial
  <2> QED
    BY <2>1, <2>2, WriterStays
<1>7. ASSUME NEW c \in Terms, Screen(c) \/ Keyboard(c)
      PROVE  PersistInv'
  <2>1. UNCHANGED <<ptyVars, closeVars, recordVars, handler>>
    BY <1>7 DEF Screen, Show, SeeEnd, Keyboard, StdinEnds, Vanish, Type
  <2> QED
    BY <2>1, WriterStays
<1>8. CASE Terminated \/ UNCHANGED vars
  <2>1. UNCHANGED <<child, ptyOpen, waiter, shutdown, listener, ended, record, overlap, handler>>
    BY <1>8 DEF Terminated, vars
  <2> QED
    BY <2>1, WriterStays
<1> QED
  BY <1>1, <1>2, <1>3, <1>4, <1>5, <1>6, <1>7, <1>8 DEF Next

\* Whatever terminals attach, type, fail or leave, and however the saves of
\* their handlers meet, the daemon listens until its child has exited, and its
\* record can be read, is about to be written, or has been written by two.
THEOREM Persists == Spec => []SessionPersists
<1>1. Init => OneInv
  BY StartsAlone
<1>2. Init => PersistInv
  BY DEF Init, PersistInv, SessionPersists, Overlaps
<1>3. PersistInv => SessionPersists
  BY DEF PersistInv
<1> QED
  BY <1>1, <1>2, <1>3, OneNext, PersistNext, PTL DEF Spec

(***************************************************************************)
(* What a terminal is shown, as a stream: the bytes s on its screen, and   *)
(* then the messages w on their way to it.                                 *)
(***************************************************************************)
Has(s, x) == \E i \in DOMAIN s : s[i] = x
Ordered(s, x, y) == \E i, j \in DOMAIN s : i < j /\ s[i] = x /\ s[j] = y
WireHas(w, x) == \E p \in DOMAIN w : Has(w[p].data, x)
WireOrdered(w, x, y) ==
  \/ \E p \in DOMAIN w : Ordered(w[p].data, x, y)
  \/ \E p, q \in DOMAIN w : p < q /\ Has(w[p].data, x) /\ Has(w[q].data, y)
InStream(s, w, x) == Has(s, x) \/ WireHas(w, x)
Precedes(s, w, x, y) == Ordered(s, x, y) \/ (Has(s, x) /\ WireHas(w, y)) \/ WireOrdered(w, x, y)

Messages == [type : MessageTypes, data : Seq(Nat)]

LEMMA EmptyHas == \A x, y : ~Has(<<>>, x) /\ ~Ordered(<<>>, x, y) /\ ~WireHas(<<>>, x) /\ ~WireOrdered(<<>>, x, y)
  BY DEF Has, Ordered, WireHas, WireOrdered

LEMMA ConcatHas ==
  ASSUME NEW s \in Seq(Nat), NEW d \in Seq(Nat)
  PROVE  /\ \A x : Has(s \o d, x) <=> Has(s, x) \/ Has(d, x)
         /\ \A x, y : Ordered(s \o d, x, y) <=> Ordered(s, x, y) \/ (Has(s, x) /\ Has(d, y)) \/ Ordered(d, x, y)
<1> DEFINE t == s \o d
           m == Len(s)
           n == Len(d)
<1>1. m \in Nat /\ n \in Nat /\ DOMAIN s = 1..m /\ DOMAIN d = 1..n
  OBVIOUS
<1>2. t \in Seq(Nat) /\ Len(t) = m + n /\ \A i \in 1..(m + n) : t[i] = IF i <= m THEN s[i] ELSE d[i - m]
  BY ConcatProperties, Zenon
<1>3. DOMAIN t = 1..(m + n)
  BY <1>2
<1> HIDE DEF t, m, n
<1>4. \A i \in 1..m : i \in 1..(m + n) /\ t[i] = s[i]
  BY <1>1, <1>2
<1>5. \A i \in 1..n : m + i \in 1..(m + n) /\ t[m + i] = d[i] /\ m < m + i
  BY <1>1, <1>2
<1>6. \A i \in 1..(m + n) : \/ i \in 1..m
                            \/ i > m /\ i - m \in 1..n /\ t[i] = d[i - m] /\ m + (i - m) = i
  BY <1>1, <1>2
<1>7. \A x : Has(t, x) <=> Has(s, x) \/ Has(d, x)
  BY <1>1, <1>3, <1>4, <1>5, <1>6 DEF Has
<1>8. ASSUME NEW x, NEW y, Ordered(t, x, y)
      PROVE  Ordered(s, x, y) \/ (Has(s, x) /\ Has(d, y)) \/ Ordered(d, x, y)
  <2>1. PICK i \in 1..(m + n), j \in 1..(m + n) : i < j /\ t[i] = x /\ t[j] = y
    BY <1>3, <1>8 DEF Ordered
  <2>2. CASE j \in 1..m
    <3>1. i \in 1..m
      BY <1>1, <2>1, <2>2
    <3> QED
      BY <1>1, <1>4, <2>1, <2>2, <3>1 DEF Ordered
  <2>3. CASE i \in 1..m /\ j \notin 1..m
    BY <1>1, <1>4, <1>6, <2>1, <2>3 DEF Has
  <2>4. CASE i \notin 1..m
    <3>1. i - m \in 1..n /\ d[i - m] = x /\ i > m
      BY <1>6, <2>1, <2>4
    <3>2. j \notin 1..m
      BY <1>1, <2>1, <3>1
    <3>3. j - m \in 1..n /\ d[j - m] = y
      BY <1>6, <2>1, <3>2
    <3>4. i - m < j - m
      BY <1>1, <2>1
    <3> QED
      BY <1>1, <3>1, <3>3, <3>4 DEF Ordered
  <2> QED
    BY <2>2, <2>3, <2>4
<1>9. ASSUME NEW x, NEW y, Ordered(s, x, y) \/ (Has(s, x) /\ Has(d, y)) \/ Ordered(d, x, y)
      PROVE  Ordered(t, x, y)
  <2>1. CASE Ordered(s, x, y)
    BY <1>1, <1>3, <1>4, <2>1 DEF Ordered
  <2>2. CASE Has(s, x) /\ Has(d, y)
    <3>1. PICK i \in 1..m : s[i] = x
      BY <1>1, <2>2 DEF Has
    <3>2. PICK j \in 1..n : d[j] = y
      BY <1>1, <2>2 DEF Has
    <3>3. i \in 1..(m + n) /\ t[i] = x /\ m + j \in 1..(m + n) /\ t[m + j] = y
      BY <1>4, <1>5, <3>1, <3>2
    <3>4. i < m + j
      BY <1>1, <3>1, <3>2
    <3> QED
      BY <1>3, <3>3, <3>4 DEF Ordered
  <2>3. CASE Ordered(d, x, y)
    <3>1. PICK i \in 1..n, j \in 1..n : i < j /\ d[i] = x /\ d[j] = y
      BY <1>1, <2>3 DEF Ordered
    <3>2. m + i < m + j
      BY <1>1, <3>1
    <3> QED
      BY <1>3, <1>5, <3>1, <3>2 DEF Ordered
  <2> QED
    BY <1>9, <2>1, <2>2, <2>3
<1> QED
  BY <1>7, <1>8, <1>9 DEF t

LEMMA AppendHas ==
  ASSUME NEW w \in Seq(Messages), NEW m \in Messages
  PROVE  /\ \A x : WireHas(Append(w, m), x) <=> WireHas(w, x) \/ Has(m.data, x)
         /\ \A x, y : WireOrdered(Append(w, m), x, y) <=>
              WireOrdered(w, x, y) \/ (WireHas(w, x) /\ Has(m.data, y)) \/ Ordered(m.data, x, y)
<1> DEFINE v == Append(w, m)
           n == Len(w)
<1>1. n \in Nat /\ DOMAIN w = 1..n
  OBVIOUS
<1>2. DOMAIN v = 1..(n + 1) /\ v[n + 1] = m /\ \A p \in 1..n : v[p] = w[p]
  OBVIOUS
<1> HIDE DEF v, n, Messages
<1>3. \A p : p \in 1..(n + 1) <=> p \in 1..n \/ p = n + 1
  BY <1>1
<1>4. \A p \in 1..n : p < n + 1 /\ ~(n + 1 < p)
  BY <1>1
<1>5. ~(n + 1 < n + 1)
  BY <1>1
<1>6. \A x : WireHas(v, x) <=> WireHas(w, x) \/ Has(m.data, x)
  BY <1>1, <1>2, <1>3 DEF WireHas
<1>7. ASSUME NEW x, NEW y, WireOrdered(v, x, y)
      PROVE  WireOrdered(w, x, y) \/ (WireHas(w, x) /\ Has(m.data, y)) \/ Ordered(m.data, x, y)
  <2>1. CASE \E p \in DOMAIN v : Ordered(v[p].data, x, y)
    BY <1>1, <1>2, <1>3, <2>1 DEF WireOrdered
  <2>2. CASE \E p, q \in DOMAIN v : p < q /\ Has(v[p].data, x) /\ Has(v[q].data, y)
    <3>1. PICK p \in DOMAIN v, q \in DOMAIN v : p < q /\ Has(v[p].data, x) /\ Has(v[q].data, y)
      BY <2>2
    <3>2. p \in 1..n
      BY <1>2, <1>3, <1>4, <1>5, <3>1
    <3>3. Has(w[p].data, x)
      BY <1>2, <3>1, <3>2
    <3>4. CASE q \in 1..n
      BY <1>1, <1>2, <3>1, <3>2, <3>3, <3>4 DEF WireOrdered
    <3>5. CASE q = n + 1
      BY <1>1, <1>2, <3>1, <3>2, <3>3, <3>5 DEF WireHas
    <3> QED
      BY <1>2, <1>3, <3>4, <3>5
  <2> QED
    BY <1>7, <2>1, <2>2 DEF WireOrdered
<1>8. ASSUME NEW x, NEW y, WireOrdered(w, x, y) \/ (WireHas(w, x) /\ Has(m.data, y)) \/ Ordered(m.data, x, y)
      PROVE  WireOrdered(v, x, y)
  <2>1. CASE WireOrdered(w, x, y)
    BY <1>1, <1>2, <1>3, <2>1 DEF WireOrdered
  <2>2. CASE WireHas(w, x) /\ Has(m.data, y)
    BY <1>1, <1>2, <1>3, <1>4, <2>2 DEF WireOrdered, WireHas
  <2>3. CASE Ordered(m.data, x, y)
    BY <1>2, <1>3, <2>3 DEF WireOrdered
  <2> QED
    BY <1>8, <2>1, <2>2, <2>3
<1> QED
  BY <1>6, <1>7, <1>8 DEF v

LEMMA TailHas ==
  ASSUME NEW w \in Seq(Messages), w # <<>>
  PROVE  /\ Head(w) \in Messages /\ Tail(w) \in Seq(Messages)
         /\ \A x : WireHas(w, x) <=> Has(Head(w).data, x) \/ WireHas(Tail(w), x)
         /\ \A x, y : WireOrdered(w, x, y) <=>
              \/ Ordered(Head(w).data, x, y)
              \/ Has(Head(w).data, x) /\ WireHas(Tail(w), y)
              \/ WireOrdered(Tail(w), x, y)
<1> DEFINE h == Head(w)
           v == Tail(w)
           n == Len(w)
<1> HIDE DEF Messages
<1>1. n \in Nat /\ n > 0 /\ DOMAIN w = 1..n /\ h = w[1] /\ v \in Seq(Messages) /\ h \in Messages
  OBVIOUS
<1>2. DOMAIN v = 1..(n - 1) /\ \A p \in 1..(n - 1) : v[p] = w[p + 1]
  OBVIOUS
<1> HIDE DEF h, v, n
<1>3. \A p \in 1..(n - 1) : p + 1 \in 1..n /\ 1 < p + 1
  BY <1>1
<1>4. \A p \in 1..n : p = 1 \/ (p - 1 \in 1..(n - 1) /\ (p - 1) + 1 = p /\ 1 < p /\ v[p - 1] = w[p])
  <2> TAKE p \in 1..n
  <2>1. p = 1 \/ (p - 1 \in 1..(n - 1) /\ (p - 1) + 1 = p /\ 1 < p)
    BY <1>1
  <2> QED
    BY <1>2, <2>1
<1>5. 1 \in 1..n
  BY <1>1
<1>6. \A x : WireHas(w, x) <=> Has(h.data, x) \/ WireHas(v, x)
  <2> TAKE x
  <2>1. ASSUME WireHas(w, x) PROVE Has(h.data, x) \/ WireHas(v, x)
    <3>1. PICK p \in 1..n : Has(w[p].data, x)
      BY <1>1, <2>1 DEF WireHas
    <3>2. CASE p = 1
      BY <1>1, <3>1, <3>2
    <3>3. CASE p # 1
      BY <1>2, <1>4, <3>1, <3>3 DEF WireHas
    <3> QED
      BY <3>2, <3>3
  <2>2. ASSUME Has(h.data, x) \/ WireHas(v, x) PROVE WireHas(w, x)
    BY <1>1, <1>2, <1>3, <1>5, <2>2 DEF WireHas
  <2> QED
    BY <2>1, <2>2
<1>7. ASSUME NEW x, NEW y, WireOrdered(w, x, y)
      PROVE  Ordered(h.data, x, y) \/ (Has(h.data, x) /\ WireHas(v, y)) \/ WireOrdered(v, x, y)
  <2>1. CASE \E p \in DOMAIN w : Ordered(w[p].data, x, y)
    <3>1. PICK p \in 1..n : Ordered(w[p].data, x, y)
      BY <1>1, <2>1
    <3> QED
      BY <1>1, <1>2, <1>4, <3>1 DEF WireOrdered
  <2>2. CASE \E p, q \in DOMAIN w : p < q /\ Has(w[p].data, x) /\ Has(w[q].data, y)
    <3>1. PICK p \in 1..n, q \in 1..n : p < q /\ Has(w[p].data, x) /\ Has(w[q].data, y)
      BY <1>1, <2>2
    <3>2. q - 1 \in 1..(n - 1) /\ v[q - 1] = w[q]
      <4>1. q # 1
        BY <3>1
      <4> QED
        BY <1>4, <4>1
    <3>3. Has(v[q - 1].data, y)
      BY <3>1, <3>2
    <3>4. CASE p = 1
      BY <1>1, <1>2, <3>1, <3>2, <3>3, <3>4 DEF WireHas
    <3>5. CASE p # 1
      <4>1. p - 1 \in 1..(n - 1) /\ v[p - 1] = w[p]
        BY <1>4, <3>5
      <4>2. p - 1 < q - 1
        BY <3>1
      <4>3. Has(v[p - 1].data, x)
        BY <3>1, <4>1
      <4> QED
        BY <1>2, <3>2, <3>3, <4>1, <4>2, <4>3 DEF WireOrdered
    <3> QED
      BY <3>4, <3>5
  <2> QED
    BY <1>7, <2>1, <2>2 DEF WireOrdered
<1>8. ASSUME NEW x, NEW y, Ordered(h.data, x, y) \/ (Has(h.data, x) /\ WireHas(v, y)) \/ WireOrdered(v, x, y)
      PROVE  WireOrdered(w, x, y)
  <2>1. CASE Ordered(h.data, x, y)
    BY <1>1, <1>5, <2>1 DEF WireOrdered
  <2>2. CASE Has(h.data, x) /\ WireHas(v, y)
    BY <1>1, <1>2, <1>3, <1>5, <2>2 DEF WireOrdered, WireHas
  <2>3. CASE \E p \in DOMAIN v : Ordered(v[p].data, x, y)
    BY <1>1, <1>2, <1>3, <2>3 DEF WireOrdered
  <2>4. CASE \E p, q \in DOMAIN v : p < q /\ Has(v[p].data, x) /\ Has(v[q].data, y)
    <3>1. PICK p \in 1..(n - 1), q \in 1..(n - 1) : p < q /\ Has(v[p].data, x) /\ Has(v[q].data, y)
      BY <1>2, <2>4
    <3>2. p + 1 \in 1..n /\ q + 1 \in 1..n /\ p + 1 < q + 1
      BY <1>3, <3>1
    <3>3. Has(w[p + 1].data, x) /\ Has(w[q + 1].data, y)
      BY <1>2, <3>1
    <3> QED
      BY <1>1, <3>2, <3>3 DEF WireOrdered
  <2> QED
    BY <1>8, <2>1, <2>2, <2>3, <2>4 DEF WireOrdered
<1> QED
  BY <1>1, <1>6, <1>7, <1>8 DEF h, v

\* A terminal shows the first message on its way: the stream is the same.
LEMMA ShowStream ==
  ASSUME NEW s \in Seq(Nat), NEW w \in Seq(Messages), w # <<>>
  PROVE  /\ \A x : InStream(s \o Head(w).data, Tail(w), x) <=> InStream(s, w, x)
         /\ \A x, y : Precedes(s \o Head(w).data, Tail(w), x, y) <=> Precedes(s, w, x, y)
<1>1. Head(w).data \in Seq(Nat)
  BY TailHas DEF Messages
<1> QED
  BY <1>1, ConcatHas, TailHas, Zenon DEF InStream, Precedes

\* A message is sent.
LEMMA SendStream ==
  ASSUME NEW s \in Seq(Nat), NEW w \in Seq(Messages), NEW m \in Messages
  PROVE  /\ \A x : InStream(s, Append(w, m), x) <=> InStream(s, w, x) \/ Has(m.data, x)
         /\ \A x, y : Precedes(s, Append(w, m), x, y) =>
              Precedes(s, w, x, y) \/ (InStream(s, w, x) /\ Has(m.data, y)) \/ Ordered(m.data, x, y)
  BY AppendHas, Zenon DEF InStream, Precedes

\* A terminal leaves: what was on its way is lost.
LEMMA LeaveStream ==
  \A x, y : ~InStream(<<>>, <<>>, x) /\ ~Precedes(<<>>, <<>>, x, y)
  BY EmptyHas, Zenon DEF InStream, Precedes

\* Byte x has been shown to c or is on its way; x comes before y.
On(c, x) == InStream(shown[c], wire[c], x)
Before(c, x, y) == Precedes(shown[c], wire[c], x, y)
InReplay(c, x) == Has(replay[c], x)

OutTypes ==
  /\ DOMAIN replay = Terms
  /\ \A c \in Terms : shown[c] \in Seq(Nat) /\ wire[c] \in Seq(Messages) /\ replay[c] \in Seq(Nat)
  /\ buffer \in Seq(Nat) /\ reader.data \in Seq(Nat)

\* What a step may do to the stream of a terminal.
Unmoved(c) == shown'[c] = shown[c] /\ wire'[c] = wire[c]
SentData(c, d) ==
  shown'[c] = shown[c] /\ \E m \in Messages : m.data = d /\ wire'[c] = Append(wire[c], m)
Showed(c) == wire[c] # <<>> /\ shown'[c] = shown[c] \o Head(wire[c]).data /\ wire'[c] = Tail(wire[c])
Lost(c) == shown'[c] = <<>> /\ wire'[c] = <<>> /\ term'[c] = "left"

LEMMA MessageData ==
  ASSUME NEW t \in MessageTypes, NEW d \in Seq(Nat)
  PROVE  Message(t, d) \in Messages /\ Message(t, d).data = d
  BY DEF Message, Messages

LEMMA EmptyData == <<>> \in Seq(Nat)
  OBVIOUS

LEMMA StreamTypes ==
  ASSUME OutTypes, NEW c \in Terms, NEW d \in Seq(Nat),
         Unmoved(c) \/ SentData(c, d) \/ Showed(c) \/ Lost(c)
  PROVE  shown'[c] \in Seq(Nat) /\ wire'[c] \in Seq(Messages)
<1>1. shown[c] \in Seq(Nat) /\ wire[c] \in Seq(Messages)
  BY DEF OutTypes
<1>2. CASE Unmoved(c)
  BY <1>1, <1>2 DEF Unmoved
<1>3. CASE SentData(c, d)
  <2>1. PICK m \in Messages : wire'[c] = Append(wire[c], m)
    BY <1>3 DEF SentData
  <2> HIDE DEF Messages
  <2>2. Append(wire[c], m) \in Seq(Messages)
    BY <1>1
  <2> QED
    BY <1>1, <1>3, <2>1, <2>2 DEF SentData
<1>4. CASE Showed(c)
  <2>1. Head(wire[c]) \in Messages /\ Tail(wire[c]) \in Seq(Messages)
    BY <1>1, <1>4, TailHas DEF Showed
  <2>2. Head(wire[c]).data \in Seq(Nat)
    BY <2>1 DEF Messages
  <2>3. shown[c] \o Head(wire[c]).data \in Seq(Nat)
    BY <1>1, <2>2
  <2> QED
    BY <1>4, <2>1, <2>3 DEF Showed
<1>5. CASE Lost(c)
  BY <1>1, <1>5, EmptyData DEF Lost
<1> QED
  BY <1>2, <1>3, <1>4, <1>5

\* A step that sends a terminal nothing: nothing comes to its stream.
LEMMA QuietStream ==
  ASSUME OutTypes, NEW c \in Terms, Unmoved(c) \/ SentData(c, <<>>) \/ Showed(c) \/ Lost(c)
  PROVE  /\ \A x : InStream(shown'[c], wire'[c], x) => On(c, x)
         /\ \A x, y : Precedes(shown'[c], wire'[c], x, y) => Before(c, x, y)
         /\ ~Lost(c) => \A x : On(c, x) => InStream(shown'[c], wire'[c], x)
<1>1. shown[c] \in Seq(Nat) /\ wire[c] \in Seq(Messages)
  BY DEF OutTypes
<1>2. CASE Unmoved(c)
  BY <1>2 DEF Unmoved, On, Before
<1>3. CASE SentData(c, <<>>)
  <2>1. PICK m \in Messages : m.data = <<>> /\ wire'[c] = Append(wire[c], m) /\ shown'[c] = shown[c]
    BY <1>3 DEF SentData
  <2>2. /\ \A x : InStream(shown[c], Append(wire[c], m), x) <=> On(c, x)
        /\ \A x, y : Precedes(shown[c], Append(wire[c], m), x, y) => Before(c, x, y)
    <3>1. \A x, y : ~Has(m.data, x) /\ ~Ordered(m.data, x, y)
      BY <2>1, EmptyHas
    <3> QED
      BY <1>1, <3>1, SendStream, Zenon DEF On, Before
  <2> QED
    BY <2>1, <2>2
<1>4. CASE Showed(c)
  <2>1. /\ \A x : InStream(shown[c] \o Head(wire[c]).data, Tail(wire[c]), x) <=> On(c, x)
        /\ \A x, y : Precedes(shown[c] \o Head(wire[c]).data, Tail(wire[c]), x, y) <=> Before(c, x, y)
    <3>1. wire[c] # <<>>
      BY <1>4 DEF Showed
    <3> QED
      BY <1>1, <3>1, ShowStream, Zenon DEF On, Before
  <2> QED
    BY <1>4, <2>1 DEF Showed
<1>5. CASE Lost(c)
  BY <1>5, LeaveStream, Zenon DEF Lost, On, Before
<1> QED
  BY <1>2, <1>3, <1>4, <1>5

LEMMA DataStream ==
  ASSUME OutTypes, NEW c \in Terms, NEW d \in Seq(Nat), SentData(c, d)
  PROVE  /\ \A x : InStream(shown'[c], wire'[c], x) <=> On(c, x) \/ Has(d, x)
         /\ \A x, y : Precedes(shown'[c], wire'[c], x, y) =>
              Before(c, x, y) \/ (On(c, x) /\ Has(d, y)) \/ Ordered(d, x, y)
<1>1. shown[c] \in Seq(Nat) /\ wire[c] \in Seq(Messages)
  BY DEF OutTypes
<1>2. PICK m \in Messages : m.data = d /\ wire'[c] = Append(wire[c], m) /\ shown'[c] = shown[c]
  BY DEF SentData
<1> QED
  BY <1>1, <1>2, SendStream, Zenon DEF On, Before

\* Which messages a step sends to whom.
Whole == OneInv /\ TailInv /\ OutTypes

LEMMA ReaderStreams ==
  ASSUME Whole
  PROVE  /\ SendOutput => \A c \in Terms :
              Unmoved(c) \/ (c = reader.to /\ ~Broken(c) /\ SentData(c, reader.data))
         /\ SendOutput /\ ~Broken(reader.to) => SentData(reader.to, reader.data)
<1> SUFFICES ASSUME SendOutput
             PROVE  /\ \A c \in Terms :
                         Unmoved(c) \/ (c = reader.to /\ ~Broken(c) /\ SentData(c, reader.data))
                    /\ ~Broken(reader.to) => SentData(reader.to, reader.data)
  OBVIOUS
<1>1. reader.data \in Seq(Nat) /\ reader.to \in Terms /\ DOMAIN wire = Terms
  BY DEF Whole, OutTypes, OneInv, Shapes, SentTo, Admitted, SendOutput
<1>2. Message("output", reader.data) \in Messages /\ Message("output", reader.data).data = reader.data
  BY <1>1, MessageData DEF MessageTypes
<1>3. /\ shown' = shown
      /\ wire' = IF Broken(reader.to) THEN wire
                 ELSE [wire EXCEPT ![reader.to] = Append(@, Message("output", reader.data))]
  BY DEF SendOutput, Sends, termVars
<1>4. CASE Broken(reader.to)
  BY <1>3, <1>4 DEF Unmoved
<1>5. CASE ~Broken(reader.to)
  <2>1. wire'[reader.to] = Append(wire[reader.to], Message("output", reader.data))
    BY <1>1, <1>3, <1>5
  <2>2. \A c \in Terms : c # reader.to => wire'[c] = wire[c]
    BY <1>1, <1>3, <1>5
  <2>3. SentData(reader.to, reader.data)
    BY <1>2, <1>3, <2>1 DEF SentData
  <2> QED
    BY <1>3, <1>5, <2>2, <2>3 DEF Unmoved
<1> QED
  BY <1>4, <1>5

LEMMA ReplayStreams ==
  ASSUME Whole, NEW b \in Terms, Replay(b)
  PROVE  /\ \A c \in Terms : Unmoved(c) \/ (c = b /\ SentData(c, replay[c]))
         /\ ~Broken(b) => SentData(b, replay[b]) \/ (replay[b] = <<>> /\ Unmoved(b))
<1>1. replay[b] \in Seq(Nat) /\ DOMAIN wire = Terms
  BY DEF Whole, OutTypes, OneInv, Shapes
<1>2. Message("output", replay[b]) \in Messages /\ Message("output", replay[b]).data = replay[b]
  BY <1>1, MessageData DEF MessageTypes
<1>3. /\ shown' = shown
      /\ \/ replay[b] = <<>> /\ wire' = wire
         \/ wire' = IF Broken(b) THEN wire
                    ELSE [wire EXCEPT ![b] = Append(@, Message("output", replay[b]))]
  BY DEF Replay, Handles, Sends, termVars
<1>4. CASE wire' = wire
  BY <1>1, <1>3, <1>4 DEF Unmoved
<1>5. CASE wire' = [wire EXCEPT ![b] = Append(@, Message("output", replay[b]))]
  <2>1. wire'[b] = Append(wire[b], Message("output", replay[b]))
    BY <1>1, <1>5
  <2>2. \A c \in Terms : c # b => wire'[c] = wire[c]
    BY <1>1, <1>5
  <2>3. SentData(b, replay[b])
    BY <1>2, <1>3, <2>1 DEF SentData
  <2> QED
    BY <1>3, <2>2, <2>3 DEF Unmoved
<1> QED
  BY <1>3, <1>4, <1>5

Quiet(c) == Unmoved(c) \/ SentData(c, <<>>) \/ Showed(c) \/ Lost(c)

\* A message without bytes.
LEMMA EmptySent ==
  ASSUME Whole, NEW b \in Terms, NEW t \in MessageTypes, Sends(b, Message(t, <<>>)), shown' = shown
  PROVE  \A c \in Terms : Quiet(c)
<1>1. DOMAIN wire = Terms
  BY DEF Whole, OneInv, Shapes
<1>2. Message(t, <<>>) \in Messages /\ Message(t, <<>>).data = <<>>
  BY EmptyData, MessageData
<1>3. CASE wire' = wire
  BY <1>3 DEF Quiet, Unmoved
<1>4. CASE wire' = [wire EXCEPT ![b] = Append(@, Message(t, <<>>))]
  <2>1. wire'[b] = Append(wire[b], Message(t, <<>>)) /\ \A c \in Terms : c # b => wire'[c] = wire[c]
    BY <1>1, <1>4
  <2> QED
    BY <1>2, <2>1 DEF Quiet, Unmoved, SentData
<1> QED
  BY <1>3, <1>4 DEF Sends

\* A terminal that leaves.
LEMMA LeavesQuiet ==
  ASSUME Whole, NEW b \in Terms, UNCHANGED <<shown, wire>> \/ Leaves(b)
  PROVE  \A c \in Terms : Quiet(c)
<1>1. DOMAIN wire = Terms /\ DOMAIN term = Terms /\ DOMAIN shown = Terms
  BY DEF Whole, OneInv, Shapes
<1>2. CASE UNCHANGED <<shown, wire>>
  BY <1>2 DEF Quiet, Unmoved
<1>3. CASE Leaves(b)
  BY <1>1, <1>3 DEF Leaves, Quiet, Unmoved, Lost
<1> QED
  BY <1>2, <1>3

\* Everything but the live output and the replay is quiet.
LEMMA QuietSteps ==
  ASSUME Whole, [Next]_vars
  PROVE  SendOutput \/ (\E b \in Terms : Replay(b)) \/ \A c \in Terms : Quiet(c)
<1> USE DEF ptyVars, readerVars, closeVars, attachVars, recordVars, handlerVars, termVars,
            TermUnchanged
<1>1. ASSUME UNCHANGED <<shown, wire>>
      PROVE  \A c \in Terms : Quiet(c)
  BY <1>1 DEF Quiet, Unmoved
<1>2. CASE Produce \/ ChildExits \/ KillSession \/ Exit \/ Terminated \/ UNCHANGED vars
  <2>1. UNCHANGED <<shown, wire>>
    BY <1>2 DEF Produce, ChildExits, KillSession, Exit, Terminated, vars
  <2> QED
    BY <1>1, <2>1
<1>3. CASE Reader /\ ~SendOutput
  <2>1. UNCHANGED <<shown, wire>>
    BY <1>3 DEF Reader, Broadcast, SendFailed, ReadEnds
  <2> QED
    BY <1>1, <2>1
<1>4. CASE Waiter
  <2>1. CASE TellExit
    <3>1. told \in Terms
      BY <2>1 DEF TellExit, Waits, Whole, OneInv, SentTo, Admitted
    <3>2. Sends(told, Message("exit", <<>>)) /\ shown' = shown
      BY <2>1 DEF TellExit, Waits
    <3> QED
      BY <3>1, <3>2, EmptySent DEF MessageTypes
  <2>2. CASE ~TellExit
    <3>1. UNCHANGED <<shown, wire>>
      BY <1>4, <2>2 DEF Waiter, ChildWaited, CloseMark, CloseConns, CloseRest, Waits
    <3> QED
      BY <1>1, <3>1
  <2> QED
    BY <2>1, <2>2
<1>5. ASSUME NEW b \in Terms, Handler(b), ~Replay(b)
      PROVE  \A c \in Terms : Quiet(c)
  <2>1. CASE Refuse(b)
    <3>1. Sends(b, Message("error", <<>>)) /\ shown' = shown
      BY <2>1 DEF Refuse, Handles
    <3> QED
      BY <3>1, EmptySent DEF MessageTypes
  <2>2. CASE Attach(b) \/ TouchLoad(b) \/ TouchTruncate(b) \/ TouchWrite(b)
    <3>1. UNCHANGED <<shown, wire>>
      BY <2>2 DEF Attach, TouchLoad, TouchTruncate, TouchWrite, Handles
    <3> QED
      BY <1>1, <3>1
  <2>3. CASE ReceiveInput(b) \/ ReceiveDetach(b) \/ ReceiveFails(b)
    <3>1. UNCHANGED <<shown, wire>>
      BY <2>3 DEF ReceiveInput, ReceiveDetach, ReceiveFails, Handles
    <3> QED
      BY <1>1, <3>1
  <2> QED
    BY <1>5, <2>1, <2>2, <2>3 DEF Handler
<1>6. ASSUME NEW b \in Terms, Show(b)
      PROVE  \A c \in Terms : Quiet(c)
  <2>1. CASE Head(wire[b]).type = "output"
    <3>1. /\ shown' = [shown EXCEPT ![b] = @ \o Head(wire[b]).data]
          /\ wire' = [wire EXCEPT ![b] = Tail(@)] /\ wire[b] # <<>>
      BY <1>6, <2>1 DEF Show
    <3>2. DOMAIN wire = Terms /\ DOMAIN shown = Terms
      BY DEF Whole, OneInv, Shapes
    <3>3. shown'[b] = shown[b] \o Head(wire[b]).data /\ wire'[b] = Tail(wire[b])
      BY <3>1, <3>2
    <3>4. \A c \in Terms : c # b => shown'[c] = shown[c] /\ wire'[c] = wire[c]
      BY <3>1, <3>2
    <3> QED
      BY <3>1, <3>3, <3>4 DEF Quiet, Unmoved, Showed
  <2>2. CASE Head(wire[b]).type # "output"
    <3>1. Leaves(b)
      BY <1>6, <2>2 DEF Show
    <3> QED
      BY <3>1, LeavesQuiet
  <2> QED
    BY <2>1, <2>2
<1>7. ASSUME NEW b \in Terms, Dial(b) \/ SeeEnd(b) \/ Keyboard(b)
      PROVE  \A c \in Terms : Quiet(c)
  <2>1. UNCHANGED <<shown, wire>> \/ Leaves(b)
    BY <1>7 DEF Dial, SeeEnd, Keyboard, StdinEnds, Vanish, Type
  <2> QED
    BY <2>1, LeavesQuiet
<1> QED
  BY <1>2, <1>3, <1>4, <1>5, <1>6, <1>7 DEF Next, Screen

\* How replay and buffer, readPTY and the handlers' places come about.
LEMMA BufferNext ==
  ASSUME Whole, [Next]_vars
  PROVE  \/ UNCHANGED <<got, replay, buffer>>
         \/ Broadcast /\ UNCHANGED replay
         \/ \E b \in Terms :
              Attach(b) /\ UNCHANGED got /\ replay' = [replay EXCEPT ![b] = buffer] /\ buffer' = <<>>
<1> USE DEF ptyVars, readerVars, closeVars, attachVars, recordVars, handlerVars, termVars,
            TermUnchanged
<1>1. CASE Produce \/ ChildExits \/ KillSession \/ Exit \/ Terminated \/ UNCHANGED vars
  BY <1>1 DEF Produce, ChildExits, KillSession, Exit, Terminated, vars
<1>2. CASE Reader
  BY <1>2 DEF Reader, Broadcast, SendOutput, SendFailed, ReadEnds, Detach
<1>3. CASE Waiter
  BY <1>3 DEF Waiter, ChildWaited, TellExit, CloseMark, CloseConns, CloseRest, Waits
<1>4. ASSUME NEW b \in Terms, Handler(b)
      PROVE  \/ UNCHANGED <<got, replay, buffer>>
             \/ Attach(b) /\ UNCHANGED got /\ replay' = [replay EXCEPT ![b] = buffer] /\ buffer' = <<>>
  <2>1. CASE Attach(b)
    BY <2>1 DEF Attach, Handles
  <2>2. CASE Refuse(b) \/ Replay(b) \/ TouchLoad(b) \/ TouchTruncate(b) \/ TouchWrite(b)
    BY <2>2 DEF Refuse, Replay, TouchLoad, TouchTruncate, TouchWrite, Handles
  <2>3. CASE ReceiveInput(b) \/ ReceiveDetach(b) \/ ReceiveFails(b)
    BY <2>3 DEF ReceiveInput, ReceiveDetach, ReceiveFails, Handles, Detach
  <2> QED
    BY <1>4, <2>1, <2>2, <2>3 DEF Handler
<1>5. ASSUME NEW b \in Terms, Dial(b) \/ Screen(b) \/ Keyboard(b)
      PROVE  UNCHANGED <<got, replay, buffer>>
  BY <1>5 DEF Dial, Screen, Show, SeeEnd, Keyboard, StdinEnds, Vanish, Type
<1> QED
  BY <1>1, <1>2, <1>3, <1>4, <1>5 DEF Next

LEMMA ReaderNext ==
  ASSUME Whole, [Next]_vars
  PROVE  \/ UNCHANGED reader
         \/ Broadcast
         \/ SendOutput
         \/ SendFailed /\ reader' = Idle
         \/ ReadEnds
<1> USE DEF ptyVars, readerVars, closeVars, attachVars, recordVars, handlerVars, termVars,
            TermUnchanged
<1>1. CASE Produce \/ ChildExits \/ KillSession \/ Exit \/ Terminated \/ UNCHANGED vars
  BY <1>1 DEF Produce, ChildExits, KillSession, Exit, Terminated, vars
<1>2. CASE Reader
  BY <1>2 DEF Reader, SendFailed
<1>3. CASE Waiter
  BY <1>3 DEF Waiter, ChildWaited, TellExit, CloseMark, CloseConns, CloseRest, Waits
<1>4. ASSUME NEW b \in Terms, Handler(b)
      PROVE  UNCHANGED reader
  <2>1. CASE Attach(b) \/ Refuse(b) \/ Replay(b) \/ TouchLoad(b) \/ TouchTruncate(b) \/ TouchWrite(b)
    BY <2>1 DEF Attach, Refuse, Replay, TouchLoad, TouchTruncate, TouchWrite, Handles
  <2>2. CASE ReceiveInput(b) \/ ReceiveDetach(b) \/ ReceiveFails(b)
    BY <2>2 DEF ReceiveInput, ReceiveDetach, ReceiveFails, Handles
  <2> QED
    BY <1>4, <2>1, <2>2 DEF Handler
<1>5. ASSUME NEW b \in Terms, Dial(b) \/ Screen(b) \/ Keyboard(b)
      PROVE  UNCHANGED reader
  BY <1>5 DEF Dial, Screen, Show, SeeEnd, Keyboard, StdinEnds, Vanish, Type
<1> QED
  BY <1>1, <1>2, <1>3, <1>4, <1>5 DEF Next

Fresh(c) == handler[c] \in {"none", "hello", "refused"}
LEMMA HandlerNext ==
  ASSUME Whole, [Next]_vars, NEW c \in Terms
  PROVE  /\ handler'[c] = "replay" => handler[c] = "replay" \/ Attach(c)
         /\ Fresh(c)' => Fresh(c)
         /\ handler[c] = "replay" => handler'[c] = "replay" \/ Replay(c)
<1> USE DEF ptyVars, readerVars, closeVars, attachVars, recordVars, handlerVars, termVars,
            TermUnchanged, Fresh
<1>0. handler \in [Terms -> {"none", "hello", "replay", "touch", "save", "write", "loop", "gone", "refused"}]
  BY DEF Whole, OneInv, Shapes
<1>1. CASE Produce \/ ChildExits \/ KillSession \/ Exit \/ Terminated \/ UNCHANGED vars
  BY <1>1 DEF Produce, ChildExits, KillSession, Exit, Terminated, vars
<1>2. CASE Reader
  BY <1>2 DEF Reader, Broadcast, SendOutput, SendFailed, ReadEnds
<1>3. CASE Waiter
  BY <1>3 DEF Waiter, ChildWaited, TellExit, CloseMark, CloseConns, CloseRest, Waits
<1>4. ASSUME NEW b \in Terms, Handler(b)
      PROVE  /\ handler'[c] = "replay" => handler[c] = "replay" \/ Attach(c)
             /\ Fresh(c)' => Fresh(c)
             /\ handler[c] = "replay" => handler'[c] = "replay" \/ Replay(c)
  <2>1. CASE Attach(b)
    BY <1>0, <2>1 DEF Attach, Handles
  <2>2. CASE Refuse(b)
    BY <1>0, <2>2 DEF Refuse, Handles
  <2>3. CASE Replay(b) \/ TouchLoad(b) \/ TouchTruncate(b) \/ TouchWrite(b)
    BY <1>0, <2>3 DEF Replay, TouchLoad, TouchTruncate, TouchWrite, Handles
  <2>4. CASE ReceiveInput(b) \/ ReceiveDetach(b) \/ ReceiveFails(b)
    BY <1>0, <2>4 DEF ReceiveInput, ReceiveDetach, ReceiveFails, Handles
  <2> QED
    BY <1>4, <2>1, <2>2, <2>3, <2>4 DEF Handler
<1>5. ASSUME NEW b \in Terms, Dial(b)
      PROVE  /\ handler'[c] = "replay" => handler[c] = "replay"
             /\ Fresh(c)' => Fresh(c)
             /\ handler[c] = "replay" => handler'[c] = "replay"
  <2>1. handler[b] = "none"
    BY <1>5 DEF Dial, Whole, OneInv, Outside
  <2> QED
    BY <1>0, <1>5, <2>1 DEF Dial
<1>6. ASSUME NEW b \in Terms, Screen(b) \/ Keyboard(b)
      PROVE  handler' = handler
  BY <1>6 DEF Screen, Show, SeeEnd, Keyboard, StdinEnds, Vanish, Type
<1> QED
  BY <1>1, <1>2, <1>3, <1>4, <1>5, <1>6 DEF Next

\* The bytes of the buffer are in the order of the pty and have been read.
Rising(s) == \A x, y : Ordered(s, x, y) => x < y

LEMMA BytesRise ==
  ASSUME NEW g \in Nat, NEW k \in 0..g
  PROVE  /\ Rising(Bytes((g - k) + 1, g))
         /\ \A x : Has(Bytes((g - k) + 1, g), x) <=> x \in ((g - k) + 1)..g
<1> DEFINE b == Bytes((g - k) + 1, g)
<1>1. b \in Seq(Nat) /\ Len(b) = k /\ \A i \in 1..k : b[i] = (g - k) + i
  BY LastBytes
<1>2. DOMAIN b = 1..k
  BY <1>1
<1> HIDE DEF b
<1>3. Rising(b)
  BY <1>1, <1>2 DEF Rising, Ordered
<1>4. ASSUME NEW x
      PROVE  Has(b, x) <=> x \in ((g - k) + 1)..g
  <2>1. ASSUME Has(b, x)
        PROVE  x \in ((g - k) + 1)..g
    BY <1>1, <1>2, <2>1 DEF Has
  <2>2. ASSUME x \in ((g - k) + 1)..g
        PROVE  Has(b, x)
    <3>1. x - (g - k) \in 1..k /\ (g - k) + (x - (g - k)) = x
      BY <2>2
    <3> QED
      BY <1>1, <1>2, <3>1 DEF Has
  <2> QED
    BY <2>1, <2>2
<1> QED
  BY <1>3, <1>4 DEF b

LEMMA BufferRises ==
  ASSUME TailInv
  PROVE  Rising(buffer) /\ \A x : Has(buffer, x) => x \in 1..got
<1>1. PICK k \in 0..got : buffer = Bytes((got - k) + 1, got)
  BY DEF TailInv
<1>2. got \in Nat
  BY DEF TailInv
<1>3. \A x : x \in ((got - k) + 1)..got => x \in 1..got
  BY <1>2
<1> QED
  BY <1>1, <1>2, <1>3, BytesRise

\* What readPTY reads.
LEMMA ReadBytes ==
  ASSUME Whole, Broadcast
  PROVE  \E n \in 1..ReadMax :
           /\ got' = got + n
           /\ Bytes(got + 1, got + n) \in Seq(Nat) /\ Len(Bytes(got + 1, got + n)) = n
           /\ Rising(Bytes(got + 1, got + n))
           /\ \A x : Has(Bytes(got + 1, got + n), x) <=> x \in (got + 1)..(got + n)
           /\ \/ reader'.data = Bytes(got + 1, got + n) /\ reader'.at = "send" /\ client # None /\ UNCHANGED buffer
              \/ buffer' = Buffered(buffer, Bytes(got + 1, got + n)) /\ UNCHANGED reader
<1>1. PICK n \in 1..ReadMax : /\ got' = got + n
                              /\ IF client = None
                                 THEN buffer' = Buffered(buffer, Bytes(got + 1, got + n)) /\ UNCHANGED reader
                                 ELSE /\ reader' = [at |-> "send", to |-> client, data |-> Bytes(got + 1, got + n)]
                                      /\ UNCHANGED buffer
  BY DEF Broadcast
<1>2. got \in Nat /\ n \in Nat
  BY MuxSessionAssumption DEF Whole, TailInv
<1>3. got + n \in Nat /\ n \in 0..(got + n) /\ (got + n) - n = got
  BY <1>2
<1>4. /\ Bytes(got + 1, got + n) \in Seq(Nat) /\ Len(Bytes(got + 1, got + n)) = n
      /\ Rising(Bytes(got + 1, got + n))
      /\ \A x : Has(Bytes(got + 1, got + n), x) <=> x \in (got + 1)..(got + n)
  <2>1. /\ Bytes(((got + n) - n) + 1, got + n) \in Seq(Nat)
        /\ Len(Bytes(((got + n) - n) + 1, got + n)) = n
        /\ Rising(Bytes(((got + n) - n) + 1, got + n))
        /\ \A x : Has(Bytes(((got + n) - n) + 1, got + n), x) <=> x \in (((got + n) - n) + 1)..(got + n)
    BY <1>3, LastBytes, BytesRise
  <2> QED
    BY <1>3, <2>1
<1>5. CASE client = None
  BY <1>1, <1>4, <1>5
<1>6. CASE client # None
  <2>1. reader'.data = Bytes(got + 1, got + n) /\ reader'.at = "send" /\ UNCHANGED buffer
    BY <1>1, <1>6
  <2> QED
    BY <1>1, <1>4, <1>6, <2>1
<1> QED
  BY <1>5, <1>6

\* The invariance of the types.
LEMMA OutTypesNext == Whole /\ [Next]_vars => OutTypes'
<1> SUFFICES ASSUME Whole, [Next]_vars
             PROVE  OutTypes'
  OBVIOUS
<1>1. OutTypes
  BY DEF Whole
<1>2. ASSUME NEW c \in Terms
      PROVE  shown'[c] \in Seq(Nat) /\ wire'[c] \in Seq(Messages)
  <2>1. CASE Quiet(c)
    BY <1>1, <2>1, EmptyData, StreamTypes DEF Quiet
  <2>2. CASE SendOutput
    <3>1. reader.data \in Seq(Nat)
      BY <1>1 DEF OutTypes
    <3>2. Unmoved(c) \/ SentData(c, reader.data)
      BY <2>2, ReaderStreams
    <3> QED
      BY <1>1, <3>1, <3>2, StreamTypes
  <2>3. ASSUME NEW b \in Terms, Replay(b)
        PROVE  shown'[c] \in Seq(Nat) /\ wire'[c] \in Seq(Messages)
    <3>1. replay[c] \in Seq(Nat)
      BY <1>1 DEF OutTypes
    <3>2. Unmoved(c) \/ SentData(c, replay[c])
      BY <2>3, ReplayStreams
    <3> QED
      BY <1>1, <3>1, <3>2, StreamTypes
  <2> QED
    BY <2>1, <2>2, <2>3, QuietSteps
<1>3. reader'.data \in Seq(Nat)
  <2>1. CASE Broadcast
    BY <1>1, <2>1, ReadBytes DEF OutTypes
  <2>2. CASE SendOutput
    BY <1>1, <2>2 DEF SendOutput, Idle, OutTypes, Whole, OneInv, Shapes
  <2>3. CASE SendFailed \/ ReadEnds
    <3>1. reader'.data = <<>>
      BY <2>3 DEF SendFailed, ReadEnds, Idle
    <3> QED
      BY <3>1
  <2>4. CASE UNCHANGED reader
    BY <1>1, <2>4 DEF OutTypes
  <2> QED
    BY <2>1, <2>2, <2>3, <2>4, ReaderNext
<1>4. /\ buffer' \in Seq(Nat) /\ DOMAIN replay' = Terms
      /\ \A c \in Terms : replay'[c] \in Seq(Nat)
  <2>1. CASE UNCHANGED <<replay, buffer>>
    BY <1>1, <2>1 DEF OutTypes
  <2>2. CASE Broadcast /\ UNCHANGED replay
    <3>1. TailInv'
      BY <2>2, TailGrows DEF Whole
    <3>2. buffer' \in Seq(Nat)
      BY <3>1, LastBytes DEF TailInv
    <3> QED
      BY <1>1, <2>2, <3>2 DEF OutTypes
  <2>3. ASSUME NEW b \in Terms, replay' = [replay EXCEPT ![b] = buffer], buffer' = <<>>
        PROVE  /\ buffer' \in Seq(Nat) /\ DOMAIN replay' = Terms
               /\ \A c \in Terms : replay'[c] \in Seq(Nat)
    BY <1>1, <2>3 DEF OutTypes
  <2> QED
    BY <2>1, <2>2, <2>3, BufferNext
<1> QED
  BY <1>2, <1>3, <1>4 DEF OutTypes

(***************************************************************************)
(* The order in which a terminal is shown output.                          *)
(***************************************************************************)
\* What is sent live comes after the whole replay in the output; each of them
\* is in order; before attachConn sends the replay none of it has been sent.
StreamInv(c) ==
  /\ \A x : On(c, x) \/ InReplay(c, x) => x \in 1..got
  /\ \A x, y : On(c, x) /\ ~InReplay(c, x) /\ InReplay(c, y) => y < x
  /\ \A x, y : Before(c, x, y) /\ (InReplay(c, x) <=> InReplay(c, y)) => x < y
  /\ handler[c] = "replay" => \A x : ~(On(c, x) /\ InReplay(c, x))
  /\ Fresh(c) => \A x : ~On(c, x) /\ ~InReplay(c, x)
  /\ Rising(replay[c])

\* What readPTY sends comes after all that.
InHands(y) == Has(reader.data, y)
Newest(c) == \A x, y : (On(c, x) \/ InReplay(c, x)) /\ InHands(y) => x < y
ReaderInv ==
  /\ Rising(reader.data) /\ \A x : Has(reader.data, x) => x \in 1..got
  /\ reader.at \in {"send", "failed"} \/ reader.data = <<>>
  /\ reader.at \in {"send", "failed"} => buffer = <<>>

OrderInv == ReaderInv /\ \A c \in Terms : StreamInv(c) /\ Newest(c)

LEMMA ReaderOrder == Whole /\ OrderInv /\ [Next]_vars => ReaderInv'
<1> SUFFICES ASSUME Whole, OrderInv, [Next]_vars
             PROVE  ReaderInv'
  OBVIOUS
<1>1. ReaderInv /\ got \in Nat /\ TailInv
  BY DEF OrderInv, Whole, TailInv
<1>2. Rising(<<>>) /\ \A x : ~Has(<<>>, x)
  BY EmptyHas DEF Rising
<1>3. CASE Broadcast
  <2>1. PICK n \in 1..ReadMax :
           /\ got' = got + n
           /\ Rising(Bytes(got + 1, got + n))
           /\ \A x : Has(Bytes(got + 1, got + n), x) <=> x \in (got + 1)..(got + n)
           /\ \/ reader'.data = Bytes(got + 1, got + n) /\ reader'.at = "send" /\ client # None /\ UNCHANGED buffer
              \/ buffer' = Buffered(buffer, Bytes(got + 1, got + n)) /\ UNCHANGED reader
    BY <1>3, ReadBytes
  <2>2. reader.at = "read" /\ reader.data = <<>>
    BY <1>1, <1>3 DEF Broadcast, ReaderInv
  <2>3. CASE reader'.data = Bytes(got + 1, got + n) /\ reader'.at = "send" /\ client # None /\ UNCHANGED buffer
    <3>1. buffer' = <<>>
      BY <1>1, <2>3 DEF TailInv
    <3>2. \A x : x \in (got + 1)..(got + n) => x \in 1..got'
      BY <1>1, <2>1
    <3>3. Rising(reader'.data) /\ \A x : Has(reader'.data, x) => x \in 1..got'
      BY <2>1, <2>3, <3>2
    <3> QED
      BY <2>3, <3>1, <3>3 DEF ReaderInv
  <2>4. CASE UNCHANGED reader
    BY <1>2, <2>2, <2>4 DEF ReaderInv
  <2> QED
    BY <2>1, <2>3, <2>4
<1>4. ASSUME ~Broadcast
      PROVE  got' = got /\ (buffer' = buffer \/ buffer' = <<>>)
  <2>1. buffer' = buffer \/ buffer' = <<>>
    BY <1>4, BufferNext
  <2>2. got' = got
    BY <1>4, BufferNext
  <2> QED
    BY <2>1, <2>2
<1>5. CASE SendOutput
  <2>1. ~Broadcast
    BY <1>5 DEF SendOutput, Broadcast
  <2>2. CASE reader' = Idle
    BY <1>1, <1>2, <2>2 DEF ReaderInv, Idle
  <2>3. CASE reader' = [reader EXCEPT !.at = "failed"]
    <3>1. reader = [at |-> reader.at, to |-> reader.to, data |-> reader.data]
      BY DEF Whole, OneInv, Shapes
    <3>2. reader'.data = reader.data /\ reader'.at = "failed" /\ reader.at = "send"
      BY <1>5, <2>3, <3>1 DEF SendOutput
    <3> QED
      BY <1>1, <1>4, <2>1, <3>2 DEF ReaderInv
  <2> QED
    BY <1>5, <2>2, <2>3 DEF SendOutput
<1>6. CASE SendFailed \/ ReadEnds
  <2>1. reader'.data = <<>> /\ reader'.at \in {"read", "done"}
    BY <1>6 DEF SendFailed, ReadEnds, Idle
  <2> QED
    BY <1>2, <2>1 DEF ReaderInv
<1>7. CASE UNCHANGED reader /\ ~Broadcast
  BY <1>1, <1>4, <1>7 DEF ReaderInv
<1> QED
  BY <1>3, <1>5, <1>6, <1>7, ReaderNext

\* Steps that bring nothing to the stream of c.
LEMMA QuietOrder ==
  ASSUME Whole, OrderInv, NEW c \in Terms, Quiet(c),
         got' \in Nat, got <= got',
         replay'[c] = replay[c],
         handler'[c] = "replay" => handler[c] = "replay", Fresh(c)' => Fresh(c),
         \/ reader'.data = reader.data
         \/ reader'.data = <<>>
         \/ \A x : Has(reader'.data, x) => x \in Nat /\ got < x
  PROVE  StreamInv(c)' /\ Newest(c)'
<1>1. OutTypes /\ got \in Nat
  BY DEF Whole, TailInv
<1>2. /\ \A x : InStream(shown'[c], wire'[c], x) => On(c, x)
      /\ \A x, y : Precedes(shown'[c], wire'[c], x, y) => Before(c, x, y)
  BY <1>1, QuietStream DEF Quiet
<1>3. /\ \A x : On(c, x)' => On(c, x)
      /\ \A x, y : Before(c, x, y)' => Before(c, x, y)
      /\ \A x : InReplay(c, x)' <=> InReplay(c, x)
  BY <1>2 DEF On, Before, InReplay
<1>4. StreamInv(c) /\ Newest(c)
  BY DEF OrderInv
<1>5. \A x \in 1..got : x \in 1..got'
  BY <1>1
<1>6. StreamInv(c)'
  BY <1>3, <1>4, <1>5 DEF StreamInv
<1>7. CASE reader'.data = reader.data
  <2>1. \A y : InHands(y)' => InHands(y)
    BY <1>7 DEF InHands
  <2> QED
    BY <1>3, <1>4, <1>6, <2>1 DEF Newest
<1>8. CASE reader'.data = <<>>
  <2>1. \A y : ~InHands(y)'
    BY <1>8, EmptyHas DEF InHands
  <2> QED
    BY <1>6, <2>1 DEF Newest
<1>9. CASE \A x : Has(reader'.data, x) => x \in Nat /\ got < x
  <2>1. \A x : On(c, x)' \/ InReplay(c, x)' => x \in 1..got
    BY <1>3, <1>4 DEF StreamInv
  <2>2. \A x \in 1..got : \A y \in Nat : got < y => x < y
    BY <1>1
  <2>3. \A y : InHands(y)' => y \in Nat /\ got < y
    BY <1>9 DEF InHands
  <2> QED
    BY <1>6, <2>1, <2>2, <2>3 DEF Newest
<1> QED
  BY <1>6, <1>7, <1>8, <1>9

\* Live output: it is the newest, and every replay is older.
LEMMA LiveOrder ==
  ASSUME Whole, OrderInv, SendOutput, NEW c \in Terms,
         c = reader.to, ~Broken(c), SentData(c, reader.data)
  PROVE  StreamInv(c)' /\ Newest(c)'
<1>1. OutTypes /\ reader.data \in Seq(Nat) /\ StreamInv(c) /\ Newest(c) /\ ReaderInv
  BY DEF Whole, OrderInv, OutTypes
<1>2. UNCHANGED <<handler, replay, got>> /\ reader' = Idle
  BY DEF SendOutput, handlerVars, ptyVars
<1>3. ~Fresh(c) /\ reader.at = "send"
  BY DEF SendOutput, Fresh, Whole, OneInv, SentTo, Admitted
<1>4. /\ \A x : InStream(shown'[c], wire'[c], x) <=> On(c, x) \/ Has(reader.data, x)
      /\ \A x, y : Precedes(shown'[c], wire'[c], x, y) =>
           Before(c, x, y) \/ (On(c, x) /\ Has(reader.data, y)) \/ Ordered(reader.data, x, y)
  BY <1>1, DataStream
<1>5. /\ \A x : On(c, x)' <=> On(c, x) \/ InHands(x)
      /\ \A x, y : Before(c, x, y)' =>
           Before(c, x, y) \/ (On(c, x) /\ InHands(y)) \/ Ordered(reader.data, x, y)
      /\ \A x : InReplay(c, x)' <=> InReplay(c, x)
  BY <1>2, <1>4 DEF On, Before, InReplay, InHands
<1>6. \A x : InHands(x) => x \in 1..got
  BY <1>1 DEF ReaderInv, InHands
<1>7. \A x, y : Ordered(reader.data, x, y) => x < y
  BY <1>1 DEF ReaderInv, Rising
<1>8. \A x : ~InHands(x)'
  BY <1>2, EmptyHas DEF InHands, Idle
<1>9. \A x \in 1..got : ~(x < x)
  BY DEF Whole, TailInv
<1>10. \A x : ~(InHands(x) /\ InReplay(c, x))
  BY <1>1, <1>6, <1>9 DEF Newest
<1>11. /\ (\A x : On(c, x) \/ InReplay(c, x) => x \in 1..got)'
       /\ (handler[c] = "replay" => \A x : ~(On(c, x) /\ InReplay(c, x)))'
       /\ (Fresh(c) => \A x : ~On(c, x) /\ ~InReplay(c, x))'
       /\ Rising(replay[c])'
  BY <1>1, <1>2, <1>3, <1>5, <1>6, <1>10 DEF StreamInv, Fresh
<1>12. (\A x, y : On(c, x) /\ ~InReplay(c, x) /\ InReplay(c, y) => y < x)'
  BY <1>1, <1>5 DEF StreamInv, Newest
<1>13. (\A x, y : Before(c, x, y) /\ (InReplay(c, x) <=> InReplay(c, y)) => x < y)'
  BY <1>1, <1>5, <1>7 DEF StreamInv, Newest
<1> QED
  BY <1>8, <1>11, <1>12, <1>13 DEF StreamInv, Newest

\* The replay: what was sent live before it is not in it.
LEMMA ReplayOrder ==
  ASSUME Whole, OrderInv, NEW c \in Terms, Replay(c), SentData(c, replay[c])
  PROVE  StreamInv(c)' /\ Newest(c)'
<1>1. OutTypes /\ replay[c] \in Seq(Nat) /\ StreamInv(c) /\ Newest(c)
  BY DEF Whole, OrderInv, OutTypes
<1>2. UNCHANGED <<replay, got, reader>> /\ handler[c] = "replay" /\ handler'[c] = "touch"
  BY DEF Replay, Handles, Whole, OneInv, Shapes, ptyVars, readerVars
<1>3. /\ \A x : InStream(shown'[c], wire'[c], x) <=> On(c, x) \/ Has(replay[c], x)
      /\ \A x, y : Precedes(shown'[c], wire'[c], x, y) =>
           Before(c, x, y) \/ (On(c, x) /\ Has(replay[c], y)) \/ Ordered(replay[c], x, y)
  BY <1>1, DataStream
<1>4. /\ \A x : On(c, x)' <=> On(c, x) \/ InReplay(c, x)
      /\ \A x, y : Before(c, x, y)' =>
           Before(c, x, y) \/ (On(c, x) /\ InReplay(c, y)) \/ Ordered(replay[c], x, y)
      /\ \A x : (InReplay(c, x)' <=> InReplay(c, x)) /\ (InHands(x)' <=> InHands(x))
  BY <1>2, <1>3 DEF On, Before, InReplay, InHands
<1>5. \A x : ~(On(c, x) /\ InReplay(c, x))
  BY <1>1, <1>2 DEF StreamInv
<1>6. \A x, y : Ordered(replay[c], x, y) => x < y
  BY <1>1 DEF StreamInv, Rising
<1>7. /\ (\A x : On(c, x) \/ InReplay(c, x) => x \in 1..got)'
      /\ (handler[c] = "replay" => \A x : ~(On(c, x) /\ InReplay(c, x)))'
      /\ (Fresh(c) => \A x : ~On(c, x) /\ ~InReplay(c, x))'
      /\ Rising(replay[c])'
  BY <1>1, <1>2, <1>4 DEF StreamInv, Fresh
<1>8. (\A x, y : On(c, x) /\ ~InReplay(c, x) /\ InReplay(c, y) => y < x)'
  BY <1>1, <1>4 DEF StreamInv
<1>9. (\A x, y : Before(c, x, y) /\ (InReplay(c, x) <=> InReplay(c, y)) => x < y)'
  BY <1>1, <1>4, <1>5, <1>6 DEF StreamInv
<1>10. Newest(c)'
  BY <1>1, <1>4 DEF Newest
<1> QED
  BY <1>7, <1>8, <1>9, <1>10 DEF StreamInv

\* A terminal that attaches is taken the buffer; it was sent nothing yet.
LEMMA AttachOrder ==
  ASSUME Whole, OrderInv, NEW c \in Terms, Attach(c), Quiet(c)
  PROVE  StreamInv(c)' /\ Newest(c)'
<1>1. OutTypes /\ TailInv /\ StreamInv(c) /\ ReaderInv
  BY DEF Whole, OrderInv
<1>2. /\ replay'[c] = buffer /\ UNCHANGED <<got, reader>>
      /\ handler[c] = "hello" /\ handler'[c] = "replay"
  BY <1>1 DEF Attach, Handles, Whole, OneInv, Shapes, OutTypes, ptyVars, readerVars
<1>3. /\ \A x : InStream(shown'[c], wire'[c], x) => On(c, x)
      /\ \A x, y : Precedes(shown'[c], wire'[c], x, y) => Before(c, x, y)
  BY <1>1, QuietStream DEF Quiet
<1>4. \A x : ~On(c, x) /\ ~InReplay(c, x)
  BY <1>1, <1>2 DEF StreamInv, Fresh
<1>5. \A x, y : Before(c, x, y) => x < y
  BY <1>1, <1>4 DEF StreamInv
<1>6. /\ \A x : ~On(c, x)'
      /\ \A x, y : Before(c, x, y)' => x < y
      /\ \A x : InReplay(c, x)' <=> Has(buffer, x)
      /\ \A x : InHands(x)' <=> InHands(x)
  BY <1>2, <1>3, <1>4, <1>5 DEF On, Before, InReplay, InHands
<1>7. Rising(buffer) /\ \A x : Has(buffer, x) => x \in 1..got
  BY <1>1, BufferRises
<1>8. \A x, y : InHands(x) => ~Has(buffer, y)
  BY <1>1, EmptyHas DEF ReaderInv, InHands
<1>9. Rising(replay[c])' /\ ~Fresh(c)'
  BY <1>2, <1>7 DEF Fresh
<1>10. StreamInv(c)'
  BY <1>2, <1>6, <1>7, <1>9 DEF StreamInv
<1> QED
  BY <1>6, <1>8, <1>10 DEF Newest

LEMMA OrderNext == Whole /\ OrderInv /\ [Next]_vars => OrderInv'
<1> SUFFICES ASSUME Whole, OrderInv, [Next]_vars, NEW c \in Terms
             PROVE  StreamInv(c)' /\ Newest(c)'
  BY ReaderOrder DEF OrderInv
<1>1. got \in Nat /\ got' \in Nat /\ got <= got'
  <2>1. got \in Nat
    BY DEF Whole, TailInv
  <2>2. CASE Broadcast
    BY <2>1, <2>2, ReadBytes, MuxSessionAssumption
  <2> QED
    BY <2>1, <2>2, BufferNext
<1>2. \/ reader'.data = reader.data
      \/ reader'.data = <<>>
      \/ \A x : Has(reader'.data, x) => x \in Nat /\ got < x
  <2>1. CASE Broadcast
    <3>1. PICK n \in 1..ReadMax :
             /\ \A x : Has(Bytes(got + 1, got + n), x) <=> x \in (got + 1)..(got + n)
             /\ reader'.data = Bytes(got + 1, got + n) \/ UNCHANGED reader
      BY <2>1, ReadBytes
    <3>2. \A x \in (got + 1)..(got + n) : x \in Nat /\ got < x
      BY <1>1
    <3> QED
      BY <3>1, <3>2
  <2>2. CASE SendOutput
    BY <2>2 DEF SendOutput, Idle, Whole, OneInv, Shapes
  <2>3. CASE SendFailed \/ ReadEnds
    BY <2>3 DEF SendFailed, ReadEnds, Idle
  <2> QED
    BY <2>1, <2>2, <2>3, ReaderNext
<1>3. /\ handler'[c] = "replay" => handler[c] = "replay" \/ Attach(c)
      /\ Fresh(c)' => Fresh(c)
  BY HandlerNext
<1>4. CASE Attach(c)
  <2>1. Quiet(c)
    BY <1>4 DEF Attach, Handles, termVars, Quiet, Unmoved
  <2> QED
    BY <1>4, <2>1, AttachOrder
<1>5. CASE ~Attach(c)
  <2>1. replay'[c] = replay[c]
    <3>1. ASSUME NEW b \in Terms, Attach(b), replay' = [replay EXCEPT ![b] = buffer]
          PROVE  replay'[c] = replay[c]
      <4>1. b # c
        BY <1>5, <3>1
      <4> QED
        BY <3>1, <4>1
    <3> QED
      BY <3>1, BufferNext
  <2>2. CASE Quiet(c)
    BY <1>1, <1>2, <1>3, <1>5, <2>1, <2>2, QuietOrder
  <2>3. CASE SendOutput
    <3>1. Unmoved(c) \/ (c = reader.to /\ ~Broken(c) /\ SentData(c, reader.data))
      BY <2>3, ReaderStreams
    <3> QED
      BY <2>2, <2>3, <3>1, LiveOrder DEF Quiet
  <2>4. ASSUME NEW b \in Terms, Replay(b)
        PROVE  StreamInv(c)' /\ Newest(c)'
    <3>1. Unmoved(c) \/ (c = b /\ SentData(c, replay[c]))
      BY <2>4, ReplayStreams
    <3> QED
      BY <2>2, <2>4, <3>1, ReplayOrder DEF Quiet
  <2> QED
    BY <2>2, <2>3, <2>4, QuietSteps
<1> QED
  BY <1>4, <1>5

LEMMA StartsWhole == Init => Whole /\ OrderInv
<1> SUFFICES ASSUME Init
             PROVE  Whole /\ OrderInv
  OBVIOUS
<1>1. OneInv
  BY MuxSessionAssumption
     DEF Init, Idle, OneInv, Shapes, SentTo, Admitted, Outside, OneAttached, Serving
<1>2. TailInv
  BY EmptyTail, MuxSessionAssumption DEF Init, TailInv, Fits
<1>3. OutTypes
  <2>1. <<>> \in Seq(Nat) /\ <<>> \in Seq(Messages)
    OBVIOUS
  <2> QED
    BY <2>1 DEF Init, Idle, OutTypes
<1>4. ASSUME NEW c \in Terms
      PROVE  \A x, y : ~On(c, x) /\ ~InReplay(c, x) /\ ~Before(c, x, y) /\ ~Ordered(replay[c], x, y) /\ ~InHands(x)
  <2>1. shown[c] = <<>> /\ wire[c] = <<>> /\ replay[c] = <<>> /\ reader.data = <<>>
    BY DEF Init, Idle
  <2> QED
    BY <2>1, EmptyHas DEF On, InStream, Before, Precedes, InReplay, InHands
<1>5. \A c \in Terms : StreamInv(c) /\ Newest(c)
  BY <1>4 DEF StreamInv, Newest, Rising
<1>6. ReaderInv
  BY EmptyHas DEF Init, Idle, ReaderInv, Rising
<1> QED
  BY <1>1, <1>2, <1>3, <1>5, <1>6 DEF Whole, OrderInv

LEMMA WholeNext == Whole /\ [Next]_vars => Whole'
  BY OneNext, TailNext, OutTypesNext DEF Whole

\* The model's pieces are the stream.
LEMMA PiecesAreStream ==
  ASSUME OutTypes, NEW c \in Terms
  PROVE  /\ \A p \in Pieces(c) : \A i \in DOMAIN Piece(c, p) : On(c, Piece(c, p)[i])
         /\ \A p, q \in Pieces(c) : \A i \in DOMAIN Piece(c, p), j \in DOMAIN Piece(c, q) :
              p < q \/ (p = q /\ i < j) => Before(c, Piece(c, p)[i], Piece(c, q)[j])
         /\ \A x : On(c, x) => \E p \in Pieces(c) : Has(Piece(c, p), x)
<1> DEFINE w == wire[c]
           n == Len(wire[c])
<1>1. n \in Nat /\ DOMAIN w = 1..n
  BY DEF OutTypes
<1>2. Pieces(c) = 0..n /\ Piece(c, 0) = shown[c] /\ \A p \in 1..n : Piece(c, p) = w[p].data
  BY <1>1 DEF Pieces, Piece
<1> HIDE DEF w, n
<1>3. \A p \in 0..n : p = 0 \/ p \in 1..n
  BY <1>1
<1>4. 0 \in 0..n /\ \A p \in 1..n : p \in 0..n /\ ~(p < 0) /\ p # 0
  BY <1>1
<1>5. \A x : On(c, x) <=> Has(shown[c], x) \/ \E p \in 1..n : Has(w[p].data, x)
  BY <1>1 DEF On, InStream, WireHas, w
<1>6. \A p \in 0..n : \A i \in DOMAIN Piece(c, p) : Has(Piece(c, p), Piece(c, p)[i])
  BY DEF Has
<1>7. \A p \in 0..n : \A i \in DOMAIN Piece(c, p) : On(c, Piece(c, p)[i])
  BY <1>2, <1>3, <1>5, <1>6
<1>8. \A x : On(c, x) => \E p \in 0..n : Has(Piece(c, p), x)
  BY <1>2, <1>4, <1>5
<1>9. ASSUME NEW p \in 0..n, NEW q \in 0..n, NEW i \in DOMAIN Piece(c, p), NEW j \in DOMAIN Piece(c, q),
             p < q \/ (p = q /\ i < j)
      PROVE  Before(c, Piece(c, p)[i], Piece(c, q)[j])
  <2> DEFINE x == Piece(c, p)[i]
             y == Piece(c, q)[j]
  <2>1. Has(Piece(c, p), x) /\ Has(Piece(c, q), y)
    BY <1>6
  <2>2. p = q /\ i < j => Ordered(Piece(c, p), x, y)
    BY DEF Ordered
  <2> HIDE DEF x, y
  <2>3. CASE p = 0 /\ q = 0
    <3>1. Ordered(shown[c], x, y)
      BY <1>2, <1>9, <2>2, <2>3
    <3> QED
      BY <3>1 DEF Before, Precedes, x, y
  <2>4. CASE p = 0 /\ q # 0
    <3>1. Has(shown[c], x) /\ WireHas(w, y)
      BY <1>1, <1>2, <1>3, <2>1, <2>4 DEF WireHas
    <3> QED
      BY <3>1 DEF Before, Precedes, x, y, w
  <2>5. CASE p # 0
    <3>1. p \in 1..n /\ q \in 1..n
      BY <1>3, <1>4, <1>9, <2>5
    <3>2. Has(w[p].data, x) /\ Has(w[q].data, y) /\ (p = q /\ i < j => Ordered(w[p].data, x, y))
      BY <1>2, <2>1, <2>2, <3>1
    <3>3. WireOrdered(w, x, y)
      BY <1>1, <1>9, <3>1, <3>2 DEF WireOrdered
    <3> QED
      BY <3>3 DEF Before, Precedes, x, y, w
  <2> QED
    BY <2>3, <2>4, <2>5
<1> QED
  BY <1>2, <1>7, <1>8, <1>9

\* Each terminal is shown the output in order but for the replay, which live
\* output may overtake: for any number of terminals that come and go while
\* readPTY, attachConn and detachClient run without d.mu.
THEOREM OrderKept == Spec => []OnlyReplayIsOvertaken
<1>1. Whole /\ OrderInv => OnlyReplayIsOvertaken
  <2> SUFFICES ASSUME Whole, OrderInv, NEW c \in Terms, NEW p \in Pieces(c), NEW q \in Pieces(c),
                      NEW i \in DOMAIN Piece(c, p), NEW j \in DOMAIN Piece(c, q),
                      p < q \/ (p = q /\ i < j), Piece(c, p)[i] > Piece(c, q)[j]
               PROVE  Piece(c, q)[j] \in ToSet(replay[c]) /\ Piece(c, p)[i] \notin ToSet(replay[c])
    BY DEF OnlyReplayIsOvertaken
  <2> DEFINE x == Piece(c, p)[i]
             y == Piece(c, q)[j]
  <2>1. On(c, x) /\ On(c, y) /\ Before(c, x, y)
    BY PiecesAreStream DEF Whole
  <2>2. StreamInv(c) /\ got \in Nat
    BY DEF OrderInv, Whole, TailInv
  <2>3. \A v : InReplay(c, v) <=> v \in ToSet(replay[c])
    BY DEF InReplay, Has, ToSet
  <2> HIDE DEF x, y
  <2>4. x > y
    BY DEF x, y
  <2>5. x \in 1..got /\ y \in 1..got
    BY <2>1, <2>2 DEF StreamInv
  <2>6. ~(x < y)
    BY <2>2, <2>4, <2>5
  <2>7. InReplay(c, y) /\ ~InReplay(c, x)
    BY <2>1, <2>2, <2>6 DEF StreamInv
  <2> QED
    BY <2>3, <2>7 DEF x, y
<1> QED
  BY <1>1, StartsWhole, WholeNext, OrderNext, PTL DEF Spec

(***************************************************************************)
(* Nothing is lost while terminals stay.                                   *)
(***************************************************************************)
\* A terminal that is heard to detach has left.
UpMessages == [type : {"input", "detach"}, data : Seq(Keys)]
Heard ==
  /\ DOMAIN up = Terms
  /\ \A c \in Terms :
       /\ up[c] \in Seq(UpMessages)
       /\ \A i \in DOMAIN up[c] : up[c][i].type = "detach" => term[c] = "left"

\* The daemon hangs up on a terminal, or closes its end of the pty, only when
\* it shuts down or the terminal has left.
Attends ==
  /\ waiter \in {"closing", "closed", "done"} \/ ~ptyOpen \/ ended => shutdown
  /\ \A c \in Terms : handler[c] \notin {"none", "refused"} /\ term[c] = "open" => conn[c] \/ shutdown
  /\ reader.at = "failed" => term[reader.to] = "left" \/ shutdown
  /\ reader.at \in {"read", "done"} => reader.data = <<>>

Kept(x) ==
  \/ \E c \in Terms : On(c, x) \/ (handler[c] = "replay" /\ InReplay(c, x))
  \/ Has(buffer, x) \/ InHands(x)
Staying == got <= MaxBuf /\ ~shutdown /\ \A c \in Terms : term[c] # "left"
AllKept == Staying => \A x \in 1..got : Kept(x)

\* What a terminal says.
LEMMA HeardSays ==
  ASSUME Heard, NEW c \in Terms, NEW t \in {"input", "detach"}, NEW d \in Seq(Keys), Says(c, t, d),
         DOMAIN term = Terms, term' = term \/ Leaves(c), t = "detach" => Leaves(c)
  PROVE  Heard'
<1> DEFINE m == Message(t, d)
           n == Len(up[c])
<1>1. up[c] \in Seq(UpMessages) /\ n \in Nat /\ DOMAIN up[c] = 1..n /\ DOMAIN up = Terms
  BY DEF Heard
<1>2. m \in UpMessages /\ m.type = t
  BY DEF Message, UpMessages
<1>3. up'[c] = Append(up[c], m) /\ DOMAIN up' = Terms /\ \A b \in Terms \ {c} : up'[b] = up[b]
  BY <1>1 DEF Says
<1> HIDE DEF m, UpMessages
<1>4. /\ up'[c] \in Seq(UpMessages) /\ DOMAIN up'[c] = 1..(n + 1)
      /\ up'[c][n + 1] = m /\ \A i \in 1..n : up'[c][i] = up[c][i]
  BY <1>1, <1>2, <1>3
<1>5. /\ \A b \in Terms : term[b] = "left" => term'[b] = "left"
      /\ t = "detach" => term'[c] = "left"
  BY DEF Leaves
<1>6. \A i \in 1..(n + 1) : i \in 1..n \/ i = n + 1
  BY <1>1
<1>7. \A i \in DOMAIN up'[c] : up'[c][i].type = "detach" => term'[c] = "left"
  BY <1>1, <1>2, <1>4, <1>5, <1>6 DEF Heard
<1>8. \A b \in Terms \ {c} : /\ up'[b] \in Seq(UpMessages)
                              /\ \A i \in DOMAIN up'[b] : up'[b][i].type = "detach" => term'[b] = "left"
  BY <1>3, <1>5 DEF Heard
<1> QED
  BY <1>3, <1>4, <1>7, <1>8 DEF Heard

\* The daemon takes a message.
LEMMA HeardTaken ==
  ASSUME Heard, NEW c \in Terms, up[c] # <<>>
  PROVE  /\ Takes(c) /\ term' = term => Heard'
         /\ Head(up[c]).type = "detach" => term[c] = "left"
         /\ Head(up[c]) \in UpMessages
<1> HIDE DEF UpMessages
<1>1. up[c] \in Seq(UpMessages) /\ up[c] # <<>> /\ DOMAIN up = Terms
  BY DEF Heard
<1>2. Head(up[c]) = up[c][1] /\ 1 \in DOMAIN up[c] /\ Head(up[c]) \in UpMessages
  BY <1>1
<1>3. Head(up[c]).type = "detach" => term[c] = "left"
  BY <1>2 DEF Heard
<1>5. /\ Tail(up[c]) \in Seq(UpMessages)
      /\ \A i \in DOMAIN Tail(up[c]) : i + 1 \in DOMAIN up[c] /\ Tail(up[c])[i] = up[c][i + 1]
  BY <1>1
<1>7. ASSUME Takes(c), term' = term
      PROVE  Heard'
  <2>2. up'[c] = Tail(up[c]) /\ DOMAIN up' = Terms /\ \A b \in Terms \ {c} : up'[b] = up[b]
    BY <1>1, <1>7 DEF Takes
  <2>3. \A i \in DOMAIN up'[c] : up'[c][i].type = "detach" => term[c] = "left"
    BY <1>5, <2>2 DEF Heard
  <2>1. ASSUME NEW b \in Terms
        PROVE  /\ up'[b] \in Seq(UpMessages)
               /\ \A i \in DOMAIN up'[b] : up'[b][i].type = "detach" => term'[b] = "left"
    <3>1. CASE b = c
      BY <1>5, <1>7, <2>2, <2>3, <3>1
    <3>2. CASE b # c
      BY <1>7, <2>2, <3>2 DEF Heard
    <3> QED
      BY <3>1, <3>2
  <2> QED
    BY <2>1, <2>2 DEF Heard
<1> QED
  BY <1>2, <1>3, <1>7

\* A terminal that has left stays away, and a shutdown is not taken back.
LEMMA ForGood ==
  ASSUME OneInv, [Next]_vars
  PROVE  /\ \A c \in Terms : term[c] = "left" => term'[c] = "left"
         /\ shutdown => shutdown'
<1> USE DEF ptyVars, readerVars, closeVars, attachVars, recordVars, handlerVars, termVars,
            TermUnchanged
<1>0. DOMAIN term = Terms
  BY DEF OneInv, Shapes
<1>1. CASE Produce \/ ChildExits \/ KillSession \/ Exit \/ Terminated \/ UNCHANGED vars
  BY <1>1 DEF Produce, ChildExits, KillSession, Exit, Terminated, vars
<1>2. CASE Reader
  BY <1>2 DEF Reader, Broadcast, SendOutput, SendFailed, ReadEnds
<1>3. CASE Waiter
  BY <1>3 DEF Waiter, ChildWaited, TellExit, CloseMark, CloseConns, CloseRest, Waits
<1>4. ASSUME NEW b \in Terms, Handler(b)
      PROVE  UNCHANGED <<term, shutdown>>
  <2>1. CASE Attach(b) \/ Refuse(b) \/ Replay(b) \/ TouchLoad(b) \/ TouchTruncate(b) \/ TouchWrite(b)
    BY <2>1 DEF Attach, Refuse, Replay, TouchLoad, TouchTruncate, TouchWrite, Handles
  <2>2. CASE ReceiveInput(b) \/ ReceiveDetach(b) \/ ReceiveFails(b)
    BY <2>2 DEF ReceiveInput, ReceiveDetach, ReceiveFails, Handles
  <2> QED
    BY <1>4, <2>1, <2>2 DEF Handler
<1>5. ASSUME NEW b \in Terms, Dial(b)
      PROVE  shutdown' = shutdown /\ \A c \in Terms : term[c] = "left" => term'[c] = "left"
  BY <1>0, <1>5 DEF Dial
<1>6. ASSUME NEW b \in Terms, Screen(b) \/ Keyboard(b)
      PROVE  shutdown' = shutdown /\ \A c \in Terms : term[c] = "left" => term'[c] = "left"
  <2>1. shutdown' = shutdown /\ (term' = term \/ term' = [term EXCEPT ![b] = "left"])
    BY <1>6 DEF Screen, Show, SeeEnd, Keyboard, StdinEnds, Vanish, Type, Leaves
  <2> QED
    BY <1>0, <2>1
<1> QED
  BY <1>1, <1>2, <1>3, <1>4, <1>5, <1>6 DEF Next

LEMMA HeardNext == OneInv /\ Heard /\ [Next]_vars => Heard'
<1> SUFFICES ASSUME OneInv, Heard, [Next]_vars
             PROVE  Heard'
  OBVIOUS
<1> USE DEF ptyVars, readerVars, closeVars, attachVars, recordVars, handlerVars, termVars,
            TermUnchanged
<1>0. DOMAIN term = Terms /\ DOMAIN up = Terms
  BY DEF OneInv, Shapes, Heard
<1>1. ASSUME DOMAIN up' = Terms, \A c \in Terms : up'[c] \in {up[c], <<>>}
      PROVE  Heard'
  <2>1. <<>> \in Seq(UpMessages) /\ DOMAIN <<>> = {}
    OBVIOUS
  <2> QED
    BY <1>1, <2>1, ForGood DEF Heard
<1>2. CASE Produce \/ ChildExits \/ KillSession \/ Exit \/ Terminated \/ UNCHANGED vars
  <2>1. up' \in {up, [c \in Terms |-> <<>>]}
    BY <1>2 DEF Produce, ChildExits, KillSession, Exit, Terminated, vars
  <2> QED
    BY <1>0, <1>1, <2>1
<1>3. CASE Reader \/ Waiter
  <2>1. up' = up
    BY <1>3 DEF Reader, Broadcast, SendOutput, SendFailed, ReadEnds,
                Waiter, ChildWaited, TellExit, CloseMark, CloseConns, CloseRest, Waits
  <2> QED
    BY <1>0, <1>1, <2>1
<1>4. ASSUME NEW c \in Terms, Handler(c)
      PROVE  Heard'
  <2>1. CASE Attach(c) \/ Refuse(c) \/ Replay(c) \/ TouchLoad(c) \/ TouchTruncate(c) \/ TouchWrite(c)
             \/ ReceiveDetach(c) \/ ReceiveFails(c)
    <3>1. up' \in {up, [up EXCEPT ![c] = <<>>]}
      BY <2>1 DEF Attach, Refuse, Replay, TouchLoad, TouchTruncate, TouchWrite, ReceiveFails,
                  ReceiveDetach
    <3> QED
      BY <1>0, <1>1, <3>1
  <2>2. CASE ReceiveInput(c)
    <3>1. Takes(c) /\ term' = term
      BY <2>2 DEF ReceiveInput, Handles
    <3> QED
      BY <3>1, HeardTaken DEF Takes
  <2> QED
    BY <1>4, <2>1, <2>2 DEF Handler
<1>5. ASSUME NEW c \in Terms, Dial(c) \/ Screen(c) \/ Vanish(c)
      PROVE  Heard'
  <2>1. up' = up
    BY <1>5 DEF Dial, Screen, Show, SeeEnd, Vanish
  <2> QED
    BY <1>0, <1>1, <2>1
<1>6. ASSUME NEW c \in Terms, StdinEnds(c)
      PROVE  Heard'
  <2>1. Leaves(c) /\ (up' = up \/ Says(c, "detach", <<>>))
    BY <1>6 DEF StdinEnds
  <2>2. <<>> \in Seq(Keys)
    OBVIOUS
  <2> QED
    BY <1>0, <1>1, <2>1, <2>2, HeardSays
<1>7. ASSUME NEW c \in Terms, NEW k \in Keys, Type(c, k)
      PROVE  Heard'
  <2>1. \/ up' = up
        \/ Says(c, "detach", <<>>) /\ Leaves(c)
        \/ \E d \in {<<k>>, <<"prefix", k>>} : Says(c, "input", d) /\ term' = term
    BY <1>7 DEF Type
  <2>2. <<>> \in Seq(Keys) /\ <<k>> \in Seq(Keys) /\ <<"prefix", k>> \in Seq(Keys)
    BY DEF Keys
  <2>3. ASSUME NEW d \in Seq(Keys), Says(c, "input", d), term' = term
        PROVE  Heard'
    BY <1>0, <2>3, HeardSays
  <2>4. CASE Says(c, "detach", <<>>) /\ Leaves(c)
    BY <1>0, <2>2, <2>4, HeardSays
  <2> QED
    BY <1>0, <1>1, <2>1, <2>2, <2>3, <2>4
<1> QED
  BY <1>2, <1>3, <1>4, <1>5, <1>6, <1>7 DEF Next, Keyboard

LEMMA AttendsNext == OneInv /\ Heard /\ Attends /\ [Next]_vars => Attends'
<1> SUFFICES ASSUME OneInv, Heard, Attends, [Next]_vars
             PROVE  Attends'
  OBVIOUS
<1> USE DEF OneInv, Shapes, SentTo, Admitted, Attends, ptyVars, readerVars,
            closeVars, attachVars, recordVars, handlerVars, termVars,
            TermUnchanged
<1>1. CASE Produce \/ ChildExits \/ KillSession
  BY <1>1 DEF Produce, ChildExits, KillSession
<1>2. CASE Exit \/ Terminated \/ UNCHANGED vars
  <2>1. CASE Exit
    BY <2>1 DEF Exit
  <2>2. CASE UNCHANGED vars
    BY <2>2 DEF vars
  <2> QED
    BY <1>2, <2>1, <2>2 DEF Terminated
<1>3. CASE Broadcast
  BY <1>3 DEF Broadcast
<1>4. CASE SendOutput
  <2>1. CASE Broken(reader.to)
    <3>1. reader.to \in Admitted /\ term[reader.to] # "idle"
      BY <1>4 DEF SendOutput, Outside
    <3>2. term[reader.to] = "left" \/ shutdown
      BY <2>1, <3>1 DEF Broken
    <3>3. reader' = [reader EXCEPT !.at = "failed"] /\ UNCHANGED <<term, shutdown>>
      BY <1>4, <2>1 DEF SendOutput
    <3>4. reader'.at = "failed" /\ reader'.to = reader.to
      BY <3>3
    <3> QED
      BY <1>4, <3>2, <3>3, <3>4 DEF SendOutput
  <2>2. CASE ~Broken(reader.to)
    BY <1>4, <2>2 DEF SendOutput, Idle
  <2> QED
    BY <2>1, <2>2
<1>5. CASE SendFailed
  BY <1>5 DEF SendFailed, Detach, Idle
<1>6. CASE ReadEnds
  BY <1>6 DEF ReadEnds, Idle
<1>7. CASE Waiter
  <2>1. CASE ChildWaited \/ TellExit
    BY <2>1 DEF ChildWaited, TellExit, Waits
  <2>2. CASE CloseMark
    BY <2>2 DEF CloseMark, Waits
  <2>3. CASE CloseConns
    BY <2>3 DEF CloseConns, Waits
  <2>4. CASE CloseRest
    BY <2>4 DEF CloseRest, Waits
  <2> QED
    BY <1>7, <2>1, <2>2, <2>3, <2>4 DEF Waiter
<1>8. ASSUME NEW c \in Terms, Handler(c)
      PROVE  Attends'
  <2> USE DEF Handles
  <2>1. CASE Attach(c)
    BY <2>1 DEF Attach
  <2>2. CASE Refuse(c)
    BY <2>2 DEF Refuse
  <2>3. CASE Replay(c)
    BY <2>3 DEF Replay
  <2>4. CASE TouchLoad(c)
    BY <2>4 DEF TouchLoad
  <2>5. CASE TouchTruncate(c) \/ TouchWrite(c)
    BY <2>5 DEF TouchTruncate, TouchWrite
  <2>6. CASE ReceiveInput(c)
    BY <2>6 DEF ReceiveInput
  <2>7. CASE ReceiveDetach(c)
    <3>1. term[c] = "left" \/ shutdown
      BY <2>7, HeardTaken DEF ReceiveDetach
    <3> QED
      BY <2>7, <3>1 DEF ReceiveDetach, Detach
  <2>8. CASE ReceiveFails(c)
    BY <2>8 DEF ReceiveFails, Detach
  <2> QED
    BY <1>8, <2>1, <2>2, <2>3, <2>4, <2>5, <2>6, <2>7, <2>8 DEF Handler
<1>9. ASSUME NEW c \in Terms, Dial(c)
      PROVE  Attends'
  BY <1>9 DEF Dial
<1>10. ASSUME NEW c \in Terms, Screen(c)
       PROVE  Attends'
  BY <1>10 DEF Screen, Show, SeeEnd, Leaves
<1>11. ASSUME NEW c \in Terms, Keyboard(c)
       PROVE  Attends'
  <2>1. CASE StdinEnds(c) \/ Vanish(c)
    BY <2>1 DEF StdinEnds, Vanish, Leaves
  <2>2. ASSUME NEW k \in Keys, Type(c, k)
        PROVE  Attends'
    <3>1. /\ UNCHANGED <<handler, conn, reader, waiter, ptyOpen, ended, shutdown>>
          /\ term' = term \/ term' = [term EXCEPT ![c] = "left"]
      BY <2>2 DEF Type, Leaves
    <3> QED
      BY <3>1
  <2> QED
    BY <1>11, <2>1, <2>2 DEF Keyboard
<1> QED
  BY <1>1, <1>2, <1>3, <1>4, <1>5, <1>6, <1>7, <1>8, <1>9, <1>10, <1>11 DEF Next, Reader


LEMMA StayingBefore == Whole /\ [Next]_vars /\ Staying' => Staying
<1> SUFFICES ASSUME Whole, [Next]_vars, Staying'
             PROVE  Staying
  OBVIOUS
<1>1. ~shutdown /\ \A c \in Terms : term[c] # "left" /\ term'[c] # "left"
  BY ForGood DEF Whole, Staying
<1>2. TailInv /\ TailInv' /\ got' <= MaxBuf
  BY TailNext DEF Whole, Staying
<1>3. got \in Nat /\ got' \in Nat /\ (got' = got \/ \E n \in 1..ReadMax : got' = got + n)
  <2>1. CASE Broadcast
    BY <1>2, <2>1 DEF Broadcast, TailInv
  <2>2. CASE ~Broadcast
    <3>1. got' = got
      BY <2>2, BufferNext
    <3> QED
      BY <1>2, <3>1 DEF TailInv
  <2> QED
    BY <2>1, <2>2
<1> QED
  BY <1>1, <1>2, <1>3, MuxSessionAssumption DEF Staying

\* While terminals stay, writes to those that were admitted do not fail.
LEMMA StayingSends ==
  ASSUME OneInv, Attends, Staying
  PROVE  /\ reader.at = "send" => reader.to \in Terms /\ ~Broken(reader.to)
         /\ \A c \in Terms : handler[c] = "replay" => ~Broken(c)
         /\ reader.at # "failed"
<1>1. ASSUME NEW c \in Terms, handler[c] \notin {"none", "refused", "hello"}
      PROVE  ~Broken(c)
  <2>1. term[c] = "open"
    BY <1>1 DEF OneInv, Shapes, Outside, Staying
  <2> QED
    BY <1>1, <2>1 DEF Attends, Staying, Broken
<1>2. reader.at \in {"send", "failed"} => reader.to \in Terms /\ handler[reader.to] \notin {"none", "refused", "hello"}
  BY DEF OneInv, SentTo, Admitted
<1>3. reader.at # "failed"
  BY <1>2 DEF Attends, Staying
<1> QED
  BY <1>1, <1>2, <1>3

\* Where the bytes are that were kept, after a step.
LEMMA OnStays ==
  ASSUME Whole, [Next]_vars, Staying', NEW c \in Terms, NEW x, On(c, x)
  PROVE  On(c, x)'
<1>1. OutTypes /\ ~Lost(c)
  BY DEF Whole, Lost, Staying
<1>2. CASE Quiet(c)
  <2>1. InStream(shown'[c], wire'[c], x)
    BY <1>1, <1>2, QuietStream DEF Quiet
  <2> QED
    BY <2>1 DEF On
<1>3. ASSUME NEW d \in Seq(Nat), SentData(c, d)
      PROVE  On(c, x)'
  <2>1. InStream(shown'[c], wire'[c], x)
    BY <1>1, <1>3, DataStream
  <2> QED
    BY <2>1 DEF On
<1>4. reader.data \in Seq(Nat) /\ replay[c] \in Seq(Nat)
  BY <1>1 DEF OutTypes
<1>5. CASE SendOutput
  <2>1. Unmoved(c) \/ SentData(c, reader.data)
    BY <1>5, ReaderStreams
  <2> QED
    BY <1>2, <1>3, <1>4, <2>1 DEF Quiet
<1>6. ASSUME NEW b \in Terms, Replay(b)
      PROVE  On(c, x)'
  <2>1. Unmoved(c) \/ SentData(c, replay[c])
    BY <1>6, ReplayStreams
  <2> QED
    BY <1>2, <1>3, <1>4, <2>1 DEF Quiet
<1> QED
  BY <1>2, <1>5, <1>6, QuietSteps

LEMMA ReplayStays ==
  ASSUME Whole, Attends, [Next]_vars, Staying, NEW c \in Terms, NEW x,
         handler[c] = "replay", InReplay(c, x)
  PROVE  On(c, x)' \/ (handler'[c] = "replay" /\ InReplay(c, x)')
<1>1. CASE Replay(c)
  <2>1. SentData(c, replay[c])
    <3>1. replay[c] # <<>>
      BY EmptyHas DEF InReplay
    <3>2. ~Broken(c)
      BY StayingSends DEF Whole
    <3> QED
      BY <1>1, <3>1, <3>2, ReplayStreams
  <2>2. InStream(shown'[c], wire'[c], x)
    BY <2>1, DataStream DEF Whole, OutTypes, InReplay
  <2> QED
    BY <2>2 DEF On
<1>2. CASE ~Replay(c)
  <2>1. handler'[c] = "replay"
    BY <1>2, HandlerNext
  <2>2. replay'[c] = replay[c]
    <3>1. ~Attach(c)
      BY DEF Attach, Handles
    <3>2. ASSUME NEW b \in Terms, Attach(b), replay' = [replay EXCEPT ![b] = buffer]
          PROVE  replay'[c] = replay[c]
      <4>1. b # c
        BY <3>1, <3>2
      <4> QED
        BY <3>2, <4>1
    <3> QED
      BY <3>2, BufferNext
  <2>3. InReplay(c, x)'
    BY <2>2 DEF InReplay
  <2> QED
    BY <2>1, <2>3
<1> QED
  BY <1>1, <1>2

LEMMA RoomForAll ==
  ASSUME TailInv, NEW n \in Nat, NEW d \in Seq(Nat), Len(d) = n, got + n <= MaxBuf
  PROVE  Buffered(buffer, d) = buffer \o d
<1>1. PICK k \in 0..got : Len(buffer) = k
  BY DEF TailInv
<1>2. got \in Nat /\ MaxBuf \in Nat
  BY MuxSessionAssumption DEF TailInv
<1>3. Len(buffer) + Len(d) <= MaxBuf
  BY <1>1, <1>2
<1> QED
  BY <1>3 DEF Buffered

LEMMA BufferStays ==
  ASSUME Whole, [Next]_vars, Staying', NEW x, Has(buffer, x)
  PROVE  Has(buffer', x) \/ \E c \in Terms : handler'[c] = "replay" /\ InReplay(c, x)'
<1>1. CASE buffer' = buffer
  BY <1>1
<1>2. CASE Broadcast
  <2>1. PICK n \in 1..ReadMax :
           /\ got' = got + n
           /\ Bytes(got + 1, got + n) \in Seq(Nat) /\ Len(Bytes(got + 1, got + n)) = n
           /\ buffer' = buffer \/ buffer' = Buffered(buffer, Bytes(got + 1, got + n))
    BY <1>2, ReadBytes
  <2>2. CASE buffer' = Buffered(buffer, Bytes(got + 1, got + n))
    <3>1. buffer' = buffer \o Bytes(got + 1, got + n)
      BY <2>1, <2>2, RoomForAll DEF Whole, Staying
    <3>2. buffer \in Seq(Nat)
      BY DEF Whole, OutTypes
    <3> QED
      BY <2>1, <3>1, <3>2, ConcatHas
  <2> QED
    BY <1>1, <2>1, <2>2
<1>3. ASSUME NEW b \in Terms, Attach(b), replay' = [replay EXCEPT ![b] = buffer]
      PROVE  handler'[b] = "replay" /\ InReplay(b, x)'
  <2>1. handler'[b] = "replay" /\ replay'[b] = buffer
    BY <1>3 DEF Attach, Handles, Whole, OneInv, Shapes, OutTypes
  <2> QED
    BY <2>1 DEF InReplay
<1> QED
  BY <1>1, <1>2, <1>3, BufferNext

LEMMA ReaderStays ==
  ASSUME Whole, Attends, [Next]_vars, Staying, NEW x, InHands(x)
  PROVE  InHands(x)' \/ \E c \in Terms : On(c, x)'
<1>1. reader.at \notin {"read", "done", "failed"}
  BY EmptyHas, StayingSends DEF Whole, Attends, InHands
<1>2. CASE SendOutput
  <2>1. PICK c \in Terms : c = reader.to /\ ~Broken(c)
    BY <1>2, StayingSends DEF SendOutput, Whole
  <2>2. SentData(c, reader.data)
    BY <1>2, <2>1, ReaderStreams
  <2>3. InStream(shown'[c], wire'[c], x)
    BY <2>2, DataStream DEF Whole, OutTypes, InHands
  <2>4. On(c, x)'
    BY <2>3 DEF On
  <2> QED
    BY <2>4
<1>3. CASE UNCHANGED reader
  BY <1>3 DEF InHands
<1>4. ~Broadcast /\ ~SendFailed /\ ~ReadEnds
  BY <1>1 DEF Broadcast, SendFailed, ReadEnds
<1> QED
  BY <1>2, <1>3, <1>4, ReaderNext

\* A byte that is kept stays kept, and one that is read is kept.
LEMMA AllKeptNext == Whole /\ Attends /\ AllKept /\ [Next]_vars => AllKept'
<1> SUFFICES ASSUME Whole, Attends, AllKept, [Next]_vars, Staying', NEW x \in 1..got'
             PROVE  Kept(x)'
  BY DEF AllKept
<1>1. Staying
  BY StayingBefore
<1>2. CASE x \in 1..got
  <2>1. Kept(x)
    BY <1>1, <1>2 DEF AllKept
  <2>2. ASSUME NEW c \in Terms, On(c, x)
        PROVE  Kept(x)'
    <3>1. On(c, x)'
      BY <2>2, OnStays
    <3> QED
      BY <3>1 DEF Kept
  <2>3. ASSUME NEW c \in Terms, handler[c] = "replay", InReplay(c, x)
        PROVE  Kept(x)'
    <3>1. On(c, x)' \/ (handler'[c] = "replay" /\ InReplay(c, x)')
      BY <1>1, <2>3, ReplayStays
    <3> QED
      BY <3>1 DEF Kept
  <2>4. CASE Has(buffer, x)
    <3>1. Has(buffer', x) \/ \E c \in Terms : handler'[c] = "replay" /\ InReplay(c, x)'
      BY <2>4, BufferStays
    <3> QED
      BY <3>1 DEF Kept
  <2>5. CASE InHands(x)
    <3>1. InHands(x)' \/ \E c \in Terms : On(c, x)'
      BY <1>1, <2>5, ReaderStays
    <3> QED
      BY <3>1 DEF Kept
  <2> QED
    BY <2>1, <2>2, <2>3, <2>4, <2>5 DEF Kept
<1>3. CASE x \notin 1..got
  <2>1. Broadcast
    BY <1>3, BufferNext
  <2>2. PICK n \in 1..ReadMax :
           /\ got' = got + n
           /\ Bytes(got + 1, got + n) \in Seq(Nat) /\ Len(Bytes(got + 1, got + n)) = n
           /\ \A y : Has(Bytes(got + 1, got + n), y) <=> y \in (got + 1)..(got + n)
           /\ \/ reader'.data = Bytes(got + 1, got + n)
              \/ buffer' = Buffered(buffer, Bytes(got + 1, got + n))
    BY <2>1, ReadBytes
  <2>3. got \in Nat /\ n \in Nat /\ buffer \in Seq(Nat) /\ got + n <= MaxBuf
    BY <2>2, MuxSessionAssumption DEF Whole, TailInv, OutTypes, Staying
  <2>4. Has(Bytes(got + 1, got + n), x)
    <3>1. x \in (got + 1)..(got + n)
      BY <1>3, <2>2, <2>3
    <3> QED
      BY <2>2, <3>1
  <2>5. CASE reader'.data = Bytes(got + 1, got + n)
    <3>1. InHands(x)'
      BY <2>4, <2>5 DEF InHands
    <3> QED
      BY <3>1 DEF Kept
  <2>6. CASE buffer' = Buffered(buffer, Bytes(got + 1, got + n))
    <3>1. buffer' = buffer \o Bytes(got + 1, got + n)
      BY <2>2, <2>3, <2>6, RoomForAll DEF Whole
    <3>2. Has(buffer', x)
      BY <2>2, <2>3, <2>4, <3>1, ConcatHas
    <3> QED
      BY <3>2 DEF Kept
  <2> QED
    BY <2>2, <2>5, <2>6
<1> QED
  BY <1>2, <1>3

\* While every terminal that attached is still there, and the buffer has room,
\* every byte of the child is on a screen, on its way to one, or in the hands
\* of a goroutine that will send it: for any number of terminals.
THEOREM NoByteLost == Spec => []NothingLost
<1> DEFINE Inv == Whole /\ Heard /\ Attends /\ AllKept
<1>1. Init => Inv
  <2> SUFFICES ASSUME Init
               PROVE  Inv
    OBVIOUS
  <2>1. \A c \in Terms : up[c] = <<>>
    BY DEF Init
  <2>2. Heard
    BY <2>1 DEF Init, Heard
  <2>3. Attends
    BY DEF Init, Attends, Idle
  <2>4. AllKept
    BY DEF Init, AllKept
  <2> QED
    BY <2>2, <2>3, <2>4, StartsWhole
<1>2. Inv /\ [Next]_vars => Inv'
  BY WholeNext, HeardNext, AttendsNext, AllKeptNext DEF Whole
<1>3. Inv => NothingLost
  <2> SUFFICES ASSUME Inv, got <= MaxBuf, ~shutdown, \A c \in Terms : term[c] # "left", NEW x \in 1..got
               PROVE  x \in Held
    BY DEF NothingLost
  <2>1. Kept(x)
    BY DEF AllKept, Staying
  <2>2. /\ \A c \in Terms : \A p \in Pieces(c) : ToSet(Piece(c, p)) \subseteq Held
        /\ \A c \in Terms : ToSet(InHand(c)) \subseteq Held
        /\ ToSet(buffer) \subseteq Held /\ ToSet(reader.data) \subseteq Held
    <3>1. ToSet(buffer) \subseteq Held /\ ToSet(reader.data) \subseteq Held
      BY DEF Held
    <3>2. ASSUME NEW c \in Terms, NEW v \in Streamed(c) \cup ToSet(InHand(c))
          PROVE  v \in Held
      BY DEF Held
    <3>3. ASSUME NEW c \in Terms, NEW p \in Pieces(c)
          PROVE  ToSet(Piece(c, p)) \subseteq Streamed(c)
      BY DEF Streamed
    <3> QED
      BY <3>1, <3>2, <3>3
  <2>3. ASSUME NEW c \in Terms, On(c, x)
        PROVE  x \in Held
    <3>1. PICK p \in Pieces(c) : Has(Piece(c, p), x)
      BY <2>3, PiecesAreStream DEF Whole
    <3>2. x \in ToSet(Piece(c, p))
      BY <3>1 DEF Has, ToSet
    <3> QED
      BY <2>2, <3>2
  <2>4. ASSUME NEW c \in Terms, handler[c] = "replay", InReplay(c, x)
        PROVE  x \in Held
    <3>1. x \in ToSet(InHand(c))
      BY <2>4 DEF InReplay, Has, ToSet, InHand
    <3> QED
      BY <2>2, <3>1
  <2>5. CASE Has(buffer, x) \/ InHands(x)
    <3>1. x \in ToSet(buffer) \/ x \in ToSet(reader.data)
      BY <2>5 DEF Has, InHands, ToSet
    <3> QED
      BY <2>2, <3>1
  <2> QED
    BY <2>1, <2>3, <2>4, <2>5 DEF Kept
<1> QED
  BY <1>1, <1>2, <1>3, PTL DEF Spec

(***************************************************************************)
(* The user interface.  Every step is reduced to one of four kinds (Step): *)
(* it only looks elsewhere, opens a selector, closes one, or removes a     *)
(* pane.  The inductive invariant is SafeInv, which rests on Base.         *)
(***************************************************************************)
\* The types of manager.go's Manager and its pages, and of a selector's closures.
Page == [panes : Seq(PaneIds), leaves : SUBSET (PaneIds \cup {Nil}), focus : PaneIds \cup {Nil}]
UI == [pages : Seq(PageIds), page : [PageIds -> Page], current : PageIds \cup {Nil},
       nextPage : 1..(MaxPages + 1), nextPane : 1..(MaxPanes + 1),
       appFocus : Focusable, selFocus : PaneIds \cup {Nil, Initial},
       shown : SUBSET (PaneIds \cup {Nil}), listed : Seq(PageIds), running : BOOLEAN]

Statuses == {"new", "connecting", "failed", "live", "closing", "done", "selector", "gone"}
Captured == [mode : {"none", "initial"}] \cup [mode : {"page"}, page : PageIds, prev : PageIds]
              \cup [mode : {"pane"}, prev : PaneIds]
Flags == {locked, hold, broadcast, prefixActive, overlapped, orphaned} \subseteq BOOLEAN
Types ==
  /\ Flags
  /\ ui \in UI /\ pane \in [PaneIds -> Statuses] /\ home \in [PaneIds -> PageIds \cup {Nil}]
  /\ selector \in [PaneIds \cup {Initial} -> Captured]

\* Shorter names for what the model spells out.
Mode(s) == selector[s].mode
Open(s, m) == pane[s] = "selector" /\ Mode(s) = m
Connecting(p) == p \in PaneIds /\ pane[p] = "connecting"
Made == 1..(ui.nextPage - 1)
Panes(g) == ToSet(ui.page[g].panes)
LeavesOf(g) == ui.page[g].leaves
Listed(g) == g \in ToSet(ui.pages)

Distinct(s) == \A i, j \in DOMAIN s : s[i] = s[j] => i = j

(***************************************************************************)
(* Sequences as sets.                                                      *)
(***************************************************************************)
LEMMA RemoveAtDoes ==
  ASSUME NEW S, NEW s \in Seq(S), NEW i \in DOMAIN s
  PROVE  /\ RemoveAt(s, i) \in Seq(S) /\ Len(RemoveAt(s, i)) = Len(s) - 1
         /\ \A j \in 1..(Len(s) - 1) : RemoveAt(s, i)[j] = IF j < i THEN s[j] ELSE s[j + 1]
<1> DEFINE a == SubSeq(s, 1, i - 1)
           b == SubSeq(s, i + 1, Len(s))
<1>1. i \in 1..Len(s) /\ Len(s) \in Nat /\ \A j \in 1..Len(s) : s[j] \in S
  OBVIOUS
<1>2. a \in Seq(S) /\ Len(a) = i - 1 /\ \A j \in 1..(i - 1) : a[j] = s[j]
  BY <1>1, SubSeqProperties
<1>3. b \in Seq(S) /\ Len(b) = Len(s) - i /\ \A j \in 1..(Len(s) - i) : b[j] = s[i + j]
  BY <1>1, SubSeqProperties
<1> HIDE DEF a, b
<1>4. /\ a \o b \in Seq(S) /\ Len(a \o b) = Len(a) + Len(b)
      /\ \A j \in 1..(Len(a) + Len(b)) : (a \o b)[j] = IF j <= Len(a) THEN a[j] ELSE b[j - Len(a)]
  BY <1>2, <1>3, ConcatProperties
<1>5. RemoveAt(s, i) = a \o b
  BY DEF RemoveAt, a, b
<1>6. ASSUME NEW j \in 1..(Len(s) - 1)
      PROVE  (a \o b)[j] = IF j < i THEN s[j] ELSE s[j + 1]
  <2>1. CASE j < i
    BY <1>1, <1>2, <1>3, <1>4, <2>1
  <2>2. CASE ~(j < i)
    <3>1. j - (i - 1) \in 1..(Len(s) - i) /\ i + (j - (i - 1)) = j + 1
      BY <1>1, <2>2
    <3>2. b[j - (i - 1)] = s[j + 1]
      BY <1>3, <3>1
    <3>3. j \in 1..(Len(a) + Len(b)) /\ ~(j <= Len(a)) /\ j - Len(a) = j - (i - 1)
      BY <1>1, <1>2, <1>3, <2>2
    <3>4. (a \o b)[j] = b[j - Len(a)]
      BY <1>4, <3>3
    <3> QED
      BY <2>2, <3>2, <3>3, <3>4
  <2> QED
    BY <2>1, <2>2
<1>7. Len(a) + Len(b) = Len(s) - 1
  BY <1>1, <1>2, <1>3
<1> QED
  BY <1>4, <1>5, <1>6, <1>7

LEMMA WithoutDoes ==
  ASSUME NEW S, NEW s \in Seq(S), NEW x
  PROVE  /\ Without(s, x) \in Seq(S)
         /\ ToSet(s) \ {x} \subseteq ToSet(Without(s, x)) /\ ToSet(Without(s, x)) \subseteq ToSet(s)
         /\ Distinct(s) => Distinct(Without(s, x)) /\ x \notin ToSet(Without(s, x))
<1>1. CASE x \notin ToSet(s)
  BY <1>1 DEF Without
<1>2. CASE x \in ToSet(s)
  <2> DEFINE i == CHOOSE i \in DOMAIN s : s[i] = x
             t == RemoveAt(s, i)
  <2>1. i \in DOMAIN s /\ s[i] = x
    BY <1>2 DEF ToSet
  <2>2. Without(s, x) = t
    BY <1>2 DEF Without
  <2> HIDE DEF i
  <2>3. /\ t \in Seq(S) /\ Len(t) = Len(s) - 1 /\ i \in 1..Len(s) /\ Len(s) \in Nat
        /\ \A j \in 1..(Len(s) - 1) : t[j] = IF j < i THEN s[j] ELSE s[j + 1]
    BY <2>1, RemoveAtDoes
  <2> HIDE DEF t
  <2>4. DOMAIN t = 1..(Len(s) - 1) /\ DOMAIN s = 1..Len(s)
    BY <2>3
  <2>5. ToSet(t) \subseteq ToSet(s)
    BY <2>3, <2>4 DEF ToSet
  <2>6. ASSUME NEW y \in ToSet(s), y # x
        PROVE  y \in ToSet(t)
    <3>1. PICK k \in 1..Len(s) : s[k] = y
      BY <2>4 DEF ToSet
    <3>2. k # i
      BY <2>1, <2>6, <3>1
    <3>3. CASE k < i
      BY <2>3, <2>4, <3>1, <3>3 DEF ToSet
    <3>4. CASE k > i
      <4>1. k - 1 \in 1..(Len(s) - 1) /\ t[k - 1] = s[k]
        BY <2>3, <3>4
      <4> QED
        BY <2>4, <3>1, <4>1 DEF ToSet
    <3> QED
      BY <2>3, <3>2, <3>3, <3>4
  <2>7. ASSUME Distinct(s)
        PROVE  Distinct(t) /\ x \notin ToSet(t)
    <3>1. \A j, k \in 1..Len(s) : s[j] = s[k] => j = k
      BY <2>4, <2>7 DEF Distinct
    <3>2. \A j \in 1..(Len(s) - 1) : \E k \in 1..Len(s) : t[j] = s[k] /\ k # i /\ k = IF j < i THEN j ELSE j + 1
      BY <2>3
    <3>3. Distinct(t)
      BY <2>3, <2>4, <3>1, <3>2 DEF Distinct
    <3>4. x \notin ToSet(t)
      BY <2>1, <2>3, <2>4, <3>1, <3>2 DEF ToSet
    <3> QED
      BY <3>3, <3>4
  <2> QED
    BY <2>2, <2>3, <2>5, <2>6, <2>7
<1> QED
  BY <1>1, <1>2

LEMMA ConcatDoes ==
  ASSUME NEW S, NEW s \in Seq(S), NEW t \in Seq(S)
  PROVE  /\ s \o t \in Seq(S) /\ ToSet(s \o t) = ToSet(s) \cup ToSet(t)
         /\ Distinct(s) /\ Distinct(t) /\ ToSet(s) \cap ToSet(t) = {} => Distinct(s \o t)
<1> DEFINE u == s \o t
<1>1. /\ u \in Seq(S) /\ Len(u) = Len(s) + Len(t) /\ Len(s) \in Nat /\ Len(t) \in Nat
      /\ \A i \in 1..(Len(s) + Len(t)) : u[i] = IF i <= Len(s) THEN s[i] ELSE t[i - Len(s)]
  BY ConcatProperties
<1> HIDE DEF u
<1>2. DOMAIN u = 1..(Len(s) + Len(t)) /\ DOMAIN s = 1..Len(s) /\ DOMAIN t = 1..Len(t)
  BY <1>1
<1>3. ToSet(u) \subseteq ToSet(s) \cup ToSet(t)
  <2> SUFFICES ASSUME NEW i \in 1..(Len(s) + Len(t))
               PROVE  u[i] \in ToSet(s) \cup ToSet(t)
    BY <1>2 DEF ToSet
  <2>1. CASE i <= Len(s)
    <3>1. i \in 1..Len(s) /\ u[i] = s[i]
      BY <1>1, <2>1
    <3> QED
      BY <1>2, <3>1 DEF ToSet
  <2>2. CASE i > Len(s)
    <3>1. i - Len(s) \in 1..Len(t) /\ u[i] = t[i - Len(s)]
      BY <1>1, <2>2
    <3> QED
      BY <1>2, <3>1 DEF ToSet
  <2> QED
    BY <1>1, <2>1, <2>2
<1>4. ToSet(s) \subseteq ToSet(u)
  <2> SUFFICES ASSUME NEW i \in 1..Len(s)
               PROVE  s[i] \in ToSet(u)
    BY <1>2 DEF ToSet
  <2>1. i \in 1..(Len(s) + Len(t)) /\ u[i] = s[i]
    BY <1>1
  <2> QED
    BY <1>2, <2>1 DEF ToSet
<1>5. ToSet(t) \subseteq ToSet(u)
  <2> SUFFICES ASSUME NEW i \in 1..Len(t)
               PROVE  t[i] \in ToSet(u)
    BY <1>2 DEF ToSet
  <2> DEFINE k == Len(s) + i
  <2>1. k \in 1..(Len(s) + Len(t)) /\ ~(k <= Len(s)) /\ k - Len(s) = i
    BY <1>1
  <2>2. u[k] = t[k - Len(s)]
    BY <1>1, <2>1
  <2> QED
    BY <1>2, <2>1, <2>2 DEF ToSet
<1>6. ASSUME Distinct(s), Distinct(t), ToSet(s) \cap ToSet(t) = {},
             NEW i \in 1..(Len(s) + Len(t)), NEW j \in 1..(Len(s) + Len(t)), u[i] = u[j]
      PROVE  i = j
  <2>1. \A k \in 1..Len(s), l \in 1..Len(t) : s[k] # t[l]
    BY <1>2, <1>6 DEF ToSet
  <2>2. /\ \A k, l \in 1..Len(s) : s[k] = s[l] => k = l
        /\ \A k, l \in 1..Len(t) : t[k] = t[l] => k = l
    BY <1>2, <1>6 DEF Distinct
  <2>3. CASE i <= Len(s)
    <3>1. i \in 1..Len(s) /\ u[i] = s[i]
      BY <1>1, <2>3
    <3>2. CASE j <= Len(s)
      <4>1. j \in 1..Len(s) /\ u[j] = s[j]
        BY <1>1, <3>2
      <4> QED
        BY <1>6, <2>2, <3>1, <4>1
    <3>3. CASE j > Len(s)
      <4>1. j - Len(s) \in 1..Len(t) /\ u[j] = t[j - Len(s)]
        BY <1>1, <3>3
      <4> QED
        BY <1>6, <2>1, <3>1, <4>1
    <3> QED
      BY <1>1, <3>2, <3>3
  <2>4. CASE i > Len(s)
    <3>1. i - Len(s) \in 1..Len(t) /\ u[i] = t[i - Len(s)]
      BY <1>1, <2>4
    <3>2. CASE j <= Len(s)
      <4>1. j \in 1..Len(s) /\ u[j] = s[j]
        BY <1>1, <3>2
      <4> QED
        BY <1>6, <2>1, <3>1, <4>1
    <3>3. CASE j > Len(s)
      <4>1. j - Len(s) \in 1..Len(t) /\ u[j] = t[j - Len(s)]
        BY <1>1, <3>3
      <4>2. i - Len(s) = j - Len(s)
        BY <1>6, <2>2, <3>1, <4>1
      <4> QED
        BY <1>1, <4>2
    <3> QED
      BY <1>1, <3>2, <3>3
  <2> QED
    BY <1>1, <2>3, <2>4
<1> QED
  BY <1>1, <1>2, <1>3, <1>4, <1>5, <1>6 DEF Distinct, u

LEMMA AppendDoes ==
  ASSUME NEW S, NEW s \in Seq(S), NEW x \in S
  PROVE  /\ Append(s, x) \in Seq(S) /\ ToSet(Append(s, x)) = ToSet(s) \cup {x}
         /\ Distinct(s) /\ x \notin ToSet(s) => Distinct(Append(s, x))
<1>1. <<x>> \in Seq(S) /\ DOMAIN <<x>> = {1} /\ <<x>>[1] = x
  OBVIOUS
<1>3. ToSet(<<x>>) = {x} /\ Distinct(<<x>>)
  BY <1>1 DEF ToSet, Distinct
<1>2. Append(s, x) = s \o <<x>>
  OBVIOUS
<1> DEFINE t == <<x>>
<1>4. ToSet(s) \cap ToSet(t) = {} <=> x \notin ToSet(s)
  BY <1>3
<1> HIDE DEF t
<1>5. /\ s \o t \in Seq(S) /\ ToSet(s \o t) = ToSet(s) \cup ToSet(t)
      /\ Distinct(s) /\ Distinct(t) /\ ToSet(s) \cap ToSet(t) = {} => Distinct(s \o t)
  <2>1. t \in Seq(S)
    BY <1>1 DEF t
  <2> QED
    BY <2>1, ConcatDoes
<1>6. Append(s, x) = s \o t /\ ToSet(t) = {x} /\ Distinct(t)
  BY <1>2, <1>3 DEF t
<1> QED
  BY <1>4, <1>5, <1>6

LEMMA EmptyToSet ==
  ASSUME NEW S, NEW s \in Seq(S)
  PROVE  s = <<>> <=> ToSet(s) = {}
<1>1. CASE s = <<>>
  BY <1>1 DEF ToSet
<1>2. CASE s # <<>>
  <2>1. 1 \in DOMAIN s
    BY <1>2
  <2> QED
    BY <1>2, <2>1 DEF ToSet
<1> QED
  BY <1>1, <1>2

LEMMA ToSetOf ==
  ASSUME NEW S, NEW s \in Seq(S)
  PROVE  ToSet(s) \subseteq S
  BY DEF ToSet

(***************************************************************************)
(* The manager's methods.                                                  *)
(***************************************************************************)
\* The screen shows the current page, whose focus has the keys.
Refreshed(u) ==
  /\ u.listed = <<>>
  /\ u.shown = IF u.current = Nil THEN {} ELSE Here(u).leaves
  /\ u.current # Nil /\ Here(u).focus # Nil => u.appFocus = Here(u).focus
\* What the methods leave alone.
SameIds(v, u) == v.nextPage = u.nextPage /\ v.nextPane = u.nextPane
SameView(v, u) == v.appFocus = u.appFocus /\ v.shown = u.shown /\ v.listed = u.listed

LEMMA RefreshDoes ==
  ASSUME NEW u \in UI
  PROVE  LET v == Refresh(u) IN
         /\ v \in UI /\ Refreshed(v) /\ SameIds(v, u)
         /\ v.pages = u.pages /\ v.page = u.page /\ v.current = u.current
         /\ v.selFocus = u.selFocus /\ v.running = u.running
<1>1. u.current # Nil => Here(u) \in Page
  BY DEF Here, UI
<1>2. <<>> \in Seq(PageIds)
  OBVIOUS
<1> QED
  BY <1>1, <1>2 DEF Refresh, Refreshed, SameIds, Here, UI, Page, Focusable

LEMMA CreatePageDoes ==
  ASSUME NEW u \in UI, NEW new \in Seq(PaneIds), new # <<>>, u.nextPage \in PageIds,
         u.nextPane + Len(new) <= MaxPanes + 1
  PROVE  LET v == CreatePage(u, new) IN
         /\ v \in UI
         /\ v.pages = Append(u.pages, u.nextPage) /\ v.current = u.nextPage
         /\ v.nextPage = u.nextPage + 1 /\ v.nextPane = u.nextPane + Len(new)
         /\ v.page = [u.page EXCEPT ![u.nextPage] = [panes |-> new, leaves |-> ToSet(new), focus |-> new[1]]]
         /\ SameView(v, u) /\ v.selFocus = u.selFocus /\ v.running = u.running
<1> DEFINE pg == [panes |-> new, leaves |-> ToSet(new), focus |-> new[1]]
           v == CreatePage(u, new)
<1>1. pg \in Page
  BY ToSetOf DEF Page
<1>2. Append(u.pages, u.nextPage) \in Seq(PageIds)
  BY DEF UI
<1>3. u.nextPage + 1 \in 1..(MaxPages + 1) /\ u.nextPane + Len(new) \in 1..(MaxPanes + 1)
  BY MuxManagerAssumption DEF UI, PageIds
<1> HIDE DEF pg
<1>4. [u.page EXCEPT ![u.nextPage] = pg] \in [PageIds -> Page]
  BY <1>1 DEF UI
<1>5. v = [u EXCEPT !.page = [u.page EXCEPT ![u.nextPage] = pg], !.pages = Append(u.pages, u.nextPage), !.current = u.nextPage,
              !.nextPage = u.nextPage + 1, !.nextPane = u.nextPane + Len(new)]
  BY DEF CreatePage, pg, UI
<1> HIDE DEF v
<1>6. /\ v \in UI
      /\ v.pages = Append(u.pages, u.nextPage) /\ v.current = u.nextPage
      /\ v.nextPage = u.nextPage + 1 /\ v.nextPane = u.nextPane + Len(new)
      /\ v.page = [u.page EXCEPT ![u.nextPage] = pg]
      /\ v.appFocus = u.appFocus /\ v.selFocus = u.selFocus /\ v.shown = u.shown
      /\ v.listed = u.listed /\ v.running = u.running
  BY <1>2, <1>3, <1>4, <1>5 DEF UI
<1> QED
  BY <1>6 DEF v, pg, SameView

LEMMA AddPanesDoes ==
  ASSUME NEW u \in UI, NEW new \in Seq(PaneIds), new # <<>>, u.current \in PageIds,
         u.nextPane + Len(new) <= MaxPanes + 1
  PROVE  LET v == AddPanes(u, new) IN
         /\ v \in UI /\ v.nextPage = u.nextPage /\ v.nextPane = u.nextPane + Len(new)
         /\ v.pages = u.pages /\ v.current = u.current
         /\ v.page = [u.page EXCEPT ![u.current] = [panes |-> Here(u).panes \o new,
                                  leaves |-> Here(u).leaves \cup ToSet(new), focus |-> Last(new)]]
         /\ SameView(v, u) /\ v.selFocus = u.selFocus /\ v.running = u.running
<1> DEFINE pg == [panes |-> Here(u).panes \o new, leaves |-> Here(u).leaves \cup ToSet(new), focus |-> Last(new)]
           v == AddPanes(u, new)
<1>1. Here(u) \in Page
  BY DEF Here, UI
<1>2. pg \in Page
  <2>1. Here(u).panes \o new \in Seq(PaneIds)
    BY <1>1, ConcatDoes DEF Page
  <2>2. Last(new) \in PaneIds
    BY DEF Last
  <2> QED
    BY <1>1, <2>1, <2>2, ToSetOf DEF Page
<1>3. u.nextPane + Len(new) \in 1..(MaxPanes + 1)
  BY MuxManagerAssumption DEF UI
<1>4. v = [u EXCEPT !.page = [u.page EXCEPT ![u.current] = pg], !.nextPane = u.nextPane + Len(new)]
  BY DEF AddPanes, pg, UI, Here
<1> HIDE DEF pg, v
<1>5. [u.page EXCEPT ![u.current] = pg] \in [PageIds -> Page]
  BY <1>2 DEF UI
<1>6. /\ v \in UI /\ v.nextPage = u.nextPage /\ v.nextPane = u.nextPane + Len(new)
      /\ v.pages = u.pages /\ v.current = u.current
      /\ v.page = [u.page EXCEPT ![u.current] = pg]
      /\ SameView(v, u) /\ v.selFocus = u.selFocus /\ v.running = u.running
  BY <1>3, <1>4, <1>5 DEF UI, SameView
<1> QED
  BY <1>6 DEF v, pg

LEMMA RemovePageDoes ==
  ASSUME NEW u \in UI, NEW target \in PageIds, NEW fallback \in PageIds
  PROVE  LET v == RemovePage(u, target, fallback) IN
         /\ v \in UI /\ v.pages = Without(u.pages, target) /\ v.current = fallback
         /\ SameIds(v, u) /\ SameView(v, u) /\ v.page = u.page
         /\ v.selFocus = u.selFocus /\ v.running = u.running
<1>1. Without(u.pages, target) \in Seq(PageIds)
  BY WithoutDoes DEF UI
<1>2. fallback # Nil
  BY MuxManagerAssumption DEF PageIds, Nil
<1> QED
  BY <1>1, <1>2 DEF RemovePage, UI, SameIds, SameView

LEMMA RemoveLeafDoes ==
  ASSUME NEW leaves, NEW p, NEW q, q # Nil
  PROVE  q \in RemoveLeaf(leaves, p) <=> q \in leaves /\ q # p
  BY DEF RemoveLeaf

LEMMA RemoveTransientDoes ==
  ASSUME NEW u \in UI, u.current \in PageIds, NEW target \in PaneIds, NEW fallback \in PaneIds
  PROVE  LET v == RemoveTransient(u, target, fallback) IN
         /\ v \in UI /\ v.pages = u.pages /\ v.current = u.current
         /\ v.page = [u.page EXCEPT ![u.current] =
              [panes |-> Without(Here(u).panes, target), leaves |-> RemoveLeaf(Here(u).leaves, target),
               focus |-> fallback]]
         /\ SameIds(v, u) /\ SameView(v, u) /\ v.selFocus = u.selFocus /\ v.running = u.running
<1> DEFINE pg == [panes |-> Without(Here(u).panes, target), leaves |-> RemoveLeaf(Here(u).leaves, target),
                  focus |-> fallback]
           v == RemoveTransient(u, target, fallback)
<1>1. Here(u) \in Page
  BY DEF Here, UI
<1>2. Without(Here(u).panes, target) \in Seq(PaneIds)
  BY <1>1, WithoutDoes DEF Page
<1>3. pg \in Page
  BY <1>1, <1>2 DEF Page, RemoveLeaf
<1>4. v = [u EXCEPT !.page = [u.page EXCEPT ![u.current] = pg]]
  BY DEF RemoveTransient, UI, Here
<1> HIDE DEF pg, v
<1>5. [u.page EXCEPT ![u.current] = pg] \in [PageIds -> Page]
  BY <1>3 DEF UI
<1>6. /\ v \in UI /\ v.pages = u.pages /\ v.current = u.current
      /\ v.page = [u.page EXCEPT ![u.current] = pg]
      /\ SameIds(v, u) /\ SameView(v, u) /\ v.selFocus = u.selFocus /\ v.running = u.running
  BY <1>4, <1>5 DEF UI, SameIds, SameView
<1> QED
  BY <1>6 DEF v, pg

LEMMA NewPanesDoes ==
  ASSUME NEW u \in UI, NEW n \in 1..2, u.nextPane + n <= MaxPanes + 1
  PROVE  LET new == NewPanes(u, n) IN
         /\ new \in Seq(PaneIds) /\ new # <<>> /\ Len(new) = n /\ Distinct(new)
         /\ ToSet(new) = u.nextPane..(u.nextPane + n - 1)
         /\ new[1] \in ToSet(new) /\ Last(new) \in ToSet(new)
<1> DEFINE new == NewPanes(u, n)
<1>1. u.nextPane \in 1..(MaxPanes + 1) /\ MaxPanes \in Nat /\ n \in Nat
  BY MuxManagerAssumption DEF UI
<1>2. new = [i \in 1..n |-> u.nextPane + i - 1]
  BY DEF NewPanes
<1> HIDE DEF new
<1>3. \A i \in 1..n : u.nextPane + i - 1 \in PaneIds
  BY <1>1 DEF PaneIds
<1>4. new \in Seq(PaneIds) /\ Len(new) = n /\ DOMAIN new = 1..n /\ new # <<>>
  BY <1>1, <1>2, <1>3
<1>5. Distinct(new)
  BY <1>1, <1>2 DEF Distinct
<1>6. ToSet(new) = u.nextPane..(u.nextPane + n - 1)
  <2>1. \A i \in 1..n : new[i] \in u.nextPane..(u.nextPane + n - 1)
    BY <1>1, <1>2
  <2>2. \A p \in u.nextPane..(u.nextPane + n - 1) : p - u.nextPane + 1 \in 1..n /\ new[p - u.nextPane + 1] = p
    BY <1>1, <1>2
  <2> QED
    BY <1>4, <2>1, <2>2 DEF ToSet
<1>7. new[1] \in ToSet(new) /\ Last(new) \in ToSet(new)
  BY <1>1, <1>4 DEF ToSet, Last
<1> QED
  BY <1>4, <1>5, <1>6, <1>7 DEF new

LEMMA RemovePaneDoes ==
  ASSUME NEW u \in UI, NEW g \in PageIds, NEW p \in ToSet(u.page[g].panes)
  PROVE  LET v == RemovePane(u, g, p)
             panes == Without(u.page[g].panes, p) IN
         /\ v \in UI /\ SameIds(v, u) /\ v.selFocus = u.selFocus
         /\ \A h \in PageIds \ {g} : v.page[h] = u.page[h]
         /\ v.page[g].panes = panes /\ v.page[g].leaves = RemoveLeaf(u.page[g].leaves, p)
         /\ v.page[g].focus = u.page[g].focus \/ v.page[g].focus \in ToSet(panes)
         /\ panes # <<>> => /\ v.pages = u.pages /\ v.current = u.current /\ v.running = u.running
                            /\ IF u.current = g THEN Refreshed(v) ELSE SameView(v, u)
         /\ panes = <<>> => /\ v.pages = Without(u.pages, g)
                            /\ v.pages = <<>> => ~v.running /\ v.current = Nil
                            /\ v.pages # <<>> => v.current = v.pages[1] /\ Refreshed(v) /\ v.running = u.running
<1> DEFINE index == CHOOSE i \in DOMAIN u.page[g].panes : u.page[g].panes[i] = p
           panes == Without(u.page[g].panes, p)
           pg == [panes |-> panes, leaves |-> RemoveLeaf(u.page[g].leaves, p),
                  focus |-> IF u.page[g].focus = p /\ panes # <<>>
                            THEN panes[IF index > Len(panes) THEN Len(panes) ELSE index]
                            ELSE u.page[g].focus]
           w == [u EXCEPT !.page = [u.page EXCEPT ![g] = pg]]
           x == [w EXCEPT !.pages = Without(u.pages, g)]
           v == RemovePane(u, g, p)
<1>1. u.page[g] \in Page
  BY DEF UI
<1>2. panes \in Seq(PaneIds)
  BY <1>1, WithoutDoes DEF Page
<1>3. index \in DOMAIN u.page[g].panes /\ index \in Nat \ {0}
  BY <1>1 DEF Page, ToSet
<1> HIDE DEF index
<1>4. panes # <<>> => panes[IF index > Len(panes) THEN Len(panes) ELSE index] \in ToSet(panes)
  BY <1>2, <1>3 DEF ToSet
<1>5. ToSet(panes) \subseteq PaneIds
  BY <1>2, ToSetOf
<1>6. v = IF panes # <<>> THEN IF u.current = g THEN Refresh(w) ELSE w
          ELSE IF x.pages = <<>> THEN Stop([x EXCEPT !.current = Nil])
          ELSE Refresh([x EXCEPT !.current = FirstPage(x)])
  <2> DEFINE w1 == [u EXCEPT !.page[g] =
                      [panes |-> panes, leaves |-> RemoveLeaf(@.leaves, p),
                       focus |-> IF @.focus = p /\ panes # <<>>
                                 THEN panes[IF index > Len(panes) THEN Len(panes) ELSE index]
                                 ELSE @.focus]]
             x1 == [w1 EXCEPT !.pages = Without(@, g)]
  <2>1. w1 = w
    BY DEF UI
  <2>2. x1 = x
    BY <2>1 DEF UI
  <2>3. v = IF panes # <<>> THEN IF u.current = g THEN Refresh(w1) ELSE w1
            ELSE IF x1.pages = <<>> THEN Stop([x1 EXCEPT !.current = Nil])
            ELSE Refresh([x1 EXCEPT !.current = FirstPage(x1)])
    BY Zenon DEF RemovePane, index
  <2> QED
    BY <2>1, <2>2, <2>3, Zenon
<1> HIDE DEF panes
<1>7. pg \in Page /\ pg.panes = panes /\ pg.leaves = RemoveLeaf(u.page[g].leaves, p)
      /\ (pg.focus = u.page[g].focus \/ pg.focus \in ToSet(panes))
  BY <1>1, <1>2, <1>4, <1>5 DEF Page, RemoveLeaf
<1> HIDE DEF pg
<1>8. [u.page EXCEPT ![g] = pg] \in [PageIds -> Page]
  BY <1>7 DEF UI
<1>9. /\ w \in UI /\ SameIds(w, u) /\ w.selFocus = u.selFocus /\ w.running = u.running
      /\ w.current = u.current /\ w.pages = u.pages /\ SameView(w, u)
      /\ w.page = [u.page EXCEPT ![g] = pg]
  BY <1>8 DEF UI, SameIds, SameView
<1>10. Without(u.pages, g) \in Seq(PageIds)
  BY WithoutDoes DEF UI
<1>11. /\ x \in UI /\ SameIds(x, u) /\ x.selFocus = u.selFocus /\ x.running = u.running
       /\ x.pages = Without(u.pages, g) /\ x.page = [u.page EXCEPT ![g] = pg]
  BY <1>9, <1>10 DEF UI, SameIds
<1> HIDE DEF w, x, v
<1>12. /\ \A h \in PageIds \ {g} : [u.page EXCEPT ![g] = pg][h] = u.page[h]
       /\ [u.page EXCEPT ![g] = pg][g] = pg
  BY DEF UI
<1>13. CASE panes # <<>> /\ u.current = g
  <2>1. v = Refresh(w)
    BY <1>6, <1>13
  <2>2. /\ v \in UI /\ Refreshed(v) /\ SameIds(v, w) /\ v.pages = w.pages /\ v.page = w.page
        /\ v.current = w.current /\ v.selFocus = w.selFocus /\ v.running = w.running
    BY <1>9, <2>1, RefreshDoes
  <2> QED
    BY <1>7, <1>9, <1>12, <1>13, <2>2 DEF SameIds, v, panes
<1>14. CASE panes # <<>> /\ u.current # g
  <2>1. v = w
    BY <1>6, <1>14
  <2> QED
    BY <1>7, <1>9, <1>12, <1>14, <2>1 DEF v, panes
<1>15. CASE panes = <<>> /\ x.pages = <<>>
  <2> DEFINE y == Stop([x EXCEPT !.current = Nil])
  <2>1. v = y
    BY <1>6, <1>15
  <2>2. /\ y \in UI /\ SameIds(y, x) /\ y.selFocus = x.selFocus /\ ~y.running /\ y.current = Nil
        /\ y.pages = x.pages /\ y.page = x.page
    BY <1>11 DEF Stop, UI, SameIds
  <2> HIDE DEF y
  <2> QED
    BY <1>7, <1>11, <1>12, <1>15, <2>1, <2>2 DEF SameIds, v, panes
<1>16. CASE panes = <<>> /\ x.pages # <<>>
  <2> DEFINE y == [x EXCEPT !.current = FirstPage(x)]
  <2>1. v = Refresh(y)
    BY <1>6, <1>16
  <2>2. FirstPage(x) = x.pages[1] /\ FirstPage(x) \in PageIds
    BY <1>11, <1>16 DEF FirstPage, UI
  <2>3. /\ y \in UI /\ SameIds(y, x) /\ y.selFocus = x.selFocus /\ y.running = x.running
        /\ y.pages = x.pages /\ y.page = x.page /\ y.current = x.pages[1]
    BY <1>11, <2>2 DEF UI, SameIds
  <2> HIDE DEF y
  <2>4. /\ v \in UI /\ Refreshed(v) /\ SameIds(v, y) /\ v.pages = y.pages /\ v.page = y.page
        /\ v.current = y.current /\ v.selFocus = y.selFocus /\ v.running = y.running
    BY <2>1, <2>3, RefreshDoes
  <2> QED
    BY <1>7, <1>11, <1>12, <1>16, <2>3, <2>4 DEF SameIds, v, panes
<1> QED
  BY <1>13, <1>14, <1>15, <1>16

(***************************************************************************)
(* Steps that only look elsewhere, or that sessions take.                  *)
(***************************************************************************)
SameStructure ==
  /\ ui'.pages = ui.pages /\ ui'.nextPage = ui.nextPage /\ ui'.selFocus = ui.selFocus
  /\ \A g \in PageIds : ui'.page[g].panes = ui.page[g].panes /\ ui'.page[g].leaves = ui.page[g].leaves
  /\ UNCHANGED <<home, selector, overlapped, orphaned>>
SameFocus == ui'.current = ui.current /\ \A g \in PageIds : ui'.page[g].focus = ui.page[g].focus
StaySessions == \A p \in PaneIds : pane'[p] = pane[p] \/ (p \in Sessions /\ p \in Sessions' /\ pane'[p] # "connecting")
Attention ==
  \/ Refreshed(ui') /\ (Command \/ ui.listed # <<>> \/ ui.appFocus = List)
  \/ Refreshed(ui') /\ SameFocus
  \/ /\ Command /\ SameFocus /\ pane' = pane
     /\ ui'.shown = {} /\ ui'.appFocus = List /\ ui'.listed = ui.pages
  \/ /\ SameFocus /\ pane' = pane /\ ui'.shown = ui.shown /\ ui'.listed = ui.listed
     /\ ui'.appFocus \in ui.shown \ {Nil} /\ ~HasTerm(ui'.appFocus)
  \/ /\ ui'.current = ui.current /\ pane' = pane /\ ui'.shown = ui.shown /\ ui'.listed = ui.listed
     /\ ui'.appFocus = ui'.page[ui.current].focus /\ ui'.appFocus \in Panes(ui.current)
     /\ \A g \in PageIds \ {ui.current} : ui'.page[g].focus = ui.page[g].focus
  \/ /\ SameFocus /\ SameView(ui', ui)
     /\ \A p \in PaneIds : pane'[p] # pane[p] => HasTerm(p) \/ (Connecting(p) /\ home[p] # ui.current)
\* A step that changes nothing but the prefix.
Unmoving == UNCHANGED <<ui, pane, home, selector, overlapped, orphaned>>
Looks ==
  /\ Flags' /\ (ui.current # Nil \/ Unmoving)
  /\ ui' \in UI /\ SameStructure /\ ui'.nextPane \in {ui.nextPane, ui.nextPane + 1}
  /\ ui'.running = ui.running \/ (~ui'.running /\ pane' = pane)
  /\ ui'.current = ui.current \/ Listed(ui'.current)
  /\ \A g \in PageIds : ui'.page[g].focus = ui.page[g].focus \/ ui'.page[g].focus \in Panes(g)
  /\ pane' \in [PaneIds -> Statuses] /\ StaySessions
  /\ ui'.running => Attention
LookStep ==
  \/ SwitchPage \/ CyclePane \/ ShowPageList \/ PickPage \/ LeavePageList \/ ToggleBroadcast \/ Quit
  \/ (OpenBeside /\ ~Splits(ui)) \/ UNCHANGED managerVars
  \/ \E p \in PaneIds : Click(p) \/ Connected(p) \/ ConnectFails(p) \/ (Exits(p) /\ hold)
  \/ (ClosePane /\ \A p \in PaneIds : pane'[p] # "gone" \/ pane[p] = "gone")

LEMMA RefreshLooks ==
  ASSUME NEW u \in UI, ui' = Refresh(u), u.pages = ui.pages, SameIds(u, ui), u.selFocus = ui.selFocus,
         u.running = ui.running
  PROVE  /\ ui' \in UI /\ Refreshed(ui') /\ SameIds(ui', ui) /\ ui'.pages = ui.pages /\ ui'.page = u.page
         /\ ui'.current = u.current /\ ui'.selFocus = ui.selFocus /\ ui'.running = ui.running
  BY RefreshDoes DEF SameIds

LEMMA LookDoes ==
  ASSUME Types, Made \subseteq PageIds, ui.current # Nil, LookStep
  PROVE  Looks
<1>0. Flags'
  <2>1. CASE SwitchPage \/ CyclePane \/ ShowPageList \/ ToggleBroadcast \/ Quit
    BY <2>1 DEF Types, Flags, SwitchPage, CyclePane, ShowPageList, ToggleBroadcast, Quit, Command, Keep
  <2>2. CASE PickPage \/ LeavePageList \/ UNCHANGED managerVars
    BY <2>2 DEF Types, Flags, PickPage, LeavePageList, Keep, KeepPrefix, managerVars
  <2>3. CASE OpenBeside \/ ClosePane
    BY <2>3 DEF Types, Flags, OpenBeside, ClosePane, LayoutCommand, Command, Keep
  <2>4. ASSUME NEW p \in PaneIds, Click(p) \/ Connected(p) \/ ConnectFails(p) \/ Exits(p)
        PROVE  Flags'
    BY <2>4 DEF Types, Flags, Click, Connected, ConnectFails, Exits, Keep, KeepPrefix
  <2> QED
    BY <2>1, <2>2, <2>3, <2>4 DEF LookStep
<1> USE <1>0 DEF SameStructure, SameFocus, StaySessions, Keep, KeepPrefix
<1>1. ui \in UI /\ ui.current \in PageIds /\ Here(ui) = ui.page[ui.current] /\ Here(ui) \in Page
  BY DEF Types, UI, Here
<1>2. CASE SwitchPage
  <2>1. PICK g \in ToSet(ui.pages) : ui' = Refresh([ui EXCEPT !.current = g])
    BY <1>2 DEF SwitchPage
  <2> DEFINE u == [ui EXCEPT !.current = g]
  <2>2. g \in PageIds
    BY <1>1, ToSetOf DEF UI
  <2>3. u \in UI /\ u.page = ui.page /\ u.current = g /\ u.pages = ui.pages /\ SameIds(u, ui)
        /\ u.selFocus = ui.selFocus /\ u.running = ui.running
    BY <1>1, <2>2 DEF UI, SameIds
  <2> HIDE DEF u
  <2>4. Refreshed(ui') /\ ui' \in UI /\ SameIds(ui', ui) /\ ui'.pages = ui.pages /\ ui'.page = ui.page
        /\ ui'.current = g /\ ui'.selFocus = ui.selFocus /\ ui'.running = ui.running
    BY <2>1, <2>3, RefreshLooks DEF u
  <2> QED
    BY <1>2, <2>4 DEF Looks, Attention, SwitchPage, SameIds, Listed, Types
<1>3. CASE CyclePane
  <2> DEFINE panes == Here(ui).panes
             index == IF Here(ui).focus \in ToSet(panes)
                      THEN CHOOSE i \in DOMAIN panes : panes[i] = Here(ui).focus ELSE 1
             f == panes[(index % Len(panes)) + 1]
             u == [ui EXCEPT !.page[ui.current].focus = f]
  <2>1. ui' = Refresh(u) /\ Len(panes) > 1
    BY <1>3, Zenon DEF CyclePane
  <2>2. index \in Nat
    BY <1>1 DEF Page, ToSet
  <2> HIDE DEF index
  <2>3. f \in ToSet(panes) /\ f \in PaneIds
    BY <1>1, <2>1, <2>2 DEF Page, ToSet
  <2> HIDE DEF f
  <2>4. /\ u \in UI /\ u.current = ui.current /\ u.pages = ui.pages /\ SameIds(u, ui)
        /\ u.selFocus = ui.selFocus /\ u.running = ui.running
        /\ \A g \in PageIds : /\ u.page[g].panes = ui.page[g].panes /\ u.page[g].leaves = ui.page[g].leaves
        /\ \A g \in PageIds : u.page[g].focus = ui.page[g].focus \/ u.page[g].focus \in ToSet(ui.page[g].panes)
    <3> DEFINE pg == [ui.page[ui.current] EXCEPT !.focus = f]
    <3>1. pg \in Page /\ pg.panes = panes /\ pg.leaves = Here(ui).leaves /\ pg.focus = f
      BY <1>1, <2>3 DEF Page
    <3>2. u = [ui EXCEPT !.page = [ui.page EXCEPT ![ui.current] = pg]]
      BY <1>1 DEF UI
    <3> HIDE DEF pg, u
    <3>3. [ui.page EXCEPT ![ui.current] = pg] \in [PageIds -> Page]
      BY <1>1, <3>1 DEF UI
    <3>4. /\ u \in UI /\ u.current = ui.current /\ u.pages = ui.pages /\ SameIds(u, ui)
          /\ u.selFocus = ui.selFocus /\ u.running = ui.running
          /\ u.page = [ui.page EXCEPT ![ui.current] = pg]
      BY <1>1, <3>2, <3>3 DEF UI, SameIds
    <3>5. \A g \in PageIds : u.page[g] = IF g = ui.current THEN pg ELSE ui.page[g]
      BY <1>1, <3>4 DEF UI
    <3> QED
      BY <1>1, <2>3, <3>1, <3>4, <3>5
  <2> HIDE DEF u
  <2>5. /\ ui' \in UI /\ Refreshed(ui') /\ SameIds(ui', ui) /\ ui'.pages = ui.pages /\ ui'.page = u.page
        /\ ui'.current = ui.current /\ ui'.selFocus = ui.selFocus /\ ui'.running = ui.running
    BY <2>1, <2>4, RefreshLooks
  <2> QED
    <3>1. Command /\ UNCHANGED <<pane, selector, overlapped, orphaned, home>>
      BY <1>3 DEF CyclePane
    <3>2. Attention
      BY <2>5, <3>1 DEF Attention
    <3>4. SameStructure
      <4>1. \A g \in PageIds : ui'.page[g].panes = ui.page[g].panes /\ ui'.page[g].leaves = ui.page[g].leaves
        <5>1. ui'.page = u.page
          BY <2>5
        <5>2. \A g \in PageIds : u.page[g].panes = ui.page[g].panes /\ u.page[g].leaves = ui.page[g].leaves
          BY <2>4
        <5> QED
          BY <5>1, <5>2
      <4>2. ui'.pages = ui.pages /\ ui'.nextPage = ui.nextPage /\ ui'.selFocus = ui.selFocus
        BY <2>5 DEF SameIds
      <4> QED
        BY <3>1, <4>1, <4>2
    <3>5. StaySessions
      BY <3>1
    <3>3. \A g \in PageIds : ui'.page[g].focus = ui.page[g].focus \/ ui'.page[g].focus \in Panes(g)
      BY <2>4, <2>5 DEF Panes
    <3> QED
      BY <2>5, <3>1, <3>2, <3>3, <3>4, <3>5 DEF Looks, SameIds, Types
<1>4. CASE ShowPageList
  <2>1. /\ ui' \in UI /\ ui'.pages = ui.pages /\ ui'.page = ui.page /\ SameIds(ui', ui) /\ ui'.current = ui.current
        /\ ui'.selFocus = ui.selFocus /\ ui'.running = ui.running /\ ui'.shown = {} /\ ui'.appFocus = List
    BY <1>1, <1>4 DEF ShowPageList, UI, SameIds, Focusable
  <2> QED
    BY <1>4, <2>1 DEF Looks, Attention, ShowPageList, SameIds, Types
<1>5. CASE PickPage
  <2>1. PICK i \in DOMAIN ui.listed \cap DOMAIN ui.pages : ui' = Refresh([ui EXCEPT !.current = ui.pages[i]])
    BY <1>5 DEF PickPage
  <2> DEFINE g == ui.pages[i]
             u == [ui EXCEPT !.current = g]
  <2>2. g \in PageIds /\ g \in ToSet(ui.pages) /\ ui.listed # <<>>
    BY <1>1, <2>1 DEF UI, ToSet
  <2>3. u \in UI /\ u.page = ui.page /\ u.current = g /\ u.pages = ui.pages /\ SameIds(u, ui)
        /\ u.selFocus = ui.selFocus /\ u.running = ui.running
    BY <1>1, <2>2 DEF UI, SameIds
  <2> HIDE DEF u
  <2>4. Refreshed(ui') /\ ui' \in UI /\ SameIds(ui', ui) /\ ui'.pages = ui.pages /\ ui'.page = ui.page
        /\ ui'.current = g /\ ui'.selFocus = ui.selFocus /\ ui'.running = ui.running
    BY <2>1, <2>3, RefreshLooks DEF u
  <2> QED
    BY <1>5, <2>2, <2>4 DEF Looks, Attention, PickPage, SameIds, Listed, Types
<1>6. CASE LeavePageList
  <2>1. /\ ui' \in UI /\ ui'.pages = ui.pages /\ ui'.page = ui.page /\ SameIds(ui', ui) /\ ui'.current = ui.current
        /\ ui'.selFocus = ui.selFocus /\ ui'.running = ui.running /\ ui'.listed = <<>>
        /\ ui'.shown = Here(ui).leaves /\ ui'.appFocus = Here(ui).focus
    <3>1. ui' = [ui EXCEPT !.listed = <<>>, !.shown = Here(ui).leaves, !.appFocus = Here(ui).focus]
      BY <1>6 DEF LeavePageList
    <3>2. <<>> \in Seq(PageIds) /\ Here(ui).leaves \in SUBSET (PaneIds \cup {Nil}) /\ Here(ui).focus \in Focusable
      BY <1>1 DEF Page, Focusable
    <3> QED
      BY <1>1, <3>1, <3>2 DEF UI, SameIds
  <2>2. Refreshed(ui')
    BY <1>1, <2>1 DEF Refreshed, Here
  <2> QED
    BY <1>6, <2>1, <2>2 DEF Looks, Attention, LeavePageList, SameIds, Types
<1>7. CASE ToggleBroadcast \/ UNCHANGED managerVars
  BY <1>1, <1>7 DEF ToggleBroadcast, managerVars, Looks, Attention, Types, SameView
<1>8. CASE Quit
  BY <1>1, <1>8 DEF Quit, Stop, Looks, UI, Types
<1>9. CASE OpenBeside /\ ~Splits(ui)
  <2>1. /\ ui' = [ui EXCEPT !.nextPane = @ + 1] /\ ui.nextPane < MaxPanes
        /\ UNCHANGED <<pane, selector, overlapped, orphaned, home>>
    BY <1>9 DEF OpenBeside
  <2>2. ui.nextPane + 1 \in 1..(MaxPanes + 1)
    BY <1>1, <2>1, MuxManagerAssumption DEF UI
  <2>3. /\ ui' \in UI /\ ui'.pages = ui.pages /\ ui'.page = ui.page /\ ui'.current = ui.current
        /\ ui'.nextPage = ui.nextPage /\ ui'.nextPane = ui.nextPane + 1 /\ SameView(ui', ui)
        /\ ui'.selFocus = ui.selFocus /\ ui'.running = ui.running
    BY <1>1, <2>1, <2>2 DEF UI, SameView
  <2> QED
    BY <2>1, <2>3 DEF Looks, Attention, Types, SameView
<1>10. ASSUME NEW p \in PaneIds, Click(p)
       PROVE  Looks
  <2>1. CASE HasTerm(p) /\ p \in ToSet(Here(ui).panes) /\ ui' = [ui EXCEPT !.page[ui.current].focus = p, !.appFocus = p]
    <3> DEFINE pg == [ui.page[ui.current] EXCEPT !.focus = p]
    <3>1. pg \in Page /\ pg.panes = Here(ui).panes /\ pg.leaves = Here(ui).leaves /\ pg.focus = p
      BY <1>1 DEF Page
    <3>2. ui' = [ui EXCEPT !.page = [ui.page EXCEPT ![ui.current] = pg], !.appFocus = p]
      BY <1>1, <2>1 DEF UI
    <3> HIDE DEF pg
    <3>3. [ui.page EXCEPT ![ui.current] = pg] \in [PageIds -> Page]
      BY <1>1, <3>1 DEF UI
    <3>4. /\ ui' \in UI /\ ui'.current = ui.current /\ ui'.pages = ui.pages /\ SameIds(ui', ui)
          /\ ui'.selFocus = ui.selFocus /\ ui'.running = ui.running /\ ui'.shown = ui.shown
          /\ ui'.page = [ui.page EXCEPT ![ui.current] = pg] /\ ui'.appFocus = p
      BY <1>1, <3>2, <3>3 DEF UI, SameIds, Focusable
    <3>5. \A g \in PageIds : ui'.page[g] = IF g = ui.current THEN pg ELSE ui.page[g]
      BY <1>1, <3>4 DEF UI
    <3>6. UNCHANGED <<pane, selector, overlapped, orphaned, home>>
      BY <1>10 DEF Click
    <3> QED
      BY <1>1, <2>1, <3>1, <3>4, <3>5, <3>6 DEF Looks, Attention, Types, SameIds, Panes
  <2>2. CASE ~HasTerm(p) /\ p \in ui.shown \ {Nil} /\ ui' = [ui EXCEPT !.appFocus = p]
    <3>1. /\ ui' \in UI /\ ui'.pages = ui.pages /\ ui'.page = ui.page /\ SameIds(ui', ui)
          /\ ui'.current = ui.current /\ ui'.selFocus = ui.selFocus /\ ui'.running = ui.running
          /\ ui'.shown = ui.shown /\ ui'.appFocus = p
      BY <1>1, <2>2 DEF UI, SameIds, Focusable
    <3>2. UNCHANGED <<pane, selector, overlapped, orphaned, home>>
      BY <1>10 DEF Click
    <3>3. ~HasTerm(ui'.appFocus) /\ SameFocus /\ SameStructure /\ StaySessions
      BY <2>2, <3>1, <3>2 DEF SameIds
    <3> QED
      BY <2>2, <3>1, <3>2, <3>3 DEF Looks, Attention, Types, SameIds
  <2> QED
    BY <1>10, <2>1, <2>2 DEF Click
<1>11. ASSUME NEW p \in PaneIds, Connected(p) \/ ConnectFails(p)
       PROVE  Looks
  <2>1. /\ pane[p] = "connecting" /\ ui' = RefreshIfCurrent(home[p])
        /\ pane' = [pane EXCEPT ![p] = "live"] \/ pane' = [pane EXCEPT ![p] = "failed"]
        /\ UNCHANGED <<selector, overlapped, orphaned, home>>
    BY <1>11 DEF Connected, ConnectFails
  <2>2. pane' \in [PaneIds -> Statuses] /\ StaySessions
    BY <2>1 DEF Types, Statuses, Sessions
  <2>3. CASE ui.current = home[p]
    <3>1. ui' = Refresh(ui)
      BY <2>1, <2>3 DEF RefreshIfCurrent
    <3>2. SameIds(ui, ui)
      BY DEF SameIds
    <3>3. /\ Refreshed(ui') /\ ui' \in UI /\ SameIds(ui', ui) /\ ui'.pages = ui.pages /\ ui'.page = ui.page
          /\ ui'.current = ui.current /\ ui'.selFocus = ui.selFocus /\ ui'.running = ui.running
      BY <1>1, <3>1, <3>2, RefreshLooks
    <3> QED
      BY <2>1, <2>2, <3>3 DEF Looks, Attention, SameIds
  <2>4. CASE ui.current # home[p]
    <3>1. ui' = ui
      BY <2>1, <2>4 DEF RefreshIfCurrent
    <3>2. \A q \in PaneIds : pane'[q] # pane[q] => q = p
      BY <2>1 DEF Types
    <3>3. SameFocus /\ SameView(ui', ui) /\ SameStructure
      BY <2>1, <3>1 DEF SameView
    <3>4. Attention
      BY <2>1, <2>4, <3>2, <3>3 DEF Attention, Connecting
    <3> QED
      BY <1>1, <2>1, <2>2, <3>1, <3>3, <3>4 DEF Looks
  <2> QED
    BY <2>3, <2>4
<1>12. ASSUME NEW p \in PaneIds, pane[p] \in {"live", "closing"}, ui' = ui,
              pane' = [pane EXCEPT ![p] = "done"] \/ pane' = [pane EXCEPT ![p] = "closing"],
              UNCHANGED <<selector, overlapped, orphaned, home>>
       PROVE  Looks
  <2>1. pane' \in [PaneIds -> Statuses] /\ StaySessions
    BY <1>12 DEF Types, Statuses, Sessions
  <2>2. \A q \in PaneIds : pane'[q] # pane[q] => q = p
    BY <1>12 DEF Types
  <2>3. SameFocus /\ SameView(ui', ui) /\ SameStructure
    BY <1>12 DEF SameView
  <2>4. Attention
    BY <1>12, <2>2, <2>3 DEF Attention, HasTerm
  <2> QED
    BY <1>1, <1>12, <2>1, <2>3, <2>4 DEF Looks
<1>13. ASSUME NEW p \in PaneIds, Exits(p), hold
       PROVE  Looks
  BY <1>12, <1>13 DEF Exits
<1>14. CASE ClosePane /\ \A p \in PaneIds : pane'[p] # "gone" \/ pane[p] = "gone"
  <2> DEFINE p == Here(ui).focus
  <2>1. CASE p \in PaneIds /\ pane[p] \in {"failed", "done"}
    <3>1. pane'[p] = "gone" /\ pane[p] # "gone"
      BY <1>14, <2>1 DEF ClosePane, Gone
    <3> QED
      BY <1>14, <2>1, <3>1
  <2>2. CASE p \in PaneIds /\ pane[p] = "live"
    <3>1. pane' = [pane EXCEPT ![p] = "closing"] /\ ui' = ui /\ UNCHANGED <<selector, overlapped, orphaned, home>>
      BY <1>14, <2>2 DEF ClosePane
    <3> QED
      BY <1>12, <2>2, <3>1
  <2>3. CASE ~(p \in PaneIds /\ pane[p] \in {"failed", "done", "live"})
    <3>1. UNCHANGED <<ui, pane, selector, overlapped, orphaned, home>>
      BY <1>14, <2>3 DEF ClosePane
    <3> QED
      BY <1>1, <3>1 DEF Looks, Attention, Types, SameView
  <2> QED
    BY <2>1, <2>2, <2>3
<1> QED
  BY <1>2, <1>3, <1>4, <1>5, <1>6, <1>7, <1>8, <1>9, <1>10, <1>11, <1>13, <1>14 DEF LookStep

(***************************************************************************)
(* Steps that change the pages and panes.                                  *)
(***************************************************************************)
Uses(x, g) == x \in Panes(g) \/ x \in LeavesOf(g) \/ x = ui.page[g].focus
\* Pages and panes are numbered as they are made.
Ids ==
  /\ \A p \in PaneIds : /\ p >= ui.nextPane => pane[p] = "new" /\ Mode(p) = "none"
                        /\ p \in Sessions => home[p] \in Made
  /\ \A s \in PaneIds : /\ Mode(s) # "none" => pane[s] \in {"selector", "gone"} /\ Mode(s) # "initial"
                        /\ pane[s] = "selector" => Mode(s) # "none"
                        /\ Mode(s) = "pane" => selector[s].prev < ui.nextPane
                        /\ Mode(s) = "page" =>
                             /\ selector[s].page \in Made /\ selector[s].prev < selector[s].page
                             /\ \A t \in PaneIds : Mode(t) = "page" /\ selector[s].page = selector[t].page => s = t
  /\ \A g \in Made : /\ ui.page[g].focus # Nil /\ Distinct(ui.page[g].panes)
                     /\ \A x \in PaneIds : Uses(x, g) => x < ui.nextPane
  /\ ToSet(ui.pages) \subseteq Made /\ Distinct(ui.pages) /\ ui.current \in Made \cup {Nil}
  /\ Mode(Initial) \in {"none", "initial"}

OtherPages(v, g) == \A h \in PageIds : h # g => v.page[h] = ui.page[h]
NewIds(v, new) ==
  /\ new \subseteq PaneIds /\ new # {} /\ ui.nextPane <= v.nextPane
  /\ \A p \in PaneIds : p \in new <=> ui.nextPane <= p /\ p < v.nextPane
Dropped(v, g, old, new) ==
  /\ ToSet(v.page[g].panes) = (Panes(g) \ old) \cup new
  /\ \A x \in PaneIds : x \in v.page[g].leaves <=> (x \in LeavesOf(g) /\ x \notin old) \/ x \in new
Creates(v, g, new, dropped) ==
  /\ v \in UI /\ NewIds(v, new) /\ Refreshed(v)
  /\ g = ui.nextPage /\ v.nextPage = g + 1 /\ v.current = g
  /\ OtherPages(v, g)
  /\ ToSet(v.page[g].panes) = new /\ v.page[g].leaves = new /\ v.page[g].focus \in new
  /\ Distinct(v.page[g].panes) /\ Distinct(v.pages)
  /\ \A h : h \in ToSet(v.pages) <=> h = g \/ (Listed(h) /\ h \notin dropped)
Extends(v, g, new, old) ==
  /\ v \in UI /\ NewIds(v, new) /\ Refreshed(v)
  /\ g = ui.current /\ v.current = g /\ v.nextPage = ui.nextPage /\ v.pages = ui.pages
  /\ OtherPages(v, g) /\ Dropped(v, g, old, new)
  /\ v.page[g].focus \in new /\ Distinct(v.page[g].panes)
Shrinks(v, g, s) ==
  /\ v \in UI /\ ui.nextPane <= v.nextPane
  /\ g = ui.current /\ v.current = g /\ v.nextPage = ui.nextPage /\ v.pages = ui.pages
  /\ OtherPages(v, g) /\ Dropped(v, g, {s}, {})
  /\ v.page[g].focus = selector[s].prev /\ Distinct(v.page[g].panes)
  /\ v.running => Refreshed(v) \/ SameView(v, ui)
Goes(v, g, dropped) ==
  /\ v \in UI /\ SameIds(v, ui) /\ v.page = ui.page /\ v.current = g
  /\ Distinct(v.pages)
  /\ \A h : h \in ToSet(v.pages) <=> Listed(h) /\ h \notin dropped
  /\ v.running => Refreshed(v) /\ g # Nil /\ v.page[g].panes # <<>>

Opens(s, g) ==
  /\ Flags' /\ Command /\ s = ui.nextPane /\ ui'.nextPane = s + 1 /\ ui'.running /\ ui'.selFocus = s
  /\ pane' = [pane EXCEPT ![s] = "selector"] /\ overlapped' = (overlapped \/ Selectors # {})
  /\ UNCHANGED <<orphaned, home>>
  /\ selector' \in [PaneIds \cup {Initial} -> Captured]
  /\ \A t \in PaneIds \cup {Initial} : t # s => selector'[t] = selector[t]
  /\ \/ /\ Creates(ui', g, {s}, {}) /\ Mode(s)' = "page"
        /\ selector'[s].page = g /\ selector'[s].prev = ui.current
     \/ Extends(ui', g, {s}, {}) /\ Mode(s)' = "pane" /\ selector'[s].prev = ui.page[g].focus
Closes(s, g, new) ==
  /\ Flags' /\ Entered(s) /\ ui'.selFocus = Nil /\ UNCHANGED <<selector, overlapped, orphaned>>
  /\ pane' \in [PaneIds -> Statuses] /\ home' \in [PaneIds -> PageIds \cup {Nil}]
  /\ \A p \in PaneIds :
       /\ pane'[p] = IF p \in new THEN "connecting" ELSE IF p = s THEN "gone" ELSE pane[p]
       /\ home'[p] = IF p \in new THEN g ELSE home[p]
  /\ ui'.running \/ (new = {} /\ NothingLeft(ui'))
  /\ \/ /\ Mode(s) \in {"page", "initial"}
        /\ Creates(ui', g, new, IF Mode(s) = "page" THEN {selector[s].page} ELSE {})
     \/ Mode(s) = "pane" /\ Extends(ui', g, new, {s})
     \/ Mode(s) = "pane" /\ Shrinks(ui', g, s) /\ new = {}
     \/ Mode(s) = "page" /\ Goes(ui', g, {selector[s].page}) /\ g = selector[s].prev /\ new = {}
     \/ Mode(s) = "initial" /\ Goes(ui', ui.current, {}) /\ new = {}
Removes(p, g) ==
  /\ Flags' /\ ui.running /\ p \in Sessions /\ pane' = [pane EXCEPT ![p] = "gone"]
  /\ UNCHANGED <<home, selector, overlapped>> /\ orphaned' = (orphaned \/ Selectors # {})
  /\ g = home[p] \/ (g = ui.current /\ p = ui.page[g].focus)
  /\ ui' \in UI /\ SameIds(ui', ui) /\ ui'.selFocus = ui.selFocus
  /\ \/ p \notin Panes(g) /\ ui' = ui
     \/ /\ p \in Panes(g) /\ OtherPages(ui', g) /\ Dropped(ui', g, {p}, {}) /\ Distinct(ui'.page[g].panes)
        /\ ui'.page[g].focus = ui.page[g].focus \/ ui'.page[g].focus \in Panes(g) \ {p}
        /\ Panes(g) # {p} => /\ ui'.pages = ui.pages /\ ui'.current = ui.current /\ ui'.running
                             /\ Refreshed(ui') \/ (g # ui.current /\ SameView(ui', ui))
        /\ Panes(g) = {p} => /\ \A h : h \in ToSet(ui'.pages) <=> Listed(h) /\ h # g
                             /\ Distinct(ui'.pages)
                             /\ IF ui'.running THEN ui'.current \in ToSet(ui'.pages) /\ Refreshed(ui')
                                ELSE ui'.pages = <<>> /\ ui'.current = Nil

LEMMA PagesMade == Types => Made \subseteq PageIds
  BY MuxManagerAssumption DEF Types, UI, Made, PageIds

\* Panes with the next numbers.
NextPanes(new) ==
  /\ new \in Seq(PaneIds) /\ new # <<>> /\ Distinct(new) /\ ui.nextPane + Len(new) <= MaxPanes + 1
  /\ ToSet(new) = ui.nextPane..(ui.nextPane + Len(new) - 1) /\ {new[1], Last(new)} \subseteq ToSet(new)

LEMMA NextPanesDoes ==
  ASSUME Types, NEW new, NextPanes(new)
  PROVE  /\ ToSet(new) \subseteq PaneIds /\ ToSet(new) # {} /\ ui.nextPane <= ui.nextPane + Len(new)
         /\ \A p \in PaneIds : p \in ToSet(new) <=> ui.nextPane <= p /\ p < ui.nextPane + Len(new)
<1>1. ui.nextPane \in Nat \ {0} /\ MaxPanes \in Nat /\ Len(new) \in Nat
  BY MuxManagerAssumption DEF Types, UI, NextPanes
<1>2. ToSet(new) # {} /\ ToSet(new) \subseteq PaneIds
  BY ToSetOf, EmptyToSet DEF NextPanes
<1> QED
  BY <1>1, <1>2 DEF NextPanes, PaneIds

LEMMA CreatesDoes ==
  ASSUME Types, Ids, NEW u \in UI, NEW dropped, u.page = ui.page, SameIds(u, ui), Distinct(u.pages),
         \A h : h \in ToSet(u.pages) <=> Listed(h) /\ h \notin dropped,
         ui.nextPage \in PageIds, NEW new, NextPanes(new)
  PROVE  LET v == Refresh(CreatePage(u, new)) IN
         /\ Creates(v, ui.nextPage, ToSet(new), dropped)
         /\ v.nextPane = ui.nextPane + Len(new) /\ v.selFocus = u.selFocus /\ v.running = u.running
<1> DEFINE w == CreatePage(u, new)
           v == Refresh(w)
           g == ui.nextPage
           pg == [panes |-> new, leaves |-> ToSet(new), focus |-> new[1]]
<1>1. new \in Seq(PaneIds) /\ new # <<>> /\ u.nextPage = g /\ u.nextPage \in PageIds
      /\ u.nextPane = ui.nextPane /\ u.nextPane + Len(new) <= MaxPanes + 1
  BY DEF NextPanes, SameIds
<1>2. /\ w \in UI
      /\ w.pages = Append(u.pages, g) /\ w.current = g
      /\ w.nextPage = g + 1 /\ w.nextPane = ui.nextPane + Len(new)
      /\ w.page = [u.page EXCEPT ![g] = pg] /\ w.selFocus = u.selFocus /\ w.running = u.running
  BY <1>1, CreatePageDoes
<1> HIDE DEF w
<1>3. /\ v \in UI /\ Refreshed(v) /\ SameIds(v, w)
      /\ v.pages = w.pages /\ v.page = w.page /\ v.current = w.current
      /\ v.selFocus = w.selFocus /\ v.running = w.running
  BY <1>2, RefreshDoes
<1> HIDE DEF v
<1>4. v.nextPane = ui.nextPane + Len(new) /\ NewIds(v, ToSet(new)) /\ v.nextPage = g + 1
  BY <1>2, <1>3, NextPanesDoes DEF NewIds, SameIds
<1>5. g \notin ToSet(u.pages)
  <2>1. g \notin Made /\ ToSet(ui.pages) \subseteq Made
    BY DEF Made, Ids, Types, UI
  <2> QED
    BY <2>1 DEF Listed
<1>6. Distinct(v.pages) /\ \A h : h \in ToSet(v.pages) <=> h = g \/ (Listed(h) /\ h \notin dropped)
  <2>1. u.pages \in Seq(PageIds)
    BY DEF UI
  <2>2. ToSet(v.pages) = ToSet(u.pages) \cup {g} /\ Distinct(v.pages)
    BY <1>1, <1>2, <1>3, <1>5, <2>1, AppendDoes
  <2> QED
    BY <2>2
<1>7. v.page[g] = pg /\ OtherPages(v, g)
  BY <1>1, <1>2, <1>3 DEF OtherPages, UI
<1> QED
  BY <1>2, <1>3, <1>4, <1>6, <1>7 DEF Creates, NextPanes, v, w

LEMMA ExtendsDoes ==
  ASSUME Types, Ids, NEW g \in PageIds, g = ui.current, NEW u \in UI, NEW old,
         u.current = g, SameIds(u, ui), u.pages = ui.pages, OtherPages(u, g), Dropped(u, g, old, {}),
         Distinct(u.page[g].panes), NEW new, NextPanes(new)
  PROVE  LET v == Refresh(AddPanes(u, new)) IN
         /\ Extends(v, g, ToSet(new), old)
         /\ v.nextPane = ui.nextPane + Len(new) /\ v.selFocus = u.selFocus /\ v.running = u.running
<1> DEFINE w == AddPanes(u, new)
           v == Refresh(w)
           pg == [panes |-> u.page[g].panes \o new, leaves |-> u.page[g].leaves \cup ToSet(new), focus |-> Last(new)]
<1>1. new \in Seq(PaneIds) /\ new # <<>> /\ u.nextPane = ui.nextPane /\ u.nextPane + Len(new) <= MaxPanes + 1
  BY DEF NextPanes, SameIds
<1>2. Here(u) = u.page[g]
  BY DEF Here
<1>3. /\ w \in UI /\ w.nextPage = u.nextPage /\ w.nextPane = ui.nextPane + Len(new)
      /\ w.pages = u.pages /\ w.current = g
      /\ w.page = [u.page EXCEPT ![g] = pg] /\ w.selFocus = u.selFocus /\ w.running = u.running
  BY <1>1, <1>2, AddPanesDoes
<1> HIDE DEF w
<1>4. /\ v \in UI /\ Refreshed(v) /\ SameIds(v, w)
      /\ v.pages = w.pages /\ v.page = w.page /\ v.current = w.current
      /\ v.selFocus = w.selFocus /\ v.running = w.running
  BY <1>3, RefreshDoes
<1> HIDE DEF v
<1>5. v.nextPane = ui.nextPane + Len(new) /\ NewIds(v, ToSet(new)) /\ v.nextPage = ui.nextPage
  BY <1>3, <1>4, NextPanesDoes DEF NewIds, SameIds
<1>6. v.page[g] = pg /\ OtherPages(v, g)
  BY <1>3, <1>4 DEF OtherPages, UI
<1>7. ToSet(u.page[g].panes) = Panes(g) \ old
  BY DEF Dropped
<1>8. \A x \in PaneIds : x \in Panes(g) => x < ui.nextPane
  <2>1. g \in Made
    BY MuxManagerAssumption DEF Ids, PageIds, Nil
  <2> QED
    BY <2>1 DEF Ids, Uses
<1>9. ToSet(u.page[g].panes) \cap ToSet(new) = {}
  BY <1>7, <1>8, NextPanesDoes DEF Types, UI, PaneIds
<1>10. /\ ToSet(pg.panes) = (Panes(g) \ old) \cup ToSet(new) /\ Distinct(pg.panes)
  <2> DEFINE s == u.page[g].panes
  <2>1. s \in Seq(PaneIds) /\ Distinct(s) /\ Distinct(new)
    BY DEF UI, Page, NextPanes
  <2>2. ToSet(s \o new) = ToSet(s) \cup ToSet(new) /\ Distinct(s \o new)
    BY <1>1, <1>9, <2>1, ConcatDoes
  <2> QED
    BY <1>7, <2>2
<1>11. Dropped(v, g, old, ToSet(new))
  BY <1>6, <1>10 DEF Dropped
<1> QED
  BY <1>3, <1>4, <1>5, <1>6, <1>10, <1>11 DEF Extends, NextPanes, SameIds, v, w

LEMMA CapturedIs ==
  ASSUME Types, NEW s \in PaneIds \cup {Initial}
  PROVE  /\ Mode(s) \in {"none", "initial", "page", "pane"}
         /\ Mode(s) = "page" => selector[s].page \in PageIds /\ selector[s].prev \in PageIds
         /\ Mode(s) = "pane" => selector[s].prev \in PaneIds
<1>1. selector[s] \in Captured
  BY DEF Types
<1> QED
  BY <1>1 DEF Captured, Mode

LEMMA NamesDiffer ==
  /\ Nil \notin PaneIds /\ Nil \notin PageIds /\ Initial \notin PaneIds /\ List \notin PaneIds
  /\ Initial # Nil /\ List # Nil /\ Initial # List
  BY MuxManagerAssumption DEF Nil, PaneIds, PageIds, Initial, List

LEMMA OneNextPane ==
  ASSUME Types, ui.nextPane < MaxPanes
  PROVE  NextPanes(<<ui.nextPane>>) /\ ToSet(<<ui.nextPane>>) = {ui.nextPane} /\ ui.nextPane \in PaneIds
<1> DEFINE s == ui.nextPane
           new == <<s>>
<1>1. s \in Nat \ {0} /\ MaxPanes \in Nat /\ s \in PaneIds
  BY MuxManagerAssumption DEF Types, UI, PaneIds
<1>2. new \in Seq(PaneIds) /\ Len(new) = 1 /\ DOMAIN new = {1} /\ new[1] = s /\ new # <<>>
  BY <1>1
<1> HIDE DEF s, new
<1>3. ToSet(new) = {s} /\ Distinct(new) /\ Last(new) = s
  BY <1>2 DEF ToSet, Distinct, Last
<1>4. s..(s + 1 - 1) = {s}
  BY <1>1
<1>5. s + 1 <= MaxPanes + 1
  BY <1>1 DEF s
<1> QED
  BY <1>1, <1>2, <1>3, <1>4, <1>5 DEF NextPanes, s, new

LEMMA OpensDoes ==
  ASSUME Types, Ids, OpenOnNewPage \/ (OpenBeside /\ Splits(ui))
  PROVE  \E s \in PaneIds, g \in PageIds : Opens(s, g)
<1> SUFFICES ASSUME NEW s, s = ui.nextPane
             PROVE  \E t \in PaneIds, g \in PageIds : Opens(t, g)
  OBVIOUS
<1> DEFINE new == <<s>>
<1>1. /\ Command /\ ui.current # Nil /\ ui.running /\ UNCHANGED <<orphaned, home>> /\ Flags'
      /\ overlapped' = (overlapped \/ Selectors # {}) /\ s < MaxPanes
      /\ pane' = [pane EXCEPT ![s] = "selector"]
  BY DEF OpenOnNewPage, OpenBeside, LayoutCommand, Command, Keep, Types, Flags
<1>2. NextPanes(new) /\ ToSet(new) = {s} /\ s \in PaneIds /\ Len(new) = 1
  BY <1>1, OneNextPane
<1>3. ui \in UI /\ SameIds(ui, ui) /\ Distinct(ui.pages) /\ ui.current \in PageIds
  BY <1>1 DEF Types, SameIds, Ids, UI
<1> HIDE DEF new
<1>4. CASE OpenOnNewPage
  <2> SUFFICES ASSUME NEW g, g = ui.nextPage
               PROVE  \E t \in PaneIds, h \in PageIds : Opens(t, h)
    OBVIOUS
  <2> DEFINE v == Refresh(CreatePage(ui, new))
             c == [mode |-> "page", page |-> g, prev |-> ui.current]
  <2>1. ui' = [v EXCEPT !.selFocus = s, !.appFocus = s] /\ selector' = [selector EXCEPT ![s] = c]
    BY <1>4 DEF OpenOnNewPage, new
  <2>2. g \in PageIds
    BY <1>3, <1>4, MuxManagerAssumption DEF OpenOnNewPage, UI, PageIds
  <2>3. Creates(v, g, {s}, {}) /\ v.nextPane = s + 1 /\ v.running
    <3>1. \A d : d = {} => Creates(v, g, ToSet(new), d) /\ v.nextPane = ui.nextPane + Len(new) /\ v.running = ui.running
      <4> SUFFICES ASSUME NEW d, d = {}
                   PROVE  Creates(v, g, ToSet(new), d) /\ v.nextPane = ui.nextPane + Len(new) /\ v.running = ui.running
        OBVIOUS
      <4>1. \A h : h \in ToSet(ui.pages) <=> Listed(h) /\ h \notin d
        BY DEF Listed
      <4> QED
        BY <1>2, <1>3, <2>2, <4>1, CreatesDoes
    <3> QED
      BY <1>1, <1>2, <3>1
  <2> HIDE DEF v
  <2>4. v \in UI /\ v.appFocus = s
    BY <2>2, <2>3, NamesDiffer, <1>2 DEF Creates, Refreshed, Here
  <2>5. /\ ui' \in UI /\ ui'.selFocus = s /\ ui'.appFocus = v.appFocus /\ ui'.pages = v.pages /\ ui'.page = v.page
        /\ ui'.current = v.current /\ ui'.nextPage = v.nextPage /\ ui'.nextPane = v.nextPane
        /\ ui'.shown = v.shown /\ ui'.listed = v.listed /\ ui'.running = v.running
    BY <1>2, <2>1, <2>4 DEF UI
  <2>6. Creates(ui', g, {s}, {})
    BY <2>3, <2>5 DEF Creates, Refreshed, NewIds, OtherPages, Here
  <2>7. c \in Captured /\ c.mode = "page" /\ c.page = g /\ c.prev = ui.current
    BY <1>3, <2>2 DEF Captured
  <2> HIDE DEF c
  <2>8. /\ selector' \in [PaneIds \cup {Initial} -> Captured]
        /\ \A t \in PaneIds \cup {Initial} : t # s => selector'[t] = selector[t]
        /\ selector'[s] = c
    BY <1>2, <2>1, <2>7 DEF Types
  <2>9. Opens(s, g)
    BY <1>1, <2>3, <2>5, <2>6, <2>7, <2>8 DEF Opens, Mode
  <2> QED
    BY <1>2, <2>2, <2>9
<1>5. CASE OpenBeside /\ Splits(ui)
  <2> SUFFICES ASSUME NEW g, g = ui.current
               PROVE  \E t \in PaneIds, h \in PageIds : Opens(t, h)
    OBVIOUS
  <2> DEFINE v == Refresh(AddPanes(ui, new))
             c == [mode |-> "pane", prev |-> Here(ui).focus]
  <2>1. ui' = [v EXCEPT !.selFocus = s, !.appFocus = s] /\ selector' = [selector EXCEPT ![s] = c]
    BY <1>5 DEF OpenBeside, new
  <2>2. g \in Made /\ Distinct(ui.page[g].panes) /\ ui.page[g].focus \in PaneIds /\ Here(ui) = ui.page[g]
    BY <1>1, <1>3 DEF Ids, Here, UI, Page
  <2>3. OtherPages(ui, g) /\ Dropped(ui, g, {}, {})
    BY DEF OtherPages, Dropped, Panes, LeavesOf
  <2>4. Extends(v, g, {s}, {}) /\ v.nextPane = s + 1 /\ v.running
    BY <1>1, <1>2, <1>3, <2>2, <2>3, ExtendsDoes
  <2> HIDE DEF v
  <2>5. v \in UI /\ v.appFocus = s
    BY <1>3, <2>4, NamesDiffer, <1>2 DEF Extends, Refreshed, Here
  <2>6. /\ ui' \in UI /\ ui'.selFocus = s /\ ui'.appFocus = v.appFocus /\ ui'.pages = v.pages /\ ui'.page = v.page
        /\ ui'.current = v.current /\ ui'.nextPage = v.nextPage /\ ui'.nextPane = v.nextPane
        /\ ui'.shown = v.shown /\ ui'.listed = v.listed /\ ui'.running = v.running
    BY <1>2, <2>1, <2>5 DEF UI
  <2>7. Extends(ui', g, {s}, {})
    BY <2>4, <2>6 DEF Extends, Refreshed, NewIds, OtherPages, Dropped, Here
  <2>8. c \in Captured /\ c.mode = "pane" /\ c.prev = ui.page[g].focus
    BY <2>2 DEF Captured
  <2> HIDE DEF c
  <2>9. /\ selector' \in [PaneIds \cup {Initial} -> Captured]
        /\ \A t \in PaneIds \cup {Initial} : t # s => selector'[t] = selector[t]
        /\ selector'[s] = c
    BY <1>2, <2>1, <2>8 DEF Types
  <2>10. Opens(s, g)
    BY <1>1, <2>4, <2>6, <2>7, <2>8, <2>9 DEF Opens, Mode
  <2> QED
    BY <1>2, <1>3, <2>10
<1> QED
  BY <1>4, <1>5

LEMMA CloseDoes ==
  ASSUME Types, Ids, NEW s \in PaneIds \cup {Initial}, Entered(s),
         Mode(s) = "pane" => ui.current \in PageIds
  PROVE  LET u == CloseSelector(s) IN
         /\ u \in UI /\ SameIds(u, ui) /\ SameView(u, ui) /\ u.selFocus = Nil /\ u.running /\ Distinct(u.pages)
         /\ Mode(s) = "page" => /\ u.page = ui.page /\ u.current = selector[s].prev
                                /\ \A h : h \in ToSet(u.pages) <=> Listed(h) /\ h \notin {selector[s].page}
         /\ Mode(s) = "initial" => u.page = ui.page /\ u.current = ui.current /\ u.pages = ui.pages
         /\ Mode(s) = "pane" =>
              /\ u.current = ui.current /\ u.pages = ui.pages /\ OtherPages(u, ui.current)
              /\ Dropped(u, ui.current, {s}, {}) /\ Distinct(u.page[ui.current].panes)
              /\ u.page[ui.current].focus = selector[s].prev
<1> DEFINE w == [ui EXCEPT !.selFocus = Nil]
           u == CloseSelector(s)
<1>1. /\ w \in UI /\ SameIds(w, ui) /\ SameView(w, ui) /\ w.selFocus = Nil /\ w.running
      /\ w.page = ui.page /\ w.pages = ui.pages /\ w.current = ui.current
  BY DEF Entered, Types, UI, SameIds, SameView
<1>2. ui \in UI /\ Distinct(ui.pages)
  BY DEF Types, Ids
<1>3. u = CASE Mode(s) = "page" -> RemovePage(w, selector[s].page, selector[s].prev)
            [] Mode(s) = "pane" -> RemoveTransient(w, s, selector[s].prev)
            [] Mode(s) = "initial" -> w
  BY DEF CloseSelector, Mode
<1>4. Mode(s) \in {"page", "pane", "initial"}
  BY CapturedIs DEF Entered, Mode
<1> HIDE DEF w, u
<1>5. CASE Mode(s) = "page"
  <2> DEFINE c == selector[s]
             v == RemovePage(w, c.page, c.prev)
  <2>1. c.page \in PageIds /\ c.prev \in PageIds /\ u = v
    BY <1>3, <1>5, CapturedIs
  <2>2. /\ v \in UI /\ v.pages = Without(w.pages, c.page) /\ v.current = c.prev
        /\ SameIds(v, w) /\ SameView(v, w) /\ v.page = w.page
        /\ v.selFocus = w.selFocus /\ v.running = w.running
    BY <1>1, <2>1, RemovePageDoes
  <2>3. ui.pages \in Seq(PageIds)
    BY <1>2 DEF UI
  <2> HIDE DEF v
  <2>4. Distinct(v.pages) /\ \A h : h \in ToSet(v.pages) <=> h \in ToSet(ui.pages) /\ h \notin {c.page}
    <3> DEFINE t == Without(ui.pages, c.page)
    <3>1. ToSet(ui.pages) \ {c.page} \subseteq ToSet(t) /\ ToSet(t) \subseteq ToSet(ui.pages)
          /\ Distinct(t) /\ c.page \notin ToSet(t)
      BY <1>2, <2>3, WithoutDoes
    <3>2. v.pages = t
      BY <1>1, <2>2
    <3> QED
      BY <3>1, <3>2
  <2> QED
    BY <1>1, <1>5, <2>1, <2>2, <2>4 DEF SameIds, SameView, Listed, u
<1>6. CASE Mode(s) = "pane"
  <2> DEFINE f == selector[s].prev
             g == ui.current
             v == RemoveTransient(w, s, f)
  <2>1. f \in PaneIds /\ s \in PaneIds /\ u = v /\ g \in PageIds
    BY <1>3, <1>6, CapturedIs DEF Ids
  <2>2. /\ v \in UI /\ v.pages = w.pages /\ v.current = w.current
        /\ v.page = [w.page EXCEPT ![w.current] =
              [panes |-> Without(Here(w).panes, s), leaves |-> RemoveLeaf(Here(w).leaves, s), focus |-> f]]
        /\ SameIds(v, w) /\ SameView(v, w) /\ v.selFocus = w.selFocus /\ v.running = w.running
    BY <1>1, <2>1, RemoveTransientDoes
  <2>3. Here(w) = ui.page[g]
    BY <1>1 DEF Here
  <2> HIDE DEF v
  <2>4. /\ v.page[g] = [panes |-> Without(ui.page[g].panes, s), leaves |-> RemoveLeaf(ui.page[g].leaves, s), focus |-> f]
        /\ OtherPages(v, g)
    BY <1>1, <2>1, <2>2, <2>3 DEF OtherPages, UI
  <2>5. ui.page[g].panes \in Seq(PaneIds) /\ Distinct(ui.page[g].panes)
    <3>1. g \in Made
      BY <2>1, NamesDiffer DEF Ids
    <3> QED
      BY <1>2, <2>1, <3>1 DEF Ids, UI, Page
  <2>6. /\ ToSet(ui.page[g].panes) \ {s} \subseteq ToSet(v.page[g].panes)
        /\ ToSet(v.page[g].panes) \subseteq ToSet(ui.page[g].panes)
        /\ Distinct(v.page[g].panes) /\ s \notin ToSet(v.page[g].panes)
    <3> DEFINE t == Without(ui.page[g].panes, s)
    <3>1. /\ ToSet(ui.page[g].panes) \ {s} \subseteq ToSet(t) /\ ToSet(t) \subseteq ToSet(ui.page[g].panes)
          /\ Distinct(t) /\ s \notin ToSet(t)
      BY <2>5, WithoutDoes
    <3>2. v.page[g].panes = t
      BY <2>4
    <3> QED
      BY <3>1, <3>2
  <2>7. \A x \in PaneIds : x \in v.page[g].leaves <=> x \in ui.page[g].leaves /\ x # s
    BY <2>4, RemoveLeafDoes, NamesDiffer
  <2>8. Dropped(v, g, {s}, {})
    BY <2>6, <2>7 DEF Dropped, Panes, LeavesOf
  <2>9. v.page[g].focus = f
    BY <2>4
  <2> QED
    BY <1>1, <1>2, <1>6, <2>1, <2>2, <2>4, <2>6, <2>8, <2>9 DEF SameIds, SameView, u
<1>7. CASE Mode(s) = "initial"
  BY <1>1, <1>2, <1>3, <1>7 DEF u
<1> QED
  BY <1>4, <1>5, <1>6, <1>7 DEF u

LEMMA CancelCloses ==
  ASSUME Types, Ids, NEW s \in PaneIds \cup {Initial}, Cancel(s), Mode(s) = "pane" => ui.current \in PageIds
  PROVE  \E g \in PageIds, new \in SUBSET PaneIds : Closes(s, g, new)
<1> DEFINE u == CloseSelector(s)
<1>1. /\ Entered(s) /\ ui' = (IF NothingLeft(u) THEN Stop(u) ELSE Refresh(u))
      /\ pane' = Gone(s) /\ UNCHANGED <<selector, overlapped, orphaned, home>> /\ Flags'
  BY DEF Cancel, Keep, KeepPrefix, Types, Flags
<1>2. /\ u \in UI /\ SameIds(u, ui) /\ SameView(u, ui) /\ u.selFocus = Nil /\ u.running /\ Distinct(u.pages)
      /\ Mode(s) = "page" => /\ u.page = ui.page /\ u.current = selector[s].prev
                             /\ \A h : h \in ToSet(u.pages) <=> Listed(h) /\ h \notin {selector[s].page}
      /\ Mode(s) = "initial" => u.page = ui.page /\ u.current = ui.current /\ u.pages = ui.pages
      /\ Mode(s) = "pane" =>
           /\ u.current = ui.current /\ u.pages = ui.pages /\ OtherPages(u, ui.current)
           /\ Dropped(u, ui.current, {s}, {}) /\ Distinct(u.page[ui.current].panes)
           /\ u.page[ui.current].focus = selector[s].prev
  BY <1>1, CloseDoes
<1> HIDE DEF u
<1>3. /\ ui' \in UI /\ SameIds(ui', u) /\ ui'.pages = u.pages /\ ui'.page = u.page /\ ui'.current = u.current
      /\ ui'.selFocus = u.selFocus /\ (ui'.running => Refreshed(ui') /\ u.current # Nil /\ u.page[u.current].panes # <<>>)
      /\ ui'.running \/ NothingLeft(ui')
  <2>1. CASE NothingLeft(u)
    <3>1. ui' = [u EXCEPT !.running = FALSE]
      BY <1>1, <2>1 DEF Stop
    <3> QED
      BY <1>2, <2>1, <3>1 DEF UI, SameIds, NothingLeft, Here
  <2>2. CASE ~NothingLeft(u)
    <3>1. ui' = Refresh(u)
      BY <1>1, <2>2
    <3>2. /\ ui' \in UI /\ Refreshed(ui') /\ SameIds(ui', u)
          /\ ui'.pages = u.pages /\ ui'.page = u.page /\ ui'.current = u.current
          /\ ui'.selFocus = u.selFocus /\ ui'.running = u.running
      BY <1>2, <3>1, RefreshDoes
    <3> QED
      BY <1>2, <2>2, <3>2 DEF NothingLeft, Here
  <2> QED
    BY <2>1, <2>2
<1>4. /\ pane' \in [PaneIds -> Statuses] /\ home' \in [PaneIds -> PageIds \cup {Nil}]
      /\ \A p \in PaneIds : /\ pane'[p] = IF p \in {} THEN "connecting" ELSE IF p = s THEN "gone" ELSE pane[p]
                            /\ \A g : home'[p] = IF p \in {} THEN g ELSE home[p]
  BY <1>1 DEF Gone, Types, Statuses
<1>5. Mode(s) \in {"page", "pane", "initial"}
  BY <1>1, CapturedIs DEF Entered, Mode
<1>6. ASSUME NEW g \in PageIds,
             \/ Mode(s) = "pane" /\ Shrinks(ui', g, s)
             \/ Mode(s) = "page" /\ Goes(ui', g, {selector[s].page}) /\ g = selector[s].prev
             \/ Mode(s) = "initial" /\ Goes(ui', ui.current, {})
      PROVE  Closes(s, g, {})
  BY <1>1, <1>2, <1>3, <1>4, <1>6 DEF Closes
<1>7. CASE Mode(s) = "page"
  <2>1. selector[s].prev \in PageIds
    BY <1>7, CapturedIs
  <2>2. Goes(ui', selector[s].prev, {selector[s].page})
    BY <1>2, <1>3, <1>7 DEF Goes, SameIds
  <2> QED
    BY <1>6, <1>7, <2>1, <2>2
<1>8. CASE Mode(s) = "initial"
  <2>1. Goes(ui', ui.current, {})
    BY <1>2, <1>3, <1>8 DEF Goes, SameIds, Listed
  <2>2. 1 \in PageIds
    BY MuxManagerAssumption DEF PageIds
  <2> QED
    BY <1>6, <1>8, <2>1, <2>2
<1>9. CASE Mode(s) = "pane"
  <2>1. ui.current \in PageIds /\ ui.nextPane \in Nat
    BY <1>9 DEF Types, UI
  <2>2. Shrinks(ui', ui.current, s)
    BY <1>2, <1>3, <1>9, <2>1 DEF Shrinks, SameIds, OtherPages, Dropped
  <2> QED
    BY <1>6, <1>9, <2>1, <2>2
<1> QED
  BY <1>5, <1>7, <1>8, <1>9

LEMMA PickCloses ==
  ASSUME Types, Ids, NEW s \in PaneIds \cup {Initial}, NEW n \in 1..2, Pick(s, n),
         Mode(s) = "pane" => ui.current \in PageIds
  PROVE  \E g \in PageIds, new \in SUBSET PaneIds : Closes(s, g, new)
<1> DEFINE u == CloseSelector(s)
           news == NewPanes(u, n)
<1>1. /\ Entered(s) /\ UNCHANGED <<selector, overlapped, orphaned>> /\ Flags' /\ ui.nextPane + n <= MaxPanes + 1
  BY DEF Pick, Types, Flags
<1>2. /\ u \in UI /\ SameIds(u, ui) /\ SameView(u, ui) /\ u.selFocus = Nil /\ u.running /\ Distinct(u.pages)
      /\ Mode(s) = "page" => /\ u.page = ui.page /\ u.current = selector[s].prev
                             /\ \A h : h \in ToSet(u.pages) <=> Listed(h) /\ h \notin {selector[s].page}
      /\ Mode(s) = "initial" => u.page = ui.page /\ u.current = ui.current /\ u.pages = ui.pages
      /\ Mode(s) = "pane" =>
           /\ u.current = ui.current /\ u.pages = ui.pages /\ OtherPages(u, ui.current)
           /\ Dropped(u, ui.current, {s}, {}) /\ Distinct(u.page[ui.current].panes)
           /\ u.page[ui.current].focus = selector[s].prev
  BY <1>1, CloseDoes
<1>3. Mode(s) \in {"page", "pane", "initial"}
  BY <1>1, CapturedIs DEF Entered, Mode
<1>4. \/ /\ Mode(s) # "pane" /\ ui.nextPage \in PageIds
         /\ ui' = Refresh(CreatePage(u, news))
         /\ pane' = [p \in PaneIds |-> IF p \in ToSet(news) THEN "connecting" ELSE Gone(s)[p]]
         /\ home' = [p \in PaneIds |-> IF p \in ToSet(news) THEN ui.nextPage ELSE home[p]]
      \/ /\ Mode(s) = "pane"
         /\ ui' = Refresh(AddPanes(u, news))
         /\ pane' = [p \in PaneIds |-> IF p \in ToSet(news) THEN "connecting" ELSE Gone(s)[p]]
         /\ home' = [p \in PaneIds |-> IF p \in ToSet(news) THEN ui.current ELSE home[p]]
      \/ /\ Mode(s) = "pane" /\ ui' = [u EXCEPT !.nextPane = @ + n] /\ pane' = Gone(s) /\ UNCHANGED home
  <2>1. u.nextPage <= MaxPages => ui.nextPage \in PageIds
    BY <1>2, MuxManagerAssumption DEF Types, UI, SameIds, PageIds
  <2>2. CASE Mode(s) # "pane"
    <3>1. u.nextPage <= MaxPages /\ ui' = Refresh(CreatePage(u, news))
          /\ pane' = [p \in PaneIds |-> IF p \in ToSet(news) THEN "connecting" ELSE Gone(s)[p]]
          /\ home' = [p \in PaneIds |-> IF p \in ToSet(news) THEN u.nextPage ELSE home[p]]
      BY <2>2, Zenon DEF Pick, Mode
    <3> QED
      BY <1>2, <2>1, <2>2, <3>1 DEF SameIds
  <2>3. CASE Mode(s) = "pane"
    <3>1. \/ /\ ui' = Refresh(AddPanes(u, news))
             /\ pane' = [p \in PaneIds |-> IF p \in ToSet(news) THEN "connecting" ELSE Gone(s)[p]]
             /\ home' = [p \in PaneIds |-> IF p \in ToSet(news) THEN u.current ELSE home[p]]
          \/ ui' = [u EXCEPT !.nextPane = @ + n] /\ pane' = Gone(s) /\ UNCHANGED home
      BY <2>3, Zenon DEF Pick, Mode
    <3> QED
      BY <1>2, <2>3, <3>1
  <2> QED
    BY <2>2, <2>3
<1> HIDE DEF u
<1>5. NextPanes(news) /\ Len(news) = n /\ ToSet(news) \subseteq PaneIds
  <2>1. u.nextPane = ui.nextPane
    BY <1>2 DEF SameIds
  <2>2. /\ news \in Seq(PaneIds) /\ news # <<>> /\ Len(news) = n /\ Distinct(news)
        /\ ToSet(news) = u.nextPane..(u.nextPane + n - 1)
        /\ news[1] \in ToSet(news) /\ Last(news) \in ToSet(news)
    BY <1>1, <1>2, <2>1, NewPanesDoes
  <2> HIDE DEF news
  <2> QED
    BY <1>1, <2>1, <2>2, ToSetOf DEF NextPanes
<1> HIDE DEF news
<1>6. ASSUME NEW g \in PageIds, NEW new \in SUBSET PaneIds,
             pane' = [p \in PaneIds |-> IF p \in new THEN "connecting" ELSE Gone(s)[p]],
             home' = [p \in PaneIds |-> IF p \in new THEN g ELSE home[p]],
             ui'.selFocus = Nil, ui'.running,
             \/ /\ Mode(s) \in {"page", "initial"}
                /\ Creates(ui', g, new, IF Mode(s) = "page" THEN {selector[s].page} ELSE {})
             \/ Mode(s) = "pane" /\ Extends(ui', g, new, {s})
             \/ Mode(s) = "pane" /\ Shrinks(ui', g, s) /\ new = {}
      PROVE  Closes(s, g, new)
  <2>1. /\ pane' \in [PaneIds -> Statuses] /\ home' \in [PaneIds -> PageIds \cup {Nil}]
        /\ \A p \in PaneIds :
             /\ pane'[p] = IF p \in new THEN "connecting" ELSE IF p = s THEN "gone" ELSE pane[p]
             /\ home'[p] = IF p \in new THEN g ELSE home[p]
    BY <1>6 DEF Gone, Types, Statuses
  <2> QED
    BY <1>1, <1>6, <2>1 DEF Closes
<1>7. CASE Mode(s) = "pane" /\ ui' = [u EXCEPT !.nextPane = @ + n] /\ pane' = Gone(s) /\ UNCHANGED home
  <2>1. ui.current \in PageIds /\ ui.nextPane \in Nat /\ MaxPanes \in Nat
    BY <1>7, MuxManagerAssumption DEF Types, UI
  <2>2. u.nextPane + n \in 1..(MaxPanes + 1) /\ u.nextPane = ui.nextPane
    BY <1>1, <1>2, <2>1 DEF SameIds, UI
  <2>3. /\ ui' \in UI /\ ui'.nextPane = ui.nextPane + n /\ ui'.nextPage = u.nextPage /\ ui'.pages = u.pages
        /\ ui'.page = u.page /\ ui'.current = u.current /\ ui'.selFocus = u.selFocus /\ ui'.running = u.running
        /\ SameView(ui', u)
    BY <1>2, <1>7, <2>2 DEF UI, SameView
  <2>4. Shrinks(ui', ui.current, s)
    BY <1>2, <1>7, <2>1, <2>3 DEF Shrinks, SameIds, OtherPages, Dropped, SameView
  <2>5. pane' = [p \in PaneIds |-> IF p \in {} THEN "connecting" ELSE Gone(s)[p]]
    BY <1>7 DEF Gone
  <2>6. \A g : home' = [p \in PaneIds |-> IF p \in {} THEN g ELSE home[p]]
    BY <1>7 DEF Types
  <2>7. Closes(s, ui.current, {})
    BY <1>2, <1>6, <1>7, <2>1, <2>3, <2>4, <2>5, <2>6
  <2> QED
    BY <2>1, <2>7
<1>8. CASE /\ Mode(s) # "pane" /\ ui.nextPage \in PageIds /\ ui' = Refresh(CreatePage(u, news))
           /\ pane' = [p \in PaneIds |-> IF p \in ToSet(news) THEN "connecting" ELSE Gone(s)[p]]
           /\ home' = [p \in PaneIds |-> IF p \in ToSet(news) THEN ui.nextPage ELSE home[p]]
  <2> DEFINE d == IF Mode(s) = "page" THEN {selector[s].page} ELSE {}
  <2>1. u.page = ui.page /\ \A h : h \in ToSet(u.pages) <=> Listed(h) /\ h \notin d
    BY <1>2, <1>3, <1>8 DEF Listed
  <2> HIDE DEF d
  <2>2. /\ Creates(ui', ui.nextPage, ToSet(news), d) /\ ui'.selFocus = u.selFocus /\ ui'.running = u.running
    BY <1>2, <1>5, <1>8, <2>1, CreatesDoes
  <2>3. Closes(s, ui.nextPage, ToSet(news))
    <3> SUFFICES ASSUME NEW g \in PageIds, g = ui.nextPage
                 PROVE  Closes(s, g, ToSet(news))
      BY <1>8
    <3> QED
      BY <1>2, <1>3, <1>5, <1>6, <1>8, <2>2 DEF d
  <2> QED
    BY <1>5, <1>8, <2>3
<1>9. CASE /\ Mode(s) = "pane" /\ ui' = Refresh(AddPanes(u, news))
           /\ pane' = [p \in PaneIds |-> IF p \in ToSet(news) THEN "connecting" ELSE Gone(s)[p]]
           /\ home' = [p \in PaneIds |-> IF p \in ToSet(news) THEN ui.current ELSE home[p]]
  <2>1. ui.current \in PageIds
    BY <1>9
  <2>2. /\ Extends(ui', ui.current, ToSet(news), {s}) /\ ui'.selFocus = u.selFocus /\ ui'.running = u.running
    BY <1>2, <1>5, <1>9, <2>1, ExtendsDoes
  <2>3. Closes(s, ui.current, ToSet(news))
    <3> SUFFICES ASSUME NEW g \in PageIds, g = ui.current
                 PROVE  Closes(s, g, ToSet(news))
      BY <2>1
    <3> QED
      BY <1>2, <1>5, <1>6, <1>9, <2>2
  <2> QED
    BY <1>5, <2>1, <2>3
<1> QED
  BY <1>3, <1>4, <1>7, <1>8, <1>9

LEMMA RemovesDoes ==
  ASSUME Types, Ids, NEW p \in PaneIds, p \in Sessions, NEW g \in PageIds, ui.running,
         g = home[p] \/ (g = ui.current /\ p = ui.page[g].focus), g \in Made,
         ui' = RemovePane(ui, g, p), pane' = Gone(p), orphaned' = (orphaned \/ Selectors # {}),
         UNCHANGED <<home, selector, overlapped>>, Flags'
  PROVE  Removes(p, g)
<1>1. ui \in UI /\ pane' = [pane EXCEPT ![p] = "gone"] /\ SameIds(ui, ui)
  BY DEF Types, Gone, SameIds
<1>2. CASE p \notin Panes(g)
  <2>1. ui' = ui
    BY <1>2, Zenon DEF RemovePane, Panes
  <2> QED
    BY <1>1, <1>2, <2>1 DEF Removes
<1>3. CASE p \in Panes(g)
  <2> DEFINE t == Without(ui.page[g].panes, p)
  <2>1. /\ ui' \in UI /\ SameIds(ui', ui) /\ ui'.selFocus = ui.selFocus
        /\ \A h \in PageIds \ {g} : ui'.page[h] = ui.page[h]
        /\ ui'.page[g].panes = t /\ ui'.page[g].leaves = RemoveLeaf(ui.page[g].leaves, p)
        /\ ui'.page[g].focus = ui.page[g].focus \/ ui'.page[g].focus \in ToSet(t)
        /\ t # <<>> => /\ ui'.pages = ui.pages /\ ui'.current = ui.current /\ ui'.running = ui.running
                       /\ IF ui.current = g THEN Refreshed(ui') ELSE SameView(ui', ui)
        /\ t = <<>> => /\ ui'.pages = Without(ui.pages, g)
                       /\ ui'.pages = <<>> => ~ui'.running /\ ui'.current = Nil
                       /\ ui'.pages # <<>> => ui'.current = ui'.pages[1] /\ Refreshed(ui') /\ ui'.running = ui.running
    <3> DEFINE v == RemovePane(ui, g, p)
    <3>1. p \in ToSet(ui.page[g].panes) /\ ui \in UI
      BY <1>1, <1>3 DEF Panes
    <3>2. /\ v \in UI /\ SameIds(v, ui) /\ v.selFocus = ui.selFocus
          /\ \A h \in PageIds \ {g} : v.page[h] = ui.page[h]
          /\ v.page[g].panes = t /\ v.page[g].leaves = RemoveLeaf(ui.page[g].leaves, p)
          /\ v.page[g].focus = ui.page[g].focus \/ v.page[g].focus \in ToSet(t)
          /\ t # <<>> => /\ v.pages = ui.pages /\ v.current = ui.current /\ v.running = ui.running
                         /\ IF ui.current = g THEN Refreshed(v) ELSE SameView(v, ui)
          /\ t = <<>> => /\ v.pages = Without(ui.pages, g)
                         /\ v.pages = <<>> => ~v.running /\ v.current = Nil
                         /\ v.pages # <<>> => v.current = v.pages[1] /\ Refreshed(v) /\ v.running = ui.running
      BY <3>1, RemovePaneDoes
    <3> QED
      BY <3>2
  <2>2. ui.page[g].panes \in Seq(PaneIds) /\ Distinct(ui.page[g].panes) /\ ui.pages \in Seq(PageIds) /\ Distinct(ui.pages)
    BY <1>1 DEF Ids, UI, Page
  <2>3. t \in Seq(PaneIds) /\ Distinct(t) /\ ToSet(t) = Panes(g) \ {p}
    BY <2>2, WithoutDoes DEF Panes
  <2>4. /\ Distinct(Without(ui.pages, g)) /\ \A h : h \in ToSet(Without(ui.pages, g)) <=> h \in ToSet(ui.pages) /\ h # g
    <3> DEFINE v == Without(ui.pages, g)
    <3>1. /\ ToSet(ui.pages) \ {g} \subseteq ToSet(v) /\ ToSet(v) \subseteq ToSet(ui.pages)
          /\ Distinct(v) /\ g \notin ToSet(v)
      BY <2>2, WithoutDoes
    <3> HIDE DEF v
    <3>2. Distinct(v) /\ \A h : h \in ToSet(v) <=> h \in ToSet(ui.pages) /\ h # g
      BY <3>1
    <3> QED
      BY <3>2 DEF v
  <2>5. t = <<>> <=> Panes(g) = {p}
    <3>1. t = <<>> <=> ToSet(t) = {}
      BY <2>3, EmptyToSet
    <3> QED
      BY <1>3, <2>3, <3>1
  <2> HIDE DEF t
  <2>6. Dropped(ui', g, {p}, {}) /\ OtherPages(ui', g)
    BY <2>1, <2>3, RemoveLeafDoes, NamesDiffer DEF Dropped, OtherPages, LeavesOf
  <2>7. CASE t # <<>>
    <3>1. Panes(g) # {p} /\ (Refreshed(ui') \/ (g # ui.current /\ SameView(ui', ui)))
      BY <2>1, <2>5, <2>7
    <3> QED
      BY <1>1, <1>3, <2>1, <2>3, <2>6, <2>7, <3>1 DEF Removes
  <2>8. CASE t = <<>>
    <3>1. Panes(g) = {p} /\ ui'.pages = Without(ui.pages, g)
      BY <2>1, <2>5, <2>8
    <3>2. ui'.pages # <<>> => ui'.pages[1] \in ToSet(ui'.pages)
      BY <2>1 DEF UI, ToSet
    <3>3. IF ui'.running THEN ui'.current \in ToSet(ui'.pages) /\ Refreshed(ui') ELSE ui'.pages = <<>> /\ ui'.current = Nil
      BY <2>1, <2>8, <3>2
    <3>4. Distinct(ui'.pages) /\ \A h : h \in ToSet(ui'.pages) <=> Listed(h) /\ h # g
      BY <2>4, <3>1 DEF Listed
    <3> QED
      BY <1>1, <1>3, <2>1, <2>3, <2>6, <3>1, <3>3, <3>4 DEF Removes
  <2> QED
    BY <2>7, <2>8
<1> QED
  BY <1>2, <1>3

ListInv == ui.running => ui.listed \in {<<>>, ui.pages}
\* Before the first selection there is nothing but the first selector.
Nothing == ui.running /\ ui.current = Nil =>
  (\A p \in PaneIds : pane[p] = "new") /\ ui.pages = <<>> /\ ui.appFocus # List

LEMMA NextDoes ==
  ASSUME Types, Ids, ListInv, Nothing, [ManagerNext]_managerVars
  PROVE  \/ Looks
         \/ \E s \in PaneIds, g \in PageIds : Opens(s, g)
         \/ \E s \in PaneIds \cup {Initial}, g \in PageIds, new \in SUBSET PaneIds : Closes(s, g, new)
         \/ \E p \in PaneIds, g \in PageIds : Removes(p, g)
<1>1. Made \subseteq PageIds
  BY PagesMade
<1>2. CASE UNCHANGED managerVars
  BY <1>2 DEF managerVars, Unmoving, Looks, Attention, Types, Flags, SameStructure, SameFocus, StaySessions, SameView
<1>11. CASE Prefix \/ Unbound
  <2>1. Flags' /\ UNCHANGED <<ui, pane, home, selector, overlapped, orphaned>>
    BY <1>11 DEF Prefix, Unbound, Keep, Types, Flags
  <2> QED
    BY <2>1 DEF Unmoving, Looks, Attention, Types, SameStructure, SameFocus, StaySessions, SameView
<1>3. ui.current # Nil => ui.current \in PageIds /\ ui.current \in Made
  BY <1>1 DEF Ids
<1>4. ASSUME NEW s \in PaneIds \cup {Initial}, Entered(s), Mode(s) = "pane"
      PROVE  ui.current \in PageIds
  <2>1. ui.running /\ s \in PaneIds /\ pane[s] # "new"
    BY <1>4 DEF Entered, Ids
  <2> QED
    BY <1>3, <2>1 DEF Nothing
<1>5. ASSUME NEW s \in PaneIds \cup {Initial}, Cancel(s) \/ \E n \in 1..2 : Pick(s, n)
      PROVE  \E g \in PageIds, new \in SUBSET PaneIds : Closes(s, g, new)
  <2>1. Entered(s)
    BY <1>5 DEF Cancel, Pick
  <2> QED
    BY <1>4, <1>5, <2>1, CancelCloses, PickCloses
<1>6. ASSUME NEW p \in PaneIds, Exits(p), ~hold
      PROVE  \E g \in PageIds : Removes(p, g)
  <2>1. /\ ui.running /\ p \in Sessions /\ ui' = RemovePane(ui, home[p], p) /\ pane' = Gone(p)
        /\ orphaned' = (orphaned \/ Selectors # {}) /\ UNCHANGED <<home, selector, overlapped>> /\ Flags'
    BY <1>6 DEF Exits, Sessions, Keep, KeepPrefix, Types, Flags
  <2>2. home[p] \in Made /\ home[p] \in PageIds
    BY <1>1, <2>1 DEF Ids
  <2> QED
    BY <2>1, <2>2, RemovesDoes
<1>7. ASSUME ClosePane, NEW q \in PaneIds, pane'[q] = "gone", pane[q] # "gone"
      PROVE  \E p \in PaneIds, g \in PageIds : Removes(p, g)
  <2> DEFINE p == Here(ui).focus
  <2>1. ui.running /\ ui.current # Nil
    BY <1>7 DEF ClosePane, Command
  <2>2. CASE p \in PaneIds /\ pane[p] \in {"failed", "done"}
    <3>1. /\ p \in Sessions /\ ui' = RemovePane(ui, ui.current, p) /\ pane' = Gone(p)
          /\ orphaned' = (orphaned \/ Selectors # {}) /\ UNCHANGED <<home, selector, overlapped>> /\ Flags'
      BY <1>7, <2>2 DEF ClosePane, Command, Sessions, Keep, Types, Flags
    <3>2. p = ui.page[ui.current].focus
      BY DEF Here
    <3> SUFFICES ASSUME NEW r \in PaneIds, NEW g \in PageIds, r = p, g = ui.current
                 PROVE  Removes(r, g)
      BY <1>3, <2>1, <2>2
    <3> QED
      BY <1>3, <2>1, <3>1, <3>2, RemovesDoes
  <2>3. CASE ~(p \in PaneIds /\ pane[p] \in {"failed", "done"})
    BY <1>7, <2>3 DEF ClosePane, Types
  <2> QED
    BY <2>2, <2>3
<1>8. ASSUME LookStep, ui.current # Nil
      PROVE  Looks
  BY <1>1, <1>8, LookDoes
<1>9. ASSUME ui.current = Nil, PickPage \/ LeavePageList \/ \E p \in PaneIds : Click(p) \/ Connected(p) \/ ConnectFails(p) \/ Exits(p)
      PROVE  FALSE
  <2>1. ui.running /\ ui.listed = <<>>
    BY <1>9 DEF PickPage, LeavePageList, Click, Connected, ConnectFails, Exits, ListInv, Nothing
  <2> QED
    BY <1>9, <2>1 DEF Nothing, PickPage, LeavePageList, Click, Connected, ConnectFails, Exits
<1>10. CASE ManagerNext
  <2>1. CASE OpenOnNewPage \/ OpenBeside
    <3>1. ui.current # Nil
      BY <2>1 DEF OpenOnNewPage, OpenBeside, LayoutCommand, Command
    <3> QED
      BY <1>8, <2>1, <3>1, OpensDoes DEF LookStep
  <2>2. CASE SwitchPage \/ CyclePane \/ ShowPageList \/ ToggleBroadcast \/ Quit
    <3>1. ui.current # Nil
      BY <2>2 DEF SwitchPage, CyclePane, ShowPageList, ToggleBroadcast, Quit, Command
    <3> QED
      BY <1>8, <2>2, <3>1 DEF LookStep
  <2>3. CASE PickPage \/ LeavePageList
    BY <1>8, <1>9, <2>3 DEF LookStep
  <2>4. CASE ClosePane
    <3>1. ui.current # Nil
      BY <2>4 DEF ClosePane, Command
    <3> QED
      BY <1>7, <1>8, <2>4, <3>1 DEF LookStep
  <2>5. ASSUME NEW p \in PaneIds, Click(p) \/ Connected(p) \/ ConnectFails(p) \/ Exits(p)
        PROVE  Looks \/ \E g \in PageIds : Removes(p, g)
    <3>1. ui.current # Nil
      BY <1>9, <2>5
    <3>2. CASE Exits(p) /\ ~hold
      BY <1>6, <3>2
    <3>3. CASE ~(Exits(p) /\ ~hold)
      <4>1. Click(p) \/ Connected(p) \/ ConnectFails(p) \/ (Exits(p) /\ hold)
        BY <2>5, <3>3, Zenon
      <4>2. LookStep
        BY <4>1, Zenon DEF LookStep
      <4> QED
        BY <1>8, <3>1, <4>2
    <3> QED
      BY <3>2, <3>3
  <2>6. CASE Stopped
    BY <1>2, <2>6 DEF Stopped
  <2> QED
    BY <1>5, <1>10, <1>11, <2>1, <2>2, <2>3, <2>4, <2>5, <2>6 DEF ManagerNext
<1> QED
  BY <1>2, <1>10

Step ==
  \/ Looks
  \/ \E s \in PaneIds, g \in PageIds : Opens(s, g)
  \/ \E s \in PaneIds \cup {Initial}, g \in PageIds, new \in SUBSET PaneIds : Closes(s, g, new)
  \/ \E p \in PaneIds, g \in PageIds : Removes(p, g)

LEMMA TypesNext == Types /\ Step => Types'
<1> SUFFICES ASSUME Types, Step PROVE Types'
  OBVIOUS
<1>1. CASE Looks
  BY <1>1 DEF Looks, SameStructure, Types
<1>2. ASSUME NEW s \in PaneIds, NEW g \in PageIds, Opens(s, g)
      PROVE  Types'
  BY <1>2 DEF Opens, Creates, Extends, Types, Statuses
<1>3. ASSUME NEW s \in PaneIds \cup {Initial}, NEW g \in PageIds, NEW new \in SUBSET PaneIds, Closes(s, g, new)
      PROVE  Types'
  BY <1>3 DEF Closes, Creates, Extends, Shrinks, Goes, Types
<1>4. ASSUME NEW p \in PaneIds, NEW g \in PageIds, Removes(p, g)
      PROVE  Types'
  BY <1>4 DEF Removes, Types, Statuses
<1> QED
  BY <1>1, <1>2, <1>3, <1>4 DEF Step

(***************************************************************************)
(* Numbers.                                                                *)
(***************************************************************************)
PaneIdsInv == \A p \in PaneIds : /\ p >= ui.nextPane => pane[p] = "new" /\ Mode(p) = "none"
                                 /\ p \in Sessions => home[p] \in Made
SelectorIdsInv == \A s \in PaneIds :
  /\ Mode(s) # "none" => pane[s] \in {"selector", "gone"} /\ Mode(s) # "initial"
  /\ pane[s] = "selector" => Mode(s) # "none"
  /\ Mode(s) = "pane" => selector[s].prev < ui.nextPane
  /\ Mode(s) = "page" => /\ selector[s].page \in Made /\ selector[s].prev < selector[s].page
                         /\ \A t \in PaneIds : Mode(t) = "page" /\ selector[s].page = selector[t].page => s = t
UsesInv == \A g \in Made : /\ ui.page[g].focus # Nil /\ Distinct(ui.page[g].panes)
                           /\ \A x \in PaneIds : Uses(x, g) => x < ui.nextPane
PagesInv == ToSet(ui.pages) \subseteq Made /\ Distinct(ui.pages) /\ ui.current \in Made \cup {Nil}

\* What the other invariants take from the types.
LEMMA Numbers ==
  ASSUME Types
  PROVE  /\ ui.nextPage \in Nat \ {0} /\ ui.nextPane \in Nat \ {0}
         /\ PaneIds \subseteq Nat \ {0} /\ PageIds \subseteq Nat \ {0}
         /\ Made \subseteq PageIds /\ \A g \in PageIds : g \in Made <=> g < ui.nextPage
         /\ \A g \in PageIds : Panes(g) \subseteq PaneIds /\ ui.page[g].focus \in PaneIds \cup {Nil}
<1>1. ui \in UI /\ MaxPages \in Nat /\ MaxPanes \in Nat
  BY MuxManagerAssumption DEF Types
<1>2. ui.nextPage \in Nat \ {0} /\ ui.nextPane \in Nat \ {0} /\ PaneIds \subseteq Nat \ {0} /\ PageIds \subseteq Nat \ {0}
  BY <1>1 DEF UI, PaneIds, PageIds
<1>3. Made \subseteq PageIds /\ \A g \in PageIds : g \in Made <=> g < ui.nextPage
  BY <1>1, <1>2 DEF UI, Made, PageIds
<1>4. \A g \in PageIds : Panes(g) \subseteq PaneIds /\ ui.page[g].focus \in PaneIds \cup {Nil}
  BY <1>1, ToSetOf DEF UI, Page, Panes
<1> QED
  BY <1>2, <1>3, <1>4

LEMMA LookIds ==
  ASSUME Types, Types', Ids, Looks
  PROVE  Ids'
<1> USE DEF SameStructure
<1>1. /\ ui'.pages = ui.pages /\ ui'.nextPage = ui.nextPage /\ ui.nextPane <= ui'.nextPane
      /\ UNCHANGED <<home, selector>> /\ Made' = Made
  BY Numbers DEF Looks, Made
<1>2. PaneIdsInv'
  BY <1>1, Numbers DEF Looks, StaySessions, Ids, PaneIdsInv, Sessions, Mode
<1>3. SelectorIdsInv'
  BY <1>1, Numbers, CapturedIs DEF Looks, StaySessions, Ids, SelectorIdsInv, Sessions, Mode
<1>4. ASSUME NEW g \in Made
      PROVE  /\ ui'.page[g].focus # Nil /\ Distinct(ui'.page[g].panes)
             /\ \A x \in PaneIds : Uses(x, g)' => x < ui'.nextPane
  <2>1. /\ g \in PageIds /\ ui'.page[g].panes = ui.page[g].panes /\ ui'.page[g].leaves = ui.page[g].leaves
        /\ ui'.page[g].focus = ui.page[g].focus \/ ui'.page[g].focus \in Panes(g)
    BY Numbers DEF Looks
  <2>2. Panes(g)' = Panes(g) /\ LeavesOf(g)' = LeavesOf(g)
    BY <2>1 DEF Panes, LeavesOf
  <2>3. \A x \in PaneIds : Uses(x, g)' => Uses(x, g)
    BY <2>1, <2>2 DEF Uses
  <2>4. ui'.page[g].focus # Nil
    BY <2>1, Numbers, NamesDiffer DEF Ids
  <2>5. Distinct(ui'.page[g].panes)
    BY <2>1 DEF Ids
  <2>6. \A x \in PaneIds : Uses(x, g) => x < ui.nextPane
    BY DEF Ids
  <2>7. ui'.nextPane \in Nat
    BY MuxManagerAssumption DEF Types, UI
  <2> QED
    BY <1>1, <2>3, <2>4, <2>5, <2>6, <2>7, Numbers
<1>5. UsesInv'
  BY <1>1, <1>4 DEF UsesInv
<1>6. PagesInv'
  <2>1. ui'.current = ui.current \/ ui'.current \in ToSet(ui.pages)
    BY DEF Looks, Listed
  <2> QED
    BY <1>1, <2>1 DEF Ids, PagesInv
<1>7. Mode(Initial)' = Mode(Initial)
  BY <1>1 DEF Mode
<1> QED
  BY <1>2, <1>3, <1>5, <1>6, <1>7 DEF Ids, PaneIdsInv, SelectorIdsInv, UsesInv, PagesInv

\* The pages after a page has been made, or panes have been put on one or taken from it.
Makes(g, new) ==
  /\ g \in Made' /\ Made \subseteq Made' /\ Made' \subseteq Made \cup {g} /\ ui.nextPane <= ui'.nextPane
  /\ OtherPages(ui', g)
  /\ \A x \in PaneIds : Uses(x, g)' => x \in new \/ (g \in Made /\ Uses(x, g)) \/ x = ui'.page[g].focus
  /\ ui'.page[g].focus \in PaneIds /\ ui'.page[g].focus < ui'.nextPane
  /\ \A x \in new : x < ui'.nextPane
  /\ Distinct(ui'.page[g].panes)

LEMMA MakesIds ==
  ASSUME Types, Types', Ids, NEW g \in PageIds, NEW new \in SUBSET PaneIds, Makes(g, new)
  PROVE  UsesInv'
<1>1. ASSUME NEW h \in Made, h # g
      PROVE  /\ ui'.page[h].focus # Nil /\ Distinct(ui'.page[h].panes)
             /\ \A x \in PaneIds : Uses(x, h)' => x < ui'.nextPane
  <2>1. ui'.page[h] = ui.page[h]
    BY <1>1, Numbers DEF Makes, OtherPages
  <2>2. \A x \in PaneIds : Uses(x, h)' => Uses(x, h)
    BY <2>1 DEF Uses, Panes, LeavesOf
  <2>3. \A x \in PaneIds : Uses(x, h) => x < ui.nextPane
    BY DEF Ids
  <2>4. ui.page[h].focus # Nil /\ Distinct(ui.page[h].panes)
    BY DEF Ids
  <2>5. ui.nextPane <= ui'.nextPane /\ ui.nextPane \in Nat /\ ui'.nextPane \in Nat
    BY Numbers, MuxManagerAssumption DEF Makes, Types, UI
  <2> QED
    BY <2>1, <2>2, <2>3, <2>4, <2>5, Numbers
<1>2. /\ ui'.page[g].focus # Nil /\ Distinct(ui'.page[g].panes)
  BY NamesDiffer DEF Makes
<1>3. ASSUME NEW x \in PaneIds, Uses(x, g)'
      PROVE  x < ui'.nextPane
  <2>1. ui.nextPane <= ui'.nextPane /\ ui.nextPane \in Nat /\ ui'.nextPane \in Nat /\ x \in Nat
    BY Numbers, MuxManagerAssumption DEF Makes, Types, UI
  <2>2. g \in Made /\ Uses(x, g) => x < ui.nextPane
    BY DEF Ids
  <2> QED
    BY <1>3, <2>1, <2>2 DEF Makes
<1>4. \A h \in Made' : h = g \/ h \in Made
  BY DEF Makes
<1>5. \A h \in Made' : /\ ui'.page[h].focus # Nil /\ Distinct(ui'.page[h].panes)
                       /\ \A x \in PaneIds : Uses(x, h)' => x < ui'.nextPane
  BY <1>1, <1>2, <1>3, <1>4
<1> QED
  BY <1>5 DEF UsesInv

LEMMA CreatesMakes ==
  ASSUME Types, Types', Ids, NEW g \in PageIds, NEW new \in SUBSET PaneIds, NEW d, Creates(ui', g, new, d)
  PROVE  Makes(g, new) /\ PagesInv'
<1>1. g = ui.nextPage /\ ui'.nextPage = g + 1 /\ ui'.current = g /\ ui.nextPane <= ui'.nextPane
  BY DEF Creates, NewIds
<1>2. \A h \in PageIds : h \in Made' <=> h < g + 1
  BY <1>1 DEF Made, Types, UI, PageIds
<1>3. g \in Made' /\ Made \subseteq Made' /\ Made' \subseteq Made \cup {g}
  BY <1>1, Numbers DEF Made
<1>4. \A x \in PaneIds : Uses(x, g)' => x \in new
  BY DEF Creates, Uses, Panes, LeavesOf
<1>5. \A x \in new : x < ui'.nextPane
  BY DEF Creates, NewIds
<1>6. Makes(g, new)
  BY <1>1, <1>3, <1>4, <1>5 DEF Makes, Creates
<1>7. PagesInv'
  <2>1. \A h : h \in ToSet(ui'.pages) => h = g \/ h \in ToSet(ui.pages)
    BY DEF Creates, Listed
  <2>2. ToSet(ui.pages) \subseteq Made
    BY DEF Ids
  <2>3. ToSet(ui'.pages) \subseteq Made'
    BY <1>3, <2>1, <2>2
  <2> QED
    BY <1>1, <1>3, <2>3 DEF PagesInv, Creates
<1> QED
  BY <1>6, <1>7

LEMMA ExtendsMakes ==
  ASSUME Types, Types', Ids, NEW g \in PageIds, NEW new \in SUBSET PaneIds, NEW old, Extends(ui', g, new, old)
  PROVE  Makes(g, new) /\ PagesInv'
<1>1. g = ui.current /\ ui'.current = g /\ Made' = Made /\ ui'.pages = ui.pages /\ ui.nextPane <= ui'.nextPane
  BY DEF Extends, Made, NewIds
<1>2. g \in Made
  BY <1>1, NamesDiffer DEF Ids
<1>3. \A x \in PaneIds : Uses(x, g)' => x \in new \/ Uses(x, g)
  BY DEF Extends, Dropped, Uses, Panes, LeavesOf
<1>4. \A x \in new : x < ui'.nextPane
  BY DEF Extends, NewIds
<1>5. Makes(g, new)
  BY <1>1, <1>2, <1>3, <1>4 DEF Makes, Extends
<1> QED
  BY <1>1, <1>2, <1>5 DEF PagesInv, Ids

LEMMA ShrinksMakes ==
  ASSUME Types, Types', Ids, NEW g \in PageIds, NEW s \in PaneIds, Mode(s) = "pane", Shrinks(ui', g, s)
  PROVE  Makes(g, {}) /\ PagesInv'
<1>1. g = ui.current /\ ui'.current = g /\ Made' = Made /\ ui'.pages = ui.pages /\ ui.nextPane <= ui'.nextPane
  BY DEF Shrinks, Made
<1>2. g \in Made
  BY <1>1, NamesDiffer DEF Ids
<1>3. \A x \in PaneIds : Uses(x, g)' => Uses(x, g) \/ x = ui'.page[g].focus
  BY DEF Shrinks, Dropped, Uses, Panes, LeavesOf
<1>4. ui'.page[g].focus \in PaneIds /\ ui'.page[g].focus < ui'.nextPane
  <2>1. selector[s].prev \in PaneIds /\ selector[s].prev < ui.nextPane
    BY CapturedIs DEF Ids
  <2>2. selector[s].prev \in Nat /\ ui.nextPane \in Nat /\ ui'.nextPane \in Nat
    BY <2>1, Numbers, MuxManagerAssumption DEF Types, UI
  <2> QED
    BY <1>1, <2>1, <2>2 DEF Shrinks
<1>5. Makes(g, {})
  BY <1>1, <1>2, <1>3, <1>4 DEF Makes, Shrinks
<1> QED
  BY <1>1, <1>2, <1>5 DEF PagesInv, Ids

LEMMA OpenIds ==
  ASSUME Types, Types', Ids, NEW s \in PaneIds, NEW g \in PageIds, Opens(s, g)
  PROVE  Ids'
<1>1. /\ s = ui.nextPane /\ ui'.nextPane = s + 1 /\ s \notin Sessions /\ Mode(s) = "none" /\ Made \subseteq Made'
      /\ \A p \in PaneIds : pane'[p] = IF p = s THEN "selector" ELSE pane[p]
      /\ UNCHANGED home /\ s \notin Sessions' /\ \A p \in PaneIds : p # s => Mode(p)' = Mode(p)
  <2>1. s \notin Sessions /\ Mode(s) = "none"
    BY Numbers DEF Ids, Opens, Sessions
  <2>2. \A p \in PaneIds : pane'[p] = IF p = s THEN "selector" ELSE pane[p]
    BY DEF Opens, Types
  <2>3. Made \subseteq Made'
    BY CreatesMakes, ExtendsMakes DEF Opens, Makes
  <2> QED
    BY <2>1, <2>2, <2>3 DEF Opens, Sessions, Mode
<1>2. UsesInv' /\ PagesInv'
  BY CreatesMakes, ExtendsMakes, MakesIds DEF Opens
<1>3. PaneIdsInv'
  <2>1. \A p \in PaneIds : p \in Sessions' => p \in Sessions
    BY <1>1 DEF Sessions
  <2>2. \A p \in PaneIds : p >= ui'.nextPane => p >= ui.nextPane /\ p # s
    BY <1>1, Numbers
  <2> QED
    BY <1>1, <2>1, <2>2 DEF PaneIdsInv, Ids
<1>4. Mode(Initial)' = Mode(Initial)
  BY NamesDiffer DEF Opens, Mode
<1>5. \A t \in PaneIds : t # s => selector'[t] = selector[t] /\ Mode(t)' = Mode(t) /\ pane'[t] = pane[t]
  BY <1>1 DEF Opens
<1>6. ASSUME NEW t \in PaneIds
      PROVE  /\ Mode(t)' # "none" => pane'[t] \in {"selector", "gone"} /\ Mode(t)' # "initial"
             /\ pane'[t] = "selector" => Mode(t)' # "none"
             /\ Mode(t)' = "pane" => selector'[t].prev < ui'.nextPane
  <2>1. CASE t # s
    <3>1. Mode(t) = "pane" => selector[t].prev < ui.nextPane /\ selector[t].prev \in Nat
      BY CapturedIs, Numbers DEF Ids
    <3>2. ui.nextPane \in Nat /\ ui'.nextPane = ui.nextPane + 1
      BY <1>1, Numbers
    <3>3. Mode(t) = "pane" => selector[t].prev < ui'.nextPane
      BY <3>1, <3>2
    <3> QED
      BY <1>5, <2>1, <3>3 DEF Ids
  <2>2. CASE t = s
    <3>1. pane'[s] = "selector" /\ Mode(s)' \in {"page", "pane"}
      BY <1>1 DEF Opens
    <3>2. Mode(s)' = "pane" => selector'[s].prev < ui'.nextPane
      <4>1. Mode(s)' = "pane" => g = ui.current /\ g \in Made /\ selector'[s].prev = ui.page[g].focus
        BY NamesDiffer DEF Opens, Extends, Ids
      <4>2. g \in Made => ui.page[g].focus \in PaneIds /\ ui.page[g].focus < ui.nextPane
        BY Numbers DEF Ids, Uses
      <4> QED
        BY <1>1, <4>1, <4>2, Numbers
    <3> QED
      BY <2>2, <3>1, <3>2
  <2> QED
    BY <2>1, <2>2
<1>7. ASSUME NEW t \in PaneIds, Mode(t)' = "page"
      PROVE  /\ selector'[t].page \in Made' /\ selector'[t].prev < selector'[t].page
             /\ \A r \in PaneIds : Mode(r)' = "page" /\ selector'[t].page = selector'[r].page => t = r
  <2>1. CASE Mode(s)' = "page"
    <3>1. g = ui.nextPage /\ g \in Made' /\ selector'[s].page = g /\ selector'[s].prev = ui.current
      <4>1. Creates(ui', g, {s}, {}) /\ selector'[s].page = g /\ selector'[s].prev = ui.current
        BY <2>1 DEF Opens
      <4>2. Makes(g, {s})
        BY <4>1, CreatesMakes
      <4>3. g = ui.nextPage
        BY <4>1 DEF Creates
      <4> QED
        BY <4>1, <4>2, <4>3 DEF Makes
    <3>2. \A r \in PaneIds : r # s /\ Mode(r) = "page" => selector[r].page \in Made /\ selector[r].page # g
      BY <3>1, Numbers DEF Ids
    <3>3. ui.current < g
      BY <3>1, Numbers DEF Ids, Nil
    <3> QED
      BY <1>1, <1>5, <1>7, <3>1, <3>2, <3>3 DEF Ids
  <2>2. CASE Mode(s)' # "page"
    BY <1>1, <1>5, <1>7, <2>2 DEF Ids
  <2> QED
    BY <2>1, <2>2
<1>8. SelectorIdsInv'
  BY <1>6, <1>7 DEF SelectorIdsInv
<1> QED
  BY <1>2, <1>3, <1>4, <1>8 DEF Ids, PaneIdsInv, SelectorIdsInv, UsesInv, PagesInv

LEMMA CloseIds ==
  ASSUME Types, Types', Ids, NEW s \in PaneIds \cup {Initial}, NEW g \in PageIds, NEW new \in SUBSET PaneIds,
         Closes(s, g, new)
  PROVE  Ids'
<1>1. ui.nextPane <= ui'.nextPane /\ Made \subseteq Made' /\ UsesInv' /\ PagesInv'
      /\ (new # {} => g \in Made') /\ (new # {} => NewIds(ui', new))
  <2>1. CASE \E d : Creates(ui', g, new, d)
    BY <2>1, CreatesMakes, MakesIds DEF Makes, Creates
  <2>2. CASE \E old : Extends(ui', g, new, old)
    BY <2>2, ExtendsMakes, MakesIds DEF Makes, Extends
  <2>3. CASE Mode(s) = "pane" /\ Shrinks(ui', g, s) /\ new = {}
    <3>1. s \in PaneIds
      BY <2>3 DEF Ids
    <3> QED
      BY <2>3, <3>1, ShrinksMakes, MakesIds DEF Makes
  <2>4. ASSUME NEW h, NEW d, Goes(ui', h, d), new = {}, h \in Made \cup {Nil}
        PROVE  /\ ui.nextPane <= ui'.nextPane /\ Made \subseteq Made' /\ UsesInv' /\ PagesInv'
    <3>1. ui'.page = ui.page /\ Made' = Made /\ SameIds(ui', ui)
      BY <2>4 DEF Goes, SameIds, Made
    <3>2. UsesInv'
      <4>1. \A k \in Made, x \in PaneIds : Uses(x, k)' <=> Uses(x, k)
        BY <3>1 DEF Uses, Panes, LeavesOf
      <4> QED
        BY <3>1, <4>1 DEF UsesInv, Ids, SameIds
    <3>3. PagesInv'
      <4>1. ToSet(ui'.pages) \subseteq ToSet(ui.pages)
        BY <2>4 DEF Goes, Listed
      <4> QED
        BY <2>4, <3>1, <4>1 DEF PagesInv, Ids, Goes
    <3>4. ui.nextPane <= ui'.nextPane
      BY <3>1, Numbers DEF SameIds
    <3> QED
      BY <2>4, <3>1, <3>2, <3>3, <3>4
  <2>5. Mode(s) = "page" /\ g = selector[s].prev => g \in Made
    <3>1. Mode(s) = "page" => s \in PaneIds
      BY DEF Ids
    <3> QED
      BY <3>1, Numbers DEF Ids
  <2>6. ui.current \in Made \cup {Nil}
    BY DEF Ids
  <2> QED
    BY <2>1, <2>2, <2>3, <2>4, <2>5, <2>6 DEF Closes
<1>2. /\ \A p \in PaneIds : /\ pane'[p] = IF p \in new THEN "connecting" ELSE IF p = s THEN "gone" ELSE pane[p]
                            /\ home'[p] = IF p \in new THEN g ELSE home[p]
      /\ UNCHANGED selector /\ Mode(s) # "none"
  BY DEF Closes, Entered, Mode
<1>3. \A p \in new : p >= ui.nextPane /\ p < ui'.nextPane /\ Mode(p) = "none"
  BY <1>1, Numbers DEF NewIds, Ids
<1>4. PaneIdsInv'
  <2> SUFFICES ASSUME NEW p \in PaneIds
               PROVE  /\ p >= ui'.nextPane => pane'[p] = "new" /\ Mode(p) = "none"
                      /\ p \in Sessions' => home'[p] \in Made'
    BY <1>2 DEF PaneIdsInv, Mode
  <2>1. ui'.nextPane \in Nat /\ p \in Nat /\ ui.nextPane \in Nat
    BY Numbers, MuxManagerAssumption DEF Types, UI
  <2>2. p >= ui'.nextPane => p >= ui.nextPane /\ p \notin new
    BY <1>1, <1>3, <2>1
  <2>3. p >= ui'.nextPane => pane[p] = "new" /\ Mode(p) = "none" /\ p # s
    BY <1>2, <2>2 DEF Ids
  <2>4. p \in Sessions' => p \in new \/ p \in Sessions
    BY <1>2 DEF Sessions
  <2>5. p \in Sessions' => home'[p] \in Made'
    BY <1>1, <1>2, <2>4 DEF Ids
  <2> QED
    BY <1>2, <2>2, <2>3, <2>5
<1>5. SelectorIdsInv'
  <2> SUFFICES ASSUME NEW t \in PaneIds
               PROVE  /\ Mode(t) # "none" => pane'[t] \in {"selector", "gone"} /\ Mode(t) # "initial"
                      /\ pane'[t] = "selector" => Mode(t) # "none"
                      /\ Mode(t) = "pane" => selector[t].prev < ui'.nextPane
                      /\ Mode(t) = "page" => /\ selector[t].page \in Made' /\ selector[t].prev < selector[t].page
                           /\ \A r \in PaneIds : Mode(r) = "page" /\ selector[t].page = selector[r].page => t = r
    BY <1>2 DEF SelectorIdsInv, Mode
  <2>1. Mode(t) # "none" => t \notin new
    BY <1>3
  <2>2. Mode(t) # "none" => pane'[t] \in {"selector", "gone"} /\ Mode(t) # "initial"
    BY <1>2, <2>1 DEF Ids
  <2>3. pane'[t] = "selector" => Mode(t) # "none"
    BY <1>2 DEF Ids
  <2>4. Mode(t) = "pane" => selector[t].prev < ui'.nextPane
    <3>1. ui'.nextPane \in Nat /\ ui.nextPane \in Nat /\ ui.nextPane <= ui'.nextPane
      BY <1>1, Numbers, MuxManagerAssumption DEF Types, UI
    <3>2. Mode(t) = "pane" => selector[t].prev < ui.nextPane /\ selector[t].prev \in Nat
      BY CapturedIs, Numbers DEF Ids
    <3> QED
      BY <3>1, <3>2
  <2> QED
    BY <1>1, <2>2, <2>3, <2>4 DEF Ids
<1>6. Mode(Initial)' = Mode(Initial)
  BY <1>2 DEF Mode
<1> QED
  BY <1>1, <1>4, <1>5, <1>6 DEF Ids, PaneIdsInv, SelectorIdsInv, UsesInv, PagesInv

LEMMA RemoveIds ==
  ASSUME Types, Types', Ids, NEW p \in PaneIds, NEW g \in PageIds, Removes(p, g)
  PROVE  Ids'
<1>1. /\ ui'.nextPage = ui.nextPage /\ ui'.nextPane = ui.nextPane /\ Made' = Made /\ UNCHANGED <<home, selector>>
      /\ \A q \in PaneIds : pane'[q] = IF q = p THEN "gone" ELSE pane[q]
  BY DEF Removes, SameIds, Made, Types
<1>2. p \in Sessions /\ p < ui.nextPane /\ Mode(p) = "none"
  BY Numbers DEF Removes, Ids, Sessions
<1>3. PaneIdsInv'
  <2>1. \A q \in PaneIds : q \in Sessions' => q \in Sessions
    BY <1>1 DEF Sessions
  <2> QED
    BY <1>1, <1>2, <2>1, Numbers DEF PaneIdsInv, Ids, Mode
<1>4. SelectorIdsInv'
  BY <1>1, <1>2 DEF SelectorIdsInv, Ids, Mode
<1>5. \A h \in Made, x \in PaneIds : Uses(x, h)' => Uses(x, h)
  <2>1. CASE ui' = ui
    BY <2>1 DEF Uses, Panes, LeavesOf
  <2>2. CASE /\ OtherPages(ui', g) /\ Dropped(ui', g, {p}, {})
             /\ ui'.page[g].focus = ui.page[g].focus \/ ui'.page[g].focus \in Panes(g)
    <3>1. \A h \in Made : h # g => ui'.page[h] = ui.page[h]
      BY <2>2, Numbers DEF OtherPages
    <3> QED
      BY <2>2, <3>1 DEF Uses, Panes, LeavesOf, Dropped
  <2> QED
    BY <2>1, <2>2 DEF Removes
<1>6. \A h \in Made : ui'.page[h].focus # Nil /\ Distinct(ui'.page[h].panes)
  <2>1. CASE ui' = ui
    BY <2>1 DEF Ids
  <2>2. CASE /\ OtherPages(ui', g) /\ Distinct(ui'.page[g].panes)
             /\ ui'.page[g].focus = ui.page[g].focus \/ ui'.page[g].focus \in Panes(g)
    <3>1. \A h \in Made : h # g => ui'.page[h] = ui.page[h]
      BY <2>2, Numbers DEF OtherPages
    <3>2. Nil \notin Panes(g)
      BY Numbers, NamesDiffer
    <3> QED
      BY <2>2, <3>1, <3>2 DEF Ids
  <2> QED
    BY <2>1, <2>2 DEF Removes
<1>7. UsesInv'
  BY <1>1, <1>5, <1>6 DEF UsesInv, Ids
<1>8. PagesInv'
  <2>1. CASE p \notin Panes(g)
    BY <1>1, <2>1 DEF Removes, Ids, PagesInv
  <2>2. CASE p \in Panes(g) /\ Panes(g) # {p}
    BY <1>1, <2>2 DEF Removes, Ids, PagesInv
  <2>3. CASE p \in Panes(g) /\ Panes(g) = {p}
    <3>1. \A h : h \in ToSet(ui'.pages) <=> h \in ToSet(ui.pages) /\ h # g
      BY <2>3 DEF Removes, Listed
    <3>2. Distinct(ui'.pages) /\ IF ui'.running THEN ui'.current \in ToSet(ui'.pages) ELSE ui'.current = Nil
      BY <2>3 DEF Removes
    <3> QED
      BY <1>1, <3>1, <3>2 DEF Ids, PagesInv
  <2> QED
    BY <2>1, <2>2, <2>3
<1>9. Mode(Initial)' = Mode(Initial)
  BY <1>1 DEF Mode
<1> QED
  BY <1>3, <1>4, <1>7, <1>8, <1>9 DEF Ids, PaneIdsInv, SelectorIdsInv, UsesInv, PagesInv

LEMMA IdsNext == Types /\ Types' /\ Ids /\ Step => Ids'
  BY LookIds, OpenIds, CloseIds, RemoveIds DEF Step

(***************************************************************************)
(* The page list, and the time before the first selection.                 *)
(***************************************************************************)
LEMMA ListNext ==
  ASSUME ListInv, Step
  PROVE  ListInv'
<1>1. ASSUME Refreshed(ui')
      PROVE  ListInv'
  BY <1>1 DEF Refreshed, ListInv
<1>2. CASE Looks
  BY <1>1, <1>2 DEF Looks, Attention, SameStructure, SameView, ListInv
<1>3. ASSUME NEW s, NEW g, Opens(s, g)
      PROVE  ListInv'
  BY <1>1, <1>3 DEF Opens, Creates, Extends
<1>4. ASSUME NEW s, NEW g, NEW new, Closes(s, g, new)
      PROVE  ListInv'
  BY <1>1, <1>4 DEF Closes, Creates, Extends, Shrinks, Goes, SameView, ListInv, Entered
<1>5. ASSUME NEW p, NEW g, Removes(p, g)
      PROVE  ListInv'
  BY <1>1, <1>5 DEF Removes, SameView, ListInv
<1> QED
  BY <1>2, <1>3, <1>4, <1>5 DEF Step

LEMMA NothingNext ==
  ASSUME Types, Ids, Nothing, Step
  PROVE  Nothing'
<1>1. CASE Looks /\ ui.current # Nil
  <2>1. ui'.current # Nil
    <3>1. Listed(ui'.current) => ui'.current \in Made
      BY DEF Ids, Listed
    <3> QED
      BY <1>1, <3>1, Numbers, NamesDiffer DEF Looks
  <2> QED
    BY <2>1 DEF Nothing
<1>2. CASE Unmoving
  BY <1>2 DEF Unmoving, Nothing
<1>3. ASSUME NEW s, NEW g \in PageIds, Opens(s, g)
      PROVE  Nothing'
  BY <1>3, NamesDiffer DEF Opens, Creates, Extends, Nothing
<1>4. ASSUME NEW s \in PaneIds \cup {Initial}, NEW g \in PageIds, NEW new \in SUBSET PaneIds, Closes(s, g, new)
      PROVE  Nothing'
  <2>1. CASE ~(Mode(s) = "initial" /\ Goes(ui', ui.current, {}))
    <3>1. ui'.current = g
      BY <1>4, <2>1 DEF Closes, Creates, Extends, Shrinks, Goes
    <3> QED
      BY <3>1, NamesDiffer DEF Nothing
  <2>2. CASE Mode(s) = "initial" /\ Goes(ui', ui.current, {}) /\ ui'.running
    <3>1. Entered(s) /\ (ui'.current # Nil => Nothing') /\ (ui'.running \/ new = {})
      BY <1>4 DEF Closes, Nothing
    <3> QED
      BY <1>4, <2>2, <3>1 DEF Closes, Nothing, Goes, Refreshed, NothingLeft
  <2> QED
    BY <2>1, <2>2 DEF Nothing
<1>5. ASSUME NEW p \in PaneIds, NEW g \in PageIds, Removes(p, g)
      PROVE  Nothing'
  <2>1. ui.current # Nil
    BY <1>5 DEF Removes, Nothing, Sessions
  <2>2. ui'.running => ui'.current # Nil
    <3>1. \A h \in ToSet(ui.pages) : h # Nil
      BY Numbers, NamesDiffer DEF Ids
    <3>2. CASE p \in Panes(g) /\ Panes(g) = {p}
      BY <1>5, <3>1, <3>2 DEF Removes, Listed
    <3>3. CASE ~(p \in Panes(g) /\ Panes(g) = {p})
      BY <1>5, <2>1, <3>3 DEF Removes
    <3> QED
      BY <3>2, <3>3
  <2> QED
    BY <2>2 DEF Nothing
<1> QED
  BY <1>1, <1>2, <1>3, <1>4, <1>5 DEF Step, Looks

(***************************************************************************)
(* Every pane has one page for good: no other page has ever had it, nor    *)
(* gives it the keys.                                                      *)
(***************************************************************************)
PlacedPages(on) == \A g \in Made, x \in PaneIds : Uses(x, g) => on[x] = g
PlacedSelectors(on) == \A s \in PaneIds : /\ Mode(s) = "pane" => on[selector[s].prev] = on[s]
                                          /\ Mode(s) = "page" => on[s] = selector[s].page
PlacedSessions(on) == \A p \in Sessions : on[p] = home[p]
PlacedScreen(on) == ui.running /\ ui.current # Nil =>
  \A x \in PaneIds : x \in ui.shown \/ x = ui.appFocus => on[x] = ui.current
Placed(on) == PlacedPages(on) /\ PlacedSelectors(on) /\ PlacedSessions(on) /\ PlacedScreen(on)
Placement == \E on \in [PaneIds -> PageIds] : Placed(on)

LEMMA RefreshedPlaced ==
  ASSUME Types', Ids', Refreshed(ui'), NEW on \in [PaneIds -> PageIds], PlacedPages(on)'
  PROVE  PlacedScreen(on)'
<1> SUFFICES ASSUME ui'.current # Nil, NEW x \in PaneIds, x \in ui'.shown \/ x = ui'.appFocus
             PROVE  on[x] = ui'.current
  BY DEF PlacedScreen
<1>1. ui'.current \in Made'
  BY DEF Ids
<1>2. ui'.shown = ui'.page[ui'.current].leaves /\ ui'.appFocus = ui'.page[ui'.current].focus
  BY <1>1 DEF Refreshed, Here, Ids
<1>3. Uses(x, ui.current)'
  BY <1>2 DEF Uses, LeavesOf
<1> QED
  BY <1>1, <1>3 DEF PlacedPages

LEMMA LookPlaced ==
  ASSUME Types, Types', Ids, Ids', Looks, NEW on \in [PaneIds -> PageIds], Placed(on)
  PROVE  Placed(on)'
<1> USE DEF SameStructure
<1>1. /\ ui'.nextPage = ui.nextPage /\ UNCHANGED <<home, selector>> /\ Made' = Made
  BY DEF Looks, Made
<1>2. PlacedPages(on)'
  <2> SUFFICES ASSUME NEW g \in Made, NEW x \in PaneIds, Uses(x, g)'
               PROVE  Uses(x, g)
    BY <1>1 DEF PlacedPages, Placed
  <2>1. /\ g \in PageIds /\ ui'.page[g].panes = ui.page[g].panes /\ ui'.page[g].leaves = ui.page[g].leaves
        /\ ui'.page[g].focus = ui.page[g].focus \/ ui'.page[g].focus \in Panes(g)
    BY Numbers DEF Looks
  <2> QED
    BY <2>1 DEF Uses, Panes, LeavesOf
<1>3. PlacedSelectors(on)' /\ PlacedSessions(on)'
  BY <1>1 DEF PlacedSelectors, PlacedSessions, Placed, Mode, Looks, StaySessions, Sessions
<1>4. CASE ~ui'.running
  BY <1>2, <1>3, <1>4 DEF Placed, PlacedScreen
<1>5. CASE Refreshed(ui')
  BY <1>2, <1>3, <1>5, RefreshedPlaced DEF Placed
<1>6. CASE ui'.running /\ ~Refreshed(ui')
  <2>1. ui'.current = ui.current /\ ui.running
    BY <1>6 DEF Looks, Attention, SameFocus
  <2>2. ui'.shown \subseteq ui.shown
    BY <1>6 DEF Looks, Attention, SameFocus, SameView
  <2>3. /\ \A x \in PaneIds : x = ui'.appFocus => x \in ui.shown \/ x = ui.appFocus \/ (ui.current # Nil /\ x \in Panes(ui.current))
    <3>1. CASE Unmoving
      BY <3>1 DEF Unmoving
    <3>2. CASE ui.current # Nil
      BY <1>6, <3>2, NamesDiffer DEF Looks, Attention, SameFocus, SameView
    <3> QED
      BY <3>1, <3>2 DEF Looks
  <2>4. \A x \in PaneIds : ui.current # Nil /\ x \in Panes(ui.current) => on[x] = ui.current
    BY DEF Placed, PlacedPages, Uses, Ids
  <2> QED
    BY <1>2, <1>3, <2>1, <2>2, <2>3, <2>4 DEF Placed, PlacedScreen
<1> QED
  BY <1>4, <1>5, <1>6

\* Panes that are made get the page they are put on.
Now(on, new, g) == [x \in PaneIds |-> IF x \in new THEN g ELSE on[x]]

LEMMA MakesPlaced ==
  ASSUME Types, Types', Ids, Ids', NEW g \in PageIds, NEW new \in SUBSET PaneIds, Makes(g, new),
         \A x \in new : x >= ui.nextPane,
         NEW on \in [PaneIds -> PageIds], Placed(on), Now(on, new, g)[ui'.page[g].focus] = g
  PROVE  PlacedPages(Now(on, new, g))'
<1> DEFINE now == Now(on, new, g)
<1>1. \A x \in PaneIds : now[x] = IF x \in new THEN g ELSE on[x]
  BY DEF Now
<1>2. \A x \in PaneIds : x < ui.nextPane => x \notin new
  BY Numbers
<1>3. \A h \in Made, x \in PaneIds : Uses(x, h) => on[x] = h /\ x < ui.nextPane
  BY DEF Placed, PlacedPages, Ids
<1> SUFFICES ASSUME NEW h \in Made', NEW x \in PaneIds, Uses(x, h)'
             PROVE  now[x] = h
  BY DEF PlacedPages
<1>4. CASE h # g
  <2>1. h \in Made /\ ui'.page[h] = ui.page[h]
    BY <1>4, Numbers DEF Makes, OtherPages
  <2>2. Uses(x, h)
    BY <2>1 DEF Uses, Panes, LeavesOf
  <2> QED
    BY <1>1, <1>2, <1>3, <2>1, <2>2
<1>5. CASE h = g
  <2>1. x \in new \/ (g \in Made /\ Uses(x, g)) \/ x = ui'.page[g].focus
    BY <1>5 DEF Makes
  <2> QED
    BY <1>1, <1>3, <1>5, <2>1
<1> QED
  BY <1>4, <1>5

LEMMA OpenPlaced ==
  ASSUME Types, Types', Ids, Ids', NEW s \in PaneIds, NEW g \in PageIds, Opens(s, g),
         NEW on \in [PaneIds -> PageIds], Placed(on)
  PROVE  Placed(Now(on, {s}, g))'
<1> DEFINE now == Now(on, {s}, g)
<1>1. \A x \in PaneIds : now[x] = IF x = s THEN g ELSE on[x]
  BY DEF Now
<1>2. /\ s = ui.nextPane /\ Refreshed(ui') /\ UNCHANGED home /\ ui'.page[g].focus = s
      /\ \A t \in PaneIds : t # s => selector'[t] = selector[t] /\ pane'[t] = pane[t]
  BY DEF Opens, Creates, Extends, Types
<1>3. Makes(g, {s})
  BY CreatesMakes, ExtendsMakes DEF Opens
<1>4. PlacedPages(now)'
  <2>1. \A x \in {s} : x >= ui.nextPane
    BY <1>2, Numbers
  <2>2. now[ui'.page[g].focus] = g
    BY <1>1, <1>2
  <2> QED
    BY <1>3, <2>1, <2>2, MakesPlaced
<1>5. PlacedSelectors(now)'
  <2> SUFFICES ASSUME NEW t \in PaneIds
               PROVE  /\ Mode(t)' = "pane" => now[selector'[t].prev] = now[t]
                      /\ Mode(t)' = "page" => now[t] = selector'[t].page
    BY DEF PlacedSelectors
  <2>1. CASE t # s
    <3>1. selector'[t] = selector[t] /\ Mode(t)' = Mode(t)
      BY <1>2, <2>1 DEF Mode
    <3>2. Mode(t) = "pane" => selector[t].prev \in PaneIds /\ selector[t].prev # s
      BY <1>2, CapturedIs, Numbers DEF Ids
    <3> QED
      BY <1>1, <2>1, <3>1, <3>2 DEF Placed, PlacedSelectors
  <2>2. CASE t = s
    <3>1. Mode(s)' = "page" => selector'[s].page = g
      BY DEF Opens
    <3>2. Mode(s)' = "pane" => selector'[s].prev = ui.page[g].focus /\ g \in Made
      BY NamesDiffer DEF Opens, Extends, Ids
    <3>3. g \in Made => ui.page[g].focus \in PaneIds /\ on[ui.page[g].focus] = g
      BY Numbers DEF Placed, PlacedPages, Ids, Uses
    <3> QED
      BY <1>1, <2>2, <3>1, <3>2, <3>3
  <2> QED
    BY <2>1, <2>2
<1>6. PlacedSessions(now)'
  <2>1. \A p \in Sessions' : p \in Sessions /\ p # s
    BY <1>2 DEF Sessions, Opens, Types
  <2> QED
    BY <1>1, <1>2, <2>1 DEF Placed, PlacedSessions, Sessions
<1>7. now \in [PaneIds -> PageIds]
  BY DEF Now
<1>8. PlacedScreen(now)'
  BY <1>2, <1>4, <1>7, RefreshedPlaced
<1> QED
  BY <1>4, <1>5, <1>6, <1>8 DEF Placed

LEMMA ClosePlaced ==
  ASSUME Types, Types', Ids, Ids', Nothing, NEW s \in PaneIds \cup {Initial}, NEW g \in PageIds,
         NEW new \in SUBSET PaneIds, Closes(s, g, new), NEW on \in [PaneIds -> PageIds], Placed(on)
  PROVE  Placed(Now(on, new, g))'
<1> DEFINE now == Now(on, new, g)
<1>1. (\A x \in PaneIds : now[x] = IF x \in new THEN g ELSE on[x]) /\ now \in [PaneIds -> PageIds]
  BY DEF Now
<1>2. /\ \A x \in PaneIds : pane'[x] = IF x \in new THEN "connecting" ELSE IF x = s THEN "gone" ELSE pane[x]
      /\ \A x \in PaneIds : home'[x] = IF x \in new THEN g ELSE home[x]
      /\ UNCHANGED selector /\ ui.running /\ ui.appFocus = s /\ Mode(s) # "none"
  BY DEF Closes, Entered, Mode
<1>3. new # {} => NewIds(ui', new)
  BY DEF Closes, Creates, Extends
<1>4. \A x \in new : x >= ui.nextPane /\ Mode(x) = "none"
  BY <1>3, Numbers DEF NewIds, Ids
<1>5. \A x \in PaneIds : x < ui.nextPane => now[x] = on[x]
  BY <1>1, <1>4, Numbers
<1>6. PlacedSelectors(now)'
  <2> SUFFICES ASSUME NEW t \in PaneIds
               PROVE  /\ Mode(t) = "pane" => now[selector[t].prev] = now[t]
                      /\ Mode(t) = "page" => now[t] = selector[t].page
    BY <1>2 DEF PlacedSelectors, Mode
  <2>1. Mode(t) # "none" => now[t] = on[t]
    BY <1>1, <1>4
  <2>2. Mode(t) = "pane" => now[selector[t].prev] = on[selector[t].prev]
    BY <1>5, CapturedIs DEF Ids
  <2> QED
    BY <2>1, <2>2 DEF Placed, PlacedSelectors
<1>7. PlacedSessions(now)'
  <2>1. \A p \in Sessions' : p \in new \/ p \in Sessions
    BY <1>2 DEF Sessions
  <2> QED
    BY <1>1, <1>2, <2>1 DEF Placed, PlacedSessions, Sessions
<1>8. Mode(s) = "pane" => /\ s \in PaneIds /\ ui.current # Nil /\ on[s] = ui.current
                          /\ on[selector[s].prev] = ui.current /\ now[selector[s].prev] = ui.current
  <2>1. Mode(s) = "pane" => s \in PaneIds
    BY DEF Ids
  <2>2. Mode(s) = "pane" => ui.current # Nil
    BY <1>2, <2>1 DEF Nothing, Ids
  <2>3. Mode(s) = "pane" => on[s] = ui.current
    BY <1>2, <2>1, <2>2 DEF Placed, PlacedScreen
  <2>4. Mode(s) = "pane" => on[selector[s].prev] = on[s]
    BY <2>1 DEF Placed, PlacedSelectors
  <2>5. Mode(s) = "pane" => now[selector[s].prev] = on[selector[s].prev]
    BY <1>5, <2>1, CapturedIs DEF Ids
  <2> QED
    BY <2>1, <2>2, <2>3, <2>4, <2>5
<1>9. PlacedPages(now)'
  <2>1. CASE \E d : Creates(ui', g, new, d)
    <3>1. Makes(g, new)
      BY <2>1, CreatesMakes
    <3>2. now[ui'.page[g].focus] = g
      BY <1>1, <2>1 DEF Creates
    <3> QED
      BY <1>4, <3>1, <3>2, MakesPlaced
  <2>2. CASE Extends(ui', g, new, {s})
    <3>1. Makes(g, new)
      BY <2>2, ExtendsMakes
    <3>2. now[ui'.page[g].focus] = g
      BY <1>1, <2>2 DEF Extends
    <3> QED
      BY <1>4, <3>1, <3>2, MakesPlaced
  <2>3. CASE Mode(s) = "pane" /\ Shrinks(ui', g, s) /\ new = {}
    <3>1. Makes(g, new)
      BY <1>8, <2>3, ShrinksMakes
    <3>2. now[ui'.page[g].focus] = g
      BY <1>8, <2>3 DEF Shrinks
    <3> QED
      BY <1>4, <3>1, <3>2, MakesPlaced
  <2>4. CASE new = {} /\ \E h, d : Goes(ui', h, d)
    <3>1. ui'.page = ui.page /\ Made' = Made
      BY <2>4 DEF Goes, SameIds, Made
    <3>2. \A h \in Made, x \in PaneIds : Uses(x, h)' <=> Uses(x, h)
      BY <3>1 DEF Uses, Panes, LeavesOf
    <3> QED
      BY <1>1, <2>4, <3>1, <3>2 DEF PlacedPages, Placed
  <2> QED
    BY <2>1, <2>2, <2>3, <2>4 DEF Closes
<1>10. PlacedScreen(now)'
  <2>1. CASE Refreshed(ui')
    BY <1>1, <1>9, <2>1, RefreshedPlaced
  <2>2. CASE ~ui'.running
    BY <2>2 DEF PlacedScreen
  <2>3. CASE new = {} /\ SameView(ui', ui) /\ ui'.current = ui.current
    BY <1>1, <1>2, <2>3 DEF PlacedScreen, Placed, SameView
  <2> QED
    BY <2>1, <2>2, <2>3 DEF Closes, Creates, Extends, Shrinks, Goes
<1> QED
  BY <1>6, <1>7, <1>9, <1>10 DEF Placed

LEMMA RemovePlaced ==
  ASSUME Types, Types', Ids, Ids', NEW p \in PaneIds, NEW g \in PageIds, Removes(p, g),
         NEW on \in [PaneIds -> PageIds], Placed(on)
  PROVE  Placed(on)'
<1>1. /\ Made' = Made /\ UNCHANGED <<home, selector>> /\ ui.running
      /\ \A q \in PaneIds : pane'[q] = IF q = p THEN "gone" ELSE pane[q]
  BY DEF Removes, SameIds, Made, Types
<1>2. \A h \in Made, x \in PaneIds : Uses(x, h)' => Uses(x, h)
  <2>1. CASE ui' = ui
    BY <2>1 DEF Uses, Panes, LeavesOf
  <2>2. CASE /\ OtherPages(ui', g) /\ Dropped(ui', g, {p}, {})
             /\ ui'.page[g].focus = ui.page[g].focus \/ ui'.page[g].focus \in Panes(g)
    <3>1. \A h \in Made : h # g => ui'.page[h] = ui.page[h]
      BY <2>2, Numbers DEF OtherPages
    <3> QED
      BY <2>2, <3>1 DEF Uses, Panes, LeavesOf, Dropped
  <2> QED
    BY <2>1, <2>2 DEF Removes
<1>3. PlacedPages(on)' /\ PlacedSelectors(on)' /\ PlacedSessions(on)'
  BY <1>1, <1>2 DEF Placed, PlacedPages, PlacedSelectors, PlacedSessions, Sessions, Mode
<1>4. PlacedScreen(on)'
  <2>1. CASE Refreshed(ui')
    BY <1>3, <2>1, RefreshedPlaced
  <2>2. CASE ~ui'.running
    BY <2>2 DEF PlacedScreen
  <2>3. CASE SameView(ui', ui) /\ ui'.current = ui.current
    BY <1>1, <2>3 DEF PlacedScreen, Placed, SameView
  <2>4. CASE ui' = ui
    BY <2>4 DEF PlacedScreen, Placed
  <2> QED
    BY <2>1, <2>2, <2>3, <2>4 DEF Removes
<1> QED
  BY <1>3, <1>4 DEF Placed

LEMMA PlacementNext ==
  ASSUME Types, Types', Ids, Ids', Nothing, Placement, Step
  PROVE  Placement'
<1>1. PICK on \in [PaneIds -> PageIds] : Placed(on)
  BY DEF Placement
<1>2. ASSUME NEW new, NEW g \in PageIds, Placed(Now(on, new, g))'
      PROVE  Placement'
  <2>1. Now(on, new, g) \in [PaneIds -> PageIds]
    BY DEF Now
  <2> QED
    BY <1>2, <2>1 DEF Placement
<1>3. CASE Looks
  BY <1>1, <1>3, LookPlaced DEF Placement
<1>4. ASSUME NEW s \in PaneIds, NEW g \in PageIds, Opens(s, g)
      PROVE  Placement'
  BY <1>1, <1>2, <1>4, OpenPlaced
<1>5. ASSUME NEW s \in PaneIds \cup {Initial}, NEW g \in PageIds, NEW new \in SUBSET PaneIds, Closes(s, g, new)
      PROVE  Placement'
  BY <1>1, <1>2, <1>5, ClosePlaced
<1>6. ASSUME NEW p \in PaneIds, NEW g \in PageIds, Removes(p, g)
      PROVE  Placement'
  BY <1>1, <1>6, RemovePlaced DEF Placement
<1> QED
  BY <1>3, <1>4, <1>5, <1>6 DEF Step

Base == Types /\ Ids /\ ListInv /\ Nothing /\ Placement

LEMMA BaseNext == Base /\ [ManagerNext]_managerVars => Base' /\ Step
<1> SUFFICES ASSUME Base, [ManagerNext]_managerVars PROVE Base' /\ Step
  OBVIOUS
<1>1. Step
  BY NextDoes DEF Base, Step
<1>2. Types' /\ Ids'
  BY <1>1, TypesNext, IdsNext DEF Base
<1> QED
  BY <1>1, <1>2, ListNext, NothingNext, PlacementNext DEF Base

(***************************************************************************)
(* The pane that has the keys, if it has a terminal, is the focused one.   *)
(***************************************************************************)
FocusInv == ui.running /\ ui.current # Nil /\ HasTerm(ui.appFocus) => ui.appFocus = ui.page[ui.current].focus

LEMMA FocusNext ==
  ASSUME Base, Base', Step, FocusInv
  PROVE  FocusInv'
<1>1. ASSUME Refreshed(ui')
      PROVE  FocusInv'
  <2>1. ui'.current # Nil => ui'.page[ui'.current].focus # Nil
    BY DEF Base, Ids
  <2> QED
    BY <1>1, <2>1 DEF FocusInv, Refreshed, Here
<1>2. Types /\ Ids /\ ui.current \in Made \cup {Nil}
  BY DEF Base, Ids
<1>3. CASE Looks
  <2> SUFFICES ASSUME ui'.running, ui'.current # Nil, HasTerm(ui.appFocus)', ~Refreshed(ui')
               PROVE  ui'.appFocus = ui'.page[ui'.current].focus
    BY <1>1 DEF FocusInv
  <2>1. CASE Unmoving
    BY <2>1 DEF Unmoving, FocusInv, HasTerm
  <2>2. CASE ui.current # Nil
    <3>1. ui.running /\ ui'.current = ui.current /\ ui.current \in PageIds
      BY <1>2, <1>3, <2>2, Numbers DEF Looks, Attention, SameFocus
    <3>2. CASE SameFocus /\ pane' = pane /\ ui'.appFocus = List
      BY <3>2, NamesDiffer DEF HasTerm
    <3>3. CASE SameFocus /\ pane' = pane /\ ~HasTerm(ui'.appFocus)
      BY <3>3 DEF HasTerm
    <3>4. CASE ui'.appFocus = ui'.page[ui.current].focus
      BY <3>1, <3>4
    <3>5. CASE /\ SameFocus /\ SameView(ui', ui)
               /\ \A p \in PaneIds : pane'[p] # pane[p] => HasTerm(p) \/ (Connecting(p) /\ home[p] # ui.current)
      <4>1. ui'.appFocus = ui.appFocus /\ ui.appFocus \in PaneIds
        BY <3>5 DEF SameView, HasTerm
      <4>2. Connecting(ui.appFocus) => home[ui.appFocus] = ui.current
        <5>1. PICK on \in [PaneIds -> PageIds] : Placed(on)
          BY DEF Base, Placement
        <5>2. on[ui.appFocus] = ui.current
          BY <2>2, <3>1, <4>1, <5>1 DEF Placed, PlacedScreen
        <5> QED
          BY <4>1, <5>1, <5>2 DEF Placed, PlacedSessions, Connecting, Sessions
      <4>3. HasTerm(ui.appFocus)
        BY <3>5, <4>1, <4>2 DEF HasTerm
      <4>4. ui.appFocus = ui.page[ui.current].focus
        BY <2>2, <3>1, <4>3 DEF FocusInv
      <4> QED
        BY <3>1, <3>5, <4>1, <4>4 DEF SameFocus
    <3> QED
      BY <1>3, <3>2, <3>3, <3>4, <3>5 DEF Looks, Attention
  <2> QED
    BY <1>3, <2>1, <2>2 DEF Looks
<1>4. ASSUME NEW s, NEW g, Opens(s, g)
      PROVE  FocusInv'
  BY <1>1, <1>4 DEF Opens, Creates, Extends
<1>5. ASSUME NEW s \in PaneIds \cup {Initial}, NEW g \in PageIds, NEW new \in SUBSET PaneIds, Closes(s, g, new)
      PROVE  FocusInv'
  <2>1. CASE Refreshed(ui') \/ ~ui'.running
    BY <1>1, <2>1 DEF FocusInv
  <2>2. CASE new = {} /\ SameView(ui', ui)
    <3>1. ui'.appFocus = s /\ \A p \in PaneIds : p = s => pane'[p] = "gone"
      BY <1>5, <2>2 DEF Closes, Entered, SameView
    <3> QED
      BY <3>1 DEF FocusInv, HasTerm
  <2> QED
    BY <1>5, <2>1, <2>2 DEF Closes, Creates, Extends, Shrinks, Goes
<1>6. ASSUME NEW p \in PaneIds, NEW g \in PageIds, Removes(p, g)
      PROVE  FocusInv'
  <2>1. CASE Refreshed(ui') \/ ~ui'.running
    BY <1>1, <2>1 DEF FocusInv
  <2>2. \A q \in PaneIds : HasTerm(q)' => HasTerm(q)
    BY <1>2, <1>6 DEF HasTerm, Removes, Types
  <2>3. \A q : HasTerm(q)' => q \in PaneIds
    BY DEF HasTerm
  <2>4. CASE ui' = ui
    BY <2>2, <2>3, <2>4 DEF FocusInv
  <2>5. CASE g # ui.current /\ SameView(ui', ui) /\ ui'.current = ui.current /\ OtherPages(ui', g)
    <3>1. ui.current # Nil => ui'.page[ui.current] = ui.page[ui.current]
      BY <1>2, <2>5, Numbers DEF OtherPages
    <3> QED
      BY <1>6, <2>2, <2>3, <2>5, <3>1 DEF FocusInv, SameView, Removes
  <2> QED
    BY <1>6, <2>1, <2>4, <2>5 DEF Removes
<1> QED
  BY <1>3, <1>4, <1>5, <1>6 DEF Step

(***************************************************************************)
(* Selectors on pages of their own.                                        *)
(***************************************************************************)
\* The page of such a selector goes when it is closed.
ClosedPages == \A s \in PaneIds : Mode(s) = "page" /\ pane[s] = "gone" => ~Listed(selector[s].page)

\* Which pages there are after a step.
LEMMA ListedAfter ==
  ASSUME Step, NEW h, Listed(h)'
  PROVE  Listed(h) \/ h = ui.nextPage
<1> USE DEF Listed
<1>1. CASE Looks
  BY <1>1 DEF Looks, SameStructure
<1>2. ASSUME NEW s, NEW g, Opens(s, g)
      PROVE  Listed(h) \/ h = ui.nextPage
  BY <1>2 DEF Opens, Creates, Extends
<1>3. ASSUME NEW s, NEW g, NEW new, Closes(s, g, new)
      PROVE  Listed(h) \/ h = ui.nextPage
  BY <1>3 DEF Closes, Creates, Extends, Shrinks, Goes
<1>4. ASSUME NEW p, NEW g, Removes(p, g)
      PROVE  Listed(h) \/ h = ui.nextPage
  BY <1>4 DEF Removes
<1> QED
  BY <1>1, <1>2, <1>3, <1>4 DEF Step

LEMMA ClosedNext ==
  ASSUME Base, Base', Step, ClosedPages
  PROVE  ClosedPages'
<1> SUFFICES ASSUME NEW s \in PaneIds, Mode(s)' = "page", pane'[s] = "gone", Listed(selector[s].page)'
             PROVE  FALSE
  BY DEF ClosedPages
<1>1. \A t \in PaneIds : /\ Mode(t) = "page" => selector[t].page # ui.nextPage /\ t \notin Sessions
                         /\ Mode(t) # "none" => ~(t >= ui.nextPane)
  BY Numbers DEF Base, Ids, Sessions
<1>2. ASSUME Mode(s) = "page", selector'[s] = selector[s], pane[s] = "gone"
      PROVE  FALSE
  <2>1. selector[s].page \in ToSet(ui'.pages)
    BY <1>2 DEF Listed
  <2>2. PICK h : h = selector[s].page
    OBVIOUS
  <2>3. Listed(h)'
    BY <2>1, <2>2 DEF Listed
  <2>4. Listed(h) \/ h = ui.nextPage
    BY <2>3, ListedAfter
  <2> QED
    BY <1>1, <1>2, <2>2, <2>4 DEF ClosedPages
<1>3. CASE Looks
  BY <1>1, <1>2, <1>3 DEF Looks, SameStructure, StaySessions, Mode
<1>4. ASSUME NEW r \in PaneIds, NEW g \in PageIds, Opens(r, g)
      PROVE  FALSE
  BY <1>2, <1>4 DEF Opens, Mode, Base, Types
<1>5. ASSUME NEW r \in PaneIds \cup {Initial}, NEW g \in PageIds, NEW new \in SUBSET PaneIds, Closes(r, g, new)
      PROVE  FALSE
  <2>1. selector'[s] = selector[s] /\ Mode(s) = "page" /\ selector[s].page \in ToSet(ui'.pages)
    BY <1>5 DEF Closes, Mode, Listed
  <2>2. CASE s = r
    <3>1. \/ Creates(ui', g, new, {selector[s].page}) \/ Goes(ui', g, {selector[s].page})
      BY <1>5, <2>1, <2>2 DEF Closes
    <3> QED
      BY <1>1, <2>1, <3>1 DEF Creates, Goes, Listed
  <2>3. CASE s # r
    BY <1>2, <1>5, <2>1, <2>3 DEF Closes
  <2> QED
    BY <2>2, <2>3
<1>6. ASSUME NEW p \in PaneIds, NEW g \in PageIds, Removes(p, g)
      PROVE  FALSE
  BY <1>1, <1>2, <1>6 DEF Removes, Mode, Base, Types
<1> QED
  BY <1>3, <1>4, <1>5, <1>6 DEF Step

(***************************************************************************)
(* As long as no selector has been opened over another, or no pane has     *)
(* gone while one was open.                                                *)
(***************************************************************************)
Safe == ui.running /\ (~overlapped \/ ~orphaned)

\* A selector with a page of its own is all there is on it ...
Own(s) ==
  LET g == selector[s].page IN
  /\ Listed(g) /\ Panes(g) = {s} /\ LeavesOf(g) = {s} /\ ui.page[g].focus = s
  /\ ui.current = g => ui.shown \subseteq {s} /\ ui.appFocus \in {s, List}
\* ... and the page it was opened from is there, or has nothing left.
From(s) == Listed(selector[s].prev) \/ Panes(selector[s].prev) = {}
OwnPage == Safe => \A s \in PaneIds : Open(s, "page") => Own(s) /\ From(s)
\* It has the keys until it is closed, unless panes go.
HasKeys(s) ==
  /\ ui.current = selector[s].page /\ ui.selFocus = s /\ ui.appFocus = s /\ ui.listed = <<>>
  /\ Panes(selector[s].prev) # {}
Captive == ui.running /\ ~orphaned => \A s \in PaneIds : Open(s, "page") => HasKeys(s)
OneOpen == ~overlapped => \A s, t \in PaneIds : pane[s] = "selector" /\ pane[t] = "selector" => s = t
CurrentListed == Safe => Listed(ui.current) \/ ui.current = Nil
Reachable == Safe => \A p \in Sessions : Listed(home[p]) /\ p \in Panes(home[p]) /\ p \in LeavesOf(home[p])
Lived(g) ==
  /\ Panes(g) \subseteq Sessions \cup Selectors
  /\ (\E s \in PaneIds : Open(s, "page") /\ g = selector[s].page) \/ (\E q \in Panes(g) : q \in Sessions)
Inhabited == ui.running /\ ~orphaned => \A g \in PageIds : Listed(g) => Lived(g)
SafeInv == /\ Base /\ ClosedPages /\ OwnPage /\ Captive /\ OneOpen /\ CurrentListed
           /\ Reachable /\ Inhabited

LEMMA SafeBefore == Base /\ Base' /\ Step => (Safe' => Safe) /\ (ui'.running /\ ~orphaned' => ui.running /\ ~orphaned)
<1> SUFFICES ASSUME Base, Base', Step PROVE (Safe' => Safe) /\ (ui'.running /\ ~orphaned' => ui.running /\ ~orphaned)
  OBVIOUS
<1>1. CASE Looks
  BY <1>1 DEF Looks, SameStructure, Safe
<1>2. ASSUME NEW s, NEW g, Opens(s, g)
      PROVE  (Safe' => Safe) /\ (ui'.running /\ ~orphaned' => ui.running /\ ~orphaned)
  BY <1>2 DEF Opens, Command, Safe
<1>3. ASSUME NEW s, NEW g, NEW new, Closes(s, g, new)
      PROVE  (Safe' => Safe) /\ (ui'.running /\ ~orphaned' => ui.running /\ ~orphaned)
  BY <1>3 DEF Closes, Entered, Safe
<1>4. ASSUME NEW p, NEW g, Removes(p, g)
      PROVE  (Safe' => Safe) /\ (ui'.running /\ ~orphaned' => ui.running /\ ~orphaned)
  BY <1>4 DEF Removes, Safe
<1> QED
  BY <1>1, <1>2, <1>3, <1>4 DEF Step

\* A selector that has the keys is on the current page.
LEMMA FocusedPlace ==
  ASSUME Base, NEW s \in PaneIds, ui.running, ui.appFocus = s, Mode(s) # "none"
  PROVE  /\ ui.current # Nil /\ ui.current \in Made
         /\ Mode(s) = "page" => ui.current = selector[s].page
         /\ \A g \in Made : s \in Panes(g) => g = ui.current
<1>1. ui.current # Nil
  BY DEF Base, Ids, Nothing
<1>2. PICK on \in [PaneIds -> PageIds] : Placed(on)
  BY DEF Base, Placement
<1>3. on[s] = ui.current
  BY <1>1, <1>2 DEF Placed, PlacedScreen
<1>4. Mode(s) = "page" => on[s] = selector[s].page
  BY <1>2 DEF Placed, PlacedSelectors
<1>5. \A g \in Made : s \in Panes(g) => on[s] = g
  BY <1>2 DEF Placed, PlacedPages, Uses
<1> QED
  BY <1>1, <1>3, <1>4, <1>5 DEF Base, Ids

LEMMA FocusedPage ==
  ASSUME SafeInv, Safe, NEW s \in PaneIds, ui.appFocus = s, Mode(s) = "page"
  PROVE  /\ pane[s] = "selector" /\ ui.current = selector[s].page /\ Listed(selector[s].page)
         /\ \A t \in PaneIds : Open(t, "page") => t = s
<1>1. Base /\ ui.running
  BY DEF SafeInv, Safe
<1>2. ui.current = selector[s].page /\ ui.current # Nil
  BY <1>1, FocusedPlace
<1>3. Listed(selector[s].page)
  BY <1>2 DEF SafeInv, CurrentListed
<1>4. pane[s] = "selector"
  BY <1>1, <1>3 DEF SafeInv, ClosedPages, Base, Ids
<1>5. ASSUME NEW t \in PaneIds, Open(t, "page")
      PROVE  t = s
  <2>1. CASE ~overlapped
    BY <1>4, <1>5, <2>1 DEF SafeInv, OneOpen, Open
  <2>2. CASE ~orphaned
    BY <1>1, <1>5, <2>2 DEF SafeInv, Captive, HasKeys
  <2> QED
    BY <2>1, <2>2 DEF Safe
<1> QED
  BY <1>2, <1>3, <1>4, <1>5

LEMMA FocusedPane ==
  ASSUME SafeInv, Safe, NEW s \in PaneIds, ui.appFocus = s, Mode(s) = "pane"
  PROVE  /\ Listed(ui.current) /\ ui.current \in Made
         /\ \A t \in PaneIds : Open(t, "page") => selector[t].page # ui.current
<1>1. Base /\ ui.running
  BY DEF SafeInv, Safe
<1>2. ui.current # Nil /\ ui.current \in Made
  BY <1>1, FocusedPlace
<1>3. \A t \in PaneIds : Open(t, "page") => Own(t) /\ t # s
  BY DEF SafeInv, OwnPage, Open
<1> QED
  BY <1>2, <1>3, NamesDiffer DEF SafeInv, CurrentListed, Own

\* The user opens a selector only where none keeps the keys.
LEMMA FreeCommand ==
  ASSUME SafeInv, NEW s \in PaneIds, NEW g \in PageIds, Opens(s, g), Safe', NEW t \in PaneIds
  PROVE  ~Open(t, "page")
<1> SUFFICES ASSUME Open(t, "page")
             PROVE  FALSE
  OBVIOUS
<1>1. CASE ~overlapped'
  BY <1>1 DEF Opens, Selectors, Open
<1>2. CASE ~orphaned'
  <2>1. ui.running /\ ~orphaned /\ ~ToSelector
    BY <1>2 DEF Opens, Command
  <2>2. ui.selFocus = t /\ ui.appFocus = t
    BY <2>1 DEF SafeInv, Captive, HasKeys
  <2> QED
    BY <2>1, <2>2, NamesDiffer DEF ToSelector
<1> QED
  BY <1>1, <1>2 DEF Safe

LEMMA OneOpenNext ==
  ASSUME SafeInv, Step
  PROVE  OneOpen'
<1>1. ASSUME overlapped' = overlapped, \A p \in PaneIds : pane'[p] = "selector" => pane[p] = "selector"
      PROVE  OneOpen'
  BY <1>1 DEF OneOpen, SafeInv
<1>2. CASE Looks
  BY <1>1, <1>2 DEF Looks, SameStructure, StaySessions, Sessions
<1>3. ASSUME NEW s \in PaneIds, NEW g \in PageIds, Opens(s, g)
      PROVE  OneOpen'
  BY <1>3 DEF Opens, OneOpen, Selectors, SafeInv, Base, Types
<1>4. ASSUME NEW s, NEW g, NEW new, Closes(s, g, new)
      PROVE  OneOpen'
  BY <1>1, <1>4 DEF Closes
<1>5. ASSUME NEW p \in PaneIds, NEW g, Removes(p, g)
      PROVE  OneOpen'
  BY <1>1, <1>5 DEF Removes, SafeInv, Base, Types
<1> QED
  BY <1>2, <1>3, <1>4, <1>5 DEF Step

LEMMA CurrentNext ==
  ASSUME SafeInv, Base', Step
  PROVE  CurrentListed'
<1> SUFFICES ASSUME Safe'
             PROVE  ui'.current \in ToSet(ui'.pages) \/ ui'.current = Nil
  BY DEF CurrentListed, Listed
<1>1. Safe /\ (Listed(ui.current) \/ ui.current = Nil) /\ ui'.running
  BY SafeBefore DEF SafeInv, CurrentListed, Safe
<1>2. ASSUME ui'.pages = ui.pages, ui'.current = ui.current
      PROVE  ui'.current \in ToSet(ui'.pages) \/ ui'.current = Nil
  BY <1>1, <1>2 DEF Listed
<1>3. CASE Looks
  BY <1>2, <1>3 DEF Looks, SameStructure, Listed
<1>4. ASSUME NEW s \in PaneIds, NEW g \in PageIds, Opens(s, g)
      PROVE  ui'.current \in ToSet(ui'.pages) \/ ui'.current = Nil
  BY <1>2, <1>4 DEF Opens, Creates, Extends
<1>5. ASSUME NEW s \in PaneIds \cup {Initial}, NEW g \in PageIds, NEW new \in SUBSET PaneIds, Closes(s, g, new)
      PROVE  ui'.current \in ToSet(ui'.pages) \/ ui'.current = Nil
  <2>1. ui.appFocus = s
    BY <1>5 DEF Closes, Entered
  <2>2. CASE Mode(s) = "page" /\ Goes(ui', g, {selector[s].page}) /\ g = selector[s].prev
    <3>1. s \in PaneIds
      BY <2>2 DEF SafeInv, Base, Ids
    <3>2. Open(s, "page")
      BY <1>1, <2>1, <2>2, <3>1, FocusedPage DEF Open
    <3>3. Listed(g) \/ Panes(g) = {}
      BY <1>1, <2>2, <3>1, <3>2 DEF SafeInv, OwnPage, From
    <3>4. ui.page[g].panes # <<>> /\ ui.page[g].panes \in Seq(PaneIds)
      BY <1>1, <2>2 DEF Goes, SafeInv, Base, Types, UI, Page
    <3>5. Listed(g)
      BY <3>3, <3>4, EmptyToSet DEF Panes
    <3>6. g # selector[s].page
      BY <2>2, <3>1, Numbers DEF SafeInv, Base, Ids
    <3> QED
      BY <2>2, <3>5, <3>6 DEF Goes
  <2>3. CASE Goes(ui', ui.current, {})
    BY <1>1, <2>3 DEF Goes
  <2> QED
    BY <1>2, <1>5, <2>2, <2>3 DEF Closes, Creates, Extends, Shrinks
<1>6. ASSUME NEW p \in PaneIds, NEW g \in PageIds, Removes(p, g)
      PROVE  ui'.current \in ToSet(ui'.pages) \/ ui'.current = Nil
  BY <1>1, <1>2, <1>6 DEF Removes
<1> QED
  BY <1>3, <1>4, <1>5, <1>6 DEF Step

\* What keeps a selector alone on its page, and its way back.
LEMMA OwnKept ==
  ASSUME NEW t \in PaneIds, Own(t), selector'[t] = selector[t],
         ui'.page[selector[t].page] = ui.page[selector[t].page], selector[t].page \in ToSet(ui'.pages),
         \/ Refreshed(ui') \/ ui'.current # selector[t].page
         \/ ui'.current = ui.current /\ ui'.shown \subseteq ui.shown /\ ui'.appFocus = ui.appFocus,
         selector[t].page # Nil
  PROVE  Own(t)'
<1> SUFFICES ASSUME NEW g, g = selector[t].page
             PROVE  Own(t)'
  OBVIOUS
<1>1. /\ ui'.page[g] = ui.page[g] /\ Listed(g)' /\ Panes(g) = {t} /\ LeavesOf(g) = {t} /\ ui.page[g].focus = t /\ t # Nil
      /\ ui.current = g => ui.shown \subseteq {t} /\ ui.appFocus \in {t, List}
  BY NamesDiffer DEF Own, Listed
<1>2. Panes(g)' = {t} /\ LeavesOf(g)' = {t} /\ ui'.page[g].focus = t
  BY <1>1 DEF Panes, LeavesOf
<1>3. ui'.current = g => ui'.shown \subseteq {t} /\ ui'.appFocus \in {t, List}
  <2>1. CASE Refreshed(ui')
    BY <1>1, <2>1 DEF Refreshed, Here, LeavesOf
  <2>2. CASE ui'.current = ui.current /\ ui'.shown \subseteq ui.shown /\ ui'.appFocus = ui.appFocus
    BY <1>1, <2>2
  <2> QED
    BY <2>1, <2>2
<1>4. selector'[t].page = g
  OBVIOUS
<1> QED
  BY <1>1, <1>2, <1>3, <1>4 DEF Own, Listed, Panes, LeavesOf

\* A selector that is open after a step in which it was not opened.
LEMMA SelectorPage ==
  ASSUME Base, NEW t \in PaneIds, Open(t, "page")
  PROVE  /\ selector[t].page \in Made /\ selector[t].page \in PageIds /\ selector[t].page # ui.nextPage
         /\ selector[t].prev \in PageIds /\ selector[t].prev < selector[t].page
         /\ selector[t].prev # ui.nextPage /\ selector[t].prev # selector[t].page
         /\ selector[t].page # Nil /\ t \notin Sessions /\ t # Nil
<1>1. selector[t].page \in Made /\ selector[t].prev < selector[t].page /\ Mode(t) = "page"
  BY DEF Base, Ids, Open
<1>2. selector[t] \in [mode : {"page"}, page : PageIds, prev : PageIds]
  BY <1>1 DEF Base, Types, Captured, Mode
<1> QED
  BY <1>1, <1>2, Numbers, NamesDiffer DEF Base, Open, Sessions

LEMMA LookOwn ==
  ASSUME SafeInv, Base', Safe', Looks, NEW t \in PaneIds, Open(t, "page")'
  PROVE  Own(t)' /\ From(t)'
<1>1. Safe /\ Open(t, "page") /\ selector' = selector
  BY SafeBefore DEF SafeInv, Looks, SameStructure, StaySessions, Open, Mode, Sessions, Step
<1>2. Own(t) /\ From(t)
  BY <1>1 DEF SafeInv, OwnPage
<1> SUFFICES ASSUME NEW g, g = selector[t].page, NEW h, h = selector[t].prev
             PROVE  Own(t)' /\ From(t)'
  OBVIOUS
<1>3. g \in PageIds /\ h \in PageIds /\ t # Nil /\ g # Nil
  BY <1>1, SelectorPage DEF SafeInv
<1>4. /\ Listed(g)' /\ Panes(g)' = {t} /\ LeavesOf(g)' = {t} /\ ui'.page[g].focus = t
      /\ Listed(h)' \/ Panes(h)' = {}
  BY <1>2, <1>3 DEF Own, From, Looks, SameStructure, Listed, Panes, LeavesOf
<1>5. From(t)'
  BY <1>1, <1>4 DEF From, Listed, Panes
<1>6. ui'.current = g => ui'.shown \subseteq {t} /\ ui'.appFocus \in {t, List}
  <2>1. CASE Refreshed(ui')
    BY <1>3, <1>4, <2>1 DEF Refreshed, Here, LeavesOf
  <2>2. CASE ~Refreshed(ui')
    <3>1. CASE Unmoving
      BY <1>2, <3>1 DEF Unmoving, Own
    <3>2. CASE ui.current # Nil
      <4>1. /\ ui'.current = ui.current
            /\ \/ ui'.shown = {} /\ ui'.appFocus = List
               \/ ui'.shown = ui.shown /\ ui'.appFocus \in ui.shown \ {Nil}
               \/ ui'.shown = ui.shown /\ ui'.appFocus \in Panes(ui.current)
               \/ ui'.shown = ui.shown /\ ui'.appFocus = ui.appFocus
        BY <2>2, <3>2 DEF Looks, Attention, Safe, SameFocus, SameView
      <4> QED
        BY <1>2, <4>1 DEF Own
    <3> QED
      BY <3>1, <3>2 DEF Looks
  <2> QED
    BY <2>1, <2>2
<1> QED
  BY <1>1, <1>4, <1>5, <1>6 DEF Own, Listed, Panes, LeavesOf

LEMMA OpenOwn ==
  ASSUME SafeInv, Base', Safe', NEW s \in PaneIds, NEW g \in PageIds, Opens(s, g), NEW t \in PaneIds, Open(t, "page")'
  PROVE  Own(t)' /\ From(t)'
<1>1. Safe
  BY SafeBefore DEF SafeInv, Step
<1>2. CASE t # s
  BY <1>2, FreeCommand DEF Opens, Open, Mode, SafeInv, Base, Types
<1>3. CASE t = s
  <2>1. /\ Creates(ui', g, {s}, {}) /\ selector'[s].page = g /\ selector'[s].prev = ui.current
    BY <1>3 DEF Opens, Open
  <2>2. Listed(ui.current)
    BY <1>1 DEF Opens, Command, SafeInv, CurrentListed
  <2>3. PICK h : h = ui.current
    OBVIOUS
  <2>4. Listed(h)' /\ Listed(g)' /\ Panes(g)' = {s} /\ LeavesOf(g)' = {s} /\ ui'.page[g].focus = s
    BY <2>1, <2>2, <2>3 DEF Creates, Listed, Panes, LeavesOf
  <2>5. ui'.shown = {s} /\ ui'.appFocus = s
    BY <2>1, <2>4, NamesDiffer DEF Creates, Refreshed, Here, LeavesOf
  <2> QED
    BY <1>3, <2>1, <2>3, <2>4, <2>5 DEF Own, From, Listed, Panes, LeavesOf
<1> QED
  BY <1>2, <1>3

LEMMA CloseOwn ==
  ASSUME SafeInv, Base', Safe', NEW s \in PaneIds \cup {Initial}, NEW g \in PageIds, NEW new \in SUBSET PaneIds,
         Closes(s, g, new), NEW t \in PaneIds, Open(t, "page")'
  PROVE  Own(t)' /\ From(t)'
<1>1. /\ Safe /\ t # s /\ Open(t, "page") /\ selector'[t] = selector[t] /\ ui.running /\ ui.appFocus = s
      /\ Mode(s) # "none"
  BY SafeBefore DEF SafeInv, Step, Closes, Open, Mode, Entered
<1>2. Own(t) /\ From(t) /\ Base
  BY <1>1 DEF SafeInv, OwnPage
<1> SUFFICES ASSUME NEW own, own = selector[t].page, NEW h, h = selector[t].prev
             PROVE  Own(t)' /\ From(t)'
  OBVIOUS
<1>3. own \in PageIds /\ h \in PageIds /\ own # Nil /\ own # ui.nextPage /\ h # ui.nextPage /\ h # own
  BY <1>1, <1>2, SelectorPage
<1>4. Listed(own) /\ (Listed(h) \/ Panes(h) = {})
  BY <1>2 DEF Own, From
<1>5. ASSUME ui'.page[own] = ui.page[own], own \in ToSet(ui'.pages), 
             \/ Refreshed(ui') \/ ui'.current # own
             \/ ui'.current = ui.current /\ ui'.shown \subseteq ui.shown /\ ui'.appFocus = ui.appFocus,
             h \in ToSet(ui'.pages) \/ ToSet(ui'.page[h].panes) = {}
      PROVE  Own(t)' /\ From(t)'
  <2>1. Own(t)'
    BY <1>1, <1>2, <1>3, <1>5, OwnKept
  <2> QED
    BY <1>1, <1>5, <2>1 DEF From, Listed, Panes
<1>6. CASE Mode(s) = "page"
  <2>1. s \in PaneIds
    BY <1>2, <1>6 DEF Base, Ids
  <2> QED
    BY <1>1, <1>6, <2>1, FocusedPage
<1>7. CASE Mode(s) = "initial" /\ Creates(ui', g, new, {})
  <2>1. ui'.page[own] = ui.page[own] /\ ui'.page[h] = ui.page[h] /\ Refreshed(ui')
    BY <1>3, <1>7 DEF Creates, OtherPages
  <2>2. own \in ToSet(ui'.pages) /\ (h \in ToSet(ui'.pages) \/ Panes(h) = {})
    BY <1>4, <1>7 DEF Creates
  <2> QED
    BY <1>5, <2>1, <2>2 DEF Panes
<1>8. CASE Mode(s) = "initial" /\ Goes(ui', ui.current, {})
  <2>1. ui'.page = ui.page /\ Refreshed(ui')
    BY <1>8 DEF Goes, Safe
  <2>2. own \in ToSet(ui'.pages) /\ (h \in ToSet(ui'.pages) \/ Panes(h) = {})
    BY <1>4, <1>8 DEF Goes
  <2> QED
    BY <1>5, <2>1, <2>2 DEF Panes
<1>9. CASE Mode(s) = "pane" /\ (Extends(ui', g, new, {s}) \/ Shrinks(ui', g, s))
  <2>1. s \in PaneIds
    BY <1>2, <1>9 DEF Base, Ids
  <2>2. Listed(ui.current) /\ own # ui.current
    BY <1>1, <1>9, <2>1, FocusedPane
  <2>3. g = ui.current /\ ui'.current = g /\ ui'.pages = ui.pages /\ OtherPages(ui', g)
    BY <1>9 DEF Extends, Shrinks
  <2>4. ui'.page[own] = ui.page[own] /\ own \in ToSet(ui'.pages)
    BY <1>3, <1>4, <2>2, <2>3 DEF OtherPages, Listed
  <2>5. h \in ToSet(ui'.pages) \/ ToSet(ui'.page[h].panes) = {}
    BY <1>3, <1>4, <2>2, <2>3 DEF OtherPages, Listed, Panes
  <2> QED
    BY <1>5, <2>2, <2>3, <2>4, <2>5
<1> QED
  BY <1>6, <1>7, <1>8, <1>9 DEF Closes

LEMMA RemoveOwn ==
  ASSUME SafeInv, Base', Safe', NEW p \in PaneIds, NEW g \in PageIds, Removes(p, g), NEW t \in PaneIds, Open(t, "page")'
  PROVE  Own(t)' /\ From(t)'
<1>1. Safe /\ Open(t, "page") /\ selector' = selector /\ p \in Sessions /\ ui'.running
  BY SafeBefore DEF SafeInv, Step, Removes, Open, Mode, Base, Types, Safe
<1>2. Own(t) /\ From(t) /\ Base
  BY <1>1 DEF SafeInv, OwnPage
<1> SUFFICES ASSUME NEW own, own = selector[t].page, NEW h, h = selector[t].prev
             PROVE  Own(t)' /\ From(t)'
  OBVIOUS
<1>3. own \in PageIds /\ h \in PageIds /\ own # Nil /\ t \notin Sessions
  BY <1>1, <1>2, SelectorPage
<1>4. Listed(own) /\ (Listed(h) \/ Panes(h) = {}) /\ Panes(own) = {t}
  BY <1>2 DEF Own, From
<1>5. CASE ui' = ui
  BY <1>1, <1>2, <1>5 DEF Own, From, Listed, Panes, LeavesOf
<1>6. CASE ui' # ui
  <2>1. /\ p \in Panes(g) /\ OtherPages(ui', g) /\ Dropped(ui', g, {p}, {})
        /\ Panes(g) # {p} => /\ ui'.pages = ui.pages /\ ui'.current = ui.current
                             /\ Refreshed(ui') \/ SameView(ui', ui)
        /\ Panes(g) = {p} => /\ \A x : x \in ToSet(ui'.pages) <=> Listed(x) /\ x # g
                             /\ Refreshed(ui')
    BY <1>1, <1>6 DEF Removes
  <2>2. own # g
    BY <1>1, <1>3, <1>4, <2>1
  <2>3. ui'.page[own] = ui.page[own] /\ own \in ToSet(ui'.pages)
    BY <1>3, <1>4, <2>1, <2>2 DEF OtherPages, Listed
  <2>4. \/ Refreshed(ui') \/ ui'.current # own
        \/ ui'.current = ui.current /\ ui'.shown \subseteq ui.shown /\ ui'.appFocus = ui.appFocus
    BY <2>1 DEF SameView
  <2>5. Own(t)'
    BY <1>1, <1>2, <1>3, <2>3, <2>4, OwnKept
  <2>6. h \in ToSet(ui'.pages) \/ ToSet(ui'.page[h].panes) = {}
    <3>1. CASE h = g
      BY <1>4, <2>1, <3>1 DEF Dropped, Listed
    <3>2. CASE h # g
      BY <1>3, <1>4, <2>1, <3>2 DEF OtherPages, Listed, Panes
    <3> QED
      BY <3>1, <3>2
  <2> QED
    BY <1>1, <2>5, <2>6 DEF From, Listed, Panes
<1> QED
  BY <1>5, <1>6

LEMMA OwnNext ==
  ASSUME SafeInv, Base', Step
  PROVE  OwnPage'
  BY LookOwn, OpenOwn, CloseOwn, RemoveOwn DEF OwnPage, Step

LEMMA CaptiveNext ==
  ASSUME SafeInv, Base', Step
  PROVE  Captive'
<1> SUFFICES ASSUME ui'.running, ~orphaned', NEW t \in PaneIds, Open(t, "page")'
             PROVE  HasKeys(t)'
  BY DEF Captive
<1>1. Base /\ ui.running /\ ~orphaned /\ Safe /\ Safe'
  BY SafeBefore DEF SafeInv, Safe
<1>2. ASSUME Open(t, "page")
      PROVE  /\ HasKeys(t) /\ ~Command /\ Own(t)
             /\ selector[t].prev \in PageIds /\ selector[t].page \in PageIds /\ t # Nil
  <2>1. t # Nil /\ selector[t].prev \in PageIds /\ selector[t].page \in PageIds
    BY <1>1, <1>2, SelectorPage
  <2> QED
    BY <1>1, <1>2, <2>1 DEF SafeInv, Captive, HasKeys, Command, ToSelector, OwnPage
<1>3. CASE Looks
  <2>1. Open(t, "page") /\ selector' = selector
    BY <1>3 DEF Looks, SameStructure, StaySessions, Open, Mode, Sessions
  <2>2. CASE Unmoving
    BY <1>2, <2>1, <2>2 DEF Unmoving, HasKeys, Panes
  <2>3. CASE ui.current # Nil
    <3> SUFFICES ASSUME NEW g, g = selector[t].page, NEW h, h = selector[t].prev
                 PROVE  HasKeys(t)'
      OBVIOUS
    <3>1. ui.current = g /\ g \in PageIds /\ h \in PageIds /\ Panes(h) # {}
      BY <1>2, <2>1 DEF HasKeys
    <3>2. Panes(h)' # {}
      BY <1>3, <3>1 DEF Looks, SameStructure, Panes
    <3>3. \/ Refreshed(ui') /\ SameFocus
          \/ /\ SameFocus /\ ui'.shown = ui.shown /\ ui'.listed = ui.listed
             /\ ui'.appFocus \in ui.shown \ {Nil}
          \/ /\ ui'.current = ui.current /\ ui'.shown = ui.shown /\ ui'.listed = ui.listed
             /\ ui'.appFocus \in Panes(ui.current)
          \/ SameFocus /\ SameView(ui', ui)
      BY <1>2, <1>3, <2>1, NamesDiffer DEF Looks, Attention, HasKeys
    <3>4. Refreshed(ui') /\ SameFocus => ui'.current = g /\ ui'.appFocus = t /\ ui'.listed = <<>>
      BY <1>2, <2>1, <3>1, NamesDiffer DEF Refreshed, SameFocus, Here, Own, HasKeys
    <3>5. ui.shown \subseteq {t} /\ Panes(g) = {t} /\ ui.listed = <<>> /\ ui.appFocus = t
      BY <1>2, <2>1 DEF Own, HasKeys
    <3>6. ui'.current = g /\ ui'.appFocus = t /\ ui'.listed = <<>>
      BY <3>1, <3>3, <3>4, <3>5 DEF SameFocus, SameView
    <3>7. ui'.selFocus = t
      BY <1>2, <1>3, <2>1 DEF Looks, SameStructure, HasKeys
    <3> QED
      BY <2>1, <3>2, <3>6, <3>7 DEF HasKeys, Panes
  <2> QED
    BY <1>3, <2>2, <2>3 DEF Looks
<1>4. ASSUME NEW s \in PaneIds, NEW g \in PageIds, Opens(s, g)
      PROVE  HasKeys(t)'
  <2>1. \A r \in PaneIds : ~Open(r, "page")
    BY <1>1, <1>4, FreeCommand
  <2>2. t = s
    BY <1>1, <1>4, <2>1 DEF Opens, Open, Mode, Base, Types
  <2>3. /\ Creates(ui', g, {s}, {}) /\ selector'[s].page = g /\ selector'[s].prev = ui.current
        /\ ui'.selFocus = s /\ ui.current # Nil
    BY <1>4, <2>2 DEF Opens, Open, Command
  <2>4. PICK h : h = ui.current
    OBVIOUS
  <2>5. Listed(h) /\ h \in PageIds /\ h # g
    BY <1>1, <2>3, <2>4, Numbers DEF SafeInv, CurrentListed, Base, Ids, Creates
  <2>6. Panes(h) # {}
    BY <1>1, <2>1, <2>5 DEF SafeInv, Inhabited, Lived
  <2>7. Panes(h)' # {}
    BY <2>3, <2>5, <2>6 DEF Creates, OtherPages, Panes
  <2>8. ui'.current = g /\ ui'.appFocus = s /\ ui'.listed = <<>>
    BY <2>3, NamesDiffer DEF Creates, Refreshed, Here
  <2> QED
    BY <2>2, <2>3, <2>4, <2>7, <2>8 DEF HasKeys, Panes
<1>5. ASSUME NEW s \in PaneIds \cup {Initial}, NEW g \in PageIds, NEW new \in SUBSET PaneIds, Closes(s, g, new)
      PROVE  FALSE
  <2>1. Open(t, "page") /\ t # s /\ ui.appFocus = s
    BY <1>5 DEF Closes, Open, Mode, Entered
  <2> QED
    BY <1>2, <2>1 DEF HasKeys
<1>6. ASSUME NEW p \in PaneIds, NEW g \in PageIds, Removes(p, g)
      PROVE  FALSE
  BY <1>6 DEF Removes, Open, Selectors, Base, Types
<1> QED
  BY <1>3, <1>4, <1>5, <1>6 DEF Step

(***************************************************************************)
(* Every session can be reached.                                           *)
(***************************************************************************)
\* A session is on no page but its own.
LEMMA OnOwnPage ==
  ASSUME Base, NEW p \in Sessions, NEW g \in Made, Uses(p, g)
  PROVE  g = home[p]
<1>1. PICK on \in [PaneIds -> PageIds] : Placed(on)
  BY DEF Base, Placement
<1>2. on[p] = g /\ on[p] = home[p]
  BY <1>1 DEF Placed, PlacedPages, PlacedSessions, Sessions
<1> QED
  BY <1>2

\* What Reachable says of one session.
AtHome(p, g) == Listed(g) /\ p \in Panes(g) /\ p \in LeavesOf(g)

LEMMA ReachableNext ==
  ASSUME SafeInv, Base', Step
  PROVE  Reachable'
<1> SUFFICES ASSUME Safe', NEW q \in PaneIds, q \in Sessions', NEW g, g = home'[q]
             PROVE  AtHome(q, g)'
  BY DEF Reachable, AtHome, Sessions, Listed, Panes, LeavesOf
<1> USE DEF AtHome, Listed, Panes, LeavesOf
<1>1. Base /\ Safe /\ ui.running
  BY SafeBefore DEF SafeInv, Safe
<1>2. ASSUME q \in Sessions, home'[q] = home[q]
      PROVE  AtHome(q, g) /\ g \in PageIds /\ g # ui.nextPage /\ Mode(q) = "none" /\ q < ui.nextPane
  <2>1. g \in Made /\ Mode(q) = "none" /\ ~(q >= ui.nextPane)
    BY <1>1, <1>2, NamesDiffer DEF Base, Ids, Sessions
  <2> QED
    BY <1>1, <1>2, <2>1, Numbers DEF SafeInv, Reachable, Base
<1>3. CASE Looks
  <2>1. q \in Sessions /\ home' = home
    BY <1>3 DEF Looks, SameStructure, StaySessions, Sessions
  <2> QED
    BY <1>2, <1>3, <2>1 DEF Looks, SameStructure
<1>4. ASSUME NEW s \in PaneIds, NEW h \in PageIds, Opens(s, h)
      PROVE  AtHome(q, g)'
  <2>1. q \in Sessions /\ home' = home
    BY <1>1, <1>4 DEF Opens, Sessions, Base, Types
  <2> QED
    BY <1>2, <1>4, <2>1 DEF Opens, Creates, Extends, OtherPages, Dropped
<1>5. ASSUME NEW s \in PaneIds \cup {Initial}, NEW h \in PageIds, NEW new \in SUBSET PaneIds, Closes(s, h, new)
      PROVE  AtHome(q, g)'
  <2>1. ui.appFocus = s /\ Mode(s) # "none"
    BY <1>5 DEF Closes, Entered
  <2>2. CASE q \in new
    <3>1. g = h
      BY <1>5, <2>2 DEF Closes
    <3>2. CASE \E d : Creates(ui', h, new, d)
      BY <2>2, <3>1, <3>2 DEF Creates
    <3>3. CASE Mode(s) = "pane" /\ Extends(ui', h, new, {s})
      <4>1. s \in PaneIds
        BY <1>1, <3>3 DEF Base, Ids
      <4>2. Listed(ui.current)
        BY <1>1, <2>1, <3>3, <4>1, FocusedPane
      <4> QED
        BY <2>2, <3>1, <3>3, <4>2 DEF Extends, Dropped
    <3> QED
      BY <1>5, <2>2, <3>2, <3>3 DEF Closes
  <2>3. CASE q \notin new
    <3>1. q # s /\ q \in Sessions /\ home'[q] = home[q]
      BY <1>5, <2>3 DEF Closes, Sessions
    <3>2. AtHome(q, g) /\ g \in PageIds /\ g # ui.nextPage
      BY <1>2, <3>1
    <3>3. CASE Mode(s) = "page"
      <4>1. s \in PaneIds
        BY <1>1, <3>3 DEF Base, Ids
      <4>2. Open(s, "page")
        BY <1>1, <2>1, <3>3, <4>1, FocusedPage DEF Open
      <4>3. Panes(selector[s].page) = {s}
        BY <1>1, <4>1, <4>2 DEF SafeInv, OwnPage, Own
      <4>4. g # selector[s].page
        BY <3>1, <3>2, <4>3
      <4>5. PICK d : d = {selector[s].page}
        OBVIOUS
      <4>6. Creates(ui', h, new, d) \/ Goes(ui', h, d)
        BY <1>5, <3>3, <4>5 DEF Closes
      <4> QED
        BY <3>2, <4>4, <4>5, <4>6 DEF Creates, Goes, OtherPages
    <3>4. CASE Mode(s) = "initial"
      <4>1. Creates(ui', h, new, {}) \/ Goes(ui', ui.current, {})
        BY <1>5, <3>4 DEF Closes
      <4> QED
        BY <3>2, <4>1 DEF Creates, Goes, OtherPages
    <3>5. CASE Mode(s) = "pane"
      <4>1. Extends(ui', h, new, {s}) \/ Shrinks(ui', h, s)
        BY <1>5, <3>5 DEF Closes
      <4>2. /\ ui'.pages = ui.pages /\ OtherPages(ui', h)
            /\ Dropped(ui', h, {s}, new) \/ Dropped(ui', h, {s}, {})
        BY <4>1 DEF Extends, Shrinks
      <4> QED
        BY <3>1, <3>2, <4>2 DEF OtherPages, Dropped
    <3> QED
      BY <1>5, <3>3, <3>4, <3>5 DEF Closes
  <2> QED
    BY <2>2, <2>3
<1>6. ASSUME NEW p \in PaneIds, NEW h \in PageIds, Removes(p, h)
      PROVE  AtHome(q, g)'
  <2>1. q # p /\ q \in Sessions /\ home' = home
    BY <1>1, <1>6 DEF Removes, Sessions, Base, Types
  <2>2. AtHome(q, g) /\ g \in PageIds
    BY <1>2, <2>1
  <2>3. CASE ui' = ui
    BY <2>2, <2>3
  <2>4. CASE ui' # ui
    <3>1. /\ OtherPages(ui', h) /\ Dropped(ui', h, {p}, {})
          /\ Panes(h) # {p} => ui'.pages = ui.pages
          /\ Panes(h) = {p} => \A x : x \in ToSet(ui'.pages) <=> Listed(x) /\ x # h
      BY <1>6, <2>4 DEF Removes
    <3>2. g = h => Panes(h) # {p}
      BY <2>1, <2>2
    <3> QED
      BY <2>1, <2>2, <3>1, <3>2 DEF OtherPages, Dropped
  <2> QED
    BY <2>3, <2>4
<1> QED
  BY <1>3, <1>4, <1>5, <1>6 DEF Step

(***************************************************************************)
(* Every page has a session, or a selector of its own.                     *)
(***************************************************************************)
\* A page whose panes stay has what it had, unless one of them changes.
LEMMA StaysLived ==
  ASSUME NEW g, Lived(g), ToSet(ui'.page[g].panes) = Panes(g), Panes(g) \subseteq PaneIds,
         \A p \in Panes(g) : pane'[p] = pane[p] \/ (p \in Sessions /\ p \in Sessions'),
         \A s \in PaneIds : Open(s, "page") /\ selector[s].page = g =>
           pane'[s] = pane[s] /\ selector'[s] = selector[s]
  PROVE  Lived(g)'
<1>1. \A p \in Panes(g) : /\ p \in Sessions \cup Selectors => p \in Sessions' \cup Selectors'
                          /\ p \in Sessions => p \in Sessions'
  BY DEF Sessions, Selectors
<1>2. Panes(g)' \subseteq Sessions' \cup Selectors'
  <2>1. Panes(g)' = Panes(g)
    BY DEF Panes
  <2>2. Panes(g) \subseteq Sessions \cup Selectors
    BY DEF Lived
  <2>3. \A p \in Panes(g) : p \in Sessions' \cup Selectors'
    BY <1>1, <2>2
  <2> QED
    BY <2>1, <2>3
<1>3. CASE \E s \in PaneIds : Open(s, "page") /\ g = selector[s].page
  BY <1>2, <1>3 DEF Lived, Open, Mode
<1>4. CASE \E q \in Panes(g) : q \in Sessions
  BY <1>1, <1>2, <1>4 DEF Lived, Panes
<1> QED
  BY <1>3, <1>4 DEF Lived

\* A page with new panes has one that connects.
LEMMA NewLived ==
  ASSUME NEW g, NEW old, NEW new \in SUBSET PaneIds, new # {}, ToSet(ui'.page[g].panes) = old \cup new,
         \A p \in new : pane'[p] = "connecting", old \subseteq Sessions' \cup Selectors'
  PROVE  Lived(g)'
<1>1. new \subseteq Sessions'
  BY DEF Sessions
<1>2. Panes(g)' = old \cup new
  BY DEF Panes
<1>3. PICK q \in new : q \in Sessions'
  BY <1>1
<1>4. Panes(g)' \subseteq Sessions' \cup Selectors'
  BY <1>1, <1>2
<1>5. \E x \in Panes(g)' : x \in Sessions'
  BY <1>2, <1>3
<1> QED
  BY <1>4, <1>5 DEF Lived

LEMMA LookLived ==
  ASSUME SafeInv, Looks, ui'.running, ~orphaned', NEW g \in PageIds, Listed(g)'
  PROVE  Lived(g)'
<1>1. Base /\ ui.running /\ ~orphaned /\ Listed(g) /\ selector' = selector
  BY DEF SafeInv, Looks, SameStructure, Listed
<1>2. Lived(g)
  BY <1>1 DEF SafeInv, Inhabited
<1>3. ToSet(ui'.page[g].panes) = Panes(g) /\ Panes(g) \subseteq PaneIds
  BY <1>1, Numbers DEF Looks, SameStructure, Panes, Base
<1>4. \A p \in Panes(g) : pane'[p] = pane[p] \/ (p \in Sessions /\ p \in Sessions')
  BY <1>3 DEF Looks, StaySessions
<1>5. \A s \in PaneIds : Open(s, "page") => pane'[s] = pane[s]
  BY DEF Looks, StaySessions, Open, Sessions
<1> QED
  BY <1>1, <1>2, <1>3, <1>4, <1>5, StaysLived

LEMMA OpenLived ==
  ASSUME SafeInv, NEW s \in PaneIds, NEW h \in PageIds, Opens(s, h), ~orphaned', NEW g \in PageIds, Listed(g)'
  PROVE  Lived(g)'
<1>1. /\ Base /\ ui.running /\ ~orphaned /\ s = ui.nextPane
      /\ \A t \in PaneIds : t # s => pane'[t] = pane[t] /\ selector'[t] = selector[t]
      /\ pane'[s] = "selector"
  BY DEF SafeInv, Opens, Command, Base, Types
<1>2. pane[s] = "new" /\ ~Open(s, "page") /\ s \in Selectors' /\ s \notin Sessions /\ s \notin Selectors
  BY <1>1, Numbers DEF Base, Ids, Open, Selectors, Sessions
<1>3. \A t \in PaneIds : Open(t, "page") => pane'[t] = pane[t] /\ selector'[t] = selector[t]
  BY <1>1, <1>2
<1>4. CASE g = h /\ Creates(ui', h, {s}, {}) /\ Mode(s)' = "page" /\ selector'[s].page = h
  <2>1. Panes(g)' = {s}
    BY <1>4 DEF Creates, Panes
  <2>2. Open(s, "page")'
    BY <1>1, <1>4 DEF Open, Mode
  <2> QED
    BY <1>2, <1>4, <2>1, <2>2 DEF Lived
<1>5. CASE g # h /\ Listed(g)
  <2>1. Lived(g) /\ Panes(g) \subseteq PaneIds
    BY <1>1, <1>5, Numbers DEF SafeInv, Inhabited, Base
  <2>2. ToSet(ui'.page[g].panes) = Panes(g)
    BY <1>5 DEF Opens, Creates, Extends, OtherPages, Panes
  <2>3. \A p \in Panes(g) : pane'[p] = pane[p]
    BY <1>1, <1>2, <2>1 DEF Lived
  <2> QED
    BY <1>3, <2>1, <2>2, <2>3, StaysLived
<1>6. CASE g = h /\ Listed(g) /\ Extends(ui', h, {s}, {})
  <2>1. Lived(g) /\ Panes(g) \subseteq PaneIds
    BY <1>1, <1>6, Numbers DEF SafeInv, Inhabited, Base
  <2>2. Panes(g)' = Panes(g) \cup {s}
    BY <1>6 DEF Extends, Dropped, Panes
  <2>3. \A p \in Panes(g) : p \in Sessions' \cup Selectors' /\ (p \in Sessions => p \in Sessions')
    BY <1>1, <1>2, <2>1 DEF Lived, Sessions, Selectors
  <2>4. CASE \E t \in PaneIds : Open(t, "page") /\ g = selector[t].page
    BY <1>2, <1>3, <2>2, <2>3, <2>4 DEF Lived, Open, Mode
  <2>5. CASE \E q \in Panes(g) : q \in Sessions
    BY <1>2, <2>2, <2>3, <2>5 DEF Lived
  <2> QED
    BY <2>1, <2>4, <2>5 DEF Lived
<1> QED
  BY <1>4, <1>5, <1>6 DEF Opens, Creates, Extends, Listed

LEMMA CloseLived ==
  ASSUME SafeInv, NEW s \in PaneIds \cup {Initial}, NEW h \in PageIds, NEW new \in SUBSET PaneIds,
         Closes(s, h, new), ~orphaned', NEW g \in PageIds, Listed(g)'
  PROVE  Lived(g)'
<1>1. /\ Base /\ Safe /\ ui.running /\ ~orphaned /\ ui.appFocus = s /\ Mode(s) # "none"
      /\ \A p \in PaneIds : pane'[p] = IF p \in new THEN "connecting" ELSE IF p = s THEN "gone" ELSE pane[p]
      /\ selector' = selector
  BY DEF SafeInv, Closes, Entered, Safe
<1>2. s \in PaneIds => s \notin Sessions /\ s < ui.nextPane
  BY <1>1, Numbers DEF Base, Ids, Sessions
<1>3. new = {} \/ NewIds(ui', new)
  BY DEF Closes, Creates, Extends
<1>4. \A p \in PaneIds : Mode(p) # "none" => p \notin new
  BY <1>1, <1>3, Numbers DEF Base, Ids, NewIds
<1>5. \A p \in PaneIds : p \in Sessions => p \in Sessions'
  BY <1>1, <1>2 DEF Sessions
<1>6. \A p \in PaneIds : p \in Selectors /\ p # s => p \in Selectors'
  BY <1>1, <1>4 DEF Base, Ids, Selectors
\* A page that is not the one the panes are made on, and not the selector's.
<1>7. ASSUME Listed(g), ui'.page[g] = ui.page[g], s \notin Panes(g),
             \A t \in PaneIds : Open(t, "page") /\ selector[t].page = g => t # s
      PROVE  Lived(g)'
  <2>1. Lived(g) /\ Panes(g) \subseteq PaneIds
    BY <1>1, <1>7, Numbers DEF SafeInv, Inhabited, Base
  <2>2. \A p \in Panes(g) : pane'[p] = pane[p] \/ (p \in Sessions /\ p \in Sessions')
    BY <1>1, <1>4, <1>5, <1>7, <2>1 DEF Lived, Base, Ids, Selectors
  <2>3. \A t \in PaneIds : Open(t, "page") /\ selector[t].page = g => pane'[t] = pane[t]
    BY <1>1, <1>4, <1>7 DEF Open
  <2> QED
    BY <1>1, <1>7, <2>1, <2>2, <2>3, StaysLived DEF Panes
<1>8. ASSUME NEW d, Creates(ui', h, new, d), g = h
      PROVE  Lived(g)'
  <2>1. PICK none : none = {}
    OBVIOUS
  <2>2. new # {} /\ ToSet(ui'.page[g].panes) = none \cup new /\ none \subseteq Sessions' \cup Selectors'
    BY <1>8, <2>1 DEF Creates, NewIds
  <2> QED
    BY <1>1, <2>2, NewLived
<1>9. CASE Mode(s) = "page"
  <2>1. s \in PaneIds
    BY <1>1, <1>9 DEF Base, Ids
  <2>2. PICK d : d = {selector[s].page}
    OBVIOUS
  <2>3. Creates(ui', h, new, d) \/ Goes(ui', h, d)
    BY <1>9, <2>2 DEF Closes
  <2>4. g # h \/ Goes(ui', h, d) => Listed(g) /\ g # selector[s].page /\ ui'.page[g] = ui.page[g]
    BY <2>2, <2>3 DEF Creates, Goes, OtherPages, Listed
  <2>5. Listed(g) /\ g # selector[s].page => s \notin Panes(g)
    BY <1>1, <1>9, <2>1, FocusedPlace DEF Base, Ids, Listed
  <2> QED
    BY <1>7, <1>8, <2>3, <2>4, <2>5
<1>10. CASE Mode(s) = "initial"
  <2>1. s \notin PaneIds
    BY <1>1, <1>10 DEF Base, Ids
  <2>2. PICK d : d = {}
    OBVIOUS
  <2>3. Creates(ui', h, new, d) \/ Goes(ui', ui.current, d)
    BY <1>10, <2>2 DEF Closes
  <2>4. g # h \/ Goes(ui', ui.current, d) => Listed(g) /\ ui'.page[g] = ui.page[g]
    BY <2>2, <2>3 DEF Creates, Goes, OtherPages, Listed
  <2>5. s \notin Panes(g)
    BY <1>1, <2>1, Numbers DEF Base
  <2> QED
    BY <1>7, <1>8, <2>1, <2>3, <2>4, <2>5
<1>11. CASE Mode(s) = "pane"
  <2>1. s \in PaneIds
    BY <1>1, <1>11 DEF Base, Ids
  <2>2. Extends(ui', h, new, {s}) \/ (Shrinks(ui', h, s) /\ new = {})
    BY <1>11 DEF Closes
  <2>3. /\ h = ui.current /\ OtherPages(ui', h) /\ ui'.pages = ui.pages
        /\ ToSet(ui'.page[h].panes) = (Panes(h) \ {s}) \cup new
    BY <2>2 DEF Extends, Shrinks, Dropped
  <2>4. Listed(g) /\ g \in Made
    BY <1>1, <2>3 DEF Listed, Base, Ids
  <2>5. CASE g # h
    <3>1. s \notin Panes(g)
      BY <1>1, <1>11, <2>1, <2>3, <2>4, <2>5, FocusedPlace
    <3>2. \A t \in PaneIds : Open(t, "page") => t # s
      BY <1>11 DEF Open
    <3> QED
      BY <1>7, <2>3, <2>4, <2>5, <3>1, <3>2 DEF OtherPages
  <2>6. CASE g = h
    <3>1. Lived(g) /\ Panes(g) \subseteq PaneIds
      BY <1>1, <2>4, Numbers DEF SafeInv, Inhabited, Base
    <3>2. Panes(g) \ {s} \subseteq Sessions' \cup Selectors'
      BY <1>5, <1>6, <3>1 DEF Lived
    <3>3. CASE new # {}
      <4>1. PICK old : old = Panes(g) \ {s}
        OBVIOUS
      <4> QED
        BY <1>1, <2>3, <2>6, <3>2, <3>3, <4>1, NewLived
    <3>4. CASE new = {}
      <4>1. PICK q \in Panes(g) : q \in Sessions
        BY <1>1, <1>11, <2>1, <2>3, <2>6, <3>1, FocusedPane DEF Lived
      <4>2. q # s /\ q \in PaneIds
        BY <1>2, <3>1, <4>1
      <4>3. Panes(g)' = Panes(g) \ {s}
        BY <2>3, <2>6, <3>4 DEF Panes
      <4> QED
        BY <1>5, <3>2, <4>1, <4>2, <4>3 DEF Lived
    <3> QED
      BY <3>3, <3>4
  <2> QED
    BY <2>5, <2>6
<1> QED
  BY <1>9, <1>10, <1>11 DEF Closes

LEMMA RemoveLived ==
  ASSUME SafeInv, NEW p \in PaneIds, NEW h \in PageIds, Removes(p, h), ui'.running, ~orphaned',
         NEW g \in PageIds, Listed(g)'
  PROVE  Lived(g)'
<1>1. /\ Base /\ Safe /\ ui.running /\ ~orphaned /\ p \in Sessions /\ Selectors = {}
      /\ \A q \in PaneIds : pane'[q] = IF q = p THEN "gone" ELSE pane[q]
      /\ selector' = selector
  BY DEF SafeInv, Removes, Safe, Base, Types
<1>2. Listed(home[p]) /\ p \in Panes(home[p])
  BY <1>1 DEF SafeInv, Reachable
<1>3. h = home[p]
  BY <1>1, NamesDiffer, OnOwnPage DEF Removes, Base, Ids, Uses
<1>4. /\ OtherPages(ui', h) /\ Dropped(ui', h, {p}, {})
      /\ Panes(h) # {p} => ui'.pages = ui.pages
      /\ Panes(h) = {p} => \A x : x \in ToSet(ui'.pages) <=> Listed(x) /\ x # h
  BY <1>2, <1>3 DEF Removes
<1>5. Listed(g) /\ g \in Made /\ (g = h => Panes(h) # {p})
  BY <1>1, <1>4 DEF Listed, Base, Ids
<1>6. Lived(g) /\ Panes(g) \subseteq PaneIds
  BY <1>1, <1>5, Numbers DEF SafeInv, Inhabited, Base
<1>7. Panes(g) \subseteq Sessions /\ \A t \in PaneIds : ~Open(t, "page")
  BY <1>1, <1>6 DEF Lived, Open, Selectors
<1>8. CASE g # h
  <2>1. p \notin Panes(g)
    BY <1>1, <1>3, <1>5, <1>8, OnOwnPage DEF Uses
  <2>2. ToSet(ui'.page[g].panes) = Panes(g)
    BY <1>4, <1>8 DEF OtherPages, Panes
  <2>3. \A q \in Panes(g) : pane'[q] = pane[q]
    BY <1>1, <1>6, <2>1
  <2> QED
    BY <1>6, <1>7, <2>2, <2>3, StaysLived
<1>9. CASE g = h
  <2>1. Panes(g)' = Panes(g) \ {p}
    BY <1>4, <1>9 DEF Dropped, Panes
  <2>2. PICK q \in Panes(g) : q # p
    BY <1>2, <1>3, <1>5, <1>9
  <2>3. \A r \in Panes(g) \ {p} : r \in Sessions'
    BY <1>1, <1>6, <1>7 DEF Sessions
  <2> QED
    BY <2>1, <2>2, <2>3 DEF Lived
<1> QED
  BY <1>8, <1>9

LEMMA InhabitedNext ==
  ASSUME SafeInv, Base', Step
  PROVE  Inhabited'
<1> SUFFICES ASSUME ui'.running, ~orphaned', NEW g \in PageIds, Listed(g)'
             PROVE  Lived(g)'
  BY DEF Inhabited
<1> QED
  BY LookLived, OpenLived, CloseLived, RemoveLived DEF Step

LEMMA SafeInvNext == SafeInv /\ [ManagerNext]_managerVars => SafeInv'
<1> SUFFICES ASSUME SafeInv, [ManagerNext]_managerVars PROVE SafeInv'
  OBVIOUS
<1>1. Base /\ ClosedPages /\ Base' /\ Step
  BY BaseNext DEF SafeInv
<1>2. ClosedPages'
  BY <1>1, ClosedNext
<1> QED
  BY <1>1, <1>2, OwnNext, CaptiveNext, OneOpenNext, CurrentNext, ReachableNext, InhabitedNext DEF SafeInv

(***************************************************************************)
(* The initial states.                                                     *)
(***************************************************************************)
LEMMA StartIs == Start \in UI /\ \A g \in PageIds : Start.page[g] = NoPage
<1>1. <<>> \in Seq(PaneIds) /\ <<>> \in Seq(PageIds) /\ NoPage \in Page
  BY DEF NoPage, Page
<1> QED
  BY <1>1, MuxManagerAssumption DEF Start, UI, Focusable

\* With the hosts of the command line there are no selectors ...
Hosts(n) ==
  /\ n \in 1..2 /\ ui \in UI /\ Refreshed(ui) /\ ui.running /\ ui.selFocus = Nil
  /\ ui.nextPage = 2 /\ ui.nextPane = n + 1 /\ ui.current = 1
  /\ ToSet(ui.pages) = {1} /\ Distinct(ui.pages)
  /\ Panes(1) = 1..n /\ LeavesOf(1) = 1..n /\ ui.page[1].focus \in 1..n /\ Distinct(ui.page[1].panes)
\* ... and without there is nothing but the first one.
NoHosts ==
  /\ ui \in UI /\ ui.running /\ ui.current = Nil /\ ui.nextPage = 1 /\ ui.nextPane = 1
  /\ ui.pages = <<>> /\ ui.appFocus = Initial /\ ui.listed = <<>> /\ ui.shown = {}

LEMMA HostsDoes ==
  ASSUME NEW n \in 1..2, ui = Refresh(CreatePage(Start, NewPanes(Start, n)))
  PROVE  Hosts(n)
<1> DEFINE new == NewPanes(Start, n)
           u == CreatePage(Start, new)
<1>1. /\ Start.nextPage = 1 /\ Start.nextPane = 1 /\ Start.pages = <<>> /\ Start.running /\ Start.selFocus = Nil
      /\ Start.page = [g \in PageIds |-> NoPage]
  BY DEF Start
<1>2. Start.nextPane + n <= MaxPanes + 1 /\ Start.nextPage \in PageIds /\ n \in Nat
  BY <1>1, MuxManagerAssumption DEF PageIds
<1>3. /\ new \in Seq(PaneIds) /\ new # <<>> /\ Len(new) = n /\ Distinct(new)
      /\ ToSet(new) = 1..n /\ new[1] \in ToSet(new)
  <2>1. ToSet(new) = Start.nextPane..(Start.nextPane + n - 1)
    BY <1>2, StartIs, NewPanesDoes
  <2>2. ToSet(new) = 1..n
    BY <1>1, <1>2, <2>1
  <2> QED
    BY <1>2, <2>2, StartIs, NewPanesDoes
<1> HIDE DEF new
<1>4. /\ u \in UI /\ u.pages = Append(<<>>, 1) /\ u.current = 1 /\ u.nextPage = 2 /\ u.nextPane = n + 1
      /\ u.page = [Start.page EXCEPT ![1] = [panes |-> new, leaves |-> ToSet(new), focus |-> new[1]]]
      /\ u.selFocus = Nil /\ u.running
  BY <1>1, <1>2, <1>3, StartIs, CreatePageDoes
<1> HIDE DEF u
<1>5. /\ ui \in UI /\ Refreshed(ui) /\ SameIds(ui, u) /\ ui.pages = u.pages /\ ui.page = u.page
      /\ ui.current = u.current /\ ui.selFocus = u.selFocus /\ ui.running = u.running
  BY <1>4, RefreshDoes DEF u, new
<1>6. ui.page[1] = [panes |-> new, leaves |-> ToSet(new), focus |-> new[1]]
  BY <1>1, <1>2, <1>4, <1>5
<1>7. ToSet(ui.pages) = {1} /\ Distinct(ui.pages)
  <2>1. <<>> \in Seq(PageIds) /\ ToSet(<<>>) = {} /\ Distinct(<<>>)
    BY DEF ToSet, Distinct
  <2>2. 1 \in PageIds
    BY <1>1, <1>2
  <2>3. ToSet(Append(<<>>, 1)) = ToSet(<<>>) \cup {1} /\ Distinct(Append(<<>>, 1))
    BY <2>1, <2>2, AppendDoes
  <2> QED
    BY <1>4, <1>5, <2>1, <2>3
<1> QED
  BY <1>3, <1>4, <1>5, <1>6, <1>7 DEF Hosts, SameIds, Panes, LeavesOf

LEMMA NoHostsDoes ==
  ASSUME ui = [Start EXCEPT !.appFocus = Initial, !.selFocus = Initial]
  PROVE  NoHosts
<1>1. Initial \in Focusable
  BY DEF Focusable
<1> QED
  BY <1>1, StartIs DEF NoHosts, Start, UI

LEMMA InitTypes == ManagerInit => Types
<1> SUFFICES ASSUME ManagerInit PROVE Types
  OBVIOUS
<1>1. ui \in UI
  BY HostsDoes, NoHostsDoes DEF ManagerInit, Hosts, NoHosts
<1>2. 1 \in PageIds
  BY MuxManagerAssumption DEF PageIds
<1>3. pane \in [PaneIds -> Statuses]
  BY DEF ManagerInit, Statuses
<1>4. home \in [PaneIds -> PageIds \cup {Nil}]
  BY <1>2 DEF ManagerInit
<1>5. selector \in [PaneIds \cup {Initial} -> Captured]
  BY DEF ManagerInit, Captured
<1>6. Flags
  BY DEF ManagerInit, Flags
<1> QED
  BY <1>1, <1>3, <1>4, <1>5, <1>6 DEF Types

\* No pane is a selector yet.
LEMMA NoSelectors ==
  ASSUME ManagerInit
  PROVE  /\ \A s \in PaneIds : Mode(s) = "none" /\ pane[s] # "selector"
         /\ Mode(Initial) \in {"none", "initial"}
         /\ \/ NoHosts /\ \A p \in PaneIds : pane[p] = "new"
            \/ \E n : /\ Hosts(n)
                       /\ \A p \in PaneIds : pane[p] = (IF p < n + 1 THEN "connecting" ELSE "new") /\ home[p] = 1
<1>1. CASE ui = [Start EXCEPT !.appFocus = Initial, !.selFocus = Initial]
           /\ pane = [p \in PaneIds |-> "new"]
           /\ selector = [p \in PaneIds \cup {Initial} |->
                IF p = Initial THEN [mode |-> "initial"] ELSE [mode |-> "none"]]
  BY <1>1, NoHostsDoes, NamesDiffer DEF Mode
<1>2. ASSUME NEW n \in 1..2, ui = Refresh(CreatePage(Start, NewPanes(Start, n))),
             pane = [p \in PaneIds |-> IF p < ui.nextPane THEN "connecting" ELSE "new"],
             home = [p \in PaneIds |-> 1],
             selector = [p \in PaneIds \cup {Initial} |-> [mode |-> "none"]]
      PROVE  /\ \A s \in PaneIds : Mode(s) = "none" /\ pane[s] # "selector"
             /\ Mode(Initial) = "none"
             /\ Hosts(n) /\ \A p \in PaneIds : pane[p] = (IF p < n + 1 THEN "connecting" ELSE "new") /\ home[p] = 1
  <2>1. Hosts(n) /\ ui.nextPane = n + 1
    BY <1>2, HostsDoes DEF Hosts
  <2> QED
    BY <1>2, <2>1 DEF Mode
<1> QED
  BY <1>1, <1>2 DEF ManagerInit

LEMMA InitInv == ManagerInit => Base /\ FocusInv /\ SafeInv
<1> SUFFICES ASSUME ManagerInit PROVE Base /\ FocusInv /\ SafeInv
  OBVIOUS
<1>1. Types /\ \A s \in PaneIds : Mode(s) = "none" /\ pane[s] # "selector"
  BY InitTypes, NoSelectors
<1>2. ClosedPages /\ OwnPage /\ Captive /\ OneOpen /\ Selectors = {}
  BY <1>1 DEF ClosedPages, OwnPage, Captive, OneOpen, Open, Selectors
<1>3. PICK on : on = [p \in PaneIds |-> 1]
  OBVIOUS
<1>4. on \in [PaneIds -> PageIds] /\ 1 \in PageIds
  BY <1>3, MuxManagerAssumption DEF PageIds
<1>5. CASE NoHosts /\ \A p \in PaneIds : pane[p] = "new"
  <2>1. Sessions = {} /\ Made = {} /\ ToSet(ui.pages) = {} /\ Distinct(ui.pages)
    BY <1>5 DEF NoHosts, Sessions, Made, ToSet, Distinct
  <2>2. Ids
    BY <1>1, <1>5, <2>1, NoSelectors DEF NoHosts, Ids
  <2>3. Placed(on)
    BY <1>1, <1>5, <2>1, NamesDiffer DEF Placed, PlacedPages, PlacedSelectors, PlacedSessions, PlacedScreen, NoHosts
  <2>4. ListInv /\ Nothing /\ CurrentListed /\ Reachable /\ Inhabited /\ FocusInv
    BY <1>5, <2>1, NamesDiffer DEF ListInv, Nothing, NoHosts, CurrentListed, Reachable, Inhabited, FocusInv, Listed
  <2> QED
    BY <1>1, <1>2, <1>4, <2>2, <2>3, <2>4 DEF Base, SafeInv, Placement
<1>6. ASSUME NEW n, Hosts(n), \A p \in PaneIds : pane[p] = (IF p < n + 1 THEN "connecting" ELSE "new") /\ home[p] = 1
      PROVE  Base /\ FocusInv /\ SafeInv
  <2>1. /\ n \in 1..2 /\ ui.nextPage = 2 /\ ui.nextPane = n + 1 /\ ui.current = 1 /\ Refreshed(ui)
        /\ ToSet(ui.pages) = {1} /\ Distinct(ui.pages) /\ Panes(1) = 1..n /\ LeavesOf(1) = 1..n
        /\ ui.page[1].focus \in 1..n /\ Distinct(ui.page[1].panes)
    BY <1>6 DEF Hosts
  <2>2. Made = {1} /\ 1..n \subseteq PaneIds /\ PaneIds \subseteq Nat /\ Nil \notin 1..n /\ 1 # Nil
    BY <1>4, <2>1, MuxManagerAssumption DEF Made, PaneIds, Nil
  <2>3. Sessions = 1..n
    <3>1. \A p \in PaneIds : p < n + 1 <=> p \in 1..n
      BY <2>1, <2>2 DEF PaneIds
    <3> QED
      BY <1>6, <2>2, <3>1 DEF Sessions
  <2>4. \A x \in PaneIds : Uses(x, 1) => x \in 1..n
    BY <2>1 DEF Uses
  <2>5. Ids
    <3>1. \A x \in 1..n : x < n + 1
      BY <2>1
    <3>2. \A p \in PaneIds : p >= n + 1 => pane[p] = "new"
      BY <1>6, <2>1, <2>2
    <3> QED
      BY <1>1, <1>6, <2>1, <2>2, <2>3, <2>4, <3>1, <3>2, NoSelectors DEF Ids
  <2>6. Placed(on)
    BY <1>1, <1>3, <1>6, <2>1, <2>2 DEF Placed, PlacedPages, PlacedSelectors, PlacedSessions, PlacedScreen, Sessions
  <2>7. ListInv /\ Nothing /\ CurrentListed /\ Reachable
    BY <1>6, <2>1, <2>2, <2>3 DEF ListInv, Nothing, Refreshed, CurrentListed, Reachable, Listed, Sessions
  <2>8. FocusInv
    BY <1>6 DEF FocusInv, HasTerm
  <2>9. Inhabited
    BY <2>1, <2>3 DEF Inhabited, Lived, Listed
  <2> QED
    BY <1>1, <1>2, <1>4, <2>5, <2>6, <2>7, <2>8, <2>9 DEF Base, SafeInv, Placement
<1> QED
  BY <1>5, <1>6, NoSelectors

(***************************************************************************)
(* The theorems.                                                           *)
(***************************************************************************)
LEMMA Invariant == ManagerSpec => [](SafeInv /\ FocusInv)
<1>1. ManagerInit => SafeInv /\ FocusInv
  BY InitInv
<1>2. SafeInv /\ FocusInv /\ [ManagerNext]_managerVars => (SafeInv /\ FocusInv)'
  <2> SUFFICES ASSUME SafeInv, FocusInv, [ManagerNext]_managerVars PROVE (SafeInv /\ FocusInv)'
    OBVIOUS
  <2>1. Base /\ Base' /\ Step
    BY BaseNext DEF SafeInv
  <2> QED
    BY <2>1, SafeInvNext, FocusNext
<1> QED
  BY <1>1, <1>2, PTL DEF ManagerSpec

\* The numbers of pages and panes, the focus and the screen stay what they can
\* be in manager.go, with pages made (nextPageID) and panes removed as often as
\* the bounds allow.
THEOREM ManagerTypes == ManagerSpec => []Types
<1>1. SafeInv => Types
  BY DEF SafeInv, Base
<1> QED
  BY <1>1, Invariant, PTL

\* An entry of the page list (showPageList) still stands for the page it shows.
THEOREM PageListNamesPages == ManagerSpec => []ListNamesPages
<1>1. SafeInv => ListNamesPages
  BY DEF SafeInv, Base, ListInv, ListNamesPages
<1> QED
  BY <1>1, Invariant, PTL

\* captureInput, broadcastKey and the focus together give a key to no pane
\* twice and, unless it is an unbound one after the prefix, to every session on
\* the page if broadcast is on.
THEOREM KeysOncePerPane == ManagerSpec => []KeyOncePerPane
<1>1. SafeInv /\ FocusInv => KeyOncePerPane
  <2> SUFFICES ASSUME SafeInv, FocusInv, ui.running, ui.current # Nil, HasTerm(ui.appFocus),
                      NEW key \in {"interrupt", "other"}
               PROVE  /\ \A p \in PaneIds : Deliveries(key, p) <= 1
                      /\ broadcast /\ (key = "interrupt" \/ ~prefixActive) /\ (~overlapped \/ ~orphaned) =>
                           \A p \in ToSet(Here(ui).panes) : HasTerm(p) => Deliveries(key, p) = 1
    BY DEF KeyOncePerPane
  <2>1. ui.appFocus = Here(ui).focus
    BY DEF FocusInv, Here
  <2>2. ui.appFocus \notin Broadcasted(key)
    BY <2>1 DEF Broadcasted
  <2>3. ASSUME NEW p \in PaneIds
        PROVE  Deliveries(key, p) <= 1
    BY <2>2 DEF Deliveries
  <2>4. ASSUME broadcast, key = "interrupt" \/ ~prefixActive, ~overlapped \/ ~orphaned,
               NEW p \in ToSet(Here(ui).panes), HasTerm(p)
        PROVE  Deliveries(key, p) = 1
    <3>1. Listed(ui.current)
      BY <2>4 DEF SafeInv, CurrentListed, Safe
    <3>2. p \in UNION {ToSet(ui.page[g].panes) : g \in ToSet(ui.pages)}
      BY <2>4, <3>1 DEF Listed, Here
    <3>3. p = ui.appFocus \/ p \in Broadcasted(key)
      BY <2>1, <2>4, <3>2 DEF Broadcasted
    <3> QED
      BY <2>2, <3>3 DEF Deliveries
  <2> QED
    BY <2>3, <2>4
<1> QED
  BY <1>1, Invariant, PTL

\* Sessions are never lost from the layout, whatever is opened, picked,
\* cancelled and closed, and in whichever order connections come and go.
THEOREM SessionsStayReachable == ManagerSpec => []SessionsReachable
<1>1. SafeInv => SessionsReachable
  <2> SUFFICES ASSUME SafeInv, ui.running, ~overlapped \/ ~orphaned, NEW p \in Sessions
               PROVE  \E g \in ToSet(ui.pages) : p \in ToSet(ui.page[g].panes) \cap ui.page[g].leaves
    BY DEF SessionsReachable
  <2>1. Listed(home[p]) /\ p \in Panes(home[p]) /\ p \in LeavesOf(home[p])
    BY DEF SafeInv, Reachable, Safe
  <2> QED
    BY <2>1 DEF Listed, Panes, LeavesOf
<1> QED
  BY <1>1, Invariant, PTL

LEMMA StopsNext ==
  ASSUME SafeInv, Base', Step, ui.running, ~ui'.running, ~orphaned
  PROVE  pane' = pane \/ Sessions' = {}
<1>1. Base /\ Safe
  BY DEF SafeInv, Safe
<1>2. CASE Looks
  BY <1>2 DEF Looks
<1>3. ASSUME NEW s \in PaneIds, NEW g \in PageIds, Opens(s, g)
      PROVE  FALSE
  BY <1>3 DEF Opens
<1>4. ASSUME NEW s \in PaneIds \cup {Initial}, NEW g \in PageIds, NEW new \in SUBSET PaneIds, Closes(s, g, new)
      PROVE  pane' = pane
  <2>1. new = {} /\ NothingLeft(ui') /\ ui.appFocus = s /\ Mode(s) # "none"
    BY <1>4 DEF Closes, Entered
  <2>2. CASE Mode(s) = "page"
    <3>1. s \in PaneIds
      BY <1>1, <2>2 DEF Base, Ids
    <3>2. Open(s, "page")
      BY <1>1, <2>1, <2>2, <3>1, FocusedPage DEF Open
    <3>3. Panes(selector[s].prev) # {} /\ selector[s].prev # Nil
      BY <1>1, <3>1, <3>2, SelectorPage, NamesDiffer DEF SafeInv, Captive, HasKeys
    <3>4. ui'.page = ui.page /\ ui'.current = selector[s].prev
      BY <1>4, <2>1, <2>2 DEF Closes, Creates, NewIds, Goes
    <3> QED
      BY <2>1, <3>3, <3>4 DEF NothingLeft, Here, Panes, ToSet
  <2>3. CASE Mode(s) = "pane"
    <3>1. s \in PaneIds /\ s \notin Sessions
      BY <1>1, <2>3 DEF Base, Ids, Sessions
    <3>2. g = ui.current /\ ui'.current = g /\ ToSet(ui'.page[g].panes) = Panes(g) \ {s}
      BY <1>4, <2>1, <2>3 DEF Closes, Extends, NewIds, Shrinks, Dropped
    <3>3. Listed(g) /\ \A t \in PaneIds : Open(t, "page") => selector[t].page # g
      BY <1>1, <2>1, <2>3, <3>1, <3>2, FocusedPane
    <3>4. PICK q \in Panes(g) : q \in Sessions
      BY <1>1, <3>3 DEF SafeInv, Inhabited, Lived
    <3> QED
      BY <2>1, <3>1, <3>2, <3>4, NamesDiffer DEF NothingLeft, Here, ToSet
  <2>4. CASE Mode(s) = "initial"
    <3>1. s \notin PaneIds
      BY <1>1, <2>4 DEF Base, Ids
    <3>2. pane \in [PaneIds -> Statuses] /\ pane' \in [PaneIds -> Statuses]
      BY <1>1 DEF Base, Types
    <3>3. \A p \in PaneIds : pane'[p] = pane[p]
      BY <1>4, <2>1, <3>1 DEF Closes
    <3> QED
      BY <3>2, <3>3
  <2> QED
    BY <1>4, <2>2, <2>3, <2>4 DEF Closes
<1>5. ASSUME NEW p \in PaneIds, NEW g \in PageIds, Removes(p, g)
      PROVE  Sessions' = {}
  <2>1. /\ Panes(g) = {p} /\ ui'.pages = <<>>
        /\ \A h : h \in ToSet(ui'.pages) <=> Listed(h) /\ h # g
    BY <1>5 DEF Removes
  <2>2. \A h : ~(Listed(h) /\ h # g)
    BY <2>1 DEF ToSet
  <2>3. ASSUME NEW q \in PaneIds, q \in Sessions'
        PROVE  FALSE
    <3>1. q # p /\ q \in Sessions
      BY <1>1, <1>5, <2>3 DEF Removes, Sessions, Base, Types
    <3>2. Listed(home[q]) /\ q \in Panes(home[q])
      BY <1>1, <3>1 DEF SafeInv, Reachable
    <3> QED
      BY <2>1, <2>2, <3>1, <3>2
  <2> QED
    BY <2>3 DEF Sessions
<1> QED
  BY <1>2, <1>3, <1>4, <1>5 DEF Step

\* RemovePane, cancelling a selector and quitting are all that stops lsmux; as
\* long as no pane has gone under an open selector, none of them does while a
\* session it has nothing to do with is there.
THEOREM StopsWhenDoneHolds == ManagerSpec => StopsWhenDone
<1>1. SafeInv /\ [ManagerNext]_managerVars =>
        [ui.running /\ ~ui'.running => pane' = pane \/ Sessions' = {} \/ orphaned]_managerVars
  BY BaseNext, StopsNext DEF SafeInv
<1> QED
  BY <1>1, Invariant, PTL DEF ManagerSpec, StopsWhenDone
=============================================================================
