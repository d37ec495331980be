-------------------------- MODULE SsmSessionProofs --------------------------
(***************************************************************************)
(* Proofs about a native SSM session: its output, for any number of        *)
(* messages sent any number of times, and its input, for a command or a    *)
(* shell without a terminal and any input.                                 *)
(***************************************************************************)
EXTENDS SsmSession, TLAPS

Kinds ==
  /\ kind \in {"shell", "exec", "port"} /\ tty \in BOOLEAN /\ greets \in BOOLEAN
  /\ command \in {"none", "plain", "marked"} /\ (tty => kind = "shell")
Whats == {"none", "response", "size", "command", "return", "input", "flag"}
Sends ==
  /\ up \in [got : SUBSET Awaited, next : Nat \cup {Disorder}]
  /\ sequence \in Nat
  /\ sending \in [Senders -> [at : {"idle", "load", "store", "write", "failed"}, reg : Nat, what : Whats]]
Rest ==
  /\ link \in {"up", "ending", "closed"}
  /\ ready \in BOOLEAN /\ readErr \in 0..Capacity
  /\ run \in {"waiting", "size", "flush", "flushed", "command", "return", "relay", "closing", "ended"}
  /\ reader \in {"reading", "answering", "ending", "ended"}
  /\ input \in {"off", "reading", "sending", "flag", "ended"}
  /\ local \in BOOLEAN /\ pending \in BOOLEAN /\ suppress \in BOOLEAN
  /\ events \in 0..MaxEvents
Types == Kinds /\ Sends /\ Rest

Messages ==
  /\ out \in Seq({"handshake", "complete", "text", "echo", "marker"}) /\ Len(out) <= MaxOut
  /\ down \in Seq(1..Len(out))
  /\ lastOutputSeq \in 0..Len(out)
  /\ buffer \in Seq(1..lastOutputSeq) /\ shown \in Seq(1..lastOutputSeq)
  /\ held \in Nat

(***************************************************************************)
(* Output.                                                                 *)
(***************************************************************************)
Rises(s) == \A i, j \in DOMAIN s : i < j => s[i] < s[j]

\* Both what was written and what is held back are in order, and the second
\* comes after the first.
InOrder ==
  /\ Rises(shown) /\ Rises(buffer)
  /\ \A i \in DOMAIN shown, j \in DOMAIN buffer : shown[i] < buffer[j]
  /\ ~suppress => buffer = <<>>

\* The marker follows the command, and output is held back from the command to
\* the marker at most.
NoMarkerTo(n) == \A m \in 1..n : out[m] # "marker"
Startup ==
  /\ "return" \in up.got \/ (\E a \in Senders : sending[a].what = "return")
       => run \in {"return", "relay", "closing", "ended"}
  /\ (\E n \in DOMAIN out : out[n] = "marker") => "return" \in up.got
  /\ run \in {"waiting", "size", "flush", "flushed"} => ~suppress /\ held = MaxOut
  /\ suppress => NoMarkerTo(lastOutputSeq) /\ held <= lastOutputSeq
  /\ \A j \in DOMAIN buffer : buffer[j] > held

\* What the agent sends is handled in turn: a number on its way follows one that
\* has been handled or is ahead of it.
InTurn ==
  /\ \A i \in DOMAIN down : down[i] <= lastOutputSeq + 1 \/ \E j \in 1..(i - 1) : down[i] <= down[j] + 1
  /\ link = "up" => Len(out) = lastOutputSeq \/ \E j \in DOMAIN down : down[j] = Len(out)

\* What has been handled is written, held back, or excused.
Covered(n) ==
  \/ out[n] \in {"handshake", "complete"} \/ HeldBack(n) \/ (kind = "port" /\ ~local)
  \/ \E i \in DOMAIN shown : shown[i] = n
  \/ \E j \in DOMAIN buffer : buffer[j] = n
AllCovered == \A n \in 1..lastOutputSeq : Covered(n)

OutInv == Types /\ Messages /\ InTurn /\ InOrder /\ Startup /\ AllCovered

(***************************************************************************)
(* Input.                                                                  *)
(***************************************************************************)
Alone == kind = "exec" \/ (kind = "shell" /\ ~tty)
Handshakes == \A n \in DOMAIN out : out[n] = "handshake" => n = 1

\* Where the senders are: at most one of them is not idle.
Phases ==
  /\ ~pending
  /\ sending["watcher"].at = "idle" /\ sending["close"].at = "idle" /\ sending["close"].what # "flag"
  /\ sending["reader"].at # "idle" => ~ready /\ reader # "reading"
  /\ lastOutputSeq = 0 => ~ready /\ reader # "answering"
  /\ ~ready => run \in {"waiting", "closing", "ended"} /\ sending["run"].at = "idle" /\ input = "off"
  /\ sending["run"].at # "idle" => run \in {"command", "return", "closing", "ended"} /\ input = "off"
  /\ input # "off" => run \in {"relay", "closing", "ended"}
  /\ sending["input"].at # "idle" => input \in {"sending", "ended"}

\* How the counter and the number the agent waits for go together.
AllIdle == \A a \in Senders : sending[a].at = "idle"
Numbers ==
  /\ up.next # Disorder
  /\ AllIdle => up.next = sequence
  /\ \A a \in Senders :
       /\ sending[a].at = "load" => up.next = sequence
       /\ sending[a].at = "store" => up.next = sequence /\ sending[a].reg = sequence
       /\ sending[a].at = "write" => up.next = sending[a].reg /\ sequence = up.next + 1
OneSender == \A a, b \in Senders : sending[a].at # "idle" /\ sending[b].at # "idle" => a = b

InInv == Alone => Handshakes /\ Phases /\ Numbers

(***************************************************************************)
(* Types.                                                                  *)
(***************************************************************************)
LEMMA Bounds == MaxOut \in Nat /\ MaxEvents \in Nat
  BY SsmSessionAssumption

LEMMA TypesInit == Init => Types
<1> SUFFICES ASSUME Init
             PROVE  Types
  OBVIOUS
<1>1. Kinds
  BY DEF Init, Kinds
<1>2. Sends
  BY DEF Init, Sends, Idle, Whats, Awaited
<1>3. Rest
  <2>1. local \in BOOLEAN /\ pending \in BOOLEAN
    BY DEF Init
  <2>2. readErr \in 0..Capacity /\ events \in 0..MaxEvents
    BY Bounds DEF Init, Capacity
  <2> QED
    BY <2>1, <2>2 DEF Init, Rest
<1> QED
  BY <1>1, <1>2, <1>3 DEF Types

\* A call of sendInputPayload.
LEMMA CallSends ==
  ASSUME Sends, NEW a \in Senders, NEW what \in Whats, Call(a, what), UNCHANGED <<up, sequence>>
  PROVE  Sends'
  BY DEF Sends, Call

LEMMA WriteSends ==
  ASSUME Sends, NEW a \in Senders, Write(a)
  PROVE  Sends'
<1>1. sending' \in [Senders -> [at : {"idle", "load", "store", "write", "failed"}, reg : Nat, what : Whats]]
  BY DEF Write, Sends
<1>2. up' \in [got : SUBSET Awaited, next : Nat \cup {Disorder}]
  <2>1. CASE UNCHANGED up
    BY <2>1 DEF Sends
  <2>2. ASSUME NEW n \in {sending[a].reg, sequence - 1},
               up' = [got |-> up.got \cup ({sending[a].what} \cap Awaited),
                      next |-> IF n = up.next THEN n + 1 ELSE Disorder]
        PROVE  up' \in [got : SUBSET Awaited, next : Nat \cup {Disorder}]
    <3>1. (IF n = up.next THEN n + 1 ELSE Disorder) \in Nat \cup {Disorder}
      BY DEF Sends, Disorder
    <3>2. up.got \cup ({sending[a].what} \cap Awaited) \in SUBSET Awaited
      BY DEF Sends
    <3> QED
      BY <2>2, <3>1, <3>2
  <2> QED
    BY <2>1, <2>2 DEF Write
<1> QED
  BY <1>1, <1>2 DEF Write, Sends

LEMMA SendsNext == Sends /\ [Next]_vars => Sends'
<1> SUFFICES ASSUME Sends, [Next]_vars
             PROVE  Sends'
  OBVIOUS
<1> USE DEF sender
<1>1. CASE UNCHANGED sender
  BY <1>1 DEF Sends
<1>2. ASSUME NEW a \in Senders, Load(a) \/ Store(a) \/ Write(a)
      PROVE  Sends'
  <2>1. CASE Load(a) \/ Store(a)
    BY <2>1 DEF Load, Store, Sends
  <2> QED
    BY <1>2, <2>1, WriteSends
<1>3. CASE Receive \/ Ready \/ Flush
  BY <1>1, <1>3, CallSends DEF Receive, Ready, Flush, Senders, Whats
<1>4. CASE StartCommand \/ SendReturn \/ Type
  BY <1>4, CallSends DEF StartCommand, SendReturn, Type, Senders, Whats
<1>5. CASE InputEnds \/ Resize \/ UserCloses
  BY <1>1, <1>5, CallSends DEF InputEnds, Resize, UserCloses, Senders, Whats
<1>6. CASE UserClosed
  BY <1>6 DEF UserClosed, Sends, Senders, Whats
<1>7. CASE AgentSends \/ AgentResends \/ LinkEnds \/ TimerFires \/ HandshakeAnswered \/ ReceiveFails \/ ReaderEnds
  BY <1>1, <1>7 DEF AgentSends, AgentResends, LinkEnds, TimerFires, HandshakeAnswered, ReceiveFails, ReaderEnds
<1>8. CASE NeverReady \/ CommandFails \/ Relay \/ Ends \/ Close \/ InputSent \/ FlagSent \/ UNCHANGED vars
  BY <1>1, <1>8 DEF NeverReady, CommandFails, Relay, Ends, Close, InputSent, FlagSent, vars
<1> QED
  BY <1>2, <1>3, <1>4, <1>5, <1>6, <1>7, <1>8
     DEF Next, ReaderStep, RunStep, SenderStep, Exited

LEMMA KindsNext == [Next]_vars => UNCHANGED static
<1> USE DEF static
<1>1. AgentSends \/ AgentResends \/ LinkEnds \/ TimerFires \/ ReaderStep => UNCHANGED static
  BY DEF AgentSends, AgentResends, LinkEnds, TimerFires, ReaderStep, Receive, HandshakeAnswered,
         ReceiveFails, ReaderEnds
<1>2. RunStep => UNCHANGED static
  BY DEF RunStep, Ready, NeverReady, Flush, StartCommand, SendReturn, CommandFails, Relay, Ends, Close
<1>3. Type \/ InputSent \/ InputEnds \/ FlagSent \/ Resize \/ UserCloses \/ UserClosed => UNCHANGED static
  BY DEF Type, InputSent, InputEnds, FlagSent, Resize, UserCloses, UserClosed
<1>4. \A a \in Senders : SenderStep(a) => UNCHANGED static
  BY DEF SenderStep, Load, Store, Write
<1> QED
  BY <1>1, <1>2, <1>3, <1>4 DEF Next, Exited, vars

LEMMA RestNext == Rest /\ [Next]_vars => Rest'
<1> SUFFICES ASSUME Rest, [Next]_vars
             PROVE  Rest'
  OBVIOUS
<1> USE Bounds DEF agent, sender, startup, Rest, Capacity
<1>1. CASE AgentSends \/ AgentResends \/ LinkEnds \/ TimerFires
  <2>1. events' \in 0..MaxEvents
    BY <1>1 DEF AgentSends, AgentResends, LinkEnds, TimerFires, Event
  <2> QED
    <3>1. UNCHANGED <<ready, readErr, run, reader, input, local, pending>>
          /\ link' \in {link, "ending"} /\ suppress' \in BOOLEAN
      BY <1>1 DEF AgentSends, AgentResends, LinkEnds, TimerFires
    <3> QED
      BY <2>1, <3>1
<1>2. ASSUME NEW a \in Senders, Load(a) \/ Store(a) \/ Write(a)
      PROVE  Rest'
  BY <1>2 DEF Load, Store, Write
<1>3. CASE Receive
  <2>1. suppress' \in BOOLEAN
    BY <1>3 DEF Receive, Filter
  <2>2. reader' \in {reader, "answering"} /\ ready' \in BOOLEAN
    BY <1>3 DEF Receive, ReadyOnRequest
  <2> QED
    BY <1>3, <2>1, <2>2 DEF Receive
<1>4. CASE HandshakeAnswered \/ ReceiveFails
  BY <1>4 DEF HandshakeAnswered, ReceiveFails
<1>5. CASE ReaderEnds
  BY <1>5 DEF ReaderEnds
<1>6. CASE Ready \/ Flush \/ StartCommand \/ SendReturn
  BY <1>6 DEF Ready, Flush, StartCommand, SendReturn, RunGoto
<1>7. CASE NeverReady \/ Ends
  <2>1. readErr' \in 0..Capacity
    BY <1>7 DEF NeverReady, Ends, TakeErr
  <2> QED
    BY <1>7, <2>1 DEF NeverReady, Ends, RunGoto
<1>8. CASE CommandFails \/ Relay \/ Close
  BY <1>8 DEF CommandFails, Relay, Close, RunGoto
<1>9. CASE Type \/ Resize
  <2>1. events' \in 0..MaxEvents
    BY <1>9 DEF Type, Resize, Event
  <2> QED
    BY <1>9, <2>1 DEF Type, Resize
<1>10. CASE InputEnds \/ InputSent \/ FlagSent
  BY <1>10 DEF InputEnds, InputSent, FlagSent
<1>11. CASE UserCloses \/ UserClosed
  BY <1>11 DEF UserCloses, UserClosed
<1>12. CASE UNCHANGED vars
  BY <1>12 DEF vars
<1> QED
  BY <1>1, <1>2, <1>3, <1>4, <1>5, <1>6, <1>7, <1>8, <1>9, <1>10, <1>11, <1>12
     DEF Next, ReaderStep, RunStep, SenderStep, Exited

LEMMA TypesNext == Types /\ [Next]_vars => Types'
  BY SendsNext, KindsNext, RestNext DEF Types, Kinds, static

(***************************************************************************)
(* Rising sequences of numbers.                                            *)
(***************************************************************************)
LEMMA SeqWider ==
  ASSUME NEW k \in Nat, NEW n \in Nat, k <= n, NEW s \in Seq(1..k)
  PROVE  s \in Seq(1..n)
  OBVIOUS

LEMMA AppendRises ==
  ASSUME NEW k \in Nat, NEW n \in Nat, k < n, NEW s \in Seq(1..k), Rises(s)
  PROVE  /\ Append(s, n) \in Seq(1..n) /\ Rises(Append(s, n))
         /\ \A i \in DOMAIN s : i \in DOMAIN Append(s, n) /\ Append(s, n)[i] = s[i]
         /\ Len(s) + 1 \in DOMAIN Append(s, n) /\ Append(s, n)[Len(s) + 1] = n
         /\ \A i \in DOMAIN Append(s, n) : Append(s, n)[i] = n \/ (i \in DOMAIN s /\ Append(s, n)[i] = s[i])
<1>1. s \in Seq(1..n) /\ n \in 1..n
  BY SeqWider
<1>2. Append(s, n) \in Seq(1..n) /\ DOMAIN Append(s, n) = 1..(Len(s) + 1)
  BY <1>1
<1>3. \A i \in 1..Len(s) : Append(s, n)[i] = s[i] /\ s[i] < n
  OBVIOUS
<1>4. Append(s, n)[Len(s) + 1] = n
  OBVIOUS
<1>5. Rises(Append(s, n))
  BY <1>2, <1>3, <1>4 DEF Rises
<1> QED
  BY <1>2, <1>3, <1>4, <1>5

LEMMA ConcatRises ==
  ASSUME NEW n \in Nat, NEW s \in Seq(1..n), NEW t \in Seq(1..n), Rises(s), Rises(t),
         \A i \in DOMAIN s, j \in DOMAIN t : s[i] < t[j]
  PROVE  /\ s \o t \in Seq(1..n) /\ Rises(s \o t)
         /\ \A i \in DOMAIN s : i \in DOMAIN (s \o t) /\ (s \o t)[i] = s[i]
         /\ \A j \in DOMAIN t : Len(s) + j \in DOMAIN (s \o t) /\ (s \o t)[Len(s) + j] = t[j]
<1>1. s \o t \in Seq(1..n) /\ DOMAIN (s \o t) = 1..(Len(s) + Len(t))
  OBVIOUS
<1>2. \A i \in 1..(Len(s) + Len(t)) :
        (s \o t)[i] = IF i <= Len(s) THEN s[i] ELSE t[i - Len(s)]
  OBVIOUS
<1>3. \A j \in DOMAIN t : Len(s) + j \in DOMAIN (s \o t) /\ (s \o t)[Len(s) + j] = t[j]
  BY <1>1, <1>2
<1>4. ASSUME NEW i \in 1..(Len(s) + Len(t)), NEW j \in 1..(Len(s) + Len(t)), i < j
      PROVE  (s \o t)[i] < (s \o t)[j]
  <2>1. CASE j <= Len(s)
    BY <1>2, <1>4, <2>1 DEF Rises
  <2>2. CASE i > Len(s)
    <3>1. i - Len(s) \in DOMAIN t /\ j - Len(s) \in DOMAIN t /\ i - Len(s) < j - Len(s)
      BY <1>4, <2>2
    <3> QED
      BY <1>2, <1>4, <2>2, <3>1 DEF Rises
  <2>3. CASE i <= Len(s) /\ j > Len(s)
    <3>1. i \in DOMAIN s /\ j - Len(s) \in DOMAIN t
      BY <2>3
    <3> QED
      BY <1>2, <2>3, <3>1
  <2> QED
    BY <2>1, <2>2, <2>3
<1>5. Rises(s \o t)
  BY <1>1, <1>4 DEF Rises
<1>6. \A i \in DOMAIN s : i \in DOMAIN (s \o t) /\ (s \o t)[i] = s[i]
  BY <1>1, <1>2
<1> QED
  BY <1>1, <1>3, <1>5, <1>6

(***************************************************************************)
(* Output.                                                                 *)
(***************************************************************************)
LEMMA OutInit == Init => OutInv
<1> SUFFICES ASSUME Init
             PROVE  OutInv
  OBVIOUS
<1>1. Messages /\ InOrder /\ InTurn
  BY Bounds DEF Init, Messages, InOrder, InTurn, Rises
<1>2. Startup
  BY DEF Init, Startup, NoMarkerTo, Idle
<1>3. AllCovered
  BY DEF Init, AllCovered
<1> QED
  BY TypesInit, <1>1, <1>2, <1>3 DEF OutInv

LEMMA OutFrame ==
  ASSUME OutInv, UNCHANGED <<out, lastOutputSeq, startup, kind>>, down' \in Seq(1..Len(out)), ~local => ~local'
  PROVE  (Messages /\ InOrder /\ AllCovered)'
<1> USE DEF startup
<1>1. Messages'
  BY DEF OutInv, Messages
<1>2. InOrder'
  BY DEF OutInv, InOrder, Rises
<1>3. AllCovered'
  BY DEF OutInv, AllCovered, Covered, HeldBack
<1> QED
  BY <1>1, <1>2, <1>3

\* Where Run has sent the command's carriage return.
Returns == {"return", "relay", "closing", "ended"}
Early == {"waiting", "size", "flush", "flushed"}
LEMMA StartupFrame ==
  ASSUME OutInv, UNCHANGED <<out, lastOutputSeq, startup>>, up.got \subseteq up'.got,
         "return" \in up'.got \/ (\E a \in Senders : sending'[a].what = "return") => run' \in Returns,
         run' \in Early => run \in Early
  PROVE  Startup'
  BY DEF OutInv, Startup, Early, Returns, startup, NoMarkerTo

\* A call of sendInputPayload with anything but the carriage return.
LEMMA CallIsNoReturn ==
  ASSUME Types, NEW a \in Senders, NEW what \in Whats \ {"return"}, Call(a, what)
  PROVE  \A b \in Senders : sending'[b].what = "return" => sending[b].what = "return"
  BY DEF Types, Sends, Call

\* A new message: what is written or held back after it.
LEMMA FilterInOrder ==
  ASSUME OutInv, NEW n \in 1..Len(out), n = lastOutputSeq + 1, Filter(n), lastOutputSeq' = n,
         UNCHANGED <<out, kind, local>>, down' \in Seq(1..Len(out))
  PROVE  (Messages /\ InOrder /\ AllCovered)' /\ held' = held /\ (suppress' => out[n] # "marker" /\ suppress)
         /\ \A j \in DOMAIN buffer' : buffer'[j] > held'
<1>1. PICK k \in Nat : k = lastOutputSeq /\ n = k + 1 /\ k < n
  BY DEF OutInv, Messages
<1>2. shown \in Seq(1..k) /\ buffer \in Seq(1..k) /\ Rises(shown) /\ Rises(buffer)
      /\ \A i \in DOMAIN shown, j \in DOMAIN buffer : shown[i] < buffer[j]
  BY <1>1 DEF OutInv, Messages, InOrder
<1>3. /\ out \in Seq({"handshake", "complete", "text", "echo", "marker"}) /\ Len(out) <= MaxOut
      /\ n \in Nat /\ n <= Len(out)
      /\ held \in Nat /\ \A j \in DOMAIN buffer : buffer[j] > held
      /\ ~suppress => buffer = <<>>
      /\ \A m \in 1..k : Covered(m)
      /\ suppress => NoMarkerTo(k) /\ held <= k
  BY <1>1 DEF OutInv, Messages, InOrder, Startup, AllCovered
<1>4. shown \in Seq(1..n) /\ buffer \in Seq(1..n)
  BY <1>1, <1>2, <1>3, SeqWider
<1>5. Append(shown, n) = shown \o <<n>>
  BY <1>2
<1>6. held' = held /\ (suppress' => out[n] # "marker" /\ suppress)
  BY DEF Filter
\* Nothing is written to a closed port, and that is its excuse.
<1>7. ASSUME kind = "port", ~local
      PROVE  AllCovered'
  BY <1>7 DEF AllCovered, Covered
\* What is held back no longer, without being written.
<1>8. ASSUME suppress, NEW m, \E j \in DOMAIN buffer : buffer[j] = m
      PROVE  HeldBack(m)'
  <2>1. m \in 1..k /\ m > held
    BY <1>2, <1>3, <1>8
  <2>2. \A l \in 1..m : l \in 1..k
    BY <2>1
  <2> QED
    BY <1>3, <1>6, <1>8, <2>1, <2>2 DEF HeldBack, NoMarkerTo
<1>9. \A m \in 1..k : HeldBack(m) => HeldBack(m)'
  BY <1>6 DEF HeldBack
<1>10. \A m \in 1..n : m \in 1..k \/ m = n
  BY <1>1
<1>11. CASE UNCHANGED shown /\ buffer' = <<>> /\ kind = "port" /\ ~local
  BY <1>2, <1>3, <1>4, <1>6, <1>7, <1>11 DEF Messages, InOrder, Rises
<1>12. CASE shown' = shown \o <<n>> /\ buffer' = <<>> /\ (~suppress \/ out[n] = "marker")
  <2>1. shown' = Append(shown, n)
    BY <1>5, <1>12
  <2>2. shown' \in Seq(1..n) /\ Rises(shown')
    BY <1>1, <1>2, <1>3, <2>1, AppendRises
  <2>3. AllCovered'
    <3>1. ASSUME NEW m \in 1..k
          PROVE  Covered(m)'
      <4>1. CASE \E i \in DOMAIN shown : shown[i] = m
        BY <1>1, <1>2, <1>3, <2>1, <4>1, AppendRises DEF Covered
      <4>2. CASE \E j \in DOMAIN buffer : buffer[j] = m
        <5>1. suppress
          BY <1>3, <4>2
        <5> QED
          BY <1>8, <4>2, <5>1 DEF Covered
      <4>3. CASE out[m] \in {"handshake", "complete"} \/ HeldBack(m) \/ (kind = "port" /\ ~local)
        BY <1>9, <4>3 DEF Covered
      <4> QED
        BY <1>3, <4>1, <4>2, <4>3 DEF Covered
    <3>2. Covered(n)'
      <4>1. Len(shown) + 1 \in DOMAIN shown' /\ shown'[Len(shown) + 1] = n
        BY <1>1, <1>2, <1>3, <2>1, AppendRises
      <4> QED
        BY <4>1 DEF Covered
    <3> QED
      BY <1>10, <3>1, <3>2 DEF AllCovered
  <2> QED
    BY <1>3, <1>6, <1>12, <2>2, <2>3 DEF Messages, InOrder, Rises
<1>13. CASE shown' = shown \o Append(buffer, n) /\ buffer' = <<>>
  <2>1. /\ Append(buffer, n) \in Seq(1..n) /\ Rises(Append(buffer, n))
        /\ \A i \in DOMAIN buffer : i \in DOMAIN Append(buffer, n) /\ Append(buffer, n)[i] = buffer[i]
        /\ Len(buffer) + 1 \in DOMAIN Append(buffer, n) /\ Append(buffer, n)[Len(buffer) + 1] = n
        /\ \A i \in DOMAIN Append(buffer, n) :
             Append(buffer, n)[i] = n \/ (i \in DOMAIN buffer /\ Append(buffer, n)[i] = buffer[i])
    BY <1>1, <1>2, <1>3, AppendRises
  <2>2. \A i \in DOMAIN shown, j \in DOMAIN Append(buffer, n) : shown[i] < Append(buffer, n)[j]
    <3>1. \A i \in DOMAIN shown : shown[i] < n
      BY <1>1, <1>2, <1>3
    <3> QED
      BY <1>2, <2>1, <3>1
  <2>3. /\ shown' \in Seq(1..n) /\ Rises(shown')
        /\ \A i \in DOMAIN shown : \E l \in DOMAIN shown' : shown'[l] = shown[i]
        /\ \A j \in DOMAIN Append(buffer, n) : \E l \in DOMAIN shown' : shown'[l] = Append(buffer, n)[j]
    <3>1. n \in Nat /\ shown \in Seq(1..n) /\ Rises(shown)
      BY <1>2, <1>3, <1>4
    <3>2. /\ shown' \in Seq(1..n) /\ Rises(shown')
          /\ \A i \in DOMAIN shown : i \in DOMAIN shown' /\ shown'[i] = shown[i]
          /\ \A j \in DOMAIN Append(buffer, n) :
               Len(shown) + j \in DOMAIN shown' /\ shown'[Len(shown) + j] = Append(buffer, n)[j]
      <4>1. PICK t \in Seq(1..n) : t = Append(buffer, n)
        BY <2>1
      <4>2. shown' = shown \o t /\ Rises(t) /\ \A i \in DOMAIN shown, j \in DOMAIN t : shown[i] < t[j]
        BY <1>13, <2>1, <2>2, <4>1
      <4>3. /\ shown \o t \in Seq(1..n) /\ Rises(shown \o t)
            /\ \A i \in DOMAIN shown : i \in DOMAIN (shown \o t) /\ (shown \o t)[i] = shown[i]
            /\ \A j \in DOMAIN t : Len(shown) + j \in DOMAIN (shown \o t) /\ (shown \o t)[Len(shown) + j] = t[j]
        BY <3>1, <4>1, <4>2, ConcatRises
      <4> QED
        BY <4>1, <4>2, <4>3
    <3> QED
      BY <3>2
  <2>4. AllCovered'
    <3>1. ASSUME NEW m \in 1..k
          PROVE  Covered(m)'
      <4>1. CASE \E i \in DOMAIN shown : shown[i] = m
        BY <2>3, <4>1 DEF Covered
      <4>2. CASE \E j \in DOMAIN buffer : buffer[j] = m
        BY <2>1, <2>3, <4>2 DEF Covered
      <4>3. CASE out[m] \in {"handshake", "complete"} \/ HeldBack(m) \/ (kind = "port" /\ ~local)
        BY <1>9, <4>3 DEF Covered
      <4> QED
        BY <1>3, <4>1, <4>2, <4>3 DEF Covered
    <3>2. Covered(n)'
      BY <2>1, <2>3 DEF Covered
    <3> QED
      BY <1>10, <3>1, <3>2 DEF AllCovered
  <2> QED
    <3>1. buffer' = <<>> /\ buffer' \in Seq(1..n) /\ DOMAIN buffer' = {}
      BY <1>13
    <3>2. Messages'
      BY <1>3, <1>6, <2>3, <3>1 DEF Messages
    <3>3. InOrder'
      BY <2>3, <3>1 DEF InOrder, Rises
    <3> QED
      BY <1>6, <2>4, <3>1, <3>2, <3>3
<1>14. CASE buffer' = Append(buffer, n) /\ UNCHANGED shown /\ suppress
  <2>1. /\ buffer' \in Seq(1..n) /\ Rises(buffer')
        /\ \A i \in DOMAIN buffer : i \in DOMAIN buffer' /\ buffer'[i] = buffer[i]
        /\ Len(buffer) + 1 \in DOMAIN buffer' /\ buffer'[Len(buffer) + 1] = n
        /\ \A i \in DOMAIN buffer' : buffer'[i] = n \/ (i \in DOMAIN buffer /\ buffer'[i] = buffer[i])
    BY <1>1, <1>2, <1>3, <1>14, AppendRises
  <2>2. \A i \in DOMAIN shown, j \in DOMAIN buffer' : shown[i] < buffer'[j]
    <3>1. \A i \in DOMAIN shown : shown[i] < n
      BY <1>1, <1>2, <1>3
    <3> QED
      BY <1>2, <2>1, <3>1
  <2>3. \A j \in DOMAIN buffer' : buffer'[j] > held
    <3>1. n > held
      BY <1>1, <1>3, <1>14
    <3> QED
      BY <1>3, <2>1, <3>1
  <2>4. AllCovered'
    <3>1. ASSUME NEW m \in 1..k
          PROVE  Covered(m)'
      <4>1. CASE \E i \in DOMAIN shown : shown[i] = m
        BY <1>14, <4>1 DEF Covered
      <4>2. CASE \E j \in DOMAIN buffer : buffer[j] = m
        BY <2>1, <4>2 DEF Covered
      <4>3. CASE out[m] \in {"handshake", "complete"} \/ HeldBack(m) \/ (kind = "port" /\ ~local)
        BY <1>9, <4>3 DEF Covered
      <4> QED
        BY <1>3, <4>1, <4>2, <4>3 DEF Covered
    <3>2. Covered(n)'
      BY <2>1 DEF Covered
    <3> QED
      BY <1>10, <3>1, <3>2 DEF AllCovered
  <2>5. suppress' \in BOOLEAN /\ (~suppress' => buffer' = <<>>)
    BY <1>14, <2>1 DEF Filter, Show
  <2> QED
    <3>1. Messages'
      BY <1>3, <1>4, <1>6, <1>14, <2>1 DEF Messages
    <3>2. InOrder'
      BY <1>2, <1>14, <2>1, <2>2, <2>5 DEF InOrder, Rises
    <3> QED
      BY <1>6, <2>3, <2>4, <3>1, <3>2
<1>15. \/ UNCHANGED shown /\ buffer' = <<>> /\ kind = "port" /\ ~local
       \/ shown' = shown \o <<n>> /\ buffer' = <<>> /\ (~suppress \/ out[n] = "marker")
       \/ shown' = shown \o Append(buffer, n) /\ buffer' = <<>>
       \/ buffer' = Append(buffer, n) /\ UNCHANGED shown /\ suppress
  BY <1>3 DEF Filter, Show
<1> QED
  BY <1>11, <1>12, <1>13, <1>14, <1>15

LEMMA InTurnNext == OutInv /\ [Next]_vars => InTurn'
<1> SUFFICES ASSUME OutInv, [Next]_vars
             PROVE  InTurn'
  OBVIOUS
<1> USE DEF agent
<1>1. /\ down \in Seq(1..Len(out)) /\ Len(out) \in Nat /\ lastOutputSeq \in Nat /\ lastOutputSeq <= Len(out)
      /\ out \in Seq({"handshake", "complete", "text", "echo", "marker"})
  BY DEF OutInv, Messages
<1>2. /\ \A i \in DOMAIN down : down[i] <= lastOutputSeq + 1 \/ \E j \in 1..(i - 1) : down[i] <= down[j] + 1
      /\ link = "up" => Len(out) = lastOutputSeq \/ \E j \in DOMAIN down : down[j] = Len(out)
  BY DEF OutInv, InTurn
<1>3. ASSUME UNCHANGED <<down, out, lastOutputSeq>>, link' = "up" => link = "up"
      PROVE  InTurn'
  BY <1>2, <1>3 DEF InTurn
<1>4. ASSUME down' = <<>>, link' # "up"
      PROVE  InTurn'
  BY <1>4 DEF InTurn
<1>5. CASE AgentSends
  <2>1. PICK m : out' = Append(out, m)
    BY <1>5 DEF AgentSends
  <2>2. /\ link = "up" /\ Len(out') = Len(out) + 1 /\ down' = Append(down, Len(out) + 1)
        /\ UNCHANGED lastOutputSeq
    BY <1>1, <1>5, <2>1 DEF AgentSends
  <2>3. /\ DOMAIN down' = 1..(Len(down) + 1) /\ down'[Len(down) + 1] = Len(out) + 1
        /\ \A i \in DOMAIN down : i \in DOMAIN down' /\ down'[i] = down[i]
    BY <1>1, <2>2
  <2>4. ASSUME NEW i \in DOMAIN down'
        PROVE  down'[i] <= lastOutputSeq + 1 \/ \E j \in 1..(i - 1) : down'[i] <= down'[j] + 1
    <3>1. CASE i = Len(down) + 1
      BY <1>1, <1>2, <2>2, <2>3, <3>1
    <3>2. CASE i \in DOMAIN down
      <4>1. \A j \in 1..(i - 1) : j \in DOMAIN down
        BY <1>1, <3>2
      <4> QED
        BY <1>2, <2>3, <3>2, <4>1
    <3> QED
      BY <1>1, <2>3, <2>4, <3>1, <3>2
  <2> QED
    <3>1. \E j \in DOMAIN down' : down'[j] = Len(out')
      BY <1>1, <2>2, <2>3
    <3>2. lastOutputSeq' = lastOutputSeq
      BY <2>2
    <3> QED
      BY <2>4, <3>1, <3>2 DEF InTurn
<1>6. CASE AgentResends
  <2>1. PICK n \in DOMAIN out : down' = Append(down, n)
    BY <1>6 DEF AgentResends
  <2>2. link = "up" /\ UNCHANGED <<out, lastOutputSeq>> /\ n \in Nat /\ n <= Len(out)
    BY <1>1, <1>6 DEF AgentResends
  <2>3. /\ DOMAIN down' = 1..(Len(down) + 1) /\ down'[Len(down) + 1] = n
        /\ \A i \in DOMAIN down : i \in DOMAIN down' /\ down'[i] = down[i]
    BY <1>1, <2>1
  <2>4. ASSUME NEW i \in DOMAIN down'
        PROVE  down'[i] <= lastOutputSeq + 1 \/ \E j \in 1..(i - 1) : down'[i] <= down'[j] + 1
    <3>1. CASE i = Len(down) + 1
      <4>1. CASE Len(out) = lastOutputSeq
        BY <1>1, <2>2, <2>3, <3>1, <4>1
      <4>2. CASE \E j \in DOMAIN down : down[j] = Len(out)
        <5>1. PICK j \in DOMAIN down : down[j] = Len(out)
          BY <4>2
        <5>2. j \in 1..(i - 1) /\ down'[j] = Len(out) /\ down'[i] = n
          BY <1>1, <2>3, <3>1, <5>1
        <5> QED
          BY <2>2, <5>2, <1>1
      <4> QED
        BY <1>2, <2>2, <4>1, <4>2
    <3>2. CASE i \in DOMAIN down
      <4>1. \A j \in 1..(i - 1) : j \in DOMAIN down
        BY <1>1, <3>2
      <4> QED
        BY <1>2, <2>2, <2>3, <3>2, <4>1
    <3> QED
      BY <1>1, <2>3, <2>4, <3>1, <3>2
  <2> QED
    BY <1>2, <2>2, <2>3, <2>4 DEF InTurn
<1>7. CASE Receive
  <2>1. /\ down # <<>> /\ down' = Tail(down) /\ UNCHANGED <<out, link>>
        /\ lastOutputSeq' = IF down[1] > lastOutputSeq THEN down[1] ELSE lastOutputSeq
    BY <1>1, <1>7 DEF Receive, NewMessage
  <2>2. /\ 1 \in DOMAIN down /\ down[1] \in Nat /\ down[1] <= Len(out)
        /\ DOMAIN down' = 1..(Len(down) - 1) /\ \A i \in DOMAIN down' : i + 1 \in DOMAIN down /\ down'[i] = down[i + 1]
    BY <1>1, <2>1
  <2>3. lastOutputSeq' \in Nat /\ lastOutputSeq' >= lastOutputSeq /\ lastOutputSeq' >= down[1] /\ lastOutputSeq' <= Len(out)
    BY <1>1, <2>1, <2>2
  <2>4. ASSUME NEW i \in DOMAIN down'
        PROVE  down'[i] <= lastOutputSeq' + 1 \/ \E j \in 1..(i - 1) : down'[i] <= down'[j] + 1
    <3>1. i \in Nat /\ i + 1 \in DOMAIN down /\ down'[i] = down[i + 1] /\ down[i + 1] \in Nat
      BY <1>1, <2>2
    <3>2. CASE down[i + 1] <= lastOutputSeq + 1
      BY <1>1, <2>3, <3>1, <3>2
    <3>3. ASSUME NEW j \in 1..i, down[i + 1] <= down[j] + 1
          PROVE  down'[i] <= lastOutputSeq' + 1 \/ \E l \in 1..(i - 1) : down'[i] <= down'[l] + 1
      <4>1. CASE j = 1
        BY <2>2, <2>3, <3>1, <3>3, <4>1
      <4>2. CASE j # 1
        <5>1. j - 1 \in 1..(i - 1) /\ j - 1 \in DOMAIN down' /\ (j - 1) + 1 = j
          BY <1>1, <2>2, <3>1, <4>2
        <5>2. down'[j - 1] = down[j]
          BY <2>2, <5>1
        <5> QED
          BY <3>1, <3>3, <5>1, <5>2
      <4> QED
        BY <4>1, <4>2
    <3>4. (i + 1) - 1 = i
      BY <3>1
    <3> QED
      BY <1>2, <3>1, <3>2, <3>3, <3>4
  <2>5. ASSUME link = "up"
        PROVE  Len(out) = lastOutputSeq' \/ \E j \in DOMAIN down' : down'[j] = Len(out)
    <3>1. CASE Len(out) = lastOutputSeq
      BY <1>1, <2>3, <3>1
    <3>2. CASE \E j \in DOMAIN down : down[j] = Len(out)
      <4>1. PICK j \in DOMAIN down : down[j] = Len(out)
        BY <3>2
      <4>2. CASE j = 1
        BY <1>1, <2>3, <4>1, <4>2
      <4>3. CASE j # 1
        <5>1. j - 1 \in DOMAIN down' /\ (j - 1) + 1 = j
          BY <1>1, <2>2, <4>1, <4>3
        <5>2. down'[j - 1] = down[j]
          BY <2>2, <5>1
        <5> QED
          BY <4>1, <5>1, <5>2
      <4> QED
        BY <4>2, <4>3
    <3> QED
      BY <1>2, <2>5, <3>1, <3>2
  <2> QED
    BY <2>1, <2>4, <2>5 DEF InTurn
<1>8. CASE ReceiveFails \/ Close \/ UserClosed
  BY <1>4, <1>8 DEF ReceiveFails, Close, UserClosed
<1>9. CASE LinkEnds \/ TimerFires \/ HandshakeAnswered \/ ReaderEnds
  BY <1>3, <1>9 DEF LinkEnds, TimerFires, HandshakeAnswered, ReaderEnds
<1>10. CASE Ready \/ NeverReady \/ Flush \/ StartCommand \/ SendReturn \/ CommandFails \/ Relay \/ Ends
  BY <1>3, <1>10 DEF Ready, NeverReady, Flush, StartCommand, SendReturn, CommandFails, Relay, Ends
<1>11. CASE Type \/ InputSent \/ InputEnds \/ FlagSent \/ Resize \/ UserCloses \/ UNCHANGED vars
  BY <1>3, <1>11 DEF Type, InputSent, InputEnds, FlagSent, Resize, UserCloses, vars
<1>12. ASSUME NEW a \in Senders, SenderStep(a)
       PROVE  InTurn'
  BY <1>3, <1>12 DEF SenderStep, Load, Store, Write
<1> QED
  BY <1>5, <1>6, <1>7, <1>8, <1>9, <1>10, <1>11, <1>12 DEF Next, ReaderStep, RunStep, Exited

LEMMA MessageNext ==
  ASSUME OutInv, AgentSends \/ AgentResends \/ Receive
  PROVE  (Messages /\ InOrder /\ Startup /\ AllCovered)'
<1> USE DEF agent, sender, static
<1>1. /\ down \in Seq(1..Len(out)) /\ Len(out) \in Nat /\ lastOutputSeq \in Nat /\ lastOutputSeq <= Len(out)
      /\ out \in Seq({"handshake", "complete", "text", "echo", "marker"})
  BY DEF OutInv, Messages
<1>2. CASE AgentSends
  <2>1. PICK m \in {"handshake", "complete", "text", "echo", "marker"} :
          /\ out' = Append(out, m)
          /\ m = "marker" => Received("return")
    BY <1>2 DEF AgentSends, Printed
  <2>2. /\ Len(out) < MaxOut /\ Len(out') = Len(out) + 1 /\ down' = Append(down, Len(out) + 1)
        /\ UNCHANGED <<sender, lastOutputSeq, startup, kind, local, run>>
    BY <1>1, <1>2, <2>1 DEF AgentSends
  <2>3. /\ \A n \in 1..lastOutputSeq : n \in DOMAIN out /\ out'[n] = out[n]
        /\ \A n \in DOMAIN out' : out'[n] = m \/ (n \in DOMAIN out /\ out'[n] = out[n])
    BY <1>1, <2>1
  <2> USE DEF startup
  <2>4. Messages'
    <3>1. down \in Seq(1..(Len(out) + 1))
      BY <1>1, SeqWider
    <3>2. down' \in Seq(1..Len(out')) /\ lastOutputSeq' \in 0..Len(out')
      BY <1>1, <2>2, <3>1
    <3>3. out' \in Seq({"handshake", "complete", "text", "echo", "marker"}) /\ Len(out') <= MaxOut
      BY <1>1, <2>1, <2>2, Bounds
    <3>4. (buffer \in Seq(1..lastOutputSeq) /\ shown \in Seq(1..lastOutputSeq) /\ held \in Nat)'
      BY <2>2 DEF OutInv, Messages
    <3> QED
      BY <3>2, <3>3, <3>4 DEF Messages
  <2>5. InOrder'
    BY <2>2 DEF OutInv, InOrder, Rises
  <2>6. Startup'
    <3>1. (\E n \in DOMAIN out' : out'[n] = "marker") => "return" \in up'.got
      BY <2>1, <2>2, <2>3 DEF OutInv, Startup, Received
    <3>2. suppress' => NoMarkerTo(lastOutputSeq)'
      BY <2>2, <2>3 DEF OutInv, Startup, NoMarkerTo
    <3> QED
      BY <2>2, <3>1, <3>2 DEF OutInv, Startup
  <2>7. AllCovered'
    <3>1. ASSUME NEW n \in 1..lastOutputSeq
          PROVE  Covered(n)'
      <4>1. out'[n] = out[n] /\ \A l \in 1..n : out'[l] = out[l]
        BY <1>1, <2>3
      <4>2. HeldBack(n) => HeldBack(n)'
        BY <2>2, <4>1 DEF HeldBack
      <4> QED
        BY <2>2, <4>1, <4>2 DEF OutInv, AllCovered, Covered
    <3> QED
      BY <2>2, <3>1 DEF AllCovered
  <2> QED
    BY <2>4, <2>5, <2>6, <2>7
<1>3. CASE AgentResends
  <2>1. /\ down' \in Seq(1..Len(out))
        /\ UNCHANGED <<out, sender, lastOutputSeq, startup, kind, local, run>>
    BY <1>1, <1>3 DEF AgentResends
  <2> QED
    BY <2>1, OutFrame, StartupFrame DEF OutInv, Startup, Returns
<1>4. CASE Receive
  <2>1. /\ down # <<>> /\ 1 \in DOMAIN down /\ down[1] \in 1..Len(out) /\ down' \in Seq(1..Len(out))
        /\ Head(down) = down[1] /\ UNCHANGED <<kind, out, up, local, run>>
    BY <1>1, <1>4 DEF Receive
  <2>2. CASE ~NewMessage(down[1])
    BY <1>4, <2>1, <2>2, OutFrame, StartupFrame DEF Receive, OutInv, Startup, Returns
  <2>3. CASE NewMessage(down[1])
    <3>1. PICK n \in 1..Len(out) : n = down[1]
      BY <2>1
    <3>2. n = lastOutputSeq + 1 /\ lastOutputSeq' = n
      <4>1. \A j : j \notin 1..(1 - 1)
        OBVIOUS
      <4>2. n <= lastOutputSeq + 1
        BY <2>1, <3>1, <4>1 DEF OutInv, InTurn
      <4>3. n > lastOutputSeq /\ lastOutputSeq' = n
        BY <1>4, <2>1, <2>3, <3>1 DEF Receive, NewMessage
      <4> QED
        BY <1>1, <4>2, <4>3
    <3>3. \A b \in Senders : sending'[b].what = "return" => sending[b].what = "return"
      <4>1. UNCHANGED sending \/ Call("reader", "response")
        BY <1>4, <2>1, <2>3 DEF Receive
      <4> QED
        BY <4>1, CallIsNoReturn DEF OutInv, Senders, Whats
    <3>4. CASE out[n] \in {"handshake", "complete"}
      <4>1. UNCHANGED startup
        BY <1>4, <2>1, <2>3, <3>1, <3>4 DEF Receive
      <4> USE DEF startup
      <4>2. Messages'
        <5>1. shown \in Seq(1..n) /\ buffer \in Seq(1..n)
          BY <1>1, <3>2, SeqWider DEF OutInv, Messages
        <5> QED
          BY <1>1, <2>1, <3>2, <4>1, <5>1 DEF OutInv, Messages
      <4>3. InOrder'
        BY <4>1 DEF OutInv, InOrder, Rises
      <4>4. AllCovered'
        <5>1. ASSUME NEW m \in 1..n
              PROVE  Covered(m)'
          <6>1. m \in 1..lastOutputSeq \/ m = n
            BY <1>1, <3>2
          <6>2. HeldBack(m) => HeldBack(m)'
            BY <2>1, <4>1 DEF HeldBack
          <6> QED
            BY <2>1, <3>4, <4>1, <6>1, <6>2 DEF OutInv, AllCovered, Covered
        <5> QED
          BY <3>2, <5>1 DEF AllCovered
      <4>5. Startup'
        <5>1. suppress => \A m \in 1..n : out[m] # "marker"
          <6>1. \A m \in 1..n : m \in 1..lastOutputSeq \/ m = n
            BY <1>1, <3>2
          <6> QED
            BY <3>4, <6>1 DEF OutInv, Startup, NoMarkerTo
        <5>2. suppress' => NoMarkerTo(lastOutputSeq)' /\ held' <= lastOutputSeq'
          BY <1>1, <2>1, <3>2, <4>1, <5>1 DEF OutInv, Messages, Startup, NoMarkerTo
        <5> QED
          BY <2>1, <3>3, <4>1, <5>2 DEF OutInv, Startup
      <4> QED
        BY <4>2, <4>3, <4>4, <4>5
    <3>5. CASE out[n] \notin {"handshake", "complete"}
      <4>1. Filter(n) /\ UNCHANGED <<sending>>
        BY <1>4, <2>1, <2>3, <3>1, <3>5 DEF Receive
      <4>2. (Messages /\ InOrder /\ AllCovered)' /\ held' = held /\ (suppress' => out[n] # "marker" /\ suppress)
            /\ \A j \in DOMAIN buffer' : buffer'[j] > held'
        BY <2>1, <3>2, <4>1, FilterInOrder
      <4>3. suppress' => NoMarkerTo(lastOutputSeq)' /\ held' <= lastOutputSeq'
        <5>1. \A m \in 1..n : m \in 1..lastOutputSeq \/ m = n
          BY <1>1, <3>2
        <5>2. suppress' => \A m \in 1..n : out[m] # "marker"
          BY <4>2, <5>1 DEF OutInv, Startup, NoMarkerTo
        <5>3. suppress' => held <= n
          BY <1>1, <3>2, <4>2 DEF OutInv, Messages, Startup
        <5> QED
          BY <2>1, <3>2, <4>2, <5>2, <5>3 DEF NoMarkerTo
      <4> QED
        BY <2>1, <4>1, <4>2, <4>3 DEF OutInv, Startup
    <3> QED
      BY <3>4, <3>5
  <2> QED
    BY <2>2, <2>3
<1> QED
  BY <1>2, <1>3, <1>4

LEMMA OutNext == OutInv /\ [Next]_vars => OutInv'
<1> SUFFICES ASSUME OutInv, [Next]_vars
             PROVE  OutInv'
  OBVIOUS
<1>1. SUFFICES (Messages /\ InOrder /\ Startup /\ AllCovered)'
  BY TypesNext, InTurnNext DEF OutInv
<1> USE DEF agent, sender, static
<1>2. down \in Seq(1..Len(out)) /\ <<>> \in Seq(1..Len(out))
  BY DEF OutInv, Messages
<1>3. ASSUME UNCHANGED <<out, lastOutputSeq, startup, kind>>, down' = down \/ down' = <<>>, ~local => ~local',
             up' = up, \A a \in Senders : sending'[a].what = "return" => sending[a].what = "return" \/ run' \in Returns,
             run' = run \/ run' \in Returns \/ (run \in Early /\ run' \in Early \cup {"command"}
                                                /\ "return" \notin up.got /\ \A a \in Senders : sending'[a].what # "return")
      PROVE  (Messages /\ InOrder /\ Startup /\ AllCovered)'
  <2>1. (Messages /\ InOrder /\ AllCovered)'
    BY <1>2, <1>3, OutFrame
  <2>2. "return" \in up'.got \/ (\E a \in Senders : sending'[a].what = "return") => run' \in Returns
    BY <1>3 DEF OutInv, Startup, Returns
  <2>3. run' \in Early => run \in Early
    BY <1>3 DEF Early, Returns
  <2> QED
    BY <1>3, <2>1, <2>2, <2>3, StartupFrame
\* Before the command is sent, nothing is held back and no marker has come.
<1>4. ASSUME run \in Early
      PROVE  /\ "return" \notin up.got /\ \A a \in Senders : sending[a].what # "return"
             /\ \A n \in DOMAIN out : out[n] # "marker"
             /\ ~suppress /\ held = MaxOut
  BY <1>4 DEF OutInv, Startup, Early
<1>5. CASE AgentSends \/ AgentResends \/ Receive
  BY <1>5, MessageNext
<1>6. CASE LinkEnds \/ HandshakeAnswered \/ ReceiveFails \/ ReaderEnds
  BY <1>3, <1>6 DEF LinkEnds, HandshakeAnswered, ReceiveFails, ReaderEnds
<1>7. CASE TimerFires
  <2>1. /\ suppress /\ suppress' = FALSE /\ buffer' = <<>>
        /\ UNCHANGED <<kind, agent, sender, lastOutputSeq, run, local, shown, held>>
    BY <1>7 DEF TimerFires
  <2>2. Messages' /\ InOrder'
    BY <2>1 DEF OutInv, Messages, InOrder, Rises
  <2>3. Startup'
    BY <2>1 DEF OutInv, Startup, NoMarkerTo
  <2>4. AllCovered'
    <3>1. ASSUME NEW n \in 1..lastOutputSeq
          PROVE  Covered(n)'
      <4>1. CASE \E j \in DOMAIN buffer : buffer[j] = n
        <5>1. n > held /\ \A m \in 1..n : m \in 1..lastOutputSeq
          BY <4>1 DEF OutInv, Messages, Startup
        <5>2. HeldBack(n)'
          BY <2>1, <5>1 DEF HeldBack, OutInv, Startup, NoMarkerTo
        <5> QED
          BY <5>2 DEF Covered
      <4>2. HeldBack(n) => HeldBack(n)'
        BY <2>1 DEF HeldBack
      <4> QED
        BY <2>1, <4>1, <4>2 DEF OutInv, AllCovered, Covered
    <3> QED
      BY <2>1, <3>1 DEF AllCovered
  <2> QED
    BY <2>2, <2>3, <2>4
<1>8. CASE Ready \/ Flush
  <2>1. run \in Early /\ run' \in Early
    BY <1>8 DEF Ready, Flush, Early, RunGoto
  <2>2. UNCHANGED sending \/ Call("run", "size")
    BY <1>8 DEF Ready, Flush
  <2>3. \A a \in Senders : sending'[a].what = "return" => sending[a].what = "return"
    BY <2>2, CallIsNoReturn DEF OutInv, Senders, Whats
  <2> QED
    BY <1>3, <1>4, <1>8, <2>1, <2>3 DEF Ready, Flush
<1>9. CASE StartCommand
  <2>1. run \in Early /\ run' = "command" /\ UNCHANGED <<agent, up, lastOutputSeq, kind, local>>
    BY <1>9 DEF StartCommand, Early, RunGoto
  <2>2. \A a \in Senders : sending'[a].what = "return" => sending[a].what = "return"
    BY <1>9, CallIsNoReturn DEF StartCommand, OutInv, Senders, Whats
  <2>3. CASE UNCHANGED startup
    BY <1>3, <1>4, <2>1, <2>2, <2>3
  <2>4. CASE suppress' = TRUE /\ buffer' = <<>> /\ held' = lastOutputSeq /\ UNCHANGED shown
    <3>1. Messages' /\ InOrder'
      BY <2>1, <2>4 DEF OutInv, Messages, InOrder, Rises
    <3>2. Startup'
      <4>1. NoMarkerTo(lastOutputSeq)' /\ held' <= lastOutputSeq'
        <5>1. \A m \in 1..lastOutputSeq : m \in DOMAIN out
          BY DEF OutInv, Messages
        <5> QED
          BY <1>4, <2>1, <2>4, <5>1 DEF NoMarkerTo, OutInv, Messages
      <4> QED
        BY <1>4, <2>1, <2>2, <2>4, <4>1 DEF Startup
    <3>3. AllCovered'
      <4>1. ASSUME NEW n \in 1..lastOutputSeq
            PROVE  Covered(n)'
        <5>1. ~HeldBack(n) /\ buffer = <<>>
          BY <1>4, <2>1 DEF HeldBack, OutInv, Messages, InOrder
        <5> QED
          BY <2>1, <2>4, <5>1 DEF OutInv, AllCovered, Covered
      <4> QED
        BY <2>1, <4>1 DEF AllCovered
    <3> QED
      BY <3>1, <3>2, <3>3
  <2> QED
    BY <1>9, <2>3, <2>4 DEF StartCommand
<1>10. CASE SendReturn \/ CommandFails \/ Relay \/ Ends \/ Close
  BY <1>3, <1>10 DEF SendReturn, CommandFails, Relay, Ends, Close, RunGoto, Returns
<1>11. CASE NeverReady
  BY <1>3, <1>11 DEF NeverReady, RunGoto, Returns
<1>12. CASE Type \/ InputEnds \/ Resize \/ UserCloses
  <2>1. \/ UNCHANGED sending
        \/ Call("input", "input") \/ Call("input", "flag") \/ Call("watcher", "size") \/ Call("close", "flag")
    BY <1>12 DEF Type, InputEnds, Resize, UserCloses
  <2>2. \A a \in Senders : sending'[a].what = "return" => sending[a].what = "return"
    BY <2>1, CallIsNoReturn DEF OutInv, Senders, Whats
  <2> QED
    BY <1>3, <1>12, <2>2 DEF Type, InputEnds, Resize, UserCloses
<1>13. CASE InputSent \/ FlagSent \/ UNCHANGED vars
  BY <1>3, <1>13 DEF InputSent, FlagSent, vars
<1>14. CASE UserClosed
  <2>1. \A a \in Senders : sending'[a].what = "return" => sending[a].what = "return"
    BY <1>14 DEF UserClosed, OutInv, Types, Sends
  <2> QED
    BY <1>3, <1>14, <2>1 DEF UserClosed
<1>15. ASSUME NEW a \in Senders, Load(a) \/ Store(a)
       PROVE  (Messages /\ InOrder /\ Startup /\ AllCovered)'
  <2>1. \A b \in Senders : sending'[b].what = sending[b].what
    BY <1>15 DEF Load, Store, OutInv, Types, Sends
  <2> QED
    BY <1>3, <1>15, <2>1 DEF Load, Store
<1>16. ASSUME NEW a \in Senders, Write(a)
       PROVE  (Messages /\ InOrder /\ Startup /\ AllCovered)'
  <2>1. \A b \in Senders : sending'[b].what = sending[b].what
    BY <1>16 DEF Write, OutInv, Types, Sends
  <2>2. up.got \subseteq up'.got /\ up'.got \subseteq up.got \cup {sending[a].what}
    BY <1>16 DEF Write
  <2>3. UNCHANGED <<out, down, lastOutputSeq, startup, kind, local, run>>
    BY <1>16 DEF Write
  <2>4. "return" \in up'.got \/ (\E b \in Senders : sending'[b].what = "return") => run' \in Returns
    BY <2>1, <2>2, <2>3 DEF OutInv, Startup, Returns
  <2> QED
    BY <1>2, <2>2, <2>3, <2>4, OutFrame, StartupFrame
<1> QED
  BY <1>5, <1>6, <1>7, <1>8, <1>9, <1>10, <1>11, <1>12, <1>13, <1>14, <1>15, <1>16
     DEF Next, ReaderStep, RunStep, SenderStep, Exited

\* Types: messages on their way have been sent, none is handled twice or written
\* before it is handled, and the agent waits for a number or for none.
THEOREM TypeCorrect == Spec => [](Types /\ Messages)
  BY OutInit, OutNext, PTL DEF Spec, OutInv

\* Output is written once and in order, and none is missing but what came between
\* the command and its marker: for any number of messages, sent again any number
\* of times, and any time at which the filter or its timer lets go.
THEOREM WritesOutputOnce == Spec => []OutputOnce
<1>1. OutInv => OutputOnce
  <2> SUFFICES ASSUME OutInv
               PROVE  OutputOnce
    OBVIOUS
  <2>1. \A i, j \in DOMAIN shown : i < j => shown[i] < shown[j]
    BY DEF OutInv, InOrder, Rises
  <2>2. ASSUME NEW n \in 1..lastOutputSeq
        PROVE  \/ out[n] \in {"handshake", "complete"} \/ n \in ToSet(shown)
               \/ HeldBack(n) \/ (kind = "port" /\ ~local)
    <3>1. CASE \E j \in DOMAIN buffer : buffer[j] = n
      <4>1. suppress /\ n > held /\ \A m \in 1..n : m \in 1..lastOutputSeq
        BY <3>1 DEF OutInv, Messages, InOrder, Startup
      <4> QED
        BY <4>1 DEF HeldBack, OutInv, Startup, NoMarkerTo
    <3>2. (\E i \in DOMAIN shown : shown[i] = n) => n \in ToSet(shown)
      BY DEF ToSet
    <3> QED
      BY <3>1, <3>2 DEF OutInv, AllCovered, Covered
  <2> QED
    BY <2>1, <2>2 DEF OutputOnce
<1> QED
  BY <1>1, OutInit, OutNext, PTL DEF Spec

(***************************************************************************)
(* Input of a command or of a shell without a terminal.                    *)
(***************************************************************************)
LEMMA OnlyOne ==
  ASSUME Phases, Types
  PROVE  OneSender
<1>1. \A a \in Senders : a \in {"reader", "run", "input", "watcher", "close"}
  BY DEF Senders
<1>2. sending["run"].at # "idle" => sending["reader"].at = "idle" /\ sending["input"].at = "idle"
  BY DEF Phases
<1>3. sending["input"].at # "idle" => sending["reader"].at = "idle" /\ sending["run"].at = "idle"
  BY DEF Phases
<1> QED
  BY <1>1, <1>2, <1>3 DEF OneSender, Phases

LEMMA CallNumbers ==
  ASSUME Types, Numbers, AllIdle, NEW a \in Senders, NEW what, Call(a, what), UNCHANGED <<up, sequence>>
  PROVE  Numbers'
<1>1. \A b \in Senders : b # a => sending'[b].at = "idle"
  BY DEF Call, AllIdle, Types, Sends
<1>2. sending'[a].at = "load"
  BY DEF Call, Types, Sends
<1> QED
  BY <1>1, <1>2 DEF Numbers, AllIdle

LEMMA SendNumbers ==
  ASSUME Types, Numbers, OneSender, NEW a \in Senders, Load(a) \/ Store(a) \/ Write(a)
  PROVE  Numbers'
<1>1. sequence \in Nat /\ sending[a].reg \in Nat /\ up.next \in Nat
  BY DEF Types, Sends, Numbers
<1>2. \A b \in Senders \ {a} : sending[b].at = "idle" /\ sending'[b].at = "idle"
  BY DEF Types, Sends, OneSender, Load, Store, Write
<1>3. CASE Load(a)
  <2>1. sending[a].at = "load" /\ sending'[a].at = "store" /\ sending'[a].reg = sequence /\ UNCHANGED <<up, sequence>>
    BY <1>3 DEF Load, Types, Sends
  <2> QED
    BY <1>2, <2>1 DEF Numbers, AllIdle
<1>4. CASE Store(a)
  <2>1. /\ sending[a].at = "store" /\ sending'[a].at = "write" /\ sending'[a].reg = sending[a].reg
        /\ sequence' = sending[a].reg + 1 /\ UNCHANGED up
    BY <1>4 DEF Store, Types, Sends
  <2> QED
    BY <1>1, <1>2, <2>1 DEF Numbers, AllIdle
<1>5. CASE Write(a)
  <2>1. sending[a].at = "write" /\ UNCHANGED sequence /\ up.next = sending[a].reg /\ sequence = up.next + 1
    BY <1>5 DEF Write, Numbers
  <2>2. CASE UNCHANGED up /\ sending'[a].at = "failed"
    BY <1>2, <2>1, <2>2 DEF Numbers, AllIdle
  <2>3. CASE sending'[a].at = "idle" /\ up'.next = up.next + 1
    BY <1>1, <1>2, <2>1, <2>3 DEF Numbers, AllIdle, Disorder
  <2>4. \A n \in {sending[a].reg, sequence - 1} : n = up.next
    BY <1>1, <2>1
  <2> QED
    BY <1>5, <2>2, <2>3, <2>4 DEF Write, Types, Sends
<1> QED
  BY <1>3, <1>4, <1>5

\* Steps that send nothing.
LEMMA NumbersFrame == Numbers /\ UNCHANGED sender => Numbers'
  BY DEF Numbers, AllIdle, sender

\* Where nobody is sending and nobody has failed to.
LEMMA NobodySends ==
  ASSUME Phases, Types,
         \/ reader = "reading" /\ lastOutputSeq = 0
         \/ run \in {"waiting", "flush", "flushed"} /\ ready
         \/ run \in {"command", "return"} /\ sending["run"].at = "idle"
         \/ input = "reading"
  PROVE  AllIdle
<1>1. \A a \in Senders : a \in {"reader", "run", "input", "watcher", "close"}
  BY DEF Senders
<1>2. sending["reader"].at = "idle" /\ sending["run"].at = "idle" /\ sending["input"].at = "idle"
  BY DEF Phases
<1> QED
  BY <1>1, <1>2 DEF AllIdle, Phases

LEMMA InInit == Init => InInv
<1> SUFFICES ASSUME Init, Alone
             PROVE  Handshakes /\ Phases /\ Numbers
  BY DEF InInv
<1>1. \A a \in Senders : sending[a] = Idle /\ sending[a].at = "idle" /\ sending[a].what = "none"
  BY DEF Init, Idle
<1>2. \A a \in {"reader", "run", "input", "watcher", "close"} : a \in Senders
  BY DEF Senders
<1>3. ~pending /\ run = "waiting" /\ input = "off"
  BY DEF Init, Alone
<1> QED
  BY <1>1, <1>2, <1>3 DEF Init, Handshakes, Phases, Numbers, Disorder

LEMMA HandshakesNext == OutInv /\ Handshakes /\ [Next]_vars => Handshakes'
<1> SUFFICES ASSUME OutInv, Handshakes, [Next]_vars
             PROVE  Handshakes'
  OBVIOUS
<1>1. CASE AgentSends
  <2>1. PICK m : out' = Append(out, m) /\ (m = "handshake" => out = <<>>)
    BY <1>1 DEF AgentSends, Printed
  <2>2. out \in Seq({"handshake", "complete", "text", "echo", "marker"})
    BY DEF OutInv, Messages
  <2>3. \A n \in DOMAIN out' : (n \in DOMAIN out /\ out'[n] = out[n]) \/ (n = Len(out) + 1 /\ out'[n] = m)
    BY <2>1, <2>2
  <2> QED
    BY <2>1, <2>3 DEF Handshakes
<1>2. CASE UNCHANGED out
  BY <1>2 DEF Handshakes
<1>3. AgentResends \/ LinkEnds \/ TimerFires \/ ReaderStep => UNCHANGED out
  BY DEF AgentResends, LinkEnds, TimerFires, ReaderStep, Receive, HandshakeAnswered,
         ReceiveFails, ReaderEnds, agent
<1>4. RunStep => UNCHANGED out
  BY DEF RunStep, Ready, NeverReady, Flush, StartCommand, SendReturn, CommandFails, Relay, Ends, Close, agent
<1>5. Type \/ InputSent \/ InputEnds \/ FlagSent \/ Resize \/ UserCloses \/ UserClosed => UNCHANGED out
  BY DEF Type, InputSent, InputEnds, FlagSent, Resize, UserCloses, UserClosed, agent
<1>6. \A a \in Senders : SenderStep(a) => UNCHANGED out
  BY DEF SenderStep, Load, Store, Write, agent
<1> QED
  BY <1>1, <1>2, <1>3, <1>4, <1>5, <1>6 DEF Next, Exited, vars, agent

\* What a call changes.
LEMMA CallAt ==
  ASSUME Types, NEW a \in Senders, NEW what, Call(a, what)
  PROVE  /\ sending'[a].at = "load" /\ sending'[a].what = what
         /\ \A b \in Senders \ {a} : sending'[b] = sending[b]
  BY DEF Types, Sends, Call

LEMMA InNext == OutInv /\ InInv /\ [Next]_vars => InInv'
<1> SUFFICES ASSUME OutInv, Handshakes, Phases, Numbers, Alone, [Next]_vars
             PROVE  (Handshakes /\ Phases /\ Numbers)'
  BY KindsNext DEF InInv, Alone, static
<1> SUFFICES (Phases /\ Numbers)'
  BY HandshakesNext
<1>1. Types /\ OneSender /\ kind # "port" /\ ~tty /\ lastOutputSeq \in Nat
  BY OnlyOne DEF OutInv, Types, Kinds, Messages, Alone
<1>2. {"reader", "run", "input", "watcher", "close"} \subseteq Senders
  BY DEF Senders
<1>3. \A a \in {"reader", "run", "input", "watcher", "close"} : a \in Senders
  BY <1>2
<1> USE DEF agent, sender, static, startup
<1>4. CASE AgentSends \/ AgentResends \/ LinkEnds \/ TimerFires
  BY <1>4, NumbersFrame DEF AgentSends, AgentResends, LinkEnds, TimerFires, Phases
<1>5. CASE Receive
  <2>1. /\ reader = "reading" /\ down # <<>> /\ Head(down) \in 1..Len(out)
        /\ UNCHANGED <<up, sequence, run, input, pending>>
    BY <1>5 DEF Receive, OutInv, Messages
  <2>2. CASE ~NewMessage(Head(down))
    BY <1>5, <2>1, <2>2, NumbersFrame DEF Receive, Phases
  <2>3. CASE NewMessage(Head(down)) /\ out[Head(down)] = "handshake"
    <3>1. lastOutputSeq = 0 /\ lastOutputSeq' # 0
      BY <1>1, <1>5, <2>1, <2>3 DEF Handshakes, NewMessage, Receive, OutInv, Messages
    <3>2. AllIdle
      BY <1>1, <2>1, <3>1, NobodySends
    <3>3. Call("reader", "response") /\ ready' = ready /\ reader' = "answering"
      BY <1>5, <2>3 DEF Receive, ReadyOnRequest
    <3>4. /\ \A b \in Senders \ {"reader"} : sending'[b] = sending[b]
      BY <1>1, <1>2, <3>3, CallAt
    <3>5. Numbers'
      BY <1>1, <1>2, <2>1, <3>2, <3>3, CallNumbers
    <3>6. Phases'
      BY <1>3, <2>1, <3>1, <3>3, <3>4 DEF Phases
    <3> QED
      BY <3>5, <3>6
  <2>4. CASE NewMessage(Head(down)) /\ out[Head(down)] # "handshake"
    <3>1. /\ UNCHANGED <<reader, sending>> /\ ready' = TRUE /\ lastOutputSeq' # 0
      BY <1>1, <1>5, <2>1, <2>4 DEF Receive, NewMessage
    <3>2. sending["reader"].at = "idle"
      BY <2>1 DEF Phases
    <3>3. Phases'
      BY <2>1, <3>1, <3>2 DEF Phases
    <3> QED
      BY <2>1, <3>1, <3>3, NumbersFrame
  <2> QED
    BY <2>2, <2>3, <2>4
<1>6. CASE HandshakeAnswered
  <2>1. lastOutputSeq # 0
    BY <1>6 DEF HandshakeAnswered, Phases
  <2> QED
    BY <1>6, NumbersFrame DEF HandshakeAnswered, Phases, Succeeded
<1>7. CASE ReceiveFails \/ ReaderEnds
  BY <1>7, NumbersFrame DEF ReceiveFails, ReaderEnds, Phases
<1>8. CASE Ready \/ Flush
  <2>1. UNCHANGED <<sender, reader, lastOutputSeq, ready, input>> /\ run' \in {"flush", "flushed"} /\ ~pending'
        /\ (run \in {"size", "flush"} \/ (run = "waiting" /\ ready))
    BY <1>1, <1>8 DEF Ready, Flush, RunGoto, Phases
  <2>2. sending["run"].at = "idle" /\ ready /\ input = "off"
    BY <2>1 DEF Phases
  <2> QED
    BY <2>1, <2>2, NumbersFrame DEF Phases
<1>9. CASE StartCommand \/ SendReturn
  <2>1. /\ UNCHANGED <<up, sequence, reader, lastOutputSeq, ready, input, pending>> /\ run' \in {"command", "return"}
        /\ (run = "flushed" \/ (run = "command" /\ sending["run"].at = "idle"))
    BY <1>9 DEF StartCommand, SendReturn, RunGoto, Succeeded
  <2>2. PICK what \in {"command", "return"} : Call("run", what)
    BY <1>9 DEF StartCommand, SendReturn
  <2>3. ready /\ input = "off"
    BY <2>1 DEF Phases
  <2>4. AllIdle
    BY <1>1, <2>1, <2>3, NobodySends
  <2>5. \A b \in Senders \ {"run"} : sending'[b] = sending[b]
    BY <1>1, <1>2, <2>2, CallAt
  <2>6. Numbers'
    BY <1>1, <1>2, <2>1, <2>2, <2>4, CallNumbers
  <2>7. Phases'
    BY <1>3, <2>1, <2>3, <2>5 DEF Phases
  <2> QED
    BY <2>6, <2>7
<1>10. CASE NeverReady \/ CommandFails \/ Ends \/ Close
  BY <1>1, <1>10, NumbersFrame DEF NeverReady, CommandFails, Ends, Close, RunGoto, Phases
<1>11. CASE Relay
  <2>1. UNCHANGED <<sender, reader, lastOutputSeq, ready, pending>> /\ run' = "relay" /\ input' = "reading"
        /\ (run = "flushed" \/ (run = "return" /\ sending["run"].at = "idle"))
    BY <1>11 DEF Relay, RunGoto, Succeeded
  <2>2. input = "off" /\ ready /\ sending["run"].at = "idle"
    BY <2>1 DEF Phases
  <2>3. sending["input"].at = "idle"
    BY <2>2 DEF Phases
  <2> QED
    BY <2>1, <2>2, <2>3, NumbersFrame DEF Phases
<1>12. CASE Type
  <2>1. /\ UNCHANGED <<up, sequence, reader, lastOutputSeq, ready, run, pending>> /\ input = "reading"
        /\ input' = "sending" /\ Call("input", "input")
    BY <1>12 DEF Type
  <2>2. AllIdle
    BY <1>1, <2>1, NobodySends
  <2>3. \A b \in Senders \ {"input"} : sending'[b] = sending[b]
    BY <1>1, <1>2, <2>1, CallAt
  <2>4. Numbers'
    BY <1>1, <1>2, <2>1, <2>2, CallNumbers
  <2>5. Phases'
    BY <1>3, <2>1, <2>2, <2>3 DEF Phases, AllIdle
  <2> QED
    BY <2>4, <2>5
<1>13. CASE InputSent
  BY <1>13, NumbersFrame DEF InputSent, Succeeded, Phases
<1>14. CASE InputEnds
  <2>1. UNCHANGED <<sender, reader, lastOutputSeq, ready, run, pending>> /\ input = "reading" /\ input' = "ended"
    BY <1>1, <1>14 DEF InputEnds
  <2> QED
    BY <2>1, NumbersFrame DEF Phases
<1>15. CASE FlagSent \/ UNCHANGED vars
  BY <1>15, NumbersFrame DEF FlagSent, vars, Phases
\* These are of a terminal or of a port.
<1>16. ~Resize /\ ~UserCloses /\ ~UserClosed
  BY <1>1 DEF Resize, UserCloses, UserClosed, Phases
<1>17. ASSUME NEW a \in Senders, Load(a) \/ Store(a) \/ Write(a)
       PROVE  (Phases /\ Numbers)'
  <2>1. /\ sending[a].at # "idle"
        /\ \A b \in Senders : sending[b].at = "idle" => sending'[b] = sending[b]
        /\ \A b \in Senders : sending'[b].what = sending[b].what
        /\ UNCHANGED <<reader, lastOutputSeq, ready, run, input, pending>>
    BY <1>1, <1>17 DEF Load, Store, Write, Types, Sends
  <2>2. Phases'
    BY <1>3, <2>1 DEF Phases
  <2> QED
    BY <1>1, <1>17, <2>2, SendNumbers
<1> QED
  BY <1>4, <1>5, <1>6, <1>7, <1>8, <1>9, <1>10, <1>11, <1>12, <1>13, <1>14, <1>15, <1>16, <1>17
     DEF Next, ReaderStep, RunStep, SenderStep, Exited

\* The input of a command, and of a shell without a terminal, is numbered one by
\* one: readLoop has answered the handshake before Run sends the command, and Run
\* has sent the command before it starts copyInput, so that no two of them are in
\* sendInputPayload, which has no lock; and after a send that failed there is none.
THEOREM NumbersInput == Spec => []InputNumbered
<1>1. Init => OutInv /\ InInv
  BY OutInit, InInit
<1>2. (OutInv /\ InInv) /\ [Next]_vars => (OutInv /\ InInv)'
  BY OutNext, InNext
<1>3. OutInv /\ InInv => InputNumbered
  BY DEF InInv, Alone, Numbers, InputNumbered
<1> QED
  BY <1>1, <1>2, <1>3, PTL DEF Spec
=============================================================================
