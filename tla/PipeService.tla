----------------------------- MODULE PipeService -----------------------------
(***************************************************************************)
(* What an lspipe daemon promises: a client's request is run once on each  *)
(* of a fixed list of hosts, the hosts finish in any order and without      *)
(* regard to each other, and the one answer comes after all of them and    *)
(* summarises all of them.  Connections do not appear here.                *)
(***************************************************************************)
EXTENDS Naturals

CONSTANTS
  Hosts,    \* the entries of the list: a host that is listed twice counts twice
  Clients

VARIABLES
  up,        \* the process runs
  request,   \* "idle", "running", "rejected" or "done", per client
  targets,   \* hosts the request is run on
  result,    \* what came of it on each host, "none" while it runs
  exitCode   \* the code of the last answer

vars == <<up, request, targets, result, exitCode>>

Results == {"ok", "exit", "error", "error0"}
Failed(r) == r \in {"exit", "error"}

Init ==
  /\ up = TRUE
  /\ request = [c \in Clients |-> "idle"]
  /\ targets = [c \in Clients |-> {}]
  /\ result = [w \in Clients \X Hosts |-> "none"]
  /\ exitCode = [c \in Clients |-> 0]

Accept(c, T) ==
  /\ up /\ request[c] # "running"
  /\ T # {}
  /\ request' = [request EXCEPT ![c] = "running"]
  /\ targets' = [targets EXCEPT ![c] = T]
  /\ result' = [w \in Clients \X Hosts |-> IF w[1] = c THEN "none" ELSE result[w]]
  /\ UNCHANGED <<up, exitCode>>

Reject(c) ==
  /\ up /\ request[c] # "running"
  /\ request' = [request EXCEPT ![c] = "rejected"]
  /\ UNCHANGED <<up, targets, result, exitCode>>

HostFinishes(c, h, r) ==
  /\ up /\ request[c] = "running"
  /\ h \in targets[c] /\ result[<<c, h>>] = "none"
  /\ result' = [result EXCEPT ![<<c, h>>] = r]
  /\ UNCHANGED <<up, request, targets, exitCode>>

Answer(c) ==
  /\ up /\ request[c] = "running"
  /\ \A h \in targets[c] : result[<<c, h>>] # "none"
  /\ request' = [request EXCEPT ![c] = "done"]
  /\ exitCode' = [exitCode EXCEPT ![c] =
                    IF \E h \in targets[c] : Failed(result[<<c, h>>]) THEN 1 ELSE 0]
  /\ UNCHANGED <<up, targets, result>>

GoDown ==
  /\ up
  /\ up' = FALSE
  /\ UNCHANGED <<request, targets, result, exitCode>>

Next ==
  \/ \E c \in Clients, T \in SUBSET Hosts : Accept(c, T)
  \/ \E c \in Clients : Reject(c) \/ Answer(c)
  \/ \E c \in Clients, h \in Hosts, r \in Results : HostFinishes(c, h, r)
  \/ GoDown

Spec == Init /\ [][Next]_vars
=============================================================================
