-------------------------- MODULE MCShellPipeline ---------------------------
(* Command lines for ShellPipeline: a direct host d, one behind a control *)
(* master c, a connector host k, and a name x that nobody has. *)
EXTENDS ShellPipeline, TLC

CONSTANTS d, c, k, x

Cmd(kind, prog) == [kind |-> kind, prog |-> prog, at |-> {}]
For(hosts, prog) == [kind |-> "targeted", prog |-> prog, at |-> hosts]

MCConnects == <<d, c, k>>
MCKind == d :> "direct" @@ c :> "control" @@ k :> "connector"

MCTyped == {
  <<Cmd("remote", "source")>>,
  <<Cmd("remote", "source"), Cmd("remote", "filter")>>,
  <<Cmd("remote", "source"), Cmd("local", "filter")>>,
  <<Cmd("remote", "source"), Cmd("local", "head")>>,
  <<Cmd("remote", "source"), Cmd("local", "filter"), For({c}, "filter")>>,
  <<Cmd("local", "source"), For({d}, "filter")>>,
  <<For({d, c}, "quiet")>>,
  <<Cmd("perhost", "quiet")>>,
  <<For({c}, "source"), Cmd("perhost", "filter")>>,
  <<Cmd("local", "source"), Cmd("local", "head")>>,
  <<Cmd("local", "source"), For({x}, "filter")>>,
  <<Cmd("builtin", "source"), Cmd("local", "filter")>>,
  <<Cmd("badsubst", "quiet"), Cmd("local", "filter")>>,
  <<Cmd("usage", "quiet"), Cmd("local", "filter")>>,
  <<Cmd("mute", "quiet")>>,
  <<Cmd("remote", "forever")>>,
  <<Cmd("remote", "forever"), Cmd("local", "filter")>>}

\* A targeted command with two hosts in a line that is run once per host.
MCTargets == {<<For({d, c}, "source"), Cmd("perhost", "filter")>>}
=============================================================================
