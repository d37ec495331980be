---------------------------- MODULE MCPipeDaemon ----------------------------
(***************************************************************************)
(* Instances of PipeDaemon for TLC.                                        *)
(***************************************************************************)
EXTENDS PipeDaemon, TLC

\* One SSH host is listed twice, one host runs a connector.
OneTwice == <<"h1", "h1", "p">>

\* One SSH host, for the configurations with two clients.
OneHost == <<"h1">>

\* Connections are interchangeable: no property tells one from another.
ConnSymmetry == Permutations(Conns)

\* With several clients, they are too.
ClientSymmetry == Permutations(Conns) \cup Permutations(Clients)
=============================================================================
