---------------------------- MODULE MCConfigRead ----------------------------
(* What is on the disk for ConfigRead: hosts n1 to n4, include files f and g, *)
(* providers p, q and r. *)
EXTENDS ConfigRead, TLC

CONSTANTS n1, n2, n3, n4, f, g, p, q, r

MCSettings == {"addr", "user", "ignore", "connector"}
MCProviders == <<p, q, r>>

\* The settings that are known, and no others.
Set(known) == [k \in MCSettings |-> IF k \in DOMAIN known THEN known[k] ELSE ""]
Addr(a) == Set([addr |-> a])
User(u) == Set([user |-> u])
Match(priority, hosts, config) == [priority |-> priority, hosts |-> hosts, config |-> config]
Branch(priority, when, defined, config) ==
  [priority |-> priority, when |-> when, defined |-> defined, config |-> config]

Raw(open, reserved, keys, matches) ==
  [when |-> "holds", enabled |-> TRUE, inventory |-> TRUE, valid |-> TRUE,
   failOpen |-> open, reserved |-> reserved, keys |-> keys, matches |-> matches]

Servers(list) == [kind |-> "servers", servers |-> list]
Named1(n, config) == [name |-> n, config |-> config]
Fails == [kind |-> "error", servers |-> <<>>]
NoName == [kind |-> "malformed", servers |-> <<>>]
Plugin(reserves, answers) == [reserves |-> reserves, answers |-> answers]

Import(when, readable, hosts, matches) ==
  [when |-> when, readable |-> readable, own |-> User("imported"), hosts |-> hosts, matches |-> matches]

Include(readable, hosts, table, open, max) ==
  [readable |-> readable, common |-> User("included"), server |-> hosts, provider |-> table,
   failOpen |-> open, maxParallel |-> max]

Plain == Raw("", {}, NoSettings, <<>>)

\* The answers of three plugins, one of which gives the same host twice.
MCPlugin ==
  (p :> Plugin({"user"}, {Servers(<<Named1(n3, Addr("p3"))>>), Fails})
   @@ q :> Plugin({}, {Servers(<<Named1(n3, Addr("q3")), Named1(n4, Set([addr |-> "q4", user |-> "own"])),
                                 Named1(n3, Addr("q5"))>>), NoName})
   @@ r :> Plugin({"addr"}, {Servers(<<Named1(n2, Addr("r2"))>>), Servers(<<>>), Fails}))

\* Every source, overlapping: both include files have n2.
Everything == [readable |-> TRUE, common |-> User("common"),
  server |-> n1 :> Host(Addr("f1"), <<Branch(100, "holds", {"user", "addr"}, Set([user |-> "late", addr |-> "m1"])),
                                      Branch(50, "holds", {"user", "ignore"}, Set([user |-> "early", ignore |-> "yes"])),
                                      Branch(50, "not", {"addr"}, Addr("never"))>>)
          @@ n2 :> Host(Addr("f2"), <<>>),
  sshconfig |-> <<Import("holds", TRUE, n4 :> Addr("i4"), <<Match(100, {n4}, User("m")), Match(1, {n4}, Addr("k"))>>),
                  Import("not", FALSE, n1 :> Addr("i1"), <<>>),
                  Import("holds", TRUE, n4 :> Addr("j4"), <<>>)>>,
  include |-> f :> Include(TRUE, n2 :> Host(Addr("i2"), <<>>), p :> Raw("yes", {}, User("leak"), <<>>), FALSE, 1)
           @@ g :> Include(TRUE, n2 :> Host(User("g"), <<Branch(100, "holds", {"addr"}, Addr("g2"))>>), <<>>, TRUE, 0),
  provider |-> p :> Raw("no", {}, NoSettings, <<>>)
            @@ q :> Raw("", {"addr"}, Set([addr |-> "q", user |-> "q"]),
                        <<Match(100, {n3, n4}, User("all")), Match(100, {n4}, Addr("x4")), Match(1, {n3}, Addr("x3"))>>)
            @@ r :> Raw("", {}, User("r"), <<>>),
  failOpen |-> FALSE, maxParallel |-> 2, plugin |-> MCPlugin]

\* Providers alone, with every say about failures.
Opens == {[Everything EXCEPT !.include = <<>>, !.failOpen = all, !.sshconfig = <<>>,
             !.provider = p :> Raw(one, {}, User("p"), <<>>) @@ r :> Plain]
          : all \in BOOLEAN, one \in {"", "yes", "no"}}

\* What ends lssh before, or after, anything is asked.
Broken == {
  [Everything EXCEPT !.readable = FALSE],
  [Everything EXCEPT !.sshconfig = <<Import("holds", FALSE, <<>>, <<>>)>>],
  [Everything EXCEPT !.sshconfig = <<Import("bad", TRUE, <<>>, <<>>)>>],
  [Everything EXCEPT !.include[g].readable = FALSE],
  [Everything EXCEPT !.provider[q].when = "bad"],
  [Everything EXCEPT !.provider[q].valid = FALSE],
  [Everything EXCEPT !.provider[q].when = "not", !.provider[r].enabled = FALSE],
  [Everything EXCEPT !.server[n1].match = <<Branch(1, "bad", {}, NoSettings)>>],
  [Everything EXCEPT !.common = NoSettings]}

\* As many at a time as there are.
Unlimited == [Everything EXCEPT !.include = <<>>, !.maxParallel = 0]

MCDisks == {Everything, Unlimited} \cup Opens \cup Broken
=============================================================================
