------------------------------ MODULE ConfigRead ------------------------------
(***************************************************************************)
(* How every lssh command learns about its hosts (src/internal/config,     *)
(* Read): the configuration file, OpenSSH files, include files and the     *)
(* inventories of provider plugins are read one after the other into one   *)
(* table of servers, later ones replacing earlier ones.  Include files are *)
(* read in the random order of a Go map.  The providers are asked at once, *)
(* at most max_parallel of them at a time, each in a process of its own    *)
(* that may fail or be killed by its timeout; their answers are merged     *)
(* when all are in.  Finally the match branches of each server are applied *)
(* and every server is checked.  Any error ends the command.               *)
(*                                                                         *)
(* A server's settings are a function to values, where "" is what is not   *)
(* set.  A pattern is the set of host names it matches; the conditions of  *)
(* OpenSSH import matches on user, address and port are left out, and so   *)
(* are the keys of a plugin that are no settings of a server.              *)
(***************************************************************************)
EXTENDS Integers, Sequences, FiniteSets, SequencesExt, FiniteSetsExt

CONSTANTS Settings,   \* of a server: "addr", "user", "ignore", "connector" and others
          Providers,  \* the names of providers, in the order of their names
          Disks       \* what the files may say and the plugins may answer

Provider == ToSet(Providers)

ASSUME SettingsAssumption == {"addr", "user", "ignore", "connector"} \subseteq Settings
ASSUME ProvidersAssumption == IsInjective(Providers)
ASSUME DisksAssumption ==
  \A d \in Disks :
    /\ DOMAIN d.provider \subseteq Provider /\ d.failOpen \in BOOLEAN
    /\ \A f \in DOMAIN d.include :
         DOMAIN d.include[f].provider \subseteq Provider /\ d.include[f].failOpen \in BOOLEAN

VARIABLES disk,      \* the files and plugins, which do not change
          phase,     \* what Read does next, "ready", or "exited"
          common,    \* c.Common
          server,    \* c.Server
          unread,    \* the include files to be read
          provider,  \* c.Provider: the providers' tables
          failOpen,  \* c.Providers.FailOpen
          maxParallel, \* c.Providers.MaxParallel, 0 for no limit
          call,      \* where each provider's goroutine is
          answer     \* results[i]: what describe reserved, and the inventory

tables == <<common, server, provider, failOpen, maxParallel>>
calls == <<call, answer>>
vars == <<disk, phase, tables, unread, calls>>

NoSettings == [k \in Settings |-> ""]
NoAnswer == [reserves |-> {}, kind |-> "", servers |-> <<>>]

-----------------------------------------------------------------------------
(* Merging *)

\* serverConfigReduct: what the child does not set is taken from the other.
Reduct(per, child) == [k \in Settings |-> IF child[k] = "" THEN per[k] ELSE child[k]]

\* mergeServerMatchConfig: a branch may also clear what it names.
Overlay(base, branch) == [k \in Settings |-> IF k \in branch.defined THEN branch.config[k] ELSE base[k]]

\* sortedMatches and its likes: by priority, then in the order of the sequence.
\* That is the order of the file for a server's branches and for a provider's
\* matches, and the order of their names for an OpenSSH import's (openssh.go).
Sorted(matches) ==
  LET before(i, j) == \/ matches[i].priority < matches[j].priority
                      \/ matches[i].priority = matches[j].priority /\ i < j
      order == SetToSortSeq(DOMAIN matches, before)
  IN [i \in DOMAIN order |-> matches[order[i]]]

\* applyProviderInventoryMatches, applyOpenSSHImportMatches
ApplyMatches(host, base, matches) ==
  FoldLeft(LAMBDA current, m : IF host \in m.hosts THEN Reduct(current, m.config) ELSE current,
           base, Sorted(matches))

\* Servers of one source take the place of those that were there.
Put(table, new) == [n \in DOMAIN table \cup DOMAIN new |-> IF n \in DOMAIN new THEN new[n] ELSE table[n]]

Host(config, match) == [config |-> config, match |-> match]

\* ReduceCommon, and the same for the servers of an include file.
Reduced(base, hosts) == [n \in DOMAIN hosts |-> Host(Reduct(base, hosts[n].config), hosts[n].match)]

Exit == phase' = "exited" /\ UNCHANGED tables

-----------------------------------------------------------------------------
(* The files *)

Init ==
  /\ disk \in Disks
  /\ phase = "file"
  /\ common = NoSettings /\ server = <<>>
  /\ unread = {}
  /\ provider = <<>> /\ failOpen = FALSE /\ maxParallel = 0
  /\ call = [p \in Provider |-> "none"]
  /\ answer = [p \in Provider |-> NoAnswer]

\* decodeConfigFile and ReduceCommon.
ReadFile ==
  /\ phase = "file"
  /\ IF ~disk.readable THEN Exit
     ELSE /\ phase' = "openssh"
          /\ common' = disk.common
          /\ server' = Reduced(disk.common, disk.server)
          /\ provider' = disk.provider
          /\ failOpen' = disk.failOpen
          /\ maxParallel' = disk.maxParallel
  /\ unread' = DOMAIN disk.include
  /\ UNCHANGED <<disk, calls>>

\* readConfiguredOpenSSHConfig: the hosts of one [sshconfig] table.
Imported(import) ==
  [h \in DOMAIN import.hosts |->
     Host(ApplyMatches(h, Reduct(Reduct(common, import.own), import.hosts[h]), import.matches), <<>>)]

\* The tables in the order of their names; without any, ~/.ssh/config is the
\* only one if it exists.  activeOpenSSHConfigs: a table whose when cannot be understood ends it all.
ReadOpenSSHConfig ==
  /\ phase = "openssh"
  /\ IF \E i \in ToSet(disk.sshconfig) : i.when = "bad" \/ (i.when = "holds" /\ ~i.readable) THEN Exit
     ELSE /\ phase' = "includes"
          /\ server' = FoldLeft(LAMBDA table, i : Put(table, Imported(i)), server,
                                SelectSeq(disk.sshconfig, LAMBDA i : i.when = "holds"))
          /\ UNCHANGED <<common, provider, failOpen, maxParallel>>
  /\ UNCHANGED <<disk, unread, calls>>

\* ReadIncludeFiles: one more file, whichever comes next.
ReadIncludeFile(f) ==
  /\ phase = "includes" /\ f \in unread
  /\ unread' = unread \ {f}
  /\ LET inc == disk.include[f] IN
     IF ~inc.readable THEN Exit
     ELSE /\ server' = Put(server, Reduced(Reduct(common, inc.common), inc.server))
          /\ provider' = Put(provider, inc.provider)
          /\ failOpen' = (failOpen \/ inc.failOpen)
          /\ maxParallel' = IF inc.maxParallel > 0 THEN inc.maxParallel ELSE maxParallel
          /\ UNCHANGED <<phase, common>>
  /\ UNCHANGED <<disk, calls>>

-----------------------------------------------------------------------------
(* The providers *)

\* activeProviders, providerEnabled, providerHasCapability
Active == {p \in DOMAIN provider : provider[p].when = "holds"}
Asked == {p \in Active : provider[p].enabled /\ provider[p].inventory}

StartProviders ==
  /\ phase = "includes" /\ unread = {}
  /\ IF \E p \in DOMAIN provider : provider[p].when = "bad" THEN Exit /\ UNCHANGED call
     ELSE /\ phase' = "fetch"
          /\ call' = [p \in Provider |-> IF p \in Asked THEN "waiting" ELSE "none"]
          /\ UNCHANGED tables
  /\ UNCHANGED <<disk, unread, answer>>

Calling == {p \in Provider : call[p] \in {"describe", "list"}}

\* providerNeedsDescribeReservedKeys: there is a key that is not lssh's own,
\* and the user has not said which keys are the plugin's.
NeedsDescribe(p) == provider[p].reserved = {} /\ \E k \in Settings : provider[p].keys[k] # ""

\* The goroutine gets its place in the semaphore.
Take(p) ==
  /\ phase = "fetch" /\ call[p] = "waiting"
  /\ maxParallel > 0 => Cardinality(Calling) < maxParallel
  /\ call' = [call EXCEPT ![p] = IF NeedsDescribe(p) THEN "describe" ELSE "list"]
  /\ UNCHANGED <<disk, phase, tables, unread, answer>>

\* The plugin describes itself; if it fails, nothing is said about it.
Describe(p) ==
  /\ phase = "fetch" /\ call[p] = "describe"
  /\ call' = [call EXCEPT ![p] = "list"]
  /\ \E reserves \in {disk.plugin[p].reserves, {}} : answer' = [answer EXCEPT ![p].reserves = reserves]
  /\ UNCHANGED <<disk, phase, tables, unread>>

\* The inventory, or an error, within the timeout.
List(p) ==
  /\ phase = "fetch" /\ call[p] = "list"
  /\ call' = [call EXCEPT ![p] = "done"]
  /\ \E a \in disk.plugin[p].answers :
       answer' = [answer EXCEPT ![p].kind = a.kind, ![p].servers = a.servers]
  /\ UNCHANGED <<disk, phase, tables, unread>>

\* Deviation: either setting opens it.
FailOpenEither(p) == failOpen \/ provider[p].failOpen = "yes"

\* providerFailOpen: the provider's own setting counts, if it has one.
FailOpen(p) == IF provider[p].failOpen = "" THEN failOpen ELSE provider[p].failOpen = "yes"

\* mergeProviderDescribeMetadata, providerServerDefaults: what the provider's
\* table sets for its servers, without the keys the plugin keeps to itself.
ReservedKeys(p) == IF answer[p].reserves # {} THEN answer[p].reserves ELSE provider[p].reserved
Defaults(p) == [k \in Settings |-> IF k \in ReservedKeys(p) THEN "" ELSE provider[p].keys[k]]

\* One answer after the other; a later server of the same name replaces.
Listed(p) ==
  FoldLeft(LAMBDA table, s :
             LET merged == Reduct(Reduct(common, Defaults(p)), s.config)
             IN Put(table, [n \in {s.name} |-> Host(ApplyMatches(n, merged, provider[p].matches), <<>>)]),
           <<>>, answer[p].servers)

\* An inventory that fails may be let pass; one with a server without a name,
\* or a provider whose defaults or matches cannot be understood, may not.
MergeIn(order) ==
  /\ phase = "fetch"
  /\ \A p \in Provider : call[p] \in {"none", "done"}
  /\ IF \E p \in Asked : IF answer[p].kind = "error" THEN ~FailOpen(p)
                                                   ELSE answer[p].kind = "malformed" \/ ~provider[p].valid
     THEN Exit
     ELSE /\ phase' = "match"
          /\ server' = FoldLeft(LAMBDA table, p : IF p \in Asked THEN Put(table, Listed(p)) ELSE table,
                                server, order)
          /\ UNCHANGED <<common, provider, failOpen, maxParallel>>
  /\ UNCHANGED <<disk, unread, calls>>

\* Deviation: in the order in which the answers come in.
MergeAsTheyCome == \E order \in {Providers, Reverse(Providers)} : MergeIn(order)

\* ReadInventoryProviders after the wait: in the order of the names.
MergeProviders == MergeIn(Providers)

-----------------------------------------------------------------------------
(* The branches and the check *)

Branches(n) == SelectSeq(Sorted(server[n].match), LAMBDA b : b.when = "holds")

ResolveConditionalMatches ==
  /\ phase = "match"
  /\ IF \E n \in DOMAIN server : \E b \in ToSet(server[n].match) : b.when = "bad" THEN Exit
     ELSE /\ phase' = "check"
          /\ server' = [n \in DOMAIN server |->
                          Host(FoldLeft(Overlay, server[n].config, Branches(n)), server[n].match)]
          /\ UNCHANGED <<common, provider, failOpen, maxParallel>>
  /\ UNCHANGED <<disk, unread, calls>>

\* An address, a user and a way to authenticate, which counts as given here,
\* unless the server is hidden or reached through a connector.
Complete(config) == \/ config["ignore"] # "" \/ config["connector"] # ""
                    \/ config["addr"] # "" /\ config["user"] # ""

CheckFormat ==
  /\ phase = "check"
  /\ phase' = IF \A n \in DOMAIN server : Complete(server[n].config) THEN "ready" ELSE "exited"
  /\ UNCHANGED <<disk, tables, unread, calls>>

Fetch == \E p \in Provider : Take(p) \/ Describe(p) \/ List(p)

\* Read has returned or lssh has exited.  In any other state something must be
\* possible (TLC checks for deadlock): every provider's goroutine gets its place.
Terminated == phase \in {"ready", "exited"} /\ UNCHANGED vars

Next ==
  \/ ReadFile
  \/ ReadOpenSSHConfig
  \/ \E f \in UNION {DOMAIN d.include : d \in Disks} : ReadIncludeFile(f)
  \/ StartProviders
  \/ Fetch
  \/ MergeProviders
  \/ ResolveConditionalMatches
  \/ CheckFormat
  \/ Terminated

Spec == Init /\ [][Next]_vars

-----------------------------------------------------------------------------
(* Properties *)

TypeOK ==
  /\ phase \in {"file", "openssh", "includes", "fetch", "match", "check", "ready", "exited"}
  /\ DOMAIN common = Settings
  /\ \A n \in DOMAIN server : DOMAIN server[n].config = Settings
  /\ unread \subseteq DOMAIN disk.include
  /\ DOMAIN provider \subseteq Provider
  /\ failOpen \in BOOLEAN /\ maxParallel \in Nat
  /\ call \in [Provider -> {"none", "waiting", "describe", "list", "done"}]

\* The value of a setting: that of the last layer which has one.
Top(layers, k) ==
  LET setting == {i \in DOMAIN layers : layers[i][k] # ""}
  IN IF setting = {} THEN "" ELSE layers[Max(setting)][k]

\* What a branch or a match of those that hold says last about a setting.
Strongest(ms, which) ==
  CHOOSE i \in which : \A j \in which : \/ ms[j].priority < ms[i].priority
                                        \/ ms[j].priority = ms[i].priority /\ j <= i

\* What a server's settings should be if its entry has these layers, matches
\* and branches, the latter two in the order that decides between equal
\* priorities: that of the file, or of the names for imported ones.
Expected(layers, n, matches, branches) ==
  [k \in Settings |->
     LET clear == {i \in DOMAIN branches : branches[i].when = "holds" /\ k \in branches[i].defined}
         fits == {i \in DOMAIN matches : n \in matches[i].hosts /\ matches[i].config[k] # ""}
     IN IF clear # {} THEN branches[Strongest(branches, clear)].config[k]
        ELSE IF fits # {} THEN matches[Strongest(matches, fits)].config[k]
        ELSE Top(layers, k)]

FromProvider(p, n) ==
  LET last == Max({i \in DOMAIN answer[p].servers : answer[p].servers[i].name = n})
  IN Expected(<<disk.common, Defaults(p), answer[p].servers[last].config>>, n, provider[p].matches, <<>>)
FromInclude(f, n) ==
  LET inc == disk.include[f]
  IN Expected(<<disk.common, inc.common, inc.server[n].config>>, n, <<>>, inc.server[n].match)
FromImport(i, n) ==
  LET import == disk.sshconfig[i]
  IN Expected(<<disk.common, import.own, import.hosts[n]>>, n, import.matches, <<>>)
FromFile(n) == Expected(<<disk.common, disk.server[n].config>>, n, <<>>, disk.server[n].match)

ListedBy(n) == {i \in DOMAIN Providers : \E s \in ToSet(answer[Providers[i]].servers) : s.name = n}
IncludedBy(n) == {f \in DOMAIN disk.include : n \in DOMAIN disk.include[f].server}
ImportedBy(n) == {i \in DOMAIN disk.sshconfig : /\ disk.sshconfig[i].when = "holds"
                                                /\ n \in DOMAIN disk.sshconfig[i].hosts}

Named == DOMAIN disk.server \cup UNION {DOMAIN disk.include[f].server : f \in DOMAIN disk.include}
           \cup UNION {DOMAIN i.hosts : i \in {j \in ToSet(disk.sshconfig) : j.when = "holds"}}
           \cup UNION {{x.name : x \in ToSet(answer[p].servers)} : p \in Provider}

\* Every server comes from the last of its sources, with the value of each
\* setting from the most specific place that gives one.  The last provider is
\* the last by name, whichever answered last; among include files that define
\* the same server any may be the last.
LastSourceWins ==
  phase = "ready" =>
    /\ DOMAIN server = Named
    /\ \A n \in DOMAIN server :
         LET config == server[n].config IN
         CASE ListedBy(n) # {} -> config = FromProvider(Providers[Max(ListedBy(n))], n)
           [] ListedBy(n) = {} /\ IncludedBy(n) # {} -> \E f \in IncludedBy(n) : config = FromInclude(f, n)
           [] ListedBy(n) \cup IncludedBy(n) = {} /\ ImportedBy(n) # {} -> config = FromImport(Max(ImportedBy(n)), n)
           [] OTHER -> config = FromFile(n)

MayFail(p) == \/ provider[p].failOpen = "yes"
              \/ provider[p].failOpen = "" /\ (disk.failOpen \/ \E f \in DOMAIN disk.include : disk.include[f].failOpen)
GivesUp(p) == /\ call[p] = "done"
              /\ IF answer[p].kind = "error" THEN ~MayFail(p)
                 ELSE answer[p].kind = "malformed" \/ ~provider[p].valid

\* A provider that may fail does not stop lssh, nor does any provider that was
\* not to be asked; a host list is never used that some source is missing from
\* without the user's leave.
ExitsForCause ==
  phase \in {"ready", "exited"} =>
    (phase = "exited" <=>
       \/ ~disk.readable
       \/ \E i \in ToSet(disk.sshconfig) : i.when = "bad" \/ (i.when = "holds" /\ ~i.readable)
       \/ \E f \in DOMAIN disk.include : ~disk.include[f].readable
       \/ \E p \in DOMAIN provider : provider[p].when = "bad" \/ GivesUp(p)
       \/ \E n \in DOMAIN server : \/ ~Complete(server[n].config)
                                   \/ \E b \in ToSet(server[n].match) : b.when = "bad")
=============================================================================
