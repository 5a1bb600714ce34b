-------------------------- MODULE PluginHostProofs --------------------------
(***************************************************************************)
(* The core hosts a plugin at most once, and a command that waits for its  *)
(* plugin has somebody who will start it: for every set of plugins, every  *)
(* manifest and whatever fails.                                            *)
(*                                                                         *)
(* The first is nearly inductive as it stands: start_plugin asks the two   *)
(* sets that say where the host threads are.  The second needs that a      *)
(* restart that is scheduled has its sleeping thread (begin_plugin_launch  *)
(* and plugin_exit clear the mark and leave the thread, never the other    *)
(* way round), and that nothing waits for a plugin that runs, because      *)
(* finish_plugin_connect sends what waits and do_plugin_rpc then sends at  *)
(* once.                                                                   *)
(***************************************************************************)
EXTENDS PluginHost, TLAPS

Hosting == {"spawn", "connect", "loop", "exit"}

\* OneInstance without the types.
HostedOnce ==
    /\ \A p, q \in Hosts(Hosting) : p[1] = q[1] => p = q
    /\ launching = {p[1] : p \in Hosts({"spawn", "connect"})}
    /\ running = Hosts({"loop", "exit"})

Hosted(n) == \E p \in Instances : p[1] = n /\ inst[p].host # "none"

\* The instance that exists may still need a sleeper of its own.
SleepersBounded == \A n \in Names : Hosted(n) => sleepers[n] < MaxSleepers

ScheduledSleeps == \A n \in scheduled : sleepers[n] > 0

NothingWaitsForRunning == \A p \in running : pending[p[1]] = 0

\* The inductive invariant.
HostInv ==
    /\ TypeOK /\ HostedOnce /\ SleepersBounded /\ ScheduledSleeps
    /\ NothingWaitsForRunning /\ PendingHasStarter
-----------------------------------------------------------------------------
LEMMA InstanceNames == \A p \in Instances : p[1] \in Names /\ p = <<p[1], p[2]>>
BY DEF Instances

\* The invariant holds in the initial states.
LEMMA HostInit == Init => HostInv
<1> SUFFICES ASSUME Init PROVE HostInv
    OBVIOUS
<1> USE BoundsAssumption
<1>1. NoInst \in InstStates /\ [NoInst EXCEPT !.host = "spawn"] \in InstStates
    BY DEF NoInst, InstStates
<1>2. Startup \subseteq Names
    BY DEF Startup
<1>3. /\ sleepers \in [Names -> 0 .. MaxSleepers] /\ pending \in [Names -> 0 .. MaxPending]
      /\ stopping \in [Instances -> Reasons]
      /\ inst \in [Instances -> InstStates]
      /\ halted \in [Names -> BOOLEAN]
    BY <1>1 DEF Init, Reasons
<1>4. TypeOK
    BY <1>2, <1>3 DEF Init, TypeOK
<1>5. \A p \in Instances :
         inst[p].host = IF p[1] \in Startup /\ p[2] = 1 THEN "spawn" ELSE "none"
    BY DEF Init, NoInst
<1>6. HostedOnce
  <2>1. Hosts({"spawn", "connect"}) = {p \in Instances : p[1] \in Startup /\ p[2] = 1}
      BY <1>5 DEF Hosts
  <2>2. Hosts(Hosting) = Hosts({"spawn", "connect"}) /\ Hosts({"loop", "exit"}) = {}
      BY <1>5 DEF Hosts, Hosting
  <2>3. \A n \in Startup : \E p \in Hosts({"spawn", "connect"}) : p[1] = n
    <3> SUFFICES ASSUME NEW n \in Startup
                 PROVE  \E p \in Hosts({"spawn", "connect"}) : p[1] = n
        OBVIOUS
    <3>1. <<n, 1>> \in Instances /\ <<n, 1>>[1] = n /\ <<n, 1>>[2] = 1
        BY <1>2 DEF Instances
    <3> QED
        BY <2>1, <3>1
  <2>4. launching = {p[1] : p \in Hosts({"spawn", "connect"})}
    <3>1. launching = Startup
        BY DEF Init
    <3>2. \A p \in Hosts({"spawn", "connect"}) : p[1] \in Startup
        BY <2>1
    <3> QED
        BY <2>3, <3>1, <3>2
  <2>5. \A p, q \in Hosts(Hosting) : p[1] = q[1] => p = q
      BY <2>1, <2>2, InstanceNames
  <2> QED
      BY <2>2, <2>4, <2>5 DEF HostedOnce, Init
<1> QED
    BY <1>4, <1>6 DEF HostInv, Init, SleepersBounded, ScheduledSleeps,
                      NothingWaitsForRunning, PendingHasStarter

\* start_plugin: the plugins asked for that are neither launching nor running
\* get an instance each, and nothing else changes.
LEMMA StartsOnce ==
    ASSUME HostInv, NEW S \in SUBSET Names, NEW sch \in SUBSET scheduled,
           StartPlugins(S, launching, running, sch, stopping), running' = running
    PROVE  /\ HostedOnce'
           /\ launching' \subseteq Names /\ scheduled' \subseteq scheduled
           /\ launching \subseteq launching' /\ launching' \subseteq launching \cup S
           /\ stopping' \in [Instances -> Reasons]
           /\ inst' \in [Instances -> InstStates]
           /\ halted' \in [Names -> BOOLEAN]
           /\ S \subseteq launching' \cup {p[1] : p \in running}
           /\ \A n \in Names : Hosted(n)' => Hosted(n) \/ n \in S
<1> DEFINE T == {n \in S : BeginPluginLaunch(n, launching, running)}
           New == {NewInst(n) : n \in T}
<1>1. \A n \in T : \E p \in Instances : p[1] = n /\ Unused(p)
    BY DEF StartPlugins
<1>2. \A n \in T : NewInst(n) \in Instances /\ NewInst(n)[1] = n /\ Unused(NewInst(n))
    BY <1>1 DEF NewInst
<1>3. /\ launching' = launching \cup T /\ scheduled' = sch \ T
      /\ halted' = [n \in Names |-> halted[n] /\ n \notin T]
      /\ stopping' = [p \in Instances |-> IF p \in New THEN "none" ELSE stopping[p]]
      /\ inst' = [p \in Instances |->
                    IF p \in New THEN [NoInst EXCEPT !.host = "spawn"] ELSE inst[p]]
    BY DEF StartPlugins
<1> HIDE DEF New
<1>4. \A p \in Instances : p \in New => p[1] \in T /\ p = NewInst(p[1]) /\ Unused(p)
    BY <1>2 DEF New
<1>5. \A n \in T : NewInst(n) \in New
    BY DEF New
<1>6. \A n \in T : n \in S /\ n \notin launching /\ \A p \in running : p[1] # n
    BY DEF BeginPluginLaunch
<1>7. \A n \in S \ T : n \in launching \/ \E p \in running : p[1] = n
    BY DEF BeginPluginLaunch
<1> HIDE DEF T
<1>8. [NoInst EXCEPT !.host = "spawn"] \in InstStates
      /\ [NoInst EXCEPT !.host = "spawn"].host = "spawn"
    BY DEF NoInst, InstStates
<1>9. inst' \in [Instances -> InstStates]
    BY <1>3, <1>8 DEF HostInv, TypeOK
<1>10. stopping' \in [Instances -> Reasons]
    BY <1>3 DEF HostInv, TypeOK, Reasons
<1>11. halted' \in [Names -> BOOLEAN]
    BY <1>3
<1>12. \A p \in Instances : inst'[p].host = IF p \in New THEN "spawn" ELSE inst[p].host
    BY <1>3, <1>8
<1>13. \A p \in New : inst[p].host = "none" \/ p \notin Instances
    BY <1>4 DEF Unused
<1>14. \A n \in T : \A p \in Instances : p[1] = n => inst[p].host \notin Hosting
  <2> SUFFICES ASSUME NEW n \in T, NEW p \in Instances, p[1] = n, inst[p].host \in Hosting
               PROVE  FALSE
      OBVIOUS
  <2>1. CASE inst[p].host \in {"spawn", "connect"}
      BY <1>6, <2>1 DEF HostInv, HostedOnce, Hosts
  <2>2. CASE inst[p].host \in {"loop", "exit"}
      BY <1>6, <2>2 DEF HostInv, HostedOnce, Hosts
  <2> QED
      BY <2>1, <2>2 DEF Hosting
<1>15. HostedOnce'
  <2>1. \A p, q \in Hosts(Hosting)' : p[1] = q[1] => p = q
    <3> SUFFICES ASSUME NEW p \in Instances, NEW q \in Instances, p[1] = q[1],
                        inst'[p].host \in Hosting, inst'[q].host \in Hosting
                 PROVE  p = q
        BY DEF Hosts
    <3>1. CASE p \in New
        BY <1>4, <1>12, <1>14, <3>1
    <3>2. CASE q \in New
        BY <1>4, <1>12, <1>14, <3>2
    <3>3. CASE p \notin New /\ q \notin New
        BY <1>12, <3>3 DEF HostInv, HostedOnce, Hosts
    <3> QED
        BY <3>1, <3>2, <3>3
  <2>2. Hosts({"spawn", "connect"})' = Hosts({"spawn", "connect"}) \cup (New \cap Instances)
      BY <1>12, <1>13 DEF Hosts
  <2>3. launching' = {p[1] : p \in Hosts({"spawn", "connect"})'}
      BY <1>2, <1>3, <1>4, <1>5, <2>2 DEF HostInv, HostedOnce
  <2>4. Hosts({"loop", "exit"})' = Hosts({"loop", "exit"})
      BY <1>12, <1>13 DEF Hosts
  <2> QED
      BY <2>1, <2>3, <2>4 DEF HostInv, HostedOnce
<1>16. S \subseteq launching' \cup {p[1] : p \in running}
    BY <1>3, <1>7
<1>17. \A n \in Names : Hosted(n)' => Hosted(n) \/ n \in S
    BY <1>4, <1>6, <1>12 DEF Hosted
<1> QED
    BY <1>3, <1>6, <1>9, <1>10, <1>11, <1>15, <1>16, <1>17 DEF HostInv, TypeOK

\* Steps of the threads and the process of an instance, and requests to stop
\* one: they leave every host thread where it is, as far as the core can tell.
LEMMA SameHosts ==
    ASSUME HostInv,
           UNCHANGED <<manifest, launching, running, scheduled, sleepers, pending, halted>>,
           viewOpen' \in BOOLEAN, stopping' \in [Instances -> Reasons],
           inst' \in [Instances -> InstStates],
           \A p \in Instances :
              /\ inst'[p].host \in {"spawn", "connect"} <=> inst[p].host \in {"spawn", "connect"}
              /\ inst'[p].host \in {"loop", "exit"} <=> inst[p].host \in {"loop", "exit"}
    PROVE  HostInv'
<1>1. TypeOK'
    BY DEF HostInv, TypeOK
<1>2. /\ Hosts({"spawn", "connect"})' = Hosts({"spawn", "connect"})
      /\ Hosts({"loop", "exit"})' = Hosts({"loop", "exit"})
      /\ Hosts(Hosting)' = Hosts(Hosting)
    BY DEF Hosts, Hosting
<1>3. \A p \in Instances : inst'[p].host # "none" => inst[p].host # "none"
    BY DEF HostInv, TypeOK, InstStates
<1>4. HostedOnce' /\ SleepersBounded'
    BY <1>2, <1>3 DEF HostInv, HostedOnce, SleepersBounded, Hosted
<1> QED
    BY <1>1, <1>4 DEF HostInv, ScheduledSleeps, NothingWaitsForRunning, PendingHasStarter,
                      Single

\* The same for a step that changes the record of one instance only.
LEMMA SameHost ==
    ASSUME HostInv, NEW p \in Instances, NEW r \in InstStates,
           inst' = [inst EXCEPT ![p] = r], UNCHANGED coreVars,
           \/ r.host = inst[p].host
           \/ {r.host, inst[p].host} \subseteq {"spawn", "connect"}
           \/ {r.host, inst[p].host} \subseteq {"loop", "exit"}
    PROVE  HostInv'
<1>1. inst \in [Instances -> InstStates] /\ stopping \in [Instances -> Reasons]
      /\ viewOpen \in BOOLEAN
    BY DEF HostInv, TypeOK
<1>2. UNCHANGED <<manifest, launching, running, scheduled, sleepers, pending, halted,
                  viewOpen, stopping>>
    BY DEF coreVars
<1>3. inst' \in [Instances -> InstStates] /\ inst'[p] = r
      /\ \A q \in Instances \ {p} : inst'[q] = inst[q]
    BY <1>1
<1> QED
    BY <1>1, <1>2, <1>3, SameHosts

\* Every step of a thread or process of one instance.
LEMMA ThreadPreserves ==
    ASSUME HostInv, NEW p \in Instances,
           \/ ThreadStep(p) \/ Exit(p) \/ Breach(p)
           \/ SpawnChild(p) \/ MainloopEnds(p) \/ MainloopFails(p)
    PROVE  HostInv'
<1>1. inst \in [Instances -> InstStates] /\ stopping \in [Instances -> Reasons]
      /\ inst[p] \in InstStates
    BY DEF HostInv, TypeOK
<1>2. CASE WatcherLocks(p)
  <2> DEFINE r == [inst[p] EXCEPT !.watcher = "wait"]
  <2>1. r \in InstStates /\ r.host = inst[p].host
      BY <1>1 DEF InstStates
  <2>2. inst' = [inst EXCEPT ![p] = r] /\ UNCHANGED coreVars
      BY <1>1, <1>2 DEF WatcherLocks
  <2> HIDE DEF r
  <2> QED
      BY <2>1, <2>2, SameHost
<1>3. CASE WatcherEnds(p)
  <2> DEFINE r == [inst[p] EXCEPT !.watcher = "ended"]
  <2>1. r \in InstStates /\ r.host = inst[p].host
      BY <1>1 DEF InstStates
  <2>2. inst' = [inst EXCEPT ![p] = r] /\ UNCHANGED coreVars
      BY <1>1, <1>3 DEF WatcherEnds
  <2> HIDE DEF r
  <2> QED
      BY <2>1, <2>2, SameHost
<1>4. CASE StopperLooks(p)
  <2> DEFINE r == [inst[p] EXCEPT !.stopper = IF inst[p].proc = "dead" THEN "ended" ELSE "kill"]
  <2>1. r \in InstStates /\ r.host = inst[p].host
      BY <1>1 DEF InstStates
  <2>2. inst' = [inst EXCEPT ![p] = r] /\ UNCHANGED coreVars
      BY <1>1, <1>4 DEF StopperLooks
  <2> HIDE DEF r
  <2> QED
      BY <2>1, <2>2, SameHost
<1>5. CASE StopperKills(p)
  <2> DEFINE r == [inst[p] EXCEPT !.stopper = "ended", !.proc = "dead"]
  <2>1. r \in InstStates /\ r.host = inst[p].host
      BY <1>1 DEF InstStates
  <2>2. inst' = [inst EXCEPT ![p] = r] /\ UNCHANGED coreVars
      BY <1>1, <1>5 DEF StopperKills
  <2> HIDE DEF r
  <2> QED
      BY <2>1, <2>2, SameHost
<1>6. CASE BreachKills(p)
  <2> DEFINE r == [inst[p] EXCEPT !.breach = "ended", !.proc = "dead"]
  <2>1. r \in InstStates /\ r.host = inst[p].host
      BY <1>1 DEF InstStates
  <2>2. inst' = [inst EXCEPT ![p] = r] /\ UNCHANGED coreVars
      BY <1>1, <1>6 DEF BreachKills
  <2> HIDE DEF r
  <2> QED
      BY <2>1, <2>2, SameHost
<1>7. CASE Exit(p)
  <2> DEFINE r == [inst[p] EXCEPT !.proc = "dead"]
  <2>1. r \in InstStates /\ r.host = inst[p].host
      BY <1>1 DEF InstStates
  <2>2. inst' = [inst EXCEPT ![p] = r] /\ UNCHANGED coreVars
      BY <1>1, <1>7 DEF Exit
  <2> HIDE DEF r
  <2> QED
      BY <2>1, <2>2, SameHost
<1>8. CASE NotifyBreach(p)
  <2> DEFINE r == [inst[p] EXCEPT !.breach = "kill"]
  <2>1. r \in InstStates /\ r.host = inst[p].host
      BY <1>1 DEF InstStates
  <2>2. /\ inst' = [inst EXCEPT ![p] = r] /\ stopping' = [stopping EXCEPT ![p] = "ResourceLimit"]
        /\ UNCHANGED <<manifest, viewOpen, launching, running, scheduled, sleepers, pending,
                       halted>>
      BY <1>1, <1>8 DEF NotifyBreach
  <2> HIDE DEF r
  <2>3. stopping' \in [Instances -> Reasons]
      BY <1>1, <2>2 DEF Reasons
  <2>4. inst' \in [Instances -> InstStates] /\ \A q \in Instances : inst'[q].host = inst[q].host
      BY <1>1, <2>1, <2>2
  <2>5. viewOpen' \in BOOLEAN
      BY <2>2 DEF HostInv, TypeOK
  <2> QED
      BY <2>2, <2>3, <2>4, <2>5, SameHosts
<1>9. CASE SpawnChild(p)
  <2> DEFINE r == [inst[p] EXCEPT !.host = "connect", !.proc = "up", !.watcher = "start"]
  <2>1. r \in InstStates /\ r.host = "connect" /\ inst[p].host = "spawn"
      BY <1>1, <1>9 DEF InstStates, SpawnChild
  <2>2. inst' = [inst EXCEPT ![p] = r] /\ UNCHANGED coreVars
      BY <1>1, <1>9 DEF SpawnChild
  <2> HIDE DEF r
  <2> QED
      BY <2>1, <2>2, SameHost
<1>10. CASE MainloopEnds(p)
  <2> DEFINE r == [inst[p] EXCEPT !.host = "exit"]
  <2>1. r \in InstStates /\ r.host = "exit" /\ inst[p].host = "loop"
      BY <1>1, <1>10 DEF InstStates, MainloopEnds
  <2>2. inst' = [inst EXCEPT ![p] = r] /\ UNCHANGED coreVars
      BY <1>1, <1>10 DEF MainloopEnds
  <2> HIDE DEF r
  <2> QED
      BY <2>1, <2>2, SameHost
<1>11. CASE MainloopFails(p)
  <2> DEFINE r == [inst[p] EXCEPT !.host = "exit"]
  <2>1. r \in InstStates /\ r.host = "exit" /\ inst[p].host = "loop"
      BY <1>1, <1>11 DEF InstStates, MainloopFails
  <2>2. inst' = [inst EXCEPT ![p] = r] /\ UNCHANGED coreVars
      BY <1>1, <1>11 DEF MainloopFails
  <2> HIDE DEF r
  <2> QED
      BY <2>1, <2>2, SameHost
<1>12. CASE Breach(p)
  <2> DEFINE r == [inst[p] EXCEPT !.breach = "notify"]
  <2>1. r \in InstStates /\ r.host = inst[p].host
      BY <1>1 DEF InstStates
  <2>2. inst' = [inst EXCEPT ![p] = r] /\ UNCHANGED coreVars
      BY <1>1, <1>12 DEF Breach
  <2> HIDE DEF r
  <2> QED
      BY <2>1, <2>2, SameHost
<1> QED
    BY <1>2, <1>3, <1>4, <1>5, <1>6, <1>7, <1>8, <1>9, <1>10, <1>11, <1>12 DEF ThreadStep

\* begin_plugin_shutdown, from a stop or from a restart.
LEMMA StopPreserves ==
    ASSUME HostInv, NEW n \in Names, DoStopPlugin(n) \/ DoRestartPlugin(n)
    PROVE  HostInv'
<1>1. PICK p \in running :
         BeginPluginShutdown(p, "Manual") \/ BeginPluginShutdown(p, "Restart")
    BY DEF DoStopPlugin, DoRestartPlugin
<1>2. UNCHANGED <<manifest, viewOpen, launching, running, scheduled, sleepers, pending, halted>>
    BY DEF DoStopPlugin, DoRestartPlugin
<1>3. p \in Instances /\ inst \in [Instances -> InstStates] /\ stopping \in [Instances -> Reasons]
    BY DEF HostInv, TypeOK
<1>4. stopping' \in [Instances -> Reasons]
    BY <1>1, <1>3 DEF BeginPluginShutdown, Reasons
<1>5. /\ inst' \in [Instances -> InstStates]
      /\ \A q \in Instances : inst'[q].host = inst[q].host
  <2> DEFINE r == [inst[p] EXCEPT !.stopper = "poll"]
  <2>1. r \in InstStates /\ r.host = inst[p].host
      BY <1>3 DEF InstStates
  <2>2. inst' = [inst EXCEPT ![p] = r] \/ inst' = inst
      BY <1>1, <1>3 DEF BeginPluginShutdown
  <2> HIDE DEF r
  <2> QED
      BY <1>3, <2>1, <2>2
<1>6. viewOpen' \in BOOLEAN
    BY <1>2 DEF HostInv, TypeOK
<1> QED
    BY <1>2, <1>4, <1>5, <1>6, SameHosts

\* start_plugin on behalf of the user or of a restart thread: somebody with room
\* for one more sleeper, and for whoever waits.
LEMMA StartPreserves ==
    ASSUME HostInv, NEW S \in SUBSET Names, NEW sch \in SUBSET scheduled,
           StartPlugins(S, launching, running, sch, stopping),
           UNCHANGED <<manifest, running>>, viewOpen' \in BOOLEAN,
           sleepers' \in [Names -> 0 .. MaxSleepers],
           pending' \in [Names -> 0 .. MaxPending],
           \A n \in S : sleepers'[n] < MaxSleepers,
           \A n \in Names \ S : sleepers'[n] = sleepers[n] /\ pending'[n] = pending[n],
           \A n \in sch : sleepers'[n] > 0,
           \A p \in running : pending'[p[1]] = pending[p[1]]
    PROVE  HostInv'
<1>1. /\ HostedOnce'
      /\ launching' \subseteq Names /\ scheduled' \subseteq scheduled
      /\ launching \subseteq launching' /\ launching' \subseteq launching \cup S
      /\ stopping' \in [Instances -> Reasons]
      /\ inst' \in [Instances -> InstStates]
      /\ halted' \in [Names -> BOOLEAN]
      /\ S \subseteq launching' \cup {p[1] : p \in running}
      /\ \A n \in Names : Hosted(n)' => Hosted(n) \/ n \in S
    BY StartsOnce
<1>2. scheduled' \subseteq sch
    BY DEF StartPlugins
<1>3. TypeOK'
    BY <1>1 DEF HostInv, TypeOK
<1>4. SleepersBounded'
    BY <1>1 DEF HostInv, SleepersBounded
<1>5. ScheduledSleeps'
    BY <1>2 DEF ScheduledSleeps
<1>6. NothingWaitsForRunning'
    BY DEF HostInv, NothingWaitsForRunning
<1>7. PendingHasStarter'
  <2> SUFFICES ASSUME NEW n \in Names \ Single, pending'[n] > 0
               PROVE  n \in launching' \/ sleepers'[n] > 0
      BY DEF PendingHasStarter, Single
  <2>1. CASE n \in S
    <3>1. \A p \in running : p[1] # n
        BY <2>1 DEF HostInv, NothingWaitsForRunning
    <3> QED
        BY <1>1, <2>1, <3>1
  <2>2. CASE n \notin S
      BY <1>1, <2>2 DEF HostInv, PendingHasStarter
  <2> QED
      BY <2>1, <2>2
<1> QED
    BY <1>1, <1>3, <1>4, <1>5, <1>6, <1>7 DEF HostInv

\* The user's requests, file events and restart threads.
LEMMA ClientPreserves ==
    ASSUME HostInv,
           \/ DoNewView \/ DoCloseView
           \/ \E n \in Names : ClientStep(n) \/ RestartPlugin(n)
    PROVE  HostInv'
<1> USE BoundsAssumption
<1>1. /\ sleepers \in [Names -> 0 .. MaxSleepers] /\ pending \in [Names -> 0 .. MaxPending]
      /\ scheduled \subseteq Names /\ \A n \in scheduled : sleepers[n] > 0
      /\ viewOpen \in BOOLEAN
    BY DEF HostInv, TypeOK, ScheduledSleeps
<1>2. CASE DoNewView
  <2>1. Startup \cup OnLanguage \in SUBSET Names
      BY DEF Startup, OnLanguage
  <2> QED
      BY <1>1, <1>2, <2>1, StartPreserves DEF DoNewView, Room
<1>3. CASE DoCloseView
    BY <1>3, SameHosts DEF DoCloseView, HostInv, TypeOK
<1>4. ASSUME NEW n \in Names, DoStartPlugin(n) PROVE HostInv'
    BY <1>1, <1>4, StartPreserves DEF DoStartPlugin, Room
<1>5. ASSUME NEW n \in Names, DoStopPlugin(n) \/ DoRestartPlugin(n) PROVE HostInv'
    BY <1>5, StopPreserves
<1>6. ASSUME NEW n \in Names, DoPluginRpc(n) PROVE HostInv'
  <2>1. /\ pending' = [pending EXCEPT ![n] = @ + 1] /\ pending[n] < MaxPending
        /\ sleepers[n] < MaxSleepers /\ \A p \in running : p[1] # n
        /\ UNCHANGED <<manifest, viewOpen, running, sleepers>>
        /\ StartPlugins({n}, launching, running, scheduled, stopping)
      BY <1>6 DEF DoPluginRpc, Room
  <2>2. pending' \in [Names -> 0 .. MaxPending] /\ \A m \in Names \ {n} : pending'[m] = pending[m]
      BY <1>1, <2>1
  <2>3. \A p \in running : pending'[p[1]] = pending[p[1]]
      BY <2>1, <2>2, InstanceNames DEF HostInv, TypeOK
  <2> QED
      BY <1>1, <2>1, <2>2, <2>3, StartPreserves
<1>7. ASSUME NEW n \in Names, HandlePluginFsEvent(n) PROVE HostInv'
    BY <1>4, <1>5, <1>7 DEF HandlePluginFsEvent
<1>8. ASSUME NEW n \in Names, RestartPlugin(n) PROVE HostInv'
  <2>1. /\ sleepers[n] > 0 /\ sleepers' = [sleepers EXCEPT ![n] = @ - 1]
        /\ UNCHANGED <<manifest, viewOpen, running, pending>>
      BY <1>8 DEF RestartPlugin
  <2>2. /\ sleepers' \in [Names -> 0 .. MaxSleepers] /\ sleepers'[n] < MaxSleepers
        /\ sleepers'[n] = sleepers[n] - 1
        /\ \A m \in Names \ {n} : sleepers'[m] = sleepers[m]
      BY <1>1, <2>1
  <2>3. CASE ShouldKeepRunning(n)
    <3>1. StartPlugins({n}, launching, running, scheduled \ {n}, stopping)
        BY <1>8, <2>3 DEF RestartPlugin
    <3> QED
        BY <1>1, <2>1, <2>2, <3>1, StartPreserves
  <2>4. CASE ~ShouldKeepRunning(n)
    <3>1. scheduled' = scheduled \ {n} /\ UNCHANGED <<launching, stopping, inst, halted>>
        BY <1>8, <2>4 DEF RestartPlugin
    <3>2. pending[n] = 0
        BY <1>1, <2>4 DEF ShouldKeepRunning
    <3>3. TypeOK' /\ HostedOnce'
        BY <2>1, <2>2, <3>1 DEF HostInv, TypeOK, HostedOnce, Hosts
    <3>4. SleepersBounded' /\ ScheduledSleeps'
        BY <1>1, <2>2, <3>1 DEF HostInv, SleepersBounded, ScheduledSleeps, Hosted
    <3>5. NothingWaitsForRunning' /\ PendingHasStarter'
        BY <2>1, <2>2, <3>1, <3>2 DEF HostInv, NothingWaitsForRunning, PendingHasStarter,
                                      Single
    <3> QED
        BY <3>3, <3>4, <3>5 DEF HostInv
  <2> QED
      BY <2>3, <2>4
<1> QED
    BY <1>2, <1>3, <1>4, <1>5, <1>6, <1>7, <1>8 DEF ClientStep

\* An instance goes, and a new one of its name may take its place.
LEMMA InstanceGoes ==
    ASSUME HostInv, NEW p \in Instances, inst[p].host # "none",
           inst' \in [Instances -> InstStates], inst'[p].host = "none",
           NEW New \in SUBSET (Instances \ {p}),
           \A q \in Instances \ {p} :
              inst'[q].host = IF q \in New THEN "spawn" ELSE inst[q].host,
           \A q, r \in New : q = r,
           \A q \in New : q[1] = p[1],
           launching' = (launching \ {p[1]}) \cup {q[1] : q \in New},
           running' = running \ {p}
    PROVE  HostedOnce'
<1>1. \A q \in Instances : q[1] = p[1] /\ q # p => inst[q].host = "none"
  <2> SUFFICES ASSUME NEW q \in Instances, q[1] = p[1], q # p, inst[q].host # "none"
               PROVE  FALSE
      OBVIOUS
  <2>1. p \in Hosts(Hosting) /\ q \in Hosts(Hosting)
      BY DEF HostInv, TypeOK, InstStates, Hosts, Hosting
  <2> QED
      BY <2>1 DEF HostInv, HostedOnce
<1>2. \A q, r \in Hosts(Hosting)' : q[1] = r[1] => q = r
  <2> SUFFICES ASSUME NEW q \in Instances, NEW r \in Instances, q[1] = r[1],
                      inst'[q].host \in Hosting, inst'[r].host \in Hosting
               PROVE  q = r
      BY DEF Hosts
  <2>1. q # p /\ r # p
      BY DEF Hosting
  <2>2. CASE q[1] = p[1]
      BY <1>1, <2>1, <2>2 DEF Hosting
  <2>3. CASE q[1] # p[1]
    <3>1. inst[q].host \in Hosting /\ inst[r].host \in Hosting
        BY <2>1, <2>3
    <3> QED
        BY <3>1 DEF HostInv, HostedOnce, Hosts
  <2> QED
      BY <2>2, <2>3
<1>3. launching' = {q[1] : q \in Hosts({"spawn", "connect"})'}
  <2>1. ASSUME NEW n \in launching'
        PROVE  \E q \in Instances : inst'[q].host \in {"spawn", "connect"} /\ q[1] = n
    <3>1. CASE n = p[1]
        BY <2>1, <3>1
    <3>2. CASE n # p[1]
        BY <2>1, <3>2 DEF HostInv, HostedOnce, Hosts
    <3> QED
        BY <3>1, <3>2
  <2>2. ASSUME NEW q \in Instances, inst'[q].host \in {"spawn", "connect"}
        PROVE  q[1] \in launching'
    <3>1. q # p
        BY <2>2
    <3>2. CASE q[1] = p[1]
        BY <1>1, <2>2, <3>1, <3>2
    <3>3. CASE q[1] # p[1]
        BY <2>2, <3>1, <3>3 DEF HostInv, HostedOnce, Hosts
    <3> QED
        BY <3>2, <3>3
  <2> QED
      BY <2>1, <2>2 DEF Hosts
<1>4. running' = Hosts({"loop", "exit"})'
  <2>1. \A q \in Instances : inst'[q].host \in {"loop", "exit"}
                               <=> q # p /\ inst[q].host \in {"loop", "exit"}
      BY <1>1
  <2> QED
      BY <2>1 DEF HostInv, HostedOnce, Hosts
<1> QED
    BY <1>2, <1>3, <1>4 DEF HostedOnce

\* schedule_plugin_restart, for a plugin that has just gone: there is a sleeper
\* afterwards if anything waits.
LEMMA RestartScheduled ==
    ASSUME HostInv, NEW n \in Names, Hosted(n), SchedulePluginRestart(n)
    PROVE  /\ scheduled' \subseteq Names
           /\ sleepers' \in [Names -> 0 .. MaxSleepers]
           /\ \A m \in Names \ {n} : sleepers'[m] = sleepers[m]
           /\ sleepers[n] > 0 => sleepers'[n] > 0
           /\ \A m \in scheduled' : sleepers'[m] > 0
           /\ n \notin Single /\ pending[n] > 0 => sleepers'[n] > 0
<1>1. /\ sleepers \in [Names -> 0 .. MaxSleepers] /\ sleepers[n] < MaxSleepers
      /\ scheduled \subseteq Names /\ \A m \in scheduled : sleepers[m] > 0
    BY DEF HostInv, TypeOK, SleepersBounded, ScheduledSleeps
<1>2. CASE n \in scheduled \/ n \in Single \/ ~ShouldKeepRunning(n)
    BY <1>1, <1>2 DEF SchedulePluginRestart, ShouldKeepRunning
<1>3. CASE ~(n \in scheduled \/ n \in Single \/ ~ShouldKeepRunning(n))
    BY <1>1, <1>3, BoundsAssumption DEF SchedulePluginRestart
<1> QED
    BY <1>2, <1>3

\* The launch fails, and is tried again if anything needs the plugin.
LEMMA FailPreserves ==
    ASSUME HostInv, NEW p \in Instances, FailPluginConnect(p)
    PROVE  HostInv'
<1>1. /\ inst[p].host = "spawn" /\ inst' = [inst EXCEPT ![p] = NoInst]
      /\ launching' = launching \ {p[1]} /\ SchedulePluginRestart(p[1])
      /\ UNCHANGED <<manifest, viewOpen, running, stopping, pending, halted>>
    BY DEF FailPluginConnect
<1>2. p[1] \in Names /\ Hosted(p[1])
    BY <1>1, InstanceNames DEF Hosted
<1>3. NoInst \in InstStates /\ NoInst.host = "none"
    BY DEF NoInst, InstStates
<1>4. /\ inst' \in [Instances -> InstStates] /\ inst'[p].host = "none"
      /\ \A q \in Instances \ {p} : inst'[q].host = inst[q].host
    BY <1>1, <1>3 DEF HostInv, TypeOK
<1>5. p \notin running
    BY <1>1 DEF HostInv, HostedOnce, Hosts
<1>6. HostedOnce'
  <2>1. PICK New \in SUBSET (Instances \ {p}) : New = {}
      OBVIOUS
  <2>2. launching' = (launching \ {p[1]}) \cup {q[1] : q \in New} /\ running' = running \ {p}
      BY <1>1, <1>5, <2>1
  <2>3. /\ inst[p].host # "none" /\ (\A q, r \in New : q = r) /\ \A q \in New : q[1] = p[1]
        /\ \A q \in Instances \ {p} :
              inst'[q].host = IF q \in New THEN "spawn" ELSE inst[q].host
      BY <1>1, <1>4, <2>1
  <2> QED
      BY <1>4, <2>2, <2>3, InstanceGoes
<1>7. /\ scheduled' \subseteq Names
      /\ sleepers' \in [Names -> 0 .. MaxSleepers]
      /\ \A m \in Names \ {p[1]} : sleepers'[m] = sleepers[m]
      /\ sleepers[p[1]] > 0 => sleepers'[p[1]] > 0
      /\ \A m \in scheduled' : sleepers'[m] > 0
      /\ p[1] \notin Single /\ pending[p[1]] > 0 => sleepers'[p[1]] > 0
    BY <1>1, <1>2, RestartScheduled
<1>8. TypeOK'
    BY <1>1, <1>4, <1>7 DEF HostInv, TypeOK
<1>9. SleepersBounded'
  <2>1. ~Hosted(p[1])'
      BY <1>1, <1>4 DEF HostInv, TypeOK, InstStates, HostedOnce, Hosts, Hosting, Hosted
  <2> QED
      BY <1>4, <1>7, <2>1 DEF HostInv, SleepersBounded, Hosted
<1>10. NothingWaitsForRunning' /\ ScheduledSleeps' /\ PendingHasStarter'
    BY <1>1, <1>7 DEF HostInv, NothingWaitsForRunning, ScheduledSleeps, PendingHasStarter,
                      Single
<1> QED
    BY <1>6, <1>8, <1>9, <1>10 DEF HostInv

\* The plugin connects, and what waited for it is sent.
LEMMA ConnectPreserves ==
    ASSUME HostInv, NEW p \in Instances, FinishPluginConnect(p)
    PROVE  HostInv'
<1>1. /\ inst[p].host = "connect" /\ launching' = launching \ {p[1]}
      /\ pending' = [pending EXCEPT ![p[1]] = 0] /\ running' = running \cup {p}
      /\ UNCHANGED <<manifest, viewOpen, scheduled, sleepers, halted>>
    BY DEF FinishPluginConnect
<1>2. p[1] \in Names
    BY InstanceNames
<1>3. /\ inst' \in [Instances -> InstStates] /\ inst'[p].host = "loop"
      /\ \A q \in Instances \ {p} : inst'[q].host = inst[q].host
      /\ stopping' \in [Instances -> Reasons]
  <2>1. inst \in [Instances -> InstStates] /\ stopping \in [Instances -> Reasons]
      BY DEF HostInv, TypeOK
  <2>2. CASE UNCHANGED stopping /\ inst' = [inst EXCEPT ![p].host = "loop"]
      BY <2>1, <2>2 DEF InstStates
  <2>3. CASE /\ stopping' = [stopping EXCEPT ![p] = "SingleInvocation"]
             /\ inst' = [inst EXCEPT ![p].host = "loop", ![p].stopper = "poll"]
    <3> DEFINE r == [inst[p] EXCEPT !.host = "loop", !.stopper = "poll"]
    <3>1. r \in InstStates /\ r.host = "loop"
        BY <2>1 DEF InstStates
    <3>2. inst' = [inst EXCEPT ![p] = r]
        BY <2>1, <2>3
    <3> HIDE DEF r
    <3> QED
        BY <2>1, <2>3, <3>1, <3>2 DEF Reasons
  <2> QED
      BY <2>2, <2>3 DEF FinishPluginConnect
<1>4. TypeOK'
    BY <1>1, <1>2, <1>3, BoundsAssumption DEF HostInv, TypeOK
<1>5. HostedOnce'
  <2>1. Hosts(Hosting)' = Hosts(Hosting)
      BY <1>1, <1>3 DEF Hosts, Hosting
  <2>2. Hosts({"loop", "exit"})' = Hosts({"loop", "exit"}) \cup {p}
      BY <1>3 DEF Hosts
  <2>3. Hosts({"spawn", "connect"})' = Hosts({"spawn", "connect"}) \ {p}
      BY <1>3 DEF Hosts
  <2>4. \A q \in Hosts({"spawn", "connect"}) : q # p => q[1] # p[1]
      BY <1>1 DEF HostInv, HostedOnce, Hosts, Hosting
  <2>5. launching' = {q[1] : q \in Hosts({"spawn", "connect"})'}
      BY <1>1, <2>3, <2>4 DEF HostInv, HostedOnce
  <2>6. running' = Hosts({"loop", "exit"})'
      BY <1>1, <2>2 DEF HostInv, HostedOnce
  <2>7. \A q, r \in Hosts(Hosting)' : q[1] = r[1] => q = r
      BY <2>1 DEF HostInv, HostedOnce
  <2> QED
      BY <2>5, <2>6, <2>7 DEF HostedOnce
<1>6. SleepersBounded'
    BY <1>1, <1>3 DEF HostInv, SleepersBounded, Hosted
<1>7. ScheduledSleeps' /\ NothingWaitsForRunning'
    BY <1>1, <1>2, InstanceNames DEF HostInv, TypeOK, ScheduledSleeps, NothingWaitsForRunning
<1>8. PendingHasStarter'
    BY <1>1, <1>2 DEF HostInv, TypeOK, PendingHasStarter, Single
<1> QED
    BY <1>4, <1>5, <1>6, <1>7, <1>8 DEF HostInv

\* The plugin has gone: by itself, on purpose, or to be started again.
LEMMA ExitPreserves ==
    ASSUME HostInv, NEW p \in Instances, PluginExit(p)
    PROVE  HostInv'
<1> DEFINE n == p[1]
           stop == [stopping EXCEPT ![p] = "none"]
           gone == [inst EXCEPT ![p] = NoInst]
<1>1. /\ inst[p].host = "exit" /\ running' = running \ {p}
      /\ UNCHANGED <<manifest, viewOpen, pending>>
    BY DEF PluginExit
<1>2. /\ n \in Names /\ Hosted(n) /\ p \in running /\ pending[n] = 0
      /\ n \notin launching /\ sleepers[n] < MaxSleepers
  <2>1. n \in Names /\ Hosted(n) /\ p \in running
      BY <1>1, InstanceNames DEF Hosted, HostInv, HostedOnce, Hosts
  <2>2. n \notin launching
      BY <1>1 DEF HostInv, HostedOnce, Hosts, Hosting
  <2> QED
      BY <2>1, <2>2 DEF HostInv, NothingWaitsForRunning, SleepersBounded
<1>3. /\ NoInst \in InstStates /\ NoInst.host = "none"
      /\ [NoInst EXCEPT !.host = "spawn"] \in InstStates
      /\ [NoInst EXCEPT !.host = "spawn"].host = "spawn"
    BY DEF NoInst, InstStates
<1>4. /\ gone \in [Instances -> InstStates] /\ gone[p].host = "none"
      /\ \A q \in Instances \ {p} : gone[q] = inst[q]
      /\ stop \in [Instances -> Reasons]
    BY <1>3 DEF HostInv, TypeOK, Reasons
<1> HIDE DEF gone, stop
<1>5. ASSUME launching' = launching \ {n}, inst' = gone PROVE HostedOnce' /\ ~Hosted(n)'
  <2>1. HostedOnce'
    <3>1. PICK New \in SUBSET (Instances \ {p}) : New = {}
        OBVIOUS
    <3>2. launching' = (launching \ {p[1]}) \cup {q[1] : q \in New}
        BY <1>5, <3>1
    <3>3. /\ inst[p].host # "none" /\ (\A q, r \in New : q = r) /\ \A q \in New : q[1] = p[1]
          /\ inst' \in [Instances -> InstStates] /\ inst'[p].host = "none"
          /\ \A q \in Instances \ {p} :
                inst'[q].host = IF q \in New THEN "spawn" ELSE inst[q].host
        BY <1>1, <1>4, <1>5, <3>1
    <3> QED
        BY <1>1, <3>2, <3>3, InstanceGoes
  <2>2. ~Hosted(n)'
      BY <1>1, <1>4, <1>5 DEF HostInv, TypeOK, InstStates, HostedOnce, Hosts, Hosting, Hosted
  <2> QED
      BY <2>1, <2>2
<1>6. \A m \in Names \ {n} : inst' = gone => (Hosted(m)' => Hosted(m))
    BY <1>4 DEF Hosted
<1>7. NothingWaitsForRunning'
    BY <1>1 DEF HostInv, NothingWaitsForRunning
<1>8. CASE /\ launching' = launching \ {n} /\ stopping' = stop /\ inst' = gone
           /\ SchedulePluginRestart(n) /\ UNCHANGED halted
  <2>1. /\ scheduled' \subseteq Names
        /\ sleepers' \in [Names -> 0 .. MaxSleepers]
        /\ \A m \in Names \ {n} : sleepers'[m] = sleepers[m]
        /\ \A m \in scheduled' : sleepers'[m] > 0
      BY <1>2, <1>8, RestartScheduled
  <2>2. TypeOK'
      BY <1>1, <1>4, <1>8, <2>1 DEF HostInv, TypeOK
  <2>3. SleepersBounded'
      BY <1>5, <1>6, <1>8, <2>1 DEF HostInv, SleepersBounded
  <2>4. PendingHasStarter' /\ ScheduledSleeps'
      BY <1>1, <1>2, <1>8, <2>1 DEF HostInv, PendingHasStarter, ScheduledSleeps, Single
  <2> QED
      BY <1>5, <1>7, <1>8, <2>2, <2>3, <2>4 DEF HostInv
<1>9. CASE /\ launching' = launching \ {n} /\ stopping' = stop /\ inst' = gone
           /\ scheduled' = scheduled \ {n} /\ halted' = [halted EXCEPT ![n] = TRUE]
           /\ UNCHANGED sleepers
  <2>1. TypeOK'
      BY <1>1, <1>4, <1>9 DEF HostInv, TypeOK
  <2>2. SleepersBounded'
      BY <1>5, <1>6, <1>9 DEF HostInv, SleepersBounded
  <2>3. PendingHasStarter' /\ ScheduledSleeps'
      BY <1>1, <1>2, <1>9 DEF HostInv, PendingHasStarter, ScheduledSleeps, Single
  <2> QED
      BY <1>5, <1>7, <1>9, <2>1, <2>2, <2>3 DEF HostInv
<1>10. ASSUME NEW q \in Instances \ {p}, q[1] = n, Unused(q),
              launching' = (launching \ {n}) \cup {n}, scheduled' = scheduled \ {n},
              stopping' = [stop EXCEPT ![q] = "none"],
              inst' = [gone EXCEPT ![q] = [NoInst EXCEPT !.host = "spawn"]],
              UNCHANGED <<sleepers, halted>>
       PROVE  HostInv'
  <2>1. /\ inst' \in [Instances -> InstStates] /\ inst'[p].host = "none"
        /\ inst'[q].host = "spawn" /\ stopping' \in [Instances -> Reasons]
        /\ \A r \in Instances \ {p, q} : inst'[r] = inst[r]
      BY <1>3, <1>4, <1>10 DEF Reasons
  <2>2. HostedOnce'
    <3>1. launching' = (launching \ {p[1]}) \cup {r[1] : r \in {q}}
        BY <1>10
    <3>2. \A r \in Instances \ {p} :
             inst'[r].host = IF r \in {q} THEN "spawn" ELSE inst[r].host
        BY <2>1
    <3>3. \A r \in {q} : r[1] = p[1]
        BY <1>10
    <3>4. inst[p].host # "none" /\ {q} \in SUBSET (Instances \ {p})
        BY <1>1
    <3> QED
        BY <1>1, <2>1, <3>1, <3>2, <3>3, <3>4, InstanceGoes
  <2>3. TypeOK'
      BY <1>1, <1>2, <1>10, <2>1 DEF HostInv, TypeOK
  <2>4. SleepersBounded'
      BY <1>2, <1>10, <2>1 DEF HostInv, SleepersBounded, Hosted
  <2>5. PendingHasStarter' /\ ScheduledSleeps'
      BY <1>1, <1>2, <1>10 DEF HostInv, PendingHasStarter, ScheduledSleeps, Single
  <2> QED
      BY <1>7, <2>2, <2>3, <2>4, <2>5 DEF HostInv
<1> QED
    BY <1>8, <1>9, <1>10 DEF PluginExit, gone, stop
-----------------------------------------------------------------------------
\* The invariant holds throughout.
LEMMA HostInvariant == Spec => []HostInv
<1>1. HostInv /\ [Next]_vars => HostInv'
  <2> SUFFICES ASSUME HostInv, [Next]_vars PROVE HostInv'
      OBVIOUS
  <2>1. CASE UNCHANGED vars
      BY <2>1, SameHosts DEF vars, coreVars, HostInv, TypeOK
  <2> QED
      BY <2>1, ClientPreserves, ThreadPreserves, FailPreserves, ConnectPreserves,
         ExitPreserves DEF Next, HostStep
<1> QED
    BY <1>1, HostInit, PTL DEF Spec

\* The core never hosts a plugin twice, for every set of plugins and whatever
\* the user, the file watcher and restart threads ask for (begin_plugin_launch,
\* finish_plugin_connect, plugin_exit, restart_plugin).
THEOREM HostedOnceAlways == Spec => []OneInstance
<1>1. HostInv => OneInstance
    BY DEF HostInv, HostedOnce, OneInstance, Hosting
<1> QED
    BY <1>1, HostInvariant, PTL

\* No command that waits for its plugin is forgotten, though launches fail,
\* restarts are scheduled twice and plugins are stopped (do_plugin_rpc,
\* fail_plugin_connect, schedule_plugin_restart).
THEOREM CommandsHaveStarter == Spec => []PendingHasStarter
<1>1. HostInv => PendingHasStarter
    BY DEF HostInv
<1> QED
    BY <1>1, HostInvariant, PTL
=============================================================================
