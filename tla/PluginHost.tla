----------------------------- MODULE PluginHost -----------------------------
(***************************************************************************)
(* The life of plugin processes: tabs/plugins.rs, tabs/plugin_lifecycle.rs, *)
(* tabs/plugin_events.rs, the plugin commands of tabs/contexts.rs and the  *)
(* host side of plugins/mod.rs, for native plugins.                        *)
(*                                                                         *)
(* CoreState is behind one mutex, so each of its methods is one step.      *)
(* Beside it run, for every instance of a plugin, the host thread (spawn,  *)
(* connect, main loop, exit), the exit watcher, which waits for the child  *)
(* holding the child's mutex, the thread that enforces the shutdown        *)
(* timeout, and whoever reports a breach of a limit; and one sleeping      *)
(* thread per scheduled restart.                                           *)
(*                                                                         *)
(* An instance <<n, k>> stands for a fresh PluginId of the plugin named n: *)
(* once its host thread has ended, nothing that is left of it is read by   *)
(* the core, and k is used again.  All views have one language; viewOpen   *)
(* says whether there is one.                                              *)
(***************************************************************************)
EXTENDS Naturals

CONSTANTS
    Names,       \* the plugins of the catalog
    Faults,      \* subset of {"spawn", "garbage", "timeout", "limit"}
    MaxInst,     \* bound on the instances of a plugin that exist at a time
    MaxSleepers, \* bound on its pending restart threads, for the user's steps
    MaxPending   \* bound on its pending commands

Instances == Names \X (1 .. MaxInst)

(* What a PluginDescription says: activates_on_startup(), activation for   *)
(* the language of the views, activates_on_command(), and the scope        *)
(* SingleInvocation, which is started by commands only.                    *)
Manifests ==
    {m \in [startup : BOOLEAN, language : BOOLEAN, command : BOOLEAN, single : BOOLEAN] :
        m.single => m.command /\ ~m.startup /\ ~m.language}

ASSUME BoundsAssumption ==
    MaxInst \in Nat \ {0} /\ MaxSleepers \in Nat \ {0} /\ MaxPending \in Nat

VARIABLES
    manifest,                        \* CoreState.plugins; never changes
    viewOpen,                        \* CoreState.views
    launching, running, stopping,    \* launching_plugins, running_plugins, stopping_plugins
    scheduled, sleepers,             \* scheduled_plugin_restarts and its threads
    pending,                         \* pending_plugin_commands, by receiver
    inst,                            \* the threads and the process of an instance
    halted                           \* history: the last instance was stopped on purpose

coreVars == <<manifest, viewOpen, launching, running, stopping, scheduled, sleepers, pending,
              halted>>
vars == <<coreVars, inst>>

NoInst == [host |-> "none", proc |-> "none", watcher |-> "none", stopper |-> "none",
           breach |-> "none"]

Startup == {n \in Names : manifest[n].startup}
OnLanguage == {n \in Names : manifest[n].language}
OnCommand == {n \in Names : manifest[n].command}
Single == {n \in Names : manifest[n].single}

(* CoreState::new and finish_setup with its ensure_manifest_plugins_started. *)
Init ==
    /\ manifest \in [Names -> Manifests]
    /\ viewOpen = FALSE
    /\ launching = Startup /\ running = {}
    /\ stopping = [p \in Instances |-> "none"]
    /\ scheduled = {} /\ sleepers = [n \in Names |-> 0]
    /\ pending = [n \in Names |-> 0]
    /\ inst = [p \in Instances |->
                  IF p[1] \in Startup /\ p[2] = 1 THEN [NoInst EXCEPT !.host = "spawn"]
                                                  ELSE NoInst]
    /\ halted = [n \in Names |-> FALSE]

----------------------------------------------------------------------------
(* start_plugin, begin_plugin_shutdown, schedule_plugin_restart *)

Wanted(n) == n \in Startup \/ (viewOpen /\ n \in OnLanguage)
(* Mutant: waiting commands are no reason to restart. *)
ShouldKeepRunning_ViewsOnly(n) == Wanted(n)

ShouldKeepRunning(n) == Wanted(n) \/ pending[n] > 0

Unused(p) == inst[p].host = "none"
NewInst(n) == CHOOSE p \in Instances : p[1] = n /\ Unused(p)

(* Mutant: a launch that has not connected yet is overlooked. *)
BeginPluginLaunch_RunningOnly(n, lau, run) == \A p \in run : p[1] # n

BeginPluginLaunch(n, lau, run) == n \notin lau /\ \A p \in run : p[1] # n

(* start_plugin for the plugins in S, where the core knows lau and run as  *)
(* launching and running.                                                  *)
StartPlugins(S, lau, run, sch, stop) ==
    LET T == {n \in S : BeginPluginLaunch(n, lau, run)}
        New == {NewInst(n) : n \in T}
    IN /\ \A n \in T : \E p \in Instances : p[1] = n /\ Unused(p)
       /\ launching' = lau \cup T
       /\ scheduled' = sch \ T
       /\ halted' = [n \in Names |-> halted[n] /\ n \notin T]
       /\ stopping' = [p \in Instances |-> IF p \in New THEN "none" ELSE stop[p]]
       /\ inst' = [p \in Instances |->
                      IF p \in New THEN [NoInst EXCEPT !.host = "spawn"] ELSE inst[p]]

(* begin_plugin_shutdown, with the thread that waits for the exit. *)
BeginPluginShutdown(p, reason) ==
    IF p \in running /\ stopping[p] = "none"
    THEN /\ stopping' = [stopping EXCEPT ![p] = reason]
         /\ inst' = [inst EXCEPT ![p].stopper = "poll"]
    ELSE UNCHANGED <<stopping, inst>>

(* Mutant: only waiting commands are a reason to restart. *)
SchedulePluginRestart_CommandsOnly(n) ==
    IF n \in scheduled \/ n \in Single \/ pending[n] = 0
    THEN UNCHANGED <<scheduled, sleepers>>
    ELSE /\ scheduled' = scheduled \cup {n}
         /\ sleepers' = [sleepers EXCEPT ![n] = @ + 1]

(* schedule_plugin_restart, once n is neither launching nor running. *)
SchedulePluginRestart(n) ==
    IF n \in scheduled \/ n \in Single \/ ~ShouldKeepRunning(n)
    THEN UNCHANGED <<scheduled, sleepers>>
    ELSE /\ scheduled' = scheduled \cup {n}
         /\ sleepers' = [sleepers EXCEPT ![n] = @ + 1]

----------------------------------------------------------------------------
(* The client *)

Room(S) == \A n \in S : sleepers[n] < MaxSleepers

(* do_new_view, whose ensure_plugins_for_language starts what the language *)
(* needs.                                                                  *)
DoNewView ==
    /\ ~viewOpen /\ Room(Startup \cup OnLanguage)
    /\ viewOpen' = TRUE
    /\ StartPlugins(Startup \cup OnLanguage, launching, running, scheduled, stopping)
    /\ UNCHANGED <<manifest, running, sleepers, pending>>

DoCloseView ==
    /\ viewOpen
    /\ viewOpen' = FALSE
    /\ UNCHANGED <<manifest, launching, running, stopping, scheduled, sleepers, pending, inst,
                   halted>>

DoStartPlugin(n) ==
    /\ Room({n})
    /\ StartPlugins({n}, launching, running, scheduled, stopping)
    /\ UNCHANGED <<manifest, viewOpen, running, sleepers, pending>>

DoStopPlugin(n) ==
    /\ \E p \in running : p[1] = n /\ BeginPluginShutdown(p, "Manual")
    /\ UNCHANGED <<manifest, viewOpen, launching, running, scheduled, sleepers, pending,
                   halted>>

(* do_restart_plugin of a running plugin; otherwise it is DoStartPlugin. *)
DoRestartPlugin(n) ==
    /\ Room({n})
    /\ \E p \in running : p[1] = n /\ BeginPluginShutdown(p, "Restart")
    /\ UNCHANGED <<manifest, viewOpen, launching, running, scheduled, sleepers, pending,
                   halted>>

(* do_plugin_rpc for a plugin that is not running; a running one is sent   *)
(* the command.                                                            *)
DoPluginRpc(n) ==
    /\ n \in OnCommand /\ \A p \in running : p[1] # n
    /\ Room({n}) /\ pending[n] < MaxPending
    /\ pending' = [pending EXCEPT ![n] = @ + 1]
    /\ StartPlugins({n}, launching, running, scheduled, stopping)
    /\ UNCHANGED <<manifest, viewOpen, running, sleepers>>

(* handle_plugin_fs_event, when the metadata of a plugin changes: a running *)
(* plugin is stopped, and do_start_plugin still finds it running.          *)
HandlePluginFsEvent(n) ==
    IF \E p \in running : p[1] = n
    THEN DoStopPlugin(n)
    ELSE Wanted(n) /\ DoStartPlugin(n)

----------------------------------------------------------------------------
(* The host thread of an instance: start_plugin_process, run_native_plugin *)

SpawnChild(p) ==
    /\ inst[p].host = "spawn"
    /\ inst' = [inst EXCEPT ![p].host = "connect", ![p].proc = "up", ![p].watcher = "start"]
    /\ UNCHANGED coreVars

(* The child cannot be spawned: fail_plugin_connect. *)
FailPluginConnect(p) ==
    /\ "spawn" \in Faults
    /\ inst[p].host = "spawn"
    /\ inst' = [inst EXCEPT ![p] = NoInst]
    /\ launching' = launching \ {p[1]}
    /\ SchedulePluginRestart(p[1])
    /\ UNCHANGED <<manifest, viewOpen, running, stopping, pending, halted>>

(* finish_plugin_connect: the waiting commands are sent; a plugin for one  *)
(* invocation is then asked to shut down.                                  *)
FinishPluginConnect(p) ==
    /\ inst[p].host = "connect"
    /\ launching' = launching \ {p[1]}
    /\ pending' = [pending EXCEPT ![p[1]] = 0]
    /\ running' = running \cup {p}
    /\ IF p[1] \in Single /\ pending[p[1]] > 0 /\ stopping[p] = "none"
       THEN /\ stopping' = [stopping EXCEPT ![p] = "SingleInvocation"]
            /\ inst' = [inst EXCEPT ![p].host = "loop", ![p].stopper = "poll"]
       ELSE /\ inst' = [inst EXCEPT ![p].host = "loop"]
            /\ UNCHANGED stopping
    /\ UNCHANGED <<manifest, viewOpen, scheduled, sleepers, halted>>


(* The main loop returns: at the end of the stream, or on input it cannot  *)
(* read, when the process is still there.                                  *)
MainloopEnds(p) ==
    /\ inst[p].host = "loop" /\ inst[p].proc = "dead"
    /\ inst' = [inst EXCEPT ![p].host = "exit"]
    /\ UNCHANGED coreVars

MainloopFails(p) ==
    /\ "garbage" \in Faults
    /\ inst[p].host = "loop"
    /\ inst' = [inst EXCEPT ![p].host = "exit"]
    /\ UNCHANGED coreVars

(* plugin_exit.  A plugin that stopped by itself is scheduled for a        *)
(* restart; one that was to be restarted is started if it is still needed. *)
PluginExit(p) ==
    LET n == p[1]
        reason == stopping[p]
        lau == launching \ {n}
        run == running \ {p}
        stop == [stopping EXCEPT ![p] = "none"]
        gone == [inst EXCEPT ![p] = NoInst]
    IN /\ inst[p].host = "exit"
       /\ running' = run
       /\ \/ /\ reason = "none"
             /\ launching' = lau /\ stopping' = stop /\ inst' = gone
             /\ SchedulePluginRestart(n)
             /\ UNCHANGED halted
          \/ /\ reason \in {"Manual", "SingleInvocation", "ResourceLimit"}
             /\ launching' = lau /\ stopping' = stop /\ inst' = gone
             /\ scheduled' = scheduled \ {n}
             /\ halted' = [halted EXCEPT ![n] = TRUE]
             /\ UNCHANGED sleepers
          \/ /\ reason = "Restart"
             /\ UNCHANGED sleepers
             /\ IF ShouldKeepRunning(n)
                THEN \E q \in Instances \ {p} :
                        /\ q[1] = n /\ Unused(q)
                        /\ launching' = lau \cup {n}
                        /\ scheduled' = scheduled \ {n}
                        /\ stopping' = [stop EXCEPT ![q] = "none"]
                        /\ inst' = [gone EXCEPT ![q] = [NoInst EXCEPT !.host = "spawn"]]
                        /\ UNCHANGED halted
                ELSE /\ launching' = lau /\ stopping' = stop /\ inst' = gone
                     /\ scheduled' = scheduled \ {n}
                     /\ halted' = [halted EXCEPT ![n] = TRUE]
       /\ UNCHANGED <<manifest, viewOpen, pending>>

(* A thread of schedule_plugin_restart wakes up: restart_plugin. *)
RestartPlugin(n) ==
    /\ sleepers[n] > 0
    /\ sleepers' = [sleepers EXCEPT ![n] = @ - 1]
    /\ IF ShouldKeepRunning(n)
       THEN StartPlugins({n}, launching, running, scheduled \ {n}, stopping)
       ELSE /\ scheduled' = scheduled \ {n}
            /\ UNCHANGED <<launching, stopping, inst, halted>>
    /\ UNCHANGED <<manifest, viewOpen, running, pending>>

----------------------------------------------------------------------------
(* The process and the threads that look after it *)

Asked(p) == inst[p].stopper # "none"    \* it was sent "shutdown"

ChildLocked(p) == inst[p].watcher = "wait"

Exit(p) ==
    /\ inst[p].proc = "up"
    /\ inst' = [inst EXCEPT ![p].proc = "dead"]
    /\ UNCHANGED coreVars

(* spawn_native_exit_watcher: wait() with the child's mutex held. *)
WatcherLocks(p) ==
    /\ inst[p].watcher = "start"
    /\ inst' = [inst EXCEPT ![p].watcher = "wait"]
    /\ UNCHANGED coreVars

WatcherEnds(p) ==
    /\ inst[p].watcher = "wait" /\ inst[p].proc = "dead"
    /\ inst' = [inst EXCEPT ![p].watcher = "ended"]
    /\ UNCHANGED coreVars

(* The thread of begin_plugin_shutdown: has_exited() and, at the deadline, *)
(* terminate(); both take the child's mutex.                               *)
StopperLooks(p) ==
    /\ inst[p].stopper = "poll" /\ ~ChildLocked(p)
    /\ inst' = [inst EXCEPT ![p].stopper = IF inst[p].proc = "dead" THEN "ended" ELSE "kill"]
    /\ UNCHANGED coreVars

StopperKills(p) ==
    /\ inst[p].stopper = "kill" /\ ~ChildLocked(p)
    /\ inst' = [inst EXCEPT ![p].stopper = "ended", ![p].proc = "dead"]
    /\ UNCHANGED coreVars

(* Once per instance, a request times out or the monitor, which needs the  *)
(* child's mutex, sees a limit exceeded ...                                *)
Breach(p) ==
    /\ inst[p].breach = "none"
    /\ \/ "timeout" \in Faults /\ inst[p].host = "loop" /\ p \in running
       \/ "limit" \in Faults /\ inst[p].proc = "up" /\ ~ChildLocked(p)
    /\ inst' = [inst EXCEPT ![p].breach = "notify"]
    /\ UNCHANGED coreVars

(* ... and notify_breach tells the core (plugin_terminated) before it asks *)
(* for the kill.                                                           *)
NotifyBreach(p) ==
    /\ inst[p].breach = "notify"
    /\ stopping' = [stopping EXCEPT ![p] = "ResourceLimit"]
    /\ inst' = [inst EXCEPT ![p].breach = "kill"]
    /\ UNCHANGED <<manifest, viewOpen, launching, running, scheduled, sleepers, pending,
                   halted>>

BreachKills(p) ==
    /\ inst[p].breach = "kill" /\ ~ChildLocked(p)
    /\ inst' = [inst EXCEPT ![p].breach = "ended", ![p].proc = "dead"]
    /\ UNCHANGED coreVars

----------------------------------------------------------------------------
ClientStep(n) ==
    \/ DoStartPlugin(n) \/ DoStopPlugin(n) \/ DoRestartPlugin(n) \/ DoPluginRpc(n)
    \/ HandlePluginFsEvent(n)

HostStep(p) ==
    \/ SpawnChild(p) \/ FailPluginConnect(p) \/ FinishPluginConnect(p) \/ MainloopEnds(p)
    \/ PluginExit(p)

ThreadStep(p) ==
    \/ WatcherLocks(p) \/ WatcherEnds(p) \/ StopperLooks(p) \/ StopperKills(p)
    \/ NotifyBreach(p) \/ BreachKills(p)

Next ==
    \/ DoNewView \/ DoCloseView
    \/ \E n \in Names : ClientStep(n) \/ RestartPlugin(n)
    \/ \E p \in Instances : HostStep(p) \/ ThreadStep(p)
                             \/ Exit(p) \/ Breach(p) \/ MainloopFails(p)

Spec == Init /\ [][Next]_vars

(* Threads run and sleeping threads wake up.  A process may run for ever,  *)
(* also when it is asked to shut down.  Nothing is assumed of the user,    *)
(* and no spawn need succeed.                                              *)
FairSpec ==
    /\ Spec
    /\ \A n \in Names : WF_vars(RestartPlugin(n))
    /\ \A p \in Instances : WF_vars(HostStep(p)) /\ WF_vars(ThreadStep(p))

----------------------------------------------------------------------------
(* Properties *)

Reasons == {"none", "Manual", "Restart", "SingleInvocation", "ResourceLimit"}

InstStates ==
    [host : {"none", "spawn", "connect", "loop", "exit"},
     proc : {"none", "up", "dead"}, watcher : {"none", "start", "wait", "ended"},
     stopper : {"none", "poll", "kill", "ended"}, breach : {"none", "notify", "kill", "ended"}]

(* Every variable has its type. *)
TypeOK ==
    /\ manifest \in [Names -> Manifests]
    /\ viewOpen \in BOOLEAN
    /\ launching \subseteq Names /\ scheduled \subseteq Names
    /\ running \subseteq Instances
    /\ stopping \in [Instances -> Reasons]
    /\ sleepers \in [Names -> 0 .. MaxSleepers] /\ pending \in [Names -> 0 .. MaxPending]
    /\ inst \in [Instances -> InstStates]
    /\ halted \in [Names -> BOOLEAN]

(* The core never hosts a plugin twice, whatever the user, the file watcher *)
(* and restart threads of earlier crashes ask for at the same time: a name *)
(* is launching while its one host thread has not connected, and running   *)
(* from there until its exit is handled (begin_plugin_launch,              *)
(* finish_plugin_connect, plugin_exit, restart_plugin).                    *)
Hosts(pcs) == {p \in Instances : inst[p].host \in pcs}
OneInstance ==
    /\ TypeOK
    /\ \A p, q \in Hosts({"spawn", "connect", "loop", "exit"}) : p[1] = q[1] => p = q
    /\ launching = {p[1] : p \in Hosts({"spawn", "connect"})}
    /\ running = Hosts({"loop", "exit"})

(* A command that waits for its plugin is never forgotten: the plugin is   *)
(* being launched, or a thread is going to restart it, though launches     *)
(* fail, restarts are already scheduled and views are closed (do_plugin_rpc, *)
(* fail_plugin_connect, schedule_plugin_restart).  Plugins for a single    *)
(* invocation are not retried.                                             *)
PendingHasStarter ==
    \A n \in Names \ Single :
        pending[n] > 0 => n \in launching \/ sleepers[n] > 0

(* A plugin that is needed and was not stopped on purpose comes back after *)
(* every crash and every failed launch (plugin_exit,                       *)
(* schedule_plugin_restart, restart_plugin).                               *)
Up(n) == n \in launching \/ \E p \in running : p[1] = n
WantedComesBack ==
    \A n \in Names :
        (Wanted(n) /\ ~halted[n]) ~> (Up(n) \/ ~Wanted(n) \/ halted[n])


(* A plugin that is asked to shut down leaves running_plugins, because one *)
(* that does not exit is killed.  begin_plugin_shutdown: "shutdown timed   *)
(* out after {:?}; terminating plugin".                                    *)
ShutdownEnds ==
    \A n \in Names : (\E p \in running : p[1] = n /\ Asked(p))
                        ~> (\A p \in running : p[1] = n => ~Asked(p))

=============================================================================
