--------------------------- MODULE PluginUpdates ---------------------------
(***************************************************************************)
(* The update queue between the core and its plugins (plugins/mod.rs), and *)
(* the revisions an Editor keeps for them (editor.rs, event_context,       *)
(* xi-rope's Engine::gc).                                                  *)
(*                                                                         *)
(* Every committed edit is offered to every running plugin.  A plugin has  *)
(* one update in flight; a newer one waits in coalesced_update, where it   *)
(* replaces the one before it.  The answer to an update is handled by the  *)
(* closure `finish` of drive_plugin_update: it counts the revision down,   *)
(* takes the waiting update and sends it, or clears update_in_flight.      *)
(* Undone history is collected when no revision is in flight.              *)
(*                                                                         *)
(* CoreState is behind one mutex.  "core" is the section that holds it     *)
(* while an edit is committed and offered to the plugins; whatever else    *)
(* needs the mutex waits for core.pc = "free".  A chain is the succession  *)
(* of finish closures of one plugin.  It runs on the plugin's reader or    *)
(* exit-watcher thread or, for a plugin with an rpc_timeout, on a thread   *)
(* of its own; "locked" says that it runs inside the pending-table lock.   *)
(* A view stands for its buffer: every buffer has one view.                *)
(***************************************************************************)
EXTENDS Integers, Sequences, FiniteSets

CONSTANTS
    Buffers,    \* open buffers, each with one view
    Plugins,    \* running plugins; all of them receive updates for Buffers
    Faults,     \* subset of {"exit", "timeout"}
    MaxUndos,   \* MAX_UNDOS
    MaxRevs     \* bound on the revisions of a buffer

ASSUME MaxUndosAssumption == MaxUndos \in Nat \ {0}
ASSUME MaxRevsAssumption == MaxRevs \in Nat
ASSUME PluginsAssumption == IsFiniteSet(Plugins)
ASSUME NoneAssumption == "none" \notin Buffers \cup Plugins

VARIABLES
    views,                          \* CoreState.views: the buffers that are open
    head, revs, lastRev,            \* Engine: newest revision, revisions kept; last_rev_id
    liveUndos, curUndo, undos, gcUndos, undoGroup,   \* Editor: undo state
    revsInFlight,                   \* Editor.revs_in_flight
    core,                           \* the section holding the core mutex
    running,                        \* CoreState.running_plugins
    inFlight, coalesced, chain,     \* Plugin.update_in_flight, .coalesced_update, finish
    timed,                          \* Plugin.rpc_timeout.is_some()
    up, pipe, answers, has          \* the process, its pipes and its View.rev

editorVars == <<head, revs, lastRev, liveUndos, curUndo, undos, gcUndos, undoGroup,
                revsInFlight>>
pluginVars == <<running, inFlight, coalesced, chain, timed, up, pipe, answers, has>>
vars == <<views, editorVars, core, pluginVars>>

NoUpdate == [buf |-> "none", rev |-> 0]
Updates == [buf : Buffers, rev : Nat]
NoGroup == -1    \* the group of an Undo revision
Idle == [pc |-> "none", upd |-> NoUpdate, view |-> "none", locked |-> FALSE]
Free == [pc |-> "free", buf |-> "none", todo |-> {}, plugin |-> "none"]

Init ==
    /\ views = Buffers
    /\ head = [b \in Buffers |-> 1]
    /\ revs = [b \in Buffers |-> {[id |-> 0, group |-> NoGroup], [id |-> 1, group |-> 0]}]
    /\ lastRev = [b \in Buffers |-> 1]
    /\ liveUndos = [b \in Buffers |-> <<0>>]
    /\ curUndo = [b \in Buffers |-> 1]
    /\ undos = [b \in Buffers |-> {}]
    /\ gcUndos = [b \in Buffers |-> {}]
    /\ undoGroup = [b \in Buffers |-> 1]
    /\ revsInFlight = [b \in Buffers |-> 0]
    /\ core = Free
    /\ running = Plugins
    /\ inFlight = [p \in Plugins |-> FALSE]
    /\ coalesced = [p \in Plugins |-> NoUpdate]
    /\ chain = [p \in Plugins |-> Idle]
    /\ timed \in [Plugins -> BOOLEAN]
    /\ up = [p \in Plugins |-> TRUE]
    /\ pipe = [p \in Plugins |-> <<>>]
    /\ answers = [p \in Plugins |-> <<>>]
    /\ has = [p \in Plugins |-> [b \in Buffers |-> 1]]

----------------------------------------------------------------------------
(* The editor *)

Kept(b, n) == \E r \in revs[b] : r.id = n

(* What Engine::gc can leave: the first and the last revision, the edits   *)
(* of groups that are not collected, and the edits of collected groups     *)
(* that were not undone, except those that inserted nothing that is still  *)
(* there (Fading).  Undo revisions go.  Two rare cases are left out: the   *)
(* newest revision goes too when it only deletes and a plugin put it into  *)
(* a group being collected, and an edit of any group goes when nothing of  *)
(* it remains.                                                             *)
AfterGc(b) ==
    {r \in revs[b] : \/ r.id \in {0, head[b]}
                     \/ /\ r.group # NoGroup
                        /\ r.group \notin gcUndos[b] \cap undos[b]}

Fading(b) ==
    {r \in revs[b] : r.id \notin {0, head[b]} /\ r.group \in gcUndos[b] \ undos[b]}

(* dec_revs_in_flight, with the gc_undos it ends in. *)
DecRevsInFlight(b) ==
    /\ revsInFlight' = [revsInFlight EXCEPT ![b] = @ - 1]
    /\ IF revsInFlight[b] = 1 /\ gcUndos[b] # {}
       THEN /\ \E faded \in SUBSET Fading(b) :
                  revs' = [revs EXCEPT ![b] = AfterGc(b) \ faded]
            /\ undos' = [undos EXCEPT ![b] = @ \ gcUndos[b]]
            /\ gcUndos' = [gcUndos EXCEPT ![b] = {}]
       ELSE UNCHANGED <<revs, undos, gcUndos>>
    /\ UNCHANGED <<head, lastRev, liveUndos, curUndo, undoGroup>>

(* calculate_undo_group; joins: the edit continues the last one's group.   *)
CalculateUndoGroup(b, joins) ==
    IF joins /\ liveUndos[b] # <<>>
    THEN UNCHANGED <<liveUndos, curUndo, gcUndos, undoGroup>>
    ELSE LET kept == Append(SubSeq(liveUndos[b], 1, curUndo[b]), undoGroup[b])
             redo == {liveUndos[b][i] : i \in curUndo[b] + 1 .. Len(liveUndos[b])}
             full == Len(kept) > MaxUndos
         IN /\ liveUndos' = [liveUndos EXCEPT ![b] = IF full THEN Tail(kept) ELSE kept]
            /\ curUndo' = [curUndo EXCEPT ![b] = IF full THEN @ ELSE @ + 1]
            /\ gcUndos' = [gcUndos EXCEPT ![b] = @ \cup redo \cup
                              (IF full THEN {Head(kept)} ELSE {})]
            /\ undoGroup' = [undoGroup EXCEPT ![b] = @ + 1]

(* A new edit of the engine, in group g. *)
NewEdit(b, g) ==
    /\ head[b] < MaxRevs
    /\ head' = [head EXCEPT ![b] = @ + 1]
    /\ revs' = [revs EXCEPT ![b] = @ \cup {[id |-> head[b] + 1, group |-> g]}]
    /\ UNCHANGED undos

(* add_delta: an edit by the core, at its head. *)
AddDelta(b, joins) ==
    /\ CalculateUndoGroup(b, joins)
    /\ NewEdit(b, IF joins /\ liveUndos[b] # <<>>
                   THEN liveUndos[b][Len(liveUndos[b])] ELSE undoGroup[b])

(* do_undo and do_redo: an Undo revision of the engine. *)
ToggleUndo(b, cur, undone) ==
    /\ head[b] < MaxRevs
    /\ curUndo' = [curUndo EXCEPT ![b] = cur]
    /\ undos' = [undos EXCEPT ![b] = undone]
    /\ head' = [head EXCEPT ![b] = @ + 1]
    /\ revs' = [revs EXCEPT ![b] = @ \cup {[id |-> head[b] + 1, group |-> NoGroup]}]
    /\ UNCHANGED <<liveUndos, gcUndos, undoGroup>>

(* after_edit: commit_delta, whose expect("last_rev not found") poisons the *)
(* mutex, and the beginning of update_plugins.                             *)
AfterEdit(b) ==
    IF head'[b] = lastRev[b]
    THEN UNCHANGED <<lastRev, revsInFlight, core>>
    ELSE IF ~Kept(b, lastRev[b])
    THEN /\ core' = [Free EXCEPT !.pc = "poisoned"]
         /\ UNCHANGED <<lastRev, revsInFlight>>
    ELSE /\ lastRev' = [lastRev EXCEPT ![b] = head'[b]]
         /\ revsInFlight' = [revsInFlight EXCEPT ![b] = @ + 1]
         /\ core' = [pc |-> "update", buf |-> b, todo |-> running, plugin |-> "none"]

(* A client edit, undo or redo. *)
Edit(b, joins) ==
    /\ core.pc = "free" /\ b \in views
    /\ AddDelta(b, joins)
    /\ AfterEdit(b)
    /\ UNCHANGED <<views, pluginVars>>

Undo(b) ==
    /\ core.pc = "free" /\ b \in views
    /\ curUndo[b] > 1
    /\ ToggleUndo(b, curUndo[b] - 1, undos[b] \cup {liveUndos[b][curUndo[b]]})
    /\ AfterEdit(b)
    /\ UNCHANGED <<views, pluginVars>>

Redo(b) ==
    /\ core.pc = "free" /\ b \in views
    /\ curUndo[b] < Len(liveUndos[b])
    /\ ToggleUndo(b, curUndo[b] + 1, undos[b] \ {liveUndos[b][curUndo[b] + 1]})
    /\ AfterEdit(b)
    /\ UNCHANGED <<views, pluginVars>>

(* A client command or a plugin notification that edits nothing: it ends   *)
(* in after_edit, which commits what apply_edit left uncommitted.          *)
Touch(b) ==
    /\ core.pc = "free" /\ b \in views
    /\ UNCHANGED <<head, revs, liveUndos, curUndo, undos, gcUndos, undoGroup>>
    /\ AfterEdit(b)
    /\ UNCHANGED <<views, pluginVars>>

(* The request apply_edit of a plugin, against the revision it has.  The   *)
(* plugin waits for the answer, and nothing is committed.  Without an undo *)
(* group the edit gets one, also when it is then refused because its       *)
(* revision is gone; with the group of an earlier update (or while a group *)
(* is being forced) it joins that group.                                   *)
ApplyEdit(p, b) ==
    /\ core.pc = "free" /\ b \in views
    /\ p \in running /\ up[p]
    /\ \/ /\ CalculateUndoGroup(b, FALSE)
          /\ IF Kept(b, has[p][b])
             THEN NewEdit(b, undoGroup[b])
             ELSE undoGroup[b] <= MaxRevs /\ UNCHANGED <<head, revs, undos>>
       \/ /\ Kept(b, has[p][b])
          /\ \E g \in 0 .. undoGroup[b] - 1 : NewEdit(b, g)
          /\ UNCHANGED <<liveUndos, curUndo, gcUndos, undoGroup>>
    /\ UNCHANGED <<views, lastRev, revsInFlight, core, pluginVars>>

(* do_close_view: the editor is dropped with its view.  The plugins are    *)
(* notified, but the updates they have of it go on.                        *)
CloseView(b) ==
    /\ core.pc = "free" /\ b \in views
    /\ views' = views \ {b}
    /\ UNCHANGED <<editorVars, core, pluginVars>>

----------------------------------------------------------------------------
(* update_plugins, holding the core mutex *)

CoreUpdate == [buf |-> core.buf, rev |-> lastRev[core.buf]]

(* Plugin::update: the flag is set and the update sent, or it was set and  *)
(* the update will be stored.  When the write fails, the callback runs on  *)
(* this thread and waits for the mutex the thread holds.                   *)
OfferUpdate(p) ==
    /\ core.pc = "update" /\ p \in core.todo
    /\ revsInFlight' = [revsInFlight EXCEPT ![core.buf] = @ + 1]
    /\ IF inFlight[p]
       THEN /\ core' = [core EXCEPT !.pc = "store", !.plugin = p]
            /\ UNCHANGED <<inFlight, chain, pipe>>
       ELSE LET wedged == ~timed[p] /\ ~up[p]
                sent == ~timed[p] /\ up[p]
            IN /\ inFlight' = [inFlight EXCEPT ![p] = TRUE]
               /\ chain' = [chain EXCEPT ![p] =
                     [pc |-> IF wedged THEN "finish" ELSE IF sent THEN "await" ELSE "send",
                      upd |-> CoreUpdate, view |-> core.buf, locked |-> wedged]]
               /\ pipe' = IF sent THEN [pipe EXCEPT ![p] = Append(@, CoreUpdate)] ELSE pipe
               /\ core' = IF wedged THEN [core EXCEPT !.pc = "wedged"]
                                    ELSE [core EXCEPT !.todo = @ \ {p}]
    /\ UNCHANGED <<views, head, revs, lastRev, liveUndos, curUndo, undos, gcUndos, undoGroup,
                   running, coalesced, timed, up, answers, has>>

(* Mutant: a replaced or stored update is counted down at once. *)
StoreUpdate_Uncounts ==
    /\ core.pc = "store"
    /\ coalesced' = [coalesced EXCEPT ![core.plugin] = CoreUpdate]
    /\ core' = [core EXCEPT !.pc = "update", !.todo = @ \ {core.plugin}, !.plugin = "none"]
    /\ revsInFlight' = [revsInFlight EXCEPT ![core.buf] = @ - 1]
    /\ UNCHANGED <<views, head, revs, lastRev, liveUndos, curUndo, undos, gcUndos, undoGroup,
                   running, inFlight, chain, timed, up, pipe, answers, has>>

StoreUpdate ==
    /\ core.pc = "store"
    /\ coalesced' = [coalesced EXCEPT ![core.plugin] = CoreUpdate]
    /\ core' = [core EXCEPT !.pc = "update", !.todo = @ \ {core.plugin}, !.plugin = "none"]
    /\ UNCHANGED <<views, editorVars, running, inFlight, chain, timed, up, pipe, answers, has>>

UpdatesOffered ==
    /\ core.pc = "update" /\ core.todo = {}
    /\ DecRevsInFlight(core.buf)
    /\ core' = Free
    /\ UNCHANGED <<views, pluginVars>>

----------------------------------------------------------------------------
(* drive_plugin_update and its finish closure *)

To(p, pc) == chain' = [chain EXCEPT ![p].pc = pc]

(* The request is sent, on a thread of its own or from finish.  Inside the *)
(* pending-table lock it waits for itself.                                 *)
SendUpdate(p) ==
    /\ chain[p].pc = "send" /\ ~chain[p].locked
    /\ IF up[p]
       THEN /\ To(p, "await")
            /\ pipe' = [pipe EXCEPT ![p] = Append(@, chain[p].upd)]
       ELSE /\ chain' = [chain EXCEPT ![p].pc = "finish", ![p].locked = ~timed[p]]
            /\ UNCHANGED pipe
    /\ UNCHANGED <<views, editorVars, core, running, inFlight, coalesced, timed, up, answers, has>>

(* The reader finds the handler of an answer, or has none for it. *)
TakeAnswer(p) ==
    /\ answers[p] # <<>>
    /\ answers' = [answers EXCEPT ![p] = Tail(@)]
    /\ IF chain[p].pc = "await" /\ chain[p].upd = Head(answers[p])
       THEN To(p, "finish") ELSE UNCHANGED chain
    /\ UNCHANGED <<views, editorVars, core, running, inFlight, coalesced, timed, up, pipe, has>>

(* Mutant: a request with a timeout is left to its timeout. *)
Disconnect_LeavesTimed(p) ==
    /\ ~up[p] /\ chain[p].pc = "await" /\ ~timed[p]
    /\ chain' = [chain EXCEPT ![p].pc = "finish", ![p].locked = TRUE]
    /\ UNCHANGED <<views, editorVars, core, running, inFlight, coalesced, timed, up, pipe, answers,
                   has>>

(* disconnect_with_error, by the exit watcher or at the end of the stream. *)
Disconnect(p) ==
    /\ ~up[p] /\ chain[p].pc = "await"
    /\ chain' = [chain EXCEPT ![p].pc = "finish", ![p].locked = ~timed[p]]
    /\ UNCHANGED <<views, editorVars, core, running, inFlight, coalesced, timed, up, pipe, answers,
                   has>>

(* The request times out.  notify_breach records the termination in the    *)
(* core, and terminate() then waits for the child's mutex, which the exit  *)
(* watcher holds until the process has exited.                             *)
Timeout(p) ==
    /\ "timeout" \in Faults
    /\ timed[p] /\ chain[p].pc = "await"
    /\ To(p, "breach")
    /\ UNCHANGED <<views, editorVars, core, running, inFlight, coalesced, timed, up, pipe, answers,
                   has>>

Breach(p) ==
    /\ chain[p].pc = "breach" /\ core.pc = "free"
    /\ To(p, "kill")
    /\ UNCHANGED <<views, editorVars, core, running, inFlight, coalesced, timed, up, pipe, answers,
                   has>>

Terminate(p) ==
    /\ chain[p].pc = "kill" /\ ~up[p]
    /\ To(p, "finish")
    /\ UNCHANGED <<views, editorVars, core, running, inFlight, coalesced, timed, up, pipe, answers,
                   has>>

(* handle_plugin_update, for the view the chain began with; when that view *)
(* is closed, nothing is counted down.                                     *)
HandlePluginUpdate(p) ==
    /\ chain[p].pc = "finish" /\ core.pc = "free"
    /\ IF chain[p].view \in views
       THEN DecRevsInFlight(chain[p].view) ELSE UNCHANGED editorVars
    /\ To(p, "take")
    /\ UNCHANGED <<views, core, running, inFlight, coalesced, timed, up, pipe, answers, has>>

(* Mutant: the flag is cleared before the waiting update is looked for. *)
TakeCoalesced_ClearsFirst(p) ==
    /\ chain[p].pc = "take"
    /\ chain' = IF coalesced[p] = NoUpdate
                THEN [chain EXCEPT ![p].pc = "clear"]
                ELSE [chain EXCEPT ![p].pc = "send", ![p].upd = coalesced[p]]
    /\ coalesced' = [coalesced EXCEPT ![p] = NoUpdate]
    /\ inFlight' = [inFlight EXCEPT ![p] = FALSE]
    /\ UNCHANGED <<views, editorVars, core, running, timed, up, pipe, answers, has>>

TakeCoalesced(p) ==
    /\ chain[p].pc = "take"
    /\ chain' = IF coalesced[p] = NoUpdate
                THEN [chain EXCEPT ![p].pc = "clear"]
                ELSE [chain EXCEPT ![p].pc = "send", ![p].upd = coalesced[p]]
    /\ coalesced' = [coalesced EXCEPT ![p] = NoUpdate]
    /\ UNCHANGED <<views, editorVars, core, running, inFlight, timed, up, pipe, answers, has>>

ClearInFlight(p) ==
    /\ chain[p].pc = "clear"
    /\ inFlight' = [inFlight EXCEPT ![p] = FALSE]
    /\ chain' = [chain EXCEPT ![p] = Idle]
    /\ UNCHANGED <<views, editorVars, core, running, coalesced, timed, up, pipe, answers, has>>

----------------------------------------------------------------------------
(* The plugin process: Dispatcher::do_update, and its end *)

DoUpdate(p) ==
    /\ up[p] /\ pipe[p] # <<>>
    /\ has' = [has EXCEPT ![p][Head(pipe[p]).buf] = Head(pipe[p]).rev]
    /\ pipe' = [pipe EXCEPT ![p] = Tail(@)]
    /\ answers' = [answers EXCEPT ![p] = Append(@, Head(pipe[p]))]
    /\ UNCHANGED <<views, editorVars, core, running, inFlight, coalesced, chain, timed, up>>

Exit(p) ==
    /\ "exit" \in Faults
    /\ up[p]
    /\ up' = [up EXCEPT ![p] = FALSE]
    /\ UNCHANGED <<views, editorVars, core, running, inFlight, coalesced, chain, timed, pipe, answers,
                   has>>

(* plugin_exit: the core forgets the plugin. *)
PluginExit(p) ==
    /\ core.pc = "free" /\ ~up[p] /\ p \in running
    /\ running' = running \ {p}
    /\ UNCHANGED <<views, editorVars, core, inFlight, coalesced, chain, timed, up, pipe, answers, has>>

----------------------------------------------------------------------------
EditorStep(b) ==
    \/ \E joins \in BOOLEAN : Edit(b, joins)
    \/ Undo(b) \/ Redo(b) \/ Touch(b) \/ CloseView(b)

CoreStep == StoreUpdate \/ UpdatesOffered \/ \E p \in Plugins : OfferUpdate(p)

ChainStep(p) ==
    \/ SendUpdate(p) \/ TakeAnswer(p) \/ Disconnect(p) \/ Breach(p) \/ Terminate(p)
    \/ HandlePluginUpdate(p) \/ TakeCoalesced(p) \/ ClearInFlight(p)

PluginStep(p) ==
    \/ DoUpdate(p) \/ Exit(p) \/ PluginExit(p) \/ Timeout(p)
    \/ \E b \in Buffers : ApplyEdit(p, b)

Next ==
    \/ \E b \in Buffers : EditorStep(b)
    \/ CoreStep
    \/ \E p \in Plugins : ChainStep(p) \/ PluginStep(p)

Spec == Init /\ [][Next]_vars

(* The threads of the core run; the mutex is taken in some fair order.     *)
(* Nothing is assumed of the plugin, of the user or of the clock.          *)
FairSpec ==
    /\ Spec
    /\ WF_vars(CoreStep)
    /\ \A p \in Plugins : SF_vars(ChainStep(p)) /\ SF_vars(PluginExit(p))

----------------------------------------------------------------------------
(* Properties *)

ChainPcs == {"none", "send", "await", "breach", "kill", "finish", "take", "clear"}

(* Every variable has its type; revs_in_flight is an integer here, where   *)
(* the code's usize panics or wraps below zero.                            *)
TypeOK ==
    /\ views \subseteq Buffers
    /\ head \in [Buffers -> Nat] /\ lastRev \in [Buffers -> Nat]
    /\ revs \in [Buffers -> SUBSET [id : Nat, group : Int]]
    /\ liveUndos \in [Buffers -> Seq(Nat)]
    /\ curUndo \in [Buffers -> Nat] /\ undoGroup \in [Buffers -> Nat]
    /\ undos \in [Buffers -> SUBSET Nat] /\ gcUndos \in [Buffers -> SUBSET Nat]
    /\ revsInFlight \in [Buffers -> Int]
    /\ core \in [pc : {"free", "update", "store", "wedged", "poisoned"},
                 buf : Buffers \cup {"none"}, todo : SUBSET Plugins,
                 plugin : Plugins \cup {"none"}]
    /\ core.pc \in {"update", "store", "wedged"} => core.buf \in Buffers
    /\ core.pc = "store" => core.plugin \in Plugins
    /\ running \subseteq Plugins
    /\ inFlight \in [Plugins -> BOOLEAN]
    /\ timed \in [Plugins -> BOOLEAN] /\ up \in [Plugins -> BOOLEAN]
    /\ coalesced \in [Plugins -> Updates \cup {NoUpdate}]
    /\ chain \in [Plugins -> [pc : ChainPcs, upd : Updates \cup {NoUpdate},
                              view : Buffers \cup {"none"}, locked : BOOLEAN]]
    /\ \A p \in Plugins : chain[p].pc # "none" =>
          chain[p].upd \in Updates /\ chain[p].view \in Buffers
    /\ pipe \in [Plugins -> Seq(Updates)] /\ answers \in [Plugins -> Seq(Updates)]
    /\ has \in [Plugins -> [Buffers -> Nat]]

(* update_in_flight is set exactly while a chain of finish closures exists, *)
(* so a plugin never has two updates driven at once (Plugin::update,        *)
(* drive_plugin_update).                                                    *)
OneUpdateChain ==
    /\ TypeOK
    /\ \A p \in Plugins : inFlight[p] <=> chain[p].pc # "none"

(* The updates of a buffer that are in flight, and that wait; the revisions *)
(* the core holds itself while it offers one.                               *)
Outstanding(b) ==
    {p \in Plugins : chain[p].pc \notin {"none", "take", "clear"} /\ chain[p].upd.buf = b}
Waiting(b) == {p \in Plugins : coalesced[p].buf = b}
Offering(b) ==
    IF core.buf # b THEN 0 ELSE IF core.pc = "store" THEN 2 ELSE 1

(* "Each outstanding plugin edit holds a reference to the current revision; *)
(* CRDT garbage collection is deferred until all in-flight revisions are    *)
(* acknowledged" (increment_revs_in_flight).                                *)
RevsCoverUpdates ==
    \A b \in Buffers :
        revsInFlight[b] >= Offering(b) + Cardinality(Outstanding(b)) + Cardinality(Waiting(b))

(* ... and no longer: when every update of a buffer has been answered, none *)
(* of its revisions is in flight (dec_revs_in_flight, gc_undos).            *)
AnsweredReleases ==
    \A b \in views :
        Offering(b) = 0 /\ Outstanding(b) = {} /\ Waiting(b) = {} => revsInFlight[b] <= 0

(* A chain that answers for the buffer it began with. *)
ViewsKept == \A p \in Plugins : chain[p].pc # "none" => chain[p].upd.buf = chain[p].view

(* As long as no chain goes on with an update of another buffer, no history *)
(* is collected under an update that a plugin still has to answer: the one  *)
(* being offered, the ones in flight and the ones waiting each hold a       *)
(* revision, whatever exits, times out, is closed or is replaced            *)
(* (update_plugins, Plugin::update, drive_plugin_update).                   *)
CoverWhileViewsKept == []ViewsKept => []RevsCoverUpdates

(* "keeping plugin state current": a plugin is never taken back to an older *)
(* revision of a buffer (Plugin::update, Dispatcher::do_update).            *)
PluginMovesForward ==
    [][\A p \in Plugins, b \in Buffers : has'[p][b] >= has[p][b]]_vars

(* Where every plugin has an rpc_timeout, one that has exited is let go of: *)
(* its last update ends, though newer ones are waiting, the core is told of *)
(* its exit, and nobody keeps the core mutex (drive_plugin_update,          *)
(* notify_breach, plugin_exit).                                             *)
TimedPluginReleased ==
    \A p \in Plugins :
        ((\A q \in Plugins : timed[q]) /\ ~up[p]) ~>
            ((p \notin running /\ ~inFlight[p]) \/ core.pc = "poisoned")

(* commit_delta finds the revision it commits from:                         *)
(* try_delta_rev_head(last_token).expect("last_rev not found").             *)
LastRevKept == \A b \in views : Kept(b, lastRev[b])
=============================================================================
