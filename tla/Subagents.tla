----------------------------- MODULE Subagents -----------------------------
(***************************************************************************)
(* Delegation to subagents in the agent orchestrator: SubagentManager      *)
(* (ee-agent-orchestrator/src/subagents/manager.rs), the guard that cleans *)
(* up after a dropped future (subagents/mod.rs), the registry of children  *)
(* (child_registry.rs) and the part of the task graph they keep            *)
(* (tasks.rs).                                                             *)
(*                                                                         *)
(* One spawn future runs per child.  It waits for a permit, holds it while *)
(* the child's loop runs, and ends in a single poll: nothing is awaited    *)
(* between the decision and the bookkeeping, so each end is one action.    *)
(* A child's loop may delegate in turn, one call at a time; the nested     *)
(* future lives inside the outer one and is dropped with it.  Time is not  *)
(* modelled: a timer may fire at any moment, except that the deadline of a *)
(* nested child never fires before that of the child it is nested in,      *)
(* which was set earlier, lasts as long and is polled first.               *)
(***************************************************************************)
EXTENDS Integers, FiniteSets

CONSTANTS
  MaxSubagents,   \* max_subagents: children of one turn, at every depth
  MaxDepth,       \* max_subagent_depth
  Permits,        \* max_parallel_subagents
  Retention       \* entries the registry keeps

ASSUME LimitsAssumption ==
  /\ MaxSubagents \in Nat /\ MaxDepth \in Nat /\ Permits \in Nat
  /\ Retention \in Nat \ {0}

VARIABLES
  parent,     \* the task a child was delegated from
  pc,         \* the spawn future: "none", "waiting", "running", "done"
  task,       \* status of the child's node in the task graph
  reg,        \* state of its registry entry; "gone" once pruned
  sent,       \* children whose own cancel signal is set
  turn,       \* the cancel signal of the turn is set
  finished,   \* SubagentFinished events recorded for a child
  merged,     \* children whose output is in the parent's memory
  quarantined \* children whose output is set aside

records == <<task, reg, finished, merged, quarantined>>
vars    == <<parent, pc, task, reg, sent, turn, finished, merged, quarantined>>

-----------------------------------------------------------------------------
Ids  == 1..MaxSubagents
Root == 0

TaskEnded == {"Completed", "Failed", "Cancelled"}
RegEnded  == {"Completed", "Failed", "Cancelled", "Stalled"}

Active(c) == pc[c] \in {"waiting", "running"}
Holding   == {c \in Ids : pc[c] = "running"}

AncestorsOf[c \in Ids] ==
  IF parent[c] = Root THEN {} ELSE {parent[c]} \union AncestorsOf[parent[c]]

(* task_depth *)
Depth(c) == IF c = Root THEN 0 ELSE Cardinality(AncestorsOf[c]) + 1

(* The futures dropped with c's. *)
Nested(c) == {d \in Ids : Active(d) /\ c \in AncestorsOf[d]}

(* can_transition, for the states a child's node takes. *)
CanTransition(from, to) ==
  \/ from = "Pending" /\ to \in {"Running", "Cancelled"}
  \/ from = "Running" /\ to \in {"Completed", "Failed", "Cancelled"}

(* TaskGraph::transition with its error ignored. *)
Transition(from, to) == IF CanTransition(from, to) THEN to ELSE from

(* Mutant: the oldest entries go, ended or not. *)
Pruned_Oldest(r) ==
  LET kept == {c \in Ids : r[c] \notin {"none", "gone"}}
  IN [c \in Ids |->
        IF c \in kept /\ Cardinality({d \in kept : d < c})
                           < Cardinality(kept) - Retention
          THEN "gone" ELSE r[c]]

(* prune: over the limit, the oldest ended entries go; active ones stay. *)
Pruned(r) ==
  LET kept  == {c \in Ids : r[c] \notin {"none", "gone"}}
      ended == {c \in kept : r[c] \in RegEnded}
  IN [c \in Ids |->
        IF c \in ended /\ Cardinality({d \in ended : d < c})
                            < Cardinality(kept) - Retention
          THEN "gone" ELSE r[c]]

Init ==
  /\ parent = [c \in Ids |-> Root]
  /\ pc = [c \in Ids |-> "none"]
  /\ task = [c \in Ids |-> "none"]
  /\ reg = [c \in Ids |-> "none"]
  /\ sent = {} /\ turn = FALSE
  /\ finished = [c \in Ids |-> 0]
  /\ merged = {} /\ quarantined = {}

-----------------------------------------------------------------------------
(* The signal the future was given: the turn's, or the enclosing child's. *)
CancelSignal(p) == IF p = Root THEN turn ELSE p \in sent

(* Every select polls the two signals before anything else. *)
Signalled(c) == CancelSignal(parent[c]) \/ c \in sent

Waiting == {c \in Ids : pc[c] = "waiting"}

(* spawn: refused without a trace beyond the depth limit or the budget of  *)
(* the turn, else task node, registry entry and start event exist before   *)
(* any work, and a free permit is taken in the same poll.  A loop          *)
(* delegates one call at a time; turns and hosts may spawn side by side.   *)
Spawn(c, p) ==
  /\ pc[c] = "none"
  /\ \A d \in Ids : d < c => pc[d] # "none"
  /\ p # Root => /\ pc[p] = "running"
                 /\ \A d \in Ids : parent[d] = p => ~Active(d)
  /\ Depth(p) + 1 <= MaxDepth
  /\ parent' = [parent EXCEPT ![c] = p]
  /\ LET starts == /\ ~CancelSignal(p)
                   /\ Waiting = {} /\ Cardinality(Holding) < Permits
         at     == IF starts THEN "Running" ELSE "Pending"
     IN /\ pc' = [pc EXCEPT ![c] = IF starts THEN "running" ELSE "waiting"]
        /\ task' = [task EXCEPT ![c] = at]
        /\ reg' = Pruned([reg EXCEPT ![c] = at])
  /\ UNCHANGED <<sent, turn, finished, merged, quarantined>>

(* Mutant: only a running task counts as active. *)
TaskActive_Running(t) == t = "Running"

(* The node is still open: finish_child and the guard's drop ask this      *)
(* before they close it and record the event.                              *)
TaskActive(t) == t \in {"Pending", "Running"}

(* The future of c ends with the given task status and registry state, and *)
(* the futures nested in it are dropped: ChildRunGuard cancels each, and c *)
(* as well if it is dropped itself.  A registry entry that has ended keeps *)
(* its state, and the guard then announces nothing (ChildRegistry::finish).*)
(* The registry is pruned once for all of them.  Signals of ended futures  *)
(* have no reader left.                                                    *)
Ends(c, status, entry, dropped) ==
  LET gone    == {c} \union Nested(c)
      to(d)   == IF d = c THEN status ELSE "Cancelled"
      live(d) == reg[d] \in {"Pending", "Running"}
      told(d) == TaskActive(task[d]) /\ (d # c \/ dropped => live(d))
  IN /\ pc' = [d \in Ids |-> IF d \in gone THEN "done" ELSE pc[d]]
     /\ task' = [d \in Ids |-> IF d \in gone /\ TaskActive(task[d])
                                 THEN Transition(task[d], to(d)) ELSE task[d]]
     /\ reg' = Pruned([d \in Ids |->
                 IF d \in gone /\ live(d)
                   THEN IF d = c THEN entry ELSE "Cancelled"
                   ELSE reg[d]])
     /\ finished' = [d \in Ids |-> IF d \in gone /\ told(d)
                                     THEN finished[d] + 1 ELSE finished[d]]
     /\ sent' = sent \ gone
     /\ UNCHANGED <<parent, turn>>

(* cancelled_result: nothing the child produced is kept. *)
CancelledResult(c, entry) ==
  /\ Ends(c, IF entry = "Failed" THEN "Failed" ELSE "Cancelled", entry, FALSE)
  /\ quarantined' = quarantined \union {c}
  /\ UNCHANGED merged

-----------------------------------------------------------------------------
(* The select over the permit: the two signals, the deadline, the permit. *)
PermitCancelled(c) ==
  /\ pc[c] = "waiting"
  /\ Signalled(c)
  /\ CancelledResult(c, "Cancelled")

(* Mutant: the wait for a permit has no deadline. *)
PermitTimesOut_Never(c) == FALSE /\ UNCHANGED vars

(* The deadline is polled before a permit that has just come free. *)
PermitTimesOut(c) ==
  /\ pc[c] = "waiting" /\ ~Signalled(c)
  /\ parent[c] = Root
  /\ CancelledResult(c, "Failed")

(* The semaphore hands a freed permit to the first in line.  A node that   *)
(* cannot become Running ends the future with an error and armed guard,    *)
(* which is DropSpawn.                                                     *)
PermitGranted(c) ==
  /\ pc[c] = "waiting" /\ ~Signalled(c)
  /\ \A d \in Waiting : c <= d
  /\ Cardinality(Holding) < Permits
  /\ CanTransition(task[c], "Running")
  /\ pc' = [pc EXCEPT ![c] = "running"]
  /\ task' = [task EXCEPT ![c] = "Running"]
  /\ reg' = [reg EXCEPT ![c] = IF @ = "Pending" THEN "Running" ELSE @]
  /\ UNCHANGED <<parent, sent, turn, finished, merged, quarantined>>

(* The select over the run: the signals, the deadline, the stall watch,    *)
(* and the child itself.                                                   *)
ChildCancelled(c) ==
  /\ pc[c] = "running"
  /\ Signalled(c)
  /\ CancelledResult(c, "Cancelled")

ChildTimesOut(c) ==
  /\ pc[c] = "running" /\ ~Signalled(c)
  /\ parent[c] = Root
  /\ CancelledResult(c, "Failed")

(* wait_for_stall: a child waiting for a nested one makes no progress      *)
(* unless the nested one does.  An entry that has ended or is gone ends    *)
(* the supervision.                                                        *)
ChildStalls(c) ==
  /\ pc[c] = "running" /\ ~Signalled(c)
  /\ reg[c] # "Pending"
  /\ CancelledResult(c, IF reg[c] = "Running" THEN "Stalled" ELSE "Failed")

(* Mutant: what a child produced is merged before it is verified. *)
ChildEnds_MergesFirst(c, outcome) ==
  /\ pc[c] = "running" /\ ~Signalled(c)
  /\ outcome # "failed" => Nested(c) = {}
  /\ LET status == CASE outcome = "verified"  -> "Completed"
                     [] outcome = "cancelled" -> "Cancelled"
                     [] OTHER                 -> "Failed"
     IN Ends(c, status, status, FALSE)
  /\ merged' = IF outcome \in {"verified", "unverified"}
                 THEN merged \union {c} ELSE merged
  /\ quarantined' = IF outcome = "verified" THEN quarantined
                                            ELSE quarantined \union {c}

(* run_child: the child's loop ends and its result is judged.  Only a      *)
(* completed and verified one is merged; an unverified one becomes a       *)
(* failure.  The loop's own timeout may cut a nested call short.           *)
ChildEnds(c, outcome) ==
  /\ pc[c] = "running" /\ ~Signalled(c)
  /\ outcome # "failed" => Nested(c) = {}
  /\ LET status == CASE outcome = "verified"  -> "Completed"
                     [] outcome = "cancelled" -> "Cancelled"
                     [] OTHER                 -> "Failed"
     IN Ends(c, status, status, FALSE)
  /\ merged' = IF outcome = "verified" THEN merged \union {c} ELSE merged
  /\ quarantined' = IF outcome = "verified" THEN quarantined
                                            ELSE quarantined \union {c}

(* The future is dropped: the delegate call timed out, the turn went away, *)
(* the child panicked or an error was returned.  Only the guard runs;      *)
(* nothing is set aside.                                                   *)
DropSpawn(c) ==
  /\ Active(c)
  /\ Ends(c, "Cancelled", "Cancelled", TRUE)
  /\ UNCHANGED <<merged, quarantined>>

-----------------------------------------------------------------------------
(* cancel_child and cancel_all_children reach the entries not yet ended. *)
CancelChild(c) ==
  /\ reg[c] \in {"Pending", "Running"}
  /\ sent' = sent \union {c}
  /\ UNCHANGED <<parent, pc, turn, records>>

CancelAllChildren ==
  /\ sent' = sent \union {c \in Ids : reg[c] \in {"Pending", "Running"}}
  /\ UNCHANGED <<parent, pc, turn, records>>

CancelTurn ==
  /\ turn' = TRUE
  /\ UNCHANGED <<parent, pc, sent, records>>

-----------------------------------------------------------------------------
Future(c) ==
  \/ \E p \in Ids \union {Root} : Spawn(c, p)
  \/ PermitCancelled(c) \/ PermitTimesOut(c) \/ PermitGranted(c)
  \/ ChildCancelled(c) \/ ChildTimesOut(c) \/ ChildStalls(c)
  \/ \E outcome \in {"verified", "unverified", "failed", "cancelled"} :
       ChildEnds(c, outcome)
  \/ DropSpawn(c)

Next ==
  \/ \E c \in Ids : Future(c) \/ CancelChild(c)
  \/ CancelAllChildren \/ CancelTurn

Spec == Init /\ [][Next]_vars

(* A future is polled when a signal it was given is set, and when its      *)
(* deadline has passed.  Nothing is assumed of models, of the semaphore or *)
(* of nested children.                                                     *)
FairSpec ==
  Spec /\ \A c \in Ids :
    WF_vars(PermitCancelled(c) \/ ChildCancelled(c)
            \/ PermitTimesOut(c) \/ ChildTimesOut(c))

-----------------------------------------------------------------------------
(* The variables stay in their types and no more children run than         *)
(* max_parallel_subagents allows.                                          *)
TypeOK ==
  /\ parent \in [Ids -> Ids \union {Root}]
  /\ pc \in [Ids -> {"none", "waiting", "running", "done"}]
  /\ task \in [Ids -> TaskEnded \union {"none", "Pending", "Running"}]
  /\ reg \in [Ids -> RegEnded \union {"none", "Pending", "Running", "gone"}]
  /\ sent \in SUBSET Ids /\ turn \in BOOLEAN
  /\ finished \in [Ids -> 0..1]
  /\ merged \in SUBSET Ids /\ quarantined \in SUBSET Ids
  /\ Cardinality(Holding) <= Permits

(* Whichever of cancellation, timeout, stall, drop and completion gets     *)
(* there first, the end of a child is announced, once: one                 *)
(* SubagentFinished event per child that is no longer active, also for the *)
(* children nested in it.                                                  *)
AnnouncedOnce ==
  /\ TypeOK
  /\ \A c \in Ids : finished[c] = (IF pc[c] = "done" THEN 1 ELSE 0)

(* What a child that has ended produced is in the parent's memory exactly  *)
(* when its task is completed, the registry has ended with it and says     *)
(* "Completed" in the same cases, and nothing is both merged and set aside *)
(* (run_child, cancelled_result, finish_child).  Nothing is said of the    *)
(* task of a child that did not complete.                                  *)
MergedIsCompleted ==
  \A c \in Ids : pc[c] = "done" =>
    /\ c \in merged <=> task[c] = "Completed"
    /\ reg[c] \in RegEnded \union {"gone"}
    /\ reg[c] # "gone" => (reg[c] = "Completed" <=> task[c] = "Completed")
    /\ c \notin merged \intersect quarantined

(* "Normal completion disarms [the guard] after registry and task state    *)
(* reach a terminal state" (ChildRunGuard): the task of a child whose      *)
(* future has ended has ended.                                             *)
EndedIsTerminal == \A c \in Ids : pc[c] = "done" => task[c] \in TaskEnded

(* A child that is active can be found: it has a live registry entry for   *)
(* cancel_child, its task is open, and the child it is nested in still     *)
(* runs, whatever was pruned, dropped or cancelled before.                 *)
ActiveIsReachable ==
  \A c \in Ids : Active(c) =>
    /\ reg[c] \in {"Pending", "Running"}
    /\ task[c] \in {"Pending", "Running"}
    /\ parent[c] # Root => pc[parent[c]] = "running"

(* Every delegation returns, also when all permits are held by children    *)
(* that wait for nested ones to get a permit: subagent_timeout, counted    *)
(* from registration, ends the outermost and takes the others with it.     *)
SpawnReturns == \A c \in Ids : Active(c) ~> pc[c] = "done"
=============================================================================
