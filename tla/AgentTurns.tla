----------------------------- MODULE AgentTurns -----------------------------
(***************************************************************************)
(* Prompt turns of the agent host: AgentThread and ThreadShared            *)
(* (ee-agent-host/src/session.rs), and the driver, the main function and   *)
(* the closing of an AgentConnection (ee-agent-host/src/connection.rs).    *)
(*                                                                         *)
(* A send_prompt future reserves its session's thread, sends a command to  *)
(* the driver and waits on a oneshot.  The driver sends at most            *)
(* max_concurrent_prompts prompts to the agent, queues the others, and     *)
(* answers each oneshot; control requests it awaits in line.  The host's   *)
(* runtime has one thread (ee-cli, agent_pane/host.rs), so what a task     *)
(* does between two awaits is one action.                                  *)
(*                                                                         *)
(* The agent is another process: it may answer, refuse, never answer or    *)
(* disappear.  In protocol version 2 its answer to a prompt only           *)
(* acknowledges it, and a later idle update of the session ends the turn.  *)
(* It works on one prompt of a session at a time, and sends no idle update *)
(* for background work.  A caller waits for its send_prompt future to end: *)
(* the external critic, which drops it after a cancel and then closes the  *)
(* agent, is left out, as are the permission broker and the MCP registry,  *)
(* which some of these steps reset, and the opening of sessions.           *)
(***************************************************************************)
EXTENDS Integers, Sequences, FiniteSets

CONSTANTS
  Sessions,        \* the open sessions of the connection
  MaxConcurrent,   \* max_concurrent_prompts
  MaxAttempts,     \* bound: send_prompt calls that start a turn, per session
  MaxPrompts,      \*   and of all sessions
  MaxCalls         \* bound: cancels, closed sessions and threads, and
                   \*   other control requests

ASSUME LimitsAssumption ==
  MaxConcurrent \in Nat \ {0} /\ {MaxAttempts, MaxPrompts, MaxCalls} \subseteq Nat

(* The n-th send_prompt of a session that got the reservation. *)
Attempts == Sessions \X (1..MaxAttempts)

VARIABLES
  v2,           \* is_v2; never changes
  req,          \* per attempt: the future, its channels, its request
  turn,         \* ThreadShared.turn: the attempt holding the reservation
  activeTurn,   \* ThreadShared.active_turn: a turn key, or 0
  paused,       \* ThreadShared.paused_turn: a turn key, or 0
  threads,      \* AgentConnectionInner.threads
  commands,     \* the command channel
  driver,       \* driver_loop: "loop", "control", "drain" or "ended"
  queued,       \* queued_prompts
  tasks,        \* prompt_tasks
  active,       \* active_prompts: session -> attempt number, or 0
  turnEnds,     \* v2_turn_ends: session -> attempt number, or 0
  control,      \* the control request awaited in line: the session it closes,
                \*   or None
  closing,      \* sessions whose close the agent has acknowledged
  calls,        \* calls of the user so far
  mainFn,       \* "wait" or "ended"; the connection is usable while it waits
  closer,       \* AgentConnection::close: "none", "kill" or "done"; it has
                \*   requested shutdown unless it is "none"
  closedOnce    \* AgentConnectionInner.closed_once

threadVars == <<turn, activeTurn, paused, threads, closing>>
driverVars == <<driver, queued, tasks, active, turnEnds, control>>
closeVars  == <<mainFn, closer, closedOnce>>
vars == <<v2, req, threadVars, commands, driverVars, calls, closeVars>>

-----------------------------------------------------------------------------
None == "none"

(* A RunningTurn: the attempt that has the reservation, or 0 for none. *)
NoTurn == [n |-> 0, cancelling |-> FALSE]

(* pc: of the future.  key: its host turn.  cancel: its watch channel.     *)
(* result: its oneshot.  resp: the answer to its request.  acked: its task *)
(* has seen the acknowledgement.  end: the oneshot of turnEnds, which      *)
(* holds the attempt the agent was idle after.  idled: the agent has said  *)
(* so.                                                                     *)
NoRequest == [pc |-> None, key |-> 0, cancel |-> FALSE, result |-> None,
              resp |-> "unsent", acked |-> FALSE, end |-> 0, idled |-> FALSE]

Prompt(a)     == [k |-> "Prompt", s |-> a[1], n |-> a[2]]
CancelSession(s) == [k |-> "CancelSession", s |-> s, n |-> 0]
Control(s)    == [k |-> "Control", s |-> s, n |-> 0]
CloseCommand  == [k |-> "Close", s |-> None, n |-> 0]

Init ==
  /\ v2 \in BOOLEAN
  /\ req = [a \in Attempts |-> NoRequest]
  /\ turn = [s \in Sessions |-> NoTurn]
  /\ activeTurn = [s \in Sessions |-> 0] /\ paused = [s \in Sessions |-> 0]
  /\ threads = Sessions /\ closing = {}
  /\ commands = <<>>
  /\ driver = "loop" /\ queued = <<>> /\ tasks = {} /\ control = None
  /\ active = [s \in Sessions |-> 0] /\ turnEnds = [s \in Sessions |-> 0]
  /\ calls = 0
  /\ mainFn = "wait" /\ closer = "none" /\ closedOnce = FALSE

(* rx.close() is the first thing the driver does when it leaves its loop. *)
ChannelOpen == driver \in {"loop", "control"}

-----------------------------------------------------------------------------
(* AgentThread *)

Started(s) == {n \in 1..MaxAttempts : req[<<s, n>>].pc # None}
NextAttempt(s) == Cardinality(Started(s)) + 1

(* send_prompt_inner up to its await: start_turn, then the command.  A new *)
(* turn's key is one no earlier turn of the session had.  When the channel *)
(* is closed the future goes on to its end at once.                        *)
SendPrompt(s, resume) ==
  LET a   == <<s, NextAttempt(s)>>
      key == IF resume THEN paused[s] ELSE a[2]
  IN /\ turn[s] = NoTurn
     /\ NextAttempt(s) <= MaxAttempts
     /\ Cardinality({b \in Attempts : req[b].pc # None}) < MaxPrompts
     /\ resume => paused[s] # 0
     /\ paused' = [paused EXCEPT ![s] = 0]
     /\ IF ChannelOpen
        THEN /\ req' = [req EXCEPT ![a].pc = "sent", ![a].key = key]
             /\ turn' = [turn EXCEPT ![s] = [n |-> a[2], cancelling |-> FALSE]]
             /\ activeTurn' = [activeTurn EXCEPT ![s] = key]
             /\ commands' = Append(commands, Prompt(a))
        ELSE /\ req' = [req EXCEPT ![a].pc = "done"]
             /\ activeTurn' = [activeTurn EXCEPT ![s] = 0]
             /\ UNCHANGED <<turn, commands>>
     /\ UNCHANGED <<v2, threads, closing, driverVars, calls, closeVars>>

(* Mutant: whoever ends releases the reservation. *)
FinishTurn_Any(a) ==
  /\ turn' = [turn EXCEPT ![a[1]] = NoTurn]
  /\ activeTurn' = [activeTurn EXCEPT ![a[1]] = 0]

(* Mutant: the reservation is compared, the active turn is not. *)
FinishTurn_ClearsActive(a) ==
  LET s    == a[1]
      owns == turn[s] # NoTurn /\ req[<<s, turn[s].n>>].key = req[a].key
  IN /\ turn' = [turn EXCEPT ![s] = IF owns THEN NoTurn ELSE @]
     /\ activeTurn' = [activeTurn EXCEPT ![s] = 0]

(* finish_turn: only the turn that still owns the reservation releases it. *)
FinishTurn(a) ==
  LET s    == a[1]
      owns == turn[s] # NoTurn /\ req[<<s, turn[s].n>>].key = req[a].key
  IN /\ turn' = [turn EXCEPT ![s] = IF owns THEN NoTurn ELSE @]
     /\ activeTurn' = [activeTurn EXCEPT ![s] =
                          IF owns /\ @ = req[a].key THEN 0 ELSE @]

(* The rest of send_prompt_inner, once its oneshot is answered; its        *)
(* channels are gone with it, and what remains is what the agent makes of  *)
(* a prompt of version 2.                                                  *)
PromptReturns(a) ==
  /\ req[a].pc = "sent" /\ req[a].result # None
  /\ req' = [req EXCEPT ![a] = [NoRequest EXCEPT
                !.pc = "done", !.idled = req[a].idled,
                !.resp = IF v2 /\ req[a].resp \in {None, "ok"} THEN req[a].resp
                                                              ELSE "unsent"]]
  /\ paused' = IF req[a].result = "paused"
                 THEN [paused EXCEPT ![a[1]] = req[a].key] ELSE paused
  /\ FinishTurn(a)
  /\ UNCHANGED <<v2, threads, closing, commands, driverVars, calls, closeVars>>

(* AgentThread::cancel; a second call finds cancelling set. *)
Cancel(s) ==
  /\ turn[s] # NoTurn /\ ~turn[s].cancelling
  /\ calls < MaxCalls /\ calls' = calls + 1
  /\ turn' = [turn EXCEPT ![s].cancelling = TRUE]
  /\ req' = [req EXCEPT ![<<s, turn[s].n>>].cancel = TRUE]
  /\ commands' = IF ChannelOpen THEN Append(commands, CancelSession(s)) ELSE commands
  /\ UNCHANGED <<v2, activeTurn, paused, threads, closing, driverVars, closeVars>>

(* close_session up to its await: prepare_local_thread_for_close takes the *)
(* reservation of a registered thread and leaves active_turn alone.        *)
CloseSession(s) ==
  /\ mainFn = "wait"
  /\ calls < MaxCalls /\ calls' = calls + 1
  /\ IF s \in threads /\ turn[s] # NoTurn
       THEN /\ req' = [req EXCEPT ![<<s, turn[s].n>>].cancel = TRUE]
            /\ turn' = [turn EXCEPT ![s] = NoTurn]
       ELSE UNCHANGED <<req, turn>>
  /\ commands' = IF ChannelOpen THEN Append(commands, Control(s)) ELSE commands
  /\ UNCHANGED <<v2, activeTurn, paused, threads, closing, driverVars, closeVars>>

(* The rest of close_session, when the agent has agreed.                   *)
CloseLocalThread(s) ==
  /\ s \in closing
  /\ closing' = closing \ {s} /\ threads' = threads \ {s}
  /\ UNCHANGED <<v2, req, turn, activeTurn, paused, commands, driverVars, calls,
                 closeVars>>

(* Any other request that the driver awaits in line, such as set_mode.     *)
ControlRequest ==
  /\ ChannelOpen
  /\ calls < MaxCalls /\ calls' = calls + 1
  /\ commands' = Append(commands, Control(None))
  /\ UNCHANGED <<v2, req, threadVars, driverVars, closeVars>>

(* AgentThread::close: running turns keep running. *)
CloseThread(s) ==
  /\ s \in threads
  /\ calls < MaxCalls /\ calls' = calls + 1
  /\ threads' = threads \ {s}
  /\ UNCHANGED <<v2, req, turn, activeTurn, paused, closing, commands, driverVars,
                 closeVars>>

-----------------------------------------------------------------------------
(* The driver *)

Occupied(act) == {s \in Sessions : act[s] # 0}

(* start_prompt_task for the attempts in T, on top of the given            *)
(* active_prompts, v2_turn_ends and requests.  A request on a connection   *)
(* that is gone fails.                                                     *)
StartPromptTasks(T, act, ends, reqs, running) ==
  LET started(s) == {a \in T : a[1] = s}
      number(s)  == (CHOOSE a \in started(s) : TRUE)[2]
  IN /\ active' = [s \in Sessions |-> IF started(s) # {} THEN number(s) ELSE act[s]]
     /\ turnEnds' = [s \in Sessions |-> IF v2 /\ started(s) # {} THEN number(s)
                                                             ELSE ends[s]]
     /\ req' = [a \in Attempts |->
                  IF a \in T
                    THEN [reqs[a] EXCEPT !.resp = IF mainFn = "wait" THEN None
                                                                    ELSE "failed"]
                    ELSE reqs[a]]
     /\ tasks' = running \union T

Waits(s) == \E i \in DOMAIN queued : queued[i][1] = s

(* The Prompt command: refused when the session has one already, queued    *)
(* when all slots are taken, else sent.                                    *)
HandlePrompt(a) ==
  IF active[a[1]] # 0 \/ Waits(a[1])
  THEN /\ req' = [req EXCEPT ![a].result = "failed"]
       /\ UNCHANGED <<queued, tasks, active, turnEnds>>
  ELSE IF Cardinality(Occupied(active)) >= MaxConcurrent
  THEN /\ queued' = Append(queued, a)
       /\ UNCHANGED <<req, tasks, active, turnEnds>>
  ELSE /\ StartPromptTasks({a}, active, turnEnds, req, tasks)
       /\ UNCHANGED queued

(* Mutant: the agent is told, the queue is not looked at. *)
HandleCancelSession_NotQueued(s) ==
  UNCHANGED <<req, queued, tasks, active, turnEnds>>

(* The CancelSession command: the first queued prompt of the session is    *)
(* answered and removed; without one the agent is notified.                *)
HandleCancelSession(s) ==
  /\ \/ ~Waits(s) /\ UNCHANGED <<req, queued>>
     \/ \E i \in DOMAIN queued :
          /\ queued[i][1] = s /\ \A j \in 1..(i - 1) : queued[j][1] # s
          /\ req' = [req EXCEPT ![queued[i]].result = "cancelled"]
          /\ queued' = SubSeq(queued, 1, i - 1) \o SubSeq(queued, i + 1, Len(queued))
  /\ UNCHANGED <<tasks, active, turnEnds>>

DriverReceives ==
  /\ driver = "loop" /\ commands # <<>>
  /\ commands' = Tail(commands)
  /\ LET c == Head(commands)
     IN \/ /\ c.k = "Prompt"
           /\ HandlePrompt(<<c.s, c.n>>)
           /\ UNCHANGED <<driver, control>>
        \/ /\ c.k = "CancelSession"
           /\ HandleCancelSession(c.s)
           /\ UNCHANGED <<driver, control>>
        \/ /\ c.k = "Control"
           /\ driver' = "control" /\ control' = c.s
           /\ UNCHANGED <<req, queued, tasks, active, turnEnds>>
  /\ UNCHANGED <<v2, threadVars, calls, closeVars>>

(* The control request is answered, refused or times out, which answers    *)
(* the future that sent it; also when the connection is gone by then.      *)
ControlEnds ==
  /\ driver = "control"
  /\ driver' = "loop" /\ control' = None
  /\ closing' \in {closing, closing \union ({control} \ {None})}
  /\ UNCHANGED <<v2, req, turn, activeTurn, paused, threads, commands, queued,
                 tasks, active, turnEnds, calls, closeVars>>

(* Mutant: an acknowledged prompt does not listen to the shutdown. *)
Outcomes_NoStop(a) ==
  LET r    == req[a]
      stop == IF driver = "drain" THEN {"failed"} ELSE {}
      cut  == IF r.cancel THEN {"cancelled"} ELSE {}
  IN IF r.acked THEN cut \union (IF r.end # 0 THEN {"ok"} ELSE {})
     ELSE IF stop # {} THEN stop
     ELSE IF cut # {} THEN cut
     ELSE IF r.resp \in {None, "unsent"} \/ (v2 /\ r.resp = "ok") THEN {}
     ELSE {r.resp}

(* What a prompt task may end with when the driver polls it.  The first    *)
(* select is biased: shutdown, cancel, answer.  After the acknowledgement  *)
(* of version 2 the order is random.                                       *)
Outcomes(a) ==
  LET r    == req[a]
      stop == IF driver = "drain" THEN {"failed"} ELSE {}
      cut  == IF r.cancel THEN {"cancelled"} ELSE {}
  IN IF r.acked THEN stop \union cut \union (IF r.end # 0 THEN {"ok"} ELSE {})
     ELSE IF stop # {} THEN stop
     ELSE IF cut # {} THEN cut
     ELSE IF r.resp \in {None, "unsent"} \/ (v2 /\ r.resp = "ok") THEN {}
     ELSE {r.resp}

(* run_prompt_task_v2 passes from its first select to its second. *)
TaskAcked(a) ==
  /\ driver = "loop" /\ a \in tasks
  /\ v2 /\ req[a].resp = "ok" /\ ~req[a].acked /\ ~req[a].cancel
  /\ req' = [req EXCEPT ![a].acked = TRUE]
  /\ UNCHANGED <<v2, threadVars, commands, driverVars, calls, closeVars>>

(* finish_prompt_task. *)
Freed(a) == [active EXCEPT ![a[1]] = IF @ = a[2] THEN 0 ELSE @]
Answered(a, r) == [req EXCEPT ![a].result = r]
Unregistered(a, r) == [turnEnds EXCEPT ![a[1]] = IF r = "ok" THEN @ ELSE 0]

(* Mutant: the freed slot is not given to a queued prompt. *)
TaskEnds_NoDispatch(a, r) ==
  /\ driver = "loop" /\ a \in tasks /\ r \in Outcomes(a)
  /\ active' = Freed(a) /\ req' = Answered(a, r) /\ turnEnds' = Unregistered(a, r)
  /\ tasks' = tasks \ {a}
  /\ UNCHANGED <<v2, threadVars, commands, driver, queued, control, calls,
                 closeVars>>

(* A prompt task ends in the loop; dispatch_queued_prompts follows. *)
TaskEnds(a, r) ==
  /\ driver = "loop" /\ a \in tasks /\ r \in Outcomes(a)
  /\ LET free == MaxConcurrent - Cardinality(Occupied(Freed(a)))
         k    == IF free < Len(queued) THEN free ELSE Len(queued)
     IN /\ StartPromptTasks({queued[i] : i \in 1..k}, Freed(a), Unregistered(a, r),
                            Answered(a, r), tasks \ {a})
        /\ queued' = SubSeq(queued, k + 1, Len(queued))
  /\ UNCHANGED <<v2, threadVars, commands, driver, control, calls, closeVars>>

(* Mutant: queued prompts are left unanswered. *)
DriverBreaks_ForgetsQueue ==
  /\ driver = "loop"
  /\ \/ mainFn = "ended" /\ UNCHANGED commands
     \/ /\ commands # <<>> /\ Head(commands).k = "Close"
        /\ commands' = Tail(commands)
  /\ driver' = "drain" /\ queued' = <<>>
  /\ UNCHANGED <<v2, req, threadVars, tasks, active, turnEnds, control, calls,
                 closeVars>>

(* The driver leaves its loop: terminate, or the Close command.  The       *)
(* channel is closed and queued prompts are answered.                      *)
DriverBreaks ==
  /\ driver = "loop"
  /\ \/ mainFn = "ended" /\ UNCHANGED commands
     \/ /\ commands # <<>> /\ Head(commands).k = "Close"
        /\ commands' = Tail(commands)
  /\ driver' = "drain" /\ queued' = <<>>
  /\ req' = [a \in Attempts |-> IF \E i \in DOMAIN queued : queued[i] = a
                                  THEN [req[a] EXCEPT !.result = "failed"]
                                  ELSE req[a]]
  /\ UNCHANGED <<v2, threadVars, tasks, active, turnEnds, control, calls,
                 closeVars>>

TaskDrained(a, r) ==
  /\ driver = "drain" /\ a \in tasks /\ r \in Outcomes(a)
  /\ active' = Freed(a) /\ req' = Answered(a, r) /\ turnEnds' = Unregistered(a, r)
  /\ tasks' = tasks \ {a}
  /\ UNCHANGED <<v2, threadVars, commands, driver, queued, control, calls,
                 closeVars>>

(* reject_command_after_shutdown for what is left in the channel. *)
DriverEnds ==
  /\ driver = "drain" /\ tasks = {}
  /\ driver' = "ended" /\ commands' = <<>>
  /\ req' = [a \in Attempts |-> IF \E i \in DOMAIN commands : commands[i] = Prompt(a)
                                  THEN [req[a] EXCEPT !.result = "failed"]
                                  ELSE req[a]]
  /\ UNCHANGED <<v2, threadVars, queued, tasks, active, turnEnds, control, calls,
                 closeVars>>

-----------------------------------------------------------------------------
(* The agent and the connection *)

(* The agent has not finished an earlier prompt of the session. *)
Busy(a) == \E n \in 1..(a[2] - 1) : req[<<a[1], n>>].resp = "ok" /\ ~req[<<a[1], n>>].idled

(* An answer to the prompt request.  "paused" is an error that carries     *)
(* recoverable data.  When nobody waits for it any more it matters only in *)
(* version 2, where the agent has accepted the prompt.                     *)
AgentAnswers(a, r) ==
  /\ mainFn = "wait" /\ req[a].resp = None
  /\ a \in tasks \/ (v2 /\ r = "ok")
  /\ v2 => ~Busy(a)
  /\ req' = [req EXCEPT ![a].resp = r]
  /\ UNCHANGED <<v2, threadVars, commands, driverVars, calls, closeVars>>

(* handle_v2_session_notification, for the idle update with which the      *)
(* agent ends its work on a: whoever is registered is told.                *)
AgentIdle(a) ==
  LET s == a[1]
      n == turnEnds[s]
  IN /\ v2 /\ mainFn = "wait"
     /\ req[a].resp = "ok" /\ ~req[a].idled
     /\ turnEnds' = [turnEnds EXCEPT ![s] = 0]
     /\ req' = [b \in Attempts |->
                  [req[b] EXCEPT !.idled = @ \/ b = a,
                                 !.end = IF b = <<s, n>> THEN a[2] ELSE @]]
     /\ UNCHANGED <<v2, threadVars, commands, driver, queued, tasks, active, control,
                    calls, closeVars>>

(* notify_connection_closed, with each thread's notify_connection_lost. *)
NotifyConnectionClosed ==
  /\ closedOnce' = TRUE
  /\ IF closedOnce
       THEN UNCHANGED <<turn, activeTurn, paused>>
       ELSE /\ turn' = [s \in Sessions |-> IF s \in threads THEN NoTurn ELSE turn[s]]
            /\ activeTurn' = [s \in Sessions |-> IF s \in threads THEN 0
                                                              ELSE activeTurn[s]]
            /\ paused' = [s \in Sessions |-> IF s \in threads THEN 0 ELSE paused[s]]

(* main_fn ends: the agent's output is closed, shutdown was requested, or  *)
(* the connection failed under it, which drops its half of terminate.      *)
(* Requests that wait for an answer get an error.                          *)
MainFnEnds ==
  /\ mainFn = "wait"
  /\ mainFn' = "ended"
  /\ req' = [a \in Attempts |-> IF req[a].resp = None
                                  THEN [req[a] EXCEPT !.resp = "failed"] ELSE req[a]]
  /\ NotifyConnectionClosed
  /\ UNCHANGED <<v2, threads, closing, commands, driverVars, calls, closer>>

(* AgentConnection::close up to the kill it awaits, and the rest. *)
Close ==
  /\ closer = "none"
  /\ closer' = "kill"
  /\ commands' = IF ChannelOpen THEN Append(commands, CloseCommand) ELSE commands
  /\ UNCHANGED <<v2, req, threadVars, driverVars, calls, mainFn, closedOnce>>

CloseReturns ==
  /\ closer = "kill"
  /\ closer' = "done"
  /\ NotifyConnectionClosed
  /\ UNCHANGED <<v2, req, threads, closing, commands, driverVars, calls, mainFn>>

-----------------------------------------------------------------------------
Results == {"ok", "failed", "paused", "cancelled"}

DriverStep ==
  \/ DriverReceives \/ ControlEnds \/ DriverBreaks \/ DriverEnds
  \/ \E a \in Attempts : TaskAcked(a)
  \/ \E a \in Attempts, r \in Results : TaskEnds(a, r) \/ TaskDrained(a, r)

Next ==
  \/ \E s \in Sessions : \/ \E resume \in BOOLEAN : SendPrompt(s, resume)
                         \/ Cancel(s) \/ CloseSession(s) \/ CloseLocalThread(s)
                         \/ CloseThread(s)
  \/ ControlRequest
  \/ \E a \in Attempts : PromptReturns(a) \/ AgentIdle(a)
  \/ \E a \in Attempts, r \in {"ok", "failed", "paused"} : AgentAnswers(a, r)
  \/ DriverStep
  \/ MainFnEnds \/ Close \/ CloseReturns

Spec == Init /\ [][Next]_vars

(* Tasks that can run do run, control requests time out, and the main      *)
(* function sees a requested shutdown.  Nothing is assumed of the agent or *)
(* of the user.                                                            *)
FairSpec ==
  /\ Spec
  /\ WF_vars(DriverStep)
  /\ WF_vars(\E a \in Attempts : PromptReturns(a))
  /\ WF_vars(closer # "none" /\ MainFnEnds)

-----------------------------------------------------------------------------
(* Properties *)

CommandSet ==
  {Prompt(a) : a \in Attempts} \union {CancelSession(s) : s \in Sessions}
  \union {Control(s) : s \in Sessions \union {None}} \union {CloseCommand}

Requests ==
  [pc : {None, "sent", "done"}, key : 0..MaxAttempts, cancel : BOOLEAN,
   result : Results \union {None}, resp : {"unsent", None, "ok", "failed", "paused"},
   acked : BOOLEAN, end : 0..MaxAttempts, idled : BOOLEAN]

(* The variables stay in their types. *)
TypeOK ==
  /\ v2 \in BOOLEAN
  /\ req \in [Attempts -> Requests]
  /\ turn \in [Sessions -> [n : 0..MaxAttempts, cancelling : BOOLEAN]]
  /\ {activeTurn, paused, active, turnEnds} \subseteq [Sessions -> 0..MaxAttempts]
  /\ threads \subseteq Sessions /\ closing \subseteq Sessions
  /\ commands \in Seq(CommandSet) /\ queued \in Seq(Attempts)
  /\ driver \in {"loop", "control", "drain", "ended"}
  /\ tasks \subseteq Attempts
  /\ control \in Sessions \union {None} /\ calls \in 0..MaxCalls
  /\ mainFn \in {"wait", "ended"} /\ closer \in {"none", "kill", "done"}
  /\ closedOnce \in BOOLEAN

(* A prompt whose future waits is in exactly one place: the channel, the   *)
(* queue, the tasks, or answered.  So no order of closing, cancelling and  *)
(* refusing loses a prompt or answers its oneshot twice, and the sessions  *)
(* in active_prompts are those of the tasks (driver_loop,                  *)
(* finish_prompt_task).                                                    *)
Places(a) ==
  Cardinality({i \in DOMAIN commands : commands[i] = Prompt(a)})
  + Cardinality({i \in DOMAIN queued : queued[i] = a})
  + Cardinality({a} \intersect tasks)
  + (IF req[a].result # None THEN 1 ELSE 0)

PromptConserved ==
  /\ TypeOK
  /\ \A a \in Attempts : Places(a) = IF req[a].pc = "sent" THEN 1 ELSE 0
  /\ tasks = {<<s, active[s]>> : s \in Occupied(active)}

(* No more than max_concurrent_prompts are with the agent.  A prompt waits *)
(* in the queue only while all slots are taken, and never beside another   *)
(* prompt of its session, so a slot that comes free is never left idle     *)
(* (dispatch_queued_prompts).                                              *)
QueueServed ==
  /\ Cardinality(tasks) <= MaxConcurrent
  /\ queued # <<>> =>
    /\ Cardinality(tasks) = MaxConcurrent
    /\ \A i \in DOMAIN queued : active[queued[i][1]] = 0
    /\ \A i, j \in DOMAIN queued : queued[i][1] = queued[j][1] => i = j

(* Three things end a reservation: the future that has it, close_session   *)
(* for this session and no other, and the loss of the connection.  A late  *)
(* completion of an older prompt is none of them, also when prompts are    *)
(* resumed under the same turn key (finish_turn).                          *)
Owner(s) == <<s, turn[s].n>>

ReservationKept ==
  [][\A s \in Sessions : (turn[s] # NoTurn /\ turn'[s].n # turn[s].n) =>
        \/ turn'[s] = NoTurn /\ req'[Owner(s)].pc = "done"
        \/ turn' = [turn EXCEPT ![s] = NoTurn] /\ calls' # calls
        \/ closedOnce' # closedOnce]_vars

(* "keeps this reservation until that exact `send_prompt` future resolves, *)
(* so a replacement prompt cannot race it" (ThreadShared.turn), unless the *)
(* connection is lost.                                                     *)
ReservationUntilResolved ==
  [][\A s \in Sessions : (turn[s] # NoTurn /\ turn'[s].n # turn[s].n) =>
        \/ turn'[s] = NoTurn /\ req'[Owner(s)].pc = "done"
        \/ closedOnce' # closedOnce]_vars

(* While a prompt has the reservation of its session, evidence goes to its *)
(* turn and to no other, whatever older prompts of the session end late    *)
(* (start_turn, finish_turn).                                              *)
EvidenceFollowsTurn ==
  \A s \in Sessions : turn[s] # NoTurn => activeTurn[s] = req[Owner(s)].key

(* The step that releases a reservation also ends the active turn, except  *)
(* in close_session (finish_turn, notify_connection_lost).                 *)
EvidenceEndsWithTurn ==
  [][\A s \in Sessions : turn[s] # NoTurn /\ turn'[s] = NoTurn =>
        activeTurn'[s] = 0 \/ CloseSession(s)]_vars

(* "Current host turn key while an ACP prompt is active"                   *)
(* (ThreadShared.active_turn): the turn that evidence may be attached to   *)
(* is that of a prompt whose future has not ended.                         *)
EvidenceOnlyInTurn ==
  \A s \in Sessions : activeTurn[s] # 0 =>
    \E n \in 1..MaxAttempts : req[<<s, n>>].pc = "sent" /\ req[<<s, n>>].key = activeTurn[s]

(* A cancelled turn keeps its reservation until its future ends, and that  *)
(* does happen: the session can take a prompt again, wherever the prompt   *)
(* is and whatever the agent does (cancel, driver_loop).                   *)
CancelReleases == \A s \in Sessions : turn[s].cancelling ~> ~turn[s].cancelling

(* Once the connection is closed or lost the driver ends and no prompt     *)
(* waits any more, not even one sent while it was ending (close,           *)
(* driver_loop, reject_command_after_shutdown).                            *)
ClosedEnds ==
  (closer # "none" \/ mainFn = "ended") ~>
    (driver = "ended" /\ \A a \in Attempts : req[a].pc # "sent")

(* "Idle without a pending turn (background work, or a turn the host       *)
(* already resolved locally) is expected and ignored"                      *)
(* (handle_v2_session_notification): no turn is ended by the idle update   *)
(* of an earlier one.                                                      *)
IdleEndsOwnTurn ==
  \A a \in Attempts : req[a].end # 0 => req[a].end = a[2]
=============================================================================
