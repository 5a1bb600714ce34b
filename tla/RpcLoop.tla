------------------------------ MODULE RpcLoop ------------------------------
(***************************************************************************)
(* The run loop of crates/xi-rpc: the peer object through which any thread *)
(* sends requests, schedules idle work and asks for shutdown; the reader   *)
(* thread that hands responses to their waiters and everything else to the *)
(* main loop; and the main loop itself (timers, idle queue, dispatch).     *)
(*                                                                         *)
(* Actors are the client threads, "main" (the thread in `mainloop`, which  *)
(* also runs the handlers) and "reader" (the blocking task spawned by      *)
(* `mainloop`).  The process at the other end of the pipe is external: it  *)
(* may answer any request it was sent, more than once or never, and it may *)
(* send the messages in Incoming.  Message bodies are abstracted to what   *)
(* the loop distinguishes.                                                 *)
(***************************************************************************)
EXTENDS Integers, Sequences, FiniteSets

CONSTANTS
    Clients,      \* threads other than main and reader that hold a peer
    ClientOps,    \* the peer operations the clients use
    HandlerOps,   \* the peer operations handlers use; "panic": they may panic
    Incoming,     \* the messages the process at the other end may send
    MaxInFlight,  \* permits of request_semaphore
    MaxIdle,      \* MAX_IDLE_QUEUE_SIZE
    Tokens,       \* idle and timer tokens
    Chaining,     \* may a callback send the next request (drive_plugin_update)
    MaxReq,       \* bound: requests ever sent
    MaxIn,        \* bound: messages read before the stream must end
    MaxRuns,      \* bound: calls of mainloop on one RpcLoop
    MaxTimers,    \* bound: timers in the heap
    MaxTime,      \* bound: ticks of the clock
    Poll          \* the 60 s sleep of a loop without timers, in ticks

Ops      == {"sync", "timed", "async", "cancel", "shutdown",
             "idle", "timer", "cancelTimer", "panic"}
Calls    == {"req", "notif", "badreq", "badnotif"}
Ends     == {"eof", "bad", "batch"}
Replies  == {"answer", "badanswer"}
Actors   == Clients \cup {"main", "reader"}
Ids      == 0 .. (MaxReq - 1)
NoId     == -1
NoToken  == "no token"

ASSUME ConstantsAssumption ==
    /\ "main" \notin Clients /\ "reader" \notin Clients
    /\ IsFiniteSet(Clients)
    /\ ClientOps \subseteq Ops /\ HandlerOps \subseteq Ops
    /\ Incoming \subseteq Calls \cup Ends \cup Replies \cup {"nullid"}
    /\ MaxInFlight \in Nat \ {0}
    /\ MaxIdle \in Nat /\ MaxReq \in Nat /\ MaxIn \in Nat /\ MaxRuns \in Nat
    /\ MaxTimers \in Nat /\ MaxTime \in Nat /\ Poll \in Nat
    /\ NoToken \notin Tokens
    /\ Chaining \in BOOLEAN

VARIABLES
    \* --- the request table, shared by all actors -------------------------
    nextId,     \* RpcState.id
    pending,    \* keys of RpcState.pending
    lock,       \* holder of the pending mutex while a callback runs under it
    permits,    \* available permits of request_semaphore
    kind,       \* what sort of request an id belongs to
    delivered,  \* results its ResponseHandler was invoked with
    sent,       \* requests written to the pipe
    \* --- the actors ------------------------------------------------------
    pc,         \* where an actor is inside a peer operation
    cur,        \* the request that operation is about
    claim,      \* handler taken out of `pending`, to be invoked unlocked
    \* --- the reader thread -----------------------------------------------
    rd, rmsg, nread,
    \* --- the main loop ---------------------------------------------------
    loop, cont, item, token, exit, runs,
    needsExit, msgq, rxPending,
    \* --- idle queue and timers -------------------------------------------
    idleq, timers, notify, clock, sleepUntil

reqVars   == <<nextId, pending, lock, permits, kind, delivered, sent>>
actorVars == <<pc, cur, claim>>
readVars  == <<rd, rmsg, nread>>
loopVars  == <<loop, cont, item, token, exit, runs>>
chanVars  == <<needsExit, msgq, rxPending>>
idleVars  == <<idleq, timers, notify, clock, sleepUntil>>
vars == <<reqVars, actorVars, readVars, loopVars, chanVars, idleVars>>

\* What a peer operation, a reader step and a main loop step leave alone.
CallFrame   == UNCHANGED <<readVars, loopVars, chanVars, idleVars>>
ReaderFrame == UNCHANGED <<reqVars, actorVars, loopVars, idleVars>>
MainFrame   == UNCHANGED <<reqVars, actorVars, readVars>>

\* The main loop goes to l; it goes to l with the exit reason e.
GoTo(l)     == loop' = l /\ UNCHANGED <<cont, item, token, exit, runs>>
Leave(l, e) == loop' = l /\ exit' = e /\ UNCHANGED <<cont, item, token, runs>>

Timer == [slot : 1 .. MaxTimers, at : 0 .. MaxTime, token : Tokens]

Outcomes == {"answer", "exited", "protocol", "io", "cancelled"}
CallPcs  == {"free", "acquireSync", "acquireTimed", "insert", "send", "fail",
             "wait", "cancel", "shutdown", "notify"}
ReadPcs  == {"off", "check", "read", "invoke", "permit", "disconnect",
             "count", "enqueue", "done", "panicked"}
LoopPcs  == {"off", "timers", "idle", "sleep", "select", "received",
             "dispatch", "handler", "respond", "fatal", "disconnect", "await"}
Exits    == {"none", "eof", "bad", "batch", "io", "panic"}

TypeTable ==
    /\ nextId \in 0 .. MaxReq
    /\ pending \subseteq Ids
    /\ lock \in Actors \cup {"nobody"}
    /\ permits \in Nat
    /\ kind \in [Ids -> {"none", "sync", "timed", "async"}]
    /\ delivered \in [Ids -> Seq(Outcomes)]
    /\ sent \subseteq Ids

TypeActors ==
    /\ pc \in [Actors -> CallPcs]
    /\ cur \in [Actors -> Ids \cup {NoId}]
    /\ claim \in [Actors -> Ids \cup {NoId}]

TypeReader ==
    /\ rd \in ReadPcs
    /\ rmsg \in Calls \cup Ends \cup Replies \cup {"none"}
    /\ nread \in 0 .. MaxIn

TypeLoop ==
    /\ loop \in LoopPcs
    /\ cont \in {"timers", "idle", "respond", "fatal"}
    /\ item \in Calls \cup Ends \cup {"none"}
    /\ token \in Tokens \cup {NoToken}
    /\ exit \in Exits
    /\ runs \in 0 .. MaxRuns

TypeFlags == needsExit \in BOOLEAN /\ notify \in BOOLEAN

TypeChannel ==
    /\ msgq \in Seq(Calls \cup Ends)
    /\ rxPending \in Int

TypeIdle ==
    /\ idleq \in Seq(Tokens)
    /\ timers \subseteq Timer
    /\ clock \in 0 .. MaxTime
    /\ sleepUntil \in Nat

TypeOK ==
    /\ TypeTable /\ TypeActors /\ TypeReader /\ TypeLoop
    /\ TypeFlags /\ TypeChannel /\ TypeIdle

Init ==
    /\ nextId = 0 /\ pending = {} /\ lock = "nobody" /\ permits = MaxInFlight
    /\ kind = [i \in Ids |-> "none"]
    /\ delivered = [i \in Ids |-> << >>]
    /\ sent = {}
    /\ pc = [a \in Actors |-> "free"]
    /\ cur = [a \in Actors |-> NoId]
    /\ claim = [a \in Actors |-> NoId]
    /\ rd = "off" /\ rmsg = "none" /\ nread = 0
    /\ loop = "off" /\ cont = "timers" /\ item = "none" /\ token = NoToken
    /\ exit = "none" /\ runs = 0
    /\ needsExit = FALSE /\ msgq = << >> /\ rxPending = 0
    /\ idleq = << >> /\ timers = {} /\ notify = FALSE
    /\ clock = 0 /\ sleepUntil = 0
-----------------------------------------------------------------------------
(***************************************************************************)
(* Peer operations.                                                        *)
(***************************************************************************)

\* A client may call whenever it is not inside a call; main while a handler
\* runs.  The reader only calls from inside a callback (see Invoke).
MayCall(a, op) ==
    /\ pc[a] = "free"
    /\ \/ a \in Clients /\ op \in ClientOps
       \/ a = "main" /\ loop = "handler" /\ op \in HandlerOps

\* The bound MaxReq is enforced where a request starts, so that no caller is
\* ever held back by it half way.
IdLeft ==
    nextId + Cardinality({a \in Actors : pc[a] \in {"acquireSync", "acquireTimed"}}) < MaxReq

\* `self.0.id.fetch_add(1)` by actor a for a request of kind k.
Allocate(a, k) ==
    /\ nextId < MaxReq
    /\ nextId' = nextId + 1
    /\ kind' = [kind EXCEPT ![nextId] = k]
    /\ cur' = [cur EXCEPT ![a] = nextId]
    /\ pc' = [pc EXCEPT ![a] = "insert"]

\* ResponseHandler::invoke for every id in the set D.
DeliverTo(D, r) ==
    delivered' = [i \in Ids |-> IF i \in D THEN Append(delivered[i], r) ELSE delivered[i]]

\* send_rpc_request and send_rpc_request_timeout begin by spinning for a permit.
StartWaiting(a) ==
    /\ IdLeft
    /\ \/ MayCall(a, "sync")  /\ pc' = [pc EXCEPT ![a] = "acquireSync"]
       \/ MayCall(a, "timed") /\ pc' = [pc EXCEPT ![a] = "acquireTimed"]
    /\ CallFrame /\ UNCHANGED <<reqVars, cur, claim>>

StartAsync(a) ==
    /\ MayCall(a, "async") /\ IdLeft
    /\ Allocate(a, "async")
    /\ CallFrame /\ UNCHANGED <<pending, lock, permits, delivered, sent,
                                claim>>

\* Faulty variant: goes on without a permit.
Acquire_Unguarded(a) ==
    /\ permits' = permits - 1
    /\ \/ pc[a] = "acquireSync"  /\ Allocate(a, "sync")
       \/ pc[a] = "acquireTimed" /\ Allocate(a, "timed")
    /\ CallFrame /\ UNCHANGED <<pending, lock, delivered, sent, claim>>

\* The spin on try_acquire ends with a permit.
Acquire(a) ==
    /\ permits > 0
    /\ permits' = permits - 1
    /\ \/ pc[a] = "acquireSync"  /\ Allocate(a, "sync")
       \/ pc[a] = "acquireTimed" /\ Allocate(a, "timed")
    /\ CallFrame /\ UNCHANGED <<pending, lock, delivered, sent, claim>>

\* ... or, with a deadline, without one: PeerTimedOut, nothing was sent.
AcquireTimeout(a) ==
    /\ pc[a] = "acquireTimed" /\ permits = 0
    /\ pc' = [pc EXCEPT ![a] = "free"]
    /\ CallFrame /\ UNCHANGED <<reqVars, cur, claim>>

\* First half of send_rpc_request_common: register the handler.
Insert(a) ==
    /\ pc[a] = "insert" /\ lock = "nobody"
    /\ pending' = pending \cup {cur[a]}
    /\ pc' = [pc EXCEPT ![a] = "send"]
    /\ CallFrame /\ UNCHANGED <<nextId, lock, permits, kind, delivered, sent,
                                cur, claim>>

\* A synchronous caller goes on to wait for its channel, an asynchronous one
\* is done and gets the id.
AfterSend(a) ==
    IF kind[cur[a]] = "async"
    THEN /\ pc' = [pc EXCEPT ![a] = "free"]
         /\ cur' = [cur EXCEPT ![a] = NoId]
    ELSE /\ pc' = [pc EXCEPT ![a] = "wait"]
         /\ UNCHANGED cur

SendOk(a) ==
    /\ pc[a] = "send"
    /\ sent' = sent \cup {cur[a]}
    /\ AfterSend(a)
    /\ CallFrame /\ UNCHANGED <<nextId, pending, lock, permits, kind,
                                delivered, claim>>

SendFails(a) ==
    /\ pc[a] = "send"
    /\ pc' = [pc EXCEPT ![a] = "fail"]
    /\ CallFrame /\ UNCHANGED <<reqVars, cur, claim>>

\* Faulty variant: invokes the handler without looking whether it is still
\* in the table.
WithdrawFailed_Unchecked(a) ==
    /\ pc[a] = "fail" /\ lock = "nobody"
    /\ pending' = pending \ {cur[a]}
    /\ DeliverTo({cur[a]}, "io")
    /\ AfterSend(a)
    /\ CallFrame /\ UNCHANGED <<nextId, lock, permits, kind, sent, claim>>

\* The write failed: the caller takes its own handler back, if nobody else
\* did, and invokes it with the lock still held.
WithdrawFailed(a) ==
    /\ pc[a] = "fail" /\ lock = "nobody"
    /\ pending' = pending \ {cur[a]}
    /\ DeliverTo({cur[a]} \cap pending, "io")
    /\ AfterSend(a)
    /\ CallFrame /\ UNCHANGED <<nextId, lock, permits, kind, sent, claim>>

\* ... and if the callback sends the next request, it waits for the lock its
\* own thread holds.
WithdrawBlocks(a) ==
    /\ pc[a] = "fail" /\ lock = "nobody"
    /\ Chaining /\ IdLeft
    /\ cur[a] \in pending /\ kind[cur[a]] = "async"
    /\ pending' = pending \ {cur[a]}
    /\ DeliverTo({cur[a]}, "io")
    /\ lock' = a
    /\ Allocate(a, "async")
    /\ CallFrame /\ UNCHANGED <<permits, sent, claim>>

\* rx.recv() or rx.recv_timeout() returns the result; the permit is dropped.
WaitReturns(a) ==
    /\ pc[a] = "wait" /\ delivered[cur[a]] # << >>
    /\ permits' = permits + 1
    /\ pc' = [pc EXCEPT ![a] = "free"]
    /\ cur' = [cur EXCEPT ![a] = NoId]
    /\ CallFrame /\ UNCHANGED <<nextId, pending, lock, kind, delivered, sent,
                                claim>>

\* Faulty variants: the timeout path keeps its permit; the timed request
\* waits with recv instead of recv_timeout.
WaitTimesOut_KeepsPermit(a) ==
    /\ pc[a] = "wait" /\ kind[cur[a]] = "timed" /\ delivered[cur[a]] = << >>
    /\ pc' = [pc EXCEPT ![a] = "free"]
    /\ cur' = [cur EXCEPT ![a] = NoId]
    /\ CallFrame /\ UNCHANGED <<reqVars, claim>>

WaitTimesOut_Never(a) ==
    /\ pc[a] = "wait" /\ kind[cur[a]] = "timed" /\ delivered[cur[a]] # << >>
    /\ UNCHANGED vars

\* recv_timeout gives up.  The handler stays in `pending`.
WaitTimesOut(a) ==
    /\ pc[a] = "wait" /\ kind[cur[a]] = "timed" /\ delivered[cur[a]] = << >>
    /\ permits' = permits + 1
    /\ pc' = [pc EXCEPT ![a] = "free"]
    /\ cur' = [cur EXCEPT ![a] = NoId]
    /\ CallFrame /\ UNCHANGED <<nextId, pending, lock, kind, delivered, sent,
                                claim>>

\* cancel_rpc_request on an id some caller was given.
Cancel(a, i) ==
    /\ MayCall(a, "cancel") /\ lock = "nobody"
    /\ i \in pending /\ kind[i] = "async" /\ \A b \in Actors : cur[b] # i
    /\ pending' = pending \ {i}
    /\ claim' = [claim EXCEPT ![a] = i]
    /\ pc' = [pc EXCEPT ![a] = "cancel"]
    /\ CallFrame /\ UNCHANGED <<nextId, lock, permits, kind, delivered, sent,
                                cur>>

Claimed(a) == claim[a] # NoId

\* What the handler taken by a is invoked with.
ClaimOutcome(a) ==
    CASE pc[a] = "cancel"      -> "cancelled"
      [] rmsg  = "badanswer"   -> "protocol"
      [] OTHER                 -> "answer"

\* The tail of cancel_rpc_request and of handle_response: the lock has been
\* released, the handler is invoked.
Invoke(a) ==
    /\ Claimed(a)
    /\ DeliverTo({claim[a]}, ClaimOutcome(a))
    /\ claim' = [claim EXCEPT ![a] = NoId]
    /\ pc' = [pc EXCEPT ![a] = "free"]
    /\ rd' = IF a = "reader" THEN "check" ELSE rd
    /\ UNCHANGED <<nextId, pending, lock, permits, kind, sent, cur, rmsg,
                   nread, loopVars, chanVars, idleVars>>

\* The invoked callback sends the next request before it returns.
InvokeChains(a) ==
    /\ Claimed(a) /\ Chaining /\ IdLeft /\ kind[claim[a]] = "async"
    /\ DeliverTo({claim[a]}, ClaimOutcome(a))
    /\ claim' = [claim EXCEPT ![a] = NoId]
    /\ Allocate(a, "async")
    /\ rd' = IF a = "reader" THEN "check" ELSE rd
    /\ UNCHANGED <<pending, lock, permits, sent, rmsg, nread, loopVars,
                   chanVars, idleVars>>

\* request_shutdown; the disconnect itself is Disconnect(a).
RequestShutdown(a) ==
    /\ MayCall(a, "shutdown")
    /\ pc' = [pc EXCEPT ![a] = "shutdown"]
    /\ CallFrame /\ UNCHANGED <<reqVars, cur, claim>>

\* Faulty variant: does not wake the main loop.
ScheduleIdle_Silent(a, t) ==
    /\ MayCall(a, "idle")
    /\ \A n \in 1 .. Len(idleq) : idleq[n] # t
    /\ Len(idleq) < MaxIdle
    /\ idleq' = Append(idleq, t)
    /\ UNCHANGED <<reqVars, actorVars, readVars, loopVars, chanVars, timers,
                   notify, clock, sleepUntil>>

ScheduleIdle(a, t) ==
    /\ MayCall(a, "idle")
    /\ \A n \in 1 .. Len(idleq) : idleq[n] # t
    /\ Len(idleq) < MaxIdle
    /\ idleq' = Append(idleq, t)
    /\ notify' = TRUE
    /\ UNCHANGED <<reqVars, actorVars, readVars, loopVars, chanVars, timers,
                   clock, sleepUntil>>

\* schedule_timer pushes under the heap's lock and notifies after it.
ScheduleTimer(a, t, at) ==
    /\ MayCall(a, "timer")
    /\ \E s \in 1 .. MaxTimers :
          /\ \A r \in timers : r.slot # s
          /\ \A s2 \in 1 .. (s - 1) : \E r \in timers : r.slot = s2
          /\ timers' = timers \cup {[slot |-> s, at |-> at, token |-> t]}
    /\ pc' = [pc EXCEPT ![a] = "notify"]
    /\ UNCHANGED <<reqVars, cur, claim, readVars, loopVars, chanVars, idleq,
                   notify, clock, sleepUntil>>

NotifyTimer(a) ==
    /\ pc[a] = "notify"
    /\ notify' = TRUE
    /\ pc' = [pc EXCEPT ![a] = "free"]
    /\ UNCHANGED <<reqVars, cur, claim, readVars, loopVars, chanVars, idleq,
                   timers, clock, sleepUntil>>

CancelTimer(a, t) ==
    /\ MayCall(a, "cancelTimer")
    /\ timers' = {r \in timers : r.token # t}
    /\ UNCHANGED <<reqVars, actorVars, readVars, loopVars, chanVars, idleq,
                   notify, clock, sleepUntil>>
-----------------------------------------------------------------------------
(***************************************************************************)
(* disconnect_with_error: every pending handler is invoked with the lock   *)
(* held, then needs_exit is raised.                                        *)
(***************************************************************************)

\* Where an actor is about to disconnect.
AtDisconnect(a) ==
    \/ pc[a] = "shutdown"
    \/ a = "main" /\ loop = "disconnect" /\ pc[a] = "free"
    \/ a = "reader" /\ rd = "disconnect" /\ pc[a] = "free"

\* The error it passes: PeerExited for a closed pipe, a shutdown or a panic,
\* PeerProtocolError otherwise.
DisconnectError(a) ==
    CASE pc[a] = "shutdown" -> "exited"
      [] a = "main"   -> IF exit \in {"eof", "panic"} THEN "exited" ELSE "protocol"
      [] OTHER        -> IF rmsg = "eof" THEN "exited" ELSE "protocol"

Disconnect(a) ==
    /\ AtDisconnect(a) /\ lock = "nobody"
    /\ DeliverTo(pending, DisconnectError(a))
    /\ pending' = {}
    /\ needsExit' = TRUE
    /\ pc' = [pc EXCEPT ![a] = "free"]
    /\ rd' = IF a = "reader" THEN "count" ELSE rd
    /\ loop' = IF a = "main" /\ pc[a] = "free" THEN "await" ELSE loop
    /\ UNCHANGED <<nextId, lock, permits, kind, sent, cur, claim, rmsg, nread,
                   cont, item, token, exit, runs, msgq, rxPending, idleVars>>

\* A callback invoked by the drain sends the next request: it needs the lock
\* that its own thread holds.  D are the handlers the drain reached before.
DisconnectBlocks(a) ==
    /\ AtDisconnect(a) /\ lock = "nobody"
    /\ Chaining /\ IdLeft
    /\ \E i \in pending : \E D \in SUBSET (pending \ {i}) :
          /\ kind[i] = "async"
          /\ DeliverTo(D \cup {i}, DisconnectError(a))
          /\ pending' = pending \ (D \cup {i})
    /\ lock' = a
    /\ Allocate(a, "async")
    /\ CallFrame /\ UNCHANGED <<permits, sent, claim>>
-----------------------------------------------------------------------------
(***************************************************************************)
(* The reader thread.                                                      *)
(***************************************************************************)
\* Faulty variant: a sender of the message channel outlives the reader.
ReaderClosed_SenderKept == rd \in {"off", "panicked"}

ReaderClosed == rd \in {"off", "done", "panicked"}

ReaderCheck ==
    /\ rd = "check" /\ pc["reader"] = "free"
    /\ rd' = IF needsExit THEN "done" ELSE "read"
    /\ ReaderFrame /\ UNCHANGED <<rmsg, nread, chanVars>>

\* A response: handle_response takes the handler out of the table.
ReadResponse(i, m) ==
    /\ rd = "read" /\ nread < MaxIn /\ m \in Incoming /\ i \in sent /\ lock = "nobody"
    /\ nread' = nread + 1
    /\ rmsg' = m
    /\ pending' = pending \ {i}
    /\ claim' = [claim EXCEPT !["reader"] = IF i \in pending THEN i ELSE NoId]
    /\ rd' = IF i \in pending THEN "invoke" ELSE "check"
    /\ UNCHANGED <<nextId, lock, permits, kind, delivered, sent, pc, cur,
                   loopVars, chanVars, idleVars>>

\* `is_response()` holds for an object with `"id": null` and no method, and
\* `get_id().unwrap()` panics on it.
ReadNullId ==
    /\ rd = "read" /\ "nullid" \in Incoming /\ nread < MaxIn
    /\ nread' = nread + 1
    /\ rd' = "panicked"
    /\ ReaderFrame /\ UNCHANGED <<rmsg, chanVars>>

ReadCall(m) ==
    /\ rd = "read" /\ nread < MaxIn /\ m \in Incoming
    /\ nread' = nread + 1
    /\ rmsg' = m
    /\ rd' = "count"
    /\ ReaderFrame /\ UNCHANGED chanVars

\* End of the stream, an unreadable message, or a batch.
ReadEnd(m) ==
    /\ rd = "read" /\ m \in Incoming
    /\ rmsg' = m
    /\ rd' = IF m = "batch" THEN "disconnect" ELSE "permit"
    /\ ReaderFrame /\ UNCHANGED <<nread, chanVars>>

\* available_permits() < max_in_flight
ReaderPermitCheck ==
    /\ rd = "permit"
    /\ rd' = IF permits < MaxInFlight THEN "disconnect" ELSE "count"
    /\ ReaderFrame /\ UNCHANGED <<rmsg, nread, chanVars>>

\* Faulty variant: only calls are counted, not the error that ends the stream.
ReaderCount_CallsOnly ==
    /\ rd = "count" /\ pc["reader"] = "free"
    /\ rxPending' = IF rmsg \in Ends THEN rxPending ELSE rxPending + 1
    /\ rd' = "enqueue"
    /\ ReaderFrame /\ UNCHANGED <<rmsg, nread, needsExit, msgq>>

ReaderCount ==
    /\ rd = "count" /\ pc["reader"] = "free"
    /\ rxPending' = rxPending + 1
    /\ rd' = "enqueue"
    /\ ReaderFrame /\ UNCHANGED <<rmsg, nread, needsExit, msgq>>

ReaderEnqueue ==
    /\ rd = "enqueue"
    /\ msgq' = Append(msgq, rmsg)
    /\ rd' = IF rmsg \in Ends THEN "done" ELSE "check"
    /\ ReaderFrame /\ UNCHANGED <<rmsg, nread, needsExit, rxPending>>
-----------------------------------------------------------------------------
(***************************************************************************)
(* The main loop.                                                          *)
(***************************************************************************)
StartLoop ==
    /\ loop = "off" /\ runs < MaxRuns
    /\ runs' = runs + 1
    /\ needsExit' = FALSE
    /\ msgq' = << >>
    /\ rd' = "check" /\ rmsg' = "none" /\ nread' = 0
    /\ loop' = "timers"
    /\ exit' = "none"
    /\ UNCHANGED <<reqVars, actorVars, cont, item, token, rxPending, idleVars>>

\* The most imminent timer, as the heap orders them.
Imminent(r) == r \in timers /\ \A s \in timers : r.at <= s.at
Due == \E r \in timers : r.at <= clock

RunHandler(next, tok) ==
    /\ loop' = "handler"
    /\ cont' = next
    /\ token' = tok

TimerFires ==
    /\ loop = "timers"
    /\ \E r \in timers :
          /\ Imminent(r) /\ r.at <= clock
          /\ timers' = timers \ {r}
          /\ RunHandler("timers", r.token)
    /\ MainFrame /\ UNCHANGED <<item, exit, runs, chanVars, idleq, notify,
                                clock, sleepUntil>>

TimersDrained ==
    /\ loop = "timers" /\ ~Due
    /\ GoTo("idle")
    /\ MainFrame /\ UNCHANGED <<chanVars, idleVars>>

\* Faulty variant: takes the newest token instead of the oldest.
IdleRuns_Newest ==
    /\ loop = "idle" /\ idleq # << >>
    /\ idleq' = SubSeq(idleq, 1, Len(idleq) - 1)
    /\ RunHandler("idle", idleq[Len(idleq)])
    /\ MainFrame /\ UNCHANGED <<item, exit, runs, chanVars, timers, notify,
                                clock, sleepUntil>>

IdleRuns ==
    /\ loop = "idle" /\ idleq # << >>
    /\ idleq' = Tail(idleq)
    /\ RunHandler("idle", Head(idleq))
    /\ MainFrame /\ UNCHANGED <<item, exit, runs, chanVars, timers, notify,
                                clock, sleepUntil>>

IdleDrained ==
    /\ loop = "idle" /\ idleq = << >>
    /\ GoTo("sleep")
    /\ MainFrame /\ UNCHANGED <<chanVars, idleVars>>

\* check_timers is called once more to find the time to sleep; a timer that
\* has expired since the drain is popped by it.
ComputeSleep ==
    /\ loop = "sleep"
    /\ \/ /\ timers = {}
          /\ sleepUntil' = clock + Poll
          /\ UNCHANGED timers
       \/ /\ timers # {} /\ ~Due
          /\ \E r \in timers : Imminent(r) /\ sleepUntil' = r.at
          /\ UNCHANGED timers
       \/ /\ Due
          /\ sleepUntil' = clock + Poll
          /\ \E r \in timers : Imminent(r) /\ timers' = timers \ {r}
    /\ GoTo("select")
    /\ MainFrame /\ UNCHANGED <<chanVars, idleq, notify, clock>>

\* The biased select: a queued message first, ...
Receive ==
    /\ loop = "select" /\ msgq # << >>
    /\ item' = Head(msgq)
    /\ msgq' = Tail(msgq)
    /\ loop' = "received"
    /\ MainFrame /\ UNCHANGED <<cont, token, exit, runs, needsExit, rxPending,
                                idleVars>>

\* ... or the closed channel, ...
ChannelClosed ==
    /\ loop = "select" /\ msgq = << >> /\ ReaderClosed
    /\ Leave("await", "eof")
    /\ MainFrame /\ UNCHANGED <<chanVars, idleVars>>

\* ... then the notification, ...
Woken ==
    /\ loop = "select" /\ msgq = << >> /\ ~ReaderClosed /\ notify
    /\ notify' = FALSE
    /\ GoTo("timers")
    /\ MainFrame /\ UNCHANGED <<chanVars, idleq, timers, clock, sleepUntil>>

\* ... then the end of the sleep.
Slept ==
    /\ loop = "select" /\ msgq = << >> /\ ~ReaderClosed /\ ~notify
    /\ clock >= sleepUntil
    /\ GoTo("timers")
    /\ MainFrame /\ UNCHANGED <<chanVars, idleVars>>

Uncount ==
    /\ loop = "received"
    /\ rxPending' = rxPending - 1
    /\ GoTo("dispatch")
    /\ MainFrame /\ UNCHANGED <<needsExit, msgq, idleVars>>

DispatchCall ==
    /\ loop = "dispatch" /\ item \in {"req", "notif"}
    /\ RunHandler(IF item = "req" THEN "respond" ELSE "timers", NoToken)
    /\ MainFrame /\ UNCHANGED <<item, exit, runs, chanVars, idleVars>>

\* A request that does not deserialize is answered with an error, a
\* notification that does not is ignored.
DispatchInvalid ==
    /\ loop = "dispatch" /\ item \in {"badreq", "badnotif"}
    /\ GoTo(IF item = "badreq" THEN "respond" ELSE "timers")
    /\ MainFrame /\ UNCHANGED <<chanVars, idleVars>>

\* Whether or not the error response can be written, the loop disconnects.
DispatchBatch ==
    /\ loop = "dispatch" /\ item = "batch"
    /\ exit' \in {"batch", "io"}
    /\ loop' = "disconnect"
    /\ MainFrame /\ UNCHANGED <<cont, item, token, runs, chanVars, idleVars>>

\* A read error: one idle token is given to the handler before the loop ends.
DispatchError ==
    /\ loop = "dispatch" /\ item \in {"eof", "bad"}
    /\ IF idleq = << >>
       THEN loop' = "fatal" /\ UNCHANGED <<cont, token, idleq>>
       ELSE idleq' = Tail(idleq) /\ RunHandler("fatal", Head(idleq))
    /\ MainFrame /\ UNCHANGED <<item, exit, runs, chanVars, timers, notify,
                                clock, sleepUntil>>

\* Faulty variant: ends the loop without disconnecting.
Fatal_NoDisconnect ==
    /\ loop = "fatal"
    /\ Leave("await", item)
    /\ MainFrame /\ UNCHANGED <<chanVars, idleVars>>

Fatal ==
    /\ loop = "fatal"
    /\ Leave("disconnect", item)
    /\ MainFrame /\ UNCHANGED <<chanVars, idleVars>>

HandlerReturns ==
    /\ loop = "handler" /\ pc["main"] = "free"
    /\ loop' = cont
    /\ token' = NoToken
    /\ MainFrame /\ UNCHANGED <<cont, item, exit, runs, chanVars, idleVars>>

\* PanicGuard disconnects while the panic unwinds to catch_unwind.
HandlerPanics ==
    /\ loop = "handler" /\ pc["main"] = "free" /\ "panic" \in HandlerOps
    /\ exit' = "panic"
    /\ loop' = "disconnect"
    /\ token' = NoToken
    /\ MainFrame /\ UNCHANGED <<cont, item, runs, chanVars, idleVars>>

RespondOk ==
    /\ loop = "respond"
    /\ GoTo("timers")
    /\ MainFrame /\ UNCHANGED <<chanVars, idleVars>>

RespondFails ==
    /\ loop = "respond"
    /\ Leave("disconnect", "io")
    /\ MainFrame /\ UNCHANGED <<chanVars, idleVars>>

\* `jh.await`, or the runtime's shutdown after a panic: both wait for the
\* reader.  mainloop returns.
LoopReturns ==
    /\ loop = "await" /\ ReaderClosed
    /\ loop' = "off"
    /\ item' = "none"
    /\ MainFrame /\ UNCHANGED <<cont, token, exit, runs, chanVars, idleVars>>

Tick ==
    /\ clock < MaxTime
    /\ clock' = clock + 1
    /\ UNCHANGED <<reqVars, actorVars, readVars, loopVars, chanVars, idleq,
                   timers, notify, sleepUntil>>
-----------------------------------------------------------------------------
\* What an actor does to finish an operation it is inside of.
CallStep(a) ==
    \/ Acquire(a) \/ AcquireTimeout(a) \/ Insert(a)
    \/ SendOk(a) \/ SendFails(a) \/ WithdrawFailed(a) \/ WithdrawBlocks(a)
    \/ WaitReturns(a) \/ WaitTimesOut(a)
    \/ Invoke(a) \/ InvokeChains(a)
    \/ Disconnect(a) \/ DisconnectBlocks(a) \/ NotifyTimer(a)

\* What an actor may start.
StartStep(a) ==
    \/ StartWaiting(a) \/ StartAsync(a) \/ RequestShutdown(a)
    \/ \E i \in Ids : Cancel(a, i)
    \/ \E t \in Tokens : ScheduleIdle(a, t) \/ CancelTimer(a, t)
    \/ \E t \in Tokens, at \in 0 .. MaxTime : ScheduleTimer(a, t, at)

ReaderStep ==
    ReaderCheck \/ ReaderPermitCheck \/ ReaderCount \/ ReaderEnqueue

ReadStep ==
    \/ \E i \in Ids, m \in Replies : ReadResponse(i, m)
    \/ \E m \in Calls : ReadCall(m)
    \/ \E m \in Ends : ReadEnd(m)
    \/ ReadNullId

MainStep ==
    \/ TimerFires \/ TimersDrained \/ IdleRuns \/ IdleDrained \/ ComputeSleep
    \/ Receive \/ ChannelClosed \/ Woken \/ Slept \/ Uncount
    \/ DispatchCall \/ DispatchInvalid \/ DispatchBatch \/ DispatchError
    \/ Fatal \/ HandlerReturns \/ RespondOk \/ RespondFails \/ LoopReturns

Next ==
    \/ \E a \in Actors : CallStep(a) \/ StartStep(a)
    \/ ReaderStep \/ ReadStep
    \/ MainStep \/ StartLoop \/ HandlerPanics \/ Tick

Spec == Init /\ [][Next]_vars

(***************************************************************************)
(* Threads that can run do run: every actor finishes the operation it is   *)
(* inside of, the reader handles what it has read, the main loop keeps     *)
(* looping and its handlers return after finitely many calls, time passes. *)
(* The process at the other end eventually closes its side of the pipe.    *)
(* Nothing makes anyone start an operation.                                *)
(***************************************************************************)
Fairness ==
    /\ \A a \in Actors : WF_vars(CallStep(a))
    /\ WF_vars(ReaderStep)
    /\ WF_vars(ReadEnd("eof"))
    /\ WF_vars(MainStep)
    /\ SF_vars(HandlerReturns)
    /\ WF_vars(Tick)

FairSpec == Spec /\ Fairness
-----------------------------------------------------------------------------
(***************************************************************************)
(* Properties.                                                             *)
(***************************************************************************)

\* Between fetch_add and the insertion into `pending`.
Inserting(i) == \E a \in Actors : pc[a] = "insert" /\ cur[a] = i

InTable(i)  == i \in pending
InHand(i)   == \E a \in Actors : claim[a] = i
Answered(i) == delivered[i] # << >>

\* A response handler is never lost and never invoked twice: from the moment
\* it is registered it is in exactly one place - the pending table, the hands
\* of one thread that took it out (handle_response, cancel_rpc_request), or
\* spent after one invocation - whichever of an answer, a duplicate answer, a
\* timeout, a cancellation, a failed write or a disconnect comes first.
HandlerConserved ==
    \A i \in Ids :
        /\ Len(delivered[i]) <= 1
        /\ ~(InTable(i) /\ InHand(i))
        /\ Answered(i) => ~InTable(i) /\ ~InHand(i)
        /\ \A a, b \in Actors : claim[a] = i /\ claim[b] = i => a = b
        /\ i < nextId /\ ~Inserting(i) => InTable(i) \/ InHand(i) \/ Answered(i)

Holders ==
    {a \in Actors : /\ pc[a] \in {"insert", "send", "fail", "wait"}
                    /\ kind[cur[a]] \in {"sync", "timed"}}

\* Every missing permit is held by a thread that is inside a synchronous
\* request: a timeout, a failed write or a disconnect neither leaks a permit
\* nor returns one twice, so the reader's test available_permits() <
\* max_in_flight does tell whether a synchronous request is in flight.
PermitsAccounted == permits + Cardinality(Holders) = MaxInFlight

\* request_is_pending() never answers FALSE while a message is queued for the
\* main loop: rx_pending is raised before the message can be received, and
\* lowered only after it was.
QueuedIsPending == Len(msgq) <= rxPending

\* No lost wake-up: while the main loop sleeps in its select with tokens in
\* the idle queue, a notification is stored that ends the sleep.
IdleWakesLoop == loop = "select" /\ idleq # << >> => notify

\* The loop has met its end: the reader has read the end of the stream, a
\* broken message or a batch, or the main loop is past a failure of its own.
Ending == rmsg \in Ends \/ loop \in {"fatal", "disconnect"}

\* Every way the loop can meet its end disconnects: a request in the table at
\* that time or later, while the loop runs, is taken out and answered, however
\* the reader, the main loop, a shutdown and the permit in a caller's hands
\* interleave (disconnect_with_error).
RequestsResolve ==
    \A i \in Ids :
        (i \in pending /\ Ending /\ loop \notin {"off", "await"}) ~> (i \notin pending)

\* parse.rs says that a null id in an incoming message "is treated as a
\* notification", so that no such message keeps a registered request from
\* being resolved.
NullIdIsNotification ==
    \A i \in Ids :
        (i \in pending /\ ~needsExit /\ loop \notin {"off", "await"}) ~> (i \notin pending)

\* send_rpc_request_timeout returns, whatever the peer does.
TimedCallsReturn ==
    \A a \in Clients :
        (pc[a] = "acquireTimed" \/ cur[a] # NoId) ~> (pc[a] = "free")

\* Once exit is requested and the pipe closes, mainloop returns.
ShutdownEndsLoop == (needsExit /\ loop # "off") ~> (loop = "off")

\* A token in the idle queue is handed to the handler, unless the loop ends or
\* a timer is due again and again: due timers go before the idle queue.
IdleServed ==
    \A t \in Tokens :
        <>[]~Due =>
            ((\E n \in 1 .. Len(idleq) : idleq[n] = t) /\ loop # "off"
                ~> (token = t \/ loop = "off"))
=============================================================================
