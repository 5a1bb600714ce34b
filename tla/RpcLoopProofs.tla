--------------------------- MODULE RpcLoopProofs ---------------------------
(***************************************************************************)
(* Proofs about the run loop of crates/xi-rpc: every state is well typed,  *)
(* a response handler is neither lost nor invoked twice, a queued message  *)
(* is counted, a sleeping loop is woken, and the permits are balanced, for *)
(* every number of clients, permits, requests, messages and runs.          *)
(***************************************************************************)
EXTENDS RpcLoop, FiniteSetTheorems, TLAPS

(***************************************************************************)
(* The inductive invariant.  HandlerConserved alone is not inductive: it   *)
(* says nothing of the id a caller has drawn but not yet registered, nor   *)
(* of which thread may be holding a handler in its hands.                  *)
(***************************************************************************)
InCall(a) == pc[a] \in {"insert", "send", "fail", "wait"}

\* An actor has a current request exactly while it is inside a call.
CurInv == \A a \in Actors : InCall(a) <=> cur[a] # NoId

\* Two actors are never about the same request.
CurDistinct ==
    \A a, b \in Actors : cur[a] = cur[b] /\ cur[a] # NoId => a = b

\* A number that was not drawn from the counter is nowhere.
FreshInv ==
    \A i \in Ids : i >= nextId =>
        /\ i \notin pending
        /\ delivered[i] = << >>
        /\ \A a \in Actors : claim[a] # i /\ cur[a] # i

\* A handler that is still to be registered is nowhere either.
InsertInv ==
    \A a \in Actors : pc[a] = "insert" =>
        /\ cur[a] \notin pending
        /\ delivered[cur[a]] = << >>
        /\ \A b \in Actors : claim[b] # cur[a]

\* Who can be holding a handler: a thread inside cancel_rpc_request, or the
\* reader on its way from handle_response's lock to the invocation.
ClaimInv ==
    \A a \in Actors : claim[a] # NoId =>
        IF a = "reader" THEN rd = "invoke" /\ pc[a] = "free" ELSE pc[a] = "cancel"

\* The reader makes no peer calls but those of a callback, runs a callback
\* only after an answer or inside a disconnect, and is gone between two runs.
ReaderInv ==
    /\ pc["reader"] \notin {"acquireSync", "acquireTimed", "cancel", "shutdown", "notify"}
    /\ pc["reader"] # "free" => rd \in {"check", "disconnect"}
    /\ loop = "off" => rd \in {"off", "done", "panicked"}

\* What is on its way: only calls and read errors reach the channel, and the
\* loop ends with a read error.
FlowInv ==
    /\ rd \in {"permit", "disconnect"} => rmsg \in Ends
    /\ rd \in {"count", "enqueue"} => rmsg \in Calls \cup Ends
    /\ loop = "fatal" \/ (loop = "handler" /\ cont = "fatal")
          => item \in {"eof", "bad"}

IInv ==
    /\ TypeOK /\ FlowInv /\ CurInv /\ CurDistinct /\ FreshInv /\ InsertInv /\ ClaimInv
    /\ ReaderInv /\ HandlerConserved

\* The initial state of a new RpcLoop is well typed.
LEMMA InitType == Init => TypeOK
<1> SUFFICES ASSUME Init PROVE TypeOK
  OBVIOUS
<1> USE ConstantsAssumption DEF Init
<1>1. TypeTable
  BY DEF TypeTable, Ids, Outcomes
<1>2. TypeActors
  BY DEF TypeActors, CallPcs
<1>3. TypeReader
  BY DEF TypeReader, ReadPcs
<1>4. TypeLoop
  BY DEF TypeLoop, LoopPcs, Exits
<1>5. TypeChannel
  BY DEF TypeChannel
<1>6. TypeFlags
  BY Zenon DEF TypeFlags
<1>7. TypeIdle
  BY DEF TypeIdle
<1> QED
  BY <1>1, <1>2, <1>3, <1>4, <1>5, <1>6, <1>7 DEF TypeOK

\* What a step that is framed leaves well typed.
LEMMA FrameType ==
  ASSUME TypeOK
  PROVE  /\ UNCHANGED reqVars => TypeTable'
         /\ UNCHANGED actorVars => TypeActors'
         /\ UNCHANGED readVars => TypeReader'
         /\ UNCHANGED loopVars => TypeLoop'
         /\ UNCHANGED chanVars => TypeChannel' /\ needsExit' = needsExit
         /\ UNCHANGED idleVars => TypeIdle' /\ notify' = notify
         /\ UNCHANGED <<needsExit, notify>> => TypeFlags'
<1> USE DEF TypeOK
<1>1. UNCHANGED reqVars => TypeTable'
  BY DEF reqVars, TypeTable
<1>2. UNCHANGED actorVars => TypeActors'
  BY DEF actorVars, TypeActors
<1>3. UNCHANGED readVars => TypeReader'
  BY DEF readVars, TypeReader
<1>4. UNCHANGED loopVars => TypeLoop'
  BY DEF loopVars, TypeLoop
<1>5. UNCHANGED chanVars => TypeChannel' /\ needsExit' = needsExit
  BY DEF chanVars, TypeChannel
<1>6. UNCHANGED idleVars => TypeIdle' /\ notify' = notify
  BY DEF idleVars, TypeIdle
<1>7. UNCHANGED <<needsExit, notify>> => TypeFlags'
  BY Zenon DEF TypeFlags
<1> QED
  BY <1>1, <1>2, <1>3, <1>4, <1>5, <1>6, <1>7

\* A peer operation that stays within the table and its actor keeps the type.
LEMMA CallFrameType ==
  ASSUME TypeOK, CallFrame, TypeTable', TypeActors'
  PROVE  TypeOK'
  BY FrameType DEF CallFrame, TypeOK

\* Invoking handlers keeps the record of deliveries well typed.
LEMMA DeliverType ==
  ASSUME TypeOK, NEW D \in SUBSET Ids, NEW r \in Outcomes, DeliverTo(D, r)
  PROVE  delivered' \in [Ids -> Seq(Outcomes)]
  BY DEF TypeOK, TypeTable, DeliverTo

\* So does drawing a number from the request counter.
LEMMA AllocateType ==
  ASSUME TypeOK, NEW a \in Actors, NEW k \in {"sync", "timed", "async"}, Allocate(a, k)
  PROVE  /\ nextId' \in 0 .. MaxReq
         /\ kind' \in [Ids -> {"none", "sync", "timed", "async"}]
         /\ pc' \in [Actors -> CallPcs]
         /\ cur' \in [Actors -> Ids \cup {NoId}]
  BY ConstantsAssumption DEF Allocate, TypeOK, TypeActors, TypeTable, Ids, CallPcs

\* The peer operations that only touch the request table and their actor.
LEMMA TableStepType ==
  ASSUME TypeOK, CurInv, NEW a \in Actors,
         \/ StartWaiting(a) \/ StartAsync(a) \/ Acquire(a) \/ AcquireTimeout(a)
         \/ Insert(a) \/ SendOk(a) \/ SendFails(a) \/ WithdrawFailed(a)
         \/ WithdrawBlocks(a) \/ WaitReturns(a) \/ WaitTimesOut(a)
         \/ RequestShutdown(a) \/ DisconnectBlocks(a)
         \/ \E i \in Ids : Cancel(a, i)
  PROVE  TypeOK'
<1> SUFFICES TypeTable' /\ TypeActors' /\ CallFrame
  BY CallFrameType
<1> USE ConstantsAssumption DEF TypeOK
<1>1. CASE StartWaiting(a)
  BY <1>1, FrameType DEF StartWaiting, TypeActors, CallPcs
<1>2. CASE StartAsync(a)
  BY <1>2, AllocateType DEF StartAsync, TypeTable, TypeActors
<1>3. CASE Acquire(a)
  <2>1. permits' \in Nat
    BY <1>3 DEF Acquire, TypeTable
  <2> QED
    BY <1>3, <2>1, AllocateType DEF Acquire, TypeTable, TypeActors
<1>4. CASE AcquireTimeout(a)
  BY <1>4, FrameType DEF AcquireTimeout, TypeActors, CallPcs
<1>5. CASE Insert(a)
  BY <1>5 DEF Insert, CurInv, InCall, TypeTable, TypeActors, CallPcs
<1>6. CASE SendOk(a)
  <2>1. cur[a] \in Ids
    BY <1>6 DEF SendOk, CurInv, InCall, TypeActors
  <2>2. TypeTable'
    BY <1>6, <2>1 DEF SendOk, TypeTable
  <2>3. TypeActors'
    BY <1>6 DEF SendOk, AfterSend, TypeActors, CallPcs
  <2> QED
    BY <1>6, <2>2, <2>3 DEF SendOk
<1>7. CASE SendFails(a)
  BY <1>7, FrameType DEF SendFails, TypeActors, CallPcs
<1>8. CASE WithdrawFailed(a)
  <2>1. delivered' \in [Ids -> Seq(Outcomes)]
    BY <1>8, DeliverType DEF WithdrawFailed, TypeTable, Outcomes
  <2> QED
    BY <1>8, <2>1 DEF WithdrawFailed, AfterSend, TypeTable, TypeActors, CallPcs
<1>9. CASE WithdrawBlocks(a)
  <2>1. delivered' \in [Ids -> Seq(Outcomes)]
    BY <1>9, DeliverType DEF WithdrawBlocks, TypeTable, Outcomes
  <2> QED
    BY <1>9, <2>1, AllocateType DEF WithdrawBlocks, TypeTable, TypeActors
<1>10. CASE WaitReturns(a)
  BY <1>10 DEF WaitReturns, TypeTable, TypeActors, CallPcs
<1>11. CASE WaitTimesOut(a)
  BY <1>11 DEF WaitTimesOut, TypeTable, TypeActors, CallPcs
<1>12. CASE RequestShutdown(a)
  BY <1>12, FrameType DEF RequestShutdown, TypeActors, CallPcs
<1>13. CASE DisconnectBlocks(a)
  <2>1. DisconnectError(a) \in Outcomes
    BY DEF DisconnectError, Outcomes
  <2>2. delivered' \in [Ids -> Seq(Outcomes)] /\ pending' \subseteq Ids
    <3>1. PICK i \in pending : \E D \in SUBSET (pending \ {i}) :
             /\ DeliverTo(D \cup {i}, DisconnectError(a))
             /\ pending' = pending \ (D \cup {i})
      BY <1>13 DEF DisconnectBlocks
    <3>2. PICK D \in SUBSET (pending \ {i}) :
             /\ DeliverTo(D \cup {i}, DisconnectError(a))
             /\ pending' = pending \ (D \cup {i})
      BY <3>1
    <3>3. D \cup {i} \in SUBSET Ids
      BY <3>2 DEF TypeTable
    <3> QED
      BY <2>1, <3>2, <3>3, DeliverType DEF TypeTable
  <2> QED
    BY <1>13, <2>2, AllocateType DEF DisconnectBlocks, TypeTable, TypeActors
<1>14. CASE \E i \in Ids : Cancel(a, i)
  BY <1>14 DEF Cancel, TypeTable, TypeActors, CallPcs
<1> QED
  BY <1>1, <1>2, <1>3, <1>4, <1>5, <1>6, <1>7, <1>8, <1>9, <1>10, <1>11, <1>12,
     <1>13, <1>14

\* The operations that also move the reader, the loop or the idle state.
LEMMA OtherCallType ==
  ASSUME TypeOK, NEW a \in Actors,
         \/ Invoke(a) \/ InvokeChains(a) \/ Disconnect(a) \/ NotifyTimer(a)
         \/ \E t \in Tokens : ScheduleIdle(a, t) \/ CancelTimer(a, t)
         \/ \E t \in Tokens, at \in 0 .. MaxTime : ScheduleTimer(a, t, at)
  PROVE  TypeOK'
<1> USE ConstantsAssumption DEF TypeOK
<1>1. CASE Invoke(a)
  <2>1. delivered' \in [Ids -> Seq(Outcomes)]
    BY <1>1, DeliverType DEF Invoke, Claimed, ClaimOutcome, TypeActors, Outcomes
  <2>2. TypeTable' /\ TypeActors' /\ TypeReader'
    BY <1>1, <2>1 DEF Invoke, TypeTable, TypeActors, TypeReader, CallPcs, ReadPcs
  <2> QED
    BY <1>1, <2>2, FrameType DEF Invoke
<1>2. CASE InvokeChains(a)
  <2>1. delivered' \in [Ids -> Seq(Outcomes)]
    BY <1>2, DeliverType DEF InvokeChains, Claimed, ClaimOutcome, TypeActors, Outcomes
  <2>2. TypeTable' /\ TypeActors' /\ TypeReader'
    BY <1>2, <2>1, AllocateType
       DEF InvokeChains, TypeTable, TypeActors, TypeReader, ReadPcs
  <2> QED
    BY <1>2, <2>2, FrameType DEF InvokeChains
<1>3. CASE Disconnect(a)
  <2>1. DisconnectError(a) \in Outcomes
    BY DEF DisconnectError, Outcomes
  <2>2. delivered' \in [Ids -> Seq(Outcomes)]
    BY <1>3, <2>1, DeliverType DEF Disconnect, TypeTable
  <2>3. TypeTable' /\ TypeActors' /\ TypeReader'
    BY <1>3, <2>2 DEF Disconnect, TypeTable, TypeActors, TypeReader, CallPcs, ReadPcs
  <2>4. TypeLoop' /\ TypeChannel'
    BY <1>3 DEF Disconnect, TypeLoop, TypeChannel, LoopPcs
  <2>5. TypeIdle' /\ notify' = notify
    BY <1>3, FrameType DEF Disconnect
  <2>6. TypeFlags'
    BY <1>3, <2>5, Zenon DEF Disconnect, TypeFlags
  <2> QED
    BY <2>3, <2>4, <2>5, <2>6
<1>4. CASE NotifyTimer(a)
  <2>1. TypeActors' /\ TypeIdle'
    BY <1>4 DEF NotifyTimer, TypeActors, TypeIdle, CallPcs
  <2>2. TypeFlags'
    BY <1>4, Zenon DEF NotifyTimer, TypeFlags, chanVars
  <2> QED
    BY <1>4, <2>1, <2>2, FrameType DEF NotifyTimer
<1>5. ASSUME NEW t \in Tokens, ScheduleIdle(a, t)
      PROVE  TypeOK'
  <2>1. TypeIdle'
    BY <1>5 DEF ScheduleIdle, TypeIdle
  <2>2. TypeFlags'
    BY <1>5, Zenon DEF ScheduleIdle, TypeFlags, chanVars
  <2> QED
    BY <1>5, <2>1, <2>2, FrameType DEF ScheduleIdle
<1>6. ASSUME NEW t \in Tokens, CancelTimer(a, t)
      PROVE  TypeOK'
  <2>1. TypeIdle'
    BY <1>6 DEF CancelTimer, TypeIdle
  <2> QED
    BY <1>6, <2>1, FrameType DEF CancelTimer
<1>7. ASSUME NEW t \in Tokens, NEW at \in 0 .. MaxTime, ScheduleTimer(a, t, at)
      PROVE  TypeOK'
  <2>1. TypeIdle' /\ TypeActors'
    BY <1>7 DEF ScheduleTimer, TypeIdle, TypeActors, CallPcs, Timer
  <2> QED
    BY <1>7, <2>1, FrameType DEF ScheduleTimer
<1> QED
  BY <1>1, <1>2, <1>3, <1>4, <1>5, <1>6, <1>7

\* The reader thread.
LEMMA ReaderType ==
  ASSUME TypeOK, FlowInv, ReaderStep \/ ReadStep
  PROVE  TypeOK'
<1> USE ConstantsAssumption DEF TypeOK
<1>1. CASE ReaderCheck \/ ReaderPermitCheck \/ ReadNullId
  <2>1. TypeReader'
    BY <1>1 DEF ReaderCheck, ReaderPermitCheck, ReadNullId, TypeReader, ReadPcs
  <2> QED
    BY <1>1, <2>1, FrameType
       DEF ReaderCheck, ReaderPermitCheck, ReadNullId, ReaderFrame
<1>2. CASE ReaderCount
  <2>1. TypeReader' /\ TypeChannel'
    BY <1>2 DEF ReaderCount, TypeReader, TypeChannel, ReadPcs
  <2> QED
    BY <1>2, <2>1, FrameType DEF ReaderCount, ReaderFrame
<1>3. CASE ReaderEnqueue
  <2>1. TypeReader' /\ TypeChannel'
    BY <1>3 DEF FlowInv, ReaderEnqueue, TypeReader, TypeChannel, ReadPcs
  <2> QED
    BY <1>3, <2>1, FrameType DEF ReaderEnqueue, ReaderFrame
<1>4. CASE \E m \in Calls : ReadCall(m)
  <2>1. TypeReader'
    BY <1>4 DEF ReadCall, TypeReader, ReadPcs
  <2> QED
    BY <1>4, <2>1, FrameType DEF ReadCall, ReaderFrame
<1>5. CASE \E m \in Ends : ReadEnd(m)
  <2>1. TypeReader'
    BY <1>5 DEF ReadEnd, TypeReader, ReadPcs
  <2> QED
    BY <1>5, <2>1, FrameType DEF ReadEnd, ReaderFrame
<1>6. ASSUME NEW i \in Ids, NEW m \in Replies, ReadResponse(i, m)
      PROVE  TypeOK'
  <2>1. TypeReader' /\ TypeTable' /\ TypeActors'
    BY <1>6 DEF ReadResponse, TypeReader, TypeTable, TypeActors, ReadPcs, Actors
  <2> QED
    BY <1>6, <2>1, FrameType DEF ReadResponse
<1> QED
  BY <1>1, <1>2, <1>3, <1>4, <1>5, <1>6 DEF ReaderStep, ReadStep

\* The main loop.
LEMMA MainType ==
  ASSUME TypeOK, FlowInv, MainStep \/ StartLoop \/ HandlerPanics \/ Tick
  PROVE  TypeOK'
<1> USE ConstantsAssumption DEF TypeOK
<1>1. CASE TimerFires
  <2>1. TypeLoop' /\ TypeIdle'
    BY <1>1 DEF TimerFires, RunHandler, TypeLoop, TypeIdle, LoopPcs, Timer
  <2> QED
    BY <1>1, <2>1, FrameType DEF TimerFires, MainFrame
<1>2. CASE IdleRuns
  <2>1. TypeLoop' /\ TypeIdle'
    BY <1>2 DEF IdleRuns, RunHandler, TypeLoop, TypeIdle, LoopPcs
  <2> QED
    BY <1>2, <2>1, FrameType DEF IdleRuns, MainFrame
<1>3. CASE TimersDrained \/ IdleDrained \/ Slept \/ DispatchInvalid \/ RespondOk
  <2>1. TypeLoop'
    BY <1>3 DEF TimersDrained, IdleDrained, Slept, DispatchInvalid, RespondOk,
                GoTo, TypeLoop, LoopPcs
  <2> QED
    BY <1>3, <2>1, FrameType
       DEF TimersDrained, IdleDrained, Slept, DispatchInvalid, RespondOk,
           MainFrame
<1>4. CASE ComputeSleep
  <2>1. TypeLoop'
    BY <1>4 DEF ComputeSleep, GoTo, TypeLoop, LoopPcs
  <2>2. TypeIdle'
    <3>1. \A r \in Timer : r.at \in Nat
      BY DEF Timer
    <3> QED
      BY <1>4, <3>1 DEF ComputeSleep, Imminent, TypeIdle
  <2> QED
    BY <1>4, <2>1, <2>2, FrameType DEF ComputeSleep, MainFrame
<1>5. CASE Receive
  <2>1. TypeLoop' /\ TypeChannel'
    BY <1>5 DEF Receive, TypeLoop, TypeChannel, LoopPcs
  <2> QED
    BY <1>5, <2>1, FrameType DEF Receive, MainFrame
<1>6. CASE ChannelClosed \/ Fatal \/ RespondFails \/ DispatchBatch
  <2>1. TypeLoop'
    BY <1>6 DEF FlowInv, ChannelClosed, Fatal, RespondFails, DispatchBatch, Leave,
                TypeLoop, LoopPcs, Exits
  <2> QED
    BY <1>6, <2>1, FrameType
       DEF ChannelClosed, Fatal, RespondFails, DispatchBatch, MainFrame
<1>7. CASE Woken
  <2>1. TypeLoop' /\ TypeIdle'
    BY <1>7 DEF Woken, GoTo, TypeLoop, TypeIdle, LoopPcs
  <2>2. TypeFlags'
    BY <1>7, Zenon DEF Woken, TypeFlags, chanVars
  <2> QED
    BY <1>7, <2>1, <2>2, FrameType DEF Woken, MainFrame
<1>8. CASE Uncount
  <2>1. TypeLoop' /\ TypeChannel'
    BY <1>8 DEF Uncount, GoTo, TypeLoop, TypeChannel, LoopPcs
  <2> QED
    BY <1>8, <2>1, FrameType DEF Uncount, MainFrame
<1>9. CASE DispatchCall
  <2>1. TypeLoop'
    BY <1>9 DEF DispatchCall, RunHandler, TypeLoop, LoopPcs
  <2> QED
    BY <1>9, <2>1, FrameType DEF DispatchCall, MainFrame
<1>10. CASE DispatchError
  <2>1. TypeLoop' /\ TypeIdle'
    BY <1>10 DEF DispatchError, RunHandler, TypeLoop, TypeIdle, LoopPcs
  <2> QED
    BY <1>10, <2>1, FrameType DEF DispatchError, MainFrame
<1>11. CASE HandlerReturns \/ HandlerPanics \/ LoopReturns
  <2>1. TypeLoop'
    BY <1>11 DEF HandlerReturns, HandlerPanics, LoopReturns, TypeLoop, LoopPcs, Exits
  <2> QED
    BY <1>11, <2>1, FrameType DEF HandlerReturns, HandlerPanics, LoopReturns, MainFrame
<1>12. CASE StartLoop
  <2>1. TypeReader' /\ TypeLoop' /\ TypeChannel'
    BY <1>12 DEF StartLoop, TypeReader, TypeLoop, TypeChannel, ReadPcs, LoopPcs, Exits
  <2>2. TypeIdle' /\ notify' = notify
    BY <1>12, FrameType DEF StartLoop
  <2>3. TypeFlags'
    BY <1>12, <2>2, Zenon DEF StartLoop, TypeFlags
  <2> QED
    BY <1>12, <2>1, <2>2, <2>3, FrameType DEF StartLoop
<1>13. CASE Tick
  <2>1. TypeIdle'
    BY <1>13 DEF Tick, TypeIdle
  <2> QED
    BY <1>13, <2>1, FrameType DEF Tick
<1> QED
  BY <1>1, <1>2, <1>3, <1>4, <1>5, <1>6, <1>7, <1>8, <1>9, <1>10, <1>11, <1>12,
     <1>13 DEF MainStep

\* What is on its way, and where the reader is: the peer operations.
LEMMA CallFlow ==
  ASSUME TypeOK, FlowInv, ReaderInv, ClaimInv, NEW a \in Actors,
         CallStep(a) \/ StartStep(a)
  PROVE  FlowInv' /\ ReaderInv'
<1> USE ConstantsAssumption DEF TypeOK, TypeActors, Actors
<1>1. UNCHANGED <<readVars, loopVars>> => FlowInv'
  BY DEF readVars, loopVars, FlowInv
<1>2. CASE \/ StartWaiting(a) \/ StartAsync(a) \/ RequestShutdown(a)
           \/ \E i \in Ids : Cancel(a, i)
           \/ \E t \in Tokens : ScheduleIdle(a, t) \/ CancelTimer(a, t)
           \/ \E t \in Tokens, at \in 0 .. MaxTime : ScheduleTimer(a, t, at)
  <2>1. a # "reader" /\ UNCHANGED <<readVars, loopVars>>
    BY <1>2 DEF StartWaiting, StartAsync, RequestShutdown, Cancel, ScheduleIdle,
                CancelTimer, ScheduleTimer, MayCall, CallFrame
  <2>2. pc'["reader"] = pc["reader"]
    BY <1>2, <2>1 DEF StartWaiting, StartAsync, RequestShutdown, Cancel, ScheduleIdle,
                CancelTimer, ScheduleTimer, Allocate, actorVars
  <2> QED
    BY <1>1, <2>1, <2>2 DEF ReaderInv, readVars, loopVars
<1>3. CASE \/ Acquire(a) \/ AcquireTimeout(a) \/ Insert(a) \/ SendOk(a)
           \/ SendFails(a) \/ WithdrawFailed(a) \/ WithdrawBlocks(a)
           \/ WaitReturns(a) \/ WaitTimesOut(a) \/ DisconnectBlocks(a)
           \/ NotifyTimer(a)
  <2>1. UNCHANGED <<readVars, loopVars>>
    BY <1>3 DEF Acquire, AcquireTimeout, Insert, SendOk, SendFails, WithdrawFailed,
                WithdrawBlocks, WaitReturns, WaitTimesOut, DisconnectBlocks,
                NotifyTimer, CallFrame
  <2>2. pc'["reader"] \in {pc["reader"], "insert", "send", "fail", "wait", "free"}
    BY <1>3 DEF Acquire, AcquireTimeout, Insert, SendOk, SendFails, WithdrawFailed,
                WithdrawBlocks, WaitReturns, WaitTimesOut, DisconnectBlocks,
                NotifyTimer, Allocate, AfterSend
  <2>3. pc'["reader"] # "free" => pc["reader"] # "free" \/ rd = "disconnect"
    BY <1>3 DEF Acquire, AcquireTimeout, Insert, SendOk, SendFails, WithdrawFailed,
                WithdrawBlocks, WaitReturns, WaitTimesOut, DisconnectBlocks,
                NotifyTimer, Allocate, AfterSend, AtDisconnect, ReaderInv
  <2> QED
    BY <1>1, <2>1, <2>2, <2>3 DEF ReaderInv, readVars, loopVars
<1>4. CASE Invoke(a) \/ InvokeChains(a)
  <2>1. /\ UNCHANGED <<rmsg, loopVars>>
        /\ rd' = IF a = "reader" THEN "check" ELSE rd
    BY <1>4 DEF Invoke, InvokeChains
  <2>2. pc'["reader"] \in {pc["reader"], "insert", "free"}
    BY <1>4 DEF Invoke, InvokeChains, Allocate
  <2>3. a = "reader" => loop # "off"
    BY <1>4 DEF Invoke, InvokeChains, Claimed, ClaimInv, ReaderInv
  <2>4. a # "reader" => pc'["reader"] = pc["reader"]
    BY <1>4 DEF Invoke, InvokeChains, Allocate
  <2> QED
    BY <2>1, <2>2, <2>3, <2>4 DEF FlowInv, ReaderInv, loopVars
<1>5. CASE Disconnect(a)
  BY <1>5 DEF Disconnect, AtDisconnect, FlowInv, ReaderInv
<1> QED
  BY <1>2, <1>3, <1>4, <1>5 DEF CallStep, StartStep

\* ... and the two loops.
LEMMA LoopFlow ==
  ASSUME TypeOK, FlowInv, ReaderInv,
         \/ ReaderStep \/ ReadStep
         \/ MainStep \/ StartLoop \/ HandlerPanics \/ Tick
  PROVE  FlowInv' /\ ReaderInv'
<1> USE ConstantsAssumption DEF FlowInv, ReaderInv
<1>1. CASE \/ ReaderStep \/ ReadNullId
           \/ \E m \in Calls : ReadCall(m)
           \/ \E m \in Ends : ReadEnd(m)
  BY <1>1 DEF ReaderStep, ReaderCheck, ReaderPermitCheck, ReaderCount, ReaderEnqueue,
              ReadCall, ReadEnd, ReadNullId, ReaderFrame, actorVars, loopVars
<1>2. CASE \E i \in Ids, m \in Replies : ReadResponse(i, m)
  BY <1>2 DEF ReadResponse, loopVars
<1>3. CASE MainStep \/ HandlerPanics
  <2>1. UNCHANGED <<readVars, actorVars>>
    BY <1>3 DEF MainStep, HandlerPanics, TimerFires, TimersDrained, IdleRuns,
       IdleDrained, ComputeSleep, Receive, ChannelClosed, Woken, Slept, Uncount,
       DispatchCall, DispatchInvalid, DispatchBatch, DispatchError, Fatal,
       HandlerReturns, RespondOk, RespondFails, LoopReturns, MainFrame
  <2>2. loop' = "off" => rd \in {"off", "done", "panicked"}
    BY <1>3 DEF MainStep, HandlerPanics, TimerFires, TimersDrained, IdleRuns,
       IdleDrained, ComputeSleep, Receive, ChannelClosed, Woken, Slept, Uncount,
       DispatchCall, DispatchInvalid, DispatchBatch, DispatchError, Fatal,
       HandlerReturns, RespondOk, RespondFails, LoopReturns, ReaderClosed, GoTo,
       Leave, RunHandler, TypeOK, TypeLoop
  <2>3. loop' = "fatal" \/ (loop' = "handler" /\ cont' = "fatal")
           => item' \in {"eof", "bad"}
    BY <1>3 DEF MainStep, HandlerPanics, TimerFires, TimersDrained, IdleRuns,
       IdleDrained, ComputeSleep, Receive, ChannelClosed, Woken, Slept, Uncount,
       DispatchCall, DispatchInvalid, DispatchBatch, DispatchError, Fatal,
       HandlerReturns, RespondOk, RespondFails, LoopReturns, GoTo, Leave,
       RunHandler
  <2> QED
    BY <2>1, <2>2, <2>3 DEF readVars, actorVars
<1>4. CASE StartLoop \/ Tick
  BY <1>4 DEF StartLoop, Tick, readVars, loopVars, actorVars
<1> QED
  BY <1>1, <1>2, <1>3, <1>4 DEF ReadStep

\* The handlers' whereabouts do not depend on anything but these variables.
Where == <<nextId, pending, delivered, pc, cur, claim>>

Conserve ==
    CurInv /\ CurDistinct /\ FreshInv /\ InsertInv /\ ClaimInv /\ HandlerConserved

\* A step that moves no handler keeps all of it; only the reader may leave
\* "invoke".
LEMMA ConserveFrame ==
  ASSUME Conserve, UNCHANGED Where, rd = "invoke" => rd' = "invoke"
  PROVE  Conserve'
<1> USE DEF Conserve, Where
<1>1. CurInv' /\ CurDistinct'
  BY DEF CurInv, CurDistinct, InCall
<1>2. FreshInv' /\ InsertInv'
  BY DEF FreshInv, InsertInv
<1>3. ClaimInv'
  BY DEF ClaimInv
<1>4. HandlerConserved'
  BY DEF HandlerConserved, InTable, InHand, Answered, Inserting
<1> QED
  BY <1>1, <1>2, <1>3, <1>4

\* Invoking handlers that were not invoked before.
LEMMA DeliverOnce ==
  ASSUME TypeOK, NEW D \in SUBSET Ids, NEW r \in Outcomes, DeliverTo(D, r),
         \A i \in D : delivered[i] = << >>
  PROVE  \A i \in Ids :
            /\ i \in D => Len(delivered'[i]) = 1 /\ delivered'[i] # << >>
            /\ i \notin D => delivered'[i] = delivered[i]
  BY SMTT(20) DEF TypeOK, TypeTable, DeliverTo

\* Actor a invokes the handlers in D, which it took out of the table or had
\* in its hands; D may be empty.
Resolves(a, D) ==
    /\ \A i \in D : i \in pending \/ claim[a] = i
    /\ claim[a] # NoId => claim[a] \in D
    /\ pending' = pending \ D
    /\ claim' = [claim EXCEPT ![a] = NoId]
    /\ \A i \in Ids :
          /\ i \in D => Len(delivered'[i]) = 1 /\ delivered'[i] # << >>
          /\ i \notin D => delivered'[i] = delivered[i]
    /\ a # "reader" => rd' = rd

\* A step in which an actor resolves handlers and does not draw a number.
LEMMA ResolveConserve ==
  ASSUME TypeOK, Conserve, NEW a \in Actors, NEW D \in SUBSET Ids, Resolves(a, D),
         NEW p \in CallPcs \ {"insert"}, pc[a] # "insert",
         pc' = [pc EXCEPT ![a] = p],
         \/ cur' = cur
         \/ cur' = [cur EXCEPT ![a] = NoId],
         p \in {"send", "fail", "wait"} <=> cur'[a] # NoId,
         nextId' = nextId
  PROVE  Conserve'
<1> USE DEF Conserve, Resolves, TypeOK, TypeActors
<1>0. NoId \notin Ids
  BY DEF NoId, Ids
<1>1. CurInv' /\ CurDistinct'
  BY DEF CurInv, CurDistinct, InCall
<1>2. FreshInv'
  BY <1>0 DEF FreshInv
<1>3. InsertInv'
  BY <1>0 DEF InsertInv, CurInv, InCall
<1>4. ClaimInv'
  BY DEF ClaimInv
<1>5. HandlerConserved'
  <2> SUFFICES ASSUME NEW i \in Ids
               PROVE  /\ Len(delivered'[i]) <= 1
                      /\ ~(InTable(i)' /\ InHand(i)')
                      /\ Answered(i)' => ~InTable(i)' /\ ~InHand(i)'
                      /\ \A b, c \in Actors : claim'[b] = i /\ claim'[c] = i => b = c
                      /\ i < nextId' /\ ~Inserting(i)'
                            => InTable(i)' \/ InHand(i)' \/ Answered(i)'
    BY DEF HandlerConserved
  <2> USE DEF InTable, InHand, Answered
  <2>1. i \in D => i \in pending \/ claim[a] = i
    OBVIOUS
  <2>2. InTable(i)' => InTable(i) /\ i \notin D
    OBVIOUS
  <2>3. InHand(i)' => InHand(i) /\ i \notin D
    BY <1>0, <2>1 DEF HandlerConserved
  <2>4. Answered(i)' <=> Answered(i) \/ i \in D
    OBVIOUS
  <2>5. Len(delivered'[i]) <= 1 /\ ~(InTable(i)' /\ InHand(i)')
    <3>1. Len(delivered'[i]) <= 1
      <4>1. Len(delivered[i]) <= 1
        BY DEF HandlerConserved
      <4>2. CASE i \in D
        <5>1. Len(delivered'[i]) = 1
          BY <4>2
        <5> QED
          BY ONLY <5>1
      <4>3. CASE i \notin D
        <5>1. delivered'[i] = delivered[i]
          BY <4>3
        <5> QED
          BY ONLY <4>1, <5>1
      <4> QED
        BY ONLY <4>2, <4>3
    <3>2. ~(InTable(i)' /\ InHand(i)')
      BY <2>2, <2>3 DEF HandlerConserved
    <3> QED
      BY <3>1, <3>2
  <2>6. Answered(i)' => ~InTable(i)' /\ ~InHand(i)'
    BY <2>2, <2>3, <2>4 DEF HandlerConserved
  <2>7. \A b, c \in Actors : claim'[b] = i /\ claim'[c] = i => b = c
    BY <1>0 DEF HandlerConserved
  <2>8. Inserting(i) => Inserting(i)'
    BY DEF Inserting
  <2>9. InTable(i) \/ InHand(i) => InTable(i)' \/ InHand(i)' \/ Answered(i)'
    BY <1>0, <2>4
  <2> QED
    BY <2>4, <2>5, <2>6, <2>7, <2>8, <2>9 DEF HandlerConserved
<1> QED
  BY <1>1, <1>2, <1>3, <1>4, <1>5

\* A step in which an actor resolves handlers and draws a number.
LEMMA AllocateConserve ==
  ASSUME TypeOK, Conserve, NEW a \in Actors, NEW D \in SUBSET Ids, Resolves(a, D),
         NEW k, Allocate(a, k), pc[a] # "insert"
  PROVE  Conserve'
<1> USE DEF Conserve, Resolves, TypeOK, TypeActors
<1>0. NoId \notin Ids /\ Ids \subseteq Int
  BY ConstantsAssumption DEF NoId, Ids
<1>1. nextId \in Ids /\ nextId' = nextId + 1
  BY ConstantsAssumption DEF Allocate, TypeTable, Ids
<1>2. /\ cur' = [cur EXCEPT ![a] = nextId]
      /\ pc' = [pc EXCEPT ![a] = "insert"]
  BY DEF Allocate
<1>3. CurInv' /\ CurDistinct'
  BY <1>0, <1>1, <1>2 DEF CurInv, CurDistinct, InCall, FreshInv
<1>4. FreshInv'
  BY <1>0, <1>1, <1>2 DEF FreshInv
<1>5. InsertInv'
  <2> SUFFICES ASSUME NEW b \in Actors, pc'[b] = "insert"
               PROVE  /\ cur'[b] \notin pending'
                      /\ delivered'[cur'[b]] = << >>
                      /\ \A c \in Actors : claim'[c] # cur'[b]
    BY DEF InsertInv
  <2>1. CASE b = a
    <3>1. cur'[b] = nextId /\ nextId \notin pending /\ delivered[nextId] = << >>
      BY <1>0, <1>1, <1>2, <2>1 DEF FreshInv
    <3>2. \A c \in Actors : claim[c] # nextId
      <4>1. nextId >= nextId
        BY <1>0, <1>1
      <4> QED
        BY <1>1, <4>1, Zenon DEF FreshInv
    <3> QED
      BY <1>0, <1>1, <3>1, <3>2
  <2>2. CASE b # a
    <3>1. cur'[b] = cur[b] /\ cur[b] \in Ids /\ pc[b] = "insert"
      BY <1>2, <2>2 DEF CurInv, InCall
    <3>2. cur[b] \notin D
      BY <3>1 DEF InsertInv
    <3>3. /\ cur[b] \notin pending /\ delivered[cur[b]] = << >>
          /\ \A c \in Actors : claim[c] # cur[b]
      BY <3>1 DEF InsertInv
    <3> QED
      BY <1>0, <3>1, <3>2, <3>3
  <2> QED
    BY <2>1, <2>2
<1>6. ClaimInv'
  BY <1>2 DEF ClaimInv
<1>7. HandlerConserved'
  <2> SUFFICES ASSUME NEW i \in Ids
               PROVE  /\ Len(delivered'[i]) <= 1
                      /\ ~(InTable(i)' /\ InHand(i)')
                      /\ Answered(i)' => ~InTable(i)' /\ ~InHand(i)'
                      /\ \A b, c \in Actors : claim'[b] = i /\ claim'[c] = i => b = c
                      /\ i < nextId' /\ ~Inserting(i)'
                            => InTable(i)' \/ InHand(i)' \/ Answered(i)'
    BY DEF HandlerConserved
  <2> USE DEF InTable, InHand, Answered
  <2>1. i \in D => i \in pending \/ claim[a] = i
    OBVIOUS
  <2>2. InTable(i)' => InTable(i) /\ i \notin D
    OBVIOUS
  <2>3. InHand(i)' => InHand(i) /\ i \notin D
    BY <1>0, <2>1 DEF HandlerConserved
  <2>4. Answered(i)' <=> Answered(i) \/ i \in D
    OBVIOUS
  <2>5. Len(delivered'[i]) <= 1 /\ ~(InTable(i)' /\ InHand(i)')
    <3>1. Len(delivered'[i]) <= 1
      <4>1. Len(delivered[i]) <= 1
        BY DEF HandlerConserved
      <4>2. CASE i \in D
        <5>1. Len(delivered'[i]) = 1
          BY <4>2
        <5> QED
          BY ONLY <5>1
      <4>3. CASE i \notin D
        <5>1. delivered'[i] = delivered[i]
          BY <4>3
        <5> QED
          BY ONLY <4>1, <5>1
      <4> QED
        BY ONLY <4>2, <4>3
    <3>2. ~(InTable(i)' /\ InHand(i)')
      BY <2>2, <2>3 DEF HandlerConserved
    <3> QED
      BY <3>1, <3>2
  <2>6. Answered(i)' => ~InTable(i)' /\ ~InHand(i)'
    BY <2>2, <2>3, <2>4 DEF HandlerConserved
  <2>7. \A b, c \in Actors : claim'[b] = i /\ claim'[c] = i => b = c
    BY <1>0 DEF HandlerConserved
  <2>8. /\ Inserting(i) => Inserting(i)'
        /\ i = nextId => Inserting(i)'
    BY <1>2 DEF Inserting
  <2>9. InTable(i) \/ InHand(i) => InTable(i)' \/ InHand(i)' \/ Answered(i)'
    BY <1>0, <2>4
  <2>10. i < nextId' => i < nextId \/ i = nextId
    BY <1>0, <1>1
  <2> QED
    BY <2>4, <2>5, <2>6, <2>7, <2>8, <2>9, <2>10 DEF HandlerConserved
<1> QED
  BY <1>3, <1>4, <1>5, <1>6, <1>7

\* Steps that move no handler: the actor changes place inside its operation.
LEMMA QuietConserve ==
  ASSUME TypeOK, Conserve, NEW a \in Actors,
         UNCHANGED <<nextId, pending, delivered, claim, rd>>, claim[a] = NoId,
         NEW p \in CallPcs \ {"insert"}, pc[a] # "insert",
         pc' = [pc EXCEPT ![a] = p],
         \/ cur' = cur
         \/ cur' = [cur EXCEPT ![a] = NoId],
         p \in {"send", "fail", "wait"} <=> cur'[a] # NoId
  PROVE  Conserve'
<1>1. claim' = [claim EXCEPT ![a] = NoId]
  BY DEF TypeOK, TypeActors
<1>2. Resolves(a, {})
  BY <1>1 DEF Resolves
<1> QED
  BY <1>2, ResolveConserve

\* Only a thread that cancels, and the reader between the lock and the call,
\* has a handler in its hands.
LEMMA NoClaim ==
  ASSUME Conserve, NEW a \in Actors, pc[a] # "cancel",
         a = "reader" => rd # "invoke" \/ pc[a] # "free"
  PROVE  claim[a] = NoId
  BY DEF Conserve, ClaimInv

\* The operations that neither touch the table nor draw a number.
LEMMA QuietStep ==
  ASSUME TypeOK, Conserve, ReaderInv, NEW a \in Actors,
         \/ StartWaiting(a) \/ AcquireTimeout(a) \/ SendOk(a) \/ SendFails(a)
         \/ WaitReturns(a) \/ WaitTimesOut(a) \/ RequestShutdown(a)
         \/ NotifyTimer(a)
         \/ \E t \in Tokens, at \in 0 .. MaxTime : ScheduleTimer(a, t, at)
  PROVE  Conserve'
<1> USE ConstantsAssumption
<1>1. /\ UNCHANGED <<nextId, pending, delivered, claim, rd>>
      /\ pc[a] \notin {"insert", "cancel"}
      /\ pc[a] = "free" => a # "reader"
  BY DEF StartWaiting, AcquireTimeout, SendOk, SendFails, WaitReturns, WaitTimesOut,
         RequestShutdown, NotifyTimer, ScheduleTimer, CallFrame, reqVars, readVars,
         MayCall, Actors
<1>2. claim[a] = NoId
  BY <1>1, NoClaim
<1>3. InCall(a) <=> cur[a] # NoId
  BY DEF Conserve, CurInv
<1>4. CASE StartWaiting(a)
  <2>1. PICK p \in {"acquireSync", "acquireTimed"} : pc' = [pc EXCEPT ![a] = p]
    BY <1>4 DEF StartWaiting
  <2> QED
    BY <1>1, <1>2, <1>3, <1>4, <2>1, QuietConserve DEF StartWaiting, MayCall, InCall, CallPcs
<1>5. CASE AcquireTimeout(a)
  BY <1>1, <1>2, <1>3, <1>5, QuietConserve DEF AcquireTimeout, InCall, CallPcs
<1>6. CASE SendOk(a)
  <2>1. CASE kind[cur[a]] = "async"
    BY <1>1, <1>2, <1>6, <2>1, QuietConserve
       DEF SendOk, AfterSend, CallPcs, TypeOK, TypeActors
  <2>2. CASE kind[cur[a]] # "async"
    BY <1>1, <1>2, <1>3, <1>6, <2>2, QuietConserve DEF SendOk, AfterSend, InCall, CallPcs
  <2> QED
    BY <2>1, <2>2
<1>7. CASE SendFails(a)
  BY <1>1, <1>2, <1>3, <1>7, QuietConserve DEF SendFails, InCall, CallPcs
<1>8. CASE WaitReturns(a) \/ WaitTimesOut(a)
  BY <1>1, <1>2, <1>8, QuietConserve
     DEF WaitReturns, WaitTimesOut, CallPcs, TypeOK, TypeActors
<1>9. CASE RequestShutdown(a)
  BY <1>1, <1>2, <1>3, <1>9, QuietConserve DEF RequestShutdown, MayCall, InCall, CallPcs
<1>10. CASE NotifyTimer(a)
  BY <1>1, <1>2, <1>3, <1>10, QuietConserve DEF NotifyTimer, InCall, CallPcs
<1>11. CASE \E t \in Tokens, at \in 0 .. MaxTime : ScheduleTimer(a, t, at)
  BY <1>1, <1>2, <1>3, <1>11, QuietConserve DEF ScheduleTimer, MayCall, InCall, CallPcs
<1> QED
  BY <1>4, <1>5, <1>6, <1>7, <1>8, <1>9, <1>10, <1>11

\* The handlers in the table and in hand were not invoked yet.
LEMMA NotYetInvoked ==
  ASSUME TypeOK, Conserve
  PROVE  /\ \A i \in pending : delivered[i] = << >>
         /\ \A a \in Actors : claim[a] # NoId => delivered[claim[a]] = << >>
  BY DEF TypeOK, TypeTable, TypeActors, Conserve, HandlerConserved, InTable, InHand, Answered

\* The operations that draw a number without resolving a handler.
LEMMA DrawStep ==
  ASSUME TypeOK, Conserve, ReaderInv, NEW a \in Actors, StartAsync(a) \/ Acquire(a)
  PROVE  Conserve'
<1>1. /\ UNCHANGED <<pending, delivered, claim, rd>>
      /\ pc[a] \notin {"insert", "cancel"}
      /\ a # "reader"
  BY ConstantsAssumption
     DEF StartAsync, Acquire, CallFrame, readVars, MayCall, ReaderInv
<1>2. claim[a] = NoId
  BY <1>1, NoClaim
<1>3. Resolves(a, {})
  BY <1>1, <1>2 DEF Resolves, TypeOK, TypeActors
<1> QED
  BY <1>1, <1>3, AllocateConserve DEF StartAsync, Acquire

\* A failed write: the caller invokes its own handler, if it is still there.
LEMMA WithdrawStep ==
  ASSUME TypeOK, Conserve, NEW a \in Actors, WithdrawFailed(a) \/ WithdrawBlocks(a)
  PROVE  Conserve'
<1>1. /\ UNCHANGED <<claim, rd>>
      /\ pc[a] = "fail"
  BY DEF WithdrawFailed, WithdrawBlocks, CallFrame, readVars
<1>2. claim[a] = NoId
  BY <1>1, NoClaim
<1>3. claim' = [claim EXCEPT ![a] = NoId]
  BY <1>1, <1>2 DEF TypeOK, TypeActors
<1>4. cur[a] \in Ids
  BY <1>1 DEF Conserve, CurInv, InCall, TypeOK, TypeActors
<1>5. CASE WithdrawFailed(a)
  <2> DEFINE D == {cur[a]} \cap pending
  <2>1. D \in SUBSET Ids /\ pending' = pending \ D
    BY <1>4, <1>5 DEF WithdrawFailed
  <2>2. \A i \in D : delivered[i] = << >>
    BY NotYetInvoked
  <2>3. DeliverTo(D, "io") /\ "io" \in Outcomes
    BY <1>5 DEF WithdrawFailed, Outcomes
  <2>4. Resolves(a, D)
    <3> HIDE DEF D
    <3>1. \A i \in Ids :
             /\ i \in D => Len(delivered'[i]) = 1 /\ delivered'[i] # << >>
             /\ i \notin D => delivered'[i] = delivered[i]
      BY <2>1, <2>2, <2>3, DeliverOnce
    <3> QED
      BY <1>1, <1>2, <1>3, <2>1, <3>1 DEF Resolves, D
  <2>5. nextId' = nextId
    BY <1>5 DEF WithdrawFailed
  <2> HIDE DEF D
  <2>6. CASE kind[cur[a]] = "async"
    BY <1>1, <1>5, <2>1, <2>4, <2>5, <2>6, ResolveConserve
       DEF WithdrawFailed, AfterSend, CallPcs, TypeOK, TypeActors
  <2>7. CASE kind[cur[a]] # "async"
    BY <1>1, <1>4, <1>5, <2>1, <2>4, <2>5, <2>7, ResolveConserve
       DEF WithdrawFailed, AfterSend, CallPcs, NoId, Ids
  <2> QED
    BY <2>6, <2>7
<1>6. CASE WithdrawBlocks(a)
  <2> DEFINE D == {cur[a]}
  <2>1. D \in SUBSET Ids /\ D \subseteq pending /\ pending' = pending \ D
    BY <1>4, <1>6 DEF WithdrawBlocks
  <2>2. \A i \in D : delivered[i] = << >>
    BY <2>1, NotYetInvoked
  <2>3. DeliverTo(D, "io") /\ "io" \in Outcomes
    BY <1>6 DEF WithdrawBlocks, Outcomes
  <2> HIDE DEF D
  <2>4. Resolves(a, D)
    <3>1. \A i \in Ids :
             /\ i \in D => Len(delivered'[i]) = 1 /\ delivered'[i] # << >>
             /\ i \notin D => delivered'[i] = delivered[i]
      BY <2>1, <2>2, <2>3, DeliverOnce
    <3> QED
      BY <1>1, <1>2, <1>3, <2>1, <3>1 DEF Resolves
  <2> QED
    BY <1>1, <1>6, <2>1, <2>4, AllocateConserve DEF WithdrawBlocks
<1> QED
  BY <1>5, <1>6

\* The tail of cancel_rpc_request and of handle_response.
LEMMA InvokeStep ==
  ASSUME TypeOK, Conserve, NEW a \in Actors, Invoke(a) \/ InvokeChains(a)
  PROVE  Conserve'
<1> DEFINE D == {claim[a]}
<1>1. /\ claim[a] \in Ids
      /\ pc[a] \in {"cancel", "free"}
      /\ claim' = [claim EXCEPT ![a] = NoId]
      /\ pending' = pending
      /\ a # "reader" => rd' = rd
  BY DEF Invoke, InvokeChains, Claimed, TypeOK, TypeActors, Conserve, ClaimInv
<1>2. D \in SUBSET Ids /\ \A i \in D : delivered[i] = << >>
  BY <1>1, NotYetInvoked DEF Invoke, InvokeChains, Claimed
<1>3. DeliverTo(D, ClaimOutcome(a)) /\ ClaimOutcome(a) \in Outcomes
  BY DEF Invoke, InvokeChains, ClaimOutcome, Outcomes
<1>4. claim[a] \notin pending
  BY <1>1 DEF Conserve, HandlerConserved, InTable, InHand
<1>5. Resolves(a, D)
  <2>1. \A i \in Ids :
           /\ i \in D => Len(delivered'[i]) = 1 /\ delivered'[i] # << >>
           /\ i \notin D => delivered'[i] = delivered[i]
    <3> HIDE DEF D
    <3> QED
      BY <1>2, <1>3, DeliverOnce
  <2> QED
    BY <1>1, <1>4, <2>1 DEF Resolves
<1> HIDE DEF D
<1>6. CASE Invoke(a)
  <2>1. cur[a] = NoId
    BY <1>1 DEF Conserve, CurInv, InCall
  <2> QED
    BY <1>1, <1>2, <1>5, <1>6, <2>1, ResolveConserve DEF Invoke, CallPcs
<1>7. CASE InvokeChains(a)
  BY <1>1, <1>2, <1>5, <1>7, AllocateConserve DEF InvokeChains
<1> QED
  BY <1>6, <1>7

\* The drain of the table.
LEMMA DisconnectStep ==
  ASSUME TypeOK, Conserve, ReaderInv, NEW a \in Actors,
         Disconnect(a) \/ DisconnectBlocks(a)
  PROVE  Conserve'
<1>1. /\ pc[a] \in {"shutdown", "free"}
      /\ UNCHANGED claim
      /\ a # "reader" => rd' = rd
      /\ a = "reader" => rd = "disconnect"
  BY DEF Disconnect, DisconnectBlocks, AtDisconnect, CallFrame, readVars, ReaderInv
<1>2. claim[a] = NoId
  BY <1>1, NoClaim
<1>3. claim' = [claim EXCEPT ![a] = NoId]
  BY <1>1, <1>2 DEF TypeOK, TypeActors
<1>4. DisconnectError(a) \in Outcomes
  BY DEF DisconnectError, Outcomes
<1>5. ASSUME NEW D \in SUBSET pending, DeliverTo(D, DisconnectError(a)),
             pending' = pending \ D
      PROVE  Resolves(a, D) /\ D \in SUBSET Ids
  <2>1. D \in SUBSET Ids /\ \A i \in D : delivered[i] = << >>
    BY NotYetInvoked DEF TypeOK, TypeTable
  <2>2. \A i \in Ids :
           /\ i \in D => Len(delivered'[i]) = 1 /\ delivered'[i] # << >>
           /\ i \notin D => delivered'[i] = delivered[i]
    BY <1>4, <1>5, <2>1, DeliverOnce
  <2> QED
    BY <1>1, <1>2, <1>3, <1>5, <2>1, <2>2 DEF Resolves
<1>6. CASE Disconnect(a)
  <2>1. Resolves(a, pending) /\ pending \in SUBSET Ids
    BY <1>5, <1>6 DEF Disconnect
  <2>2. cur[a] = NoId
    BY <1>1 DEF Conserve, CurInv, InCall
  <2> QED
    BY <1>1, <1>6, <2>1, <2>2, ResolveConserve DEF Disconnect, CallPcs
<1>7. CASE DisconnectBlocks(a)
  <2>1. PICK i \in pending : \E C \in SUBSET (pending \ {i}) :
           /\ DeliverTo(C \cup {i}, DisconnectError(a))
           /\ pending' = pending \ (C \cup {i})
    BY <1>7 DEF DisconnectBlocks
  <2>2. PICK C \in SUBSET (pending \ {i}) :
           /\ DeliverTo(C \cup {i}, DisconnectError(a))
           /\ pending' = pending \ (C \cup {i})
    BY <2>1
  <2>3. Resolves(a, C \cup {i}) /\ C \cup {i} \in SUBSET Ids
    BY <1>5, <2>2
  <2> QED
    BY <1>1, <1>7, <2>3, AllocateConserve DEF DisconnectBlocks
<1> QED
  BY <1>6, <1>7

\* Registering a handler.
LEMMA InsertStep ==
  ASSUME TypeOK, Conserve, NEW a \in Actors, Insert(a)
  PROVE  Conserve'
<1> USE DEF Conserve, TypeOK, TypeActors
<1>1. /\ UNCHANGED <<nextId, delivered, cur, claim, rd>>
      /\ pc[a] = "insert"
      /\ pc' = [pc EXCEPT ![a] = "send"]
      /\ pending' = pending \cup {cur[a]}
  BY DEF Insert, CallFrame, readVars
<1>2. cur[a] \in Ids /\ cur[a] # NoId
  BY <1>1 DEF CurInv, InCall
<1>3. /\ cur[a] \notin pending /\ delivered[cur[a]] = << >>
      /\ \A b \in Actors : claim[b] # cur[a]
  BY <1>1 DEF InsertInv
<1>4. CurInv' /\ CurDistinct'
  BY <1>1 DEF CurInv, CurDistinct, InCall
<1>5. FreshInv'
  BY <1>1, <1>2 DEF FreshInv
<1>6. InsertInv'
  BY <1>1, <1>2 DEF InsertInv, CurDistinct
<1>7. ClaimInv'
  BY <1>1 DEF ClaimInv
<1>8. HandlerConserved'
  <2> SUFFICES ASSUME NEW i \in Ids
               PROVE  /\ Len(delivered'[i]) <= 1
                      /\ ~(InTable(i)' /\ InHand(i)')
                      /\ Answered(i)' => ~InTable(i)' /\ ~InHand(i)'
                      /\ \A b, c \in Actors : claim'[b] = i /\ claim'[c] = i => b = c
                      /\ i < nextId' /\ ~Inserting(i)'
                            => InTable(i)' \/ InHand(i)' \/ Answered(i)'
    BY DEF HandlerConserved
  <2> USE DEF InTable, InHand, Answered
  <2>1. Len(delivered'[i]) <= 1
    BY <1>1 DEF HandlerConserved
  <2>2. ~(InTable(i)' /\ InHand(i)')
    BY <1>1, <1>3 DEF HandlerConserved
  <2>3. Answered(i)' => ~InTable(i)' /\ ~InHand(i)'
    BY <1>1, <1>3 DEF HandlerConserved
  <2>4. \A b, c \in Actors : claim'[b] = i /\ claim'[c] = i => b = c
    BY <1>1 DEF HandlerConserved
  <2>5. Inserting(i) => Inserting(i)' \/ i = cur[a]
    BY <1>1 DEF Inserting
  <2>6. i < nextId' /\ ~Inserting(i)' => InTable(i)' \/ InHand(i)' \/ Answered(i)'
    BY <1>1, <2>5 DEF HandlerConserved
  <2> QED
    BY <2>1, <2>2, <2>3, <2>4, <2>6
<1> QED
  BY <1>4, <1>5, <1>6, <1>7, <1>8

\* Taking a handler out of the table: cancel_rpc_request and handle_response.
LEMMA TakeStep ==
  ASSUME TypeOK, Conserve, ReaderInv, NEW a \in Actors, NEW i \in Ids, 
         \/ Cancel(a, i)
         \/ a = "reader" /\ \E m \in Replies : ReadResponse(i, m)
  PROVE  Conserve'
<1> USE DEF Conserve, TypeOK, TypeActors
<1>1. /\ UNCHANGED <<nextId, delivered, cur>>
      /\ pending' = pending \ {i}
      /\ claim' = [claim EXCEPT ![a] = IF i \in pending THEN i ELSE NoId]
      /\ pc[a] # "insert" => pc'[a] # "insert"
      /\ pc[a] = "insert" => pc' = pc
      /\ InCall(a)' <=> InCall(a)
      /\ \A b \in Actors : b # a => pc'[b] = pc[b]
  <2>1. CASE Cancel(a, i)
    BY <2>1 DEF Cancel, InCall, MayCall
  <2>2. CASE a = "reader" /\ \E m \in Replies : ReadResponse(i, m)
    BY <2>2 DEF ReadResponse, InCall
  <2> QED
    BY <2>1, <2>2
<1>2. claim[a] = NoId
  <2>1. CASE Cancel(a, i)
    BY <2>1, NoClaim, ConstantsAssumption DEF Cancel, MayCall
  <2>2. CASE a = "reader" /\ \E m \in Replies : ReadResponse(i, m)
    BY <2>2, NoClaim DEF ReadResponse, ReaderInv
  <2> QED
    BY <2>1, <2>2
<1>3. NoId \notin Ids
  BY DEF NoId, Ids
<1>4. CurInv' /\ CurDistinct'
  BY <1>1 DEF CurInv, CurDistinct, InCall
<1>5. FreshInv'
  BY <1>1, <1>3 DEF FreshInv
<1>6. InsertInv'
  BY <1>1, <1>3 DEF InsertInv, CurInv, InCall
<1>7. ClaimInv'
  <2>1. CASE Cancel(a, i)
    BY <2>1, ConstantsAssumption DEF Cancel, MayCall, ClaimInv, CallFrame, readVars
  <2>2. CASE a = "reader" /\ \E m \in Replies : ReadResponse(i, m)
    BY <2>2 DEF ReadResponse, ClaimInv, ReaderInv
  <2> QED
    BY <2>1, <2>2
<1>8. HandlerConserved'
  <2> SUFFICES ASSUME NEW j \in Ids
               PROVE  /\ Len(delivered'[j]) <= 1
                      /\ ~(InTable(j)' /\ InHand(j)')
                      /\ Answered(j)' => ~InTable(j)' /\ ~InHand(j)'
                      /\ \A b, c \in Actors : claim'[b] = j /\ claim'[c] = j => b = c
                      /\ j < nextId' /\ ~Inserting(j)'
                            => InTable(j)' \/ InHand(j)' \/ Answered(j)'
    BY DEF HandlerConserved
  <2> USE DEF InTable, InHand, Answered
  <2>1. Len(delivered'[j]) <= 1
    BY <1>1 DEF HandlerConserved
  <2>2. ~(InTable(j)' /\ InHand(j)')
    BY <1>1, <1>3 DEF HandlerConserved
  <2>3. Answered(j)' => ~InTable(j)' /\ ~InHand(j)'
    BY <1>1, <1>3 DEF HandlerConserved
  <2>4. \A b, c \in Actors : claim'[b] = j /\ claim'[c] = j => b = c
    BY <1>1, <1>3 DEF HandlerConserved
  <2>5. Inserting(j) => Inserting(j)'
    BY <1>1 DEF Inserting
  <2>6. InTable(j) \/ InHand(j) => InTable(j)' \/ InHand(j)'
    BY <1>1, <1>2, <1>3
  <2>7. j < nextId' /\ ~Inserting(j)' => InTable(j)' \/ InHand(j)' \/ Answered(j)'
    BY <1>1, <2>5, <2>6 DEF HandlerConserved
  <2> QED
    BY <2>1, <2>2, <2>3, <2>4, <2>7
<1> QED
  BY <1>4, <1>5, <1>6, <1>7, <1>8

\* The steps of the two loops leave every handler where it is.
LEMMA LoopConserve ==
  ASSUME TypeOK, Conserve, ReaderInv,
         \/ ReaderStep \/ ReadNullId
         \/ \E m \in Calls : ReadCall(m)
         \/ \E m \in Ends : ReadEnd(m)
         \/ MainStep \/ StartLoop \/ HandlerPanics \/ Tick
  PROVE  Conserve'
<1> SUFFICES UNCHANGED Where /\ (rd = "invoke" => rd' = "invoke")
  BY ConserveFrame
<1> USE DEF Where, reqVars, actorVars
<1>1. CASE \/ ReaderStep \/ ReadNullId
           \/ \E m \in Calls : ReadCall(m)
           \/ \E m \in Ends : ReadEnd(m)
  BY <1>1 DEF ReaderStep, ReaderCheck, ReaderPermitCheck, ReaderCount, ReaderEnqueue,
              ReadCall, ReadEnd, ReadNullId, ReaderFrame
<1>2. CASE MainStep \/ HandlerPanics
  BY <1>2 DEF MainStep, HandlerPanics, TimerFires, TimersDrained, IdleRuns,
       IdleDrained, ComputeSleep, Receive, ChannelClosed, Woken, Slept, Uncount,
       DispatchCall, DispatchInvalid, DispatchBatch, DispatchError, Fatal,
       HandlerReturns, RespondOk, RespondFails, LoopReturns, MainFrame, readVars
<1>3. CASE StartLoop \/ Tick
  BY <1>3 DEF StartLoop, Tick, readVars, ReaderInv
<1> QED
  BY <1>1, <1>2, <1>3

\* The invariant is inductive.
THEOREM Inductive == IInv /\ [Next]_vars => IInv'
<1> SUFFICES ASSUME IInv, [Next]_vars PROVE IInv'
  OBVIOUS
<1>0. TypeOK /\ FlowInv /\ ReaderInv /\ Conserve /\ CurInv /\ ClaimInv
  BY DEF IInv, Conserve
<1> SUFFICES TypeOK' /\ FlowInv' /\ ReaderInv' /\ Conserve'
  BY DEF IInv, Conserve
<1>1. ASSUME NEW a \in Actors, CallStep(a) \/ StartStep(a)
      PROVE  TypeOK' /\ FlowInv' /\ ReaderInv' /\ Conserve'
  <2>1. TypeOK'
    BY <1>0, <1>1, TableStepType, OtherCallType DEF CallStep, StartStep
  <2>2. FlowInv' /\ ReaderInv'
    BY <1>0, <1>1, CallFlow
  <2>3. Conserve'
    <3>1. CASE \E t \in Tokens : ScheduleIdle(a, t) \/ CancelTimer(a, t)
      BY <1>0, <3>1, ConserveFrame
         DEF ScheduleIdle, CancelTimer, Where, reqVars, actorVars, readVars
    <3>2. CASE \E i \in Ids : Cancel(a, i)
      BY <1>0, <3>2, TakeStep
    <3> QED
      BY <1>0, <1>1, <3>1, <3>2, QuietStep, DrawStep, WithdrawStep, InvokeStep,
         DisconnectStep, InsertStep DEF CallStep, StartStep
  <2> QED
    BY <2>1, <2>2, <2>3
<1>2. CASE \/ ReaderStep \/ ReadStep
           \/ MainStep \/ StartLoop \/ HandlerPanics \/ Tick
  <2>1. TypeOK' /\ FlowInv' /\ ReaderInv'
    BY <1>0, <1>2, ReaderType, MainType, LoopFlow
  <2>2. Conserve'
    <3>1. CASE \E i \in Ids, m \in Replies : ReadResponse(i, m)
      <4>1. PICK i \in Ids : \E m \in Replies : ReadResponse(i, m)
        BY <3>1
      <4>2. "reader" \in Actors
        BY DEF Actors
      <4> QED
        BY <1>0, <4>1, <4>2, TakeStep
    <3> QED
      BY <1>0, <1>2, <3>1, LoopConserve DEF ReadStep
  <2> QED
    BY <2>1, <2>2
<1>3. CASE UNCHANGED vars
  <2>1. TypeOK'
    BY <1>0, <1>3, FrameType DEF vars, TypeOK, chanVars, idleVars
  <2>2. FlowInv' /\ ReaderInv'
    BY <1>0, <1>3 DEF vars, readVars, loopVars, actorVars, FlowInv, ReaderInv
  <2>3. Conserve'
    BY <1>0, <1>3, ConserveFrame DEF vars, Where, reqVars, actorVars, readVars
  <2> QED
    BY <2>1, <2>2, <2>3
<1> QED
  BY <1>1, <1>2, <1>3 DEF Next

\* It holds initially.
LEMMA InitInvariant == Init => IInv
<1> SUFFICES ASSUME Init PROVE IInv
  OBVIOUS
<1>1. TypeOK
  BY InitType
<1>2. FlowInv /\ ReaderInv
  BY DEF Init, FlowInv, ReaderInv, Actors
<1>3. CurInv /\ CurDistinct /\ ClaimInv
  BY DEF Init, CurInv, CurDistinct, ClaimInv, InCall
<1>4. NoId \notin Ids
  BY DEF NoId, Ids
<1>5. FreshInv /\ InsertInv
  BY <1>4 DEF Init, FreshInv, InsertInv
<1>6. HandlerConserved
  <2>1. \A i \in Ids : Len(delivered[i]) <= 1 /\ ~(i < nextId)
    BY DEF Init, Ids
  <2> QED
    BY <1>4, <2>1 DEF Init, HandlerConserved, InTable, InHand, Answered
<1> QED
  BY <1>1, <1>2, <1>3, <1>5, <1>6 DEF IInv

\* Every reachable state satisfies the inductive invariant.
THEOREM Invariance == Spec => []IInv
<1> QED
  BY InitInvariant, Inductive, PTL DEF Spec

\* Every state RpcState and the two loops reach is well typed: in particular
\* the semaphore never goes below zero and only calls and read errors are queued.
THEOREM TypeCorrect == Spec => []TypeOK
<1>1. IInv => TypeOK
  BY DEF IInv
<1> QED
  BY <1>1, Invariance, PTL

\* A ResponseHandler in `pending` is invoked at most once and is never dropped,
\* however answers, cancellations, failed writes and disconnects interleave.
THEOREM HandlersConserved == Spec => []HandlerConserved
<1>1. IInv => HandlerConserved
  BY DEF IInv
<1> QED
  BY <1>1, Invariance, PTL

-----------------------------------------------------------------------------
(***************************************************************************)
(* Three more invariants of the run loop, on top of the inductive          *)
(* invariant: the count behind request_is_pending(), the wake-up of a      *)
(* sleeping loop, and the semaphore's permits.                             *)
(***************************************************************************)
\* rx_pending also covers the message that was counted and not yet queued,
\* and the one that was received and not yet uncounted.
CountInv ==
    Len(msgq) + (IF rd = "enqueue" THEN 1 ELSE 0)
              + (IF loop = "received" THEN 1 ELSE 0) <= rxPending

\* The notification is already stored when the sleep is being computed.
SleepInv == loop \in {"sleep", "select"} /\ idleq # << >> => notify

\* A step that touches neither the channel nor the two program counters the
\* count depends on.
LEMMA CountFrame ==
  ASSUME CountInv, UNCHANGED <<msgq, rxPending>>,
         rd' = rd \/ (rd # "enqueue" /\ rd' # "enqueue"),
         loop' = loop \/ (loop # "received" /\ loop' # "received")
  PROVE  CountInv'
  BY DEF CountInv

\* The count is kept by every step.
LEMMA CountStep ==
  ASSUME TypeOK, FlowInv, ReaderInv, ClaimInv, CountInv, [Next]_vars
  PROVE  CountInv'
<1> USE DEF readVars, loopVars, chanVars
<1>1. ASSUME NEW a \in Actors, CallStep(a) \/ StartStep(a)
      PROVE  CountInv'
  <2>1. CASE \/ StartWaiting(a) \/ StartAsync(a) \/ RequestShutdown(a)
             \/ \E i \in Ids : Cancel(a, i)
             \/ \E t \in Tokens : ScheduleIdle(a, t) \/ CancelTimer(a, t)
             \/ \E t \in Tokens, at \in 0 .. MaxTime : ScheduleTimer(a, t, at)
    BY <2>1, CountFrame
       DEF StartWaiting, StartAsync, RequestShutdown, Cancel, ScheduleIdle,
           CancelTimer, ScheduleTimer, CallFrame
  <2>2. CASE \/ Acquire(a) \/ AcquireTimeout(a) \/ Insert(a) \/ SendOk(a)
             \/ SendFails(a) \/ WithdrawFailed(a) \/ WithdrawBlocks(a)
             \/ WaitReturns(a) \/ WaitTimesOut(a) \/ DisconnectBlocks(a)
             \/ NotifyTimer(a)
    BY <2>2, CountFrame
       DEF Acquire, AcquireTimeout, Insert, SendOk, SendFails, WithdrawFailed,
           WithdrawBlocks, WaitReturns, WaitTimesOut, DisconnectBlocks,
           NotifyTimer, CallFrame
  <2>3. CASE Invoke(a) \/ InvokeChains(a)
    BY <2>3, CountFrame DEF Invoke, InvokeChains, Claimed, ClaimInv
  <2>4. CASE Disconnect(a)
    BY <2>4, CountFrame DEF Disconnect, AtDisconnect, ReaderInv
  <2> QED
    BY <1>1, <2>1, <2>2, <2>3, <2>4 DEF CallStep, StartStep
<1>2. CASE ReaderCheck \/ ReaderPermitCheck \/ ReadStep
  BY <1>2, CountFrame DEF ReaderCheck, ReaderPermitCheck, ReadStep, ReadResponse,
     ReadNullId, ReadCall, ReadEnd, ReaderFrame
<1>3. CASE ReaderCount
  BY <1>3 DEF ReaderCount, ReaderFrame, CountInv, TypeOK, TypeChannel
<1>4. CASE ReaderEnqueue
  <2>1. Len(msgq') = Len(msgq) + 1 /\ Len(msgq) \in Nat
    BY <1>4 DEF ReaderEnqueue, TypeOK, TypeChannel
  <2> QED
    BY <1>4, <2>1 DEF ReaderEnqueue, ReaderFrame, CountInv, TypeOK, TypeChannel
<1>5. CASE Receive
  <2>1. Len(msgq') = Len(msgq) - 1 /\ Len(msgq) \in Nat
    BY <1>5 DEF Receive, TypeOK, TypeChannel
  <2> QED
    BY <1>5, <2>1 DEF Receive, MainFrame, CountInv, TypeOK, TypeChannel
<1>6. CASE Uncount
  <2>1. Len(msgq) \in Nat
    BY DEF TypeOK, TypeChannel
  <2> QED
    BY <1>6, <2>1 DEF Uncount, GoTo, MainFrame, CountInv, TypeOK, TypeChannel
<1>7. CASE StartLoop
  <2>1. Len(msgq) \in Nat /\ Len(msgq') = 0
    BY <1>7 DEF StartLoop, TypeOK, TypeChannel
  <2> QED
    BY <1>7, <2>1 DEF StartLoop, CountInv, TypeOK, TypeChannel
<1>8. CASE \/ TimerFires \/ TimersDrained \/ IdleRuns \/ IdleDrained \/ ComputeSleep
           \/ ChannelClosed \/ Woken \/ Slept \/ DispatchCall \/ DispatchInvalid
           \/ DispatchBatch \/ DispatchError \/ Fatal \/ RespondOk \/ RespondFails
           \/ LoopReturns \/ HandlerPanics
  BY <1>8, CountFrame
     DEF TimerFires, TimersDrained, IdleRuns, IdleDrained, ComputeSleep, ChannelClosed,
         Woken, Slept, DispatchCall, DispatchInvalid, DispatchBatch, DispatchError, Fatal,
         RespondOk, RespondFails, LoopReturns, HandlerPanics, MainFrame, GoTo, Leave,
         RunHandler
<1>9. CASE HandlerReturns
  BY <1>9, CountFrame DEF HandlerReturns, MainFrame, TypeOK, TypeLoop
<1>10. CASE Tick \/ UNCHANGED vars
  BY <1>10, CountFrame DEF Tick, vars
<1> QED
  BY <1>1, <1>2, <1>3, <1>4, <1>5, <1>6, <1>7, <1>8, <1>9, <1>10
     DEF Next, ReaderStep, MainStep

\* request_is_pending() is never FALSE while a message is queued, for any
\* number of clients, messages and runs of the loop.
THEOREM PendingCounted == Spec => []QueuedIsPending
<1>1. Init => CountInv
  BY DEF Init, CountInv
<1>2. IInv /\ CountInv /\ [Next]_vars => CountInv'
  BY CountStep DEF IInv
<1>3. IInv /\ CountInv => QueuedIsPending
  <2> SUFFICES ASSUME IInv, CountInv PROVE QueuedIsPending
    OBVIOUS
  <2>1. Len(msgq) \in Nat /\ rxPending \in Int
    BY DEF IInv, TypeOK, TypeChannel
  <2> DEFINE n == IF rd = "enqueue" THEN 1 ELSE 0
             m == IF loop = "received" THEN 1 ELSE 0
  <2>2. n \in Nat /\ m \in Nat /\ Len(msgq) + n + m <= rxPending
    BY DEF CountInv
  <2> HIDE DEF n, m
  <2>3. Len(msgq) <= rxPending
    BY <2>1, <2>2
  <2> QED
    BY <2>3 DEF QueuedIsPending
<1> QED
  BY <1>1, <1>2, <1>3, Invariance, PTL DEF Spec

\* A step that neither puts the loop to sleep nor touches the idle queue.
LEMMA SleepFrame ==
  ASSUME SleepInv, UNCHANGED <<idleq, notify>>,
         loop' \in {"sleep", "select"} => loop \in {"sleep", "select"}
  PROVE  SleepInv'
  BY Zenon DEF SleepInv

\* The stored notification is kept by every step.
LEMMA SleepStep ==
  ASSUME TypeOK, SleepInv, [Next]_vars
  PROVE  SleepInv'
<1> USE DEF loopVars, idleVars
<1>1. ASSUME NEW a \in Actors, CallStep(a) \/ StartStep(a)
      PROVE  SleepInv'
  <2>1. CASE \/ StartWaiting(a) \/ StartAsync(a) \/ RequestShutdown(a)
             \/ \E i \in Ids : Cancel(a, i)
             \/ \E t \in Tokens : CancelTimer(a, t)
             \/ \E t \in Tokens, at \in 0 .. MaxTime : ScheduleTimer(a, t, at)
    BY <2>1, SleepFrame
       DEF StartWaiting, StartAsync, RequestShutdown, Cancel, CancelTimer,
           ScheduleTimer, CallFrame
  <2>2. CASE NotifyTimer(a) \/ \E t \in Tokens : ScheduleIdle(a, t)
    <3>1. notify' = TRUE
      BY <2>2 DEF NotifyTimer, ScheduleIdle
    <3> QED
      BY <3>1, Zenon DEF SleepInv
  <2>3. CASE \/ Acquire(a) \/ AcquireTimeout(a) \/ Insert(a) \/ SendOk(a)
             \/ SendFails(a) \/ WithdrawFailed(a) \/ WithdrawBlocks(a)
             \/ WaitReturns(a) \/ WaitTimesOut(a) \/ DisconnectBlocks(a)
    BY <2>3, SleepFrame
       DEF Acquire, AcquireTimeout, Insert, SendOk, SendFails, WithdrawFailed,
           WithdrawBlocks, WaitReturns, WaitTimesOut, DisconnectBlocks, CallFrame
  <2>4. CASE Invoke(a) \/ InvokeChains(a) \/ Disconnect(a)
    BY <2>4, SleepFrame DEF Invoke, InvokeChains, Disconnect
  <2> QED
    BY <1>1, <2>1, <2>2, <2>3, <2>4 DEF CallStep, StartStep
<1>2. CASE ReaderStep \/ ReadStep
  BY <1>2, SleepFrame
     DEF ReaderStep, ReadStep, ReaderCheck, ReaderPermitCheck, ReaderCount,
         ReaderEnqueue, ReadResponse, ReadNullId, ReadCall, ReadEnd, ReaderFrame
<1>3. CASE IdleDrained
  <2>1. idleq' = << >>
    BY <1>3 DEF IdleDrained
  <2> QED
    BY <2>1 DEF SleepInv
<1>4. CASE \/ TimerFires \/ TimersDrained \/ IdleRuns \/ Receive \/ ChannelClosed
           \/ Woken \/ Slept \/ Uncount \/ DispatchCall \/ DispatchInvalid
           \/ DispatchBatch \/ DispatchError \/ Fatal \/ HandlerReturns \/ RespondOk
           \/ RespondFails \/ LoopReturns \/ HandlerPanics \/ StartLoop
  <2>1. loop' \notin {"sleep", "select"}
    BY <1>4 DEF TimerFires, TimersDrained, IdleRuns, Receive, ChannelClosed, Woken,
         Slept, Uncount, DispatchCall, DispatchInvalid, DispatchBatch, DispatchError,
         Fatal, HandlerReturns, RespondOk, RespondFails, LoopReturns, HandlerPanics,
         StartLoop, GoTo, Leave, RunHandler, TypeOK, TypeLoop
  <2> QED
    BY <2>1 DEF SleepInv
<1>5. CASE ComputeSleep \/ Tick \/ UNCHANGED vars
  BY <1>5, SleepFrame DEF ComputeSleep, GoTo, Tick, vars
<1> QED
  BY <1>1, <1>2, <1>3, <1>4, <1>5 DEF Next, MainStep

\* The loop never sleeps on a non-empty idle queue, whoever scheduled the
\* token and whenever.
THEOREM NoLostWakeup == Spec => []IdleWakesLoop
<1>1. Init => SleepInv
  BY DEF Init, SleepInv
<1>2. IInv /\ SleepInv /\ [Next]_vars => SleepInv'
  BY SleepStep DEF IInv
<1>3. SleepInv => IdleWakesLoop
  BY Zenon DEF SleepInv, IdleWakesLoop
<1> QED
  BY <1>1, <1>2, <1>3, Invariance, PTL DEF Spec

\* What a request number is used for, while its call is under way.
KindInv ==
    \A a \in Actors :
        /\ InCall(a) => kind[cur[a]] \in {"sync", "timed", "async"}
        /\ pc[a] = "wait" => kind[cur[a]] \in {"sync", "timed"}

PermitInv == KindInv /\ PermitsAccounted

\* A step that changes who holds a permit by at most one actor.
LEMMA PermitChange ==
  ASSUME TypeOK, PermitsAccounted, NEW a \in Actors, permits' \in Int,
         \/ a \notin Holders /\ Holders' = Holders \cup {a} /\ permits' = permits - 1
         \/ a \in Holders /\ Holders' = Holders \ {a} /\ permits' = permits + 1
         \/ Holders' = Holders /\ permits' = permits
  PROVE  PermitsAccounted'
<1>1. IsFiniteSet(Actors)
  <2>1. Actors = (Clients \cup {"main"}) \cup {"reader"}
    BY DEF Actors
  <2> QED
    BY <2>1, ConstantsAssumption, FS_AddElement
<1>2. IsFiniteSet(Holders)
  <2>1. Holders \subseteq Actors
    BY DEF Holders
  <2> QED
    BY <1>1, <2>1, FS_Subset
<1>3. Cardinality(Holders) \in Nat /\ permits \in Nat
  BY <1>2, FS_CardinalityType DEF TypeOK, TypeTable
<1>4. CASE a \notin Holders /\ Holders' = Holders \cup {a} /\ permits' = permits - 1
  <2>1. Cardinality(Holders') = Cardinality(Holders) + 1
    BY <1>2, <1>4, FS_AddElement
  <2> QED
    BY <1>3, <1>4, <2>1 DEF PermitsAccounted
<1>5. CASE a \in Holders /\ Holders' = Holders \ {a} /\ permits' = permits + 1
  <2>1. Cardinality(Holders') = Cardinality(Holders) - 1
    BY <1>2, <1>5, FS_RemoveElement
  <2> QED
    BY <1>3, <1>5, <2>1 DEF PermitsAccounted
<1>6. CASE Holders' = Holders /\ permits' = permits
  BY <1>6 DEF PermitsAccounted
<1> QED
  BY <1>4, <1>5, <1>6

\* A step in which no actor enters or leaves a request that holds a permit.
LEMMA PermitFrame ==
  ASSUME TypeOK, PermitInv, UNCHANGED <<permits, kind, cur>>, NEW a \in Actors,
         \A b \in Actors : b # a => pc'[b] = pc[b],
         (InCall(a)' <=> InCall(a)),
         pc'[a] = "wait" => pc[a] = "wait"
  PROVE  PermitInv'
<1>1. KindInv'
  BY DEF PermitInv, KindInv, InCall
<1>2. Holders' = Holders
  BY DEF Holders, InCall
<1> QED
  BY <1>1, <1>2 DEF PermitInv, PermitsAccounted

\* Drawing a number, with a permit or for a request that needs none.
LEMMA PermitDraw ==
  ASSUME TypeOK, FreshInv, CurInv, PermitInv, NEW a \in Actors,
         NEW k \in {"sync", "timed", "async"}, Allocate(a, k),
         a \notin Holders,
         permits' = IF k = "async" THEN permits ELSE permits - 1
  PROVE  PermitInv'
<1> USE DEF TypeOK, TypeActors, TypeTable
<1>1. /\ nextId \in Ids
      /\ kind' = [kind EXCEPT ![nextId] = k]
      /\ cur' = [cur EXCEPT ![a] = nextId]
      /\ pc' = [pc EXCEPT ![a] = "insert"]
  BY ConstantsAssumption DEF Allocate, Ids
<1>2. kind'[nextId] = k
  BY <1>1
<1>3. \A b \in Actors : cur[b] # nextId
  <2>1. nextId >= nextId
    BY <1>1 DEF Ids
  <2> QED
    BY <1>1, <2>1, Zenon DEF FreshInv
<1>4. \A b \in Actors : b # a /\ InCall(b) => kind'[cur'[b]] = kind[cur[b]] /\ cur'[b] = cur[b]
  BY <1>1, <1>3 DEF CurInv
<1>5. KindInv'
  BY <1>1, <1>2, <1>4 DEF PermitInv, KindInv, InCall
<1>6. Holders' = IF k = "async" THEN Holders ELSE Holders \cup {a}
  BY <1>1, <1>2, <1>4 DEF Holders, InCall
<1> QED
  BY <1>5, <1>6, PermitChange DEF PermitInv

\* The peer operations.
LEMMA PermitStep ==
  ASSUME TypeOK, Conserve, PermitInv, NEW a \in Actors, CallStep(a) \/ StartStep(a)
  PROVE  PermitInv'
<1> USE DEF TypeOK, TypeActors
<1>0. FreshInv /\ CurInv /\ KindInv
  BY DEF Conserve, PermitInv
<1>1. CASE \/ StartWaiting(a) \/ AcquireTimeout(a) \/ Insert(a) \/ SendFails(a)
           \/ RequestShutdown(a) \/ NotifyTimer(a) \/ Invoke(a) \/ Disconnect(a)
           \/ \E i \in Ids : Cancel(a, i)
           \/ \E t \in Tokens : ScheduleIdle(a, t) \/ CancelTimer(a, t)
           \/ \E t \in Tokens, at \in 0 .. MaxTime : ScheduleTimer(a, t, at)
  <2>1. UNCHANGED <<permits, kind, cur>>
    BY <1>1 DEF StartWaiting, AcquireTimeout, Insert, SendFails, RequestShutdown,
       NotifyTimer, Invoke, Disconnect, Cancel, ScheduleIdle, CancelTimer,
       ScheduleTimer, reqVars, actorVars
  <2>2. /\ \A b \in Actors : b # a => pc'[b] = pc[b]
        /\ pc'[a] = "wait" => pc[a] = "wait"
    BY <1>1 DEF StartWaiting, AcquireTimeout, Insert, SendFails, RequestShutdown,
       NotifyTimer, Invoke, Disconnect, Cancel, ScheduleIdle, CancelTimer,
       ScheduleTimer, actorVars
  <2>3. InCall(a)' <=> InCall(a)
    BY <1>1 DEF StartWaiting, AcquireTimeout, Insert, SendFails, RequestShutdown,
       NotifyTimer, Invoke, Disconnect, Cancel, ScheduleIdle, CancelTimer,
       ScheduleTimer, actorVars, InCall, MayCall, AtDisconnect, Claimed, Conserve,
       ClaimInv
  <2> QED
    BY <2>1, <2>2, <2>3, PermitFrame
<1>2. CASE SendOk(a) \/ WithdrawFailed(a)
  <2>1. UNCHANGED <<permits, kind>> /\ AfterSend(a) /\ InCall(a) /\ pc[a] # "wait"
    BY <1>2 DEF SendOk, WithdrawFailed, InCall
  <2>2. kind[cur[a]] \in {"sync", "timed", "async"}
    BY <1>0, <2>1 DEF KindInv
  <2>3. KindInv'
    BY <1>0, <2>1, <2>2 DEF AfterSend, KindInv, InCall
  <2>4. Holders' = Holders
    BY <2>1 DEF AfterSend, Holders, InCall
  <2> QED
    BY <2>1, <2>3, <2>4 DEF PermitInv, PermitsAccounted
<1>3. CASE WaitReturns(a) \/ WaitTimesOut(a)
  <2>1. /\ UNCHANGED kind /\ permits' = permits + 1 /\ pc[a] = "wait"
        /\ pc' = [pc EXCEPT ![a] = "free"]
        /\ cur' = [cur EXCEPT ![a] = NoId]
    BY <1>3 DEF WaitReturns, WaitTimesOut
  <2>2. a \in Holders
    BY <1>0, <2>1 DEF KindInv, Holders
  <2>3. KindInv'
    BY <1>0, <2>1 DEF KindInv, InCall
  <2>4. Holders' = Holders \ {a}
    BY <2>1 DEF Holders
  <2>5. permits' \in Int
    BY <2>1 DEF TypeTable
  <2> QED
    BY <2>1, <2>2, <2>3, <2>4, <2>5, PermitChange DEF PermitInv
<1>4. CASE StartAsync(a) \/ WithdrawBlocks(a) \/ InvokeChains(a) \/ DisconnectBlocks(a)
  <2>1. Allocate(a, "async") /\ permits' = permits
    BY <1>4 DEF StartAsync, WithdrawBlocks, InvokeChains, DisconnectBlocks
  <2>2. a \notin Holders
    BY <1>4 DEF StartAsync, WithdrawBlocks, InvokeChains, DisconnectBlocks, Holders,
                MayCall, AtDisconnect, Claimed, Conserve, ClaimInv
  <2> QED
    BY <1>0, <2>1, <2>2, PermitDraw
<1>5. CASE Acquire(a)
  <2>1. PICK k \in {"sync", "timed"} : Allocate(a, k)
    BY <1>5 DEF Acquire
  <2>2. a \notin Holders /\ permits' = permits - 1
    BY <1>5 DEF Acquire, Holders
  <2> QED
    BY <1>0, <2>1, <2>2, PermitDraw
<1> QED
  BY <1>1, <1>2, <1>3, <1>4, <1>5 DEF CallStep, StartStep

\* Permits are neither leaked nor returned twice, for any number of clients
\* and permits.
THEOREM PermitsBalanced == Spec => []PermitsAccounted
<1>1. Init => PermitInv
  <2> SUFFICES ASSUME Init PROVE PermitInv
    OBVIOUS
  <2>1. Holders = {}
    BY DEF Init, Holders
  <2>2. Cardinality({}) = 0
    BY FS_EmptySet
  <2> QED
    BY <2>1, <2>2, ConstantsAssumption
       DEF Init, PermitInv, KindInv, PermitsAccounted, InCall
<1>2. IInv /\ PermitInv /\ [Next]_vars => PermitInv'
  <2> SUFFICES ASSUME IInv, PermitInv, [Next]_vars PROVE PermitInv'
    OBVIOUS
  <2>0. TypeOK /\ Conserve
    BY DEF IInv, Conserve
  <2>1. ASSUME UNCHANGED <<permits, kind, cur, pc>>
        PROVE  PermitInv'
    <3>1. Holders' = Holders
      BY <2>1 DEF Holders
    <3> QED
      BY <2>1, <3>1 DEF PermitInv, KindInv, InCall, PermitsAccounted
  <2>2. CASE \/ ReaderStep \/ ReadStep \/ StartLoop \/ Tick \/ UNCHANGED vars
    BY <2>1, <2>2
       DEF ReaderStep, ReadStep, ReaderCheck, ReaderPermitCheck, ReaderCount,
           ReaderEnqueue, ReadResponse, ReadNullId, ReadCall, ReadEnd, ReaderFrame,
           StartLoop, Tick, vars, reqVars, actorVars
  <2>3. CASE MainStep \/ HandlerPanics
    BY <2>1, <2>3 DEF MainStep, HandlerPanics, TimerFires, TimersDrained, IdleRuns,
       IdleDrained, ComputeSleep, Receive, ChannelClosed, Woken, Slept, Uncount,
       DispatchCall, DispatchInvalid, DispatchBatch, DispatchError, Fatal,
       HandlerReturns, RespondOk, RespondFails, LoopReturns, MainFrame, reqVars,
       actorVars
  <2> QED
    BY <2>0, <2>2, <2>3, PermitStep DEF Next
<1>3. PermitInv => PermitsAccounted
  BY DEF PermitInv
<1> QED
  BY <1>1, <1>2, <1>3, Invariance, PTL DEF Spec
=============================================================================
