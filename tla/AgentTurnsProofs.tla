-------------------------- MODULE AgentTurnsProofs --------------------------
(***************************************************************************)
(* Proofs about the prompt turns of the agent host, for every set of       *)
(* sessions and every number of prompts, slots and calls: a prompt that    *)
(* waits is in one place, slots are not left idle, and the reservation and *)
(* the evidence of a session stay with the turn that has them.             *)
(***************************************************************************)
EXTENDS AgentTurns, FiniteSetTheorems, SequenceTheorems, TLAPS

(***************************************************************************)
(* The inductive invariant has two halves.  The first is about a session's *)
(* thread: finish_turn compares turn keys, and a prompt that resumes a     *)
(* paused turn uses its key again, so one must know that no two prompts of *)
(* a session ever wait under one key.                                      *)
(***************************************************************************)
Sent(a) == req[a].pc = "sent"

\* The prompts of a session are numbered without gaps: the next is new.
Numbered == \A s \in Sessions : \E k \in 0..MaxAttempts : Started(s) = 1..k

\* A key is the number of a prompt that was sent.  The key of the paused turn is
\* nobody's, and no key is shared.
KeysDistinct ==
  /\ \A s \in Sessions : paused[s] \in Started(s) \union {0}
  /\ \A a \in Attempts : Sent(a) =>
        req[a].key \in Started(a[1]) /\ req[a].key # paused[a[1]]
  /\ \A a, b \in Attempts :
        Sent(a) /\ Sent(b) /\ a[1] = b[1] /\ req[a].key = req[b].key => a = b

\* Who has the reservation is still waiting, and is the turn evidence goes to.
Reserved ==
  \A s \in Sessions : turn[s] # NoTurn =>
    turn[s].n # 0 /\ Sent(Owner(s)) /\ activeTurn[s] = req[Owner(s)].key

TurnInv == Numbered /\ KeysDistinct /\ Reserved

(***************************************************************************)
(* The second half is about the places a prompt goes through.              *)
(***************************************************************************)
InChannel(a) == \E i \in DOMAIN commands : commands[i] = Prompt(a)
InQueue(a)   == \E i \in DOMAIN queued : queued[i] = a
Replied(a)   == req[a].result # None

\* A prompt waits exactly while it is somewhere, and never in two places.
OnePlace(a) ==
  /\ Sent(a) <=> (InChannel(a) \/ InQueue(a) \/ a \in tasks \/ Replied(a))
  /\ InChannel(a) => ~InQueue(a) /\ a \notin tasks /\ ~Replied(a)
  /\ InQueue(a) => a \notin tasks /\ ~Replied(a)
  /\ a \in tasks => ~Replied(a)
Placed == \A a \in Attempts : OnePlace(a)

\* It is in the channel once.
ChannelOnce ==
  \A i, j \in DOMAIN commands : commands[i].k = "Prompt" /\ commands[i] = commands[j] => i = j

\* The tasks and active_prompts agree, and do not exceed the slots.
Agree(running, act) ==
  /\ \A a \in Attempts : a \in running <=> act[a[1]] = a[2]
  /\ IsFiniteSet(running) /\ IsFiniteSet(Occupied(act))
  /\ Cardinality(running) = Cardinality(Occupied(act))
Slots == Agree(tasks, active) /\ Cardinality(tasks) <= MaxConcurrent

\* Prompts are queued for want of a slot, one for a session that has none with the
\* agent, and not after the loop.
QueueInv ==
  /\ queued # <<>> => Cardinality(tasks) = MaxConcurrent /\ driver \in {"loop", "control"}
  /\ \A i \in DOMAIN queued : active[queued[i][1]] = 0
  /\ \A i, j \in DOMAIN queued : queued[i][1] = queued[j][1] => i = j

PlaceInv == Placed /\ ChannelOnce /\ Slots /\ QueueInv

HostInv == TypeOK /\ TurnInv /\ PlaceInv

-----------------------------------------------------------------------------
(* Sequences *)

LEMMA SeqFacts ==
  ASSUME NEW S, NEW q \in Seq(S)
  PROVE  /\ Len(q) \in Nat /\ DOMAIN q = 1..Len(q) /\ \A i \in 1..Len(q) : q[i] \in S
         /\ q = <<>> <=> Len(q) = 0
<1>1. Len(q) \in Nat /\ DOMAIN q = 1..Len(q)
  BY LenProperties
<1>2. \A i \in 1..Len(q) : q[i] \in S
  BY ElementOfSeq
<1>3. q = <<>> <=> Len(q) = 0
  BY EmptySeq
<1> QED
  BY <1>1, <1>2, <1>3

LEMMA AppendFacts ==
  ASSUME NEW S, NEW q \in Seq(S), NEW e \in S
  PROVE  /\ Append(q, e) \in Seq(S) /\ DOMAIN Append(q, e) = 1..(Len(q) + 1)
         /\ \A i \in 1..Len(q) : Append(q, e)[i] = q[i]
         /\ Append(q, e)[Len(q) + 1] = e
<1>1. /\ Append(q, e) \in Seq(S) /\ Len(Append(q, e)) = Len(q) + 1
      /\ \A i \in 1..Len(q) : Append(q, e)[i] = q[i]
      /\ Append(q, e)[Len(q) + 1] = e
  BY AppendProperties
<1> QED
  BY <1>1, LenProperties

LEMMA TailFacts ==
  ASSUME NEW S, NEW q \in Seq(S), q # <<>>
  PROVE  /\ Tail(q) \in Seq(S) /\ Head(q) = q[1] /\ 1 \in DOMAIN q
         /\ DOMAIN Tail(q) = 1..(Len(q) - 1)
         /\ \A i \in 1..(Len(q) - 1) : Tail(q)[i] = q[i + 1]
<1>1. /\ Tail(q) \in Seq(S) /\ Len(Tail(q)) = Len(q) - 1
      /\ \A i \in 1..Len(Tail(q)) : Tail(q)[i] = q[i + 1]
  BY HeadTailProperties
<1>2. Len(q) \in Nat /\ Len(q) # 0 /\ DOMAIN q = 1..Len(q)
  BY SeqFacts
<1>3. Head(q) = q[1]
  OBVIOUS
<1> QED
  BY <1>1, <1>2, <1>3, LenProperties

\* SubSeq(q, k + 1, Len(q)): what is left when the first k are taken.
LEMMA RestFacts ==
  ASSUME NEW S, NEW q \in Seq(S), NEW k \in 0..Len(q)
  PROVE  /\ SubSeq(q, k + 1, Len(q)) \in Seq(S)
         /\ DOMAIN SubSeq(q, k + 1, Len(q)) = 1..(Len(q) - k)
         /\ \A i \in 1..(Len(q) - k) : SubSeq(q, k + 1, Len(q))[i] = q[k + i]
<1>1. Len(q) \in Nat /\ \A i \in 1..Len(q) : q[i] \in S
  BY SeqFacts
<1>2. \A i \in (k + 1)..Len(q) : q[i] \in S
  BY <1>1
<1>3. /\ SubSeq(q, k + 1, Len(q)) \in Seq(S)
      /\ Len(SubSeq(q, k + 1, Len(q))) = IF k + 1 <= Len(q) THEN Len(q) - (k + 1) + 1 ELSE 0
      /\ \A i \in 1..(Len(q) - (k + 1) + 1) : SubSeq(q, k + 1, Len(q))[i] = q[(k + 1) + i - 1]
  <2>1. k + 1 \in Int /\ Len(q) \in Int
    BY <1>1
  <2> QED
    BY <1>2, <2>1, SubSeqProperties
<1>4. Len(SubSeq(q, k + 1, Len(q))) = Len(q) - k
  BY <1>1, <1>3
<1>5. DOMAIN SubSeq(q, k + 1, Len(q)) = 1..(Len(q) - k)
  BY <1>3, <1>4, LenProperties
<1>6. \A i \in 1..(Len(q) - k) : SubSeq(q, k + 1, Len(q))[i] = q[k + i]
  BY <1>1, <1>3
<1> QED
  BY <1>3, <1>5, <1>6

\* The queue without its i-th prompt.
Without(q, i) == SubSeq(q, 1, i - 1) \o SubSeq(q, i + 1, Len(q))

LEMMA WithoutFacts ==
  ASSUME NEW S, NEW q \in Seq(S), NEW i \in 1..Len(q)
  PROVE  /\ Without(q, i) \in Seq(S)
         /\ DOMAIN Without(q, i) = 1..(Len(q) - 1)
         /\ \A j \in 1..(Len(q) - 1) :
               Without(q, i)[j] = IF j < i THEN q[j] ELSE q[j + 1]
<1>1. Len(q) \in Nat /\ \A j \in 1..Len(q) : q[j] \in S
  BY SeqFacts
<1> DEFINE before == SubSeq(q, 1, i - 1)
           after == SubSeq(q, i + 1, Len(q))
<1>2. /\ before \in Seq(S) /\ Len(before) = i - 1
      /\ \A j \in 1..(i - 1) : before[j] = q[j]
  <2>1. \A j \in 1..(i - 1) : q[j] \in S
    BY <1>1
  <2>2. 1 \in Int /\ i - 1 \in Int
    OBVIOUS
  <2>3. /\ before \in Seq(S) /\ Len(before) = IF 1 <= i - 1 THEN (i - 1) - 1 + 1 ELSE 0
        /\ \A j \in 1..((i - 1) - 1 + 1) : before[j] = q[1 + j - 1]
    BY <2>1, <2>2, SubSeqProperties
  <2> QED
    BY <1>1, <2>3
<1>3. /\ after \in Seq(S) /\ Len(after) = Len(q) - i
      /\ \A j \in 1..(Len(q) - i) : after[j] = q[i + j]
  <2>1. i \in 0..Len(q)
    BY <1>1
  <2>2. after \in Seq(S) /\ DOMAIN after = 1..(Len(q) - i)
        /\ \A j \in 1..(Len(q) - i) : after[j] = q[i + j]
    BY <2>1, RestFacts
  <2>3. Len(after) = Len(q) - i
    <3>1. Len(after) \in Nat /\ DOMAIN after = 1..Len(after)
      BY <2>2, SeqFacts
    <3> QED
      BY <1>1, <2>2, <3>1
  <2> QED
    BY <2>2, <2>3
<1> HIDE DEF before, after
<1>4. /\ before \o after \in Seq(S) /\ Len(before \o after) = Len(before) + Len(after)
      /\ \A j \in 1..(Len(before) + Len(after)) :
            (before \o after)[j] = IF j <= Len(before) THEN before[j] ELSE after[j - Len(before)]
  BY <1>2, <1>3, ConcatProperties
<1>5. DOMAIN (before \o after) = 1..(Len(q) - 1)
  <2>1. Len(before \o after) = Len(q) - 1
    BY <1>1, <1>2, <1>3, <1>4
  <2> QED
    BY <1>4, <2>1, LenProperties
<1>6. \A j \in 1..(Len(q) - 1) : (before \o after)[j] = IF j < i THEN q[j] ELSE q[j + 1]
  <2> SUFFICES ASSUME NEW j \in 1..(Len(q) - 1)
               PROVE  (before \o after)[j] = IF j < i THEN q[j] ELSE q[j + 1]
    OBVIOUS
  <2>1. (before \o after)[j] = IF j <= i - 1 THEN before[j] ELSE after[j - (i - 1)]
    BY <1>1, <1>2, <1>3, <1>4
  <2>2. ASSUME j < i PROVE (before \o after)[j] = q[j]
    BY <2>1, <2>2, <1>1, <1>2
  <2>3. ASSUME ~(j < i) PROVE (before \o after)[j] = q[j + 1]
    <3>1. j - (i - 1) \in 1..(Len(q) - i) /\ i + (j - (i - 1)) = j + 1
      BY <1>1, <2>3
    <3> QED
      BY <1>1, <1>3, <2>1, <2>3, <3>1
  <2> QED
    BY <2>2, <2>3
<1> QED
  BY <1>4, <1>5, <1>6 DEF Without, before, after

-----------------------------------------------------------------------------
(* Attempts and requests *)

LEMMA AttemptParts ==
  ASSUME NEW a \in Attempts
  PROVE  a = <<a[1], a[2]>> /\ a[1] \in Sessions /\ a[2] \in 1..MaxAttempts
BY DEF Attempts

LEMMA AttemptPair ==
  ASSUME NEW s \in Sessions, NEW n \in 1..MaxAttempts
  PROVE  <<s, n>> \in Attempts /\ <<s, n>>[1] = s /\ <<s, n>>[2] = n
BY DEF Attempts

\* What the invariants know of a request stays.
Same(a) ==
  /\ req'[a].pc = req[a].pc /\ req'[a].key = req[a].key
  /\ req'[a].result = req[a].result

LEMMA OneRequest ==
  ASSUME TypeOK, NEW a \in Attempts, NEW r \in Requests, req' = [req EXCEPT ![a] = r]
  PROVE  /\ req' \in [Attempts -> Requests] /\ req'[a] = r
         /\ \A b \in Attempts \ {a} : req'[b] = req[b]
BY DEF TypeOK

\* Setting the watch channel of one prompt.
LEMMA SetCancel ==
  ASSUME TypeOK, NEW a \in Attempts, req' = [req EXCEPT ![a].cancel = TRUE]
  PROVE  req' \in [Attempts -> Requests] /\ \A b \in Attempts : Same(b)
<1> DEFINE r == [req[a] EXCEPT !.cancel = TRUE]
<1>0. req[a] \in Requests
  BY DEF TypeOK
<1>1. r \in Requests /\ r.pc = req[a].pc /\ r.key = req[a].key /\ r.result = req[a].result
  BY <1>0 DEF Requests
<1>2. req' = [req EXCEPT ![a] = r]
  OBVIOUS
<1> HIDE DEF r
<1> QED
  BY <1>1, <1>2, OneRequest DEF Same

\* Answering the oneshot of one prompt.
LEMMA SetResult ==
  ASSUME TypeOK, NEW a \in Attempts, NEW x \in Results
  PROVE  /\ [req EXCEPT ![a].result = x] \in [Attempts -> Requests]
         /\ [req EXCEPT ![a].result = x][a].pc = req[a].pc
         /\ [req EXCEPT ![a].result = x][a].key = req[a].key
         /\ [req EXCEPT ![a].result = x][a].result = x
         /\ \A b \in Attempts \ {a} : [req EXCEPT ![a].result = x][b] = req[b]
<1> DEFINE r == [req[a] EXCEPT !.result = x]
<1>0. req[a] \in Requests
  BY DEF TypeOK
<1>1. /\ r \in Requests /\ r.pc = req[a].pc /\ r.key = req[a].key
      /\ r.result = x
  BY <1>0 DEF Requests
<1>2. [req EXCEPT ![a].result = x] = [req EXCEPT ![a] = r]
  OBVIOUS
<1>3. req \in [Attempts -> Requests]
  BY DEF TypeOK
<1> HIDE DEF r
<1> QED
  BY <1>1, <1>2, <1>3

\* Steps that change a field the invariants do not know, of any number of prompts.
LEMMA QuietRequests ==
  ASSUME TypeOK,
         \/ UNCHANGED req
         \/ \E s \in Sessions : Cancel(s) \/ CloseSession(s)
         \/ \E a \in Attempts : TaskAcked(a) \/ AgentIdle(a)
         \/ \E a \in Attempts, r \in {"ok", "failed", "paused"} : AgentAnswers(a, r)
         \/ MainFnEnds,
         Reserved
  PROVE  req' \in [Attempts -> Requests] /\ \A b \in Attempts : Same(b)
<1>0. req \in [Attempts -> Requests]
  BY DEF TypeOK
<1>1. CASE UNCHANGED req
  BY <1>0, <1>1 DEF Same
<1>2. ASSUME NEW s \in Sessions, Cancel(s) \/ CloseSession(s)
      PROVE  req' \in [Attempts -> Requests] /\ \A b \in Attempts : Same(b)
  <2>1. CASE UNCHANGED req
    BY <1>0, <2>1 DEF Same
  <2>2. CASE turn[s] # NoTurn /\ req' = [req EXCEPT ![<<s, turn[s].n>>].cancel = TRUE]
    <3>1. turn[s].n \in 1..MaxAttempts
      BY <2>2 DEF TypeOK, Reserved
    <3>2. <<s, turn[s].n>> \in Attempts
      BY <3>1, AttemptPair
    <3> QED
      BY <2>2, <3>2, SetCancel
  <2> QED
    BY <1>2, <2>1, <2>2 DEF Cancel, CloseSession
<1>3. ASSUME NEW a \in Attempts, TaskAcked(a)
      PROVE  req' \in [Attempts -> Requests] /\ \A b \in Attempts : Same(b)
  <2> DEFINE r == [req[a] EXCEPT !.acked = TRUE]
  <2>1. r \in Requests /\ r.pc = req[a].pc /\ r.key = req[a].key /\ r.result = req[a].result
    BY <1>0 DEF Requests
  <2>2. req' = [req EXCEPT ![a] = r]
    BY <1>3 DEF TaskAcked
  <2> HIDE DEF r
  <2> QED
    BY <2>1, <2>2, OneRequest DEF Same
<1>4. ASSUME NEW a \in Attempts, NEW x \in {"ok", "failed", "paused"}, AgentAnswers(a, x)
      PROVE  req' \in [Attempts -> Requests] /\ \A b \in Attempts : Same(b)
  <2> DEFINE r == [req[a] EXCEPT !.resp = x]
  <2>1. r \in Requests /\ r.pc = req[a].pc /\ r.key = req[a].key /\ r.result = req[a].result
    BY <1>0 DEF Requests
  <2>2. req' = [req EXCEPT ![a] = r]
    BY <1>4 DEF AgentAnswers
  <2> HIDE DEF r
  <2> QED
    BY <2>1, <2>2, OneRequest DEF Same
<1>5. ASSUME NEW a \in Attempts, AgentIdle(a)
      PROVE  req' \in [Attempts -> Requests] /\ \A b \in Attempts : Same(b)
  <2> DEFINE to == <<a[1], turnEnds[a[1]]>>
             r(b) == [req[b] EXCEPT !.idled = @ \/ b = a, !.end = IF b = to THEN a[2] ELSE @]
  <2>1. req' = [b \in Attempts |-> r(b)]
    BY <1>5 DEF AgentIdle
  <2>2. a[2] \in 0..MaxAttempts
    BY AttemptParts
  <2>3. ASSUME NEW b \in Attempts
        PROVE  /\ r(b) \in Requests /\ r(b).pc = req[b].pc /\ r(b).key = req[b].key
               /\ r(b).result = req[b].result
    <3>1. req[b] \in Requests
      BY <1>0
    <3>2. (req[b].idled \/ b = a) \in BOOLEAN
      OBVIOUS
    <3> QED
      BY <2>2, <3>1, <3>2 DEF Requests
  <2> HIDE DEF r
  <2> QED
    BY <2>1, <2>3 DEF Same
<1>6. CASE MainFnEnds
  <2> DEFINE r(b) == IF req[b].resp = None THEN [req[b] EXCEPT !.resp = "failed"] ELSE req[b]
  <2>1. req' = [b \in Attempts |-> r(b)]
    BY <1>6 DEF MainFnEnds
  <2>2. ASSUME NEW b \in Attempts
        PROVE  /\ r(b) \in Requests /\ r(b).pc = req[b].pc /\ r(b).key = req[b].key
               /\ r(b).result = req[b].result
    BY <1>0 DEF Requests
  <2> HIDE DEF r
  <2> QED
    BY <2>1, <2>2 DEF Same
<1> QED
  BY <1>1, <1>2, <1>3, <1>4, <1>5, <1>6

\* What start_prompt_task is called with: prompts of different sessions.
CanStart(T, act, ends, reqs) ==
  /\ T \subseteq Attempts /\ \A a, b \in T : (a[1] = b[1] => a = b)
  /\ act \in [Sessions -> 0..MaxAttempts] /\ ends \in [Sessions -> 0..MaxAttempts]
  /\ reqs \in [Attempts -> Requests]

LEMMA StartFacts ==
  ASSUME NEW T, NEW act, NEW ends, NEW reqs, NEW running, CanStart(T, act, ends, reqs),
         StartPromptTasks(T, act, ends, reqs, running)
  PROVE  /\ active' \in [Sessions -> 0..MaxAttempts] /\ turnEnds' \in [Sessions -> 0..MaxAttempts]
         /\ \A a \in T : active'[a[1]] = a[2]
         /\ \A s \in Sessions : (\A a \in T : a[1] # s) => active'[s] = act[s]
         /\ req' \in [Attempts -> Requests]
         /\ \A a \in Attempts : /\ req'[a].pc = reqs[a].pc /\ req'[a].key = reqs[a].key
                               /\ req'[a].result = reqs[a].result
         /\ tasks' = running \union T
<1> DEFINE started(s) == {a \in T : a[1] = s}
           number(s)  == (CHOOSE a \in started(s) : TRUE)[2]
           r(a) == IF a \in T THEN [reqs[a] EXCEPT !.resp = IF mainFn = "wait" THEN None
                                                                             ELSE "failed"]
                              ELSE reqs[a]
<1>0. /\ T \subseteq Attempts /\ \A a, b \in T : (a[1] = b[1] => a = b)
      /\ act \in [Sessions -> 0..MaxAttempts] /\ ends \in [Sessions -> 0..MaxAttempts]
      /\ reqs \in [Attempts -> Requests]
  BY DEF CanStart
<1>1. /\ active' = [s \in Sessions |-> IF started(s) # {} THEN number(s) ELSE act[s]]
      /\ turnEnds' = [s \in Sessions |-> IF v2 /\ started(s) # {} THEN number(s) ELSE ends[s]]
      /\ req' = [a \in Attempts |-> r(a)]
      /\ tasks' = running \union T
  BY DEF StartPromptTasks
<1>2. ASSUME NEW a \in T PROVE started(a[1]) # {} /\ number(a[1]) = a[2]
  <2>1. started(a[1]) = {a}
    BY <1>0
  <2>2. (CHOOSE b \in started(a[1]) : TRUE) = a
    BY <2>1, Zenon
  <2> QED
    BY <2>1, <2>2
<1>3. ASSUME NEW s \in Sessions, started(s) # {}
      PROVE  number(s) \in 1..MaxAttempts
  <2>1. PICK a \in T : a[1] = s
    BY <1>3
  <2>2. number(a[1]) = a[2]
    BY <1>2
  <2>3. number(s) = a[2]
    BY <2>1, <2>2
  <2> QED
    BY <1>0, <2>3, AttemptParts
<1>4. ASSUME NEW s \in Sessions, \A a \in T : a[1] # s PROVE started(s) = {}
  BY <1>4
<1>5. ASSUME NEW a \in Attempts
      PROVE  /\ r(a) \in Requests /\ r(a).pc = reqs[a].pc /\ r(a).key = reqs[a].key
             /\ r(a).result = reqs[a].result
  <2>1. reqs[a] \in Requests
    BY <1>0
  <2> QED
    BY <2>1 DEF Requests
<1> HIDE DEF started, number, r
<1>6. active' \in [Sessions -> 0..MaxAttempts] /\ turnEnds' \in [Sessions -> 0..MaxAttempts]
  BY <1>0, <1>1, <1>3
<1>7. \A a \in T : active'[a[1]] = a[2]
  BY <1>0, <1>1, <1>2, AttemptParts
<1>8. \A s \in Sessions : (\A a \in T : a[1] # s) => active'[s] = act[s]
  BY <1>1, <1>4
<1>9. /\ req' \in [Attempts -> Requests]
      /\ \A a \in Attempts : /\ req'[a].pc = reqs[a].pc /\ req'[a].key = reqs[a].key
                            /\ req'[a].result = reqs[a].result
  BY <1>1, <1>5
<1> QED
  BY <1>1, <1>6, <1>7, <1>8, <1>9

-----------------------------------------------------------------------------
(* A session's thread *)

\* The number of the next prompt of a session has not been used.
LEMMA NextIsNew ==
  ASSUME TypeOK, Numbered, NEW s \in Sessions, NextAttempt(s) <= MaxAttempts
  PROVE  /\ NextAttempt(s) \in 1..MaxAttempts /\ NextAttempt(s) \notin Started(s)
         /\ \E k \in 0..MaxAttempts : Started(s) = 1..k /\ NextAttempt(s) = k + 1
<1>1. PICK k \in 0..MaxAttempts : Started(s) = 1..k
  BY DEF Numbered
<1>2. MaxAttempts \in Nat
  BY LimitsAssumption
<1>3. Cardinality(1..k) = k
  BY <1>2, FS_Interval
<1>4. NextAttempt(s) = k + 1
  BY <1>1, <1>3 DEF NextAttempt
<1> QED
  BY <1>1, <1>2, <1>4

\* A turn that ends, or is cancelled or lost, and every step that leaves the
\* threads alone.
LEMMA TurnFrame ==
  ASSUME TypeOK, TurnInv,
         \A a \in Attempts : req'[a].pc = req[a].pc /\ req'[a].key = req[a].key,
         \A s \in Sessions :
           /\ turn'[s] # NoTurn => /\ turn[s] # NoTurn /\ turn'[s].n = turn[s].n
                                  /\ activeTurn'[s] = activeTurn[s]
           /\ paused'[s] \in {paused[s], 0}
  PROVE  TurnInv'
<1>1. ASSUME NEW s \in Sessions PROVE Started(s)' = Started(s)
  BY AttemptPair DEF Started
<1>2. Numbered'
  BY <1>1 DEF TurnInv, Numbered
<1>3. KeysDistinct'
  <2>1. \A s \in Sessions : 0 \notin Started(s)
    BY DEF Started
  <2>2. \A s \in Sessions : paused'[s] \in Started(s)' \union {0}
    BY <1>1 DEF TurnInv, KeysDistinct
  <2>3. ASSUME NEW a \in Attempts, Sent(a)'
        PROVE  req'[a].key \in Started(a[1])' /\ req'[a].key # paused'[a[1]]
    <3>1. a[1] \in Sessions
      BY AttemptParts
    <3>2. req[a].key \in Started(a[1]) /\ req[a].key # paused[a[1]]
      BY <2>3 DEF TurnInv, KeysDistinct, Sent
    <3> QED
      BY <1>1, <2>1, <3>1, <3>2
  <2>4. \A a, b \in Attempts :
           Sent(a)' /\ Sent(b)' /\ a[1] = b[1] /\ req'[a].key = req'[b].key => a = b
    BY DEF TurnInv, KeysDistinct, Sent
  <2> QED
    BY <2>2, <2>3, <2>4 DEF KeysDistinct
<1>4. Reserved'
  <2> SUFFICES ASSUME NEW s \in Sessions, turn'[s] # NoTurn
               PROVE  /\ turn'[s].n # 0 /\ req'[<<s, turn'[s].n>>].pc = "sent"
                      /\ activeTurn'[s] = req'[<<s, turn'[s].n>>].key
    BY DEF Reserved, Owner, Sent
  <2>1. turn[s] # NoTurn /\ turn'[s].n = turn[s].n /\ activeTurn'[s] = activeTurn[s]
    OBVIOUS
  <2>2. /\ turn[s].n # 0 /\ req[<<s, turn[s].n>>].pc = "sent"
        /\ activeTurn[s] = req[<<s, turn[s].n>>].key
    BY <2>1 DEF TurnInv, Reserved, Owner, Sent
  <2>3. turn[s].n \in 1..MaxAttempts
    BY <2>2 DEF TypeOK
  <2>4. <<s, turn[s].n>> \in Attempts
    BY <2>3, AttemptPair
  <2> QED
    BY <2>1, <2>2, <2>4
<1> QED
  BY <1>2, <1>3, <1>4 DEF TurnInv

\* The commands of the channel.
LEMMA CommandFacts ==
  /\ \A a \in Attempts : /\ Prompt(a) \in CommandSet /\ Prompt(a).k = "Prompt"
                        /\ <<Prompt(a).s, Prompt(a).n>> = a
  /\ \A s \in Sessions : /\ CancelSession(s) \in CommandSet /\ Control(s) \in CommandSet
                        /\ CancelSession(s).k # "Prompt"
  /\ \A s \in Sessions \union {None} : Control(s) \in CommandSet /\ Control(s).k # "Prompt"
  /\ CloseCommand \in CommandSet /\ CloseCommand.k # "Prompt"
  /\ \A c \in CommandSet : c.k = "Prompt" => <<c.s, c.n>> \in Attempts /\ c = Prompt(<<c.s, c.n>>)
  /\ \A c \in CommandSet : c.k = "CancelSession" => c.s \in Sessions
  /\ \A c \in CommandSet : c.k = "Control" => c.s \in Sessions \union {None}
<1>1. \A a \in Attempts : <<Prompt(a).s, Prompt(a).n>> = a /\ Prompt(a).k = "Prompt"
  BY AttemptParts DEF Prompt
<1>2. \A c \in CommandSet : c.k = "Prompt" => \E a \in Attempts : c = Prompt(a)
  BY DEF CommandSet, CancelSession, Control, CloseCommand
<1>3. \A c \in CommandSet : c.k = "Prompt" => <<c.s, c.n>> \in Attempts /\ c = Prompt(<<c.s, c.n>>)
  BY <1>1, <1>2
<1>4. /\ \A a \in Attempts : Prompt(a) \in CommandSet
      /\ \A s \in Sessions : CancelSession(s) \in CommandSet /\ Control(s) \in CommandSet
      /\ \A s \in Sessions \union {None} : Control(s) \in CommandSet
      /\ CloseCommand \in CommandSet
  BY DEF CommandSet
<1>5. /\ \A s : CancelSession(s).k # "Prompt" /\ Control(s).k # "Prompt"
      /\ CloseCommand.k # "Prompt"
  BY DEF CancelSession, Control, CloseCommand
<1>6. \A c \in CommandSet : c.k = "CancelSession" => c.s \in Sessions
  BY DEF CommandSet, Prompt, CancelSession, Control, CloseCommand
<1>7. \A c \in CommandSet : c.k = "Control" => c.s \in Sessions \union {None}
  BY DEF CommandSet, Prompt, CancelSession, Control, CloseCommand
<1> QED
  BY <1>1, <1>3, <1>4, <1>5, <1>6, <1>7

\* send_prompt: the new turn has a key of its own, or takes the paused one.
LEMMA SendTurn ==
  ASSUME TypeOK, TurnInv, NEW s \in Sessions, NEW resume \in BOOLEAN, SendPrompt(s, resume)
  PROVE  /\ TypeOK' /\ TurnInv'
         /\ \E a \in Attempts :
              /\ req[a].pc = None /\ req'[a].result = req[a].result
              /\ \A b \in Attempts \ {a} : Same(b)
              /\ \/ Sent(a)' /\ commands' = Append(commands, Prompt(a))
                 \/ req'[a].pc = "done" /\ commands' = commands
<1>1. /\ turn[s] = NoTurn /\ NextAttempt(s) <= MaxAttempts
      /\ resume => paused[s] # 0
      /\ paused' = [paused EXCEPT ![s] = 0]
      /\ UNCHANGED <<v2, threads, closing, driverVars, calls, closeVars>>
  BY DEF SendPrompt
<1>2. PICK n \in 1..MaxAttempts :
        /\ n = NextAttempt(s) /\ n \notin Started(s)
        /\ \E k \in 0..MaxAttempts : Started(s) = 1..k /\ n = k + 1
  BY <1>1, NextIsNew DEF TurnInv
<1>3. PICK a \in Attempts : a = <<s, n>>
  BY AttemptPair
<1>4. req[a].pc = None
  BY <1>2, <1>3 DEF Started
<1>0. PICK key \in 0..MaxAttempts : key = IF resume THEN paused[s] ELSE n
  BY LimitsAssumption DEF TypeOK
<1>5. /\ key \in Started(s) \union {n} /\ key # 0
      /\ \A b \in Attempts : Sent(b) /\ b[1] = s => req[b].key # key
  <2>1. paused[s] \in Started(s) \union {0} /\ Started(s) \subseteq 1..MaxAttempts
    BY DEF TurnInv, KeysDistinct, Started
  <2>2. \A b \in Attempts : Sent(b) /\ b[1] = s =>
          req[b].key \in Started(s) /\ req[b].key # paused[s]
    BY DEF TurnInv, KeysDistinct
  <2> QED
    BY <1>0, <1>1, <1>2, <2>1, <2>2
<1>6. /\ req \in [Attempts -> Requests] /\ req[a] \in Requests
      /\ turn \in [Sessions -> [n : 0..MaxAttempts, cancelling : BOOLEAN]]
      /\ activeTurn \in [Sessions -> 0..MaxAttempts] /\ paused \in [Sessions -> 0..MaxAttempts]
      /\ commands \in Seq(CommandSet)
  BY <1>3 DEF TypeOK
<1> DEFINE sent == [req[a] EXCEPT !.pc = "sent", !.key = key]
           done == [req[a] EXCEPT !.pc = "done"]
<1>7. \/ /\ req' = [req EXCEPT ![a] = sent]
         /\ turn' = [turn EXCEPT ![s] = [n |-> n, cancelling |-> FALSE]]
         /\ activeTurn' = [activeTurn EXCEPT ![s] = key]
         /\ commands' = Append(commands, Prompt(a))
      \/ /\ req' = [req EXCEPT ![a] = done]
         /\ turn' = turn /\ activeTurn' = [activeTurn EXCEPT ![s] = 0]
         /\ commands' = commands
  <2>1. <<s, NextAttempt(s)>> = a /\ <<s, NextAttempt(s)>>[2] = n
    BY <1>2, <1>3
  <2>2. CASE ChannelOpen
    BY <1>0, <2>1, <2>2 DEF SendPrompt
  <2>3. CASE ~ChannelOpen
    BY <2>1, <2>3 DEF SendPrompt
  <2> QED
    BY <2>2, <2>3
<1>8. /\ sent \in Requests /\ sent.pc = "sent" /\ sent.key = key /\ sent.result = req[a].result
      /\ done \in Requests /\ done.pc = "done" /\ done.result = req[a].result
  BY <1>6 DEF Requests
<1> HIDE DEF sent, done
<1>9. /\ req' \in [Attempts -> Requests] /\ \A b \in Attempts \ {a} : req'[b] = req[b]
      /\ req'[a].result = req[a].result
      /\ \A t \in Sessions \ {s} : turn'[t] = turn[t] /\ activeTurn'[t] = activeTurn[t]
                                  /\ paused'[t] = paused[t]
      /\ paused'[s] = 0
  BY <1>1, <1>3, <1>6, <1>7, <1>8
<1>10. \/ /\ req'[a].pc = "sent" /\ req'[a].key = key
          /\ turn'[s].n = n /\ activeTurn'[s] = key
          /\ commands' = Append(commands, Prompt(a))
       \/ req'[a].pc = "done" /\ turn'[s] = NoTurn /\ commands' = commands
  BY <1>1, <1>3, <1>6, <1>7, <1>8
<1>11. TypeOK'
  <2>0. [n |-> n, cancelling |-> FALSE] \in [n : 0..MaxAttempts, cancelling : BOOLEAN]
    OBVIOUS
  <2>1. turn' \in [Sessions -> [n : 0..MaxAttempts, cancelling : BOOLEAN]]
    BY <1>6, <1>7, <2>0
  <2>2. activeTurn' \in [Sessions -> 0..MaxAttempts] /\ paused' \in [Sessions -> 0..MaxAttempts]
    BY <1>1, <1>5, <1>6, <1>7, LimitsAssumption
  <2>3. commands' \in Seq(CommandSet)
    <3>1. Prompt(a) \in CommandSet
      BY CommandFacts
    <3>2. Append(commands, Prompt(a)) \in Seq(CommandSet)
      BY <1>6, <3>1, AppendFacts
    <3> QED
      BY <1>6, <1>7, <3>2
  <2>4. UNCHANGED <<v2, threads, closing, driver, queued, tasks, active, turnEnds, control, calls,
                    mainFn, closer, closedOnce>>
    BY <1>1 DEF driverVars, closeVars
  <2>5. {activeTurn', paused', active', turnEnds'} \subseteq [Sessions -> 0..MaxAttempts]
    BY <2>2, <2>4 DEF TypeOK
  <2> QED
    BY <1>9, <2>1, <2>3, <2>4, <2>5 DEF TypeOK
<1>12. /\ Started(s)' = Started(s) \union {n}
       /\ \A t \in Sessions \ {s} : Started(t)' = Started(t)
  <2>1. a = <<s, n>>
    BY <1>3
  <2>2. ASSUME NEW m \in 1..MaxAttempts
        PROVE  req'[<<s, m>>].pc # None <=> m = n \/ req[<<s, m>>].pc # None
    <3>1. <<s, m>> \in Attempts
      BY AttemptPair
    <3>2. CASE m = n
      BY <1>10, <2>1, <3>2 DEF None
    <3>3. CASE m # n
      BY <1>9, <2>1, <3>1, <3>3
    <3> QED
      BY <3>2, <3>3
  <2>3. ASSUME NEW t \in Sessions \ {s}, NEW m \in 1..MaxAttempts
        PROVE  req'[<<t, m>>] = req[<<t, m>>]
    BY <1>9, <2>1, AttemptPair
  <2> QED
    BY <1>3, <2>2, <2>3 DEF Started
<1>13. Numbered'
  <2>1. \E k \in 0..MaxAttempts : Started(s)' = 1..k
    BY <1>2, <1>12
  <2> QED
    BY <1>12, <2>1 DEF TurnInv, Numbered
<1>14. a[1] = s /\ a[2] = n
  BY <1>3
<1>15. ASSUME NEW b \in Attempts, b # a, Sent(b)'
       PROVE  /\ Sent(b) /\ req'[b].key = req[b].key /\ req[b].key \in Started(b[1])'
              /\ req[b].key # paused'[b[1]] /\ (b[1] = s => req[b].key # key)
  <2>1. Sent(b) /\ req'[b] = req[b] /\ b[1] \in Sessions
    BY <1>9, <1>15, AttemptParts DEF Sent
  <2>2. req[b].key \in Started(b[1]) /\ req[b].key # paused[b[1]] /\ 0 \notin Started(b[1])
    BY <2>1 DEF TurnInv, KeysDistinct, Started
  <2>3. req[b].key \in Started(b[1])'
    BY <1>12, <2>1, <2>2
  <2>4. req[b].key # paused'[b[1]]
    BY <1>9, <2>1, <2>2
  <2> QED
    BY <1>5, <2>1, <2>3, <2>4
<1>16. Sent(a)' => req'[a].key = key /\ key \in Started(s)' /\ key # paused'[s]
  BY <1>5, <1>9, <1>10, <1>12 DEF Sent
<1>17. KeysDistinct'
  <2>1. \A t \in Sessions : paused'[t] \in Started(t)' \union {0}
    BY <1>9, <1>12 DEF TurnInv, KeysDistinct
  <2>2. \A b \in Attempts : Sent(b)' =>
           req'[b].key \in Started(b[1])' /\ req'[b].key # paused'[b[1]]
    BY <1>14, <1>15, <1>16
  <2>3. ASSUME NEW b \in Attempts, NEW c \in Attempts, Sent(b)', Sent(c)', b[1] = c[1],
               req'[b].key = req'[c].key
        PROVE  b = c
    BY <1>14, <1>15, <1>16, <2>3 DEF TurnInv, KeysDistinct
  <2> QED
    BY <2>1, <2>2, <2>3 DEF KeysDistinct
<1>18. Reserved'
  <2> SUFFICES ASSUME NEW t \in Sessions, turn'[t] # NoTurn
               PROVE  /\ turn'[t].n # 0 /\ req'[<<t, turn'[t].n>>].pc = "sent"
                      /\ activeTurn'[t] = req'[<<t, turn'[t].n>>].key
    BY DEF Reserved, Owner, Sent
  <2>1. CASE t = s
    <3>1. req'[a].pc = "sent" /\ req'[a].key = key /\ turn'[s].n = n /\ activeTurn'[s] = key
      BY <1>10, <2>1
    <3>2. <<t, turn'[t].n>> = a
      BY <1>3, <2>1, <3>1
    <3> QED
      BY <2>1, <3>1, <3>2
  <2>2. CASE t # s
    <3>1. turn[t] # NoTurn /\ turn'[t] = turn[t] /\ activeTurn'[t] = activeTurn[t]
      BY <1>9, <2>2
    <3>2. /\ turn[t].n # 0 /\ req[<<t, turn[t].n>>].pc = "sent"
          /\ activeTurn[t] = req[<<t, turn[t].n>>].key
      BY <3>1 DEF TurnInv, Reserved, Owner, Sent
    <3>3. turn[t].n \in 1..MaxAttempts
      BY <1>6, <3>2
    <3>4. <<t, turn[t].n>> \in Attempts \ {a}
      BY <1>14, <2>2, <3>3, AttemptPair
    <3> QED
      BY <1>9, <3>1, <3>2, <3>4
  <2> QED
    BY <2>1, <2>2
<1>19. \E b \in Attempts :
         /\ req[b].pc = None /\ req'[b].result = req[b].result
         /\ \A c \in Attempts \ {b} : Same(c)
         /\ \/ Sent(b)' /\ commands' = Append(commands, Prompt(b))
            \/ req'[b].pc = "done" /\ commands' = commands
  <2>1. \A c \in Attempts \ {a} : Same(c)
    BY <1>9 DEF Same
  <2> QED
    BY <1>3, <1>4, <1>9, <1>10, <2>1 DEF Sent
<1> QED
  BY <1>11, <1>13, <1>17, <1>18, <1>19 DEF TurnInv

\* The end of send_prompt: keys are distinct, so that it is the holder of the
\* reservation, and nobody else, who releases it.
LEMMA ReturnTurn ==
  ASSUME TypeOK, TurnInv, NEW a \in Attempts, PromptReturns(a)
  PROVE  /\ TypeOK' /\ TurnInv'
         /\ Sent(a) /\ Replied(a) /\ req'[a].pc = "done" /\ req'[a].result = None
         /\ \A b \in Attempts \ {a} : Same(b)
         /\ \A s \in Sessions : turn'[s] = turn[s] \/ (turn'[s] = NoTurn /\ Owner(s) = a)
<1> DEFINE r == [NoRequest EXCEPT !.pc = "done", !.idled = req[a].idled,
                   !.resp = IF v2 /\ req[a].resp \in {None, "ok"} THEN req[a].resp ELSE "unsent"]
           s == a[1]
           owns == turn[s] # NoTurn /\ req[<<s, turn[s].n>>].key = req[a].key
<1>1. /\ req[a].pc = "sent" /\ req[a].result # None
      /\ req' = [req EXCEPT ![a] = r]
      /\ paused' = IF req[a].result = "paused" THEN [paused EXCEPT ![s] = req[a].key] ELSE paused
      /\ turn' = [turn EXCEPT ![s] = IF owns THEN NoTurn ELSE @]
      /\ activeTurn' = [activeTurn EXCEPT ![s] = IF owns /\ @ = req[a].key THEN 0 ELSE @]
      /\ UNCHANGED <<v2, threads, closing, commands, driverVars, calls, closeVars>>
  BY DEF PromptReturns, FinishTurn
<1>2. /\ req \in [Attempts -> Requests] /\ req[a] \in Requests
      /\ turn \in [Sessions -> [n : 0..MaxAttempts, cancelling : BOOLEAN]]
      /\ activeTurn \in [Sessions -> 0..MaxAttempts] /\ paused \in [Sessions -> 0..MaxAttempts]
      /\ s \in Sessions
  BY AttemptParts DEF TypeOK
<1>3. r \in Requests /\ r.pc = "done" /\ r.result = None
  <2>1. req[a].idled \in BOOLEAN
    BY <1>2 DEF Requests
  <2>2. 0 \in 0..MaxAttempts
    BY LimitsAssumption
  <2> QED
    BY <2>1, <2>2 DEF NoRequest, Requests
<1>4. req[a].key \in 0..MaxAttempts
  BY <1>2 DEF Requests
<1> HIDE DEF r
<1>5. /\ req' \in [Attempts -> Requests] /\ req'[a] = r
      /\ \A b \in Attempts \ {a} : req'[b] = req[b]
  BY <1>1, <1>3, OneRequest
<1>6. owns <=> turn[s] # NoTurn /\ Owner(s) = a
  <2>1. ASSUME turn[s] # NoTurn
        PROVE  /\ <<s, turn[s].n>> \in Attempts /\ <<s, turn[s].n>>[1] = s
               /\ Sent(<<s, turn[s].n>>)
    <3>1. turn[s].n # 0 /\ Sent(<<s, turn[s].n>>)
      BY <1>2, <2>1 DEF TurnInv, Reserved, Owner
    <3>2. turn[s].n \in 1..MaxAttempts
      BY <1>2, <3>1
    <3> QED
      BY <1>2, <3>1, <3>2, AttemptPair
  <2>2. Sent(a)
    BY <1>1 DEF Sent
  <2> QED
    BY <2>1, <2>2 DEF TurnInv, KeysDistinct, Owner
<1> HIDE DEF owns
<1>7. TypeOK'
  <2>1. NoTurn \in [n : 0..MaxAttempts, cancelling : BOOLEAN]
    BY LimitsAssumption DEF NoTurn
  <2>2. turn' \in [Sessions -> [n : 0..MaxAttempts, cancelling : BOOLEAN]]
    BY <1>1, <1>2, <2>1
  <2>3. activeTurn' \in [Sessions -> 0..MaxAttempts] /\ paused' \in [Sessions -> 0..MaxAttempts]
    BY <1>1, <1>2, <1>4, LimitsAssumption
  <2> QED
    BY <1>1, <1>5, <2>2, <2>3 DEF TypeOK, driverVars, closeVars
<1>8. ASSUME NEW t \in Sessions PROVE Started(t)' = Started(t)
  <2>1. \A b \in Attempts : req'[b].pc # None <=> req[b].pc # None
    BY <1>1, <1>3, <1>5 DEF None
  <2> QED
    BY <2>1, AttemptPair DEF Started
<1>9. Numbered'
  BY <1>8 DEF TurnInv, Numbered
<1>10. KeysDistinct'
  <2>1. \A b \in Attempts : Sent(b)' => b # a /\ Sent(b) /\ req'[b].key = req[b].key
    BY <1>3, <1>5 DEF Sent
  <2>2. Sent(a)
    BY <1>1 DEF Sent
  <2>3. \A t \in Sessions : paused'[t] \in Started(t)' \union {0}
    BY <1>1, <1>2, <1>8, <2>2 DEF TurnInv, KeysDistinct
  <2>4. ASSUME NEW b \in Attempts, Sent(b)'
        PROVE  req'[b].key \in Started(b[1])' /\ req'[b].key # paused'[b[1]]
    <3>1. b # a /\ Sent(b) /\ req'[b].key = req[b].key /\ b[1] \in Sessions
      BY <2>1, <2>4, AttemptParts
    <3>2. req[b].key \in Started(b[1]) /\ req[b].key # paused[b[1]]
      BY <3>1 DEF TurnInv, KeysDistinct
    <3>3. b[1] = s => req[b].key # req[a].key
      BY <2>2, <3>1 DEF TurnInv, KeysDistinct
    <3> QED
      BY <1>1, <1>2, <1>8, <3>1, <3>2, <3>3
  <2>5. \A b, c \in Attempts :
          Sent(b)' /\ Sent(c)' /\ b[1] = c[1] /\ req'[b].key = req'[c].key => b = c
    BY <2>1 DEF TurnInv, KeysDistinct
  <2> QED
    BY <2>3, <2>4, <2>5 DEF KeysDistinct
<1>11. ASSUME NEW t \in Sessions
       PROVE  \/ /\ turn'[t] = turn[t] /\ activeTurn'[t] = activeTurn[t]
                 /\ turn[t] # NoTurn => Owner(t) # a
              \/ turn'[t] = NoTurn /\ Owner(t) = a
  <2>1. CASE t # s
    <3>1. Owner(t) # a
      BY <2>1 DEF Owner
    <3>2. turn'[t] = turn[t] /\ activeTurn'[t] = activeTurn[t]
      BY <1>1, <1>2, <2>1
    <3> QED
      BY <3>1, <3>2
  <2>2. CASE t = s /\ owns
    <3>1. turn'[t] = NoTurn
      BY <1>1, <1>2, <2>2
    <3> QED
      BY <1>6, <2>2, <3>1
  <2>3. CASE t = s /\ ~owns
    <3>1. turn'[t] = turn[t] /\ activeTurn'[t] = activeTurn[t]
      BY <1>1, <1>2, <2>3
    <3>2. turn[t] # NoTurn => Owner(t) # a
      BY <1>6, <2>3
    <3> QED
      BY <3>1, <3>2
  <2> QED
    BY <2>1, <2>2, <2>3
<1>12. Reserved'
  <2> SUFFICES ASSUME NEW t \in Sessions, turn'[t] # NoTurn
               PROVE  /\ turn'[t].n # 0 /\ req'[<<t, turn'[t].n>>].pc = "sent"
                      /\ activeTurn'[t] = req'[<<t, turn'[t].n>>].key
    BY DEF Reserved, Owner, Sent
  <2>1. turn[t] # NoTurn /\ turn'[t] = turn[t] /\ activeTurn'[t] = activeTurn[t] /\ Owner(t) # a
    BY <1>11
  <2>2. /\ turn[t].n # 0 /\ req[<<t, turn[t].n>>].pc = "sent"
        /\ activeTurn[t] = req[<<t, turn[t].n>>].key
    BY <2>1 DEF TurnInv, Reserved, Owner, Sent
  <2>3. turn[t].n \in 1..MaxAttempts
    BY <1>2, <2>2
  <2>4. <<t, turn[t].n>> \in Attempts \ {a}
    BY <2>1, <2>3, AttemptPair DEF Owner
  <2> QED
    BY <1>5, <2>1, <2>2, <2>4
<1>13. \A b \in Attempts \ {a} : Same(b)
  BY <1>5 DEF Same
<1> QED
  BY <1>1, <1>3, <1>5, <1>7, <1>9, <1>10, <1>11, <1>12, <1>13 DEF TurnInv, Sent, Replied

-----------------------------------------------------------------------------
(* The places of a prompt *)

\* A prompt that a step does not touch.
Stays(a) ==
  /\ Sent(a)' <=> Sent(a)
  /\ InChannel(a)' <=> InChannel(a)
  /\ InQueue(a)' <=> InQueue(a)
  /\ a \in tasks' <=> a \in tasks
  /\ Replied(a)' <=> Replied(a)

LEMMA OnePlaceStays ==
  ASSUME NEW a \in Attempts, OnePlace(a), Stays(a)
  PROVE  OnePlace(a)'
BY DEF OnePlace, Stays

\* A command arrives in the channel.
LEMMA ChannelAppend ==
  ASSUME TypeOK, ChannelOnce, NEW c \in CommandSet, commands' = Append(commands, c),
         c.k = "Prompt" => \A i \in DOMAIN commands : commands[i] # c
  PROVE  /\ commands' \in Seq(CommandSet) /\ ChannelOnce'
         /\ \A a \in Attempts : InChannel(a)' <=> InChannel(a) \/ c = Prompt(a)
<1>1. Len(commands) \in Nat /\ DOMAIN commands = 1..Len(commands)
  BY SeqFacts DEF TypeOK
<1>2. /\ commands' \in Seq(CommandSet) /\ DOMAIN commands' = 1..(Len(commands) + 1)
      /\ \A i \in 1..Len(commands) : commands'[i] = commands[i]
      /\ commands'[Len(commands) + 1] = c
  BY AppendFacts DEF TypeOK
<1>3. ChannelOnce'
  <2> SUFFICES ASSUME NEW i \in DOMAIN commands', NEW j \in DOMAIN commands',
                      commands'[i].k = "Prompt", commands'[i] = commands'[j]
               PROVE  i = j
    BY DEF ChannelOnce
  <2>1. CASE i \in 1..Len(commands) /\ j \in 1..Len(commands)
    BY <1>1, <1>2, <2>1 DEF ChannelOnce
  <2>2. CASE i = Len(commands) + 1 /\ j \in 1..Len(commands)
    BY <1>1, <1>2, <2>2
  <2>3. CASE j = Len(commands) + 1 /\ i \in 1..Len(commands)
    BY <1>1, <1>2, <2>3
  <2> QED
    BY <1>1, <1>2, <2>1, <2>2, <2>3
<1>4. ASSUME NEW a \in Attempts PROVE InChannel(a)' <=> InChannel(a) \/ c = Prompt(a)
  <2>1. InChannel(a)' <=> \E i \in 1..(Len(commands) + 1) : commands'[i] = Prompt(a)
    BY <1>2 DEF InChannel
  <2>2. InChannel(a) <=> \E i \in 1..Len(commands) : commands[i] = Prompt(a)
    BY <1>1 DEF InChannel
  <2> QED
    BY <1>1, <1>2, <2>1, <2>2
<1> QED
  BY <1>2, <1>3, <1>4

\* The driver receives a command.
LEMMA ChannelTail ==
  ASSUME TypeOK, ChannelOnce, commands # <<>>, commands' = Tail(commands)
  PROVE  /\ commands' \in Seq(CommandSet) /\ ChannelOnce' /\ Head(commands) \in CommandSet
         /\ \A a \in Attempts : InChannel(a)' <=> InChannel(a) /\ Head(commands) # Prompt(a)
         /\ \A a \in Attempts : Head(commands) = Prompt(a) => InChannel(a)
<1>1. Len(commands) \in Nat /\ DOMAIN commands = 1..Len(commands)
      /\ \A i \in 1..Len(commands) : commands[i] \in CommandSet
  BY SeqFacts DEF TypeOK
<1>2. /\ commands' \in Seq(CommandSet) /\ Head(commands) = commands[1] /\ 1 \in DOMAIN commands
      /\ DOMAIN commands' = 1..(Len(commands) - 1)
      /\ \A i \in 1..(Len(commands) - 1) : commands'[i] = commands[i + 1]
  BY TailFacts DEF TypeOK
<1>3. ChannelOnce'
  <2> SUFFICES ASSUME NEW i \in DOMAIN commands', NEW j \in DOMAIN commands',
                      commands'[i].k = "Prompt", commands'[i] = commands'[j]
               PROVE  i = j
    BY DEF ChannelOnce
  <2>1. /\ i \in Int /\ j \in Int /\ i + 1 \in DOMAIN commands /\ j + 1 \in DOMAIN commands
        /\ commands[i + 1].k = "Prompt" /\ commands[i + 1] = commands[j + 1]
    BY <1>1, <1>2
  <2>2. i + 1 = j + 1
    BY <2>1 DEF ChannelOnce
  <2> QED
    BY <2>1, <2>2
<1>4. ASSUME NEW a \in Attempts
      PROVE  InChannel(a)' <=> InChannel(a) /\ Head(commands) # Prompt(a)
  <2>1. ASSUME InChannel(a)' PROVE InChannel(a) /\ Head(commands) # Prompt(a)
    <3>1. PICK i \in 1..(Len(commands) - 1) : commands[i + 1] = Prompt(a)
      BY <1>2, <2>1 DEF InChannel
    <3>2. i + 1 \in DOMAIN commands /\ i + 1 # 1
      BY <1>1
    <3>3. commands[i + 1].k = "Prompt"
      BY <3>1, CommandFacts
    <3> QED
      BY <1>2, <3>1, <3>2, <3>3 DEF InChannel, ChannelOnce
  <2>2. ASSUME InChannel(a), Head(commands) # Prompt(a) PROVE InChannel(a)'
    <3>1. PICK i \in DOMAIN commands : commands[i] = Prompt(a)
      BY <2>2 DEF InChannel
    <3>2. i - 1 \in 1..(Len(commands) - 1) /\ (i - 1) + 1 = i
      BY <1>1, <1>2, <2>2, <3>1
    <3>3. commands'[i - 1] = Prompt(a) /\ i - 1 \in DOMAIN commands'
      BY <1>2, <3>1, <3>2
    <3> QED
      BY <3>3 DEF InChannel
  <2> QED
    BY <2>1, <2>2
<1>5. \A a \in Attempts : Head(commands) = Prompt(a) => InChannel(a)
  BY <1>2 DEF InChannel
<1> QED
  BY <1>1, <1>2, <1>3, <1>4, <1>5

\* Steps of the user, the agent and the connection: at most a command other than a
\* prompt is sent.
LEMMA PlaceFrame ==
  ASSUME TypeOK, PlaceInv, \A a \in Attempts : Same(a),
         UNCHANGED <<queued, tasks, active>>,
         driver' = driver \/ {driver, driver'} \subseteq {"loop", "control"},
         \/ commands' = commands
         \/ \E c \in CommandSet : c.k # "Prompt" /\ commands' = Append(commands, c)
  PROVE  PlaceInv' /\ commands' \in Seq(CommandSet)
<1>1. commands' \in Seq(CommandSet) /\ ChannelOnce'
      /\ \A a \in Attempts : InChannel(a)' <=> InChannel(a)
  <2>1. CASE commands' = commands
    BY <2>1 DEF PlaceInv, ChannelOnce, InChannel, TypeOK
  <2>2. ASSUME NEW c \in CommandSet, c.k # "Prompt", commands' = Append(commands, c)
        PROVE  commands' \in Seq(CommandSet) /\ ChannelOnce'
               /\ \A a \in Attempts : InChannel(a)' <=> InChannel(a)
    <3>1. \A a \in Attempts : c # Prompt(a)
      BY <2>2, CommandFacts
    <3> QED
      BY <2>2, <3>1, ChannelAppend DEF PlaceInv
  <2> QED
    BY <2>1, <2>2
<1>2. \A a \in Attempts : Stays(a)
  BY <1>1 DEF Stays, Same, Sent, InQueue, Replied
<1>3. Placed'
  BY <1>2, OnePlaceStays DEF PlaceInv, Placed
<1>4. Slots' /\ QueueInv'
  BY DEF PlaceInv, Slots, QueueInv, Occupied
<1> QED
  BY <1>1, <1>3, <1>4 DEF PlaceInv

\* A new prompt is in the channel, or its future has ended at once.
LEMMA SendPlace ==
  ASSUME TypeOK, PlaceInv, UNCHANGED driverVars, NEW a \in Attempts, req[a].pc = None,
         req'[a].result = req[a].result, \A b \in Attempts \ {a} : Same(b),
         \/ Sent(a)' /\ commands' = Append(commands, Prompt(a))
         \/ req'[a].pc = "done" /\ commands' = commands
  PROVE  PlaceInv'
<1>1. ~Sent(a)
  BY DEF Sent, None
<1>2. ~InChannel(a) /\ ~InQueue(a) /\ a \notin tasks /\ ~Replied(a)
  BY <1>1 DEF PlaceInv, Placed, OnePlace
<1>3. UNCHANGED <<driver, queued, tasks, active>>
  BY DEF driverVars
<1>4. /\ ChannelOnce'
      /\ InChannel(a)' <=> Sent(a)'
      /\ \A b \in Attempts \ {a} : InChannel(b)' <=> InChannel(b)
  <2>1. CASE Sent(a)' /\ commands' = Append(commands, Prompt(a))
    <3>1. Prompt(a) \in CommandSet
      BY CommandFacts
    <3>2. \A i \in DOMAIN commands : commands[i] # Prompt(a)
      BY <1>2 DEF InChannel
    <3>3. \A b \in Attempts \ {a} : Prompt(b) # Prompt(a)
      BY CommandFacts
    <3>4. ChannelOnce' /\ \A b \in Attempts : InChannel(b)' <=> InChannel(b) \/ Prompt(a) = Prompt(b)
      BY <2>1, <3>1, <3>2, ChannelAppend DEF PlaceInv
    <3> QED
      BY <2>1, <3>3, <3>4
  <2>2. CASE req'[a].pc = "done" /\ commands' = commands
    BY <1>2, <2>2 DEF PlaceInv, ChannelOnce, InChannel, Sent
  <2> QED
    BY <2>1, <2>2
<1>5. OnePlace(a)'
  <2>1. ~InQueue(a)' /\ a \notin tasks' /\ ~Replied(a)'
    BY <1>2, <1>3 DEF InQueue, Replied
  <2> QED
    BY <1>4, <2>1 DEF OnePlace
<1>6. ASSUME NEW b \in Attempts, b # a PROVE OnePlace(b)'
  <2>1. Stays(b)
    BY <1>3, <1>4, <1>6 DEF Stays, Same, Sent, InQueue, Replied
  <2> QED
    BY <2>1, OnePlaceStays DEF PlaceInv, Placed
<1>7. Slots' /\ QueueInv'
  BY <1>3 DEF PlaceInv, Slots, QueueInv, Occupied
<1> QED
  BY <1>4, <1>5, <1>6, <1>7 DEF PlaceInv, Placed

\* A prompt that was answered goes away.
LEMMA ReturnPlace ==
  ASSUME TypeOK, PlaceInv, UNCHANGED <<commands, driverVars>>, NEW a \in Attempts, Replied(a),
         req'[a].pc = "done", req'[a].result = None, \A b \in Attempts \ {a} : Same(b)
  PROVE  PlaceInv'
<1>1. UNCHANGED <<commands, driver, queued, tasks, active>>
  BY DEF driverVars
<1>2. ~InChannel(a) /\ ~InQueue(a) /\ a \notin tasks
  BY DEF PlaceInv, Placed, OnePlace
<1>3. OnePlace(a)'
  <2>1. ~InChannel(a)' /\ ~InQueue(a)' /\ a \notin tasks' /\ ~Sent(a)' /\ ~Replied(a)'
    BY <1>1, <1>2 DEF InChannel, InQueue, Sent, Replied
  <2> QED
    BY <2>1 DEF OnePlace
<1>4. ASSUME NEW b \in Attempts, b # a PROVE OnePlace(b)'
  <2>1. Stays(b)
    BY <1>1, <1>4 DEF Stays, Same, Sent, InChannel, InQueue, Replied
  <2> QED
    BY <2>1, OnePlaceStays DEF PlaceInv, Placed
<1>5. ChannelOnce' /\ Slots' /\ QueueInv'
  BY <1>1 DEF PlaceInv, ChannelOnce, Slots, QueueInv, Occupied
<1> QED
  BY <1>3, <1>4, <1>5 DEF PlaceInv, Placed

-----------------------------------------------------------------------------
(* Slots *)

\* Two values of active_prompts, before and after prompt a has got or lost its slot.
Takes(act, a, new) ==
  /\ act \in [Sessions -> 0..MaxAttempts] /\ new \in [Sessions -> 0..MaxAttempts]
  /\ act[a[1]] = 0 /\ new[a[1]] = a[2]
  /\ \A s \in Sessions \ {a[1]} : new[s] = act[s]
Frees(act, a, new) ==
  /\ act \in [Sessions -> 0..MaxAttempts] /\ new \in [Sessions -> 0..MaxAttempts]
  /\ new[a[1]] = 0
  /\ \A s \in Sessions \ {a[1]} : new[s] = act[s]

LEMMA SlotTaken ==
  ASSUME NEW T, NEW act, NEW new, NEW a \in Attempts, Agree(T, act), Takes(act, a, new)
  PROVE  /\ Agree(T \union {a}, new) /\ a \notin T /\ Cardinality(T) \in Nat
         /\ Cardinality(T \union {a}) = Cardinality(T) + 1
<1>1. a[1] \in Sessions /\ a[2] \in 1..MaxAttempts /\ a[2] # 0
  BY AttemptParts
<1>2. a \notin T /\ a[1] \notin Occupied(act)
  BY <1>1 DEF Agree, Occupied, Takes
<1>3. Occupied(new) = Occupied(act) \union {a[1]}
  BY <1>1 DEF Occupied, Takes
<1>4. /\ IsFiniteSet(T \union {a}) /\ Cardinality(T \union {a}) = Cardinality(T) + 1
      /\ Cardinality(T) \in Nat
  BY <1>2, FS_AddElement, FS_CardinalityType DEF Agree, Takes
<1>5. /\ IsFiniteSet(Occupied(act) \union {a[1]})
      /\ Cardinality(Occupied(act) \union {a[1]}) = Cardinality(Occupied(act)) + 1
  BY <1>2, FS_AddElement DEF Agree, Takes
<1>6. ASSUME NEW b \in Attempts PROVE b \in T \union {a} <=> new[b[1]] = b[2]
  <2>1. b = <<b[1], b[2]>> /\ a = <<a[1], a[2]>> /\ b[1] \in Sessions
    BY AttemptParts
  <2>2. CASE b[1] = a[1]
    <3>1. b \notin T
      <4>1. b[2] # 0
        BY AttemptParts
      <4> QED
        BY <2>2, <4>1 DEF Agree, Takes
    <3> QED
      BY <2>1, <2>2, <3>1 DEF Takes
  <2>3. CASE b[1] # a[1]
    BY <2>1, <2>3 DEF Agree, Takes
  <2> QED
    BY <2>2, <2>3
<1>7. /\ IsFiniteSet(Occupied(new)) /\ Cardinality(T \union {a}) = Cardinality(Occupied(new))
  BY <1>3, <1>4, <1>5 DEF Agree, Takes
<1> QED
  BY <1>2, <1>4, <1>6, <1>7 DEF Agree, Takes

LEMMA SlotFreed ==
  ASSUME NEW T, NEW act, NEW new, NEW a \in Attempts, a \in T, Agree(T, act),
         Frees(act, a, new)
  PROVE  /\ Agree(T \ {a}, new) /\ Cardinality(T) \in Nat
         /\ Cardinality(T \ {a}) = Cardinality(T) - 1
<1>1. a[1] \in Sessions /\ a[2] \in 1..MaxAttempts /\ a[2] # 0
  BY AttemptParts
<1>2. act[a[1]] = a[2] /\ a[1] \in Occupied(act)
  BY <1>1 DEF Agree, Occupied, Frees
<1>3. Occupied(new) = Occupied(act) \ {a[1]}
  BY <1>1 DEF Occupied, Frees
<1>4. /\ IsFiniteSet(T \ {a}) /\ Cardinality(T \ {a}) = Cardinality(T) - 1
      /\ Cardinality(T) \in Nat
  BY FS_RemoveElement, FS_CardinalityType DEF Agree, Frees
<1>5. /\ IsFiniteSet(Occupied(act) \ {a[1]})
      /\ Cardinality(Occupied(act) \ {a[1]}) = Cardinality(Occupied(act)) - 1
  BY <1>2, FS_RemoveElement DEF Agree, Frees
<1>6. ASSUME NEW b \in Attempts PROVE b \in T \ {a} <=> new[b[1]] = b[2]
  <2>1. b = <<b[1], b[2]>> /\ a = <<a[1], a[2]>> /\ b[1] \in Sessions /\ b[2] # 0
    BY AttemptParts
  <2>2. CASE b[1] = a[1]
    BY <1>2, <2>1, <2>2 DEF Agree, Frees
  <2>3. CASE b[1] # a[1]
    BY <2>1, <2>3 DEF Agree, Frees
  <2> QED
    BY <2>2, <2>3
<1>7. /\ IsFiniteSet(Occupied(new)) /\ Cardinality(T \ {a}) = Cardinality(Occupied(new))
  BY <1>3, <1>4, <1>5 DEF Agree, Frees
<1> QED
  BY <1>4, <1>6, <1>7 DEF Agree, Frees

-----------------------------------------------------------------------------
(* The driver *)

\* What the driver does to a session's turns: nothing.
LEMMA DriverTurn ==
  ASSUME TypeOK, TurnInv, UNCHANGED threadVars,
         \A a \in Attempts : req'[a].pc = req[a].pc /\ req'[a].key = req[a].key
  PROVE  TurnInv'
BY TurnFrame DEF threadVars

\* The prompts that wait in the queue.
LEMMA QueueFacts ==
  ASSUME TypeOK
  PROVE  /\ queued \in Seq(Attempts) /\ Len(queued) \in Nat /\ DOMAIN queued = 1..Len(queued)
         /\ \A i \in 1..Len(queued) : queued[i] \in Attempts /\ queued[i][1] \in Sessions
         /\ queued = <<>> <=> Len(queued) = 0
<1>1. queued \in Seq(Attempts)
  BY DEF TypeOK
<1>2. /\ Len(queued) \in Nat /\ DOMAIN queued = 1..Len(queued)
      /\ \A i \in 1..Len(queued) : queued[i] \in Attempts
      /\ queued = <<>> <=> Len(queued) = 0
  BY <1>1, SeqFacts
<1> QED
  BY <1>1, <1>2, AttemptParts

\* The Prompt command: one prompt leaves the channel for one other place.
LEMMA ReceivePrompt ==
  ASSUME TypeOK, PlaceInv, driver = "loop", commands # <<>>, commands' = Tail(commands),
         Head(commands).k = "Prompt", HandlePrompt(<<Head(commands).s, Head(commands).n>>),
         UNCHANGED <<v2, threadVars, driver, control, calls, closeVars>>
  PROVE  /\ TypeOK' /\ PlaceInv'
         /\ \A b \in Attempts : req'[b].pc = req[b].pc /\ req'[b].key = req[b].key
<1>1. /\ commands' \in Seq(CommandSet) /\ ChannelOnce' /\ Head(commands) \in CommandSet
      /\ \A b \in Attempts : InChannel(b)' <=> InChannel(b) /\ Head(commands) # Prompt(b)
      /\ \A b \in Attempts : Head(commands) = Prompt(b) => InChannel(b)
  BY ChannelTail DEF PlaceInv
<1>2. PICK a \in Attempts : a = <<Head(commands).s, Head(commands).n>> /\ Head(commands) = Prompt(a)
  BY <1>1, CommandFacts
<1>3. /\ InChannel(a) /\ ~InChannel(a)'
      /\ \A b \in Attempts \ {a} : InChannel(b)' <=> InChannel(b)
  BY <1>1, <1>2, CommandFacts
<1>4. Sent(a) /\ ~InQueue(a) /\ a \notin tasks /\ ~Replied(a)
  BY <1>3 DEF PlaceInv, Placed, OnePlace
<1>5. a = <<a[1], a[2]>> /\ a[1] \in Sessions /\ a[2] \in 1..MaxAttempts
  BY AttemptParts
<1>6. HandlePrompt(a)
  BY <1>2
<1>7. /\ req \in [Attempts -> Requests] /\ active \in [Sessions -> 0..MaxAttempts]
      /\ turnEnds \in [Sessions -> 0..MaxAttempts] /\ tasks \in SUBSET Attempts
  BY DEF TypeOK
<1>8. CASE active[a[1]] # 0 \/ Waits(a[1])
  <2>1. req' = [req EXCEPT ![a].result = "failed"] /\ UNCHANGED <<queued, tasks, active, turnEnds>>
    BY <1>6, <1>8 DEF HandlePrompt
  <2>2. /\ req' \in [Attempts -> Requests] /\ req'[a].pc = req[a].pc /\ req'[a].key = req[a].key
        /\ req'[a].result = "failed" /\ \A b \in Attempts \ {a} : req'[b] = req[b]
    BY <2>1, SetResult DEF Results
  <2>3. TypeOK'
    BY <1>1, <2>1, <2>2 DEF TypeOK, threadVars, closeVars
  <2>4. OnePlace(a)'
    <3>1. Sent(a)' /\ Replied(a)' /\ ~InQueue(a)' /\ a \notin tasks'
      BY <1>4, <2>1, <2>2 DEF Sent, Replied, InQueue, None
    <3> QED
      BY <1>3, <3>1 DEF OnePlace
  <2>5. ASSUME NEW b \in Attempts, b # a PROVE OnePlace(b)'
    <3>1. Stays(b)
      BY <1>3, <2>1, <2>2, <2>5 DEF Stays, Sent, InQueue, Replied
    <3> QED
      BY <3>1, OnePlaceStays DEF PlaceInv, Placed
  <2>6. Slots' /\ QueueInv'
    BY <2>1 DEF PlaceInv, Slots, QueueInv, Occupied
  <2> QED
    BY <1>1, <2>2, <2>3, <2>4, <2>5, <2>6 DEF PlaceInv, Placed
<1>9. CASE /\ active[a[1]] = 0 /\ ~Waits(a[1])
           /\ Cardinality(Occupied(active)) >= MaxConcurrent
  <2>1. queued' = Append(queued, a) /\ UNCHANGED <<req, tasks, active, turnEnds>>
    BY <1>6, <1>9 DEF HandlePrompt
  <2>2. /\ Len(queued) \in Nat /\ DOMAIN queued = 1..Len(queued)
        /\ queued' \in Seq(Attempts) /\ DOMAIN queued' = 1..(Len(queued) + 1)
        /\ \A i \in 1..Len(queued) : queued'[i] = queued[i]
        /\ queued'[Len(queued) + 1] = a
    BY <2>1, QueueFacts, AppendFacts
  <2>3. TypeOK'
    BY <1>1, <2>1, <2>2 DEF TypeOK, threadVars, closeVars
  <2>4. ASSUME NEW b \in Attempts PROVE InQueue(b)' <=> InQueue(b) \/ b = a
    <3>1. InQueue(b)' <=> \E i \in 1..(Len(queued) + 1) : queued'[i] = b
      BY <2>2 DEF InQueue
    <3>2. InQueue(b) <=> \E i \in 1..Len(queued) : queued[i] = b
      BY <2>2 DEF InQueue
    <3>3. 1..(Len(queued) + 1) = 1..Len(queued) \union {Len(queued) + 1}
      BY <2>2
    <3> QED
      BY <2>2, <3>1, <3>2, <3>3, Zenon
  <2>5. OnePlace(a)'
    <3>1. Sent(a)' /\ ~Replied(a)' /\ InQueue(a)' /\ a \notin tasks'
      BY <1>4, <2>1, <2>4 DEF Sent, Replied
    <3> QED
      BY <1>3, <3>1 DEF OnePlace
  <2>6. ASSUME NEW b \in Attempts, b # a PROVE OnePlace(b)'
    <3>1. Stays(b)
      BY <1>3, <2>1, <2>4, <2>6 DEF Stays, Sent, Replied
    <3> QED
      BY <3>1, OnePlaceStays DEF PlaceInv, Placed
  <2>7. Slots'
    BY <2>1 DEF PlaceInv, Slots, Occupied
  <2>8. Cardinality(tasks) = MaxConcurrent
    <3>1. /\ Cardinality(tasks) = Cardinality(Occupied(active)) /\ Cardinality(tasks) <= MaxConcurrent
          /\ Cardinality(tasks) \in Nat
      BY FS_CardinalityType DEF PlaceInv, Slots, Agree
    <3> QED
      BY <1>9, <3>1, LimitsAssumption
  <2>9. \A i \in 1..(Len(queued) + 1) : active[queued'[i][1]] = 0
    <3>1. \A i \in 1..Len(queued) : active[queued[i][1]] = 0
      BY <2>2 DEF PlaceInv, QueueInv
    <3> QED
      BY <1>9, <2>2, <3>1
  <2>10. ASSUME NEW i \in 1..(Len(queued) + 1), NEW j \in 1..(Len(queued) + 1),
                queued'[i][1] = queued'[j][1]
         PROVE  i = j
    <3>1. \A m \in 1..Len(queued) : queued[m][1] # a[1]
      BY <1>9, <2>2 DEF Waits
    <3>2. \A l, m \in 1..Len(queued) : queued[l][1] = queued[m][1] => l = m
      BY <2>2 DEF PlaceInv, QueueInv
    <3> QED
      BY <2>2, <2>10, <3>1, <3>2
  <2>11. QueueInv'
    BY <2>1, <2>2, <2>8, <2>9, <2>10 DEF QueueInv
  <2> QED
    BY <1>1, <2>1, <2>3, <2>5, <2>6, <2>7, <2>11 DEF PlaceInv, Placed
<1>10. CASE /\ active[a[1]] = 0 /\ ~Waits(a[1])
            /\ ~(Cardinality(Occupied(active)) >= MaxConcurrent)
  <2>1. StartPromptTasks({a}, active, turnEnds, req, tasks) /\ UNCHANGED queued
    BY <1>6, <1>10 DEF HandlePrompt
  <2>2. CanStart({a}, active, turnEnds, req)
    BY <1>7 DEF CanStart
  <2>3. /\ active' \in [Sessions -> 0..MaxAttempts] /\ turnEnds' \in [Sessions -> 0..MaxAttempts]
        /\ \A b \in {a} : active'[b[1]] = b[2]
        /\ \A s \in Sessions : (\A b \in {a} : b[1] # s) => active'[s] = active[s]
        /\ req' \in [Attempts -> Requests]
        /\ \A b \in Attempts : /\ req'[b].pc = req[b].pc /\ req'[b].key = req[b].key
                              /\ req'[b].result = req[b].result
        /\ tasks' = tasks \union {a}
    BY <2>1, <2>2, StartFacts
  <2>4. active'[a[1]] = a[2] /\ \A s \in Sessions \ {a[1]} : active'[s] = active[s]
    BY <2>3
  <2>5. TypeOK'
    BY <1>1, <1>7, <2>1, <2>3 DEF TypeOK, threadVars, closeVars
  <2>6. /\ Agree(tasks', active') /\ Cardinality(tasks) \in Nat
        /\ Cardinality(tasks') = Cardinality(tasks) + 1
    <3>1. Agree(tasks, active)
      BY DEF PlaceInv, Slots
    <3>2. Takes(active, a, active')
      BY <1>7, <1>10, <2>3, <2>4 DEF Takes
    <3>3. /\ Agree(tasks \union {a}, active') /\ Cardinality(tasks) \in Nat
          /\ Cardinality(tasks \union {a}) = Cardinality(tasks) + 1
      BY <3>1, <3>2, SlotTaken
    <3> QED
      BY <2>3, <3>3
  <2>7. Cardinality(tasks) < MaxConcurrent
    BY <1>10, <2>6, LimitsAssumption DEF PlaceInv, Slots, Agree
  <2>8. Slots'
    BY <2>6, <2>7, LimitsAssumption DEF Slots
  <2>9. queued = <<>>
    BY <2>6, <2>7, LimitsAssumption DEF PlaceInv, QueueInv
  <2>10. QueueInv'
    <3>1. queued' = <<>> /\ DOMAIN <<>> = {}
      BY <2>1, <2>9
    <3> QED
      BY <3>1 DEF QueueInv
  <2>11. OnePlace(a)'
    <3>1. Sent(a)' /\ ~Replied(a)' /\ ~InQueue(a)' /\ a \in tasks'
      BY <1>4, <2>1, <2>3 DEF Sent, Replied, InQueue
    <3> QED
      BY <1>3, <3>1 DEF OnePlace
  <2>12. ASSUME NEW b \in Attempts, b # a PROVE OnePlace(b)'
    <3>1. Stays(b)
      BY <1>3, <2>1, <2>3, <2>12 DEF Stays, Sent, Replied, InQueue
    <3> QED
      BY <3>1, OnePlaceStays DEF PlaceInv, Placed
  <2> QED
    BY <1>1, <2>3, <2>5, <2>8, <2>10, <2>11, <2>12 DEF PlaceInv, Placed
<1> QED
  BY <1>8, <1>9, <1>10

\* One prompt leaves the queue.
LEMMA QueueRemove ==
  ASSUME TypeOK, QueueInv, NEW i \in 1..Len(queued),
         DOMAIN queued' = 1..(Len(queued) - 1),
         \A j \in 1..(Len(queued) - 1) : queued'[j] = IF j < i THEN queued[j] ELSE queued[j + 1]
  PROVE  /\ \A b \in Attempts : InQueue(b)' <=> InQueue(b) /\ b # queued[i]
         /\ \A j \in DOMAIN queued' : \E m \in DOMAIN queued \ {i} : queued'[j] = queued[m]
         /\ \A j, l \in DOMAIN queued' : queued'[j][1] = queued'[l][1] => j = l
<1>1. Len(queued) \in Nat /\ DOMAIN queued = 1..Len(queued)
  BY QueueFacts
<1> DEFINE from(j) == IF j < i THEN j ELSE j + 1
<1>2. ASSUME NEW j \in DOMAIN queued'
      PROVE  from(j) \in DOMAIN queued \ {i} /\ queued'[j] = queued[from(j)]
  BY <1>1
<1>3. ASSUME NEW m \in DOMAIN queued, m # i
      PROVE  \E j \in DOMAIN queued' : queued'[j] = queued[m]
  <2>1. CASE m < i
    <3>1. m \in DOMAIN queued' /\ from(m) = m
      BY <1>1, <2>1
    <3> QED
      BY <1>2, <3>1
  <2>2. CASE m > i
    <3>1. m - 1 \in DOMAIN queued' /\ from(m - 1) = m
      BY <1>1, <2>2
    <3> QED
      BY <1>2, <3>1
  <2> QED
    BY <1>1, <1>3, <2>1, <2>2
<1>4. \A l, m \in DOMAIN queued : queued[l][1] = queued[m][1] => l = m
  BY DEF QueueInv
<1>5. ASSUME NEW j \in DOMAIN queued', NEW l \in DOMAIN queued', from(j) = from(l) PROVE j = l
  BY <1>1, <1>5
<1> HIDE DEF from
<1>6. ASSUME NEW b \in Attempts PROVE InQueue(b)' <=> InQueue(b) /\ b # queued[i]
  <2>1. ASSUME InQueue(b)' PROVE InQueue(b) /\ b # queued[i]
    <3>1. PICK j \in DOMAIN queued' : queued'[j] = b
      BY <2>1 DEF InQueue
    <3>2. from(j) \in DOMAIN queued /\ from(j) # i /\ queued[from(j)] = b
      BY <1>2, <3>1
    <3> QED
      BY <1>1, <1>4, <3>2 DEF InQueue
  <2>2. ASSUME InQueue(b), b # queued[i] PROVE InQueue(b)'
    BY <1>3, <2>2 DEF InQueue
  <2> QED
    BY <2>1, <2>2
<1>7. \A j \in DOMAIN queued' : \E m \in DOMAIN queued \ {i} : queued'[j] = queued[m]
  BY <1>2
<1>8. ASSUME NEW j \in DOMAIN queued', NEW l \in DOMAIN queued', queued'[j][1] = queued'[l][1]
      PROVE  j = l
  <2>1. from(j) = from(l)
    BY <1>2, <1>4, <1>8
  <2> QED
    BY <1>5, <2>1
<1> QED
  BY <1>6, <1>7, <1>8

\* A command other than a prompt is received.
LEMMA ReceiveOther ==
  ASSUME TypeOK, PlaceInv, commands # <<>>, commands' = Tail(commands), Head(commands).k # "Prompt"
  PROVE  /\ commands' \in Seq(CommandSet) /\ ChannelOnce' /\ Head(commands) \in CommandSet
         /\ \A a \in Attempts : InChannel(a)' <=> InChannel(a)
<1>1. \A a \in Attempts : Head(commands) # Prompt(a)
  BY CommandFacts
<1> QED
  BY <1>1, ChannelTail DEF PlaceInv

\* The CancelSession command: a queued prompt is answered.
LEMMA ReceiveCancel ==
  ASSUME TypeOK, PlaceInv, driver = "loop", commands # <<>>, commands' = Tail(commands),
         Head(commands).k = "CancelSession", HandleCancelSession(Head(commands).s),
         UNCHANGED <<v2, threadVars, driver, control, calls, closeVars>>
  PROVE  /\ TypeOK' /\ PlaceInv'
         /\ \A b \in Attempts : req'[b].pc = req[b].pc /\ req'[b].key = req[b].key
<1>1. /\ commands' \in Seq(CommandSet) /\ ChannelOnce'
      /\ \A a \in Attempts : InChannel(a)' <=> InChannel(a)
  BY ReceiveOther
<1>2. UNCHANGED <<tasks, active, turnEnds>>
  BY DEF HandleCancelSession
<1>3. Slots'
  BY <1>2 DEF PlaceInv, Slots, Occupied
<1>4. CASE UNCHANGED <<req, queued>>
  <2>1. TypeOK'
    BY <1>1, <1>2, <1>4 DEF TypeOK, threadVars, closeVars
  <2>2. \A a \in Attempts : Stays(a)
    BY <1>1, <1>2, <1>4 DEF Stays, Sent, InQueue, Replied
  <2>3. Placed'
    BY <2>2, OnePlaceStays DEF PlaceInv, Placed
  <2>4. QueueInv'
    BY <1>2, <1>4 DEF PlaceInv, QueueInv
  <2> QED
    BY <1>1, <1>3, <1>4, <2>1, <2>3, <2>4 DEF PlaceInv
<1>5. ASSUME NEW i \in DOMAIN queued, req' = [req EXCEPT ![queued[i]].result = "cancelled"],
             queued' = SubSeq(queued, 1, i - 1) \o SubSeq(queued, i + 1, Len(queued))
      PROVE  /\ TypeOK' /\ PlaceInv'
             /\ \A b \in Attempts : req'[b].pc = req[b].pc /\ req'[b].key = req[b].key
  <2>1. /\ i \in 1..Len(queued) /\ Len(queued) \in Nat /\ queued \in Seq(Attempts)
        /\ queued # <<>> /\ DOMAIN queued = 1..Len(queued)
    BY QueueFacts
  <2>2. PICK a \in Attempts : a = queued[i]
    BY <2>1, QueueFacts
  <2>3. /\ queued' \in Seq(Attempts) /\ DOMAIN queued' = 1..(Len(queued) - 1)
        /\ \A j \in 1..(Len(queued) - 1) : queued'[j] = IF j < i THEN queued[j] ELSE queued[j + 1]
    <3>1. queued' = Without(queued, i)
      BY <1>5 DEF Without
    <3> QED
      BY <2>1, <3>1, WithoutFacts
  <2>4. /\ \A b \in Attempts : InQueue(b)' <=> InQueue(b) /\ b # queued[i]
        /\ \A j \in DOMAIN queued' : \E m \in DOMAIN queued \ {i} : queued'[j] = queued[m]
        /\ \A j, l \in DOMAIN queued' : queued'[j][1] = queued'[l][1] => j = l
    BY <2>1, <2>3, QueueRemove DEF PlaceInv
  <2>5. /\ req' \in [Attempts -> Requests] /\ req'[a].pc = req[a].pc /\ req'[a].key = req[a].key
        /\ req'[a].result = "cancelled" /\ \A b \in Attempts \ {a} : req'[b] = req[b]
    <3>1. req' = [req EXCEPT ![a].result = "cancelled"]
      BY <1>5, <2>2
    <3> QED
      BY <3>1, SetResult DEF Results
  <2>6. TypeOK'
    BY <1>1, <1>2, <2>3, <2>5 DEF TypeOK, threadVars, closeVars
  <2>7. OnePlace(a)'
    <3>1. InQueue(a)
      BY <2>2 DEF InQueue
    <3>2. Sent(a) /\ ~InChannel(a) /\ a \notin tasks
      BY <3>1 DEF PlaceInv, Placed, OnePlace
    <3>3. Sent(a)' /\ ~InChannel(a)' /\ a \notin tasks' /\ ~InQueue(a)' /\ Replied(a)'
      BY <1>1, <1>2, <2>2, <2>4, <2>5, <3>2 DEF Sent, Replied, None
    <3> QED
      BY <3>3 DEF OnePlace
  <2>8. ASSUME NEW b \in Attempts, b # a PROVE OnePlace(b)'
    <3>1. Stays(b)
      BY <1>1, <1>2, <2>2, <2>4, <2>5, <2>8 DEF Stays, Sent, Replied
    <3> QED
      BY <3>1, OnePlaceStays DEF PlaceInv, Placed
  <2>9. QueueInv'
    <3>1. Cardinality(tasks') = MaxConcurrent /\ driver' \in {"loop", "control"}
      BY <1>2, <2>1 DEF PlaceInv, QueueInv
    <3>2. \A j \in DOMAIN queued' : active'[queued'[j][1]] = 0
      BY <1>2, <2>4 DEF PlaceInv, QueueInv
    <3> QED
      BY <2>4, <3>1, <3>2 DEF QueueInv
  <2> QED
    BY <1>1, <1>3, <2>5, <2>6, <2>7, <2>8, <2>9 DEF PlaceInv, Placed
<1> QED
  BY <1>4, <1>5 DEF HandleCancelSession

\* finish_prompt_task, before the queue is looked at.
LEMMA TaskDone ==
  ASSUME TypeOK, PlaceInv, NEW a \in tasks, NEW r \in Results
  PROVE  /\ a \in Attempts /\ Frees(active, a, Freed(a)) /\ active[a[1]] # 0
         /\ Agree(tasks \ {a}, Freed(a)) /\ Cardinality(tasks) \in Nat
         /\ Cardinality(tasks \ {a}) = Cardinality(tasks) - 1
         /\ Freed(a) \in [Sessions -> 0..MaxAttempts]
         /\ Unregistered(a, r) \in [Sessions -> 0..MaxAttempts]
         /\ Answered(a, r) \in [Attempts -> Requests]
         /\ Answered(a, r)[a].pc = req[a].pc /\ Answered(a, r)[a].key = req[a].key
         /\ Answered(a, r)[a].result = r
         /\ \A b \in Attempts \ {a} : Answered(a, r)[b] = req[b]
         /\ Sent(a) /\ ~InChannel(a) /\ ~InQueue(a)
<1>1. a \in Attempts /\ active \in [Sessions -> 0..MaxAttempts]
      /\ turnEnds \in [Sessions -> 0..MaxAttempts]
  BY DEF TypeOK
<1>2. a[1] \in Sessions /\ a[2] \in 1..MaxAttempts /\ a[2] # 0 /\ 0 \in 0..MaxAttempts
  BY <1>1, AttemptParts, LimitsAssumption
<1>3. Agree(tasks, active)
  BY DEF PlaceInv, Slots
<1>4. active[a[1]] = a[2]
  BY <1>1, <1>3 DEF Agree
<1>5. Frees(active, a, Freed(a))
  BY <1>1, <1>2, <1>4 DEF Frees, Freed
<1>6. /\ Agree(tasks \ {a}, Freed(a)) /\ Cardinality(tasks) \in Nat
      /\ Cardinality(tasks \ {a}) = Cardinality(tasks) - 1
  BY <1>1, <1>3, <1>5, SlotFreed
<1>7. Freed(a) \in [Sessions -> 0..MaxAttempts]
  BY <1>5 DEF Frees
<1>8. Unregistered(a, r) \in [Sessions -> 0..MaxAttempts]
  BY <1>1, <1>2 DEF Unregistered
<1>9. Sent(a) /\ ~InChannel(a) /\ ~InQueue(a)
  BY <1>1 DEF PlaceInv, Placed, OnePlace
<1>10. /\ Answered(a, r) \in [Attempts -> Requests]
       /\ Answered(a, r)[a].pc = req[a].pc /\ Answered(a, r)[a].key = req[a].key
       /\ Answered(a, r)[a].result = r
       /\ \A b \in Attempts \ {a} : Answered(a, r)[b] = req[b]
  BY <1>1, SetResult DEF Answered
<1> QED
  BY <1>1, <1>2, <1>4, <1>5, <1>6, <1>7, <1>8, <1>9, <1>10

\* A task ends after the loop, when nothing is queued.
LEMMA DrainedPlace ==
  ASSUME TypeOK, PlaceInv, NEW a \in Attempts, NEW r \in Results, TaskDrained(a, r)
  PROVE  /\ TypeOK' /\ PlaceInv'
         /\ \A b \in Attempts : req'[b].pc = req[b].pc /\ req'[b].key = req[b].key
<1>1. /\ driver = "drain" /\ a \in tasks
      /\ active' = Freed(a) /\ req' = Answered(a, r) /\ turnEnds' = Unregistered(a, r)
      /\ tasks' = tasks \ {a}
      /\ UNCHANGED <<v2, threadVars, commands, driver, queued, control, calls, closeVars>>
  BY DEF TaskDrained
<1>2. /\ active' \in [Sessions -> 0..MaxAttempts] /\ turnEnds' \in [Sessions -> 0..MaxAttempts]
      /\ Agree(tasks', active') /\ Cardinality(tasks) \in Nat
      /\ Cardinality(tasks') = Cardinality(tasks) - 1
      /\ req' \in [Attempts -> Requests] /\ req'[a].pc = req[a].pc /\ req'[a].key = req[a].key
      /\ req'[a].result = r /\ \A b \in Attempts \ {a} : req'[b] = req[b]
      /\ Sent(a) /\ ~InChannel(a) /\ ~InQueue(a)
  <2>1. /\ Freed(a) \in [Sessions -> 0..MaxAttempts]
        /\ Unregistered(a, r) \in [Sessions -> 0..MaxAttempts]
        /\ Agree(tasks \ {a}, Freed(a)) /\ Cardinality(tasks) \in Nat
        /\ Cardinality(tasks \ {a}) = Cardinality(tasks) - 1
        /\ Answered(a, r) \in [Attempts -> Requests]
        /\ Answered(a, r)[a].pc = req[a].pc /\ Answered(a, r)[a].key = req[a].key
        /\ Answered(a, r)[a].result = r
        /\ \A b \in Attempts \ {a} : Answered(a, r)[b] = req[b]
        /\ Sent(a) /\ ~InChannel(a) /\ ~InQueue(a)
    BY <1>1, TaskDone
  <2> QED
    BY <1>1, <2>1
<1>3. queued = <<>>
  BY <1>1 DEF PlaceInv, QueueInv
<1>4. TypeOK'
  <2>1. UNCHANGED <<v2, turn, activeTurn, paused, threads, closing, commands, driver, queued,
                    control, calls, mainFn, closer, closedOnce>>
    BY <1>1 DEF threadVars, closeVars
  <2>2. {activeTurn', paused', active', turnEnds'} \subseteq [Sessions -> 0..MaxAttempts]
    BY <1>2, <2>1 DEF TypeOK
  <2>3. tasks' \subseteq Attempts
    BY <1>1 DEF TypeOK
  <2> QED
    BY <1>2, <2>1, <2>2, <2>3 DEF TypeOK
<1>5. Slots'
  <2>1. Cardinality(tasks) <= MaxConcurrent
    BY DEF PlaceInv, Slots
  <2> QED
    BY <1>2, <2>1, LimitsAssumption DEF Slots
<1>6. QueueInv'
  <2>1. queued' = <<>> /\ DOMAIN <<>> = {}
    BY <1>1, <1>3
  <2> QED
    BY <2>1 DEF QueueInv
<1>7. ChannelOnce'
  BY <1>1 DEF PlaceInv, ChannelOnce
<1>8. OnePlace(a)'
  <2>1. Sent(a)' /\ ~InChannel(a)' /\ ~InQueue(a)' /\ a \notin tasks' /\ Replied(a)'
    BY <1>1, <1>2 DEF Sent, InChannel, InQueue, Replied, Results, None
  <2> QED
    BY <2>1 DEF OnePlace
<1>9. ASSUME NEW b \in Attempts, b # a PROVE OnePlace(b)'
  <2>1. Stays(b)
    BY <1>1, <1>2, <1>9 DEF Stays, Sent, InChannel, InQueue, Replied
  <2> QED
    BY <2>1, OnePlaceStays DEF PlaceInv, Placed
<1> QED
  BY <1>2, <1>4, <1>5, <1>6, <1>7, <1>8, <1>9 DEF PlaceInv, Placed

\* A task ends in the loop.  The queue has waited for this slot, if for any, so
\* dispatch_queued_prompts starts its first prompt and no more.
LEMMA EndedPlace ==
  ASSUME TypeOK, PlaceInv, NEW a \in Attempts, NEW r \in Results, TaskEnds(a, r)
  PROVE  /\ TypeOK' /\ PlaceInv'
         /\ \A b \in Attempts : req'[b].pc = req[b].pc /\ req'[b].key = req[b].key
<1> DEFINE free == MaxConcurrent - Cardinality(Occupied(Freed(a)))
           k == IF free < Len(queued) THEN free ELSE Len(queued)
           T == {queued[i] : i \in 1..k}
<1>1. /\ driver = "loop" /\ a \in tasks
      /\ StartPromptTasks(T, Freed(a), Unregistered(a, r), Answered(a, r), tasks \ {a})
      /\ queued' = SubSeq(queued, k + 1, Len(queued))
      /\ UNCHANGED <<v2, threadVars, commands, driver, control, calls, closeVars>>
  BY DEF TaskEnds
<1>2. /\ Frees(active, a, Freed(a)) /\ active[a[1]] # 0
      /\ Agree(tasks \ {a}, Freed(a)) /\ Cardinality(tasks) \in Nat
      /\ Cardinality(tasks \ {a}) = Cardinality(tasks) - 1
      /\ Freed(a) \in [Sessions -> 0..MaxAttempts]
      /\ Unregistered(a, r) \in [Sessions -> 0..MaxAttempts]
      /\ Answered(a, r) \in [Attempts -> Requests]
      /\ Answered(a, r)[a].pc = req[a].pc /\ Answered(a, r)[a].key = req[a].key
      /\ Answered(a, r)[a].result = r
      /\ \A b \in Attempts \ {a} : Answered(a, r)[b] = req[b]
      /\ Sent(a) /\ ~InChannel(a) /\ ~InQueue(a)
  BY <1>1, TaskDone
<1>3. free = MaxConcurrent - (Cardinality(tasks) - 1)
  BY <1>2 DEF Agree
<1>4. /\ Cardinality(tasks) <= MaxConcurrent
      /\ queued # <<>> => Cardinality(tasks) = MaxConcurrent
  BY DEF PlaceInv, Slots, QueueInv
<1>5. /\ queued \in Seq(Attempts) /\ Len(queued) \in Nat /\ DOMAIN queued = 1..Len(queued)
      /\ \A i \in 1..Len(queued) : queued[i] \in Attempts
      /\ queued = <<>> <=> Len(queued) = 0
  BY QueueFacts
<1>6. PICK m \in {0, 1} : m = k /\ m <= Len(queued) /\ (m = 0 <=> queued = <<>>)
  BY <1>2, <1>3, <1>4, <1>5, LimitsAssumption
<1>7. /\ queued' \in Seq(Attempts) /\ DOMAIN queued' = 1..(Len(queued) - m)
      /\ \A i \in 1..(Len(queued) - m) : queued'[i] = queued[m + i]
  <2>1. m \in 0..Len(queued)
    <3> HIDE DEF k
    <3>1. m = 0 \/ m = 1
      OBVIOUS
    <3> QED
      BY <1>5, <1>6, <3>1
  <2> QED
    BY <1>1, <1>5, <1>6, <2>1, RestFacts
<1>8. StartPromptTasks({queued[i] : i \in 1..m}, Freed(a), Unregistered(a, r), Answered(a, r),
                       tasks \ {a})
  BY <1>1, <1>6
<1> HIDE DEF free, k, T
<1>9. ChannelOnce' /\ \A b \in Attempts : InChannel(b)' <=> InChannel(b)
  BY <1>1 DEF PlaceInv, ChannelOnce, InChannel
<1>10. CASE m = 0
  <2>1. StartPromptTasks({}, Freed(a), Unregistered(a, r), Answered(a, r), tasks \ {a})
    <3>1. {queued[i] : i \in 1..m} = {}
      BY <1>10
    <3> QED
      BY <1>8, <3>1
  <2>2. /\ active' \in [Sessions -> 0..MaxAttempts] /\ turnEnds' \in [Sessions -> 0..MaxAttempts]
        /\ \A s \in Sessions : active'[s] = Freed(a)[s]
        /\ req' \in [Attempts -> Requests]
        /\ \A b \in Attempts : /\ req'[b].pc = Answered(a, r)[b].pc
                              /\ req'[b].key = Answered(a, r)[b].key
                              /\ req'[b].result = Answered(a, r)[b].result
        /\ tasks' = tasks \ {a}
    <3>1. CanStart({}, Freed(a), Unregistered(a, r), Answered(a, r))
      BY <1>2 DEF CanStart
    <3>2. /\ active' \in [Sessions -> 0..MaxAttempts] /\ turnEnds' \in [Sessions -> 0..MaxAttempts]
          /\ \A s \in Sessions : (\A b \in {} : b[1] # s) => active'[s] = Freed(a)[s]
          /\ req' \in [Attempts -> Requests]
          /\ \A b \in Attempts : /\ req'[b].pc = Answered(a, r)[b].pc
                                /\ req'[b].key = Answered(a, r)[b].key
                                /\ req'[b].result = Answered(a, r)[b].result
          /\ tasks' = (tasks \ {a}) \union {}
      BY <2>1, <3>1, StartFacts
    <3> QED
      BY <3>2
  <2>3. TypeOK'
    <3>1. tasks' \subseteq Attempts
      BY <2>2 DEF TypeOK
    <3> QED
      BY <1>1, <1>7, <2>2, <3>1 DEF TypeOK, threadVars, closeVars
  <2>4. active' = Freed(a)
    <3>1. active' = [s \in Sessions |-> active'[s]] /\ Freed(a) = [s \in Sessions |-> Freed(a)[s]]
      BY <1>2, <2>2
    <3> QED
      BY <2>2, <3>1, Zenon
  <2>5. Slots'
    BY <1>2, <1>4, <2>2, <2>4, LimitsAssumption DEF Slots
  <2>6. queued = <<>> /\ queued' = <<>> /\ DOMAIN queued' = {}
    <3>1. queued = <<>> /\ Len(queued) = 0 /\ DOMAIN queued' = {}
      BY <1>5, <1>6, <1>7, <1>10
    <3>2. Len(queued') \in Nat /\ DOMAIN queued' = 1..Len(queued')
          /\ (queued' = <<>> <=> Len(queued') = 0)
      BY <1>7, SeqFacts
    <3> QED
      BY <3>1, <3>2
  <2>7. QueueInv'
    BY <2>6 DEF QueueInv
  <2>8. OnePlace(a)'
    <3>1. Sent(a)' /\ ~InChannel(a)' /\ ~InQueue(a)' /\ a \notin tasks' /\ Replied(a)'
      BY <1>2, <1>9, <2>2, <2>6 DEF Sent, InQueue, Replied, Results, None
    <3> QED
      BY <3>1 DEF OnePlace
  <2>9. ASSUME NEW b \in Attempts, b # a PROVE OnePlace(b)'
    <3>1. Stays(b)
      BY <1>2, <1>9, <2>2, <2>6, <2>9 DEF Stays, Sent, InQueue, Replied
    <3> QED
      BY <3>1, OnePlaceStays DEF PlaceInv, Placed
  <2>10. \A b \in Attempts : req'[b].pc = req[b].pc /\ req'[b].key = req[b].key
    BY <1>2, <2>2
  <2> QED
    BY <1>9, <2>3, <2>5, <2>7, <2>8, <2>9, <2>10 DEF PlaceInv, Placed
<1>11. CASE m = 1
  <2>1. 1 \in 1..Len(queued) /\ Cardinality(tasks) = MaxConcurrent
    BY <1>4, <1>5, <1>6, <1>11
  <2>2. PICK c \in Attempts : c = queued[1]
    BY <1>5, <2>1
  <2>3. StartPromptTasks({c}, Freed(a), Unregistered(a, r), Answered(a, r), tasks \ {a})
    <3>1. {queued[i] : i \in 1..m} = {c}
      BY <1>11, <2>2
    <3> QED
      BY <1>8, <3>1
  <2>4. /\ active' \in [Sessions -> 0..MaxAttempts] /\ turnEnds' \in [Sessions -> 0..MaxAttempts]
        /\ active'[c[1]] = c[2]
        /\ \A s \in Sessions \ {c[1]} : active'[s] = Freed(a)[s]
        /\ req' \in [Attempts -> Requests]
        /\ \A b \in Attempts : /\ req'[b].pc = Answered(a, r)[b].pc
                              /\ req'[b].key = Answered(a, r)[b].key
                              /\ req'[b].result = Answered(a, r)[b].result
        /\ tasks' = (tasks \ {a}) \union {c}
    <3>1. CanStart({c}, Freed(a), Unregistered(a, r), Answered(a, r))
      BY <1>2 DEF CanStart
    <3>2. /\ active' \in [Sessions -> 0..MaxAttempts] /\ turnEnds' \in [Sessions -> 0..MaxAttempts]
          /\ \A b \in {c} : active'[b[1]] = b[2]
          /\ \A s \in Sessions : (\A b \in {c} : b[1] # s) => active'[s] = Freed(a)[s]
          /\ req' \in [Attempts -> Requests]
          /\ \A b \in Attempts : /\ req'[b].pc = Answered(a, r)[b].pc
                                /\ req'[b].key = Answered(a, r)[b].key
                                /\ req'[b].result = Answered(a, r)[b].result
          /\ tasks' = (tasks \ {a}) \union {c}
      BY <2>3, <3>1, StartFacts
    <3> QED
      BY <3>2
  <2>5. InQueue(c) /\ active[c[1]] = 0 /\ c[1] # a[1] /\ c[1] \in Sessions
    <3>1. InQueue(c)
      BY <1>5, <2>1, <2>2 DEF InQueue
    <3>2. active[c[1]] = 0
      BY <1>5, <2>1, <2>2 DEF PlaceInv, QueueInv
    <3>3. c[1] \in Sessions
      BY AttemptParts
    <3> QED
      BY <1>2, <3>1, <3>2, <3>3
  <2>6. Sent(c) /\ ~InChannel(c) /\ c \notin tasks /\ ~Replied(c)
    BY <2>5 DEF PlaceInv, Placed, OnePlace
  <2>7. Takes(Freed(a), c, active')
    <3>1. Freed(a)[c[1]] = 0
      BY <1>2, <2>5 DEF Frees
    <3> QED
      BY <1>2, <2>4, <3>1 DEF Takes
  <2>8. /\ Agree((tasks \ {a}) \union {c}, active')
        /\ Cardinality((tasks \ {a}) \union {c}) = Cardinality(tasks \ {a}) + 1
    BY <1>2, <2>7, SlotTaken
  <2>9. Agree(tasks', active') /\ Cardinality(tasks') = MaxConcurrent
    BY <1>2, <2>1, <2>4, <2>8, LimitsAssumption
  <2>10. Slots'
    BY <2>9, LimitsAssumption DEF Slots
  <2>11. TypeOK'
    <3>1. tasks' \subseteq Attempts
      BY <2>4 DEF TypeOK
    <3> QED
      BY <1>1, <1>7, <2>4, <3>1 DEF TypeOK, threadVars, closeVars
  <2>12. /\ \A b \in Attempts : InQueue(b)' <=> InQueue(b) /\ b # queued[1]
         /\ \A j \in DOMAIN queued' : \E i \in DOMAIN queued \ {1} : queued'[j] = queued[i]
         /\ \A j, l \in DOMAIN queued' : queued'[j][1] = queued'[l][1] => j = l
    <3>1. DOMAIN queued' = 1..(Len(queued) - 1)
      BY <1>7, <1>11
    <3>2. \A j \in 1..(Len(queued) - 1) : queued'[j] = IF j < 1 THEN queued[j] ELSE queued[j + 1]
      BY <1>5, <1>7, <1>11
    <3> QED
      BY <2>1, <3>1, <3>2, QueueRemove DEF PlaceInv
  <2>13. QueueInv'
    <3>1. ASSUME NEW j \in DOMAIN queued' PROVE active'[queued'[j][1]] = 0
      <4>1. PICK i \in DOMAIN queued : i # 1 /\ queued'[j] = queued[i]
        BY <2>12
      <4>2. queued[i][1] # c[1] /\ active[queued[i][1]] = 0 /\ queued[i][1] \in Sessions
        BY <1>5, <2>1, <2>2, <4>1, QueueFacts DEF PlaceInv, QueueInv
      <4>3. active'[queued[i][1]] = active[queued[i][1]]
        BY <1>2, <2>4, <4>2 DEF Frees
      <4> QED
        BY <4>1, <4>2, <4>3
    <3> QED
      BY <1>1, <2>9, <2>12, <3>1 DEF QueueInv
  <2>14. OnePlace(a)'
    <3>1. Sent(a)' /\ ~InChannel(a)' /\ ~InQueue(a)' /\ a \notin tasks' /\ Replied(a)'
      BY <1>1, <1>2, <1>9, <2>4, <2>6, <2>12 DEF Sent, Replied, Results, None
    <3> QED
      BY <3>1 DEF OnePlace
  <2>15. OnePlace(c)'
    <3>1. c # a /\ Answered(a, r)[c] = req[c]
      BY <1>1, <1>2, <2>6
    <3>2. Sent(c)' /\ ~InChannel(c)' /\ ~InQueue(c)' /\ c \in tasks' /\ ~Replied(c)'
      BY <1>9, <2>2, <2>4, <2>6, <2>12, <3>1 DEF Sent, Replied
    <3> QED
      BY <3>2 DEF OnePlace
  <2>16. ASSUME NEW b \in Attempts, b # a, b # c PROVE OnePlace(b)'
    <3>1. Stays(b)
      BY <1>2, <1>9, <2>2, <2>4, <2>12, <2>16 DEF Stays, Sent, Replied
    <3> QED
      BY <3>1, OnePlaceStays DEF PlaceInv, Placed
  <2>17. \A b \in Attempts : req'[b].pc = req[b].pc /\ req'[b].key = req[b].key
    BY <1>2, <2>4
  <2> QED
    BY <1>9, <2>10, <2>11, <2>13, <2>14, <2>15, <2>16, <2>17 DEF PlaceInv, Placed
<1> QED
  BY <1>10, <1>11

\* Some prompts are answered with an error.
LEMMA FailedRequests ==
  ASSUME TypeOK, NEW F,
         req' = [a \in Attempts |-> IF a \in F THEN [req[a] EXCEPT !.result = "failed"] ELSE req[a]]
  PROVE  /\ req' \in [Attempts -> Requests]
         /\ \A a \in Attempts : /\ req'[a].pc = req[a].pc /\ req'[a].key = req[a].key
                               /\ req'[a].result = IF a \in F THEN "failed" ELSE req[a].result
<1> DEFINE r(a) == IF a \in F THEN [req[a] EXCEPT !.result = "failed"] ELSE req[a]
<1>1. req' = [a \in Attempts |-> r(a)]
  OBVIOUS
<1>2. ASSUME NEW a \in Attempts
      PROVE  /\ r(a) \in Requests /\ r(a).pc = req[a].pc /\ r(a).key = req[a].key
             /\ r(a).result = IF a \in F THEN "failed" ELSE req[a].result
  <2>1. req[a] \in Requests
    BY DEF TypeOK
  <2> QED
    BY <2>1 DEF Requests, Results
<1> HIDE DEF r
<1> QED
  BY <1>1, <1>2

\* The driver leaves its loop, and answers what is queued.
LEMMA BreaksPlace ==
  ASSUME TypeOK, PlaceInv, DriverBreaks
  PROVE  /\ TypeOK' /\ PlaceInv'
         /\ \A b \in Attempts : req'[b].pc = req[b].pc /\ req'[b].key = req[b].key
<1>1. /\ driver' = "drain" /\ queued' = <<>>
      /\ req' = [a \in Attempts |-> IF InQueue(a) THEN [req[a] EXCEPT !.result = "failed"]
                                                  ELSE req[a]]
      /\ UNCHANGED <<v2, threadVars, tasks, active, turnEnds, control, calls, closeVars>>
  BY DEF DriverBreaks, InQueue
<1>2. /\ req' \in [Attempts -> Requests]
      /\ \A a \in Attempts : /\ req'[a].pc = req[a].pc /\ req'[a].key = req[a].key
                            /\ req'[a].result = IF InQueue(a) THEN "failed" ELSE req[a].result
  <2> DEFINE F == {a \in Attempts : InQueue(a)}
  <2>1. req' = [a \in Attempts |-> IF a \in F THEN [req[a] EXCEPT !.result = "failed"] ELSE req[a]]
    BY <1>1
  <2>2. \A a \in Attempts : (a \in F <=> InQueue(a))
    OBVIOUS
  <2> HIDE DEF F
  <2>3. /\ req' \in [Attempts -> Requests]
        /\ \A a \in Attempts : /\ req'[a].pc = req[a].pc /\ req'[a].key = req[a].key
                              /\ req'[a].result = IF a \in F THEN "failed" ELSE req[a].result
    BY <2>1, FailedRequests
  <2> QED
    BY <2>2, <2>3
<1>3. /\ commands' \in Seq(CommandSet) /\ ChannelOnce'
      /\ \A a \in Attempts : (InChannel(a)' <=> InChannel(a))
  <2>1. CASE UNCHANGED commands
    BY <2>1 DEF PlaceInv, ChannelOnce, InChannel, TypeOK
  <2>2. CASE commands # <<>> /\ Head(commands).k = "Close" /\ commands' = Tail(commands)
    <3>1. Head(commands).k # "Prompt"
      BY <2>2
    <3> QED
      BY <2>2, <3>1, ReceiveOther
  <2> QED
    BY <2>1, <2>2 DEF DriverBreaks
<1>4. queued' \in Seq(Attempts) /\ DOMAIN queued' = {}
  BY <1>1
<1>5. TypeOK'
  BY <1>1, <1>2, <1>3, <1>4 DEF TypeOK, threadVars, closeVars
<1>6. Slots' /\ QueueInv'
  BY <1>1, <1>4 DEF PlaceInv, Slots, QueueInv, Occupied
<1>7. ASSUME NEW a \in Attempts PROVE OnePlace(a)'
  <2>1. ~InQueue(a)'
    BY <1>4 DEF InQueue
  <2>2. (Sent(a)' <=> Sent(a)) /\ (a \in tasks' <=> a \in tasks)
    BY <1>1, <1>2 DEF Sent
  <2>3. Replied(a)' <=> Replied(a) \/ InQueue(a)
    BY <1>2 DEF Replied, None
  <2>4. OnePlace(a)
    BY DEF PlaceInv, Placed
  <2> QED
    BY <1>3, <2>1, <2>2, <2>3, <2>4 DEF OnePlace
<1> QED
  BY <1>2, <1>3, <1>5, <1>6, <1>7 DEF PlaceInv, Placed

\* The driver ends, and answers what is left in the channel.
LEMMA EndsPlace ==
  ASSUME TypeOK, PlaceInv, DriverEnds
  PROVE  /\ TypeOK' /\ PlaceInv'
         /\ \A b \in Attempts : req'[b].pc = req[b].pc /\ req'[b].key = req[b].key
<1>1. /\ driver = "drain" /\ driver' = "ended" /\ commands' = <<>>
      /\ req' = [a \in Attempts |-> IF InChannel(a) THEN [req[a] EXCEPT !.result = "failed"]
                                                    ELSE req[a]]
      /\ UNCHANGED <<v2, threadVars, queued, tasks, active, turnEnds, control, calls, closeVars>>
  BY DEF DriverEnds, InChannel
<1>2. /\ req' \in [Attempts -> Requests]
      /\ \A a \in Attempts : /\ req'[a].pc = req[a].pc /\ req'[a].key = req[a].key
                            /\ req'[a].result = IF InChannel(a) THEN "failed" ELSE req[a].result
  <2> DEFINE F == {a \in Attempts : InChannel(a)}
  <2>1. req' = [a \in Attempts |-> IF a \in F THEN [req[a] EXCEPT !.result = "failed"] ELSE req[a]]
    BY <1>1
  <2>2. \A a \in Attempts : (a \in F <=> InChannel(a))
    OBVIOUS
  <2> HIDE DEF F
  <2>3. /\ req' \in [Attempts -> Requests]
        /\ \A a \in Attempts : /\ req'[a].pc = req[a].pc /\ req'[a].key = req[a].key
                              /\ req'[a].result = IF a \in F THEN "failed" ELSE req[a].result
    BY <2>1, FailedRequests
  <2> QED
    BY <2>2, <2>3
<1>3. commands' \in Seq(CommandSet) /\ DOMAIN commands' = {}
  BY <1>1
<1>4. queued = <<>> /\ queued' = <<>> /\ DOMAIN queued' = {}
  BY <1>1 DEF PlaceInv, QueueInv
<1>5. TypeOK'
  BY <1>1, <1>2, <1>3 DEF TypeOK, threadVars, closeVars
<1>6. ChannelOnce' /\ Slots' /\ QueueInv'
  BY <1>1, <1>3, <1>4 DEF PlaceInv, ChannelOnce, Slots, QueueInv, Occupied
<1>7. ASSUME NEW a \in Attempts PROVE OnePlace(a)'
  <2>1. ~InChannel(a)' /\ (InQueue(a)' <=> InQueue(a))
    BY <1>1, <1>3 DEF InChannel, InQueue
  <2>2. (Sent(a)' <=> Sent(a)) /\ (a \in tasks' <=> a \in tasks)
    BY <1>1, <1>2 DEF Sent
  <2>3. Replied(a)' <=> Replied(a) \/ InChannel(a)
    BY <1>2 DEF Replied, None
  <2>4. OnePlace(a)
    BY DEF PlaceInv, Placed
  <2> QED
    BY <2>1, <2>2, <2>3, <2>4 DEF OnePlace
<1> QED
  BY <1>2, <1>5, <1>6, <1>7 DEF PlaceInv, Placed

\* The driver receives a command.
LEMMA ReceivesPlace ==
  ASSUME TypeOK, PlaceInv, DriverReceives
  PROVE  /\ TypeOK' /\ PlaceInv'
         /\ \A b \in Attempts : req'[b].pc = req[b].pc /\ req'[b].key = req[b].key
<1>1. /\ driver = "loop" /\ commands # <<>> /\ commands' = Tail(commands)
      /\ UNCHANGED <<v2, threadVars, calls, closeVars>>
  BY DEF DriverReceives
<1>2. CASE /\ Head(commands).k = "Prompt"
           /\ HandlePrompt(<<Head(commands).s, Head(commands).n>>)
           /\ UNCHANGED <<driver, control>>
  BY <1>1, <1>2, ReceivePrompt
<1>3. CASE /\ Head(commands).k = "CancelSession"
           /\ HandleCancelSession(Head(commands).s)
           /\ UNCHANGED <<driver, control>>
  BY <1>1, <1>3, ReceiveCancel
<1>4. CASE /\ Head(commands).k = "Control"
           /\ driver' = "control" /\ control' = Head(commands).s
           /\ UNCHANGED <<req, queued, tasks, active, turnEnds>>
  <2>1. Head(commands).k # "Prompt"
    BY <1>4
  <2>2. /\ commands' \in Seq(CommandSet) /\ ChannelOnce' /\ Head(commands) \in CommandSet
        /\ \A a \in Attempts : (InChannel(a)' <=> InChannel(a))
    BY <1>1, <2>1, ReceiveOther
  <2>3. control' \in Sessions \union {None}
    BY <1>4, <2>2, CommandFacts
  <2>4. TypeOK'
    BY <1>1, <1>4, <2>2, <2>3 DEF TypeOK, threadVars, closeVars
  <2>5. \A a \in Attempts : Stays(a)
    BY <1>4, <2>2 DEF Stays, Sent, InQueue, Replied
  <2>6. Placed'
    BY <2>5, OnePlaceStays DEF PlaceInv, Placed
  <2>7. Slots' /\ QueueInv'
    BY <1>4 DEF PlaceInv, Slots, QueueInv, Occupied
  <2> QED
    BY <1>4, <2>2, <2>4, <2>6, <2>7 DEF PlaceInv
<1> QED
  BY <1>2, <1>3, <1>4 DEF DriverReceives

-----------------------------------------------------------------------------
(* Every step *)

\* What the steps that move no prompt have in common.
Quiet ==
  /\ req' \in [Attempts -> Requests] /\ \A a \in Attempts : Same(a)
  /\ UNCHANGED <<v2, queued, tasks, active>>
  /\ driver' = driver \/ (driver \in {"loop", "control"} /\ driver' \in {"loop", "control"})
  /\ \/ commands' = commands
     \/ \E c \in CommandSet : c.k # "Prompt" /\ commands' = Append(commands, c)
  /\ \A s \in Sessions : (turn'[s] # NoTurn =>
        turn[s] # NoTurn /\ turn'[s].n = turn[s].n /\ activeTurn'[s] = activeTurn[s])
  /\ \A s \in Sessions : paused'[s] \in {paused[s], 0}

QuietTypes ==
  /\ turn' \in [Sessions -> [n : 0..MaxAttempts, cancelling : BOOLEAN]]
  /\ activeTurn' \in [Sessions -> 0..MaxAttempts] /\ paused' \in [Sessions -> 0..MaxAttempts]
  /\ turnEnds' \in [Sessions -> 0..MaxAttempts]
  /\ threads' \subseteq Sessions /\ closing' \subseteq Sessions
  /\ control' \in Sessions \union {None} /\ calls' \in 0..MaxCalls
  /\ mainFn' \in {"wait", "ended"} /\ closer' \in {"none", "kill", "done"}
  /\ closedOnce' \in BOOLEAN

LEMMA QuietStep ==
  ASSUME HostInv, Quiet, QuietTypes
  PROVE  HostInv'
<1>1. TypeOK /\ TurnInv /\ PlaceInv
  BY DEF HostInv
<1>2. TurnInv'
  <2>1. \A a \in Attempts : req'[a].pc = req[a].pc /\ req'[a].key = req[a].key
    BY DEF Quiet, Same
  <2>2. \A s \in Sessions :
           /\ turn'[s] # NoTurn => /\ turn[s] # NoTurn /\ turn'[s].n = turn[s].n
                                  /\ activeTurn'[s] = activeTurn[s]
           /\ paused'[s] \in {paused[s], 0}
    BY DEF Quiet
  <2> QED
    BY <1>1, <2>1, <2>2, TurnFrame
<1>3. PlaceInv' /\ commands' \in Seq(CommandSet)
  <2>1. /\ \A a \in Attempts : Same(a)
        /\ UNCHANGED <<queued, tasks, active>>
        /\ driver' = driver \/ {driver, driver'} \subseteq {"loop", "control"}
        /\ \/ commands' = commands
           \/ \E c \in CommandSet : c.k # "Prompt" /\ commands' = Append(commands, c)
    BY DEF Quiet
  <2> QED
    BY <1>1, <2>1, PlaceFrame
<1>4. driver' \in {"loop", "control", "drain", "ended"}
  BY <1>1 DEF Quiet, TypeOK
<1>5. TypeOK'
  BY <1>1, <1>3, <1>4 DEF Quiet, QuietTypes, TypeOK
<1> QED
  BY <1>2, <1>3, <1>5 DEF HostInv

\* What TypeOK says of a state, in the form of QuietTypes.
LEMMA TypesNow ==
  ASSUME TypeOK
  PROVE  /\ turn \in [Sessions -> [n : 0..MaxAttempts, cancelling : BOOLEAN]]
         /\ activeTurn \in [Sessions -> 0..MaxAttempts] /\ paused \in [Sessions -> 0..MaxAttempts]
         /\ turnEnds \in [Sessions -> 0..MaxAttempts]
         /\ threads \subseteq Sessions /\ closing \subseteq Sessions
         /\ control \in Sessions \union {None} /\ calls \in 0..MaxCalls
         /\ mainFn \in {"wait", "ended"} /\ closer \in {"none", "kill", "done"}
         /\ closedOnce \in BOOLEAN
BY DEF TypeOK

\* notify_connection_closed takes turns away and gives none.
LEMMA NotifyTurn ==
  ASSUME TypeOK, NotifyConnectionClosed
  PROVE  /\ turn' \in [Sessions -> [n : 0..MaxAttempts, cancelling : BOOLEAN]]
         /\ activeTurn' \in [Sessions -> 0..MaxAttempts] /\ paused' \in [Sessions -> 0..MaxAttempts]
         /\ closedOnce' = TRUE
         /\ \A s \in Sessions : (turn'[s] # NoTurn =>
               turn[s] # NoTurn /\ turn'[s].n = turn[s].n /\ activeTurn'[s] = activeTurn[s])
         /\ \A s \in Sessions : paused'[s] \in {paused[s], 0}
         /\ turn' = turn \/ ~closedOnce
<1>1. /\ turn \in [Sessions -> [n : 0..MaxAttempts, cancelling : BOOLEAN]]
      /\ activeTurn \in [Sessions -> 0..MaxAttempts] /\ paused \in [Sessions -> 0..MaxAttempts]
  BY TypesNow
<1>2. NoTurn \in [n : 0..MaxAttempts, cancelling : BOOLEAN] /\ 0 \in 0..MaxAttempts
  BY LimitsAssumption DEF NoTurn
<1>3. CASE closedOnce
  BY <1>1, <1>3 DEF NotifyConnectionClosed
<1>4. CASE ~closedOnce
  <2>1. /\ turn' = [s \in Sessions |-> IF s \in threads THEN NoTurn ELSE turn[s]]
        /\ activeTurn' = [s \in Sessions |-> IF s \in threads THEN 0 ELSE activeTurn[s]]
        /\ paused' = [s \in Sessions |-> IF s \in threads THEN 0 ELSE paused[s]]
        /\ closedOnce' = TRUE
    BY <1>4 DEF NotifyConnectionClosed
  <2>2. turn' \in [Sessions -> [n : 0..MaxAttempts, cancelling : BOOLEAN]]
    BY <1>1, <1>2, <2>1
  <2>3. activeTurn' \in [Sessions -> 0..MaxAttempts] /\ paused' \in [Sessions -> 0..MaxAttempts]
    BY <1>1, <1>2, <2>1
  <2>4. \A s \in Sessions : (turn'[s] # NoTurn =>
          turn[s] # NoTurn /\ turn'[s].n = turn[s].n /\ activeTurn'[s] = activeTurn[s])
    BY <2>1
  <2>5. \A s \in Sessions : paused'[s] \in {paused[s], 0}
    BY <2>1
  <2> QED
    BY <1>4, <2>1, <2>2, <2>3, <2>4, <2>5
<1> QED
  BY <1>3, <1>4

\* The user's calls other than send_prompt.
LEMMA UserStep ==
  ASSUME HostInv, NEW s \in Sessions,
         Cancel(s) \/ CloseSession(s) \/ CloseLocalThread(s) \/ CloseThread(s)
  PROVE  HostInv'
<1>1. TypeOK /\ Reserved
  BY DEF HostInv, TurnInv
<1>2. /\ turn \in [Sessions -> [n : 0..MaxAttempts, cancelling : BOOLEAN]]
      /\ activeTurn \in [Sessions -> 0..MaxAttempts] /\ paused \in [Sessions -> 0..MaxAttempts]
      /\ turnEnds \in [Sessions -> 0..MaxAttempts]
      /\ threads \subseteq Sessions /\ closing \subseteq Sessions
      /\ control \in Sessions \union {None} /\ calls \in 0..MaxCalls
      /\ mainFn \in {"wait", "ended"} /\ closer \in {"none", "kill", "done"}
      /\ closedOnce \in BOOLEAN
  BY <1>1, TypesNow
<1>3. req' \in [Attempts -> Requests] /\ \A a \in Attempts : Same(a)
  <2>1. UNCHANGED req \/ (\E t \in Sessions : Cancel(t) \/ CloseSession(t))
    BY DEF CloseLocalThread, CloseThread
  <2> QED
    BY <1>1, <2>1, QuietRequests
<1>4. calls' \in 0..MaxCalls
  <2>1. MaxCalls \in Nat
    BY LimitsAssumption
  <2> QED
    BY <1>2, <2>1 DEF Cancel, CloseSession, CloseLocalThread, CloseThread
<1>5. CASE Cancel(s)
  <2>1. /\ turn[s] # NoTurn /\ turn' = [turn EXCEPT ![s].cancelling = TRUE]
        /\ commands' = commands \/ commands' = Append(commands, CancelSession(s))
        /\ UNCHANGED <<v2, activeTurn, paused, threads, closing, driverVars, closeVars>>
    BY <1>5 DEF Cancel
  <2>2. /\ turn' \in [Sessions -> [n : 0..MaxAttempts, cancelling : BOOLEAN]]
        /\ turn'[s].n = turn[s].n /\ \A t \in Sessions \ {s} : turn'[t] = turn[t]
    BY <1>2, <2>1
  <2>3. CancelSession(s) \in CommandSet /\ CancelSession(s).k # "Prompt"
    BY CommandFacts
  <2>4. Quiet
    <3>1. \A t \in Sessions : (turn'[t] # NoTurn =>
            turn[t] # NoTurn /\ turn'[t].n = turn[t].n /\ activeTurn'[t] = activeTurn[t])
      BY <2>1, <2>2
    <3>2. \A t \in Sessions : paused'[t] \in {paused[t], 0}
      BY <2>1
    <3>3. \/ commands' = commands
          \/ \E c \in CommandSet : c.k # "Prompt" /\ commands' = Append(commands, c)
      BY <2>1, <2>3
    <3> QED
      BY <1>3, <2>1, <3>1, <3>2, <3>3 DEF Quiet, driverVars
  <2>5. QuietTypes
    BY <1>2, <1>4, <2>1, <2>2 DEF QuietTypes, driverVars, closeVars
  <2> QED
    BY <2>4, <2>5, QuietStep
<1>6. CASE CloseSession(s)
  <2>1. /\ turn' = turn \/ turn' = [turn EXCEPT ![s] = NoTurn]
        /\ commands' = commands \/ commands' = Append(commands, Control(s))
        /\ UNCHANGED <<v2, activeTurn, paused, threads, closing, driverVars, closeVars>>
    BY <1>6 DEF CloseSession
  <2>2. turn' \in [Sessions -> [n : 0..MaxAttempts, cancelling : BOOLEAN]]
    <3>1. NoTurn \in [n : 0..MaxAttempts, cancelling : BOOLEAN]
      BY LimitsAssumption DEF NoTurn
    <3> QED
      BY <1>2, <2>1, <3>1
  <2>3. Control(s) \in CommandSet /\ Control(s).k # "Prompt"
    BY CommandFacts
  <2>4. Quiet
    <3>1. \A t \in Sessions : (turn'[t] # NoTurn => turn'[t] = turn[t])
      BY <1>2, <2>1
    <3>2. \A t \in Sessions : paused'[t] \in {paused[t], 0}
      BY <2>1
    <3>3. \/ commands' = commands
          \/ \E c \in CommandSet : c.k # "Prompt" /\ commands' = Append(commands, c)
      BY <2>1, <2>3
    <3> QED
      BY <1>3, <2>1, <3>1, <3>2, <3>3 DEF Quiet, driverVars
  <2>5. QuietTypes
    BY <1>2, <1>4, <2>1, <2>2 DEF QuietTypes, driverVars, closeVars
  <2> QED
    BY <2>4, <2>5, QuietStep
<1>7. CASE CloseLocalThread(s) \/ CloseThread(s)
  <2>1. /\ threads' \subseteq Sessions /\ closing' \subseteq Sessions
        /\ UNCHANGED <<v2, req, turn, activeTurn, paused, commands, driverVars, closeVars>>
    BY <1>2, <1>7 DEF CloseLocalThread, CloseThread
  <2>2. Quiet
    BY <1>3, <2>1 DEF Quiet, driverVars
  <2>3. QuietTypes
    BY <1>2, <1>4, <2>1 DEF QuietTypes, driverVars, closeVars
  <2> QED
    BY <2>2, <2>3, QuietStep
<1> QED
  BY <1>5, <1>6, <1>7

\* Steps that send at most a command, or end a control request.
LEMMA ControlStep ==
  ASSUME HostInv, ControlRequest \/ ControlEnds \/ Close \/ CloseReturns
  PROVE  HostInv'
<1>1. TypeOK /\ Reserved
  BY DEF HostInv, TurnInv
<1>2. /\ turn \in [Sessions -> [n : 0..MaxAttempts, cancelling : BOOLEAN]]
      /\ activeTurn \in [Sessions -> 0..MaxAttempts] /\ paused \in [Sessions -> 0..MaxAttempts]
      /\ turnEnds \in [Sessions -> 0..MaxAttempts]
      /\ threads \subseteq Sessions /\ closing \subseteq Sessions
      /\ control \in Sessions \union {None} /\ calls \in 0..MaxCalls
      /\ mainFn \in {"wait", "ended"} /\ closer \in {"none", "kill", "done"}
      /\ closedOnce \in BOOLEAN
  BY <1>1, TypesNow
<1>3. UNCHANGED <<v2, req>>
  BY DEF ControlRequest, ControlEnds, Close, CloseReturns
<1>4. req' \in [Attempts -> Requests] /\ \A a \in Attempts : Same(a)
  BY <1>1, <1>3, QuietRequests
<1>5. CASE ControlRequest
  <2>1. /\ calls < MaxCalls /\ calls' = calls + 1
        /\ commands' = Append(commands, Control(None))
        /\ UNCHANGED <<turn, activeTurn, paused, threads, closing, driverVars, closeVars>>
    BY <1>5 DEF ControlRequest, threadVars
  <2>2. Control(None) \in CommandSet /\ Control(None).k # "Prompt"
    BY CommandFacts
  <2>3. calls' \in 0..MaxCalls
    BY <1>2, <2>1, LimitsAssumption
  <2>4. Quiet
    BY <1>3, <1>4, <2>1, <2>2 DEF Quiet, driverVars
  <2>5. QuietTypes
    BY <1>2, <2>1, <2>3 DEF QuietTypes, driverVars, closeVars
  <2> QED
    BY <2>4, <2>5, QuietStep
<1>6. CASE ControlEnds
  <2>1. /\ driver = "control" /\ driver' = "loop" /\ control' = None
        /\ closing' = closing \/ closing' = closing \union ({control} \ {None})
        /\ UNCHANGED <<turn, activeTurn, paused, threads, commands, queued, tasks, active,
                       turnEnds, calls, closeVars>>
    BY <1>6 DEF ControlEnds
  <2>2. closing' \subseteq Sessions
    BY <1>2, <2>1
  <2>3. Quiet
    BY <1>3, <1>4, <2>1 DEF Quiet
  <2>4. QuietTypes
    BY <1>2, <2>1, <2>2 DEF QuietTypes, closeVars
  <2> QED
    BY <2>3, <2>4, QuietStep
<1>7. CASE Close
  <2>1. /\ closer' = "kill"
        /\ commands' = commands \/ commands' = Append(commands, CloseCommand)
        /\ UNCHANGED <<turn, activeTurn, paused, threads, closing, driverVars, calls, mainFn,
                       closedOnce>>
    BY <1>7 DEF Close, threadVars
  <2>2. CloseCommand \in CommandSet /\ CloseCommand.k # "Prompt"
    BY CommandFacts
  <2>3. Quiet
    BY <1>3, <1>4, <2>1, <2>2 DEF Quiet, driverVars
  <2>4. QuietTypes
    BY <1>2, <2>1 DEF QuietTypes, driverVars
  <2> QED
    BY <2>3, <2>4, QuietStep
<1>8. CASE CloseReturns
  <2>1. /\ closer' = "done" /\ NotifyConnectionClosed
        /\ UNCHANGED <<threads, closing, commands, driverVars, calls, mainFn>>
    BY <1>8 DEF CloseReturns
  <2>2. /\ turn' \in [Sessions -> [n : 0..MaxAttempts, cancelling : BOOLEAN]]
        /\ activeTurn' \in [Sessions -> 0..MaxAttempts] /\ paused' \in [Sessions -> 0..MaxAttempts]
        /\ closedOnce' = TRUE
        /\ \A s \in Sessions : (turn'[s] # NoTurn =>
              turn[s] # NoTurn /\ turn'[s].n = turn[s].n /\ activeTurn'[s] = activeTurn[s])
        /\ \A s \in Sessions : paused'[s] \in {paused[s], 0}
    BY <1>1, <2>1, NotifyTurn
  <2>3. Quiet
    BY <1>3, <1>4, <2>1, <2>2 DEF Quiet, driverVars
  <2>4. QuietTypes
    BY <1>2, <2>1, <2>2 DEF QuietTypes, driverVars
  <2> QED
    BY <2>3, <2>4, QuietStep
<1> QED
  BY <1>5, <1>6, <1>7, <1>8

\* What the agent says, and the end of the main function.
LEMMA AgentStep ==
  ASSUME HostInv,
         \/ \E a \in Attempts : TaskAcked(a) \/ AgentIdle(a)
         \/ \E a \in Attempts, r \in {"ok", "failed", "paused"} : AgentAnswers(a, r)
         \/ MainFnEnds
  PROVE  HostInv'
<1>1. TypeOK /\ Reserved
  BY DEF HostInv, TurnInv
<1>2. /\ turn \in [Sessions -> [n : 0..MaxAttempts, cancelling : BOOLEAN]]
      /\ activeTurn \in [Sessions -> 0..MaxAttempts] /\ paused \in [Sessions -> 0..MaxAttempts]
      /\ turnEnds \in [Sessions -> 0..MaxAttempts]
      /\ threads \subseteq Sessions /\ closing \subseteq Sessions
      /\ control \in Sessions \union {None} /\ calls \in 0..MaxCalls
      /\ mainFn \in {"wait", "ended"} /\ closer \in {"none", "kill", "done"}
      /\ closedOnce \in BOOLEAN
  BY <1>1, TypesNow
<1>3. req' \in [Attempts -> Requests] /\ \A a \in Attempts : Same(a)
  BY <1>1, QuietRequests
<1>4. /\ UNCHANGED <<v2, commands, driver, queued, tasks, active, control, calls, closer,
                     threads, closing>>
      /\ turnEnds' = turnEnds \/ \E s \in Sessions : turnEnds' = [turnEnds EXCEPT ![s] = 0]
  <2>1. ASSUME NEW a \in Attempts, TaskAcked(a)
        PROVE  /\ UNCHANGED <<v2, commands, driver, queued, tasks, active, control, calls, closer,
                              threads, closing>>
               /\ turnEnds' = turnEnds
    BY <2>1 DEF TaskAcked, threadVars, driverVars, closeVars
  <2>2. ASSUME NEW a \in Attempts, AgentIdle(a)
        PROVE  /\ UNCHANGED <<v2, commands, driver, queued, tasks, active, control, calls, closer,
                              threads, closing>>
               /\ \E s \in Sessions : turnEnds' = [turnEnds EXCEPT ![s] = 0]
    <3>1. a[1] \in Sessions
      BY AttemptParts
    <3> QED
      BY <2>2, <3>1 DEF AgentIdle, threadVars, driverVars, closeVars
  <2>3. ASSUME NEW a \in Attempts, NEW r \in {"ok", "failed", "paused"}, AgentAnswers(a, r)
        PROVE  /\ UNCHANGED <<v2, commands, driver, queued, tasks, active, control, calls, closer,
                              threads, closing>>
               /\ turnEnds' = turnEnds
    BY <2>3 DEF AgentAnswers, threadVars, driverVars, closeVars
  <2>4. CASE MainFnEnds
    BY <2>4 DEF MainFnEnds, driverVars
  <2> QED
    BY <2>1, <2>2, <2>3, <2>4
<1>5. turnEnds' \in [Sessions -> 0..MaxAttempts]
  BY <1>2, <1>4, LimitsAssumption
<1>6. CASE UNCHANGED <<turn, activeTurn, paused, mainFn, closedOnce>>
  <2>1. Quiet
    BY <1>3, <1>4, <1>6 DEF Quiet
  <2>2. QuietTypes
    BY <1>2, <1>4, <1>5, <1>6 DEF QuietTypes
  <2> QED
    BY <2>1, <2>2, QuietStep
<1>7. CASE MainFnEnds
  <2>1. mainFn' = "ended" /\ NotifyConnectionClosed
    BY <1>7 DEF MainFnEnds
  <2>2. /\ turn' \in [Sessions -> [n : 0..MaxAttempts, cancelling : BOOLEAN]]
        /\ activeTurn' \in [Sessions -> 0..MaxAttempts] /\ paused' \in [Sessions -> 0..MaxAttempts]
        /\ closedOnce' = TRUE
        /\ \A s \in Sessions : (turn'[s] # NoTurn =>
              turn[s] # NoTurn /\ turn'[s].n = turn[s].n /\ activeTurn'[s] = activeTurn[s])
        /\ \A s \in Sessions : paused'[s] \in {paused[s], 0}
    BY <1>1, <2>1, NotifyTurn
  <2>3. Quiet
    BY <1>3, <1>4, <2>2 DEF Quiet
  <2>4. QuietTypes
    BY <1>2, <1>4, <1>5, <2>1, <2>2 DEF QuietTypes
  <2> QED
    BY <2>3, <2>4, QuietStep
<1> QED
  BY <1>6, <1>7 DEF TaskAcked, AgentIdle, AgentAnswers, threadVars, closeVars

LEMMA DriverStepKeeps ==
  ASSUME HostInv, DriverStep
  PROVE  HostInv'
<1>1. TypeOK /\ TurnInv /\ PlaceInv
  BY DEF HostInv
<1>2. ASSUME TypeOK', PlaceInv', UNCHANGED threadVars,
             \A b \in Attempts : req'[b].pc = req[b].pc /\ req'[b].key = req[b].key
      PROVE  HostInv'
  BY <1>1, <1>2, DriverTurn DEF HostInv
<1>3. CASE DriverReceives
  <2>1. UNCHANGED threadVars
    BY <1>3 DEF DriverReceives
  <2> QED
    BY <1>1, <1>2, <1>3, <2>1, ReceivesPlace
<1>4. CASE DriverBreaks
  <2>1. UNCHANGED threadVars
    BY <1>4 DEF DriverBreaks
  <2> QED
    BY <1>1, <1>2, <1>4, <2>1, BreaksPlace
<1>5. CASE DriverEnds
  <2>1. UNCHANGED threadVars
    BY <1>5 DEF DriverEnds
  <2> QED
    BY <1>1, <1>2, <1>5, <2>1, EndsPlace
<1>6. ASSUME NEW a \in Attempts, NEW r \in Results, TaskEnds(a, r) PROVE HostInv'
  <2>1. UNCHANGED threadVars
    BY <1>6 DEF TaskEnds
  <2> QED
    BY <1>1, <1>2, <1>6, <2>1, EndedPlace
<1>7. ASSUME NEW a \in Attempts, NEW r \in Results, TaskDrained(a, r) PROVE HostInv'
  <2>1. UNCHANGED threadVars
    BY <1>7 DEF TaskDrained
  <2> QED
    BY <1>1, <1>2, <1>7, <2>1, DrainedPlace
<1>8. CASE ControlEnds
  BY <1>8, ControlStep
<1>9. ASSUME NEW a \in Attempts, TaskAcked(a) PROVE HostInv'
  BY <1>9, AgentStep
<1> QED
  BY <1>3, <1>4, <1>5, <1>6, <1>7, <1>8, <1>9 DEF DriverStep

LEMMA HostInit == Init => HostInv
<1> SUFFICES ASSUME Init PROVE HostInv
  OBVIOUS
<1>1. NoRequest \in Requests /\ NoTurn \in [n : 0..MaxAttempts, cancelling : BOOLEAN]
      /\ 0 \in 0..MaxAttempts /\ 0 \in 0..MaxCalls
  BY LimitsAssumption DEF NoRequest, Requests, NoTurn
<1>2. /\ req \in [Attempts -> Requests]
      /\ turn \in [Sessions -> [n : 0..MaxAttempts, cancelling : BOOLEAN]]
      /\ {activeTurn, paused, active, turnEnds} \subseteq [Sessions -> 0..MaxAttempts]
  BY <1>1 DEF Init
<1>3. commands \in Seq(CommandSet) /\ queued \in Seq(Attempts)
      /\ DOMAIN commands = {} /\ DOMAIN queued = {}
  BY DEF Init
<1>4. TypeOK
  BY <1>1, <1>2, <1>3 DEF Init, TypeOK
<1>5. /\ \A a \in Attempts : req[a].pc = None /\ req[a].result = None
      /\ \A s \in Sessions : turn[s] = NoTurn /\ paused[s] = 0 /\ active[s] = 0
  BY DEF Init, NoRequest
<1>6. TurnInv
  <2>1. ASSUME NEW s \in Sessions PROVE Started(s) = 1..0
    BY <1>5, AttemptPair DEF Started
  <2>2. Numbered
    BY <1>1, <2>1 DEF Numbered
  <2>3. KeysDistinct /\ Reserved
    BY <1>5 DEF KeysDistinct, Reserved, Sent, None
  <2> QED
    BY <2>2, <2>3 DEF TurnInv
<1>7. Placed /\ ChannelOnce /\ QueueInv
  BY <1>3, <1>5 DEF Init, Placed, OnePlace, ChannelOnce, QueueInv, Sent, InChannel, InQueue, Replied,
                    None
<1>8. Slots
  <2>1. tasks = {} /\ Occupied(active) = {}
    BY <1>5 DEF Init, Occupied
  <2>2. IsFiniteSet({}) /\ Cardinality({}) = 0
    BY FS_EmptySet
  <2>3. \A a \in Attempts : active[a[1]] # a[2]
    <3>1. ASSUME NEW a \in Attempts PROVE a[1] \in Sessions /\ a[2] # 0
      BY AttemptParts
    <3> QED
      BY <1>5, <3>1
  <2> QED
    BY <2>1, <2>2, <2>3, LimitsAssumption DEF Slots, Agree
<1> QED
  BY <1>4, <1>6, <1>7, <1>8 DEF HostInv, PlaceInv

LEMMA HostNext == HostInv /\ [Next]_vars => HostInv'
<1> SUFFICES ASSUME HostInv, [Next]_vars PROVE HostInv'
  OBVIOUS
<1>0. TypeOK /\ TurnInv /\ PlaceInv
  BY DEF HostInv
<1>1. CASE UNCHANGED vars
  <2>1. Quiet
    BY <1>0, <1>1 DEF vars, threadVars, driverVars, closeVars, Quiet, Same, TypeOK
  <2>2. QuietTypes
    BY <1>0, <1>1, TypesNow DEF vars, threadVars, driverVars, closeVars, QuietTypes
  <2> QED
    BY <2>1, <2>2, QuietStep
<1>2. ASSUME NEW s \in Sessions, NEW resume \in BOOLEAN, SendPrompt(s, resume) PROVE HostInv'
  <2>1. UNCHANGED driverVars
    BY <1>2 DEF SendPrompt
  <2>2. /\ TypeOK' /\ TurnInv'
        /\ \E a \in Attempts :
             /\ req[a].pc = None /\ req'[a].result = req[a].result
             /\ \A b \in Attempts \ {a} : Same(b)
             /\ \/ Sent(a)' /\ commands' = Append(commands, Prompt(a))
                \/ req'[a].pc = "done" /\ commands' = commands
    BY <1>0, <1>2, SendTurn
  <2>3. PlaceInv'
    BY <1>0, <2>1, <2>2, SendPlace
  <2> QED
    BY <2>2, <2>3 DEF HostInv
<1>3. ASSUME NEW s \in Sessions,
             Cancel(s) \/ CloseSession(s) \/ CloseLocalThread(s) \/ CloseThread(s)
      PROVE  HostInv'
  BY <1>3, UserStep
<1>4. ASSUME NEW a \in Attempts, PromptReturns(a) PROVE HostInv'
  <2>1. UNCHANGED <<commands, driverVars>>
    BY <1>4 DEF PromptReturns
  <2>2. /\ TypeOK' /\ TurnInv' /\ Replied(a) /\ req'[a].pc = "done" /\ req'[a].result = None
        /\ \A b \in Attempts \ {a} : Same(b)
    BY <1>0, <1>4, ReturnTurn
  <2>3. PlaceInv'
    BY <1>0, <2>1, <2>2, ReturnPlace
  <2> QED
    BY <2>2, <2>3 DEF HostInv
<1>5. CASE ControlRequest \/ Close \/ CloseReturns
  BY <1>5, ControlStep
<1>6. CASE \/ \E a \in Attempts : AgentIdle(a)
           \/ \E a \in Attempts, r \in {"ok", "failed", "paused"} : AgentAnswers(a, r)
           \/ MainFnEnds
  BY <1>6, AgentStep
<1>7. CASE DriverStep
  BY <1>7, DriverStepKeeps
<1> QED
  BY <1>1, <1>2, <1>3, <1>4, <1>5, <1>6, <1>7 DEF Next

LEMMA HostAlways == Spec => []HostInv
BY HostInit, HostNext, PTL DEF Spec

-----------------------------------------------------------------------------
(* The theorems *)

\* The indices at which a sequence holds one value, when there is at most one.
LEMMA CountOnce ==
  ASSUME NEW D, NEW I \in SUBSET D, \A i, j \in I : (i = j)
  PROVE  Cardinality(I) = IF I = {} THEN 0 ELSE 1
<1>1. CASE I = {}
  BY <1>1, FS_EmptySet
<1>2. CASE I # {}
  <2>1. PICK i : i \in I
    BY <1>2
  <2>2. I = {i}
    BY <2>1
  <2>3. Cardinality({i}) = 1
    BY FS_Singleton
  <2> QED
    BY <1>2, <2>2, <2>3
<1> QED
  BY <1>1, <1>2

LEMMA HostConserves == HostInv => PromptConserved
<1> SUFFICES ASSUME HostInv PROVE PromptConserved
  OBVIOUS
<1>1. TypeOK /\ PlaceInv
  BY DEF HostInv
<1>2. ASSUME NEW a \in Attempts
      PROVE  Places(a) = IF req[a].pc = "sent" THEN 1 ELSE 0
  <2> DEFINE inC == {i \in DOMAIN commands : commands[i] = Prompt(a)}
             inQ == {i \in DOMAIN queued : queued[i] = a}
             inT == {a} \intersect tasks
  <2>1. Cardinality(inC) = IF InChannel(a) THEN 1 ELSE 0
    <3>1. Prompt(a).k = "Prompt"
      BY CommandFacts
    <3>2. \A i, j \in inC : (i = j)
      BY <1>1, <3>1 DEF PlaceInv, ChannelOnce
    <3>3. inC \in SUBSET (DOMAIN commands) /\ (inC = {} <=> ~InChannel(a))
      BY DEF InChannel
    <3> HIDE DEF inC
    <3> QED
      BY <3>2, <3>3, CountOnce
  <2>2. Cardinality(inQ) = IF InQueue(a) THEN 1 ELSE 0
    <3>1. \A i, j \in inQ : (i = j)
      BY <1>1 DEF PlaceInv, QueueInv
    <3>2. inQ \in SUBSET (DOMAIN queued) /\ (inQ = {} <=> ~InQueue(a))
      BY DEF InQueue
    <3> HIDE DEF inQ
    <3> QED
      BY <3>1, <3>2, CountOnce
  <2>3. Cardinality(inT) = IF a \in tasks THEN 1 ELSE 0
    <3>1. \A i, j \in inT : (i = j)
      OBVIOUS
    <3>2. inT \in SUBSET tasks /\ (inT = {} <=> a \notin tasks)
      OBVIOUS
    <3> HIDE DEF inT
    <3> QED
      BY <3>1, <3>2, CountOnce
  <2>4. Places(a) = Cardinality(inC) + Cardinality(inQ) + Cardinality(inT)
                    + (IF req[a].result # None THEN 1 ELSE 0)
    BY DEF Places
  <2> HIDE DEF inC, inQ, inT
  <2>5. OnePlace(a)
    BY <1>1 DEF PlaceInv, Placed
  <2> QED
    BY <2>1, <2>2, <2>3, <2>4, <2>5 DEF OnePlace, Sent, Replied
<1>3. tasks = {<<s, active[s]>> : s \in Occupied(active)}
  <2>1. \A a \in Attempts : (a \in tasks <=> active[a[1]] = a[2])
    BY <1>1 DEF PlaceInv, Slots, Agree
  <2>2. tasks \subseteq Attempts /\ active \in [Sessions -> 0..MaxAttempts]
    BY <1>1 DEF TypeOK
  <2>3. ASSUME NEW a \in tasks PROVE a \in {<<s, active[s]>> : s \in Occupied(active)}
    <3>1. a = <<a[1], a[2]>> /\ a[1] \in Sessions /\ a[2] # 0 /\ active[a[1]] = a[2]
      BY <2>1, <2>2, AttemptParts
    <3> QED
      BY <3>1 DEF Occupied
  <2>4. ASSUME NEW s \in Occupied(active) PROVE <<s, active[s]>> \in tasks
    <3>1. s \in Sessions /\ active[s] \in 1..MaxAttempts
      BY <2>2 DEF Occupied
    <3>2. <<s, active[s]>> \in Attempts /\ <<s, active[s]>>[1] = s /\ <<s, active[s]>>[2] = active[s]
      BY <3>1, AttemptPair
    <3> QED
      BY <2>1, <3>2
  <2> QED
    BY <2>3, <2>4
<1> QED
  BY <1>1, <1>2, <1>3 DEF PromptConserved

(* A prompt that waits is in exactly one of the channel, the queue, the    *)
(* tasks and the answered, and active_prompts says which tasks there are:  *)
(* none is lost or answered twice (driver_loop, finish_prompt_task,        *)
(* reject_command_after_shutdown).                                         *)
THEOREM PromptsConserved == Spec => []PromptConserved
BY HostAlways, HostConserves, PTL

(* Prompts are queued only while every slot is taken, and never two of one *)
(* session (the Prompt command, dispatch_queued_prompts).                  *)
THEOREM QueueIsServed == Spec => []QueueServed
<1>1. HostInv => QueueServed
  BY DEF HostInv, PlaceInv, Slots, QueueInv, QueueServed
<1> QED
  BY <1>1, HostAlways, PTL

(* While a prompt has the reservation of its session, evidence goes to its *)
(* turn, also when an older prompt of the session ends late (start_turn,   *)
(* finish_turn).                                                           *)
THEOREM EvidenceStays == Spec => []EvidenceFollowsTurn
<1>1. HostInv => EvidenceFollowsTurn
  BY DEF HostInv, TurnInv, Reserved, EvidenceFollowsTurn
<1> QED
  BY <1>1, HostAlways, PTL

\* Steps that leave every reservation to the prompt that has it.
LEMMA TurnsStay ==
  ASSUME HostInv, NEW s \in Sessions, turn[s] # NoTurn,
         \/ UNCHANGED turn
         \/ \E t \in Sessions, resume \in BOOLEAN : SendPrompt(t, resume)
         \/ \E t \in Sessions : Cancel(t)
  PROVE  turn'[s].n = turn[s].n
<1>1. turn \in [Sessions -> [n : 0..MaxAttempts, cancelling : BOOLEAN]]
  BY DEF HostInv, TypeOK
<1>2. ASSUME NEW t \in Sessions, NEW resume \in BOOLEAN, SendPrompt(t, resume)
      PROVE  turn'[s] = turn[s]
  <2>1. turn[t] = NoTurn /\ (turn' = turn \/ \E v : turn' = [turn EXCEPT ![t] = v])
    BY <1>2 DEF SendPrompt
  <2>2. s # t
    BY <2>1
  <2> QED
    BY <1>1, <2>1, <2>2
<1>3. ASSUME NEW t \in Sessions, Cancel(t) PROVE turn'[s].n = turn[s].n
  BY <1>1, <1>3 DEF Cancel
<1> QED
  BY <1>2, <1>3

(* Only close_session releases a reservation and leaves the active turn    *)
(* behind: the end of the future and the loss of the connection end both.  *)
(* That finish_turn does rests on EvidenceStays, since it compares the     *)
(* active turn with its own key before it clears it.                       *)
THEOREM EvidenceEnds == Spec => EvidenceEndsWithTurn
<1> DEFINE Ended(s) == turn[s] # NoTurn /\ turn'[s] = NoTurn =>
             activeTurn'[s] = 0 \/ CloseSession(s)
<1>1. ASSUME HostInv, Next, NEW s \in Sessions, turn[s] # NoTurn, turn'[s] = NoTurn
      PROVE  activeTurn'[s] = 0 \/ CloseSession(s)
  <2>0. /\ TypeOK /\ TurnInv
        /\ turn \in [Sessions -> [n : 0..MaxAttempts, cancelling : BOOLEAN]]
        /\ activeTurn \in [Sessions -> 0..MaxAttempts]
        /\ activeTurn[s] = req[Owner(s)].key /\ turn[s].n # 0
    BY <1>1 DEF HostInv, TypeOK, TurnInv, Reserved
  <2>1. ~ UNCHANGED turn
    BY <1>1
  <2>2. ASSUME \/ \E t \in Sessions, resume \in BOOLEAN : SendPrompt(t, resume)
               \/ \E t \in Sessions : Cancel(t)
        PROVE  FALSE
    <3>1. turn'[s].n = turn[s].n
      BY <1>1, <2>2, TurnsStay
    <3> QED
      BY <1>1, <2>0, <3>1 DEF NoTurn
  <2>3. ASSUME NEW t \in Sessions, CloseSession(t) PROVE CloseSession(s)
    <3>1. turn' = turn \/ turn' = [turn EXCEPT ![t] = NoTurn]
      BY <2>3 DEF CloseSession
    <3>2. t = s
      BY <1>1, <2>0, <3>1
    <3> QED
      BY <2>3, <3>2
  <2>4. ASSUME NEW a \in Attempts, PromptReturns(a) PROVE activeTurn'[s] = 0
    <3>1. turn'[s] = NoTurn /\ Owner(s) = a /\ a[1] \in Sessions
      BY <1>1, <2>0, <2>4, ReturnTurn, AttemptParts
    <3>2. a[1] = s /\ a[2] = turn[s].n
      BY <3>1 DEF Owner
    <3>3. activeTurn' = [activeTurn EXCEPT ![s] =
             IF (turn[s] # NoTurn /\ req[<<s, turn[s].n>>].key = req[a].key)
                  /\ @ = req[a].key THEN 0 ELSE @]
      BY <2>4, <3>2 DEF PromptReturns, FinishTurn
    <3> QED
      BY <1>1, <2>0, <3>1, <3>3 DEF Owner
  <2>5. ASSUME NotifyConnectionClosed PROVE activeTurn'[s] = 0
    BY <1>1, <2>0, <2>5 DEF NotifyConnectionClosed
  <2>6. ASSUME DriverStep PROVE UNCHANGED turn
    BY <2>6 DEF DriverStep, DriverReceives, ControlEnds, DriverBreaks, DriverEnds, TaskAcked,
                TaskEnds, TaskDrained, threadVars
  <2>7. ASSUME \/ \E t \in Sessions : CloseLocalThread(t) \/ CloseThread(t)
               \/ \E a \in Attempts : AgentIdle(a)
               \/ \E a \in Attempts, r \in {"ok", "failed", "paused"} : AgentAnswers(a, r)
               \/ ControlRequest \/ Close
        PROVE  UNCHANGED turn
    BY <2>7 DEF CloseLocalThread, CloseThread, AgentIdle, AgentAnswers, ControlRequest, Close,
                threadVars
  <2>8. ASSUME MainFnEnds \/ CloseReturns PROVE NotifyConnectionClosed
    BY <2>8 DEF MainFnEnds, CloseReturns
  <2> QED
    BY <1>1, <2>1, <2>2, <2>3, <2>4, <2>5, <2>6, <2>7, <2>8 DEF Next
<1>2. HostInv /\ [Next]_vars => [\A s \in Sessions : Ended(s)]_vars
  BY <1>1
<1> QED
  BY <1>2, HostAlways, PTL DEF Spec, EvidenceEndsWithTurn

(* A prompt loses the reservation of its session by the end of its own     *)
(* future, by close_session for this session or by the loss of the         *)
(* connection and by nothing else, also when a resumed prompt has the turn *)
(* key of an older one (finish_turn).                                      *)
THEOREM ReservationHeld == Spec => ReservationKept
<1> DEFINE Kept(s) == (turn[s] # NoTurn /\ turn'[s].n # turn[s].n) =>
             \/ turn'[s] = NoTurn /\ req'[Owner(s)].pc = "done"
             \/ turn' = [turn EXCEPT ![s] = NoTurn] /\ calls' # calls
             \/ closedOnce' # closedOnce
<1>1. ASSUME HostInv, Next, NEW s \in Sessions PROVE Kept(s)
  <2>0. TypeOK /\ TurnInv
    BY <1>1 DEF HostInv
  <2>1. CASE UNCHANGED turn
    BY <2>1
  <2>2. ASSUME \/ \E t \in Sessions, resume \in BOOLEAN : SendPrompt(t, resume)
               \/ \E t \in Sessions : Cancel(t)
        PROVE  Kept(s)
    BY <1>1, <2>2, TurnsStay
  <2>3. ASSUME NEW t \in Sessions, CloseSession(t) PROVE Kept(s)
    <3>1. calls \in Nat /\ calls' = calls + 1
      BY <2>0, <2>3, LimitsAssumption DEF CloseSession, TypeOK
    <3>2. turn' = turn \/ turn' = [turn EXCEPT ![t] = NoTurn]
      BY <2>3 DEF CloseSession
    <3>3. turn \in [Sessions -> [n : 0..MaxAttempts, cancelling : BOOLEAN]]
      BY <2>0, TypesNow
    <3>4. CASE t = s
      BY <3>1, <3>2, <3>4
    <3>5. CASE t # s
      BY <3>2, <3>3, <3>5
    <3> QED
      BY <3>4, <3>5
  <2>4. ASSUME NEW a \in Attempts, PromptReturns(a) PROVE Kept(s)
    <3>1. /\ turn'[s] = turn[s] \/ (turn'[s] = NoTurn /\ Owner(s) = a)
          /\ req'[a].pc = "done"
      BY <2>0, <2>4, ReturnTurn
    <3> QED
      BY <3>1
  <2>5. CASE NotifyConnectionClosed
    <3>1. (turn' = turn \/ ~closedOnce) /\ closedOnce' = TRUE
      BY <2>0, <2>5, NotifyTurn
    <3> QED
      BY <3>1
  <2>6. ASSUME DriverStep PROVE UNCHANGED turn
    BY <2>6 DEF DriverStep, DriverReceives, ControlEnds, DriverBreaks, DriverEnds, TaskAcked,
                TaskEnds, TaskDrained, threadVars
  <2>7. ASSUME \/ \E t \in Sessions : CloseLocalThread(t) \/ CloseThread(t)
               \/ \E a \in Attempts : AgentIdle(a)
               \/ \E a \in Attempts, r \in {"ok", "failed", "paused"} : AgentAnswers(a, r)
               \/ ControlRequest \/ Close
        PROVE  UNCHANGED turn
    BY <2>7 DEF CloseLocalThread, CloseThread, AgentIdle, AgentAnswers, ControlRequest, Close,
                threadVars
  <2>8. ASSUME MainFnEnds \/ CloseReturns PROVE NotifyConnectionClosed
    BY <2>8 DEF MainFnEnds, CloseReturns
  <2> HIDE DEF Kept
  <2> QED
    BY <1>1, <2>1, <2>2, <2>3, <2>4, <2>5, <2>6, <2>7, <2>8 DEF Next
<1>2. HostInv /\ [Next]_vars => [\A s \in Sessions : Kept(s)]_vars
  BY <1>1
<1> QED
  BY <1>2, HostAlways, PTL DEF Spec, ReservationKept
=============================================================================
