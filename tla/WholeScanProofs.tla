-------------------------- MODULE WholeScanProofs --------------------------
(***************************************************************************)
(* A reindent is applied at most once and in the order of the requests,    *)
(* and to the text it was computed for unless a plugin or a reload changed *)
(* that text: for every number of reindents and edits, and whichever       *)
(* tokens are refused and threads panic.                                   *)
(*                                                                         *)
(* The argument.  A generation has one thread and one result: what lies in *)
(* the slot comes from a thread that has ended, and what was applied is in *)
(* neither any more (OneResult).  As only the current generation is        *)
(* applied, results are applied in ascending order.  A result of the       *)
(* current generation is only reached while the token that was scheduled   *)
(* with it is queued, and while that is queued the client has no turn      *)
(* (Fresh): whoever else has changed the text is in `others`.              *)
(***************************************************************************)
EXTENDS WholeScan, SequenceTheorems, TLAPS

Alive(g) == scan[g].pc \in {"first", "compute", "second", "deposit"}

Applied == [gen : Gens, base : Texts, onto : Texts]

NotStarted == \A g \in Gens : g > gen => scan[g].pc = "none"

\* A thread, the slot and the history never share a generation.
OneResult ==
    /\ slot # NoResult => slot.gen <= gen /\ ~Alive(slot.gen)
    /\ \A i \in DOMAIN applied :
          /\ applied[i].gen <= gen /\ ~Alive(applied[i].gen)
          /\ slot # NoResult => slot.gen # applied[i].gen

InOrder == \A i, j \in DOMAIN applied : i < j => applied[i].gen < applied[j].gen

\* There are at most as many results as generations, hence revisions.
Counted ==
    /\ \A i \in DOMAIN applied : i <= applied[i].gen
    /\ head.rev <= MaxRev + Len(applied)

\* The base is the present text, or somebody else has changed it.
Since(S, b, t) == b # t => \E r \in S : b.rev < r /\ r <= t.rev

\* While the token is queued the newest request is as good as the text.
Fresh ==
    /\ pristine <= head.rev
    /\ token /\ gen > 0 /\ Alive(gen) =>
          scan[gen].base.rev <= head.rev /\ Since(others, scan[gen].base, head)
    /\ token /\ slot # NoResult /\ slot.gen = gen =>
          slot.base.rev <= head.rev /\ Since(others, slot.base, head)

AppliedFresh == \A i \in DOMAIN applied : Since(others, applied[i].base, applied[i].onto)

\* The inductive invariant.
ScanInv ==
    /\ TypeOK /\ NotStarted /\ OneResult /\ InOrder /\ Counted /\ Fresh /\ AppliedFresh
-----------------------------------------------------------------------------
\* The invariant holds in the initial states.
LEMMA ScanInit == Init => ScanInv
<1> SUFFICES ASSUME Init PROVE ScanInv
    OBVIOUS
<1> USE WholeScanAssumption DEF Init, Texts, Revs, Gens
<1>1. TypeOK
  <2>1. scan \in [Gens -> Scans]
      BY DEF Scans, NoScan
  <2>2. head \in Texts /\ pristine \in Revs /\ gen \in 0 .. MaxGen
      OBVIOUS
  <2>3. applied \in Seq([gen : Gens, base : Texts, onto : Texts])
      BY EmptySeq
  <2> QED
      BY <2>1, <2>2, <2>3 DEF TypeOK
<1>2. NotStarted /\ OneResult /\ InOrder /\ Counted /\ Fresh /\ AppliedFresh
    BY DEF NotStarted, OneResult, InOrder, Counted, Fresh, AppliedFresh, NoScan, NoResult
<1> QED
    BY <1>1, <1>2 DEF ScanInv

\* What was applied has its type, and can be counted.
LEMMA AppliedElements ==
    ASSUME TypeOK
    PROVE  /\ Len(applied) \in Nat /\ DOMAIN applied = 1 .. Len(applied)
           /\ \A i \in DOMAIN applied : applied[i] \in Applied
<1>1. applied \in Seq(Applied)
    BY DEF TypeOK, Applied
<1>2. Len(applied) \in Nat /\ DOMAIN applied = 1 .. Len(applied)
    BY <1>1, LenProperties
<1>3. \A i \in 1 .. Len(applied) : applied[i] \in Applied
    BY <1>1, ElementOfSeq
<1> QED
    BY <1>2, <1>3

\* A new request has a new generation, the present text and the token.
LEMMA BeginStep == ScanInv /\ BeginAsyncReindent => ScanInv'
<1> SUFFICES ASSUME ScanInv, BeginAsyncReindent PROVE ScanInv'
    OBVIOUS
<1> USE WholeScanAssumption
<1>1. /\ gen < MaxGen /\ gen' = gen + 1 /\ gen \in Nat /\ gen + 1 \in Gens
      /\ scan' = [scan EXCEPT ![gen + 1] = [pc |-> "first", base |-> head]]
      /\ UNCHANGED <<head, pristine, slot, panicked, others, applied>>
      /\ token' \in BOOLEAN /\ dropped' \in BOOLEAN
  <2>1. token' \in BOOLEAN /\ dropped' \in BOOLEAN
      BY Zenon DEF BeginAsyncReindent, ScheduleIdle, ScanInv, TypeOK
  <2> QED
      BY <2>1 DEF BeginAsyncReindent, ScanInv, TypeOK, Gens
<1>2. TypeOK'
  <2>1. [pc |-> "first", base |-> head] \in Scans
      BY DEF Scans, ScanInv, TypeOK
  <2> QED
      BY <1>1, <2>1 DEF TypeOK, ScanInv, Gens
<1>3. \A g \in Gens : g # gen + 1 => scan'[g] = scan[g]
    BY <1>1 DEF ScanInv, TypeOK
<1>4. NotStarted'
    BY <1>1, <1>3 DEF NotStarted, ScanInv, TypeOK, Gens
<1>5. scan'[gen + 1] = [pc |-> "first", base |-> head]
    BY <1>1 DEF ScanInv, TypeOK
<1>6. OneResult'
  <2>1. slot # NoResult => slot.gen \in Gens /\ slot.gen <= gen /\ ~Alive(slot.gen)
      BY DEF ScanInv, OneResult, TypeOK
  <2>2. slot # NoResult => slot.gen <= gen + 1 /\ scan'[slot.gen] = scan[slot.gen]
      BY <1>1, <1>3, <2>1 DEF Gens
  <2>3. ASSUME NEW i \in DOMAIN applied
        PROVE  /\ applied[i].gen \in Gens /\ applied[i].gen <= gen
               /\ ~Alive(applied[i].gen)
      BY <2>3, AppliedElements DEF ScanInv, OneResult, Applied
  <2>4. ASSUME NEW i \in DOMAIN applied
        PROVE  applied[i].gen <= gen + 1 /\ scan'[applied[i].gen] = scan[applied[i].gen]
      BY <1>1, <1>3, <2>3 DEF Gens
  <2> QED
      BY <1>1, <2>1, <2>2, <2>3, <2>4 DEF ScanInv, OneResult, Alive
<1>7. Fresh'
  <2>1. slot # NoResult => slot.gen # gen'
      BY <1>1 DEF ScanInv, OneResult, TypeOK, Gens
  <2>2. head.rev <= head.rev
      BY DEF ScanInv, TypeOK, Texts, Revs
  <2> QED
      BY <1>1, <1>5, <2>1, <2>2 DEF ScanInv, Fresh, Since
<1> QED
    BY <1>1, <1>2, <1>4, <1>6, <1>7 DEF ScanInv, InOrder, Counted, AppliedFresh

\* The text changes: under a queued token only by those who are in `others`.
LEMMA EditStep ==
    ASSUME ScanInv, NEW len \in Lengths,
           ClientEdit(len) \/ PluginEdit(len) \/ Reload(len)
    PROVE  ScanInv'
<1> USE WholeScanAssumption
<1>1. /\ UNCHANGED <<gen, slot, scan, token, panicked, applied, dropped>>
      /\ head' = [rev |-> head.rev + 1, len |-> len] /\ head.rev < MaxRev
      /\ pristine' \in {pristine, head.rev + 1}
      /\ others' \in {others, others \cup {head.rev + 1}}
      /\ token => others' = others \cup {head.rev + 1}
    BY DEF ClientEdit, PluginEdit, Reload, NewRevision, ClientTurn
<1>2. head' \in Texts /\ head.rev + 1 \in Revs /\ head'.rev = head.rev + 1 /\ head.rev \in Nat
    BY <1>1 DEF ScanInv, TypeOK, Texts, Revs
<1>3. TypeOK'
    BY <1>1, <1>2 DEF ScanInv, TypeOK
<1>4. Counted'
  <2>1. Len(applied) \in Nat
      BY AppliedElements DEF ScanInv
  <2> QED
      BY <1>1, <1>2, <2>1 DEF ScanInv, Counted
<1>5. ASSUME token, NEW b \in Texts, b.rev <= head.rev
      PROVE  b.rev <= head'.rev /\ Since(others', b, head')
    BY <1>1, <1>2, <1>5 DEF Since, Texts, Revs
<1>6. Fresh'
  <2>1. pristine' <= head'.rev
      BY <1>1, <1>2 DEF ScanInv, TypeOK, Fresh, Revs
  <2>2. gen > 0 /\ Alive(gen) => scan[gen].base \in Texts
      BY DEF ScanInv, TypeOK, Alive, Gens, Scans
  <2>3. slot # NoResult => slot.base \in Texts
      BY DEF ScanInv, TypeOK
  <2> QED
      BY <1>1, <1>5, <2>1, <2>2, <2>3 DEF ScanInv, Fresh, Alive
<1>7. AppliedFresh'
    BY <1>1 DEF ScanInv, AppliedFresh, Since
<1> QED
    BY <1>1, <1>3, <1>4, <1>6, <1>7
       DEF ScanInv, NotStarted, OneResult, InOrder, Alive

\* The thread of generation g goes on, or ends; it deposits when it ends.
LEMMA ThreadMoves ==
    ASSUME ScanInv, NEW g \in Gens, ThreadStep(g)
    PROVE  /\ UNCHANGED <<head, pristine, gen, token, panicked, others, applied, dropped>>
           /\ Alive(g)
           /\ \E n \in Scans :
                /\ scan' = [scan EXCEPT ![g] = n]
                /\ n.pc \in {"gone", "panicked"} \/ n.base = scan[g].base
                /\ n.pc # "none"
                /\ \/ UNCHANGED slot
                   \/ /\ slot' \in [gen : {g}, base : {scan[g].base}, some : BOOLEAN]
                      /\ n.pc = "gone"
<1> USE DEF Alive
<1>0. scan[g] \in Scans /\ scan \in [Gens -> Scans]
    BY DEF ScanInv, TypeOK
<1>a. Gone \in Scans /\ [pc |-> "panicked"] \in Scans /\ Gone.pc = "gone"
    BY DEF Scans, Gone
<1>1. ASSUME FirstCheck(g) PROVE scan[g] \in [pc : {"first", "compute"}, base : Texts]
    BY <1>0, <1>1 DEF FirstCheck, Scans
<1>2. CASE FirstCheck(g)
  <2> DEFINE n == IF gen = g THEN [scan[g] EXCEPT !.pc = "compute"] ELSE Gone
  <2>1. n \in Scans /\ (n.pc = "gone" \/ n.base = scan[g].base) /\ n.pc # "none"
      BY <1>1, <1>2, <1>a DEF Scans
  <2> QED
      BY <1>2, <1>0, <2>1 DEF FirstCheck, CheckGeneration
<1>3. CASE Compute(g)
  <2>1. PICK some \in BOOLEAN :
           scan' = [scan EXCEPT ![g] = [pc |-> "second", base |-> scan[g].base, some |-> some]]
      BY <1>3 DEF Compute
  <2>2. scan[g].base \in Texts
      BY <1>0, <1>3 DEF Compute, Scans
  <2>3. [pc |-> "second", base |-> scan[g].base, some |-> some] \in Scans
      BY <2>2 DEF Scans
  <2> QED
      BY <1>3, <2>1, <2>3 DEF Compute
<1>4. CASE ComputePanics(g)
    BY <1>4, <1>a DEF ComputePanics
<1>5. CASE SecondCheck(g)
  <2> DEFINE n == IF gen = g THEN [scan[g] EXCEPT !.pc = "deposit"] ELSE Gone
  <2>1. scan[g] \in [pc : {"second", "deposit"}, base : Texts, some : BOOLEAN]
      BY <1>0, <1>5 DEF SecondCheck, Scans
  <2>2. n \in Scans /\ (n.pc = "gone" \/ n.base = scan[g].base) /\ n.pc # "none"
      BY <2>1, <1>a DEF Scans
  <2> QED
      BY <1>5, <1>0, <2>2 DEF SecondCheck, CheckGeneration
<1>6. CASE Deposit(g)
  <2>1. scan[g] \in [pc : {"second", "deposit"}, base : Texts, some : BOOLEAN]
      BY <1>0, <1>6 DEF Deposit, Scans
  <2> QED
      BY <1>6, <1>a, <2>1 DEF Deposit
<1> QED
    BY <1>2, <1>3, <1>4, <1>5, <1>6 DEF ThreadStep

\* A thread keeps its base, and a result leaves the thread that deposits it.
LEMMA ThreadPreserves ==
    ASSUME ScanInv, NEW g \in Gens, ThreadStep(g)
    PROVE  ScanInv'
<1>1. PICK n \in Scans :
        /\ scan' = [scan EXCEPT ![g] = n]
        /\ n.pc \in {"gone", "panicked"} \/ n.base = scan[g].base
        /\ n.pc # "none"
        /\ \/ UNCHANGED slot
           \/ /\ slot' \in [gen : {g}, base : {scan[g].base}, some : BOOLEAN]
              /\ n.pc = "gone"
    BY ThreadMoves
<1>2. UNCHANGED <<head, pristine, gen, token, panicked, others, applied, dropped>> /\ Alive(g)
    BY ThreadMoves
<1>3. scan'[g] = n /\ \A h \in Gens : h # g => scan'[h] = scan[h]
    BY <1>1 DEF ScanInv, TypeOK
<1>4. g <= gen /\ scan[g].base \in Texts /\ gen \in 0 .. MaxGen
  <2>1. g <= gen
      BY <1>2, WholeScanAssumption DEF ScanInv, NotStarted, Alive, TypeOK, Gens
  <2> QED
      BY <1>2, <2>1 DEF ScanInv, TypeOK, Scans, Alive
<1>5. TypeOK'
  <2>1. scan' \in [Gens -> Scans]
      BY <1>1 DEF ScanInv, TypeOK
  <2>2. slot' \in {NoResult} \cup [gen : Gens, base : Texts, some : BOOLEAN]
      BY <1>1, <1>4 DEF ScanInv, TypeOK
  <2> QED
      BY <1>2, <2>1, <2>2 DEF ScanInv, TypeOK
<1>6. NotStarted'
    BY <1>2, <1>3, <1>4, WholeScanAssumption DEF ScanInv, NotStarted, Gens
<1>7. \A h \in Gens : ~Alive(h) => ~Alive(h)'
    BY <1>2, <1>3 DEF Alive
<1>8. OneResult'
  <2>1. \A i \in DOMAIN applied : applied[i].gen \in Gens /\ applied[i].gen # g
      BY <1>2, AppliedElements DEF ScanInv, OneResult, Applied
  <2>2. CASE slot' = slot
      BY <1>2, <1>7, <2>1, <2>2 DEF ScanInv, TypeOK, OneResult
  <2>3. CASE slot' \in [gen : {g}, base : {scan[g].base}, some : BOOLEAN] /\ n.pc = "gone"
    <3>1. slot'.gen = g /\ ~Alive(g)'
        BY <1>3, <2>3 DEF Alive
    <3> QED
        BY <1>2, <1>4, <1>7, <2>1, <3>1 DEF ScanInv, OneResult
  <2> QED
      BY <1>1, <2>2, <2>3
<1>9. Fresh'
  <2>1. ASSUME token, gen > 0, Alive(gen)'
        PROVE  Alive(gen) /\ scan'[gen].base = scan[gen].base
      BY <1>1, <1>2, <1>3, <1>4, <2>1 DEF Alive, Gens
  <2>2. ASSUME token, slot' # NoResult, slot'.gen = gen, slot' # slot
        PROVE  g = gen /\ gen > 0 /\ Alive(gen) /\ slot'.base = scan[gen].base
      BY <1>1, <1>2, <2>2 DEF Gens
  <2> QED
      BY <1>2, <2>1, <2>2 DEF ScanInv, Fresh
<1> QED
    BY <1>2, <1>5, <1>6, <1>8, <1>9 DEF ScanInv, InOrder, Counted, AppliedFresh

\* The callback applies the newest result once, to a text it is fresh for, and
\* gives up the token and the slot.
LEMMA CallbackStep == ScanInv /\ HandleWholeScanCallback => ScanInv'
<1> SUFFICES ASSUME ScanInv, HandleWholeScanCallback PROVE ScanInv'
    OBVIOUS
<1>1. token /\ UNCHANGED <<pristine, gen, scan, others>>
    BY DEF HandleWholeScanCallback
<1>2. CASE ~Poll
  <2>1. UNCHANGED <<head, slot, panicked, applied>>
      BY <1>2 DEF HandleWholeScanCallback
  <2>2. token' \in BOOLEAN /\ dropped' \in BOOLEAN
      BY <1>2, Zenon DEF HandleWholeScanCallback, ScheduleIdle, ScanInv, TypeOK
  <2> QED
      BY <1>1, <2>1, <2>2 DEF ScanInv, TypeOK, NotStarted, OneResult, InOrder, Counted, Fresh,
                              AppliedFresh, Alive
<1>3. CASE Poll /\ ~slot.some
  <2>1. UNCHANGED <<head, panicked, applied, dropped>> /\ token' = FALSE /\ slot' = NoResult
      BY <1>3 DEF HandleWholeScanCallback
  <2> QED
      BY <1>1, <2>1 DEF ScanInv, TypeOK, NotStarted, OneResult, InOrder, Counted, Fresh,
                        AppliedFresh, Alive
<1>4. CASE Poll /\ slot.some
  <2>1. PICK len \in Lengths : ApplyDirectDelta(len)
      BY <1>4 DEF HandleWholeScanCallback
  <2>2. token' = FALSE /\ slot' = NoResult /\ dropped' = dropped
      BY <1>4 DEF HandleWholeScanCallback
  <2> DEFINE a == [gen |-> slot.gen, base |-> slot.base, onto |-> head]
             k == Len(applied)
  <2>3. /\ slot # NoResult /\ slot.gen = gen /\ gen \in Gens /\ gen \in Nat
        /\ slot.base \in Texts /\ head \in Texts /\ a \in Applied
      BY <1>4 DEF Poll, ScanInv, TypeOK, Applied, Gens
  <2>4. /\ k \in Nat /\ applied \in Seq(Applied) /\ DOMAIN applied = 1 .. k
        /\ \A i \in 1 .. k : applied[i] \in Applied
      BY AppliedElements DEF ScanInv, TypeOK, Applied
  <2>5. /\ applied' = Append(applied, a) /\ applied' \in Seq(Applied)
        /\ Len(applied') = k + 1 /\ DOMAIN applied' = 1 .. k + 1
        /\ \A i \in 1 .. k : applied'[i] = applied[i]
        /\ applied'[k + 1] = a
      BY <2>1, <2>3, <2>4, AppendProperties, LenProperties DEF ApplyDirectDelta
  <2>6. a.gen = gen /\ a.base = slot.base /\ a.onto = head
      BY <2>3
  <2>7. \A i \in 1 .. k :
           applied[i].gen \in Nat /\ applied[i].gen < gen /\ ~Alive(applied[i].gen)
    <3> SUFFICES ASSUME NEW i \in 1 .. k
                 PROVE  applied[i].gen \in Nat /\ applied[i].gen < gen
                        /\ ~Alive(applied[i].gen)
        OBVIOUS
    <3>1. applied[i].gen \in Nat
        BY <2>4 DEF Applied, Gens
    <3>2. applied[i].gen <= gen /\ applied[i].gen # gen /\ ~Alive(applied[i].gen)
        BY <2>3, <2>4 DEF ScanInv, OneResult
    <3> QED
        BY <2>3, <3>1, <3>2
  <2>8. k + 1 <= gen
    <3>1. CASE k = 0
        BY <2>3, <3>1 DEF Gens
    <3>2. CASE k # 0
        BY <2>3, <2>4, <2>7, <3>2 DEF ScanInv, Counted
    <3> QED
        BY <3>1, <3>2
  <2>9. head.rev \in Nat /\ head.rev <= MaxRev + k
      BY <2>3 DEF ScanInv, Counted, Texts, Revs
  <2>10. head' \in Texts /\ head.rev <= head'.rev /\ head'.rev <= MaxRev + (k + 1)
    <3>1. head' = head \/ head' = [rev |-> head.rev + 1, len |-> len]
        BY <2>1 DEF ApplyDirectDelta, NewRevision
    <3>2. head.rev + 1 \in Revs
        BY <2>3, <2>4, <2>8, <2>9, WholeScanAssumption DEF Revs, Gens
    <3> QED
        BY <2>3, <2>4, <2>9, <3>1, <3>2, WholeScanAssumption DEF Texts
  <2>11. TypeOK'
    <3>1. panicked' \in BOOLEAN
        BY <2>1, Zenon DEF ApplyDirectDelta, ScanInv, TypeOK
    <3> QED
        BY <1>1, <2>2, <2>5, <2>10, <3>1 DEF ScanInv, TypeOK, Applied
  <2>12. OneResult'
      BY <1>1, <2>2, <2>3, <2>4, <2>5, <2>6, <2>7 DEF ScanInv, OneResult, Alive
  <2>13. InOrder'
      BY <2>3, <2>4, <2>5, <2>6, <2>7 DEF ScanInv, InOrder
  <2>14. Counted'
      BY <2>4, <2>5, <2>6, <2>8, <2>10 DEF ScanInv, Counted
  <2>15. Fresh'
    <3>1. pristine <= head.rev /\ pristine \in Nat /\ head'.rev \in Nat
        BY <2>10 DEF ScanInv, Fresh, TypeOK, Texts, Revs
    <3>2. pristine' <= head'.rev
        BY <1>1, <2>9, <2>10, <3>1
    <3> QED
        BY <2>2, <3>2 DEF Fresh
  <2>16. AppliedFresh'
    <3>1. Since(others, slot.base, head)
        BY <1>1, <2>3 DEF ScanInv, Fresh
    <3> QED
        BY <1>1, <2>4, <2>5, <2>6, <3>1 DEF ScanInv, AppliedFresh
  <2> QED
      BY <1>1, <2>11, <2>12, <2>13, <2>14, <2>15, <2>16 DEF ScanInv, NotStarted
<1> QED
    BY <1>2, <1>3, <1>4
-----------------------------------------------------------------------------
\* The invariant holds throughout.
LEMMA ScanInvariant == Spec => []ScanInv
<1>1. ScanInv /\ [Next]_vars => ScanInv'
  <2> SUFFICES ASSUME ScanInv, [Next]_vars PROVE ScanInv'
      OBVIOUS
  <2>1. CASE UNCHANGED vars
      BY <2>1 DEF vars, ScanInv, TypeOK, NotStarted, OneResult, InOrder, Counted, Fresh,
                  AppliedFresh, Alive
  <2> QED
      BY <2>1, BeginStep, CallbackStep, EditStep, ThreadPreserves DEF Next
<1> QED
    BY <1>1, ScanInit, PTL DEF Spec

\* A reindent is applied at most once and never after a newer one
\* (start_reindent, poll), for every number of requests.
THEOREM InOrderAlways == Spec => []AppliedInOrder
<1>1. ScanInv => AppliedInOrder
    BY DEF ScanInv, InOrder, AppliedInOrder
<1> QED
    BY <1>1, ScanInvariant, PTL

\* Only a plugin or a reload can make a delta stale (apply_direct_delta): the
\* client and other reindents cannot, whatever tokens are refused.
THEOREM FreshAlways == Spec => []FreshUnlessOthers
<1>1. ScanInv => FreshUnlessOthers
    BY DEF ScanInv, AppliedFresh, Since, FreshUnlessOthers
<1> QED
    BY <1>1, ScanInvariant, PTL
=============================================================================
