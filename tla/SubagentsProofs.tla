-------------------------- MODULE SubagentsProofs --------------------------
(***************************************************************************)
(* Every end of a delegated child is announced once, only what completed   *)
(* is merged and nothing active is out of reach, for every number of       *)
(* children, permits and levels and every retention of the registry.       *)
(*                                                                         *)
(* The three depend on one another: that the end of a future is announced  *)
(* once rests on the task of an active child being open, and that nothing  *)
(* active is left behind rests on a future taking along exactly what is    *)
(* nested in it, at every level.  The chain of ancestors is a recursive    *)
(* function of the children's parents; that it exists (Unfolds) is itself  *)
(* an invariant, since a child is spawned below one that exists already.   *)
(***************************************************************************)
EXTENDS Subagents, FiniteSetTheorems, TLAPS

Types ==
  /\ parent \in [Ids -> Ids \union {Root}]
  /\ pc \in [Ids -> {"none", "waiting", "running", "done"}]
  /\ task \in [Ids -> TaskEnded \union {"none", "Pending", "Running"}]
  /\ reg \in [Ids -> RegEnded \union {"none", "Pending", "Running", "gone"}]
  /\ sent \in SUBSET Ids /\ turn \in BOOLEAN
  /\ merged \in SUBSET Ids /\ quarantined \in SUBSET Ids

PermitsHeld == Cardinality(Holding) <= Permits

\* The chain of ancestors is a function of the parents.
IsAbove(f) ==
  f = [c \in Ids |-> IF parent[c] = Root THEN {} ELSE {parent[c]} \union f[parent[c]]]
Unfolds == \E f : IsAbove(f)

\* Parents exist, and those of active children run.
ParentsExist == \A c \in Ids : parent[c] # Root => pc[parent[c]] # "none"
ParentsRun   == \A c \in Ids : Active(c) /\ parent[c] # Root => pc[parent[c]] = "running"

\* What is recorded of a child in each phase of its future.
Recorded(c) ==
  /\ pc[c] = "none" => c \notin merged \union quarantined
  /\ pc[c] = "waiting" => /\ task[c] = "Pending" /\ reg[c] = "Pending"
                          /\ c \notin merged \union quarantined
  /\ pc[c] = "running" => /\ task[c] = "Running" /\ reg[c] = "Running"
                          /\ c \notin merged \union quarantined
  /\ pc[c] = "done" =>
       /\ c \in merged <=> task[c] = "Completed"
       /\ reg[c] # "gone" => (reg[c] = "Completed" <=> task[c] = "Completed")
       /\ c \notin merged \intersect quarantined
       /\ task[c] \in TaskEnded \/ (task[c] = "Pending" /\ reg[c] \in {"Failed", "gone"})
       /\ reg[c] \in RegEnded \union {"gone"}

Counted ==
  /\ finished \in [Ids -> 0..1]
  /\ \A c \in Ids : finished[c] = (IF pc[c] = "done" THEN 1 ELSE 0)

\* The inductive invariant.
DelegationInv ==
  /\ Types /\ PermitsHeld /\ Unfolds /\ ParentsExist /\ ParentsRun
  /\ (\A c \in Ids : Recorded(c)) /\ Counted
-----------------------------------------------------------------------------
LEMMA IdsFinite == IsFiniteSet(Ids) /\ Root \notin Ids
BY LimitsAssumption, FS_Interval DEF Ids, Root

\* The recursive definition, once it has a solution.
LEMMA AncestorsUnfold ==
  ASSUME Unfolds
  PROVE  AncestorsOf = [c \in Ids |-> IF parent[c] = Root THEN {}
                                      ELSE {parent[c]} \union AncestorsOf[parent[c]]]
BY Zenon DEF Unfolds, IsAbove, AncestorsOf

\* A future is nested in its parent's, and in everything that one is nested in.
LEMMA NestedInParent ==
  ASSUME DelegationInv, NEW c \in Ids, Active(c), parent[c] # Root
  PROVE  /\ c \in Nested(parent[c])
         /\ \A e \in Ids : parent[c] \in Nested(e) => c \in Nested(e)
<1>1. AncestorsOf[c] = {parent[c]} \union AncestorsOf[parent[c]]
    BY AncestorsUnfold DEF DelegationInv
<1> QED
    BY <1>1 DEF Nested

\* prune takes ended entries only.
LEMMA PrunedKeeps ==
  ASSUME NEW r, NEW c \in Ids
  PROVE  Pruned(r)[c] = r[c] \/ (Pruned(r)[c] = "gone" /\ r[c] \in RegEnded)
BY DEF Pruned

LEMMA PrunedType ==
  ASSUME NEW r \in [Ids -> RegEnded \union {"none", "Pending", "Running", "gone"}]
  PROVE  Pruned(r) \in [Ids -> RegEnded \union {"none", "Pending", "Running", "gone"}]
<1>1. \A c \in Ids : Pruned(r)[c] \in RegEnded \union {"none", "Pending", "Running", "gone"}
    BY PrunedKeeps
<1>2. Pruned(r) = [c \in Ids |-> Pruned(r)[c]]
    BY DEF Pruned
<1> HIDE DEF Pruned
<1> QED
    BY <1>1, <1>2

\* One more child may run while a permit is free.
LEMMA PermitTaken ==
  ASSUME Cardinality(Holding) < Permits, NEW c \in Ids, Holding' \subseteq Holding \union {c}
  PROVE  PermitsHeld'
<1>1. IsFiniteSet(Holding) /\ IsFiniteSet(Holding \union {c})
    BY IdsFinite, FS_Subset DEF Holding
<1>2. /\ Cardinality(Holding) \in Nat
      /\ Cardinality(Holding \union {c}) = Cardinality(Holding)
         \/ Cardinality(Holding \union {c}) = Cardinality(Holding) + 1
    BY <1>1, FS_AddElement, FS_CardinalityType, Zenon
<1>3. Cardinality(Holding') <= Cardinality(Holding \union {c}) /\ Cardinality(Holding') \in Nat
    BY <1>1, FS_Subset, FS_CardinalityType
<1> QED
    BY <1>2, <1>3, LimitsAssumption DEF PermitsHeld

LEMMA PermitReturned ==
  ASSUME PermitsHeld, Holding' \subseteq Holding
  PROVE  PermitsHeld'
<1>1. IsFiniteSet(Holding)
    BY IdsFinite, FS_Subset DEF Holding
<1>2. Cardinality(Holding') <= Cardinality(Holding) /\ Cardinality(Holding') \in Nat
      /\ Cardinality(Holding) \in Nat
    BY <1>1, FS_Subset, FS_CardinalityType
<1> QED
    BY <1>2, LimitsAssumption DEF PermitsHeld

LEMMA DelegationInit == Init => DelegationInv
<1> SUFFICES ASSUME Init PROVE DelegationInv
    OBVIOUS
<1>1. Types
    BY DEF Init, Types
<1>2. PermitsHeld
  <2>1. Holding = {}
      BY DEF Init, Holding
  <2> QED
      BY <2>1, FS_EmptySet, LimitsAssumption DEF PermitsHeld
<1>3. Unfolds
  <2>1. IsAbove([c \in Ids |-> {}])
      BY DEF Init, IsAbove
  <2> QED
      BY <2>1 DEF Unfolds
<1>4. ParentsExist /\ ParentsRun
    BY DEF Init, ParentsExist, ParentsRun, Active
<1>5. \A c \in Ids : Recorded(c)
    BY DEF Init, Recorded
<1>6. Counted
    BY DEF Init, Counted
<1> QED
    BY <1>1, <1>2, <1>3, <1>4, <1>5, <1>6 DEF DelegationInv

\* What the invariant needs of the signals: nothing but their types.
LEMMA SignalsFree ==
  ASSUME DelegationInv, UNCHANGED <<parent, pc>>, UNCHANGED records,
         sent' \in SUBSET Ids, turn' \in BOOLEAN
  PROVE  DelegationInv'
<1>1. UNCHANGED <<task, reg, finished, merged, quarantined>>
    BY DEF records
<1>2. Types'
    BY <1>1 DEF DelegationInv, Types
<1>3. PermitsHeld' /\ ParentsExist' /\ ParentsRun'
    BY DEF DelegationInv, PermitsHeld, Holding, ParentsExist, ParentsRun, Active
<1>4. Unfolds'
    BY DEF DelegationInv, Unfolds, IsAbove
<1>5. \A c \in Ids : Recorded(c)'
    BY <1>1 DEF DelegationInv, Recorded
<1>6. Counted'
    BY <1>1 DEF DelegationInv, Counted
<1> QED
    BY <1>2, <1>3, <1>4, <1>5, <1>6 DEF DelegationInv

\* A child of one that runs, or of the turn, begins.
LEMMA SpawnPreserves ==
  ASSUME DelegationInv, NEW c \in Ids, NEW p \in Ids \union {Root}, Spawn(c, p)
  PROVE  DelegationInv'
<1> USE DEF DelegationInv
<1> DEFINE starts == /\ ~CancelSignal(p)
                     /\ Waiting = {} /\ Cardinality(Holding) < Permits
           at == IF starts THEN "Running" ELSE "Pending"
           to == IF starts THEN "running" ELSE "waiting"
           r  == [reg EXCEPT ![c] = at]
<1>1. /\ pc[c] = "none" /\ (p # Root => pc[p] = "running")
      /\ parent' = [parent EXCEPT ![c] = p]
      /\ pc' = [pc EXCEPT ![c] = to] /\ task' = [task EXCEPT ![c] = at]
      /\ reg' = Pruned(r)
      /\ UNCHANGED <<sent, turn, finished, merged, quarantined>>
    BY DEF Spawn
<1>2. \/ to = "running" /\ at = "Running" /\ Cardinality(Holding) < Permits
      \/ to = "waiting" /\ at = "Pending"
    OBVIOUS
<1> HIDE DEF starts, at, to
<1>3. /\ r \in [Ids -> RegEnded \union {"none", "Pending", "Running", "gone"}]
      /\ r[c] = at /\ \A d \in Ids \ {c} : r[d] = reg[d]
    BY <1>2 DEF Types
<1> HIDE DEF r
<1>4. /\ reg' \in [Ids -> RegEnded \union {"none", "Pending", "Running", "gone"}]
      /\ reg'[c] = at
      /\ \A d \in Ids \ {c} : reg'[d] = reg[d] \/ (reg'[d] = "gone" /\ reg[d] \in RegEnded)
  <2>1. at \notin RegEnded
      BY <1>2 DEF RegEnded
  <2> QED
      BY <1>1, <1>3, <2>1, PrunedKeeps, PrunedType
<1>5. /\ pc'[c] = to /\ task'[c] = at /\ parent'[c] = p
      /\ \A d \in Ids \ {c} : pc'[d] = pc[d] /\ task'[d] = task[d] /\ parent'[d] = parent[d]
    BY <1>1 DEF Types
<1>6. Types'
  <2>1. parent' \in [Ids -> Ids \union {Root}]
      BY <1>1 DEF Types
  <2>2. pc' \in [Ids -> {"none", "waiting", "running", "done"}]
      BY <1>1, <1>2 DEF Types
  <2>3. task' \in [Ids -> TaskEnded \union {"none", "Pending", "Running"}]
      BY <1>1, <1>2 DEF Types
  <2> QED
      BY <1>1, <1>4, <2>1, <2>2, <2>3 DEF Types
<1>7. PermitsHeld'
  <2>1. CASE to = "running"
    <3>1. Holding' \subseteq Holding \union {c} /\ Cardinality(Holding) < Permits
        BY <1>2, <1>5, <2>1 DEF Holding
    <3> QED
        BY <3>1, PermitTaken
  <2>2. CASE to = "waiting"
    <3>1. Holding' \subseteq Holding
        BY <1>5, <2>2 DEF Holding
    <3> QED
        BY <3>1, PermitReturned
  <2> QED
      BY <1>2, <2>1, <2>2
<1>8. \A d \in Ids : parent[d] # c
    BY <1>1, IdsFinite DEF ParentsExist
<1>9. p # c
    BY <1>1, IdsFinite
<1>10. Unfolds'
  <2>1. PICK f : IsAbove(f)
      BY DEF Unfolds
  <2> DEFINE h == [d \in Ids |-> IF d = c THEN IF p = Root THEN {} ELSE {p} \union f[p]
                                 ELSE f[d]]
  <2>2. \A d \in Ids : f[d] = IF parent[d] = Root THEN {} ELSE {parent[d]} \union f[parent[d]]
      BY <2>1 DEF IsAbove
  <2>3. \A d \in Ids : h[d] = IF parent'[d] = Root THEN {}
                              ELSE {parent'[d]} \union h[parent'[d]]
    <3>1. h[c] = IF p = Root THEN {} ELSE {p} \union h[p]
        BY <1>9
    <3>2. ASSUME NEW d \in Ids \ {c}
          PROVE  h[d] = IF parent[d] = Root THEN {} ELSE {parent[d]} \union h[parent[d]]
      <4>1. parent[d] \in (Ids \ {c}) \union {Root}
          BY <1>8 DEF Types
      <4> QED
          BY <2>2, <4>1
    <3> QED
        BY <1>5, <3>1, <3>2
  <2>4. h = [d \in Ids |-> h[d]]
      OBVIOUS
  <2> HIDE DEF h
  <2>5. h = [d \in Ids |-> IF parent'[d] = Root THEN {} ELSE {parent'[d]} \union h[parent'[d]]]
      BY <2>3, <2>4
  <2> QED
      BY <2>5, Zenon DEF Unfolds, IsAbove
<1>11. ParentsExist'
    BY <1>1, <1>2, <1>5, <1>8, <1>9 DEF ParentsExist, Types
<1>12. ParentsRun'
    BY <1>1, <1>2, <1>5, <1>8, <1>9 DEF ParentsRun, Types, Active
<1>13. \A d \in Ids : Recorded(d)'
  <2>1. Recorded(c)'
      BY <1>1, <1>2, <1>4, <1>5 DEF Recorded
  <2>2. ASSUME NEW d \in Ids \ {c} PROVE Recorded(d)'
      BY <1>1, <1>4, <1>5 DEF Recorded, RegEnded
  <2> QED
      BY <2>1, <2>2
<1>14. Counted'
    BY <1>1, <1>2, <1>5 DEF Counted
<1> QED
    BY <1>6, <1>7, <1>10, <1>11, <1>12, <1>13, <1>14

\* The semaphore hands a permit on.
LEMMA GrantPreserves ==
  ASSUME DelegationInv, NEW c \in Ids, PermitGranted(c)
  PROVE  DelegationInv'
<1> USE DEF DelegationInv
<1>1. /\ pc[c] = "waiting" /\ task[c] = "Pending" /\ reg[c] = "Pending"
      /\ Cardinality(Holding) < Permits
      /\ pc' = [pc EXCEPT ![c] = "running"]
      /\ UNCHANGED <<parent, sent, turn, finished, merged, quarantined>>
    BY DEF PermitGranted, Recorded
<1>2. task' = [task EXCEPT ![c] = "Running"] /\ reg' = [reg EXCEPT ![c] = "Running"]
    BY <1>1 DEF PermitGranted, Transition, CanTransition
<1>3. /\ pc'[c] = "running" /\ task'[c] = "Running" /\ reg'[c] = "Running"
      /\ \A d \in Ids \ {c} : pc'[d] = pc[d] /\ task'[d] = task[d] /\ reg'[d] = reg[d]
    BY <1>1, <1>2 DEF Types
<1>4. Types'
  <2>1. pc' \in [Ids -> {"none", "waiting", "running", "done"}]
      BY <1>1 DEF Types
  <2>2. task' \in [Ids -> TaskEnded \union {"none", "Pending", "Running"}]
        /\ reg' \in [Ids -> RegEnded \union {"none", "Pending", "Running", "gone"}]
      BY <1>2 DEF Types
  <2> QED
      BY <1>1, <2>1, <2>2 DEF Types
<1>5. PermitsHeld'
  <2>1. Holding' \subseteq Holding \union {c}
      BY <1>3 DEF Holding
  <2> QED
      BY <1>1, <2>1, PermitTaken
<1>6. Unfolds'
    BY <1>1 DEF Unfolds, IsAbove
<1>7. ParentsExist' /\ ParentsRun'
    BY <1>1, <1>3 DEF ParentsExist, ParentsRun, Active, Types
<1>8. \A d \in Ids : Recorded(d)'
    BY <1>1, <1>3 DEF Recorded
<1>9. Counted'
    BY <1>1, <1>3 DEF Counted
<1> QED
    BY <1>4, <1>5, <1>6, <1>7, <1>8, <1>9

\* A future ends, and takes along what is nested in it.
LEMMA EndsPreserves ==
  ASSUME DelegationInv, NEW c \in Ids, Active(c),
         NEW status \in {"Completed", "Failed", "Cancelled"}, NEW entry \in RegEnded,
         NEW dropped \in BOOLEAN, Ends(c, status, entry, dropped),
         merged' \in SUBSET Ids, quarantined' \in SUBSET Ids,
         \A d \in Ids \ {c} : /\ d \in merged' <=> d \in merged
                              /\ d \in quarantined' <=> d \in quarantined,
         c \in merged' <=> status = "Completed",
         entry = "Completed" <=> status = "Completed",
         status = "Completed" => pc[c] = "running" /\ c \notin quarantined',
         status = "Failed" => pc[c] = "running" \/ entry = "Failed"
  PROVE  DelegationInv'
<1> USE DEF DelegationInv
<1> DEFINE gone == {c} \union Nested(c)
           r == [d \in Ids |->
                   IF d \in gone /\ reg[d] \in {"Pending", "Running"}
                     THEN IF d = c THEN entry ELSE "Cancelled"
                     ELSE reg[d]]
<1>1. /\ pc' = [d \in Ids |-> IF d \in gone THEN "done" ELSE pc[d]]
      /\ task' = [d \in Ids |-> IF d \in gone /\ TaskActive(task[d])
                    THEN Transition(task[d], IF d = c THEN status ELSE "Cancelled")
                    ELSE task[d]]
      /\ reg' = Pruned(r)
      /\ finished' = [d \in Ids |->
                        IF d \in gone /\ TaskActive(task[d])
                             /\ (d # c \/ dropped => reg[d] \in {"Pending", "Running"})
                        THEN finished[d] + 1 ELSE finished[d]]
      /\ sent' = sent \ gone
      /\ UNCHANGED <<parent, turn>>
    BY DEF Ends
<1>2. gone \subseteq Ids /\ \A d \in gone : Active(d)
    BY DEF Nested
<1>3. ASSUME NEW d \in gone
      PROVE  /\ \/ pc[d] = "waiting" /\ task[d] = "Pending" /\ reg[d] = "Pending"
                \/ pc[d] = "running" /\ task[d] = "Running" /\ reg[d] = "Running"
             /\ d \notin merged \union quarantined
    BY <1>2 DEF Active, Recorded
<1>4. ASSUME NEW d \in Ids \ {c}, parent[d] \in gone, Active(d) PROVE d \in gone
    BY <1>4, NestedInParent, IdsFinite, <1>2
<1> HIDE DEF gone
<1>5. /\ r \in [Ids -> RegEnded \union {"none", "Pending", "Running", "gone"}]
      /\ \A d \in Ids \ gone : r[d] = reg[d]
      /\ \A d \in gone : r[d] = IF d = c THEN entry ELSE "Cancelled"
    BY <1>2, <1>3 DEF Types, RegEnded
<1> HIDE DEF r
<1>6. /\ reg' \in [Ids -> RegEnded \union {"none", "Pending", "Running", "gone"}]
      /\ \A d \in Ids \ gone : reg'[d] = reg[d] \/ (reg'[d] = "gone" /\ reg[d] \in RegEnded)
      /\ \A d \in gone : reg'[d] = "gone" \/ reg'[d] = IF d = c THEN entry ELSE "Cancelled"
    BY <1>1, <1>2, <1>5, PrunedKeeps, PrunedType
<1>7. /\ \A d \in Ids \ gone : pc'[d] = pc[d] /\ task'[d] = task[d] /\ finished'[d] = finished[d]
      /\ \A d \in gone : pc'[d] = "done" /\ finished'[d] = finished[d] + 1
      /\ \A d \in gone \ {c} : task'[d] = "Cancelled"
      /\ task'[c] = status \/ (task'[c] = "Pending" /\ status = "Failed" /\ pc[c] = "waiting")
  <2>1. c \in gone
      BY DEF gone
  <2> QED
      BY <1>1, <1>2, <1>3, <2>1 DEF TaskActive, Transition, CanTransition
<1>8. Types'
  <2>1. pc' \in [Ids -> {"none", "waiting", "running", "done"}]
      BY <1>1 DEF Types
  <2>2. task' \in [Ids -> TaskEnded \union {"none", "Pending", "Running"}]
    <3>1. \A d \in Ids : task'[d] \in TaskEnded \union {"none", "Pending", "Running"}
        BY <1>7 DEF Types, TaskEnded
    <3>2. task' = [d \in Ids |-> task'[d]]
        BY <1>1
    <3> QED
        BY <3>1, <3>2
  <2> QED
      BY <1>1, <1>6, <2>1, <2>2 DEF Types
<1>9. PermitsHeld'
  <2>1. Holding' \subseteq Holding
      BY <1>7 DEF Holding
  <2> QED
      BY <2>1, PermitReturned
<1>10. Unfolds'
    BY <1>1 DEF Unfolds, IsAbove
<1>11. ParentsExist'
    BY <1>1, <1>7 DEF ParentsExist, Types
<1>12. ParentsRun'
  <2> SUFFICES ASSUME NEW d \in Ids, Active(d)', parent[d] # Root
               PROVE  pc'[parent[d]] = "running"
      BY <1>1 DEF ParentsRun
  <2>1. d \notin gone /\ Active(d) /\ parent[d] \in Ids
      BY <1>7 DEF Active, Types
  <2>2. d # c
      BY <2>1 DEF gone
  <2>3. parent[d] \notin gone
      BY <1>4, <2>1, <2>2
  <2> QED
      BY <1>7, <2>1, <2>3 DEF ParentsRun
<1>13. \A d \in Ids : Recorded(d)'
  <2>1. ASSUME NEW d \in Ids \ gone PROVE Recorded(d)'
    <3>1. d # c
        BY DEF gone
    <3> QED
        BY <1>6, <1>7, <3>1 DEF Recorded, RegEnded
  <2>2. ASSUME NEW d \in gone \ {c} PROVE Recorded(d)'
      BY <1>2, <1>3, <1>6, <1>7 DEF Recorded, RegEnded, TaskEnded
  <2>3. Recorded(c)'
    <3>1. c \in gone
        BY DEF gone
    <3>2. pc'[c] = "done" /\ (reg'[c] = "gone" \/ reg'[c] = entry)
        BY <1>6, <1>7, <3>1
    <3> QED
        BY <1>3, <1>7, <3>1, <3>2 DEF Recorded, RegEnded, TaskEnded
  <2> QED
      BY <2>1, <2>2, <2>3
<1>14. Counted'
  <2>1. \A d \in Ids : finished'[d] = (IF pc'[d] = "done" THEN 1 ELSE 0)
      BY <1>2, <1>3, <1>7 DEF Counted
  <2>2. finished' = [d \in Ids |-> finished'[d]]
      BY <1>1
  <2> QED
      BY <2>1, <2>2 DEF Counted
<1> QED
    BY <1>8, <1>9, <1>10, <1>11, <1>12, <1>13, <1>14

\* Every way in which a future ends.
LEMMA EndPreserves ==
  ASSUME DelegationInv, NEW c \in Ids,
         \/ PermitCancelled(c) \/ PermitTimesOut(c)
         \/ ChildCancelled(c) \/ ChildTimesOut(c) \/ ChildStalls(c)
         \/ \E outcome \in {"verified", "unverified", "failed", "cancelled"} :
              ChildEnds(c, outcome)
         \/ DropSpawn(c)
  PROVE  DelegationInv'
<1>1. merged \in SUBSET Ids /\ quarantined \in SUBSET Ids
    BY DEF DelegationInv, Types
<1>2. Active(c) => c \notin merged \union quarantined
    BY DEF DelegationInv, Recorded, Active
<1>3. ASSUME Active(c), NEW entry \in {"Cancelled", "Failed", "Stalled"}, CancelledResult(c, entry)
      PROVE  DelegationInv'
  <2> DEFINE status == IF entry = "Failed" THEN "Failed" ELSE "Cancelled"
  <2>1. /\ Ends(c, status, entry, FALSE) /\ merged' = merged /\ quarantined' = quarantined \union {c}
        /\ status \in {"Failed", "Cancelled"} /\ (status = "Failed" => entry = "Failed")
      BY <1>3 DEF CancelledResult
  <2> HIDE DEF status
  <2>2. entry \in RegEnded /\ status # "Completed" /\ entry # "Completed"
      BY <2>1 DEF RegEnded
  <2> QED
      BY <1>1, <1>2, <1>3, <2>1, <2>2, EndsPreserves
<1>4. CASE PermitCancelled(c) \/ PermitTimesOut(c) \/ ChildCancelled(c) \/ ChildTimesOut(c)
           \/ ChildStalls(c)
    BY <1>3, <1>4 DEF PermitCancelled, PermitTimesOut, ChildCancelled, ChildTimesOut, ChildStalls,
                      Active
<1>5. ASSUME NEW outcome \in {"verified", "unverified", "failed", "cancelled"},
             ChildEnds(c, outcome)
      PROVE  DelegationInv'
  <2> DEFINE status == CASE outcome = "verified"  -> "Completed"
                         [] outcome = "cancelled" -> "Cancelled"
                         [] OTHER                 -> "Failed"
  <2>1. /\ pc[c] = "running" /\ Ends(c, status, status, FALSE)
        /\ merged' = IF outcome = "verified" THEN merged \union {c} ELSE merged
        /\ quarantined' = IF outcome = "verified" THEN quarantined ELSE quarantined \union {c}
      BY <1>5, Zenon DEF ChildEnds
  <2>2. /\ status \in {"Completed", "Failed", "Cancelled"} /\ status \in RegEnded
        /\ status = "Completed" <=> outcome = "verified"
      BY DEF RegEnded
  <2> HIDE DEF status
  <2>3. Active(c)
      BY <2>1 DEF Active
  <2>4. /\ merged' \in SUBSET Ids /\ quarantined' \in SUBSET Ids
        /\ \A d \in Ids \ {c} : /\ d \in merged' <=> d \in merged
                                /\ d \in quarantined' <=> d \in quarantined
        /\ c \in merged' <=> status = "Completed"
        /\ status = "Completed" => c \notin quarantined'
      BY <1>1, <1>2, <2>1, <2>2, <2>3
  <2> QED
      BY <2>1, <2>2, <2>3, <2>4, EndsPreserves
<1>6. CASE DropSpawn(c)
  <2>1. Active(c) /\ Ends(c, "Cancelled", "Cancelled", TRUE) /\ UNCHANGED <<merged, quarantined>>
      BY <1>6 DEF DropSpawn
  <2>2. "Cancelled" \in RegEnded
      BY DEF RegEnded
  <2> QED
      BY <1>1, <1>2, <2>1, <2>2, EndsPreserves
<1> QED
    BY <1>4, <1>5, <1>6

LEMMA DelegationNext == DelegationInv /\ [Next]_vars => DelegationInv'
<1> SUFFICES ASSUME DelegationInv, [Next]_vars PROVE DelegationInv'
    OBVIOUS
<1>1. sent \in SUBSET Ids /\ turn \in BOOLEAN
    BY DEF DelegationInv, Types
<1>2. ASSUME NEW c \in Ids, CancelChild(c) PROVE DelegationInv'
  <2>1. UNCHANGED <<parent, pc>> /\ UNCHANGED records /\ UNCHANGED turn
        /\ sent' = sent \union {c}
      BY <1>2 DEF CancelChild
  <2> QED
      BY <1>1, <2>1, SignalsFree
<1>3. CASE CancelAllChildren
  <2>1. UNCHANGED <<parent, pc>> /\ UNCHANGED records /\ UNCHANGED turn
        /\ sent' \in SUBSET Ids
      BY <1>1, <1>3 DEF CancelAllChildren
  <2> QED
      BY <1>1, <2>1, SignalsFree
<1>4. CASE CancelTurn
  <2>1. UNCHANGED <<parent, pc>> /\ UNCHANGED records /\ UNCHANGED sent /\ turn' = TRUE
      BY <1>4 DEF CancelTurn
  <2> QED
      BY <1>1, <2>1, SignalsFree
<1>5. CASE UNCHANGED vars
    BY <1>1, <1>5, SignalsFree DEF vars, records
<1>6. ASSUME NEW c \in Ids, Future(c) PROVE DelegationInv'
    BY <1>6, SpawnPreserves, GrantPreserves, EndPreserves DEF Future
<1> QED
    BY <1>2, <1>3, <1>4, <1>5, <1>6 DEF Next

LEMMA DelegationAlways == Spec => []DelegationInv
BY DelegationInit, DelegationNext, PTL DEF Spec

\* Whichever of cancellation, timeout, stall, drop and completion gets there first,
\* and at whatever depth, the end of a child is announced exactly once; and never do
\* more children run than there are permits.
THEOREM EndsAreAnnounced == Spec => []AnnouncedOnce
<1>1. DelegationInv => AnnouncedOnce
    BY DEF DelegationInv, Types, PermitsHeld, Counted, AnnouncedOnce, TypeOK
<1> QED
    BY <1>1, DelegationAlways, PTL

\* What a child that has ended produced is in the parent's memory exactly when its
\* task is completed, the registry has ended with it and agrees, and nothing is both
\* merged and set aside.  That its task has ended too is not stated: it is false
\* (EndedIsTerminal).
THEOREM OnlyCompletedIsMerged == Spec => []MergedIsCompleted
<1>1. DelegationInv => MergedIsCompleted
    BY DEF DelegationInv, Recorded, MergedIsCompleted
<1> QED
    BY <1>1, DelegationAlways, PTL

\* A child that is active has a live registry entry and an open task, and the child
\* it is nested in still runs, whatever was pruned, dropped or cancelled before.
THEOREM ActiveStaysReachable == Spec => []ActiveIsReachable
<1>1. DelegationInv => ActiveIsReachable
    BY DEF DelegationInv, Recorded, ParentsRun, ActiveIsReachable, Active
<1> QED
    BY <1>1, DelegationAlways, PTL
=============================================================================
