-------------------------- MODULE AsyncSaveProofs --------------------------
(***************************************************************************)
(* What a save promises when the core runs in RpcLoop::mainloop, for every *)
(* number of saves, chunks, edits and foreign writes.                      *)
(*                                                                         *)
(* First, saves do not overlap (OverlapInv): a thread that has not         *)
(* deposited its result is that of the current generation, and its token   *)
(* is in the idle queue or its callback is running.  That a callback which *)
(* found a result need not come back rests on the order of the thread's    *)
(* last steps: whoever has deposited does not write any more.  The types   *)
(* follow from the order of the steps alone (Steps).                       *)
(*                                                                         *)
(* On the single writer rest the files (DiskInv): the temporary file is    *)
(* not the file, it holds what its thread has written so far, and is       *)
(* renamed when that is the whole snapshot.  A revision number identifies  *)
(* a text (Revisions), which is what finish_async_save compares.  Results  *)
(* are followed from the thread through the slot and the callback to the   *)
(* report (ToldInv); each is in one of these places only.                  *)
(***************************************************************************)
EXTENDS AsyncSave, SequenceTheorems, TLAPS

Ended(g)   == pc[g] \in {"exit", "done"}
Writing(g) == pc[g] \notin {"off", "exit", "done"}

OverlapTypes ==
    /\ gen \in 0 .. MaxSaves
    /\ pc \in [Gens -> Pcs]

\* What was deposited, and what a callback holds, comes from an ended thread.
SlotInv == slot # NoResult => slot.gen \in Gens /\ Ended(slot.gen)
GotInv ==
    got # NoResult => got.gen = gen /\ gen \in Gens /\ Ended(gen) /\ cb # "off"

NotStarted == \A g \in Gens : g > gen => pc[g] = "off"

\* The token, or the running callback, stands for the thread.
TokenHeld == \A g \in Gens : Writing(g) => g = gen /\ (idle \/ cb # "off")

OverlapInv == OverlapTypes /\ SlotInv /\ GotInv /\ NotStarted /\ TokenHeld
-----------------------------------------------------------------------------
\* A step of a save thread only moves that thread on; it writes a result when
\* it ends, and never becomes active again.
LEMMA ThreadMoves ==
    ASSUME NEW g \in Gens, OverlapTypes, ThreadStep(g)
    PROVE  /\ UNCHANGED <<gen, idle, cb, got>>
           /\ Writing(g) \/ pc[g] = "exit"
           /\ \E p \in Pcs \ {"off"} :
                /\ pc' = [pc EXCEPT ![g] = p]
                /\ pc[g] = "exit" => p = "done"
           /\ \/ UNCHANGED slot
              \/ /\ pc' = [pc EXCEPT ![g] = "exit"]
                 /\ slot'.gen = g
<1> USE DEF OverlapTypes, Writing, Pcs, ThreadFrame, cbVars, At, Return
<1>1. CASE ThreadStarts(g)  BY <1>1 DEF ThreadStarts
<1>2. CASE CreateTmp(g)     BY <1>2 DEF CreateTmp
<1>3. CASE CheckCreated(g)  BY <1>3 DEF CheckCreated, CheckOrRemove
<1>4. CASE CheckChunk(g)    BY <1>4 DEF CheckChunk
<1>5. CASE WriteChunk(g)    BY <1>5 DEF WriteChunk, AfterChunk
<1>6. CASE CheckFinal(g)    BY <1>6 DEF CheckFinal, CheckOrRemove
<1>7. CASE Rename(g)        BY <1>7 DEF Rename
<1>8. CASE Chmod(g)         BY <1>8 DEF Chmod
<1>9. CASE IoError(g)       BY <1>9 DEF IoError, IoErrorFrame
<1>10. CASE CheckStale(g)   BY <1>10 DEF CheckStale
<1>11. CASE Deposit(g)      BY <1>11 DEF Deposit
<1>12. CASE Exit(g)         BY <1>12 DEF Exit
<1> QED
    BY <1>1, <1>2, <1>3, <1>4, <1>5, <1>6, <1>7, <1>8, <1>9, <1>10, <1>11, <1>12
       DEF ThreadStep

\* The invariant holds in the initial states.
LEMMA OverlapInit == Init => OverlapInv
<1> SUFFICES ASSUME Init PROVE OverlapInv
    OBVIOUS
<1>1. gen = 0 /\ pc = [g \in Gens |-> "off"] /\ slot = NoResult /\ got = NoResult
    BY DEF Init
<1>2. OverlapTypes
    BY <1>1, ConstantsAssumption DEF OverlapTypes, Pcs
<1> QED
    BY <1>1, <1>2 DEF OverlapInv, SlotInv, GotInv, NotStarted, TokenHeld, Writing

\* Every step preserves the invariant.  Only do_save starts a thread, and the
\* run loop lets it in only when no token is left.
LEMMA OverlapStep ==
    ASSUME InRunLoop, OverlapInv, [Next]_vars
    PROVE  OverlapInv'
<1> USE DEF OverlapInv
<1>1. ASSUME UNCHANGED <<gen, pc, slot, got, idle, cb>> PROVE OverlapInv'
    BY <1>1 DEF OverlapTypes, SlotInv, GotInv, NotStarted, TokenHeld, Writing, Ended
<1>2. CASE Edit \/ PluginEdit
    BY <1>1, <1>2 DEF Edit, PluginEdit, EditFrame, taskVars, thrVars, cbVars
<1>3. CASE Undo
    BY <1>1, <1>3 DEF Undo, EditFrame, taskVars, thrVars, cbVars
<1>4. CASE FsEventStashes
    BY <1>1, <1>4 DEF FsEventStashes, taskVars, thrVars, cbVars
<1>5. CASE FsEventReloads
    BY <1>1, <1>5 DEF FsEventReloads, taskVars, thrVars, cbVars
<1>6. CASE ForeignWrite
    BY <1>1, <1>6 DEF ForeignWrite, taskVars, thrVars, cbVars
<1>7. CASE UNCHANGED vars
    BY <1>1, <1>7 DEF vars, taskVars, thrVars, cbVars
<1>8. CASE DoSave
  <2>1. /\ gen' = gen + 1 /\ gen + 1 \in Gens /\ gen \in Nat
        /\ pc' = [pc EXCEPT ![gen + 1] = "start"]
        /\ slot' = NoResult /\ got' = got /\ idle' = TRUE /\ cb' = cb
        /\ cb = "off" /\ ~idle
      BY <1>8, ConstantsAssumption DEF DoSave, StartSave, ClientTurn, OverlapTypes, Gens
  <2>2. got = NoResult
      BY <2>1 DEF GotInv
  <2>3. \A g \in Gens : ~Writing(g)
      BY <2>1 DEF TokenHeld
  <2>4. OverlapTypes'
      BY <2>1 DEF OverlapTypes, Pcs, Gens
  <2>5. NotStarted'
      BY <2>1 DEF NotStarted, OverlapTypes, Gens
  <2>6. TokenHeld'
      BY <2>1, <2>3 DEF TokenHeld, Writing, OverlapTypes, Gens
  <2> QED
      BY <2>1, <2>2, <2>4, <2>5, <2>6 DEF SlotInv, GotInv
<1>9. CASE Callback \/ SaveStatus
  <2>1. /\ cb' = "progress" /\ gen' = gen /\ pc' = pc
        /\ IF slot.gen = gen THEN got' = slot /\ slot' = NoResult
                             ELSE got' = NoResult /\ slot' = slot
      BY <1>9 DEF Callback, SaveStatus, Poll, thrVars
  <2> QED
      BY <2>1 DEF OverlapTypes, SlotInv, GotInv, NotStarted, TokenHeld, Writing, Ended
<1>10. CASE PollProgress
    BY <1>10 DEF PollProgress, ProgressFrame, thrVars, OverlapTypes, SlotInv, GotInv,
                 NotStarted, TokenHeld, Writing, Ended
<1>11. CASE FinishAsyncSave
  <2>1. /\ got # NoResult /\ got' = NoResult
        /\ UNCHANGED <<gen, pc, slot, idle>>
      BY <1>11 DEF FinishAsyncSave, Finish, taskVars, thrVars
  <2>2. \A g \in Gens : ~Writing(g)
      BY <2>1 DEF GotInv, TokenHeld, Writing, Ended
  <2> QED
      BY <2>1, <2>2 DEF OverlapTypes, SlotInv, GotInv, NotStarted, TokenHeld, Writing,
                        Ended
<1>12. CASE Reschedule
  <2>1. /\ got = NoResult /\ got' = NoResult
        /\ UNCHANGED <<gen, pc, slot>>
        /\ idle' = (idle \/ InProgress)
      BY <1>12 DEF Reschedule, taskVars, thrVars
  <2>2. ASSUME NEW g \in Gens, Writing(g) PROVE g = gen /\ InProgress
      BY <2>2 DEF TokenHeld, Writing, InProgress, Gens
  <2>3. TokenHeld'
      BY <2>1, <2>2 DEF TokenHeld, Writing
  <2> QED
      BY <2>1, <2>3 DEF OverlapTypes, SlotInv, GotInv, NotStarted, Ended
<1>13. ASSUME NEW g \in Gens, ThreadStep(g) PROVE OverlapInv'
  <2>1. PICK p \in Pcs \ {"off"} :
            pc' = [pc EXCEPT ![g] = p] /\ (pc[g] = "exit" => p = "done")
      BY <1>13, ThreadMoves
  <2>2. UNCHANGED <<gen, idle, cb, got>> /\ (Writing(g) \/ pc[g] = "exit")
      BY <1>13, ThreadMoves
  <2>3. \/ slot' = slot
        \/ pc' = [pc EXCEPT ![g] = "exit"] /\ slot'.gen = g
      BY <1>13, ThreadMoves
  <2>4. OverlapTypes'
      BY <2>1, <2>2 DEF OverlapTypes
  <2>5. \A h \in Gens : Ended(h) => Ended(h)'
      BY <2>1, <2>2 DEF OverlapTypes, Ended, Writing
  <2>6. SlotInv'
      BY <2>3, <2>5 DEF SlotInv, OverlapTypes, Ended
  <2>7. GotInv'
      BY <2>2, <2>5 DEF GotInv
  <2>8. NotStarted'
      BY <2>1, <2>2 DEF NotStarted, OverlapTypes, Writing
  <2>9. TokenHeld'
      BY <2>1, <2>2 DEF TokenHeld, OverlapTypes, Writing
  <2> QED
      BY <2>4, <2>6, <2>7, <2>8, <2>9
<1> QED
    BY <1>2, <1>3, <1>4, <1>5, <1>6, <1>7, <1>8, <1>9, <1>10, <1>11, <1>12, <1>13
       DEF Next, CallbackStep

\* While the core is driven by its run loop two saves never write the one
\* temporary file at the same time, although do_save and start_save do not
\* look: whatever the number of saves, and whatever fails.
THEOREM NoOverlap == InRunLoop => (Spec => []SavesDoNotOverlap)
<1> SUFFICES ASSUME InRunLoop PROVE Spec => []SavesDoNotOverlap
    OBVIOUS
<1>1. OverlapInv => SavesDoNotOverlap
    BY DEF OverlapInv, TokenHeld, Writing, SavesDoNotOverlap
<1>2. OverlapInv /\ [Next]_vars => OverlapInv'
    BY OverlapStep
<1> QED
    BY <1>1, <1>2, OverlapInit, PTL DEF Spec
-----------------------------------------------------------------------------
(* Types *)

\* The types of the parts of the state.
BufTypes ==
    /\ undos \in Seq(Revs) /\ cur \in 1 .. Len(undos) /\ pristine \in Revs
    /\ revs \in Nat /\ foreign \in 0 .. MaxForeign
TaskTypes ==
    gen \in 0 .. MaxSaves /\ slot \in Results \cup {NoResult} /\ prog \in 0 .. MaxSaves
ThrTypes ==
    /\ pc \in [Gens -> Pcs] /\ snap \in [Gens -> Revs] /\ fd \in [Gens -> Inodes]
    /\ off \in [Gens -> 1 .. NChunks + 1]
    /\ res \in [Gens -> {"none", "ok", "error", "cancelled"}]
FsTypes ==
    /\ data \in [Inodes -> Contents] /\ stamp \in [Inodes -> Nat]
    /\ path \in Inodes /\ tmp \in Inodes \cup {NoTmp} /\ onDisk \subseteq Contents
InfoTypes == cookie \in Inodes \X Nat /\ hasChanged \in BOOLEAN
CbTypes ==
    /\ idle \in BOOLEAN /\ cb \in {"off", "progress", "decide"}
    /\ got \in Results \cup {NoResult} /\ reports \in Seq(Results)

\* A thread that has not written yet starts at the first chunk, one that is about
\* to write has a chunk left, and one that has returned has a result.
InStep(g) ==
    /\ pc[g] \in {"off", "start", "create", "created"} => off[g] = 1
    /\ pc[g] \in {"chunk", "write"} => off[g] <= NChunks
    /\ pc[g] \in {"final", "rename"} => off[g] = NChunks + 1
    /\ pc[g] \in {"stale", "deposit"} => res[g] # "none"

Steps == NotStarted /\ \A g \in Gens : InStep(g)

TypeInv ==
    /\ BufTypes /\ TaskTypes /\ ThrTypes /\ FsTypes /\ InfoTypes /\ CbTypes /\ Steps

LEMMA TypesInParts ==
    TypeOK <=> BufTypes /\ TaskTypes /\ ThrTypes /\ FsTypes /\ InfoTypes /\ CbTypes
<1>1. ASSUME undos \in Seq(Revs) PROVE DOMAIN undos = 1 .. Len(undos)
    BY <1>1, LenProperties
<1> QED
    BY <1>1, Zenon
    DEF TypeOK, BufTypes, TaskTypes, ThrTypes, FsTypes, InfoTypes, CbTypes

\* The texts of the model.
LEMMA WholeTexts ==
    /\ Empty \in Contents
    /\ \A v \in Versions : Whole(v) \in Contents
    /\ 0 \in Versions
BY ConstantsAssumption DEF Empty, Whole, Contents, Versions

LEMMA TypeInit == Init => TypeInv
<1> SUFFICES ASSUME Init PROVE TypeInv
    OBVIOUS
<1>1. Opened \in Revs
    BY WholeTexts DEF Opened, Revs
<1>2. BufTypes
  <2>1. <<Opened>> \in Seq(Revs) /\ Len(<<Opened>>) = 1
      BY <1>1
  <2> QED
      BY <1>1, <2>1, ConstantsAssumption DEF Init, BufTypes
<1>3. TaskTypes /\ InfoTypes /\ CbTypes
  <2>1. 0 \in Inodes /\ <<>> \in Seq(Results)
      BY ConstantsAssumption, EmptySeq DEF Inodes
  <2>2. TaskTypes
      BY ConstantsAssumption DEF Init, TaskTypes
  <2>3. InfoTypes
      BY <2>1 DEF Init, InfoTypes
  <2>4. CbTypes
      BY <2>1 DEF Init, CbTypes
  <2> QED
      BY <2>2, <2>3, <2>4
<1>4. ThrTypes
    BY <1>1, ConstantsAssumption DEF Init, ThrTypes, Pcs, Inodes
<1>5. FsTypes
    BY WholeTexts, ConstantsAssumption DEF Init, FsTypes, Inodes
<1>6. Steps
    BY DEF Init, Steps, InStep, NotStarted
<1> QED
    BY <1>2, <1>3, <1>4, <1>5, <1>6 DEF TypeInv

\* The first n elements of a sequence and one more.
LEMMA Extended ==
    ASSUME NEW S, NEW s \in Seq(S), NEW n \in Nat, n <= Len(s), NEW r \in S
    PROVE  /\ Append(SubSeq(s, 1, n), r) \in Seq(S)
           /\ Len(Append(SubSeq(s, 1, n), r)) = n + 1
           /\ Append(SubSeq(s, 1, n), r)[n + 1] = r
           /\ \A i \in 1 .. n : Append(SubSeq(s, 1, n), r)[i] = s[i]
<1>1. SubSeq(s, 1, n) \in Seq(S) /\ Len(SubSeq(s, 1, n)) = n
    OBVIOUS
<1>2. \A i \in 1 .. n : SubSeq(s, 1, n)[i] = s[i]
    OBVIOUS
<1>3. PICK t \in Seq(S) : t = SubSeq(s, 1, n)
    BY <1>1
<1>4. /\ Append(t, r) \in Seq(S) /\ Len(Append(t, r)) = Len(t) + 1
      /\ Append(t, r)[Len(t) + 1] = r
      /\ \A i \in 1 .. Len(t) : Append(t, r)[i] = t[i]
    BY AppendProperties
<1> QED
    BY <1>1, <1>2, <1>3, <1>4

\* A new revision is the head, and the others were there before.
LEMMA NewRevs ==
    ASSUME BufTypes, NEW body \in Contents, NewRev(body)
    PROVE  /\ undos' \in Seq(Revs) /\ cur' \in 1 .. Len(undos')
           /\ revs' = revs + 1
           /\ undos'[cur'] = [rev |-> revs + 1, body |-> body]
           /\ \A i \in 1 .. Len(undos') :
                 \/ undos'[i] = [rev |-> revs + 1, body |-> body]
                 \/ \E j \in 1 .. Len(undos) : undos'[i] = undos[j]
<1> DEFINE r == [rev |-> revs + 1, body |-> body]
<1>1. r \in Revs
    BY DEF BufTypes, Revs
<1>2. \E n \in Nat : n <= Len(undos) /\ undos' = Append(SubSeq(undos, 1, n), r) /\ cur' = n + 1
  <2>1. CASE undos' = Append(SubSeq(undos, 1, cur), r) /\ cur' = cur + 1
      BY <2>1 DEF BufTypes
  <2>2. CASE cur > 1 /\ undos' = Append(SubSeq(undos, 1, cur - 1), r) /\ cur' = cur
      BY <2>2 DEF BufTypes
  <2> QED
      BY <2>1, <2>2 DEF NewRev
<1>3. PICK n \in Nat : n <= Len(undos) /\ undos' = Append(SubSeq(undos, 1, n), r) /\ cur' = n + 1
    BY <1>2
<1> HIDE DEF r
<1>4. undos \in Seq(Revs) /\ Len(undos) \in Nat
    BY LenProperties DEF BufTypes
<1>5. /\ undos' \in Seq(Revs) /\ Len(undos') = n + 1 /\ undos'[n + 1] = r
      /\ \A i \in 1 .. n : undos'[i] = undos[i]
    BY <1>1, <1>3, <1>4, Extended
<1>6. \A i \in 1 .. Len(undos') : undos'[i] = r \/ \E j \in 1 .. Len(undos) : undos'[i] = undos[j]
    BY <1>3, <1>4, <1>5
<1>7. revs' = revs + 1
    BY DEF NewRev
<1> QED
    BY <1>3, <1>5, <1>6, <1>7 DEF r

\* A step of a save thread keeps the types.
LEMMA ThreadTypes ==
    ASSUME TypeInv, NEW g \in Gens, ThreadStep(g)
    PROVE  TypeInv'
<1>1. UNCHANGED <<bufVars, gen, infoVars, cbVars>>
    BY DEF ThreadStep, ThreadStarts, CreateTmp, CheckCreated, CheckFinal, CheckOrRemove,
           CheckChunk, WriteChunk, Rename, Chmod, IoError, IoErrorFrame, CheckStale, Deposit,
           Exit, ThreadFrame
<1>2. BufTypes' /\ InfoTypes' /\ CbTypes'
    BY <1>1 DEF TypeInv, BufTypes, InfoTypes, CbTypes, bufVars, infoVars, cbVars
<1>3. /\ pc \in [Gens -> Pcs] /\ snap \in [Gens -> Revs] /\ fd \in [Gens -> Inodes]
      /\ off \in [Gens -> 1 .. NChunks + 1]
      /\ res \in [Gens -> {"none", "ok", "error", "cancelled"}]
      /\ NChunks \in Nat \ {0} /\ MaxSaves \in Nat
      /\ NotStarted /\ \A h \in Gens : InStep(h)
      /\ gen \in 0 .. MaxSaves /\ gen' = gen
    BY <1>1, ConstantsAssumption DEF TypeInv, ThrTypes, Steps, TaskTypes
<1>4. NotStarted'
  <2>1. PICK p \in Pcs \ {"off"} : pc' = [pc EXCEPT ![g] = p]
      BY ThreadMoves DEF TypeInv, ThrTypes, TaskTypes, OverlapTypes
  <2>2. pc[g] # "off"
      BY ThreadMoves DEF TypeInv, ThrTypes, TaskTypes, OverlapTypes, Writing
  <2> QED
      BY <1>3, <2>1, <2>2 DEF NotStarted
<1>5. ASSUME ThrTypes', TaskTypes', FsTypes', InStep(g)',
             \A h \in Gens \ {g} : pc'[h] = pc[h] /\ off'[h] = off[h] /\ res'[h] = res[h]
      PROVE  TypeInv'
    BY <1>2, <1>3, <1>4, <1>5 DEF TypeInv, Steps, InStep
<1>6. UNCHANGED <<slot, prog>> => TaskTypes'
    BY <1>3 DEF TypeInv, TaskTypes
<1>7. UNCHANGED fsVars => FsTypes'
    BY DEF TypeInv, FsTypes, fsVars
<1>8. CASE ThreadStarts(g) \/ CheckStale(g) \/ Exit(g)
  <2>1. UNCHANGED <<slot, prog, snap, fd, off, res>> /\ UNCHANGED fsVars
      BY <1>8 DEF ThreadStarts, CheckStale, Exit
  <2>2. ThrTypes' /\ \A h \in Gens \ {g} : pc'[h] = pc[h]
      BY <1>3, <1>8, <2>1 DEF ThreadStarts, CheckStale, Exit, At, ThrTypes, Pcs
  <2>3. InStep(g)'
      BY <1>3, <1>8, <2>1 DEF ThreadStarts, CheckStale, Exit, At, InStep
  <2> QED
      BY <1>5, <1>6, <1>7, <2>1, <2>2, <2>3
<1>9. CASE CheckChunk(g) \/ IoError(g)
  <2>1. UNCHANGED <<slot, prog, snap, fd, off>> /\ UNCHANGED fsVars
      BY <1>9 DEF CheckChunk, IoError, IoErrorFrame
  <2>2. ThrTypes' /\ \A h \in Gens \ {g} : pc'[h] = pc[h] /\ res'[h] = res[h]
      BY <1>3, <1>9, <2>1 DEF CheckChunk, IoError, Return, ThrTypes, Pcs
  <2>3. InStep(g)'
      BY <1>3, <1>9, <2>1 DEF CheckChunk, IoError, Return, InStep
  <2> QED
      BY <1>5, <1>6, <1>7, <2>1, <2>2, <2>3
<1>10. CASE CheckCreated(g) \/ CheckFinal(g)
  <2>1. UNCHANGED <<slot, prog, snap, fd, off, data, stamp, path, onDisk>>
      BY <1>10 DEF CheckCreated, CheckFinal, CheckOrRemove
  <2>2. ThrTypes' /\ \A h \in Gens \ {g} : pc'[h] = pc[h] /\ res'[h] = res[h]
      BY <1>3, <1>10, <2>1 DEF CheckCreated, CheckFinal, CheckOrRemove, Return, ThrTypes, Pcs
  <2>3. InStep(g)'
      BY <1>3, <1>10, <2>1 DEF CheckCreated, CheckFinal, CheckOrRemove, Return, InStep
  <2>4. FsTypes'
      BY <1>10, <2>1 DEF CheckCreated, CheckFinal, CheckOrRemove, TypeInv, FsTypes
  <2> QED
      BY <1>5, <1>6, <2>1, <2>2, <2>3, <2>4
<1>11. CASE Rename(g)
  <2>1. UNCHANGED <<slot, prog, snap, fd, off, data, stamp>>
      BY <1>11 DEF Rename
  <2>2. ThrTypes' /\ \A h \in Gens \ {g} : pc'[h] = pc[h] /\ res'[h] = res[h]
      BY <1>3, <1>11, <2>1 DEF Rename, Return, ThrTypes, Pcs
  <2>3. InStep(g)'
      BY <1>3, <1>11, <2>1 DEF Rename, Return, InStep
  <2>4. FsTypes'
      BY <1>11, <2>1 DEF Rename, TypeInv, FsTypes
  <2> QED
      BY <1>5, <1>6, <2>1, <2>2, <2>3, <2>4
<1>12. CASE Chmod(g)
  <2>1. UNCHANGED <<slot, prog, snap, fd, off, data, path, tmp, onDisk>>
      BY <1>12 DEF Chmod
  <2>2. ThrTypes' /\ \A h \in Gens \ {g} : pc'[h] = pc[h] /\ res'[h] = res[h]
      BY <1>3, <1>12, <2>1 DEF Chmod, Return, ThrTypes, Pcs
  <2>3. InStep(g)'
      BY <1>3, <1>12, <2>1 DEF Chmod, Return, InStep
  <2>4. FsTypes'
      BY <1>12, <2>1 DEF Chmod, TypeInv, FsTypes
  <2> QED
      BY <1>5, <1>6, <2>1, <2>2, <2>3, <2>4
<1>13. CASE CreateTmp(g)
  <2> DEFINE i == IF tmp = NoTmp THEN g ELSE tmp
  <2>1. /\ UNCHANGED <<slot, prog, snap, off, res, path, onDisk>>
        /\ pc[g] = "create" /\ pc' = [pc EXCEPT ![g] = "created"]
        /\ tmp' = i /\ fd' = [fd EXCEPT ![g] = i]
        /\ data' = [data EXCEPT ![i] = Empty] /\ stamp' = [stamp EXCEPT ![i] = @ + 1]
      BY <1>13 DEF CreateTmp, At
  <2>2. i \in Inodes
      BY <1>3 DEF TypeInv, FsTypes, Inodes, Gens
  <2> HIDE DEF i
  <2>3. ThrTypes' /\ \A h \in Gens \ {g} : pc'[h] = pc[h]
      BY <1>3, <2>1, <2>2 DEF ThrTypes, Pcs
  <2>4. InStep(g)'
      BY <1>3, <2>1 DEF InStep
  <2>5. FsTypes'
      BY <2>1, <2>2, WholeTexts DEF TypeInv, FsTypes
  <2> QED
      BY <1>5, <1>6, <2>1, <2>3, <2>4, <2>5
<1>14. CASE WriteChunk(g)
  <2> DEFINE i == fd[g]
             c == off[g]
             row == [data[i] EXCEPT ![c] = snap[g].body[c]]
  <2>1. /\ UNCHANGED <<slot, snap, fd, res, path, tmp>> /\ prog' = g
        /\ pc[g] = "write" /\ pc' = [pc EXCEPT ![g] = AfterChunk(g)]
        /\ stamp' = [stamp EXCEPT ![fd[g]] = @ + 1]
        /\ onDisk' = onDisk \cup {data'[path]}
        /\ off' = [off EXCEPT ![g] = @ + 1]
        /\ data' = [data EXCEPT ![i][c] = snap[g].body[c]]
      BY <1>14 DEF WriteChunk, At
  <2>2. c \in 1 .. NChunks /\ i \in Inodes
      BY <1>3, <2>1 DEF InStep
  <2>3. data[i] \in Contents /\ snap[g].body \in Contents
      BY <1>3, <2>2 DEF TypeInv, FsTypes, Revs
  <2>4. row \in Contents
      BY <2>2, <2>3 DEF Contents
  <2>5. data' = [data EXCEPT ![i] = row]
      BY <2>1 DEF TypeInv, FsTypes
  <2> HIDE DEF i, c, row
  <2>6. data' \in [Inodes -> Contents] /\ data'[path] \in Contents
      BY <2>2, <2>4, <2>5 DEF TypeInv, FsTypes
  <2>7. ThrTypes' /\ \A h \in Gens \ {g} : pc'[h] = pc[h] /\ off'[h] = off[h]
      BY <1>3, <2>1, <2>2 DEF ThrTypes, AfterChunk, Pcs, c
  <2>8. InStep(g)'
      BY <1>3, <2>1, <2>2 DEF InStep, AfterChunk, c
  <2>9. FsTypes'
    <3>1. onDisk' \subseteq Contents /\ path' \in Inodes /\ tmp' \in Inodes \cup {NoTmp}
        BY <2>1, <2>6 DEF TypeInv, FsTypes
    <3>2. stamp' \in [Inodes -> Nat]
        BY <1>3, <2>1 DEF TypeInv, FsTypes
    <3> QED
        BY <2>6, <3>1, <3>2 DEF FsTypes
  <2>10. TaskTypes'
      BY <1>3, <2>1 DEF TypeInv, TaskTypes, Gens
  <2> QED
      BY <1>5, <2>1, <2>7, <2>8, <2>9, <2>10
<1>15. CASE Deposit(g)
  <2>1. /\ UNCHANGED <<prog, snap, fd, off, res>> /\ UNCHANGED fsVars
        /\ slot' = [gen |-> g, res |-> res[g]]
        /\ pc[g] = "deposit" /\ pc' = [pc EXCEPT ![g] = "exit"]
      BY <1>15 DEF Deposit, At
  <2>2. ThrTypes' /\ \A h \in Gens \ {g} : pc'[h] = pc[h]
      BY <1>3, <2>1 DEF ThrTypes, Pcs
  <2>3. InStep(g)'
      BY <1>3, <2>1 DEF InStep
  <2>4. slot' \in Results
      BY <1>3, <2>1 DEF InStep, Results
  <2>5. TaskTypes'
      BY <1>3, <2>1, <2>4 DEF TypeInv, TaskTypes
  <2> QED
      BY <1>5, <1>7, <2>1, <2>2, <2>3, <2>5
<1> QED
    BY <1>8, <1>9, <1>10, <1>11, <1>12, <1>13, <1>14, <1>15 DEF ThreadStep

\* What a step that leaves a part alone keeps of it.
LEMMA PartsKept ==
    /\ BufTypes /\ UNCHANGED bufVars => BufTypes'
    /\ TaskTypes /\ UNCHANGED taskVars => TaskTypes'
    /\ ThrTypes /\ UNCHANGED thrVars => ThrTypes'
    /\ FsTypes /\ UNCHANGED fsVars => FsTypes'
    /\ InfoTypes /\ UNCHANGED infoVars => InfoTypes'
    /\ CbTypes /\ UNCHANGED cbVars => CbTypes'
    /\ Steps /\ UNCHANGED <<gen, thrVars>> => Steps'
BY DEF BufTypes, TaskTypes, ThrTypes, FsTypes, InfoTypes, CbTypes, Steps, InStep, NotStarted,
       bufVars, taskVars, thrVars, fsVars, infoVars, cbVars

\* The main thread and the other programs keep the types.
LEMMA MainTypes ==
    ASSUME TypeInv,
           \/ Edit \/ PluginEdit \/ Undo \/ DoSave \/ CallbackStep \/ SaveStatus
           \/ FsEventStashes \/ FsEventReloads \/ ForeignWrite
    PROVE  TypeInv'
<1> USE DEF TypeInv
<1>1. ASSUME Edit \/ PluginEdit PROVE TypeInv'
  <2>1. /\ NewRev(Whole(revs + 1)) /\ revs < MaxEdits /\ UNCHANGED <<pristine, foreign>>
        /\ UNCHANGED taskVars /\ UNCHANGED thrVars /\ UNCHANGED fsVars
        /\ UNCHANGED infoVars /\ UNCHANGED cbVars
      BY <1>1 DEF Edit, PluginEdit, EditFrame
  <2>2. Whole(revs + 1) \in Contents
    <3>1. revs + 1 \in Versions
        BY <2>1, ConstantsAssumption DEF BufTypes, Versions
    <3> QED
        BY <3>1, WholeTexts
  <2>3. undos' \in Seq(Revs) /\ cur' \in 1 .. Len(undos') /\ revs' = revs + 1
      BY <2>1, <2>2, NewRevs
  <2>4. BufTypes'
      BY <2>1, <2>3 DEF BufTypes
  <2> QED
      BY <2>1, <2>4, PartsKept DEF taskVars
<1>2. ASSUME Undo PROVE TypeInv'
  <2>1. /\ cur' \in DOMAIN undos /\ UNCHANGED <<undos, revs, pristine, foreign>>
        /\ UNCHANGED taskVars /\ UNCHANGED thrVars /\ UNCHANGED fsVars
        /\ UNCHANGED infoVars /\ UNCHANGED cbVars
      BY <1>2 DEF Undo, EditFrame
  <2>2. DOMAIN undos = 1 .. Len(undos)
      BY LenProperties DEF BufTypes
  <2>3. BufTypes'
      BY <2>1, <2>2 DEF BufTypes
  <2> QED
      BY <2>1, <2>3, PartsKept DEF taskVars
<1>3. ASSUME DoSave PROVE TypeInv'
  <2>1. /\ gen' = gen + 1 /\ gen < MaxSaves /\ slot' = NoResult /\ prog' = 0
        /\ snap' = [snap EXCEPT ![gen + 1] = HeadRev]
        /\ pc' = [pc EXCEPT ![gen + 1] = "start"]
        /\ idle' = TRUE
        /\ UNCHANGED bufVars /\ UNCHANGED fsVars /\ UNCHANGED infoVars
        /\ UNCHANGED <<fd, off, res, cb, got, reports>>
      BY <1>3 DEF DoSave, StartSave
  <2>2. gen + 1 \in Gens /\ gen \in Nat /\ MaxSaves \in Nat
      BY <2>1, ConstantsAssumption DEF TaskTypes, Gens
  <2>3. HeadRev \in Revs
      BY ElementOfSeq DEF BufTypes, HeadRev
  <2>4. TaskTypes'
      BY <2>1, <2>2 DEF TaskTypes
  <2>5. ThrTypes'
      BY <2>1, <2>2, <2>3 DEF ThrTypes, Pcs
  <2>6. CbTypes'
    <3>1. idle' \in BOOLEAN
        BY <2>1
    <3> QED
        BY <2>1, <3>1, Zenon DEF CbTypes
  <2>7. pc[gen + 1] = "off"
      BY <2>2 DEF Steps, NotStarted
  <2>8. NotStarted'
      BY <2>1, <2>2 DEF Steps, NotStarted, ThrTypes, Gens
  <2>9. \A h \in Gens : InStep(h)'
      BY <2>1, <2>2, <2>7 DEF Steps, InStep, ThrTypes
  <2> QED
      BY <2>1, <2>4, <2>5, <2>6, <2>8, <2>9, PartsKept DEF Steps
<1>4. ASSUME Poll, idle' \in BOOLEAN PROVE TypeInv'
  <2>1. /\ cb' = "progress" /\ got' \in {slot, NoResult} /\ slot' \in {slot, NoResult}
        /\ UNCHANGED <<gen, prog, reports>> /\ UNCHANGED bufVars /\ UNCHANGED thrVars
        /\ UNCHANGED fsVars /\ UNCHANGED infoVars
      BY <1>4 DEF Poll
  <2>2. TaskTypes'
      BY <2>1 DEF TaskTypes
  <2>3. got' \in Results \cup {NoResult} /\ cb' \in {"off", "progress", "decide"}
        /\ reports' \in Seq(Results)
      BY <2>1 DEF TaskTypes, CbTypes
  <2>4. CbTypes'
      BY <1>4, <2>3, Zenon DEF CbTypes
  <2> QED
      BY <2>1, <2>2, <2>4, PartsKept
<1>5. ASSUME Callback PROVE TypeInv'
    BY <1>4, <1>5 DEF Callback
<1>6. ASSUME SaveStatus PROVE TypeInv'
    BY <1>4, <1>6 DEF SaveStatus, CbTypes
<1>7. ASSUME PollProgress PROVE TypeInv'
  <2>1. /\ cb' = "decide" /\ prog' \in {0, prog}
        /\ UNCHANGED <<gen, slot, idle, got, reports>> /\ UNCHANGED bufVars
        /\ UNCHANGED thrVars /\ UNCHANGED fsVars /\ UNCHANGED infoVars
      BY <1>7 DEF PollProgress, ProgressFrame
  <2>2. TaskTypes'
      BY <2>1, ConstantsAssumption DEF TaskTypes
  <2>3. CbTypes'
      BY <2>1 DEF CbTypes
  <2> QED
      BY <2>1, <2>2, <2>3, PartsKept
<1>8. ASSUME FinishAsyncSave PROVE TypeInv'
  <2>1. /\ got # NoResult /\ reports' = Append(reports, got)
        /\ cb' = "off" /\ got' = NoResult /\ pristine' \in {HeadRev, pristine}
        /\ UNCHANGED <<undos, cur, revs, foreign, idle>> /\ UNCHANGED taskVars
        /\ UNCHANGED thrVars /\ UNCHANGED fsVars
        /\ cookie' \in {CurrentCookie, cookie} /\ hasChanged' \in {FALSE, hasChanged}
      BY <1>8 DEF FinishAsyncSave, Finish, FinishRopeSave, infoVars
  <2>2. HeadRev \in Revs
      BY ElementOfSeq DEF BufTypes, HeadRev
  <2>3. BufTypes'
      BY <2>1, <2>2 DEF BufTypes
  <2>4. CurrentCookie \in Inodes \X Nat
      BY DEF CurrentCookie, FsTypes
  <2>5. InfoTypes'
    <3>1. cookie' \in Inodes \X Nat
        BY <2>1, <2>4 DEF InfoTypes
    <3>2. hasChanged' \in BOOLEAN
        BY <2>1, Zenon DEF InfoTypes
    <3> QED
        BY <3>1, <3>2 DEF InfoTypes
  <2>6. reports' \in Seq(Results)
      BY <2>1, AppendProperties DEF CbTypes
  <2>7. CbTypes'
      BY <2>1, <2>6 DEF CbTypes
  <2> QED
      BY <2>1, <2>3, <2>5, <2>7, PartsKept DEF taskVars
<1>9. ASSUME Reschedule PROVE TypeInv'
  <2>1. /\ cb' = "off" /\ idle' = (idle \/ InProgress) /\ UNCHANGED <<got, reports>>
        /\ UNCHANGED bufVars /\ UNCHANGED taskVars /\ UNCHANGED thrVars /\ UNCHANGED fsVars
        /\ UNCHANGED infoVars
      BY <1>9 DEF Reschedule
  <2>2. idle' \in BOOLEAN
      BY <2>1, Zenon
  <2>3. CbTypes'
      BY <2>1, <2>2 DEF CbTypes
  <2> QED
      BY <2>1, <2>3, PartsKept DEF taskVars
<1>10. ASSUME FsEventStashes PROVE TypeInv'
  <2>1. /\ hasChanged' = TRUE /\ UNCHANGED cookie
        /\ UNCHANGED bufVars /\ UNCHANGED taskVars /\ UNCHANGED thrVars /\ UNCHANGED fsVars
        /\ UNCHANGED cbVars
      BY <1>10 DEF FsEventStashes
  <2>2. InfoTypes'
      BY <2>1 DEF InfoTypes
  <2> QED
      BY <2>1, <2>2, PartsKept DEF taskVars
<1>11. ASSUME FsEventReloads PROVE TypeInv'
  <2>1. /\ NewRev(data[path]) /\ pristine' = undos'[cur'] /\ UNCHANGED foreign
        /\ cookie' = CurrentCookie /\ hasChanged' = FALSE
        /\ UNCHANGED taskVars /\ UNCHANGED thrVars /\ UNCHANGED fsVars /\ UNCHANGED cbVars
      BY <1>11 DEF FsEventReloads, OpenFile, Reload
  <2>2. data[path] \in Contents /\ CurrentCookie \in Inodes \X Nat
      BY DEF FsTypes, CurrentCookie
  <2>3. undos' \in Seq(Revs) /\ cur' \in 1 .. Len(undos') /\ revs' = revs + 1
      BY <2>1, <2>2, NewRevs
  <2>4. pristine' \in Revs
      BY <2>1, <2>3, ElementOfSeq
  <2>5. BufTypes'
      BY <2>1, <2>3, <2>4 DEF BufTypes
  <2>6. InfoTypes'
      BY <2>1, <2>2 DEF InfoTypes
  <2> QED
      BY <2>1, <2>5, <2>6, PartsKept DEF taskVars
<1>12. ASSUME ForeignWrite PROVE TypeInv'
  <2> DEFINE v == MaxEdits + foreign + 1
  <2>1. /\ foreign < MaxForeign /\ foreign' = foreign + 1
        /\ data' = [data EXCEPT ![path] = Whole(v)]
        /\ stamp' = [stamp EXCEPT ![path] = @ + 1]
        /\ onDisk' = onDisk \cup {data'[path]}
        /\ UNCHANGED <<undos, cur, pristine, revs, path, tmp>>
        /\ UNCHANGED taskVars /\ UNCHANGED thrVars /\ UNCHANGED infoVars /\ UNCHANGED cbVars
      BY <1>12 DEF ForeignWrite
  <2>2. v \in Versions
      BY <2>1, ConstantsAssumption DEF Versions, BufTypes
  <2>3. Whole(v) \in Contents
      BY <2>2, WholeTexts
  <2> HIDE DEF v
  <2>4. data' \in [Inodes -> Contents] /\ data'[path] \in Contents
      BY <2>1, <2>3 DEF FsTypes
  <2>5. FsTypes'
    <3>1. stamp' \in [Inodes -> Nat]
        BY <2>1 DEF FsTypes
    <3>2. onDisk' \subseteq Contents
        BY <2>1, <2>4 DEF FsTypes
    <3> QED
        BY <2>1, <2>4, <3>1, <3>2 DEF FsTypes
  <2>6. BufTypes'
      BY <2>1, ConstantsAssumption DEF BufTypes
  <2> QED
      BY <2>1, <2>5, <2>6, PartsKept DEF taskVars
<1> QED
    BY <1>1, <1>2, <1>3, <1>5, <1>6, <1>7, <1>8, <1>9, <1>10, <1>11, <1>12 DEF CallbackStep

LEMMA TypeNext == TypeInv /\ [Next]_vars => TypeInv'
<1>1. TypeInv /\ UNCHANGED vars => TypeInv'
    BY PartsKept DEF TypeInv, vars, taskVars
<1> QED
    BY <1>1, ThreadTypes, MainTypes DEF Next

LEMMA TypesAlways == Spec => []TypeInv
BY TypeInit, TypeNext, PTL DEF Spec

\* Every variable keeps its type, however the core is driven: a save thread never
\* writes past the last chunk of its text, and what it deposits is a result.
THEOREM TypeCorrect == Spec => []TypeOK
<1>1. TypeInv => TypeOK
    BY TypesInParts DEF TypeInv
<1> QED
    BY TypesAlways, <1>1, PTL
-----------------------------------------------------------------------------
(* The file and its texts *)

Texts == {Whole(v) : v \in Versions}

\* The revisions somebody still holds.
Known == {undos[i] : i \in 1 .. Len(undos)} \cup {snap[g] : g \in Gens} \cup {pristine}

\* Every revision is a whole text, and its number identifies it.
Revisions ==
    /\ \A r \in Known : r.rev <= revs /\ r.body \in Texts
    /\ \A r, s \in Known : r.rev = s.rev => r.body = s.body

\* The file is a whole text, which it is recorded to have held; the temporary
\* file is another inode, and a thread that has yet to create it will not get
\* that of the file.
FileInv ==
    /\ data[path] \in Texts /\ data[path] \in onDisk
    /\ tmp # path
    /\ \A g \in Gens : pc[g] \in {"off", "start", "create"} => path < g /\ tmp < g

\* The temporary file of a thread that writes holds what it has written.
Active(g) == pc[g] \in {"created", "chunk", "write", "final", "rename"}
TmpInv ==
    \A g \in Gens : Active(g) =>
        /\ tmp = fd[g]
        /\ \A c \in 1 .. NChunks : c < off[g] => data[fd[g]][c] = snap[g].body[c]

\* A thread says ok when its text has been the file's.
ResultInv ==
    /\ \A g \in Gens : g <= gen => pc[g] # "off"
    /\ \A g \in Gens : g > gen => res[g] = "none"
    /\ \A g \in Gens : pc[g] = "chmod" \/ res[g] = "ok" => snap[g].body \in onDisk

DiskInv == Revisions /\ FileInv /\ TmpInv /\ ResultInv

\* Texts with the same chunks are the same.
LEMMA SameText ==
    ASSUME NEW s \in Contents, NEW t \in Contents, \A c \in 1 .. NChunks : s[c] = t[c]
    PROVE  s = t
<1>1. s = [c \in 1 .. NChunks |-> s[c]] /\ t = [c \in 1 .. NChunks |-> t[c]]
    BY DEF Contents
<1>2. [c \in 1 .. NChunks |-> s[c]] = [c \in 1 .. NChunks |-> t[c]]
    BY Zenon
<1> QED
    BY <1>1, <1>2

LEMMA DiskInit == Init => DiskInv /\ PristineSaved
<1> SUFFICES ASSUME Init PROVE DiskInv /\ PristineSaved
    OBVIOUS
<1>1. Opened.rev = 0 /\ Opened.body = Whole(0) /\ Whole(0) \in Texts
    BY WholeTexts DEF Opened, Texts
<1>2. Known = {Opened}
  <2>1. undos = <<Opened>> /\ Len(undos) = 1 /\ undos[1] = Opened
      BY DEF Init
  <2>2. \A g \in Gens : snap[g] = Opened
      BY DEF Init
  <2>3. pristine = Opened
      BY DEF Init
  <2> QED
      BY <2>1, <2>2, <2>3 DEF Known
<1>3. Revisions
    BY <1>1, <1>2 DEF Init, Revisions
<1>4. data[path] = Whole(0) /\ tmp = -1 /\ path = 0
    BY ConstantsAssumption DEF Init, Inodes, NoTmp
<1>5. FileInv
    BY <1>1, <1>4 DEF Init, FileInv, Gens
<1>6. TmpInv /\ ResultInv
    BY ConstantsAssumption DEF Init, TmpInv, Active, ResultInv, Gens
<1>7. PristineSaved
    BY <1>1 DEF Init, PristineSaved
<1> QED
    BY <1>3, <1>5, <1>6, <1>7 DEF DiskInv

\* While saves do not overlap, a thread that moves is the only one that writes.
LEMMA OnlyWriter ==
    ASSUME TypeInv, OverlapInv, ResultInv, NEW g \in Gens, Writing(g)
    PROVE  /\ g = gen
           /\ \A h \in Gens \ {g} :
                 /\ ~Active(h) /\ pc[h] \notin {"start", "create", "chmod"}
                 /\ pc[h] = "off" => h > gen
<1>1. g = gen /\ \A h \in Gens \ {g} : ~Writing(h)
    BY DEF OverlapInv, TokenHeld
<1>2. \A h \in Gens \ {g} : pc[h] = "off" => h > gen
    BY DEF ResultInv, TypeInv, TaskTypes, Gens
<1> QED
    BY <1>1, <1>2 DEF Active, Writing

\* What a thread leaves alone, and what it may only add to.
LEMMA ThreadKeeps ==
    ASSUME TypeInv, NEW g \in Gens, ThreadStep(g)
    PROVE  /\ UNCHANGED bufVars /\ UNCHANGED gen /\ UNCHANGED snap /\ UNCHANGED cbVars
           /\ onDisk \subseteq onDisk'
           /\ \A h \in Gens \ {g} : pc'[h] = pc[h] /\ res'[h] = res[h] /\ off'[h] = off[h]
           /\ pc'[g] # "off" /\ pc[g] # "off"
           /\ pc[g] \notin {"exit", "done"} \/ res'[g] = res[g]
           /\ res'[g] = "ok" => res[g] = "ok" \/ pc[g] = "chmod"
           /\ pc'[g] = "chmod" => pc[g] = "rename"
           /\ slot' # slot => pc[g] = "deposit" /\ slot' = [gen |-> g, res |-> res'[g]]
           /\ prog' # prog => pc[g] = "write" /\ prog' = g
<1> USE DEF TypeInv, ThrTypes, ThreadFrame, At, Return, bufVars, cbVars, fsVars
<1>1. CASE ThreadStarts(g)  BY <1>1 DEF ThreadStarts
<1>2. CASE CreateTmp(g)     BY <1>2 DEF CreateTmp
<1>3. CASE CheckCreated(g)  BY <1>3 DEF CheckCreated, CheckOrRemove
<1>4. CASE CheckChunk(g)    BY <1>4 DEF CheckChunk
<1>5. CASE WriteChunk(g)    BY <1>5 DEF WriteChunk, AfterChunk
<1>6. CASE CheckFinal(g)    BY <1>6 DEF CheckFinal, CheckOrRemove
<1>7. CASE Rename(g)        BY <1>7 DEF Rename
<1>8. CASE Chmod(g)         BY <1>8 DEF Chmod
<1>9. CASE IoError(g)       BY <1>9 DEF IoError, IoErrorFrame
<1>10. CASE CheckStale(g)   BY <1>10 DEF CheckStale
<1>11. CASE Deposit(g)      BY <1>11 DEF Deposit
<1>12. CASE Exit(g)         BY <1>12 DEF Exit
<1> QED
    BY <1>1, <1>2, <1>3, <1>4, <1>5, <1>6, <1>7, <1>8, <1>9, <1>10, <1>11, <1>12
       DEF ThreadStep

\* A step of a thread on the files.
LEMMA ThreadFiles ==
    ASSUME TypeInv, OverlapInv, DiskInv, NEW g \in Gens, ThreadStep(g)
    PROVE  FileInv' /\ TmpInv' /\ (pc'[g] = "chmod" => snap[g].body \in onDisk')
<1> USE DEF DiskInv
<1>1. /\ UNCHANGED gen /\ UNCHANGED snap
      /\ \A h \in Gens \ {g} : pc'[h] = pc[h] /\ off'[h] = off[h]
      /\ pc'[g] # "off" /\ pc[g] # "off"
    BY ThreadKeeps
<1>2. /\ pc \in [Gens -> Pcs] /\ snap \in [Gens -> Revs] /\ fd \in [Gens -> Inodes]
      /\ off \in [Gens -> 1 .. NChunks + 1] /\ data \in [Inodes -> Contents]
      /\ path \in Inodes /\ tmp \in Inodes \cup {NoTmp}
      /\ Inodes \subseteq Nat /\ NoTmp = -1 /\ Gens \subseteq Inodes
      /\ gen \in Nat /\ NChunks \in Nat \ {0}
      /\ \A h \in Gens : InStep(h)
    BY ConstantsAssumption DEF TypeInv, ThrTypes, FsTypes, TaskTypes, Steps, Inodes, Gens, NoTmp
<1>3. CASE pc[g] \in {"exit", "done"}
  <2>1. UNCHANGED fsVars /\ UNCHANGED <<fd, off>> /\ pc' = [pc EXCEPT ![g] = "done"]
      BY <1>3 DEF ThreadStep, ThreadStarts, CreateTmp, CheckCreated, CheckFinal, CheckOrRemove,
             CheckChunk, WriteChunk, Rename, Chmod, IoError, CheckStale, Deposit, Exit, At
  <2> QED
      BY <1>1, <1>2, <2>1 DEF FileInv, TmpInv, Active, fsVars
<1>4. CASE Writing(g)
  <2>1. /\ g = gen
        /\ \A h \in Gens \ {g} :
              /\ ~Active(h) /\ pc[h] \notin {"start", "create", "chmod"}
              /\ pc[h] = "off" => h > gen
      BY <1>4, OnlyWriter
  <2>2. ASSUME path' \in {path, tmp}, tmp' \in {g, tmp, NoTmp}, tmp' # path',
               data'[path'] \in Texts, data'[path'] \in onDisk',
               pc'[g] \in {"start", "create"} => path' < g /\ tmp' < g
        PROVE  FileInv'
    <3>1. \A h \in Gens \ {g} : pc'[h] \in {"off", "start", "create"} =>
             h > g /\ path < h /\ tmp < h
        BY <1>1, <2>1 DEF FileInv
    <3>2. \A h \in Gens \ {g} : pc'[h] \in {"off", "start", "create"} => path' < h /\ tmp' < h
        BY <1>2, <2>2, <3>1
    <3> QED
        BY <1>1, <2>2, <3>2 DEF FileInv
  <2>3. ASSUME Active(g)' => /\ tmp' = fd'[g]
                             /\ \A c \in 1 .. NChunks :
                                   c < off'[g] => data'[fd'[g]][c] = snap'[g].body[c]
        PROVE  TmpInv'
      BY <1>1, <2>1, <2>3 DEF TmpInv, Active
  <2>4. CASE UNCHANGED <<data, path, tmp, onDisk, fd, off>> /\ pc'[g] # "chmod"
             /\ (pc'[g] = "create" => pc[g] = "start") /\ pc'[g] # "start"
             /\ (Active(g)' => Active(g))
    <3>1. pc'[g] \in {"start", "create"} => path < g /\ tmp < g
        BY <2>4 DEF FileInv
    <3>2. FileInv'
        BY <2>2, <2>4, <3>1 DEF FileInv
    <3>3. TmpInv'
        BY <1>1, <2>3, <2>4 DEF TmpInv
    <3> QED
        BY <2>4, <3>2, <3>3
  <2>5. CASE ThreadStarts(g) \/ CheckChunk(g) \/ IoError(g) \/ CheckStale(g) \/ Deposit(g)
             \/ Exit(g) \/ CheckCreated(g) \/ CheckFinal(g)
    <3>1. UNCHANGED <<data, path, onDisk, fd, off>>
        BY <2>5 DEF ThreadStarts, CheckChunk, IoError, IoErrorFrame, CheckStale, Deposit, Exit,
                    CheckCreated, CheckFinal, CheckOrRemove, fsVars
    <3>2. UNCHANGED tmp
        BY <2>1, <2>5 DEF ThreadStarts, CheckChunk, IoError, IoErrorFrame, CheckStale, Deposit, Exit,
                    CheckCreated, CheckFinal, CheckOrRemove, fsVars, ShouldContinue
    <3>3. pc'[g] # "chmod" /\ (pc'[g] = "create" => pc[g] = "start") /\ pc'[g] # "start"
          /\ (Active(g)' => Active(g))
        BY <1>2, <2>5 DEF ThreadStarts, CheckChunk, IoError, CheckStale, Deposit, Exit,
                    CheckCreated, CheckFinal, CheckOrRemove, At, Return, Active
    <3> QED
        BY <2>4, <3>1, <3>2, <3>3
  <2>6. CASE CreateTmp(g)
    <3> DEFINE i == IF tmp = NoTmp THEN g ELSE tmp
    <3>1. /\ UNCHANGED <<off, path, onDisk>>
          /\ pc[g] = "create" /\ pc'[g] = "created"
          /\ tmp' = i /\ fd'[g] = i /\ data' = [data EXCEPT ![i] = Empty]
        BY <1>2, <2>6 DEF CreateTmp, At
    <3>2. i # path /\ i \in {g, tmp}
        BY <1>2, <3>1 DEF FileInv
    <3> HIDE DEF i
    <3>3. data'[path'] = data[path]
        BY <1>2, <3>1, <3>2
    <3>4. FileInv'
        BY <2>2, <3>1, <3>2, <3>3 DEF FileInv
    <3>5. off'[g] = 1
        BY <1>2, <3>1 DEF InStep
    <3>6. TmpInv'
        BY <2>3, <3>1, <3>5
    <3> QED
        BY <3>1, <3>4, <3>6
  <2>7. CASE WriteChunk(g)
    <3> DEFINE c0 == off[g]
               row == [data[tmp] EXCEPT ![c0] = snap[g].body[c0]]
    <3>1. /\ UNCHANGED <<fd, path, tmp>> /\ onDisk' = onDisk \cup {data'[path]}
          /\ pc[g] = "write" /\ pc'[g] \in {"chunk", "final"} /\ off'[g] = c0 + 1
          /\ data' = [data EXCEPT ![fd[g]][off[g]] = snap[g].body[off[g]]]
        BY <1>2, <2>7 DEF WriteChunk, At, AfterChunk
    <3>2. tmp = fd[g] /\ \A c \in 1 .. NChunks : c < c0 => data[fd[g]][c] = snap[g].body[c]
        BY <3>1 DEF TmpInv, Active
    <3>3. data' = [data EXCEPT ![tmp] = row]
        BY <1>2, <3>1, <3>2
    <3>4. tmp \in Inodes /\ data[tmp] \in [1 .. NChunks -> Versions \cup {Missing}]
          /\ c0 \in 1 .. NChunks
        BY <1>2, <3>1, <3>2 DEF Contents, InStep
    <3>5. \A c \in 1 .. NChunks : c < c0 + 1 => row[c] = snap[g].body[c]
      <4>1. row[c0] = snap[g].body[c0]
          BY <3>4
      <4>2. \A c \in 1 .. NChunks : c # c0 => row[c] = data[tmp][c]
          BY <3>4
      <4> QED
          BY <1>2, <3>2, <3>4, <4>1, <4>2
    <3> HIDE DEF row, c0
    <3>6. data'[tmp] = row /\ data'[path] = data[path]
        BY <1>2, <3>3, <3>4 DEF FileInv
    <3>7. FileInv'
        BY <2>2, <3>1, <3>6 DEF FileInv
    <3>8. TmpInv'
        BY <1>1, <2>3, <3>1, <3>2, <3>5, <3>6
    <3> QED
        BY <3>1, <3>7, <3>8
  <2>8. CASE Rename(g)
    <3>1. pc[g] = "rename"
        BY <2>8 DEF Rename
    <3>2. tmp = fd[g] /\ tmp \in Inodes /\ tmp # NoTmp
        BY <1>2, <3>1 DEF TmpInv, Active
    <3>3. /\ pc'[g] = "chmod" /\ path' = tmp /\ tmp' = NoTmp /\ UNCHANGED data
          /\ onDisk' = onDisk \cup {data[tmp]}
        BY <1>2, <2>8, <3>2 DEF Rename
    <3>4. data[tmp] = snap[g].body
      <4>1. \A c \in 1 .. NChunks : data[tmp][c] = snap[g].body[c]
          BY <1>2, <3>1, <3>2 DEF TmpInv, Active, InStep
      <4>2. data[tmp] \in Contents /\ snap[g].body \in Contents
          BY <1>2, <3>2 DEF Revs
      <4> QED
          BY <4>1, <4>2, SameText
    <3>5. snap[g].body \in Texts
        BY DEF Revisions, Known
    <3>6. FileInv'
        BY <1>2, <2>2, <3>2, <3>3, <3>4, <3>5
    <3>7. TmpInv'
        BY <2>3, <3>3 DEF Active
    <3> QED
        BY <3>3, <3>4, <3>6, <3>7
  <2>9. CASE Chmod(g)
    <3>1. UNCHANGED <<data, path, tmp, onDisk, fd, off>> /\ pc'[g] = "stale"
        BY <1>2, <2>9 DEF Chmod, Return
    <3> QED
        BY <2>4, <3>1 DEF Active
  <2> QED
      BY <2>5, <2>6, <2>7, <2>8, <2>9 DEF ThreadStep
<1> QED
    BY <1>1, <1>2, <1>3, <1>4 DEF Writing

LEMMA ThreadDisk ==
    ASSUME TypeInv, OverlapInv, DiskInv, PristineSaved, NEW g \in Gens, ThreadStep(g)
    PROVE  DiskInv' /\ PristineSaved'
<1>1. /\ UNCHANGED <<undos, pristine, revs>> /\ UNCHANGED gen /\ UNCHANGED snap
      /\ onDisk \subseteq onDisk'
      /\ \A h \in Gens \ {g} : pc'[h] = pc[h] /\ res'[h] = res[h]
      /\ pc'[g] # "off" /\ pc[g] # "off"
      /\ res'[g] = "ok" => res[g] = "ok" \/ pc[g] = "chmod"
    BY ThreadKeeps DEF bufVars
<1>2. FileInv' /\ TmpInv' /\ (pc'[g] = "chmod" => snap[g].body \in onDisk')
    BY ThreadFiles
<1>3. Known' = Known
    BY <1>1 DEF Known
<1>4. Revisions'
    BY <1>1, <1>3 DEF DiskInv, Revisions
<1>5. PristineSaved'
    BY <1>1 DEF PristineSaved
<1>6. ResultInv'
  <2>1. ASSUME NEW h \in Gens, pc'[h] = "chmod" \/ res'[h] = "ok"
        PROVE  snap'[h].body \in onDisk'
      BY <1>1, <1>2, <2>1 DEF DiskInv, ResultInv
  <2>2. ~(g > gen)
      BY <1>1 DEF TypeInv, Steps, NotStarted
  <2>3. /\ \A h \in Gens : h <= gen' => pc'[h] # "off"
        /\ \A h \in Gens : h > gen' => res'[h] = "none"
      BY <1>1, <2>2 DEF DiskInv, ResultInv
  <2> QED
      BY <2>1, <2>3 DEF ResultInv
<1> QED
    BY <1>2, <1>4, <1>5, <1>6 DEF DiskInv

\* The part of the invariant that only looks at the threads and the files.
LEMMA FilesKept ==
    ASSUME DiskInv, UNCHANGED gen, UNCHANGED thrVars, UNCHANGED fsVars
    PROVE  FileInv' /\ TmpInv' /\ ResultInv'
<1>1. UNCHANGED <<data, path, tmp, onDisk, pc, snap, fd, off, res>>
    BY DEF fsVars, thrVars
<1>2. FileInv'
    BY <1>1 DEF DiskInv, FileInv
<1>3. TmpInv'
    BY <1>1 DEF DiskInv, TmpInv, Active
<1>4. ResultInv'
    BY <1>1 DEF DiskInv, ResultInv
<1> QED
    BY <1>2, <1>3, <1>4

\* A revision with a new number, of a whole text, may join.
LEMMA RevisionJoins ==
    ASSUME TypeInv, DiskInv, NEW body \in Texts, revs' = revs + 1,
           Known' \subseteq Known \cup {[rev |-> revs + 1, body |-> body]}
    PROVE  Revisions'
<1> DEFINE n == [rev |-> revs + 1, body |-> body]
<1>1. n.rev = revs + 1 /\ n.body = body /\ revs \in Nat
    BY DEF TypeInv, BufTypes
<1> HIDE DEF n
<1>2. \A r \in Known : r.rev <= revs /\ r.body \in Texts /\ r.rev \in Nat
  <2>1. \A r \in Known : r \in Revs
      BY ElementOfSeq DEF TypeInv, BufTypes, ThrTypes, Known
  <2> QED
      BY <2>1 DEF DiskInv, Revisions, Revs
<1>3. \A r \in Known' : r \in Known \/ r = n
    BY DEF n
<1>4. \A r \in Known' : r.rev <= revs' /\ r.body \in Texts
    BY <1>1, <1>2, <1>3
<1>5. \A r, s \in Known' : r.rev = s.rev => r.body = s.body
  <2> SUFFICES ASSUME NEW r \in Known', NEW s \in Known', r.rev = s.rev PROVE r.body = s.body
      OBVIOUS
  <2>1. CASE r \in Known /\ s \in Known
      BY <2>1 DEF DiskInv, Revisions
  <2>2. CASE r = n /\ s = n
      BY <2>2
  <2>3. CASE r = n /\ s \in Known
      BY <1>1, <1>2, <2>3
  <2>4. CASE r \in Known /\ s = n
      BY <1>1, <1>2, <2>4
  <2> QED
      BY <1>3, <2>1, <2>2, <2>3, <2>4
<1>6. Texts' = Texts
    BY DEF Texts, Whole, Versions
<1> QED
    BY <1>4, <1>5, <1>6 DEF Revisions

\* After a new revision somebody holds it, or a revision that was held before.
LEMMA NewRevKnown ==
    ASSUME BufTypes, NEW body \in Contents, NewRev(body), UNCHANGED snap,
           pristine' \in {pristine, undos'[cur']}
    PROVE  Known' \subseteq Known \cup {[rev |-> revs + 1, body |-> body]}
<1> DEFINE n == [rev |-> revs + 1, body |-> body]
<1>1. /\ undos'[cur'] = n
      /\ \A i \in 1 .. Len(undos') : undos'[i] = n \/ \E j \in 1 .. Len(undos) : undos'[i] = undos[j]
    BY NewRevs
<1> HIDE DEF n
<1>2. ASSUME NEW r \in Known' PROVE r \in Known \/ r = n
    BY <1>1 DEF Known
<1> QED
    BY <1>2 DEF n

\* Steps that make no revision only drop some.
LEMMA RevisionsKept ==
    ASSUME DiskInv, revs' = revs, Known' \subseteq Known
    PROVE  Revisions'
BY DEF DiskInv, Revisions

\* The main thread and other programs.  The result that finish_async_save found ok
\* is passed in: its text has been the file's.
LEMMA MainDisk ==
    ASSUME TypeInv, TypeInv', DiskInv, PristineSaved,
           got # NoResult /\ got.res = "ok" => got.gen \in Gens /\ snap[got.gen].body \in onDisk,
           \/ Edit \/ PluginEdit \/ Undo \/ DoSave \/ CallbackStep \/ SaveStatus
           \/ FsEventStashes \/ FsEventReloads \/ ForeignWrite
    PROVE  DiskInv' /\ PristineSaved'
<1>0. undos \in Seq(Revs) /\ cur \in 1 .. Len(undos) /\ HeadRev \in Known
    BY DEF TypeInv, BufTypes, Known, HeadRev
<1>1. ASSUME Edit \/ PluginEdit PROVE DiskInv' /\ PristineSaved'
  <2>1. /\ NewRev(Whole(revs + 1)) /\ revs < MaxEdits /\ UNCHANGED pristine
        /\ UNCHANGED gen /\ UNCHANGED thrVars /\ UNCHANGED fsVars
      BY <1>1 DEF Edit, PluginEdit, EditFrame, taskVars
  <2>2. Whole(revs + 1) \in Texts /\ Whole(revs + 1) \in Contents
    <3>1. revs + 1 \in Versions
        BY <2>1, ConstantsAssumption DEF TypeInv, BufTypes, Versions
    <3> QED
        BY <3>1, WholeTexts DEF Texts
  <2>3. revs' = revs + 1 /\ Known' \subseteq Known \cup {[rev |-> revs + 1, body |-> Whole(revs + 1)]}
      BY <2>1, <2>2, NewRevs, NewRevKnown DEF TypeInv, thrVars
  <2>4. Revisions'
      BY <2>2, <2>3, RevisionJoins
  <2> QED
      BY <2>1, <2>4, FilesKept DEF DiskInv, PristineSaved, fsVars
<1>2. ASSUME UNCHANGED <<undos, pristine, revs>>, UNCHANGED gen, UNCHANGED thrVars,
             UNCHANGED fsVars
      PROVE  DiskInv' /\ PristineSaved'
  <2>1. Known' = Known
      BY <1>2 DEF Known, thrVars
  <2> QED
      BY <1>2, <2>1, RevisionsKept, FilesKept DEF DiskInv, PristineSaved, fsVars
<1>3. ASSUME Undo \/ Callback \/ SaveStatus \/ PollProgress \/ Reschedule \/ FsEventStashes
      PROVE  DiskInv' /\ PristineSaved'
    BY <1>2, <1>3 DEF Undo, EditFrame, Callback, SaveStatus, Poll, PollProgress, ProgressFrame,
                      Reschedule, FsEventStashes, bufVars, taskVars
<1>4. ASSUME DoSave PROVE DiskInv' /\ PristineSaved'
  <2>1. /\ gen' = gen + 1 /\ gen < MaxSaves
        /\ snap' = [snap EXCEPT ![gen + 1] = HeadRev]
        /\ pc' = [pc EXCEPT ![gen + 1] = "start"]
        /\ UNCHANGED <<undos, pristine, revs>> /\ UNCHANGED fsVars /\ UNCHANGED <<fd, off, res>>
      BY <1>4 DEF DoSave, StartSave, bufVars
  <2>2. gen + 1 \in Gens /\ gen \in Nat /\ snap \in [Gens -> Revs] /\ pc \in [Gens -> Pcs]
      BY <2>1, ConstantsAssumption DEF TypeInv, TaskTypes, ThrTypes, Gens
  <2>3. pc[gen + 1] = "off" /\ res[gen + 1] = "none"
      BY <2>2 DEF TypeInv, Steps, NotStarted, DiskInv, ResultInv
  <2>4. \A h \in Gens : h # gen + 1 => snap'[h] = snap[h] /\ pc'[h] = pc[h]
      BY <2>1, <2>2
  <2>5. snap'[gen + 1] = HeadRev /\ pc'[gen + 1] = "start"
      BY <2>1, <2>2
  <2>6. Known' \subseteq Known
      BY <1>0, <2>1, <2>4, <2>5 DEF Known
  <2>7. Revisions'
      BY <2>1, <2>6, RevisionsKept
  <2>8. FileInv'
      BY <2>1, <2>3, <2>4, <2>5 DEF DiskInv, FileInv, fsVars
  <2>9. TmpInv'
      BY <2>1, <2>4, <2>5 DEF DiskInv, TmpInv, Active, fsVars
  <2>10. ResultInv'
    <3>1. \A h \in Gens : h <= gen + 1 => pc'[h] # "off"
        BY <2>2, <2>4, <2>5 DEF DiskInv, ResultInv, Gens
    <3>2. \A h \in Gens : h > gen + 1 => res'[h] = "none"
        BY <2>1, <2>2 DEF DiskInv, ResultInv, Gens
    <3>3. \A h \in Gens : pc'[h] = "chmod" \/ res'[h] = "ok" => snap'[h].body \in onDisk'
        BY <2>1, <2>3, <2>4, <2>5 DEF DiskInv, ResultInv, fsVars
    <3> QED
        BY <2>1, <3>1, <3>2, <3>3 DEF ResultInv
  <2> QED
      BY <2>1, <2>7, <2>8, <2>9, <2>10 DEF DiskInv, PristineSaved, fsVars
<1>5. ASSUME FinishAsyncSave PROVE DiskInv' /\ PristineSaved'
  <2>1. /\ got # NoResult /\ UNCHANGED <<undos, cur, revs>> /\ UNCHANGED gen
        /\ UNCHANGED thrVars /\ UNCHANGED fsVars
        /\ \/ pristine' = pristine
           \/ pristine' = HeadRev /\ got.res = "ok" /\ snap[got.gen].rev = HeadRev.rev
      BY <1>5 DEF FinishAsyncSave, Finish, taskVars
  <2>2. Known' \subseteq Known
      BY <1>0, <2>1 DEF Known, thrVars
  <2>3. PristineSaved'
    <3>1. CASE pristine' = pristine
        BY <2>1, <3>1 DEF PristineSaved, fsVars
    <3>2. CASE pristine' = HeadRev /\ got.res = "ok" /\ snap[got.gen].rev = HeadRev.rev
      <4>1. snap[got.gen] \in Known /\ snap[got.gen].body \in onDisk
          BY <2>1, <3>2 DEF Known
      <4>2. HeadRev.body = snap[got.gen].body
          BY <1>0, <3>2, <4>1 DEF DiskInv, Revisions
      <4> QED
          BY <2>1, <3>2, <4>1, <4>2 DEF PristineSaved, fsVars
    <3> QED
        BY <2>1, <3>1, <3>2
  <2> QED
      BY <2>1, <2>2, <2>3, RevisionsKept, FilesKept DEF DiskInv
<1>6. ASSUME FsEventReloads PROVE DiskInv' /\ PristineSaved'
  <2>1. /\ NewRev(data[path]) /\ pristine' = undos'[cur']
        /\ UNCHANGED gen /\ UNCHANGED thrVars /\ UNCHANGED fsVars
      BY <1>6 DEF FsEventReloads, Reload, taskVars
  <2>2. data[path] \in Texts /\ data[path] \in onDisk /\ data[path] \in Contents
      BY DEF DiskInv, FileInv, TypeInv, FsTypes
  <2>3. /\ revs' = revs + 1 /\ pristine' = [rev |-> revs + 1, body |-> data[path]]
        /\ Known' \subseteq Known \cup {[rev |-> revs + 1, body |-> data[path]]}
      BY <2>1, <2>2, NewRevs, NewRevKnown DEF TypeInv, thrVars
  <2>4. Revisions'
      BY <2>2, <2>3, RevisionJoins
  <2> QED
      BY <2>1, <2>2, <2>3, <2>4, FilesKept DEF DiskInv, PristineSaved, fsVars
<1>7. ASSUME ForeignWrite PROVE DiskInv' /\ PristineSaved'
  <2> DEFINE v == MaxEdits + foreign + 1
  <2>1. /\ foreign < MaxForeign /\ data' = [data EXCEPT ![path] = Whole(v)]
        /\ onDisk' = onDisk \cup {data'[path]}
        /\ UNCHANGED <<undos, pristine, revs, path, tmp>> /\ UNCHANGED gen /\ UNCHANGED thrVars
      BY <1>7 DEF ForeignWrite, taskVars
  <2>2. v \in Versions
      BY <2>1, ConstantsAssumption DEF Versions, TypeInv, BufTypes
  <2>3. Whole(v) \in Texts
      BY <2>2 DEF Texts
  <2> HIDE DEF v
  <2>4. data'[path] = Whole(v) /\ \A i \in Inodes \ {path} : data'[i] = data[i]
      BY <2>1 DEF TypeInv, FsTypes
  <2>5. Known' = Known
      BY <2>1 DEF Known, thrVars
  <2>6. Revisions'
      BY <2>1, <2>5, RevisionsKept
  <2>7. FileInv'
      BY <2>1, <2>3, <2>4 DEF DiskInv, FileInv, thrVars
  <2>8. TmpInv'
    <3>1. \A g \in Gens : fd[g] \in Inodes
        BY DEF TypeInv, ThrTypes
    <3> QED
        BY <2>1, <2>4, <3>1 DEF DiskInv, FileInv, TmpInv, Active, thrVars
  <2>9. ResultInv' /\ PristineSaved'
      BY <2>1 DEF DiskInv, ResultInv, PristineSaved, thrVars
  <2> QED
      BY <2>6, <2>7, <2>8, <2>9 DEF DiskInv
<1> QED
    BY <1>1, <1>3, <1>4, <1>5, <1>6, <1>7 DEF CallbackStep
-----------------------------------------------------------------------------
(* The results on their way to the front-end *)

\* A result that was reported is that of a thread that has ended; it is neither in
\* the slot nor with the callback any more.
Told(r) ==
    /\ r.gen <= gen /\ Ended(r.gen) /\ r.res = res[r.gen]
    /\ slot # NoResult => r.gen # slot.gen
    /\ got # NoResult => r.gen < gen

PassedOn ==
    /\ \A k \in 1 .. Len(reports) : Told(reports[k])
    /\ \A j, k \in 1 .. Len(reports) : j < k => reports[j].gen < reports[k].gen
    /\ slot # NoResult =>
          /\ slot.gen <= gen /\ slot.res = res[slot.gen]
          /\ got # NoResult => slot.gen # gen
    /\ got # NoResult => got.res = res[got.gen]

\* The progress of a save is taken before its result is reported.
ProgressInv ==
    /\ \A k \in 1 .. Len(reports) : reports[k].gen = gen => prog # gen
    /\ got # NoResult /\ cb = "decide" => prog # gen

ToldInv == PassedOn /\ ProgressInv

LEMMA ToldInit == Init => ToldInv
<1> SUFFICES ASSUME Init PROVE ToldInv
    OBVIOUS
<1>1. Len(reports) = 0 /\ slot = NoResult /\ got = NoResult
    BY DEF Init
<1>2. 1 .. Len(reports) = {}
    BY <1>1
<1> QED
    BY <1>1, <1>2 DEF ToldInv, PassedOn, ProgressInv

LEMMA ThreadTold ==
    ASSUME TypeInv, OverlapInv, ToldInv, NEW g \in Gens, ThreadStep(g)
    PROVE  ToldInv'
<1>1. /\ UNCHANGED <<gen, got, cb, reports>>
      /\ \A h \in Gens \ {g} : pc'[h] = pc[h] /\ res'[h] = res[h]
      /\ pc[g] \notin {"exit", "done"} \/ res'[g] = res[g]
      /\ slot' # slot => pc[g] = "deposit" /\ slot' = [gen |-> g, res |-> res'[g]]
      /\ prog' # prog => pc[g] = "write" /\ prog' = g
    BY ThreadKeeps DEF cbVars
<1>2. \A h \in Gens : Ended(h) => Ended(h)' /\ res'[h] = res[h]
  <2>1. Ended(g) => Ended(g)'
    <3>1. PICK p \in Pcs \ {"off"} :
              pc' = [pc EXCEPT ![g] = p] /\ (pc[g] = "exit" => p = "done")
        BY ThreadMoves DEF OverlapInv
    <3>2. Writing(g) \/ pc[g] = "exit"
        BY ThreadMoves DEF OverlapInv
    <3> QED
        BY <3>1, <3>2 DEF Ended, Writing, TypeInv, ThrTypes
  <2> QED
      BY <1>1, <2>1 DEF Ended
<1>3. pc[g] \in {"deposit", "write"} => ~Ended(g) /\ g <= gen
    BY DEF Ended, TypeInv, Steps, NotStarted, TaskTypes, Gens
<1>4. reports \in Seq(Results) /\ \A k \in 1 .. Len(reports) : reports[k].gen \in Gens
  <2>1. reports \in Seq(Results)
      BY DEF TypeInv, CbTypes
  <2>2. \A k \in 1 .. Len(reports) : reports[k] \in Results
      BY <2>1, ElementOfSeq
  <2> QED
      BY <2>1, <2>2 DEF Results
<1>5. got # NoResult => Ended(gen) /\ gen \in Gens /\ got.gen = gen
    BY DEF OverlapInv, GotInv
<1>6. \A k \in 1 .. Len(reports) : Told(reports[k])'
  <2> SUFFICES ASSUME NEW k \in 1 .. Len(reports) PROVE Told(reports[k])'
      OBVIOUS
  <2>1. Told(reports[k]) /\ reports[k].gen \in Gens
      BY <1>4 DEF ToldInv, PassedOn
  <2>2. slot' # NoResult => reports[k].gen # slot'.gen
    <3>1. CASE slot' = slot
        BY <2>1, <3>1 DEF Told
    <3>2. CASE slot' # slot
        BY <1>1, <1>3, <2>1, <3>2 DEF Told
    <3> QED
        BY <3>1, <3>2
  <2> QED
      BY <1>1, <1>2, <2>1, <2>2 DEF Told
<1>7. slot' # NoResult =>
          /\ slot'.gen <= gen' /\ slot'.res = res'[slot'.gen]
          /\ got' # NoResult => slot'.gen # gen'
  <2>1. CASE slot' = slot
    <3>1. slot # NoResult => slot.gen \in Gens /\ Ended(slot.gen)
        BY DEF OverlapInv, SlotInv
    <3> QED
        BY <1>1, <1>2, <2>1, <3>1 DEF ToldInv, PassedOn
  <2>2. CASE slot' # slot
      BY <1>1, <1>3, <1>5, <2>2
  <2> QED
      BY <2>1, <2>2
<1>8. PassedOn'
    BY <1>1, <1>2, <1>5, <1>6, <1>7 DEF ToldInv, PassedOn
<1>9. ProgressInv'
  <2>1. CASE prog' = prog
      BY <1>1, <2>1 DEF ToldInv, ProgressInv
  <2>2. CASE prog' # prog
    <3>1. \A k \in 1 .. Len(reports) : reports[k].gen # g
        BY <1>1, <1>3, <2>2 DEF ToldInv, PassedOn, Told
    <3>2. got # NoResult => g # gen
        BY <1>1, <1>3, <1>5, <2>2
    <3> QED
        BY <1>1, <2>2, <3>1, <3>2 DEF ProgressInv
  <2> QED
      BY <2>1, <2>2
<1> QED
    BY <1>8, <1>9 DEF ToldInv

LEMMA MainTold ==
    ASSUME TypeInv, OverlapInv, ToldInv,
           \/ Edit \/ PluginEdit \/ Undo \/ DoSave \/ CallbackStep \/ SaveStatus
           \/ FsEventStashes \/ FsEventReloads \/ ForeignWrite \/ UNCHANGED vars
    PROVE  ToldInv'
<1>1. reports \in Seq(Results) /\ \A k \in 1 .. Len(reports) : reports[k].gen \in Gens
  <2>1. reports \in Seq(Results)
      BY DEF TypeInv, CbTypes
  <2>2. \A k \in 1 .. Len(reports) : reports[k] \in Results
      BY <2>1, ElementOfSeq
  <2> QED
      BY <2>1, <2>2 DEF Results
<1>2. got # NoResult => Ended(gen) /\ gen \in Gens /\ got.gen = gen /\ cb # "off"
    BY DEF OverlapInv, GotInv
<1>3. ASSUME UNCHANGED <<gen, pc, res, slot, got, reports>>, ProgressInv' PROVE ToldInv'
  <2>1. \A k \in 1 .. Len(reports) : Told(reports[k])'
      BY <1>3 DEF ToldInv, PassedOn, Told, Ended
  <2> QED
      BY <1>3, <2>1 DEF ToldInv, PassedOn
<1>4. CASE UNCHANGED taskVars /\ UNCHANGED thrVars /\ UNCHANGED cbVars
  <2>1. ProgressInv'
      BY <1>4 DEF ToldInv, ProgressInv, taskVars, cbVars
  <2> QED
      BY <1>3, <1>4, <2>1 DEF taskVars, thrVars, cbVars
<1>5. CASE \/ Edit \/ PluginEdit \/ Undo \/ FsEventStashes \/ FsEventReloads \/ ForeignWrite
           \/ UNCHANGED vars
    BY <1>4, <1>5 DEF Edit, PluginEdit, Undo, EditFrame, FsEventStashes, FsEventReloads,
                      ForeignWrite, vars
<1>6. CASE DoSave
  <2>1. /\ gen' = gen + 1 /\ slot' = NoResult /\ prog' = 0 /\ cb = "off" /\ gen < MaxSaves
        /\ pc' = [pc EXCEPT ![gen + 1] = "start"]
        /\ UNCHANGED <<res, got, cb, reports>>
      BY <1>6 DEF DoSave, StartSave, ClientTurn
  <2>2. got = NoResult /\ gen \in Nat /\ gen + 1 \in Gens /\ Gens \subseteq Nat
        /\ pc \in [Gens -> Pcs]
      BY <1>2, <2>1, ConstantsAssumption DEF TypeInv, TaskTypes, ThrTypes, Gens
  <2>3. \A h \in Gens : h <= gen => (Ended(h) => Ended(h)')
      BY <2>1, <2>2 DEF Ended
  <2>4. \A k \in 1 .. Len(reports) : Told(reports[k])' /\ reports[k].gen # gen + 1
    <3> SUFFICES ASSUME NEW k \in 1 .. Len(reports)
                 PROVE  Told(reports[k])' /\ reports[k].gen # gen + 1
        OBVIOUS
    <3>1. Told(reports[k]) /\ reports[k].gen \in Gens
        BY <1>1 DEF ToldInv, PassedOn
    <3>2. reports[k].gen <= gen /\ reports[k].gen \in Nat /\ Ended(reports[k].gen)
        BY <2>2, <3>1 DEF Told
    <3>3. Ended(reports[k].gen)'
        BY <2>1, <2>3, <3>1, <3>2 DEF Ended
    <3>4. reports[k].gen <= gen + 1 /\ reports[k].gen # gen + 1
        BY <2>2, <3>2
    <3> QED
        BY <2>1, <2>2, <3>1, <3>3, <3>4 DEF Told
  <2>5. PassedOn'
      BY <2>1, <2>2, <2>4 DEF ToldInv, PassedOn
  <2>6. ProgressInv'
      BY <2>1, <2>2, <2>4 DEF ProgressInv
  <2> QED
      BY <2>5, <2>6 DEF ToldInv
<1>7. CASE Callback \/ SaveStatus
  <2>1. /\ cb' = "progress" /\ cb = "off" /\ UNCHANGED <<gen, prog, pc, res, reports>>
        /\ \/ slot.gen = gen /\ got' = slot /\ slot' = NoResult
           \/ slot.gen # gen /\ got' = NoResult /\ slot' = slot
      BY <1>7 DEF Callback, SaveStatus, Poll, thrVars
  <2>2. \A k \in 1 .. Len(reports) : Told(reports[k])'
    <3> SUFFICES ASSUME NEW k \in 1 .. Len(reports) PROVE Told(reports[k])'
        OBVIOUS
    <3>1. Told(reports[k]) /\ reports[k].gen \in Nat /\ gen \in Nat
        BY <1>1, ConstantsAssumption DEF ToldInv, PassedOn, Gens, TypeInv, TaskTypes
    <3>2. slot' # NoResult => reports[k].gen # slot'.gen
        BY <2>1, <3>1 DEF Told
    <3>3. got' # NoResult => reports[k].gen < gen
        BY <2>1, <3>1 DEF Told
    <3> QED
        BY <2>1, <3>1, <3>2, <3>3 DEF Told, Ended
  <2>3. PassedOn'
      BY <2>1, <2>2 DEF ToldInv, PassedOn
  <2>4. ProgressInv'
      BY <2>1 DEF ToldInv, ProgressInv
  <2> QED
      BY <2>3, <2>4 DEF ToldInv
<1>8. CASE PollProgress
  <2>1. /\ cb' = "decide" /\ prog' = (IF prog = gen THEN 0 ELSE prog)
        /\ UNCHANGED <<gen, pc, res, slot, got, reports>>
      BY <1>8 DEF PollProgress, ProgressFrame, thrVars
  <2>2. gen \in Gens => prog' # gen
      BY <2>1 DEF Gens
  <2>3. ProgressInv'
      BY <1>1, <1>2, <2>1, <2>2 DEF ProgressInv
  <2> QED
      BY <1>3, <2>1, <2>3
<1>9. CASE FinishAsyncSave
  <2>1. /\ cb = "decide" /\ got # NoResult /\ got' = NoResult
        /\ reports' = Append(reports, got)
        /\ UNCHANGED <<gen, slot, prog, pc, res>>
      BY <1>9 DEF FinishAsyncSave, Finish, taskVars, thrVars
  <2>2. got \in Results /\ got.gen = gen /\ Ended(gen) /\ gen \in Nat /\ Gens \subseteq Nat
      BY <1>2, <2>1 DEF TypeInv, CbTypes, Gens
  <2>3. /\ Len(reports') = Len(reports) + 1 /\ Len(reports) \in Nat
        /\ reports'[Len(reports) + 1] = got
        /\ \A k \in 1 .. Len(reports) : reports'[k] = reports[k]
      BY <1>1, <2>1, <2>2, AppendProperties, LenProperties
  <2>4. \A k \in 1 .. Len(reports) : Told(reports[k]) /\ reports[k].gen < gen
      BY <2>1 DEF ToldInv, PassedOn, Told
  <2>5. \A k \in 1 .. Len(reports) : Told(reports[k])'
      BY <2>1, <2>4 DEF Told, Ended
  <2>6. PICK r : r = got
      OBVIOUS
  <2>7. Told(r)'
    <3>1. got.res = res[gen] /\ (slot # NoResult => slot.gen # gen)
        BY <2>1, <2>2 DEF ToldInv, PassedOn
    <3> QED
        BY <2>1, <2>2, <2>6, <3>1 DEF Told, Ended
  <2>8. \A k \in 1 .. Len(reports') : k \in 1 .. Len(reports) \/ k = Len(reports) + 1
      BY <2>3
  <2>9. \A k \in 1 .. Len(reports') : Told(reports[k])'
    <3> SUFFICES ASSUME NEW k \in 1 .. Len(reports') PROVE Told(reports[k])'
        OBVIOUS
    <3>1. CASE k \in 1 .. Len(reports)
        BY <2>5, <3>1
    <3>2. CASE k = Len(reports) + 1
      <4>1. reports'[k] = r
          BY <2>3, <2>6, <3>2
      <4> QED
          BY <2>7, <4>1 DEF Told, Ended
    <3> QED
        BY <2>8, <3>1, <3>2
  <2>10. \A j, k \in 1 .. Len(reports') : j < k => reports'[j].gen < reports'[k].gen
      BY <2>2, <2>3, <2>4, <2>8 DEF ToldInv, PassedOn
  <2>11. PassedOn'
      BY <2>1, <2>9, <2>10 DEF ToldInv, PassedOn
  <2>12. ProgressInv'
      BY <2>1 DEF ToldInv, ProgressInv
  <2> QED
      BY <2>11, <2>12 DEF ToldInv
<1>10. CASE Reschedule
  <2>1. cb' = "off" /\ UNCHANGED prog /\ UNCHANGED <<gen, pc, res, slot, got, reports>>
      BY <1>10 DEF Reschedule, taskVars, thrVars
  <2>2. ProgressInv'
      BY <2>1 DEF ToldInv, ProgressInv
  <2> QED
      BY <1>3, <2>1, <2>2
<1> QED
    BY <1>5, <1>6, <1>7, <1>8, <1>9, <1>10 DEF CallbackStep
-----------------------------------------------------------------------------
(* What a save promises *)

\* The inductive invariant of a core in its run loop.
SaveInv == TypeInv /\ OverlapInv /\ DiskInv /\ PristineSaved /\ ToldInv

LEMMA SaveStep ==
    ASSUME InRunLoop, SaveInv, [Next]_vars
    PROVE  SaveInv'
<1> USE DEF SaveInv
<1>1. TypeInv' /\ OverlapInv'
    BY TypeNext, OverlapStep
<1>2. got # NoResult /\ got.res = "ok" => got.gen \in Gens /\ snap[got.gen].body \in onDisk
    BY DEF OverlapInv, GotInv, ToldInv, PassedOn, DiskInv, ResultInv
<1>3. ASSUME NEW g \in Gens, ThreadStep(g) PROVE DiskInv' /\ PristineSaved' /\ ToldInv'
    BY <1>3, ThreadDisk, ThreadTold
<1>4. ASSUME \/ Edit \/ PluginEdit \/ Undo \/ DoSave \/ CallbackStep \/ SaveStatus
             \/ FsEventStashes \/ FsEventReloads \/ ForeignWrite
      PROVE  DiskInv' /\ PristineSaved' /\ ToldInv'
    BY <1>1, <1>2, <1>4, MainDisk, MainTold
<1>5. ASSUME UNCHANGED vars PROVE DiskInv' /\ PristineSaved' /\ ToldInv'
  <2>1. /\ UNCHANGED gen /\ UNCHANGED thrVars /\ UNCHANGED fsVars
        /\ UNCHANGED <<undos, pristine, revs>>
      BY <1>5 DEF vars, taskVars, bufVars
  <2>2. Known' = Known
      BY <2>1 DEF Known, thrVars
  <2>3. DiskInv' /\ PristineSaved'
      BY <2>1, <2>2, RevisionsKept, FilesKept DEF DiskInv, PristineSaved, fsVars
  <2> QED
      BY <1>5, <2>3, MainTold
<1> QED
    BY <1>1, <1>3, <1>4, <1>5 DEF Next

LEMMA SaveAlways == InRunLoop => (Spec => []SaveInv)
<1> SUFFICES ASSUME InRunLoop PROVE Spec => []SaveInv
    OBVIOUS
<1>1. Init => SaveInv
    BY TypeInit, OverlapInit, DiskInit, ToldInit DEF SaveInv
<1>2. SaveInv /\ [Next]_vars => SaveInv'
    BY SaveStep
<1> QED
    BY <1>1, <1>2, PTL DEF Spec

\* A core in its run loop never leaves a partial text under the file's name: at
\* every moment a crash would find an old or a new text, whichever saves failed,
\* whatever their threads still do and whoever else writes the file.
THEOREM FileIsWhole == InRunLoop => (Spec => []DiskComplete)
<1>1. SaveInv => DiskComplete
    BY DEF SaveInv, DiskInv, FileInv, Texts, DiskComplete
<1> QED
    BY <1>1, SaveAlways, PTL

\* A save_result that reports success is true: the snapshot that save took has been
\* the file's contents.
THEOREM SuccessIsTrue == InRunLoop => (Spec => []ReportedSaved)
<1>1. ASSUME SaveInv PROVE ReportedSaved
  <2>1. reports \in Seq(Results) /\ DOMAIN reports = 1 .. Len(reports)
      BY <1>1, LenProperties DEF SaveInv, TypeInv, CbTypes
  <2>2. ASSUME NEW k \in 1 .. Len(reports), reports[k].res = "ok"
        PROVE  snap[reports[k].gen].body \in onDisk
    <3>1. reports[k] \in Results
        BY <2>1, ElementOfSeq
    <3>2. reports[k].gen \in Gens /\ res[reports[k].gen] = "ok"
        BY <1>1, <2>2, <3>1 DEF SaveInv, ToldInv, PassedOn, Told, Results
    <3> QED
        BY <1>1, <3>2 DEF SaveInv, DiskInv, ResultInv
  <2> QED
      BY <2>1, <2>2 DEF ReportedSaved
<1> QED
    BY <1>1, SaveAlways, PTL

\* The revision marked pristine has been the file's contents, although
\* finish_async_save marks the head of a buffer that may have changed, been undone
\* or been loaded again since the save began; a reload therefore throws no unsaved
\* text away.
THEOREM PristineIsSaved == InRunLoop => (Spec => []PristineSaved)
<1>1. SaveInv => PristineSaved
    BY DEF SaveInv
<1> QED
    BY <1>1, SaveAlways, PTL

\* A front-end gets the results in the order of its saves, at most one for each, and
\* no progress of a save after its result.
THEOREM ResultsInOrder == InRunLoop => (Spec => []ReportsInOrder)
<1>1. ASSUME SaveInv PROVE ReportsInOrder
  <2>1. DOMAIN reports = 1 .. Len(reports)
      BY <1>1, LenProperties DEF SaveInv, TypeInv, CbTypes
  <2> QED
      BY <1>1, <2>1 DEF SaveInv, ToldInv, PassedOn, ProgressInv, ReportsInOrder, Reported
<1> QED
    BY <1>1, SaveAlways, PTL
=============================================================================
