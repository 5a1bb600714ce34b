----------------------------- MODULE AsyncSave -----------------------------
(***************************************************************************)
(* Saving a rope buffer in the background (xi-core-lib): the main thread   *)
(* snapshots the buffer and starts a thread (SaveTask, whole_scan.rs), the *)
(* thread writes `<path>.swp` chunk by chunk and renames it over the file  *)
(* (try_save, file/save.rs), and an idle callback picks the result up      *)
(* (handle_save_callback) and records the file's new identity in the       *)
(* FileManager, which also learns of changes from the file watcher.        *)
(*                                                                         *)
(* A thread is named by its generation.  A version stands for a text up to *)
(* the trailing blanks and the final newline rope_snapshot_for_save may    *)
(* add or remove; a byte-order mark is part of the first chunk.  Saves go  *)
(* to the path the buffer was opened from.  The file system is external:   *)
(* paths name inodes, and a thread goes on writing to the inode it opened, *)
(* whatever becomes of its name.  The watcher may deliver an event at any  *)
(* time: which writes it reports, how often and how late is the platform's *)
(* choice.                                                                 *)
(*                                                                         *)
(* The idle queue has room for the token of the buffer's view: a view has  *)
(* at most five tokens in it and the queue takes MAX_IDLE_QUEUE_SIZE (256) *)
(* of them.  schedule_idle drops a token offered beyond that; then the     *)
(* client gets its turn while the thread runs, and saves could overlap.    *)
(***************************************************************************)
EXTENDS Integers, Sequences, FiniteSets

CONSTANTS
    InRunLoop,   \* are messages read by RpcLoop::mainloop, or is the core
                 \* called directly, as in its tests
    IoFails,     \* may creating, writing or renaming a file fail
    NChunks,     \* chunks in which a text is written
    MaxSaves,    \* bound: saves started
    MaxEdits,    \* bound: revisions after which the buffer is not edited
    MaxForeign   \* bound: writes of the file by another program

ASSUME ConstantsAssumption ==
    /\ InRunLoop \in BOOLEAN /\ IoFails \in BOOLEAN
    /\ NChunks \in Nat \ {0} /\ MaxSaves \in Nat
    /\ MaxEdits \in Nat /\ MaxForeign \in Nat

Gens     == 1 .. MaxSaves
Inodes   == 0 .. MaxSaves               \* 0: the file that was opened
Versions == 0 .. (MaxEdits + MaxForeign)
Missing  == -1                          \* a chunk that was not written
Contents == [1 .. NChunks -> Versions \cup {Missing}]
Whole(v) == [c \in 1 .. NChunks |-> v]
Empty    == Whole(Missing)
NoTmp    == -1
Revs     == [rev : Nat, body : Contents]    \* a revision of the buffer
Opened   == [rev |-> 0, body |-> Whole(0)]
NoResult == [gen |-> 0, res |-> "none"]
Results  == [gen : Gens, res : {"ok", "error", "cancelled"}]

VARIABLES
    \* --- the buffer, on the main thread ----------------------------------
    undos,     \* the revisions undo and redo step through, ...
    cur,       \* ... and which of them is the head
    pristine,  \* the revision marked pristine
    revs,      \* how many there have been
    foreign,   \* how often another program wrote the file
    \* --- SaveTask --------------------------------------------------------
    gen,       \* generation
    slot,      \* result
    prog,      \* generation of the value in `progress`, 0 for None
    \* --- the save threads ------------------------------------------------
    pc, snap, fd, off, res,
    \* --- the file system -------------------------------------------------
    data, stamp, path, tmp,
    onDisk,     \* history: the texts the file has held
    \* --- FileManager -----------------------------------------------------
    cookie,     \* mod_time, len and change_cookie of FileInfo
    hasChanged, \* FileInfo.has_changed
    \* --- handle_save_callback --------------------------------------------
    idle,       \* its token is in the idle queue
    cb,         \* where it is
    got,        \* what `poll` returned to it
    reports     \* history: the save_result notifications sent

bufVars  == <<undos, cur, pristine, revs, foreign>>
taskVars == <<gen, slot, prog>>
thrVars  == <<pc, snap, fd, off, res>>
fsVars   == <<data, stamp, path, tmp, onDisk>>
infoVars == <<cookie, hasChanged>>
cbVars   == <<idle, cb, got, reports>>
vars == <<bufVars, taskVars, thrVars, fsVars, infoVars, cbVars>>

Pcs == {"off", "start", "create", "created", "chunk", "write", "final", "rename",
        "chmod", "stale", "deposit", "exit", "done"}

TypeOK ==
    /\ undos \in Seq(Revs) /\ cur \in DOMAIN undos /\ pristine \in Revs
    /\ revs \in Nat /\ foreign \in 0 .. MaxForeign
    /\ gen \in 0 .. MaxSaves
    /\ slot \in Results \cup {NoResult}
    /\ prog \in 0 .. MaxSaves
    /\ pc \in [Gens -> Pcs]
    /\ snap \in [Gens -> Revs]
    /\ fd \in [Gens -> Inodes]
    /\ off \in [Gens -> 1 .. NChunks + 1]
    /\ res \in [Gens -> {"none", "ok", "error", "cancelled"}]
    /\ data \in [Inodes -> Contents]
    /\ stamp \in [Inodes -> Nat]
    /\ path \in Inodes /\ tmp \in Inodes \cup {NoTmp}
    /\ onDisk \subseteq Contents
    /\ cookie \in Inodes \X Nat
    /\ hasChanged \in BOOLEAN /\ idle \in BOOLEAN
    /\ cb \in {"off", "progress", "decide"}
    /\ got \in Results \cup {NoResult}
    /\ reports \in Seq(Results)

Init ==
    /\ undos = <<Opened>> /\ cur = 1 /\ pristine = Opened
    /\ revs = 0 /\ foreign = 0
    /\ gen = 0 /\ slot = NoResult /\ prog = 0
    /\ pc = [g \in Gens |-> "off"]
    /\ snap = [g \in Gens |-> Opened]
    /\ fd = [g \in Gens |-> 0]
    /\ off = [g \in Gens |-> 1]
    /\ res = [g \in Gens |-> "none"]
    /\ data = [i \in Inodes |-> IF i = 0 THEN Whole(0) ELSE Empty]
    /\ stamp = [i \in Inodes |-> 0]
    /\ path = 0 /\ tmp = NoTmp /\ onDisk = {Whole(0)}
    /\ cookie = <<0, 0>>
    /\ hasChanged = FALSE
    /\ idle = FALSE /\ cb = "off" /\ got = NoResult
    /\ reports = << >>

\* get_mod_time, get_file_len and get_change_cookie of the path: every write,
\* truncation, rename or chmod changes one of them.
CurrentCookie == <<path, stamp[path]>>

-----------------------------------------------------------------------------
(***************************************************************************)
(* The main thread.  It runs one handler at a time.                        *)
(***************************************************************************)
InProgress == gen # 0 /\ pc[gen] # "done"

\* The run loop empties the idle queue before it takes the next message.
ClientTurn == cb = "off" /\ (InRunLoop => ~idle)

HeadRev == undos[cur]
IsPristine == pristine.rev = HeadRev.rev

\* A new revision, in an undo group of its own or in that of the head.
NewRev(body) ==
    LET r == [rev |-> revs + 1, body |-> body]
    IN  /\ revs' = revs + 1
        /\ \/ undos' = Append(SubSeq(undos, 1, cur), r) /\ cur' = cur + 1
           \/ cur > 1 /\ undos' = Append(SubSeq(undos, 1, cur - 1), r) /\ cur' = cur

EditFrame ==
    UNCHANGED <<pristine, foreign, taskVars, thrVars, fsVars, infoVars, cbVars>>

Edit ==
    /\ ClientTurn /\ revs < MaxEdits
    /\ NewRev(Whole(revs + 1))
    /\ EditFrame

\* A plugin's thread only needs the core's lock, which a callback holds.
PluginEdit ==
    /\ cb = "off" /\ revs < MaxEdits
    /\ NewRev(Whole(revs + 1))
    /\ EditFrame

\* Undo and redo.
Undo ==
    /\ ClientTurn
    /\ \E c \in {cur - 1, cur + 1} \cap DOMAIN undos : cur' = c
    /\ UNCHANGED <<undos, revs>> /\ EditFrame

\* prepare_rope_save refuses a file that is known to have changed.
PrepareRopeSave == ~hasChanged

\* start_save bumps the generation, clears both slots and starts the thread.
StartSave(rev) ==
    /\ gen' = gen + 1
    /\ slot' = NoResult /\ prog' = 0
    /\ snap' = [snap EXCEPT ![gen + 1] = rev]
    /\ pc' = [pc EXCEPT ![gen + 1] = "start"]

\* do_save also puts the callback's token into the idle queue.
DoSave ==
    /\ ClientTurn /\ gen < MaxSaves
    /\ PrepareRopeSave
    /\ StartSave(HeadRev)
    /\ idle' = TRUE
    /\ UNCHANGED <<bufVars, fd, off, res, fsVars, infoVars, cb, got, reports>>

\* Faulty variant: poll leaves the result where it is.
Poll_Peek ==
    /\ cb = "off" /\ cb' = "progress"
    /\ got' = IF slot.gen = gen THEN slot ELSE NoResult
    /\ UNCHANGED <<bufVars, gen, slot, prog, thrVars, fsVars, infoVars, reports>>

\* SaveTask::poll takes the result of the current generation.
Poll ==
    /\ cb = "off" /\ cb' = "progress"
    /\ IF slot.gen = gen
       THEN got' = slot /\ slot' = NoResult
       ELSE got' = NoResult /\ UNCHANGED slot
    /\ UNCHANGED <<bufVars, gen, prog, thrVars, fsVars, infoVars, reports>>

\* handle_save_callback runs from the idle queue, ...
Callback == idle /\ idle' = FALSE /\ Poll

\* ... and when the front-end asks for save_status.
SaveStatus == ClientTurn /\ gen # 0 /\ UNCHANGED idle /\ Poll

ProgressFrame ==
    UNCHANGED <<bufVars, gen, slot, thrVars, fsVars, infoVars, idle, got, reports>>

\* It then takes, and sends, the progress of the current generation.
PollProgress ==
    /\ cb = "progress" /\ cb' = "decide"
    /\ prog' = IF prog = gen THEN 0 ELSE prog
    /\ ProgressFrame

\* finish_rope_save looks at the file again.
FinishRopeSave == cookie' = CurrentCookie /\ hasChanged' = FALSE

\* finish_async_save sends save_result and, after a success, marks the head
\* pristine if markPristine.
Finish(markPristine) ==
    /\ cb = "decide" /\ got # NoResult
    /\ reports' = Append(reports, got)
    /\ IF got.res = "ok"
       THEN /\ FinishRopeSave
            /\ pristine' = IF markPristine THEN HeadRev ELSE pristine
       ELSE UNCHANGED <<infoVars, pristine>>
    /\ cb' = "off" /\ got' = NoResult
    /\ UNCHANGED <<undos, cur, revs, foreign, taskVars, thrVars, fsVars, idle>>

\* Faulty variant: marks whatever the buffer holds by now as saved.
FinishAsyncSave_AlwaysPristine == Finish(TRUE)

\* set_pristine_if_equivalent_revision: if that is what was saved.
FinishAsyncSave == Finish(got # NoResult /\ snap[got.gen].rev = HeadRev.rev)

\* Faulty variant: does not come back.
Reschedule_Never ==
    /\ cb = "decide" /\ got = NoResult
    /\ cb' = "off"
    /\ UNCHANGED <<bufVars, taskVars, thrVars, fsVars, infoVars, idle, got, reports>>

\* Without a result the callback is scheduled again while the thread runs.
Reschedule ==
    /\ cb = "decide" /\ got = NoResult
    /\ idle' = (idle \/ InProgress)
    /\ cb' = "off"
    /\ UNCHANGED <<bufVars, taskVars, thrVars, fsVars, infoVars, got, reports>>

\* check_file
CheckFile == hasChanged \/ cookie # CurrentCookie

\* handle_open_file_fs_event: check_file stashes has_changed, ...
FsEventStashes ==
    /\ cb = "off" /\ CheckFile
    /\ IoFails \/ ~IsPristine
    /\ hasChanged' = TRUE
    /\ UNCHANGED <<bufVars, taskVars, thrVars, fsVars, cookie, cbVars>>

\* FileManager::open records the identity of what it loads.
OpenFile == cookie' = CurrentCookie /\ hasChanged' = FALSE

\* Editor::reload makes the loaded text the head and the pristine revision.
Reload == NewRev(data[path]) /\ pristine' = undos'[cur']

\* ... and a buffer without changes is loaded again if the file can be read.
FsEventReloads ==
    /\ cb = "off" /\ CheckFile
    /\ IsPristine
    /\ OpenFile /\ Reload
    /\ UNCHANGED <<foreign, taskVars, thrVars, fsVars, cbVars>>

\* Another program writes the file.
ForeignWrite ==
    /\ foreign < MaxForeign
    /\ foreign' = foreign + 1
    /\ data' = [data EXCEPT ![path] = Whole(MaxEdits + foreign + 1)]
    /\ stamp' = [stamp EXCEPT ![path] = @ + 1]
    /\ onDisk' = onDisk \cup {data'[path]}
    /\ UNCHANGED <<undos, cur, pristine, revs, taskVars, thrVars, path, tmp, infoVars,
                   cbVars>>
-----------------------------------------------------------------------------
(***************************************************************************)
(* The save thread of generation g.                                        *)
(***************************************************************************)
ShouldContinue(g) == gen = g

ThreadFrame == UNCHANGED <<bufVars, gen, infoVars, cbVars>>

At(g, from, to) == pc[g] = from /\ pc' = [pc EXCEPT ![g] = to]

\* try_save returns r; what is left is the test for staleness.
Return(g, r) ==
    /\ pc' = [pc EXCEPT ![g] = "stale"]
    /\ res' = [res EXCEPT ![g] = r]

ThreadStarts(g) ==
    /\ At(g, "start", IF ShouldContinue(g) THEN "create" ELSE "done")
    /\ ThreadFrame /\ UNCHANGED <<slot, prog, snap, fd, off, res, fsVars>>

\* File::create: a new inode, or the one the name has, truncated.
CreateTmp(g) ==
    /\ At(g, "create", "created")
    /\ LET i == IF tmp = NoTmp THEN g ELSE tmp
       IN  /\ tmp' = i
           /\ fd' = [fd EXCEPT ![g] = i]
           /\ data' = [data EXCEPT ![i] = Empty]
           /\ stamp' = [stamp EXCEPT ![i] = @ + 1]
    /\ ThreadFrame /\ UNCHANGED <<slot, prog, snap, off, res, path, onDisk>>

\* should_continue after the file was created, and after the last chunk: a
\* superseded save removes its file by name.
CheckOrRemove(g, from, to) ==
    /\ pc[g] = from
    /\ IF ShouldContinue(g)
       THEN pc' = [pc EXCEPT ![g] = to] /\ UNCHANGED <<tmp, res>>
       ELSE Return(g, "cancelled") /\ tmp' = NoTmp
    /\ ThreadFrame /\ UNCHANGED <<slot, prog, snap, fd, off, data, stamp, path, onDisk>>

CheckCreated(g) == CheckOrRemove(g, "created", "chunk")
CheckFinal(g)   == CheckOrRemove(g, "final", "rename")

\* ChunkedSaveWriter::write_all checks, ...
CheckChunk(g) ==
    /\ pc[g] = "chunk"
    /\ IF ShouldContinue(g)
       THEN pc' = [pc EXCEPT ![g] = "write"] /\ UNCHANGED res
       ELSE Return(g, "cancelled")
    /\ ThreadFrame /\ UNCHANGED <<slot, prog, snap, fd, off, fsVars>>

AfterChunk(g) == IF off[g] = NChunks THEN "final" ELSE "chunk"

\* ... writes and reports progress.
WriteChunk(g) ==
    /\ At(g, "write", AfterChunk(g))
    /\ data' = [data EXCEPT ![fd[g]][off[g]] = snap[g].body[off[g]]]
    /\ stamp' = [stamp EXCEPT ![fd[g]] = @ + 1]
    /\ onDisk' = onDisk \cup {data'[path]}
    /\ off' = [off EXCEPT ![g] = @ + 1]
    /\ prog' = g
    /\ ThreadFrame /\ UNCHANGED <<slot, snap, fd, res, path, tmp>>

\* fs::rename moves whatever has the temporary name now.
Rename(g) ==
    /\ pc[g] = "rename"
    /\ IF tmp = NoTmp
       THEN Return(g, "error") /\ UNCHANGED <<path, tmp, onDisk>>
       ELSE /\ pc' = [pc EXCEPT ![g] = "chmod"]
            /\ path' = tmp /\ tmp' = NoTmp
            /\ onDisk' = onDisk \cup {data[tmp]}
            /\ UNCHANGED res
    /\ ThreadFrame /\ UNCHANGED <<slot, prog, snap, fd, off, data, stamp>>

\* set_permissions; an error is only logged.
Chmod(g) ==
    /\ pc[g] = "chmod"
    /\ Return(g, "ok")
    /\ stamp' = [stamp EXCEPT ![path] = @ + 1]
    /\ ThreadFrame /\ UNCHANGED <<slot, prog, snap, fd, off, data, path, tmp, onDisk>>

\* Faulty variants of the error paths: a failed write is passed over; a failed
\* rename is not an error; an error ends the thread without a result; an error
\* is not recorded.
IoErrorFrame(g) ==
    ThreadFrame /\ UNCHANGED <<slot, prog, snap, fd, fsVars>>

IoError_Passed(g) ==
    /\ IoFails /\ pc[g] = "write"
    /\ pc' = [pc EXCEPT ![g] = AfterChunk(g)]
    /\ off' = [off EXCEPT ![g] = @ + 1]
    /\ UNCHANGED res /\ IoErrorFrame(g)

IoError_RenameOk(g) ==
    /\ IoFails
    /\ pc[g] \in {"create", "write", "final", "rename"}
    /\ Return(g, IF pc[g] = "rename" THEN "ok" ELSE "error")
    /\ UNCHANGED off /\ IoErrorFrame(g)

IoError_Drops(g) ==
    /\ IoFails
    /\ pc[g] \in {"create", "write", "final", "rename"}
    /\ pc' = [pc EXCEPT ![g] = "done"]
    /\ UNCHANGED <<off, res>> /\ IoErrorFrame(g)

IoError_NoValue(g) ==
    /\ IoFails
    /\ pc[g] \in {"create", "write", "final", "rename"}
    /\ pc' = [pc EXCEPT ![g] = "stale"]
    /\ UNCHANGED <<off, res>> /\ IoErrorFrame(g)

\* Creating, writing, syncing or renaming fails.  The temporary file stays.
IoError(g) ==
    /\ IoFails
    /\ pc[g] \in {"create", "write", "final", "rename"}
    /\ Return(g, "error")
    /\ UNCHANGED off /\ IoErrorFrame(g)

\* A superseded save that noticed in time leaves without a result.
CheckStale(g) ==
    /\ At(g, "stale", IF gen # g /\ res[g] = "cancelled" THEN "done" ELSE "deposit")
    /\ ThreadFrame /\ UNCHANGED <<slot, prog, snap, fd, off, res, fsVars>>

Deposit(g) ==
    /\ At(g, "deposit", "exit")
    /\ slot' = [gen |-> g, res |-> res[g]]
    /\ ThreadFrame /\ UNCHANGED <<prog, snap, fd, off, res, fsVars>>

\* From here on JoinHandle::is_finished() holds.
Exit(g) ==
    /\ At(g, "exit", "done")
    /\ ThreadFrame /\ UNCHANGED <<slot, prog, snap, fd, off, res, fsVars>>
-----------------------------------------------------------------------------
ThreadStep(g) ==
    \/ ThreadStarts(g) \/ CreateTmp(g) \/ CheckCreated(g) \/ CheckChunk(g)
    \/ WriteChunk(g) \/ CheckFinal(g) \/ Rename(g) \/ Chmod(g) \/ IoError(g)
    \/ CheckStale(g) \/ Deposit(g) \/ Exit(g)

CallbackStep == Callback \/ PollProgress \/ FinishAsyncSave \/ Reschedule

Next ==
    \/ Edit \/ PluginEdit \/ Undo \/ DoSave \/ CallbackStep \/ SaveStatus
    \/ FsEventStashes \/ FsEventReloads \/ ForeignWrite
    \/ \E g \in Gens : ThreadStep(g)

Spec == Init /\ [][Next]_vars

\* The idle queue is served and every thread runs to its end.
Fairness == WF_vars(CallbackStep) /\ \A g \in Gens : WF_vars(ThreadStep(g))

FairSpec == Spec /\ Fairness

\* A front-end that waits for its save asks for save_status again and again
\* (wait_for_buffer_save of ee-cli).
PollingSpec == FairSpec /\ WF_vars(SaveStatus)
-----------------------------------------------------------------------------
(***************************************************************************)
(* What a save promises.                                                   *)
(***************************************************************************)
Reported(g) == \E k \in DOMAIN reports : reports[k].gen = g

\* The file is never a partial text: the temporary file gets its name only when
\* complete, so a crash at any moment leaves an old or a new text, whatever
\* failed before.
DiskComplete == \E v \in Versions : data[path] = Whole(v)

\* A save_result that says success is the truth: that snapshot has been the
\* file's contents.
ReportedSaved ==
    \A k \in DOMAIN reports :
        reports[k].res = "ok" => snap[reports[k].gen].body \in onDisk

\* The revision marked pristine was the file's contents at some time, also
\* when the buffer changed while its save ran.  A pristine buffer is what a
\* reload throws away, so no other text is ever lost.
PristineSaved == pristine.body \in onDisk

\* A front-end sees the results of its saves in the order it asked for them,
\* one at most for each, and after its result no progress of a save, whatever
\* superseded threads still deposit.
ReportsInOrder ==
    /\ \A j, k \in DOMAIN reports : j < k => reports[j].gen < reports[k].gen
    /\ Reported(gen) => prog # gen

\* Two saves never write at the same time: they share one temporary file.  The
\* code has no lock for this: the token of the first save keeps the run loop
\* from reading the message that would start the second.
SavesDoNotOverlap ==
    \A g, h \in Gens :
        /\ pc[g] \notin {"off", "exit", "done"}
        /\ pc[h] \notin {"off", "exit", "done"}
        => g = h

\* Every save is answered, unless a newer one has replaced it: the generation
\* only grows, so the one that is current when its result is reported is the
\* one that was asked for, or newer.
ResultPickedUp == (gen > 0) ~> Reported(gen)
=============================================================================
