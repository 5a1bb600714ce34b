----------------------------- MODULE WholeScan ------------------------------
(***************************************************************************)
(* Reindenting a document in the background: WholeScanTask (whole_scan.rs), *)
(* begin_async_reindent and apply_whole_scan_result (event_context/        *)
(* editing.rs), and the ways a document changes meanwhile.                 *)
(*                                                                         *)
(* A thread computes a delta against a snapshot and deposits it in a slot; *)
(* an idle callback polls the slot, and schedules itself again until it    *)
(* finds the result of the newest request.  While its token is queued the  *)
(* run loop dispatches no message of the client, but plugin threads take   *)
(* the core's mutex and file events are idle callbacks too.                *)
(*                                                                         *)
(* A text is its revision and its length: Engine::edit_rev panics when the *)
(* length of a delta's base is not the length of the text it is applied    *)
(* to, and cannot tell texts of equal length apart.                        *)
(***************************************************************************)
EXTENDS Naturals, Sequences

CONSTANTS
    Lengths,    \* lengths of texts
    Faults,     \* subset of {"panic", "full"}
    MaxGen,     \* bound on the reindents
    MaxRev      \* bound on the revisions by edits; a reindent adds at most one each

ASSUME WholeScanAssumption == MaxGen \in Nat /\ MaxRev \in Nat \ {0}

VARIABLES
    head,       \* Editor: the newest revision of the text
    pristine,   \* Editor.pristine_rev_id
    gen, slot,  \* WholeScanTask.generation and .result
    scan,       \* the threads, by generation
    token,      \* the view's WHOLE_SCAN token is in the idle queue
    panicked,   \* the core's main thread has panicked
    others,     \* history: revisions made by plugins and reloads
    applied,    \* history: results applied, with the text they were applied to
    dropped     \* history: a token was refused by a full idle queue

vars == <<head, pristine, gen, slot, scan, token, panicked, others, applied, dropped>>

Gens == 1 .. MaxGen
Revs == 1 .. MaxRev + MaxGen
Texts == [rev : Revs, len : Lengths]
Gone == [pc |-> "gone"]
NoResult == [gen |-> 0]
NoScan == [pc |-> "none"]

Init ==
    /\ head \in {t \in Texts : t.rev = 1}
    /\ pristine = 1
    /\ gen = 0 /\ slot = NoResult
    /\ scan = [g \in Gens |-> NoScan]
    /\ token = FALSE /\ panicked = FALSE
    /\ others = {} /\ applied = <<>> /\ dropped = FALSE

----------------------------------------------------------------------------
(* schedule_idle: the queue holds a token once; at its limit it refuses it. *)
ScheduleIdle ==
    \/ token' = TRUE /\ UNCHANGED dropped
    \/ "full" \in Faults /\ token' = FALSE /\ dropped' = TRUE

(* The text gets a new revision, of some length. *)
NewRevision(len) == head' = [rev |-> head.rev + 1, len |-> len]

(* The main loop dispatches a message only when the idle queue is empty. *)
ClientTurn == ~token /\ ~panicked

----------------------------------------------------------------------------
(* Mutant: the thread is given the generation before the increment. *)
BeginAsyncReindent_OldGen ==
    /\ ClientTurn /\ gen < MaxGen
    /\ gen' = gen + 1
    /\ scan' = [scan EXCEPT ![gen + 1] = Gone]
    /\ ScheduleIdle
    /\ UNCHANGED <<head, pristine, slot, panicked, others, applied>>

(* begin_async_reindent with start_reindent: the generation is bumped, the *)
(* slot is left as it is, and the thread gets a snapshot.                  *)
BeginAsyncReindent ==
    /\ ClientTurn /\ gen < MaxGen
    /\ gen' = gen + 1
    /\ scan' = [scan EXCEPT ![gen + 1] = [pc |-> "first", base |-> head]]
    /\ ScheduleIdle
    /\ UNCHANGED <<head, pristine, slot, panicked, others, applied>>

ClientEdit(len) ==
    /\ ClientTurn /\ head.rev < MaxRev
    /\ NewRevision(len)
    /\ UNCHANGED <<pristine, gen, slot, scan, token, panicked, others, applied, dropped>>

(* apply_plugin_edit, on the plugin's thread. *)
PluginEdit(len) ==
    /\ ~panicked /\ head.rev < MaxRev
    /\ NewRevision(len)
    /\ others' = others \cup {head.rev + 1}
    /\ UNCHANGED <<pristine, gen, slot, scan, token, panicked, applied, dropped>>

(* handle_open_file_fs_event: an unmodified buffer is reloaded. *)
Reload(len) ==
    /\ ~panicked /\ head.rev = pristine /\ head.rev < MaxRev
    /\ NewRevision(len)
    /\ pristine' = head.rev + 1
    /\ others' = others \cup {head.rev + 1}
    /\ UNCHANGED <<gen, slot, scan, token, panicked, applied, dropped>>

----------------------------------------------------------------------------
(* The thread of start_reindent *)

(* The thread ends when it has been superseded. *)
CheckGeneration(g, next) ==
    /\ scan' = [scan EXCEPT ![g] = IF gen = g THEN [@ EXCEPT !.pc = next] ELSE Gone]
    /\ UNCHANGED <<head, pristine, gen, slot, token, panicked, others, applied, dropped>>

FirstCheck(g) == scan[g].pc = "first" /\ CheckGeneration(g, "compute")

(* lang_features::reindent: there is something to change, or there is not. *)
Compute(g) ==
    /\ scan[g].pc = "compute"
    /\ \E some \in BOOLEAN :
          scan' = [scan EXCEPT ![g] = [pc |-> "second", base |-> scan[g].base, some |-> some]]
    /\ UNCHANGED <<head, pristine, gen, slot, token, panicked, others, applied, dropped>>

ComputePanics(g) ==
    /\ "panic" \in Faults
    /\ scan[g].pc = "compute"
    /\ scan' = [scan EXCEPT ![g] = [pc |-> "panicked"]]
    /\ UNCHANGED <<head, pristine, gen, slot, token, panicked, others, applied, dropped>>

SecondCheck(g) == scan[g].pc = "second" /\ CheckGeneration(g, "deposit")

Deposit(g) ==
    /\ scan[g].pc = "deposit"
    /\ slot' = [gen |-> g, base |-> scan[g].base, some |-> scan[g].some]
    /\ scan' = [scan EXCEPT ![g] = Gone]
    /\ UNCHANGED <<head, pristine, gen, token, panicked, others, applied, dropped>>

----------------------------------------------------------------------------
(* The idle callback: apply_whole_scan_result *)

(* Mutant: whatever is in the slot is taken. *)
Poll_AnyGen == slot # NoResult

(* WholeScanTask::poll finds the result of the current generation. *)
Poll == slot # NoResult /\ slot.gen = gen

ApplyDirectDelta(len) ==
    /\ applied' = Append(applied, [gen |-> slot.gen, base |-> slot.base, onto |-> head])
    /\ IF slot.base.len = head.len
       THEN NewRevision(len) /\ UNCHANGED panicked
       ELSE panicked' = TRUE /\ UNCHANGED head

(* Mutant: the callback asks once more after it has found a result, and    *)
(* the result is still in the slot.                                        *)
HandleWholeScanCallback_Repeats ==
    /\ token /\ ~panicked
    /\ IF Poll
       THEN /\ UNCHANGED <<token, slot, dropped>>
            /\ IF slot.some
               THEN \E len \in Lengths : ApplyDirectDelta(len)
               ELSE UNCHANGED <<head, panicked, applied>>
       ELSE ScheduleIdle /\ UNCHANGED <<head, slot, panicked, applied>>
    /\ UNCHANGED <<pristine, gen, scan, others>>

HandleWholeScanCallback ==
    /\ token /\ ~panicked
    /\ IF Poll
       THEN /\ token' = FALSE /\ slot' = NoResult /\ UNCHANGED dropped
            /\ IF slot.some
               THEN \E len \in Lengths : ApplyDirectDelta(len)
               ELSE UNCHANGED <<head, panicked, applied>>
       ELSE ScheduleIdle /\ UNCHANGED <<head, slot, panicked, applied>>
    /\ UNCHANGED <<pristine, gen, scan, others>>

----------------------------------------------------------------------------
ThreadStep(g) ==
    \/ FirstCheck(g) \/ Compute(g) \/ ComputePanics(g) \/ SecondCheck(g) \/ Deposit(g)

Next ==
    \/ BeginAsyncReindent \/ HandleWholeScanCallback
    \/ \E len \in Lengths : ClientEdit(len) \/ PluginEdit(len) \/ Reload(len)
    \/ \E g \in Gens : ThreadStep(g)

Spec == Init /\ [][Next]_vars

(* The idle queue is served, so that the callback finds a result that is   *)
(* there, and threads run to their end.                                    *)
FairSpec ==
    /\ Spec
    /\ WF_vars(Poll /\ HandleWholeScanCallback)
    /\ \A g \in Gens : WF_vars(ThreadStep(g))

----------------------------------------------------------------------------
(* Properties *)

(* A thread has a snapshot, and then a delta or none. *)
Scans ==
    [pc : {"none", "gone", "panicked"}]
    \cup [pc : {"first", "compute"}, base : Texts]
    \cup [pc : {"second", "deposit"}, base : Texts, some : BOOLEAN]

(* Every variable has its type. *)
TypeOK ==
    /\ head \in Texts /\ pristine \in Revs
    /\ gen \in 0 .. MaxGen
    /\ slot \in {NoResult} \cup [gen : Gens, base : Texts, some : BOOLEAN]
    /\ scan \in [Gens -> Scans]
    /\ token \in BOOLEAN /\ panicked \in BOOLEAN /\ dropped \in BOOLEAN
    /\ others \subseteq Revs
    /\ applied \in Seq([gen : Gens, base : Texts, onto : Texts])

(* A reindent is applied at most once, and never after a newer one, though *)
(* superseded threads deposit late and tokens are lost (start_reindent,    *)
(* poll).                                                                  *)
AppliedInOrder ==
    /\ TypeOK
    /\ \A i, j \in DOMAIN applied : i < j => applied[i].gen < applied[j].gen

(* A delta is applied to the very text it was computed for, or a plugin or *)
(* a reload has changed the text meanwhile: neither the client nor another *)
(* reindent can, even when the token was lost and the delta lay in the     *)
(* slot.  In particular no edit of the client makes edit_rev panic         *)
(* (apply_direct_delta).                                                   *)
FreshUnlessOthers ==
    \A i \in DOMAIN applied :
        LET a == applied[i]
        IN a.base # a.onto => \E r \in others : a.base.rev < r /\ r <= a.onto.rev

(* The callback stops asking, and lets the client have its turn, unless the *)
(* thread it waits for has panicked, or a token was refused before, after  *)
(* which a superseded thread may overwrite the result it waits for         *)
(* (apply_whole_scan_result).                                              *)
ScanEnds ==
    token ~> (~token \/ panicked \/ dropped \/ (gen > 0 /\ scan[gen].pc = "panicked"))

=============================================================================
