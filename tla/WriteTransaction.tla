-------------------------- MODULE WriteTransaction --------------------------
(***************************************************************************)
(* The revision-bound write transaction of the agent orchestrator          *)
(* (ee-agent-orchestrator/src/write_transaction.rs).  The host performs    *)
(* the reads, the writes and the measurements and reports them; the        *)
(* transaction decides what they are worth.  Here the workspace moves on   *)
(* its own (the user edits, the host writes) and a report may have been    *)
(* taken at any revision the workspace has had, so evidence may be stale,  *)
(* incomplete, repeated or about other paths.  A call in the wrong state,  *)
(* or with a malformed source, is an error that changes nothing: it is a   *)
(* stuttering step.                                                        *)
(***************************************************************************)
EXTENDS Integers, Sequences, FiniteSets

CONSTANTS
  Paths,        \* the planned paths
  Others,       \* paths outside the transaction that evidence may name
  MaxRev,       \* bound: revisions of one path
  MaxOutcomes   \* bound: previews or apply outcomes in one call

ASSUME PathsAssumption == Paths # {} /\ Paths \intersect Others = {}
ASSUME BoundsAssumption == MaxRev \in Nat \ {0} /\ MaxOutcomes \in Nat

VARIABLES
  rev,          \* the workspace: revision of every planned path
  ws,           \*   and the revision of the whole, moved by each change
  state,        \* WriteTransactionState
  expected,     \* expected_sources: path -> revision declared at begin
  reads,        \* history: the observations record_read_revisions accepted
  previews,     \* history: the previews record_preview accepted
  approval,     \* "none", "approved", "denied" or "blank" (no approval id)
  applies,      \* the recorded apply outcomes, in the order reported
  changed,      \* changed_paths
  post,         \* post_write_workspace_revision; None for none
  diagnostics, diff, validation,  \* recorded evidence; NoEvidence for none
  safety,       \* rollback_safety: the revision it names; None for none
  report        \* the last completion report, as constrained

workspace == <<rev, ws>>
plan      == <<expected, reads, previews, approval>>
written   == <<applies, changed, post>>
evidence  == <<diagnostics, diff, validation>>
vars      == <<workspace, state, plan, written, evidence, safety, report>>

-----------------------------------------------------------------------------
None == 0

AllPaths  == Paths \union Others
Revisions == 1..MaxRev

Open     == {"AwaitingRead", "AwaitingPreview", "AwaitingApproval",
             "AwaitingApply", "AwaitingDiagnostics", "AwaitingFinalDiff",
             "AwaitingValidation"}
States   == Open \union {"Verified", "Blocked", "Unverified", "RolledBack"}
Reports  == {"none", "verified", "unverified", "blocked"}

(* BufferOwnership; a clean buffer must be owned "clean" (validate_source),*)
(* a dirty one may name any owner.                                         *)
Owners      == {"clean", "agent", "user", "unknown"}
Buffers     == {b \in [dirty : BOOLEAN, owner : Owners] :
                  ~b.dirty => b.owner = "clean"}
BlocksMutation(b) == b.dirty /\ b.owner \in {"user", "unknown"}

(* What the host may report.  "confirmed" is an apply that reports the     *)
(* path's new revision, "unconfirmed" one that says applied without it.    *)
Reads    == [rev : Revisions, buffer : Buffers]
Previews == [path : AllPaths, rev : Revisions, summary : BOOLEAN]
Outcomes == [path : AllPaths, rev : Revisions,
             result : {"confirmed", "unconfirmed", "failed"}, owned : BOOLEAN]
UpTo(S)  == UNION {[1..n -> S] : n \in 0..MaxOutcomes}

Evidence   == [rev : Nat, passed : BOOLEAN]
NoEvidence == [rev |-> None, passed |-> FALSE]

WorkspaceRevisions == 1..ws

-----------------------------------------------------------------------------
(* WriteTransaction::begin; the declared revisions are those of a plan,    *)
(* which the workspace may already have left behind.                       *)
Init ==
  /\ rev \in [Paths -> Revisions]
  /\ expected \in [Paths -> Revisions]
  /\ \A p \in Paths : expected[p] <= rev[p]
  /\ ws = 1
  /\ state = "AwaitingRead"
  /\ reads = {} /\ previews = {}
  /\ approval = "none"
  /\ applies = <<>> /\ changed = {} /\ post = None
  /\ diagnostics = NoEvidence /\ diff = NoEvidence /\ validation = NoEvidence
  /\ safety = None
  /\ report = "none"

(* The user, or the host applying what was approved, changes a file. *)
PathChanges(p) ==
  /\ rev[p] < MaxRev
  /\ rev' = [rev EXCEPT ![p] = @ + 1]
  /\ ws' = ws + 1
  /\ UNCHANGED <<state, plan, written, evidence, safety, report>>

-----------------------------------------------------------------------------
(* record_read_revisions: exactly the planned paths, each still at its     *)
(* expected revision, none holding unsaved work of the user's.             *)
ReadsAccepted(o) ==
  /\ DOMAIN o = Paths
  /\ \A p \in Paths : o[p].rev = expected[p] /\ ~BlocksMutation(o[p].buffer)

RecordReadRevisions(o) ==
  /\ state = "AwaitingRead"
  /\ state' = IF ReadsAccepted(o) THEN "AwaitingPreview" ELSE "Blocked"
  /\ reads' = IF ReadsAccepted(o)
                THEN {[path |-> p, rev |-> o[p].rev,
                       foreign |-> BlocksMutation(o[p].buffer)] : p \in Paths}
                ELSE reads
  /\ UNCHANGED <<workspace, expected, previews, approval, written, evidence,
                 safety, report>>

(* record_preview: every planned path once, against the revision read. *)
PreviewsAccepted(s) ==
  /\ \A i \in DOMAIN s :
       /\ s[i].path \in Paths
       /\ \A j \in DOMAIN s : s[i].path = s[j].path => i = j
       /\ s[i].rev = expected[s[i].path]
       /\ s[i].summary
  /\ {s[i].path : i \in DOMAIN s} = Paths

RecordPreview(s) ==
  /\ state = "AwaitingPreview"
  /\ state' = IF PreviewsAccepted(s) THEN "AwaitingApproval" ELSE "Blocked"
  /\ previews' = IF PreviewsAccepted(s)
                   THEN {[path |-> s[i].path, rev |-> s[i].rev] :
                           i \in DOMAIN s}
                   ELSE previews
  /\ UNCHANGED <<workspace, expected, reads, approval, written, evidence,
                 safety, report>>

(* record_approval: the answer is kept, whatever it is; an approval        *)
(* without an id blocks like a denial.                                     *)
RecordApproval(answer) ==
  /\ state = "AwaitingApproval"
  /\ approval' = answer
  /\ state' = IF answer = "approved" THEN "AwaitingApply" ELSE "Blocked"
  /\ UNCHANGED <<workspace, expected, reads, previews, written, evidence,
                 safety, report>>

-----------------------------------------------------------------------------
(* record_apply walks the outcomes and stops at the first that is out of   *)
(* scope, repeated, stale or not confirmed.                                *)
InScope(s, i) ==
  /\ s[i].path \in Paths
  /\ \A j \in 1..(i - 1) : s[j].path # s[i].path
  /\ s[i].rev = expected[s[i].path]

Accepted(s, i) == InScope(s, i) /\ s[i].result = "confirmed"

StopsAt(s, i) ==
  /\ ~Accepted(s, i)
  /\ \A j \in 1..(i - 1) : Accepted(s, j)

ChangedBy(s) == {s[i].path : i \in {j \in DOMAIN s : s[j].result # "failed"}}

(* Every outcome is accepted and every planned path is among them. *)
ApplyComplete(s) ==
  /\ \A i \in DOMAIN s : Accepted(s, i)
  /\ {s[i].path : i \in DOMAIN s} = Paths

(* What a blocked apply leaves on record: outcomes up to the one that      *)
(* failed, all of them when paths are missing, and nothing at all when the *)
(* walk stops at an outcome it cannot place.                               *)
RecordedOf(s) ==
  IF \A i \in DOMAIN s : Accepted(s, i) THEN {s}
  ELSE {SubSeq(s, 1, i) : i \in {j \in DOMAIN s : StopsAt(s, j) /\ InScope(s, j)}}

RecordApply(s, r) ==
  /\ state = "AwaitingApply"
  /\ \/ /\ ApplyComplete(s) /\ r # None
        /\ applies' = s /\ changed' = Paths /\ post' = r
        /\ state' = "AwaitingDiagnostics"
     \/ /\ ~ApplyComplete(s) /\ r # None
        /\ \E kept \in RecordedOf(s) :
             applies' = kept /\ changed' = ChangedBy(kept)
        /\ state' = "Blocked"
        /\ UNCHANGED post
     \/ /\ r = None \/ (~ApplyComplete(s) /\ RecordedOf(s) = {})
        /\ state' = "Blocked"
        /\ UNCHANGED written
  /\ UNCHANGED <<workspace, plan, evidence, safety, report>>

-----------------------------------------------------------------------------
(* require_post_write_revision. *)
AtPostWrite(r) == post # None /\ r = post

(* record_diagnostics: measured at the post-write revision, under an       *)
(* evidence id; a regression is recorded and blocks.                       *)
RecordDiagnostics(r, id, regressed) ==
  /\ state = "AwaitingDiagnostics"
  /\ LET recorded == AtPostWrite(r) /\ id
     IN /\ diagnostics' = IF recorded THEN [rev |-> r, passed |-> ~regressed]
                                      ELSE diagnostics
        /\ state' = IF recorded /\ ~regressed THEN "AwaitingFinalDiff"
                                              ELSE "Blocked"
  /\ UNCHANGED <<workspace, plan, written, diff, validation, safety, report>>

(* record_final_diff: also names exactly the applied paths. *)
RecordFinalDiff(r, id, paths, passed) ==
  /\ state = "AwaitingFinalDiff"
  /\ LET recorded == AtPostWrite(r) /\ id /\ paths = changed
     IN /\ diff' = IF recorded THEN [rev |-> r, passed |-> passed] ELSE diff
        /\ state' = IF recorded /\ passed THEN "AwaitingValidation"
                                          ELSE "Blocked"
  /\ UNCHANGED <<workspace, plan, written, diagnostics, validation, safety,
                 report>>

(* record_validation: of this transaction, selected, not denied, at the    *)
(* post-write revision.  A skipped one is recorded and ends unverified, a  *)
(* failed one is not recorded.                                             *)
RecordValidation(r, mine, selected, denied, result) ==
  /\ state = "AwaitingValidation"
  /\ LET usable == mine /\ AtPostWrite(r) /\ selected /\ ~denied
     IN /\ validation' = IF usable /\ result # "failed"
                           THEN [rev |-> r, passed |-> result = "passed"]
                           ELSE validation
        /\ state' = IF ~usable \/ result = "failed" THEN "Blocked"
                    ELSE IF result = "skipped" THEN "Unverified"
                    ELSE "Verified"
  /\ UNCHANGED <<workspace, plan, written, diagnostics, diff, safety, report>>

-----------------------------------------------------------------------------
(* Mutant: a verified transaction may be interrupted too. *)
Interrupt_Verified ==
  /\ state # "RolledBack"
  /\ state' = "Unverified"
  /\ UNCHANGED <<workspace, plan, written, evidence, safety, report>>

(* interrupt: also takes a blocked transaction to unverified. *)
Interrupt ==
  /\ state \notin {"Verified", "RolledBack"}
  /\ state' = "Unverified"
  /\ UNCHANGED <<workspace, plan, written, evidence, safety, report>>

(* Mutant: the revision of the safety check is not compared. *)
PrepareRollback_AnyRevision(r, approved, quiet) ==
  /\ state \in {"Blocked", "Unverified"}
  /\ approved /\ quiet
  /\ applies # <<>>
  /\ \A i \in DOMAIN applies : applies[i].result # "failed" /\ applies[i].owned
  /\ safety' = r
  /\ UNCHANGED <<workspace, state, plan, written, evidence, report>>

(* prepare_rollback: only every write applied and the agent's own. *)
PrepareRollback(r, approved, quiet) ==
  /\ state \in {"Blocked", "Unverified"}
  /\ AtPostWrite(r)
  /\ approved /\ quiet
  /\ applies # <<>>
  /\ \A i \in DOMAIN applies : applies[i].result # "failed" /\ applies[i].owned
  /\ safety' = r
  /\ UNCHANGED <<workspace, state, plan, written, evidence, report>>

(* Mutant: the revision is not compared again. *)
RecordRollback_NoRecheck(current) ==
  /\ safety # None
  /\ state' = "RolledBack"
  /\ UNCHANGED <<workspace, plan, written, evidence, safety, report>>

(* record_rollback compares the safety check with the revision it is       *)
(* given; that this is the revision the workspace has now is the host's    *)
(* duty, and assumed.  The state itself is not asked for.                  *)
RecordRollback(current) ==
  /\ safety # None
  /\ safety = current
  /\ state' = "RolledBack"
  /\ UNCHANGED <<workspace, plan, written, evidence, safety, report>>

(* Mutant: only a blocked transaction lowers a claim. *)
ConstrainCompletion_OnlyBlocked(claim) ==
  /\ report' = IF claim # "verified" \/ state # "Blocked" THEN claim
               ELSE "blocked"
  /\ UNCHANGED <<workspace, state, plan, written, evidence, safety>>

(* constrain_completion: a report that claims verified work is lowered     *)
(* unless the transaction is verified; any other passes as it is.          *)
ConstrainCompletion(claim) ==
  /\ report' = IF claim # "verified" \/ state = "Verified" THEN claim
               ELSE IF state = "Blocked" THEN "blocked" ELSE "unverified"
  /\ UNCHANGED <<workspace, state, plan, written, evidence, safety>>

-----------------------------------------------------------------------------
BeforeApply ==
  \/ \E S \in SUBSET AllPaths : \E o \in [S -> Reads] : RecordReadRevisions(o)
  \/ \E s \in UpTo(Previews) : RecordPreview(s)
  \/ \E answer \in {"approved", "blank", "denied"} : RecordApproval(answer)

AfterApply ==
  \/ \E s \in UpTo(Outcomes), r \in WorkspaceRevisions \union {None} :
       RecordApply(s, r)
  \/ \E r \in WorkspaceRevisions, id, regressed \in BOOLEAN :
       RecordDiagnostics(r, id, regressed)
  \/ \E r \in WorkspaceRevisions, id, passed \in BOOLEAN,
        paths \in SUBSET AllPaths : RecordFinalDiff(r, id, paths, passed)
  \/ \E r \in WorkspaceRevisions \union {None},
        mine, selected, denied \in BOOLEAN,
        result \in {"passed", "failed", "skipped"} :
       RecordValidation(r, mine, selected, denied, result)

Ending ==
  \/ Interrupt
  \/ \E r \in WorkspaceRevisions, approved, quiet \in BOOLEAN :
       PrepareRollback(r, approved, quiet)
  \/ RecordRollback(ws)
  \/ \E claim \in Reports \ {"none"} : ConstrainCompletion(claim)

Next == (\E p \in Paths : PathChanges(p)) \/ BeforeApply \/ AfterApply \/ Ending

Spec == Init /\ [][Next]_vars

-----------------------------------------------------------------------------
(* The evidence each stage really has, judged from the records alone. *)
ReadHeld ==
  /\ {o.path : o \in reads} = Paths
  /\ \A o \in reads : o.rev = expected[o.path] /\ ~o.foreign

PreviewHeld  == previews = {[path |-> p, rev |-> expected[p]] : p \in Paths}
ApprovalHeld == approval = "approved"

ApplyHeld ==
  /\ post # None
  /\ changed = Paths
  /\ \A p \in Paths : \E i \in DOMAIN applies :
       /\ applies[i].path = p
       /\ applies[i].rev = expected[p]
       /\ applies[i].result = "confirmed"

Measured(e) == AtPostWrite(e.rev) /\ e.passed

Stages == {"read", "preview", "approval", "apply", "diagnostics", "diff",
           "validation"}

Held(s) ==
  CASE s = "read"        -> ReadHeld
    [] s = "preview"     -> PreviewHeld
    [] s = "approval"    -> ApprovalHeld
    [] s = "apply"       -> ApplyHeld
    [] s = "diagnostics" -> Measured(diagnostics)
    [] s = "diff"        -> Measured(diff)
    [] s = "validation"  -> Measured(validation)

HeldStages == {s \in Stages : Held(s)}

Outcome == INSTANCE WriteOutcome WITH
  outcome <- CASE state \in Open       -> "open"
               [] state = "Verified"   -> "verified"
               [] state = "RolledBack" -> "rolledBack"
               [] OTHER                -> "failed",
  held    <- HeldStages,
  claimed <- (report = "verified")

(* Every variable of the transaction stays in its type. *)
TypeOK ==
  /\ rev \in [Paths -> Revisions] /\ ws \in Nat \ {0}
  /\ state \in States
  /\ expected \in [Paths -> Revisions]
  /\ reads \in SUBSET [path : Paths, rev : Revisions, foreign : BOOLEAN]
  /\ previews \in SUBSET [path : Paths, rev : Revisions]
  /\ approval \in {"none", "approved", "blank", "denied"}
  /\ applies \in Seq(Outcomes) /\ changed \in SUBSET Paths
  /\ post \in 0..ws
  /\ diagnostics \in Evidence /\ diff \in Evidence /\ validation \in Evidence
  /\ safety \in {None, post}
  /\ report \in Reports

(* A completion report that still claims verified work after               *)
(* constrain_completion rests on a full chain: fresh reads of every        *)
(* planned path, a preview of each against them, an approval, a confirmed  *)
(* apply of each at the revision read, and diagnostics, diff and           *)
(* validation that all passed at the one revision the apply recorded.      *)
ClaimsBacked ==
  report = "verified" => HeldStages = Stages

(* prepare_rollback and record_rollback together: a rollback is recorded   *)
(* only while the workspace is still at the post-write revision, so over   *)
(* no later edit of the user's, and only for writes that were all applied  *)
(* and all the agent's.                                                    *)
RollbackSparesLaterWork ==
  [][state # "RolledBack" /\ state' = "RolledBack" =>
       /\ ws = post
       /\ changed = Paths
       /\ \A i \in DOMAIN applies : applies[i].owned]_vars

(* The transaction implements WriteOutcome: evidence counts only in order, *)
(* no refused, interrupted or rolled back transaction is ever verified,    *)
(* and a verdict is never taken back.                                      *)
ImplementsOutcome == Outcome!Spec
=============================================================================
