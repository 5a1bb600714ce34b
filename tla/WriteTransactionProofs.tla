----------------------- MODULE WriteTransactionProofs -----------------------
(***************************************************************************)
(* What a write transaction guarantees for every plan, workspace and bound *)
(* on the calls: its records keep their types, a verified claim rests on a *)
(* full chain of evidence, a rollback never runs over later work, and the  *)
(* transaction implements WriteOutcome.                                    *)
(***************************************************************************)
EXTENDS WriteTransaction, TLAPS

(* The states that lie behind each stage of the sequence. *)
PastValidation  == {"Verified"}
PastDiff        == {"AwaitingValidation"} \union PastValidation
PastDiagnostics == {"AwaitingFinalDiff"} \union PastDiff
PastApply       == {"AwaitingDiagnostics"} \union PastDiagnostics
PastApproval    == {"AwaitingApply"} \union PastApply
PastPreview     == {"AwaitingApproval"} \union PastApproval
PastRead        == {"AwaitingPreview"} \union PastPreview
OnTrack         == {"AwaitingRead"} \union PastRead

(* While nothing was refused, exactly the stages behind the state are held. *)
Ladder ==
  state \in OnTrack =>
    /\ ReadHeld <=> state \in PastRead
    /\ PreviewHeld <=> state \in PastPreview
    /\ ApprovalHeld <=> state \in PastApproval
    /\ ApplyHeld <=> state \in PastApply
    /\ Measured(diagnostics) <=> state \in PastDiagnostics
    /\ Measured(diff) <=> state \in PastDiff
    /\ Measured(validation) <=> state \in PastValidation

(* A post-write revision exists only after a complete apply, and nothing is *)
(* measured without one.                                                    *)
PostBacked ==
  /\ state \in OnTrack \ PastApply => post = None
  /\ post = None => /\ diagnostics = NoEvidence
                    /\ diff = NoEvidence
                    /\ validation = NoEvidence
  /\ post # None => ApplyHeld

(* A rollback was judged safe for the agent's own writes, off the track. *)
SafetyBacked ==
  safety # None => /\ safety = post
                   /\ state \notin OnTrack
                   /\ \A i \in DOMAIN applies : applies[i].owned

ClaimsVerified == report = "verified" => state = "Verified"

IInv == TypeOK /\ Ladder /\ PostBacked /\ SafetyBacked /\ ClaimsVerified

USE PathsAssumption, BoundsAssumption DEF None

(* Nothing is held at begin: the plan is not empty and nothing is recorded. *)
LEMMA InitIInv == Init => IInv
<1> SUFFICES ASSUME Init PROVE IInv
  OBVIOUS
<1>1. TypeOK
  <2>1. applies \in Seq(Outcomes) /\ changed \in SUBSET Paths
    BY DEF Init
  <2>2. NoEvidence \in Evidence
    BY DEF NoEvidence, Evidence
  <2> QED
    BY <2>1, <2>2, SMTT(20) DEF Init, TypeOK, States, Open, Reports
<1>2. ~ReadHeld /\ ~PreviewHeld /\ ~ApprovalHeld /\ ~ApplyHeld
  BY DEF Init, ReadHeld, PreviewHeld, ApprovalHeld, ApplyHeld
<1>3. /\ ~Measured(diagnostics)
      /\ ~Measured(diff)
      /\ ~Measured(validation)
  BY DEF Init, Measured, AtPostWrite
<1>4. state = "AwaitingRead"
  BY DEF Init
<1>5. Ladder
  BY <1>2, <1>3, <1>4 DEF Ladder, PastRead, PastPreview, PastApproval, PastApply,
     PastDiagnostics, PastDiff, PastValidation
<1>6. PostBacked /\ SafetyBacked /\ ClaimsVerified
  BY DEF Init, PostBacked, SafetyBacked, ClaimsVerified
<1> QED
  BY <1>1, <1>5, <1>6 DEF IInv

-----------------------------------------------------------------------------
(* A step that leaves the track keeps the invariant if it keeps the types   *)
(* and what a post-write revision rests on: a claim of verified work and a  *)
(* safety judgement are of no concern to it.                                *)
LEMMA RefusalKeeps ==
  ASSUME IInv, TypeOK', PostBacked',
         state # "Verified", state' \in {"Blocked", "Unverified"},
         UNCHANGED <<safety, report>>,
         safety # None => UNCHANGED <<applies, post>>
  PROVE  IInv'
<1>1. state' \notin OnTrack
  BY DEF OnTrack, PastRead, PastPreview, PastApproval, PastApply, PastDiagnostics,
     PastDiff, PastValidation
<1>2. Ladder' /\ SafetyBacked'
  BY <1>1 DEF IInv, Ladder, SafetyBacked, OnTrack
<1>3. ClaimsVerified'
  BY DEF IInv, ClaimsVerified
<1> QED
  BY <1>2, <1>3 DEF IInv

(* record_read_revisions keeps the invariant: what it accepts is a fresh    *)
(* read of every planned path.                                              *)
LEMMA ReadKeeps ==
  ASSUME IInv, NEW S \in SUBSET AllPaths, NEW o \in [S -> Reads],
         RecordReadRevisions(o)
  PROVE  IInv'
<1>1. UNCHANGED <<workspace, expected, previews, approval, written, evidence,
                  safety, report>>
  BY DEF RecordReadRevisions
<1>2. CASE ReadsAccepted(o)
  <2>1. DOMAIN o = Paths /\ S = Paths
    BY <1>2 DEF ReadsAccepted
  <2>2. \A p \in Paths : o[p].rev = expected[p] /\ ~BlocksMutation(o[p].buffer)
    BY <1>2 DEF ReadsAccepted
  <2>3. reads' = {[path |-> p, rev |-> o[p].rev,
                   foreign |-> BlocksMutation(o[p].buffer)] : p \in Paths}
    BY <1>2 DEF RecordReadRevisions
  <2>4. state = "AwaitingRead" /\ state' = "AwaitingPreview"
    BY <1>2 DEF RecordReadRevisions
  <2>5. \A p \in Paths : o[p].rev \in Revisions
    BY <2>1 DEF Reads
  <2>6. \A p \in Paths : BlocksMutation(o[p].buffer) \in BOOLEAN
    BY DEF BlocksMutation
  <2>7. reads' \in SUBSET [path : Paths, rev : Revisions, foreign : BOOLEAN]
    BY <2>3, <2>5, <2>6
  <2>8. TypeOK'
    BY <1>1, <2>4, <2>7 DEF IInv, TypeOK, States, Open, workspace, written, evidence
  <2>9. ReadHeld'
    <3>1. {q.path : q \in reads'} = Paths
      <4> DEFINE R(p) == [path |-> p, rev |-> o[p].rev,
                          foreign |-> BlocksMutation(o[p].buffer)]
      <4>1. \A p \in Paths : R(p).path = p
        OBVIOUS
      <4>2. reads' = {R(p) : p \in Paths}
        BY <2>3
      <4> HIDE DEF R
      <4> QED
        BY <4>1, <4>2
    <3>2. ASSUME NEW q \in reads'
          PROVE  q.rev = expected[q.path] /\ ~q.foreign
      <4>1. PICK p \in Paths : q = [path |-> p, rev |-> o[p].rev,
                                    foreign |-> BlocksMutation(o[p].buffer)]
        BY <2>3
      <4>2. q.path = p /\ q.rev = o[p].rev /\ q.foreign = BlocksMutation(o[p].buffer)
        BY <4>1
      <4> QED
        BY <2>2, <4>2
    <3> QED
      BY <1>1, <3>1, <3>2 DEF ReadHeld
  <2>10. Ladder'
    BY <1>1, <2>4, <2>9 DEF IInv, Ladder, PreviewHeld, ApprovalHeld, ApplyHeld,
       Measured, AtPostWrite, OnTrack, PastRead, PastPreview, PastApproval, PastApply,
       PastDiagnostics, PastDiff, PastValidation, written, evidence
  <2>11. (PostBacked /\ SafetyBacked /\ ClaimsVerified)'
    BY <1>1, <2>4 DEF IInv, PostBacked, SafetyBacked, ClaimsVerified, ApplyHeld,
       OnTrack, PastRead, PastPreview, PastApproval, PastApply,
       PastDiagnostics, PastDiff, PastValidation, written, evidence
  <2> QED
    BY <2>8, <2>10, <2>11 DEF IInv
<1>3. CASE ~ReadsAccepted(o)
  <2>1. state = "AwaitingRead" /\ state' = "Blocked" /\ reads' = reads
    BY <1>3 DEF RecordReadRevisions
  <2>2. TypeOK'
    BY <1>1, <2>1 DEF IInv, TypeOK, States, Open, workspace, written, evidence
  <2>3. PostBacked'
    BY <1>1, <2>1 DEF IInv, PostBacked, ApplyHeld, OnTrack, PastRead, PastPreview,
       PastApproval, PastApply, PastDiagnostics, PastDiff, PastValidation, written,
       evidence
  <2> QED
    BY <1>1, <2>1, <2>2, <2>3, RefusalKeeps DEF written
<1> QED
  BY <1>2, <1>3

(* record_preview keeps the invariant: what it accepts previews every       *)
(* planned path once, against the revision read.                            *)
LEMMA PreviewKeeps ==
  ASSUME IInv, NEW s \in UpTo(Previews), RecordPreview(s)
  PROVE  IInv'
<1>1. UNCHANGED <<workspace, expected, reads, approval, written, evidence,
                  safety, report>>
  BY DEF RecordPreview
<1>2. CASE PreviewsAccepted(s)
  <2>1. state = "AwaitingPreview" /\ state' = "AwaitingApproval"
    BY <1>2 DEF RecordPreview
  <2>2. previews' = {[path |-> s[i].path, rev |-> s[i].rev] : i \in DOMAIN s}
    BY <1>2 DEF RecordPreview
  <2>3. /\ \A i \in DOMAIN s : s[i].path \in Paths /\ s[i].rev = expected[s[i].path]
        /\ {s[i].path : i \in DOMAIN s} = Paths
    BY <1>2 DEF PreviewsAccepted
  <2>4. PreviewHeld'
    <3>1. previews' = {[path |-> p, rev |-> expected[p]] : p \in Paths}
      BY <2>2, <2>3
    <3> QED
      BY <1>1, <3>1 DEF PreviewHeld
  <2>5. \A p \in Paths : expected[p] \in Revisions
    BY DEF IInv, TypeOK
  <2>6. previews' \in SUBSET [path : Paths, rev : Revisions]
    BY <1>1, <2>4, <2>5 DEF PreviewHeld
  <2>7. TypeOK'
    BY <1>1, <2>1, <2>6 DEF IInv, TypeOK, States, Open, workspace, written, evidence
  <2>8. Ladder'
    BY <1>1, <2>1, <2>4 DEF IInv, Ladder, ReadHeld, ApprovalHeld, ApplyHeld,
       Measured, AtPostWrite, OnTrack, PastRead, PastPreview, PastApproval, PastApply,
       PastDiagnostics, PastDiff, PastValidation, written, evidence
  <2>9. (PostBacked /\ SafetyBacked /\ ClaimsVerified)'
    BY <1>1, <2>1 DEF IInv, PostBacked, SafetyBacked, ClaimsVerified, ApplyHeld,
       OnTrack, PastRead, PastPreview, PastApproval, PastApply,
       PastDiagnostics, PastDiff, PastValidation, written, evidence
  <2> QED
    BY <2>7, <2>8, <2>9 DEF IInv
<1>3. CASE ~PreviewsAccepted(s)
  <2>1. state = "AwaitingPreview" /\ state' = "Blocked" /\ previews' = previews
    BY <1>3 DEF RecordPreview
  <2>2. TypeOK'
    BY <1>1, <2>1 DEF IInv, TypeOK, States, Open, workspace, written, evidence
  <2>3. PostBacked'
    BY <1>1, <2>1 DEF IInv, PostBacked, ApplyHeld, OnTrack, PastRead, PastPreview,
       PastApproval, PastApply, PastDiagnostics, PastDiff, PastValidation, written,
       evidence
  <2> QED
    BY <1>1, <2>1, <2>2, <2>3, RefusalKeeps DEF written
<1> QED
  BY <1>2, <1>3

(* record_approval keeps the invariant, whatever the answer. *)
LEMMA ApprovalKeeps ==
  ASSUME IInv, NEW answer \in {"approved", "blank", "denied"},
         RecordApproval(answer)
  PROVE  IInv'
<1>1. /\ UNCHANGED <<workspace, expected, reads, previews, written, evidence,
                     safety, report>>
      /\ state = "AwaitingApproval" /\ approval' = answer
  BY DEF RecordApproval
<1>2. state' = IF answer = "approved" THEN "AwaitingApply" ELSE "Blocked"
  BY DEF RecordApproval
<1>3. TypeOK'
  BY <1>1, <1>2 DEF IInv, TypeOK, States, Open, workspace, written, evidence
<1>4. PostBacked'
  BY <1>1, <1>2 DEF IInv, PostBacked, ApplyHeld, OnTrack, PastRead, PastPreview,
     PastApproval, PastApply, PastDiagnostics, PastDiff, PastValidation, written,
     evidence
<1>5. CASE answer = "approved"
  <2>1. Ladder'
    BY <1>1, <1>2, <1>5 DEF IInv, Ladder, ReadHeld, PreviewHeld, ApprovalHeld,
       ApplyHeld, Measured, AtPostWrite, OnTrack, PastRead, PastPreview, PastApproval,
       PastApply, PastDiagnostics, PastDiff, PastValidation, written, evidence
  <2>2. (SafetyBacked /\ ClaimsVerified)'
    BY <1>1, <1>2, <1>5 DEF IInv, SafetyBacked, ClaimsVerified, OnTrack, PastRead,
       PastPreview, PastApproval, PastApply, PastDiagnostics, PastDiff,
       PastValidation, written
  <2> QED
    BY <1>3, <1>4, <2>1, <2>2 DEF IInv
<1>6. CASE answer # "approved"
  BY <1>1, <1>2, <1>3, <1>4, <1>6, RefusalKeeps DEF written
<1> QED
  BY <1>5, <1>6

-----------------------------------------------------------------------------
(* record_apply keeps the invariant: a post-write revision is recorded only *)
(* with a confirmed outcome for every planned path, and what a refused      *)
(* apply leaves on record names planned paths only.                         *)
LEMMA ApplyKeeps ==
  ASSUME IInv, NEW s \in UpTo(Outcomes),
         NEW r \in WorkspaceRevisions \union {None}, RecordApply(s, r)
  PROVE  IInv'
<1>1. /\ UNCHANGED <<workspace, plan, evidence, safety, report>>
      /\ state = "AwaitingApply"
  BY DEF RecordApply
<1>2. /\ post = None /\ safety = None
      /\ diagnostics = NoEvidence /\ diff = NoEvidence /\ validation = NoEvidence
  BY <1>1 DEF IInv, PostBacked, SafetyBacked, OnTrack, PastRead, PastPreview,
     PastApproval, PastApply, PastDiagnostics, PastDiff, PastValidation
<1>3. PICK n \in Nat : s \in [1..n -> Outcomes]
  BY DEF UpTo
<1>4. s \in Seq(Outcomes) /\ Len(s) = n /\ DOMAIN s = 1..n
  BY <1>3
<1>5. CASE /\ ApplyComplete(s) /\ r # None
           /\ applies' = s /\ changed' = Paths /\ post' = r
           /\ state' = "AwaitingDiagnostics"
  <2>1. r \in 1..ws /\ ws \in Nat
    BY <1>5 DEF WorkspaceRevisions, IInv, TypeOK
  <2>2. TypeOK'
    BY <1>1, <1>2, <1>4, <1>5, <2>1
       DEF IInv, TypeOK, States, Open, workspace, plan, evidence
  <2>3. ApplyHeld'
    <3> SUFFICES ASSUME NEW p \in Paths
                 PROVE  \E i \in DOMAIN s : /\ s[i].path = p
                                            /\ s[i].rev = expected[p]
                                            /\ s[i].result = "confirmed"
      BY <1>1, <1>5 DEF ApplyHeld, plan
    <3>1. PICK i \in DOMAIN s : s[i].path = p
      BY <1>5 DEF ApplyComplete
    <3>2. Accepted(s, i)
      BY <1>5 DEF ApplyComplete
    <3> QED
      BY <3>1, <3>2 DEF Accepted, InScope
  <2>4. ~Measured(diagnostics)' /\ ~Measured(diff)' /\ ~Measured(validation)'
    BY <1>1, <1>2 DEF Measured, evidence, NoEvidence
  <2>5. Ladder'
    BY <1>1, <1>5, <2>3, <2>4 DEF IInv, Ladder, ReadHeld, PreviewHeld, ApprovalHeld,
       OnTrack, PastRead, PastPreview, PastApproval, PastApply, PastDiagnostics,
       PastDiff, PastValidation, plan
  <2>6. PostBacked'
    BY <1>5, <2>3 DEF PostBacked, OnTrack, PastRead, PastPreview, PastApproval,
       PastApply, PastDiagnostics, PastDiff, PastValidation
  <2>7. SafetyBacked' /\ ClaimsVerified'
    BY <1>1, <1>2 DEF IInv, SafetyBacked, ClaimsVerified
  <2> QED
    BY <2>2, <2>5, <2>6, <2>7 DEF IInv
<1>6. CASE /\ \E kept \in RecordedOf(s) : applies' = kept /\ changed' = ChangedBy(kept)
           /\ state' = "Blocked" /\ post' = post
  <2>1. PICK kept \in RecordedOf(s) : applies' = kept /\ changed' = ChangedBy(kept)
    BY <1>6
  <2>2. /\ kept \in Seq(Outcomes)
        /\ \A j \in DOMAIN kept : kept[j].path \in Paths
    <3>1. CASE \A i \in DOMAIN s : Accepted(s, i)
      <4>1. kept = s
        BY <2>1, <3>1 DEF RecordedOf
      <4> QED
        BY <1>4, <3>1, <4>1 DEF Accepted, InScope
    <3>2. CASE ~(\A i \in DOMAIN s : Accepted(s, i))
      <4>1. PICK i \in DOMAIN s : /\ StopsAt(s, i) /\ InScope(s, i)
                                  /\ kept = SubSeq(s, 1, i)
        BY <2>1, <3>2 DEF RecordedOf
      <4>2. i \in 1..Len(s)
        BY <1>4
      <4>3. /\ kept \in Seq(Outcomes) /\ DOMAIN kept = 1..i
            /\ \A j \in 1..i : kept[j] = s[j]
        BY <1>4, <4>1, <4>2
      <4>4. \A j \in 1..i : s[j].path \in Paths
        BY <4>1, <4>2 DEF StopsAt, Accepted, InScope
      <4> QED
        BY <4>3, <4>4
    <3> QED
      BY <3>1, <3>2
  <2>3. changed' \in SUBSET Paths
    BY <2>1, <2>2 DEF ChangedBy
  <2>4. TypeOK'
    BY <1>1, <1>2, <1>6, <2>1, <2>2, <2>3
       DEF IInv, TypeOK, States, Open, workspace, plan, evidence
  <2>5. PostBacked'
    BY <1>1, <1>2, <1>6 DEF PostBacked, evidence, OnTrack, PastRead, PastPreview,
       PastApproval, PastApply, PastDiagnostics, PastDiff, PastValidation
  <2> QED
    BY <1>1, <1>2, <1>6, <2>4, <2>5, RefusalKeeps
<1>7. CASE state' = "Blocked" /\ UNCHANGED written
  <2>1. TypeOK'
    BY <1>1, <1>7 DEF IInv, TypeOK, States, Open, workspace, plan, written, evidence
  <2>2. PostBacked'
    BY <1>1, <1>2, <1>7 DEF PostBacked, evidence, written, OnTrack, PastRead,
       PastPreview, PastApproval, PastApply, PastDiagnostics, PastDiff, PastValidation
  <2> QED
    BY <1>1, <1>2, <1>7, <2>1, <2>2, RefusalKeeps
<1> QED
  BY <1>5, <1>6, <1>7 DEF RecordApply

(* record_diagnostics keeps the invariant: diagnostics count only at the    *)
(* post-write revision and without a regression.                            *)
LEMMA DiagnosticsKeeps ==
  ASSUME IInv, NEW r \in WorkspaceRevisions, NEW id \in BOOLEAN,
         NEW regressed \in BOOLEAN, RecordDiagnostics(r, id, regressed)
  PROVE  IInv'
<1> DEFINE recorded == AtPostWrite(r) /\ id
<1>1. /\ UNCHANGED <<workspace, plan, written, diff, validation, safety, report>>
      /\ state = "AwaitingDiagnostics"
      /\ diagnostics' = IF recorded THEN [rev |-> r, passed |-> ~regressed]
                        ELSE diagnostics
      /\ state' = IF recorded /\ ~regressed THEN "AwaitingFinalDiff" ELSE "Blocked"
  BY DEF RecordDiagnostics
<1>2. r \in Nat /\ ws \in Nat
  BY DEF WorkspaceRevisions, IInv, TypeOK
<1>3. diagnostics' \in Evidence
  BY <1>1, <1>2 DEF IInv, TypeOK, Evidence
<1>4. TypeOK'
  BY <1>1, <1>3 DEF IInv, TypeOK, States, Open, workspace, plan, written
<1>5. post # None /\ ApplyHeld
  BY <1>1 DEF IInv, Ladder, ApplyHeld, OnTrack, PastRead, PastPreview, PastApproval,
     PastApply, PastDiagnostics, PastDiff, PastValidation
<1>6. PostBacked'
  BY <1>1, <1>5 DEF PostBacked, ApplyHeld, written, plan, OnTrack, PastRead,
     PastPreview, PastApproval, PastApply, PastDiagnostics, PastDiff, PastValidation
<1>7. CASE recorded /\ ~regressed
  <2>1. Measured(diagnostics)'
    BY <1>1, <1>7 DEF Measured, AtPostWrite, written
  <2>2. Ladder'
    BY <1>1, <1>7, <2>1 DEF IInv, Ladder, ReadHeld, PreviewHeld, ApprovalHeld,
       ApplyHeld, Measured, AtPostWrite, OnTrack, PastRead, PastPreview, PastApproval,
       PastApply, PastDiagnostics, PastDiff, PastValidation, written, plan
  <2>3. SafetyBacked' /\ ClaimsVerified'
    BY <1>1, <1>7 DEF IInv, SafetyBacked, ClaimsVerified, OnTrack, PastRead,
       PastPreview, PastApproval, PastApply, PastDiagnostics, PastDiff, PastValidation
  <2> QED
    BY <1>4, <1>6, <2>2, <2>3 DEF IInv
<1>8. CASE ~(recorded /\ ~regressed)
  BY <1>1, <1>4, <1>6, <1>8, RefusalKeeps DEF written
<1> QED
  BY <1>7, <1>8

(* record_final_diff keeps the invariant: a diff counts only at the         *)
(* post-write revision and for the paths applied.                           *)
LEMMA FinalDiffKeeps ==
  ASSUME IInv, NEW r \in WorkspaceRevisions, NEW id \in BOOLEAN,
         NEW passed \in BOOLEAN, NEW paths \in SUBSET AllPaths,
         RecordFinalDiff(r, id, paths, passed)
  PROVE  IInv'
<1> DEFINE recorded == AtPostWrite(r) /\ id /\ paths = changed
<1>1. /\ UNCHANGED <<workspace, plan, written, diagnostics, validation, safety,
                     report>>
      /\ state = "AwaitingFinalDiff"
      /\ diff' = IF recorded THEN [rev |-> r, passed |-> passed] ELSE diff
      /\ state' = IF recorded /\ passed THEN "AwaitingValidation" ELSE "Blocked"
  BY DEF RecordFinalDiff
<1>2. r \in Nat /\ ws \in Nat
  BY DEF WorkspaceRevisions, IInv, TypeOK
<1>3. diff' \in Evidence
  BY <1>1, <1>2 DEF IInv, TypeOK, Evidence
<1>4. TypeOK'
  BY <1>1, <1>3 DEF IInv, TypeOK, States, Open, workspace, plan, written
<1>5. post # None /\ ApplyHeld
  BY <1>1 DEF IInv, Ladder, ApplyHeld, OnTrack, PastRead, PastPreview, PastApproval,
     PastApply, PastDiagnostics, PastDiff, PastValidation
<1>6. PostBacked'
  BY <1>1, <1>5 DEF PostBacked, ApplyHeld, written, plan, OnTrack, PastRead,
     PastPreview, PastApproval, PastApply, PastDiagnostics, PastDiff, PastValidation
<1>7. CASE recorded /\ passed
  <2>1. Measured(diff)'
    BY <1>1, <1>7 DEF Measured, AtPostWrite, written
  <2>2. Ladder'
    BY <1>1, <1>7, <2>1 DEF IInv, Ladder, ReadHeld, PreviewHeld, ApprovalHeld,
       ApplyHeld, Measured, AtPostWrite, OnTrack, PastRead, PastPreview, PastApproval,
       PastApply, PastDiagnostics, PastDiff, PastValidation, written, plan
  <2>3. SafetyBacked' /\ ClaimsVerified'
    BY <1>1, <1>7 DEF IInv, SafetyBacked, ClaimsVerified, OnTrack, PastRead,
       PastPreview, PastApproval, PastApply, PastDiagnostics, PastDiff, PastValidation
  <2> QED
    BY <1>4, <1>6, <2>2, <2>3 DEF IInv
<1>8. CASE ~(recorded /\ passed)
  BY <1>1, <1>4, <1>6, <1>8, RefusalKeeps DEF written
<1> QED
  BY <1>7, <1>8

(* record_validation keeps the invariant: the verdict needs a validation    *)
(* that passed at the post-write revision.                                  *)
LEMMA ValidationKeeps ==
  ASSUME IInv, NEW r \in WorkspaceRevisions \union {None}, NEW mine \in BOOLEAN,
         NEW selected \in BOOLEAN, NEW denied \in BOOLEAN,
         NEW result \in {"passed", "failed", "skipped"},
         RecordValidation(r, mine, selected, denied, result)
  PROVE  IInv'
<1> DEFINE usable == mine /\ AtPostWrite(r) /\ selected /\ ~denied
<1>1. /\ UNCHANGED <<workspace, plan, written, diagnostics, diff, safety, report>>
      /\ state = "AwaitingValidation"
      /\ validation' = IF usable /\ result # "failed"
                       THEN [rev |-> r, passed |-> result = "passed"]
                       ELSE validation
      /\ state' = IF ~usable \/ result = "failed" THEN "Blocked"
                  ELSE IF result = "skipped" THEN "Unverified" ELSE "Verified"
  BY DEF RecordValidation
<1>2. r \in Nat /\ ws \in Nat
  BY DEF WorkspaceRevisions, IInv, TypeOK
<1>3. validation' \in Evidence
  BY <1>1, <1>2 DEF IInv, TypeOK, Evidence
<1>4. TypeOK'
  BY <1>1, <1>3 DEF IInv, TypeOK, States, Open, workspace, plan, written
<1>5. post # None /\ ApplyHeld
  BY <1>1 DEF IInv, Ladder, ApplyHeld, OnTrack, PastRead, PastPreview, PastApproval,
     PastApply, PastDiagnostics, PastDiff, PastValidation
<1>6. PostBacked'
  BY <1>1, <1>5 DEF PostBacked, ApplyHeld, written, plan, OnTrack, PastRead,
     PastPreview, PastApproval, PastApply, PastDiagnostics, PastDiff, PastValidation
<1>7. CASE usable /\ result = "passed"
  <2>1. Measured(validation)'
    BY <1>1, <1>7 DEF Measured, AtPostWrite, written
  <2>2. Ladder'
    BY <1>1, <1>7, <2>1 DEF IInv, Ladder, ReadHeld, PreviewHeld, ApprovalHeld,
       ApplyHeld, Measured, AtPostWrite, OnTrack, PastRead, PastPreview, PastApproval,
       PastApply, PastDiagnostics, PastDiff, PastValidation, written, plan
  <2>3. SafetyBacked' /\ ClaimsVerified'
    BY <1>1, <1>7 DEF IInv, SafetyBacked, ClaimsVerified, OnTrack, PastRead,
       PastPreview, PastApproval, PastApply, PastDiagnostics, PastDiff, PastValidation
  <2> QED
    BY <1>4, <1>6, <2>2, <2>3 DEF IInv
<1>8. CASE ~(usable /\ result = "passed")
  BY <1>1, <1>4, <1>6, <1>8, RefusalKeeps DEF written
<1> QED
  BY <1>7, <1>8

-----------------------------------------------------------------------------
(* The workspace moves on: no record depends on where it is now. *)
LEMMA WorkspaceKeeps ==
  ASSUME IInv, NEW p \in Paths, PathChanges(p)
  PROVE  IInv'
<1>1. UNCHANGED <<state, plan, written, evidence, safety, report>>
  BY DEF PathChanges
<1>2. rev' \in [Paths -> Revisions]
  BY DEF PathChanges, IInv, TypeOK, Revisions
<1>3. ws' \in Nat \ {0} /\ ws' = ws + 1 /\ post \in 0..ws /\ ws \in Nat
  BY DEF PathChanges, IInv, TypeOK
<1>4. post \in 0..ws'
  BY <1>3
<1>5. TypeOK'
  BY <1>1, <1>2, <1>3, <1>4 DEF IInv, TypeOK, plan, written, evidence
<1> QED
  BY <1>1, <1>5 DEF IInv, Ladder, PostBacked, SafetyBacked, ClaimsVerified, ReadHeld,
     PreviewHeld, ApprovalHeld, ApplyHeld, Measured, AtPostWrite, OnTrack, PastRead,
     PastPreview, PastApproval, PastApply, PastDiagnostics, PastDiff, PastValidation,
     plan, written, evidence

(* interrupt, prepare_rollback, record_rollback and constrain_completion    *)
(* keep the invariant: none of them touches a record of the writes, and     *)
(* none returns to the track.                                               *)
LEMMA EndingKeeps ==
  ASSUME IInv, Ending
  PROVE  IInv'
<1>1. CASE Interrupt
  <2>1. /\ UNCHANGED <<workspace, plan, written, evidence, safety, report>>
        /\ state # "Verified" /\ state' = "Unverified"
    BY <1>1 DEF Interrupt
  <2>2. TypeOK'
    BY <2>1 DEF IInv, TypeOK, States, Open, workspace, plan, written, evidence
  <2>3. PostBacked'
    BY <2>1 DEF IInv, PostBacked, ApplyHeld, plan, written, evidence, OnTrack,
       PastRead, PastPreview, PastApproval, PastApply, PastDiagnostics, PastDiff,
       PastValidation
  <2> QED
    BY <2>1, <2>2, <2>3, RefusalKeeps DEF written
<1>2. ASSUME NEW r \in WorkspaceRevisions, NEW approved \in BOOLEAN,
             NEW quiet \in BOOLEAN, PrepareRollback(r, approved, quiet)
      PROVE  IInv'
  <2>1. /\ UNCHANGED <<workspace, state, plan, written, evidence, report>>
        /\ state \in {"Blocked", "Unverified"} /\ safety' = post /\ post # None
        /\ \A i \in DOMAIN applies : applies[i].owned
    BY <1>2 DEF PrepareRollback, AtPostWrite
  <2>2. TypeOK'
    BY <2>1 DEF IInv, TypeOK, workspace, plan, written, evidence
  <2>3. Ladder' /\ PostBacked' /\ ClaimsVerified'
    BY <2>1 DEF IInv, Ladder, PostBacked, ClaimsVerified, ReadHeld, PreviewHeld,
       ApprovalHeld, ApplyHeld, Measured, AtPostWrite, plan, written, evidence
  <2>4. SafetyBacked'
    BY <2>1 DEF SafetyBacked, written, OnTrack, PastRead, PastPreview, PastApproval,
       PastApply, PastDiagnostics, PastDiff, PastValidation
  <2> QED
    BY <2>2, <2>3, <2>4 DEF IInv
<1>3. CASE RecordRollback(ws)
  <2>1. /\ UNCHANGED <<workspace, plan, written, evidence, safety, report>>
        /\ safety # None /\ state' = "RolledBack"
    BY <1>3 DEF RecordRollback
  <2>2. state \notin OnTrack /\ state' \notin OnTrack
    BY <2>1 DEF IInv, SafetyBacked, OnTrack, PastRead, PastPreview, PastApproval,
       PastApply, PastDiagnostics, PastDiff, PastValidation
  <2>3. TypeOK'
    BY <2>1 DEF IInv, TypeOK, States, workspace, plan, written, evidence
  <2>4. Ladder' /\ SafetyBacked'
    BY <2>1, <2>2 DEF IInv, Ladder, SafetyBacked, written, OnTrack
  <2>5. PostBacked'
    BY <2>1, <2>2 DEF IInv, PostBacked, ApplyHeld, plan, written, evidence, OnTrack,
       PastApply
  <2>6. ClaimsVerified'
    BY <2>1, <2>2 DEF IInv, ClaimsVerified, OnTrack, PastRead, PastPreview,
       PastApproval, PastApply, PastDiagnostics, PastDiff, PastValidation
  <2> QED
    BY <2>3, <2>4, <2>5, <2>6 DEF IInv
<1>4. ASSUME NEW claim \in Reports \ {"none"}, ConstrainCompletion(claim)
      PROVE  IInv'
  <2>1. /\ UNCHANGED <<workspace, state, plan, written, evidence, safety>>
        /\ report' \in Reports
        /\ report' = "verified" => state = "Verified"
    BY <1>4 DEF ConstrainCompletion, Reports
  <2> QED
    BY <2>1 DEF IInv, TypeOK, Ladder, PostBacked, SafetyBacked, ClaimsVerified,
       ReadHeld, PreviewHeld, ApprovalHeld, ApplyHeld, Measured, AtPostWrite, OnTrack,
       PastRead, PastPreview, PastApproval, PastApply, PastDiagnostics, PastDiff,
       PastValidation, workspace, plan, written, evidence
<1> QED
  BY <1>1, <1>2, <1>3, <1>4 DEF Ending

LEMMA StepKeeps == IInv /\ [Next]_vars => IInv'
<1> SUFFICES ASSUME IInv, [Next]_vars PROVE IInv'
  OBVIOUS
<1>1. CASE \E p \in Paths : PathChanges(p)
  BY <1>1, WorkspaceKeeps
<1>2. CASE BeforeApply
  BY <1>2, ReadKeeps, PreviewKeeps, ApprovalKeeps DEF BeforeApply
<1>3. CASE AfterApply
  BY <1>3, ApplyKeeps, DiagnosticsKeeps, FinalDiffKeeps, ValidationKeeps
     DEF AfterApply
<1>4. CASE Ending
  BY <1>4, EndingKeeps
<1>5. CASE UNCHANGED vars
  BY <1>5 DEF IInv, TypeOK, Ladder, PostBacked, SafetyBacked, ClaimsVerified,
     ReadHeld, PreviewHeld, ApprovalHeld, ApplyHeld, Measured, AtPostWrite, OnTrack,
     PastRead, PastPreview, PastApproval, PastApply, PastDiagnostics, PastDiff,
     PastValidation, vars, workspace, plan, written, evidence
<1> QED
  BY <1>1, <1>2, <1>3, <1>4, <1>5 DEF Next

(* The strengthened invariant holds in every reachable state. *)
LEMMA Invariance == Spec => []IInv
  BY InitIInv, StepKeeps, PTL DEF Spec

-----------------------------------------------------------------------------
(* Every record of a write transaction keeps its type, whatever the host    *)
(* reports and in whatever order.                                           *)
THEOREM TypeCorrect == Spec => []TypeOK
<1>1. IInv => TypeOK
  BY DEF IInv
<1> QED
  BY <1>1, Invariance, PTL

(* A completion report that constrain_completion leaves at "verified" rests *)
(* on a full chain of fresh evidence: of every planned path's read,         *)
(* preview, approval and confirmed apply, and of diagnostics, diff and      *)
(* validation that passed at the one post-write revision.                   *)
THEOREM VerifiedClaimsBacked == Spec => []ClaimsBacked
<1>1. IInv => ClaimsBacked
  BY DEF IInv, ClaimsVerified, Ladder, ClaimsBacked, HeldStages, Held, Stages, OnTrack, PastRead,
     PastPreview, PastApproval, PastApply, PastDiagnostics, PastDiff, PastValidation
<1> QED
  BY <1>1, Invariance, PTL

(* A rollback is recorded only over the agent's own, completely applied     *)
(* writes, and only while the workspace has not moved since.                *)
THEOREM RollbackIsSafe == Spec => RollbackSparesLaterWork
<1> DEFINE Safe == state # "RolledBack" /\ state' = "RolledBack" =>
                     /\ ws = post
                     /\ changed = Paths
                     /\ \A i \in DOMAIN applies : applies[i].owned
<1>1. IInv /\ [Next]_vars => [Safe]_vars
  <2> SUFFICES ASSUME IInv, Next, state # "RolledBack", state' = "RolledBack"
               PROVE  Safe
    OBVIOUS
  <2>1. ~BeforeApply
    BY DEF BeforeApply, RecordReadRevisions, RecordPreview, RecordApproval
  <2>2. ~AfterApply
    BY DEF AfterApply, RecordApply, RecordDiagnostics, RecordFinalDiff,
       RecordValidation
  <2>3. RecordRollback(ws)
    BY <2>1, <2>2 DEF Next, Ending, PathChanges, Interrupt, PrepareRollback,
       ConstrainCompletion
  <2>4. safety # None /\ safety = ws
    BY <2>3 DEF RecordRollback
  <2> QED
    BY <2>4 DEF IInv, SafetyBacked, PostBacked, ApplyHeld
<1> QED
  BY <1>1, Invariance, PTL DEF Spec, RollbackSparesLaterWork

-----------------------------------------------------------------------------
(* The transaction implements WriteOutcome.                                 *)

(* The stages held, one by one. *)
LEMMA HeldByName ==
  /\ Held("read") <=> ReadHeld
  /\ Held("preview") <=> PreviewHeld
  /\ Held("approval") <=> ApprovalHeld
  /\ Held("apply") <=> ApplyHeld
  /\ Held("diagnostics") <=> Measured(diagnostics)
  /\ Held("diff") <=> Measured(diff)
  /\ Held("validation") <=> Measured(validation)
BY DEF Held

(* A step that neither wins nor loses a stage leaves the set of stages held *)
(* as it is.                                                                *)
LEMMA SameHeld ==
  ASSUME ReadHeld' <=> ReadHeld, PreviewHeld' <=> PreviewHeld,
         ApprovalHeld' <=> ApprovalHeld, ApplyHeld' <=> ApplyHeld,
         Measured(diagnostics)' <=> Measured(diagnostics),
         Measured(diff)' <=> Measured(diff),
         Measured(validation)' <=> Measured(validation)
  PROVE  HeldStages' = HeldStages
<1> SUFFICES ASSUME NEW s \in Stages PROVE Held(s)' <=> Held(s)
  BY DEF HeldStages, Stages
<1> QED
  BY DEF Stages, Held

LEMMA FrameHeld ==
  ASSUME UNCHANGED <<plan, written, evidence>>
  PROVE  HeldStages' = HeldStages
BY SameHeld DEF ReadHeld, PreviewHeld, ApprovalHeld, ApplyHeld, Measured, AtPostWrite,
   plan, written, evidence

(* On the track the set of stages held is what WriteOutcome lets be held    *)
(* before the next one.                                                     *)
HeldMatches ==
  /\ state = "AwaitingRead" => HeldStages = {}
  /\ state = "AwaitingPreview" => HeldStages = {"read"}
  /\ state = "AwaitingApproval" => HeldStages = {"read", "preview"}
  /\ state = "AwaitingApply" => HeldStages = {"read", "preview", "approval"}
  /\ state = "AwaitingDiagnostics" =>
       HeldStages = {"read", "preview", "approval", "apply"}
  /\ state = "AwaitingFinalDiff" =>
       HeldStages = {"read", "preview", "approval", "apply", "diagnostics"}
  /\ state = "AwaitingValidation" => HeldStages = Stages \ {"validation"}
  /\ state = "Verified" => HeldStages = Stages

LEMMA HeldOnTrack == IInv => HeldMatches
<1> SUFFICES ASSUME IInv PROVE HeldMatches
  OBVIOUS
<1>1. state \in OnTrack =>
        /\ Held("read") <=> state \in PastRead
        /\ Held("preview") <=> state \in PastPreview
        /\ Held("approval") <=> state \in PastApproval
        /\ Held("apply") <=> state \in PastApply
        /\ Held("diagnostics") <=> state \in PastDiagnostics
        /\ Held("diff") <=> state \in PastDiff
        /\ Held("validation") <=> state \in PastValidation
  BY HeldByName DEF IInv, Ladder
<1> QED
  BY <1>1 DEF HeldMatches, HeldStages, Stages, OnTrack, PastRead, PastPreview,
     PastApproval, PastApply, PastDiagnostics, PastDiff, PastValidation

(* A refused call gains and loses no stage. *)
LEMMA RefusalHolds ==
  ASSUME IInv, Next, state \in Open, state' \in {"Blocked", "Unverified"}
  PROVE  HeldStages' = HeldStages /\ report' = report
<1> USE DEF OnTrack, PastRead, PastPreview, PastApproval, PastApply, PastDiagnostics,
            PastDiff, PastValidation
<1>1. CASE \E p \in Paths : PathChanges(p)
  BY <1>1 DEF PathChanges, Open
<1>2. CASE BeforeApply
  <2>1. UNCHANGED <<expected, written, evidence, report>> /\ state' = "Blocked"
    BY <1>2 DEF BeforeApply, RecordReadRevisions, RecordPreview, RecordApproval
  <2>2. ReadHeld' <=> ReadHeld
    BY <1>2, <2>1 DEF BeforeApply, RecordReadRevisions, RecordPreview, RecordApproval,
       ReadHeld
  <2>3. PreviewHeld' <=> PreviewHeld
    BY <1>2, <2>1 DEF BeforeApply, RecordReadRevisions, RecordPreview, RecordApproval,
       PreviewHeld
  <2>4. ApprovalHeld' <=> ApprovalHeld
    BY <1>2, <2>1 DEF BeforeApply, RecordReadRevisions, RecordPreview, RecordApproval,
       ApprovalHeld, IInv, Ladder
  <2>5. /\ ApplyHeld' <=> ApplyHeld
        /\ Measured(diagnostics)' <=> Measured(diagnostics)
        /\ Measured(diff)' <=> Measured(diff)
        /\ Measured(validation)' <=> Measured(validation)
    BY <2>1 DEF ApplyHeld, Measured, AtPostWrite, written, evidence
  <2> QED
    BY <2>1, <2>2, <2>3, <2>4, <2>5, SameHeld
<1>3. CASE AfterApply
  <2>1. UNCHANGED <<plan, report>>
    BY <1>3 DEF AfterApply, RecordApply, RecordDiagnostics, RecordFinalDiff,
       RecordValidation
  <2>2. /\ ReadHeld' <=> ReadHeld
        /\ PreviewHeld' <=> PreviewHeld
        /\ ApprovalHeld' <=> ApprovalHeld
    BY <2>1 DEF ReadHeld, PreviewHeld, ApprovalHeld, plan
  <2>3. CASE state = "AwaitingApply"
    <3>1. post = None /\ post' = None /\ UNCHANGED evidence
      BY <1>3, <2>3 DEF AfterApply, RecordApply, RecordDiagnostics, RecordFinalDiff,
         RecordValidation, IInv, PostBacked, written
    <3>2. /\ ~ApplyHeld /\ ~ApplyHeld'
          /\ ~Measured(diagnostics) /\ ~Measured(diagnostics)'
          /\ ~Measured(diff) /\ ~Measured(diff)'
          /\ ~Measured(validation) /\ ~Measured(validation)'
      BY <3>1 DEF ApplyHeld, Measured, AtPostWrite
    <3> QED
      BY <2>1, <2>2, <3>2, SameHeld
  <2>4. CASE state # "AwaitingApply"
    <3>1. UNCHANGED written
      BY <1>3, <2>4 DEF AfterApply, RecordApply, RecordDiagnostics, RecordFinalDiff,
         RecordValidation
    <3>2. ApplyHeld' <=> ApplyHeld
      BY <2>1, <3>1 DEF ApplyHeld, plan, written
    <3>3. Measured(diagnostics)' <=> Measured(diagnostics)
      <4>1. CASE state = "AwaitingDiagnostics"
        <5>1. ~Measured(diagnostics)
          BY <4>1 DEF IInv, Ladder
        <5>2. PICK r \in WorkspaceRevisions, id \in BOOLEAN, regressed \in BOOLEAN :
                RecordDiagnostics(r, id, regressed)
          BY <1>3, <4>1 DEF AfterApply, RecordApply, RecordFinalDiff, RecordValidation
        <5>3. diagnostics' = diagnostics \/ diagnostics' = [rev |-> r, passed |-> FALSE]
          BY <5>2 DEF RecordDiagnostics
        <5> QED
          BY <3>1, <5>1, <5>3 DEF Measured, AtPostWrite, written
      <4>2. CASE state # "AwaitingDiagnostics"
        BY <1>3, <2>4, <3>1, <4>2 DEF AfterApply, RecordApply, RecordDiagnostics,
           RecordFinalDiff, RecordValidation, Measured, AtPostWrite, written
      <4> QED
        BY <4>1, <4>2
    <3>4. Measured(diff)' <=> Measured(diff)
      BY <1>3, <2>4, <3>1 DEF AfterApply, RecordApply, RecordDiagnostics,
         RecordFinalDiff, RecordValidation, IInv, Ladder, Measured, AtPostWrite, written
    <3>5. Measured(validation)' <=> Measured(validation)
      BY <1>3, <2>4, <3>1 DEF AfterApply, RecordApply, RecordDiagnostics,
         RecordFinalDiff, RecordValidation, IInv, Ladder, Measured, AtPostWrite, written
    <3> QED
      BY <2>1, <2>2, <3>2, <3>3, <3>4, <3>5, SameHeld
  <2> QED
    BY <2>3, <2>4
<1>4. CASE Ending
  <2>1. UNCHANGED <<plan, written, evidence, report>>
    BY <1>4 DEF Ending, Interrupt, PrepareRollback, RecordRollback,
       ConstrainCompletion, Open
  <2> QED
    BY <2>1, FrameHeld
<1> QED
  BY <1>1, <1>2, <1>3, <1>4 DEF Next

(* A call that advances along the track is a Gather step.                   *)
LEMMA AdvanceGathers ==
  ASSUME IInv, IInv', Next, state \in Open, state' \in OnTrack, state' # state
  PROVE  \E s \in Outcome!Stages : Outcome!Gather(s)
<1>1. /\ report' = report
      /\ \/ state = "AwaitingRead" /\ state' = "AwaitingPreview"
         \/ state = "AwaitingPreview" /\ state' = "AwaitingApproval"
         \/ state = "AwaitingApproval" /\ state' = "AwaitingApply"
         \/ state = "AwaitingApply" /\ state' = "AwaitingDiagnostics"
         \/ state = "AwaitingDiagnostics" /\ state' = "AwaitingFinalDiff"
         \/ state = "AwaitingFinalDiff" /\ state' = "AwaitingValidation"
         \/ state = "AwaitingValidation" /\ state' = "Verified"
  BY DEF Next, PathChanges, BeforeApply, AfterApply, Ending, RecordReadRevisions,
     RecordPreview, RecordApproval, RecordApply, RecordDiagnostics, RecordFinalDiff,
     RecordValidation, Interrupt, PrepareRollback, RecordRollback,
     ConstrainCompletion, OnTrack, PastRead, PastPreview, PastApproval, PastApply,
     PastDiagnostics, PastDiff, PastValidation
<1>2. HeldMatches /\ HeldMatches'
  BY HeldOnTrack, PTL
<1>3. PICK s \in Stages :
        /\ HeldStages = Outcome!Before(s)
        /\ HeldStages' = HeldStages \union {s}
        /\ s = "validation" <=> state' = "Verified"
  <2>1. CASE state = "AwaitingRead"
    BY <1>1, <1>2, <2>1 DEF HeldMatches, Stages, Outcome!Before
  <2>2. CASE state = "AwaitingPreview"
    BY <1>1, <1>2, <2>2 DEF HeldMatches, Stages, Outcome!Before
  <2>3. CASE state = "AwaitingApproval"
    BY <1>1, <1>2, <2>3 DEF HeldMatches, Stages, Outcome!Before
  <2>4. CASE state = "AwaitingApply"
    BY <1>1, <1>2, <2>4 DEF HeldMatches, Stages, Outcome!Before
  <2>5. CASE state = "AwaitingDiagnostics"
    BY <1>1, <1>2, <2>5 DEF HeldMatches, Stages, Outcome!Before
  <2>6. CASE state = "AwaitingFinalDiff"
    BY <1>1, <1>2, <2>6 DEF HeldMatches, Stages, Outcome!Before
  <2>7. CASE state = "AwaitingValidation"
    BY <1>1, <1>2, <2>7 DEF HeldMatches, Stages, Outcome!Before, Outcome!Stages
  <2> QED
    BY <1>1, <2>1, <2>2, <2>3, <2>4, <2>5, <2>6, <2>7
<1>4. state' \in Open \/ state' = "Verified"
  BY <1>1 DEF Open
<1>5. Outcome!Gather(s)
  BY <1>1, <1>3, <1>4 DEF Outcome!Gather, Open
<1> QED
  BY <1>5 DEF Stages, Outcome!Stages

(* Every step of a write transaction is a step of WriteOutcome, or none.    *)
LEMMA StepSimulates ==
  ASSUME IInv, IInv', [Next]_vars
  PROVE  [Outcome!Next]_(Outcome!absVars)
<1> USE DEF OnTrack, PastRead, PastPreview, PastApproval, PastApply, PastDiagnostics,
            PastDiff, PastValidation
<1>1. CASE state \in Open /\ state' \in OnTrack /\ state' # state /\ Next
  BY <1>1, AdvanceGathers DEF Outcome!Next
<1>2. CASE state \in Open /\ state' \in {"Blocked", "Unverified"} /\ Next
  <2>1. HeldStages' = HeldStages /\ report' = report
    BY <1>2, RefusalHolds
  <2>2. Outcome!Fail
    BY <1>2, <2>1 DEF Outcome!Fail, Open
  <2> QED
    BY <2>2 DEF Outcome!Next
<1>3. CASE BeforeApply \/ AfterApply
  <2>1. /\ state \in Open
        /\ \/ state' \in OnTrack /\ state' # state
           \/ state' \in {"Blocked", "Unverified"}
    BY <1>3 DEF BeforeApply, AfterApply, RecordReadRevisions, RecordPreview,
       RecordApproval, RecordApply, RecordDiagnostics, RecordFinalDiff,
       RecordValidation, Open
  <2> QED
    BY <1>1, <1>2, <1>3, <2>1 DEF Next
<1>4. CASE Interrupt
  <2>1. CASE state \in Open
    <3>1. Next /\ state' = "Unverified"
      BY <1>4 DEF Interrupt, Next, Ending
    <3> QED
      BY <1>2, <2>1, <3>1
  <2>2. CASE state \notin Open
    <3>1. HeldStages' = HeldStages /\ report' = report
      BY <1>4, FrameHeld DEF Interrupt
    <3>2. state \in {"Blocked", "Unverified"} /\ state' = "Unverified"
      BY <1>4, <2>2 DEF Interrupt, IInv, TypeOK, States
    <3> QED
      BY <3>1, <3>2 DEF Outcome!absVars, Open
  <2> QED
    BY <2>1, <2>2
<1>5. CASE RecordRollback(ws)
  <2>1. HeldStages' = HeldStages /\ report' = report
    BY <1>5, FrameHeld DEF RecordRollback
  <2>2. state' = "RolledBack" /\ safety # None
    BY <1>5 DEF RecordRollback
  <2>3. state \in {"Blocked", "Unverified", "RolledBack"} /\ post # None
    BY <2>2 DEF IInv, SafetyBacked, TypeOK, States, Open
  <2>4. "apply" \in HeldStages
    BY <2>3, HeldByName DEF IInv, PostBacked, HeldStages, Stages
  <2>5. CASE state = "RolledBack"
    BY <2>1, <2>2, <2>5 DEF Outcome!absVars, Open
  <2>6. CASE state # "RolledBack"
    <3>1. Outcome!RollBack
      BY <2>1, <2>2, <2>3, <2>4, <2>6 DEF Outcome!RollBack, Open
    <3> QED
      BY <3>1 DEF Outcome!Next
  <2> QED
    BY <2>5, <2>6
<1>6. ASSUME NEW claim \in Reports \ {"none"}, ConstrainCompletion(claim)
      PROVE  Outcome!Report
  <2>1. HeldStages' = HeldStages /\ state' = state
    BY <1>6, FrameHeld DEF ConstrainCompletion
  <2>2. report' = "verified" => state = "Verified"
    BY <1>6 DEF ConstrainCompletion
  <2> QED
    BY <2>1, <2>2 DEF Outcome!Report, Open
<1>7. CASE \/ \E p \in Paths : PathChanges(p)
           \/ \E r \in WorkspaceRevisions, approved, quiet \in BOOLEAN :
                PrepareRollback(r, approved, quiet)
           \/ UNCHANGED vars
  <2>1. UNCHANGED <<plan, written, evidence, state, report>>
    BY <1>7 DEF PathChanges, PrepareRollback, vars
  <2> QED
    BY <2>1, FrameHeld DEF Outcome!absVars
<1> QED
  BY <1>3, <1>4, <1>5, <1>6, <1>7 DEF Next, Ending, Outcome!Next

(* The write transaction implements WriteOutcome: evidence counts only in   *)
(* order, a refused, interrupted or rolled back transaction never becomes   *)
(* verified, and a verdict is never taken back.                             *)
THEOREM Implements == Spec => ImplementsOutcome
<1>1. Init => Outcome!Init
  <2> SUFFICES ASSUME Init PROVE Outcome!Init
    OBVIOUS
  <2>1. HeldStages = {}
    BY InitIInv, HeldOnTrack DEF HeldMatches, Init
  <2>2. state = "AwaitingRead" /\ report = "none"
    BY DEF Init
  <2> QED
    BY <2>1, <2>2 DEF Outcome!Init, Open
<1>2. IInv /\ IInv' /\ [Next]_vars => [Outcome!Next]_(Outcome!absVars)
  BY StepSimulates
<1> QED
  BY <1>1, <1>2, Invariance, PTL DEF Spec, ImplementsOutcome, Outcome!Spec
=============================================================================
