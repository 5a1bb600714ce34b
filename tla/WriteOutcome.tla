---------------------------- MODULE WriteOutcome ----------------------------
(***************************************************************************)
(* What a write transaction promises to the completion report that rests   *)
(* on it, without saying how evidence is recorded or refused: evidence is  *)
(* gathered one stage after another, a verdict is final, a rollback undoes *)
(* only writes that were all made, and completion is claimed only for a    *)
(* verified transaction.  WriteTransaction implements this specification.  *)
(***************************************************************************)

VARIABLES
  outcome,    \* "open", "verified", "failed" or "rolledBack"
  held,       \* the stages whose evidence is complete and fresh
  claimed     \* the last completion report claims verified work

absVars == <<outcome, held, claimed>>

Stages == {"read", "preview", "approval", "apply", "diagnostics", "diff",
           "validation"}

(* The stages that must be complete before a stage may be. *)
Before(s) ==
  CASE s = "read"        -> {}
    [] s = "preview"     -> {"read"}
    [] s = "approval"    -> {"read", "preview"}
    [] s = "apply"       -> {"read", "preview", "approval"}
    [] s = "diagnostics" -> {"read", "preview", "approval", "apply"}
    [] s = "diff"        -> {"read", "preview", "approval", "apply",
                             "diagnostics"}
    [] s = "validation"  -> Stages \ {"validation"}

Init ==
  /\ outcome = "open"
  /\ held = {}
  /\ claimed = FALSE

(* The evidence of the next stage is accepted; the last stage is the       *)
(* verdict itself.                                                         *)
Gather(s) ==
  /\ outcome = "open"
  /\ held = Before(s)
  /\ held' = held \union {s}
  /\ outcome' = IF s = "validation" THEN "verified" ELSE "open"
  /\ UNCHANGED claimed

(* Evidence is refused, or the sequence is interrupted. *)
Fail ==
  /\ outcome = "open"
  /\ outcome' = "failed"
  /\ UNCHANGED <<held, claimed>>

(* Only writes that were all made are ever rolled back. *)
RollBack ==
  /\ outcome = "failed"
  /\ "apply" \in held
  /\ outcome' = "rolledBack"
  /\ UNCHANGED <<held, claimed>>

(* A report may claim verified completion of verified work, and less than  *)
(* that of any.                                                            *)
Report ==
  /\ claimed' \in BOOLEAN
  /\ claimed' => outcome = "verified"
  /\ UNCHANGED <<outcome, held>>

Next == (\E s \in Stages : Gather(s)) \/ Fail \/ RollBack \/ Report

Spec == Init /\ [][Next]_absVars
=============================================================================
