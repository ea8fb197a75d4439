------------------------------ MODULE HostedCi -------------------------------
(***************************************************************************)
(* The classification of a job of GitHub-hosted CI from what was observed  *)
(* of it (src/hosted_ci.rs): a pure function of four fields, two of which  *)
(* may be absent.                                                          *)
(***************************************************************************)
EXTENDS Naturals, TLAPS

None == "none"

Conclusions == {"Success", "Failure", "Cancelled", "TimedOut", "Neutral", "Skipped",
                "ActionRequired"}
Hints == {"BudgetExhausted", "QuotaExceeded", "NoEligibleRunner",
          "RunnerProvisioningFailure", "RunnerServiceUnavailable"}

\* GitHub may not have materialized the steps, which counts as no step.
Observations ==
  [status : {"Queued", "InProgress", "Completed"}, conclusion : Conclusions \cup {None},
   materialized : BOOLEAN, step_count : Nat, admission_hint : Hints \cup {None}]

StepCount(o) == IF o.materialized THEN o.step_count ELSE 0

is_failure_like(conclusion) == conclusion \in {"Failure", "TimedOut", "ActionRequired"}

classify(o) ==
  CASE o.status # "Completed" -> "NonTerminal"
    [] o.status = "Completed" /\ o.conclusion = "Cancelled" -> "Cancelled"
    [] OTHER ->
       IF StepCount(o) > 0
       THEN IF o.conclusion = "Success" THEN "StepfulSuccess" ELSE "StepfulFailure"
       ELSE IF is_failure_like(o.conclusion) /\ o.admission_hint # None
            THEN "ZeroStepRunnerAdmissionFailure" ELSE "ZeroStepUnknown"

-----------------------------------------------------------------------------
\* "Zero-step failures ... must never be treated as source-level test evidence or as
\* green": a class that says the source passed or failed needs a finished job of
\* which some step ran, and green needs its success besides.
THEOREM EvidenceNeedsSteps ==
  ASSUME NEW o \in Observations
  PROVE  /\ classify(o) \in {"StepfulSuccess", "StepfulFailure"}
            => o.status = "Completed" /\ o.materialized /\ o.step_count > 0
         /\ classify(o) = "StepfulSuccess" => o.conclusion = "Success"
  BY DEF Observations, classify, StepCount

\* An admission hint excuses a job that never started; it turns no verdict about
\* the source into another, and without one a zero-step failure stays unknown.
THEOREM HintsJudgeNoSource ==
  ASSUME NEW o \in Observations, NEW hint \in Hints \cup {None}
  PROVE  LET hinted == [o EXCEPT !.admission_hint = hint]
             zero == {"ZeroStepRunnerAdmissionFailure", "ZeroStepUnknown"}
         IN /\ classify(hinted) = classify(o) \/ {classify(hinted), classify(o)} \subseteq zero
            /\ hint = None => classify(hinted) # "ZeroStepRunnerAdmissionFailure"
<1> DEFINE hinted == [o EXCEPT !.admission_hint = hint]
<1>1. /\ hinted.status = o.status /\ hinted.conclusion = o.conclusion
      /\ hinted.materialized = o.materialized /\ hinted.step_count = o.step_count
      /\ hinted.admission_hint = hint
  BY DEF Observations
<1>2. StepCount(hinted) = StepCount(o)
  BY <1>1 DEF StepCount
<1> QED BY <1>1, <1>2 DEF classify

\* "`Some(0)` is treated equivalently: no source step executed."
THEOREM NoStepsLikeNone ==
  ASSUME NEW o \in Observations, o.step_count = 0
  PROVE  classify([o EXCEPT !.materialized = FALSE]) = classify([o EXCEPT !.materialized = TRUE])
<1> DEFINE absent == [o EXCEPT !.materialized = FALSE]
           empty == [o EXCEPT !.materialized = TRUE]
<1>1. /\ absent.status = o.status /\ empty.status = o.status
      /\ absent.conclusion = o.conclusion /\ empty.conclusion = o.conclusion
      /\ absent.admission_hint = o.admission_hint /\ empty.admission_hint = o.admission_hint
      /\ empty.step_count = 0
      /\ absent.materialized = FALSE /\ empty.materialized = TRUE
  BY DEF Observations
<1>2. StepCount(absent) = StepCount(empty)
  BY <1>1 DEF StepCount
<1> QED BY <1>1, <1>2 DEF classify
=============================================================================
