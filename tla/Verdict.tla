------------------------------- MODULE Verdict -------------------------------
(***************************************************************************)
(* How runner.go turns what a run left behind into PASS, FAIL, UNKNOWN or  *)
(* ERROR, and compares that with the expectation of index.yml.             *)
(*                                                                         *)
(* A policy log maps each evaluation stage to what its summary line says:  *)
(*   "absent"   no line for the stage                                      *)
(*   "idle"     all counts zero (pending, unreachable, canceled)           *)
(*   "pass"     nothing but passed and advisory_failed                     *)
(*   "unknown"  unknown > 0, no mandatory_failed, no errored               *)
(*   "errored"  errored > 0, no mandatory_failed                           *)
(*   "fail"     mandatory_failed > 0                                       *)
(* Of a plan log the code asks whether its summary has zero changes, and   *)
(* of both logs whether they hold the text of an ERROR_CONTAINS.           *)
(***************************************************************************)

CONSTANT NoLog   \* the empty string of a log that was not fetched

StageTypes == {"init", "plan", "apply"}
StageResults == {"absent", "idle", "pass", "unknown", "errored", "fail"}

PolicyLogs == [StageTypes -> StageResults]
PlanLogs == {"changes", "no changes"}
ApplyLogs == {"apply log"}

ASSUME NoLogAssumption == NoLog \notin PolicyLogs \cup PlanLogs \cup ApplyLogs

\* index.yml may also hold VALIDATION_ERROR on a cloud level; no outcome meets it.
Expectations == {"PASS", "FAIL", "UNKNOWN", "N/A", "ERROR_CONTAINS",
                 "VALIDATION_ERROR"}
Gots == {"PASS", "FAIL", "UNKNOWN", "ERROR", "N/A"}

PolicyStage(policyLog, stage) ==
    IF policyLog = NoLog THEN "absent" ELSE policyLog[stage]

\* Mutant: an errored policy does not count.
FailedStage(r) ==
    CASE r = "fail"    -> "FAIL"
      [] r = "unknown" -> "UNKNOWN"
      [] OTHER         -> "PASS"

ClassifyPolicyStage(r) ==
    CASE r \in {"fail", "errored"} -> "FAIL"
      [] r = "unknown"             -> "UNKNOWN"
      [] OTHER                     -> "PASS"

\* Mutant: the status of the run decides first.
StatusFirst(policyLog, planStatus) ==
    CASE planStatus = "errored" -> "FAIL"
      [] planStatus \in {"applied", "planned", "planned_and_finished",
           "policy_checked", "policy_soft_failed", "policy_override"} ->
           ClassifyPolicyStage(PolicyStage(policyLog, "plan"))
      [] OTHER -> "ERROR"

\* A hard failure at init comes first, then the plan stage, then the status.
ClassifyPlanOutcome(policyLog, planStatus) ==
    LET init == PolicyStage(policyLog, "init")
        plan == PolicyStage(policyLog, "plan")
    IN  CASE init \in {"fail", "errored"} -> "FAIL"
          [] /\ init \notin {"fail", "errored"}
             /\ plan # "absent"           -> ClassifyPolicyStage(plan)
          [] OTHER ->
               CASE planStatus = "errored" -> "FAIL"
                 [] planStatus \in {"applied", "planned",
                      "planned_and_finished", "policy_checked",
                      "policy_soft_failed", "policy_override"} -> "PASS"
                 [] OTHER -> "ERROR"

PlanHadNoChanges(planLog) == planLog = "no changes"

ClassifyApplyOutcome(policyLog, planLog, finalStatus) ==
    LET plan == PolicyStage(policyLog, "plan")
        apply == PolicyStage(policyLog, "apply")
    IN  CASE finalStatus = "applied" ->
               IF apply # "absent" THEN ClassifyPolicyStage(apply) ELSE "PASS"
          [] finalStatus = "errored" -> "FAIL"
          [] finalStatus = "planned_and_finished" ->
               IF plan # "absent" THEN ClassifyPolicyStage(plan)
               ELSE IF PlanHadNoChanges(planLog) THEN "PASS" ELSE "FAIL"
          [] finalStatus \in {"planned", "policy_checked",
               "policy_soft_failed", "policy_override"} -> "FAIL"
          [] OTHER -> "ERROR"

\* Whether a log may hold the expected text: not when it was not fetched.
MayHoldText(log) == IF log = NoLog THEN {FALSE} ELSE BOOLEAN

\* hasText: the log given to the comparison contains the expected text.
ExpectationMet(expected, got, hasText) ==
    \/ expected = "PASS" /\ got = "PASS"
    \/ expected = "FAIL" /\ got = "FAIL"
    \/ expected = "UNKNOWN" /\ got \in {"UNKNOWN", "PASS"}
    \/ expected = "N/A"
    \/ expected = "ERROR_CONTAINS" /\ got = "FAIL" /\ hasText

\* planPolicyBlocked of client.go looks at mandatory_failed only.  It wants the
\* words "Plan stage" in that spelling where stageHeaderRe ignores case; the
\* server writes them so.
PlanPolicyBlocked(policyLog) == PolicyStage(policyLog, "plan") = "fail"

Overall(fatalErr, policyTest, planMatch, applyMatch) ==
    CASE fatalErr -> "ERROR"
      [] ~fatalErr /\ policyTest \in {"FAIL", "ERROR"} -> "FAIL"
      [] OTHER -> IF planMatch /\ applyMatch THEN "PASS" ELSE "FAIL"
=============================================================================
