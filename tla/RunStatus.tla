------------------------------ MODULE RunStatus ------------------------------
(***************************************************************************)
(* The run statuses HCP Terraform reports and the sets hcptf/client.go     *)
(* sorts them into.  "pending" stands for every status before the plan has *)
(* ended (pending, fetching, plan_queued, planning, ...): no predicate of  *)
(* the client is true of any of them.                                      *)
(***************************************************************************)

RunStatuses ==
    {"pending", "planned", "planned_and_finished", "policy_checked",
     "policy_soft_failed", "policy_override", "apply_queued", "applying",
     "applied", "errored", "canceled", "discarded"}

\* The empty string waitForRunStatus returns with an error.
NoStatus == ""

IsPlanTerminal(s) == s \in RunStatuses \ {"pending"}

IsPlanPassedStatus(s) ==
    s \in {"planned", "policy_soft_failed", "policy_checked",
           "policy_override", "planned_and_finished"}

IsApplyInProgress(s) == s \in {"apply_queued", "applying", "applied"}

IsApplyTerminal(s) ==
    s \in {"applied", "errored", "canceled", "discarded",
           "planned_and_finished"}
-----------------------------------------------------------------------------
(* A coarser view, for the modules that look at a run from outside: what    *)
(* matters there is whether it can still create resources, and what         *)
(* TriggerRun may report of it.                                             *)

RunPhases == {"planning", "planned", "applying", "applied", "errored",
              "stopped"}

Over == {"applied", "errored", "stopped"}

Phase(s) ==
    CASE s = "pending" -> "planning"
      [] s \in {"planned", "policy_checked", "policy_soft_failed",
                "policy_override"} -> "planned"
      [] s \in {"apply_queued", "applying"} -> "applying"
      [] s \in {"canceled", "discarded", "planned_and_finished"} -> "stopped"
      [] OTHER -> s

\* The phases a run may move to.
NextPhases(p) ==
    CASE p = "planning" -> {"planned", "errored", "stopped"}
      [] p = "planned"  -> {"applying", "stopped"}
      [] p = "applying" -> Over
      [] OTHER          -> {}

\* What FinalStatus of TriggerRun's result may be when it returns from a run in
\* phase p: nothing, when a read failed or the deadline passed; a final phase,
\* if it is the run's; "planned", if the run got that far; and "applying" only
\* when the caller wants no apply.
FinalPhases(needsApply, p) ==
    {f \in RunPhases \cup {NoStatus} :
        \/ f = NoStatus
        \/ f = p /\ p \in Over
        \/ f = "planned" /\ p # "planning"
        \/ f = "applying" /\ ~needsApply /\ p \in Over \cup {"applying"}}
=============================================================================
