----------------------------- MODULE TriggerRun -----------------------------
(***************************************************************************)
(* One test run on HCP Terraform: Client.TriggerRun of hcptf/client.go     *)
(* after the run is created, against the run it watches, and the           *)
(* evaluation of the result in lifecycle.go.                               *)
(*                                                                         *)
(* The server's actions are external: they are the status changes and the  *)
(* policy outcomes client.go, runner.go and their tests speak of.  Its     *)
(* auto-apply is not fair: without the "apply runs" permission a run stays *)
(* at "planned" (AUTO_APPLY_FIX_SUMMARY.md), which is why the client       *)
(* confirms.  Time is not modelled: the deadline may pass at any moment    *)
(* the client is polling.                                                  *)
(***************************************************************************)
EXTENDS RunStatus, Verdict

CONSTANTS
    Faults,
    CaseExpectations,  \* the expectations of the cases looked at
    StageOutcomes      \* what the server makes of a policy stage

ASSUME BoundsAssumption ==
    CaseExpectations \subseteq Expectations /\ StageOutcomes \subseteq StageResults

\* "read": a status read fails; "log": a log cannot be fetched; "confirm": the
\* answer to an accepted Apply call is lost; "refused": an Apply call fails
\* without effect; "operator": someone cancels or discards the run.
ASSUME FaultsAssumption ==
    Faults \subseteq {"read", "log", "confirm", "refused", "operator"}

VARIABLES
    expectPlan,   \* tc.ExpectPlan
    expectApply,  \* tc.ExpectApply
    status,       \* server: status of the run
    stages,       \* server: result of each policy stage
    planLog,      \* server: the plan log of the run
    planEnd,      \* server: the status the plan ended in
    pc,           \* control point of the client
    expired,      \* time.Now().After(deadline)
    runResult,    \* the RunResult being filled in
    result        \* Got and Match of Plan and Apply in the TestResult

server == <<status, stages, planLog, planEnd>>
expects == <<expectPlan, expectApply>>
vars == <<expects, server, pc, expired, runResult, result>>

NeedsApply == expectApply # "N/A"

Init ==
    /\ expectPlan \in CaseExpectations
    /\ expectApply \in CaseExpectations
    \* NeedsCloudRun
    /\ expectPlan # "N/A" \/ expectApply # "N/A"
    /\ status = "pending"
    \* The init and plan stages are pending, or there are none.
    /\ \E r \in {"idle", "absent"} :
         stages = [s \in StageTypes |-> IF s = "apply" THEN "idle" ELSE r]
    /\ planLog = NoLog
    /\ planEnd = NoStatus
    /\ pc = "pollPlan"
    /\ expired = FALSE
    /\ runResult = [planStatus |-> NoStatus, finalStatus |-> NoStatus,
                    planLog |-> NoLog, applyLog |-> NoLog,
                    policyLog |-> NoLog, err |-> "none"]
    /\ result = [plan  |-> [got |-> "N/A", match |-> TRUE],
                 apply |-> [got |-> "N/A", match |-> TRUE]]

-----------------------------------------------------------------------------
(* The server.                                                             *)

\* A hard policy failure at init or plan: the run never reaches apply.
Blocked(st) == {st["init"], st["plan"]} \cap {"fail", "errored"} # {}

ServerOnly == UNCHANGED <<expects, pc, expired, runResult, result>>

\* The statuses a plan may end in, given the stage results and whether the
\* plan has changes.  Without a hard failure it may still fail by itself.
PlanEndStatuses(st, log) ==
    CASE st["init"] \in {"fail", "errored"} -> {"canceled", "errored"}
      [] /\ st["init"] \notin {"fail", "errored"}
         /\ st["plan"] \in {"fail", "errored"} ->
           {"errored", "policy_soft_failed", "policy_override"}
           \cup IF PlanHadNoChanges(log) THEN {"planned_and_finished"} ELSE {}
      [] OTHER ->
           {"errored"}
           \cup IF PlanHadNoChanges(log) THEN {"planned_and_finished"}
                ELSE {"planned", "policy_checked", "policy_soft_failed"}

\* The plan and its policy stages end.  A hard failure at init cancels the plan:
\* its stage does not run.
PlanEnds ==
    /\ status = "pending"
    /\ \E init, plan \in StageOutcomes \cup {"idle"}, log \in PlanLogs :
         /\ init \in {"fail", "errored"} => plan \in {"idle", "absent"}
         /\ stages' = [stages EXCEPT !["init"] = init, !["plan"] = plan]
         /\ planLog' = log
         /\ status' \in PlanEndStatuses(stages', log)
    /\ planEnd' = status'
    /\ ServerOnly

Confirmable ==
    /\ status \in {"planned", "policy_checked", "policy_soft_failed"}
    /\ ~Blocked(stages)

\* AutoApply: true on the run and on its workspace.
AutoApplies ==
    /\ Confirmable
    /\ status' = "apply_queued"
    /\ UNCHANGED <<stages, planLog, planEnd>>
    /\ ServerOnly

ApplyStarts ==
    /\ status = "apply_queued"
    /\ status' = "applying"
    /\ UNCHANGED <<stages, planLog, planEnd>>
    /\ ServerOnly

\* The apply and its policy stage end.
ApplyEnds ==
    /\ status = "applying"
    /\ status' \in {"applied", "errored"}
    /\ \E r \in StageOutcomes : stages' = [stages EXCEPT !["apply"] = r]
    /\ UNCHANGED <<planLog, planEnd>>
    /\ ServerOnly

OperatorStops ==
    /\ "operator" \in Faults
    /\ ~IsApplyTerminal(status)
    /\ status' \in {"canceled", "discarded"}
    /\ planEnd' = IF status = "pending" THEN status' ELSE planEnd
    /\ UNCHANGED <<stages, planLog>>
    /\ ServerOnly

Server == PlanEnds \/ AutoApplies \/ ApplyStarts \/ ApplyEnds \/ OperatorStops

-----------------------------------------------------------------------------
(* The client.  A read of a status that is not terminal changes nothing and *)
(* is left out.                                                            *)

Polling == pc \in {"pollPlan", "pollApply"}

DeadlinePasses ==
    /\ Polling
    /\ ~expired
    /\ expired' = TRUE
    /\ UNCHANGED <<expects, server, pc, runResult, result>>

\* Mutant: the wait has no deadline.
NoDeadline ==
    /\ Polling
    /\ ~expired
    /\ "read" \in Faults
    /\ runResult' = [runResult EXCEPT !.err = "read", !.finalStatus = NoStatus]
    /\ pc' = "evaluate"
    /\ UNCHANGED <<expects, server, expired, result>>

\* waitForRunStatus gives up: its "" becomes the status of what it waited for.
PollFails ==
    /\ Polling
    /\ \/ expired /\ runResult' = [runResult EXCEPT !.err = "timeout",
                                                    !.finalStatus = NoStatus]
       \/ /\ ~expired
          /\ "read" \in Faults
          /\ runResult' = [runResult EXCEPT !.err = "read",
                                            !.finalStatus = NoStatus]
    /\ pc' = "evaluate"
    /\ UNCHANGED <<expects, server, expired, result>>

PollPlan ==
    /\ pc = "pollPlan"
    /\ ~expired
    /\ IsPlanTerminal(status)
    /\ runResult' = [runResult EXCEPT !.planStatus = status,
                                      !.finalStatus = status]
    /\ pc' = "fetchPlan"
    /\ UNCHANGED <<expects, server, expired, result>>

\* What a fetch returns: the log, or nothing when a request fails.
Fetched(log) == {log} \cup IF "log" \in Faults THEN {NoLog} ELSE {}

FetchPlan ==
    /\ pc = "fetchPlan"
    /\ \E log \in Fetched(planLog) :
         runResult' = [runResult EXCEPT !.planLog = log]
    /\ pc' = "fetchPolicy"
    /\ UNCHANGED <<expects, server, expired, result>>

FetchPolicy ==
    /\ pc = "fetchPolicy"
    /\ \E log \in Fetched(stages) :
         runResult' = [runResult EXCEPT !.policyLog = log]
    /\ pc' = "decide"
    /\ UNCHANGED <<expects, server, expired, result>>

\* The early return on an errored plan with a denial in its log is covered:
\* "errored" is neither passed nor in progress.
GoesToApply ==
    /\ ~PlanPolicyBlocked(runResult.policyLog)
    /\ NeedsApply
    /\ \/ IsPlanPassedStatus(runResult.planStatus)
       \/ IsApplyInProgress(runResult.planStatus)

StopAfterPlan ==
    /\ pc = "decide"
    /\ ~GoesToApply
    /\ pc' = "evaluate"
    /\ UNCHANGED <<expects, server, expired, runResult, result>>

SkipConfirm ==
    /\ pc = "decide"
    /\ GoesToApply
    /\ IsApplyInProgress(runResult.planStatus)
    /\ pc' = "pollApply"
    /\ UNCHANGED <<expects, server, expired, runResult, result>>

\* Runs.Apply.  A run parked by a policy may take the call and not move; any
\* other run that is not waiting for it refuses.  A lost answer reads as an
\* error, and so does a call that never arrives.
Confirm ==
    /\ pc = "decide"
    /\ GoesToApply
    /\ ~IsApplyInProgress(runResult.planStatus)
    /\ \/ /\ Confirmable \/ status \in {"policy_override", "policy_soft_failed"}
          /\ status' = IF Confirmable THEN "apply_queued" ELSE status
          /\ pc' = "pollApply"
          /\ runResult' = runResult
       \/ /\ \/ Confirmable /\ "confirm" \in Faults /\ status' = "apply_queued"
             \/ (~Confirmable \/ "refused" \in Faults) /\ status' = status
          /\ pc' = "evaluate"
          /\ runResult' = [runResult EXCEPT !.err = "confirm"]
    /\ UNCHANGED <<expects, stages, planLog, planEnd, expired, result>>

\* Mutant: the second wait uses the predicate of the first.
PollPlanAgain ==
    /\ pc = "pollApply"
    /\ ~expired
    /\ IsPlanTerminal(status)
    /\ runResult' = [runResult EXCEPT !.finalStatus = status]
    /\ pc' = "refetch"
    /\ UNCHANGED <<expects, server, expired, result>>

PollApply ==
    /\ pc = "pollApply"
    /\ ~expired
    /\ IsApplyTerminal(status)
    /\ runResult' = [runResult EXCEPT !.finalStatus = status]
    /\ pc' = "refetch"
    /\ UNCHANGED <<expects, server, expired, result>>

\* The policy log is read again and replaces the first copy.
Refetch ==
    /\ pc = "refetch"
    /\ \E log \in Fetched(stages) :
         runResult' = [runResult EXCEPT !.policyLog = log]
    /\ pc' = "fetchApply"
    /\ UNCHANGED <<expects, server, expired, result>>

\* Mutant: the log of the plan is fetched in place of the log of the apply.
FetchPlanTwice ==
    /\ pc = "fetchApply"
    /\ \E log \in Fetched(planLog) :
         runResult' = [runResult EXCEPT !.applyLog = log]
    /\ pc' = "evaluate"
    /\ UNCHANGED <<expects, server, expired, result>>

FetchApply ==
    /\ pc = "fetchApply"
    /\ \E log \in Fetched("apply log") :
         runResult' = [runResult EXCEPT !.applyLog = log]
    /\ pc' = "evaluate"
    /\ UNCHANGED <<expects, server, expired, result>>

\* TriggerRun has returned: lifecycle.go classifies both phases.
EvaluatedPlan(hasText) ==
    LET got == ClassifyPlanOutcome(runResult.policyLog, runResult.planStatus)
    IN  [got |-> got, match |-> ExpectationMet(expectPlan, got, hasText)]

EvaluatedApply(hasText) ==
    LET got == ClassifyApplyOutcome(runResult.policyLog, runResult.planLog,
                                    runResult.finalStatus)
    IN  [got |-> got, match |-> ExpectationMet(expectApply, got, hasText)]

Evaluate ==
    /\ pc = "evaluate"
    /\ \E planText \in MayHoldText(runResult.planLog),
          applyText \in MayHoldText(runResult.applyLog) :
         result' =
           [plan  |-> IF expectPlan = "N/A" THEN result.plan
                      ELSE EvaluatedPlan(planText),
            apply |-> IF ~NeedsApply THEN result.apply
                      ELSE EvaluatedApply(applyText \/ planText)]
    /\ pc' = "done"
    /\ UNCHANGED <<expects, server, expired, runResult>>

ClientStep ==
    \/ PollFails
    \/ PollPlan
    \/ FetchPlan
    \/ FetchPolicy
    \/ StopAfterPlan
    \/ SkipConfirm
    \/ Confirm
    \/ PollApply
    \/ Refetch
    \/ FetchApply
    \/ Evaluate

Next == Server \/ DeadlinePasses \/ ClientStep

\* The goroutine is scheduled, every request of it is answered, and time passes.
\* Nothing is assumed of the server.
Fairness == WF_vars(ClientStep) /\ WF_vars(DeadlinePasses)

Spec == Init /\ [][Next]_vars /\ Fairness

-----------------------------------------------------------------------------
(* Properties.                                                             *)

\* The verdict of the case, its L1 level having passed.
Verdict == Overall(FALSE, "PASS", result.plan.match, result.apply.match)

ClientPoints == {"pollPlan", "fetchPlan", "fetchPolicy", "decide", "pollApply",
                 "refetch", "fetchApply", "evaluate", "done"}

\* Types of the variables.
TypeOK ==
    /\ expectPlan \in Expectations /\ expectApply \in Expectations
    /\ status \in RunStatuses
    /\ stages \in PolicyLogs
    /\ planLog \in PlanLogs \cup {NoLog}
    /\ planEnd \in RunStatuses \cup {NoStatus}
    /\ pc \in ClientPoints
    /\ expired \in BOOLEAN
    /\ runResult \in [planStatus : RunStatuses \cup {NoStatus},
                      finalStatus : RunStatuses \cup {NoStatus},
                      planLog : PlanLogs \cup {NoLog},
                      applyLog : ApplyLogs \cup {NoLog},
                      policyLog : PolicyLogs \cup {NoLog},
                      err : {"none", "timeout", "read", "confirm"}]
    /\ result \in [plan  : [got : Gots, match : BOOLEAN],
                   apply : [got : Gots, match : BOOLEAN]]

\* What happened on the server, whatever the client saw of it.
PlanSucceeded == IsPlanPassedStatus(planEnd) /\ ~Blocked(stages)
PlanFailed == planEnd = "errored" \/ Blocked(stages)

\* The stage that governs the outcome of the apply: a plan without changes has
\* none of its own.
ApplyStage == IF status = "applied" THEN stages["apply"] ELSE stages["plan"]
Applied ==
    /\ status \in {"applied", "planned_and_finished"}
    /\ ApplyStage \notin {"fail", "errored"}
AppliedCleanly == Applied /\ ApplyStage # "unknown"

\* What the server did is what the case expects of it.
PlanAsExpected ==
    CASE expectPlan = "PASS"    -> PlanSucceeded /\ stages["plan"] # "unknown"
      [] expectPlan = "UNKNOWN" -> PlanSucceeded
      [] expectPlan \in {"FAIL", "ERROR_CONTAINS"} -> PlanFailed
      [] OTHER -> expectPlan = "N/A"

ApplyAsExpected ==
    CASE expectApply = "PASS"    -> AppliedCleanly
      [] expectApply = "UNKNOWN" -> Applied
      [] expectApply \in {"FAIL", "ERROR_CONTAINS"} -> ~Applied
      [] OTHER -> expectApply = "N/A"

\* classifyPlanOutcome does not look at the status of a run whose policy log has
\* a plan stage without a hard failure, an idle one included: a plan that fails
\* by itself or is canceled reads as PASS or UNKNOWN.
StageHidesStatus ==
    /\ expectPlan \in {"PASS", "UNKNOWN"}
    /\ stages["plan"] \notin {"absent", "fail", "errored"}
    /\ ~IsPlanPassedStatus(planEnd)

\* The auto-apply fails before the first status read: without a plan stage its
\* "errored" is taken for the plan's.
ApplyErrorReadAsPlan ==
    /\ expectPlan \in {"FAIL", "ERROR_CONTAINS"}
    /\ stages["plan"] = "absent"
    /\ IsPlanPassedStatus(planEnd)
    /\ runResult.planStatus = "errored"

\* The confirmation is refused or its answer lost: the status read before it
\* classifies as the failure the case expects.
ConfirmErrorReadAsFailure ==
    /\ expectApply \in {"FAIL", "ERROR_CONTAINS"}
    /\ runResult.err = "confirm"
    /\ runResult.finalStatus # "planned_and_finished"

\* A plan log that was not fetched does not show that there was nothing to do.
LostPlanLogReadAsChanges ==
    /\ expectApply \in {"FAIL", "ERROR_CONTAINS"}
    /\ status = "planned_and_finished"
    /\ stages["plan"] = "absent"
    /\ runResult.planLog = NoLog

\* A case whose policy log was fetched passes because the server did what it
\* expects of both phases, however the deadline, the operator and the auto-apply
\* interleave with the client's reads.  The four ways around it are named.
EarnedPassWithLogs ==
    (pc = "done" /\ Verdict = "PASS" /\ runResult.policyLog # NoLog) =>
        /\ PlanAsExpected \/ StageHidesStatus \/ ApplyErrorReadAsPlan
        /\ ApplyAsExpected \/ ConfirmErrorReadAsFailure
                           \/ LostPlanLogReadAsChanges

\* When TriggerRun returns without an error from a run it had to apply, the run
\* is over: the destroy run and the deletion that follow find nothing that can
\* still create resources.
SettledOnReturn ==
    (pc \in {"evaluate", "done"} /\ NeedsApply /\ runResult.err = "none")
        => IsApplyTerminal(status) \/ Blocked(stages)

\* The plan outcome is that of the policy stages: neither the apply that
\* follows, nor the second copy of the policy log, nor an error while waiting
\* for the apply changes it.
PlanOutcomeKept ==
    (/\ pc = "done" /\ expectPlan # "N/A" /\ runResult.policyLog # NoLog
     /\ Blocked(stages) \/ stages["plan"] # "absent") =>
        result.plan.got =
            IF Blocked(stages) THEN "FAIL"
                   ELSE IF stages["plan"] = "unknown" THEN "UNKNOWN" ELSE "PASS"

\* TriggerRun keeps the contract lifecycle.go relies on.  FinalStatus is mapped
\* when the call has returned: before, nobody sees it.
Contract == INSTANCE RunContract WITH
    needsApply <- NeedsApply,
    run        <- Phase(status),
    returned   <- pc \in {"evaluate", "done"},
    final      <- IF pc \in {"evaluate", "done"}
                  THEN Phase(runResult.finalStatus) ELSE NoStatus

ImplementsContract == Contract!Spec

\* cloud-runner/plan.md:114: `PASS` says that the "policy evaluation passes".  A log that
\* cannot be fetched reads like a run without policies.
PassMeansPolicyPassed ==
    (pc = "done" /\ Verdict = "PASS" /\ expectApply = "PASS")
        => stages["apply"] \notin {"errored", "fail"}

\* cloud-runner/plan.md:115: `FAIL` says that the run is "blocked/errored at that phase".  A
\* confirmation that loses the race with the auto-apply is refused, and the
\* status read before it classifies as the failure.
FailMeansApplyFailed ==
    (pc = "done" /\ Verdict = "PASS" /\ expectApply = "FAIL")
        => ~AppliedCleanly
=============================================================================
