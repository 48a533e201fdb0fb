-------------------------- MODULE TriggerRun_proofs --------------------------
(***************************************************************************)
(* What TriggerRun returns, and what a PASS of the case that follows from   *)
(* it says of the run on the server, for every set of faults.               *)
(***************************************************************************)
EXTENDS TriggerRun, TLAPS

\* The server: what the status of the run says of how its plan ended.  A run a
\* policy stopped is never applied.
ServerInv ==
    /\ planEnd = NoStatus <=> status = "pending"
    /\ IsPlanPassedStatus(status) => planEnd = status
    /\ IsApplyInProgress(status) => ~Blocked(stages) /\ IsPlanPassedStatus(planEnd)
    /\ status = "errored" => planEnd = "errored" \/ IsPlanPassedStatus(planEnd)
    /\ status = "planned_and_finished" =>
         stages["init"] \notin {"fail", "errored"} /\ planLog = "no changes"

\* The statuses the client read are of a run that has not moved since, or moved on
\* from there.
StatusInv ==
    /\ runResult.planStatus # NoStatus
         => runResult.planStatus # "pending" /\ status # "pending"
    /\ runResult.finalStatus # NoStatus
         => runResult.finalStatus # "pending" /\ runResult.planStatus # NoStatus
    /\ IsApplyTerminal(runResult.planStatus) => status = runResult.planStatus
    /\ IsApplyTerminal(runResult.finalStatus) => status = runResult.finalStatus
    /\ IsApplyInProgress(runResult.planStatus) =>
         /\ ~Blocked(stages)
         /\ status \in {"apply_queued", "applying", "applied", "errored",
                        "canceled", "discarded"}
    /\ IsPlanPassedStatus(runResult.planStatus) \/ IsApplyInProgress(runResult.planStatus)
         => IsPlanPassedStatus(planEnd)

\* The logs in hand are those of the run, the at_apply stage excepted, which the
\* policy log has when the run it was read of was applied.
LogInv ==
    /\ runResult.planLog # NoLog =>
         runResult.planStatus # NoStatus /\ runResult.planLog = planLog
    /\ runResult.policyLog # NoLog =>
         /\ runResult.planStatus # NoStatus
         /\ runResult.policyLog["init"] = stages["init"]
         /\ runResult.policyLog["plan"] = stages["plan"]
         /\ runResult.finalStatus = "applied" /\ pc # "refetch"
              => runResult.policyLog = stages

\* What each control point of TriggerRun may rely on.
PointInv ==
    /\ pc = "pollPlan" =>
         /\ runResult.planStatus = NoStatus /\ runResult.finalStatus = NoStatus
         /\ runResult.policyLog = NoLog
         /\ runResult.err = "none"
    /\ pc \in {"fetchPlan", "fetchPolicy"} => runResult.policyLog = NoLog
    /\ pc \in {"fetchPlan", "fetchPolicy", "decide", "pollApply"} =>
         /\ runResult.planStatus # NoStatus
         /\ runResult.finalStatus = runResult.planStatus
         /\ runResult.err = "none"
    /\ pc \in {"pollApply", "refetch", "fetchApply"} => NeedsApply
    /\ pc \in {"refetch", "fetchApply"} =>
         /\ IsApplyTerminal(runResult.finalStatus)
         /\ runResult.err = "none"

\* FinalStatus on return.
ReturnInv ==
    pc \in {"evaluate", "done"} =>
        /\ runResult.err \in {"timeout", "read"} => runResult.finalStatus = NoStatus
        /\ runResult.err = "none" =>
             /\ runResult.finalStatus # NoStatus
             /\ NeedsApply => \/ IsApplyTerminal(runResult.finalStatus)
                              \/ Blocked(stages)
        /\ runResult.err = "confirm" =>
             /\ NeedsApply
             /\ IsPlanPassedStatus(runResult.finalStatus)
        /\ IsApplyInProgress(runResult.finalStatus)
             => runResult.finalStatus = "applied" \/ ~NeedsApply
        /\ runResult.finalStatus # NoStatus =>
             \/ IsApplyTerminal(runResult.finalStatus)
             \/ runResult.finalStatus = runResult.planStatus

\* The outcomes in the TestResult; with a text the log may hold at best.
ResultInv ==
    pc = "done" =>
        /\ expectPlan # "N/A" =>
             /\ result.plan.got = ClassifyPlanOutcome(runResult.policyLog,
                                                      runResult.planStatus)
             /\ result.plan.match => ExpectationMet(expectPlan, result.plan.got, TRUE)
        /\ NeedsApply =>
             /\ result.apply.got = ClassifyApplyOutcome(runResult.policyLog,
                                      runResult.planLog, runResult.finalStatus)
             /\ result.apply.match => ExpectationMet(expectApply, result.apply.got, TRUE)

TriggerInv == TypeOK /\ ServerInv /\ StatusInv /\ LogInv /\ PointInv /\ ReturnInv
                     /\ ResultInv

-----------------------------------------------------------------------------
(* The operators of Verdict.                                               *)

LEMMA StageOutcome ==
    ASSUME NEW r
    PROVE  /\ ClassifyPolicyStage(r) \in {"PASS", "FAIL", "UNKNOWN"}
           /\ ClassifyPolicyStage(r) = "FAIL" <=> r \in {"fail", "errored"}
           /\ ClassifyPolicyStage(r) = "UNKNOWN" <=> r = "unknown"
BY DEF ClassifyPolicyStage

LEMMA PlanOutcome ==
    ASSUME NEW log, NEW s
    PROVE  ClassifyPlanOutcome(log, s) \in Gots
<1>1. PolicyStage(log, "init") \in {"fail", "errored"}
        => ClassifyPlanOutcome(log, s) = "FAIL"
  BY DEF ClassifyPlanOutcome
<1>2. PolicyStage(log, "init") \notin {"fail", "errored"}
        /\ PolicyStage(log, "plan") # "absent"
        => ClassifyPlanOutcome(log, s) = ClassifyPolicyStage(PolicyStage(log, "plan"))
  BY DEF ClassifyPlanOutcome
<1>3. PolicyStage(log, "init") \notin {"fail", "errored"}
        /\ PolicyStage(log, "plan") = "absent"
        => ClassifyPlanOutcome(log, s) \in {"FAIL", "PASS", "ERROR"}
  BY DEF ClassifyPlanOutcome
<1> QED BY <1>1, <1>2, <1>3, StageOutcome DEF Gots

LEMMA ApplyOutcome ==
    ASSUME NEW log, NEW plan, NEW s
    PROVE  ClassifyApplyOutcome(log, plan, s) \in Gots
<1> DEFINE P == ClassifyPolicyStage(PolicyStage(log, "plan"))
           A == ClassifyPolicyStage(PolicyStage(log, "apply"))
<1>1. CASE s = "applied"
  <2>1. ClassifyApplyOutcome(log, plan, s) = A \/ ClassifyApplyOutcome(log, plan, s) = "PASS"
    BY <1>1 DEF ClassifyApplyOutcome
  <2> QED BY <2>1, StageOutcome DEF Gots
<1>2. CASE s = "planned_and_finished"
  <2>1. \/ ClassifyApplyOutcome(log, plan, s) = P
        \/ ClassifyApplyOutcome(log, plan, s) \in {"PASS", "FAIL"}
    BY <1>2 DEF ClassifyApplyOutcome
  <2> QED BY <2>1, StageOutcome DEF Gots
<1>3. CASE s \notin {"applied", "planned_and_finished"}
  BY <1>3 DEF ClassifyApplyOutcome, Gots
<1> QED BY <1>1, <1>2, <1>3

LEMMA ExpectationBoolean ==
    ASSUME NEW x, NEW got, NEW hasText \in BOOLEAN
    PROVE  /\ ExpectationMet(x, got, hasText) \in BOOLEAN
           /\ ExpectationMet(x, got, hasText) => ExpectationMet(x, got, TRUE)
BY DEF ExpectationMet

-----------------------------------------------------------------------------
(* Types.                                                                  *)

LEMMA TypesAtFirst == Init => TypeOK
<1> SUFFICES ASSUME Init PROVE TypeOK
  OBVIOUS
<1>1. stages \in PolicyLogs
  BY DEF Init, PolicyLogs, StageTypes, StageResults
<1> USE BoundsAssumption
<1>2. runResult \in [planStatus : RunStatuses \cup {NoStatus},
                     finalStatus : RunStatuses \cup {NoStatus},
                     planLog : PlanLogs \cup {NoLog},
                     applyLog : ApplyLogs \cup {NoLog},
                     policyLog : PolicyLogs \cup {NoLog},
                     err : {"none", "timeout", "read", "confirm"}]
  BY DEF Init
<1>3. result \in [plan  : [got : Gots, match : BOOLEAN],
                  apply : [got : Gots, match : BOOLEAN]]
  BY DEF Init, Gots
<1> QED BY <1>1, <1>2, <1>3 DEF Init, TypeOK, RunStatuses, ClientPoints

LEMMA ServerTypes == TypeOK /\ Server => TypeOK'
<1> SUFFICES ASSUME TypeOK, Server PROVE TypeOK'
  OBVIOUS
<1> USE DEF TypeOK, ServerOnly, expects
<1>1. CASE PlanEnds
  <2>1. stages' \in PolicyLogs /\ planLog' \in PlanLogs
    BY <1>1, BoundsAssumption DEF PlanEnds, PolicyLogs, StageTypes, StageResults
  <2>2. status' \in RunStatuses
    BY <1>1 DEF PlanEnds, PlanEndStatuses, RunStatuses
  <2> QED BY <1>1, <2>1, <2>2 DEF PlanEnds
<1>2. CASE AutoApplies
  BY <1>2 DEF AutoApplies, RunStatuses
<1>3. CASE ApplyStarts
  BY <1>3 DEF ApplyStarts, RunStatuses
<1>4. CASE ApplyEnds
  BY <1>4, BoundsAssumption DEF ApplyEnds, RunStatuses, PolicyLogs, StageTypes, StageResults
<1>5. CASE OperatorStops
  BY <1>5 DEF OperatorStops, RunStatuses
<1> QED BY <1>1, <1>2, <1>3, <1>4, <1>5 DEF Server

LEMMA ClientTypes == TypeOK /\ (ClientStep \/ DeadlinePasses) => TypeOK'
<1> SUFFICES ASSUME TypeOK, ClientStep \/ DeadlinePasses PROVE TypeOK'
  OBVIOUS
<1> USE DEF TypeOK, expects, server, ClientPoints
<1>1. CASE DeadlinePasses
  BY <1>1 DEF DeadlinePasses
<1>2. CASE PollFails
  BY <1>2 DEF PollFails
<1>3. CASE PollPlan
  BY <1>3 DEF PollPlan
<1>4. CASE FetchPlan
  BY <1>4 DEF FetchPlan, Fetched
<1>5. CASE FetchPolicy
  BY <1>5 DEF FetchPolicy, Fetched
<1>6. CASE StopAfterPlan
  BY <1>6 DEF StopAfterPlan
<1>7. CASE SkipConfirm
  BY <1>7 DEF SkipConfirm
<1>8. CASE Confirm
  BY <1>8 DEF Confirm, RunStatuses
<1>9. CASE PollApply
  BY <1>9 DEF PollApply
<1>10. CASE Refetch
  BY <1>10 DEF Refetch, Fetched
<1>11. CASE FetchApply
  <2>1. PICK log \in Fetched("apply log") :
          runResult' = [runResult EXCEPT !.applyLog = log]
    BY <1>11 DEF FetchApply
  <2>2. log \in ApplyLogs \cup {NoLog}
    BY DEF Fetched, ApplyLogs
  <2> QED BY <1>11, <2>1, <2>2 DEF FetchApply
<1>12. CASE Evaluate
  <2>1. PICK planText \in MayHoldText(runResult.planLog),
             applyText \in MayHoldText(runResult.applyLog) :
          result' = [plan  |-> IF expectPlan = "N/A" THEN result.plan
                               ELSE EvaluatedPlan(planText),
                     apply |-> IF ~NeedsApply THEN result.apply
                               ELSE EvaluatedApply(applyText \/ planText)]
    BY <1>12 DEF Evaluate
  <2>2. planText \in BOOLEAN /\ applyText \in BOOLEAN
    BY DEF MayHoldText
  <2>3. EvaluatedPlan(planText) \in [got : Gots, match : BOOLEAN]
    BY <2>2, PlanOutcome, ExpectationBoolean DEF EvaluatedPlan
  <2>4. EvaluatedApply(applyText \/ planText) \in [got : Gots, match : BOOLEAN]
    <3> DEFINE t == applyText \/ planText
    <3>1. t \in BOOLEAN
      BY <2>2
    <3> HIDE DEF t
    <3>2. EvaluatedApply(t) \in [got : Gots, match : BOOLEAN]
      BY <3>1, ApplyOutcome, ExpectationBoolean DEF EvaluatedApply
    <3> QED BY <3>2 DEF t
  <2>5. result' \in [plan  : [got : Gots, match : BOOLEAN],
                     apply : [got : Gots, match : BOOLEAN]]
    BY <2>1, <2>3, <2>4
  <2> QED BY <1>12, <2>5 DEF Evaluate
<1> QED BY <1>1, <1>2, <1>3, <1>4, <1>5, <1>6, <1>7, <1>8, <1>9, <1>10, <1>11, <1>12
        DEF ClientStep

LEMMA TypesKept == TypeOK /\ [Next]_vars => TypeOK'
<1>1. TypeOK /\ UNCHANGED vars => TypeOK'
  BY DEF TypeOK, vars, expects, server
<1> QED BY <1>1, ServerTypes, ClientTypes DEF Next

\* Every variable of TriggerRun keeps its type.
THEOREM TriggerTypes == Spec => []TypeOK
BY TypesAtFirst, TypesKept, PTL DEF Spec

-----------------------------------------------------------------------------
(* The inductive invariant.                                                *)

\* The predicates on statuses, all of whose values are known.
LEMMA StatusFacts ==
    ASSUME NEW s
    PROVE  /\ IsPlanTerminal(s) <=> s \in RunStatuses /\ s # "pending"
           /\ IsApplyTerminal(s) => s \notin {"pending", NoStatus} /\ s \in RunStatuses
           /\ IsApplyInProgress(s) => s \notin {"pending", NoStatus} /\ s \in RunStatuses
BY DEF IsPlanTerminal, IsApplyTerminal, IsApplyInProgress, RunStatuses, NoStatus

LEMMA InvAtFirst == Init => TriggerInv
<1> SUFFICES ASSUME Init PROVE TriggerInv
  OBVIOUS
<1> USE DEF IsPlanPassedStatus, IsApplyInProgress
<1>1. TypeOK
  BY TypesAtFirst
<1>2. ServerInv
  BY DEF Init, ServerInv, StageTypes, Blocked, NoStatus
<1>3. runResult.planStatus = NoStatus /\ runResult.finalStatus = NoStatus
      /\ runResult.policyLog = NoLog /\ runResult.err = "none" /\ pc = "pollPlan"
      /\ runResult.planLog = NoLog
  BY DEF Init
<1>4. StatusInv
  BY <1>3, StatusFacts DEF StatusInv, NoStatus
<1>5. LogInv /\ PointInv /\ ReturnInv /\ ResultInv
  BY <1>3 DEF LogInv, PointInv, ReturnInv, ResultInv
<1> QED BY <1>1, <1>2, <1>4, <1>5 DEF TriggerInv

\* The server moves.  After the plan has ended, its stages change no more.
LEMMA ServerKeeps == TriggerInv /\ Server => TriggerInv'
<1> SUFFICES ASSUME TriggerInv, Server PROVE TriggerInv'
  OBVIOUS
<1> USE DEF ServerOnly, expects
<1>1. TypeOK /\ TypeOK'
  BY TypesKept DEF TriggerInv, Next
<1>2. /\ UNCHANGED <<expectPlan, expectApply, pc, expired, runResult, result>>
      /\ NeedsApply' = NeedsApply
  BY DEF Server, PlanEnds, AutoApplies, ApplyStarts, ApplyEnds, OperatorStops, NeedsApply
<1>3. ServerInv'
  <2> SUFFICES ASSUME ServerInv PROVE ServerInv'
    BY DEF TriggerInv
  <2> USE DEF IsPlanPassedStatus, IsApplyInProgress
  <2>1. CASE PlanEnds
    <3>1. status' \in PlanEndStatuses(stages', planLog') /\ planEnd' = status'
      BY <2>1 DEF PlanEnds
    <3>2. /\ status' \notin {"pending", "apply_queued", "applying", "applied"}
          /\ status' = "planned_and_finished" =>
               /\ stages'["init"] \notin {"fail", "errored"}
               /\ planLog' = "no changes"
      BY <3>1 DEF PlanEndStatuses, PlanHadNoChanges
    <3>3. status' # NoStatus
      BY <1>1, <3>2 DEF TypeOK, RunStatuses, NoStatus
    <3> QED BY <3>1, <3>2, <3>3 DEF ServerInv
  <2>2. CASE AutoApplies
    BY <2>2 DEF ServerInv, AutoApplies, Confirmable, Blocked, NoStatus
  <2>3. CASE ApplyStarts
    BY <2>3 DEF ServerInv, ApplyStarts, Blocked
  <2>4. CASE ApplyEnds
    BY <2>4, <1>1 DEF ServerInv, ApplyEnds, Blocked, TypeOK, PolicyLogs, StageTypes
  <2>5. CASE OperatorStops
    BY <2>5, <1>1 DEF ServerInv, OperatorStops, Blocked, IsApplyTerminal, NoStatus
  <2> QED BY <2>1, <2>2, <2>3, <2>4, <2>5 DEF Server
<1>4. ~IsApplyTerminal(status)
  BY DEF Server, PlanEnds, AutoApplies, ApplyStarts, ApplyEnds, OperatorStops,
         Confirmable, IsApplyTerminal
<1>5. status # "pending" =>
        /\ stages'["init"] = stages["init"] /\ stages'["plan"] = stages["plan"]
        /\ Blocked(stages') = Blocked(stages)
        /\ planLog' = planLog /\ planEnd' = planEnd
        /\ status' # "pending"
  BY <1>1 DEF Server, PlanEnds, AutoApplies, ApplyStarts, ApplyEnds, OperatorStops,
         Blocked, TypeOK, PolicyLogs, StageTypes
<1>6. status \in {"apply_queued", "applying"} =>
        status' \in {"apply_queued", "applying", "applied", "errored", "canceled",
                     "discarded"}
  BY DEF Server, PlanEnds, AutoApplies, ApplyStarts, ApplyEnds, OperatorStops, Confirmable
<1>7. StatusInv'
  <2>1. IsPlanPassedStatus(runResult.planStatus) \/ IsApplyInProgress(runResult.planStatus)
          => runResult.planStatus # NoStatus
    BY DEF IsPlanPassedStatus, IsApplyInProgress, NoStatus
  <2> QED BY <2>1, <1>2, <1>4, <1>5, <1>6 DEF TriggerInv, StatusInv, IsApplyTerminal
<1>8. LogInv'
  BY <1>2, <1>4, <1>5 DEF TriggerInv, StatusInv, LogInv, IsApplyTerminal
<1>9. PointInv' /\ ResultInv'
  BY <1>2 DEF TriggerInv, PointInv, ResultInv
<1>10. ReturnInv'
  BY <1>2, <1>5 DEF TriggerInv, ReturnInv, StatusInv
<1> QED BY <1>1, <1>3, <1>7, <1>8, <1>9, <1>10 DEF TriggerInv

\* The client polls: it gives up, or reads a status.
LEMMA PollingKeeps ==
    TriggerInv /\ (DeadlinePasses \/ PollFails \/ PollPlan \/ PollApply) => TriggerInv'
<1> SUFFICES ASSUME TriggerInv, DeadlinePasses \/ PollFails \/ PollPlan \/ PollApply
             PROVE  TriggerInv'
  OBVIOUS
<1> USE DEF expects, server
<1>1. TypeOK /\ TypeOK'
  BY TypesKept DEF TriggerInv, Next, ClientStep
<1>2. /\ UNCHANGED <<expectPlan, expectApply, status, stages, planLog, planEnd, result>>
      /\ NeedsApply' = NeedsApply /\ Blocked(stages') = Blocked(stages)
      /\ runResult'.policyLog = runResult.policyLog
      /\ runResult'.planLog = runResult.planLog
  <2>1. UNCHANGED <<expectPlan, expectApply, status, stages, planLog, planEnd, result>>
    BY DEF DeadlinePasses, PollFails, PollPlan, PollApply
  <2>2. NeedsApply' = NeedsApply /\ Blocked(stages') = Blocked(stages)
    BY <2>1 DEF NeedsApply
  <2>3. \/ runResult' = runResult
        \/ \E x : runResult' = [runResult EXCEPT !.err = x, !.finalStatus = NoStatus]
        \/ runResult' = [runResult EXCEPT !.planStatus = status, !.finalStatus = status]
        \/ runResult' = [runResult EXCEPT !.finalStatus = status]
    BY DEF DeadlinePasses, PollFails, PollPlan, PollApply
  <2>4. /\ runResult'.policyLog = runResult.policyLog
        /\ runResult'.planLog = runResult.planLog
    BY <1>1, <2>3 DEF TypeOK
  <2> QED BY <2>1, <2>2, <2>4
<1>3. ServerInv'
  BY <1>2 DEF TriggerInv, ServerInv
<1>4. CASE DeadlinePasses
  <2>1. pc' = pc /\ runResult' = runResult
    BY <1>4 DEF DeadlinePasses
  <2>2. StatusInv' /\ LogInv'
    BY <2>1, <1>2 DEF TriggerInv, StatusInv, LogInv
  <2>3. PointInv' /\ ReturnInv' /\ ResultInv'
    BY <2>1, <1>2 DEF TriggerInv, PointInv, ReturnInv, ResultInv
  <2> QED BY <2>2, <2>3, <1>1, <1>3 DEF TriggerInv
<1>5. CASE PollFails
  <2>1. /\ pc' = "evaluate"
        /\ runResult'.finalStatus = NoStatus /\ runResult'.planStatus = runResult.planStatus
        /\ runResult'.err \in {"timeout", "read"}
    BY <1>5, <1>1 DEF PollFails, TypeOK
  <2>2. StatusInv' /\ LogInv'
    BY <2>1, <1>2, StatusFacts DEF TriggerInv, StatusInv, LogInv, NoStatus
  <2>3. PointInv' /\ ReturnInv' /\ ResultInv'
    BY <2>1, StatusFacts DEF PointInv, ReturnInv, ResultInv
  <2> QED BY <1>1, <1>3, <2>2, <2>3 DEF TriggerInv
<1>6. CASE PollPlan
  <2>1. /\ pc = "pollPlan" /\ pc' = "fetchPlan"
        /\ runResult'.finalStatus = status /\ runResult'.planStatus = status
        /\ runResult'.err = runResult.err
        /\ IsPlanTerminal(status)
    BY <1>6, <1>1 DEF PollPlan, TypeOK
  <2>2. /\ runResult.policyLog = NoLog /\ runResult.err = "none"
        /\ status # "pending" /\ status # NoStatus
    BY <2>1 DEF TriggerInv, PointInv, IsPlanTerminal, RunStatuses, NoStatus
  <2>3. StatusInv'
    BY <2>1, <2>2, <1>2 DEF TriggerInv, StatusInv, ServerInv, IsApplyInProgress
  <2>4. LogInv' /\ PointInv' /\ ReturnInv' /\ ResultInv'
    BY <2>1, <2>2, <1>2 DEF TriggerInv, LogInv, PointInv, ReturnInv, ResultInv
  <2> QED BY <1>1, <1>3, <2>3, <2>4 DEF TriggerInv
<1>7. CASE PollApply
  <2>1. /\ pc = "pollApply" /\ pc' = "refetch"
        /\ runResult'.finalStatus = status /\ runResult'.planStatus = runResult.planStatus
        /\ runResult'.err = runResult.err
        /\ IsApplyTerminal(status)
    BY <1>7, <1>1 DEF PollApply, TypeOK
  <2>2. runResult.err = "none" /\ NeedsApply /\ runResult.planStatus # NoStatus
    BY <2>1 DEF TriggerInv, PointInv
  <2>3. StatusInv' /\ LogInv'
    BY <2>1, <2>2, <1>2, StatusFacts DEF TriggerInv, StatusInv, LogInv
  <2>4. PointInv' /\ ReturnInv' /\ ResultInv'
    BY <2>1, <2>2, <1>2 DEF PointInv, ReturnInv, ResultInv
  <2> QED BY <1>1, <1>3, <2>3, <2>4 DEF TriggerInv
<1> QED BY <1>4, <1>5, <1>6, <1>7

\* The client fetches the logs: of the plan, of the policies, a second time, and of
\* the apply.
LEMMA FetchingKeeps ==
    TriggerInv /\ (FetchPlan \/ FetchPolicy \/ Refetch \/ FetchApply) => TriggerInv'
<1> SUFFICES ASSUME TriggerInv, FetchPlan \/ FetchPolicy \/ Refetch \/ FetchApply
             PROVE  TriggerInv'
  OBVIOUS
<1> USE DEF expects, server
<1>1. TypeOK /\ TypeOK'
  BY TypesKept DEF TriggerInv, Next, ClientStep
<1>2. /\ UNCHANGED <<expectPlan, expectApply, status, stages, planLog, planEnd, result>>
      /\ NeedsApply' = NeedsApply /\ Blocked(stages') = Blocked(stages)
      /\ runResult'.planStatus = runResult.planStatus
      /\ runResult'.finalStatus = runResult.finalStatus
      /\ runResult'.err = runResult.err
  BY <1>1 DEF FetchPlan, FetchPolicy, Refetch, FetchApply, NeedsApply, Blocked, TypeOK
<1>3. ServerInv' /\ StatusInv'
  BY <1>2 DEF TriggerInv, ServerInv, StatusInv
<1>4. CASE FetchPlan
  <2>1. pc = "fetchPlan" /\ pc' = "fetchPolicy" /\ runResult'.policyLog = runResult.policyLog
        /\ runResult'.planLog \in {planLog, NoLog}
    BY <1>4, <1>1 DEF FetchPlan, Fetched, TypeOK
  <2>2. LogInv' /\ PointInv' /\ ReturnInv' /\ ResultInv'
    BY <2>1, <1>2 DEF TriggerInv, LogInv, PointInv, ReturnInv, ResultInv
  <2> QED BY <1>1, <1>3, <2>2 DEF TriggerInv
<1>5. CASE FetchPolicy
  <2>1. pc = "fetchPolicy" /\ pc' = "decide" /\ runResult'.policyLog \in {stages, NoLog}
        /\ runResult'.planLog = runResult.planLog
    BY <1>5, <1>1 DEF FetchPolicy, Fetched, TypeOK
  <2>2. LogInv' /\ PointInv' /\ ReturnInv' /\ ResultInv'
    BY <2>1, <1>2 DEF TriggerInv, LogInv, PointInv, ReturnInv, ResultInv
  <2> QED BY <1>1, <1>3, <2>2 DEF TriggerInv
<1>6. CASE Refetch
  <2>1. pc = "refetch" /\ pc' = "fetchApply" /\ runResult'.policyLog \in {stages, NoLog}
        /\ runResult'.planLog = runResult.planLog
    BY <1>6, <1>1 DEF Refetch, Fetched, TypeOK
  <2>2. runResult.planStatus # NoStatus
    BY <2>1, StatusFacts DEF TriggerInv, StatusInv, PointInv
  <2>3. LogInv' /\ PointInv' /\ ReturnInv' /\ ResultInv'
    BY <2>1, <2>2, <1>2 DEF TriggerInv, LogInv, PointInv, ReturnInv, ResultInv
  <2> QED BY <1>1, <1>3, <2>3 DEF TriggerInv
<1>7. CASE FetchApply
  <2>1. /\ pc = "fetchApply" /\ pc' = "evaluate"
        /\ runResult'.policyLog = runResult.policyLog
        /\ runResult'.planLog = runResult.planLog
    BY <1>7, <1>1 DEF FetchApply, TypeOK
  <2>2. /\ IsApplyTerminal(runResult.finalStatus) /\ runResult.err = "none"
        /\ NeedsApply
    BY <2>1 DEF TriggerInv, PointInv
  <2>3. IsApplyInProgress(runResult.finalStatus) => runResult.finalStatus = "applied"
    BY <2>2 DEF IsApplyTerminal, IsApplyInProgress
  <2>4. LogInv' /\ PointInv' /\ ResultInv'
    BY <2>1, <1>2 DEF TriggerInv, LogInv, PointInv, ResultInv
  <2>5. ReturnInv'
    BY <2>1, <2>2, <2>3, <1>2, StatusFacts DEF ReturnInv
  <2> QED BY <1>1, <1>3, <2>4, <2>5 DEF TriggerInv
<1> QED BY <1>4, <1>5, <1>6, <1>7

\* A plan the client takes for blocked is blocked.
LEMMA BlockedIsBlocked ==
    ASSUME LogInv, PlanPolicyBlocked(runResult.policyLog)
    PROVE  Blocked(stages)
BY DEF LogInv, PlanPolicyBlocked, PolicyStage, Blocked

\* The client decides: TriggerRun returns, waits for the apply, or confirms.
LEMMA DecidingKeeps ==
    TriggerInv /\ (StopAfterPlan \/ SkipConfirm \/ Confirm) => TriggerInv'
<1> SUFFICES ASSUME TriggerInv, StopAfterPlan \/ SkipConfirm \/ Confirm
             PROVE  TriggerInv'
  OBVIOUS
<1> USE DEF expects, server
<1>1. TypeOK /\ TypeOK'
  BY TypesKept DEF TriggerInv, Next, ClientStep
<1>2. /\ UNCHANGED <<expectPlan, expectApply, stages, planLog, planEnd, result>>
      /\ NeedsApply' = NeedsApply /\ Blocked(stages') = Blocked(stages)
      /\ runResult'.policyLog = runResult.policyLog
      /\ runResult'.planLog = runResult.planLog
      /\ runResult'.planStatus = runResult.planStatus
      /\ runResult'.finalStatus = runResult.finalStatus
      /\ pc = "decide"
  BY <1>1 DEF StopAfterPlan, SkipConfirm, Confirm, NeedsApply, Blocked, TypeOK
<1>3. /\ runResult.planStatus # NoStatus /\ runResult.planStatus # "pending"
      /\ runResult.finalStatus = runResult.planStatus
      /\ runResult.planStatus \in RunStatuses
      /\ runResult.err = "none"
  BY <1>1, <1>2 DEF TriggerInv, PointInv, StatusInv, TypeOK
<1>4. CASE StopAfterPlan
  <2>1. pc' = "evaluate" /\ UNCHANGED <<status, runResult>> /\ ~GoesToApply
    BY <1>4 DEF StopAfterPlan
  <2>2. NeedsApply => Blocked(stages) \/ IsApplyTerminal(runResult.planStatus)
    BY <2>1, <1>3, BlockedIsBlocked
       DEF TriggerInv, GoesToApply, IsPlanPassedStatus, IsApplyInProgress,
           IsApplyTerminal, RunStatuses
  <2>3. IsApplyInProgress(runResult.planStatus) =>
          runResult.planStatus = "applied" \/ ~NeedsApply
    BY <2>2 DEF TriggerInv, StatusInv, IsApplyInProgress, IsApplyTerminal
  <2>4. ServerInv' /\ StatusInv'
    BY <2>1, <1>2 DEF TriggerInv, ServerInv, StatusInv
  <2>5. LogInv' /\ PointInv' /\ ResultInv'
    BY <2>1, <1>2 DEF TriggerInv, LogInv, PointInv, ResultInv
  <2>6. ReturnInv'
    BY <2>1, <2>2, <2>3, <1>2, <1>3 DEF ReturnInv
  <2> QED BY <1>1, <2>4, <2>5, <2>6 DEF TriggerInv
<1>5. CASE SkipConfirm
  <2>1. pc' = "pollApply" /\ UNCHANGED <<status, runResult>> /\ NeedsApply
    BY <1>5 DEF SkipConfirm, GoesToApply
  <2>2. ServerInv' /\ StatusInv'
    BY <2>1, <1>2 DEF TriggerInv, ServerInv, StatusInv
  <2>3. LogInv' /\ PointInv' /\ ReturnInv' /\ ResultInv'
    BY <2>1, <1>2, <1>3 DEF TriggerInv, LogInv, PointInv, ReturnInv, ResultInv
  <2> QED BY <1>1, <2>2, <2>3 DEF TriggerInv
<1>6. CASE Confirm
  <2> NeedsApply /\ IsPlanPassedStatus(runResult.planStatus)
    BY <1>6 DEF Confirm, GoesToApply
  <2>1. /\ \/ pc' = "pollApply" /\ runResult'.err = "none"
           \/ pc' = "evaluate" /\ runResult'.err = "confirm"
        /\ status' = status \/ (Confirmable /\ status' = "apply_queued")
    <3>1. CASE pc' = "pollApply" /\ runResult' = runResult
      BY <1>6, <1>3, <3>1 DEF Confirm
    <3>2. CASE pc' = "evaluate" /\ runResult' = [runResult EXCEPT !.err = "confirm"]
      BY <1>6, <1>1, <3>2 DEF Confirm, TypeOK
    <3> QED BY <1>6, <3>1, <3>2 DEF Confirm
  <2>2. ServerInv'
    BY <2>1, <1>2 DEF TriggerInv, ServerInv, Confirmable, Blocked, IsPlanPassedStatus,
                      IsApplyInProgress, NoStatus
  <2>3. StatusInv'
    BY <2>1, <1>2
       DEF TriggerInv, StatusInv, Confirmable, IsApplyTerminal, IsApplyInProgress
  <2>4. LogInv' /\ PointInv' /\ ResultInv'
    BY <2>1, <1>2, <1>3 DEF TriggerInv, LogInv, PointInv, ResultInv
  <2>5. ReturnInv'
    BY <2>1, <1>2, <1>3 DEF ReturnInv, IsPlanPassedStatus, IsApplyInProgress
  <2> QED BY <1>1, <2>2, <2>3, <2>4, <2>5 DEF TriggerInv
<1> QED BY <1>4, <1>5, <1>6

\* lifecycle.go evaluates the result.
LEMMA EvaluatingKeeps == TriggerInv /\ Evaluate => TriggerInv'
<1> SUFFICES ASSUME TriggerInv, Evaluate PROVE TriggerInv'
  OBVIOUS
<1> USE DEF expects, server
<1>1. TypeOK /\ TypeOK'
  BY TypesKept DEF TriggerInv, Next, ClientStep
<1>2. /\ UNCHANGED <<expectPlan, expectApply, status, stages, planLog, planEnd, runResult>>
      /\ NeedsApply' = NeedsApply
      /\ pc = "evaluate" /\ pc' = "done"
  BY DEF Evaluate, NeedsApply
<1>3. ServerInv' /\ StatusInv' /\ LogInv' /\ PointInv' /\ ReturnInv'
  <2>1. ServerInv' /\ StatusInv'
    BY <1>2 DEF TriggerInv, ServerInv, StatusInv, Blocked
  <2>2. LogInv' /\ PointInv' /\ ReturnInv'
    BY <1>2 DEF TriggerInv, LogInv, PointInv, ReturnInv, Blocked
  <2> QED BY <2>1, <2>2
<1>4. PICK planText \in BOOLEAN, applyText \in BOOLEAN :
        result' = [plan  |-> IF expectPlan = "N/A" THEN result.plan
                             ELSE EvaluatedPlan(planText),
                   apply |-> IF ~NeedsApply THEN result.apply
                             ELSE EvaluatedApply(applyText \/ planText)]
  BY DEF Evaluate, MayHoldText
<1>5. expectPlan # "N/A" =>
        /\ result'.plan.got = ClassifyPlanOutcome(runResult.policyLog,
                                                  runResult.planStatus)
        /\ result'.plan.match => ExpectationMet(expectPlan, result'.plan.got, TRUE)
  BY <1>4, ExpectationBoolean DEF EvaluatedPlan
<1>6. NeedsApply =>
        /\ result'.apply.got = ClassifyApplyOutcome(runResult.policyLog,
                                 runResult.planLog, runResult.finalStatus)
        /\ result'.apply.match => ExpectationMet(expectApply, result'.apply.got, TRUE)
  <2> DEFINE t == applyText \/ planText
  <2>1. t \in BOOLEAN
    OBVIOUS
  <2>2. NeedsApply => result'.apply = EvaluatedApply(t)
    BY <1>4
  <2> HIDE DEF t
  <2> DEFINE g == ClassifyApplyOutcome(runResult.policyLog, runResult.planLog,
                                       runResult.finalStatus)
  <2>3. EvaluatedApply(t) = [got |-> g, match |-> ExpectationMet(expectApply, g, t)]
    BY DEF EvaluatedApply
  <2>4. ExpectationMet(expectApply, g, t) => ExpectationMet(expectApply, g, TRUE)
    BY <2>1, ExpectationBoolean
  <2> HIDE DEF g
  <2>5. NeedsApply =>
          /\ result'.apply.got = g
          /\ result'.apply.match => ExpectationMet(expectApply, g, TRUE)
    <3> DEFINE m == ExpectationMet(expectApply, g, t)
    <3>1. NeedsApply => result'.apply.got = g /\ result'.apply.match = m
      <4> HIDE DEF m
      <4>1. [got |-> g, match |-> m].got = g /\ [got |-> g, match |-> m].match = m
        OBVIOUS
      <4>2. EvaluatedApply(t) = [got |-> g, match |-> m]
        BY <2>3 DEF m
      <4> QED BY <2>2, <4>1, <4>2
    <3> QED BY <2>4, <3>1
  <2> QED BY <2>5 DEF g
<1>7. ResultInv'
  BY <1>2, <1>5, <1>6 DEF ResultInv
<1> QED BY <1>1, <1>3, <1>7 DEF TriggerInv

LEMMA InvKept == TriggerInv /\ [Next]_vars => TriggerInv'
<1>1. TriggerInv /\ UNCHANGED vars => TriggerInv'
  <2> SUFFICES ASSUME TriggerInv, UNCHANGED vars PROVE TriggerInv'
    OBVIOUS
  <2> USE DEF vars, expects, server
  <2>1. TypeOK' /\ ServerInv'
    BY TypesKept DEF TriggerInv, ServerInv, Blocked
  <2>2. StatusInv' /\ LogInv'
    BY DEF TriggerInv, StatusInv, LogInv, Blocked
  <2>3. PointInv' /\ ResultInv'
    BY DEF TriggerInv, PointInv, ResultInv, NeedsApply
  <2>4. ReturnInv'
    BY DEF TriggerInv, ReturnInv, NeedsApply, Blocked
  <2> QED BY <2>1, <2>2, <2>3, <2>4 DEF TriggerInv
<1> QED BY <1>1, ServerKeeps, PollingKeeps, FetchingKeeps, DecidingKeeps, EvaluatingKeeps
        DEF Next, ClientStep

LEMMA TriggerInvariant == Spec => []TriggerInv
BY InvAtFirst, InvKept, PTL DEF Spec

-----------------------------------------------------------------------------
(* The theorems.                                                           *)

\* When TriggerRun returns without an error from a run it had to apply, the run is
\* over or was blocked: whatever the auto-apply, an operator and the deadline did
\* between two requests.
THEOREM RunSettled == Spec => []SettledOnReturn
<1>1. TriggerInv => SettledOnReturn
  BY DEF TriggerInv, StatusInv, ReturnInv, SettledOnReturn
<1> QED BY <1>1, TriggerInvariant, PTL

\* With a policy log in hand the outcome of the plan is that of the policy stages
\* of the run, whatever happened to it after the plan.
THEOREM PlanKept == Spec => []PlanOutcomeKept
<1>1. TriggerInv => PlanOutcomeKept
  <2> SUFFICES ASSUME TriggerInv, pc = "done", expectPlan # "N/A",
                      runResult.policyLog # NoLog,
                      Blocked(stages) \/ stages["plan"] # "absent"
               PROVE  result.plan.got =
                        IF Blocked(stages) THEN "FAIL"
                        ELSE IF stages["plan"] = "unknown" THEN "UNKNOWN" ELSE "PASS"
    BY DEF PlanOutcomeKept
  <2> DEFINE log == runResult.policyLog
  <2>1. PolicyStage(log, "init") = stages["init"] /\ PolicyStage(log, "plan") = stages["plan"]
    BY DEF TriggerInv, LogInv, PolicyStage
  <2>2. result.plan.got = ClassifyPlanOutcome(log, runResult.planStatus)
    BY DEF TriggerInv, ResultInv
  <2> HIDE DEF log
  <2>3. CASE stages["init"] \in {"fail", "errored"}
    BY <2>1, <2>2, <2>3 DEF ClassifyPlanOutcome, Blocked
  <2>4. CASE stages["init"] \notin {"fail", "errored"}
    <3>1. stages["plan"] # "absent"
      BY <2>4 DEF Blocked
    <3>2. result.plan.got = ClassifyPolicyStage(stages["plan"])
      BY <2>1, <2>2, <2>4, <3>1 DEF ClassifyPlanOutcome
    <3> QED BY <3>2, <2>4 DEF ClassifyPolicyStage, Blocked
  <2> QED BY <2>3, <2>4
<1> QED BY <1>1, TriggerInvariant, PTL

\* What the comparison with the expectation says of the outcome.
LEMMA MetOutcome ==
    ASSUME NEW x, NEW got, ExpectationMet(x, got, TRUE)
    PROVE  /\ x = "PASS" => got = "PASS"
           /\ x = "UNKNOWN" => got \in {"UNKNOWN", "PASS"}
           /\ x \in {"FAIL", "ERROR_CONTAINS"} => got = "FAIL"
           /\ x \in {"PASS", "UNKNOWN", "FAIL", "ERROR_CONTAINS", "N/A"}
BY DEF ExpectationMet

\* The plan of a case that passes with a policy log did what the case expects, but
\* for the two ways in which the log, or its lack of a plan stage, hides the status.
LEMMA PlanEarned ==
    ASSUME TriggerInv, pc = "done", runResult.policyLog # NoLog, result.plan.match,
           expectPlan # "N/A"
    PROVE  PlanAsExpected \/ StageHidesStatus \/ ApplyErrorReadAsPlan
<1> DEFINE log == runResult.policyLog
           got == ClassifyPlanOutcome(log, runResult.planStatus)
<1>1. /\ PolicyStage(log, "init") = stages["init"]
      /\ PolicyStage(log, "plan") = stages["plan"]
  BY DEF TriggerInv, LogInv, PolicyStage
<1>2. /\ expectPlan = "PASS" => got = "PASS"
      /\ expectPlan = "UNKNOWN" => got \in {"UNKNOWN", "PASS"}
      /\ expectPlan \in {"FAIL", "ERROR_CONTAINS"} => got = "FAIL"
      /\ expectPlan \in {"PASS", "UNKNOWN", "FAIL", "ERROR_CONTAINS"}
  <2>1. ExpectationMet(expectPlan, got, TRUE)
    BY DEF TriggerInv, ResultInv
  <2> QED BY <2>1, MetOutcome
<1>3. CASE Blocked(stages)
  <2>1. got = "FAIL"
    <3> HIDE DEF log
    <3> QED BY <1>1, <1>3, StageOutcome DEF ClassifyPlanOutcome, Blocked
  <2> QED BY <1>2, <1>3, <2>1 DEF PlanAsExpected, PlanFailed
<1>4. CASE ~Blocked(stages) /\ stages["plan"] # "absent"
  <2>1. got = ClassifyPolicyStage(stages["plan"])
    <3> HIDE DEF log
    <3> QED BY <1>1, <1>4 DEF ClassifyPlanOutcome, Blocked
  <2>2. got # "FAIL" /\ (stages["plan"] = "unknown" => got = "UNKNOWN")
    BY <1>4, <2>1, StageOutcome DEF Blocked
  <2>3. expectPlan \in {"PASS", "UNKNOWN"}
    BY <1>2, <2>2
  <2>4. CASE IsPlanPassedStatus(planEnd)
    BY <1>2, <1>4, <2>2, <2>3, <2>4 DEF PlanAsExpected, PlanSucceeded
  <2>5. CASE ~IsPlanPassedStatus(planEnd)
    BY <1>4, <2>3, <2>5 DEF StageHidesStatus, Blocked
  <2> QED BY <2>4, <2>5
<1>5. CASE ~Blocked(stages) /\ stages["plan"] = "absent"
  <2>1. /\ got \in {"FAIL", "PASS", "ERROR"}
        /\ got = "FAIL" => runResult.planStatus = "errored"
        /\ got = "PASS" => \/ IsPlanPassedStatus(runResult.planStatus)
                           \/ IsApplyInProgress(runResult.planStatus)
    <3> HIDE DEF log
    <3> QED BY <1>1, <1>5
            DEF ClassifyPlanOutcome, Blocked, IsPlanPassedStatus, IsApplyInProgress
  <2>2. CASE got = "PASS"
    <3>1. IsPlanPassedStatus(planEnd)
      BY <2>1, <2>2 DEF TriggerInv, StatusInv
    <3> QED BY <1>2, <1>5, <2>2, <3>1 DEF PlanAsExpected, PlanSucceeded
  <2>3. CASE got = "FAIL"
    <3>1. status = "errored" /\ runResult.planStatus = "errored"
      BY <2>1, <2>3 DEF TriggerInv, StatusInv, IsApplyTerminal
    <3>2. planEnd = "errored" \/ IsPlanPassedStatus(planEnd)
      BY <3>1 DEF TriggerInv, ServerInv
    <3>3. expectPlan \in {"FAIL", "ERROR_CONTAINS"}
      BY <1>2, <2>3
    <3> QED BY <1>5, <3>1, <3>2, <3>3 DEF PlanAsExpected, PlanFailed, ApplyErrorReadAsPlan
  <2> QED BY <1>2, <2>1, <2>2, <2>3
<1> QED BY <1>3, <1>4, <1>5

\* So did its apply, but for a refused confirmation and a lost plan log that pass
\* for the failure.
LEMMA ApplyEarned ==
    ASSUME TriggerInv, pc = "done", runResult.policyLog # NoLog, NeedsApply,
           result.apply.match
    PROVE  ApplyAsExpected \/ ConfirmErrorReadAsFailure \/ LostPlanLogReadAsChanges
<1> DEFINE log == runResult.policyLog
           final == runResult.finalStatus
           got == ClassifyApplyOutcome(log, runResult.planLog, final)
<1>1. PolicyStage(log, "plan") = stages["plan"]
  BY DEF TriggerInv, LogInv, PolicyStage
<1>2. /\ expectApply = "PASS" => got = "PASS"
      /\ expectApply = "UNKNOWN" => got \in {"UNKNOWN", "PASS"}
      /\ expectApply \in {"FAIL", "ERROR_CONTAINS"} => got = "FAIL"
      /\ expectApply \in {"PASS", "UNKNOWN", "FAIL", "ERROR_CONTAINS"}
  <2>1. ExpectationMet(expectApply, got, TRUE)
    BY DEF TriggerInv, ResultInv
  <2> QED BY <2>1, MetOutcome DEF NeedsApply
<1>3. ASSUME status \in {"applied", "planned_and_finished"},
             got = ClassifyPolicyStage(ApplyStage) \/ (got = "PASS" /\ ApplyStage = "absent")
      PROVE  ApplyAsExpected
  <2>1. /\ got = "FAIL" <=> ~Applied
        /\ got = "PASS" => AppliedCleanly
    BY <1>3, StageOutcome DEF Applied, AppliedCleanly
  <2>2. got = "UNKNOWN" => Applied
    BY <2>1
  <2>3. AppliedCleanly => Applied
    BY DEF AppliedCleanly
  <2> HIDE DEF got
  <2> QED BY <1>2, <2>1, <2>2, <2>3 DEF ApplyAsExpected
<1>4. CASE final = "applied"
  <2>1. status = "applied" /\ log = stages
    BY <1>4 DEF TriggerInv, StatusInv, LogInv, IsApplyTerminal
  <2>2. PolicyStage(log, "apply") = stages["apply"] /\ ApplyStage = stages["apply"]
    BY <2>1 DEF PolicyStage, ApplyStage
  <2>3. got = ClassifyPolicyStage(ApplyStage) \/ (got = "PASS" /\ ApplyStage = "absent")
    <3> HIDE DEF log, final
    <3> QED BY <1>4, <2>2 DEF ClassifyApplyOutcome
  <2> QED BY <1>3, <2>1, <2>3
<1>5. CASE final = "planned_and_finished"
  <2>1. status = "planned_and_finished" /\ ApplyStage = stages["plan"]
    BY <1>5 DEF TriggerInv, StatusInv, IsApplyTerminal, ApplyStage
  <2>2. \/ got = ClassifyPolicyStage(ApplyStage)
        \/ got = "PASS" /\ ApplyStage = "absent"
        \/ got = "FAIL" /\ stages["plan"] = "absent" /\ runResult.planLog # "no changes"
    <3> HIDE DEF log, final
    <3> QED BY <1>1, <1>5, <2>1 DEF ClassifyApplyOutcome, PlanHadNoChanges
  <2>3. CASE got = "FAIL" /\ stages["plan"] = "absent" /\ runResult.planLog # "no changes"
    <3>1. runResult.planLog = NoLog
      BY <2>1, <2>3 DEF TriggerInv, LogInv, ServerInv
    <3>2. expectApply \in {"FAIL", "ERROR_CONTAINS"}
      BY <1>2, <2>3
    <3> QED BY <2>1, <2>3, <3>1, <3>2 DEF LostPlanLogReadAsChanges
  <2> QED BY <1>3, <2>1, <2>2, <2>3
<1>6. CASE final \notin {"applied", "planned_and_finished"}
  <2>1. /\ got \in {"FAIL", "ERROR"}
        /\ got = "FAIL" => final = "errored" \/ final \in {"planned", "policy_checked",
                                     "policy_soft_failed", "policy_override"}
    <3> HIDE DEF log, final
    <3> QED BY <1>6 DEF ClassifyApplyOutcome
  <2>2. got = "FAIL" /\ expectApply \in {"FAIL", "ERROR_CONTAINS"}
    BY <1>2, <2>1
  <2>3. final = "errored" => ~Applied
    BY DEF TriggerInv, StatusInv, IsApplyTerminal, Applied
  <2>4. /\ final \in {"planned", "policy_checked", "policy_soft_failed", "policy_override"}
        /\ runResult.err # "confirm"
        => Blocked(stages)
    BY DEF TriggerInv, TypeOK, ReturnInv, IsApplyTerminal, NoStatus
  <2>5. Blocked(stages) => ~Applied
    BY DEF TriggerInv, ServerInv, Blocked, Applied, ApplyStage, IsApplyInProgress
  <2>6. ~Applied => ApplyAsExpected
    BY <2>2 DEF ApplyAsExpected
  <2> QED BY <1>6, <2>1, <2>2, <2>3, <2>4, <2>5, <2>6 DEF ConfirmErrorReadAsFailure
<1> QED BY <1>4, <1>5, <1>6

\* With a policy log in hand, a PASS is earned by what the run did, but for the four
\* named ways around it.
THEOREM PassesEarned == Spec => []EarnedPassWithLogs
<1>1. TriggerInv => EarnedPassWithLogs
  <2> SUFFICES ASSUME TriggerInv, runResult.policyLog # NoLog,
                      pc = "done", Verdict = "PASS"
               PROVE  /\ PlanAsExpected \/ StageHidesStatus \/ ApplyErrorReadAsPlan
                      /\ ApplyAsExpected \/ ConfirmErrorReadAsFailure
                                         \/ LostPlanLogReadAsChanges
    BY DEF EarnedPassWithLogs
  <2>1. result.plan.match /\ result.apply.match
    BY DEF Verdict, Overall
  <2>2. expectPlan = "N/A" => PlanAsExpected
    BY DEF PlanAsExpected
  <2>3. ~NeedsApply => ApplyAsExpected
    BY DEF ApplyAsExpected, NeedsApply
  <2> QED BY <2>1, <2>2, <2>3, PlanEarned, ApplyEarned
<1> QED BY <1>1, TriggerInvariant, PTL

-----------------------------------------------------------------------------
(* TriggerRun implements RunContract.                                      *)

\* The phase of each status.
LEMMA Phases ==
    /\ Phase("pending") = "planning"
    /\ \A s \in {"planned", "policy_checked", "policy_soft_failed", "policy_override"} :
          Phase(s) = "planned"
    /\ \A s \in {"apply_queued", "applying"} : Phase(s) = "applying"
    /\ \A s \in {"canceled", "discarded", "planned_and_finished"} : Phase(s) = "stopped"
    /\ Phase("applied") = "applied" /\ Phase("errored") = "errored"
    /\ Phase(NoStatus) = NoStatus
BY DEF Phase, NoStatus

Returned == pc \in {"evaluate", "done"}
Final == IF Returned THEN Phase(runResult.finalStatus) ELSE NoStatus

\* What TriggerRun returns is allowed.
FinalInv == Returned => Final \in FinalPhases(NeedsApply, Phase(status))

LEMMA FinalAllowed == TriggerInv => FinalInv
<1> SUFFICES ASSUME TypeOK, StatusInv, ReturnInv, Returned
             PROVE  Phase(runResult.finalStatus) \in FinalPhases(NeedsApply, Phase(status))
  BY DEF TriggerInv, FinalInv, Final
<1> USE DEF Returned
<1> DEFINE final == runResult.finalStatus
<1>1. final \in RunStatuses \cup {NoStatus} /\ status \in RunStatuses
  BY DEF TypeOK
<1>2. CASE final = NoStatus
  BY <1>2, Phases DEF FinalPhases
<1>3. CASE IsApplyTerminal(final)
  <2>1. status = final
    BY <1>3 DEF StatusInv
  <2>2. Phase(final) \in Over
    BY <1>3, Phases DEF IsApplyTerminal, Over
  <2> QED BY <2>1, <2>2 DEF FinalPhases, Over, RunPhases
<1>4. CASE final \in {"planned", "policy_checked", "policy_soft_failed", "policy_override"}
  <2>1. status # "pending"
    BY <1>4 DEF StatusInv, NoStatus
  <2>2. Phase(status) # "planning"
    BY <1>1, <2>1, Phases DEF RunStatuses
  <2>3. Phase(final) = "planned"
    BY <1>4, Phases
  <2> QED BY <2>2, <2>3 DEF FinalPhases, RunPhases
<1>5. CASE final \in {"apply_queued", "applying"}
  <2>1. ~NeedsApply
    BY <1>5 DEF ReturnInv, IsApplyInProgress
  <2>2. final = runResult.planStatus
    BY <1>5 DEF ReturnInv, IsApplyTerminal, NoStatus
  <2>3. status \in {"apply_queued", "applying", "applied", "errored", "canceled",
                    "discarded"}
    BY <1>5, <2>2 DEF StatusInv, IsApplyInProgress
  <2>4. Phase(status) \in Over \cup {"applying"}
    BY <2>3, Phases DEF Over
  <2>5. Phase(final) = "applying"
    BY <1>5, Phases
  <2> QED BY <2>1, <2>4, <2>5 DEF FinalPhases, RunPhases
<1>6. final # "pending"
  BY DEF StatusInv, NoStatus
<1> QED BY <1>1, <1>2, <1>3, <1>4, <1>5, <1>6 DEF RunStatuses, IsApplyTerminal

\* The steps of the server are moves of the run.
LEMMA ServerMoves ==
    ASSUME TypeOK, Server
    PROVE  Phase(status') \in NextPhases(Phase(status)) \/ Phase(status') = Phase(status)
<1> USE DEF NextPhases, Over
<1>1. CASE PlanEnds
  <2>1. status = "pending" /\ status' \notin {"pending", "apply_queued", "applying", "applied"}
        /\ status' \in RunStatuses
    <3>1. TypeOK'
      BY ServerTypes
    <3> QED BY <1>1, <3>1 DEF PlanEnds, PlanEndStatuses, TypeOK
  <2> QED BY <2>1, Phases DEF RunStatuses
<1>2. CASE AutoApplies
  BY <1>2, Phases DEF AutoApplies, Confirmable
<1>3. CASE ApplyStarts
  BY <1>3, Phases DEF ApplyStarts
<1>4. CASE ApplyEnds
  BY <1>4, Phases DEF ApplyEnds
<1>5. CASE OperatorStops
  <2>1. /\ status \in {"pending", "planned", "policy_checked", "policy_soft_failed",
                       "policy_override", "apply_queued", "applying"}
        /\ status' \in {"canceled", "discarded"}
    BY <1>5 DEF OperatorStops, TypeOK, RunStatuses, IsApplyTerminal
  <2> QED BY <2>1, Phases
<1> QED BY <1>1, <1>2, <1>3, <1>4, <1>5 DEF Server

\* The contract is built on the same operators.
LEMMA SameOperators ==
    /\ Contract!NoStatus = NoStatus
    /\ \A p : Contract!NextPhases(p) = NextPhases(p)
    /\ \A p : Contract!FinalPhases(NeedsApply, p) = FinalPhases(NeedsApply, p)
<1>1. Contract!NoStatus = NoStatus /\ Contract!Over = Over /\ Contract!RunPhases = RunPhases
  BY DEF Contract!NoStatus, NoStatus, Contract!Over, Over, Contract!RunPhases, RunPhases
<1>2. ASSUME NEW p PROVE Contract!NextPhases(p) = NextPhases(p)
  BY <1>1 DEF Contract!NextPhases, NextPhases
<1>3. ASSUME NEW p PROVE Contract!FinalPhases(NeedsApply, p) = FinalPhases(NeedsApply, p)
  BY <1>1 DEF Contract!FinalPhases, FinalPhases
<1> QED BY <1>1, <1>2, <1>3

\* The three actions of the contract, in the terms of TriggerRun.
LEMMA ContractSteps ==
    /\ (/\ Phase(status') \in NextPhases(Phase(status))
        /\ NeedsApply' = NeedsApply /\ Returned' = Returned /\ Final' = Final)
       => Contract!RunMoves
    /\ (/\ ~Returned /\ Returned'
        /\ Final' \in FinalPhases(NeedsApply, Phase(status))
        /\ NeedsApply' = NeedsApply /\ status' = status)
       => Contract!Returns
    /\ (/\ ~Returned /\ Returned'
        /\ Phase(status) = "planned" /\ Phase(status') = "applying"
        /\ Final' = "planned" /\ NeedsApply' = NeedsApply)
       => Contract!ReturnsWhileConfirming
    /\ (/\ Phase(status') = Phase(status)
        /\ NeedsApply' = NeedsApply /\ Returned' = Returned /\ Final' = Final)
       => UNCHANGED Contract!vars
<1> USE SameOperators DEF Returned, Final, Contract!NoStatus, NoStatus
<1>1. (/\ Phase(status') \in NextPhases(Phase(status))
       /\ NeedsApply' = NeedsApply /\ Returned' = Returned /\ Final' = Final)
      => Contract!RunMoves
  BY DEF Contract!RunMoves
<1>2. (/\ ~Returned /\ Returned'
       /\ Final' \in FinalPhases(NeedsApply, Phase(status))
       /\ NeedsApply' = NeedsApply /\ status' = status)
      => Contract!Returns
  BY DEF Contract!Returns
<1>3. (/\ ~Returned /\ Returned'
       /\ Phase(status) = "planned" /\ Phase(status') = "applying"
       /\ Final' = "planned" /\ NeedsApply' = NeedsApply)
      => Contract!ReturnsWhileConfirming
  BY DEF Contract!ReturnsWhileConfirming
<1>4. (/\ Phase(status') = Phase(status)
       /\ NeedsApply' = NeedsApply /\ Returned' = Returned /\ Final' = Final)
      => UNCHANGED Contract!vars
  BY DEF Contract!vars
<1> QED BY <1>1, <1>2, <1>3, <1>4

LEMMA MapsInit == Init => Contract!Init
<1> SUFFICES ASSUME Init PROVE Contract!Init
  OBVIOUS
<1>1. ~Returned /\ Final = NoStatus /\ Phase(status) = "planning"
  BY Phases DEF Init, Returned, Final
<1>2. NeedsApply \in BOOLEAN
  BY DEF NeedsApply
<1> QED BY <1>1, <1>2, SameOperators DEF Contract!Init, Returned, Final

\* Every step of the server, or of the client, is one of RunContract, or none.
LEMMA MapsStep == TriggerInv /\ FinalInv' /\ [Next]_vars => [Contract!Next]_(Contract!vars)
<1> SUFFICES ASSUME TriggerInv, FinalInv', [Next]_vars
             PROVE  [Contract!Next]_(Contract!vars)
  OBVIOUS
<1>1. NeedsApply' = NeedsApply
  BY DEF Next, Server, ServerOnly, PlanEnds, AutoApplies, ApplyStarts, ApplyEnds,
         OperatorStops, DeadlinePasses, ClientStep, PollFails, PollPlan, FetchPlan,
         FetchPolicy, StopAfterPlan, SkipConfirm, Confirm, PollApply, Refetch,
         FetchApply, Evaluate, NeedsApply, vars, expects
<1>2. CASE Server
  <2>1. Returned' = Returned /\ Final' = Final
    BY <1>2 DEF Server, PlanEnds, AutoApplies, ApplyStarts, ApplyEnds, OperatorStops,
                ServerOnly, Returned, Final
  <2>2. Phase(status') \in NextPhases(Phase(status)) \/ Phase(status') = Phase(status)
    BY <1>2, ServerMoves DEF TriggerInv
  <2> QED BY <1>1, <2>1, <2>2, ContractSteps DEF Contract!Next
<1>3. CASE UNCHANGED vars \/ DeadlinePasses \/ Evaluate
  <2>1. Returned' = Returned /\ Final' = Final /\ status' = status
    BY <1>3 DEF vars, server, expects, DeadlinePasses, Evaluate, Polling, Returned, Final
  <2> QED BY <1>1, <2>1, ContractSteps
<1>4. CASE ClientStep /\ ~Evaluate /\ ~Confirm
  <2>1. status' = status /\ ~Returned
    BY <1>4 DEF ClientStep, PollFails, PollPlan, FetchPlan, FetchPolicy, StopAfterPlan,
                SkipConfirm, PollApply, Refetch, FetchApply, Polling, server, Returned
  <2>2. Returned' => Final' \in FinalPhases(NeedsApply, Phase(status))
    BY <1>1, <2>1 DEF FinalInv
  <2>3. ~Returned' => Final' = Final
    BY <2>1 DEF Final
  <2> QED BY <1>1, <2>1, <2>2, <2>3, ContractSteps DEF Contract!Next, Returned
<1>5. CASE Confirm
  <2>1. ~Returned /\ runResult'.finalStatus = runResult.finalStatus
    BY <1>5 DEF Confirm, Returned, TriggerInv, TypeOK
  <2>2. CASE status' = status
    <3>1. Returned' => Final' \in FinalPhases(NeedsApply, Phase(status))
      BY <1>1, <2>2 DEF FinalInv
    <3>2. ~Returned' => Final' = Final
      BY <2>1 DEF Final
    <3> QED BY <1>1, <2>1, <2>2, <3>1, <3>2, ContractSteps DEF Contract!Next, Returned
  <2>3. CASE Confirmable /\ status' = "apply_queued"
    <3>1. /\ Phase(status) = "planned" /\ Phase(status') = "applying"
          /\ status \in {"planned", "policy_checked", "policy_soft_failed"}
      BY <1>5, <2>3, Phases DEF Confirm, Confirmable
    <3>2. Phase(runResult.finalStatus) = "planned"
      <4>1. runResult.finalStatus = runResult.planStatus
        BY <1>5 DEF Confirm, TriggerInv, PointInv
      <4>2. IsPlanPassedStatus(runResult.planStatus)
        BY <1>5 DEF Confirm, GoesToApply
      <4>3. runResult.planStatus # "planned_and_finished"
        BY <3>1 DEF TriggerInv, StatusInv, IsApplyTerminal
      <4> QED BY <4>1, <4>2, <4>3, Phases DEF IsPlanPassedStatus
    <3>3. CASE Returned'
      <4>1. Final' = "planned"
        BY <2>1, <3>2, <3>3 DEF Final
      <4> QED BY <1>1, <2>1, <3>1, <3>3, <4>1, ContractSteps DEF Contract!Next
    <3>4. CASE ~Returned'
      <4>1. Final' = Final
        BY <2>1, <3>4 DEF Final
      <4>2. Phase(status') \in NextPhases(Phase(status))
        BY <3>1 DEF NextPhases
      <4> QED BY <1>1, <2>1, <3>4, <4>1, <4>2, ContractSteps DEF Contract!Next, Returned
    <3> QED BY <3>3, <3>4
  <2>4. status' = status \/ (Confirmable /\ status' = "apply_queued")
    BY <1>5 DEF Confirm
  <2> QED BY <2>2, <2>3, <2>4
<1> QED BY <1>2, <1>3, <1>4, <1>5 DEF Next

\* lifecycle.go may rely on RunContract: the initial states and the steps of
\* TriggerRun are those of the contract.  (That the call returns is left to TLC.)
THEOREM TriggerKeepsContract ==
    Spec => Contract!Init /\ [][Contract!Next]_(Contract!vars)
<1>1. TriggerInv /\ FinalInv' /\ [Next]_vars => [Contract!Next]_(Contract!vars)
  BY MapsStep
<1> QED BY <1>1, MapsInit, FinalAllowed, TriggerInvariant, PTL DEF Spec
=============================================================================
