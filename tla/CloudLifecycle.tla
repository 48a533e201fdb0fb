--------------------------- MODULE CloudLifecycle ---------------------------
(***************************************************************************)
(* Executions of test cases against HCP Terraform: runner.Run of           *)
(* lifecycle.go with the calls it makes of hcptf/client.go, from the       *)
(* creation of the workspace to the deferred cleanup, and the recovery     *)
(* from what an earlier execution of the same case left behind.            *)
(*                                                                         *)
(* An execution is one call of Run.  Several executions of one case are    *)
(* successive invocations of the program; a crash (a kill, or a panic in   *)
(* another goroutine) may end one anywhere.  The objects an execution      *)
(* creates carry its name: it creates at most one workspace and at most    *)
(* one policy set.  What the organisation does is external.                *)
(***************************************************************************)
EXTENDS RunStatus, FiniteSets

CONSTANTS
    Execs,       \* executions
    Cases,       \* test cases; their IDs make the names of the objects
    CaseOf,      \* the case an execution runs
    ApplyCases,  \* cases whose ExpectApply is not N/A
    Cleanup,     \* cfg.Cleanup
    Faults,
    NoId         \* the empty string

\* "crash": the process dies; "fail": a call fails without effect; "lost": a
\* call takes effect and its answer is lost; "http500": the policy set is
\* created and the answer is a 5xx; "gateway": a 5xx, and nothing was created;
\* "slow": a wait for a destroy run reaches its deadline; "destroy": a destroy
\* run fails by itself; "overlap": two invocations of a case at the same time;
\* "limit": the organisation may refuse a policy set while it has one.
AllFaults == {"crash", "fail", "lost", "http500", "gateway", "slow", "destroy",
              "overlap", "limit"}

ASSUME ConstantsAssumption ==
    /\ CaseOf \in [Execs -> Cases]
    /\ ApplyCases \subseteq Cases
    /\ Cleanup \in BOOLEAN
    /\ Faults \subseteq AllFaults
    /\ NoId \notin Execs

VARIABLES
    workspaces,  \* workspaces that exist
    policySets,  \* policy sets that exist
    attached,    \* the workspace a policy set was created for
    run,         \* phase of the test run of a workspace
    destroy,     \* its destroy run
    resources,   \* workspaces whose run has created resources in AWS
    exec         \* the executions

hcp == <<workspaces, policySets, attached, run, destroy, resources>>
vars == <<hcp, exec>>

NoRun == "none"
DestroyStates == {"none", "queued", "done", "failed"}

NeedsApply(e) == CaseOf[e] \in ApplyCases
SameName(e) == {x \in Execs : CaseOf[x] = CaseOf[e]}

\* The live workspace, or policy set, that has the name e uses.
WorkspacesNamed(e) == workspaces \cap SameName(e)
PolicySetsNamed(e) == policySets \cap SameName(e)

AttachedTo(w) == {p \in policySets : attached[p] = w}

Ended == {"done", "crashed"}
Alive(e) == exec[e].pc \notin Ended \cup {"idle"}

\* An execution with none of its variables set.
At(pc) == [pc |-> pc, ps |-> NoId, stale |-> NoId, final |-> NoStatus,
           fatal |-> FALSE, warned |-> FALSE, cleanupOK |-> FALSE]

Init ==
    /\ workspaces = {}
    /\ policySets = {}
    /\ attached = [e \in Execs |-> NoId]
    /\ run = [e \in Execs |-> NoRun]
    /\ destroy = [e \in Execs |-> "none"]
    /\ resources = {}
    /\ exec = [e \in Execs |-> At("idle")]

-----------------------------------------------------------------------------
(* The organisation.                                                       *)

RunMoves(w) ==
    /\ w \in workspaces
    /\ run[w] # NoRun
    /\ \E p \in NextPhases(run[w]) :
         /\ run' = [run EXCEPT ![w] = p]
         /\ resources' = IF p = "applying" THEN resources \cup {w} ELSE resources
    /\ UNCHANGED <<workspaces, policySets, attached, destroy, exec>>

\* A workspace runs one run at a time.  A policy set that is attached may block
\* the destroy run.
DestroyEnds(w) ==
    /\ w \in workspaces
    /\ destroy[w] = "queued"
    /\ run[w] \in Over \cup {NoRun}
    /\ \/ /\ destroy' = [destroy EXCEPT ![w] = "done"]
          /\ resources' = resources \ {w}
       \/ /\ AttachedTo(w) # {} \/ "destroy" \in Faults
          /\ destroy' = [destroy EXCEPT ![w] = "failed"]
          /\ resources' = resources
    /\ UNCHANGED <<workspaces, policySets, attached, run, exec>>

-----------------------------------------------------------------------------
(* Calls.  A call that reaches the organisation takes effect; "fail" and    *)
(* "lost" make the client see an error.                                    *)

Goto(e, pc) == exec' = [exec EXCEPT ![e].pc = pc]

\* The same at the end of the block that declares staleID.
Leave(e, pc) == exec' = [exec EXCEPT ![e].pc = pc, ![e].stale = NoId]

\* FatalErr once the workspace exists: the deferred cleanup runs.
Fatal(e) == exec' = [exec EXCEPT ![e].pc = "cleanup", ![e].fatal = TRUE]

\* FatalErr before the cleanup is deferred.
FatalEarly(e) == exec' = [exec EXCEPT ![e].pc = "done", ![e].fatal = TRUE]

DeletesWorkspace(w) ==
    /\ workspaces' = workspaces \ {w}
    /\ attached' = [p \in Execs |-> IF attached[p] = w THEN NoId ELSE attached[p]]
    /\ UNCHANGED <<policySets, run, destroy, resources>>

\* Mutant: the request names no workspace.
CreatesUnscoped(e) ==
    /\ policySets' = policySets \cup {e}
    /\ UNCHANGED <<workspaces, attached, run, destroy, resources>>

CreatesPolicySet(e) ==
    /\ policySets' = policySets \cup {e}
    /\ attached' = [attached EXCEPT ![e] = e]
    /\ UNCHANGED <<workspaces, run, destroy, resources>>

DeletesPolicySet(p) ==
    /\ policySets' = policySets \ {p}
    /\ UNCHANGED <<workspaces, attached, run, destroy, resources>>

QueuesDestroy(w) ==
    /\ destroy' = [destroy EXCEPT ![w] = "queued"]
    /\ UNCHANGED <<workspaces, policySets, attached, run, resources>>

-----------------------------------------------------------------------------
(* The workspace.                                                          *)

\* The invocation starts.
Start(e) ==
    /\ exec[e].pc = "idle"
    /\ "overlap" \in Faults \/ \A x \in SameName(e) : ~Alive(x)
    /\ Goto(e, "createWs")
    /\ UNCHANGED hcp

\* The first creation, and the second one after the recovery.  The fallback of
\* createWorkspace to a stable Terraform version is a part of the one call.
CreateWorkspace(e) ==
    /\ exec[e].pc \in {"createWs", "recreateWs"}
    /\ \/ /\ WorkspacesNamed(e) = {}
          /\ workspaces' = workspaces \cup {e}
          /\ UNCHANGED <<policySets, attached, run, destroy, resources>>
          /\ Goto(e, "createPs") \/ ("lost" \in Faults /\ FatalEarly(e))
       \/ /\ WorkspacesNamed(e) # {}
          /\ UNCHANGED hcp
          /\ IF exec[e].pc = "createWs" THEN Goto(e, "findWs") ELSE FatalEarly(e)
       \/ /\ "fail" \in Faults
          /\ UNCHANGED hcp
          /\ FatalEarly(e)

\* Mutant: the name is not compared.
FindAnyWorkspace(e) ==
    /\ exec[e].pc = "findWs"
    /\ UNCHANGED hcp
    /\ \E w \in workspaces :
         exec' = [exec EXCEPT ![e].pc = "destroyStale", ![e].stale = w]

FindStaleWorkspace(e) ==
    /\ exec[e].pc = "findWs"
    /\ UNCHANGED hcp
    /\ \/ \E w \in WorkspacesNamed(e) :
            exec' = [exec EXCEPT ![e].pc = "destroyStale", ![e].stale = w]
       \/ /\ WorkspacesNamed(e) = {} \/ "fail" \in Faults
          /\ Goto(e, "recreateWs")

\* TriggerDestroyRun up to its wait, on a workspace that may be gone by now.
DestroyStale(e) ==
    LET w == exec[e].stale
    IN  /\ exec[e].pc = "destroyStale"
        /\ \/ /\ w \in workspaces
              /\ QueuesDestroy(w)
              /\ Goto(e, "awaitStale") \/ ("lost" \in Faults /\ Goto(e, "deleteStale"))
           \/ /\ w \notin workspaces \/ "fail" \in Faults
              /\ UNCHANGED hcp
              /\ Goto(e, "deleteStale")

\* The result of the wait is ignored.
AwaitStale(e) ==
    LET w == exec[e].stale
    IN  /\ exec[e].pc = "awaitStale"
        /\ \/ destroy[w] \in {"done", "failed"}
           \/ w \notin workspaces
           \/ Faults \cap {"fail", "slow"} # {}
        /\ UNCHANGED hcp
        /\ Goto(e, "deleteStale")

\* So is the result of the deletion.
DeleteStale(e) ==
    LET w == exec[e].stale
    IN  /\ exec[e].pc = "deleteStale"
        /\ \/ DeletesWorkspace(w)
           \/ "fail" \in Faults /\ UNCHANGED hcp
        /\ Leave(e, "recreateWs")

-----------------------------------------------------------------------------
(* The policy set.                                                         *)

CreatePolicySet(e) ==
    /\ exec[e].pc \in {"createPs", "recreatePs"}
    /\ \/ /\ e \in workspaces
          /\ PolicySetsNamed(e) = {}
          /\ CreatesPolicySet(e)
          /\ \/ exec' = [exec EXCEPT ![e].pc = "prepare", ![e].ps = e]
             \/ "http500" \in Faults /\ Goto(e, "recoverPs")
             \/ "lost" \in Faults /\ Fatal(e)
       \/ /\ e \in workspaces
          /\ PolicySetsNamed(e) # {}
          /\ UNCHANGED hcp
          /\ IF exec[e].pc = "createPs" THEN Goto(e, "findPs") ELSE Fatal(e)
       \/ /\ "gateway" \in Faults
          /\ UNCHANGED hcp
          /\ Goto(e, "recoverPs")
       \/ /\ \/ e \notin workspaces
             \/ "fail" \in Faults
             \/ "limit" \in Faults /\ policySets # {}
          /\ UNCHANGED hcp
          /\ Fatal(e)

\* After a 5xx, whatever set has the name is taken for the new one.
RecoverPolicySet(e) ==
    /\ exec[e].pc = "recoverPs"
    /\ UNCHANGED hcp
    /\ \/ \E p \in PolicySetsNamed(e) :
            exec' = [exec EXCEPT ![e].pc = "prepare", ![e].ps = p]
       \/ PolicySetsNamed(e) = {} /\ Fatal(e)
       \/ "fail" \in Faults /\ Fatal(e)

\* Mutant: the name is taken for the ID.
FindByName(e) ==
    /\ exec[e].pc = "findPs"
    /\ UNCHANGED hcp
    /\ exec' = [exec EXCEPT ![e].pc = "deletePs", ![e].stale = CaseOf[e]]

\* After a 422 for the name.
FindStalePolicySet(e) ==
    /\ exec[e].pc = "findPs"
    /\ UNCHANGED hcp
    /\ \/ \E p \in PolicySetsNamed(e) :
            exec' = [exec EXCEPT ![e].pc = "deletePs", ![e].stale = p]
       \/ PolicySetsNamed(e) = {} /\ Fatal(e)
       \/ "fail" \in Faults /\ Fatal(e)

DeleteStalePolicySet(e) ==
    /\ exec[e].pc = "deletePs"
    /\ \/ DeletesPolicySet(exec[e].stale)
       \/ "fail" \in Faults /\ UNCHANGED hcp
    /\ Leave(e, "recreatePs")

-----------------------------------------------------------------------------
(* The run.                                                                *)

\* WaitPolicySetReady, ConfigTarball, UploadConfig: on error the case is over.  (The
\* poll of UploadConfig panics when its read fails: a Crash.)
Prepare(e) ==
    /\ exec[e].pc = "prepare"
    /\ UNCHANGED hcp
    /\ \/ exec[e].ps \in policySets /\ e \in workspaces /\ Goto(e, "trigger")
       \/ exec[e].ps \notin policySets /\ Fatal(e)
       \/ e \notin workspaces /\ Fatal(e)
       \/ "fail" \in Faults /\ Fatal(e)

Trigger(e) ==
    /\ exec[e].pc = "trigger"
    /\ \/ /\ e \in workspaces
          /\ run' = [run EXCEPT ![e] = "planning"]
          /\ UNCHANGED <<workspaces, policySets, attached, destroy, resources>>
          /\ Goto(e, "await") \/ ("lost" \in Faults /\ Fatal(e))
       \/ /\ e \notin workspaces \/ "fail" \in Faults
          /\ UNCHANGED hcp
          /\ Fatal(e)

\* Where Run goes when the verdict is in: a destroy run, or straight to the
\* deferred cleanup.
AfterRun(e, f) ==
    IF NeedsApply(e) /\ f \in {"applied", "errored"} THEN "detach" ELSE "cleanup"

Settle(e, f) == exec' = [exec EXCEPT ![e].pc = AfterRun(e, f), ![e].final = f]

\* TriggerRun returns, as RunContract says.
Await(e) ==
    /\ exec[e].pc = "await"
    /\ \/ /\ \E f \in FinalPhases(NeedsApply(e), run[e]) : Settle(e, f)
          /\ UNCHANGED hcp
       \/ /\ "lost" \in Faults
          /\ run[e] = "planned"
          /\ e \in workspaces
          /\ run' = [run EXCEPT ![e] = "applying"]
          /\ resources' = resources \cup {e}
          /\ UNCHANGED <<workspaces, policySets, attached, destroy>>
          /\ Settle(e, "planned")

-----------------------------------------------------------------------------
(* The destroy run and the cleanup.                                        *)

\* Mutant: the destroy run is triggered with the policy set attached.
DetachForgotten(e) ==
    /\ exec[e].pc = "detach"
    /\ UNCHANGED hcp
    /\ Goto(e, "queueDestroy")

\* Mutant: psID is cleared whether or not the deletion worked.
DetachUnchecked(e) ==
    /\ exec[e].pc = "detach"
    /\ \/ DeletesPolicySet(exec[e].ps)
       \/ "fail" \in Faults /\ UNCHANGED hcp
    /\ exec' = [exec EXCEPT ![e].pc = "queueDestroy", ![e].ps = NoId]

\* The policy set is deleted whatever cfg.Cleanup says.
Detach(e) ==
    LET p == exec[e].ps
    IN  /\ exec[e].pc = "detach"
        /\ \/ /\ p \in policySets
              /\ DeletesPolicySet(p)
              /\ exec' = [exec EXCEPT ![e].pc = "queueDestroy", ![e].ps = NoId]
           \/ /\ p \notin policySets \/ "fail" \in Faults
              /\ UNCHANGED hcp
              /\ exec' = [exec EXCEPT ![e].pc = "queueDestroy", ![e].warned = TRUE]
           \/ /\ "lost" \in Faults
              /\ DeletesPolicySet(p)
              /\ exec' = [exec EXCEPT ![e].pc = "queueDestroy", ![e].warned = TRUE]

\* Mutant: nobody waits for the destroy run.
DestroyUnawaited(e) ==
    /\ exec[e].pc = "queueDestroy"
    /\ QueuesDestroy(e)
    /\ Goto(e, "cleanup")

QueueDestroy(e) ==
    /\ exec[e].pc = "queueDestroy"
    /\ \/ /\ e \in workspaces
          /\ QueuesDestroy(e)
          /\ \/ Goto(e, "awaitDestroy")
             \/ /\ "lost" \in Faults
                /\ exec' = [exec EXCEPT ![e].pc = "cleanup", ![e].warned = TRUE]
       \/ /\ e \notin workspaces \/ "fail" \in Faults
          /\ UNCHANGED hcp
          /\ exec' = [exec EXCEPT ![e].pc = "cleanup", ![e].warned = TRUE]

\* Mutant: the wait has no deadline.
DestroyAwaitedForever(e) ==
    /\ exec[e].pc = "awaitDestroy"
    /\ UNCHANGED hcp
    /\ destroy[e] \in {"done", "failed"}
    /\ Goto(e, "cleanup")

\* An errored destroy run is not an error of TriggerDestroyRun.
AwaitDestroy(e) ==
    /\ exec[e].pc = "awaitDestroy"
    /\ UNCHANGED hcp
    /\ \/ destroy[e] \in {"done", "failed"} /\ Goto(e, "cleanup")
       \/ /\ e \notin workspaces \/ Faults \cap {"fail", "slow"} # {}
          /\ exec' = [exec EXCEPT ![e].pc = "cleanup", ![e].warned = TRUE]

\* The deferred function starts with cleanupOK := true.
CleanupPolicySet(e) ==
    LET p == exec[e].ps
        Next(ok) == exec' = [exec EXCEPT ![e].pc = "cleanupWs", ![e].cleanupOK = ok]
    IN  /\ exec[e].pc = "cleanup"
        /\ Cleanup
        /\ \/ p = NoId /\ UNCHANGED hcp /\ Next(TRUE)
           \/ /\ p \in policySets
              /\ DeletesPolicySet(p)
              /\ Next(TRUE) \/ ("lost" \in Faults /\ Next(FALSE))
           \/ /\ p # NoId
              /\ p \notin policySets \/ "fail" \in Faults
              /\ UNCHANGED hcp
              /\ Next(FALSE)

\* Mutant: a workspace that is gone already counts as deleted.
CleanupAbsentOK(e) ==
    LET Next(ok) == exec' = [exec EXCEPT ![e].pc = "done", ![e].cleanupOK = ok]
    IN  /\ exec[e].pc = "cleanupWs"
        /\ \/ DeletesWorkspace(e) /\ Next(exec[e].cleanupOK)
           \/ "fail" \in Faults /\ UNCHANGED hcp /\ Next(FALSE)

CleanupWorkspace(e) ==
    LET Next(ok) == exec' = [exec EXCEPT ![e].pc = "done", ![e].cleanupOK = ok]
    IN  /\ exec[e].pc = "cleanupWs"
        /\ \/ /\ e \in workspaces
              /\ DeletesWorkspace(e)
              /\ \/ Next(exec[e].cleanupOK)
                 \/ "lost" \in Faults /\ Next(FALSE)
           \/ /\ e \notin workspaces \/ "fail" \in Faults
              /\ UNCHANGED hcp
              /\ Next(FALSE)

SkipCleanup(e) ==
    /\ exec[e].pc = "cleanup"
    /\ ~Cleanup
    /\ Goto(e, "done")
    /\ UNCHANGED hcp

Crash(e) ==
    /\ "crash" \in Faults
    /\ Alive(e)
    /\ exec' = [exec EXCEPT ![e] = At("crashed")]
    /\ UNCHANGED hcp

Step(e) ==
    \/ CreateWorkspace(e)
    \/ FindStaleWorkspace(e)
    \/ DestroyStale(e)
    \/ AwaitStale(e)
    \/ DeleteStale(e)
    \/ CreatePolicySet(e)
    \/ RecoverPolicySet(e)
    \/ FindStalePolicySet(e)
    \/ DeleteStalePolicySet(e)
    \/ Prepare(e)
    \/ Trigger(e)
    \/ Await(e)
    \/ Detach(e)
    \/ QueueDestroy(e)
    \/ AwaitDestroy(e)
    \/ CleanupPolicySet(e)
    \/ CleanupWorkspace(e)
    \/ SkipCleanup(e)

Next ==
    \/ \E e \in Execs : Start(e) \/ Step(e) \/ Crash(e)
    \/ \E w \in Execs : RunMoves(w) \/ DestroyEnds(w)

\* Each goroutine is scheduled and its requests are answered; nothing is
\* assumed of the organisation.
Fairness == \A e \in Execs : WF_vars(Step(e))

Spec == Init /\ [][Next]_vars /\ Fairness

-----------------------------------------------------------------------------
(* Properties.                                                             *)

Starting == {"idle", "createWs", "findWs", "destroyStale", "awaitStale",
             "deleteStale", "recreateWs"}
Attaching == {"createPs", "recoverPs", "findPs", "deletePs", "recreatePs"}
Testing == {"prepare", "trigger", "await"}
Destroying == {"detach", "queueDestroy", "awaitDestroy"}
Cleaning == {"cleanup", "cleanupWs"}
Points == Starting \cup Attaching \cup Testing \cup Destroying \cup Cleaning
          \cup Ended

\* Types of the variables.
TypeOK ==
    /\ workspaces \subseteq Execs
    /\ policySets \subseteq Execs
    /\ attached \in [Execs -> Execs \cup {NoId}]
    /\ run \in [Execs -> RunPhases \cup {NoRun}]
    /\ destroy \in [Execs -> DestroyStates]
    /\ resources \subseteq Execs
    /\ exec \in [Execs -> [pc : Points, ps : Execs \cup {NoId},
                           stale : Execs \cup {NoId},
                           final : RunPhases \cup {NoStatus},
                           fatal : BOOLEAN, warned : BOOLEAN,
                           cleanupOK : BOOLEAN]]

\* Between the creation of its workspace and its own cleanup.
HasWorkspace(e) ==
    exec[e].pc \in Attaching \cup Testing \cup Destroying \cup Cleaning

\* Nobody deletes the workspace of a live execution: the recovery of another
\* execution takes the leftovers of its own case only, and finds none that is
\* in use.
OwnWorkspaceLive ==
    "overlap" \notin Faults =>
        \A e \in Execs : HasWorkspace(e) => e \in workspaces

\* A case is run under its own policies: while its run is awaited, the policy
\* set the execution holds exists and is attached to its workspace.  (Not when
\* the set is one that RecoverPolicySet took over from an earlier invocation.)
PolicyInForce ==
    "overlap" \notin Faults =>
        \A e \in Execs :
            /\ exec[e].pc \in Testing
            /\ exec[e].ps = e \/ "gateway" \notin Faults
            => exec[e].ps \in policySets /\ attached[exec[e].ps] = e

\* When the destroy run of a finished case is queued, no policy set is attached
\* to the workspace any more, unless the result carries the warning.
DestroyUnhindered ==
    "overlap" \notin Faults =>
        \A e \in Execs :
            exec[e].pc \in {"queueDestroy", "awaitDestroy"} /\ ~exec[e].warned
                => AttachedTo(e) = {}

Finishes(e) ==
    exec[e].pc # "done" /\ exec'[e].pc = "done" /\ ~exec'[e].fatal

\* When an execution ends with CleanupOK and no FatalErr, no workspace and no
\* policy set with the names of its case is left, those of earlier invocations
\* included.
CleanupLeavesNothing ==
    [][ "overlap" \notin Faults =>
          \A e \in Execs :
            Finishes(e) /\ exec'[e].cleanupOK
            => WorkspacesNamed(e)' \cup PolicySetsNamed(e)' = {} ]_vars

\* Once a run was seen to the end of its apply, its resources stay behind only
\* with a warning in the result, or when the destroy run itself failed.  (Whether
\* anybody reads the warning is another matter: main.go:475 prints the Note of a
\* result only if its Apply does not match.)
OrphanExplained ==
    [][ "overlap" \notin Faults =>
          \A e \in Execs :
            /\ Finishes(e)
            /\ NeedsApply(e) /\ exec[e].final \in {"applied", "errored"}
            /\ e \in resources
            => exec[e].warned \/ destroy[e] = "failed" ]_vars

\* After a crash the next invocation of the case recovers: when the organisation
\* answers (if only with the 500 for a policy set it did create), an execution ends
\* with FatalErr only when a limit on the policy sets of the organisation refuses
\* its own beside one that is left (cloud-runner/README.md:191-194): at the first
\* attempt, or beside those of other cases when its own leftover is gone.
LeftoversRecovered ==
    [][ Faults \subseteq {"crash", "http500", "limit"} =>
          \A e \in Execs :
            ~exec[e].fatal /\ exec'[e].fatal =>
               /\ "limit" \in Faults /\ policySets # {}
               /\ \/ exec[e].pc = "createPs"
                  \/ exec[e].pc = "recreatePs" /\ PolicySetsNamed(e) = {} ]_vars

\* An execution that started ends, whatever the organisation does with its runs.
ExecutionsEnd ==
    \A e \in Execs : exec[e].pc # "idle" ~> exec[e].pc \in Ended

\* lifecycle.go:144-149: the policy set is detached first, because otherwise "the
\* destroy run itself gets blocked by the very policy it was created to
\* exercise, leaving the AWS resources ... orphaned".
DestroyNotBlocked ==
    "destroy" \notin Faults =>
        \A w \in resources : destroy[w] # "failed"

\* lifecycle.go:65: "Keep the policy set until workspace cleanup", after the destroy
\* run; cleanup_test.go:87-95 asserts that order.
PolicySetKeptUntilDestroyed ==
    \A e \in Execs :
        exec[e].pc \in {"queueDestroy", "awaitDestroy"} => e \in policySets

-----------------------------------------------------------------------------
(* The contract of an execution.                                           *)

\* The result has no FatalErr, no warning and CleanupOK, which is what the field says:
\* main.go does not print it.
ReturnedClean(e) ==
    /\ exec[e].pc = "done"
    /\ ~exec[e].fatal /\ ~exec[e].warned /\ exec[e].cleanupOK

\* Where e is, for somebody who does not look into Run.
StageOf(e) ==
    CASE exec[e].pc = "idle" -> "idle"
      [] exec[e].pc = "done" -> "returned"
      [] exec[e].pc = "crashed" -> "crashed"
      [] OTHER -> "running"

Contract == INSTANCE CaseContract WITH
    stage <- [e \in Execs |-> StageOf(e)],
    robbed <- {},
    clean <- {e \in Execs : ReturnedClean(e)},
    Undisturbed <- TRUE

\* Invocations of a case that follow each other ("overlap" is not among Faults) keep
\* the contract: one object of a name at a time, nobody touches what a live
\* execution owns, an execution ends, and its result is clean only if it leaves
\* nothing with the names of its case.
ImplementsContract == Contract!Spec

-----------------------------------------------------------------------------
(* The inductive invariant behind the safety properties, for invocations of *)
(* a case that follow each other.                                          *)

Alone ==
    \A x, y \in Execs :
        Alive(x) /\ Alive(y) /\ CaseOf[x] = CaseOf[y] => x = y

\* The organisation accepts a name once.
NamesUnique ==
    \A x, y \in Execs :
        CaseOf[x] = CaseOf[y] =>
            /\ x \in workspaces /\ y \in workspaces => x = y
            /\ x \in policySets /\ y \in policySets => x = y

WorkspaceInv(e) ==
    /\ exec[e].pc \in Starting => e \notin workspaces
    /\ HasWorkspace(e) => e \in workspaces

\* What a recovery is about to remove is all there is of that name.
StaleInv(e) ==
    /\ exec[e].pc \in {"destroyStale", "awaitStale", "deleteStale", "deletePs"}
          => exec[e].stale \in SameName(e)
    /\ exec[e].pc \in {"destroyStale", "awaitStale", "deleteStale"}
          => WorkspacesNamed(e) \subseteq {exec[e].stale}
    /\ exec[e].pc = "deletePs" => PolicySetsNamed(e) \subseteq {exec[e].stale}

\* A policy set stays attached to its workspace as long as both exist.
AttachedInv(e) ==
    /\ attached[e] \in {e, NoId}
    /\ e \in policySets /\ e \in workspaces => attached[e] = e

PolicySetInv(e) ==
    /\ exec[e].ps # NoId => exec[e].ps \in SameName(e)
    /\ exec[e].pc \in Starting => e \notin policySets
    /\ exec[e].pc \in Starting \cup Attaching => exec[e].ps = NoId
    /\ exec[e].pc \in Testing \cup {"detach"} => exec[e].ps # NoId
    /\ exec[e].pc \in Testing /\ exec[e].ps = e => e \in policySets
    /\ "gateway" \notin Faults =>
          /\ exec[e].pc \in Testing => exec[e].ps = e
          /\ exec[e].pc = "recoverPs" => e \in policySets
    /\ (exec[e].pc \in {"queueDestroy", "awaitDestroy"} /\ ~exec[e].warned)
          => e \notin policySets

\* Without psID, or with cleanupOK, no policy set of the case is left.
DetachInv(e) ==
    ~exec[e].fatal =>
        /\ (exec[e].pc \in {"queueDestroy", "awaitDestroy", "cleanup"}
              /\ exec[e].ps = NoId)
              => PolicySetsNamed(e) = {}
        /\ exec[e].pc = "cleanupWs" /\ exec[e].cleanupOK
              => PolicySetsNamed(e) = {}

FlagsInv(e) ==
    /\ exec[e].pc \in Starting \cup Attaching \cup Testing =>
          /\ exec[e].final = NoStatus
          /\ ~exec[e].fatal
          /\ ~exec[e].warned
          /\ destroy[e] = "none"
    /\ exec[e].pc \notin {"cleanupWs", "done"} => ~exec[e].cleanupOK

DestroyInv(e) ==
    /\ destroy[e] = "done" => e \notin resources /\ run[e] \in Over \cup {NoRun}
    /\ (/\ exec[e].pc \in Cleaning
        /\ NeedsApply(e) /\ exec[e].final \in {"applied", "errored"}
        /\ ~exec[e].warned)
          => destroy[e] \in {"done", "failed"}

RecoveryInv(e) ==
    /\ Faults \subseteq {"crash", "http500"} => ~exec[e].fatal
    /\ Faults \subseteq {"crash", "http500", "limit"} =>
          /\ exec[e].pc = "recreateWs" => WorkspacesNamed(e) = {}
          /\ exec[e].pc = "findPs" => PolicySetsNamed(e) # {}
          /\ exec[e].pc = "recreatePs" => PolicySetsNamed(e) = {}

ExecInv(e) ==
    /\ WorkspaceInv(e)
    /\ StaleInv(e)
    /\ AttachedInv(e)
    /\ PolicySetInv(e)
    /\ DetachInv(e)
    /\ FlagsInv(e)
    /\ DestroyInv(e)
    /\ RecoveryInv(e)

LifecycleInv ==
    /\ TypeOK
    /\ "overlap" \notin Faults =>
          Alone /\ NamesUnique /\ \A e \in Execs : ExecInv(e)
=============================================================================
