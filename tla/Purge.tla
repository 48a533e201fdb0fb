------------------------------- MODULE Purge -------------------------------
(***************************************************************************)
(* cloud-runner --purge: PurgeAll of hcptf/client.go, which deletes every  *)
(* policy set and every workspace with the prefix of the regression tests, *)
(* composed with the executions of CloudLifecycle.  Nothing keeps a purge  *)
(* and a suite apart: what the purge listed may be deleted, used or run    *)
(* by an execution when the purge gets to it, an execution may create what *)
(* the purge has not listed, and one that deletes something while the      *)
(* purge reads a list page by page moves what follows to an earlier page.  *)
(***************************************************************************)
EXTENDS CloudLifecycle

\* What befalls the purge; Faults is for the executions.  "others": somebody creates
\* and deletes objects without the prefix.
CONSTANT PurgeFaults

ASSUME PurgeAssumption == PurgeFaults \subseteq AllFaults \cup {"others"}

\* pc: where the purge is; todoPs and todoWs: the entries of the lists not yet dealt
\* with; cur: the workspace at hand; destroy: the destroy runs it queued; errors: whether
\* PolicySetErrors or WorkspaceErrors is not empty.
\* Beside these, where the organisation has the objects of the list being read: those
\* on the pages already read (passed); and a record of what happened: what moved to
\* a page already read without being listed (missed), whether there is a [WARN]
\* line for cur (warned), the executions that lost their workspace or policy set
\* while they ran, to the purge or to another execution (taken), and those that ran
\* since the purge started (beside).
VARIABLE purge

pvars == <<vars, purge>>

PurgePoints == {"idle", "listPs", "morePs", "listWs", "moreWs", "sweep", "destroy",
                "awaitDestroy", "delete", "done", "fatal", "crashed"}
PurgeEnded == {"done", "fatal", "crashed"}
Purging == purge.pc \notin PurgeEnded \cup {"idle"}

NewPurge(pc) == [pc |-> pc, todoPs |-> {}, todoWs |-> {}, cur |-> NoId,
                 destroy |-> [w \in Execs |-> "none"], errors |-> FALSE,
                 passed |-> {}, missed |-> {},
                 warned |-> FALSE, taken |-> {}, beside |-> {}]

\* An object, and whether it was listed before: one that moved to a later page has
\* two entries (bound: no more than two).
Entry == Execs \X BOOLEAN
Listed(todo) == {x[1] : x \in todo}
Entries(found, todo) == {<<o, o \in Listed(todo)>> : o \in found}

PurgeInit == Init /\ purge = NewPurge("idle")

-----------------------------------------------------------------------------

PurgeStart ==
    /\ purge.pc = "idle"
    /\ purge' = [NewPurge("listPs") EXCEPT !.beside = {e \in Execs : Alive(e)},
                                           !.taken = purge.taken]
    /\ UNCHANGED vars

\* ListRegtestPolicySets, a request for each page: some of what is not on the pages
\* read so far, or on the last page all of it.  An error is the end.
ListPolicySets ==
    /\ purge.pc \in {"listPs", "morePs"}
    /\ LET rest == policySets \ purge.passed
       IN  \/ \E found \in SUBSET rest :
                purge' = [purge EXCEPT !.pc = "morePs", !.passed = @ \cup found,
                                       !.todoPs = @ \cup Entries(found, @)]
           \/ purge' = [purge EXCEPT !.pc = "listWs", !.passed = {},
                                     !.todoPs = @ \cup Entries(rest, @)]
           \/ "fail" \in PurgeFaults /\ purge' = [purge EXCEPT !.pc = "fatal", !.passed = {}]
    /\ UNCHANGED vars

\* Mutant: the first page is taken for the list.
ListOnePage ==
    /\ purge.pc = "listWs"
    /\ \E found \in SUBSET workspaces :
         purge' = [purge EXCEPT !.pc = "sweep", !.todoWs = Entries(found, {})]
    /\ UNCHANGED vars

\* ListRegtestWorkspaces, likewise.
ListWorkspaces ==
    /\ purge.pc \in {"listWs", "moreWs"}
    /\ LET rest == workspaces \ purge.passed
       IN  \/ \E found \in SUBSET rest :
                purge' = [purge EXCEPT !.pc = "moreWs", !.passed = @ \cup found,
                                       !.todoWs = @ \cup Entries(found, @)]
           \/ purge' = [purge EXCEPT !.pc = "sweep", !.passed = {},
                                     !.todoWs = @ \cup Entries(rest, @)]
           \/ "fail" \in PurgeFaults /\ purge' = [purge EXCEPT !.pc = "fatal", !.passed = {}]
    /\ UNCHANGED vars

\* The execution x, if it runs, loses what the purge deletes.
Taken(x) == purge.taken \cup {e \in {x} : Alive(e)}

\* A set that is gone by now counts as an error.
DeleteListedPolicySet ==
    /\ purge.pc = "sweep"
    /\ \E x \in purge.todoPs :
         LET p == x[1]
             Counts(err) == purge' = [purge EXCEPT
                             !.todoPs = @ \ {x}, !.errors = @ \/ err,
                             !.taken = IF p \in policySets \ policySets'
                                       THEN Taken(p) ELSE @]
         IN \/ /\ p \in policySets
               /\ DeletesPolicySet(p)
               /\ Counts(FALSE) \/ ("lost" \in PurgeFaults /\ Counts(TRUE))
            \/ /\ p \notin policySets \/ "fail" \in PurgeFaults
               /\ UNCHANGED hcp
               /\ Counts(TRUE)
    /\ UNCHANGED exec

\* Mutant: workspaces are not kept waiting for the policy sets.
TakeWorkspaceEarly ==
    /\ purge.pc = "sweep"
    /\ \E x \in purge.todoWs :
         purge' = [purge EXCEPT !.pc = "destroy", !.cur = x[1], !.todoWs = @ \ {x}]
    /\ UNCHANGED vars

\* Mutant: the name of a workspace is taken for its ID.
TakeWorkspaceByName ==
    /\ purge.pc = "sweep"
    /\ purge.todoPs = {}
    /\ \E x \in purge.todoWs :
         purge' = [purge EXCEPT !.pc = "destroy", !.cur = CaseOf[x[1]],
                                !.todoWs = @ \ {x}]
    /\ UNCHANGED vars

\* The second loop starts when the first is through.
TakeWorkspace ==
    /\ purge.pc = "sweep"
    /\ purge.todoPs = {}
    /\ \E x \in purge.todoWs :
         purge' = [purge EXCEPT !.pc = "destroy", !.cur = x[1], !.todoWs = @ \ {x}]
    /\ UNCHANGED vars

\* The [WARN] line, after which the workspace is deleted all the same.
Warns == purge' = [purge EXCEPT !.pc = "delete", !.warned = TRUE]

\* TriggerDestroyRun up to its wait.
QueuePurgeDestroy ==
    /\ purge.pc = "destroy"
    /\ \/ /\ purge.cur \in workspaces
          /\ \/ purge' = [purge EXCEPT !.pc = "awaitDestroy",
                                       !.destroy[purge.cur] = "queued"]
             \/ /\ "lost" \in PurgeFaults
                /\ purge' = [purge EXCEPT !.pc = "delete",
                                          !.destroy[purge.cur] = "queued",
                                          !.warned = TRUE]
       \/ /\ purge.cur \notin workspaces \/ "fail" \in PurgeFaults
          /\ Warns
    /\ UNCHANGED vars

\* The organisation runs it, as DestroyEnds.
PurgeDestroyEnds(w) ==
    /\ purge.destroy[w] = "queued"
    /\ w \in workspaces
    /\ run[w] \in Over \cup {NoRun}
    /\ \/ /\ purge' = [purge EXCEPT !.destroy[w] = "done"]
          /\ resources' = resources \ {w}
       \/ /\ AttachedTo(w) # {} \/ "destroy" \in PurgeFaults
          /\ purge' = [purge EXCEPT !.destroy[w] = "failed"]
          /\ resources' = resources
    /\ UNCHANGED <<workspaces, policySets, attached, run, destroy, exec>>

\* Mutant: the destroy run is queued and not waited for.
PurgeAwaitsNothing ==
    /\ purge.pc = "awaitDestroy"
    /\ purge' = [purge EXCEPT !.pc = "delete"]
    /\ UNCHANGED vars

\* The wait for its end, 15 minutes at most.  A destroy run that ends "errored"
\* is no error.
AwaitPurgeDestroy ==
    /\ purge.pc = "awaitDestroy"
    /\ \/ /\ purge.destroy[purge.cur] \in {"done", "failed"}
          /\ purge' = [purge EXCEPT !.pc = "delete"]
       \/ /\ purge.cur \notin workspaces \/ PurgeFaults \cap {"fail", "slow"} # {}
          /\ Warns
    /\ UNCHANGED vars

DeleteListedWorkspace ==
    LET w == purge.cur
        Counts(err) == purge' = [purge EXCEPT
                        !.pc = "sweep", !.cur = NoId, !.warned = FALSE,
                        !.errors = @ \/ err,
                        !.taken = IF w \in workspaces \ workspaces'
                                  THEN Taken(w) ELSE @]
    IN  /\ purge.pc = "delete"
        /\ \/ /\ w \in workspaces
              /\ DeletesWorkspace(w)
              /\ Counts(FALSE) \/ ("lost" \in PurgeFaults /\ Counts(TRUE))
           \/ /\ w \notin workspaces \/ "fail" \in PurgeFaults
              /\ UNCHANGED hcp
              /\ Counts(TRUE)
        /\ UNCHANGED exec

\* runPurge: exit code 1 if there are errors, and 0 otherwise.
PurgeReturns ==
    /\ purge.pc = "sweep"
    /\ purge.todoPs = {} /\ purge.todoWs = {}
    /\ purge' = [purge EXCEPT !.pc = "done"]
    /\ UNCHANGED vars

PurgeCrash ==
    /\ "crash" \in PurgeFaults
    /\ Purging
    /\ purge' = [NewPurge("crashed") EXCEPT !.taken = purge.taken]
    /\ UNCHANGED vars

PurgeStep ==
    \/ ListPolicySets
    \/ ListWorkspaces
    \/ DeleteListedPolicySet
    \/ TakeWorkspace
    \/ QueuePurgeDestroy
    \/ AwaitPurgeDestroy
    \/ DeleteListedWorkspace
    \/ PurgeReturns

\* Who loses something by the step of another execution, which only happens when
\* two invocations of a case overlap.
Robbed == {e \in Execs :
              /\ Alive(e) /\ exec'[e] = exec[e]
              /\ e \in (workspaces \ workspaces') \cup (policySets \ policySets')}

\* Between two pages: the organisation cuts the pages anew for each request.
BetweenPages == purge.pc \in {"morePs", "moreWs"}

\* The list being read, before a step of somebody else and after it.
ListBefore == IF purge.pc = "morePs" THEN policySets ELSE workspaces
ListAfter == IF purge.pc = "morePs" THEN policySets' ELSE workspaces'

AtMostOneOf(S) == {{}} \cup {{x} : x \in S}

\* What may lie on the pages already read after that step.  In place of an object
\* deleted there the next one moves up, and one created there moves another one down;
\* the one that crosses the edge may be somebody else's.  The order is not known.
Passed ==
    LET kept == purge.passed \cap ListAfter
        new == ListAfter \ ListBefore
    IN  {kept}
        \cup (IF kept = purge.passed THEN {}
              ELSE {kept \cup up : up \in AtMostOneOf(ListAfter \ kept)})
        \cup (IF new = {} THEN {}
              ELSE {(kept \cup new) \ down : down \in AtMostOneOf(kept)})

\* What moved up unlisted.
MovedUp(passed) ==
    (passed \cap ListBefore)
        \ (purge.passed \cup Listed(IF purge.pc = "morePs" THEN purge.todoPs
                                                         ELSE purge.todoWs))

\* A step of CloudLifecycle.
SuiteStep ==
    /\ Next
    /\ LET running == IF purge.pc = "idle" THEN {} ELSE {e \in Execs : Alive(e)'}
       IN  \E passed \in IF BetweenPages THEN Passed ELSE {{}} :
             purge' = [purge EXCEPT !.taken = @ \cup Robbed, !.beside = @ \cup running,
                                    !.passed = passed, !.missed = @ \cup MovedUp(passed)]

\* Somebody creates or deletes an object without the prefix on a page already read.
OthersMove ==
    /\ "others" \in PurgeFaults
    /\ BetweenPages
    /\ \E o \in ListBefore :
         LET passed == IF o \in purge.passed THEN purge.passed \ {o}
                                            ELSE purge.passed \cup {o}
         IN  purge' = [purge EXCEPT !.passed = passed, !.missed = @ \cup MovedUp(passed)]
    /\ UNCHANGED vars

PurgeNext ==
    \/ SuiteStep
    \/ OthersMove
    \/ PurgeStart
    \/ PurgeStep
    \/ \E w \in Execs : PurgeDestroyEnds(w)
    \/ PurgeCrash

PurgeSpec == PurgeInit /\ [][PurgeNext]_pvars

-----------------------------------------------------------------------------
(* Properties.                                                             *)

\* Types of the variables; those of CloudLifecycle keep theirs.
PurgeTypeOK ==
    /\ TypeOK
    /\ purge \in [pc : PurgePoints, todoPs : SUBSET Entry,
                  todoWs : SUBSET Entry, cur : Execs \cup {NoId},
                  destroy : [Execs -> DestroyStates], errors : BOOLEAN,
                  passed : SUBSET Execs, missed : SUBSET Execs,
                  warned : BOOLEAN, taken : SUBSET Execs,
                  beside : SUBSET Execs]

\* client.go:441-443: policy sets first.  No policy set can stop the destroy run
\* of a purge, but one whose deletion failed, which the exit code says, the one of
\* an execution beside the purge, which may be younger than the list, or one that
\* moved past the purge while it read the list.
PurgeUnhindered ==
    purge.pc = "awaitDestroy" /\ AttachedTo(purge.cur) # {}
        => purge.errors \/ purge.cur \in purge.beside \cup purge.missed

\* "Purge completed successfully": what is left with the prefix belongs to
\* executions that ran since the purge started, or moved from a page not yet read
\* to one already read.  (The latter goes by unnoticed: the exit code is 0.)
PurgeComplete ==
    purge.pc = "done" /\ ~purge.errors
        => workspaces \cup policySets \subseteq purge.beside \cup purge.missed

\* A purge that is alone deletes a workspace whose resources still exist only
\* with a [WARN] line or after a destroy run that failed.  (The latter goes by
\* unnoticed: the exit code is 0.)
PurgeOrphanExplained ==
    [][ \A w \in workspaces \cap resources :
          purge.pc = "delete" /\ purge.cur = w /\ w \notin workspaces'
            => \/ purge.warned
               \/ purge.destroy[w] = "failed"
               \/ w \in purge.beside ]_pvars

\* An execution whose workspace or policy set was deleted under it, by a purge or
\* by another invocation of its case, never returns as if nothing had happened.
PurgeVisible ==
    \A e \in purge.taken :
        exec[e].pc = "done" /\ Cleanup
            => exec[e].fatal \/ exec[e].warned \/ ~exec[e].cleanupOK

Disturbed == INSTANCE CaseContract WITH
    stage <- [e \in Execs |-> StageOf(e)],
    robbed <- purge.taken,
    clean <- {e \in Execs : ReturnedClean(e)},
    Undisturbed <- FALSE

\* Beside a purge, or overlapping, executions keep what is left of their contract:
\* one object of a name at a time, no removal that is not one of the case or of the
\* purge, and a clean result only for an execution that lost nothing to
\* somebody else and leaves nothing of its own.
PurgeKeepsContract == Disturbed!Safety
=============================================================================
