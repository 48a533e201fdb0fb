---------------------------- MODULE CaseContract ----------------------------
(***************************************************************************)
(* What runner.Run promises the organisation it tests against, without     *)
(* requests, errors, retries or recovery: the workspaces, policy sets and  *)
(* resources the organisation holds, who may create or remove them, and    *)
(* what the result of an execution may claim.  An object is named after    *)
(* its case, belongs to the execution that created it, and the name is     *)
(* held once.                                                              *)
(*                                                                         *)
(* A result is clean when it has no FatalErr, no warning and CleanupOK.    *)
(***************************************************************************)
CONSTANTS
    Execs,       \* executions
    CaseOf,      \* the case an execution runs
    Undisturbed  \* one execution of a case at a time, and no purge

VARIABLES
    stage,       \* of each execution
    workspaces,
    policySets,
    resources,   \* workspaces that have resources in AWS
    robbed,      \* executions that lost an object to somebody else
    clean        \* executions with a clean result

objects == <<workspaces, policySets, robbed>>
vars == <<stage, objects, resources, clean>>

Stages == {"idle", "running", "returned", "crashed"}

SameCase(e) == {x \in Execs : CaseOf[x] = CaseOf[e]}
Runs(e) == stage[e] = "running"

Init ==
    /\ stage = [e \in Execs |-> "idle"]
    /\ workspaces = {}
    /\ policySets = {}
    /\ resources = {}
    /\ robbed = {}
    /\ clean = {}

Begin(e) ==
    /\ stage[e] = "idle"
    /\ Undisturbed => \A x \in SameCase(e) : ~Runs(x)
    /\ stage' = [stage EXCEPT ![e] = "running"]
    /\ UNCHANGED <<objects, resources, clean>>

-----------------------------------------------------------------------------
(* What an execution does to the organisation.                             *)

CreatesWorkspace(e) ==
    /\ workspaces \cap SameCase(e) = {}
    /\ workspaces' = workspaces \cup {e}
    /\ UNCHANGED <<policySets, robbed>>

CreatesPolicySet(e) ==
    /\ e \in workspaces
    /\ policySets \cap SameCase(e) = {}
    /\ policySets' = policySets \cup {e}
    /\ UNCHANGED <<workspaces, robbed>>

\* One object of x goes.
Removed(x) ==
    \/ /\ x \in workspaces
       /\ workspaces' = workspaces \ {x}
       /\ policySets' = policySets
    \/ /\ x \in policySets
       /\ policySets' = policySets \ {x}
       /\ workspaces' = workspaces

\* Its own, or a leftover of its case.
Removes(e, x) ==
    /\ Removed(x)
    /\ Undisturbed => x = e \/ ~Runs(x)
    /\ robbed' = robbed \cup {y \in {x} : y # e /\ Runs(y)}

Returns(e) ==
    /\ stage' = [stage EXCEPT ![e] = "returned"]
    /\ \/ clean' = clean
       \/ /\ clean' = clean \cup {e}
          /\ e \notin robbed
          /\ e \notin workspaces' \cup policySets'
          /\ Undisturbed => (workspaces' \cup policySets') \cap SameCase(e) = {}

\* Run may return on the answer to its last request.
Call(e) ==
    /\ Runs(e)
    /\ \/ CreatesWorkspace(e)
       \/ CreatesPolicySet(e)
       \/ \E x \in SameCase(e) : Removes(e, x)
       \/ UNCHANGED objects
    /\ Returns(e) \/ UNCHANGED <<stage, clean>>
    /\ UNCHANGED resources

Dies(e) ==
    /\ Runs(e)
    /\ stage' = [stage EXCEPT ![e] = "crashed"]
    /\ UNCHANGED <<objects, resources, clean>>

-----------------------------------------------------------------------------
(* What others do.                                                         *)

\* The runs of a workspace create its resources and destroy them.
Provisions(w) ==
    /\ w \in workspaces
    /\ resources' \in {resources \cup {w}, resources \ {w}}
    /\ UNCHANGED <<stage, objects, clean>>

Purges(x) ==
    /\ ~Undisturbed
    /\ Removed(x)
    /\ robbed' = robbed \cup {y \in {x} : Runs(y)}
    /\ UNCHANGED <<stage, resources, clean>>

Next == \E e \in Execs :
    Begin(e) \/ Call(e) \/ Dies(e) \/ Provisions(e) \/ Purges(e)

Safety == Init /\ [][Next]_vars

\* An execution that began ends.
Fairness == \A e \in Execs :
    WF_vars((Call(e) /\ stage'[e] = "returned") \/ Dies(e))

Spec == Safety /\ Fairness

-----------------------------------------------------------------------------
(* What follows from it.                                                   *)

\* Types of the variables.
TypeOK ==
    /\ stage \in [Execs -> Stages]
    /\ workspaces \subseteq Execs
    /\ policySets \subseteq Execs
    /\ resources \subseteq Execs
    /\ robbed \subseteq Execs
    /\ clean \subseteq Execs

\* The name of a case never stands for two workspaces, or two policy sets.
NamesHeldOnce ==
    /\ \A x, y \in workspaces : CaseOf[x] = CaseOf[y] => x = y
    /\ \A x, y \in policySets : CaseOf[x] = CaseOf[y] => x = y

\* A clean result is final: what the execution had is gone and stays gone, and
\* nobody had taken any of it before.
CleanIsFinal ==
    \A e \in clean :
        /\ stage[e] = "returned"
        /\ e \notin workspaces \cup policySets \cup robbed

\* Executions of a case that follow each other lose nothing to each other.
NobodyRobbed == Undisturbed => robbed = {}

\* While an execution runs, no other one creates or removes an object with the
\* names of its case.
Isolated ==
    [][ Undisturbed =>
          \A e, x \in Execs :
            Runs(e) /\ x # e /\ Call(x) =>
                /\ workspaces' \cap SameCase(e) = workspaces \cap SameCase(e)
                /\ policySets' \cap SameCase(e) = policySets \cap SameCase(e) ]_vars
=============================================================================
