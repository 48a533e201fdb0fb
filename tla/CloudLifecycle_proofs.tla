------------------------ MODULE CloudLifecycle_proofs ------------------------
(***************************************************************************)
(* Proofs about CloudLifecycle, for any number of executions and cases and *)
(* any set of faults.                                                      *)
(***************************************************************************)
EXTENDS Integers, CloudLifecycle, TLAPS

USE ConstantsAssumption

\* LifecycleInv when the invocations of a case follow each other.
Inv == TypeOK /\ Alone /\ NamesUnique /\ \A e \in Execs : ExecInv(e)

(* The record of an execution has the fields it is given.                  *)
LEMMA ExecType ==
    ASSUME TypeOK, NEW e \in Execs
    PROVE  /\ exec[e].pc \in Points
           /\ exec[e].ps \in Execs \cup {NoId}
           /\ exec[e].stale \in Execs \cup {NoId}
           /\ exec[e].final \in RunPhases \cup {NoStatus}
           /\ exec[e].fatal \in BOOLEAN
           /\ exec[e].warned \in BOOLEAN
           /\ exec[e].cleanupOK \in BOOLEAN
BY DEF TypeOK

-----------------------------------------------------------------------------
(* What a step of x leaves alone.                                          *)

\* Objects of other cases stay as they are; those of x's case that earlier
\* invocations own are at most removed, or have a destroy run queued.
Footprint(x) ==
    /\ \A y \in Execs \ {x} : exec'[y] = exec[y]
    /\ \A y \in Execs \ SameName(x) :
          /\ y \in workspaces' <=> y \in workspaces
          /\ y \in policySets' <=> y \in policySets
          /\ y \in resources' <=> y \in resources
          /\ attached'[y] = attached[y]
          /\ destroy'[y] = destroy[y]
    /\ \A y \in SameName(x) \ {x} :
          /\ y \in workspaces' => y \in workspaces
          /\ y \in policySets' => y \in policySets
          /\ y \in resources' => y \in resources
          /\ attached'[y] # attached[y]
                => attached'[y] = NoId /\ y \notin workspaces'
          /\ destroy'[y] # destroy[y] => y \in workspaces /\ destroy'[y] = "queued"
    /\ \A y \in Execs \ {x} : run'[y] = run[y]

\* What x creates has a name that is free.
FreeNames(x) ==
    /\ x \in workspaces' => x \in workspaces \/ WorkspacesNamed(x) = {}
    /\ x \in policySets' => x \in policySets \/ PolicySetsNamed(x) = {}

LEMMA NamesKept ==
    ASSUME Inv, NEW x \in Execs, Footprint(x), FreeNames(x)
    PROVE  NamesUnique'
BY DEF Inv, TypeOK, NamesUnique, Footprint, FreeNames, SameName,
       WorkspacesNamed, PolicySetsNamed

LEMMA AloneKept ==
    ASSUME Inv, NEW x \in Execs, Footprint(x), Alive(x)
    PROVE  Alone'
BY DEF Inv, Alone, Footprint, Alive

(* An execution of another case sees nothing of the step.                  *)
LEMMA OtherCaseKept ==
    ASSUME Inv, NEW x \in Execs, Footprint(x),
           NEW e \in Execs, e \notin SameName(x)
    PROVE  ExecInv(e)'
<1>1. /\ exec'[e] = exec[e] /\ e # x
      /\ e \in workspaces' <=> e \in workspaces
      /\ e \in policySets' <=> e \in policySets
      /\ e \in resources' <=> e \in resources
      /\ attached'[e] = attached[e] /\ destroy'[e] = destroy[e]
      /\ run'[e] = run[e]
  BY DEF Footprint, SameName
<1>2. WorkspacesNamed(e)' = WorkspacesNamed(e)
  BY DEF Footprint, SameName, WorkspacesNamed
<1>3. PolicySetsNamed(e)' = PolicySetsNamed(e)
  BY DEF Footprint, SameName, PolicySetsNamed
<1>4. ExecInv(e)
  BY DEF Inv
<1>. QED
  BY <1>1, <1>2, <1>3, <1>4
  DEF ExecInv, WorkspaceInv, StaleInv, AttachedInv, PolicySetInv, DetachInv, FlagsInv,
      DestroyInv, RecoveryInv, HasWorkspace, NeedsApply, SameName

(* An execution of the same case is over, or has not started.              *)
LEMMA SameCaseKept ==
    ASSUME Inv, NEW x \in Execs, Footprint(x), Alive(x),
           NEW e \in SameName(x), e # x
    PROVE  ExecInv(e)'
<1>1. e \in Execs /\ ~Alive(e)
  BY DEF Inv, Alone, SameName
<1>2. exec'[e] = exec[e] /\ exec[e].pc \in {"idle", "done", "crashed"}
  BY <1>1 DEF Footprint, Alive, Ended
<1>3. /\ e \in workspaces' => e \in workspaces
      /\ e \in policySets' => e \in policySets
      /\ e \in resources' => e \in resources
      /\ attached'[e] # attached[e]
            => attached'[e] = NoId /\ e \notin workspaces'
      /\ destroy'[e] # destroy[e] => e \in workspaces /\ destroy'[e] = "queued"
      /\ run'[e] = run[e]
  BY <1>1 DEF Footprint
<1>4. ExecInv(e)
  BY <1>1 DEF Inv
<1>. USE DEF ExecInv
<1>5. WorkspaceInv(e)' /\ StaleInv(e)' /\ DetachInv(e)'
  BY <1>2, <1>3, <1>4 DEF WorkspaceInv, StaleInv, DetachInv, Starting,
     HasWorkspace, Attaching, Testing, Destroying, Cleaning
<1>6. AttachedInv(e)' /\ PolicySetInv(e)'
  BY <1>2, <1>3, <1>4 DEF AttachedInv, PolicySetInv, Starting, Attaching, Testing, SameName
<1>7. FlagsInv(e)'
  BY <1>2, <1>3, <1>4 DEF FlagsInv, Starting, Attaching, Testing, WorkspaceInv
<1>8. DestroyInv(e)' /\ RecoveryInv(e)'
  BY <1>2, <1>3, <1>4 DEF DestroyInv, RecoveryInv, Cleaning
<1>. QED
  BY <1>5, <1>6, <1>7, <1>8

(* So what remains to be shown of a step of x is the part about x.         *)
LEMMA StepKept ==
    ASSUME Inv, NEW x \in Execs, Alive(x), TypeOK', Footprint(x), FreeNames(x),
           ExecInv(x)'
    PROVE  Inv'
<1>1. \A e \in Execs : ExecInv(e)'
  BY OtherCaseKept, SameCaseKept
<1>. QED
  BY <1>1, NamesKept, AloneKept DEF Inv

-----------------------------------------------------------------------------
(* The footprint of each call.                                             *)

OnlyExec(x) == \A y \in Execs \ {x} : exec'[y] = exec[y]

LEMMA QuietFootprint ==
    ASSUME NEW x \in Execs, OnlyExec(x), UNCHANGED hcp
    PROVE  Footprint(x) /\ FreeNames(x)
BY DEF OnlyExec, Footprint, FreeNames, hcp

LEMMA CreateWorkspaceFootprint ==
    ASSUME NEW x \in Execs, OnlyExec(x), WorkspacesNamed(x) = {},
           workspaces' = workspaces \cup {x},
           UNCHANGED <<policySets, attached, run, destroy, resources>>
    PROVE  Footprint(x) /\ FreeNames(x)
BY DEF OnlyExec, Footprint, FreeNames, SameName

LEMMA DeleteWorkspaceFootprint ==
    ASSUME Inv, NEW x \in Execs, OnlyExec(x), NEW w \in SameName(x),
           DeletesWorkspace(w)
    PROVE  Footprint(x) /\ FreeNames(x)
<1>1. \A y \in Execs : attached[y] \in {y, NoId}
  BY DEF Inv, ExecInv, AttachedInv
<1>2. \A y \in Execs : attached'[y] = IF attached[y] = w THEN NoId ELSE attached[y]
  BY DEF DeletesWorkspace
<1>3. \A y \in Execs \ SameName(x) : attached[y] # w
  BY <1>1 DEF SameName
<1>4. SameName(x) \subseteq Execs
  BY DEF SameName
<1>. QED
  BY <1>1, <1>2, <1>3, <1>4 DEF OnlyExec, Footprint, FreeNames, DeletesWorkspace

LEMMA CreatePolicySetFootprint ==
    ASSUME Inv, NEW x \in Execs, OnlyExec(x), PolicySetsNamed(x) = {},
           CreatesPolicySet(x)
    PROVE  Footprint(x) /\ FreeNames(x)
BY DEF Inv, TypeOK, OnlyExec, Footprint, FreeNames, SameName, CreatesPolicySet

LEMMA DeletePolicySetFootprint ==
    ASSUME NEW x \in Execs, OnlyExec(x), NEW p \in SameName(x),
           DeletesPolicySet(p)
    PROVE  Footprint(x) /\ FreeNames(x)
BY DEF OnlyExec, Footprint, FreeNames, DeletesPolicySet

LEMMA QueueDestroyFootprint ==
    ASSUME Inv, NEW x \in Execs, OnlyExec(x), NEW w \in SameName(x),
           w \in workspaces, QueuesDestroy(w)
    PROVE  Footprint(x) /\ FreeNames(x)
BY DEF Inv, TypeOK, OnlyExec, Footprint, FreeNames, SameName, QueuesDestroy

(* And of the assignments to the variables of an execution.                *)
ExecRecord ==
    [pc : Points, ps : Execs \cup {NoId}, stale : Execs \cup {NoId},
     final : RunPhases \cup {NoStatus}, fatal : BOOLEAN, warned : BOOLEAN,
     cleanupOK : BOOLEAN]

\* The fields of exec[x] after a step.
Becomes(x, pc, ps, stale, final, fatal, warned, cleanupOK) ==
    /\ exec' \in [Execs -> ExecRecord]
    /\ OnlyExec(x)
    /\ exec'[x].pc = pc
    /\ exec'[x].ps = ps
    /\ exec'[x].stale = stale
    /\ exec'[x].final = final
    /\ exec'[x].fatal = fatal
    /\ exec'[x].warned = warned
    /\ exec'[x].cleanupOK = cleanupOK

LEMMA GotoBecomes ==
    ASSUME TypeOK, NEW x \in Execs, NEW to \in Points, Goto(x, to)
    PROVE  Becomes(x, to, exec[x].ps, exec[x].stale, exec[x].final,
                   exec[x].fatal, exec[x].warned, exec[x].cleanupOK)
BY DEF TypeOK, ExecRecord, Goto, OnlyExec, Becomes

LEMMA LeaveBecomes ==
    ASSUME TypeOK, NEW x \in Execs, NEW to \in Points, Leave(x, to)
    PROVE  Becomes(x, to, exec[x].ps, NoId, exec[x].final,
                   exec[x].fatal, exec[x].warned, exec[x].cleanupOK)
<1>. DEFINE r == [exec[x] EXCEPT !.pc = to, !.stale = NoId]
<1>1. exec[x] \in ExecRecord
  BY DEF TypeOK, ExecRecord
<1>2. r \in ExecRecord /\ r.pc = to /\ r.ps = exec[x].ps /\ r.stale = NoId
      /\ r.final = exec[x].final /\ r.fatal = exec[x].fatal
      /\ r.warned = exec[x].warned /\ r.cleanupOK = exec[x].cleanupOK
  BY <1>1 DEF ExecRecord
<1>3. exec' = [exec EXCEPT ![x] = r]
  BY DEF Leave, TypeOK
<1>. QED
  BY <1>2, <1>3 DEF TypeOK, ExecRecord, OnlyExec, Becomes

LEMMA FatalBecomes ==
    ASSUME TypeOK, NEW x \in Execs
    PROVE  /\ Fatal(x) =>
                Becomes(x, "cleanup", exec[x].ps, exec[x].stale, exec[x].final,
                        TRUE, exec[x].warned, exec[x].cleanupOK)
           /\ FatalEarly(x) =>
                Becomes(x, "done", exec[x].ps, exec[x].stale, exec[x].final,
                        TRUE, exec[x].warned, exec[x].cleanupOK)
BY DEF TypeOK, ExecRecord, Fatal, FatalEarly, OnlyExec, Becomes, Points,
       Cleaning, Ended

(* The assignments of two fields at once.                                  *)
LEMMA AssignBecomes ==
    ASSUME TypeOK, NEW x \in Execs, NEW to \in Points,
           NEW id \in Execs \cup {NoId}, NEW b \in BOOLEAN,
           NEW f \in RunPhases \cup {NoStatus}
    PROVE  /\ exec' = [exec EXCEPT ![x].pc = to, ![x].ps = id] =>
                Becomes(x, to, id, exec[x].stale, exec[x].final,
                        exec[x].fatal, exec[x].warned, exec[x].cleanupOK)
           /\ exec' = [exec EXCEPT ![x].pc = to, ![x].stale = id] =>
                Becomes(x, to, exec[x].ps, id, exec[x].final,
                        exec[x].fatal, exec[x].warned, exec[x].cleanupOK)
           /\ exec' = [exec EXCEPT ![x].pc = to, ![x].final = f] =>
                Becomes(x, to, exec[x].ps, exec[x].stale, f,
                        exec[x].fatal, exec[x].warned, exec[x].cleanupOK)
           /\ exec' = [exec EXCEPT ![x].pc = to, ![x].warned = b] =>
                Becomes(x, to, exec[x].ps, exec[x].stale, exec[x].final,
                        exec[x].fatal, b, exec[x].cleanupOK)
           /\ exec' = [exec EXCEPT ![x].pc = to, ![x].cleanupOK = b] =>
                Becomes(x, to, exec[x].ps, exec[x].stale, exec[x].final,
                        exec[x].fatal, exec[x].warned, b)
<1>1. exec[x] \in ExecRecord /\ exec \in [Execs -> ExecRecord]
  BY DEF TypeOK, ExecRecord
<1>2. ASSUME NEW r \in ExecRecord, exec' = [exec EXCEPT ![x] = r]
      PROVE  Becomes(x, r.pc, r.ps, r.stale, r.final, r.fatal, r.warned,
                     r.cleanupOK)
  BY <1>1, <1>2 DEF OnlyExec, Becomes
<1>3. ASSUME exec' = [exec EXCEPT ![x].pc = to, ![x].ps = id]
      PROVE  Becomes(x, to, id, exec[x].stale, exec[x].final,
                     exec[x].fatal, exec[x].warned, exec[x].cleanupOK)
  <2>. DEFINE r == [exec[x] EXCEPT !.pc = to, !.ps = id]
  <2>1. exec' = [exec EXCEPT ![x] = r]
    BY <1>1, <1>3
  <2>2. /\ r \in ExecRecord /\ r.pc = to /\ r.ps = id
        /\ r.stale = exec[x].stale /\ r.final = exec[x].final
        /\ r.fatal = exec[x].fatal /\ r.warned = exec[x].warned
        /\ r.cleanupOK = exec[x].cleanupOK
    BY <1>1 DEF ExecRecord
  <2>. HIDE DEF r
  <2>. QED
    BY <1>2, <2>1, <2>2
<1>4. ASSUME exec' = [exec EXCEPT ![x].pc = to, ![x].stale = id]
      PROVE  Becomes(x, to, exec[x].ps, id, exec[x].final,
                     exec[x].fatal, exec[x].warned, exec[x].cleanupOK)
  <2>. DEFINE r == [exec[x] EXCEPT !.pc = to, !.stale = id]
  <2>1. exec' = [exec EXCEPT ![x] = r]
    BY <1>1, <1>4
  <2>2. /\ r \in ExecRecord /\ r.pc = to /\ r.ps = exec[x].ps
        /\ r.stale = id /\ r.final = exec[x].final
        /\ r.fatal = exec[x].fatal /\ r.warned = exec[x].warned
        /\ r.cleanupOK = exec[x].cleanupOK
    BY <1>1 DEF ExecRecord
  <2>. HIDE DEF r
  <2>. QED
    BY <1>2, <2>1, <2>2
<1>5. ASSUME exec' = [exec EXCEPT ![x].pc = to, ![x].final = f]
      PROVE  Becomes(x, to, exec[x].ps, exec[x].stale, f,
                     exec[x].fatal, exec[x].warned, exec[x].cleanupOK)
  <2>. DEFINE r == [exec[x] EXCEPT !.pc = to, !.final = f]
  <2>1. exec' = [exec EXCEPT ![x] = r]
    BY <1>1, <1>5
  <2>2. /\ r \in ExecRecord /\ r.pc = to /\ r.ps = exec[x].ps
        /\ r.stale = exec[x].stale /\ r.final = f
        /\ r.fatal = exec[x].fatal /\ r.warned = exec[x].warned
        /\ r.cleanupOK = exec[x].cleanupOK
    BY <1>1 DEF ExecRecord
  <2>. HIDE DEF r
  <2>. QED
    BY <1>2, <2>1, <2>2
<1>6. ASSUME exec' = [exec EXCEPT ![x].pc = to, ![x].warned = b]
      PROVE  Becomes(x, to, exec[x].ps, exec[x].stale, exec[x].final,
                     exec[x].fatal, b, exec[x].cleanupOK)
  <2>. DEFINE r == [exec[x] EXCEPT !.pc = to, !.warned = b]
  <2>1. exec' = [exec EXCEPT ![x] = r]
    BY <1>1, <1>6
  <2>2. /\ r \in ExecRecord /\ r.pc = to /\ r.ps = exec[x].ps
        /\ r.stale = exec[x].stale /\ r.final = exec[x].final
        /\ r.fatal = exec[x].fatal /\ r.warned = b
        /\ r.cleanupOK = exec[x].cleanupOK
    BY <1>1 DEF ExecRecord
  <2>. HIDE DEF r
  <2>. QED
    BY <1>2, <2>1, <2>2
<1>7. ASSUME exec' = [exec EXCEPT ![x].pc = to, ![x].cleanupOK = b]
      PROVE  Becomes(x, to, exec[x].ps, exec[x].stale, exec[x].final,
                     exec[x].fatal, exec[x].warned, b)
  <2>. DEFINE r == [exec[x] EXCEPT !.pc = to, !.cleanupOK = b]
  <2>1. exec' = [exec EXCEPT ![x] = r]
    BY <1>1, <1>7
  <2>2. /\ r \in ExecRecord /\ r.pc = to /\ r.ps = exec[x].ps
        /\ r.stale = exec[x].stale /\ r.final = exec[x].final
        /\ r.fatal = exec[x].fatal /\ r.warned = exec[x].warned
        /\ r.cleanupOK = b
    BY <1>1 DEF ExecRecord
  <2>. HIDE DEF r
  <2>. QED
    BY <1>2, <2>1, <2>2
<1>. QED
  BY <1>3, <1>4, <1>5, <1>6, <1>7

-----------------------------------------------------------------------------
(* One step of an execution.                                               *)

\* What a step of x may do to the organisation.
Call(x) ==
    \/ UNCHANGED hcp
    \/ /\ WorkspacesNamed(x) = {}
       /\ x \notin policySets
       /\ workspaces' = workspaces \cup {x}
       /\ UNCHANGED <<policySets, attached, run, destroy, resources>>
    \/ PolicySetsNamed(x) = {} /\ CreatesPolicySet(x)
    \/ \E w \in SameName(x) :
          \/ DeletesWorkspace(w)
          \/ DeletesPolicySet(w)
          \/ w \in workspaces /\ QueuesDestroy(w)
    \/ /\ run' \in [Execs -> RunPhases \cup {NoRun}]
       /\ \A y \in Execs \ {x} : run'[y] = run[y]
       /\ resources' \in {resources, resources \cup {x}}
       /\ UNCHANGED <<workspaces, policySets, attached, destroy>>

LEMMA CallFootprint ==
    ASSUME Inv, NEW x \in Execs, OnlyExec(x), Call(x)
    PROVE  Footprint(x) /\ FreeNames(x)
<1>1. CASE UNCHANGED hcp
  BY <1>1, QuietFootprint
<1>2. CASE /\ WorkspacesNamed(x) = {}
           /\ workspaces' = workspaces \cup {x}
           /\ UNCHANGED <<policySets, attached, run, destroy, resources>>
  BY <1>2, CreateWorkspaceFootprint
<1>3. CASE PolicySetsNamed(x) = {} /\ CreatesPolicySet(x)
  BY <1>3, CreatePolicySetFootprint
<1>4. ASSUME NEW w \in SameName(x),
             \/ DeletesWorkspace(w)
             \/ DeletesPolicySet(w)
             \/ w \in workspaces /\ QueuesDestroy(w)
      PROVE  Footprint(x) /\ FreeNames(x)
  BY <1>4, DeleteWorkspaceFootprint, DeletePolicySetFootprint,
     QueueDestroyFootprint
<1>5. CASE /\ \A y \in Execs \ {x} : run'[y] = run[y]
           /\ resources' \in {resources, resources \cup {x}}
           /\ UNCHANGED <<workspaces, policySets, attached, destroy>>
  BY <1>5 DEF OnlyExec, Footprint, FreeNames, SameName
<1>. QED
  BY <1>1, <1>2, <1>3, <1>4, <1>5 DEF Call

LEMMA HcpType ==
    ASSUME TypeOK, exec' \in [Execs -> ExecRecord], NEW x \in Execs,
           NEW w \in Execs \cup {NoId},
           \/ UNCHANGED hcp
           \/ /\ workspaces' = workspaces \cup {x}
              /\ UNCHANGED <<policySets, attached, run, destroy, resources>>
           \/ CreatesPolicySet(x)
           \/ DeletesWorkspace(w)
           \/ DeletesPolicySet(w)
           \/ w \in workspaces /\ QueuesDestroy(w)
           \/ /\ run' \in [Execs -> RunPhases \cup {NoRun}]
              /\ resources' \in {resources, resources \cup {x}}
              /\ UNCHANGED <<workspaces, policySets, attached, destroy>>
    PROVE  TypeOK'
<1>. USE DEF TypeOK, ExecRecord
<1>1. CASE UNCHANGED hcp
  BY <1>1 DEF hcp
<1>2. CASE CreatesPolicySet(x)
  BY <1>2 DEF CreatesPolicySet
<1>3. CASE DeletesWorkspace(w)
  BY <1>3 DEF DeletesWorkspace
<1>4. CASE DeletesPolicySet(w)
  BY <1>4 DEF DeletesPolicySet
<1>5. CASE w \in workspaces /\ QueuesDestroy(w)
  BY <1>5 DEF QueuesDestroy, DestroyStates
<1>. QED
  BY <1>1, <1>2, <1>3, <1>4, <1>5

LEMMA CallType ==
    ASSUME TypeOK, NEW x \in Execs, exec' \in [Execs -> ExecRecord], Call(x)
    PROVE  TypeOK'
BY HcpType DEF Call, SameName

LEMMA CallAttached ==
    ASSUME Inv, NEW x \in Execs, Call(x)
    PROVE  AttachedInv(x)'
<1>1. AttachedInv(x) /\ TypeOK
  BY DEF Inv, ExecInv
<1>2. ASSUME NEW w \in SameName(x), DeletesWorkspace(w) PROVE AttachedInv(x)'
  BY <1>1, <1>2 DEF AttachedInv, DeletesWorkspace, SameName
<1>3. CASE CreatesPolicySet(x)
  BY <1>1, <1>3 DEF AttachedInv, CreatesPolicySet, TypeOK
<1>. QED
  BY <1>1, <1>2, <1>3 DEF Call, AttachedInv, hcp, DeletesPolicySet,
     QueuesDestroy

LEMMA CallKept ==
    ASSUME Inv, NEW x \in Execs, Alive(x), OnlyExec(x),
           exec' \in [Execs -> ExecRecord], Call(x), ExecInv(x)'
    PROVE  Inv'
BY CallFootprint, CallType, StepKept DEF Inv

-----------------------------------------------------------------------------
(* The workspace.                                                          *)

LEMMA Ready ==
    ASSUME Inv, NEW x \in Execs
    PROVE  /\ TypeOK
           /\ ExecInv(x)
           /\ x \in SameName(x)
           /\ SameName(x) \subseteq Execs
           /\ exec[x].pc \notin {"idle", "done", "crashed"} => Alive(x)
BY DEF Inv, SameName, Alive, Ended

(* An execution that ends keeps nothing but its verdict.                   *)
LEMMA EndKept ==
    ASSUME Inv, NEW x \in Execs, Alive(x), Call(x),
           NEW f \in BOOLEAN, NEW ok \in BOOLEAN,
           Becomes(x, "done", exec[x].ps, exec[x].stale, exec[x].final,
                   f, exec[x].warned, ok),
           Faults \subseteq {"crash", "http500"} => ~f,
           destroy'[x] = destroy[x], run'[x] = run[x],
           x \in resources' => x \in resources
    PROVE  Inv'
<1>1. ExecInv(x) /\ AttachedInv(x)'
  BY Ready, CallAttached
<1>2. ExecInv(x)'
  BY <1>1 DEF Becomes, ExecInv, WorkspaceInv, StaleInv, AttachedInv, PolicySetInv, DetachInv,
     FlagsInv, DestroyInv, RecoveryInv, HasWorkspace, Starting, Attaching,
     Testing, Destroying, Cleaning, SameName
<1>. QED
  BY <1>2, CallKept DEF Becomes

(* A fatal error sends an execution that has a workspace to its cleanup.   *)
LEMMA FatalKept ==
    ASSUME Inv, NEW x \in Execs, exec[x].pc \in Attaching \cup Testing,
           Fatal(x), Call(x), x \in workspaces',
           destroy'[x] # "done",
           ~(Faults \subseteq {"crash", "http500"})
    PROVE  Inv'
<1>1. TypeOK /\ ExecInv(x) /\ Alive(x)
  BY Ready DEF Attaching, Testing
<1>2. Becomes(x, "cleanup", exec[x].ps, exec[x].stale, exec[x].final,
              TRUE, exec[x].warned, exec[x].cleanupOK)
  BY <1>1, FatalBecomes
<1>3. exec[x].final = NoStatus /\ ~exec[x].cleanupOK /\ AttachedInv(x)'
  BY <1>1, CallAttached DEF ExecInv, FlagsInv, Attaching, Testing
<1>4. ExecInv(x)'
  BY <1>1, <1>2, <1>3 DEF Becomes, ExecInv, WorkspaceInv, StaleInv,
     AttachedInv, PolicySetInv, DetachInv, FlagsInv, DestroyInv, RecoveryInv, HasWorkspace,
     Starting, Attaching, Testing, Destroying, Cleaning, SameName, NoStatus
<1>. QED
  BY <1>1, <1>2, <1>4, CallKept DEF Becomes

LEMMA CreateWorkspaceInv ==
    ASSUME Inv, NEW x \in Execs, CreateWorkspace(x) PROVE Inv'
<1>0. exec[x].pc \in {"createWs", "recreateWs"}
  BY DEF CreateWorkspace
<1>1. TypeOK /\ ExecInv(x) /\ Alive(x) /\ x \notin policySets
  BY <1>0, Ready DEF ExecInv, PolicySetInv, Starting
<1>2. CASE /\ WorkspacesNamed(x) = {}
           /\ workspaces' = workspaces \cup {x}
           /\ UNCHANGED <<policySets, attached, run, destroy, resources>>
           /\ Goto(x, "createPs")
  <2>1. Becomes(x, "createPs", exec[x].ps, exec[x].stale, exec[x].final,
                exec[x].fatal, exec[x].warned, exec[x].cleanupOK)
    BY <1>1, <1>2, GotoBecomes DEF Points, Attaching
  <2>2. ExecInv(x)'
    BY <1>0, <1>1, <1>2, <2>1 DEF Becomes, ExecInv, WorkspaceInv, StaleInv,
       AttachedInv, PolicySetInv, DetachInv, FlagsInv, DestroyInv, RecoveryInv,
       HasWorkspace, Starting, Attaching, Testing, Destroying, Cleaning,
       SameName
  <2>. QED
    BY <1>1, <1>2, <2>1, <2>2, CallKept DEF Call, Becomes
<1>3. CASE Call(x) /\ FatalEarly(x) /\ ~(Faults \subseteq {"crash", "http500"})
           /\ UNCHANGED <<run, destroy, resources>>
  BY <1>1, <1>3, FatalBecomes, EndKept, ExecType
<1>4. CASE UNCHANGED hcp /\ Goto(x, "findWs")
  <2>1. Becomes(x, "findWs", exec[x].ps, exec[x].stale, exec[x].final,
                exec[x].fatal, exec[x].warned, exec[x].cleanupOK)
    BY <1>1, <1>4, GotoBecomes DEF Points, Starting
  <2>2. ExecInv(x)'
    BY <1>0, <1>1, <1>4, <2>1 DEF hcp, Becomes, ExecInv, WorkspaceInv, StaleInv,
       AttachedInv, PolicySetInv, DetachInv, FlagsInv, DestroyInv, RecoveryInv,
       HasWorkspace, Starting, Attaching, Testing, Destroying, Cleaning,
       SameName
  <2>. QED
    BY <1>1, <1>4, <2>1, <2>2, CallKept DEF Call, Becomes
<1>5. CASE exec[x].pc = "recreateWs" /\ WorkspacesNamed(x) # {}
           /\ UNCHANGED hcp /\ FatalEarly(x)
  <2>1. ~(Faults \subseteq {"crash", "http500"})
    BY <1>1, <1>5 DEF ExecInv, RecoveryInv
  <2>. QED
    BY <1>3, <1>5, <2>1 DEF Call, hcp
<1>6. CASE "fail" \in Faults /\ UNCHANGED hcp /\ FatalEarly(x)
  BY <1>3, <1>6 DEF Call, hcp
<1>7. CASE /\ WorkspacesNamed(x) = {}
           /\ workspaces' = workspaces \cup {x}
           /\ UNCHANGED <<policySets, attached, run, destroy, resources>>
           /\ "lost" \in Faults /\ FatalEarly(x)
  BY <1>1, <1>3, <1>7 DEF Call
<1>. QED
  BY <1>0, <1>2, <1>4, <1>5, <1>6, <1>7 DEF CreateWorkspace

LEMMA FindStaleWorkspaceInv ==
    ASSUME Inv, NEW x \in Execs, FindStaleWorkspace(x) PROVE Inv'
<1>0. exec[x].pc = "findWs" /\ UNCHANGED hcp
  BY DEF FindStaleWorkspace
<1>1. TypeOK /\ ExecInv(x) /\ Alive(x) /\ SameName(x) \subseteq Execs
  BY <1>0, Ready
<1>. USE DEF ExecInv, WorkspaceInv, StaleInv, AttachedInv, PolicySetInv, DetachInv, FlagsInv,
             DestroyInv, RecoveryInv, HasWorkspace, Starting, Attaching, Testing,
             Destroying, Cleaning, SameName, Points
<1>2. ASSUME NEW w \in WorkspacesNamed(x),
             exec' = [exec EXCEPT ![x].pc = "destroyStale", ![x].stale = w]
      PROVE  Inv'
  <2>1. w \in SameName(x) /\ WorkspacesNamed(x) \subseteq {w}
    BY DEF Inv, NamesUnique, WorkspacesNamed
  <2>2. Becomes(x, "destroyStale", exec[x].ps, w, exec[x].final,
                exec[x].fatal, exec[x].warned, exec[x].cleanupOK)
    BY <1>1, <1>2, <2>1, AssignBecomes, "destroyStale" \in Points,
       w \in Execs \cup {NoId}
  <2>3. ExecInv(x)'
    BY <1>0, <1>1, <2>1, <2>2 DEF hcp, Becomes, WorkspacesNamed
  <2>. QED
    BY <1>0, <1>1, <2>2, <2>3, CallKept DEF Call, Becomes
<1>3. CASE (WorkspacesNamed(x) = {} \/ "fail" \in Faults) /\ Goto(x, "recreateWs")
  <2>1. Becomes(x, "recreateWs", exec[x].ps, exec[x].stale, exec[x].final,
                exec[x].fatal, exec[x].warned, exec[x].cleanupOK)
    BY <1>1, <1>3, GotoBecomes
  <2>2. ExecInv(x)'
    BY <1>0, <1>1, <1>3, <2>1 DEF hcp, Becomes, WorkspacesNamed
  <2>. QED
    BY <1>0, <1>1, <2>1, <2>2, CallKept DEF Call, Becomes
<1>. QED
  BY <1>2, <1>3 DEF FindStaleWorkspace

(* An execution at the stale workspace moves on to the next call on it.    *)
LEMMA DestroyStaleInv ==
    ASSUME Inv, NEW x \in Execs, DestroyStale(x) PROVE Inv'
<1>0. exec[x].pc = "destroyStale"
  BY DEF DestroyStale
<1>1. TypeOK /\ ExecInv(x) /\ Alive(x) /\ SameName(x) \subseteq Execs
  BY <1>0, Ready
<1>. DEFINE w == exec[x].stale
<1>2. w \in SameName(x) /\ x \notin workspaces
  BY <1>0, <1>1 DEF ExecInv, StaleInv, WorkspaceInv, Starting
<1>3. PICK to \in {"awaitStale", "deleteStale"} : Goto(x, to)
  BY DEF DestroyStale
<1>4. Becomes(x, to, exec[x].ps, exec[x].stale, exec[x].final,
              exec[x].fatal, exec[x].warned, exec[x].cleanupOK)
  BY <1>1, <1>3, GotoBecomes DEF Points, Starting
<1>5. UNCHANGED hcp \/ (w \in workspaces /\ QueuesDestroy(w))
  BY DEF DestroyStale
<1>6. /\ workspaces' = workspaces /\ policySets' = policySets
      /\ attached' = attached /\ run' = run /\ resources' = resources
      /\ destroy'[x] = destroy[x]
  BY <1>1, <1>2, <1>5 DEF hcp, QueuesDestroy, TypeOK
<1>7. ExecInv(x)'
  BY <1>0, <1>1, <1>3, <1>4, <1>6 DEF Becomes, ExecInv, WorkspaceInv, StaleInv,
     AttachedInv, PolicySetInv, DetachInv, FlagsInv, DestroyInv, RecoveryInv, HasWorkspace,
     Starting, Attaching, Testing, Destroying, Cleaning, SameName,
     WorkspacesNamed
<1>. QED
  BY <1>1, <1>2, <1>4, <1>5, <1>7, CallKept DEF Call, Becomes

LEMMA AwaitStaleInv ==
    ASSUME Inv, NEW x \in Execs, AwaitStale(x) PROVE Inv'
<1>0. exec[x].pc = "awaitStale" /\ UNCHANGED hcp /\ Goto(x, "deleteStale")
  BY DEF AwaitStale
<1>1. TypeOK /\ ExecInv(x) /\ Alive(x)
  BY <1>0, Ready
<1>2. Becomes(x, "deleteStale", exec[x].ps, exec[x].stale, exec[x].final,
              exec[x].fatal, exec[x].warned, exec[x].cleanupOK)
  BY <1>0, <1>1, GotoBecomes DEF Points, Starting
<1>3. ExecInv(x)'
  BY <1>0, <1>1, <1>2 DEF hcp, Becomes, ExecInv, WorkspaceInv, StaleInv,
     AttachedInv, PolicySetInv, DetachInv, FlagsInv, DestroyInv, RecoveryInv, HasWorkspace,
     Starting, Attaching, Testing, Destroying, Cleaning, SameName,
     WorkspacesNamed
<1>. QED
  BY <1>0, <1>1, <1>2, <1>3, CallKept DEF Call, Becomes

LEMMA DeleteStaleInv ==
    ASSUME Inv, NEW x \in Execs, DeleteStale(x) PROVE Inv'
<1>0. exec[x].pc = "deleteStale" /\ Leave(x, "recreateWs")
  BY DEF DeleteStale
<1>1. TypeOK /\ ExecInv(x) /\ Alive(x)
  BY <1>0, Ready
<1>. DEFINE w == exec[x].stale
<1>2. w \in SameName(x) /\ WorkspacesNamed(x) \subseteq {w} /\ x \notin workspaces
  BY <1>0, <1>1 DEF ExecInv, StaleInv, WorkspaceInv, Starting
<1>3. Becomes(x, "recreateWs", exec[x].ps, NoId, exec[x].final,
              exec[x].fatal, exec[x].warned, exec[x].cleanupOK)
  BY <1>0, <1>1, LeaveBecomes DEF Points, Starting
<1>4. DeletesWorkspace(w) \/ ("fail" \in Faults /\ UNCHANGED hcp)
  BY DEF DeleteStale
<1>5. /\ x \notin workspaces' /\ attached'[x] \in {x, NoId}
      /\ policySets' = policySets /\ run' = run /\ destroy' = destroy
      /\ resources' = resources
  BY <1>1, <1>2, <1>4 DEF DeletesWorkspace, hcp, ExecInv, AttachedInv
<1>6. "fail" \notin Faults => WorkspacesNamed(x)' = {}
  BY <1>2, <1>4 DEF DeletesWorkspace, WorkspacesNamed, SameName
<1>7. ExecInv(x)'
  BY <1>0, <1>1, <1>3, <1>5, <1>6 DEF Becomes, ExecInv, WorkspaceInv, StaleInv,
     AttachedInv, PolicySetInv, DetachInv, FlagsInv, DestroyInv, RecoveryInv, HasWorkspace,
     Starting, Attaching, Testing, Destroying, Cleaning, SameName
<1>. QED
  BY <1>1, <1>2, <1>3, <1>4, <1>7, CallKept DEF Call, Becomes

-----------------------------------------------------------------------------
(* The policy set.                                                         *)

(* A fatal error after a call that left the organisation as it was.        *)
LEMMA QuietFatalKept ==
    ASSUME Inv, NEW x \in Execs, exec[x].pc \in Attaching \cup Testing,
           Fatal(x), UNCHANGED hcp, ~(Faults \subseteq {"crash", "http500"})
    PROVE  Inv'
<1>1. x \in workspaces /\ destroy[x] = "none"
  BY Ready DEF ExecInv, WorkspaceInv, FlagsInv, HasWorkspace
<1>. QED
  BY <1>1, FatalKept DEF Call, hcp

LEMMA CreatePolicySetInv ==
    ASSUME Inv, NEW x \in Execs, CreatePolicySet(x) PROVE Inv'
<1>0. exec[x].pc \in {"createPs", "recreatePs"}
  BY DEF CreatePolicySet
<1>1. TypeOK /\ ExecInv(x) /\ Alive(x) /\ x \in SameName(x)
  BY <1>0, Ready
<1>2. x \in workspaces /\ exec[x].ps = NoId /\ destroy[x] = "none"
  BY <1>0, <1>1 DEF ExecInv, WorkspaceInv, PolicySetInv, FlagsInv, HasWorkspace,
     Attaching
<1>. USE DEF ExecInv, WorkspaceInv, StaleInv, AttachedInv, PolicySetInv, DetachInv, FlagsInv,
             DestroyInv, RecoveryInv, HasWorkspace, Starting, Attaching, Testing,
             Destroying, Cleaning, Points
<1>3. CASE PolicySetsNamed(x) = {} /\ CreatesPolicySet(x)
  <2>1. /\ x \in policySets' /\ attached'[x] = x
        /\ workspaces' = workspaces /\ destroy' = destroy /\ run' = run
        /\ resources' = resources
    BY <1>1, <1>3 DEF CreatesPolicySet, TypeOK
  <2>2. CASE exec' = [exec EXCEPT ![x].pc = "prepare", ![x].ps = x]
    <3>1. Becomes(x, "prepare", x, exec[x].stale, exec[x].final,
                  exec[x].fatal, exec[x].warned, exec[x].cleanupOK)
      BY <1>1, <2>2, AssignBecomes, "prepare" \in Points,
         x \in Execs \cup {NoId}
    <3>2. ExecInv(x)'
      BY <1>0, <1>1, <1>2, <2>1, <3>1 DEF Becomes
    <3>. QED
      BY <1>1, <1>3, <3>1, <3>2, CallKept DEF Call, Becomes
  <2>3. CASE "http500" \in Faults /\ Goto(x, "recoverPs")
    <3>1. Becomes(x, "recoverPs", exec[x].ps, exec[x].stale, exec[x].final,
                  exec[x].fatal, exec[x].warned, exec[x].cleanupOK)
      BY <1>1, <2>3, GotoBecomes
    <3>2. ExecInv(x)'
      BY <1>0, <1>1, <1>2, <2>1, <3>1 DEF Becomes
    <3>. QED
      BY <1>1, <1>3, <3>1, <3>2, CallKept DEF Call, Becomes
  <2>4. CASE "lost" \in Faults /\ Fatal(x)
    BY <1>0, <1>2, <1>3, <2>1, <2>4, FatalKept DEF Call
  <2>5. CASE UNCHANGED hcp
    BY <1>2, <1>3, <2>1, <2>5 DEF hcp, PolicySetsNamed, SameName
  <2>. QED
    BY <1>2, <1>3, <2>1, <2>2, <2>3, <2>4, <2>5 DEF CreatePolicySet
<1>4. CASE PolicySetsNamed(x) # {} /\ UNCHANGED hcp /\ exec[x].pc = "createPs"
           /\ Goto(x, "findPs")
  <2>1. Becomes(x, "findPs", exec[x].ps, exec[x].stale, exec[x].final,
                exec[x].fatal, exec[x].warned, exec[x].cleanupOK)
    BY <1>1, <1>4, GotoBecomes
  <2>2. PolicySetsNamed(x)' # {}
    BY <1>4 DEF hcp, PolicySetsNamed, SameName
  <2>3. ExecInv(x)'
    BY <1>0, <1>1, <1>2, <1>4, <2>1, <2>2 DEF Becomes, hcp, SameName
  <2>. QED
    BY <1>1, <1>4, <2>1, <2>3, CallKept DEF Call, Becomes
<1>5. CASE PolicySetsNamed(x) # {} /\ UNCHANGED hcp /\ exec[x].pc = "recreatePs"
           /\ Fatal(x)
  BY <1>0, <1>1, <1>5, QuietFatalKept
<1>6. CASE "gateway" \in Faults /\ UNCHANGED hcp /\ Goto(x, "recoverPs")
  <2>1. Becomes(x, "recoverPs", exec[x].ps, exec[x].stale, exec[x].final,
                exec[x].fatal, exec[x].warned, exec[x].cleanupOK)
    BY <1>1, <1>6, GotoBecomes
  <2>2. ExecInv(x)'
    BY <1>0, <1>1, <1>2, <1>6, <2>1 DEF Becomes, hcp, SameName
  <2>. QED
    BY <1>1, <1>6, <2>1, <2>2, CallKept DEF Call, Becomes
<1>7. CASE "fail" \in Faults /\ UNCHANGED hcp /\ Fatal(x)
  BY <1>0, <1>7, QuietFatalKept
<1>8. CASE "limit" \in Faults /\ UNCHANGED hcp /\ Fatal(x)
  BY <1>0, <1>8, QuietFatalKept
<1>. QED
  BY <1>0, <1>2, <1>3, <1>4, <1>5, <1>6, <1>7, <1>8 DEF CreatePolicySet

LEMMA RecoverPolicySetInv ==
    ASSUME Inv, NEW x \in Execs, RecoverPolicySet(x) PROVE Inv'
<1>0. exec[x].pc = "recoverPs" /\ UNCHANGED hcp
  BY DEF RecoverPolicySet
<1>1. TypeOK /\ ExecInv(x) /\ Alive(x) /\ x \in SameName(x)
      /\ SameName(x) \subseteq Execs
  BY <1>0, Ready
<1>. USE DEF ExecInv, WorkspaceInv, StaleInv, AttachedInv, PolicySetInv, DetachInv, FlagsInv,
             DestroyInv, RecoveryInv, HasWorkspace, Starting, Attaching, Testing,
             Destroying, Cleaning, Points
<1>2. ASSUME NEW p \in PolicySetsNamed(x),
             exec' = [exec EXCEPT ![x].pc = "prepare", ![x].ps = p]
      PROVE  Inv'
  <2>1. p \in SameName(x) /\ p \in policySets
    BY DEF PolicySetsNamed
  <2>2. Becomes(x, "prepare", p, exec[x].stale, exec[x].final,
                exec[x].fatal, exec[x].warned, exec[x].cleanupOK)
    BY <1>1, <1>2, <2>1, AssignBecomes, "prepare" \in Points,
       p \in Execs \cup {NoId}
  <2>3. "gateway" \notin Faults => x \in policySets
    BY <1>0, <1>1
  <2>4. x \in policySets => p = x
    BY <2>1 DEF Inv, NamesUnique, SameName
  <2>5. ExecInv(x)'
    BY <1>0, <1>1, <2>1, <2>2, <2>3, <2>4 DEF hcp, Becomes, SameName
  <2>. QED
    BY <1>0, <1>1, <2>2, <2>5, CallKept DEF Call, Becomes
<1>3. CASE (PolicySetsNamed(x) = {} \/ "fail" \in Faults) /\ Fatal(x)
  <2>1. ~(Faults \subseteq {"crash", "http500"})
    BY <1>0, <1>1, <1>3 DEF PolicySetsNamed
  <2>. QED
    BY <1>0, <1>3, <2>1, QuietFatalKept
<1>. QED
  BY <1>2, <1>3 DEF RecoverPolicySet

LEMMA FindStalePolicySetInv ==
    ASSUME Inv, NEW x \in Execs, FindStalePolicySet(x) PROVE Inv'
<1>0. exec[x].pc = "findPs" /\ UNCHANGED hcp
  BY DEF FindStalePolicySet
<1>1. TypeOK /\ ExecInv(x) /\ Alive(x) /\ SameName(x) \subseteq Execs
  BY <1>0, Ready
<1>. USE DEF ExecInv, WorkspaceInv, StaleInv, AttachedInv, PolicySetInv,
             DetachInv, FlagsInv, DestroyInv, RecoveryInv, HasWorkspace,
             Starting, Attaching, Testing, Destroying, Cleaning, Points
<1>2. ASSUME NEW p \in PolicySetsNamed(x),
             exec' = [exec EXCEPT ![x].pc = "deletePs", ![x].stale = p]
      PROVE  Inv'
  <2>1. p \in SameName(x) /\ PolicySetsNamed(x) \subseteq {p}
    BY DEF Inv, NamesUnique, PolicySetsNamed, SameName
  <2>2. Becomes(x, "deletePs", exec[x].ps, p, exec[x].final,
                exec[x].fatal, exec[x].warned, exec[x].cleanupOK)
    BY <1>1, <1>2, <2>1, AssignBecomes, "deletePs" \in Points,
       p \in Execs \cup {NoId}
  <2>3. ExecInv(x)'
    BY <1>0, <1>1, <2>1, <2>2 DEF hcp, Becomes, PolicySetsNamed, SameName
  <2>. QED
    BY <1>0, <1>1, <2>2, <2>3, CallKept DEF Call, Becomes
<1>3. CASE (PolicySetsNamed(x) = {} \/ "fail" \in Faults) /\ Fatal(x)
  <2>1. ~(Faults \subseteq {"crash", "http500"})
    BY <1>0, <1>1, <1>3
  <2>. QED
    BY <1>0, <1>3, <2>1, QuietFatalKept
<1>. QED
  BY <1>2, <1>3 DEF FindStalePolicySet

LEMMA DeleteStalePolicySetInv ==
    ASSUME Inv, NEW x \in Execs, DeleteStalePolicySet(x) PROVE Inv'
<1>0. exec[x].pc = "deletePs" /\ Leave(x, "recreatePs")
  BY DEF DeleteStalePolicySet
<1>1. TypeOK /\ ExecInv(x) /\ Alive(x)
  BY <1>0, Ready
<1>. DEFINE p == exec[x].stale
<1>2. p \in SameName(x) /\ PolicySetsNamed(x) \subseteq {p}
  BY <1>0, <1>1 DEF ExecInv, StaleInv
<1>3. Becomes(x, "recreatePs", exec[x].ps, NoId, exec[x].final,
              exec[x].fatal, exec[x].warned, exec[x].cleanupOK)
  BY <1>0, <1>1, LeaveBecomes DEF Points, Attaching
<1>4. DeletesPolicySet(p) \/ ("fail" \in Faults /\ UNCHANGED hcp)
  BY DEF DeleteStalePolicySet
<1>5. Call(x) /\ AttachedInv(x)'
  BY <1>2, <1>4, CallAttached DEF Call
<1>6. /\ workspaces' = workspaces /\ run' = run /\ destroy' = destroy
      /\ resources' = resources
      /\ "fail" \notin Faults => PolicySetsNamed(x)' = {}
  BY <1>2, <1>4 DEF DeletesPolicySet, hcp, PolicySetsNamed, SameName
<1>7. ExecInv(x)'
  BY <1>0, <1>1, <1>3, <1>5, <1>6 DEF Becomes, ExecInv, WorkspaceInv, StaleInv,
     PolicySetInv, DetachInv, FlagsInv, DestroyInv, RecoveryInv, HasWorkspace,
     Starting, Attaching, Testing, Destroying, Cleaning, SameName
<1>. QED
  BY <1>1, <1>3, <1>5, <1>7, CallKept DEF Becomes

-----------------------------------------------------------------------------
(* The run.                                                                *)

LEMMA PrepareInv ==
    ASSUME Inv, NEW x \in Execs, Prepare(x) PROVE Inv'
<1>0. exec[x].pc = "prepare" /\ UNCHANGED hcp
  BY DEF Prepare
<1>1. TypeOK /\ ExecInv(x) /\ Alive(x)
  BY <1>0, Ready
<1>2. CASE Goto(x, "trigger")
  <2>1. Becomes(x, "trigger", exec[x].ps, exec[x].stale, exec[x].final,
                exec[x].fatal, exec[x].warned, exec[x].cleanupOK)
    BY <1>1, <1>2, GotoBecomes DEF Points, Testing
  <2>2. ExecInv(x)'
    BY <1>0, <1>1, <2>1 DEF hcp, Becomes, ExecInv, WorkspaceInv, StaleInv,
       AttachedInv, PolicySetInv, DetachInv, FlagsInv, DestroyInv, RecoveryInv,
       HasWorkspace, Starting, Attaching, Testing, Destroying, Cleaning,
       SameName
  <2>. QED
    BY <1>0, <1>1, <2>1, <2>2, CallKept DEF Call, Becomes
<1>3. CASE /\ exec[x].ps \notin policySets \/ x \notin workspaces
              \/ "fail" \in Faults
           /\ Fatal(x)
  <2>1. ~(Faults \subseteq {"crash", "http500"})
    BY <1>0, <1>1, <1>3 DEF ExecInv, WorkspaceInv, PolicySetInv, HasWorkspace,
       Testing
  <2>. QED
    BY <1>0, <1>3, <2>1, QuietFatalKept DEF Testing
<1>. QED
  BY <1>2, <1>3 DEF Prepare

LEMMA TriggerInv ==
    ASSUME Inv, NEW x \in Execs, Trigger(x) PROVE Inv'
<1>0. exec[x].pc = "trigger"
  BY DEF Trigger
<1>1. TypeOK /\ ExecInv(x) /\ Alive(x)
  BY <1>0, Ready
<1>2. x \in workspaces /\ destroy[x] = "none"
  BY <1>0, <1>1 DEF ExecInv, WorkspaceInv, FlagsInv, HasWorkspace, Testing
<1>3. CASE /\ run' = [run EXCEPT ![x] = "planning"]
           /\ UNCHANGED <<workspaces, policySets, attached, destroy, resources>>
  <2>1. Call(x)
    BY <1>1, <1>3 DEF Call, TypeOK, RunPhases
  <2>2. CASE Goto(x, "await")
    <3>1. Becomes(x, "await", exec[x].ps, exec[x].stale, exec[x].final,
                  exec[x].fatal, exec[x].warned, exec[x].cleanupOK)
      BY <1>1, <2>2, GotoBecomes DEF Points, Testing
    <3>2. ExecInv(x)'
      BY <1>0, <1>1, <1>2, <1>3, <3>1 DEF Becomes, ExecInv, WorkspaceInv,
         StaleInv, AttachedInv, PolicySetInv, DetachInv, FlagsInv, DestroyInv,
         RecoveryInv, HasWorkspace, Starting, Attaching, Testing, Destroying,
         Cleaning, SameName
    <3>. QED
      BY <1>1, <2>1, <3>1, <3>2, CallKept DEF Becomes
  <2>3. CASE "lost" \in Faults /\ Fatal(x)
    BY <1>0, <1>2, <1>3, <2>1, <2>3, FatalKept DEF Testing
  <2>4. CASE UNCHANGED hcp /\ "fail" \in Faults /\ Fatal(x)
    BY <1>0, <2>4, QuietFatalKept DEF Testing
  <2>. QED
    BY <1>2, <2>2, <2>3, <2>4 DEF Trigger
<1>4. CASE UNCHANGED hcp /\ "fail" \in Faults /\ Fatal(x)
  BY <1>0, <1>4, QuietFatalKept DEF Testing
<1>. QED
  BY <1>2, <1>3, <1>4 DEF Trigger

(* What Await leaves, whichever way TriggerRun returned.                   *)
LEMMA AwaitInv ==
    ASSUME Inv, NEW x \in Execs, Await(x) PROVE Inv'
<1>0. exec[x].pc = "await"
  BY DEF Await
<1>1. TypeOK /\ ExecInv(x) /\ Alive(x)
  BY <1>0, Ready
<1>2. /\ x \in workspaces /\ destroy[x] = "none" /\ exec[x].ps # NoId
      /\ ~exec[x].fatal
  BY <1>0, <1>1 DEF ExecInv, WorkspaceInv, PolicySetInv, FlagsInv, HasWorkspace,
     Testing
<1>3. PICK f \in RunPhases \cup {NoStatus} : Settle(x, f)
  BY DEF Await, FinalPhases, RunPhases
<1>4. AfterRun(x, f) \in {"detach", "cleanup"}
  BY DEF AfterRun
<1>5. Becomes(x, AfterRun(x, f), exec[x].ps, exec[x].stale, f,
              exec[x].fatal, exec[x].warned, exec[x].cleanupOK)
  BY <1>1, <1>3, <1>4, AssignBecomes DEF Settle, Points, Destroying, Cleaning
<1>6. \/ UNCHANGED hcp
      \/ /\ run[x] = "planned"
         /\ run' = [run EXCEPT ![x] = "applying"]
         /\ resources' = resources \cup {x}
         /\ UNCHANGED <<workspaces, policySets, attached, destroy>>
  BY DEF Await
<1>7. Call(x)
  BY <1>1, <1>6 DEF Call, TypeOK, RunPhases
<1>8. /\ workspaces' = workspaces /\ policySets' = policySets
      /\ attached' = attached /\ destroy' = destroy
  BY <1>6 DEF hcp
<1>9. AfterRun(x, f) = "cleanup" => ~(NeedsApply(x) /\ f \in {"applied", "errored"})
  BY DEF AfterRun
<1>10. ExecInv(x)'
  BY <1>0, <1>1, <1>2, <1>4, <1>5, <1>8, <1>9 DEF Becomes, ExecInv,
     WorkspaceInv, StaleInv, AttachedInv, PolicySetInv, DetachInv, FlagsInv,
     DestroyInv, RecoveryInv, HasWorkspace, Starting, Attaching, Testing,
     Destroying, Cleaning, SameName, NeedsApply
<1>. QED
  BY <1>1, <1>5, <1>7, <1>10, CallKept DEF Becomes

-----------------------------------------------------------------------------
(* The destroy run and the cleanup.                                        *)

LEMMA DetachStepInv ==
    ASSUME Inv, NEW x \in Execs, Detach(x) PROVE Inv'
<1>0. exec[x].pc = "detach"
  BY DEF Detach
<1>1. TypeOK /\ ExecInv(x) /\ Alive(x)
  BY <1>0, Ready
<1>. DEFINE p == exec[x].ps
<1>2. x \in workspaces /\ p # NoId /\ p \in SameName(x)
  BY <1>0, <1>1 DEF ExecInv, WorkspaceInv, PolicySetInv, HasWorkspace, Destroying
<1>. USE DEF ExecInv, WorkspaceInv, StaleInv, PolicySetInv, DetachInv, FlagsInv,
             DestroyInv, RecoveryInv, HasWorkspace, Starting, Attaching, Testing,
             Destroying, Cleaning, Points
<1>3. CASE /\ p \in policySets /\ DeletesPolicySet(p)
           /\ exec' = [exec EXCEPT ![x].pc = "queueDestroy", ![x].ps = NoId]
  <2>1. Becomes(x, "queueDestroy", NoId, exec[x].stale, exec[x].final,
                exec[x].fatal, exec[x].warned, exec[x].cleanupOK)
    BY <1>1, <1>3, AssignBecomes, "queueDestroy" \in Points,
       NoId \in Execs \cup {NoId}
  <2>2. Call(x) /\ AttachedInv(x)'
    BY <1>2, <1>3, CallAttached DEF Call
  <2>3. PolicySetsNamed(x)' = {}
    BY <1>2, <1>3 DEF Inv, NamesUnique, PolicySetsNamed, SameName,
       DeletesPolicySet
  <2>4. /\ workspaces' = workspaces /\ destroy' = destroy /\ run' = run
        /\ resources' = resources
    BY <1>3 DEF DeletesPolicySet
  <2>5. x \notin policySets'
    BY <2>3 DEF PolicySetsNamed, SameName
  <2>6. ExecInv(x)'
    BY <1>0, <1>1, <1>2, <2>1, <2>2, <2>3, <2>4, <2>5 DEF Becomes
  <2>. QED
    BY <1>1, <2>1, <2>2, <2>6, CallKept DEF Becomes
<1>4. CASE /\ UNCHANGED hcp \/ DeletesPolicySet(p)
           /\ exec' = [exec EXCEPT ![x].pc = "queueDestroy", ![x].warned = TRUE]
  <2>1. Becomes(x, "queueDestroy", exec[x].ps, exec[x].stale, exec[x].final,
                exec[x].fatal, TRUE, exec[x].cleanupOK)
    BY <1>1, <1>4, AssignBecomes, "queueDestroy" \in Points
  <2>2. Call(x) /\ AttachedInv(x)'
    BY <1>2, <1>4, CallAttached DEF Call
  <2>3. /\ workspaces' = workspaces /\ destroy' = destroy /\ run' = run
        /\ resources' = resources
    BY <1>4 DEF DeletesPolicySet, hcp
  <2>4. ExecInv(x)'
    BY <1>0, <1>1, <1>2, <2>1, <2>2, <2>3 DEF Becomes, SameName
  <2>. QED
    BY <1>1, <2>1, <2>2, <2>4, CallKept DEF Becomes
<1>. QED
  BY <1>3, <1>4 DEF Detach

(* Going to the cleanup with a warning.                                    *)
LEMMA WarnedKept ==
    ASSUME Inv, NEW x \in Execs,
           exec[x].pc \in {"queueDestroy", "awaitDestroy"},
           exec' = [exec EXCEPT ![x].pc = "cleanup", ![x].warned = TRUE],
           UNCHANGED hcp \/ (x \in workspaces /\ QueuesDestroy(x))
    PROVE  Inv'
<1>1. TypeOK /\ ExecInv(x) /\ Alive(x) /\ x \in SameName(x)
  BY Ready
<1>2. Becomes(x, "cleanup", exec[x].ps, exec[x].stale, exec[x].final,
              exec[x].fatal, TRUE, exec[x].cleanupOK)
  BY <1>1, AssignBecomes, "cleanup" \in Points DEF Points, Cleaning
<1>3. Call(x) /\ AttachedInv(x)'
  BY <1>1, CallAttached DEF Call
<1>4. /\ workspaces' = workspaces /\ policySets' = policySets /\ run' = run
      /\ resources' = resources
      /\ destroy'[x] = destroy[x] \/ destroy'[x] = "queued"
  BY <1>1 DEF QueuesDestroy, hcp, TypeOK
<1>5. ExecInv(x)'
  BY <1>1, <1>2, <1>3, <1>4 DEF Becomes, ExecInv, WorkspaceInv, StaleInv,
     PolicySetInv, DetachInv, FlagsInv, DestroyInv, RecoveryInv, HasWorkspace,
     Starting, Attaching, Testing, Destroying, Cleaning, SameName,
     PolicySetsNamed
<1>. QED
  BY <1>1, <1>2, <1>3, <1>5, CallKept DEF Becomes

LEMMA QueueDestroyInv ==
    ASSUME Inv, NEW x \in Execs, QueueDestroy(x) PROVE Inv'
<1>0. exec[x].pc = "queueDestroy"
  BY DEF QueueDestroy
<1>1. TypeOK /\ ExecInv(x) /\ Alive(x) /\ x \in SameName(x)
  BY <1>0, Ready
<1>2. CASE x \in workspaces /\ QueuesDestroy(x) /\ Goto(x, "awaitDestroy")
  <2>1. Becomes(x, "awaitDestroy", exec[x].ps, exec[x].stale, exec[x].final,
                exec[x].fatal, exec[x].warned, exec[x].cleanupOK)
    BY <1>1, <1>2, GotoBecomes DEF Points, Destroying
  <2>2. Call(x) /\ AttachedInv(x)'
    BY <1>1, <1>2, CallAttached DEF Call
  <2>3. /\ workspaces' = workspaces /\ policySets' = policySets /\ run' = run
        /\ resources' = resources /\ destroy'[x] = "queued"
    BY <1>1, <1>2 DEF QueuesDestroy, TypeOK
  <2>4. ExecInv(x)'
    BY <1>0, <1>1, <2>1, <2>2, <2>3 DEF Becomes, ExecInv, WorkspaceInv,
       StaleInv, PolicySetInv, DetachInv, FlagsInv, DestroyInv, RecoveryInv,
       HasWorkspace, Starting, Attaching, Testing, Destroying, Cleaning,
       SameName, PolicySetsNamed
  <2>. QED
    BY <1>1, <2>1, <2>2, <2>4, CallKept DEF Becomes
<1>. QED
  BY <1>0, <1>2, WarnedKept DEF QueueDestroy

LEMMA AwaitDestroyInv ==
    ASSUME Inv, NEW x \in Execs, AwaitDestroy(x) PROVE Inv'
<1>0. exec[x].pc = "awaitDestroy" /\ UNCHANGED hcp
  BY DEF AwaitDestroy
<1>1. TypeOK /\ ExecInv(x) /\ Alive(x)
  BY <1>0, Ready
<1>2. CASE destroy[x] \in {"done", "failed"} /\ Goto(x, "cleanup")
  <2>1. Becomes(x, "cleanup", exec[x].ps, exec[x].stale, exec[x].final,
                exec[x].fatal, exec[x].warned, exec[x].cleanupOK)
    BY <1>1, <1>2, GotoBecomes DEF Points, Cleaning
  <2>2. ExecInv(x)'
    BY <1>0, <1>1, <1>2, <2>1 DEF hcp, Becomes, ExecInv, WorkspaceInv, StaleInv,
       AttachedInv, PolicySetInv, DetachInv, FlagsInv, DestroyInv, RecoveryInv,
       HasWorkspace, Starting, Attaching, Testing, Destroying, Cleaning,
       SameName, PolicySetsNamed
  <2>. QED
    BY <1>0, <1>1, <2>1, <2>2, CallKept DEF Call, Becomes
<1>. QED
  BY <1>0, <1>2, WarnedKept DEF AwaitDestroy

LEMMA CleanupPolicySetInv ==
    ASSUME Inv, NEW x \in Execs, CleanupPolicySet(x) PROVE Inv'
<1>0. exec[x].pc = "cleanup"
  BY DEF CleanupPolicySet
<1>1. TypeOK /\ ExecInv(x) /\ Alive(x)
  BY <1>0, Ready
<1>. DEFINE p == exec[x].ps
<1>2. PICK ok \in BOOLEAN :
        /\ exec' = [exec EXCEPT ![x].pc = "cleanupWs", ![x].cleanupOK = ok]
        /\ \/ p = NoId /\ UNCHANGED hcp
           \/ p \in policySets /\ DeletesPolicySet(p)
           \/ p # NoId /\ ~ok /\ UNCHANGED hcp
  BY DEF CleanupPolicySet
<1>3. Becomes(x, "cleanupWs", exec[x].ps, exec[x].stale, exec[x].final,
              exec[x].fatal, exec[x].warned, ok)
  BY <1>1, <1>2, AssignBecomes, "cleanupWs" \in Points DEF Points, Cleaning
<1>4. p # NoId => p \in SameName(x)
  BY <1>1 DEF ExecInv, PolicySetInv
<1>5. p \in policySets => p # NoId
  BY <1>1 DEF TypeOK
<1>6. Call(x) /\ AttachedInv(x)'
  BY <1>2, <1>4, <1>5, CallAttached DEF Call
<1>7. /\ workspaces' = workspaces /\ destroy' = destroy /\ run' = run
      /\ resources' = resources
  BY <1>2 DEF DeletesPolicySet, hcp
<1>8. ok /\ ~exec[x].fatal => PolicySetsNamed(x)' = {}
  <2>1. CASE p = NoId /\ UNCHANGED hcp
    BY <1>0, <1>1, <2>1 DEF ExecInv, DetachInv, hcp, PolicySetsNamed, SameName
  <2>2. CASE p \in policySets /\ DeletesPolicySet(p)
    BY <1>4, <1>5, <2>2 DEF Inv, NamesUnique, PolicySetsNamed, SameName,
       DeletesPolicySet
  <2>. QED
    BY <1>2, <2>1, <2>2
<1>9. ExecInv(x)'
  BY <1>0, <1>1, <1>3, <1>6, <1>7, <1>8 DEF Becomes, ExecInv, WorkspaceInv,
     StaleInv, PolicySetInv, DetachInv, FlagsInv, DestroyInv, RecoveryInv,
     HasWorkspace, Starting, Attaching, Testing, Destroying, Cleaning, SameName,
     NeedsApply
<1>. QED
  BY <1>1, <1>3, <1>6, <1>9, CallKept DEF Becomes

LEMMA CleanupWorkspaceInv ==
    ASSUME Inv, NEW x \in Execs, CleanupWorkspace(x) PROVE Inv'
<1>0. exec[x].pc = "cleanupWs"
  BY DEF CleanupWorkspace
<1>1. TypeOK /\ ExecInv(x) /\ Alive(x) /\ x \in SameName(x)
  BY <1>0, Ready
<1>2. PICK ok \in BOOLEAN :
        exec' = [exec EXCEPT ![x].pc = "done", ![x].cleanupOK = ok]
  BY <1>1, ExecType DEF CleanupWorkspace
<1>3. Becomes(x, "done", exec[x].ps, exec[x].stale, exec[x].final,
              exec[x].fatal, exec[x].warned, ok)
  BY <1>1, <1>2, AssignBecomes, "done" \in Points DEF Points, Ended
<1>4. UNCHANGED hcp \/ DeletesWorkspace(x)
  BY DEF CleanupWorkspace
<1>5. Call(x) /\ destroy' = destroy /\ run' = run /\ resources' = resources
  BY <1>1, <1>4 DEF Call, hcp, DeletesWorkspace
<1>6. exec[x].fatal \in BOOLEAN
      /\ (Faults \subseteq {"crash", "http500"} => ~exec[x].fatal)
  BY <1>1, ExecType DEF ExecInv, RecoveryInv
<1>. QED
  BY <1>1, <1>3, <1>5, <1>6, EndKept

LEMMA SkipCleanupInv ==
    ASSUME Inv, NEW x \in Execs, SkipCleanup(x) PROVE Inv'
<1>0. exec[x].pc = "cleanup" /\ UNCHANGED hcp /\ Goto(x, "done")
  BY DEF SkipCleanup
<1>1. TypeOK /\ ExecInv(x) /\ Alive(x)
  BY <1>0, Ready
<1>2. Becomes(x, "done", exec[x].ps, exec[x].stale, exec[x].final,
              exec[x].fatal, exec[x].warned, exec[x].cleanupOK)
  BY <1>0, <1>1, GotoBecomes DEF Points, Ended
<1>3. /\ exec[x].fatal \in BOOLEAN /\ exec[x].cleanupOK \in BOOLEAN
      /\ Faults \subseteq {"crash", "http500"} => ~exec[x].fatal
  BY <1>1, ExecType DEF ExecInv, RecoveryInv
<1>. QED
  BY <1>0, <1>1, <1>2, <1>3, EndKept DEF Call, hcp

(* A crash forgets the variables and leaves the objects.                   *)
LEMMA CrashInv ==
    ASSUME Inv, NEW x \in Execs, Crash(x) PROVE Inv'
<1>1. TypeOK /\ ExecInv(x) /\ Alive(x) /\ UNCHANGED hcp
  BY Ready DEF Crash
<1>2. Becomes(x, "crashed", NoId, NoId, NoStatus, FALSE, FALSE, FALSE)
  <2>1. At("crashed") \in ExecRecord
    BY DEF At, ExecRecord, Points, Ended
  <2>2. exec' = [exec EXCEPT ![x] = At("crashed")]
    BY DEF Crash
  <2>. QED
    BY <1>1, <2>1, <2>2 DEF TypeOK, At, ExecRecord, OnlyExec, Becomes
<1>3. ExecInv(x)'
  BY <1>1, <1>2 DEF hcp, Becomes, ExecInv, WorkspaceInv, StaleInv, AttachedInv,
     PolicySetInv, DetachInv, FlagsInv, DestroyInv, RecoveryInv, HasWorkspace,
     Starting, Attaching, Testing, Destroying, Cleaning, SameName, NoStatus
<1>. QED
  BY <1>1, <1>2, <1>3, CallKept DEF Call, Becomes

(* No other invocation of the case runs when one starts.                   *)
LEMMA StartInv ==
    ASSUME Inv, "overlap" \notin Faults, NEW x \in Execs, Start(x)
    PROVE  Inv'
<1>1. /\ TypeOK /\ ExecInv(x) /\ UNCHANGED hcp /\ exec[x].pc = "idle"
      /\ \A y \in SameName(x) : ~Alive(y)
  BY Ready DEF Start
<1>2. Becomes(x, "createWs", exec[x].ps, exec[x].stale, exec[x].final,
              exec[x].fatal, exec[x].warned, exec[x].cleanupOK)
  BY <1>1, GotoBecomes DEF Start, Points, Starting
<1>3. TypeOK'
  BY <1>1, <1>2, CallType DEF Call, Becomes
<1>4. Alone' /\ NamesUnique'
  BY <1>1, <1>2 DEF Inv, Alone, NamesUnique, Alive, Becomes, OnlyExec, SameName,
     hcp
<1>5. ExecInv(x)'
  BY <1>1, <1>2 DEF hcp, Becomes, ExecInv, WorkspaceInv, StaleInv, AttachedInv,
     PolicySetInv, DetachInv, FlagsInv, DestroyInv, RecoveryInv, HasWorkspace,
     Starting, Attaching, Testing, Destroying, Cleaning, SameName
<1>6. ASSUME NEW y \in Execs, y # x PROVE ExecInv(y)'
  <2>1. exec'[y] = exec[y] /\ ExecInv(y)
    BY <1>2, <1>6 DEF Becomes, OnlyExec, Inv
  <2>. QED
    BY <1>1, <2>1 DEF hcp, ExecInv, WorkspaceInv, StaleInv, AttachedInv,
       PolicySetInv, DetachInv, FlagsInv, DestroyInv, RecoveryInv, HasWorkspace,
       SameName, WorkspacesNamed, PolicySetsNamed, NeedsApply
<1>. QED
  BY <1>3, <1>4, <1>5, <1>6 DEF Inv

-----------------------------------------------------------------------------
(* The organisation.                                                       *)

LEMMA RunMovesInv ==
    ASSUME Inv, NEW w \in Execs, RunMoves(w) PROVE Inv'
<1>1. PICK p \in NextPhases(run[w]) :
        /\ run' = [run EXCEPT ![w] = p]
        /\ resources' = IF p = "applying" THEN resources \cup {w} ELSE resources
  BY DEF RunMoves
<1>2. /\ UNCHANGED <<workspaces, policySets, attached, destroy, exec>>
      /\ run[w] # NoRun
  BY DEF RunMoves
<1>3. TypeOK /\ run[w] \in RunPhases
  BY <1>2 DEF Inv, TypeOK
<1>4. p \in RunPhases /\ run[w] \notin Over
  BY <1>1, <1>3 DEF NextPhases, RunPhases, Over
<1>5. TypeOK'
  BY <1>1, <1>2, <1>3, <1>4 DEF TypeOK
<1>6. destroy[w] # "done"
  BY <1>2, <1>4 DEF Inv, ExecInv, DestroyInv
<1>7. ASSUME NEW e \in Execs PROVE ExecInv(e)'
  <2>1. ExecInv(e)
    BY DEF Inv
  <2>2. DestroyInv(e)'
    BY <1>1, <1>2, <1>3, <1>6, <2>1 DEF ExecInv, DestroyInv, NeedsApply, TypeOK
  <2>. QED
    BY <1>2, <2>1, <2>2 DEF ExecInv, WorkspaceInv, StaleInv, AttachedInv,
       PolicySetInv, DetachInv, FlagsInv, RecoveryInv, HasWorkspace, SameName,
       WorkspacesNamed, PolicySetsNamed
<1>. QED
  BY <1>2, <1>5, <1>7 DEF Inv, Alone, Alive, NamesUnique

LEMMA DestroyEndsInv ==
    ASSUME Inv, NEW w \in Execs, DestroyEnds(w) PROVE Inv'
<1>1. PICK d \in {"done", "failed"} :
        /\ destroy' = [destroy EXCEPT ![w] = d]
        /\ resources' = IF d = "done" THEN resources \ {w} ELSE resources
  <2>1. CASE destroy' = [destroy EXCEPT ![w] = "done"]
             /\ resources' = resources \ {w}
    BY <2>1
  <2>2. CASE destroy' = [destroy EXCEPT ![w] = "failed"]
             /\ resources' = resources
    BY <2>2
  <2>. QED
    BY <2>1, <2>2 DEF DestroyEnds
<1>2. /\ UNCHANGED <<workspaces, policySets, attached, run, exec>>
      /\ destroy[w] = "queued" /\ run[w] \in Over \cup {NoRun}
  BY DEF DestroyEnds
<1>3. TypeOK
  BY DEF Inv
<1>4. TypeOK'
  BY <1>1, <1>2, <1>3 DEF TypeOK, DestroyStates
<1>5. ASSUME NEW e \in Execs PROVE ExecInv(e)'
  <2>1. ExecInv(e)
    BY DEF Inv
  <2>2. DestroyInv(e)' /\ FlagsInv(e)'
    BY <1>1, <1>2, <1>3, <2>1 DEF ExecInv, DestroyInv, FlagsInv, NeedsApply,
       TypeOK
  <2>. QED
    BY <1>2, <2>1, <2>2 DEF ExecInv, WorkspaceInv, StaleInv, AttachedInv,
       PolicySetInv, DetachInv, RecoveryInv, HasWorkspace, SameName,
       WorkspacesNamed, PolicySetsNamed
<1>. QED
  BY <1>2, <1>4, <1>5 DEF Inv, Alone, Alive, NamesUnique

-----------------------------------------------------------------------------
(* Putting the steps together.                                             *)

LEMMA InitInv == Init => Inv
<1>. SUFFICES ASSUME Init PROVE Inv
  OBVIOUS
<1>1. TypeOK
  BY DEF Init, TypeOK, At, Points, Starting, DestroyStates, NoStatus
<1>2. \A e \in Execs : exec[e] = At("idle")
  BY DEF Init
<1>3. Alone /\ NamesUnique
  BY <1>2 DEF Init, At, Alone, Alive, NamesUnique
<1>4. ASSUME NEW e \in Execs PROVE ExecInv(e)
  BY <1>2 DEF Init, At, ExecInv, WorkspaceInv, StaleInv, AttachedInv,
     PolicySetInv, DetachInv, FlagsInv, DestroyInv, RecoveryInv, HasWorkspace,
     Starting, Attaching, Testing, Destroying, Cleaning, NoStatus
<1>. QED
  BY <1>1, <1>3, <1>4 DEF Inv

LEMMA NextInv ==
    ASSUME Inv, "overlap" \notin Faults, [Next]_vars PROVE Inv'
<1>1. ASSUME NEW x \in Execs, Step(x) PROVE Inv'
  BY <1>1, CreateWorkspaceInv, FindStaleWorkspaceInv, DestroyStaleInv,
     AwaitStaleInv, DeleteStaleInv, CreatePolicySetInv, RecoverPolicySetInv,
     FindStalePolicySetInv, DeleteStalePolicySetInv, PrepareInv, TriggerInv,
     AwaitInv, DetachStepInv, QueueDestroyInv, AwaitDestroyInv,
     CleanupPolicySetInv, CleanupWorkspaceInv, SkipCleanupInv DEF Step
<1>2. CASE UNCHANGED vars
  BY <1>2 DEF vars, hcp, Inv, TypeOK, Alone, Alive, NamesUnique, ExecInv,
     WorkspaceInv, StaleInv, AttachedInv, PolicySetInv, DetachInv, FlagsInv,
     DestroyInv, RecoveryInv, HasWorkspace, SameName, WorkspacesNamed,
     PolicySetsNamed
<1>. QED
  BY <1>1, <1>2, StartInv, CrashInv, RunMovesInv, DestroyEndsInv DEF Next

-----------------------------------------------------------------------------
(* Types, also when two invocations of a case overlap.                     *)

LEMMA PointsListed ==
    /\ {"createWs", "findWs", "destroyStale", "awaitStale", "deleteStale",
        "recreateWs", "createPs", "recoverPs", "findPs", "deletePs",
        "recreatePs", "prepare", "trigger", "await", "detach", "queueDestroy",
        "awaitDestroy", "cleanup", "cleanupWs", "done", "crashed"}
       \subseteq Points
BY DEF Points, Starting, Attaching, Testing, Destroying, Cleaning, Ended

LEMMA StepType ==
    ASSUME TypeOK, NEW x \in Execs, Step(x) PROVE TypeOK'
<1>. DEFINE Typed == exec' \in [Execs -> ExecRecord]
<1>1. \A to \in Points : Goto(x, to) \/ Leave(x, to) => Typed
  BY GotoBecomes, LeaveBecomes DEF Becomes
<1>2. Fatal(x) \/ FatalEarly(x) => Typed
  BY FatalBecomes DEF Becomes
<1>3. \A to \in Points, id \in Execs \cup {NoId}, b \in BOOLEAN,
         f \in RunPhases \cup {NoStatus} :
        \/ exec' = [exec EXCEPT ![x].pc = to, ![x].ps = id]
        \/ exec' = [exec EXCEPT ![x].pc = to, ![x].stale = id]
        \/ exec' = [exec EXCEPT ![x].pc = to, ![x].final = f]
        \/ exec' = [exec EXCEPT ![x].pc = to, ![x].warned = b]
        \/ exec' = [exec EXCEPT ![x].pc = to, ![x].cleanupOK = b]
        => Typed
  BY AssignBecomes DEF Becomes
<1>4. /\ exec[x].stale \in Execs \cup {NoId} /\ exec[x].ps \in Execs \cup {NoId}
      /\ exec[x].cleanupOK \in BOOLEAN
      /\ NoStatus \in RunPhases \cup {NoStatus}
      /\ workspaces \subseteq Execs /\ policySets \subseteq Execs
  BY ExecType DEF TypeOK
<1>5. /\ WorkspacesNamed(x) \subseteq Execs \cup {NoId}
      /\ PolicySetsNamed(x) \subseteq Execs \cup {NoId}
  BY DEF WorkspacesNamed, PolicySetsNamed, SameName
<1>. HIDE DEF Typed
<1>6. CASE CreateWorkspace(x)
  <2>1. Typed
    BY <1>1, <1>2, <1>6, PointsListed DEF CreateWorkspace
  <2>. QED
    BY <1>6, <2>1, HcpType DEF CreateWorkspace, Typed
<1>7. CASE FindStaleWorkspace(x)
  <2>1. Typed
    BY <1>1, <1>3, <1>4, <1>5, <1>7, PointsListed DEF FindStaleWorkspace
  <2>. QED
    BY <1>7, <2>1, HcpType DEF FindStaleWorkspace, Typed
<1>8. CASE DestroyStale(x)
  <2>1. Typed
    BY <1>1, <1>8, PointsListed DEF DestroyStale
  <2>. QED
    BY <1>4, <1>8, <2>1, HcpType DEF DestroyStale, Typed
<1>9. CASE AwaitStale(x)
  <2>1. Typed
    BY <1>1, <1>9, PointsListed DEF AwaitStale
  <2>. QED
    BY <1>9, <2>1, HcpType DEF AwaitStale, Typed
<1>10. CASE DeleteStale(x)
  <2>1. Typed
    BY <1>1, <1>10, PointsListed DEF DeleteStale
  <2>. QED
    BY <1>4, <1>10, <2>1, HcpType DEF DeleteStale, Typed
<1>11. CASE CreatePolicySet(x)
  <2>1. Typed
    BY <1>1, <1>2, <1>3, <1>4, <1>11, PointsListed DEF CreatePolicySet
  <2>. QED
    BY <1>11, <2>1, HcpType DEF CreatePolicySet, Typed
<1>12. CASE RecoverPolicySet(x)
  <2>1. Typed
    BY <1>2, <1>3, <1>4, <1>5, <1>12, PointsListed DEF RecoverPolicySet
  <2>. QED
    BY <1>12, <2>1, HcpType DEF RecoverPolicySet, Typed
<1>13. CASE FindStalePolicySet(x)
  <2>1. Typed
    BY <1>2, <1>3, <1>4, <1>5, <1>13, PointsListed DEF FindStalePolicySet
  <2>. QED
    BY <1>13, <2>1, HcpType DEF FindStalePolicySet, Typed
<1>14. CASE DeleteStalePolicySet(x)
  <2>1. Typed
    BY <1>1, <1>14, PointsListed DEF DeleteStalePolicySet
  <2>. QED
    BY <1>4, <1>14, <2>1, HcpType DEF DeleteStalePolicySet, Typed
<1>15. CASE Prepare(x)
  <2>1. Typed
    BY <1>1, <1>2, <1>15, PointsListed DEF Prepare
  <2>. QED
    BY <1>15, <2>1, HcpType DEF Prepare, Typed
<1>16. CASE Trigger(x)
  <2>1. Typed
    BY <1>1, <1>2, <1>16, PointsListed DEF Trigger
  <2>2. [run EXCEPT ![x] = "planning"] \in [Execs -> RunPhases \cup {NoRun}]
    BY DEF TypeOK, RunPhases
  <2>. QED
    BY <1>16, <2>1, <2>2, HcpType DEF Trigger, Typed
<1>17. CASE Await(x)
  <2>1. PICK f \in RunPhases \cup {NoStatus} : Settle(x, f)
    BY <1>17 DEF Await, FinalPhases, RunPhases
  <2>2. Typed
    BY <1>3, <2>1, PointsListed DEF Settle, AfterRun
  <2>3. [run EXCEPT ![x] = "applying"] \in [Execs -> RunPhases \cup {NoRun}]
    BY DEF TypeOK, RunPhases
  <2>. QED
    BY <1>17, <2>2, <2>3, HcpType DEF Await, Typed
<1>18. CASE Detach(x)
  <2>1. Typed
    BY <1>3, <1>4, <1>18, PointsListed DEF Detach
  <2>. QED
    BY <1>4, <1>18, <2>1, HcpType DEF Detach, Typed
<1>19. CASE QueueDestroy(x)
  <2>1. Typed
    BY <1>1, <1>3, <1>4, <1>19, PointsListed DEF QueueDestroy
  <2>. QED
    BY <1>19, <2>1, HcpType DEF QueueDestroy, Typed
<1>20. CASE AwaitDestroy(x)
  <2>1. Typed
    BY <1>1, <1>3, <1>4, <1>20, PointsListed DEF AwaitDestroy
  <2>. QED
    BY <1>20, <2>1, HcpType DEF AwaitDestroy, Typed
<1>21. CASE CleanupPolicySet(x)
  <2>1. Typed
    BY <1>3, <1>4, <1>21, PointsListed DEF CleanupPolicySet
  <2>. QED
    BY <1>4, <1>21, <2>1, HcpType DEF CleanupPolicySet, Typed
<1>22. CASE CleanupWorkspace(x)
  <2>1. Typed
    BY <1>3, <1>4, <1>22, PointsListed DEF CleanupWorkspace
  <2>. QED
    BY <1>22, <2>1, HcpType DEF CleanupWorkspace, Typed
<1>23. CASE SkipCleanup(x)
  <2>1. Typed
    BY <1>1, <1>23, PointsListed DEF SkipCleanup
  <2>. QED
    BY <1>23, <2>1, HcpType DEF SkipCleanup, Typed
<1>. QED
  BY <1>6, <1>7, <1>8, <1>9, <1>10, <1>11, <1>12, <1>13, <1>14, <1>15, <1>16,
     <1>17, <1>18, <1>19, <1>20, <1>21, <1>22, <1>23 DEF Step

LEMMA NextType == TypeOK /\ [Next]_vars => TypeOK'
<1>. SUFFICES ASSUME TypeOK, [Next]_vars PROVE TypeOK'
  OBVIOUS
<1>1. ASSUME NEW x \in Execs, Start(x) PROVE TypeOK'
  BY <1>1, GotoBecomes, HcpType, PointsListed DEF Start, Becomes
<1>2. ASSUME NEW x \in Execs, Crash(x) PROVE TypeOK'
  <2>1. At("crashed") \in ExecRecord
    BY PointsListed DEF At, ExecRecord, NoStatus
  <2>2. exec' \in [Execs -> ExecRecord]
    BY <1>2, <2>1 DEF Crash, TypeOK, ExecRecord
  <2>. QED
    BY <1>2, <2>2, HcpType DEF Crash
<1>3. ASSUME NEW w \in Execs, RunMoves(w) PROVE TypeOK'
  <2>1. PICK p \in NextPhases(run[w]) : run' = [run EXCEPT ![w] = p]
    BY <1>3 DEF RunMoves
  <2>2. p \in RunPhases
    BY <1>3, <2>1 DEF RunMoves, TypeOK, NextPhases, RunPhases, Over
  <2>. QED
    BY <1>3, <2>1, <2>2 DEF RunMoves, TypeOK
<1>4. ASSUME NEW w \in Execs, DestroyEnds(w) PROVE TypeOK'
  BY <1>4 DEF DestroyEnds, TypeOK, DestroyStates
<1>5. CASE UNCHANGED vars
  BY <1>5 DEF vars, hcp, TypeOK
<1>. QED
  BY <1>1, <1>2, <1>3, <1>4, <1>5, StepType DEF Next

-----------------------------------------------------------------------------
(* The theorems.                                                           *)

(* Types of the variables, whatever the faults and even when two           *)
(* invocations of a case overlap.                                          *)
THEOREM LifecycleTypes == Spec => []TypeOK
<1>1. Init => TypeOK
  BY InitInv DEF Inv
<1>. QED
  BY <1>1, NextType, PTL DEF Spec

(* The inductive invariant holds, for any executions, cases and faults.    *)
THEOREM LifecycleInvariant == Spec => []LifecycleInv
<1>1. CASE "overlap" \notin Faults
  <2>1. Inv /\ [Next]_vars => Inv'
    BY <1>1, NextInv
  <2>2. Spec => []Inv
    BY <2>1, InitInv, PTL DEF Spec
  <2>3. Inv => LifecycleInv
    BY DEF Inv, LifecycleInv
  <2>. QED
    BY <2>2, <2>3, PTL
<1>2. CASE "overlap" \in Faults
  <2>1. TypeOK => LifecycleInv
    BY <1>2 DEF LifecycleInv
  <2>. QED
    BY <2>1, LifecycleTypes, PTL
<1>. QED
  BY <1>1, <1>2

(* No execution loses its workspace to the recovery of another one.        *)
THEOREM OwnWorkspaceKept == Spec => []OwnWorkspaceLive
<1>1. LifecycleInv => OwnWorkspaceLive
  BY DEF LifecycleInv, ExecInv, WorkspaceInv, OwnWorkspaceLive
<1>. QED
  BY <1>1, LifecycleInvariant, PTL

(* While a run is awaited, the policy set of its case is attached.         *)
THEOREM PoliciesInForce == Spec => []PolicyInForce
<1>1. LifecycleInv => PolicyInForce
  BY DEF LifecycleInv, ExecInv, WorkspaceInv, AttachedInv, PolicySetInv,
     HasWorkspace, PolicyInForce
<1>. QED
  BY <1>1, LifecycleInvariant, PTL

(* The destroy run of a finished case meets no policy set.                 *)
THEOREM DestroyMeetsNoPolicy == Spec => []DestroyUnhindered
<1>1. LifecycleInv => DestroyUnhindered
  <2>. SUFFICES ASSUME LifecycleInv, "overlap" \notin Faults, NEW e \in Execs,
                       exec[e].pc \in {"queueDestroy", "awaitDestroy"},
                       ~exec[e].warned
                PROVE  AttachedTo(e) = {}
    BY DEF DestroyUnhindered
  <2>1. e \notin policySets
    BY DEF LifecycleInv, ExecInv, PolicySetInv
  <2>2. \A p \in policySets : attached[p] \in {p, NoId}
    BY DEF LifecycleInv, TypeOK, ExecInv, AttachedInv
  <2>. QED
    BY <2>1, <2>2 DEF AttachedTo
<1>. QED
  BY <1>1, LifecycleInvariant, PTL

(* When the organisation answers, an execution meets a FatalErr only in    *)
(* creating its policy set, and only because of the limit.                 *)
LEMMA OnlyTheLimitIsFatal ==
    ASSUME Inv, Next, NEW e \in Execs,
           "overlap" \notin Faults, Faults \subseteq {"crash", "http500", "limit"},
           ~exec[e].fatal, exec'[e].fatal
    PROVE  /\ "limit" \in Faults /\ policySets # {}
           /\ \/ exec[e].pc = "createPs"
              \/ exec[e].pc = "recreatePs" /\ PolicySetsNamed(e) = {}
<1>0. {"fail", "lost", "gateway"} \cap Faults = {}
  OBVIOUS
<1>1. /\ TypeOK
      /\ WorkspaceInv(e) /\ PolicySetInv(e) /\ RecoveryInv(e)
  BY Ready DEF ExecInv
<1>2. ASSUME NEW x \in Execs, x # e, Start(x) \/ Step(x) \/ Crash(x)
      PROVE  FALSE
  BY <1>1, <1>2 DEF TypeOK, Start, Step, Crash, Goto, Leave, Fatal, FatalEarly,
     CreateWorkspace, FindStaleWorkspace, DestroyStale, AwaitStale, DeleteStale,
     CreatePolicySet, RecoverPolicySet, FindStalePolicySet,
     DeleteStalePolicySet, Prepare, Trigger, Await, Settle, Detach,
     QueueDestroy, AwaitDestroy, CleanupPolicySet, CleanupWorkspace, SkipCleanup
<1>3. \A to \in Points : ~Goto(e, to) /\ ~Leave(e, to)
  BY <1>1, GotoBecomes, LeaveBecomes DEF Becomes
<1>4. \A to \in Points, id \in Execs \cup {NoId}, b \in BOOLEAN,
         f \in RunPhases \cup {NoStatus} :
        /\ exec' # [exec EXCEPT ![e].pc = to, ![e].ps = id]
        /\ exec' # [exec EXCEPT ![e].pc = to, ![e].stale = id]
        /\ exec' # [exec EXCEPT ![e].pc = to, ![e].final = f]
        /\ exec' # [exec EXCEPT ![e].pc = to, ![e].warned = b]
        /\ exec' # [exec EXCEPT ![e].pc = to, ![e].cleanupOK = b]
  <2>. TAKE to \in Points, id \in Execs \cup {NoId}, b \in BOOLEAN,
            f \in RunPhases \cup {NoStatus}
  <2>1. exec \in [Execs -> ExecRecord]
    BY <1>1 DEF TypeOK, ExecRecord
  <2>. QED
    BY <2>1 DEF ExecRecord
<1>5. /\ policySets \subseteq Execs /\ SameName(e) \subseteq Execs
      /\ exec[e].ps \in Execs \cup {NoId}
  BY <1>1, ExecType DEF TypeOK, SameName
<1>6. CASE CreatePolicySet(e)
  <2>1. exec[e].pc \in {"createPs", "recreatePs"}
    BY <1>6 DEF CreatePolicySet
  <2>2. e \in workspaces /\ (exec[e].pc = "recreatePs" => PolicySetsNamed(e) = {})
    BY <1>1, <2>1 DEF WorkspaceInv, RecoveryInv, HasWorkspace, Attaching
  <2>. QED
    BY <1>0, <1>3, <1>4, <1>6, <2>1, <2>2, PointsListed DEF CreatePolicySet
<1>7. CASE CreateWorkspace(e)
  <2>1. exec[e].pc = "recreateWs" => WorkspacesNamed(e) = {}
    BY <1>1 DEF RecoveryInv
  <2>. QED
    BY <1>0, <1>3, <1>7, <2>1, PointsListed DEF CreateWorkspace
<1>8. CASE RecoverPolicySet(e) \/ FindStalePolicySet(e)
  <2>1. /\ exec[e].pc = "recoverPs" => e \in PolicySetsNamed(e)
        /\ exec[e].pc = "findPs" => PolicySetsNamed(e) # {}
    BY <1>0, <1>1 DEF PolicySetInv, RecoveryInv, PolicySetsNamed, SameName
  <2>. QED
    BY <1>0, <1>4, <1>5, <1>8, <2>1, PointsListed DEF RecoverPolicySet,
       FindStalePolicySet, PolicySetsNamed
<1>9. CASE Prepare(e) \/ Trigger(e)
  <2>1. exec[e].pc \in {"prepare", "trigger"} => e \in workspaces /\ exec[e].ps \in policySets
    BY <1>0, <1>1 DEF WorkspaceInv, PolicySetInv, HasWorkspace, Testing
  <2>. QED
    BY <1>0, <1>3, <1>9, <2>1, PointsListed DEF Prepare, Trigger
<1>10. CASE Start(e) \/ DestroyStale(e) \/ AwaitStale(e) \/ DeleteStale(e)
            \/ DeleteStalePolicySet(e) \/ FindStaleWorkspace(e)
  BY <1>3, <1>4, <1>5, <1>10, PointsListed DEF Start, DestroyStale, AwaitStale, DeleteStale,
     DeleteStalePolicySet, FindStaleWorkspace, WorkspacesNamed
<1>11. CASE Crash(e)
  BY <1>1, <1>11 DEF Crash, At, TypeOK
<1>12. CASE Await(e)
  <2>1. PICK f \in RunPhases \cup {NoStatus} : Settle(e, f)
    BY <1>12 DEF Await, FinalPhases, RunPhases
  <2>. QED
    BY <1>4, <1>5, <2>1, PointsListed DEF Settle, AfterRun
<1>13. CASE Detach(e) \/ QueueDestroy(e) \/ AwaitDestroy(e)
  BY <1>3, <1>4, <1>13, PointsListed DEF Detach, QueueDestroy, AwaitDestroy
<1>14. CASE CleanupPolicySet(e) \/ CleanupWorkspace(e) \/ SkipCleanup(e)
  <2>1. exec[e].cleanupOK \in BOOLEAN
    BY <1>1, ExecType
  <2>. QED
    BY <1>3, <1>4, <1>14, <2>1, PointsListed DEF CleanupPolicySet, CleanupWorkspace,
       SkipCleanup
<1>15. CASE \E w \in Execs : RunMoves(w) \/ DestroyEnds(w)
  BY <1>15 DEF RunMoves, DestroyEnds
<1>. QED
  BY <1>2, <1>6, <1>7, <1>8, <1>9, <1>10, <1>11, <1>12, <1>13, <1>14, <1>15
  DEF Next, Step

(* After a crash the next invocation recovers, unless the organisation     *)
(* refuses another policy set.                                             *)
THEOREM AlwaysRecovers == Spec => LeftoversRecovered
<1>. DEFINE A == Faults \subseteq {"crash", "http500", "limit"} =>
                   \A e \in Execs :
                     ~exec[e].fatal /\ exec'[e].fatal =>
                        /\ "limit" \in Faults /\ policySets # {}
                        /\ \/ exec[e].pc = "createPs"
                           \/ exec[e].pc = "recreatePs" /\ PolicySetsNamed(e) = {}
<1>1. LifecycleInv /\ [Next]_vars => [A]_vars
  <2>. SUFFICES ASSUME Inv, Next, "overlap" \notin Faults,
                       Faults \subseteq {"crash", "http500", "limit"}, NEW e \in Execs,
                       ~exec[e].fatal, exec'[e].fatal
                PROVE  /\ "limit" \in Faults /\ policySets # {}
                       /\ \/ exec[e].pc = "createPs"
                          \/ exec[e].pc = "recreatePs" /\ PolicySetsNamed(e) = {}
    BY DEF LifecycleInv, Inv
  <2>. QED
    BY OnlyTheLimitIsFatal
<1>. QED
  BY <1>1, LifecycleInvariant, PTL DEF Spec, LeftoversRecovered

(* An execution that finishes without FatalErr does so in its deferred     *)
(* cleanup.                                                                *)
LEMMA FinishesInCleanup ==
    ASSUME TypeOK, Next, NEW e \in Execs, Finishes(e)
    PROVE  CleanupWorkspace(e) \/ SkipCleanup(e)
<1>1. exec[e].pc # "done" /\ exec'[e].pc = "done" /\ ~exec'[e].fatal
  BY DEF Finishes
<1>2. ASSUME NEW x \in Execs, x # e, Start(x) \/ Step(x) \/ Crash(x)
      PROVE  exec'[e] = exec[e]
  BY <1>2 DEF TypeOK, Start, Step, Crash, Goto, Leave, Fatal, FatalEarly,
     CreateWorkspace, FindStaleWorkspace, DestroyStale, AwaitStale, DeleteStale,
     CreatePolicySet, RecoverPolicySet, FindStalePolicySet,
     DeleteStalePolicySet, Prepare, Trigger, Await, Settle, Detach,
     QueueDestroy, AwaitDestroy, CleanupPolicySet, CleanupWorkspace, SkipCleanup
<1>3. TypeOK
  OBVIOUS
<1>4. \A to \in Points : Goto(e, to) \/ Leave(e, to) => exec'[e].pc = to
  BY <1>3, GotoBecomes, LeaveBecomes DEF Becomes
<1>5. /\ Fatal(e) => exec'[e].pc = "cleanup"
      /\ FatalEarly(e) => exec'[e].fatal
  BY <1>3, FatalBecomes DEF Becomes
<1>6. \A to \in Points, id \in Execs \cup {NoId}, b \in BOOLEAN,
         f \in RunPhases \cup {NoStatus} :
        \/ exec' = [exec EXCEPT ![e].pc = to, ![e].ps = id]
        \/ exec' = [exec EXCEPT ![e].pc = to, ![e].stale = id]
        \/ exec' = [exec EXCEPT ![e].pc = to, ![e].final = f]
        \/ exec' = [exec EXCEPT ![e].pc = to, ![e].warned = b]
        \/ exec' = [exec EXCEPT ![e].pc = to, ![e].cleanupOK = b]
        => exec'[e].pc = to
  <2>. TAKE to \in Points, id \in Execs \cup {NoId}, b \in BOOLEAN,
            f \in RunPhases \cup {NoStatus}
  <2>1. exec \in [Execs -> ExecRecord]
    BY <1>3 DEF TypeOK, ExecRecord
  <2>. QED
    BY <2>1 DEF ExecRecord
<1>7. NoStatus \in RunPhases \cup {NoStatus} /\ policySets \subseteq Execs
      /\ SameName(e) \subseteq Execs
  BY <1>3 DEF TypeOK, SameName
<1>8. CASE Start(e) \/ Crash(e)
  BY <1>1, <1>3, <1>4, <1>8, PointsListed DEF Start, Crash, At, TypeOK
<1>9. CASE CreateWorkspace(e) \/ DestroyStale(e) \/ AwaitStale(e)
           \/ DeleteStale(e) \/ DeleteStalePolicySet(e) \/ Prepare(e)
           \/ Trigger(e)
  BY <1>1, <1>4, <1>5, <1>9, PointsListed DEF CreateWorkspace, DestroyStale,
     AwaitStale, DeleteStale, DeleteStalePolicySet, Prepare, Trigger
<1>10. CASE FindStaleWorkspace(e)
  BY <1>1, <1>4, <1>6, <1>7, <1>10, PointsListed DEF FindStaleWorkspace,
     WorkspacesNamed
<1>11. CASE CreatePolicySet(e)
  BY <1>1, <1>4, <1>5, <1>6, <1>11, PointsListed DEF CreatePolicySet
<1>12. CASE RecoverPolicySet(e) \/ FindStalePolicySet(e)
  BY <1>1, <1>5, <1>6, <1>7, <1>12, PointsListed DEF RecoverPolicySet,
     FindStalePolicySet, PolicySetsNamed
<1>13. CASE Await(e)
  <2>1. PICK f \in RunPhases \cup {NoStatus} : Settle(e, f)
    BY <1>13 DEF Await, FinalPhases, RunPhases
  <2>. QED
    BY <1>1, <1>6, <2>1, PointsListed DEF Settle, AfterRun
<1>14. CASE Detach(e) \/ QueueDestroy(e) \/ AwaitDestroy(e) \/ CleanupPolicySet(e)
  BY <1>1, <1>4, <1>6, <1>14, PointsListed DEF Detach, QueueDestroy,
     AwaitDestroy, CleanupPolicySet
<1>15. CASE \E w \in Execs : RunMoves(w) \/ DestroyEnds(w)
  BY <1>1, <1>15 DEF RunMoves, DestroyEnds
<1>. QED
  BY <1>1, <1>2, <1>8, <1>9, <1>10, <1>11, <1>12, <1>13, <1>14, <1>15
  DEF Next, Step

(* An execution that reports CleanupOK leaves nothing of its case.         *)
THEOREM NothingLeft == Spec => CleanupLeavesNothing
<1>. DEFINE A == "overlap" \notin Faults =>
                   \A e \in Execs :
                     Finishes(e) /\ exec'[e].cleanupOK
                     => WorkspacesNamed(e)' \cup PolicySetsNamed(e)' = {}
<1>1. LifecycleInv /\ [Next]_vars => [A]_vars
  <2>. SUFFICES ASSUME Inv, Next, "overlap" \notin Faults, NEW e \in Execs,
                       Finishes(e), exec'[e].cleanupOK
                PROVE  WorkspacesNamed(e)' \cup PolicySetsNamed(e)' = {}
    BY DEF LifecycleInv, Inv
  <2>1. TypeOK /\ ExecInv(e) /\ e \in SameName(e)
    BY Ready
  <2>2. ~exec'[e].fatal
    BY DEF Finishes
  <2>3. CASE SkipCleanup(e)
    <3>1. exec'[e].cleanupOK = exec[e].cleanupOK /\ exec[e].pc = "cleanup"
      BY <2>1, <2>3, GotoBecomes, PointsListed DEF SkipCleanup, Becomes
    <3>. QED
      BY <2>1, <3>1 DEF ExecInv, FlagsInv
  <2>4. CASE CleanupWorkspace(e)
    <3>1. PICK ok \in BOOLEAN :
            /\ exec' = [exec EXCEPT ![e].pc = "done", ![e].cleanupOK = ok]
            /\ ok => exec[e].cleanupOK /\ e \in workspaces
                     /\ DeletesWorkspace(e)
      BY <2>1, <2>4, ExecType DEF CleanupWorkspace
    <3>2. exec'[e].cleanupOK = ok /\ exec'[e].fatal = exec[e].fatal
      BY <2>1, <3>1, AssignBecomes, PointsListed DEF Becomes
    <3>3. PolicySetsNamed(e) = {}
      BY <2>1, <2>2, <2>4, <3>1, <3>2 DEF CleanupWorkspace, ExecInv, DetachInv
    <3>. QED
      BY <2>1, <3>1, <3>2, <3>3 DEF DeletesWorkspace, WorkspacesNamed,
         PolicySetsNamed, SameName, Inv, NamesUnique
  <2>. QED
    BY <2>1, <2>3, <2>4, FinishesInCleanup
<1>. QED
  BY <1>1, LifecycleInvariant, PTL DEF Spec, CleanupLeavesNothing

(* Resources stay behind only with a warning, or when the destroy run      *)
(* itself failed.                                                          *)
THEOREM OrphansExplained == Spec => OrphanExplained
<1>. DEFINE A == "overlap" \notin Faults =>
                   \A e \in Execs :
                     /\ Finishes(e)
                     /\ NeedsApply(e) /\ exec[e].final \in {"applied", "errored"}
                     /\ e \in resources
                     => exec[e].warned \/ destroy[e] = "failed"
<1>1. LifecycleInv /\ [Next]_vars => [A]_vars
  <2>. SUFFICES ASSUME Inv, Next, "overlap" \notin Faults, NEW e \in Execs,
                       Finishes(e), NeedsApply(e),
                       exec[e].final \in {"applied", "errored"},
                       e \in resources, ~exec[e].warned
                PROVE  destroy[e] = "failed"
    BY DEF LifecycleInv, Inv
  <2>1. exec[e].pc \in Cleaning
    BY FinishesInCleanup DEF Inv, CleanupWorkspace, SkipCleanup, Cleaning
  <2>. QED
    BY <2>1 DEF Inv, ExecInv, DestroyInv
<1>. QED
  BY <1>1, LifecycleInvariant, PTL DEF Spec, OrphanExplained

-----------------------------------------------------------------------------
(* What the executions may do to the organisation, also when others take    *)
(* their objects away.                                                     *)

Recovering == {"destroyStale", "awaitStale", "deleteStale", "deletePs"}

\* What x may ask the organisation to remove or destroy.
Targets(x) == {x, exec[x].ps} \cup {s \in {exec[x].stale} : exec[x].pc \in Recovering}

Deed(x) ==
    \/ UNCHANGED hcp
    \/ /\ WorkspacesNamed(x) = {}
       /\ workspaces' = workspaces \cup {x}
       /\ UNCHANGED <<policySets, attached, run, destroy, resources>>
    \/ PolicySetsNamed(x) = {} /\ x \in workspaces /\ CreatesPolicySet(x)
    \/ \E w \in Targets(x) :
          \/ DeletesWorkspace(w)
          \/ DeletesPolicySet(w)
          \/ QueuesDestroy(w)
    \/ /\ \A y \in Execs \ {x} : run'[y] = run[y]
       /\ \/ resources' = resources
          \/ /\ resources' = resources \cup {x}
             /\ x \in workspaces /\ exec'[x].pc \in {"detach", "cleanup"}
       /\ UNCHANGED <<workspaces, policySets, attached, destroy>>

LEMMA StepDeed ==
    ASSUME TypeOK, NEW x \in Execs, Step(x)
    PROVE  Alive(x) /\ Deed(x)
<1>1. /\ {x, exec[x].ps} \subseteq Targets(x)
      /\ exec[x].pc \in Recovering => exec[x].stale \in Targets(x)
  BY DEF Targets
<1>2. CASE CreateWorkspace(x)
  BY <1>2 DEF CreateWorkspace, Deed, Alive, Ended
<1>3. CASE FindStaleWorkspace(x) \/ AwaitStale(x) \/ RecoverPolicySet(x)
           \/ FindStalePolicySet(x) \/ Prepare(x) \/ AwaitDestroy(x) \/ SkipCleanup(x)
  BY <1>3 DEF FindStaleWorkspace, AwaitStale, RecoverPolicySet, FindStalePolicySet,
     Prepare, AwaitDestroy, SkipCleanup, Deed, Alive, Ended
<1>4. CASE DestroyStale(x) \/ DeleteStale(x) \/ DeleteStalePolicySet(x)
  BY <1>1, <1>4 DEF DestroyStale, DeleteStale, DeleteStalePolicySet, Recovering, Deed, Alive, Ended
<1>5. CASE CreatePolicySet(x)
  BY <1>5 DEF CreatePolicySet, Deed, Alive, Ended
<1>6. CASE Trigger(x)
  BY <1>6 DEF Trigger, Deed, Alive, Ended, TypeOK
<1>7. CASE Await(x)
  BY <1>7 DEF Await, Settle, AfterRun, Deed, Alive, Ended, TypeOK
<1>8. CASE Detach(x) \/ CleanupPolicySet(x)
  BY <1>1, <1>8 DEF Detach, CleanupPolicySet, Deed, Alive, Ended
<1>9. CASE QueueDestroy(x) \/ CleanupWorkspace(x)
  BY <1>1, <1>9 DEF QueueDestroy, CleanupWorkspace, Deed, Alive, Ended
<1> QED BY <1>2, <1>3, <1>4, <1>5, <1>6, <1>7, <1>8, <1>9 DEF Step

LEMMA StepOthers ==
    ASSUME TypeOK, NEW x \in Execs, Step(x)
    PROVE  OnlyExec(x)
<1> USE DEF OnlyExec, TypeOK
<1>1. CASE CreateWorkspace(x) \/ FindStaleWorkspace(x) \/ DestroyStale(x) \/ AwaitStale(x)
           \/ DeleteStale(x)
  BY <1>1 DEF CreateWorkspace, FindStaleWorkspace, DestroyStale, AwaitStale, DeleteStale,
     Goto, Leave, Fatal, FatalEarly
<1>2. CASE CreatePolicySet(x) \/ RecoverPolicySet(x) \/ FindStalePolicySet(x)
           \/ DeleteStalePolicySet(x)
  BY <1>2 DEF CreatePolicySet, RecoverPolicySet, FindStalePolicySet, DeleteStalePolicySet,
     Goto, Leave, Fatal
<1>3. CASE Prepare(x) \/ Trigger(x) \/ Await(x) \/ Detach(x)
  BY <1>3 DEF Prepare, Trigger, Await, Detach, Goto, Fatal, Settle
<1>4. CASE QueueDestroy(x) \/ AwaitDestroy(x) \/ CleanupPolicySet(x) \/ CleanupWorkspace(x)
           \/ SkipCleanup(x)
  BY <1>4 DEF QueueDestroy, AwaitDestroy, CleanupPolicySet, CleanupWorkspace, SkipCleanup, Goto
<1> QED BY <1>1, <1>2, <1>3, <1>4 DEF Step

\* Where an execution goes.
Underway == Points \ {"idle", "crashed"}

\* A step of x moves its program counter.
LEMMA StepMoves ==
    ASSUME TypeOK, NEW x \in Execs, Step(x)
    PROVE  exec'[x] # exec[x] /\ exec'[x].pc \in Underway
<1> DEFINE Arrives(pc) == exec'[x].pc = pc
<1>1. /\ \A pc : Goto(x, pc) \/ Leave(x, pc) => Arrives(pc)
      /\ Fatal(x) => Arrives("cleanup")
      /\ FatalEarly(x) => Arrives("done")
      /\ \A pc, v : \/ exec' = [exec EXCEPT ![x].pc = pc, ![x].ps = v]
                    \/ exec' = [exec EXCEPT ![x].pc = pc, ![x].stale = v]
                    \/ exec' = [exec EXCEPT ![x].pc = pc, ![x].final = v]
                    \/ exec' = [exec EXCEPT ![x].pc = pc, ![x].warned = v]
                    \/ exec' = [exec EXCEPT ![x].pc = pc, ![x].cleanupOK = v]
                    => Arrives(pc)
  BY DEF TypeOK, Goto, Leave, Fatal, FatalEarly
<1>2. SUFFICES \E pc \in Underway : exec[x].pc # pc /\ Arrives(pc)
  OBVIOUS
<1>0. {"createWs", "findWs", "destroyStale", "awaitStale", "deleteStale",
       "recreateWs", "createPs", "recoverPs", "findPs", "deletePs",
       "recreatePs", "prepare", "trigger", "await", "detach", "queueDestroy",
       "awaitDestroy", "cleanup", "cleanupWs", "done"} \subseteq Underway
  BY PointsListed DEF Underway
<1> HIDE DEF Arrives
<1>3. CASE CreateWorkspace(x) \/ FindStaleWorkspace(x) \/ DestroyStale(x) \/ AwaitStale(x)
           \/ DeleteStale(x)
  BY <1>0, <1>1, <1>3 DEF CreateWorkspace, FindStaleWorkspace, DestroyStale, AwaitStale,
     DeleteStale
<1>4. CASE CreatePolicySet(x) \/ RecoverPolicySet(x) \/ FindStalePolicySet(x)
           \/ DeleteStalePolicySet(x)
  BY <1>0, <1>1, <1>4 DEF CreatePolicySet, RecoverPolicySet, FindStalePolicySet,
     DeleteStalePolicySet
<1>5. CASE Prepare(x) \/ Trigger(x) \/ Detach(x)
  BY <1>0, <1>1, <1>5 DEF Prepare, Trigger, Detach
<1>7. CASE Await(x)
  <2>1. exec[x].pc = "await" /\ \E f : Settle(x, f)
    BY <1>7 DEF Await
  <2>2. PICK f : Settle(x, f)
    BY <2>1
  <2>3. Arrives(AfterRun(x, f))
    BY <1>1, <2>2 DEF Settle
  <2>4. AfterRun(x, f) # "await" /\ AfterRun(x, f) \in Underway
    BY <1>0 DEF AfterRun
  <2> QED BY <2>1, <2>3, <2>4
<1>6. CASE QueueDestroy(x) \/ AwaitDestroy(x) \/ CleanupPolicySet(x) \/ CleanupWorkspace(x)
           \/ SkipCleanup(x)
  BY <1>0, <1>1, <1>6 DEF QueueDestroy, AwaitDestroy, CleanupPolicySet, CleanupWorkspace,
     SkipCleanup
<1> QED BY <1>3, <1>4, <1>5, <1>6, <1>7 DEF Step

\* The same in the terms of the contract: one object of the case appears or goes, or
\* the run creates resources.
StepObjects(x) ==
    \/ UNCHANGED <<workspaces, policySets>>
    \/ /\ workspaces \cap SameName(x) = {}
       /\ workspaces' = workspaces \cup {x} /\ policySets' = policySets
    \/ /\ x \in workspaces
       /\ policySets \cap SameName(x) = {}
       /\ policySets' = policySets \cup {x} /\ workspaces' = workspaces
    \/ \E w \in SameName(x) :
          \/ w \in workspaces /\ workspaces' = workspaces \ {w} /\ policySets' = policySets
          \/ w \in policySets /\ policySets' = policySets \ {w} /\ workspaces' = workspaces

LEMMA StepSeen ==
    ASSUME TypeOK, NEW x \in Execs, Step(x),
           exec[x].pc \in Recovering => exec[x].stale \in SameName(x),
           exec[x].ps \in SameName(x) \cup {NoId}
    PROVE  \/ resources' = resources /\ StepObjects(x)
           \/ /\ x \in workspaces /\ UNCHANGED <<workspaces, policySets>>
              /\ resources' = resources \cup {x} /\ exec'[x].pc # "done"
<1>1. Deed(x) /\ x \in SameName(x)
  BY StepDeed DEF SameName
<1>2. NoId \notin workspaces /\ NoId \notin policySets
  BY DEF TypeOK
<1>3. ASSUME NEW w \in Targets(x),
             DeletesWorkspace(w) \/ DeletesPolicySet(w) \/ QueuesDestroy(w)
      PROVE  resources' = resources /\ StepObjects(x)
  <2>1. CASE w \in SameName(x)
    BY <1>3, <2>1 DEF DeletesWorkspace, DeletesPolicySet, QueuesDestroy, StepObjects
  <2>2. CASE w = NoId
    BY <1>2, <1>3, <2>2 DEF DeletesWorkspace, DeletesPolicySet, QueuesDestroy, StepObjects
  <2> QED BY <1>1, <1>3, <2>1, <2>2 DEF Targets
<1> QED BY <1>1, <1>3 DEF Deed, StepObjects, hcp, WorkspacesNamed, PolicySetsNamed,
           CreatesPolicySet

-----------------------------------------------------------------------------
(* The contract of an execution.                                           *)

StageNow == [e \in Execs |-> StageOf(e)]
CleanNow == {e \in Execs : ReturnedClean(e)}

LEMMA StageAlive ==
    ASSUME TypeOK, NEW e \in Execs
    PROVE  /\ StageOf(e) = "running" <=> Alive(e)
           /\ StageOf(e) = "idle" <=> exec[e].pc = "idle"
           /\ StageOf(e) = "returned" <=> exec[e].pc = "done"
           /\ StageOf(e) = "crashed" <=> exec[e].pc = "crashed"
BY DEF StageOf, Alive, Ended

\* What the step of one execution changes of the stages and of the clean results.
LEMMA StepStage ==
    ASSUME TypeOK, NEW x \in Execs, OnlyExec(x)
    PROVE  /\ StageNow' = [StageNow EXCEPT ![x] = StageOf(x)']
           /\ exec[x].pc # "done" =>
                CleanNow' = IF ReturnedClean(x)' THEN CleanNow \cup {x} ELSE CleanNow
BY DEF StageNow, CleanNow, StageOf, ReturnedClean, OnlyExec

\* A clean result is returned by the deletion of the workspace.
LEMMA CleanReturn ==
    ASSUME TypeOK, Next, NEW e \in Execs, exec[e].pc # "done", ReturnedClean(e)',
           exec[e].pc # "cleanupWs" => ~exec[e].cleanupOK
    PROVE  /\ exec[e].pc = "cleanupWs" /\ exec[e].cleanupOK
           /\ ~exec[e].fatal /\ ~exec[e].warned
           /\ e \in workspaces /\ workspaces' = workspaces \ {e}
           /\ policySets' = policySets
<1>1. CleanupWorkspace(e) \/ SkipCleanup(e)
  BY FinishesInCleanup DEF ReturnedClean, Finishes
<1>2. CASE SkipCleanup(e)
  <2>1. exec'[e].cleanupOK = exec[e].cleanupOK /\ exec[e].pc = "cleanup"
    BY <1>2, GotoBecomes, PointsListed DEF SkipCleanup, Becomes
  <2> QED BY <2>1 DEF ReturnedClean
<1>3. CASE CleanupWorkspace(e)
  <2>1. PICK ok \in BOOLEAN :
          /\ exec' = [exec EXCEPT ![e].pc = "done", ![e].cleanupOK = ok]
          /\ ok => exec[e].cleanupOK /\ e \in workspaces /\ DeletesWorkspace(e)
    BY <1>3, ExecType DEF CleanupWorkspace
  <2>2. /\ exec'[e].cleanupOK = ok
        /\ exec'[e].fatal = exec[e].fatal /\ exec'[e].warned = exec[e].warned
    BY <2>1, AssignBecomes, PointsListed DEF Becomes
  <2> QED BY <1>3, <2>1, <2>2 DEF CleanupWorkspace, ReturnedClean, DeletesWorkspace
<1> QED BY <1>1, <1>2, <1>3

LEMMA StepKeepsContract ==
    ASSUME Inv, NEW x \in Execs, Step(x)
    PROVE  Contract!Call(x) \/ Contract!Provisions(x)
<1>1. TypeOK /\ ExecInv(x) /\ Alive(x) /\ OnlyExec(x) /\ x \in SameName(x)
  BY Ready, StepDeed, StepOthers
<1>2. /\ Contract!Runs(x)
      /\ \A w \in SameName(x) : w # x => w \in Execs /\ ~Contract!Runs(w)
  BY <1>1, StageAlive DEF Contract!Runs, Inv, Alone, SameName
<1>3. SameName(x) = Contract!SameCase(x)
  BY DEF SameName, Contract!SameCase
<1>4. StageOf(x)' = IF exec'[x].pc = "done" THEN "returned" ELSE "running"
  BY <1>1, StepMoves DEF StageOf, Underway
<1>5. StageNow' = IF exec'[x].pc = "done" THEN [StageNow EXCEPT ![x] = "returned"] ELSE StageNow
  <2>1. StageNow[x] = "running"
    BY <1>2 DEF StageNow, Contract!Runs
  <2> QED BY <1>1, <1>4, <2>1, StepStage DEF StageNow
<1>6. CleanNow' = IF ReturnedClean(x)' THEN CleanNow \cup {x} ELSE CleanNow
  BY <1>1, StepStage DEF Alive, Ended
<1>7. ASSUME ReturnedClean(x)'
      PROVE  (workspaces' \cup policySets') \cap SameName(x) = {}
  <2>1. exec[x].pc = "cleanupWs" /\ exec[x].cleanupOK /\ ~exec[x].fatal
        /\ x \in workspaces /\ workspaces' = workspaces \ {x} /\ policySets' = policySets
    BY <1>1, <1>7, CleanReturn DEF Next, ExecInv, FlagsInv, Alive, Ended
  <2>2. PolicySetsNamed(x) = {}
    BY <1>1, <2>1 DEF ExecInv, DetachInv
  <2> QED BY <1>1, <2>1, <2>2 DEF PolicySetsNamed, Inv, NamesUnique, SameName
<1>8. Contract!Returns(x) \/ UNCHANGED <<StageNow, CleanNow>>
  <2>1. CASE exec'[x].pc = "done"
    BY <1>1, <1>3, <1>5, <1>6, <1>7, <2>1 DEF Contract!Returns, StageNow, CleanNow
  <2>2. CASE exec'[x].pc # "done"
    BY <1>5, <1>6, <2>2 DEF ReturnedClean
  <2> QED BY <2>1, <2>2
<1>9. /\ exec[x].pc \in Recovering => exec[x].stale \in SameName(x)
      /\ exec[x].ps \in SameName(x) \cup {NoId}
  BY <1>1, ExecType DEF ExecInv, StaleInv, PolicySetInv, Recovering
<1>10. CASE resources' = resources /\ StepObjects(x)
  <2>1. \/ Contract!CreatesWorkspace(x)
        \/ Contract!CreatesPolicySet(x)
        \/ \E w \in Contract!SameCase(x) : Contract!Removes(x, w)
        \/ UNCHANGED <<workspaces, policySets, {}>>
    BY <1>2, <1>3, <1>10 DEF StepObjects, Contract!CreatesWorkspace, Contract!CreatesPolicySet,
       Contract!Removes, Contract!Removed
  <2> QED BY <1>2, <1>8, <1>10, <2>1
          DEF Contract!Call, Contract!objects, StageNow, CleanNow
<1>11. CASE /\ x \in workspaces /\ UNCHANGED <<workspaces, policySets>>
            /\ resources' = resources \cup {x} /\ exec'[x].pc # "done"
  BY <1>5, <1>6, <1>11
  DEF Contract!Provisions, Contract!objects, StageNow, CleanNow, ReturnedClean
<1> QED BY <1>1, <1>9, <1>10, <1>11, StepSeen

LEMMA NextKeepsContract ==
    ASSUME Inv, "overlap" \notin Faults, [Next]_vars
    PROVE  [Contract!Next]_(Contract!vars)
<1> USE DEF Contract!vars, Contract!objects
<1>1. TypeOK
  BY DEF Inv
<1>2. ASSUME NEW x \in Execs, Start(x)
      PROVE  Contract!Begin(x)
  <2>1. /\ exec[x].pc = "idle" /\ \A y \in SameName(x) : ~Alive(y)
        /\ Becomes(x, "createWs", exec[x].ps, exec[x].stale, exec[x].final,
                   exec[x].fatal, exec[x].warned, exec[x].cleanupOK)
        /\ UNCHANGED hcp
    BY <1>1, <1>2, GotoBecomes, PointsListed DEF Start
  <2>2. StageOf(x) = "idle" /\ StageOf(x)' = "running" /\ ~ReturnedClean(x)'
    BY <2>1 DEF StageOf, ReturnedClean, Becomes
  <2>3. StageNow' = [StageNow EXCEPT ![x] = "running"] /\ CleanNow' = CleanNow
    BY <1>1, <2>1, <2>2, StepStage DEF Becomes
  <2> QED BY <1>1, <2>1, <2>2, <2>3, StageAlive
          DEF Contract!Begin, Contract!Runs, Contract!SameCase, StageNow, CleanNow, SameName, hcp
<1>3. ASSUME NEW x \in Execs, Crash(x)
      PROVE  Contract!Dies(x)
  <2>1. Alive(x) /\ UNCHANGED hcp /\ OnlyExec(x) /\ exec'[x].pc = "crashed"
    BY <1>1, <1>3 DEF Crash, At, OnlyExec, TypeOK
  <2>2. StageOf(x) = "running" /\ StageOf(x)' = "crashed" /\ ~ReturnedClean(x)'
        /\ exec[x].pc # "done"
    BY <1>1, <2>1, StageAlive DEF StageOf, ReturnedClean, Alive, Ended
  <2>3. StageNow' = [StageNow EXCEPT ![x] = "crashed"] /\ CleanNow' = CleanNow
    BY <1>1, <2>1, <2>2, StepStage
  <2> QED BY <2>1, <2>2, <2>3 DEF Contract!Dies, Contract!Runs, StageNow, CleanNow, hcp
<1>4. ASSUME exec' = exec
      PROVE  StageNow' = StageNow /\ CleanNow' = CleanNow
  BY <1>4 DEF StageNow, CleanNow, StageOf, ReturnedClean
<1>5. ASSUME NEW w \in Execs, RunMoves(w) \/ DestroyEnds(w)
      PROVE  Contract!Provisions(w) \/ UNCHANGED Contract!vars
  BY <1>4, <1>5 DEF RunMoves, DestroyEnds, Contract!Provisions, StageNow, CleanNow
<1>6. CASE UNCHANGED vars
  BY <1>4, <1>6 DEF vars, hcp, StageNow, CleanNow
<1> QED BY <1>2, <1>3, <1>5, <1>6, StepKeepsContract DEF Next, Contract!Next

(* Invocations that follow each other implement the contract: every step of *)
(* Run, with its faults, retries and recoveries, is a step of the contract  *)
(* or invisible to it.                                                     *)
THEOREM LifecycleKeepsContract ==
    ASSUME "overlap" \notin Faults
    PROVE  Spec => Contract!Safety
<1>1. Init => Contract!Init
  BY DEF Init, At, Contract!Init, StageOf, ReturnedClean
<1>2. LifecycleInv /\ [Next]_vars => [Contract!Next]_(Contract!vars)
  BY NextKeepsContract DEF LifecycleInv, Inv
<1> QED BY <1>1, <1>2, LifecycleInvariant, PTL DEF Spec, Contract!Safety

\* Nothing that has the names of e comes or goes.
NamesUndisturbed(e) ==
    /\ WorkspacesNamed(e)' = WorkspacesNamed(e)
    /\ PolicySetsNamed(e)' = PolicySetsNamed(e)

(* While an execution runs, nothing with the names of its case comes or goes *)
(* but by its own requests: neither the other cases of the pool nor another *)
(* invocation of the case interfere.                                       *)
THEOREM CasesIsolated ==
    ASSUME "overlap" \notin Faults
    PROVE  Spec => [][\A e \in Execs :
                        Alive(e) /\ exec'[e] = exec[e] => NamesUndisturbed(e)]_vars
<1>1. ASSUME Inv, Next, NEW e \in Execs, Alive(e), exec'[e] = exec[e]
      PROVE  NamesUndisturbed(e)
  <2>1. ASSUME NEW x \in Execs, Start(x) \/ Crash(x) \/ RunMoves(x) \/ DestroyEnds(x)
        PROVE  NamesUndisturbed(e)
    BY <2>1 DEF Start, Crash, RunMoves, DestroyEnds, hcp, NamesUndisturbed,
       WorkspacesNamed, PolicySetsNamed, SameName
  <2>2. ASSUME NEW x \in Execs, Step(x)
        PROVE  NamesUndisturbed(e)
    <3>1. TypeOK /\ ExecInv(x) /\ Alive(x) /\ x # e
      BY <1>1, <2>2, StepDeed, StepMoves DEF Inv
    <3>2. CaseOf[x] # CaseOf[e]
      BY <1>1, <3>1 DEF Inv, Alone
    <3>3. UNCHANGED <<workspaces, policySets>> \/ StepObjects(x)
      BY <2>2, <3>1, StepSeen DEF ExecInv, StaleInv, PolicySetInv, Recovering
    <3>4. x \notin SameName(e) /\ SameName(x) \cap SameName(e) = {}
      BY <3>2 DEF SameName
    <3> QED BY <3>3, <3>4 DEF StepObjects, NamesUndisturbed, WorkspacesNamed,
               PolicySetsNamed, SameName
  <2> QED BY <1>1, <2>1, <2>2 DEF Next
<1>2. LifecycleInv /\ [Next]_vars
        => [\A e \in Execs :
              Alive(e) /\ exec'[e] = exec[e] => NamesUndisturbed(e)]_vars
  BY <1>1 DEF LifecycleInv, Inv
<1> QED BY <1>2, LifecycleInvariant, PTL DEF Spec
-----------------------------------------------------------------------------
(* An execution goes forward.                                              *)

\* The points of Run in the order an execution comes to them.
Position(pc) ==
    CASE pc = "idle" -> 0
      [] pc = "createWs" -> 1
      [] pc = "findWs" -> 2
      [] pc = "destroyStale" -> 3
      [] pc = "awaitStale" -> 4
      [] pc = "deleteStale" -> 5
      [] pc = "recreateWs" -> 6
      [] pc = "createPs" -> 7
      [] pc = "findPs" -> 8
      [] pc = "deletePs" -> 9
      [] pc = "recreatePs" -> 10
      [] pc = "recoverPs" -> 11
      [] pc = "prepare" -> 12
      [] pc = "trigger" -> 13
      [] pc = "await" -> 14
      [] pc = "detach" -> 15
      [] pc = "queueDestroy" -> 16
      [] pc = "awaitDestroy" -> 17
      [] pc = "cleanup" -> 18
      [] pc = "cleanupWs" -> 19
      [] pc = "done" -> 20
      [] pc = "crashed" -> 21

Forward(e) == Position(exec[e].pc) < Position(exec'[e].pc)

LEMMA Positions ==
    /\ Position("idle") = 0
    /\ Position("createWs") = 1
    /\ Position("findWs") = 2
    /\ Position("destroyStale") = 3
    /\ Position("awaitStale") = 4
    /\ Position("deleteStale") = 5
    /\ Position("recreateWs") = 6
    /\ Position("createPs") = 7
    /\ Position("findPs") = 8
    /\ Position("deletePs") = 9
    /\ Position("recreatePs") = 10
    /\ Position("recoverPs") = 11
    /\ Position("prepare") = 12
    /\ Position("trigger") = 13
    /\ Position("await") = 14
    /\ Position("detach") = 15
    /\ Position("queueDestroy") = 16
    /\ Position("awaitDestroy") = 17
    /\ Position("cleanup") = 18
    /\ Position("cleanupWs") = 19
    /\ Position("done") = 20
    /\ Position("crashed") = 21
BY DEF Position

LEMMA StepForward ==
    ASSUME TypeOK, NEW x \in Execs, Step(x)
    PROVE  Forward(x)
<1> DEFINE Arrives(pc) == exec'[x].pc = pc
           From(pc) == Position(exec[x].pc) < Position(pc)
<1>1. /\ \A pc : Goto(x, pc) \/ Leave(x, pc) => Arrives(pc)
      /\ Fatal(x) => Arrives("cleanup")
      /\ FatalEarly(x) => Arrives("done")
      /\ \A pc, v : \/ exec' = [exec EXCEPT ![x].pc = pc, ![x].ps = v]
                    \/ exec' = [exec EXCEPT ![x].pc = pc, ![x].stale = v]
                    \/ exec' = [exec EXCEPT ![x].pc = pc, ![x].final = v]
                    \/ exec' = [exec EXCEPT ![x].pc = pc, ![x].warned = v]
                    \/ exec' = [exec EXCEPT ![x].pc = pc, ![x].cleanupOK = v]
                    => Arrives(pc)
  BY DEF TypeOK, Goto, Leave, Fatal, FatalEarly
<1>2. SUFFICES \E pc : From(pc) /\ Arrives(pc)
  BY DEF Forward
<1>3. /\ exec[x].pc \in {"createWs", "findWs", "destroyStale", "awaitStale", "deleteStale"}
            => From("recreateWs")
      /\ exec[x].pc \in {"createWs", "recreateWs"} => From("createPs") /\ From("done")
      /\ exec[x].pc = "createWs" => From("findWs")
      /\ exec[x].pc = "findWs" => From("destroyStale")
      /\ exec[x].pc = "destroyStale" => From("awaitStale") /\ From("deleteStale")
      /\ exec[x].pc = "awaitStale" => From("deleteStale")
  BY Positions
<1>4. /\ exec[x].pc = "createPs" => From("findPs")
      /\ exec[x].pc = "findPs" => From("deletePs")
      /\ exec[x].pc = "deletePs" => From("recreatePs")
      /\ exec[x].pc \in {"createPs", "recreatePs"} => From("recoverPs")
      /\ exec[x].pc \in {"createPs", "recreatePs", "recoverPs"} => From("prepare")
      /\ exec[x].pc = "prepare" => From("trigger")
      /\ exec[x].pc = "trigger" => From("await")
      /\ exec[x].pc \in {"createPs", "findPs", "recreatePs", "recoverPs", "prepare",
                         "trigger", "await", "queueDestroy", "awaitDestroy"}
            => From("cleanup")
  BY Positions
<1>5. /\ exec[x].pc = "await" => From("detach")
      /\ exec[x].pc = "detach" => From("queueDestroy")
      /\ exec[x].pc = "queueDestroy" => From("awaitDestroy")
      /\ exec[x].pc = "cleanup" => From("cleanupWs")
      /\ exec[x].pc \in {"cleanup", "cleanupWs"} => From("done")
  BY Positions
<1> HIDE DEF Arrives, From
<1>6. CASE CreateWorkspace(x) \/ FindStaleWorkspace(x) \/ DestroyStale(x) \/ AwaitStale(x)
           \/ DeleteStale(x)
  BY <1>1, <1>3, <1>6 DEF CreateWorkspace, FindStaleWorkspace, DestroyStale, AwaitStale,
     DeleteStale
<1>7. CASE CreatePolicySet(x) \/ RecoverPolicySet(x) \/ FindStalePolicySet(x)
           \/ DeleteStalePolicySet(x)
  BY <1>1, <1>4, <1>7 DEF CreatePolicySet, RecoverPolicySet, FindStalePolicySet,
     DeleteStalePolicySet
<1>8. CASE Prepare(x) \/ Trigger(x) \/ Detach(x)
  BY <1>1, <1>4, <1>5, <1>8 DEF Prepare, Trigger, Detach
<1>9. CASE Await(x)
  <2>1. exec[x].pc = "await" /\ \E f : Settle(x, f)
    BY <1>9 DEF Await
  <2>2. PICK f : Settle(x, f)
    BY <2>1
  <2>3. Arrives(AfterRun(x, f))
    BY <1>1, <2>2 DEF Settle
  <2>4. From(AfterRun(x, f))
    BY <1>4, <1>5, <2>1 DEF AfterRun
  <2> QED BY <2>3, <2>4
<1>10. CASE QueueDestroy(x) \/ AwaitDestroy(x) \/ CleanupPolicySet(x) \/ CleanupWorkspace(x)
            \/ SkipCleanup(x)
  BY <1>1, <1>4, <1>5, <1>10 DEF QueueDestroy, AwaitDestroy, CleanupPolicySet,
     CleanupWorkspace, SkipCleanup
<1> QED BY <1>6, <1>7, <1>8, <1>9, <1>10 DEF Step

(* Run has no loop: no recovery is tried twice, and an execution, whatever   *)
(* the faults and whoever overlaps, is over after twenty steps at most.  The *)
(* only thing that can keep it is a wait.                                  *)
THEOREM ExecutionsGoForward ==
    Spec => [][\A e \in Execs : exec'[e] = exec[e] \/ Forward(e)]_vars
<1>1. ASSUME TypeOK, NEW x \in Execs, NEW e \in Execs, Start(x) \/ Step(x) \/ Crash(x)
      PROVE  exec'[e] = exec[e] \/ Forward(e)
  <2>1. CASE e # x
    <3>1. OnlyExec(x)
      BY <1>1, StepOthers DEF Start, Crash, Goto, TypeOK, OnlyExec
    <3> QED BY <2>1, <3>1 DEF OnlyExec
  <2>2. CASE e = x /\ Start(x)
    <3>1. exec[x].pc = "idle" /\ exec'[x].pc = "createWs"
      BY <1>1, <2>2 DEF Start, Goto, TypeOK
    <3> QED BY <2>2, <3>1, Positions DEF Forward
  <2>3. CASE e = x /\ Step(x)
    BY <1>1, <2>3, StepForward
  <2>4. CASE e = x /\ Crash(x)
    <3>1. exec[x].pc \in Points \ {"done", "crashed"} /\ exec'[x].pc = "crashed"
      BY <1>1, <2>4 DEF Crash, At, Alive, Ended, TypeOK
    <3>2. Position(exec[x].pc) \in 0..19
      BY <3>1, Positions DEF Points, Starting, Attaching, Testing, Destroying, Cleaning, Ended
    <3> QED BY <2>4, <3>1, <3>2, Positions DEF Forward
  <2> QED BY <1>1, <2>1, <2>2, <2>3, <2>4
<1>2. ASSUME NEW w \in Execs, RunMoves(w) \/ DestroyEnds(w)
      PROVE  exec' = exec
  BY <1>2 DEF RunMoves, DestroyEnds
<1>3. TypeOK /\ [Next]_vars
        => [\A e \in Execs : exec'[e] = exec[e] \/ Forward(e)]_vars
  BY <1>1, <1>2 DEF Next
<1> QED BY <1>3, LifecycleTypes, PTL DEF Spec
=============================================================================
