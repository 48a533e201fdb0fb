------------------------ MODULE CaseContract_proofs ------------------------
(***************************************************************************)
(* What the contract of an execution is worth: consequences for every      *)
(* number of executions and cases, with and without a purge beside them.   *)
(***************************************************************************)
EXTENDS CaseContract, TLAPS

\* Executions of a case follow each other, and what does not run yet owns nothing.
OneRuns ==
    Undisturbed =>
        \A x, y \in Execs : Runs(x) /\ Runs(y) /\ CaseOf[x] = CaseOf[y] => x = y

Inv == TypeOK /\ NamesHeldOnce /\ CleanIsFinal /\ NobodyRobbed /\ OneRuns

LEMMA InitInv == Init => Inv
BY DEF Init, Inv, TypeOK, Stages, NamesHeldOnce, CleanIsFinal, NobodyRobbed, OneRuns, Runs

\* What a request of e does to the objects.
LEMMA CallObjects ==
    ASSUME Inv, NEW e \in Execs, Call(e)
    PROVE  /\ workspaces' \subseteq workspaces \cup {e}
           /\ policySets' \subseteq policySets \cup {e}
           /\ e \in workspaces' => e \in workspaces \/ workspaces \cap SameCase(e) = {}
           /\ e \in policySets' => e \in policySets \/ policySets \cap SameCase(e) = {}
           /\ robbed' \subseteq Execs
           /\ \A y \in robbed' \ robbed : y # e /\ Runs(y)
           /\ \A y \in Execs \ SameCase(e) :
                /\ y \in workspaces' <=> y \in workspaces
                /\ y \in policySets' <=> y \in policySets
<1>1. CASE CreatesWorkspace(e) \/ CreatesPolicySet(e) \/ UNCHANGED objects
  BY <1>1 DEF CreatesWorkspace, CreatesPolicySet, objects, Inv, TypeOK, SameCase
<1>2. ASSUME NEW x \in SameCase(e), Removes(e, x)
      PROVE  /\ workspaces' \subseteq workspaces
             /\ policySets' \subseteq policySets
             /\ robbed' \subseteq Execs
             /\ \A y \in robbed' \ robbed : y # e /\ Runs(y)
             /\ \A y \in Execs \ SameCase(e) :
                  /\ y \in workspaces' <=> y \in workspaces
                  /\ y \in policySets' <=> y \in policySets
  BY <1>2 DEF Removes, Removed, Inv, TypeOK, SameCase
<1> QED BY <1>1, <1>2 DEF Call

LEMMA CallInv ==
    ASSUME Inv, NEW e \in Execs, Call(e)
    PROVE  Inv'
<1>1. Runs(e) /\ resources' = resources
      /\ (Returns(e) \/ UNCHANGED <<stage, clean>>)
  BY DEF Call
<1>2. TypeOK'
  BY <1>1, CallObjects DEF Inv, TypeOK, Returns, Stages
<1>3. NamesHeldOnce'
  BY CallObjects DEF Inv, TypeOK, NamesHeldOnce, SameCase
<1>4. CleanIsFinal'
  BY <1>1, CallObjects DEF Inv, TypeOK, CleanIsFinal, Returns, Runs
<1>5. NobodyRobbed'
  <2>1. ASSUME Undisturbed, NEW x \in SameCase(e), Removes(e, x)
        PROVE  robbed' = robbed
    BY <2>1 DEF Removes
  <2> QED BY <2>1 DEF Inv, NobodyRobbed, Call, CreatesWorkspace, CreatesPolicySet, objects
<1>6. OneRuns'
  BY <1>1 DEF Inv, TypeOK, OneRuns, Runs, Returns
<1> QED BY <1>2, <1>3, <1>4, <1>5, <1>6 DEF Inv

LEMMA NextInv == Inv /\ [Next]_vars => Inv'
<1> SUFFICES ASSUME Inv, [Next]_vars PROVE Inv'
  OBVIOUS
<1> USE DEF Inv, TypeOK, NamesHeldOnce, CleanIsFinal, NobodyRobbed, OneRuns, Runs, Stages
<1>1. ASSUME NEW e \in Execs, Begin(e) PROVE Inv'
  BY <1>1 DEF Begin, objects, SameCase
<1>2. ASSUME NEW e \in Execs, Dies(e) PROVE Inv'
  BY <1>2 DEF Dies, objects
<1>3. ASSUME NEW e \in Execs, Provisions(e) PROVE Inv'
  BY <1>3 DEF Provisions, objects
<1>4. ASSUME NEW e \in Execs, Purges(e) PROVE Inv'
  BY <1>4 DEF Purges, Removed
<1>5. CASE UNCHANGED vars
  BY <1>5 DEF vars, objects
<1> QED BY <1>1, <1>2, <1>3, <1>4, <1>5, CallInv DEF Next

THEOREM ContractInvariant == Safety => []Inv
BY InitInv, NextInv, PTL DEF Safety

(* The types of the contract.                                              *)
THEOREM ContractTypes == Safety => []TypeOK
BY ContractInvariant, PTL DEF Inv

(* Whatever creates and removes them, no two objects share a name.         *)
THEOREM NamesAreHeldOnce == Safety => []NamesHeldOnce
BY ContractInvariant, PTL DEF Inv

(* A clean result stays true, also beside a purge or an overlapping        *)
(* execution of the case.                                                  *)
THEOREM CleanStaysFinal == Safety => []CleanIsFinal
BY ContractInvariant, PTL DEF Inv

(* Without a purge and without overlap nobody loses anything.              *)
THEOREM NobodyIsRobbed == Safety => []NobodyRobbed
BY ContractInvariant, PTL DEF Inv

(* Nor does anybody touch the names of a running execution.                *)
THEOREM ExecutionsIsolated == Safety => Isolated
<1> DEFINE A == Undisturbed =>
          \A e, x \in Execs :
            Runs(e) /\ x # e /\ Call(x) =>
                /\ workspaces' \cap SameCase(e) = workspaces \cap SameCase(e)
                /\ policySets' \cap SameCase(e) = policySets \cap SameCase(e)
<1>1. Inv /\ [Next]_vars => [A]_vars
  <2> SUFFICES ASSUME Inv, Undisturbed, NEW e \in Execs, NEW x \in Execs, Runs(e), x # e,
                      Call(x)
               PROVE  /\ workspaces' \cap SameCase(e) = workspaces \cap SameCase(e)
                      /\ policySets' \cap SameCase(e) = policySets \cap SameCase(e)
    OBVIOUS
  <2>1. CaseOf[x] # CaseOf[e]
    BY DEF Inv, OneRuns, Call
  <2>2. \A y \in SameCase(e) : y \in Execs \ SameCase(x)
    BY <2>1 DEF SameCase
  <2> QED BY <2>2, CallObjects
<1> QED BY <1>1, ContractInvariant, PTL DEF Safety, Isolated
=============================================================================
