--------------------------- MODULE LocalRun_proofs ---------------------------
(***************************************************************************)
(* The safety properties of LocalRun, for any executions, policy files,    *)
(* test cases and faults.                                                  *)
(***************************************************************************)
EXTENDS LocalRun, TLAPS

\* Executions that are alive together are recorded.
Alone == \A x, y \in Execs : x # y /\ Alive(x) /\ Alive(y) => x \in shared

\* The disabled files are those some execution renamed, each by one execution.
DisabledInv ==
    /\ \A p \in disabled : \E d \in Execs : p \in exec[d].renamed
    /\ \A d \in Execs : exec[d].renamed \subseteq disabled
    /\ \A c, d \in Execs : c # d => exec[c].renamed \cap exec[d].renamed = {}

\* The executions that may leave a .terraform that is not usable.
Culprit(d) ==
    \/ exec[d].phase = "crashed"
    \/ \E p \in Phases : exec[d].res[p] = "ERROR"
    \/ "tfdir" \in exec[d].kept

DirectoryInv ==
    /\ binary => tc.plugin
    /\ tfdir = "partial" => \E d \in Execs : Culprit(d)

\* Where e is and what it has done by then.
PointInv(e) ==
    LET x == exec[e]
        Apply(points) == x.phase = "apply" /\ x.at \in points
    IN  /\ x.at # "begin" => Alive(e)
        /\ x.at \in {"disable", "restore"} => x.phase = "apply"
        /\ x.renamed # {} =>
              Apply({"disable", "restore", "end"}) \/ x.phase \in Ended
        /\ x.at = "restore" => x.todo \subseteq x.renamed
        /\ x.destroyFailed => Apply({"restore", "end"}) \/ x.phase = "done"
        /\ x.kept \cap {"tfdir", "state"} # {} => Apply({"end"}) \/ x.phase = "done"

\* A level has no status before it is evaluated.
ResultInv(e) ==
    LET x == exec[e]
    IN  /\ Alive(e) /\ x.at \in {"begin", "init", "eval"} => x.res[x.phase] = NoStatus
        /\ x.phase = "idle" => \A p \in Phases : x.res[p] = NoStatus
        /\ x.phase = "test" => x.res["plan"] = NoStatus
        /\ x.phase \in {"test", "plan"} => x.res["apply"] = NoStatus

\* What it met that it could not rely on.
MetInv(e) ==
    LET x == exec[e]
    IN  /\ x.blind =>
              \/ e \in shared
              \/ \E d \in Execs \ {e} :
                    exec[d].renamed # {} /\ exec[d].phase \in Ended
        /\ x.unready =>
              \/ e \in shared
              \/ \E p \in Phases : x.res[p] = "ERROR"
              \/ \E d \in Execs \ {e} : Culprit(d)

\* What it knows of the directory when it has it to itself, and of the resources
\* it created.
OwnInv(e) ==
    LET x == exec[e]
        Apply(point) == x.phase = "apply" /\ x.at = point /\ e \notin shared
    IN  /\ Apply("eval") => tfdir # "none"
        /\ Apply("restore") /\ ~x.destroyFailed => tracked = {}
        /\ Apply("end") /\ x.res["apply"] # "ERROR" =>
              /\ "tfdir" \notin x.kept => tfdir = "none"
              /\ "state" \notin x.kept => tracked = {}
        /\ e \in live =>
              \/ e \in shared
              \/ x.phase = "crashed"
              \/ x.destroyFailed
              \/ x.phase = "apply" /\ x.at \in {"eval", "disable"} /\ e \in tracked

ExecInv(e) == PointInv(e) /\ ResultInv(e) /\ MetInv(e) /\ OwnInv(e)

LocalInv ==
    /\ TypeOK
    /\ Alone
    /\ DisabledInv
    /\ DirectoryInv
    /\ \A e \in Execs : ExecInv(e)

-----------------------------------------------------------------------------
(* Types.                                                                  *)

ExecType == [phase : Phases \cup Ended \cup {"idle"},
             at : {"begin", "init", "eval", "disable", "restore", "end"},
             skipTFP : BOOLEAN,
             res : [Phases -> Statuses \cup {NoStatus}],
             todo : SUBSET Policies, renamed : SUBSET Policies,
             destroyFailed : BOOLEAN, blind : BOOLEAN,
             unready : BOOLEAN, kept : SUBSET {"tfdir", "state", "binary"}]

LEMMA ResultTypes ==
    ASSUME NEW x, NEW o
    PROVE  CheckResult(x, o) \in Statuses /\ PolicyTestResult(o) \in Statuses
<1>1. \A y : CheckResult(y, o) \in Statuses
  BY DEF CheckResult, Statuses
<1>2. Validated(o) \in Statuses
  BY DEF Validated, Statuses
<1> QED BY <1>1, <1>2 DEF PolicyTestResult, Statuses

\* What the return of a level changes.
LEMMA ReturnedLevel ==
    ASSUME NEW e \in Execs, exec[e] \in ExecType, Alive(e),
           NEW status \in Statuses \cup {NoStatus}
    PROVE  /\ Returned(e, status) \in ExecType
           /\ Returned(e, status).phase = After(exec[e].phase)
           /\ Returned(e, status).at = "begin"
           /\ Returned(e, status).res = [exec[e].res EXCEPT ![exec[e].phase] = status]
           /\ Returned(e, status).renamed = exec[e].renamed
           /\ Returned(e, status).destroyFailed = exec[e].destroyFailed
           /\ Returned(e, status).blind = exec[e].blind
           /\ Returned(e, status).unready = exec[e].unready
           /\ Returned(e, status).kept = exec[e].kept
<1>1. After(exec[e].phase) \in {"plan", "apply", "done"}
  BY DEF Alive, Phases, After
<1> HIDE DEF After
<1>2. [exec[e].res EXCEPT ![exec[e].phase] = status] \in [Phases -> Statuses \cup {NoStatus}]
  BY DEF ExecType
<1> QED BY <1>1, <1>2 DEF Returned, ExecType, Phases, Ended

LEMMA TypesAtFirst == Init => TypeOK
<1>1. NewExec \in ExecType
  BY DEF NewExec, ExecType, Phases
<1> QED BY <1>1 DEF Init, TypeOK, ExecType

Acts(e) == Start(e) \/ Step(e) \/ TerraformCreates(e) \/ Crash(e)

LEMMA BecomesType ==
    ASSUME exec \in [Execs -> ExecType], NEW e \in Execs, NEW x \in ExecType, Becomes(e, x)
    PROVE  exec' \in [Execs -> ExecType]
BY DEF Becomes

LEMMA ExecTypesKept ==
    ASSUME TypeOK, NEW e \in Execs, Acts(e)
    PROVE  exec' \in [Execs -> ExecType]
<1> DEFINE x == exec[e]
<1>0. exec \in [Execs -> ExecType] /\ x \in ExecType
  BY DEF TypeOK, ExecType
<1>1. CASE Start(e)
  <2>1. \A skip \in BOOLEAN : [x EXCEPT !.phase = "test", !.skipTFP = skip] \in ExecType
    BY <1>0 DEF ExecType, Phases
  <2> QED BY <1>0, <1>1, <2>1, BecomesType DEF Start
<1>2. CASE Skip(e)
  <2>1. Returned(e, "SKIP") \in ExecType
    BY <1>0, <1>2, ReturnedLevel DEF Skip, Statuses
  <2> QED BY <1>0, <1>2, <2>1, BecomesType DEF Skip
<1>3. CASE Build(e)
  <2>1. Returned(e, "FAIL") \in ExecType
    BY <1>0, <1>3, ReturnedLevel DEF Build, Statuses
  <2>2. \A at \in {"eval", "init"} : [x EXCEPT !.at = at] \in ExecType
    BY <1>0 DEF ExecType
  <2> QED BY <1>0, <1>3, <2>1, <2>2, BecomesType DEF Build, Goto
<1>4. CASE RunInit(e)
  <2>1. x.phase \in Phases
    BY <1>4 DEF RunInit, Alive
  <2>2. [x EXCEPT !.at = "eval"] \in ExecType
    BY <1>0 DEF ExecType
  <2>3. [x EXCEPT !.at = "end", !.res[x.phase] = "ERROR"] \in ExecType
    BY <1>0, <2>1 DEF ExecType, Statuses
  <2> QED BY <1>0, <1>4, <2>2, <2>3, BecomesType DEF RunInit, Goto
<1>5. CASE Evaluate(e)
  <2>1. PICK status \in Statuses :
          Becomes(e, [x EXCEPT !.res[x.phase] = status, !.blind = Blind(e), !.at = "end"])
    BY <1>5, ResultTypes DEF Evaluate
  <2>2. Blind(e) \in BOOLEAN
    BY <1>0 DEF Blind, ExecType
  <2>3. [x EXCEPT !.res[x.phase] = status, !.blind = Blind(e), !.at = "end"] \in ExecType
    BY <1>0, <2>2 DEF ExecType
  <2> QED BY <1>0, <2>1, <2>3, BecomesType
<1>6. CASE ApplyReturns(e)
  <2>1. PICK status \in Statuses :
          Becomes(e, [x EXCEPT !.res["apply"] = status, !.blind = Blind(e),
                               !.unready = (tfdir # "ready"),
                               !.todo = Policies \ disabled, !.at = "disable"])
    BY <1>6, ResultTypes DEF ApplyReturns
  <2>2. Blind(e) \in BOOLEAN /\ (tfdir # "ready") \in BOOLEAN
    BY <1>0 DEF Blind, ExecType
  <2>3. [x EXCEPT !.res["apply"] = status, !.blind = Blind(e),
                  !.unready = (tfdir # "ready"),
                  !.todo = Policies \ disabled, !.at = "disable"] \in ExecType
    BY <1>0, <2>2 DEF ExecType
  <2> QED BY <1>0, <2>1, <2>3, BecomesType
<1>7. ASSUME NEW p \in Policies, RenameAway(e, p) \/ RenameBack(e, p)
      PROVE  exec' \in [Execs -> ExecType]
  <2>1. /\ [x EXCEPT !.todo = @ \ {p}, !.renamed = @ \cup {p}] \in ExecType
        /\ [x EXCEPT !.todo = @ \ {p}, !.renamed = @ \ {p}] \in ExecType
        /\ [x EXCEPT !.todo = @ \ {p}] \in ExecType
    BY <1>0 DEF ExecType
  <2> QED BY <1>0, <1>7, <2>1, BecomesType DEF RenameAway, RenameBack
<1>8. CASE Destroy(e)
  <2>1. \A failed \in BOOLEAN :
          [x EXCEPT !.at = "restore", !.todo = x.renamed, !.destroyFailed = failed]
             \in ExecType
    BY <1>0 DEF ExecType
  <2> QED BY <1>0, <1>8, <2>1, BecomesType DEF Destroy
<1>9. CASE CleanTFWorkdir(e)
  <2>1. ASSUME NEW kept \in SUBSET {"tfdir", "state"}
        PROVE  [x EXCEPT !.at = "end", !.kept = @ \cup kept] \in ExecType
    <3>1. x.kept \cup kept \in SUBSET {"tfdir", "state", "binary"}
      BY <1>0 DEF ExecType
    <3> QED BY <1>0, <3>1 DEF ExecType
  <2> QED BY <1>0, <1>9, <2>1, BecomesType DEF CleanTFWorkdir
<1>10. CASE EndLevel(e)
  <2> DEFINE done == Returned(e, x.res[x.phase])
  <2>1. Alive(e) /\ x.phase \in Phases
    BY <1>10 DEF EndLevel, Alive
  <2>2. x.res[x.phase] \in Statuses \cup {NoStatus}
    BY <1>0, <2>1 DEF ExecType
  <2>3. done \in ExecType
    BY <1>0, <2>1, <2>2, ReturnedLevel
  <2> HIDE DEF done
  <2>4. [done EXCEPT !.kept = @ \cup {"binary"}] \in ExecType
    <3>1. done.kept \cup {"binary"} \in SUBSET {"tfdir", "state", "binary"}
      BY <2>3 DEF ExecType
    <3> QED BY <2>3, <3>1 DEF ExecType
  <2>5. Becomes(e, done) \/ Becomes(e, [done EXCEPT !.kept = @ \cup {"binary"}])
    BY <1>10 DEF EndLevel, done
  <2> QED BY <1>0, <2>3, <2>4, <2>5, BecomesType
<1>11. CASE TerraformCreates(e)
  BY <1>0, <1>11 DEF TerraformCreates
<1>12. CASE Crash(e)
  <2>1. [NewExec EXCEPT !.phase = "crashed", !.renamed = x.renamed] \in ExecType
    BY <1>0 DEF NewExec, ExecType, Phases, Ended
  <2> QED BY <1>0, <1>12, <2>1, BecomesType DEF Crash
<1> QED BY <1>1, <1>2, <1>3, <1>4, <1>5, <1>6, <1>7, <1>8, <1>9, <1>10, <1>11, <1>12
        DEF Acts, Step

LEMMA TypesKept ==
    ASSUME TypeOK, NEW e \in Execs, Acts(e)
    PROVE  TypeOK'
<1>1. exec' \in [Execs -> ExecType]
  BY ExecTypesKept
<1>2. tc' \in TestCases
  BY DEF Acts, Start, Step, Skip, Build, RunInit, Evaluate, ApplyReturns, RenameAway,
         RenameBack, Destroy, CleanTFWorkdir, EndLevel, TerraformCreates, Crash, TypeOK
<1>3. disabled' \subseteq Policies
  BY DEF Acts, Start, Step, Skip, Build, RunInit, Evaluate, ApplyReturns, RenameAway,
         RenameBack, Destroy, CleanTFWorkdir, EndLevel, TerraformCreates, Crash, TypeOK,
         disk
<1>4. binary' \in BOOLEAN
  <2>1. tc.plugin \in BOOLEAN
    BY LocalAssumption DEF TypeOK, TestCaseType
  <2> QED BY <2>1 DEF Acts, Start, Step, Skip, Build, RunInit, Evaluate, ApplyReturns,
         RenameAway, RenameBack, Destroy, CleanTFWorkdir, EndLevel, TerraformCreates,
         Crash, TypeOK, disk
<1>5. tfdir' \in {"none", "partial", "ready"}
  BY DEF Acts, Start, Step, Skip, Build, RunInit, Evaluate, ApplyReturns, RenameAway,
         RenameBack, Destroy, CleanTFWorkdir, EndLevel, TerraformCreates, Crash, TypeOK,
         disk
<1>6. tracked' \subseteq Execs /\ live' \subseteq Execs
  BY DEF Acts, Start, Step, Skip, Build, RunInit, Evaluate, ApplyReturns, RenameAway,
         RenameBack, Destroy, CleanTFWorkdir, EndLevel, TerraformCreates, Crash, TypeOK,
         disk
<1>7. shared' \subseteq Execs
  BY DEF Acts, Start, Step, Skip, Build, RunInit, Evaluate, ApplyReturns, RenameAway,
         RenameBack, Destroy, CleanTFWorkdir, EndLevel, TerraformCreates, Crash, TypeOK
<1> QED BY <1>1, <1>2, <1>3, <1>4, <1>5, <1>6, <1>7 DEF TypeOK, ExecType

\* Every variable of LocalRun keeps its type.
THEOREM LocalTypes == Spec => []TypeOK
<1>1. TypeOK /\ [Next]_vars => TypeOK'
  <2>1. TypeOK /\ Next => TypeOK'
    BY TypesKept DEF Next, Acts
  <2>2. TypeOK /\ UNCHANGED vars => TypeOK'
    BY DEF TypeOK, vars, disk
  <2> QED BY <2>1, <2>2
<1> QED BY <1>1, TypesAtFirst, PTL DEF Spec

-----------------------------------------------------------------------------
(* What a step of one execution leaves alone.                              *)

LEMMA Changed ==
    ASSUME exec \in [Execs -> ExecType], NEW e \in Execs, NEW x, Becomes(e, x)
    PROVE  exec'[e] = x /\ \A d \in Execs \ {e} : exec'[d] = exec[d]
BY DEF Becomes

LEMMA Frame ==
    ASSUME TypeOK, NEW e \in Execs, Acts(e)
    PROVE  /\ \A d \in Execs \ {e} : exec'[d] = exec[d]
           /\ shared \subseteq shared'
           /\ tc' = tc
           /\ exec[e].phase \notin Ended
           /\ exec[e].phase # "idle" => Alive(e) /\ shared' = shared
<1>0. exec \in [Execs -> ExecType]
  BY DEF TypeOK, ExecType
<1>2. \A d \in Execs \ {e} : exec'[d] = exec[d]
  <2>1. CASE Start(e) \/ Skip(e) \/ Build(e) \/ RunInit(e)
    BY <1>0, <2>1, Changed DEF Start, Skip, Build, RunInit, Goto
  <2>2. CASE Evaluate(e) \/ ApplyReturns(e)
    BY <1>0, <2>2, Changed DEF Evaluate, ApplyReturns
  <2>3. ASSUME NEW p \in Policies, RenameAway(e, p) \/ RenameBack(e, p)
        PROVE  \A d \in Execs \ {e} : exec'[d] = exec[d]
    BY <1>0, <2>3, Changed DEF RenameAway, RenameBack
  <2>4. CASE Destroy(e) \/ CleanTFWorkdir(e)
    BY <1>0, <2>4, Changed DEF Destroy, CleanTFWorkdir
  <2>5. CASE EndLevel(e)
    BY <1>0, <2>5, Changed DEF EndLevel
  <2>6. CASE TerraformCreates(e)
    BY <2>6 DEF TerraformCreates
  <2>7. CASE Crash(e)
    BY <1>0, <2>7, Changed DEF Crash
  <2> QED BY <2>1, <2>2, <2>3, <2>4, <2>5, <2>6, <2>7 DEF Acts, Step
<1>3. shared \subseteq shared' /\ tc' = tc
  BY DEF Acts, Start, Step, Skip, Build, RunInit, Evaluate, ApplyReturns, RenameAway,
         RenameBack, Destroy, CleanTFWorkdir, EndLevel, TerraformCreates, Crash
<1>4. \/ Start(e) /\ exec[e].phase = "idle"
      \/ Alive(e) /\ shared' = shared
  <2>1. Start(e) => exec[e].phase = "idle"
    BY DEF Start
  <2>2. Skip(e) \/ Build(e) \/ RunInit(e) \/ EndLevel(e) \/ Crash(e)
          => Alive(e) /\ shared' = shared
    BY DEF Skip, Build, RunInit, EndLevel, Crash
  <2>3. Evaluate(e) \/ ApplyReturns(e) \/ Destroy(e) \/ CleanTFWorkdir(e)
          \/ TerraformCreates(e) => Alive(e) /\ shared' = shared
    BY DEF Evaluate, ApplyReturns, Destroy, CleanTFWorkdir, TerraformCreates, Alive, Phases
  <2>4. \A p \in Policies :
          RenameAway(e, p) \/ RenameBack(e, p) => Alive(e) /\ shared' = shared
    BY DEF RenameAway, RenameBack, Alive, Phases
  <2>5. CASE Step(e)
    BY <2>2, <2>3, <2>4, <2>5 DEF Step
  <2> QED BY <2>1, <2>2, <2>3, <2>5 DEF Acts
<1>5. exec[e].phase \notin Ended /\ (exec[e].phase # "idle" => Alive(e) /\ shared' = shared)
  BY <1>4 DEF Alive, Phases, Ended
<1> QED BY <1>2, <1>3, <1>5

\* What the step makes of the state of e, action by action.
LEMMA ExecTypes ==
    ASSUME TypeOK
    PROVE  exec \in [Execs -> ExecType] /\ \A e \in Execs : exec[e] \in ExecType
BY DEF TypeOK, ExecType

LEMMA StartStep ==
    ASSUME TypeOK, NEW e \in Execs, Start(e)
    PROVE  \E skip \in BOOLEAN :
              exec'[e] = [exec[e] EXCEPT !.phase = "test", !.skipTFP = skip]
BY ExecTypes, Changed DEF Start

LEMMA SkipStep ==
    ASSUME TypeOK, NEW e \in Execs, Skip(e)
    PROVE  exec'[e] = Returned(e, "SKIP")
BY ExecTypes, Changed DEF Skip

LEMMA BuildStep ==
    ASSUME TypeOK, NEW e \in Execs, Build(e)
    PROVE  \/ exec'[e] = Returned(e, "FAIL")
           \/ exec'[e] = [exec[e] EXCEPT !.at = "eval"] /\ exec[e].phase = "test"
           \/ exec'[e] = [exec[e] EXCEPT !.at = "init"] /\ exec[e].phase # "test"
BY ExecTypes, Changed DEF Build, Goto

LEMMA InitStep ==
    ASSUME TypeOK, NEW e \in Execs, RunInit(e)
    PROVE  \/ exec'[e] = [exec[e] EXCEPT !.at = "eval"]
           \/ exec'[e] = [exec[e] EXCEPT !.at = "end", !.res[exec[e].phase] = "ERROR"]
BY ExecTypes, Changed DEF RunInit, Goto

LEMMA EvaluateStep ==
    ASSUME TypeOK, NEW e \in Execs, Evaluate(e)
    PROVE  \E status \in Statuses :
              exec'[e] = [exec[e] EXCEPT !.res[exec[e].phase] = status,
                                         !.blind = Blind(e), !.at = "end"]
BY ExecTypes, Changed, ResultTypes DEF Evaluate

LEMMA ApplyStep ==
    ASSUME TypeOK, NEW e \in Execs, ApplyReturns(e)
    PROVE  \E status \in Statuses :
              exec'[e] = [exec[e] EXCEPT !.res["apply"] = status, !.blind = Blind(e),
                                         !.unready = (tfdir # "ready"),
                                         !.todo = Policies \ disabled,
                                         !.at = "disable"]
BY ExecTypes, Changed, ResultTypes DEF ApplyReturns

LEMMA AwayStep ==
    ASSUME TypeOK, NEW e \in Execs, NEW p \in Policies, RenameAway(e, p)
    PROVE  \/ exec'[e] = [exec[e] EXCEPT !.todo = @ \ {p}, !.renamed = @ \cup {p}]
           \/ exec'[e] = [exec[e] EXCEPT !.todo = @ \ {p}]
BY ExecTypes, Changed DEF RenameAway

LEMMA DestroyStep ==
    ASSUME TypeOK, NEW e \in Execs, Destroy(e)
    PROVE  \E failed \in BOOLEAN :
              exec'[e] = [exec[e] EXCEPT !.at = "restore", !.todo = exec[e].renamed,
                                         !.destroyFailed = failed]
BY ExecTypes, Changed DEF Destroy

LEMMA BackStep ==
    ASSUME TypeOK, NEW e \in Execs, NEW p \in Policies, RenameBack(e, p)
    PROVE  \/ exec'[e] = [exec[e] EXCEPT !.todo = @ \ {p}, !.renamed = @ \ {p}]
           \/ exec'[e] = [exec[e] EXCEPT !.todo = @ \ {p}]
BY ExecTypes, Changed DEF RenameBack

LEMMA CleanStep ==
    ASSUME TypeOK, NEW e \in Execs, CleanTFWorkdir(e)
    PROVE  \E kept \in SUBSET {"tfdir", "state"} :
              /\ exec'[e] = [exec[e] EXCEPT !.at = "end", !.kept = exec[e].kept \cup kept]
              /\ "tfdir" \notin kept => tfdir' = "none"
              /\ "state" \notin kept => tracked' = {}
<1>1. PICK kept \in SUBSET {"tfdir", "state"} :
        /\ Becomes(e, [exec[e] EXCEPT !.at = "end", !.kept = exec[e].kept \cup kept])
        /\ "tfdir" \notin kept => tfdir' = "none"
        /\ "state" \notin kept => tracked' = {}
  BY DEF CleanTFWorkdir
<1> QED BY <1>1, ExecTypes, Changed

LEMMA EndStep ==
    ASSUME TypeOK, NEW e \in Execs, EndLevel(e)
    PROVE  /\ exec'[e].phase = After(exec[e].phase)
           /\ exec'[e].at = "begin"
           /\ exec'[e].res = exec[e].res
           /\ exec'[e].renamed = exec[e].renamed
           /\ exec'[e].destroyFailed = exec[e].destroyFailed
           /\ exec'[e].blind = exec[e].blind
           /\ exec'[e].unready = exec[e].unready
           /\ exec'[e].kept \in {exec[e].kept, exec[e].kept \cup {"binary"}}
           /\ "binary" \notin exec'[e].kept => binary' = (binary /\ ~tc.plugin)
<1> DEFINE done == Returned(e, exec[e].res[exec[e].phase])
<1>0. exec \in [Execs -> ExecType] /\ exec[e] \in ExecType
  BY ExecTypes
<1>1. Alive(e) /\ exec[e].phase \in Phases
  BY DEF EndLevel, Alive
<1>2. exec[e].res[exec[e].phase] \in Statuses \cup {NoStatus}
  BY <1>0, <1>1 DEF ExecType
<1>3. done \in ExecType
  BY <1>0, <1>1, <1>2, ReturnedLevel
<1>4. /\ done.phase = After(exec[e].phase) /\ done.at = "begin"
      /\ done.renamed = exec[e].renamed /\ done.kept = exec[e].kept
      /\ done.destroyFailed = exec[e].destroyFailed /\ done.blind = exec[e].blind
      /\ done.unready = exec[e].unready
  BY <1>0, <1>1, <1>2, ReturnedLevel
<1>5. done.res = exec[e].res
  <2>1. done.res = [exec[e].res EXCEPT ![exec[e].phase] = exec[e].res[exec[e].phase]]
    BY <1>0, <1>1, <1>2, ReturnedLevel
  <2>2. exec[e].res \in [Phases -> Statuses \cup {NoStatus}]
    BY <1>0 DEF ExecType
  <2> QED BY <2>1, <2>2
<1>6. \/ Becomes(e, done) /\ binary' = (binary /\ ~tc.plugin)
      \/ Becomes(e, [done EXCEPT !.kept = done.kept \cup {"binary"}])
  BY DEF EndLevel
<1> HIDE DEF done
<1>7. \/ exec'[e] = done /\ binary' = (binary /\ ~tc.plugin)
      \/ exec'[e] = [done EXCEPT !.kept = done.kept \cup {"binary"}]
  BY <1>0, <1>6, Changed
<1> HIDE DEF After
<1> QED BY <1>3, <1>4, <1>5, <1>7 DEF ExecType

LEMMA CrashStep ==
    ASSUME TypeOK, NEW e \in Execs, Crash(e)
    PROVE  /\ exec'[e] \in ExecType
           /\ exec'[e].phase = "crashed" /\ exec'[e].at = "begin"
           /\ exec'[e].renamed = exec[e].renamed /\ exec'[e].kept = {}
           /\ ~exec'[e].destroyFailed /\ ~exec'[e].blind /\ ~exec'[e].unready
           /\ exec'[e].res = [p \in Phases |-> NoStatus]
<1>1. exec'[e] = [NewExec EXCEPT !.phase = "crashed", !.renamed = exec[e].renamed]
  BY ExecTypes, Changed DEF Crash
<1>2. exec[e].renamed \subseteq Policies
  BY ExecTypes DEF ExecType
<1>3. NewExec \in ExecType
  BY DEF NewExec, ExecType, Phases
<1>4. exec'[e] \in ExecType /\ exec'[e].phase = "crashed"
      /\ exec'[e].renamed = exec[e].renamed /\ exec'[e].at = NewExec.at
      /\ exec'[e].kept = NewExec.kept /\ exec'[e].destroyFailed = NewExec.destroyFailed
      /\ exec'[e].blind = NewExec.blind /\ exec'[e].unready = NewExec.unready
      /\ exec'[e].res = NewExec.res
  BY <1>1, <1>2, <1>3 DEF ExecType, Ended
<1> QED BY <1>4 DEF NewExec

\* The state of e after a step of another execution.
LEMMA OthersStep ==
    ASSUME TypeOK, NEW d \in Execs, Acts(d), NEW e \in Execs \ {d}
    PROVE  exec'[e] = exec[e]
BY Frame

\* A level that returns from its beginning.
LEMMA EarlyReturn ==
    ASSUME TypeOK, NEW e \in Execs, Alive(e), NEW status \in Statuses,
           exec'[e] = Returned(e, status)
    PROVE  /\ exec'[e].phase = After(exec[e].phase)
           /\ exec'[e].at = "begin"
           /\ exec'[e].res[exec[e].phase] = status
           /\ \A p \in Phases \ {exec[e].phase} : exec'[e].res[p] = exec[e].res[p]
           /\ exec'[e].renamed = exec[e].renamed
           /\ exec'[e].destroyFailed = exec[e].destroyFailed
           /\ exec'[e].blind = exec[e].blind
           /\ exec'[e].unready = exec[e].unready
           /\ exec'[e].kept = exec[e].kept
<1>1. exec[e] \in ExecType /\ exec[e].phase \in Phases /\ status \in Statuses \cup {NoStatus}
  BY ExecTypes DEF Alive
<1> HIDE DEF After
<1>2. exec'[e].res = [exec[e].res EXCEPT ![exec[e].phase] = status]
  BY <1>1, ReturnedLevel
<1>3. exec[e].res \in [Phases -> Statuses \cup {NoStatus}]
  BY <1>1 DEF ExecType
<1>4. /\ exec'[e].res[exec[e].phase] = status
      /\ \A p \in Phases \ {exec[e].phase} : exec'[e].res[p] = exec[e].res[p]
  BY <1>1, <1>2, <1>3
<1>5. /\ exec'[e].phase = After(exec[e].phase)
      /\ exec'[e].at = "begin"
      /\ exec'[e].renamed = exec[e].renamed
      /\ exec'[e].destroyFailed = exec[e].destroyFailed
      /\ exec'[e].blind = exec[e].blind
      /\ exec'[e].unready = exec[e].unready
      /\ exec'[e].kept = exec[e].kept
  <2> DEFINE level == Returned(e, status)
  <2>1. /\ level.phase = After(exec[e].phase) /\ level.at = "begin"
        /\ level.renamed = exec[e].renamed /\ level.kept = exec[e].kept
        /\ level.destroyFailed = exec[e].destroyFailed
        /\ level.blind = exec[e].blind /\ level.unready = exec[e].unready
    BY <1>1, ReturnedLevel
  <2> HIDE DEF level
  <2>2. exec'[e] = level
    BY DEF level
  <2> QED BY <2>1, <2>2
<1> QED BY <1>4, <1>5

LEMMA SkipOrFail ==
    ASSUME TypeOK, NEW e \in Execs, Skip(e) \/ Build(e)
    PROVE  /\ Alive(e) /\ exec[e].at = "begin"
           /\ \/ \E status \in {"SKIP", "FAIL"} : exec'[e] = Returned(e, status)
              \/ exec'[e] = [exec[e] EXCEPT !.at = "eval"] /\ exec[e].phase = "test"
              \/ exec'[e] = [exec[e] EXCEPT !.at = "init"] /\ exec[e].phase # "test"
<1>1. Alive(e) /\ exec[e].at = "begin"
  BY DEF Skip, Build
<1> QED BY <1>1, SkipStep, BuildStep

\* What has been recorded of an execution stays.
LEMMA Remembers ==
    ASSUME TypeOK, NEW e \in Execs, PointInv(e), ResultInv(e), Acts(e)
    PROVE  \/ exec'[e].phase = "crashed" /\ ~exec'[e].unready
           \/ /\ \A p \in Phases : exec[e].res[p] = "ERROR" => exec'[e].res[p] = "ERROR"
              /\ exec[e].kept \subseteq exec'[e].kept
<1> DEFINE x == exec[e]
           Recorded == /\ \A p \in Phases : x.res[p] = "ERROR" => exec'[e].res[p] = "ERROR"
                       /\ x.kept \subseteq exec'[e].kept
<1>0. x \in ExecType
  BY ExecTypes
<1>1. CASE Start(e)
  <2>1. PICK skip \in BOOLEAN : exec'[e] = [x EXCEPT !.phase = "test", !.skipTFP = skip]
    BY <1>1, StartStep
  <2> QED BY <1>0, <2>1 DEF ExecType
<1>2. CASE Skip(e) \/ Build(e)
  <2>1. x.res[x.phase] = NoStatus
    BY <1>2, SkipOrFail DEF ResultInv
  <2>2. ASSUME NEW status \in {"SKIP", "FAIL"}, exec'[e] = Returned(e, status)
        PROVE  Recorded
    <3>1. /\ \A p \in Phases \ {x.phase} : exec'[e].res[p] = x.res[p]
          /\ exec'[e].kept = x.kept
      BY <1>2, <2>2, SkipOrFail, EarlyReturn DEF Statuses
    <3> QED BY <2>1, <3>1 DEF NoStatus
  <2>3. CASE exec'[e] = [x EXCEPT !.at = "eval"] \/ exec'[e] = [x EXCEPT !.at = "init"]
    BY <1>0, <2>3 DEF ExecType
  <2> QED BY <1>2, <2>2, <2>3, SkipOrFail
<1>3. CASE RunInit(e)
  <2>1. \/ exec'[e] = [x EXCEPT !.at = "eval"]
         \/ exec'[e] = [x EXCEPT !.at = "end", !.res[x.phase] = "ERROR"]
    BY <1>3, InitStep
  <2>2. CASE exec'[e] = [x EXCEPT !.at = "eval"]
    BY <1>0, <2>2 DEF ExecType
  <2>3. CASE exec'[e] = [x EXCEPT !.at = "end", !.res[x.phase] = "ERROR"]
    BY <1>0, <2>3 DEF ExecType
  <2> QED BY <2>2, <2>3, <2>1
<1>4. CASE Evaluate(e)
  <2>1. x.res[x.phase] = NoStatus
    BY <1>4 DEF Evaluate, ResultInv, Alive, Phases
  <2>2. PICK status \in Statuses :
          exec'[e] = [x EXCEPT !.res[x.phase] = status, !.blind = Blind(e), !.at = "end"]
    BY <1>4, EvaluateStep
  <2> QED BY <1>0, <2>1, <2>2 DEF ExecType, NoStatus
<1>5. CASE ApplyReturns(e)
  <2>1. x.res["apply"] = NoStatus
    BY <1>5 DEF ApplyReturns, ResultInv, Alive, Phases
  <2>2. PICK status \in Statuses :
          exec'[e] = [x EXCEPT !.res["apply"] = status, !.blind = Blind(e),
                               !.unready = (tfdir # "ready"),
                               !.todo = Policies \ disabled, !.at = "disable"]
    BY <1>5, ApplyStep
  <2> QED BY <1>0, <2>1, <2>2 DEF ExecType, NoStatus
<1>6. ASSUME NEW p \in Policies, RenameAway(e, p) PROVE Recorded
  <2>1. \/ exec'[e] = [x EXCEPT !.todo = @ \ {p}, !.renamed = @ \cup {p}]
         \/ exec'[e] = [x EXCEPT !.todo = @ \ {p}]
    BY <1>6, AwayStep
  <2> QED BY <1>0, <2>1 DEF ExecType
<1>13. ASSUME NEW p \in Policies, RenameBack(e, p) PROVE Recorded
  <2>1. \/ exec'[e] = [x EXCEPT !.todo = @ \ {p}, !.renamed = @ \ {p}]
         \/ exec'[e] = [x EXCEPT !.todo = @ \ {p}]
    BY <1>13, BackStep
  <2> QED BY <1>0, <2>1 DEF ExecType
<1>7. CASE Destroy(e)
  <2>1. PICK failed \in BOOLEAN :
          exec'[e] = [x EXCEPT !.at = "restore", !.todo = x.renamed,
                               !.destroyFailed = failed]
    BY <1>7, DestroyStep
  <2> QED BY <1>0, <2>1 DEF ExecType
<1>8. CASE CleanTFWorkdir(e)
  <2>1. PICK kept \in SUBSET {"tfdir", "state"} :
          exec'[e] = [x EXCEPT !.at = "end", !.kept = x.kept \cup kept]
    BY <1>8, CleanStep
  <2> QED BY <1>0, <2>1 DEF ExecType
<1>9. CASE EndLevel(e)
  BY <1>9, EndStep
<1>10. CASE TerraformCreates(e)
  BY <1>10 DEF TerraformCreates
<1>11. CASE Crash(e)
  BY <1>11, CrashStep
<1> QED BY <1>1, <1>2, <1>3, <1>4, <1>5, <1>6, <1>7, <1>8, <1>9, <1>10, <1>11, <1>13
        DEF Acts, Step

LEMMA CulpritStays ==
    ASSUME LocalInv, NEW e \in Execs, Acts(e), NEW d \in Execs, Culprit(d)
    PROVE  Culprit(d)'
<1>0. TypeOK /\ PointInv(e) /\ ResultInv(e)
  BY DEF LocalInv, ExecInv
<1>1. CASE d # e
  <2>1. exec'[d] = exec[d]
    BY <1>0, <1>1, OthersStep
  <2> QED BY <2>1 DEF Culprit
<1>2. CASE d = e
  <2>1. exec[e].phase # "crashed"
    BY <1>0, Frame DEF Ended
  <2> QED BY <1>0, <1>2, <2>1, Remembers DEF Culprit
<1> QED BY <1>1, <1>2

-----------------------------------------------------------------------------
(* Where an execution is.                                                  *)

LEMMA PointKept ==
    ASSUME TypeOK, NEW e \in Execs, PointInv(e), Acts(e)
    PROVE  PointInv(e)'
<1> DEFINE x == exec[e]
<1>0. x \in ExecType
  BY ExecTypes
<1>1. CASE Start(e)
  <2>1. x.phase = "idle"
    BY <1>1 DEF Start
  <2>2. PICK skip \in BOOLEAN : exec'[e] = [x EXCEPT !.phase = "test", !.skipTFP = skip]
    BY <1>1, StartStep
  <2> QED BY <1>0, <2>1, <2>2 DEF ExecType, PointInv, Alive, Phases, Ended
<1>2. CASE Skip(e) \/ Build(e)
  <2>1. Alive(e) /\ x.at = "begin"
    BY <1>2, SkipOrFail
  <2>2. ASSUME NEW status \in {"SKIP", "FAIL"}, exec'[e] = Returned(e, status)
        PROVE  PointInv(e)'
    <3>1. x.renamed = {} /\ ~x.destroyFailed /\ x.kept \cap {"tfdir", "state"} = {}
      BY <1>0, <2>1 DEF PointInv, ExecType, Alive, Phases, Ended
    <3> QED BY <2>1, <2>2, <3>1, EarlyReturn DEF PointInv, Statuses
  <2>3. CASE exec'[e] = [x EXCEPT !.at = "eval"] \/ exec'[e] = [x EXCEPT !.at = "init"]
    BY <1>0, <2>1, <2>3 DEF ExecType, PointInv, Alive, Phases, Ended
  <2> QED BY <1>2, <2>2, <2>3, SkipOrFail
<1>3. CASE RunInit(e)
  <2>1. Alive(e) /\ x.at = "init"
    BY <1>3 DEF RunInit
  <2>2. \/ exec'[e] = [x EXCEPT !.at = "eval"]
         \/ exec'[e] = [x EXCEPT !.at = "end", !.res[x.phase] = "ERROR"]
    BY <1>3, InitStep
  <2> QED BY <1>0, <2>1, <2>2 DEF ExecType, PointInv, Alive, Phases, Ended
<1>4. CASE Evaluate(e)
  <2>1. x.phase \in {"test", "plan"} /\ x.at = "eval"
    BY <1>4 DEF Evaluate
  <2>2. PICK status \in Statuses :
          exec'[e] = [x EXCEPT !.res[x.phase] = status, !.blind = Blind(e), !.at = "end"]
    BY <1>4, EvaluateStep
  <2> QED BY <1>0, <2>1, <2>2 DEF ExecType, PointInv, Alive, Phases, Ended
<1>5. CASE ApplyReturns(e)
  <2>1. x.phase = "apply" /\ x.at = "eval"
    BY <1>5 DEF ApplyReturns
  <2>2. PICK status \in Statuses :
          exec'[e] = [x EXCEPT !.res["apply"] = status, !.blind = Blind(e),
                               !.unready = (tfdir # "ready"),
                               !.todo = Policies \ disabled, !.at = "disable"]
    BY <1>5, ApplyStep
  <2> QED BY <1>0, <2>1, <2>2 DEF ExecType, PointInv, Alive, Phases, Ended
<1>6. ASSUME NEW p \in Policies, RenameAway(e, p)
      PROVE  PointInv(e)'
  <2>1. x.phase = "apply" /\ x.at = "disable"
    BY <1>6 DEF RenameAway
  <2>2. \/ exec'[e] = [x EXCEPT !.todo = @ \ {p}, !.renamed = @ \cup {p}]
         \/ exec'[e] = [x EXCEPT !.todo = @ \ {p}]
    BY <1>6, AwayStep
  <2> QED BY <1>0, <2>1, <2>2 DEF ExecType, PointInv, Alive, Phases, Ended
<1>7. ASSUME NEW p \in Policies, RenameBack(e, p)
      PROVE  PointInv(e)'
  <2>1. x.phase = "apply" /\ x.at = "restore"
    BY <1>7 DEF RenameBack
  <2>2. \/ exec'[e] = [x EXCEPT !.todo = @ \ {p}, !.renamed = @ \ {p}]
         \/ exec'[e] = [x EXCEPT !.todo = @ \ {p}]
    BY <1>7, BackStep
  <2>3. CASE exec'[e] = [x EXCEPT !.todo = @ \ {p}, !.renamed = @ \ {p}]
    BY <1>0, <2>1, <2>3 DEF ExecType, PointInv, Alive, Phases, Ended
  <2>4. CASE exec'[e] = [x EXCEPT !.todo = @ \ {p}]
    BY <1>0, <2>1, <2>4 DEF ExecType, PointInv, Alive, Phases, Ended
  <2> QED BY <2>3, <2>4, <2>2
<1>8. CASE Destroy(e)
  <2>1. x.phase = "apply" /\ x.at = "disable"
    BY <1>8 DEF Destroy
  <2>2. PICK failed \in BOOLEAN :
          exec'[e] = [x EXCEPT !.at = "restore", !.todo = x.renamed,
                               !.destroyFailed = failed]
    BY <1>8, DestroyStep
  <2> QED BY <1>0, <2>1, <2>2 DEF ExecType, PointInv, Alive, Phases, Ended
<1>9. CASE CleanTFWorkdir(e)
  <2>1. x.phase = "apply" /\ x.at = "restore"
    BY <1>9 DEF CleanTFWorkdir
  <2>2. PICK kept \in SUBSET {"tfdir", "state"} :
          exec'[e] = [x EXCEPT !.at = "end", !.kept = x.kept \cup kept]
    BY <1>9, CleanStep
  <2> QED BY <1>0, <2>1, <2>2 DEF ExecType, PointInv, Alive, Phases, Ended
<1>10. CASE EndLevel(e)
  <2>1. Alive(e) /\ x.phase \in Phases /\ x.at = "end"
    BY <1>10 DEF EndLevel, Alive
  <2>2. CASE x.phase = "apply"
    BY <1>10, <2>2, EndStep DEF PointInv, After, Ended
  <2>3. CASE x.phase # "apply"
    <3>1. x.renamed = {} /\ ~x.destroyFailed /\ x.kept \cap {"tfdir", "state"} = {}
      BY <1>0, <2>1, <2>3 DEF PointInv, ExecType, Alive, Phases, Ended
    <3> QED BY <1>10, <3>1, EndStep DEF PointInv
  <2> QED BY <2>2, <2>3
<1>11. CASE TerraformCreates(e)
  BY <1>11 DEF TerraformCreates, PointInv, Alive
<1>12. CASE Crash(e)
  BY <1>12, CrashStep DEF PointInv, Ended
<1> QED BY <1>1, <1>2, <1>3, <1>4, <1>5, <1>6, <1>7, <1>8, <1>9, <1>10, <1>11, <1>12
        DEF Acts, Step

LEMMA ResultKept ==
    ASSUME TypeOK, NEW e \in Execs, PointInv(e), ResultInv(e), Acts(e)
    PROVE  ResultInv(e)'
<1> DEFINE x == exec[e]
<1>0. x \in ExecType
  BY ExecTypes
<1>1. CASE Start(e)
  <2>1. x.phase = "idle"
    BY <1>1 DEF Start
  <2>2. PICK skip \in BOOLEAN : exec'[e] = [x EXCEPT !.phase = "test", !.skipTFP = skip]
    BY <1>1, StartStep
  <2> QED BY <1>0, <2>1, <2>2 DEF ExecType, ResultInv, Alive, Phases
<1>2. CASE Skip(e) \/ Build(e)
  <2>1. Alive(e) /\ x.at = "begin"
    BY <1>2, SkipOrFail
  <2>2. ASSUME NEW status \in {"SKIP", "FAIL"}, exec'[e] = Returned(e, status)
        PROVE  ResultInv(e)'
    <3>1. /\ exec'[e].phase = After(x.phase)
          /\ \A p \in Phases \ {x.phase} : exec'[e].res[p] = x.res[p]
      BY <2>1, <2>2, EarlyReturn DEF Statuses
    <3> QED BY <2>1, <3>1 DEF ResultInv, Alive, Phases, After
  <2>3. CASE exec'[e] = [x EXCEPT !.at = "eval"] \/ exec'[e] = [x EXCEPT !.at = "init"]
    BY <1>0, <2>1, <2>3 DEF ExecType, ResultInv, Alive, Phases
  <2> QED BY <1>2, <2>2, <2>3, SkipOrFail
<1>3. CASE RunInit(e)
  <2>1. Alive(e) /\ x.at = "init"
    BY <1>3 DEF RunInit
  <2>2. CASE exec'[e] = [x EXCEPT !.at = "eval"]
    BY <1>0, <2>1, <2>2 DEF ExecType, ResultInv, Alive, Phases
  <2>3. CASE exec'[e] = [x EXCEPT !.at = "end", !.res[x.phase] = "ERROR"]
    BY <1>0, <2>1, <2>3 DEF ExecType, ResultInv, Alive, Phases
  <2> QED BY <1>3, <2>2, <2>3, InitStep
<1>4. CASE Evaluate(e)
  <2>1. x.phase \in {"test", "plan"} /\ x.at = "eval"
    BY <1>4 DEF Evaluate
  <2>2. PICK status \in Statuses :
          exec'[e] = [x EXCEPT !.res[x.phase] = status, !.blind = Blind(e), !.at = "end"]
    BY <1>4, EvaluateStep
  <2> QED BY <1>0, <2>1, <2>2 DEF ExecType, ResultInv, Alive, Phases
<1>5. CASE ApplyReturns(e)
  <2>1. x.phase = "apply" /\ x.at = "eval"
    BY <1>5 DEF ApplyReturns
  <2>2. PICK status \in Statuses :
          exec'[e] = [x EXCEPT !.res["apply"] = status, !.blind = Blind(e),
                               !.unready = (tfdir # "ready"),
                               !.todo = Policies \ disabled, !.at = "disable"]
    BY <1>5, ApplyStep
  <2> QED BY <1>0, <2>1, <2>2 DEF ExecType, ResultInv, Alive, Phases
<1>6. ASSUME NEW p \in Policies, RenameAway(e, p)
      PROVE  ResultInv(e)'
  <2>1. x.phase = "apply" /\ x.at = "disable"
    BY <1>6 DEF RenameAway
  <2>2. \/ exec'[e] = [x EXCEPT !.todo = @ \ {p}, !.renamed = @ \cup {p}]
        \/ exec'[e] = [x EXCEPT !.todo = @ \ {p}]
    BY <1>6, AwayStep
  <2> QED BY <1>0, <2>1, <2>2 DEF ExecType, ResultInv, Alive, Phases
<1>7. ASSUME NEW p \in Policies, RenameBack(e, p)
      PROVE  ResultInv(e)'
  <2>1. x.phase = "apply" /\ x.at = "restore"
    BY <1>7 DEF RenameBack
  <2>2. \/ exec'[e] = [x EXCEPT !.todo = @ \ {p}, !.renamed = @ \ {p}]
        \/ exec'[e] = [x EXCEPT !.todo = @ \ {p}]
    BY <1>7, BackStep
  <2> QED BY <1>0, <2>1, <2>2 DEF ExecType, ResultInv, Alive, Phases
<1>8. CASE Destroy(e)
  <2>1. x.phase = "apply" /\ x.at = "disable"
    BY <1>8 DEF Destroy
  <2>2. PICK failed \in BOOLEAN :
          exec'[e] = [x EXCEPT !.at = "restore", !.todo = x.renamed,
                               !.destroyFailed = failed]
    BY <1>8, DestroyStep
  <2> QED BY <1>0, <2>1, <2>2 DEF ExecType, ResultInv, Alive, Phases
<1>9. CASE CleanTFWorkdir(e)
  <2>1. x.phase = "apply" /\ x.at = "restore"
    BY <1>9 DEF CleanTFWorkdir
  <2>2. PICK kept \in SUBSET {"tfdir", "state"} :
          exec'[e] = [x EXCEPT !.at = "end", !.kept = x.kept \cup kept]
    BY <1>9, CleanStep
  <2> QED BY <1>0, <2>1, <2>2 DEF ExecType, ResultInv, Alive, Phases
<1>10. CASE EndLevel(e)
  <2>1. x.phase \in Phases
    BY <1>10 DEF EndLevel, Alive
  <2>2. exec'[e].phase = After(x.phase) /\ exec'[e].res = x.res
    BY <1>10, EndStep
  <2> QED BY <2>1, <2>2 DEF ResultInv, Alive, Phases, After
<1>11. CASE TerraformCreates(e)
  BY <1>11 DEF TerraformCreates, ResultInv, Alive
<1>12. CASE Crash(e)
  BY <1>12, CrashStep DEF ResultInv, Alive, Phases
<1> QED BY <1>1, <1>2, <1>3, <1>4, <1>5, <1>6, <1>7, <1>8, <1>9, <1>10, <1>11, <1>12
        DEF Acts, Step

-----------------------------------------------------------------------------
(* Other executions, and the policy files.                                 *)

\* Whoever has started together with another execution is recorded.
LEMMA AloneKept ==
    ASSUME LocalInv, NEW e \in Execs, Acts(e)
    PROVE  Alone'
<1>1. TypeOK /\ Alone
  BY DEF LocalInv
<1>2. \A d \in Execs \ {e} : Alive(d)' <=> Alive(d)
  BY <1>1, Frame DEF Alive
<1>3. CASE exec[e].phase # "idle"
  <2>1. Alive(e) /\ shared' = shared
    BY <1>1, <1>3, Frame
  <2> QED BY <1>1, <1>2, <2>1 DEF Alone
<1>4. CASE exec[e].phase = "idle"
  <2>1. CASE Start(e)
    <3> DEFINE others == {x \in Execs : Alive(x)}
    <3>1. shared' = IF others = {} THEN shared ELSE shared \cup others \cup {e}
      BY <2>1 DEF Start
    <3>2. \A d \in Execs \ {e} : Alive(d) => d \in shared' /\ e \in shared'
      BY <3>1
    <3>3. shared \subseteq shared'
      BY <3>1
    <3> QED BY <1>1, <1>2, <3>2, <3>3 DEF Alone
  <2>2. CASE ~Start(e)
    <3>1. ~(Skip(e) \/ Build(e) \/ RunInit(e) \/ EndLevel(e) \/ Crash(e))
      BY <1>4 DEF Skip, Build, RunInit, EndLevel, Crash, Alive, Phases
    <3>2. ~(Evaluate(e) \/ ApplyReturns(e) \/ Destroy(e) \/ CleanTFWorkdir(e)
              \/ TerraformCreates(e))
      BY <1>4 DEF Evaluate, ApplyReturns, Destroy, CleanTFWorkdir, TerraformCreates
    <3>3. \A p \in Policies : ~RenameAway(e, p) /\ ~RenameBack(e, p)
      BY <1>4 DEF RenameAway, RenameBack
    <3> QED BY <2>2, <3>1, <3>2, <3>3 DEF Acts, Step
  <2> QED BY <2>1, <2>2
<1> QED BY <1>3, <1>4

\* An execution that is not recorded has the directory to itself while it is alive.
LEMMA NobodyElse ==
    ASSUME LocalInv, NEW e \in Execs, Acts(e), NEW d \in Execs \ {e}, Alive(d)
    PROVE  d \in shared'
<1>1. TypeOK /\ Alone'
  BY AloneKept DEF LocalInv
<1>2. Alive(d)'
  BY <1>1, Frame DEF Alive
<1>3. CASE Alive(e)
  BY <1>1, <1>3, Frame DEF LocalInv, Alone
<1>4. CASE exec[e].phase = "idle" /\ Start(e)
  BY <1>4 DEF Start
<1>5. Alive(e) \/ (exec[e].phase = "idle" /\ Start(e))
  <2>1. Start(e) => exec[e].phase = "idle"
    BY DEF Start
  <2>2. Skip(e) \/ Build(e) \/ RunInit(e) \/ EndLevel(e) \/ Crash(e) => Alive(e)
    BY DEF Skip, Build, RunInit, EndLevel, Crash
  <2>3. Evaluate(e) \/ ApplyReturns(e) \/ Destroy(e) \/ CleanTFWorkdir(e)
          \/ TerraformCreates(e) => Alive(e)
    BY DEF Evaluate, ApplyReturns, Destroy, CleanTFWorkdir, TerraformCreates, Alive, Phases
  <2>4. \A p \in Policies : RenameAway(e, p) \/ RenameBack(e, p) => Alive(e)
    BY DEF RenameAway, RenameBack, Alive, Phases
  <2> QED BY <2>1, <2>2, <2>3, <2>4 DEF Acts, Step
<1> QED BY <1>3, <1>4, <1>5

\* Only a rename changes what is disabled and what an execution has renamed.
LEMMA RenamedStays ==
    ASSUME TypeOK, NEW e \in Execs, Acts(e),
           \A p \in Policies : ~RenameAway(e, p) /\ ~RenameBack(e, p)
    PROVE  disabled' = disabled /\ exec'[e].renamed = exec[e].renamed
<1> DEFINE x == exec[e]
<1>0. x \in ExecType
  BY ExecTypes
<1>1. disabled' = disabled
  BY DEF Acts, Start, Step, Skip, Build, RunInit, Evaluate, ApplyReturns, Destroy,
         CleanTFWorkdir, EndLevel, TerraformCreates, Crash, disk
<1>2. CASE Start(e)
  <2>1. PICK skip \in BOOLEAN : exec'[e] = [x EXCEPT !.phase = "test", !.skipTFP = skip]
    BY <1>2, StartStep
  <2> QED BY <1>0, <1>1, <2>1 DEF ExecType
<1>3. CASE Skip(e) \/ Build(e)
  <2>1. Alive(e)
    BY <1>3, SkipOrFail
  <2>2. \A status \in {"SKIP", "FAIL"} :
          exec'[e] = Returned(e, status) => exec'[e].renamed = x.renamed
    BY <2>1, EarlyReturn DEF Statuses
  <2>3. CASE exec'[e] = [x EXCEPT !.at = "eval"] \/ exec'[e] = [x EXCEPT !.at = "init"]
    BY <1>0, <1>1, <2>3 DEF ExecType
  <2> QED BY <1>1, <1>3, <2>2, <2>3, SkipOrFail
<1>4. CASE RunInit(e)
  <2>1. \/ exec'[e] = [x EXCEPT !.at = "eval"]
        \/ exec'[e] = [x EXCEPT !.at = "end", !.res[x.phase] = "ERROR"]
    BY <1>4, InitStep
  <2> QED BY <1>0, <1>1, <2>1 DEF ExecType
<1>5. CASE Evaluate(e)
  <2>1. PICK status \in Statuses :
          exec'[e] = [x EXCEPT !.res[x.phase] = status, !.blind = Blind(e), !.at = "end"]
    BY <1>5, EvaluateStep
  <2> QED BY <1>0, <1>1, <2>1 DEF ExecType
<1>6. CASE ApplyReturns(e)
  <2>1. PICK status \in Statuses :
          exec'[e] = [x EXCEPT !.res["apply"] = status, !.blind = Blind(e),
                               !.unready = (tfdir # "ready"),
                               !.todo = Policies \ disabled, !.at = "disable"]
    BY <1>6, ApplyStep
  <2> QED BY <1>0, <1>1, <2>1 DEF ExecType
<1>7. CASE Destroy(e)
  <2>1. PICK failed \in BOOLEAN :
          exec'[e] = [x EXCEPT !.at = "restore", !.todo = x.renamed,
                               !.destroyFailed = failed]
    BY <1>7, DestroyStep
  <2> QED BY <1>0, <1>1, <2>1 DEF ExecType
<1>8. CASE CleanTFWorkdir(e)
  <2>1. PICK kept \in SUBSET {"tfdir", "state"} :
          exec'[e] = [x EXCEPT !.at = "end", !.kept = x.kept \cup kept]
    BY <1>8, CleanStep
  <2> QED BY <1>0, <1>1, <2>1 DEF ExecType
<1>9. CASE EndLevel(e)
  BY <1>1, <1>9, EndStep
<1>10. CASE TerraformCreates(e)
  BY <1>1, <1>10 DEF TerraformCreates
<1>11. CASE Crash(e)
  BY <1>1, <1>11, CrashStep
<1> QED BY <1>2, <1>3, <1>4, <1>5, <1>6, <1>7, <1>8, <1>9, <1>10, <1>11 DEF Acts, Step

LEMMA DisabledKept ==
    ASSUME LocalInv, NEW e \in Execs, Acts(e)
    PROVE  DisabledInv'
<1> DEFINE x == exec[e]
<1>0. TypeOK /\ DisabledInv /\ PointInv(e) /\ x \in ExecType
  BY ExecTypes DEF LocalInv, ExecInv
<1>1. \A d \in Execs \ {e} : exec'[d] = exec[d]
  BY <1>0, Frame
<1>2. CASE disabled' = disabled /\ exec'[e].renamed = x.renamed
  BY <1>0, <1>1, <1>2 DEF DisabledInv
<1>3. ASSUME NEW p \in Policies, RenameAway(e, p)
      PROVE  DisabledInv'
  <2>1. CASE p \notin disabled /\ disabled' = disabled \cup {p} /\
             Becomes(e, [x EXCEPT !.todo = @ \ {p}, !.renamed = @ \cup {p}])
    <3>1. exec'[e] = [x EXCEPT !.todo = @ \ {p}, !.renamed = @ \cup {p}]
      BY <2>1, <1>0, ExecTypes, Changed
    <3>2. exec'[e].renamed = x.renamed \cup {p}
      BY <1>0, <3>1 DEF ExecType
    <3> QED BY <1>0, <1>1, <2>1, <3>2 DEF DisabledInv
  <2>2. CASE disabled' = disabled /\ Becomes(e, [x EXCEPT !.todo = @ \ {p}])
    <3>1. exec'[e] = [x EXCEPT !.todo = @ \ {p}]
      BY <2>2, <1>0, ExecTypes, Changed
    <3> QED BY <1>0, <1>2, <2>2, <3>1 DEF ExecType
  <2> QED BY <1>3, <2>1, <2>2 DEF RenameAway
<1>4. ASSUME NEW p \in Policies, RenameBack(e, p)
      PROVE  DisabledInv'
  <2>0. p \in x.renamed
    BY <1>0, <1>4 DEF RenameBack, PointInv
  <2>1. CASE disabled' = disabled \ {p} /\
             Becomes(e, [x EXCEPT !.todo = @ \ {p}, !.renamed = @ \ {p}])
    <3>1. exec'[e] = [x EXCEPT !.todo = @ \ {p}, !.renamed = @ \ {p}]
      BY <2>1, <1>0, ExecTypes, Changed
    <3>2. exec'[e].renamed = x.renamed \ {p}
      BY <1>0, <3>1 DEF ExecType
    <3> QED BY <1>0, <1>1, <2>0, <2>1, <3>2 DEF DisabledInv
  <2>2. CASE disabled' = disabled /\ Becomes(e, [x EXCEPT !.todo = @ \ {p}])
    <3>1. exec'[e] = [x EXCEPT !.todo = @ \ {p}]
      BY <2>2, <1>0, ExecTypes, Changed
    <3> QED BY <1>0, <1>2, <2>2, <3>1 DEF ExecType
  <2> QED BY <1>4, <2>1, <2>2 DEF RenameBack
<1> QED BY <1>0, <1>2, <1>3, <1>4, RenamedStays

-----------------------------------------------------------------------------
(* The directory, and what an execution meets in it.                       *)

LEMMA DirectoryKept ==
    ASSUME LocalInv, NEW e \in Execs, Acts(e)
    PROVE  DirectoryInv'
<1> DEFINE x == exec[e]
<1>0. TypeOK /\ DirectoryInv /\ x \in ExecType
  BY ExecTypes DEF LocalInv
<1>1. binary' => tc'.plugin
  <2>1. tc' = tc
    BY <1>0, Frame
  <2>2. tc.plugin \in BOOLEAN /\ binary \in BOOLEAN
    BY <1>0, LocalAssumption DEF TypeOK, TestCaseType
  <2>3. binary' = binary \/ binary' = (binary \/ tc.plugin) \/ binary' = (binary /\ ~tc.plugin)
    BY DEF Acts, Start, Step, Skip, Build, RunInit, Evaluate, ApplyReturns, RenameAway,
           RenameBack, Destroy, CleanTFWorkdir, EndLevel, TerraformCreates, Crash, disk
  <2> QED BY <1>0, <2>1, <2>2, <2>3 DEF DirectoryInv
<1>2. ASSUME tfdir' = "partial", tfdir # "partial"
      PROVE  Culprit(e)'
  <2>1. RunInit(e) \/ CleanTFWorkdir(e)
    BY <1>2 DEF Acts, Start, Step, Skip, Build, Evaluate, ApplyReturns, RenameAway,
           RenameBack, Destroy, EndLevel, TerraformCreates, Crash, disk
  <2>2. CASE RunInit(e)
    <3>1. x.phase \in Phases
      BY <2>2 DEF RunInit, Alive
    <3>2. Becomes(e, [x EXCEPT !.at = "end", !.res[x.phase] = "ERROR"])
      BY <1>2, <2>2 DEF RunInit
    <3>3. exec'[e] = [x EXCEPT !.at = "end", !.res[x.phase] = "ERROR"]
      BY <1>0, <3>2, ExecTypes, Changed
    <3>4. exec'[e].res[x.phase] = "ERROR"
      BY <1>0, <3>1, <3>3 DEF ExecType
    <3> QED BY <3>1, <3>4 DEF Culprit
  <2>3. CASE CleanTFWorkdir(e)
    <3>1. PICK kept \in SUBSET {"tfdir", "state"} :
            /\ exec'[e] = [x EXCEPT !.at = "end", !.kept = x.kept \cup kept]
            /\ "tfdir" \notin kept => tfdir' = "none"
      BY <1>0, <2>3, CleanStep
    <3>2. "tfdir" \in kept
      BY <1>2, <3>1
    <3>3. exec'[e].kept = x.kept \cup kept
      BY <1>0, <3>1 DEF ExecType
    <3> QED BY <3>2, <3>3 DEF Culprit
  <2> QED BY <2>1, <2>2, <2>3
<1>3. tfdir' = "partial" => \E d \in Execs : Culprit(d)'
  BY <1>0, <1>2, CulpritStays DEF DirectoryInv
<1> QED BY <1>1, <1>3 DEF DirectoryInv

\* The marks of an execution are set where it evaluates a level.
LEMMA Marks ==
    ASSUME TypeOK, NEW e \in Execs, Acts(e)
    PROVE  /\ exec'[e].blind =>
                exec[e].blind \/ (exec[e].at = "eval" /\ Alive(e) /\ disabled # {})
           /\ exec'[e].unready =>
                \/ exec[e].unready
                \/ exec[e].phase = "apply" /\ exec[e].at = "eval" /\ tfdir # "ready"
<1> DEFINE x == exec[e]
           Marked == /\ exec'[e].blind =>
                          x.blind \/ (x.at = "eval" /\ Alive(e) /\ disabled # {})
                     /\ exec'[e].unready =>
                          \/ x.unready
                          \/ x.phase = "apply" /\ x.at = "eval" /\ tfdir # "ready"
<1>0. x \in ExecType
  BY ExecTypes
<1>1. CASE Start(e)
  <2>1. PICK skip \in BOOLEAN : exec'[e] = [x EXCEPT !.phase = "test", !.skipTFP = skip]
    BY <1>1, StartStep
  <2> QED BY <1>0, <2>1 DEF ExecType
<1>2. CASE Skip(e) \/ Build(e)
  <2>1. Alive(e)
    BY <1>2, SkipOrFail
  <2>2. \A status \in {"SKIP", "FAIL"} : exec'[e] = Returned(e, status) => Marked
    BY <2>1, EarlyReturn DEF Statuses
  <2>3. CASE exec'[e] = [x EXCEPT !.at = "eval"] \/ exec'[e] = [x EXCEPT !.at = "init"]
    BY <1>0, <2>3 DEF ExecType
  <2> QED BY <1>2, <2>2, <2>3, SkipOrFail
<1>3. CASE RunInit(e)
  <2>1. \/ exec'[e] = [x EXCEPT !.at = "eval"]
        \/ exec'[e] = [x EXCEPT !.at = "end", !.res[x.phase] = "ERROR"]
    BY <1>3, InitStep
  <2> QED BY <1>0, <2>1 DEF ExecType
<1>4. CASE Evaluate(e)
  <2>1. x.phase \in {"test", "plan"} /\ x.at = "eval"
    BY <1>4 DEF Evaluate
  <2>2. PICK status \in Statuses :
          exec'[e] = [x EXCEPT !.res[x.phase] = status, !.blind = Blind(e), !.at = "end"]
    BY <1>4, EvaluateStep
  <2>3. exec'[e].blind = Blind(e) /\ exec'[e].unready = x.unready
    BY <1>0, <2>2 DEF ExecType
  <2> QED BY <2>1, <2>3 DEF Blind, Alive, Phases
<1>5. CASE ApplyReturns(e)
  <2>1. x.phase = "apply" /\ x.at = "eval"
    BY <1>5 DEF ApplyReturns
  <2>2. PICK status \in Statuses :
          exec'[e] = [x EXCEPT !.res["apply"] = status, !.blind = Blind(e),
                               !.unready = (tfdir # "ready"),
                               !.todo = Policies \ disabled, !.at = "disable"]
    BY <1>5, ApplyStep
  <2>3. exec'[e].blind = Blind(e) /\ exec'[e].unready = (tfdir # "ready")
    BY <1>0, <2>2 DEF ExecType
  <2> QED BY <2>1, <2>3 DEF Blind, Alive, Phases
<1>6. ASSUME NEW p \in Policies, RenameAway(e, p)
      PROVE  Marked
  <2>1. \/ exec'[e] = [x EXCEPT !.todo = @ \ {p}, !.renamed = @ \cup {p}]
        \/ exec'[e] = [x EXCEPT !.todo = @ \ {p}]
    BY <1>6, AwayStep
  <2> QED BY <1>0, <2>1 DEF ExecType
<1>7. ASSUME NEW p \in Policies, RenameBack(e, p)
      PROVE  Marked
  <2>1. \/ exec'[e] = [x EXCEPT !.todo = @ \ {p}, !.renamed = @ \ {p}]
        \/ exec'[e] = [x EXCEPT !.todo = @ \ {p}]
    BY <1>7, BackStep
  <2> QED BY <1>0, <2>1 DEF ExecType
<1>8. CASE Destroy(e)
  <2>1. PICK failed \in BOOLEAN :
          exec'[e] = [x EXCEPT !.at = "restore", !.todo = x.renamed,
                               !.destroyFailed = failed]
    BY <1>8, DestroyStep
  <2> QED BY <1>0, <2>1 DEF ExecType
<1>9. CASE CleanTFWorkdir(e)
  <2>1. PICK kept \in SUBSET {"tfdir", "state"} :
          exec'[e] = [x EXCEPT !.at = "end", !.kept = x.kept \cup kept]
    BY <1>9, CleanStep
  <2> QED BY <1>0, <2>1 DEF ExecType
<1>10. CASE EndLevel(e)
  BY <1>10, EndStep
<1>11. CASE TerraformCreates(e)
  BY <1>11 DEF TerraformCreates
<1>12. CASE Crash(e)
  BY <1>12, CrashStep
<1> QED BY <1>1, <1>2, <1>3, <1>4, <1>5, <1>6, <1>7, <1>8, <1>9, <1>10, <1>11, <1>12
        DEF Acts, Step

\* An execution that has ended stays as it is.
LEMMA EndedStays ==
    ASSUME TypeOK, NEW e \in Execs, Acts(e), NEW d \in Execs, exec[d].phase \in Ended
    PROVE  exec'[d] = exec[d]
BY Frame

\* A file that is disabled where e evaluates was disabled by an execution that is
\* alive, and then both are recorded, or by one that has ended.
LEMMA MetKept ==
    ASSUME LocalInv, NEW e \in Execs, Acts(e), NEW d \in Execs
    PROVE  MetInv(d)'
<1> DEFINE BlindFor(sh, ex) ==
             \/ d \in sh
             \/ \E b \in Execs \ {d} : ex[b].renamed # {} /\ ex[b].phase \in Ended
<1>0. /\ TypeOK /\ DisabledInv /\ DirectoryInv /\ MetInv(d)
      /\ PointInv(d) /\ exec[d] \in ExecType
      /\ \A b \in Execs : PointInv(b)
  BY ExecTypes DEF LocalInv, ExecInv
<1>1. shared \subseteq shared'
  BY <1>0, Frame
<1>2. \A b \in Execs : Culprit(b) => Culprit(b)'
  BY CulpritStays
<1>3. \A b \in Execs : exec[b].phase \in Ended => exec'[b] = exec[b]
  BY <1>0, EndedStays
<1>4. BlindFor(shared, exec) => BlindFor(shared', exec')
  BY <1>1, <1>3
<1>5. exec[d].blind => BlindFor(shared', exec')
  BY <1>0, <1>4 DEF MetInv
<1>6. ASSUME exec[d].at = "eval", Alive(d), disabled # {}
      PROVE  BlindFor(shared, exec)
  <2>1. PICK b \in Execs : exec[b].renamed # {}
    BY <1>0, <1>6 DEF DisabledInv
  <2>2. exec[d].renamed = {}
    BY <1>0, <1>6 DEF PointInv, Alive, Phases, Ended
  <2>3. b # d
    BY <2>1, <2>2
  <2>4. exec[b].phase \in Ended \/ Alive(b)
    BY <1>0, <2>1 DEF PointInv, Alive, Phases
  <2> QED BY <1>6, <2>1, <2>3, <2>4 DEF LocalInv, Alone
<1>7. exec'[d].blind => BlindFor(shared', exec')
  <2>1. CASE d = e
    BY <1>0, <1>4, <1>5, <1>6, <2>1, Marks
  <2>2. CASE d # e
    BY <1>0, <1>5, <2>2, OthersStep
  <2> QED BY <2>1, <2>2
<1> DEFINE Why == \/ d \in shared
                  \/ \E p \in Phases : exec[d].res[p] = "ERROR"
                  \/ \E b \in Execs \ {d} : Culprit(b)
<1>8. ASSUME exec[d].phase = "apply", exec[d].at = "eval", tfdir # "ready"
      PROVE  Why
  <2>1. CASE d \notin shared
    <3>1. tfdir = "partial"
      BY <1>0, <1>8, <2>1 DEF LocalInv, ExecInv, OwnInv, TypeOK
    <3>2. PICK b \in Execs : Culprit(b)
      BY <1>0, <3>1 DEF DirectoryInv
    <3>3. CASE b = d
      BY <1>0, <1>8, <3>2, <3>3 DEF Culprit, PointInv
    <3> QED BY <3>2, <3>3
  <2> QED BY <2>1
<1>9. exec'[d].unready => Why
  <2>1. CASE d = e
    BY <1>0, <1>8, <2>1, Marks DEF MetInv
  <2>2. CASE d # e
    BY <1>0, <2>2, OthersStep DEF MetInv
  <2> QED BY <2>1, <2>2
<1>10. exec'[d].unready /\ Why => Why'
  <2>1. ASSUME exec'[d].unready, \E p \in Phases : exec[d].res[p] = "ERROR"
        PROVE  \E p \in Phases : exec'[d].res[p] = "ERROR"
    <3>1. CASE d = e
      BY <1>0, <2>1, <3>1, Remembers DEF LocalInv, ExecInv
    <3>2. CASE d # e
      BY <1>0, <2>1, <3>2, OthersStep
    <3> QED BY <3>1, <3>2
  <2> QED BY <1>1, <1>2, <2>1
<1> QED BY <1>7, <1>9, <1>10 DEF MetInv

\* While e has the directory to itself, no other step changes what it knows of it.
LEMMA OwnKeptByOthers ==
    ASSUME LocalInv, NEW d \in Execs, Acts(d), NEW e \in Execs \ {d}
    PROVE  OwnInv(e)'
<1>1. TypeOK /\ OwnInv(e) /\ PointInv(e)
  BY DEF LocalInv, ExecInv
<1>2. exec'[e] = exec[e] /\ shared \subseteq shared'
  BY <1>1, Frame
<1>3. CASE e \in shared'
  BY <1>3 DEF OwnInv
<1>4. CASE e \notin shared'
  <2>1. ~Alive(e)
    BY <1>4, NobodyElse
  <2>2. exec[e].phase \notin Phases
    BY <2>1 DEF Alive
  <2>3. e \in live' => e \in live
    BY DEF Acts, Start, Step, Skip, Build, RunInit, Evaluate, ApplyReturns, RenameAway,
           RenameBack, Destroy, CleanTFWorkdir, EndLevel, TerraformCreates, Crash
  <2> QED BY <1>1, <1>2, <1>4, <2>2, <2>3 DEF OwnInv, Phases
<1> QED BY <1>3, <1>4

LEMMA OwnKept ==
    ASSUME TypeOK, NEW e \in Execs, PointInv(e), ResultInv(e), OwnInv(e), Acts(e)
    PROVE  OwnInv(e)'
<1> DEFINE x == exec[e]
<1>0. x \in ExecType
  BY ExecTypes
<1>a. shared \subseteq shared'
  BY Frame
<1>1. CASE Start(e)
  <2>1. x.phase = "idle" /\ live' = live
    BY <1>1 DEF Start
  <2>2. PICK skip \in BOOLEAN : exec'[e] = [x EXCEPT !.phase = "test", !.skipTFP = skip]
    BY <1>1, StartStep
  <2>3. exec'[e].phase = "test" /\ exec'[e].destroyFailed = x.destroyFailed
    BY <1>0, <2>2 DEF ExecType
  <2> QED BY <1>a, <2>1, <2>3 DEF OwnInv
<1>2. CASE Skip(e) \/ Build(e)
  <2>1. Alive(e) /\ x.at = "begin" /\ live' = live
    BY <1>2, SkipOrFail DEF Skip, Build
  <2>2. x.phase # "crashed"
    BY <2>1 DEF Alive, Phases
  <2>3. exec'[e].at = "begin" \/ exec'[e].at = "init" \/ exec'[e].phase # "apply"
    <3>1. \A status \in {"SKIP", "FAIL"} :
            exec'[e] = Returned(e, status) => exec'[e].at = "begin"
      BY <2>1, EarlyReturn DEF Statuses
    <3>2. exec'[e] = [x EXCEPT !.at = "eval"] /\ x.phase = "test"
            => exec'[e].phase # "apply"
      BY <1>0 DEF ExecType
    <3>3. exec'[e] = [x EXCEPT !.at = "init"] => exec'[e].at = "init"
      BY <1>0 DEF ExecType
    <3> QED BY <1>2, <3>1, <3>2, <3>3, SkipOrFail
  <2>4. exec'[e].destroyFailed = x.destroyFailed
    <3>1. \A status \in {"SKIP", "FAIL"} :
            exec'[e] = Returned(e, status) => exec'[e].destroyFailed = x.destroyFailed
      BY <2>1, EarlyReturn DEF Statuses
    <3>2. exec'[e] = [x EXCEPT !.at = "eval"] \/ exec'[e] = [x EXCEPT !.at = "init"]
            => exec'[e].destroyFailed = x.destroyFailed
      BY <1>0 DEF ExecType
    <3> QED BY <1>2, <3>1, <3>2, SkipOrFail
  <2> QED BY <1>a, <2>1, <2>2, <2>3, <2>4 DEF OwnInv
<1>3. CASE RunInit(e)
  <2>1. Alive(e) /\ x.at = "init" /\ live' = live
    BY <1>3 DEF RunInit
  <2>2. CASE exec'[e] = [x EXCEPT !.at = "eval"]
    <3>1. exec'[e].at = "eval" /\ exec'[e].destroyFailed = x.destroyFailed
      BY <1>0, <2>2 DEF ExecType
    <3>2. exec'[e].phase = "apply" => tfdir' # "none"
      <4>1. exec'[e].phase = x.phase /\ x.phase \in Phases
        BY <1>0, <2>1, <2>2 DEF ExecType, Alive
      <4>2. \/ ~InitNeeded(e) /\ tfdir' = tfdir
            \/ tfdir' = "ready"
            \/ Becomes(e, [x EXCEPT !.at = "end", !.res[x.phase] = "ERROR"])
        BY <1>3 DEF RunInit
      <4>3. ~Becomes(e, [x EXCEPT !.at = "end", !.res[x.phase] = "ERROR"])
        <5>1. SUFFICES ASSUME Becomes(e, [x EXCEPT !.at = "end", !.res[x.phase] = "ERROR"])
                       PROVE  FALSE
          OBVIOUS
        <5>2. exec'[e] = [x EXCEPT !.at = "end", !.res[x.phase] = "ERROR"]
          BY <5>1, ExecTypes, Changed
        <5> QED BY <1>0, <3>1, <5>2 DEF ExecType
      <4> QED BY <4>1, <4>2, <4>3 DEF InitNeeded
    <3> QED BY <1>a, <2>1, <3>1, <3>2 DEF OwnInv, Alive, Phases
  <2>3. CASE exec'[e] = [x EXCEPT !.at = "end", !.res[x.phase] = "ERROR"]
    <3>1. /\ exec'[e].at = "end" /\ exec'[e].destroyFailed = x.destroyFailed
          /\ exec'[e].phase = x.phase
      BY <1>0, <2>3 DEF ExecType
    <3>2. exec'[e].phase = "apply" => exec'[e].res["apply"] = "ERROR"
      BY <1>0, <2>3 DEF ExecType, Phases
    <3> QED BY <1>a, <2>1, <3>1, <3>2 DEF OwnInv, Alive, Phases
  <2> QED BY <1>3, <2>2, <2>3, InitStep
<1>4. CASE Evaluate(e)
  <2>1. x.phase \in {"test", "plan"} /\ live' = live
    BY <1>4 DEF Evaluate
  <2>2. PICK status \in Statuses :
          exec'[e] = [x EXCEPT !.res[x.phase] = status, !.blind = Blind(e), !.at = "end"]
    BY <1>4, EvaluateStep
  <2>3. exec'[e].phase = x.phase /\ exec'[e].destroyFailed = x.destroyFailed
    BY <1>0, <2>2 DEF ExecType
  <2> QED BY <1>a, <2>1, <2>3 DEF OwnInv
<1>5. CASE ApplyReturns(e)
  <2>1. x.phase = "apply" /\ x.at = "eval" /\ live' = live /\ tracked' = tracked
    BY <1>5 DEF ApplyReturns, disk
  <2>2. PICK status \in Statuses :
          exec'[e] = [x EXCEPT !.res["apply"] = status, !.blind = Blind(e),
                               !.unready = (tfdir # "ready"),
                               !.todo = Policies \ disabled, !.at = "disable"]
    BY <1>5, ApplyStep
  <2>3. /\ exec'[e].phase = "apply" /\ exec'[e].at = "disable"
        /\ exec'[e].destroyFailed = x.destroyFailed
    BY <1>0, <2>1, <2>2 DEF ExecType
  <2> QED BY <1>a, <2>1, <2>3 DEF OwnInv
<1>6. ASSUME NEW p \in Policies, RenameAway(e, p)
      PROVE  OwnInv(e)'
  <2>1. x.phase = "apply" /\ x.at = "disable" /\ live' = live /\ tracked' = tracked
    BY <1>6 DEF RenameAway
  <2>2. \/ exec'[e] = [x EXCEPT !.todo = @ \ {p}, !.renamed = @ \cup {p}]
        \/ exec'[e] = [x EXCEPT !.todo = @ \ {p}]
    BY <1>6, AwayStep
  <2>3. /\ exec'[e].phase = "apply" /\ exec'[e].at = "disable"
        /\ exec'[e].destroyFailed = x.destroyFailed
    BY <1>0, <2>1, <2>2 DEF ExecType
  <2> QED BY <1>a, <2>1, <2>3 DEF OwnInv
<1>7. ASSUME NEW p \in Policies, RenameBack(e, p)
      PROVE  OwnInv(e)'
  <2>1. x.phase = "apply" /\ x.at = "restore" /\ live' = live /\ tracked' = tracked
    BY <1>7 DEF RenameBack
  <2>2. \/ exec'[e] = [x EXCEPT !.todo = @ \ {p}, !.renamed = @ \ {p}]
        \/ exec'[e] = [x EXCEPT !.todo = @ \ {p}]
    BY <1>7, BackStep
  <2>3. /\ exec'[e].phase = "apply" /\ exec'[e].at = "restore"
        /\ exec'[e].destroyFailed = x.destroyFailed
    BY <1>0, <2>1, <2>2 DEF ExecType
  <2> QED BY <1>a, <2>1, <2>3 DEF OwnInv
<1>8. CASE Destroy(e)
  <2>1. x.phase = "apply" /\ x.at = "disable" /\ ~x.destroyFailed
    BY <1>0, <1>8 DEF Destroy, PointInv, ExecType
  <2>2. \A failed \in BOOLEAN :
          Becomes(e, [x EXCEPT !.at = "restore", !.todo = x.renamed,
                               !.destroyFailed = failed])
            => /\ exec'[e].phase = "apply" /\ exec'[e].at = "restore"
               /\ exec'[e].destroyFailed = failed
    <3>1. SUFFICES ASSUME NEW failed \in BOOLEAN,
                          Becomes(e, [x EXCEPT !.at = "restore", !.todo = x.renamed,
                                               !.destroyFailed = failed])
                   PROVE  /\ exec'[e].phase = "apply" /\ exec'[e].at = "restore"
                          /\ exec'[e].destroyFailed = failed
      OBVIOUS
    <3>2. exec'[e] = [x EXCEPT !.at = "restore", !.todo = x.renamed,
                               !.destroyFailed = failed]
      BY <3>1, ExecTypes, Changed
    <3> QED BY <1>0, <2>1, <3>2 DEF ExecType
  <2>3. \/ /\ live' = live \ tracked /\ tracked' = {}
           /\ exec'[e].phase = "apply" /\ exec'[e].at = "restore"
           /\ ~exec'[e].destroyFailed
        \/ /\ exec'[e].phase = "apply" /\ exec'[e].at = "restore"
           /\ exec'[e].destroyFailed
    BY <1>8, <2>2 DEF Destroy
  <2> QED BY <1>a, <2>1, <2>3 DEF OwnInv
<1>9. CASE CleanTFWorkdir(e)
  <2>1. x.phase = "apply" /\ x.at = "restore" /\ live' = live
    BY <1>9 DEF CleanTFWorkdir
  <2>2. PICK kept \in SUBSET {"tfdir", "state"} :
          /\ exec'[e] = [x EXCEPT !.at = "end", !.kept = x.kept \cup kept]
          /\ "tfdir" \notin kept => tfdir' = "none"
          /\ "state" \notin kept => tracked' = {}
    BY <1>9, CleanStep
  <2>3. /\ exec'[e].phase = "apply" /\ exec'[e].at = "end"
        /\ exec'[e].destroyFailed = x.destroyFailed
        /\ exec'[e].kept = x.kept \cup kept
    BY <1>0, <2>1, <2>2 DEF ExecType
  <2> QED BY <1>a, <2>1, <2>2, <2>3 DEF OwnInv
<1>10. CASE EndLevel(e)
  <2>1. x.phase \in Phases /\ x.at = "end" /\ live' = live
    BY <1>10 DEF EndLevel, Alive
  <2>2. exec'[e].at = "begin" /\ exec'[e].destroyFailed = x.destroyFailed
    BY <1>10, EndStep
  <2> QED BY <1>a, <2>1, <2>2 DEF OwnInv, Phases
<1>11. CASE TerraformCreates(e)
  <2>1. /\ x.phase = "apply" /\ x.at = "eval" /\ exec' = exec /\ tfdir' = tfdir
        /\ tracked' = {e}
    BY <1>11 DEF TerraformCreates
  <2> QED BY <1>a, <2>1 DEF OwnInv
<1>12. CASE Crash(e)
  BY <1>12, CrashStep DEF OwnInv
<1> QED BY <1>1, <1>2, <1>3, <1>4, <1>5, <1>6, <1>7, <1>8, <1>9, <1>10, <1>11, <1>12
        DEF Acts, Step

-----------------------------------------------------------------------------
(* The theorems.                                                           *)

LEMMA InvAtFirst == Init => LocalInv
<1> SUFFICES ASSUME Init PROVE LocalInv
  OBVIOUS
<1>1. TypeOK
  BY TypesAtFirst
<1>2. \A e \in Execs : exec[e] = NewExec
  BY DEF Init
<1>3. Alone /\ DisabledInv /\ DirectoryInv
  BY <1>2 DEF Init, Alone, DisabledInv, DirectoryInv, NewExec, Alive, Phases
<1>4. ASSUME NEW e \in Execs PROVE ExecInv(e)
  <2>1. exec[e] = NewExec /\ live = {}
    BY DEF Init
  <2> QED BY <2>1 DEF ExecInv, PointInv, ResultInv, MetInv, OwnInv, NewExec, Alive, Phases
<1> QED BY <1>1, <1>3, <1>4 DEF LocalInv

LEMMA InvKept == LocalInv /\ [Next]_vars => LocalInv'
<1> SUFFICES ASSUME LocalInv, [Next]_vars PROVE LocalInv'
  OBVIOUS
<1>1. ASSUME NEW e \in Execs, Acts(e) PROVE LocalInv'
  <2>1. TypeOK /\ \A d \in Execs : PointInv(d) /\ ResultInv(d) /\ OwnInv(d)
    BY DEF LocalInv, ExecInv
  <2>2. TypeOK'
    BY <1>1, <2>1, TypesKept
  <2>3. Alone' /\ DisabledInv' /\ DirectoryInv'
    BY <1>1, AloneKept, DisabledKept, DirectoryKept
  <2>4. ASSUME NEW d \in Execs PROVE ExecInv(d)'
    <3>1. MetInv(d)'
      BY <1>1, MetKept
    <3>2. CASE d = e
      BY <1>1, <2>1, <3>1, <3>2, PointKept, ResultKept, OwnKept DEF ExecInv
    <3>3. CASE d # e
      <4>1. exec'[d] = exec[d]
        BY <1>1, <2>1, <3>3, OthersStep
      <4>2. PointInv(d)' /\ ResultInv(d)'
        BY <2>1, <4>1 DEF PointInv, ResultInv, Alive
      <4> QED BY <1>1, <3>1, <3>3, <4>2, OwnKeptByOthers DEF ExecInv
    <3> QED BY <3>2, <3>3
  <2> QED BY <2>2, <2>3, <2>4 DEF LocalInv
<1>2. CASE UNCHANGED vars
  BY <1>2 DEF LocalInv, TypeOK, Alone, DisabledInv, DirectoryInv, ExecInv, PointInv,
              ResultInv, MetInv, OwnInv, Culprit, Alive, vars, disk
<1> QED BY <1>1, <1>2 DEF Next, Acts

\* The invariant of LocalRun holds in every execution of the specification.
THEOREM LocalInvariant == Spec => []LocalInv
BY InvAtFirst, InvKept, PTL DEF Spec

\* A level is blind only by an overlap or by the files an ended execution left.
THEOREM PoliciesInForce == Spec => []BlindExplained
<1>1. LocalInv => BlindExplained
  BY DEF LocalInv, ExecInv, MetInv, BlindExplained
<1> QED BY <1>1, LocalInvariant, PTL

\* An apply over an unusable .terraform does not pass unnoticed.
THEOREM StaleInitSeen == Spec => []StaleInitNoticed
<1>1. LocalInv => StaleInitNoticed
  <2> SUFFICES ASSUME LocalInv, NEW e \in Execs,
                      exec[e].phase = "done", exec[e].unready, Overall(e) = "PASS"
               PROVE  \/ e \in shared
                      \/ \E d \in Execs \ {e} : Culprit(d)
    BY DEF StaleInitNoticed, Culprit
  <2>1. \A p \in Phases : exec[e].res[p] # "ERROR"
    BY DEF Overall
  <2> QED BY <2>1 DEF LocalInv, ExecInv, MetInv
<1> QED BY <1>1, LocalInvariant, PTL

\* What an execution created outlives it only if its destroy failed.
THEOREM NothingLeftBehind == Spec => []CreatedIsDestroyed
<1>1. LocalInv => CreatedIsDestroyed
  BY DEF LocalInv, ExecInv, OwnInv, CreatedIsDestroyed
<1> QED BY <1>1, LocalInvariant, PTL

\* The state file is deleted over resources that exist only after a failed destroy.
THEOREM LeaksOnlyAfterFailure == Spec => LeakNoted
<1> DEFINE Noted == \A r \in live \cap tracked :
              r \in live' /\ r \notin tracked' =>
                 \E e \in Execs :
                    /\ exec[e].at = "restore" /\ exec'[e].at = "end"
                    /\ exec[e].destroyFailed \/ e \in shared
<1>1. ASSUME LocalInv, NEW e \in Execs, Acts(e) PROVE Noted
  <2>1. SUFFICES ASSUME NEW r \in live \cap tracked, r \in live', r \notin tracked'
                 PROVE  /\ exec[e].at = "restore" /\ exec'[e].at = "end"
                        /\ exec[e].destroyFailed \/ e \in shared
    OBVIOUS
  <2>2. CleanTFWorkdir(e)
    BY <1>1, <2>1 DEF Acts, Start, Step, Skip, Build, RunInit, Evaluate, ApplyReturns,
           RenameAway, RenameBack, Destroy, EndLevel, TerraformCreates, Crash, disk
  <2>3. exec[e].at = "restore" /\ exec[e].phase = "apply"
    BY <2>2 DEF CleanTFWorkdir
  <2>4. exec'[e].at = "end"
    <3>1. TypeOK /\ exec[e] \in ExecType
      BY <1>1, ExecTypes DEF LocalInv
    <3>2. PICK kept \in SUBSET {"tfdir", "state"} :
            exec'[e] = [exec[e] EXCEPT !.at = "end", !.kept = exec[e].kept \cup kept]
      BY <2>2, <3>1, CleanStep
    <3> QED BY <3>1, <3>2 DEF ExecType
  <2>5. exec[e].destroyFailed \/ e \in shared
    BY <1>1, <2>1, <2>3 DEF LocalInv, ExecInv, OwnInv
  <2> QED BY <2>3, <2>4, <2>5
<1>2. LocalInv /\ [Next]_vars => [Noted]_vars
  BY <1>1 DEF Next, Acts
<1> QED BY <1>2, LocalInvariant, PTL DEF Spec, LeakNoted

\* A case whose apply passed leaves the directory as it found it.
THEOREM DirectoryLeftClean == Spec => LeavesDirectoryClean
<1> DEFINE Clean == \A e \in Execs :
              /\ exec[e].phase = "apply" /\ exec'[e].phase = "done"
              /\ exec'[e].res["apply"] = "PASS"
              /\ e \notin shared /\ exec'[e].kept = {}
              => tfdir' = "none" /\ tracked' = {} /\ ~binary'
<1>1. ASSUME LocalInv, NEW d \in Execs, Acts(d) PROVE Clean
  <2>1. SUFFICES ASSUME NEW e \in Execs,
                        exec[e].phase = "apply", exec'[e].phase = "done",
                        exec'[e].res["apply"] = "PASS",
                        e \notin shared, exec'[e].kept = {}
                 PROVE  tfdir' = "none" /\ tracked' = {} /\ ~binary'
    OBVIOUS
  <2>0. TypeOK /\ exec[e] \in ExecType
    BY <1>1, ExecTypes DEF LocalInv
  <2>2. d = e
    BY <1>1, <2>0, <2>1, OthersStep
  <2>3. EndLevel(e)
    <3>1. ~Start(e) /\ ~Evaluate(e)
      BY <2>1 DEF Start, Evaluate
    <3>2. ~(Skip(e) \/ Build(e))
      <4>1. SUFFICES ASSUME Skip(e) \/ Build(e) PROVE FALSE
        OBVIOUS
      <4>2. ASSUME NEW status \in {"SKIP", "FAIL"}, exec'[e] = Returned(e, status)
            PROVE  FALSE
        <5>1. Alive(e)
          BY <2>0, <4>1, SkipOrFail
        <5>2. exec'[e].res[exec[e].phase] = status
          BY <2>0, <4>2, <5>1, EarlyReturn DEF Statuses
        <5> QED BY <2>1, <5>2
      <4>3. exec'[e] = [exec[e] EXCEPT !.at = "eval"] \/ exec'[e] = [exec[e] EXCEPT !.at = "init"]
              => exec'[e].phase = "apply"
        BY <2>0, <2>1 DEF ExecType
      <4> QED BY <2>0, <2>1, <4>1, <4>2, <4>3, SkipOrFail
    <3>3. ~RunInit(e)
      <4>1. SUFFICES ASSUME RunInit(e) PROVE FALSE
        OBVIOUS
      <4>2. \/ exec'[e] = [exec[e] EXCEPT !.at = "eval"]
            \/ exec'[e] = [exec[e] EXCEPT !.at = "end", !.res[exec[e].phase] = "ERROR"]
        BY <2>0, <4>1, InitStep
      <4> QED BY <2>0, <2>1, <4>2 DEF ExecType
    <3>4. ~ApplyReturns(e)
      <4>1. SUFFICES ASSUME ApplyReturns(e) PROVE FALSE
        OBVIOUS
      <4>2. PICK status \in Statuses :
              exec'[e] = [exec[e] EXCEPT !.res["apply"] = status, !.blind = Blind(e),
                                         !.unready = (tfdir # "ready"),
                                         !.todo = Policies \ disabled, !.at = "disable"]
        BY <2>0, <4>1, ApplyStep
      <4> QED BY <2>0, <2>1, <4>2 DEF ExecType
    <3>5. ASSUME NEW p \in Policies, RenameAway(e, p) \/ RenameBack(e, p)
          PROVE  FALSE
      <4>1. \/ exec'[e] = [exec[e] EXCEPT !.todo = @ \ {p}, !.renamed = @ \cup {p}]
            \/ exec'[e] = [exec[e] EXCEPT !.todo = @ \ {p}, !.renamed = @ \ {p}]
            \/ exec'[e] = [exec[e] EXCEPT !.todo = @ \ {p}]
        BY <2>0, <3>5, AwayStep, BackStep
      <4> QED BY <2>0, <2>1, <4>1 DEF ExecType
    <3>6. ~Destroy(e)
      <4>1. SUFFICES ASSUME Destroy(e) PROVE FALSE
        OBVIOUS
      <4>2. PICK failed \in BOOLEAN :
              exec'[e] = [exec[e] EXCEPT !.at = "restore", !.todo = exec[e].renamed,
                                         !.destroyFailed = failed]
        BY <2>0, <4>1, DestroyStep
      <4> QED BY <2>0, <2>1, <4>2 DEF ExecType
    <3>7. ~CleanTFWorkdir(e)
      <4>1. SUFFICES ASSUME CleanTFWorkdir(e) PROVE FALSE
        OBVIOUS
      <4>2. PICK kept \in SUBSET {"tfdir", "state"} :
              exec'[e] = [exec[e] EXCEPT !.at = "end", !.kept = exec[e].kept \cup kept]
        BY <2>0, <4>1, CleanStep
      <4> QED BY <2>0, <2>1, <4>2 DEF ExecType
    <3>8. ~TerraformCreates(e) /\ ~Crash(e)
      BY <2>0, <2>1, CrashStep DEF TerraformCreates
    <3> QED BY <1>1, <2>2, <3>1, <3>2, <3>3, <3>4, <3>5, <3>6, <3>7, <3>8 DEF Acts, Step
  <2>4. exec[e].at = "end" /\ tfdir' = tfdir /\ tracked' = tracked
    BY <2>3 DEF EndLevel
  <2>5. exec[e].res["apply"] = "PASS" /\ exec[e].kept = {}
        /\ binary' = (binary /\ ~tc.plugin)
    BY <2>0, <2>1, <2>3, EndStep
  <2>6. tfdir = "none" /\ tracked = {}
    BY <1>1, <2>1, <2>4, <2>5 DEF LocalInv, ExecInv, OwnInv
  <2>7. ~binary'
    BY <1>1, <2>5 DEF LocalInv, DirectoryInv
  <2> QED BY <2>4, <2>6, <2>7
<1>2. LocalInv /\ [Next]_vars => [Clean]_vars
  BY <1>1 DEF Next, Acts
<1> QED BY <1>2, LocalInvariant, PTL DEF Spec, LeavesDirectoryClean
=============================================================================
