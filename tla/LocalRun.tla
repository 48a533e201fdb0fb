------------------------------ MODULE LocalRun ------------------------------
(***************************************************************************)
(* Local execution of a test case: Runner.Run of internal/localrun, which  *)
(* calls tfpolicy, terraform init, plan, apply and destroy in the          *)
(* directory of the case, one level after the other.                       *)
(*                                                                         *)
(* Cases share nothing but the log directory, so one test directory is     *)
(* modelled with the executions of its case: successive invocations of the *)
(* program, or executions at the same time (--test-id a,a, or two          *)
(* invocations).  What the executed programs do is external.  The          *)
(* resources of a configuration are one unit, named after the execution    *)
(* whose apply created them.                                               *)
(***************************************************************************)
EXTENDS Integers, FiniteSets

CONSTANTS
    Execs,      \* calls of Run
    Policies,   \* the *.policy.hcl files of the directory
    TestCases,  \* what index and directory may say of the case
    Faults

\* "crash": the process dies; "io": a rename or a removal fails; "overlap":
\* executions of the case at the same time.
AllFaults == {"crash", "io", "overlap"}

Phases == {"test", "plan", "apply"}
Statuses == {"PASS", "FAIL", "SKIP", "ERROR"}
Expectations == {"PASS", "FAIL", "UNKNOWN", "N/A", "VALIDATION_ERROR",
                 "ERROR_CONTAINS"}

\* The expectation of each level; whether there is a main.tf and a plugin/go.mod,
\* and how many *.policyvars.hcl files (two stands for more).
TestCaseType == [test : Expectations, plan : Expectations,
                 apply : Expectations, mainTF : BOOLEAN, plugin : BOOLEAN,
                 vars : {0, 1, 2}]

ASSUME LocalAssumption ==
    /\ TestCases \subseteq TestCaseType
    /\ Faults \subseteq AllFaults

VARIABLES
    tc,        \* the test case; it never changes
    disabled,  \* the policy files that are named *.policy.hcl.disabled
    binary,    \* whether plugin/plugin_binary exists
    tfdir,     \* .terraform: "none", "ready", or "partial" if init did not finish
    tracked,   \* what terraform.tfstate lists
    live,      \* the resources that exist
    shared,    \* the executions that ran at the same time as another one
    exec       \* the executions

disk == <<disabled, binary, tfdir, tracked>>
vars == <<tc, disk, live, shared, exec>>

NoStatus == "none"
Ended == {"done", "crashed"}
Alive(e) == exec[e].phase \in Phases

\* Next to the locals of Run and the results, a record of what happened: whether
\* a level was evaluated while a policy file was disabled (blind), whether the
\* apply met an unusable .terraform (unready), what could not be removed (kept).
NewExec == [phase |-> "idle", at |-> "begin", skipTFP |-> FALSE,
            res |-> [p \in Phases |-> NoStatus], todo |-> {}, renamed |-> {},
            destroyFailed |-> FALSE, blind |-> FALSE, unready |-> FALSE,
            kept |-> {}]

Init ==
    /\ tc \in TestCases
    /\ disabled = {}
    /\ binary = FALSE
    /\ tfdir = "none"
    /\ tracked = {}
    /\ live = {}
    /\ shared = {}
    /\ exec = [e \in Execs |-> NewExec]

-----------------------------------------------------------------------------
(* What a level makes of the output of a program.                          *)

\* Exit code (one stands for any failure), "Condition not met" and "Unknown
\* condition" in the output, and the text of ERROR_CONTAINS.
Outputs == [ec : {0, 1}, failed : BOOLEAN, unknown : BOOLEAN, contains : BOOLEAN]

\* Without a policy file there is no condition to report on; without a usable
\* .terraform, plan and apply stop with an error.
PossibleOutputs(phase) ==
    {o \in Outputs :
        /\ disabled = Policies => ~o.failed /\ ~o.unknown
        /\ phase # "test" /\ tfdir # "ready"
              => o.ec = 1 /\ ~o.failed /\ ~o.unknown}

Met(expected, o) ==
    CASE expected = "PASS"    -> o.ec = 0 /\ ~o.failed /\ ~o.unknown
      [] expected = "FAIL"    -> o.ec # 0 \/ o.failed
      [] expected = "UNKNOWN" -> o.ec = 0 /\ (o.unknown \/ ~o.failed)
      [] expected = "ERROR_CONTAINS" ->
            \/ o.contains /\ (o.ec # 0 \/ o.failed \/ o.unknown)
            \/ o.contains /\ o.ec = 0

\* VALIDATION_ERROR, which the index accepts at every level, is an unknown value
\* here.
CheckResult(expected, o) ==
    CASE expected = "N/A" -> "SKIP"
      [] expected = "VALIDATION_ERROR" -> "ERROR"
      [] OTHER -> IF Met(expected, o) THEN "PASS" ELSE "FAIL"

\* Mutant: the expectation is returned for the status.
ValidatedAsNamed(o) == IF o.ec # 0 THEN "PASS" ELSE "VALIDATION_ERROR"

\* runValidate
Validated(o) == IF o.ec # 0 THEN "PASS" ELSE "FAIL"

\* singlePolicyVarsFile
TooManyVarsFiles == tc.vars > 1

\* RunPolicyTest after the build: validation, the look for *.policyvars.hcl, test.
PolicyTestResult(o) ==
    CASE tc.test = "VALIDATION_ERROR" -> Validated(o)
      [] tc.test # "VALIDATION_ERROR" /\ TooManyVarsFiles -> "ERROR"
      [] OTHER -> CheckResult(tc.test, o)

Overall(e) ==
    IF \E p \in Phases : exec[e].res[p] \in {"FAIL", "ERROR"}
    THEN "FAIL" ELSE "PASS"

\* printLocalResults prints the note of a level with one of these statuses.
NotePrinted(e, p) == exec[e].res[p] \in {"FAIL", "ERROR"}

-----------------------------------------------------------------------------
(* The steps of Run.                                                       *)

After(phase) == CASE phase = "test" -> "plan"
                  [] phase = "plan" -> "apply"
                  [] phase = "apply" -> "done"

\* The state of e when its current level returns status.
Returned(e, status) ==
    LET next == After(exec[e].phase)
    IN  [exec[e] EXCEPT !.res[exec[e].phase] = status, !.phase = next,
                        !.at = "begin", !.skipTFP = @ /\ next # "done"]

Becomes(e, x) == exec' = [exec EXCEPT ![e] = x]
Goto(e, at) == Becomes(e, [exec[e] EXCEPT !.at = at])

Start(e) ==
    LET others == {x \in Execs : Alive(x)}
    IN  /\ exec[e].phase = "idle"
        /\ "overlap" \in Faults \/ others = {}
        /\ shared' = IF others = {} THEN shared ELSE shared \cup others \cup {e}
        /\ \E skip \in BOOLEAN :
             Becomes(e, [exec[e] EXCEPT !.phase = "test", !.skipTFP = skip])
        /\ UNCHANGED <<tc, disk, live>>

Skips(e) ==
    \/ tc[exec[e].phase] = "N/A"
    \/ exec[e].phase # "test" /\ (exec[e].skipTFP \/ ~tc.mainTF)

Skip(e) ==
    /\ Alive(e) /\ exec[e].at = "begin"
    /\ Skips(e)
    /\ Becomes(e, Returned(e, "SKIP"))
    /\ UNCHANGED <<tc, disk, live, shared>>

\* buildCasePlugin.  A failed build returns before the removal is deferred.
Build(e) ==
    LET at == IF exec[e].phase = "test" THEN "eval" ELSE "init"
    IN  /\ Alive(e) /\ exec[e].at = "begin"
        /\ ~Skips(e)
        /\ \/ binary' = (binary \/ tc.plugin) /\ Goto(e, at)
           \/ /\ tc.plugin
              /\ Becomes(e, Returned(e, "FAIL"))
              /\ binary' = binary
        /\ UNCHANGED <<tc, disabled, tfdir, tracked, live, shared>>

\* Before a plan always, before an apply only if .terraform is missing.
InitNeeded(e) == exec[e].phase = "plan" \/ tfdir = "none"

\* Mutant: a level whose init failed counts as skipped.
InitFailureSkips(e) ==
    /\ Alive(e) /\ exec[e].at = "init"
    /\ \/ ~InitNeeded(e) /\ Goto(e, "eval") /\ tfdir' = tfdir
       \/ InitNeeded(e) /\ tfdir' = "ready" /\ Goto(e, "eval")
       \/ /\ InitNeeded(e)
          /\ tfdir' \in {tfdir, "partial"}
          /\ Becomes(e, [exec[e] EXCEPT !.at = "end", !.res[exec[e].phase] = "SKIP"])
    /\ UNCHANGED <<tc, disabled, binary, tracked, live, shared>>

\* runInit, and what the level does when it fails.
RunInit(e) ==
    /\ Alive(e) /\ exec[e].at = "init"
    /\ \/ ~InitNeeded(e) /\ Goto(e, "eval") /\ tfdir' = tfdir
       \/ InitNeeded(e) /\ tfdir' = "ready" /\ Goto(e, "eval")
       \/ /\ InitNeeded(e)
          /\ tfdir' \in {tfdir, "partial"}
          /\ Becomes(e, [exec[e] EXCEPT !.at = "end", !.res[exec[e].phase] = "ERROR"])
    /\ UNCHANGED <<tc, disabled, binary, tracked, live, shared>>

Blind(e) == exec[e].blind \/ disabled # {}

\* tfpolicy, or terraform plan, returns.
Evaluate(e) ==
    /\ exec[e].phase \in {"test", "plan"} /\ exec[e].at = "eval"
    /\ \E o \in PossibleOutputs(exec[e].phase) :
         LET status == IF exec[e].phase = "test" THEN PolicyTestResult(o)
                       ELSE CheckResult(tc.plan, o)
         IN Becomes(e, [exec[e] EXCEPT !.res[exec[e].phase] = status,
                                       !.blind = Blind(e), !.at = "end"])
    /\ UNCHANGED <<tc, disk, live, shared>>

-----------------------------------------------------------------------------
(* The apply level from the apply on.                                      *)

\* terraform apply (external) creates what the state does not list yet.
TerraformCreates(e) ==
    /\ exec[e].phase = "apply" /\ exec[e].at = "eval"
    /\ tfdir = "ready"
    /\ tracked = {}
    /\ e \notin live
    /\ tracked' = {e}
    /\ live' = live \cup {e}
    /\ UNCHANGED <<tc, disabled, binary, tfdir, shared, exec>>

\* Mutant: a failed apply returns at once.
ApplyReturnsEarly(e) ==
    /\ exec[e].phase = "apply" /\ exec[e].at = "eval"
    /\ \E o \in PossibleOutputs("apply") :
         LET status == CheckResult(tc.apply, o)
         IN Becomes(e, [exec[e] EXCEPT !.res["apply"] = status, !.blind = Blind(e),
                                       !.unready = (tfdir # "ready"),
                                       !.todo = Policies \ disabled,
                                       !.at = IF o.ec = 0 THEN "disable" ELSE "end"])
    /\ UNCHANGED <<tc, disk, live, shared>>

\* The apply returns; disablePolicyFiles lists the policy files.
ApplyReturns(e) ==
    /\ exec[e].phase = "apply" /\ exec[e].at = "eval"
    /\ \E o \in PossibleOutputs("apply") :
         LET status == CheckResult(tc.apply, o)
         IN Becomes(e, [exec[e] EXCEPT !.res["apply"] = status, !.blind = Blind(e),
                                       !.unready = (tfdir # "ready"),
                                       !.todo = Policies \ disabled,
                                       !.at = "disable"])
    /\ UNCHANGED <<tc, disk, live, shared>>

\* A rename that fails (of a file that is gone, for one) is skipped.
RenameAway(e, p) ==
    /\ exec[e].phase = "apply" /\ exec[e].at = "disable"
    /\ p \in exec[e].todo
    /\ \/ /\ p \notin disabled
          /\ disabled' = disabled \cup {p}
          /\ Becomes(e, [exec[e] EXCEPT !.todo = @ \ {p}, !.renamed = @ \cup {p}])
       \/ /\ p \in disabled \/ "io" \in Faults
          /\ disabled' = disabled
          /\ Becomes(e, [exec[e] EXCEPT !.todo = @ \ {p}])
    /\ UNCHANGED <<tc, binary, tfdir, tracked, live, shared>>

\* Mutant: the exit code of the destroy is not looked at.
DestroyUnchecked(e) ==
    /\ exec[e].phase = "apply" /\ exec[e].at = "disable"
    /\ exec[e].todo = {}
    /\ \/ /\ tfdir = "ready"
          /\ live' = live \ tracked
          /\ tracked' = {}
       \/ UNCHANGED <<live, tracked>>
    /\ Becomes(e, [exec[e] EXCEPT !.at = "restore", !.todo = exec[e].renamed])
    /\ UNCHANGED <<tc, disabled, binary, tfdir, shared>>

\* terraform destroy, which has the state file only to go by.
Destroy(e) ==
    LET Returns(failed) == Becomes(e, [exec[e] EXCEPT !.at = "restore",
                                                      !.todo = exec[e].renamed,
                                                      !.destroyFailed = failed])
    IN  /\ exec[e].phase = "apply" /\ exec[e].at = "disable"
        /\ exec[e].todo = {}
        /\ \/ /\ tfdir = "ready"
              /\ live' = live \ tracked
              /\ tracked' = {}
              /\ Returns(FALSE)
           \/ Returns(TRUE) /\ UNCHANGED <<live, tracked>>
        /\ UNCHANGED <<tc, disabled, binary, tfdir, shared>>

\* Mutant: the restore is forgotten.
RestoreForgotten(e, p) ==
    /\ exec[e].phase = "apply" /\ exec[e].at = "restore"
    /\ p \in exec[e].todo
    /\ Becomes(e, [exec[e] EXCEPT !.todo = {}, !.renamed = {}])
    /\ UNCHANGED <<tc, disk, live, shared>>

\* restorePolicy
RenameBack(e, p) ==
    /\ exec[e].phase = "apply" /\ exec[e].at = "restore"
    /\ p \in exec[e].todo
    /\ \/ /\ disabled' = disabled \ {p}
          /\ Becomes(e, [exec[e] EXCEPT !.todo = @ \ {p}, !.renamed = @ \ {p}])
       \/ /\ "io" \in Faults
          /\ disabled' = disabled
          /\ Becomes(e, [exec[e] EXCEPT !.todo = @ \ {p}])
    /\ UNCHANGED <<tc, binary, tfdir, tracked, live, shared>>

\* cleanTFWorkdir: whether or not the destroy worked, .terraform and the state go.
CleanTFWorkdir(e) ==
    /\ exec[e].phase = "apply" /\ exec[e].at = "restore"
    /\ exec[e].todo = {}
    /\ \E kept \in SUBSET {"tfdir", "state"} :
         /\ kept # {} => "io" \in Faults
         /\ IF "tfdir" \in kept THEN tfdir' \in {tfdir, "partial"}
                                ELSE tfdir' = "none"
         /\ tracked' = IF "state" \in kept THEN tracked ELSE {}
         /\ Becomes(e, [exec[e] EXCEPT !.at = "end", !.kept = @ \cup kept])
    /\ UNCHANGED <<tc, disabled, binary, live, shared>>

\* Mutant: the binary is not removed.
EndLevelOnly(e) ==
    /\ Alive(e) /\ exec[e].at = "end"
    /\ Becomes(e, Returned(e, exec[e].res[exec[e].phase]))
    /\ UNCHANGED <<tc, disk, live, shared>>

\* The deferred cleanCasePlugin, and the return of the level.
EndLevel(e) ==
    /\ Alive(e) /\ exec[e].at = "end"
    /\ LET done == Returned(e, exec[e].res[exec[e].phase])
       IN \/ /\ binary' = (binary /\ ~tc.plugin)
             /\ Becomes(e, done)
          \/ /\ tc.plugin /\ "io" \in Faults
             /\ binary' = binary
             /\ Becomes(e, [done EXCEPT !.kept = @ \cup {"binary"}])
    /\ UNCHANGED <<tc, disabled, tfdir, tracked, live, shared>>

\* What it renamed stays renamed: the map is in the memory of the process.
Crash(e) ==
    /\ "crash" \in Faults
    /\ Alive(e)
    /\ Becomes(e, [NewExec EXCEPT !.phase = "crashed", !.renamed = exec[e].renamed])
    /\ UNCHANGED <<tc, disk, live, shared>>

Step(e) ==
    \/ Skip(e)
    \/ Build(e)
    \/ RunInit(e)
    \/ Evaluate(e)
    \/ ApplyReturns(e)
    \/ \E p \in Policies : RenameAway(e, p) \/ RenameBack(e, p)
    \/ Destroy(e)
    \/ CleanTFWorkdir(e)
    \/ EndLevel(e)

Next == \E e \in Execs : Start(e) \/ Step(e) \/ TerraformCreates(e) \/ Crash(e)

\* The programs it runs return.
Fairness == \A e \in Execs : WF_vars(Step(e))

Spec == Init /\ [][Next]_vars /\ Fairness

-----------------------------------------------------------------------------
(* Properties.                                                             *)

\* Types of the variables.
TypeOK ==
    /\ tc \in TestCases
    /\ disabled \subseteq Policies
    /\ binary \in BOOLEAN
    /\ tfdir \in {"none", "partial", "ready"}
    /\ tracked \subseteq Execs
    /\ live \subseteq Execs
    /\ shared \subseteq Execs
    /\ exec \in [Execs ->
          [phase : Phases \cup Ended \cup {"idle"},
           at : {"begin", "init", "eval", "disable", "restore", "end"},
           skipTFP : BOOLEAN,
           res : [Phases -> Statuses \cup {NoStatus}],
           todo : SUBSET Policies, renamed : SUBSET Policies,
           destroyFailed : BOOLEAN, blind : BOOLEAN,
           unready : BOOLEAN, kept : SUBSET {"tfdir", "state", "binary"}]]

\* The policies are in force at every level of every execution that has the
\* directory to itself, unless an earlier one died between disablePolicyFiles and
\* the restore, or could not rename a file back.  (A blind level may PASS for the
\* lack of policies.)
BlindExplained ==
    \A e \in Execs :
        exec[e].blind =>
            \/ e \in shared
            \/ \E d \in Execs \ {e} : exec[d].renamed # {} /\ exec[d].phase \in Ended

\* A level that follows a failed init may meet an unusable .terraform, and an
\* apply expected to FAIL is then satisfied.  Never unnoticed: the execution as a
\* whole passes only if that .terraform was there before it started, from an
\* execution that died, had an ERROR, or could not remove it.
StaleInitNoticed ==
    \A e \in Execs :
        exec[e].phase = "done" /\ exec[e].unready /\ Overall(e) = "PASS" =>
            \/ e \in shared
            \/ \E d \in Execs \ {e} :
                  \/ exec[d].phase = "crashed"
                  \/ \E p \in Phases : exec[d].res[p] = "ERROR"
                  \/ "tfdir" \in exec[d].kept

\* README.md:176: "The runner always attempts `tfp destroy -auto-approve` after
\* each apply, even if the apply failed."  What an execution created is gone
\* when it returns, unless its destroy failed.
CreatedIsDestroyed ==
    \A e \in Execs :
        exec[e].phase = "done" /\ e \in live
            => exec[e].destroyFailed \/ e \in shared

\* terraform.tfstate is deleted over resources that still exist only by an
\* execution whose destroy failed, which its result says.
LeakNoted ==
    [][ \A r \in live \cap tracked :
          r \in live' /\ r \notin tracked' =>
             \E e \in Execs :
                /\ exec[e].at = "restore" /\ exec'[e].at = "end"
                /\ exec[e].destroyFailed \/ e \in shared ]_vars

\* A case whose apply level passed leaves nothing in the directory that the next
\* execution could mistake for its own, what could not be removed excepted.
LeavesDirectoryClean ==
    [][ \A e \in Execs :
          /\ exec[e].phase = "apply" /\ exec'[e].phase = "done"
          /\ exec'[e].res["apply"] = "PASS"
          /\ e \notin shared /\ exec'[e].kept = {}
          => tfdir' = "none" /\ tracked' = {} /\ ~binary' ]_vars

\* A disabled policy file is enabled again, unless its execution dies or cannot
\* rename it.
PoliciesReturn ==
    \A p \in Policies :
        p \in disabled ~>
            \/ p \notin disabled
            \/ \E e \in Execs :
                  p \in exec[e].renamed /\ exec[e].at \notin {"disable", "restore"}

\* README.md:176: "If destroy fails, a warning is printed".  The only text about
\* it is the note of the apply level.
DestroyFailurePrinted ==
    \A e \in Execs :
        exec[e].phase = "done" /\ exec[e].destroyFailed => NotePrinted(e, "apply")
=============================================================================
