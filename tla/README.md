# cloud-runner: TLA+ models and proofs

The repository tests Terraform policies (tfpolicy). `index.yml` lists 295 test
cases; `cloud-runner/` is a Go program (about 3000 lines) that runs a selection
of them, locally through `terraform` and `tfpolicy`, or on HCP Terraform, and
turns the outcomes into an exit status. These modules model that program.
Paths below are relative to the repository; `client.go` is
`cloud-runner/internal/hcptf/client.go`, `lifecycle.go` and `runner.go` are in
`cloud-runner/internal/runner/`.

## Inventory

| Part | State it keeps | Operations | Model |
| --- | --- | --- | --- |
| Worker pool, summary, exit status (`main.go`) | loop position, channel `sem`, `WaitGroup`, mutex, `results` | spawn, acquire, append, release, wait, report | `WorkerPool`, `CaseSchedule` |
| One test run (`client.go` TriggerRun, waitForRunStatus, log fetches) | `RunResult`, deadline | poll plan, fetch logs, confirm, poll apply, refetch, return | `TriggerRun`, `RunStatus`, `RunContract` |
| Verdicts (`runner.go`, end of `lifecycle.go`) | `TestResult` | classify stages, plan, apply; compare with the expectation; Overall | `Verdict`, through `TriggerRun` |
| Lifecycle of a cloud case (`lifecycle.go`, `client.go`) | `wsID`, `psID`, `staleID`, `CleanupOK`, warning | create and recover workspace and policy set, upload, run, detach, destroy run, deferred cleanup | `CloudLifecycle`, `MCCloudLifecycle`, `CaseContract` |
| Local execution (`internal/localrun`) | results; files of the test directory: `.terraform`, `terraform.tfstate`, `*.policy.hcl.disabled`, plugin binary | policy test, build, init, plan, apply, disable policies, destroy, restore, clean | `LocalRun` |
| Purge (`client.go` PurgeAll, `main.go` runPurge) | the two lists it fetched first, its error lists | list page by page, delete policy sets, destroy and delete workspaces | `Purge`, `MCPurge`, `CaseContract` |
| Index, discovery, configuration (`internal/index`, `testcase`, `config`, `main.go`) | flags, environment, `index.yml`, test directories (all read only) | FromEnv, Validate, ValidateForPurge, index Validate, ByID, Discover, DiscoverMany, NeedsCloudRun, exit status | `Invocation` |
| Tarball and log files | none | pure I/O | not modelled |
| CI workflow (`.github/workflows/cloud-runner.yml`) | none; no concurrency group | builds and calls the program | its invocations are executions of `CloudLifecycle` and `Purge` |
| Fixtures under `tests/`, sample plugins, `run_tests.sh` | data | - | not modelled |

How they interact. `main` reads flags, environment and index, selects the cases
and either purges, or hands the cases to the pool, in local or in cloud mode
(`Invocation`). The pool starts one goroutine per case, bounded by the channel.
In local mode each calls `Run` of `localrun.go`, in the directory of the case. In
cloud mode it calls `Run` of `lifecycle.go`, which owns one workspace and one
policy set named after the case, calls `TriggerRun` and then, on the strength of
the FinalStatus it returns, decides whether a destroy run follows. Cases share
nothing in memory but `results`. Invocations share the organisation: names are
unique there, so what one invocation leaves behind is what the next one meets,
and a purge deletes whatever has the prefix, in use or not. Local executions of
one case share the files of its directory in the same way.

What is hard: goroutines appending to one slice and panicking; a run that moves
between two requests (auto-apply, an operator, the deadline); logs that are
fetched twice; calls that fail, or take effect and lose their answer; a process
that dies anywhere and the recovery that follows; the order detach, destroy,
delete; waits for an organisation that may never answer as hoped; policy files
that are renamed away and must come back; a `.terraform` or a state file of an
earlier execution; a purge that works off a list that is out of date, and was
read in pages while others moved what is on them.
`PROJECT.json` lists each of these hazards at its line with the properties aimed
at it.

What makes each part correct: the pool loses no result, keeps its bound, ends,
and exits with the status the results call for; a PASS is earned by what the run
did; a case runs under its own policies and in its own workspace; what stays
behind is reported; a case recovers from what an earlier invocation of it left;
local levels are evaluated with the policies in force, and what they create is
destroyed; a purge takes everything it could see, and never unnoticed; and an
exit status 0 is earned by every level that was asked for.

## Modules

`WorkerPool` has one action per statement of the loop and of the goroutine.
`append` is two actions, the read of `len(results)` and the write, so that the
mutex matters. A panic runs the two deferred calls and then ends the process
with status 2; between them the main goroutine may get past `wg.Wait`. What
`Run` does is left open: any verdict, or a panic if `MayPanic`.
`runLocalParallel` and `runCloudParallel` have the same body, and one model.
`MainReady` and `WorkerReady` say who can go on, `Progress` counts the steps
taken so far; they are for the properties about waiting and ending.

`CaseSchedule` is what the pool promises, without goroutines: cases start once,
at most `MaxParallel` at a time, report once or are lost to a panic, and the exit
status follows: that of the outcomes, or 2 once a case is lost.
`WorkerPool!ImplementsSchedule` is the refinement; a case counts as active until
its result is in the slice, so `active` shrinks at `AppendWrite`, or until its
goroutine releases its place after a panic.

`RunStatus` holds the status predicates of `client.go` and a coarser view
(`Phase`) for the modules that look at a run from outside. `Verdict` holds the
classification functions of `runner.go`. A policy log is the result of each
evaluation stage, which is all the regular expressions of `runner.go` extract.

`TriggerRun` is the client against the run it watches. The actions under
"server" are external: statuses and stage results `client.go`, `runner.go` and
their tests speak of. Init and plan stage may each be absent, end in any result,
errored included, or stay idle (all counts zero); a hard failure at init cancels
the plan stage. `planEnd` records the status the plan ended in, for the
properties: the status may have moved on when the client reads it. A read of a
status that is not terminal is not a step. The deadline may pass at any moment the
client polls. `CaseExpectations` and `StageOutcomes` bound a run; the proofs have
them arbitrary.

`RunContract` is what TriggerRun promises `lifecycle.go`: it returns, once, a
FinalStatus allowed by `FinalPhases`. `TriggerRun!ImplementsContract` shows that
TriggerRun keeps it; `CloudLifecycle!Await` uses the same `FinalPhases`, so the
two models compose through it.

`CloudLifecycle` models executions of `Run`, one per call. `CaseOf` says which
execution runs which case; executions of one case follow each other (they are
successive invocations of the program), those of different cases interleave.
`Crash` ends an execution anywhere and leaves its objects. The constant `Faults`
says what may go wrong; each fault is a disjunct of the call it strikes:

| fault | meaning |
| --- | --- |
| crash | the process dies |
| fail | a call fails without effect |
| lost | a call takes effect, the client sees an error |
| http500 | a policy set is created and the answer is a 5xx |
| gateway | a 5xx, and nothing was created |
| slow | a wait for a destroy run reaches its deadline |
| destroy | a destroy run fails by itself |
| overlap | two invocations of one case at the same time |
| limit | the organisation may refuse a policy set while it has one |

(`Invocation` and `WorkerPool` have panics of their own; here a panic of `Run`, as
in the poll of `UploadConfig`, is a crash.)

`CaseContract` is what `Run` of `lifecycle.go` promises the organisation, without
requests, errors, retries or recovery: objects are named after their case and a
name is held once; an execution removes what is its own or a leftover of its
case; and a clean result (no FatalErr, no warning, CleanupOK) is only returned
by an execution that lost nothing to anybody and leaves nothing. With
`Undisturbed` executions of a case follow each other, lose nothing to each other,
and a clean one leaves nothing under the names of its case at all. It is kept twice:
by `CloudLifecycle!ImplementsContract` undisturbed, and by
`Purge!PurgeKeepsContract` beside a purge and with overlapping executions,
`taken` being who was robbed. A request that is answered with an error, or not
at all, is a step that changes nothing or the step it took effect as; a step
may be the last request and the return at once.

`LocalRun` is the directory of one test case and the executions of that case in
it, one action per program the level calls or file operation it makes. The
programs are external: an output is an exit code and what the regular
expressions of `check_result.go` find in it, limited only by what cannot be
(without an enabled policy file there is no condition to report on; without a
usable `.terraform` plan and apply fail). `disablePolicyFiles` and its undoing
are one action per file, with the map of renamed files in the execution, so that
a crash between them leaves what it leaves in the code. `blind`, `unready`,
`kept` and `shared` record what happened, for the properties; no guard reads
them. Its faults are "crash", "io" (a rename or a removal fails) and "overlap".

`Purge` extends `CloudLifecycle` with one purge. It shares the organisation and
the steps of the executions, so it meets them at any point of `Run`. A list is
read with a request per page: a page has any part of what is not on the pages
before it, the last one the rest. `passed` is what lies on the pages already read;
while the purge is between two pages, an object that an execution deletes there
lets the next one move up (or one created there moves another down: that one is
listed twice), and `OthersMove` does the same by objects without the prefix. What
has moved up unlisted is in `missed`. Passing over a page edge by one object for
each creation or deletion is what the organisation's numbered pages do; the order
of the objects is left open. `PurgeFaults` strike the calls of
the purge, `Faults` those of the executions. `beside` records who ran since it
started, `taken` who lost an object while running: to the purge, or (`Robbed`) to
another execution of the same case whose recovery took the object for a leftover.

`Invocation` is `main` from the flags to the exit status. `EntryCoherent`,
`Wanted`, `Eligible` and `NeedsCloudRun` are the functions of `internal/index`
and `internal/testcase`; the pool and the executions are one step with any
result the statuses of a level allow. In cloud mode any of the cases may panic
(`client.go:523-525` uses the configuration version after a failed read): the
program exits with 2, or main is ahead of the panic and reports the other cases.
`panicked` records which, for `ZeroIsEarned`; nothing in the code knows.
`RunnerPreconditions` is what the other
modules assume: `MaxParallel >= 1` of `WorkerPool`, expectations that are known
and a `main.tf` where one is needed of `LocalRun` and `CloudLifecycle`.

## Runs

| run | module, bounds | shows |
| --- | --- | --- |
| pool | 3 cases, 2 tokens, any of which may panic; 14079 states | bound, completeness and stability of results, exit status, no deadlock, termination and the bound on the number of steps, refinement of `CaseSchedule`, the inductive invariant |
| run | four of the six expectations, every plan, stage result, fault; 2059812 states | earned PASS, settled on return, plan outcome kept, refinement of `RunContract` |
| lifecycle | 2 successive executions of a case, every fault but overlap; 330104 states | policies in force, destroy run unhindered, orphans explained, cleanup leaves nothing, executions end, the inductive invariant, refinement of `CaseContract` |
| restart | 2 executions of a case and 1 of another, no cleanup, crash, http500 and limit; 516756 states | a case recovers from its leftovers and fails only by the limit, nobody loses a workspace in use |
| local | 2 executions in one directory, one policy file, 5 kinds of case, every fault; 1095700 states | policies in force, failed init seen, created means destroyed, leaks noted, directory left clean, policies come back |
| purge | 2 executions, of one case or of two, that may die, following each other with a purge at any time (failing, lost and slow calls, a death of its own, lists in any number of pages) or, of one case, overlapping without one; about 456000 states up to symmetry and `View` (the number depends on the order in which the workers find them) | no policy set meets its destroy runs, nothing old that it could see is left, orphans explained, whoever loses an object notices, refinement of `CaseContract` |
| invocation | 3 names, 8 indexes, 5 directories, flags, environments and panics; 38613 states | preconditions of the executions, distinct ids, exit status 0 earned |
| lost_policy_log, confirm_race, recovery_destroy, policy_set_order, local_leak | - | one documented statement each that the code does not keep |

The bounds. Three cases on two tokens are the smallest instance in which the
channel fills while two goroutines compete for the mutex; a pool without panics is
among the behaviours of the run, in which a panic is a choice. One run is enough
for `TriggerRun`, which handles one; ERROR_CONTAINS is FAIL with a text besides,
and VALIDATION_ERROR is met by nothing, so the run does without them, and an apply
stage that stays idle is left to the proofs. In `CloudLifecycle` an execution
looks at objects of its own case only, so two executions of it show every
encounter of an invocation with leftovers; the second case of `restart` is there
so that taking the wrong case's objects is possible at all. The proofs remove the
bounds. `ApplyCases` is one case; the other one has no apply expectation. In
`LocalRun` two executions show what one leaves to the next as well as what two do
to each other, and one policy file is as good as several, whose renames differ in
nothing but their order; the five cases are the ways through the levels (policies
only, init and apply only, a plugin, validation, values that no level makes sense
of). `Purge` has two executions of one case, which are interchangeable (declared
symmetric, which is sound since the run checks safety only), and one of another
case, so that one case can move what belongs to the other across a page edge.
`Bounded` and `Early` name its bounds: two of them start, one after the other, or,
if of one case and without a purge, at the same time; the execution of the other
case is the second, once nothing of the first is under way; one execution runs
beside the purge; one object crosses a page edge in either direction; none starts
after the purge. `View` forgets what no guard, no assignment that matters and no
property reads again: of an execution that has ended all but whether its result is
clean; of runs that are over and that nobody awaits, how they ended; whatever is
said of objects that are gone; and of a purge that was cut short all but what it
took. A purge beside overlapping executions is more than a run finishes in
minutes; the theorems of `Purge_proofs` have both together and no bound.
`Invocation` varies one name and its directory through everything and keeps a
second one in order beside it; each way to get flags or index wrong occurs, and
the ways to name cases in every mode.

`CHECK_DEADLOCK` is off everywhere: the process exits, a run is over, and each
execution ends. That nothing stops earlier is what `NeverStuck`, `Terminates`,
`ExecutionsEnd` and the fairness part of `TriggerRun!ImplementsContract` say.

### Fairness

Weak fairness of each goroutine's steps and of the main goroutine (the Go
scheduler), of the client's steps and of the passing of time (each request is
answered, the deadline comes). Nothing is assumed of HCP Terraform: its runs and
destroy runs may stop for good, and the waits end by their deadlines.
`ExecutionsEnd` needs the fault "slow" for that; without it a wait could be
endless in the model. `LocalRun` has weak fairness of each execution's steps:
the programs it calls return (`exec.go` waits for them without a deadline), the
next statement is executed; the creation of resources by terraform is not made
fair. `Purge` and `Invocation` assume no fairness and check safety only. A
request that hangs is outside the assumption: `http.DefaultClient` has no
timeout.

### Where the code and its documents differ

`PROJECT.json` quotes both sides of those a run shows. In short:

* `lost_policy_log`: a failed second fetch of the policy log turns a failed
  at_apply evaluation into PASS.
* `confirm_race`: a confirmation refused because auto-apply was faster satisfies
  EXPECT_APPLY=FAIL although the apply succeeds.
* `recovery_destroy`: the destroy run of the recovery meets the stale policy set
  that the normal path takes care to detach first.
* `policy_set_order`: the policy set goes before the destroy run
  (`lifecycle.go:149-158`, with its reason at 144-148). The comment at
  `lifecycle.go:65`, `cloud-runner/plan.md:103-105` and the tests of
  `cleanup_test.go` (87-95, and 112-114 for `--no-cleanup`) say the opposite; the
  call orders these two tests demand are none the code can produce. The models
  follow the code: `DestroyUnhindered` is what the order is for.
* `local_leak`: a failed destroy is noted in the result of the apply level, and
  the note is printed for FAIL and ERROR only; after an apply that met its
  expectation nothing says that resources were left (`README.md:176`).

Differences that the models contain and no run is spent on:

* A panic in `Run` ends the process with status 2 (or, in a narrow window, 0);
  `cloud-runner/README.md:152` knows 0 and 1.
* A plan stage with all counts zero, or one that passed, hides the status of the
  run (`runner.go:161`): a plan that is canceled or that fails by itself passes a
  case with EXPECT_PLAN=PASS, where `plan.md:114` wants plan and apply to
  succeed. `runner_test.go:57-59` has such a stage, canceled, beside a failed init
  stage, which is looked at first. `StageHidesStatus` is the exception in
  `EarnedPassWithLogs`.
* `cloud-runner/README.md:191-194` says that after an interrupted run subsequent
  runs fail, because the free tier has room for one policy set, and that the orphan
  must be deleted by hand. That is so for other cases (fault "limit"); the next run of the
  same case deletes its leftover itself, unless the organisation reports the
  limit in place of the conflict (`LeftoversRecovered`).
* A note of a cloud case is printed only if its apply did not match
  (`main.go:475`), and CleanupOK nowhere: what `OrphanExplained` calls a warning is
  in the result, not always on the screen.
* VALIDATION_ERROR is accepted of plan and apply (`index.go:126`) and met by no
  outcome.
* A run canceled by the init stage does not satisfy EXPECT_APPLY=FAIL.
* There is no destroy run for a case without an apply expectation, or for a run
  that outlived its deadline, although such a run may have applied.
* `config.go:137` speaks of values "not already set by flags", but `TFE_TOKEN`,
  `TFE_ORG` and `TF_POLICY_PLUGIN` replace the flags; only `TFE_HOST` does not.
* `index.yml` is checked against the directories (`README.md:159`), the
  directories not against the index: a case without an entry is never run.

Properties stated with an exception name it: `EarnedPassWithLogs` is about runs
whose policy log was fetched and names four ways to a PASS that the run did not
earn (`StageHidesStatus`; `ApplyErrorReadAsPlan`, an auto-apply that fails before
the first read; `ConfirmErrorReadAsFailure`, the case of `confirm_race`;
`LostPlanLogReadAsChanges`); `PurgeUnhindered` and `PurgeComplete` name what moved
past the purge between two pages (without that exception TLC finds both violated:
the execution of the other case deletes its set, the next one moves up unlisted,
and the purge ends with status 0); `PolicyInForce` excludes a policy set adopted
after a 5xx that created nothing ("gateway"); `CleanupLeavesNothing` is about
executions without FatalErr, because after a lost answer to a creation `psID` is
empty and CleanupOK is reported all the same; `BlindExplained` and
`StaleInitNoticed` name the executions (dead, overlapping, with a file that could
not be renamed or removed) that may deprive another of its policies or its init;
`PurgeOrphanExplained` names failed destroy runs, of which a purge says nothing;
`ZeroIsEarned` names `--skip-tfp`, a `main.tf` that is a directory, the cases a
cloud invocation leaves out without a word, and a case lost to a panic that main
was ahead of; `LeftoversRecovered` names the limit on policy sets.

## Proofs

`WorkerPool_proofs`, for every number of cases and tokens. The inductive
invariant `PoolInv` ties each counter to the set it counts: `sem` to the
goroutines between acquire and release, `wg` to those spawned and not done,
`resLen` to those whose append took effect; `MutexInv` says that the mutex has
at most one holder, which is what makes the two halves of `append` safe. The
properties alone are not inductive: `ResultsComplete` needs to know that
`wg = 0` means that nobody is pending, and the bound needs the sets behind the
counters. From it follow `TypeCorrect`, `ParallelBounded`, `NoResultLost`,
`ExitStatus`, `ResultsKept` and `PoolRefinesSchedule` (its safety part), with
panics and without. That the pool ends is proved up to the last step:
`DeadlockFree` says that as long as the process runs somebody can go on (a loop
that waits for room has a holder of a token to wait for, a loop that waits for
the group a pending goroutine, and whoever waits for the mutex its holder, who
waits for nobody), and `StepsBounded` that every step increases `Progress`, which
never exceeds `11 * NumCases + 6`. So the process exits after that many steps at
most, whichever the scheduler chooses, if it lets somebody run at all; this
conclusion is `Terminates`, which needs fairness and stays with TLC. The
assumptions are those of the constants: `MaxParallel >= 1`, which
`config.Validate` enforces.

`CloudLifecycle_proofs`, for any executions, cases and faults. The invariant
`LifecycleInv` is `TypeOK` and, unless invocations overlap: a case has one live
execution (`Alone`); a name is held once (`NamesUnique`); and for each execution
`ExecInv`, seven statements about where its objects are at each point of `Run`.
`Footprint` is the key of the argument: a step touches the objects of its own
case only, and those of earlier invocations it at most removes. So a step of one
execution cannot disturb `ExecInv` of another (`OtherCaseKept`, `SameCaseKept`),
and each action needs to be looked at for the execution that takes it. From the
invariant follow `OwnWorkspaceKept`, `PoliciesInForce`, `DestroyMeetsNoPolicy`,
and, as action properties, `AlwaysRecovers`, `NothingLeft` and
`OrphansExplained`. `LifecycleTypes` holds with overlaps as well.
`LifecycleKeepsContract` is the safety part of the refinement of `CaseContract`:
`StepSeen` classifies what a step does to the names of the organisation,
`CleanReturn` says what is known when a result is clean, and the invariant
supplies that a leftover is of an execution that is over. `CasesIsolated` follows
from the same classification: while an execution runs, nothing with the names of
its case comes or goes but by its own requests.
`ExecutionsGoForward`, which holds with overlaps too, is the measure behind
`ExecutionsEnd`: every step leads to a later point of `Run`, no recovery is tried
twice, so only a wait can keep an execution from its end.

`CaseContract_proofs`, for any executions and cases, disturbed or not. What follows from
the contract alone, with the invariant `Inv`: `NamesAreHeldOnce`,
`CleanStaysFinal` (what a clean result says stays true), `NobodyIsRobbed` and
`ExecutionsIsolated`.

`TriggerRun_proofs`, for any set of faults. The invariant says what the status
last read still tells of the run (`StatusInv`: it has not moved, or moved on from
there; a terminal status is final), whose stage results a policy log in hand has
(`LogInv`), what each control point may rely on (`PointInv`) and what is returned
(`ReturnInv`); `ServerInv` is what the organisation keeps. The safety properties
speak of the run as it is on return and the log as it was read, so they need just
this link. `TriggerTypes`, `RunSettled`, `PlanKept`, `PassesEarned` follow, and
`TriggerKeepsContract`, the safety part of the refinement of `RunContract`: what
`CloudLifecycle!Await` takes from the contract is what TriggerRun returns.

`Invocation_proofs`, for every index, directory, environment and command line
the assumptions admit. `CheckedInv` says what has been found out by each point of
`main`; that an id stands once in a validated index (`IdsUnique`) makes ByID
unambiguous, and from there `PreconditionsHold`, `DistinctExecutions` and
`ZeroEarned`, panics included.

`LocalRun_proofs`, for any executions, policy files, cases and faults.
`LocalInv` is `TypeOK`; `Alone`: whoever runs beside another is in `shared`;
`DisabledInv`: a disabled file was renamed by exactly one execution, which still
has it in its map or died with it; `DirectoryInv`: a partial `.terraform` has a
culprit; and for each execution where it is, what it has evaluated, what it met
and what it knows of the directory when it has it to itself. `BlindExplained` and
the others are not inductive without `DisabledInv`, which ties the files to the
maps of executions that may be long gone.

`Purge_proofs`, for any executions (overlapping ones included) and faults.
`PurgeInv` has `PagesInv` and `CoverInv`: between two pages what was passed is on
the list, of an execution beside the purge, or in `missed`, and so, as long as no
deletion failed, what exists later is on a list, in hand, or one of these
(`Excused`); a step that moves objects across the edge keeps this because
`MovedUp` records what it takes out of sight (`PagesKept`). `OwnAttached`: a set
is attached to its own execution's workspace; and `DestroyedInv`: what a destroy
run removed stays removed unless its execution is running. `PurgeMeetsNoPolicy`,
`PurgeTakesAll` and `PurgeOrphansExplained` follow, and that a purge that is alone
leaves nothing at all (`PurgeAloneComplete`): then nobody moves anything.
`PurgeIsNoticed` needs a second invariant, `NoticedInv`: an execution holds the
set it created unless its result is already not clean (`HoldsSet`), so once an
object is taken it is bound to notice (`Noticed`), and no later step makes it
forget. With overlaps the point that needs an argument is a robbed execution that
finds objects under its own names again, which are the robber's: a workspace name
is held once (`NamesFree`) and a policy set is created beside a workspace of its
creator, so whoever meets a new set of its name has lost its workspace already,
and the deferred deletion of that workspace, by id, fails. `PurgeRefinesContract`
adds `NamesInv` (whatever an execution has in hand is of its own case, whoever
else is about) to these: a step of the purge or of a robber is a disturbance, and
an execution that was robbed returns no clean result because it notices.
`CleanResultFinal` is then not proved again but taken over: `Consequences` is the
instance of `CaseContract_proofs` under the same refinement mapping.

Model-checked only: liveness, since TLAPS does not reason about ENABLED. These are
`Terminates`, `ExecutionsEnd`, `PoliciesReturn` and the fairness parts of
`WorkerPool!ImplementsSchedule` and of `ImplementsContract` of `TriggerRun` and
of `CloudLifecycle` (`PurgeKeepsContract` has none).

## Not modelled, and simplifications

* The text of logs, result lines and workspace names; names are their case. The
  archive that is uploaded and the log files that are written: pure I/O, on
  which no outcome depends.
* The L1 policy test that precedes the cloud run.
* The contents of what a destroy run, cloud or local, leaves when it errors half
  way: it has destroyed all of it or nothing. The resources of a configuration
  are one unit.
* The page limit of `findPolicySetByName` and the three-minute poll of
  `WaitPolicySetReady` are lookups that may fail. `createWorkspace` with its
  fallback to another Terraform version is one call.
* `planPolicyBlocked` looks for "Plan stage" in that spelling, the expression of
  `runner.go:99` in any; the server writes it so, and the models have one parse.
* Overlapping invocations of one case on HCP Terraform are modelled (fault
  "overlap"), and the types and all theorems of `Purge_proofs` hold with them.
  The other properties of `CloudLifecycle` are stated of invocations that follow
  each other, because an overlap breaks them: the second one takes the workspace
  of the first for a leftover.
* The workflow, the fixtures under `tests/`, the sample plugins and
  `run_tests.sh`: shell and data. The provider schema cache of tfpolicy, which
  cases at the same time share, belongs to that program.
* `--version`, `--help` and malformed flags, which end in the `flag` package.

## Plan

1. (done) `WorkerPool`, `CaseSchedule`, proofs; `TriggerRun`, `Verdict`,
   `RunContract`; `CloudLifecycle`, proofs.
2. (done) `LocalRun`, `Purge`, `Invocation`, and proofs of each and of
   `TriggerRun`.
3. (done) `CaseContract`, which `CloudLifecycle` and `Purge` both implement;
   panics in `CaseSchedule`; freedom from deadlock and the step bound of the pool.
4. (done) The pages of a purge's lists, the limit on policy sets, panics in
   `Invocation`, idle and errored init and plan stages.
5. Left: the L1 level before a cloud run; an abstract specification of what
   `LocalRun` promises the test directory.
