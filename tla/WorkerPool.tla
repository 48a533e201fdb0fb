----------------------------- MODULE WorkerPool -----------------------------
(***************************************************************************)
(* The bounded pool of goroutines that runs the selected test cases:       *)
(* runLocalParallel and runCloudParallel in cloud-runner/main.go (the two  *)
(* bodies differ only in what they print), and the part of runLocal and    *)
(* runCloud that turns the collected results into the exit code.           *)
(*                                                                         *)
(* A case is its position in the slice the discovery returned, so an id    *)
(* selected twice is two cases.  What Run does with a case is left open:   *)
(* it returns one of the verdicts of TestResult.Overall, or it panics.     *)
(***************************************************************************)
EXTENDS Integers, FiniteSets

CONSTANTS
    NumCases,     \* len(cases) after discovery
    MaxParallel,  \* cfg.Parallel
    MayPanic      \* TRUE: a Run may panic (client.go:525 does, on a nil cv)

ASSUME NumCasesAssumption == NumCases \in Nat
\* config.Validate refuses --parallel below 1.
ASSUME MaxParallelAssumption == MaxParallel \in Nat \ {0}
ASSUME MayPanicAssumption == MayPanic \in BOOLEAN

Cases == 1..NumCases
NoCase == 0
Verdicts == {"PASS", "FAIL", "ERROR"}
NoVerdict == "none"
Running == -1   \* the process has not exited

VARIABLES
    mpc,        \* control point of the goroutine that runs the loop
    next,       \* position the loop is at
    sem,        \* elements in the channel sem
    wg,         \* the counter of the WaitGroup
    mu,         \* the case whose goroutine holds the mutex, or NoCase
    wpc,        \* control point of each case's goroutine
    readLen,    \* len(results) as append evaluated it, per goroutine
    slots,      \* the array under results, of capacity len(cases)
    resLen,     \* len(results)
    verdict,    \* res.Overall() of each case
    panicking,  \* the cases whose goroutine is unwinding a panic
    exitCode    \* status of the process, Running while it runs

vars == <<mpc, next, sem, wg, mu, wpc, readLen, slots, resLen, verdict,
          panicking, exitCode>>

-----------------------------------------------------------------------------

Init ==
    /\ mpc = "start"
    /\ next = 1
    /\ sem = 0
    /\ wg = 0
    /\ mu = NoCase
    /\ wpc = [c \in Cases |-> "unborn"]
    /\ readLen = [c \in Cases |-> 0]
    /\ slots = [k \in Cases |-> NoCase]
    /\ resLen = 0
    /\ verdict = [c \in Cases |-> NoVerdict]
    /\ panicking = {}
    /\ exitCode = Running

-----------------------------------------------------------------------------
(* The main goroutine.                                                     *)

\* len(cases) == 0: exit 0 before any goroutine; else enter the loop.
Begin ==
    /\ mpc = "start"
    /\ IF NumCases = 0
       THEN mpc' = "exit" /\ exitCode' = 0
       ELSE mpc' = "add"  /\ exitCode' = exitCode
    /\ UNCHANGED <<next, sem, wg, mu, wpc, readLen, slots, resLen, verdict,
                   panicking>>

\* Mutant: wg.Add is forgotten.
AddForgotten ==
    /\ mpc = "add"
    /\ mpc' = "acquire"
    /\ UNCHANGED <<next, sem, wg, mu, wpc, readLen, slots, resLen, verdict,
                   panicking, exitCode>>

\* wg.Add(1)
Add ==
    /\ mpc = "add"
    /\ wg' = wg + 1
    /\ mpc' = "acquire"
    /\ UNCHANGED <<next, sem, mu, wpc, readLen, slots, resLen, verdict,
                   panicking, exitCode>>

\* Mutant: the channel has one place too many.
AcquireOffByOne ==
    /\ mpc = "acquire"
    /\ sem <= MaxParallel
    /\ sem' = sem + 1
    /\ mpc' = "spawn"
    /\ UNCHANGED <<next, wg, mu, wpc, readLen, slots, resLen, verdict,
                   panicking, exitCode>>

\* sem <- struct{}{}: blocks while the channel is full.
Acquire ==
    /\ mpc = "acquire"
    /\ sem < MaxParallel
    /\ sem' = sem + 1
    /\ mpc' = "spawn"
    /\ UNCHANGED <<next, wg, mu, wpc, readLen, slots, resLen, verdict,
                   panicking, exitCode>>

\* Mutant: the loop runs once too often.
SpawnOffByOne ==
    /\ mpc = "spawn"
    /\ wpc' = [wpc EXCEPT ![next] = "run"]
    /\ next' = next + 1
    /\ mpc' = IF next > NumCases THEN "wait" ELSE "add"
    /\ UNCHANGED <<sem, wg, mu, readLen, slots, resLen, verdict, panicking,
                   exitCode>>

\* go func() { ... }() and the loop's increment.
Spawn ==
    /\ mpc = "spawn"
    /\ wpc' = [wpc EXCEPT ![next] = "run"]
    /\ next' = next + 1
    /\ mpc' = IF next = NumCases THEN "wait" ELSE "add"
    /\ UNCHANGED <<sem, wg, mu, readLen, slots, resLen, verdict, panicking,
                   exitCode>>

\* Mutant: the main goroutine does not wait.
WaitForgotten ==
    /\ mpc = "wait"
    /\ mpc' = "report"
    /\ UNCHANGED <<next, sem, wg, mu, wpc, readLen, slots, resLen, verdict,
                   panicking, exitCode>>

\* wg.Wait() returns.
WaitReturns ==
    /\ mpc = "wait"
    /\ wg = 0
    /\ mpc' = "report"
    /\ UNCHANGED <<next, sem, wg, mu, wpc, readLen, slots, resLen, verdict,
                   panicking, exitCode>>

\* Mutant: an ERROR does not count.
FailedOnly == {k \in 1..resLen : verdict[slots[k]] = "FAIL"}

\* The summary counts the results that are not PASS; os.Exit(exitCode).
NotPassed == {k \in 1..resLen : verdict[slots[k]] # "PASS"}

Report ==
    /\ mpc = "report"
    /\ mpc' = "exit"
    /\ exitCode' = IF NotPassed # {} THEN 1 ELSE 0
    /\ UNCHANGED <<next, sem, wg, mu, wpc, readLen, slots, resLen, verdict,
                   panicking>>

Main == Begin \/ Add \/ Acquire \/ Spawn \/ WaitReturns \/ Report

-----------------------------------------------------------------------------
(* The goroutine of case c.                                                *)

Goto(c, from, to) ==
    /\ wpc[c] = from
    /\ wpc' = [wpc EXCEPT ![c] = to]

\* Mutant: a case is run again until it passes.
RunRetried(c) ==
    /\ wpc[c] = "run"
    /\ \E v \in Verdicts :
         /\ verdict' = [verdict EXCEPT ![c] = v]
         /\ wpc' = [wpc EXCEPT ![c] = IF v = "PASS" THEN "lock" ELSE "run"]
    /\ UNCHANGED <<mpc, next, sem, wg, mu, readLen, slots, resLen, panicking,
                   exitCode>>

\* res := r.Run(ctx, tc)
RunReturns(c) ==
    /\ Goto(c, "run", "lock")
    /\ \E v \in Verdicts : verdict' = [verdict EXCEPT ![c] = v]
    /\ UNCHANGED <<mpc, next, sem, wg, mu, readLen, slots, resLen, panicking,
                   exitCode>>

\* Run panics: only the deferred calls of this goroutine still run.
RunPanics(c) ==
    /\ MayPanic
    /\ Goto(c, "run", "release")
    /\ panicking' = panicking \cup {c}
    /\ UNCHANGED <<mpc, next, sem, wg, mu, readLen, slots, resLen, verdict,
                   exitCode>>

\* Mutant: the mutex is forgotten.
LockForgotten(c) ==
    /\ Goto(c, "lock", "read")
    /\ mu' = c
    /\ UNCHANGED <<mpc, next, sem, wg, readLen, slots, resLen, verdict,
                   panicking, exitCode>>

Lock(c) ==
    /\ mu = NoCase
    /\ Goto(c, "lock", "read")
    /\ mu' = c
    /\ UNCHANGED <<mpc, next, sem, wg, readLen, slots, resLen, verdict,
                   panicking, exitCode>>

\* results = append(results, res), first half: the length is read.
AppendRead(c) ==
    /\ Goto(c, "read", "write")
    /\ readLen' = [readLen EXCEPT ![c] = resLen]
    /\ UNCHANGED <<mpc, next, sem, wg, mu, slots, resLen, verdict, panicking,
                   exitCode>>

\* Second half: the element is stored and the slice header assigned.
AppendWrite(c) ==
    /\ Goto(c, "write", "unlock")
    /\ slots' = [slots EXCEPT ![readLen[c] + 1] = c]
    /\ resLen' = readLen[c] + 1
    /\ UNCHANGED <<mpc, next, sem, wg, mu, readLen, verdict, panicking,
                   exitCode>>

Unlock(c) ==
    /\ Goto(c, "unlock", "release")
    /\ mu' = NoCase
    /\ UNCHANGED <<mpc, next, sem, wg, readLen, slots, resLen, verdict,
                   panicking, exitCode>>

\* defer func() { <-sem }(): the second defer, so the first to run.
Release(c) ==
    /\ Goto(c, "release", "done")
    /\ sem' = sem - 1
    /\ UNCHANGED <<mpc, next, wg, mu, readLen, slots, resLen, verdict,
                   panicking, exitCode>>

\* Mutant: wg.Done is forgotten.
DoneForgotten(c) ==
    /\ Goto(c, "done", "ended")
    /\ UNCHANGED <<mpc, next, sem, wg, mu, readLen, slots, resLen, verdict,
                   panicking, exitCode>>

\* defer wg.Done()
Done(c) ==
    /\ Goto(c, "done", "ended")
    /\ wg' = wg - 1
    /\ UNCHANGED <<mpc, next, sem, mu, readLen, slots, resLen, verdict,
                   panicking, exitCode>>

\* Its deferred calls over, the panic ends the process: exit status 2.
Crash(c) ==
    /\ c \in panicking
    /\ wpc[c] = "ended"
    /\ exitCode' = 2
    /\ UNCHANGED <<mpc, next, sem, wg, mu, wpc, readLen, slots, resLen,
                   verdict, panicking>>

Worker(c) ==
    \/ RunReturns(c)
    \/ RunPanics(c)
    \/ Lock(c)
    \/ AppendRead(c)
    \/ AppendWrite(c)
    \/ Unlock(c)
    \/ Release(c)
    \/ Done(c)
    \/ Crash(c)

-----------------------------------------------------------------------------

Next ==
    /\ exitCode = Running
    /\ Main \/ \E c \in Cases : Worker(c)

\* The Go scheduler runs every goroutine that can run.
Fairness ==
    /\ WF_vars(exitCode = Running /\ Main)
    /\ \A c \in Cases : WF_vars(exitCode = Running /\ Worker(c))

Spec == Init /\ [][Next]_vars /\ Fairness

-----------------------------------------------------------------------------
(* Properties.                                                             *)

WorkerPoints == {"unborn", "run", "lock", "read", "write", "unlock",
                 "release", "done", "ended"}
MainPoints == {"start", "add", "acquire", "spawn", "wait", "report", "exit"}

\* Types of the variables, and the ranges the Go values stay in.
TypeOK ==
    /\ mpc \in MainPoints
    /\ next \in 1..(NumCases + 1)
    /\ sem \in 0..MaxParallel
    /\ wg \in 0..NumCases
    /\ mu \in Cases \cup {NoCase}
    /\ wpc \in [Cases -> WorkerPoints]
    /\ readLen \in [Cases -> 0..NumCases]
    /\ slots \in [Cases -> Cases \cup {NoCase}]
    /\ resLen \in 0..NumCases
    /\ verdict \in [Cases -> Verdicts \cup {NoVerdict}]
    /\ panicking \in SUBSET Cases
    /\ exitCode \in {Running, 0, 1, 2}

\* The goroutines that hold an element of sem.
Holders == {c \in Cases : wpc[c] \in {"run", "lock", "read", "write",
                                      "unlock", "release"}}

\* Never more than --parallel cases are between the acquire and the release
\* (cloud-runner/README.md: "Max number of test cases to run concurrently").
ParallelBound == Cardinality(Holders) <= MaxParallel

\* When wg.Wait has returned, results holds every case whose Run returned,
\* exactly once: no append was lost to another goroutine's and none was still on
\* its way.
ResultsComplete ==
    mpc = "report" =>
        /\ {slots[k] : k \in 1..resLen} = Cases \ panicking
        /\ resLen = Cardinality(Cases \ panicking)

\* An exit status 0 means that every case that did not panic passed, 1 that one of
\* them did not, 2 that a case panicked.  wg.Done is deferred, so a panicking
\* goroutine lets wg.Wait return without its result, and the status may be that of
\* the others.
ExitCodeHonest ==
    /\ exitCode = 0 => \A c \in Cases \ panicking : verdict[c] = "PASS"
    /\ exitCode = 1 => \E c \in Cases \ panicking : verdict[c] \in {"FAIL", "ERROR"}
    /\ exitCode = 2 => panicking # {}

\* A result once in the slice is never overwritten or dropped.
ResultsStable ==
    [][/\ resLen' >= resLen
       /\ \A k \in 1..resLen : slots'[k] = slots[k]]_vars

\* Every invocation ends, provided that every Run returns.
Terminates == <>(exitCode # Running)

\* What the next statement of a goroutine waits for: the main goroutine for room in
\* the channel and for the WaitGroup, the goroutine of a case for the mutex.
MainReady ==
    \/ mpc \in {"start", "add", "spawn", "report"}
    \/ mpc = "acquire" /\ sem < MaxParallel
    \/ mpc = "wait" /\ wg = 0

WorkerReady(c) ==
    \/ wpc[c] \in {"run", "read", "write", "unlock", "release", "done"}
    \/ wpc[c] = "lock" /\ mu = NoCase
    \/ wpc[c] = "ended" /\ c \in panicking

\* There is no deadlock among channel, WaitGroup and mutex: until the process exits,
\* not everybody waits, however many cases panic.
NeverStuck ==
    exitCode = Running => MainReady \/ \E c \in Cases : WorkerReady(c)

\* How far the pool has come: the turns of the loop, and for each point how many
\* goroutines have reached it or, in a panic, are past it.
MainProgress ==
    3 * next + (CASE mpc = "start" -> -1
                  [] mpc \in {"add", "wait"} -> 0
                  [] mpc \in {"acquire", "report"} -> 1
                  [] OTHER -> 2)

Place(point) ==
    CASE point = "unborn" -> 0
      [] point = "run" -> 1
      [] point = "lock" -> 2
      [] point = "read" -> 3
      [] point = "write" -> 4
      [] point = "unlock" -> 5
      [] point = "release" -> 6
      [] point = "done" -> 7
      [] OTHER -> 8

Reached(k) == Cardinality({c \in Cases : Place(wpc[c]) >= k})

Passed ==
    Reached(1) + Reached(2) + Reached(3) + Reached(4)
    + Reached(5) + Reached(6) + Reached(7) + Reached(8)

Progress == MainProgress + Passed + (IF exitCode = Running THEN 0 ELSE 1)

\* Nothing is done twice and nobody spins: each step brings the process closer to
\* its end, which is less than 11 * NumCases + 6 steps away.
EveryStepCounts ==
    [][Progress < Progress' /\ Progress' <= 11 * NumCases + 6]_vars

-----------------------------------------------------------------------------
(* The inductive invariant behind the safety properties.                   *)

\* The goroutines wg counts: spawned, Done not called yet.
Pending == {c \in Cases : wpc[c] \notin {"unborn", "ended"}}

\* The cases whose append took effect.
Appended == {c \in Cases : wpc[c] \in {"unlock", "release", "done", "ended"}
                            /\ c \notin panicking}

MainInv ==
    /\ \A c \in Cases : wpc[c] = "unborn" <=> c >= next
    /\ mpc = "start" => next = 1
    /\ mpc \in {"add", "acquire", "spawn"} => next <= NumCases
    /\ mpc \in {"wait", "report", "exit"} => next = NumCases + 1

SemInv == sem = Cardinality(Holders) + (IF mpc = "spawn" THEN 1 ELSE 0)

WgInv ==
    /\ wg = Cardinality(Pending)
            + (IF mpc \in {"acquire", "spawn"} THEN 1 ELSE 0)
    /\ mpc \in {"report", "exit"} => wg = 0

MutexInv ==
    \A c \in Cases : wpc[c] \in {"read", "write", "unlock"} <=> mu = c

ResultInv ==
    /\ resLen = Cardinality(Appended)
    /\ \A k \in 1..resLen : slots[k] \in Appended
    /\ \A c \in Appended : \E k \in 1..resLen : slots[k] = c
    /\ \A c \in Cases : wpc[c] = "write" => readLen[c] = resLen
    /\ \A c \in Cases :
          wpc[c] \notin {"unborn", "run"} /\ c \notin panicking
              => verdict[c] \in Verdicts
    /\ \A c \in panicking :
          MayPanic /\ wpc[c] \in {"release", "done", "ended"}

\* The exit status the main goroutine gives counts the results it has.
ExitInv ==
    /\ exitCode \in {0, 1} <=> mpc = "exit"
    /\ exitCode = 0 => \A c \in Cases \ panicking : verdict[c] = "PASS"
    /\ exitCode = 1 => \E c \in Cases \ panicking : verdict[c] \in {"FAIL", "ERROR"}
    /\ exitCode = 2 => panicking # {}

PoolInv ==
    /\ TypeOK
    /\ MainInv
    /\ SemInv
    /\ WgInv
    /\ MutexInv
    /\ ResultInv
    /\ ExitInv

-----------------------------------------------------------------------------
(* The pool implements the abstract schedule of CaseSchedule.tla.          *)

\* A case is active until its result is in the slice.
Active == {c \in Cases : wpc[c] \in {"run", "lock", "read", "write"}}

Schedule == INSTANCE CaseSchedule WITH
    waiting  <- {c \in Cases : wpc[c] = "unborn"},
    active   <- Active,
    free     <- MaxParallel - Cardinality(Active),
    reported <- {slots[k] : k \in 1..resLen},
    lost     <- panicking,
    outcome  <- [c \in Cases |-> IF c \in {slots[k] : k \in 1..resLen}
                                 THEN verdict[c] ELSE NoVerdict],
    exit     <- exitCode

\* Each case starts once and reports once or panics, no more than MaxParallel at a
\* time, and the process exits after the last report with the status it calls
\* for, or with status 2 after a panic.
ImplementsSchedule == Schedule!Spec
=============================================================================
