---------------------------- MODULE CaseSchedule ----------------------------
(***************************************************************************)
(* What the pool of main.go promises, without goroutines, channel or       *)
(* mutex: each case starts once, at most MaxParallel are active, each      *)
(* active case reports one outcome, and when all have reported the process *)
(* exits with the status the outcomes call for.  A case that panics        *)
(* reports nothing; from then on the process may exit with status 2 at any *)
(* time, but if it gets past the last report first, the status is that of  *)
(* the outcomes there are.                                                 *)
(***************************************************************************)
EXTENDS Integers

CONSTANTS NumCases, MaxParallel, MayPanic

Cases == 1..NumCases
Verdicts == {"PASS", "FAIL", "ERROR"}
NoVerdict == "none"
Running == -1

VARIABLES
    waiting,   \* cases that have not started
    active,    \* cases that have started and not reported
    free,      \* how many more cases may be active
    reported,  \* cases in the results
    lost,      \* cases that panicked
    outcome,   \* the outcome each case reported
    exit       \* exit status

vars == <<waiting, active, free, reported, lost, outcome, exit>>

Init ==
    /\ waiting = Cases
    /\ active = {}
    /\ free = MaxParallel
    /\ reported = {}
    /\ lost = {}
    /\ outcome = [c \in Cases |-> NoVerdict]
    /\ exit = Running

Start(c) ==
    /\ exit = Running
    /\ c \in waiting
    /\ free > 0
    /\ free' = free - 1
    /\ waiting' = waiting \ {c}
    /\ active' = active \cup {c}
    /\ UNCHANGED <<reported, lost, outcome, exit>>

ReportCase(c) ==
    /\ exit = Running
    /\ c \in active
    /\ active' = active \ {c}
    /\ free' = free + 1
    /\ reported' = reported \cup {c}
    /\ \E v \in Verdicts : outcome' = [outcome EXCEPT ![c] = v]
    /\ UNCHANGED <<waiting, lost, exit>>

\* The case panics.
Lose(c) ==
    /\ MayPanic
    /\ exit = Running
    /\ c \in active
    /\ active' = active \ {c}
    /\ free' = free + 1
    /\ lost' = lost \cup {c}
    /\ UNCHANGED <<waiting, reported, outcome, exit>>

Finish ==
    /\ exit = Running
    /\ reported \cup lost = Cases
    /\ exit' = IF \A c \in reported : outcome[c] = "PASS" THEN 0 ELSE 1
    /\ UNCHANGED <<waiting, active, free, reported, lost, outcome>>

\* A panic ends the process.
Die ==
    /\ exit = Running
    /\ lost # {}
    /\ exit' = 2
    /\ UNCHANGED <<waiting, active, free, reported, lost, outcome>>

Next ==
    \/ \E c \in Cases : Start(c) \/ ReportCase(c) \/ Lose(c)
    \/ Finish \/ Die

Fairness ==
    /\ \A c \in Cases : WF_vars(ReportCase(c) \/ Lose(c))
    /\ WF_vars(\E c \in Cases : Start(c))
    /\ WF_vars(Finish \/ Die)

Spec == Init /\ [][Next]_vars /\ Fairness
=============================================================================
