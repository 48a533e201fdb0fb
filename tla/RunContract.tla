----------------------------- MODULE RunContract -----------------------------
(***************************************************************************)
(* What TriggerRun promises to lifecycle.go: a run moves through its        *)
(* phases, and at some point the call returns a FinalStatus that            *)
(* FinalPhases allows.  TriggerRun.tla implements it; CloudLifecycle.tla    *)
(* is built on the same operators.                                          *)
(***************************************************************************)
EXTENDS RunStatus

VARIABLES
    needsApply,  \* the argument applyIfAllowed
    run,         \* phase of the run
    returned,    \* TriggerRun has returned
    final        \* Phase of its FinalStatus

vars == <<needsApply, run, returned, final>>

Init ==
    /\ needsApply \in BOOLEAN
    /\ run = "planning"
    /\ returned = FALSE
    /\ final = NoStatus

RunMoves ==
    /\ run' \in NextPhases(run)
    /\ UNCHANGED <<needsApply, returned, final>>

Returns ==
    /\ ~returned
    /\ returned' = TRUE
    /\ final' \in FinalPhases(needsApply, run)
    /\ UNCHANGED <<needsApply, run>>

\* The confirmation is taken and its answer lost.
ReturnsWhileConfirming ==
    /\ ~returned
    /\ run = "planned"
    /\ run' = "applying"
    /\ returned' = TRUE
    /\ final' = "planned"
    /\ UNCHANGED needsApply

Next == RunMoves \/ Returns \/ ReturnsWhileConfirming

Spec == Init /\ [][Next]_vars /\ WF_vars(Returns)
=============================================================================
