-------------------------- MODULE MCCloudLifecycle --------------------------
(* Executions for the runs of CloudLifecycle. *)
EXTENDS CloudLifecycle

CONSTANTS e1, e2, e3, c1, c2

\* Two invocations of one case.
Successive == {e1, e2}
SuccessiveCaseOf == [e \in Successive |-> c1]

\* Two invocations of one case, and another case beside them.
Beside == {e1, e2, e3}
BesideCaseOf == [e \in Beside |-> IF e = e3 THEN c2 ELSE c1]

=============================================================================
