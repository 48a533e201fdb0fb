---------------------------- MODULE MCLocalRun ----------------------------
(* Test cases for the runs of LocalRun. *)
EXTENDS LocalRun

Case(test, plan, apply) ==
    [test |-> test, plan |-> plan, apply |-> apply,
     mainTF |-> plan # "N/A" \/ apply # "N/A", plugin |-> FALSE, vars |-> 0]

\* By policies alone, by init and apply alone, with a plugin, and with values no
\* level makes sense of.
SomeTestCases ==
    {Case("N/A", "UNKNOWN", "FAIL"),
     Case("N/A", "N/A", "PASS"),
     [Case("N/A", "N/A", "FAIL") EXCEPT !.plugin = TRUE],
     Case("VALIDATION_ERROR", "N/A", "N/A"),
     [Case("ERROR_CONTAINS", "VALIDATION_ERROR", "N/A") EXCEPT !.vars = 2]}
=============================================================================
