---------------------------- MODULE MCInvocation ----------------------------
(* Command lines, environments, indexes and directories for Invocation. *)
EXTENDS Invocation, Sequences

CONSTANTS a, b, c

DefaultConfig == [cloud |-> FALSE, skipTFP |-> FALSE, purge |-> FALSE,
                  parallel |-> 1, timeout |-> 1,
                  token |-> "", org |-> "default", host |-> "default"]

Lines(cfgs, lists) == {[cfg |-> x, testID |-> l] : x \in cfgs, l \in lists}

\* Every way to name cases in every mode; every way to get the rest wrong.
SomeCommandLines ==
    LET modes == {[DefaultConfig EXCEPT !.cloud = x, !.skipTFP = y,
                                        !.token = "flag"] :
                     x \in BOOLEAN, y \in BOOLEAN}
        wrong == [cloud : BOOLEAN, skipTFP : {FALSE}, purge : BOOLEAN,
                  parallel : {0, 1}, timeout : {0, 1}, token : {"", "flag"},
                  org : {"", "flag"}, host : {"default", "flag"}]
    IN  Lines(modes, {<<Blank>>, <<Blank, Blank>>, <<a>>, <<a, b>>, <<b, b>>,
                      <<a, Blank, c>>})
            \cup Lines(wrong, {<<Blank>>})

SomeEnvironments == {[token |-> "", org |-> "", host |-> ""],
                     [token |-> "env", org |-> "env", host |-> "env"]}

Entry(id, test, plan, apply) ==
    [id |-> id, expect |-> [p \in Levels |-> CASE p = "test" -> test
                                               [] p = "plan" -> plan
                                               [] p = "apply" -> apply]]

SomeIndexes ==
    {<<>>,
     <<Entry(a, "PASS", "N/A", "N/A")>>,
     <<Entry(a, "PASS", "UNKNOWN", "FAIL"), Entry(b, "N/A", "N/A", "PASS")>>,
     <<Entry(a, "VALIDATION_ERROR", "N/A", "N/A"), Entry(b, "FAIL", "PASS", "N/A")>>,
     <<Entry(b, "PASS", "N/A", "N/A"), Entry(a, "N/A", "VALIDATION_ERROR", "N/A")>>,
     <<Entry(a, "PASS", "N/A", "N/A"), Entry(a, "FAIL", "N/A", "N/A")>>,
     <<Entry(Blank, "PASS", "N/A", "N/A")>>,
     <<Entry(a, "invalid", "N/A", "N/A")>>}

\* b has what it needs; of a and its main.tf anything.
SomeTestDirs ==
    {[x \in Ids |->
         IF x = a THEN [kind |-> k, mainTF |-> IF k = "dir" THEN m ELSE "none"]
         ELSE [kind |-> "dir", mainTF |-> "file"]] :
        k \in Kinds, m \in Kinds}
=============================================================================
