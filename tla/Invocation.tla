----------------------------- MODULE Invocation -----------------------------
(***************************************************************************)
(* One invocation of cloud-runner, from the flags to the exit status: main *)
(* of main.go with config.FromEnv and Validate, index.Load and Validate,   *)
(* the discovery of internal/testcase, and what runLocal, runCloud and     *)
(* runPurge make of the outcome.  It says which executions the modules     *)
(* WorkerPool, LocalRun and CloudLifecycle are given, and what may be      *)
(* assumed of them; what happens inside is left open here.                 *)
(*                                                                         *)
(* index.yml and the test directory do not change during the invocation.   *)
(* VCS_REPO, VCS_BRANCH and the paths of the programs are treated as the   *)
(* host is, TF_POLICY_PLUGIN as the token.                                 *)
(***************************************************************************)
EXTENDS Integers, FiniteSets

CONSTANTS
    Ids,           \* names of test cases
    Blank,         \* the empty string in the place of a name
    CommandLines,  \* the flags
    Environments,  \* TFE_TOKEN, TFE_ORG, TFE_HOST; "" if not set
    Indexes,       \* contents of index.yml: sequences of entries
    TestDirs       \* what there is under tests/ for each name

Levels == {"test", "plan", "apply"}
Expectations == {"PASS", "FAIL", "UNKNOWN", "N/A", "VALIDATION_ERROR",
                 "ERROR_CONTAINS"}

\* "invalid" stands for any other value, a missing field included.
Entries == [id : Ids \cup {Blank},
            expect : [Levels -> Expectations \cup {"invalid"}]]

Settings == {"", "default", "flag", "env"}
ConfigType == [cloud : BOOLEAN, skipTFP : BOOLEAN, purge : BOOLEAN,
               parallel : Int, timeout : Int,
               token : Settings, org : Settings, host : Settings]

\* tests/<id> and its main.tf, which may be directories or files.
Kinds == {"none", "file", "dir"}

ASSUME InvocationAssumption ==
    /\ Blank \notin Ids
    /\ \A c \in CommandLines :
          /\ c.cfg \in ConfigType
          /\ \A i \in DOMAIN c.testID : c.testID[i] \in Ids \cup {Blank}
    /\ Environments \subseteq
          [token : {"", "env"}, org : {"", "env"}, host : {"", "env"}]
    /\ \A x \in Indexes :
          DOMAIN x \subseteq Nat /\ \A k \in DOMAIN x : x[k] \in Entries
    /\ TestDirs \subseteq [Ids -> [kind : Kinds, mainTF : Kinds]]

VARIABLES
    pc,        \* where main is
    testID,    \* --test-id, split at the commas
    env,       \* the environment
    index,     \* index.yml
    tests,     \* the test directory
    cfg,       \* the configuration
    cases,     \* the selected cases, by position
    results,   \* the status of each level of each case
    panicked,  \* the cases whose goroutine panicked (nothing in the code knows)
    exitCode

inputs == <<testID, env, index, tests>>
outcome == <<results, panicked>>
vars == <<pc, inputs, cfg, cases, outcome, exitCode>>

Running == -1
NoCases == [i \in {} |-> 0]

Init ==
    /\ pc = "flags"
    /\ \E c \in CommandLines : testID = c.testID /\ cfg = c.cfg
    /\ env \in Environments
    /\ index \in Indexes
    /\ tests \in TestDirs
    /\ cases = NoCases
    /\ results = NoCases
    /\ panicked = {}
    /\ exitCode = Running

Exit(code) == pc' = "exit" /\ exitCode' = code
Goto(point) == pc' = point /\ exitCode' = exitCode

-----------------------------------------------------------------------------
(* Configuration.                                                          *)

\* TFE_TOKEN and TFE_ORG replace the flags, TFE_HOST only the default.
FromEnv ==
    /\ pc = "flags"
    /\ cfg' = [cfg EXCEPT
          !.token = IF env.token # "" THEN env.token ELSE @,
          !.org   = IF env.org # "" THEN env.org ELSE @,
          !.host  = IF env.host # "" /\ @ = "default" THEN env.host ELSE @]
    /\ Goto(IF cfg.purge THEN "purge" ELSE "validate")
    /\ UNCHANGED <<inputs, cases, outcome>>

HasCredentials == cfg.token # "" /\ cfg.org # ""

\* ValidateForPurge, and what Purge.tla says of the exit status.
RunPurge ==
    /\ pc = "purge"
    /\ \/ HasCredentials /\ \E code \in {0, 1} : Exit(code)
       \/ ~HasCredentials /\ Exit(1)
    /\ UNCHANGED <<inputs, cfg, cases, outcome>>

\* Mutant: --parallel 0 goes through.
ConfigCoherentButZero ==
    /\ cfg.parallel >= 0
    /\ cfg.cloud => HasCredentials /\ cfg.timeout >= 1

ConfigCoherent ==
    /\ cfg.parallel >= 1
    /\ cfg.cloud => HasCredentials /\ cfg.timeout >= 1

Validate ==
    /\ pc = "validate"
    /\ IF ConfigCoherent THEN Goto("load") ELSE Exit(1)
    /\ UNCHANGED <<inputs, cfg, cases, outcome>>

-----------------------------------------------------------------------------
(* The index.                                                              *)

\* os.Stat says that main.tf does not exist (under a file it says otherwise).
NoMainTF(id) ==
    tests[id].kind = "none" \/ (tests[id].kind = "dir" /\ tests[id].mainTF = "none")

Repeated(k) == \E j \in DOMAIN index : j < k /\ index[j].id = index[k].id

\* Mutant: a second entry with an id is not looked for.
EntryCoherentAlone(k) ==
    /\ index[k].id # Blank
    /\ \A p \in Levels : index[k].expect[p] \in Expectations
    /\ \/ index[k].expect["plan"] = "N/A" /\ index[k].expect["apply"] = "N/A"
       \/ ~NoMainTF(index[k].id)
    /\ tests[index[k].id].kind # "none"

\* Mutant: main.tf is asked for only if both levels are to run.
EntryCoherentIfBoth(k) ==
    /\ index[k].id # Blank
    /\ ~Repeated(k)
    /\ \A p \in Levels : index[k].expect[p] \in Expectations
    /\ \/ index[k].expect["plan"] = "N/A" \/ index[k].expect["apply"] = "N/A"
       \/ ~NoMainTF(index[k].id)
    /\ tests[index[k].id].kind # "none"

\* What Index.Validate demands of an entry.
EntryCoherent(k) ==
    /\ index[k].id # Blank
    /\ ~Repeated(k)
    /\ \A p \in Levels : index[k].expect[p] \in Expectations
    /\ \/ index[k].expect["plan"] = "N/A" /\ index[k].expect["apply"] = "N/A"
       \/ ~NoMainTF(index[k].id)
    /\ tests[index[k].id].kind # "none"

\* The file may be unreadable, too.
LoadIndex ==
    /\ pc = "load"
    /\ \/ (\A k \in DOMAIN index : EntryCoherent(k)) /\ Goto("discover")
       \/ (\E k \in DOMAIN index : ~EntryCoherent(k)) /\ Exit(1)
       \/ Exit(1)
    /\ UNCHANGED <<inputs, cfg, cases, outcome>>

-----------------------------------------------------------------------------
(* Discovery.                                                              *)

\* The positions TestIDs leaves: with none, not even in "--test-id ,", all
\* entries are run.
Named == {i \in DOMAIN testID : testID[i] # Blank}

ByID(id) == {k \in DOMAIN index : index[k].id = id}

\* fromIndex: ReadDir of the directory must work; only a file is a main.tf.
Loadable(k) == tests[index[k].id].kind = "dir"
HasMainTF(entry) == tests[entry.id].mainTF = "file"

NeedsCloudRun(entry) ==
    /\ HasMainTF(entry)
    /\ entry.expect["plan"] # "N/A" \/ entry.expect["apply"] # "N/A"

\* The entries to load, by position: DiscoverMany takes the first with the id.
Wanted ==
    IF Named = {} THEN [k \in DOMAIN index |-> k]
    ELSE [i \in Named |-> CHOOSE k \in ByID(testID[i]) :
                             \A j \in ByID(testID[i]) : k <= j]

\* Runs in the mode at hand: the cloud mode leaves out the other cases.
Eligible == {i \in DOMAIN Wanted : ~cfg.cloud \/ NeedsCloudRun(index[Wanted[i]])}

Discover ==
    /\ pc = "discover"
    /\ IF \/ \E i \in Named : ByID(testID[i]) = {}
          \/ \E i \in DOMAIN Wanted : ~Loadable(Wanted[i])
       THEN Exit(1) /\ cases' = cases
       ELSE /\ cases' = [i \in Eligible |-> index[Wanted[i]]]
            /\ IF Eligible = {} THEN Exit(0) ELSE Goto("run")
    /\ UNCHANGED <<inputs, cfg, outcome>>

-----------------------------------------------------------------------------
(* The executions.                                                         *)

\* LocalRun skips plan and apply with --skip-tfp or without main.tf.
Executed(entry) ==
    {p \in Levels :
        /\ entry.expect[p] # "N/A"
        /\ p = "test" \/ cfg.cloud \/ (~cfg.skipTFP /\ HasMainTF(entry))}

\* VALIDATION_ERROR is met by no plan and no apply.  ERROR, of a level or of the
\* whole execution, is not told from FAIL.
Statuses(entry, p) ==
    IF p \notin Executed(entry) THEN {"SKIP"}
    ELSE IF entry.expect[p] = "VALIDATION_ERROR" /\ p # "test" THEN {"FAIL"}
    ELSE {"PASS", "FAIL"}

Passed(status) == \A p \in Levels : status[p] # "FAIL"

\* Mutant: the number of failures is the exit status.
StatusIsCount(res) == Cardinality({i \in DOMAIN res : ~Passed(res[i])})

\* printLocalResults, printCloudSummary
Summary(res) == IF \A i \in DOMAIN res : Passed(res[i]) THEN 0 ELSE 1

\* UploadConfig dereferences a nil pointer if the configuration version cannot be
\* read.  Nothing recovers: the program dies with status 2.
MayPanic == IF cfg.cloud THEN SUBSET DOMAIN cases ELSE {{}}

\* The pool runs the cases and reports all that did not panic (WorkerPool,
\* ResultsComplete).  The deferred wg.Done of a goroutine that panics lets main go
\* on, and it may end before the panic has ended the program (ExitHonest).
Run ==
    /\ pc = "run"
    /\ panicked' \in MayPanic
    /\ \/ /\ results' \in {r \in [DOMAIN cases \ panicked' ->
                                    [Levels -> {"PASS", "FAIL", "SKIP"}]] :
                             \A i \in DOMAIN r, p \in Levels :
                                r[i][p] \in Statuses(cases[i], p)}
          /\ Exit(Summary(results'))
       \/ panicked' # {} /\ results' = results /\ Exit(2)
    /\ UNCHANGED <<inputs, cfg, cases>>

\* LookupProjectID, or the directory for the logs, is not to be had.
CannotRun ==
    /\ pc = "run"
    /\ Exit(1)
    /\ UNCHANGED <<inputs, cfg, cases, outcome>>

Next ==
    \/ FromEnv
    \/ RunPurge
    \/ Validate
    \/ LoadIndex
    \/ Discover
    \/ Run
    \/ CannotRun

Spec == Init /\ [][Next]_vars

-----------------------------------------------------------------------------
(* Properties.                                                             *)

\* Types of the variables that change.
TypeOK ==
    /\ pc \in {"flags", "purge", "validate", "load", "discover", "run", "exit"}
    /\ cfg \in ConfigType
    /\ \A i \in DOMAIN cases : cases[i] \in Entries
    /\ panicked \subseteq DOMAIN cases
    /\ DOMAIN results \subseteq DOMAIN cases \ panicked
    /\ \A i \in DOMAIN results : results[i] \in [Levels -> {"PASS", "FAIL", "SKIP"}]
    /\ exitCode \in {Running, 0, 1} \cup (IF panicked = {} THEN {} ELSE {2})

\* What the pool, the executions and TriggerRun take for granted when they start:
\* a channel with room, credentials and a deadline, and of each case a directory,
\* expectations that are known, and a main.tf if a level asks for one.
RunnerPreconditions ==
    pc = "run" =>
        /\ ~cfg.purge
        /\ cfg.parallel >= 1 /\ cases # NoCases
        /\ cfg.cloud => HasCredentials /\ cfg.timeout >= 1
        /\ \A i \in DOMAIN cases :
              /\ tests[cases[i].id].kind = "dir"
              /\ cases[i].expect \in [Levels -> Expectations]
              /\ (cases[i].expect["plan"] # "N/A" \/ cases[i].expect["apply"] # "N/A")
                    => tests[cases[i].id].mainTF # "none"

\* Two executions of one invocation have different ids, hence different names for
\* workspace, policy set and logs, unless the user named an id twice.
ExecutionsDistinct ==
    pc = "run" =>
        \A i, j \in DOMAIN cases :
            i # j /\ cases[i].id = cases[j].id
                => Named # {} /\ testID[i] = testID[j]

\* The ids the user asked for, and where the code lets a level of one go by
\* without a word.
Requested ==
    IF \A i \in DOMAIN testID : testID[i] = Blank
    THEN {index[k].id : k \in DOMAIN index}
    ELSE {testID[i] : i \in DOMAIN testID} \ {Blank}

Excused(entry, p) ==
    \/ cfg.cloud /\ ~NeedsCloudRun(entry)
    \/ ~cfg.cloud /\ p # "test" /\ (cfg.skipTFP \/ tests[entry.id].mainTF = "dir")

\* README.md:34 and cloud-runner/README.md:152.  An exit status 0 means that each
\* case asked for is in the index and that every level the index expects something
\* of ran and passed.  Left out are only plan and apply with --skip-tfp or if
\* main.tf is a directory, in cloud mode the cases that need no cloud run, and a
\* case whose goroutine panicked when main was ahead of the panic.
ZeroIsEarned ==
    exitCode = 0 /\ ~cfg.purge =>
        \A id \in Requested :
            /\ ByID(id) # {}
            /\ \A k \in ByID(id), p \in Levels :
                  index[k].expect[p] # "N/A" =>
                     \/ Excused(index[k], p)
                     \/ \E i \in DOMAIN results :
                           cases[i] = index[k] /\ results[i][p] = "PASS"
                     \/ \E i \in panicked : cases[i] = index[k]
=============================================================================
