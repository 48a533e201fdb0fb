-------------------------- MODULE Invocation_proofs --------------------------
(***************************************************************************)
(* What holds when the executions of an invocation start, and what an exit *)
(* status 0 says, for every index, every test directory and all flags.     *)
(***************************************************************************)
EXTENDS Invocation, TLAPS

\* The inputs are what they were at the start.
InputsInv ==
    /\ \E c \in CommandLines : testID = c.testID
    /\ env \in Environments
    /\ index \in Indexes
    /\ tests \in TestDirs

\* What main has found out by the time it gets to a point.
CheckedInv ==
    /\ pc = "purge" => cfg.purge
    /\ pc \in {"validate", "load", "discover", "run"} => ~cfg.purge
    /\ pc \in {"load", "discover", "run"} => ConfigCoherent
    /\ pc \in {"discover", "run"} => \A k \in DOMAIN index : EntryCoherent(k)
    /\ pc \notin {"run", "exit"} => cases = NoCases
    /\ pc # "exit" => results = NoCases /\ panicked = {} /\ exitCode = Running

Selected ==
    /\ \A i \in Named : ByID(testID[i]) # {}
    /\ \A i \in DOMAIN Wanted : Loadable(Wanted[i])
    /\ Eligible # {}
    /\ cases = [i \in Eligible |-> index[Wanted[i]]]

InvocationInv ==
    /\ TypeOK
    /\ InputsInv
    /\ CheckedInv
    /\ pc = "run" => Selected
    /\ ZeroIsEarned

-----------------------------------------------------------------------------
(* The index.                                                              *)

LEMMA IndexTypes ==
    ASSUME InputsInv, NEW k \in DOMAIN index
    PROVE  k \in Nat /\ index[k] \in Entries
BY InvocationAssumption DEF InputsInv

\* In an index that passed Validate an id stands once.
LEMMA IdsUnique ==
    ASSUME InputsInv, \A k \in DOMAIN index : EntryCoherent(k),
           NEW j \in DOMAIN index, NEW k \in DOMAIN index,
           index[j].id = index[k].id
    PROVE  j = k
<1>1. j \in Nat /\ k \in Nat
  BY IndexTypes
<1>2. ~Repeated(j) /\ ~Repeated(k)
  BY DEF EntryCoherent
<1>3. ~(j < k) /\ ~(k < j)
  BY <1>2 DEF Repeated
<1> QED BY <1>1, <1>3

\* So DiscoverMany loads the only entry with the id.
LEMMA NamedEntry ==
    ASSUME InputsInv, \A k \in DOMAIN index : EntryCoherent(k),
           NEW i \in Named, NEW k \in ByID(testID[i])
    PROVE  i \in DOMAIN Wanted /\ Wanted[i] = k
<1> DEFINE First(x) == x \in ByID(testID[i]) /\ \A j \in ByID(testID[i]) : x <= j
<1>1. ByID(testID[i]) = {k}
  BY IdsUnique DEF ByID
<1>2. k \in Nat
  BY IndexTypes DEF ByID
<1>3. \E x \in ByID(testID[i]) : \A j \in ByID(testID[i]) : x <= j
  BY <1>1, <1>2
<1>4. (CHOOSE x \in ByID(testID[i]) : \A j \in ByID(testID[i]) : x <= j) = k
  BY <1>1, <1>3
<1>5. Named # {}
  OBVIOUS
<1> QED BY <1>4, <1>5 DEF Wanted

\* Every position that is wanted leads to an entry.
LEMMA WantedEntries ==
    ASSUME InputsInv, \A k \in DOMAIN index : EntryCoherent(k),
           \A i \in Named : ByID(testID[i]) # {}
    PROVE  \A i \in DOMAIN Wanted : Wanted[i] \in DOMAIN index
<1>1. CASE Named = {}
  BY <1>1 DEF Wanted
<1>2. CASE Named # {}
  <2> SUFFICES ASSUME NEW i \in Named PROVE Wanted[i] \in DOMAIN index
    BY <1>2 DEF Wanted
  <2>1. PICK k \in ByID(testID[i]) : TRUE
    OBVIOUS
  <2>2. Wanted[i] = k
    BY NamedEntry
  <2> QED BY <2>2 DEF ByID
<1> QED BY <1>1, <1>2

\* Every entry the user asked for is wanted.
LEMMA RequestedWanted ==
    ASSUME InputsInv, \A k \in DOMAIN index : EntryCoherent(k),
           \A i \in Named : ByID(testID[i]) # {},
           NEW id \in Requested
    PROVE  /\ ByID(id) # {}
           /\ \A k \in ByID(id) : \E i \in DOMAIN Wanted : Wanted[i] = k
<1>1. CASE Named = {}
  <2>1. \A i \in DOMAIN testID : testID[i] = Blank
    BY <1>1 DEF Named
  <2>2. PICK j \in DOMAIN index : id = index[j].id
    BY <2>1 DEF Requested
  <2>3. j \in ByID(id)
    BY <2>2 DEF ByID
  <2>4. Wanted = [x \in DOMAIN index |-> x]
    BY <1>1 DEF Wanted
  <2> QED BY <2>3, <2>4 DEF ByID
<1>2. CASE Named # {}
  <2>1. PICK i \in Named : id = testID[i]
    BY <1>2 DEF Requested, Named
  <2> QED BY <2>1, NamedEntry
<1> QED BY <1>1, <1>2

-----------------------------------------------------------------------------
(* The inductive invariant.                                                *)

LEMMA TypesAtFirst == Init => TypeOK
BY InvocationAssumption DEF Init, TypeOK, NoCases, Running

LEMMA InvAtFirst == Init => InvocationInv
<1> SUFFICES ASSUME Init PROVE InvocationInv
  OBVIOUS
<1>1. InputsInv
  BY DEF Init, InputsInv
<1>2. CheckedInv
  BY DEF Init, CheckedInv
<1>3. ZeroIsEarned
  BY DEF Init, ZeroIsEarned, Running
<1> QED BY <1>1, <1>2, <1>3, TypesAtFirst DEF InvocationInv, Init

\* The actions up to the validation.
LEMMA ConfigKeeps == InvocationInv /\ (FromEnv \/ RunPurge \/ Validate) => InvocationInv'
<1> SUFFICES ASSUME InvocationInv, FromEnv \/ RunPurge \/ Validate PROVE InvocationInv'
  OBVIOUS
<1> USE DEF inputs, outcome, Exit, Goto, Running
<1>1. InputsInv'
  BY DEF InvocationInv, InputsInv, FromEnv, RunPurge, Validate
<1>2. /\ cases' = cases /\ results' = results /\ panicked' = panicked
      /\ cases = NoCases /\ results = NoCases /\ panicked = {}
  BY DEF InvocationInv, CheckedInv, FromEnv, RunPurge, Validate
<1>3. CASE FromEnv
  <2>1. /\ env.token \in {"", "env"} /\ env.org \in {"", "env"} /\ env.host \in {"", "env"}
    BY InvocationAssumption DEF InvocationInv, InputsInv
  <2>2. cfg' \in ConfigType /\ cfg'.purge = cfg.purge
    BY <1>3, <2>1 DEF FromEnv, InvocationInv, TypeOK, ConfigType, Settings
  <2>3. TypeOK'
    BY <1>2, <1>3, <2>2 DEF FromEnv, InvocationInv, TypeOK
  <2>4. CheckedInv'
    BY <1>2, <1>3, <2>2 DEF FromEnv, InvocationInv, CheckedInv
  <2>5. ZeroIsEarned' /\ pc' # "run"
    BY <1>3 DEF FromEnv, InvocationInv, CheckedInv, ZeroIsEarned
  <2> QED BY <1>1, <2>3, <2>4, <2>5 DEF InvocationInv
<1>4. CASE RunPurge
  <2>1. cfg' = cfg /\ pc' = "exit" /\ exitCode' \in {0, 1} /\ cfg.purge
    BY <1>4 DEF RunPurge, InvocationInv, CheckedInv
  <2>2. TypeOK' /\ CheckedInv'
    BY <1>2, <2>1 DEF InvocationInv, TypeOK, CheckedInv
  <2>3. ZeroIsEarned'
    BY <2>1 DEF ZeroIsEarned
  <2> QED BY <1>1, <2>1, <2>2, <2>3 DEF InvocationInv
<1>5. CASE Validate
  <2>1. /\ cfg' = cfg /\ ~cfg.purge
        /\ \/ pc' = "load" /\ ConfigCoherent /\ exitCode' = exitCode
           \/ pc' = "exit" /\ exitCode' = 1
    BY <1>5 DEF Validate, InvocationInv, CheckedInv
  <2>2. exitCode = Running
    BY <1>5 DEF Validate, InvocationInv, CheckedInv
  <2>3. TypeOK'
    BY <1>2, <2>1 DEF InvocationInv, TypeOK
  <2>4. CheckedInv'
    BY <1>2, <2>1, <2>2 DEF CheckedInv, ConfigCoherent, HasCredentials
  <2>5. ZeroIsEarned'
    BY <2>1, <2>2 DEF ZeroIsEarned
  <2> QED BY <1>1, <2>1, <2>3, <2>4, <2>5 DEF InvocationInv
<1> QED BY <1>3, <1>4, <1>5

LEMMA LoadKeeps == InvocationInv /\ LoadIndex => InvocationInv'
<1> SUFFICES ASSUME InvocationInv, LoadIndex PROVE InvocationInv'
  OBVIOUS
<1> USE DEF inputs, outcome, Exit, Goto, Running
<1>1. /\ UNCHANGED <<inputs, cfg, cases, results, panicked>>
      /\ cases = NoCases /\ results = NoCases /\ panicked = {}
      /\ exitCode = Running /\ ~cfg.purge
      /\ ConfigCoherent
  BY DEF LoadIndex, InvocationInv, CheckedInv
<1>2. \/ pc' = "discover" /\ exitCode' = exitCode /\ \A k \in DOMAIN index : EntryCoherent(k)
      \/ pc' = "exit" /\ exitCode' = 1
  BY DEF LoadIndex
<1>3. InputsInv' /\ TypeOK'
  BY <1>1, <1>2 DEF InvocationInv, InputsInv, TypeOK
<1>4. ConfigCoherent'
  BY <1>1 DEF ConfigCoherent, HasCredentials
<1>5. (\A k \in DOMAIN index : EntryCoherent(k)) =>
         (\A k \in DOMAIN index : EntryCoherent(k))'
  BY <1>1 DEF EntryCoherent, Repeated, NoMainTF
<1>6. CheckedInv'
  BY <1>1, <1>2, <1>4, <1>5 DEF CheckedInv
<1>7. ZeroIsEarned'
  BY <1>1, <1>2 DEF ZeroIsEarned
<1> QED BY <1>2, <1>3, <1>6, <1>7 DEF InvocationInv

\* The inputs do not change, and what is defined of them neither.
LEMMA SameInputs ==
    ASSUME UNCHANGED <<inputs, cfg>>
    PROVE  /\ InputsInv => InputsInv'
           /\ ConfigCoherent' = ConfigCoherent
           /\ Named' = Named /\ Wanted' = Wanted /\ Eligible' = Eligible
           /\ Requested' = Requested
           /\ \A id : ByID(id)' = ByID(id)
           /\ \A k : EntryCoherent(k)' = EntryCoherent(k) /\ Loadable(k)' = Loadable(k)
           /\ \A e, p : Excused(e, p)' = Excused(e, p)
<1> USE DEF inputs
<1>1. InputsInv => InputsInv'
  BY DEF InputsInv
<1>2. ConfigCoherent' = ConfigCoherent
  BY DEF ConfigCoherent, HasCredentials
<1>3. Named' = Named /\ \A id : ByID(id)' = ByID(id)
  BY DEF Named, ByID
<1>4. Wanted' = Wanted
  BY <1>3 DEF Wanted, Named, ByID
<1>5. Eligible' = Eligible
  BY <1>4 DEF Eligible, NeedsCloudRun, HasMainTF
<1>6. Requested' = Requested
  BY DEF Requested
<1>7. \A k : EntryCoherent(k)' = EntryCoherent(k) /\ Loadable(k)' = Loadable(k)
  BY DEF EntryCoherent, Repeated, NoMainTF, Loadable
<1>8. \A e, p : Excused(e, p)' = Excused(e, p)
  BY DEF Excused, NeedsCloudRun, HasMainTF
<1> QED BY <1>1, <1>2, <1>3, <1>4, <1>5, <1>6, <1>7, <1>8

LEMMA DiscoverKeeps == InvocationInv /\ Discover => InvocationInv'
<1> SUFFICES ASSUME InvocationInv, Discover PROVE InvocationInv'
  OBVIOUS
<1> USE DEF outcome, Exit, Goto, Running
<1>1. /\ UNCHANGED <<inputs, cfg, results, panicked>>
      /\ cases = NoCases /\ results = NoCases /\ panicked = {}
      /\ exitCode = Running /\ ~cfg.purge
      /\ ConfigCoherent /\ InputsInv
      /\ \A k \in DOMAIN index : EntryCoherent(k)
  BY DEF Discover, InvocationInv, CheckedInv
<1>2. /\ InputsInv' /\ ConfigCoherent'
      /\ Named' = Named /\ Wanted' = Wanted /\ Eligible' = Eligible
      /\ index' = index
      /\ \A id : ByID(id)' = ByID(id)
      /\ \A k : EntryCoherent(k)' = EntryCoherent(k) /\ Loadable(k)' = Loadable(k)
  BY <1>1, SameInputs DEF inputs
<1>3. CASE pc' = "exit" /\ exitCode' = 1 /\ cases' = cases
  <2>1. TypeOK'
    BY <1>1, <1>3 DEF InvocationInv, TypeOK
  <2>2. CheckedInv' /\ ZeroIsEarned'
    BY <1>3 DEF CheckedInv, ZeroIsEarned
  <2> QED BY <1>2, <1>3, <2>1, <2>2 DEF InvocationInv
<1>4. CASE /\ \A i \in Named : ByID(testID[i]) # {}
           /\ \A i \in DOMAIN Wanted : Loadable(Wanted[i])
           /\ cases' = [i \in Eligible |-> index[Wanted[i]]]
           /\ \/ Eligible = {} /\ pc' = "exit" /\ exitCode' = 0
              \/ Eligible # {} /\ pc' = "run" /\ exitCode' = exitCode
  <2>1. \A i \in Eligible : index[Wanted[i]] \in Entries
    BY <1>1, <1>4, WantedEntries, IndexTypes DEF Eligible
  <2>2. TypeOK'
    BY <1>1, <1>4, <2>1 DEF InvocationInv, TypeOK, NoCases
  <2>3. CheckedInv'
    BY <1>1, <1>2, <1>4 DEF CheckedInv
  <2>4. pc' = "run" => Selected'
    BY <1>1, <1>2, <1>4 DEF Selected, inputs
  <2>5. ZeroIsEarned'
    <3>1. CASE Eligible = {}
      <4>1. ASSUME NEW id \in Requested
            PROVE  /\ ByID(id) # {}
                   /\ \A k \in ByID(id), p \in Levels : Excused(index[k], p)
        <5>1. ByID(id) # {}
          BY <1>1, <1>4, RequestedWanted
        <5>2. ASSUME NEW k \in ByID(id), NEW p \in Levels PROVE Excused(index[k], p)
          <6>1. PICK i \in DOMAIN Wanted : Wanted[i] = k
            BY <1>1, <1>4, RequestedWanted
          <6> QED BY <3>1, <6>1 DEF Eligible, Excused
        <5> QED BY <5>1, <5>2
      <4>2. Requested' = Requested /\ \A e, p : Excused(e, p)' = Excused(e, p)
        BY <1>1, SameInputs
      <4> QED BY <1>2, <4>1, <4>2 DEF ZeroIsEarned
    <3>2. CASE Eligible # {}
      BY <1>1, <1>4, <3>2 DEF ZeroIsEarned
    <3> QED BY <3>1, <3>2
  <2> QED BY <1>2, <2>2, <2>3, <2>4, <2>5 DEF InvocationInv
<1> QED BY <1>3, <1>4 DEF Discover

\* A level the index expects something of is executed, unless it is excused:
\* Validate saw to the main.tf.
LEMMA ExecutedOrExcused ==
    ASSUME InputsInv, NEW k \in DOMAIN index, EntryCoherent(k), Loadable(k),
           ~cfg.cloud \/ NeedsCloudRun(index[k]),
           NEW p \in Levels, index[k].expect[p] # "N/A"
    PROVE  p \in Executed(index[k]) \/ Excused(index[k], p)
<1>1. index[k].id \in Ids
  BY IndexTypes DEF Entries, EntryCoherent
<1>2. tests[index[k].id].mainTF \in Kinds /\ tests[index[k].id].kind = "dir"
  BY <1>1, InvocationAssumption DEF InputsInv, Loadable
<1>3. CASE p = "test" \/ cfg.cloud
  BY <1>3 DEF Executed, Levels
<1>4. CASE p # "test" /\ ~cfg.cloud
  <2>1. index[k].expect["plan"] # "N/A" \/ index[k].expect["apply"] # "N/A"
    BY <1>4 DEF Levels
  <2>2. tests[index[k].id].mainTF # "none"
    BY <1>2, <2>1 DEF EntryCoherent, NoMainTF
  <2>3. HasMainTF(index[k]) \/ tests[index[k].id].mainTF = "dir"
    BY <1>2, <2>2 DEF HasMainTF, Kinds
  <2> QED BY <1>4, <2>3 DEF Executed, Excused
<1> QED BY <1>3, <1>4

LEMMA RunKeeps == InvocationInv /\ (Run \/ CannotRun) => InvocationInv'
<1> SUFFICES ASSUME InvocationInv, Run \/ CannotRun PROVE InvocationInv'
  OBVIOUS
<1> USE DEF outcome, Exit, Running
<1>1. /\ UNCHANGED <<inputs, cfg, cases>> /\ pc' = "exit"
      /\ InputsInv /\ Selected /\ \A k \in DOMAIN index : EntryCoherent(k)
      /\ results = NoCases
  BY DEF Run, CannotRun, InvocationInv, CheckedInv
<1>2. /\ InputsInv' /\ Named' = Named /\ index' = index
      /\ Requested' = Requested
      /\ \A id : ByID(id)' = ByID(id)
      /\ \A e, p : Excused(e, p)' = Excused(e, p)
  BY <1>1, SameInputs DEF inputs
<1>3. CheckedInv'
  BY <1>1 DEF CheckedInv
<1>4. CASE CannotRun
  <2>1. TypeOK' /\ ZeroIsEarned'
    BY <1>1, <1>4 DEF CannotRun, InvocationInv, TypeOK, ZeroIsEarned
  <2> QED BY <1>1, <1>2, <1>3, <2>1 DEF InvocationInv
<1>5. CASE Run /\ exitCode' = 2
  <2>1. results' = results /\ panicked' # {} /\ panicked' \subseteq DOMAIN cases
    BY <1>5 DEF Run, MayPanic, Summary
  <2>2. TypeOK' /\ ZeroIsEarned'
    BY <1>1, <1>5, <2>1 DEF InvocationInv, TypeOK, ZeroIsEarned, NoCases
  <2> QED BY <1>1, <1>2, <1>3, <2>2 DEF InvocationInv
<1>6. CASE Run /\ exitCode' # 2
  <2>1. /\ panicked' \subseteq DOMAIN cases
        /\ results' \in [DOMAIN cases \ panicked' -> [Levels -> {"PASS", "FAIL", "SKIP"}]]
        /\ \A i \in DOMAIN cases \ panicked', p \in Levels :
              results'[i][p] \in Statuses(cases[i], p)
        /\ exitCode' = Summary(results')
    BY <1>6 DEF Run, MayPanic
  <2>2. TypeOK'
    BY <1>1, <2>1 DEF InvocationInv, TypeOK, Summary
  <2>3. ASSUME exitCode' = 0, NEW id \in Requested
        PROVE  /\ ByID(id) # {}
               /\ \A k \in ByID(id), p \in Levels :
                     index[k].expect[p] # "N/A" =>
                        \/ Excused(index[k], p)
                        \/ \E i \in DOMAIN results' :
                              cases[i] = index[k] /\ results'[i][p] = "PASS"
                        \/ \E i \in panicked' : cases[i] = index[k]
    <3>1. ByID(id) # {}
      BY <1>1, RequestedWanted DEF Selected
    <3>2. ASSUME NEW k \in ByID(id), NEW p \in Levels, index[k].expect[p] # "N/A",
                 ~Excused(index[k], p)
          PROVE  \/ \E i \in DOMAIN results' :
                       cases[i] = index[k] /\ results'[i][p] = "PASS"
                 \/ \E i \in panicked' : cases[i] = index[k]
      <4>1. PICK i \in DOMAIN Wanted : Wanted[i] = k
        BY <1>1, RequestedWanted DEF Selected
      <4>2. ~cfg.cloud \/ NeedsCloudRun(index[k])
        BY <3>2 DEF Excused
      <4>3. i \in DOMAIN cases /\ cases[i] = index[k]
        BY <1>1, <4>1, <4>2 DEF Selected, Eligible
      <4>4. CASE i \in panicked'
        BY <4>3, <4>4
      <4>5. CASE i \notin panicked'
        <5>1. p \in Executed(index[k])
          BY <1>1, <3>2, <4>1, <4>2, ExecutedOrExcused DEF Selected, ByID
        <5>2. results'[i][p] \in {"PASS", "FAIL"}
          BY <2>1, <4>3, <4>5, <5>1 DEF Statuses
        <5>3. i \in DOMAIN results' /\ results'[i][p] # "FAIL"
          BY <2>1, <2>3, <4>3, <4>5 DEF Summary, Passed
        <5> QED BY <4>3, <5>2, <5>3
      <4> QED BY <4>4, <4>5
    <3> QED BY <3>1, <3>2
  <2>4. ZeroIsEarned'
    BY <1>1, <1>2, <2>3 DEF ZeroIsEarned
  <2> QED BY <1>1, <1>2, <1>3, <2>2, <2>4 DEF InvocationInv
<1> QED BY <1>4, <1>5, <1>6

LEMMA InvKept == InvocationInv /\ [Next]_vars => InvocationInv'
<1>1. InvocationInv /\ UNCHANGED vars => InvocationInv'
  <2> SUFFICES ASSUME InvocationInv, UNCHANGED vars PROVE InvocationInv'
    OBVIOUS
  <2> USE DEF vars, outcome
  <2>1. TypeOK'
    BY DEF InvocationInv, TypeOK
  <2>2. InputsInv' /\ CheckedInv'
    BY SameInputs DEF InvocationInv, CheckedInv, inputs
  <2>3. pc' = "run" => Selected'
    BY SameInputs DEF InvocationInv, Selected, inputs
  <2>4. ZeroIsEarned'
    BY SameInputs DEF InvocationInv, ZeroIsEarned, inputs
  <2> QED BY <2>1, <2>2, <2>3, <2>4 DEF InvocationInv
<1> QED BY <1>1, ConfigKeeps, LoadKeeps, DiscoverKeeps, RunKeeps DEF Next

LEMMA InvocationInvariant == Spec => []InvocationInv
BY InvAtFirst, InvKept, PTL DEF Spec

-----------------------------------------------------------------------------
(* The theorems.                                                           *)

\* Every variable of Invocation keeps its type.
THEOREM InvocationTypes == Spec => []TypeOK
<1>1. InvocationInv => TypeOK
  BY DEF InvocationInv
<1> QED BY <1>1, InvocationInvariant, PTL

\* The pool, the executions and TriggerRun start with what they take for granted.
THEOREM PreconditionsHold == Spec => []RunnerPreconditions
<1>1. InvocationInv => RunnerPreconditions
  <2> SUFFICES ASSUME InvocationInv, pc = "run" PROVE RunnerPreconditions
    BY DEF RunnerPreconditions
  <2>1. InputsInv /\ Selected /\ (\A k \in DOMAIN index : EntryCoherent(k))
        /\ ~cfg.purge /\ ConfigCoherent
    BY DEF InvocationInv, CheckedInv
  <2>2. cases # NoCases
    <3>1. DOMAIN cases # {}
      BY <2>1 DEF Selected
    <3> QED BY <3>1 DEF NoCases
  <2>3. ASSUME NEW i \in DOMAIN cases
        PROVE  /\ tests[cases[i].id].kind = "dir"
               /\ cases[i].expect \in [Levels -> Expectations]
               /\ (cases[i].expect["plan"] # "N/A" \/ cases[i].expect["apply"] # "N/A")
                     => tests[cases[i].id].mainTF # "none"
    <3>1. i \in DOMAIN Wanted /\ cases[i] = index[Wanted[i]]
      BY <2>1 DEF Selected, Eligible
    <3>2. Wanted[i] \in DOMAIN index /\ Loadable(Wanted[i])
      BY <2>1, <3>1, WantedEntries DEF Selected
    <3>3. EntryCoherent(Wanted[i]) /\ index[Wanted[i]] \in Entries
      BY <2>1, <3>2, IndexTypes
    <3>4. cases[i].expect \in [Levels -> Expectations]
      BY <3>1, <3>3 DEF Entries, EntryCoherent
    <3> QED BY <3>1, <3>2, <3>3, <3>4 DEF Loadable, EntryCoherent, NoMainTF
  <2> QED BY <2>1, <2>2, <2>3 DEF RunnerPreconditions, ConfigCoherent
<1> QED BY <1>1, InvocationInvariant, PTL

\* Two executions of one invocation have different ids, unless one is named twice.
THEOREM DistinctExecutions == Spec => []ExecutionsDistinct
<1>1. InvocationInv => ExecutionsDistinct
  <2> SUFFICES ASSUME InvocationInv, pc = "run",
                      NEW i \in DOMAIN cases, NEW j \in DOMAIN cases,
                      i # j, cases[i].id = cases[j].id
               PROVE  Named # {} /\ testID[i] = testID[j]
    BY DEF ExecutionsDistinct
  <2>1. InputsInv /\ Selected /\ \A k \in DOMAIN index : EntryCoherent(k)
    BY DEF InvocationInv, CheckedInv
  <2>2. /\ i \in DOMAIN Wanted /\ j \in DOMAIN Wanted
        /\ index[Wanted[i]].id = index[Wanted[j]].id
    BY <2>1 DEF Selected, Eligible
  <2>3. Wanted[i] \in DOMAIN index /\ Wanted[j] \in DOMAIN index
    BY <2>1, <2>2, WantedEntries DEF Selected
  <2>4. Wanted[i] = Wanted[j]
    BY <2>1, <2>2, <2>3, IdsUnique
  <2>5. Named # {}
    BY <2>2, <2>4 DEF Wanted
  <2>6. ASSUME NEW x \in Named PROVE x \in DOMAIN Wanted /\ index[Wanted[x]].id = testID[x]
    <3>1. PICK k \in ByID(testID[x]) : TRUE
      BY <2>1 DEF Selected
    <3>2. x \in DOMAIN Wanted /\ Wanted[x] = k
      BY <2>1, NamedEntry
    <3> QED BY <3>2 DEF ByID
  <2>7. DOMAIN Wanted = Named
    BY <2>5 DEF Wanted
  <2> QED BY <2>2, <2>4, <2>5, <2>6, <2>7
<1> QED BY <1>1, InvocationInvariant, PTL

\* An exit status 0 means that every level expected of every case asked for ran
\* and passed, but for those the code lets go by and a case lost to a panic that
\* main was ahead of.
THEOREM ZeroEarned == Spec => []ZeroIsEarned
<1>1. InvocationInv => ZeroIsEarned
  BY DEF InvocationInv
<1> QED BY <1>1, InvocationInvariant, PTL
=============================================================================
