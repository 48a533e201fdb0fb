-------------------------- MODULE WorkerPool_proofs --------------------------
(***************************************************************************)
(* Proofs about WorkerPool, for any number of cases and any --parallel.    *)
(***************************************************************************)
EXTENDS WorkerPool, FiniteSetTheorems, TLAPS

USE NumCasesAssumption, MaxParallelAssumption, MayPanicAssumption

(* The subsets of Cases that the counters count are finite.                *)
LEMMA CasesFinite ==
    /\ IsFiniteSet(Cases)
    /\ Cardinality(Cases) = NumCases
BY FS_Interval DEF Cases

LEMMA CountedFinite ==
    ASSUME NEW S \in SUBSET Cases
    PROVE  /\ IsFiniteSet(S)
           /\ Cardinality(S) \in 0..NumCases
           /\ Cardinality(S) = NumCases => S = Cases
<1>1. IsFiniteSet(S) /\ Cardinality(S) <= NumCases
      /\ (Cardinality(S) = NumCases => S = Cases)
  BY FS_Subset, CasesFinite
<1>2. Cardinality(S) \in Nat
  BY <1>1, FS_CardinalityType
<1>. QED
  BY <1>1, <1>2

(* Adding a case to a counted set, or removing one, moves its count by one. *)
LEMMA CountAdd ==
    ASSUME NEW S \in SUBSET Cases, NEW c \in Cases, c \notin S
    PROVE  Cardinality(S \cup {c}) = Cardinality(S) + 1
BY CountedFinite, FS_AddElement

LEMMA CountRemove ==
    ASSUME NEW S \in SUBSET Cases, NEW c \in S
    PROVE  Cardinality(S \ {c}) = Cardinality(S) - 1
BY CountedFinite, FS_RemoveElement

LEMMA Counts ==
    /\ IsFiniteSet(Holders) /\ Cardinality(Holders) \in 0..NumCases
    /\ IsFiniteSet(Pending) /\ Cardinality(Pending) \in 0..NumCases
    /\ IsFiniteSet(Appended) /\ Cardinality(Appended) \in 0..NumCases
    /\ Cardinality(Pending) = 0 => Pending = {}
<1>1. Holders \in SUBSET Cases /\ Pending \in SUBSET Cases
      /\ Appended \in SUBSET Cases
  BY DEF Holders, Pending, Appended
<1>. QED
  BY <1>1, CountedFinite, FS_EmptySet

-----------------------------------------------------------------------------
(* Steps of the main goroutine.                                            *)

LEMMA InitInv == Init => PoolInv
<1>. SUFFICES ASSUME Init PROVE PoolInv
  OBVIOUS
<1>1. TypeOK
  BY DEF Init, TypeOK, MainPoints, WorkerPoints, Cases
<1>2. MainInv /\ MutexInv /\ ExitInv
  BY DEF Init, MainInv, MutexInv, ExitInv, Cases, NoCase, Running
<1>3. Holders = {} /\ Pending = {} /\ Appended = {}
  BY DEF Init, Holders, Pending, Appended
<1>4. SemInv /\ WgInv /\ ResultInv
  BY <1>3, FS_EmptySet DEF Init, SemInv, WgInv, ResultInv
<1>. QED
  BY <1>1, <1>2, <1>4 DEF PoolInv

LEMMA BeginInv == PoolInv /\ exitCode = Running /\ Begin => PoolInv'
<1>. SUFFICES ASSUME PoolInv, exitCode = Running, Begin PROVE PoolInv'
  OBVIOUS
<1>. USE DEF PoolInv, Begin
<1>1. TypeOK'
  BY DEF TypeOK, MainPoints
<1>2. MainInv' /\ MutexInv'
  BY DEF TypeOK, MainInv, MutexInv, Cases
<1>3. Holders' = Holders /\ Pending' = Pending /\ Appended' = Appended
  BY DEF Holders, Pending, Appended
<1>4. SemInv' /\ ResultInv'
  BY <1>3 DEF SemInv, ResultInv
<1>5. Pending = {}
  BY DEF MainInv, TypeOK, Pending, Cases
<1>6. WgInv'
  BY <1>3, <1>5, FS_EmptySet DEF WgInv
<1>7. ExitInv'
  <2>1. CASE NumCases = 0
    <3>1. Cases = {}
      BY <2>1 DEF Cases
    <3>. QED
      BY <2>1, <3>1 DEF ExitInv
  <2>2. CASE NumCases # 0
    BY <2>2 DEF ExitInv, Running
  <2>. QED
    BY <2>1, <2>2
<1>. QED
  BY <1>1, <1>2, <1>4, <1>6, <1>7

LEMMA AddInv == PoolInv /\ exitCode = Running /\ Add => PoolInv'
<1>. SUFFICES ASSUME PoolInv, exitCode = Running, Add PROVE PoolInv'
  OBVIOUS
<1>. USE DEF PoolInv, Add
<1>1. Holders' = Holders /\ Pending' = Pending /\ Appended' = Appended
  BY DEF Holders, Pending, Appended
<1>2. next \in Cases /\ next \notin Pending
  BY DEF MainInv, TypeOK, Pending, Cases
<1>3. Cardinality(Pending) + 1 <= NumCases
  <2>1. Cardinality(Pending \cup {next}) = Cardinality(Pending) + 1
    BY <1>2, CountAdd DEF Pending
  <2>2. Cardinality(Pending \cup {next}) \in 0..NumCases
    BY <1>2, CountedFinite DEF Pending
  <2>. QED
    BY <2>1, <2>2, Counts
<1>4. WgInv'
  BY <1>1, Counts DEF WgInv
<1>5. TypeOK'
  BY <1>3, Counts DEF TypeOK, MainPoints, WgInv
<1>6. MainInv' /\ MutexInv' /\ ExitInv'
  BY DEF TypeOK, MainInv, MutexInv, ExitInv, Running
<1>7. SemInv' /\ ResultInv'
  BY <1>1 DEF SemInv, ResultInv
<1>. QED
  BY <1>4, <1>5, <1>6, <1>7

LEMMA AcquireInv == PoolInv /\ exitCode = Running /\ Acquire => PoolInv'
<1>. SUFFICES ASSUME PoolInv, exitCode = Running, Acquire PROVE PoolInv'
  OBVIOUS
<1>. USE DEF PoolInv, Acquire
<1>1. Holders' = Holders /\ Pending' = Pending /\ Appended' = Appended
  BY DEF Holders, Pending, Appended
<1>2. TypeOK'
  BY DEF TypeOK, MainPoints
<1>3. SemInv' /\ WgInv'
  BY <1>1, Counts DEF SemInv, WgInv
<1>4. MainInv' /\ MutexInv' /\ ExitInv'
  BY DEF TypeOK, MainInv, MutexInv, ExitInv, Running
<1>5. ResultInv'
  BY <1>1 DEF ResultInv
<1>. QED
  BY <1>2, <1>3, <1>4, <1>5

LEMMA SpawnInv == PoolInv /\ exitCode = Running /\ Spawn => PoolInv'
<1>. SUFFICES ASSUME PoolInv, exitCode = Running, Spawn PROVE PoolInv'
  OBVIOUS
<1>. USE DEF PoolInv, Spawn
<1>1. next \in Cases /\ wpc[next] = "unborn"
  BY DEF MainInv, TypeOK, Cases
<1>2. TypeOK'
  BY <1>1 DEF TypeOK, MainPoints, WorkerPoints, Cases
<1>3. MainInv'
  BY <1>1 DEF MainInv, TypeOK, Cases
<1>4. MutexInv' /\ ExitInv'
  BY <1>1 DEF MutexInv, ExitInv, TypeOK, Running
<1>5. Holders' = Holders \cup {next} /\ next \notin Holders
  BY <1>1 DEF Holders, TypeOK
<1>6. Pending' = Pending \cup {next} /\ next \notin Pending
  BY <1>1 DEF Pending, TypeOK
<1>7. Appended' = Appended
  BY <1>1 DEF Appended, TypeOK
<1>8. SemInv'
  BY <1>1, <1>5, CountAdd, Counts DEF SemInv, Holders
<1>9. WgInv'
  BY <1>1, <1>6, CountAdd, Counts DEF WgInv, Pending
<1>10. ResultInv'
  BY <1>1, <1>7 DEF ResultInv, TypeOK
<1>. QED
  BY <1>2, <1>3, <1>4, <1>8, <1>9, <1>10

LEMMA WaitReturnsInv == PoolInv /\ exitCode = Running /\ WaitReturns => PoolInv'
<1>. SUFFICES ASSUME PoolInv, exitCode = Running, WaitReturns PROVE PoolInv'
  OBVIOUS
<1>. USE DEF PoolInv, WaitReturns
<1>1. Holders' = Holders /\ Pending' = Pending /\ Appended' = Appended
  BY DEF Holders, Pending, Appended
<1>2. TypeOK'
  BY DEF TypeOK, MainPoints
<1>3. MainInv' /\ MutexInv' /\ ExitInv'
  BY DEF TypeOK, MainInv, MutexInv, ExitInv, Running
<1>4. SemInv' /\ WgInv' /\ ResultInv'
  BY <1>1 DEF SemInv, WgInv, ResultInv
<1>. QED
  BY <1>2, <1>3, <1>4

(* When the counter of the WaitGroup is back to 0 after the loop, every     *)
(* goroutine has ended, so the results are those of the cases that did not  *)
(* panic.                                                                  *)
LEMMA AllEnded ==
    ASSUME PoolInv, mpc = "report"
    PROVE  /\ \A c \in Cases : wpc[c] = "ended"
           /\ Appended = Cases \ panicking
<1>. USE DEF PoolInv
<1>1. Pending = {}
  BY Counts DEF WgInv
<1>2. \A c \in Cases : wpc[c] = "ended"
  <2>. SUFFICES ASSUME NEW c \in Cases PROVE wpc[c] = "ended"
    OBVIOUS
  <2>1. next = NumCases + 1 /\ c \in Int /\ c <= NumCases
    BY DEF MainInv, Cases
  <2>2. wpc[c] # "unborn"
    BY <2>1 DEF MainInv
  <2>. QED
    BY <1>1, <2>2 DEF Pending
<1>. QED
  BY <1>2 DEF Appended

LEMMA ReportInv == PoolInv /\ exitCode = Running /\ Report => PoolInv'
<1>. SUFFICES ASSUME PoolInv, exitCode = Running, Report PROVE PoolInv'
  OBVIOUS
<1>. USE DEF PoolInv, Report
<1>1. Holders' = Holders /\ Pending' = Pending /\ Appended' = Appended
  BY DEF Holders, Pending, Appended
<1>2. TypeOK'
  BY DEF TypeOK, MainPoints
<1>3. MainInv' /\ MutexInv'
  BY DEF TypeOK, MainInv, MutexInv
<1>4. SemInv' /\ WgInv' /\ ResultInv'
  BY <1>1 DEF SemInv, WgInv, ResultInv
<1>5. ExitInv'
  <2>1. CASE NotPassed # {}
    <3>1. PICK k \in 1..resLen : verdict[slots[k]] # "PASS"
      BY <2>1 DEF NotPassed
    <3>2. slots[k] \in Appended
      BY <3>1 DEF ResultInv
    <3>3. verdict[slots[k]] \in Verdicts
      BY <3>2 DEF ResultInv, Appended
    <3>. QED
      BY <2>1, <3>1, <3>2, <3>3 DEF ExitInv, Verdicts, Appended
  <2>2. CASE NotPassed = {}
    <3>1. \A c \in Appended : verdict[c] = "PASS"
      BY <2>2 DEF NotPassed, ResultInv
    <3>. QED
      BY <2>2, <3>1, AllEnded DEF ExitInv
  <2>. QED
    BY <2>1, <2>2
<1>. QED
  BY <1>2, <1>3, <1>4, <1>5
-----------------------------------------------------------------------------
(* Steps of the goroutine of a case.                                       *)

LEMMA RunReturnsInv ==
    ASSUME PoolInv, exitCode = Running, NEW c \in Cases, RunReturns(c)
    PROVE  PoolInv'
<1>. USE DEF PoolInv, RunReturns, Goto
<1>1. Holders' = Holders /\ Pending' = Pending /\ Appended' = Appended
  BY DEF Holders, Pending, Appended, TypeOK
<1>2. TypeOK'
  BY DEF TypeOK, WorkerPoints
<1>3. MainInv' /\ MutexInv' /\ ExitInv'
  BY DEF TypeOK, MainInv, MutexInv, ExitInv, Running
<1>4. SemInv' /\ WgInv'
  BY <1>1 DEF SemInv, WgInv
<1>5. ResultInv'
  BY <1>1 DEF ResultInv, TypeOK
<1>. QED
  BY <1>2, <1>3, <1>4, <1>5

LEMMA RunPanicsInv ==
    ASSUME PoolInv, exitCode = Running, NEW c \in Cases, RunPanics(c)
    PROVE  PoolInv'
<1>. USE DEF PoolInv, RunPanics, Goto
<1>1. Holders' = Holders /\ Pending' = Pending /\ Appended' = Appended
  BY DEF Holders, Pending, Appended, TypeOK
<1>2. TypeOK'
  BY DEF TypeOK, WorkerPoints
<1>3. MainInv' /\ MutexInv' /\ ExitInv'
  BY DEF TypeOK, MainInv, MutexInv, ExitInv, Running
<1>4. SemInv' /\ WgInv'
  BY <1>1 DEF SemInv, WgInv
<1>5. ResultInv'
  BY <1>1 DEF ResultInv, TypeOK
<1>. QED
  BY <1>2, <1>3, <1>4, <1>5

LEMMA LockInv ==
    ASSUME PoolInv, exitCode = Running, NEW c \in Cases, Lock(c)
    PROVE  PoolInv'
<1>. USE DEF PoolInv, Lock, Goto
<1>1. Holders' = Holders /\ Pending' = Pending /\ Appended' = Appended
  BY DEF Holders, Pending, Appended, TypeOK
<1>2. TypeOK'
  BY DEF TypeOK, WorkerPoints
<1>3. MainInv' /\ ExitInv'
  BY DEF TypeOK, MainInv, ExitInv, Running
<1>4. MutexInv'
  BY DEF TypeOK, MutexInv, NoCase, Cases
<1>5. SemInv' /\ WgInv'
  BY <1>1 DEF SemInv, WgInv
<1>6. ResultInv'
  BY <1>1 DEF ResultInv, TypeOK
<1>. QED
  BY <1>2, <1>3, <1>4, <1>5, <1>6

LEMMA AppendReadInv ==
    ASSUME PoolInv, exitCode = Running, NEW c \in Cases, AppendRead(c)
    PROVE  PoolInv'
<1>. USE DEF PoolInv, AppendRead, Goto
<1>1. Holders' = Holders /\ Pending' = Pending /\ Appended' = Appended
  BY DEF Holders, Pending, Appended, TypeOK
<1>2. TypeOK'
  BY DEF TypeOK, WorkerPoints
<1>3. MainInv' /\ MutexInv' /\ ExitInv'
  BY DEF TypeOK, MainInv, MutexInv, ExitInv, Running
<1>4. SemInv' /\ WgInv'
  BY <1>1 DEF SemInv, WgInv
<1>5. ResultInv'
  BY <1>1 DEF ResultInv, TypeOK
<1>. QED
  BY <1>2, <1>3, <1>4, <1>5

(* The step the mutex is there for: no other goroutine is between its read  *)
(* and its write, so readLen[c] is still the length of results.            *)
LEMMA AppendWriteInv ==
    ASSUME PoolInv, exitCode = Running, NEW c \in Cases, AppendWrite(c)
    PROVE  PoolInv'
<1>. USE DEF PoolInv, AppendWrite, Goto
<1>1. Holders' = Holders /\ Pending' = Pending
  BY DEF Holders, Pending, TypeOK
<1>2. c \notin panicking
  BY DEF ResultInv
<1>3. Appended' = Appended \cup {c} /\ c \notin Appended
  BY <1>2 DEF Appended, TypeOK
<1>4. Cardinality(Appended') = Cardinality(Appended) + 1
  BY <1>3, CountAdd DEF Appended
<1>5. Cardinality(Appended') \in 0..NumCases
  BY <1>3, CountedFinite DEF Appended
<1>6. readLen[c] = resLen /\ resLen = Cardinality(Appended)
  BY DEF ResultInv
<1>7. resLen \in Nat /\ resLen + 1 \in Cases
  BY <1>4, <1>5, <1>6, Counts DEF Cases
<1>8. TypeOK'
  BY <1>6, <1>7 DEF TypeOK, WorkerPoints, Cases
<1>9. MainInv' /\ MutexInv' /\ ExitInv'
  BY DEF TypeOK, MainInv, MutexInv, ExitInv, Running
<1>10. SemInv' /\ WgInv'
  BY <1>1 DEF SemInv, WgInv
<1>11. /\ resLen' = resLen + 1
       /\ slots' = [slots EXCEPT ![resLen + 1] = c]
       /\ slots'[resLen + 1] = c
       /\ \A k \in 1..resLen : slots'[k] = slots[k]
  BY <1>6, <1>7, <1>8 DEF TypeOK, Cases
<1>12. ResultInv'
  <2>1. resLen' = Cardinality(Appended')
    BY <1>4, <1>6
  <2>2. \A k \in 1..resLen' : slots'[k] \in Appended'
    <3>. SUFFICES ASSUME NEW k \in 1..(resLen + 1)
                  PROVE  slots'[k] \in Appended'
      BY <1>11
    <3>1. CASE k = resLen + 1
      BY <3>1, <1>3, <1>11
    <3>2. CASE k \in 1..resLen
      BY <3>2, <1>3, <1>11 DEF ResultInv
    <3>. QED
      BY <3>1, <3>2, <1>7
  <2>3. \A d \in Appended' : \E k \in 1..resLen' : slots'[k] = d
    <3>. SUFFICES ASSUME NEW d \in Appended'
                  PROVE  \E k \in 1..(resLen + 1) : slots'[k] = d
      BY <1>11
    <3>1. CASE d = c
      BY <3>1, <1>7, <1>11
    <3>2. CASE d \in Appended
      <4>1. PICK k \in 1..resLen : slots[k] = d
        BY <3>2 DEF ResultInv
      <4>. QED
        BY <4>1, <1>7, <1>11
    <3>. QED
      BY <3>1, <3>2, <1>3
  <2>4. \A d \in Cases : wpc'[d] # "write"
    BY DEF MutexInv, TypeOK
  <2>5. \A d \in Cases :
          wpc'[d] \notin {"unborn", "run"} /\ d \notin panicking'
              => verdict'[d] \in Verdicts
    BY DEF ResultInv, TypeOK
  <2>6. \A d \in panicking' :
          MayPanic /\ wpc'[d] \in {"release", "done", "ended"}
    BY <1>2 DEF ResultInv, TypeOK
  <2>. QED
    BY <2>1, <2>2, <2>3, <2>4, <2>5, <2>6 DEF ResultInv
<1>. QED
  BY <1>8, <1>9, <1>10, <1>12

LEMMA UnlockInv ==
    ASSUME PoolInv, exitCode = Running, NEW c \in Cases, Unlock(c)
    PROVE  PoolInv'
<1>. USE DEF PoolInv, Unlock, Goto
<1>1. Holders' = Holders /\ Pending' = Pending /\ Appended' = Appended
  BY DEF Holders, Pending, Appended, TypeOK
<1>2. TypeOK'
  BY DEF TypeOK, WorkerPoints
<1>3. MainInv' /\ ExitInv'
  BY DEF TypeOK, MainInv, ExitInv, Running
<1>4. MutexInv'
  BY DEF TypeOK, MutexInv, NoCase, Cases
<1>5. SemInv' /\ WgInv'
  BY <1>1 DEF SemInv, WgInv
<1>6. ResultInv'
  BY <1>1 DEF ResultInv, TypeOK
<1>. QED
  BY <1>2, <1>3, <1>4, <1>5, <1>6

LEMMA ReleaseInv ==
    ASSUME PoolInv, exitCode = Running, NEW c \in Cases, Release(c)
    PROVE  PoolInv'
<1>. USE DEF PoolInv, Release, Goto
<1>1. Holders' = Holders \ {c} /\ c \in Holders
  BY DEF Holders, TypeOK
<1>2. Pending' = Pending /\ Appended' = Appended
  BY DEF Pending, Appended, TypeOK
<1>3. Cardinality(Holders') = Cardinality(Holders) - 1
  BY <1>1, CountRemove DEF Holders
<1>4. Cardinality(Holders') \in 0..NumCases
  BY <1>1, CountedFinite DEF Holders
<1>5. SemInv' /\ WgInv'
  BY <1>2, <1>3, Counts DEF SemInv, WgInv
<1>6. TypeOK'
  BY <1>3, <1>4, Counts DEF TypeOK, WorkerPoints, SemInv
<1>7. MainInv' /\ MutexInv' /\ ExitInv'
  BY DEF TypeOK, MainInv, MutexInv, ExitInv, Running
<1>8. ResultInv'
  BY <1>2 DEF ResultInv, TypeOK
<1>. QED
  BY <1>5, <1>6, <1>7, <1>8

LEMMA DoneInv ==
    ASSUME PoolInv, exitCode = Running, NEW c \in Cases, Done(c)
    PROVE  PoolInv'
<1>. USE DEF PoolInv, Done, Goto
<1>1. Pending' = Pending \ {c} /\ c \in Pending
  BY DEF Pending, TypeOK
<1>2. Holders' = Holders /\ Appended' = Appended
  BY DEF Holders, Appended, TypeOK
<1>3. Cardinality(Pending') = Cardinality(Pending) - 1
  BY <1>1, CountRemove DEF Pending
<1>4. Cardinality(Pending') \in 0..NumCases
  BY <1>1, CountedFinite DEF Pending
<1>5. mpc \notin {"report", "exit"}
  BY <1>1, <1>3, <1>4, Counts DEF WgInv
<1>6. SemInv' /\ WgInv'
  BY <1>2, <1>3, <1>5, Counts DEF SemInv, WgInv
<1>7. TypeOK'
  BY <1>3, <1>4, Counts DEF TypeOK, WorkerPoints, WgInv
<1>8. MainInv' /\ MutexInv' /\ ExitInv'
  BY DEF TypeOK, MainInv, MutexInv, ExitInv, Running
<1>9. ResultInv'
  BY <1>2 DEF ResultInv, TypeOK
<1>. QED
  BY <1>6, <1>7, <1>8, <1>9

LEMMA CrashInv ==
    ASSUME PoolInv, exitCode = Running, NEW c \in Cases, Crash(c)
    PROVE  PoolInv'
<1>. USE DEF PoolInv, Crash
<1>1. Holders' = Holders /\ Pending' = Pending /\ Appended' = Appended
  BY DEF Holders, Pending, Appended
<1>2. TypeOK'
  BY DEF TypeOK
<1>3. MainInv' /\ MutexInv'
  BY DEF MainInv, MutexInv
<1>4. ExitInv'
  BY DEF ExitInv, ResultInv, Running
<1>5. SemInv' /\ WgInv' /\ ResultInv'
  BY <1>1 DEF SemInv, WgInv, ResultInv
<1>. QED
  BY <1>2, <1>3, <1>4, <1>5
-----------------------------------------------------------------------------
(* The invariant, and the properties that follow from it.                  *)

LEMMA StepInv == PoolInv /\ [Next]_vars => PoolInv'
<1>. SUFFICES ASSUME PoolInv, [Next]_vars PROVE PoolInv'
  OBVIOUS
<1>1. CASE exitCode = Running /\ Main
  BY <1>1, BeginInv, AddInv, AcquireInv, SpawnInv, WaitReturnsInv, ReportInv
     DEF Main
<1>2. ASSUME exitCode = Running, NEW c \in Cases, Worker(c) PROVE PoolInv'
  BY <1>2, RunReturnsInv, RunPanicsInv, LockInv, AppendReadInv,
     AppendWriteInv, UnlockInv, ReleaseInv, DoneInv, CrashInv DEF Worker
<1>3. CASE UNCHANGED vars
  <2>1. Holders' = Holders /\ Pending' = Pending /\ Appended' = Appended
    BY <1>3 DEF vars, Holders, Pending, Appended
  <2>. QED
    BY <1>3, <2>1 DEF vars, PoolInv, TypeOK, MainInv, SemInv, WgInv,
       MutexInv, ResultInv, ExitInv
<1>. QED
  BY <1>1, <1>2, <1>3 DEF Next

(* The inductive invariant of the pool: the counters of the channel and of  *)
(* the WaitGroup count goroutines, and results holds what was appended.     *)
THEOREM PoolInvariant == Spec => []PoolInv
<1>. QED
  BY InitInv, StepInv, PTL DEF Spec

(* Type correctness of the pool: no counter of main.go leaves its range.   *)
THEOREM TypeCorrect == Spec => []TypeOK
<1>1. PoolInv => TypeOK
  BY DEF PoolInv
<1>. QED
  BY <1>1, PoolInvariant, PTL

(* No more than --parallel cases run at once.                              *)
THEOREM ParallelBounded == Spec => []ParallelBound
<1>1. PoolInv => ParallelBound
  <2>. SUFFICES ASSUME PoolInv PROVE ParallelBound
    OBVIOUS
  <2>. QED
    BY Counts DEF PoolInv, TypeOK, SemInv, ParallelBound
<1>. QED
  BY <1>1, PoolInvariant, PTL

LEMMA ResultSet == PoolInv => {slots[k] : k \in 1..resLen} = Appended
BY DEF PoolInv, ResultInv

(* When wg.Wait returns, results holds each case that returned, once.      *)
THEOREM NoResultLost == Spec => []ResultsComplete
<1>1. PoolInv => ResultsComplete
  <2>. SUFFICES ASSUME PoolInv, mpc = "report"
                PROVE  /\ {slots[k] : k \in 1..resLen} = Cases \ panicking
                       /\ resLen = Cardinality(Cases \ panicking)
    BY DEF ResultsComplete
  <2>1. Appended = Cases \ panicking
    BY AllEnded
  <2>. QED
    BY <2>1, ResultSet DEF PoolInv, ResultInv
<1>. QED
  BY <1>1, PoolInvariant, PTL

(* The exit status says whether every case that did not panic passed, and 2 *)
(* that one panicked.                                                      *)
THEOREM ExitStatus == Spec => []ExitCodeHonest
<1>1. PoolInv => ExitCodeHonest
  BY DEF PoolInv, ExitInv, ExitCodeHonest
<1>. QED
  BY <1>1, PoolInvariant, PTL

-----------------------------------------------------------------------------
(* The pool ends: somebody can always go on, and every step counts.        *)

(* As long as the process runs, not everybody waits.  If the loop waits for *)
(* room in the channel, somebody holds a place in it; if it waits for the  *)
(* WaitGroup, somebody is pending; whoever of these waits for the mutex    *)
(* waits for its holder, and the holder waits for nobody.                  *)
THEOREM DeadlockFree == Spec => []NeverStuck
<1>1. PoolInv => NeverStuck
  <2>. SUFFICES ASSUME PoolInv, exitCode = Running, ~MainReady
                PROVE  \E c \in Cases : WorkerReady(c)
    BY DEF NeverStuck
  <2>. USE DEF PoolInv
  <2>1. mpc \in {"acquire", "wait"}
    BY DEF TypeOK, MainPoints, ExitInv, Running, MainReady
  <2>2. PICK c \in Cases : c \in Pending
    <3>1. CASE mpc = "acquire"
      <4>1. sem >= MaxParallel
        BY <3>1 DEF MainReady, TypeOK
      <4>2. Cardinality(Holders) # 0
        BY <3>1, <4>1, Counts DEF SemInv
      <4>3. Holders # {}
        BY <4>2, FS_EmptySet
      <4>. QED
        BY <4>3 DEF Holders, Pending
    <3>2. CASE mpc = "wait"
      <4>1. Cardinality(Pending) # 0
        BY <3>2, Counts DEF MainReady, WgInv
      <4>2. Pending # {}
        BY <4>1, FS_EmptySet
      <4>. QED
        BY <4>2 DEF Pending
    <3>. QED
      BY <2>1, <3>1, <3>2
  <2>3. wpc[c] \in WorkerPoints \ {"unborn", "ended"}
    BY <2>2 DEF Pending, TypeOK
  <2>4. CASE wpc[c] # "lock" \/ mu = NoCase
    BY <2>3, <2>4 DEF WorkerReady, WorkerPoints
  <2>5. CASE mu # NoCase
    <3>1. mu \in Cases /\ wpc[mu] \in {"read", "write", "unlock"}
      BY <2>5 DEF TypeOK, MutexInv
    <3>. QED
      BY <3>1 DEF WorkerReady
  <2>. QED
    BY <2>4, <2>5
<1>. QED
  BY <1>1, PoolInvariant, PTL

LEMMA ReachedBounded ==
    ASSUME NEW k \in 1..8
    PROVE  Reached(k) \in 0..NumCases
BY CountedFinite DEF Reached

LEMMA PlaceType == \A point \in WorkerPoints : Place(point) \in 0..8
BY DEF WorkerPoints, Place

(* A goroutine that moves on adds to the counts of the points it comes to.  *)
LEMMA ReachedGrows ==
    ASSUME TypeOK, NEW c \in Cases, NEW q \in WorkerPoints, NEW k \in 1..8,
           Place(q) > Place(wpc[c]), wpc' = [wpc EXCEPT ![c] = q]
    PROVE  /\ Reached(k)' \in 0..NumCases
           /\ Reached(k)' >= Reached(k)
           /\ k = Place(q) => Reached(k)' = Reached(k) + 1
<1>. DEFINE S == {x \in Cases : Place(wpc[x]) >= k}
            T == {x \in Cases : Place(wpc'[x]) >= k}
<1>1. wpc[c] \in WorkerPoints /\ wpc'[c] = q
      /\ \A x \in Cases \ {c} : wpc'[x] = wpc[x]
  BY DEF TypeOK
<1>2. Place(q) \in 0..8 /\ Place(wpc[c]) \in 0..8
  BY <1>1, PlaceType
<1>3. Reached(k) = Cardinality(S) /\ Reached(k)' = Cardinality(T)
  BY DEF Reached
<1>4. CASE Place(wpc[c]) < k /\ k <= Place(q)
  <2>1. c \notin S /\ T = S \cup {c}
    BY <1>1, <1>2, <1>4
  <2>2. Cardinality(T) = Cardinality(S) + 1
    BY <2>1, CountAdd
  <2>. QED
    BY <1>3, <2>2, CountedFinite
<1>5. CASE ~(Place(wpc[c]) < k /\ k <= Place(q))
  <2>1. T = S /\ k # Place(q)
    BY <1>1, <1>2, <1>5
  <2>2. Cardinality(S) \in 0..NumCases
    BY CountedFinite
  <2>. QED
    BY <1>3, <2>1, <2>2
<1>. QED
  BY <1>4, <1>5

LEMMA PlacesPassed ==
    ASSUME TypeOK, NEW c \in Cases, NEW q \in WorkerPoints,
           Place(q) > Place(wpc[c]), wpc' = [wpc EXCEPT ![c] = q]
    PROVE  Passed < Passed' /\ Passed' <= 8 * NumCases /\ Passed' \in Int
<1>1. Place(q) \in 1..8
  <2>1. wpc[c] \in WorkerPoints
    BY DEF TypeOK
  <2>. QED
    BY <2>1, PlaceType
<1>2. \A k \in 1..8 :
        /\ Reached(k) \in 0..NumCases
        /\ Reached(k)' \in 0..NumCases
        /\ Reached(k)' >= Reached(k)
        /\ k = Place(q) => Reached(k)' = Reached(k) + 1
  BY ReachedBounded, ReachedGrows
<1>. HIDE DEF Reached
<1>. QED
  BY <1>1, <1>2 DEF Passed

LEMMA SumGrows ==
    ASSUME NEW m \in 0..(3 * NumCases + 5), NEW n \in 0..(3 * NumCases + 5),
           NEW p \in 0..(8 * NumCases), NEW q \in 0..(8 * NumCases),
           NEW x \in {0, 1},
           m <= n, p <= q, m < n \/ p < q \/ x = 1
    PROVE  m + p + 0 < n + q + x /\ n + q + x <= 11 * NumCases + 6
OBVIOUS

(* Each step is one that nobody takes again, so there are at most as many   *)
(* as there are points to pass.                                            *)
THEOREM StepsBounded == Spec => EveryStepCounts
<1>. DEFINE Counted == Progress < Progress' /\ Progress' <= 11 * NumCases + 6
            Exited == IF exitCode = Running THEN 0 ELSE 1
<1>1. ASSUME PoolInv, PoolInv', Next
      PROVE  Counted
  <2>1. TypeOK /\ TypeOK' /\ exitCode = Running
    BY <1>1 DEF PoolInv, Next
  <2>2. /\ MainProgress \in 0..(3 * NumCases + 5)
        /\ MainProgress' \in 0..(3 * NumCases + 5)
    BY <2>1 DEF TypeOK, MainPoints, MainProgress
  <2>3. Passed \in 0..(8 * NumCases)
    BY ReachedBounded DEF Passed
  <2>4. Exited = 0 /\ Exited' \in {0, 1}
    BY <2>1
  <2>5. /\ Progress = MainProgress + Passed + Exited
        /\ Progress' = MainProgress' + Passed' + Exited'
    BY DEF Progress
  <2>6. ASSUME /\ Passed' \in 0..(8 * NumCases)
               /\ MainProgress <= MainProgress' /\ Passed <= Passed'
               /\ \/ MainProgress < MainProgress' \/ Passed < Passed'
                  \/ Exited' = 1
        PROVE  Counted
    BY <2>2, <2>3, <2>4, <2>5, <2>6, SumGrows
  <2>7. CASE Main
    <3>1. next \in Nat /\ next' \in Nat
      BY <2>1 DEF TypeOK
    <3>2. ASSUME wpc' = wpc, MainProgress < MainProgress'
          PROVE  Counted
      <4>1. Passed' = Passed
        BY <3>2 DEF Passed, Reached
      <4>. QED
        BY <2>2, <2>3, <2>6, <3>2, <4>1
    <3>3. CASE Begin \/ Add \/ Acquire \/ WaitReturns \/ Report
      <4>1. wpc' = wpc
        BY <3>3 DEF Begin, Add, Acquire, WaitReturns, Report
      <4>2. MainProgress < MainProgress'
        BY <3>1, <3>3 DEF Begin, Add, Acquire, WaitReturns, Report, MainProgress
      <4>. QED
        BY <3>2, <4>1, <4>2
    <3>4. CASE Spawn
      <4>1. next \in Cases /\ wpc[next] = "unborn"
        BY <1>1, <3>4 DEF PoolInv, MainInv, TypeOK, Cases, Spawn
      <4>2. "run" \in WorkerPoints /\ Place("run") > Place(wpc[next])
        BY <4>1 DEF WorkerPoints, Place
      <4>3. Passed < Passed' /\ Passed' <= 8 * NumCases
        BY <2>1, <3>4, <4>1, <4>2, PlacesPassed DEF Spawn
      <4>4. Passed' \in Int
        BY <2>1, <3>4, <4>1, <4>2, PlacesPassed DEF Spawn
      <4>5. MainProgress <= MainProgress'
        BY <3>1, <3>4 DEF Spawn, MainProgress
      <4>. QED
        BY <2>3, <2>6, <4>3, <4>4, <4>5
    <3>. QED
      BY <2>7, <3>3, <3>4 DEF Main
  <2>8. ASSUME NEW c \in Cases, Worker(c) PROVE Counted
    <3>1. CASE Crash(c)
      <4>1. Passed' = Passed /\ MainProgress' = MainProgress
        BY <3>1 DEF Crash, Passed, Reached, MainProgress
      <4>2. Exited' = 1
        BY <3>1 DEF Crash, Running
      <4>. QED
        BY <2>2, <2>3, <2>6, <4>1, <4>2
    <3>2. CASE ~Crash(c)
      <4>1. PICK q \in WorkerPoints :
              Place(q) > Place(wpc[c]) /\ wpc' = [wpc EXCEPT ![c] = q]
        BY <2>8, <3>2
        DEF Worker, Goto, RunReturns, RunPanics, Lock, AppendRead, AppendWrite,
            Unlock, Release, Done, WorkerPoints, Place
      <4>2. MainProgress' = MainProgress /\ Exited' = Exited
        BY <2>8, <3>2
        DEF Worker, RunReturns, RunPanics, Lock, AppendRead, AppendWrite,
            Unlock, Release, Done, MainProgress
      <4>3. Passed < Passed' /\ Passed' <= 8 * NumCases /\ Passed' \in Int
        BY <2>1, <4>1, PlacesPassed
      <4>. QED
        BY <2>2, <2>3, <2>6, <4>2, <4>3
    <3>. QED
      BY <3>1, <3>2
  <2>. QED
    BY <1>1, <2>7, <2>8 DEF Next
<1>2. PoolInv /\ PoolInv' /\ [Next]_vars => [Counted]_vars
  BY <1>1
<1>. QED
  BY <1>2, PoolInvariant, PTL DEF Spec, EveryStepCounts

(* A result in the slice stays in its place.                               *)
THEOREM ResultsKept == Spec => ResultsStable
<1>. DEFINE Kept == /\ resLen' >= resLen
                    /\ \A k \in 1..resLen : slots'[k] = slots[k]
<1>1. PoolInv /\ [Next]_vars => [Kept]_vars
  <2>. SUFFICES ASSUME PoolInv, Next PROVE Kept
    OBVIOUS
  <2>0. resLen \in Nat
    BY DEF PoolInv, TypeOK
  <2>1. CASE Main
    BY <2>0, <2>1 DEF Main, Begin, Add, Acquire, Spawn, WaitReturns, Report
  <2>2. ASSUME NEW c \in Cases, AppendWrite(c) PROVE Kept
    <3>1. readLen[c] = resLen
      BY <2>2 DEF PoolInv, ResultInv, AppendWrite, Goto
    <3>2. \A k \in 1..resLen : k # resLen + 1
      BY <2>0
    <3>3. slots \in [Cases -> Cases \cup {NoCase}] /\ 1..resLen \subseteq Cases
      BY DEF PoolInv, TypeOK, Cases
    <3>. QED
      BY <2>0, <2>2, <3>1, <3>2, <3>3 DEF AppendWrite
  <2>3. ASSUME NEW c \in Cases, Worker(c), ~AppendWrite(c) PROVE Kept
    BY <2>0, <2>3 DEF Worker, RunReturns, RunPanics, Lock, AppendRead, Unlock,
       Release, Done, Crash
  <2>. QED
    BY <2>1, <2>2, <2>3 DEF Next
<1>. QED
  BY <1>1, PoolInvariant, PTL DEF Spec, ResultsStable
-----------------------------------------------------------------------------
(* The pool implements the abstract schedule, step by step.                *)

Waiting == {c \in Cases : wpc[c] = "unborn"}
Outcome == [c \in Cases |-> IF c \in Appended THEN verdict[c] ELSE NoVerdict]

LEMMA MapsInit == Init => Schedule!Init
<1>. SUFFICES ASSUME Init PROVE Schedule!Init
  OBVIOUS
<1>1. {slots[k] : k \in 1..resLen} = {}
  BY DEF Init
<1>2. Active = {} /\ MaxParallel - Cardinality(Active) = MaxParallel
  BY FS_EmptySet DEF Init, Active
<1>. QED
  BY <1>1, <1>2 DEF Init, Schedule!Init, Schedule!Cases, Schedule!NoVerdict,
     Schedule!Running, NoVerdict, Running, Cases

LEMMA MapsSpawn ==
    ASSUME PoolInv, exitCode = Running, Spawn, PoolInv',
           NEW c \in Cases, c = next
    PROVE  Schedule!Start(c)
<1>1. wpc[c] = "unborn"
  BY DEF Spawn, PoolInv, MainInv, TypeOK, Cases
<1>2. Active \in SUBSET Holders
  BY DEF Active, Holders
<1>3. Cardinality(Active) <= Cardinality(Holders)
      /\ Cardinality(Active) \in Nat
  BY <1>2, Counts, FS_Subset, FS_CardinalityType
<1>4. MaxParallel - Cardinality(Active) > 0
  BY <1>3, Counts DEF PoolInv, SemInv, TypeOK, Spawn
<1>5. /\ Waiting' = Waiting \ {c}
      /\ Active' = Active \cup {c}
      /\ c \in Waiting
      /\ Appended' = Appended
      /\ Outcome' = Outcome
  BY <1>1 DEF Spawn, Waiting, Active, Appended, Outcome, PoolInv, TypeOK
<1>6. (MaxParallel - Cardinality(Active))' = MaxParallel - Cardinality(Active) - 1
  <2>1. c \notin Active /\ Active \in SUBSET Cases
    BY <1>1 DEF Active
  <2>2. Cardinality(Active') = Cardinality(Active) + 1
    BY <1>1, <1>5, <2>1, CountAdd
  <2>. QED
    BY <1>3, <2>2
<1>7. /\ {slots[k] : k \in 1..resLen} = Appended
      /\ ({slots[k] : k \in 1..resLen})' = Appended'
  BY ResultSet DEF Spawn, PoolInv, ResultInv
<1>. QED
  BY <1>4, <1>5, <1>6, <1>7 DEF Spawn, Schedule!Start, Schedule!Running,
     Running, Waiting, Outcome, Cases

LEMMA MapsAppendWrite ==
    ASSUME PoolInv, exitCode = Running, NEW c \in Cases, AppendWrite(c),
           PoolInv'
    PROVE  Schedule!ReportCase(c)
<1>. USE DEF AppendWrite, Goto
<1>1. c \notin panicking /\ verdict[c] \in Verdicts
  BY DEF PoolInv, ResultInv
<1>2. /\ Appended' = Appended \cup {c}
      /\ Active' = Active \ {c}
      /\ c \in Active
      /\ Waiting' = Waiting
      /\ exitCode' = exitCode
  BY <1>1 DEF Appended, Active, Waiting, PoolInv, TypeOK
<1>3. Outcome' = [Outcome EXCEPT ![c] = verdict[c]]
  BY <1>2 DEF Outcome, PoolInv, TypeOK
<1>4. {slots[k] : k \in 1..resLen} = Appended
  BY ResultSet
<1>5. ({slots[k] : k \in 1..resLen})' = Appended'
  BY DEF PoolInv, ResultInv
<1>6. (MaxParallel - Cardinality(Active))' = MaxParallel - Cardinality(Active) + 1
  <2>1. Active \in SUBSET Cases
    BY DEF Active
  <2>2. Cardinality(Active') = Cardinality(Active) - 1
    BY <1>2, <2>1, CountRemove
  <2>3. Cardinality(Active) \in Nat
    BY <2>1, CountedFinite
  <2>. QED
    BY <2>2, <2>3
<1>. QED
  BY <1>1, <1>2, <1>3, <1>4, <1>5, <1>6 DEF Schedule!ReportCase,
     Schedule!Running, Schedule!Verdicts, Verdicts, Running, Waiting, Outcome,
     Cases

(* The exit of the main goroutine, after the loop or for want of cases.    *)
LEMMA MapsFinish ==
    ASSUME PoolInv, exitCode = Running,
           Report \/ (Begin /\ NumCases = 0)
    PROVE  Schedule!Finish
<1>1. UNCHANGED panicking
  BY DEF Report, Begin
<1>2. {slots[k] : k \in 1..resLen} = Appended
  BY ResultSet
<1>3. Appended \cup panicking = Cases
  <2>0. panicking \subseteq Cases
    BY DEF PoolInv, TypeOK
  <2>1. CASE Report
    BY <2>0, <2>1, AllEnded DEF Report
  <2>2. CASE NumCases = 0
    BY <2>0, <2>2 DEF Appended, Cases
  <2>. QED
    BY <2>1, <2>2
<1>4. UNCHANGED <<wpc, slots, resLen, verdict>>
  BY DEF Report, Begin
<1>5. UNCHANGED <<Waiting, Active, Appended, Outcome>>
  BY <1>1, <1>4 DEF Waiting, Active, Appended, Outcome, Report, Begin
<1>6. exitCode' = IF \A c \in Appended : verdict[c] = "PASS" THEN 0 ELSE 1
  <2>1. CASE Report
    <3>1. NotPassed = {} <=> \A c \in Appended : verdict[c] = "PASS"
      BY DEF NotPassed, PoolInv, ResultInv
    <3>. QED
      BY <2>1, <3>1 DEF Report
  <2>2. CASE Begin /\ NumCases = 0
    BY <2>2 DEF Begin, Cases, Appended
  <2>. QED
    BY <2>1, <2>2
<1>7. Appended \subseteq Cases
  BY DEF Appended
<1>8. exitCode' = IF \A c \in Appended : Outcome[c] = "PASS" THEN 0 ELSE 1
  BY <1>6, <1>7 DEF Outcome
<1>9. /\ ({slots[k] : k \in 1..resLen})' = Appended
      /\ exitCode = Running
  BY <1>2, <1>4
<1>. QED
  <2>. DEFINE Listed == {slots[k] : k \in 1..resLen}
              Map == [c \in Cases |-> IF c \in Listed THEN verdict[c] ELSE NoVerdict]
  <2>1. Listed = Appended /\ Map = Outcome /\ Listed' = Listed /\ Map' = Map
    BY <1>2, <1>4, <1>9 DEF Outcome
  <2>2. exitCode' = IF \A c \in Listed : Map[c] = "PASS" THEN 0 ELSE 1
    BY <1>8, <2>1
  <2>3. Listed \cup panicking = Cases /\ UNCHANGED <<Waiting, Active>>
    BY <1>3, <1>5, <2>1
  <2>. HIDE DEF Listed, Map
  <2>4. Schedule!Cases = Cases /\ Schedule!Running = Running
    BY DEF Schedule!Cases, Cases, Schedule!Running, Running
  <2>. QED
    BY <1>1, <1>9, <2>1, <2>2, <2>3, <2>4 DEF Schedule!Finish, Waiting, Listed, Map

(* A goroutine that panics drops its case.                                 *)
LEMMA MapsPanic ==
    ASSUME PoolInv, PoolInv', exitCode = Running, NEW c \in Cases, RunPanics(c)
    PROVE  Schedule!Lose(c)
<1>. USE DEF RunPanics, Goto
<1>1. c \notin Appended /\ c \notin panicking
  BY DEF Appended, PoolInv, ResultInv
<1>2. /\ Active' = Active \ {c} /\ c \in Active
      /\ Waiting' = Waiting
      /\ Appended' = Appended
  BY <1>1 DEF Active, Waiting, Appended, PoolInv, TypeOK
<1>3. Outcome' = Outcome
  BY <1>2 DEF Outcome
<1>4. /\ {slots[k] : k \in 1..resLen} = Appended
      /\ ({slots[k] : k \in 1..resLen})' = Appended'
  BY ResultSet DEF PoolInv, ResultInv
<1>5. (MaxParallel - Cardinality(Active))' = MaxParallel - Cardinality(Active) + 1
  <2>1. Active \in SUBSET Cases
    BY DEF Active
  <2>2. Cardinality(Active') = Cardinality(Active) - 1
    BY <1>2, <2>1, CountRemove
  <2>3. Cardinality(Active) \in Nat
    BY <2>1, CountedFinite
  <2>. QED
    BY <2>2, <2>3
<1>. QED
  BY <1>2, <1>3, <1>4, <1>5 DEF Schedule!Lose, Schedule!Running, Running, Waiting,
     Outcome, Cases

(* Every other step of the pool is invisible to the schedule.              *)
LEMMA MapsOther ==
    ASSUME PoolInv, PoolInv', exitCode' = exitCode,
           UNCHANGED <<Waiting, Active, Appended, Outcome, panicking>>
    PROVE  UNCHANGED Schedule!vars
<1>1. {slots[k] : k \in 1..resLen} = Appended
  BY ResultSet
<1>2. ({slots[k] : k \in 1..resLen})' = Appended'
  BY DEF PoolInv, ResultInv
<1>. QED
  BY <1>1, <1>2 DEF Schedule!vars, Waiting, Outcome, Cases

LEMMA MapsStep ==
    ASSUME PoolInv, PoolInv', [Next]_vars
    PROVE  [Schedule!Next]_(Schedule!vars)
<1>1. CASE UNCHANGED vars
  <2>1. UNCHANGED <<Waiting, Active, Appended, Outcome, panicking, exitCode>>
    BY <1>1 DEF vars, Waiting, Active, Appended, Outcome
  <2>. QED
    BY <2>1, MapsOther
<1>2. CASE exitCode = Running /\ Main
  <2>1. CASE Spawn
    <3>1. PICK c \in Cases : c = next
      BY <2>1 DEF Spawn, PoolInv, MainInv, TypeOK, Cases
    <3>2. Schedule!Start(c)
      BY <1>2, <2>1, <3>1, MapsSpawn
    <3>. QED
      BY <3>1, <3>2 DEF Schedule!Next, Schedule!Cases, Cases
  <2>2. CASE Report \/ (Begin /\ NumCases = 0)
    BY <1>2, <2>2, MapsFinish DEF Schedule!Next
  <2>3. CASE (Begin /\ NumCases # 0) \/ Add \/ Acquire \/ WaitReturns
    <3>1. UNCHANGED <<wpc, verdict, panicking, exitCode>>
      BY <2>3 DEF Begin, Add, Acquire, WaitReturns
    <3>2. UNCHANGED <<Waiting, Active, Appended, Outcome>>
      BY <3>1 DEF Waiting, Active, Appended, Outcome
    <3>. QED
      BY <3>1, <3>2, MapsOther
  <2>. QED
    BY <1>2, <2>1, <2>2, <2>3 DEF Main
<1>3. ASSUME exitCode = Running, NEW c \in Cases, Worker(c)
      PROVE  [Schedule!Next]_(Schedule!vars)
  <2>1. CASE AppendWrite(c)
    BY <1>3, <2>1, MapsAppendWrite DEF Schedule!Next, Schedule!Cases, Cases
  <2>2. CASE RunReturns(c)
    <3>1. /\ UNCHANGED <<Waiting, Active, Appended>>
          /\ c \notin Appended
      BY <2>2 DEF RunReturns, Goto, Waiting, Active, Appended, PoolInv, TypeOK
    <3>2. UNCHANGED <<Outcome, panicking>> /\ exitCode' = exitCode
      BY <2>2, <3>1 DEF RunReturns, Outcome, PoolInv, TypeOK
    <3>. QED
      BY <3>1, <3>2, MapsOther
  <2>3. CASE Lock(c) \/ AppendRead(c) \/ Unlock(c) \/ Release(c) \/ Done(c)
    <3>1. /\ UNCHANGED <<verdict, panicking, exitCode>>
          /\ UNCHANGED <<Waiting, Active, Appended>>
      BY <2>3 DEF Lock, AppendRead, Unlock, Release, Done, Goto, Waiting,
         Active, Appended, PoolInv, TypeOK
    <3>2. UNCHANGED Outcome
      BY <3>1 DEF Outcome
    <3>. QED
      BY <3>1, <3>2, MapsOther
  <2>4. CASE RunPanics(c)
    BY <1>3, <2>4, MapsPanic DEF Schedule!Next, Schedule!Cases, Cases
  <2>5. CASE Crash(c)
    <3>1. UNCHANGED <<Waiting, Active, Appended, Outcome, panicking, slots, resLen>>
      BY <2>5 DEF Crash, Waiting, Active, Appended, Outcome
    <3>2. Schedule!Die
      BY <1>3, <2>5, <3>1, ResultSet DEF Crash, Schedule!Die, Schedule!Running, Running, Waiting,
         Outcome, Cases
    <3>. QED
      BY <3>2 DEF Schedule!Next
  <2>. QED
    BY <1>3, <2>1, <2>2, <2>3, <2>4, <2>5 DEF Worker
<1>. QED
  BY <1>1, <1>2, <1>3 DEF Next

(* Every step of the pool, panics included, is a step of CaseSchedule or    *)
(* leaves its state unchanged (the fairness of CaseSchedule is TLC's).     *)
THEOREM PoolRefinesSchedule ==
    Spec => Schedule!Init /\ [][Schedule!Next]_(Schedule!vars)
<1>1. PoolInv /\ PoolInv' /\ [Next]_vars => [Schedule!Next]_(Schedule!vars)
  BY MapsStep
<1>. QED
  BY <1>1, MapsInit, PoolInvariant, PTL DEF Spec
=============================================================================
