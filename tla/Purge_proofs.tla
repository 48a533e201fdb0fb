---------------------------- MODULE Purge_proofs ----------------------------
(***************************************************************************)
(* Proofs about Purge, for any executions and cases, any faults of the     *)
(* purge and of the executions.                                            *)
(***************************************************************************)
EXTENDS Purge, CloudLifecycle_proofs

\* Whoever has run since the purge started is recorded.
Beside ==
    purge.pc \notin {"idle", "crashed"} =>
        \A e \in Execs : Alive(e) => e \in purge.beside

\* A policy set is attached to the workspace of its own execution.
OwnAttached == \A p \in Execs : attached[p] \in {p, NoId}

\* The loop over the workspaces, with one in hand.
Holding == {"destroy", "awaitDestroy", "delete"}

PurgePointInv ==
    /\ purge.pc \in Holding \cup {"done"} => purge.todoPs = {}
    /\ purge.pc = "done" => purge.todoWs = {}
    /\ purge.pc \in Holding => purge.cur \in Execs
    /\ purge.pc \notin Holding => purge.cur = NoId

\* Not to be found in a list though it exists: somebody's beside the purge, or
\* moved to a page already read.
Excused == purge.beside \cup purge.missed

\* What lies on the pages already read is listed, or excused.  Alone, nothing moves.
PagesInv ==
    /\ ~BetweenPages => purge.passed = {}
    /\ BetweenPages => purge.passed \subseteq ListBefore
    /\ purge.pc = "morePs" => purge.passed \subseteq Listed(purge.todoPs) \cup Excused
    /\ purge.pc = "moreWs" => purge.passed \subseteq Listed(purge.todoWs) \cup Excused
    /\ purge.beside = {} /\ "others" \notin PurgeFaults => purge.missed = {}

\* What exists is listed and not yet dealt with, or excused.
CoverInv ==
    ~purge.errors =>
        /\ purge.pc \in Holding \cup {"listWs", "moreWs", "sweep", "done"} =>
              policySets \subseteq Listed(purge.todoPs) \cup Excused
        /\ purge.pc \in Holding \cup {"sweep", "done"} =>
              workspaces \subseteq Listed(purge.todoWs) \cup {purge.cur} \cup Excused

\* A workspace that nobody uses stays destroyed.
DestroyedInv ==
    /\ purge.pc = "delete" /\ ~purge.warned
          => purge.destroy[purge.cur] \in {"done", "failed"}
    /\ purge.pc \notin {"idle", "crashed"} =>
          \A w \in Execs \ purge.beside :
             purge.destroy[w] = "done" => w \notin resources /\ run[w] \in Over \cup {NoRun}
    /\ purge.pc \in {"idle", "crashed"} => \A w \in Execs : purge.destroy[w] = "none"

\* For the theorem that an execution notices: the set an execution has created is
\* the one it holds, unless its result is already not clean.
HoldsSet(e) ==
    LET x == exec[e]
    IN  \/ x.pc = "recoverPs"
        \/ x.pc \in Testing \cup {"detach", "cleanup"} /\ x.ps = e
        \/ x.fatal \/ x.warned
        \/ x.pc = "cleanupWs" /\ ~x.cleanupOK

\* How an execution that lost something has noticed, or cannot help to notice.
Noticed(e) ==
    LET x == exec[e]
    IN  \/ x.pc = "crashed"
        \/ x.fatal \/ x.warned
        \/ x.pc = "done" /\ (Cleanup => ~x.cleanupOK)
        \/ HasWorkspace(e) /\ e \notin workspaces
        \/ x.pc = "recoverPs" /\ PolicySetsNamed(e) = {}
        \/ x.pc \in Testing \cup {"detach", "cleanup"} /\ x.ps = e /\ e \notin policySets
        \/ x.pc = "cleanupWs" /\ ~x.cleanupOK

VisibleInv(e) ==
    /\ exec[e].pc \in Starting => e \notin workspaces
    /\ Alive(e) /\ e \in policySets => HoldsSet(e)
    /\ exec[e].pc = "idle" => e \notin policySets
    /\ e \in purge.taken => Noticed(e)

\* The organisation accepts a name once.
NamesFree ==
    /\ \A x, y \in workspaces : CaseOf[x] = CaseOf[y] => x = y
    /\ \A x, y \in policySets : CaseOf[x] = CaseOf[y] => x = y

PurgeInv ==
    /\ PurgeTypeOK /\ Beside /\ OwnAttached /\ PurgePointInv
    /\ PagesInv /\ CoverInv /\ DestroyedInv

NoticedInv == NamesFree /\ \A e \in Execs : VisibleInv(e)

-----------------------------------------------------------------------------
(* Types.                                                                  *)

PurgeRecord ==
    [pc : PurgePoints, todoPs : SUBSET Entry, todoWs : SUBSET Entry,
     cur : Execs \cup {NoId}, destroy : [Execs -> DestroyStates],
     errors : BOOLEAN, passed : SUBSET Execs, missed : SUBSET Execs,
     warned : BOOLEAN, taken : SUBSET Execs, beside : SUBSET Execs]

\* The entries of a page.
LEMMA EntriesListed ==
    ASSUME NEW found \in SUBSET Execs, NEW todo \in SUBSET Entry
    PROVE  /\ todo \cup Entries(found, todo) \in SUBSET Entry
           /\ Listed(todo \cup Entries(found, todo)) = Listed(todo) \cup found
<1>1. \A o : o \in Listed(todo) <=> \E x \in todo : x[1] = o
  BY DEF Listed
<1>2. \A o \in found : <<o, o \in Listed(todo)>> \in Entry
  <2> TAKE o \in found
  <2>1. \A again \in BOOLEAN : <<o, again>> \in Execs \X BOOLEAN
    OBVIOUS
  <2>2. (o \in Listed(todo)) \in BOOLEAN
    OBVIOUS
  <2> HIDE DEF Listed
  <2> DEFINE again == o \in Listed(todo)
  <2>3. again \in BOOLEAN
    BY <2>2
  <2> HIDE DEF again
  <2>4. <<o, again>> \in Execs \X BOOLEAN
    BY <2>1, <2>3
  <2> QED BY <2>4 DEF Entry, again
<1>3. Entries(found, todo) \in SUBSET Entry
  BY <1>2 DEF Entries
<1>4. \A o \in found : <<o, o \in Listed(todo)>> \in Entries(found, todo)
  BY DEF Entries
<1>5. \A x \in Entries(found, todo) : x[1] \in found
  BY DEF Entries
<1>6. \A o \in found : \E x \in Entries(found, todo) : x[1] = o
  BY <1>4
<1>7. \A o : o \in Listed(todo \cup Entries(found, todo))
               <=> \E x \in todo \cup Entries(found, todo) : x[1] = o
  BY DEF Listed
<1>8. \A o : o \in Listed(todo \cup Entries(found, todo)) <=> o \in Listed(todo) \cup found
  BY <1>1, <1>5, <1>6, <1>7
<1>9. Listed(todo \cup Entries(found, todo)) = Listed(todo) \cup found
  BY <1>8
<1> QED BY <1>3, <1>9

\* One that is dealt with.
LEMMA EntryTaken ==
    ASSUME NEW todo \in SUBSET Entry, NEW x \in todo
    PROVE  /\ x[1] \in Execs /\ todo \ {x} \in SUBSET Entry
           /\ Listed(todo) \subseteq Listed(todo \ {x}) \cup {x[1]}
BY DEF Entry, Listed

LEMMA NothingListed == Listed({}) = {}
BY DEF Listed

LEMMA NewPurgeType ==
    ASSUME NEW pc \in PurgePoints
    PROVE  NewPurge(pc) \in PurgeRecord
BY DEF NewPurge, PurgeRecord, DestroyStates

\* What a deletion in a loop of the purge makes of the record.
LEMMA DeletePsStep ==
    ASSUME PurgeTypeOK, DeleteListedPolicySet
    PROVE  \E x \in purge.todoPs, err \in BOOLEAN :
              /\ \/ x[1] \in policySets /\ DeletesPolicySet(x[1])
                 \/ UNCHANGED hcp /\ err
              /\ purge' = [purge EXCEPT
                             !.todoPs = purge.todoPs \ {x},
                             !.errors = (purge.errors \/ err),
                             !.taken = IF x[1] \in policySets \ policySets'
                                       THEN Taken(x[1]) ELSE purge.taken]
BY DEF DeleteListedPolicySet

LEMMA DeleteWsStep ==
    ASSUME PurgeTypeOK, DeleteListedWorkspace
    PROVE  \E err \in BOOLEAN :
              /\ \/ purge.cur \in workspaces /\ DeletesWorkspace(purge.cur)
                 \/ UNCHANGED hcp /\ err
              /\ purge' = [purge EXCEPT
                             !.pc = "sweep", !.cur = NoId, !.warned = FALSE,
                             !.errors = (purge.errors \/ err),
                             !.taken = IF purge.cur \in workspaces \ workspaces'
                                       THEN Taken(purge.cur) ELSE purge.taken]
BY DEF DeleteListedWorkspace

\* The fields of the record after a step.
PurgeBecomes(pc, todoPs, todoWs, cur, runs, errors, warned, taken, beside,
             passed, missed) ==
    /\ purge' \in PurgeRecord
    /\ purge'.pc = pc /\ purge'.todoPs = todoPs /\ purge'.todoWs = todoWs
    /\ purge'.cur = cur /\ purge'.destroy = runs /\ purge'.errors = errors
    /\ purge'.warned = warned /\ purge'.taken = taken /\ purge'.beside = beside
    /\ purge'.passed = passed /\ purge'.missed = missed

LEMMA NewPurgeFields ==
    ASSUME NEW pc \in PurgePoints
    PROVE  /\ NewPurge(pc).pc = pc /\ NewPurge(pc).todoPs = {}
           /\ NewPurge(pc).todoWs = {} /\ NewPurge(pc).cur = NoId
           /\ NewPurge(pc).destroy = [w \in Execs |-> "none"]
           /\ NewPurge(pc).errors = FALSE /\ NewPurge(pc).warned = FALSE
           /\ NewPurge(pc).taken = {} /\ NewPurge(pc).beside = {}
           /\ NewPurge(pc).passed = {} /\ NewPurge(pc).missed = {}
BY DEF NewPurge

LEMMA PurgeTyped ==
    ASSUME PurgeTypeOK
    PROVE  TypeOK /\ purge \in PurgeRecord
BY DEF PurgeTypeOK, PurgeRecord

LEMMA StartFields ==
    ASSUME PurgeTypeOK, PurgeStart
    PROVE  PurgeBecomes("listPs", {}, {}, NoId, [w \in Execs |-> "none"], FALSE, FALSE,
                        purge.taken, {e \in Execs : Alive(e)}, {}, {})
<1> DEFINE new == NewPurge("listPs")
<1>1. new \in PurgeRecord
  BY NewPurgeType DEF PurgePoints
<1>2. /\ new.pc = "listPs" /\ new.todoPs = {} /\ new.todoWs = {} /\ new.cur = NoId
      /\ new.destroy = [w \in Execs |-> "none"]
      /\ new.errors = FALSE /\ new.warned = FALSE /\ new.taken = {}
      /\ new.passed = {} /\ new.missed = {}
  BY NewPurgeFields DEF PurgePoints
<1> HIDE DEF new
<1>3. purge' = [new EXCEPT !.beside = {e \in Execs : Alive(e)}, !.taken = purge.taken]
  BY DEF PurgeStart, new
<1>4. purge.taken \subseteq Execs
  BY PurgeTyped DEF PurgeRecord
<1> QED BY <1>1, <1>2, <1>3, <1>4 DEF PurgeBecomes, PurgeRecord

LEMMA CrashFields ==
    ASSUME PurgeTypeOK, PurgeCrash
    PROVE  PurgeBecomes("crashed", {}, {}, NoId, [w \in Execs |-> "none"], FALSE, FALSE,
                        purge.taken, {}, {}, {})
<1> DEFINE new == NewPurge("crashed")
<1>1. new \in PurgeRecord
  BY NewPurgeType DEF PurgePoints
<1>2. /\ new.pc = "crashed" /\ new.todoPs = {} /\ new.todoWs = {} /\ new.cur = NoId
      /\ new.destroy = [w \in Execs |-> "none"]
      /\ new.errors = FALSE /\ new.warned = FALSE /\ new.beside = {}
      /\ new.passed = {} /\ new.missed = {}
  BY NewPurgeFields DEF PurgePoints
<1> HIDE DEF new
<1>3. purge' = [new EXCEPT !.taken = purge.taken]
  BY DEF PurgeCrash, new
<1>4. purge.taken \subseteq Execs
  BY PurgeTyped DEF PurgeRecord
<1> QED BY <1>1, <1>2, <1>3, <1>4 DEF PurgeBecomes, PurgeRecord

LEMMA ListPsFields ==
    ASSUME PurgeTypeOK, ListPolicySets
    PROVE  /\ purge.pc \in {"listPs", "morePs"}
           /\ \E found \in SUBSET (policySets \ purge.passed), todo \in SUBSET Entry :
                /\ Listed(todo) = Listed(purge.todoPs) \cup found
                /\ \/ PurgeBecomes("morePs", todo, purge.todoWs, purge.cur, purge.destroy,
                                   purge.errors, purge.warned, purge.taken, purge.beside,
                                   purge.passed \cup found, purge.missed)
                   \/ /\ found = policySets \ purge.passed
                      /\ PurgeBecomes("listWs", todo, purge.todoWs, purge.cur, purge.destroy,
                                   purge.errors, purge.warned, purge.taken, purge.beside,
                                   {}, purge.missed)
                   \/ PurgeBecomes("fatal", purge.todoPs, purge.todoWs, purge.cur,
                                   purge.destroy, purge.errors, purge.warned, purge.taken,
                                   purge.beside, {}, purge.missed)
<1>1. purge \in PurgeRecord /\ policySets \subseteq Execs
  BY PurgeTyped DEF TypeOK
<1>2. /\ purge.pc \in {"listPs", "morePs"}
      /\ \E found \in SUBSET (policySets \ purge.passed) :
           \/ purge' = [purge EXCEPT !.pc = "morePs", !.passed = purge.passed \cup found,
                              !.todoPs = purge.todoPs \cup Entries(found, purge.todoPs)]
           \/ /\ found = policySets \ purge.passed
              /\ purge' = [purge EXCEPT !.pc = "listWs", !.passed = {},
                              !.todoPs = purge.todoPs \cup Entries(found, purge.todoPs)]
           \/ purge' = [purge EXCEPT !.pc = "fatal", !.passed = {}]
  BY DEF ListPolicySets
<1>3. PICK found \in SUBSET (policySets \ purge.passed) :
           \/ purge' = [purge EXCEPT !.pc = "morePs", !.passed = purge.passed \cup found,
                              !.todoPs = purge.todoPs \cup Entries(found, purge.todoPs)]
           \/ /\ found = policySets \ purge.passed
              /\ purge' = [purge EXCEPT !.pc = "listWs", !.passed = {},
                              !.todoPs = purge.todoPs \cup Entries(found, purge.todoPs)]
           \/ purge' = [purge EXCEPT !.pc = "fatal", !.passed = {}]
  BY <1>2
<1> DEFINE todo == purge.todoPs \cup Entries(found, purge.todoPs)
           passed == purge.passed \cup found
<1>4. todo \in SUBSET Entry /\ Listed(todo) = Listed(purge.todoPs) \cup found
  BY <1>1, EntriesListed DEF PurgeRecord
<1>5. passed \in SUBSET Execs
  BY <1>1 DEF PurgeRecord
<1>6. \/ purge' = [purge EXCEPT !.pc = "morePs", !.passed = passed, !.todoPs = todo]
      \/ /\ found = policySets \ purge.passed
         /\ purge' = [purge EXCEPT !.pc = "listWs", !.passed = {}, !.todoPs = todo]
      \/ purge' = [purge EXCEPT !.pc = "fatal", !.passed = {}]
  BY <1>3
<1> HIDE DEF todo, passed
<1>7. CASE purge' = [purge EXCEPT !.pc = "morePs", !.passed = passed, !.todoPs = todo]
  <2>1. PurgeBecomes("morePs", todo, purge.todoWs, purge.cur, purge.destroy,
                     purge.errors, purge.warned, purge.taken, purge.beside,
                     passed, purge.missed)
    BY <1>1, <1>4, <1>5, <1>7 DEF PurgeBecomes, PurgeRecord, PurgePoints
  <2> QED BY <1>2, <1>4, <2>1 DEF passed
<1>8. CASE /\ found = policySets \ purge.passed
           /\ purge' = [purge EXCEPT !.pc = "listWs", !.passed = {}, !.todoPs = todo]
  <2>1. PurgeBecomes("listWs", todo, purge.todoWs, purge.cur, purge.destroy,
                     purge.errors, purge.warned, purge.taken, purge.beside,
                     {}, purge.missed)
    BY <1>1, <1>4, <1>8 DEF PurgeBecomes, PurgeRecord, PurgePoints
  <2> QED BY <1>2, <1>4, <1>8, <2>1
<1>9. CASE purge' = [purge EXCEPT !.pc = "fatal", !.passed = {}]
  <2>1. PurgeBecomes("fatal", purge.todoPs, purge.todoWs, purge.cur, purge.destroy,
                     purge.errors, purge.warned, purge.taken, purge.beside,
                     {}, purge.missed)
    BY <1>1, <1>9 DEF PurgeBecomes, PurgeRecord, PurgePoints
  <2> QED BY <1>2, <1>4, <2>1
<1> QED BY <1>6, <1>7, <1>8, <1>9

LEMMA ListWsFields ==
    ASSUME PurgeTypeOK, ListWorkspaces
    PROVE  /\ purge.pc \in {"listWs", "moreWs"}
           /\ \E found \in SUBSET (workspaces \ purge.passed), todo \in SUBSET Entry :
                /\ Listed(todo) = Listed(purge.todoWs) \cup found
                /\ \/ PurgeBecomes("moreWs", purge.todoPs, todo, purge.cur, purge.destroy,
                                   purge.errors, purge.warned, purge.taken, purge.beside,
                                   purge.passed \cup found, purge.missed)
                   \/ /\ found = workspaces \ purge.passed
                      /\ PurgeBecomes("sweep", purge.todoPs, todo, purge.cur, purge.destroy,
                                   purge.errors, purge.warned, purge.taken, purge.beside,
                                   {}, purge.missed)
                   \/ PurgeBecomes("fatal", purge.todoPs, purge.todoWs, purge.cur,
                                   purge.destroy, purge.errors, purge.warned, purge.taken,
                                   purge.beside, {}, purge.missed)
<1>1. purge \in PurgeRecord /\ workspaces \subseteq Execs
  BY PurgeTyped DEF TypeOK
<1>2. /\ purge.pc \in {"listWs", "moreWs"}
      /\ \E found \in SUBSET (workspaces \ purge.passed) :
           \/ purge' = [purge EXCEPT !.pc = "moreWs", !.passed = purge.passed \cup found,
                              !.todoWs = purge.todoWs \cup Entries(found, purge.todoWs)]
           \/ /\ found = workspaces \ purge.passed
              /\ purge' = [purge EXCEPT !.pc = "sweep", !.passed = {},
                              !.todoWs = purge.todoWs \cup Entries(found, purge.todoWs)]
           \/ purge' = [purge EXCEPT !.pc = "fatal", !.passed = {}]
  BY DEF ListWorkspaces
<1>3. PICK found \in SUBSET (workspaces \ purge.passed) :
           \/ purge' = [purge EXCEPT !.pc = "moreWs", !.passed = purge.passed \cup found,
                              !.todoWs = purge.todoWs \cup Entries(found, purge.todoWs)]
           \/ /\ found = workspaces \ purge.passed
              /\ purge' = [purge EXCEPT !.pc = "sweep", !.passed = {},
                              !.todoWs = purge.todoWs \cup Entries(found, purge.todoWs)]
           \/ purge' = [purge EXCEPT !.pc = "fatal", !.passed = {}]
  BY <1>2
<1> DEFINE todo == purge.todoWs \cup Entries(found, purge.todoWs)
           passed == purge.passed \cup found
<1>4. todo \in SUBSET Entry /\ Listed(todo) = Listed(purge.todoWs) \cup found
  BY <1>1, EntriesListed DEF PurgeRecord
<1>5. passed \in SUBSET Execs
  BY <1>1 DEF PurgeRecord
<1>6. \/ purge' = [purge EXCEPT !.pc = "moreWs", !.passed = passed, !.todoWs = todo]
      \/ /\ found = workspaces \ purge.passed
         /\ purge' = [purge EXCEPT !.pc = "sweep", !.passed = {}, !.todoWs = todo]
      \/ purge' = [purge EXCEPT !.pc = "fatal", !.passed = {}]
  BY <1>3
<1> HIDE DEF todo, passed
<1>7. CASE purge' = [purge EXCEPT !.pc = "moreWs", !.passed = passed, !.todoWs = todo]
  <2>1. PurgeBecomes("moreWs", purge.todoPs, todo, purge.cur, purge.destroy,
                     purge.errors, purge.warned, purge.taken, purge.beside,
                     passed, purge.missed)
    BY <1>1, <1>4, <1>5, <1>7 DEF PurgeBecomes, PurgeRecord, PurgePoints
  <2> QED BY <1>2, <1>4, <2>1 DEF passed
<1>8. CASE /\ found = workspaces \ purge.passed
           /\ purge' = [purge EXCEPT !.pc = "sweep", !.passed = {}, !.todoWs = todo]
  <2>1. PurgeBecomes("sweep", purge.todoPs, todo, purge.cur, purge.destroy,
                     purge.errors, purge.warned, purge.taken, purge.beside,
                     {}, purge.missed)
    BY <1>1, <1>4, <1>8 DEF PurgeBecomes, PurgeRecord, PurgePoints
  <2> QED BY <1>2, <1>4, <1>8, <2>1
<1>9. CASE purge' = [purge EXCEPT !.pc = "fatal", !.passed = {}]
  <2>1. PurgeBecomes("fatal", purge.todoPs, purge.todoWs, purge.cur, purge.destroy,
                     purge.errors, purge.warned, purge.taken, purge.beside,
                     {}, purge.missed)
    BY <1>1, <1>9 DEF PurgeBecomes, PurgeRecord, PurgePoints
  <2> QED BY <1>2, <1>4, <2>1
<1> QED BY <1>6, <1>7, <1>8, <1>9

LEMMA DeletePsFields ==
    ASSUME PurgeTypeOK, DeleteListedPolicySet
    PROVE  \E x \in purge.todoPs, err \in BOOLEAN :
              /\ \/ x[1] \in policySets /\ DeletesPolicySet(x[1])
                 \/ UNCHANGED hcp /\ err
              /\ PurgeBecomes(purge.pc, purge.todoPs \ {x}, purge.todoWs, purge.cur,
                              purge.destroy, purge.errors \/ err, purge.warned,
                              IF x[1] \in policySets \ policySets'
                              THEN Taken(x[1]) ELSE purge.taken,
                              purge.beside, purge.passed, purge.missed)
<1>0. purge \in PurgeRecord
  BY PurgeTyped
<1>1. PICK x \in purge.todoPs, err \in BOOLEAN :
              /\ \/ x[1] \in policySets /\ DeletesPolicySet(x[1])
                 \/ UNCHANGED hcp /\ err
              /\ purge' = [purge EXCEPT
                             !.todoPs = purge.todoPs \ {x},
                             !.errors = (purge.errors \/ err),
                             !.taken = IF x[1] \in policySets \ policySets'
                                       THEN Taken(x[1]) ELSE purge.taken]
  BY DeletePsStep
<1> DEFINE taken == IF x[1] \in policySets \ policySets' THEN Taken(x[1]) ELSE purge.taken
           errors == purge.errors \/ err
           todo == purge.todoPs \ {x}
<1>2. taken \subseteq Execs /\ errors \in BOOLEAN /\ todo \in SUBSET Entry
  <2>1. x[1] \in Execs /\ purge.taken \subseteq Execs
    BY <1>0, EntryTaken DEF PurgeRecord
  <2>2. taken \subseteq Execs
    BY <2>1 DEF Taken
  <2>3. errors \in BOOLEAN
    OBVIOUS
  <2>4. todo \in SUBSET Entry
    BY <1>0 DEF PurgeRecord
  <2> QED BY <2>2, <2>3, <2>4
<1>3. purge' = [purge EXCEPT !.todoPs = todo, !.errors = errors, !.taken = taken]
  BY <1>1
<1> HIDE DEF taken, errors, todo
<1>4. PurgeBecomes(purge.pc, todo, purge.todoWs, purge.cur,
                   purge.destroy, errors, purge.warned, taken, purge.beside,
                   purge.passed, purge.missed)
  BY <1>0, <1>2, <1>3 DEF PurgeBecomes, PurgeRecord
<1> QED BY <1>1, <1>4 DEF taken, errors, todo

LEMMA DeleteWsFields ==
    ASSUME PurgeTypeOK, DeleteListedWorkspace
    PROVE  \E err \in BOOLEAN :
              /\ \/ purge.cur \in workspaces /\ DeletesWorkspace(purge.cur)
                 \/ UNCHANGED hcp /\ err
              /\ PurgeBecomes("sweep", purge.todoPs, purge.todoWs, NoId, purge.destroy,
                              purge.errors \/ err, FALSE,
                              IF purge.cur \in workspaces \ workspaces'
                              THEN Taken(purge.cur) ELSE purge.taken,
                              purge.beside, purge.passed, purge.missed)
<1>0. purge \in PurgeRecord
  BY PurgeTyped
<1>1. PICK err \in BOOLEAN :
              /\ \/ purge.cur \in workspaces /\ DeletesWorkspace(purge.cur)
                 \/ UNCHANGED hcp /\ err
              /\ purge' = [purge EXCEPT
                             !.pc = "sweep", !.cur = NoId, !.warned = FALSE,
                             !.errors = (purge.errors \/ err),
                             !.taken = IF purge.cur \in workspaces \ workspaces'
                                       THEN Taken(purge.cur) ELSE purge.taken]
  BY DeleteWsStep
<1> DEFINE taken == IF purge.cur \in workspaces \ workspaces'
                    THEN Taken(purge.cur) ELSE purge.taken
           errors == purge.errors \/ err
<1>2. taken \subseteq Execs /\ errors \in BOOLEAN
  <2>1. errors \in BOOLEAN
    OBVIOUS
  <2>2. purge.taken \subseteq Execs
    BY <1>0 DEF PurgeRecord
  <2>3. purge.cur \in workspaces => Taken(purge.cur) \subseteq Execs
    BY <2>2, PurgeTyped DEF Taken, TypeOK
  <2> QED BY <2>1, <2>2, <2>3
<1>3. purge' = [purge EXCEPT !.pc = "sweep", !.cur = NoId, !.warned = FALSE,
                             !.errors = errors, !.taken = taken]
  BY <1>1
<1> HIDE DEF taken, errors
<1>4. PurgeBecomes("sweep", purge.todoPs, purge.todoWs, NoId, purge.destroy,
                   errors, FALSE, taken, purge.beside, purge.passed, purge.missed)
  BY <1>0, <1>2, <1>3 DEF PurgeBecomes, PurgeRecord, PurgePoints
<1> QED BY <1>1, <1>4 DEF taken, errors

LEMMA TakeFields ==
    ASSUME PurgeTypeOK, TakeWorkspace
    PROVE  \E x \in purge.todoWs :
              PurgeBecomes("destroy", purge.todoPs, purge.todoWs \ {x}, x[1], purge.destroy,
                           purge.errors, purge.warned, purge.taken, purge.beside,
                           purge.passed, purge.missed)
<1>0. purge \in PurgeRecord
  BY PurgeTyped
<1>1. PICK x \in purge.todoWs :
        purge' = [purge EXCEPT !.pc = "destroy", !.cur = x[1],
                               !.todoWs = purge.todoWs \ {x}]
  BY DEF TakeWorkspace
<1> DEFINE todo == purge.todoWs \ {x}  w == x[1]
<1>2. w \in Execs /\ todo \in SUBSET Entry
  BY <1>0, EntryTaken DEF PurgeRecord
<1>3. purge' = [purge EXCEPT !.pc = "destroy", !.cur = w, !.todoWs = todo]
  BY <1>1
<1> HIDE DEF todo, w
<1>4. PurgeBecomes("destroy", purge.todoPs, todo, w, purge.destroy,
                   purge.errors, purge.warned, purge.taken, purge.beside,
                   purge.passed, purge.missed)
  BY <1>0, <1>2, <1>3 DEF PurgeBecomes, PurgeRecord, PurgePoints
<1> QED BY <1>4 DEF todo, w

LEMMA QueueFields ==
    ASSUME PurgeTypeOK, QueuePurgeDestroy, purge.cur \in Execs
    PROVE  \/ \E pc \in {"awaitDestroy", "delete"}, warned \in BOOLEAN :
                 /\ pc = "delete" => warned
                 /\ PurgeBecomes(pc, purge.todoPs, purge.todoWs, purge.cur,
                                 [purge.destroy EXCEPT ![purge.cur] = "queued"],
                                 purge.errors, warned, purge.taken, purge.beside,
                                 purge.passed, purge.missed)
           \/ PurgeBecomes("delete", purge.todoPs, purge.todoWs, purge.cur, purge.destroy,
                           purge.errors, TRUE, purge.taken, purge.beside,
                           purge.passed, purge.missed)
<1>0. purge \in PurgeRecord
  BY PurgeTyped
<1> DEFINE runs == [purge.destroy EXCEPT ![purge.cur] = "queued"]
<1>1. runs \in [Execs -> DestroyStates]
  BY <1>0 DEF PurgeRecord, DestroyStates
<1>2. \/ purge' = [purge EXCEPT !.pc = "awaitDestroy", !.destroy = runs]
      \/ purge' = [purge EXCEPT !.pc = "delete", !.destroy = runs, !.warned = TRUE]
      \/ purge' = [purge EXCEPT !.pc = "delete", !.warned = TRUE]
  BY <1>0 DEF QueuePurgeDestroy, Warns, PurgeRecord
<1> HIDE DEF runs
<1>3. CASE purge' = [purge EXCEPT !.pc = "awaitDestroy", !.destroy = runs]
  <2>1. PurgeBecomes("awaitDestroy", purge.todoPs, purge.todoWs, purge.cur, runs,
                     purge.errors, purge.warned, purge.taken, purge.beside,
                     purge.passed, purge.missed)
    BY <1>0, <1>1, <1>3 DEF PurgeBecomes, PurgeRecord, PurgePoints
  <2>2. purge.warned \in BOOLEAN
    BY <1>0 DEF PurgeRecord
  <2> QED BY <2>1, <2>2 DEF runs
<1>4. CASE purge' = [purge EXCEPT !.pc = "delete", !.destroy = runs, !.warned = TRUE]
  <2>1. PurgeBecomes("delete", purge.todoPs, purge.todoWs, purge.cur, runs,
                     purge.errors, TRUE, purge.taken, purge.beside, purge.passed, purge.missed)
    BY <1>0, <1>1, <1>4 DEF PurgeBecomes, PurgeRecord, PurgePoints
  <2> QED BY <2>1 DEF runs
<1>5. CASE purge' = [purge EXCEPT !.pc = "delete", !.warned = TRUE]
  BY <1>0, <1>5 DEF PurgeBecomes, PurgeRecord, PurgePoints
<1> QED BY <1>2, <1>3, <1>4, <1>5

LEMMA AwaitFields ==
    ASSUME PurgeTypeOK, AwaitPurgeDestroy
    PROVE  \E warned \in BOOLEAN :
              /\ ~warned => purge.destroy[purge.cur] \in {"done", "failed"}
              /\ PurgeBecomes("delete", purge.todoPs, purge.todoWs, purge.cur,
                              purge.destroy, purge.errors, warned, purge.taken,
                              purge.beside, purge.passed, purge.missed)
<1>0. purge \in PurgeRecord /\ purge.warned \in BOOLEAN
  BY PurgeTyped DEF PurgeRecord
<1>1. \/ /\ purge.destroy[purge.cur] \in {"done", "failed"}
         /\ purge' = [purge EXCEPT !.pc = "delete"]
      \/ purge' = [purge EXCEPT !.pc = "delete", !.warned = TRUE]
  BY DEF AwaitPurgeDestroy, Warns
<1>2. CASE purge' = [purge EXCEPT !.pc = "delete"] /\
           purge.destroy[purge.cur] \in {"done", "failed"}
  <2>1. PurgeBecomes("delete", purge.todoPs, purge.todoWs, purge.cur, purge.destroy,
                     purge.errors, purge.warned, purge.taken, purge.beside,
                     purge.passed, purge.missed)
    BY <1>0, <1>2 DEF PurgeBecomes, PurgeRecord, PurgePoints
  <2> QED BY <1>0, <1>2, <2>1
<1>3. CASE purge' = [purge EXCEPT !.pc = "delete", !.warned = TRUE]
  <2>1. PurgeBecomes("delete", purge.todoPs, purge.todoWs, purge.cur, purge.destroy,
                     purge.errors, TRUE, purge.taken, purge.beside, purge.passed, purge.missed)
    BY <1>0, <1>3 DEF PurgeBecomes, PurgeRecord, PurgePoints
  <2> QED BY <2>1
<1> QED BY <1>1, <1>2, <1>3

LEMMA EndsFields ==
    ASSUME PurgeTypeOK, NEW w \in Execs, PurgeDestroyEnds(w)
    PROVE  \E end \in {"done", "failed"} :
              /\ resources' = IF end = "done" THEN resources \ {w} ELSE resources
              /\ PurgeBecomes(purge.pc, purge.todoPs, purge.todoWs, purge.cur,
                              [purge.destroy EXCEPT ![w] = end], purge.errors,
                              purge.warned, purge.taken, purge.beside, purge.passed, purge.missed)
<1>0. purge \in PurgeRecord
  BY PurgeTyped
<1>1. PICK end \in {"done", "failed"} :
        /\ resources' = IF end = "done" THEN resources \ {w} ELSE resources
        /\ purge' = [purge EXCEPT !.destroy = [purge.destroy EXCEPT ![w] = end]]
  BY <1>0 DEF PurgeDestroyEnds, PurgeRecord
<1>2. [purge.destroy EXCEPT ![w] = end] \in [Execs -> DestroyStates]
  BY <1>0 DEF PurgeRecord, DestroyStates
<1>3. PurgeBecomes(purge.pc, purge.todoPs, purge.todoWs, purge.cur,
                   [purge.destroy EXCEPT ![w] = end], purge.errors,
                   purge.warned, purge.taken, purge.beside, purge.passed, purge.missed)
  BY <1>0, <1>1, <1>2 DEF PurgeBecomes, PurgeRecord
<1> QED BY <1>1, <1>3

LEMMA ReturnFields ==
    ASSUME PurgeTypeOK, PurgeReturns
    PROVE  PurgeBecomes("done", purge.todoPs, purge.todoWs, purge.cur, purge.destroy,
                        purge.errors, purge.warned, purge.taken, purge.beside,
                        purge.passed, purge.missed)
<1>0. purge \in PurgeRecord
  BY PurgeTyped
<1> QED BY <1>0 DEF PurgeReturns, PurgeBecomes, PurgeRecord, PurgePoints

\* What moves is there; and what moved up is on record.
LEMMA PassedWithin ==
    ASSUME PurgeTypeOK, NEW passed \in Passed,
           policySets' \subseteq Execs, workspaces' \subseteq Execs
    PROVE  /\ passed \subseteq ListAfter
           /\ ListAfter = ListBefore /\ purge.passed \subseteq ListBefore
                 => passed = purge.passed
           /\ passed \in SUBSET Execs
<1>1. ListAfter \subseteq Execs
  BY DEF ListAfter
<1> DEFINE kept == purge.passed \cap ListAfter
           new == ListAfter \ ListBefore
<1>2. /\ \A up \in AtMostOneOf(ListAfter \ kept) : up \subseteq ListAfter
      /\ \A down \in AtMostOneOf(kept) : (kept \cup new) \ down \subseteq ListAfter
  BY DEF AtMostOneOf
<1>3. \/ passed = kept
      \/ kept # purge.passed /\ \E up \in AtMostOneOf(ListAfter \ kept) : passed = kept \cup up
      \/ new # {} /\ \E down \in AtMostOneOf(kept) : passed = (kept \cup new) \ down
  BY DEF Passed
<1> QED BY <1>1, <1>2, <1>3

LEMMA SuiteFields ==
    ASSUME PurgeTypeOK, SuiteStep
    PROVE  \E running \in SUBSET Execs, passed \in SUBSET Execs :
              /\ IF purge.pc = "idle" THEN running = {}
                                      ELSE running = {e \in Execs : Alive(e)'}
              /\ IF BetweenPages THEN passed \in Passed ELSE passed = {}
              /\ PurgeBecomes(purge.pc, purge.todoPs, purge.todoWs, purge.cur,
                              purge.destroy, purge.errors, purge.warned,
                              purge.taken \cup Robbed, purge.beside \cup running,
                              passed, purge.missed \cup MovedUp(passed))
<1>0. /\ purge \in PurgeRecord /\ TypeOK /\ TypeOK'
      /\ policySets' \subseteq Execs /\ workspaces' \subseteq Execs
  BY PurgeTyped, NextType DEF SuiteStep, TypeOK
<1> DEFINE running == IF purge.pc = "idle" THEN {} ELSE {e \in Execs : Alive(e)'}
           taken == purge.taken \cup Robbed
           beside == purge.beside \cup running
<1>1. PICK passed \in IF BetweenPages THEN Passed ELSE {{}} :
        purge' = [purge EXCEPT !.taken = taken, !.beside = beside, !.passed = passed,
                               !.missed = purge.missed \cup MovedUp(passed)]
  BY DEF SuiteStep
<1>2. running \in SUBSET Execs
  OBVIOUS
<1>3. taken \in SUBSET Execs /\ beside \in SUBSET Execs
  BY <1>0, <1>2 DEF PurgeRecord, Robbed
<1>4. passed \in SUBSET Execs
  BY <1>0, <1>1, PassedWithin
<1> DEFINE missed == purge.missed \cup MovedUp(passed)
<1>5. missed \in SUBSET Execs
  BY <1>0, <1>4 DEF PurgeRecord, MovedUp
<1>6. purge' = [purge EXCEPT !.taken = taken, !.beside = beside, !.passed = passed,
                             !.missed = missed]
  BY <1>1
<1> HIDE DEF taken, beside, missed
<1>7. PurgeBecomes(purge.pc, purge.todoPs, purge.todoWs, purge.cur, purge.destroy,
                   purge.errors, purge.warned, taken, beside, passed, missed)
  BY <1>0, <1>3, <1>4, <1>5, <1>6 DEF PurgeBecomes, PurgeRecord
<1>8. IF BetweenPages THEN passed \in Passed ELSE passed = {}
  BY <1>1
<1> QED BY <1>2, <1>4, <1>7, <1>8 DEF taken, beside, missed

LEMMA OthersFields ==
    ASSUME PurgeTypeOK, OthersMove
    PROVE  \E passed \in SUBSET Execs :
              /\ BetweenPages /\ "others" \in PurgeFaults
              /\ passed \subseteq purge.passed \cup ListBefore
              /\ PurgeBecomes(purge.pc, purge.todoPs, purge.todoWs, purge.cur,
                              purge.destroy, purge.errors, purge.warned,
                              purge.taken, purge.beside,
                              passed, purge.missed \cup MovedUp(passed))
<1>0. purge \in PurgeRecord /\ ListBefore \subseteq Execs
  BY PurgeTyped DEF TypeOK, ListBefore
<1>1. PICK o \in ListBefore : LET passed == IF o \in purge.passed THEN purge.passed \ {o}
                                                              ELSE purge.passed \cup {o}
         IN  purge' = [purge EXCEPT !.passed = passed,
                                    !.missed = purge.missed \cup MovedUp(passed)]
  BY DEF OthersMove
<1> DEFINE passed == IF o \in purge.passed THEN purge.passed \ {o} ELSE purge.passed \cup {o}
           missed == purge.missed \cup MovedUp(passed)
<1>2. passed \in SUBSET Execs /\ passed \subseteq purge.passed \cup ListBefore
  BY <1>0 DEF PurgeRecord
<1>3. missed \in SUBSET Execs
  BY <1>0, <1>2 DEF PurgeRecord, MovedUp
<1>4. purge' = [purge EXCEPT !.passed = passed, !.missed = missed]
  BY <1>1
<1> HIDE DEF passed, missed
<1>5. PurgeBecomes(purge.pc, purge.todoPs, purge.todoWs, purge.cur, purge.destroy,
                   purge.errors, purge.warned, purge.taken, purge.beside, passed, missed)
  BY <1>0, <1>2, <1>3, <1>4 DEF PurgeBecomes, PurgeRecord
<1> QED BY <1>2, <1>5 DEF OthersMove, missed

-----------------------------------------------------------------------------
(* What the executions may do, whoever takes their objects away.            *)

LEMMA SuiteDeed ==
    ASSUME TypeOK, Next
    PROVE  \/ \E x \in Execs : Alive(x) /\ Deed(x)
           \/ UNCHANGED hcp
           \/ \E w \in Execs : RunMoves(w) \/ DestroyEnds(w)
<1>1. ASSUME NEW x \in Execs, Start(x) \/ Crash(x)
      PROVE  UNCHANGED hcp
  BY <1>1 DEF Start, Crash
<1> QED BY <1>1, StepDeed DEF Next

\* What an execution that is not alive owns can only disappear, and what was
\* destroyed stays so.
LEMMA SuiteOwn ==
    ASSUME PurgeTypeOK, OwnAttached, Next
    PROVE  /\ OwnAttached'
           /\ \A y \in Execs : ~Alive(y) =>
                /\ y \in workspaces' => y \in workspaces
                /\ y \in policySets' => y \in policySets
                /\ y \notin resources /\ run[y] \in Over \cup {NoRun}
                     => y \notin resources' /\ run'[y] \in Over \cup {NoRun}
<1> DEFINE Owned ==
             /\ OwnAttached'
             /\ \A y \in Execs : ~Alive(y) =>
                /\ y \in workspaces' => y \in workspaces
                /\ y \in policySets' => y \in policySets
                /\ y \notin resources /\ run[y] \in Over \cup {NoRun}
                     => y \notin resources' /\ run'[y] \in Over \cup {NoRun}
<1>0. TypeOK
  BY PurgeTyped
<1>1. CASE UNCHANGED hcp
  BY <1>1 DEF hcp, OwnAttached
<1>2. ASSUME NEW x \in Execs, Alive(x), Deed(x)
      PROVE  Owned
  <2>1. CASE workspaces' = workspaces \cup {x} /\
             UNCHANGED <<policySets, attached, run, destroy, resources>>
    BY <1>2, <2>1 DEF OwnAttached
  <2>2. CASE CreatesPolicySet(x)
    BY <1>0, <1>2, <2>2 DEF CreatesPolicySet, OwnAttached, TypeOK
  <2>3. ASSUME NEW w \in Targets(x), DeletesWorkspace(w)
        PROVE  Owned
    BY <2>3 DEF DeletesWorkspace, OwnAttached
  <2>4. ASSUME NEW w \in Targets(x), DeletesPolicySet(w) \/ QueuesDestroy(w)
        PROVE  Owned
    BY <2>4 DEF DeletesPolicySet, QueuesDestroy, OwnAttached
  <2>5. CASE /\ \A y \in Execs \ {x} : run'[y] = run[y]
             /\ resources' \in {resources, resources \cup {x}}
             /\ UNCHANGED <<workspaces, policySets, attached, destroy>>
    BY <1>2, <2>5 DEF OwnAttached
  <2> QED BY <1>1, <1>2, <2>1, <2>2, <2>3, <2>4, <2>5 DEF Deed
<1>3. ASSUME NEW w \in Execs, RunMoves(w)
      PROVE  Owned
  <2>1. run[w] \notin Over \cup {NoRun}
    BY <1>3 DEF RunMoves, NextPhases, Over
  <2>2. \A y \in Execs \ {w} : run'[y] = run[y] /\ (y \in resources' <=> y \in resources)
    BY <1>0, <1>3 DEF RunMoves, TypeOK
  <2> QED BY <1>3, <2>1, <2>2 DEF RunMoves, OwnAttached
<1>4. ASSUME NEW w \in Execs, DestroyEnds(w)
      PROVE  Owned
  BY <1>4 DEF DestroyEnds, OwnAttached
<1> QED BY <1>0, <1>1, <1>2, <1>3, <1>4, SuiteDeed

-----------------------------------------------------------------------------
(* The invariant of the purge.                                             *)

LEMMA PurgeTypeKept ==
    ASSUME PurgeTypeOK, TypeOK', purge' \in PurgeRecord
    PROVE  PurgeTypeOK'
BY DEF PurgeTypeOK, PurgeRecord

LEMMA PurgeInvFirst == PurgeInit => PurgeInv
<1> SUFFICES ASSUME PurgeInit PROVE PurgeInv
  OBVIOUS
<1>1. TypeOK /\ purge = NewPurge("idle") /\ OwnAttached
  BY InitInv DEF PurgeInit, Inv, Init, OwnAttached
<1>2. /\ purge.pc = "idle" /\ purge.cur = NoId
      /\ purge.destroy = [w \in Execs |-> "none"]
      /\ purge.todoPs = {} /\ purge.todoWs = {}
      /\ purge.passed = {} /\ purge.missed = {}
  BY <1>1, NewPurgeFields DEF PurgePoints
<1>3. purge \in PurgeRecord
  BY <1>1, NewPurgeType DEF PurgePoints
<1> QED BY <1>1, <1>2, <1>3 DEF PurgeInv, PurgeTypeOK, PurgeRecord, Beside, PurgePointInv,
           PagesInv, BetweenPages, CoverInv, DestroyedInv, Holding

\* A step of somebody else between two pages: what moved up is listed or on record,
\* and what is new is the object of an execution that is alive.
LEMMA PagesKept ==
    ASSUME PurgeTypeOK, PagesInv, NEW passed, passed \subseteq purge.passed \cup ListAfter,
           ListAfter \ ListBefore \subseteq purge'.beside,
           purge.beside \subseteq purge'.beside,
           purge'.missed = purge.missed \cup MovedUp(passed)
    PROVE  /\ purge.pc = "morePs" =>
                passed \subseteq Listed(purge.todoPs) \cup purge'.beside \cup purge'.missed
           /\ purge.pc = "moreWs" =>
                passed \subseteq Listed(purge.todoWs) \cup purge'.beside \cup purge'.missed
<1>1. ASSUME purge.pc = "morePs"
      PROVE  passed \subseteq Listed(purge.todoPs) \cup purge'.beside \cup purge'.missed
  <2>1. purge.passed \subseteq Listed(purge.todoPs) \cup purge.beside \cup purge.missed
    BY <1>1 DEF PagesInv, Excused
  <2>2. MovedUp(passed) = (passed \cap ListBefore)
                              \ (purge.passed \cup Listed(purge.todoPs))
    BY <1>1 DEF MovedUp
  <2> QED BY <2>1, <2>2
<1>2. ASSUME purge.pc = "moreWs"
      PROVE  passed \subseteq Listed(purge.todoWs) \cup purge'.beside \cup purge'.missed
  <2>1. purge.passed \subseteq Listed(purge.todoWs) \cup purge.beside \cup purge.missed
    BY <1>2 DEF PagesInv, Excused
  <2>2. MovedUp(passed) = (passed \cap ListBefore)
                              \ (purge.passed \cup Listed(purge.todoWs))
    BY <1>2 DEF MovedUp
  <2> QED BY <2>1, <2>2
<1> QED BY <1>1, <1>2

\* Nothing is created or deleted when no execution is alive.
LEMMA QuietSuite ==
    ASSUME TypeOK, Next, \A e \in Execs : ~Alive(e)
    PROVE  workspaces' = workspaces /\ policySets' = policySets
BY SuiteDeed DEF hcp, RunMoves, DestroyEnds

LEMMA SuiteInv ==
    ASSUME PurgeInv, SuiteStep
    PROVE  PurgeInv'
<1>1. PurgeTypeOK /\ OwnAttached /\ TypeOK /\ Next /\ purge \in PurgeRecord
  BY PurgeTyped DEF PurgeInv, SuiteStep
<1>2. TypeOK' /\ OwnAttached'
  BY <1>1, NextType, SuiteOwn
<1>3. PICK running \in SUBSET Execs, passed \in SUBSET Execs :
         /\ IF purge.pc = "idle" THEN running = {} ELSE running = {e \in Execs : Alive(e)'}
         /\ IF BetweenPages THEN passed \in Passed ELSE passed = {}
         /\ PurgeBecomes(purge.pc, purge.todoPs, purge.todoWs, purge.cur,
                         purge.destroy, purge.errors, purge.warned,
                         purge.taken \cup Robbed, purge.beside \cup running,
                         passed, purge.missed \cup MovedUp(passed))
  BY <1>1, SuiteFields
<1>4. PurgeTypeOK'
  BY <1>1, <1>2, <1>3, PurgeTypeKept DEF PurgeBecomes
<1>5. CASE purge.pc = "idle"
  <2>1. passed = {} /\ MovedUp(passed) = {}
    BY <1>3, <1>5 DEF BetweenPages, MovedUp
  <2>2. PagesInv'
    BY <1>3, <1>5, <2>1 DEF PurgeInv, PurgeBecomes, PagesInv, BetweenPages
  <2> QED BY <1>2, <1>3, <1>4, <1>5, <2>2 DEF PurgeInv, PurgeBecomes, Beside, PurgePointInv,
      CoverInv, DestroyedInv, Holding
<1>6. CASE purge.pc # "idle"
  <2>1. Beside' /\ PurgePointInv'
    BY <1>3, <1>6 DEF PurgeInv, PurgeBecomes, Beside, PurgePointInv
  <2>2. \A y \in Execs :
           purge.pc # "crashed" /\ y \notin purge.beside =>
             /\ y \in workspaces' => y \in workspaces
             /\ y \in policySets' => y \in policySets
             /\ y \notin resources /\ run[y] \in Over \cup {NoRun}
                  => y \notin resources' /\ run'[y] \in Over \cup {NoRun}
    BY <1>1, <1>6, SuiteOwn DEF PurgeInv, Beside
  <2>3. workspaces' \subseteq Execs /\ policySets' \subseteq Execs
    BY <1>2 DEF TypeOK
  <2>4. CoverInv'
    <3>1. Excused \subseteq Excused'
      BY <1>3 DEF PurgeBecomes, Excused
    <3>2. /\ purge'.pc = purge.pc /\ purge'.errors = purge.errors /\ purge'.cur = purge.cur
          /\ Listed(purge'.todoPs) = Listed(purge.todoPs)
          /\ Listed(purge'.todoWs) = Listed(purge.todoWs)
      BY <1>3 DEF PurgeBecomes
    <3>3. purge.beside \subseteq Excused
      BY DEF Excused
    <3> QED BY <1>6, <2>2, <2>3, <3>1, <3>2, <3>3 DEF PurgeInv, CoverInv, Holding
  <2>5. DestroyedInv'
    BY <1>3, <1>6, <2>2 DEF PurgeInv, PurgeBecomes, DestroyedInv
  <2>6. PagesInv'
    <3>1. CASE ~BetweenPages
      <4>1. passed = {} /\ MovedUp(passed) = {} /\ ~BetweenPages'
        BY <1>3, <3>1 DEF BetweenPages, MovedUp, PurgeBecomes
      <4> QED BY <1>3, <3>1, <4>1 DEF PurgeInv, PurgeBecomes, PagesInv, BetweenPages
    <3>2. CASE BetweenPages
      <4>1. BetweenPages' /\ ListBefore' = ListAfter
        BY <1>3, <3>2 DEF BetweenPages, ListBefore, ListAfter, PurgeBecomes
      <4>2. /\ passed \subseteq ListAfter
            /\ ListAfter = ListBefore /\ purge.passed \subseteq ListBefore
                 => passed = purge.passed
        BY <1>1, <1>3, <2>3, <3>2, PassedWithin
      <4>3. ListAfter \ ListBefore \subseteq purge'.beside
        BY <1>3, <2>2, <2>3, <3>2 DEF BetweenPages, ListBefore, ListAfter, PurgeBecomes
      <4>4. /\ purge.pc = "morePs" =>
                  passed \subseteq Listed(purge.todoPs) \cup purge'.beside \cup purge'.missed
            /\ purge.pc = "moreWs" =>
                  passed \subseteq Listed(purge.todoWs) \cup purge'.beside \cup purge'.missed
        BY <1>1, <1>3, <4>2, <4>3, PagesKept DEF PurgeInv, PurgeBecomes
      <4>5. ASSUME purge'.beside = {}, "others" \notin PurgeFaults
            PROVE  purge'.missed = {}
        <5>1. purge.beside = {} /\ purge.missed = {}
          BY <1>3, <4>5 DEF PurgeBecomes, PurgeInv, PagesInv
        <5>2. \A e \in Execs : ~Alive(e)
          BY <3>2, <5>1 DEF PurgeInv, Beside, BetweenPages
        <5>3. ListAfter = ListBefore
          BY <1>1, <5>2, QuietSuite DEF ListBefore, ListAfter
        <5>4. passed = purge.passed
          BY <3>2, <4>2, <5>3 DEF PurgeInv, PagesInv
        <5> QED BY <1>3, <5>1, <5>4 DEF PurgeBecomes, MovedUp
      <4> QED BY <1>3, <4>1, <4>2, <4>4, <4>5 DEF PagesInv, PurgeBecomes, Excused
    <3> QED BY <3>1, <3>2
  <2> QED BY <1>2, <1>4, <2>1, <2>4, <2>5, <2>6 DEF PurgeInv
<1> QED BY <1>5, <1>6

\* Somebody else's objects come and go.
LEMMA OthersInv ==
    ASSUME PurgeInv, OthersMove
    PROVE  PurgeInv'
<1>1. /\ PurgeTypeOK /\ OwnAttached /\ TypeOK /\ purge \in PurgeRecord
      /\ Beside /\ PurgePointInv /\ PagesInv /\ CoverInv /\ DestroyedInv
  BY PurgeTyped DEF PurgeInv
<1>2. UNCHANGED vars
  BY DEF OthersMove
<1>3. /\ TypeOK' /\ OwnAttached' /\ \A e \in Execs : Alive(e)' <=> Alive(e)
      /\ workspaces' = workspaces /\ policySets' = policySets
      /\ resources' = resources /\ run' = run
  BY <1>1, <1>2, NextType DEF vars, hcp, OwnAttached, Alive
<1>4. PICK passed \in SUBSET Execs :
              /\ BetweenPages /\ "others" \in PurgeFaults
              /\ passed \subseteq purge.passed \cup ListBefore
              /\ PurgeBecomes(purge.pc, purge.todoPs, purge.todoWs, purge.cur,
                              purge.destroy, purge.errors, purge.warned,
                              purge.taken, purge.beside,
                              passed, purge.missed \cup MovedUp(passed))
  BY <1>1, OthersFields
<1>5. Beside' /\ PurgePointInv' /\ DestroyedInv'
  BY <1>1, <1>3, <1>4 DEF Beside, PurgePointInv, DestroyedInv, PurgeBecomes
<1>6. PagesInv'
  <2>1. ListAfter = ListBefore /\ ListBefore' = ListBefore /\ BetweenPages'
    BY <1>3, <1>4 DEF ListAfter, ListBefore, BetweenPages, PurgeBecomes
  <2>2. purge.passed \subseteq ListBefore
    BY <1>1, <1>4 DEF PagesInv
  <2>3. /\ purge.pc = "morePs" =>
              passed \subseteq Listed(purge.todoPs) \cup purge'.beside \cup purge'.missed
        /\ purge.pc = "moreWs" =>
              passed \subseteq Listed(purge.todoWs) \cup purge'.beside \cup purge'.missed
    BY <1>1, <1>4, <2>1, PagesKept DEF PurgeBecomes
  <2> QED BY <1>4, <2>1, <2>2, <2>3 DEF PagesInv, PurgeBecomes, Excused
<1>7. CoverInv'
  BY <1>1, <1>3, <1>4 DEF CoverInv, Excused, PurgeBecomes, Holding
<1> QED BY <1>1, <1>3, <1>4, <1>5, <1>6, <1>7, PurgeTypeKept DEF PurgeInv, PurgeBecomes

\* A step of the purge that deletes nothing of the organisation.
LEMMA QuietStepInv ==
    ASSUME PurgeInv,
           \/ PurgeStart \/ ListPolicySets \/ ListWorkspaces \/ TakeWorkspace
           \/ QueuePurgeDestroy \/ AwaitPurgeDestroy \/ PurgeReturns \/ PurgeCrash
    PROVE  PurgeInv'
<1>1. PurgeTypeOK /\ OwnAttached /\ TypeOK /\ purge \in PurgeRecord
  BY PurgeTyped DEF PurgeInv
<1>2. UNCHANGED vars
  BY DEF PurgeStart, ListPolicySets, ListWorkspaces, TakeWorkspace, QueuePurgeDestroy,
         AwaitPurgeDestroy, PurgeReturns, PurgeCrash
<1>3. /\ TypeOK' /\ OwnAttached' /\ \A e \in Execs : Alive(e)' <=> Alive(e)
      /\ workspaces' = workspaces /\ policySets' = policySets
      /\ resources' = resources /\ run' = run
  BY <1>1, <1>2, NextType DEF vars, hcp, OwnAttached, Alive
<1> DEFINE Rest == Beside /\ PurgePointInv /\ PagesInv /\ CoverInv /\ DestroyedInv
<1>4. Rest
  BY DEF PurgeInv
<1>5. SUFFICES purge' \in PurgeRecord /\ Rest'
  BY <1>1, <1>3, PurgeTypeKept DEF PurgeInv
<1>a. /\ ListBefore' = IF purge'.pc = "morePs" THEN policySets ELSE workspaces
      /\ ListBefore = IF purge.pc = "morePs" THEN policySets ELSE workspaces
  BY <1>3 DEF ListBefore
<1> USE DEF Beside, PurgePointInv, PagesInv, BetweenPages, CoverInv, Excused, DestroyedInv,
            Holding, PurgeBecomes
<1>6. CASE PurgeStart
  BY <1>1, <1>3, <1>6, StartFields
<1>7. CASE ListPolicySets
  <2>1. PICK found \in SUBSET (policySets \ purge.passed), todo \in SUBSET Entry :
                /\ Listed(todo) = Listed(purge.todoPs) \cup found
                /\ \/ PurgeBecomes("morePs", todo, purge.todoWs, purge.cur, purge.destroy,
                                   purge.errors, purge.warned, purge.taken, purge.beside,
                                   purge.passed \cup found, purge.missed)
                   \/ /\ found = policySets \ purge.passed
                      /\ PurgeBecomes("listWs", todo, purge.todoWs, purge.cur, purge.destroy,
                                   purge.errors, purge.warned, purge.taken, purge.beside,
                                   {}, purge.missed)
                   \/ PurgeBecomes("fatal", purge.todoPs, purge.todoWs, purge.cur,
                                   purge.destroy, purge.errors, purge.warned, purge.taken,
                                   purge.beside, {}, purge.missed)
    BY <1>1, <1>7, ListPsFields
  <2>2. purge.pc \in {"listPs", "morePs"}
    BY <1>7 DEF ListPolicySets
  <2>3. purge.passed \subseteq Listed(purge.todoPs) \cup purge.beside \cup purge.missed
    BY <1>4, <2>2
  <2>4. purge.pc = "morePs" => purge.passed \subseteq policySets
    BY <1>4, <1>a
  <2>5. CASE PurgeBecomes("morePs", todo, purge.todoWs, purge.cur, purge.destroy,
                          purge.errors, purge.warned, purge.taken, purge.beside,
                          purge.passed \cup found, purge.missed)
    BY <1>3, <1>4, <1>a, <2>1, <2>2, <2>3, <2>4, <2>5
  <2>6. CASE /\ found = policySets \ purge.passed
             /\ PurgeBecomes("listWs", todo, purge.todoWs, purge.cur, purge.destroy,
                             purge.errors, purge.warned, purge.taken, purge.beside,
                             {}, purge.missed)
    BY <1>3, <1>4, <2>1, <2>2, <2>3, <2>6
  <2>7. CASE PurgeBecomes("fatal", purge.todoPs, purge.todoWs, purge.cur, purge.destroy,
                          purge.errors, purge.warned, purge.taken, purge.beside,
                          {}, purge.missed)
    BY <1>3, <1>4, <2>2, <2>7
  <2> QED BY <2>1, <2>5, <2>6, <2>7
<1>13. CASE ListWorkspaces
  <2>1. PICK found \in SUBSET (workspaces \ purge.passed), todo \in SUBSET Entry :
                /\ Listed(todo) = Listed(purge.todoWs) \cup found
                /\ \/ PurgeBecomes("moreWs", purge.todoPs, todo, purge.cur, purge.destroy,
                                   purge.errors, purge.warned, purge.taken, purge.beside,
                                   purge.passed \cup found, purge.missed)
                   \/ /\ found = workspaces \ purge.passed
                      /\ PurgeBecomes("sweep", purge.todoPs, todo, purge.cur, purge.destroy,
                                   purge.errors, purge.warned, purge.taken, purge.beside,
                                   {}, purge.missed)
                   \/ PurgeBecomes("fatal", purge.todoPs, purge.todoWs, purge.cur,
                                   purge.destroy, purge.errors, purge.warned, purge.taken,
                                   purge.beside, {}, purge.missed)
    BY <1>1, <1>13, ListWsFields
  <2>2. purge.pc \in {"listWs", "moreWs"}
    BY <1>13 DEF ListWorkspaces
  <2>3. purge.passed \subseteq Listed(purge.todoWs) \cup purge.beside \cup purge.missed
    BY <1>4, <2>2
  <2>4. purge.pc = "moreWs" => purge.passed \subseteq workspaces
    BY <1>4, <1>a
  <2>5. CASE PurgeBecomes("moreWs", purge.todoPs, todo, purge.cur, purge.destroy,
                          purge.errors, purge.warned, purge.taken, purge.beside,
                          purge.passed \cup found, purge.missed)
    BY <1>3, <1>4, <1>a, <2>1, <2>2, <2>3, <2>4, <2>5
  <2>6. CASE /\ found = workspaces \ purge.passed
             /\ PurgeBecomes("sweep", purge.todoPs, todo, purge.cur, purge.destroy,
                             purge.errors, purge.warned, purge.taken, purge.beside,
                             {}, purge.missed)
    BY <1>3, <1>4, <2>1, <2>2, <2>3, <2>6
  <2>7. CASE PurgeBecomes("fatal", purge.todoPs, purge.todoWs, purge.cur, purge.destroy,
                          purge.errors, purge.warned, purge.taken, purge.beside,
                          {}, purge.missed)
    BY <1>3, <1>4, <2>2, <2>7
  <2> QED BY <2>1, <2>5, <2>6, <2>7
<1>8. CASE TakeWorkspace
  <2>1. purge.pc = "sweep" /\ purge.todoPs = {}
    BY <1>8 DEF TakeWorkspace
  <2>2. PICK x \in purge.todoWs :
           PurgeBecomes("destroy", purge.todoPs, purge.todoWs \ {x}, x[1], purge.destroy,
                        purge.errors, purge.warned, purge.taken, purge.beside,
                        purge.passed, purge.missed)
    BY <1>1, <1>8, TakeFields
  <2>3. x[1] \in Execs /\ Listed(purge.todoWs) \subseteq Listed(purge.todoWs \ {x}) \cup {x[1]}
    BY <1>1, EntryTaken DEF PurgeRecord
  <2>4. workspaces \subseteq Execs /\ NoId \notin Execs
    BY <1>1, ConstantsAssumption DEF TypeOK
  <2>5. Beside' /\ PurgePointInv'
    BY <1>3, <1>4, <2>1, <2>2, <2>3
  <2>6. CoverInv' /\ PagesInv'
    BY <1>3, <1>4, <2>1, <2>2, <2>3, <2>4
  <2>7. DestroyedInv'
    BY <1>3, <1>4, <2>1, <2>2
  <2> QED BY <2>2, <2>5, <2>6, <2>7
<1>9. CASE QueuePurgeDestroy
  <2>1. purge.pc = "destroy" /\ purge.cur \in Execs
    BY <1>4, <1>9 DEF QueuePurgeDestroy
  <2>2. CASE PurgeBecomes("delete", purge.todoPs, purge.todoWs, purge.cur, purge.destroy,
                          purge.errors, TRUE, purge.taken, purge.beside, purge.passed, purge.missed)
    BY <1>1, <1>3, <1>4, <2>1, <2>2
  <2>3. ASSUME NEW pc \in {"awaitDestroy", "delete"}, NEW warned \in BOOLEAN,
               pc = "delete" => warned,
               PurgeBecomes(pc, purge.todoPs, purge.todoWs, purge.cur,
                            [purge.destroy EXCEPT ![purge.cur] = "queued"],
                            purge.errors, warned, purge.taken, purge.beside,
                            purge.passed, purge.missed)
        PROVE  purge' \in PurgeRecord /\ Rest'
    <3>1. \A w \in Execs : purge'.destroy[w] = "done" => purge.destroy[w] = "done"
      BY <1>1, <2>3 DEF PurgeRecord
    <3> QED BY <1>1, <1>3, <1>4, <2>1, <2>3, <3>1
  <2> QED BY <1>1, <1>9, <2>1, <2>2, <2>3, QueueFields
<1>10. CASE AwaitPurgeDestroy
  <2>1. purge.pc = "awaitDestroy"
    BY <1>10 DEF AwaitPurgeDestroy
  <2>2. PICK warned \in BOOLEAN :
              /\ ~warned => purge.destroy[purge.cur] \in {"done", "failed"}
              /\ PurgeBecomes("delete", purge.todoPs, purge.todoWs, purge.cur,
                              purge.destroy, purge.errors, warned, purge.taken,
                              purge.beside, purge.passed, purge.missed)
    BY <1>1, <1>10, AwaitFields
  <2> QED BY <1>1, <1>3, <1>4, <2>1, <2>2
<1>11. CASE PurgeReturns
  <2>1. purge.pc = "sweep" /\ purge.todoPs = {} /\ purge.todoWs = {}
    BY <1>11 DEF PurgeReturns
  <2> QED BY <1>1, <1>3, <1>4, <1>11, <2>1, ReturnFields
<1>12. CASE PurgeCrash
  BY <1>1, <1>3, <1>12, CrashFields
<1> QED BY <1>6, <1>7, <1>8, <1>9, <1>10, <1>11, <1>12, <1>13

LEMMA EndsInv ==
    ASSUME PurgeInv, NEW w \in Execs, PurgeDestroyEnds(w)
    PROVE  PurgeInv'
<1>1. /\ PurgeTypeOK /\ OwnAttached /\ TypeOK /\ purge \in PurgeRecord
      /\ Beside /\ PurgePointInv /\ PagesInv /\ CoverInv /\ DestroyedInv
  BY PurgeTyped DEF PurgeInv
<1>2. /\ workspaces' = workspaces /\ policySets' = policySets /\ attached' = attached
      /\ run' = run /\ destroy' = destroy /\ exec' = exec
      /\ purge.destroy[w] = "queued" /\ run[w] \in Over \cup {NoRun}
  BY DEF PurgeDestroyEnds
<1>3. PICK end \in {"done", "failed"} :
        /\ resources' = IF end = "done" THEN resources \ {w} ELSE resources
        /\ PurgeBecomes(purge.pc, purge.todoPs, purge.todoWs, purge.cur,
                        [purge.destroy EXCEPT ![w] = end], purge.errors,
                        purge.warned, purge.taken, purge.beside, purge.passed, purge.missed)
  BY <1>1, EndsFields
<1>4. TypeOK' /\ OwnAttached' /\ Beside'
  BY <1>1, <1>2, <1>3 DEF TypeOK, OwnAttached, Beside, Alive, PurgeBecomes
<1>5. PurgePointInv' /\ PagesInv' /\ CoverInv'
  BY <1>1, <1>2, <1>3 DEF PurgePointInv, PagesInv, BetweenPages, ListBefore, CoverInv, Excused,
     PurgeBecomes
<1>6. purge'.destroy[w] = end /\ \A y \in Execs \ {w} : purge'.destroy[y] = purge.destroy[y]
  BY <1>1, <1>3 DEF PurgeBecomes, PurgeRecord
<1>7. DestroyedInv'
  <2>1. purge.pc \notin {"idle", "crashed"}
    BY <1>1, <1>2 DEF DestroyedInv
  <2>2. purge.pc = "delete" => purge.cur \in Execs
    BY <1>1 DEF PurgePointInv, Holding
  <2> QED BY <1>1, <1>2, <1>3, <1>6, <2>1, <2>2 DEF DestroyedInv, PurgeBecomes
<1> QED BY <1>1, <1>3, <1>4, <1>5, <1>7, PurgeTypeKept DEF PurgeInv, PurgeBecomes

LEMMA DeletePsInv ==
    ASSUME PurgeInv, DeleteListedPolicySet
    PROVE  PurgeInv'
<1>1. /\ PurgeTypeOK /\ OwnAttached /\ TypeOK /\ purge \in PurgeRecord
      /\ Beside /\ PurgePointInv /\ PagesInv /\ CoverInv /\ DestroyedInv
  BY PurgeTyped DEF PurgeInv
<1>2. PICK x \in purge.todoPs, err \in BOOLEAN :
         /\ \/ x[1] \in policySets /\ DeletesPolicySet(x[1])
            \/ UNCHANGED hcp /\ err
         /\ PurgeBecomes(purge.pc, purge.todoPs \ {x}, purge.todoWs, purge.cur,
                         purge.destroy, purge.errors \/ err, purge.warned,
                         IF x[1] \in policySets \ policySets'
                         THEN Taken(x[1]) ELSE purge.taken,
                         purge.beside, purge.passed, purge.missed)
  BY <1>1, DeletePsFields
<1>3. purge.pc = "sweep" /\ exec' = exec
  BY DEF DeleteListedPolicySet
<1>4. /\ workspaces' = workspaces /\ attached' = attached /\ run' = run
      /\ destroy' = destroy /\ resources' = resources
      /\ policySets' = policySets \ {x[1]} \/ (policySets' = policySets /\ err)
      /\ Listed(purge.todoPs) \subseteq Listed(purge.todoPs \ {x}) \cup {x[1]}
  BY <1>1, <1>2, EntryTaken DEF DeletesPolicySet, hcp, PurgeRecord
<1>5. /\ TypeOK' /\ OwnAttached' /\ Beside' /\ PurgePointInv' /\ PagesInv'
      /\ DestroyedInv'
  BY <1>1, <1>2, <1>3, <1>4 DEF TypeOK, OwnAttached, Beside, Alive, PurgePointInv,
     PagesInv, BetweenPages, DestroyedInv, Holding, PurgeBecomes
<1>6. CoverInv'
  BY <1>1, <1>2, <1>3, <1>4 DEF CoverInv, Excused, Holding, PurgeBecomes
<1> QED BY <1>1, <1>2, <1>5, <1>6, PurgeTypeKept DEF PurgeInv, PurgeBecomes

LEMMA DeleteWsInv ==
    ASSUME PurgeInv, DeleteListedWorkspace
    PROVE  PurgeInv'
<1>1. /\ PurgeTypeOK /\ OwnAttached /\ TypeOK /\ purge \in PurgeRecord
      /\ Beside /\ PurgePointInv /\ PagesInv /\ CoverInv /\ DestroyedInv
  BY PurgeTyped DEF PurgeInv
<1>2. PICK err \in BOOLEAN :
         /\ \/ purge.cur \in workspaces /\ DeletesWorkspace(purge.cur)
            \/ UNCHANGED hcp /\ err
         /\ PurgeBecomes("sweep", purge.todoPs, purge.todoWs, NoId, purge.destroy,
                         purge.errors \/ err, FALSE,
                         IF purge.cur \in workspaces \ workspaces'
                         THEN Taken(purge.cur) ELSE purge.taken,
                         purge.beside, purge.passed, purge.missed)
  BY <1>1, DeleteWsFields
<1>3. purge.pc = "delete" /\ exec' = exec
  BY DEF DeleteListedWorkspace
<1>4. /\ policySets' = policySets /\ run' = run
      /\ destroy' = destroy /\ resources' = resources
      /\ \/ workspaces' = workspaces \ {purge.cur}
         \/ workspaces' = workspaces /\ err
  BY <1>2 DEF DeletesWorkspace, hcp
<1>5. attached' \in [Execs -> Execs \cup {NoId}] /\ OwnAttached'
  BY <1>1, <1>2 DEF DeletesWorkspace, hcp, OwnAttached, TypeOK
<1>6. TypeOK' /\ Beside' /\ PurgePointInv' /\ PagesInv' /\ DestroyedInv'
  BY <1>1, <1>2, <1>3, <1>4, <1>5 DEF TypeOK, Beside, Alive, PurgePointInv,
     PagesInv, BetweenPages, DestroyedInv, Holding, PurgeBecomes
<1>7. CoverInv'
  BY <1>1, <1>2, <1>3, <1>4 DEF CoverInv, Excused, Holding, PurgeBecomes
<1> QED BY <1>1, <1>2, <1>5, <1>6, <1>7, PurgeTypeKept DEF PurgeInv, PurgeBecomes

LEMMA PurgeInvNext == PurgeInv /\ [PurgeNext]_pvars => PurgeInv'
<1> SUFFICES ASSUME PurgeInv, [PurgeNext]_pvars PROVE PurgeInv'
  OBVIOUS
<1>1. CASE UNCHANGED pvars
  BY <1>1 DEF pvars, vars, hcp, PurgeInv, PurgeTypeOK, TypeOK, Beside, Alive, OwnAttached,
     PurgePointInv, PagesInv, BetweenPages, ListBefore, CoverInv, Excused, DestroyedInv
<1> QED BY <1>1, SuiteInv, OthersInv, QuietStepInv, EndsInv, DeletePsInv, DeleteWsInv
        DEF PurgeNext, PurgeStep

\* The invariant of the purge holds in every execution of the specification.
THEOREM PurgeInvariant == PurgeSpec => []PurgeInv
BY PurgeInvFirst, PurgeInvNext, PTL DEF PurgeSpec

\* Every variable of Purge keeps its type.
THEOREM PurgeTypes == PurgeSpec => []PurgeTypeOK
<1>1. PurgeInv => PurgeTypeOK
  BY DEF PurgeInv
<1> QED BY <1>1, PurgeInvariant, PTL

\* A destroy run of the purge meets no policy set the purge could have deleted: one
\* it read, in whatever order the pages come and whoever changes them meanwhile.
THEOREM PurgeMeetsNoPolicy == PurgeSpec => []PurgeUnhindered
<1>1. PurgeInv => PurgeUnhindered
  <2> SUFFICES ASSUME PurgeInv, purge.pc = "awaitDestroy", ~purge.errors,
                      NEW p \in AttachedTo(purge.cur)
               PROVE  purge.cur \in purge.beside \cup purge.missed
    BY DEF PurgeUnhindered
  <2>1. p \in policySets /\ attached[p] = purge.cur /\ purge.cur \in Execs
    BY DEF AttachedTo, PurgeInv, PurgePointInv, Holding
  <2>2. p = purge.cur
    BY <2>1, ConstantsAssumption DEF PurgeInv, PurgeTypeOK, TypeOK, OwnAttached
  <2> QED BY <2>1, <2>2, NothingListed DEF PurgeInv, PurgePointInv, CoverInv, Excused, Holding
<1> QED BY <1>1, PurgeInvariant, PTL

\* Nothing moves while a purge reads the lists alone, in an organisation that has
\* nothing else: then nothing is left.
PurgeAloneComplete ==
    purge.pc = "done" /\ ~purge.errors /\ purge.beside = {} /\ "others" \notin PurgeFaults
        => workspaces \cup policySets = {}

\* A purge without errors leaves nothing behind but what is younger than it, or moved
\* past it from page to page; and nothing at all if it was alone.
THEOREM PurgeTakesAll == PurgeSpec => [](PurgeComplete /\ PurgeAloneComplete)
<1>1. ASSUME PurgeInv, purge.pc = "done", ~purge.errors
      PROVE  workspaces \cup policySets \subseteq purge.beside \cup purge.missed
  <2>1. purge.cur = NoId /\ purge.todoPs = {} /\ purge.todoWs = {}
    BY <1>1 DEF PurgeInv, PurgePointInv, Holding
  <2>2. workspaces \subseteq Execs
    BY <1>1 DEF PurgeInv, PurgeTypeOK, TypeOK
  <2> QED BY <1>1, <2>1, <2>2, NothingListed, ConstantsAssumption
          DEF PurgeInv, CoverInv, Excused
<1>2. PurgeInv => PurgeComplete
  BY <1>1 DEF PurgeComplete
<1>3. PurgeInv => PurgeAloneComplete
  <2> SUFFICES ASSUME PurgeInv, purge.pc = "done", ~purge.errors,
                      purge.beside = {}, "others" \notin PurgeFaults
               PROVE  workspaces \cup policySets = {}
    BY DEF PurgeAloneComplete
  <2>1. purge.missed = {}
    BY DEF PurgeInv, PagesInv
  <2>2. workspaces \cup policySets \subseteq purge.beside \cup purge.missed
    BY <1>1
  <2> QED BY <2>1, <2>2
<1> QED BY <1>2, <1>3, PurgeInvariant, PTL

\* Resources outlive the workspace only with a warning or after a failed destroy.
THEOREM PurgeOrphansExplained == PurgeSpec => PurgeOrphanExplained
<1> DEFINE Explained == \A w \in workspaces \cap resources :
              purge.pc = "delete" /\ purge.cur = w /\ w \notin workspaces'
                => \/ purge.warned
                   \/ purge.destroy[w] = "failed"
                   \/ w \in purge.beside
<1>1. PurgeInv => Explained
  BY DEF PurgeInv, PurgeTypeOK, TypeOK, DestroyedInv
<1> QED BY <1>1, PurgeInvariant, PTL DEF PurgeSpec, PurgeOrphanExplained

-----------------------------------------------------------------------------
(* An execution notices that its objects are gone, whoever took them.      *)

\* The step of somebody else: what it takes, it takes from an execution that will
\* notice.  A policy set of the same name appears only with another workspace of
\* that name.
LEMMA OthersVisible ==
    ASSUME TypeOK, NamesFree, NEW e \in Execs, VisibleInv(e), exec'[e] = exec[e],
           e \in workspaces' => e \in workspaces,
           \A p \in PolicySetsNamed(e)' \ PolicySetsNamed(e) :
              p # e /\ p \in WorkspacesNamed(e) /\ workspaces' = workspaces,
           e \in purge'.taken =>
              \/ e \in purge.taken
              \/ /\ Alive(e)
                 /\ e \in (workspaces \ workspaces') \cup (policySets \ policySets')
                 /\ policySets' \subseteq policySets
    PROVE  VisibleInv(e)'
<1>1. exec[e].pc \in Points
  BY ExecType
<1>2. e \in policySets' => e \in policySets
  BY DEF PolicySetsNamed, SameName
<1>3. CASE e \in purge'.taken => e \in purge.taken
  <2>1. exec[e].pc = "recoverPs" /\ PolicySetsNamed(e) = {} /\ PolicySetsNamed(e)' # {}
           => e \notin workspaces'
    <3> SUFFICES ASSUME NEW p \in PolicySetsNamed(e)' \ PolicySetsNamed(e), e \in workspaces'
                 PROVE  FALSE
      OBVIOUS
    <3> QED BY DEF NamesFree, WorkspacesNamed, SameName
  <2> QED BY <1>2, <1>3, <2>1 DEF VisibleInv, Noticed, HoldsSet, HasWorkspace, Alive, Ended,
             Starting, Attaching, Testing, Destroying, Cleaning
<1>4. CASE e \in purge'.taken \ purge.taken
  <2>1. CASE e \in workspaces /\ e \notin workspaces'
    BY <1>1, <1>2, <1>4, <2>1 DEF VisibleInv, Noticed, HoldsSet, HasWorkspace, Alive, Points,
       Starting, Attaching, Testing, Destroying, Cleaning, Ended
  <2>2. CASE e \in policySets /\ e \notin policySets'
    <3>1. PolicySetsNamed(e)' = {}
      BY <1>4, <2>2 DEF NamesFree, PolicySetsNamed, SameName
    <3> QED BY <1>2, <1>4, <2>2, <3>1 DEF VisibleInv, Noticed, HoldsSet, HasWorkspace, Alive,
               Starting, Attaching, Testing, Destroying, Cleaning, Ended
  <2> QED BY <1>4, <2>1, <2>2
<1> QED BY <1>3, <1>4

\* What the execution x makes of the fields that matter here.
Moves(x, pc, ps, fatal, warned, ok) ==
    /\ exec'[x].pc = pc /\ exec'[x].ps = ps /\ exec'[x].cleanupOK = ok
    /\ exec'[x].fatal = fatal /\ exec'[x].warned = warned

Passes(x, pc) ==
    Moves(x, pc, exec[x].ps, exec[x].fatal, exec[x].warned, exec[x].cleanupOK)

\* Its result is not clean.
Marks(x) ==
    /\ exec'[x].pc \in Destroying \cup Cleaning \cup {"done"}
    /\ exec'[x].fatal \/ exec'[x].warned

\* The assignments, one by one.
LEMMA Assigned ==
    ASSUME TypeOK, NEW x \in Execs
    PROVE  /\ \A pc \in Points : Goto(x, pc) \/ Leave(x, pc) => Passes(x, pc)
           /\ Fatal(x) \/ FatalEarly(x) => Marks(x)
           /\ \A pc \in Points, id \in Execs \cup {NoId} :
                /\ exec' = [exec EXCEPT ![x].pc = pc, ![x].ps = id] =>
                      Moves(x, pc, id, exec[x].fatal, exec[x].warned, exec[x].cleanupOK)
                /\ exec' = [exec EXCEPT ![x].pc = pc, ![x].stale = id] => Passes(x, pc)
           /\ \A pc \in Points, f \in RunPhases \cup {NoStatus} :
                exec' = [exec EXCEPT ![x].pc = pc, ![x].final = f] => Passes(x, pc)
           /\ \A pc \in {"queueDestroy", "cleanup"} :
                exec' = [exec EXCEPT ![x].pc = pc, ![x].warned = TRUE] => Marks(x)
           /\ \A pc \in Points, b \in BOOLEAN :
                exec' = [exec EXCEPT ![x].pc = pc, ![x].cleanupOK = b] =>
                      Moves(x, pc, exec[x].ps, exec[x].fatal, exec[x].warned, b)
<1> USE DEF Moves, Passes, Marks
<1>0. NoId \in Execs \cup {NoId} /\ NoStatus \in RunPhases \cup {NoStatus} /\ TRUE \in BOOLEAN
  OBVIOUS
<1>7. exec[x] \in ExecRecord /\ exec \in [Execs -> ExecRecord]
  BY DEF TypeOK, ExecRecord
<1>1. ASSUME NEW pc \in Points, Goto(x, pc) \/ Leave(x, pc) PROVE Passes(x, pc)
  BY <1>1, GotoBecomes, LeaveBecomes DEF Becomes
<1>2. Fatal(x) \/ FatalEarly(x) => Marks(x)
  BY FatalBecomes DEF Becomes, Cleaning
<1>3. ASSUME NEW pc \in Points, NEW id \in Execs \cup {NoId}
      PROVE  /\ exec' = [exec EXCEPT ![x].pc = pc, ![x].ps = id] =>
                      Moves(x, pc, id, exec[x].fatal, exec[x].warned, exec[x].cleanupOK)
             /\ exec' = [exec EXCEPT ![x].pc = pc, ![x].stale = id] => Passes(x, pc)
  BY <1>0, <1>3, <1>7 DEF ExecRecord
<1>4. ASSUME NEW pc \in Points, NEW f \in RunPhases \cup {NoStatus}
      PROVE  exec' = [exec EXCEPT ![x].pc = pc, ![x].final = f] => Passes(x, pc)
  BY <1>0, <1>4, <1>7 DEF ExecRecord
<1>5. ASSUME NEW pc \in {"queueDestroy", "cleanup"}
      PROVE  exec' = [exec EXCEPT ![x].pc = pc, ![x].warned = TRUE] => Marks(x)
  <2>1. pc \in Points /\ pc \in Destroying \cup Cleaning \cup {"done"}
    BY <1>5 DEF Points, Destroying, Cleaning
  <2> QED BY <1>0, <2>1, <1>7 DEF ExecRecord
<1>6. ASSUME NEW pc \in Points, NEW b \in BOOLEAN
      PROVE  exec' = [exec EXCEPT ![x].pc = pc, ![x].cleanupOK = b] =>
                      Moves(x, pc, exec[x].ps, exec[x].fatal, exec[x].warned, b)
  BY <1>0, <1>6, <1>7 DEF ExecRecord
<1> HIDE DEF Moves, Passes, Marks
<1> QED BY <1>1, <1>2, <1>3, <1>4, <1>5, <1>6

LEMMA MarkedVisible ==
    ASSUME NEW x \in Execs, Marks(x)
    PROVE  VisibleInv(x)'
BY DEF Marks, VisibleInv, HoldsSet, Noticed, Starting, Destroying, Cleaning

\* An execution in the step it takes itself.
LEMMA StepVisible ==
    ASSUME TypeOK, NamesFree, NEW x \in Execs, Step(x), VisibleInv(x),
           x \in purge'.taken => x \in purge.taken
    PROVE  VisibleInv(x)'
<1>1. /\ exec[x].ps \in Execs \cup {NoId}
      /\ exec[x].cleanupOK \in BOOLEAN /\ exec[x].pc \in Points
  BY ExecType
<1>2. /\ WorkspacesNamed(x) \subseteq Execs \cup {NoId}
      /\ PolicySetsNamed(x) \subseteq Execs \cup {NoId}
  BY DEF WorkspacesNamed, PolicySetsNamed, SameName
<1>3. SUFFICES ASSUME ~Marks(x) PROVE VisibleInv(x)'
  BY MarkedVisible
<1> DEFINE Same == policySets' = policySets /\ workspaces' = workspaces
<1>4. CASE CreateWorkspace(x)
  <2>1. \/ Passes(x, "createPs") /\ x \in workspaces' /\ policySets' = policySets
        \/ Passes(x, "findWs") /\ Same
    BY <1>3, <1>4, Assigned, PointsListed DEF CreateWorkspace, hcp
  <2>2. exec[x].pc \in {"createWs", "recreateWs"}
    BY <1>4 DEF CreateWorkspace
  <2> QED BY <2>1, <2>2 DEF Passes, Moves, VisibleInv, HoldsSet, Noticed, HasWorkspace, Alive,
             Starting, Attaching, Testing, Destroying, Cleaning, Ended
<1>5. CASE FindStaleWorkspace(x) \/ DestroyStale(x) \/ AwaitStale(x) \/ DeleteStale(x)
  <2>1. \E pc \in {"destroyStale", "recreateWs", "awaitStale", "deleteStale"} : Passes(x, pc)
    <3>1. CASE FindStaleWorkspace(x)
      BY <1>2, <3>1, Assigned, PointsListed DEF FindStaleWorkspace
    <3>2. CASE DestroyStale(x) \/ AwaitStale(x) \/ DeleteStale(x)
      BY <3>2, Assigned, PointsListed DEF DestroyStale, AwaitStale, DeleteStale
    <3> QED BY <1>5, <3>1, <3>2
  <2>2. policySets' = policySets /\ workspaces' \subseteq workspaces
    BY <1>5 DEF FindStaleWorkspace, DestroyStale, AwaitStale, DeleteStale, QueuesDestroy,
       DeletesWorkspace, hcp
  <2>3. exec[x].pc \in {"findWs", "destroyStale", "awaitStale", "deleteStale"}
    BY <1>5 DEF FindStaleWorkspace, DestroyStale, AwaitStale, DeleteStale
  <2> QED BY <2>1, <2>2, <2>3 DEF Passes, Moves, VisibleInv, HoldsSet, Noticed, HasWorkspace,
             Alive, Starting, Attaching, Testing, Destroying, Cleaning, Ended
<1>6. CASE CreatePolicySet(x)
  <2>1. \/ /\ x \in workspaces /\ workspaces' = workspaces
           /\ \/ Moves(x, "prepare", x, exec[x].fatal, exec[x].warned, exec[x].cleanupOK)
              \/ Passes(x, "recoverPs")
        \/ (Passes(x, "findPs") \/ Passes(x, "recoverPs")) /\ Same
    BY <1>3, <1>6, Assigned, PointsListed DEF CreatePolicySet, CreatesPolicySet, hcp
  <2>2. exec[x].pc \in {"createPs", "recreatePs"}
    BY <1>6 DEF CreatePolicySet
  <2> QED BY <2>1, <2>2 DEF Passes, Moves, VisibleInv, HoldsSet, Noticed, HasWorkspace, Alive,
             Starting, Attaching, Testing, Destroying, Cleaning, Ended
<1>7. CASE RecoverPolicySet(x)
  <2>1. /\ Same /\ exec[x].pc = "recoverPs"
        /\ \E q \in PolicySetsNamed(x) :
              Moves(x, "prepare", q, exec[x].fatal, exec[x].warned, exec[x].cleanupOK)
    BY <1>2, <1>3, <1>7, Assigned, PointsListed DEF RecoverPolicySet, hcp
  <2>2. x \in policySets => PolicySetsNamed(x) \subseteq {x}
    BY DEF NamesFree, PolicySetsNamed, SameName
  <2> QED BY <2>1, <2>2 DEF Passes, Moves, VisibleInv, HoldsSet, Noticed, HasWorkspace, Alive,
             Starting, Attaching, Testing, Destroying, Cleaning, Ended
<1>8. CASE FindStalePolicySet(x) \/ DeleteStalePolicySet(x)
  <2>1. Passes(x, "deletePs") \/ Passes(x, "recreatePs")
    BY <1>2, <1>3, <1>8, Assigned, PointsListed DEF FindStalePolicySet, DeleteStalePolicySet
  <2>2. /\ exec[x].pc \in {"findPs", "deletePs"}
        /\ workspaces' = workspaces /\ policySets' \subseteq policySets
    BY <1>8 DEF FindStalePolicySet, DeleteStalePolicySet, DeletesPolicySet, hcp
  <2> QED BY <2>1, <2>2 DEF Passes, Moves, VisibleInv, HoldsSet, Noticed, HasWorkspace, Alive,
             Starting, Attaching, Testing, Destroying, Cleaning, Ended
<1>9. CASE Prepare(x)
  <2>1. /\ Same /\ exec[x].pc = "prepare"
        /\ exec[x].ps \in policySets /\ x \in workspaces /\ Passes(x, "trigger")
    BY <1>3, <1>9, Assigned, PointsListed DEF Prepare, hcp
  <2> QED BY <2>1 DEF Passes, Moves, VisibleInv, HoldsSet, Noticed, HasWorkspace, Alive,
             Starting, Attaching, Testing, Destroying, Cleaning, Ended
<1>10. CASE Trigger(x) \/ Await(x)
  <2>1. /\ Same /\ exec[x].pc \in {"trigger", "await"}
        /\ \E pc \in {"await", "detach", "cleanup"} : Passes(x, pc)
    <3>1. CASE Trigger(x)
      BY <1>3, <3>1, Assigned, PointsListed DEF Trigger, hcp
    <3>2. CASE Await(x)
      <4>1. PICK f \in RunPhases \cup {NoStatus} : Settle(x, f)
        BY <3>2 DEF Await, FinalPhases, RunPhases
      <4> QED BY <3>2, <4>1, Assigned, PointsListed DEF Await, Settle, AfterRun, hcp
    <3> QED BY <1>10, <3>1, <3>2
  <2> QED BY <2>1 DEF Passes, Moves, VisibleInv, HoldsSet, Noticed, HasWorkspace, Alive,
             Starting, Attaching, Testing, Destroying, Cleaning, Ended
<1>11. CASE Detach(x)
  <2>1. /\ workspaces' = workspaces /\ exec[x].pc = "detach"
        /\ exec[x].ps \in policySets /\ policySets' = policySets \ {exec[x].ps}
        /\ Moves(x, "queueDestroy", NoId, exec[x].fatal, exec[x].warned, exec[x].cleanupOK)
    BY <1>3, <1>11, Assigned, PointsListed DEF Detach, DeletesPolicySet, hcp
  <2> QED BY <2>1 DEF Passes, Moves, VisibleInv, HoldsSet, Noticed, HasWorkspace, Alive,
             Starting, Attaching, Testing, Destroying, Cleaning, Ended
<1>12. CASE QueueDestroy(x) \/ AwaitDestroy(x)
  <2>1. /\ Same /\ exec[x].pc \in {"queueDestroy", "awaitDestroy"}
        /\ \E pc \in {"awaitDestroy", "cleanup"} : Passes(x, pc)
    BY <1>3, <1>12, Assigned, PointsListed DEF QueueDestroy, AwaitDestroy, QueuesDestroy, hcp
  <2> QED BY <2>1 DEF Passes, Moves, VisibleInv, HoldsSet, Noticed, HasWorkspace, Alive,
             Starting, Attaching, Testing, Destroying, Cleaning, Ended
<1>13. CASE CleanupPolicySet(x)
  <2>1. PICK ok \in BOOLEAN :
           /\ workspaces' = workspaces /\ exec[x].pc = "cleanup"
           /\ Moves(x, "cleanupWs", exec[x].ps, exec[x].fatal, exec[x].warned, ok)
           /\ ok => \/ exec[x].ps = NoId /\ policySets' = policySets
                    \/ exec[x].ps \in policySets /\ policySets' = policySets \ {exec[x].ps}
           /\ policySets' \subseteq policySets
    BY <1>3, <1>13, Assigned, PointsListed DEF CleanupPolicySet, DeletesPolicySet, hcp
  <2> QED BY <2>1, ConstantsAssumption DEF Passes, Moves, VisibleInv, HoldsSet, Noticed, HasWorkspace, Alive,
             Starting, Attaching, Testing, Destroying, Cleaning, Ended
<1>14. CASE CleanupWorkspace(x)
  <2>1. PICK ok \in BOOLEAN :
           /\ policySets' = policySets /\ exec[x].pc = "cleanupWs"
           /\ Moves(x, "done", exec[x].ps, exec[x].fatal, exec[x].warned, ok)
           /\ ok => exec[x].cleanupOK /\ x \in workspaces
    BY <1>1, <1>3, <1>14, Assigned, PointsListed DEF CleanupWorkspace, DeletesWorkspace, hcp
  <2> QED BY <2>1 DEF Passes, Moves, VisibleInv, HoldsSet, Noticed, HasWorkspace, Alive,
             Starting, Attaching, Testing, Destroying, Cleaning, Ended
<1>15. CASE SkipCleanup(x)
  <2>1. Same /\ exec[x].pc = "cleanup" /\ ~Cleanup /\ Passes(x, "done")
    BY <1>15, Assigned, PointsListed DEF SkipCleanup, hcp
  <2> QED BY <2>1 DEF Passes, Moves, VisibleInv, HoldsSet, Noticed, HasWorkspace, Alive,
             Starting, Attaching, Testing, Destroying, Cleaning, Ended
<1> QED BY <1>4, <1>5, <1>6, <1>7, <1>8, <1>9, <1>10, <1>11, <1>12, <1>13, <1>14, <1>15
        DEF Step

\* What exists after a step of x existed before, or is x's, under a free name and,
\* if a policy set, beside its workspace.  A step that deletes something creates
\* nothing.
LEMMA StepGrows ==
    ASSUME TypeOK, NEW x \in Execs, Step(x)
    PROVE  /\ workspaces' \subseteq workspaces \cup {x}
           /\ policySets' \subseteq policySets \cup {x}
           /\ x \in workspaces' => x \in workspaces \/ WorkspacesNamed(x) = {}
           /\ \/ policySets' \subseteq policySets
              \/ /\ PolicySetsNamed(x) = {} /\ x \in workspaces
                 /\ workspaces' = workspaces /\ policySets' = policySets \cup {x}
BY StepDeed DEF Deed, hcp, CreatesPolicySet, DeletesWorkspace, DeletesPolicySet, QueuesDestroy

LEMMA NamesFreeKept ==
    ASSUME TypeOK, NamesFree, NEW x \in Execs, Step(x)
    PROVE  NamesFree'
<1>1. /\ workspaces' \subseteq Execs /\ policySets' \subseteq Execs
      /\ \A y \in Execs : CaseOf[y] = CaseOf[x] <=> y \in SameName(x)
  BY StepType DEF TypeOK, SameName
<1>2. \A y, z \in workspaces' : CaseOf[y] = CaseOf[z] => y = z
  BY <1>1, StepGrows DEF NamesFree, WorkspacesNamed
<1>3. \A y, z \in policySets' : CaseOf[y] = CaseOf[z] => y = z
  BY <1>1, StepGrows DEF NamesFree, PolicySetsNamed
<1> QED BY <1>2, <1>3 DEF NamesFree

LEMMA SuiteStepNoticed ==
    ASSUME PurgeInv, NoticedInv, NEW x \in Execs, Step(x),
           purge'.taken = purge.taken \cup Robbed
    PROVE  NoticedInv'
<1>1. TypeOK /\ TypeOK' /\ Alive(x) /\ OnlyExec(x)
  BY StepType, StepDeed, StepOthers DEF PurgeInv, PurgeTypeOK
<1>2. NamesFree'
  BY <1>1, NamesFreeKept DEF NoticedInv
<1>3. VisibleInv(x)'
  <2>1. CASE exec'[x] = exec[x]
    <3>1. FALSE
      BY <1>1, <2>1, StepMoves
    <3> QED BY <3>1
  <2>2. CASE exec'[x] # exec[x]
    BY <1>1, <2>2, StepVisible DEF NoticedInv, Robbed
  <2> QED BY <2>1, <2>2
<1>4. ASSUME NEW e \in Execs \ {x}
      PROVE  VisibleInv(e)'
  <2>1. VisibleInv(e) /\ exec'[e] = exec[e] /\ (e \in workspaces' => e \in workspaces)
    BY <1>1, StepGrows DEF NoticedInv, OnlyExec
  <2>2. \A p \in PolicySetsNamed(e)' \ PolicySetsNamed(e) :
              p # e /\ p \in WorkspacesNamed(e) /\ workspaces' = workspaces
    BY <1>1, StepGrows DEF PolicySetsNamed, WorkspacesNamed, SameName
  <2>3. CASE e \in purge'.taken => e \in purge.taken
    BY <1>1, <2>1, <2>2, <2>3, OthersVisible DEF NoticedInv
  <2>4. CASE e \in purge'.taken \ purge.taken
    <3>1. Alive(e) /\ e \in (workspaces \ workspaces') \cup (policySets \ policySets')
      BY <2>4 DEF Robbed
    <3>2. policySets' \subseteq policySets
      BY <1>1, <3>1, StepGrows
    <3> QED BY <1>1, <2>1, <2>2, <3>1, <3>2, OthersVisible DEF NoticedInv
  <2> QED BY <2>3, <2>4
<1> QED BY <1>2, <1>3, <1>4 DEF NoticedInv

LEMMA SuiteNoticed ==
    ASSUME PurgeInv, NoticedInv, SuiteStep
    PROVE  NoticedInv'
<1>1. TypeOK /\ purge'.taken = purge.taken \cup Robbed /\ Next
  BY SuiteFields DEF PurgeInv, PurgeTypeOK, PurgeBecomes, SuiteStep
<1>2. ASSUME UNCHANGED <<workspaces, policySets>>
      PROVE  /\ NamesFree' /\ purge'.taken = purge.taken
             /\ \A e \in Execs : exec'[e] = exec[e] => VisibleInv(e)'
  <2>1. NamesFree' /\ purge'.taken = purge.taken
    BY <1>1, <1>2 DEF NoticedInv, NamesFree, Robbed
  <2>2. ASSUME NEW e \in Execs, exec'[e] = exec[e]
        PROVE  VisibleInv(e)'
    <3>1. PolicySetsNamed(e)' = PolicySetsNamed(e)
      BY <1>2 DEF PolicySetsNamed
    <3> QED BY <1>1, <1>2, <2>1, <2>2, <3>1, OthersVisible DEF NoticedInv
  <2> QED BY <2>1, <2>2
<1>3. ASSUME NEW x \in Execs, Start(x)
      PROVE  NoticedInv'
  <2>1. /\ exec[x].pc = "idle" /\ UNCHANGED hcp
        /\ \A y \in Execs \ {x} : exec'[y] = exec[y]
        /\ Passes(x, "createWs")
    BY <1>1, <1>3, Assigned, PointsListed, GotoBecomes DEF Start, Becomes, OnlyExec
  <2>2. VisibleInv(x)'
    BY <1>2, <2>1 DEF NoticedInv, VisibleInv, Noticed, HoldsSet, HasWorkspace, Alive, Passes,
       Moves, hcp, Starting, Attaching, Testing, Destroying, Cleaning, Ended
  <2> QED BY <1>2, <2>1, <2>2 DEF NoticedInv, hcp
<1>4. ASSUME NEW x \in Execs, Crash(x)
      PROVE  NoticedInv'
  <2>1. /\ UNCHANGED hcp /\ exec'[x].pc = "crashed"
        /\ \A y \in Execs \ {x} : exec'[y] = exec[y]
    BY <1>1, <1>4 DEF Crash, At, TypeOK
  <2>2. VisibleInv(x)'
    BY <2>1 DEF VisibleInv, Noticed, Alive, Starting, Ended
  <2> QED BY <1>2, <2>1, <2>2 DEF NoticedInv, hcp
<1>5. ASSUME NEW w \in Execs, RunMoves(w) \/ DestroyEnds(w)
      PROVE  NoticedInv'
  BY <1>2, <1>5 DEF RunMoves, DestroyEnds, NoticedInv
<1> QED BY <1>1, <1>3, <1>4, <1>5, SuiteStepNoticed DEF Next

\* What a step of the purge takes, it takes from an execution that will notice.
LEMMA PurgeStepNoticed ==
    ASSUME PurgeInv, NoticedInv,
           \/ PurgeStart \/ PurgeStep \/ PurgeCrash \/ OthersMove
           \/ \E w \in Execs : PurgeDestroyEnds(w)
    PROVE  NoticedInv'
<1>1. /\ PurgeTypeOK /\ TypeOK /\ purge \in PurgeRecord
      /\ workspaces \subseteq Execs /\ policySets \subseteq Execs
  BY PurgeTyped DEF PurgeInv, TypeOK
<1>2. SUFFICES ASSUME exec' = exec,
                      workspaces' \subseteq workspaces, policySets' \subseteq policySets,
                      \A e \in purge'.taken \ purge.taken :
                         /\ Alive(e)
                         /\ \/ e \in workspaces /\ e \notin workspaces'
                            \/ e \in policySets /\ e \notin policySets'
               PROVE  NoticedInv'
  <2>1. CASE \/ PurgeStart \/ ListPolicySets \/ ListWorkspaces \/ TakeWorkspace
             \/ QueuePurgeDestroy \/ AwaitPurgeDestroy \/ PurgeReturns \/ PurgeCrash
             \/ OthersMove
    <3>1. UNCHANGED vars
      BY <2>1 DEF PurgeStart, ListPolicySets, ListWorkspaces, TakeWorkspace, OthersMove,
         QueuePurgeDestroy, AwaitPurgeDestroy, PurgeReturns, PurgeCrash
    <3>2. purge'.taken \subseteq purge.taken
      <4>1. CASE PurgeStart \/ PurgeCrash
        BY <1>1, <4>1, StartFields, CrashFields DEF PurgeBecomes
      <4>2. CASE ListPolicySets \/ ListWorkspaces \/ TakeWorkspace \/ OthersMove
        BY <1>1, <4>2, ListPsFields, ListWsFields, TakeFields, OthersFields DEF PurgeBecomes
      <4>3. CASE QueuePurgeDestroy \/ AwaitPurgeDestroy \/ PurgeReturns
        BY <1>1, <4>3 DEF QueuePurgeDestroy, AwaitPurgeDestroy, PurgeReturns, Warns, PurgeRecord
      <4> QED BY <2>1, <4>1, <4>2, <4>3
    <3> QED BY <1>2, <3>1, <3>2 DEF vars, hcp
  <2>2. CASE DeleteListedPolicySet
    <3>1. exec' = exec
      BY <2>2 DEF DeleteListedPolicySet
    <3> QED BY <1>1, <1>2, <2>2, <3>1, DeletePsFields
            DEF PurgeBecomes, DeletesPolicySet, hcp, Taken
  <2>3. CASE DeleteListedWorkspace
    <3>1. exec' = exec
      BY <2>3 DEF DeleteListedWorkspace
    <3> QED BY <1>1, <1>2, <2>3, <3>1, DeleteWsFields
            DEF PurgeBecomes, DeletesWorkspace, hcp, Taken
  <2>4. ASSUME NEW w \in Execs, PurgeDestroyEnds(w)
        PROVE  NoticedInv'
    BY <1>1, <1>2, <2>4, EndsFields DEF PurgeBecomes, PurgeDestroyEnds
  <2> QED BY <2>1, <2>2, <2>3, <2>4 DEF PurgeStep
<1>3. NamesFree'
  BY <1>2 DEF NoticedInv, NamesFree
<1>4. ASSUME NEW e \in Execs
      PROVE  VisibleInv(e)'
  <2>1. PolicySetsNamed(e)' \subseteq PolicySetsNamed(e)
    BY <1>2 DEF PolicySetsNamed
  <2> QED BY <1>1, <1>2, <2>1, OthersVisible DEF NoticedInv
<1> QED BY <1>3, <1>4 DEF NoticedInv

\* An execution that lost its workspace or policy set while it ran never returns as
\* if nothing had happened: whatever fails, whoever took it, and even when two
\* invocations of its case overlap.
THEOREM PurgeIsNoticed == PurgeSpec => []PurgeVisible
<1>1. PurgeInit => NoticedInv
  BY NewPurgeFields DEF PurgeInit, Init, At, NoticedInv, NamesFree, Alive, VisibleInv,
     Ended, PurgePoints
<1>2. PurgeInv /\ NoticedInv /\ [PurgeNext]_pvars => NoticedInv'
  <2> SUFFICES ASSUME PurgeInv, NoticedInv, [PurgeNext]_pvars PROVE NoticedInv'
    OBVIOUS
  <2>1. CASE UNCHANGED pvars
    BY <2>1 DEF pvars, vars, hcp, NoticedInv, NamesFree, Alive, VisibleInv, HoldsSet,
       Noticed, HasWorkspace, PolicySetsNamed
  <2> QED BY <2>1, SuiteNoticed, PurgeStepNoticed DEF PurgeNext
<1>3. PurgeInv /\ NoticedInv => PurgeVisible
  BY PurgeTyped DEF PurgeInv, PurgeRecord, NoticedInv, PurgeVisible, VisibleInv, Noticed,
     HasWorkspace, Attaching, Testing, Destroying, Cleaning
<1> QED BY <1>1, <1>2, <1>3, PurgeInvariant, PTL DEF PurgeSpec

-----------------------------------------------------------------------------
(* What is left of the contract of an execution beside a purge.            *)

\* An execution only aims at objects of its own case, whoever else is about.
NamesInv(e) ==
    /\ exec[e].pc \in Recovering => exec[e].stale \in SameName(e)
    /\ exec[e].ps \in SameName(e) \cup {NoId}
    /\ exec[e].pc \notin {"cleanupWs", "done"} => ~exec[e].cleanupOK

LEMMA StepNames ==
    ASSUME TypeOK, NEW x \in Execs, Step(x), NamesInv(x)
    PROVE  NamesInv(x)'
<1> DEFINE Aims(pc, ps, stale, ok) ==
             /\ exec'[x].pc = pc /\ exec'[x].ps = ps /\ exec'[x].stale = stale
             /\ exec'[x].cleanupOK = ok
           Goes(pc) == Aims(pc, exec[x].ps, exec[x].stale, exec[x].cleanupOK)
<1>0. /\ SameName(x) \subseteq Execs /\ x \in SameName(x) /\ policySets \subseteq Execs
      /\ NoStatus \in RunPhases \cup {NoStatus} /\ exec[x].cleanupOK \in BOOLEAN
      /\ exec[x].pc # "done"
  BY ExecType, StepDeed DEF SameName, TypeOK, Alive, Ended
<1>1. /\ \A pc \in Points : Goto(x, pc) => Goes(pc)
      /\ \A pc \in Points : Leave(x, pc) => Aims(pc, exec[x].ps, NoId, exec[x].cleanupOK)
  BY GotoBecomes, LeaveBecomes DEF Becomes
<1>2. /\ Fatal(x) => Goes("cleanup")
      /\ FatalEarly(x) => Goes("done")
  BY FatalBecomes DEF Becomes
<1>3. \A pc \in Points, id \in Execs \cup {NoId}, b \in BOOLEAN,
         f \in RunPhases \cup {NoStatus} :
        /\ exec' = [exec EXCEPT ![x].pc = pc, ![x].ps = id]
              => Aims(pc, id, exec[x].stale, exec[x].cleanupOK)
        /\ exec' = [exec EXCEPT ![x].pc = pc, ![x].stale = id]
              => Aims(pc, exec[x].ps, id, exec[x].cleanupOK)
        /\ exec' = [exec EXCEPT ![x].pc = pc, ![x].final = f] => Goes(pc)
        /\ exec' = [exec EXCEPT ![x].pc = pc, ![x].warned = b] => Goes(pc)
        /\ exec' = [exec EXCEPT ![x].pc = pc, ![x].cleanupOK = b]
              => Aims(pc, exec[x].ps, exec[x].stale, b)
  <2> TAKE pc \in Points, id \in Execs \cup {NoId}, b \in BOOLEAN,
            f \in RunPhases \cup {NoStatus}
  <2>1. /\ exec' = [exec EXCEPT ![x].pc = pc, ![x].ps = id] =>
              Becomes(x, pc, id, exec[x].stale, exec[x].final,
                      exec[x].fatal, exec[x].warned, exec[x].cleanupOK)
        /\ exec' = [exec EXCEPT ![x].pc = pc, ![x].stale = id] =>
              Becomes(x, pc, exec[x].ps, id, exec[x].final,
                      exec[x].fatal, exec[x].warned, exec[x].cleanupOK)
        /\ exec' = [exec EXCEPT ![x].pc = pc, ![x].final = f] =>
              Becomes(x, pc, exec[x].ps, exec[x].stale, f,
                      exec[x].fatal, exec[x].warned, exec[x].cleanupOK)
        /\ exec' = [exec EXCEPT ![x].pc = pc, ![x].warned = b] =>
              Becomes(x, pc, exec[x].ps, exec[x].stale, exec[x].final,
                      exec[x].fatal, b, exec[x].cleanupOK)
        /\ exec' = [exec EXCEPT ![x].pc = pc, ![x].cleanupOK = b] =>
              Becomes(x, pc, exec[x].ps, exec[x].stale, exec[x].final,
                      exec[x].fatal, exec[x].warned, b)
    BY AssignBecomes
  <2> QED BY <2>1 DEF Becomes
<1> HIDE DEF Aims, Goes
<1>4. ASSUME NEW pc \in Points \ (Recovering \cup {"cleanupWs"}), Goes(pc),
             exec[x].pc # "cleanupWs" \/ pc = "done"
      PROVE  NamesInv(x)'
  BY <1>0, <1>4 DEF Goes, Aims, NamesInv, SameName
<1>5. CASE CreateWorkspace(x)
  <2>1. exec[x].pc # "cleanupWs" /\ \E pc \in {"createPs", "findWs", "done"} : Goes(pc)
    BY <1>1, <1>2, <1>5, PointsListed DEF CreateWorkspace
  <2> QED BY <1>4, <2>1, PointsListed DEF Recovering
<1>6. CASE FindStaleWorkspace(x)
  <2>1. CASE \E w \in WorkspacesNamed(x) :
                exec' = [exec EXCEPT ![x].pc = "destroyStale", ![x].stale = w]
    <3>1. PICK w \in SameName(x) :
                exec' = [exec EXCEPT ![x].pc = "destroyStale", ![x].stale = w]
      BY <2>1 DEF WorkspacesNamed
    <3> QED BY <1>0, <1>3, <1>6, <3>1, PointsListed
            DEF FindStaleWorkspace, Aims, NamesInv, SameName
  <2>2. CASE Goto(x, "recreateWs")
    BY <1>1, <1>4, <1>6, <2>2, PointsListed DEF FindStaleWorkspace, Recovering
  <2> QED BY <1>6, <2>1, <2>2 DEF FindStaleWorkspace
<1>7. CASE DestroyStale(x) \/ AwaitStale(x)
  <2>1. /\ exec[x].pc \in Recovering \ {"cleanupWs"}
        /\ \E pc \in {"awaitStale", "deleteStale"} : Goes(pc)
    BY <1>1, <1>7, PointsListed DEF DestroyStale, AwaitStale, Recovering
  <2> QED BY <2>1 DEF Goes, Aims, NamesInv, SameName, Recovering
<1>8. CASE DeleteStale(x) \/ DeleteStalePolicySet(x)
  <2>1. /\ exec[x].pc # "cleanupWs"
        /\ \E pc \in {"recreateWs", "recreatePs"} :
              Aims(pc, exec[x].ps, NoId, exec[x].cleanupOK)
        /\ exec[x].pc # "done"
    BY <1>1, <1>8, PointsListed DEF DeleteStale, DeleteStalePolicySet
  <2> QED BY <2>1 DEF Aims, NamesInv, SameName, Recovering
<1>9. CASE CreatePolicySet(x)
  <2>1. /\ exec[x].pc \notin {"cleanupWs", "done"}
        /\ \/ Aims("prepare", x, exec[x].stale, exec[x].cleanupOK)
           \/ \E pc \in {"recoverPs", "findPs", "cleanup"} : Goes(pc)
    BY <1>1, <1>2, <1>3, <1>9, PointsListed DEF CreatePolicySet
  <2> QED BY <1>0, <2>1 DEF Goes, Aims, NamesInv, SameName, Recovering
<1>10. CASE RecoverPolicySet(x)
  <2>1. /\ exec[x].pc = "recoverPs"
        /\ \/ \E p \in SameName(x) : Aims("prepare", p, exec[x].stale, exec[x].cleanupOK)
           \/ Goes("cleanup")
    BY <1>0, <1>2, <1>3, <1>10, PointsListed DEF RecoverPolicySet, PolicySetsNamed
  <2> QED BY <2>1 DEF Goes, Aims, NamesInv, SameName, Recovering
<1>11. CASE FindStalePolicySet(x)
  <2>1. /\ exec[x].pc = "findPs"
        /\ \/ \E p \in SameName(x) : Aims("deletePs", exec[x].ps, p, exec[x].cleanupOK)
           \/ Goes("cleanup")
    BY <1>0, <1>2, <1>3, <1>11, PointsListed DEF FindStalePolicySet, PolicySetsNamed
  <2> QED BY <2>1 DEF Goes, Aims, NamesInv, SameName, Recovering
<1>12. CASE Prepare(x) \/ Trigger(x)
  <2>1. /\ exec[x].pc \in {"prepare", "trigger"}
        /\ \E pc \in {"trigger", "await", "cleanup"} : Goes(pc)
    BY <1>1, <1>2, <1>12, PointsListed DEF Prepare, Trigger
  <2> QED BY <1>4, <2>1, PointsListed DEF Recovering
<1>13. CASE Await(x)
  <2>1. PICK f \in RunPhases \cup {NoStatus} : Settle(x, f)
    BY <1>13 DEF Await, FinalPhases, RunPhases
  <2>2. exec[x].pc = "await" /\ \E pc \in {"detach", "cleanup"} : Goes(pc)
    BY <1>3, <1>13, <2>1, PointsListed DEF Await, Settle, AfterRun
  <2> QED BY <1>4, <2>2, PointsListed DEF Recovering
<1>14. CASE Detach(x)
  <2>1. /\ exec[x].pc = "detach"
        /\ \/ Aims("queueDestroy", NoId, exec[x].stale, exec[x].cleanupOK)
           \/ Goes("queueDestroy")
    BY <1>3, <1>14, PointsListed DEF Detach
  <2> QED BY <2>1 DEF Goes, Aims, NamesInv, SameName, Recovering
<1>15. CASE QueueDestroy(x) \/ AwaitDestroy(x)
  <2>1. /\ exec[x].pc \in {"queueDestroy", "awaitDestroy"}
        /\ \E pc \in {"awaitDestroy", "cleanup"} : Goes(pc)
    BY <1>1, <1>3, <1>15, PointsListed DEF QueueDestroy, AwaitDestroy
  <2> QED BY <1>4, <2>1, PointsListed DEF Recovering
<1>16. CASE CleanupPolicySet(x) \/ CleanupWorkspace(x)
  <2>1. \E pc \in {"cleanupWs", "done"}, b \in BOOLEAN :
           Aims(pc, exec[x].ps, exec[x].stale, b)
    BY <1>0, <1>3, <1>16, PointsListed DEF CleanupPolicySet, CleanupWorkspace
  <2> QED BY <2>1 DEF Aims, NamesInv, SameName, Recovering
<1>17. CASE SkipCleanup(x)
  <2>1. exec[x].pc = "cleanup" /\ Goes("done")
    BY <1>1, <1>17, PointsListed DEF SkipCleanup
  <2> QED BY <1>4, <2>1, PointsListed DEF Recovering
<1> QED BY <1>5, <1>6, <1>7, <1>8, <1>9, <1>10, <1>11, <1>12, <1>13, <1>14, <1>15, <1>16,
           <1>17 DEF Step

ContractInv == NoticedInv /\ \A e \in Execs : NamesInv(e)

LEMMA AimsKept ==
    ASSUME TypeOK, \A e \in Execs : NamesInv(e), Next
    PROVE  \A e \in Execs : NamesInv(e)'
<1>1. ASSUME NEW e \in Execs, exec'[e] = exec[e]
      PROVE  NamesInv(e)'
  BY <1>1 DEF NamesInv, SameName
<1>2. ASSUME NEW x \in Execs, Start(x) \/ Step(x) \/ Crash(x)
      PROVE  OnlyExec(x) /\ NamesInv(x)'
  <2>1. CASE Start(x)
    <3>1. /\ exec[x].pc = "idle"
          /\ Becomes(x, "createWs", exec[x].ps, exec[x].stale, exec[x].final,
                     exec[x].fatal, exec[x].warned, exec[x].cleanupOK)
      BY <2>1, GotoBecomes, PointsListed DEF Start
    <3> QED BY <3>1 DEF Becomes, NamesInv, SameName, Recovering
  <2>2. CASE Step(x)
    BY <2>2, StepOthers, StepNames
  <2>3. CASE Crash(x)
    BY <2>3 DEF Crash, At, TypeOK, OnlyExec, NamesInv, SameName, Recovering
  <2> QED BY <1>2, <2>1, <2>2, <2>3
<1> QED BY <1>1, <1>2 DEF Next, OnlyExec, RunMoves, DestroyEnds

LEMMA ContractInvKept ==
    ASSUME PurgeInv, ContractInv, [PurgeNext]_pvars
    PROVE  ContractInv'
<1>1. NoticedInv'
  <2>1. CASE UNCHANGED pvars
    BY <2>1 DEF pvars, vars, hcp, ContractInv, NoticedInv, NamesFree, Alive, VisibleInv,
       HoldsSet, Noticed, HasWorkspace, PolicySetsNamed
  <2> QED BY <2>1, SuiteNoticed, PurgeStepNoticed DEF PurgeNext, ContractInv
<1>2. \A e \in Execs : NamesInv(e)'
  <2>1. CASE SuiteStep
    BY <2>1, PurgeTyped, AimsKept DEF SuiteStep, PurgeInv, ContractInv
  <2>2. CASE exec' = exec
    BY <2>2 DEF ContractInv, NamesInv, SameName
  <2> QED BY <2>1, <2>2 DEF PurgeNext, pvars, vars, PurgeStart, PurgeStep, PurgeCrash,
             PurgeDestroyEnds, OthersMove, ListPolicySets, ListWorkspaces, DeleteListedPolicySet,
             TakeWorkspace, QueuePurgeDestroy, AwaitPurgeDestroy, DeleteListedWorkspace,
             PurgeReturns
<1> QED BY <1>1, <1>2 DEF ContractInv

\* Who loses something by a step of x.
LEMMA StepRobs ==
    ASSUME TypeOK, NEW x \in Execs, Step(x)
    PROVE  Robbed = {e \in Execs :
                        /\ e # x /\ Alive(e)
                        /\ e \in (workspaces \ workspaces') \cup (policySets \ policySets')}
BY StepMoves, StepOthers DEF Robbed, OnlyExec

\* An execution that returns a clean result has lost nothing and leaves nothing.
LEMMA CleanKeepsPromise ==
    ASSUME TypeOK, NEW x \in Execs, Step(x), VisibleInv(x), NamesInv(x), ReturnedClean(x)'
    PROVE  x \notin purge.taken /\ x \notin workspaces' \cup policySets'
<1>1. Alive(x)
  BY StepDeed
<1>2. /\ exec[x].pc = "cleanupWs" /\ exec[x].cleanupOK
      /\ ~exec[x].fatal /\ ~exec[x].warned
      /\ x \in workspaces /\ workspaces' = workspaces \ {x} /\ policySets' = policySets
  BY <1>1, CleanReturn DEF NamesInv, Next, Alive, Ended
<1> QED BY <1>1, <1>2 DEF VisibleInv, HoldsSet, Noticed, Testing

LEMMA StepKeepsDisturbed ==
    ASSUME PurgeInv, ContractInv, NEW x \in Execs, Step(x),
           purge'.taken = purge.taken \cup Robbed
    PROVE  Disturbed!Call(x) \/ Disturbed!Provisions(x)
<1>1. TypeOK /\ Alive(x) /\ OnlyExec(x) /\ VisibleInv(x) /\ NamesInv(x) /\ purge \in PurgeRecord
  BY PurgeTyped, StepDeed, StepOthers DEF PurgeInv, ContractInv, NoticedInv
<1>2. /\ Disturbed!Runs(x)
      /\ \A w \in Execs : Disturbed!Runs(w) <=> Alive(w)
  BY <1>1, StageAlive DEF Disturbed!Runs
<1>3. SameName(x) = Disturbed!SameCase(x)
  BY DEF SameName, Disturbed!SameCase
<1>4. StageOf(x)' = IF exec'[x].pc = "done" THEN "returned" ELSE "running"
  BY <1>1, StepMoves DEF StageOf, Underway
<1>5. StageNow' = IF exec'[x].pc = "done" THEN [StageNow EXCEPT ![x] = "returned"] ELSE StageNow
  <2>1. StageNow[x] = "running"
    BY <1>2 DEF StageNow, Disturbed!Runs
  <2> QED BY <1>1, <1>4, <2>1, StepStage DEF StageNow
<1>6. CleanNow' = IF ReturnedClean(x)' THEN CleanNow \cup {x} ELSE CleanNow
  BY <1>1, StepStage DEF Alive, Ended
<1>7. ReturnedClean(x)' => x \notin purge.taken /\ x \notin workspaces' \cup policySets'
  BY <1>1, CleanKeepsPromise
<1>8. Disturbed!Returns(x) \/ UNCHANGED <<StageNow, CleanNow>>
  <2>1. CASE exec'[x].pc = "done"
    BY <1>5, <1>6, <1>7, <2>1 DEF Disturbed!Returns, StageNow, CleanNow
  <2>2. CASE exec'[x].pc # "done"
    BY <1>5, <1>6, <2>2 DEF ReturnedClean
  <2> QED BY <2>1, <2>2
<1>9. /\ exec[x].pc \in Recovering => exec[x].stale \in SameName(x)
      /\ exec[x].ps \in SameName(x) \cup {NoId}
  BY <1>1 DEF NamesInv
<1>10. Robbed = {e \in Execs :
                    /\ e # x /\ Alive(e)
                    /\ e \in (workspaces \ workspaces') \cup (policySets \ policySets')}
  BY <1>1, StepRobs
<1>11. CASE resources' = resources /\ StepObjects(x)
  <2>0. workspaces \subseteq Execs /\ policySets \subseteq Execs
    BY <1>1 DEF TypeOK
  <2>1. /\ workspaces' = workspaces \cup {x} \/ workspaces' = workspaces
        /\ policySets' = policySets \cup {x} \/ policySets' = policySets
        => purge'.taken = purge.taken
    BY <1>10
  <2>2. ASSUME NEW w \in SameName(x),
               \/ w \in workspaces /\ workspaces' = workspaces \ {w} /\ policySets' = policySets
               \/ w \in policySets /\ policySets' = policySets \ {w} /\ workspaces' = workspaces
        PROVE  Disturbed!Removes(x, w)
    <3>1. Robbed = {y \in {w} : y # x /\ Disturbed!Runs(y)}
      BY <1>2, <1>10, <2>0, <2>2
    <3> QED BY <2>2, <3>1 DEF Disturbed!Removes, Disturbed!Removed
  <2>3. \/ Disturbed!CreatesWorkspace(x)
        \/ Disturbed!CreatesPolicySet(x)
        \/ \E w \in Disturbed!SameCase(x) : Disturbed!Removes(x, w)
        \/ UNCHANGED <<workspaces, policySets, purge.taken>>
    BY <1>3, <1>11, <2>1, <2>2
    DEF StepObjects, Disturbed!CreatesWorkspace, Disturbed!CreatesPolicySet
  <2> QED BY <1>2, <1>8, <1>11, <2>3 DEF Disturbed!Call, Disturbed!objects, StageNow, CleanNow
<1>12. CASE /\ x \in workspaces /\ UNCHANGED <<workspaces, policySets>>
            /\ resources' = resources \cup {x} /\ exec'[x].pc # "done"
  BY <1>5, <1>6, <1>10, <1>12
  DEF Disturbed!Provisions, Disturbed!objects, StageNow, CleanNow, ReturnedClean
<1> QED BY <1>1, <1>9, <1>11, <1>12, StepSeen

\* Steps of the suite and of the purge.
LEMMA SuiteKeepsDisturbed ==
    ASSUME PurgeInv, ContractInv, SuiteStep
    PROVE  [Disturbed!Next]_(Disturbed!vars)
<1> USE DEF Disturbed!vars, Disturbed!objects
<1>1. TypeOK /\ Next /\ purge'.taken = purge.taken \cup Robbed
  BY SuiteFields, PurgeTyped DEF PurgeInv, PurgeBecomes, SuiteStep
<1>2. UNCHANGED <<workspaces, policySets>> => purge'.taken = purge.taken
  BY <1>1 DEF Robbed
<1>3. ASSUME NEW x \in Execs, Start(x)
      PROVE  Disturbed!Begin(x)
  <2>1. /\ exec[x].pc = "idle"
        /\ Becomes(x, "createWs", exec[x].ps, exec[x].stale, exec[x].final,
                   exec[x].fatal, exec[x].warned, exec[x].cleanupOK)
        /\ UNCHANGED hcp
    BY <1>1, <1>3, GotoBecomes, PointsListed DEF Start
  <2>2. StageOf(x) = "idle" /\ StageOf(x)' = "running" /\ ~ReturnedClean(x)'
    BY <2>1 DEF StageOf, ReturnedClean, Becomes
  <2>3. StageNow' = [StageNow EXCEPT ![x] = "running"] /\ CleanNow' = CleanNow
    BY <1>1, <2>1, <2>2, StepStage DEF Becomes
  <2> QED BY <1>2, <2>1, <2>2, <2>3 DEF Disturbed!Begin, StageNow, CleanNow, hcp
<1>4. ASSUME NEW x \in Execs, Crash(x)
      PROVE  Disturbed!Dies(x)
  <2>1. Alive(x) /\ UNCHANGED hcp /\ OnlyExec(x) /\ exec'[x].pc = "crashed"
    BY <1>1, <1>4 DEF Crash, At, OnlyExec, TypeOK
  <2>2. StageOf(x) = "running" /\ StageOf(x)' = "crashed" /\ ~ReturnedClean(x)'
        /\ exec[x].pc # "done"
    BY <1>1, <2>1, StageAlive DEF StageOf, ReturnedClean, Alive, Ended
  <2>3. StageNow' = [StageNow EXCEPT ![x] = "crashed"] /\ CleanNow' = CleanNow
    BY <1>1, <2>1, <2>2, StepStage
  <2> QED BY <1>2, <2>1, <2>2, <2>3 DEF Disturbed!Dies, Disturbed!Runs, StageNow, CleanNow, hcp
<1>5. ASSUME exec' = exec
      PROVE  StageNow' = StageNow /\ CleanNow' = CleanNow
  BY <1>5 DEF StageNow, CleanNow, StageOf, ReturnedClean
<1>6. ASSUME NEW w \in Execs, RunMoves(w) \/ DestroyEnds(w)
      PROVE  Disturbed!Provisions(w) \/ UNCHANGED Disturbed!vars
  BY <1>2, <1>5, <1>6 DEF RunMoves, DestroyEnds, Disturbed!Provisions, StageNow, CleanNow
<1> QED BY <1>1, <1>3, <1>4, <1>6, StepKeepsDisturbed DEF Next, Disturbed!Next

LEMMA PurgeKeepsDisturbed ==
    ASSUME PurgeInv,
           \/ PurgeStart \/ PurgeStep \/ PurgeCrash \/ OthersMove
           \/ \E w \in Execs : PurgeDestroyEnds(w)
    PROVE  [Disturbed!Next]_(Disturbed!vars)
<1> USE DEF Disturbed!vars, Disturbed!objects
<1>1. PurgeTypeOK /\ TypeOK /\ purge \in PurgeRecord
  BY PurgeTyped DEF PurgeInv
<1>2. ASSUME exec' = exec
      PROVE  StageNow' = StageNow /\ CleanNow' = CleanNow
  BY <1>2 DEF StageNow, CleanNow, StageOf, ReturnedClean
<1>3. \A y : Disturbed!Runs(y) /\ y \in Execs <=> Alive(y) /\ y \in Execs
  BY <1>1, StageAlive DEF Disturbed!Runs
<1>4. CASE \/ PurgeStart \/ ListPolicySets \/ ListWorkspaces \/ TakeWorkspace
           \/ QueuePurgeDestroy \/ AwaitPurgeDestroy \/ PurgeReturns \/ PurgeCrash
           \/ OthersMove
  <2>1. UNCHANGED vars
    BY <1>4 DEF PurgeStart, ListPolicySets, ListWorkspaces, TakeWorkspace, OthersMove,
       QueuePurgeDestroy, AwaitPurgeDestroy, PurgeReturns, PurgeCrash
  <2>2. purge'.taken = purge.taken
    <3>1. CASE PurgeStart \/ PurgeCrash
      BY <1>1, <3>1, StartFields, CrashFields DEF PurgeBecomes
    <3>2. CASE ListPolicySets \/ ListWorkspaces \/ TakeWorkspace \/ OthersMove
      BY <1>1, <3>2, ListPsFields, ListWsFields, TakeFields, OthersFields DEF PurgeBecomes
    <3>3. CASE QueuePurgeDestroy \/ AwaitPurgeDestroy \/ PurgeReturns
      BY <1>1, <3>3 DEF QueuePurgeDestroy, AwaitPurgeDestroy, PurgeReturns, Warns, PurgeRecord
    <3> QED BY <1>4, <3>1, <3>2, <3>3
  <2> QED BY <1>2, <2>1, <2>2 DEF vars, hcp, StageNow, CleanNow
<1>5. CASE DeleteListedPolicySet
  <2>1. exec' = exec
    BY <1>5 DEF DeleteListedPolicySet
  <2>2. PICK p \in Execs :
          /\ \/ p \in policySets /\ DeletesPolicySet(p)
             \/ UNCHANGED hcp
          /\ purge'.taken = IF p \in policySets \ policySets' THEN Taken(p) ELSE purge.taken
    BY <1>1, <1>5, DeletePsFields, EntryTaken DEF PurgeBecomes, PurgeRecord
  <2>3. CASE p \in policySets /\ DeletesPolicySet(p)
    <3>1. p \in Execs /\ purge'.taken = purge.taken \cup {y \in {p} : Disturbed!Runs(y)}
      BY <1>1, <1>3, <2>2, <2>3 DEF DeletesPolicySet, Taken, TypeOK
    <3>2. Disturbed!Purges(p)
      BY <1>2, <2>1, <2>3, <3>1
      DEF DeletesPolicySet, Disturbed!Purges, Disturbed!Removed, StageNow, CleanNow
    <3> QED BY <3>1, <3>2 DEF Disturbed!Next
  <2>4. CASE UNCHANGED hcp
    BY <1>2, <2>1, <2>2, <2>4 DEF hcp, StageNow, CleanNow
  <2> QED BY <2>2, <2>3, <2>4
<1>6. CASE DeleteListedWorkspace
  <2>1. exec' = exec
    BY <1>6 DEF DeleteListedWorkspace
  <2> DEFINE w == purge.cur
  <2>2. /\ \/ w \in workspaces /\ DeletesWorkspace(w)
           \/ UNCHANGED hcp
        /\ purge'.taken = IF w \in workspaces \ workspaces' THEN Taken(w) ELSE purge.taken
    BY <1>1, <1>6, DeleteWsFields DEF PurgeBecomes
  <2> HIDE DEF w
  <2>3. CASE w \in workspaces /\ DeletesWorkspace(w)
    <3>1. w \in Execs /\ purge'.taken = purge.taken \cup {y \in {w} : Disturbed!Runs(y)}
      BY <1>1, <1>3, <2>2, <2>3 DEF DeletesWorkspace, Taken, TypeOK
    <3>2. Disturbed!Purges(w)
      BY <1>2, <2>1, <2>3, <3>1
      DEF DeletesWorkspace, Disturbed!Purges, Disturbed!Removed, StageNow, CleanNow
    <3> QED BY <3>1, <3>2 DEF Disturbed!Next
  <2>4. CASE UNCHANGED hcp
    BY <1>2, <2>1, <2>2, <2>4 DEF hcp, StageNow, CleanNow
  <2> QED BY <2>2, <2>3, <2>4
<1>7. ASSUME NEW w \in Execs, PurgeDestroyEnds(w)
      PROVE  Disturbed!Provisions(w)
  <2>1. purge'.taken = purge.taken
    BY <1>1, <1>7, EndsFields DEF PurgeBecomes
  <2> QED BY <1>2, <1>7, <2>1 DEF PurgeDestroyEnds, Disturbed!Provisions, StageNow, CleanNow
<1> QED BY <1>4, <1>5, <1>6, <1>7 DEF PurgeStep, Disturbed!Next

(* Whatever a purge or an overlapping execution takes away, the executions   *)
(* keep what is left of their contract; in particular a clean result is     *)
(* only returned by an execution that lost nothing and leaves nothing.      *)
THEOREM PurgeRefinesContract == PurgeSpec => PurgeKeepsContract
<1>1. PurgeInit => ContractInv /\ Disturbed!Init
  <2> SUFFICES ASSUME PurgeInit PROVE ContractInv /\ Disturbed!Init
    OBVIOUS
  <2>1. Init /\ purge.taken = {}
    BY NewPurgeFields DEF PurgeInit, PurgePoints
  <2> QED BY <2>1 DEF Init, At, ContractInv, NoticedInv, NamesFree, Alive, VisibleInv,
             Ended, NamesInv, SameName, Recovering, Disturbed!Init, StageOf, ReturnedClean
<1>2. PurgeInv /\ ContractInv /\ [PurgeNext]_pvars
         => ContractInv' /\ [Disturbed!Next]_(Disturbed!vars)
  <2> SUFFICES ASSUME PurgeInv, ContractInv, [PurgeNext]_pvars
               PROVE  [Disturbed!Next]_(Disturbed!vars)
    BY ContractInvKept
  <2>1. CASE UNCHANGED pvars
    BY <2>1 DEF pvars, vars, hcp, Disturbed!vars, Disturbed!objects, StageOf, ReturnedClean
  <2> QED BY <2>1, SuiteKeepsDisturbed, PurgeKeepsDisturbed DEF PurgeNext
<1> QED BY <1>1, <1>2, PurgeInvariant, PTL
        DEF PurgeSpec, PurgeKeepsContract, Disturbed!Safety

\* What follows from the contract holds of the program.
Consequences == INSTANCE CaseContract_proofs WITH
    stage <- [e \in Execs |-> StageOf(e)],
    robbed <- purge.taken,
    clean <- {e \in Execs : ReturnedClean(e)},
    Undisturbed <- FALSE

(* A clean result stays true for good, whatever purges and whoever overlaps. *)
THEOREM CleanResultFinal == PurgeSpec => []Disturbed!CleanIsFinal
<1>1. Disturbed!Init => Consequences!Init
  BY DEF Disturbed!Init, Consequences!Init
<1>2. [Disturbed!Next]_(Disturbed!vars) => [Consequences!Next]_(Consequences!vars)
  BY DEF Disturbed!Next, Disturbed!vars, Consequences!Next, Consequences!vars,
     Disturbed!Begin, Consequences!Begin,
     Disturbed!Call, Consequences!Call,
     Disturbed!CreatesWorkspace, Consequences!CreatesWorkspace,
     Disturbed!CreatesPolicySet, Consequences!CreatesPolicySet,
     Disturbed!Removes, Consequences!Removes,
     Disturbed!Removed, Consequences!Removed,
     Disturbed!Returns, Consequences!Returns,
     Disturbed!Dies, Consequences!Dies,
     Disturbed!Provisions, Consequences!Provisions,
     Disturbed!Purges, Consequences!Purges,
     Disturbed!SameCase, Consequences!SameCase,
     Disturbed!Runs, Consequences!Runs,
     Disturbed!objects, Consequences!objects
<1>3. Consequences!CleanIsFinal => Disturbed!CleanIsFinal
  BY DEF Consequences!CleanIsFinal, Disturbed!CleanIsFinal
<1> QED BY <1>1, <1>2, <1>3, PurgeRefinesContract, Consequences!CleanStaysFinal, PTL
        DEF PurgeKeepsContract, Disturbed!Safety, Consequences!Safety
=============================================================================
