------------------------------ MODULE MCPurge ------------------------------
(* Executions for the runs of Purge: two invocations of one case and one of *)
(* another.                                                                *)
EXTENDS Purge, Naturals, TLC

CONSTANTS e1, e2, e3, c1, c2

Invocations == {e1, e2, e3}
InvocationsCaseOf == (e1 :> c1) @@ (e2 :> c1) @@ (e3 :> c2)

\* The invocations of a case differ in nothing; the runs check no liveness.
Symmetry == Permutations({e1, e2})

Started(e) == exec[e].pc # "idle"
Running == {e \in Execs : Alive(e)}

\* Nothing the organisation does for w is under way.
Settled(w) ==
    w \in workspaces => run[w] \in Over \cup {NoRun} /\ destroy[w] # "queued"

\* What has been missed and matters.
Missed == IF purge.errors THEN {} ELSE purge.missed \cap (workspaces \cup policySets)

\* Bounds: two executions start, one after the other, or, of one case and without a
\* purge, at the same time; one execution runs beside the purge; the other case comes
\* second, once nothing of the first execution is under way; one object crosses the
\* edge of the pages, in one direction.
Bounded ==
    /\ Cardinality({e \in Execs : Started(e)}) <= 2
    /\ \A x, y \in Running : x = y \/ (purge.pc = "idle" /\ CaseOf[x] = CaseOf[y])
    /\ Cardinality(purge.beside) <= 1
    /\ Started(e3) => /\ Started(e1) \/ Started(e2)
                      /\ \A e \in {e1, e2} : e \notin Running /\ Settled(e)
    /\ Cardinality(Missed)
          + Cardinality({x \in purge.todoPs \cup purge.todoWs : x[2]}) <= 1

\* Bound: no execution starts after the purge.
Early == purge.pc \in PurgeEnded =>
            \A e \in Execs : exec[e].pc = "idle" => exec'[e].pc = "idle"

BoundedSpec == PurgeInit /\ [][PurgeNext /\ Bounded' /\ Early]_pvars

\* States that differ only in what no step and no property reads again are one:
\* of an execution that has ended, all but whether its result is clean; of a run that
\* is over and nobody awaits, that it is not under way; of a purge that was cut short,
\* all but what it took; and whatever is said of objects that are gone.
Clean == {e \in Execs : ReturnedClean(e)}

RunView(w) ==
    IF w \in Running \/ (w \in workspaces /\ run[w] \notin Over) THEN run[w] ELSE NoRun

Pending(f, w, awaited) ==
    IF w \in workspaces /\ (awaited \/ f[w] = "queued") THEN f[w] ELSE "none"

DestroyView(w) ==
    Pending(destroy, w, w \in Running \/ \E x \in Running : exec[x].stale = w)

ExecView(e) ==
    IF e \in Running THEN [exec[e] EXCEPT !.final = NoStatus]
    ELSE IF Started(e) THEN At(e \in Clean) ELSE exec[e]

PurgeView ==
    LET taken == purge.taken \cap (Clean \cup Running)
        runs == [w \in Execs |-> Pending(purge.destroy, w, w = purge.cur)]
    IN  IF purge.pc \in {"fatal", "crashed"}
        THEN [NewPurge("crashed") EXCEPT !.destroy = runs, !.taken = taken]
        ELSE [purge EXCEPT !.destroy = runs, !.taken = taken, !.missed = Missed]

View == <<workspaces, policySets, [p \in policySets |-> attached[p]],
          [w \in Execs |-> <<RunView(w), DestroyView(w), ExecView(w)>>],
          resources \cap workspaces, PurgeView>>
=============================================================================
