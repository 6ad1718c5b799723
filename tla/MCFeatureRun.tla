---------------------------- MODULE MCFeatureRun ----------------------------
(* Two tasks of one batch: t1, a gen task, modifies a; t2 declares o and     *)
(* deletes a.  g is a governance file.  By itself a is no scope; with g it   *)
(* is one that contains o.                                                   *)
EXTENDS FeatureRun, SequencesExt

CONSTANTS t1, t2

a == <<"apps", "server", "src", "app", "gen", "a.ts">>
g == <<"apps", "server", "src", "app", "app.module.ts">>
o == <<"apps", "server", "src", "app", "o.ts">>
MCFiles == {a, g, o}
MCUntracked == {o}

MCListing == <<t1, t2>>
MCDeps == [t \in {t1, t2} |-> {}]
MCOp == [t \in {t1, t2} |-> [f \in {a, g, o} |->
           CASE t = t1 /\ f = a -> "modify"
             [] t = t2 /\ f = o -> "create"
             [] t = t2 /\ f = a -> "delete"
             [] OTHER -> "none"]]
MCKind == [t \in {t1, t2} |-> IF t = t1 THEN "gen" ELSE "impl"]
MCGenDirs == [t \in {t1, t2} |-> {}]

Rounds(verify, hook, orphan, stray) ==
    [verify |-> verify, hook |-> hook, orphan |-> orphan, stray |-> stray]
\* No rounds and no undeclared file when the tasks interleave.  A second run, without
\* --parallel, finds what the first has left.
MCBound == <<[parallel \in BOOLEAN |-> IF parallel THEN Rounds(0, 0, 0, 0) ELSE Rounds(0, 1, 2, 2)],
             [parallel \in {FALSE} |-> Rounds(1, 0, 2, 0)]>>

\* longestCommonDir as the code computes it, segment by segment.
CommonDirOf(P) ==
    LET n == CHOOSE k \in {Len(p) - 1 : p \in P} : \A p \in P : k < Len(p)
        p0 == CHOOSE p \in P : TRUE
        same(i) == \A p \in P : p[i] = p0[i]
        last == CHOOSE k \in 0..n : (\A i \in 1..k : same(i)) /\ (k = n \/ ~same(k + 1))
    IN SubSeq(p0, 1, last)
ASSUME CommonDirAssumption ==
    LET files == UNION {[1..n -> {"x", "y"}] : n \in 1..3} IN
    \A P \in SUBSET files : P # {} => LongestCommonDir(P) = CommonDirOf(P)

\* topoSort: the batches hold every task once unless some wait for each other, and a
\* task is in the first batch that comes after all it waits for.
ASSUME TopoSortAssumption ==
    \A deps \in [1..3 -> SUBSET (1..3)] :
        LET batches == TopoSort(<<1, 2, 3>>, deps)
            Batch(t) == {k \in DOMAIN batches : t \in ToSet(batches[k])}
            reached == {t \in 1..3 : Batch(t) # {}} IN
        /\ HasCycle(<<1, 2, 3>>, deps)
             <=> \E S \in SUBSET (1..3) \ {{}} : \A t \in S : deps[t] \cap S # {}
        /\ \A k \in DOMAIN batches : IsInjective(batches[k])
        /\ \A t \in reached : \E k \in Batch(t) :
             /\ Batch(t) = {k}
             /\ \A d \in deps[t] : \E j \in Batch(d) : j < k
             /\ k > 1 => \E d \in deps[t] : k - 1 \in Batch(d)
\* A task that is released first runs first: 3 waits for 2, and 4 for 1.
ASSUME QueueAssumption ==
    TopoSort(<<1, 2, 3, 4>>, <<{}, {}, {2}, {1}>>) = <<<<1, 2>>, <<4, 3>>>>
=============================================================================
