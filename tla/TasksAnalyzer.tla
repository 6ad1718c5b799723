--------------------------- MODULE TasksAnalyzer ---------------------------
(***************************************************************************)
(* topoSort: the tasks of tasks.md in batches, each of the tasks whose     *)
(* dependencies are all in earlier ones.  The order within a batch is the  *)
(* order in which the serial tasks run.                                    *)
(***************************************************************************)
EXTENDS Integers, Sequences, FiniteSets, SequencesExt

\* The batches, empty ones at the end.  A task enters the queue when the last of its
\* dependencies leaves it, and those that wait for one enter in the order of tasks.md.
LOCAL Levels(listing, deps) ==
    LET level[k \in 0..Len(listing)] ==
          LET before == UNION {ToSet(level[j]) : j \in 0..k - 1}
              ready == {t \in ToSet(listing) \ before : deps[t] \subseteq before}
              Released(t) == Max({0} \cup {i \in DOMAIN level[k - 1] : level[k - 1][i] \in deps[t]})
              Place(t) == CHOOSE i \in DOMAIN listing : listing[i] = t
          IN IF k = 0 THEN <<>>
             ELSE SetToSortSeq(ready, LAMBDA t, u :
                    \/ Released(t) < Released(u)
                    \/ Released(t) = Released(u) /\ Place(t) < Place(u))
    IN level

TopoSort(listing, deps) ==
    LET level == Levels(listing, deps)
    IN SelectSeq([k \in 1..Len(listing) |-> level[k]], LAMBDA batch : batch # <<>>)

\* topoSort throws: what is in no batch waits for itself.
HasCycle(listing, deps) ==
    \E t \in ToSet(listing) : \A k \in DOMAIN TopoSort(listing, deps) :
        t \notin ToSet(TopoSort(listing, deps)[k])
=============================================================================
