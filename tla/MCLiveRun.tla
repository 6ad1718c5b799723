----------------------------- MODULE MCLiveRun -----------------------------
(* LiveRun on a small instance.                                             *)
EXTENDS LiveRun, TLC

CONSTANTS a, b
AOrder == <<a, b>>
\* No rounds when the tasks interleave.
ARounds == [parallel \in BOOLEAN |-> LET n == IF parallel THEN 0 ELSE 1 IN
                                      [verify |-> n, orphan |-> n, hook |-> n]]
=============================================================================
