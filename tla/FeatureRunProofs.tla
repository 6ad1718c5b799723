-------------------------- MODULE FeatureRunProofs --------------------------
(***************************************************************************)
(* FeatureRun for any tasks, files, dependencies and rounds: a handover is *)
(* clean, and without --parallel the boxes of tasks.md are truthful and    *)
(* nothing slips into a commit.                                            *)
(*                                                                         *)
(* For each step of a task a lemma says what it does to the record of the  *)
(* task and to the tree (BeginIs ... DiscardIs).  Three invariants rest on *)
(* them: Control (without --parallel one task is at work), Boxes (what is  *)
(* committed is ticked in every text that may be written back, what is     *)
(* ticked has landed) and Stages (what is staged is in the scope of the    *)
(* task that is about to commit, and HEAD is where it was).                *)
(***************************************************************************)
EXTENDS FeatureRun, FiniteSetTheorems, WellFoundedInduction, TLAPS

-----------------------------------------------------------------------------
(* Types, and what a step does to the record of its task.                  *)

\* The record of t alone changes.
Moved(t) == /\ task' \in [Tasks -> Task]
            /\ \A u \in Tasks \ {t} : task'[u] = task[u]
\* What a step that only moves t on leaves alone.
Kept(t) == /\ task'[t].declared = task[t].declared /\ task'[t].extraStage = task[t].extraStage
           /\ task'[t].headBefore = task[t].headBefore /\ task'[t].original = task[t].original
FailedFor(t, reasons) == Moved(t) /\ task'[t].pc = "failed" /\ task'[t].reason \in reasons

LEMMA FreshIs == /\ NoText \in Text /\ Fresh \in Task
                 /\ Fresh.pc = "waiting" /\ Fresh.reason = "none" /\ Fresh.extraStage = {}
  BY DEF NoText, Text, Fresh, Task, PC, Reasons

LEMMA Replaced ==
    ASSUME TypeOK, NEW t \in Tasks, NEW q \in Task, task' = [task EXCEPT ![t] = q]
    PROVE  Moved(t) /\ task'[t] = q
  BY DEF TypeOK, Moved

LEMMA GotoIs ==
    ASSUME TypeOK, NEW t \in Tasks, NEW pc \in PC, Goto(t, pc)
    PROVE  Moved(t) /\ Kept(t) /\ task'[t].pc = pc /\ task'[t].reason = task[t].reason
<1> DEFINE q == [task[t] EXCEPT !.pc = pc]
<1>1. task[t] \in Task
  BY DEF TypeOK
<1>2. /\ q \in Task /\ q.pc = pc /\ q.reason = task[t].reason
      /\ q.declared = task[t].declared /\ q.extraStage = task[t].extraStage
      /\ q.headBefore = task[t].headBefore /\ q.original = task[t].original
  BY <1>1 DEF Task
<1>3. task' = [task EXCEPT ![t] = q]
  BY DEF Goto
<1> HIDE DEF q
<1> QED
  BY <1>2, <1>3, Replaced DEF Kept

LEMMA EndIs ==
    ASSUME TypeOK, NEW t \in Tasks, NEW ok \in BOOLEAN, NEW reason \in Reasons, End(t, ok, reason)
    PROVE  Moved(t) /\ task'[t].pc = (IF ok THEN "ok" ELSE "failed") /\ task'[t].reason = reason
<1> DEFINE q == [Fresh EXCEPT !.pc = IF ok THEN "ok" ELSE "failed", !.reason = reason]
<1>1. q \in Task /\ q.pc = (IF ok THEN "ok" ELSE "failed") /\ q.reason = reason
  BY FreshIs DEF Task, PC
<1>2. task' = [task EXCEPT ![t] = q]
  BY DEF End
<1> HIDE DEF q
<1> QED
  BY <1>1, <1>2, Replaced

LEMMA FailIs ==
    ASSUME TypeOK, NEW t \in Tasks, NEW reason \in Reasons, Fail(t, reason)
    PROVE  FailedFor(t, {reason})
  BY EndIs DEF Fail, FailedFor

LEMMA ThrowIs ==
    ASSUME TypeOK, NEW t \in Tasks, Throw(t)
    PROVE  FailedFor(t, {"llm-error"})
  BY FailIs DEF Throw, Reasons

\* A step that changes records only.
LEMMA QuietTypes ==
    ASSUME TypeOK, NEW t \in Tasks, Moved(t), UNCHANGED <<repo, md, run, landed>>
    PROVE  TypeOK'
  BY DEF TypeOK, Moved, repo, md

LEMMA PathsAre == /\ Files \subseteq Paths /\ TasksMd \in Paths /\ TasksMd \notin Files
                  /\ Governance \subseteq Files
                  /\ \A t \in Tasks : Written(t) \subseteq Files /\ Deleted(t) \subseteq Files
  BY TasksMdAssumption DEF Paths, TasksMd, Governance, Written, Deleted

LEMMA DeclaredIs ==
    ASSUME TypeOK, NEW t \in Tasks
    PROVE  FilesToStage(t) \subseteq Paths
  BY PathsAre DEF TypeOK, FilesToStage

-----------------------------------------------------------------------------
(* The calls of the LLM.                                                   *)

\* It writes; or it writes and commits.
Wrote == /\ UNCHANGED <<head, changed, tracked, staged, md, landed>>
         /\ dirty \subseteq dirty'
WroteAndCommitted ==
    /\ head' = head + 1 /\ staged' = {}
    /\ \A f \in Paths : changed'[f] = head + 1 \/ changed'[f] = changed[f]
    /\ tasksMd' = tasksMdHead' /\ tasksMdIndex' = Unstaged
    /\ tasksMd.boxes \subseteq tasksMd'.boxes
    /\ landed' = landed \cup tasksMd'.boxes
\* Everything but the records is typed.
RepoTypes ==
    /\ head \in Nat /\ changed \in [Paths -> Nat]
    /\ present \subseteq Files /\ tracked \subseteq Files /\ dirty \subseteq Files
    /\ staged \subseteq Files /\ stale \subseteq staged
    /\ tasksMd \in Text /\ tasksMdHead \in Text /\ tasksMdIndex \in Text \cup {Unstaged}
    /\ landed \subseteq Tasks

LEMMA TypesOfParts ==
    ASSUME TypeOK, NEW t \in Tasks, Moved(t), RepoTypes', UNCHANGED run
    PROVE  TypeOK'
  BY DEF TypeOK, Moved, RepoTypes

LEMMA LlmIs ==
    ASSUME TypeOK, NEW t \in Tasks, NEW E \in Edits(t), LlmWrites(t, E)
    PROVE  RepoTypes' /\ (Wrote \/ WroteAndCommitted)
<1>1. E \subseteq Files
  BY PathsAre DEF Edits
<1>2. CASE Edit(E)
  <2>1. RepoTypes'
    BY <1>1, <1>2 DEF Edit, TypeOK, RepoTypes, md
  <2>2. Wrote
    BY <1>2 DEF Edit, Wrote
  <2> QED
    BY <2>1, <2>2
<1>3. ASSUME NEW ticks \in BOOLEAN, EditAndCommit(t, E, ticks)
      PROVE  RepoTypes' /\ WroteAndCommitted
  <2> DEFINE text == [tasksMd EXCEPT !.boxes = IF ticks THEN @ \cup {t} ELSE @]
             all == dirty \cup E
  <2>1. text \in Text /\ tasksMd.boxes \subseteq text.boxes /\ text.boxes \subseteq Tasks
    BY DEF TypeOK, Text
  <2>2. /\ present' = present \cup E /\ tasksMd' = text /\ head' = head + 1
        /\ changed' = [f \in Paths |-> IF f \in all \/ (f = TasksMd /\ text # tasksMdHead)
                                       THEN head + 1 ELSE changed[f]]
        /\ tracked' = (tracked \ all) \cup (all \cap present')
        /\ dirty' = {} /\ staged' = {} /\ stale' = {}
        /\ tasksMdHead' = text /\ tasksMdIndex' = Unstaged
        /\ landed' = landed \cup text.boxes
    BY <1>3 DEF EditAndCommit
  <2> HIDE DEF text
  <2>3. changed' \in [Paths -> Nat]
    BY <2>2 DEF TypeOK
  <2>4. RepoTypes'
    BY <1>1, <2>1, <2>2, <2>3 DEF TypeOK, RepoTypes
  <2>5. WroteAndCommitted
    BY <2>1, <2>2 DEF WroteAndCommitted, TypeOK
  <2> QED
    BY <2>4, <2>5
<1> QED
  BY <1>2, <1>3 DEF LlmWrites

-----------------------------------------------------------------------------
(* The steps, one by one: TypeOK is kept, and where the task goes.         *)

LEMMA BeginIs ==
    ASSUME TypeOK, NEW t \in Tasks, Begin(t)
    PROVE  /\ TypeOK' /\ Moved(t) /\ UNCHANGED <<head, changed, tracked, staged, stale, md, run, landed>>
           /\ dirty \subseteq dirty'
           /\ \/ FailedFor(t, {"fs-ops-error"})
              \/ /\ task'[t].pc = "begun" /\ task'[t].declared = FilesToStage(t)
                 /\ task'[t].extraStage = task[t].extraStage /\ task'[t].reason = task[t].reason
<1> DEFINE q == [task[t] EXCEPT !.pc = "begun", !.declared = FilesToStage(t)]
<1>1. UNCHANGED <<head, changed, tracked, staged, stale, md, run, landed>>
  BY DEF Begin
<1>2. present' \subseteq Files /\ dirty' \subseteq Files /\ dirty \subseteq dirty'
  BY PathsAre DEF Begin, TypeOK
<1>3. \/ FailedFor(t, {"fs-ops-error"})
      \/ /\ Moved(t) /\ task'[t].pc = "begun" /\ task'[t].declared = FilesToStage(t)
         /\ task'[t].extraStage = task[t].extraStage /\ task'[t].reason = task[t].reason
  <2>1. task[t] \in Task
    BY DEF TypeOK
  <2>2. /\ q \in Task /\ q.pc = "begun" /\ q.declared = FilesToStage(t)
        /\ q.extraStage = task[t].extraStage /\ q.reason = task[t].reason
    BY <2>1, DeclaredIs DEF Task, PC
  <2>3. Fail(t, "fs-ops-error") \/ task' = [task EXCEPT ![t] = q]
    BY DEF Begin
  <2> HIDE DEF q
  <2> QED
    BY <2>2, <2>3, Replaced, FailIs DEF Reasons
<1>4. Moved(t)
  BY <1>3 DEF FailedFor
<1>5. TypeOK'
  BY <1>1, <1>2, <1>4 DEF TypeOK, Moved, md
<1> QED
  BY <1>1, <1>2, <1>3, <1>4, <1>5

LEMMA ReadHeadIs ==
    ASSUME TypeOK, NEW t \in Tasks, ReadHead(t)
    PROVE  /\ TypeOK' /\ Moved(t) /\ UNCHANGED <<repo, md, run, landed>>
           /\ task'[t].pc = "llm" /\ task'[t].declared = task[t].declared
           /\ task'[t].extraStage = task[t].extraStage /\ task'[t].reason = task[t].reason
<1> DEFINE q == [task[t] EXCEPT !.pc = "llm", !.headBefore = head]
<1>1. task[t] \in Task /\ head \in Nat
  BY DEF TypeOK
<1>2. /\ q \in Task /\ q.pc = "llm" /\ q.declared = task[t].declared
      /\ q.extraStage = task[t].extraStage /\ q.reason = task[t].reason
  BY <1>1 DEF Task, PC
<1>3. task' = [task EXCEPT ![t] = q] /\ UNCHANGED <<repo, md, run, landed>>
  BY DEF ReadHead
<1> HIDE DEF q
<1> QED
  BY <1>2, <1>3, Replaced, QuietTypes

LEMMA InvokeIs ==
    ASSUME TypeOK, NEW t \in Tasks, Invoke(t)
    PROVE  /\ TypeOK' /\ Moved(t) /\ UNCHANGED run /\ (Wrote \/ WroteAndCommitted)
           /\ \/ FailedFor(t, {"llm-error"})
              \/ Kept(t) /\ task'[t].pc \in {"llm", "verify"} /\ task'[t].reason = task[t].reason
<1> PICK E \in Edits(t) :
       /\ LlmWrites(t, E)
       /\ \/ Fail(t, "llm-error")
          \/ Goto(t, "verify")
          \/ task' = [task EXCEPT ![t].pass = 1, ![t].wrote = E]
  BY DEF Invoke
<1> DEFINE q == [task[t] EXCEPT !.pass = 1, !.wrote = E]
<1>1. CASE Fail(t, "llm-error")
  <2>1. FailedFor(t, {"llm-error"})
    BY <1>1, FailIs DEF Reasons
  <2> QED
    BY <2>1, LlmIs, TypesOfParts DEF FailedFor, Invoke
<1>2. CASE Goto(t, "verify")
  BY <1>2, GotoIs, LlmIs, TypesOfParts DEF PC, Invoke
<1>3. CASE task' = [task EXCEPT ![t].pass = 1, ![t].wrote = E]
  <2>1. task[t] \in Task /\ E \subseteq Files /\ task[t].pc = "llm"
    BY PathsAre DEF TypeOK, Edits, Invoke
  <2>2. /\ q \in Task /\ q.pc = "llm" /\ q.reason = task[t].reason
        /\ q.declared = task[t].declared /\ q.extraStage = task[t].extraStage
        /\ q.headBefore = task[t].headBefore /\ q.original = task[t].original
    <3>1. 1 \in 0..1 /\ E \in SUBSET Files
      BY <2>1
    <3> QED
      BY <2>1, <3>1 DEF Task
  <2>3. task' = [task EXCEPT ![t] = q]
    BY <1>3
  <2> HIDE DEF q
  <2>4. Moved(t) /\ Kept(t) /\ task'[t].pc = "llm" /\ task'[t].reason = task[t].reason
    BY <2>2, <2>3, Replaced DEF Kept
  <2> QED
    BY <2>4, LlmIs, TypesOfParts DEF Invoke
<1> QED
  BY <1>1, <1>2, <1>3

\* A loop of rounds is entered, or goes on to the next round.
LEMMA RoundIs ==
    ASSUME TypeOK, NEW t \in Tasks, NEW pc \in PC, NEW n \in Nat,
           task' = [task EXCEPT ![t].pc = pc, ![t].round = n]
    PROVE  Moved(t) /\ Kept(t) /\ task'[t].pc = pc /\ task'[t].reason = task[t].reason
<1> DEFINE q == [task[t] EXCEPT !.pc = pc, !.round = n]
<1>1. task[t] \in Task
  BY DEF TypeOK
<1>2. /\ q \in Task /\ q.pc = pc /\ q.reason = task[t].reason
      /\ q.declared = task[t].declared /\ q.extraStage = task[t].extraStage
      /\ q.headBefore = task[t].headBefore /\ q.original = task[t].original
  BY <1>1 DEF Task
<1>3. task' = [task EXCEPT ![t] = q]
  OBVIOUS
<1> HIDE DEF q
<1> QED
  BY <1>2, <1>3, Replaced DEF Kept

\* One more round, at the same pc.
LEMMA AgainIs ==
    ASSUME TypeOK, NEW t \in Tasks, task' = [task EXCEPT ![t].round = @ + 1]
    PROVE  Moved(t) /\ Kept(t) /\ task'[t].pc = task[t].pc /\ task'[t].reason = task[t].reason
<1> DEFINE q == [task[t] EXCEPT !.round = @ + 1]
<1>1. task[t] \in Task
  BY DEF TypeOK
<1>2. /\ q \in Task /\ q.pc = task[t].pc /\ q.reason = task[t].reason
      /\ q.declared = task[t].declared /\ q.extraStage = task[t].extraStage
      /\ q.headBefore = task[t].headBefore /\ q.original = task[t].original
  BY <1>1 DEF Task
<1>3. task' = [task EXCEPT ![t] = q]
  OBVIOUS
<1> HIDE DEF q
<1> QED
  BY <1>2, <1>3, Replaced DEF Kept

LEMMA VerifyIs ==
    ASSUME TypeOK, NEW t \in Tasks, Verify(t)
    PROVE  /\ TypeOK' /\ Moved(t) /\ UNCHANGED <<repo, md, run, landed>>
           /\ \/ FailedFor(t, {"llm-error", "verify-ralph-failed"})
              \/ Kept(t) /\ task'[t].pc \in {"commit", "verifyRalph"} /\ task'[t].reason = task[t].reason
<1>1. UNCHANGED <<repo, md, run, landed>>
  BY DEF Verify
<1>2. Moved(t) => TypeOK'
  BY <1>1, QuietTypes
<1>3. CASE Fail(t, "verify-ralph-failed") \/ Throw(t)
  BY <1>1, <1>2, <1>3, FailIs, ThrowIs DEF FailedFor, Reasons
<1>4. CASE Goto(t, "commit")
  BY <1>1, <1>2, <1>4, GotoIs DEF PC
<1>5. CASE task' = [task EXCEPT ![t].pc = "verifyRalph", ![t].round = 0]
  BY <1>1, <1>2, <1>5, RoundIs DEF PC
<1> QED
  BY <1>3, <1>4, <1>5 DEF Verify

LEMMA VerifyRoundIs ==
    ASSUME TypeOK, NEW t \in Tasks, VerifyRound(t)
    PROVE  /\ TypeOK' /\ Moved(t) /\ UNCHANGED run
           /\ UNCHANGED <<repo, md, landed>> \/ Wrote \/ WroteAndCommitted
           /\ \/ FailedFor(t, {"llm-error", "verify-ralph-failed"})
              \/ Kept(t) /\ task'[t].pc \in {"commit", "verifyRalph"} /\ task'[t].reason = task[t].reason
<1>1. UNCHANGED run /\ task[t].pc = "verifyRalph"
  BY DEF VerifyRound
<1>2. CASE Fail(t, "verify-ralph-failed") /\ UNCHANGED <<repo, md, landed>>
  <2>1. FailedFor(t, {"verify-ralph-failed"})
    BY <1>2, FailIs DEF Reasons
  <2> QED
    BY <1>1, <1>2, <2>1, QuietTypes DEF FailedFor
<1>3. ASSUME NEW E \in Edits(t), LlmWrites(t, E),
             \/ Goto(t, "commit")
             \/ task' = [task EXCEPT ![t].round = @ + 1]
             \/ Fail(t, "verify-ralph-failed")
             \/ Throw(t)
      PROVE  /\ TypeOK' /\ Moved(t) /\ (Wrote \/ WroteAndCommitted)
             /\ \/ FailedFor(t, {"llm-error", "verify-ralph-failed"})
                \/ Kept(t) /\ task'[t].pc \in {"commit", "verifyRalph"} /\ task'[t].reason = task[t].reason
  <2>1. /\ Moved(t)
        /\ \/ FailedFor(t, {"llm-error", "verify-ralph-failed"})
           \/ Kept(t) /\ task'[t].pc \in {"commit", "verifyRalph"} /\ task'[t].reason = task[t].reason
    BY <1>1, <1>3, GotoIs, AgainIs, FailIs, ThrowIs DEF FailedFor, Reasons, PC
  <2> QED
    BY <1>1, <1>3, <2>1, LlmIs, TypesOfParts
<1> QED
  BY <1>1, <1>2, <1>3 DEF VerifyRound

LEMMA CheckHeadIs ==
    ASSUME TypeOK, NEW t \in Tasks, CheckHead(t)
    PROVE  /\ TypeOK' /\ Moved(t) /\ Kept(t) /\ UNCHANGED <<repo, md, run, landed>>
           /\ \/ task'[t].pc = "check" /\ task'[t].reason = "llm-self-committed"
              \/ task'[t].pc = "diff" /\ task'[t].reason = task[t].reason /\ head = task[t].headBefore
<1> DEFINE q == IF head # task[t].headBefore
                THEN [task[t] EXCEPT !.pc = "check", !.reason = "llm-self-committed"]
                ELSE [task[t] EXCEPT !.pc = "diff", !.wrote = {}]
<1>1. task[t] \in Task
  BY DEF TypeOK
<1>2. /\ q \in Task
      /\ q.declared = task[t].declared /\ q.extraStage = task[t].extraStage
      /\ q.headBefore = task[t].headBefore /\ q.original = task[t].original
      /\ \/ q.pc = "check" /\ q.reason = "llm-self-committed"
         \/ q.pc = "diff" /\ q.reason = task[t].reason /\ head = task[t].headBefore
  BY <1>1 DEF Task, PC, Reasons
<1>3. task' = [task EXCEPT ![t] = q] /\ UNCHANGED <<repo, md, run, landed>>
  BY DEF CheckHead
<1> HIDE DEF q
<1> QED
  BY <1>2, <1>3, Replaced, QuietTypes DEF Kept

\* What classifyDrift is given, and what it answers.
Actual(t) == DiffNameOnly(task[t].headBefore) \ {TasksMd}
Declares(t) == task[t].declared \cup (Actual(t) \cap Governance)
Orphans(t) == Actual(t) \ Declares(t)
IsSilent(t) == Orphans(t) = {} \/ Fenced(Kind[t], GenDirs[t], Declares(t), Orphans(t))
\* The answer, as the record shows it.
Answered(t) ==
    /\ task'[t].headBefore = task[t].headBefore
    /\ \/ /\ IsSilent(t) /\ task'[t].pc = "read"
          /\ task'[t].declared = Declares(t) /\ task'[t].extraStage = Orphans(t)
          /\ task'[t].reason = IF Orphans(t) = {} THEN "success" ELSE "gen-fenced"
       \/ task'[t].pc = "orphanRalph" /\ task'[t].reason = "none"

LEMMA DiffIs ==
    ASSUME TypeOK, NEW n
    PROVE  DiffNameOnly(n) \subseteq Paths
  BY PathsAre DEF TypeOK, DiffNameOnly, Modified

LEMMA ClassifyIs ==
    ASSUME TypeOK, NEW t \in Tasks, Classify(t)
    PROVE  TypeOK' /\ Moved(t) /\ Answered(t) /\ UNCHANGED <<repo, md, run, landed>>
<1> DEFINE q == [task[t] EXCEPT !.declared = Declares(t), !.orphans = Orphans(t), !.round = 0,
                   !.expanded = IF IsSilent(t) THEN {} ELSE Declares(t),
                   !.pc = IF IsSilent(t) THEN "read" ELSE "orphanRalph",
                   !.extraStage = IF IsSilent(t) THEN Orphans(t) ELSE {},
                   !.reason = IF Orphans(t) = {} THEN "success"
                              ELSE IF IsSilent(t) THEN "gen-fenced" ELSE "none"]
<1>1. task[t] \in Task /\ Declares(t) \in SUBSET Paths /\ Orphans(t) \in SUBSET Paths
  <2>1. task[t] \in Task /\ task[t].declared \subseteq Paths
    BY DEF TypeOK, Task
  <2> QED
    BY <2>1, DiffIs, PathsAre DEF Declares, Orphans, Actual
<1>2. task' = [task EXCEPT ![t] = q] /\ UNCHANGED <<repo, md, run, landed>>
  BY DEF Classify, Actual, Declares, Orphans, IsSilent
<1>3. (Orphans(t) = {}) => IsSilent(t)
  BY DEF IsSilent
<1>4. CASE IsSilent(t)
  <2> DEFINE r == IF Orphans(t) = {} THEN "success" ELSE "gen-fenced"
  <2>1. q = [task[t] EXCEPT !.declared = Declares(t), !.orphans = Orphans(t), !.round = 0,
                   !.expanded = {}, !.pc = "read", !.extraStage = Orphans(t), !.reason = r]
    BY <1>4
  <2>2. r \in Reasons
    BY DEF Reasons
  <2> HIDE DEF r
  <2>3. /\ q \in Task /\ q.pc = "read" /\ q.headBefore = task[t].headBefore
        /\ q.declared = Declares(t) /\ q.extraStage = Orphans(t) /\ q.reason = r
    <3> HIDE DEF q
    <3> QED
      BY <1>1, <2>1, <2>2 DEF Task, PC
  <2> HIDE DEF q
  <2>4. Moved(t) /\ task'[t] = q
    BY <1>2, <2>3, Replaced
  <2> QED
    BY <1>2, <1>4, <2>3, <2>4, QuietTypes DEF Answered, r
<1>5. CASE ~IsSilent(t)
  <2>1. q = [task[t] EXCEPT !.declared = Declares(t), !.orphans = Orphans(t), !.round = 0,
                   !.expanded = Declares(t), !.pc = "orphanRalph", !.extraStage = {}, !.reason = "none"]
    BY <1>3, <1>5
  <2>2. /\ q \in Task /\ q.pc = "orphanRalph" /\ q.headBefore = task[t].headBefore /\ q.reason = "none"
    <3> HIDE DEF q
    <3> QED
      BY <1>1, <2>1 DEF Task, PC, Reasons
  <2> HIDE DEF q
  <2>4. Moved(t) /\ task'[t] = q
    BY <1>2, <2>2, Replaced
  <2> QED
    BY <1>2, <2>2, <2>4, QuietTypes DEF Answered
<1> QED
  BY <1>4, <1>5

\* A loop over orphans ends without silence: the commit of what is left has a reason.
Asked == {"none", "orphan-resolved-expand", "orphan-resolved-revert", "orphan-drift-warned"}
\* Where a round of it leaves the task.
Resolves(t) ==
    /\ Moved(t) /\ task'[t].headBefore = task[t].headBefore
    /\ task'[t].pc \in {"orphanRalph", "read"}
    /\ task'[t].reason = task[t].reason \/ task'[t].reason \in Asked
    /\ task'[t].pc = "read" => task'[t].reason \in Asked

LEMMA RecomputeIs ==
    ASSUME TypeOK, NEW t \in Tasks, task[t].pc = "orphanRalph", NEW D \in SUBSET Paths, NEW O \in SUBSET Paths,
           NEW reason \in Asked, Recompute(t, D, O, reason)
    PROVE  Resolves(t)
<1> DEFINE q == IF O = {}
                THEN [task[t] EXCEPT !.declared = D, !.expanded = {}, !.orphans = {},
                                     !.reason = reason, !.pc = "read"]
                ELSE [task[t] EXCEPT !.expanded = D, !.orphans = O, !.round = @ + 1]
<1>1. task[t] \in Task /\ reason \in Reasons
  BY DEF TypeOK, Asked, Reasons
<1>2. /\ q \in Task /\ q.headBefore = task[t].headBefore
      /\ \/ q.pc = "orphanRalph" /\ q.reason = task[t].reason
         \/ q.pc = "read" /\ q.reason = reason
  <2>1. CASE O = {}
    <3>1. q = [task[t] EXCEPT !.declared = D, !.expanded = {}, !.orphans = {},
                              !.reason = reason, !.pc = "read"]
      BY <2>1
    <3> HIDE DEF q
    <3> QED
      BY <1>1, <3>1 DEF Task, PC
  <2>2. CASE O # {}
    <3> DEFINE n == task[t].round + 1
    <3>1. q = [task[t] EXCEPT !.expanded = D, !.orphans = O, !.round = n]
      BY <2>2
    <3>2. n \in Nat
      BY <1>1 DEF Task
    <3> HIDE DEF q, n
    <3>3. /\ q \in Task /\ q.headBefore = task[t].headBefore
          /\ q.pc = task[t].pc /\ q.reason = task[t].reason
      BY <1>1, <3>1, <3>2 DEF Task
    <3> QED
      BY <3>3
  <2> QED
    BY <2>1, <2>2
<1>3. task' = [task EXCEPT ![t] = q]
  BY DEF Recompute
<1> HIDE DEF q
<1> QED
  BY <1>2, <1>3, Replaced DEF Resolves

\* What a round of it does to the tree and to tasks.md.
Restored == /\ UNCHANGED <<head, changed, tracked, staged, tasksMdHead, tasksMdIndex, run, landed>>
            /\ staged \subseteq dirty => staged \subseteq dirty'
            /\ \/ tasksMd'.boxes = tasksMd.boxes
               \/ tasksMd' = tasksMdHead
               \/ tasksMd' = tasksMdIndex /\ tasksMdIndex # Unstaged

LEMMA RevertIs ==
    ASSUME TypeOK, NEW t \in Tasks, task[t].pc = "orphanRalph", NEW F \in SUBSET task[t].orphans,
           Revert(t, F), UNCHANGED <<run, landed>>
    PROVE  TypeOK' /\ Resolves(t) /\ Restored
<1>1. /\ present' = present \cup (F \cap Files) /\ dirty' = dirty \ (F \ staged) /\ stale' = stale \ F
      /\ tasksMd' = IF TasksMd \notin F THEN tasksMd
                    ELSE IF tasksMdIndex = Unstaged THEN tasksMdHead ELSE tasksMdIndex
      /\ UNCHANGED <<head, changed, tracked, staged, tasksMdHead, tasksMdIndex>>
  BY DEF Revert
<1>2. RepoTypes'
  BY <1>1 DEF TypeOK, RepoTypes
<1>3. Restored
  BY <1>1 DEF Restored
<1>4. Resolves(t)
  <2> DEFINE diff == dirty' \cup {f \in Paths : changed[f] > task[t].headBefore}
                            \cup (IF tasksMd' # tasksMdHead THEN {TasksMd} ELSE {})
             D == task[t].expanded
             O == diff \ D
  <2>1. Recompute(t, D, O, "orphan-resolved-revert")
    BY DEF Revert
  <2>2. D \in SUBSET Paths
    BY DEF TypeOK, Task
  <2>3. dirty' \subseteq Files
    BY <1>2 DEF RepoTypes
  <2>4. O \in SUBSET Paths
    BY <2>3, PathsAre
  <2> HIDE DEF D, O
  <2> QED
    BY <2>1, <2>2, <2>4, RecomputeIs DEF Asked
<1> QED
  BY <1>2, <1>3, <1>4, TypesOfParts DEF Resolves

LEMMA ExpandIs ==
    ASSUME TypeOK, NEW t \in Tasks, task[t].pc = "orphanRalph", NEW F \in SUBSET task[t].orphans,
           Expand(t, F), UNCHANGED <<run, landed>>
    PROVE  TypeOK' /\ Resolves(t) /\ Restored
<1> DEFINE added == F \ {f \in Files : Op[t][f] # "none"}
           text == [tasksMd EXCEPT !.extra[t] = @ \cup added]
<1>1. added \subseteq Paths
  BY DEF TypeOK, Task
<1> HIDE DEF added
<1>2. text \in Text /\ text.boxes = tasksMd.boxes /\ text.extra[t] \subseteq Paths
  BY <1>1 DEF TypeOK, Text
<1>3. tasksMd' = text /\ UNCHANGED <<repo, tasksMdHead, tasksMdIndex>>
  BY DEF Expand, added
<1>4. RepoTypes'
  BY <1>2, <1>3 DEF TypeOK, RepoTypes, repo
<1>5. Restored
  BY <1>2, <1>3 DEF Restored, repo
<1>6. Resolves(t)
  <2> DEFINE diff == dirty \cup {f \in Paths : changed[f] > task[t].headBefore}
                           \cup (IF text # tasksMdHead THEN {TasksMd} ELSE {})
             D == Written(t) \cup text.extra[t]
             O == diff \ D
  <2>1. Recompute(t, D, O, "orphan-resolved-expand")
    BY DEF Expand, added
  <2>2. D \in SUBSET Paths
    BY <1>2, PathsAre
  <2>3. dirty \subseteq Files
    BY DEF TypeOK
  <2>4. O \in SUBSET Paths
    BY <2>3, PathsAre
  <2> HIDE DEF D, O
  <2> QED
    BY <2>1, <2>2, <2>4, RecomputeIs DEF Asked
<1> QED
  BY <1>4, <1>5, <1>6, TypesOfParts DEF Resolves

LEMMA OrphanRoundIs ==
    ASSUME TypeOK, NEW t \in Tasks, OrphanRound(t)
    PROVE  TypeOK' /\ Moved(t) /\ Restored /\ (FailedFor(t, {"orphan-stuck"}) \/ Resolves(t))
<1>1. task[t].pc = "orphanRalph" /\ UNCHANGED <<run, landed>> /\ task[t] \in Task
  BY DEF OrphanRound, TypeOK
<1>2. CASE UNCHANGED <<repo, md>>
  <2>1. Restored
    BY <1>1, <1>2 DEF Restored, repo, md
  <2>2. Moved(t) => TypeOK'
    BY <1>1, <1>2, QuietTypes
  <2>3. CASE task' = [task EXCEPT ![t].round = @ + 1]
    <3>1. Moved(t) /\ Kept(t) /\ task'[t].pc = "orphanRalph" /\ task'[t].reason = task[t].reason
      BY <1>1, <2>3, AgainIs
    <3>2. Resolves(t)
      BY <3>1 DEF Resolves, Kept
    <3> QED
      BY <2>1, <2>2, <3>1, <3>2
  <2>4. CASE Fail(t, "orphan-stuck")
    BY <2>1, <2>2, <2>4, FailIs DEF FailedFor, Reasons
  <2>5. CASE task' = [task EXCEPT ![t].declared = @ \cup task[t].orphans, ![t].expanded = {},
                                  ![t].pc = "read", ![t].reason = "orphan-drift-warned"]
    <3> DEFINE q == [task[t] EXCEPT !.declared = @ \cup task[t].orphans, !.expanded = {},
                                    !.pc = "read", !.reason = "orphan-drift-warned"]
    <3>1. /\ q \in Task /\ q.headBefore = task[t].headBefore /\ q.pc = "read"
          /\ q.reason = "orphan-drift-warned"
      BY <1>1 DEF Task, PC, Reasons
    <3>2. task' = [task EXCEPT ![t] = q]
      BY <2>5
    <3> HIDE DEF q
    <3>3. Resolves(t)
      BY <3>1, <3>2, Replaced DEF Resolves, Asked
    <3> QED
      BY <2>1, <2>2, <3>3 DEF Resolves
  <2>6. \/ \E i \in Intent(t) : IF i.action = "revert" THEN Revert(t, i.files) ELSE Expand(t, i.files)
        \/ task' = [task EXCEPT ![t].round = @ + 1]
        \/ Fail(t, "orphan-stuck")
        \/ task' = [task EXCEPT ![t].declared = @ \cup task[t].orphans, ![t].expanded = {},
                                ![t].pc = "read", ![t].reason = "orphan-drift-warned"]
    BY DEF OrphanRound
  <2>7. ASSUME NEW i \in Intent(t), IF i.action = "revert" THEN Revert(t, i.files) ELSE Expand(t, i.files)
        PROVE  TypeOK' /\ Restored /\ Resolves(t)
    <3>1. i.files \in SUBSET task[t].orphans
      BY DEF Intent
    <3> QED
      BY <1>1, <2>7, <3>1, RevertIs, ExpandIs
  <2> QED
    BY <2>3, <2>4, <2>5, <2>6, <2>7 DEF Resolves
<1>3. CASE ~UNCHANGED <<repo, md>>
  <2>1. PICK i \in Intent(t) : IF i.action = "revert" THEN Revert(t, i.files) ELSE Expand(t, i.files)
    BY <1>3 DEF OrphanRound
  <2>2. i.files \in SUBSET task[t].orphans
    BY DEF Intent
  <2> QED
    BY <1>1, <2>1, <2>2, RevertIs, ExpandIs DEF Resolves
<1> QED
  BY <1>2, <1>3

LEMMA RescanIs ==
    ASSUME TypeOK, NEW t \in Tasks, Rescan(t)
    PROVE  /\ TypeOK' /\ Moved(t) /\ UNCHANGED <<repo, md, run, landed>>
           /\ task'[t].headBefore = task[t].headBefore
           /\ \/ task'[t].pc = "check" /\ task'[t].reason = "llm-self-committed"
              \/ /\ task'[t].pc = "read" /\ task'[t].reason = task[t].reason
                 /\ head = task[t].headBefore /\ task'[t].declared = task[t].declared
                 /\ task'[t].extraStage = task[t].extraStage \cup (DiffNameOnly(task[t].headBefore) \cap Governance)
<1> DEFINE E == task[t].extraStage \cup (DiffNameOnly(task[t].headBefore) \cap Governance)
           q == IF head # task[t].headBefore
                THEN [task[t] EXCEPT !.pc = "check", !.reason = "llm-self-committed"]
                ELSE [task[t] EXCEPT !.pc = "read", !.extraStage = E]
<1>1. task[t] \in Task /\ E \in SUBSET Paths
  BY PathsAre DEF TypeOK, Task
<1>2. task' = [task EXCEPT ![t] = q] /\ UNCHANGED <<repo, md, run, landed>>
  BY DEF Rescan
<1>3. /\ q \in Task /\ q.headBefore = task[t].headBefore
      /\ \/ q.pc = "check" /\ q.reason = "llm-self-committed"
         \/ /\ q.pc = "read" /\ q.reason = task[t].reason /\ head = task[t].headBefore
            /\ q.declared = task[t].declared /\ q.extraStage = E
  <2> HIDE DEF E
  <2> QED
    BY <1>1 DEF Task, PC, Reasons
<1> HIDE DEF q
<1> QED
  BY <1>2, <1>3, Replaced, QuietTypes

LEMMA ReadTasksMdIs ==
    ASSUME TypeOK, NEW t \in Tasks, ReadTasksMd(t)
    PROVE  /\ TypeOK' /\ Moved(t) /\ UNCHANGED <<repo, md, run, landed>>
           /\ task'[t].pc = "flip" /\ task'[t].original = tasksMd /\ task'[t].reason = task[t].reason
           /\ task'[t].declared = task[t].declared /\ task'[t].extraStage = task[t].extraStage
           /\ task'[t].headBefore = task[t].headBefore
<1> DEFINE q == [task[t] EXCEPT !.pc = "flip", !.original = tasksMd]
<1>1. task[t] \in Task /\ tasksMd \in Text
  BY DEF TypeOK
<1>2. /\ q \in Task /\ q.pc = "flip" /\ q.original = tasksMd /\ q.reason = task[t].reason
      /\ q.declared = task[t].declared /\ q.extraStage = task[t].extraStage
      /\ q.headBefore = task[t].headBefore
  BY <1>1 DEF Task, PC
<1>3. task' = [task EXCEPT ![t] = q] /\ UNCHANGED <<repo, md, run, landed>>
  BY DEF ReadTasksMd
<1> HIDE DEF q
<1> QED
  BY <1>2, <1>3, Replaced, QuietTypes

LEMMA OriginalIs ==
    ASSUME TypeOK, NEW t \in Tasks
    PROVE  task[t].original \in Text
  BY DEF TypeOK, Task

LEMMA FlipIs ==
    ASSUME TypeOK, NEW t \in Tasks, Flip(t)
    PROVE  /\ TypeOK' /\ Moved(t) /\ Kept(t)
           /\ UNCHANGED <<repo, tasksMdHead, tasksMdIndex, run, landed>>
           /\ task'[t].pc = "add" /\ task'[t].reason = task[t].reason
           /\ tasksMd'.boxes = task[t].original.boxes \cup {t}
<1>1. Goto(t, "add") /\ UNCHANGED <<repo, tasksMdHead, tasksMdIndex, run, landed>>
  BY DEF Flip
<1>2. Moved(t) /\ Kept(t) /\ task'[t].pc = "add" /\ task'[t].reason = task[t].reason
  BY <1>1, GotoIs DEF PC
<1>3. tasksMd' \in Text /\ tasksMd'.boxes = task[t].original.boxes \cup {t}
  BY OriginalIs DEF Flip, Text
<1>4. RepoTypes'
  BY <1>1, <1>3 DEF TypeOK, RepoTypes, repo
<1> QED
  BY <1>1, <1>2, <1>3, <1>4, TypesOfParts

\* The box is cleared and the task fails.
Returned(t) == /\ FailedFor(t, {"llm-error"}) /\ tasksMd'.boxes = task[t].original.boxes \ {t}
               /\ UNCHANGED <<repo, tasksMdHead, tasksMdIndex, landed>>

LEMMA GitErrorIs ==
    ASSUME TypeOK, NEW t \in Tasks, GitError(t), UNCHANGED run
    PROVE  TypeOK' /\ Returned(t)
<1>1. Throw(t) /\ UNCHANGED <<repo, tasksMdHead, tasksMdIndex, landed>>
  BY DEF GitError
<1>2. FailedFor(t, {"llm-error"})
  BY <1>1, ThrowIs
<1>3. tasksMd' \in Text /\ tasksMd'.boxes = task[t].original.boxes \ {t}
  BY OriginalIs DEF GitError, Text
<1>4. RepoTypes'
  BY <1>1, <1>3 DEF TypeOK, RepoTypes, repo
<1> QED
  BY <1>1, <1>2, <1>3, <1>4, TypesOfParts DEF Returned, FailedFor

\* The stage list is in the index.
Added(t) ==
    /\ Moved(t) /\ Kept(t) /\ task'[t].pc = "commitNow" /\ task'[t].reason = task[t].reason
    /\ staged' = staged \cup (StageList(t) \cap Files \cap dirty)
    /\ tasksMdIndex' = IF tasksMd = tasksMdHead THEN Unstaged ELSE tasksMd
    /\ UNCHANGED <<head, changed, dirty, tasksMd, tasksMdHead, landed>>

LEMMA AddIs ==
    ASSUME TypeOK, NEW t \in Tasks, Add(t)
    PROVE  TypeOK' /\ Moved(t) /\ UNCHANGED run /\ (Returned(t) \/ Added(t))
<1> DEFINE S == StageList(t) \cap Files
<1>1. UNCHANGED run
  BY DEF Add
<1>2. CASE GitError(t)
  BY <1>1, <1>2, GitErrorIs DEF Returned, FailedFor
<1>3. CASE /\ staged' = staged \cup (S \cap dirty) /\ stale' = stale \ S
           /\ tasksMdIndex' = IF tasksMd = tasksMdHead THEN Unstaged ELSE tasksMd
           /\ Goto(t, "commitNow")
           /\ UNCHANGED <<head, changed, present, tracked, dirty, tasksMd, tasksMdHead, landed>>
  <2>1. Moved(t) /\ Kept(t) /\ task'[t].pc = "commitNow" /\ task'[t].reason = task[t].reason
    BY <1>3, GotoIs DEF PC
  <2>2. RepoTypes'
    BY <1>3 DEF TypeOK, RepoTypes
  <2> QED
    BY <1>1, <1>3, <2>1, <2>2, TypesOfParts DEF Added
<1> QED
  BY <1>2, <1>3 DEF Add

\* The index is a commit, and the check for orphans is next.
Landed(t) ==
    /\ Moved(t) /\ Kept(t) /\ task'[t].pc = "check" /\ task'[t].reason = task[t].reason
    /\ \A f \in Paths : changed'[f] = IF f \in staged \/ (f = TasksMd /\ tasksMdIndex # Unstaged)
                                      THEN head + 1 ELSE changed[f]
    /\ head' = head + 1 /\ staged' = {} /\ tasksMd' = tasksMd
    /\ tasksMdHead' = IF tasksMdIndex = Unstaged THEN tasksMdHead ELSE tasksMdIndex
    /\ tasksMdIndex' = Unstaged
    /\ landed' = IF tasksMdIndex = Unstaged THEN landed ELSE landed \cup tasksMdIndex.boxes

LEMMA CommitIs ==
    ASSUME TypeOK, NEW t \in Tasks, Commit(t)
    PROVE  /\ TypeOK' /\ Moved(t) /\ UNCHANGED run
           /\ \/ Returned(t)
              \/ Landed(t)
              \/ /\ Kept(t) /\ task'[t].pc = "unstage" /\ task'[t].reason = task[t].reason
                 /\ UNCHANGED <<repo, md, landed>>
<1>1. UNCHANGED run
  BY DEF Commit
<1>2. CASE GitError(t)
  BY <1>1, <1>2, GitErrorIs DEF Returned, FailedFor
<1>3. CASE Goto(t, "unstage") /\ UNCHANGED <<repo, md, landed>>
  BY <1>1, <1>3, GotoIs, QuietTypes DEF PC
<1>4. CASE /\ CommitIndex(staged, stale, tasksMdIndex) /\ Goto(t, "check") /\ UNCHANGED <<present, tasksMd>>
  <2>1. Moved(t) /\ Kept(t) /\ task'[t].pc = "check" /\ task'[t].reason = task[t].reason
    BY <1>4, GotoIs DEF PC
  <2>2. /\ changed' \in [Paths -> Nat]
        /\ \A f \in Paths : changed'[f] = IF f \in staged \/ (f = TasksMd /\ tasksMdIndex # Unstaged)
                                          THEN head + 1 ELSE changed[f]
    BY <1>4 DEF CommitIndex, TypeOK
  <2>3. /\ head' = head + 1 /\ staged' = {} /\ stale' = {} /\ tasksMd' = tasksMd /\ present' = present
        /\ dirty' = dirty \ (staged \ stale)
        /\ tracked' = (tracked \ staged) \cup (staged \cap present)
        /\ tasksMdHead' = IF tasksMdIndex = Unstaged THEN tasksMdHead ELSE tasksMdIndex
        /\ tasksMdIndex' = Unstaged
        /\ landed' = IF tasksMdIndex = Unstaged THEN landed ELSE landed \cup tasksMdIndex.boxes
    BY <1>4 DEF CommitIndex
  <2>4. tasksMdIndex # Unstaged => tasksMdIndex.boxes \subseteq Tasks
    BY DEF TypeOK, Text
  <2>5. RepoTypes'
    BY <2>2, <2>3, <2>4 DEF TypeOK, RepoTypes
  <2> QED
    BY <1>1, <2>1, <2>2, <2>3, <2>5, TypesOfParts DEF Landed
<1> QED
  BY <1>2, <1>3, <1>4 DEF Commit

LEMMA UnstageIs ==
    ASSUME TypeOK, NEW t \in Tasks, Unstage(t)
    PROVE  /\ TypeOK' /\ Moved(t) /\ UNCHANGED <<head, changed, dirty, tasksMd, tasksMdHead, run, landed>>
           /\ staged' \subseteq staged
           /\ \/ FailedFor(t, {"llm-error"}) /\ tasksMdIndex' = tasksMdIndex
              \/ /\ Kept(t) /\ task'[t].pc = "restore" /\ task'[t].reason = task[t].reason
                 /\ tasksMdIndex' = Unstaged
<1> DEFINE S == StageList(t) \cap Files
<1>1. UNCHANGED <<run, landed>>
  BY DEF Unstage
<1>2. CASE Throw(t) /\ UNCHANGED <<repo, md>>
  BY <1>1, <1>2, ThrowIs, QuietTypes DEF FailedFor, repo, md
<1>3. CASE /\ staged' = staged \ S /\ stale' = stale \ S
           /\ tasksMdIndex' = Unstaged
           /\ Goto(t, "restore")
           /\ UNCHANGED <<head, changed, present, tracked, dirty, tasksMd, tasksMdHead>>
  <2>1. Moved(t) /\ Kept(t) /\ task'[t].pc = "restore" /\ task'[t].reason = task[t].reason
    BY <1>3, GotoIs DEF PC
  <2>2. RepoTypes'
    BY <1>1, <1>3 DEF TypeOK, RepoTypes
  <2> QED
    BY <1>1, <1>3, <2>1, <2>2, TypesOfParts
<1> QED
  BY <1>2, <1>3 DEF Unstage

LEMMA RestoreIs ==
    ASSUME TypeOK, NEW t \in Tasks, Restore(t)
    PROVE  /\ TypeOK' /\ Moved(t) /\ Kept(t)
           /\ UNCHANGED <<repo, tasksMdHead, tasksMdIndex, run, landed>>
           /\ task'[t].pc = "hookRalph" /\ task'[t].reason = task[t].reason
           /\ tasksMd' = task[t].original
<1> DEFINE n == IF task[t].hook THEN task[t].round + 1 ELSE 0
           q == [task[t] EXCEPT !.pc = "hookRalph", !.hook = TRUE, !.round = n]
<1>1. /\ tasksMd' = task[t].original /\ task' = [task EXCEPT ![t] = q]
      /\ UNCHANGED <<repo, tasksMdHead, tasksMdIndex, run, landed>>
  BY DEF Restore
<1>2. task[t] \in Task
  BY DEF TypeOK
<1>3. n \in Nat
  BY <1>2 DEF Task
<1>4. /\ q \in Task /\ q.pc = "hookRalph" /\ q.reason = task[t].reason
      /\ q.declared = task[t].declared /\ q.extraStage = task[t].extraStage
      /\ q.headBefore = task[t].headBefore /\ q.original = task[t].original
  <2> HIDE DEF n
  <2> QED
    BY <1>2, <1>3 DEF Task, PC
<1> HIDE DEF q
<1>5. Moved(t) /\ task'[t] = q
  BY <1>1, <1>4, Replaced
<1>6. RepoTypes'
  BY <1>1, OriginalIs DEF TypeOK, RepoTypes, repo
<1> QED
  BY <1>1, <1>4, <1>5, <1>6, TypesOfParts DEF Kept

LEMMA HookRoundIs ==
    ASSUME TypeOK, NEW t \in Tasks, HookRound(t)
    PROVE  /\ TypeOK' /\ Moved(t) /\ UNCHANGED run
           /\ UNCHANGED <<repo, md, landed>> \/ Wrote \/ WroteAndCommitted
           /\ \/ FailedFor(t, {"hook-ralph-failed"})
              \/ Kept(t) /\ task'[t].pc = "rescan" /\ task'[t].reason = task[t].reason
<1>1. UNCHANGED run
  BY DEF HookRound
<1>2. \/ FailedFor(t, {"hook-ralph-failed"})
      \/ Moved(t) /\ Kept(t) /\ task'[t].pc = "rescan" /\ task'[t].reason = task[t].reason
  BY GotoIs, FailIs DEF HookRound, PC, Reasons
<1>3. Moved(t)
  BY <1>2 DEF FailedFor
<1>4. CASE UNCHANGED <<repo, md, landed>>
  BY <1>1, <1>2, <1>3, <1>4, QuietTypes
<1>5. ASSUME NEW E \in Edits(t), LlmWrites(t, E)
      PROVE  TypeOK' /\ (Wrote \/ WroteAndCommitted)
  BY <1>1, <1>3, <1>5, LlmIs, TypesOfParts
<1> QED
  BY <1>1, <1>2, <1>3, <1>4, <1>5 DEF HookRound

LEMMA CheckOrphansIs ==
    ASSUME TypeOK, NEW t \in Tasks, CheckOrphans(t)
    PROVE  /\ TypeOK' /\ Moved(t) /\ UNCHANGED <<repo, md, run, landed>>
           /\ \/ FailedFor(t, {"orphan-after-commit"})
              \/ StatusClean /\ task'[t].pc = "ok" /\ task'[t].reason = task[t].reason
<1>1. UNCHANGED <<repo, md, run, landed>>
  BY DEF CheckOrphans
<1>2. task[t].reason \in Reasons
  BY DEF TypeOK, Task
<1>3. \/ FailedFor(t, {"orphan-after-commit"})
      \/ Moved(t) /\ StatusClean /\ task'[t].pc = "ok" /\ task'[t].reason = task[t].reason
  BY <1>2, FailIs, EndIs DEF CheckOrphans, Reasons
<1> QED
  BY <1>1, <1>3, QuietTypes DEF FailedFor

LEMMA GitFailsIs ==
    ASSUME TypeOK, NEW t \in Tasks, GitFails(t)
    PROVE  TypeOK' /\ Moved(t) /\ UNCHANGED <<repo, md, run, landed>> /\ FailedFor(t, {"llm-error"})
  BY ThrowIs, QuietTypes DEF GitFails, FailedFor

LEMMA StartIs ==
    ASSUME TypeOK, Start
    PROVE  /\ TypeOK' /\ UNCHANGED <<repo, md, landed>>
           /\ task' = [t \in Tasks |-> Fresh]
           /\ run'.state = "running" /\ run'.pending = Tasks \ tasksMd.boxes
           /\ run'.clean = (tasksMdIndex = Unstaged)
<1> PICK p \in DOMAIN Bound[run.count + 1] :
       run' = [state |-> "running", parallel |-> p, batch |-> 1, pending |-> Pending,
               count |-> run.count + 1, clean |-> tasksMdIndex = Unstaged, extra |-> tasksMd.extra]
  BY DEF Start
<1>1. p \in BOOLEAN
  <2>1. run.count \in Nat
    BY DEF TypeOK
  <2>2. run.count + 1 \in 1..Len(Bound)
    BY <2>1, BoundAssumption DEF Start
  <2> QED
    BY <2>2, BoundAssumption
<1>2. tasksMd.extra \in [Tasks -> SUBSET Paths] /\ run.count \in Nat
  BY DEF TypeOK, Text
<1>3. (tasksMdIndex = Unstaged) \in BOOLEAN
  OBVIOUS
<1>4. UNCHANGED <<repo, md, landed>> /\ task' = [t \in Tasks |-> Fresh]
  BY DEF Start
<1>5. run' \in [state : {"off", "running", "done", "halted"}, parallel : BOOLEAN,
                batch : Nat, pending : SUBSET Tasks, count : Nat, clean : BOOLEAN,
                extra : [Tasks -> SUBSET Paths]]
  BY <1>1, <1>2, <1>3 DEF Pending
<1>6. TypeOK'
  BY <1>4, <1>5, FreshIs DEF TypeOK, repo, md
<1> QED
  BY <1>4, <1>6 DEF Pending

LEMMA EndBatchIs ==
    ASSUME TypeOK, EndBatch
    PROVE  /\ TypeOK' /\ UNCHANGED <<repo, md, task, landed>>
           /\ run'.parallel = run.parallel /\ run'.pending = run.pending
           /\ run'.clean = run.clean /\ run'.extra = run.extra /\ run'.state # "off"
           /\ \/ run.batch > Len(Schedule) /\ run'.batch = run.batch
              \/ (\A t \in Tasks : task[t].pc \in {"waiting", "ok", "failed"}) /\ run'.batch = run.batch
              \/ \A t \in Tasks : Ended(t) /\ task[t].pc # "failed"
           /\ run.state = "running"
<1>1. UNCHANGED <<repo, md, task, landed>> /\ run.state = "running"
  BY DEF EndBatch
<1>2. CASE run.batch > Len(Schedule) /\ run' = [run EXCEPT !.state = "done"]
  BY <1>1, <1>2 DEF TypeOK, repo, md
<1>3. CASE /\ \A t \in Tasks : task[t].pc \in {"waiting", "ok", "failed"}
           /\ run' = [run EXCEPT !.state = "halted"]
  BY <1>1, <1>3 DEF TypeOK, repo, md
<1>4. CASE /\ \A t \in Tasks : Ended(t) /\ task[t].pc # "failed"
           /\ run' = [run EXCEPT !.batch = @ + 1]
  BY <1>1, <1>4 DEF TypeOK, repo, md
<1> QED
  BY <1>2, <1>3, <1>4 DEF EndBatch

LEMMA KillIs ==
    ASSUME TypeOK, Kill
    PROVE  /\ TypeOK' /\ UNCHANGED <<repo, md, landed>> /\ task' = [t \in Tasks |-> Fresh]
           /\ run'.parallel = run.parallel /\ run'.clean = run.clean /\ run'.pending = run.pending
           /\ run'.state = "off"
  BY FreshIs DEF Kill, TypeOK, repo, md

LEMMA DiscardIs ==
    ASSUME TypeOK, Discard
    PROVE  /\ TypeOK' /\ UNCHANGED <<head, changed, tasksMdHead, run, task, landed>>
           /\ dirty' = {} /\ staged' = {} /\ tasksMd' = tasksMdHead /\ tasksMdIndex' = Unstaged
           /\ run.state # "running"
  BY DEF Discard, TypeOK

-----------------------------------------------------------------------------
(* TypeOK, and who is at work.                                             *)

Active(t) == task[t].pc \notin {"waiting", "ok"}
Working(t) == task[t].pc \notin {"waiting", "ok", "failed"}

\* What every step of a task has in common.
LEMMA StepIs ==
    ASSUME TypeOK, NEW t \in Tasks, Step(t)
    PROVE  /\ TypeOK' /\ Moved(t) /\ UNCHANGED run
           /\ Turn(t) \/ Working(t)
           /\ task'[t].pc # "waiting"
           /\ task'[t].pc = "ok" => StatusClean /\ UNCHANGED <<repo, md>>
<1>1. CASE Begin(t)
  BY <1>1, BeginIs DEF FailedFor, Begin
<1>2. CASE ReadHead(t)
  BY <1>2, ReadHeadIs DEF ReadHead, Working
<1>3. CASE Invoke(t)
  BY <1>3, InvokeIs DEF FailedFor, Invoke, Working
<1>4. CASE Verify(t)
  BY <1>4, VerifyIs DEF FailedFor, Verify, Working
<1>5. CASE VerifyRound(t)
  BY <1>5, VerifyRoundIs DEF FailedFor, VerifyRound, Working
<1>6. CASE CheckHead(t)
  BY <1>6, CheckHeadIs DEF CheckHead, Working
<1>7. CASE Classify(t)
  BY <1>7, ClassifyIs DEF Classify, Working, Answered
<1>8. CASE OrphanRound(t)
  BY <1>8, OrphanRoundIs DEF OrphanRound, Working, FailedFor, Resolves, Restored
<1>9. CASE Rescan(t)
  BY <1>9, RescanIs DEF Rescan, Working
<1>10. CASE ReadTasksMd(t)
  BY <1>10, ReadTasksMdIs DEF ReadTasksMd, Working
<1>11. CASE Flip(t)
  BY <1>11, FlipIs DEF Flip, Working
<1>12. CASE Add(t)
  BY <1>12, AddIs DEF Add, Working, Returned, Added, FailedFor
<1>13. CASE Commit(t)
  BY <1>13, CommitIs DEF Commit, Working, Returned, Landed, FailedFor
<1>14. CASE Unstage(t)
  BY <1>14, UnstageIs DEF Unstage, Working, FailedFor
<1>15. CASE Restore(t)
  BY <1>15, RestoreIs DEF Restore, Working
<1>16. CASE HookRound(t)
  BY <1>16, HookRoundIs DEF HookRound, Working, FailedFor
<1>17. CASE CheckOrphans(t)
  BY <1>17, CheckOrphansIs DEF CheckOrphans, Working, FailedFor
<1>18. CASE GitFails(t)
  BY <1>18, GitFailsIs DEF GitFails, Working, FailedFor
<1> QED
  BY <1>1, <1>2, <1>3, <1>4, <1>5, <1>6, <1>7, <1>8, <1>9, <1>10, <1>11, <1>12, <1>13,
     <1>14, <1>15, <1>16, <1>17, <1>18 DEF Step

LEMMA TypesHold == Init => TypeOK
<1> SUFFICES ASSUME Init PROVE TypeOK
  OBVIOUS
<1>1. NoText.extra \in [Tasks -> SUBSET Paths] /\ NoText \in Text
  BY DEF NoText, Text
<1>2. run \in [state : {"off", "running", "done", "halted"}, parallel : BOOLEAN,
               batch : Nat, pending : SUBSET Tasks, count : Nat, clean : BOOLEAN,
               extra : [Tasks -> SUBSET Paths]]
  BY <1>1 DEF Init
<1>3. changed \in [Paths -> Nat]
  BY DEF Init
<1> QED
  BY <1>1, <1>2, <1>3, FreshIs DEF Init, TypeOK

\* The types hold whatever the LLM, the hooks and git do between any two steps.
THEOREM FeatureRunTypesHold == Spec => []TypeOK
<1>1. ASSUME TypeOK, [Next]_vars PROVE TypeOK'
  <2>1. ASSUME NEW t \in Tasks, Step(t) PROVE TypeOK'
    BY <1>1, <2>1, StepIs
  <2>2. CASE Start \/ EndBatch \/ Kill \/ Discard
    BY <1>1, <2>2, StartIs, EndBatchIs, KillIs, DiscardIs
  <2>3. CASE UNCHANGED vars
    BY <1>1, <2>3 DEF vars, repo, md, TypeOK
  <2> QED
    BY <1>1, <2>1, <2>2, <2>3 DEF Next
<1> QED
  BY <1>1, TypesHold, PTL DEF Spec

\* Who is at work: tasks of the batch, and without --parallel one after the other.
Control ==
    /\ \A t \in Tasks : Active(t) => t \in run.pending /\ InBatch(t)
    /\ run.state # "running" => \A t \in Tasks : ~Working(t)
    /\ run.state = "off" => \A t \in Tasks : task[t].pc = "waiting"
    /\ ~run.parallel =>
         /\ \A t, u \in Tasks : Active(t) /\ Active(u) => t = u
         /\ \A t \in Tasks, u \in run.pending :
              task[t].pc # "waiting" /\ Before(u, t) => task[u].pc = "ok"

\* Two tasks of one batch: one is before the other.
LEMMA InOrder ==
    ASSUME TypeOK, NEW t \in Tasks, NEW u \in Tasks, InBatch(t), InBatch(u)
    PROVE  t = u \/ Before(t, u) \/ Before(u, t)
<1> DEFINE b == run.batch
<1>1. b \in DOMAIN Schedule
  BY DEF InBatch
<1>2. Schedule \in Seq(Seq(Tasks))
  BY ScheduleAssumption DEF Schedule
<1>3. Schedule[b] \in Seq(Tasks)
  BY <1>1, <1>2
<1>4. PICK i, j \in DOMAIN Schedule[b] : Schedule[b][i] = t /\ Schedule[b][j] = u
  BY DEF InBatch
<1>5. i \in Int /\ j \in Int
  BY <1>3
<1>6. i < j \/ j < i \/ i = j
  BY <1>5
<1> HIDE DEF b
<1> QED
  BY <1>1, <1>4, <1>6 DEF Before

LEMMA ControlStarts ==
    ASSUME run' \in [state : {"off", "running", "done", "halted"}, parallel : BOOLEAN,
                     batch : Nat, pending : SUBSET Tasks, count : Nat, clean : BOOLEAN,
                     extra : [Tasks -> SUBSET Paths]],
           task' = [t \in Tasks |-> Fresh]
    PROVE  Control'
  BY FreshIs DEF Control, Active, Working

LEMMA ControlAtWork ==
    ASSUME TypeOK, Control, NEW t \in Tasks, Moved(t), UNCHANGED run, Working(t), task'[t].pc # "waiting"
    PROVE  Control'
<1>1. \A u \in Tasks : Active(u)' => Active(u)
  BY DEF Active, Working, Moved
<1>2. \A u \in Tasks : task'[u].pc # "waiting" => task[u].pc # "waiting"
  BY DEF Working, Moved
<1>3. \A u \in Tasks : task[u].pc = "ok" => task'[u].pc = "ok"
  BY DEF Working, Moved
<1>4. \A u \in Tasks : InBatch(u)' = InBatch(u)
  BY DEF InBatch
<1>5. run.state = "running" /\ run.pending \subseteq Tasks
  BY DEF Control, TypeOK
<1> QED
  BY <1>1, <1>2, <1>3, <1>4, <1>5 DEF Control

LEMMA ControlAtTurn ==
    ASSUME TypeOK, Control, NEW t \in Tasks, Moved(t), UNCHANGED run, Turn(t), task'[t].pc # "waiting"
    PROVE  Control'
<1>1. run.state = "running" /\ t \in run.pending /\ InBatch(t) /\ task[t].pc = "waiting"
  BY DEF Turn
<1>2. \A u \in Tasks : u # t => task'[u] = task[u]
  BY DEF Moved
<1>3. \A u \in Tasks : InBatch(u)' = InBatch(u)
  BY DEF InBatch
<1>4. \A u \in Tasks : Active(u)' => u \in run.pending /\ InBatch(u)
  BY <1>1, <1>2 DEF Control, Active
<1>5. ASSUME ~run.parallel
      PROVE  /\ \A u \in Tasks : Active(u)' => u = t
             /\ \A u \in Tasks, v \in run.pending :
                  task'[u].pc # "waiting" /\ Before(v, u) => task'[v].pc = "ok"
  <2>1. \A u \in run.pending : Before(u, t) => task[u].pc = "ok"
    BY <1>5 DEF Turn
  <2>2. run.pending \subseteq Tasks
    BY DEF TypeOK
  <2>3. ASSUME NEW u \in Tasks, Active(u)', u # t
        PROVE  FALSE
    <3>1. Active(u)
      BY <1>2, <2>3 DEF Active
    <3>2. u \in run.pending /\ InBatch(u)
      BY <3>1 DEF Control
    <3>3. CASE Before(u, t)
      BY <2>1, <3>1, <3>2, <3>3 DEF Active
    <3>4. CASE Before(t, u)
      BY <1>1, <1>5, <3>1, <3>4 DEF Control, Active
    <3> QED
      BY <1>1, <2>3, <3>2, <3>3, <3>4, InOrder
  <2>4. \A u \in Tasks, v \in run.pending :
          task'[u].pc # "waiting" /\ Before(v, u) => task[v].pc = "ok"
    BY <1>2, <1>5, <2>1 DEF Control
  <2> QED
    BY <1>1, <1>2, <2>2, <2>3, <2>4
<1> QED
  BY <1>1, <1>3, <1>4, <1>5 DEF Control

LEMMA ControlKept == TypeOK /\ Control /\ [Next]_vars => Control'
<1> SUFFICES ASSUME TypeOK, Control, [Next]_vars PROVE Control'
  OBVIOUS
<1>1. ASSUME NEW t \in Tasks, Step(t) PROVE Control'
  BY <1>1, StepIs, ControlAtWork, ControlAtTurn
<1>2. CASE Start \/ Kill
  BY <1>2, StartIs, KillIs, ControlStarts DEF TypeOK
<1>3. CASE EndBatch
  <2>1. \A t \in Tasks : Active(t)' = Active(t) /\ Working(t)' = Working(t)
    BY <1>3, EndBatchIs DEF Active, Working
  <2>2. /\ run'.parallel = run.parallel /\ run'.pending = run.pending /\ task' = task
        /\ run'.state # "off"
    BY <1>3, EndBatchIs
  <2>3. CASE run.batch > Len(Schedule) /\ run'.batch = run.batch
    <3>1. \A t \in Tasks : ~InBatch(t)
      BY <2>3, ScheduleAssumption DEF InBatch, Schedule, TypeOK
    <3> QED
      BY <2>1, <2>2, <3>1 DEF Control, Active, Working
  <2>4. CASE (\A t \in Tasks : task[t].pc \in {"waiting", "ok", "failed"}) /\ run'.batch = run.batch
    <3>1. \A t \in Tasks : ~Working(t) /\ InBatch(t)' = InBatch(t)
      BY <2>4 DEF Working, InBatch
    <3> QED
      BY <2>1, <2>2, <3>1 DEF Control
  <2>5. CASE \A t \in Tasks : Ended(t) /\ task[t].pc # "failed"
    <3>1. \A t \in Tasks : ~Active(t)
      BY <2>5 DEF Ended, Active, Control
    <3> QED
      BY <2>1, <2>2, <3>1 DEF Control, Active, Working
  <2> QED
    BY <1>3, <2>3, <2>4, <2>5, EndBatchIs
<1>4. CASE Discard
  BY <1>4, DiscardIs DEF Control, Active, Working, InBatch
<1>5. CASE UNCHANGED vars
  BY <1>5 DEF vars, Control, Active, Working, InBatch
<1> QED
  BY <1>1, <1>2, <1>3, <1>4, <1>5 DEF Next

LEMMA ControlHolds == Spec => []Control
<1>1. Init => Control
  BY FreshIs DEF Init, Control, Active, Working
<1> QED
  BY <1>1, ControlKept, FeatureRunTypesHold, PTL DEF Spec

-----------------------------------------------------------------------------
(* checkOrphans.                                                           *)

\* HandoverIsClean: only checkOrphans lets a task end well, on a tree with nothing
\* left in it, and nothing is written before the next task begins.
THEOREM HandoversAreClean == Spec => []HandoverIsClean
<1>1. Init => HandoverIsClean
  BY DEF Init, HandoverIsClean
<1>2. TypeOK /\ HandoverIsClean /\ [Next]_vars => HandoverIsClean'
  <2> SUFFICES ASSUME TypeOK, HandoverIsClean, [Next]_vars PROVE HandoverIsClean'
    OBVIOUS
  <2>1. ASSUME NEW t \in Tasks, Step(t) PROVE HandoverIsClean'
    <3>1. task'[t].pc # "waiting" /\ (task'[t].pc = "ok" => StatusClean /\ UNCHANGED <<repo, md>>)
      BY <2>1, StepIs
    <3>2. CASE task'[t].pc = "ok"
      BY <3>1, <3>2 DEF HandoverIsClean, StatusClean, Modified, repo, md
    <3>3. CASE task'[t].pc # "ok"
      BY <3>1, <3>3 DEF HandoverIsClean
    <3> QED
      BY <3>2, <3>3
  <2>2. CASE Start \/ Kill
    BY <2>2, StartIs, KillIs, FreshIs DEF HandoverIsClean
  <2>3. CASE EndBatch
    BY <2>3, EndBatchIs DEF HandoverIsClean, StatusClean, Modified, repo, md
  <2>4. CASE Discard
    BY <2>4, DiscardIs DEF HandoverIsClean
  <2>5. CASE UNCHANGED vars
    BY <2>5 DEF vars, HandoverIsClean, StatusClean, Modified, repo, md
  <2> QED
    BY <2>1, <2>2, <2>3, <2>4, <2>5 DEF Next
<1> QED
  BY <1>1, <1>2, FeatureRunTypesHold, PTL DEF Spec

-----------------------------------------------------------------------------
(* The boxes of tasks.md.                                                  *)

\* flipCheckbox has read tasks.md, and what it read is still to be used.
Rewrites(t) == task[t].pc \in {"flip", "add", "commitNow", "unstage", "restore"}
Committed(u) == task[u].pc = "ok" /\ task[u].reason # "llm-self-committed"

\* What was committed stays ticked, in each of the texts that may be written back.
BoxesKept ==
    /\ \A u \in Tasks : Committed(u) =>
         /\ u \in tasksMd.boxes /\ u \in tasksMdHead.boxes
         /\ tasksMdIndex # Unstaged => u \in tasksMdIndex.boxes
         /\ \A t \in Tasks : Rewrites(t) => u \in task[t].original.boxes
    /\ \A t \in Tasks :
         /\ task[t].pc \in {"add", "commitNow"} => t \in tasksMd.boxes
         /\ task[t].pc = "commitNow" => IF tasksMdIndex = Unstaged THEN tasksMd = tasksMdHead
                                        ELSE tasksMdIndex = tasksMd
         /\ task[t].pc = "check" /\ task[t].reason # "llm-self-committed" => t \in tasksMdHead.boxes

\* What is ticked has landed, unless its task is about to commit or to roll back.
BoxesLanded ==
    /\ tasksMdIndex # Unstaged => \E t \in Tasks : task[t].pc \in {"commitNow", "unstage", "failed"}
    /\ \A u \in run.pending : u \in tasksMd.boxes =>
         \/ u \in landed
         \/ task[u].pc \in {"add", "commitNow", "unstage", "restore"}
         \/ task[u].pc = "failed" /\ task[u].reason # "hook-ralph-failed"
    /\ \A t \in Tasks : Rewrites(t) =>
         \A u \in run.pending : u \in task[t].original.boxes => u \in landed

Boxes == /\ tasksMdHead.boxes \subseteq landed
         /\ ~run.parallel => BoxesKept
         /\ ~run.parallel /\ run.clean /\ run.state # "off" => BoxesLanded

\* A step that does not use what flipCheckbox reads, and does not end the task well.
Aside(t) == /\ task[t].pc \notin {"flip", "add", "commitNow", "unstage", "restore", "failed"}
            /\ task'[t].pc \notin {"ok", "flip", "add", "commitNow", "unstage", "restore"}
            /\ task'[t].pc = "check" => task'[t].reason = "llm-self-committed"
\* tasks.md may have been restored.
Reverts == /\ UNCHANGED <<tasksMdHead, tasksMdIndex, landed>>
           /\ \/ tasksMd'.boxes = tasksMd.boxes
              \/ tasksMd' = tasksMdHead
              \/ tasksMd' = tasksMdIndex /\ tasksMdIndex # Unstaged
\* checkOrphans has found nothing.
Passed(t) == /\ task[t].pc = "check" /\ task'[t].pc = "ok" /\ task'[t].reason = task[t].reason
             /\ StatusClean /\ UNCHANGED <<repo, md, landed>>

\* The steps, as tasks.md sees them.
LEMMA StepOnBoxes ==
    ASSUME TypeOK, NEW t \in Tasks, Step(t)
    PROVE  \/ Aside(t) /\ (Reverts \/ WroteAndCommitted)
           \/ ReadTasksMd(t) \/ Flip(t) \/ Add(t) \/ Commit(t) \/ Unstage(t) \/ Restore(t)
           \/ Passed(t)
<1>1. UNCHANGED <<md, landed>> \/ Wrote => Reverts
  BY DEF Reverts, Wrote, md
<1>2. CASE Begin(t)
  BY <1>1, <1>2, BeginIs DEF FailedFor, Begin, Turn, Aside
<1>3. CASE ReadHead(t)
  BY <1>1, <1>3, ReadHeadIs DEF ReadHead, Aside
<1>4. CASE Invoke(t)
  BY <1>1, <1>4, InvokeIs DEF FailedFor, Invoke, Aside
<1>5. CASE Verify(t)
  BY <1>1, <1>5, VerifyIs DEF FailedFor, Verify, Aside
<1>6. CASE VerifyRound(t)
  BY <1>1, <1>6, VerifyRoundIs DEF FailedFor, VerifyRound, Aside
<1>7. CASE CheckHead(t)
  BY <1>1, <1>7, CheckHeadIs DEF CheckHead, Aside
<1>8. CASE Classify(t)
  BY <1>1, <1>8, ClassifyIs DEF Classify, Aside, Answered
<1>9. CASE OrphanRound(t)
  <2>1. Reverts
    BY <1>9, OrphanRoundIs DEF Restored, Reverts
  <2> QED
    BY <1>9, <2>1, OrphanRoundIs DEF OrphanRound, Aside, FailedFor, Resolves
<1>10. CASE Rescan(t)
  BY <1>1, <1>10, RescanIs DEF Rescan, Aside
<1>11. CASE HookRound(t)
  BY <1>1, <1>11, HookRoundIs DEF HookRound, Aside, FailedFor
<1>12. CASE CheckOrphans(t)
  BY <1>1, <1>12, CheckOrphansIs DEF CheckOrphans, Aside, FailedFor, Passed
<1>13. CASE GitFails(t)
  BY <1>1, <1>13, GitFailsIs DEF GitFails, Aside, FailedFor
<1> QED
  BY <1>2, <1>3, <1>4, <1>5, <1>6, <1>7, <1>8, <1>9, <1>10, <1>11, <1>12, <1>13 DEF Step

\* Without --parallel the other tasks wait or have ended well.
LEMMA Alone ==
    ASSUME TypeOK, Control, NEW t \in Tasks, Step(t), ~run.parallel
    PROVE  \A u \in Tasks : u # t => ~Active(u) /\ task'[u] = task[u]
<1>1. Control' /\ Moved(t) /\ UNCHANGED run /\ (Turn(t) \/ Working(t)) /\ task'[t].pc # "waiting"
  BY StepIs, ControlAtWork, ControlAtTurn
<1>2. \A u \in Tasks : u # t => task'[u] = task[u]
  BY <1>1 DEF Moved
<1>3. CASE Working(t)
  BY <1>2, <1>3 DEF Control, Active, Working
<1>4. CASE task'[t].pc # "ok"
  <2>1. Active(t)'
    BY <1>1, <1>4 DEF Active
  <2>2. \A u \in Tasks : Active(u)' => u = t
    BY <1>1, <2>1 DEF Control
  <2> QED
    BY <1>2, <2>2 DEF Active
<1>5. Turn(t) /\ ~Working(t) => task'[t].pc # "ok"
  <2>1. SUFFICES ASSUME task[t].pc = "waiting" PROVE task'[t].pc # "ok"
    BY DEF Turn
  <2>2. ~Passed(t) /\ (Aside(t) => task'[t].pc # "ok")
    BY <2>1 DEF Passed, Aside
  <2> QED
    BY <2>1, <2>2, StepOnBoxes DEF ReadTasksMd, Flip, Add, Commit, Unstage, Restore
<1> QED
  BY <1>1, <1>3, <1>4, <1>5

LEMMA NoTextUnstaged == \A t \in Tasks : Unstaged \notin Text
  BY DEF Unstaged, Text

\* Without --parallel, a step that keeps what is ticked for those that have committed.
LEMMA KeptByOthers ==
    ASSUME TypeOK, Control, BoxesKept, NEW t \in Tasks, Step(t), ~run.parallel,
           task'[t].pc # "ok",
           \A u \in Tasks \ {t} : Committed(u) =>
             /\ u \in tasksMd'.boxes /\ u \in tasksMdHead'.boxes
             /\ tasksMdIndex' # Unstaged => u \in tasksMdIndex'.boxes
             /\ Rewrites(t)' => u \in task'[t].original.boxes,
           task'[t].pc \in {"add", "commitNow"} => t \in tasksMd'.boxes,
           task'[t].pc = "commitNow" => IF tasksMdIndex' = Unstaged THEN tasksMd' = tasksMdHead'
                                        ELSE tasksMdIndex' = tasksMd',
           task'[t].pc = "check" /\ task'[t].reason # "llm-self-committed" => t \in tasksMdHead'.boxes
    PROVE  BoxesKept'
<1>1. \A u \in Tasks : u # t => ~Active(u) /\ task'[u] = task[u]
  BY Alone
<1>2. \A u \in Tasks : Committed(u)' => u # t /\ Committed(u)
  BY <1>1 DEF Committed
<1>3. \A u \in Tasks : Rewrites(u)' => u = t
  BY <1>1 DEF Rewrites, Active
<1>4. \A u \in Tasks : task'[u].pc \in {"add", "commitNow", "check"} => u = t
  BY <1>1 DEF Active
<1>5. \A u \in Tasks : Committed(u)' =>
         /\ u \in tasksMd'.boxes /\ u \in tasksMdHead'.boxes
         /\ tasksMdIndex' # Unstaged => u \in tasksMdIndex'.boxes
         /\ \A x \in Tasks : Rewrites(x)' => u \in task'[x].original.boxes
  BY <1>2, <1>3
<1>6. \A x \in Tasks :
         /\ task'[x].pc \in {"add", "commitNow"} => x \in tasksMd'.boxes
         /\ task'[x].pc = "commitNow" => IF tasksMdIndex' = Unstaged THEN tasksMd' = tasksMdHead'
                                        ELSE tasksMdIndex' = tasksMd'
         /\ task'[x].pc = "check" /\ task'[x].reason # "llm-self-committed" => x \in tasksMdHead'.boxes
  BY <1>4
<1> QED
  BY <1>5, <1>6 DEF BoxesKept

LEMMA KeptByStep ==
    ASSUME TypeOK, Control, BoxesKept, NEW t \in Tasks, Step(t), ~run.parallel
    PROVE  BoxesKept'
<1>1. /\ \A u \in Tasks : Committed(u) =>
           /\ u \in tasksMd.boxes /\ u \in tasksMdHead.boxes
           /\ tasksMdIndex # Unstaged => u \in tasksMdIndex.boxes
           /\ Rewrites(t) => u \in task[t].original.boxes
      /\ task[t].pc \in {"add", "commitNow"} => t \in tasksMd.boxes
      /\ task[t].pc = "commitNow" => IF tasksMdIndex = Unstaged THEN tasksMd = tasksMdHead
                                     ELSE tasksMdIndex = tasksMd
      /\ task[t].pc = "check" /\ task[t].reason # "llm-self-committed" => t \in tasksMdHead.boxes
  BY DEF BoxesKept
<1>2. CASE Aside(t) /\ (Reverts \/ WroteAndCommitted)
  <2>1. ~Rewrites(t)' /\ task'[t].pc \notin {"ok", "add", "commitNow"}
    BY <1>2 DEF Aside, Rewrites
  <2>2. \A u \in Tasks : Committed(u) =>
           /\ u \in tasksMd'.boxes /\ u \in tasksMdHead'.boxes
           /\ tasksMdIndex' # Unstaged => u \in tasksMdIndex'.boxes
    BY <1>1, <1>2 DEF Reverts, WroteAndCommitted
  <2>3. task'[t].pc = "check" => task'[t].reason = "llm-self-committed"
    BY <1>2 DEF Aside
  <2> QED
    BY <2>1, <2>2, <2>3, KeptByOthers
<1>3. CASE ReadTasksMd(t)
  <2>1. task'[t].pc = "flip" /\ task'[t].original = tasksMd /\ UNCHANGED md
    BY <1>3, ReadTasksMdIs
  <2> QED
    BY <1>1, <2>1, KeptByOthers DEF md
<1>4. CASE Flip(t)
  <2>1. /\ task'[t].pc = "add" /\ task'[t].original = task[t].original
        /\ tasksMd'.boxes = task[t].original.boxes \cup {t} /\ UNCHANGED <<tasksMdHead, tasksMdIndex>>
        /\ Rewrites(t)
    BY <1>4, FlipIs DEF Kept, Flip, Rewrites
  <2> QED
    BY <1>1, <2>1, KeptByOthers
<1>5. CASE Returned(t) /\ (Add(t) \/ Commit(t))
  <2>1. /\ task'[t].pc = "failed" /\ tasksMd'.boxes = task[t].original.boxes \ {t}
        /\ UNCHANGED <<tasksMdHead, tasksMdIndex>> /\ Rewrites(t) /\ ~Rewrites(t)'
    BY <1>5 DEF Returned, FailedFor, Rewrites, Add, Commit
  <2> QED
    BY <1>1, <2>1, KeptByOthers
<1>6. CASE Added(t) /\ Add(t)
  <2>1. /\ task'[t].pc = "commitNow" /\ task'[t].original = task[t].original
        /\ tasksMdIndex' = IF tasksMd = tasksMdHead THEN Unstaged ELSE tasksMd
        /\ UNCHANGED <<tasksMd, tasksMdHead>> /\ Rewrites(t) /\ task[t].pc = "add"
    BY <1>6 DEF Added, Kept, Rewrites, Add
  <2>2. tasksMd # Unstaged
    BY NoTextUnstaged DEF TypeOK
  <2> QED
    BY <1>1, <2>1, <2>2, KeptByOthers
<1>7. CASE Landed(t) /\ Commit(t)
  <2>1. /\ task'[t].pc = "check" /\ tasksMd' = tasksMd /\ tasksMdIndex' = Unstaged
        /\ tasksMdHead' = IF tasksMdIndex = Unstaged THEN tasksMdHead ELSE tasksMdIndex
        /\ task[t].pc = "commitNow" /\ ~Rewrites(t)'
    BY <1>7 DEF Landed, Rewrites, Commit
  <2> QED
    BY <1>1, <2>1, KeptByOthers
<1>8. CASE Commit(t) /\ Kept(t) /\ task'[t].pc = "unstage" /\ UNCHANGED <<repo, md, landed>>
  <2>1. Rewrites(t) /\ task'[t].original = task[t].original /\ task'[t].pc = "unstage" /\ UNCHANGED md
    BY <1>8 DEF Rewrites, Commit, Kept
  <2> QED
    BY <1>1, <2>1, KeptByOthers DEF md
<1>9. CASE Unstage(t)
  <2>1. /\ UNCHANGED <<tasksMd, tasksMdHead>> /\ tasksMdIndex' \in {tasksMdIndex, Unstaged}
        /\ task'[t].pc \in {"restore", "failed"} /\ Rewrites(t)
        /\ task'[t].pc = "restore" => task'[t].original = task[t].original
        /\ task'[t].pc = "failed" => ~Rewrites(t)'
    BY <1>9, UnstageIs DEF FailedFor, Kept, Rewrites, Unstage
  <2> QED
    BY <1>1, <2>1, KeptByOthers
<1>10. CASE Restore(t)
  <2>1. /\ tasksMd' = task[t].original /\ task'[t].pc = "hookRalph" /\ ~Rewrites(t)'
        /\ Rewrites(t) /\ UNCHANGED <<tasksMdHead, tasksMdIndex>>
    BY <1>10, RestoreIs DEF Rewrites, Restore
  <2> QED
    BY <1>1, <2>1, KeptByOthers
<1>11. CASE Passed(t)
  <2>1. \A u \in Tasks : u # t => ~Active(u) /\ task'[u] = task[u]
    BY Alone
  <2>2. /\ tasksMd = tasksMdHead /\ tasksMdIndex = Unstaged /\ UNCHANGED <<tasksMd, tasksMdHead, tasksMdIndex>>
        /\ task[t].pc = "check" /\ task'[t].pc = "ok" /\ task'[t].reason = task[t].reason
    BY <1>11 DEF Passed, StatusClean, Modified, md
  <2>3. \A u \in Tasks : Committed(u)' => u = t \/ Committed(u)
    BY <2>1 DEF Committed
  <2>4. Committed(t)' => t \in tasksMdHead.boxes
    BY <1>1, <2>2 DEF Committed
  <2>5. \A u \in Tasks : task'[u].pc \in {"waiting", "ok"}
    BY <2>1, <2>2 DEF Active
  <2>6. \A u \in Tasks : ~Rewrites(u)'
    BY <2>5 DEF Rewrites
  <2>7. \A u \in Tasks : Committed(u)' =>
           /\ u \in tasksMd'.boxes /\ u \in tasksMdHead'.boxes
           /\ tasksMdIndex' # Unstaged => u \in tasksMdIndex'.boxes
    BY <1>1, <2>2, <2>3, <2>4
  <2>8. \A x \in Tasks :
         /\ task'[x].pc \in {"add", "commitNow"} => x \in tasksMd'.boxes
         /\ task'[x].pc = "commitNow" => IF tasksMdIndex' = Unstaged THEN tasksMd' = tasksMdHead'
                                        ELSE tasksMdIndex' = tasksMd'
         /\ task'[x].pc = "check" /\ task'[x].reason # "llm-self-committed" => x \in tasksMdHead'.boxes
    BY <2>5
  <2> QED
    BY <2>6, <2>7, <2>8 DEF BoxesKept
<1> QED
  BY <1>2, <1>3, <1>4, <1>5, <1>6, <1>7, <1>8, <1>9, <1>10, <1>11, StepOnBoxes, AddIs, CommitIs

\* What BoxesLanded says to the step of the one task that is at work.
LEMMA LandedBefore ==
    ASSUME TypeOK, Control, BoxesLanded, NEW t \in Tasks, Step(t), ~run.parallel
    PROVE  /\ tasksMdIndex # Unstaged => task[t].pc \in {"commitNow", "unstage"}
           /\ \A u \in run.pending : u # t /\ u \in tasksMd.boxes => u \in landed
           /\ t \in tasksMd.boxes => t \in landed \/ task[t].pc \in {"add", "commitNow", "unstage", "restore"}
           /\ Rewrites(t) => \A u \in run.pending : u \in task[t].original.boxes => u \in landed
           /\ t \in run.pending /\ run.pending \subseteq Tasks
<1>1. \A u \in Tasks : u # t => task[u].pc \in {"waiting", "ok"}
  BY Alone DEF Active
<1>2. task[t].pc # "failed" /\ t \in run.pending
  BY StepIs DEF Turn, Working, Active, Control
<1>3. run.pending \subseteq Tasks
  BY DEF TypeOK
<1> QED
  BY <1>1, <1>2, <1>3 DEF BoxesLanded

LEMMA LandedByOthers ==
    ASSUME TypeOK, Control, BoxesLanded, NEW t \in Tasks, Step(t), ~run.parallel,
           tasksMdIndex' # Unstaged => task'[t].pc \in {"commitNow", "unstage", "failed"},
           \A u \in run.pending : u # t /\ u \in tasksMd'.boxes => u \in landed',
           t \in tasksMd'.boxes => \/ t \in landed'
                                   \/ task'[t].pc \in {"add", "commitNow", "unstage", "restore"}
                                   \/ task'[t].pc = "failed" /\ task'[t].reason # "hook-ralph-failed",
           Rewrites(t)' => \A u \in run.pending : u \in task'[t].original.boxes => u \in landed'
    PROVE  BoxesLanded'
<1>1. \A u \in Tasks : u # t => ~Active(u) /\ task'[u] = task[u]
  BY Alone
<1>2. \A u \in Tasks : Rewrites(u)' => u = t
  BY <1>1 DEF Rewrites, Active
<1>3. run' = run
  BY StepIs
<1> QED
  BY <1>2, <1>3 DEF BoxesLanded

LEMMA LandedByStep ==
    ASSUME TypeOK, Control, BoxesKept, BoxesLanded, tasksMdHead.boxes \subseteq landed,
           NEW t \in Tasks, Step(t), ~run.parallel
    PROVE  BoxesLanded'
<1>1. /\ tasksMdIndex # Unstaged => task[t].pc \in {"commitNow", "unstage"}
      /\ \A u \in run.pending : u # t /\ u \in tasksMd.boxes => u \in landed
      /\ t \in tasksMd.boxes => t \in landed \/ task[t].pc \in {"add", "commitNow", "unstage", "restore"}
      /\ Rewrites(t) => \A u \in run.pending : u \in task[t].original.boxes => u \in landed
      /\ t \in run.pending
  BY LandedBefore
<1>2. CASE Aside(t) /\ (Reverts \/ WroteAndCommitted)
  <2>1. /\ ~Rewrites(t)' /\ task[t].pc \notin {"add", "commitNow", "unstage", "restore"}
        /\ tasksMdIndex = Unstaged
    BY <1>1, <1>2 DEF Aside, Rewrites
  <2>2. \A u \in run.pending : u \in tasksMd.boxes => u \in landed
    BY <1>1, <2>1
  <2>3. tasksMdIndex' = Unstaged
    BY <1>2, <2>1 DEF Reverts, WroteAndCommitted
  <2>4. \A u \in run.pending : u \in tasksMd'.boxes => u \in landed'
    BY <1>2, <2>1, <2>2 DEF Reverts, WroteAndCommitted
  <2> QED
    BY <1>1, <2>1, <2>3, <2>4, LandedByOthers
<1>3. CASE ReadTasksMd(t)
  <2>1. /\ task'[t].pc = "flip" /\ task'[t].original = tasksMd /\ UNCHANGED <<md, landed>>
        /\ task[t].pc = "read"
    BY <1>3, ReadTasksMdIs DEF ReadTasksMd
  <2> QED
    BY <1>1, <2>1, LandedByOthers DEF md
<1>4. CASE Flip(t)
  <2>1. /\ task'[t].pc = "add" /\ task'[t].original = task[t].original
        /\ tasksMd'.boxes = task[t].original.boxes \cup {t} /\ UNCHANGED <<tasksMdHead, tasksMdIndex, landed>>
        /\ Rewrites(t) /\ task[t].pc = "flip"
    BY <1>4, FlipIs DEF Kept, Flip, Rewrites
  <2> QED
    BY <1>1, <2>1, LandedByOthers
<1>5. CASE Returned(t) /\ (Add(t) \/ Commit(t))
  <2>1. /\ task'[t].pc = "failed" /\ tasksMd'.boxes = task[t].original.boxes \ {t}
        /\ UNCHANGED <<tasksMdHead, tasksMdIndex, landed>> /\ Rewrites(t) /\ ~Rewrites(t)'
    BY <1>5 DEF Returned, FailedFor, Rewrites, Add, Commit
  <2> QED
    BY <1>1, <2>1, LandedByOthers
<1>6. CASE Added(t) /\ Add(t)
  <2>1. /\ task'[t].pc = "commitNow" /\ task'[t].original = task[t].original
        /\ UNCHANGED <<tasksMd, landed>> /\ Rewrites(t)
    BY <1>6 DEF Added, Kept, Rewrites, Add
  <2> QED
    BY <1>1, <2>1, LandedByOthers
<1>7. CASE Landed(t) /\ Commit(t)
  <2>1. /\ task'[t].pc = "check" /\ tasksMd' = tasksMd /\ tasksMdIndex' = Unstaged
        /\ landed' = IF tasksMdIndex = Unstaged THEN landed ELSE landed \cup tasksMdIndex.boxes
        /\ task[t].pc = "commitNow" /\ ~Rewrites(t)'
    BY <1>7 DEF Landed, Rewrites, Commit
  <2>2. t \in landed'
    BY <2>1 DEF BoxesKept
  <2> QED
    BY <1>1, <2>1, <2>2, LandedByOthers
<1>8. CASE Commit(t) /\ Kept(t) /\ task'[t].pc = "unstage" /\ UNCHANGED <<repo, md, landed>>
  <2>1. /\ Rewrites(t) /\ task'[t].original = task[t].original /\ task'[t].pc = "unstage"
        /\ UNCHANGED <<md, landed>>
    BY <1>8 DEF Rewrites, Commit, Kept
  <2> QED
    BY <1>1, <2>1, LandedByOthers DEF md
<1>9. CASE Unstage(t)
  <2>1. /\ UNCHANGED <<tasksMd, landed>> /\ Rewrites(t)
        /\ \/ task'[t].pc = "failed" /\ task'[t].reason = "llm-error" /\ ~Rewrites(t)'
           \/ task'[t].pc = "restore" /\ task'[t].original = task[t].original /\ tasksMdIndex' = Unstaged
    BY <1>9, UnstageIs DEF FailedFor, Kept, Rewrites, Unstage
  <2> QED
    BY <1>1, <2>1, LandedByOthers
<1>10. CASE Restore(t)
  <2>1. /\ tasksMd' = task[t].original /\ task'[t].pc = "hookRalph" /\ ~Rewrites(t)'
        /\ Rewrites(t) /\ UNCHANGED <<tasksMdIndex, landed>> /\ task[t].pc = "restore"
    BY <1>10, RestoreIs DEF Rewrites, Restore
  <2> QED
    BY <1>1, <2>1, LandedByOthers
<1>11. CASE Passed(t)
  <2>1. /\ task[t].pc = "check" /\ task'[t].pc = "ok" /\ UNCHANGED <<tasksMd, tasksMdIndex, landed>>
        /\ ~Rewrites(t)'
    BY <1>11 DEF Passed, md, Rewrites
  <2> QED
    BY <1>1, <2>1, LandedByOthers
<1> QED
  BY <1>2, <1>3, <1>4, <1>5, <1>6, <1>7, <1>8, <1>9, <1>10, <1>11, StepOnBoxes, AddIs, CommitIs

LEMMA HeadByStep ==
    ASSUME TypeOK, tasksMdHead.boxes \subseteq landed, NEW t \in Tasks, Step(t)
    PROVE  tasksMdHead'.boxes \subseteq landed'
<1>1. CASE Aside(t) /\ (Reverts \/ WroteAndCommitted)
  BY <1>1 DEF Reverts, WroteAndCommitted
<1>2. CASE Add(t) \/ Commit(t)
  BY <1>2, AddIs, CommitIs DEF Returned, Added, Landed, md
<1>3. CASE ReadTasksMd(t) \/ Flip(t) \/ Unstage(t) \/ Restore(t) \/ Passed(t)
  BY <1>3, ReadTasksMdIs, FlipIs, UnstageIs, RestoreIs DEF Passed, md
<1> QED
  BY <1>1, <1>2, <1>3, StepOnBoxes

LEMMA BoxesStepKept ==
    ASSUME TypeOK, Control, Boxes, NEW t \in Tasks, Step(t)
    PROVE  Boxes'
<1>1. run' = run
  BY StepIs
<1> QED
  BY <1>1, HeadByStep, KeptByStep, LandedByStep DEF Boxes

LEMMA BoxesKeptByAll == TypeOK /\ Control /\ Boxes /\ [Next]_vars => Boxes'
<1> SUFFICES ASSUME TypeOK, Control, Boxes, [Next]_vars PROVE Boxes'
  OBVIOUS
<1>1. ASSUME NEW t \in Tasks, Step(t) PROVE Boxes'
  BY <1>1, BoxesStepKept
<1>2. CASE Start
  <2>1. /\ \A t \in Tasks : task'[t].pc = "waiting"
        /\ tasksMd' = tasksMd /\ tasksMdHead' = tasksMdHead /\ tasksMdIndex' = tasksMdIndex /\ landed' = landed
        /\ run'.pending = Tasks \ tasksMd.boxes /\ run'.clean = (tasksMdIndex = Unstaged)
    BY <1>2, StartIs, FreshIs DEF md
  <2>2. BoxesKept'
    BY <2>1 DEF BoxesKept, Committed
  <2>3. run'.clean => BoxesLanded'
    BY <2>1 DEF BoxesLanded, Rewrites
  <2> QED
    BY <2>1, <2>2, <2>3 DEF Boxes
<1>3. CASE Kill
  <2>1. /\ \A t \in Tasks : task'[t].pc = "waiting"
        /\ tasksMdHead' = tasksMdHead /\ landed' = landed /\ run'.state = "off"
    BY <1>3, KillIs, FreshIs DEF md
  <2>2. BoxesKept'
    BY <2>1 DEF BoxesKept, Committed
  <2> QED
    BY <2>1, <2>2 DEF Boxes
<1>4. CASE EndBatch
  <2>1. /\ run.state = "running" /\ UNCHANGED <<tasksMd, tasksMdHead, tasksMdIndex, task, landed>>
        /\ run'.parallel = run.parallel /\ run'.pending = run.pending /\ run'.clean = run.clean
    BY <1>4, EndBatchIs DEF md
  <2> QED
    BY <2>1 DEF Boxes, BoxesKept, BoxesLanded, Committed, Rewrites
<1>5. CASE Discard
  <2>1. /\ run.state # "running" /\ UNCHANGED <<tasksMdHead, run, task, landed>>
        /\ tasksMd' = tasksMdHead /\ tasksMdIndex' = Unstaged
    BY <1>5, DiscardIs
  <2>2. \A t \in Tasks : task[t].pc \in {"waiting", "ok", "failed"}
    BY <2>1 DEF Control, Working
  <2>3. \A t \in Tasks : ~Rewrites(t)' /\ Committed(t)' = Committed(t)
    BY <2>1, <2>2 DEF Rewrites, Committed
  <2>4. BoxesKept => BoxesKept'
    BY <2>1, <2>2, <2>3 DEF BoxesKept
  <2>5. tasksMdHead.boxes \subseteq landed => BoxesLanded'
    BY <2>1, <2>3 DEF BoxesLanded
  <2> QED
    BY <2>1, <2>4, <2>5 DEF Boxes
<1>6. CASE UNCHANGED vars
  BY <1>6 DEF vars, md, Boxes, BoxesKept, BoxesLanded, Committed, Rewrites
<1> QED
  BY <1>1, <1>2, <1>3, <1>4, <1>5, <1>6 DEF Next

\* BoxIsTruthful: commitTask's flip, commit and rollback leave the box as the task
\* has ended, whatever the LLM commits in between and however often the hooks refuse.
THEOREM BoxesAreTruthful == Spec => []BoxIsTruthful
<1>1. Init => Boxes
  <2> SUFFICES ASSUME Init PROVE Boxes
    OBVIOUS
  <2>1. \A t \in Tasks : task[t].pc = "waiting"
    BY FreshIs DEF Init
  <2>2. tasksMdHead.boxes \subseteq landed /\ run.state = "off"
    BY DEF Init, NoText
  <2> QED
    BY <2>1, <2>2 DEF Boxes, BoxesKept, Committed
<1>2. TypeOK /\ Control /\ Boxes => BoxIsTruthful
  <2> SUFFICES ASSUME TypeOK, Control, Boxes, NEW t \in Tasks, ~run.parallel
               PROVE  /\ task[t].pc = "ok" /\ task[t].reason # "llm-self-committed" => t \in tasksMdHead.boxes
                      /\ task[t].pc = "failed" /\ task[t].reason = "hook-ralph-failed" /\ run.clean
                             => t \notin tasksMd.boxes \/ t \in landed
    BY DEF BoxIsTruthful
  <2>1. task[t].pc = "ok" /\ task[t].reason # "llm-self-committed" => t \in tasksMdHead.boxes
    BY DEF Boxes, BoxesKept, Committed
  <2>2. ASSUME task[t].pc = "failed", task[t].reason = "hook-ralph-failed", run.clean
        PROVE  t \notin tasksMd.boxes \/ t \in landed
    <3>1. t \in run.pending /\ run.state # "off"
      BY <2>2 DEF Control, Active
    <3> QED
      BY <2>2, <3>1 DEF Boxes, BoxesLanded
  <2> QED
    BY <2>1, <2>2
<1> QED
  BY <1>1, <1>2, BoxesKeptByAll, FeatureRunTypesHold, ControlHolds, PTL DEF Spec

-----------------------------------------------------------------------------
(* longestCommonDir: a directory above every file it is given.             *)

\* The directories above a path.
Dirs(p) == {SubSeq(p, 1, n) : n \in 0..Len(p) - 1}
Common(P) == {d \in UNION {Dirs(p) : p \in P} : \A p \in P : d \in Dirs(p)}

LEMMA DirsAre ==
    ASSUME NEW S, NEW p \in Seq(S), NEW d \in Dirs(p)
    PROVE  /\ d \in Seq(S) /\ Len(d) < Len(p)
           /\ \A k \in 1..Len(d) : d[k] = p[k]
<1> PICK n \in 0..Len(p) - 1 : d = SubSeq(p, 1, n)
  BY DEF Dirs
<1> QED
  OBVIOUS

LEMMA LongestExists ==
    ASSUME NEW S, NEW P \in SUBSET (Seq(S) \ {<<>>}), P # {}
    PROVE  LongestCommonDir(P) \in Common(P)
<1> PICK p \in P : TRUE
  OBVIOUS
<1>1. \A q \in P : <<>> \in Dirs(q)
  <2> SUFFICES ASSUME NEW q \in P PROVE <<>> \in Dirs(q)
    OBVIOUS
  <2>1. Len(q) >= 1 /\ q \in Seq(S)
    OBVIOUS
  <2>2. 0 \in 0..Len(q) - 1 /\ SubSeq(q, 1, 0) = <<>>
    BY <2>1
  <2> QED
    BY <2>2 DEF Dirs
<1>2. <<>> \in Common(P)
  BY <1>1 DEF Common
<1>3. \A d \in Common(P) : d \in Dirs(p)
  BY DEF Common
<1>4. p \in Seq(S)
  OBVIOUS
<1>5. \A d \in Common(P) : Len(d) \in Nat /\ Len(d) < Len(p) /\ Len(p) - Len(d) \in Nat
  <2> SUFFICES ASSUME NEW d \in Common(P) PROVE Len(d) \in Nat /\ Len(d) < Len(p) /\ Len(p) - Len(d) \in Nat
    OBVIOUS
  <2>1. d \in Seq(S) /\ Len(d) < Len(p)
    BY <1>3, <1>4, DirsAre
  <2> QED
    BY <1>4, <2>1
<1> DEFINE R == {Len(p) - Len(d) : d \in Common(P)}
           Less == OpToRel(<, Nat)
<1>6. PICK m \in R : \A k \in R : <<k, m>> \notin Less
  <2>1. R \subseteq Nat /\ R # {}
    BY <1>2, <1>5
  <2>2. IsWellFoundedOn(Less, Nat)
    BY NatLessThanWellFounded
  <2> HIDE DEF R, Less
  <2> QED
    BY <2>1, <2>2, WFMin
<1>7. PICK l \in Common(P) : m = Len(p) - Len(l)
  OBVIOUS
<1>8. ASSUME NEW e \in Common(P) PROVE Len(e) <= Len(l)
  <2>1. Len(p) - Len(e) \in R
    OBVIOUS
  <2>2. ~(Len(p) - Len(e) < Len(p) - Len(l))
    BY <1>5, <1>6, <1>7, <2>1 DEF OpToRel
  <2> QED
    BY <1>4, <1>5, <2>2
<1>9. \E d \in Common(P) : \A e \in Common(P) : Len(e) <= Len(d)
  BY <1>8
<1>10. LongestCommonDir(P) = CHOOSE d \in Common(P) : \A e \in Common(P) : Len(e) <= Len(d)
  BY DEF LongestCommonDir, Common, Dirs
<1> QED
  BY <1>9, <1>10

\* A file under the common directory of others, if that is three deep, shares with each
\* of them the first three names.
LEMMA UnderCommon ==
    ASSUME NEW S, NEW P \in SUBSET (Seq(S) \ {<<>>}), NEW h \in P, NEW f \in Seq(S) \ {<<>>},
           Len(LongestCommonDir(P)) >= 3, IsUnderAny(f, {LongestCommonDir(P)})
    PROVE  f[1] = h[1] /\ f[2] = h[2] /\ f[3] = h[3]
<1> DEFINE l == LongestCommonDir(P)
<1>1. l \in Dirs(h)
  BY LongestExists DEF Common
<1>2. Len(l) <= Len(f) /\ SubSeq(f, 1, Len(l)) = SubSeq(l, 1, Len(l))
  BY DEF IsUnderAny, IsPrefix
<1>3. Len(l) >= 3
  OBVIOUS
<1> HIDE DEF l
<1>4. l \in Seq(S) /\ \A k \in 1..Len(l) : l[k] = h[k]
  BY <1>1, DirsAre
<1>5. \A k \in 1..Len(l) : SubSeq(f, 1, Len(l))[k] = f[k] /\ SubSeq(l, 1, Len(l))[k] = l[k]
  BY <1>2, <1>4
<1>6. 1 \in 1..Len(l) /\ 2 \in 1..Len(l) /\ 3 \in 1..Len(l)
  BY <1>3, <1>4
<1> QED
  BY <1>2, <1>4, <1>5, <1>6

-----------------------------------------------------------------------------
(* What is staged.                                                         *)

\* F is what the task may commit without a question.
Scoped(t, F) ==
    LET asked == F \ (FilesToStage(t) \cup Governance) IN
    /\ task[t].reason = "success" => asked = {}
    /\ task[t].reason = "gen-fenced" =>
         IF Kind[t] = "migration" THEN \A f \in asked : IsUnderAny(f, {MIGRATION_HARDCODED_PREFIX})
         ELSE IF GenDirs[t] # {} THEN \A f \in asked : IsUnderAny(f, GenDirs[t])
         ELSE \A f \in asked, h \in Written(t) : f[1] = h[1] /\ f[2] = h[2] /\ f[3] = h[3]
Silent(t) == task[t].reason \in {"success", "gen-fenced"}
Commits(t) == {f \in Files : changed[f] > task[t].headBefore}

\* What is staged is what the task may commit, and HEAD is where it was.
Staging(t) ==
    /\ task[t].pc = "waiting" => task[t].extraStage = {}
    /\ task[t].pc \in {"begun", "llm", "verify", "verifyRalph", "commit", "diff"} =>
         task[t].declared = FilesToStage(t) /\ task[t].extraStage = {}
    /\ task[t].pc = "orphanRalph" => ~Silent(t)
    /\ task[t].pc = "diff" \/ Rewrites(t) \/ task[t].pc \in {"orphanRalph", "read", "hookRalph"} =>
         head = task[t].headBefore
    /\ Silent(t) /\ (Rewrites(t) \/ task[t].pc \in {"read", "hookRalph", "rescan"}) =>
         staged \subseteq StageList(t) /\ Scoped(t, StageList(t) \cap Files)
    /\ Silent(t) /\ task[t].pc = "check" => Scoped(t, Commits(t))

\* The tree, whoever is at work.
Tree == staged \subseteq dirty /\ \A f \in Paths : changed[f] <= head
Stages == Tree /\ (~run.parallel => \A t \in Tasks : Staging(t))

LEMMA ScopedPart ==
    ASSUME NEW t, NEW F, NEW G, Scoped(t, F), G \subseteq F \cup Governance
    PROVE  Scoped(t, G)
  BY DEF Scoped

\* The scope depends on the reason only.
LEMMA ScopedKept ==
    ASSUME NEW t, NEW F, run' = run, task'[t].reason = task[t].reason, Scoped(t, F)
    PROVE  (FilesToStage(t) = FilesToStage(t)') /\ (\A G : G = F => Scoped(t, G)')
  BY DEF Scoped, FilesToStage

LEMMA TreeByStep ==
    ASSUME TypeOK, Tree, NEW t \in Tasks, Step(t)
    PROVE  Tree'
<1>1. CASE UNCHANGED repo
  BY <1>1 DEF repo, Tree
<1>2. CASE Wrote
  BY <1>2 DEF Wrote, Tree
<1>3. CASE WroteAndCommitted
  <2>1. head \in Nat /\ \A f \in Paths : changed[f] \in Nat
    BY DEF TypeOK
  <2> QED
    BY <1>3, <2>1 DEF WroteAndCommitted, Tree
<1>4. CASE Begin(t)
  BY <1>4, BeginIs DEF Tree
<1>5. CASE Invoke(t) \/ VerifyRound(t) \/ HookRound(t)
  BY <1>1, <1>2, <1>3, <1>5, InvokeIs, VerifyRoundIs, HookRoundIs
<1>6. CASE OrphanRound(t)
  BY <1>6, OrphanRoundIs DEF Restored, Tree
<1>7. CASE Add(t)
  <2>1. CASE Added(t)
    BY <2>1 DEF Added, Tree
  <2> QED
    BY <1>1, <1>7, <2>1, AddIs DEF Returned
<1>8. CASE Commit(t)
  <2>1. CASE Landed(t)
    <3>1. head \in Nat /\ \A f \in Paths : changed[f] \in Nat
      BY DEF TypeOK
    <3> QED
      BY <2>1, <3>1 DEF Landed, Tree
  <2> QED
    BY <1>1, <1>8, <2>1, CommitIs DEF Returned
<1>9. CASE Unstage(t)
  BY <1>9, UnstageIs DEF Tree
<1>10. CASE \/ ReadHead(t) \/ Verify(t) \/ CheckHead(t) \/ Classify(t) \/ Rescan(t) \/ ReadTasksMd(t)
            \/ Flip(t) \/ Restore(t) \/ CheckOrphans(t) \/ GitFails(t)
  BY <1>1, <1>10, ReadHeadIs, VerifyIs, CheckHeadIs, ClassifyIs, RescanIs, ReadTasksMdIs, FlipIs,
     RestoreIs, CheckOrphansIs, GitFailsIs
<1> QED
  BY <1>4, <1>5, <1>6, <1>7, <1>8, <1>9, <1>10 DEF Step

\* The names in a path.
Names == STRING \cup {"specs", "feature", "tasks.md"}

LEMMA ThreeNames ==
    ASSUME NEW S, NEW a \in S, NEW b \in S, NEW c \in S
    PROVE  <<a, b, c>> \in Seq(S) \ {<<>>}
  OBVIOUS

LEMMA MoreNames ==
    ASSUME NEW S, NEW T, S \subseteq T
    PROVE  Seq(S) \subseteq Seq(T)
  OBVIOUS

LEMMA PathsAreSequences == Paths \subseteq Seq(Names) \ {<<>>}
<1>1. STRING \subseteq Names /\ "specs" \in Names /\ "feature" \in Names /\ "tasks.md" \in Names
  BY DEF Names
<1>2. Seq(STRING) \subseteq Seq(Names)
  BY <1>1, MoreNames
<1>3. <<"specs", "feature", "tasks.md">> \in Seq(Names) \ {<<>>}
  BY <1>1, ThreeNames
<1> QED
  BY <1>2, <1>3, TaskAssumption DEF Paths, TasksMd

\* classifyDrift answers without a question only for files in the scope.
LEMMA SilenceIsScoped ==
    ASSUME TypeOK, Tree, NEW t \in Tasks, Classify(t), Staging(t), run' = run,
           Answered(t), task'[t].pc = "read"
    PROVE  /\ staged \subseteq StageList(t)'
           /\ \A G : G = (StageList(t) \cap Files)' => Scoped(t, G)'
<1> DEFINE P == Declares(t)
           O == Orphans(t)
<1>1. /\ task[t].declared = FilesToStage(t) /\ head = task[t].headBefore /\ task[t].pc = "diff"
  BY DEF Staging, Classify
<1>2. /\ IsSilent(t) /\ task'[t].declared = P /\ task'[t].extraStage = O
      /\ task'[t].reason = IF O = {} THEN "success" ELSE "gen-fenced"
  BY DEF Answered
<1>3. staged \subseteq Actual(t) /\ Actual(t) \subseteq Files
  <2>1. \A f \in Paths : ~(changed[f] > head)
    BY DEF Tree, TypeOK
  <2>2. DiffNameOnly(task[t].headBefore) = Modified
    BY <1>1, <2>1 DEF DiffNameOnly
  <2>3. staged \subseteq dirty /\ dirty \subseteq Files
    BY DEF Tree, TypeOK
  <2> QED
    BY <2>2, <2>3, PathsAre DEF Actual, Modified
<1>4. StageList(t)' = P \cup O /\ Actual(t) \subseteq P \cup O /\ O \subseteq Files /\ O \cap P = {}
  BY <1>2, <1>3 DEF StageList, Orphans
<1>5. FilesToStage(t)' = FilesToStage(t)
  BY DEF FilesToStage
<1>6. P \subseteq FilesToStage(t) \cup Governance /\ Written(t) \subseteq P
  BY <1>1 DEF Declares, FilesToStage
<1>7. ASSUME NEW f \in O, O # {}
      PROVE  IF Kind[t] = "migration" THEN IsUnderAny(f, {MIGRATION_HARDCODED_PREFIX})
             ELSE IF GenDirs[t] # {} THEN IsUnderAny(f, GenDirs[t])
             ELSE \A h \in Written(t) : f[1] = h[1] /\ f[2] = h[2] /\ f[3] = h[3]
  <2>1. IsUnderAny(f, ResolveGenScope(Kind[t], GenDirs[t], P))
    BY <1>2, <1>7 DEF IsSilent, Fenced
  <2>2. CASE Kind[t] = "migration"
    BY <2>1, <2>2 DEF ResolveGenScope
  <2>3. CASE Kind[t] # "migration" /\ GenDirs[t] # {}
    BY <2>1, <2>3 DEF ResolveGenScope, IsUnderAny
  <2>4. CASE Kind[t] # "migration" /\ GenDirs[t] = {}
    <3>1. Len(LongestCommonDir(P)) >= 3 /\ IsUnderAny(f, {LongestCommonDir(P)})
      BY <2>1, <2>4 DEF ResolveGenScope, IsUnderAny, MIN_AUTO_LCD_DEPTH
    <3>2. P \in SUBSET (Seq(Names) \ {<<>>})
      <4>1. P \subseteq Paths
        BY <1>1, <1>3, DeclaredIs, PathsAre DEF Declares
      <4> QED
        BY <4>1, PathsAreSequences
    <3>3. f \in Seq(Names) \ {<<>>}
      BY <1>4, <1>7, PathsAre, PathsAreSequences
    <3> HIDE DEF P
    <3> QED
      BY <1>6, <2>4, <3>1, <3>2, <3>3, UnderCommon
  <2> QED
    BY <2>2, <2>3, <2>4
<1>8. ASSUME NEW G, G = (StageList(t) \cap Files)' PROVE Scoped(t, G)'
  <2>1. G \ (FilesToStage(t) \cup Governance) \subseteq O
    BY <1>4, <1>6, <1>8
  <2> HIDE DEF O, P
  <2>2. task'[t].reason = "success" => O = {}
    BY <1>2
  <2>3. task'[t].reason = "gen-fenced" => O # {}
    BY <1>2
  <2> QED
    BY <1>5, <1>7, <2>1, <2>2, <2>3 DEF Scoped
<1> QED
  BY <1>3, <1>4, <1>8

\* A step that goes on with what is to be staged, and does not stage more.
LEMMA StagingGoesOn ==
    ASSUME TypeOK, NEW t \in Tasks, Staging(t), run' = run,
           Rewrites(t) \/ task[t].pc \in {"read", "hookRalph", "rescan"},
           Rewrites(t)' \/ task'[t].pc \in {"read", "hookRalph", "rescan"},
           task'[t].reason = task[t].reason, StageList(t)' = StageList(t),
           staged' \subseteq staged \cup StageList(t),
           task'[t].pc # "rescan" => head' = task'[t].headBefore
    PROVE  Staging(t)'
<1> DEFINE F == StageList(t) \cap Files
<1>1. task'[t].pc \notin {"waiting", "begun", "llm", "verify", "verifyRalph", "commit", "diff", "orphanRalph", "check"}
  BY DEF Rewrites
<1>2. Silent(t)' = Silent(t)
  BY DEF Silent
<1>3. Rewrites(t)' \/ task'[t].pc \in {"read", "hookRalph"} => head' = task'[t].headBefore
  BY DEF Rewrites
<1>4. ASSUME Silent(t)
      PROVE  staged' \subseteq StageList(t)' /\ Scoped(t, StageList(t) \cap Files)'
  <2>1. staged \subseteq StageList(t) /\ Scoped(t, F)
    BY <1>4 DEF Staging
  <2> HIDE DEF F
  <2>2. \A G : G = F => Scoped(t, G)'
    BY <2>1, ScopedKept
  <2>3. (StageList(t) \cap Files)' = F
    BY DEF F
  <2>4. Scoped(t, StageList(t) \cap Files)'
    BY <2>2, <2>3 DEF Scoped, FilesToStage
  <2> QED
    BY <2>1, <2>4
<1> QED
  BY <1>1, <1>2, <1>3, <1>4 DEF Staging

LEMMA StagingOfOthers ==
    ASSUME NEW u \in Tasks, Staging(u), ~Active(u), task'[u] = task[u], run' = run
    PROVE  Staging(u)'
  BY DEF Staging, Active, Rewrites

\* Until the drift is classified.
LEMMA StagingBefore ==
    ASSUME TypeOK, NEW t \in Tasks, Staging(t), Step(t), task[t].pc \in {"waiting", "begun", "llm", "verify",
           "verifyRalph", "commit"}
    PROVE  Staging(t)'
<1>1. run' = run /\ FilesToStage(t)' = FilesToStage(t)
  BY StepIs DEF FilesToStage
<1>2. task[t].extraStage = {} /\ (task[t].pc # "waiting" => task[t].declared = FilesToStage(t))
  BY DEF Staging
<1>3. ASSUME task'[t].pc = "failed" PROVE Staging(t)'
  BY <1>3 DEF Staging, Rewrites
<1>4. ASSUME task'[t].pc \in {"begun", "llm", "verify", "verifyRalph", "commit"},
             task'[t].declared = FilesToStage(t), task'[t].extraStage = {}
      PROVE  Staging(t)'
  BY <1>1, <1>4 DEF Staging, Rewrites
<1>5. CASE Begin(t)
  BY <1>2, <1>3, <1>4, <1>5, BeginIs DEF FailedFor
<1>6. CASE ReadHead(t)
  BY <1>2, <1>3, <1>4, <1>6, ReadHeadIs DEF ReadHead
<1>7. CASE Invoke(t)
  BY <1>2, <1>3, <1>4, <1>7, InvokeIs DEF FailedFor, Kept, Invoke
<1>8. CASE Verify(t)
  BY <1>2, <1>3, <1>4, <1>8, VerifyIs DEF FailedFor, Kept, Verify
<1>9. CASE VerifyRound(t)
  BY <1>2, <1>3, <1>4, <1>9, VerifyRoundIs DEF FailedFor, Kept, VerifyRound
<1>10. CASE CheckHead(t)
  <2>1. /\ UNCHANGED head /\ task'[t].declared = FilesToStage(t) /\ task'[t].extraStage = {}
        /\ task'[t].headBefore = task[t].headBefore
        /\ \/ task'[t].pc = "check" /\ task'[t].reason = "llm-self-committed"
           \/ task'[t].pc = "diff" /\ head = task[t].headBefore
    BY <1>2, <1>10, CheckHeadIs DEF CheckHead, Kept, repo
  <2> QED
    BY <1>1, <2>1 DEF Staging, Rewrites, Silent
<1>11. CASE GitFails(t)
  BY <1>3, <1>11, GitFailsIs DEF FailedFor
<1> QED
  BY <1>5, <1>6, <1>7, <1>8, <1>9, <1>10, <1>11 DEF Step, Classify, OrphanRound, Rescan, ReadTasksMd,
     Flip, Add, Commit, Unstage, Restore, HookRound, CheckOrphans

\* From there to the commit, and to the end of the task.
LEMMA StagingAfter ==
    ASSUME TypeOK, Tree, NEW t \in Tasks, Staging(t), Step(t), task[t].pc \notin {"waiting", "begun", "llm", "verify",
           "verifyRalph", "commit"}
    PROVE  Staging(t)'
<1>1. run' = run
  BY StepIs
<1>2. ASSUME task'[t].pc \in {"failed", "ok"} PROVE Staging(t)'
  BY <1>2 DEF Staging, Rewrites
<1>3. CASE Classify(t)
  <2>1. Answered(t) /\ UNCHANGED <<head, staged>>
    BY <1>3, ClassifyIs DEF repo
  <2>2. head = task[t].headBefore
    BY <1>3 DEF Staging, Classify
  <2>3. CASE task'[t].pc = "read"
    <3>1. staged' \subseteq StageList(t)' /\ \A G : G = (StageList(t) \cap Files)' => Scoped(t, G)'
      BY <1>1, <1>3, <2>1, <2>3, SilenceIsScoped
    <3>2. Scoped(t, StageList(t) \cap Files)'
      BY <3>1 DEF Scoped, FilesToStage
    <3> QED
      BY <2>1, <2>2, <2>3, <3>1, <3>2 DEF Staging, Rewrites, Answered
  <2>4. CASE task'[t].pc = "orphanRalph" /\ task'[t].reason = "none"
    BY <2>1, <2>2, <2>4 DEF Staging, Rewrites, Silent, Answered
  <2> QED
    BY <2>1, <2>3, <2>4 DEF Answered
<1>4. CASE OrphanRound(t)
  <2>1. task[t].pc = "orphanRalph" /\ ~Silent(t) /\ head = task[t].headBefore
    BY <1>4 DEF OrphanRound, Staging
  <2>2. UNCHANGED <<head>> /\ (task'[t].pc = "failed" \/ Resolves(t))
    BY <1>4, OrphanRoundIs DEF Restored, FailedFor
  <2>3. CASE Resolves(t)
    <3>1. /\ task'[t].pc \in {"orphanRalph", "read"} /\ ~Silent(t)'
          /\ task'[t].headBefore = task[t].headBefore
      BY <2>1, <2>3 DEF Resolves, Silent, Asked
    <3> QED
      BY <2>1, <2>2, <3>1 DEF Staging, Rewrites
  <2> QED
    BY <1>2, <2>2, <2>3
<1>5. CASE Rescan(t)
  <2>1. /\ UNCHANGED <<head, staged>> /\ task[t].pc = "rescan"
        /\ task'[t].headBefore = task[t].headBefore
        /\ \/ task'[t].pc = "check" /\ task'[t].reason = "llm-self-committed"
           \/ /\ task'[t].pc = "read" /\ task'[t].reason = task[t].reason /\ head = task[t].headBefore
              /\ \E G \in SUBSET Governance : StageList(t)' = StageList(t) \cup G
    BY <1>5, RescanIs DEF Rescan, StageList, repo
  <2>2. CASE task'[t].pc = "check" /\ task'[t].reason = "llm-self-committed"
    BY <2>2 DEF Staging, Rewrites, Silent
  <2>3. CASE /\ task'[t].pc = "read" /\ task'[t].reason = task[t].reason /\ head = task[t].headBefore
             /\ \E G \in SUBSET Governance : StageList(t)' = StageList(t) \cup G
    <3>1. PICK G \in SUBSET Governance : StageList(t)' = StageList(t) \cup G
      BY <2>3
    <3>2. ASSUME Silent(t)
          PROVE  staged' \subseteq StageList(t)' /\ Scoped(t, StageList(t) \cap Files)'
      <4>1. staged \subseteq StageList(t) /\ Scoped(t, StageList(t) \cap Files)
        BY <2>1, <3>2 DEF Staging
      <4> DEFINE F == (StageList(t) \cup G) \cap Files
      <4>2. Scoped(t, F)
        BY <4>1, ScopedPart
      <4>3. (StageList(t) \cap Files)' = F
        BY <3>1
      <4> HIDE DEF F
      <4>4. \A H : H = F => Scoped(t, H)'
        BY <1>1, <2>3, <4>2, ScopedKept
      <4>5. Scoped(t, StageList(t) \cap Files)'
        BY <4>3, <4>4 DEF Scoped, FilesToStage
      <4> QED
        BY <2>1, <3>1, <4>1, <4>5
    <3>3. Silent(t)' = Silent(t)
      BY <2>3 DEF Silent
    <3> QED
      BY <2>1, <2>3, <3>2, <3>3 DEF Staging, Rewrites
  <2> QED
    BY <2>1, <2>2, <2>3
<1>6. CASE ReadTasksMd(t)
  <2>1. /\ task[t].pc = "read" /\ head = task[t].headBefore /\ UNCHANGED <<head, staged>>
        /\ task'[t].pc = "flip" /\ task'[t].reason = task[t].reason /\ StageList(t)' = StageList(t)
        /\ task'[t].headBefore = task[t].headBefore
    BY <1>6, ReadTasksMdIs DEF ReadTasksMd, Staging, StageList, repo
  <2> QED
    BY <1>1, <2>1, StagingGoesOn DEF Rewrites
<1>7. CASE Flip(t)
  <2>1. /\ task[t].pc = "flip" /\ head = task[t].headBefore /\ UNCHANGED <<head, staged>>
        /\ task'[t].pc = "add" /\ task'[t].reason = task[t].reason /\ StageList(t)' = StageList(t)
        /\ task'[t].headBefore = task[t].headBefore
    BY <1>7, FlipIs DEF Flip, Staging, StageList, repo, Kept, Rewrites
  <2> QED
    BY <1>1, <2>1, StagingGoesOn DEF Rewrites
<1>8. CASE Add(t)
  <2>1. CASE Added(t)
    <3>1. /\ task[t].pc = "add" /\ head = task[t].headBefore /\ UNCHANGED head
          /\ staged' \subseteq staged \cup StageList(t)
          /\ task'[t].pc = "commitNow" /\ task'[t].reason = task[t].reason /\ StageList(t)' = StageList(t)
          /\ task'[t].headBefore = task[t].headBefore
      BY <1>8, <2>1 DEF Add, Added, Staging, StageList, Kept, Rewrites
    <3> QED
      BY <1>1, <3>1, StagingGoesOn DEF Rewrites
  <2> QED
    BY <1>2, <1>8, <2>1, AddIs DEF Returned, FailedFor
<1>9. CASE Commit(t)
  <2>1. /\ task[t].pc = "commitNow" /\ head = task[t].headBefore
        /\ Silent(t) => staged \subseteq StageList(t) /\ Scoped(t, StageList(t) \cap Files)
    BY <1>9 DEF Commit, Staging, Rewrites
  <2>2. CASE Landed(t)
    <3>1. /\ task'[t].pc = "check" /\ task'[t].reason = task[t].reason
          /\ task'[t].headBefore = head
      BY <2>1, <2>2 DEF Landed, Kept
    <3>2. Commits(t)' \subseteq staged
      <4> SUFFICES ASSUME NEW f \in Files, changed'[f] > head PROVE f \in staged
        BY <3>1 DEF Commits
      <4>1. f \in Paths /\ f # TasksMd /\ changed[f] <= head /\ changed[f] \in Nat /\ head \in Nat
        BY PathsAre DEF Tree, TypeOK
      <4>2. changed'[f] = IF f \in staged THEN head + 1 ELSE changed[f]
        BY <2>2, <4>1 DEF Landed
      <4> QED
        BY <4>1, <4>2
    <3>3. ASSUME Silent(t) PROVE Scoped(t, Commits(t))'
      <4> DEFINE F == Commits(t)'
      <4>1. F \subseteq StageList(t) \cap Files
        BY <2>1, <3>2, <3>3 DEF Commits
      <4> HIDE DEF F
      <4>2. Scoped(t, F)
        BY <2>1, <3>3, <4>1, ScopedPart
      <4>3. \A G : G = F => Scoped(t, G)'
        BY <1>1, <3>1, <4>2, ScopedKept
      <4> QED
        BY <4>3 DEF Scoped, FilesToStage, F
    <3>4. Silent(t)' = Silent(t)
      BY <3>1 DEF Silent
    <3> QED
      BY <3>1, <3>3, <3>4 DEF Staging, Rewrites
  <2>3. CASE Kept(t) /\ task'[t].pc = "unstage" /\ task'[t].reason = task[t].reason /\ UNCHANGED <<repo, md, landed>>
    <3>1. /\ head = task[t].headBefore /\ UNCHANGED <<head, staged>>
          /\ StageList(t)' = StageList(t) /\ task'[t].headBefore = task[t].headBefore
      BY <2>1, <2>3 DEF StageList, Kept, repo
    <3> QED
      BY <1>1, <2>1, <2>3, <3>1, StagingGoesOn DEF Rewrites
  <2> QED
    BY <1>2, <1>9, <2>2, <2>3, CommitIs DEF Returned, FailedFor
<1>10. CASE Unstage(t)
  <2>1. CASE Kept(t) /\ task'[t].pc = "restore" /\ task'[t].reason = task[t].reason
    <3>1. /\ task[t].pc = "unstage" /\ head = task[t].headBefore /\ UNCHANGED head /\ staged' \subseteq staged
          /\ StageList(t)' = StageList(t) /\ task'[t].headBefore = task[t].headBefore
      BY <1>10, <2>1, UnstageIs DEF StageList, Kept, Unstage, Staging, Rewrites
    <3> QED
      BY <1>1, <2>1, <3>1, StagingGoesOn DEF Rewrites
  <2> QED
    BY <1>2, <1>10, <2>1, UnstageIs DEF FailedFor
<1>11. CASE Restore(t)
  <2>1. /\ task[t].pc = "restore" /\ head = task[t].headBefore /\ UNCHANGED <<head, staged>>
        /\ task'[t].pc = "hookRalph" /\ task'[t].reason = task[t].reason /\ StageList(t)' = StageList(t)
        /\ task'[t].headBefore = task[t].headBefore
    BY <1>11, RestoreIs DEF Restore, Staging, StageList, repo, Kept, Rewrites
  <2> QED
    BY <1>1, <2>1, StagingGoesOn DEF Rewrites
<1>12. CASE HookRound(t)
  <2>1. CASE Kept(t) /\ task'[t].pc = "rescan" /\ task'[t].reason = task[t].reason
    <3>1. task[t].pc = "hookRalph" /\ staged' \subseteq staged /\ StageList(t)' = StageList(t)
      BY <1>12, <2>1, HookRoundIs DEF HookRound, StageList, Kept, repo, Wrote, WroteAndCommitted
    <3> QED
      BY <1>1, <2>1, <3>1, StagingGoesOn
  <2> QED
    BY <1>2, <1>12, <2>1, HookRoundIs DEF FailedFor
<1>13. CASE CheckOrphans(t)
  BY <1>2, <1>13, CheckOrphansIs DEF FailedFor
<1>14. CASE GitFails(t)
  BY <1>2, <1>14, GitFailsIs DEF FailedFor
<1> QED
  BY <1>3, <1>4, <1>5, <1>6, <1>7, <1>8, <1>9, <1>10, <1>11, <1>12, <1>13, <1>14 DEF Step, Begin, Turn,
     ReadHead, Invoke, Verify, VerifyRound, CheckHead

LEMMA StagesKept == TypeOK /\ Control /\ Stages /\ [Next]_vars => Stages'
<1> SUFFICES ASSUME TypeOK, Control, Stages, [Next]_vars PROVE Stages'
  OBVIOUS
<1>1. ASSUME NEW t \in Tasks, Step(t) PROVE Stages'
  <2>1. Tree' /\ run' = run
    BY <1>1, StepIs, TreeByStep DEF Stages
  <2>2. ASSUME ~run.parallel, NEW u \in Tasks PROVE Staging(u)'
    <3>1. CASE u = t
      BY <1>1, <2>2, <3>1, StagingBefore, StagingAfter DEF Stages
    <3>2. CASE u # t
      BY <1>1, <2>1, <2>2, <3>2, Alone, StagingOfOthers DEF Stages
    <3> QED
      BY <3>1, <3>2
  <2> QED
    BY <2>1, <2>2 DEF Stages
<1>2. CASE Start \/ Kill
  <2>1. UNCHANGED repo /\ \A t \in Tasks : task'[t] = Fresh
    BY <1>2, StartIs, KillIs
  <2>2. \A t \in Tasks : Staging(t)'
    BY <2>1, FreshIs DEF Staging, Rewrites
  <2>3. Tree'
    BY <2>1 DEF Tree, repo, Stages
  <2> QED
    BY <2>2, <2>3 DEF Stages
<1>3. CASE EndBatch
  <2>1. UNCHANGED <<repo, task>> /\ run'.parallel = run.parallel /\ run'.extra = run.extra
    BY <1>3, EndBatchIs
  <2>2. Tree' = Tree
    BY <2>1 DEF Tree, repo
  <2>3. \A t \in Tasks : Staging(t) => Staging(t)'
    BY <2>1 DEF Staging, Rewrites, Silent, StageList, Scoped, Commits, FilesToStage, repo
  <2> QED
    BY <2>1, <2>2, <2>3 DEF Stages
<1>4. CASE Discard
  <2>1. /\ UNCHANGED <<head, changed, run, task>> /\ dirty' = {} /\ staged' = {} /\ run.state # "running"
    BY <1>4, DiscardIs
  <2>2. \A t \in Tasks : ~Working(t)
    BY <2>1 DEF Control
  <2>3. \A t \in Tasks : Staging(t) => Staging(t)'
    BY <2>1, <2>2 DEF Staging, Rewrites, Working
  <2> QED
    BY <2>1, <2>3 DEF Stages, Tree
<1>5. CASE UNCHANGED vars
  <2>1. UNCHANGED <<head, changed, staged, dirty, run, task>>
    BY <1>5 DEF vars, repo
  <2>2. \A t \in Tasks : Staging(t) => Staging(t)'
    BY <2>1 DEF Staging, Rewrites, Silent, StageList, Scoped, Commits, FilesToStage
  <2> QED
    BY <2>1, <2>2 DEF Stages, Tree
<1> QED
  BY <1>1, <1>2, <1>3, <1>4, <1>5 DEF Next

\* NothingSlipsIn: what classifyDrift lets pass without a question is in the scope of
\* the task, and neither the hook rounds nor the LLM get anything else into its commit.
THEOREM NothingEverSlipsIn == Spec => []NothingSlipsIn
<1>1. Init => Stages
  <2> SUFFICES ASSUME Init PROVE Stages
    OBVIOUS
  <2>1. \A t \in Tasks : task[t] = Fresh
    BY DEF Init
  <2>2. \A t \in Tasks : Staging(t)
    BY <2>1, FreshIs DEF Staging, Rewrites
  <2>3. Tree
    BY DEF Init, Tree
  <2> QED
    BY <2>2, <2>3 DEF Stages
<1>2. Stages => NothingSlipsIn
  <2> SUFFICES ASSUME Stages, NEW t \in Tasks, ~run.parallel, task[t].pc = "check", Silent(t)
               PROVE  Scoped(t, Commits(t))
    BY DEF NothingSlipsIn, Scoped, Commits, Silent
  <2> QED
    BY DEF Stages, Staging
<1> QED
  BY <1>1, <1>2, StagesKept, FeatureRunTypesHold, ControlHolds, PTL DEF Spec
=============================================================================
