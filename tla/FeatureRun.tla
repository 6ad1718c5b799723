----------------------------- MODULE FeatureRun -----------------------------
(***************************************************************************)
(* The feature orchestrator: runFeature takes the pending tasks of a       *)
(* feature through file operations, the LLM, the verify command and one    *)
(* commit each, on one working tree, one index and one tasks.md.           *)
(*                                                                         *)
(* A task is a sequence of awaits (pc); with --parallel the tasks of a     *)
(* batch interleave at them.  The LLM and the hooks are the environment:   *)
(* they edit what they like and may commit by themselves.  A file, named   *)
(* by its path, is in the working tree (present), in the index or HEAD     *)
(* (tracked), different from HEAD (dirty), and staged or not.              *)
(***************************************************************************)
EXTENDS Integers, Sequences, FiniteSets, DriftClassifier, TasksAnalyzer

CONSTANTS Tasks, Files,
          Listing, Deps, \* the tasks in the order of tasks.md; Deps[t]: what t waits for
          Op,          \* Op[t][f]: what task-meta declares, "none" if nothing
          ParallelTasks, \* the tasks with task-meta parallel
          Kind, GenDirs, \* Kind[t], GenDirs[t]: its kind and gen_dirs
          Untracked,   \* the files that are not in the repository at first
          Bound        \* Bound[n][parallel]: the rounds of the three ralph loops in run n (verify,
                       \* hook, orphan), and a bound on the undeclared files a call writes (stray)

ASSUME TaskAssumption ==
    /\ Listing \in Seq(Tasks) /\ \A t \in Tasks : \E i \in DOMAIN Listing : Listing[i] = t
    /\ Deps \in [Tasks -> SUBSET Tasks] /\ ~HasCycle(Listing, Deps)
    /\ Op \in [Tasks -> [Files -> {"none", "create", "modify", "delete"}]]
    /\ DOMAIN Kind = Tasks /\ DOMAIN GenDirs = Tasks
    /\ ParallelTasks \subseteq Tasks
    /\ Untracked \subseteq Files
    /\ Files \subseteq Seq(STRING) \ {<<>>}
\* topoSort returns batches of tasks.
ASSUME ScheduleAssumption == TopoSort(Listing, Deps) \in Seq(Seq(Tasks))
ASSUME BoundAssumption ==
    /\ Len(Bound) \in Nat
    /\ \A n \in 1..Len(Bound) : /\ DOMAIN Bound[n] \subseteq BOOLEAN
                                /\ \A p \in DOMAIN Bound[n] :
                                     Bound[n][p] \in [verify : Nat, hook : Nat, orphan : Nat, stray : Nat]
ASSUME TasksMdAssumption == <<"specs", "feature", "tasks.md">> \notin Files

VARIABLES head,     \* the number of commits
          changed,  \* changed[f]: the last commit that contains f
          present, tracked, dirty, staged,
          stale,    \* staged files that were written again since
          tasksMd, tasksMdHead, tasksMdIndex, \* tasks.md: on disk, in HEAD, in the index
          run,      \* state of the program
          task,     \* task[t]: control state and local variables of runTask
          landed    \* the tasks with a commit that flips them (history)

repo == <<head, changed, present, tracked, dirty, staged, stale>>
md == <<tasksMd, tasksMdHead, tasksMdIndex>>
vars == <<repo, md, run, task, landed>>

TasksMd == <<"specs", "feature", "tasks.md">>
Paths == Files \cup {TasksMd}
Governance == {f \in Files : IsGovernanceFile(f)}
\* What matters of its text: the boxes that are ticked, the files expand has added.
Text == [boxes : SUBSET Tasks, extra : [Tasks -> SUBSET Paths]]

PC == {"waiting", "begun", "llm", "verify", "verifyRalph", "commit", "diff", "orphanRalph",
       "rescan", "read", "flip", "add", "commitNow", "unstage", "restore", "hookRalph", "check",
       "ok", "failed"}
Reasons == {"none", "success", "gen-fenced", "orphan-resolved-expand", "orphan-resolved-revert",
            "orphan-drift-warned", "orphan-stuck", "llm-self-committed", "verify-ralph-failed",
            "hook-ralph-failed", "orphan-after-commit", "llm-error", "fs-ops-error"}
Task == [pc : PC, pass : 0..1, round : Nat, headBefore : Nat,
         wrote : SUBSET Files, declared : SUBSET Paths, orphans : SUBSET Paths, expanded : SUBSET Paths,
         extraStage : SUBSET Paths, original : Text, hook : BOOLEAN,
         reason : Reasons]

NoText == [boxes |-> {}, extra |-> [t \in Tasks |-> {}]]
Unstaged == [boxes |-> {}, extra |-> <<>>]  \* no tasks.md in the index, and no text

Fresh == [pc |-> "waiting", pass |-> 0, round |-> 0, headBefore |-> 0, wrote |-> {},
          declared |-> {}, orphans |-> {}, expanded |-> {}, extraStage |-> {}, original |-> NoText, hook |-> FALSE,
          reason |-> "none"]

TypeOK == /\ head \in Nat /\ changed \in [Paths -> Nat]
          /\ present \subseteq Files /\ tracked \subseteq Files /\ dirty \subseteq Files
          /\ staged \subseteq Files /\ stale \subseteq staged
          /\ tasksMd \in Text /\ tasksMdHead \in Text /\ tasksMdIndex \in Text \cup {Unstaged}
          /\ run \in [state : {"off", "running", "done", "halted"}, parallel : BOOLEAN,
                      batch : Nat, pending : SUBSET Tasks, count : Nat, clean : BOOLEAN,
                      extra : [Tasks -> SUBSET Paths]]
          /\ task \in [Tasks -> Task]
          /\ landed \subseteq Tasks

Init == /\ head = 0 /\ changed = [f \in Paths |-> 0]
        /\ present = Files \ Untracked /\ tracked = Files \ Untracked
        /\ dirty = {} /\ staged = {} /\ stale = {}
        /\ tasksMd = NoText /\ tasksMdHead = NoText /\ tasksMdIndex = Unstaged
        /\ run = [state |-> "off", parallel |-> FALSE, batch |-> 0, pending |-> {}, count |-> 0,
                  clean |-> TRUE, extra |-> NoText.extra]
        /\ task = [t \in Tasks |-> Fresh]
        /\ landed = {}

-----------------------------------------------------------------------------
(* Git.                                                                    *)

Modified == dirty \cup (IF tasksMd # tasksMdHead THEN {TasksMd} ELSE {})

\* The paths in the index: those of HEAD, and what is added or removed since.
Index == (tracked \ (staged \ present)) \cup (staged \cap present)

\* git diff --name-only <sha>, and the untracked files.
DiffNameOnly(from) == Modified \cup {f \in Paths : changed[f] > from}

\* git status --porcelain
StatusClean == Modified = {} /\ staged = {} /\ tasksMdIndex = Unstaged

\* The index becomes a commit, whatever has put a file in it.
CommitIndex(s, stl, text) ==
    /\ head' = head + 1
    /\ changed' = [f \in Paths |->
                     IF f \in s \/ (f = TasksMd /\ text # Unstaged) THEN head + 1 ELSE changed[f]]
    /\ dirty' = dirty \ (s \ stl)
    /\ tracked' = (tracked \ s) \cup (s \cap present)
    /\ staged' = {} /\ stale' = {}
    /\ tasksMdHead' = IF text = Unstaged THEN tasksMdHead ELSE text
    /\ tasksMdIndex' = Unstaged
    /\ landed' = IF text = Unstaged THEN landed ELSE landed \cup text.boxes

-----------------------------------------------------------------------------
(* A task.                                                                 *)

Limit == Bound[run.count][run.parallel]
Goto(t, pc) == task' = [task EXCEPT ![t].pc = pc]
Schedule == TopoSort(Listing, Deps)
\* The local variables of runTask are gone with it.
End(t, ok, reason) ==
    task' = [task EXCEPT ![t] = [Fresh EXCEPT !.pc = IF ok THEN "ok" ELSE "failed",
                                              !.reason = reason]]
Fail(t, reason) == End(t, FALSE, reason)
\* An exception: runTask reports it as an LLM error.
Throw(t) == Fail(t, "llm-error")

Written(t) == {f \in Files : Op[t][f] \in {"create", "modify"}}
Deleted(t) == {f \in Files : Op[t][f] = "delete"}

\* filesToStage: a deleted path is not staged by name, and so not declared.  What
\* an earlier run has expanded is declared as to be modified, as the run has read it.
FilesToStage(t) == Written(t) \cup run.extra[t]

\* The parallel tasks of a batch start together, the others after them in turn.
Before(t, u) == \E b \in DOMAIN Schedule : \E i, j \in DOMAIN Schedule[b] :
                   i < j /\ Schedule[b][i] = t /\ Schedule[b][j] = u
InBatch(t) == run.batch \in DOMAIN Schedule /\ t \in {Schedule[run.batch][i] : i \in DOMAIN Schedule[run.batch]}
Turn(t) == /\ run.state = "running" /\ t \in run.pending /\ InBatch(t)
           /\ task[t].pc = "waiting"
           /\ \/ run.parallel /\ t \in ParallelTasks
              \/ \A u \in run.pending : Before(u, t) \/ (run.parallel /\ InBatch(u) /\ u \in ParallelTasks)
                                        => task[u].pc = "ok"

\* planFileOps and applyFileOpPlan; a file that is to be modified must exist, or the
\* operations listed before it are all that is done.
Begin(t) ==
    LET modified == {f \in FilesToStage(t) \cap Files : Op[t][f] # "create"} IN
    /\ Turn(t)
    /\ \/ /\ modified \subseteq present
          /\ present' = (present \cup Written(t)) \ Deleted(t)
          /\ dirty' = dirty \cup (Written(t) \ present) \cup (Deleted(t) \cap present)
          /\ task' = [task EXCEPT ![t].pc = "begun", ![t].declared = FilesToStage(t)]
          /\ UNCHANGED <<head, changed, tracked, staged, stale>>
       \/ /\ ~ modified \subseteq present
          /\ \E C \in SUBSET Written(t), D \in SUBSET Deleted(t) :
               /\ present' = (present \cup (C \ modified)) \ D
               /\ dirty' = dirty \cup (C \ (modified \cup present)) \cup (D \cap present)
          /\ Fail(t, "fs-ops-error")
          /\ UNCHANGED <<head, changed, tracked, staged, stale>>
    /\ UNCHANGED <<md, run, landed>>

ReadHead(t) ==
    /\ task[t].pc = "begun"
    /\ task' = [task EXCEPT ![t].pc = "llm", ![t].headBefore = head]
    /\ UNCHANGED <<repo, md, run, landed>>

\* A call of the LLM writes files E, and may commit all that is modified then,
\* with or without the box of its task.
Edit(E) == /\ present' = present \cup E
           /\ dirty' = dirty \cup E
           /\ stale' = stale \cup (E \cap staged)
           /\ UNCHANGED <<head, changed, tracked, staged, md, landed>>
EditAndCommit(t, E, ticks) ==
    LET text == [tasksMd EXCEPT !.boxes = IF ticks THEN @ \cup {t} ELSE @]
        all == dirty \cup E IN
    /\ all # {} \/ text # tasksMdHead
    /\ present' = present \cup E
    /\ tasksMd' = text
    /\ head' = head + 1
    /\ changed' = [f \in Paths |-> IF f \in all \/ (f = TasksMd /\ text # tasksMdHead)
                                   THEN head + 1 ELSE changed[f]]
    /\ tracked' = (tracked \ all) \cup (all \cap present')
    /\ dirty' = {} /\ staged' = {} /\ stale' = {}
    /\ tasksMdHead' = text /\ tasksMdIndex' = Unstaged
    /\ landed' = landed \cup text.boxes
Edits(t) == {W \cup S : W \in {{}, Written(t)},
                        S \in {X \in SUBSET (Files \ Deleted(t)) : Cardinality(X) <= Limit.stray}}

LlmWrites(t, E) == Edit(E) \/ \E ticks \in BOOLEAN : EditAndCommit(t, E, ticks)

\* detectLlmNoOp: of the files the task declares the two passes have not written all.
LlmNoOp(t, E) == ~ task[t].declared \cap Files \subseteq E \cup task[t].wrote

\* The first call, by Sonnet, and one more by Opus if it runs out of turns.
Invoke(t) ==
    /\ task[t].pc = "llm"
    /\ \E E \in Edits(t) :
         /\ LlmWrites(t, E)
         /\ \/ IF LlmNoOp(t, E) THEN Fail(t, "llm-error") ELSE Goto(t, "verify")
            \/ /\ task[t].pass = 0  \* max_turns
               /\ task' = [task EXCEPT ![t].pass = 1, ![t].wrote = E]
            \/ Fail(t, "llm-error")
    /\ UNCHANGED run

\* Without a command for the task's verify_kind it fails; a command that times
\* out is an exception.
Verify(t) ==
    /\ task[t].pc = "verify"
    /\ \/ Goto(t, "commit")
       \/ task' = [task EXCEPT ![t].pc = "verifyRalph", ![t].round = 0]
       \/ Fail(t, "verify-ralph-failed")
       \/ Throw(t)
    /\ UNCHANGED <<repo, md, run, landed>>

VerifyRound(t) ==
    /\ task[t].pc = "verifyRalph"
    /\ IF task[t].round = Limit.verify
       THEN Fail(t, "verify-ralph-failed") /\ UNCHANGED <<repo, md, landed>>
       ELSE \E E \in Edits(t) :
              /\ LlmWrites(t, E)
              /\ \/ Goto(t, "commit")
                 \/ task' = [task EXCEPT ![t].round = @ + 1]
                 \/ Fail(t, "verify-ralph-failed")
                 \/ Throw(t)
    /\ UNCHANGED run

-----------------------------------------------------------------------------
(* The commit.                                                             *)

\* A HEAD that has moved is taken for a commit of the LLM.
CheckHead(t) ==
    /\ task[t].pc = "commit"
    /\ IF head # task[t].headBefore
       THEN task' = [task EXCEPT ![t].pc = "check", ![t].reason = "llm-self-committed"]
       ELSE task' = [task EXCEPT ![t].pc = "diff", ![t].wrote = {}]
    /\ UNCHANGED <<repo, md, run, landed>>

\* classifyDrift, on what is declared with the governance files that were touched.
Classify(t) ==
    LET actual == DiffNameOnly(task[t].headBefore) \ {TasksMd}
        declared == task[t].declared \cup (actual \cap Governance)
        orphans == actual \ declared
        silent == orphans = {} \/ Fenced(Kind[t], GenDirs[t], declared, orphans) IN
    /\ task[t].pc = "diff"
    /\ task' = [task EXCEPT ![t].declared = declared, ![t].orphans = orphans, ![t].round = 0,
         ![t].expanded = IF silent THEN {} ELSE declared,
         ![t].pc = IF silent THEN "read" ELSE "orphanRalph",
         ![t].extraStage = IF silent THEN orphans ELSE {},
         ![t].reason = IF orphans = {} THEN "success"
                       ELSE IF silent THEN "gen-fenced" ELSE "none"]
    /\ UNCHANGED <<repo, md, run, landed>>

\* An intent of the LLM: orphans to expand the task by, or to revert.
Intent(t) == [action : {"expand", "revert"}, files : SUBSET task[t].orphans \ {{}}]

\* A round has changed the tree or the declaration: what is an orphan now?  tasks.md
\* counts.  Only when nothing is left commitTask takes the new declaration.
Recompute(t, declared, orphans, reason) ==
    IF orphans = {}
    THEN task' = [task EXCEPT ![t].declared = declared, ![t].expanded = {}, ![t].orphans = {},
                              ![t].reason = reason, ![t].pc = "read"]
    ELSE task' = [task EXCEPT ![t].expanded = declared, ![t].orphans = orphans,
                              ![t].round = @ + 1]

\* git restore: the files come back from the index.  One that is in no index
\* makes it fail as a whole, and the round is lost.
Revert(t, F) ==
    /\ F \subseteq Index \cup {TasksMd}
    /\ present' = present \cup (F \cap Files)
    /\ dirty' = dirty \ (F \ staged)
    /\ stale' = stale \ F
    /\ tasksMd' = IF TasksMd \notin F THEN tasksMd
                  ELSE IF tasksMdIndex = Unstaged THEN tasksMdHead ELSE tasksMdIndex
    /\ UNCHANGED <<head, changed, tracked, staged, tasksMdHead, tasksMdIndex>>
    /\ LET diff == dirty' \cup {f \in Paths : changed[f] > task[t].headBefore}
                          \cup (IF tasksMd' # tasksMdHead THEN {TasksMd} ELSE {})
       IN Recompute(t, task[t].expanded, diff \ task[t].expanded, "orphan-resolved-revert")

\* applyExpand adds the files to the task-meta in tasks.md, except those it names.
\* What is declared is read from it again: governance files are not.
Expand(t, F) ==
    LET added == F \ {f \in Files : Op[t][f] # "none"}
        text == [tasksMd EXCEPT !.extra[t] = @ \cup added]
        declared == Written(t) \cup text.extra[t]
        diff == dirty \cup {f \in Paths : changed[f] > task[t].headBefore}
                      \cup (IF text # tasksMdHead THEN {TasksMd} ELSE {}) IN
    /\ tasksMd' = text
    /\ Recompute(t, declared, diff \ declared, "orphan-resolved-expand")
    /\ UNCHANGED <<repo, tasksMdHead, tasksMdIndex>>

\* runOrphanRalph.  An intent that cannot be read or applied costs its round.
\* Only "stuck" ends the task; otherwise the orphans that are left are staged with a
\* warning, and what has been expanded before is not.
OrphanRound(t) ==
    /\ task[t].pc = "orphanRalph"
    /\ \/ /\ task[t].round < Limit.orphan
          /\ \E i \in Intent(t) : IF i.action = "revert" THEN Revert(t, i.files) ELSE Expand(t, i.files)
       \/ /\ task[t].round < Limit.orphan
          /\ task' = [task EXCEPT ![t].round = @ + 1]
          /\ UNCHANGED <<repo, md>>
       \/ /\ task[t].round < Limit.orphan
          /\ Fail(t, "orphan-stuck")
          /\ UNCHANGED <<repo, md>>
       \/ /\ task' = [task EXCEPT ![t].declared = @ \cup task[t].orphans, ![t].expanded = {},
                                  ![t].pc = "read", ![t].reason = "orphan-drift-warned"]
          /\ UNCHANGED <<repo, md>>
    /\ UNCHANGED <<run, landed>>

StageList(t) == task[t].declared \cup task[t].extraStage

\* Mutant: whatever a hook round has written is staged.
RescanAll(t) ==
    /\ task[t].pc = "rescan"
    /\ IF head # task[t].headBefore
       THEN task' = [task EXCEPT ![t].pc = "check", ![t].reason = "llm-self-committed"]
       ELSE task' = [task EXCEPT ![t].pc = "read",
              ![t].extraStage = @ \cup DiffNameOnly(task[t].headBefore)]
    /\ UNCHANGED <<repo, md, run, landed>>

\* After a round of the hook loop, governance files it has touched are staged too.
Rescan(t) ==
    /\ task[t].pc = "rescan"
    /\ IF head # task[t].headBefore
       THEN task' = [task EXCEPT ![t].pc = "check", ![t].reason = "llm-self-committed"]
       ELSE task' = [task EXCEPT ![t].pc = "read",
              ![t].extraStage = @ \cup (DiffNameOnly(task[t].headBefore) \cap Governance)]
    /\ UNCHANGED <<repo, md, run, landed>>

\* flipCheckbox: tasks.md is read, and written in another step.
ReadTasksMd(t) ==
    /\ task[t].pc = "read"
    /\ task' = [task EXCEPT ![t].pc = "flip", ![t].original = tasksMd]
    /\ UNCHANGED <<repo, md, run, landed>>

Flip(t) ==
    /\ task[t].pc = "flip"
    /\ tasksMd' = [task[t].original EXCEPT !.boxes = @ \cup {t}]
    /\ Goto(t, "add")
    /\ UNCHANGED <<repo, tasksMdHead, tasksMdIndex, run, landed>>

\* An error other than a failed commit: the box is cleared and the task ends.
GitError(t) ==
    /\ tasksMd' = [task[t].original EXCEPT !.boxes = @ \ {t}]
    /\ Throw(t)
    /\ UNCHANGED <<repo, tasksMdHead, tasksMdIndex, landed>>

\* git add fails for a path that is neither in the tree nor tracked.
Add(t) ==
    LET S == StageList(t) \cap Files IN
    /\ task[t].pc = "add"
    /\ \/ /\ S \subseteq present \cup Index
          /\ staged' = staged \cup (S \cap dirty)
          /\ stale' = stale \ S
          /\ tasksMdIndex' = IF tasksMd = tasksMdHead THEN Unstaged ELSE tasksMd
          /\ Goto(t, "commitNow")
          /\ UNCHANGED <<head, changed, present, tracked, dirty, tasksMd, tasksMdHead, landed>>
       \/ GitError(t)
    /\ UNCHANGED run

\* git commit and its hooks; it also fails when there is nothing to commit.
Commit(t) ==
    /\ task[t].pc = "commitNow"
    /\ \/ /\ staged # {} \/ tasksMdIndex # Unstaged
          /\ CommitIndex(staged, stale, tasksMdIndex)
          /\ Goto(t, "check")
          /\ UNCHANGED <<present, tasksMd>>
       \/ Goto(t, "unstage") /\ UNCHANGED <<repo, md, landed>>
       \/ GitError(t)
    /\ UNCHANGED run

\* Mutant: files written since they were added stay marked.
UnstageKeepsStale(t) ==
    /\ task[t].pc = "unstage"
    /\ staged' = staged \ (StageList(t) \cap Files)
    /\ tasksMdIndex' = Unstaged
    /\ Goto(t, "restore")
    /\ UNCHANGED <<head, changed, present, tracked, dirty, stale, tasksMd, tasksMdHead, run, landed>>

\* The rollback after a rejected commit.  If git fails here the box stays ticked.
Unstage(t) ==
    LET S == StageList(t) \cap Files IN
    /\ task[t].pc = "unstage"
    /\ \/ /\ staged' = staged \ S /\ stale' = stale \ S
          /\ tasksMdIndex' = Unstaged
          /\ Goto(t, "restore")
          /\ UNCHANGED <<head, changed, present, tracked, dirty, tasksMd, tasksMdHead>>
       \/ Throw(t) /\ UNCHANGED <<repo, md>>
    /\ UNCHANGED <<run, landed>>

\* Mutant: the rollback leaves the box as the flip has written it.
RestoreNothing(t) ==
    /\ task[t].pc = "restore"
    /\ task' = [task EXCEPT ![t].pc = "hookRalph", ![t].hook = TRUE,
                            ![t].round = IF task[t].hook THEN @ + 1 ELSE 0]
    /\ UNCHANGED <<repo, md, run, landed>>

Restore(t) ==
    /\ task[t].pc = "restore"
    /\ tasksMd' = task[t].original
    /\ task' = [task EXCEPT ![t].pc = "hookRalph", ![t].hook = TRUE,
                            ![t].round = IF task[t].hook THEN @ + 1 ELSE 0]
    /\ UNCHANGED <<repo, tasksMdHead, tasksMdIndex, run, landed>>

HookRound(t) ==
    /\ task[t].pc = "hookRalph"
    /\ IF task[t].round = Limit.hook
       THEN Fail(t, "hook-ralph-failed") /\ UNCHANGED <<repo, md, landed>>
       ELSE /\ \E E \in Edits(t) : LlmWrites(t, E)
            /\ Goto(t, "rescan") \/ Fail(t, "hook-ralph-failed")
    /\ UNCHANGED run

\* Mutant: the commit of the LLM is trusted to have taken everything.
CheckOrphansOfOwn(t) ==
    /\ task[t].pc = "check"
    /\ IF task[t].reason = "llm-self-committed" \/ StatusClean
       THEN End(t, TRUE, task[t].reason) ELSE Fail(t, "orphan-after-commit")
    /\ UNCHANGED <<repo, md, run, landed>>

\* checkOrphans: what is left in the tree would be the next task's baseline.
CheckOrphans(t) ==
    /\ task[t].pc = "check"
    /\ IF StatusClean THEN End(t, TRUE, task[t].reason) ELSE Fail(t, "orphan-after-commit")
    /\ UNCHANGED <<repo, md, run, landed>>

\* A git command that only reads fails: runTask catches it.
GitFails(t) ==
    /\ task[t].pc \in {"begun", "commit", "diff", "orphanRalph", "rescan", "check"}
    /\ Throw(t)
    /\ UNCHANGED <<repo, md, run, landed>>

-----------------------------------------------------------------------------
(* The run.                                                                *)

\* extractTasks: a ticked box is a completed task.
Pending == Tasks \ tasksMd.boxes

Start ==
    /\ run.state # "running"
    /\ run.count < Len(Bound)  \* bound
    /\ \E p \in DOMAIN Bound[run.count + 1] :
         run' = [state |-> "running", parallel |-> p, batch |-> 1, pending |-> Pending,
                 count |-> run.count + 1, clean |-> tasksMdIndex = Unstaged, extra |-> tasksMd.extra]
    /\ task' = [t \in Tasks |-> Fresh]
    /\ UNCHANGED <<repo, md, landed>>

Ended(t) == t \notin run.pending \/ ~InBatch(t) \/ task[t].pc \in {"ok", "failed"}

\* Mutant: a failure is no reason to stop before every task of the batch has run.
EndBatchWaits ==
    /\ run.state = "running"
    /\ IF run.batch > Len(Schedule) THEN run' = [run EXCEPT !.state = "done"]
       ELSE /\ \A t \in Tasks : Ended(t)
            /\ run' = [run EXCEPT !.batch = @ + 1]
    /\ UNCHANGED <<repo, md, task, landed>>

\* A failure ends the run when the tasks that run beside it have ended.
EndBatch ==
    /\ run.state = "running"
    /\ IF run.batch > Len(Schedule) THEN run' = [run EXCEPT !.state = "done"]
       ELSE IF \E t \in Tasks : task[t].pc = "failed"
       THEN /\ \A t \in Tasks : task[t].pc \in {"waiting", "ok", "failed"} /\ ~Turn(t)
            /\ run' = [run EXCEPT !.state = "halted"]
       ELSE /\ \A t \in Tasks : Ended(t)
            /\ run' = [run EXCEPT !.batch = @ + 1]
    /\ UNCHANGED <<repo, md, task, landed>>

\* The program is killed between any two steps.
Kill ==
    /\ run.state = "running"
    /\ run' = [run EXCEPT !.state = "off"]
    /\ task' = [t \in Tasks |-> Fresh]
    /\ UNCHANGED <<repo, md, landed>>

\* Between two runs the operator may discard what is not committed.
Discard ==
    /\ run.state # "running" /\ ~StatusClean
    /\ present' = tracked /\ dirty' = {} /\ staged' = {} /\ stale' = {}
    /\ tasksMd' = tasksMdHead /\ tasksMdIndex' = Unstaged
    /\ UNCHANGED <<head, changed, tracked, tasksMdHead, run, task, landed>>

-----------------------------------------------------------------------------
Step(t) == \/ Begin(t) \/ ReadHead(t) \/ Invoke(t) \/ Verify(t) \/ VerifyRound(t)
           \/ CheckHead(t) \/ Classify(t) \/ OrphanRound(t) \/ Rescan(t) \/ ReadTasksMd(t)
           \/ Flip(t) \/ Add(t) \/ Commit(t) \/ Unstage(t) \/ Restore(t) \/ HookRound(t)
           \/ CheckOrphans(t) \/ GitFails(t)

Next == (\E t \in Tasks : Step(t)) \/ Start \/ EndBatch \/ Kill \/ Discard

Spec == Init /\ [][Next]_vars

\* Every call of the LLM, of the verify command and of git has a timeout: some task
\* always goes on.
FairSpec == Spec /\ WF_vars(EndBatch \/ \E t \in Tasks : Step(t))
-----------------------------------------------------------------------------
(* Properties.                                                             *)

\* checkOrphans: when no task is at work and one has succeeded, nothing is left in
\* the tree that the next one would take for its baseline.
HandoverIsClean ==
    /\ run.state = "running"
    /\ \A t \in Tasks : task[t].pc \in {"waiting", "ok"}
    /\ \E t \in Tasks : task[t].pc = "ok"
    => StatusClean

\* Without --parallel, a task that is reported as committed has its box ticked in
\* HEAD; only a commit of the LLM's own may have left it open.  A task whose commit
\* was rejected to the end leaves its box open, or a commit of the LLM has ticked it,
\* unless the run has found tasks.md staged by one before it: a revert brings that back.
BoxIsTruthful ==
    \A t \in Tasks : ~run.parallel =>
        /\ task[t].pc = "ok" /\ task[t].reason # "llm-self-committed" => t \in tasksMdHead.boxes
        /\ task[t].pc = "failed" /\ task[t].reason = "hook-ralph-failed" /\ run.clean
               => t \notin tasksMd.boxes \/ t \in landed

\* commitTask, drift-classifier.ts: without --parallel, what is committed without a
\* question is what the task writes, governance files, and for a gen or migration
\* task files in its scope, however many hook rounds it takes.  A scope nobody has
\* declared is a directory three deep around all the task writes.
NothingSlipsIn ==
    \A t \in Tasks : ~run.parallel /\ task[t].pc = "check" =>
        LET committed == {f \in Files : changed[f] > task[t].headBefore}
            asked == committed \ (FilesToStage(t) \cup Governance) IN
        /\ task[t].reason = "success" => asked = {}
        /\ task[t].reason = "gen-fenced" =>
             IF Kind[t] = "migration" THEN \A f \in asked : IsUnderAny(f, {MIGRATION_HARDCODED_PREFIX})
             ELSE IF GenDirs[t] # {} THEN \A f \in asked : IsUnderAny(f, GenDirs[t])
             ELSE \A f \in asked, g \in Written(t) : f[1] = g[1] /\ f[2] = g[2] /\ f[3] = g[3]

\* A run ends: the ralph loops are bounded and no task waits for one that failed.
EveryRunEnds == run.state = "running" ~> run.state # "running"
=============================================================================
