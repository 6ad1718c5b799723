------------------------------ MODULE LiveRun ------------------------------
(***************************************************************************)
(* The program `orchestrate --live`: its rows on the terminal, the claude  *)
(* subprocesses and their event streams, the archive of every attempt, the *)
(* exit code and the report at the end.                                    *)
(*                                                                         *)
(* What a task does to the repository is FeatureRun's subject; here the    *)
(* outcomes of file operations, verify commands and git are open.  The     *)
(* cost of a call is known when the result event of its stream arrives; it *)
(* is due until an attempt that carries its metrics is in the archive.     *)
(***************************************************************************)
EXTENDS Integers, Sequences, FiniteSets

CONSTANTS Tasks,
          Order,         \* the tasks of a batch, as tasks.md lists them
          ParallelTasks, \* those with task-meta parallel
          Rounds,        \* Rounds[parallel]: maxRetries of the three ralph loops
          MaxRuns        \* bound on the times the operator starts the program

ASSUME LiveAssumption ==
    /\ Order \in Seq(Tasks) /\ ParallelTasks \subseteq Tasks
    /\ \A t \in Tasks : \E i \in DOMAIN Order : Order[i] = t
    /\ \A i, j \in DOMAIN Order : Order[i] = Order[j] => i = j
    /\ Rounds \in [BOOLEAN -> [{"verify", "orphan", "hook"} -> Nat]]
    /\ MaxRuns \in Nat

VARIABLES cli,   \* the program
          row,   \* row[t]: the promise behind the listr row of t
          job,   \* job[t]: control state and local variables of runTask
          child, \* child[t]: the latest claude subprocess of t, and its promise
          older, \* <<t, w>>: a subprocess before the latest of t has not closed; w: it may write
          disk   \* disk[t]: what .spec-kit/runs keeps of t: the run of its summary.json, its
                 \* outcome, whether it counts every call, and the run of the first stream

vars == <<cli, row, job, child, older, disk>>

NoChild == [state |-> "none", result |-> "none", answer |-> "pending", writes |-> FALSE]
Idle == [pc |-> "waiting", phase |-> "initial", round |-> 0, escalated |-> FALSE,
         due |-> 0, outside |-> FALSE, ok |-> FALSE]
NoSummary == [run |-> 0, ok |-> FALSE, whole |-> FALSE, stream |-> 0]

TypeOK ==
    /\ cli \in [state : {"off", "running", "report", "exited"}, count : 0..MaxRuns,
                parallel : BOOLEAN, pending : SUBSET Tasks, code : 0..2,
                report : {"none", "printed", "failed"}]
    /\ row \in [Tasks -> {"none", "spinning", "done", "failed", "skipped"}]
    /\ job \in [Tasks -> [pc : {"waiting", "prepare", "call", "verify", "round", "gate", "commit",
                                "hook", "check", "close", "ended"},
                          phase : {"initial", "verify", "orphan", "hook"}, round : Nat,
                          escalated : BOOLEAN, due : Nat, outside : BOOLEAN, ok : BOOLEAN]]
    /\ child \in [Tasks -> [state : {"none", "running", "killed", "closed"},
                            result : {"none", "success", "error", "max_turns"},
                            answer : {"pending", "resolved", "error", "lost"}, writes : BOOLEAN]]
    /\ older \subseteq Tasks \X BOOLEAN
    /\ disk \in [Tasks -> [run : 0..MaxRuns, ok : BOOLEAN, whole : BOOLEAN, stream : 0..MaxRuns]]

Init == /\ cli = [state |-> "off", count |-> 0, parallel |-> FALSE, pending |-> {}, code |-> 0,
                  report |-> "none"]
        /\ row = [t \in Tasks |-> "none"]
        /\ job = [t \in Tasks |-> Idle]
        /\ child = [t \in Tasks |-> NoChild]
        /\ older = {}
        /\ disk = [t \in Tasks |-> NoSummary]

-----------------------------------------------------------------------------
(* The command line.                                                       *)

CanStart == cli.state \in {"off", "exited"} /\ cli.count < MaxRuns  \* bound

\* An exit before anything has run: 2 for wrong arguments, 1 when spec.md, plan.md
\* and tasks.md do not make a feature, 0 after --dry-run.
ExitsEarly(code) ==
    /\ cli' = [state |-> "exited", count |-> cli.count + 1, parallel |-> FALSE, pending |-> {},
               code |-> code, report |-> "none"]
    /\ row' = [t \in Tasks |-> "none"]
    /\ job' = [t \in Tasks |-> Idle] /\ child' = [t \in Tasks |-> NoChild] /\ older' = {}
    /\ UNCHANGED disk
ParseArgs == CanStart /\ ExitsEarly(2)
LoadFeature == CanStart /\ ExitsEarly(1)
DryRun == CanStart /\ ExitsEarly(0)

\* ListrProgressSink: one row for each pending task.
Rows(T) == [t \in Tasks |-> IF t \in T THEN "spinning" ELSE "none"]

\* --live, with --only or without: the rows, and runFeature beside them.
Start ==
    /\ CanStart
    /\ \E p \in BOOLEAN : \E T \in SUBSET Tasks :
         /\ cli' = [state |-> "running", count |-> cli.count + 1, parallel |-> p,
                    pending |-> T, code |-> 0, report |-> "none"]
         /\ row' = Rows(T)
    /\ job' = [t \in Tasks |-> Idle] /\ child' = [t \in Tasks |-> NoChild] /\ older' = {}
    /\ UNCHANGED disk

Running == cli.state = "running"

-----------------------------------------------------------------------------
(* The subprocess, and the promise of ClaudeCliClient.invoke.              *)

Alive == {t \in Tasks : child[t].state \in {"running", "killed"}}

\* Mutant: the stream aggregator is not made anew.
SpawnOnSameStream(t, writes) ==
    /\ child' = [child EXCEPT ![t].state = "running", ![t].answer = "pending", ![t].writes = writes]
    /\ older' = older \cup {<<t, child[t].writes>> : u \in {t} \cap Alive}

\* A new subprocess takes the place of the one before, which may not have closed.
Spawn(t, writes) ==
    /\ child' = [child EXCEPT ![t] = [NoChild EXCEPT !.state = "running", !.writes = writes]]
    /\ older' = older \cup {<<t, child[t].writes>> : u \in {t} \cap Alive}

\* The first answer settles the promise; a later one is lost.
Settle(t, answer, state) ==
    child' = [child EXCEPT ![t].state = state,
                           ![t].answer = IF @ = "pending" THEN answer ELSE @]

\* A result event on stdout: the aggregator keeps it, whoever is still waiting.
ResultEvent(t) ==
    /\ Running /\ t \in Alive /\ child[t].result = "none"
    /\ \E r \in {"success", "error", "max_turns"} : child' = [child EXCEPT ![t].result = r]
    /\ job' = [job EXCEPT ![t].due = @ + 1]
    /\ UNCHANGED <<cli, row, older, disk>>

\* 'close', when all who hold the pipes are gone.  The exit code plays no part,
\* and without a result event the call is taken for a success.
Close(t) ==
    /\ Running /\ t \in Alive
    /\ Settle(t, IF child[t].result \in {"error", "max_turns"} THEN "error" ELSE "resolved", "closed")
    /\ UNCHANGED <<cli, row, job, older, disk>>

\* The timer: SIGKILL, and the promise is rejected without waiting for 'close'.
Timeout(t) ==
    /\ Running /\ child[t].state = "running"
    /\ Settle(t, "lost", "killed")
    /\ UNCHANGED <<cli, row, job, older, disk>>

\* 'error': the program cannot be started.
SpawnError(t) ==
    /\ Running /\ child[t].state = "running" /\ child[t].result = "none"
    /\ Settle(t, "lost", "closed")
    /\ UNCHANGED <<cli, row, job, older, disk>>

\* A subprocess that was left behind is gone.
OlderCloses ==
    /\ Running
    /\ \E o \in older : older' = older \ {o}
    /\ UNCHANGED <<cli, row, job, child, disk>>

-----------------------------------------------------------------------------
(* A task.                                                                 *)

Goto(t, pc) == job' = [job EXCEPT ![t].pc = pc]
\* What runTaskInner throws is caught by runTask; an attempt that is open stays so.
Fail(t) == job' = [job EXCEPT ![t].pc = "close", ![t].ok = FALSE]
Succeed(t) == job' = [job EXCEPT ![t].pc = "close", ![t].ok = TRUE]

\* The metrics of a call: of its result, or of the error that carries one.
Metrics(t) == IF child[t].result # "none" /\ child[t].answer \in {"resolved", "error"} THEN 1 ELSE 0

\* Mutant: the metrics of a call that ran out of turns are not passed on.
RecordResolved(t, pc) ==
    job' = [job EXCEPT ![t].due = @ - IF child[t].answer = "resolved" THEN Metrics(t) ELSE 0,
                       ![t].pc = pc, ![t].escalated = @ \/ pc = "prepare"]

\* AttemptHandle.finish, and what comes next.
Record(t, pc) == job' = [job EXCEPT ![t].due = @ - Metrics(t), ![t].pc = pc,
                                    ![t].escalated = @ \/ pc = "prepare"]
NextRound(t, cost) ==
    job' = [job EXCEPT ![t].due = @ - cost, ![t].pc = "round", ![t].round = @ + 1]
OpenLoop(t, phase, cost) ==
    job' = [job EXCEPT ![t].due = @ - cost, ![t].pc = "round", ![t].round = 0,
                       ![t].phase = phase, ![t].outside = @ \/ phase = "orphan"]

\* The parallel group of the batch runs first, all at once; the others in turn.
Before(t, u) == \E i, j \in DOMAIN Order : i < j /\ Order[i] = t /\ Order[j] = u
Group == IF cli.parallel THEN cli.pending \cap ParallelTasks ELSE {}
Ok(t) == job[t].pc = "ended" /\ job[t].ok
Turn(t) == /\ Running /\ t \in cli.pending /\ job[t].pc = "waiting"
           /\ t \in Group \/ /\ \A u \in Group : Ok(u)
                             /\ \A u \in cli.pending \ Group : Before(u, t) => Ok(u)

\* finish: the first result settles the row.
Finish(t) == [row EXCEPT ![t] = IF @ # "spinning" THEN @ ELSE IF job[t].ok THEN "done" ELSE "failed"]

\* finalizeSkipped: the rows that have no result yet.
Skipped == [t \in Tasks |-> IF row[t] = "spinning" THEN "skipped" ELSE row[t]]

\* An error of the file system outside the try of runTask ends the program, in the
\* middle of what the other tasks do.
Throw == /\ cli' = [cli EXCEPT !.state = "exited", !.code = 1]
         /\ row' = Skipped
         /\ UNCHANGED <<job, disk>>

\* TaskArchive.create empties the task's directory.  That the plan declares its
\* workspace has been checked by loadFeature.
Begin(t) ==
    /\ Turn(t)
    /\ \/ /\ Goto(t, "prepare")
          /\ disk' = [disk EXCEPT ![t] = NoSummary]
          /\ UNCHANGED <<cli, row>>
       \/ Throw
    /\ UNCHANGED <<child, older>>

\* The graph, the prompt and the file operations; then an attempt, its streams and
\* the call.  A second call is made with Opus and streams of its own.
Prepare(t) ==
    /\ Running /\ job[t].pc = "prepare"
    /\ \/ /\ Goto(t, "call")
          /\ Spawn(t, TRUE)
          /\ disk' = [disk EXCEPT ![t].stream = cli.count]
       \/ ~job[t].escalated /\ Fail(t) /\ UNCHANGED <<child, older, disk>>
    /\ UNCHANGED <<cli, row>>

\* One round of a ralph loop: a call without streams, which may only read when it
\* is asked about orphans.
Round(t) ==
    /\ Running /\ job[t].pc = "round"
    /\ IF job[t].round < Rounds[cli.parallel][job[t].phase]
       THEN Goto(t, "call") /\ Spawn(t, job[t].phase # "orphan")
       ELSE /\ IF job[t].phase = "orphan" THEN Goto(t, "commit") ELSE Fail(t)
            /\ UNCHANGED <<child, older>>
    /\ UNCHANGED <<cli, row, disk>>

Answered(t, phase) == /\ Running /\ job[t].pc = "call" /\ job[t].phase = phase
                      /\ child[t].answer # "pending"
                      /\ UNCHANGED <<cli, row, child, older, disk>>
Resolved(t) == child[t].answer = "resolved"

\* Mutant: any error of the first call is worth a second one.
InitialAnswerAny(t) ==
    /\ Answered(t, "initial")
    /\ IF Resolved(t) THEN Goto(t, "verify")
       ELSE (~job[t].escalated /\ Record(t, "prepare")) \/ Record(t, "close")

\* A call that ran out of turns is made again, unless Opus has made it.
InitialAnswer(t) ==
    /\ Answered(t, "initial")
    /\ IF Resolved(t) THEN Goto(t, "verify")
       ELSE \/ /\ child[t].answer = "error" /\ child[t].result = "max_turns" /\ ~job[t].escalated
               /\ Record(t, "prepare")
            \/ Record(t, "close")

\* The rounds of the verify and the hook loop: an error is archived without the
\* metrics it carries.
RalphAnswer(t) ==
    \E phase \in {"verify", "hook"} :
        /\ Answered(t, phase)
        /\ IF Resolved(t) THEN Goto(t, phase) ELSE Fail(t)

\* An intent that settles the drift, one that does not, "stuck", or an error, which
\* is only a warning.  None of the rounds is archived.
OrphanAnswer(t) ==
    /\ Answered(t, "orphan")
    /\ \/ Goto(t, "commit")
       \/ Resolved(t) /\ (NextRound(t, 0) \/ Fail(t))

\* detectLlmNoOp and the verify command, whose timeout is an exception.
Verify(t) ==
    /\ Running /\ job[t].pc = "verify"
    /\ \/ Record(t, "gate")
       \/ job[t].phase = "initial" /\ (OpenLoop(t, "verify", Metrics(t)) \/ Record(t, "close"))
       \/ job[t].phase = "verify" /\ NextRound(t, Metrics(t))
       \/ Fail(t)
    /\ UNCHANGED <<cli, row, child, older, disk>>

\* commitTask: the LLM has committed, there is no drift, or orphans.
Gate(t) ==
    /\ Running /\ job[t].pc = "gate"
    /\ Goto(t, "check") \/ Goto(t, "commit") \/ OpenLoop(t, "orphan", 0) \/ Fail(t)
    /\ UNCHANGED <<cli, row, child, older, disk>>

PerformCommit(t) ==
    /\ Running /\ job[t].pc = "commit"
    /\ Goto(t, "check") \/ OpenLoop(t, "hook", 0) \/ Fail(t)
    /\ UNCHANGED <<cli, row, child, older, disk>>

\* After a round of the hook loop: it has committed, or is rejected again.
HookAttempt(t) ==
    /\ Running /\ job[t].pc = "hook"
    /\ Record(t, "check") \/ NextRound(t, Metrics(t)) \/ Fail(t)
    /\ UNCHANGED <<cli, row, child, older, disk>>

CheckOrphans(t) ==
    /\ Running /\ job[t].pc = "check"
    /\ Succeed(t) \/ Fail(t)
    /\ UNCHANGED <<cli, row, child, older, disk>>

\* The sandbox is removed, summary.json is written, and the row has its result.
Finalize(t) ==
    /\ Running /\ job[t].pc = "close"
    /\ \/ /\ disk' = [disk EXCEPT ![t] = [run |-> cli.count, ok |-> job[t].ok,
                                          whole |-> job[t].due = 0, stream |-> @.stream]]
          /\ row' = Finish(t)
          /\ Goto(t, "ended")
          /\ UNCHANGED cli
       \/ Throw
    /\ UNCHANGED <<child, older>>

-----------------------------------------------------------------------------
(* The end of the run.                                                     *)

\* Mutant: the rows of the tasks that never ran are left spinning.
RunEndsSpinning ==
    /\ Running
    /\ \A t \in Tasks : job[t].pc \in {"waiting", "ended"} /\ ~Turn(t)
    /\ cli' = [cli EXCEPT !.state = "report"]
    /\ UNCHANGED <<row, job, child, older, disk>>

\* Mutant: the first failure of a parallel group is the end of the run.
RunEndsAtFailure ==
    /\ Running
    /\ \/ \A t \in Tasks : job[t].pc \in {"waiting", "ended"} /\ ~Turn(t)
       \/ \E t \in Tasks : job[t].pc = "ended" /\ ~job[t].ok
    /\ cli' = [cli EXCEPT !.state = "report"]
    /\ row' = Skipped
    /\ UNCHANGED <<job, child, older, disk>>

\* runFeature returns when its group has ended, the first failure included.
RunEnds ==
    /\ Running
    /\ \A t \in Tasks : job[t].pc \in {"waiting", "ended"} /\ ~Turn(t)
    /\ cli' = [cli EXCEPT !.state = "report"]
    /\ row' = Skipped
    /\ UNCHANGED <<job, child, older, disk>>

\* When every row is settled, too: the report, which may fail, and the exit code.
Report ==
    /\ cli.state = "report" /\ \A t \in Tasks : row[t] # "spinning"
    /\ \E r \in {"printed", "failed"} :
         cli' = [cli EXCEPT !.state = "exited", !.report = r,
                   !.code = IF \E t \in Tasks : job[t].pc = "ended" /\ ~job[t].ok THEN 1 ELSE 0]
    /\ UNCHANGED <<row, job, child, older, disk>>

\* A row of the report: what the archive has of a task with a result, if it has.
LoadTaskRow(t) == {s \in {disk[t]} : job[t].pc = "ended" /\ s.run # 0}
FailCount == Cardinality({t \in Tasks : \E s \in LoadTaskRow(t) : ~s.ok})

Work(t) == \/ Begin(t) \/ Prepare(t) \/ Round(t) \/ InitialAnswer(t) \/ RalphAnswer(t)
           \/ OrphanAnswer(t) \/ Verify(t) \/ Gate(t) \/ PerformCommit(t) \/ HookAttempt(t)
           \/ CheckOrphans(t) \/ Finalize(t)

Next == \/ ParseArgs \/ LoadFeature \/ DryRun \/ Start
        \/ \E t \in Tasks : \/ ResultEvent(t) \/ Close(t) \/ Timeout(t) \/ SpawnError(t)
                            \/ Work(t)
        \/ OlderCloses \/ RunEnds \/ Report

Spec == Init /\ [][Next]_vars

\* The steps of the program, and the timer of every call.  Nothing is assumed of
\* claude: it may never close its pipes.
FairSpec == /\ Spec
            /\ \A t \in Tasks : WF_vars(Work(t)) /\ WF_vars(Timeout(t))
            /\ WF_vars(RunEnds) /\ WF_vars(Report)

-----------------------------------------------------------------------------
(* Properties.                                                             *)

\* index.ts: after a run that was not cut off by an exception no call is under way,
\* every row shows what became of its task, and the exit code is 0 exactly when
\* every pending task has succeeded.
ExitIsOrderly ==
    cli.state = "exited" /\ cli.report # "none" =>
        /\ \A t \in Tasks : child[t].answer = "pending" => child[t].state = "none"
        /\ \A t \in cli.pending : row[t] = IF Ok(t) THEN "done"
                                           ELSE IF job[t].pc = "ended" THEN "failed" ELSE "skipped"
        /\ cli.code = 0 <=> \A t \in cli.pending : Ok(t)

\* run-report.ts: the report of a run shows this run, not what an earlier one left
\* in the archive, and the failures it counts agree with the exit code.  For a task
\* that has succeeded without a question about orphans it counts the cost of every
\* call.
ReportIsTrue ==
    cli.state = "exited" /\ cli.report = "printed" =>
        /\ \A t \in Tasks : job[t].pc = "ended" =>
            \E s \in LoadTaskRow(t) :
                /\ s.run = cli.count /\ s.ok = job[t].ok /\ s.stream \in {0, cli.count}
                /\ job[t].ok /\ ~job[t].outside => s.whole
        /\ cli.code = 1 <=> FailCount > 0

\* llm-client.ts: a call is given up before its subprocess has closed.  No call that
\* may write begins while another of the task may write still, and without
\* --parallel none of another task.
OneWriter ==
    /\ \A o \in older : ~o[2]
    /\ ~cli.parallel => Cardinality({t \in Alive : child[t].writes}) <= 1

\* index.ts, progress.ts: the program comes to its end, whatever claude does.
ProgramExits == cli.state = "running" ~> cli.state = "exited"
=============================================================================
