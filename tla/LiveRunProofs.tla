---------------------------- MODULE LiveRunProofs ----------------------------
(***************************************************************************)
(* LiveRun for any feature, rounds and number of runs: the exit code, the  *)
(* rows and the report agree with what the tasks did, and no two writers   *)
(* meet.                                                                   *)
(*                                                                         *)
(* TaskOK relates where a task is to the subprocess it has: between two    *)
(* calls none is alive that may write, and the cost that is due is that of *)
(* a call not yet archived.  The rest of the invariant relates the tasks   *)
(* to each other, to their rows and to the archive.                        *)
(***************************************************************************)
EXTENDS LiveRun, FiniteSetTheorems, WellFoundedInduction, TLAPS

Pcs == {"waiting", "prepare", "call", "verify", "round", "gate", "commit", "hook", "check", "close", "ended"}
Between == {"prepare", "round", "verify", "gate", "commit", "hook", "check"}
Phases == {"initial", "verify", "orphan", "hook"}
Job == [pc : Pcs, phase : Phases, round : Nat, escalated : BOOLEAN, due : Nat, outside : BOOLEAN, ok : BOOLEAN]
Child == [state : {"none", "running", "killed", "closed"},
          result : {"none", "success", "error", "max_turns"},
          answer : {"pending", "resolved", "error", "lost"}, writes : BOOLEAN]
Summary == [run : 0..MaxRuns, ok : BOOLEAN, whole : BOOLEAN, stream : 0..MaxRuns]

Up(c) == c.state \in {"running", "killed"}
Cost(c) == IF c.result # "none" THEN 1 ELSE 0

TaskOK(j, c) ==
    /\ j \in Job /\ c \in Child
    /\ c.answer = "pending" => c.state = "none" \/ (c.state = "running" /\ j.pc = "call")
    /\ c.answer \in {"resolved", "error"} => c.state = "closed"
    /\ j.pc = "waiting" => j = Idle /\ c = NoChild
    /\ j.pc = "prepare" => j.phase = "initial"
    /\ j.pc = "call" => c.state # "none" /\ c.writes = (j.phase # "orphan")
    /\ j.pc \in {"verify", "hook"} => c.answer = "resolved"
    /\ j.pc \in Between \/ j.ok => (Up(c) => j.outside /\ ~c.writes)
    /\ j.phase = "orphan" => j.outside
    /\ j.ok => j.pc \in {"close", "ended"}
    /\ j.pc \in {"call", "verify", "hook"} => j.due >= Cost(c) /\ (~j.outside => j.due = Cost(c))
    /\ j.pc \in {"prepare", "round", "gate", "commit", "check"} \/ j.ok => (~j.outside => j.due = 0)

CliOK == /\ cli \in [state : {"off", "running", "report", "exited"}, count : 0..MaxRuns,
                     parallel : BOOLEAN, pending : SUBSET Tasks, code : 0..2,
                     report : {"none", "printed", "failed"}]
         /\ cli.state # "off" => cli.count # 0
         /\ cli.state # "exited" => cli.report = "none"

TasksOK == /\ job \in [Tasks -> Job] /\ child \in [Tasks -> Child]
           /\ \A t \in Tasks : /\ TaskOK(job[t], child[t])
                               /\ job[t].pc # "waiting" => t \in cli.pending
OlderOK == older \subseteq Tasks \X BOOLEAN /\ \A o \in older : ~o[2]

\* Without --parallel a task has begun only when those before it had succeeded.
TurnsOK == \A t \in Tasks, u \in cli.pending :
              ~cli.parallel /\ job[t].pc # "waiting" /\ Before(u, t) => Ok(u)

\* The run is over, and was not cut off.
Over == cli.state = "report" \/ (cli.state = "exited" /\ cli.report # "none")

RowOK(t) == /\ cli.state = "running" => (row[t] = "spinning" <=> t \in cli.pending /\ job[t].pc # "ended")
            /\ Over => row[t] # "spinning" /\ (t \in cli.pending /\ job[t].pc # "ended" => row[t] = "skipped")
            /\ (cli.state = "running" \/ Over) /\ job[t].pc = "ended" =>
                  row[t] = IF job[t].ok THEN "done" ELSE "failed"
DiskOK(t) == (cli.state = "running" \/ Over) =>
                /\ job[t].pc # "waiting" => disk[t].stream \in {0, cli.count}
                /\ job[t].pc = "ended" => /\ disk[t].run = cli.count /\ disk[t].ok = job[t].ok
                                          /\ job[t].ok /\ ~job[t].outside => disk[t].whole
RowsOK == /\ row \in [Tasks -> {"none", "spinning", "done", "failed", "skipped"}]
          /\ disk \in [Tasks -> Summary]
          /\ \A t \in Tasks : RowOK(t) /\ DiskOK(t)

Failed == \E t \in Tasks : job[t].pc = "ended" /\ ~job[t].ok

\* A run that is over has stopped at a failure, or has no task left.
OverOK == /\ Over => /\ \A t \in Tasks : job[t].pc \in {"waiting", "ended"}
                     /\ Failed \/ \A t \in cli.pending : Ok(t)
          /\ cli.state = "exited" /\ cli.report # "none" => cli.code = IF Failed THEN 1 ELSE 0

Inv == CliOK /\ TasksOK /\ OlderOK /\ TurnsOK /\ RowsOK /\ OverOK

-----------------------------------------------------------------------------
(* Facts about the constants.                                              *)

LEMMA OrderIs ==
    /\ Order \in Seq(Tasks) /\ DOMAIN Order = 1..Len(Order) /\ Len(Order) \in Nat
    /\ MaxRuns \in Nat
    /\ \A t \in Tasks : \E i \in DOMAIN Order : Order[i] = t
    /\ \A i, j \in DOMAIN Order : Order[i] = Order[j] => i = j
  BY LiveAssumption

LEMMA TasksFinite == IsFiniteSet(Tasks)
<1>1. IsFiniteSet(1..Len(Order))
  BY OrderIs, FS_Interval
<1> DEFINE f == [i \in 1..Len(Order) |-> Order[i]]
<1>2. f \in Surjection(1..Len(Order), Tasks)
  <2>1. f \in [1..Len(Order) -> Tasks]
    BY OrderIs
  <2>2. \A t \in Tasks : \E i \in 1..Len(Order) : f[i] = t
    BY OrderIs
  <2> QED
    BY <2>1, <2>2 DEF Surjection
<1> QED
  BY <1>1, <1>2, FS_Surjection

\* Of the tasks in a set one comes first.
LEMMA FirstIs ==
    ASSUME NEW S \in SUBSET Tasks, S # {}
    PROVE  \E t \in S : \A u \in S : ~Before(u, t)
<1> DEFINE R == OpToRel(<, Nat)
           T == {i \in DOMAIN Order : Order[i] \in S}
<1>1. T \subseteq Nat /\ T # {}
  BY OrderIs
<1>2. IsWellFoundedOn(R, Nat)
  BY NatLessThanWellFounded
<1>3. PICK i \in T : \A j \in T : <<j, i>> \notin R
  <2> HIDE DEF R, T
  <2> QED
    BY <1>1, <1>2, WFMin
<1>4. \A j \in T : ~(j < i)
  BY <1>1, <1>3 DEF OpToRel
<1>5. Order[i] \in S
  OBVIOUS
<1>6. \A u \in S : ~Before(u, Order[i])
  <2> SUFFICES ASSUME NEW u \in S, Before(u, Order[i]) PROVE FALSE
    OBVIOUS
  <2>1. PICK k, l \in DOMAIN Order : k < l /\ Order[k] = u /\ Order[l] = Order[i]
    BY DEF Before
  <2>2. l = i /\ k \in T
    BY <2>1, OrderIs
  <2> QED
    BY <1>4, <2>1, <2>2
<1> QED
  BY <1>5, <1>6

\* Of two tasks one comes first.
LEMMA OrderTotal ==
    ASSUME NEW t \in Tasks, NEW u \in Tasks, t # u
    PROVE  Before(t, u) \/ Before(u, t)
<1>1. PICK i \in DOMAIN Order : Order[i] = t
  BY OrderIs
<1>2. PICK j \in DOMAIN Order : Order[j] = u
  BY OrderIs
<1>3. i < j \/ j < i
  BY <1>1, <1>2, OrderIs
<1> QED
  BY <1>1, <1>2, <1>3 DEF Before
-----------------------------------------------------------------------------
(* Steps of one task.                                                      *)

\* The job of t has moved to j.
Moves(t, j, pc, due, phase, outside, ok) ==
    /\ j \in Job /\ job' = [job EXCEPT ![t] = j]
    /\ j.pc = pc /\ j.due = due /\ j.phase = phase /\ j.outside = outside /\ j.ok = ok

LEMMA GotoIs ==
    ASSUME job \in [Tasks -> Job], NEW t \in Tasks, NEW pc \in Pcs, Goto(t, pc)
    PROVE  \E j : Moves(t, j, pc, job[t].due, job[t].phase, job[t].outside, job[t].ok)
<1> DEFINE j == [job[t] EXCEPT !.pc = pc]
<1>1. job[t] \in Job
  OBVIOUS
<1>2. /\ j \in Job /\ j.pc = pc /\ j.due = job[t].due /\ j.phase = job[t].phase
      /\ j.outside = job[t].outside /\ j.ok = job[t].ok
  BY <1>1 DEF Job
<1>3. job' = [job EXCEPT ![t] = j]
  BY DEF Goto
<1> HIDE DEF j
<1> QED
  BY <1>2, <1>3 DEF Moves

LEMMA EndIs ==
    ASSUME job \in [Tasks -> Job], NEW t \in Tasks
    PROVE  /\ Fail(t) => \E j : Moves(t, j, "close", job[t].due, job[t].phase, job[t].outside, FALSE)
           /\ Succeed(t) => \E j : Moves(t, j, "close", job[t].due, job[t].phase, job[t].outside, TRUE)
<1> SUFFICES ASSUME NEW ok \in BOOLEAN, job' = [job EXCEPT ![t].pc = "close", ![t].ok = ok]
             PROVE  \E j : Moves(t, j, "close", job[t].due, job[t].phase, job[t].outside, ok)
  BY DEF Fail, Succeed
<1> DEFINE j == [job[t] EXCEPT !.pc = "close", !.ok = ok]
<1>1. job[t] \in Job
  OBVIOUS
<1>2. /\ j \in Job /\ j.pc = "close" /\ j.due = job[t].due /\ j.phase = job[t].phase
      /\ j.outside = job[t].outside /\ j.ok = ok
  BY <1>1 DEF Job, Pcs
<1>3. job' = [job EXCEPT ![t] = j]
  OBVIOUS
<1> HIDE DEF j
<1> QED
  BY <1>2, <1>3 DEF Moves

LEMMA RecordIs ==
    ASSUME job \in [Tasks -> Job], NEW t \in Tasks, NEW pc \in Pcs, Record(t, pc),
           Metrics(t) <= job[t].due
    PROVE  \E j : Moves(t, j, pc, job[t].due - Metrics(t), job[t].phase, job[t].outside, job[t].ok)
<1> DEFINE j == [job[t] EXCEPT !.due = @ - Metrics(t), !.pc = pc, !.escalated = @ \/ pc = "prepare"]
<1>1. job[t] \in Job /\ Metrics(t) \in Nat
  BY DEF Metrics
<1>2. job[t].due - Metrics(t) \in Nat
  BY <1>1 DEF Job
<1>3. /\ j \in Job /\ j.pc = pc /\ j.due = job[t].due - Metrics(t) /\ j.phase = job[t].phase
      /\ j.outside = job[t].outside /\ j.ok = job[t].ok
  BY <1>1, <1>2 DEF Job
<1>4. job' = [job EXCEPT ![t] = j]
  BY DEF Record
<1> HIDE DEF j
<1> QED
  BY <1>3, <1>4 DEF Moves

LEMMA NextRoundIs ==
    ASSUME job \in [Tasks -> Job], NEW t \in Tasks, NEW cost \in Nat, NextRound(t, cost), cost <= job[t].due
    PROVE  \E j : Moves(t, j, "round", job[t].due - cost, job[t].phase, job[t].outside, job[t].ok)
<1> DEFINE j == [job[t] EXCEPT !.due = job[t].due - cost, !.pc = "round", !.round = job[t].round + 1]
<1>1. job[t] \in Job
  OBVIOUS
<1>2. job[t].due - cost \in Nat /\ job[t].round + 1 \in Nat
  BY <1>1 DEF Job
<1>3. /\ j \in Job /\ j.pc = "round" /\ j.due = job[t].due - cost /\ j.phase = job[t].phase
      /\ j.outside = job[t].outside /\ j.ok = job[t].ok
  BY <1>1, <1>2 DEF Job, Pcs
<1>4. job' = [job EXCEPT ![t] = j]
  BY DEF NextRound
<1> HIDE DEF j
<1> QED
  BY <1>3, <1>4 DEF Moves

LEMMA OpenLoopIs ==
    ASSUME job \in [Tasks -> Job], NEW t \in Tasks, NEW phase \in Phases, NEW cost \in Nat,
           OpenLoop(t, phase, cost), cost <= job[t].due
    PROVE  \E j, o : /\ Moves(t, j, "round", job[t].due - cost, phase, o, job[t].ok)
                     /\ o <=> job[t].outside \/ phase = "orphan"
<1>1. job[t] \in Job
  OBVIOUS
<1>2. job[t].due - cost \in Nat
  BY <1>1 DEF Job
<1>3. PICK o \in BOOLEAN : o = (job[t].outside \/ phase = "orphan")
  OBVIOUS
<1> DEFINE j == [job[t] EXCEPT !.due = job[t].due - cost, !.pc = "round", !.round = 0,
                               !.phase = phase, !.outside = o]
<1>4. /\ j \in Job /\ j.pc = "round" /\ j.due = job[t].due - cost /\ j.phase = phase
      /\ j.outside = o /\ j.ok = job[t].ok
  BY <1>1, <1>2 DEF Job, Pcs, Phases
<1>5. job' = [job EXCEPT ![t] = j]
  BY <1>3 DEF OpenLoop
<1> HIDE DEF j
<1> QED
  BY <1>3, <1>4, <1>5 DEF Moves

\* A task that runs takes a step, with its subprocess: nothing else is disturbed.
LEMMA TaskSteps ==
    ASSUME Inv, Running, NEW t \in Tasks, NEW j, NEW c, TaskOK(j, c),
           job' = [job EXCEPT ![t] = j], child' = [child EXCEPT ![t] = c],
           UNCHANGED <<cli, row>>, OlderOK', disk' \in [Tasks -> Summary],
           \A u \in Tasks : \/ disk'[u] = disk[u]
                            \/ u = t /\ job[t].pc = "prepare" /\ disk'[t].stream = cli.count,
           \/ job[t].pc \notin {"waiting", "ended"} /\ j.pc \notin {"waiting", "ended"}
           \/ j.pc = job[t].pc /\ j.ok = job[t].ok /\ j.outside = job[t].outside
    PROVE  Inv'
<1>1. j \in Job /\ c \in Child /\ job \in [Tasks -> Job] /\ child \in [Tasks -> Child]
  BY DEF TaskOK, Inv, TasksOK
<1>2. /\ job' \in [Tasks -> Job] /\ child' \in [Tasks -> Child]
      /\ job'[t] = j /\ child'[t] = c
      /\ \A u \in Tasks : u # t => job'[u] = job[u] /\ child'[u] = child[u]
  BY <1>1
<1>3. CliOK' /\ cli' = cli /\ row' = row /\ cli.state = "running"
  BY DEF Inv, CliOK, Running
<1>4. j.pc # "waiting" => t \in cli.pending
  BY DEF Inv, TasksOK
<1>5. TasksOK'
  BY <1>2, <1>3, <1>4 DEF Inv, TasksOK
<1>6. \A u \in Tasks : Ok(u) => Ok(u)'
  BY <1>2 DEF Ok
<1>7. \A u \in Tasks : job'[u].pc # "waiting" => job[u].pc # "waiting"
  BY <1>2
<1>8. cli.pending \subseteq Tasks
  BY DEF Inv, CliOK
<1>9. TurnsOK'
  <2>1. \A u, v \in Tasks : Before(u, v)' <=> Before(u, v)
    BY DEF Before
  <2> QED
    BY <1>3, <1>6, <1>7, <1>8, <2>1 DEF Inv, TurnsOK
<1>10. ASSUME NEW u \in Tasks PROVE (RowOK(u) /\ DiskOK(u))'
  <2>1. CASE u # t
    <3>1. RowOK(u) /\ DiskOK(u)
      BY DEF Inv, RowsOK
    <3> QED
      BY <1>2, <1>3, <2>1, <3>1 DEF RowOK, DiskOK, Over
  <2>2. CASE u = t
    <3>1. RowOK(t) /\ DiskOK(t)
      BY DEF Inv, RowsOK
    <3> QED
      BY <1>2, <1>3, <2>2, <3>1 DEF RowOK, DiskOK, Over
  <2> QED
    BY <2>1, <2>2
<1>11. RowsOK'
  BY <1>3, <1>10 DEF Inv, RowsOK
<1>12. OverOK'
  BY <1>3 DEF OverOK, Over
<1> QED
  BY <1>3, <1>5, <1>9, <1>11, <1>12 DEF Inv

\* The same, with the subprocess as it is.
LEMMA JobSteps ==
    ASSUME Inv, Running, NEW t \in Tasks, NEW j, TaskOK(j, child[t]),
           job' = [job EXCEPT ![t] = j], UNCHANGED <<cli, row, child, older, disk>>,
           job[t].pc \notin {"waiting", "ended"}, j.pc \notin {"waiting", "ended"}
    PROVE  Inv'
<1>1. child' = [child EXCEPT ![t] = child[t]] /\ disk' \in [Tasks -> Summary] /\ OlderOK'
  BY DEF Inv, TasksOK, RowsOK, OlderOK
<1> QED
  BY <1>1, TaskSteps

\* The subprocess changes, and with it at most what is due.
LEMMA ChildSteps ==
    ASSUME Inv, Running, NEW t \in Tasks, NEW c, TaskOK(job[t], c),
           child' = [child EXCEPT ![t] = c], UNCHANGED <<cli, row, job, older, disk>>
    PROVE  Inv'
<1>1. job' = [job EXCEPT ![t] = job[t]] /\ disk' \in [Tasks -> Summary] /\ OlderOK'
  BY DEF Inv, TasksOK, RowsOK, OlderOK
<1> QED
  BY <1>1, TaskSteps

LEMMA TaskIs ==
    ASSUME Inv, NEW t \in Tasks
    PROVE  TaskOK(job[t], child[t]) /\ job[t] \in Job /\ child[t] \in Child
           /\ job \in [Tasks -> Job] /\ child \in [Tasks -> Child]
  BY DEF Inv, TasksOK

-----------------------------------------------------------------------------
(* The subprocess.                                                         *)

\* Another subprocess of t is started.
LEMMA SpawnIs ==
    ASSUME Inv, NEW t \in Tasks, NEW writes \in BOOLEAN, Spawn(t, writes), job[t].pc \in Between
    PROVE  /\ \E c \in Child : /\ child' = [child EXCEPT ![t] = c]
                               /\ c.state = "running" /\ c.result = "none" /\ c.answer = "pending"
                               /\ c.writes = writes
           /\ OlderOK'
<1> DEFINE c == [NoChild EXCEPT !.state = "running", !.writes = writes]
<1>1. /\ c \in Child /\ c.state = "running" /\ c.result = "none" /\ c.answer = "pending"
      /\ c.writes = writes
  BY DEF NoChild, Child
<1>2. child' = [child EXCEPT ![t] = c]
  BY DEF Spawn
<1>3. child[t].writes \in BOOLEAN
  BY TaskIs DEF Child
<1>4. t \in Alive => ~child[t].writes
  BY TaskIs DEF TaskOK, Alive, Up
<1>5. OlderOK'
  <2>1. older' = older \cup {<<t, child[t].writes>> : u \in {t} \cap Alive}
    BY DEF Spawn
  <2>2. ASSUME NEW o \in older' PROVE o \in Tasks \X BOOLEAN /\ ~o[2]
    BY <1>3, <1>4, <2>1 DEF Inv, OlderOK
  <2> QED
    BY <2>2 DEF OlderOK
<1> HIDE DEF c
<1> QED
  BY <1>1, <1>2, <1>5

LEMMA ResultEventKeeps ==
    ASSUME Inv, NEW t \in Tasks, ResultEvent(t)
    PROVE  Inv'
<1>1. Up(child[t]) /\ child[t].result = "none" /\ Running /\ UNCHANGED <<cli, row, older, disk>>
  BY DEF ResultEvent, Alive, Up
<1>2. PICK r \in {"success", "error", "max_turns"} : child' = [child EXCEPT ![t].result = r]
  BY DEF ResultEvent
<1> DEFINE c == [child[t] EXCEPT !.result = r]
           j == [job[t] EXCEPT !.due = @ + 1]
<1>3. TaskOK(job[t], child[t]) /\ job[t] \in Job /\ child[t] \in Child
  BY TaskIs
<1>4. /\ c \in Child /\ c.state = child[t].state /\ c.answer = child[t].answer
      /\ c.writes = child[t].writes /\ c.result # "none"
  BY <1>3 DEF Child
<1>5. /\ j \in Job /\ j.pc = job[t].pc /\ j.due = job[t].due + 1 /\ j.phase = job[t].phase
      /\ j.outside = job[t].outside /\ j.ok = job[t].ok
  BY <1>3 DEF Job
<1>6. child' = [child EXCEPT ![t] = c] /\ job' = [job EXCEPT ![t] = j]
  BY <1>2 DEF ResultEvent
<1> HIDE DEF c, j
<1>7. job[t].due \in Nat /\ child[t].state # "none" /\ child[t].state # "closed"
  BY <1>1, <1>3 DEF Job, Up
<1>8. job[t].pc # "waiting"
  BY <1>3, <1>7 DEF TaskOK, NoChild
<1>9. TaskOK(j, c)
  BY <1>1, <1>3, <1>4, <1>5, <1>7, <1>8 DEF TaskOK, Up, Cost, Between
<1>10. OlderOK' /\ disk' \in [Tasks -> Summary]
  BY <1>1 DEF Inv, OlderOK, RowsOK
<1> QED
  BY <1>1, <1>5, <1>6, <1>9, <1>10, TaskSteps

\* The promise is settled.
LEMMA SettleKeeps ==
    ASSUME Inv, Running, NEW t \in Tasks, NEW answer \in {"resolved", "error", "lost"},
           NEW state \in {"killed", "closed"}, Settle(t, answer, state), Up(child[t]),
           state = "killed" => answer = "lost",
           UNCHANGED <<cli, row, job, older, disk>>
    PROVE  Inv'
<1> DEFINE c == [child[t] EXCEPT !.state = state, !.answer = IF @ = "pending" THEN answer ELSE @]
<1>1. TaskOK(job[t], child[t]) /\ child[t] \in Child
  BY TaskIs
<1>2. /\ c \in Child /\ c.state = state /\ c.writes = child[t].writes /\ c.result = child[t].result
      /\ c.answer = IF child[t].answer = "pending" THEN answer ELSE child[t].answer
  BY <1>1 DEF Child
<1>3. child' = [child EXCEPT ![t] = c]
  BY DEF Settle
<1> HIDE DEF c
<1>4. job[t].pc # "waiting" /\ child[t].answer \notin {"resolved", "error"}
  BY <1>1 DEF TaskOK, NoChild, Up
<1>5. job[t].pc \notin {"verify", "hook"}
  BY <1>1, <1>4 DEF TaskOK
<1>6. TaskOK(job[t], c)
  BY <1>1, <1>2, <1>4, <1>5 DEF TaskOK, Up, Cost, Between
<1> QED
  BY <1>3, <1>6, ChildSteps

LEMMA SubprocessKeeps ==
    ASSUME Inv, NEW t \in Tasks, Close(t) \/ Timeout(t) \/ SpawnError(t)
    PROVE  Inv'
  BY SettleKeeps DEF Close, Timeout, SpawnError, Alive, Up

LEMMA OlderClosesKeeps ==
    ASSUME Inv, OlderCloses
    PROVE  Inv'
<1>1. UNCHANGED <<cli, row, job, child, disk>> /\ older' \subseteq older
  BY DEF OlderCloses
<1>2. OlderOK'
  BY <1>1 DEF Inv, OlderOK
<1>3. (CliOK /\ TasksOK /\ TurnsOK /\ RowsOK /\ OverOK)'
  BY <1>1 DEF Inv, CliOK, TasksOK, TurnsOK, RowsOK, OverOK, RowOK, DiskOK, Over, Ok, Failed, Before
<1> QED
  BY <1>2, <1>3 DEF Inv
-----------------------------------------------------------------------------
(* The steps of runTask.                                                   *)

\* A call is made.
LEMMA CallKeeps ==
    ASSUME Inv, Running, NEW t \in Tasks, NEW writes \in BOOLEAN, Goto(t, "call"), Spawn(t, writes),
           job[t].pc \in {"prepare", "round"}, writes = (job[t].phase # "orphan"), UNCHANGED <<cli, row>>,
           disk' \in [Tasks -> Summary],
           \A u \in Tasks : \/ disk'[u] = disk[u]
                            \/ u = t /\ job[t].pc = "prepare" /\ disk'[t].stream = cli.count
    PROVE  Inv'
<1>1. TaskOK(job[t], child[t]) /\ job[t] \in Job
  BY TaskIs
<1>2. PICK j : Moves(t, j, "call", job[t].due, job[t].phase, job[t].outside, job[t].ok)
  BY TaskIs, GotoIs DEF Pcs
<1>3. PICK c \in Child : /\ child' = [child EXCEPT ![t] = c]
                         /\ c.state = "running" /\ c.result = "none" /\ c.answer = "pending"
                         /\ c.writes = writes
  BY SpawnIs DEF Between
<1>4. OlderOK'
  BY SpawnIs DEF Between
<1>5. job[t].due \in Nat /\ (~job[t].outside => job[t].due = 0) /\ ~job[t].ok
  BY <1>1 DEF TaskOK, Job
<1>6. TaskOK(j, c)
  BY <1>1, <1>2, <1>3, <1>5 DEF TaskOK, Moves, Up, Cost, Between
<1> QED
  BY <1>2, <1>3, <1>4, <1>6, TaskSteps DEF Moves

\* A task fails, from wherever it is.
LEMMA FailKeeps ==
    ASSUME Inv, Running, NEW t \in Tasks, Fail(t), job[t].pc \in Between \cup {"call"},
           child[t].answer # "pending", UNCHANGED <<cli, row, child, older, disk>>
    PROVE  Inv'
<1>1. TaskOK(job[t], child[t])
  BY TaskIs
<1>2. PICK j : Moves(t, j, "close", job[t].due, job[t].phase, job[t].outside, FALSE)
  BY TaskIs, EndIs
<1>3. TaskOK(j, child[t])
  BY <1>1, <1>2 DEF TaskOK, Moves, Between
<1> QED
  BY <1>2, <1>3, JobSteps DEF Moves, Between

\* ...also before its first call.
LEMMA FailsEarly ==
    ASSUME Inv, Running, NEW t \in Tasks, Fail(t), job[t].pc \in Between,
           UNCHANGED <<cli, row, child, older, disk>>
    PROVE  Inv'
<1>1. TaskOK(job[t], child[t])
  BY TaskIs
<1>2. PICK j : Moves(t, j, "close", job[t].due, job[t].phase, job[t].outside, FALSE)
  BY TaskIs, EndIs
<1>3. TaskOK(j, child[t])
  BY <1>1, <1>2 DEF TaskOK, Moves, Between
<1> QED
  BY <1>2, <1>3, JobSteps DEF Moves, Between

LEMMA PrepareKeeps ==
    ASSUME Inv, NEW t \in Tasks, Prepare(t)
    PROVE  Inv'
<1>1. Running /\ job[t].pc = "prepare" /\ UNCHANGED <<cli, row>>
  BY DEF Prepare
<1>2. CASE /\ Goto(t, "call") /\ Spawn(t, TRUE)
           /\ disk' = [disk EXCEPT ![t].stream = cli.count]
  <2>1. job[t].phase = "initial"
    BY <1>1, TaskIs DEF TaskOK
  <2>2. disk \in [Tasks -> Summary] /\ cli.count \in 0..MaxRuns
    BY DEF Inv, RowsOK, CliOK
  <2>3. PICK s : s = [disk[t] EXCEPT !.stream = cli.count]
    OBVIOUS
  <2>4. s \in Summary /\ s.stream = cli.count
    BY <2>2, <2>3 DEF Summary
  <2>5. disk' = [disk EXCEPT ![t] = s]
    BY <1>2, <2>3
  <2>6. /\ disk' \in [Tasks -> Summary]
        /\ \A u \in Tasks : disk'[u] = disk[u] \/ (u = t /\ disk'[t].stream = cli.count)
    BY <2>2, <2>4, <2>5
  <2> QED
    BY <1>1, <1>2, <2>1, <2>6, CallKeeps
<1>3. CASE Fail(t) /\ UNCHANGED <<child, older, disk>>
  BY <1>1, <1>3, FailsEarly DEF Between
<1> QED
  BY <1>2, <1>3 DEF Prepare

LEMMA RoundKeeps ==
    ASSUME Inv, NEW t \in Tasks, Round(t)
    PROVE  Inv'
<1>1. Running /\ job[t].pc = "round" /\ UNCHANGED <<cli, row, disk>> /\ disk' \in [Tasks -> Summary]
  BY DEF Round, Inv, RowsOK
<1>2. CASE Goto(t, "call") /\ Spawn(t, job[t].phase # "orphan")
  BY <1>1, <1>2, CallKeeps
<1>3. CASE job[t].phase = "orphan" /\ Goto(t, "commit") /\ UNCHANGED <<child, older>>
  <2>1. TaskOK(job[t], child[t])
    BY TaskIs
  <2>2. PICK j : Moves(t, j, "commit", job[t].due, job[t].phase, job[t].outside, job[t].ok)
    BY <1>3, TaskIs, GotoIs DEF Pcs
  <2>3. TaskOK(j, child[t])
    BY <1>1, <1>3, <2>1, <2>2 DEF TaskOK, Moves, Between
  <2> QED
    BY <1>1, <1>3, <2>2, <2>3, JobSteps DEF Moves
<1>4. CASE Fail(t) /\ UNCHANGED <<child, older>>
  BY <1>1, <1>4, FailsEarly DEF Between
<1> QED
  BY <1>2, <1>3, <1>4 DEF Round

\* What a call has cost.
LEMMA MetricsIs ==
    ASSUME Inv, NEW t \in Tasks, job[t].pc \in {"call", "verify", "hook"}
    PROVE  /\ Metrics(t) \in Nat /\ Metrics(t) <= job[t].due /\ job[t].due \in Nat
           /\ child[t].answer = "resolved" /\ ~job[t].outside => job[t].due - Metrics(t) = 0
           /\ child[t].answer = "error" /\ child[t].result = "max_turns" /\ ~job[t].outside
                 => job[t].due - Metrics(t) = 0
<1>1. TaskOK(job[t], child[t]) /\ job[t].due \in Nat
  BY TaskIs DEF Job
<1> QED
  BY <1>1 DEF TaskOK, Metrics, Cost

LEMMA InitialAnswerKeeps ==
    ASSUME Inv, NEW t \in Tasks, InitialAnswer(t)
    PROVE  Inv'
<1>1. /\ Running /\ job[t].pc = "call" /\ job[t].phase = "initial" /\ child[t].answer # "pending"
      /\ UNCHANGED <<cli, row, child, older, disk>>
  BY DEF InitialAnswer, Answered
<1>2. TaskOK(job[t], child[t])
  BY TaskIs
<1>3. CASE child[t].answer = "resolved" /\ Goto(t, "verify")
  <2>1. PICK j : Moves(t, j, "verify", job[t].due, job[t].phase, job[t].outside, job[t].ok)
    BY <1>3, TaskIs, GotoIs DEF Pcs
  <2>2. TaskOK(j, child[t])
    BY <1>1, <1>2, <1>3, <2>1 DEF TaskOK, Moves, Up
  <2> QED
    BY <1>1, <2>1, <2>2, JobSteps DEF Moves
<1>4. CASE /\ child[t].answer = "error" /\ child[t].result = "max_turns"
           /\ Record(t, "prepare")
  <2>1. PICK j : Moves(t, j, "prepare", job[t].due - Metrics(t), job[t].phase, job[t].outside, job[t].ok)
    BY <1>1, <1>4, TaskIs, MetricsIs, RecordIs DEF Pcs
  <2>2. ~job[t].outside => job[t].due - Metrics(t) = 0
    BY <1>1, <1>4, MetricsIs
  <2>3. TaskOK(j, child[t])
    BY <1>1, <1>2, <1>4, <2>1, <2>2 DEF TaskOK, Moves, Up
  <2> QED
    BY <1>1, <2>1, <2>3, JobSteps DEF Moves
<1>5. CASE Record(t, "close")
  <2>1. PICK j : Moves(t, j, "close", job[t].due - Metrics(t), job[t].phase, job[t].outside, job[t].ok)
    BY <1>1, <1>5, TaskIs, MetricsIs, RecordIs DEF Pcs
  <2>2. TaskOK(j, child[t])
    BY <1>1, <1>2, <2>1 DEF TaskOK, Moves, Between
  <2> QED
    BY <1>1, <2>1, <2>2, JobSteps DEF Moves
<1> QED
  BY <1>3, <1>4, <1>5 DEF InitialAnswer, Resolved

LEMMA RalphAnswerKeeps ==
    ASSUME Inv, NEW t \in Tasks, RalphAnswer(t)
    PROVE  Inv'
<1>1. PICK phase \in {"verify", "hook"} :
         Answered(t, phase) /\ (IF Resolved(t) THEN Goto(t, phase) ELSE Fail(t))
  BY DEF RalphAnswer
<1>2. /\ Running /\ job[t].pc = "call" /\ job[t].phase = phase /\ child[t].answer # "pending"
      /\ UNCHANGED <<cli, row, child, older, disk>>
  BY <1>1 DEF Answered
<1>3. TaskOK(job[t], child[t])
  BY TaskIs
<1>4. CASE Resolved(t)
  <2>1. Goto(t, phase) /\ phase \in Pcs /\ phase \notin {"waiting", "ended"}
    BY <1>1, <1>4 DEF Pcs
  <2>2. PICK j : Moves(t, j, phase, job[t].due, job[t].phase, job[t].outside, job[t].ok)
    BY <2>1, TaskIs, GotoIs
  <2>3. TaskOK(j, child[t])
    BY <1>2, <1>3, <1>4, <2>2 DEF TaskOK, Moves, Up, Resolved
  <2> QED
    BY <1>2, <2>1, <2>2, <2>3, JobSteps DEF Moves
<1>5. CASE ~Resolved(t)
  BY <1>1, <1>2, <1>5, FailKeeps
<1> QED
  BY <1>4, <1>5

LEMMA OrphanAnswerKeeps ==
    ASSUME Inv, NEW t \in Tasks, OrphanAnswer(t)
    PROVE  Inv'
<1>1. /\ Running /\ job[t].pc = "call" /\ job[t].phase = "orphan" /\ child[t].answer # "pending"
      /\ UNCHANGED <<cli, row, child, older, disk>>
  BY DEF OrphanAnswer, Answered
<1>2. TaskOK(job[t], child[t]) /\ job[t].due \in Nat
  BY TaskIs DEF Job
<1>3. job[t].outside /\ ~child[t].writes
  BY <1>1, <1>2, TaskIs DEF TaskOK, Child
<1>4. CASE Goto(t, "commit")
  <2>1. PICK j : Moves(t, j, "commit", job[t].due, job[t].phase, job[t].outside, job[t].ok)
    BY <1>4, TaskIs, GotoIs DEF Pcs
  <2>2. TaskOK(j, child[t])
    BY <1>1, <1>2, <1>3, <2>1 DEF TaskOK, Moves
  <2> QED
    BY <1>1, <2>1, <2>2, JobSteps DEF Moves
<1>5. CASE NextRound(t, 0)
  <2>1. PICK j : Moves(t, j, "round", job[t].due - 0, job[t].phase, job[t].outside, job[t].ok)
    BY <1>2, <1>5, TaskIs, NextRoundIs
  <2>2. TaskOK(j, child[t])
    BY <1>1, <1>2, <1>3, <2>1 DEF TaskOK, Moves
  <2> QED
    BY <1>1, <2>1, <2>2, JobSteps DEF Moves
<1>6. CASE Fail(t)
  BY <1>1, <1>6, FailKeeps
<1> QED
  BY <1>4, <1>5, <1>6 DEF OrphanAnswer

\* After a call that was answered in time, the task moves on with its cost archived.
LEMMA ArchivedKeeps ==
    ASSUME Inv, Running, NEW t \in Tasks, job[t].pc \in {"verify", "hook"}, NEW j \in Job,
           job' = [job EXCEPT ![t] = j], j.pc \in {"gate", "check", "round", "close"},
           j.due = job[t].due - Metrics(t), j.ok = job[t].ok,
           j.phase = "orphan" => job[t].phase = "orphan", job[t].outside => j.outside,
           UNCHANGED <<cli, row, child, older, disk>>
    PROVE  Inv'
<1>1. TaskOK(job[t], child[t])
  BY TaskIs
<1>2. child[t].answer = "resolved" /\ ~job[t].ok
  BY <1>1 DEF TaskOK
<1>3. ~job[t].outside => job[t].due - Metrics(t) = 0
  BY <1>2, MetricsIs
<1>4. TaskOK(j, child[t])
  BY <1>1, <1>2, <1>3 DEF TaskOK, Up
<1> QED
  BY <1>4, JobSteps

LEMMA VerifyKeeps ==
    ASSUME Inv, NEW t \in Tasks, Verify(t) \/ HookAttempt(t)
    PROVE  Inv'
<1>1. Running /\ job[t].pc \in {"verify", "hook"} /\ UNCHANGED <<cli, row, child, older, disk>>
  BY DEF Verify, HookAttempt
<1>2. /\ Metrics(t) \in Nat /\ Metrics(t) <= job[t].due /\ job[t].due \in Nat
  BY <1>1, MetricsIs
<1>3. ASSUME NEW pc \in {"gate", "check", "close"}, Record(t, pc) PROVE Inv'
  <2>1. PICK j : Moves(t, j, pc, job[t].due - Metrics(t), job[t].phase, job[t].outside, job[t].ok)
    BY <1>2, <1>3, TaskIs, RecordIs DEF Pcs
  <2> QED
    BY <1>1, <2>1, ArchivedKeeps DEF Moves
<1>4. CASE NextRound(t, Metrics(t))
  <2>1. PICK j : Moves(t, j, "round", job[t].due - Metrics(t), job[t].phase, job[t].outside, job[t].ok)
    BY <1>2, <1>4, TaskIs, NextRoundIs
  <2> QED
    BY <1>1, <2>1, ArchivedKeeps DEF Moves
<1>5. CASE OpenLoop(t, "verify", Metrics(t))
  <2>1. PICK j, o : /\ Moves(t, j, "round", job[t].due - Metrics(t), "verify", o, job[t].ok)
                    /\ o <=> job[t].outside \/ "verify" = "orphan"
    BY <1>2, <1>5, TaskIs, OpenLoopIs DEF Phases
  <2> QED
    BY <1>1, <2>1, ArchivedKeeps DEF Moves
<1>6. CASE Fail(t)
  BY <1>1, <1>6, FailsEarly DEF Between
<1> QED
  BY <1>3, <1>4, <1>5, <1>6 DEF Verify, HookAttempt

LEMMA GateKeeps ==
    ASSUME Inv, NEW t \in Tasks, Gate(t) \/ PerformCommit(t)
    PROVE  Inv'
<1>1. Running /\ job[t].pc \in {"gate", "commit"} /\ UNCHANGED <<cli, row, child, older, disk>>
  BY DEF Gate, PerformCommit
<1>2. TaskOK(job[t], child[t]) /\ job[t].due \in Nat
  BY TaskIs DEF Job
<1>3. ASSUME NEW pc \in {"check", "commit"}, Goto(t, pc) PROVE Inv'
  <2>1. PICK j : Moves(t, j, pc, job[t].due, job[t].phase, job[t].outside, job[t].ok)
    BY <1>3, TaskIs, GotoIs DEF Pcs
  <2>2. TaskOK(j, child[t])
    BY <1>1, <1>2, <2>1 DEF TaskOK, Moves, Between
  <2> QED
    BY <1>1, <2>1, <2>2, JobSteps DEF Moves
<1>4. ASSUME NEW phase \in {"orphan", "hook"}, OpenLoop(t, phase, 0) PROVE Inv'
  <2>1. PICK j, o : /\ Moves(t, j, "round", job[t].due - 0, phase, o, job[t].ok)
                    /\ o <=> job[t].outside \/ phase = "orphan"
    BY <1>2, <1>4, TaskIs, OpenLoopIs DEF Phases
  <2>2. TaskOK(j, child[t])
    BY <1>1, <1>2, <2>1 DEF TaskOK, Moves, Between
  <2> QED
    BY <1>1, <2>1, <2>2, JobSteps DEF Moves
<1>5. CASE Fail(t)
  BY <1>1, <1>5, FailsEarly DEF Between
<1> QED
  BY <1>3, <1>4, <1>5 DEF Gate, PerformCommit

LEMMA CheckOrphansKeeps ==
    ASSUME Inv, NEW t \in Tasks, CheckOrphans(t)
    PROVE  Inv'
<1>1. Running /\ job[t].pc = "check" /\ UNCHANGED <<cli, row, child, older, disk>>
  BY DEF CheckOrphans
<1>2. CASE Succeed(t)
  <2>1. PICK j : Moves(t, j, "close", job[t].due, job[t].phase, job[t].outside, TRUE)
    BY <1>2, TaskIs, EndIs
  <2>2. TaskOK(job[t], child[t])
    BY TaskIs
  <2>3. TaskOK(j, child[t])
    BY <1>1, <2>1, <2>2 DEF TaskOK, Moves, Between
  <2> QED
    BY <1>1, <2>1, <2>3, JobSteps DEF Moves
<1>3. CASE Fail(t)
  BY <1>1, <1>3, FailsEarly DEF Between
<1> QED
  BY <1>2, <1>3 DEF CheckOrphans
-----------------------------------------------------------------------------
(* The first and the last step of a task, and exceptions.                  *)

LEMMA CliIs ==
    ASSUME Inv
    PROVE  /\ cli.state \in {"off", "running", "report", "exited"} /\ cli.count \in 0..MaxRuns
           /\ cli.parallel \in BOOLEAN /\ cli.pending \subseteq Tasks
           /\ (cli.state # "exited" => cli.report = "none") /\ (cli.state # "off" => cli.count # 0)
  BY DEF Inv, CliOK

LEMMA SkippedIs ==
    ASSUME Inv
    PROVE  /\ Skipped \in [Tasks -> {"none", "spinning", "done", "failed", "skipped"}]
           /\ \A t \in Tasks : Skipped[t] = IF row[t] = "spinning" THEN "skipped" ELSE row[t]
  BY DEF Inv, RowsOK, Skipped

LEMMA ThrowKeeps ==
    ASSUME Inv, Running, Throw, UNCHANGED <<child, older>>
    PROVE  Inv'
<1>1. UNCHANGED <<job, child, older, disk>> /\ row' = Skipped
      /\ cli' = [cli EXCEPT !.state = "exited", !.code = 1]
  BY DEF Throw
<1>2. /\ CliOK' /\ cli'.state = "exited" /\ cli'.report = "none" /\ cli'.pending = cli.pending
      /\ cli'.parallel = cli.parallel
  <2>1. /\ cli \in [state : {"off", "running", "report", "exited"}, count : 0..MaxRuns,
                    parallel : BOOLEAN, pending : SUBSET Tasks, code : 0..2,
                    report : {"none", "printed", "failed"}]
        /\ cli.report = "none" /\ cli.count # 0 /\ cli.count \in 0..MaxRuns
    BY DEF Inv, CliOK, Running
  <2>2. 1 \in 0..2
    BY SMT
  <2>3. /\ cli' \in [state : {"off", "running", "report", "exited"}, count : 0..MaxRuns,
                     parallel : BOOLEAN, pending : SUBSET Tasks, code : 0..2,
                     report : {"none", "printed", "failed"}]
        /\ cli'.state = "exited" /\ cli'.report = cli.report /\ cli'.pending = cli.pending
        /\ cli'.parallel = cli.parallel /\ cli'.count = cli.count
    BY <1>1, <2>1, <2>2
  <2> QED
    BY <2>1, <2>3 DEF CliOK
<1>3. ~Over'
  BY <1>2 DEF Over
<1>4. (TasksOK /\ OlderOK /\ TurnsOK)'
  BY <1>1, <1>2 DEF Inv, TasksOK, OlderOK, TurnsOK, Ok, Before
<1>5. RowsOK'
  BY <1>1, <1>2, <1>3, SkippedIs DEF Inv, RowsOK, RowOK, DiskOK
<1>6. OverOK'
  BY <1>2, <1>3 DEF OverOK
<1> QED
  BY <1>2, <1>4, <1>5, <1>6 DEF Inv

\* The tasks in whose place the others stand stay as they are.
LEMMA OneJob ==
    ASSUME Inv, NEW t \in Tasks, NEW j \in Job, job' = [job EXCEPT ![t] = j], UNCHANGED child,
           TaskOK(j, child[t]), cli' = cli, t \in cli.pending
    PROVE  /\ TasksOK' /\ job'[t] = j /\ job' \in [Tasks -> Job]
           /\ \A u \in Tasks : u # t => job'[u] = job[u]
<1>1. /\ job' \in [Tasks -> Job] /\ job'[t] = j
      /\ \A u \in Tasks : u # t => job'[u] = job[u]
  BY TaskIs
<1> QED
  BY <1>1 DEF Inv, TasksOK

LEMMA BeginKeeps ==
    ASSUME Inv, NEW t \in Tasks, Begin(t)
    PROVE  Inv'
<1>1. Running /\ Turn(t) /\ UNCHANGED <<child, older>> /\ t \in cli.pending /\ job[t].pc = "waiting"
  BY DEF Begin, Turn
<1>2. CASE Throw
  BY <1>1, <1>2, ThrowKeeps
<1>3. CASE Goto(t, "prepare") /\ disk' = [disk EXCEPT ![t] = NoSummary] /\ UNCHANGED <<cli, row>>
  <2>1. job[t] = Idle /\ child[t] = NoChild /\ TaskOK(job[t], child[t])
    BY <1>1, TaskIs DEF TaskOK
  <2>2. PICK j : Moves(t, j, "prepare", job[t].due, job[t].phase, job[t].outside, job[t].ok)
    BY <1>3, TaskIs, GotoIs DEF Pcs
  <2>3. /\ j \in Job /\ j.pc = "prepare" /\ j.due = 0 /\ j.phase = "initial" /\ j.outside = FALSE
        /\ j.ok = FALSE /\ job' = [job EXCEPT ![t] = j]
    BY <2>1, <2>2 DEF Moves, Idle
  <2>4. TaskOK(j, child[t])
    BY <2>1, <2>3 DEF TaskOK, NoChild, Up, Child
  <2>5. /\ TasksOK' /\ job'[t] = j /\ job' \in [Tasks -> Job]
        /\ \A u \in Tasks : u # t => job'[u] = job[u]
    BY <1>1, <1>3, <2>3, <2>4, OneJob
  <2>6. /\ disk' \in [Tasks -> Summary] /\ disk'[t].stream = 0
        /\ \A u \in Tasks : u # t => disk'[u] = disk[u]
    <3>1. NoSummary \in Summary /\ NoSummary.stream = 0
      BY OrderIs DEF NoSummary, Summary
    <3> QED
      BY <1>3, <3>1 DEF Inv, RowsOK
  <2>7. CliOK' /\ OlderOK' /\ cli.state = "running" /\ ~Over'
    BY <1>1, <1>3 DEF Inv, CliOK, OlderOK, Running, Over
  <2>8. \A u \in Tasks : Ok(u) => Ok(u)'
    BY <1>1, <2>5 DEF Ok
  <2>9. TurnsOK'
    <3> SUFFICES ASSUME NEW v \in Tasks, NEW u \in cli.pending, ~cli.parallel,
                        job'[v].pc # "waiting", Before(u, v)
                 PROVE  Ok(u)
      BY <1>3, <2>8, CliIs DEF TurnsOK, Before
    <3>1. CASE v # t
      BY <2>5, <3>1 DEF Inv, TurnsOK
    <3>2. CASE v = t
      BY <1>1, <3>2 DEF Turn, Group
    <3> QED
      BY <3>1, <3>2
  <2>10. ASSUME NEW u \in Tasks PROVE (RowOK(u) /\ DiskOK(u))'
    <3>1. RowOK(u) /\ DiskOK(u)
      BY DEF Inv, RowsOK
    <3>2. CASE u = t
      BY <1>1, <1>3, <2>3, <2>5, <2>6, <2>7, <3>1, <3>2 DEF RowOK, DiskOK
    <3>3. CASE u # t
      BY <1>3, <2>5, <2>6, <2>7, <3>1, <3>3 DEF RowOK, DiskOK
    <3> QED
      BY <3>2, <3>3
  <2>11. RowsOK' /\ OverOK'
    BY <1>3, <2>6, <2>7, <2>10 DEF Inv, RowsOK, OverOK, Over
  <2> QED
    BY <2>5, <2>7, <2>9, <2>11 DEF Inv
<1> QED
  BY <1>2, <1>3 DEF Begin

LEMMA FinalizeKeeps ==
    ASSUME Inv, NEW t \in Tasks, Finalize(t)
    PROVE  Inv'
<1>1. Running /\ job[t].pc = "close" /\ UNCHANGED <<child, older>>
  BY DEF Finalize
<1>2. CASE Throw
  BY <1>1, <1>2, ThrowKeeps
<1>3. CASE /\ disk' = [disk EXCEPT ![t] = [run |-> cli.count, ok |-> job[t].ok,
                                           whole |-> job[t].due = 0, stream |-> @.stream]]
           /\ row' = Finish(t) /\ Goto(t, "ended") /\ UNCHANGED cli
  <2>1. TaskOK(job[t], child[t]) /\ t \in cli.pending /\ job[t] \in Job
    BY <1>1, TaskIs DEF Inv, TasksOK
  <2>2. PICK j : Moves(t, j, "ended", job[t].due, job[t].phase, job[t].outside, job[t].ok)
    BY <1>3, TaskIs, GotoIs DEF Pcs
  <2>3. /\ j \in Job /\ j.pc = "ended" /\ j.ok = job[t].ok /\ j.outside = job[t].outside
        /\ job' = [job EXCEPT ![t] = j]
    BY <2>2 DEF Moves
  <2>4. TaskOK(j, child[t])
    BY <1>1, <2>1, <2>2 DEF TaskOK, Moves, Between
  <2>5. /\ TasksOK' /\ job'[t] = j /\ job' \in [Tasks -> Job]
        /\ \A u \in Tasks : u # t => job'[u] = job[u]
    BY <1>1, <1>3, <2>1, <2>3, <2>4, OneJob
  <2>6. PICK s : s = [run |-> cli.count, ok |-> job[t].ok, whole |-> job[t].due = 0,
                      stream |-> disk[t].stream]
    OBVIOUS
  <2>7. disk[t] \in Summary /\ cli.count \in 0..MaxRuns /\ job[t].ok \in BOOLEAN
    BY <2>1, CliIs DEF Inv, RowsOK, Job
  <2>8. /\ s \in Summary /\ s.run = cli.count /\ s.ok = job[t].ok /\ s.stream = disk[t].stream
        /\ job[t].due = 0 => s.whole
    BY <2>6, <2>7 DEF Summary
  <2>9. /\ disk' \in [Tasks -> Summary] /\ disk'[t] = s
        /\ \A u \in Tasks : u # t => disk'[u] = disk[u]
    BY <1>3, <2>6, <2>8 DEF Inv, RowsOK
  <2>10. CliOK' /\ OlderOK' /\ cli.state = "running" /\ ~Over'
    BY <1>1, <1>3 DEF Inv, CliOK, OlderOK, Running, Over
  <2>11. \A u \in Tasks : Ok(u) => Ok(u)'
    BY <1>1, <2>5 DEF Ok
  <2>12. TurnsOK'
    <3> SUFFICES ASSUME NEW v \in Tasks, NEW u \in cli.pending, ~cli.parallel,
                        job'[v].pc # "waiting", Before(u, v)
                 PROVE  Ok(u)
      BY <1>3, <2>11, CliIs DEF TurnsOK, Before
    <3>1. job[v].pc # "waiting"
      BY <1>1, <2>5
    <3> QED
      BY <3>1 DEF Inv, TurnsOK
  <2>13. row[t] = "spinning" /\ disk[t].stream \in {0, cli.count}
         /\ (job[t].ok /\ ~job[t].outside => job[t].due = 0)
    BY <1>1, <2>1, <2>10 DEF Inv, RowsOK, RowOK, DiskOK, TaskOK
  <2>14. /\ row' \in [Tasks -> {"none", "spinning", "done", "failed", "skipped"}]
         /\ row'[t] = IF job[t].ok THEN "done" ELSE "failed"
         /\ \A u \in Tasks : u # t => row'[u] = row[u]
    BY <1>3, <2>13 DEF Finish, Inv, RowsOK
  <2>15. ASSUME NEW u \in Tasks PROVE (RowOK(u) /\ DiskOK(u))'
    <3>1. RowOK(u) /\ DiskOK(u)
      BY DEF Inv, RowsOK
    <3>2. CASE u = t
      <4>1. RowOK(t)'
        BY <1>3, <2>3, <2>5, <2>10, <2>14 DEF RowOK
      <4>2. DiskOK(t)'
        BY <1>3, <2>3, <2>5, <2>8, <2>9, <2>10, <2>13 DEF DiskOK
      <4> QED
        BY <3>2, <4>1, <4>2
    <3>3. CASE u # t
      BY <1>3, <2>5, <2>9, <2>10, <2>14, <3>1, <3>3 DEF RowOK, DiskOK
    <3> QED
      BY <3>2, <3>3
  <2>16. RowsOK' /\ OverOK'
    BY <1>3, <2>9, <2>10, <2>14, <2>15 DEF RowsOK, OverOK, Over
  <2> QED
    BY <2>5, <2>10, <2>12, <2>16 DEF Inv
<1> QED
  BY <1>2, <1>3 DEF Finalize

-----------------------------------------------------------------------------
(* The start and the end of the program.                                   *)

LEMMA IdleIs == TaskOK(Idle, NoChild) /\ Idle \in Job /\ NoChild \in Child
                /\ Idle.pc = "waiting"
<1>1. /\ Idle \in Job /\ Idle.pc = "waiting" /\ Idle.phase = "initial" /\ Idle.ok = FALSE
      /\ Idle.due = 0 /\ Idle.outside = FALSE
  BY DEF Idle, Job, Pcs, Phases
<1>2. NoChild \in Child /\ NoChild.state = "none" /\ NoChild.answer = "pending"
  BY DEF NoChild, Child
<1> QED
  BY <1>1, <1>2 DEF TaskOK, Up, Between

\* A run begins, or is over before anything has run.
LEMMA StartKeeps ==
    ASSUME Inv, ParseArgs \/ LoadFeature \/ DryRun \/ Start
    PROVE  Inv'
<1>1. /\ job' = [t \in Tasks |-> Idle] /\ child' = [t \in Tasks |-> NoChild] /\ older' = {}
      /\ disk' = disk
  BY DEF ParseArgs, LoadFeature, DryRun, Start, ExitsEarly
<1>2. PICK T \in SUBSET Tasks :
        /\ row' = Rows(T)
        /\ \/ cli'.state = "exited" /\ cli'.report = "none"
           \/ cli'.state = "running" /\ cli'.report = "none" /\ cli'.pending = T
  <2>1. ASSUME NEW code, ExitsEarly(code)
        PROVE  cli'.state = "exited" /\ cli'.report = "none" /\ row' = Rows({})
    BY <2>1 DEF ExitsEarly, Rows
  <2>2. CASE Start
    <3>1. PICK p \in BOOLEAN, T \in SUBSET Tasks :
            /\ cli' = [state |-> "running", count |-> cli.count + 1, parallel |-> p,
                       pending |-> T, code |-> 0, report |-> "none"]
            /\ row' = Rows(T)
      BY <2>2 DEF Start
    <3> QED
      BY <3>1
  <2>3. {} \in SUBSET Tasks
    OBVIOUS
  <2> QED
    BY <2>1, <2>2, <2>3 DEF ParseArgs, LoadFeature, DryRun
<1>3. CliOK'
  <2>1. CanStart
    BY DEF ParseArgs, LoadFeature, DryRun, Start
  <2>2. cli.count + 1 \in 0..MaxRuns /\ cli.count + 1 # 0
    BY <2>1, CliIs, OrderIs DEF CanStart
  <2>3. ASSUME NEW code \in 0..2, ExitsEarly(code) PROVE CliOK'
    BY <2>2, <2>3 DEF ExitsEarly, CliOK
  <2>4. CASE Start
    BY <2>2, <2>4 DEF Start, CliOK
  <2> QED
    BY <2>3, <2>4 DEF ParseArgs, LoadFeature, DryRun
<1>4. /\ job' \in [Tasks -> Job] /\ child' \in [Tasks -> Child]
      /\ \A t \in Tasks : job'[t] = Idle /\ child'[t] = NoChild /\ job'[t].pc = "waiting"
  BY <1>1, IdleIs
<1>5. TasksOK' /\ OlderOK' /\ TurnsOK'
  BY <1>1, <1>4, IdleIs DEF TasksOK, OlderOK, TurnsOK
<1>6. ~Over'
  BY <1>2 DEF Over
<1>7. ASSUME NEW t \in Tasks PROVE RowOK(t)' /\ DiskOK(t)'
  <2>1. row'[t] = IF t \in T THEN "spinning" ELSE "none"
    BY <1>2 DEF Rows
  <2> QED
    BY <1>2, <1>4, <1>6, <2>1 DEF RowOK, DiskOK
<1>8. RowsOK' /\ OverOK'
  <2>1. row' \in [Tasks -> {"none", "spinning", "done", "failed", "skipped"}]
    BY <1>2 DEF Rows
  <2> QED
    BY <1>1, <1>2, <1>6, <1>7, <2>1 DEF Inv, RowsOK, OverOK
<1> QED
  BY <1>3, <1>5, <1>8 DEF Inv

\* With no failure, a task whose turn it is not waits for nobody.
LEMMA NothingLeft ==
    ASSUME Inv, Running, \A t \in Tasks : job[t].pc \in {"waiting", "ended"} /\ ~Turn(t), ~Failed
    PROVE  \A t \in cli.pending : Ok(t)
<1> DEFINE S == {t \in cli.pending : job[t].pc = "waiting"}
<1>1. cli.pending \subseteq Tasks
  BY CliIs
<1>2. \A t \in cli.pending : t \in S \/ Ok(t)
  BY <1>1 DEF Failed, Ok
<1>3. ASSUME S # {} PROVE FALSE
  <2>1. S \in SUBSET Tasks
    BY <1>1
  <2>2. \A t \in S : t \notin Group
    BY <1>1 DEF Turn
  <2>3. \A u \in Group : Ok(u)
    BY <1>2, <2>2 DEF Group
  <2>4. PICK t \in S : \A u \in S : ~Before(u, t)
    <3> HIDE DEF S
    <3> QED
      BY <1>3, <2>1, FirstIs
  <2>5. \A u \in cli.pending \ Group : Before(u, t) => Ok(u)
    BY <1>2, <2>4
  <2>6. Turn(t)
    BY <2>3, <2>5 DEF Turn
  <2> QED
    BY <1>1, <2>6
<1> QED
  BY <1>2, <1>3

LEMMA RunEndsKeeps ==
    ASSUME Inv, RunEnds
    PROVE  Inv'
<1>1. /\ Running /\ UNCHANGED <<job, child, older, disk>> /\ row' = Skipped
      /\ \A t \in Tasks : job[t].pc \in {"waiting", "ended"} /\ ~Turn(t)
      /\ cli' = [cli EXCEPT !.state = "report"]
  BY DEF RunEnds
<1>2. /\ CliOK' /\ cli'.state = "report" /\ cli'.pending = cli.pending /\ cli'.count = cli.count
      /\ cli'.parallel = cli.parallel /\ cli.state = "running"
  BY <1>1 DEF Inv, CliOK, Running
<1>3. (TasksOK /\ OlderOK /\ TurnsOK)'
  BY <1>1, <1>2 DEF Inv, TasksOK, OlderOK, TurnsOK, Ok, Before
<1>4. ASSUME NEW t \in Tasks PROVE RowOK(t)' /\ DiskOK(t)'
  <2>1. RowOK(t) /\ DiskOK(t)
    BY DEF Inv, RowsOK
  <2>2. row'[t] = IF row[t] = "spinning" THEN "skipped" ELSE row[t]
    BY <1>1, SkippedIs
  <2> QED
    BY <1>1, <1>2, <2>1, <2>2 DEF RowOK, DiskOK
<1>5. RowsOK'
  BY <1>1, <1>4, SkippedIs DEF Inv, RowsOK
<1>6. OverOK'
  <2>1. Failed \/ \A t \in cli.pending : Ok(t)
    BY <1>1, NothingLeft
  <2> QED
    BY <1>1, <1>2, <2>1 DEF OverOK, Failed, Ok
<1> QED
  BY <1>2, <1>3, <1>5, <1>6 DEF Inv

LEMMA ReportKeeps ==
    ASSUME Inv, Report
    PROVE  Inv'
<1>1. cli.state = "report" /\ UNCHANGED <<row, job, child, older, disk>>
  BY DEF Report
<1>2. PICK r \in {"printed", "failed"} :
         cli' = [cli EXCEPT !.state = "exited", !.report = r,
                   !.code = IF \E t \in Tasks : job[t].pc = "ended" /\ ~job[t].ok THEN 1 ELSE 0]
  BY DEF Report
<1>3. PICK code : code = IF Failed THEN 1 ELSE 0
  OBVIOUS
<1>4. cli' = [cli EXCEPT !.state = "exited", !.report = r, !.code = code] /\ code \in 0..2
  BY <1>2, <1>3 DEF Failed
<1>5. /\ CliOK' /\ cli'.state = "exited" /\ cli'.report = r /\ cli'.code = code
      /\ cli'.pending = cli.pending /\ cli'.count = cli.count /\ cli'.parallel = cli.parallel
  BY <1>1, <1>4 DEF Inv, CliOK
<1>6. Over /\ Over'
  BY <1>1, <1>5 DEF Over
<1>7. (TasksOK /\ OlderOK /\ TurnsOK)'
  BY <1>1, <1>5 DEF Inv, TasksOK, OlderOK, TurnsOK, Ok, Before
<1>8. RowsOK'
  BY <1>1, <1>5, <1>6 DEF Inv, RowsOK, RowOK, DiskOK
<1>9. OverOK'
  BY <1>1, <1>3, <1>5, <1>6 DEF Inv, OverOK, Failed, Ok
<1> QED
  BY <1>5, <1>7, <1>8, <1>9 DEF Inv

LEMMA InvInit == Init => Inv
<1> SUFFICES ASSUME Init PROVE Inv
  OBVIOUS
<1>1. CliOK /\ cli.state = "off"
  BY OrderIs DEF Init, CliOK
<1>2. /\ job \in [Tasks -> Job] /\ child \in [Tasks -> Child]
      /\ \A t \in Tasks : job[t] = Idle /\ child[t] = NoChild /\ job[t].pc = "waiting"
  BY IdleIs DEF Init
<1>3. TasksOK /\ OlderOK /\ TurnsOK
  BY <1>2, IdleIs DEF Init, TasksOK, OlderOK, TurnsOK
<1>4. NoSummary \in Summary
  BY OrderIs DEF NoSummary, Summary
<1>5. row \in [Tasks -> {"none", "spinning", "done", "failed", "skipped"}] /\ disk \in [Tasks -> Summary]
  BY <1>4 DEF Init
<1>6. RowsOK /\ OverOK
  BY <1>1, <1>5 DEF RowsOK, RowOK, DiskOK, OverOK, Over
<1> QED
  BY <1>1, <1>3, <1>6 DEF Inv

LEMMA InvStep == Inv /\ [Next]_vars => Inv'
<1> SUFFICES ASSUME Inv, [Next]_vars PROVE Inv'
  OBVIOUS
<1>1. CASE UNCHANGED vars
  BY <1>1 DEF vars, Inv, CliOK, TasksOK, OlderOK, TurnsOK, RowsOK, RowOK, DiskOK, OverOK, Over,
              Ok, Failed, Before
<1>2. CASE ParseArgs \/ LoadFeature \/ DryRun \/ Start \/ OlderCloses \/ RunEnds \/ Report
  BY <1>2, StartKeeps, OlderClosesKeeps, RunEndsKeeps, ReportKeeps
<1>3. ASSUME NEW t \in Tasks, ResultEvent(t) \/ Close(t) \/ Timeout(t) \/ SpawnError(t) PROVE Inv'
  BY <1>3, ResultEventKeeps, SubprocessKeeps
<1>4. ASSUME NEW t \in Tasks, Work(t) PROVE Inv'
  BY <1>4, BeginKeeps, PrepareKeeps, RoundKeeps, InitialAnswerKeeps, RalphAnswerKeeps,
     OrphanAnswerKeeps, VerifyKeeps, GateKeeps, CheckOrphansKeeps, FinalizeKeeps DEF Work
<1> QED
  BY <1>1, <1>2, <1>3, <1>4 DEF Next

\* The strengthening holds in every reachable state of the program.
THEOREM InvHolds == Spec => []Inv
  BY InvInit, InvStep, PTL DEF Spec

-----------------------------------------------------------------------------
(* The theorems.                                                           *)

\* Every state of the program, its tasks and its archive has its type.
THEOREM LiveTypesHold == Spec => []TypeOK
<1>1. Inv => TypeOK
  BY DEF Inv, CliOK, TasksOK, OlderOK, RowsOK, TypeOK, Job, Child, Summary, Pcs, Phases
<1> QED
  BY <1>1, InvHolds, PTL

\* The rows and the exit code tell what became of the tasks, and no call is left.
THEOREM ExitsAreOrderly == Spec => []ExitIsOrderly
<1>1. ASSUME Inv, cli.state = "exited", cli.report # "none" PROVE ExitIsOrderly
  <2>1. Over /\ cli.pending \subseteq Tasks
    BY <1>1, CliIs DEF Over
  <2>2. ASSUME NEW t \in Tasks, child[t].answer = "pending" PROVE child[t].state = "none"
    BY <1>1, <2>1, <2>2, TaskIs DEF TaskOK, Inv, OverOK
  <2>3. ASSUME NEW t \in cli.pending
        PROVE row[t] = IF Ok(t) THEN "done" ELSE IF job[t].pc = "ended" THEN "failed" ELSE "skipped"
    <3>1. RowOK(t)
      BY <1>1, <2>1 DEF Inv, RowsOK
    <3> QED
      BY <2>1, <3>1 DEF RowOK, Ok
  <2>4. cli.code = 0 <=> \A t \in cli.pending : Ok(t)
    <3>1. cli.code = IF Failed THEN 1 ELSE 0
      BY <1>1 DEF Inv, OverOK
    <3>2. Failed \/ \A t \in cli.pending : Ok(t)
      BY <1>1, <2>1 DEF Inv, OverOK
    <3>3. \A t \in Tasks : job[t].pc = "ended" => t \in cli.pending
      BY <1>1 DEF Inv, TasksOK
    <3> QED
      BY <3>1, <3>2, <3>3 DEF Failed, Ok
  <2> QED
    BY <2>2, <2>3, <2>4 DEF ExitIsOrderly
<1>2. Inv => ExitIsOrderly
  BY <1>1 DEF ExitIsOrderly
<1> QED
  BY <1>2, InvHolds, PTL

\* The report is of this run, its failures are those of the exit code, and it counts
\* the cost of every call of a task that succeeded without a question about orphans.
THEOREM ReportsAreTrue == Spec => []ReportIsTrue
<1>1. ASSUME Inv, cli.state = "exited", cli.report = "printed" PROVE ReportIsTrue
  <2>1. Over /\ cli.count # 0 /\ cli.code = IF Failed THEN 1 ELSE 0
    BY <1>1, CliIs DEF Over, Inv, OverOK
  <2>2. ASSUME NEW t \in Tasks, job[t].pc = "ended"
        PROVE  /\ LoadTaskRow(t) = {disk[t]} /\ disk[t].run = cli.count /\ disk[t].ok = job[t].ok
               /\ disk[t].stream \in {0, cli.count}
               /\ job[t].ok /\ ~job[t].outside => disk[t].whole
    <3>1. DiskOK(t)
      BY <1>1 DEF Inv, RowsOK
    <3>2. /\ disk[t].run = cli.count /\ disk[t].ok = job[t].ok
          /\ disk[t].stream \in {0, cli.count}
          /\ job[t].ok /\ ~job[t].outside => disk[t].whole
      BY <2>1, <2>2, <3>1 DEF DiskOK
    <3>3. LoadTaskRow(t) = {disk[t]}
      BY <2>1, <2>2, <3>2 DEF LoadTaskRow
    <3> QED
      BY <3>2, <3>3
  <2>3. \A t \in Tasks : job[t].pc # "ended" => LoadTaskRow(t) = {}
    BY DEF LoadTaskRow
  <2>4. cli.code = 1 <=> FailCount > 0
    <3> DEFINE F == {t \in Tasks : \E s \in LoadTaskRow(t) : ~s.ok}
    <3>1. F # {} <=> Failed
      BY <2>2, <2>3 DEF Failed
    <3>2. IsFiniteSet(F)
      BY TasksFinite, FS_Subset
    <3>3. Cardinality(F) \in Nat /\ (Cardinality(F) = 0 <=> F = {})
      BY <3>2, FS_CardinalityType, FS_EmptySet
    <3>4. FailCount = Cardinality(F)
      BY DEF FailCount
    <3> HIDE DEF F
    <3> QED
      BY <2>1, <3>1, <3>3, <3>4
  <2> QED
    BY <2>2, <2>4 DEF ReportIsTrue
<1>2. Inv => ReportIsTrue
  BY <1>1 DEF ReportIsTrue
<1> QED
  BY <1>2, InvHolds, PTL

\* A claude process that may write never meets another one, of its task or, without
\* --parallel, of any.
THEOREM WritersAreAlone == Spec => []OneWriter
<1>1. ASSUME Inv, ~cli.parallel PROVE Cardinality({t \in Alive : child[t].writes}) <= 1
  <2> DEFINE W == {t \in Alive : child[t].writes}
  <2>1. ASSUME NEW t \in W PROVE t \in cli.pending /\ t \in Tasks /\ job[t].pc # "waiting" /\ ~Ok(t)
    <3>1. t \in Tasks /\ Up(child[t]) /\ child[t].writes /\ TaskOK(job[t], child[t])
      BY <1>1, <2>1, TaskIs DEF Alive, Up
    <3>2. job[t].pc # "waiting" /\ ~job[t].ok
      BY <3>1 DEF TaskOK, NoChild, Up
    <3> QED
      BY <1>1, <3>1, <3>2 DEF Inv, TasksOK, Ok
  <2>2. \A t, u \in W : t = u
    BY <1>1, <2>1, OrderTotal DEF Inv, TurnsOK
  <2>3. W = {} \/ \E t : W = {t}
    <3>1. CASE W # {}
      <4>1. PICK t : t \in W
        BY <3>1
      <4>2. W = {t}
        BY <2>2, <4>1
      <4> QED
        BY <4>2
    <3> QED
      BY <3>1
  <2>4. Cardinality(W) = 0 \/ Cardinality(W) = 1
    BY <2>3, FS_EmptySet, FS_Singleton
  <2> QED
    BY <2>4
<1>2. Inv => OneWriter
  BY <1>1 DEF Inv, OlderOK, OneWriter
<1> QED
  BY <1>2, InvHolds, PTL
=============================================================================
