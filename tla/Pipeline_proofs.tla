--------------------------- MODULE Pipeline_proofs ---------------------------
(***************************************************************************)
(* Proofs about Pipeline, for any number of pipelines of the thread.  They *)
(* do without Exists: a deleted thread leaves the rows of its pipelines as *)
(* they would have been.                                                   *)
(***************************************************************************)
EXTENDS Pipeline, TLAPS

(* The rows of a pipeline, whatever became of it.                          *)
Untouched(k, i) == stages[k][i] = "none" /\ runs[k][i] = "none"

InOrder(k) == \A i \in Indices \ {1} : stages[k][i] # "none" => stages[k][i - 1] = "completed"

Matches(k, i) ==
  /\ stages[k][i] = "completed" <=> runs[k][i] = "completed"
  /\ stages[k][i] = "timeout" => runs[k][i] = "timeout"
  /\ stages[k][i] = "failed" => runs[k][i] \in {"error", "none"}

Whole(k) == \A i \in 1..Len(StagesOf(command[k])) : stages[k][i] = "completed"

(* The stage whose child never started, behind a pipeline that ended.      *)
LeftRunning(k, i) ==
  /\ unstarted[k] # "no"
  /\ runs[k][i] \in {"running", "timeout"}
  /\ \A j \in Indices : j > i => stages[k][j] = "none"

RowsInv(k) ==
  /\ status[k] = "none" => \A i \in Indices : Untouched(k, i)
  /\ InOrder(k)
  /\ \A i \in Indices : Matches(k, i)
  /\ status[k] = "completed" => Whole(k)
  /\ unstarted[k] # "no" => status[k] \in {"failed", "cancelled"}
  /\ \A i \in Indices : stages[k][i] = "running" => status[k] = "running" \/ LeftRunning(k, i)

(* The rows of the pipeline that runs, by where it is: what is before its  *)
(* stage was completed, what is after it not begun.                        *)
Reached(k, n) ==
  \A i \in Indices : /\ i < n => stages[k][i] = "completed"
                     /\ i > n => Untouched(k, i)

RunnerInv ==
  /\ runner = 0 => pc \in {"none", "worktree"}
  /\ runner # 0 =>
       /\ pc \in {"next", "stage", "capture", "checkpoint", "final"}
       /\ status[runner] = IF pc = "checkpoint" THEN "waiting_checkpoint" ELSE "running"
       /\ command[runner] \in Commands /\ index \in 1..Len(StagesOf(command[runner]))
       /\ Reached(runner, index)
       /\ pc = "next" => Untouched(runner, index)
       /\ pc = "stage" => stages[runner][index] = "running" /\ runs[runner][index] \in {"running", "timeout"}
       /\ pc \notin {"next", "stage"} => stages[runner][index] = "completed"
       /\ pc \in {"capture", "checkpoint"} => command[runner] = "featdevelop" /\ index = 2
       /\ pc = "final" => index = Len(StagesOf(command[runner]))
       /\ pc = "next" /\ index = 3 => gate[runner] = "resolved" \/ ~pending

(* Pipelines begin in order, and the one that runs is the last.            *)
SequenceInv ==
  \A j, k \in Pipelines : j > k /\ (status[k] = "none" \/ runner = k) => status[j] = "none"

(* The state of the thread.  A thread that waits for its worktree has no   *)
(* pipeline yet; one that is stopped stays so, whatever the pipeline does. *)
ThreadInv ==
  /\ state = Unborn => pc = "none"
  /\ state = Unborn \/ pc = "worktree" => \A k \in Pipelines : status[k] = "none"
  /\ pc = "worktree" => state \in {"running", "cancelled", Deleted}
  /\ runner # 0 => state \in CancellableStates \cup {"cancelled", Deleted}
  /\ state \in CancellableStates => runner # 0 \/ pc = "worktree"
  /\ stopped => runner # 0 /\ state \in {"stopping", "cancelled", Deleted}
  /\ settled => runner # 0 /\ state \notin CancellableStates
  /\ deadline => runner # 0

IInv == TypeOK /\ (\A k \in Pipelines : RowsInv(k)) /\ RunnerInv /\ SequenceInv /\ ThreadInv

-----------------------------------------------------------------------------
(* What the table of the commands and the reducer give.                    *)

LEMMA StageFacts ==
  /\ Indices = 1..4
  /\ \A c \in Commands : Len(StagesOf(c)) = IF c = "featdevelop" THEN 4 ELSE 1
  /\ \A c \in Commands, i \in 1..4 :
       AfterStage(c, i) =
         IF c # "featdevelop" THEN "final"
         ELSE IF i = 2 THEN "capture" ELSE IF i < 4 THEN "next" ELSE "final"
<1>1. Len(FeatdevelopStages) = 4 /\ StagesOf("featdevelop") = FeatdevelopStages
  BY DEF FeatdevelopStages, StagesOf
<1>2. \A c \in Commands : Len(StagesOf(c)) = IF c = "featdevelop" THEN 4 ELSE 1
  BY <1>1 DEF StagesOf, Commands
<1>3. \A i \in 1..4 : FeatdevelopStages[i] = "implementer" <=> i = 2
  BY DEF FeatdevelopStages
<1>4. ASSUME NEW c \in Commands, NEW i \in 1..4
      PROVE  AfterStage(c, i) =
               IF c # "featdevelop" THEN "final"
               ELSE IF i = 2 THEN "capture" ELSE IF i < 4 THEN "next" ELSE "final"
  <2>1. CASE c = "featdevelop"
    BY <2>1, <1>1, <1>3 DEF AfterStage
  <2>2. CASE c # "featdevelop"
    <3>1. Len(StagesOf(c)) = 1 /\ ~(i < 1)
      BY <2>2, <1>2
    <3> QED BY <2>2, <3>1 DEF AfterStage
  <2> QED BY <2>1, <2>2
<1> QED BY <1>1, <1>2, <1>4 DEF Indices

LEMMA Reducer ==
  ASSUME NEW s \in ThreadStates \cup {Unborn, Deleted}, NEW e \in TurnEvents
  PROVE  /\ ApplyTransition(s, e) \in ThreadStates \cup {Unborn, Deleted}
         /\ s \notin ThreadStates => ApplyTransition(s, e) = s
         /\ s \in ThreadStates => ApplyTransition(s, e) \in ThreadStates
         /\ e \in {"cancel_settled", "turn_finished", "turn_failed"}
              => ApplyTransition(s, e) \notin CancellableStates
         /\ e \in {"diffs_settled", "diffs_committed"} /\ s \notin CancellableStates
              => ApplyTransition(s, e) \notin CancellableStates
         /\ e \in {"gate_opened_question", "gates_closed", "cancel_requested"}
              => /\ s \in CancellableStates => ApplyTransition(s, e) \in CancellableStates
                 /\ s \in {"cancelled", "stopping"} => ApplyTransition(s, e) = s
         /\ e = "cancel_requested" /\ s \in CancellableStates
              => ApplyTransition(s, e) = "stopping"
         /\ e = "cancel_settled" /\ s \in CancellableStates \cup {"cancelled"}
              => ApplyTransition(s, e) = "cancelled"
         /\ e = "turn_finished" /\ s \in {"stopping", "cancelled"}
              => ApplyTransition(s, e) = "cancelled"
<1>1. CASE s \in ThreadStates
  BY <1>1, PipelineAssumption
  DEF ApplyTransition, Legal, Target, TurnEvents, ThreadStates, LiveStates, SettledStates,
      CancellableStates
<1>2. CASE s \notin ThreadStates
  BY <1>2, PipelineAssumption
  DEF ApplyTransition, Legal, TurnEvents, ThreadStates, LiveStates, SettledStates,
      CancellableStates
<1> QED BY <1>1, <1>2

LEMMA States ==
  /\ CancellableStates \subseteq ThreadStates /\ "cancelled" \in ThreadStates
  /\ "cancelled" \notin CancellableStates /\ "running" \in CancellableStates
  /\ "interrupted" \in ThreadStates \ CancellableStates
  /\ {"idle", "error", "cancelled"} \subseteq ThreadStates \ CancellableStates
  /\ Unborn \notin ThreadStates /\ Deleted \notin ThreadStates /\ Unborn # Deleted
  /\ "stopping" \in CancellableStates
BY PipelineAssumption DEF CancellableStates, ThreadStates, LiveStates, SettledStates

-----------------------------------------------------------------------------
(* Frames.                                                                 *)

(* A pipeline none of whose rows is written keeps what is known of them.   *)
LEMMA RowsKept ==
  ASSUME NEW k \in Pipelines, RowsInv(k), status'[k] = status[k], stages'[k] = stages[k],
         runs'[k] = runs[k], command'[k] = command[k],
         unstarted'[k] = "no" <=> unstarted[k] = "no"
  PROVE  RowsInv(k)'
BY DEF RowsInv, Untouched, InOrder, Matches, Whole, LeftRunning

LEMMA ChildrenStarted ==
  ASSUME IInv, NEW k \in Pipelines, status[k] \notin {"failed", "cancelled"}
  PROVE  unstarted[k] = "no"
BY DEF IInv, RowsInv

(* The end of a pipeline, however it ends: its session is gone, the thread *)
(* is not busy, and no later pipeline had begun.                           *)
LEMMA Ends ==
  ASSUME IInv, runner # 0,
         NEW s \in PipelineStatus \ Active, NEW e \in {"cancel_settled", "turn_finished"},
         status' = [status EXCEPT ![runner] = s], Transition(e), EndSession
  PROVE  /\ RunnerInv' /\ SequenceInv' /\ ThreadInv'
         /\ state' \in ThreadStates \cup {Unborn, Deleted}
         /\ status' \in [Pipelines -> PipelineStatus \cup {"none"}]
         /\ runner' \in Pipelines \cup {0} /\ pc' = "none" /\ index' \in Indices \cup {0}
         /\ capped' \in BOOLEAN /\ stopped' \in BOOLEAN
         /\ settled' \in BOOLEAN /\ deadline' \in BOOLEAN
<1>1. runner \in Pipelines /\ status[runner] # "none" /\ s # "none"
  BY DEF IInv, TypeOK, RunnerInv, PipelineStatus
<1>2. /\ state \in ThreadStates \cup {Unborn, Deleted} /\ e \in TurnEvents
      /\ state' = ApplyTransition(state, e)
  BY DEF IInv, TypeOK, TurnEvents, Transition
<1>3. state' \in ThreadStates \cup {Unborn, Deleted} /\ state' \notin CancellableStates
  BY <1>2, Reducer
<1>4. state # Unborn
  BY <1>1, States DEF IInv, ThreadInv
<1>5. state' # Unborn
  BY <1>2, <1>4, Reducer, States
<1>6. RunnerInv' /\ ThreadInv'
  BY <1>3, <1>5 DEF EndSession, RunnerInv, ThreadInv
<1>7. SequenceInv'
  BY <1>1 DEF IInv, TypeOK, SequenceInv, EndSession, Pipelines
<1>8. status' \in [Pipelines -> PipelineStatus \cup {"none"}]
  BY <1>1 DEF IInv, TypeOK
<1> QED BY <1>3, <1>6, <1>7, <1>8 DEF EndSession

(* The catch block, with the stage it leaves.                              *)
LEMMA SettleEnds ==
  ASSUME IInv, runner # 0, NEW o \in {"failed", "timeout"}, Settle(o)
  PROVE  /\ RunnerInv' /\ SequenceInv' /\ ThreadInv'
         /\ state' \in ThreadStates \cup {Unborn, Deleted}
         /\ status' \in [Pipelines -> PipelineStatus \cup {"none"}]
         /\ runner' \in Pipelines \cup {0} /\ pc' = "none" /\ index' \in Indices \cup {0}
         /\ capped' \in BOOLEAN /\ stopped' \in BOOLEAN
         /\ settled' \in BOOLEAN /\ deadline' \in BOOLEAN
         /\ \A k \in Pipelines \ {runner} : status'[k] = status[k]
         /\ status'[runner] \in {"failed", "timeout", "cancelled"}
<1> DEFINE s == Outcome(o)
           e == IF s = "cancelled" THEN "cancel_settled" ELSE "turn_finished"
<1>1. /\ s \in PipelineStatus \ Active /\ s \in {"failed", "timeout", "cancelled"}
      /\ e \in {"cancel_settled", "turn_finished"}
  BY DEF Outcome, PipelineStatus, Active
<1>2. status' = [status EXCEPT ![runner] = s] /\ Transition(e) /\ EndSession
  BY DEF Settle
<1>3. \A k \in Pipelines \ {runner} : status'[k] = status[k]
  BY <1>2 DEF IInv, TypeOK
<1>4. status'[runner] = s
  BY <1>2 DEF IInv, TypeOK
<1> HIDE DEF s, e
<1> QED BY <1>1, <1>2, <1>3, <1>4, Ends

LEMMA CompleteEnds ==
  ASSUME IInv, runner # 0, Complete
  PROVE  /\ RunnerInv' /\ SequenceInv' /\ ThreadInv'
         /\ state' \in ThreadStates \cup {Unborn, Deleted}
         /\ status' \in [Pipelines -> PipelineStatus \cup {"none"}]
         /\ runner' \in Pipelines \cup {0} /\ pc' = "none" /\ index' \in Indices \cup {0}
         /\ capped' \in BOOLEAN /\ stopped' \in BOOLEAN
         /\ settled' \in BOOLEAN /\ deadline' \in BOOLEAN
         /\ \A k \in Pipelines \ {runner} : status'[k] = status[k]
         /\ status'[runner] = "completed"
<1>1. /\ "completed" \in PipelineStatus \ Active
      /\ "turn_finished" \in {"cancel_settled", "turn_finished"}
  BY DEF PipelineStatus, Active
<1>2. status' = [status EXCEPT ![runner] = "completed"] /\ Transition("turn_finished") /\ EndSession
  BY DEF Complete
<1>3. \A k \in Pipelines : status'[k] = IF k = runner THEN "completed" ELSE status[k]
  BY <1>2 DEF IInv, TypeOK
<1>4. runner \in Pipelines
  BY DEF IInv, TypeOK
<1> QED BY <1>1, <1>2, <1>3, <1>4, Ends

-----------------------------------------------------------------------------
(* Every step keeps the invariant, action by action.                       *)

LEMMA InitHolds == Init => IInv
<1> SUFFICES ASSUME Init PROVE IInv
  OBVIOUS
<1>1. TypeOK
  BY States, StageFacts
  DEF Init, TypeOK, ThreadStates, SettledStates, PipelineStatus, StageStatus, RunStatus
<1>2. ASSUME NEW k \in Pipelines PROVE RowsInv(k)
  BY <1>2, StageFacts DEF Init, RowsInv, Untouched, InOrder, Matches
<1>3. RunnerInv /\ SequenceInv
  BY DEF Init, RunnerInv, SequenceInv
<1>4. ThreadInv
  BY States DEF Init, ThreadInv
<1> QED BY <1>1, <1>2, <1>3, <1>4 DEF IInv

LEMMA StartStep == IInv /\ Start => IInv'
<1> SUFFICES ASSUME IInv, Start PROVE IInv'
  OBVIOUS
<1>1. CASE DispatchNewThread
  <2>1. TypeOK'
    BY <1>1, States DEF DispatchNewThread, IInv, TypeOK, InitialTurnState, rowVars, sessionVars
  <2>2. \A k \in Pipelines : RowsInv(k)'
    BY <1>1, RowsKept DEF DispatchNewThread, IInv, rowVars
  <2>3. RunnerInv' /\ SequenceInv'
    BY <1>1 DEF DispatchNewThread, IInv, RunnerInv, SequenceInv, rowVars
  <2>4. ThreadInv'
    BY <1>1, States, PipelineAssumption
    DEF DispatchNewThread, IInv, ThreadInv, RunnerInv, rowVars, sessionVars, InitialTurnState
  <2> QED BY <2>1, <2>2, <2>3, <2>4 DEF IInv
<1>2. CASE WorktreeFailed
  <2>1. /\ "turn_failed" \in TurnEvents /\ state' = ApplyTransition(state, "turn_failed")
        /\ state \in ThreadStates \cup {Unborn, Deleted}
    BY <1>2 DEF WorktreeFailed, Transition, TurnEvents, IInv, TypeOK
  <2>2. state' \in ThreadStates \cup {Unborn, Deleted} /\ state' \notin CancellableStates
    BY <2>1, Reducer
  <2>3. TypeOK'
    BY <1>2, <2>2 DEF WorktreeFailed, IInv, TypeOK, rowVars, sessionVars
  <2>4. \A k \in Pipelines : RowsInv(k)'
    BY <1>2, RowsKept DEF WorktreeFailed, IInv, rowVars
  <2>5. runner = 0
    BY <1>2 DEF WorktreeFailed, IInv, RunnerInv
  <2>6. RunnerInv' /\ SequenceInv'
    BY <1>2, <2>5 DEF WorktreeFailed, IInv, RunnerInv, SequenceInv, rowVars
  <2>7. ThreadInv'
    BY <1>2, <2>2, <2>5 DEF WorktreeFailed, IInv, ThreadInv, rowVars, sessionVars
  <2> QED BY <2>3, <2>4, <2>6, <2>7 DEF IInv
<1>3. ASSUME NEW c \in Commands, StartPipeline(c), runner = 0,
             state' \in CancellableStates \cup {"cancelled"}
      PROVE  IInv'
  <2>1. PICK k \in Pipelines :
          /\ status[k] = "none" /\ (k > 1 => status[k - 1] # "none")
          /\ runner' = k
          /\ command' = [command EXCEPT ![k] = c]
          /\ status' = [status EXCEPT ![k] = "running"]
    BY <1>3 DEF StartPipeline
  <2>2. /\ pc' = "next" /\ index' = 1 /\ capped' = FALSE
        /\ stopped' = FALSE /\ settled' = FALSE /\ deadline' = FALSE
        /\ UNCHANGED <<pending, stages, runs, unstarted, gate>>
    BY <1>3 DEF StartPipeline
  <2>3. TypeOK'
    <3>1. /\ command' \in [Pipelines -> Commands \cup {"none"}]
          /\ status' \in [Pipelines -> PipelineStatus \cup {"none"}]
      BY <2>1 DEF IInv, TypeOK, PipelineStatus, Active
    <3>2. state' \in ThreadStates /\ index' \in Indices /\ runner' \in Pipelines
      BY <1>3, <2>1, <2>2, States, StageFacts
    <3> QED BY <2>2, <3>1, <3>2 DEF IInv, TypeOK
  <2>4. \A i \in Indices : Untouched(k, i)
    BY <2>1 DEF IInv, RowsInv
  <2>5. /\ command'[k] = c /\ status'[k] = "running" /\ k # 0
        /\ \A j \in Pipelines \ {k} : command'[j] = command[j] /\ status'[j] = status[j]
    BY <2>1 DEF IInv, TypeOK, Pipelines
  <2>6. ASSUME NEW j \in Pipelines PROVE RowsInv(j)'
    <3>1. CASE j = k
      BY <3>1, <2>1, <2>2, <2>4, <2>5, StageFacts, ChildrenStarted
      DEF RowsInv, Untouched, InOrder, Matches
    <3>2. CASE j # k
      BY <3>2, <2>2, <2>5, RowsKept DEF IInv
    <3> QED BY <3>1, <3>2
  <2>7. RunnerInv'
    <3>1. /\ command'[runner'] = c /\ status'[runner'] = "running" /\ index' = 1
          /\ \A i \in Indices : stages'[runner'][i] = "none" /\ runs'[runner'][i] = "none"
      BY <2>1, <2>2, <2>4, <2>5 DEF Untouched
    <3>2. index' \in 1..Len(StagesOf(command'[runner'])) /\ 1 \in Indices
      <4>1. Len(StagesOf(c)) \in {1, 4}
        BY StageFacts
      <4>2. 1 \in 1..Len(StagesOf(c))
        BY <4>1
      <4> QED BY <3>1, <4>2, StageFacts
    <3> QED BY <2>2, <2>5, <2>1, <3>1, <3>2, StageFacts DEF RunnerInv, Reached, Untouched
  <2>8. SequenceInv'
    <3> SUFFICES ASSUME NEW j \in Pipelines, NEW l \in Pipelines, j > l,
                        status'[l] = "none" \/ runner' = l
                 PROVE  status'[j] = "none"
      BY DEF SequenceInv
    <3> USE PipelineAssumption DEF Pipelines
    <3>1. CASE l = k
      BY <3>1, <2>1, <2>5 DEF IInv, SequenceInv
    <3>2. CASE l # k
      <4>1. status[l] = "none"
        BY <3>2, <2>1, <2>5
      <4>2. \A m \in Pipelines : m > l => status[m] = "none"
        BY <4>1 DEF IInv, SequenceInv
      <4>3. j # k
        <5> SUFFICES ASSUME j = k PROVE FALSE
          OBVIOUS
        <5>1. k > 1 /\ k - 1 \in Pipelines /\ (k - 1 = l \/ k - 1 > l)
          OBVIOUS
        <5> QED BY <5>1, <4>1, <4>2, <2>1
      <4> QED BY <4>2, <4>3, <2>5
    <3> QED BY <3>1, <3>2
  <2>9. ThreadInv'
    BY <1>3, <2>1, <2>2, <2>5, States DEF ThreadInv
  <2> QED BY <2>3, <2>6, <2>7, <2>8, <2>9 DEF IInv
<1>4. ASSUME NEW c \in Commands, WorktreeReady(c) PROVE IInv'
  <2>1. runner = 0 /\ state \in CancellableStates \cup {"cancelled"}
    BY <1>4, States DEF WorktreeReady, IInv, RunnerInv, ThreadInv, Exists
  <2> QED BY <1>3, <1>4, <2>1 DEF WorktreeReady
<1>5. ASSUME NEW c \in Commands, DispatchFollowUp(c) PROVE IInv'
  <2>1. runner = 0
    BY <1>5 DEF DispatchFollowUp, IInv, RunnerInv
  <2>2. state' = "running"
    BY <1>5 DEF DispatchFollowUp, Transition, ApplyTransition, Target
  <2> QED BY <1>3, <1>5, <2>1, <2>2, States DEF DispatchFollowUp
<1> QED BY <1>1, <1>2, <1>4, <1>5 DEF Start

(* Between two pipelines.                                                  *)
LEMMA BetweenStep == IInv /\ (OtherTurn \/ ReviewDiffs) => IInv'
<1> SUFFICES ASSUME IInv, OtherTurn \/ ReviewDiffs PROVE IInv'
  OBVIOUS
<1>1. runner = 0 /\ pc = "none" /\ Exists /\ UNCHANGED <<rowVars, runVars, sessionVars>>
  BY DEF OtherTurn, ReviewDiffs, IInv, RunnerInv
<1>2. pending' \in BOOLEAN
  BY DEF OtherTurn, ReviewDiffs, IInv, TypeOK
<1>3. state' \in ThreadStates \ CancellableStates
  <2>1. CASE OtherTurn
    BY <2>1, States DEF OtherTurn
  <2>2. ASSUME NEW e \in {"diffs_settled", "diffs_committed"}, Transition(e), ReviewDiffs
        PROVE  state' \in ThreadStates \ CancellableStates
    <3>1. state \in ThreadStates \ CancellableStates /\ e \in TurnEvents
      BY <1>1 DEF Exists, IInv, ThreadInv, TurnEvents
    <3> QED BY <2>2, <3>1, Reducer DEF Transition
  <2> QED BY <2>1, <2>2 DEF ReviewDiffs
<1>4. TypeOK'
  BY <1>1, <1>2, <1>3 DEF IInv, TypeOK, rowVars, runVars, sessionVars
<1>5. \A k \in Pipelines : RowsInv(k)'
  BY <1>1, RowsKept DEF IInv, rowVars
<1>6. RunnerInv' /\ SequenceInv'
  BY <1>1 DEF IInv, RunnerInv, SequenceInv, rowVars, runVars
<1>7. ThreadInv'
  BY <1>1, <1>3, States DEF IInv, ThreadInv, rowVars, runVars, sessionVars
<1> QED BY <1>4, <1>5, <1>6, <1>7 DEF IInv

LEMMA LoopHeadStep == IInv /\ LoopHead => IInv'
<1> SUFFICES ASSUME IInv, LoopHead PROVE IInv'
  OBVIOUS
<1>1. /\ pc = "next" /\ runner # 0 /\ runner \in Pipelines /\ index \in Indices
      /\ status[runner] = "running" /\ Reached(runner, index) /\ Untouched(runner, index)
  BY StageFacts
  DEF LoopHead, BeginStage, StageRefused, StageThrows, HardCapBetweenStages, IInv, TypeOK, RunnerInv
<1>2. CASE BeginStage
  <2>1. /\ stages' = [stages EXCEPT ![runner][index] = "running"]
        /\ runs' = [runs EXCEPT ![runner][index] = "running"]
        /\ pc' = "stage"
        /\ UNCHANGED <<state, pending, command, status, unstarted, gate, runner, index, capped,
                        sessionVars>>
    BY <1>2 DEF BeginStage
  <2>2. TypeOK'
    BY <1>1, <2>1 DEF IInv, TypeOK, StageStatus, RunStatus, sessionVars
  <2>3. /\ stages'[runner][index] = "running" /\ runs'[runner][index] = "running"
        /\ \A i \in Indices \ {index} :
             stages'[runner][i] = stages[runner][i] /\ runs'[runner][i] = runs[runner][i]
        /\ \A k \in Pipelines \ {runner} : stages'[k] = stages[k] /\ runs'[k] = runs[k]
    BY <1>1, <2>1 DEF IInv, TypeOK
  <2>4. ASSUME NEW k \in Pipelines PROVE RowsInv(k)'
    <3>1. CASE k = runner
      BY <3>1, <1>1, <2>1, <2>3, StageFacts
      DEF IInv, RowsInv, Untouched, InOrder, Matches, Reached
    <3>2. CASE k # runner
      BY <3>2, <2>1, <2>3, RowsKept DEF IInv
    <3> QED BY <3>1, <3>2
  <2>5. RunnerInv'
    BY <1>1, <2>1, <2>3, StageFacts DEF IInv, RunnerInv, Reached, Untouched
  <2>6. SequenceInv' /\ ThreadInv'
    BY <1>1, <2>1 DEF IInv, SequenceInv, ThreadInv, sessionVars
  <2> QED BY <2>2, <2>4, <2>5, <2>6 DEF IInv
<1>3. ASSUME NEW o \in {"failed", "timeout"}, Settle(o),
             stages' = stages \/ stages' = [stages EXCEPT ![runner][index] = "failed"],
             UNCHANGED <<pending, command, runs, unstarted, gate>>
      PROVE  IInv'
  <2>1. /\ RunnerInv' /\ SequenceInv' /\ ThreadInv'
        /\ \A k \in Pipelines \ {runner} : status'[k] = status[k]
        /\ status'[runner] \in {"failed", "timeout", "cancelled"}
    BY <1>1, <1>3, SettleEnds
  <2>2. stages' \in [Pipelines -> [Indices -> StageStatus \cup {"none"}]]
    <3>1. stages \in [Pipelines -> [Indices -> StageStatus \cup {"none"}]]
      BY DEF IInv, TypeOK
    <3>2. [stages EXCEPT ![runner][index] = "failed"]
            \in [Pipelines -> [Indices -> StageStatus \cup {"none"}]]
      BY <1>1, <3>1 DEF StageStatus
    <3> QED BY <1>3, <3>1, <3>2
  <2>3. TypeOK'
    BY <1>1, <1>3, <2>2, SettleEnds DEF IInv, TypeOK
  <2>4. /\ \A k \in Pipelines \ {runner} : stages'[k] = stages[k]
        /\ \A i \in Indices \ {index} : stages'[runner][i] = stages[runner][i]
        /\ stages'[runner][index] \in {"none", "failed"}
    BY <1>1, <1>3 DEF IInv, TypeOK, Untouched
  <2>5. ASSUME NEW k \in Pipelines PROVE RowsInv(k)'
    <3>1. CASE k = runner
      BY <3>1, <1>1, <1>3, <2>1, <2>4, StageFacts
      DEF IInv, RowsInv, Untouched, InOrder, Matches, Reached
    <3>2. CASE k # runner
      BY <3>2, <1>3, <2>1, <2>4, RowsKept DEF IInv
    <3> QED BY <3>1, <3>2
  <2> QED BY <2>1, <2>3, <2>5 DEF IInv
<1>4. CASE StageRefused
  BY <1>3, <1>4 DEF StageRefused
<1>5. CASE HardCapBetweenStages
  BY <1>3, <1>5 DEF HardCapBetweenStages
<1>6. CASE StageThrows
  <2>1. /\ stages' = [stages EXCEPT ![runner][index] = "running"]
        /\ runs' = [runs EXCEPT ![runner][index] = "running"]
        /\ unstarted' = [unstarted EXCEPT ![runner] = "ticking"]
        /\ Settle("failed") /\ UNCHANGED <<pending, command, gate>>
    BY <1>6 DEF StageThrows
  <2>2. /\ RunnerInv' /\ SequenceInv' /\ ThreadInv'
        /\ \A k \in Pipelines \ {runner} : status'[k] = status[k]
        /\ status'[runner] \in {"failed", "timeout", "cancelled"}
    BY <1>1, <2>1, SettleEnds
  <2>3. status'[runner] \in {"failed", "cancelled"}
    BY <1>1, <2>1 DEF Settle, Outcome, IInv, TypeOK
  <2>4. /\ stages' \in [Pipelines -> [Indices -> StageStatus \cup {"none"}]]
        /\ runs' \in [Pipelines -> [Indices -> RunStatus \cup {"none"}]]
        /\ unstarted' \in [Pipelines -> {"no", "ticking", "still"}]
    BY <1>1, <2>1 DEF IInv, TypeOK, StageStatus, RunStatus
  <2>5. TypeOK'
    BY <1>1, <2>1, <2>4, SettleEnds DEF IInv, TypeOK
  <2>6. /\ stages'[runner][index] = "running" /\ runs'[runner][index] = "running"
        /\ unstarted'[runner] = "ticking"
        /\ \A i \in Indices \ {index} :
             stages'[runner][i] = stages[runner][i] /\ runs'[runner][i] = runs[runner][i]
        /\ \A k \in Pipelines \ {runner} :
             stages'[k] = stages[k] /\ runs'[k] = runs[k] /\ unstarted'[k] = unstarted[k]
    BY <1>1, <2>1 DEF IInv, TypeOK
  <2>7. ASSUME NEW k \in Pipelines PROVE RowsInv(k)'
    <3>1. CASE k = runner
      <4>1. ASSUME NEW i \in Indices, i = index PROVE LeftRunning(k, i)'
        BY <3>1, <4>1, <1>1, <2>6, StageFacts DEF LeftRunning, Reached, Untouched
      <4>2. \A i \in Indices : stages'[k][i] = "running" => i = index
        BY <3>1, <1>1, <2>6, StageFacts DEF Reached, Untouched
      <4>3. InOrder(k)' /\ \A i \in Indices : Matches(k, i)'
        BY <3>1, <1>1, <2>6, StageFacts DEF IInv, RowsInv, Untouched, InOrder, Matches, Reached
      <4> QED BY <3>1, <2>3, <4>1, <4>2, <4>3 DEF RowsInv
    <3>2. CASE k # runner
      BY <3>2, <2>1, <2>2, <2>6, RowsKept DEF IInv
    <3> QED BY <3>1, <3>2
  <2> QED BY <2>2, <2>5, <2>7 DEF IInv
<1> QED BY <1>2, <1>4, <1>5, <1>6 DEF LoopHead

(* A run whose child never started is closed by its watchdog.              *)
LEMMA LeakStep ==
  ASSUME IInv, NEW k \in Pipelines, NEW i \in Indices, LeakedTimeout(k, i)
  PROVE  IInv'
<1>1. /\ unstarted[k] = "ticking" /\ stages[k][i] = "running" /\ runs[k][i] = "running"
      /\ runs' = [runs EXCEPT ![k][i] = "timeout"]
      /\ unstarted' = [unstarted EXCEPT ![k] = "still"]
      /\ UNCHANGED <<state, pending, command, status, stages, gate, runVars, sessionVars>>
  BY DEF LeakedTimeout
<1>2. /\ runs' \in [Pipelines -> [Indices -> RunStatus \cup {"none"}]]
      /\ unstarted' \in [Pipelines -> {"no", "ticking", "still"}]
  BY <1>1 DEF IInv, TypeOK, RunStatus
<1>3. TypeOK'
  BY <1>1, <1>2 DEF IInv, TypeOK, runVars, sessionVars
<1>4. /\ runs'[k][i] = "timeout" /\ unstarted'[k] = "still"
      /\ \A j \in Indices \ {i} : runs'[k][j] = runs[k][j]
      /\ \A l \in Pipelines \ {k} : runs'[l] = runs[l] /\ unstarted'[l] = unstarted[l]
  BY <1>1 DEF IInv, TypeOK
<1>5. status[k] \in {"failed", "cancelled"} /\ k # runner
  <2>1. status[k] \in {"failed", "cancelled"}
    BY <1>1 DEF IInv, RowsInv
  <2>2. k # 0
    BY DEF Pipelines
  <2> QED BY <2>1, <2>2 DEF IInv, RunnerInv
<1>6. ASSUME NEW l \in Pipelines PROVE RowsInv(l)'
  <2>1. CASE l = k
    <3>1. \A j \in Indices : stages[k][j] = "running" => LeftRunning(k, j)
      BY <1>5 DEF IInv, RowsInv
    <3>2. \A j \in Indices : stages'[k][j] = "running" => LeftRunning(k, j)'
      BY <3>1, <1>1, <1>4 DEF LeftRunning
    <3>3. InOrder(k)' /\ \A j \in Indices : Matches(k, j)'
      BY <1>1, <1>4 DEF IInv, RowsInv, InOrder, Matches
    <3> QED BY <2>1, <1>1, <1>5, <3>2, <3>3 DEF RowsInv
  <2>2. CASE l # k
    BY <2>2, <1>1, <1>4, RowsKept DEF IInv
  <2> QED BY <2>1, <2>2
<1>7. RunnerInv'
  <2>1. runner # 0 => runner \in Pipelines \ {k}
    BY <1>5 DEF IInv, TypeOK
  <2> QED BY <2>1, <1>1, <1>4 DEF IInv, RunnerInv, Reached, Untouched, runVars
<1>8. SequenceInv' /\ ThreadInv'
  BY <1>1 DEF IInv, SequenceInv, ThreadInv, runVars, sessionVars
<1> QED BY <1>3, <1>6, <1>7, <1>8 DEF IInv

(* The child: its watchdog, and its end.                                   *)
LEMMA ChildStep == IInv /\ (ChildTimeout \/ ChildEnds) => IInv'
<1> SUFFICES ASSUME IInv, ChildTimeout \/ ChildEnds PROVE IInv'
  OBVIOUS
<1>1. /\ pc = "stage" /\ runner # 0 /\ runner \in Pipelines /\ index \in Indices
      /\ command[runner] \in Commands /\ index \in 1..Len(StagesOf(command[runner]))
      /\ status[runner] = "running" /\ Reached(runner, index)
      /\ stages[runner][index] = "running" /\ runs[runner][index] \in {"running", "timeout"}
  <2>1. pc = "stage"
    BY DEF ChildTimeout, ChildEnds, ChildEnded
  <2>2. runner # 0
    BY <2>1 DEF IInv, RunnerInv
  <2>3. runner \in Pipelines /\ index \in Indices
    BY <2>2, StageFacts DEF IInv, TypeOK, RunnerInv
  <2> QED BY <2>1, <2>2, <2>3 DEF IInv, RunnerInv
<1>2. CASE ChildTimeout
  <2>1. /\ runs' = [runs EXCEPT ![runner][index] = "timeout"]
        /\ UNCHANGED <<state, pending, command, status, stages, unstarted, gate, runVars, sessionVars>>
    BY <1>2 DEF ChildTimeout
  <2>2. TypeOK'
    BY <1>1, <2>1 DEF IInv, TypeOK, RunStatus, runVars, sessionVars
  <2>3. /\ runs'[runner][index] = "timeout"
        /\ \A i \in Indices \ {index} : runs'[runner][i] = runs[runner][i]
        /\ \A k \in Pipelines \ {runner} : runs'[k] = runs[k]
    BY <1>1, <2>1 DEF IInv, TypeOK
  <2>4. ASSUME NEW k \in Pipelines PROVE RowsInv(k)'
    <3>1. CASE k = runner
      BY <3>1, <1>1, <2>1, <2>3 DEF IInv, RowsInv, Untouched, InOrder, Matches
    <3>2. CASE k # runner
      BY <3>2, <2>1, <2>3, RowsKept DEF IInv
    <3> QED BY <3>1, <3>2
  <2>5. RunnerInv'
    BY <1>1, <2>1, <2>3 DEF IInv, RunnerInv, Reached, Untouched, runVars
  <2>6. SequenceInv' /\ ThreadInv'
    BY <2>1 DEF IInv, SequenceInv, ThreadInv, runVars, sessionVars
  <2> QED BY <2>2, <2>4, <2>5, <2>6 DEF IInv
<1>3. ASSUME NEW exit \in {"completed", "error"}, ChildEnded(exit) PROVE IInv'
  <2> DEFINE run == IF runs[runner][index] = "running" THEN exit ELSE runs[runner][index]
             final == FinalStatus(run)
  <2>1. /\ run \in {"completed", "error", "timeout"} /\ final \in {"completed", "timeout", "failed"}
        /\ final = "completed" <=> run = "completed"
        /\ final = "timeout" => run = "timeout"
        /\ final = "failed" => run = "error"
    BY <1>1, <1>3 DEF FinalStatus
  <2>2. /\ runs' = [runs EXCEPT ![runner][index] = run]
        /\ stages' = [stages EXCEPT ![runner][index] = final]
        /\ UNCHANGED <<pending, command, unstarted, gate>>
        /\ \/ final # "completed" /\ Settle("failed")
           \/ final = "completed" /\ command[runner] = "spec" /\ Complete
           \/ /\ final = "completed" /\ command[runner] # "spec"
              /\ pc' = AfterStage(command[runner], index)
              /\ index' = IF pc' = "next" THEN index + 1 ELSE index
              /\ UNCHANGED <<state, status, runner, capped, sessionVars>>
    BY <1>3 DEF ChildEnded, CloseStage, Throws
  <2> HIDE DEF run, final
  <2>3. /\ stages' \in [Pipelines -> [Indices -> StageStatus \cup {"none"}]]
        /\ runs' \in [Pipelines -> [Indices -> RunStatus \cup {"none"}]]
    <3>1. final \in StageStatus /\ run \in RunStatus
      BY <2>1 DEF StageStatus, RunStatus
    <3> QED BY <1>1, <2>2, <3>1 DEF IInv, TypeOK
  <2>4. /\ stages'[runner][index] = final /\ runs'[runner][index] = run
        /\ \A i \in Indices \ {index} :
             stages'[runner][i] = stages[runner][i] /\ runs'[runner][i] = runs[runner][i]
        /\ \A k \in Pipelines \ {runner} : stages'[k] = stages[k] /\ runs'[k] = runs[k]
    BY <1>1, <2>2 DEF IInv, TypeOK
  <2>5. ASSUME \A k \in Pipelines \ {runner} : status'[k] = status[k],
               status'[runner] # "none",
               status'[runner] = "completed" => \A k \in Pipelines : k = runner => Whole(k)'
        PROVE  \A k \in Pipelines : RowsInv(k)'
    <3> SUFFICES ASSUME NEW k \in Pipelines PROVE RowsInv(k)'
      OBVIOUS
    <3>1. CASE k = runner
      <4>1. \A i \in Indices : stages'[k][i] # "running"
        BY <3>1, <1>1, <2>1, <2>4, StageFacts DEF Reached, Untouched
      <4>2. InOrder(k)'
        BY <3>1, <1>1, <2>1, <2>4, StageFacts DEF InOrder, Reached, Untouched
      <4>3. \A i \in Indices : Matches(k, i)'
        BY <3>1, <1>1, <2>1, <2>4 DEF IInv, RowsInv, Matches
      <4>4. unstarted'[k] = "no"
        BY <3>1, <1>1, <2>2, ChildrenStarted
      <4> QED BY <3>1, <2>5, <4>1, <4>2, <4>3, <4>4 DEF RowsInv
    <3>2. CASE k # runner
      BY <3>2, <2>2, <2>4, <2>5, RowsKept DEF IInv
    <3> QED BY <3>1, <3>2
  <2>6. CASE final # "completed" /\ Settle("failed")
    <3>1. /\ RunnerInv' /\ SequenceInv' /\ ThreadInv'
          /\ \A k \in Pipelines \ {runner} : status'[k] = status[k]
          /\ status'[runner] \in {"failed", "timeout", "cancelled"}
      BY <1>1, <2>6, SettleEnds
    <3>2. TypeOK'
      BY <1>1, <2>2, <2>3, <2>6, SettleEnds DEF IInv, TypeOK
    <3> QED BY <2>5, <3>1, <3>2 DEF IInv
  <2>7. CASE final = "completed" /\ command[runner] = "spec" /\ Complete
    <3>1. /\ RunnerInv' /\ SequenceInv' /\ ThreadInv'
          /\ \A k \in Pipelines \ {runner} : status'[k] = status[k]
          /\ status'[runner] = "completed"
      BY <1>1, <2>7, CompleteEnds
    <3>2. TypeOK'
      BY <1>1, <2>2, <2>3, <2>7, CompleteEnds DEF IInv, TypeOK
    <3>3. ASSUME NEW k \in Pipelines, k = runner PROVE Whole(k)'
      <4>1. Len(StagesOf(command[runner])) = 1
        BY <1>1, <2>7, StageFacts
      <4>2. index = 1 /\ command'[runner] = command[runner]
        BY <1>1, <2>2, <4>1
      <4> QED BY <3>3, <2>4, <2>7, <4>1, <4>2 DEF Whole
    <3> QED BY <2>5, <3>1, <3>2, <3>3 DEF IInv
  <2>8. CASE /\ final = "completed" /\ command[runner] # "spec"
             /\ pc' = AfterStage(command[runner], index)
             /\ index' = IF pc' = "next" THEN index + 1 ELSE index
             /\ UNCHANGED <<state, status, runner, capped, sessionVars>>
    <3>1. \/ /\ pc' = "capture" /\ index' = index
             /\ command[runner] = "featdevelop" /\ index = 2
          \/ /\ pc' = "next" /\ index' = index + 1
             /\ command[runner] = "featdevelop" /\ index \in {1, 3}
          \/ /\ pc' = "final" /\ index' = index
             /\ index = Len(StagesOf(command[runner]))
      <4>1. CASE command[runner] = "featdevelop"
        <5>1. Len(StagesOf(command[runner])) = 4 /\ index \in 1..4
          BY <4>1, <1>1, StageFacts
        <5>2. pc' = IF index = 2 THEN "capture" ELSE IF index < 4 THEN "next" ELSE "final"
          BY <4>1, <5>1, <1>1, <2>8, StageFacts
        <5>3. index = 1 \/ index = 2 \/ index = 3 \/ index = 4
          BY <5>1
        <5>4. index' = IF pc' = "next" THEN index + 1 ELSE index
          BY <2>8
        <5>5. CASE index = 1 \/ index = 3
          BY <5>5, <4>1, <5>2, <5>4
        <5>6. CASE index = 2
          BY <5>6, <4>1, <5>2, <5>4
        <5>7. CASE index = 4
          BY <5>7, <4>1, <5>1, <5>2, <5>4
        <5> QED BY <5>3, <5>5, <5>6, <5>7
      <4>2. CASE command[runner] # "featdevelop"
        <5>1. Len(StagesOf(command[runner])) = 1
          BY <4>2, <1>1, StageFacts
        <5> QED BY <4>2, <5>1, <1>1, <2>8, StageFacts
      <4> QED BY <4>1, <4>2
    <3>2. /\ index' \in Indices /\ index' \in 1..Len(StagesOf(command'[runner']))
          /\ pc' \in {"capture", "next", "final"}
      <4>1. /\ Len(StagesOf(command[runner])) \in {1, 4}
            /\ command[runner] = "featdevelop" => Len(StagesOf(command[runner])) = 4
        BY <1>1, StageFacts
      <4> DEFINE n == Len(StagesOf(command[runner]))
      <4>2. index \in 1..n
        BY <1>1
      <4>3. n \in {1, 4} /\ (command[runner] = "featdevelop" => n = 4)
        BY <4>1
      <4>4. /\ \/ index' = index /\ (index = 2 \/ index = n)
               \/ index' = index + 1 /\ command[runner] = "featdevelop" /\ index \in {1, 3}
            /\ pc' \in {"capture", "next", "final"}
        BY <3>1
      <4> HIDE DEF n
      <4>5. index' \in 1..n /\ index' \in 1..4
        BY <4>2, <4>3, <4>4
      <4>6. index' \in Indices
        BY <4>5, StageFacts
      <4>7. command'[runner'] = command[runner]
        BY <2>2, <2>8
      <4> QED BY <4>4, <4>5, <4>6, <4>7 DEF n
    <3>3. TypeOK'
      BY <2>2, <2>3, <2>8, <3>2 DEF IInv, TypeOK, sessionVars
    <3>4. Reached(runner, index)' /\ (pc' = "next" => Untouched(runner, index)')
      BY <3>1, <1>1, <2>1, <2>4, <2>8, StageFacts DEF Reached, Untouched
    <3>5. RunnerInv'
      <4>1. pc' = "next" => index' # 3
        BY <3>1
      <4>2. pc' # "next" => stages'[runner'][index'] = "completed"
        BY <3>1, <2>4, <2>8
      <4>3. pc' = "final" => index' = Len(StagesOf(command'[runner']))
        BY <3>1, <2>2, <2>8
      <4>4. /\ runner' # 0 /\ status'[runner'] = "running" /\ command'[runner'] \in Commands
            /\ pc' = "capture" => command'[runner'] = "featdevelop" /\ index' = 2
        BY <3>1, <1>1, <2>2, <2>8
      <4> QED BY <2>8, <3>2, <3>4, <4>1, <4>2, <4>3, <4>4 DEF RunnerInv
    <3>6. SequenceInv' /\ ThreadInv'
      BY <1>1, <2>8, <3>2 DEF IInv, SequenceInv, ThreadInv, sessionVars
    <3>7. \A k \in Pipelines : RowsInv(k)'
      BY <1>1, <2>5, <2>8
    <3> QED BY <3>3, <3>5, <3>6, <3>7 DEF IInv
  <2> QED BY <2>2, <2>6, <2>7, <2>8
<1> QED BY <1>2, <1>3 DEF ChildEnds

(* Reading the diffs, after the implementer and at the end.                *)
LEMMA CaptureStep == IInv /\ CaptureEnds => IInv'
<1> SUFFICES ASSUME IInv, CaptureEnds PROVE IInv'
  OBVIOUS
<1>1. /\ pc \in {"capture", "final"} /\ runner # 0
  BY DEF CaptureEnds, Captured, FinalCaptured, CaptureFailed, IInv, RunnerInv
<1>2. /\ runner \in Pipelines /\ index \in Indices /\ command[runner] \in Commands
      /\ status[runner] = "running" /\ Reached(runner, index)
      /\ stages[runner][index] = "completed"
      /\ pc = "capture" => command[runner] = "featdevelop" /\ index = 2
      /\ pc = "final" => index = Len(StagesOf(command[runner]))
  BY <1>1, StageFacts DEF IInv, TypeOK, RunnerInv
<1>3. CASE Captured
  <2>1. /\ pending' \in BOOLEAN /\ pc = "capture" /\ Exists
        /\ UNCHANGED <<command, stages, runs, unstarted, runner, capped, sessionVars>>
    BY <1>3 DEF Captured, IInv, TypeOK
  <2>2. CASE pending'
    <3>1. /\ pc' = "checkpoint" /\ index' = index
          /\ status' = [status EXCEPT ![runner] = "waiting_checkpoint"]
          /\ state' = ApplyTransition(state, "gate_opened_question")
      BY <1>3, <2>2 DEF Captured, Transition
    <3>2. PICK opened \in {"open", "none"} : gate' = [gate EXCEPT ![runner] = opened]
      BY <1>3, <2>2 DEF Captured
    <3>3. /\ status' \in [Pipelines -> PipelineStatus \cup {"none"}]
          /\ status'[runner] = "waiting_checkpoint"
          /\ \A k \in Pipelines \ {runner} : status'[k] = status[k]
      BY <1>2, <3>1 DEF IInv, TypeOK, PipelineStatus, Active
    <3>4. "gate_opened_question" \in TurnEvents /\ state \in ThreadStates
      BY <2>1 DEF TurnEvents, Exists
    <3>5. /\ state' \in ThreadStates
          /\ state \in CancellableStates => state' \in CancellableStates
          /\ state \in {"cancelled", "stopping"} => state' = state
      BY <3>1, <3>4, Reducer
    <3>6. gate' \in [Pipelines -> {"none", "open", "resolved", "expired"}]
      BY <3>2 DEF IInv, TypeOK
    <3>7. TypeOK'
      BY <2>1, <3>1, <3>3, <3>5, <3>6 DEF IInv, TypeOK, sessionVars
    <3>8. ASSUME NEW k \in Pipelines PROVE RowsInv(k)'
      <4>1. CASE k = runner
        <5>1. \A i \in Indices : stages[k][i] # "running"
          BY <4>1, <1>2, StageFacts DEF Reached, Untouched
        <5> QED BY <4>1, <5>1, <1>2, <2>1, <3>3, ChildrenStarted DEF IInv, RowsInv, InOrder, Matches
      <4>2. CASE k # runner
        BY <4>2, <2>1, <3>3, RowsKept DEF IInv
      <4> QED BY <4>1, <4>2
    <3>9. RunnerInv'
      BY <1>1, <1>2, <2>1, <3>1, <3>3 DEF IInv, RunnerInv, Reached, Untouched
    <3>10. SequenceInv'
      BY <1>2, <2>1, <3>3 DEF IInv, SequenceInv
    <3>11. ThreadInv'
      <4>1. state' # Unborn
        BY <3>5, States
      <4>2. state \in CancellableStates \cup {"cancelled"}
        BY <1>1, <3>4, States DEF IInv, ThreadInv
      <4> QED BY <1>1, <2>1, <3>1, <3>5, <4>1, <4>2, States DEF IInv, ThreadInv, sessionVars
    <3> QED BY <3>7, <3>8, <3>9, <3>10, <3>11 DEF IInv
  <2>3. CASE ~pending'
    <3>1. /\ pc' = "next" /\ index' = index + 1 /\ UNCHANGED <<state, status, gate>>
      BY <1>3, <2>3 DEF Captured
    <3>2. index' = 3 /\ index' \in Indices
      BY <1>2, <2>1, <3>1, StageFacts
    <3>3. TypeOK'
      BY <2>1, <3>1, <3>2 DEF IInv, TypeOK, sessionVars
    <3>4. \A k \in Pipelines : RowsInv(k)'
      BY <2>1, <3>1, RowsKept DEF IInv
    <3>5. /\ Reached(runner, index)' /\ Untouched(runner, index)'
      BY <1>2, <2>1, <3>2, StageFacts DEF Reached, Untouched
    <3>6. index' \in 1..Len(StagesOf(command'[runner]))
      <4>1. Len(StagesOf(command[runner])) = 4
        BY <1>2, <2>1, StageFacts
      <4>2. 3 \in 1..Len(StagesOf(command[runner]))
        BY <4>1
      <4> QED BY <4>2, <2>1, <3>2
    <3>7. RunnerInv'
      <4>1. /\ runner' # 0 /\ pc' = "next" /\ status'[runner'] = "running"
            /\ command'[runner'] \in Commands /\ index' \in 1..Len(StagesOf(command'[runner']))
        BY <1>1, <1>2, <2>1, <3>1, <3>6
      <4>3. ~pending'
        BY <2>3
      <4> QED BY <4>1, <4>3, <3>5 DEF RunnerInv
    <3>8. SequenceInv' /\ ThreadInv'
      BY <1>1, <2>1, <3>1 DEF IInv, SequenceInv, ThreadInv, sessionVars
    <3> QED BY <3>3, <3>4, <3>7, <3>8 DEF IInv
  <2> QED BY <2>2, <2>3
<1>4. CASE FinalCaptured
  <2>1. /\ Complete /\ pending' \in BOOLEAN /\ pc = "final"
        /\ UNCHANGED <<command, stages, runs, unstarted, gate>>
    BY <1>4 DEF FinalCaptured, IInv, TypeOK
  <2>2. /\ RunnerInv' /\ SequenceInv' /\ ThreadInv'
        /\ \A k \in Pipelines \ {runner} : status'[k] = status[k]
        /\ status'[runner] = "completed"
    BY <1>1, <2>1, CompleteEnds
  <2>3. TypeOK'
    BY <1>1, <2>1, CompleteEnds DEF IInv, TypeOK
  <2>4. ASSUME NEW k \in Pipelines PROVE RowsInv(k)'
    <3>1. CASE k = runner
      <4>1. Len(StagesOf(command[runner])) \in {1, 4}
        BY <1>2, StageFacts
      <4>2. \A i \in 1..Len(StagesOf(command[runner])) : stages[runner][i] = "completed"
        BY <1>2, <2>1, <4>1, StageFacts DEF Reached
      <4>3. \A i \in Indices : stages[k][i] # "running"
        BY <3>1, <1>2, StageFacts DEF Reached, Untouched
      <4> QED BY <3>1, <4>2, <4>3, <1>2, <2>1, <2>2, ChildrenStarted
              DEF IInv, RowsInv, InOrder, Matches, Whole
    <3>2. CASE k # runner
      BY <3>2, <2>1, <2>2, RowsKept DEF IInv
    <3> QED BY <3>1, <3>2
  <2> QED BY <2>2, <2>3, <2>4 DEF IInv
<1>5. CASE CaptureFailed
  <2>1. Settle("failed") /\ UNCHANGED <<pending, command, stages, runs, unstarted, gate>>
    BY <1>5 DEF CaptureFailed
  <2>2. /\ RunnerInv' /\ SequenceInv' /\ ThreadInv'
        /\ \A k \in Pipelines \ {runner} : status'[k] = status[k]
        /\ status'[runner] \in {"failed", "timeout", "cancelled"}
    BY <1>1, <2>1, SettleEnds
  <2>3. TypeOK'
    BY <1>1, <2>1, SettleEnds DEF IInv, TypeOK
  <2>4. ASSUME NEW k \in Pipelines PROVE RowsInv(k)'
    <3>1. CASE k = runner
      <4>1. \A i \in Indices : stages[k][i] # "running"
        BY <3>1, <1>2, StageFacts DEF Reached, Untouched
      <4> QED BY <3>1, <4>1, <1>2, <2>1, <2>2, ChildrenStarted
              DEF IInv, RowsInv, InOrder, Matches
    <3>2. CASE k # runner
      BY <3>2, <2>1, <2>2, RowsKept DEF IInv
    <3> QED BY <3>1, <3>2
  <2> QED BY <2>2, <2>3, <2>4 DEF IInv
<1> QED BY <1>3, <1>4, <1>5 DEF CaptureEnds

(* The checkpoint.                                                         *)
LEMMA CheckpointStep == IInv /\ (CheckpointAnswered \/ CheckpointInterrupted) => IInv'
<1> SUFFICES ASSUME IInv, CheckpointAnswered \/ CheckpointInterrupted PROVE IInv'
  OBVIOUS
<1>1. /\ pc = "checkpoint" /\ runner # 0
  BY DEF CheckpointAnswered, CheckpointInterrupted, IInv, RunnerInv
<1>2. /\ runner \in Pipelines /\ index = 2 /\ index \in Indices /\ command[runner] = "featdevelop"
      /\ status[runner] = "waiting_checkpoint" /\ Reached(runner, index)
      /\ stages[runner][index] = "completed" /\ command[runner] \in Commands
  BY <1>1, StageFacts DEF IInv, TypeOK, RunnerInv
<1>3. ASSUME NEW k \in Pipelines, k = runner PROVE \A i \in Indices : stages[k][i] # "running"
  BY <1>3, <1>2, StageFacts DEF Reached, Untouched
<1>4. CASE CheckpointAnswered
  <2>1. /\ gate' = [gate EXCEPT ![runner] = "resolved"]
        /\ status' = [status EXCEPT ![runner] = "running"]
        /\ state' = ApplyTransition(state, "gates_closed")
        /\ pc' = "next" /\ index' = index + 1
        /\ UNCHANGED <<pending, command, stages, runs, unstarted, runner, capped, sessionVars>>
    BY <1>4 DEF CheckpointAnswered, Transition
  <2>2. /\ status' \in [Pipelines -> PipelineStatus \cup {"none"}]
        /\ status'[runner] = "running" /\ gate'[runner] = "resolved"
        /\ gate' \in [Pipelines -> {"none", "open", "resolved", "expired"}]
        /\ \A k \in Pipelines \ {runner} : status'[k] = status[k]
    BY <1>2, <2>1 DEF IInv, TypeOK, PipelineStatus, Active
  <2>3. "gates_closed" \in TurnEvents /\ state \in ThreadStates \cup {Unborn, Deleted}
    BY DEF TurnEvents, IInv, TypeOK
  <2>4. /\ state' \in ThreadStates \cup {Unborn, Deleted}
        /\ state \notin ThreadStates => state' = state
        /\ state \in ThreadStates => state' \in ThreadStates
        /\ state \in CancellableStates => state' \in CancellableStates
        /\ state \in {"cancelled", "stopping"} => state' = state
    BY <2>1, <2>3, Reducer
  <2>5. index' = 3 /\ index' \in Indices
    BY <1>2, <2>1, StageFacts
  <2>6. TypeOK'
    BY <2>1, <2>2, <2>4, <2>5 DEF IInv, TypeOK, sessionVars
  <2>7. ASSUME NEW k \in Pipelines PROVE RowsInv(k)'
    <3>1. CASE k = runner
      BY <3>1, <1>2, <1>3, <2>1, <2>2, ChildrenStarted DEF IInv, RowsInv, InOrder, Matches
    <3>2. CASE k # runner
      BY <3>2, <2>1, <2>2, RowsKept DEF IInv
    <3> QED BY <3>1, <3>2
  <2>8. RunnerInv'
    <3>1. /\ Reached(runner, index)' /\ Untouched(runner, index)'
      BY <1>2, <2>1, <2>5, StageFacts DEF Reached, Untouched
    <3>2. index' \in 1..Len(StagesOf(command'[runner]))
      <4>1. Len(StagesOf(command[runner])) = 4
        BY <1>2, StageFacts
      <4> QED BY <4>1, <2>1, <2>5
    <3> QED BY <1>1, <1>2, <2>1, <2>2, <3>1, <3>2 DEF RunnerInv
  <2>9. SequenceInv'
    BY <1>2, <2>1, <2>2 DEF IInv, SequenceInv
  <2>10. ThreadInv'
    <3>1. state \in CancellableStates \cup {"cancelled", Deleted}
      BY <1>1 DEF IInv, ThreadInv
    <3>2. state' \in CancellableStates \cup {"cancelled", Deleted} /\ state' # Unborn
      BY <3>1, <2>4, States
    <3>3. state \notin CancellableStates => state' \notin CancellableStates
      BY <3>1, <2>4, States
    <3>4. state \in {"stopping", "cancelled", Deleted} => state' = state
      BY <2>4, States
    <3> QED BY <1>1, <2>1, <3>2, <3>3, <3>4 DEF IInv, ThreadInv, sessionVars
  <2> QED BY <2>6, <2>7, <2>8, <2>9, <2>10 DEF IInv
<1>5. CASE CheckpointInterrupted
  <2>1. PICK o \in {"failed", "timeout"} : Settle(o)
    BY <1>5 DEF CheckpointInterrupted
  <2>2. gate' = Expired /\ UNCHANGED <<pending, command, stages, runs, unstarted>>
    BY <1>5 DEF CheckpointInterrupted
  <2>3. gate' \in [Pipelines -> {"none", "open", "resolved", "expired"}]
    BY <1>2, <2>2 DEF Expired, IInv, TypeOK
  <2>4. /\ RunnerInv' /\ SequenceInv' /\ ThreadInv'
        /\ \A k \in Pipelines \ {runner} : status'[k] = status[k]
        /\ status'[runner] \in {"failed", "timeout", "cancelled"}
    BY <1>1, <2>1, SettleEnds
  <2>5. TypeOK'
    BY <1>1, <2>1, <2>2, <2>3, SettleEnds DEF IInv, TypeOK
  <2>6. ASSUME NEW k \in Pipelines PROVE RowsInv(k)'
    <3>1. CASE k = runner
      <4>1. /\ RowsInv(k) /\ status'[k] \in {"failed", "timeout", "cancelled"}
            /\ \A i \in Indices : stages[k][i] # "running"
        BY <3>1, <1>2, <1>3, <2>4 DEF IInv
      <4>2. unstarted[k] # "no" => status'[k] \in {"failed", "cancelled"}
        BY <3>1, <1>2, <4>1 DEF RowsInv
      <4>3. InOrder(k)' /\ \A i \in Indices : Matches(k, i)'
        BY <2>2, <4>1 DEF RowsInv, InOrder, Matches
      <4> QED BY <2>2, <4>1, <4>2, <4>3 DEF RowsInv
    <3>2. CASE k # runner
      BY <3>2, <2>2, <2>4, RowsKept DEF IInv
    <3> QED BY <3>1, <3>2
  <2> QED BY <2>4, <2>5, <2>6 DEF IInv
<1> QED BY <1>4, <1>5

(* Steps that leave the rows of pipelines and stages alone.                *)
LEMMA SameRows ==
  ASSUME IInv, UNCHANGED <<command, status, stages, runs>>,
         \A k \in Pipelines : unstarted'[k] = "no" <=> unstarted[k] = "no"
  PROVE  /\ \A k \in Pipelines : RowsInv(k)'
         /\ runner' = runner \/ runner' = 0 => SequenceInv'
<1>1. \A k \in Pipelines : RowsInv(k)'
  BY RowsKept DEF IInv
<1>2. 0 \notin Pipelines
  BY DEF Pipelines
<1> QED BY <1>1, <1>2 DEF IInv, SequenceInv

LEMMA StopStep == IInv /\ (Stop \/ StopOrphan \/ StoppingDeadline) => IInv'
<1> SUFFICES ASSUME IInv, Stop \/ StopOrphan \/ StoppingDeadline PROVE IInv'
  OBVIOUS
<1>1. /\ {"cancel_requested", "cancel_settled"} \subseteq TurnEvents
      /\ state \in ThreadStates \cup {Unborn, Deleted}
  BY DEF TurnEvents, IInv, TypeOK
<1>2. /\ gate \in [Pipelines -> {"none", "open", "resolved", "expired"}]
      /\ Expired \in [Pipelines -> {"none", "open", "resolved", "expired"}]
      /\ \A k \in Pipelines : gate[k] = "resolved" => Expired[k] = "resolved"
  BY DEF Expired, IInv, TypeOK
<1>3. runner # 0 => runner \in Pipelines
  BY DEF IInv, TypeOK
<1>4. CASE Stop
  <2>1. /\ Exists /\ runner # 0 /\ ~settled /\ stopped' = TRUE
        /\ deadline' = TRUE /\ gate' = Expired
        /\ state' = ApplyTransition(state, "cancel_requested")
        /\ UNCHANGED <<pending, command, status, stages, runs, unstarted, runVars, settled>>
    BY <1>4 DEF Stop, Cancellable, Transition
  <2>2. state \in CancellableStates \cup {"cancelled"}
    BY <2>1, States DEF Exists, IInv, ThreadInv
  <2>3. /\ state' \in ThreadStates
        /\ state \in CancellableStates => state' = "stopping"
        /\ state = "cancelled" => state' = "cancelled"
    BY <1>1, <2>1, <2>2, States, Reducer
  <2>4. TypeOK'
    BY <1>2, <2>1, <2>3 DEF IInv, TypeOK, runVars
  <2>5. RunnerInv'
    BY <1>2, <1>3, <2>1 DEF IInv, RunnerInv, Reached, Untouched, runVars
  <2>6. ThreadInv'
    <3>1. /\ state # Unborn /\ state' # Unborn /\ ~settled'
          /\ state' \in {"stopping", "cancelled"}
          /\ state' \in CancellableStates => state \in CancellableStates
          /\ pc # "worktree"
      BY <2>1, <2>2, <2>3, States DEF IInv, ThreadInv, RunnerInv
    <3>2. UNCHANGED <<runner, pc>> /\ runner # 0
      BY <2>1 DEF runVars
    <3> QED BY <3>1, <3>2, States DEF IInv, ThreadInv
  <2> QED BY <2>1, <2>4, <2>5, <2>6, SameRows DEF IInv, runVars
<1>5. CASE StopOrphan
  <2>1. /\ Exists /\ ~Cancellable /\ state \in CancellableStates
        /\ deadline' = FALSE /\ state' = ApplyTransition(state, "cancel_settled")
        /\ UNCHANGED <<pending, command, stages, runs, unstarted, runVars, stopped, settled>>
    BY <1>5 DEF StopOrphan, Transition
  <2>2. runner = 0 /\ pc = "worktree"
    BY <2>1, States DEF Cancellable, IInv, ThreadInv, TypeOK
  <2>3. \A k \in Pipelines : status[k] = "none"
    BY <2>2 DEF IInv, ThreadInv
  <2>4. status' = status
    <3>1. ActivePipelines = {}
      BY <2>3 DEF ActivePipelines, Active
    <3> QED BY <1>5, <3>1 DEF StopOrphan
  <2>5. gate' \in [Pipelines -> {"none", "open", "resolved", "expired"}]
    BY <1>2, <1>5 DEF StopOrphan
  <2>6. state' = "cancelled"
    BY <1>1, <2>1, Reducer
  <2>7. TypeOK'
    BY <2>1, <2>4, <2>5, <2>6, States DEF IInv, TypeOK, runVars
  <2>8. RunnerInv' /\ ThreadInv'
    BY <2>1, <2>2, <2>3, <2>4, <2>6, States DEF IInv, RunnerInv, ThreadInv, runVars
  <2> QED BY <2>1, <2>4, <2>7, <2>8, SameRows DEF IInv, runVars
<1>6. CASE StoppingDeadline
  <2>1. /\ deadline' = FALSE /\ runner # 0
        /\ UNCHANGED <<pending, command, status, stages, runs, unstarted, runVars, stopped>>
    BY <1>6 DEF StoppingDeadline, IInv, ThreadInv
  <2>2. /\ gate' = Expired \/ gate' = gate
        /\ \/ state = "stopping" /\ state' = "cancelled" /\ settled' = TRUE
           \/ UNCHANGED <<state, settled>>
    <3>1. ApplyTransition("stopping", "cancel_settled") = "cancelled"
      BY <1>1, States, Reducer
    <3> QED BY <1>6, <3>1 DEF StoppingDeadline, Transition
  <2>3. TypeOK'
    <3>1. /\ state' \in ThreadStates \cup {Unborn, Deleted}
          /\ gate' \in [Pipelines -> {"none", "open", "resolved", "expired"}]
          /\ deadline' \in BOOLEAN /\ settled' \in BOOLEAN
      BY <1>2, <2>1, <2>2, States DEF IInv, TypeOK
    <3> QED BY <2>1, <3>1 DEF IInv, TypeOK, runVars
  <2>4. RunnerInv'
    BY <1>2, <1>3, <2>1, <2>2 DEF IInv, RunnerInv, Reached, Untouched, runVars
  <2>5. ThreadInv'
    BY <2>1, <2>2, States DEF IInv, ThreadInv, runVars
  <2> QED BY <2>1, <2>3, <2>4, <2>5, SameRows DEF IInv, runVars
<1> QED BY <1>4, <1>5, <1>6

LEMMA WorldStep ==
  IInv /\ (HardCapPasses \/ DeleteProject \/ Restart \/ UNCHANGED vars) => IInv'
<1> SUFFICES ASSUME IInv, HardCapPasses \/ DeleteProject \/ Restart \/ UNCHANGED vars PROVE IInv'
  OBVIOUS
<1>1. CASE HardCapPasses \/ DeleteProject \/ UNCHANGED vars
  <2>1. /\ UNCHANGED <<pending, rowVars, runner, pc, index, sessionVars>>
        /\ capped' \in BOOLEAN /\ (state' = state \/ state' = Deleted)
        /\ state # Unborn => state' # Unborn
    BY <1>1, States DEF HardCapPasses, DeleteProject, vars, runVars, IInv, TypeOK
  <2>2. TypeOK'
    BY <2>1 DEF IInv, TypeOK, rowVars, sessionVars
  <2>3. RunnerInv'
    BY <2>1 DEF IInv, RunnerInv, Reached, Untouched, rowVars
  <2>4. ThreadInv'
    <3>1. state' = Unborn => state = Unborn
      BY <2>1
    <3>2. state' \in CancellableStates => state \in CancellableStates
      BY <2>1, States
    <3> QED BY <2>1, <3>1, <3>2, States DEF IInv, ThreadInv, rowVars, sessionVars
  <2> QED BY <2>1, <2>2, <2>3, <2>4, SameRows DEF IInv, rowVars
<1>2. CASE Restart
  <2>1. /\ EndSession /\ UNCHANGED <<pending, command, status, stages, runs>>
        /\ unstarted' = [k \in Pipelines |-> IF unstarted[k] = "ticking" THEN "still" ELSE unstarted[k]]
        /\ state' = IF state \in CancellableStates THEN "interrupted" ELSE state
    BY <1>2 DEF Restart
  <2>2. gate' \in [Pipelines -> {"none", "open", "resolved", "expired"}]
    BY <1>2 DEF Restart, IInv, TypeOK
  <2>3. /\ state' \in ThreadStates \cup {Unborn, Deleted} /\ state' \notin CancellableStates
        /\ state' = Unborn => state = Unborn
    BY <2>1, States DEF IInv, TypeOK
  <2>4. /\ unstarted' \in [Pipelines -> {"no", "ticking", "still"}]
        /\ \A k \in Pipelines : unstarted'[k] = "no" <=> unstarted[k] = "no"
    BY <2>1 DEF IInv, TypeOK
  <2>5. TypeOK'
    BY <2>1, <2>2, <2>3, <2>4 DEF IInv, TypeOK, EndSession
  <2>6. RunnerInv' /\ ThreadInv'
    BY <2>1, <2>3 DEF IInv, RunnerInv, ThreadInv, EndSession
  <2> QED BY <2>1, <2>4, <2>5, <2>6, SameRows DEF IInv, EndSession
<1> QED BY <1>1, <1>2

LEMMA StepHolds == IInv /\ [Next]_vars => IInv'
BY StartStep, BetweenStep, LoopHeadStep, LeakStep, ChildStep, CaptureStep, CheckpointStep, StopStep,
   WorldStep DEF Next

-----------------------------------------------------------------------------
(* What the specification guarantees.                                      *)

(* The rows, the runner and the thread fit together at every moment.       *)
THEOREM Invariant == Spec => []IInv
BY InitHolds, StepHolds, PTL DEF Spec

(* Every variable keeps its type.                                          *)
THEOREM TypeCorrect == Spec => []TypeOK
<1>1. IInv => TypeOK
  BY DEF IInv
<1> QED BY <1>1, Invariant, PTL

(* The stages run one after the other, each started only when the one      *)
(* before it was completed (the loop of runFeatdevelop).                   *)
THEOREM InTurn == Spec => []StagesInOrder
<1>1. IInv => StagesInOrder
  BY DEF IInv, RowsInv, InOrder, StagesInOrder
<1> QED BY <1>1, Invariant, PTL

(* A stage says what became of the run of its child (runStage).            *)
THEOREM StageTellsRun == Spec => []StageMatchesRun
<1>1. IInv => StageMatchesRun
  BY DEF IInv, RowsInv, Matches, StageMatchesRun
<1> QED BY <1>1, Invariant, PTL

(* A pipeline that says completed has completed every stage of its command.*)
THEOREM CompletedWhole == Spec => []CompletedIsWhole
<1>1. IInv => CompletedIsWhole
  BY DEF IInv, RowsInv, Whole, CompletedIsWhole
<1> QED BY <1>1, Invariant, PTL

(* A stage that says running belongs to a pipeline that says so too, and   *)
(* then it is the one whose child runs now or the process ended under it;  *)
(* or its child never started, and it is the last stage of a pipeline that *)
(* ended as failed or cancelled (runStage, delegate.ts:305).               *)
THEOREM RunningStage == Spec => []RunningStageHasChild
<1>1. ASSUME IInv PROVE RunningStageHasChild
  <2> SUFFICES ASSUME NEW k \in Pipelines, NEW i \in Indices, stages[k][i] = "running"
               PROVE  \/ /\ status[k] = "running"
                         /\ runner = 0 \/ runner > k \/ (runner = k /\ pc = "stage" /\ index = i)
                      \/ /\ unstarted[k] # "no" /\ status[k] \in {"failed", "cancelled"}
                         /\ runs[k][i] \in {"running", "timeout"}
                         /\ \A j \in Indices : j > i => stages[k][j] = "none"
    BY DEF RunningStageHasChild
  <2>1. \/ status[k] = "running"
        \/ LeftRunning(k, i) /\ status[k] \in {"failed", "cancelled"}
    BY <1>1 DEF IInv, RowsInv, LeftRunning
  <2>2. CASE status[k] = "running"
    <3>1. CASE runner = k
      <4>1. runner # 0
        BY <3>1, PipelineAssumption DEF Pipelines
      <4>2. /\ index \in Indices /\ Reached(runner, index)
            /\ pc = "next" => Untouched(runner, index)
            /\ pc \notin {"next", "stage"} => stages[runner][index] = "completed"
        BY <1>1, <4>1, StageFacts DEF IInv, TypeOK, RunnerInv
      <4>3. i = index
        BY <3>1, <4>2, StageFacts DEF Reached, Untouched
      <4> QED BY <2>2, <3>1, <4>2, <4>3 DEF Untouched
    <3>2. CASE runner # 0 /\ runner # k
      <4>1. runner \in Pipelines /\ (runner > k \/ k > runner)
        BY <1>1, <3>2, PipelineAssumption DEF IInv, TypeOK, Pipelines
      <4> QED BY <1>1, <2>2, <4>1 DEF IInv, SequenceInv
    <3> QED BY <2>2, <3>1, <3>2
  <2> QED BY <2>1, <2>2 DEF LeftRunning
<1> QED BY <1>1, Invariant, PTL

(* The only step that starts a stage is the head of the loop.              *)
LEMMA StageStarts ==
  ASSUME IInv, [Next]_vars, NEW k \in Pipelines, NEW i \in Indices,
         stages[k][i] # "running", stages'[k][i] = "running"
  PROVE  pc = "next" /\ runner = k /\ index = i
<1>1. stages' # stages
  OBVIOUS
<1>2. CASE BeginStage \/ StageThrows
  <2>1. stages' = [stages EXCEPT ![runner][index] = "running"] /\ pc = "next"
    BY <1>2 DEF BeginStage, StageThrows
  <2>2. k # runner => stages'[k] = stages[k]
    BY <2>1 DEF IInv, TypeOK
  <2>3. k = runner /\ i # index => stages'[k][i] = stages[k][i]
    BY <2>1 DEF IInv, TypeOK
  <2> QED BY <2>1, <2>2, <2>3
<1>3. CASE StageRefused \/ ChildEnds
  <2>1. \E final \in {"completed", "timeout", "failed"} :
          stages' = [stages EXCEPT ![runner][index] = final]
    <3>1. CASE StageRefused
      BY <1>1, <3>1 DEF StageRefused
    <3>2. CASE ChildEnds
      BY <3>2 DEF ChildEnds, ChildEnded, CloseStage, FinalStatus
    <3> QED BY <1>3, <3>1, <3>2
  <2>2. PICK final \in {"completed", "timeout", "failed"} :
          stages' = [stages EXCEPT ![runner][index] = final]
    BY <2>1
  <2>3. stages'[k][i] \in {stages[k][i], final}
    <3>1. k # runner => stages'[k] = stages[k]
      BY <2>2 DEF IInv, TypeOK
    <3>2. k = runner /\ i # index => stages'[k][i] = stages[k][i]
      BY <2>2 DEF IInv, TypeOK
    <3>3. k = runner /\ i = index => stages'[k][i] = final
      BY <2>2 DEF IInv, TypeOK
    <3> QED BY <3>1, <3>2, <3>3
  <2> QED BY <2>3
<1>4. CASE ~(BeginStage \/ StageThrows \/ StageRefused \/ ChildEnds)
  BY <1>1, <1>4
  DEF Next, Start, DispatchNewThread, WorktreeFailed, WorktreeReady, DispatchFollowUp,
      StartPipeline, OtherTurn, ReviewDiffs, LoopHead, HardCapBetweenStages, LeakedTimeout,
      ChildTimeout, CaptureEnds, Captured, FinalCaptured, CaptureFailed, CheckpointAnswered,
      CheckpointInterrupted, HardCapPasses, Stop, StopOrphan, StoppingDeadline, DeleteProject,
      Restart, vars, rowVars
<1> QED BY <1>2, <1>3, <1>4

(* The reviewer never starts over pending diffs unless the user answered   *)
(* the checkpoint of this pipeline: neither the stop, the clock nor a gate *)
(* that could not be stored lets the loop go on (runCheckpointGate).       *)
THEOREM ReviewerAsked == Spec => ReviewerNeedsAnswer
<1>1. ASSUME IInv, [Next]_vars
      PROVE  [\A k \in Pipelines :
                stages[k][3] = "none" /\ stages'[k][3] = "running" /\ pending
                  => gate[k] = "resolved"]_vars
  <2> SUFFICES ASSUME NEW k \in Pipelines,
                      stages[k][3] = "none", stages'[k][3] = "running", pending
               PROVE  gate[k] = "resolved"
    OBVIOUS
  <2>1. pc = "next" /\ runner = k /\ index = 3
    BY <1>1, StageStarts, StageFacts
  <2>2. runner # 0
    BY <2>1, PipelineAssumption DEF Pipelines
  <2> QED BY <1>1, <2>1, <2>2 DEF IInv, RunnerInv
<1> QED BY <1>1, Invariant, PTL DEF Spec, ReviewerNeedsAnswer

(* A stop that a running pipeline accepted ends it as a cancel, whatever   *)
(* error it surfaces as (the catch block of runPipelineCommand).           *)
THEOREM StopCancels == Spec => StopIsACancel
<1>1. ASSUME IInv, [Next]_vars
      PROVE  [stopped /\ Exists /\ runner # 0 /\ runner' = 0 /\ status' # status =>
                status'[runner] \in {"cancelled", "completed"} /\ state' = "cancelled"]_vars
  <2> SUFFICES ASSUME stopped, Exists, runner # 0, runner' = 0, status' # status
               PROVE  status'[runner] \in {"cancelled", "completed"} /\ state' = "cancelled"
    OBVIOUS
  <2>1. runner \in Pipelines /\ status \in [Pipelines -> PipelineStatus \cup {"none"}]
    BY <1>1 DEF IInv, TypeOK
  <2>2. state \in {"stopping", "cancelled"} /\ state \in ThreadStates \cup {Unborn, Deleted}
    BY <1>1, States DEF Exists, IInv, ThreadInv, TypeOK
  <2>3. ApplyTransition(state, "cancel_settled") = "cancelled"
        /\ ApplyTransition(state, "turn_finished") = "cancelled"
    <3>1. {"cancel_settled", "turn_finished"} \subseteq TurnEvents
      BY DEF TurnEvents
    <3> QED BY <2>2, <3>1, States, Reducer
  <2>4. ASSUME NEW o \in {"failed", "timeout"}, Settle(o)
        PROVE  status'[runner] = "cancelled" /\ state' = "cancelled"
    BY <2>1, <2>3, <2>4 DEF Settle, Outcome, Transition
  <2>5. ASSUME Complete PROVE status'[runner] = "completed" /\ state' = "cancelled"
    BY <2>1, <2>3, <2>5 DEF Complete, Transition
  <2>6. (\E o \in {"failed", "timeout"} : Settle(o)) \/ Complete
    <3>1. CASE LoopHead
      BY <3>1 DEF LoopHead, BeginStage, StageRefused, StageThrows, HardCapBetweenStages
    <3>2. CASE ChildEnds
      BY <3>2 DEF ChildEnds, ChildEnded
    <3>3. CASE CaptureEnds \/ CheckpointInterrupted
      BY <3>3 DEF CaptureEnds, Captured, FinalCaptured, CaptureFailed, CheckpointInterrupted
    <3>4. CASE Start
      BY <1>1, <3>4 DEF Start, DispatchNewThread, WorktreeFailed, WorktreeReady, DispatchFollowUp,
         IInv, RunnerInv
    <3>5. CASE ~(LoopHead \/ ChildEnds \/ CaptureEnds \/ CheckpointInterrupted \/ Start)
      BY <1>1, <3>5
      DEF Next, OtherTurn, ReviewDiffs, LeakedTimeout, ChildTimeout, CheckpointAnswered, HardCapPasses, Stop,
          StopOrphan, StoppingDeadline, DeleteProject, Restart, vars, rowVars, runVars
    <3> QED BY <3>1, <3>2, <3>3, <3>4, <3>5
  <2> QED BY <2>4, <2>5, <2>6
<1> QED BY <1>1, Invariant, PTL DEF Spec, StopIsACancel

-----------------------------------------------------------------------------
(***************************************************************************)
(* The row of the thread implements ThreadContract.                        *)
(***************************************************************************)

LEMMA SameVocabulary ==
  /\ Contract!LiveStates = LiveStates /\ Contract!SettledStates = SettledStates
  /\ Contract!ThreadStates = ThreadStates /\ Contract!BusyStates = CancellableStates
BY DEF Contract!LiveStates, Contract!SettledStates, Contract!ThreadStates, Contract!BusyStates,
   LiveStates, SettledStates, ThreadStates, CancellableStates

(* The actions of the contract, for the one thread.                        *)
LEMMA IsQuiet ==
  ASSUME state' = state, pc' = "none" <=> pc = "none"
  PROVE  Contract!Next
BY DEF Contract!Next, Contract!Step, Contract!Quiet

LEMMA IsStart ==
  ASSUME pc = "none", pc' # "none", state \in SettledStates \cup {Unborn}, state' = "running"
  PROVE  Contract!Next
BY SameVocabulary
DEF Contract!Next, Contract!Step, Contract!Start, Contract!Starts, Contract!InitialTurnState

LEMMA IsWait ==
  ASSUME pc # "none", pc' # "none", state \in LiveStates, state' \in LiveStates
  PROVE  Contract!Next
BY SameVocabulary DEF Contract!Next, Contract!Step, Contract!Wait, Contract!GoesOn

LEMMA IsStop ==
  ASSUME pc # "none", pc' # "none", state \in CancellableStates,
         state' \in {"stopping", "cancelled"}
  PROVE  Contract!Next
BY SameVocabulary DEF Contract!Next, Contract!Step, Contract!Stop, Contract!GoesOn

LEMMA IsEnd ==
  ASSUME pc # "none", pc' = "none",
         \/ state \in LiveStates /\ state' \in {"idle", "error"}
         \/ state = "stopping" /\ state' = "cancelled"
         \/ state \notin CancellableStates /\ state' = state
  PROVE  Contract!Next
BY SameVocabulary DEF Contract!Next, Contract!Step, Contract!End, Contract!Ends

LEMMA IsReview ==
  ASSUME pc = "none", pc' = "none", state \in SettledStates, state' \in {"idle", "committed"}
  PROVE  Contract!Next
BY SameVocabulary DEF Contract!Next, Contract!Step, Contract!Review, Contract!Rests

LEMMA IsDelete ==
  ASSUME pc' = "none" <=> pc = "none", state \in ThreadStates, state' = Deleted
  PROVE  Contract!Next
BY SameVocabulary DEF Contract!Next, Contract!Step, Contract!Delete

LEMMA IsRestart ==
  ASSUME pc' = "none", state' = IF state \in CancellableStates THEN "interrupted" ELSE state
  PROVE  Contract!Next
BY SameVocabulary DEF Contract!Next, Contract!Step, Contract!Restart

(* A row says stopping only while the stop is remembered.                  *)
StoppingIsRequested == state = "stopping" => stopped

ContractInv == IInv /\ StoppingIsRequested

(* The end of a pipeline settles the row.                                  *)
LEMMA EndKeepsContract ==
  ASSUME ContractInv, runner # 0, EndSession,
         NEW e \in {"cancel_settled", "turn_finished"}, Transition(e),
         e = "cancel_settled" => stopped
  PROVE  Contract!Next /\ StoppingIsRequested'
<1>1. pc # "none" /\ pc' = "none" /\ state' = ApplyTransition(state, e)
  BY DEF ContractInv, IInv, RunnerInv, EndSession, Transition
<1>2. CASE state \in LiveStates
  <2>1. ~stopped
    BY <1>2, PipelineAssumption DEF ContractInv, IInv, ThreadInv, LiveStates, ThreadStates
  <2>2. state' = "idle"
    BY <1>1, <1>2, <2>1 DEF ApplyTransition, Legal, Target, LiveStates
  <2> QED BY <1>1, <1>2, <2>2, IsEnd DEF StoppingIsRequested
<1>3. CASE state = "stopping"
  <2>1. state' = "cancelled"
    BY <1>1, <1>3 DEF ApplyTransition, Legal, Target, LiveStates
  <2> QED BY <1>1, <1>3, <2>1, IsEnd DEF StoppingIsRequested
<1>4. CASE state \in {"cancelled", Deleted}
  <2>1. state' = state /\ state \notin CancellableStates
    BY <1>1, <1>4, PipelineAssumption
    DEF ApplyTransition, Legal, Target, LiveStates, ThreadStates, SettledStates, CancellableStates
  <2> QED BY <1>1, <2>1, IsEnd DEF StoppingIsRequested, CancellableStates
<1> QED BY <1>2, <1>3, <1>4 DEF ContractInv, IInv, ThreadInv, CancellableStates

LEMMA SettleKeepsContract ==
  ASSUME ContractInv, runner # 0, NEW o \in {"failed", "timeout"}, Settle(o)
  PROVE  Contract!Next /\ StoppingIsRequested'
<1> DEFINE e == IF Outcome(o) = "cancelled" THEN "cancel_settled" ELSE "turn_finished"
<1>1. e = "cancel_settled" => stopped
  BY DEF Outcome
<1>2. Transition(e) /\ EndSession /\ e \in {"cancel_settled", "turn_finished"}
  BY DEF Settle
<1> HIDE DEF e
<1> QED BY <1>1, <1>2, EndKeepsContract

LEMMA CompleteKeepsContract ==
  ASSUME ContractInv, runner # 0, Complete
  PROVE  Contract!Next /\ StoppingIsRequested'
BY EndKeepsContract DEF Complete

(* A checkpoint that opens or is answered does something to a live row     *)
(* only.                                                                   *)
LEMMA GateKeepsContract ==
  ASSUME ContractInv, pc # "none", pc' # "none", UNCHANGED stopped,
         NEW e \in {"gate_opened_question", "gates_closed"}, Transition(e)
  PROVE  Contract!Next /\ StoppingIsRequested'
<1>1. CASE state' = state
  BY <1>1, IsQuiet DEF ContractInv, StoppingIsRequested
<1>2. CASE state' # state
  <2>1. state \in LiveStates /\ state' \in LiveStates
    BY <1>2 DEF Transition, ApplyTransition, Legal, Target, LiveStates
  <2>2. state' # "stopping"
    BY <2>1 DEF LiveStates
  <2> QED BY <2>1, <2>2, IsWait DEF StoppingIsRequested
<1> QED BY <1>1, <1>2

LEMMA SameKeepsContract ==
  ASSUME ContractInv, state' = state, pc' = "none" <=> pc = "none", stopped => stopped'
  PROVE  Contract!Next /\ StoppingIsRequested'
BY IsQuiet DEF ContractInv, StoppingIsRequested

LEMMA ContractStep ==
  ASSUME ContractInv, [Next]_vars
  PROVE  (OtherTurn \/ Contract!Next) /\ StoppingIsRequested'
<1> USE PipelineAssumption
<1> DEFINE Goal == Contract!Next /\ StoppingIsRequested'
<1>a. /\ IInv /\ TypeOK /\ (state = "stopping" => stopped)
      /\ runner # 0 <=> pc \notin {"none", "worktree"}
      /\ pc = "none" => state \notin CancellableStates
      /\ stopped => runner # 0
  BY DEF ContractInv, IInv, StoppingIsRequested, RunnerInv, ThreadInv
<1> HIDE DEF Goal
<1>1. CASE Start
  <2>1. CASE DispatchNewThread
    <3>1. pc = "none" /\ pc' # "none" /\ state = Unborn /\ state' = "running"
      BY <2>1 DEF DispatchNewThread, InitialTurnState
    <3> QED BY <3>1, IsStart DEF Goal, StoppingIsRequested
  <2>2. ASSUME NEW c \in Commands, WorktreeReady(c) PROVE Goal
    BY <2>2, <1>a, SameKeepsContract DEF WorktreeReady, StartPipeline, Goal
  <2>3. ASSUME NEW c \in Commands, DispatchFollowUp(c) PROVE Goal
    <3>1. pc = "none" /\ pc' # "none" /\ state \in SettledStates /\ state' = "running"
      BY <2>3 DEF DispatchFollowUp, StartPipeline, Transition, ApplyTransition, Legal, Target
    <3> QED BY <3>1, IsStart DEF Goal, StoppingIsRequested
  <2>4. CASE WorktreeFailed
    <3>1. pc # "none" /\ pc' = "none" /\ state' = ApplyTransition(state, "turn_failed")
      BY <2>4 DEF WorktreeFailed, Transition
    <3>2. state \in {"running", "cancelled", Deleted}
      BY <2>4, <1>a DEF WorktreeFailed, IInv, ThreadInv
    <3>3. \/ state \in LiveStates /\ state' = "error"
          \/ state \notin CancellableStates /\ state' = state /\ state' # "stopping"
      BY <3>1, <3>2
      DEF ApplyTransition, Legal, Target, LiveStates, ThreadStates, CancellableStates
    <3>4. state' # "stopping"
      BY <3>3
    <3> QED BY <3>1, <3>3, <3>4, IsEnd DEF Goal, StoppingIsRequested
  <2> QED BY <1>1, <2>1, <2>2, <2>3, <2>4 DEF Start, Goal
<1>2. CASE OtherTurn
  BY <1>2 DEF OtherTurn, StoppingIsRequested
<1>3. CASE ReviewDiffs
  <2>1. PICK e \in {"diffs_settled", "diffs_committed"} : state' = ApplyTransition(state, e)
    BY <1>3 DEF ReviewDiffs, Transition
  <2>2. pc = "none" /\ pc' = "none" /\ state \in ThreadStates
    BY <1>3 DEF ReviewDiffs, runVars, Exists
  <2>3. state \in SettledStates
    BY <2>2, <1>a DEF ThreadStates, CancellableStates
  <2>4. state' \in {"idle", "committed"}
    BY <2>1, <2>3 DEF ApplyTransition, Legal, Target, SettledStates
  <2>5. state' # "stopping"
    BY <2>4
  <2> QED BY <2>2, <2>3, <2>4, <2>5, IsReview DEF Goal, StoppingIsRequested
<1>4. CASE LoopHead
  <2>1. runner # 0
    BY <1>4, <1>a DEF LoopHead, BeginStage, StageRefused, StageThrows, HardCapBetweenStages
  <2>2. CASE BeginStage
    BY <2>2, SameKeepsContract DEF BeginStage, sessionVars, Goal
  <2> QED BY <1>4, <2>1, <2>2, SettleKeepsContract
          DEF LoopHead, StageRefused, StageThrows, HardCapBetweenStages, Goal
<1>5. CASE ChildTimeout
  BY <1>5, SameKeepsContract DEF ChildTimeout, sessionVars, runVars, Goal
<1>6. ASSUME NEW exit \in {"completed", "error"}, ChildEnded(exit) PROVE Goal
  <2>1. runner # 0 /\ pc # "none"
    BY <1>6, <1>a DEF ChildEnded
  <2>2. \/ Settle("failed") \/ Complete
        \/ pc' = AfterStage(command[runner], index) /\ UNCHANGED <<state, stopped>>
    BY <1>6 DEF ChildEnded, sessionVars
  <2>3. CASE pc' = AfterStage(command[runner], index) /\ UNCHANGED <<state, stopped>>
    <3>1. pc' # "none"
      BY <2>3 DEF AfterStage
    <3> QED BY <2>1, <2>3, <3>1, SameKeepsContract DEF Goal
  <2> QED BY <2>1, <2>2, <2>3, SettleKeepsContract, CompleteKeepsContract DEF Goal
<1>7. CASE CaptureEnds
  <2>1. runner # 0 /\ pc # "none"
    BY <1>7, <1>a DEF CaptureEnds, Captured, FinalCaptured, CaptureFailed
  <2>2. CASE Captured
    <3>1. pc' # "none" /\ stopped' = stopped
          /\ (UNCHANGED state \/ Transition("gate_opened_question"))
      BY <2>2 DEF Captured, sessionVars
    <3> QED BY <2>1, <3>1, SameKeepsContract, GateKeepsContract DEF Goal
  <2> QED BY <1>7, <2>1, <2>2, SettleKeepsContract, CompleteKeepsContract
          DEF CaptureEnds, FinalCaptured, CaptureFailed, Goal
<1>8. CASE CheckpointAnswered
  BY <1>8, GateKeepsContract DEF CheckpointAnswered, sessionVars, Goal
<1>9. CASE CheckpointInterrupted
  <2>1. runner # 0
    BY <1>9, <1>a DEF CheckpointInterrupted
  <2> QED BY <1>9, <2>1, SettleKeepsContract DEF CheckpointInterrupted, Goal
<1>10. CASE HardCapPasses
  BY <1>10, SameKeepsContract DEF HardCapPasses, sessionVars, Goal
<1>11. CASE Stop
  <2>1. pc # "none" /\ pc' = pc /\ stopped' /\ state' = ApplyTransition(state, "cancel_requested")
    BY <1>11, <1>a DEF Stop, Cancellable, runVars, Transition
  <2>2. CASE state' = state
    BY <2>1, <2>2, SameKeepsContract DEF Goal
  <2>3. CASE state' # state
    <3>1. state \in CancellableStates /\ state' = "stopping"
      BY <2>1, <2>3 DEF ApplyTransition, Legal, Target, CancellableStates
    <3> QED BY <2>1, <3>1, IsStop DEF Goal, StoppingIsRequested
  <2> QED BY <2>2, <2>3
<1>12. CASE StopOrphan
  <2>1. /\ state \in CancellableStates /\ pc' = pc
        /\ state' = ApplyTransition(state, "cancel_settled")
    BY <1>12 DEF StopOrphan, runVars, Transition
  <2>2. pc # "none"
    BY <2>1, <1>a
  <2>3. state' = "cancelled"
    BY <2>1 DEF ApplyTransition, Legal, Target, CancellableStates, LiveStates
  <2> QED BY <2>1, <2>2, <2>3, IsStop DEF Goal, StoppingIsRequested
<1>13. CASE StoppingDeadline
  <2>1. pc' = pc /\ stopped' = stopped
    BY <1>13 DEF StoppingDeadline, runVars
  <2>2. CASE state = "stopping"
    <3>1. state' = "cancelled" /\ pc # "none" /\ state \in CancellableStates
      BY <1>13, <2>2, <1>a
      DEF StoppingDeadline, Transition, ApplyTransition, Legal, Target, CancellableStates
    <3> QED BY <2>1, <3>1, IsStop DEF Goal, StoppingIsRequested
  <2>3. CASE state # "stopping"
    BY <1>13, <2>1, <2>3, SameKeepsContract DEF StoppingDeadline, Goal
  <2> QED BY <2>2, <2>3
<1>14. CASE DeleteProject
  <2>1. state \in ThreadStates /\ state' = Deleted /\ pc' = pc
    BY <1>14 DEF DeleteProject, Exists, runVars
  <2>2. state' # "stopping"
    BY <2>1 DEF ThreadStates
  <2> QED BY <2>1, <2>2, IsDelete DEF Goal, StoppingIsRequested
<1>15. CASE Restart
  <2>1. pc' = "none" /\ state' = IF state \in CancellableStates THEN "interrupted" ELSE state
    BY <1>15 DEF Restart, EndSession
  <2>2. state' # "stopping"
    BY <2>1 DEF CancellableStates
  <2> QED BY <2>1, <2>2, IsRestart DEF Goal, StoppingIsRequested
<1>16. CASE UNCHANGED vars
  BY <1>16, SameKeepsContract DEF vars, runVars, sessionVars, Goal
<1>17. ASSUME NEW k \in Pipelines, NEW i \in Indices, LeakedTimeout(k, i) PROVE Goal
  BY <1>17, SameKeepsContract DEF LeakedTimeout, sessionVars, runVars, Goal
<1> QED BY <1>1, <1>2, <1>3, <1>4, <1>5, <1>6, <1>7, <1>8, <1>9, <1>10, <1>11, <1>12, <1>13,
           <1>14, <1>15, <1>16, <1>17
        DEF Next, ChildEnds, Goal

(* A slash command keeps the contract of the row at each of its steps, for *)
(* any number of them.                                                     *)
THEOREM RowKeepsContract == Spec => ContractKept
<1>1. Init => ContractInv /\ Contract!Init
  <2>1. Init => StoppingIsRequested
    BY PipelineAssumption DEF Init, StoppingIsRequested, ThreadStates
  <2> QED BY <2>1, InitHolds DEF ContractInv, Init, Contract!Init
<1>2. ContractInv /\ [Next]_vars => ContractInv'
  BY ContractStep, StepHolds DEF ContractInv
<1>3. ContractInv /\ [Next]_vars => [OtherTurn \/ Contract!Next]_vars
  BY ContractStep
<1> QED BY <1>1, <1>2, <1>3, PTL DEF Spec, ContractKept

=============================================================================
