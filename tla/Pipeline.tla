------------------------------- MODULE Pipeline -------------------------------
(***************************************************************************)
(* Slash commands: services/runner/pipeline-runner.ts with the delegated   *)
(* run of each stage (delegate.ts), the rows of db/repositories/           *)
(* pipelines.ts, and what dispatch.ts does to the pipelines of a thread:   *)
(* start, Stop, stopping deadline, orphan path, and the next boot.         *)
(*                                                                         *)
(* One thread.  The turns of a thread never overlap (NoTurnOverTurn of     *)
(* TurnLifecycle), so at most one pipeline runs; earlier ones are rows.    *)
(* Pipelines are numbered in the order of started_at.  A step is a block   *)
(* between two awaits, except that the head of the stage loop is a step of *)
(* its own ("next"), entered with nothing awaited in between.              *)
(***************************************************************************)
EXTENDS TurnState, Integers, Sequences, FiniteSetsExt

CONSTANTS MaxPipelines,  \* bound: pipelines of the thread
          Unborn,        \* the thread is not created yet
          Deleted        \* its row is gone, and every row below it

ASSUME PipelineAssumption ==
  /\ MaxPipelines \in Nat
  /\ Unborn \notin ThreadStates /\ Deleted \notin ThreadStates /\ Unborn # Deleted

VARIABLES
  state,      \* threads.state, Unborn or Deleted
  pending,    \* the thread has diffs with status pending
  command,    \* pipelines.command
  status,     \* pipelines.status
  stages,     \* pipeline_stages.status, by stage index
  runs,       \* subagent_runs.status of the child of a stage
  unstarted,  \* whether the child of a stage never started, and its watchdog
  gate,       \* the question gate of the checkpoint
  runner,     \* the pipeline runPipelineCommand is running, or 0
  pc,         \* what it waits for
  index,      \* the stage it is at
  capped,     \* two hours have passed since started_at
  stopped,    \* session.cancelRequested, and the aborted controller
  settled,    \* session.settled
  deadline    \* the stopping deadline is armed

rowVars == <<command, status, stages, runs, unstarted, gate>>
runVars == <<runner, pc, index, capped>>
sessionVars == <<stopped, settled, deadline>>
vars == <<state, pending, rowVars, runVars, sessionVars>>

Pipelines == 1..MaxPipelines
Commands == {"spec", "featdevelop", "featbuild"}
FeatdevelopStages == <<"planner", "implementer", "reviewer", "tester">>

StagesOf(c) ==
  IF c = "featdevelop" THEN FeatdevelopStages
  ELSE IF c = "spec" THEN <<"planner">> ELSE <<"implementer">>

Indices == 1..Len(FeatdevelopStages)
Active == {"running", "waiting_checkpoint"}
PipelineStatus == Active \cup {"completed", "failed", "cancelled", "timeout"}
StageStatus == {"running", "completed", "failed", "timeout"}
RunStatus == {"running", "completed", "error", "timeout"}
CancellableStates == LiveStates \cup {"stopping"}

TypeOK ==
  /\ state \in ThreadStates \cup {Unborn, Deleted}
  /\ pending \in BOOLEAN
  /\ command \in [Pipelines -> Commands \cup {"none"}]
  /\ status \in [Pipelines -> PipelineStatus \cup {"none"}]
  /\ stages \in [Pipelines -> [Indices -> StageStatus \cup {"none"}]]
  /\ runs \in [Pipelines -> [Indices -> RunStatus \cup {"none"}]]
  /\ unstarted \in [Pipelines -> {"no", "ticking", "still"}]
  /\ gate \in [Pipelines -> {"none", "open", "resolved", "expired"}]
  /\ runner \in Pipelines \cup {0}
  /\ pc \in {"none", "worktree", "next", "stage", "capture", "checkpoint", "final"}
  /\ index \in Indices \cup {0}
  /\ capped \in BOOLEAN /\ stopped \in BOOLEAN /\ settled \in BOOLEAN /\ deadline \in BOOLEAN

Exists == state \in ThreadStates

Init ==
  /\ state \in {"idle", Unborn}
  /\ pending \in IF state = "idle" THEN BOOLEAN ELSE {FALSE}
  /\ command = [k \in Pipelines |-> "none"]
  /\ status = [k \in Pipelines |-> "none"]
  /\ stages = [k \in Pipelines |-> [i \in Indices |-> "none"]]
  /\ runs = [k \in Pipelines |-> [i \in Indices |-> "none"]]
  /\ unstarted = [k \in Pipelines |-> "no"]
  /\ gate = [k \in Pipelines |-> "none"]
  /\ runner = 0 /\ pc = "none" /\ index = 0 /\ capped = FALSE
  /\ stopped = FALSE /\ settled = FALSE /\ deadline = FALSE

-----------------------------------------------------------------------------
(* Pieces of the runner.                                                   *)

Transition(event) == state' = ApplyTransition(state, event)

Stage == StagesOf(command[runner])[index]

(* endTurnSession                                                          *)
EndSession ==
  /\ runner' = 0 /\ pc' = "none" /\ index' = 0 /\ capped' = FALSE
  /\ stopped' = FALSE /\ settled' = FALSE /\ deadline' = FALSE

(* Mutant: the outcome is read from the error alone.                       *)
OutcomeOfError(outcome) == outcome

(* The catch block: a pipeline the user stopped is cancelled, whatever the *)
(* error was.                                                              *)
Outcome(outcome) == IF stopped THEN "cancelled" ELSE outcome

Settle(outcome) ==
  /\ status' = [status EXCEPT ![runner] = Outcome(outcome)]
  /\ Transition(IF Outcome(outcome) = "cancelled" THEN "cancel_settled" ELSE "turn_finished")
  /\ EndSession

Complete ==
  /\ status' = [status EXCEPT ![runner] = "completed"]
  /\ Transition("turn_finished")
  /\ EndSession

-----------------------------------------------------------------------------
(* The start.  A slash command on a new thread may wait for its worktree   *)
(* first, without a session and without a row.                             *)

DispatchNewThread ==
  /\ state = Unborn /\ pc = "none"
  /\ state' = InitialTurnState
  /\ pc' = "worktree"
  /\ UNCHANGED <<pending, rowVars, runner, index, capped, sessionVars>>

(* runPipelineCommand up to the first stage.                               *)
StartPipeline(c) ==
  /\ \E k \in Pipelines :
       /\ status[k] = "none" /\ (k > 1 => status[k - 1] # "none")
       /\ runner' = k
       /\ command' = [command EXCEPT ![k] = c]
       /\ status' = [status EXCEPT ![k] = "running"]
  /\ pc' = "next" /\ index' = 1 /\ capped' = FALSE
  /\ stopped' = FALSE /\ settled' = FALSE /\ deadline' = FALSE
  /\ UNCHANGED <<pending, stages, runs, unstarted, gate>>

WorktreeReady(c) ==
  /\ pc = "worktree" /\ Exists
  /\ StartPipeline(c)
  /\ UNCHANGED state

(* createWorktree failed, or the thread went away meanwhile.               *)
WorktreeFailed ==
  /\ pc = "worktree"
  /\ Transition("turn_failed")
  /\ pc' = "none"
  /\ UNCHANGED <<pending, rowVars, runner, index, capped, sessionVars>>

DispatchFollowUp(c) ==
  /\ pc = "none" /\ Exists
  /\ Legal(state, "follow_up")
  /\ Transition("follow_up")
  /\ StartPipeline(c)

(* Between two pipelines: a turn without a command, as a whole, and the    *)
(* review of the diffs.                                                    *)
OtherTurn ==
  /\ pc = "none" /\ Exists
  /\ Legal(state, "follow_up")
  /\ state' \in {"idle", "error", "cancelled"}
  /\ pending' \in {pending, TRUE}
  /\ UNCHANGED <<rowVars, runVars, sessionVars>>

ReviewDiffs ==
  /\ pc = "none" /\ Exists /\ pending
  /\ pending' \in BOOLEAN
  /\ \/ Transition("diffs_settled")
     \/ ~pending' /\ Transition("diffs_committed")
  /\ UNCHANGED <<rowVars, runVars, sessionVars>>

-----------------------------------------------------------------------------
(* The stages.                                                             *)

(* checkHardCap, in the loop of featdevelop only.                          *)
CapReached == capped /\ command[runner] = "featdevelop"

(* runStage and runDelegatedSubagentTurn up to the await of the child, also*)
(* when the session is already stopped: the child is then born aborted.    *)
BeginStage ==
  /\ pc = "next" /\ ~CapReached /\ Exists
  /\ stages' = [stages EXCEPT ![runner][index] = "running"]
  /\ runs' = [runs EXCEPT ![runner][index] = "running"]
  /\ pc' = "stage"
  /\ UNCHANGED <<state, pending, command, status, unstarted, gate, runner, index, capped, sessionVars>>

(* The vault was locked since the command began, and the key of the child  *)
(* cannot be read (delegate.ts:305).  The rows of the stage and of the run *)
(* are there and the watchdog ticks, and nobody closes any of them.        *)
StageThrows ==
  /\ pc = "next" /\ ~CapReached /\ Exists
  /\ stages' = [stages EXCEPT ![runner][index] = "running"]
  /\ runs' = [runs EXCEPT ![runner][index] = "running"]
  /\ unstarted' = [unstarted EXCEPT ![runner] = "ticking"]
  /\ Settle("failed")
  /\ UNCHANGED <<pending, command, gate>>

(* The watchdog of a child that never started closes its run, however late,*)
(* and leaves the stage as it is.                                          *)
LeakedTimeout(k, i) ==
  /\ unstarted[k] = "ticking" /\ stages[k][i] = "running" /\ runs[k][i] = "running"
  /\ runs' = [runs EXCEPT ![k][i] = "timeout"]
  /\ unstarted' = [unstarted EXCEPT ![k] = "still"]
  /\ UNCHANGED <<state, pending, command, status, stages, gate, runVars, sessionVars>>

(* The subagent is not in the catalogue, or the thread is gone and no row  *)
(* can be written; or the delegation is blocked for this provider and      *)
(* access level, with a row for the stage and no run.                      *)
StageRefused ==
  /\ pc = "next" /\ ~CapReached
  /\ \/ UNCHANGED stages
     \/ Exists /\ stages' = [stages EXCEPT ![runner][index] = "failed"]
  /\ Settle("failed")
  /\ UNCHANGED <<pending, command, runs, unstarted, gate>>

HardCapBetweenStages ==
  /\ pc = "next" /\ CapReached
  /\ Settle("timeout")
  /\ UNCHANGED <<pending, command, stages, runs, unstarted, gate>>

(* The watchdog (silence or two hours): the run is closed as a timeout and *)
(* the child aborted; its end comes later.                                 *)
ChildTimeout ==
  /\ pc = "stage" /\ runs[runner][index] = "running"
  /\ runs' = [runs EXCEPT ![runner][index] = "timeout"]
  /\ UNCHANGED <<state, pending, command, status, stages, unstarted, gate, runVars, sessionVars>>

(* Mutant: the delegation gave a result, so the stage counts as done.      *)
FinalStatusOfResult(run) == "completed"

FinalStatus(run) ==
  IF run = "completed" THEN "completed" ELSE IF run = "timeout" THEN "timeout" ELSE "failed"

(* Mutant: the error is thrown before the row is updated.                  *)
CloseStageOnSuccess(final) ==
  stages' = IF final = "completed" THEN [stages EXCEPT ![runner][index] = final] ELSE stages

CloseStage(final) == stages' = [stages EXCEPT ![runner][index] = final]

Throws(final) == final # "completed"

(* Mutant: the loop is left one stage early.                               *)
AfterStageShort(c, i) ==
  IF c = "featdevelop" /\ StagesOf(c)[i] = "implementer" THEN "capture"
  ELSE IF i + 1 < Len(StagesOf(c)) THEN "next" ELSE "final"

(* Where the runner goes after stage i.                                    *)
AfterStage(c, i) ==
  IF c = "featdevelop" /\ StagesOf(c)[i] = "implementer" THEN "capture"
  ELSE IF i < Len(StagesOf(c)) THEN "next" ELSE "final"

(* The child ended, with a result or an error.  A run the watchdog closed  *)
(* stays a timeout.  /spec does not look at the working tree.              *)
ChildEnded(exit) ==
  /\ pc = "stage"
  /\ LET run == IF runs[runner][index] = "running" THEN exit ELSE runs[runner][index]
         final == FinalStatus(run)
     IN /\ runs' = [runs EXCEPT ![runner][index] = run]
        /\ CloseStage(final)
        /\ \/ Throws(final) /\ Settle("failed")
           \/ ~Throws(final) /\ command[runner] = "spec" /\ Complete
           \/ /\ ~Throws(final) /\ command[runner] # "spec"
              /\ pc' = AfterStage(command[runner], index)
              /\ index' = IF pc' = "next" THEN index + 1 ELSE index
              /\ UNCHANGED <<state, status, runner, capped, sessionVars>>
  /\ UNCHANGED <<pending, command, unstarted, gate>>

(* captureNewDiffs after the implementer of featdevelop.  No gate means it *)
(* could not be persisted.                                                 *)
Captured ==
  /\ pc = "capture" /\ Exists
  /\ pending' \in {pending, TRUE}
  /\ IF pending'
     THEN /\ pc' = "checkpoint"
          /\ status' = [status EXCEPT ![runner] = "waiting_checkpoint"]
          /\ Transition("gate_opened_question")
          /\ \E opened \in {"open", "none"} : gate' = [gate EXCEPT ![runner] = opened]
          /\ UNCHANGED index
     ELSE /\ pc' = "next" /\ index' = index + 1
          /\ UNCHANGED <<state, status, gate>>
  /\ UNCHANGED <<command, stages, runs, unstarted, runner, capped, sessionVars>>

(* captureNewDiffs at the end.                                             *)
FinalCaptured ==
  /\ pc = "final"
  /\ pending' \in {pending, TRUE}
  /\ Complete
  /\ UNCHANGED <<command, stages, runs, unstarted, gate>>

(* git failed, or the diffs of a deleted thread could not be written.      *)
CaptureFailed ==
  /\ pc \in {"capture", "final"}
  /\ Settle("failed")
  /\ UNCHANGED <<pending, command, stages, runs, unstarted, gate>>

-----------------------------------------------------------------------------
(* The checkpoint: a race between the answer, the abort and the hard cap.  *)

CheckpointAnswered ==
  /\ pc = "checkpoint" /\ gate[runner] = "open"
  /\ gate' = [gate EXCEPT ![runner] = "resolved"]
  /\ status' = [status EXCEPT ![runner] = "running"]
  /\ Transition("gates_closed")
  /\ pc' = "next" /\ index' = index + 1
  /\ UNCHANGED <<pending, command, stages, runs, unstarted, runner, capped, sessionVars>>

Expired == [gate EXCEPT ![runner] = IF @ = "open" THEN "expired" ELSE @]

(* Mutants: the abort that came before the checkpoint goes unnoticed; the  *)
(* clock of the checkpoint is never started.                               *)
InterruptedByListener == gate[runner] # "open" \/ capped
InterruptedByUser == gate[runner] # "open" \/ stopped

(* One of the promises rejected: no gate, the gate expired by a stop, the  *)
(* signal aborted (also before the checkpoint), or the clock.              *)
Interrupted == gate[runner] # "open" \/ stopped \/ capped

(* Mutant: whoever breaks the checkpoint, the loop goes on.                *)
ResumesAnyway ==
  /\ pc = "checkpoint" /\ Interrupted
  /\ gate' = Expired
  /\ status' = [status EXCEPT ![runner] = "running"]
  /\ Transition("gates_closed")
  /\ pc' = "next" /\ index' = index + 1
  /\ UNCHANGED <<pending, command, stages, runs, unstarted, runner, capped, sessionVars>>

CheckpointInterrupted ==
  /\ pc = "checkpoint" /\ Interrupted
  /\ gate' = Expired
  /\ Settle(IF gate[runner] = "open" THEN "timeout" ELSE "failed")
  /\ UNCHANGED <<pending, command, stages, runs, unstarted>>

HardCapPasses ==
  /\ runner # 0 /\ ~capped
  /\ capped' = TRUE
  /\ UNCHANGED <<state, pending, rowVars, runner, pc, index, sessionVars>>

-----------------------------------------------------------------------------
(* cancelThread, the stopping deadline, project deletion, the next boot.   *)

Cancellable == runner # 0 /\ ~settled

Stop ==
  /\ Exists /\ Cancellable
  /\ stopped' = TRUE /\ deadline' = TRUE
  /\ gate' = Expired
  /\ Transition("cancel_requested")
  /\ UNCHANGED <<pending, command, status, stages, runs, unstarted, runVars, settled>>

ActivePipelines == {k \in Pipelines : status[k] \in Active}

(* Without a session to abort: getActivePipelineForThread gives the most   *)
(* recent active row.                                                      *)
StopOrphan ==
  /\ Exists /\ ~Cancellable /\ state \in CancellableStates
  /\ gate' = [k \in Pipelines |-> IF gate[k] = "open" THEN "expired" ELSE gate[k]]
  /\ status' = IF ActivePipelines = {} THEN status
               ELSE [status EXCEPT ![Max(ActivePipelines)] = "cancelled"]
  /\ deadline' = FALSE
  /\ Transition("cancel_settled")
  /\ UNCHANGED <<pending, command, stages, runs, unstarted, runVars, stopped, settled>>

StoppingDeadline ==
  /\ deadline
  /\ deadline' = FALSE
  /\ IF state = "stopping"
     THEN gate' = Expired /\ Transition("cancel_settled") /\ settled' = TRUE
     ELSE UNCHANGED <<gate, state, settled>>
  /\ UNCHANGED <<pending, command, status, stages, runs, unstarted, runVars, stopped>>

(* The rows of a deleted thread are not looked at any more.                *)
DeleteProject ==
  /\ Exists
  /\ state' = Deleted
  /\ UNCHANGED <<pending, rowVars, runVars, sessionVars>>

(* recoverInterruptedThreads and expireOrphanGates; no boot step reads     *)
(* pipelines, pipeline_stages or subagent_runs.                            *)
Restart ==
  /\ state' = IF state \in CancellableStates THEN "interrupted" ELSE state
  /\ gate' = [k \in Pipelines |-> IF gate[k] = "open" THEN "expired" ELSE gate[k]]
  /\ unstarted' = [k \in Pipelines |-> IF unstarted[k] = "ticking" THEN "still" ELSE unstarted[k]]
  /\ EndSession
  /\ UNCHANGED <<pending, command, status, stages, runs>>

-----------------------------------------------------------------------------
Start ==
  \/ DispatchNewThread \/ WorktreeFailed
  \/ \E c \in Commands : WorktreeReady(c) \/ DispatchFollowUp(c)

ChildEnds == \E exit \in {"completed", "error"} : ChildEnded(exit)

CaptureEnds == Captured \/ FinalCaptured \/ CaptureFailed

LoopHead == BeginStage \/ StageRefused \/ StageThrows \/ HardCapBetweenStages

Next ==
  \/ Start \/ OtherTurn \/ ReviewDiffs
  \/ LoopHead \/ ChildTimeout \/ ChildEnds \/ CaptureEnds
  \/ \E k \in Pipelines, i \in Indices : LeakedTimeout(k, i)
  \/ CheckpointAnswered \/ CheckpointInterrupted \/ HardCapPasses
  \/ Stop \/ StopOrphan \/ StoppingDeadline
  \/ DeleteProject \/ Restart

Spec == Init /\ [][Next]_vars

(* The runner's own steps, and git, end.  A child that was aborted, by the *)
(* user or by its watchdog, is killed with its process tree.               *)
AbortedChildEnds == (stopped \/ runs[runner][index] = "timeout") /\ ChildEnds

RunnerFairness ==
  /\ WF_vars(LoopHead) /\ WF_vars(CaptureEnds) /\ WF_vars(CheckpointInterrupted)
  /\ WF_vars(pc = "stage" /\ AbortedChildEnds)

SpecRunner == Spec /\ RunnerFairness

(* And time passes: the watchdog and the two hours of the pipeline.        *)
ClockFairness == WF_vars(ChildTimeout) /\ WF_vars(HardCapPasses)

-----------------------------------------------------------------------------
(* Properties.                                                             *)

(* The stages run one after the other, each started only when the one      *)
(* before it was completed.                                                *)
StagesInOrder ==
  Exists => \A k \in Pipelines : \A i \in Indices \ {1} :
    stages[k][i] # "none" => stages[k][i - 1] = "completed"

(* No stage is left running behind a pipeline that ended, whatever ended   *)
(* it: only the stage whose child runs now, or one of a pipeline the end of*)
(* the process cut short, says so.  The exception is a stage whose child   *)
(* never started (delegate.ts:305): it stays running for good, the last    *)
(* stage of its pipeline, and its run has no result.                       *)
RunningStageHasChild ==
  Exists => \A k \in Pipelines : \A i \in Indices :
    stages[k][i] = "running" =>
      \/ /\ status[k] = "running"
         /\ runner = 0 \/ runner > k \/ (runner = k /\ pc = "stage" /\ index = i)
      \/ /\ unstarted[k] # "no" /\ status[k] \in {"failed", "cancelled"}
         /\ runs[k][i] \in {"running", "timeout"}
         /\ \A j \in Indices : j > i => stages[k][j] = "none"

(* A stage is what its run was: the delegation does not throw and does not *)
(* set isError when the child fails or times out (pipeline-runner.ts:178). *)
StageMatchesRun ==
  Exists => \A k \in Pipelines : \A i \in Indices :
    /\ stages[k][i] = "completed" <=> runs[k][i] = "completed"
    /\ stages[k][i] = "timeout" => runs[k][i] = "timeout"
    /\ stages[k][i] = "failed" => runs[k][i] \in {"error", "none"}

(* A pipeline that says completed has completed every stage of its command.*)
CompletedIsWhole ==
  Exists => \A k \in Pipelines :
    status[k] = "completed" =>
      \A i \in 1..Len(StagesOf(command[k])) : stages[k][i] = "completed"

(* The reviewer never starts over pending diffs unless the user answered   *)
(* the checkpoint of this pipeline (pipeline-runner.ts:314-318).           *)
ReviewerNeedsAnswer ==
  [][\A k \in Pipelines :
       stages[k][3] = "none" /\ stages'[k][3] = "running" /\ pending
         => gate[k] = "resolved"]_vars

(* A stop that a running pipeline accepted is not reported as a failure or *)
(* a timeout, and leaves the thread cancelled.                             *)
StopIsACancel ==
  [][stopped /\ Exists /\ runner # 0 /\ runner' = 0 /\ status' # status =>
       status'[runner] \in {"cancelled", "completed"} /\ state' = "cancelled"]_vars

(* After Stop the pipeline ends, wherever it was, without the hard cap:    *)
(* also when the stop came while the diffs were read and a checkpoint was  *)
(* about to open.                                                          *)
StoppedPipelineEnds == stopped ~> runner = 0

(* Once time passes every pipeline ends, and so frees the project, even if *)
(* the user never answers and the provider never speaks.                   *)
PipelineEnds == ClockFairness => \A k \in Pipelines : runner = k ~> runner # k

(* What the row of the thread (here 0) shows, next to whether a pipeline,  *)
(* or the worktree before it, is under way.                                *)
Contract == INSTANCE ThreadContract
  WITH Threads <- {0}, Unborn <- {Unborn},
       state <- [t \in {0} |-> state],
       turning <- IF pc = "none" THEN {} ELSE {0}

(* A slash command keeps the contract of the thread's row, as a turn does  *)
(* (pipeline-runner.ts:352-408): whichever stage, capture or checkpoint it *)
(* ends in, the row settles with it, as cancelled when it was stopped.  The*)
(* turns in between are not cut into steps here.                           *)
ContractKept == Contract!Init /\ [][OtherTurn \/ Contract!Next]_vars

=============================================================================
