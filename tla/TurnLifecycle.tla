--------------------------- MODULE TurnLifecycle ---------------------------
(***************************************************************************)
(* The life of a turn in services/runner: dispatch.ts (new thread, follow  *)
(* up, runTurn, cancelThread), turn-session.ts, project-execution.ts (the  *)
(* project lease), the other users of the lease (diff review, git          *)
(* commands, thread deletion), project deletion, and the reconciliation of *)
(* interrupted threads when the application starts.                        *)
(*                                                                         *)
(* The services run in one Node process, so a step is a block of code      *)
(* between two awaits; everything an await lets in is another action.  A   *)
(* slash command runs runPipelineCommand instead of runTurn under the same *)
(* session and lease: it is the position "pipeline" of a turn.             *)
(***************************************************************************)
EXTENDS TurnState

CONSTANTS Projects,   \* project ids
          Threads,    \* thread ids, each created at most once
          Home,       \* Home[t]: the project thread t belongs to
          Requests,   \* HTTP requests that take the lease (git, review, delete)
          Free,       \* lease[p] when nobody holds the project
          NoThread,   \* ownerThreadId = null
          Unborn,     \* a thread id not created yet
          Deleted     \* a thread whose row is gone

ASSUME LifecycleAssumption ==
  /\ Home \in [Threads -> Projects]
  /\ Free \notin Threads \cup {NoThread}
  /\ NoThread \notin Threads
  /\ Threads \cap Requests = {}
  /\ Unborn \notin ThreadStates /\ Deleted \notin ThreadStates /\ Unborn # Deleted

VARIABLES
  projects,         \* rows of the projects table
  state,            \* threads.state, Unborn or Deleted
  lease,            \* the in-memory lease: Free, or its ownerThreadId
  pc,               \* where the turn of a thread is waiting
  sessions,         \* threads with a TurnSession
  cancelRequested,  \* session.cancelRequested (and its AbortController)
  settled,          \* session.settled
  deadline,         \* sessions whose stopping deadline timer is armed
  procs,            \* turns whose provider process is alive
  stray,            \* provider processes that outlived their turn
  request           \* the lease-taking HTTP requests in flight

sessionVars == <<sessions, cancelRequested, settled, deadline>>
procVars == <<procs, stray>>
vars == <<projects, state, lease, pc, sessionVars, procVars, request>>

(* "worktree": dispatchNewThread awaits createWorktree; the others are     *)
(* inside runTurn (setup, provider, diffs) or runPipelineCommand.          *)
SessionPCs == {"setup", "provider", "diffs", "pipeline"}
PCs == {"none", "worktree"} \cup SessionPCs

Idle == [phase |-> "idle", kind |-> "none", thread |-> NoThread]
RequestKinds == {"reject", "git", "delete"}

TypeOK ==
  /\ projects \subseteq Projects
  /\ state \in [Threads -> ThreadStates \cup {Unborn, Deleted}]
  /\ lease \in [Projects -> Threads \cup {Free, NoThread}]
  /\ pc \in [Threads -> PCs]
  /\ sessions \subseteq Threads
  /\ cancelRequested \subseteq sessions
  /\ settled \subseteq sessions
  /\ deadline \subseteq sessions
  /\ procs \subseteq Threads
  /\ stray \subseteq Threads
  /\ request \in [Requests ->
       {Idle} \cup [phase : {"checked", "holding"}, kind : RequestKinds, thread : Threads]]

Exists(t) == state[t] \in ThreadStates

Init ==
  /\ projects = Projects
  /\ state = [t \in Threads |-> Unborn]
  /\ lease = [p \in Projects |-> Free]
  /\ pc = [t \in Threads |-> "none"]
  /\ sessions = {} /\ cancelRequested = {} /\ settled = {} /\ deadline = {}
  /\ procs = {} /\ stray = {}
  /\ request = [r \in Requests |-> Idle]

-----------------------------------------------------------------------------
(* Pieces of the handlers.                                                 *)

AcquireUnchecked(p, owner) == lease' = [lease EXCEPT ![p] = owner]

(* acquireLease throws when the lease is taken: the caller does nothing.   *)
AcquireLease(p, owner) ==
  /\ lease[p] = Free
  /\ lease' = [lease EXCEPT ![p] = owner]

(* releaseLease does not look at who holds the lease.                      *)
ReleaseLease(p) == lease' = [lease EXCEPT ![p] = Free]

Transition(t, event) == state' = [state EXCEPT ![t] = ApplyTransition(@, event)]

(* startTurnSession: a new session over whatever was registered before.    *)
StartSession(t) ==
  /\ sessions' = sessions \cup {t}
  /\ cancelRequested' = cancelRequested \ {t}
  /\ settled' = settled \ {t}
  /\ deadline' = deadline \ {t}

(* endTurnSession without the release of the lease.                        *)
DropSession(t) ==
  /\ sessions' = sessions \ {t}
  /\ cancelRequested' = cancelRequested \ {t}
  /\ settled' = settled \ {t}
  /\ deadline' = deadline \ {t}

-----------------------------------------------------------------------------
(* Dispatch.                                                               *)

(* dispatchNewThread.  The lease is taken with no owner thread, because the*)
(* thread is not created yet.  A worktree is created before runTurn, so    *)
(* before there is a session.                                              *)
DispatchNewThread(t, first) ==
  /\ Home[t] \in projects
  /\ state[t] = Unborn
  /\ AcquireLease(Home[t], NoThread)
  /\ state' = [state EXCEPT ![t] = InitialTurnState]
  /\ pc' = [pc EXCEPT ![t] = first]
  /\ IF first = "worktree" THEN UNCHANGED sessionVars ELSE StartSession(t)
  /\ UNCHANGED <<projects, procVars, request>>

(* createWorktree resolved: runTurn or runPipelineCommand starts, whatever *)
(* happened meanwhile.  When the row is gone updateThread gives null, the  *)
(* call throws on thread.id, and nobody releases the lease.                *)
WorktreeReady(t, first) ==
  /\ pc[t] = "worktree"
  /\ IF Exists(t)
     THEN pc' = [pc EXCEPT ![t] = first] /\ StartSession(t)
     ELSE pc' = [pc EXCEPT ![t] = "none"] /\ UNCHANGED sessionVars
  /\ UNCHANGED <<projects, state, lease, procVars, request>>

WorktreeFailed(t) ==
  /\ pc[t] = "worktree"
  /\ ReleaseLease(Home[t])
  /\ Transition(t, "turn_failed")
  /\ pc' = [pc EXCEPT ![t] = "none"]
  /\ UNCHANGED <<projects, sessionVars, procVars, request>>

(* dispatchFollowUp: an illegal follow_up releases the lease it has just   *)
(* taken, which leaves everything as it was.                               *)
DispatchFollowUp(t, first) ==
  /\ Exists(t) /\ Home[t] \in projects
  /\ AcquireLease(Home[t], t)
  /\ Legal(state[t], "follow_up")
  /\ Transition(t, "follow_up")
  /\ pc' = [pc EXCEPT ![t] = first]
  /\ StartSession(t)
  /\ UNCHANGED <<projects, procVars, request>>

-----------------------------------------------------------------------------
(* runTurn and runPipelineCommand.                                         *)

(* MCPs and servers are ready: the provider is spawned, also when the turn *)
(* was stopped meanwhile (the driver then kills the tree at once).         *)
SpawnProvider(t) ==
  /\ pc[t] = "setup"
  /\ pc' = [pc EXCEPT ![t] = "provider"]
  /\ procs' = procs \cup {t}
  /\ UNCHANGED <<projects, state, lease, sessionVars, stray, request>>

(* A gate opened by a hook or an MCP call of a provider process, or by the *)
(* checkpoint of a pipeline.  The gates themselves are in module Gates.    *)
GateOpened(t, event) ==
  /\ t \in procs \cup stray \/ pc[t] = "pipeline"
  /\ Transition(t, event)
  /\ UNCHANGED <<projects, lease, pc, sessionVars, procVars, request>>

(* The last gate of the thread was closed by an answer or a timeout.       *)
GatesClosed(t) ==
  /\ t \in procs \cup stray \/ pc[t] \in SessionPCs
  /\ Transition(t, "gates_closed")
  /\ UNCHANGED <<projects, lease, pc, sessionVars, procVars, request>>

(* The process closed and runCliTurn resolved; diffWorkingTree is awaited. *)
ProviderDone(t) ==
  /\ pc[t] = "provider"
  /\ pc' = [pc EXCEPT ![t] = "diffs"]
  /\ procs' = procs \ {t}
  /\ UNCHANGED <<projects, state, lease, sessionVars, stray, request>>

(* Mutant: the finally block releases only a lease that names the thread.  *)
EndTurnByOwner(t, event) ==
  /\ Transition(t, event)
  /\ pc' = [pc EXCEPT ![t] = "none"]
  /\ DropSession(t)
  /\ IF lease[Home[t]] = t THEN ReleaseLease(Home[t]) ELSE UNCHANGED lease

(* The end of a turn: the transition, then the finally block with          *)
(* endTurnSession, which releases the lease.  There is no await between.   *)
EndTurn(t, event) ==
  /\ Transition(t, event)
  /\ pc' = [pc EXCEPT ![t] = "none"]
  /\ DropSession(t)
  /\ ReleaseLease(Home[t])

TurnFinished(t) ==
  /\ pc[t] = "diffs"
  /\ EndTurn(t, "turn_finished")
  /\ UNCHANGED <<projects, procVars, request>>

(* Mutant: the catch block reads the outcome from the error alone.         *)
FailureEventBlind(t) == "turn_failed"

(* catch: a turn the user stopped settles as cancelled, any other failure  *)
(* as an error.                                                            *)
FailureEvent(t) == IF t \in cancelRequested THEN "cancel_settled" ELSE "turn_failed"

(* Setup, the process (spawn failure, exit code, kill) or diff collection  *)
(* failed.                                                                 *)
TurnFailed(t) ==
  /\ pc[t] \in {"setup", "provider", "diffs"}
  /\ EndTurn(t, FailureEvent(t))
  /\ procs' = procs \ {t}
  /\ UNCHANGED <<projects, stray, request>>

(* A result line with is_error rejects runCliTurn before the process has   *)
(* closed: the turn ends, the process stays.                               *)
TurnFailedEarly(t) ==
  /\ pc[t] = "provider"
  /\ EndTurn(t, FailureEvent(t))
  /\ procs' = procs \ {t}
  /\ stray' = stray \cup {t}
  /\ UNCHANGED <<projects, request>>

StrayExit(t) ==
  /\ t \in stray
  /\ stray' = stray \ {t}
  /\ UNCHANGED <<projects, state, lease, pc, sessionVars, procs, request>>

(* A pipeline settles with turn_finished when it completed, failed or timed*)
(* out, with cancel_settled when it was cancelled.                         *)
PipelineEnd(t) ==
  /\ pc[t] = "pipeline"
  /\ \/ EndTurn(t, "turn_finished")   \* also when it completed although stopped
     \/ t \in cancelRequested /\ EndTurn(t, "cancel_settled")
  /\ UNCHANGED <<projects, procVars, request>>

-----------------------------------------------------------------------------
(* Stop.                                                                   *)

CancellableStates == {"running", "stopping", "waiting_user", "waiting_permission"}

(* getCancellableTurnSession                                               *)
Cancellable(t) == t \in sessions \ settled

(* armStoppingDeadline: a timer that was running is replaced.              *)
ArmStoppingDeadline(t) == deadline' = deadline \cup {t}

(* cancelThread with a live session.  The gates are expired and the servers*)
(* closed in the same block; the abort kills the process tree.             *)
StopSession(t) ==
  /\ Exists(t)
  /\ Cancellable(t)
  /\ cancelRequested' = cancelRequested \cup {t}
  /\ ArmStoppingDeadline(t)
  /\ Transition(t, "cancel_requested")
  /\ UNCHANGED <<projects, lease, pc, sessions, settled, procVars, request>>

(* The lease is per project: only the one this thread owns is released.    *)
ReleaseIfOwner(t) ==
  IF lease[Home[t]] = t THEN ReleaseLease(Home[t]) ELSE UNCHANGED lease

(* cancelThread without a session it could abort.                          *)
StopOrphan(t) ==
  /\ Exists(t)
  /\ ~Cancellable(t)
  /\ state[t] \in CancellableStates
  /\ ReleaseIfOwner(t)
  /\ deadline' = deadline \ {t}
  /\ Transition(t, "cancel_settled")
  /\ UNCHANGED <<projects, pc, sessions, cancelRequested, settled, procVars, request>>

(* Mutant: the timer gives the project up together with the turn.          *)
StoppingDeadlineReleases(t) ==
  /\ t \in deadline
  /\ deadline' = deadline \ {t}
  /\ IF state[t] = "stopping"
     THEN Transition(t, "cancel_settled") /\ settled' = settled \cup {t} /\ ReleaseLease(Home[t])
     ELSE UNCHANGED <<state, settled, lease>>
  /\ UNCHANGED <<projects, pc, sessions, cancelRequested, procVars, request>>

(* The 8 s timer of armStoppingDeadline.  The turn is settled in the       *)
(* database but keeps its session and its lease until its finally block.   *)
StoppingDeadline(t) ==
  /\ t \in deadline
  /\ deadline' = deadline \ {t}
  /\ IF state[t] = "stopping"
     THEN Transition(t, "cancel_settled") /\ settled' = settled \cup {t}
     ELSE UNCHANGED <<state, settled>>
  /\ UNCHANGED <<projects, lease, pc, sessions, cancelRequested, procVars, request>>

-----------------------------------------------------------------------------
(* The other users of the lease.                                           *)

(* applyDiffAction "accept" runs from acquireLease to releaseLease without *)
(* an await, so the project is only seen free before and after it.         *)
AcceptDiffs(t, event) ==
  /\ Exists(t) /\ Home[t] \in projects
  /\ lease[Home[t]] = Free
  /\ Transition(t, event)
  /\ UNCHANGED <<projects, lease, pc, sessionVars, procVars, request>>

(* "reject" awaits discardFile; a deletion awaits removeWorktreeIfSafe.    *)
(* Both take the lease first.                                              *)
RequestBegin(r, kind, t) ==
  /\ kind \in {"reject", "delete"}
  /\ request[r] = Idle
  /\ Exists(t) /\ Home[t] \in projects
  /\ AcquireLease(Home[t], t)
  /\ request' = [request EXCEPT ![r] = [phase |-> "holding", kind |-> kind, thread |-> t]]
  /\ UNCHANGED <<projects, state, pc, sessionVars, procVars>>

(* A git command looks at the thread's state, then awaits the body.        *)
GitCheck(r, t) ==
  /\ request[r] = Idle
  /\ Exists(t) /\ Home[t] \in projects
  /\ state[t] \notin CancellableStates
  /\ request' = [request EXCEPT ![r] = [phase |-> "checked", kind |-> "git", thread |-> t]]
  /\ UNCHANGED <<projects, state, lease, pc, sessionVars, procVars>>

(* Mutant: the state read before the body stands in for the lease.         *)
GitAcquireByState(p, owner) == AcquireUnchecked(p, owner)

GitAcquire(p, owner) == AcquireLease(p, owner)

GitBegin(r) ==
  /\ request[r].phase = "checked"
  /\ LET t == request[r].thread IN GitAcquire(Home[t], t)
  /\ request' = [request EXCEPT ![r].phase = "holding"]
  /\ UNCHANGED <<projects, state, pc, sessionVars, procVars>>

(* 409 thread_busy, or a body that does not parse.                         *)
GitRefused(r) ==
  /\ request[r].phase = "checked"
  /\ request' = [request EXCEPT ![r] = Idle]
  /\ UNCHANGED <<projects, state, lease, pc, sessionVars, procVars>>

(* The finally of the request, after success or failure.                   *)
RequestEnd(r) ==
  /\ request[r].phase = "holding"
  /\ LET t == request[r].thread IN
       /\ ReleaseLease(Home[t])
       /\ \/ UNCHANGED state
          \/ request[r].kind = "reject" /\ Transition(t, "diffs_settled")
          \/ request[r].kind = "delete" /\ state' = [state EXCEPT ![t] = Deleted]
  /\ request' = [request EXCEPT ![r] = Idle]
  /\ UNCHANGED <<projects, pc, sessionVars, procVars>>

(* handleDeleteProject does not look at the lease; the rows of the threads *)
(* go with the project (ON DELETE CASCADE).                                *)
DeleteProject(p) ==
  /\ p \in projects
  /\ projects' = projects \ {p}
  /\ state' = [t \in Threads |-> IF Home[t] = p /\ Exists(t) THEN Deleted ELSE state[t]]
  /\ UNCHANGED <<lease, pc, sessionVars, procVars, request>>

-----------------------------------------------------------------------------
(* The end of the process and the next start.                              *)

(* Mutant: the boot query forgets the threads that were being stopped.     *)
RecoveredForgetsStopping(s) == IF s \in LiveStates THEN "interrupted" ELSE s

(* recoverRunningThreads                                                   *)
Recovered(s) == IF s \in CancellableStates THEN "interrupted" ELSE s

(* Everything in memory is lost; the boot reconciliation runs before any   *)
(* request is served.  Processes of the previous run are not followed.     *)
Restart ==
  /\ state' = [t \in Threads |-> Recovered(state[t])]
  /\ lease' = [p \in Projects |-> Free]
  /\ pc' = [t \in Threads |-> "none"]
  /\ sessions' = {} /\ cancelRequested' = {} /\ settled' = {} /\ deadline' = {}
  /\ procs' = {} /\ stray' = {}
  /\ request' = [r \in Requests |-> Idle]
  /\ UNCHANGED projects

-----------------------------------------------------------------------------
Dispatch(t) ==
  \/ \E first \in {"worktree", "setup", "pipeline"} : DispatchNewThread(t, first)
  \/ \E first \in {"setup", "pipeline"} : DispatchFollowUp(t, first)

Worktree(t) ==
  \/ \E first \in {"setup", "pipeline"} : WorktreeReady(t, first)
  \/ WorktreeFailed(t)

Gates(t) ==
  \/ \E event \in {"gate_opened_permission", "gate_opened_question"} : GateOpened(t, event)
  \/ GatesClosed(t)

TurnEnd(t) == TurnFinished(t) \/ TurnFailed(t) \/ TurnFailedEarly(t) \/ PipelineEnd(t)

Turn(t) == Worktree(t) \/ SpawnProvider(t) \/ Gates(t) \/ ProviderDone(t) \/ TurnEnd(t)

Stop(t) == StopSession(t) \/ StopOrphan(t)

Request(r) ==
  \/ \E t \in Threads : GitCheck(r, t) \/ \E kind \in RequestKinds : RequestBegin(r, kind, t)
  \/ GitBegin(r)
  \/ GitRefused(r)
  \/ RequestEnd(r)

Next ==
  \/ \E t \in Threads :
       \/ Dispatch(t) \/ Turn(t) \/ Stop(t) \/ StoppingDeadline(t) \/ StrayExit(t)
       \/ \E event \in {"diffs_committed", "diffs_settled"} : AcceptDiffs(t, event)
  \/ \E r \in Requests : Request(r)
  \/ \E p \in Projects : DeleteProject(p)
  \/ Restart

Spec == Init /\ [][Next]_vars

(* Timers fire, and nothing else is certain: a provider may never exit.    *)
TimerFairness == \A t \in Threads : WF_vars(StoppingDeadline(t))

SpecTimers == Spec /\ TimerFairness

(* What the stopped turn waits for ends: setup and diff collection are     *)
(* bounded calls, the killed process tree exits (SIGKILL or taskkill /F),  *)
(* the stages and the checkpoint of a pipeline react to the abort.         *)
SetupEnds(t) == pc[t] = "setup" /\ (SpawnProvider(t) \/ TurnFailed(t))
DiffsEnd(t) == pc[t] = "diffs" /\ (TurnFinished(t) \/ TurnFailed(t))
KilledProviderExits(t) ==
  t \in cancelRequested /\ pc[t] = "provider" /\ (ProviderDone(t) \/ TurnFailed(t))
StoppedPipelineEnds(t) == t \in cancelRequested /\ PipelineEnd(t)

TurnFairness ==
  \A t \in Threads :
    /\ WF_vars(SetupEnds(t)) /\ WF_vars(DiffsEnd(t))
    /\ WF_vars(KilledProviderExits(t)) /\ WF_vars(StoppedPipelineEnds(t))

-----------------------------------------------------------------------------
(* Properties.                                                             *)

(* The executions in a project: turns that have not reached their finally  *)
(* block, and requests between acquireLease and releaseLease.              *)
Turning(t) == pc[t] # "none"
Holding(r) == request[r].phase = "holding"
Inside(p) ==
  {t \in Threads : Turning(t) /\ Home[t] = p}
    \cup {r \in Requests : Holding(r) /\ Home[request[r].thread] = p}

(* Two executions are never in the same project (project-execution.ts:26),*)
(* although releaseLease frees the project whoever holds it.               *)
LeaseExclusive == \A p \in Projects : \A x, y \in Inside(p) : x = y

(* A project in which nothing runs can be used: no path of dispatch, turn, *)
(* stop, deadline or restart leaves the lease behind.  A project deleted   *)
(* while a worktree was created is the exception nobody can observe.       *)
LeaseNotLeaked == \A p \in projects : lease[p] # Free => Inside(p) # {}

(* A thread shown as running, waiting or stopping has an execution behind  *)
(* it: no turn, however it ends, leaves the row in a busy state (the       *)
(* composer would refuse every message and Stop would have nothing to do). *)
NoGhostTurn == \A t \in Threads : state[t] \in CancellableStates => Turning(t)

(* A stop accepted by a turn is never undone: until that turn is over the  *)
(* thread can only be stopping or cancelled, whatever late event, failure, *)
(* finished turn or diff review comes in between (turn-state.ts:103-107).  *)
StopNeverUndone ==
  [][\A t \in cancelRequested :
       state'[t] \in {"stopping", "cancelled", "interrupted", Deleted}]_vars

(* startTurnSession never replaces the session of a turn that is still     *)
(* there, also not of one already shown as cancelled by its deadline: while*)
(* a session lasts its stop is remembered and its turn never starts again. *)
NoTurnOverTurn ==
  [][\A t \in sessions \cap sessions' :
       /\ t \in cancelRequested => t \in cancelRequested'
       /\ pc'[t] \in {"setup", "pipeline"} => pc'[t] = pc[t]]_vars

(* After a stop the project becomes free for the next execution, when what *)
(* the stopped turn waits for ends.                                        *)
StopFreesProject ==
  TurnFairness => \A t \in Threads : t \in cancelRequested ~> lease[Home[t]] = Free

(* The inductive invariant behind LeaseExclusive and NoGhostTurn.  A       *)
(* session lives exactly between startTurnSession and endTurnSession; what *)
(* runs in a project holds its lease; a turn creating its worktree holds it*)
(* without an owner, so the orphan path of Stop cannot release it; a       *)
(* session settled by the deadline belongs to a thread Stop ignores.       *)
SessionsFollowTurns == \A t \in Threads : t \in sessions <=> pc[t] \in SessionPCs

InsideHoldsLease == \A p \in Projects : Inside(p) # {} => lease[p] # Free

WorktreeLeaseUnowned == \A t \in Threads : pc[t] = "worktree" => lease[Home[t]] = NoThread

SettledIsCancelled == \A t \in settled : state[t] \in {"cancelled", Deleted}

IInv ==
  /\ TypeOK
  /\ LeaseExclusive
  /\ NoGhostTurn
  /\ SessionsFollowTurns
  /\ InsideHoldsLease
  /\ WorktreeLeaseUnowned
  /\ SettledIsCancelled

(* The lease implements the abstract promise of one execution per project. *)
Exclusive == INSTANCE ProjectExclusive
  WITH Executions <- Threads \cup Requests,
       inside <- [p \in Projects |-> Inside(p)]

ExclusiveSpec == Exclusive!Spec

(* What the rows show, next to which turns are under way.                  *)
Contract == INSTANCE ThreadContract
  WITH Unborn <- {Unborn},
       turning <- {t \in Threads : Turning(t)}

(* Leases, sessions, deadlines, orphan stops, early failures, reviews,     *)
(* deletions and restarts together keep the contract of a thread row: a    *)
(* turn starts on a settled row, a busy row has a turn, and a stop decides *)
(* how its turn ends (turn-state.ts:16-133).                               *)
ContractSpec == Contract!Spec

(* The stop of a thread that has no session to abort concerns a turn whose *)
(* worktree is being created, never one with a provider, a pipeline or a   *)
(* busy row that nothing stands behind (dispatch.ts:240-279).            *)
OnlyWorktreesAreOrphans == [][\A t \in Threads : StopOrphan(t) => pc[t] = "worktree"]_vars

(* dispatch.ts:538-539: from the start of the dispatch a stop has something*)
(* to abort, so a cancelled thread has no turn on its way to a provider.   *)
StopReachesTheTurn ==
  \A t \in Threads :
    state[t] = "cancelled" /\ pc[t] \in {"setup", "provider"} => t \in cancelRequested

=============================================================================
