----------------------- MODULE TurnLifecycle_proofs -----------------------
(***************************************************************************)
(* Proofs about TurnLifecycle: type correctness, the inductive invariant   *)
(* IInv and, from it, that the project lease is exclusive, that a busy row *)
(* has a turn behind it, and that the specification implements             *)
(* ProjectExclusive; then that no lease is left behind and no stop undone. *)
(***************************************************************************)
EXTENDS TurnLifecycle, TLAPS

(* The reducer leaves a row value of the same kind: a state stays a state, *)
(* and the row of a missing thread stays missing (turn-state.ts:177-204).  *)
LEMMA ApplyTransitionType ==
  ASSUME NEW s \in ThreadStates \cup {Unborn, Deleted}, NEW e \in TurnEvents
  PROVE  /\ ApplyTransition(s, e) \in ThreadStates \cup {Unborn, Deleted}
         /\ s \in ThreadStates <=> ApplyTransition(s, e) \in ThreadStates
         /\ s \notin ThreadStates => ApplyTransition(s, e) = s
<1>1. CASE s \in ThreadStates
  BY <1>1, LifecycleAssumption
  DEF ApplyTransition, Legal, Target, TurnEvents, ThreadStates, LiveStates, SettledStates
<1>2. CASE s \notin ThreadStates
  BY <1>2, LifecycleAssumption
  DEF ApplyTransition, Legal, TurnEvents, ThreadStates, LiveStates, SettledStates
<1> QED BY <1>1, <1>2

(* Which events can leave a busy row, and which rows they leave busy.      *)
LEMMA ApplyTransitionBusy ==
  ASSUME NEW s \in ThreadStates \cup {Unborn, Deleted}, NEW e \in TurnEvents
  PROVE  /\ e # "follow_up" /\ s \notin CancellableStates
              => ApplyTransition(s, e) \notin CancellableStates
         /\ e \in {"cancel_settled", "turn_failed", "turn_finished"}
              => ApplyTransition(s, e) \notin CancellableStates
         /\ e \notin {"follow_up", "diffs_committed", "diffs_settled"} /\ s = "cancelled"
              => ApplyTransition(s, e) = "cancelled"
         /\ e = "cancel_settled" /\ s = "stopping" => ApplyTransition(s, e) = "cancelled"
<1>1. CASE s \in ThreadStates
  BY <1>1, LifecycleAssumption
  DEF ApplyTransition, Legal, Target, TurnEvents, ThreadStates, LiveStates,
      SettledStates, CancellableStates
<1>2. CASE s \notin ThreadStates
  BY <1>2, LifecycleAssumption, ApplyTransitionType
  DEF ThreadStates, LiveStates, SettledStates, CancellableStates
<1> QED BY <1>1, <1>2

-----------------------------------------------------------------------------
(* Type correctness.                                                       *)

LEMMA TransitionType ==
  ASSUME TypeOK, NEW t \in Threads, NEW e \in TurnEvents, Transition(t, e)
  PROVE  state' \in [Threads -> ThreadStates \cup {Unborn, Deleted}]
BY ApplyTransitionType DEF TypeOK, Transition

LEMMA EndTurnType ==
  ASSUME TypeOK, NEW t \in Threads, NEW e \in TurnEvents, EndTurn(t, e)
  PROVE  /\ state' \in [Threads -> ThreadStates \cup {Unborn, Deleted}]
         /\ lease' \in [Projects -> Threads \cup {Free, NoThread}]
         /\ pc' \in [Threads -> PCs]
         /\ sessions' \subseteq Threads
         /\ cancelRequested' \subseteq sessions'
         /\ settled' \subseteq sessions'
         /\ deadline' \subseteq sessions'
<1>1. state' \in [Threads -> ThreadStates \cup {Unborn, Deleted}]
  BY TransitionType DEF EndTurn
<1> QED BY <1>1, LifecycleAssumption DEF EndTurn, TypeOK, DropSession, ReleaseLease, PCs

LEMMA TypeStep == TypeOK /\ [Next]_vars => TypeOK'
<1> SUFFICES ASSUME TypeOK, [Next]_vars PROVE TypeOK'
  OBVIOUS
<1> USE LifecycleAssumption
<1>1. ASSUME NEW t \in Threads, Dispatch(t) PROVE TypeOK'
  <2>1. ASSUME NEW first \in {"worktree", "setup", "pipeline"}, DispatchNewThread(t, first)
        PROVE TypeOK'
    BY <2>1 DEF DispatchNewThread, AcquireLease, StartSession, TypeOK, PCs, SessionPCs,
       sessionVars, procVars, InitialTurnState, ThreadStates, LiveStates
  <2>2. ASSUME NEW first \in {"setup", "pipeline"}, DispatchFollowUp(t, first)
        PROVE TypeOK'
    <3>1. state' \in [Threads -> ThreadStates \cup {Unborn, Deleted}]
      BY <2>2, TransitionType DEF DispatchFollowUp, TurnEvents
    <3> QED BY <2>2, <3>1 DEF DispatchFollowUp, AcquireLease, StartSession, TypeOK, PCs,
            SessionPCs, procVars
  <2> QED BY <1>1, <2>1, <2>2 DEF Dispatch
<1>2. ASSUME NEW t \in Threads, Worktree(t) PROVE TypeOK'
  <2>1. ASSUME NEW first \in {"setup", "pipeline"}, WorktreeReady(t, first)
        PROVE TypeOK'
    BY <2>1 DEF WorktreeReady, StartSession, TypeOK, PCs, SessionPCs, sessionVars, procVars
  <2>2. ASSUME WorktreeFailed(t) PROVE TypeOK'
    <3>1. state' \in [Threads -> ThreadStates \cup {Unborn, Deleted}]
      BY <2>2, TransitionType DEF WorktreeFailed, TurnEvents
    <3> QED BY <2>2, <3>1 DEF WorktreeFailed, ReleaseLease, TypeOK, PCs, sessionVars, procVars
  <2> QED BY <1>2, <2>1, <2>2 DEF Worktree
<1>3. ASSUME NEW t \in Threads, Gates(t) PROVE TypeOK'
  <2>1. \E e \in TurnEvents : Transition(t, e)
    BY <1>3 DEF Gates, GateOpened, GatesClosed, TurnEvents
  <2>2. state' \in [Threads -> ThreadStates \cup {Unborn, Deleted}]
    BY <2>1, TransitionType
  <2> QED BY <1>3, <2>2 DEF Gates, GateOpened, GatesClosed, TypeOK, sessionVars, procVars
<1>4. ASSUME NEW t \in Threads, SpawnProvider(t) \/ ProviderDone(t) PROVE TypeOK'
  BY <1>4 DEF SpawnProvider, ProviderDone, TypeOK, PCs, SessionPCs, sessionVars
<1>5. ASSUME NEW t \in Threads, TurnEnd(t) PROVE TypeOK'
  <2>1. \E e \in TurnEvents : EndTurn(t, e)
    BY <1>5 DEF TurnEnd, TurnFinished, TurnFailed, TurnFailedEarly, PipelineEnd, FailureEvent,
       TurnEvents
  <2>2. PICK e \in TurnEvents : EndTurn(t, e)
    BY <2>1
  <2>3. procs' \subseteq Threads /\ stray' \subseteq Threads /\ UNCHANGED <<projects, request>>
    BY <1>5 DEF TurnEnd, TurnFinished, TurnFailed, TurnFailedEarly, PipelineEnd, procVars, TypeOK
  <2> QED BY <2>2, <2>3, EndTurnType DEF TypeOK
<1>6. ASSUME NEW t \in Threads, Stop(t) PROVE TypeOK'
  <2>1. \E e \in TurnEvents : Transition(t, e)
    BY <1>6 DEF Stop, StopSession, StopOrphan, TurnEvents
  <2>2. state' \in [Threads -> ThreadStates \cup {Unborn, Deleted}]
    BY <2>1, TransitionType
  <2> QED BY <1>6, <2>2 DEF Stop, StopSession, ArmStoppingDeadline, StopOrphan, Cancellable, ReleaseIfOwner,
          ReleaseLease, TypeOK, procVars
<1>7. ASSUME NEW t \in Threads, StoppingDeadline(t) PROVE TypeOK'
  <2>1. state' \in [Threads -> ThreadStates \cup {Unborn, Deleted}]
    <3>1. "cancel_settled" \in TurnEvents
      BY DEF TurnEvents
    <3>2. Transition(t, "cancel_settled") \/ UNCHANGED state
      BY <1>7 DEF StoppingDeadline
    <3>3. UNCHANGED state => state' \in [Threads -> ThreadStates \cup {Unborn, Deleted}]
      BY DEF TypeOK
    <3> QED BY <3>1, <3>2, <3>3, TransitionType
  <2> QED BY <1>7, <2>1 DEF StoppingDeadline, TypeOK, procVars
<1>8. ASSUME NEW t \in Threads, StrayExit(t) PROVE TypeOK'
  BY <1>8 DEF StrayExit, TypeOK, sessionVars
<1>9. ASSUME NEW t \in Threads, NEW e \in {"diffs_committed", "diffs_settled"}, AcceptDiffs(t, e)
      PROVE TypeOK'
  <2>1. state' \in [Threads -> ThreadStates \cup {Unborn, Deleted}]
    BY <1>9, TransitionType DEF AcceptDiffs, TurnEvents
  <2> QED BY <1>9, <2>1 DEF AcceptDiffs, TypeOK, sessionVars, procVars
<1>10. ASSUME NEW r \in Requests, Request(r) PROVE TypeOK'
  <2>1. ASSUME NEW t \in Threads, GitCheck(r, t) PROVE TypeOK'
    BY <2>1 DEF GitCheck, TypeOK, RequestKinds, sessionVars, procVars
  <2>2. ASSUME NEW t \in Threads, NEW kind \in RequestKinds, RequestBegin(r, kind, t)
        PROVE TypeOK'
    BY <2>2 DEF RequestBegin, AcquireLease, TypeOK, RequestKinds, sessionVars, procVars
  <2>3. ASSUME GitBegin(r) PROVE TypeOK'
    <3>1. request[r] # Idle /\ request[r].thread \in Threads
      BY <2>3 DEF GitBegin, TypeOK, Idle
    <3> QED BY <2>3, <3>1 DEF GitBegin, GitAcquire, AcquireLease, TypeOK, RequestKinds, Idle,
            sessionVars, procVars
  <2>4. ASSUME GitRefused(r) PROVE TypeOK'
    BY <2>4 DEF GitRefused, TypeOK, sessionVars, procVars
  <2>5. ASSUME RequestEnd(r) PROVE TypeOK'
    <3>1. request[r].thread \in Threads
      BY <2>5 DEF RequestEnd, TypeOK, Idle
    <3>2. state' \in [Threads -> ThreadStates \cup {Unborn, Deleted}]
      BY <2>5, <3>1, TransitionType DEF RequestEnd, TypeOK, TurnEvents
    <3> QED BY <2>5, <3>1, <3>2 DEF RequestEnd, ReleaseLease, TypeOK, sessionVars, procVars
  <2> QED BY <1>10, <2>1, <2>2, <2>3, <2>4, <2>5 DEF Request
<1>11. ASSUME NEW p \in Projects, DeleteProject(p) PROVE TypeOK'
  BY <1>11 DEF DeleteProject, TypeOK, sessionVars, procVars
<1>12. CASE Restart
  BY <1>12 DEF Restart, Recovered, TypeOK, PCs, ThreadStates, SettledStates
<1>13. CASE UNCHANGED vars
  BY <1>13 DEF vars, sessionVars, procVars, TypeOK
<1> QED BY <1>1, <1>2, <1>3, <1>4, <1>5, <1>6, <1>7, <1>8, <1>9, <1>10, <1>11, <1>12, <1>13
        DEF Next, Turn

(* Every variable keeps its kind of value; a cancel request, a settled mark*)
(* and a deadline exist only inside a session (turn-session.ts:26-37).     *)
THEOREM TypeCorrect == Spec => []TypeOK
<1>1. Init => TypeOK
  BY LifecycleAssumption DEF Init, TypeOK, PCs
<1> QED BY <1>1, TypeStep, PTL DEF Spec

-----------------------------------------------------------------------------
(* What a step does to one project: nothing, one execution enters it, the  *)
(* one inside leaves it, or the process ends.                              *)

Enters(p, x) ==
  /\ lease[p] = Free /\ Inside(p) = {}
  /\ Inside(p)' = {x} /\ lease'[p] # Free

(* A worktree that arrives for a thread whose row is gone: the only end of *)
(* an execution that leaves the lease behind.                              *)
Orphaned(p) == \E t \in Threads : Home[t] = p /\ Turning(t) /\ ~Exists(t)

Leaves(p) == Inside(p) # {} /\ Inside(p)' = {} /\ (lease'[p] = Free \/ Orphaned(p))

Untouched(p) == Inside(p)' = Inside(p) /\ lease'[p] = lease[p]

Footprint ==
  \/ \A p \in Projects : Untouched(p)
  \/ \E p \in Projects, x \in Threads \cup Requests :
       Enters(p, x) /\ \A q \in Projects \ {p} : Untouched(q)
  \/ \E p \in Projects : Leaves(p) /\ \A q \in Projects \ {p} : Untouched(q)
  \/ \A p \in Projects : Inside(p)' = {} /\ lease'[p] = Free

LEMMA InsideStable ==
  ASSUME UNCHANGED <<lease, pc>>,
         \A r \in Requests : Holding(r)' = Holding(r),
         \A r \in Requests : Holding(r) => request'[r].thread = request[r].thread
  PROVE  \A p \in Projects : Untouched(p)
BY DEF Untouched, Inside, Turning, Holding

LEMMA TurnEnters ==
  ASSUME IInv, NEW t \in Threads, NEW first \in PCs \ {"none"},
         lease[Home[t]] = Free, lease' = [lease EXCEPT ![Home[t]] = lease'[Home[t]]],
         lease'[Home[t]] # Free, pc' = [pc EXCEPT ![t] = first], UNCHANGED request
  PROVE  Enters(Home[t], t) /\ \A q \in Projects \ {Home[t]} : Untouched(q)
<1> USE LifecycleAssumption
<1>1. Inside(Home[t]) = {}
  BY DEF IInv, InsideHoldsLease
<1>2. \A u \in Threads : pc'[u] # "none" <=> (pc[u] # "none" \/ u = t)
  BY <1>1 DEF IInv, TypeOK
<1>3. Inside(Home[t])' = {t}
  BY <1>1, <1>2 DEF Inside, Turning, Holding
<1>4. \A q \in Projects \ {Home[t]} : Inside(q)' = Inside(q)
  BY <1>2 DEF Inside, Turning, Holding
<1>5. \A q \in Projects \ {Home[t]} : lease'[q] = lease[q]
  BY DEF IInv, TypeOK
<1> QED BY <1>1, <1>3, <1>4, <1>5 DEF Enters, Untouched

LEMMA TurnLeaves ==
  ASSUME IInv, NEW t \in Threads, Turning(t),
         \A q \in Projects \ {Home[t]} : lease'[q] = lease[q],
         lease'[Home[t]] = Free \/ ~Exists(t),
         pc' = [pc EXCEPT ![t] = "none"], UNCHANGED request
  PROVE  Leaves(Home[t]) /\ \A q \in Projects \ {Home[t]} : Untouched(q)
<1> USE LifecycleAssumption
<1>1. Inside(Home[t]) = {t}
  BY DEF IInv, LeaseExclusive, Inside
<1>2. \A u \in Threads : pc'[u] # "none" <=> (pc[u] # "none" /\ u # t)
  BY DEF IInv, TypeOK
<1>3. Inside(Home[t])' = {}
  BY <1>1, <1>2 DEF Inside, Turning, Holding
<1>4. \A q \in Projects \ {Home[t]} : Inside(q)' = Inside(q)
  BY <1>2 DEF Inside, Turning, Holding
<1>5. lease'[Home[t]] = Free \/ Orphaned(Home[t])
  BY DEF Orphaned
<1> QED BY <1>1, <1>3, <1>4, <1>5 DEF Leaves, Untouched

LEMMA RequestEnters ==
  ASSUME IInv, NEW r \in Requests, NEW t \in Threads, ~Holding(r),
         lease[Home[t]] = Free, lease' = [lease EXCEPT ![Home[t]] = t],
         Holding(r)', request'[r].thread = t, UNCHANGED pc,
         \A o \in Requests \ {r} : request'[o] = request[o]
  PROVE  Enters(Home[t], r) /\ \A q \in Projects \ {Home[t]} : Untouched(q)
<1> USE LifecycleAssumption
<1>1. Inside(Home[t]) = {}
  BY DEF IInv, InsideHoldsLease
<1>2. Inside(Home[t])' = {r}
  BY <1>1 DEF Inside, Turning, Holding
<1>3. \A q \in Projects \ {Home[t]} : Inside(q)' = Inside(q)
  BY DEF Inside, Turning, Holding
<1>4. /\ lease'[Home[t]] # Free
      /\ \A q \in Projects \ {Home[t]} : lease'[q] = lease[q]
  BY DEF IInv, TypeOK
<1> QED BY <1>1, <1>2, <1>3, <1>4 DEF Enters, Untouched

LEMMA RequestLeaves ==
  ASSUME IInv, NEW r \in Requests, NEW t \in Threads, Holding(r), request[r].thread = t,
         lease' = [lease EXCEPT ![Home[t]] = Free], UNCHANGED pc,
         request' = [request EXCEPT ![r] = Idle]
  PROVE  Leaves(Home[t]) /\ \A q \in Projects \ {Home[t]} : Untouched(q)
<1> USE LifecycleAssumption
<1>1. Inside(Home[t]) = {r}
  BY DEF IInv, LeaseExclusive, Inside
<1>2. /\ ~Holding(r)'
      /\ \A o \in Requests \ {r} : request'[o] = request[o]
  BY DEF IInv, TypeOK, Holding, Idle
<1>3. Inside(Home[t])' = {}
  BY <1>1, <1>2 DEF Inside, Turning, Holding
<1>4. \A q \in Projects \ {Home[t]} : Inside(q)' = Inside(q)
  BY <1>2 DEF Inside, Turning, Holding
<1>5. /\ lease'[Home[t]] = Free
      /\ \A q \in Projects \ {Home[t]} : lease'[q] = lease[q]
  BY DEF IInv, TypeOK
<1> QED BY <1>1, <1>3, <1>4, <1>5 DEF Leaves, Untouched

(* The orphan path of Stop never releases a lease: it is only taken by a   *)
(* thread whose worktree is being created, and that lease has no owner.    *)
LEMMA OrphanKeepsLease ==
  ASSUME IInv, NEW t \in Threads, StopOrphan(t)
  PROVE  UNCHANGED lease /\ pc[t] = "worktree"
<1> USE LifecycleAssumption
<1>1. pc[t] # "none"
  BY DEF StopOrphan, IInv, NoGhostTurn, Turning
<1>2. t \notin settled
  BY DEF StopOrphan, IInv, SettledIsCancelled, Exists, ThreadStates, LiveStates, SettledStates,
     CancellableStates
<1>3. t \notin sessions
  BY <1>2 DEF StopOrphan, Cancellable
<1>4. pc[t] = "worktree"
  BY <1>1, <1>3 DEF IInv, TypeOK, SessionsFollowTurns, PCs
<1>5. lease[Home[t]] = NoThread
  BY <1>4 DEF IInv, WorktreeLeaseUnowned
<1> QED BY <1>4, <1>5 DEF StopOrphan, ReleaseIfOwner

LEMMA StepFootprint == IInv /\ [Next]_vars => Footprint
<1> SUFFICES ASSUME IInv, [Next]_vars PROVE Footprint
  OBVIOUS
<1> USE LifecycleAssumption
<1>0. TypeOK
  BY DEF IInv
<1>1. ASSUME NEW t \in Threads, Dispatch(t) PROVE Footprint
  <2>1. ASSUME NEW first \in {"worktree", "setup", "pipeline"}, DispatchNewThread(t, first)
        PROVE Footprint
    <3>1. /\ lease[Home[t]] = Free /\ lease' = [lease EXCEPT ![Home[t]] = lease'[Home[t]]]
          /\ lease'[Home[t]] # Free
      BY <2>1, <1>0 DEF DispatchNewThread, AcquireLease, TypeOK
    <3> QED BY <2>1, <3>1, TurnEnters DEF DispatchNewThread, PCs, SessionPCs, Footprint
  <2>2. ASSUME NEW first \in {"setup", "pipeline"}, DispatchFollowUp(t, first)
        PROVE Footprint
    <3>1. /\ lease[Home[t]] = Free /\ lease' = [lease EXCEPT ![Home[t]] = lease'[Home[t]]]
          /\ lease'[Home[t]] # Free
      BY <2>2, <1>0 DEF DispatchFollowUp, AcquireLease, TypeOK
    <3> QED BY <2>2, <3>1, TurnEnters DEF DispatchFollowUp, PCs, SessionPCs, Footprint
  <2> QED BY <1>1, <2>1, <2>2 DEF Dispatch
<1>2. ASSUME NEW t \in Threads, Worktree(t) PROVE Footprint
  <2>1. ASSUME NEW first \in {"setup", "pipeline"}, WorktreeReady(t, first), Exists(t)
        PROVE Footprint
    <3>1. \A u \in Threads : pc'[u] # "none" <=> pc[u] # "none"
      BY <2>1, <1>0 DEF WorktreeReady, TypeOK
    <3>2. \A p \in Projects : Untouched(p)
      BY <2>1, <3>1 DEF WorktreeReady, Untouched, Inside, Turning, Holding
    <3> QED BY <3>2 DEF Footprint
  <2>2. ASSUME NEW first \in {"setup", "pipeline"}, WorktreeReady(t, first), ~Exists(t)
        PROVE Footprint
    BY <2>2, <1>0, TurnLeaves DEF WorktreeReady, Turning, Footprint
  <2>3. ASSUME WorktreeFailed(t) PROVE Footprint
    <3>1. lease'[Home[t]] = Free /\ \A q \in Projects \ {Home[t]} : lease'[q] = lease[q]
      BY <2>3, <1>0 DEF WorktreeFailed, ReleaseLease, TypeOK
    <3> QED BY <2>3, <3>1, TurnLeaves DEF WorktreeFailed, Turning, Footprint
  <2> QED BY <1>2, <2>1, <2>2, <2>3 DEF Worktree
<1>3. ASSUME NEW t \in Threads, Gates(t) PROVE Footprint
  BY <1>3, InsideStable DEF Gates, GateOpened, GatesClosed, Holding, Footprint
<1>4. ASSUME NEW t \in Threads, SpawnProvider(t) \/ ProviderDone(t) PROVE Footprint
  <2>1. \A u \in Threads : pc'[u] # "none" <=> pc[u] # "none"
    BY <1>4, <1>0 DEF SpawnProvider, ProviderDone, TypeOK
  <2>2. \A p \in Projects : Untouched(p)
    BY <1>4, <2>1 DEF SpawnProvider, ProviderDone, Untouched, Inside, Turning, Holding
  <2> QED BY <2>2 DEF Footprint
<1>5. ASSUME NEW t \in Threads, TurnEnd(t) PROVE Footprint
  <2>1. Turning(t) /\ UNCHANGED request
    BY <1>5 DEF TurnEnd, TurnFinished, TurnFailed, TurnFailedEarly, PipelineEnd, Turning
  <2>2. \E e \in TurnEvents : EndTurn(t, e)
    BY <1>5 DEF TurnEnd, TurnFinished, TurnFailed, TurnFailedEarly, PipelineEnd, FailureEvent,
       TurnEvents
  <2>3. /\ lease'[Home[t]] = Free
        /\ \A q \in Projects \ {Home[t]} : lease'[q] = lease[q]
        /\ pc' = [pc EXCEPT ![t] = "none"]
    BY <2>2, <1>0 DEF EndTurn, ReleaseLease, TypeOK
  <2> QED BY ZenonT(60), <2>1, <2>3, TurnLeaves DEF Footprint
<1>6. ASSUME NEW t \in Threads, Stop(t) PROVE Footprint
  <2>1. UNCHANGED <<lease, pc, request>>
    BY <1>6, OrphanKeepsLease DEF Stop, StopSession, StopOrphan
  <2> QED BY <2>1, InsideStable DEF Holding, Footprint
<1>7. ASSUME NEW t \in Threads, StoppingDeadline(t) \/ StrayExit(t) PROVE Footprint
  BY <1>7, InsideStable DEF StoppingDeadline, StrayExit, Holding, Footprint
<1>8. ASSUME NEW t \in Threads, NEW e \in {"diffs_committed", "diffs_settled"}, AcceptDiffs(t, e)
      PROVE Footprint
  BY <1>8, InsideStable DEF AcceptDiffs, Holding, Footprint
<1>9. ASSUME NEW r \in Requests, Request(r) PROVE Footprint
  <2>1. ASSUME NEW t \in Threads, GitCheck(r, t) PROVE Footprint
    <3>1. \A o \in Requests : Holding(o)' = Holding(o)
      BY <2>1, <1>0 DEF GitCheck, TypeOK, Holding, Idle
    <3>2. \A o \in Requests : Holding(o) => request'[o].thread = request[o].thread
      BY <2>1, <1>0 DEF GitCheck, TypeOK, Holding, Idle
    <3> QED BY <2>1, <3>1, <3>2, InsideStable DEF GitCheck, Footprint
  <2>2. ASSUME NEW t \in Threads, NEW kind \in RequestKinds, RequestBegin(r, kind, t)
        PROVE Footprint
    <3>1. /\ ~Holding(r) /\ Holding(r)' /\ request'[r].thread = t
          /\ \A o \in Requests \ {r} : request'[o] = request[o]
      BY <2>2, <1>0 DEF RequestBegin, TypeOK, Holding, Idle
    <3> QED BY <2>2, <3>1, RequestEnters DEF RequestBegin, AcquireLease, Footprint
  <2>3. ASSUME GitBegin(r) PROVE Footprint
    <3>1. /\ ~Holding(r) /\ Holding(r)' /\ request[r].thread \in Threads
          /\ request'[r].thread = request[r].thread
          /\ \A o \in Requests \ {r} : request'[o] = request[o]
      BY <2>3, <1>0 DEF GitBegin, TypeOK, Holding, Idle
    <3> QED BY ZenonT(60), <2>3, <3>1, RequestEnters DEF GitBegin, GitAcquire, AcquireLease, Footprint
  <2>4. ASSUME GitRefused(r) PROVE Footprint
    <3>1. \A o \in Requests : Holding(o)' = Holding(o)
      BY <2>4, <1>0 DEF GitRefused, TypeOK, Holding, Idle
    <3>2. \A o \in Requests : Holding(o) => request'[o].thread = request[o].thread
      BY <2>4, <1>0 DEF GitRefused, TypeOK, Holding, Idle
    <3> QED BY <2>4, <3>1, <3>2, InsideStable DEF GitRefused, Footprint
  <2>5. ASSUME RequestEnd(r) PROVE Footprint
    <3>1. Holding(r) /\ request[r].thread \in Threads
      BY <2>5, <1>0 DEF RequestEnd, TypeOK, Holding, Idle
    <3> QED BY <2>5, <3>1, RequestLeaves DEF RequestEnd, ReleaseLease, Footprint
  <2> QED BY <1>9, <2>1, <2>2, <2>3, <2>4, <2>5 DEF Request
<1>10. ASSUME NEW p \in Projects, DeleteProject(p) PROVE Footprint
  BY <1>10, InsideStable DEF DeleteProject, Holding, Footprint
<1>11. CASE Restart
  BY <1>11 DEF Restart, Inside, Turning, Holding, Idle, Footprint
<1>12. CASE UNCHANGED vars
  BY <1>12, InsideStable DEF vars, Holding, Footprint
<1> QED BY <1>1, <1>2, <1>3, <1>4, <1>5, <1>6, <1>7, <1>8, <1>9, <1>10, <1>11, <1>12
        DEF Next, Turn

-----------------------------------------------------------------------------
(* The inductive invariant.                                                *)

(* The two parts about projects follow from the footprint of a step alone. *)
LEMMA ProjectsStep ==
  ASSUME IInv, Footprint
  PROVE  LeaseExclusive' /\ InsideHoldsLease'
<1> USE DEF IInv
<1>1. CASE \A p \in Projects : Untouched(p)
  BY <1>1 DEF Untouched, LeaseExclusive, InsideHoldsLease
<1>2. ASSUME NEW p \in Projects, NEW x \in Threads \cup Requests, Enters(p, x),
             \A q \in Projects \ {p} : Untouched(q)
      PROVE  LeaseExclusive' /\ InsideHoldsLease'
  BY <1>2 DEF Enters, Untouched, LeaseExclusive, InsideHoldsLease
<1>3. ASSUME NEW p \in Projects, Leaves(p), \A q \in Projects \ {p} : Untouched(q)
      PROVE  LeaseExclusive' /\ InsideHoldsLease'
  BY <1>3 DEF Leaves, Untouched, LeaseExclusive, InsideHoldsLease
<1>4. CASE \A p \in Projects : Inside(p)' = {} /\ lease'[p] = Free
  BY <1>4 DEF LeaseExclusive, InsideHoldsLease
<1> QED BY <1>1, <1>2, <1>3, <1>4 DEF Footprint

(* The four parts about threads, for one of them.                          *)
ThreadInv(t) ==
  /\ state[t] \in CancellableStates => Turning(t)
  /\ t \in sessions <=> pc[t] \in SessionPCs
  /\ pc[t] = "worktree" => lease[Home[t]] = NoThread
  /\ t \in settled => state[t] \in {"cancelled", Deleted}

LEMMA ThreadInvs ==
  (\A t \in Threads : ThreadInv(t))
    <=> NoGhostTurn /\ SessionsFollowTurns /\ WorktreeLeaseUnowned
        /\ (\A t \in Threads : t \in settled => state[t] \in {"cancelled", Deleted})
BY DEF ThreadInv, NoGhostTurn, SessionsFollowTurns, WorktreeLeaseUnowned

(* What keeps creating its worktree keeps its lease, whoever else moves.   *)
LEMMA StillCreating ==
  ASSUME IInv, Footprint, NEW t \in Threads, pc[t] = "worktree", pc'[t] = "worktree"
  PROVE  lease'[Home[t]] = NoThread
<1> USE LifecycleAssumption
<1>1. t \in Inside(Home[t]) /\ t \in Inside(Home[t])'
  BY DEF Inside, Turning
<1>2. Untouched(Home[t])
  BY <1>1 DEF Footprint, Enters, Leaves
<1> QED BY <1>2 DEF Untouched, IInv, WorktreeLeaseUnowned

(* A thread that a step does not touch keeps its part of the invariant.    *)
LEMMA ThreadUntouched ==
  ASSUME IInv, Footprint, NEW t \in Threads, state'[t] = state[t], pc'[t] = pc[t],
         t \in sessions' <=> t \in sessions, t \in settled' => t \in settled
  PROVE  ThreadInv(t)'
<1>1. ThreadInv(t)
  BY DEF IInv, NoGhostTurn, SessionsFollowTurns, WorktreeLeaseUnowned, SettledIsCancelled,
     ThreadInv
<1> QED BY <1>1, StillCreating DEF ThreadInv, Turning

(* A settled session keeps the project: nothing else starts or reviews     *)
(* there, so its row stays cancelled.                                      *)
LEMMA SettledHoldsProject ==
  ASSUME IInv, NEW t \in settled
  PROVE  /\ t \in Threads /\ t \in Inside(Home[t])
         /\ lease[Home[t]] # Free
         /\ \A r \in Requests : Holding(r) => Home[request[r].thread] # Home[t]
<1> USE LifecycleAssumption
<1>1. t \in Threads /\ t \in sessions
  BY DEF IInv, TypeOK
<1>2. t \in Inside(Home[t])
  BY <1>1 DEF IInv, SessionsFollowTurns, SessionPCs, Inside, Turning
<1>3. Home[t] \in Projects
  BY <1>1
<1>4. lease[Home[t]] # Free
  BY <1>2, <1>3 DEF IInv, InsideHoldsLease
<1>5. ASSUME NEW r \in Requests, Holding(r), Home[request[r].thread] = Home[t] PROVE FALSE
  <2>1. r \in Inside(Home[t])
    BY <1>5 DEF Inside
  <2>2. r = t
    BY <2>1, <1>2, <1>3 DEF IInv, LeaseExclusive
  <2> QED BY <2>2, <1>1
<1> QED BY <1>1, <1>2, <1>4, <1>5

(* The parts about threads, one action at a time.                          *)
LEMMA ThreadsStep == IInv /\ TypeOK' /\ [Next]_vars => \A u \in Threads : ThreadInv(u)'
<1> SUFFICES ASSUME IInv, TypeOK', [Next]_vars, NEW u \in Threads PROVE ThreadInv(u)'
  OBVIOUS
<1> USE LifecycleAssumption
<1>a. Footprint
  BY StepFootprint
<1>b. TypeOK /\ ThreadInv(u)
  BY DEF IInv, NoGhostTurn, SessionsFollowTurns, WorktreeLeaseUnowned, SettledIsCancelled,
     ThreadInv
<1>c. state[u] \in ThreadStates \cup {Unborn, Deleted}
  BY <1>b DEF TypeOK
<1> DEFINE Same == /\ state'[u] = state[u] /\ pc'[u] = pc[u]
                   /\ u \in sessions' <=> u \in sessions
                   /\ u \in settled' => u \in settled
<1>d. Same => ThreadInv(u)'
  BY <1>a, ThreadUntouched
<1> HIDE DEF Same
<1>1. ASSUME NEW t \in Threads, Dispatch(t) PROVE ThreadInv(u)'
  <2>1. CASE u # t
    BY <1>1, <1>b, <1>d, <2>1 DEF Same, Dispatch, DispatchNewThread, DispatchFollowUp,
       StartSession, sessionVars, TypeOK, Transition
  <2>2. CASE u = t
    <3>1. ASSUME DispatchNewThread(t, "worktree") PROVE ThreadInv(u)'
      <4>1. pc'[u] = "worktree" /\ lease'[Home[u]] = NoThread
        BY <3>1, <2>2, <1>b DEF DispatchNewThread, AcquireLease, TypeOK
      <4>2. pc[u] = "none"
        BY <3>1, <2>2, <1>b DEF DispatchNewThread, AcquireLease, IInv, InsideHoldsLease, Inside,
           Turning
      <4>3. u \notin sessions' /\ u \notin settled'
        BY <3>1, <4>2, <1>b DEF DispatchNewThread, sessionVars, ThreadInv, SessionPCs, TypeOK
      <4> QED BY <4>1, <4>3 DEF ThreadInv, Turning, SessionPCs
    <3>2. ASSUME NEW first \in {"setup", "pipeline"},
                 DispatchNewThread(t, first) \/ DispatchFollowUp(t, first)
          PROVE  ThreadInv(u)'
      <4>1. pc'[u] = first /\ u \in sessions' /\ u \notin settled'
        BY <3>2, <2>2, <1>b DEF DispatchNewThread, DispatchFollowUp, StartSession, TypeOK
      <4> QED BY <4>1 DEF ThreadInv, Turning, SessionPCs
    <3> QED BY <1>1, <3>1, <3>2 DEF Dispatch
  <2> QED BY <2>1, <2>2
<1>2. ASSUME NEW t \in Threads, Worktree(t) PROVE ThreadInv(u)'
  <2>1. CASE u # t
    BY <1>2, <1>b, <1>d, <2>1 DEF Same, Worktree, WorktreeReady, WorktreeFailed,
       StartSession, sessionVars, TypeOK, Transition
  <2>2. CASE u = t
    <3>1. u \notin sessions /\ u \notin settled
      BY <1>2, <2>2, <1>b DEF Worktree, WorktreeReady, WorktreeFailed, ThreadInv, SessionPCs,
         TypeOK
    <3>2. ASSUME NEW first \in {"setup", "pipeline"}, WorktreeReady(t, first), Exists(t)
          PROVE  ThreadInv(u)'
      <4>1. pc'[u] = first /\ u \in sessions' /\ u \notin settled'
        BY <3>2, <2>2, <1>b DEF WorktreeReady, StartSession, TypeOK
      <4> QED BY <4>1 DEF ThreadInv, Turning, SessionPCs
    <3>3. ASSUME NEW first \in {"setup", "pipeline"}, WorktreeReady(t, first), ~Exists(t)
          PROVE  ThreadInv(u)'
      <4>1. pc'[u] = "none" /\ u \notin sessions' /\ u \notin settled' /\ state'[u] = state[u]
        BY <3>1, <3>3, <2>2, <1>b DEF WorktreeReady, sessionVars, TypeOK
      <4>2. state[u] \notin CancellableStates
        BY <3>3, <2>2 DEF Exists, ThreadStates, LiveStates, CancellableStates
      <4> QED BY <4>1, <4>2 DEF ThreadInv, SessionPCs
    <3>4. ASSUME WorktreeFailed(t) PROVE ThreadInv(u)'
      <4>1. /\ pc'[u] = "none" /\ u \notin sessions' /\ u \notin settled'
            /\ state'[u] = ApplyTransition(state[u], "turn_failed")
        BY <3>1, <3>4, <2>2, <1>b DEF WorktreeFailed, sessionVars, Transition, TypeOK
      <4>2. state'[u] \notin CancellableStates
        BY <4>1, <1>c, ApplyTransitionBusy DEF TurnEvents
      <4> QED BY <4>1, <4>2 DEF ThreadInv, SessionPCs
    <3> QED BY <1>2, <3>2, <3>3, <3>4 DEF Worktree
  <2> QED BY <2>1, <2>2
<1>3. ASSUME NEW t \in Threads, Gates(t) PROVE ThreadInv(u)'
  <2>1. /\ UNCHANGED <<lease, pc, sessions, settled>>
        /\ \E e \in {"gate_opened_permission", "gate_opened_question", "gates_closed"} :
             Transition(t, e)
    BY <1>3 DEF Gates, GateOpened, GatesClosed, sessionVars
  <2>2. PICK e \in {"gate_opened_permission", "gate_opened_question", "gates_closed"} :
          Transition(t, e)
    BY <2>1
  <2>3. CASE u # t
    BY <2>1, <2>2, <2>3, <1>b, <1>d DEF Same, Transition, TypeOK
  <2>4. CASE u = t
    <3>1. state'[u] = ApplyTransition(state[u], e) /\ e \in TurnEvents
      BY <2>2, <2>4, <1>b DEF Transition, TypeOK, TurnEvents
    <3>2. state[u] \notin CancellableStates => state'[u] \notin CancellableStates
      BY <3>1, <1>c, ApplyTransitionBusy
    <3>3. state[u] \in {"cancelled", Deleted} => state'[u] = state[u]
      BY <3>1, <1>c, ApplyTransitionBusy, ApplyTransitionType
    <3> QED BY <2>1, <3>2, <3>3, <1>b DEF ThreadInv, Turning
  <2> QED BY <2>3, <2>4
<1>4. ASSUME NEW t \in Threads, SpawnProvider(t) \/ ProviderDone(t) PROVE ThreadInv(u)'
  BY <1>4, <1>b DEF SpawnProvider, ProviderDone, sessionVars, ThreadInv, Turning, SessionPCs,
     TypeOK
<1>5. ASSUME NEW t \in Threads, TurnEnd(t) PROVE ThreadInv(u)'
  <2>1. PICK e \in {"cancel_settled", "turn_failed", "turn_finished"} : EndTurn(t, e)
    BY <1>5 DEF TurnEnd, TurnFinished, TurnFailed, TurnFailedEarly, PipelineEnd, FailureEvent
  <2>2. CASE u # t
    BY <2>1, <2>2, <1>b, <1>d DEF Same, EndTurn, DropSession, Transition, TypeOK
  <2>3. CASE u = t
    <3>1. /\ pc'[u] = "none" /\ u \notin sessions' /\ u \notin settled'
          /\ state'[u] = ApplyTransition(state[u], e)
      BY <2>1, <2>3, <1>b DEF EndTurn, DropSession, Transition, TypeOK
    <3>2. state'[u] \notin CancellableStates
      BY <3>1, <1>c, ApplyTransitionBusy DEF TurnEvents
    <3> QED BY <3>1, <3>2 DEF ThreadInv, SessionPCs
  <2> QED BY <2>2, <2>3
<1>6. ASSUME NEW t \in Threads, Stop(t) PROVE ThreadInv(u)'
  <2>0. UNCHANGED <<lease, pc, sessions, settled>>
    BY <1>6, OrphanKeepsLease DEF Stop, StopSession, StopOrphan
  <2>1. PICK e \in {"cancel_requested", "cancel_settled"} : Transition(t, e)
    BY <1>6 DEF Stop, StopSession, StopOrphan
  <2>2. CASE u # t
    BY <2>0, <2>1, <2>2, <1>b, <1>d DEF Same, Transition, TypeOK
  <2>3. CASE u = t
    <3>1. state'[u] = ApplyTransition(state[u], e) /\ e \in TurnEvents
      BY <2>1, <2>3, <1>b DEF Transition, TypeOK, TurnEvents
    <3>2. state[u] \notin CancellableStates => state'[u] \notin CancellableStates
      BY <3>1, <1>c, ApplyTransitionBusy
    <3>3. state[u] \in {"cancelled", Deleted} => state'[u] = state[u]
      BY <3>1, <1>c, ApplyTransitionBusy, ApplyTransitionType
    <3> QED BY <2>0, <3>2, <3>3, <1>b DEF ThreadInv, Turning
  <2> QED BY <2>2, <2>3
<1>7. ASSUME NEW t \in Threads, StoppingDeadline(t) PROVE ThreadInv(u)'
  <2>1. UNCHANGED <<lease, pc, sessions>>
    BY <1>7 DEF StoppingDeadline
  <2>2. CASE state[t] # "stopping" \/ u # t
    BY <1>7, <2>1, <2>2, <1>b, <1>d DEF Same, StoppingDeadline, Transition, TypeOK
  <2>3. CASE state[t] = "stopping" /\ u = t
    <3>1. state'[u] = "cancelled"
      BY <1>7, <2>3, <1>b, <1>c, ApplyTransitionBusy
      DEF StoppingDeadline, Transition, TypeOK, TurnEvents
    <3> QED BY <2>1, <3>1, <1>b DEF ThreadInv, CancellableStates
  <2> QED BY <2>2, <2>3
<1>8. ASSUME NEW t \in Threads, StrayExit(t) PROVE ThreadInv(u)'
  BY <1>8, <1>b DEF StrayExit, sessionVars, ThreadInv, Turning
<1>9. ASSUME NEW t \in Threads, NEW e \in {"diffs_committed", "diffs_settled"}, AcceptDiffs(t, e)
      PROVE ThreadInv(u)'
  <2>1. UNCHANGED <<lease, pc, sessions, settled>>
    BY <1>9 DEF AcceptDiffs, sessionVars
  <2>2. CASE u # t
    BY <1>9, <2>1, <2>2, <1>b, <1>d DEF Same, AcceptDiffs, Transition, TypeOK
  <2>3. CASE u = t
    <3>1. state'[u] = ApplyTransition(state[u], e) /\ e \in TurnEvents
      BY <1>9, <2>3, <1>b DEF AcceptDiffs, Transition, TypeOK, TurnEvents
    <3>2. state[u] \notin CancellableStates => state'[u] \notin CancellableStates
      BY <3>1, <1>c, ApplyTransitionBusy
    <3>3. u \notin settled
      BY <1>9, <2>3, SettledHoldsProject DEF AcceptDiffs
    <3> QED BY <2>1, <3>2, <3>3, <1>b DEF ThreadInv, Turning
  <2> QED BY <2>2, <2>3
<1>10. ASSUME NEW r \in Requests, Request(r) PROVE ThreadInv(u)'
  <2>1. UNCHANGED <<pc, sessions, settled>>
    BY <1>10 DEF Request, GitCheck, RequestBegin, GitBegin, GitRefused, RequestEnd, sessionVars
  <2>2. CASE UNCHANGED state
    BY <2>1, <2>2, <1>d DEF Same
  <2>3. CASE ~UNCHANGED state
    <3>1. RequestEnd(r)
      BY <1>10, <2>3 DEF Request, GitCheck, RequestBegin, GitBegin, GitRefused
    <3>2. PICK t \in Threads : t = request[r].thread
      BY <3>1, <1>b DEF RequestEnd, TypeOK, Idle
    <3>3. \/ Transition(t, "diffs_settled")
          \/ state' = [state EXCEPT ![t] = Deleted]
      BY <3>1, <3>2, <2>3 DEF RequestEnd
    <3>4. CASE u # t
      BY <2>1, <3>3, <3>4, <1>b, <1>d DEF Same, Transition, TypeOK
    <3>5. CASE u = t
      <4>1. u \notin settled
        BY <3>1, <3>2, <3>5, SettledHoldsProject DEF RequestEnd, Holding
      <4>2. Inside(Home[u]) = {r}
        BY <3>1, <3>2, <3>5 DEF RequestEnd, IInv, LeaseExclusive, Inside, Holding
      <4>3. pc[u] = "none"
        BY <4>2 DEF Inside, Turning
      <4>4. state[u] \notin CancellableStates
        BY <4>3, <1>b DEF ThreadInv, Turning
      <4>5. CASE Transition(t, "diffs_settled")
        <5>1. state'[u] = ApplyTransition(state[u], "diffs_settled")
          BY <3>5, <4>5, <1>b DEF Transition, TypeOK
        <5>2. state'[u] \notin CancellableStates
          BY <4>4, <5>1, <1>c, ApplyTransitionBusy DEF TurnEvents
        <5> QED BY <2>1, <4>1, <4>3, <5>2, <1>b DEF ThreadInv
      <4>6. CASE state' = [state EXCEPT ![t] = Deleted]
        <5>1. state'[u] = Deleted
          BY <3>5, <4>6, <1>b DEF TypeOK
        <5>2. state'[u] \notin CancellableStates
          BY <5>1 DEF CancellableStates, ThreadStates, LiveStates
        <5> QED BY <2>1, <4>1, <4>3, <5>2, <1>b DEF ThreadInv
      <4> QED BY <3>3, <4>5, <4>6
    <3> QED BY <3>4, <3>5
  <2> QED BY <2>2, <2>3
<1>11. ASSUME NEW p \in Projects, DeleteProject(p) PROVE ThreadInv(u)'
  <2>1. UNCHANGED <<lease, pc, sessions, settled>> /\ state'[u] \in {state[u], Deleted}
    BY <1>11 DEF DeleteProject, sessionVars
  <2>2. Deleted \notin CancellableStates
    BY DEF CancellableStates, ThreadStates, LiveStates
  <2> QED BY <2>1, <2>2, <1>b DEF ThreadInv, Turning
<1>12. CASE Restart
  <2>1. state'[u] \notin CancellableStates
    BY <1>12 DEF Restart, Recovered, CancellableStates
  <2> QED BY <1>12, <2>1 DEF Restart, ThreadInv, SessionPCs
<1>13. CASE UNCHANGED vars
  BY <1>13, <1>d DEF Same, vars, sessionVars
<1> QED BY <1>1, <1>2, <1>3, <1>4, <1>5, <1>6, <1>7, <1>8, <1>9, <1>10, <1>11, <1>12, <1>13
        DEF Next, Turn

LEMMA InitIInv == Init => IInv
<1> SUFFICES ASSUME Init PROVE IInv
  OBVIOUS
<1> USE LifecycleAssumption
<1>1. TypeOK
  BY DEF Init, TypeOK, PCs
<1>2. \A p \in Projects : Inside(p) = {} /\ lease[p] = Free
  BY DEF Init, Inside, Turning, Holding, Idle
<1>3. NoGhostTurn /\ SessionsFollowTurns /\ WorktreeLeaseUnowned /\ SettledIsCancelled
  BY DEF Init, NoGhostTurn, SessionsFollowTurns, WorktreeLeaseUnowned, SettledIsCancelled,
     SessionPCs, CancellableStates, ThreadStates, LiveStates
<1> QED BY <1>1, <1>2, <1>3 DEF IInv, LeaseExclusive, InsideHoldsLease

LEMMA IInvStep == IInv /\ [Next]_vars => IInv'
<1> SUFFICES ASSUME IInv, [Next]_vars PROVE IInv'
  OBVIOUS
<1>1. TypeOK'
  BY TypeStep DEF IInv
<1>2. LeaseExclusive' /\ InsideHoldsLease'
  BY StepFootprint, ProjectsStep
<1>3. \A u \in Threads : ThreadInv(u)'
  BY <1>1, ThreadsStep
<1>4. NoGhostTurn' /\ SessionsFollowTurns' /\ WorktreeLeaseUnowned'
  BY <1>3 DEF ThreadInv, NoGhostTurn, SessionsFollowTurns, WorktreeLeaseUnowned
<1>5. SettledIsCancelled'
  BY <1>1, <1>3 DEF ThreadInv, SettledIsCancelled, TypeOK
<1> QED BY <1>1, <1>2, <1>4, <1>5 DEF IInv

(* The inductive invariant holds in every reachable state.                 *)
THEOREM Invariant == Spec => []IInv
BY InitIInv, IInvStep, PTL DEF Spec

(* For any number of projects, threads and requests, two executions are    *)
(* never in the same project (project-execution.ts:26).                    *)
THEOREM Exclusion == Spec => []LeaseExclusive
<1>1. IInv => LeaseExclusive
  BY DEF IInv
<1> QED BY <1>1, Invariant, PTL

(* A thread whose row is busy always has a turn behind it: no end of turn, *)
(* stop, deadline, deletion or restart leaves a busy row alone.            *)
THEOREM BusyHasTurn == Spec => []NoGhostTurn
<1>1. IInv => NoGhostTurn
  BY DEF IInv
<1> QED BY <1>1, Invariant, PTL

-----------------------------------------------------------------------------
(* The lease implements ProjectExclusive: each footprint is a step of it.  *)

LEMMA FootprintImplements ==
  ASSUME IInv, Footprint
  PROVE  [Exclusive!Next]_[p \in Projects |-> Inside(p)]
<1> DEFINE ins == [p \in Projects |-> Inside(p)]
<1>1. CASE \A p \in Projects : Untouched(p)
  <2>1. ins' = ins
    BY <1>1 DEF Untouched
  <2> QED BY <2>1
<1>2. ASSUME NEW p \in Projects, NEW x \in Threads \cup Requests, Enters(p, x),
             \A q \in Projects \ {p} : Untouched(q)
      PROVE  Exclusive!Next
  <2>1. ins[p] = {} /\ ins' = [ins EXCEPT ![p] = {x}]
    BY <1>2 DEF Enters, Untouched
  <2> QED BY <2>1 DEF Exclusive!Next, Exclusive!Enter
<1>3. ASSUME NEW p \in Projects, Leaves(p), \A q \in Projects \ {p} : Untouched(q)
      PROVE  Exclusive!Next
  <2>1. ins[p] # {} /\ ins' = [ins EXCEPT ![p] = {}]
    BY <1>3 DEF Leaves, Untouched
  <2> QED BY <2>1 DEF Exclusive!Next, Exclusive!Leave
<1>4. CASE \A p \in Projects : Inside(p)' = {} /\ lease'[p] = Free
  <2>1. ins' = [p \in Projects |-> {}]
    BY <1>4
  <2> QED BY <2>1 DEF Exclusive!Next, Exclusive!Terminate
<1> QED BY <1>1, <1>2, <1>3, <1>4 DEF Footprint

(* Dispatch, turns, stops, deadlines, reviews, git commands and deletions  *)
(* together keep the promise of project-execution.ts: an execution enters  *)
(* only an empty project.                                                  *)
THEOREM ImplementsExclusive == Spec => ExclusiveSpec
<1>1. Init => Exclusive!Init
  BY DEF Init, Exclusive!Init, Inside, Turning, Holding, Idle
<1>2. IInv /\ [Next]_vars => [Exclusive!Next]_[p \in Projects |-> Inside(p)]
  BY StepFootprint, FootprintImplements
<1> QED BY <1>1, <1>2, Invariant, PTL DEF Spec, ExclusiveSpec, Exclusive!Spec

-----------------------------------------------------------------------------
(* Action properties.                                                      *)

(* A turn never starts over the session of an earlier one: the dispatch    *)
(* finds the project free, so nothing of the thread is inside.             *)
LEMMA DispatchFindsNoSession ==
  ASSUME IInv, NEW t \in Threads, lease[Home[t]] = Free \/ pc[t] = "worktree"
  PROVE  t \notin sessions
<1> USE LifecycleAssumption
<1>1. CASE lease[Home[t]] = Free
  <2>1. Inside(Home[t]) = {}
    BY <1>1 DEF IInv, InsideHoldsLease
  <2>2. pc[t] = "none"
    BY <2>1 DEF Inside, Turning
  <2> QED BY <2>2 DEF IInv, SessionsFollowTurns, SessionPCs
<1>2. CASE pc[t] = "worktree"
  BY <1>2 DEF IInv, SessionsFollowTurns, SessionPCs
<1> QED BY <1>1, <1>2

SessionKept(t) ==
  /\ t \in cancelRequested => t \in cancelRequested'
  /\ pc'[t] \in {"setup", "pipeline"} => pc'[t] = pc[t]

LEMMA SessionsKept == IInv /\ [Next]_vars => \A t \in sessions \cap sessions' : SessionKept(t)
<1> SUFFICES ASSUME IInv, [Next]_vars, NEW t \in sessions, t \in sessions'
             PROVE  SessionKept(t)
  OBVIOUS
<1> USE LifecycleAssumption
<1>0. TypeOK /\ t \in Threads
  BY DEF IInv, TypeOK
<1>1. ASSUME NEW u \in Threads, Dispatch(u) PROVE SessionKept(t)
  <2>1. u \notin sessions
    BY <1>1, DispatchFindsNoSession DEF Dispatch, DispatchNewThread, DispatchFollowUp, AcquireLease
  <2>2. t # u
    BY <2>1
  <2> QED BY <1>0, <1>1, <2>2 DEF Dispatch, DispatchNewThread, DispatchFollowUp, StartSession,
             sessionVars, SessionKept, TypeOK
<1>2. ASSUME NEW u \in Threads, Worktree(u) PROVE SessionKept(t)
  <2>1. u \notin sessions
    BY <1>2, DispatchFindsNoSession DEF Worktree, WorktreeReady, WorktreeFailed
  <2>2. t # u
    BY <2>1
  <2> QED BY <1>0, <1>2, <2>2 DEF Worktree, WorktreeReady, WorktreeFailed, StartSession,
             sessionVars, SessionKept, TypeOK
<1>3. ASSUME NEW u \in Threads, SpawnProvider(u) \/ Gates(u) \/ ProviderDone(u) PROVE SessionKept(t)
  BY <1>0, <1>3 DEF SpawnProvider, Gates, GateOpened, GatesClosed, ProviderDone, sessionVars,
     SessionKept, TypeOK
<1>4. ASSUME NEW u \in Threads, TurnEnd(u) PROVE SessionKept(t)
  <2>1. \E e \in TurnEvents : EndTurn(u, e)
    BY <1>4 DEF TurnEnd, TurnFinished, TurnFailed, TurnFailedEarly, PipelineEnd, FailureEvent,
       TurnEvents
  <2> QED BY <1>0, <2>1 DEF EndTurn, DropSession, SessionKept, TypeOK
<1>5. ASSUME NEW u \in Threads, Stop(u) \/ StoppingDeadline(u) \/ StrayExit(u) PROVE SessionKept(t)
  BY <1>0, <1>5 DEF Stop, StopSession, StopOrphan, StoppingDeadline, StrayExit, sessionVars,
     SessionKept
<1>6. ASSUME NEW u \in Threads, NEW e \in {"diffs_committed", "diffs_settled"}, AcceptDiffs(u, e)
      PROVE SessionKept(t)
  BY <1>6 DEF AcceptDiffs, sessionVars, SessionKept
<1>7. ASSUME NEW r \in Requests, Request(r) PROVE SessionKept(t)
  BY <1>7 DEF Request, GitCheck, RequestBegin, GitBegin, GitRefused, RequestEnd, sessionVars,
     SessionKept
<1>8. ASSUME NEW p \in Projects, DeleteProject(p) PROVE SessionKept(t)
  BY <1>8 DEF DeleteProject, sessionVars, SessionKept
<1>9. CASE Restart
  BY <1>9 DEF Restart
<1>10. CASE UNCHANGED vars
  BY <1>10 DEF vars, sessionVars, SessionKept
<1> QED BY <1>1, <1>2, <1>3, <1>4, <1>5, <1>6, <1>7, <1>8, <1>9, <1>10 DEF Next, Turn

(* NoTurnOverTurn for any threads and projects.                            *)
THEOREM TurnsDoNotOverlap == Spec => NoTurnOverTurn
<1>1. IInv /\ [Next]_vars
        => [\A t \in sessions \cap sessions' :
              /\ t \in cancelRequested => t \in cancelRequested'
              /\ pc'[t] \in {"setup", "pipeline"} => pc'[t] = pc[t]]_vars
  BY SessionsKept DEF SessionKept
<1> QED BY <1>1, Invariant, PTL DEF Spec, NoTurnOverTurn

-----------------------------------------------------------------------------
(***************************************************************************)
(* Rows and turns: what the row of a thread says while its turn lasts.     *)
(***************************************************************************)

StoppedStates == {"stopping", "cancelled", Deleted}

(* The row of a turn is busy, stopped or gone; once its stop was accepted  *)
(* it is no longer busy; and it goes away only with its project, because a *)
(* deletion takes the lease of the turn.                                   *)
RowInv(t) ==
  /\ Turning(t) => state[t] \in CancellableStates \cup StoppedStates
  /\ t \in cancelRequested => state[t] \in StoppedStates
  /\ Turning(t) /\ ~Exists(t) => Home[t] \notin projects

LEMMA StoppedEvents ==
  ASSUME NEW s \in StoppedStates,
         NEW e \in TurnEvents \ {"follow_up", "diffs_committed", "diffs_settled", "turn_failed"}
  PROVE  ApplyTransition(s, e) \in StoppedStates
BY LifecycleAssumption
DEF StoppedStates, ApplyTransition, Legal, Target, TurnEvents, ThreadStates, LiveStates,
    SettledStates

LEMMA TurnEventsKeepTurning ==
  ASSUME NEW s \in CancellableStates \cup StoppedStates,
         NEW e \in {"gate_opened_permission", "gate_opened_question", "gates_closed",
                   "cancel_requested", "cancel_settled"}
  PROVE  /\ ApplyTransition(s, e) \in CancellableStates \cup StoppedStates
         /\ e \in {"cancel_requested", "cancel_settled"} => ApplyTransition(s, e) \in StoppedStates
         /\ ApplyTransition(s, e) \in ThreadStates <=> s \in ThreadStates
BY LifecycleAssumption
DEF StoppedStates, CancellableStates, ApplyTransition, Legal, Target, ThreadStates, LiveStates,
    SettledStates

(* What a step does to the row of a thread whose turn was stopped.         *)
StopKept(t) == t \in cancelRequested => state'[t] \in StoppedStates \cup {"interrupted"}

RowStep(t) == RowInv(t)' /\ StopKept(t)

(* Whoever is inside a project is alone: a turn excludes every dispatch,   *)
(* request and review.                                                     *)
LEMMA TurnAlone ==
  ASSUME IInv, NEW t \in Threads, Turning(t)
  PROVE  /\ lease[Home[t]] # Free
         /\ \A r \in Requests : Holding(r) => Home[request[r].thread] # Home[t]
<1> USE LifecycleAssumption
<1>1. t \in Inside(Home[t]) /\ Home[t] \in Projects
  BY DEF Inside
<1>2. lease[Home[t]] # Free
  BY <1>1 DEF IInv, InsideHoldsLease
<1>3. ASSUME NEW r \in Requests, Holding(r), Home[request[r].thread] = Home[t] PROVE FALSE
  <2>1. r \in Inside(Home[t])
    BY <1>3 DEF Inside
  <2>2. r = t
    BY <2>1, <1>1 DEF IInv, LeaseExclusive
  <2> QED BY <2>2
<1> QED BY <1>2, <1>3

LEMMA RowKept ==
  ASSUME NEW t, RowInv(t), state'[t] = state[t], Turning(t)' => Turning(t),
         t \in cancelRequested' => t \in cancelRequested, projects' \subseteq projects
  PROVE  RowStep(t)
BY DEF RowInv, RowStep, StopKept, Exists

LEMMA RowSteps ==
  IInv /\ [Next]_vars /\ (\A t \in Threads : RowInv(t)) => \A t \in Threads : RowStep(t)
<1> SUFFICES ASSUME IInv, [Next]_vars, NEW u \in Threads, RowInv(u) PROVE RowStep(u)
  OBVIOUS
<1> USE LifecycleAssumption
<1>a. TypeOK /\ (u \in cancelRequested => Turning(u))
  BY DEF IInv, TypeOK, SessionsFollowTurns, SessionPCs, Turning
<1>b. ASSUME NEW t \in Threads, u # t, NEW e, Transition(t, e) PROVE state'[u] = state[u]
  BY <1>a, <1>b DEF Transition, TypeOK
<1>1. ASSUME NEW t \in Threads, Dispatch(t) PROVE RowStep(u)
  <2>1. CASE u # t
    <3>1. state'[u] = state[u] /\ pc'[u] = pc[u] /\ projects' = projects
      BY <1>1, <2>1, <1>a DEF Dispatch, DispatchNewThread, DispatchFollowUp, Transition, TypeOK
    <3>2. u \in cancelRequested' => u \in cancelRequested
      BY <1>1, <2>1 DEF Dispatch, DispatchNewThread, DispatchFollowUp, StartSession, sessionVars
    <3> QED BY <3>1, <3>2, RowKept DEF Turning
  <2>2. CASE u = t
    <3>1. ~Turning(u)
      BY <1>1, <2>2, TurnAlone DEF Dispatch, DispatchNewThread, DispatchFollowUp, AcquireLease
    <3>2. u \notin cancelRequested /\ u \notin cancelRequested'
      BY <1>1, <2>2, <3>1, <1>a DEF Dispatch, DispatchNewThread, DispatchFollowUp, StartSession,
         sessionVars
    <3>3. state'[u] = "running"
      BY <1>1, <2>2, <1>a DEF Dispatch, DispatchNewThread, DispatchFollowUp, InitialTurnState,
         Transition, ApplyTransition, Target, TypeOK
    <3> QED BY <3>2, <3>3 DEF RowStep, RowInv, StopKept, CancellableStates, Exists, ThreadStates,
            LiveStates
  <2> QED BY <2>1, <2>2
<1>2. ASSUME NEW t \in Threads, Worktree(t) PROVE RowStep(u)
  <2>1. ASSUME NEW first \in {"setup", "pipeline"}, WorktreeReady(t, first) PROVE RowStep(u)
    <3>1. /\ state' = state /\ projects' = projects /\ (Turning(u)' => Turning(u))
          /\ u \in cancelRequested' => u \in cancelRequested
      BY <2>1, <1>a DEF WorktreeReady, StartSession, sessionVars, Turning, TypeOK
    <3> QED BY <3>1, RowKept
  <2>2. ASSUME WorktreeFailed(t) PROVE RowStep(u)
    <3>1. projects' = projects /\ cancelRequested' = cancelRequested
      BY <2>2 DEF WorktreeFailed, sessionVars
    <3>2. CASE u # t
      <4>1. state'[u] = state[u] /\ pc'[u] = pc[u]
        BY <2>2, <3>2, <1>a, <1>b DEF WorktreeFailed, TypeOK
      <4> QED BY <3>1, <4>1, RowKept DEF Turning
    <3>3. CASE u = t
      <4>1. u \notin cancelRequested /\ ~Turning(u)'
        BY <2>2, <3>3, <1>a DEF WorktreeFailed, Turning, TypeOK, IInv, SessionsFollowTurns,
           SessionPCs
      <4> QED BY <3>1, <4>1 DEF RowStep, RowInv, StopKept
    <3> QED BY <3>2, <3>3
  <2> QED BY <1>2, <2>1, <2>2 DEF Worktree
<1>3. ASSUME NEW t \in Threads, Gates(t) PROVE RowStep(u)
  <2>1. UNCHANGED <<pc, cancelRequested, projects>>
    BY <1>3 DEF Gates, GateOpened, GatesClosed, sessionVars
  <2>2. PICK e \in {"gate_opened_permission", "gate_opened_question", "gates_closed"} :
          Transition(t, e)
    BY <1>3 DEF Gates, GateOpened, GatesClosed
  <2>3. CASE u # t
    BY <2>1, <2>2, <2>3, <1>b, RowKept DEF Turning
  <2>4. CASE u = t
    <3>1. state'[u] = ApplyTransition(state[u], e)
      BY <2>2, <2>4, <1>a DEF Transition, TypeOK
    <3>2. state[u] \in StoppedStates => state'[u] \in StoppedStates
      BY <3>1, StoppedEvents DEF TurnEvents
    <3>3. Turning(u) => /\ state'[u] \in CancellableStates \cup StoppedStates
                        /\ state'[u] \in ThreadStates <=> state[u] \in ThreadStates
      BY <3>1, TurnEventsKeepTurning DEF RowInv
    <3> QED BY <2>1, <3>2, <3>3 DEF RowStep, RowInv, StopKept, Turning, Exists
  <2> QED BY <2>3, <2>4
<1>4. ASSUME NEW t \in Threads, SpawnProvider(t) \/ ProviderDone(t) PROVE RowStep(u)
  <2>1. /\ state' = state /\ projects' = projects /\ (Turning(u)' => Turning(u))
        /\ cancelRequested' = cancelRequested
    BY <1>4, <1>a DEF SpawnProvider, ProviderDone, sessionVars, Turning, TypeOK
  <2> QED BY <2>1, RowKept
<1>5. ASSUME NEW t \in Threads, TurnEnd(t) PROVE RowStep(u)
  <2>1. PICK e \in {"cancel_settled", "turn_failed", "turn_finished"} :
          EndTurn(t, e) /\ (t \in cancelRequested => e # "turn_failed")
    BY <1>5 DEF TurnEnd, TurnFinished, TurnFailed, TurnFailedEarly, PipelineEnd, FailureEvent
  <2>2. projects' = projects
    BY <1>5 DEF TurnEnd, TurnFinished, TurnFailed, TurnFailedEarly, PipelineEnd
  <2>3. CASE u # t
    <3>1. state'[u] = state[u] /\ pc'[u] = pc[u]
      BY <2>1, <2>3, <1>a, <1>b DEF EndTurn, TypeOK
    <3>2. u \in cancelRequested' => u \in cancelRequested
      BY <2>1 DEF EndTurn, DropSession
    <3> QED BY <2>2, <3>1, <3>2, RowKept DEF Turning
  <2>4. CASE u = t
    <3>1. u \notin cancelRequested' /\ ~Turning(u)' /\ state'[u] = ApplyTransition(state[u], e)
      BY <2>1, <2>4, <1>a DEF EndTurn, DropSession, Transition, Turning, TypeOK
    <3>2. u \in cancelRequested => state'[u] \in StoppedStates
      BY <2>1, <2>4, <3>1, StoppedEvents DEF RowInv, TurnEvents
    <3> QED BY <3>1, <3>2 DEF RowStep, RowInv, StopKept
  <2> QED BY <2>3, <2>4
<1>6. ASSUME NEW t \in Threads, Stop(t) PROVE RowStep(u)
  <2>1. /\ UNCHANGED <<pc, projects>> /\ Turning(t)
        /\ u \in cancelRequested' => u \in cancelRequested \/ u = t
    <3>1. CASE StopSession(t)
      BY <3>1 DEF StopSession, Cancellable, IInv, SessionsFollowTurns, SessionPCs, Turning
    <3>2. CASE StopOrphan(t)
      BY <3>2, OrphanKeepsLease DEF StopOrphan, Turning
    <3> QED BY <1>6, <3>1, <3>2 DEF Stop
  <2>2. PICK e \in {"cancel_requested", "cancel_settled"} : Transition(t, e)
    BY <1>6 DEF Stop, StopSession, StopOrphan
  <2>3. CASE u # t
    BY <2>1, <2>2, <2>3, <1>b, RowKept DEF Turning
  <2>4. CASE u = t
    <3>1. state'[u] = ApplyTransition(state[u], e)
      BY <2>2, <2>4, <1>a DEF Transition, TypeOK
    <3>2. /\ state'[u] \in StoppedStates
          /\ state'[u] \in ThreadStates <=> state[u] \in ThreadStates
      BY <2>1, <2>4, <3>1, TurnEventsKeepTurning DEF RowInv
    <3> QED BY <2>1, <3>2 DEF RowStep, RowInv, StopKept, Turning, Exists
  <2> QED BY <2>3, <2>4
<1>7. ASSUME NEW t \in Threads, StoppingDeadline(t) PROVE RowStep(u)
  <2>1. UNCHANGED <<pc, projects, cancelRequested>>
    BY <1>7 DEF StoppingDeadline
  <2>2. CASE state'[u] = state[u]
    BY <2>1, <2>2, RowKept DEF Turning
  <2>3. CASE state'[u] # state[u]
    <3>1. u = t /\ state[u] = "stopping" /\ state'[u] = ApplyTransition(state[u], "cancel_settled")
      BY <1>7, <2>3, <1>a DEF StoppingDeadline, Transition, TypeOK
    <3>2. state'[u] = "cancelled"
      BY <3>1 DEF ApplyTransition, Legal, Target
    <3> QED BY <2>1, <3>2 DEF RowStep, RowInv, StopKept, StoppedStates, Exists, ThreadStates,
            SettledStates
  <2> QED BY <2>2, <2>3
<1>8. ASSUME NEW t \in Threads, StrayExit(t) PROVE RowStep(u)
  BY <1>8, RowKept DEF StrayExit, sessionVars, Turning
<1>9. ASSUME NEW t \in Threads, NEW e \in {"diffs_committed", "diffs_settled"}, AcceptDiffs(t, e)
      PROVE RowStep(u)
  <2>1. UNCHANGED <<pc, projects, cancelRequested>>
    BY <1>9 DEF AcceptDiffs, sessionVars
  <2>2. CASE u # t
    BY <1>9, <2>1, <2>2, <1>b, RowKept DEF AcceptDiffs, Turning
  <2>3. CASE u = t
    <3>1. ~Turning(u)
      BY <1>9, <2>3, TurnAlone DEF AcceptDiffs
    <3> QED BY <2>1, <3>1, <1>a DEF RowStep, RowInv, StopKept, Turning
  <2> QED BY <2>2, <2>3
<1>10. ASSUME NEW r \in Requests, Request(r) PROVE RowStep(u)
  <2>1. UNCHANGED <<pc, projects, cancelRequested>>
    BY <1>10 DEF Request, GitCheck, RequestBegin, GitBegin, GitRefused, RequestEnd, sessionVars
  <2>2. CASE state'[u] = state[u]
    BY <2>1, <2>2, RowKept DEF Turning
  <2>3. CASE state'[u] # state[u]
    <3>1. RequestEnd(r)
      BY <1>10, <2>3 DEF Request, GitCheck, RequestBegin, GitBegin, GitRefused
    <3>2. request[r].thread \in Threads
      BY <3>1, <1>a DEF RequestEnd, TypeOK, Idle
    <3>3. u = request[r].thread
      BY <3>1, <3>2, <2>3, <1>a DEF RequestEnd, Transition, TypeOK
    <3>4. ~Turning(u)
      BY <3>1, <3>3, TurnAlone DEF RequestEnd, Holding
    <3> QED BY <2>1, <3>4, <1>a DEF RowStep, RowInv, StopKept, Turning
  <2> QED BY <2>2, <2>3
<1>11. ASSUME NEW p \in Projects, DeleteProject(p) PROVE RowStep(u)
  <2>1. UNCHANGED <<pc, cancelRequested>> /\ projects' = projects \ {p}
    BY <1>11 DEF DeleteProject, sessionVars
  <2>2. CASE Home[u] = p /\ Exists(u)
    <3>1. state'[u] = Deleted /\ Home[u] \notin projects'
      BY <1>11, <2>1, <2>2 DEF DeleteProject
    <3> QED BY <2>1, <3>1 DEF RowStep, RowInv, StopKept, StoppedStates
  <2>3. CASE ~(Home[u] = p /\ Exists(u))
    <3>1. state'[u] = state[u]
      BY <1>11, <2>3 DEF DeleteProject
    <3> QED BY <2>1, <3>1, RowKept DEF Turning
  <2> QED BY <2>2, <2>3
<1>12. CASE Restart
  <2>1. /\ ~Turning(u)' /\ u \notin cancelRequested'
        /\ state'[u] = Recovered(state[u])
    BY <1>12 DEF Restart, Turning
  <2>2. state[u] \in StoppedStates => state'[u] \in StoppedStates \cup {"interrupted"}
    BY <2>1 DEF Recovered
  <2> QED BY <2>1, <2>2 DEF RowStep, RowInv, StopKept
<1>13. CASE UNCHANGED vars
  BY <1>13, RowKept DEF vars, sessionVars, Turning
<1> QED BY <1>1, <1>2, <1>3, <1>4, <1>5, <1>6, <1>7, <1>8, <1>9, <1>10, <1>11, <1>12, <1>13
        DEF Next, Turn

(* A lease nobody uses belongs to a project that is gone.                  *)
LEMMA LeaseStep ==
  ASSUME IInv, [Next]_vars, LeaseNotLeaked, \A t \in Threads : RowInv(t), projects' \subseteq projects
  PROVE  LeaseNotLeaked'
<1> SUFFICES ASSUME NEW p \in projects', lease'[p] # Free PROVE Inside(p)' # {}
  BY DEF LeaseNotLeaked
<1>1. p \in projects /\ p \in Projects
  BY DEF IInv, TypeOK
<1>2. Footprint
  BY StepFootprint
<1>3. ~Orphaned(p)
  BY <1>1 DEF Orphaned, RowInv
<1>4. CASE Untouched(p)
  BY <1>1, <1>4 DEF Untouched, LeaseNotLeaked
<1>5. CASE \E x : Enters(p, x)
  BY <1>5 DEF Enters
<1>6. ~Leaves(p)
  BY <1>3 DEF Leaves
<1> QED BY <1>1, <1>2, <1>4, <1>5, <1>6 DEF Footprint

LEMMA ProjectsShrink == [Next]_vars => projects' \subseteq projects
<1> SUFFICES ASSUME [Next]_vars PROVE projects' \subseteq projects
  OBVIOUS
<1>1. ASSUME NEW t \in Threads,
             Dispatch(t) \/ Turn(t) \/ Stop(t) \/ StoppingDeadline(t) \/ StrayExit(t)
      PROVE  projects' = projects
  BY <1>1 DEF Dispatch, DispatchNewThread, DispatchFollowUp, Turn, Worktree, WorktreeReady,
     WorktreeFailed, SpawnProvider, Gates, GateOpened, GatesClosed, ProviderDone, TurnEnd,
     TurnFinished, TurnFailed, TurnFailedEarly, PipelineEnd, Stop, StopSession, StopOrphan,
     StoppingDeadline, StrayExit
<1>2. ASSUME NEW r \in Requests, Request(r) PROVE projects' = projects
  BY <1>2 DEF Request, GitCheck, RequestBegin, GitBegin, GitRefused, RequestEnd
<1> QED BY <1>1, <1>2 DEF Next, AcceptDiffs, DeleteProject, Restart, vars

(* LeaseNotLeaked and StopNeverUndone for any threads, projects, requests. *)
FullInv == IInv /\ LeaseNotLeaked /\ \A t \in Threads : RowInv(t)

LEMMA InitFullInv == Init => FullInv
<1>1. Init => \A t \in Threads : RowInv(t)
  BY DEF Init, RowInv, Turning
<1>2. Init => LeaseNotLeaked
  BY DEF Init, LeaseNotLeaked
<1> QED BY <1>1, <1>2, InitIInv DEF FullInv

LEMMA FullInvStep == FullInv /\ [Next]_vars => FullInv'
<1> SUFFICES ASSUME FullInv, [Next]_vars PROVE FullInv'
  OBVIOUS
<1>1. IInv'
  BY IInvStep DEF FullInv
<1>2. \A t \in Threads : RowInv(t)'
  BY RowSteps DEF FullInv, RowStep
<1>3. LeaseNotLeaked'
  BY LeaseStep, ProjectsShrink DEF FullInv
<1> QED BY <1>1, <1>2, <1>3 DEF FullInv

LEMMA FullInvariant == Spec => []FullInv
BY InitFullInv, FullInvStep, PTL DEF Spec

(* A project in which nothing runs is free, however the last execution in  *)
(* it ended.                                                               *)
THEOREM NoLeak == Spec => []LeaseNotLeaked
<1>1. FullInv => LeaseNotLeaked
  BY DEF FullInv
<1> QED BY <1>1, FullInvariant, PTL

(* From the stop to the end of its turn a thread reads stopping or         *)
(* cancelled, whatever comes late (turn-state.ts:103-107).                 *)
THEOREM StopHolds == Spec => StopNeverUndone
<1>1. FullInv /\ [Next]_vars =>
        [\A t \in cancelRequested :
           state'[t] \in {"stopping", "cancelled", "interrupted", Deleted}]_vars
  BY RowSteps DEF FullInv, IInv, TypeOK, RowStep, StopKept, StoppedStates
<1> QED BY <1>1, FullInvariant, PTL DEF Spec, StopNeverUndone

-----------------------------------------------------------------------------
(***************************************************************************)
(* The rows implement ThreadContract: one lemma for each action of the     *)
(* contract, then every step of the system is one of them for each thread. *)
(***************************************************************************)

(* A row says stopping only while the stop is remembered, so that no end of*)
(* its turn reads it as a failure.                                         *)
StoppingIsRequested == \A t \in Threads : state[t] = "stopping" => t \in cancelRequested

(* A request names a thread that was created.                              *)
RequestsOfThreads ==
  \A r \in Requests : request[r] # Idle => state[request[r].thread] # Unborn

ContractInv == FullInv /\ StoppingIsRequested /\ RequestsOfThreads

LEMMA BusyAre == Contract!BusyStates = CancellableStates
BY DEF Contract!BusyStates, Contract!LiveStates, CancellableStates

LEMMA IsQuiet ==
  ASSUME NEW u \in Threads, state'[u] = state[u], Turning(u)' <=> Turning(u)
  PROVE  Contract!Step(u)
BY DEF Contract!Step, Contract!Quiet

LEMMA IsStart ==
  ASSUME NEW u \in Threads, ~Turning(u), Turning(u)',
         state[u] \in SettledStates \cup {Unborn}, state'[u] = "running"
  PROVE  Contract!Step(u)
BY DEF Contract!Step, Contract!Start, Contract!Starts, Contract!SettledStates, SettledStates,
   Contract!InitialTurnState

LEMMA IsWait ==
  ASSUME NEW u \in Threads, Turning(u), Turning(u)',
         state[u] \in LiveStates, state'[u] \in LiveStates
  PROVE  Contract!Step(u)
BY DEF Contract!Step, Contract!Wait, Contract!GoesOn, Contract!LiveStates, LiveStates

LEMMA IsStop ==
  ASSUME NEW u \in Threads, Turning(u), Turning(u)',
         state[u] \in CancellableStates, state'[u] \in {"stopping", "cancelled"}
  PROVE  Contract!Step(u)
BY BusyAre DEF Contract!Step, Contract!Stop, Contract!GoesOn

LEMMA IsEnd ==
  ASSUME NEW u \in Threads, Turning(u), ~Turning(u)',
         \/ state[u] \in LiveStates /\ state'[u] \in {"idle", "error"}
         \/ state[u] = "stopping" /\ state'[u] = "cancelled"
         \/ state[u] \notin CancellableStates /\ state'[u] = state[u]
  PROVE  Contract!Step(u)
BY BusyAre DEF Contract!Step, Contract!End, Contract!Ends, Contract!LiveStates, LiveStates

LEMMA IsReview ==
  ASSUME NEW u \in Threads, ~Turning(u), ~Turning(u)',
         state[u] \in SettledStates, state'[u] \in {"idle", "committed"}
  PROVE  Contract!Step(u)
BY DEF Contract!Step, Contract!Review, Contract!Rests, Contract!SettledStates, SettledStates

LEMMA IsDelete ==
  ASSUME NEW u \in Threads, Turning(u)' <=> Turning(u), Exists(u), state'[u] = Deleted
  PROVE  Contract!Step(u)
BY DEF Contract!Step, Contract!Delete, Contract!ThreadStates, Contract!LiveStates,
   Contract!SettledStates, Exists, ThreadStates, LiveStates, SettledStates

LEMMA IsRestart ==
  ASSUME NEW u \in Threads, ~Turning(u)', state'[u] = Recovered(state[u])
  PROVE  Contract!Step(u)
BY BusyAre DEF Contract!Step, Contract!Restart, Recovered

LEMMA ContractStep ==
  ASSUME ContractInv, [Next]_vars, NEW u \in Threads
  PROVE  Contract!Step(u) /\ (state'[u] = "stopping" => u \in cancelRequested')
<1> USE LifecycleAssumption
<1> DEFINE Goal == Contract!Step(u) /\ (state'[u] = "stopping" => u \in cancelRequested')
<1> SUFFICES Goal
  OBVIOUS
<1>a. /\ TypeOK /\ IInv /\ RowInv(u)
      /\ state[u] = "stopping" => u \in cancelRequested
      /\ ~Turning(u) => state[u] \notin CancellableStates
      /\ pc[u] = "worktree" => u \notin cancelRequested
  BY DEF ContractInv, FullInv, StoppingIsRequested, IInv, NoGhostTurn, SessionsFollowTurns,
     SessionPCs, TypeOK
<1>b. ASSUME NEW t \in Threads, u # t, NEW e, Transition(t, e) PROVE state'[u] = state[u]
  BY <1>a, <1>b DEF Transition, TypeOK
<1>c. ASSUME state'[u] = state[u], Turning(u)' <=> Turning(u),
             u \in cancelRequested => u \in cancelRequested'
      PROVE  Goal
  BY <1>a, <1>c, IsQuiet
<1> HIDE DEF Goal
<1>1. ASSUME NEW t \in Threads, Dispatch(t) PROVE Goal
  <2>1. CASE u # t
    <3>1. state'[u] = state[u] /\ pc'[u] = pc[u]
      BY <1>1, <2>1, <1>a DEF Dispatch, DispatchNewThread, DispatchFollowUp, Transition, TypeOK
    <3>2. u \in cancelRequested => u \in cancelRequested'
      BY <1>1, <2>1 DEF Dispatch, DispatchNewThread, DispatchFollowUp, StartSession, sessionVars
    <3> QED BY <3>1, <3>2, <1>c DEF Turning
  <2>2. CASE u = t
    <3>1. ~Turning(u)
      BY <1>1, <2>2, TurnAlone, <1>a
      DEF Dispatch, DispatchNewThread, DispatchFollowUp, AcquireLease
    <3>2. Turning(u)'
      BY <1>1, <2>2, <1>a DEF Dispatch, DispatchNewThread, DispatchFollowUp, Turning, TypeOK
    <3>3. state[u] \in SettledStates \cup {Unborn} /\ state'[u] = "running"
      BY <1>1, <2>2, <1>a DEF Dispatch, DispatchNewThread, DispatchFollowUp, InitialTurnState,
         Transition, ApplyTransition, Target, Legal, TypeOK
    <3> QED BY <3>1, <3>2, <3>3, IsStart DEF Goal
  <2> QED BY <2>1, <2>2
<1>2. ASSUME NEW t \in Threads, Worktree(t) PROVE Goal
  <2>1. ASSUME NEW first \in {"setup", "pipeline"}, WorktreeReady(t, first) PROVE Goal
    <3>1. state' = state /\ pc[t] = "worktree"
      BY <2>1 DEF WorktreeReady
    <3>2. CASE u # t \/ Exists(t)
      <4>1. Turning(u)' <=> Turning(u)
        BY <2>1, <3>2, <1>a DEF WorktreeReady, Turning, TypeOK
      <4>2. u \in cancelRequested => u \in cancelRequested'
        BY <2>1, <3>1, <1>a DEF WorktreeReady, StartSession, sessionVars
      <4> QED BY <3>1, <4>1, <4>2, <1>c
    <3>3. CASE u = t /\ ~Exists(t)
      <4>1. Turning(u) /\ ~Turning(u)'
        BY <2>1, <3>3, <1>a DEF WorktreeReady, Turning, TypeOK
      <4>2. state[u] \notin CancellableStates
        BY <3>3 DEF Exists, CancellableStates, ThreadStates, LiveStates
      <4>3. state'[u] # "stopping"
        BY <3>1, <4>2 DEF CancellableStates
      <4> QED BY <3>1, <4>1, <4>2, <4>3, IsEnd DEF Goal
    <3> QED BY <3>2, <3>3
  <2>2. ASSUME WorktreeFailed(t) PROVE Goal
    <3>1. pc[t] = "worktree" /\ cancelRequested' = cancelRequested
      BY <2>2 DEF WorktreeFailed, sessionVars
    <3>2. CASE u # t
      <4>1. state'[u] = state[u] /\ pc'[u] = pc[u]
        BY <2>2, <3>2, <1>a, <1>b DEF WorktreeFailed, TypeOK
      <4> QED BY <3>1, <4>1, <1>c DEF Turning
    <3>3. CASE u = t
      <4>1. Turning(u) /\ ~Turning(u)'
        BY <2>2, <3>3, <1>a DEF WorktreeFailed, Turning, TypeOK
      <4>2. state[u] \in LiveStates \cup {"cancelled", Deleted}
        BY <3>1, <3>3, <4>1, <1>a DEF RowInv, CancellableStates, StoppedStates, LiveStates
      <4>3. state'[u] = ApplyTransition(state[u], "turn_failed")
        BY <2>2, <3>3, <1>a DEF WorktreeFailed, Transition, TypeOK
      <4>4. \/ state[u] \in LiveStates /\ state'[u] = "error"
            \/ state[u] \in {"cancelled", Deleted} /\ state'[u] = state[u]
        BY <4>2, <4>3 DEF ApplyTransition, Legal, Target, LiveStates, ThreadStates
      <4>5. state'[u] # "stopping" /\ "cancelled" \notin CancellableStates
            /\ Deleted \notin CancellableStates
        BY <4>4 DEF CancellableStates, LiveStates, ThreadStates
      <4> QED BY <4>1, <4>4, <4>5, IsEnd DEF Goal
    <3> QED BY <3>2, <3>3
  <2> QED BY <1>2, <2>1, <2>2 DEF Worktree
<1>3. ASSUME NEW t \in Threads, Gates(t) PROVE Goal
  <2>1. UNCHANGED <<pc, cancelRequested>>
    BY <1>3 DEF Gates, GateOpened, GatesClosed, sessionVars
  <2>2. PICK e \in {"gate_opened_permission", "gate_opened_question", "gates_closed"} :
          Transition(t, e)
    BY <1>3 DEF Gates, GateOpened, GatesClosed
  <2>3. CASE state'[u] = state[u]
    BY <2>1, <2>3, <1>c DEF Turning
  <2>4. CASE state'[u] # state[u]
    <3>1. u = t /\ state'[u] = ApplyTransition(state[u], e)
      BY <2>2, <2>4, <1>a, <1>b DEF Transition, TypeOK
    <3>2. state[u] \in LiveStates /\ state'[u] \in LiveStates
      BY <2>4, <3>1 DEF ApplyTransition, Legal, Target, LiveStates
    <3>3. Turning(u) /\ Turning(u)'
      BY <2>1, <3>2, <1>a DEF Turning, CancellableStates, LiveStates
    <3>4. state'[u] # "stopping"
      BY <3>2 DEF LiveStates
    <3> QED BY <3>2, <3>3, <3>4, IsWait DEF Goal
  <2> QED BY <2>3, <2>4
<1>4. ASSUME NEW t \in Threads, SpawnProvider(t) \/ ProviderDone(t) PROVE Goal
  <2>1. state' = state /\ (Turning(u)' <=> Turning(u)) /\ cancelRequested' = cancelRequested
    BY <1>4, <1>a DEF SpawnProvider, ProviderDone, sessionVars, Turning, TypeOK
  <2> QED BY <2>1, <1>c
<1>5. ASSUME NEW t \in Threads, TurnEnd(t) PROVE Goal
  <2>1. PICK e \in {"cancel_settled", "turn_failed", "turn_finished"} :
          EndTurn(t, e) /\ (t \in cancelRequested => e # "turn_failed")
                        /\ (e = "cancel_settled" => t \in cancelRequested)
    BY <1>5 DEF TurnEnd, TurnFinished, TurnFailed, TurnFailedEarly, PipelineEnd, FailureEvent
  <2>2. CASE u # t
    <3>1. state'[u] = state[u] /\ pc'[u] = pc[u]
      BY <2>1, <2>2, <1>a, <1>b DEF EndTurn, TypeOK
    <3>2. u \in cancelRequested => u \in cancelRequested'
      BY <2>1, <2>2 DEF EndTurn, DropSession
    <3> QED BY <3>1, <3>2, <1>c DEF Turning
  <2>3. CASE u = t
    <3>1. Turning(u)
      BY <1>5, <2>3 DEF TurnEnd, TurnFinished, TurnFailed, TurnFailedEarly, PipelineEnd, Turning
    <3>2. ~Turning(u)' /\ state'[u] = ApplyTransition(state[u], e)
      BY <2>1, <2>3, <1>a DEF EndTurn, Transition, Turning, TypeOK
    <3>3. CASE state[u] \in LiveStates
      <4>1. u \notin cancelRequested
        BY <3>3, <1>a DEF RowInv, StoppedStates, LiveStates, ThreadStates
      <4>2. state'[u] \in {"idle", "error"}
        BY <2>1, <2>3, <3>2, <3>3, <4>1 DEF ApplyTransition, Legal, Target, LiveStates
      <4>3. state'[u] # "stopping"
        BY <4>2
      <4> QED BY <3>1, <3>2, <3>3, <4>2, <4>3, IsEnd DEF Goal
    <3>4. CASE state[u] = "stopping"
      <4>1. state'[u] = "cancelled"
        BY <2>1, <2>3, <3>2, <3>4, <1>a DEF ApplyTransition, Legal, Target, LiveStates
      <4>2. state'[u] # "stopping"
        BY <4>1
      <4> QED BY <3>1, <3>2, <3>4, <4>1, <4>2, IsEnd DEF Goal
    <3>5. CASE state[u] \in {"cancelled", Deleted}
      <4>1. state'[u] = state[u] /\ state[u] \notin CancellableStates
        BY <3>2, <3>5
        DEF ApplyTransition, Legal, Target, LiveStates, ThreadStates, SettledStates,
            CancellableStates
      <4>2. state'[u] # "stopping"
        BY <4>1 DEF CancellableStates
      <4> QED BY <3>1, <3>2, <4>1, <4>2, IsEnd DEF Goal
    <3> QED BY <3>1, <3>3, <3>4, <3>5, <1>a DEF RowInv, StoppedStates, CancellableStates, LiveStates
  <2> QED BY <2>2, <2>3
<1>6. ASSUME NEW t \in Threads, Stop(t) PROVE Goal
  <2>1. pc' = pc /\ Turning(t)
    <3>1. CASE StopSession(t)
      BY <3>1, <1>a DEF StopSession, Cancellable, IInv, SessionsFollowTurns, SessionPCs, Turning
    <3>2. CASE StopOrphan(t)
      BY <3>2, <1>a, OrphanKeepsLease DEF StopOrphan, Turning
    <3> QED BY <1>6, <3>1, <3>2 DEF Stop
  <2>2. PICK e \in {"cancel_requested", "cancel_settled"} :
          Transition(t, e) /\ (e = "cancel_requested" => t \in cancelRequested')
    BY <1>6 DEF Stop, StopSession, StopOrphan
  <2>3. u \in cancelRequested => u \in cancelRequested'
    BY <1>6 DEF Stop, StopSession, StopOrphan
  <2>4. CASE state'[u] = state[u]
    BY <2>1, <2>3, <2>4, <1>c DEF Turning
  <2>5. CASE state'[u] # state[u]
    <3>1. u = t /\ state'[u] = ApplyTransition(state[u], e)
      BY <2>2, <2>5, <1>a, <1>b DEF Transition, TypeOK
    <3>2. /\ state[u] \in CancellableStates
          /\ state'[u] = IF e = "cancel_requested" THEN "stopping" ELSE "cancelled"
      BY <2>5, <3>1 DEF ApplyTransition, Legal, Target, LiveStates, CancellableStates
    <3>3. state'[u] = "stopping" => u \in cancelRequested'
      BY <2>2, <3>1, <3>2
    <3>4. Turning(u) /\ Turning(u)' /\ state'[u] \in {"stopping", "cancelled"}
      BY <2>1, <3>1, <3>2 DEF Turning
    <3> QED BY <3>2, <3>3, <3>4, IsStop DEF Goal
  <2> QED BY <2>4, <2>5
<1>7. ASSUME NEW t \in Threads, StoppingDeadline(t) PROVE Goal
  <2>1. UNCHANGED <<pc, cancelRequested>>
    BY <1>7 DEF StoppingDeadline
  <2>2. CASE state'[u] = state[u]
    BY <2>1, <2>2, <1>c DEF Turning
  <2>3. CASE state'[u] # state[u]
    <3>1. u = t /\ state[u] = "stopping" /\ state'[u] = ApplyTransition(state[u], "cancel_settled")
      BY <1>7, <2>3, <1>a DEF StoppingDeadline, Transition, TypeOK
    <3>2. state'[u] = "cancelled" /\ state[u] \in CancellableStates
      BY <3>1 DEF ApplyTransition, Legal, Target, CancellableStates
    <3>3. Turning(u) /\ Turning(u)' /\ state'[u] \in {"stopping", "cancelled"}
          /\ state'[u] # "stopping"
      BY <2>1, <3>2, <1>a DEF Turning
    <3> QED BY <3>2, <3>3, IsStop DEF Goal
  <2> QED BY <2>2, <2>3
<1>8. ASSUME NEW t \in Threads, StrayExit(t) PROVE Goal
  BY <1>8, <1>c DEF StrayExit, sessionVars, Turning
<1>9. ASSUME NEW t \in Threads, NEW e \in {"diffs_committed", "diffs_settled"}, AcceptDiffs(t, e)
      PROVE Goal
  <2>1. UNCHANGED <<pc, cancelRequested>>
    BY <1>9 DEF AcceptDiffs, sessionVars
  <2>2. CASE state'[u] = state[u]
    BY <2>1, <2>2, <1>c DEF Turning
  <2>3. CASE state'[u] # state[u]
    <3>1. u = t /\ state'[u] = ApplyTransition(state[u], e)
      BY <1>9, <2>3, <1>a, <1>b DEF AcceptDiffs, Transition, TypeOK
    <3>2. ~Turning(u) /\ ~Turning(u)'
      BY <1>9, <2>1, <3>1, <1>a, TurnAlone DEF AcceptDiffs, Turning
    <3>3. state[u] \in SettledStates /\ state'[u] \in {"idle", "committed"}
      BY <2>3, <3>1 DEF ApplyTransition, Legal, Target, SettledStates
    <3>4. state'[u] # "stopping"
      BY <3>3
    <3> QED BY <3>2, <3>3, <3>4, IsReview DEF Goal
  <2> QED BY <2>2, <2>3
<1>10. ASSUME NEW r \in Requests, Request(r) PROVE Goal
  <2>1. UNCHANGED <<pc, cancelRequested>>
    BY <1>10 DEF Request, GitCheck, RequestBegin, GitBegin, GitRefused, RequestEnd, sessionVars
  <2>2. CASE state'[u] = state[u]
    BY <2>1, <2>2, <1>c DEF Turning
  <2>3. CASE state'[u] # state[u]
    <3>1. RequestEnd(r)
      BY <1>10, <2>3 DEF Request, GitCheck, RequestBegin, GitBegin, GitRefused
    <3>2. request[r].thread \in Threads /\ request[r] # Idle
      BY <3>1, <1>a DEF RequestEnd, TypeOK, Idle
    <3>3. u = request[r].thread
      BY <3>1, <3>2, <2>3, <1>a DEF RequestEnd, Transition, TypeOK
    <3>4. ~Turning(u) /\ ~Turning(u)'
      BY <2>1, <3>1, <3>3, TurnAlone, <1>a DEF RequestEnd, Holding, Turning
    <3>5. state[u] # Unborn
      BY <3>2, <3>3 DEF ContractInv, RequestsOfThreads
    <3>6. CASE Transition(u, "diffs_settled")
      <4>1. state[u] \in SettledStates /\ state'[u] = "idle"
        BY <2>3, <3>6, <1>a DEF Transition, ApplyTransition, Legal, Target, SettledStates, TypeOK
      <4>2. state'[u] # "stopping" /\ state'[u] \in {"idle", "committed"}
        BY <4>1
      <4> QED BY <3>4, <4>1, <4>2, IsReview DEF Goal
    <3>7. CASE state' = [state EXCEPT ![u] = Deleted]
      <4>1. state'[u] = Deleted /\ Exists(u)
        BY <2>3, <3>5, <3>7, <1>a DEF TypeOK, Exists
      <4>2. state'[u] # "stopping"
        BY <4>1 DEF ThreadStates
      <4> QED BY <3>4, <4>1, <4>2, IsDelete DEF Goal
    <3> QED BY <3>1, <3>3, <3>6, <3>7, <2>3 DEF RequestEnd
  <2> QED BY <2>2, <2>3
<1>11. ASSUME NEW p \in Projects, DeleteProject(p) PROVE Goal
  <2>1. UNCHANGED <<pc, cancelRequested>>
    BY <1>11 DEF DeleteProject, sessionVars
  <2>2. CASE state'[u] = state[u]
    BY <2>1, <2>2, <1>c DEF Turning
  <2>3. CASE state'[u] # state[u]
    <3>1. state'[u] = Deleted /\ Exists(u)
      BY <1>11, <2>3 DEF DeleteProject
    <3>2. state'[u] # "stopping"
      BY <3>1 DEF ThreadStates
    <3> QED BY <2>1, <3>1, <3>2, IsDelete DEF Goal, Turning
  <2> QED BY <2>2, <2>3
<1>12. CASE Restart
  <2>1. ~Turning(u)' /\ state'[u] = Recovered(state[u])
    BY <1>12 DEF Restart, Turning
  <2>2. state'[u] # "stopping"
    BY <2>1 DEF Recovered, CancellableStates
  <2> QED BY <2>1, <2>2, IsRestart DEF Goal
<1>13. CASE UNCHANGED vars
  BY <1>13, <1>c DEF vars, sessionVars, Turning
<1> QED BY <1>1, <1>2, <1>3, <1>4, <1>5, <1>6, <1>7, <1>8, <1>9, <1>10, <1>11, <1>12, <1>13
        DEF Next, Turn

(* No step of the contract takes a row back to where no thread was.        *)
LEMMA StaysBorn ==
  ASSUME NEW u \in Threads, Contract!Step(u), state[u] # Unborn
  PROVE  state'[u] # Unborn
BY LifecycleAssumption
DEF Contract!Step, Contract!Start, Contract!Wait, Contract!Stop, Contract!End, Contract!Review,
    Contract!Delete, Contract!Restart, Contract!Quiet, Contract!InitialTurnState,
    Contract!LiveStates, Contract!BusyStates, ThreadStates, LiveStates, SettledStates

LEMMA ContractInvStep == ContractInv /\ [Next]_vars => ContractInv'
<1> SUFFICES ASSUME ContractInv, [Next]_vars PROVE ContractInv'
  OBVIOUS
<1> USE LifecycleAssumption
<1>1. FullInv'
  BY FullInvStep DEF ContractInv
<1>2. StoppingIsRequested'
  BY ContractStep DEF StoppingIsRequested
<1>3. TypeOK
  BY DEF ContractInv, FullInv, IInv
<1>4. ASSUME NEW r \in Requests, request'[r] # Idle
      PROVE  \/ Exists(request'[r].thread) /\ state' = state
             \/ request[r] # Idle /\ request'[r].thread = request[r].thread
  <2>1. CASE request' = request
    BY <1>4, <2>1
  <2>2. ASSUME NEW q \in Requests, Request(q)
        PROVE  \/ Exists(request'[r].thread) /\ state' = state
               \/ request[r] # Idle /\ request'[r].thread = request[r].thread
    <3>1. CASE r # q
      BY <1>3, <1>4, <2>2, <3>1
      DEF Request, GitCheck, RequestBegin, GitBegin, GitRefused, RequestEnd, TypeOK
    <3>2. CASE r = q
      <4>1. ASSUME NEW t \in Threads, GitCheck(r, t) \/ \E kind \in RequestKinds : RequestBegin(r, kind, t)
            PROVE  Exists(request'[r].thread) /\ state' = state
        BY <1>3, <4>1 DEF GitCheck, RequestBegin, TypeOK
      <4>2. CASE GitBegin(r)
        BY <1>3, <4>2 DEF GitBegin, TypeOK, Idle
      <4>3. ~GitRefused(r) /\ ~RequestEnd(r)
        BY <1>3, <1>4 DEF GitRefused, RequestEnd, TypeOK
      <4> QED BY <2>2, <3>2, <4>1, <4>2, <4>3 DEF Request
    <3> QED BY <3>1, <3>2
  <2>3. CASE Restart
    BY <1>4, <2>3 DEF Restart
  <2>4. ASSUME NEW t \in Threads,
               Dispatch(t) \/ Turn(t) \/ Stop(t) \/ StoppingDeadline(t) \/ StrayExit(t)
        PROVE  request' = request
    BY <2>4 DEF Dispatch, DispatchNewThread, DispatchFollowUp, Turn, Worktree, WorktreeReady,
       WorktreeFailed, SpawnProvider, Gates, GateOpened, GatesClosed, ProviderDone, TurnEnd,
       TurnFinished, TurnFailed, TurnFailedEarly, PipelineEnd, Stop, StopSession, StopOrphan,
       StoppingDeadline, StrayExit
  <2> QED BY <2>1, <2>2, <2>3, <2>4 DEF Next, AcceptDiffs, DeleteProject, vars
<1>5. RequestsOfThreads'
  <2> SUFFICES ASSUME NEW r \in Requests, request'[r] # Idle
               PROVE  state'[request'[r].thread] # Unborn
    BY DEF RequestsOfThreads
  <2>1. CASE Exists(request'[r].thread) /\ state' = state
    BY <2>1 DEF Exists
  <2>2. CASE request[r] # Idle /\ request'[r].thread = request[r].thread
    <3>1. request[r].thread \in Threads
      BY <1>3, <2>2 DEF TypeOK
    <3>2. state[request[r].thread] # Unborn
      BY <2>2 DEF ContractInv, RequestsOfThreads
    <3> QED BY <2>2, <3>1, <3>2, ContractStep, StaysBorn
  <2> QED BY <1>4, <2>1, <2>2
<1> QED BY <1>1, <1>2, <1>5 DEF ContractInv

LEMMA ContractInvariant == Spec => []ContractInv
<1>1. Init => ContractInv
  <2>1. Init => StoppingIsRequested /\ RequestsOfThreads
    BY LifecycleAssumption DEF Init, StoppingIsRequested, RequestsOfThreads, ThreadStates
  <2> QED BY <2>1, InitFullInv DEF ContractInv
<1> QED BY <1>1, ContractInvStep, PTL DEF Spec

(* For any number of threads, projects and requests the rows keep their    *)
(* contract, whatever dispatches, ends, stops, reviews, deletes or restarts*)
(* come in between (turn-state.ts:16-133).                                 *)
THEOREM RowsKeepContract == Spec => ContractSpec
<1>1. Init => Contract!Init
  BY DEF Init, Contract!Init, Turning
<1>2. ContractInv /\ [Next]_vars => [Contract!Next]_(Contract!vars)
  BY ContractStep DEF Contract!Next
<1> QED BY <1>1, <1>2, ContractInvariant, PTL DEF Spec, ContractSpec, Contract!Spec

(* The path of Stop without a session is taken for one reason only: the    *)
(* turn is still creating its worktree (dispatch.ts:259-279).            *)
THEOREM OrphanIsAWorktree == Spec => OnlyWorktreesAreOrphans
<1>1. IInv /\ [Next]_vars => [\A t \in Threads : StopOrphan(t) => pc[t] = "worktree"]_vars
  BY OrphanKeepsLease
<1> QED BY <1>1, Invariant, PTL DEF Spec, OnlyWorktreesAreOrphans
=============================================================================
