------------------------------ MODULE DiffReview ------------------------------
(***************************************************************************)
(* Review of the changes of a turn: the rows of db/repositories/diffs.ts,  *)
(* who writes them (the end of a turn in dispatch.ts, the captures of      *)
(* pipeline-runner.ts, the merge of a parallel batch), who decides them    *)
(* (apply-diff.ts, resolve-conflict) and what happens to the files.        *)
(*                                                                         *)
(* The threads of one project work in one tree.  The content of a file is  *)
(* named by the last turn that edited it, 0 being what was there before.  A*)
(* row is about a name that git printed, which is not always a path:       *)
(* --numstat without -z quotes some paths, and prints a file that was      *)
(* renamed as one name for two paths.                                      *)
(*                                                                         *)
(* An operation holds the project lease for as long as it takes            *)
(* (TurnLifecycle is about that lease), so one variable is the operation   *)
(* under way.                                                              *)
(***************************************************************************)
EXTENDS TurnState, Integers, Sequences, FiniteSets

CONSTANTS Threads, Files,
          Quoted,     \* the files whose path git quotes
          MaxTurns,   \* bound: turns of the project
          MaxRows,    \* bound: rows of the table
          Gone        \* the thread was deleted

ASSUME ReviewAssumption ==
  /\ MaxTurns \in Nat /\ MaxRows \in Nat
  /\ Gone \notin ThreadStates
  /\ Quoted \subseteq Files

VARIABLES
  state,    \* threads.state, or Gone
  tree,     \* the content of each file in the working tree
  head,     \* its content in the last commit
  rows,     \* the table diffs
  op,       \* the operation that holds the lease
  turns     \* turns so far

vars == <<state, tree, head, rows, op, turns>>

Turns == 1..MaxTurns
DiffStatus == {"pending", "accepted", "rejected", "conflict"}
NoFile == -1
Versions == NoFile..MaxTurns

(* What git prints: <<f>> for one file, <<f, g>> for "f => g".             *)
Names == {<<f>> : f \in Files} \cup (Files \X Files)
Paths(n) == {n[i] : i \in DOMAIN n}
IsPath(n) == Len(n) = 1 /\ n[1] \notin Quoted

(* by is the turn that made the row; merged marks the row of a path that   *)
(* two children of a batch changed.                                        *)
Rows == [thread : Threads, file : Names, by : Turns, merged : BOOLEAN, status : DiffStatus]

None == [kind |-> "none"]
PipelineKinds == {"featdevelop", "featbuild"}
TurnKinds == PipelineKinds \cup {"turn"}

(* at: what the operation is doing.  A turn and featbuild write and are    *)
(* collected once ("last" stage); featdevelop writes in the implementer,   *)
(* may stop at the checkpoint and may write again in the stages after it.  *)
TurnOps == [kind : TurnKinds, thread : Threads, turn : Turns,
            at : {"implementer", "captured", "checkpoint", "last"}]
Rejections == [kind : {"reject"}, thread : Threads, subset : SUBSET Rows, left : SUBSET Names]

TypeOK ==
  /\ state \in [Threads -> ThreadStates \cup {Gone}]
  /\ tree \in [Files -> Versions] /\ head \in [Files -> Versions]
  /\ rows \subseteq Rows
  /\ turns \in 0..MaxTurns
  /\ \/ op = None
     \/ op \in TurnOps
     \/ op \in Rejections

Init ==
  /\ state = [t \in Threads |-> "idle"]
  /\ head \in [Files -> {NoFile, 0}] /\ tree = head
  /\ rows = {} /\ op = None /\ turns = 0

Of(t) == {r \in rows : r.thread = t}
Pending(t) == {r \in Of(t) : r.status = "pending"}
Dirty == {f \in Files : tree[f] # head[f]}
InTurn == op.kind \in TurnKinds
Transition(t, event) == state' = [state EXCEPT ![t] = ApplyTransition(@, event)]
TransitionTwice(t, first, second) ==
  state' = [state EXCEPT ![t] = ApplyTransition(ApplyTransition(@, first), second)]

(***************************************************************************)
(* Turns.                                                                  *)
(***************************************************************************)

(* A follow-up or a slash command takes the lease.                         *)
StartTurn(t, kind) ==
  /\ op = None /\ turns < MaxTurns /\ state[t] \in SettledStates
  /\ turns' = turns + 1
  /\ Transition(t, "follow_up")
  /\ op' = [kind |-> kind, thread |-> t, turn |-> turns + 1,
            at |-> IF kind = "featdevelop" THEN "implementer" ELSE "last"]
  /\ UNCHANGED <<tree, head, rows>>

Writing == InTurn /\ op.at \in {"implementer", "last"}

(* The agent writes, removes or moves a file, or puts back what was        *)
(* committed.                                                              *)
Write(f) ==
  /\ Writing
  /\ tree' = [tree EXCEPT ![f] = op.turn]
  /\ UNCHANGED <<state, head, rows, op, turns>>

Remove(f) ==
  /\ Writing /\ tree[f] # NoFile
  /\ tree' = [tree EXCEPT ![f] = NoFile]
  /\ UNCHANGED <<state, head, rows, op, turns>>

Move(f, g) ==
  /\ Writing /\ tree[f] # NoFile /\ tree[g] = NoFile
  /\ tree' = [tree EXCEPT ![f] = NoFile, ![g] = tree[f]]
  /\ UNCHANGED <<state, head, rows, op, turns>>

Restore(f) ==
  /\ Writing
  /\ tree' = [tree EXCEPT ![f] = head[f]]
  /\ UNCHANGED <<state, head, rows, op, turns>>

(* mergeParallelChildDiffs for a name that two children's diffs have: the  *)
(* tree keeps its files, the row waits for a choice.  A path of one child  *)
(* alone is copied without a row, which is Write.  Only an ordinary turn   *)
(* has a delegation server.                                                *)
ConflictRow(n) ==
  [thread |-> op.thread, file |-> n, by |-> op.turn, merged |-> TRUE, status |-> "conflict"]

MergeConflict(n) ==
  /\ op.kind = "turn" /\ Cardinality(rows) < MaxRows
  /\ Len(n) = 2 => head[n[1]] # NoFile /\ head[n[2]] = NoFile
  /\ rows' = rows \cup {ConflictRow(n)}
  /\ UNCHANGED <<state, tree, head, op, turns>>

(* A file that is gone and a new one: git may take them for one that was   *)
(* renamed (diff.renames is on), and does so when they are the same.       *)
MayBeRenamed ==
  {p \in Files \X Files :
     /\ head[p[1]] # NoFile /\ tree[p[1]] = NoFile
     /\ head[p[2]] = NoFile /\ tree[p[2]] # NoFile}

Moved(p) == head[p[1]] = tree[p[2]]

(* diffWorkingTree against HEAD: every difference under one name.          *)
Listings ==
  {L \in SUBSET ({<<f>> : f \in Dirty} \cup MayBeRenamed) :
     /\ UNION {Paths(n) : n \in L} = Dirty
     /\ \A m, n \in L : m # n => Paths(m) \cap Paths(n) = {}
     /\ \A p \in MayBeRenamed : Moved(p) => ~({<<p[1]>>, <<p[2]>>} \subseteq L)}

RowFor(n) ==
  [thread |-> op.thread, file |-> n, by |-> op.turn, merged |-> FALSE, status |-> "pending"]

(* createDiff for each name of the list.                                   *)
Collect(L) == {RowFor(n) : n \in L}

(* captureNewDiffs skips the names the thread has a row for.               *)
CaptureNew(L) == {RowFor(n) : n \in L \ {r.file : r \in Of(op.thread)}}

EndRows(L) == IF op.kind = "turn" THEN Collect(L) ELSE CaptureNew(L)

AddRows(new) == Cardinality(rows \cup new) <= MaxRows /\ rows' = rows \cup new

(* The end of a turn or a pipeline that went well.  A stop while it awaits *)
(* the list does not keep it from writing the rows: turn_finished then     *)
(* settles the row as cancelled.                                           *)
Finish(L, stopped) ==
  /\ InTurn /\ op.at = "last"
  /\ AddRows(EndRows(L))
  /\ IF stopped THEN TransitionTwice(op.thread, "cancel_requested", "turn_finished")
     ELSE Transition(op.thread, "turn_finished")
  /\ op' = None
  /\ UNCHANGED <<tree, head, turns>>

(* featdevelop after its implementer: capture, then a checkpoint when the  *)
(* thread has pending rows.                                                *)
CaptureStage(L) ==
  /\ op.kind = "featdevelop" /\ op.at = "implementer"
  /\ AddRows(CaptureNew(L))
  /\ op' = [op EXCEPT !.at = "captured"]
  /\ UNCHANGED <<state, tree, head, turns>>

NextStage ==
  /\ op.kind = "featdevelop" /\ op.at = "captured"
  /\ IF Pending(op.thread) # {}
     THEN /\ op' = [op EXCEPT !.at = "checkpoint"]
          /\ Transition(op.thread, "gate_opened_question")
     ELSE op' = [op EXCEPT !.at = "last"] /\ UNCHANGED state
  /\ UNCHANGED <<tree, head, rows, turns>>

AnswerCheckpoint ==
  /\ op.kind = "featdevelop" /\ op.at = "checkpoint"
  /\ op' = [op EXCEPT !.at = "last"]
  /\ Transition(op.thread, "gates_closed")
  /\ UNCHANGED <<tree, head, rows, turns>>

(* A turn that fails, or is stopped before its list, collects nothing: its *)
(* files stay.                                                             *)
AbortTurn ==
  /\ InTurn
  /\ \/ TransitionTwice(op.thread, "cancel_requested", "cancel_settled")
     \/ Transition(op.thread, IF op.kind = "turn" THEN "turn_failed" ELSE "turn_finished")
  /\ op' = None
  /\ UNCHANGED <<tree, head, rows, turns>>

(***************************************************************************)
(* Review.                                                                 *)
(***************************************************************************)

Decide(S, verdict) == (rows \ S) \cup {[r EXCEPT !.status = verdict] : r \in S}

(* resolveSubset and the filter on pending.  A request that names a        *)
(* conflict is refused whole; one that names no pending row is refused.    *)
Subsets(t) == (SUBSET Pending(t)) \ {{}}

(* Mutant: any accept commits the thread.                                  *)
AcceptAlwaysCommits(remaining) == "diffs_committed"

(* Accept changes no file.                                                 *)
AcceptEvent(remaining) == IF remaining = {} THEN "diffs_committed" ELSE "diffs_settled"

Accept(t, S) ==
  /\ op = None /\ state[t] # Gone
  /\ rows' = Decide(S, "accepted")
  /\ Transition(t, AcceptEvent(Pending(t) \ S))
  /\ UNCHANGED <<tree, head, op, turns>>

(* Reject discards the files one by one, each an await under the lease.    *)
StartReject(t, S) ==
  /\ op = None /\ state[t] # Gone
  /\ op' = [kind |-> "reject", thread |-> t, subset |-> S, left |-> {r.file : r \in S}]
  /\ UNCHANGED <<state, tree, head, rows, turns>>

(* discardFile hands the name to git as a path.  A name that is none       *)
(* matches nothing: git clean succeeds, and nothing is restored.           *)
Discard(n) ==
  /\ op.kind = "reject" /\ n \in op.left
  /\ tree' = IF IsPath(n) THEN [tree EXCEPT ![n[1]] = head[n[1]]] ELSE tree
  /\ op' = [op EXCEPT !.left = @ \ {n}]
  /\ UNCHANGED <<state, head, rows, turns>>

(* Mutant: the rows whose file was discarded are marked all the same.      *)
RowsMarkedAsDiscarded == Decide({r \in op.subset : r.file \notin op.left}, "rejected")

(* diff_apply_failed: the request is answered with the error.              *)
RowsOfFailedReject == rows

(* The lease is released in a finally.                                     *)
LeaseAfterReject == None

DiscardFails ==
  /\ op.kind = "reject" /\ op.left # {}
  /\ rows' = RowsOfFailedReject
  /\ op' = LeaseAfterReject
  /\ UNCHANGED <<state, tree, head, turns>>

(* Mutant: a discard that failed is only logged.                           *)
DiscardedBestEffort == TRUE

AllDiscarded == op.left = {}

FinishReject ==
  /\ op.kind = "reject" /\ AllDiscarded
  /\ rows' = Decide(op.subset, "rejected")
  /\ Transition(op.thread, "diffs_settled")
  /\ op' = LeaseAfterReject
  /\ UNCHANGED <<tree, head, turns>>

(* resolveParallelConflict writes the chosen version over the file, or     *)
(* removes the file when the child did.  A candidate whose worktree is gone*)
(* is refused and nothing changes, and a name that is no path is neither in*)
(* the worktree nor in the tree.                                           *)
ResolveConflict(r, version) ==
  /\ op = None /\ r \in rows /\ r.status = "conflict"
  /\ tree' = IF IsPath(r.file) THEN [tree EXCEPT ![r.file[1]] = version] ELSE tree
  /\ rows' = Decide({r}, "pending")
  /\ UNCHANGED <<state, head, op, turns>>

(***************************************************************************)
(* The rest of the world.                                                  *)
(***************************************************************************)

(* git add -A and commit: every change of the tree, reviewed or not.       *)
Commit(t) ==
  /\ op = None /\ state[t] \in ThreadStates \ (LiveStates \cup {"stopping"}) /\ Dirty # {}
  /\ head' = tree
  /\ UNCHANGED <<state, tree, rows, op, turns>>

(* diffs.thread_id has no cascade: the handler deletes the rows itself.    *)
DeleteThread(t) ==
  /\ op = None /\ state[t] # Gone
  /\ rows' = rows \ Of(t)
  /\ state' = [state EXCEPT ![t] = Gone]
  /\ UNCHANGED <<tree, head, op, turns>>

(* The process ends and is started again: the lease and what ran are gone, *)
(* and a thread that was in a turn is interrupted (recoverRunningThreads). *)
Restart ==
  /\ op # None
  /\ op' = None
  /\ state' = [t \in Threads |->
       IF state[t] \in LiveStates \cup {"stopping"} THEN "interrupted" ELSE state[t]]
  /\ UNCHANGED <<tree, head, rows, turns>>

Editing == \E f \in Files : Write(f) \/ Remove(f) \/ Restore(f) \/ \E g \in Files : Move(f, g)

Rejecting == (\E n \in Names : Discard(n)) \/ DiscardFails \/ FinishReject

Next ==
  \/ \E t \in Threads : (\E kind \in TurnKinds : StartTurn(t, kind)) \/ Commit(t) \/ DeleteThread(t)
  \/ Editing \/ \E n \in Names : MergeConflict(n)
  \/ \E L \in Listings : CaptureStage(L) \/ \E stopped \in BOOLEAN : Finish(L, stopped)
  \/ NextStage \/ AnswerCheckpoint \/ AbortTurn
  \/ \E t \in Threads : \E S \in Subsets(t) : Accept(t, S) \/ StartReject(t, S)
  \/ Rejecting
  \/ \E r \in rows : \E version \in {NoFile, r.by} : ResolveConflict(r, version)
  \/ Restart

Spec == Init /\ [][Next]_vars
-----------------------------------------------------------------------------
(***************************************************************************)
(* Properties.                                                             *)
(***************************************************************************)

As(r, verdict) == [r EXCEPT !.status = verdict]
Becomes(r, verdict) == r.status # verdict /\ r \notin rows' /\ As(r, verdict) \in rows'

(* A row whose name is a path is marked rejected only when its file is what*)
(* the last commit says, whichever discard of the batch failed             *)
(* (applyDiffAction discards before it marks).  Of a row with another name *)
(* the code promises it too and does not keep it: see Discard.             *)
RejectedIsRestored ==
  [][\A r \in rows : Becomes(r, "rejected") /\ IsPath(r.file) =>
       tree'[r.file[1]] = head'[r.file[1]]]_vars

(* F03 spec 5.5: a reject that fails changes the status of none of its     *)
(* rows, and one that succeeds changes all of them at once.                *)
SubsetIsAtomic ==
  [][op.kind = "reject" =>
       \A r, s \in op.subset : Becomes(r, "rejected") => Becomes(s, "rejected")]_vars

(* A decided row is never decided again nor taken back: neither a repeated *)
(* request, a later turn over the same file, a resolved conflict nor a     *)
(* restart changes it.  Only deleting the thread removes it.               *)
DecisionIsFinal ==
  [][\A r \in rows : r.status \in {"accepted", "rejected"} =>
       r \in rows' \/ state'[r.thread] = Gone]_vars

(* A thread reads committed only when the user has decided every row that  *)
(* was pending: the only pending row it may have comes from a conflict that*)
(* was resolved afterwards (resolve-conflict does not touch the state).    *)
CommittedMeansReviewed ==
  \A t \in Threads : state[t] = "committed" => \A r \in Pending(t) : r.merged
=============================================================================
