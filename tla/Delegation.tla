------------------------------ MODULE Delegation ------------------------------
(***************************************************************************)
(* Subagents called by a turn: the delegation server of a turn with its    *)
(* FIFO queue (runner/delegate.ts), single children in the working tree of *)
(* the parent, batches of children in worktrees of their own               *)
(* (git/worktree.ts), the merge of their work into the parent's tree       *)
(* (runner/parallel-merge.ts), and the resolution of conflicts by the user.*)
(*                                                                         *)
(* One thread with its successive turns.  Nothing but the turn itself ends *)
(* with it: closing the server or stopping the turn reaches neither the    *)
(* queue nor the children.  The content of a file is named by who wrote it.*)
(***************************************************************************)
EXTENDS Naturals, Sequences, FiniteSets

CONSTANTS Requests,    \* calls of call_subagent, each made at most once
          Batches,     \* the requests with tasks[]
          Children,    \* childThreadIds
          Of,          \* Of[c]: the request child c belongs to
          Files,       \* paths that git names as they are: not renamed, not quoted
          MaxTurns,    \* bound: turns of the thread
          Committed,   \* a file as HEAD has it
          Parent,      \* a file as the provider of a turn left it
          Missing      \* a file removed from the tree

ASSUME DelegationAssumption ==
  /\ Batches \subseteq Requests /\ IsFiniteSet(Children)
  /\ Of \in [Children -> Requests]
  /\ \A c, d \in Children : Of[c] = Of[d] /\ Of[c] \notin Batches => c = d
  /\ MaxTurns \in Nat
  /\ {Committed, Parent, Missing} \cap Children = {}

VARIABLES
  turn,       \* the number of the current or last turn
  live,       \* a turn is running, and holds the project
  caller,     \* caller[r]: the turn whose server has request r
  phase,      \* where the handling of a request is
  queue,      \* the queue of the server of each turn
  child,      \* the process of a child; unstarted: a run and a watchdog only
  runs,       \* subagent_runs.status
  worktree,   \* the worktree of a child
  work,       \* files of its worktree in which a child differs from HEAD
  looked,     \* children whose worktree a batch has diffed
  found,      \* the files in that diff
  tree,       \* the working tree of the parent
  conflicts   \* rows of diffs made by a merge

turnVars == <<turn, live>>
requestVars == <<caller, phase, queue>>
childVars == <<child, runs>>
diffVars == <<looked, found>>
fileVars == <<worktree, work, tree, conflicts, diffVars>>
vars == <<turnVars, requestVars, childVars, fileVars>>

Turns == 1..MaxTurns
Contents == Children \cup {Committed, Parent, Missing}
RunStatus == {"running", "completed", "error", "timeout"}
Phases == {"none", "queued", "worktrees", "children", "diffs", "cleanup", "answered", "lost"}
InProgress == {"worktrees", "children", "diffs", "cleanup"}
Processes == {"none", "skipped", "unstarted", "running", "aborted", "stray", "ended"}

ChildrenOf(r) == {c \in Children : Of[c] = r}
Serial(c) == Of[c] \notin Batches
Running(c) == child[c] \in {"running", "aborted"}
Alive(c) == Running(c) \/ child[c] = "stray"
Awaited(c) == Running(c) /\ phase[Of[c]] = "children"

TypeOK ==
  /\ turn \in Turns \cup {0}
  /\ live \in BOOLEAN
  /\ caller \in [Requests -> Turns \cup {0}]
  /\ phase \in [Requests -> Phases]
  /\ queue \in [Turns -> Seq(Requests)]
  /\ child \in [Children -> Processes]
  /\ runs \in [Children -> RunStatus \cup {"none"}]
  /\ worktree \in [Children -> {"none", "there", "removed", "pruned"}]
  /\ work \in [Children -> SUBSET Files]
  /\ looked \subseteq Children
  /\ found \in [Children -> SUBSET Files]
  /\ tree \in [Files -> Contents]
  /\ conflicts \subseteq
       [batch : Requests, file : Files, candidates : SUBSET Children,
        status : {"conflict", "pending"}]

Init ==
  /\ turn = 0 /\ live = FALSE
  /\ caller = [r \in Requests |-> 0]
  /\ phase = [r \in Requests |-> "none"]
  /\ queue = [n \in Turns |-> <<>>]
  /\ child = [c \in Children |-> "none"]
  /\ runs = [c \in Children |-> "none"]
  /\ worktree = [c \in Children |-> "none"]
  /\ work = [c \in Children |-> {}]
  /\ looked = {} /\ found = [c \in Children |-> {}]
  /\ tree = [f \in Files |-> Committed]
  /\ conflicts = {}

-----------------------------------------------------------------------------
(* The turns, as far as delegation sees them.                              *)

StartTurn ==
  /\ ~live /\ turn < MaxTurns
  /\ turn' = turn + 1 /\ live' = TRUE
  /\ UNCHANGED <<requestVars, childVars, fileVars>>

(* The provider of the turn edits a file.                                  *)
ParentWrites(f) ==
  /\ live
  /\ tree' = [tree EXCEPT ![f] = Parent]
  /\ UNCHANGED <<turnVars, requestVars, childVars, worktree, work, conflicts, diffVars>>

(* A provider that ends by itself has the results of its calls.            *)
FinishTurn ==
  /\ live
  /\ queue[turn] = <<>>
  /\ live' = FALSE
  /\ UNCHANGED <<turn, requestVars, childVars, fileVars>>

(* Stop, or a failure of the provider: the server stops listening, and no  *)
(* signal reaches what it was asked for.                                   *)
StopTurn ==
  /\ live
  /\ live' = FALSE
  /\ UNCHANGED <<turn, requestVars, childVars, fileVars>>

-----------------------------------------------------------------------------
(* The server and its queue.                                               *)

(* POST /delegate with its body: queue = queue.then(run, run).             *)
Delegate(r) ==
  /\ live /\ phase[r] = "none"
  /\ caller' = [caller EXCEPT ![r] = turn]
  /\ phase' = [phase EXCEPT ![r] = "queued"]
  /\ queue' = [queue EXCEPT ![turn] = Append(@, r)]
  /\ UNCHANGED <<turnVars, childVars, fileVars>>

(* Mutant: a request is handled as it comes.                               *)
AtOnce(r) == phase[r] = "queued"

(* The requests before it are answered.                                    *)
MyTurn(r) == phase[r] = "queued" /\ Head(queue[caller[r]]) = r

GoTo(r, step) == phase' = [phase EXCEPT ![r] = step]

(* The answer is written and the promise of the request, which is the first*)
(* of its queue, resolves.                                                 *)
AnswerRequest(r) ==
  /\ GoTo(r, "answered")
  /\ queue' = [queue EXCEPT ![caller[r]] = Tail(@)]
  /\ UNCHANGED caller

(* A body that does not pass the checks, the caller gate, an unknown       *)
(* subagent: an answer, and no run.                                        *)
RequestRefused(r) ==
  /\ MyTurn(r)
  /\ AnswerRequest(r)
  /\ UNCHANGED <<turnVars, childVars, fileVars>>

(* runDelegatedSubagentTurn in the working tree of the parent.             *)
BeginSerial(r) ==
  /\ r \notin Batches /\ MyTurn(r)
  /\ ChildrenOf(r) # {}
  /\ child' = [c \in Children |-> IF Of[c] = r THEN "running" ELSE child[c]]
  /\ runs' = [c \in Children |-> IF Of[c] = r THEN "running" ELSE runs[c]]
  /\ GoTo(r, "children")
  /\ UNCHANGED <<turnVars, caller, queue, fileVars>>

(* The vault was locked since the turn began, and the key of the child     *)
(* cannot be read (delegate.ts:305): an answer, and a run without a child. *)
SerialThrows(r) ==
  /\ r \notin Batches /\ MyTurn(r)
  /\ ChildrenOf(r) # {}
  /\ child' = [c \in Children |-> IF Of[c] = r THEN "unstarted" ELSE child[c]]
  /\ runs' = [c \in Children |-> IF Of[c] = r THEN "running" ELSE runs[c]]
  /\ AnswerRequest(r)
  /\ UNCHANGED <<turnVars, fileVars>>

(* runParallelDelegatedBatch awaits the worktrees, one after the other.    *)
BeginBatch(r) ==
  /\ r \in Batches /\ MyTurn(r)
  /\ GoTo(r, "worktrees")
  /\ UNCHANGED <<turnVars, caller, queue, childVars, fileVars>>

(* What the tasks of a batch come to: ready, those whose worktree could be *)
(* created; the others are skipped.  started: those of them that got a     *)
(* child; thrown: a run without one; the rest is refused by the gate or the*)
(* catalogue, and has no run.                                              *)
TasksBegin(r, ready, started, thrown) ==
  /\ worktree' = [c \in Children |-> IF c \in ready THEN "there" ELSE worktree[c]]
  /\ child' = [c \in Children |->
       IF Of[c] # r THEN child[c]
       ELSE IF c \in started THEN "running"
       ELSE IF c \in thrown THEN "unstarted"
       ELSE IF c \in ready THEN "ended" ELSE "skipped"]
  /\ runs' = [c \in Children |-> IF c \in started \cup thrown THEN "running" ELSE runs[c]]
  /\ UNCHANGED <<turnVars, work, tree, conflicts, diffVars>>

WorktreesReady(r, ready, started) ==
  /\ TasksBegin(r, ready, started, {})
  /\ GoTo(r, "children")
  /\ UNCHANGED <<caller, queue>>

(* One promise of Promise.all rejects: a child whose key cannot be read, or*)
(* a task that is null.  The batch is answered at once, with an error: the *)
(* other children run on, and nothing of theirs is diffed or merged.       *)
BatchThrows(r, ready, started, thrown) ==
  /\ thrown # {} \/ ready # ChildrenOf(r)
  /\ TasksBegin(r, ready, started, thrown)
  /\ AnswerRequest(r)

-----------------------------------------------------------------------------
(* The children.                                                           *)

ChildWrites(c, f) ==
  /\ Alive(c)
  /\ IF Serial(c)
     THEN tree' = [tree EXCEPT ![f] = c] /\ UNCHANGED work
     ELSE work' = [work EXCEPT ![c] = @ \cup {f}] /\ UNCHANGED tree
  /\ UNCHANGED <<turnVars, requestVars, childVars, worktree, conflicts, diffVars>>

(* Mutant: the watchdog closes the row and lets the child go on.           *)
MarkedOnly(c) == UNCHANGED child

AbortedChild(c) == child' = [child EXCEPT ![c] = "aborted"]

(* Silence or two hours: the row is closed, then the child aborted.        *)
Watchdog(c) ==
  /\ child[c] = "running" /\ runs[c] = "running"
  /\ runs' = [runs EXCEPT ![c] = "timeout"]
  /\ AbortedChild(c)
  /\ UNCHANGED <<turnVars, requestVars, fileVars>>

(* The watchdog of a child that never started is never cleared.            *)
LeakedTimeout(c) ==
  /\ child[c] = "unstarted" /\ runs[c] = "running"
  /\ runs' = [runs EXCEPT ![c] = "timeout"]
  /\ UNCHANGED <<turnVars, requestVars, child, fileVars>>

(* Mutant: a late result overwrites the timeout.                           *)
LastStatus(c, exit) == exit

(* A result that comes after the watchdog does not count.                  *)
FinalStatus(c, exit) == IF runs[c] = "running" THEN exit ELSE runs[c]

(* The promise of runCliTurn settles, with a result or an error: the run is*)
(* closed, and a serial request answered.                                  *)
Settles(c, exit) ==
  /\ Running(c)
  /\ runs' = [runs EXCEPT ![c] = FinalStatus(c, exit)]
  /\ IF Serial(c) THEN AnswerRequest(Of[c]) ELSE UNCHANGED requestVars
  /\ UNCHANGED <<turnVars, fileVars>>

ChildEnds(c, exit) ==
  /\ Settles(c, exit)
  /\ child' = [child EXCEPT ![c] = "ended"]

(* A result line with is_error rejects before the process has closed.      *)
ChildFailsEarly(c) ==
  /\ Settles(c, "error")
  /\ child' = [child EXCEPT ![c] = "stray"]

StrayExit(c) ==
  /\ child[c] = "stray"
  /\ child' = [child EXCEPT ![c] = "ended"]
  /\ UNCHANGED <<turnVars, requestVars, runs, fileVars>>

(* Promise.all: every child of the batch has settled.                      *)
BatchJoined(r) ==
  /\ r \in Batches /\ phase[r] = "children"
  /\ \A c \in ChildrenOf(r) : ~Awaited(c)
  /\ GoTo(r, "diffs")
  /\ UNCHANGED <<turnVars, caller, queue, childVars, fileVars>>

-----------------------------------------------------------------------------
(* The merge.                                                              *)

(* Mutant: only children that completed are looked at.                     *)
Successful(r) ==
  {c \in ChildrenOf(r) : worktree[c] = "there" /\ runs[c] = "completed"}

(* Also a child that failed or timed out may have written something.       *)
Diffed(r) == {c \in ChildrenOf(r) : worktree[c] = "there"}

(* diffWorkingTree of one worktree, which git compares with HEAD.  A stray *)
(* child goes on writing behind it.                                        *)
DiffChild(c) ==
  /\ phase[Of[c]] = "diffs"
  /\ c \in Diffed(Of[c]) \ looked
  /\ looked' = looked \cup {c}
  /\ found' = [found EXCEPT ![c] = work[c]]
  /\ UNCHANGED <<turnVars, requestVars, childVars, worktree, work, tree, conflicts>>

(* childDiffSets is a local variable of the batch.                         *)
ForgetDiffs(r) ==
  /\ looked' = looked \ ChildrenOf(r)
  /\ found' = [c \in Children |-> IF Of[c] = r THEN {} ELSE found[c]]

Writers(r, f) == {c \in ChildrenOf(r) : f \in found[c]}

(* Mutant: somebody's version is taken when several touched the path.      *)
TakesOne(r, f) == Writers(r, f) # {}

(* entries.length === 1                                                    *)
Exclusive(r, f) == Cardinality(Writers(r, f)) = 1

(* mergeParallelChildDiffs: an exclusive path is copied over the parent's  *)
(* file, whatever that is; a path of several children becomes a row.       *)
Merge(r) ==
  /\ phase[r] = "diffs" /\ Diffed(r) \subseteq looked
  /\ tree' = [f \in Files |->
       IF Exclusive(r, f) THEN CHOOSE c \in Writers(r, f) : TRUE ELSE tree[f]]
  /\ conflicts' = conflicts \cup
       {[batch |-> r, file |-> f, candidates |-> Writers(r, f), status |-> "conflict"] :
          f \in {g \in Files : Writers(r, g) # {} /\ ~Exclusive(r, g)}}
  /\ ForgetDiffs(r)
  /\ GoTo(r, "cleanup")
  /\ UNCHANGED <<turnVars, caller, queue, childVars, worktree, work>>

(* git fails in one worktree: the batch answers an error, nothing is merged*)
(* and every worktree stays.                                               *)
DiffFailed(r) ==
  /\ phase[r] = "diffs" /\ ~(Diffed(r) \subseteq looked)
  /\ ForgetDiffs(r)
  /\ AnswerRequest(r)
  /\ UNCHANGED <<turnVars, childVars, worktree, work, tree, conflicts>>

(* Mutant: the merge has read the worktree, so it can go.                  *)
Merged(c) == worktree[c] = "there"

(* removeWorktreeIfSafe: the working tree is clean.                        *)
Removable(c) == worktree[c] = "there" /\ work[c] = {}

(* A removal that fails retains the worktree.                              *)
Cleanup(r, failed) ==
  /\ phase[r] = "cleanup"
  /\ failed \subseteq {c \in ChildrenOf(r) : Removable(c)}
  /\ worktree' = [c \in Children |->
       IF Of[c] = r /\ Removable(c) /\ c \notin failed THEN "removed" ELSE worktree[c]]
  /\ AnswerRequest(r)
  /\ UNCHANGED <<turnVars, childVars, work, tree, conflicts, diffVars>>

-----------------------------------------------------------------------------
(* The user.                                                               *)

(* A worktree disappears from the disk.  Only the worktrees of candidates  *)
(* are looked at again.                                                    *)
Prune(c) ==
  /\ worktree[c] = "there" /\ phase[Of[c]] \in {"answered", "lost"}
  /\ \E k \in conflicts : c \in k.candidates
  /\ worktree' = [worktree EXCEPT ![c] = "pruned"]
  /\ UNCHANGED <<turnVars, requestVars, childVars, work, tree, conflicts, diffVars>>

(* worktree_missing: without the directory there is no version to take.    *)
ValidWinner(k, c) == c \in k.candidates /\ worktree[c] = "there"

(* materializeFileIntoParent: a source that does not exist is taken for a  *)
(* deletion.                                                               *)
Materialized(c) == IF worktree[c] = "there" THEN c ELSE Missing

(* resolve-conflict, which takes the lease of the project.                 *)
ResolveConflict(k, c) ==
  /\ ~live
  /\ k \in conflicts /\ k.status = "conflict"
  /\ ValidWinner(k, c)
  /\ tree' = [tree EXCEPT ![k.file] = Materialized(c)]
  /\ conflicts' = (conflicts \ {k}) \cup
       {[k EXCEPT !.status = "pending", !.candidates = {}]}
  /\ UNCHANGED <<turnVars, requestVars, childVars, worktree, work, diffVars>>

(* The end of the process.  No boot step reads subagent_runs; what becomes *)
(* of the child processes is not followed.                                 *)
Restart ==
  /\ live' = FALSE
  /\ phase' = [r \in Requests |->
       IF phase[r] = "queued" \/ phase[r] \in InProgress THEN "lost" ELSE phase[r]]
  /\ queue' = [n \in Turns |-> <<>>]
  /\ child' = [c \in Children |->
       IF Alive(c) \/ child[c] = "unstarted" THEN "ended" ELSE child[c]]
  /\ looked' = {} /\ found' = [c \in Children |-> {}]
  /\ UNCHANGED <<turn, caller, runs, worktree, work, tree, conflicts>>

-----------------------------------------------------------------------------
RunTurn ==
  \/ StartTurn \/ FinishTurn \/ StopTurn
  \/ \E f \in Files : ParentWrites(f)

Begin(r) == RequestRefused(r) \/ BeginSerial(r) \/ SerialThrows(r) \/ BeginBatch(r)

PrepareBatch(r) ==
  /\ phase[r] = "worktrees"
  /\ \E ready \in SUBSET ChildrenOf(r) : \E started \in SUBSET ready :
       \/ WorktreesReady(r, ready, started)
       \/ \E thrown \in SUBSET (ready \ started) : BatchThrows(r, ready, started, thrown)

FinishBatch(r) ==
  \/ BatchJoined(r) \/ Merge(r) \/ DiffFailed(r)
  \/ \E c \in ChildrenOf(r) : DiffChild(c)
  \/ \E failed \in SUBSET ChildrenOf(r) : Cleanup(r, failed)

End(c) == \E exit \in {"completed", "error"} : ChildEnds(c, exit)

Next ==
  \/ RunTurn
  \/ \E r \in Requests : Delegate(r) \/ Begin(r) \/ PrepareBatch(r) \/ FinishBatch(r)
  \/ \E c \in Children :
       \/ Watchdog(c) \/ LeakedTimeout(c) \/ End(c) \/ ChildFailsEarly(c) \/ StrayExit(c) \/ Prune(c)
       \/ \E f \in Files : ChildWrites(c, f)
       \/ \E k \in conflicts : ResolveConflict(k, c)
  \/ Restart

Spec == Init /\ [][Next]_vars

(* The handler goes on when what it awaits is there, git ends, the watchdog*)
(* looks at every running child, and an aborted child is killed with its   *)
(* process tree.                                                           *)
Handle(r) == Begin(r) \/ PrepareBatch(r) \/ FinishBatch(r)

TimedOut(c) == Watchdog(c) \/ (child[c] = "aborted" /\ End(c))

HandlerFairness ==
  /\ \A r \in Requests : WF_vars(Handle(r))
  /\ \A c \in Children : WF_vars(TimedOut(c))

SpecHandler == Spec /\ HandlerFairness

-----------------------------------------------------------------------------
(* Properties.                                                             *)

(* The calls of a turn are handled one at a time, single children and      *)
(* batches alike, over every way in which one of them is answered          *)
(* (queue.then(run, run) in createDelegationServer).                       *)
OneDelegationPerTurn ==
  \A r, s \in Requests :
    phase[r] \in InProgress /\ phase[s] \in InProgress /\ caller[r] = caller[s] => r = s

(* The servers of the turns keep the promise of a serial queue: calls are  *)
(* served in the order in which they came, and answered once, also those of*)
(* a turn that was stopped (createDelegationServer).                       *)
Promise == INSTANCE SerialQueue
  WITH Servers <- Turns, line <- queue,
       open <- IF live THEN {turn} ELSE {},
       serving <- {r \in Requests : phase[r] \in InProgress},
       answered <- {r \in Requests : phase[r] = "answered"},
       lost <- {r \in Requests : phase[r] = "lost"}

ServedInOrder == Promise!Spec

(* What is left of the promise of delegate.ts:575-577: children that calls *)
(* of a turn wait for belong to one call; and of the children of a turn, no*)
(* two run in the working tree of the parent, also beside what a batch that*)
(* threw left behind.                                                      *)
OneCallAwaited ==
  \A c, d \in Children : caller[Of[c]] = caller[Of[d]] =>
    /\ Awaited(c) /\ Awaited(d) => Of[c] = Of[d]
    /\ Serial(c) /\ Serial(d) /\ Running(c) /\ Running(d) => c = d

(* A run is settled once: the result of a child that the watchdog gave up  *)
(* does not turn the timeout into a success (delegate.ts, currentStatus).  *)
RunSettlesOnce ==
  [][\A c \in Children : runs[c] \in RunStatus \ {"running"} => runs'[c] = runs[c]]_vars

(* What a child left for the merge: all of its work, or what was there when*)
(* git looked, as a stray child may write behind that.                     *)
Left(c) == IF c \in looked THEN found[c] ELSE work[c]

(* The merge of a batch loses nothing: what a child left in its worktree,  *)
(* also a failed one, is afterwards in the parent's tree or a candidate.   *)
(* (A batch that threw, or whose diff failed, has no merge: its worktrees  *)
(* stay, and nobody is told of them.)                                      *)
MergeLosesNoWork ==
  [][\A c \in Children :
       phase[Of[c]] = "diffs" /\ phase'[Of[c]] = "cleanup" =>
         \A f \in Left(c) :
           \/ tree'[f] = c
           \/ \E k \in conflicts' : k.batch = Of[c] /\ k.file = f /\ c \in k.candidates]_vars

(* Two children of a batch that touched the same path: neither version is  *)
(* in the parent's tree before the user chose one.                         *)
MergeNeverGuesses ==
  [][\A c \in Children, f \in Files :
       ~Serial(c) /\ tree[f] # c /\ tree'[f] = c
         /\ (\E d \in ChildrenOf(Of[c]) \ {c} : f \in Left(d))
         => \E k \in conflicts \ conflicts' : k.file = f /\ c \in k.candidates]_vars

(* A conflict stays resolvable: the worktrees with its candidates are never*)
(* removed by the cleanup, only by somebody else's hand.                   *)
ConflictsStayResolvable ==
  \A k \in conflicts : \A c \in k.candidates :
    k.file \in work[c] /\ worktree[c] \in {"there", "pruned"}

(* Resolving a conflict puts a candidate's version into the tree, and never*)
(* removes the parent's file because a worktree is gone.                   *)
ResolveKeepsTheFile ==
  [][\A k \in conflicts \ conflicts' : tree'[k.file] \in k.candidates]_vars

(* Every delegation is answered, or lost with the process: a silent child  *)
(* does not keep the queue of its turn waiting for ever.  (Each request is *)
(* made once, so it is enough that again and again none is pending.)       *)
RequestsAreAnswered ==
  []<>(\A r \in Requests : phase[r] \in {"none", "answered", "lost"})

(* delegate.ts:575-577: calls are serialised, "sem paralelismo, sem risco  *)
(* de escrita concorrente na mesma working tree".                          *)
OneWriterPerTree ==
  \A c, d \in Children : Serial(c) /\ Serial(d) /\ Alive(c) /\ Alive(d) => c = d

=============================================================================
