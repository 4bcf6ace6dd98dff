# Verification of the Engrena Code runner

Engrena Code is a desktop application that drives coding agents (Claude Code, GLM and other command-line
or HTTP providers) over the projects of its user. Its services run in one Node process: an HTTP and
WebSocket server, a SQLite database, and child processes of the providers. This directory holds TLA+
models of the part where order matters (who may work in a project, how a turn starts, stops and ends,
how a human decision is awaited, how a pipeline of subagents advances, how the work of delegated
children is merged, how the changes of a turn are reviewed, how connections to services are made and
cut, and what the client does with events it may miss), the TLC configurations that check them, and
proofs that TLAPS checks.

Paths below are relative to `src/apps/engrena-code/src/services/`, those that start with `renderer/`
to `src/apps/engrena-code/src/`.

## 1. Inventory of the system

| Component | Source | State it keeps | Operations | Correct when |
|---|---|---|---|---|
| Thread-state reducer | `runner/turn-state.ts` | `threads.state` | `applyTransition(event)` | a late event never revives a settled thread; a stop is never overwritten |
| Project lease | `runner/project-execution.ts` | in-memory map project -> owner thread | `acquireLease`, `releaseLease`, `isProjectRunning` | one long execution per project, no leak, nobody releases a stranger's lease |
| Sessions | `runner/turn-session.ts` | map thread -> session (cancelRequested, settled, deadline timer, servers, abort controller) | start, register server, mark, end | one session per running turn; every session is dropped |
| Dispatch | `runner/dispatch.ts` | rows of threads, messages, tool calls, diffs | new thread, follow-up, `runTurn`, `cancelThread`, stopping deadline | a thread shown as busy has something behind it; a stop settles and frees the project |
| Gates | `runner/gate.ts`, `db/repositories/thread-gates.ts` | rows, continuations with timers in memory, thread allowlist | open, resolve, expire, release on upgrade, boot sweep | decided once; row and answer agree; every hook is answered |
| Permission broker | `runner/permission-broker.ts`, `permission-policy.ts` | one loopback server per turn, held requests | hook -> policy -> allowlists -> gate | no tool runs without consent |
| Question server | `runner/ask-user-question.ts` | one loopback server per turn, held requests | question -> gate | answered or ended with the turn |
| Slash pipelines | `runner/pipeline-runner.ts`, `db/repositories/pipelines.ts` | pipelines, pipeline_stages | stages, diff capture, checkpoint, hard cap | stages in order, `completed` means complete, every pipeline ends |
| Delegated subagents | `runner/delegate.ts`, `subagent-mcp-server.ts` | subagent_runs, FIFO queue of a server, watchdog timers | one child, batch of children in worktrees | a run settles once; one writer per tree; work is never dropped |
| Parallel merge | `runner/parallel-merge.ts` | diffs of kind conflict, files in the parent tree | merge of the children's diffs, resolution by the user | no silent overwrite, each conflict resolvable |
| Diff review | `runner/apply-diff.ts`, `db/repositories/diffs.ts` | diffs.status | accept, reject, commit, conflict resolution | rows follow files: a decision says what the tree shows, and every change of the tree has a row |
| Git | `http/git-handler.ts`, `git/git-client.ts`, `git/worktree.ts` | working trees | commit, discard, branch, worktrees | never under a running turn |
| Boot | `http/unlock-handler.ts`, `db/repositories/threads.ts` (`recoverRunningThreads`) | - | recover threads, expire gates | no state claims what only lived in memory |
| Providers | `runner/providers/*` | child processes | run one turn | the promise settles after the process |
| WebSocket hub | `runner/ws-hub.ts` | sockets | fan-out, nothing kept | clients refetch what they miss |
| Message queue of the composer | `renderer/hooks/useMessageQueue.ts`, `messageQueue.logic.ts` | queue in memory, a copy in localStorage for each thread | enqueue, dequeue, promote, dispatch at the end of a turn, restore after a refusal | a message is sent once, in its thread, and none is lost |
| Stream, history and cards | `renderer/hooks/useThreadStream.ts`, `useThreadGate.ts`, `usePrincipalWorkspace.ts`, `renderer/components/workspace/historyMerge.logic.ts` | socket of the selected thread, single-flight load, timeline, cards | open, drop, reopen, load, snapshot, decide | what is shown is of the selected thread, and nothing is missing once all is read |
| OAuth connections | `mcps/oauth.ts`, `vcs/oauth.ts` | pending flows with callback servers and timers in memory, tokens in the vault, `oauth_status` of an MCP | start, callback, exchange, expiry, disconnect, refresh | the status says what the vault holds; a disconnect lasts; a connection under way ends |
| Usage, the rest of the MCP registry and of VCS, memory, skills, rules, terminal, the rest of the vault, indexes, the other screens, EngrenaPlan | see `PROJECT.json` | | | |

How they interact: an HTTP handler calls dispatch, which takes the lease, starts a session and runs
the turn as a detached promise. The provider's child process calls back over loopback HTTP (hooks,
questions, delegations); the broker and the question server hold those requests until a gate closes.
The user's answers, stops, patches and reviews are further HTTP requests. Everything in memory (lease,
sessions, continuations, timers, thread allowlist) dies with the process; the tables stay. Since there
is one Node process, a block of code between two `await`s is atomic: a step of these models is such a
block, and everything that an `await` lets in is another action.

What is hard in it: state checked before an `await` and used after it (worktree creation, request
bodies, git), late results and timers of turns that are over, several parties closing one gate, a stop
that meets a turn at each of its waiting points, child processes that outlive the promise that stood for
them, restarts with rows that describe memory that is gone, files that several rows speak of, and a
client whose socket drops, whose answers come late and whose user has moved to another thread.
`PROJECT.json` lists these hazards one by one at their lines, with the properties that cover them.

## 2. Modules

    TurnState ------+---> TurnLifecycle ---> TurnLifecycle_proofs, MCTurnLifecycle
    (reducer)       |         implements ProjectExclusive and ThreadContract
                    +---> Gates ---> Gates_proofs, MCGates
                    |         implements ThreadContract
                    +---> Pipeline ---> Pipeline_proofs
                    |         implements ThreadContract, but for the turns in between
                    +---> DiffReview ---> DiffReview_proofs, MCDiffReview
                    +---> ThreadContract
    Delegation ---> Delegation_proofs, MCDelegation
        implements SerialQueue
    MessageQueue ---> MessageQueue_proofs
        implements MessageDelivery
    ThreadView ---> ThreadView_proofs, MCThreadView
    OauthFlows ---> OauthFlows_proofs

**TurnState** is the table of `turn-state.ts` as three operators: `Legal`, `Target` and
`ApplyTransition` (the value left in the row). An illegal event leaves the row alone, as in the code,
which logs and returns. The modules with state extend it, so all of them use the same table.

**TurnLifecycle** is the whole life of turns in the projects: `dispatchNewThread` with its worktree
window, `dispatchFollowUp`, `runTurn` at its waiting points (`pc`: setup, provider, diffs), the
pipeline as one position, `cancelThread` with and without a live session, the 8-second stopping
deadline, the failures of each phase, the `finally` block, and the other users of the lease (accept and
reject of diffs, git commands, thread deletion), project deletion, and a restart with its
reconciliation. `lease` is the map of `project-execution.ts` with the owner thread or none;
`sessions`, `cancelRequested`, `settled` and `deadline` are the fields of `TurnSession`; `procs` and
`stray` are the provider processes, of a turn and of one that already ended. Gate events are
nondeterministic here: any event of a gate can come whenever a process or a pipeline could cause it.

**ProjectExclusive** is what the lease promises, with no lease in it: an execution enters an empty
project and leaves it. TurnLifecycle implements it with `inside[p]` mapped to the set of executions
that are really in the project (turns by `pc`, requests by phase), not to the lease.

**ThreadContract** is what `threads.state` promises to whoever reads it, next to whether a turn is under
way: a turn starts on a settled row and ends in `idle` or `error`, after an accepted stop in `cancelled`; a
busy row has its turn; only the end of the process or of the row does otherwise. Three modules write that
column for different reasons and implement this one contract: TurnLifecycle with the turns read off
`pc`, Gates with its set of running turns, and Pipeline with its runner's position. The last is shown up
to the turns without a command that come between two pipelines (`OtherTurn`), which that module takes in
one step and which TurnLifecycle cuts up.

**SerialQueue** is what delegation servers promise, with no child, worktree or merge in it: the calls of
a server are served one at a time in the order in which they came, each is answered once, a closed
server serves what it has, and only the end of the process loses a call. Delegation implements it with
the servers mapped to the turns.

**MessageDelivery** is what the composer promises for a message: it is away, waits in a thread or ran in
one; it runs at most once and where it was written, and one that waits goes by the user's hand only, or
goes astray, together with others that wait, and then nothing is promised of it. In MessageQueue the place
of a message is read off localStorage, the calls under way and the turns.

**Gates** is the path of one tool call of a provider: connection, body, policy, allowlists, an open gate with
row and continuation, and the ways to close it (click, permission timer or late expiry, level upgrade, stop,
end of turn) or to lose it (deletion, restart). Rows, continuations, and the HTTP answer are separate
variables, because the hazards are in their disagreement. The turn is only on or off. Tools are of four kinds,
after what the policy tells apart: `internal` (the application's own, let through at every level), `edit`
(accepted by name), `local` (a shell command accepted by its content) and `shell`. Clicks are requests in
flight, so they may reach a gate that is closed or name another thread's gate; a PATCH reads the level at its
start and uses it after the body.

**Pipeline** is `runPipelineCommand`: the three commands, their stages with the rows of stage and child run,
the child's watchdog, the diff capture that may open the checkpoint, the race at the checkpoint between
answer, abort and two-hour cap, the settlement through the catch block, and stop, deadline, orphan path and
restart. A child may also never start: with the vault locked since the command began,
`runDelegatedSubagentTurn` throws before its `try` (`runner/delegate.ts:305`), after both rows were written
and the watchdog was armed (`StageThrows`, `LeakedTimeout`, `unstarted`). One thread is enough because turns
of a thread do not overlap, which TurnLifecycle proves (`NoTurnOverTurn`). Turns without a command and diff
reviews happen between pipelines as single steps, since a pipeline only sees what they leave: a state and
pending diffs.

**Delegation** is the server on which the provider of a turn calls subagents, over the successive turns
of one thread. Each turn has a server with its own FIFO `queue`; `caller` and `phase` follow a request
through it, `child` and `runs` are the process of a child and its row, which a watchdog can set apart. A
request without `tasks` runs its child in the parent's tree; a batch gives each task a worktree, joins
them, takes their diffs one by one (`looked`, `found`: a child that failed early may still write behind
its diff), merges and cleans up. A child whose key cannot be read leaves a run and a watchdog without a
process (`SerialThrows`, `unstarted`, `LeakedTimeout`); in a batch it makes `Promise.all` reject, as an item
of `tasks` that is null does: the batch is answered at once, and its other children run on unattended
(`BatchThrows`). `tree` and `work` say who wrote a file last, since the
merge asks nothing else about content. A stop is one step here: it ends the turn and touches neither
the queue nor the children, which is what the code does. A provider that ends by itself has read the
answers to its calls. A commit by a child counts as a child that wrote nothing, as
`diffWorkingTree` compares with `HEAD`. The handlers of conflict resolution run between turns, under
the lease.

**DiffReview** is the table `diffs` and the files it speaks of. A file holds the edit of one turn, or is not
there, in the working tree and in the last commit. A row is about a *name* that git printed, and not every
name is a path (`git/git-client.ts:565-579`): `--numstat` without `-z` quotes the paths in `Quoted` and
prints a file that was renamed as `old => new`. `Listings` is what git may print for a tree: every
difference under one name, a removed and a new file as one or as two, as one for certain when their content
is the same. A row is known by thread, name, turn and whether it came from a conflict. The operation that
holds the lease is one variable: an ordinary turn, which adds a row for every name of the list (also when a
stop comes while it awaits that list, `Finish` with `stopped`); `featdevelop` with its capture, checkpoint
and final capture, which skip names the thread has a row for; `featbuild`; a rejection, which discards name
by name and may fail at any of them. `Discard` of a name that is no path restores nothing and succeeds, as
`git clean` does. Accept, commit, conflict resolution and deletion do not let go of the Node thread in a way
that matters here, since the lease keeps the others out, and are single steps. A repository that has a
commit is assumed.

**MessageQueue** is the composer's queue: `queue` is `queueRef` with what is shown, `stored` is
localStorage, `local` the state of each thread as the client knows it and `srv` as it is, `wire` what
the socket of the selected thread has yet to deliver, `reads` the lists of threads under way
(`resyncThreadState`), which may fail (`ListFails`; `unheard` are the threads whose list failed and was not
asked for since), `posts` the messages being sent. A dispatch sends to the thread in view and saves
under the key of the render that called, as the code's refs and closures do; whether those agree is what
is asked. The user changes threads and calls return at any time. When a call returns for a thread that is
no longer in view, the code works on the queue of the one in view and saves it under the key of the other;
when the page is reloaded during a send, nobody is left to put a refused message back. `astray` is no state
of the code: it remembers the messages that such a call (all of both queues) or such a reload (those being
sent) got hold of. The properties and theorems are about every other message, the refinement says that
only messages that wait go astray, and the run `queue_crosses_threads` shows what becomes of those that
do. `AnswersFirst`, which leaves out answers overtaken by the end of the turn they announce, is used by
liveness only; no theorem needs it.

**ThreadView** is what the client shows of the selected thread. The server is three variables (open
gates, their threads, the writes to each history); the client is the selected thread, its socket, the
load that holds `HistoryRefetchGate` with its coalesced successor, the history shown, the lists of
`GET /gate` under way, the cards, and `late`, the threads whose history will be loaded when a Stop or the
list of threads answers. Each read is asked for, read by the server and answered in three steps, and any
event may come in between. A write to the history may emit no event (the user's own message,
`runner/dispatch.ts:569`); a `GET /history` answers with the newest window of 60, which is united with the
pages in view, so what the model keeps is how new the newest entry is. Three history variables say how far
a property may go: `heard` (how new the history is as far as the client was told), `strayed` (a load of a
thread not selected any more has begun) and `outdated` (the last list of gates was overtaken before it was
applied).

**OauthFlows** is the life of connections. MCP servers and version-control providers share one design
and differ in a few points, so a service is of one of two kinds (`Mcps`, `Vcs`): an MCP has a row with a
status, registers a client while the flow is prepared, and is marked when a refresh fails; a provider's
status is read off the vault and the flows, it needs a `client_id` beforehand, and a failed refresh
deletes its tokens. `phase` follows a flow through the awaits of `startOauth` until it is in
`pendingFlows` (`open`); `exchanges` counts the codes being exchanged, which go on when the flow is
closed; `refresh` is a `getValidAccessToken` under way; `vault` holds the tokens and `locked` makes
`setSecret` and `deleteSecret` throw. `ended` is no state of the code: it remembers the services that
were disconnected with no call under way. Which port is found is not modelled.

The modules meet at the thread state. TurnLifecycle has the pipeline as a position whose end is
`turn_finished` or, after a stop, `cancel_settled`, which are the two ways `Settle` and `Complete` of
Pipeline end; and it has gate events as free choices of which Gates shows the exact causes. Delegation
needs of them only that the turns of a thread do not overlap and that a conflict is not resolved during
one, and DiffReview that operations of a project exclude each other (`LeaseExclusive`). The client
modules see the server as their sources do: a thread runs or is settled, a gate is open or not.

The names of actions are those of the functions or of the handler's effect; `PROJECT.json` maps each
definition to the lines it stands for. Definitions whose comment starts with "Mutant" are deliberate
bugs next to the right definition. They are used by no specification; replacing the right definition by
the mutant must break the property named in `PROJECT.json`.

## 3. Runs

| Run | Instance | Shows |
|---|---|---|
| `turn_lifecycle` | 2 threads of 1 project, 2 requests | the lease, the refinement of ProjectExclusive and of ThreadContract, and that a stop gives the project back |
| `stop_lost` | 2 threads, 1 request | violation: `StopReachesTheTurn` |
| `gates` | 1 thread, an edit, a local command and a question, 1 patch, 1 click in flight | cards, rows and answers |
| `gates_two_threads` | 2 threads with 1 hook each | consent across threads; every hook is answered |
| `pipeline` | 2 pipelines of a thread in a row | stages, outcomes, checkpoint, stop, liveness |
| `delegation` | a batch of two tasks and a single child, 1 file, 2 turns | the refinement of SerialQueue, run rows, merge, conflicts and their resolution, and that every request is answered |
| `two_writers` | 2 single children, 2 turns | violation: `OneWriterPerTree` |
| `diff_review` | 2 threads (symmetric), 2 files of which 1 is quoted, 2 turns, 2 rows | rows, files and the committed state |
| `message_queue` | 2 threads, 2 messages, 1 list at a time for a thread, 1 drop, reload, failed list, review or crossing call | the refinement of MessageDelivery, once, never lost; the queue moves |
| `queue_crosses_threads` | 2 threads, 3 messages, 1 crossing call | violation: `StaysWithItsThread` |
| `thread_view` | 2 threads (symmetric), 1 gate, 2 writes, 2 calls next to the history, 1 late load, 1 fault | chat, history and cards of the selected thread |
| `oauth_flows` | an MCP and a provider, 2 flows, 1 refresh, 2 codes of a flow | status and tokens, disconnects, and that a refused connection may be tried again |

### The properties

*TurnLifecycle.* `LeaseExclusive`: two executions are never in one project, although `releaseLease` does not
look at the holder. `LeaseNotLeaked`: a project where nothing runs is free, on every failure path.
`StopNeverUndone`, `NoTurnOverTurn`: what late events, ends of turn and timers may never do. `ExclusiveSpec`,
`ContractSpec`: the specifications of ProjectExclusive and ThreadContract, under the refinement mappings; the
second says of all ways a turn starts, waits, stops and ends what its row reads. `StopFreesProject`: once
stopped, a thread settles and its project is given back, if the turn's own waits end and the timers fire.

*Gates.* `CardsAreAnswerable`: open rows have continuations, held requests are reachable.
`ReplyMatchesRow`: the database records what the provider was told. `RunningOnlyWithoutCards`: a thread
shown as running waits for nobody. `DecisionIsFinal`: races have one winner. `AllowNeedsConsent`: a tool
is let through by the level or allowlist in force or by a click on that card in its own thread.
`TurnEndAnswersAll`: no request is left hanging by the end of a turn. `HooksAreAnswered`: no permission
request waits for ever, even of a deleted thread.

*Pipeline.* `RunningStageHasChild`, `StageMatchesRun`, `CompletedIsWhole`: what the rows say happened. The
first confines what the code leaves behind: a stage whose child never started stays `running` for good, but
only as the last stage of a pipeline that failed or was cancelled, and with a run that has no result.
`ReviewerNeedsAnswer`: pending diffs are not reviewed by the next agent before the user answered.
`StopIsACancel`: a stop is not reported as a failure. `StoppedPipelineEnds`, `PipelineEnds`:
termination, after a stop without the clock, otherwise with it.

*Delegation.* `ServedInOrder`, the specification of SerialQueue: single children and batches alike are served
in order and answered once, whichever way the calls before are answered and whether or not the turn that asked
still runs. `RunSettlesOnce`: a late result does not undo a timeout. `MergeLosesNoWork`: what any child of a
batch that reaches its merge left, also one that failed, is merged or a candidate of a conflict.
`MergeNeverGuesses`: a contested file gets a child's version only by the user's choice.
`ConflictsStayResolvable`: the cleanup keeps the worktrees that conflicts point to. `RequestsAreAnswered`: no
child blocks the queue for ever.

*DiffReview.* `CommittedMeansReviewed`: a thread that reads committed has no pending row but one of a conflict
resolved later. `RejectedIsRestored`: a row whose name is a path becomes rejected only over a file that is
what `HEAD` says. `SubsetIsAtomic`: the rows of one rejection change together or not at all, whichever discard
fails.

*MessageQueue.* `NeverTwice`, `DeliverySpec` (the specification of MessageDelivery), `NothingIsLost`: a
message is in one place, that of its thread, until it runs, the user removes it or it goes astray.
`StaysWithItsThread`, which makes no exception, is refuted by `queue_crosses_threads`.
`TurnEndMovesTheQueue`: the end of a turn is noticed also when its event was lost in a drop, and then the
head is sent, unless the list that would tell failed and no open has asked again.

*ThreadView.* `ChatOfSelected`: after a foreground load the chat is that of the selected thread, unless a
load of an earlier selection began since; no other order of answers brings another chat in.
`NothingHeardIsMissed`: with no load under way, the chat is as new as the client was told, by an event or
by a drop, whatever was coalesced, aborted or overtaken. `CardsAreTheGates`: when nothing is under way and
no read failed, the cards are the open gates, unless the last list was overtaken by an event.

*OauthFlows.* `ConnectedHasTokens`: an MCP that reads connected has tokens, whatever exchanges, refreshes,
disconnects and locks crossed; the screens and the turn trust the column. `DisconnectHolds`: after a
disconnect with no call under way nothing brings tokens, a listening callback or the status back until the
user connects again. `RefusalEnds`: a second connection is not refused for ever, also after two starts
that passed the check together and with an exchange that never answers.

The type invariants, the inductive invariant `IInv` of TurnLifecycle with `NoGhostTurn` (a busy thread has a
turn behind it), `OnlyWorktreesAreOrphans`, `OneDelegationPerTurn`, `OneCallAwaited`, `StagesInOrder`,
`ShownIsStored`, `CardsOfSelected`, the contract of rows in Gates and Pipeline, `DecisionIsFinal` of DiffReview
and of Delegation `ResolveKeepsTheFile` (a worktree that disappeared does not turn a resolution into a
deletion) are theorems (section 5) and not repeated in a run.

### Bounds and why they suffice

The lease, the session and the state of a thread concern one project, and a hazard between executions needs
two of them; two threads and two requests give every pair of executions in every order, with a third and
fourth that can come in between. Threads are followed through any number of turns and restarts, without a
counter. A call is made once, so three calls of one turn give each pair of gates of different or equal kind
plus a third that stays open; two threads with one call each are enough to mistake one for the other.
`MaxPosts = 1` bounds the clicks in flight: a stale click is one whose gate was closed meanwhile by a timer,
an upgrade or a stop, so one is enough to be late. Two pipelines give a finished or orphaned one behind the
current one; all commands and stages are in the instance. The merge treats each path by itself, so one file is
enough to be untouched, exclusive or contested by the two tasks of a batch; the single child is the other
writer of that file, before, after or, by a stop, in the next turn beside it. `MaxTurns = 2` gives the
children of a stopped turn a next turn to meet. In DiffReview two turns of two threads over two files give a
file every history of edits the properties tell apart (untouched, changed once or twice, removed, moved to the
other, committed between), and a subset that is part of what is pending; with one file quoted there are names
of all three kinds, and `MaxRows = 2` gives a batch with one discard done and one failed. Two messages behind
a turn that runs already are a head and one behind it, which can be promoted, or one sent directly
(`queue_crosses_threads` has a third). The turn that runs when the page opens is of `Begun`, one of two alike
threads; a page that opens on none is the same once that turn has ended. `MaxReads = 1` lets one list for
each thread be under way, and `MaxUpsets = 1` gives each single upset (a drop, a reload or a failed
list is a gap, a review a second end of a turn, a call that crosses to another thread takes two queues along)
with everything that may follow, and the properties say what must hold after it whatever came before. The
proofs are for any number of all of them. In ThreadView two writes are a load that is old, or one that is current for a moment, or a gate next to a write;
two calls are the list of the selection and that of a reopened socket or a late load. The internal kind of
tool is in no instance of Gates, as such a call is answered at once and never has a gate; the proofs cover it.
In OauthFlows services do not touch each other, so one of each kind is enough; two flows are the two starts
that pass the check together, or an old flow whose exchange goes on beside a new one; two codes of a flow are
the page loaded again; one refresh meets every flow and disconnect.

Deadlock is checked except in the configuration of DiffReview: with `MaxTurns` turns done and every
row decided, that system has nothing left to do.

### Fairness

`TimerFairness`: Node timers fire while the process lives. `TurnFairness`: the setup and the diff
collection are bounded calls (each has its own timeout), a killed process tree exits (`SIGKILL` or
`taskkill /F`, `runner/process-kill.ts`), a stopped pipeline ends (shown by Pipeline under its own
fairness). A provider that nobody stopped is never assumed to end. In Pipeline, `RunnerFairness` is that
of synchronous code, bounded git calls and killed children; `ClockFairness`, assumed only by
`PipelineEnds`, is the passing of time: the watchdog of a child and the two hours of a pipeline. In
Delegation, `HandlerFairness` is that of a handler whose awaited promise has settled, of the watchdog,
which looks at every running child (silence, or two hours), and of the death of an aborted one. In
MessageQueue, the socket is opened again after each loss (`planReconnect` has no last attempt) and
delivers what it carries (`Stream`), and calls come back, be it with a refusal (`Calls`); there
`AnswersFirst` holds too. In Gates only the permission
timers are fair, in OauthFlows only the five-minute timer of a flow: nothing is assumed of the browser,
of a provider or of a `fetch`, which has no timeout there; DiffReview and ThreadView assume none; no
fairness is assumed of the user anywhere, and a question has no timer in the code, so nothing is claimed
of it while its turn runs.

## 4. Findings

Each is a run that fails on one property that quotes the source.

1. **A stop can be lost** (`stop_lost`). `dispatchNewThread` awaits `createWorktree` with no session;
   Stop in that window takes the orphan path, settles the row as cancelled and returns; then the turn
   starts. The comment at `runner/dispatch.ts:538` says the session is born before asynchronous setup so
   that a stop has something to abort.
2. **Two children write one tree** (`two_writers`). The queue belongs to the server of one turn. Stop
   closes the server and leaves the child running in the parent's tree; the next turn has a queue of
   its own and starts another child there (`runner/delegate.ts:581`), against the comment at
   `runner/delegate.ts:575-577`.
3. **A queued message changes threads** (`queue_crosses_threads`). A message that is refused after the
   user opened another thread is put in front of the queue then in memory, which is the other thread's,
   and saved under the first thread's key (`renderer/hooks/messageQueue.logic.ts:115`), against the
   comment at `renderer/hooks/useMessageQueue.ts:46-48`.

Also visible in the models, without a run of their own: a result line with `is_error` settles
`runCliTurn` before the process has closed, so the lease is free while the provider may still write
(`stray` of TurnLifecycle); with a question and a permission open, closing the permission leaves the
thread in `waiting_permission`; of two overlapping level changes the later one compares with a level
read before its body; a pipeline that a restart orphaned cannot be stopped, as its thread is
`interrupted`; and a batch merged after another one copies over a file the first has merged, since
conflicts are looked for inside one batch. A rejection restores whole files to `HEAD`
(`runner/apply-diff.ts:89`) while an accepted change stays uncommitted and a later turn adds a second row
for the same file, so rejecting the second row also removes what the first one shows;
`docs/F03-workspace/spec.md:360` of the application says that the other diffs stay as they are. Rejecting a
row whose name is not a path (a rename, a quoted path) restores nothing, succeeds, and marks the row
`rejected`, although the comment at `git/git-client.ts:212` promises the restore. A vault locked during a
turn leaves a stage and a run `running` and a watchdog ticking, and a batch whose `Promise.all` rejects is
answered while its children go on, whose work nobody diffs or merges. In the client, the load after a Stop
or a list is of the thread the call was made for and replaces the chat of one selected meanwhile
(`renderer/hooks/usePrincipalWorkspace.ts:1018-1024`); a request that coalesces with the load of another
thread is lost in that load's successor, which is of the other thread too; a list of gates that was overtaken
by an event takes away its card or brings it back (`renderer/hooks/useThreadGate.ts:80`) until the next open,
event or list; and a message being sent while the page is reloaded is lost when it is refused. Of the
OAuth connections: a code or a refresh already on its way when the user disconnects still stores its
tokens (and the exchange its status), although `docs/PRD.md:1003` wants no token after a cancel; the
status `pending` is written to the row and outlives the flow, although `docs/F09-mcps/spec.md:207` has it
in memory only; two starts that both pass the one-flow check open two flows; a refresh of a provider that
fails late deletes the tokens of a newer connection (`vcs/oauth.ts:269`); and the tokens of a deleted MCP
stay in the vault.

## 5. Proofs

The theorems hold for any sets of projects, threads, requests, calls, files, messages and gates and any
bounds, under the named assumptions of the modules (`LifecycleAssumption`, `GatesAssumption`,
`ReviewAssumption`, `QueueAssumption`, `ViewAssumption`, `OauthAssumption`, ...): threads and requests
are different things, each thread has a home, the markers for "no row" are not states.

*TurnLifecycle_proofs.* `TypeCorrect` is by cases on the actions. Neither `LeaseExclusive` nor `NoGhostTurn`
is inductive: `releaseLease` frees a project whoever holds it, so one needs that only the execution inside
ever calls it. `IInv` adds: sessions live exactly as long as turns past the worktree; what is inside holds the
lease; a turn that creates its worktree holds it *without owner*, which is why the orphan path of a stop,
which compares the owner, cannot release it; a session settled by the deadline belongs to a thread in
`cancelled`, where the orphan path does not come. The proof first reduces every action to its footprint on
projects (`StepFootprint`: something enters a free project, leaves its own, everything is cleared, or nothing
changes) and proves the per-project parts from the footprint alone, then the per-thread parts by cases
(`ThreadsStep`). `Invariant`, `Exclusion`, `BusyHasTurn`, `TurnsDoNotOverlap` and `ImplementsExclusive` (the
same footprints are the steps of ProjectExclusive) follow. A second layer, `RowInv`, says what a row reads
while its turn lasts: busy, stopped or gone, no longer busy once its stop was accepted, and gone only with the
project, because a deletion has to take the lease of the turn. `RowSteps` carries it by cases on the actions
and gives `StopHolds`; together with the footprints it gives `NoLeak`: the one end of an execution that leaves
the lease (a worktree that arrives for a missing row, `Orphaned`) is possible only in a deleted project.
`RowsKeepContract` is the refinement of ThreadContract. It needs two facts more, `ContractInv`: a row that
reads stopping has its stop in the session (`StoppingIsRequested`), so the end of the turn cannot read it
otherwise, and a request names a thread that was created (`RequestsOfThreads`). Each action is then one step
of the contract for its thread and `Quiet` for the others. `OrphanIsAWorktree` says how far the first finding
goes: a stop that finds no session never meets a turn past its worktree, so that window is the only one in
which a stop is lost.

*Gates_proofs.* `TypeCorrect`; then one lemma, `CallSteps`, says what any step may do to a single call
(nothing, connect, be answered, be held, be closed by a party with its consent, lose its row, die with
the process). `Answerable`, `RowsTellTheAnswer`, `FinalDecision` and `Consented` follow from that list.
`StateSteps` is the same list for the state of a thread: a restore that restores is one after which no
card of the thread is open, and no other event leads from waiting to running (`RunsWithoutCards`).
`TurnEndAnswers` needs one more invariant, `GoneWithThread`: the row of a gate goes only with its thread,
so a held call without an open gate has no thread that could still end its turn. `RowsKeepContract`: no
click, timer, level or late hook writes the row of a thread otherwise than as a wait of its own turn.

*Pipeline_proofs.* The invariant has four parts: `RowsInv` (which rows there are, and that a stage row agrees
with the run of its child), `RunnerInv` (what the runner's position implies for the current stage),
`SequenceInv` (stages before the current one are completed, those after it do not exist) and `ThreadInv` (the
thread's state at each position, by the lemma `Reducer` about the table). `Ends` says that every way a
pipeline ends is one of five pairs of statuses, from which `CompletedWhole` and `StopCancels` follow;
`StageStarts` reduces `ReviewerAsked` to the one action that starts a stage. `LeftRunning`, a part of
`RowsInv`, is the stage whose child never started; `RunningStage` follows from it and `RunnerInv`.
`RowKeepsContract` uses `ThreadInv` again: at every position from which a pipeline can end, the row is such
that the table takes `turn_finished`, `turn_failed` or `cancel_settled`, so the row settles with the pipeline
(`EndKeepsContract`) and not before it.

*Delegation_proofs.* `QueueInv`: a request under way stands exactly once in the queue of its turn, and is
its head when it is being handled; the lemmas `GoingOn`, `Answering` and `Arriving` are the three things
that can happen to a queue. `ChildInv`: a child that may write or has written has its worktree while its
batch is being handled, also next to siblings that never started; a child that runs on after its answer is
of a batch that threw; and what a diff found is part of its work. From these, `LeftIsFound` says that
the merge sees everything a child left, which is the heart of `NothingLost` and `NoGuess`; the children of
a batch are assumed to be finitely many, since the code counts them. `Serialised`, `Resolvable`,
`SettledOnce` and `FileKept` follow from the same invariant. `KeepsPromise` is the refinement of SerialQueue:
with `CallerInv` (only turns that began have callers) every request in progress stands in exactly one line
(`LinesAreWaiting`), and an action serves the head (`Serving`), answers it (`Replying`), goes on with it
(`Handling`) or concerns the turn. `AwaitedOfOneCall` says how far the second finding goes: children that
calls of a turn wait for belong to one call, and of the children of a turn no two run in the tree of the
parent, so the second writer of `OneWriterPerTree` is a child of another turn or one whose
run failed before its process closed.

*DiffReview_proofs.* `RowsDistinct` (a row is made once), `TurnInv` (rows of the turn under way have its
number, so a collection never meets a decided row that looks the same) and `RejectInv` (what is being
rejected is pending, and a path that left `left` is as in `HEAD`) strengthen the type invariant.
`RowSteps` lists the four things a step may do to the rows. `Reviewed`, `FinalDecision`, `RejectRestores` and
`RejectIsAtomic` follow.

*MessageQueue_proofs.* No theorem assumes when calls return. The invariant is about one message,
`ItemInv(i)`, and holds of each that is not astray: it waits once, under the key of its thread, and then
nothing has begun for it (`WaitsRight`); it is sent by one call, to the thread in which it was written, whose
queue it left (`SentRight`). The lemmas about sequences (`AppendQueue` to `RemoveFromQueue`) say what each
operation does to the members of a queue; `CommitKeeps` and `Untouched` say that a message none of them
touches stays what it is, `CommitStrays` that what goes astray was waiting. Every step then is one of two
kinds (`Step`): it moves no message (`Stays`), those apart that go astray, or it moves one (`Moves`: written,
removed or run). The same list gives the invariant, `Persisted`, `OwnThread`, `OnePlace` and `NoLoss`, and is
the refinement of MessageDelivery (`Delivers`).

*ThreadView_proofs.* `OwnChat` rests on `StrayInv`: a load of another thread was noted when it began.
`NothingHeardIsMissed` is about states without a load; `HeardInv` says for every state that the news is in
view, or that the load under way will read it, has read it or will be followed by one that does (`UnderWay`),
or that there was an error or another chat. `CardsComplete` is the same for the cards, gate by gate
(`GateInv`): the last event on the wire that concerns a gate tells whether it is open (`WireTells`); without
one the card tells it, unless the gates are yet to be read or the last list was overtaken (`CardTells`); and
a decision that was taken closed its gate for good. `AppendTells` and `TailTells` are what an event that is
sent or arrives changes of this.

*OauthFlows_proofs.* `Connected` is inductive with the type invariant: `Status` and `Closed` say what
writing a status and closing a flow change, and tokens go away only together with the status or for a
provider. `DisconnectHolds` needs what `ended` was put there for: no flow of the service is being
prepared, open or exchanging and no refresh of it is under way (`Rests`). `Away` says that no call under
way belongs to a service at rest, `StaysAtRest` that a step of other services leaves it there; every
action is then one of the two, a disconnect, or the `StartOauth` that takes the service out of `ended`.

Only model-checked: liveness (`StopFreesProject`, `HooksAreAnswered`, `StoppedPipelineEnds`, `PipelineEnds`,
`RequestsAreAnswered`, `TurnEndMovesTheQueue`, `RefusalEnds`), which needs ENABLED. Every other property of a
passing run is a theorem. The refinements are of safety: the abstract specifications claim no progress.

## 6. Not modelled, and why

- Message and tool-call rows, attachments, prompts, usage: nothing above reads them.
- The shell command parser (`shellApproval`, `bash-command-scope.ts`) is abstracted to the kinds
  `local` and `shell`: a string algorithm whose input space TLC cannot enumerate usefully.
- Deletion of a thread while its delegations go on, and what becomes of the children's processes when
  the application dies.
- Failing database writes outside the handled paths (insertion of a gate, of a diff, of a stage).
- What git, the operating system and the providers do inside one call.
- In the client: older pages of a history, two windows on one thread, and the rest of the screens, which
  are projections of rows.
- What a row of a renamed or quoted file shows of its patch; a repository without a commit.
- The registration and configuration of MCP servers (url, environment, presets, conversion to OAuth),
  and the REST clients of the version-control providers.
- Vault cryptography and rekey, voice, code indexes, dashboards, logs, catalogues, EngrenaPlan: no protocol state
  of their own, or another application. See the notes in `PROJECT.json`. Most of the source is of this
  kind (screens, catalogues, reports, their handlers), so the share of lines the models stand for is
  small although they hold nearly all of the concurrency.

## 7. Plan

1. A composition in which Pipeline implements the position "pipeline" of TurnLifecycle by a refinement
   mapping; until then the two meet in ThreadContract, which both implement.
2. Abstract specifications of DiffReview (a row decides its file), ThreadView (what is shown is a past
   state of the server) and OauthFlows (a connection and its tokens).
3. The disconnect of OauthFlows with calls under way, as a property of its own once the code says which
   of the two should win.
4. Vault rekey, terminal registry, the registration of MCP servers.
