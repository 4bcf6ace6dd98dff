-------------------------------- MODULE Gates --------------------------------
(***************************************************************************)
(* Human decisions a turn waits for: services/runner/gate.ts, the broker   *)
(* (permission-broker.ts) and the question server (ask-user-question.ts)   *)
(* that hold an HTTP request of the provider until its gate closes, the    *)
(* gate table (thread-gates.ts), and what threads-handler.ts and           *)
(* dispatch.ts do to gates: answers, access-level changes, stop, end of    *)
(* turn, thread deletion, restart.                                         *)
(*                                                                         *)
(* A call is one PreToolUse hook or one ask_user_question of a provider    *)
(* process.  Its gate, if it opens one, is named by the call.  The turn    *)
(* itself is module TurnLifecycle; here it is only on or off.              *)
(***************************************************************************)
EXTENDS TurnState, Naturals, FiniteSets

CONSTANTS Threads,    \* thread ids, of one project
          Calls,      \* tool calls of provider processes, each made at most once
          Owner,      \* Owner[c]: the thread whose turn makes call c
          Tool,       \* Tool[c]: "ask", or the kind of tool the hook asks about
          Patches,    \* PATCH /api/threads/:id requests
          MaxPosts,   \* bound: answers of the user in flight
          Deleted     \* a thread whose row is gone

(* "internal" stands for INTERNAL_ALWAYS_ALLOWED_TOOLS, "edit" for         *)
(* AUTO_ACCEPTED_TOOLS; "local" is a shell command that shellApproval      *)
(* accepts inside the project, "shell" any other tool.                     *)
PermissionTools == {"internal", "edit", "local", "shell"}

ASSUME GatesAssumption ==
  /\ Owner \in [Calls -> Threads]
  /\ Tool \in [Calls -> PermissionTools \cup {"ask"}]
  /\ Deleted \notin ThreadStates
  /\ MaxPosts \in Nat

VARIABLES
  state,          \* threads.state, or Deleted
  level,          \* threads.access_level
  turns,          \* threads with a turn running
  servers,        \* the loopback servers of turns that accept connections
  http,           \* the request of each call, or the answer it was given
  rows,           \* thread_gates
  continuations,  \* gates with a continuation in memory
  allowlist,      \* allowedToolsByThread (memory)
  projectTools,   \* tool_allowlist of the project (table)
  posts,          \* POST /gate/:gateId/resolve requests in flight
  patch           \* PATCH requests in flight, with the level read at their start

gateVars == <<rows, continuations, http>>
turnVars == <<turns, servers>>
allowVars == <<allowlist, projectTools>>
userVars == <<posts, patch>>
vars == <<state, level, turnVars, gateVars, allowVars, userVars>>

Levels == {"supervised", "auto-accept-edits", "full-access"}
Kind(c) == IF Tool[c] = "ask" THEN "question" ELSE "permission"

(* For a question, "allow" is the answer and "deny" the error result.      *)
Replies == {"allow", "deny"}
HttpStates == {"none", "connected", "waiting", "dead"} \cup Replies
RowStates == {"none", "open", "allowed", "denied", "expired", "gone"}

(* The bodies that pass the validation of handleResolveGate: "permit all"  *)
(* (in this thread or in its project) goes with allow, and a question is   *)
(* answered or not posted at all.                                          *)
Posts ==
  {post \in [thread : Threads, gate : Calls, allow : BOOLEAN,
              scope : {"once", "thread", "project"}] :
     /\ post.scope # "once" => post.allow /\ Kind(post.gate) = "permission"
     /\ Kind(post.gate) = "question" => post.allow}
NoPatch == [thread |-> Deleted, previous |-> "none"]

TypeOK ==
  /\ state \in [Threads -> ThreadStates \cup {Deleted}]
  /\ level \in [Threads -> Levels]
  /\ turns \subseteq Threads
  /\ servers \subseteq Threads \X {"permission", "question"}
  /\ http \in [Calls -> HttpStates]
  /\ rows \in [Calls -> RowStates]
  /\ continuations \subseteq Calls
  /\ allowlist \subseteq Threads \X PermissionTools
  /\ projectTools \subseteq PermissionTools
  /\ posts \subseteq Posts
  /\ patch \in [Patches -> [thread : Threads, previous : Levels] \cup {NoPatch}]

Exists(t) == state[t] # Deleted

OpenGates(t) == {c \in Calls : Owner[c] = t /\ rows[c] = "open"}

Init ==
  /\ state = [t \in Threads |-> "idle"]
  /\ level \in [Threads -> Levels]
  /\ turns = {} /\ servers = {}
  /\ http = [c \in Calls |-> "none"]
  /\ rows = [c \in Calls |-> "none"]
  /\ continuations = {} /\ allowlist = {} /\ projectTools = {} /\ posts = {}
  /\ patch = [q \in Patches |-> NoPatch]

-----------------------------------------------------------------------------
(* Pieces of gate.ts.                                                      *)

Transition(t, event) == state' = [state EXCEPT ![t] = ApplyTransition(@, event)]

(* permissionPolicyDecision, which sees the name of the tool only.         *)
PolicyAllowsTool(l, tool) ==
  \/ tool = "internal"
  \/ l = "full-access"
  \/ l = "auto-accept-edits" /\ tool = "edit"

(* permissionPolicyOutcome with the command and the root of the thread.    *)
PolicyAllowsCall(l, tool) ==
  PolicyAllowsTool(l, tool) \/ (l = "auto-accept-edits" /\ tool = "local")

(* closeGate for each open gate of C: the row is closed by the compare and *)
(* swap of closeThreadGate, the continuation detached and its call         *)
(* answered.                                                               *)
Close(C, row, reply) ==
  /\ rows' = [c \in Calls |-> IF c \in C THEN row ELSE rows[c]]
  /\ continuations' = continuations \ C
  /\ http' = [c \in Calls |-> IF c \in C \cap continuations THEN reply ELSE http[c]]

(* Mutant: the thread goes back to running although a card is left.        *)
RestoreAlways(t, C) == Transition(t, "gates_closed")

(* maybeRestoreRunning once the gates of C are closed.                     *)
RestoreRunning(t, C) ==
  IF OpenGates(t) \subseteq C THEN Transition(t, "gates_closed") ELSE UNCHANGED state

(* Mutant: an expiration that forgets one of the two kinds.                *)
ExpireQuestions(t) == Close({c \in OpenGates(t) : Kind(c) = "question"}, "expired", "deny")

(* Mutant: the abandoned call is let through.                              *)
ExpireAllowing(t) == Close(OpenGates(t), "expired", "allow")

(* expireOpenPermissionGates and expireOpenQuestionGates.                  *)
ExpireAll(t) == Close(OpenGates(t), "expired", "deny")

Serve(t, kinds) == servers' = servers \cup ({t} \X kinds)

CloseServers(t) == servers' = servers \ ({t} \X {"permission", "question"})

-----------------------------------------------------------------------------
(* The turn.                                                               *)

(* A turn starts, possibly with another access level.  A turn in           *)
(* full-access mounts no permission server.                                *)
StartTurn(t, l) ==
  /\ t \notin turns /\ Exists(t)
  /\ Legal(state[t], "follow_up")
  /\ Transition(t, "follow_up")
  /\ level' = [level EXCEPT ![t] = l]
  /\ turns' = turns \cup {t}
  /\ Serve(t, IF l = "full-access" THEN {"question"} ELSE {"permission", "question"})
  /\ UNCHANGED <<gateVars, allowVars, userVars>>

(* tool-start of ask_user_question: markThreadWaitingUser before the call  *)
(* itself arrives; tool-result: restoreRunningIfNoOpenGates.               *)
ToolStart(t) ==
  /\ t \in turns
  /\ Transition(t, "gate_opened_question")
  /\ UNCHANGED <<level, turnVars, gateVars, allowVars, userVars>>

ToolResult(t) ==
  /\ t \in turns
  /\ RestoreRunning(t, {})
  /\ UNCHANGED <<level, turnVars, gateVars, allowVars, userVars>>

(* cancelThread: the gates are denied and the servers closed before the    *)
(* abort.                                                                  *)
StopTurn(t) ==
  /\ t \in turns /\ Exists(t)
  /\ state[t] # "cancelled"
  /\ ExpireAll(t)
  /\ CloseServers(t)
  /\ Transition(t, "cancel_requested")
  /\ UNCHANGED <<level, turns, allowVars, userVars>>

(* The stopping deadline settles the thread while its turn is still there. *)
StoppingDeadline(t) ==
  /\ t \in turns /\ state[t] = "stopping"
  /\ CloseServers(t)
  /\ Transition(t, "cancel_settled")
  /\ UNCHANGED <<level, turns, gateVars, allowVars, userVars>>

(* The outcome and the finally block of runTurn: a failed turn the user    *)
(* stopped settles as cancelled, another one as an error.                  *)
EndTurn(t, event) ==
  /\ t \in turns
  /\ event = "turn_failed" => state[t] \notin {"stopping", "cancelled"}
  /\ event = "cancel_settled" => state[t] \in {"stopping", "cancelled", Deleted}
  /\ Transition(t, event)
  /\ ExpireAll(t)
  /\ CloseServers(t)
  /\ turns' = turns \ {t}
  /\ UNCHANGED <<level, allowVars, userVars>>

-----------------------------------------------------------------------------
(* The calls of the provider.                                              *)

(* A connection is accepted; its body is still to come.  Closing the server*)
(* does not cut it.                                                        *)
Connect(c) ==
  /\ http[c] = "none"
  /\ <<Owner[c], Kind(c)>> \in servers
  /\ http' = [http EXCEPT ![c] = "connected"]
  /\ UNCHANGED <<state, level, turnVars, rows, continuations, allowVars, userVars>>

Disconnect(c) ==
  /\ http[c] = "connected"
  /\ http' = [http EXCEPT ![c] = "dead"]
  /\ UNCHANGED <<state, level, turnVars, rows, continuations, allowVars, userVars>>

(* Without a row of the thread the broker takes the strictest level.       *)
Preapproved(c) ==
  \/ PolicyAllowsCall(IF Exists(Owner[c]) THEN level[Owner[c]] ELSE "supervised", Tool[c])
  \/ <<Owner[c], Tool[c]>> \in allowlist
  \/ Exists(Owner[c]) /\ Tool[c] \in projectTools

(* The body is complete: answered at once when the policy or the allowlist *)
(* approves,                                                               *)
HookApproved(c) ==
  /\ http[c] = "connected" /\ Kind(c) = "permission"
  /\ Preapproved(c)
  /\ http' = [http EXCEPT ![c] = "allow"]
  /\ UNCHANGED <<state, level, turnVars, rows, continuations, allowVars, userVars>>

AsksUser(c) == http[c] = "connected" /\ (Kind(c) = "question" \/ ~Preapproved(c))

(* denied when the row cannot be written (thread gone, disk),              *)
GateNotPersisted(c) ==
  /\ AsksUser(c)
  /\ http' = [http EXCEPT ![c] = "deny"]
  /\ UNCHANGED <<state, level, turnVars, rows, continuations, allowVars, userVars>>

(* or held by an open gate: row, then continuation with its timer, then    *)
(* state.                                                                  *)
OpenGate(c) ==
  /\ AsksUser(c) /\ Exists(Owner[c])
  /\ rows' = [rows EXCEPT ![c] = "open"]
  /\ continuations' = continuations \cup {c}
  /\ http' = [http EXCEPT ![c] = "waiting"]
  /\ Transition(Owner[c],
       IF Kind(c) = "question" THEN "gate_opened_question" ELSE "gate_opened_permission")
  /\ UNCHANGED <<level, turnVars, allowVars, userVars>>

(* Mutant: the timer does nothing when it finds no open row.               *)
TimeoutNeedsRow(c) ==
  /\ c \in continuations /\ Kind(c) = "permission"
  /\ rows[c] = "open"
  /\ Close({c}, "expired", "deny") /\ RestoreRunning(Owner[c], {c})
  /\ UNCHANGED <<level, turnVars, allowVars, userVars>>

(* The timer of a permission gate, or expireDueGates on the snapshot when  *)
(* the timer is late.  A question has no deadline.  When the row went away *)
(* with its thread only the continuation is left to release.               *)
PermissionTimeout(c) ==
  /\ c \in continuations /\ Kind(c) = "permission"
  /\ IF rows[c] = "open"
     THEN Close({c}, "expired", "deny") /\ RestoreRunning(Owner[c], {c})
     ELSE /\ continuations' = continuations \ {c}
          /\ http' = [http EXCEPT ![c] = "deny"]
          /\ UNCHANGED <<state, rows>>
  /\ UNCHANGED <<level, turnVars, allowVars, userVars>>

-----------------------------------------------------------------------------
(* The user.                                                               *)

(* The user answers a card on some thread's screen; the request takes its  *)
(* time.                                                                   *)
Answer(post) ==
  /\ Cardinality(posts) < MaxPosts
  /\ rows[post.gate] = "open"
  /\ posts' = posts \cup {post}
  /\ UNCHANGED <<state, level, turnVars, gateVars, allowVars, patch>>

(* Mutants: the answer is taken for whatever thread the path names, or for *)
(* a gate that is already closed (no compare and swap).                    *)
AcceptsAnyThread(post) == rows[post.gate] = "open"
AcceptsClosed(post) == rows[post.gate] # "gone" /\ Owner[post.gate] = post.thread

(* resolvePermissionGate and resolveQuestionGate.                          *)
Accepts(post) == rows[post.gate] = "open" /\ Owner[post.gate] = post.thread

Reply(post) == IF post.allow THEN "allow" ELSE "deny"

Decision(post) == IF post.allow THEN "allowed" ELSE "denied"

ResolveGate(post) ==
  /\ post \in posts
  /\ Accepts(post)
  /\ Close({post.gate}, Decision(post), Reply(post))
  /\ RestoreRunning(Owner[post.gate], {post.gate})
  /\ allowlist' = allowlist \cup
       (IF post.scope = "once" THEN {} ELSE {<<post.thread, Tool[post.gate]>>})
  /\ projectTools' = projectTools \cup
       (IF post.scope = "project" THEN {Tool[post.gate]} ELSE {})
  /\ posts' = posts \ {post}
  /\ UNCHANGED <<level, turnVars, patch>>

(* 409: the gate is closed, gone, or belongs to another thread.            *)
ResolveRefused(post) ==
  /\ post \in posts
  /\ ~Accepts(post)
  /\ posts' = posts \ {post}
  /\ UNCHANGED <<state, level, turnVars, gateVars, allowVars, patch>>

(* PATCH reads the thread, then awaits the body.                           *)
PatchBegin(q, t) ==
  /\ patch[q] = NoPatch /\ Exists(t)
  /\ patch' = [patch EXCEPT ![q] = [thread |-> t, previous |-> level[t]]]
  /\ UNCHANGED <<state, level, turnVars, gateVars, allowVars, posts>>

(* allowOpenPermissionGates                                                *)
ReleasedBy(t, l) ==
  {c \in OpenGates(t) : Kind(c) = "permission" /\ PolicyAllowsTool(l, Tool[c])}

(* The gates are looked at only when the level differs from the one read   *)
(* before the body.                                                        *)
PatchEnd(q, l) ==
  /\ patch[q] # NoPatch
  /\ LET t == patch[q].thread IN
       IF ~Exists(t) THEN UNCHANGED <<state, level, gateVars>>
       ELSE /\ level' = [level EXCEPT ![t] = l]
            /\ IF l # patch[q].previous
               THEN Close(ReleasedBy(t, l), "allowed", "allow") /\ RestoreRunning(t, ReleasedBy(t, l))
               ELSE UNCHANGED <<state, gateVars>>
  /\ patch' = [patch EXCEPT ![q] = NoPatch]
  /\ UNCHANGED <<turnVars, allowVars, posts>>

(* The rows of the gates go with the row of the thread (ON DELETE CASCADE),*)
(* the continuations stay.                                                 *)
(* The deletion of a thread takes the project first, so no turn is there.  *)
DeleteThread(t) ==
  /\ Exists(t) /\ t \notin turns
  /\ state' = [state EXCEPT ![t] = Deleted]
  /\ rows' = [c \in Calls |-> IF Owner[c] = t /\ rows[c] # "none" THEN "gone" ELSE rows[c]]
  /\ allowlist' = {a \in allowlist : a[1] # t}
  /\ UNCHANGED <<level, turnVars, continuations, http, projectTools, userVars>>

(* The deletion of the project asks nobody.                                *)
DeleteProject ==
  /\ state' = [t \in Threads |-> Deleted]
  /\ \E t \in Threads : Exists(t)
  /\ rows' = [c \in Calls |-> IF rows[c] # "none" THEN "gone" ELSE rows[c]]
  /\ projectTools' = {}
  /\ UNCHANGED <<level, turnVars, continuations, http, allowlist, userVars>>

-----------------------------------------------------------------------------
(* Mutant: the boot sweep is skipped.                                      *)
KeepsOrphans(row) == row

(* expireOrphanGates                                                       *)
OrphanExpired(row) == IF row = "open" THEN "expired" ELSE row

Recovered(s) ==
  IF s \in LiveStates \cup {"stopping"} THEN "interrupted" ELSE s

(* Memory and sockets are lost, the tables stay.                           *)
Restart ==
  /\ state' = [t \in Threads |-> Recovered(state[t])]
  /\ rows' = [c \in Calls |-> OrphanExpired(rows[c])]
  /\ http' = [c \in Calls |-> IF http[c] \in {"connected", "waiting"} THEN "dead" ELSE http[c]]
  /\ turns' = {} /\ servers' = {} /\ continuations' = {} /\ allowlist' = {} /\ posts' = {}
  /\ patch' = [q \in Patches |-> NoPatch]
  /\ UNCHANGED <<level, projectTools>>

-----------------------------------------------------------------------------
Turn(t) ==
  \/ \E l \in Levels : StartTurn(t, l)
  \/ ToolStart(t) \/ ToolResult(t)
  \/ StopTurn(t) \/ StoppingDeadline(t)
  \/ \E event \in {"turn_finished", "turn_failed", "cancel_settled"} : EndTurn(t, event)

Call(c) ==
  \/ Connect(c) \/ Disconnect(c)
  \/ HookApproved(c) \/ GateNotPersisted(c) \/ OpenGate(c)
  \/ PermissionTimeout(c)

User ==
  \/ \E post \in Posts : Answer(post)
  \/ \E post \in posts : ResolveGate(post) \/ ResolveRefused(post)
  \/ \E q \in Patches :
       \/ \E t \in Threads : PatchBegin(q, t)
       \/ \E l \in Levels : PatchEnd(q, l)

Next ==
  \/ \E t \in Threads : Turn(t) \/ DeleteThread(t)
  \/ \E c \in Calls : Call(c)
  \/ User
  \/ DeleteProject
  \/ Restart

Spec == Init /\ [][Next]_vars

(* The timers of permission gates fire.                                    *)
SpecTimers == Spec /\ \A c \in Calls : WF_vars(PermissionTimeout(c))

-----------------------------------------------------------------------------
(* Properties.                                                             *)

(* A card on screen can always be answered: an open row has a continuation *)
(* in this process (no "eternal and unresolvable" card, gate.ts:681-683),  *)
(* and a held call can always be reached: its continuation belongs to an   *)
(* open row, or to a row that went with its thread.                        *)
CardsAreAnswerable ==
  \A c \in Calls :
    /\ rows[c] = "open" => c \in continuations
    /\ c \in continuations => http[c] = "waiting" /\ rows[c] \in {"open", "gone"}
    /\ http[c] = "waiting" => c \in continuations

(* What the provider was told is what the row records: the answer of the   *)
(* winner of a race (click, timeout, upgrade, stop, end of turn).          *)
ReplyMatchesRow ==
  \A c \in Calls :
    /\ rows[c] = "allowed" => http[c] = "allow"
    /\ rows[c] = "denied" => http[c] = "deny"
    /\ rows[c] = "expired" => http[c] \in {"deny", "dead"}

(* The thread goes back from waiting to running only when its last card is *)
(* closed (gate.ts:178-184).                                               *)
RunningOnlyWithoutCards ==
  [][\A t \in Threads :
       state[t] \in {"waiting_permission", "waiting_user"} /\ state'[t] = "running"
         => OpenGates(t)' = {}]_vars

(* A decision is taken once: later clicks, timers, stops and restarts leave*)
(* row and answer alone (gate.ts:243-244).                                 *)
DecisionIsFinal ==
  [][\A c \in Calls :
       /\ http[c] \in Replies => http'[c] = http[c]
       /\ rows[c] \in {"allowed", "denied", "expired"} => rows'[c] \in {rows[c], "gone"}]_vars

(* A tool runs only with consent: the level or the allowlist in force when *)
(* the hook is answered, or a click of the user on this card in its own    *)
(* thread (gate.ts:364-368, never the gate of another one).                *)
AllowNeedsConsent ==
  [][\A c \in Calls :
       Kind(c) = "permission" /\ http[c] # "allow" /\ http'[c] = "allow" =>
         \/ Preapproved(c)
         \/ PolicyAllowsTool(level'[Owner[c]], Tool[c])
         \/ \E post \in posts \ posts' :
              post.gate = c /\ post.thread = Owner[c] /\ post.allow]_vars

(* When a turn ends, no call of it is left hanging on an open card         *)
(* (dispatch.ts:954-963).                                                  *)
TurnEndAnswersAll ==
  [][\A c \in Calls :
       Owner[c] \in turns \ turns' /\ Exists(Owner[c]) => http'[c] # "waiting"]_vars

(* A hook that asked for permission gets an answer, even when nobody       *)
(* clicks and even when its thread was deleted (gate.ts:18-27).            *)
HooksAreAnswered ==
  \A c \in Calls : (Kind(c) = "permission" /\ http[c] = "waiting") ~> http[c] # "waiting"

(* What the rows show, next to which turns are under way.                  *)
Contract == INSTANCE ThreadContract WITH Unborn <- {}, turning <- turns

(* The human decisions leave the row of the thread its contract: no card,  *)
(* answer, timeout, access level or early question mark of a provider wakes*)
(* a thread that is settled or stopping (turn-state.ts:91-93).             *)
ContractSpec == Contract!Spec

=============================================================================
