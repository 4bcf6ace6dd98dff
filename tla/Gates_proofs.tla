---------------------------- MODULE Gates_proofs ----------------------------
(***************************************************************************)
(* Proofs about Gates.  Everything rests on one lemma, CallSteps: what any *)
(* step of the system may do to the gate row, the continuation and the HTTP*)
(* request of one call.  The invariants and the action properties about    *)
(* calls are read off that list; StateSteps is the list for the threads.   *)
(***************************************************************************)
EXTENDS Gates, TLAPS

(* The reducer keeps a row a row and a missing row missing.                *)
LEMMA ApplyTransitionType ==
  ASSUME NEW s \in ThreadStates \cup {Deleted}, NEW e \in TurnEvents
  PROVE  ApplyTransition(s, e) \in ThreadStates \cup {Deleted}
BY DEF ApplyTransition, Legal, Target, TurnEvents, ThreadStates, LiveStates, SettledStates

LEMMA TransitionType ==
  ASSUME TypeOK, NEW t \in Threads, NEW e \in TurnEvents,
         Transition(t, e) \/ UNCHANGED state
  PROVE  state' \in [Threads -> ThreadStates \cup {Deleted}]
BY ApplyTransitionType DEF TypeOK, Transition

LEMMA CloseType ==
  ASSUME TypeOK, NEW C \in SUBSET Calls, NEW row \in RowStates, NEW reply \in HttpStates,
         Close(C, row, reply)
  PROVE  /\ rows' \in [Calls -> RowStates]
         /\ continuations' \subseteq Calls
         /\ http' \in [Calls -> HttpStates]
BY DEF TypeOK, Close

LEMMA TypeStep == TypeOK /\ [Next]_vars => TypeOK'
<1> SUFFICES ASSUME TypeOK, [Next]_vars PROVE TypeOK'
  OBVIOUS
<1> USE GatesAssumption
<1>1. ASSUME NEW t \in Threads, Turn(t) PROVE TypeOK'
  <2>1. ASSUME NEW l \in Levels, StartTurn(t, l) PROVE TypeOK'
    <3>1. state' \in [Threads -> ThreadStates \cup {Deleted}]
      BY <2>1, TransitionType DEF StartTurn, TurnEvents
    <3>2. servers' \subseteq Threads \X {"permission", "question"}
      BY <2>1 DEF StartTurn, Serve, TypeOK
    <3> QED BY <2>1, <3>1, <3>2 DEF StartTurn, TypeOK, gateVars, userVars, allowVars
  <2>2. ASSUME ToolStart(t) \/ ToolResult(t) PROVE TypeOK'
    <3>1. state' \in [Threads -> ThreadStates \cup {Deleted}]
      BY <2>2, TransitionType DEF ToolStart, ToolResult, RestoreRunning, TurnEvents
    <3> QED BY <2>2, <3>1 DEF ToolStart, ToolResult, TypeOK, turnVars, gateVars, userVars, allowVars
  <2>3. ASSUME StopTurn(t) PROVE TypeOK'
    <3>1. state' \in [Threads -> ThreadStates \cup {Deleted}]
      BY <2>3, TransitionType DEF StopTurn, TurnEvents
    <3>2. /\ rows' \in [Calls -> RowStates] /\ continuations' \subseteq Calls
          /\ http' \in [Calls -> HttpStates]
      BY <2>3, CloseType DEF StopTurn, ExpireAll, OpenGates, RowStates, HttpStates, Replies
    <3> QED BY <2>3, <3>1, <3>2 DEF StopTurn, CloseServers, TypeOK, userVars, allowVars
  <2>4. ASSUME StoppingDeadline(t) PROVE TypeOK'
    <3>1. state' \in [Threads -> ThreadStates \cup {Deleted}]
      BY <2>4, TransitionType DEF StoppingDeadline, TurnEvents
    <3> QED BY <2>4, <3>1 DEF StoppingDeadline, CloseServers, TypeOK, gateVars, userVars, allowVars
  <2>5. ASSUME NEW e \in {"turn_finished", "turn_failed", "cancel_settled"}, EndTurn(t, e)
        PROVE TypeOK'
    <3>1. state' \in [Threads -> ThreadStates \cup {Deleted}]
      BY <2>5, TransitionType DEF EndTurn, TurnEvents
    <3>2. /\ rows' \in [Calls -> RowStates] /\ continuations' \subseteq Calls
          /\ http' \in [Calls -> HttpStates]
      BY <2>5, CloseType DEF EndTurn, ExpireAll, OpenGates, RowStates, HttpStates, Replies
    <3> QED BY <2>5, <3>1, <3>2 DEF EndTurn, CloseServers, TypeOK, userVars, allowVars
  <2> QED BY <1>1, <2>1, <2>2, <2>3, <2>4, <2>5 DEF Turn
<1>2. ASSUME NEW t \in Threads, DeleteThread(t) PROVE TypeOK'
  BY <1>2 DEF DeleteThread, TypeOK, RowStates, turnVars, userVars, allowVars
<1>3. ASSUME NEW c \in Calls, Call(c) PROVE TypeOK'
  <2>1. ASSUME Connect(c) \/ Disconnect(c) \/ HookApproved(c) \/ GateNotPersisted(c)
        PROVE TypeOK'
    BY <2>1 DEF Connect, Disconnect, HookApproved, GateNotPersisted, TypeOK, HttpStates, Replies,
       turnVars, userVars, allowVars
  <2>2. ASSUME OpenGate(c) PROVE TypeOK'
    <3>1. state' \in [Threads -> ThreadStates \cup {Deleted}]
      BY <2>2, TransitionType DEF OpenGate, TurnEvents
    <3> QED BY <2>2, <3>1 DEF OpenGate, TypeOK, RowStates, HttpStates, turnVars, userVars, allowVars
  <2>3. ASSUME PermissionTimeout(c) PROVE TypeOK'
    <3>1. state' \in [Threads -> ThreadStates \cup {Deleted}]
      BY <2>3, TransitionType DEF PermissionTimeout, RestoreRunning, TurnEvents
    <3>2. CASE rows[c] = "open"
      <4>1. /\ rows' \in [Calls -> RowStates] /\ continuations' \subseteq Calls
            /\ http' \in [Calls -> HttpStates]
        BY <2>3, <3>2, CloseType DEF PermissionTimeout, RowStates, HttpStates, Replies
      <4> QED BY <2>3, <3>1, <4>1 DEF PermissionTimeout, TypeOK, turnVars, userVars, allowVars
    <3>3. CASE rows[c] # "open"
      BY <2>3, <3>1, <3>3 DEF PermissionTimeout, TypeOK, HttpStates, Replies, turnVars, userVars, allowVars
    <3> QED BY <3>2, <3>3
  <2> QED BY <1>3, <2>1, <2>2, <2>3 DEF Call
<1>4. ASSUME User PROVE TypeOK'
  <2>1. ASSUME NEW post \in Posts, Answer(post) PROVE TypeOK'
    BY <2>1 DEF Answer, TypeOK, turnVars, allowVars, gateVars
  <2>2. ASSUME NEW post \in posts, ResolveGate(post) PROVE TypeOK'
    <3>1. post \in Posts /\ post.gate \in Calls /\ post.thread \in Threads
      BY DEF TypeOK, Posts
    <3>2. state' \in [Threads -> ThreadStates \cup {Deleted}]
      BY <2>2, <3>1, TransitionType DEF ResolveGate, RestoreRunning, TurnEvents
    <3>3. /\ rows' \in [Calls -> RowStates] /\ continuations' \subseteq Calls
          /\ http' \in [Calls -> HttpStates]
      BY <2>2, <3>1, CloseType DEF ResolveGate, Decision, Reply, RowStates, HttpStates, Replies
    <3>4. /\ allowlist' \subseteq Threads \X PermissionTools
          /\ projectTools' \subseteq PermissionTools
      <4>1. post.scope # "once" => Tool[post.gate] \in PermissionTools
        BY <3>1 DEF Posts, Kind
      <4> QED BY <2>2, <3>1, <4>1 DEF ResolveGate, TypeOK
    <3> QED BY <2>2, <3>2, <3>3, <3>4 DEF ResolveGate, TypeOK, turnVars, allowVars
  <2>3. ASSUME NEW post \in posts, ResolveRefused(post) PROVE TypeOK'
    BY <2>3 DEF ResolveRefused, TypeOK, turnVars, allowVars, gateVars
  <2>4. ASSUME NEW q \in Patches, NEW t \in Threads, PatchBegin(q, t) PROVE TypeOK'
    BY <2>4 DEF PatchBegin, TypeOK, turnVars, allowVars, gateVars
  <2>5. ASSUME NEW q \in Patches, NEW l \in Levels, PatchEnd(q, l) PROVE TypeOK'
    <3>1. patch[q].thread \in Threads
      BY <2>5 DEF PatchEnd, TypeOK, NoPatch
    <3>2. state' \in [Threads -> ThreadStates \cup {Deleted}]
      BY <2>5, <3>1, TransitionType DEF PatchEnd, RestoreRunning, TurnEvents
    <3>3. /\ rows' \in [Calls -> RowStates] /\ continuations' \subseteq Calls
          /\ http' \in [Calls -> HttpStates]
      <4>1. CASE UNCHANGED gateVars
        BY <4>1 DEF gateVars, TypeOK
      <4>2. CASE Close(ReleasedBy(patch[q].thread, l), "allowed", "allow")
        BY <4>2, CloseType DEF ReleasedBy, OpenGates, RowStates, HttpStates, Replies
      <4> QED BY <2>5, <4>1, <4>2 DEF PatchEnd
    <3>4. level' \in [Threads -> Levels]
      BY <2>5, <3>1 DEF PatchEnd, TypeOK
    <3> QED BY <2>5, <3>2, <3>3, <3>4 DEF PatchEnd, TypeOK, turnVars, allowVars
  <2> QED BY <1>4, <2>1, <2>2, <2>3, <2>4, <2>5 DEF User
<1>5. CASE Restart
  BY <1>5 DEF Restart, Recovered, OrphanExpired, TypeOK, ThreadStates, SettledStates, RowStates,
     HttpStates
<1>6. CASE DeleteProject
  BY <1>6 DEF DeleteProject, TypeOK, RowStates, turnVars, userVars
<1>7. CASE UNCHANGED vars
  BY <1>7 DEF vars, turnVars, gateVars, userVars, allowVars, TypeOK
<1> QED BY <1>1, <1>2, <1>3, <1>4, <1>5, <1>6, <1>7 DEF Next

(* Every variable keeps its kind of value.                                 *)
THEOREM TypeCorrect == Spec => []TypeOK
<1>1. Init => TypeOK
  BY GatesAssumption DEF Init, TypeOK, ThreadStates, SettledStates, HttpStates, RowStates
<1> QED BY <1>1, TypeStep, PTL DEF Spec

-----------------------------------------------------------------------------
(* What a step may do to a call.                                           *)

Consent(c) ==
  \/ Preapproved(c)
  \/ PolicyAllowsTool(level'[Owner[c]], Tool[c])
  \/ \E post \in posts \ posts' : post.gate = c /\ post.thread = Owner[c] /\ post.allow

SameGate(c) == rows'[c] = rows[c] /\ (c \in continuations' <=> c \in continuations)

Untouched(c) == SameGate(c) /\ http'[c] = http[c]

AnsweredAtOnce(c) ==
  /\ http[c] = "connected"
  /\ \/ http'[c] \in {"deny", "dead"}
     \/ http'[c] = "allow" /\ Consent(c)

Opened(c) ==
  /\ http[c] = "connected" /\ http'[c] = "waiting"
  /\ rows'[c] = "open" /\ c \in continuations'

Closed(c, row, reply) ==
  /\ rows[c] = "open" /\ rows'[c] = row
  /\ c \notin continuations' /\ http'[c] = reply

Cascaded(c) ==
  /\ rows[c] # "none" /\ rows'[c] = "gone" /\ state'[Owner[c]] = Deleted
  /\ http'[c] = http[c] /\ (c \in continuations' <=> c \in continuations)

Released(c) ==
  /\ c \in continuations /\ rows[c] # "open"
  /\ rows'[c] = rows[c] /\ c \notin continuations' /\ http'[c] = "deny"

Rebooted(c) ==
  /\ c \notin continuations'
  /\ rows'[c] = IF rows[c] = "open" THEN "expired" ELSE rows[c]
  /\ http'[c] = IF http[c] \in {"connected", "waiting"} THEN "dead" ELSE http[c]

CallStep(c) ==
  \/ Untouched(c)
  \/ SameGate(c) /\ http[c] = "none" /\ http'[c] = "connected"
  \/ SameGate(c) /\ AnsweredAtOnce(c)
  \/ Opened(c)
  \/ Closed(c, "allowed", "allow") /\ (Kind(c) = "permission" => Consent(c))
  \/ Closed(c, "denied", "deny")
  \/ Closed(c, "expired", "deny")
  \/ Cascaded(c)
  \/ Released(c)
  \/ Rebooted(c)

GatesInv == TypeOK /\ CardsAreAnswerable /\ ReplyMatchesRow

(* closeGate answers the calls whose gates it closes and no other one.     *)
LEMMA CloseCalls ==
  ASSUME GatesInv, NEW C \in SUBSET Calls, NEW row, NEW reply, Close(C, row, reply),
         \A c \in C : rows[c] = "open", NEW c \in Calls
  PROVE  IF c \in C THEN Closed(c, row, reply) ELSE Untouched(c)
BY DEF GatesInv, TypeOK, CardsAreAnswerable, Close, Closed, Untouched, SameGate

LEMMA CallSteps == GatesInv /\ [Next]_vars => \A c \in Calls : CallStep(c)
<1> SUFFICES ASSUME GatesInv, [Next]_vars, NEW c \in Calls PROVE CallStep(c)
  OBVIOUS
<1> USE GatesAssumption
<1>a. TypeOK
  BY DEF GatesInv
<1>b. UNCHANGED gateVars => CallStep(c)
  BY DEF gateVars, CallStep, Untouched, SameGate
<1>1. ASSUME NEW t \in Threads, Turn(t) PROVE CallStep(c)
  <2>1. CASE UNCHANGED gateVars
    BY <2>1, <1>b
  <2>2. CASE ExpireAll(t)
    BY <2>2, CloseCalls DEF ExpireAll, OpenGates, CallStep
  <2> QED BY <1>1, <2>1, <2>2 DEF Turn, StartTurn, ToolStart, ToolResult, StopTurn,
          StoppingDeadline, EndTurn
<1>2. ASSUME NEW t \in Threads, DeleteThread(t) PROVE CallStep(c)
  BY <1>2, <1>a DEF DeleteThread, TypeOK, CallStep, Cascaded, Untouched, SameGate
<1>3. ASSUME NEW d \in Calls, Call(d) PROVE CallStep(c)
  <2>1. ASSUME Connect(d) \/ Disconnect(d) \/ GateNotPersisted(d) PROVE CallStep(c)
    BY <2>1, <1>a DEF Connect, Disconnect, GateNotPersisted, AsksUser, TypeOK, CallStep,
       AnsweredAtOnce, Untouched, SameGate
  <2>2. ASSUME HookApproved(d) PROVE CallStep(c)
    BY <2>2, <1>a DEF HookApproved, TypeOK, CallStep, AnsweredAtOnce, Consent, Untouched, SameGate
  <2>3. ASSUME OpenGate(d) PROVE CallStep(c)
    BY <2>3, <1>a DEF OpenGate, AsksUser, TypeOK, CallStep, Opened, Untouched, SameGate
  <2>4. ASSUME PermissionTimeout(d) PROVE CallStep(c)
    <3>1. CASE rows[d] = "open"
      BY <2>4, <3>1, CloseCalls DEF PermissionTimeout, CallStep
    <3>2. CASE rows[d] # "open"
      BY <2>4, <3>2, <1>a DEF PermissionTimeout, TypeOK, CallStep, Released, Untouched, SameGate
    <3> QED BY <3>1, <3>2
  <2> QED BY <1>3, <2>1, <2>2, <2>3, <2>4 DEF Call
<1>4. ASSUME User PROVE CallStep(c)
  <2>1. ASSUME NEW post \in posts, ResolveGate(post) PROVE CallStep(c)
    <3>1. post \in Posts /\ post.gate \in Calls
      BY <1>a DEF TypeOK, Posts
    <3>2. rows[post.gate] = "open" /\ Owner[post.gate] = post.thread
      BY <2>1 DEF ResolveGate, Accepts
    <3>3. IF c = post.gate THEN Closed(c, Decision(post), Reply(post)) ELSE Untouched(c)
      <4>1. Close({post.gate}, Decision(post), Reply(post))
        BY <2>1 DEF ResolveGate
      <4>2. {post.gate} \in SUBSET Calls /\ \A d \in {post.gate} : rows[d] = "open"
        BY <3>1, <3>2
      <4> QED BY <4>1, <4>2, CloseCalls
    <3>4. CASE post.allow
      <4>1. Decision(post) = "allowed" /\ Reply(post) = "allow"
        BY <3>4 DEF Decision, Reply
      <4>2. c = post.gate => Consent(c)
        BY <2>1, <3>2, <3>4 DEF ResolveGate, Consent
      <4> QED BY <3>3, <4>1, <4>2 DEF CallStep
    <3>5. CASE ~post.allow
      BY <3>3, <3>5 DEF Decision, Reply, CallStep
    <3> QED BY <3>4, <3>5
  <2>2. ASSUME NEW q \in Patches, NEW l \in Levels, PatchEnd(q, l) PROVE CallStep(c)
    <3> DEFINE t == patch[q].thread
    <3>1. t \in Threads
      BY <2>2, <1>a DEF PatchEnd, TypeOK, NoPatch
    <3>2. CASE UNCHANGED gateVars
      BY <3>2, <1>b
    <3>3. CASE Close(ReleasedBy(t, l), "allowed", "allow") /\ level' = [level EXCEPT ![t] = l]
      <4>1. c \in ReleasedBy(t, l) => Consent(c)
        BY <3>1, <3>3, <1>a DEF ReleasedBy, OpenGates, Consent, TypeOK
      <4>2. ReleasedBy(t, l) \in SUBSET Calls /\ \A d \in ReleasedBy(t, l) : rows[d] = "open"
        BY DEF ReleasedBy, OpenGates
      <4>3. IF c \in ReleasedBy(t, l) THEN Closed(c, "allowed", "allow") ELSE Untouched(c)
        BY <3>3, <4>2, CloseCalls
      <4> QED BY <4>1, <4>3 DEF CallStep
    <3> QED BY <2>2, <3>2, <3>3 DEF PatchEnd
  <2>3. ASSUME UNCHANGED gateVars PROVE CallStep(c)
    BY <2>3, <1>b
  <2> QED BY <1>4, <2>1, <2>2, <2>3 DEF User, Answer, ResolveRefused, PatchBegin
<1>5. CASE Restart
  BY <1>5 DEF Restart, OrphanExpired, CallStep, Rebooted
<1>6. CASE DeleteProject
  BY <1>6 DEF DeleteProject, CallStep, Cascaded, Untouched, SameGate
<1>7. CASE UNCHANGED vars
  BY <1>7, <1>b DEF vars
<1> QED BY <1>1, <1>2, <1>3, <1>4, <1>5, <1>6, <1>7 DEF Next

-----------------------------------------------------------------------------
(* Invariants.                                                             *)

LEMMA GatesInvStep == GatesInv /\ [Next]_vars => GatesInv'
<1> SUFFICES ASSUME GatesInv, [Next]_vars PROVE GatesInv'
  OBVIOUS
<1>1. TypeOK'
  BY TypeStep DEF GatesInv
<1>2. \A c \in Calls : CallStep(c)
  BY CallSteps
<1>3. CardsAreAnswerable'
  BY <1>2 DEF GatesInv, CardsAreAnswerable, ReplyMatchesRow, CallStep, Untouched, SameGate,
     AnsweredAtOnce, Opened, Closed, Cascaded, Released, Rebooted
<1>4. ReplyMatchesRow'
  BY <1>2 DEF GatesInv, CardsAreAnswerable, ReplyMatchesRow, CallStep, Untouched, SameGate,
     AnsweredAtOnce, Opened, Closed, Cascaded, Released, Rebooted
<1> QED BY <1>1, <1>3, <1>4 DEF GatesInv

LEMMA InitGatesInv == Init => GatesInv
<1>1. Init => TypeOK
  BY GatesAssumption DEF Init, TypeOK, ThreadStates, SettledStates, HttpStates, RowStates
<1>2. Init => CardsAreAnswerable /\ ReplyMatchesRow
  BY DEF Init, CardsAreAnswerable, ReplyMatchesRow
<1> QED BY <1>1, <1>2 DEF GatesInv

(* A card on screen always has a continuation behind it, and a held call   *)
(* always has a card or lost it with its thread (gate.ts:681-683).         *)
THEOREM Answerable == Spec => []CardsAreAnswerable
<1>1. GatesInv => CardsAreAnswerable
  BY DEF GatesInv
<1> QED BY <1>1, InitGatesInv, GatesInvStep, PTL DEF Spec

(* The answer given to the provider is the one the row records.            *)
THEOREM RowsTellTheAnswer == Spec => []ReplyMatchesRow
<1>1. GatesInv => ReplyMatchesRow
  BY DEF GatesInv
<1> QED BY <1>1, InitGatesInv, GatesInvStep, PTL DEF Spec

(* A decision is taken once, whoever else answers, expires or restarts     *)
(* (gate.ts:243-244).                                                      *)
THEOREM FinalDecision == Spec => DecisionIsFinal
<1>1. GatesInv /\ [Next]_vars =>
        [\A c \in Calls :
           /\ http[c] \in Replies => http'[c] = http[c]
           /\ rows[c] \in {"allowed", "denied", "expired"} => rows'[c] \in {rows[c], "gone"}]_vars
  BY CallSteps DEF GatesInv, CardsAreAnswerable, ReplyMatchesRow, Replies, CallStep, Untouched,
     SameGate, AnsweredAtOnce, Opened, Closed, Cascaded, Released, Rebooted
<1> QED BY <1>1, InitGatesInv, GatesInvStep, PTL DEF Spec, DecisionIsFinal

(* A tool is let through only by the level, the allowlist or a click of the*)
(* user on the card of that call in its own thread (gate.ts:364-368).      *)
THEOREM Consented == Spec => AllowNeedsConsent
<1>1. GatesInv /\ [Next]_vars =>
        [\A c \in Calls :
           Kind(c) = "permission" /\ http[c] # "allow" /\ http'[c] = "allow" =>
             \/ Preapproved(c)
             \/ PolicyAllowsTool(level'[Owner[c]], Tool[c])
             \/ \E post \in posts \ posts' :
                  post.gate = c /\ post.thread = Owner[c] /\ post.allow]_vars
  BY CallSteps DEF CallStep, Untouched, SameGate, AnsweredAtOnce, Opened, Closed, Cascaded,
     Released, Rebooted, Consent
<1> QED BY <1>1, InitGatesInv, GatesInvStep, PTL DEF Spec, AllowNeedsConsent

-----------------------------------------------------------------------------
(***************************************************************************)
(* What a step may do to the state of a thread.                            *)
(***************************************************************************)

LastCardClosed(t) ==
  OpenGates(t)' = {} /\ state'[t] = ApplyTransition(state[t], "gates_closed")

StateStep(t) ==
  \/ state'[t] \in {state[t], Deleted}
  \/ state'[t] = Recovered(state[t])
  \/ \E e \in TurnEvents \ {"gates_closed"} : state'[t] = ApplyTransition(state[t], e)
  \/ LastCardClosed(t)

LEMMA TransitionStep ==
  ASSUME TypeOK, NEW u \in Threads, NEW e \in TurnEvents \ {"gates_closed"}, Transition(u, e),
         NEW t \in Threads
  PROVE  StateStep(t)
BY DEF TypeOK, Transition, StateStep

(* A restore that does restore leaves no card: what it closed is all there *)
(* was.                                                                    *)
LEMMA RestoreStep ==
  ASSUME TypeOK, NEW u \in Threads, NEW C, RestoreRunning(u, C), NEW t \in Threads,
         \A c \in Calls : rows'[c] = "open" => rows[c] = "open" /\ c \notin C
  PROVE  StateStep(t)
<1>1. CASE OpenGates(u) \subseteq C
  <2>1. OpenGates(u)' = {}
    BY <1>1 DEF OpenGates
  <2> QED BY <1>1, <2>1 DEF RestoreRunning, Transition, TypeOK, StateStep, LastCardClosed
<1>2. CASE ~(OpenGates(u) \subseteq C)
  BY <1>2 DEF RestoreRunning, StateStep
<1> QED BY <1>1, <1>2

LEMMA CloseOpens ==
  ASSUME TypeOK, NEW C, NEW row, row # "open", NEW reply, Close(C, row, reply)
  PROVE  \A c \in Calls : rows'[c] = "open" => rows[c] = "open" /\ c \notin C
BY DEF Close

LEMMA StateSteps == TypeOK /\ [Next]_vars => \A t \in Threads : StateStep(t)
<1> SUFFICES ASSUME TypeOK, [Next]_vars, NEW t \in Threads PROVE StateStep(t)
  OBVIOUS
<1>a. UNCHANGED state => StateStep(t)
  BY DEF StateStep
<1>1. ASSUME NEW u \in Threads, Turn(u) PROVE StateStep(t)
  <2>1. ASSUME NEW e \in TurnEvents \ {"gates_closed"}, Transition(u, e) PROVE StateStep(t)
    BY <2>1, TransitionStep
  <2>2. ASSUME ToolResult(u) PROVE StateStep(t)
    <3>1. \A c \in Calls : rows'[c] = "open" => rows[c] = "open" /\ c \notin {}
      BY <2>2 DEF ToolResult, gateVars
    <3> QED BY <2>2, <3>1, RestoreStep DEF ToolResult
  <2> QED BY <1>1, <2>1, <2>2 DEF Turn, StartTurn, ToolStart, StopTurn, StoppingDeadline,
          EndTurn, TurnEvents
<1>2. ASSUME NEW u \in Threads, DeleteThread(u) PROVE StateStep(t)
  BY <1>2 DEF DeleteThread, TypeOK, StateStep
<1>3. ASSUME NEW c \in Calls, Call(c) PROVE StateStep(t)
  <2>1. ASSUME UNCHANGED state PROVE StateStep(t)
    BY <2>1, <1>a
  <2>2. ASSUME OpenGate(c) PROVE StateStep(t)
    BY <2>2, GatesAssumption, TransitionStep DEF OpenGate, TurnEvents
  <2>3. ASSUME PermissionTimeout(c), rows[c] = "open" PROVE StateStep(t)
    <3>1. Close({c}, "expired", "deny") /\ RestoreRunning(Owner[c], {c})
      BY <2>3 DEF PermissionTimeout
    <3> QED BY <3>1, GatesAssumption, CloseOpens, RestoreStep
  <2> QED BY <1>3, <2>1, <2>2, <2>3 DEF Call, Connect, Disconnect, HookApproved,
          GateNotPersisted, PermissionTimeout
<1>4. ASSUME User PROVE StateStep(t)
  <2>1. ASSUME UNCHANGED state PROVE StateStep(t)
    BY <2>1, <1>a
  <2>2. ASSUME NEW post \in posts, ResolveGate(post) PROVE StateStep(t)
    <3>1. post.gate \in Calls /\ Owner[post.gate] \in Threads
      BY GatesAssumption DEF TypeOK, Posts
    <3>2. Close({post.gate}, Decision(post), Reply(post))
          /\ RestoreRunning(Owner[post.gate], {post.gate})
      BY <2>2 DEF ResolveGate
    <3>3. Decision(post) # "open"
      BY DEF Decision
    <3> QED BY <3>1, <3>2, <3>3, CloseOpens, RestoreStep
  <2>3. ASSUME NEW q \in Patches, NEW l \in Levels, PatchEnd(q, l) PROVE StateStep(t)
    <3> DEFINE u == patch[q].thread
    <3>1. u \in Threads
      BY <2>3 DEF PatchEnd, TypeOK, NoPatch
    <3>2. CASE Close(ReleasedBy(u, l), "allowed", "allow") /\ RestoreRunning(u, ReleasedBy(u, l))
      BY <3>1, <3>2, CloseOpens, RestoreStep
    <3> QED BY <2>3, <3>2, <1>a DEF PatchEnd
  <2> QED BY <1>4, <2>1, <2>2, <2>3 DEF User, Answer, ResolveRefused, PatchBegin
<1>5. CASE Restart
  BY <1>5 DEF Restart, StateStep
<1>6. CASE DeleteProject
  BY <1>6 DEF DeleteProject, StateStep
<1>7. CASE UNCHANGED vars
  BY <1>7, <1>a DEF vars
<1> QED BY <1>1, <1>2, <1>3, <1>4, <1>5, <1>6, <1>7 DEF Next

(* The thread is not running while a card of it is open: whoever closes a  *)
(* card restores the state only after the last one (gate.ts:178-184).      *)
THEOREM RunsWithoutCards == Spec => RunningOnlyWithoutCards
<1>1. ASSUME TypeOK, [Next]_vars, NEW t \in Threads,
             state[t] \in {"waiting_permission", "waiting_user"}, state'[t] = "running"
      PROVE  OpenGates(t)' = {}
  <2>1. StateStep(t)
    BY <1>1, StateSteps
  <2>2. state'[t] # Deleted
    BY <1>1, GatesAssumption DEF ThreadStates, LiveStates
  <2>3. state'[t] # Recovered(state[t])
    BY <1>1 DEF Recovered, LiveStates
  <2>4. \A e \in TurnEvents \ {"gates_closed"} : state'[t] # ApplyTransition(state[t], e)
    BY <1>1 DEF TurnEvents, ApplyTransition, Legal, Target, SettledStates, LiveStates
  <2> QED BY <1>1, <2>1, <2>2, <2>3, <2>4 DEF StateStep, LastCardClosed
<1>2. TypeOK /\ [Next]_vars =>
        [\A t \in Threads :
           state[t] \in {"waiting_permission", "waiting_user"} /\ state'[t] = "running"
             => OpenGates(t)' = {}]_vars
  BY <1>1
<1> QED BY <1>2, TypeCorrect, PTL DEF Spec, RunningOnlyWithoutCards

-----------------------------------------------------------------------------
(* The row of a gate goes away only with its thread, for good.             *)
GoneWithThread == \A c \in Calls : rows[c] = "gone" => ~Exists(Owner[c])

LEMMA GoneStep == GatesInv /\ GoneWithThread /\ [Next]_vars => GoneWithThread'
<1> SUFFICES ASSUME GatesInv, GoneWithThread, [Next]_vars, NEW c \in Calls, rows'[c] = "gone"
             PROVE  state'[Owner[c]] = Deleted
  BY DEF GoneWithThread, Exists
<1>1. Owner[c] \in Threads
  BY GatesAssumption
<1>2. CallStep(c)
  BY CallSteps
<1>3. CASE Cascaded(c)
  BY <1>3 DEF Cascaded
<1>4. CASE rows[c] = "gone"
  <2>1. state[Owner[c]] = Deleted
    BY <1>4 DEF GoneWithThread, Exists
  <2>2. StateStep(Owner[c])
    BY <1>1, StateSteps DEF GatesInv
  <2>3. Recovered(Deleted) = Deleted /\ \A e \in TurnEvents : ApplyTransition(Deleted, e) = Deleted
    BY GatesAssumption DEF Recovered, ApplyTransition, Legal, ThreadStates, LiveStates, SettledStates
  <2>4. "gates_closed" \in TurnEvents
    BY DEF TurnEvents
  <2> QED BY <2>1, <2>2, <2>3, <2>4 DEF StateStep, LastCardClosed
<1>5. rows[c] = "gone" \/ Cascaded(c)
  BY <1>2 DEF CallStep, Untouched, SameGate, AnsweredAtOnce, Opened, Closed, Released, Rebooted
<1> QED BY <1>3, <1>4, <1>5

(* The end of a turn, and the end of the process, leave no call of a thread*)
(* that exists hanging: the open gates are expired, and a call held without*)
(* an open gate lost its thread.                                           *)
THEOREM TurnEndAnswers == Spec => TurnEndAnswersAll
<1> DEFINE Inv == GatesInv /\ GoneWithThread
<1>1. Init => Inv
  BY InitGatesInv DEF Init, GoneWithThread
<1>2. Inv /\ [Next]_vars => Inv'
  BY GatesInvStep, GoneStep
<1>3. ASSUME Inv, [Next]_vars, NEW c \in Calls, Owner[c] \in turns \ turns', Exists(Owner[c])
      PROVE  http'[c] # "waiting"
  <2> USE DEF GatesInv
  <2>1. CASE Restart
    BY <1>3, <2>1 DEF Restart, TypeOK
  <2>2. ASSUME NEW t \in Threads, NEW e \in {"turn_finished", "turn_failed", "cancel_settled"},
               EndTurn(t, e)
        PROVE  http'[c] # "waiting"
    <3>1. Owner[c] = t /\ ExpireAll(t)
      BY <1>3, <2>2 DEF EndTurn
    <3>2. CASE rows[c] = "open"
      <4>1. c \in OpenGates(t) /\ c \in continuations
        BY <1>3, <3>1, <3>2 DEF OpenGates, CardsAreAnswerable
      <4> QED BY <3>1, <4>1 DEF ExpireAll, Close
    <3>3. CASE rows[c] # "open"
      <4>1. rows[c] # "gone"
        BY <1>3 DEF GoneWithThread
      <4>2. http[c] # "waiting" /\ c \notin continuations
        BY <3>3, <4>1, <1>3 DEF CardsAreAnswerable
      <4> QED BY <3>1, <4>2 DEF ExpireAll, Close
    <3> QED BY <3>2, <3>3
  <2>3. ASSUME turns \subseteq turns' PROVE http'[c] # "waiting"
    BY <1>3, <2>3
  <2>4. ASSUME NEW t \in Threads, Turn(t) PROVE http'[c] # "waiting"
    <3>1. CASE turns \subseteq turns'
      BY <3>1, <2>3
    <3> QED BY <2>4, <2>2, <3>1 DEF Turn, StartTurn, ToolStart, ToolResult, StopTurn,
            StoppingDeadline, turnVars
  <2>5. ASSUME NEW d \in Calls, Call(d) PROVE turns \subseteq turns'
    BY <2>5 DEF Call, Connect, Disconnect, HookApproved, GateNotPersisted, OpenGate,
       PermissionTimeout, turnVars
  <2>6. ASSUME User PROVE turns \subseteq turns'
    BY <2>6 DEF User, Answer, ResolveGate, ResolveRefused, PatchBegin, PatchEnd, turnVars
  <2>7. ASSUME (\E t \in Threads : DeleteThread(t)) \/ DeleteProject PROVE turns \subseteq turns'
    BY <2>7 DEF DeleteThread, DeleteProject, turnVars
  <2>8. CASE UNCHANGED vars
    BY <2>8, <2>3 DEF vars, turnVars
  <2> QED BY <1>3, <2>1, <2>3, <2>4, <2>5, <2>6, <2>7, <2>8 DEF Next
<1>4. Inv /\ [Next]_vars =>
        [\A c \in Calls :
           Owner[c] \in turns \ turns' /\ Exists(Owner[c]) => http'[c] # "waiting"]_vars
  BY <1>3
<1> QED BY <1>1, <1>2, <1>4, PTL DEF Spec, TurnEndAnswersAll

-----------------------------------------------------------------------------
(***************************************************************************)
(* The rows implement ThreadContract.                                      *)
(***************************************************************************)

(* What the contract itself keeps: the row of a turn is busy, stopped or   *)
(* gone, and a row without a turn is not busy.                             *)
RowInv(t) ==
  /\ t \in turns => state[t] \in Contract!BusyStates \cup {"cancelled", Deleted}
  /\ t \notin turns => state[t] \notin Contract!BusyStates

LEMMA ContractKeepsRow ==
  ASSUME NEW u, RowInv(u), Contract!Step(u)
  PROVE  RowInv(u)'
BY GatesAssumption
DEF RowInv, Contract!Step, Contract!Start, Contract!Wait, Contract!Stop, Contract!End,
    Contract!Review, Contract!Delete, Contract!Restart, Contract!Quiet, Contract!Starts,
    Contract!GoesOn, Contract!Ends, Contract!Rests, Contract!BusyStates, Contract!LiveStates,
    Contract!SettledStates, Contract!InitialTurnState, ThreadStates, LiveStates

LEMMA SameVocabulary ==
  /\ Contract!LiveStates = LiveStates /\ Contract!SettledStates = SettledStates
  /\ Contract!ThreadStates = ThreadStates
  /\ Contract!BusyStates = LiveStates \cup {"stopping"}
BY DEF Contract!LiveStates, Contract!SettledStates, Contract!ThreadStates, Contract!BusyStates,
   LiveStates, SettledStates, ThreadStates

LEMMA IsQuiet ==
  ASSUME NEW u, state'[u] = state[u], u \in turns' <=> u \in turns
  PROVE  Contract!Step(u)
BY DEF Contract!Step, Contract!Quiet

(* An event about gates does something to a live row only, and leaves it   *)
(* live.                                                                   *)
LEMMA IsWait ==
  ASSUME NEW u \in Threads, RowInv(u), u \in turns' <=> u \in turns,
         NEW e \in {"gate_opened_permission", "gate_opened_question", "gates_closed"},
         state'[u] \in {state[u], ApplyTransition(state[u], e)}
  PROVE  Contract!Step(u)
<1>1. CASE state'[u] = state[u]
  BY <1>1, IsQuiet
<1>2. CASE state'[u] # state[u]
  <2>1. state[u] \in LiveStates /\ state'[u] \in LiveStates
    BY <1>2 DEF ApplyTransition, Legal, Target, LiveStates
  <2>2. u \in turns
    BY <2>1, SameVocabulary DEF RowInv
  <2> QED BY <2>1, <2>2, SameVocabulary DEF Contract!Step, Contract!Wait, Contract!GoesOn
<1> QED BY <1>1, <1>2

LEMMA RestoreWaits ==
  ASSUME TypeOK, NEW u \in Threads, RowInv(u), turns' = turns, NEW t \in Threads, NEW C,
         RestoreRunning(t, C)
  PROVE  Contract!Step(u)
<1>1. state'[u] \in {state[u], ApplyTransition(state[u], "gates_closed")}
  BY DEF RestoreRunning, Transition, TypeOK
<1> QED BY <1>1, IsWait

LEMMA OpenWaits ==
  ASSUME TypeOK, NEW u \in Threads, RowInv(u), turns' = turns, NEW t \in Threads,
         NEW e \in {"gate_opened_permission", "gate_opened_question"}, Transition(t, e)
  PROVE  Contract!Step(u)
<1>1. state'[u] \in {state[u], ApplyTransition(state[u], e)}
  BY DEF Transition, TypeOK
<1> QED BY <1>1, IsWait

(* The steps of the turn itself, for the thread they are about.            *)
LEMMA OwnTurn ==
  ASSUME TypeOK, NEW t \in Threads, RowInv(t),
         \/ \E l \in Levels : StartTurn(t, l)
         \/ StopTurn(t) \/ StoppingDeadline(t)
         \/ \E e \in {"turn_finished", "turn_failed", "cancel_settled"} : EndTurn(t, e)
  PROVE  Contract!Step(t)
<1> USE SameVocabulary, GatesAssumption
<1>1. ASSUME NEW l \in Levels, StartTurn(t, l) PROVE Contract!Step(t)
  <2>1. /\ t \notin turns /\ t \in turns'
        /\ state[t] \in SettledStates /\ state'[t] = "running"
    BY <1>1 DEF StartTurn, Transition, ApplyTransition, Legal, Target, TypeOK
  <2> QED BY <2>1 DEF Contract!Step, Contract!Start, Contract!Starts, Contract!InitialTurnState
<1>2. CASE StopTurn(t)
  <2>1. t \in turns /\ t \in turns' /\ state[t] \in LiveStates \cup {"stopping"}
    BY <1>2 DEF StopTurn, RowInv, Exists
  <2>2. state'[t] = "stopping"
    BY <1>2, <2>1 DEF StopTurn, Transition, ApplyTransition, Legal, Target, TypeOK
  <2> QED BY <2>1, <2>2 DEF Contract!Step, Contract!Stop, Contract!GoesOn
<1>3. CASE StoppingDeadline(t)
  <2>1. /\ t \in turns /\ t \in turns' /\ state[t] = "stopping"
        /\ state'[t] = ApplyTransition("stopping", "cancel_settled")
    BY <1>3 DEF StoppingDeadline, Transition, TypeOK
  <2>2. state'[t] = "cancelled"
    BY <2>1 DEF ApplyTransition, Legal, Target
  <2> QED BY <2>1, <2>2 DEF Contract!Step, Contract!Stop, Contract!GoesOn
<1>4. ASSUME NEW e \in {"turn_finished", "turn_failed", "cancel_settled"}, EndTurn(t, e)
      PROVE  Contract!Step(t)
  <2>1. t \in turns /\ t \notin turns' /\ state'[t] = ApplyTransition(state[t], e)
    BY <1>4 DEF EndTurn, Transition, TypeOK
  <2>2. CASE state[t] \in LiveStates
    <3>1. state'[t] \in {"idle", "error"}
      BY <1>4, <2>1, <2>2 DEF EndTurn, ApplyTransition, Legal, Target, LiveStates, ThreadStates
    <3> QED BY <2>1, <2>2, <3>1 DEF Contract!Step, Contract!End, Contract!Ends
  <2>3. CASE state[t] = "stopping"
    <3>1. state'[t] = "cancelled"
      BY <1>4, <2>1, <2>3 DEF EndTurn, ApplyTransition, Legal, Target, LiveStates
    <3> QED BY <2>1, <2>3, <3>1 DEF Contract!Step, Contract!End, Contract!Ends
  <2>4. CASE state[t] \in {"cancelled", Deleted}
    <3>1. state'[t] = state[t] /\ state[t] \notin LiveStates \cup {"stopping"}
      BY <2>1, <2>4 DEF ApplyTransition, Legal, Target, LiveStates, ThreadStates, SettledStates
    <3> QED BY <2>1, <3>1 DEF Contract!Step, Contract!End, Contract!Ends
  <2> QED BY <2>1, <2>2, <2>3, <2>4 DEF RowInv
<1> QED BY <1>1, <1>2, <1>3, <1>4

LEMMA ContractStep ==
  ASSUME TypeOK, [Next]_vars, NEW u \in Threads, RowInv(u)
  PROVE  Contract!Step(u)
<1> USE GatesAssumption
<1>1. ASSUME NEW t \in Threads, Turn(t) PROVE Contract!Step(u)
  <2>1. CASE ToolStart(t)
    BY <2>1, OpenWaits DEF ToolStart, turnVars
  <2>2. CASE ToolResult(t)
    BY <2>2, RestoreWaits DEF ToolResult, turnVars
  <2>3. ASSUME \/ \E l \in Levels : StartTurn(t, l)
               \/ StopTurn(t) \/ StoppingDeadline(t)
               \/ \E e \in {"turn_finished", "turn_failed", "cancel_settled"} : EndTurn(t, e)
        PROVE  Contract!Step(u)
    <3>1. CASE u = t
      BY <2>3, <3>1, OwnTurn
    <3>2. CASE u # t
      <4>1. \E e \in TurnEvents : Transition(t, e)
        BY <2>3 DEF StartTurn, StopTurn, StoppingDeadline, EndTurn, TurnEvents
      <4>2. state'[u] = state[u]
        BY <3>2, <4>1 DEF Transition, TypeOK
      <4>3. u \in turns' <=> u \in turns
        BY <2>3, <3>2 DEF StartTurn, StopTurn, StoppingDeadline, EndTurn
      <4> QED BY <4>2, <4>3, IsQuiet
    <3> QED BY <3>1, <3>2
  <2> QED BY <1>1, <2>1, <2>2, <2>3 DEF Turn
<1>2. ASSUME (\E t \in Threads : DeleteThread(t)) \/ DeleteProject PROVE Contract!Step(u)
  <2>1. turns' = turns /\ state'[u] \in {state[u], Deleted}
    BY <1>2 DEF DeleteThread, DeleteProject, turnVars, TypeOK
  <2>2. CASE state'[u] = state[u]
    BY <2>1, <2>2, IsQuiet
  <2>3. CASE state'[u] # state[u]
    <3>1. state[u] \in ThreadStates /\ state'[u] = Deleted
      BY <2>1, <2>3 DEF TypeOK
    <3> QED BY <2>1, <3>1, SameVocabulary DEF Contract!Step, Contract!Delete
  <2> QED BY <2>2, <2>3
<1>3. ASSUME NEW c \in Calls, Call(c) PROVE Contract!Step(u)
  <2>1. turns' = turns
    BY <1>3 DEF Call, Connect, Disconnect, HookApproved, GateNotPersisted, OpenGate,
       PermissionTimeout, turnVars
  <2>2. CASE OpenGate(c)
    BY <2>1, <2>2, OpenWaits DEF OpenGate
  <2>3. CASE PermissionTimeout(c) /\ rows[c] = "open"
    BY <2>1, <2>3, RestoreWaits DEF PermissionTimeout
  <2>4. CASE UNCHANGED state
    BY <2>1, <2>4, IsQuiet
  <2> QED BY <1>3, <2>2, <2>3, <2>4 DEF Call, Connect, Disconnect, HookApproved,
          GateNotPersisted, PermissionTimeout
<1>4. ASSUME User PROVE Contract!Step(u)
  <2>1. turns' = turns
    BY <1>4 DEF User, Answer, ResolveGate, ResolveRefused, PatchBegin, PatchEnd, turnVars
  <2>2. ASSUME UNCHANGED state PROVE Contract!Step(u)
    BY <2>1, <2>2, IsQuiet
  <2>3. ASSUME NEW post \in posts, ResolveGate(post) PROVE Contract!Step(u)
    <3>1. Owner[post.gate] \in Threads
      BY DEF TypeOK, Posts
    <3> QED BY <2>1, <2>3, <3>1, RestoreWaits DEF ResolveGate
  <2>4. ASSUME NEW q \in Patches, NEW l \in Levels, PatchEnd(q, l) PROVE Contract!Step(u)
    <3>1. patch[q].thread \in Threads
      BY <2>4 DEF PatchEnd, TypeOK, NoPatch
    <3> QED BY <2>1, <2>2, <2>4, <3>1, RestoreWaits DEF PatchEnd
  <2> QED BY <1>4, <2>2, <2>3, <2>4 DEF User, Answer, ResolveRefused, PatchBegin
<1>5. CASE Restart
  <2>1. u \notin turns' /\ state'[u] = Recovered(state[u])
    BY <1>5 DEF Restart
  <2> QED BY <2>1, SameVocabulary DEF Contract!Step, Contract!Restart, Recovered
<1>6. CASE UNCHANGED vars
  BY <1>6, IsQuiet DEF vars, turnVars
<1> QED BY <1>1, <1>2, <1>3, <1>4, <1>5, <1>6 DEF Next

(* Cards, answers, timeouts, access levels, late calls and restarts keep   *)
(* the contract of the rows, for any threads and calls.                    *)
THEOREM RowsKeepContract == Spec => ContractSpec
<1> DEFINE Inv == TypeOK /\ \A t \in Threads : RowInv(t)
<1>1. Init => Inv /\ Contract!Init
  <2>1. Init => TypeOK
    BY InitGatesInv DEF GatesInv
  <2>2. Init => \A t \in Threads : RowInv(t)
    BY SameVocabulary DEF Init, RowInv, LiveStates
  <2> QED BY <2>1, <2>2 DEF Init, Contract!Init
<1>2. Inv /\ [Next]_vars => \A t \in Threads : Contract!Step(t)
  BY ContractStep
<1>3. Inv /\ [Next]_vars => Inv'
  BY <1>2, TypeStep, ContractKeepsRow
<1>4. Inv /\ [Next]_vars => [Contract!Next]_(Contract!vars)
  BY <1>2 DEF Contract!Next
<1> QED BY <1>1, <1>3, <1>4, PTL DEF Spec, ContractSpec, Contract!Spec

=============================================================================
