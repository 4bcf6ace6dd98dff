---------------------------- MODULE MessageQueue ----------------------------
(***************************************************************************)
(* The composer's queue: what the user writes while a turn runs, kept by   *)
(* useMessageQueue.ts, persisted in localStorage under the thread's id and *)
(* sent, head first, when the turn settles.  The client learns that a turn *)
(* settled from the thread's socket (useThreadStream.ts) or, when the      *)
(* event was lost in a drop, from the list of threads it reads again on    *)
(* every open (resyncThreadState in usePrincipalWorkspace.ts).             *)
(*                                                                         *)
(* One project, one client.  A thread is "running" (any state of a turn    *)
(* under way) or "idle" (any settled state); the server runs one turn at a *)
(* time in a project.  What the user does is atomic; between the request   *)
(* and the answer of a call anything else may happen.                      *)
(*                                                                         *)
(* A call that returns while another thread is on the screen works on that *)
(* thread's queue and saves it under its own key, and a reload forgets what*)
(* is being sent: astray records the messages that were then within reach. *)
(***************************************************************************)
EXTENDS Integers, Sequences, FiniteSets, SequencesExt

CONSTANTS Threads, Items,
          NoThread,      \* no thread selected
          Begun,         \* the thread with a turn when the page opens; NoThread: none
          AnswersFirst,  \* an answer that tells of a running turn arrives before that turn ends
          MaxReads,      \* bound: lists being read again for a thread
          MaxUpsets      \* bound: drops of the socket, reloads, lists that fail, reviews that
                         \* settle a thread once more, calls that cross to another thread

ASSUME QueueAssumption ==
  /\ NoThread \notin Threads /\ Begun \in Threads \cup {NoThread} /\ AnswersFirst \in BOOLEAN
  /\ MaxReads \in Nat /\ MaxUpsets \in Nat

VARIABLES
  view,     \* selectedThreadId
  queue,    \* the queue in memory: queueRef and what is shown
  stored,   \* localStorage, by queueKey
  local,    \* the state of each thread as the client knows it
  srv,      \* and as it is
  wire,     \* what the socket of the view has yet to deliver; None: no socket
  reads,    \* lists of threads being read again
  posts,    \* messages being sent
  ran,      \* the thread in which each message began a turn
  home,     \* the thread on whose screen it was written
  unheard,  \* threads whose list failed and was not asked for again
  astray,   \* messages that a call of another thread, or a reload, got hold of
  upsets    \* what MaxUpsets bounds, so far

vars == <<view, queue, stored, local, srv, wire, reads, posts, ran, home, unheard, astray, upsets>>

None == <<"closed">>
Keys == Threads \cup {NoThread}
States == {"running", "idle"}
\* before: the local state when the list was asked for; answer: what it says.
Reads == [thread : Threads, before : States, answer : States \cup {"none"}]
\* key: the queue the sender saves to; NoThread for a message that was not queued.
\* left: the page that sent it is gone.
Posts == [item : Items, thread : Keys, key : Keys,
          status : {"sent", "accepted", "refused", "left"}]

TypeOK ==
  /\ view \in Keys
  /\ queue \in Seq(Items) /\ stored \in [Keys -> Seq(Items)]
  /\ local \in [Threads -> States] /\ srv \in [Threads -> States]
  /\ wire = None \/ wire \in Seq(States \cup {"open"})
  /\ reads \subseteq Reads /\ posts \subseteq Posts
  /\ ran \in [Items -> Keys] /\ home \in [Items -> Keys]
  /\ unheard \subseteq Threads /\ astray \subseteq Items
  /\ upsets \in 0..MaxUpsets

\* The turn that is under way: that of a task (dispatchNewThread), or one begun
\* before the page was opened.
Init ==
  /\ view \in Threads /\ queue = <<>> /\ stored = [k \in Keys |-> <<>>]
  /\ srv = [t \in Threads |-> IF t = Begun THEN "running" ELSE "idle"]
  /\ local = srv /\ wire = None
  /\ reads = {} /\ posts = {}
  /\ ran = [i \in Items |-> NoThread] /\ home = ran
  /\ unheard = {} /\ astray = {} /\ upsets = 0

Queued(k, i) == i \in ToSet(stored[k])
Sending(i) == \E p \in posts : p.item = i
FromQueue(p) == p.key # NoThread /\ p.status # "left"
\* In localStorage, on its way from the queue, or run.
Held(i) == \/ \E k \in Keys : Queued(k, i)
           \/ \E p \in posts : p.item = i /\ FromQueue(p)
           \/ ran[i] # NoThread
\* A new message has a new id.
Unwritten(i) == ~Held(i) /\ ~Sending(i) /\ i \notin ToSet(queue) \cup astray
Busy == \E t \in Threads : srv[t] = "running"

\* saveQueue and loadQueue.
Save(key, q) == [stored EXCEPT ![key] = q]

\* Mutant: the queue is read once, when the hook mounts.
LoadOnce(k) == queue

Load(k) == stored[k]

\* Every change of the queue is shown and saved in one go.  Under the key of
\* another thread it puts messages of the one into the place of the other's.
Commit(key, q) ==
  /\ queue' = q /\ stored' = Save(key, q)
  /\ astray' = IF key = view THEN astray
               ELSE astray \cup ToSet(q) \cup ToSet(queue) \cup ToSet(stored[key])

\* The hub keeps nothing for a thread nobody listens to.
Subscribed(t) == view = t /\ wire # None

Emit(t, state) == wire' = IF Subscribed(t) THEN Append(wire, state) ELSE wire

(***************************************************************************)
(* The user.                                                               *)
(***************************************************************************)

\* routeComposerSend: behind a turn or behind others, the message waits.
Enqueue(i) ==
  /\ view # NoThread /\ Unwritten(i)
  /\ local[view] = "running" \/ queue # <<>>
  /\ Commit(view, Append(queue, i))
  /\ home' = [home EXCEPT ![i] = view]
  /\ UNCHANGED <<view, local, srv, wire, reads, posts, ran, unheard, upsets>>

SendNow(i) ==
  /\ view # NoThread /\ Unwritten(i)
  /\ local[view] = "idle" /\ queue = <<>>
  /\ posts' = posts \cup {[item |-> i, thread |-> view, key |-> NoThread, status |-> "sent"]}
  /\ home' = [home EXCEPT ![i] = view]
  /\ UNCHANGED <<view, queue, stored, local, srv, wire, reads, ran, unheard, astray, upsets>>

\* A message is in a queue once, unless it went astray: then this takes a
\* step for each copy.
Dequeue(i) ==
  /\ \E n \in DOMAIN queue : queue[n] = i /\ Commit(view, RemoveAt(queue, n))
  /\ UNCHANGED <<view, local, srv, wire, reads, posts, ran, home, unheard, upsets>>

Promote(i) ==
  /\ \E n \in DOMAIN queue \ {1} : queue[n] = i /\ Commit(view, <<i>> \o RemoveAt(queue, n))
  /\ UNCHANGED <<view, local, srv, wire, reads, posts, ran, home, unheard, upsets>>

\* The effects of a new thread: its queue is read from localStorage, its
\* socket replaces the old one.
Select(k) ==
  /\ k # view
  /\ view' = k /\ queue' = Load(k) /\ wire' = None
  /\ UNCHANGED <<stored, local, srv, reads, posts, ran, home, unheard, astray, upsets>>

Undelivered == {p \in posts : p.status \in {"sent", "left"}}

\* The page starts over: nothing selected, no call remembered, the list
\* read from the server.  The server may still get what was sent.
Reload ==
  /\ upsets < MaxUpsets
  /\ upsets' = upsets + 1
  /\ view' = NoThread /\ queue' = Load(NoThread) /\ wire' = None
  /\ local' = srv /\ reads' = {} /\ unheard' = {}
  /\ posts' = {[p EXCEPT !.status = "left"] : p \in Undelivered}
  /\ astray' = astray \cup {p.item : p \in {q \in posts : FromQueue(q) /\ q.status # "accepted"}}
  /\ UNCHANGED <<stored, srv, ran, home>>

(***************************************************************************)
(* The socket.                                                             *)
(***************************************************************************)

Connect ==
  /\ view # NoThread /\ wire = None
  /\ wire' = <<"open">>
  /\ UNCHANGED <<view, queue, stored, local, srv, reads, posts, ran, home, unheard, astray, upsets>>

Drop ==
  /\ wire # None /\ upsets < MaxUpsets
  /\ upsets' = upsets + 1 /\ wire' = None
  /\ UNCHANGED <<view, queue, stored, local, srv, reads, posts, ran, home, unheard, astray>>

\* Mutant: the head stays in the queue until the answer.
KeepHead(q) == q

\* splitHead and restoreHead.
Rest(q) == Tail(q)

\* Mutant: a refused message is reported and forgotten.
Forget(i, q) == q

RestoreHead(i, q) == <<i>> \o q

\* dispatchQueueHead: the head leaves the queue before it is sent.  What is
\* sent goes to the thread in view (followUpRef), which refuses at once when
\* there is none; what is saved goes under the key of the render that called.
Dispatch(key) ==
  IF queue = <<>>
    THEN UNCHANGED <<queue, stored, posts, astray>>
    ELSE /\ Commit(key, Rest(queue))
         /\ posts' = posts \cup {[item |-> Head(queue), thread |-> view, key |-> key,
                                  status |-> IF view = NoThread THEN "refused" ELSE "sent"]}

\* A call that returns for a thread that is no longer in view is counted.
Crossing(key) ==
  IF key = view THEN UNCHANGED upsets ELSE upsets < MaxUpsets /\ upsets' = upsets + 1

\* onOpen of useThreadStream: the list of threads is read again.
Opened ==
  /\ wire # None /\ wire # <<>> /\ Head(wire) = "open"
  /\ Cardinality({r \in reads : r.thread = view}) < MaxReads
  /\ wire' = Tail(wire)
  /\ reads' = reads \cup {[thread |-> view, before |-> local[view], answer |-> "none"]}
  /\ unheard' = unheard \ {view}
  /\ UNCHANGED <<view, queue, stored, local, srv, posts, ran, home, astray, upsets>>

StateChange(state) ==
  /\ wire # None /\ wire # <<>> /\ Head(wire) = state
  /\ wire' = Tail(wire)
  /\ local' = [local EXCEPT ![view] = state]
  /\ IF state = "idle" THEN Dispatch(view) ELSE UNCHANGED <<queue, stored, posts, astray>>
  /\ UNCHANGED <<view, srv, reads, ran, home, unheard, upsets>>

(***************************************************************************)
(* resyncThreadState.                                                      *)
(***************************************************************************)

ListRead(r) ==
  /\ r.answer = "none"
  /\ reads' = (reads \ {r}) \cup {[r EXCEPT !.answer = srv[r.thread]]}
  /\ UNCHANGED <<view, queue, stored, local, srv, wire, posts, ran, home, unheard, astray, upsets>>

\* The call fails, on the way there or back: nothing is done until the next
\* open.
ListFails(r) ==
  /\ upsets < MaxUpsets /\ upsets' = upsets + 1
  /\ reads' = reads \ {r} /\ unheard' = unheard \cup {r.thread}
  /\ UNCHANGED <<view, queue, stored, local, srv, wire, posts, ran, home, astray>>

\* Mutant: the state is adopted, the end of the turn not reconciled.
NeverReconciles(r) == FALSE

\* decideThreadStateResync: the client missed the end of the turn.
ReconcileSettled(r) == r.before = "running" /\ r.answer = "idle"

\* A list that is older than what the client learnt meanwhile is dropped; one
\* that shows a turn over that the client believed running settles it.
Overtaken(r) == local[r.thread] # r.before

ResyncApplies(r) ==
  /\ r.answer # "none"
  /\ reads' = reads \ {r}
  /\ local' = IF Overtaken(r) THEN local ELSE [local EXCEPT ![r.thread] = r.answer]
  /\ IF ~Overtaken(r) /\ ReconcileSettled(r)
       THEN Dispatch(r.thread) /\ Crossing(r.thread)
       ELSE UNCHANGED <<queue, stored, posts, astray, upsets>>
  /\ UNCHANGED <<view, srv, wire, ran, home, unheard>>

(***************************************************************************)
(* The server.                                                             *)
(***************************************************************************)

\* Nobody waits for the answer when the page is gone.
Status(p, status) ==
  posts' = (posts \ {p}) \cup (IF p.status = "left" THEN {} ELSE {[p EXCEPT !.status = status]})

Accept(p) ==
  /\ p \in Undelivered /\ ~Busy
  /\ Status(p, "accepted")
  /\ srv' = [srv EXCEPT ![p.thread] = "running"]
  /\ ran' = [ran EXCEPT ![p.item] = p.thread]
  /\ Emit(p.thread, "running")
  /\ UNCHANGED <<view, queue, stored, local, reads, home, unheard, astray, upsets>>

\* Busy, over the usage limit, locked or not reached.
Refuse(p) ==
  /\ p \in Undelivered /\ Status(p, "refused")
  /\ UNCHANGED <<view, queue, stored, local, srv, wire, reads, ran, home, unheard, astray, upsets>>

TurnEnds(t) ==
  /\ srv[t] = "running"
  /\ AnswersFirst => /\ ~\E p \in posts : p.thread = t /\ p.status = "accepted"
                     /\ ~\E r \in reads : r.thread = t /\ r.answer = "running"
  /\ srv' = [srv EXCEPT ![t] = "idle"]
  /\ Emit(t, "idle")
  /\ UNCHANGED <<view, queue, stored, local, reads, posts, ran, home, unheard, astray, upsets>>

\* Accepting the last pending change settles the thread again (committed).
Reviewed(t) ==
  /\ ~Busy /\ upsets < MaxUpsets
  /\ upsets' = upsets + 1 /\ Emit(t, "idle")
  /\ UNCHANGED <<view, queue, stored, local, srv, reads, posts, ran, home, unheard, astray>>

\* sendFollowUp returns: true with the thread of the answer, or false, and
\* the item goes back to the front of the queue of that moment.
Answered(p) ==
  /\ p.status \in {"accepted", "refused"}
  /\ posts' = posts \ {p}
  /\ local' = IF p.status = "accepted" THEN [local EXCEPT ![p.thread] = "running"] ELSE local
  /\ IF p.status = "refused" /\ FromQueue(p)
       THEN Commit(p.key, RestoreHead(p.item, queue)) /\ Crossing(p.key)
       ELSE UNCHANGED <<queue, stored, astray, upsets>>
  /\ UNCHANGED <<view, srv, wire, reads, ran, home, unheard>>

User == \/ \E i \in Items : Enqueue(i) \/ SendNow(i) \/ Dequeue(i) \/ Promote(i)
        \/ \E k \in Keys : Select(k)
        \/ Reload
Stream == Connect \/ Opened \/ \E s \in States : StateChange(s)
Calls == \/ \E r \in reads : ListRead(r) \/ ResyncApplies(r)
         \/ \E p \in posts : Accept(p) \/ Refuse(p) \/ Answered(p)
Turns == \E t \in Threads : TurnEnds(t)
Faults == Drop \/ \E r \in reads : ListFails(r)
Next == User \/ Stream \/ Calls \/ Turns \/ Faults \/ \E t \in Threads : Reviewed(t)

(***************************************************************************)
(* The socket is opened again and again (planReconnect has no last         *)
(* attempt), it delivers what it carries, and calls return.                *)
(***************************************************************************)
Spec == Init /\ [][Next]_vars /\ WF_vars(Stream) /\ WF_vars(Calls)

(***************************************************************************)
(* Properties.                                                             *)
(***************************************************************************)

\* What is shown is what a reload would show: a message that is not astray is
\* in the queue of the view when it is saved there (useMessageQueue).
ShownIsStored == \A i \in Items \ astray : i \in ToSet(queue) <=> Queued(view, i)

Once(q, i) == \A m, n \in DOMAIN q : q[m] = i /\ q[n] = i => m = n

\* A message is in one place: waiting once, in the queue of one thread, on
\* its way, or run.  Otherwise it would run twice (dispatchQueueHead).
NeverTwice ==
  \A i \in Items \ astray :
    /\ \A k \in Keys : Queued(k, i) => /\ Once(stored[k], i)
                                       /\ ran[i] = NoThread /\ ~Sending(i)
                                       /\ \A l \in Keys \ {k} : ~Queued(l, i)
    /\ \A p \in posts : p.item = i => (p.status = "accepted" <=> ran[i] # NoThread)

InItsThread(i) == /\ \A k \in Keys : Queued(k, i) => home[i] = k
                  /\ ran[i] # NoThread => ran[i] = home[i]

\* A message waits and runs in the thread in which it was written
\* (queueKey of useMessageQueue, followUpRef).
StaysWithItsThread == \A i \in Items : InItsThread(i)

\* Where a message is for the user who wrote it.
Place(i) == IF i \in astray THEN <<"astray">>
            ELSE IF ran[i] # NoThread THEN <<"ran", ran[i]>>
            ELSE IF Held(i) THEN <<"waits", home[i]>> ELSE <<"away">>

Delivery == INSTANCE MessageDelivery WITH place <- [i \in Items |-> Place(i)]

\* What becomes of a message, whatever is lost, refused or late: it runs at
\* most once, where it was written, and only the user takes one away that
\* waits, unless it goes astray while it waits (useMessageQueue,
\* dispatchQueueHead).
DeliverySpec == Delivery!Spec

\* A message that is waiting goes away only by running, by the user's hand or
\* astray: a refused send puts it back (restoreHead).
NothingIsLost ==
  [][\A i \in Items : Held(i) => Held(i)' \/ Dequeue(i) \/ i \in astray']_vars

\* The client learns of the end of a turn, also when the event was lost in
\* a drop, and then the queue moves (reconcileSettledTurn); a list that fails
\* leaves it to the next open.
TurnEndMovesTheQueue ==
  \A t \in Threads :
    (view = t /\ local[t] = "running" /\ srv[t] = "idle" /\ queue # <<>>)
      ~> (view # t \/ srv[t] = "running" \/ queue = <<>> \/ t \in unheard
            \/ \E p \in posts : p.key = t)

=============================================================================
