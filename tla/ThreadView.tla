----------------------------- MODULE ThreadView -----------------------------
(***************************************************************************)
(* What the client shows of the selected thread: its history, read by GET  *)
(* /history behind a single-flight gate (HistoryRefetchGate), and the cards*)
(* of its open gates, read by GET /gate and kept by the events gate.opened *)
(* and gate.resolved (useThreadGate.ts).  The hub keeps nothing for a      *)
(* socket that is down, so every open of the socket (useThreadStream.ts)   *)
(* reads both again (resyncThread).                                        *)
(*                                                                         *)
(* Every read is asked for, read by the server and answered in three steps,*)
(* and anything may happen in between.  A history is the number of writes  *)
(* to it: a GET answers with its newest window, which is united with the   *)
(* older pages in view, so what is told apart is how new the newest entry  *)
(* in view is, not whether every older page was fetched.  A load that was  *)
(* aborted has no effect any more and is forgotten.                        *)
(***************************************************************************)
EXTENDS Integers, Sequences, FiniteSets, FiniteSetsExt

CONSTANTS Threads, Gates,
          NoThread,      \* no thread selected
          MaxLength,     \* bound: writes to a history
          MaxWrites,     \* bound: writes to all of them, and gates opened
          MaxCalls,      \* bound: calls under way, next to GET /history
          MaxLate,       \* bound: and those a load of the history follows
          MaxFaults      \* bound: drops of the socket, and reads that fail

ASSUME ViewAssumption ==
  /\ NoThread \notin Threads \cup Gates
  /\ MaxLength \in Nat /\ MaxWrites \in Nat /\ MaxCalls \in Nat /\ MaxLate \in Nat /\ MaxFaults \in Nat

VARIABLES
  \* the server
  open,      \* gates that are open
  of,        \* the thread of each gate; NoThread: not yet opened
  length,    \* writes to the history of each thread
  \* the client
  sel,       \* the selected thread
  wire,      \* what its socket has yet to deliver; Down: no socket
  again,     \* the socket was lost since it last opened (attempt > 0)
  fetch,     \* the GET /history that holds the gate, or Idle
  coalesce,  \* and whether one more has to follow
  shown,     \* the history in the timeline
  late,      \* threads whose history is loaded when a POST or a list answers
  snaps,     \* GET /gate under way
  cards,     \* gates with a card
  resolving, \* the decision being posted, or Undecided
  failed,    \* what was not read for an error
  faults,
  \* history variables
  heard,     \* how far the history is, as far as the client was told
  strayed,   \* a load of a thread not selected any more was begun
  outdated   \* the last list of gates applied was no longer so when it came

server == <<open, of, length>>
history == <<fetch, coalesce, shown, late, heard, strayed>>
gates == <<snaps, cards, outdated>>
vars == <<server, sel, wire, again, history, gates, resolving, failed, faults>>

Down == <<<<"closed">>>>
Undecided == [status |-> "none"]
Keys == Threads \cup {NoThread}
Lengths == 0..MaxLength
Unanswered == -1
Unread == {NoThread}
\* Events of a stream: a tool call or another change of the history, the end
\* of a turn, both with how far the history is; a gate that opens or closes.
Events == {<<"open">>}
            \cup ({"history", "settled"} \X Lengths)
            \cup ({"gate.opened", "gate.resolved"} \X Gates)
Fetches == [thread : Threads, background : BOOLEAN, answer : Lengths \cup {Unanswered}]
Snaps == [thread : Threads, answer : (SUBSET Gates) \cup {Unread}]

Idle == [thread |-> NoThread, background |-> TRUE, answer |-> Unanswered]
Blank == [thread |-> NoThread, length |-> 0]

TypeOK ==
  /\ open \subseteq Gates /\ of \in [Gates -> Keys] /\ length \in [Threads -> Lengths]
  /\ sel \in Keys /\ again \in BOOLEAN
  /\ wire = Down \/ wire \in Seq(Events)
  /\ fetch = Idle \/ fetch \in Fetches
  /\ coalesce \in BOOLEAN
  /\ shown \in [thread : Keys, length : Lengths] /\ late \subseteq Threads
  /\ snaps \subseteq Snaps /\ cards \subseteq Gates
  /\ resolving = Undecided \/ resolving \in [gate : Gates, status : {"sent", "done", "refused"}]
  /\ failed \subseteq {"history", "gates"} /\ faults \in 0..MaxFaults
  /\ heard \in Lengths /\ strayed \in BOOLEAN /\ outdated \in BOOLEAN

Init ==
  /\ open = {} /\ of = [g \in Gates |-> NoThread] /\ length = [t \in Threads |-> 0]
  /\ sel = NoThread /\ wire = Down /\ again = FALSE
  /\ fetch = Idle /\ coalesce = FALSE /\ shown = Blank /\ late = {}
  /\ snaps = {} /\ cards = {} /\ resolving = Undecided
  /\ failed = {} /\ faults = 0
  /\ heard = 0 /\ strayed = FALSE /\ outdated = FALSE

(***************************************************************************)
(* The server.                                                             *)
(***************************************************************************)

Subscribed(t) == sel = t /\ wire # Down

Emit(t, event) == wire' = IF Subscribed(t) THEN Append(wire, event) ELSE wire

Writable ==
  MapThenSumSet(LAMBDA t : length[t], Threads)
    + Cardinality({g \in Gates : of[g] # NoThread}) < MaxWrites

GateOpens(t, g) ==
  /\ of[g] = NoThread /\ Writable
  /\ of' = [of EXCEPT ![g] = t] /\ open' = open \cup {g}
  /\ Emit(t, <<"gate.opened", g>>)
  /\ UNCHANGED <<length, sel, again, history, gates, resolving, failed, faults>>

\* A timeout, or the level of the thread.
GateCloses(g) ==
  /\ g \in open
  /\ open' = open \ {g} /\ Emit(of[g], <<"gate.resolved", g>>)
  /\ UNCHANGED <<of, length, sel, again, history, gates, resolving, failed, faults>>

\* A tool call emits an event that reloads; the user's own message does not,
\* nor do other writes of a turn.
HistoryGrows(t) ==
  /\ length[t] < MaxLength /\ Writable
  /\ length' = [length EXCEPT ![t] = @ + 1]
  /\ Emit(t, <<"history", length[t] + 1>>) \/ UNCHANGED wire
  /\ UNCHANGED <<open, of, sel, again, history, gates, resolving, failed, faults>>

\* The last messages are written before the state settles; every gate of the
\* turn is expired in the same go.
TurnSettles(t) ==
  /\ length[t] < MaxLength /\ Writable
  /\ length' = [length EXCEPT ![t] = @ + 1]
  /\ open' = {g \in open : of[g] # t} /\ Emit(t, <<"settled", length[t] + 1>>)
  /\ UNCHANGED <<of, sel, again, history, gates, resolving, failed, faults>>

(***************************************************************************)
(* loadHistory.                                                            *)
(***************************************************************************)

\* Mutant: a request that finds one under way is dropped.
DropsSecond == FALSE

Coalesces == TRUE

\* HistoryRefetchGate.begin and the GET.  A load in the foreground aborts the
\* one under way.
Load(t, background) ==
  IF background /\ fetch # Idle
    THEN coalesce' = Coalesces /\ UNCHANGED fetch
    ELSE /\ fetch' = [thread |-> t, background |-> background, answer |-> Unanswered]
         /\ coalesce' = FALSE

HistoryRead ==
  /\ fetch # Idle /\ fetch.answer = Unanswered
  /\ fetch' = [fetch EXCEPT !.answer = length[fetch.thread]]
  /\ UNCHANGED <<server, sel, wire, again, coalesce, shown, late, heard, strayed, gates,
                 resolving, failed, faults>>

\* finish: one more load, of the same thread, when others asked meanwhile for
\* whichever thread.
Finish ==
  /\ fetch' = IF coalesce THEN [thread |-> fetch.thread, background |-> TRUE, answer |-> Unanswered]
                          ELSE Idle
  /\ coalesce' = FALSE

\* history_loaded unites two pages of a thread and replaces another thread,
\* whichever is selected.
HistoryLoaded ==
  /\ fetch # Idle /\ fetch.answer # Unanswered
  /\ shown' = [thread |-> fetch.thread,
               length |-> IF shown.thread = fetch.thread THEN Max({shown.length, fetch.answer})
                                                         ELSE fetch.answer]
  /\ Finish /\ failed' = failed \ {"history"}
  /\ strayed' = (strayed /\ fetch.thread # sel)
  /\ UNCHANGED <<server, sel, wire, again, late, heard, gates, resolving, faults>>

HistoryFails ==
  /\ fetch # Idle /\ faults < MaxFaults /\ faults' = faults + 1
  /\ Finish /\ failed' = failed \cup {"history"}
  /\ UNCHANGED <<server, sel, wire, again, shown, late, heard, strayed, gates, resolving>>

(***************************************************************************)
(* refresh and the decision of a card (useThreadGate).                     *)
(***************************************************************************)
\* Two lists of a thread that the server has not read yet are one.
Ask(t) ==
  /\ Cardinality(snaps) + Cardinality(late) < MaxCalls
  /\ snaps' = snaps \cup {[thread |-> t, answer |-> Unread]}

OpenGates(t) == {g \in open : of[g] = t}

Snapshot(s) ==
  /\ s.answer = Unread
  /\ snaps' = (snaps \ {s}) \cup {[s EXCEPT !.answer = OpenGates(s.thread)]}
  /\ UNCHANGED <<server, sel, wire, again, history, cards, outdated, resolving, failed, faults>>

OfSelected(s) == s.thread = sel

\* The list replaces the cards, also when an event has overtaken it.
SnapshotAnswered(s) ==
  /\ s.answer # Unread
  /\ snaps' = snaps \ {s}
  /\ IF OfSelected(s) THEN /\ cards' = s.answer
                           /\ outdated' = (s.answer # OpenGates(sel))
                           /\ failed' = failed \ {"gates"}
                      ELSE UNCHANGED <<cards, outdated, failed>>
  /\ UNCHANGED <<server, sel, wire, again, history, resolving, faults>>

SnapshotFails(s) ==
  /\ faults < MaxFaults /\ faults' = faults + 1
  /\ snaps' = snaps \ {s} /\ failed' = failed \cup {"gates"}
  /\ UNCHANGED <<server, sel, wire, again, history, cards, outdated, resolving>>

Resolve(g) ==
  /\ g \in cards /\ resolving = Undecided
  /\ resolving' = [gate |-> g, status |-> "sent"]
  /\ UNCHANGED <<server, sel, wire, again, history, gates, failed, faults>>

Decided ==
  /\ resolving # Undecided /\ resolving.status = "sent"
  /\ LET g == resolving.gate IN
       IF g \in open
         THEN /\ open' = open \ {g}
              /\ Emit(of[g], <<"gate.resolved", g>>)
              /\ resolving' = [resolving EXCEPT !.status = "done"]
         ELSE /\ resolving' = [resolving EXCEPT !.status = "refused"]
              /\ UNCHANGED <<open, wire>>
  /\ UNCHANGED <<of, length, sel, again, history, gates, failed, faults>>

\* The card leaves when the decision was taken, and stays otherwise.
ResolveAnswered ==
  /\ resolving # Undecided /\ resolving.status # "sent"
  /\ cards' = IF resolving.status = "done" THEN cards \ {resolving.gate} ELSE cards
  /\ resolving' = Undecided
  /\ UNCHANGED <<server, sel, wire, again, history, snaps, outdated, failed, faults>>

(***************************************************************************)
(* The user.                                                               *)
(***************************************************************************)

\* Mutant: the load under way goes on when no thread is selected.
KeepFetch == fetch

Cancelled == Idle

\* The effects of a new selection: the load under way is cancelled, the new
\* thread's history is loaded in the foreground and its cards are read; the
\* old conversation stays until its successor is there.
Select(k) ==
  /\ k # sel
  /\ sel' = k /\ wire' = Down /\ again' = FALSE
  /\ cards' = {} /\ outdated' = FALSE /\ heard' = 0 /\ strayed' = FALSE
  /\ IF k = NoThread
       THEN /\ fetch' = Cancelled /\ coalesce' = FALSE /\ shown' = Blank
            /\ UNCHANGED snaps
       ELSE /\ Load(k, FALSE) /\ Ask(k) /\ UNCHANGED shown
  /\ UNCHANGED <<server, late, resolving, failed, faults>>

\* send, for a thread that waits for a permission and shows no card.
SendWithoutCard ==
  /\ sel # NoThread /\ cards = {} /\ \E g \in open : of[g] = sel
  /\ Ask(sel)
  /\ UNCHANGED <<server, sel, wire, again, history, cards, outdated, resolving, failed, faults>>

LoadLater ==
  /\ Cardinality(late) < MaxLate /\ Cardinality(snaps') + Cardinality(late) < MaxCalls
  /\ late' = late \cup {sel}

\* cancel: POST /cancel, and the history afterwards, of the thread it was for.
Stop ==
  /\ sel # NoThread /\ UNCHANGED snaps /\ LoadLater
  /\ UNCHANGED <<server, sel, wire, again, fetch, coalesce, shown, heard, strayed, cards,
                 outdated, resolving, failed, faults>>

\* The POST has answered, or the list in which resyncThreadState finds that
\* the turn has settled: the thread is the one of the closure.
LateLoad(t) ==
  /\ t \in late /\ late' = late \ {t}
  /\ Load(t, TRUE)
  /\ strayed' = (strayed \/ fetch'.thread \notin {sel, NoThread})
  /\ UNCHANGED <<server, sel, wire, again, shown, heard, gates, resolving, failed, faults>>

(***************************************************************************)
(* The socket.                                                             *)
(***************************************************************************)

Connect ==
  /\ sel # NoThread /\ wire = Down /\ wire' = <<<<"open">>>>
  /\ UNCHANGED <<server, sel, again, history, gates, resolving, failed, faults>>

Drop ==
  /\ wire # Down /\ faults < MaxFaults
  /\ faults' = faults + 1 /\ wire' = Down /\ again' = TRUE
  /\ UNCHANGED <<server, sel, history, gates, resolving, failed>>

Arrives(event) == wire # Down /\ wire # <<>> /\ Head(wire) = event /\ wire' = Tail(wire)

\* shouldRefetchHistoryOnResync.
RefetchOnResync == again \/ fetch = Idle

\* Mutant: only the selection reads the gates.
NoRefresh(t) == UNCHANGED snaps

RefreshOnResync(t) == Ask(t)

\* resyncThread.  resyncThreadState may have nothing to load, or its list fail.
Opened ==
  /\ Arrives(<<"open">>)
  /\ again' = FALSE
  /\ IF RefetchOnResync THEN Load(sel, TRUE) ELSE UNCHANGED <<fetch, coalesce>>
  /\ heard' = IF again THEN length[sel] ELSE heard
  /\ RefreshOnResync(sel)
  /\ LoadLater \/ UNCHANGED late
  /\ UNCHANGED <<server, sel, shown, strayed, cards, outdated, resolving, failed, faults>>

\* handleStreamEvent.
HistoryEvent(n) ==
  /\ Arrives(<<"history", n>>) /\ Load(sel, TRUE) /\ heard' = Max({heard, n})
  /\ UNCHANGED <<server, sel, again, shown, late, strayed, gates, resolving, failed, faults>>

SettledEvent(n) ==
  /\ Arrives(<<"settled", n>>) /\ Load(sel, TRUE) /\ heard' = Max({heard, n}) /\ cards' = {}
  /\ UNCHANGED <<server, sel, again, shown, late, strayed, snaps, outdated, resolving, failed, faults>>

GateEvent(g) ==
  /\ \/ Arrives(<<"gate.opened", g>>) /\ cards' = cards \cup {g}
     \/ Arrives(<<"gate.resolved", g>>) /\ cards' = cards \ {g}
  /\ UNCHANGED <<server, sel, again, history, snaps, outdated, resolving, failed, faults>>

Server == \/ \E t \in Threads, g \in Gates : GateOpens(t, g)
          \/ \E g \in Gates : GateCloses(g)
          \/ \E t \in Threads : HistoryGrows(t) \/ TurnSettles(t)
User == \/ \E k \in Keys : Select(k)
        \/ \E g \in Gates : Resolve(g)
        \/ SendWithoutCard \/ Stop
Stream == \/ Connect \/ Opened
          \/ \E n \in Lengths : HistoryEvent(n) \/ SettledEvent(n)
          \/ \E g \in Gates : GateEvent(g)
HistoryReads == HistoryRead \/ HistoryLoaded \/ \E t \in late : LateLoad(t)
GateReads == \E s \in snaps : Snapshot(s) \/ SnapshotAnswered(s)
Posts == Decided \/ ResolveAnswered
Faults == Drop \/ HistoryFails \/ \E s \in snaps : SnapshotFails(s)
Next == Server \/ User \/ Stream \/ HistoryReads \/ GateReads \/ Posts \/ Faults

Spec == Init /\ [][Next]_vars

(***************************************************************************)
(* Properties.                                                             *)
(***************************************************************************)

\* A card is of the selected thread, whichever snapshot comes back when
\* (threadIdRef in useThreadGate).
CardsOfSelected == \A g \in cards : of[g] = sel

\* Once the load of a selection is through, the chat is that of the selected
\* thread (cancel in HistoryRefetchGate, historyThreadId in the timeline),
\* unless a load asked for by an earlier selection has begun since: nothing
\* else, and no order of answers, brings another chat in.
ChatOfSelected ==
  (fetch.background /\ "history" \notin failed /\ ~strayed) => shown.thread = sel

Listening == sel # NoThread /\ wire = <<>>

\* When no load is under way, the chat of the selected thread is as new as the
\* client was told, by an event or by a drop: loads that coalesced, were
\* aborted or were overtaken lost nothing of it.
NothingHeardIsMissed ==
  (fetch = Idle /\ "history" \notin failed /\ shown.thread = sel) => shown.length >= heard

\* When nothing is under way, the cards are the open gates of the thread, none
\* out of reach and none left over, over drops, changes of thread and
\* decisions; unless the last list was overtaken by a gate that opened or
\* closed after it was read.
CardsAreTheGates ==
  (Listening /\ snaps = {} /\ resolving = Undecided /\ "gates" \notin failed /\ ~outdated)
    => cards = OpenGates(sel)
=============================================================================
