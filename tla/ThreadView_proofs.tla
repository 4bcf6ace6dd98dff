-------------------------- MODULE ThreadView_proofs --------------------------
(***************************************************************************)
(* Proofs about ThreadView, for any threads, gates and bounds: whose cards *)
(* and whose chat are shown, that no news of the history is lost, and that *)
(* the cards become the open gates; with the exceptions that each property *)
(* names.                                                                  *)
(***************************************************************************)
EXTENDS ThreadView, TLAPS

OnWire(e) == wire # Down /\ \E n \in DOMAIN wire : wire[n] = e

(* The socket is that of the selected thread, and tells of no write that   *)
(* is yet to come.                                                         *)
WireInv ==
  wire # Down => /\ sel \in Threads
                 /\ \A g \in Gates : OnWire(<<"gate.opened", g>>) => of[g] = sel
                 /\ \A n \in Lengths : OnWire(<<"history", n>>) \/ OnWire(<<"settled", n>>)
                                         => n <= length[sel]

(* So are the cards, and a list that was read holds gates of its thread.   *)
CardsInv == \A g \in cards : of[g] = sel /\ sel # NoThread
SnapsInv == \A s \in snaps : s.answer # Unread => \A g \in s.answer : of[g] = s.thread

(* A load of another thread was noted when it began.                       *)
StrayInv == fetch.thread \notin {sel, NoThread} => strayed

(* Why no news is lost: it is shown; or the load under way will read, or   *)
(* has read it, or one more follows; or there was an error, or the chat    *)
(* of another thread came.                                                 *)
InView == shown.thread = sel /\ shown.length >= heard
UnderWay == fetch # Idle /\ (fetch.thread # sel \/ coalesce \/ fetch.answer = Unanswered \/ fetch.answer >= heard)
Excused == fetch = Idle /\ ("history" \in failed \/ shown.thread # sel)
HeardInv == /\ sel \in Threads => heard <= length[sel]
            /\ sel = NoThread => heard = 0
            /\ InView \/ UnderWay \/ Excused

HistoryInv == StrayInv /\ ChatOfSelected /\ HeardInv

IInv == TypeOK /\ WireInv /\ CardsInv /\ SnapsInv /\ HistoryInv

-----------------------------------------------------------------------------
(***************************************************************************)
(* The socket.                                                             *)
(***************************************************************************)

LEMMA DownIsNoQueue == Down \notin Seq(Events)
<1> SUFFICES ASSUME Down \in Seq(Events) PROVE FALSE
  OBVIOUS
<1>1. <<"closed">> \in Events
  BY DEF Down
<1> QED BY <1>1 DEF Events

LEMMA Emitted ==
  ASSUME TypeOK, NEW t \in Threads, NEW e \in Events, Emit(t, e)
  PROVE  /\ wire' = Down \/ wire' \in Seq(Events)
         /\ wire' = Down <=> wire = Down
         /\ \A x : OnWire(x) => OnWire(x)'
         /\ \A x : OnWire(x)' => OnWire(x) \/ (x = e /\ Subscribed(t))
         /\ Subscribed(t) => OnWire(e)'
<1>1. CASE ~Subscribed(t)
  BY <1>1 DEF Emit, OnWire, TypeOK
<1>2. CASE Subscribed(t)
  <2>1. wire' = Append(wire, e) /\ wire # Down /\ wire \in Seq(Events)
    BY <1>2 DEF Emit, Subscribed, TypeOK
  <2>2. /\ wire' \in Seq(Events) /\ Len(wire) \in Nat /\ DOMAIN wire = 1..Len(wire)
        /\ DOMAIN wire' = 1..(Len(wire) + 1)
        /\ \A n \in 1..Len(wire) : wire'[n] = wire[n]
        /\ wire'[Len(wire) + 1] = e
    BY <2>1
  <2>3. wire' # Down
    BY <2>2, DownIsNoQueue
  <2>4. ASSUME NEW x, OnWire(x) PROVE OnWire(x)'
    BY <2>2, <2>3, <2>4 DEF OnWire
  <2>5. ASSUME NEW x, OnWire(x)' PROVE OnWire(x) \/ x = e
    <3>1. PICK n \in 1..(Len(wire) + 1) : wire'[n] = x
      BY <2>2, <2>5 DEF OnWire
    <3>2. n \in 1..Len(wire) \/ n = Len(wire) + 1
      BY <2>2
    <3> QED BY <2>1, <2>2, <3>1, <3>2 DEF OnWire
  <2>6. OnWire(e)'
    <3>1. Len(wire) + 1 \in DOMAIN wire'
      BY <2>2
    <3> QED BY <2>2, <2>3, <3>1 DEF OnWire
  <2> QED BY <1>2, <2>1, <2>2, <2>3, <2>4, <2>5, <2>6
<1> QED BY <1>1, <1>2

LEMMA Arrived ==
  ASSUME TypeOK, NEW e, Arrives(e)
  PROVE  /\ wire' \in Seq(Events) /\ wire # Down /\ wire' # Down
         /\ OnWire(e)
         /\ \A x : OnWire(x)' => OnWire(x)
         /\ \A x : OnWire(x) /\ x # e => OnWire(x)'
<1>1. wire \in Seq(Events) /\ wire # Down /\ wire # <<>> /\ Head(wire) = e /\ wire' = Tail(wire)
  BY DEF Arrives, TypeOK
<1>2. /\ wire' \in Seq(Events) /\ Len(wire) \in Nat \ {0} /\ DOMAIN wire = 1..Len(wire)
      /\ DOMAIN wire' = 1..(Len(wire) - 1) /\ wire[1] = e
      /\ \A n \in 1..(Len(wire) - 1) : wire'[n] = wire[n + 1]
  BY <1>1
<1>3. wire' # Down
  BY <1>2, DownIsNoQueue
<1>4. OnWire(e)
  BY <1>1, <1>2 DEF OnWire
<1>5. ASSUME NEW x, OnWire(x)' PROVE OnWire(x)
  <2>1. PICK n \in 1..(Len(wire) - 1) : wire'[n] = x
    BY <1>2, <1>5 DEF OnWire
  <2>2. n + 1 \in DOMAIN wire /\ wire[n + 1] = x
    BY <1>2, <2>1
  <2> QED BY <1>1, <2>2 DEF OnWire
<1>6. ASSUME NEW x, OnWire(x), x # e PROVE OnWire(x)'
  <2>1. PICK n \in 1..Len(wire) : wire[n] = x
    BY <1>2, <1>6 DEF OnWire
  <2>2. n # 1
    BY <1>2, <1>6, <2>1
  <2>3. n - 1 \in DOMAIN wire' /\ (n - 1) + 1 = n
    BY <1>2, <2>2
  <2>4. wire'[n - 1] = x
    BY <1>2, <2>1, <2>3
  <2> QED BY <1>3, <2>3, <2>4 DEF OnWire
<1> QED BY <1>1, <1>2, <1>3, <1>4, <1>5, <1>6


-----------------------------------------------------------------------------
(***************************************************************************)
(* The parts of the invariant that most steps leave alone.                 *)
(***************************************************************************)

LEMMA MaxOfTwo ==
  ASSUME NEW m \in Int, NEW n \in Int
  PROVE  Max({m, n}) = IF m >= n THEN m ELSE n
<1> DEFINE top == IF m >= n THEN m ELSE n
<1>1. top \in {m, n} /\ top \in Int /\ \A y \in {m, n} : top >= y /\ y \in Int
  OBVIOUS
<1> HIDE DEF top
<1>2. \A x \in {m, n} : (\A y \in {m, n} : x >= y) => x = top
  BY <1>1
<1>3. Max({m, n}) = top
  BY <1>1, <1>2 DEF Max
<1> QED BY <1>3 DEF top

LEMMA HistoryKept ==
  ASSUME IInv, UNCHANGED <<sel, fetch, coalesce, shown, heard, strayed>>,
         length' \in [Threads -> Lengths],
         sel \in Threads => length[sel] <= length'[sel],
         "history" \in failed => "history" \in failed'
  PROVE  HistoryInv'
<1>1. StrayInv' /\ ChatOfSelected'
  BY DEF IInv, HistoryInv, StrayInv, ChatOfSelected
<1>2. (InView \/ UnderWay \/ Excused)'
  BY DEF IInv, HistoryInv, HeardInv, InView, UnderWay, Excused
<1>3. (sel \in Threads => heard <= length[sel])' /\ (sel = NoThread => heard = 0)'
  <2> SUFFICES ASSUME sel \in Threads PROVE heard <= length'[sel]
    BY DEF IInv, HistoryInv, HeardInv
  <2>1. heard <= length[sel] /\ heard \in Int /\ length[sel] \in Int /\ length'[sel] \in Int
    BY DEF IInv, HistoryInv, HeardInv, TypeOK, Lengths
  <2> QED BY <2>1
<1> QED BY <1>1, <1>2, <1>3 DEF HistoryInv, HeardInv

LEMMA GatesKept ==
  ASSUME IInv, UNCHANGED <<of, sel>>, cards' \subseteq cards, \A s \in snaps' : s \in snaps \/ s.answer = Unread
  PROVE  CardsInv' /\ SnapsInv'
BY DEF IInv, CardsInv, SnapsInv

(* A load that is asked for is under way or follows, of whichever thread.  *)
LEMMA LoadTyped ==
  ASSUME TypeOK, NEW t \in Threads, NEW b \in BOOLEAN, Load(t, b)
  PROVE  /\ fetch' \in Fetches /\ coalesce' \in BOOLEAN /\ fetch' # Idle
         /\ \/ fetch # Idle /\ UNCHANGED fetch /\ coalesce' = TRUE
            \/ fetch' = [thread |-> t, background |-> b, answer |-> Unanswered]
<1> DEFINE f == [thread |-> t, background |-> b, answer |-> Unanswered]
<1>1. f \in Fetches /\ f.thread # NoThread
  BY ViewAssumption DEF Fetches
<1>2. f # Idle
  BY <1>1 DEF Idle
<1>3. CASE b /\ fetch # Idle
  BY <1>3 DEF Load, Coalesces, TypeOK
<1>4. CASE ~(b /\ fetch # Idle)
  BY <1>1, <1>2, <1>4 DEF Load
<1> QED BY <1>3, <1>4

(* A load of the selected thread, asked for in the background, will bring  *)
(* all there is by then.                                                   *)
LEMMA LoadHolds ==
  ASSUME IInv, sel \in Threads, Load(sel, TRUE), UNCHANGED <<length, sel, shown, failed, strayed>>,
         heard' \in Lengths, heard' <= length[sel]
  PROVE  HistoryInv'
<1> USE DEF IInv, HistoryInv
<1>1. /\ fetch' # Idle
      /\ \/ fetch # Idle /\ UNCHANGED fetch /\ coalesce' = TRUE
         \/ fetch' = [thread |-> sel, background |-> TRUE, answer |-> Unanswered]
  BY LoadTyped
<1>2. StrayInv'
  BY <1>1 DEF StrayInv
<1>3. ChatOfSelected'
  <2>1. CASE fetch # Idle
    <3>1. UNCHANGED fetch
      BY <2>1 DEF Load
    <3> QED BY <3>1 DEF ChatOfSelected
  <2>2. CASE fetch = Idle
    BY <2>2 DEF ChatOfSelected, Idle
  <2> QED BY <2>1, <2>2
<1>4. UnderWay'
  BY <1>1 DEF UnderWay, Idle
<1>5. sel # NoThread
  BY ViewAssumption
<1> QED BY <1>2, <1>3, <1>4, <1>5 DEF HeardInv

-----------------------------------------------------------------------------
(***************************************************************************)
(* The server.                                                             *)
(***************************************************************************)

LEMMA BlankTyped == Blank \in [thread : Keys, length : Lengths]
<1>1. NoThread \in Keys /\ 0 \in Lengths
  BY ViewAssumption DEF Keys, Lengths
<1> QED BY <1>1 DEF Blank

LEMMA InitHolds == Init => IInv
<1> SUFFICES ASSUME Init PROVE IInv
  OBVIOUS
<1>1. TypeOK
  <2>1. length \in [Threads -> Lengths] /\ faults \in 0..MaxFaults /\ heard \in Lengths
    BY ViewAssumption DEF Init, Lengths
  <2>4. strayed \in BOOLEAN /\ outdated \in BOOLEAN /\ again \in BOOLEAN /\ coalesce \in BOOLEAN
    BY DEF Init
  <2>2. of \in [Gates -> Keys] /\ sel \in Keys
    BY DEF Init, Keys
  <2>3. /\ open \subseteq Gates /\ late \subseteq Threads /\ snaps \subseteq Snaps /\ cards \subseteq Gates
        /\ failed \subseteq {"history", "gates"} /\ wire = Down /\ fetch = Idle /\ resolving = Undecided
    BY DEF Init
  <2> QED BY <2>1, <2>2, <2>3, <2>4, BlankTyped DEF Init, TypeOK
<1>2. WireInv /\ CardsInv /\ SnapsInv
  BY DEF Init, WireInv, CardsInv, SnapsInv
<1>3. HistoryInv
  <2>1. /\ fetch.thread = NoThread /\ shown.thread = sel /\ shown.length = 0 /\ sel = NoThread
        /\ sel \notin Threads /\ heard = 0
    BY ViewAssumption DEF Init, Idle, Blank
  <2> QED BY <2>1 DEF HistoryInv, StrayInv, ChatOfSelected, HeardInv, InView
<1> QED BY <1>1, <1>2, <1>3 DEF IInv

LEMMA GateHolds ==
  ASSUME IInv,
         \/ \E t \in Threads, g \in Gates : GateOpens(t, g)
         \/ \E g \in Gates : GateCloses(g)
  PROVE  IInv'
<1> USE DEF IInv
<1>0. length \in [Threads -> Lengths] /\ \A t \in Threads : length[t] <= length[t]
  BY DEF TypeOK, Lengths
<1>1. ASSUME NEW t \in Threads, NEW g \in Gates, GateOpens(t, g) PROVE IInv'
  <2>1. /\ of[g] = NoThread /\ of' = [of EXCEPT ![g] = t] /\ open' = open \cup {g}
        /\ Emit(t, <<"gate.opened", g>>)
        /\ UNCHANGED <<length, sel, again, fetch, coalesce, shown, late, heard, strayed,
                       snaps, cards, outdated, resolving, failed, faults>>
    BY <1>1 DEF GateOpens, history, gates
  <2>2. <<"gate.opened", g>> \in Events
    BY DEF Events
  <2>3. of' \in [Gates -> Keys] /\ of'[g] = t /\ \A h \in Gates \ {g} : of'[h] = of[h]
    BY <2>1 DEF TypeOK, Keys
  <2>4. TypeOK'
    BY <2>1, <2>2, <2>3, Emitted DEF TypeOK
  <2>5. WireInv'
    <3>1. wire # Down => sel \in Threads
      BY DEF WireInv
    <3>2. wire' = Down <=> wire = Down
      BY <2>1, <2>2, Emitted
    <3>3. ASSUME NEW h \in Gates, OnWire(<<"gate.opened", h>>)' PROVE of'[h] = sel
      <4>1. OnWire(<<"gate.opened", h>>) \/ (<<"gate.opened", h>> = <<"gate.opened", g>> /\ Subscribed(t))
        BY <2>1, <2>2, <3>3, Emitted
      <4>2. CASE OnWire(<<"gate.opened", h>>)
        <5>1. of[h] = sel /\ sel \in Threads
          BY <4>2 DEF WireInv, OnWire
        <5>2. h # g
          BY <2>1, <5>1, ViewAssumption
        <5> QED BY <2>3, <5>1, <5>2
      <4>3. CASE <<"gate.opened", h>> = <<"gate.opened", g>> /\ Subscribed(t)
        BY <2>3, <4>3 DEF Subscribed
      <4> QED BY <4>1, <4>2, <4>3
    <3>4. ASSUME NEW n \in Lengths, (OnWire(<<"history", n>>) \/ OnWire(<<"settled", n>>))'
          PROVE  n <= length'[sel]
      <4>1. <<"history", n>> # <<"gate.opened", g>> /\ <<"settled", n>> # <<"gate.opened", g>>
        OBVIOUS
      <4>2. OnWire(<<"history", n>>) \/ OnWire(<<"settled", n>>)
        BY <2>1, <2>2, <3>4, <4>1, Emitted
      <4> QED BY <2>1, <4>2 DEF WireInv, OnWire
    <3> QED BY <2>1, <3>1, <3>2, <3>3, <3>4 DEF WireInv
  <2>6. CardsInv'
    <3>1. g \notin cards
      BY <2>1 DEF CardsInv
    <3> QED BY <2>1, <2>3, <3>1 DEF CardsInv, TypeOK
  <2>7. SnapsInv'
    <3> SUFFICES ASSUME NEW s \in snaps, s.answer # Unread, NEW h \in s.answer PROVE of'[h] = s.thread
      BY <2>1 DEF SnapsInv
    <3>0. s.thread \in Threads /\ s.answer \in (SUBSET Gates) \cup {Unread}
      BY DEF TypeOK, Snaps
    <3>3. s.answer \in SUBSET Gates
      BY <3>0
    <3>1. of[h] = s.thread /\ s.thread \in Threads /\ h \in Gates
      BY <3>0, <3>3 DEF SnapsInv
    <3>2. h # g
      BY <2>1, <3>1, ViewAssumption
    <3> QED BY <2>3, <3>1, <3>2
  <2> QED BY <1>0, <2>1, <2>4, <2>5, <2>6, <2>7, HistoryKept
<1>2. ASSUME NEW g \in Gates, GateCloses(g) PROVE IInv'
  <2>1. /\ g \in open /\ open' = open \ {g} /\ Emit(of[g], <<"gate.resolved", g>>)
        /\ UNCHANGED <<of, length, sel, again, fetch, coalesce, shown, late, heard, strayed,
                       snaps, cards, outdated, resolving, failed, faults>>
    BY <1>2 DEF GateCloses, history, gates
  <2>2. CardsInv' /\ SnapsInv' /\ HistoryInv'
    BY <1>0, <2>1, GatesKept, HistoryKept
  <2>3. CASE of[g] \in Threads
    <3>1. <<"gate.resolved", g>> \in Events
      BY DEF Events
    <3>2. TypeOK'
      BY <2>1, <2>3, <3>1, Emitted DEF TypeOK
    <3>3. WireInv'
      <4>1. /\ \A h : <<"gate.opened", h>> # <<"gate.resolved", g>>
            /\ \A n : <<"history", n>> # <<"gate.resolved", g>> /\ <<"settled", n>> # <<"gate.resolved", g>>
        OBVIOUS
      <4>2. /\ wire' = Down <=> wire = Down
            /\ \A x : OnWire(x)' => OnWire(x) \/ x = <<"gate.resolved", g>>
        BY <2>1, <2>3, <3>1, Emitted
      <4> QED BY <2>1, <4>1, <4>2 DEF WireInv
    <3> QED BY <2>2, <3>2, <3>3
  <2>4. CASE of[g] \notin Threads
    <3>1. UNCHANGED wire
      BY <2>1, <2>4 DEF Emit, Subscribed, WireInv
    <3>2. TypeOK' /\ WireInv'
      BY <2>1, <3>1 DEF TypeOK, WireInv, OnWire
    <3> QED BY <2>2, <3>2
  <2> QED BY <2>3, <2>4
<1> QED BY <1>1, <1>2

(* A write to a history is announced with the length it leaves, or not at  *)
(* all.                                                                    *)
LEMMA GrowthHolds ==
  ASSUME IInv, NEW t \in Threads, HistoryGrows(t) \/ TurnSettles(t)
  PROVE  IInv'
<1> USE DEF IInv
<1>1. PICK k \in {"history", "settled"} : Emit(t, <<k, length[t] + 1>>) \/ UNCHANGED wire
  BY DEF HistoryGrows, TurnSettles
<1> DEFINE e == <<k, length[t] + 1>>
<1>2. /\ length[t] < MaxLength /\ length' = [length EXCEPT ![t] = @ + 1]
      /\ open' \subseteq open
      /\ UNCHANGED <<of, sel, again, fetch, coalesce, shown, late, heard, strayed,
                     snaps, cards, outdated, resolving, failed, faults>>
  BY DEF HistoryGrows, TurnSettles, history, gates
<1>3. e \in Events
  BY <1>2, ViewAssumption DEF Events, TypeOK, Lengths
<1>4. /\ length' \in [Threads -> Lengths] /\ length'[t] = length[t] + 1
      /\ \A s \in Threads : length[s] <= length'[s] /\ length[s] \in Int /\ length'[s] \in Int
  BY <1>2, ViewAssumption DEF TypeOK, Lengths
<1> HIDE DEF e
<1>5. /\ wire' = Down \/ wire' \in Seq(Events)
      /\ wire' = Down <=> wire = Down
      /\ \A x : OnWire(x)' => OnWire(x) \/ (x = e /\ t = sel)
  <2>1. CASE UNCHANGED wire
    BY <2>1 DEF OnWire, TypeOK
  <2>2. CASE Emit(t, e)
    BY <1>3, <2>2, Emitted DEF Subscribed
  <2> QED BY <1>1, <2>1, <2>2 DEF e
<1>6. TypeOK'
  BY <1>2, <1>4, <1>5 DEF TypeOK
<1>7. WireInv'
  <2>1. \A g : <<"gate.opened", g>> # e
    BY DEF e
  <2>2. ASSUME wire # Down, NEW n \in Lengths, NEW x \in {<<"history", n>>, <<"settled", n>>}, OnWire(x)'
        PROVE  n <= length'[sel]
    <3>1. n \in Int /\ sel \in Threads
      BY <2>2 DEF Lengths, WireInv
    <3>2. CASE OnWire(x)
      <4>1. n <= length[sel]
        BY <2>2, <3>2 DEF WireInv
      <4> QED BY <1>4, <3>1, <4>1
    <3>3. CASE x = e /\ t = sel
      BY <1>4, <3>1, <3>3 DEF e
    <3> QED BY <1>5, <2>2, <3>2, <3>3
  <2>3. wire' # Down => sel' \in Threads
    BY <1>2, <1>5 DEF WireInv
  <2>4. ASSUME wire' # Down, NEW g \in Gates, OnWire(<<"gate.opened", g>>)' PROVE of'[g] = sel'
    BY <1>2, <1>5, <2>1, <2>4 DEF WireInv
  <2> QED BY <1>2, <1>5, <2>2, <2>3, <2>4 DEF WireInv
<1>8. CardsInv' /\ SnapsInv' /\ HistoryInv'
  BY <1>2, <1>4, GatesKept, HistoryKept
<1> QED BY <1>6, <1>7, <1>8

-----------------------------------------------------------------------------
(***************************************************************************)
(* The reads and the decision.                                             *)
(***************************************************************************)

LEMMA HistoryHolds ==
  ASSUME IInv, HistoryRead \/ HistoryLoaded \/ HistoryFails
  PROVE  IInv'
<1> USE DEF IInv, HistoryInv
<1>1. /\ fetch # Idle /\ fetch \in Fetches /\ fetch.thread \in Threads /\ fetch.thread # NoThread
      /\ fetch.answer \in Lengths \cup {Unanswered} /\ length[fetch.thread] \in Lengths
  BY ViewAssumption DEF HistoryRead, HistoryLoaded, HistoryFails, TypeOK, Fetches
<1>2. /\ heard \in Int /\ sel \in Keys /\ shown.length \in Lengths
      /\ sel \in Threads => heard <= length[sel]
      /\ sel = NoThread => heard = 0
  BY DEF TypeOK, Lengths, HeardInv
<1>3. ASSUME HistoryRead PROVE IInv'
  <2> DEFINE f == [fetch EXCEPT !.answer = length[fetch.thread]]
  <2>1. /\ fetch.answer = Unanswered /\ fetch' = f
        /\ UNCHANGED <<open, of, length, sel, wire, again, coalesce, shown, late, heard, strayed,
                       snaps, cards, outdated, resolving, failed, faults>>
    BY <1>3 DEF HistoryRead, server, gates
  <2>2. /\ f \in Fetches /\ f.thread = fetch.thread /\ f.answer = length[fetch.thread]
        /\ f.background = fetch.background
    BY <1>1 DEF Fetches
  <2> HIDE DEF f
  <2>3. f # Idle
    BY <1>1, <2>2 DEF Idle
  <2>4. TypeOK' /\ WireInv' /\ CardsInv' /\ SnapsInv'
    BY <2>1, <2>2 DEF TypeOK, WireInv, CardsInv, SnapsInv, OnWire
  <2>5. StrayInv' /\ ChatOfSelected'
    BY <2>1, <2>2 DEF StrayInv, ChatOfSelected
  <2>6. UnderWay'
    <3>1. CASE fetch.thread = sel
      <4>1. heard <= length[sel]
        BY <1>1, <1>2, <3>1
      <4> QED BY <1>1, <1>2, <2>1, <2>2, <2>3, <3>1, <4>1 DEF UnderWay, Lengths
    <3>2. CASE fetch.thread # sel
      BY <2>1, <2>2, <2>3, <3>2 DEF UnderWay
    <3> QED BY <3>1, <3>2
  <2>7. HeardInv'
    BY <1>2, <2>1, <2>6 DEF HeardInv
  <2> QED BY <2>4, <2>5, <2>7
(* finish: what is asked for next, if anything.                            *)
<1>4. ASSUME Finish PROVE
        /\ fetch' = Idle \/ (fetch' \in Fetches /\ fetch'.thread = fetch.thread /\ fetch'.answer = Unanswered)
        /\ coalesce' = FALSE /\ (coalesce <=> fetch' # Idle) /\ fetch'.background = TRUE
        /\ fetch'.thread \in {fetch.thread, NoThread}
  <2> DEFINE f == [thread |-> fetch.thread, background |-> TRUE, answer |-> Unanswered]
  <2>1. f \in Fetches /\ f.thread = fetch.thread /\ f.answer = Unanswered /\ f.background = TRUE
    BY <1>1 DEF Fetches
  <2>2. f # Idle
    BY <1>1 DEF Idle
  <2>3. fetch' = IF coalesce THEN f ELSE Idle
    BY <1>4 DEF Finish
  <2>4. Idle.background = TRUE /\ coalesce \in BOOLEAN /\ Idle.thread = NoThread
    BY DEF Idle, TypeOK
  <2> HIDE DEF f
  <2> QED BY <1>4, <2>1, <2>2, <2>3, <2>4 DEF Finish
<1>5. ASSUME HistoryLoaded PROVE IInv'
  <2>1. /\ fetch.answer # Unanswered /\ Finish /\ failed' = failed \ {"history"}
        /\ shown' = [thread |-> fetch.thread,
                     length |-> IF shown.thread = fetch.thread THEN Max({shown.length, fetch.answer})
                                                               ELSE fetch.answer]
        /\ strayed' = (strayed /\ fetch.thread # sel)
        /\ UNCHANGED <<open, of, length, sel, wire, again, late, heard, snaps, cards, outdated, resolving, faults>>
    BY <1>5 DEF HistoryLoaded, server, gates
  <2>2. fetch.answer \in Lengths /\ fetch.answer \in Int /\ shown.length \in Int
    BY <1>1, <1>2, <2>1 DEF Lengths
  <2>3. Max({shown.length, fetch.answer}) = IF shown.length >= fetch.answer THEN shown.length ELSE fetch.answer
    BY <2>2, MaxOfTwo
  <2>4. /\ shown'.thread = fetch.thread /\ shown'.length \in Lengths
        /\ fetch.answer <= shown'.length
        /\ shown.thread = fetch.thread => shown.length <= shown'.length
        /\ shown' = [thread |-> fetch.thread, length |-> shown'.length]
    <3> DEFINE l == IF shown.thread = fetch.thread THEN Max({shown.length, fetch.answer})
                                                   ELSE fetch.answer
    <3>1. l \in Lengths /\ fetch.answer <= l /\ (shown.thread = fetch.thread => shown.length <= l)
      BY <1>2, <2>2, <2>3 DEF Lengths
    <3>2. shown' = [thread |-> fetch.thread, length |-> l]
      BY <2>1
    <3> HIDE DEF l
    <3> QED BY <3>1, <3>2
  <2>5. TypeOK'
    <3>1. shown' \in [thread : Keys, length : Lengths]
      BY <1>1, <2>4 DEF Keys
    <3>2. strayed' \in BOOLEAN
      BY <2>1
    <3> QED BY <1>4, <2>1, <3>1, <3>2 DEF TypeOK
  <2>6. WireInv' /\ CardsInv' /\ SnapsInv'
    BY <2>1 DEF WireInv, CardsInv, SnapsInv, OnWire
  <2>7. StrayInv' /\ ChatOfSelected'
    <3>1. CASE fetch.thread = sel
      BY <1>4, <2>1, <2>4, <3>1 DEF StrayInv, ChatOfSelected
    <3>2. CASE fetch.thread # sel
      <4>1. strayed
        BY <1>1, <3>2 DEF StrayInv
      <4>2. strayed'
        BY <2>1, <3>2, <4>1
      <4> QED BY <4>2 DEF StrayInv, ChatOfSelected
    <3> QED BY <3>1, <3>2
  <2>8. (InView \/ UnderWay \/ Excused)'
    <3>1. CASE fetch' # Idle
      BY <1>4, <2>1, <3>1 DEF UnderWay
    <3>2. CASE fetch' = Idle /\ fetch.thread # sel
      BY <2>1, <2>4, <3>2 DEF Excused
    <3>3. CASE fetch' = Idle /\ fetch.thread = sel
      <4>1. ~coalesce
        BY <1>4, <2>1, <3>3
      <4>2. CASE fetch.answer >= heard
        <5>1. shown'.length >= heard
          BY <1>2, <2>2, <2>4, <4>2 DEF Lengths
        <5> QED BY <2>1, <2>4, <3>3, <5>1 DEF InView
      <4>3. CASE InView
        <5>1. shown'.length >= heard
          BY <1>2, <2>2, <2>4, <3>3, <4>3 DEF InView, Lengths
        <5> QED BY <2>1, <2>4, <3>3, <5>1 DEF InView
      <4> QED BY <1>1, <2>1, <3>3, <4>1, <4>2, <4>3 DEF HeardInv, UnderWay, Excused
    <3> QED BY <3>1, <3>2, <3>3
  <2>9. HeardInv'
    BY <1>2, <2>1, <2>8 DEF HeardInv
  <2> QED BY <2>5, <2>6, <2>7, <2>9
<1>6. ASSUME HistoryFails PROVE IInv'
  <2>1. /\ faults < MaxFaults /\ faults' = faults + 1 /\ Finish /\ failed' = failed \cup {"history"}
        /\ UNCHANGED <<open, of, length, sel, wire, again, shown, late, heard, strayed,
                       snaps, cards, outdated, resolving>>
    BY <1>6 DEF HistoryFails, server, gates
  <2>2. TypeOK'
    BY <1>4, <2>1, ViewAssumption DEF TypeOK
  <2>3. WireInv' /\ CardsInv' /\ SnapsInv'
    BY <2>1 DEF WireInv, CardsInv, SnapsInv, OnWire
  <2>4. StrayInv' /\ ChatOfSelected'
    BY <1>4, <2>1 DEF StrayInv, ChatOfSelected
  <2>5. (UnderWay \/ Excused)'
    BY <1>4, <2>1 DEF UnderWay, Excused
  <2>6. HeardInv'
    BY <1>2, <2>1, <2>5 DEF HeardInv
  <2> QED BY <2>2, <2>3, <2>4, <2>6
<1> QED BY <1>3, <1>5, <1>6

(* Lists of gates and the cards.                                           *)
LEMMA CardsHold ==
  ASSUME IInv, \/ \E s \in snaps : Snapshot(s) \/ SnapshotAnswered(s) \/ SnapshotFails(s)
               \/ \E g \in Gates : Resolve(g)
               \/ ResolveAnswered \/ SendWithoutCard
  PROVE  IInv'
<1> USE DEF IInv
<1>1. /\ UNCHANGED <<open, of, length, sel, wire, again, fetch, coalesce, shown, late, heard, strayed>>
      /\ "history" \in failed <=> "history" \in failed'
  BY DEF Snapshot, SnapshotAnswered, SnapshotFails, Resolve, ResolveAnswered, SendWithoutCard, server, history, gates
<1>2. \A s \in snaps : /\ s \in Snaps /\ s.thread \in Threads
                       /\ s.answer # Unread => s.answer \subseteq Gates /\ \A g \in s.answer : of[g] = s.thread
  BY DEF TypeOK, Snaps, SnapsInv
<1>3. ASSUME NEW s \in snaps, Snapshot(s)
      PROVE  CardsInv' /\ SnapsInv' /\ cards' \subseteq Gates /\ snaps' \subseteq Snaps
  <2> DEFINE r == [s EXCEPT !.answer = OpenGates(s.thread)]
  <2>1. snaps' = (snaps \ {s}) \cup {r} /\ UNCHANGED cards
    BY <1>3 DEF Snapshot
  <2>2. OpenGates(s.thread) \subseteq Gates /\ \A g \in OpenGates(s.thread) : of[g] = s.thread
    BY DEF OpenGates, TypeOK
  <2>3. r \in Snaps /\ r.thread = s.thread /\ r.answer = OpenGates(s.thread)
    BY <1>2, <2>2 DEF Snaps
  <2> HIDE DEF r
  <2>4. SnapsInv'
    BY <1>1, <1>2, <2>1, <2>2, <2>3 DEF SnapsInv
  <2> QED BY <1>1, <1>2, <2>1, <2>3, <2>4 DEF CardsInv, TypeOK
<1>4. ASSUME NEW s \in snaps, SnapshotAnswered(s)
      PROVE  CardsInv' /\ SnapsInv' /\ cards' \subseteq Gates /\ snaps' \subseteq Snaps
  <2>1. s.answer # Unread /\ snaps' \subseteq snaps
    BY <1>4 DEF SnapshotAnswered
  <2>2. SnapsInv' /\ snaps' \subseteq Snaps
    BY <1>1, <2>1 DEF SnapsInv, TypeOK
  <2>3. CASE OfSelected(s)
    <3>1. cards' = s.answer /\ sel = s.thread
      BY <1>4, <2>3 DEF SnapshotAnswered, OfSelected
    <3> QED BY <1>1, <1>2, <2>1, <2>2, <3>1, ViewAssumption DEF CardsInv
  <2>4. CASE ~OfSelected(s)
    BY <1>1, <1>4, <2>2, <2>4 DEF SnapshotAnswered, CardsInv, TypeOK
  <2> QED BY <2>3, <2>4
<1>5. ASSUME cards' \subseteq cards, snaps' \subseteq snaps
      PROVE  CardsInv' /\ SnapsInv' /\ cards' \subseteq Gates /\ snaps' \subseteq Snaps
  BY <1>1, <1>5 DEF CardsInv, SnapsInv, TypeOK
<1>6. ASSUME SendWithoutCard
      PROVE  CardsInv' /\ SnapsInv' /\ cards' \subseteq Gates /\ snaps' \subseteq Snaps
  <2> DEFINE r == [thread |-> sel, answer |-> Unread]
  <2>1. sel \in Threads /\ UNCHANGED cards /\ snaps' = snaps \cup {r}
    BY <1>6 DEF SendWithoutCard, Ask, TypeOK, Keys
  <2>2. r \in Snaps
    BY <2>1 DEF Snaps
  <2> QED BY <1>1, <2>1, <2>2 DEF CardsInv, SnapsInv, TypeOK
<1>7. CardsInv' /\ SnapsInv' /\ cards' \subseteq Gates /\ snaps' \subseteq Snaps
  <2>1. CASE \E s \in snaps : SnapshotFails(s)
    BY <1>5, <2>1 DEF SnapshotFails
  <2>2. CASE ResolveAnswered \/ \E g \in Gates : Resolve(g)
    BY <1>5, <2>2 DEF ResolveAnswered, Resolve, gates
  <2> QED BY <1>3, <1>4, <1>6, <2>1, <2>2
<1>8. failed' \subseteq {"history", "gates"} /\ faults' \in 0..MaxFaults /\ outdated' \in BOOLEAN
  <2>1. CASE \E s \in snaps : Snapshot(s)
    BY <2>1 DEF Snapshot, TypeOK
  <2>2. CASE \E s \in snaps : SnapshotAnswered(s)
    <3>1. PICK s \in snaps : SnapshotAnswered(s)
      BY <2>2
    <3>2. outdated' \in BOOLEAN
      <4>1. CASE OfSelected(s)
        <5>1. outdated' = (s.answer # OpenGates(sel))
          BY <3>1, <4>1 DEF SnapshotAnswered
        <5> QED BY <5>1
      <4>2. CASE ~OfSelected(s)
        BY <3>1, <4>2 DEF SnapshotAnswered, TypeOK
      <4> QED BY <4>1, <4>2
    <3>3. failed' \subseteq failed /\ faults' = faults
      BY <3>1 DEF SnapshotAnswered
    <3> QED BY <3>2, <3>3 DEF TypeOK
  <2>3. CASE \E s \in snaps : SnapshotFails(s)
    BY <2>3, ViewAssumption DEF SnapshotFails, TypeOK
  <2>4. CASE ResolveAnswered \/ SendWithoutCard \/ \E g \in Gates : Resolve(g)
    BY <2>4 DEF ResolveAnswered, Resolve, SendWithoutCard, TypeOK, gates
  <2> QED BY <2>1, <2>2, <2>3, <2>4
<1>9. resolving' = Undecided \/ resolving' \in [gate : Gates, status : {"sent", "done", "refused"}]
  BY DEF Snapshot, SnapshotAnswered, SnapshotFails, Resolve, ResolveAnswered, SendWithoutCard, TypeOK
<1>10. TypeOK'
  BY <1>1, <1>7, <1>8, <1>9 DEF TypeOK
<1>11. WireInv'
  BY <1>1 DEF WireInv, OnWire
<1>12. HistoryInv'
  <2>1. length' \in [Threads -> Lengths] /\ (sel \in Threads => length[sel] <= length'[sel])
    BY <1>1 DEF TypeOK, Lengths
  <2> QED BY <1>1, <2>1, HistoryKept
<1> QED BY <1>7, <1>10, <1>11, <1>12

LEMMA DecidedHolds ==
  ASSUME IInv, Decided
  PROVE  IInv'
<1> USE DEF IInv
<1> DEFINE g == resolving.gate
<1>1. /\ g \in Gates /\ open' \subseteq open
      /\ \/ Emit(of[g], <<"gate.resolved", g>>)
         \/ UNCHANGED wire
      /\ UNCHANGED <<of, length, sel, again, fetch, coalesce, shown, late, heard, strayed,
                     snaps, cards, outdated, failed, faults>>
  BY DEF Decided, TypeOK, history, gates
<1>2. resolving' = Undecided \/ resolving' \in [gate : Gates, status : {"sent", "done", "refused"}]
  BY DEF Decided, TypeOK
<1> HIDE DEF g
<1>3. CardsInv' /\ SnapsInv' /\ HistoryInv'
  <2>1. length' \in [Threads -> Lengths] /\ (sel \in Threads => length[sel] <= length'[sel])
    BY <1>1 DEF TypeOK, Lengths
  <2> QED BY <1>1, <2>1, GatesKept, HistoryKept
<1>4. CASE UNCHANGED wire
  <2>1. TypeOK' /\ WireInv'
    BY <1>1, <1>2, <1>4 DEF TypeOK, WireInv, OnWire
  <2> QED BY <1>3, <2>1
<1>5. CASE Emit(of[g], <<"gate.resolved", g>>) /\ of[g] \in Threads
  <2>1. <<"gate.resolved", g>> \in Events
    BY <1>1 DEF Events
  <2>2. TypeOK'
    BY <1>1, <1>2, <1>5, <2>1, Emitted DEF TypeOK
  <2>3. WireInv'
    <3>1. /\ \A h : <<"gate.opened", h>> # <<"gate.resolved", g>>
          /\ \A n : <<"history", n>> # <<"gate.resolved", g>> /\ <<"settled", n>> # <<"gate.resolved", g>>
      OBVIOUS
    <3>2. /\ wire' = Down <=> wire = Down
          /\ \A x : OnWire(x)' => OnWire(x) \/ x = <<"gate.resolved", g>>
      BY <1>5, <2>1, Emitted
    <3> QED BY <1>1, <3>1, <3>2 DEF WireInv
  <2> QED BY <1>3, <2>2, <2>3
<1>6. CASE Emit(of[g], <<"gate.resolved", g>>) /\ of[g] \notin Threads
  <2>1. UNCHANGED wire
    BY <1>6 DEF Emit, Subscribed, WireInv
  <2> QED BY <1>4, <2>1
<1> QED BY <1>1, <1>4, <1>5, <1>6

-----------------------------------------------------------------------------
(***************************************************************************)
(* The selection, what is loaded late, and the socket.                     *)
(***************************************************************************)

LEMMA SelectHolds ==
  ASSUME IInv, NEW k \in Keys, Select(k)
  PROVE  IInv'
<1> USE DEF IInv, HistoryInv
<1>1. /\ sel' = k /\ wire' = Down /\ again' = FALSE /\ cards' = {} /\ outdated' = FALSE
      /\ heard' = 0 /\ strayed' = FALSE
      /\ UNCHANGED <<open, of, length, late, resolving, failed, faults>>
  BY DEF Select, server
<1>2. WireInv' /\ CardsInv'
  BY <1>1 DEF WireInv, CardsInv, OnWire
<1>3. /\ 0 \in Lengths /\ \A t \in Threads : 0 <= length[t]
  BY ViewAssumption DEF Lengths, TypeOK
<1>4. CASE k = NoThread
  <2>1. fetch' = Idle /\ coalesce' = FALSE /\ shown' = Blank /\ UNCHANGED snaps
    BY <1>4 DEF Select, Cancelled
  <2>2. TypeOK'
    BY <1>1, <1>3, <2>1, BlankTyped DEF TypeOK
  <2>3. shown'.thread = sel' /\ shown'.length >= heard'
    BY <1>1, <1>4, <2>1 DEF Blank
  <2>4. StrayInv' /\ ChatOfSelected'
    BY <1>1, <1>4, <2>1, <2>3 DEF StrayInv, ChatOfSelected, Idle
  <2>5. HeardInv'
    BY <1>1, <1>3, <1>4, <2>3 DEF HeardInv, InView
  <2>6. SnapsInv'
    BY <1>1, <2>1 DEF SnapsInv
  <2> QED BY <1>2, <2>2, <2>4, <2>5, <2>6
<1>5. CASE k # NoThread
  <2> DEFINE f == [thread |-> k, background |-> FALSE, answer |-> Unanswered]
             s == [thread |-> k, answer |-> Unread]
  <2>1. /\ k \in Threads /\ fetch' = f /\ coalesce' = FALSE /\ UNCHANGED shown
        /\ snaps' = snaps \cup {s}
    BY <1>5 DEF Select, Load, Ask, Keys
  <2>2. f \in Fetches /\ s \in Snaps
    BY <2>1 DEF Fetches, Snaps
  <2>3. f # Idle /\ f.background = FALSE
    BY <1>5 DEF Idle
  <2>4. TypeOK'
    BY <1>1, <1>3, <2>1, <2>2 DEF TypeOK
  <2>5. StrayInv' /\ ChatOfSelected'
    BY <1>1, <2>1, <2>3 DEF StrayInv, ChatOfSelected
  <2>6. UnderWay'
    BY <2>1, <2>3 DEF UnderWay, Idle
  <2>7. HeardInv'
    BY <1>1, <1>3, <1>5, <2>6 DEF HeardInv
  <2>8. SnapsInv'
    BY <1>1, <2>1 DEF SnapsInv
  <2> QED BY <1>2, <2>4, <2>5, <2>7, <2>8
<1> QED BY <1>4, <1>5

(* A load that a POST or a list is followed by: of the thread it was for.  *)
LEMMA LateHolds ==
  ASSUME IInv, Stop \/ \E t \in late : LateLoad(t)
  PROVE  IInv'
<1> USE DEF IInv, HistoryInv
<1>1. ASSUME Stop PROVE IInv'
  <2>1. /\ sel \in Threads /\ late' = late \cup {sel}
        /\ UNCHANGED <<open, of, length, sel, wire, again, fetch, coalesce, shown, heard, strayed,
                       snaps, cards, outdated, resolving, failed, faults>>
    BY <1>1 DEF Stop, LoadLater, server, TypeOK, Keys
  <2>2. TypeOK' /\ WireInv' /\ CardsInv' /\ SnapsInv'
    BY <2>1 DEF TypeOK, WireInv, CardsInv, SnapsInv, OnWire
  <2>3. length' \in [Threads -> Lengths] /\ (sel \in Threads => length[sel] <= length'[sel])
    BY <2>1 DEF TypeOK, Lengths
  <2> QED BY <2>1, <2>2, <2>3, HistoryKept
<1>2. ASSUME NEW t \in late, LateLoad(t) PROVE IInv'
  <2>1. /\ t \in Threads /\ Load(t, TRUE) /\ late' = late \ {t}
        /\ strayed' = (strayed \/ fetch'.thread \notin {sel, NoThread})
        /\ UNCHANGED <<open, of, length, sel, wire, again, shown, heard,
                       snaps, cards, outdated, resolving, failed, faults>>
    BY <1>2 DEF LateLoad, server, gates, TypeOK
  <2>2. /\ fetch' \in Fetches /\ coalesce' \in BOOLEAN /\ fetch' # Idle
        /\ \/ fetch # Idle /\ UNCHANGED fetch /\ coalesce' = TRUE
           \/ fetch' = [thread |-> t, background |-> TRUE, answer |-> Unanswered]
    BY <2>1, LoadTyped
  <2>3. TypeOK'
    <3>1. strayed' \in BOOLEAN
      BY <2>1 DEF TypeOK
    <3> QED BY <2>1, <2>2, <3>1 DEF TypeOK
  <2>4. WireInv' /\ CardsInv' /\ SnapsInv'
    BY <2>1 DEF WireInv, CardsInv, SnapsInv, OnWire
  <2>5. StrayInv'
    BY <2>1 DEF StrayInv
  <2>6. ChatOfSelected'
    <3>1. CASE fetch # Idle
      <4>1. UNCHANGED fetch
        BY <2>1, <3>1 DEF Load
      <4> QED BY <2>1, <4>1 DEF ChatOfSelected
    <3>2. CASE fetch = Idle
      BY <2>1, <3>2 DEF ChatOfSelected, Idle
    <3> QED BY <3>1, <3>2
  <2>7. UnderWay'
    BY <2>2 DEF UnderWay
  <2>8. HeardInv'
    BY <2>1, <2>7 DEF HeardInv
  <2> QED BY <2>3, <2>4, <2>5, <2>6, <2>8
<1> QED BY <1>1, <1>2

LEMMA SocketHolds ==
  ASSUME IInv, Connect \/ Drop
  PROVE  IInv'
<1> USE DEF IInv
<1>0. length \in [Threads -> Lengths] /\ \A t \in Threads : length[t] <= length[t]
  BY DEF TypeOK, Lengths
<1>1. ASSUME Connect PROVE IInv'
  <2>1. /\ sel \in Threads /\ wire = Down /\ wire' = <<<<"open">>>>
        /\ UNCHANGED <<open, of, length, sel, again, fetch, coalesce, shown, late, heard, strayed,
                       snaps, cards, outdated, resolving, failed, faults>>
    BY <1>1 DEF Connect, server, history, gates, TypeOK, Keys
  <2>2. wire' \in Seq(Events) /\ DOMAIN wire' = {1} /\ wire'[1] = <<"open">>
    BY <2>1 DEF Events
  <2>3. /\ \A g : ~OnWire(<<"gate.opened", g>>)'
        /\ \A n : ~OnWire(<<"history", n>>)' /\ ~OnWire(<<"settled", n>>)'
    BY <2>2 DEF OnWire
  <2>4. TypeOK' /\ WireInv' /\ CardsInv' /\ SnapsInv'
    BY <2>1, <2>2, <2>3 DEF TypeOK, WireInv, CardsInv, SnapsInv
  <2> QED BY <1>0, <2>1, <2>4, HistoryKept
<1>2. ASSUME Drop PROVE IInv'
  <2>1. /\ faults < MaxFaults /\ faults' = faults + 1 /\ wire' = Down /\ again' = TRUE
        /\ UNCHANGED <<open, of, length, sel, fetch, coalesce, shown, late, heard, strayed,
                       snaps, cards, outdated, resolving, failed>>
    BY <1>2 DEF Drop, server, history, gates
  <2>2. TypeOK'
    BY <2>1, ViewAssumption DEF TypeOK
  <2>3. WireInv' /\ CardsInv' /\ SnapsInv'
    BY <2>1 DEF WireInv, CardsInv, SnapsInv, OnWire
  <2> QED BY <1>0, <2>1, <2>2, <2>3, HistoryKept
<1> QED BY <1>1, <1>2

LEMMA EventHolds ==
  ASSUME IInv, NEW e, Arrives(e),
         \/ e = <<"open">> /\ Opened
         \/ \E n \in Lengths : \/ e = <<"history", n>> /\ HistoryEvent(n)
                               \/ e = <<"settled", n>> /\ SettledEvent(n)
         \/ \E g \in Gates : /\ GateEvent(g)
                             /\ \/ e = <<"gate.opened", g>> /\ cards' = cards \cup {g}
                                \/ e = <<"gate.resolved", g>> /\ cards' = cards \ {g}
  PROVE  IInv'
<1> USE DEF IInv
<1>2. /\ sel \in Threads /\ wire' \in Seq(Events) /\ wire # Down /\ wire' # Down
      /\ OnWire(e)
      /\ \A x : OnWire(x)' => OnWire(x)
  BY Arrived DEF WireInv
<1>3. UNCHANGED <<open, of, length, sel, shown, strayed, outdated, resolving, failed, faults>>
  BY DEF Opened, HistoryEvent, SettledEvent, GateEvent, server, history, gates
<1>4. WireInv'
  BY <1>2, <1>3 DEF WireInv
<1>5. CardsInv' /\ cards' \subseteq Gates
  <2>1. CASE cards' \subseteq cards
    BY <1>3, <2>1 DEF CardsInv, TypeOK
  <2>2. CASE \E g \in Gates : e = <<"gate.opened", g>> /\ cards' = cards \cup {g}
    BY <1>2, <1>3, <2>2, ViewAssumption DEF WireInv, CardsInv, TypeOK
  <2> QED BY <2>1, <2>2 DEF Opened, HistoryEvent, SettledEvent, gates
<1>6. again' \in BOOLEAN /\ snaps' \subseteq Snaps /\ SnapsInv' /\ late' \subseteq Threads
  <2>1. CASE Opened
    <3> DEFINE s == [thread |-> sel, answer |-> Unread]
    <3>1. again' = FALSE /\ snaps' = snaps \cup {s} /\ (late' = late \/ late' = late \cup {sel})
      BY <2>1 DEF Opened, RefreshOnResync, Ask, LoadLater
    <3>2. s \in Snaps
      BY <1>2 DEF Snaps
    <3>3. SnapsInv'
      BY <1>3, <3>1 DEF SnapsInv
    <3> QED BY <1>2, <3>1, <3>2, <3>3 DEF TypeOK
  <2>2. CASE UNCHANGED <<again, snaps, late>>
    BY <1>3, <2>2 DEF SnapsInv, TypeOK
  <2>3. Opened \/ UNCHANGED <<again, snaps, late>>
    BY DEF HistoryEvent, SettledEvent, GateEvent, gates, history
  <2> QED BY <2>1, <2>2, <2>3
<1>7. heard' \in Lengths /\ heard' <= length[sel]
  <2>1. heard \in Lengths /\ heard <= length[sel] /\ length[sel] \in Lengths
    <3>1. heard <= length[sel]
      BY <1>2 DEF HistoryInv, HeardInv
    <3> QED BY <1>2, <3>1 DEF TypeOK
  <2>2. CASE \E n \in Lengths : heard' = Max({heard, n}) /\ e \in {<<"history", n>>, <<"settled", n>>}
    <3>1. PICK n \in Lengths : heard' = Max({heard, n}) /\ e \in {<<"history", n>>, <<"settled", n>>}
      BY <2>2
    <3>4. OnWire(<<"history", n>>) \/ OnWire(<<"settled", n>>)
      BY <1>2, <3>1
    <3>2. n <= length[sel] /\ heard \in Int /\ n \in Int
      BY <1>2, <2>1, <3>1, <3>4 DEF WireInv, Lengths
    <3>3. heard' = IF heard >= n THEN heard ELSE n
      BY <3>1, <3>2, MaxOfTwo
    <3> QED BY <2>1, <3>1, <3>2, <3>3
  <2>3. CASE heard' = heard
    BY <2>1, <2>3
  <2>4. CASE heard' = length[sel]
    BY <2>1, <2>4 DEF Lengths
  <2> QED BY <2>2, <2>3, <2>4 DEF Opened, HistoryEvent, SettledEvent, GateEvent, history
<1>8. CASE Load(sel, TRUE)
  <2>1. TypeOK'
    BY <1>2, <1>3, <1>5, <1>6, <1>7, <1>8, LoadTyped DEF TypeOK
  <2>2. HistoryInv'
    BY <1>2, <1>3, <1>7, <1>8, LoadHolds
  <2> QED BY <1>4, <1>5, <1>6, <2>1, <2>2
<1>9. CASE ~Load(sel, TRUE)
  <2>1. UNCHANGED <<fetch, coalesce, heard>>
    BY <1>9 DEF Opened, HistoryEvent, SettledEvent, GateEvent, RefetchOnResync, history
  <2>2. TypeOK'
    BY <1>2, <1>3, <1>5, <1>6, <2>1 DEF TypeOK
  <2>3. length' \in [Threads -> Lengths] /\ (sel \in Threads => length[sel] <= length'[sel])
    BY <1>3 DEF TypeOK, Lengths
  <2>4. HistoryInv'
    BY <1>3, <2>1, <2>3, HistoryKept
  <2> QED BY <1>4, <1>5, <1>6, <2>2, <2>4
<1> QED BY <1>8, <1>9

-----------------------------------------------------------------------------
(***************************************************************************)
(* The invariant, and what follows from it.                                *)
(***************************************************************************)

LEMMA StepHolds == IInv /\ [Next]_vars => IInv'
<1> SUFFICES ASSUME IInv, [Next]_vars PROVE IInv'
  OBVIOUS
<1>1. CASE Server
  BY <1>1, GateHolds, GrowthHolds DEF Server
<1>2. CASE User
  BY <1>2, SelectHolds, CardsHold, LateHolds DEF User
<1>3. CASE Connect
  BY <1>3, SocketHolds
<1>4. CASE Opened
  BY <1>4, EventHolds DEF Opened
<1>5. ASSUME NEW n \in Lengths, HistoryEvent(n) PROVE IInv'
  BY <1>5, EventHolds DEF HistoryEvent
<1>6. ASSUME NEW n \in Lengths, SettledEvent(n) PROVE IInv'
  BY <1>6, EventHolds DEF SettledEvent
<1>7. ASSUME NEW g \in Gates, GateEvent(g) PROVE IInv'
  BY <1>7, EventHolds DEF GateEvent
<1>8. CASE HistoryReads \/ GateReads \/ Posts
  BY <1>8, HistoryHolds, LateHolds, CardsHold, DecidedHolds DEF HistoryReads, GateReads, Posts
<1>9. CASE Faults
  BY <1>9, SocketHolds, HistoryHolds, CardsHold DEF Faults
<1>10. CASE UNCHANGED vars
  <2>1. UNCHANGED <<open, of, length, sel, wire, again, fetch, coalesce, shown, late, heard, strayed,
                    snaps, cards, outdated, resolving, failed, faults>>
    BY <1>10 DEF vars, server, history, gates
  <2> QED BY <2>1 DEF IInv, TypeOK, WireInv, OnWire, CardsInv, SnapsInv, HistoryInv, StrayInv,
             ChatOfSelected, HeardInv, InView, UnderWay, Excused
<1> QED BY <1>1, <1>2, <1>3, <1>4, <1>5, <1>6, <1>7, <1>8, <1>9, <1>10 DEF Next, Stream

THEOREM Invariant == Spec => []IInv
BY InitHolds, StepHolds, PTL DEF Spec

(* The state of the server and of the client has the shape TypeOK gives it.*)
THEOREM TypeCorrect == Spec => []TypeOK
<1>1. IInv => TypeOK
  BY DEF IInv
<1> QED BY <1>1, Invariant, PTL

(* No card of another thread is shown (threadIdRef in useThreadGate).      *)
THEOREM OwnCards == Spec => []CardsOfSelected
<1>1. IInv => CardsOfSelected
  BY DEF IInv, CardsInv, CardsOfSelected
<1> QED BY <1>1, Invariant, PTL

(* A load that went through left the chat of the selected thread, unless a *)
(* load asked for by an earlier selection began after the selection.       *)
THEOREM OwnChat == Spec => []ChatOfSelected
<1>1. IInv => ChatOfSelected
  BY DEF IInv, HistoryInv
<1> QED BY <1>1, Invariant, PTL

(* Loads that coalesce, are aborted or are overtaken by a drop lose nothing*)
(* that the client was told of (HistoryRefetchGate, resyncThread).         *)
THEOREM NothingMissed == Spec => []NothingHeardIsMissed
<1>1. IInv => NothingHeardIsMissed
  BY DEF IInv, HistoryInv, HeardInv, InView, UnderWay, Excused, NothingHeardIsMissed
<1> QED BY <1>1, Invariant, PTL

-----------------------------------------------------------------------------
(***************************************************************************)
(* The cards.  The last event on its way that concerns a gate tells whether*)
(* it is open; with no such event on its way the card tells it, unless the *)
(* gates are yet to be read.                                               *)
(***************************************************************************)

Affects(e, g) == e = <<"gate.opened", g>> \/ e = <<"gate.resolved", g>> \/ \E n : e = <<"settled", n>>

Fresh(s, g) == \A n \in DOMAIN s : ~Affects(s[n], g)

LastIs(s, g, e) ==
  \E n \in DOMAIN s : /\ s[n] = e /\ Affects(e, g)
                      /\ \A m \in DOMAIN s : m > n => ~Affects(s[m], g)

OpenHere(g) == g \in open /\ of[g] = sel

(* The gates of the selected thread will be read, or could not be read, or *)
(* the list was no longer so when it came.                                 *)
YetToRead ==
  \/ sel = NoThread \/ wire = Down \/ OnWire(<<"open">>)
  \/ \E s \in snaps : s.thread = sel
  \/ "gates" \in failed \/ outdated

WireTells(g) ==
  wire # Down => \A e \in Events : LastIs(wire, g, e) => (e = <<"gate.opened", g>> <=> OpenHere(g))

CardTells(g) == ~YetToRead /\ Fresh(wire, g) => (g \in cards <=> OpenHere(g))

(* An open gate has a thread, and a decision that was taken closed its gate*)
(* for good.                                                               *)
GateOwned(g) ==
  /\ g \in open => of[g] \in Threads
  /\ resolving # Undecided /\ resolving.gate = g =>
       of[g] \in Threads /\ (resolving.status = "done" => g \notin open)

GateInv == \A g \in Gates : WireTells(g) /\ CardTells(g) /\ GateOwned(g)

LEMMA EventKinds ==
  ASSUME NEW g
  PROVE  /\ ~Affects(<<"open">>, g) /\ \A n : ~Affects(<<"history", n>>, g) /\ Affects(<<"settled", n>>, g)
         /\ \A h : /\ Affects(<<"gate.opened", h>>, g) <=> h = g
                  /\ Affects(<<"gate.resolved", h>>, g) <=> h = g
         /\ \A n : <<"settled", n>> # <<"gate.opened", g>>
         /\ \A h : <<"gate.resolved", h>> # <<"gate.opened", g>>
BY DEF Affects

(* What an event that is sent, or arrives, changes of what is on its way.  *)
LEMMA AppendTells ==
  ASSUME NEW s \in Seq(Events), NEW e \in Events, NEW g
  PROVE  /\ Affects(e, g) => ~Fresh(Append(s, e), g)
                             /\ \A x : LastIs(Append(s, e), g, x) => x = e
         /\ ~Affects(e, g) => /\ Fresh(Append(s, e), g) <=> Fresh(s, g)
                              /\ \A x : LastIs(Append(s, e), g, x) => LastIs(s, g, x)
<1> DEFINE w == Append(s, e)
<1>1. /\ Len(s) \in Nat /\ DOMAIN s = 1..Len(s) /\ DOMAIN w = 1..(Len(s) + 1)
      /\ \A n \in 1..Len(s) : w[n] = s[n]
      /\ w[Len(s) + 1] = e
  OBVIOUS
<1> HIDE DEF w
<1>2. CASE Affects(e, g)
  <2>1. ~Fresh(w, g)
    BY <1>1, <1>2 DEF Fresh
  <2>2. ASSUME NEW x, LastIs(w, g, x) PROVE x = e
    <3>1. PICK n \in DOMAIN w : w[n] = x /\ \A m \in DOMAIN w : m > n => ~Affects(w[m], g)
      BY <2>2 DEF LastIs
    <3>2. ~(Len(s) + 1 > n)
      BY <1>1, <1>2, <3>1
    <3>3. n = Len(s) + 1
      BY <1>1, <3>2
    <3> QED BY <1>1, <3>1, <3>3
  <2> QED BY <1>2, <2>1, <2>2 DEF w
<1>3. CASE ~Affects(e, g)
  <2>1. Fresh(w, g) <=> Fresh(s, g)
    BY <1>1, <1>3 DEF Fresh
  <2>2. ASSUME NEW x, LastIs(w, g, x) PROVE LastIs(s, g, x)
    <3>1. PICK n \in DOMAIN w : w[n] = x /\ Affects(x, g)
                                /\ \A m \in DOMAIN w : m > n => ~Affects(w[m], g)
      BY <2>2 DEF LastIs
    <3>2. n \in DOMAIN s
      BY <1>1, <1>3, <3>1
    <3>3. \A m \in DOMAIN s : m > n => ~Affects(s[m], g)
      BY <1>1, <3>1
    <3> QED BY <1>1, <3>1, <3>2, <3>3 DEF LastIs
  <2> QED BY <1>3, <2>1, <2>2 DEF w
<1> QED BY <1>2, <1>3

LEMMA TailTells ==
  ASSUME NEW s \in Seq(Events), s # <<>>, NEW g
  PROVE  /\ \A x : LastIs(Tail(s), g, x) => LastIs(s, g, x)
         /\ Fresh(Tail(s), g) /\ Affects(Head(s), g) => LastIs(s, g, Head(s))
         /\ Fresh(Tail(s), g) /\ ~Affects(Head(s), g) => Fresh(s, g)
<1> DEFINE w == Tail(s)
           h == Head(s)
<1>1. /\ Len(s) \in Nat \ {0} /\ DOMAIN s = 1..Len(s) /\ DOMAIN w = 1..(Len(s) - 1)
      /\ \A n \in 1..(Len(s) - 1) : w[n] = s[n + 1]
      /\ s[1] = h
  OBVIOUS
<1> HIDE DEF w, h
<1>2. \A m \in DOMAIN s : m = 1 \/ (m - 1 \in DOMAIN w /\ w[m - 1] = s[m])
  <2> SUFFICES ASSUME NEW m \in DOMAIN s, m # 1 PROVE m - 1 \in DOMAIN w /\ w[m - 1] = s[m]
    OBVIOUS
  <2>1. m - 1 \in 1..(Len(s) - 1) /\ (m - 1) + 1 = m
    BY <1>1
  <2> QED BY <1>1, <2>1
<1>3. ASSUME NEW x, LastIs(w, g, x) PROVE LastIs(s, g, x)
  <2>1. PICK n \in DOMAIN w : w[n] = x /\ Affects(x, g)
                              /\ \A m \in DOMAIN w : m > n => ~Affects(w[m], g)
    BY <1>3 DEF LastIs
  <2>2. n + 1 \in DOMAIN s /\ s[n + 1] = x
    BY <1>1, <2>1
  <2>3. ASSUME NEW m \in DOMAIN s, m > n + 1 PROVE ~Affects(s[m], g)
    <3>1. m # 1 /\ m - 1 > n
      BY <1>1, <2>3
    <3> QED BY <1>2, <2>1, <3>1
  <2> QED BY <2>1, <2>2, <2>3 DEF LastIs
<1>4. ASSUME Fresh(w, g), Affects(h, g) PROVE LastIs(s, g, h)
  <2>1. 1 \in DOMAIN s /\ \A m \in DOMAIN s : m > 1 => ~Affects(s[m], g)
    BY <1>1, <1>2, <1>4 DEF Fresh
  <2> QED BY <1>1, <1>4, <2>1 DEF LastIs
<1>5. ASSUME Fresh(w, g), ~Affects(h, g) PROVE Fresh(s, g)
  BY <1>1, <1>2, <1>5 DEF Fresh
<1> QED BY <1>3, <1>4, <1>5 DEF w, h

(* An event that goes out keeps, for each gate, what the wire and the card *)
(* tell: either it does not concern the gate, which stays as it is, or it  *)
(* tells what became of it.                                                *)
LEMMA EmitTells ==
  ASSUME IInv, NEW t \in Threads, NEW e \in Events, Emit(t, e), NEW g \in Gates,
         WireTells(g), CardTells(g), UNCHANGED <<sel, snaps, cards, outdated, failed>>,
         e # <<"open">>,
         ~(Affects(e, g) /\ Subscribed(t)) => wire = Down \/ (OpenHere(g)' <=> OpenHere(g)),
         Affects(e, g) /\ Subscribed(t) => (e = <<"gate.opened", g>> <=> OpenHere(g)')
  PROVE  WireTells(g)' /\ CardTells(g)'
<1> USE DEF IInv
<1>1. CASE ~Subscribed(t)
  <2>1. wire' = wire
    BY <1>1 DEF Emit
  <2>2. CASE wire = Down
    BY <2>1, <2>2 DEF WireTells, CardTells, YetToRead
  <2>3. CASE OpenHere(g)' <=> OpenHere(g)
    BY <2>1, <2>3 DEF WireTells, CardTells, YetToRead, OnWire, Fresh, LastIs
  <2> QED BY <1>1, <2>2, <2>3
<1>2. CASE Subscribed(t)
  <2>1. wire' = Append(wire, e) /\ wire \in Seq(Events) /\ wire # Down
    BY <1>2 DEF Emit, Subscribed, TypeOK
  <2>2. YetToRead => YetToRead'
    BY <2>1, Emitted DEF YetToRead
  <2>3. CASE Affects(e, g)
    <3>1. ~Fresh(wire', g) /\ \A x : LastIs(wire', g, x) => x = e
      BY <2>1, <2>3, AppendTells
    <3> QED BY <1>2, <2>3, <3>1 DEF WireTells, CardTells, Fresh, LastIs
  <2>4. CASE ~Affects(e, g)
    <3>1. /\ Fresh(wire', g) <=> Fresh(wire, g)
          /\ \A x : LastIs(wire', g, x) => LastIs(wire, g, x)
      BY <2>1, <2>4, AppendTells
    <3>2. Fresh(wire, g)' = Fresh(wire', g) /\ \A x : LastIs(wire, g, x)' = LastIs(wire', g, x)
      BY DEF Fresh, LastIs, Affects
    <3>3. OpenHere(g)' <=> OpenHere(g)
      BY <1>2, <2>1, <2>4
    <3> QED BY <2>1, <2>2, <3>1, <3>2, <3>3 DEF WireTells, CardTells
  <2> QED BY <2>3, <2>4
<1> QED BY <1>1, <1>2

(* An event that arrives, for a gate it does not concern.                  *)
LEMMA ArriveTells ==
  ASSUME IInv, NEW e, Arrives(e), NEW g \in Gates, WireTells(g), UNCHANGED <<open, of, sel>>
  PROVE  /\ WireTells(g)'
         /\ Fresh(wire, g)' /\ ~Affects(e, g) => Fresh(wire, g)
         /\ e \in Events /\ Fresh(wire, g)' /\ Affects(e, g) => (e = <<"gate.opened", g>> <=> OpenHere(g))
<1> USE DEF IInv
<1>1. wire \in Seq(Events) /\ wire # <<>> /\ Head(wire) = e /\ wire' = Tail(wire) /\ wire # Down
  BY DEF Arrives, TypeOK
<1>2. /\ \A x : LastIs(wire', g, x) => LastIs(wire, g, x)
      /\ Fresh(wire', g) /\ Affects(e, g) => LastIs(wire, g, e)
      /\ Fresh(wire', g) /\ ~Affects(e, g) => Fresh(wire, g)
  BY <1>1, TailTells
<1>3. Fresh(wire, g)' = Fresh(wire', g) /\ \A x : LastIs(wire, g, x)' = LastIs(wire', g, x)
  BY DEF Fresh, LastIs, Affects
<1>4. OpenHere(g)' <=> OpenHere(g)
  BY DEF OpenHere
<1> QED BY <1>1, <1>2, <1>3, <1>4 DEF WireTells

(* Steps that leave the gates and the wire alone.                          *)
LEMMA GateKept ==
  ASSUME GateInv, UNCHANGED <<open, of, sel, wire, cards, outdated, resolving>>,
         "gates" \in failed => "gates" \in failed',
         (\E s \in snaps : s.thread = sel) => \E s \in snaps' : s.thread = sel
  PROVE  GateInv'
BY DEF GateInv, WireTells, CardTells, GateOwned, OpenHere, YetToRead, OnWire, Fresh, LastIs

LEMMA InitGates == Init => GateInv
BY DEF Init, GateInv, WireTells, CardTells, GateOwned, YetToRead

(* The server: gates that open and close, histories that grow.             *)
LEMMA ServerGates == IInv /\ GateInv /\ Server => GateInv'
<1> SUFFICES ASSUME IInv, GateInv, Server, NEW g \in Gates
             PROVE  WireTells(g)' /\ CardTells(g)' /\ GateOwned(g)'
  BY DEF GateInv
<1> USE ViewAssumption
<1>a. TypeOK /\ WireInv /\ WireTells(g) /\ CardTells(g) /\ GateOwned(g)
  BY DEF IInv, GateInv
<1>1. ASSUME NEW t \in Threads, NEW h \in Gates, GateOpens(t, h)
      PROVE  WireTells(g)' /\ CardTells(g)' /\ GateOwned(g)'
  <2> DEFINE e == <<"gate.opened", h>>
  <2>1. /\ of[h] = NoThread /\ of' = [of EXCEPT ![h] = t] /\ open' = open \cup {h}
        /\ Emit(t, e) /\ UNCHANGED <<sel, snaps, cards, outdated, failed, resolving>>
    BY <1>1 DEF GateOpens, gates
  <2>2. e \in Events /\ e # <<"open">>
    BY DEF Events
  <2>3. Affects(e, g) <=> g = h
    BY DEF Affects
  <2>4. CASE g # h
    <3>1. (OpenHere(g)' <=> OpenHere(g)) /\ GateOwned(g)'
      BY <1>a, <2>1, <2>4 DEF TypeOK, OpenHere, GateOwned
    <3> QED BY <1>a, <2>1, <2>2, <2>3, <2>4, <3>1, EmitTells
  <2>5. CASE g = h
    <3>1. of'[g] = t /\ g \in open'
      BY <2>1, <2>5, <1>a DEF TypeOK
    <3>2. OpenHere(g)' <=> t = sel
      BY <2>1, <3>1 DEF OpenHere
    <3>3. ~OpenHere(g) /\ ~(resolving # Undecided /\ resolving.gate = g)
      BY <1>a, <2>1, <2>5 DEF OpenHere, GateOwned
    <3>4. GateOwned(g)'
      BY <2>1, <3>1, <3>3 DEF GateOwned
    <3>5. ~(Affects(e, g) /\ Subscribed(t)) => wire = Down \/ (OpenHere(g)' <=> OpenHere(g))
      BY <2>3, <2>5, <3>2, <3>3 DEF Subscribed
    <3>6. Affects(e, g) /\ Subscribed(t) => (e = <<"gate.opened", g>> <=> OpenHere(g)')
      BY <2>5, <3>2 DEF Subscribed
    <3> QED BY <1>a, <2>1, <2>2, <3>4, <3>5, <3>6, EmitTells
  <2> QED BY <2>4, <2>5
<1>2. ASSUME NEW h \in Gates, GateCloses(h)
      PROVE  WireTells(g)' /\ CardTells(g)' /\ GateOwned(g)'
  <2> DEFINE e == <<"gate.resolved", h>>
  <2>1. /\ h \in open /\ open' = open \ {h} /\ Emit(of[h], e)
        /\ UNCHANGED <<of, sel, snaps, cards, outdated, failed, resolving>>
    BY <1>2 DEF GateCloses, gates
  <2>2. e \in Events /\ e # <<"open">> /\ e # <<"gate.opened", g>>
    BY EventKinds DEF Events
  <2>3. (Affects(e, g) <=> g = h) /\ of[h] \in Threads
    <3>1. GateOwned(h)
      BY DEF GateInv
    <3> QED BY <2>1, <3>1 DEF GateOwned, Affects
  <2>4. GateOwned(g)'
    BY <1>a, <2>1 DEF GateOwned
  <2>5. ~(Affects(e, g) /\ Subscribed(of[h])) => wire = Down \/ (OpenHere(g)' <=> OpenHere(g))
    BY <2>1, <2>3 DEF OpenHere, Subscribed
  <2>6. Affects(e, g) /\ Subscribed(of[h]) => (e = <<"gate.opened", g>> <=> OpenHere(g)')
    BY <2>1, <2>2, <2>3 DEF OpenHere
  <2> QED BY <1>a, <2>1, <2>2, <2>3, <2>4, <2>5, <2>6, EmitTells
<1>3. ASSUME NEW t \in Threads, HistoryGrows(t)
      PROVE  WireTells(g)' /\ CardTells(g)' /\ GateOwned(g)'
  <2> DEFINE e == <<"history", length[t] + 1>>
  <2>1. /\ Emit(t, e) \/ UNCHANGED wire
        /\ UNCHANGED <<open, of, sel, snaps, cards, outdated, failed, resolving>>
    BY <1>3 DEF HistoryGrows, gates
  <2>2. e \in Events /\ e # <<"open">> /\ ~Affects(e, g)
    <3>1. length[t] + 1 \in Lengths
      BY <1>3, <1>a DEF HistoryGrows, TypeOK, Lengths
    <3> QED BY <3>1, EventKinds DEF Events
  <2>3. (OpenHere(g)' <=> OpenHere(g)) /\ GateOwned(g)'
    BY <1>a, <2>1 DEF OpenHere, GateOwned
  <2> HIDE DEF e
  <2>4. CASE UNCHANGED wire
    BY <1>a, <2>1, <2>3, <2>4 DEF WireTells, CardTells, YetToRead, OnWire, Fresh, LastIs
  <2> QED BY <1>a, <2>1, <2>2, <2>3, <2>4, EmitTells
<1>4. ASSUME NEW t \in Threads, TurnSettles(t)
      PROVE  WireTells(g)' /\ CardTells(g)' /\ GateOwned(g)'
  <2> DEFINE e == <<"settled", length[t] + 1>>
  <2>1. /\ open' = {h \in open : of[h] # t} /\ Emit(t, e)
        /\ UNCHANGED <<of, sel, snaps, cards, outdated, failed, resolving>>
    BY <1>4 DEF TurnSettles, gates
  <2>2. e \in Events /\ e # <<"open">> /\ Affects(e, g) /\ e # <<"gate.opened", g>>
    <3>1. length[t] + 1 \in Lengths
      BY <1>4, <1>a DEF TurnSettles, TypeOK, Lengths
    <3> QED BY <3>1, EventKinds DEF Events
  <2>3. GateOwned(g)'
    BY <1>a, <2>1 DEF GateOwned
  <2>4. Subscribed(t) => ~OpenHere(g)'
    BY <2>1 DEF OpenHere, Subscribed
  <2>5. ~Subscribed(t) => wire = Down \/ (OpenHere(g)' <=> OpenHere(g))
    BY <2>1 DEF OpenHere, Subscribed
  <2> HIDE DEF e
  <2> QED BY <1>a, <2>1, <2>2, <2>3, <2>4, <2>5, EmitTells
<1> QED BY <1>1, <1>2, <1>3, <1>4 DEF Server

(* The reads and the decisions.                                            *)
LEMMA ReadGates ==
  ASSUME IInv, GateInv, HistoryReads \/ GateReads \/ Posts \/ Faults
  PROVE  GateInv'
<1> USE ViewAssumption
<1>1. CASE HistoryReads \/ HistoryFails
  <2>1. /\ UNCHANGED <<open, of, sel, wire, snaps, cards, outdated, resolving>>
        /\ "gates" \in failed => "gates" \in failed'
    BY <1>1 DEF HistoryReads, HistoryRead, HistoryLoaded, HistoryFails, LateLoad, server, gates
  <2> QED BY <2>1, GateKept
<1>2. ASSUME NEW s \in snaps, Snapshot(s) PROVE GateInv'
  <2> DEFINE r == [s EXCEPT !.answer = OpenGates(s.thread)]
  <2>1. /\ UNCHANGED <<open, of, sel, wire, cards, outdated, failed, resolving>>
        /\ snaps' = (snaps \ {s}) \cup {r}
    BY <1>2 DEF Snapshot, server
  <2>2. s \in Snaps
    BY DEF IInv, TypeOK
  <2>3. r.thread = s.thread
    BY <2>2 DEF Snaps
  <2> HIDE DEF r
  <2>4. (\E q \in snaps : q.thread = sel) => \E q \in snaps' : q.thread = sel
    BY <2>1, <2>3
  <2> QED BY <2>1, <2>4, GateKept
<1>7. ASSUME NEW s \in snaps, SnapshotAnswered(s) PROVE GateInv'
  <2>1. UNCHANGED <<open, of, sel, wire, resolving>> /\ snaps' = snaps \ {s}
    BY <1>7 DEF SnapshotAnswered, server
  <2>2. CASE ~OfSelected(s)
    <3>1. UNCHANGED <<cards, outdated, failed>> /\ s.thread # sel
      BY <1>7, <2>2 DEF SnapshotAnswered, OfSelected
    <3> QED BY <2>1, <3>1, GateKept
  <2>3. CASE OfSelected(s)
    <3>1. cards' = s.answer /\ outdated' = (s.answer # OpenGates(sel))
      BY <1>7, <2>3 DEF SnapshotAnswered
    <3>2. CASE outdated'
      BY <2>1, <3>2 DEF GateInv, WireTells, CardTells, GateOwned, YetToRead, OpenHere, LastIs
    <3>3. CASE ~outdated'
      <4>1. \A g \in Gates : g \in cards' <=> OpenHere(g)'
        BY <2>1, <3>1, <3>3 DEF OpenGates, OpenHere
      <4> QED BY <2>1, <4>1 DEF GateInv, WireTells, CardTells, GateOwned, OpenHere, LastIs
    <3> QED BY <3>2, <3>3
  <2> QED BY <2>2, <2>3
<1>3. ASSUME NEW s \in snaps, SnapshotFails(s) PROVE GateInv'
  BY <1>3 DEF SnapshotFails, server, GateInv, WireTells, CardTells, GateOwned, OpenHere, YetToRead, LastIs
<1>4. CASE ResolveAnswered
  <2>1. UNCHANGED <<open, of, sel, wire, snaps, outdated, failed>> /\ resolving' = Undecided
    BY <1>4 DEF ResolveAnswered, server
  <2>2. ASSUME NEW g \in Gates, g \in cards' <=> g \notin cards PROVE ~OpenHere(g) /\ g \notin cards'
    BY <1>4, <2>2 DEF ResolveAnswered, GateInv, GateOwned, OpenHere
  <2> QED BY <2>1, <2>2 DEF GateInv, WireTells, CardTells, GateOwned, OpenHere, YetToRead, OnWire,
          Fresh, LastIs
<1>5. ASSUME Decided, NEW g \in Gates
      PROVE  WireTells(g)' /\ CardTells(g)' /\ GateOwned(g)'
  <2> DEFINE h == resolving.gate
             e == <<"gate.resolved", h>>
  <2>a. TypeOK /\ WireTells(g) /\ CardTells(g) /\ GateOwned(g)
    BY DEF IInv, GateInv
  <2>1. /\ resolving # Undecided /\ h \in Gates /\ resolving.status = "sent"
        /\ UNCHANGED <<of, sel, snaps, cards, outdated, failed>>
    BY <1>5, <2>a DEF Decided, TypeOK, gates
  <2>2. of[h] \in Threads
    BY <2>1 DEF GateInv, GateOwned
  <2>3. CASE h \notin open
    <3>1. UNCHANGED <<open, wire>> /\ resolving' = [resolving EXCEPT !.status = "refused"]
      BY <1>5, <2>3 DEF Decided
    <3>2. resolving'.gate = h /\ resolving'.status = "refused"
      BY <2>1, <2>a, <3>1 DEF TypeOK
    <3> QED BY <2>a, <2>1, <2>2, <3>1, <3>2 DEF WireTells, CardTells, GateOwned, OpenHere, YetToRead, OnWire,
            Fresh, LastIs
  <2>4. CASE h \in open
    <3>1. /\ open' = open \ {h} /\ Emit(of[h], e)
          /\ resolving' = [resolving EXCEPT !.status = "done"]
      BY <1>5, <2>4 DEF Decided
    <3>2. resolving'.gate = h
      BY <2>1, <2>a, <3>1 DEF TypeOK
    <3>3. GateOwned(g)'
      BY <2>a, <2>1, <2>2, <3>1, <3>2 DEF GateOwned
    <3>4. e \in Events /\ e # <<"open">> /\ e # <<"gate.opened", g>> /\ (Affects(e, g) <=> g = h)
      BY <2>1 DEF Events, Affects
    <3>5. ~(Affects(e, g) /\ Subscribed(of[h])) => wire = Down \/ (OpenHere(g)' <=> OpenHere(g))
      BY <2>1, <3>1, <3>4 DEF OpenHere, Subscribed
    <3>6. Affects(e, g) /\ Subscribed(of[h]) => (e = <<"gate.opened", g>> <=> OpenHere(g)')
      BY <2>1, <3>1, <3>4 DEF OpenHere
    <3> QED BY <2>a, <2>1, <2>2, <3>1, <3>3, <3>4, <3>5, <3>6, EmitTells
  <2> QED BY <2>3, <2>4
<1>6. CASE Drop
  BY <1>6 DEF Drop, server, gates, GateInv, WireTells, CardTells, GateOwned, YetToRead
<1> QED BY <1>1, <1>2, <1>3, <1>4, <1>5, <1>6, <1>7 DEF GateReads, Posts, Faults, GateInv

(* The user.                                                               *)
LEMMA UserGates == IInv /\ GateInv /\ User => GateInv'
<1> SUFFICES ASSUME IInv, GateInv, User PROVE GateInv'
  OBVIOUS
<1> USE ViewAssumption
<1>1. ASSUME NEW k \in Keys, Select(k) PROVE GateInv'
  BY <1>1 DEF Select, server, GateInv, WireTells, CardTells, GateOwned, YetToRead
<1>2. ASSUME NEW h \in Gates, Resolve(h) PROVE GateInv'
  <2>1. /\ UNCHANGED <<open, of, sel, wire, snaps, cards, outdated, failed>>
        /\ resolving' = [gate |-> h, status |-> "sent"] /\ h \in cards
    BY <1>2 DEF Resolve, server, gates
  <2>2. of[h] \in Threads
    BY <2>1 DEF IInv, CardsInv, TypeOK, Keys
  <2>3. resolving'.gate = h /\ resolving'.status = "sent"
    BY <2>1
  <2>4. \A g \in Gates : GateOwned(g)'
    BY <2>1, <2>2, <2>3 DEF GateInv, GateOwned
  <2> QED BY <2>1, <2>4 DEF GateInv, WireTells, CardTells, OpenHere, YetToRead, OnWire, Fresh, LastIs
<1>3. CASE SendWithoutCard \/ Stop
  <2>1. UNCHANGED <<open, of, sel, wire, cards, outdated, resolving, failed>> /\ snaps \subseteq snaps'
    BY <1>3 DEF SendWithoutCard, Stop, Ask, server, gates
  <2> QED BY <2>1, GateKept
<1> QED BY <1>1, <1>2, <1>3 DEF User

(* The socket.                                                             *)
LEMMA StreamGates == IInv /\ GateInv /\ Stream => GateInv'
<1> SUFFICES ASSUME IInv, GateInv, Stream, NEW g \in Gates
             PROVE  WireTells(g)' /\ CardTells(g)' /\ GateOwned(g)'
  BY DEF GateInv
<1>a. TypeOK /\ WireTells(g) /\ CardTells(g) /\ GateOwned(g)
  BY DEF IInv, GateInv
<1>b. UNCHANGED <<open, of, resolving>> => GateOwned(g)'
  BY <1>a DEF GateOwned
<1>1. CASE Connect
  <2>1. wire' = <<<<"open">>>> /\ UNCHANGED <<open, of, sel, snaps, cards, outdated, resolving, failed>>
    BY <1>1 DEF Connect, server, gates
  <2>2. DOMAIN wire' = {1} /\ wire'[1] = <<"open">> /\ ~Affects(<<"open">>, g)
    BY <2>1, EventKinds
  <2>3. <<<<"open">>>> # Down
    <3>1. <<"open">> # <<"closed">>
      OBVIOUS
    <3> QED BY <3>1 DEF Down
  <2>4. YetToRead'
    BY <2>1, <2>2, <2>3 DEF YetToRead, OnWire
  <2> QED BY <1>b, <2>1, <2>2, <2>4 DEF WireTells, CardTells, LastIs
<1>2. CASE Opened
  <2>1. /\ Arrives(<<"open">>) /\ UNCHANGED <<open, of, sel, cards, outdated, resolving, failed>>
        /\ snaps' = snaps \cup {[thread |-> sel, answer |-> Unread]}
    BY <1>2 DEF Opened, RefreshOnResync, Ask, server
  <2> DEFINE s == [thread |-> sel, answer |-> Unread]
  <2>2. YetToRead'
    <3>1. s \in snaps' /\ s.thread = sel'
      BY <2>1
    <3> QED BY <3>1 DEF YetToRead
  <2> QED BY <1>a, <1>b, <2>1, <2>2, ArriveTells DEF CardTells
<1>3. ASSUME NEW n \in Lengths, HistoryEvent(n) PROVE WireTells(g)' /\ CardTells(g)' /\ GateOwned(g)'
  <2>1. Arrives(<<"history", n>>) /\ UNCHANGED <<open, of, sel, snaps, cards, outdated, resolving, failed>>
    BY <1>3 DEF HistoryEvent, server, gates
  <2>2. WireTells(g)' /\ (Fresh(wire, g)' => Fresh(wire, g))
    BY <1>a, <2>1, ArriveTells, EventKinds
  <2>3. YetToRead => YetToRead'
    BY <1>a, <2>1, Arrived DEF YetToRead
  <2> QED BY <1>a, <1>b, <2>1, <2>2, <2>3 DEF CardTells, OpenHere
<1>4. ASSUME NEW n \in Lengths, SettledEvent(n) PROVE WireTells(g)' /\ CardTells(g)' /\ GateOwned(g)'
  <2>1. /\ Arrives(<<"settled", n>>) /\ cards' = {}
        /\ UNCHANGED <<open, of, sel, snaps, outdated, resolving, failed>>
    BY <1>4 DEF SettledEvent, server
  <2>2. <<"settled", n>> \in Events /\ Affects(<<"settled", n>>, g) /\ <<"settled", n>> # <<"gate.opened", g>>
    BY EventKinds DEF Events
  <2>3. WireTells(g)' /\ (Fresh(wire, g)' => ~OpenHere(g))
    BY <1>a, <2>1, <2>2, ArriveTells
  <2> QED BY <1>b, <2>1, <2>3 DEF CardTells, OpenHere
<1>5. ASSUME NEW h \in Gates, GateEvent(h) PROVE WireTells(g)' /\ CardTells(g)' /\ GateOwned(g)'
  <2>1. UNCHANGED <<open, of, sel, snaps, outdated, resolving, failed>>
    BY <1>5 DEF GateEvent, server
  <2>2. PICK e \in {<<"gate.opened", h>>, <<"gate.resolved", h>>} :
           /\ Arrives(e)
           /\ cards' = IF e = <<"gate.opened", h>> THEN cards \cup {h} ELSE cards \ {h}
    BY <1>5, EventKinds DEF GateEvent
  <2>3. e \in Events /\ e # <<"open">> /\ (Affects(e, g) <=> g = h)
    BY <2>2 DEF Events, Affects
  <2>4. /\ WireTells(g)'
        /\ Fresh(wire, g)' /\ ~Affects(e, g) => Fresh(wire, g)
        /\ Fresh(wire, g)' /\ Affects(e, g) => (e = <<"gate.opened", g>> <=> OpenHere(g))
    BY <1>a, <2>1, <2>2, <2>3, ArriveTells
  <2>5. YetToRead => YetToRead'
    BY <1>a, <2>1, <2>2, <2>3, Arrived DEF YetToRead
  <2>6. OpenHere(g)' <=> OpenHere(g)
    BY <2>1 DEF OpenHere
  <2>7. CASE g # h
    BY <1>a, <1>b, <2>1, <2>2, <2>3, <2>4, <2>5, <2>6, <2>7 DEF CardTells
  <2>8. CASE g = h
    BY <1>b, <2>1, <2>2, <2>3, <2>4, <2>6, <2>8 DEF CardTells
  <2> QED BY <2>7, <2>8
<1> QED BY <1>1, <1>2, <1>3, <1>4, <1>5 DEF Stream

(* With nothing under way the cards are the open gates of the thread, for  *)
(* any gates and any order of events, answers, drops and decisions; unless *)
(* the last list was overtaken by a gate that opened or closed.            *)
THEOREM CardsComplete == Spec => []CardsAreTheGates
<1>1. IInv /\ GateInv /\ [Next]_vars => GateInv'
  <2> SUFFICES ASSUME IInv, GateInv, [Next]_vars PROVE GateInv'
    OBVIOUS
  <2>1. CASE UNCHANGED vars
    <3>1. UNCHANGED <<open, of, sel, wire, snaps, cards, outdated, resolving, failed>>
      BY <2>1 DEF vars, server, gates
    <3> QED BY <3>1, GateKept
  <2> QED BY <2>1, ServerGates, UserGates, StreamGates, ReadGates DEF Next
<1>2. IInv /\ GateInv => CardsAreTheGates
  <2> SUFFICES ASSUME IInv, GateInv, sel # NoThread, wire = <<>>, snaps = {}, "gates" \notin failed, ~outdated
               PROVE  cards = OpenGates(sel)
    BY DEF CardsAreTheGates, Listening
  <2>1. wire # Down /\ ~OnWire(<<"open">>) /\ \A g \in Gates : Fresh(wire, g)
    BY DEF Down, OnWire, Fresh
  <2>2. \A g \in Gates : g \in cards <=> OpenHere(g)
    BY <2>1 DEF GateInv, CardTells, YetToRead
  <2>3. cards \subseteq Gates /\ open \subseteq Gates
    BY DEF IInv, TypeOK
  <2> QED BY <2>2, <2>3 DEF OpenHere, OpenGates
<1> QED BY <1>1, <1>2, InitGates, Invariant, PTL DEF Spec

=============================================================================
