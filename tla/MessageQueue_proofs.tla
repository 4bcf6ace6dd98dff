------------------------ MODULE MessageQueue_proofs ------------------------
(***************************************************************************)
(* Proofs about MessageQueue for any threads, items and bounds.  What is   *)
(* proved of a message is proved while it is not astray: a call that       *)
(* returns for a thread that is no longer in view takes the messages of two*)
(* queues, and a reload those being sent, and of all others the queue keeps*)
(* what it promises.  So the invariant is about one message.               *)
(***************************************************************************)
EXTENDS MessageQueue, TLAPS

WireInv == wire # None => view \in Threads
PostsInv == \A p \in posts : p.status # "refused" => p.thread \in Threads

(* A message waits once and in the thread it was written in, and then      *)
(* nothing has begun for it; it is sent by one call, to that thread.       *)
WaitsRight(i) ==
  /\ i \in ToSet(queue) <=> Queued(view, i)
  /\ Once(queue, i)
  /\ \A k \in Keys : Queued(k, i) => /\ k \in Threads /\ home[i] = k /\ Once(stored[k], i)
                                     /\ ran[i] = NoThread /\ ~Sending(i)
SentRight(i) ==
  /\ \A p \in posts : p.item = i => /\ p.thread \in Threads /\ p.key \in {p.thread, NoThread}
                                    /\ home[i] = p.thread
                                    /\ p.status = "accepted" <=> ran[i] # NoThread
  /\ \A p, q \in posts : p.item = i /\ q.item = i => p = q
ItemInv(i) == WaitsRight(i) /\ SentRight(i) /\ (ran[i] # NoThread => ran[i] = home[i])

Base == TypeOK /\ WireInv /\ PostsInv
IInv == Base /\ \A i \in Items \ astray : ItemInv(i)

(* What a step does to one message.                                        *)
Keeps(i) == ItemInv(i)' /\ Place(i)' = Place(i) /\ (Held(i)' <=> Held(i))
Others(i) == astray' = astray /\ \A j \in Items \ (astray \cup {i}) : Keeps(j)
Writes(i) ==
  /\ ItemInv(i)' /\ Others(i)
  /\ \E t \in Threads : Place(i) = <<"away">> /\ Place(i)' = <<"waits", t>>
Removes(i) ==
  /\ ItemInv(i)' /\ Others(i) /\ Dequeue(i)
  /\ \E t \in Threads : Place(i) = <<"waits", t>> /\ Place(i)' = <<"away">>
Runs(i) ==
  /\ ItemInv(i)' /\ Others(i)
  /\ \E t \in Threads : Place(i) \in {<<"away">>, <<"waits", t>>} /\ Place(i)' = <<"ran", t>>
Moves(i) == Writes(i) \/ Removes(i) \/ Runs(i)

(* None moves, but for those that go astray.                               *)
Stays ==
  /\ astray \subseteq astray'
  /\ \A i \in Items \ astray' : Keeps(i)
  /\ \A i \in astray' \ astray : \E t \in Threads : Place(i) = <<"waits", t>>

-----------------------------------------------------------------------------
(***************************************************************************)
(* What the operations on a queue do to its members.                       *)
(***************************************************************************)

LEMMA AppendQueue ==
  ASSUME NEW q \in Seq(Items), NEW i \in Items
  PROVE  /\ Append(q, i) \in Seq(Items) /\ ToSet(Append(q, i)) = ToSet(q) \cup {i}
         /\ \A j : j # i /\ Once(q, j) => Once(Append(q, i), j)
         /\ i \notin ToSet(q) => Once(Append(q, i), i)
<1>1. /\ Append(q, i) \in Seq(Items) /\ Len(Append(q, i)) = Len(q) + 1
      /\ DOMAIN Append(q, i) = 1..(Len(q) + 1) /\ DOMAIN q = 1..Len(q) /\ Len(q) \in Nat
      /\ \A n \in 1..Len(q) : Append(q, i)[n] = q[n]
      /\ Append(q, i)[Len(q) + 1] = i
  OBVIOUS
<1>2. ToSet(Append(q, i)) = ToSet(q) \cup {i}
  BY <1>1 DEF ToSet
<1>3. ASSUME NEW j, j # i, Once(q, j) PROVE Once(Append(q, i), j)
  BY <1>1, <1>3 DEF Once
<1>4. ASSUME i \notin ToSet(q) PROVE Once(Append(q, i), i)
  BY <1>1, <1>4 DEF Once, ToSet
<1> QED BY <1>1, <1>2, <1>3, <1>4

LEMMA PushQueue ==
  ASSUME NEW q \in Seq(Items), NEW i \in Items
  PROVE  /\ <<i>> \o q \in Seq(Items) /\ ToSet(<<i>> \o q) = ToSet(q) \cup {i}
         /\ \A j : j # i /\ Once(q, j) => Once(<<i>> \o q, j)
         /\ i \notin ToSet(q) => Once(<<i>> \o q, i)
<1> DEFINE r == <<i>> \o q
<1>1. /\ r \in Seq(Items) /\ DOMAIN r = 1..(Len(q) + 1) /\ DOMAIN q = 1..Len(q) /\ Len(q) \in Nat
      /\ r[1] = i /\ \A n \in 2..(Len(q) + 1) : r[n] = q[n - 1]
  OBVIOUS
<1>2. \A n \in 1..Len(q) : n + 1 \in DOMAIN r /\ r[n + 1] = q[n]
  BY <1>1
<1>3. \A n \in DOMAIN r : n = 1 \/ (n - 1 \in DOMAIN q /\ r[n] = q[n - 1])
  BY <1>1
<1> HIDE DEF r
<1>4. ToSet(r) = ToSet(q) \cup {i}
  <2>1. ToSet(r) \subseteq ToSet(q) \cup {i}
    BY <1>1, <1>3 DEF ToSet
  <2>2. 1 \in DOMAIN r
    BY <1>1
  <2>3. ToSet(q) \cup {i} \subseteq ToSet(r)
    <3>1. i \in ToSet(r)
      BY <1>1, <2>2 DEF ToSet
    <3>2. ASSUME NEW n \in DOMAIN q PROVE q[n] \in ToSet(r)
      BY <1>1, <1>2 DEF ToSet
    <3> QED BY <3>1, <3>2 DEF ToSet
  <2> QED BY <2>1, <2>3
<1>5. ASSUME NEW j, j # i, Once(q, j) PROVE Once(r, j)
  <2> SUFFICES ASSUME NEW m \in DOMAIN r, NEW n \in DOMAIN r, r[m] = j, r[n] = j PROVE m = n
    BY DEF Once
  <2>1. m # 1 /\ n # 1
    BY <1>1, <1>5
  <2>2. m - 1 = n - 1
    BY <1>3, <1>5, <2>1 DEF Once
  <2> QED BY <1>1, <2>2
<1>6. ASSUME i \notin ToSet(q) PROVE Once(r, i)
  <2> SUFFICES ASSUME NEW m \in DOMAIN r, r[m] = i PROVE m = 1
    BY DEF Once
  <2> QED BY <1>3, <1>6 DEF ToSet
<1> QED BY <1>1, <1>4, <1>5, <1>6 DEF r

LEMMA RestOfQueue ==
  ASSUME NEW q \in Seq(Items), q # <<>>
  PROVE  /\ Head(q) \in Items /\ Head(q) \in ToSet(q)
         /\ Tail(q) \in Seq(Items) /\ ToSet(Tail(q)) \subseteq ToSet(q)
         /\ ToSet(q) \subseteq ToSet(Tail(q)) \cup {Head(q)}
         /\ \A j : Once(q, j) => Once(Tail(q), j)
         /\ Once(q, Head(q)) => Head(q) \notin ToSet(Tail(q))
<1>1. /\ Tail(q) \in Seq(Items) /\ DOMAIN q = 1..Len(q) /\ Len(q) \in Nat \ {0}
      /\ DOMAIN Tail(q) = 1..(Len(q) - 1) /\ Head(q) = q[1]
      /\ \A n \in 1..(Len(q) - 1) : Tail(q)[n] = q[n + 1]
  OBVIOUS
<1>2. \A n \in 2..Len(q) : q[n] = Tail(q)[n - 1]
  BY <1>1
<1>3. Head(q) \in Items /\ Head(q) \in ToSet(q) /\ ToSet(Tail(q)) \subseteq ToSet(q)
  BY <1>1 DEF ToSet
<1>4. ToSet(q) \subseteq ToSet(Tail(q)) \cup {Head(q)}
  BY <1>1, <1>2 DEF ToSet
<1>5. ASSUME NEW j, Once(q, j) PROVE Once(Tail(q), j)
  <2> SUFFICES ASSUME NEW m \in DOMAIN Tail(q), NEW n \in DOMAIN Tail(q),
                      Tail(q)[m] = j, Tail(q)[n] = j
               PROVE  m = n
    BY DEF Once
  <2>1. m + 1 \in DOMAIN q /\ n + 1 \in DOMAIN q /\ q[m + 1] = j /\ q[n + 1] = j
    BY <1>1
  <2>2. m + 1 = n + 1
    BY <1>5, <2>1 DEF Once
  <2> QED BY <1>1, <2>2
<1>6. ASSUME Once(q, Head(q)) PROVE Head(q) \notin ToSet(Tail(q))
  BY <1>1, <1>6 DEF Once, ToSet
<1> QED BY <1>1, <1>3, <1>4, <1>5, <1>6

LEMMA JoinedQueues ==
  ASSUME NEW a \in Seq(Items), NEW b \in Seq(Items)
  PROVE  /\ a \o b \in Seq(Items) /\ Len(a \o b) = Len(a) + Len(b)
         /\ \A m \in 1..Len(a) : (a \o b)[m] = a[m]
         /\ \A m \in 1..Len(b) : (a \o b)[m + Len(a)] = b[m]
OBVIOUS

LEMMA RemoveFromQueue ==
  ASSUME NEW q \in Seq(Items), NEW n \in DOMAIN q
  PROVE  /\ q[n] \in Items
         /\ RemoveAt(q, n) \in Seq(Items) /\ ToSet(RemoveAt(q, n)) \subseteq ToSet(q)
         /\ ToSet(q) \subseteq ToSet(RemoveAt(q, n)) \cup {q[n]}
         /\ \A j : Once(q, j) => Once(RemoveAt(q, n), j)
         /\ Once(q, q[n]) => q[n] \notin ToSet(RemoveAt(q, n))
<1> DEFINE a == SubSeq(q, 1, n - 1)
           b == SubSeq(q, n + 1, Len(q))
           r == RemoveAt(q, n)
<1>1. Len(q) \in Nat /\ DOMAIN q = 1..Len(q) /\ n \in 1..Len(q) /\ q[n] \in Items
  OBVIOUS
<1>2. /\ a \in Seq(Items) /\ Len(a) = n - 1
      /\ \A m \in 1..(n - 1) : a[m] = q[m]
  BY <1>1
<1>3. /\ b \in Seq(Items) /\ Len(b) = Len(q) - n
      /\ \A m \in 1..(Len(q) - n) : b[m] = q[m + n]
  BY <1>1
<1>4. r = a \o b
  BY DEF RemoveAt
<1> HIDE DEF a, b, r
<1>5. /\ r \in Seq(Items) /\ Len(r) = Len(a) + Len(b)
      /\ \A m \in 1..Len(a) : r[m] = a[m]
      /\ \A m \in 1..Len(b) : r[m + Len(a)] = b[m]
  BY <1>2, <1>3, <1>4, JoinedQueues
<1>6. Len(r) = Len(q) - 1 /\ DOMAIN r = 1..(Len(q) - 1)
  BY <1>1, <1>2, <1>3, <1>5
<1>7. /\ \A m \in 1..(n - 1) : r[m] = q[m]
      /\ \A m \in n..(Len(q) - 1) : r[m] = q[m + 1]
  <2>1. ASSUME NEW m \in n..(Len(q) - 1) PROVE r[m] = q[m + 1]
    <3> DEFINE d == m - (n - 1)
    <3>1. d \in 1..(Len(q) - n) /\ d + (n - 1) = m /\ d + n = m + 1
      BY <1>1
    <3> HIDE DEF d
    <3>2. r[d + Len(a)] = b[d] /\ b[d] = q[d + n]
      BY <1>3, <1>5, <3>1
    <3> QED BY <1>2, <3>1, <3>2
  <2> QED BY <1>2, <1>5, <2>1
<1>8. ToSet(r) \subseteq ToSet(q)
  <2> SUFFICES ASSUME NEW m \in 1..(Len(q) - 1) PROVE r[m] \in ToSet(q)
    BY <1>6 DEF ToSet
  <2>1. CASE m < n
    BY <1>1, <1>7, <2>1 DEF ToSet
  <2>2. CASE m >= n
    <3>1. m + 1 \in DOMAIN q /\ r[m] = q[m + 1]
      BY <1>1, <1>7, <2>2
    <3> QED BY <3>1 DEF ToSet
  <2> QED BY <1>1, <2>1, <2>2
<1>9. ToSet(q) \subseteq ToSet(r) \cup {q[n]}
  <2> SUFFICES ASSUME NEW m \in 1..Len(q), m # n PROVE q[m] \in ToSet(r)
    BY <1>1 DEF ToSet
  <2>1. CASE m < n
    <3>1. m \in DOMAIN r /\ q[m] = r[m]
      BY <1>1, <1>6, <1>7, <2>1
    <3> QED BY <3>1 DEF ToSet
  <2>2. CASE m > n
    <3>1. m - 1 \in n..(Len(q) - 1) /\ m - 1 + 1 = m
      BY <1>1, <2>2
    <3>2. m - 1 \in DOMAIN r /\ q[m] = r[m - 1]
      BY <1>1, <1>6, <1>7, <3>1
    <3> QED BY <3>2 DEF ToSet
  <2> QED BY <1>1, <2>1, <2>2
<1> DEFINE back(m) == IF m < n THEN m ELSE m + 1
<1>10. \A m \in DOMAIN r : back(m) \in DOMAIN q /\ back(m) # n /\ r[m] = q[back(m)]
  BY <1>1, <1>6, <1>7
<1>11. \A m, k \in DOMAIN r : back(m) = back(k) => m = k
  BY <1>1, <1>6
<1> HIDE DEF back
<1>12. ASSUME NEW j, Once(q, j) PROVE Once(r, j)
  BY <1>10, <1>11, <1>12 DEF Once
<1>13. ASSUME Once(q, q[n]) PROVE q[n] \notin ToSet(r)
  BY <1>10, <1>13 DEF Once, ToSet
<1> QED BY <1>1, <1>5, <1>8, <1>9, <1>12, <1>13 DEF r

-----------------------------------------------------------------------------
(***************************************************************************)
(* Types, and where a socket and a call may belong.                        *)
(***************************************************************************)

LEMMA CommitType ==
  ASSUME TypeOK, NEW key \in Keys, NEW q \in Seq(Items), Commit(key, q)
  PROVE  /\ queue' \in Seq(Items) /\ stored' \in [Keys -> Seq(Items)] /\ astray' \subseteq Items
         /\ queue' = q /\ stored'[key] = q /\ \A k \in Keys \ {key} : stored'[k] = stored[k]
         /\ astray \subseteq astray' /\ (key = view => astray' = astray)
<1>1. ToSet(q) \subseteq Items /\ ToSet(queue) \subseteq Items /\ ToSet(stored[key]) \subseteq Items
  BY DEF TypeOK, ToSet
<1> QED BY <1>1 DEF TypeOK, Commit, Save

LEMMA DispatchType ==
  ASSUME Base, NEW key \in Threads, Dispatch(key)
  PROVE  /\ queue' \in Seq(Items) /\ stored' \in [Keys -> Seq(Items)] /\ astray' \subseteq Items
         /\ posts' \subseteq Posts /\ PostsInv'
<1> USE DEF Base
<1>1. CASE queue = <<>>
  BY <1>1 DEF Dispatch, TypeOK, PostsInv
<1>2. CASE queue # <<>>
  <2> DEFINE p == [item |-> Head(queue), thread |-> view, key |-> key,
                   status |-> IF view = NoThread THEN "refused" ELSE "sent"]
  <2>1. posts' = posts \cup {p} /\ Commit(key, Tail(queue)) /\ key \in Keys
    BY <1>2 DEF Dispatch, Rest, Keys
  <2>2. Head(queue) \in Items /\ Tail(queue) \in Seq(Items)
    BY <1>2, RestOfQueue DEF TypeOK
  <2>3. view \in Keys /\ (view # NoThread => view \in Threads)
    BY DEF TypeOK, Keys
  <2>4. p \in Posts /\ (p.status # "refused" => p.thread \in Threads)
    BY <2>1, <2>2, <2>3 DEF Posts
  <2> HIDE DEF p
  <2> QED BY <2>1, <2>2, <2>4, CommitType DEF TypeOK, PostsInv
<1> QED BY <1>1, <1>2

LEMMA EmitType ==
  ASSUME Base, NEW t \in Threads, NEW s \in States, Emit(t, s), view' = view
  PROVE  (wire' = None \/ wire' \in Seq(States \cup {"open"})) /\ WireInv'
BY DEF Base, TypeOK, Emit, Subscribed, WireInv

LEMMA StatusType ==
  ASSUME Base, NEW p \in posts, NEW s \in {"accepted", "refused"}, p \in Undelivered, Status(p, s)
  PROVE  p.thread \in Threads /\ p.item \in Items /\ posts' \subseteq Posts /\ PostsInv'
<1> USE DEF Base
<1> DEFINE n == [p EXCEPT !.status = s]
<1>1. p \in Posts /\ p.status # "refused" /\ p.item \in Items /\ p.thread \in Threads
  BY DEF TypeOK, Undelivered, Posts, PostsInv
<1>2. n \in Posts /\ n.thread = p.thread
  BY <1>1 DEF Posts
<1>3. posts' \subseteq posts \cup {n}
  BY DEF Status
<1> HIDE DEF n
<1> QED BY <1>1, <1>2, <1>3 DEF TypeOK, PostsInv

LEMMA BaseHolds ==
  ASSUME Base, [Next]_vars
  PROVE  Base'
<1> USE DEF Base
<1>1. ASSUME NEW i \in Items, Enqueue(i) PROVE Base'
  <2>1. Commit(view, Append(queue, i)) /\ view \in Keys /\ Append(queue, i) \in Seq(Items)
    BY <1>1, AppendQueue DEF Enqueue, TypeOK
  <2> QED BY <1>1, <2>1, CommitType DEF Enqueue, TypeOK, WireInv, PostsInv
<1>2. ASSUME NEW i \in Items, SendNow(i) PROVE Base'
  <2> DEFINE p == [item |-> i, thread |-> view, key |-> NoThread, status |-> "sent"]
  <2>1. posts' = posts \cup {p} /\ view \in Threads /\ p \in Posts /\ p.thread \in Threads
    BY <1>2 DEF SendNow, TypeOK, Posts, Keys
  <2> HIDE DEF p
  <2> QED BY <1>2, <2>1 DEF SendNow, TypeOK, WireInv, PostsInv
<1>3. ASSUME NEW i \in Items, Dequeue(i) \/ Promote(i) PROVE Base'
  <2>1. PICK n \in DOMAIN queue :
          Commit(view, RemoveAt(queue, n)) \/ Commit(view, <<i>> \o RemoveAt(queue, n))
    BY <1>3 DEF Dequeue, Promote
  <2>2. /\ view \in Keys /\ RemoveAt(queue, n) \in Seq(Items)
        /\ <<i>> \o RemoveAt(queue, n) \in Seq(Items)
    BY RemoveFromQueue, PushQueue DEF TypeOK
  <2>3. queue' \in Seq(Items) /\ stored' \in [Keys -> Seq(Items)] /\ astray' \subseteq Items
    BY <2>1, <2>2, CommitType
  <2> QED BY <1>3, <2>3 DEF Dequeue, Promote, TypeOK, WireInv, PostsInv
<1>4. ASSUME NEW k \in Keys, Select(k) PROVE Base'
  BY <1>4 DEF Select, Load, TypeOK, WireInv, PostsInv
<1>5. CASE Reload
  <2>1. \A p \in Undelivered : /\ [p EXCEPT !.status = "left"] \in Posts
                               /\ [p EXCEPT !.status = "left"].thread = p.thread
                               /\ p.thread \in Threads
    BY DEF Undelivered, TypeOK, PostsInv, Posts
  <2>2. posts' \subseteq Posts /\ PostsInv'
    BY <1>5, <2>1 DEF Reload, PostsInv
  <2>3. astray' \subseteq Items
    BY <1>5 DEF Reload, TypeOK, Posts
  <2> QED BY <1>5, <2>2, <2>3, QueueAssumption DEF Reload, Load, TypeOK, Keys, WireInv
<1>6. CASE Connect
  BY <1>6 DEF Connect, TypeOK, Keys, WireInv, PostsInv
<1>7. CASE Opened
  <2>1. [thread |-> view, before |-> local[view], answer |-> "none"] \in Reads
    BY <1>7 DEF Opened, WireInv, TypeOK, Reads
  <2>2. wire \in Seq(States \cup {"open"}) /\ wire # <<>>
    BY <1>7 DEF Opened, TypeOK
  <2>3. wire' \in Seq(States \cup {"open"})
    BY <1>7, <2>2 DEF Opened
  <2> QED BY <1>7, <2>1, <2>3 DEF Opened, TypeOK, WireInv, PostsInv
<1>8. ASSUME NEW s \in States, StateChange(s) PROVE Base'
  <2>1. view \in Threads /\ wire \in Seq(States \cup {"open"}) /\ wire # <<>>
    BY <1>8 DEF StateChange, TypeOK, WireInv
  <2>2. wire' \in Seq(States \cup {"open"}) /\ local' \in [Threads -> States]
    BY <1>8, <2>1 DEF StateChange, TypeOK
  <2>3. /\ queue' \in Seq(Items) /\ stored' \in [Keys -> Seq(Items)] /\ astray' \subseteq Items
        /\ posts' \subseteq Posts /\ PostsInv'
    <3>1. CASE s = "idle"
      BY <1>8, <2>1, <3>1, DispatchType DEF StateChange
    <3>2. CASE s # "idle"
      BY <1>8, <3>2 DEF StateChange, TypeOK, PostsInv
    <3> QED BY <3>1, <3>2
  <2> QED BY <1>8, <2>1, <2>2, <2>3 DEF StateChange, TypeOK, WireInv
<1>9. CASE Drop
  BY <1>9, QueueAssumption DEF Drop, TypeOK, WireInv, PostsInv
<1>10. ASSUME NEW r \in reads, ListRead(r) \/ ListFails(r) PROVE Base'
  <2>1. r \in Reads /\ r.thread \in Threads
    BY DEF TypeOK, Reads
  <2>2. [r EXCEPT !.answer = srv[r.thread]] \in Reads
    BY <2>1 DEF TypeOK, Reads
  <2>3. CASE ListRead(r)
    BY <2>2, <2>3 DEF ListRead, TypeOK, WireInv, PostsInv
  <2>4. CASE ListFails(r)
    BY <2>1, <2>4, QueueAssumption DEF ListFails, TypeOK, WireInv, PostsInv
  <2> QED BY <1>10, <2>3, <2>4
<1>11. ASSUME NEW r \in reads, ResyncApplies(r) PROVE Base'
  <2>1. r.thread \in Threads /\ r.answer \in States
    BY <1>11 DEF ResyncApplies, TypeOK, Reads
  <2>2. local' \in [Threads -> States] /\ reads' \subseteq Reads
    BY <1>11, <2>1 DEF ResyncApplies, TypeOK
  <2>3. /\ queue' \in Seq(Items) /\ stored' \in [Keys -> Seq(Items)] /\ astray' \subseteq Items
        /\ posts' \subseteq Posts /\ PostsInv' /\ upsets' \in 0..MaxUpsets
    <3>1. CASE Dispatch(r.thread) /\ Crossing(r.thread)
      BY <2>1, <3>1, DispatchType, QueueAssumption DEF Crossing, TypeOK
    <3>2. CASE UNCHANGED <<queue, stored, posts, astray, upsets>>
      BY <3>2 DEF TypeOK, PostsInv
    <3> QED BY <1>11, <3>1, <3>2 DEF ResyncApplies
  <2> QED BY <1>11, <2>2, <2>3 DEF ResyncApplies, TypeOK, WireInv
<1>12. ASSUME NEW p \in posts, Accept(p) PROVE Base'
  <2>1. p.thread \in Threads /\ p.item \in Items /\ posts' \subseteq Posts /\ PostsInv'
    BY <1>12, StatusType DEF Accept
  <2>2. "running" \in States /\ p.thread \in Keys
    BY <2>1 DEF States, Keys
  <2>3. (wire' = None \/ wire' \in Seq(States \cup {"open"})) /\ WireInv'
    BY <1>12, <2>1, <2>2, EmitType DEF Accept
  <2> QED BY <1>12, <2>1, <2>2, <2>3 DEF Accept, TypeOK
<1>13. ASSUME NEW p \in posts, Refuse(p) PROVE Base'
  <2>1. posts' \subseteq Posts /\ PostsInv'
    BY <1>13, StatusType DEF Refuse
  <2> QED BY <1>13, <2>1 DEF Refuse, TypeOK, WireInv
<1>14. ASSUME NEW p \in posts, Answered(p) PROVE Base'
  <2>1. p \in Posts /\ p.item \in Items /\ p.key \in Keys
        /\ (p.status = "accepted" => p.thread \in Threads)
    BY DEF TypeOK, Posts, PostsInv
  <2>2. local' \in [Threads -> States]
    BY <1>14, <2>1 DEF Answered, TypeOK, States
  <2>3. /\ queue' \in Seq(Items) /\ stored' \in [Keys -> Seq(Items)] /\ astray' \subseteq Items
        /\ upsets' \in 0..MaxUpsets
    <3>1. CASE Commit(p.key, RestoreHead(p.item, queue)) /\ Crossing(p.key)
      <4>1. RestoreHead(p.item, queue) \in Seq(Items)
        BY <2>1, PushQueue DEF RestoreHead, TypeOK
      <4> QED BY <2>1, <3>1, <4>1, CommitType, QueueAssumption DEF Crossing, TypeOK
    <3>2. CASE UNCHANGED <<queue, stored, astray, upsets>>
      BY <3>2 DEF TypeOK
    <3> QED BY <1>14, <3>1, <3>2 DEF Answered
  <2> QED BY <1>14, <2>2, <2>3 DEF Answered, TypeOK, WireInv, PostsInv
<1>15. ASSUME NEW t \in Threads, TurnEnds(t) \/ Reviewed(t) PROVE Base'
  <2>1. "idle" \in States
    BY DEF States
  <2>2. (wire' = None \/ wire' \in Seq(States \cup {"open"})) /\ WireInv'
    BY <1>15, <2>1, EmitType DEF TurnEnds, Reviewed
  <2>3. CASE TurnEnds(t)
    BY <2>1, <2>2, <2>3 DEF TurnEnds, TypeOK, PostsInv
  <2>4. CASE Reviewed(t)
    BY <2>2, <2>4, QueueAssumption DEF Reviewed, TypeOK, PostsInv
  <2> QED BY <1>15, <2>3, <2>4
<1>16. CASE UNCHANGED vars
  BY <1>16 DEF vars, TypeOK, WireInv, PostsInv
<1> QED BY <1>1, <1>2, <1>3, <1>4, <1>5, <1>6, <1>7, <1>8, <1>9, <1>10, <1>11, <1>12, <1>13, <1>14,
           <1>15, <1>16 DEF Next, User, Stream, Calls, Turns, Faults

-----------------------------------------------------------------------------
(***************************************************************************)
(* One message.                                                            *)
(***************************************************************************)

(* A step that touches neither the message nor the view.                   *)
LEMMA Untouched ==
  ASSUME Base, NEW i \in Items, ItemInv(i), i \notin astray, i \notin astray',
         UNCHANGED view, home'[i] = home[i], ran'[i] = ran[i],
         \A p : p.item = i => (p \in posts' <=> p \in posts),
         i \in ToSet(queue') <=> i \in ToSet(queue), Once(queue', i),
         \A k \in Keys : (Queued(k, i)' <=> Queued(k, i)) /\ (Queued(k, i) => Once(stored'[k], i))
  PROVE  Keeps(i)
<1>1. view \in Keys
  BY DEF Base, TypeOK
<1>2. Sending(i)' <=> Sending(i)
  BY DEF Sending
<1>3. WaitsRight(i)'
  BY <1>1, <1>2 DEF ItemInv, WaitsRight
<1>4. SentRight(i)'
  BY DEF ItemInv, SentRight
<1>5. Held(i)' <=> Held(i)
  <2>1. (\E p \in posts' : p.item = i /\ FromQueue(p)) <=> \E p \in posts : p.item = i /\ FromQueue(p)
    OBVIOUS
  <2> QED BY <2>1 DEF Held, FromQueue
<1>6. Place(i)' = Place(i)
  BY <1>5 DEF Place
<1>7. ItemInv(i)'
  BY <1>3, <1>4 DEF ItemInv
<1> QED BY <1>5, <1>6, <1>7 DEF Keeps

(* A queue is written in which the message is neither put nor taken away.  *)
LEMMA CommitKeeps ==
  ASSUME Base, NEW i \in Items, ItemInv(i), i \notin astray, i \notin astray',
         UNCHANGED view, home'[i] = home[i], ran'[i] = ran[i],
         \A p : p.item = i => (p \in posts' <=> p \in posts),
         NEW key \in Keys, NEW q \in Seq(Items), Commit(key, q),
         key = view => (i \in ToSet(q) <=> i \in ToSet(queue)) /\ Once(q, i)
  PROVE  Keeps(i)
<1>1. queue' = q /\ stored'[key] = q /\ \A k \in Keys \ {key} : stored'[k] = stored[k]
  BY CommitType DEF Base
<1>2. WaitsRight(i)
  BY DEF ItemInv
<1>3. CASE key = view
  <2>1. \A k \in Keys : (Queued(k, i)' <=> Queued(k, i)) /\ (Queued(k, i) => Once(stored'[k], i))
    BY <1>1, <1>2, <1>3 DEF Queued, WaitsRight
  <2> QED BY <1>1, <1>3, <2>1, Untouched
<1>4. CASE key # view
  <2>1. i \notin ToSet(q) /\ i \notin ToSet(queue) /\ i \notin ToSet(stored[key])
    BY <1>4 DEF Commit
  <2>2. Once(q, i)
    BY <2>1 DEF Once, ToSet
  <2>3. \A k \in Keys : (Queued(k, i)' <=> Queued(k, i)) /\ (Queued(k, i) => Once(stored'[k], i))
    BY <1>1, <1>2, <2>1, <2>2 DEF Queued, WaitsRight
  <2> QED BY <1>1, <2>1, <2>2, <2>3, Untouched
<1> QED BY <1>3, <1>4

(* What goes astray was waiting.                                           *)
LEMMA WasWaiting ==
  ASSUME IInv, NEW i \in Items \ astray,
         \/ \E k \in Keys : Queued(k, i)
         \/ \E p \in posts : p.item = i /\ FromQueue(p) /\ p.status # "accepted"
  PROVE  \E t \in Threads : Place(i) = <<"waits", t>>
<1>1. ItemInv(i) /\ Held(i)
  BY DEF IInv, Held
<1>2. ran[i] = NoThread /\ home[i] \in Threads
  <2>1. CASE \E k \in Keys : Queued(k, i)
    BY <1>1, <2>1 DEF ItemInv, WaitsRight
  <2>2. CASE \E p \in posts : p.item = i /\ FromQueue(p) /\ p.status # "accepted"
    <3>1. PICK p \in posts : p.item = i /\ p.status # "accepted"
      BY <2>2
    <3>2. SentRight(i)
      BY <1>1 DEF ItemInv
    <3>3. p.thread \in Threads /\ home[i] = p.thread /\ ~(ran[i] # NoThread)
      BY <3>1, <3>2 DEF SentRight
    <3> QED BY <3>3
  <2> QED BY <2>1, <2>2
<1> QED BY <1>1, <1>2 DEF Place

LEMMA CommitStrays ==
  ASSUME IInv, NEW key \in Keys, NEW q \in Seq(Items), Commit(key, q),
         \A i \in ToSet(q) \ astray :
           i \in ToSet(queue) \/ \E p \in posts : p.item = i /\ FromQueue(p) /\ p.status # "accepted"
  PROVE  /\ astray \subseteq astray'
         /\ \A i \in astray' \ astray : \E t \in Threads : Place(i) = <<"waits", t>>
<1>1. astray \subseteq astray' /\ astray' \subseteq Items /\ view \in Keys
  BY CommitType DEF IInv, Base, TypeOK
<1>2. ASSUME NEW i \in astray' \ astray PROVE \E t \in Threads : Place(i) = <<"waits", t>>
  <2>1. i \in Items \ astray /\ (i \in ToSet(q) \/ i \in ToSet(queue) \/ i \in ToSet(stored[key]))
    BY <1>1, <1>2 DEF Commit
  <2>2. i \in ToSet(queue) => Queued(view, i)
    BY <2>1 DEF IInv, ItemInv, WaitsRight
  <2>3. i \in ToSet(stored[key]) => Queued(key, i)
    BY DEF Queued
  <2> QED BY <1>1, <2>1, <2>2, <2>3, WasWaiting
<1> QED BY <1>1, <1>2

-----------------------------------------------------------------------------
(***************************************************************************)
(* The steps.                                                              *)
(***************************************************************************)

LEMMA EnqueueStep ==
  ASSUME IInv, NEW i \in Items, Enqueue(i)
  PROVE  i \notin astray /\ Writes(i)
<1> USE DEF IInv
<1>1. /\ view \in Threads /\ view \in Keys /\ Append(queue, i) \in Seq(Items) /\ queue \in Seq(Items)
      /\ i \notin astray /\ i \notin ToSet(queue) /\ ~Held(i) /\ ~Sending(i)
      /\ home' = [home EXCEPT ![i] = view] /\ home \in [Items -> Keys]
      /\ Commit(view, Append(queue, i)) /\ UNCHANGED <<view, posts, ran>>
  BY AppendQueue DEF Enqueue, Unwritten, Base, TypeOK, Keys
<1>2. /\ queue' = Append(queue, i) /\ stored'[view] = queue' /\ astray' = astray
      /\ \A k \in Keys \ {view} : stored'[k] = stored[k]
  BY <1>1, CommitType DEF Base
<1>3. ToSet(queue') = ToSet(queue) \cup {i} /\ Once(queue', i)
  BY <1>1, <1>2, AppendQueue
<1>4. ItemInv(i)'
  <2>1. \A k \in Keys : Queued(k, i)' <=> k = view
    BY <1>1, <1>2, <1>3 DEF Held, Queued
  <2>2. ran[i] = NoThread /\ ~Sending(i)'
    BY <1>1 DEF Held, Sending
  <2>3. WaitsRight(i)'
    BY <1>1, <1>2, <1>3, <2>1, <2>2 DEF WaitsRight
  <2>4. SentRight(i)'
    BY <1>1, <2>2 DEF SentRight, Sending
  <2> QED BY <1>1, <2>2, <2>3, <2>4 DEF ItemInv
<1>5. ASSUME NEW j \in Items \ (astray \cup {i}) PROVE Keeps(j)
  <2>1. ItemInv(j) /\ j # i
    OBVIOUS
  <2>2. (j \in ToSet(queue') <=> j \in ToSet(queue)) /\ Once(queue', j)
    BY <1>1, <1>2, <1>3, <2>1, AppendQueue DEF ItemInv, WaitsRight
  <2> QED BY <1>1, <1>2, <2>1, <2>2, CommitKeeps
<1>6. Place(i) = <<"away">> /\ Place(i)' = <<"waits", view>>
  <2>1. Held(i)' /\ ran[i] = NoThread /\ home'[i] = view
    BY <1>1, <1>2, <1>3 DEF Held, Queued
  <2> QED BY <1>1, <1>2, <2>1 DEF Place
<1> QED BY <1>1, <1>2, <1>4, <1>5, <1>6 DEF Writes, Others

LEMMA SendNowStep ==
  ASSUME IInv, NEW i \in Items, SendNow(i)
  PROVE  Stays
<1> USE DEF IInv
<1> DEFINE p == [item |-> i, thread |-> view, key |-> NoThread, status |-> "sent"]
<1>1. /\ view \in Threads /\ i \notin astray /\ ~Held(i) /\ ~Sending(i) /\ i \notin ToSet(queue)
      /\ home' = [home EXCEPT ![i] = view] /\ home \in [Items -> Keys]
      /\ posts' = posts \cup {p} /\ UNCHANGED <<view, queue, stored, ran, astray>>
  BY DEF SendNow, Unwritten, Base, TypeOK, Keys
<1>2. p.item = i /\ p.thread = view /\ p.key = NoThread /\ p.status = "sent"
  OBVIOUS
<1> HIDE DEF p
<1>3. ASSUME NEW j \in Items \ (astray \cup {i}) PROVE Keeps(j)
  <2>1. ItemInv(j) /\ j # i
    OBVIOUS
  <2> QED BY <1>1, <1>2, <2>1, Untouched DEF ItemInv, WaitsRight, Queued
<1>4. Keeps(i)
  <2>1. ran[i] = NoThread /\ \A k \in Keys : ~Queued(k, i)
    BY <1>1 DEF Held
  <2>2. WaitsRight(i)'
    BY <1>1, <2>1 DEF ItemInv, WaitsRight, Queued
  <2>3. SentRight(i)'
    BY <1>1, <1>2, <2>1 DEF SentRight, Sending
  <2>4. ItemInv(i)'
    BY <1>1, <2>1, <2>2, <2>3 DEF ItemInv
  <2>5. ~Held(i)'
    BY <1>1, <1>2, <2>1 DEF Held, Queued, FromQueue
  <2> QED BY <1>1, <2>1, <2>4, <2>5 DEF Keeps, Place
<1> QED BY <1>1, <1>3, <1>4 DEF Stays

LEMMA DequeueStep ==
  ASSUME IInv, NEW i \in Items, Dequeue(i)
  PROVE  IF i \in astray THEN Stays ELSE Removes(i)
<1> USE DEF IInv
<1>1. PICK n \in DOMAIN queue : queue[n] = i /\ Commit(view, RemoveAt(queue, n))
  BY DEF Dequeue
<1>2. /\ view \in Keys /\ queue \in Seq(Items) /\ RemoveAt(queue, n) \in Seq(Items)
      /\ ToSet(RemoveAt(queue, n)) \subseteq ToSet(queue)
      /\ ToSet(queue) \subseteq ToSet(RemoveAt(queue, n)) \cup {i}
      /\ \A j : Once(queue, j) => Once(RemoveAt(queue, n), j)
      /\ Once(queue, i) => i \notin ToSet(RemoveAt(queue, n))
      /\ i \in ToSet(queue)
      /\ UNCHANGED <<view, posts, ran, home>>
  BY <1>1, RemoveFromQueue DEF Dequeue, Base, TypeOK, ToSet
<1>3. /\ queue' = RemoveAt(queue, n) /\ stored'[view] = queue' /\ astray' = astray
      /\ \A k \in Keys \ {view} : stored'[k] = stored[k]
  BY <1>1, <1>2, CommitType DEF Base
<1>4. ASSUME NEW j \in Items \ (astray \cup {i}) PROVE Keeps(j)
  <2>1. ItemInv(j) /\ j # i
    OBVIOUS
  <2>2. (j \in ToSet(queue') <=> j \in ToSet(queue)) /\ Once(queue', j)
    BY <1>2, <1>3, <2>1 DEF ItemInv, WaitsRight
  <2> QED BY <1>1, <1>2, <1>3, <2>1, <2>2, CommitKeeps
<1>5. CASE i \in astray
  BY <1>3, <1>4, <1>5 DEF Stays
<1>6. CASE i \notin astray
  <2>1. /\ view \in Threads /\ home[i] = view /\ ran[i] = NoThread /\ ~Sending(i)
        /\ Queued(view, i) /\ \A k \in Keys : Queued(k, i) => k = view
        /\ i \notin ToSet(queue') /\ ItemInv(i)
    BY <1>2, <1>3, <1>6 DEF ItemInv, WaitsRight
  <2>2. \A k \in Keys : ~Queued(k, i)'
    BY <1>2, <1>3, <2>1 DEF Queued
  <2>3. WaitsRight(i)' /\ ~Sending(i)'
    BY <1>2, <1>3, <2>1, <2>2 DEF WaitsRight, Once, ToSet, Sending
  <2>4. ItemInv(i)'
    BY <1>2, <2>1, <2>3 DEF ItemInv, SentRight
  <2>5. Place(i) = <<"waits", view>> /\ Place(i)' = <<"away">>
    <3>1. Held(i) /\ ~Held(i)'
      BY <1>2, <2>1, <2>2, <2>3 DEF Held, Sending
    <3> QED BY <1>2, <1>3, <1>6, <2>1, <3>1 DEF Place
  <2> QED BY <1>3, <1>4, <1>6, <2>1, <2>4, <2>5 DEF Removes, Others
<1> QED BY <1>5, <1>6

LEMMA PromoteStep ==
  ASSUME IInv, NEW i \in Items, Promote(i)
  PROVE  Stays
<1> USE DEF IInv
<1>1. PICK n \in DOMAIN queue : queue[n] = i /\ Commit(view, <<i>> \o RemoveAt(queue, n))
  BY DEF Promote
<1> DEFINE q == RemoveAt(queue, n)
<1>2. /\ view \in Keys /\ queue \in Seq(Items) /\ q \in Seq(Items)
      /\ ToSet(q) \subseteq ToSet(queue) /\ ToSet(queue) \subseteq ToSet(q) \cup {i}
      /\ \A j : Once(queue, j) => Once(q, j)
      /\ Once(queue, i) => i \notin ToSet(q)
      /\ i \in ToSet(queue)
      /\ UNCHANGED <<view, posts, ran, home>>
  BY <1>1, RemoveFromQueue DEF Promote, Base, TypeOK, ToSet
<1> HIDE DEF q
<1>3. /\ <<i>> \o q \in Seq(Items) /\ ToSet(<<i>> \o q) = ToSet(queue)
      /\ \A j : Once(queue, j) => Once(<<i>> \o q, j)
  <2>1. /\ <<i>> \o q \in Seq(Items) /\ ToSet(<<i>> \o q) = ToSet(q) \cup {i}
        /\ \A j : j # i /\ Once(q, j) => Once(<<i>> \o q, j)
        /\ i \notin ToSet(q) => Once(<<i>> \o q, i)
    BY <1>2, PushQueue
  <2> QED BY <1>2, <2>1
<1>4. Commit(view, <<i>> \o q)
  BY <1>1 DEF q
<1>5. astray' = astray
  BY <1>2, <1>3, <1>4, CommitType DEF Base
<1>6. ASSUME NEW j \in Items \ astray PROVE Keeps(j)
  <2>1. ItemInv(j) /\ Once(<<i>> \o q, j)
    BY <1>3 DEF ItemInv, WaitsRight
  <2> QED BY <1>2, <1>3, <1>4, <1>5, <2>1, CommitKeeps
<1> QED BY <1>5, <1>6 DEF Stays

(* Another thread comes into view; calls under way do not care which.      *)
LEMMA SelectStep ==
  ASSUME IInv, NEW k \in Keys, Select(k)
  PROVE  Stays
<1> USE DEF IInv
<1>1. /\ view' = k /\ queue' = stored[k]
      /\ UNCHANGED <<stored, posts, ran, home, astray>>
  BY DEF Select, Load
<1>2. ASSUME NEW i \in Items \ astray PROVE Keeps(i)
  <2>1. (i \in ToSet(queue') <=> Queued(k, i)) /\ Once(queue', i)
    BY <1>1 DEF ItemInv, WaitsRight, Queued, Once, ToSet
  <2>2. ItemInv(i)'
    BY <1>1, <2>1 DEF ItemInv, WaitsRight, SentRight, Queued, Sending
  <2>3. Held(i)' <=> Held(i)
    BY <1>1 DEF Held, Queued
  <2> QED BY <1>1, <2>2, <2>3 DEF Keeps, Place
<1> QED BY <1>1, <1>2 DEF Stays

LEMMA ReloadStep ==
  ASSUME IInv, Reload
  PROVE  Stays
<1> USE DEF IInv
<1> DEFINE left(p) == [p EXCEPT !.status = "left"]
<1>1. /\ view' = NoThread /\ queue' = stored[NoThread] /\ NoThread \in Keys
      /\ posts' = {left(p) : p \in Undelivered} /\ UNCHANGED <<stored, ran, home>>
      /\ astray \subseteq astray' /\ astray' \subseteq Items
  BY DEF Reload, Load, Keys, Base, TypeOK, Posts
<1>2. \A p \in Undelivered : /\ p \in posts /\ p.status \in {"sent", "left"}
                             /\ left(p).item = p.item /\ left(p).thread = p.thread
                             /\ left(p).key = p.key /\ left(p).status = "left"
  BY DEF Undelivered, Base, TypeOK, Posts
<1> HIDE DEF left
<1>3. ASSUME NEW i \in Items \ astray' PROVE Keeps(i)
  <2>1. ItemInv(i) /\ i \notin astray
    BY <1>1
  <2>2. WaitsRight(i)'
    <3>1. (i \in ToSet(queue') <=> Queued(NoThread, i)) /\ Once(queue', i)
      BY <1>1, <2>1 DEF ItemInv, WaitsRight, Queued, Once, ToSet
    <3>2. Sending(i)' => Sending(i)
      BY <1>1, <1>2 DEF Sending
    <3> QED BY <1>1, <2>1, <3>1, <3>2 DEF ItemInv, WaitsRight, Queued
  <2>3. SentRight(i)'
    BY <1>1, <1>2, <2>1 DEF ItemInv, SentRight
  <2>4. Held(i)' <=> Held(i)
    <3>1. \A p \in posts : p.item = i /\ FromQueue(p) => p.status = "accepted"
      BY DEF Reload
    <3>2. (\E p \in posts : p.item = i /\ FromQueue(p)) => ran[i] # NoThread
      BY <2>1, <3>1 DEF ItemInv, SentRight
    <3>3. ~\E p \in posts' : FromQueue(p)'
      BY <1>1, <1>2 DEF FromQueue
    <3> QED BY <1>1, <3>2, <3>3 DEF Held, Queued, FromQueue
  <2>5. Place(i)' = Place(i) /\ ItemInv(i)'
    BY <1>1, <1>3, <2>1, <2>2, <2>3, <2>4 DEF Place, ItemInv
  <2> QED BY <2>4, <2>5 DEF Keeps
<1>4. ASSUME NEW i \in astray' \ astray PROVE \E t \in Threads : Place(i) = <<"waits", t>>
  <2>1. \E p \in posts : p.item = i /\ FromQueue(p) /\ p.status # "accepted"
    BY <1>4 DEF Reload
  <2> QED BY <1>1, <2>1, WasWaiting
<1> QED BY <1>1, <1>3, <1>4 DEF Stays

LEMMA QuietStep ==
  ASSUME IInv, UNCHANGED <<view, queue, stored, posts, ran, home, astray>>
  PROVE  Stays
<1>1. ASSUME NEW i \in Items \ astray PROVE Keeps(i)
  BY Untouched DEF IInv, ItemInv, WaitsRight, Queued
<1> QED BY <1>1 DEF Stays

LEMMA DispatchStep ==
  ASSUME IInv, NEW key \in Threads, Dispatch(key), UNCHANGED <<view, ran, home>>
  PROVE  Stays
<1> USE DEF IInv
<1>1. CASE queue = <<>>
  BY <1>1, QuietStep DEF Dispatch
<1>2. CASE queue # <<>>
  <2>0. PICK h : h = Head(queue)
    OBVIOUS
  <2> DEFINE q == Tail(queue)
             p == [item |-> h, thread |-> view, key |-> key,
                   status |-> IF view = NoThread THEN "refused" ELSE "sent"]
  <2>1. posts' = posts \cup {p} /\ Commit(key, q) /\ key \in Keys /\ key # NoThread
    BY <1>2, <2>0, QueueAssumption DEF Dispatch, Rest, Keys
  <2>2. /\ h \in Items /\ h \in ToSet(queue) /\ q \in Seq(Items) /\ queue \in Seq(Items)
        /\ ToSet(q) \subseteq ToSet(queue) /\ ToSet(queue) \subseteq ToSet(q) \cup {h}
        /\ \A j : Once(queue, j) => Once(q, j)
        /\ Once(queue, h) => h \notin ToSet(q)
    BY <1>2, <2>0, RestOfQueue DEF Base, TypeOK
  <2>3. /\ p.item = h /\ p.thread = view /\ p.key = key
        /\ p.status = IF view = NoThread THEN "refused" ELSE "sent"
    OBVIOUS
  <2> HIDE DEF q, p
  <2>4. /\ astray \subseteq astray'
        /\ \A i \in astray' \ astray : \E t \in Threads : Place(i) = <<"waits", t>>
    BY <2>1, <2>2, CommitStrays
  <2>5. ASSUME NEW i \in Items \ astray', i # h PROVE Keeps(i)
    <3>1. ItemInv(i) /\ Once(q, i) /\ (i \in ToSet(q) <=> i \in ToSet(queue))
      BY <2>2, <2>4, <2>5 DEF ItemInv, WaitsRight
    <3>2. \A x : x.item = i => (x \in posts' <=> x \in posts)
      BY <2>1, <2>3, <2>5
    <3> QED BY <2>1, <2>2, <2>4, <3>1, <3>2, CommitKeeps
  <2>6. ASSUME h \notin astray' PROVE Keeps(h)
    <3>1. key = view
      BY <2>1, <2>2, <2>6 DEF Commit
    <3>2. /\ ItemInv(h) /\ Queued(view, h) /\ home[h] = view /\ ran[h] = NoThread /\ ~Sending(h)
          /\ h \notin ToSet(q) /\ \A k \in Keys : Queued(k, h) => k = view
      BY <2>2, <2>4, <2>6 DEF ItemInv, WaitsRight, Base, TypeOK
    <3>3. /\ queue' = q /\ stored'[view] = q
          /\ \A k \in Keys \ {view} : stored'[k] = stored[k]
      BY <2>1, <2>2, <3>1, CommitType DEF Base
    <3>4. \A k \in Keys : ~Queued(k, h)'
      BY <3>2, <3>3 DEF Queued
    <3>5. WaitsRight(h)'
      BY <2>1, <3>1, <3>2, <3>3, <3>4 DEF WaitsRight, Once, ToSet, Queued
    <3>6. SentRight(h)'
      BY <2>1, <2>3, <3>1, <3>2 DEF SentRight, Sending
    <3>7. Held(h) /\ Held(h)'
      <4>1. p \in posts' /\ FromQueue(p) /\ p.item = h
        BY <2>1, <2>3, <3>1 DEF FromQueue
      <4>2. Held(h)
        BY <3>1, <3>2, <2>1 DEF Held
      <4> QED BY <4>1, <4>2 DEF Held, FromQueue
    <3>8. ItemInv(h)' /\ Place(h)' = Place(h)
      BY <2>4, <2>6, <3>2, <3>5, <3>6, <3>7 DEF ItemInv, Place
    <3> QED BY <3>7, <3>8 DEF Keeps
  <2> QED BY <2>4, <2>5, <2>6 DEF Stays
<1> QED BY <1>1, <1>2

(* The server has the message: it takes it, or refuses it.                 *)
LEMMA ServerStep ==
  ASSUME IInv, NEW p \in posts, Accept(p) \/ Refuse(p)
  PROVE  Stays \/ (p.item \in Items \ astray /\ Runs(p.item))
<1> USE DEF IInv
<1> DEFINE i == p.item
           s == IF Accept(p) THEN "accepted" ELSE "refused"
           n == [p EXCEPT !.status = s]
<1>1. /\ p \in Posts /\ p.status \in {"sent", "left"} /\ i \in Items /\ p.thread \in Threads
      /\ p.thread # NoThread /\ view \in Keys
  BY QueueAssumption DEF Accept, Refuse, Undelivered, Base, TypeOK, Posts, PostsInv
<1>2. n.item = i /\ n.thread = p.thread /\ n.key = p.key /\ n.status = s
  BY <1>1 DEF Posts
<1>3. posts' = (posts \ {p}) \cup (IF p.status = "left" THEN {} ELSE {n})
  <2>1. CASE Accept(p)
    BY <2>1 DEF Accept, Status
  <2>2. CASE ~Accept(p)
    BY <2>2 DEF Refuse, Status
  <2> QED BY <2>1, <2>2
<1>4. /\ UNCHANGED <<view, queue, stored, home, astray>>
      /\ ran' \in [Items -> Keys] /\ \A j \in Items \ {i} : ran'[j] = ran[j]
      /\ ran'[i] = IF Accept(p) THEN p.thread ELSE ran[i]
  BY <1>1 DEF Accept, Refuse, Base, TypeOK, Keys
<1>5. s \in {"accepted", "refused"} /\ (s = "accepted" <=> Accept(p))
  OBVIOUS
<1> HIDE DEF n, s
<1>6. ASSUME NEW j \in Items \ (astray \cup {i}) PROVE Keeps(j)
  <2>1. ItemInv(j) /\ j # i
    OBVIOUS
  <2>2. \A x : x.item = j => (x \in posts' <=> x \in posts)
    BY <1>2, <1>3, <2>1
  <2> QED BY <1>4, <2>1, <2>2, Untouched DEF ItemInv, WaitsRight, Queued
<1>7. CASE i \in astray
  BY <1>4, <1>6, <1>7 DEF Stays
<1>8. CASE i \notin astray
  <2>1. ItemInv(i) /\ ran[i] = NoThread /\ home[i] = p.thread /\ Sending(i)
    BY <1>1, <1>8 DEF ItemInv, SentRight, Sending
  <2>2. \A x \in posts' : x.item = i => x = n /\ p.status # "left"
    BY <1>3, <2>1 DEF ItemInv, SentRight
  <2>3. \A k \in Keys : ~Queued(k, i) /\ ~Queued(k, i)'
    BY <1>4, <2>1 DEF ItemInv, WaitsRight, Queued
  <2>4. WaitsRight(i)'
    BY <1>1, <1>4, <2>1, <2>3 DEF ItemInv, WaitsRight, Queued
  <2>5. SentRight(i)'
    BY <1>1, <1>2, <1>4, <1>5, <2>1, <2>2 DEF ItemInv, SentRight
  <2>6. ItemInv(i)'
    BY <1>4, <2>1, <2>4, <2>5 DEF ItemInv
  <2>7. CASE Accept(p)
    <3>1. Place(i) \in {<<"away">>, <<"waits", p.thread>>} /\ Place(i)' = <<"ran", p.thread>>
      BY <1>1, <1>4, <1>8, <2>1, <2>7 DEF Place
    <3> QED BY <1>1, <1>4, <1>6, <1>8, <2>6, <2>7, <3>1 DEF Runs, Others
  <2>8. CASE ~Accept(p)
    <3>1. Held(i) <=> FromQueue(p)
      BY <2>1, <2>3 DEF Held, ItemInv, SentRight
    <3>2. Held(i)' <=> p.status # "left" /\ FromQueue(n)
      BY <1>2, <1>3, <1>4, <2>1, <2>2, <2>3, <2>8 DEF Held, FromQueue
    <3>3. Held(i)' <=> Held(i)
      BY <1>2, <1>5, <3>1, <3>2 DEF FromQueue
    <3>4. Keeps(i)
      BY <1>4, <2>1, <2>6, <2>8, <3>3 DEF Keeps, Place
    <3> QED BY <1>4, <1>6, <3>4 DEF Stays
  <2> QED BY <2>7, <2>8
<1> QED BY <1>7, <1>8

(* The sender hears: a refused message goes back to the front.             *)
LEMMA AnsweredStep ==
  ASSUME IInv, NEW p \in posts, Answered(p)
  PROVE  Stays
<1> USE DEF IInv
<1> DEFINE i == p.item
<1>1. /\ p \in Posts /\ p.status \in {"accepted", "refused"} /\ i \in Items /\ p.key \in Keys
      /\ posts' = posts \ {p} /\ UNCHANGED <<view, ran, home>>
      /\ (FromQueue(p) <=> p.key # NoThread)
  BY DEF Answered, Base, TypeOK, Posts, FromQueue
<1>2. \A j : j # i => \A x : x.item = j => (x \in posts' <=> x \in posts)
  BY <1>1
<1>3. CASE ~(p.status = "refused" /\ FromQueue(p))
  <2>1. UNCHANGED <<queue, stored, astray>>
    BY <1>3 DEF Answered
  <2>2. ASSUME NEW j \in Items \ astray, j # i PROVE Keeps(j)
    BY <1>1, <1>2, <2>1, <2>2, Untouched DEF ItemInv, WaitsRight, Queued
  <2>3. ASSUME i \notin astray PROVE Keeps(i)
    <3>1. ItemInv(i) /\ Sending(i) /\ ~Sending(i)'
      BY <1>1, <2>3 DEF ItemInv, SentRight, Sending
    <3>2. ItemInv(i)'
      BY <1>1, <2>1, <3>1 DEF ItemInv, WaitsRight, SentRight, Queued
    <3>3. Held(i)' <=> Held(i)
      <4>1. CASE p.status = "accepted"
        BY <1>1, <3>1, <4>1 DEF Held, ItemInv, SentRight
      <4>2. CASE p.status = "refused"
        <5>1. ~FromQueue(p) /\ \A x \in posts : x.item = i => x = p
          BY <1>3, <3>1, <4>2 DEF ItemInv, SentRight
        <5> QED BY <1>1, <2>1, <5>1 DEF Held, Queued, FromQueue
      <4> QED BY <1>1, <4>1, <4>2
    <3> QED BY <1>1, <2>1, <3>2, <3>3 DEF Keeps, Place
  <2> QED BY <2>1, <2>2, <2>3 DEF Stays
<1>4. CASE p.status = "refused" /\ FromQueue(p)
  <2> DEFINE q == <<i>> \o queue
  <2>1. Commit(p.key, q) /\ q \in Seq(Items) /\ queue \in Seq(Items)
        /\ ToSet(q) = ToSet(queue) \cup {i}
        /\ (\A j : j # i /\ Once(queue, j) => Once(q, j)) /\ (i \notin ToSet(queue) => Once(q, i))
    BY <1>1, <1>4, PushQueue DEF Answered, RestoreHead, Base, TypeOK
  <2> HIDE DEF q
  <2>2. /\ astray \subseteq astray'
        /\ \A j \in astray' \ astray : \E t \in Threads : Place(j) = <<"waits", t>>
    BY <1>1, <1>4, <2>1, CommitStrays
  <2>3. ASSUME NEW j \in Items \ astray', j # i PROVE Keeps(j)
    <3>1. ItemInv(j) /\ Once(q, j) /\ (j \in ToSet(q) <=> j \in ToSet(queue))
      BY <2>1, <2>2, <2>3 DEF ItemInv, WaitsRight
    <3> QED BY <1>1, <1>2, <2>1, <2>2, <2>3, <3>1, CommitKeeps
  <2>4. ASSUME i \notin astray' PROVE Keeps(i)
    <3>1. p.key = view
      BY <2>1, <2>4 DEF Commit
    <3>2. /\ ItemInv(i) /\ Sending(i) /\ ~Sending(i)' /\ ran[i] = NoThread
          /\ home[i] = view /\ view \in Threads /\ view \in Keys
      BY <1>1, <1>4, <2>2, <2>4, <3>1 DEF ItemInv, SentRight, Sending
    <3>3. \A k \in Keys : ~Queued(k, i)
      BY <3>2 DEF ItemInv, WaitsRight
    <3>4. /\ queue' = q /\ stored'[view] = q
          /\ \A k \in Keys \ {view} : stored'[k] = stored[k]
      BY <1>1, <2>1, <3>1, CommitType DEF Base
    <3>5. i \notin ToSet(queue) /\ Once(q, i) /\ i \in ToSet(q)
      BY <2>1, <3>2, <3>3 DEF ItemInv, WaitsRight
    <3>6. \A k \in Keys : Queued(k, i)' <=> k = view
      BY <3>2, <3>3, <3>4, <3>5 DEF Queued
    <3>7. WaitsRight(i)'
      BY <1>1, <3>2, <3>4, <3>5, <3>6 DEF WaitsRight
    <3>8. ItemInv(i)'
      BY <1>1, <3>2, <3>7 DEF ItemInv, SentRight
    <3>9. Held(i) /\ Held(i)'
      BY <1>4, <3>2, <3>6 DEF Held
    <3> QED BY <1>1, <2>2, <2>4, <3>2, <3>8, <3>9 DEF Keeps, Place
  <2> QED BY <2>2, <2>3, <2>4 DEF Stays
<1> QED BY <1>3, <1>4

LEMMA Step ==
  ASSUME IInv, [Next]_vars
  PROVE  Stays \/ \E i \in Items \ astray : Moves(i)
<1>1. ASSUME NEW i \in Items, Enqueue(i) \/ SendNow(i) \/ Dequeue(i) \/ Promote(i)
      PROVE  Stays \/ \E j \in Items \ astray : Moves(j)
  BY <1>1, EnqueueStep, SendNowStep, DequeueStep, PromoteStep DEF Moves
<1>2. CASE Reload \/ \E k \in Keys : Select(k)
  BY <1>2, ReloadStep, SelectStep
<1>3. CASE Connect \/ Opened \/ Faults \/ Turns \/ (\E t \in Threads : Reviewed(t)) \/ UNCHANGED vars
  BY <1>3, QuietStep DEF Connect, Opened, Faults, Drop, ListFails, Turns, TurnEnds, Reviewed, vars
<1>4. ASSUME NEW s \in States, StateChange(s) PROVE Stays
  <2>1. view \in Threads /\ UNCHANGED <<view, ran, home>>
    BY <1>4 DEF StateChange, IInv, Base, WireInv
  <2>2. CASE s = "idle"
    BY <1>4, <2>1, <2>2, DispatchStep DEF StateChange
  <2>3. CASE s # "idle"
    BY <1>4, <2>1, <2>3, QuietStep DEF StateChange
  <2> QED BY <2>2, <2>3
<1>5. ASSUME NEW r \in reads, ListRead(r) \/ ResyncApplies(r) PROVE Stays
  <2>1. r.thread \in Threads
    BY DEF IInv, Base, TypeOK, Reads
  <2>2. CASE ListRead(r)
    BY <2>2, QuietStep DEF ListRead
  <2>3. CASE ResyncApplies(r)
    BY <2>1, <2>3, DispatchStep, QuietStep DEF ResyncApplies
  <2> QED BY <1>5, <2>2, <2>3
<1>6. ASSUME NEW p \in posts, Accept(p) \/ Refuse(p) \/ Answered(p)
      PROVE  Stays \/ \E j \in Items \ astray : Moves(j)
  BY <1>6, ServerStep, AnsweredStep DEF Moves
<1> QED BY <1>1, <1>2, <1>3, <1>4, <1>5, <1>6 DEF Next, User, Stream, Calls

-----------------------------------------------------------------------------
(***************************************************************************)
(* The invariant, and what it says of the queues.                          *)
(***************************************************************************)

LEMMA InitHolds == Init => IInv
<1> SUFFICES ASSUME Init PROVE IInv
  OBVIOUS
<1>1. Base
  BY QueueAssumption DEF Init, Base, TypeOK, WireInv, PostsInv, Keys, States, None
<1>2. ASSUME NEW i \in Items PROVE ItemInv(i)
  <2>1. view \in Keys /\ ToSet(<<>>) = {} /\ Once(<<>>, i)
    BY DEF Init, Keys, ToSet, Once
  <2> QED BY <2>1 DEF Init, ItemInv, WaitsRight, SentRight, Queued
<1> QED BY <1>1, <1>2 DEF IInv

LEMMA StepHolds == IInv /\ [Next]_vars => IInv'
<1> SUFFICES ASSUME IInv, [Next]_vars PROVE IInv'
  OBVIOUS
<1>1. Base'
  BY BaseHolds DEF IInv
<1>2. CASE Stays
  BY <1>1, <1>2 DEF IInv, Stays, Keeps
<1>3. ASSUME NEW i \in Items \ astray, Moves(i) PROVE IInv'
  <2>1. astray' = astray /\ ItemInv(i)' /\ \A j \in Items \ (astray \cup {i}) : ItemInv(j)'
    BY <1>3 DEF Moves, Writes, Removes, Runs, Others, Keeps
  <2> QED BY <1>1, <2>1 DEF IInv
<1> QED BY <1>2, <1>3, Step

THEOREM Invariant == Spec => []IInv
<1> QED BY InitHolds, StepHolds, PTL DEF Spec

(* Every variable has its type, whatever is lost, refused or late.         *)
THEOREM TypeCorrect == Spec => []TypeOK
<1>1. IInv => TypeOK
  BY DEF IInv, Base
<1> QED BY <1>1, Invariant, PTL

(* What the composer shows is what a reload would show, of every message   *)
(* that is not astray (the cache and localStorage of useMessageQueue).     *)
THEOREM Persisted == Spec => []ShownIsStored
<1>1. IInv => ShownIsStored
  BY DEF IInv, ItemInv, WaitsRight, ShownIsStored
<1> QED BY <1>1, Invariant, PTL

(* A message that is not astray is in one place at a time: a second end of *)
(* a turn during a send, or a refusal, cannot send it twice.               *)
THEOREM OnePlace == Spec => []NeverTwice
<1>1. IInv => NeverTwice
  <2> SUFFICES ASSUME IInv, NEW i \in Items \ astray
               PROVE  /\ \A k \in Keys : Queued(k, i) =>
                           /\ Once(stored[k], i) /\ ran[i] = NoThread /\ ~Sending(i)
                           /\ \A l \in Keys \ {k} : ~Queued(l, i)
                      /\ \A p \in posts : p.item = i => (p.status = "accepted" <=> ran[i] # NoThread)
    BY DEF NeverTwice
  <2> QED BY DEF IInv, ItemInv, WaitsRight, SentRight
<1> QED BY <1>1, Invariant, PTL

(* A message that is not astray waits and runs where it was written; the   *)
(* others need not, which is StaysWithItsThread.                           *)
THEOREM OwnThread == Spec => [](\A i \in Items \ astray : InItsThread(i))
<1>1. IInv => \A i \in Items \ astray : InItsThread(i)
  BY DEF IInv, ItemInv, WaitsRight, InItsThread
<1> QED BY <1>1, Invariant, PTL

-----------------------------------------------------------------------------
(***************************************************************************)
(* What a step may do to a message.                                        *)
(***************************************************************************)

(* A message that waits, in a queue or on its way from one, goes away only *)
(* by running, by the user's hand or astray.                               *)
THEOREM NoLoss == Spec => NothingIsLost
<1>1. ASSUME IInv, [Next]_vars, NEW i \in Items, Held(i)
      PROVE  Held(i)' \/ Dequeue(i) \/ i \in astray'
  <2>1. CASE Stays
    BY <1>1, <2>1 DEF Stays, Keeps
  <2>2. ASSUME NEW j \in Items \ astray, Moves(j) PROVE Held(i)' \/ Dequeue(i) \/ i \in astray'
    <3>1. astray' = astray /\ \A k \in Items \ (astray \cup {j}) : Held(k)' <=> Held(k)
      BY <2>2 DEF Moves, Writes, Removes, Runs, Others, Keeps
    <3>2. CASE i = j
      <4>1. \/ Dequeue(j)
            \/ \E t \in Threads : Place(j)' \in {<<"waits", t>>, <<"ran", t>>}
        BY <2>2 DEF Moves, Writes, Removes, Runs
      <4>2. \A t \in Threads : Place(j)' \in {<<"waits", t>>, <<"ran", t>>} => Held(j)'
        BY DEF Place, Held
      <4> QED BY <3>2, <4>1, <4>2
    <3> QED BY <1>1, <3>1, <3>2
  <2> QED BY <1>1, <2>1, <2>2, Step
<1>2. IInv /\ [Next]_vars => [\A i \in Items : Held(i) => Held(i)' \/ Dequeue(i) \/ i \in astray']_vars
  BY <1>1
<1> QED BY <1>2, Invariant, PTL DEF Spec, NothingIsLost

(* What becomes of a message is what MessageDelivery promises.             *)
THEOREM Delivers == Spec => DeliverySpec
<1> DEFINE place == [i \in Items |-> Place(i)]
<1>1. Init => Delivery!Init
  <2> SUFFICES ASSUME Init, NEW i \in Items PROVE Place(i) = <<"away">>
    BY DEF Delivery!Init, Delivery!Away
  <2> QED BY DEF Init, Place, Held, Queued, ToSet
<1>2. IInv /\ [Next]_vars => [Delivery!Next]_place
  <2> SUFFICES ASSUME IInv, [Next]_vars PROVE Delivery!Next \/ place' = place
    OBVIOUS
  <2>1. CASE Stays
    <3> DEFINE S == astray' \ astray
    <3>1. S \in SUBSET Items
      <4>1. astray' \subseteq Items
        BY BaseHolds DEF IInv, Base, TypeOK
      <4> QED BY <4>1
    <3>2. \A i \in S : \E t \in Threads : place[i] = <<"waits", t>>
      BY <2>1, <3>1 DEF Stays
    <3>3. \A i \in Items : Place(i)' = IF i \in S THEN <<"astray">> ELSE Place(i)
      BY <2>1 DEF Stays, Keeps, Place
    <3>4. place' = [i \in Items |-> IF i \in S THEN <<"astray">> ELSE place[i]]
      BY <3>3
    <3>5. Delivery!Stray(S)
      BY <3>2, <3>4 DEF Delivery!Stray, Delivery!Waits, Delivery!Astray
    <3> QED BY <3>1, <3>5 DEF Delivery!Next
  <2>2. ASSUME NEW i \in Items \ astray, Moves(i) PROVE Delivery!Next
    <3>1. \A j \in Items \ {i} : Place(j)' = Place(j)
      BY <2>2 DEF Moves, Writes, Removes, Runs, Others, Keeps, Place
    <3>2. place' = [place EXCEPT ![i] = Place(i)'] /\ place[i] = Place(i)
      BY <3>1
    <3>3. CASE Writes(i)
      <4>1. PICK t \in Threads : Place(i) = <<"away">> /\ Place(i)' = <<"waits", t>>
        BY <3>3 DEF Writes
      <4>2. Delivery!Write(i, t)
        BY <3>2, <4>1 DEF Delivery!Write, Delivery!Put, Delivery!Away, Delivery!Waits
      <4> QED BY <4>2 DEF Delivery!Next
    <3>4. CASE Removes(i)
      <4>1. PICK t \in Threads : Place(i) = <<"waits", t>> /\ Place(i)' = <<"away">>
        BY <3>4 DEF Removes
      <4>2. Delivery!Remove(i, t)
        BY <3>2, <4>1 DEF Delivery!Remove, Delivery!Put, Delivery!Away, Delivery!Waits
      <4> QED BY <4>2 DEF Delivery!Next
    <3>5. CASE Runs(i)
      <4>1. PICK t \in Threads :
              Place(i) \in {<<"away">>, <<"waits", t>>} /\ Place(i)' = <<"ran", t>>
        BY <3>5 DEF Runs
      <4>2. Delivery!Run(i, t)
        BY <3>2, <4>1 DEF Delivery!Run, Delivery!Put, Delivery!Away, Delivery!Waits, Delivery!Ran
      <4> QED BY <4>2 DEF Delivery!Next
    <3> QED BY <2>2, <3>3, <3>4, <3>5 DEF Moves
  <2> QED BY <2>1, <2>2, Step
<1> QED BY <1>1, <1>2, Invariant, PTL DEF Spec, DeliverySpec, Delivery!Spec

=============================================================================
