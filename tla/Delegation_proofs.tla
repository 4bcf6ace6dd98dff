-------------------------- MODULE Delegation_proofs --------------------------
(***************************************************************************)
(* Proofs about Delegation, for any requests, children, files and number   *)
(* of turns.  Two facts carry the rest: a request under way stands in the  *)
(* queue of its turn exactly once, at the head when it is being handled;   *)
(* and a child that may still write, or has written, has its worktree for  *)
(* as long as the batch is not answered.                                   *)
(***************************************************************************)
EXTENDS Delegation, FiniteSetTheorems, TLAPS

TurnInv == live => turn \in Turns

Waiting == {"queued"} \cup InProgress

(* The queue of a turn: its own requests, each once, the first under way. *)
QueueHolds(n) ==
  LET q == queue[n] IN
    /\ \A i \in 1..Len(q) : /\ caller[q[i]] = n
                            /\ phase[q[i]] \in Waiting
                            /\ i # 1 => phase[q[i]] = "queued"
    /\ \A i, j \in 1..Len(q) : q[i] = q[j] => i = j

Stands(r) == /\ caller[r] \in Turns
             /\ \E i \in 1..Len(queue[caller[r]]) : queue[caller[r]][i] = r

QueueInv == /\ \A n \in Turns : QueueHolds(n)
            /\ \A r \in Requests : phase[r] \in Waiting => Stands(r)

BatchInv == \A r \in Requests : phase[r] \in {"worktrees", "diffs", "cleanup"} => r \in Batches

Untouched(c) ==
  child[c] = "none" /\ runs[c] = "none" /\ worktree[c] = "none" /\ work[c] = {}

ChildHolds(c) ==
  /\ phase[Of[c]] \in {"none", "queued", "worktrees"} => Untouched(c)
  /\ Running(c) => \/ phase[Of[c]] = "children"
                   \/ ~Serial(c) /\ phase[Of[c]] = "answered"
  /\ Serial(c) => worktree[c] = "none" /\ work[c] = {}
  /\ ~Serial(c) /\ phase[Of[c]] \in {"children", "diffs", "cleanup"}
       /\ (Alive(c) \/ work[c] # {}) => worktree[c] = "there"
  /\ c \in looked => phase[Of[c]] = "diffs" /\ worktree[c] = "there"
  /\ c \notin looked => found[c] = {}
  /\ found[c] \subseteq work[c]

ChildInv == \A c \in Children : ChildHolds(c)

IInv == TypeOK /\ TurnInv /\ QueueInv /\ BatchInv /\ ChildInv /\ ConflictsStayResolvable

LEMMA Initially == Init => IInv
<1> SUFFICES ASSUME Init PROVE IInv
  OBVIOUS
<1>1. TypeOK
  <2>1. queue \in [Turns -> Seq(Requests)]
    BY DEF Init
  <2>2. conflicts = {} /\ looked = {}
    BY DEF Init
  <2> QED BY <2>1, <2>2 DEF Init, TypeOK, Phases, Processes, Contents
<1>2. QueueInv
  <2>1. \A n \in Turns : Len(queue[n]) = 0
    BY DEF Init
  <2>2. \A r \in Requests : phase[r] \notin Waiting
    BY DEF Init, Waiting, InProgress
  <2>3. \A n \in Turns : QueueHolds(n)
    BY <2>1 DEF QueueHolds
  <2> QED BY <2>2, <2>3 DEF QueueInv
<1>3. ChildInv
  BY DelegationAssumption DEF Init, ChildInv, ChildHolds, Untouched, Running, Alive
<1>4. TurnInv /\ BatchInv /\ ConflictsStayResolvable
  BY DEF Init, TurnInv, BatchInv, ConflictsStayResolvable
<1> QED BY <1>1, <1>2, <1>3, <1>4 DEF IInv

-----------------------------------------------------------------------------
(***************************************************************************)
(* The queue.                                                              *)
(***************************************************************************)

(* What is handled is the first of its queue.                              *)
LEMMA HandledIsHead ==
  ASSUME IInv, NEW r \in Requests, phase[r] \in InProgress \/ MyTurn(r)
  PROVE  /\ caller[r] \in Turns /\ Len(queue[caller[r]]) >= 1
         /\ queue[caller[r]][1] = r /\ phase[r] \in Waiting
<1> USE DEF IInv
<1>1. phase[r] \in Waiting
  BY DEF MyTurn, Waiting
<1>2. Stands(r)
  BY <1>1 DEF QueueInv
<1> DEFINE q == queue[caller[r]]
<1>3. PICK i \in 1..Len(q) : q[i] = r
  BY <1>2 DEF Stands
<1>4. q \in Seq(Requests) /\ QueueHolds(caller[r])
  BY <1>2 DEF Stands, TypeOK, QueueInv
<1>5. CASE phase[r] \in InProgress
  <2>1. i = 1
    BY <1>3, <1>4, <1>5 DEF QueueHolds, InProgress
  <2> QED BY <1>1, <1>2, <1>3, <1>4, <2>1 DEF Stands
<1>6. CASE MyTurn(r)
  <2>1. q # <<>> /\ Head(q) = r
    BY <1>3, <1>4, <1>6 DEF MyTurn
  <2> QED BY <1>1, <1>2, <1>3, <1>4, <2>1 DEF Stands
<1> QED BY <1>5, <1>6

(* Handling goes on with the queue as it is.                               *)
LEMMA GoingOn ==
  ASSUME IInv, NEW r \in Requests, phase[r] \in InProgress \/ MyTurn(r),
         NEW step \in InProgress, GoTo(r, step), UNCHANGED <<caller, queue>>
  PROVE  QueueInv'
<1> USE DEF IInv
<1>1. /\ caller[r] \in Turns /\ Len(queue[caller[r]]) >= 1
      /\ queue[caller[r]][1] = r /\ phase[r] \in Waiting
  BY HandledIsHead
<1>2. phase' = [phase EXCEPT ![r] = step] /\ phase \in [Requests -> Phases] /\ step \in Waiting
  BY DEF GoTo, TypeOK, Waiting
<1>3. \A s \in Requests : phase'[s] \in Waiting => phase[s] \in Waiting
  BY <1>1, <1>2
<1>4. \A s \in Requests : Stands(s) => Stands(s)'
  BY DEF Stands
<1>5. ASSUME NEW n \in Turns PROVE QueueHolds(n)'
  <2> DEFINE q == queue[n]
  <2>1. q \in Seq(Requests) /\ QueueHolds(n) /\ QueueHolds(caller[r])
    BY <1>1 DEF TypeOK, QueueInv
  <2>2. ASSUME NEW i \in 1..Len(q) PROVE /\ phase'[q[i]] \in Waiting
                                         /\ i # 1 => phase'[q[i]] = "queued"
    <3>1. q[i] \in Requests /\ caller[q[i]] = n
      BY <2>1 DEF QueueHolds
    <3>2. CASE q[i] = r
      <4>1. caller[r] = n /\ q[1] = q[i] /\ 1 \in 1..Len(q)
        BY <1>1, <3>1, <3>2
      <4>2. i = 1
        BY <2>1, <4>1 DEF QueueHolds
      <4> QED BY <1>2, <3>2, <4>2
    <3>3. CASE q[i] # r
      BY <1>2, <2>1, <3>1, <3>3 DEF QueueHolds
    <3> QED BY <3>2, <3>3
  <2> QED BY <2>1, <2>2 DEF QueueHolds
<1> QED BY <1>3, <1>4, <1>5 DEF QueueInv

(* An answer lets the next request come to the head.                       *)
LEMMA Answering ==
  ASSUME IInv, NEW r \in Requests, phase[r] \in InProgress \/ MyTurn(r), AnswerRequest(r)
  PROVE  QueueInv' /\ queue' \in [Turns -> Seq(Requests)]
<1> USE DEF IInv
<1>0. PICK m \in Turns : m = caller[r]
  BY HandledIsHead
<1> DEFINE old == queue[m]
<1>1. m = caller[r] /\ Len(old) >= 1 /\ old[1] = r /\ phase[r] \in Waiting
  BY <1>0, HandledIsHead
<1>2. /\ phase' = [phase EXCEPT ![r] = "answered"] /\ phase \in [Requests -> Phases]
      /\ queue' = [queue EXCEPT ![m] = Tail(old)] /\ queue \in [Turns -> Seq(Requests)]
      /\ caller' = caller
  BY <1>0 DEF AnswerRequest, GoTo, TypeOK
<1>3. old \in Seq(Requests) /\ QueueHolds(m)
  BY <1>1, <1>2 DEF QueueInv
<1>4. /\ Tail(old) \in Seq(Requests) /\ Len(Tail(old)) = Len(old) - 1
      /\ \A i \in 1..Len(Tail(old)) : Tail(old)[i] = old[i + 1]
  BY <1>1, <1>3
<1>5. queue' \in [Turns -> Seq(Requests)] /\ queue'[m] = Tail(old)
      /\ \A n \in Turns \ {m} : queue'[n] = queue[n]
  BY <1>1, <1>2, <1>4
<1>6. QueueHolds(m)'
  <2>1. ASSUME NEW i \in 1..Len(Tail(old))
        PROVE  /\ Tail(old)[i] \in Requests /\ caller[Tail(old)[i]] = m
               /\ phase'[Tail(old)[i]] = "queued"
    <3>1. i + 1 \in 1..Len(old) /\ 1 \in 1..Len(old) /\ i + 1 # 1
      BY <1>1, <1>3, <1>4
    <3>2. /\ old[i + 1] \in Requests /\ caller[old[i + 1]] = m
          /\ phase[old[i + 1]] = "queued" /\ old[i + 1] # old[1]
      BY <1>3, <3>1 DEF QueueHolds
    <3> QED BY <1>1, <1>2, <1>4, <3>2
  <2>2. ASSUME NEW i \in 1..Len(Tail(old)), NEW j \in 1..Len(Tail(old)),
               Tail(old)[i] = Tail(old)[j]
        PROVE  i = j
    <3>1. i + 1 \in 1..Len(old) /\ j + 1 \in 1..Len(old) /\ old[i + 1] = old[j + 1]
      BY <1>3, <1>4, <2>2
    <3>2. i + 1 = j + 1
      BY <1>3, <3>1 DEF QueueHolds
    <3> QED BY <3>2
  <2>3. \A i \in 1..Len(queue'[m]) : /\ caller'[queue'[m][i]] = m
                                     /\ phase'[queue'[m][i]] \in Waiting
                                     /\ phase'[queue'[m][i]] = "queued"
    BY <1>2, <1>5, <2>1 DEF Waiting
  <2>4. \A i, j \in 1..Len(queue'[m]) : queue'[m][i] = queue'[m][j] => i = j
    BY <1>5, <2>2
  <2> HIDE DEF old
  <2> QED BY <2>3, <2>4 DEF QueueHolds
<1>7. ASSUME NEW n \in Turns \ {m} PROVE QueueHolds(n)'
  <2>1. queue[n] \in Seq(Requests) /\ QueueHolds(n) /\ queue'[n] = queue[n]
    BY <1>2, <1>5 DEF QueueInv
  <2>2. \A i \in 1..Len(queue[n]) : /\ queue[n][i] \in Requests
                                    /\ caller[queue[n][i]] = n
                                    /\ queue[n][i] # r
    BY <1>1, <2>1 DEF QueueHolds
  <2>3. \A i \in 1..Len(queue[n]) : phase'[queue[n][i]] = phase[queue[n][i]]
    BY <1>2, <2>2
  <2>4. \A i \in 1..Len(queue[n]) : caller'[queue[n][i]] = caller[queue[n][i]]
    BY <1>2
  <2> QED BY <2>1, <2>3, <2>4 DEF QueueHolds
<1>8. ASSUME NEW s \in Requests, phase'[s] \in Waiting PROVE Stands(s)'
  <2>1. s # r /\ phase[s] \in Waiting
    BY <1>2, <1>8 DEF Waiting, InProgress
  <2>2. Stands(s)
    BY <2>1 DEF QueueInv
  <2>3. CASE caller[s] = m
    <3>1. PICK i \in 1..Len(old) : old[i] = s
      BY <2>2, <2>3 DEF Stands
    <3>2. i # 1 /\ i - 1 \in 1..Len(Tail(old)) /\ (i - 1) + 1 = i
      BY <1>1, <1>3, <1>4, <2>1, <3>1
    <3>3. Tail(old)[i - 1] = s
      BY <1>4, <3>1, <3>2
    <3> QED BY <1>1, <1>2, <1>5, <2>3, <3>2, <3>3 DEF Stands
  <2>4. CASE caller[s] # m
    BY <1>2, <1>5, <2>2, <2>4 DEF Stands
  <2> QED BY <2>3, <2>4
<1>9. \A n \in Turns : QueueHolds(n)'
  BY <1>6, <1>7
<1> QED BY <1>5, <1>8, <1>9 DEF QueueInv

(* A new call is the last of its queue.                                    *)
LEMMA Arriving ==
  ASSUME IInv, NEW r \in Requests, Delegate(r)
  PROVE  QueueInv' /\ queue' \in [Turns -> Seq(Requests)]
<1> USE DEF IInv
<1>1. /\ turn \in Turns /\ phase[r] = "none"
      /\ caller' = [caller EXCEPT ![r] = turn] /\ phase' = [phase EXCEPT ![r] = "queued"]
      /\ caller \in [Requests -> Turns \cup {0}] /\ phase \in [Requests -> Phases]
      /\ queue' = [queue EXCEPT ![turn] = Append(queue[turn], r)]
      /\ queue \in [Turns -> Seq(Requests)]
  BY DEF Delegate, TurnInv, TypeOK
<1>2. PICK m \in Turns : m = turn
  BY <1>1
<1> DEFINE old == queue[m]
<1>3. old \in Seq(Requests) /\ QueueHolds(m)
  BY <1>1 DEF QueueInv
<1>4. /\ Append(old, r) \in Seq(Requests) /\ Len(Append(old, r)) = Len(old) + 1
      /\ \A i \in 1..Len(old) : Append(old, r)[i] = old[i]
      /\ Append(old, r)[Len(old) + 1] = r /\ Len(old) \in Nat
  BY <1>3
<1>5. /\ queue' \in [Turns -> Seq(Requests)] /\ queue'[m] = Append(old, r)
      /\ \A n \in Turns \ {m} : queue'[n] = queue[n]
  BY <1>1, <1>2, <1>4
<1>e. /\ \A i \in 1..Len(old) : phase[old[i]] \in Waiting /\ (i # 1 => phase[old[i]] = "queued")
      /\ \A i, j \in 1..Len(old) : old[i] = old[j] => i = j
  BY <1>3 DEF QueueHolds
<1>6. \A n \in Turns : \A i \in 1..Len(queue[n]) :
        /\ queue[n][i] \in Requests \ {r}
        /\ caller'[queue[n][i]] = n /\ phase'[queue[n][i]] = phase[queue[n][i]]
  <2> SUFFICES ASSUME NEW n \in Turns, NEW i \in 1..Len(queue[n])
               PROVE  /\ queue[n][i] \in Requests \ {r}
                      /\ caller'[queue[n][i]] = n /\ phase'[queue[n][i]] = phase[queue[n][i]]
    OBVIOUS
  <2>1. queue[n] \in Seq(Requests) /\ QueueHolds(n)
    BY <1>1 DEF QueueInv
  <2>2. queue[n][i] \in Requests /\ caller[queue[n][i]] = n /\ phase[queue[n][i]] \in Waiting
    BY <2>1 DEF QueueHolds
  <2>3. queue[n][i] # r
    BY <1>1, <2>2 DEF Waiting, InProgress
  <2> QED BY <1>1, <2>2, <2>3
<1>7. QueueHolds(m)'
  <2>1. ASSUME NEW i \in 1..Len(queue'[m])
        PROVE  /\ caller'[queue'[m][i]] = m /\ phase'[queue'[m][i]] \in Waiting
               /\ i # 1 => phase'[queue'[m][i]] = "queued"
    <3>1. CASE i \in 1..Len(old)
      <4>1. queue'[m][i] = old[i]
        BY <1>4, <1>5, <3>1
      <4>2. caller'[old[i]] = m /\ phase'[old[i]] = phase[old[i]]
        BY <1>6, <3>1
      <4> QED BY <1>e, <3>1, <4>1, <4>2
    <3>2. CASE i = Len(old) + 1
      BY <1>1, <1>2, <1>4, <1>5, <3>2 DEF Waiting
    <3> QED BY <1>4, <1>5, <3>1, <3>2
  <2>2. ASSUME NEW i \in 1..Len(queue'[m]), NEW j \in 1..Len(queue'[m]),
               queue'[m][i] = queue'[m][j]
        PROVE  i = j
    <3>1. \A k \in 1..Len(queue'[m]) : k \in 1..Len(old) <=> queue'[m][k] # r
      BY <1>4, <1>5, <1>6
    <3>2. CASE i \in 1..Len(old)
      <4>1. j \in 1..Len(old)
        BY <2>2, <3>1, <3>2
      <4>2. old[i] = old[j]
        BY <1>4, <1>5, <2>2, <3>2, <4>1
      <4> QED BY <1>e, <3>2, <4>1, <4>2
    <3>3. CASE i \notin 1..Len(old)
      <4>1. j \notin 1..Len(old)
        BY <2>2, <3>1, <3>3
      <4>2. Len(queue'[m]) = Len(old) + 1 /\ Len(old) \in Nat
        BY <1>4, <1>5
      <4> QED BY <3>3, <4>1, <4>2
    <3> QED BY <3>2, <3>3
  <2> HIDE DEF old
  <2> QED BY <2>1, <2>2 DEF QueueHolds
<1>8. ASSUME NEW n \in Turns \ {m} PROVE QueueHolds(n)'
  <2>1. QueueHolds(n) /\ queue'[n] = queue[n]
    BY <1>5 DEF QueueInv
  <2> QED BY <1>6, <2>1 DEF QueueHolds
<1>9. ASSUME NEW s \in Requests, phase'[s] \in Waiting PROVE Stands(s)'
  <2>1. CASE s = r
    BY <1>1, <1>2, <1>4, <1>5, <2>1 DEF Stands
  <2>2. CASE s # r
    <3>1. Stands(s) /\ caller'[s] = caller[s]
      BY <1>1, <1>9, <2>2 DEF QueueInv
    <3>2. PICK i \in 1..Len(queue[caller[s]]) : queue[caller[s]][i] = s
      BY <3>1 DEF Stands
    <3>3. CASE caller[s] = m
      <4>1. i \in 1..Len(old) /\ old[i] = s
        BY <3>2, <3>3
      <4>2. i \in 1..Len(queue'[m]) /\ queue'[m][i] = s
        BY <1>4, <1>5, <4>1
      <4> QED BY <3>1, <3>3, <4>2 DEF Stands
    <3>4. CASE caller[s] # m
      BY <1>5, <3>1, <3>2, <3>4 DEF Stands
    <3> QED BY <3>3, <3>4
  <2> QED BY <2>1, <2>2
<1>10. \A n \in Turns : QueueHolds(n)'
  BY <1>7, <1>8
<1> QED BY <1>5, <1>9, <1>10 DEF QueueInv

-----------------------------------------------------------------------------
(***************************************************************************)
(* What a step does, action by action.                                     *)
(***************************************************************************)

(* The tasks of a batch begin, and it goes on or is answered at once.      *)
LEMMA Preparing ==
  ASSUME NEW r \in Requests, PrepareBatch(r)
  PROVE  /\ phase[r] = "worktrees"
         /\ \E ready \in SUBSET ChildrenOf(r) : \E started, thrown \in SUBSET ready :
              TasksBegin(r, ready, started, thrown)
         /\ \/ GoTo(r, "children") /\ UNCHANGED <<caller, queue>>
            \/ AnswerRequest(r)
<1>1. PICK ready \in SUBSET ChildrenOf(r) : \E started \in SUBSET ready :
        \/ WorktreesReady(r, ready, started)
        \/ \E thrown \in SUBSET (ready \ started) : BatchThrows(r, ready, started, thrown)
  BY DEF PrepareBatch
<1>2. PICK started \in SUBSET ready :
        \/ WorktreesReady(r, ready, started)
        \/ \E thrown \in SUBSET (ready \ started) : BatchThrows(r, ready, started, thrown)
  BY <1>1
<1>3. \E thrown \in SUBSET ready : TasksBegin(r, ready, started, thrown)
  BY <1>2 DEF WorktreesReady, BatchThrows
<1>4. \/ GoTo(r, "children") /\ UNCHANGED <<caller, queue>>
      \/ AnswerRequest(r)
  BY <1>2 DEF WorktreesReady, BatchThrows
<1>5. phase[r] = "worktrees"
  BY DEF PrepareBatch
<1> QED BY <1>3, <1>4, <1>5

LEMMA QueueSteps ==
  ASSUME IInv, Next
  PROVE  QueueInv' /\ queue' \in [Turns -> Seq(Requests)]
<1> USE DEF IInv
<1>a. queue \in [Turns -> Seq(Requests)] /\ QueueInv
  BY DEF TypeOK
<1>b. ASSUME UNCHANGED requestVars PROVE QueueInv' /\ queue' \in [Turns -> Seq(Requests)]
  <2>1. caller' = caller /\ phase' = phase /\ queue' = queue
    BY <1>b DEF requestVars
  <2> QED BY <1>a, <2>1 DEF QueueInv, QueueHolds, Stands
<1>1. CASE RunTurn
  BY <1>1, <1>b DEF RunTurn, StartTurn, FinishTurn, StopTurn, ParentWrites
<1>2. ASSUME NEW r \in Requests, Delegate(r) PROVE QueueInv' /\ queue' \in [Turns -> Seq(Requests)]
  BY <1>2, Arriving
<1>3. ASSUME NEW r \in Requests, Begin(r) PROVE QueueInv' /\ queue' \in [Turns -> Seq(Requests)]
  <2>1. CASE RequestRefused(r) \/ SerialThrows(r)
    BY <2>1, Answering DEF RequestRefused, SerialThrows
  <2>2. CASE BeginSerial(r) \/ BeginBatch(r)
    BY <1>a, <2>2, GoingOn DEF BeginSerial, BeginBatch, InProgress
  <2> QED BY <1>3, <2>1, <2>2 DEF Begin
<1>4. ASSUME NEW r \in Requests, PrepareBatch(r)
      PROVE QueueInv' /\ queue' \in [Turns -> Seq(Requests)]
  <2>1. phase[r] \in InProgress
    BY <1>4, Preparing DEF InProgress
  <2>2. CASE GoTo(r, "children") /\ UNCHANGED <<caller, queue>>
    BY <1>a, <2>1, <2>2, GoingOn DEF InProgress
  <2>3. CASE AnswerRequest(r)
    BY <2>1, <2>3, Answering
  <2> QED BY <1>4, <2>2, <2>3, Preparing
<1>5. ASSUME NEW r \in Requests, FinishBatch(r)
      PROVE QueueInv' /\ queue' \in [Turns -> Seq(Requests)]
  <2>1. CASE BatchJoined(r) \/ Merge(r)
    BY <1>a, <2>1, GoingOn DEF BatchJoined, Merge, InProgress
  <2>2. CASE DiffFailed(r)
    BY <2>2, Answering DEF DiffFailed, InProgress
  <2>3. ASSUME NEW c \in ChildrenOf(r), DiffChild(c)
        PROVE QueueInv' /\ queue' \in [Turns -> Seq(Requests)]
    BY <1>b, <2>3 DEF DiffChild
  <2>4. ASSUME NEW failed \in SUBSET ChildrenOf(r), Cleanup(r, failed)
        PROVE QueueInv' /\ queue' \in [Turns -> Seq(Requests)]
    BY <2>4, Answering DEF Cleanup, InProgress
  <2> QED BY <1>5, <2>1, <2>2, <2>3, <2>4 DEF FinishBatch
<1>6. ASSUME NEW c \in Children, NEW exit, Settles(c, exit)
      PROVE QueueInv' /\ queue' \in [Turns -> Seq(Requests)]
  <2>1. CASE Serial(c)
    <3>1. Of[c] \in Requests /\ phase[Of[c]] \in InProgress
      BY <1>6, <2>1, DelegationAssumption DEF Settles, ChildInv, ChildHolds, InProgress
    <3>2. AnswerRequest(Of[c])
      BY <1>6, <2>1 DEF Settles
    <3> QED BY <3>1, <3>2, Answering
  <2>2. CASE ~Serial(c)
    BY <1>6, <1>b, <2>2 DEF Settles
  <2> QED BY <2>1, <2>2
<1>7. ASSUME NEW c \in Children, Watchdog(c) \/ LeakedTimeout(c) \/ StrayExit(c) \/ Prune(c)
      PROVE QueueInv' /\ queue' \in [Turns -> Seq(Requests)]
  BY <1>b, <1>7 DEF Watchdog, LeakedTimeout, StrayExit, Prune
<1>8. ASSUME NEW c \in Children, NEW f \in Files, ChildWrites(c, f)
      PROVE QueueInv' /\ queue' \in [Turns -> Seq(Requests)]
  BY <1>b, <1>8 DEF ChildWrites
<1>9. ASSUME NEW c \in Children, NEW k \in conflicts, ResolveConflict(k, c)
      PROVE QueueInv' /\ queue' \in [Turns -> Seq(Requests)]
  BY <1>b, <1>9 DEF ResolveConflict
<1>10. CASE Restart
  <2>1. /\ queue' = [n \in Turns |-> <<>>]
        /\ phase' = [r \in Requests |->
             IF phase[r] = "queued" \/ phase[r] \in InProgress THEN "lost" ELSE phase[r]]
    BY <1>10 DEF Restart
  <2>2. queue' \in [Turns -> Seq(Requests)] /\ \A n \in Turns : Len(queue'[n]) = 0
    BY <2>1
  <2>3. \A n \in Turns : QueueHolds(n)'
    BY <2>2 DEF QueueHolds
  <2>4. \A r \in Requests : phase'[r] \notin Waiting
    BY <2>1 DEF Waiting, InProgress
  <2> QED BY <2>2, <2>3, <2>4 DEF QueueInv
<1> QED BY <1>1, <1>2, <1>3, <1>4, <1>5, <1>6, <1>7, <1>8, <1>9, <1>10
        DEF Next, End, ChildEnds, ChildFailsEarly

(* An exclusive path has one writer, and the merge takes that.             *)
LEMMA OneWriter ==
  ASSUME NEW r \in Requests, NEW f \in Files, Exclusive(r, f)
  PROVE  \E c \in Children : Writers(r, f) = {c}
<1>1. Writers(r, f) \in SUBSET Children
  BY DEF Writers, ChildrenOf
<1>2. IsFiniteSet(Writers(r, f))
  BY <1>1, FS_Subset, DelegationAssumption
<1>3. PICK c : Writers(r, f) = {c}
  BY <1>2, FS_Singleton DEF Exclusive
<1> QED BY <1>1, <1>3

LEMMA TypeStep ==
  ASSUME IInv, Next
  PROVE  TypeOK'
<1>q. queue' \in [Turns -> Seq(Requests)]
  BY QueueSteps
<1>t. TypeOK
  BY DEF IInv
<1>o. \A c \in Children : Of[c] \in Requests
  BY DelegationAssumption
<1>1. CASE RunTurn
  <2>1. CASE StartTurn
    <3>1. turn' \in Turns /\ live' \in BOOLEAN
      BY <2>1, <1>t, DelegationAssumption DEF StartTurn, TypeOK, Turns
    <3> QED BY <2>1, <3>1, <1>t DEF StartTurn, TypeOK, requestVars, childVars, fileVars, diffVars
  <2>2. CASE FinishTurn \/ StopTurn
    BY <2>2, <1>t DEF FinishTurn, StopTurn, TypeOK, requestVars, childVars, fileVars, diffVars
  <2>3. ASSUME NEW f \in Files, ParentWrites(f) PROVE TypeOK'
    <3>1. tree' \in [Files -> Contents]
      BY <2>3, <1>t DEF ParentWrites, TypeOK, Contents
    <3> QED BY <2>3, <3>1, <1>t DEF ParentWrites, TypeOK, turnVars, requestVars, childVars, diffVars
  <2> QED BY <1>1, <2>1, <2>2, <2>3 DEF RunTurn
<1>2. ASSUME NEW r \in Requests, Delegate(r) PROVE TypeOK'
  BY <1>2, <1>q, <1>t DEF Delegate, TypeOK, Phases, turnVars, childVars, fileVars, diffVars
<1>3. ASSUME NEW r \in Requests, Begin(r) PROVE TypeOK'
  <2>1. CASE RequestRefused(r) \/ BeginBatch(r)
    BY <2>1, <1>q, <1>t DEF RequestRefused, BeginBatch, AnswerRequest, GoTo,
       TypeOK, Phases, turnVars, childVars, fileVars, diffVars
  <2>2. CASE BeginSerial(r)
    BY <2>2, <1>q, <1>t DEF BeginSerial, GoTo, TypeOK, Phases, Processes, RunStatus, turnVars,
       fileVars, diffVars
  <2>3. CASE SerialThrows(r)
    BY <2>3, <1>q, <1>t DEF SerialThrows, AnswerRequest, GoTo, TypeOK, Phases, Processes, RunStatus,
       turnVars, fileVars, diffVars
  <2> QED BY <1>3, <2>1, <2>2, <2>3 DEF Begin
<1>4. ASSUME NEW r \in Requests, PrepareBatch(r) PROVE TypeOK'
  <2>1. PICK ready, started, thrown : TasksBegin(r, ready, started, thrown)
    BY <1>4, Preparing
  <2>2. phase' \in [Requests -> Phases] /\ caller' = caller
    BY <1>4, <1>t, Preparing DEF AnswerRequest, GoTo, TypeOK, Phases
  <2>3. child' \in [Children -> Processes]
    BY <2>1, <1>t DEF TasksBegin, TypeOK, Processes
  <2>4. /\ runs' \in [Children -> RunStatus \cup {"none"}]
        /\ worktree' \in [Children -> {"none", "there", "removed", "pruned"}]
    BY <2>1, <1>t DEF TasksBegin, TypeOK, RunStatus
  <2> QED BY <2>1, <2>2, <2>3, <2>4, <1>q, <1>t DEF TasksBegin, TypeOK, turnVars, diffVars
<1>5. ASSUME NEW r \in Requests, FinishBatch(r) PROVE TypeOK'
  <2>1. CASE BatchJoined(r) \/ DiffFailed(r)
    BY <2>1, <1>q, <1>t DEF BatchJoined, DiffFailed, ForgetDiffs, AnswerRequest, GoTo,
       TypeOK, Phases, turnVars, childVars, fileVars, diffVars
  <2>2. CASE Merge(r)
    <3>1. tree' \in [Files -> Contents]
      <4>1. \A f \in Files : Exclusive(r, f) => \E c \in Children : c \in Writers(r, f)
        BY OneWriter
      <4>2. \A f \in Files : Writers(r, f) \subseteq Children
        BY DEF Writers, ChildrenOf
      <4>3. \A f \in Files : Exclusive(r, f) => (CHOOSE c \in Writers(r, f) : TRUE) \in Contents
        BY <4>1, <4>2 DEF Contents
      <4> QED BY <2>2, <1>t, <4>3 DEF Merge, TypeOK
    <3>2. conflicts' \subseteq [batch : Requests, file : Files, candidates : SUBSET Children,
                                status : {"conflict", "pending"}]
      BY <2>2, <1>t DEF Merge, TypeOK, Writers, ChildrenOf
    <3> QED BY <2>2, <1>q, <1>t, <3>1, <3>2 DEF Merge, ForgetDiffs, GoTo, TypeOK, Phases,
            turnVars, childVars
  <2>3. ASSUME NEW c \in ChildrenOf(r), DiffChild(c) PROVE TypeOK'
    BY <2>3, <1>q, <1>t DEF DiffChild, ChildrenOf, TypeOK, turnVars, requestVars, childVars
  <2>4. ASSUME NEW failed \in SUBSET ChildrenOf(r), Cleanup(r, failed) PROVE TypeOK'
    BY <2>4, <1>q, <1>t DEF Cleanup, AnswerRequest, GoTo, TypeOK, Phases, turnVars, childVars,
       diffVars
  <2> QED BY <1>5, <2>1, <2>2, <2>3, <2>4 DEF FinishBatch
<1>6. ASSUME NEW c \in Children, NEW exit \in {"completed", "error"}, Settles(c, exit),
             NEW end \in {"ended", "stray"}, child' = [child EXCEPT ![c] = end]
      PROVE  TypeOK'
  BY <1>6, <1>q, <1>t, <1>o DEF Settles, FinalStatus, AnswerRequest, GoTo, TypeOK, Phases,
     Processes, RunStatus, turnVars, requestVars, fileVars, diffVars
<1>7. ASSUME NEW c \in Children, Watchdog(c) \/ LeakedTimeout(c) \/ StrayExit(c) \/ Prune(c)
      PROVE  TypeOK'
  BY ZenonT(60), <1>7, <1>q, <1>t DEF Watchdog, LeakedTimeout, AbortedChild, StrayExit, Prune,
     TypeOK, Processes, RunStatus, turnVars, requestVars, childVars, fileVars, diffVars
<1>8. ASSUME NEW c \in Children, NEW f \in Files, ChildWrites(c, f) PROVE TypeOK'
  <2>1. tree' \in [Files -> Contents] /\ work' \in [Children -> SUBSET Files]
    <3>1. CASE Serial(c)
      BY <1>8, <1>t, <3>1 DEF ChildWrites, TypeOK, Contents
    <3>2. CASE ~Serial(c)
      BY SMTT(30), <1>8, <1>t, <3>2 DEF ChildWrites, TypeOK
    <3> QED BY <3>1, <3>2
  <2> QED BY <1>8, <2>1, <1>t DEF ChildWrites, TypeOK, turnVars, requestVars, childVars, diffVars
<1>9. ASSUME NEW c \in Children, NEW k \in conflicts, ResolveConflict(k, c) PROVE TypeOK'
  BY <1>9, <1>q, <1>t DEF ResolveConflict, Materialized, TypeOK, Contents, turnVars, requestVars,
     childVars, diffVars
<1>10. CASE Restart
  BY <1>10, <1>q, <1>t DEF Restart, TypeOK, Phases, Processes
<1> QED BY <1>1, <1>2, <1>3, <1>4, <1>5, <1>6, <1>7, <1>8, <1>9, <1>10
        DEF Next, End, ChildEnds, ChildFailsEarly

LEMMA TurnSteps ==
  ASSUME IInv, Next
  PROVE  TurnInv'
<1> USE DEF IInv, TurnInv
<1>1. CASE StartTurn
  BY <1>1, DelegationAssumption DEF StartTurn, TypeOK, Turns
<1>2. CASE live' = FALSE
  BY <1>2
<1>3. CASE UNCHANGED turnVars
  BY <1>3 DEF turnVars
<1> QED BY ZenonT(60), <1>1, <1>2, <1>3
    DEF Next, RunTurn, FinishTurn, StopTurn, ParentWrites, Delegate, Begin,
        RequestRefused, BeginSerial, SerialThrows, BeginBatch, PrepareBatch, WorktreesReady,
        BatchThrows, TasksBegin, FinishBatch,
        BatchJoined, Merge, DiffFailed, DiffChild, Cleanup, Watchdog, LeakedTimeout, End, ChildEnds,
        ChildFailsEarly, Settles, StrayExit, Prune, ChildWrites, ResolveConflict, Restart

(* Nothing about the children, or only more of their work.                 *)
LEMMA ChildrenAlone ==
  ASSUME ChildInv, UNCHANGED <<child, runs, worktree, work, diffVars, phase>>
  PROVE  ChildInv'
BY DEF ChildInv, ChildHolds, Untouched, Running, Alive, diffVars

LEMMA ChildSteps ==
  ASSUME IInv, Next
  PROVE  BatchInv' /\ ChildInv'
<1> USE DEF IInv
<1>t. TypeOK /\ BatchInv /\ ChildInv
  OBVIOUS
<1>o. \A c \in Children : Of[c] \in Requests /\ ChildHolds(c)
  BY DelegationAssumption DEF ChildInv
<1>u. ASSUME UNCHANGED <<child, runs, worktree, work, diffVars, phase>> PROVE BatchInv' /\ ChildInv'
  BY <1>u, ChildrenAlone DEF BatchInv
<1>1. CASE RunTurn
  BY <1>1, <1>u DEF RunTurn, StartTurn, FinishTurn, StopTurn, ParentWrites, requestVars, childVars,
     fileVars, diffVars
<1>2. ASSUME NEW r \in Requests, Delegate(r) PROVE BatchInv' /\ ChildInv'
  BY <1>2, <1>t, <1>o DEF Delegate, TypeOK, BatchInv, ChildInv, ChildHolds, Untouched, Running, Alive,
     childVars, fileVars, diffVars
<1>3. ASSUME NEW r \in Requests, Begin(r) PROVE BatchInv' /\ ChildInv'
  <2>0. CASE SerialThrows(r)
    BY <2>0, <1>t, <1>o DEF SerialThrows, MyTurn, AnswerRequest, GoTo, TypeOK, BatchInv, ChildInv,
       ChildHolds, Untouched, Running, Alive, Serial, fileVars, diffVars
  <2>1. CASE RequestRefused(r)
    BY <2>1, <1>t, <1>o DEF RequestRefused, MyTurn, AnswerRequest, GoTo, TypeOK, BatchInv, ChildInv,
       ChildHolds, Untouched, Running, Alive, childVars, fileVars, diffVars
  <2>2. CASE BeginSerial(r)
    BY <2>2, <1>t, <1>o DEF BeginSerial, MyTurn, GoTo, TypeOK, BatchInv, ChildInv,
       ChildHolds, Untouched, Running, Alive, Serial, fileVars, diffVars
  <2>3. CASE BeginBatch(r)
    BY <2>3, <1>t, <1>o DEF BeginBatch, MyTurn, GoTo, TypeOK, BatchInv, ChildInv,
       ChildHolds, Untouched, Running, Alive, Serial, childVars, fileVars, diffVars
  <2> QED BY <1>3, <2>0, <2>1, <2>2, <2>3 DEF Begin
<1>4. ASSUME NEW r \in Requests, PrepareBatch(r) PROVE BatchInv' /\ ChildInv'
  <2>1. PICK ready \in SUBSET ChildrenOf(r) : \E started, thrown \in SUBSET ready :
          TasksBegin(r, ready, started, thrown)
    BY <1>4, Preparing
  <2>2. PICK started \in SUBSET ready : \E thrown \in SUBSET ready :
          TasksBegin(r, ready, started, thrown)
    BY <2>1
  <2>3. PICK thrown \in SUBSET ready : TasksBegin(r, ready, started, thrown)
    BY <2>2
  <2>4. PICK step \in {"children", "answered"} : phase' = [phase EXCEPT ![r] = step]
    BY <1>4, Preparing DEF AnswerRequest, GoTo
  <2>5. r \in Batches /\ phase[r] = "worktrees"
    BY <1>4, Preparing DEF BatchInv
  <2>6. BatchInv'
    BY <2>4, <1>t DEF BatchInv, TypeOK
  <2>7. ASSUME NEW c \in Children PROVE ChildHolds(c)'
    <3>1. CASE Of[c] = r
      <4>1. /\ worktree'[c] = IF c \in ready THEN "there" ELSE worktree[c]
            /\ child'[c] \in {"running", "unstarted", "ended", "skipped"}
            /\ child'[c] = "running" => c \in ready
            /\ work' = work /\ looked' = looked /\ found' = found /\ phase'[r] = step
        BY <1>t, <2>3, <2>4, <3>1 DEF TasksBegin, diffVars, TypeOK
      <4>2. Untouched(c) /\ ~Serial(c) /\ c \notin looked /\ found[c] = {}
        BY <1>o, <2>5, <3>1 DEF ChildHolds, Serial
      <4> QED BY <2>4, <3>1, <4>1, <4>2 DEF ChildHolds, Untouched, Running, Alive, Serial
    <3>2. CASE Of[c] # r
      <4>1. c \notin ready
        BY <3>2 DEF ChildrenOf
      <4>2. /\ worktree'[c] = worktree[c] /\ child'[c] = child[c] /\ runs'[c] = runs[c]
            /\ work' = work /\ looked' = looked /\ found' = found /\ phase'[Of[c]] = phase[Of[c]]
        BY <1>t, <1>o, <2>3, <2>4, <3>2, <4>1 DEF TasksBegin, diffVars, TypeOK
      <4> QED BY <1>o, <4>2 DEF ChildHolds, Untouched, Running, Alive, Serial
    <3> QED BY <3>1, <3>2
  <2> QED BY <2>6, <2>7 DEF ChildInv
<1>5. ASSUME NEW r \in Requests, FinishBatch(r) PROVE BatchInv' /\ ChildInv'
  <2>1. CASE BatchJoined(r)
    BY <2>1, <1>t, <1>o DEF BatchJoined, Awaited, ChildrenOf, GoTo, TypeOK, BatchInv, ChildInv,
       ChildHolds, Untouched, Running, Alive, Serial, childVars, fileVars, diffVars
  <2>2. CASE Merge(r)
    BY <2>2, <1>t, <1>o DEF Merge, ForgetDiffs, ChildrenOf, GoTo, TypeOK, BatchInv, ChildInv,
       ChildHolds, Untouched, Running, Alive, Serial, childVars
  <2>3. CASE DiffFailed(r)
    BY <2>3, <1>t, <1>o DEF DiffFailed, ForgetDiffs, ChildrenOf, AnswerRequest, GoTo, TypeOK, BatchInv,
       ChildInv, ChildHolds, Untouched, Running, Alive, Serial, childVars
  <2>4. ASSUME NEW c \in ChildrenOf(r), DiffChild(c) PROVE BatchInv' /\ ChildInv'
    BY <2>4, <1>t, <1>o DEF DiffChild, Diffed, ChildrenOf, TypeOK, BatchInv, ChildInv,
       ChildHolds, Untouched, Running, Alive, Serial, childVars, requestVars
  <2>5. ASSUME NEW failed \in SUBSET ChildrenOf(r), Cleanup(r, failed) PROVE BatchInv' /\ ChildInv'
    BY <2>5, <1>t, <1>o DEF Cleanup, AnswerRequest, GoTo, TypeOK, BatchInv, ChildInv,
       ChildHolds, Untouched, Running, Alive, Serial, childVars, diffVars
  <2> QED BY <1>5, <2>1, <2>2, <2>3, <2>4, <2>5 DEF FinishBatch
<1>6. ASSUME NEW c \in Children, NEW exit \in {"completed", "error"}, Settles(c, exit),
             NEW end \in {"ended", "stray"}, child' = [child EXCEPT ![c] = end]
      PROVE  BatchInv' /\ ChildInv'
  <2>0. Running(c) /\ (Serial(c) => phase[Of[c]] = "children") /\ Of[c] \in Requests
    BY <1>6, <1>o DEF Settles, ChildHolds
  <2>1. CASE Serial(c)
    <3>1. \A d \in Children \ {c} : Of[d] # Of[c]
      BY <2>1, DelegationAssumption DEF Serial
    <3>2. phase' = [phase EXCEPT ![Of[c]] = "answered"]
      BY <1>6, <2>1 DEF Settles, AnswerRequest, GoTo
    <3> QED BY <1>6, <1>t, <1>o, <2>0, <2>1, <3>1, <3>2 DEF Settles, TypeOK, BatchInv, ChildInv,
            ChildHolds, Untouched, Running, Alive, Serial, fileVars, diffVars
  <2>2. CASE ~Serial(c)
    BY <1>6, <1>t, <1>o, <2>0, <2>2 DEF Settles, TypeOK, BatchInv, ChildInv, ChildHolds, Untouched,
       Running, Alive, Serial, requestVars, fileVars, diffVars
  <2> QED BY <2>1, <2>2
<1>7. ASSUME NEW c \in Children, Watchdog(c) \/ LeakedTimeout(c) \/ StrayExit(c)
      PROVE  BatchInv' /\ ChildInv'
  BY <1>7, <1>t, <1>o DEF Watchdog, LeakedTimeout, AbortedChild, StrayExit, TypeOK, BatchInv, ChildInv, ChildHolds,
     Untouched, Running, Alive, Serial, requestVars, fileVars, diffVars
<1>8. ASSUME NEW c \in Children, Prune(c) PROVE BatchInv' /\ ChildInv'
  BY <1>8, <1>t, <1>o DEF Prune, TypeOK, BatchInv, ChildInv, ChildHolds,
     Untouched, Running, Alive, Serial, requestVars, childVars, diffVars
<1>9. ASSUME NEW c \in Children, NEW f \in Files, ChildWrites(c, f) PROVE BatchInv' /\ ChildInv'
  <2>1. CASE Serial(c)
    BY <1>9, <1>u, <2>1 DEF ChildWrites, requestVars, childVars, diffVars
  <2>2. CASE ~Serial(c)
    <3>1. /\ work' = [work EXCEPT ![c] = @ \cup {f}] /\ Alive(c)
          /\ UNCHANGED <<child, runs, worktree, looked, found, phase>>
      BY <1>9, <2>2 DEF ChildWrites, requestVars, childVars, diffVars
    <3>2. ChildHolds(c)'
      BY <1>t, <1>o, <2>2, <3>1 DEF TypeOK, ChildHolds, Untouched, Running, Alive, Serial
    <3>3. \A d \in Children \ {c} : ChildHolds(d)'
      BY <1>t, <1>o, <3>1 DEF TypeOK, ChildHolds, Untouched, Running, Alive, Serial
    <3> QED BY <1>t, <3>1, <3>2, <3>3 DEF BatchInv, ChildInv
  <2> QED BY <2>1, <2>2
<1>10. ASSUME NEW c \in Children, NEW k \in conflicts, ResolveConflict(k, c)
       PROVE  BatchInv' /\ ChildInv'
  BY <1>10, <1>u DEF ResolveConflict, requestVars, childVars, diffVars
<1>11. CASE Restart
  BY <1>11, <1>t, <1>o DEF Restart, TypeOK, Phases, InProgress, BatchInv, ChildInv, ChildHolds,
     Untouched, Running, Alive, Serial
<1> QED BY <1>1, <1>2, <1>3, <1>4, <1>5, <1>6, <1>7, <1>8, <1>9, <1>10, <1>11
        DEF Next, End, ChildEnds, ChildFailsEarly

(* What a child wrote stays written, and its worktree is not removed.      *)
LEMMA WorkStays ==
  ASSUME IInv, Next, NEW c \in Children
  PROVE  /\ work[c] \subseteq work'[c]
         /\ worktree[c] \in {"there", "pruned"} /\ work[c] # {}
              => worktree'[c] \in {"there", "pruned"}
<1> USE DEF IInv
<1>t. TypeOK /\ ChildHolds(c)
  BY DEF ChildInv
<1> DEFINE Stays == /\ work[c] \subseteq work'[c]
                    /\ worktree[c] \in {"there", "pruned"} /\ work[c] # {}
                         => worktree'[c] \in {"there", "pruned"}
<1>u. ASSUME UNCHANGED <<worktree, work>> PROVE Stays
  BY <1>u
<1>1. CASE RunTurn
  BY <1>1, <1>u DEF RunTurn, StartTurn, FinishTurn, StopTurn, ParentWrites, fileVars
<1>2. ASSUME NEW r \in Requests, Delegate(r) \/ Begin(r) PROVE Stays
  BY <1>2, <1>u DEF Delegate, Begin, RequestRefused, BeginSerial, SerialThrows, BeginBatch,
     fileVars
<1>3. ASSUME NEW r \in Requests, PrepareBatch(r) PROVE Stays
  BY <1>3, <1>t, Preparing DEF TasksBegin, TypeOK
<1>4. ASSUME NEW r \in Requests, FinishBatch(r) PROVE Stays
  <2>1. CASE BatchJoined(r) \/ Merge(r) \/ DiffFailed(r) \/ \E d \in ChildrenOf(r) : DiffChild(d)
    BY <2>1, <1>u DEF BatchJoined, Merge, DiffFailed, DiffChild, fileVars
  <2>2. ASSUME NEW failed \in SUBSET ChildrenOf(r), Cleanup(r, failed) PROVE Stays
    BY <2>2, <1>t DEF Cleanup, Removable, TypeOK
  <2> QED BY <1>4, <2>1, <2>2 DEF FinishBatch
<1>5. ASSUME NEW d \in Children, Watchdog(d) \/ LeakedTimeout(d) \/ End(d) \/ ChildFailsEarly(d)
                                \/ StrayExit(d)
      PROVE  Stays
  BY <1>5, <1>u DEF Watchdog, LeakedTimeout, End, ChildEnds, ChildFailsEarly, Settles, StrayExit, fileVars
<1>6. ASSUME NEW d \in Children, Prune(d) PROVE Stays
  BY <1>6, <1>t DEF Prune, TypeOK
<1>7. ASSUME NEW d \in Children, NEW f \in Files, ChildWrites(d, f) PROVE Stays
  BY <1>7, <1>t DEF ChildWrites, TypeOK
<1>8. ASSUME NEW d \in Children, NEW k \in conflicts, ResolveConflict(k, d) PROVE Stays
  BY <1>8, <1>u DEF ResolveConflict
<1>9. CASE Restart
  BY <1>9, <1>u DEF Restart
<1> QED BY <1>1, <1>2, <1>3, <1>4, <1>5, <1>6, <1>7, <1>8, <1>9 DEF Next

(* Rows come from a merge, or lose their candidates when resolved.         *)
LEMMA ConflictSource ==
  ASSUME IInv, Next, NEW k \in conflicts'
  PROVE  \/ k \in conflicts \/ k.candidates = {}
         \/ \E r \in Requests : \E f \in Files :
               Merge(r) /\ k = [batch |-> r, file |-> f, candidates |-> Writers(r, f),
                              status |-> "conflict"]
<1>1. CASE UNCHANGED conflicts
  BY <1>1
<1>2. ASSUME NEW r \in Requests, Merge(r)
      PROVE  \/ k \in conflicts
             \/ \E f \in Files : k = [batch |-> r, file |-> f, candidates |-> Writers(r, f),
                                     status |-> "conflict"]
  BY <1>2 DEF Merge
<1>3. ASSUME NEW c \in Children, NEW l \in conflicts, ResolveConflict(l, c)
      PROVE  k \in conflicts \/ k.candidates = {}
  <2>1. l \in [batch : Requests, file : Files, candidates : SUBSET Children,
              status : {"conflict", "pending"}]
    BY DEF IInv, TypeOK
  <2> QED BY <1>3, <2>1 DEF ResolveConflict
<1> QED BY <1>1, <1>2, <1>3 DEF Next, RunTurn, StartTurn, FinishTurn, StopTurn, ParentWrites, Delegate,
        Begin, RequestRefused, BeginSerial, SerialThrows, BeginBatch, PrepareBatch, WorktreesReady,
        BatchThrows, TasksBegin, FinishBatch,
        BatchJoined, DiffFailed, DiffChild, Cleanup, Watchdog, LeakedTimeout, End, ChildEnds, ChildFailsEarly,
        Settles, StrayExit, Prune, ChildWrites, Restart, fileVars

LEMMA ConflictSteps ==
  ASSUME IInv, Next
  PROVE  ConflictsStayResolvable'
<1> SUFFICES ASSUME NEW k \in conflicts', NEW c \in k.candidates
             PROVE  k.file \in work'[c] /\ worktree'[c] \in {"there", "pruned"}
  BY DEF ConflictsStayResolvable
<1>1. CASE k \in conflicts
  <2>1. c \in Children
    BY <1>1 DEF IInv, TypeOK
  <2>2. k.file \in work[c] /\ worktree[c] \in {"there", "pruned"}
    BY <1>1 DEF IInv, ConflictsStayResolvable
  <2> QED BY <2>1, <2>2, WorkStays
<1>2. ASSUME NEW r \in Requests, NEW f \in Files, Merge(r),
             k = [batch |-> r, file |-> f, candidates |-> Writers(r, f), status |-> "conflict"]
      PROVE  k.file \in work'[c] /\ worktree'[c] \in {"there", "pruned"}
  <2>1. c \in Children /\ f \in found[c]
    BY <1>2 DEF Writers, ChildrenOf
  <2>2. c \in looked /\ worktree[c] = "there" /\ f \in work[c]
    BY <2>1 DEF IInv, ChildInv, ChildHolds
  <2> QED BY <1>2, <2>2 DEF Merge
<1> QED BY <1>1, <1>2, ConflictSource

-----------------------------------------------------------------------------
(***************************************************************************)
(* Theorems.                                                               *)
(***************************************************************************)

(* Requests stand in their queue once, and what a child may have written   *)
(* is kept until the batch is answered.                                    *)
THEOREM Invariant == Spec => []IInv
<1>1. IInv /\ Next => IInv'
  BY TypeStep, TurnSteps, QueueSteps, ChildSteps, ConflictSteps DEF IInv
<1>2. IInv /\ UNCHANGED vars => IInv'
  <2> SUFFICES ASSUME IInv, UNCHANGED vars PROVE IInv'
    OBVIOUS
  <2>1. UNCHANGED <<turn, live, caller, phase, queue, child, runs, worktree, work, looked, found,
                    tree, conflicts>>
    BY DEF vars, turnVars, requestVars, childVars, fileVars, diffVars
  <2>2. TypeOK' /\ TurnInv' /\ ConflictsStayResolvable'
    BY <2>1 DEF IInv, TypeOK, TurnInv, ConflictsStayResolvable
  <2>3. QueueInv' /\ BatchInv'
    BY <2>1 DEF IInv, QueueInv, QueueHolds, Stands, BatchInv
  <2>4. ASSUME NEW c \in Children PROVE ChildHolds(c)'
    <3>1. ChildHolds(c)
      BY DEF IInv, ChildInv
    <3> QED BY <2>1, <3>1 DEF ChildHolds, Untouched, Running, Alive, Serial
  <2> QED BY <2>2, <2>3, <2>4 DEF IInv, ChildInv
<1> QED BY Initially, <1>1, <1>2, PTL DEF Spec

(* Every variable keeps its type.                                          *)
THEOREM TypeCorrect == Spec => []TypeOK
<1>1. IInv => TypeOK
  BY DEF IInv
<1> QED BY <1>1, Invariant, PTL

(* Calls of one turn are handled one at a time: two that are being handled *)
(* would both be the head of the queue of their turn.                      *)
THEOREM Serialised == Spec => []OneDelegationPerTurn
<1>1. ASSUME IInv PROVE OneDelegationPerTurn
  BY <1>1, HandledIsHead DEF OneDelegationPerTurn
<1> QED BY <1>1, Invariant, PTL

(* The worktree of a candidate is there, with its version, until somebody  *)
(* else removes it.                                                        *)
THEOREM Resolvable == Spec => []ConflictsStayResolvable
<1>1. IInv => ConflictsStayResolvable
  BY DEF IInv
<1> QED BY <1>1, Invariant, PTL

(* A run is settled once: only runs of untouched children begin, and a     *)
(* result or the watchdog closes one that is running (currentStatus).      *)
THEOREM SettledOnce == Spec => RunSettlesOnce
<1>1. ASSUME IInv, [Next]_vars
      PROVE  [\A c \in Children :
                runs[c] \in RunStatus \ {"running"} => runs'[c] = runs[c]]_vars
  <2> SUFFICES ASSUME NEW c \in Children, runs[c] \in RunStatus \ {"running"}, Next
               PROVE  runs'[c] = runs[c]
    BY <1>1
  <2>t. TypeOK /\ ChildHolds(c)
    BY <1>1 DEF IInv, ChildInv
  <2>o. phase[Of[c]] \notin {"none", "queued", "worktrees"}
    BY <2>t DEF ChildHolds, Untouched, RunStatus
  <2>1. CASE UNCHANGED runs
    BY <2>1
  <2>2. ASSUME NEW r \in Requests, BeginSerial(r) \/ SerialThrows(r) PROVE runs'[c] = runs[c]
    BY <2>2, <2>o DEF BeginSerial, SerialThrows, MyTurn
  <2>3. ASSUME NEW r \in Requests, PrepareBatch(r) PROVE runs'[c] = runs[c]
    <3>1. Of[c] # r
      BY <2>3, <2>o, Preparing
    <3>2. PICK ready \in SUBSET ChildrenOf(r) : \E started, thrown \in SUBSET ready :
            TasksBegin(r, ready, started, thrown)
      BY <2>3, Preparing
    <3>3. c \notin ready
      BY <3>1 DEF ChildrenOf
    <3> QED BY <3>2, <3>3 DEF TasksBegin
  <2>4. ASSUME NEW d \in Children, Watchdog(d) \/ LeakedTimeout(d) PROVE runs'[c] = runs[c]
    BY <2>4, <2>t DEF Watchdog, LeakedTimeout, TypeOK
  <2>5. ASSUME NEW d \in Children, NEW exit, Settles(d, exit) PROVE runs'[c] = runs[c]
    BY <2>5, <2>t DEF Settles, FinalStatus, TypeOK
  <2> QED BY <2>1, <2>2, <2>3, <2>4, <2>5 DEF Next, RunTurn, StartTurn, FinishTurn, StopTurn,
          ParentWrites, Delegate, Begin, RequestRefused, BeginBatch, PrepareBatch, FinishBatch,
          BatchJoined, Merge, DiffFailed, DiffChild, Cleanup, End, ChildEnds, ChildFailsEarly,
          StrayExit, Prune, ChildWrites, ResolveConflict, Restart, childVars
<1> QED BY <1>1, Invariant, PTL DEF Spec, RunSettlesOnce

(* Of the children of a batch in its diffs, none has work that the merge   *)
(* does not see: one that was not looked at has no worktree, hence no work.*)
LEMMA LeftIsFound ==
  ASSUME IInv, NEW c \in Children, NEW f, f \in Left(c), phase[Of[c]] = "diffs",
         Diffed(Of[c]) \subseteq looked
  PROVE  c \in Writers(Of[c], f)
<1>1. ChildHolds(c) /\ Of[c] \in Requests
  BY DelegationAssumption DEF IInv, ChildInv
<1>2. CASE c \in looked
  BY <1>2 DEF Left, Writers, ChildrenOf
<1>3. CASE c \notin looked
  <2>1. work[c] # {}
    BY <1>3 DEF Left
  <2>2. worktree[c] = "there"
    BY <1>1, <2>1 DEF ChildHolds
  <2> QED BY <1>3, <2>2 DEF Diffed, ChildrenOf
<1> QED BY <1>2, <1>3

(* What any child of a batch left, also one that failed, is in the tree or *)
(* a candidate after the merge (mergeParallelChildDiffs).                  *)
THEOREM NothingLost == Spec => MergeLosesNoWork
<1>1. ASSUME IInv, [Next]_vars
      PROVE  [\A c \in Children :
                phase[Of[c]] = "diffs" /\ phase'[Of[c]] = "cleanup" =>
                  \A f \in Left(c) :
                    \/ tree'[f] = c
                    \/ \E k \in conflicts' :
                         k.batch = Of[c] /\ k.file = f /\ c \in k.candidates]_vars
  <2> SUFFICES ASSUME NEW c \in Children, NEW f \in Left(c), Next,
                      phase[Of[c]] = "diffs", phase'[Of[c]] = "cleanup"
               PROVE  \/ tree'[f] = c
                      \/ \E k \in conflicts' :
                           k.batch = Of[c] /\ k.file = f /\ c \in k.candidates
    BY <1>1
  <2> DEFINE r == Of[c]
  <2>t. TypeOK /\ r \in Requests /\ f \in Files
    BY <1>1, DelegationAssumption DEF IInv, TypeOK, Left
  <2>1. Merge(r)
    <3>1. CASE UNCHANGED phase
      BY <3>1
    <3>2. ASSUME NEW q \in Requests, NEW step \in Phases \ {"cleanup"}, GoTo(q, step) PROVE FALSE
      BY <3>2, <2>t DEF GoTo, TypeOK
    <3>3. ASSUME NEW q \in Requests, Merge(q) PROVE Merge(r)
      <4>1. GoTo(q, "cleanup")
        BY <3>3 DEF Merge
      <4>2. q = r
        BY <2>t, <4>1 DEF GoTo, TypeOK
      <4> QED BY <3>3, <4>2
    <3>4. ASSUME NEW q \in Requests, Delegate(q) PROVE FALSE
      BY <3>4, <2>t DEF Delegate, TypeOK
    <3>5. ASSUME NEW d \in Children, NEW exit, Settles(d, exit) PROVE FALSE
      BY <3>5, <2>t, DelegationAssumption DEF Settles, AnswerRequest, GoTo, TypeOK, requestVars
    <3>6. CASE Restart
      BY <3>6, <2>t DEF Restart, InProgress
    <3> QED BY ZenonT(60), <3>1, <3>2, <3>3, <3>4, <3>5, <3>6
        DEF Next, RunTurn, StartTurn, FinishTurn, StopTurn, ParentWrites, Begin, RequestRefused,
            BeginSerial, SerialThrows, BeginBatch, AnswerRequest, PrepareBatch, WorktreesReady,
        BatchThrows, TasksBegin, FinishBatch,
            BatchJoined, DiffFailed, DiffChild, Cleanup, Watchdog, LeakedTimeout, End, ChildEnds,
            ChildFailsEarly, StrayExit, Prune, ChildWrites, ResolveConflict, requestVars, Phases
  <2>2. c \in Writers(r, f)
    BY <1>1, <2>1, LeftIsFound DEF Merge
  <2>3. CASE Exclusive(r, f)
    <3>1. PICK d \in Children : Writers(r, f) = {d}
      BY <2>t, <2>3, OneWriter
    <3>2. Writers(r, f) = {c}
      BY <2>2, <3>1
    <3> QED BY <2>1, <2>3, <2>t, <3>2 DEF Merge
  <2>4. CASE ~Exclusive(r, f)
    <3>1. [batch |-> r, file |-> f, candidates |-> Writers(r, f), status |-> "conflict"] \in conflicts'
      BY <2>1, <2>2, <2>4, <2>t DEF Merge
    <3> QED BY <2>2, <3>1
  <2> QED BY <2>3, <2>4
<1> QED BY <1>1, Invariant, PTL DEF Spec, MergeLosesNoWork

(* Of a path that two children of a batch left changed, a child's version  *)
(* comes into the tree only by the user's choice.                          *)
THEOREM NoGuess == Spec => MergeNeverGuesses
<1>1. ASSUME IInv, [Next]_vars
      PROVE  [\A c \in Children, f \in Files :
                ~Serial(c) /\ tree[f] # c /\ tree'[f] = c
                  /\ (\E d \in ChildrenOf(Of[c]) \ {c} : f \in Left(d))
                  => \E k \in conflicts \ conflicts' : k.file = f /\ c \in k.candidates]_vars
  <2> SUFFICES ASSUME NEW c \in Children, NEW f \in Files, Next,
                      ~Serial(c), tree[f] # c, tree'[f] = c,
                      NEW d \in ChildrenOf(Of[c]) \ {c}, f \in Left(d)
               PROVE  \E k \in conflicts \ conflicts' : k.file = f /\ c \in k.candidates
    BY <1>1
  <2>t. TypeOK /\ c \notin {Committed, Parent, Missing} /\ d \in Children /\ Of[d] = Of[c] /\ d # c
    BY <1>1, DelegationAssumption DEF IInv, ChildrenOf
  <2>1. CASE UNCHANGED tree
    BY <2>1
  <2>2. ASSUME NEW g \in Files, ParentWrites(g) PROVE FALSE
    BY <2>2, <2>t DEF ParentWrites, TypeOK
  <2>3. ASSUME NEW e \in Children, NEW g \in Files, ChildWrites(e, g) PROVE FALSE
    BY <2>3, <2>t DEF ChildWrites, TypeOK
  <2>4. ASSUME NEW r \in Requests, Merge(r) PROVE FALSE
    <3>1. Exclusive(r, f) /\ c = CHOOSE e \in Writers(r, f) : TRUE
      BY <2>4 DEF Merge
    <3>2. PICK e \in Children : Writers(r, f) = {e}
      BY <3>1, OneWriter
    <3>3. Writers(r, f) = {c}
      BY <3>1, <3>2
    <3>4. Of[c] = r
      BY <3>3 DEF Writers, ChildrenOf
    <3>5. d \in Writers(Of[d], f)
      BY <1>1, <2>4, <2>t, <3>4, LeftIsFound DEF Merge
    <3> QED BY <2>t, <3>3, <3>4, <3>5
  <2>5. ASSUME NEW k \in conflicts, NEW e \in Children, ResolveConflict(k, e)
        PROVE  k \in conflicts \ conflicts' /\ k.file = f /\ c \in k.candidates
    <3>1. k \in [batch : Requests, file : Files, candidates : SUBSET Children,
                status : {"conflict", "pending"}]
      BY <2>t DEF TypeOK
    <3>2. tree' = [tree EXCEPT ![k.file] = e] /\ e \in k.candidates
      BY <2>5 DEF ResolveConflict, ValidWinner, Materialized
    <3>3. k.file = f /\ e = c
      BY <2>t, <3>2 DEF TypeOK
    <3>4. k \notin conflicts'
      BY <2>5, <3>1 DEF ResolveConflict
    <3> QED BY <3>2, <3>3, <3>4
  <2> QED BY <2>1, <2>2, <2>3, <2>4, <2>5 DEF Next, RunTurn, StartTurn, FinishTurn, StopTurn,
          Delegate, Begin, RequestRefused, BeginSerial, SerialThrows, BeginBatch, PrepareBatch,
          WorktreesReady, BatchThrows, TasksBegin,
          FinishBatch, BatchJoined, DiffFailed, DiffChild, Cleanup, Watchdog, LeakedTimeout, End, ChildEnds,
          ChildFailsEarly, Settles, StrayExit, Prune, Restart, fileVars
<1> QED BY <1>1, Invariant, PTL DEF Spec, MergeNeverGuesses

(* A conflict that is resolved leaves a candidate's version in the tree:   *)
(* a worktree that is gone is no deletion (resolveParallelConflict).       *)
THEOREM FileKept == Spec => ResolveKeepsTheFile
<1>1. ASSUME IInv, [Next]_vars
      PROVE  [\A k \in conflicts \ conflicts' : tree'[k.file] \in k.candidates]_vars
  <2> SUFFICES ASSUME NEW k \in conflicts \ conflicts', Next
               PROVE  tree'[k.file] \in k.candidates
    BY <1>1
  <2>t. TypeOK /\ k.file \in Files
    BY <1>1 DEF IInv, TypeOK
  <2>1. CASE UNCHANGED conflicts
    BY <2>1
  <2>2. ASSUME NEW r \in Requests, Merge(r) PROVE FALSE
    BY <2>2 DEF Merge
  <2>3. ASSUME NEW l \in conflicts, NEW c \in Children, ResolveConflict(l, c)
        PROVE  tree'[k.file] \in k.candidates
    BY <2>3, <2>t DEF ResolveConflict, ValidWinner, Materialized, TypeOK
  <2> QED BY <2>1, <2>2, <2>3 DEF Next, RunTurn, StartTurn, FinishTurn, StopTurn, ParentWrites,
          Delegate, Begin, RequestRefused, BeginSerial, SerialThrows, BeginBatch, PrepareBatch,
          WorktreesReady, BatchThrows, TasksBegin,
          FinishBatch, BatchJoined, DiffFailed, DiffChild, Cleanup, Watchdog, LeakedTimeout, End, ChildEnds,
          ChildFailsEarly, Settles, StrayExit, Prune, ChildWrites, Restart, fileVars
<1> QED BY <1>1, Invariant, PTL DEF Spec, ResolveKeepsTheFile

-----------------------------------------------------------------------------
(***************************************************************************)
(* The servers keep the promise of a serial queue.                         *)
(***************************************************************************)

(* No call belongs to a turn that has not begun.                           *)
CallerInv == \A r \in Requests : caller[r] <= turn

LEMMA CallersBegan == Spec => []CallerInv
<1>1. Init => CallerInv
  BY DEF Init, CallerInv
<1>2. ASSUME IInv, CallerInv, [Next]_vars PROVE CallerInv'
  <2>t. /\ caller \in [Requests -> Turns \cup {0}] /\ turn \in Nat
        /\ \A r \in Requests : caller[r] \in Nat /\ caller[r] <= turn
    BY <1>2, DelegationAssumption DEF IInv, TypeOK, CallerInv, Turns
  <2>1. CASE StartTurn
    BY <2>1, <2>t DEF StartTurn, requestVars, CallerInv
  <2>2. ASSUME NEW r \in Requests, Delegate(r) PROVE CallerInv'
    BY <2>2, <2>t DEF Delegate, turnVars, CallerInv
  <2>3. CASE UNCHANGED <<turn, caller>>
    BY <2>3, <2>t DEF CallerInv
  <2>4. ASSUME NEW r \in Requests, PrepareBatch(r) PROVE UNCHANGED <<turn, caller>>
    BY <2>4, Preparing DEF TasksBegin, AnswerRequest, turnVars
  <2> QED BY <1>2, <2>1, <2>2, <2>3, <2>4 DEF Next, RunTurn, FinishTurn, StopTurn, ParentWrites, Begin,
        RequestRefused, BeginSerial, SerialThrows, BeginBatch, FinishBatch,
        BatchJoined, Merge, DiffFailed, DiffChild, Cleanup, Watchdog, LeakedTimeout, End, ChildEnds,
        ChildFailsEarly, Settles, StrayExit, Prune, ChildWrites, ResolveConflict, Restart,
        AnswerRequest, vars, turnVars, requestVars
<1> QED BY <1>1, <1>2, Invariant, PTL DEF Spec

(* Who stands in a line is under way, and the other way round.             *)
LEMMA LinesAreWaiting ==
  ASSUME IInv
  PROVE  UNION {Promise!Stand(n) : n \in Turns} = {r \in Requests : phase[r] \in Waiting}
<1>1. ASSUME NEW n \in Turns, NEW r \in Promise!Stand(n)
      PROVE  r \in Requests /\ phase[r] \in Waiting
  <2>1. queue[n] \in Seq(Requests) /\ QueueHolds(n)
    BY DEF IInv, TypeOK, QueueInv
  <2>2. PICK i \in 1..Len(queue[n]) : queue[n][i] = r
    BY DEF Promise!Stand
  <2> QED BY <2>1, <2>2 DEF QueueHolds
<1>2. ASSUME NEW r \in Requests, phase[r] \in Waiting
      PROVE  \E n \in Turns : r \in Promise!Stand(n)
  BY <1>2 DEF IInv, QueueInv, Stands, Promise!Stand
<1> QED BY <1>1, <1>2

LEMMA Serving ==
  ASSUME IInv, NEW r \in Requests, MyTurn(r), NEW step \in InProgress, GoTo(r, step),
         UNCHANGED <<turnVars, caller, queue>>
  PROVE  Promise!Next
<1>1. PICK n \in Turns : n = caller[r] /\ Len(queue[n]) >= 1 /\ queue[n][1] = r
  BY HandledIsHead
<1>2. queue[n] # <<>> /\ Head(queue[n]) = r
  BY <1>1 DEF IInv, TypeOK, MyTurn
<1>3. /\ phase[r] = "queued" /\ phase' = [phase EXCEPT ![r] = step]
      /\ phase \in [Requests -> Phases] /\ UNCHANGED <<turn, live, queue>>
  BY DEF MyTurn, GoTo, IInv, TypeOK, turnVars
<1>4. /\ {s \in Requests : phase'[s] \in InProgress} =
            {s \in Requests : phase[s] \in InProgress} \cup {r}
      /\ {s \in Requests : phase'[s] = "answered"} = {s \in Requests : phase[s] = "answered"}
      /\ {s \in Requests : phase'[s] = "lost"} = {s \in Requests : phase[s] = "lost"}
      /\ phase[r] \notin InProgress
  BY <1>3 DEF InProgress
<1>5. Promise!Serve(n)
  BY <1>2, <1>3, <1>4 DEF Promise!Serve
<1> QED BY <1>5 DEF Promise!Next

LEMMA Replying ==
  ASSUME IInv, NEW r \in Requests, phase[r] \in InProgress \/ MyTurn(r), AnswerRequest(r),
         UNCHANGED turnVars
  PROVE  Promise!Next
<1>1. PICK n \in Turns : n = caller[r] /\ Len(queue[n]) >= 1 /\ queue[n][1] = r
  BY HandledIsHead
<1>2. queue[n] # <<>> /\ Head(queue[n]) = r
  BY <1>1 DEF IInv, TypeOK
<1>3. /\ phase[r] \in Waiting /\ phase' = [phase EXCEPT ![r] = "answered"]
      /\ queue' = [queue EXCEPT ![n] = Tail(@)]
      /\ phase \in [Requests -> Phases] /\ UNCHANGED <<turn, live>>
  BY <1>1 DEF MyTurn, AnswerRequest, GoTo, IInv, TypeOK, turnVars, Waiting
<1>4. /\ {s \in Requests : phase'[s] \in InProgress} =
            {s \in Requests : phase[s] \in InProgress} \ {r}
      /\ {s \in Requests : phase'[s] = "answered"} =
            {s \in Requests : phase[s] = "answered"} \cup {r}
      /\ {s \in Requests : phase'[s] = "lost"} = {s \in Requests : phase[s] = "lost"}
  BY <1>3 DEF InProgress, Waiting
<1>5. Promise!Answer(n)
  BY <1>2, <1>3, <1>4 DEF Promise!Answer
<1> QED BY <1>5 DEF Promise!Next

LEMMA Handling ==
  ASSUME IInv, NEW r \in Requests, phase[r] \in InProgress, NEW step \in InProgress,
         GoTo(r, step), UNCHANGED <<turnVars, caller, queue>>
  PROVE  UNCHANGED Promise!vars
<1>1. /\ phase' = [phase EXCEPT ![r] = step] /\ phase \in [Requests -> Phases]
      /\ UNCHANGED <<turn, live, queue>>
  BY DEF GoTo, IInv, TypeOK, turnVars
<1>2. /\ {s \in Requests : phase'[s] \in InProgress} = {s \in Requests : phase[s] \in InProgress}
      /\ {s \in Requests : phase'[s] = "answered"} = {s \in Requests : phase[s] = "answered"}
      /\ {s \in Requests : phase'[s] = "lost"} = {s \in Requests : phase[s] = "lost"}
  BY <1>1 DEF InProgress
<1> QED BY <1>1, <1>2 DEF Promise!vars

LEMMA Calling ==
  ASSUME IInv, NEW r \in Requests, Delegate(r)
  PROVE  Promise!Next
<1>1. /\ turn \in Turns /\ live /\ phase[r] = "none" /\ phase \in [Requests -> Phases]
      /\ phase' = [phase EXCEPT ![r] = "queued"] /\ UNCHANGED <<turn, live>>
      /\ queue' = [queue EXCEPT ![turn] = Append(@, r)]
  BY DEF Delegate, IInv, TypeOK, TurnInv, turnVars
<1>2. /\ {s \in Requests : phase'[s] \in InProgress} = {s \in Requests : phase[s] \in InProgress}
      /\ {s \in Requests : phase'[s] = "answered"} = {s \in Requests : phase[s] = "answered"}
      /\ {s \in Requests : phase'[s] = "lost"} = {s \in Requests : phase[s] = "lost"}
  BY <1>1 DEF InProgress
<1>3. r \notin Promise!Made
  BY <1>1, LinesAreWaiting DEF Promise!Made, Waiting, InProgress
<1>4. Promise!Arrive(turn, r)
  BY <1>1, <1>2, <1>3 DEF Promise!Arrive
<1> QED BY <1>1, <1>4 DEF Promise!Next

LEMMA TurnsOpen ==
  ASSUME IInv, CallerInv, RunTurn
  PROVE  Promise!Next \/ UNCHANGED Promise!vars
<1>1. CASE StartTurn
  <2>1. /\ ~live /\ turn' = turn + 1 /\ live' = TRUE /\ turn' \in Turns /\ turn \in Nat
        /\ UNCHANGED <<phase, queue>>
    BY <1>1, DelegationAssumption DEF StartTurn, IInv, TypeOK, Turns, requestVars
  <2>2. queue[turn'] \in Seq(Requests) /\ QueueHolds(turn')
    BY <2>1 DEF IInv, TypeOK, QueueInv
  <2>3. ASSUME queue[turn'] # <<>> PROVE FALSE
    <3>1. 1 \in 1..Len(queue[turn']) /\ queue[turn'][1] \in Requests
      BY <2>2, <2>3
    <3>2. caller[queue[turn'][1]] = turn + 1
      BY <2>1, <2>2, <3>1 DEF QueueHolds
    <3> QED BY <2>1, <3>1, <3>2 DEF CallerInv
  <2>4. Promise!Open(turn')
    BY <2>1, <2>3 DEF Promise!Open
  <2> QED BY <2>1, <2>4 DEF Promise!Next
<1>2. CASE FinishTurn \/ StopTurn
  BY <1>2 DEF FinishTurn, StopTurn, requestVars, Promise!Close, Promise!Next
<1>3. ASSUME NEW f \in Files, ParentWrites(f) PROVE UNCHANGED Promise!vars
  BY <1>3 DEF ParentWrites, turnVars, requestVars, Promise!vars
<1> QED BY <1>1, <1>2, <1>3 DEF RunTurn

LEMMA CallsLost ==
  ASSUME IInv, Restart
  PROVE  Promise!Next
<1>1. /\ live' = FALSE /\ turn' = turn /\ queue' = [n \in Turns |-> <<>>]
      /\ phase' = [r \in Requests |-> IF phase[r] \in Waiting THEN "lost" ELSE phase[r]]
  BY DEF Restart, Waiting
<1>2. /\ {s \in Requests : phase'[s] \in InProgress} = {}
      /\ {s \in Requests : phase'[s] = "answered"} = {s \in Requests : phase[s] = "answered"}
      /\ {s \in Requests : phase'[s] = "lost"} =
           {s \in Requests : phase[s] = "lost"} \cup {s \in Requests : phase[s] \in Waiting}
  BY <1>1 DEF InProgress, Waiting
<1>3. Promise!Restart
  BY <1>1, <1>2, LinesAreWaiting DEF Promise!Restart
<1> QED BY <1>3 DEF Promise!Next

LEMMA PromiseStep ==
  ASSUME IInv, CallerInv, Next
  PROVE  Promise!Next \/ UNCHANGED Promise!vars
<1>u. ASSUME UNCHANGED <<turnVars, requestVars>> PROVE UNCHANGED Promise!vars
  BY <1>u DEF turnVars, requestVars, Promise!vars
<1>1. ASSUME NEW r \in Requests, Begin(r) PROVE Promise!Next
  <2>1. CASE RequestRefused(r) \/ SerialThrows(r)
    BY <2>1, Replying DEF RequestRefused, SerialThrows
  <2>2. CASE BeginSerial(r) \/ BeginBatch(r)
    BY <2>2, Serving DEF BeginSerial, BeginBatch, InProgress
  <2> QED BY <1>1, <2>1, <2>2 DEF Begin
<1>2. ASSUME NEW r \in Requests, PrepareBatch(r) PROVE Promise!Next \/ UNCHANGED Promise!vars
  <2>1. phase[r] \in InProgress /\ UNCHANGED turnVars
    BY <1>2, Preparing DEF TasksBegin, InProgress
  <2>2. CASE GoTo(r, "children") /\ UNCHANGED <<caller, queue>>
    BY <2>1, <2>2, Handling DEF InProgress
  <2>3. CASE AnswerRequest(r)
    BY <2>1, <2>3, Replying
  <2> QED BY <1>2, <2>2, <2>3, Preparing
<1>3. ASSUME NEW r \in Requests, FinishBatch(r) PROVE Promise!Next \/ UNCHANGED Promise!vars
  <2>1. CASE BatchJoined(r) \/ Merge(r)
    BY <2>1, Handling DEF BatchJoined, Merge, InProgress
  <2>2. CASE DiffFailed(r)
    BY <2>2, Replying DEF DiffFailed, InProgress
  <2>3. ASSUME NEW c \in ChildrenOf(r), DiffChild(c) PROVE UNCHANGED Promise!vars
    BY <1>u, <2>3 DEF DiffChild
  <2>4. ASSUME NEW failed \in SUBSET ChildrenOf(r), Cleanup(r, failed) PROVE Promise!Next
    BY <2>4, Replying DEF Cleanup, InProgress
  <2> QED BY <1>3, <2>1, <2>2, <2>3, <2>4 DEF FinishBatch
<1>4. ASSUME NEW c \in Children, NEW exit, Settles(c, exit)
      PROVE  Promise!Next \/ UNCHANGED Promise!vars
  <2>1. CASE Serial(c)
    <3>1. Of[c] \in Requests /\ phase[Of[c]] \in InProgress
      BY <1>4, <2>1, DelegationAssumption DEF IInv, Settles, ChildInv, ChildHolds, InProgress
    <3> QED BY <1>4, <2>1, <3>1, Replying DEF Settles
  <2>2. CASE ~Serial(c)
    BY <1>4, <1>u, <2>2 DEF Settles
  <2> QED BY <2>1, <2>2
<1>5. ASSUME NEW c \in Children, Watchdog(c) \/ LeakedTimeout(c) \/ StrayExit(c) \/ Prune(c)
      PROVE  UNCHANGED Promise!vars
  BY <1>u, <1>5 DEF Watchdog, LeakedTimeout, StrayExit, Prune
<1>6. ASSUME NEW c \in Children, NEW f \in Files, ChildWrites(c, f) PROVE UNCHANGED Promise!vars
  BY <1>u, <1>6 DEF ChildWrites
<1>7. ASSUME NEW c \in Children, NEW k \in conflicts, ResolveConflict(k, c)
      PROVE  UNCHANGED Promise!vars
  BY <1>u, <1>7 DEF ResolveConflict
<1> QED BY <1>1, <1>2, <1>3, <1>4, <1>5, <1>6, <1>7, TurnsOpen, Calling, CallsLost
        DEF Next, End, ChildEnds, ChildFailsEarly

(* The servers of the turns serve their calls in the order in which they   *)
(* came, one at a time, and answer each once, whatever becomes of the turn *)
(* (queue.then(run, run) in createDelegationServer).                       *)
THEOREM KeepsPromise == Spec => ServedInOrder
<1>1. Init => Promise!Init
  BY DEF Init, Promise!Init, InProgress
<1>2. ASSUME IInv, CallerInv, [Next]_vars PROVE [Promise!Next]_(Promise!vars)
  <2>1. CASE UNCHANGED vars
    BY <2>1 DEF vars, turnVars, requestVars, Promise!vars
  <2> QED BY <1>2, <2>1, PromiseStep
<1> QED BY <1>1, <1>2, Invariant, CallersBegan, PTL DEF Spec, ServedInOrder, Promise!Spec

(* What of delegate.ts:575-577 is true: the children that calls of a turn  *)
(* wait for belong to one call, and of its children one at a time runs in  *)
(* the working tree of the parent, also beside what a batch that threw left*)
(* behind.  The second writer of OneWriterPerTree is a child of another    *)
(* turn, or one that was given up and still writes.                        *)
THEOREM AwaitedOfOneCall == Spec => []OneCallAwaited
<1>1. ASSUME IInv PROVE OneCallAwaited
  <2> SUFFICES ASSUME NEW c \in Children, NEW d \in Children, caller[Of[c]] = caller[Of[d]]
               PROVE  /\ Awaited(c) /\ Awaited(d) => Of[c] = Of[d]
                      /\ Serial(c) /\ Serial(d) /\ Running(c) /\ Running(d) => c = d
    BY DEF OneCallAwaited
  <2>1. Of[c] \in Requests /\ Of[d] \in Requests /\ ChildHolds(c) /\ ChildHolds(d)
    BY <1>1, DelegationAssumption DEF IInv, ChildInv
  <2>2. phase[Of[c]] \in InProgress /\ phase[Of[d]] \in InProgress => Of[c] = Of[d]
    BY <1>1, <2>1, HandledIsHead
  <2>3. ASSUME Serial(c), Serial(d), Running(c), Running(d) PROVE c = d
    <3>1. phase[Of[c]] \in InProgress /\ phase[Of[d]] \in InProgress
      BY <2>1, <2>3 DEF ChildHolds, InProgress
    <3> QED BY <2>2, <2>3, <3>1, DelegationAssumption DEF Serial
  <2> QED BY <2>2, <2>3 DEF Awaited, InProgress
<1> QED BY <1>1, Invariant, PTL
=============================================================================
