------------------------- MODULE DiffReview_proofs -------------------------
(***************************************************************************)
(* Proofs about DiffReview, for any threads, files and bounds.  A row is   *)
(* known by its thread, its name, the turn that made it and whether a      *)
(* merge did; that no two rows share these four is what makes the record a *)
(* row of the table, and it is the heart of the inductive invariant.       *)
(***************************************************************************)
EXTENDS DiffReview, TLAPS

SameRow(r, s) ==
  r.thread = s.thread /\ r.file = s.file /\ r.by = s.by /\ r.merged = s.merged

RowsDistinct == \A r, s \in rows : SameRow(r, s) => r = s

RowInv(r) == r.by <= turns /\ (r.status = "conflict" => r.merged)

(* A turn is the last one started, its thread is live, and an ordinary one *)
(* has written no row yet but those of its conflicts.                      *)
TurnInv ==
  InTurn => /\ op.turn = turns
            /\ state[op.thread] \in {"running", "waiting_user"}
            /\ op.kind = "turn" =>
                 \A r \in rows : r.by = op.turn =>
                   r.merged /\ r.status = "conflict"

(* The subset of a rejection stays pending until its files are restored, as*)
(* far as git finds them under their names.                                *)
RejectInv ==
  op.kind = "reject" =>
    /\ op.subset \subseteq Pending(op.thread)
    /\ \A r \in op.subset :
         IsPath(r.file) => r.file \in op.left \/ tree[r.file[1]] = head[r.file[1]]

IInv == /\ TypeOK
        /\ RowsDistinct
        /\ \A r \in rows : RowInv(r)
        /\ TurnInv
        /\ RejectInv
        /\ CommittedMeansReviewed

-----------------------------------------------------------------------------
(***************************************************************************)
(* What the operation under way is.                                        *)
(***************************************************************************)

LEMMA OpCases ==
  ASSUME TypeOK
  PROVE  /\ op.kind \in TurnKinds => op \in TurnOps
         /\ op.kind = "reject" => op \in Rejections
         /\ op.kind \notin TurnKinds \cup {"reject"} => op = None
<1>1. op = None => op.kind = "none"
  BY DEF None
<1>2. op \in TurnOps => op.kind \in TurnKinds
  BY DEF TurnOps
<1>3. op \in Rejections => op.kind = "reject"
  BY DEF Rejections
<1>4. op = None \/ op \in TurnOps \/ op \in Rejections
  BY DEF TypeOK
<1>5. "reject" \notin TurnKinds /\ "none" \notin TurnKinds /\ "none" # "reject"
  BY DEF TurnKinds, PipelineKinds
<1> QED BY <1>1, <1>2, <1>3, <1>4, <1>5

(* The reducer keeps a row a row and a deleted thread deleted.             *)
LEMMA ApplyTransitionType ==
  ASSUME NEW s \in ThreadStates \cup {Gone}, NEW e \in TurnEvents
  PROVE  /\ ApplyTransition(s, e) \in ThreadStates \cup {Gone}
         /\ s = Gone => ApplyTransition(s, e) = Gone
         /\ ApplyTransition(s, e) = "committed" => s = "committed" \/ e = "diffs_committed"
BY ReviewAssumption DEF ApplyTransition, Legal, Target, TurnEvents, ThreadStates, LiveStates, SettledStates

LEMMA TransitionType ==
  ASSUME TypeOK, NEW t \in Threads, NEW e \in TurnEvents, Transition(t, e)
  PROVE  state' \in [Threads -> ThreadStates \cup {Gone}]
BY ApplyTransitionType DEF TypeOK, Transition

LEMMA TransitionTwiceType ==
  ASSUME TypeOK, NEW t \in Threads, NEW d \in TurnEvents, NEW e \in TurnEvents,
         TransitionTwice(t, d, e)
  PROVE  state' \in [Threads -> ThreadStates \cup {Gone}]
<1>1. ApplyTransition(state[t], d) \in ThreadStates \cup {Gone}
  BY ApplyTransitionType DEF TypeOK
<1>2. ApplyTransition(ApplyTransition(state[t], d), e) \in ThreadStates \cup {Gone}
  BY <1>1, ApplyTransitionType
<1> QED BY <1>2 DEF TypeOK, TransitionTwice

(* Every name begins with a path, and what git lists are names.            *)
LEMMA NameOfFile == ASSUME NEW n \in Names PROVE n[1] \in Files
BY DEF Names

LEMMA ListingType == ASSUME NEW L \in Listings PROVE L \subseteq Names
BY DEF Listings, MayBeRenamed, Dirty, Names

LEMMA RowForType ==
  ASSUME TypeOK, InTurn, NEW n \in Names
  PROVE  RowFor(n) \in Rows
BY OpCases DEF RowFor, Rows, TurnOps, TypeOK, InTurn, DiffStatus

LEMMA DecideType ==
  ASSUME TypeOK, NEW S \in SUBSET Rows, NEW v \in DiffStatus
  PROVE  Decide(S, v) \subseteq Rows
BY DEF Decide, TypeOK, Rows

LEMMA TypeStep == TypeOK /\ [Next]_vars => TypeOK'
<1> SUFFICES ASSUME TypeOK, [Next]_vars PROVE TypeOK'
  OBVIOUS
<1> USE ReviewAssumption
<1>1. ASSUME NEW t \in Threads, NEW kind \in TurnKinds, StartTurn(t, kind) PROVE TypeOK'
  <2>1. state' \in [Threads -> ThreadStates \cup {Gone}]
    BY <1>1, TransitionType DEF StartTurn, TurnEvents
  <2>2. turns + 1 \in Turns
    BY <1>1 DEF StartTurn, TypeOK, Turns
  <2>3. op' \in TurnOps
    BY <1>1, <2>2 DEF StartTurn, TurnOps
  <2> QED BY <1>1, <2>1, <2>2, <2>3 DEF StartTurn, TypeOK, Turns
<1>2. ASSUME NEW t \in Threads, Commit(t) \/ DeleteThread(t) PROVE TypeOK'
  BY <1>2 DEF Commit, DeleteThread, TypeOK
<1>3. CASE Editing
  <2>1. ASSUME NEW f \in Files, Write(f) \/ Remove(f) \/ Restore(f) PROVE TypeOK'
    <3>1. op \in TurnOps /\ op.turn \in Versions /\ NoFile \in Versions
      BY <2>1, OpCases DEF Write, Remove, Restore, Writing, InTurn, TurnOps, Turns, Versions, NoFile
    <3> QED BY <2>1, <3>1 DEF Write, Remove, Restore, TypeOK
  <2>2. ASSUME NEW f \in Files, NEW g \in Files, Move(f, g) PROVE TypeOK'
    <3>1. NoFile \in Versions
      BY DEF Versions, NoFile
    <3> QED BY <2>2, <3>1 DEF Move, TypeOK
  <2> QED BY <1>3, <2>1, <2>2 DEF Editing
<1>4. ASSUME NEW n \in Names, MergeConflict(n) PROVE TypeOK'
  <2>1. op \in TurnOps
    BY <1>4, OpCases DEF MergeConflict, TurnKinds
  <2>2. ConflictRow(n) \in Rows
    BY <2>1 DEF ConflictRow, Rows, TurnOps, DiffStatus
  <2> QED BY <1>4, <2>2 DEF MergeConflict, TypeOK
<1>5. ASSUME NEW L \in Listings, NEW stopped \in BOOLEAN, Finish(L, stopped) PROVE TypeOK'
  <2>1. InTurn /\ op.thread \in Threads
    BY <1>5, OpCases DEF Finish, InTurn, TurnOps
  <2>2. EndRows(L) \subseteq Rows
    BY <2>1, ListingType, RowForType DEF EndRows, Collect, CaptureNew
  <2>3. state' \in [Threads -> ThreadStates \cup {Gone}]
    <3>1. CASE stopped
      BY <1>5, <2>1, <3>1, TransitionTwiceType DEF Finish, TurnEvents
    <3>2. CASE ~stopped
      BY <1>5, <2>1, <3>2, TransitionType DEF Finish, TurnEvents
    <3> QED BY <3>1, <3>2
  <2> QED BY <1>5, <2>2, <2>3 DEF Finish, AddRows, TypeOK
<1>6. ASSUME NEW L \in Listings, CaptureStage(L) PROVE TypeOK'
  <2>1. op \in TurnOps /\ InTurn
    BY <1>6, OpCases DEF CaptureStage, TurnKinds, PipelineKinds, InTurn
  <2>2. CaptureNew(L) \subseteq Rows
    BY <2>1, ListingType, RowForType DEF CaptureNew
  <2>3. op' \in TurnOps
    BY <1>6, <2>1 DEF CaptureStage, TurnOps
  <2> QED BY <1>6, <2>2, <2>3 DEF CaptureStage, AddRows, TypeOK
<1>7. ASSUME NextStage \/ AnswerCheckpoint PROVE TypeOK'
  <2>1. op \in TurnOps
    BY <1>7, OpCases DEF NextStage, AnswerCheckpoint, TurnKinds, PipelineKinds
  <2>2. op' \in TurnOps
    BY <1>7, <2>1 DEF NextStage, AnswerCheckpoint, TurnOps
  <2>3. state' \in [Threads -> ThreadStates \cup {Gone}]
    BY <1>7, <2>1, TransitionType DEF NextStage, AnswerCheckpoint, TurnEvents, TurnOps, TypeOK
  <2> QED BY <1>7, <2>2, <2>3 DEF NextStage, AnswerCheckpoint, TypeOK
<1>8. ASSUME AbortTurn PROVE TypeOK'
  <2>1. op.thread \in Threads
    BY <1>8, OpCases DEF AbortTurn, InTurn, TurnOps
  <2>4. state' \in [Threads -> ThreadStates \cup {Gone}]
    BY <1>8, <2>1, TransitionTwiceType, TransitionType DEF AbortTurn, TurnEvents
  <2> QED BY <1>8, <2>4 DEF AbortTurn, TypeOK
<1>9. ASSUME NEW t \in Threads, NEW S \in Subsets(t), Accept(t, S) PROVE TypeOK'
  <2>1. rows' \subseteq Rows
    BY <1>9, DecideType DEF Accept, Subsets, Pending, Of, DiffStatus, TypeOK
  <2>2. state' \in [Threads -> ThreadStates \cup {Gone}]
    BY <1>9, TransitionType DEF Accept, AcceptEvent, TurnEvents
  <2> QED BY <1>9, <2>1, <2>2 DEF Accept, TypeOK
<1>10. ASSUME NEW t \in Threads, NEW S \in Subsets(t), StartReject(t, S) PROVE TypeOK'
  <2>1. S \subseteq Rows
    BY DEF Subsets, Pending, Of, TypeOK
  <2>2. op' \in Rejections
    BY <1>10, <2>1 DEF StartReject, Rejections, Rows
  <2> QED BY <1>10, <2>2 DEF StartReject, TypeOK
<1>11. ASSUME NEW n \in Names, Discard(n) PROVE TypeOK'
  <2>1. op \in Rejections
    BY <1>11, OpCases DEF Discard
  <2>2. op' \in Rejections
    BY <1>11, <2>1 DEF Discard, Rejections
  <2>3. tree' \in [Files -> Versions]
    BY <1>11, NameOfFile DEF Discard, TypeOK
  <2> QED BY <1>11, <2>2, <2>3 DEF Discard, TypeOK
<1>12. CASE DiscardFails
  BY <1>12 DEF DiscardFails, RowsOfFailedReject, LeaseAfterReject, TypeOK
<1>13. CASE FinishReject
  <2>1. op \in Rejections
    BY <1>13, OpCases DEF FinishReject
  <2>2. rows' \subseteq Rows
    BY <1>13, <2>1, DecideType DEF FinishReject, Rejections, DiffStatus
  <2>3. state' \in [Threads -> ThreadStates \cup {Gone}]
    BY <1>13, <2>1, TransitionType DEF FinishReject, Rejections, TurnEvents
  <2> QED BY <1>13, <2>2, <2>3 DEF FinishReject, LeaseAfterReject, TypeOK
<1>14. ASSUME NEW r \in rows, NEW v \in {NoFile, r.by}, ResolveConflict(r, v) PROVE TypeOK'
  <2>1. rows' \subseteq Rows
    BY <1>14, DecideType DEF ResolveConflict, DiffStatus, TypeOK
  <2>2. tree' \in [Files -> Versions]
    <3>1. r.file \in Names /\ v \in Versions
      BY DEF TypeOK, Rows, Turns, Versions, NoFile
    <3> QED BY <1>14, <3>1, NameOfFile DEF ResolveConflict, TypeOK
  <2> QED BY <1>14, <2>1, <2>2 DEF ResolveConflict, TypeOK
<1>15. CASE Restart
  BY <1>15 DEF Restart, TypeOK, ThreadStates, SettledStates
<1>16. CASE UNCHANGED vars
  BY <1>16 DEF vars, TypeOK
<1> QED BY <1>1, <1>2, <1>3, <1>4, <1>5, <1>6, <1>7, <1>8, <1>9, <1>10, <1>11, <1>12, <1>13,
           <1>14, <1>15, <1>16 DEF Next, Rejecting

(* Every variable keeps its kind of value.                                 *)
THEOREM TypeCorrect == Spec => []TypeOK
<1>1. Init => TypeOK
  BY ReviewAssumption DEF Init, TypeOK, ThreadStates, SettledStates, Versions, NoFile
<1> QED BY <1>1, TypeStep, PTL DEF Spec

-----------------------------------------------------------------------------
(***************************************************************************)
(* The rows.                                                               *)
(***************************************************************************)

(* The four things a step may do to the rows.                              *)
Shrinks == \/ rows' = rows
           \/ \E t \in Threads : rows' = rows \ Of(t) /\ state'[t] = Gone

AddsConflict ==
  \E n \in Names : op.kind = "turn" /\ rows' = rows \cup {ConflictRow(n)}

Captures ==
  \E N \in SUBSET Names :
    /\ InTurn /\ rows' = rows \cup {RowFor(n) : n \in N}
    /\ op.kind = "turn" \/ N \cap {r.file : r \in Of(op.thread)} = {}

Decides ==
  \E S \in SUBSET rows, v \in DiffStatus \ {"conflict"} :
    /\ rows' = Decide(S, v)
    /\ v = "rejected" => FinishReject /\ S = op.subset
    /\ \/ v # "pending" /\ \A r \in S : r.status = "pending"
       \/ v = "pending" /\ \A r \in S : r.status = "conflict"

LEMMA RowSteps ==
  ASSUME IInv, [Next]_vars
  PROVE  /\ Shrinks \/ AddsConflict \/ Captures \/ Decides
         /\ turns' \in {turns, turns + 1}
<1> USE DEF IInv
<1>1. ASSUME NEW t \in Threads, NEW kind \in TurnKinds, StartTurn(t, kind)
      PROVE  Shrinks /\ turns' \in {turns, turns + 1}
  BY <1>1 DEF StartTurn, Shrinks
<1>2. ASSUME NEW t \in Threads, Commit(t) \/ DeleteThread(t)
      PROVE  Shrinks /\ turns' \in {turns, turns + 1}
  BY <1>2 DEF Commit, DeleteThread, Shrinks, TypeOK
<1>3. ASSUME Editing \/ \E n \in Names : Discard(n)
      PROVE  Shrinks /\ turns' \in {turns, turns + 1}
  BY <1>3 DEF Editing, Write, Remove, Move, Restore, Discard, Shrinks
<1>4. ASSUME NEW n \in Names, MergeConflict(n)
      PROVE  AddsConflict /\ turns' \in {turns, turns + 1}
  BY <1>4 DEF MergeConflict, AddsConflict
<1>5. ASSUME NEW L \in Listings, NEW stopped \in BOOLEAN, Finish(L, stopped), op.kind = "turn"
      PROVE  Captures /\ turns' \in {turns, turns + 1}
  <2>1. L \in SUBSET Names /\ rows' = rows \cup {RowFor(n) : n \in L}
    BY <1>5, ListingType DEF Finish, AddRows, EndRows, Collect
  <2>2. Captures
    BY <1>5, <2>1 DEF Finish, Captures
  <2> QED BY <1>5, <2>2 DEF Finish
<1>6. ASSUME NEW L \in Listings,
             \/ CaptureStage(L)
             \/ op.kind # "turn" /\ \E stopped \in BOOLEAN : Finish(L, stopped)
      PROVE  Captures /\ turns' \in {turns, turns + 1}
  <2> DEFINE N == L \ {r.file : r \in Of(op.thread)}
  <2>1. N \in SUBSET Names /\ N \cap {r.file : r \in Of(op.thread)} = {}
    BY ListingType
  <2>2. rows' = rows \cup {RowFor(n) : n \in N}
    BY <1>6 DEF CaptureStage, Finish, AddRows, EndRows, CaptureNew
  <2>3. InTurn
    BY <1>6 DEF CaptureStage, Finish, InTurn, TurnKinds, PipelineKinds
  <2>4. Captures
    BY <2>1, <2>2, <2>3 DEF Captures
  <2> QED BY <1>6, <2>4 DEF CaptureStage, Finish
<1>7. CASE NextStage \/ AnswerCheckpoint \/ AbortTurn \/ DiscardFails \/ Restart
  BY <1>7 DEF NextStage, AnswerCheckpoint, AbortTurn, DiscardFails, RowsOfFailedReject, Restart,
     Shrinks
<1>8. ASSUME NEW t \in Threads, NEW S \in Subsets(t), Accept(t, S)
      PROVE  Decides /\ turns' \in {turns, turns + 1}
  <2>1. S \in SUBSET rows /\ \A r \in S : r.status = "pending"
    BY DEF Subsets, Pending, Of
  <2>2. "accepted" \in DiffStatus \ {"conflict"} /\ "accepted" # "pending"
    BY DEF DiffStatus
  <2>3. Decides
    BY <1>8, <2>1, <2>2 DEF Accept, Decides
  <2> QED BY <1>8, <2>3 DEF Accept
<1>9. ASSUME NEW t \in Threads, NEW S \in Subsets(t), StartReject(t, S)
      PROVE  Shrinks /\ turns' \in {turns, turns + 1}
  BY <1>9 DEF StartReject, Shrinks
<1>10. CASE FinishReject
  <2>1. op.subset \in SUBSET rows /\ \A r \in op.subset : r.status = "pending"
    BY <1>10 DEF FinishReject, RejectInv, Pending, Of
  <2>2. "rejected" \in DiffStatus \ {"conflict"} /\ "rejected" # "pending"
    BY DEF DiffStatus
  <2>3. Decides
    BY <1>10, <2>1, <2>2 DEF FinishReject, Decides
  <2> QED BY <1>10, <2>3 DEF FinishReject
<1>11. ASSUME NEW r \in rows, NEW v \in {NoFile, r.by}, ResolveConflict(r, v)
       PROVE  Decides /\ turns' \in {turns, turns + 1}
  <2>1. {r} \in SUBSET rows /\ \A s \in {r} : s.status = "conflict"
    BY <1>11 DEF ResolveConflict
  <2>2. "pending" \in DiffStatus \ {"conflict"}
    BY DEF DiffStatus
  <2>3. Decides
    BY <1>11, <2>1, <2>2 DEF ResolveConflict, Decides
  <2> QED BY <1>11, <2>3 DEF ResolveConflict
<1>12. CASE UNCHANGED vars
  BY <1>12 DEF vars, Shrinks
<1>13. CASE \E L \in Listings : CaptureStage(L) \/ \E stopped \in BOOLEAN : Finish(L, stopped)
  <2>1. PICK L \in Listings : CaptureStage(L) \/ \E stopped \in BOOLEAN : Finish(L, stopped)
    BY <1>13
  <2>2. CASE CaptureStage(L)
    BY <1>6, <2>2
  <2>3. CASE \E stopped \in BOOLEAN : Finish(L, stopped)
    <3>1. CASE op.kind = "turn"
      BY <1>5, <2>3, <3>1
    <3>2. CASE op.kind # "turn"
      BY <1>6, <2>3, <3>2
    <3> QED BY <3>1, <3>2
  <2> QED BY <2>1, <2>2, <2>3
<1>14. CASE \E t \in Threads : \E S \in Subsets(t) : Accept(t, S) \/ StartReject(t, S)
  BY <1>8, <1>9, <1>14
<1>15. CASE Rejecting
  BY <1>3, <1>7, <1>10, <1>15 DEF Rejecting
<1>16. CASE \E r \in rows : \E version \in {NoFile, r.by} : ResolveConflict(r, version)
  BY <1>11, <1>16
<1>17. CASE \E t \in Threads :
              (\E kind \in TurnKinds : StartTurn(t, kind)) \/ Commit(t) \/ DeleteThread(t)
  BY <1>1, <1>2, <1>17
<1> QED BY <1>3, <1>4, <1>7, <1>12, <1>13, <1>14, <1>15, <1>16, <1>17 DEF Next

(* A decision keeps what a row is known by.                                *)
LEMMA DecideRow ==
  ASSUME TypeOK, NEW S \in SUBSET rows, NEW v \in DiffStatus, NEW x \in Decide(S, v)
  PROVE  \E r \in rows : /\ SameRow(x, r)
                         /\ r \in S => x = As(r, v) /\ x.status = v
                         /\ r \notin S => x = r
<1>1. CASE x \in rows \ S
  BY <1>1 DEF SameRow
<1>2. CASE \E r \in S : x = [r EXCEPT !.status = v]
  <2>1. PICK r \in S : x = [r EXCEPT !.status = v]
    BY <1>2
  <2>2. r \in Rows
    BY DEF TypeOK
  <2>3. SameRow(x, r) /\ x.status = v
    BY <2>1, <2>2 DEF SameRow, Rows
  <2> QED BY <2>1, <2>3 DEF As
<1> QED BY <1>1, <1>2 DEF Decide

LEMMA TurnOfInv ==
  ASSUME IInv, InTurn
  PROVE  op \in TurnOps /\ op.turn = turns /\ op.turn \in Nat /\ op.thread \in Threads
BY OpCases DEF IInv, TurnInv, InTurn, TurnOps, Turns

LEMMA DistinctStep == IInv /\ [Next]_vars => RowsDistinct'
<1> SUFFICES ASSUME IInv, [Next]_vars PROVE RowsDistinct'
  OBVIOUS
<1> USE DEF IInv
<1>1. CASE Shrinks
  BY <1>1 DEF Shrinks, RowsDistinct
<1>2. CASE AddsConflict
  <2>1. PICK n \in Names : op.kind = "turn" /\ rows' = rows \cup {ConflictRow(n)}
    BY <1>2 DEF AddsConflict
  <2>2. ASSUME NEW s \in rows, SameRow(s, ConflictRow(n))
        PROVE  s = ConflictRow(n)
    <3>1. s \in Rows /\ s.thread = op.thread /\ s.file = n /\ s.by = op.turn /\ s.merged = TRUE
      BY <2>2 DEF TypeOK, SameRow, ConflictRow
    <3>2. s.status = "conflict"
      BY <2>1, <3>1 DEF TurnInv, InTurn, TurnKinds
    <3> QED BY <3>1, <3>2 DEF Rows, ConflictRow
  <2>3. \A r, s : SameRow(r, s) => SameRow(s, r)
    BY DEF SameRow
  <2> QED BY <2>1, <2>2, <2>3 DEF RowsDistinct
<1>3. CASE Captures
  <2>1. PICK N \in SUBSET Names :
           /\ InTurn /\ rows' = rows \cup {RowFor(n) : n \in N}
           /\ op.kind = "turn" \/ N \cap {r.file : r \in Of(op.thread)} = {}
    BY <1>3 DEF Captures
  <2>2. ASSUME NEW s \in rows, NEW n \in N, SameRow(s, RowFor(n)) PROVE FALSE
    <3>1. s.thread = op.thread /\ s.file = n /\ s.by = op.turn /\ s.merged = FALSE
      BY <2>2 DEF SameRow, RowFor
    <3>2. CASE op.kind = "turn"
      BY <2>1, <3>1, <3>2 DEF TurnInv
    <3>3. CASE N \cap {r.file : r \in Of(op.thread)} = {}
      BY <3>1, <3>3 DEF Of
    <3> QED BY <2>1, <3>2, <3>3
  <2>3. ASSUME NEW m \in N, NEW n \in N, SameRow(RowFor(m), RowFor(n)) PROVE m = n
    BY <2>3 DEF SameRow, RowFor
  <2>4. \A r, s : SameRow(r, s) => SameRow(s, r)
    BY DEF SameRow
  <2> QED BY <2>1, <2>2, <2>3, <2>4 DEF RowsDistinct
<1>4. CASE Decides
  <2>1. PICK S \in SUBSET rows, v \in DiffStatus \ {"conflict"} : rows' = Decide(S, v)
    BY <1>4 DEF Decides
  <2> SUFFICES ASSUME NEW x \in Decide(S, v), NEW y \in Decide(S, v), SameRow(x, y)
               PROVE  x = y
    BY <2>1 DEF RowsDistinct
  <2>2. PICK r \in rows : /\ SameRow(x, r) /\ (r \in S => x = As(r, v)) /\ (r \notin S => x = r)
    BY DecideRow
  <2>3. PICK s \in rows : /\ SameRow(y, s) /\ (s \in S => y = As(s, v)) /\ (s \notin S => y = s)
    BY DecideRow
  <2>4. SameRow(r, s)
    BY <2>2, <2>3 DEF SameRow
  <2>5. r = s
    BY <2>4 DEF RowsDistinct
  <2> QED BY <2>2, <2>3, <2>5
<1> QED BY <1>1, <1>2, <1>3, <1>4, RowSteps

LEMMA RowInvStep == IInv /\ [Next]_vars => (\A r \in rows : RowInv(r))'
<1> SUFFICES ASSUME IInv, [Next]_vars, NEW x \in rows' PROVE x.by <= turns' /\ (x.status = "conflict" => x.merged)
  BY DEF RowInv
<1> USE DEF IInv
<1>1. turns \in Nat /\ turns' \in Nat /\ turns <= turns'
  BY RowSteps, ReviewAssumption DEF TypeOK
<1>2. CASE x \in rows
  <2>1. x.by \in Nat
    BY <1>2 DEF TypeOK, Rows, Turns
  <2> QED BY <1>1, <1>2, <2>1 DEF RowInv
<1>3. CASE AddsConflict /\ x \notin rows
  <2>1. PICK n \in Names : op.kind = "turn" /\ x = ConflictRow(n)
    BY <1>3 DEF AddsConflict
  <2>2. op.turn = turns
    BY <2>1, TurnOfInv DEF InTurn, TurnKinds
  <2> QED BY <1>1, <2>1, <2>2 DEF ConflictRow
<1>4. CASE Captures /\ x \notin rows
  <2>1. PICK n \in Names : InTurn /\ x = RowFor(n)
    BY <1>4 DEF Captures
  <2>2. op.turn = turns
    BY <2>1, TurnOfInv
  <2> QED BY <1>1, <2>1, <2>2 DEF RowFor
<1>5. CASE Decides /\ x \notin rows
  <2>1. PICK S \in SUBSET rows, v \in DiffStatus \ {"conflict"} : rows' = Decide(S, v)
    BY <1>5 DEF Decides
  <2>2. PICK r \in rows : SameRow(x, r) /\ (r \in S => x.status = v) /\ (r \notin S => x = r)
    BY <2>1, DecideRow
  <2>3. x.by = r.by /\ x.status # "conflict"
    BY <1>5, <2>1, <2>2 DEF SameRow
  <2>4. r.by <= turns /\ r.by \in Nat
    BY DEF RowInv, TypeOK, Rows, Turns
  <2> QED BY <1>1, <2>3, <2>4
<1> QED BY <1>2, <1>3, <1>4, <1>5, RowSteps DEF Shrinks

-----------------------------------------------------------------------------
(***************************************************************************)
(* The operation under way.                                                *)
(***************************************************************************)

LEMMA StartTurnInv ==
  ASSUME IInv, NEW t \in Threads, NEW kind \in TurnKinds, StartTurn(t, kind)
  PROVE  TurnInv'
<1> USE DEF IInv
<1>1. op'.turn = turns' /\ op'.thread = t /\ turns' = turns + 1 /\ rows' = rows
  BY DEF StartTurn
<1>2. state'[t] = "running"
  BY DEF StartTurn, Transition, ApplyTransition, Legal, Target, TypeOK
<1>3. ASSUME NEW r \in rows PROVE r.by # turns + 1
  <2>1. r.by \in Nat /\ turns \in Nat /\ r.by <= turns
    BY ReviewAssumption DEF RowInv, TypeOK, Rows, Turns
  <2> QED BY <2>1
<1> QED BY <1>1, <1>2, <1>3 DEF TurnInv

LEMMA TurnInvStep == IInv /\ [Next]_vars => TurnInv'
<1> SUFFICES ASSUME IInv, [Next]_vars PROVE TurnInv'
  OBVIOUS
<1> USE DEF IInv
<1>1. ASSUME NEW t \in Threads, NEW kind \in TurnKinds, StartTurn(t, kind) PROVE TurnInv'
  BY <1>1, StartTurnInv
<1>2. ASSUME NEW t \in Threads, Commit(t) \/ DeleteThread(t) PROVE TurnInv'
  BY <1>2 DEF Commit, DeleteThread, TurnInv, InTurn, None, TurnKinds, PipelineKinds
<1>3. CASE Editing
  BY <1>3 DEF Editing, Write, Remove, Move, Restore, TurnInv, InTurn
<1>4. ASSUME NEW n \in Names, MergeConflict(n) PROVE TurnInv'
  <2>1. UNCHANGED <<state, head, op, turns>> /\ rows' = rows \cup {ConflictRow(n)}
    BY <1>4 DEF MergeConflict
  <2>2. ConflictRow(n).merged /\ ConflictRow(n).status = "conflict"
    BY DEF ConflictRow
  <2> QED BY <2>1, <2>2 DEF TurnInv, InTurn
<1>5. CASE \/ \E L \in Listings : \E stopped \in BOOLEAN : Finish(L, stopped)
           \/ AbortTurn \/ DiscardFails \/ FinishReject \/ Restart
  <2>1. op' = None
    BY <1>5 DEF Finish, AbortTurn, DiscardFails, FinishReject, Restart, LeaseAfterReject
  <2> QED BY <2>1 DEF TurnInv, InTurn, None, TurnKinds, PipelineKinds
<1>6. CASE (\E L \in Listings : CaptureStage(L)) \/ NextStage \/ AnswerCheckpoint
  <2>1. InTurn /\ op.kind = "featdevelop"
    BY <1>6 DEF CaptureStage, NextStage, AnswerCheckpoint, InTurn, TurnKinds, PipelineKinds
  <2>2. op \in TurnOps
    BY <2>1, TurnOfInv
  <2>3. op'.kind = "featdevelop" /\ op'.turn = op.turn /\ op'.thread = op.thread /\ turns' = turns
    BY <1>6, <2>1, <2>2 DEF CaptureStage, NextStage, AnswerCheckpoint, TurnOps
  <2>4. state'[op.thread] \in {"running", "waiting_user"}
    BY <1>6, <2>1, <2>2 DEF CaptureStage, NextStage, AnswerCheckpoint, Transition, ApplyTransition,
       Legal, Target, TurnInv, TypeOK, TurnOps, LiveStates
  <2> QED BY <2>1, <2>3, <2>4 DEF TurnInv
<1>7. ASSUME NEW t \in Threads, NEW S \in Subsets(t), Accept(t, S) \/ StartReject(t, S)
      PROVE  TurnInv'
  BY <1>7 DEF Accept, StartReject, TurnInv, InTurn, None, TurnKinds, PipelineKinds
<1>8. ASSUME NEW n \in Names, Discard(n) PROVE TurnInv'
  <2>1. op \in Rejections
    BY <1>8, OpCases DEF Discard
  <2>2. op'.kind = "reject"
    BY <1>8, <2>1 DEF Discard, Rejections
  <2> QED BY <2>2 DEF TurnInv, InTurn, TurnKinds, PipelineKinds
<1>9. ASSUME NEW r \in rows, NEW v \in {NoFile, r.by}, ResolveConflict(r, v) PROVE TurnInv'
  BY <1>9 DEF ResolveConflict, TurnInv, InTurn, None, TurnKinds, PipelineKinds
<1>10. CASE UNCHANGED vars
  BY <1>10 DEF vars, TurnInv, InTurn
<1> QED BY <1>1, <1>2, <1>3, <1>4, <1>5, <1>6, <1>7, <1>8, <1>9, <1>10 DEF Next, Rejecting

LEMMA NotRejecting ==
  ASSUME op.kind \in TurnKinds \/ op = None
  PROVE  op.kind # "reject"
BY DEF TurnKinds, PipelineKinds, None

LEMMA RejectInvStep == IInv /\ [Next]_vars => RejectInv'
<1> SUFFICES ASSUME IInv, [Next]_vars, op'.kind = "reject" PROVE RejectInv'
  BY DEF RejectInv
<1> USE DEF IInv
<1>1. ASSUME NEW t \in Threads, NEW S \in Subsets(t), StartReject(t, S) PROVE RejectInv'
  BY <1>1 DEF StartReject, RejectInv, Subsets, Pending, Of
<1>2. ASSUME NEW n \in Names, Discard(n) PROVE RejectInv'
  <2>1. op \in Rejections /\ op.kind = "reject"
    BY <1>2, OpCases DEF Discard
  <2>2. op'.subset = op.subset /\ op'.thread = op.thread /\ op'.left = op.left \ {n} /\ rows' = rows
    BY <1>2, <2>1 DEF Discard, Rejections
  <2>3. (op.subset \subseteq Pending(op.thread))'
    BY <2>1, <2>2 DEF RejectInv, Pending, Of
  <2>4. ASSUME NEW r \in op.subset, IsPath(r.file)
        PROVE  r.file \in op'.left \/ tree'[r.file[1]] = head'[r.file[1]]
    <3>1. r.file[1] \in Files
      BY <2>1, NameOfFile DEF Rejections, Rows
    <3>2. r.file \in op.left \/ tree[r.file[1]] = head[r.file[1]]
      BY <2>1, <2>4 DEF RejectInv
    <3>3. /\ tree' = IF IsPath(n) THEN [tree EXCEPT ![n[1]] = head[n[1]]] ELSE tree
          /\ head' = head /\ tree \in [Files -> Versions]
      BY <1>2 DEF Discard, TypeOK
    <3> QED BY <2>2, <2>4, <3>1, <3>2, <3>3
  <2> QED BY <2>2, <2>3, <2>4 DEF RejectInv
<1>3. CASE UNCHANGED vars
  BY <1>3 DEF vars, RejectInv, Pending, Of
<1>4. ASSUME NEW t \in Threads, NEW kind \in TurnKinds, StartTurn(t, kind) PROVE FALSE
  BY <1>4 DEF StartTurn, TurnKinds, PipelineKinds
<1>5. ASSUME op' = op /\ (op = None \/ op.kind \in TurnKinds) PROVE FALSE
  BY <1>5, NotRejecting
<1>6. ASSUME op' = None PROVE FALSE
  BY <1>6 DEF None
<1>7. ASSUME NEW t \in Threads, Commit(t) \/ DeleteThread(t) PROVE op' = op /\ op = None
  BY <1>7 DEF Commit, DeleteThread
<1>8. ASSUME Editing \/ \E n \in Names : MergeConflict(n)
      PROVE  op' = op /\ op.kind \in TurnKinds
  BY <1>8 DEF Editing, Write, Remove, Move, Restore, Writing, InTurn, MergeConflict, TurnKinds
<1>9. CASE \/ \E L \in Listings : \E stopped \in BOOLEAN : Finish(L, stopped)
           \/ AbortTurn \/ DiscardFails \/ FinishReject \/ Restart
  BY <1>6, <1>9 DEF Finish, AbortTurn, DiscardFails, FinishReject, Restart, LeaseAfterReject
<1>10. ASSUME (\E L \in Listings : CaptureStage(L)) \/ NextStage \/ AnswerCheckpoint PROVE FALSE
  <2>1. op \in TurnOps /\ op.kind = "featdevelop"
    BY <1>10, OpCases DEF CaptureStage, NextStage, AnswerCheckpoint, TurnKinds, PipelineKinds
  <2>2. op'.kind = "featdevelop"
    BY <1>10, <2>1 DEF CaptureStage, NextStage, AnswerCheckpoint, TurnOps
  <2> QED BY <2>2
<1>11. ASSUME NEW t \in Threads, NEW S \in Subsets(t), Accept(t, S) PROVE op' = op /\ op = None
  BY <1>11 DEF Accept
<1>12. ASSUME NEW r \in rows, NEW v \in {NoFile, r.by}, ResolveConflict(r, v)
       PROVE  op' = op /\ op = None
  BY <1>12 DEF ResolveConflict
<1> QED BY <1>1, <1>2, <1>3, <1>4, <1>5, <1>7, <1>8, <1>9, <1>10, <1>11, <1>12
        DEF Next, Rejecting

-----------------------------------------------------------------------------
(***************************************************************************)
(* Committed means reviewed.                                               *)
(***************************************************************************)

(* A thread becomes committed only by an accept that leaves nothing pending*)
(* and a pending row comes from the turn under way or from a conflict.     *)
LEMMA CommitSteps ==
  ASSUME IInv, [Next]_vars, NEW t \in Threads, state'[t] = "committed"
  PROVE  \/ state[t] = "committed" /\ (InTurn => op.thread # t)
         \/ \E S \in Subsets(t) : Accept(t, S) /\ Pending(t) \ S = {}
<1> USE DEF IInv
<1>1. ASSUME InTurn PROVE state[op.thread] # "committed"
  BY <1>1 DEF TurnInv
<1>2. ASSUME state'[t] = state[t] PROVE state[t] = "committed" /\ (InTurn => op.thread # t)
  BY <1>1, <1>2
<1>3. ASSUME NEW u \in Threads, NEW e \in TurnEvents \ {"diffs_committed"}, Transition(u, e)
      PROVE  state[t] = "committed" /\ (InTurn => op.thread # t)
  <2>1. state[t] = "committed"
    BY <1>3, ApplyTransitionType DEF Transition, TypeOK
  <2> QED BY <1>1, <2>1
<1>4. ASSUME NEW u \in Threads, NEW kind \in TurnKinds, StartTurn(u, kind)
      PROVE  state[t] = "committed" /\ (InTurn => op.thread # t)
  BY <1>3, <1>4 DEF StartTurn, TurnEvents
<1>5. ASSUME NEW u \in Threads, Commit(u) PROVE state'[t] = state[t]
  BY <1>5 DEF Commit
<1>6. ASSUME NEW u \in Threads, DeleteThread(u) PROVE state'[t] = state[t]
  <2>1. Gone # "committed"
    BY ReviewAssumption DEF ThreadStates, SettledStates
  <2> QED BY <1>6, <2>1 DEF DeleteThread, TypeOK
<1>7. ASSUME Editing \/ \E n \in Names : MergeConflict(n) \/ Discard(n)
      PROVE  state'[t] = state[t]
  BY <1>7 DEF Editing, Write, Remove, Move, Restore, MergeConflict, Discard
<1>s. ASSUME InTurn, NEW d \in TurnEvents \ {"diffs_committed"},
             NEW e \in TurnEvents \ {"diffs_committed"}, TransitionTwice(op.thread, d, e)
      PROVE  state[t] = "committed" /\ (InTurn => op.thread # t)
  <2>1. op.thread \in Threads /\ state[op.thread] \in ThreadStates \cup {Gone}
    BY <1>s, TurnOfInv DEF TypeOK
  <2>2. ApplyTransition(state[op.thread], d) \in (ThreadStates \cup {Gone}) \ {"committed"}
    BY <1>1, <1>s, <2>1, ApplyTransitionType
  <2>3. ApplyTransition(ApplyTransition(state[op.thread], d), e) # "committed"
    BY <1>s, <2>2, ApplyTransitionType
  <2> QED BY <1>1, <1>s, <2>1, <2>3 DEF TransitionTwice, TypeOK
<1>8. ASSUME NEW L \in Listings, NEW stopped \in BOOLEAN, Finish(L, stopped)
      PROVE  state[t] = "committed" /\ (InTurn => op.thread # t)
  <2>1. op.thread \in Threads /\ InTurn
    BY <1>8, TurnOfInv DEF Finish
  <2>2. \/ TransitionTwice(op.thread, "cancel_requested", "turn_finished")
        \/ Transition(op.thread, "turn_finished")
    BY <1>8 DEF Finish
  <2> QED BY <1>3, <1>s, <2>1, <2>2 DEF TurnEvents
<1>a. CASE AnswerCheckpoint
  <2>1. op.thread \in Threads
    BY <1>a, TurnOfInv DEF AnswerCheckpoint, InTurn, TurnKinds, PipelineKinds
  <2> QED BY <1>3, <1>a, <2>1 DEF AnswerCheckpoint, TurnEvents
<1>9. CASE (\E L \in Listings : CaptureStage(L)) \/ NextStage
  <2>1. op.thread \in Threads
    BY <1>9, TurnOfInv DEF CaptureStage, NextStage, InTurn, TurnKinds, PipelineKinds
  <2>2. state' = state \/ Transition(op.thread, "gate_opened_question")
    BY <1>9 DEF CaptureStage, NextStage
  <2> QED BY <1>2, <1>3, <2>1, <2>2 DEF TurnEvents
<1>10. CASE AbortTurn
  <2>1. op.thread \in Threads /\ InTurn
    BY <1>10, TurnOfInv DEF AbortTurn
  <2>2. \/ TransitionTwice(op.thread, "cancel_requested", "cancel_settled")
        \/ \E e \in {"turn_failed", "turn_finished"} : Transition(op.thread, e)
    BY <1>10 DEF AbortTurn
  <2> QED BY <1>3, <1>s, <2>1, <2>2 DEF TurnEvents
<1>11. ASSUME NEW u \in Threads, NEW S \in Subsets(u), Accept(u, S)
       PROVE  \/ state[t] = "committed" /\ (InTurn => op.thread # t)
              \/ \E R \in Subsets(t) : Accept(t, R) /\ Pending(t) \ R = {}
  <2>1. CASE t = u /\ Pending(u) \ S = {}
    BY <1>11, <2>1
  <2>2. CASE t # u
    <3>1. state'[t] = state[t]
      BY <1>11, <2>2 DEF Accept, Transition, TypeOK
    <3> QED BY <1>2, <3>1
  <2>3. CASE Pending(u) \ S # {}
    BY <1>3, <1>11, <2>3 DEF Accept, AcceptEvent, TurnEvents
  <2> QED BY <2>1, <2>2, <2>3
<1>12. ASSUME NEW u \in Threads, NEW S \in Subsets(u), StartReject(u, S)
       PROVE  state'[t] = state[t]
  BY <1>12 DEF StartReject
<1>13. CASE FinishReject
  <2>1. op.thread \in Threads
    BY <1>13, OpCases DEF FinishReject, Rejections
  <2> QED BY <1>3, <1>13, <2>1 DEF FinishReject, TurnEvents
<1>14. ASSUME NEW r \in rows, NEW v \in {NoFile, r.by}, ResolveConflict(r, v)
       PROVE  state'[t] = state[t]
  BY <1>14 DEF ResolveConflict
<1>15. ASSUME Restart \/ DiscardFails \/ UNCHANGED vars PROVE state'[t] = state[t]
  BY <1>15 DEF Restart, DiscardFails, vars
<1> QED BY <1>2, <1>4, <1>5, <1>6, <1>7, <1>8, <1>a, <1>9, <1>10, <1>11, <1>12, <1>13, <1>14, <1>15
        DEF Next, Rejecting

LEMMA CommittedStep == IInv /\ [Next]_vars => CommittedMeansReviewed'
<1> SUFFICES ASSUME IInv, [Next]_vars, NEW t \in Threads, state'[t] = "committed",
                    NEW x \in rows', x.thread = t, x.status = "pending"
             PROVE  x.merged
  BY DEF CommittedMeansReviewed, Pending, Of
<1> USE DEF IInv
<1>1. ASSUME NEW S \in Subsets(t), Accept(t, S), Pending(t) \ S = {} PROVE FALSE
  <2>1. x \in Decide(S, "accepted") /\ S \in SUBSET rows /\ "accepted" \in DiffStatus
    BY <1>1 DEF Accept, Subsets, Pending, Of, DiffStatus
  <2>2. PICK r \in rows : (r \in S => x.status = "accepted") /\ (r \notin S => x = r)
    BY <2>1, DecideRow
  <2>3. r \notin S /\ x = r
    BY <2>2
  <2> QED BY <1>1, <2>3 DEF Pending, Of
<1>2. CASE state[t] = "committed" /\ (InTurn => op.thread # t)
  <2>1. CASE x \in rows
    BY <1>2, <2>1 DEF CommittedMeansReviewed, Pending, Of
  <2>2. CASE AddsConflict /\ x \notin rows
    BY <2>2 DEF AddsConflict, ConflictRow
  <2>3. CASE Captures /\ x \notin rows
    BY <1>2, <2>3 DEF Captures, RowFor
  <2>4. CASE Decides /\ x \notin rows
    <3>1. PICK S \in SUBSET rows, v \in DiffStatus \ {"conflict"} :
             /\ rows' = Decide(S, v)
             /\ v # "pending" \/ \A r \in S : r.status = "conflict"
      BY <2>4 DEF Decides
    <3>2. PICK r \in rows : SameRow(x, r) /\ (r \in S => x.status = v) /\ (r \notin S => x = r)
      BY <3>1, DecideRow
    <3>3. r \in S /\ v = "pending" /\ r.status = "conflict"
      BY <2>4, <3>1, <3>2
    <3> QED BY <3>2, <3>3 DEF RowInv, SameRow
  <2> QED BY <2>1, <2>2, <2>3, <2>4, RowSteps DEF Shrinks
<1> QED BY <1>1, <1>2, CommitSteps

-----------------------------------------------------------------------------
LEMMA InitIInv == Init => IInv
<1> SUFFICES ASSUME Init PROVE IInv
  OBVIOUS
<1>1. TypeOK
  BY ReviewAssumption DEF Init, TypeOK, ThreadStates, SettledStates, Versions, NoFile
<1> QED BY <1>1 DEF Init, IInv, RowsDistinct, TurnInv, InTurn, RejectInv, None, TurnKinds,
        PipelineKinds, CommittedMeansReviewed

LEMMA IInvStep == IInv /\ [Next]_vars => IInv'
BY TypeStep, DistinctStep, RowInvStep, TurnInvStep, RejectInvStep, CommittedStep DEF IInv

(* The inductive invariant.                                                *)
THEOREM Invariant == Spec => []IInv
BY InitIInv, IInvStep, PTL DEF Spec

(* A thread that reads committed has only rows the user decided, but for   *)
(* conflicts resolved afterwards.                                          *)
THEOREM Reviewed == Spec => []CommittedMeansReviewed
<1>1. IInv => CommittedMeansReviewed
  BY DEF IInv
<1> QED BY <1>1, Invariant, PTL

(* A decided row stays as it is until its thread is deleted.               *)
THEOREM FinalDecision == Spec => DecisionIsFinal
<1>1. ASSUME IInv, [Next]_vars, NEW r \in rows, r.status \in {"accepted", "rejected"}
      PROVE  r \in rows' \/ state'[r.thread] = Gone
  <2>1. CASE AddsConflict \/ Captures
    BY <2>1 DEF AddsConflict, Captures
  <2>2. CASE Decides
    BY <1>1, <2>2 DEF Decides, Decide
  <2>3. CASE Shrinks
    BY <1>1, <2>3 DEF Shrinks, Of
  <2> QED BY <1>1, <2>1, <2>2, <2>3, RowSteps
<1>2. IInv /\ [Next]_vars =>
        [\A r \in rows : r.status \in {"accepted", "rejected"} =>
           r \in rows' \/ state'[r.thread] = Gone]_vars
  BY <1>1
<1> QED BY <1>2, Invariant, PTL DEF Spec, DecisionIsFinal

(* Only the end of a rejection marks a row rejected, and a row of its own. *)
LEMMA RejectStep ==
  ASSUME IInv, [Next]_vars, NEW r \in rows, Becomes(r, "rejected")
  PROVE  FinishReject /\ r \in op.subset
<1> USE DEF IInv
<1> DEFINE x == As(r, "rejected")
<1>1. r \in Rows /\ r \notin rows' /\ x \in rows'
  BY DEF TypeOK, Becomes
<1>2. SameRow(x, r) /\ x.status = "rejected" /\ x.thread = r.thread
  BY <1>1 DEF As, SameRow, Rows
<1>3. ~AddsConflict /\ ~Captures
  BY <1>1 DEF AddsConflict, Captures
<1>4. ~Shrinks
  BY <1>1, <1>2 DEF Shrinks, Of
<1>5. PICK S \in SUBSET rows, v \in DiffStatus \ {"conflict"} :
         rows' = Decide(S, v) /\ (v = "rejected" => FinishReject /\ S = op.subset)
  BY <1>3, <1>4, RowSteps DEF Decides
<1>6. r \in S
  BY <1>1, <1>5 DEF Decide
<1>7. PICK s \in rows : SameRow(x, s) /\ (s \in S => x.status = v)
  BY <1>1, <1>5, DecideRow
<1>8. SameRow(r, s)
  BY <1>2, <1>7 DEF SameRow
<1>9. r = s
  BY <1>8 DEF RowsDistinct
<1> QED BY <1>2, <1>5, <1>6, <1>7, <1>9

(* A row is marked rejected only when the file that git finds under its    *)
(* name is what the commit says, whatever else the subset holds and in     *)
(* whichever order it is discarded (applyDiffAction).                      *)
THEOREM RejectRestores == Spec => RejectedIsRestored
<1>1. ASSUME IInv, [Next]_vars, NEW r \in rows, Becomes(r, "rejected"), IsPath(r.file)
      PROVE  tree'[r.file[1]] = head'[r.file[1]]
  <2>1. FinishReject /\ r \in op.subset
    BY <1>1, RejectStep
  <2>2. op.kind = "reject" /\ op.left = {} /\ tree' = tree /\ head' = head
    BY <2>1 DEF FinishReject, AllDiscarded
  <2> QED BY <1>1, <2>1, <2>2 DEF IInv, RejectInv
<1>2. IInv /\ [Next]_vars =>
        [\A r \in rows : Becomes(r, "rejected") /\ IsPath(r.file) =>
           tree'[r.file[1]] = head'[r.file[1]]]_vars
  BY <1>1
<1> QED BY <1>2, Invariant, PTL DEF Spec, RejectedIsRestored

(* A rejection marks all of its rows or none.                              *)
THEOREM RejectIsAtomic == Spec => SubsetIsAtomic
<1>1. ASSUME IInv, [Next]_vars, NEW r \in op.subset, NEW s \in op.subset, op.kind = "reject",
             Becomes(r, "rejected")
      PROVE  Becomes(s, "rejected")
  <2>1. \A q \in op.subset : q \in rows /\ q \in Rows /\ q.status = "pending"
    BY <1>1 DEF IInv, RejectInv, Pending, Of, TypeOK
  <2>2. FinishReject
    BY <1>1, <2>1, RejectStep
  <2>3. rows' = Decide(op.subset, "rejected")
    BY <2>2 DEF FinishReject
  <2>4. \A q \in op.subset : As(q, "rejected").status = "rejected"
    BY <2>1 DEF As, Rows
  <2>5. As(s, "rejected") \in rows' /\ s \notin rows'
    BY <2>1, <2>3, <2>4 DEF Decide, As
  <2> QED BY <2>1, <2>5 DEF Becomes
<1>2. IInv /\ [Next]_vars =>
        [op.kind = "reject" =>
           \A r, s \in op.subset : Becomes(r, "rejected") => Becomes(s, "rejected")]_vars
  BY <1>1
<1> QED BY <1>2, Invariant, PTL DEF Spec, SubsetIsAtomic
=============================================================================
