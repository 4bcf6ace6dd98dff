--------------------------- MODULE MessageDelivery ---------------------------
(***************************************************************************)
(* What the composer promises for a message: it runs at most once and in   *)
(* the thread in which it was written, and one that waits goes away by the *)
(* user's hand only, as long as it does not go astray.  Nothing of queues, *)
(* storage, sockets or calls is left in it.                                *)
(***************************************************************************)

CONSTANTS Threads, Items

VARIABLE place   \* where each message is

Away == <<"away">>
Waits(t) == <<"waits", t>>
Ran(t) == <<"ran", t>>
Astray == <<"astray">>

Init == place = [i \in Items |-> Away]

Put(i, new) == place' = [place EXCEPT ![i] = new]

Write(i, t) == place[i] = Away /\ Put(i, Waits(t))

(* A message that nothing stands before does not wait.                     *)
Run(i, t) == place[i] \in {Away, Waits(t)} /\ Put(i, Ran(t))

Remove(i, t) == place[i] = Waits(t) /\ Put(i, Away)

(* Messages that wait go astray together, and nothing is promised of them. *)
Stray(S) ==
  /\ \A i \in S : \E t \in Threads : place[i] = Waits(t)
  /\ place' = [i \in Items |-> IF i \in S THEN Astray ELSE place[i]]

Next ==
  \/ \E S \in SUBSET Items : Stray(S)
  \/ \E i \in Items, t \in Threads : Write(i, t) \/ Run(i, t) \/ Remove(i, t)

Spec == Init /\ [][Next]_place
=============================================================================
