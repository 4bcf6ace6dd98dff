----------------------------- MODULE SerialQueue -----------------------------
(***************************************************************************)
(* What the delegation servers promise to those who call them, whatever a  *)
(* call does: the calls of a server are served one at a time, in the order *)
(* in which they came, and each is answered once.  A closed server takes   *)
(* no new call and serves those it has; only the end of the process loses  *)
(* a call.  Nothing of children, worktrees or merges is left in it.        *)
(***************************************************************************)
EXTENDS Naturals, Sequences

CONSTANTS Servers,   \* one for each turn
          Requests   \* the calls, each made at most once

VARIABLES
  open,      \* the server that takes calls, if any
  line,      \* line[s]: the calls of server s that have no answer yet
  serving,   \* the calls that are being handled
  answered, lost

vars == <<open, line, serving, answered, lost>>

Stand(s) == {line[s][i] : i \in 1..Len(line[s])}
Made == answered \cup lost \cup UNION {Stand(s) : s \in Servers}

Init ==
  /\ open = {} /\ line = [s \in Servers |-> <<>>]
  /\ serving = {} /\ answered = {} /\ lost = {}

Open(s) ==
  /\ open = {} /\ line[s] = <<>>
  /\ open' = {s}
  /\ UNCHANGED <<line, serving, answered, lost>>

Close ==
  /\ open # {} /\ open' = {}
  /\ UNCHANGED <<line, serving, answered, lost>>

Arrive(s, r) ==
  /\ s \in open /\ r \notin Made
  /\ line' = [line EXCEPT ![s] = Append(@, r)]
  /\ UNCHANGED <<open, serving, answered, lost>>

Serve(s) ==
  /\ line[s] # <<>> /\ Head(line[s]) \notin serving
  /\ serving' = serving \cup {Head(line[s])}
  /\ UNCHANGED <<open, line, answered, lost>>

(* A call can be answered without more ado.                                *)
Answer(s) ==
  /\ line[s] # <<>>
  /\ answered' = answered \cup {Head(line[s])}
  /\ line' = [line EXCEPT ![s] = Tail(@)]
  /\ serving' = serving \ {Head(line[s])}
  /\ UNCHANGED <<open, lost>>

Restart ==
  /\ lost' = lost \cup UNION {Stand(s) : s \in Servers}
  /\ open' = {} /\ line' = [s \in Servers |-> <<>>] /\ serving' = {}
  /\ UNCHANGED answered

Next ==
  \/ \E s \in Servers :
       \/ Open(s) \/ Serve(s) \/ Answer(s)
       \/ \E r \in Requests : Arrive(s, r)
  \/ Close \/ Restart

Spec == Init /\ [][Next]_vars
=============================================================================
