-------------------------- MODULE ProjectExclusive --------------------------
(***************************************************************************)
(* What services/runner/project-execution.ts promises, whatever the code   *)
(* that uses it looks like: "one long execution per project".  An          *)
(* execution (a turn, a diff review, a git command, a thread deletion)     *)
(* enters a project that nobody is in, and leaves it.  The end of the      *)
(* process empties every project.                                          *)
(***************************************************************************)

CONSTANTS Projects,     \* the projects
          Executions    \* everything that may be running in a project

VARIABLE inside         \* inside[p]: the executions now in project p

Init == inside = [p \in Projects |-> {}]

Enter(p, x) ==
  /\ inside[p] = {}
  /\ inside' = [inside EXCEPT ![p] = {x}]

Leave(p) ==
  /\ inside[p] # {}
  /\ inside' = [inside EXCEPT ![p] = {}]

Terminate == inside' = [p \in Projects |-> {}]

Next ==
  \/ \E p \in Projects, x \in Executions : Enter(p, x)
  \/ \E p \in Projects : Leave(p)
  \/ Terminate

Spec == Init /\ [][Next]_inside
=============================================================================
