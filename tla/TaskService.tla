---------------------------- MODULE TaskService ----------------------------
(***************************************************************************)
(* What handlers are promised about background tasks: a task that was      *)
(* accepted is attempted once, and the server does not stop cleanly before *)
(* every accepted task was.  Tasks are kept in memory: a server that dies, *)
(* or gives up waiting, loses those it has not attempted.                  *)
(***************************************************************************)
CONSTANT Task

VARIABLES accepted, attempted, service

vars == <<accepted, attempted, service>>

Init == accepted = {} /\ attempted = {} /\ service = "open"

Accept(t) ==
  /\ service = "open" /\ t \notin accepted
  /\ accepted' = accepted \cup {t}
  /\ UNCHANGED <<attempted, service>>

Attempt(t) ==
  /\ service = "open" /\ t \in accepted \ attempted
  /\ attempted' = attempted \cup {t}
  /\ UNCHANGED <<accepted, service>>

Close ==
  /\ service = "open" /\ attempted = accepted
  /\ service' = "closed"
  /\ UNCHANGED <<accepted, attempted>>

Lose ==
  /\ service = "open"
  /\ service' = "lost"
  /\ UNCHANGED <<accepted, attempted>>

Next == (\E t \in Task : Accept(t) \/ Attempt(t)) \/ Close \/ Lose

Spec == Init /\ [][Next]_vars
=============================================================================
