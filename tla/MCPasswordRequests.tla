------------------------- MODULE MCPasswordRequests -------------------------
(* Small instances of PasswordRequests for TLC.                            *)
EXTENDS PasswordRequests, TLC

CONSTANTS a, b, c        \* three users
CONSTANTS p, q           \* two passwords

Account(status, role, must) ==
  [status |-> status, role |-> role, stamp |-> Setup, hash |-> <<p, Setup>>, must |-> must]
Legacy(status, role) ==
  [status |-> status, role |-> role, stamp |-> Setup, hash |-> NoHash, must |-> FALSE]

\* An administrator and a member who both signed in before.
AdministratorAndMember ==
  {[u \in User |-> Account("active", IF u = a THEN "administrator" ELSE "member", FALSE)]}

\* Two administrators; a third id that is free, blocked or never initialized.
TwoAdministrators ==
  {[u \in User |-> IF u = c THEN row ELSE Account("active", "administrator", FALSE)] :
     row \in {Account("blocked", "member", TRUE), Legacy("active", "administrator"),
              Legacy("absent", "member")}}

\* A site the operator has not set up yet, and one whose only administrator
\* lost the password.
OperatorNeeded ==
  {[u \in User |-> Legacy("active", "administrator")],
   [u \in User |-> IF u = a THEN Account("active", "administrator", FALSE)
                   ELSE Legacy("deleted", "member")]}

\* Every kind of site a request may meet.
EverySite == TwoAdministrators \cup OperatorNeeded

Symmetry == Permutations(Request)
=============================================================================
