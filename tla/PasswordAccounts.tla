-------------------------- MODULE PasswordAccounts --------------------------
(***************************************************************************)
(* What the account store promises: every operation on an account, every   *)
(* sign-in and every business write happens at one instant, and is judged  *)
(* by the rows of that instant.  There are no requests in flight, no locks  *)
(* and no stale reads here; PasswordRequests shows that the handlers, the   *)
(* middleware and the transactions of the program keep this promise.        *)
(***************************************************************************)
EXTENDS AccountRules

CONSTANT InitialUsers

VARIABLES
  users,     \* the committed rows
  issued,    \* the claims of every cookie a client was ever handed
  written    \* the requests whose business writes were committed

vars == <<users, issued, written>>

Holders(table) == {u \in User : table[u].status = "active" /\ PasswordInitialized(table[u])}

ClaimsFor(table, u) == [user |-> u, stamp |-> table[u].stamp, purpose |-> PurposeOf(table[u])]

Init ==
  /\ users \in InitialUsers
  /\ issued = {ClaimsFor(users, u) : u \in Holders(users)}
  /\ written = {}

Replace(u, row) ==
  /\ users' = [users EXCEPT ![u] = row]
  /\ UNCHANGED <<issued, written>>

\* The bearer of c may act as an administrator right now.
Administrator(c) ==
  /\ c.purpose = "session"
  /\ Valid(users[c.user], c)
  /\ users[c.user].role = "administrator"

SignIn(u) ==
  /\ u \in Holders(users)
  /\ issued' = issued \cup {ClaimsFor(users, u)}
  /\ UNCHANGED <<users, written>>

\* Both the ordinary change and the completion of a forced one.
ChangePassword(c, r, new) ==
  /\ Valid(users[c.user], c)
  /\ ~Verify(users[c.user].hash, new)
  /\ Replace(c.user, changePassword(users[c.user], r, new))

Create(c, u, r, role, new) ==
  /\ Administrator(c)
  /\ users[u].status = "absent"
  /\ Replace(u, createPasswordAccount(r, role, new))

Initialize(c, u, r, new) ==
  /\ Administrator(c) /\ u # c.user
  /\ users[u].status \in {"active", "blocked"} /\ ~PasswordInitialized(users[u])
  /\ Replace(u, initializePasswordAccount(users[u], r, new))

\* A reset keeps an active account active, a restore reactivates a blocked one.
Reset(c, u, r, new) ==
  /\ Administrator(c) /\ u # c.user
  /\ users[u].status \in {"active", "blocked"} /\ PasswordInitialized(users[u])
  /\ Replace(u, resetPasswordAccount(users[u], r, new))

Block(c, u, r) ==
  /\ Administrator(c) /\ u # c.user
  /\ users[u].status = "active"
  /\ Replace(u, blockUser(users[u], r))

ChangeRole(c, u, r, role) ==
  /\ Administrator(c) /\ u # c.user
  /\ users[u].status \in {"active", "blocked"}
  /\ Replace(u, changeUserRole(users[u], r, role))

\* The local commands of the operator need no session.
InitializeOffline(u, r, new) ==
  /\ users[u].status = "active" /\ ~PasswordInitialized(users[u])
  /\ Replace(u, initializePasswordAccount(users[u], r, new))

ResetOffline(u, r, new) ==
  /\ PasswordAdministrator(users[u])
  /\ Replace(u, resetPasswordAccount(users[u], r, new))

Write(c, r) ==
  /\ c.purpose = "session"
  /\ Valid(users[c.user], c)
  /\ written' = written \cup {r}
  /\ UNCHANGED <<users, issued>>

Next ==
  \/ \E u \in User : SignIn(u)
  \/ \E r \in Request, c \in issued : Write(c, r)
  \/ \E r \in Request, c \in issued, new \in Password : ChangePassword(c, r, new)
  \/ \E r \in Request, c \in issued, u \in User :
       \/ Block(c, u, r)
       \/ \E role \in Role : ChangeRole(c, u, r, role)
       \/ \E new \in Password :
            \/ Initialize(c, u, r, new)
            \/ Reset(c, u, r, new)
            \/ \E role \in Role : Create(c, u, r, role, new)
  \/ \E r \in Request, u \in User, new \in Password :
       InitializeOffline(u, r, new) \/ ResetOffline(u, r, new)

Spec == Init /\ [][Next]_vars
=============================================================================
