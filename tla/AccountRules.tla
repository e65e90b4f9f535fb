---------------------------- MODULE AccountRules ----------------------------
(***************************************************************************)
(* The rows of users and user_credentials, the claims of a password        *)
(* cookie, and the conditions and row updates of the account store         *)
(* (services/sqlstore/postgres/password.go and user.go), for one tenant.   *)
(* Everything here is an operator on values: what happens when, and what   *)
(* may happen in between, is in PasswordRequests.                          *)
(***************************************************************************)
EXTENDS Integers, FiniteSets

CONSTANTS
  User,       \* the user ids of the tenant, taken or still free
  Request,    \* the requests of a behaviour; each is served at most once
  Password,   \* the passwords people type
  Setup,      \* stands for whatever wrote the rows before the behaviour
  NoHash      \* a user without a user_credentials row

\* 64 random characters are never drawn twice: a stamp is named by the request
\* that wrote it, and so is the salt of a password hash.
Stamp == Request \cup {Setup}
Hash == Password \X Stamp

\* Visitors and collaborators differ in no rule of the account store.
Role == {"member", "administrator"}
Status == {"absent", "active", "blocked", "deleted"}

Row == [status : Status, role : Role, stamp : Stamp,
        hash : Hash \cup {NoHash}, must : BOOLEAN]

Purpose == {"session", "change"}
Claims == [user : User, stamp : Stamp, purpose : Purpose]

ASSUME UserAssumption == IsFiniteSet(User)
ASSUME StampAssumption == Setup \notin Request
ASSUME HashAssumption == NoHash \notin Hash

-----------------------------------------------------------------------------
\* Mutation of generateSecurityStamp: every stamp is the same.
constantSecurityStamp(r) == Setup

generateSecurityStamp(r) == r

Verify(hash, password) == hash # NoHash /\ hash[1] = password

PasswordInitialized(row) == row.hash # NoHash

PasswordAdministrator(row) ==
  row.status = "active" /\ row.role = "administrator" /\ PasswordInitialized(row)

hasPasswordAdministrator(table) == \E u \in User : PasswordAdministrator(table[u])

\* The test the User middleware applies to a decoded cookie.
Valid(row, claims) ==
  /\ row.status = "active"
  /\ PasswordInitialized(row)
  /\ row.stamp = claims.stamp
  /\ row.must <=> claims.purpose = "change"

PurposeOf(row) == IF row.must THEN "change" ELSE "session"

checkPasswordActor(row, stamp) ==
  /\ row.status = "active"
  /\ PasswordInitialized(row)
  /\ ~row.must
  /\ row.stamp = stamp

freshPasswordAdministrator(row, claims) ==
  /\ claims.purpose = "session"
  /\ PasswordInitialized(row)
  /\ row.status = "active"
  /\ ~row.must
  /\ row.stamp = claims.stamp
  /\ row.role = "administrator"

checkLastPasswordAdministrator(table, target) ==
  PasswordAdministrator(table[target]) =>
    Cardinality({u \in User : PasswordAdministrator(table[u])}) > 1

-----------------------------------------------------------------------------
(* What each command writes; r is the request it runs in.                  *)

createPasswordAccount(r, role, password) ==
  [status |-> "active", role |-> role, stamp |-> generateSecurityStamp(r),
   hash |-> <<password, r>>, must |-> TRUE]

initializePasswordAccount(row, r, password) ==
  [row EXCEPT !.hash = <<password, r>>, !.must = TRUE,
              !.stamp = generateSecurityStamp(r)]

resetPasswordAccount(row, r, password) ==
  [row EXCEPT !.hash = <<password, r>>, !.must = TRUE, !.status = "active",
              !.stamp = generateSecurityStamp(r)]

changePassword(row, r, password) ==
  [row EXCEPT !.hash = <<password, r>>, !.must = FALSE,
              !.stamp = generateSecurityStamp(r)]

blockUser(row, r) ==
  [row EXCEPT !.status = "blocked", !.stamp = generateSecurityStamp(r)]

changeUserRole(row, r, role) ==
  [row EXCEPT !.role = role, !.stamp = generateSecurityStamp(r)]
=============================================================================
