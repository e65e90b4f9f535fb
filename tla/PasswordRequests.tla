-------------------------- MODULE PasswordRequests --------------------------
(***************************************************************************)
(* Requests that sign in, change a password, manage accounts or write      *)
(* business data, against one tenant of the PostgreSQL store.  A request   *)
(* owns one READ COMMITTED transaction, so each of its statements sees the *)
(* rows committed before that statement.  The operations that hash a       *)
(* password read without a lock, compute, and only then take the tenant     *)
(* row lock; the others take it in the User middleware.                    *)
(*                                                                         *)
(* A step is one statement together with the computation that follows it.  *)
(* Statements executed under the tenant lock are one step with the         *)
(* acquisition, or with the previous such statement: every writer of these *)
(* rows holds the lock, so nothing can change in between.                  *)
(***************************************************************************)
EXTENDS AccountRules

CONSTANTS
  InitialUsers,  \* the tables of users the behaviours start from
  Kinds,         \* the operations the clients ask for
  NoRequest,     \* the lock is free
  NoClaims, NoJob, NoRow

LockingKinds == {"write", "block", "role"}        \* lock in the middleware
ManageKinds == {"create", "initialize", "reset", "restore"}
OfflineKinds == {"offlineInitialize", "offlineReset"}
AllKinds == {"signin", "change", "complete"} \cup LockingKinds \cup ManageKinds \cup OfflineKinds

\* pw is the password presented (or the temporary one an administrator gives),
\* new the password a change asks for.
Job == [kind : AllKinds, claims : Claims \cup {NoClaims}, target : User,
        pw : Password, new : Password, role : Role]

\* A user before the behaviour starts: requests have written nothing yet.
InitialRow ==
  {row \in Row : /\ row.stamp = Setup
                 /\ row.hash \in (Password \X {Setup}) \cup {NoHash}
                 /\ row.status = "absent" => row.hash = NoHash
                 /\ row.must => row.hash # NoHash}

ASSUME InitialAssumption == InitialUsers \subseteq [User -> InitialRow]
ASSUME KindsAssumption == Kinds \subseteq AllKinds
ASSUME PasswordAssumption == Password # {}
ASSUME NullAssumption ==
  /\ NoRequest \notin Request \cup {Setup}
  /\ NoClaims \notin Claims
  /\ NoJob \notin Job
  /\ NoRow \notin Row

VARIABLES
  users,       \* the committed rows
  issued,      \* the claims of every cookie a client was ever handed
  written,     \* the requests whose business writes were committed
  tenantLock,  \* who holds FOR NO KEY UPDATE on the tenant's row
  pc, job,     \* where each request is, and what it was asked
  seen,        \* the credential a request read and keeps in its context
  pending,     \* the target's row as the open transaction would leave it
  trx,         \* the request's transaction
  response     \* what the request reports

vars == <<users, issued, written, tenantLock, pc, job, seen, pending, trx, response>>

Serving(r) == pc[r] \notin {"idle", "done"}
Target(r) == job[r].target
Subject(r) == IF job[r].kind = "signin" THEN Target(r) ELSE job[r].claims.user

-----------------------------------------------------------------------------
(* What clients ask for: any user, any cookie ever issued, any password.   *)

Ask(kind, claims, u, p, n, role) ==
  [kind |-> kind, claims |-> claims, target |-> u, pw |-> p, new |-> n, role |-> role]

\* What an operation does not look at.
AnyPassword == CHOOSE p \in Password : TRUE
AnyRole == "member"

SignInJobs == {Ask("signin", NoClaims, u, p, p, AnyRole) : u \in User, p \in Password}
ChangeJobs == {Ask("change", c, c.user, p, n, AnyRole) : c \in issued, p, n \in Password}
CompleteJobs == {Ask("complete", c, c.user, n, n, AnyRole) : c \in issued, n \in Password}
WriteJobs == {Ask("write", c, c.user, AnyPassword, AnyPassword, AnyRole) : c \in issued}
ManageJobs == {Ask(k, c, u, p, p, AnyRole) :
                 k \in ManageKinds \ {"create"}, c \in issued, u \in User, p \in Password}
CreateJobs == {Ask("create", c, u, p, p, role) :
                 c \in issued, u \in User, p \in Password, role \in Role}
BlockJobs == {Ask("block", c, u, AnyPassword, AnyPassword, AnyRole) : c \in issued, u \in User}
RoleJobs == {Ask("role", c, u, AnyPassword, AnyPassword, role) :
               c \in issued, u \in User, role \in Role}
OfflineJobs == {Ask(k, NoClaims, u, p, p, AnyRole) : k \in OfflineKinds, u \in User, p \in Password}

Jobs == {j \in SignInJobs \cup ChangeJobs \cup CompleteJobs \cup WriteJobs \cup ManageJobs
                 \cup CreateJobs \cup BlockJobs \cup RoleJobs \cup OfflineJobs : j.kind \in Kinds}

-----------------------------------------------------------------------------
Init ==
  /\ users \in InitialUsers
  /\ issued = {[user |-> u, stamp |-> users[u].stamp, purpose |-> PurposeOf(users[u])] :
                 u \in {v \in User : users[v].status = "active" /\ PasswordInitialized(users[v])}}
  /\ written = {}
  /\ tenantLock = NoRequest
  /\ pc = [r \in Request |-> "idle"]
  /\ job = [r \in Request |-> NoJob]
  /\ seen = [r \in Request |-> NoRow]
  /\ pending = [r \in Request |-> NoRow]
  /\ trx = [r \in Request |-> "none"]
  /\ response = [r \in Request |-> "none"]

goto(r, label) == pc' = [pc EXCEPT ![r] = label]

\* WebSetup opens the transaction before any other middleware runs.
Start(r) ==
  /\ pc[r] = "idle"
  /\ \E j \in Jobs :
       /\ job' = [job EXCEPT ![r] = j]
       /\ goto(r, IF j.kind = "signin" THEN "ready"
                  ELSE IF j.kind \in OfflineKinds THEN "lock"
                  ELSE IF j.kind \in LockingKinds THEN "auth"
                  ELSE "readUser")
  /\ trx' = [trx EXCEPT ![r] = "open"]
  /\ UNCHANGED <<users, issued, written, tenantLock, seen, pending, response>>

\* Mutation of lockPasswordTenant: the row is read without waiting for it.
lockWithoutWaiting(r) ==
  /\ trx[r] = "open"
  /\ tenantLock' = r

lockPasswordTenant(r) ==
  /\ trx[r] = "open"
  /\ tenantLock = NoRequest
  /\ tenantLock' = r

\* Mutation of AuthenticateLocked: a write is authenticated like a read.
AuthenticateUnlocked(r) ==
  /\ pc[r] = "auth" /\ trx[r] = "open"
  /\ seen' = [seen EXCEPT ![r] = users[Subject(r)]]
  /\ goto(r, IF Valid(users[Subject(r)], job[r].claims) THEN "ready" ELSE "refused")
  /\ UNCHANGED <<users, issued, written, tenantLock, job, pending, trx, response>>

\* The middleware of a write: lock, then read and judge the credential.
AuthenticateLocked(r) ==
  /\ pc[r] = "auth"
  /\ lockPasswordTenant(r)
  /\ seen' = [seen EXCEPT ![r] = users[Subject(r)]]
  /\ goto(r, IF Valid(users[Subject(r)], job[r].claims) THEN "ready" ELSE "refused")
  /\ UNCHANGED <<users, issued, written, job, pending, trx, response>>

\* An unlocked credential is read in two statements: the row of the user ...
ReadUser(r) ==
  /\ pc[r] = "readUser" /\ trx[r] = "open"
  /\ seen' = [seen EXCEPT ![r] = users[Subject(r)]]
  /\ goto(r, IF users[Subject(r)].status \notin {"absent", "deleted"}
                /\ (job[r].kind = "signin" => PasswordInitialized(users[Subject(r)]))
             THEN "readCredential" ELSE "refused")
  /\ UNCHANGED <<users, issued, written, tenantLock, job, pending, trx, response>>

\* ... and then that of the credential, which may be newer.
ReadCredential(r) ==
  /\ pc[r] = "readCredential" /\ trx[r] = "open"
  /\ LET now == users[Subject(r)]
         credential == [seen[r] EXCEPT !.hash = now.hash, !.must = now.must]
     IN  /\ seen' = [seen EXCEPT ![r] = credential]
         /\ IF job[r].kind = "signin"
            THEN goto(r, IF Verify(credential.hash, job[r].pw) /\ credential.status = "active"
                         THEN "lock" ELSE "refused")
            ELSE goto(r, IF Valid(credential, job[r].claims) THEN "ready" ELSE "refused")
  /\ UNCHANGED <<users, issued, written, tenantLock, job, pending, trx, response>>

\* The route's middleware and the part of the handler before its first statement.
Admitted(r) ==
  LET j == job[r] IN
  CASE j.kind = "signin" -> TRUE
    [] j.kind = "write" -> j.claims.purpose = "session"
    [] j.kind = "complete" ->
         /\ j.claims.purpose = "change" /\ seen[r].must
         /\ ~Verify(seen[r].hash, j.new)
    [] j.kind = "change" ->
         /\ j.claims.purpose = "session" /\ ~seen[r].must
         /\ Verify(seen[r].hash, j.pw)
         /\ ~Verify(seen[r].hash, j.new)
    [] j.kind \in ManageKinds \cup {"block", "role"} ->
         /\ j.claims.purpose = "session"
         /\ seen[r].role = "administrator"
         /\ j.kind \notin {"create", "block"} => j.target # j.claims.user
    [] OTHER -> FALSE

PasswordReady(r) ==
  /\ pc[r] = "ready" /\ trx[r] = "open"
  /\ goto(r, IF ~(hasPasswordAdministrator(users) /\ Admitted(r)) THEN "refused"
             ELSE CASE job[r].kind = "signin" -> "readUser"
                    [] job[r].kind = "write" -> "commit"
                    [] job[r].kind \in {"block", "role"} -> "apply"
                    [] OTHER -> "lock")
  /\ UNCHANGED <<users, issued, written, tenantLock, job, seen, pending, trx, response>>

\* Mutation of LockCredential: what was verified before is not compared.
LockCredentialUnchecked(r) ==
  /\ pc[r] = "lock" /\ job[r].kind = "signin"
  /\ lockPasswordTenant(r)
  /\ seen' = [seen EXCEPT ![r] = users[Target(r)]]
  /\ goto(r, IF users[Target(r)].status = "active" THEN "commit" ELSE "refused")
  /\ UNCHANGED <<users, issued, written, job, pending, trx, response>>

\* PasswordSignIn reads the credential again under the lock, after verifying.
LockCredential(r) ==
  /\ pc[r] = "lock" /\ job[r].kind = "signin"
  /\ lockPasswordTenant(r)
  /\ LET now == users[Target(r)] IN
     /\ seen' = [seen EXCEPT ![r] = now]
     /\ goto(r, IF now.stamp = seen[r].stamp /\ now.status = "active" /\ now.hash = seen[r].hash
                THEN "commit" ELSE "refused")
  /\ UNCHANGED <<users, issued, written, job, pending, trx, response>>

\* The checks of the commands on the rows they find under the lock.
ActorGranted(j) ==
  /\ checkPasswordActor(users[j.claims.user], j.claims.stamp)
  /\ users[j.claims.user].role = "administrator"

ChangeGranted(j) ==
  LET target == users[j.target] IN
  /\ target.status = "active" /\ PasswordInitialized(target)
  /\ target.must <=> j.kind = "complete"
  /\ target.stamp = j.claims.stamp
  /\ j.kind = "change" => checkPasswordActor(target, j.claims.stamp)

\* The id is fresh, so the username is not taken.
CreateGranted(j) == ActorGranted(j) /\ users[j.target].status = "absent"

InitializeGranted(j) ==
  /\ ~PasswordInitialized(users[j.target])
  /\ \/ j.kind \in OfflineKinds /\ users[j.target].status = "active"
     \/ /\ j.kind \notin OfflineKinds /\ j.target # j.claims.user /\ ActorGranted(j)
        /\ users[j.target].status \in {"active", "blocked"}

ResetGranted(j) ==
  /\ PasswordInitialized(users[j.target])
  /\ users[j.target].status = IF j.kind = "restore" THEN "blocked" ELSE "active"
  /\ \/ j.kind \in OfflineKinds /\ users[j.target].role = "administrator"
     \/ j.kind \notin OfflineKinds /\ j.target # j.claims.user /\ ActorGranted(j)

BlockGranted(j) ==
  /\ j.target # j.claims.user /\ ActorGranted(j)
  /\ users[j.target].status = "active"
  /\ checkLastPasswordAdministrator(users, j.target)

RoleGranted(j) ==
  /\ j.target # j.claims.user /\ ActorGranted(j)
  /\ users[j.target].status \in {"active", "blocked"}
  /\ j.role # "administrator" => checkLastPasswordAdministrator(users, j.target)

Granted(r) ==
  LET j == job[r] IN
  /\ j.kind \in ManageKinds => freshPasswordAdministrator(users[j.claims.user], j.claims)
  /\ CASE j.kind \in {"change", "complete"} -> ChangeGranted(j)
       [] j.kind = "create" -> CreateGranted(j)
       [] j.kind \in {"initialize", "offlineInitialize"} -> InitializeGranted(j)
       [] j.kind \in {"reset", "restore", "offlineReset"} -> ResetGranted(j)
       [] j.kind = "block" -> BlockGranted(j)
       [] j.kind = "role" -> RoleGranted(j)
       [] OTHER -> FALSE

NewRow(r) ==
  LET j == job[r]
      target == users[j.target]
  IN
  CASE j.kind \in {"change", "complete"} -> changePassword(target, r, j.new)
    [] j.kind = "create" -> createPasswordAccount(r, j.role, j.pw)
    [] j.kind \in {"initialize", "offlineInitialize"} -> initializePasswordAccount(target, r, j.pw)
    [] j.kind \in {"reset", "restore", "offlineReset"} -> resetPasswordAccount(target, r, j.pw)
    [] j.kind = "block" -> blockUser(target, r)
    [] OTHER -> changeUserRole(target, r, j.role)

Command(r) ==
  /\ IF Granted(r)
     THEN /\ pending' = [pending EXCEPT ![r] = NewRow(r)]
          /\ goto(r, "commit")
     ELSE /\ goto(r, "refused")
          /\ UNCHANGED pending
  /\ UNCHANGED <<users, issued, written, job, seen, trx, response>>

\* Commands of the hashing operations and of the operator's terminal.
LockAndCommand(r) ==
  /\ pc[r] = "lock" /\ job[r].kind # "signin"
  /\ lockPasswordTenant(r)
  /\ Command(r)

\* Commands of requests the middleware already locked for.
LockedCommand(r) ==
  /\ pc[r] = "apply" /\ trx[r] = "open"
  /\ UNCHANGED tenantLock
  /\ Command(r)

-----------------------------------------------------------------------------
Release(r) == tenantLock' = IF tenantLock = r THEN NoRequest ELSE tenantLock

\* The handler returns; its context is garbage.
Finish(r, answer) ==
  /\ goto(r, "done")
  /\ response' = [response EXCEPT ![r] = answer]
  /\ job' = [job EXCEPT ![r] = NoJob]
  /\ seen' = [seen EXCEPT ![r] = NoRow]
  /\ pending' = [pending EXCEPT ![r] = NoRow]

Persist(r) ==
  /\ trx' = [trx EXCEPT ![r] = "committed"]
  /\ users' = IF pending[r] = NoRow THEN users ELSE [users EXCEPT ![Target(r)] = pending[r]]
  /\ written' = IF job[r].kind = "write" THEN written \cup {r} ELSE written
  /\ Release(r)

\* Context.Commit succeeds and the handler answers; a sign-in sets its cookie.
Commit(r) ==
  /\ pc[r] = "commit" /\ trx[r] = "open"
  /\ Persist(r)
  /\ issued' = IF job[r].kind = "signin"
               THEN issued \cup {[user |-> Target(r), stamp |-> seen[r].stamp,
                                  purpose |-> PurposeOf(seen[r])]}
               ELSE issued
  /\ Finish(r, "ok")

\* The database committed, but the acknowledgement was lost: Commit fails.
CommitUnacknowledged(r) ==
  /\ pc[r] = "commit" /\ trx[r] = "open"
  /\ Persist(r)
  /\ UNCHANGED issued
  /\ Finish(r, "error")

\* The client is gone and database/sql has rolled back: sql.ErrTxDone, which
\* Trx.Commit turns into success.  Nobody receives the cookie.
CommitFinished(r) ==
  /\ pc[r] = "commit" /\ trx[r] = "rolledback"
  /\ Finish(r, "ok")
  /\ UNCHANGED <<users, issued, written, tenantLock, trx>>

\* A refusal ends the transaction without writes.
Refuse(r) ==
  /\ pc[r] = "refused"
  /\ trx' = [trx EXCEPT ![r] = IF @ = "open" THEN "committed" ELSE @]
  /\ Release(r)
  /\ Finish(r, "refused")
  /\ UNCHANGED <<users, issued, written>>

\* A statement or the commit fails, the handler panics, the process dies.
Fail(r) ==
  /\ Serving(r) /\ trx[r] = "open"
  /\ trx' = [trx EXCEPT ![r] = "rolledback"]
  /\ Release(r)
  /\ Finish(r, "error")
  /\ UNCHANGED <<users, issued, written>>

\* Mutation of Disconnect: the lock outlives the transaction.
DisconnectKeepingLock(r) ==
  /\ Serving(r) /\ trx[r] = "open" /\ job[r].kind \notin OfflineKinds
  /\ trx' = [trx EXCEPT ![r] = "rolledback"]
  /\ pending' = [pending EXCEPT ![r] = NoRow]
  /\ UNCHANGED <<users, issued, written, tenantLock, pc, job, seen, response>>

\* The client goes away: the request's context is cancelled and database/sql
\* rolls the transaction back while the handler is still running.
Disconnect(r) ==
  /\ Serving(r) /\ trx[r] = "open" /\ job[r].kind \notin OfflineKinds
  /\ trx' = [trx EXCEPT ![r] = "rolledback"]
  /\ Release(r)
  /\ pending' = [pending EXCEPT ![r] = NoRow]
  /\ UNCHANGED <<users, issued, written, pc, job, seen, response>>

\* ... so that its next statement fails.
StatementFails(r) ==
  /\ Serving(r) /\ pc[r] \notin {"commit", "refused"} /\ trx[r] = "rolledback"
  /\ Finish(r, "error")
  /\ UNCHANGED <<users, issued, written, tenantLock, trx>>

Progress(r) ==
  \/ AuthenticateLocked(r) \/ ReadUser(r) \/ ReadCredential(r) \/ PasswordReady(r)
  \/ LockCredential(r) \/ LockAndCommand(r) \/ LockedCommand(r)
  \/ Commit(r) \/ CommitFinished(r) \/ Refuse(r) \/ StatementFails(r)

\* Nobody asks for anything any more.
Quiet == (\A r \in Request : pc[r] = "done") /\ UNCHANGED vars

Step(r) == Start(r) \/ Progress(r) \/ CommitUnacknowledged(r) \/ Fail(r) \/ Disconnect(r)

Next == (\E r \in Request : Step(r)) \/ Quiet

Spec == Init /\ [][Next]_vars
-----------------------------------------------------------------------------
(* Properties                                                              *)

\* Each variable has its type; a request has a job exactly while it is served.
TypeOK ==
  /\ users \in [User -> Row]
  /\ issued \subseteq Claims
  /\ written \subseteq Request
  /\ tenantLock \in Request \cup {NoRequest}
  /\ pc \in [Request -> {"idle", "auth", "readUser", "readCredential", "ready",
                         "lock", "apply", "commit", "refused", "done"}]
  /\ job \in [Request -> Job \cup {NoJob}]
  /\ seen \in [Request -> Row \cup {NoRow}]
  /\ pending \in [Request -> Row \cup {NoRow}]
  /\ trx \in [Request -> {"none", "open", "committed", "rolledback"}]
  /\ response \in [Request -> {"none", "ok", "refused", "error"}]
  /\ \A r \in Request : job[r] \in Job <=> Serving(r)

\* What a request decided under the tenant lock is still true of the committed
\* rows for as long as it may commit: the session it acts for, the rights of
\* its actor, the state of its target, the password a sign-in presented.
DecisionsHold ==
  \A r \in Request : Serving(r) /\ trx[r] = "open" =>
    LET j == job[r] IN
    /\ pc[r] = "commit" /\ j.kind \notin {"signin", "write"} =>
         Granted(r) /\ pending[r] = NewRow(r)
    /\ pc[r] = "commit" /\ j.kind = "signin" =>
         /\ seen[r] = users[j.target] /\ users[j.target].status = "active"
         /\ Verify(users[j.target].hash, j.pw)
    /\ pc[r] \in {"ready", "apply", "commit"} /\ j.kind \in LockingKinds =>
         Valid(users[j.claims.user], j.claims)

\* A request acts with a cookie that was really issued, and with its own
\* account where the operation is about oneself.
CookiesWereIssued ==
  \A r \in Request : Serving(r) =>
    /\ job[r].kind \notin {"signin"} \cup OfflineKinds => job[r].claims \in issued
    /\ job[r].kind \in {"change", "complete", "write"} => job[r].target = job[r].claims.user

\* Where each kind of request can be, from where on it remembers a credential,
\* when it has something to write, and with which purpose its cookie came.
Places ==
  \A r \in Request :
    LET kind == job[r].kind IN
    /\ pending[r] # NoRow => pc[r] = "commit" /\ kind \notin {"signin", "write"}
    /\ pc[r] = "auth" => kind \in LockingKinds
    /\ pc[r] = "readUser" => kind \notin LockingKinds \cup OfflineKinds
    /\ pc[r] = "readCredential" => kind \notin LockingKinds \cup OfflineKinds /\ seen[r] \in Row
    /\ pc[r] = "ready" => kind \notin OfflineKinds /\ (kind # "signin" => seen[r] \in Row)
    /\ pc[r] = "lock" => kind \notin LockingKinds /\ (kind \notin OfflineKinds => seen[r] \in Row)
    /\ pc[r] = "apply" => kind \in {"block", "role"}
    /\ pc[r] = "commit" /\ kind = "signin" => seen[r] \in Row
    /\ pc[r] \in {"lock", "commit"} /\ kind \in {"change", "complete", "write"} =>
         (job[r].claims.purpose = "change" <=> kind = "complete")

\* From its decision to its commit a request holds the lock, and the lock is
\* never left with a transaction that is over.
LockHeld ==
  /\ tenantLock # NoRequest => Serving(tenantLock) /\ trx[tenantLock] = "open"
  /\ \A r \in Request :
       /\ Serving(r) /\ trx[r] = "open"
       /\ pc[r] \in {"apply", "commit"} \/ (pc[r] = "ready" /\ job[r].kind \in LockingKinds)
       => tenantLock = r

\* A stamp in use was written by a request that is over: the one a running
\* request draws is new to every row and every cookie.
StampsAreSpent ==
  /\ \A u \in User : users[u].stamp \in Request => pc[users[u].stamp] = "done"
  /\ \A claims \in issued : claims.stamp \in Request => pc[claims.stamp] = "done"

\* A request waiting for the lock verified its password against the hash it
\* remembers; and that hash is current for as long as the stamp of the cookie
\* is, though the two were read by separate statements.
VerifiedHashIsCurrent ==
  /\ \A r \in Request :
       pc[r] = "lock" /\ job[r].kind = "signin" => Verify(seen[r].hash, job[r].pw)
  /\ \A r \in Request :
       pc[r] \in {"ready", "lock", "commit"} /\ job[r].kind \in {"change", "complete"} =>
         LET j == job[r]
             now == users[j.claims.user]
         IN  /\ now.stamp = j.claims.stamp => now.hash = seen[r].hash
             /\ pc[r] # "ready" => ~Verify(seen[r].hash, j.new)
             /\ pc[r] # "ready" /\ j.kind = "change" => Verify(seen[r].hash, j.pw)

\* The inductive invariant the proofs rest on.
Inductive ==
  /\ TypeOK
  /\ CookiesWereIssued
  /\ Places
  /\ LockHeld
  /\ DecisionsHold
  /\ StampsAreSpent
  /\ VerifiedHashIsCurrent

\* Once the site has an administrator who can sign in, no order of blocks,
\* demotions, resets and failures leaves it without one.
AdministratorRetained ==
  [][hasPasswordAdministrator(users) => hasPasswordAdministrator(users')]_vars

\* A cookie that stopped being valid never becomes valid again: not after a
\* restore, not after the same role is given back, not after a new password.
RevocationIsPermanent ==
  [][\A c \in issued : ~Valid(users[c.user], c) => ~Valid(users'[c.user], c)]_vars

\* The password a client presented is the one in force at the instant its
\* sign-in or its change takes effect, though it was verified without a lock.
PresentedPasswordIsCurrent ==
  [][\A r \in Request :
       /\ trx[r] = "open" /\ trx'[r] = "committed" /\ pc[r] = "commit"
       /\ job[r].kind \in {"signin", "change"}
       => Verify(users[Target(r)].hash, job[r].pw)]_vars

\* Every step is one operation of the abstract store on the rows of that
\* instant, or changes nothing: the sensitive writes are linearizable.
Accounts == INSTANCE PasswordAccounts
Linearizable == Accounts!Spec

\* "Explicitly committing the request's transaction succeeds before a success
\* response is sent" (docs/admin-password-login-plan.md, section 4.4).
SuccessMeansCommitted ==
  \A r \in Request : response[r] = "ok" => trx[r] = "committed"
=============================================================================
