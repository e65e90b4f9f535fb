----------------------- MODULE PasswordRequestsProofs -----------------------
(***************************************************************************)
(* What PasswordRequests guarantees for any users, passwords and requests. *)
(***************************************************************************)
EXTENDS PasswordRequests, TLAPS

-----------------------------------------------------------------------------
(* The types                                                               *)

Label == {"idle", "auth", "readUser", "readCredential", "ready",
          "lock", "apply", "commit", "refused", "done"}

\* Whatever a client may ask for is a job.
LEMMA JobsType ==
  ASSUME issued \subseteq Claims
  PROVE  Jobs \subseteq Job
<1>1. AnyPassword \in Password
  BY PasswordAssumption DEF AnyPassword
<1>2. ASSUME NEW kind \in AllKinds, NEW claims \in Claims \cup {NoClaims}, NEW u \in User,
             NEW p \in Password, NEW n \in Password, NEW role \in Role
      PROVE  Ask(kind, claims, u, p, n, role) \in Job
  BY DEF Ask, Job
<1>3. /\ "signin" \in AllKinds /\ "change" \in AllKinds /\ "complete" \in AllKinds
      /\ "write" \in AllKinds /\ "block" \in AllKinds /\ "role" \in AllKinds
      /\ "create" \in AllKinds /\ ManageKinds \subseteq AllKinds /\ OfflineKinds \subseteq AllKinds
  BY DEF AllKinds, ManageKinds, OfflineKinds, LockingKinds
<1>4. \A cl \in issued : cl \in Claims /\ cl.user \in User
  BY DEF Claims
<1>a. AnyRole \in Role
  BY DEF AnyRole, Role
<1>5. SignInJobs \subseteq Job
  BY <1>2, <1>3, <1>a DEF SignInJobs
<1>6. ChangeJobs \subseteq Job
  BY <1>2, <1>3, <1>a, <1>4 DEF ChangeJobs
<1>7. CompleteJobs \subseteq Job /\ WriteJobs \subseteq Job
  BY <1>1, <1>2, <1>a, <1>3, <1>4 DEF CompleteJobs, WriteJobs
<1>8. ManageJobs \subseteq Job /\ OfflineJobs \subseteq Job /\ BlockJobs \subseteq Job
  BY <1>1, <1>2, <1>a, <1>3, <1>4 DEF ManageJobs, OfflineJobs, BlockJobs
<1>9. CreateJobs \subseteq Job
  BY <1>2, <1>3, <1>a, <1>4 DEF CreateJobs
<1>10. RoleJobs \subseteq Job
  BY <1>1, <1>2, <1>a, <1>3, <1>4 DEF RoleJobs
<1> QED
  BY <1>5, <1>6, <1>7, <1>8, <1>9, <1>10 DEF Jobs

\* What a command writes is a row, stamped by the request that writes it.
LEMMA NewRowType ==
  ASSUME TypeOK, NEW r \in Request, job[r] \in Job
  PROVE  NewRow(r) \in Row /\ NewRow(r).stamp = r
<1> DEFINE j == job[r]
           t == users[j.target]
<1>1. t \in Row /\ j.new \in Password /\ j.pw \in Password /\ j.role \in Role
  BY DEF TypeOK, Job
<1>2. r \in Stamp /\ \A p \in Password : <<p, r>> \in Hash \cup {NoHash}
  BY DEF Stamp, Hash
<1>3. \A p \in Password :
        /\ changePassword(t, r, p) \in Row /\ changePassword(t, r, p).stamp = r
        /\ initializePasswordAccount(t, r, p) \in Row /\ initializePasswordAccount(t, r, p).stamp = r
        /\ resetPasswordAccount(t, r, p) \in Row /\ resetPasswordAccount(t, r, p).stamp = r
        /\ createPasswordAccount(r, j.role, p) \in Row /\ createPasswordAccount(r, j.role, p).stamp = r
  BY <1>1, <1>2 DEF changePassword, initializePasswordAccount, resetPasswordAccount,
     createPasswordAccount, generateSecurityStamp, Row, Status, Role
<1>4. /\ blockUser(t, r) \in Row /\ blockUser(t, r).stamp = r
      /\ changeUserRole(t, r, j.role) \in Row /\ changeUserRole(t, r, j.role).stamp = r
  BY <1>1, <1>2 DEF blockUser, changeUserRole, generateSecurityStamp, Row, Status, Role
<1> QED
  BY <1>1, <1>3, <1>4 DEF NewRow

\* The initial tables hold rows.
LEMMA InitTypeOK == Init => TypeOK
<1> SUFFICES ASSUME Init PROVE TypeOK
  OBVIOUS
<1>1. users \in [User -> InitialRow]
  BY InitialAssumption DEF Init
<1>2. users \in [User -> Row]
  BY <1>1 DEF InitialRow
<1>3. \A u \in User : [user |-> u, stamp |-> users[u].stamp, purpose |-> PurposeOf(users[u])] \in Claims
  BY <1>2 DEF Row, Claims, PurposeOf, Purpose
<1>4. issued \subseteq Claims
  BY <1>3 DEF Init
<1>5. job \in [Request -> Job \cup {NoJob}] /\ \A r \in Request : job[r] \in Job <=> Serving(r)
  BY NullAssumption DEF Init, Serving
<1> QED
  BY <1>2, <1>4, <1>5 DEF Init, TypeOK

\* Returning from a handler keeps the types, whatever it answers.
LEMMA FinishType ==
  ASSUME TypeOK, NEW r \in Request, NEW answer \in {"ok", "refused", "error"}, Finish(r, answer)
  PROVE  /\ pc' \in [Request -> Label]
         /\ job' \in [Request -> Job \cup {NoJob}]
         /\ seen' \in [Request -> Row \cup {NoRow}]
         /\ pending' \in [Request -> Row \cup {NoRow}]
         /\ response' \in [Request -> {"none", "ok", "refused", "error"}]
         /\ \A q \in Request : (job[q] \in Job <=> Serving(q))'
  BY NullAssumption DEF TypeOK, Finish, goto, Serving, Label

\* Moving on inside a handler keeps the types and the job.
LEMMA GotoType ==
  ASSUME TypeOK, NEW r \in Request, Serving(r), UNCHANGED job,
         NEW label \in Label \ {"idle", "done"}, goto(r, label)
  PROVE  /\ pc' \in [Request -> Label]
         /\ \A q \in Request : (job[q] \in Job <=> Serving(q))'
  BY DEF TypeOK, goto, Serving, Label

LEMMA PersistType ==
  ASSUME TypeOK, NEW r \in Request, job[r] \in Job, Persist(r)
  PROVE  /\ users' \in [User -> Row]
         /\ written' \subseteq Request
         /\ tenantLock' \in Request \cup {NoRequest}
         /\ trx' \in [Request -> {"none", "open", "committed", "rolledback"}]
<1>1. Target(r) \in User
  BY DEF Target, Job
<1>2. users' \in [User -> Row]
  BY <1>1, NullAssumption DEF Persist, TypeOK
<1> QED
  BY <1>2 DEF Persist, Release, TypeOK

\* A command leaves a row for the commit, or nothing.
LEMMA CommandType ==
  ASSUME TypeOK, NEW r \in Request, Serving(r), Command(r)
  PROVE  /\ pending' \in [Request -> Row \cup {NoRow}]
         /\ pc' \in [Request -> Label]
         /\ \A q \in Request : (job[q] \in Job <=> Serving(q))'
<1>1. job[r] \in Job
  BY DEF TypeOK
<1>2. NewRow(r) \in Row
  BY <1>1, NewRowType
<1>3. UNCHANGED job /\ (goto(r, "commit") \/ goto(r, "refused"))
  BY DEF Command
<1>4. pending' \in [Request -> Row \cup {NoRow}]
  BY <1>2 DEF Command, TypeOK
<1>5. CASE goto(r, "commit")
  BY <1>3, <1>4, <1>5, GotoType DEF Label
<1>6. CASE goto(r, "refused")
  BY <1>3, <1>4, <1>6, GotoType DEF Label
<1> QED
  BY <1>3, <1>5, <1>6

-----------------------------------------------------------------------------
(* What a step of one request leaves alone                                 *)

\* A step is by a request that is served, unless it is its first one.
LEMMA StepServes ==
  ASSUME NEW r \in Request, Step(r), ~Start(r)
  PROVE  Serving(r)
BY DEF Step, Progress, AuthenticateLocked, ReadUser, ReadCredential, PasswordReady,
   LockCredential, LockAndCommand, LockedCommand, Commit, CommitFinished, Refuse,
   StatementFails, CommitUnacknowledged, Fail, Disconnect, Serving

\* No request touches what another one keeps.
LEMMA Others ==
  ASSUME TypeOK, NEW r \in Request, Step(r), NEW q \in Request, q # r
  PROVE  /\ pc'[q] = pc[q] /\ job'[q] = job[q] /\ seen'[q] = seen[q]
         /\ pending'[q] = pending[q] /\ trx'[q] = trx[q]
<1>1. ASSUME NEW answer, Finish(r, answer)
      PROVE  /\ pc'[q] = pc[q] /\ job'[q] = job[q] /\ seen'[q] = seen[q]
             /\ pending'[q] = pending[q]
  BY <1>1 DEF TypeOK, Finish, goto
<1>2. CASE Start(r) \/ AuthenticateLocked(r) \/ ReadUser(r) \/ ReadCredential(r) \/ PasswordReady(r)
  BY <1>2 DEF TypeOK, Start, AuthenticateLocked, ReadUser, ReadCredential, PasswordReady, goto
<1>3. CASE LockCredential(r) \/ LockAndCommand(r) \/ LockedCommand(r)
  BY <1>3 DEF TypeOK, LockCredential, LockAndCommand, LockedCommand, Command, goto
<1>4. CASE Commit(r) \/ CommitUnacknowledged(r)
  BY <1>1, <1>4 DEF TypeOK, Commit, CommitUnacknowledged, Persist
<1>5. CASE CommitFinished(r) \/ Refuse(r) \/ Fail(r) \/ StatementFails(r)
  BY <1>1, <1>5 DEF TypeOK, CommitFinished, Refuse, Fail, StatementFails
<1>6. CASE Disconnect(r)
  BY <1>6 DEF TypeOK, Disconnect
<1> QED
  BY <1>2, <1>3, <1>4, <1>5, <1>6 DEF Step, Progress

\* Cookies are never taken back.
LEMMA IssuedGrows ==
  ASSUME NEW r \in Request, Step(r)
  PROVE  issued \subseteq issued'
BY DEF Step, Progress, Start, AuthenticateLocked, ReadUser, ReadCredential, PasswordReady,
   LockCredential, LockAndCommand, LockedCommand, Command, Commit, CommitFinished, Refuse,
   StatementFails, CommitUnacknowledged, Fail, Disconnect

\* The rows change only when a request commits what it decided under the lock.
LEMMA RowsChange ==
  ASSUME Inductive, NEW r \in Request, Step(r), users' # users
  PROVE  /\ Commit(r) \/ CommitUnacknowledged(r)
         /\ pc[r] = "commit" /\ trx[r] = "open" /\ tenantLock = r /\ job[r] \in Job
         /\ job[r].kind \notin {"signin", "write"}
         /\ Granted(r)
         /\ users' = [users EXCEPT ![Target(r)] = NewRow(r)]
         /\ pc'[r] = "done"
<1>1. Commit(r) \/ CommitUnacknowledged(r)
  BY DEF Step, Progress, Start, AuthenticateLocked, ReadUser, ReadCredential, PasswordReady,
     LockCredential, LockAndCommand, LockedCommand, Command, CommitFinished, Refuse,
     StatementFails, Fail, Disconnect
<1>2. pc[r] = "commit" /\ trx[r] = "open" /\ Persist(r) /\ (Finish(r, "ok") \/ Finish(r, "error"))
  BY <1>1 DEF Commit, CommitUnacknowledged
<1>3. Serving(r) /\ job[r] \in Job /\ pc'[r] = "done"
  BY <1>2 DEF Serving, Inductive, TypeOK, Finish, goto
<1>4. tenantLock = r
  BY <1>2, <1>3 DEF Inductive, LockHeld
<1>5. pending[r] # NoRow /\ users' = [users EXCEPT ![Target(r)] = pending[r]]
  BY <1>2 DEF Persist
<1> QED
  BY <1>1, <1>2, <1>3, <1>4, <1>5 DEF Inductive, Places, DecisionsHold

\* Nobody else decides while a request may change the rows.
LEMMA OthersUndecided ==
  ASSUME Inductive, NEW r \in Request, Step(r), users' # users,
         NEW q \in Request, q # r, Serving(q), trx[q] = "open"
  PROVE  /\ pc[q] \notin {"apply", "commit"}
         /\ ~(pc[q] = "ready" /\ job[q].kind \in LockingKinds)
<1>1. tenantLock = r
  BY RowsChange
<1> QED
  BY <1>1 DEF Inductive, LockHeld

-----------------------------------------------------------------------------
(* The invariant is inductive, conjunct by conjunct                        *)

\* The account a request reads is one.
LEMMA SubjectType ==
  ASSUME Inductive, NEW r \in Request, Serving(r),
         pc[r] \in {"auth", "readUser", "readCredential"} \/ (pc[r] = "lock" /\ job[r].kind = "signin")
  PROVE  Subject(r) \in User /\ users[Subject(r)] \in Row
<1> USE DEF Inductive
<1>1. job[r] \in Job
  BY DEF TypeOK
<1>2. job[r].kind = "signin" => Subject(r) \in User
  BY <1>1 DEF Subject, Target, Job
<1>3. job[r].kind \notin {"signin"} \cup OfflineKinds => Subject(r) \in User
  BY DEF Subject, CookiesWereIssued, TypeOK, Claims
<1>4. pc[r] \in {"auth", "readUser", "readCredential"} => job[r].kind \notin OfflineKinds
  BY DEF Places, LockingKinds, OfflineKinds
<1> QED
  BY <1>2, <1>3, <1>4 DEF TypeOK

\* Reading a credential yields a row, even if its two halves differ in age.
LEMMA SeenType ==
  ASSUME Inductive, NEW r \in Request,
         AuthenticateLocked(r) \/ ReadUser(r) \/ ReadCredential(r) \/ LockCredential(r)
  PROVE  seen'[r] \in Row
<1> USE DEF Inductive
<1>1. Serving(r)
  BY DEF Serving, AuthenticateLocked, ReadUser, ReadCredential, LockCredential
<1>2. CASE AuthenticateLocked(r) \/ ReadUser(r)
  BY <1>1, <1>2, SubjectType DEF AuthenticateLocked, ReadUser, TypeOK
<1>3. CASE LockCredential(r)
  <2>1. users[Target(r)] \in Row
    BY <1>1, <1>3, SubjectType DEF LockCredential, Subject
  <2> QED
    BY <1>3, <2>1 DEF LockCredential, TypeOK
<1>4. CASE ReadCredential(r)
  <2>1. seen[r] \in Row /\ users[Subject(r)] \in Row
    BY <1>1, <1>4, SubjectType DEF ReadCredential, Places
  <2>2. [seen[r] EXCEPT !.hash = users[Subject(r)].hash, !.must = users[Subject(r)].must] \in Row
    BY <2>1 DEF Row
  <2> QED
    BY <1>4, <2>2 DEF ReadCredential, TypeOK
<1> QED
  BY <1>2, <1>3, <1>4

LEMMA TypeStep ==
  ASSUME Inductive, NEW r \in Request, Step(r)
  PROVE  TypeOK'
<1> USE DEF Inductive
<1>1. CASE Start(r)
  <2>1. PICK j \in Jobs : /\ job' = [job EXCEPT ![r] = j]
                          /\ goto(r, IF j.kind = "signin" THEN "ready"
                                     ELSE IF j.kind \in OfflineKinds THEN "lock"
                                     ELSE IF j.kind \in LockingKinds THEN "auth"
                                     ELSE "readUser")
    BY <1>1 DEF Start
  <2>2. j \in Job
    BY <2>1, JobsType DEF TypeOK
  <2>3. job' \in [Request -> Job \cup {NoJob}] /\ pc' \in [Request -> Label]
    BY <2>1, <2>2 DEF TypeOK, goto, Label
  <2>4. \A q \in Request : (job[q] \in Job <=> Serving(q))'
    BY <2>1, <2>2 DEF TypeOK, goto, Serving
  <2> QED
    BY <1>1, <2>3, <2>4 DEF Start, TypeOK, Label
<1> SUFFICES ASSUME ~Start(r) PROVE TypeOK'
  BY <1>1
<1>s. Serving(r) /\ job[r] \in Job
  BY StepServes DEF TypeOK
<1>u. pc[r] \in {"auth", "readUser", "readCredential"} \/ (pc[r] = "lock" /\ job[r].kind = "signin")
        => users[Subject(r)] \in Row
  BY <1>s, SubjectType
<1>m. ASSUME NEW label \in Label \ {"idle", "done"}, goto(r, label),
             UNCHANGED <<users, issued, written, job, pending, trx, response>>,
             seen' \in [Request -> Row \cup {NoRow}],
             tenantLock' \in Request \cup {NoRequest}
      PROVE  TypeOK'
  <2>1. pc' \in [Request -> Label] /\ \A q \in Request : (job[q] \in Job <=> Serving(q))'
    BY <1>s, <1>m, GotoType
  <2> QED
    BY <1>m, <2>1 DEF TypeOK, Label
<1>2. CASE AuthenticateLocked(r)
  <2>1. PICK label \in {"ready", "refused"} : goto(r, label)
    BY <1>2 DEF AuthenticateLocked
  <2> QED
    BY <1>2, <1>m, <1>u, <2>1 DEF AuthenticateLocked, lockPasswordTenant, TypeOK, Label
<1>3. CASE ReadUser(r)
  <2>1. PICK label \in {"readCredential", "refused"} : goto(r, label)
    BY <1>3 DEF ReadUser
  <2> QED
    BY <1>3, <1>m, <1>u, <2>1 DEF ReadUser, TypeOK, Label
<1>4. CASE ReadCredential(r)
  <2>1. PICK label \in {"lock", "ready", "refused"} : goto(r, label)
    BY <1>4 DEF ReadCredential
  <2>2. seen'[r] \in Row
    BY <1>4, SeenType
  <2>4. seen' \in [Request -> Row \cup {NoRow}]
    BY <1>4, <2>2 DEF ReadCredential, TypeOK
  <2> QED
    BY <1>4, <1>m, <2>1, <2>4 DEF ReadCredential, TypeOK, Label
<1>5. CASE PasswordReady(r)
  <2>1. PICK label \in {"readUser", "commit", "apply", "lock", "refused"} : goto(r, label)
    BY <1>5 DEF PasswordReady
  <2> QED
    BY <1>5, <1>m, <2>1 DEF PasswordReady, TypeOK, Label
<1>6. CASE LockCredential(r)
  <2>1. PICK label \in {"commit", "refused"} : goto(r, label)
    BY <1>6 DEF LockCredential
  <2>2. users[Target(r)] \in Row
    BY <1>6, <1>u DEF LockCredential, Subject
  <2> QED
    BY <1>6, <1>m, <2>1, <2>2 DEF LockCredential, lockPasswordTenant, TypeOK, Label
<1>7. CASE LockAndCommand(r) \/ LockedCommand(r)
  <2>1. Command(r) /\ tenantLock' \in Request \cup {NoRequest}
    BY <1>7 DEF LockAndCommand, LockedCommand, lockPasswordTenant, TypeOK
  <2>2. /\ pending' \in [Request -> Row \cup {NoRow}] /\ pc' \in [Request -> Label]
        /\ \A q \in Request : (job[q] \in Job <=> Serving(q))'
    BY <1>s, <2>1, CommandType
  <2> QED
    BY <2>1, <2>2 DEF Command, TypeOK, Label
<1>8. CASE Commit(r) \/ CommitUnacknowledged(r)
  <2>1. PICK answer \in {"ok", "refused", "error"} : Finish(r, answer)
    BY <1>8 DEF Commit, CommitUnacknowledged
  <2>2. Persist(r)
    BY <1>8 DEF Commit, CommitUnacknowledged
  <2>3. issued' \subseteq Claims
    <3>1. CASE issued' = issued
      BY <3>1 DEF TypeOK
    <3>2. CASE issued' # issued
      <4>1. /\ Commit(r) /\ job[r].kind = "signin" /\ pc[r] = "commit"
            /\ issued' = issued \cup {[user |-> Target(r), stamp |-> seen[r].stamp,
                                       purpose |-> PurposeOf(seen[r])]}
        BY <1>8, <3>2 DEF Commit, CommitUnacknowledged
      <4>2. seen[r] \in Row /\ Target(r) \in User
        BY <1>s, <4>1 DEF Places, Target, Job
      <4> QED
        BY <4>1, <4>2 DEF TypeOK, Claims, Row, PurposeOf, Purpose
    <3> QED
      BY <3>1, <3>2
  <2>4. /\ users' \in [User -> Row] /\ written' \subseteq Request
        /\ tenantLock' \in Request \cup {NoRequest}
        /\ trx' \in [Request -> {"none", "open", "committed", "rolledback"}]
    BY <1>s, <2>2, PersistType
  <2>5. /\ pc' \in [Request -> Label]
        /\ job' \in [Request -> Job \cup {NoJob}]
        /\ seen' \in [Request -> Row \cup {NoRow}]
        /\ pending' \in [Request -> Row \cup {NoRow}]
        /\ response' \in [Request -> {"none", "ok", "refused", "error"}]
        /\ \A q \in Request : (job[q] \in Job <=> Serving(q))'
    BY <2>1, FinishType
  <2> QED
    BY <2>3, <2>4, <2>5 DEF TypeOK, Label
<1>9. CASE CommitFinished(r) \/ Refuse(r) \/ Fail(r) \/ StatementFails(r)
  <2>1. PICK answer \in {"ok", "refused", "error"} : Finish(r, answer)
    BY <1>9 DEF CommitFinished, Refuse, Fail, StatementFails
  <2>2. /\ pc' \in [Request -> Label]
        /\ job' \in [Request -> Job \cup {NoJob}]
        /\ seen' \in [Request -> Row \cup {NoRow}]
        /\ pending' \in [Request -> Row \cup {NoRow}]
        /\ response' \in [Request -> {"none", "ok", "refused", "error"}]
        /\ \A q \in Request : (job[q] \in Job <=> Serving(q))'
    BY <2>1, FinishType
  <2>3. /\ UNCHANGED <<users, issued, written>>
        /\ tenantLock' \in Request \cup {NoRequest}
        /\ trx' \in [Request -> {"none", "open", "committed", "rolledback"}]
    BY <1>9 DEF CommitFinished, Refuse, Fail, StatementFails, Release, TypeOK
  <2> QED
    BY <2>2, <2>3 DEF TypeOK, Label
<1>10. CASE Disconnect(r)
  BY <1>10 DEF Disconnect, Release, TypeOK, Serving
<1> QED
  BY <1>2, <1>3, <1>4, <1>5, <1>6, <1>7, <1>8, <1>9, <1>10 DEF Step, Progress

LEMMA CookiesStep ==
  ASSUME Inductive, NEW r \in Request, Step(r)
  PROVE  CookiesWereIssued'
<1> USE DEF Inductive
<1>1. SUFFICES ASSUME NEW q \in Request, Serving(q)'
               PROVE  /\ job'[q].kind \notin {"signin"} \cup OfflineKinds => job'[q].claims \in issued'
                      /\ job'[q].kind \in {"change", "complete", "write"} =>
                           job'[q].target = job'[q].claims.user
  BY DEF CookiesWereIssued
<1>2. issued \subseteq issued'
  BY IssuedGrows
<1>3. CASE q # r
  <2>1. Serving(q) /\ job'[q] = job[q]
    BY <1>1, <1>3, Others DEF Serving
  <2> QED
    BY <1>2, <2>1 DEF CookiesWereIssued
<1>4. CASE q = r /\ Start(r)
  <2>1. PICK j \in Jobs : job'[r] = j
    BY <1>4 DEF Start, TypeOK
  <2>2. /\ j.kind \notin {"signin"} \cup OfflineKinds => j.claims \in issued
        /\ j.kind \in {"change", "complete", "write"} => j.target = j.claims.user
    <3>a. \A kind, cl, u, p, n, role :
            /\ Ask(kind, cl, u, p, n, role).kind = kind
            /\ Ask(kind, cl, u, p, n, role).claims = cl
            /\ Ask(kind, cl, u, p, n, role).target = u
      BY DEF Ask
    <3>1. CASE j \in SignInJobs \cup OfflineJobs
      BY <3>1, <3>a DEF SignInJobs, OfflineJobs, OfflineKinds
    <3>2. CASE j \in ChangeJobs
      BY <3>2, <3>a DEF ChangeJobs
    <3>3. CASE j \in CompleteJobs \cup WriteJobs
      BY <3>3, <3>a DEF CompleteJobs, WriteJobs
    <3>4. CASE j \in ManageJobs
      BY <3>4, <3>a DEF ManageJobs, ManageKinds
    <3>5. CASE j \in CreateJobs
      BY <3>5, <3>a DEF CreateJobs
    <3>6. CASE j \in BlockJobs
      BY <3>6, <3>a DEF BlockJobs
    <3>7. CASE j \in RoleJobs
      BY <3>7, <3>a DEF RoleJobs
    <3> QED
      BY <2>1, <3>1, <3>2, <3>3, <3>4, <3>5, <3>6, <3>7 DEF Jobs
  <2> QED
    BY <1>2, <1>4, <2>1, <2>2
<1>5. CASE q = r /\ ~Start(r)
  <2>1. Serving(r)
    BY <1>5, StepServes
  <2>2. (\E answer : Finish(r, answer)) \/ job' = job
    BY <1>5 DEF Step, Progress, AuthenticateLocked, ReadUser, ReadCredential, PasswordReady,
       LockCredential, LockAndCommand, LockedCommand, Command, Commit, CommitFinished, Refuse,
       StatementFails, CommitUnacknowledged, Fail, Disconnect
  <2>3. ~(\E answer : Finish(r, answer))
    BY <1>1, <1>5 DEF Finish, goto, Serving, TypeOK
  <2> QED
    BY <1>2, <1>5, <2>1, <2>2, <2>3 DEF CookiesWereIssued
<1> QED
  BY <1>3, <1>4, <1>5

LEMMA PlacesStep ==
  ASSUME Inductive, NEW r \in Request, Step(r)
  PROVE  Places'
<1> USE DEF Inductive
<1> DEFINE Placed(at, asked, kept, left) ==
      LET kind == asked.kind IN
      /\ left # NoRow => at = "commit" /\ kind \notin {"signin", "write"}
      /\ at = "auth" => kind \in LockingKinds
      /\ at = "readUser" => kind \notin LockingKinds \cup OfflineKinds
      /\ at = "readCredential" => kind \notin LockingKinds \cup OfflineKinds /\ kept \in Row
      /\ at = "ready" => kind \notin OfflineKinds /\ (kind # "signin" => kept \in Row)
      /\ at = "lock" => kind \notin LockingKinds /\ (kind \notin OfflineKinds => kept \in Row)
      /\ at = "apply" => kind \in {"block", "role"}
      /\ at = "commit" /\ kind = "signin" => kept \in Row
      /\ at \in {"lock", "commit"} /\ kind \in {"change", "complete", "write"} =>
           (asked.claims.purpose = "change" <=> kind = "complete")
<1>1. Places <=> \A q \in Request : Placed(pc[q], job[q], seen[q], pending[q])
  BY DEF Places
<1>2. Places' <=> \A q \in Request : Placed(pc'[q], job'[q], seen'[q], pending'[q])
  BY DEF Places
<1>3. ASSUME NEW q \in Request, q # r
      PROVE  Placed(pc'[q], job'[q], seen'[q], pending'[q])
  BY <1>1, <1>3, Others
<1>f. ASSUME NEW answer, Finish(r, answer)
      PROVE  Placed(pc'[r], job'[r], seen'[r], pending'[r])
  BY <1>f DEF Finish, goto, TypeOK
<1>g. /\ LockingKinds = {"write", "block", "role"}
      /\ OfflineKinds = {"offlineInitialize", "offlineReset"}
  BY DEF LockingKinds, OfflineKinds
<1>4. Placed(pc'[r], job'[r], seen'[r], pending'[r])
  <2>p. Placed(pc[r], job[r], seen[r], pending[r]) /\ TypeOK'
    BY <1>1, TypeStep
  <2>1. CASE Start(r)
    <3>1. PICK j \in Jobs : /\ job' = [job EXCEPT ![r] = j]
                            /\ goto(r, IF j.kind = "signin" THEN "ready"
                                       ELSE IF j.kind \in OfflineKinds THEN "lock"
                                       ELSE IF j.kind \in LockingKinds THEN "auth"
                                       ELSE "readUser")
      BY <2>1 DEF Start
    <3>2. pending'[r] = NoRow
      BY <2>1, <2>p DEF Start
    <3> QED
      BY <3>1, <3>2, <1>g DEF goto, TypeOK
  <2>2. CASE AuthenticateLocked(r)
    <3>1. seen'[r] \in Row
      BY <2>2, SeenType
    <3> QED
      BY <2>2, <2>p, <3>1, <1>g DEF AuthenticateLocked, goto, TypeOK
  <2>3. CASE ReadUser(r)
    <3>1. seen'[r] \in Row
      BY <2>3, SeenType
    <3> QED
      BY <2>3, <2>p, <3>1, <1>g DEF ReadUser, goto, TypeOK
  <2>4. CASE ReadCredential(r)
    <3>1. seen'[r] \in Row
      BY <2>4, SeenType
    <3> QED
      BY <2>4, <2>p, <3>1, <1>g DEF ReadCredential, goto, TypeOK
  <2>5. CASE PasswordReady(r)
    BY <2>5, <2>p, <1>g DEF PasswordReady, Admitted, goto, TypeOK, ManageKinds
  <2>6. CASE LockCredential(r)
    <3>1. seen'[r] \in Row
      BY <2>6, SeenType
    <3> QED
      BY <2>6, <2>p, <3>1, <1>g DEF LockCredential, goto, TypeOK
  <2>7. CASE LockAndCommand(r) \/ LockedCommand(r)
    <3>1. Command(r) /\ job'[r] = job[r] /\ job[r].kind # "signin" /\ pc[r] \in {"lock", "apply"}
      BY <2>7, <2>p, <1>g DEF LockAndCommand, LockedCommand, Command, TypeOK
    <3>2. job[r].kind # "write"
      BY <2>p, <3>1, <1>g
    <3> QED
      BY <2>p, <3>1, <3>2 DEF Command, goto, TypeOK
  <2>8. CASE Commit(r) \/ CommitUnacknowledged(r) \/ CommitFinished(r) \/ Refuse(r)
               \/ Fail(r) \/ StatementFails(r)
    BY <2>8, <1>f DEF Commit, CommitUnacknowledged, CommitFinished, Refuse, Fail, StatementFails
  <2>9. CASE Disconnect(r)
    BY <2>9, <2>p DEF Disconnect, TypeOK
  <2> QED
    BY <2>1, <2>2, <2>3, <2>4, <2>5, <2>6, <2>7, <2>8, <2>9 DEF Step, Progress
<1> QED
  BY <1>2, <1>3, <1>4

\* Deciding is what LockHeld asks the lock for.
Deciding(r) ==
  /\ Serving(r) /\ trx[r] = "open"
  /\ pc[r] \in {"apply", "commit"} \/ (pc[r] = "ready" /\ job[r].kind \in LockingKinds)

LEMMA LockStep ==
  ASSUME Inductive, NEW r \in Request, Step(r)
  PROVE  LockHeld'
<1> USE DEF Inductive
<1>t. TypeOK'
  BY TypeStep
<1>n. NoRequest \notin Request
  BY NullAssumption
<1>o. ASSUME NEW q \in Request, q # r
      PROVE  /\ Deciding(q)' <=> Deciding(q)
             /\ (Serving(q) /\ trx[q] = "open")' <=> (Serving(q) /\ trx[q] = "open")
  BY <1>o, Others DEF Deciding, Serving
<1>h. /\ LockHeld <=> /\ tenantLock # NoRequest => Serving(tenantLock) /\ trx[tenantLock] = "open"
                      /\ \A q \in Request : Deciding(q) => tenantLock = q
      /\ LockHeld' <=> /\ tenantLock' # NoRequest => Serving(tenantLock)' /\ trx'[tenantLock'] = "open"
                       /\ \A q \in Request : Deciding(q)' => tenantLock' = q
  BY DEF LockHeld, Deciding
\* The lock is taken: it was free, so that nobody else was deciding.
<1>1. ASSUME lockPasswordTenant(r), Serving(r)', trx'[r] = "open"
      PROVE  LockHeld'
  <2>1. tenantLock = NoRequest /\ tenantLock' = r
    BY <1>1 DEF lockPasswordTenant
  <2>2. \A q \in Request : q # r => ~Deciding(q)'
    BY <2>1, <1>o, <1>h, <1>n
  <2> QED
    BY <1>1, <2>1, <2>2, <1>h
\* The lock is released by whoever stops deciding.
<1>2. ASSUME Release(r), ~(Serving(r) /\ trx[r] = "open")'
      PROVE  LockHeld'
  <2>1. ~Deciding(r)'
    BY <1>2 DEF Deciding
  <2>2. \A q \in Request : q # r => (Deciding(q)' => tenantLock' = q)
    BY <1>2, <1>o, <1>h DEF Release
  <2>3. tenantLock' # NoRequest => tenantLock' \in Request /\ tenantLock' # r /\ tenantLock' = tenantLock
    BY <1>2 DEF Release, TypeOK
  <2>4. tenantLock' # NoRequest => Serving(tenantLock)' /\ trx'[tenantLock'] = "open"
    BY <2>3, <1>o, <1>h
  <2> QED
    BY <2>1, <2>2, <2>4, <1>h
\* The lock does not move, and r neither starts to decide nor gives up holding it.
<1>3. ASSUME UNCHANGED tenantLock, Deciding(r)' => tenantLock = r,
             tenantLock = r => (Serving(r) /\ trx[r] = "open")'
      PROVE  LockHeld'
  <2>1. \A q \in Request : Deciding(q)' => tenantLock' = q
    BY <1>3, <1>o, <1>h
  <2>2. tenantLock' # NoRequest => Serving(tenantLock)' /\ trx'[tenantLock'] = "open"
    BY <1>3, <1>o, <1>h DEF TypeOK
  <2> QED
    BY <2>1, <2>2, <1>h
<1>4. CASE Start(r)
  <2>1. pc'[r] \in {"ready", "lock", "auth", "readUser"} /\ Serving(r)' /\ trx'[r] = "open" /\ UNCHANGED tenantLock
    BY <1>4 DEF Start, goto, Serving, TypeOK
  <2>3. pc'[r] = "ready" => job'[r].kind = "signin"
    BY <1>4 DEF Start, goto, TypeOK
  <2>4. ~Deciding(r)'
    BY <2>1, <2>3 DEF Deciding, LockingKinds
  <2> QED
    BY <2>1, <2>4, <1>3
<1>5. CASE AuthenticateLocked(r) \/ LockCredential(r) \/ LockAndCommand(r)
  <2>1. lockPasswordTenant(r) /\ Serving(r)' /\ trx'[r] = "open"
    BY <1>5 DEF AuthenticateLocked, LockCredential, LockAndCommand, Command, lockPasswordTenant,
       goto, Serving, TypeOK
  <2> QED
    BY <1>1, <2>1
<1>6. CASE ReadUser(r) \/ ReadCredential(r)
  <2>1. /\ UNCHANGED <<tenantLock, job>> /\ Serving(r)' /\ trx'[r] = "open"
        /\ pc'[r] \in {"readCredential", "lock", "ready", "refused"}
    BY <1>6 DEF ReadUser, ReadCredential, goto, Serving, TypeOK
  <2>2. job[r].kind \notin LockingKinds
    BY <1>6 DEF ReadUser, ReadCredential, Places, Serving
  <2> QED
    BY <2>1, <2>2, <1>3 DEF Deciding
<1>7. CASE PasswordReady(r)
  <2>1. /\ UNCHANGED <<tenantLock, job>> /\ Serving(r)' /\ trx'[r] = "open"
        /\ pc'[r] \in {"apply", "commit"} => job[r].kind \in LockingKinds
        /\ pc'[r] \in {"apply", "commit", "readUser", "lock", "refused"}
    BY <1>7 DEF PasswordReady, goto, Serving, TypeOK, LockingKinds
  <2>2. job[r].kind \in LockingKinds => tenantLock = r
    BY <1>7, <1>h DEF PasswordReady, Deciding, Serving
  <2> QED
    BY <2>1, <2>2, <1>3 DEF Deciding
<1>8. CASE LockedCommand(r)
  <2>1. UNCHANGED tenantLock /\ Serving(r)' /\ trx'[r] = "open" /\ tenantLock = r
    BY <1>8, <1>h DEF LockedCommand, Command, goto, Serving, TypeOK, Deciding
  <2> QED
    BY <2>1, <1>3
<1>9. CASE Commit(r) \/ CommitUnacknowledged(r) \/ Refuse(r) \/ Fail(r)
  <2>1. Release(r) /\ ~Serving(r)'
    BY <1>9 DEF Commit, CommitUnacknowledged, Persist, Refuse, Fail, Finish, goto, Serving, TypeOK
  <2> QED
    BY <2>1, <1>2
<1>10. CASE CommitFinished(r) \/ StatementFails(r)
  <2>1. UNCHANGED tenantLock /\ ~Serving(r)' /\ trx[r] = "rolledback"
    BY <1>10 DEF CommitFinished, StatementFails, Finish, goto, Serving, TypeOK
  <2>2. tenantLock # r
    BY <2>1, <1>h, <1>n
  <2> QED
    BY <2>1, <2>2, <1>3 DEF Deciding
<1>11. CASE Disconnect(r)
  <2>1. Release(r) /\ trx'[r] = "rolledback"
    BY <1>11 DEF Disconnect, TypeOK
  <2> QED
    BY <2>1, <1>2
<1> QED
  BY <1>4, <1>5, <1>6, <1>7, <1>8, <1>9, <1>10, <1>11 DEF Step, Progress

\* A decision depends on the rows and the job alone.
LEMMA GrantedFrame ==
  ASSUME NEW r, users' = users, job'[r] = job[r]
  PROVE  Granted(r)' = Granted(r) /\ NewRow(r)' = NewRow(r)
BY DEF Granted, ActorGranted, ChangeGranted, CreateGranted, InitializeGranted, ResetGranted,
     BlockGranted, RoleGranted, NewRow

LEMMA DecisionsStep ==
  ASSUME Inductive, NEW r \in Request, Step(r)
  PROVE  DecisionsHold'
<1> USE DEF Inductive
<1> DEFINE Held(q) ==
      LET j == job[q] IN
      /\ pc[q] = "commit" /\ j.kind \notin {"signin", "write"} =>
           Granted(q) /\ pending[q] = NewRow(q)
      /\ pc[q] = "commit" /\ j.kind = "signin" =>
           /\ seen[q] = users[j.target] /\ users[j.target].status = "active"
           /\ Verify(users[j.target].hash, j.pw)
      /\ pc[q] \in {"ready", "apply", "commit"} /\ j.kind \in LockingKinds =>
           Valid(users[j.claims.user], j.claims)
<1>h. /\ DecisionsHold <=> \A q \in Request : Serving(q) /\ trx[q] = "open" => Held(q)
      /\ DecisionsHold' <=> \A q \in Request : Serving(q)' /\ trx'[q] = "open" => Held(q)'
  BY DEF DecisionsHold
<1>t. TypeOK'
  BY TypeStep
<1>1. ASSUME NEW q \in Request, q # r, Serving(q)', trx'[q] = "open"
      PROVE  Held(q)'
  <2>1. /\ pc'[q] = pc[q] /\ job'[q] = job[q] /\ seen'[q] = seen[q]
        /\ pending'[q] = pending[q] /\ trx'[q] = trx[q] /\ Serving(q)
    BY <1>1, Others DEF Serving
  <2>2. CASE users' = users
    <3>1. Granted(q)' = Granted(q) /\ NewRow(q)' = NewRow(q)
      BY <2>1, <2>2, GrantedFrame
    <3>2. Held(q)
      BY <1>1, <2>1, <1>h
    <3> HIDE DEF Inductive
    <3> QED
      BY <2>1, <2>2, <3>1, <3>2
  <2>3. CASE users' # users
    <3>1. pc[q] \notin {"apply", "commit"} /\ ~(pc[q] = "ready" /\ job[q].kind \in LockingKinds)
      BY <1>1, <2>1, <2>3, OthersUndecided
    <3> QED
      BY <2>1, <3>1
  <2> QED
    BY <2>2, <2>3
<1>2. ASSUME Serving(r)', trx'[r] = "open"
      PROVE  Held(r)'
  <2>1. CASE Start(r)
    <3>1. pc'[r] \in {"ready", "lock", "auth", "readUser"} /\ (pc'[r] = "ready" => job'[r].kind = "signin")
      BY <2>1 DEF Start, goto, TypeOK
    <3> QED
      BY <3>1 DEF LockingKinds
  <2>2. CASE AuthenticateLocked(r)
    <3>1. /\ pc'[r] \in {"ready", "refused"} /\ UNCHANGED <<users, job>>
          /\ pc'[r] = "ready" => Valid(users[Subject(r)], job[r].claims)
      BY <2>2 DEF AuthenticateLocked, goto, TypeOK
    <3>2. job[r].kind \in LockingKinds => Subject(r) = job[r].claims.user
      BY DEF LockingKinds, Subject
    <3> QED
      BY <3>1, <3>2
  <2>3. CASE ReadUser(r) \/ ReadCredential(r)
    <3>1. pc'[r] \in {"readCredential", "lock", "ready", "refused"} /\ UNCHANGED <<users, job>>
      BY <2>3 DEF ReadUser, ReadCredential, goto, TypeOK
    <3>2. job[r].kind \notin LockingKinds
      BY <2>3 DEF ReadUser, ReadCredential, Places
    <3> QED
      BY <3>1, <3>2
  <2>4. CASE PasswordReady(r)
    <3>1. /\ pc'[r] \in {"apply", "commit", "readUser", "lock", "refused"} /\ UNCHANGED <<users, job>>
          /\ pc'[r] = "commit" => job[r].kind = "write"
          /\ pc[r] = "ready" /\ trx[r] = "open" /\ Serving(r)
      BY <2>4 DEF PasswordReady, goto, TypeOK, Serving
    <3>2. Held(r)
      BY <3>1, <1>h
    <3> QED
      BY <3>1, <3>2
  <2>5. CASE LockCredential(r)
    <3>1. /\ pc'[r] \in {"commit", "refused"} /\ UNCHANGED <<users, job>> /\ job[r].kind = "signin"
          /\ pc'[r] = "commit" => /\ users[Target(r)].status = "active"
                                  /\ users[Target(r)].hash = seen[r].hash
          /\ seen'[r] = users[Target(r)]
      BY <2>5 DEF LockCredential, goto, TypeOK
    <3>2. Verify(seen[r].hash, job[r].pw)
      BY <2>5, <3>1 DEF LockCredential, VerifiedHashIsCurrent
    <3> QED
      BY <3>1, <3>2 DEF Target, LockingKinds
  <2>6. CASE LockAndCommand(r) \/ LockedCommand(r)
    <3>1. /\ Command(r) /\ UNCHANGED <<users, job>> /\ job[r].kind \notin {"signin", "write"}
          /\ pc'[r] \in {"commit", "refused"}
          /\ pc'[r] = "commit" => Granted(r) /\ pending'[r] = NewRow(r)
      BY <2>6 DEF LockAndCommand, LockedCommand, Command, goto, TypeOK, Places, LockingKinds
    <3>2. Granted(r)' = Granted(r) /\ NewRow(r)' = NewRow(r)
      BY <3>1, GrantedFrame
    <3>3. job[r].kind \in LockingKinds => Valid(users[job[r].claims.user], job[r].claims)
      <4>1. job[r].kind \in LockingKinds => pc[r] = "apply" /\ trx[r] = "open" /\ Serving(r)
        BY <2>6 DEF LockAndCommand, LockedCommand, Places, Serving
      <4> QED
        BY <4>1, <1>h
    <3> QED
      BY <3>1, <3>2, <3>3
  <2>7. CASE Disconnect(r)
    BY <1>2, <2>7 DEF Disconnect, TypeOK
  <2>8. CASE Commit(r) \/ CommitUnacknowledged(r) \/ CommitFinished(r) \/ Refuse(r)
               \/ Fail(r) \/ StatementFails(r)
    BY <1>2, <2>8 DEF Commit, CommitUnacknowledged, CommitFinished, Refuse, Fail, StatementFails,
       Finish, goto, Serving, TypeOK
  <2> QED
    BY <2>1, <2>2, <2>3, <2>4, <2>5, <2>6, <2>7, <2>8 DEF Step, Progress
<1> QED
  BY <1>1, <1>2, <1>h

\* A step that ends a handler, or changes rows or cookies, ends only itself.
LEMMA DoneStays ==
  ASSUME TypeOK, NEW r \in Request, Step(r), NEW q \in Request, pc[q] = "done"
  PROVE  pc'[q] = "done"
<1>1. CASE q # r
  BY <1>1, Others
<1>2. CASE q = r
  BY <1>2, StepServes DEF Start, Serving
<1> QED
  BY <1>1, <1>2

\* A cookie is issued by the commit of a sign-in, and for the row of that instant.
LEMMA CookieIssued ==
  ASSUME Inductive, NEW r \in Request, Step(r), issued' # issued
  PROVE  LET u == Target(r)
         IN  /\ Commit(r) /\ job[r] \in Job /\ job[r].kind = "signin" /\ u \in User
             /\ UNCHANGED <<users, written>>
             /\ users[u].status = "active"
             /\ Verify(users[u].hash, job[r].pw)
             /\ issued' = issued \cup {[user |-> u, stamp |-> users[u].stamp,
                                        purpose |-> PurposeOf(users[u])]}
<1>1. Commit(r)
  BY DEF Step, Progress, Start, AuthenticateLocked, ReadUser, ReadCredential, PasswordReady,
     LockCredential, LockAndCommand, LockedCommand, Command, CommitFinished, Refuse,
     StatementFails, CommitUnacknowledged, Fail, Disconnect
<1>2. /\ pc[r] = "commit" /\ trx[r] = "open" /\ Persist(r) /\ Serving(r)
      /\ job[r].kind = "signin"
      /\ issued' = issued \cup {[user |-> Target(r), stamp |-> seen[r].stamp,
                                 purpose |-> PurposeOf(seen[r])]}
  BY <1>1 DEF Commit, Serving
<1>3. job[r] \in Job /\ Target(r) \in User
  BY <1>2 DEF Inductive, TypeOK, Target, Job
<1>4. /\ seen[r] = users[Target(r)] /\ users[Target(r)].status = "active"
      /\ Verify(users[Target(r)].hash, job[r].pw)
  BY <1>2 DEF Inductive, DecisionsHold, Target
<1>5. pending[r] = NoRow
  BY <1>2 DEF Inductive, Places
<1> QED
  BY <1>1, <1>2, <1>3, <1>4, <1>5 DEF Persist

LEMMA StampsStep ==
  ASSUME Inductive, NEW r \in Request, Step(r)
  PROVE  StampsAreSpent'
<1> USE DEF Inductive
<1>1. ASSUME NEW u \in User, users'[u].stamp \in Request
      PROVE  pc'[users'[u].stamp] = "done"
  <2>1. CASE users'[u] = users[u]
    BY <1>1, <2>1, DoneStays DEF StampsAreSpent
  <2>2. CASE users'[u] # users[u]
    <3>1. users' = [users EXCEPT ![Target(r)] = NewRow(r)] /\ pc'[r] = "done" /\ job[r] \in Job
      BY <2>2, RowsChange
    <3>2. users'[u] = NewRow(r)
      BY <2>2, <3>1 DEF TypeOK
    <3> QED
      BY <3>1, <3>2, NewRowType
  <2> QED
    BY <2>1, <2>2
<1>2. ASSUME NEW claims \in issued', claims.stamp \in Request
      PROVE  pc'[claims.stamp] = "done"
  <2>1. CASE claims \in issued
    BY <1>2, <2>1, DoneStays DEF StampsAreSpent
  <2>2. CASE claims \notin issued
    <3>1. Target(r) \in User /\ claims.stamp = users[Target(r)].stamp
      BY <1>2, <2>2, CookieIssued
    <3> QED
      BY <1>2, <3>1, DoneStays DEF StampsAreSpent
  <2> QED
    BY <2>1, <2>2
<1> QED
  BY <1>1, <1>2 DEF StampsAreSpent

\* Once its stamp is replaced, a row never meets a cookie issued before again.
LEMMA NewStampIsNew ==
  ASSUME Inductive, NEW r \in Request, Step(r), NEW claims \in issued,
         users'[claims.user] # users[claims.user]
  PROVE  users'[claims.user].stamp # claims.stamp
<1> USE DEF Inductive
<1>1. claims.user \in User
  BY DEF TypeOK, Claims
<1>2. /\ users' = [users EXCEPT ![Target(r)] = NewRow(r)] /\ job[r] \in Job
      /\ pc[r] = "commit"
  BY RowsChange
<1>3. users'[claims.user].stamp = r
  BY <1>1, <1>2, NewRowType DEF TypeOK
<1>4. claims.stamp # r
  BY <1>2 DEF StampsAreSpent
<1> QED
  BY <1>3, <1>4

LEMMA VerifiedStep ==
  ASSUME Inductive, NEW r \in Request, Step(r)
  PROVE  VerifiedHashIsCurrent'
<1> USE DEF Inductive
<1>t. TypeOK'
  BY TypeStep
<1> DEFINE Signing(q) == pc[q] = "lock" /\ job[q].kind = "signin" => Verify(seen[q].hash, job[q].pw)
           Changing(q) ==
             pc[q] \in {"ready", "lock", "commit"} /\ job[q].kind \in {"change", "complete"} =>
               LET j == job[q]
                   now == users[j.claims.user]
               IN  /\ now.stamp = j.claims.stamp => now.hash = seen[q].hash
                   /\ pc[q] # "ready" => ~Verify(seen[q].hash, j.new)
                   /\ pc[q] # "ready" /\ j.kind = "change" => Verify(seen[q].hash, j.pw)
<1>h. /\ VerifiedHashIsCurrent <=> \A q \in Request : Signing(q) /\ Changing(q)
      /\ VerifiedHashIsCurrent' <=> \A q \in Request : Signing(q)' /\ Changing(q)'
  BY DEF VerifiedHashIsCurrent
\* Rows may change under a request that waits, but then so does the stamp.
<1>1. ASSUME NEW q \in Request, UNCHANGED <<pc[q], job[q], seen[q]>>
      PROVE  Signing(q)' /\ Changing(q)'
  <2>1. Signing(q) /\ Changing(q)
    BY <1>h
  <2>2. pc[q] \in {"ready", "lock", "commit"} /\ job[q].kind \in {"change", "complete"} =>
          job[q].claims \in issued
    BY DEF CookiesWereIssued, Serving, OfflineKinds
  <2>3. CASE pc[q] \in {"ready", "lock", "commit"} /\ job[q].kind \in {"change", "complete"}
             /\ users'[job[q].claims.user] # users[job[q].claims.user]
    BY <1>1, <2>1, <2>2, <2>3, NewStampIsNew
  <2>4. CASE ~(pc[q] \in {"ready", "lock", "commit"} /\ job[q].kind \in {"change", "complete"}
             /\ users'[job[q].claims.user] # users[job[q].claims.user])
    <3> HIDE DEF Inductive
    <3> QED
      BY <1>1, <2>1, <2>4
  <2> QED
    BY <2>3, <2>4
<1>2. ASSUME ~(UNCHANGED <<pc[r], job[r], seen[r]>>)
      PROVE  Signing(r)' /\ Changing(r)'
  <2>1. CASE Start(r)
    <3>1. pc'[r] \in {"ready", "lock", "auth", "readUser"}
          /\ (pc'[r] = "ready" => job'[r].kind = "signin")
          /\ (pc'[r] = "lock" => job'[r].kind \in OfflineKinds)
      BY <2>1 DEF Start, goto, TypeOK
    <3> QED
      BY <3>1 DEF OfflineKinds
  <2>2. CASE AuthenticateLocked(r)
    BY <2>2 DEF AuthenticateLocked, goto, TypeOK, Places, LockingKinds, Serving
  <2>3. CASE ReadUser(r)
    BY <2>3 DEF ReadUser, goto, TypeOK
  <2>4. CASE ReadCredential(r)
    <3>1. /\ pc'[r] \in {"lock", "ready", "refused"} /\ UNCHANGED <<users, job>>
          /\ seen'[r].hash = users[Subject(r)].hash
          /\ pc'[r] = "lock" => job[r].kind = "signin" /\ Verify(seen'[r].hash, job[r].pw)
      <4>1. seen[r] \in Row
        BY <2>4 DEF ReadCredential, Places
      <4>2. [seen[r] EXCEPT !.hash = users[Subject(r)].hash, !.must = users[Subject(r)].must].hash
              = users[Subject(r)].hash
        BY <4>1 DEF Row
      <4> QED
        BY <2>4, <4>2 DEF ReadCredential, goto, TypeOK
    <3> QED
      BY <3>1 DEF Subject
  <2>5. CASE PasswordReady(r)
    <3>1. /\ UNCHANGED <<users, job, seen>> /\ pc[r] = "ready"
          /\ pc'[r] \in {"lock", "commit"} => Admitted(r) /\ job[r].kind # "signin"
          /\ pc'[r] \in {"apply", "commit", "readUser", "lock", "refused"}
      BY <2>5 DEF PasswordReady, goto, TypeOK
    <3>2. ASSUME Admitted(r), job[r].kind = "change"
          PROVE  Verify(seen[r].hash, job[r].pw) /\ ~Verify(seen[r].hash, job[r].new)
      BY <3>2 DEF Admitted, Verify, ManageKinds
    <3>3. ASSUME Admitted(r), job[r].kind = "complete"
          PROVE  ~Verify(seen[r].hash, job[r].new)
      BY <3>3 DEF Admitted, Verify, ManageKinds
    <3>4. Changing(r)
      BY <1>h
    <3> QED
      BY <3>1, <3>2, <3>3, <3>4
  <2>6. CASE LockCredential(r)
    BY <2>6 DEF LockCredential, goto, TypeOK
  <2>7. CASE LockAndCommand(r) \/ LockedCommand(r)
    <3>1. /\ UNCHANGED <<users, job, seen>> /\ pc'[r] \in {"commit", "refused"}
          /\ pc[r] \in {"lock", "apply"}
      BY <2>7 DEF LockAndCommand, LockedCommand, Command, goto, TypeOK
    <3>2. pc[r] = "apply" => job[r].kind \notin {"change", "complete"}
      BY DEF Places
    <3>3. Changing(r)
      BY <1>h
    <3> QED
      BY <3>1, <3>2, <3>3
  <2>8. CASE Disconnect(r)
    BY <1>2, <2>8 DEF Disconnect
  <2>9. CASE Commit(r) \/ CommitUnacknowledged(r) \/ CommitFinished(r) \/ Refuse(r)
               \/ Fail(r) \/ StatementFails(r)
    BY <2>9 DEF Commit, CommitUnacknowledged, CommitFinished, Refuse, Fail, StatementFails,
       Finish, goto, TypeOK
  <2> QED
    BY <2>1, <2>2, <2>3, <2>4, <2>5, <2>6, <2>7, <2>8, <2>9 DEF Step, Progress
<1>3. ASSUME NEW q \in Request, q # r
      PROVE  UNCHANGED <<pc[q], job[q], seen[q]>>
  BY <1>3, Others
<1> QED
  BY <1>1, <1>2, <1>3, <1>h

-----------------------------------------------------------------------------
(* The theorems                                                            *)

LEMMA InitInductive == Init => Inductive
<1> SUFFICES ASSUME Init PROVE Inductive
  OBVIOUS
<1>1. TypeOK
  BY InitTypeOK
<1>2. \A r \in Request : pc[r] = "idle" /\ pending[r] = NoRow /\ ~Serving(r)
  BY DEF Init, Serving
<1>3. StampsAreSpent
  <2>1. \A u \in User : users[u].stamp = Setup
    BY InitialAssumption DEF Init, InitialRow
  <2>2. \A claims \in issued : claims.stamp = Setup
    BY <2>1 DEF Init
  <2> QED
    BY <2>1, <2>2, StampAssumption DEF StampsAreSpent
<1>4. CookiesWereIssued /\ Places /\ DecisionsHold /\ VerifiedHashIsCurrent
  BY <1>2 DEF CookiesWereIssued, Places, DecisionsHold, VerifiedHashIsCurrent
<1>5. LockHeld
  BY <1>2 DEF Init, LockHeld
<1> QED
  BY <1>1, <1>3, <1>4, <1>5 DEF Inductive

\* A step that changes no variable changes no conjunct of the invariant.
LEMMA InductiveStutters == Inductive /\ UNCHANGED vars => Inductive'
<1> SUFFICES ASSUME Inductive, UNCHANGED vars PROVE Inductive'
  OBVIOUS
<1>1. \A r \in Request : Serving(r)' = Serving(r) /\ Granted(r)' = Granted(r) /\ NewRow(r)' = NewRow(r)
  BY DEF vars, Serving, NewRow, Granted, ActorGranted, ChangeGranted, CreateGranted, InitializeGranted, ResetGranted,
     BlockGranted, RoleGranted
<1>2. TypeOK'
  BY <1>1 DEF Inductive, TypeOK, vars
<1>3. CookiesWereIssued' /\ Places'
  BY <1>1 DEF Inductive, CookiesWereIssued, Places, vars
<1>4. LockHeld'
  BY DEF Inductive, LockHeld, Serving, vars
<1>5. DecisionsHold'
  BY <1>1 DEF Inductive, DecisionsHold, vars
<1>6. StampsAreSpent' /\ VerifiedHashIsCurrent'
  BY DEF Inductive, StampsAreSpent, VerifiedHashIsCurrent, vars
<1> QED
  BY <1>2, <1>3, <1>4, <1>5, <1>6 DEF Inductive

LEMMA InductiveStep == Inductive /\ [Next]_vars => Inductive'
<1>1. ASSUME Inductive, NEW r \in Request, Step(r)
      PROVE  Inductive'
  BY <1>1, TypeStep, CookiesStep, PlacesStep, LockStep, DecisionsStep, StampsStep, VerifiedStep
  DEF Inductive
<1> QED
  BY <1>1, InductiveStutters DEF Next, Quiet

\* The inductive invariant: it gathers what the conjuncts need of each other.
\* A decision survives until the commit because the lock is held and nobody
\* else can write; a hash read by a separate statement is current because a
\* newer one would come with a stamp no cookie carries yet.
THEOREM InductiveInvariant == Spec => []Inductive
<1> QED
  BY InitInductive, InductiveStep, PTL DEF Spec

\* Every variable keeps its type (PasswordRequests, variables and labels).
THEOREM TypeCorrect == Spec => []TypeOK
<1>1. Inductive => TypeOK
  BY DEF Inductive
<1> QED
  BY <1>1, InductiveInvariant, PTL

\* What the handlers and middleware checked under the tenant's row lock
\* (checkPasswordActor, checkLastPasswordAdministrator, the states of the
\* target, the re-read of a sign-in) is true until their transaction commits.
THEOREM DecisionsSurvive == Spec => []DecisionsHold
<1>1. Inductive => DecisionsHold
  BY DEF Inductive
<1> QED
  BY <1>1, InductiveInvariant, PTL

\* A cookie whose row changes is dead: the stamp written is one nobody holds.
LEMMA RevocationStep ==
  ASSUME Inductive, NEW r \in Request, Step(r), NEW c \in issued, ~Valid(users[c.user], c)
  PROVE  ~Valid(users'[c.user], c)
<1>1. CASE users'[c.user] = users[c.user]
  BY <1>1
<1>2. CASE users'[c.user] # users[c.user]
  <2>1. users'[c.user].stamp # c.stamp
    BY <1>2, NewStampIsNew
  <2> QED
    BY <2>1 DEF Valid
<1> QED
  BY <1>1, <1>2

\* The commands never give back a stamp, so a revoked session stays revoked
\* (rotatePasswordStamp and generateSecurityStamp, against the middleware's
\* comparison of stamps).
THEOREM RevokedForGood == Spec => RevocationIsPermanent
<1>1. Inductive /\ [Next]_vars =>
        [\A c \in issued : ~Valid(users[c.user], c) => ~Valid(users'[c.user], c)]_vars
  <2> SUFFICES ASSUME Inductive, Next, NEW c \in issued, ~Valid(users[c.user], c)
               PROVE  ~Valid(users'[c.user], c)
    OBVIOUS
  <2>1. CASE \E r \in Request : Step(r)
    BY <2>1, RevocationStep
  <2>2. CASE Quiet
    BY <2>2 DEF Quiet, vars
  <2> QED
    BY <2>1, <2>2 DEF Next
<1> QED
  BY <1>1, InductiveInvariant, PTL DEF Spec, RevocationIsPermanent

\* A sign-in or a change commits against the hash its password was checked with.
LEMMA PresentedStep ==
  ASSUME Inductive, NEW r \in Request, trx[r] = "open", pc[r] = "commit",
         job[r].kind \in {"signin", "change"}
  PROVE  Verify(users[Target(r)].hash, job[r].pw)
<1>1. Serving(r)
  BY DEF Serving
<1>2. CASE job[r].kind = "signin"
  BY <1>1, <1>2 DEF Inductive, DecisionsHold, Target
<1>3. CASE job[r].kind = "change"
  <2>1. Granted(r)
    BY <1>1, <1>3 DEF Inductive, DecisionsHold
  <2>2. users[job[r].target].stamp = job[r].claims.stamp
    BY <1>3, <2>1 DEF Granted, ChangeGranted, ManageKinds
  <2>3. job[r].target = job[r].claims.user
    BY <1>1, <1>3 DEF Inductive, CookiesWereIssued
  <2> QED
    BY <1>3, <2>2, <2>3 DEF Inductive, VerifiedHashIsCurrent, Target
<1> QED
  BY <1>2, <1>3

\* Verifying a password takes long and holds no lock; the second look under the
\* lock (password.go: PasswordSignIn, changePassword) makes it as good as
\* verifying at the instant of the commit.
THEOREM PresentedPasswords == Spec => PresentedPasswordIsCurrent
<1>1. Inductive /\ [Next]_vars =>
        [\A r \in Request :
           /\ trx[r] = "open" /\ trx'[r] = "committed" /\ pc[r] = "commit"
           /\ job[r].kind \in {"signin", "change"}
           => Verify(users[Target(r)].hash, job[r].pw)]_vars
  BY PresentedStep
<1> QED
  BY <1>1, InductiveInvariant, PTL DEF Spec, PresentedPasswordIsCurrent

\* A command that takes the last means to administer away leaves another one:
\* its own actor, who is an administrator under the lock and not the target.
LEMMA AdministratorStep ==
  ASSUME Inductive, NEW r \in Request, Step(r), hasPasswordAdministrator(users)
  PROVE  hasPasswordAdministrator(users')
<1> USE DEF hasPasswordAdministrator, PasswordAdministrator, PasswordInitialized
<1>1. CASE users' = users
  BY <1>1
<1>2. CASE users' # users
  <2> DEFINE j == job[r]
  <2>1. /\ users' = [users EXCEPT ![j.target] = NewRow(r)] /\ Granted(r)
        /\ j \in Job /\ Serving(r)
    BY <1>2, RowsChange DEF Target, Serving
  <2>2. j.target \in User /\ users \in [User -> Row] /\ users[j.target] \in Row
    BY <2>1 DEF Job, Inductive, TypeOK
  <2>3. \A p \in Password : <<p, r>> # NoHash
    BY HashAssumption DEF Hash, Stamp
  <2>4. PICK u \in User : PasswordAdministrator(users[u])
    OBVIOUS
  <2>5. CASE u # j.target
    BY <2>1, <2>2, <2>4, <2>5
  <2>6. CASE u = j.target /\ j.kind \in {"change", "complete", "reset", "restore", "offlineReset"}
    <3>1. j.new \in Password /\ j.pw \in Password
      BY <2>1 DEF Job
    <3>2. NewRow(r) \in {changePassword(users[u], r, j.new), resetPasswordAccount(users[u], r, j.pw)}
      BY <2>6 DEF NewRow
    <3>3. PasswordAdministrator(NewRow(r))
      BY <2>2, <2>3, <2>4, <2>6, <3>1, <3>2 DEF changePassword, resetPasswordAccount, Row
    <3> QED
      BY <2>1, <2>2, <2>6, <3>3
  <2>7. CASE u = j.target /\ j.kind \in {"create", "initialize", "offlineInitialize"}
    BY <2>1, <2>4, <2>7 DEF Granted, CreateGranted, InitializeGranted, ManageKinds
  <2>8. CASE u = j.target /\ j.kind \in {"block", "role"}
    <3> DEFINE actor == j.claims.user
    <3>1. actor # j.target /\ PasswordAdministrator(users[actor])
      BY <2>1, <2>8 DEF Granted, BlockGranted, RoleGranted, ActorGranted, checkPasswordActor, ManageKinds
    <3>2. actor \in User
      BY <2>1, <2>8 DEF Inductive, TypeOK, CookiesWereIssued, Claims, OfflineKinds
    <3>3. users'[actor] = users[actor]
      BY <2>1, <2>2, <3>1, <3>2
    <3> QED
      BY <3>1, <3>2, <3>3
  <2>9. j.kind \notin {"signin", "write"}
    BY <1>2, RowsChange
  <2> QED
    BY <2>1, <2>5, <2>6, <2>7, <2>8, <2>9
       DEF Job, AllKinds, LockingKinds, ManageKinds, OfflineKinds
<1> QED
  BY <1>1, <1>2

\* The site never loses its last administrator with a password, however blocks,
\* demotions, resets and failures overlap (password.go: checkPasswordActor under
\* lockPasswordTenant; the count of checkLastPasswordAdministrator is a second
\* line of defence the argument does not need).
THEOREM AdministratorRemains == Spec => AdministratorRetained
<1>1. Inductive /\ [Next]_vars =>
        [hasPasswordAdministrator(users) => hasPasswordAdministrator(users')]_vars
  <2> SUFFICES ASSUME Inductive, Next, hasPasswordAdministrator(users)
               PROVE  hasPasswordAdministrator(users')
    OBVIOUS
  <2>1. CASE \E r \in Request : Step(r)
    BY <2>1, AdministratorStep
  <2>2. CASE Quiet
    BY <2>2 DEF Quiet, vars
  <2> QED
    BY <2>1, <2>2 DEF Next
<1> QED
  BY <1>1, InductiveInvariant, PTL DEF Spec, AdministratorRetained

-----------------------------------------------------------------------------
(* PasswordRequests implements PasswordAccounts                            *)

LEMMA ImplementsInit == Init => Accounts!Init
BY DEF Init, Accounts!Init, Accounts!ClaimsFor, Accounts!Holders, PurposeOf, Accounts!PurposeOf,
   PasswordInitialized, Accounts!PasswordInitialized

\* An actor the locked commands accept is one the abstract store accepts.
LEMMA ActorIsAdministrator ==
  ASSUME Inductive, NEW r \in Request, pc[r] = "commit", trx[r] = "open", Granted(r),
         job[r].kind \in ManageKinds \cup {"block", "role"}
  PROVE  job[r].claims \in issued /\ Accounts!Administrator(job[r].claims)
<1> DEFINE j == job[r]
           actor == users[j.claims.user]
<1>1. Serving(r)
  BY DEF Serving
<1>2. j.claims \in issued
  BY <1>1 DEF Inductive, CookiesWereIssued, ManageKinds, OfflineKinds
<1>3. checkPasswordActor(actor, j.claims.stamp) /\ actor.role = "administrator"
  BY DEF Granted, ActorGranted, CreateGranted, InitializeGranted, ResetGranted, BlockGranted,
     RoleGranted, ManageKinds, OfflineKinds
<1>4. j.claims.purpose = "session"
  <2>1. CASE j.kind \in ManageKinds
    BY <2>1 DEF Granted, freshPasswordAdministrator, ManageKinds
  <2>2. CASE j.kind \in {"block", "role"}
    <3>1. Valid(actor, j.claims)
      BY <1>1, <2>2 DEF Inductive, DecisionsHold, LockingKinds
    <3>2. j.claims.purpose \in Purpose
      BY <1>2 DEF Inductive, TypeOK, Claims
    <3> QED
      BY <1>3, <3>1, <3>2 DEF Valid, checkPasswordActor, Purpose
  <2> QED
    BY <2>1, <2>2
<1> QED
  BY <1>2, <1>3, <1>4 DEF Accounts!Administrator, Accounts!Valid, Accounts!PasswordInitialized,
     checkPasswordActor, PasswordInitialized

\* A committed row is the result of one operation of the abstract store, judged
\* by the rows of that instant.
LEMMA CommandImplements ==
  ASSUME Inductive, NEW r \in Request, Step(r), users' # users
  PROVE  Accounts!Next
<1> DEFINE j == job[r]
           c == j.claims
           t == j.target
<1>1. /\ pc[r] = "commit" /\ trx[r] = "open" /\ j \in Job /\ Granted(r) /\ Serving(r)
      /\ users' = [users EXCEPT ![t] = NewRow(r)]
      /\ j.kind \notin {"signin", "write"}
  BY RowsChange DEF Target, Serving
<1>2. UNCHANGED <<issued, written>>
  BY <1>1, RowsChange DEF Commit, CommitUnacknowledged, Persist
<1>3. t \in User /\ j.new \in Password /\ j.pw \in Password /\ j.role \in Role
  BY <1>1 DEF Job
<1>4. \A row : NewRow(r) = row => Accounts!Replace(t, row)
  BY <1>1, <1>2 DEF Accounts!Replace
<1>5. CASE j.kind \in {"change", "complete"}
  <2>1. c \in issued /\ t = c.user
    BY <1>1, <1>5 DEF Inductive, CookiesWereIssued, OfflineKinds
  <2>2. Valid(users[c.user], c)
    <3>1. c.purpose = "change" <=> j.kind = "complete"
      BY <1>1, <1>5 DEF Inductive, Places
    <3>2. /\ users[t].status = "active" /\ PasswordInitialized(users[t])
          /\ users[t].must <=> j.kind = "complete"
          /\ users[t].stamp = c.stamp
      BY <1>1, <1>5 DEF Granted, ChangeGranted, ManageKinds
    <3> QED
      BY <2>1, <3>1, <3>2 DEF Valid
  <2>3. ~Verify(users[c.user].hash, j.new)
    BY <1>1, <1>5, <2>2 DEF Inductive, VerifiedHashIsCurrent, Valid
  <2>4. Accounts!Replace(c.user, changePassword(users[c.user], r, j.new))
    BY <1>4, <1>5, <2>1 DEF NewRow
  <2>5. Accounts!ChangePassword(c, r, j.new)
    BY <2>2, <2>3, <2>4 DEF Accounts!ChangePassword, Accounts!Valid, Valid, Accounts!Verify, Verify,
       Accounts!PasswordInitialized, PasswordInitialized, Accounts!changePassword, changePassword,
       Accounts!generateSecurityStamp, generateSecurityStamp
  <2> QED
    BY <1>3, <2>1, <2>5 DEF Accounts!Next
<1>6. CASE j.kind \in ManageKinds \cup {"block", "role"}
  <2>1. c \in issued /\ Accounts!Administrator(c)
    BY <1>1, <1>6, ActorIsAdministrator
  <2>2. CASE j.kind = "create"
    <3>1. Accounts!Create(c, t, r, j.role, j.pw)
      BY <1>1, <1>4, <2>1, <2>2 DEF Granted, CreateGranted, ManageKinds, NewRow, Accounts!Create, createPasswordAccount,
         Accounts!createPasswordAccount, generateSecurityStamp, Accounts!generateSecurityStamp
    <3> QED
      BY <1>3, <2>1, <3>1 DEF Accounts!Next, Role, Accounts!Role
  <2>3. CASE j.kind = "initialize"
    <3>1. Accounts!Initialize(c, t, r, j.pw)
      BY <1>1, <1>4, <2>1, <2>3 DEF Granted, InitializeGranted, OfflineKinds, ManageKinds, NewRow, Accounts!Initialize, initializePasswordAccount,
         Accounts!initializePasswordAccount, generateSecurityStamp, Accounts!generateSecurityStamp,
         PasswordInitialized, Accounts!PasswordInitialized
    <3> QED
      BY <1>3, <2>1, <3>1 DEF Accounts!Next
  <2>4. CASE j.kind \in {"reset", "restore"}
    <3>1. t # c.user /\ PasswordInitialized(users[t]) /\ users[t].status \in {"active", "blocked"}
      BY <1>1, <2>4 DEF Granted, ResetGranted, ManageKinds, OfflineKinds
    <3>2. Accounts!Reset(c, t, r, j.pw)
      BY <1>4, <2>1, <2>4, <3>1 DEF NewRow, Accounts!Reset, resetPasswordAccount,
         Accounts!resetPasswordAccount, generateSecurityStamp, Accounts!generateSecurityStamp,
         PasswordInitialized, Accounts!PasswordInitialized
    <3> QED
      BY <1>3, <2>1, <3>2 DEF Accounts!Next
  <2>5. CASE j.kind = "block"
    <3>1. Accounts!Block(c, t, r)
      BY <1>1, <1>4, <2>1, <2>5 DEF Granted, BlockGranted, ManageKinds, NewRow, Accounts!Block, blockUser, Accounts!blockUser,
         generateSecurityStamp, Accounts!generateSecurityStamp
    <3> QED
      BY <1>3, <2>1, <3>1 DEF Accounts!Next
  <2>6. CASE j.kind = "role"
    <3>1. Accounts!ChangeRole(c, t, r, j.role)
      BY <1>1, <1>4, <2>1, <2>6 DEF Granted, RoleGranted, ManageKinds, NewRow, Accounts!ChangeRole, changeUserRole,
         Accounts!changeUserRole, generateSecurityStamp, Accounts!generateSecurityStamp
    <3> QED
      BY <1>3, <2>1, <3>1 DEF Accounts!Next, Role, Accounts!Role
  <2> QED
    BY <1>6, <2>2, <2>3, <2>4, <2>5, <2>6 DEF ManageKinds
<1>7. CASE j.kind = "offlineInitialize"
  <2>1. Accounts!InitializeOffline(t, r, j.pw)
    BY <1>1, <1>4, <1>7 DEF Granted, InitializeGranted, ManageKinds, OfflineKinds, NewRow, Accounts!InitializeOffline, initializePasswordAccount,
       Accounts!initializePasswordAccount, generateSecurityStamp, Accounts!generateSecurityStamp,
       PasswordInitialized, Accounts!PasswordInitialized
  <2> QED
    BY <1>3, <2>1 DEF Accounts!Next
<1>8. CASE j.kind = "offlineReset"
  <2>1. Accounts!ResetOffline(t, r, j.pw)
    BY <1>1, <1>4, <1>8 DEF Granted, ResetGranted, ManageKinds, OfflineKinds, NewRow, Accounts!ResetOffline, resetPasswordAccount,
       Accounts!resetPasswordAccount, generateSecurityStamp, Accounts!generateSecurityStamp,
       PasswordAdministrator, Accounts!PasswordAdministrator, PasswordInitialized,
       Accounts!PasswordInitialized
  <2> QED
    BY <1>3, <2>1 DEF Accounts!Next
<1> QED
  BY <1>1, <1>5, <1>6, <1>7, <1>8 DEF Job, AllKinds, LockingKinds, OfflineKinds

\* A cookie is a sign-in of the abstract store at the instant of the commit.
LEMMA SignInImplements ==
  ASSUME Inductive, NEW r \in Request, Step(r), issued' # issued
  PROVE  Accounts!Next
<1>1. /\ Target(r) \in User /\ UNCHANGED <<users, written>>
      /\ users[Target(r)].status = "active" /\ Verify(users[Target(r)].hash, job[r].pw)
      /\ issued' = issued \cup {[user |-> Target(r), stamp |-> users[Target(r)].stamp,
                                 purpose |-> PurposeOf(users[Target(r)])]}
  BY CookieIssued
<1>2. Accounts!SignIn(Target(r))
  BY <1>1 DEF Accounts!SignIn, Accounts!Holders, Accounts!ClaimsFor, Accounts!PasswordInitialized,
     Accounts!PurposeOf, PurposeOf, Verify
<1> QED
  BY <1>1, <1>2 DEF Accounts!Next

\* A business write is committed while the session it was made in is valid.
LEMMA WriteImplements ==
  ASSUME Inductive, NEW r \in Request, Step(r), users' = users, issued' = issued, written' # written
  PROVE  Accounts!Next
<1> DEFINE c == job[r].claims
<1>1. /\ pc[r] = "commit" /\ trx[r] = "open" /\ job[r].kind = "write"
      /\ written' = written \cup {r}
  BY DEF Step, Progress, Start, AuthenticateLocked, ReadUser, ReadCredential, PasswordReady,
     LockCredential, LockAndCommand, LockedCommand, Command, Commit, CommitUnacknowledged, Persist,
     CommitFinished, Refuse, StatementFails, Fail, Disconnect
<1>2. Serving(r)
  BY <1>1 DEF Serving
<1>3. c \in issued /\ Valid(users[c.user], c)
  BY <1>1, <1>2 DEF Inductive, DecisionsHold, CookiesWereIssued, LockingKinds, OfflineKinds
<1>4. c.purpose = "session"
  BY <1>1, <1>3 DEF Inductive, Places, TypeOK, Claims, Purpose
<1>5. Accounts!Write(c, r)
  BY <1>1, <1>3, <1>4 DEF Accounts!Write, Accounts!Valid, Valid, Accounts!PasswordInitialized,
     PasswordInitialized
<1> QED
  BY <1>3, <1>5 DEF Accounts!Next

\* The handlers, the middleware and the transactions implement the store: a
\* client cannot tell the program from one that serves every request at once.
THEOREM Implements == Spec => Linearizable
<1>1. Inductive /\ [Next]_vars => [Accounts!Next]_(Accounts!vars)
  <2> SUFFICES ASSUME Inductive, [Next]_vars
               PROVE  Accounts!Next \/ UNCHANGED <<users, issued, written>>
    BY DEF Accounts!vars
  <2>1. ASSUME NEW r \in Request, Step(r)
        PROVE  Accounts!Next \/ UNCHANGED <<users, issued, written>>
    BY <2>1, CommandImplements, SignInImplements, WriteImplements
  <2> QED
    BY <2>1 DEF Next, Quiet, vars
<1> QED
  BY <1>1, ImplementsInit, InductiveInvariant, PTL DEF Spec, Linearizable, Accounts!Spec
=============================================================================
