------------------------ MODULE ScheduledJobsProofs ------------------------
(***************************************************************************)
(* Theorems about ScheduledJobs, for any number of servers and ticks.  The *)
(* argument: from the lock to the commit a run has an open transaction,    *)
(* and from the handler to the commit that transaction holds the lock.     *)
(***************************************************************************)
EXTENDS ScheduledJobs, TLAPS

\* A run that has tried the lock, and has not committed, has its transaction.
Open == {"lock", "open", "purge", "succeeded", "failed", "commit", "rollback"}
TransactionOpen == \A j \in Run : pc[j] \in Open => <<j, "job">> \in connections

WorkersHoldLock == \A j \in Working : lock = j

SuccessesPurged == \A j \in Run : pc[j] = "succeeded" => j \in purged

IInv ==
  /\ TypeOK
  /\ TransactionOpen
  /\ WorkersHoldLock
  /\ SuccessesPurged
  /\ SuccessIsTrue

LEMMA Start == Init => IInv
  BY SizesAssumption, NoneAssumption
  DEF Init, IInv, TypeOK, TransactionOpen, Open, WorkersHoldLock, Working, SuccessesPurged,
      SuccessIsTrue, Run

\* A step of the scheduler keeps the invariant.
LEMMA FireStep == ASSUME NEW s \in Server, IInv, Fire(s) PROVE IInv'
  <1> DEFINE i == <<s, fired[s] + 1>>
  <1>1. fired \in [Server -> 0 .. Ticks] /\ fired[s] + 1 \in 1 .. Ticks /\ i \in Run
    BY SizesAssumption DEF IInv, TypeOK, Fire, Run
  <1>2. pc' = [pc EXCEPT ![i] = "begin"] /\ pc \in [Run -> {pc[j] : j \in Run}]
    BY DEF Fire, goto, IInv, TypeOK
  <1>3. \A j \in Run : pc'[j] = pc[j] \/ pc'[j] = "begin"
    BY <1>1, <1>2
  <1>4. TypeOK'
    BY <1>1, <1>2 DEF IInv, TypeOK, Fire, records, history
  <1>5. QED
    BY <1>1, <1>3, <1>4
    DEF IInv, Fire, TransactionOpen, Open, WorkersHoldLock, Working, SuccessesPurged,
        SuccessIsTrue, records, history

\* What steps of a run have in common: they move that run only.
LEMMA Moves ==
  ASSUME IInv, NEW j \in Run, NEW l, goto(j, l)
  PROVE  pc'[j] = l /\ \A i \in Run \ {j} : pc'[i] = pc[i]
  BY DEF goto, IInv, TypeOK

\* The steps up to the handler.
LEMMA BeginStep == ASSUME NEW j \in Run, IInv, BeginTx(j) PROVE IInv'
  <1>1. pc'[j] = "lock" /\ \A i \in Run \ {j} : pc'[i] = pc[i]
    BY Moves DEF BeginTx
  <1>2. TypeOK'
    BY DEF IInv, TypeOK, BeginTx, goto, records, history
  <1>3. QED
    BY <1>1, <1>2
    DEF IInv, BeginTx, TransactionOpen, Open, WorkersHoldLock, Working, SuccessesPurged,
        SuccessIsTrue, records, history

\* The end of a run's transaction, wherever the run goes from there.
LEMMA EndStep ==
  ASSUME IInv, NEW j \in Run, NEW l \in {"done", "wait", "panicking", "recover"},
         EndTx(j), goto(j, l), UNCHANGED <<fired, records, purged>>,
         failures' \in 0 .. MaxFailures
  PROVE  IInv'
  <1>1. pc'[j] = l /\ \A i \in Run \ {j} : pc'[i] = pc[i]
    BY Moves
  <1>2. TypeOK'
    BY DEF IInv, TypeOK, EndTx, goto, records
  <1>3. TransactionOpen'
    BY <1>1 DEF IInv, EndTx, TransactionOpen, Open
  <1>4. WorkersHoldLock'
    BY <1>1 DEF IInv, EndTx, WorkersHoldLock, Working
  <1>5. QED
    BY <1>1, <1>2, <1>3, <1>4 DEF IInv, SuccessesPurged, SuccessIsTrue, records

\* The steps of a handler, which keep the transaction and the lock.
LEMMA WorkStep ==
  ASSUME IInv, NEW j \in Run, j \in Working,
         NEW l \in {"purge", "succeeded", "failed", "commit", "rollback", "panicking"},
         goto(j, l), l = "succeeded" => j \in purged',
         connections' \subseteq Run \X {"job", "purge"},
         \A i \in Run : <<i, "job">> \in connections => <<i, "job">> \in connections',
         UNCHANGED <<fired, lock>>, purged \subseteq purged', purged' \subseteq Run,
         failures' \in 0 .. MaxFailures, lastFailure' \in Run \cup {None},
         lastSuccess' = lastSuccess \/ (lastSuccess' = j /\ pc[j] = "succeeded")
  PROVE  IInv'
  <1>1. pc'[j] = l /\ \A i \in Run \ {j} : pc'[i] = pc[i]
    BY Moves
  <1>2. TypeOK'
    BY DEF IInv, TypeOK, goto
  <1>3. TransactionOpen'
    BY <1>1 DEF IInv, TransactionOpen, Open, Working
  <1>4. WorkersHoldLock'
    BY <1>1 DEF IInv, WorkersHoldLock, Working
  <1>5. SuccessesPurged' /\ SuccessIsTrue'
    BY <1>1 DEF IInv, SuccessesPurged, SuccessIsTrue
  <1>6. QED
    BY <1>2, <1>3, <1>4, <1>5 DEF IInv

\* A run takes the lock when nobody has it, and so when nobody works.
LEMMA LockStep == ASSUME NEW j \in Run, IInv, TryLock(j) PROVE IInv'
  <1>1. CASE lock = None
    <2>1. pc'[j] = "open" /\ \A i \in Run \ {j} : pc'[i] = pc[i]
      BY <1>1, Moves DEF TryLock
    <2>2. Working = {}
      BY <1>1, NoneAssumption DEF IInv, WorkersHoldLock, Working
    <2>3. TypeOK'
      BY <1>1 DEF IInv, TypeOK, TryLock, goto, TransactionOpen, Open, records, history
    <2>4. QED
      BY <1>1, <2>1, <2>2, <2>3
      DEF IInv, TryLock, TransactionOpen, Open, WorkersHoldLock, Working, SuccessesPurged,
          SuccessIsTrue, records, history
  <1>2. CASE lock # None
    BY <1>2, EndStep DEF TryLock, records, history, IInv, TypeOK
  <1>3. QED
    BY <1>1, <1>2

LEMMA RunStep ==
  ASSUME NEW j \in Run, IInv, Progress(j) \/ Failing(j)
  PROVE  IInv'
  <1> USE DEF records, history
  <1>0. failures \in 0 .. MaxFailures /\ (Failure => failures' \in 0 .. MaxFailures)
    BY SizesAssumption DEF IInv, TypeOK, Failure
  <1>1. CASE BeginTx(j)
    BY <1>1, BeginStep
  <1>2. CASE TryLock(j)
    BY <1>2, LockStep
  <1>3. CASE OpenPurge(j)
    <2>1. j \in Working /\ goto(j, "purge")
      BY <1>3 DEF OpenPurge, Working
    <2>2. QED
      BY <1>0, <1>3, <2>1, WorkStep DEF OpenPurge, IInv, TypeOK
  <1>4. CASE Purge(j)
    <2>1. j \in Working /\ goto(j, "succeeded")
      BY <1>4 DEF Purge, Working
    <2>2. QED
      BY <1>0, <1>4, <2>1, WorkStep DEF Purge, IInv, TypeOK
  <1>5. CASE RecordOutcome(j)
    <2>1. j \in Working
      BY <1>5 DEF RecordOutcome, Working
    <2>2. QED
      BY <1>0, <1>5, <2>1, WorkStep DEF RecordOutcome, IInv, TypeOK
  <1>6. CASE Complete(j)
    BY <1>0, <1>6, EndStep DEF Complete
  <1>7. CASE Return(j)
    BY <1>0, <1>7, EndStep DEF Return
  <1>8. CASE Unwind(j)
    BY <1>0, <1>8, EndStep DEF Unwind
  <1>9. CASE RecordPanic(j)
    <2>1. pc'[j] = "done" /\ \A i \in Run \ {j} : pc'[i] = pc[i]
      BY <1>9, Moves DEF RecordPanic
    <2>2. TypeOK'
      BY <1>9 DEF IInv, TypeOK, RecordPanic, goto
    <2>3. QED
      BY <1>9, <2>1, <2>2
      DEF RecordPanic, IInv, TransactionOpen, Open, WorkersHoldLock, Working, SuccessesPurged,
          SuccessIsTrue
  <1>10. CASE NotStarted(j)
    BY <1>0, <1>10, EndStep DEF NotStarted
  <1>11. CASE OpenPurgeFails(j)
    <2>1. j \in Working
      BY <1>11 DEF OpenPurgeFails, Working
    <2>2. QED
      BY <1>0, <1>11, <2>1, WorkStep DEF OpenPurgeFails, IInv, TypeOK
  <1>12. CASE PurgeFails(j)
    <2>1. j \in Working
      BY <1>12 DEF PurgeFails, Working
    <2>2. QED
      BY <1>0, <1>12, <2>1, WorkStep DEF PurgeFails, IInv, TypeOK
  <1>13. CASE CompleteFails(j)
    BY <1>0, <1>13, EndStep DEF CompleteFails
  <1>14. CASE Panics(j)
    <2>1. j \in Working
      BY <1>14 DEF Panics, Working
    <2>2. QED
      BY <1>0, <1>14, <2>1, WorkStep DEF Panics, IInv, TypeOK
  <1>15. QED
    BY <1>1, <1>2, <1>3, <1>4, <1>5, <1>6, <1>7, <1>8, <1>9, <1>10, <1>11, <1>12, <1>13, <1>14
    DEF Progress, Failing

\* A crash ends the transactions of a server together with its runs.
LEMMA CrashStep == ASSUME NEW s \in Server, IInv, Crash(s) PROVE IInv'
  <1>1. \A j \in Run : pc'[j] = pc[j] \/ pc'[j] = "done"
    BY DEF Crash
  <1>2. \A j \in Run : j[1] = s => pc'[j] \notin Open
    BY DEF Crash, Open
  <1>3. \A j \in Run : j[1] # s => (<<j, "job">> \in connections' <=> <<j, "job">> \in connections)
    BY DEF Crash
  <1>4. TypeOK'
    <2>1. pc' \in [Run -> {"idle", "begin", "lock", "open", "purge", "succeeded", "failed",
                           "commit", "rollback", "wait", "panicking", "recover", "done"}]
      BY DEF IInv, TypeOK, Crash
    <2>2. connections' \subseteq Run \X {"job", "purge"} /\ failures' \in 0 .. MaxFailures
      BY SizesAssumption DEF IInv, TypeOK, Crash, Failure
    <2>3. lock' \in {j \in Run : <<j, "job">> \in connections'} \cup {None}
      BY <1>3 DEF IInv, TypeOK, Crash
    <2>4. QED
      BY <2>1, <2>2, <2>3 DEF IInv, TypeOK, Crash, records
  <1>5. TransactionOpen'
    BY <1>1, <1>2, <1>3 DEF IInv, TransactionOpen, Open
  <1>6. WorkersHoldLock'
    <2> SUFFICES ASSUME NEW j \in Working' PROVE lock' = j
      BY DEF WorkersHoldLock
    <2>1. j \in Run /\ j \in Working /\ j[1] # s
      BY <1>1, <1>2 DEF Working, Open
    <2>2. lock = j
      BY <2>1 DEF IInv, WorkersHoldLock
    <2>3. QED
      BY <2>1, <2>2 DEF Crash
  <1>7. SuccessesPurged' /\ SuccessIsTrue'
    BY <1>1 DEF IInv, SuccessesPurged, SuccessIsTrue, Crash, records
  <1>8. QED
    BY <1>4, <1>5, <1>6, <1>7 DEF IInv

LEMMA Step == IInv /\ [Next]_vars => IInv'
  <1> SUFFICES ASSUME IInv, [Next]_vars PROVE IInv'
    OBVIOUS
  <1>1. CASE \E s \in Server : Fire(s) \/ Crash(s)
    BY <1>1, FireStep, CrashStep
  <1>2. CASE \E j \in Run : Progress(j) \/ Failing(j)
    BY <1>2, RunStep
  <1>3. CASE UNCHANGED vars
    BY <1>3
    DEF IInv, vars, records, history, TypeOK, TransactionOpen, WorkersHoldLock, Working,
        SuccessesPurged, SuccessIsTrue
  <1>4. QED
    BY <1>1, <1>2, <1>3 DEF Next, Quiet

\* The inductive invariant.
THEOREM Invariant == Spec => []IInv
  BY Start, Step, PTL DEF Spec

\* The lock is never that of a transaction that is over (lock.go:21).
THEOREM JobTypes == Spec => []TypeOK
  BY Invariant, PTL DEF IInv

\* At most one handler works at a time, on whatever server (job.go:75).
THEOREM OneHandler == Spec => []HandlersNeverOverlap
  <1>1. IInv => HandlersNeverOverlap
    BY DEF IInv, WorkersHoldLock, HandlersNeverOverlap
  <1>2. QED
    BY Invariant, <1>1, PTL

\* A recorded success is the success of a run that purged (job.go:91).
THEOREM SuccessRecorded == Spec => []SuccessIsTrue
  BY Invariant, PTL DEF IInv
=============================================================================
