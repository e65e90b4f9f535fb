---------------------------- MODULE ScheduledJobs ----------------------------
(***************************************************************************)
(* The job that purges notifications, which every server starts at the     *)
(* same times.  A run takes an advisory lock in its own transaction,       *)
(* purges on a second connection, records the outcome on another one, ends *)
(* its transaction and waits for the rest of a second.                     *)
(***************************************************************************)
EXTENDS Integers, FiniteSets

CONSTANTS
  Server,
  Ticks,         \* bound: how often the jobs are due
  PoolSize,      \* DATABASE_MAX_OPEN_CONNS of each server
  MaxFailures,   \* bound: what goes wrong
  None

ASSUME SizesAssumption ==
  /\ Ticks \in Nat \ {0} /\ PoolSize \in Nat \ {0} /\ MaxFailures \in Nat

Run == Server \X (1 .. Ticks)

ASSUME NoneAssumption == None \notin Run

VARIABLES
  fired,          \* how many times the jobs of a server were started
  pc,             \* where each run is
  connections,    \* in use: <<run, "job">>, <<run, "purge">>
  lock,           \* the run that holds the advisory lock
  lastSuccess,    \* jobs.<name>.last_successful_run, as the run recorded
  lastFailure,    \* jobs.<name>.last_failed_run
  purged,         \* history: the runs whose purge was committed
  failures        \* how much went wrong

vars == <<fired, pc, connections, lock, lastSuccess, lastFailure, purged, failures>>
records == <<lastSuccess, lastFailure>>
history == <<purged, failures>>

goto(j, label) == pc' = [pc EXCEPT ![j] = label]

Init ==
  /\ fired = [s \in Server |-> 0]
  /\ pc = [j \in Run |-> "idle"]
  /\ connections = {} /\ lock = None
  /\ lastSuccess = None /\ lastFailure = None
  /\ purged = {} /\ failures = 0

\* The scheduler starts a run, whether the one before has ended or not.
Fire(s) ==
  /\ fired[s] < Ticks
  /\ fired' = [fired EXCEPT ![s] = @ + 1]
  /\ goto(<<s, fired[s] + 1>>, "begin")
  /\ UNCHANGED <<connections, lock, records, history>>

\* A statement, a transaction or a server fails.
Failure == failures < MaxFailures /\ failures' = failures + 1

ConnectionFree(j) == Cardinality({c \in connections : c[1][1] = j[1]}) < PoolSize

\* Mutation of EndTx: an advisory lock of the session.
EndTxKeepingLock(j) ==
  /\ connections' = connections \ {<<j, "job">>}
  /\ UNCHANGED lock

\* The lock is one of the transaction (pg_try_advisory_xact_lock).
EndTx(j) ==
  /\ connections' = connections \ {<<j, "job">>}
  /\ lock' = IF lock = j THEN None ELSE lock

BeginTx(j) ==
  /\ pc[j] = "begin"
  /\ ConnectionFree(j)
  /\ connections' = connections \cup {<<j, "job">>}
  /\ goto(j, "lock")
  /\ UNCHANGED <<fired, lock, records, history>>

\* Mutation of TryLock: every server runs the job.
TryLockShared(j) ==
  /\ pc[j] = "lock"
  /\ lock' = j /\ goto(j, "open") /\ UNCHANGED connections
  /\ UNCHANGED <<fired, records, history>>

\* A run that does not get the lock is skipped.
TryLock(j) ==
  /\ pc[j] = "lock"
  /\ IF lock = None
     THEN lock' = j /\ goto(j, "open") /\ UNCHANGED connections
     ELSE EndTx(j) /\ goto(j, "done")
  /\ UNCHANGED <<fired, records, history>>

\* No transaction, or no answer about the lock: the run is given up.
NotStarted(j) ==
  /\ pc[j] \in {"begin", "lock"} /\ Failure
  /\ EndTx(j)
  /\ goto(j, "done")
  /\ UNCHANGED <<fired, records, purged>>

\* PurgeExpiredNotifications opens a transaction of its own ...
OpenPurge(j) ==
  /\ pc[j] = "open"
  /\ ConnectionFree(j)
  /\ connections' = connections \cup {<<j, "purge">>}
  /\ goto(j, "purge")
  /\ UNCHANGED <<fired, lock, records, history>>

OpenPurgeFails(j) ==
  /\ pc[j] = "open" /\ Failure
  /\ goto(j, "failed")
  /\ UNCHANGED <<fired, connections, lock, records, purged>>

\* Mutation of Purge: its connection is kept.
PurgeKeepingConnection(j) ==
  /\ pc[j] = "purge"
  /\ purged' = purged \cup {j}
  /\ goto(j, "succeeded")
  /\ UNCHANGED <<fired, connections, lock, records, failures>>

\* ... and commits it.
Purge(j) ==
  /\ pc[j] = "purge"
  /\ connections' = connections \ {<<j, "purge">>}
  /\ purged' = purged \cup {j}
  /\ goto(j, "succeeded")
  /\ UNCHANGED <<fired, lock, records, failures>>

\* If its statement fails the transaction is neither committed nor rolled
\* back, and its context never ends: the connection is lost.
PurgeFails(j) ==
  /\ pc[j] = "purge" /\ Failure
  /\ goto(j, "failed")
  /\ UNCHANGED <<fired, connections, lock, records, purged>>

\* Mutation of RecordOutcome: the outcomes are mixed up.
RecordSuccess(j) ==
  /\ pc[j] \in {"succeeded", "failed"}
  /\ ConnectionFree(j)
  /\ lastSuccess' \in {j, lastSuccess} /\ UNCHANGED lastFailure
  /\ goto(j, IF pc[j] = "succeeded" THEN "commit" ELSE "rollback")
  /\ UNCHANGED <<fired, connections, lock, history>>

\* The outcome is recorded in a transaction of its own, or not at all.
RecordOutcome(j) ==
  /\ pc[j] \in {"succeeded", "failed"}
  /\ ConnectionFree(j)
  /\ IF pc[j] = "succeeded"
     THEN lastSuccess' \in {j, lastSuccess} /\ UNCHANGED lastFailure
     ELSE lastFailure' \in {j, lastFailure} /\ UNCHANGED lastSuccess
  /\ goto(j, IF pc[j] = "succeeded" THEN "commit" ELSE "rollback")
  /\ UNCHANGED <<fired, connections, lock, history>>

\* MustCommit or MustRollback: the advisory lock belongs to the transaction.
Complete(j) ==
  /\ pc[j] \in {"commit", "rollback"}
  /\ EndTx(j)
  /\ goto(j, "wait")
  /\ UNCHANGED <<fired, records, history>>

\* MustCommit panics.
CompleteFails(j) ==
  /\ pc[j] \in {"commit", "rollback"} /\ Failure
  /\ EndTx(j)
  /\ goto(j, "panicking")
  /\ UNCHANGED <<fired, records, purged>>

\* The handler panics, or recording its outcome does.
Panics(j) ==
  /\ pc[j] \in {"open", "succeeded", "failed"} /\ Failure
  /\ goto(j, "panicking")
  /\ UNCHANGED <<fired, connections, lock, records, purged>>

\* A second after the tick: by then every server has tried the lock.
SecondOver(j) ==
  \A s \in Server : fired[s] >= j[2] /\ pc[<<s, j[2]>>] \notin {"begin", "lock"}

\* logFinish waits, then unlocks; what was not ended before ends here.
Return(j) ==
  /\ pc[j] = "wait" /\ SecondOver(j)
  /\ EndTx(j)
  /\ goto(j, "done")
  /\ UNCHANGED <<fired, records, history>>

\* After a panic logFinish runs too, before the panic is recorded.
Unwind(j) ==
  /\ pc[j] = "panicking" /\ SecondOver(j)
  /\ EndTx(j)
  /\ goto(j, "recover")
  /\ UNCHANGED <<fired, records, history>>

RecordPanic(j) ==
  /\ pc[j] = "recover"
  /\ ConnectionFree(j)
  /\ lastFailure' \in {j, lastFailure}
  /\ goto(j, "done")
  /\ UNCHANGED <<fired, connections, lock, lastSuccess, history>>

\* A server dies and is started again: the database ends its sessions.
Crash(s) ==
  /\ Failure
  /\ connections' = {c \in connections : c[1][1] # s}
  /\ lock' = IF lock # None /\ lock[1] = s THEN None ELSE lock
  /\ pc' = [j \in Run |-> IF j[1] = s /\ pc[j] # "idle" THEN "done" ELSE pc[j]]
  /\ UNCHANGED <<fired, records, purged>>

Progress(j) ==
  \/ BeginTx(j) \/ TryLock(j) \/ OpenPurge(j) \/ Purge(j) \/ RecordOutcome(j)
  \/ Complete(j) \/ Return(j) \/ Unwind(j) \/ RecordPanic(j)

Failing(j) ==
  NotStarted(j) \/ OpenPurgeFails(j) \/ PurgeFails(j) \/ CompleteFails(j) \/ Panics(j)

\* All is done.
Quiet == (\A s \in Server : fired[s] = Ticks) /\ UNCHANGED vars

Next ==
  \/ \E s \in Server : Fire(s) \/ Crash(s)
  \/ \E j \in Run : Progress(j) \/ Failing(j)
  \/ Quiet

Spec == Init /\ [][Next]_vars

\* The schedulers fire, and runs that are not blocked go on.
FairSpec ==
  /\ Spec
  /\ \A s \in Server : WF_vars(Fire(s))
  /\ \A j \in Run : WF_vars(Progress(j))
-----------------------------------------------------------------------------
(* Properties                                                              *)

\* Each variable has its type; the lock is that of an open transaction.
TypeOK ==
  /\ fired \in [Server -> 0 .. Ticks]
  /\ pc \in [Run -> {"idle", "begin", "lock", "open", "purge", "succeeded", "failed", "commit",
                     "rollback", "wait", "panicking", "recover", "done"}]
  /\ connections \subseteq Run \X {"job", "purge"}
  /\ lock \in {j \in Run : <<j, "job">> \in connections} \cup {None}
  /\ lastSuccess \in Run \cup {None} /\ lastFailure \in Run \cup {None}
  /\ purged \subseteq Run /\ failures \in 0 .. MaxFailures

\* The handlers of two runs never work at the same time, on one server or on
\* several (job.go:75).
Working == {j \in Run : pc[j] \in {"open", "purge", "succeeded", "failed", "commit", "rollback"}}
HandlersNeverOverlap == \A i, j \in Working : i = j

\* What is recorded as the last successful run is a run that purged.
SuccessIsTrue == lastSuccess # None => lastSuccess \in purged

\* Every run that is started ends, although a failed purge costs a connection,
\* as long as failures leave two of them (job.go:103, notification.go:17).
RunsEnd == \A j \in Run : pc[j] = "begin" ~> pc[j] = "done"
=============================================================================
