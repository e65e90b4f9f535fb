-------------------------- MODULE RequestResources --------------------------
(***************************************************************************)
(* What requests wait for.  A request holds a database connection from its *)
(* first middleware on; the password operations then take one of a few     *)
(* slots for hashing, business writes and password operations the tenant's *)
(* row lock, and a file in the SQL blob store a second connection.  The    *)
(* question is whether requests can wait for each other in a circle.       *)
(***************************************************************************)
EXTENDS Integers, FiniteSets

CONSTANTS
  Request,
  Kinds,       \* the kinds of requests that are sent
  PoolSize,    \* DATABASE_MAX_OPEN_CONNS
  Slots,       \* hashes computed at the same time
  Places,      \* callers of Acquire, those that hash included
  SqlBlobs,    \* BLOB_STORAGE = sql
  MaxFiles,    \* bound: files of one upload
  None

AllKinds == {"signin", "manage", "write", "upload", "image", "read", "task"}

ASSUME KindsAssumption == Kinds \subseteq AllKinds
ASSUME SizesAssumption ==
  /\ PoolSize \in Nat \ {0} /\ Slots \in Nat \ {0} /\ MaxFiles \in Nat \ {0}
  /\ Places \in Nat /\ SqlBlobs \in BOOLEAN
ASSUME NoneAssumption == None \notin Request \cup AllKinds

VARIABLES
  pc, kind,      \* where each request is, and what it asks for
  files,         \* the files it has yet to read or store
  connections,   \* the connections in use: <<owner, "request">> or <<owner, "file">>
  queued,        \* who has a place in the limiter's queue channel
  hashing,       \* who has a place in its active channel
  tenantLock,    \* who holds the tenant's row
  cancelled      \* whose client is gone

vars == <<pc, kind, files, connections, queued, hashing, tenantLock, cancelled>>

Serving(r) == pc[r] \notin {"idle", "done"}
goto(r, label) == pc' = [pc EXCEPT ![r] = label]

Init ==
  /\ pc = [r \in Request |-> "idle"]
  /\ kind = [r \in Request |-> None]
  /\ files = [r \in Request |-> 0]
  /\ connections = {} /\ queued = {} /\ hashing = {}
  /\ tenantLock = None
  /\ cancelled = {}

Start(r) ==
  /\ pc[r] = "idle"
  /\ goto(r, "begin")
  /\ \E k \in Kinds : kind' = [kind EXCEPT ![r] = k]
  /\ \E n \in 1 .. MaxFiles : files' = [files EXCEPT ![r] = n]
  /\ UNCHANGED <<connections, queued, hashing, tenantLock, cancelled>>

\* sql.DB.BeginTx waits while all connections are in use.
ConnectionFree == Cardinality(connections) < PoolSize

BeginTx(r) ==
  /\ pc[r] = "begin" /\ r \notin cancelled
  /\ ConnectionFree
  /\ connections' = connections \cup {<<r, "request">>}
  /\ goto(r, CASE kind[r] \in {"signin", "manage"} -> "acquire"
               [] kind[r] \in {"write", "upload"} -> "lock"
               [] kind[r] = "image" -> "file"
               [] OTHER -> "answer")
  /\ UNCHANGED <<kind, files, queued, hashing, tenantLock, cancelled>>

\* Acquire gives up at once when the queue is full ...
Acquire(r) ==
  /\ pc[r] = "acquire"
  /\ IF Cardinality(queued) < Places
     THEN queued' = queued \cup {r} /\ goto(r, "slot")
     ELSE UNCHANGED queued /\ goto(r, "unwind")
  /\ UNCHANGED <<kind, files, connections, hashing, tenantLock, cancelled>>

\* ... and waits for a slot otherwise.
TakeSlot(r) ==
  /\ pc[r] = "slot"
  /\ Cardinality(hashing) < Slots
  /\ hashing' = hashing \cup {r}
  /\ goto(r, "hash")
  /\ UNCHANGED <<kind, files, connections, queued, tenantLock, cancelled>>

release(r) == hashing' = hashing \ {r} /\ queued' = queued \ {r}

\* Mutation of Hash: the administrator's operations keep the slot as well.
HashKeepingSlot(r) ==
  /\ pc[r] = "hash"
  /\ goto(r, "lock")
  /\ UNCHANGED <<hashing, queued, kind, files, connections, tenantLock, cancelled>>

\* A sign-in keeps its slot until the handler returns; the administrator's
\* operations give it back as soon as the hash is computed.
Hash(r) ==
  /\ pc[r] = "hash"
  /\ IF kind[r] = "manage"
     THEN release(r) /\ goto(r, "lock")
     ELSE /\ UNCHANGED <<hashing, queued>>
          /\ \E verified \in BOOLEAN : goto(r, IF verified THEN "lock" ELSE "unwind")
  /\ UNCHANGED <<kind, files, connections, tenantLock, cancelled>>

\* What is found under the lock may lead to a refusal.
lockPasswordTenant(r) ==
  /\ pc[r] = "lock" /\ r \notin cancelled
  /\ tenantLock = None
  /\ tenantLock' = r
  /\ \/ goto(r, IF kind[r] = "upload" THEN "file" ELSE "answer")
     \/ goto(r, "unwind")
  /\ UNCHANGED <<kind, files, connections, queued, hashing, cancelled>>

\* The SQL blob store opens a transaction of its own for each file.
OpenFile(r) ==
  /\ pc[r] = "file" /\ r \notin cancelled
  /\ IF SqlBlobs
     THEN ConnectionFree /\ connections' = connections \cup {<<r, "file">>}
     ELSE UNCHANGED connections
  /\ goto(r, "transfer")
  /\ UNCHANGED <<kind, files, queued, hashing, tenantLock, cancelled>>

\* Mutation of Transfer: one file too many.
TransferTooMany(r) ==
  /\ pc[r] = "transfer" /\ r \notin cancelled
  /\ connections' = connections \ {<<r, "file">>}
  /\ files' = [files EXCEPT ![r] = @ - 1]
  /\ goto(r, IF kind[r] = "upload" /\ files[r] >= 1 THEN "file" ELSE "answer")
  /\ UNCHANGED <<kind, queued, hashing, tenantLock, cancelled>>

Transfer(r) ==
  /\ pc[r] = "transfer" /\ r \notin cancelled
  /\ connections' = connections \ {<<r, "file">>}
  /\ files' = [files EXCEPT ![r] = @ - 1]
  /\ goto(r, IF kind[r] = "upload" /\ files[r] > 1 THEN "file" ELSE "answer")
  /\ UNCHANGED <<kind, queued, hashing, tenantLock, cancelled>>

\* The request is over; what it was is garbage.
Finish(r) ==
  /\ goto(r, "done")
  /\ kind' = [kind EXCEPT ![r] = None]
  /\ files' = [files EXCEPT ![r] = 0]
  /\ cancelled' = cancelled \ {r}

EndTransaction(r) ==
  /\ connections' = connections \ ({r} \X {"request", "file"})
  /\ tenantLock' = IF tenantLock = r THEN None ELSE tenantLock

\* Mutation of Commit: the transaction is left to the handler's return.
CommitLater(r) ==
  /\ pc[r] = "answer"
  /\ goto(r, "return")
  /\ UNCHANGED <<kind, files, connections, queued, hashing, tenantLock, cancelled>>

\* The handler commits explicitly, then its deferred functions run.
Commit(r) ==
  /\ pc[r] = "answer"
  /\ EndTransaction(r)
  /\ goto(r, "return")
  /\ UNCHANGED <<kind, files, queued, hashing, cancelled>>

Return(r) ==
  /\ pc[r] = "return"
  /\ release(r)
  /\ Finish(r)
  /\ UNCHANGED <<connections, tenantLock>>

\* A handler that refuses, fails or panics runs its deferred functions
\* before WebSetup ends the transaction.
Unwind(r) ==
  /\ pc[r] = "unwind"
  /\ release(r)
  /\ connections' = connections \ {<<r, "file">>}
  /\ goto(r, "end")
  /\ UNCHANGED <<kind, files, tenantLock, cancelled>>

End(r) ==
  /\ pc[r] = "end"
  /\ EndTransaction(r)
  /\ Finish(r)
  /\ UNCHANGED <<queued, hashing>>

\* The client goes away: database/sql rolls back what runs under its context.
Cancel(r) ==
  /\ Serving(r) /\ kind[r] # "task" /\ r \notin cancelled
  /\ cancelled' = cancelled \cup {r}
  /\ EndTransaction(r)
  /\ UNCHANGED <<pc, kind, files, queued, hashing>>

\* Every wait for a connection, a slot or a row ends with the context.
Aborted(r) ==
  /\ pc[r] \in {"begin", "slot", "lock", "file", "transfer"} /\ r \in cancelled
  /\ goto(r, "unwind")
  /\ UNCHANGED <<kind, files, connections, queued, hashing, tenantLock, cancelled>>

\* A statement fails or the handler panics.
Fail(r) ==
  /\ pc[r] \in {"acquire", "hash", "lock", "transfer", "answer"}
  /\ goto(r, "unwind")
  /\ UNCHANGED <<kind, files, connections, queued, hashing, tenantLock, cancelled>>

Progress(r) ==
  \/ BeginTx(r) \/ Acquire(r) \/ TakeSlot(r) \/ Hash(r) \/ lockPasswordTenant(r)
  \/ OpenFile(r) \/ Transfer(r) \/ Commit(r) \/ Return(r) \/ Unwind(r) \/ End(r)
  \/ Aborted(r)

Step(r) == Start(r) \/ Progress(r) \/ Cancel(r) \/ Fail(r)

\* Nobody asks for anything any more.
Quiet == (\A r \in Request : pc[r] \in {"idle", "done"}) /\ UNCHANGED vars

Next == (\E r \in Request : Step(r)) \/ Quiet

Spec == Init /\ [][Next]_vars

\* A request that is not blocked goes on.
FairSpec == Spec /\ \A r \in Request : WF_vars(Progress(r))
-----------------------------------------------------------------------------
(* Properties                                                              *)

\* Each variable has its type.
TypeOK ==
  /\ pc \in [Request -> {"idle", "begin", "acquire", "slot", "hash", "lock", "file",
                         "transfer", "answer", "return", "unwind", "end", "done"}]
  /\ kind \in [Request -> Kinds \cup {None}]
  /\ files \in [Request -> 0 .. MaxFiles]
  /\ connections \subseteq Request \X {"request", "file"}
  /\ queued \subseteq Request /\ hashing \subseteq queued
  /\ tenantLock \in Request \cup {None}
  /\ cancelled \subseteq Request

\* Resources are held where the program holds them and nowhere else: none
\* outlives its request, and each kind takes them in the same order.
Ownership ==
  /\ \A r \in Request :
       /\ <<r, "request">> \in connections => pc[r] \notin {"idle", "begin", "return", "done"}
       /\ <<r, "file">> \in connections => SqlBlobs /\ pc[r] \in {"transfer", "unwind"}
       /\ r \in queued => /\ kind[r] \in {"signin", "manage"}
                          /\ pc[r] \in {"slot", "hash", "lock", "answer", "return", "unwind"}
       /\ r \in hashing => pc[r] # "slot"
       /\ r \in queued /\ kind[r] = "manage" => pc[r] \in {"slot", "hash", "unwind"}
       /\ pc[r] = "acquire" => kind[r] \in {"signin", "manage"}
       /\ pc[r] \in {"slot", "hash"} => r \in queued
       /\ pc[r] = "hash" => r \in hashing
       /\ pc[r] \in {"begin", "acquire", "slot", "hash", "lock", "file", "transfer"} => files[r] > 0
  /\ tenantLock # None =>
       pc[tenantLock] \in {"file", "transfer", "answer", "unwind", "end"}

\* A request waits for something that others hold.
Blocked(r) ==
  /\ r \notin cancelled
  /\ \/ pc[r] = "begin" /\ ~ConnectionFree
     \/ pc[r] = "slot" /\ ~(Cardinality(hashing) < Slots)
     \/ pc[r] = "lock" /\ tenantLock # None
     \/ pc[r] = "file" /\ SqlBlobs /\ ~ConnectionFree

\* Requests never wait for each other in a circle: if any is being served,
\* then one of them can go on.
NoCircularWait ==
  (\E r \in Request : Serving(r)) => \E r \in Request : Serving(r) /\ ~Blocked(r)

\* Every request is answered.
RequestsAnswered == \A r \in Request : Serving(r) ~> pc[r] = "done"

\* An upload does not wait on its own parent request (password.go:20): it does
\* not wait for a connection while every connection in use is its own or that of a
\* request which waits for the upload's lock.
UploadsDoNotWaitForThemselves ==
  \A r \in Request :
    pc[r] = "file" /\ tenantLock = r /\ Blocked(r) =>
      \E held \in connections : held[1] # r /\ pc[held[1]] # "lock"
=============================================================================
