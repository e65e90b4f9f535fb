--------------------------- MODULE BackgroundTasks ---------------------------
(***************************************************************************)
(* Requests, the queue of background tasks, and the end of the server.  A  *)
(* handler asks for a task; once the transaction of its request is over    *)
(* the task is counted and sent to a bounded queue, from which workers     *)
(* take it.  A worker runs a task in a transaction of its own.  To stop,   *)
(* the server waits for the requests, then for the count to be zero.       *)
(***************************************************************************)
EXTENDS Integers, Sequences, FiniteSets

CONSTANTS
  Request,     \* each asks for one task or for none, and names its task
  Worker,      \* one per processor
  QueueSize,   \* 100
  PoolSize,    \* DATABASE_MAX_OPEN_CONNS
  None

ASSUME SizesAssumption == QueueSize \in Nat \ {0} /\ PoolSize \in Nat \ {0}
ASSUME FiniteAssumption == IsFiniteSet(Request) /\ IsFiniteSet(Worker)
ASSUME NamesAssumption == None \notin Request /\ Request \cap Worker = {}

VARIABLES
  pc,           \* where each request is
  announces,    \* the requests that asked for a task
  connections,  \* who uses a database connection
  len, queue,   \* BackgroundWorker.len and .queue
  at,           \* where each worker is
  task,         \* the task it has taken
  attempted,    \* history: the tasks that ran, or failed to
  server

vars == <<pc, announces, connections, len, queue, at, task, attempted, server>>
requestVars == <<pc, announces>>
workerVars == <<at, task, attempted>>

Running == server \in {"serving", "closing", "draining"}
Serving(r) == pc[r] \notin {"idle", "done"}
goto(r, label) == pc' = [pc EXCEPT ![r] = label]

Init ==
  /\ pc = [r \in Request |-> "idle"] /\ announces = {}
  /\ connections = {}
  /\ len = 0 /\ queue = <<>>
  /\ at = [w \in Worker |-> "idle"] /\ task = [w \in Worker |-> None]
  /\ attempted = {}
  /\ server = "serving"

Start(r) ==
  /\ server = "serving" /\ pc[r] = "idle"
  /\ goto(r, "begin")
  /\ UNCHANGED <<announces, connections, len, queue, workerVars, server>>

ConnectionFree == Cardinality(connections) < PoolSize

BeginTx(r) ==
  /\ Running /\ pc[r] = "begin"
  /\ ConnectionFree
  /\ connections' = connections \cup {r}
  /\ goto(r, "handler")
  /\ UNCHANGED <<announces, len, queue, workerVars, server>>

\* The handler runs, and may ask for a task.
Handle(r) ==
  /\ Running /\ pc[r] = "handler"
  /\ goto(r, "commit")
  /\ announces' \in {announces, announces \cup {r}}
  /\ UNCHANGED <<connections, len, queue, workerVars, server>>

\* Mutation of Commit: tasks are handed over, the transaction is left open.
CommitNever(r) ==
  /\ Running /\ pc[r] = "commit"
  /\ goto(r, IF r \in announces THEN "count" ELSE "done")
  /\ connections' = IF r \in announces THEN connections ELSE connections \ {r}
  /\ UNCHANGED <<announces, len, queue, workerVars, server>>

\* Context.Commit: the transaction first, the tasks after it.
Commit(r) ==
  /\ Running /\ pc[r] = "commit"
  /\ connections' = connections \ {r}
  /\ goto(r, IF r \in announces THEN "count" ELSE "done")
  /\ UNCHANGED <<announces, len, queue, workerVars, server>>

\* An error, a panic, or a commit that fails: the tasks are dropped.
Rollback(r) ==
  /\ Running /\ pc[r] \in {"begin", "handler", "commit"}
  /\ connections' = connections \ {r}
  /\ announces' = announces \ {r}
  /\ goto(r, "done")
  /\ UNCHANGED <<len, queue, workerVars, server>>

\* The client goes away: database/sql ends the transaction by itself.
Cancel(r) ==
  /\ Running /\ pc[r] \in {"handler", "commit"} /\ r \in connections
  /\ connections' = connections \ {r}
  /\ UNCHANGED <<requestVars, len, queue, workerVars, server>>

\* Mutation of Count: the counter is left to the workers.
CountLater(r) ==
  /\ Running /\ pc[r] = "count"
  /\ goto(r, "send")
  /\ UNCHANGED <<announces, connections, len, queue, workerVars, server>>

\* Enqueue counts the task ...
Count(r) ==
  /\ Running /\ pc[r] = "count"
  /\ len' = len + 1
  /\ goto(r, "send")
  /\ UNCHANGED <<announces, connections, queue, workerVars, server>>

\* ... and sends it, which waits while the queue is full.
Send(r) ==
  /\ Running /\ pc[r] = "send"
  /\ Len(queue) < QueueSize
  /\ queue' = Append(queue, r)
  /\ goto(r, "done")
  /\ UNCHANGED <<announces, connections, len, workerVars, server>>

\* Mutation of Take: a task no longer counts once a worker has it.
TakeCounted(w) ==
  /\ Running /\ at[w] = "idle" /\ queue # <<>>
  /\ task' = [task EXCEPT ![w] = Head(queue)]
  /\ queue' = Tail(queue)
  /\ len' = len - 1
  /\ at' = [at EXCEPT ![w] = "begin"]
  /\ UNCHANGED <<requestVars, connections, attempted, server>>

Take(w) ==
  /\ Running /\ at[w] = "idle" /\ queue # <<>>
  /\ task' = [task EXCEPT ![w] = Head(queue)]
  /\ queue' = Tail(queue)
  /\ at' = [at EXCEPT ![w] = "begin"]
  /\ UNCHANGED <<requestVars, connections, len, attempted, server>>

BeginTask(w) ==
  /\ Running /\ at[w] = "begin"
  /\ ConnectionFree
  /\ connections' = connections \cup {w}
  /\ at' = [at EXCEPT ![w] = "run"]
  /\ UNCHANGED <<requestVars, len, queue, task, attempted, server>>

\* Mutation of RunTask: a task that fails is put back.
RunAgain(w) ==
  /\ Running /\ at[w] = "run"
  /\ connections' = connections \ {w}
  /\ at' = [at EXCEPT ![w] = "count"]
  /\ attempted' = attempted \cup {task[w]}
  /\ queue' \in {queue} \cup IF Len(queue) < QueueSize THEN {Append(queue, task[w])} ELSE {}
  /\ UNCHANGED <<requestVars, len, task, server>>

\* A task runs to its end, fails or panics; it is never tried again, ...
RunTask(w) ==
  /\ Running /\ at[w] = "run"
  /\ connections' = connections \ {w}
  /\ at' = [at EXCEPT ![w] = "count"]
  /\ attempted' = attempted \cup {task[w]}
  /\ UNCHANGED <<requestVars, len, queue, task, server>>

\* ... nor is one that gets no transaction.
BeginFails(w) ==
  /\ Running /\ at[w] = "begin"
  /\ at' = [at EXCEPT ![w] = "count"]
  /\ attempted' = attempted \cup {task[w]}
  /\ UNCHANGED <<requestVars, connections, len, queue, task, server>>

Discount(w) ==
  /\ Running /\ at[w] = "count"
  /\ len' = len - 1
  /\ at' = [at EXCEPT ![w] = "idle"]
  /\ task' = [task EXCEPT ![w] = None]
  /\ UNCHANGED <<requestVars, connections, queue, attempted, server>>

\* SIGTERM: the web server closes its listeners ...
Signal ==
  /\ server = "serving"
  /\ server' = "closing"
  /\ UNCHANGED <<requestVars, connections, len, queue, workerVars>>

\* Mutation of WebShutdown: requests are not waited for.
WebClose ==
  /\ server = "closing"
  /\ server' = "draining"
  /\ UNCHANGED <<requestVars, connections, len, queue, workerVars>>

\* ... waits for its requests ...
WebShutdown ==
  /\ server = "closing"
  /\ \A r \in Request : ~Serving(r)
  /\ server' = "draining"
  /\ UNCHANGED <<requestVars, connections, len, queue, workerVars>>

\* ... then the worker for its tasks, and the process ends.
WorkerShutdown ==
  /\ server = "draining"
  /\ len = 0
  /\ server' = "stopped"
  /\ UNCHANGED <<requestVars, connections, len, queue, workerVars>>

\* Thirty seconds pass, or the process dies.
Die ==
  /\ Running
  /\ server' = "died"
  /\ UNCHANGED <<requestVars, connections, len, queue, workerVars>>

RequestStep(r) ==
  BeginTx(r) \/ Handle(r) \/ Commit(r) \/ Count(r) \/ Send(r)
WorkerStep(w) == Take(w) \/ BeginTask(w) \/ RunTask(w) \/ Discount(w)

Exited == ~Running /\ UNCHANGED vars

Next ==
  \/ \E r \in Request : Start(r) \/ RequestStep(r) \/ Rollback(r) \/ Cancel(r)
  \/ \E w \in Worker : WorkerStep(w) \/ BeginFails(w)
  \/ Signal \/ WebShutdown \/ WorkerShutdown \/ Die
  \/ Exited

Spec == Init /\ [][Next]_vars

\* Handlers and workers that are not blocked go on.
FairSpec ==
  /\ Spec
  /\ \A r \in Request : WF_vars(RequestStep(r))
  /\ \A w \in Worker : WF_vars(WorkerStep(w))
-----------------------------------------------------------------------------
(* Properties                                                              *)

\* Each variable has its type.
TypeOK ==
  /\ pc \in [Request -> {"idle", "begin", "handler", "commit", "count", "send", "done"}]
  /\ announces \subseteq Request /\ attempted \subseteq Request
  /\ connections \subseteq Request \cup Worker /\ Cardinality(connections) <= PoolSize
  /\ len \in Nat
  /\ queue \in Seq(Request) /\ Len(queue) <= QueueSize
  /\ at \in [Worker -> {"idle", "begin", "run", "count"}]
  /\ task \in [Worker -> Request \cup {None}]
  /\ server \in {"serving", "closing", "draining", "stopped", "died"}

Sending == {r \in Request : pc[r] = "send"}
Busy == {w \in Worker : at[w] # "idle"}

\* Shutdown looks at nothing but the counter, which is therefore never less
\* than what is on its way, in the queue, and with the workers (worker.go:106
\* counts before it sends, worker.go:75 after the task ran).
Counter == len = Cardinality(Sending) + Len(queue) + Cardinality(Busy)

Queued == {queue[i] : i \in 1 .. Len(queue)}
Taken == {task[w] : w \in Busy}

\* A task is in one place at a time, its request is over but for handing it
\* over, and nobody has attempted it before it was taken.
TasksRunOnce ==
  /\ \A i, j \in 1 .. Len(queue) : queue[i] = queue[j] => i = j
  /\ \A v, w \in Busy : task[v] = task[w] => v = w
  /\ Queued \cap (Taken \cup attempted) = {}
  /\ \A w \in Busy : task[w] \in attempted <=> at[w] = "count"
  /\ \A r \in Queued \cup Taken \cup attempted : r \in announces /\ pc[r] = "done"

\* Requests whose transaction is over and whose task was kept.
Accepted == {r \in announces : pc[r] \in {"count", "send", "done"}}

\* Stop returns without an error only when every task was attempted.
StopLosesNothing ==
  server = "stopped" => (\A r \in Request : ~Serving(r)) /\ Accepted = attempted

\* No task is attempted twice, and none is forgotten by a clean stop.
TasksKept == TasksRunOnce /\ StopLosesNothing

Service == IF Running THEN "open" ELSE IF server = "stopped" THEN "closed" ELSE "lost"
Promise == INSTANCE TaskService WITH Task <- Request, accepted <- Accepted, service <- Service

\* Counter, queue, workers and shutdown keep what handlers are promised.
KeepsPromise == Promise!Spec

\* A task that was accepted is attempted, unless the server dies: a full queue
\* holds up no connection that a worker needs.
TasksAttempted ==
  \A r \in Request : r \in Accepted ~> r \in attempted \/ server = "died"
=============================================================================
