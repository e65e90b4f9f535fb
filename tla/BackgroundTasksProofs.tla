------------------------ MODULE BackgroundTasksProofs ------------------------
(***************************************************************************)
(* Proofs about BackgroundTasks: the counter is exact, a task is attempted *)
(* at most once, and a clean stop loses none.                              *)
(***************************************************************************)
EXTENDS BackgroundTasks, FiniteSetTheorems, TLAPS

\* Where a request is tells whether it has a task, and where the task is.
Places ==
  /\ \A r \in Request : pc[r] \in {"idle", "begin", "handler"} => r \notin announces
  /\ \A r \in Request : pc[r] \in {"count", "send"} => r \in announces
  /\ \A w \in Worker : task[w] = None <=> at[w] = "idle"
  /\ \A r \in announces : pc[r] = "done" => r \in Queued \cup Taken \cup attempted
  /\ server \in {"draining", "stopped"} => \A r \in Request : ~Serving(r)
  /\ server = "stopped" => len = 0

IInv == TypeOK /\ Counter /\ TasksRunOnce /\ Places

USE SizesAssumption, FiniteAssumption, NamesAssumption
-----------------------------------------------------------------------------
\* Nothing happens before the first request.
LEMMA Initially == Init => IInv
<1> SUFFICES ASSUME Init PROVE IInv
  OBVIOUS
<1> USE DEF Init
<1>1. Sending = {} /\ Busy = {} /\ Queued = {} /\ Taken = {}
  BY DEF Sending, Busy, Queued, Taken
<1>2. Cardinality({}) = 0
  BY FS_EmptySet
<1>3. TypeOK
  BY <1>2 DEF TypeOK
<1> QED
  BY <1>1, <1>2, <1>3 DEF IInv, Counter, TasksRunOnce, Places

\* The sets that are counted are finite.
LEMMA FiniteParts ==
  ASSUME TypeOK
  PROVE  IsFiniteSet(connections) /\ IsFiniteSet(Sending) /\ IsFiniteSet(Busy)
<1>1. IsFiniteSet(Request \cup Worker)
  BY FS_Union
<1> QED
  BY <1>1, FS_Subset DEF TypeOK, Sending, Busy

\* A connection is only taken when one is free.
LEMMA PoolBounded ==
  ASSUME TypeOK, NEW x
  PROVE  /\ ConnectionFree => Cardinality(connections \cup {x}) <= PoolSize
         /\ Cardinality(connections \ {x}) <= PoolSize
<1>1. IsFiniteSet(connections)
  BY FiniteParts
<1>2. Cardinality(connections) \in Nat /\ Cardinality(connections) <= PoolSize
  BY <1>1, FS_CardinalityType DEF TypeOK
<1>3. Cardinality(connections \cup {x}) \in {Cardinality(connections), Cardinality(connections) + 1}
  BY <1>1, <1>2, FS_AddElement
<1>4. Cardinality(connections \ {x}) \in {Cardinality(connections), Cardinality(connections) - 1}
  BY <1>1, <1>2, FS_RemoveElement
<1> QED
  BY <1>2, <1>3, <1>4 DEF ConnectionFree

\* Every step keeps the types.
LEMMA TypesKept ==
  ASSUME IInv, Next
  PROVE  TypeOK'
<1> USE DEF IInv, TypeOK, requestVars, workerVars, goto
<1>1. ASSUME NEW r \in Request, Start(r) PROVE TypeOK'
  BY <1>1 DEF Start
<1>2. ASSUME NEW r \in Request, BeginTx(r) PROVE TypeOK'
  BY <1>2, PoolBounded DEF BeginTx
<1>3. ASSUME NEW r \in Request, Handle(r) PROVE TypeOK'
  BY <1>3 DEF Handle
<1>4. ASSUME NEW r \in Request, Commit(r) PROVE TypeOK'
  BY <1>4, PoolBounded DEF Commit
<1>5. ASSUME NEW r \in Request, Count(r) PROVE TypeOK'
  BY <1>5 DEF Count
<1>6. ASSUME NEW r \in Request, Send(r) PROVE TypeOK'
  BY <1>6 DEF Send
<1>7. ASSUME NEW r \in Request, Rollback(r) PROVE TypeOK'
  BY <1>7, PoolBounded DEF Rollback
<1>8. ASSUME NEW r \in Request, Cancel(r) PROVE TypeOK'
  BY <1>8, PoolBounded DEF Cancel
<1>9. ASSUME NEW w \in Worker, Take(w) PROVE TypeOK'
  BY <1>9 DEF Take
<1>10. ASSUME NEW w \in Worker, BeginTask(w) PROVE TypeOK'
  BY <1>10, PoolBounded DEF BeginTask
<1>11. ASSUME NEW w \in Worker, RunTask(w) PROVE TypeOK'
  <2>1. task[w] \in Request
    BY <1>11 DEF RunTask, Places
  <2> QED
    BY <1>11, <2>1, PoolBounded DEF RunTask
<1>12. ASSUME NEW w \in Worker, BeginFails(w) PROVE TypeOK'
  <2>1. task[w] \in Request
    BY <1>12 DEF BeginFails, Places
  <2> QED
    BY <1>12, <2>1 DEF BeginFails
<1>13. ASSUME NEW w \in Worker, Discount(w) PROVE TypeOK'
  <2>1. w \in Busy
    BY <1>13 DEF Discount, Busy
  <2>2. Cardinality(Busy) \in Nat /\ Cardinality(Busy) # 0
    BY <2>1, FiniteParts, FS_CardinalityType, FS_EmptySet
  <2>3. Cardinality(Sending) \in Nat /\ Len(queue) \in Nat
    BY FiniteParts, FS_CardinalityType
  <2>4. len - 1 \in Nat
    BY <2>2, <2>3 DEF Counter
  <2> QED
    BY <1>13, <2>4 DEF Discount
<1>14. CASE Signal \/ WebShutdown \/ WorkerShutdown \/ Die
  BY <1>14 DEF Signal, WebShutdown, WorkerShutdown, Die
<1>15. CASE Exited
  BY <1>15 DEF Exited, vars
<1> QED
  BY <1>1, <1>2, <1>3, <1>4, <1>5, <1>6, <1>7, <1>8, <1>9, <1>10, <1>11, <1>12, <1>13,
     <1>14, <1>15 DEF Next, RequestStep, WorkerStep

\* Adding or removing one element changes what is counted by one.
LEMMA CountedByOne ==
  ASSUME NEW S, IsFiniteSet(S), NEW x
  PROVE  /\ Cardinality(S) \in Nat
         /\ x \notin S => Cardinality(S \cup {x}) = Cardinality(S) + 1
         /\ x \in S => Cardinality(S \ {x}) = Cardinality(S) - 1
  BY FS_CardinalityType, FS_AddElement, FS_RemoveElement

\* The counter stays exact: a task is counted before it is sent, and until it
\* was attempted.
LEMMA CounterKept ==
  ASSUME IInv, Next
  PROVE  Counter'
<1> USE DEF IInv, requestVars, workerVars, goto
<1>1. /\ IsFiniteSet(Sending) /\ IsFiniteSet(Busy)
      /\ Cardinality(Sending) \in Nat /\ Cardinality(Busy) \in Nat
      /\ queue \in Seq(Request) /\ Len(queue) \in Nat /\ len \in Nat
      /\ len = Cardinality(Sending) + Len(queue) + Cardinality(Busy)
  <2>1. IsFiniteSet(Sending) /\ IsFiniteSet(Busy)
    BY FiniteParts
  <2>2. Cardinality(Sending) \in Nat /\ Cardinality(Busy) \in Nat
    BY <2>1, CountedByOne
  <2>3. queue \in Seq(Request) /\ len \in Nat
    BY DEF TypeOK
  <2>4. Len(queue) \in Nat
    BY <2>3
  <2> QED
    BY <2>1, <2>2, <2>3, <2>4 DEF Counter
<1>2. ASSUME Sending' = Sending, Busy' = Busy, UNCHANGED <<len, queue>>
      PROVE  Counter'
  BY <1>1, <1>2 DEF Counter
<1>3. ASSUME NEW r \in Request,
             Start(r) \/ BeginTx(r) \/ Handle(r) \/ Commit(r) \/ Rollback(r) \/ Cancel(r)
      PROVE  Counter'
  <2>1. Sending' = Sending
    BY <1>3 DEF Sending, TypeOK, Start, BeginTx, Handle, Commit, Rollback, Cancel
  <2>2. Busy' = Busy /\ UNCHANGED <<len, queue>>
    BY <1>3 DEF Busy, Start, BeginTx, Handle, Commit, Rollback, Cancel
  <2> QED
    BY <2>1, <2>2, <1>2
<1>4. ASSUME NEW r \in Request, Count(r) PROVE Counter'
  <2>1. Sending' = Sending \cup {r} /\ r \notin Sending
    BY <1>4 DEF Count, Sending, TypeOK
  <2>2. Busy' = Busy /\ queue' = queue /\ len' = len + 1
    BY <1>4 DEF Count, Busy
  <2>3. Cardinality(Sending') = Cardinality(Sending) + 1
    BY <2>1, <1>1, CountedByOne
  <2> QED
    BY <2>2, <2>3, <1>1 DEF Counter
<1>5. ASSUME NEW r \in Request, Send(r) PROVE Counter'
  <2>1. Sending' = Sending \ {r} /\ r \in Sending
    BY <1>5 DEF Send, Sending, TypeOK
  <2>2. Busy' = Busy /\ len' = len /\ Len(queue') = Len(queue) + 1
    BY <1>5, <1>1 DEF Send, Busy
  <2>3. Cardinality(Sending') = Cardinality(Sending) - 1
    BY <2>1, <1>1, CountedByOne
  <2> QED
    BY <2>2, <2>3, <1>1 DEF Counter
<1>6. ASSUME NEW w \in Worker, Take(w) PROVE Counter'
  <2>1. Busy' = Busy \cup {w} /\ w \notin Busy
    BY <1>6 DEF Take, Busy, TypeOK
  <2>2. Sending' = Sending /\ len' = len /\ Len(queue') = Len(queue) - 1
    BY <1>6, <1>1 DEF Take, Sending
  <2>3. Cardinality(Busy') = Cardinality(Busy) + 1
    BY <2>1, <1>1, CountedByOne
  <2> QED
    BY <2>2, <2>3, <1>1 DEF Counter
<1>7. ASSUME NEW w \in Worker, BeginTask(w) \/ RunTask(w) \/ BeginFails(w) PROVE Counter'
  <2>1. Busy' = Busy
    BY <1>7 DEF Busy, TypeOK, BeginTask, RunTask, BeginFails
  <2>2. Sending' = Sending /\ UNCHANGED <<len, queue>>
    BY <1>7 DEF Sending, BeginTask, RunTask, BeginFails
  <2> QED
    BY <2>1, <2>2, <1>2
<1>8. ASSUME NEW w \in Worker, Discount(w) PROVE Counter'
  <2>1. Busy' = Busy \ {w} /\ w \in Busy
    BY <1>8 DEF Discount, Busy, TypeOK
  <2>2. Sending' = Sending /\ queue' = queue /\ len' = len - 1
    BY <1>8 DEF Discount, Sending
  <2>3. Cardinality(Busy') = Cardinality(Busy) - 1
    BY <2>1, <1>1, CountedByOne
  <2> QED
    BY <2>2, <2>3, <1>1 DEF Counter
<1>9. CASE Signal \/ WebShutdown \/ WorkerShutdown \/ Die \/ Exited
  <2>1. Sending' = Sending /\ Busy' = Busy /\ UNCHANGED <<len, queue>>
    BY <1>9 DEF Signal, WebShutdown, WorkerShutdown, Die, Exited, vars, Sending, Busy
  <2> QED
    BY <2>1, <1>2
<1> QED
  BY <1>3, <1>4, <1>5, <1>6, <1>7, <1>8, <1>9 DEF Next, RequestStep, WorkerStep

Elements(s) == {s[i] : i \in 1 .. Len(s)}

\* What Append and Tail do to the elements of a sequence without repetitions.
LEMMA Sent ==
  ASSUME NEW q \in Seq(Request), NEW r \in Request,
         \A i, j \in 1 .. Len(q) : q[i] = q[j] => i = j
  PROVE  /\ Elements(Append(q, r)) = Elements(q) \cup {r}
         /\ r \notin Elements(q) =>
              \A i, j \in 1 .. Len(Append(q, r)) : Append(q, r)[i] = Append(q, r)[j] => i = j
  BY DEF Elements

LEMMA Received ==
  ASSUME NEW q \in Seq(Request), q # <<>>,
         \A i, j \in 1 .. Len(q) : q[i] = q[j] => i = j
  PROVE  /\ Elements(Tail(q)) = Elements(q) \ {Head(q)} /\ Head(q) \in Elements(q)
         /\ \A i, j \in 1 .. Len(Tail(q)) : Tail(q)[i] = Tail(q)[j] => i = j
<1>1. Len(q) \in Nat \ {0} /\ Head(q) = q[1] /\ Len(Tail(q)) = Len(q) - 1
  OBVIOUS
<1>2. \A i \in 1 .. Len(q) - 1 : Tail(q)[i] = q[i + 1]
  OBVIOUS
<1>3. \A i \in 1 .. Len(q) : i = 1 \/ i - 1 \in 1 .. Len(q) - 1
  BY <1>1
<1>4. \A i \in 1 .. Len(q) - 1 : i + 1 \in 1 .. Len(q) /\ i + 1 # 1
  BY <1>1
<1>5. \A i, j \in 1 .. Len(Tail(q)) : Tail(q)[i] = Tail(q)[j] => i = j
  BY <1>1, <1>2, <1>4
<1>6. ASSUME NEW x, x \in {q[i] : i \in 1 .. Len(q)} \ {Head(q)}
      PROVE  x \in {Tail(q)[i] : i \in 1 .. Len(Tail(q))}
  <2>1. PICK i \in 1 .. Len(q) : x = q[i] /\ i # 1
    BY <1>6, <1>1
  <2>2. i - 1 \in 1 .. Len(q) - 1 /\ Tail(q)[i - 1] = q[i]
    BY <2>1, <1>1, <1>2, <1>3
  <2> QED
    BY <2>1, <2>2, <1>1
<1>7. ASSUME NEW x, x \in {Tail(q)[i] : i \in 1 .. Len(Tail(q))}
      PROVE  x \in {q[i] : i \in 1 .. Len(q)} \ {Head(q)}
  <2>1. PICK i \in 1 .. Len(q) - 1 : x = q[i + 1]
    BY <1>7, <1>1, <1>2
  <2> QED
    BY <2>1, <1>1, <1>4
<1>8. Head(q) \in {q[i] : i \in 1 .. Len(q)}
  BY <1>1
<1> QED
  BY <1>5, <1>6, <1>7, <1>8 DEF Elements

\* A task passes from its request to the queue, to a worker, and to those that
\* were attempted; it is never in two places, and never lost.
LEMMA PlacesKept ==
  ASSUME IInv, Next
  PROVE  (TasksRunOnce /\ Places)'
<1> USE DEF IInv, requestVars, workerVars, goto
<1>1. ASSUME NEW r \in Request, Start(r) \/ BeginTx(r) \/ Handle(r) \/ Commit(r) \/ Rollback(r)
                               \/ Cancel(r) \/ Count(r)
      PROVE  (TasksRunOnce /\ Places)'
  <2>1. Queued' = Queued /\ Taken' = Taken /\ Busy' = Busy
    BY <1>1 DEF Queued, Taken, Busy, Start, BeginTx, Handle, Commit, Rollback, Cancel, Count
  <2>2. UNCHANGED <<queue, at, task, attempted, server>>
    BY <1>1 DEF Start, BeginTx, Handle, Commit, Rollback, Cancel, Count
  <2>3. /\ pc[r] # "done"
        /\ \A q \in Request \ {r} : pc'[q] = pc[q] /\ (q \in announces' <=> q \in announces)
    BY <1>1 DEF TypeOK, Start, BeginTx, Handle, Commit, Rollback, Cancel, Count
  <2>4. TasksRunOnce'
    <3>1. \A q \in Queued \cup Taken \cup attempted : q \in Request /\ q # r
      BY <2>3 DEF TasksRunOnce, TypeOK
    <3> QED
      BY <2>1, <2>2, <2>3, <3>1 DEF TasksRunOnce
  <2>5. Places'
    <3>1. /\ pc'[r] \in {"idle", "begin", "handler"} => r \notin announces'
          /\ pc'[r] \in {"count", "send"} => r \in announces'
          /\ pc'[r] = "done" => r \notin announces'
      BY <1>1 DEF TypeOK, Places, Start, BeginTx, Handle, Commit, Rollback, Cancel, Count
    <3>2. server \notin {"draining", "stopped"}
      BY <1>1 DEF Places, Running, Serving, Start, BeginTx, Handle, Commit, Rollback, Cancel, Count
    <3>3. announces' \subseteq Request
      BY <1>1 DEF TypeOK, Start, BeginTx, Handle, Commit, Rollback, Cancel, Count
    <3> QED
      BY <2>1, <2>2, <2>3, <3>1, <3>2, <3>3 DEF Places
  <2> QED
    BY <2>4, <2>5
<1>2. ASSUME NEW r \in Request, Send(r) PROVE (TasksRunOnce /\ Places)'
  <2>1. Taken' = Taken /\ Busy' = Busy /\ UNCHANGED <<announces, at, task, attempted, server>>
    BY <1>2 DEF Taken, Busy, Send
  <2>2. r \notin Queued \cup Taken \cup attempted /\ r \in announces
    BY <1>2 DEF Send, TasksRunOnce, Places
  <2>3. queue \in Seq(Request)
    BY DEF TypeOK
  <2>4. Queued' = Queued \cup {r}
        /\ \A i, j \in 1 .. Len(queue') : queue'[i] = queue'[j] => i = j
    BY <1>2, <2>2, <2>3, Sent DEF Send, Queued, TasksRunOnce, Elements
  <2>5. pc' = [pc EXCEPT ![r] = "done"] /\ pc[r] = "send" /\ pc'[r] = "done"
        /\ \A q \in Request \ {r} : pc'[q] = pc[q]
    BY <1>2 DEF Send, TypeOK
  <2>6. TasksRunOnce'
    BY <2>1, <2>2, <2>4, <2>5 DEF TasksRunOnce, TypeOK
  <2>7. server \notin {"draining", "stopped"}
    BY <2>5 DEF Places, Serving
  <2>8. Places'
    BY <2>1, <2>2, <2>4, <2>5, <2>7 DEF Places, TypeOK
  <2> QED
    BY <2>6, <2>8
<1>3. ASSUME NEW w \in Worker, Take(w) PROVE (TasksRunOnce /\ Places)'
  <2>1. UNCHANGED <<pc, announces, len, attempted, server>>
    BY <1>3 DEF Take
  <2>2. queue \in Seq(Request) /\ queue # <<>>
    BY <1>3 DEF TypeOK, Take
  <2>3. Queued' = Queued \ {Head(queue)} /\ Head(queue) \in Queued
        /\ \A i, j \in 1 .. Len(queue') : queue'[i] = queue'[j] => i = j
    <3>1. \A i, j \in 1 .. Len(queue) : queue[i] = queue[j] => i = j
      BY DEF TasksRunOnce
    <3>2. queue' = Tail(queue)
      BY <1>3 DEF Take
    <3>3. Queued = Elements(queue) /\ Queued' = Elements(Tail(queue))
      BY <3>2 DEF Queued, Elements
    <3>4. /\ Elements(Tail(queue)) = Elements(queue) \ {Head(queue)}
          /\ Head(queue) \in Elements(queue)
          /\ \A i, j \in 1 .. Len(Tail(queue)) : Tail(queue)[i] = Tail(queue)[j] => i = j
      BY <2>2, <3>1, Received
    <3> QED
      BY <3>2, <3>3, <3>4
  <2>4. /\ w \notin Busy /\ Busy' = Busy \cup {w}
        /\ task'[w] = Head(queue) /\ at'[w] = "begin"
        /\ \A v \in Worker \ {w} : task'[v] = task[v] /\ at'[v] = at[v]
    BY <1>3 DEF Take, Busy, TypeOK
  <2>5. Taken' = Taken \cup {Head(queue)}
    BY <2>4 DEF Taken, Busy
  <2>6. Head(queue) \in Request /\ Head(queue) \notin Taken \cup attempted
    BY <2>2, <2>3 DEF TasksRunOnce
  <2>7. TasksRunOnce'
    <3>1. \A u, v \in Busy' : task'[u] = task'[v] => u = v
      BY <2>4, <2>6 DEF TasksRunOnce, Taken, Busy
    <3>2. Queued' \cap (Taken' \cup attempted') = {}
      BY <2>1, <2>3, <2>5, <2>6 DEF TasksRunOnce
    <3>3. \A v \in Busy' : task'[v] \in attempted' <=> at'[v] = "count"
      BY <2>1, <2>4, <2>6 DEF TasksRunOnce, Busy
    <3>4. \A r \in Queued' \cup Taken' \cup attempted' : r \in announces' /\ pc'[r] = "done"
      BY <2>1, <2>3, <2>5 DEF TasksRunOnce
    <3> QED
      BY <2>3, <3>1, <3>2, <3>3, <3>4 DEF TasksRunOnce
  <2>8. Places'
    BY <2>1, <2>3, <2>4, <2>5, <2>6 DEF Places, Serving
  <2> QED
    BY <2>7, <2>8
<1>4. ASSUME NEW w \in Worker, BeginTask(w) PROVE (TasksRunOnce /\ Places)'
  <2>1. UNCHANGED <<pc, announces, len, queue, task, attempted, server>>
    BY <1>4 DEF BeginTask
  <2>2. Busy' = Busy /\ at'[w] = "run" /\ at[w] = "begin"
        /\ \A v \in Worker \ {w} : at'[v] = at[v]
    BY <1>4 DEF BeginTask, Busy, TypeOK
  <2>3. Queued' = Queued /\ Taken' = Taken
    BY <2>1, <2>2 DEF Queued, Taken
  <2> QED
    BY <2>1, <2>2, <2>3 DEF TasksRunOnce, Places, Busy, Serving
<1>5. ASSUME NEW w \in Worker, RunTask(w) \/ BeginFails(w) PROVE (TasksRunOnce /\ Places)'
  <2>1. UNCHANGED <<pc, announces, len, queue, task, server>>
    BY <1>5 DEF RunTask, BeginFails
  <2>2. Busy' = Busy /\ at'[w] = "count" /\ w \in Busy /\ at[w] # "count" /\ attempted' = attempted \cup {task[w]}
        /\ \A v \in Worker \ {w} : at'[v] = at[v]
    BY <1>5 DEF RunTask, BeginFails, Busy, TypeOK
  <2>3. Queued' = Queued /\ Taken' = Taken /\ task[w] \in Taken
    BY <2>1, <2>2 DEF Queued, Taken
  <2>4. TasksRunOnce'
    BY <2>1, <2>2, <2>3 DEF TasksRunOnce, Busy
  <2>5. Places'
    BY <2>1, <2>2, <2>3 DEF Places, Busy, Serving
  <2> QED
    BY <2>4, <2>5
<1>6. ASSUME NEW w \in Worker, Discount(w) PROVE (TasksRunOnce /\ Places)'
  <2>1. UNCHANGED <<pc, announces, queue, attempted, server>>
    BY <1>6 DEF Discount
  <2>2. /\ Busy' = Busy \ {w} /\ w \in Busy /\ at[w] = "count"
        /\ task'[w] = None /\ at'[w] = "idle"
        /\ \A v \in Worker \ {w} : task'[v] = task[v] /\ at'[v] = at[v]
    BY <1>6 DEF Discount, Busy, TypeOK
  <2>3. task[w] \in attempted
    BY <2>2 DEF TasksRunOnce
  <2>4. Taken' \subseteq Taken /\ Taken \subseteq Taken' \cup {task[w]} /\ Queued' = Queued
    BY <2>1, <2>2 DEF Taken, Busy, Queued
  <2>5. TasksRunOnce'
    BY <2>1, <2>2, <2>4 DEF TasksRunOnce, Busy
  <2>6. server = "stopped" => FALSE
    BY <1>6 DEF Discount, Running
  <2>7. Places'
    BY <2>1, <2>2, <2>3, <2>4, <2>6 DEF Places, Serving
  <2> QED
    BY <2>5, <2>7
<1>7. CASE Signal \/ WebShutdown \/ WorkerShutdown \/ Die \/ Exited
  <2>1. Queued' = Queued /\ Taken' = Taken /\ Busy' = Busy
        /\ UNCHANGED <<pc, announces, len, queue, at, task, attempted>>
    BY <1>7 DEF Queued, Taken, Busy, Signal, WebShutdown, WorkerShutdown, Die, Exited, vars
  <2>2. TasksRunOnce'
    BY <2>1 DEF TasksRunOnce
  <2>3. /\ server' \in {"draining", "stopped"} => \A r \in Request : ~Serving(r)
        /\ server' = "stopped" => len = 0
    BY <1>7 DEF Signal, WebShutdown, WorkerShutdown, Die, Exited, vars, Places
  <2>4. Places'
    BY <2>1, <2>3 DEF Places, Serving
  <2> QED
    BY <2>2, <2>4
<1> QED
  BY <1>1, <1>2, <1>3, <1>4, <1>5, <1>6, <1>7 DEF Next, RequestStep, WorkerStep

LEMMA NextKeeps == IInv /\ [Next]_vars => IInv'
<1>1. CASE Next
  BY <1>1, TypesKept, CounterKept, PlacesKept DEF IInv
<1>2. CASE UNCHANGED vars
  BY <1>2 DEF vars, IInv, TypeOK, Counter, TasksRunOnce, Places, Sending, Busy, Queued, Taken,
              Serving, requestVars, workerVars
<1> QED
  BY <1>1, <1>2
-----------------------------------------------------------------------------
\* The inductive invariant of everything below.
THEOREM Invariant == Spec => []IInv
  BY Initially, NextKeeps, PTL DEF Spec

\* Every variable keeps its type, and the pool its bound.
THEOREM TaskTypes == Spec => []TypeOK
<1>1. IInv => TypeOK
  BY DEF IInv
<1> QED
  BY <1>1, Invariant, PTL

\* The counter that Shutdown polls is exact at every instant.
THEOREM CounterExact == Spec => []Counter
<1>1. IInv => Counter
  BY DEF IInv
<1> QED
  BY <1>1, Invariant, PTL

\* No task is attempted twice.
THEOREM AttemptedOnce == Spec => []TasksRunOnce
<1>1. IInv => TasksRunOnce
  BY DEF IInv
<1> QED
  BY <1>1, Invariant, PTL

\* When the counter is zero and no request is served, every task that was
\* accepted has been attempted.
LEMMA NothingLeft ==
  ASSUME IInv, len = 0, \A r \in Request : ~Serving(r)
  PROVE  Accepted = attempted
<1> USE DEF IInv
<1>1. IsFiniteSet(Sending) /\ IsFiniteSet(Busy)
  BY FiniteParts
<1>2. Cardinality(Sending) \in Nat /\ Cardinality(Busy) \in Nat
  BY <1>1, CountedByOne
<1>3. queue \in Seq(Request)
  BY DEF TypeOK
<1>4. Len(queue) \in Nat
  BY <1>3
<1>5. Cardinality(Busy) = 0 /\ Len(queue) = 0
  BY <1>2, <1>4 DEF Counter
<1>6. Busy = {}
  BY <1>5, <1>1, FS_EmptySet
<1>7. Queued = {} /\ Taken = {}
  <2>1. 1 .. Len(queue) = {}
    BY <1>5
  <2> QED
    BY <2>1, <1>6 DEF Queued, Taken
<1>8. Accepted \subseteq attempted
  <2>1. \A r \in Accepted : r \in announces /\ r \in Request /\ pc[r] = "done"
    BY DEF Accepted, Serving, TypeOK
  <2> QED
    BY <2>1, <1>7 DEF Places
<1>9. attempted \subseteq Accepted
  BY DEF Accepted, TasksRunOnce
<1> QED
  BY <1>8, <1>9

\* A clean stop loses no task.
THEOREM CleanStop == Spec => []StopLosesNothing
<1>1. IInv => StopLosesNothing
  BY NothingLeft DEF StopLosesNothing, IInv, Places
<1> QED
  BY <1>1, Invariant, PTL

\* Tasks are attempted once, and a clean stop forgets none.
THEOREM TasksAreKept == Spec => []TasksKept
  BY AttemptedOnce, CleanStop, PTL DEF TasksKept

\* Every step is one of the abstract service, or changes nothing of it.
LEMMA StepKeepsPromise ==
  ASSUME IInv, [Next]_vars
  PROVE  [Promise!Next]_(Promise!vars)
<1> USE DEF IInv, requestVars, workerVars, goto
<1> USE DEF Promise!vars, Promise!Next
<1>1. ASSUME NEW r \in Request,
             Start(r) \/ BeginTx(r) \/ Handle(r) \/ Rollback(r) \/ Cancel(r) \/ Count(r) \/ Send(r)
      PROVE  UNCHANGED Promise!vars
  <2>1. UNCHANGED <<attempted, server>>
    BY <1>1 DEF Start, BeginTx, Handle, Rollback, Cancel, Count, Send
  <2>2. \A q \in Request \ {r} : pc'[q] = pc[q] /\ (q \in announces' <=> q \in announces)
    BY <1>1 DEF TypeOK, Start, BeginTx, Handle, Rollback, Cancel, Count, Send
  <2>3. r \in Accepted <=> r \in Accepted'
    BY <1>1 DEF TypeOK, Places, Accepted, Start, BeginTx, Handle, Rollback, Cancel, Count, Send
  <2>4. announces \subseteq Request /\ announces' \subseteq Request
    BY <1>1 DEF TypeOK, Start, BeginTx, Handle, Rollback, Cancel, Count, Send
  <2>5. Accepted' = Accepted
    BY <2>2, <2>3, <2>4 DEF Accepted
  <2> QED
    BY <2>1, <2>5 DEF Service, Running
<1>2. ASSUME NEW r \in Request, Commit(r) PROVE [Promise!Next]_(Promise!vars)
  <2>1. UNCHANGED <<announces, attempted, server>> /\ Service = "open" /\ Service' = "open"
    BY <1>2 DEF Commit, Service, Running
  <2>2. /\ \A q \in Request \ {r} : pc'[q] = pc[q]
        /\ pc[r] = "commit" /\ pc'[r] = IF r \in announces THEN "count" ELSE "done"
    BY <1>2 DEF TypeOK, Commit
  <2>3. r \notin Accepted /\ Accepted' = IF r \in announces THEN Accepted \cup {r} ELSE Accepted
    BY <2>1, <2>2 DEF Accepted, TypeOK
  <2>4. CASE r \in announces
    <3>1. Promise!Accept(r)
      BY <2>1, <2>3, <2>4 DEF Promise!Accept
    <3> QED
      BY <3>1
  <2>5. CASE r \notin announces
    BY <2>1, <2>3, <2>5
  <2> QED
    BY <2>4, <2>5
<1>3. ASSUME NEW w \in Worker, Take(w) \/ BeginTask(w) \/ Discount(w)
      PROVE  UNCHANGED Promise!vars
  BY <1>3 DEF Take, BeginTask, Discount, Accepted, Service, Running
<1>4. ASSUME NEW w \in Worker, RunTask(w) \/ BeginFails(w)
      PROVE  [Promise!Next]_(Promise!vars)
  <2>1. UNCHANGED <<pc, announces, server>> /\ attempted' = attempted \cup {task[w]}
    BY <1>4 DEF RunTask, BeginFails
  <2>2. w \in Busy /\ at[w] # "count" /\ Service = "open" /\ Service' = "open"
    BY <1>4 DEF RunTask, BeginFails, Busy, Service, Running
  <2>3. task[w] \in Taken /\ task[w] \notin attempted
    BY <2>2 DEF TasksRunOnce, Taken
  <2>4. task[w] \in Accepted /\ task[w] \in Request
    BY <2>3 DEF TasksRunOnce, Accepted, TypeOK
  <2>5. Accepted' = Accepted
    BY <2>1 DEF Accepted
  <2>6. Promise!Attempt(task[w])
    BY <2>1, <2>2, <2>3, <2>4, <2>5 DEF Promise!Attempt
  <2> QED
    BY <2>4, <2>6
<1>5. CASE Signal \/ WebShutdown \/ Exited \/ UNCHANGED vars
  BY <1>5 DEF Signal, WebShutdown, Exited, vars, Accepted, Service, Running
<1>6. CASE WorkerShutdown
  <2>1. Accepted = attempted
    BY <1>6, NothingLeft DEF WorkerShutdown, Places
  <2>2. Promise!Close
    BY <1>6, <2>1 DEF WorkerShutdown, Promise!Close, Accepted, Service, Running
  <2> QED
    BY <2>2
<1>7. CASE Die
  <2>1. Promise!Lose
    BY <1>7 DEF Die, Promise!Lose, Accepted, Service, Running
  <2> QED
    BY <2>1
<1> QED
  BY <1>1, <1>2, <1>3, <1>4, <1>5, <1>6, <1>7 DEF Next, RequestStep, WorkerStep

\* The queue, the counter, the workers and the shutdown implement the service.
THEOREM TasksImplement == Spec => KeepsPromise
<1>1. Init => Promise!Init
  BY DEF Init, Promise!Init, Accepted, Service, Running
<1> QED
  BY <1>1, StepKeepsPromise, Invariant, PTL DEF Spec, KeepsPromise, Promise!Spec
=============================================================================
