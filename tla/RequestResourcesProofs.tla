----------------------- MODULE RequestResourcesProofs -----------------------
(***************************************************************************)
(* Proofs about RequestResources: no resource outlives its request, and    *)
(* requests cannot wait for each other in a circle as long as files are    *)
(* not kept in the database.                                               *)
(***************************************************************************)
EXTENDS RequestResources, FiniteSetTheorems, TLAPS

Resources == TypeOK /\ Ownership

USE DEF AllKinds

\* Finishing a request forgets it; nothing it held is left.
LEMMA Initially == Init => Resources
  BY NoneAssumption, SizesAssumption
  DEF Init, Resources, TypeOK, Ownership

\* Every step keeps the types and the ownership of the resources.
LEMMA StepKeeps ==
  ASSUME Resources, NEW r \in Request, Step(r)
  PROVE  Resources'
<1> USE NoneAssumption, SizesAssumption, KindsAssumption
<1> USE DEF Resources, TypeOK, Ownership, goto, Serving
<1>1. CASE Start(r) BY <1>1 DEF Start
<1>2. CASE BeginTx(r) BY <1>2 DEF BeginTx
<1>3. CASE Acquire(r) BY <1>3 DEF Acquire
<1>4. CASE TakeSlot(r) BY <1>4 DEF TakeSlot
<1>5. CASE Hash(r) BY <1>5 DEF Hash, release
<1>6. CASE lockPasswordTenant(r) BY <1>6 DEF lockPasswordTenant
<1>7. CASE OpenFile(r) BY <1>7 DEF OpenFile
<1>8. CASE Transfer(r)
  <2>1. files[r] \in 1 .. MaxFiles
    <3>1. pc[r] = "transfer"
      BY <1>8 DEF Transfer
    <3>2. files[r] > 0
      BY <3>1
    <3>3. files[r] \in 0 .. MaxFiles
      OBVIOUS
    <3> QED
      BY ONLY <3>2, <3>3, SizesAssumption
  <2>2. files' \in [Request -> 0 .. MaxFiles] /\ files'[r] = files[r] - 1
    BY <1>8, <2>1 DEF Transfer
  <2>3. TypeOK'
    BY <1>8, <2>2 DEF Transfer
  <2>4. \A q \in Request \ {r} : files'[q] = files[q] /\ pc'[q] = pc[q]
    BY <1>8 DEF Transfer
  <2>5. pc'[r] \in {"file", "answer"} /\ (pc'[r] = "file" => files'[r] > 0)
    BY <1>8, <2>1, <2>2 DEF Transfer
  <2>6. UNCHANGED <<kind, queued, hashing, tenantLock, cancelled>>
    BY <1>8 DEF Transfer
  <2>7. pc[r] = "transfer" /\ connections' = connections \ {<<r, "file">>}
    BY <1>8 DEF Transfer
  <2>8. Ownership'
    BY <2>4, <2>5, <2>6, <2>7
  <2> QED
    BY <2>3, <2>8
<1>9. CASE Commit(r) BY <1>9 DEF Commit, EndTransaction
<1>10. CASE Return(r) BY <1>10 DEF Return, release, Finish
<1>11. CASE Unwind(r) BY <1>11 DEF Unwind, release
<1>12. CASE End(r) BY <1>12 DEF End, EndTransaction, Finish
<1>13. CASE Aborted(r) BY <1>13 DEF Aborted
<1>14. CASE Cancel(r) BY <1>14 DEF Cancel, EndTransaction
<1>15. CASE Fail(r) BY <1>15 DEF Fail
<1> QED
  BY <1>1, <1>2, <1>3, <1>4, <1>5, <1>6, <1>7, <1>8, <1>9, <1>10, <1>11, <1>12,
     <1>13, <1>14, <1>15 DEF Step, Progress

\* A step of the whole system.
LEMMA NextKeeps == Resources /\ [Next]_vars => Resources'
<1> SUFFICES ASSUME Resources, [Next]_vars PROVE Resources'
  OBVIOUS
<1>1. CASE \E r \in Request : Step(r)
  BY <1>1, StepKeeps
<1>2. CASE UNCHANGED vars
  BY <1>2 DEF Resources, TypeOK, Ownership, vars
<1> QED
  BY <1>1, <1>2 DEF Next, Quiet

\* The variables keep their types.
THEOREM ResourceTypes == Spec => []TypeOK
<1>1. Resources => TypeOK
  BY DEF Resources
<1> QED
  BY <1>1, Initially, NextKeeps, PTL DEF Spec

\* Connections, slots and the lock end with their request (setup.go:127,
\* password.go:119): a request that was answered holds nothing.
THEOREM ResourcesEnd == Spec => []Ownership
<1>1. Resources => Ownership
  BY DEF Resources
<1> QED
  BY <1>1, Initially, NextKeeps, PTL DEF Spec

\* Whoever is blocked waits for somebody further on in the order connection,
\* slot, lock; and whoever holds the lock waits for nobody.
LEMMA SomebodyGoesOn ==
  ASSUME Resources, ~SqlBlobs PROVE NoCircularWait
<1> USE NoneAssumption, SizesAssumption DEF Resources, TypeOK, Ownership, Serving, Blocked
<1> SUFFICES ASSUME NEW s \in Request, Serving(s),
                    \A r \in Request : Serving(r) => Blocked(r)
             PROVE  FALSE
  BY DEF NoCircularWait
<1>1. tenantLock = None
  OBVIOUS
<1>2. hashing = {}
  <2> SUFFICES ASSUME NEW r \in hashing PROVE FALSE
    OBVIOUS
  <2> QED
    BY <1>1
<1>3. Cardinality(hashing) < Slots
  BY <1>2, FS_EmptySet
<1>4. \A r \in Request : pc[r] \in {"slot", "lock"} => ~Blocked(r)
  BY <1>1, <1>3
<1>5. connections = {}
  <2> SUFFICES ASSUME NEW c \in connections PROVE FALSE
    OBVIOUS
  <2> PICK r \in Request, use \in {"request", "file"} : c = <<r, use>>
    OBVIOUS
  <2>1. pc[r] \notin {"idle", "begin", "done"}
    BY DEF Resources
  <2> QED
    BY <1>4, <2>1
<1>6. ConnectionFree
  BY <1>5, FS_EmptySet DEF ConnectionFree
<1> QED
  BY <1>1, <1>3, <1>6

\* Without files in the database no set of requests, however large, waits for
\* each other in a circle (password.go:20, limiter.go:84, setup.go:118).
THEOREM NoDeadlock == ASSUME ~SqlBlobs PROVE Spec => []NoCircularWait
<1>1. Resources => NoCircularWait
  BY SomebodyGoesOn
<1> QED
  BY <1>1, Initially, NextKeeps, PTL DEF Spec

\* With files in the database, one connection more than there are requests at
\* a time is enough: then the request that stores a file finds one.
LEMMA SpareConnection ==
  ASSUME Resources, IsFiniteSet(Request), Cardinality(Request) < PoolSize
  PROVE  NoCircularWait
<1> USE NoneAssumption, SizesAssumption DEF Resources, TypeOK, Ownership, Serving, Blocked
<1> SUFFICES ASSUME NEW s \in Request, Serving(s),
                    \A r \in Request : Serving(r) => Blocked(r)
             PROVE  FALSE
  BY DEF NoCircularWait
<1>1. \A r \in Request : <<r, "file">> \notin connections
  OBVIOUS
<1>2. ConnectionFree
  <2> DEFINE owner == [c \in connections |-> c[1]]
  <2>1. \A c \in connections : c = <<c[1], "request">> /\ c[1] \in Request
    BY <1>1
  <2>2. owner \in Injection(connections, Request)
    BY <2>1 DEF Injection, IsInjective
  <2>3. IsFiniteSet(connections) /\ Cardinality(connections) <= Cardinality(Request)
    BY <2>2, FS_Injection
  <2>4. Cardinality(connections) \in Nat /\ Cardinality(Request) \in Nat
    BY <2>3, FS_CardinalityType
  <2> QED
    BY <2>3, <2>4 DEF ConnectionFree
<1>3. tenantLock = None
  BY <1>2
<1>4. hashing = {}
  BY <1>2, <1>3
<1>5. Cardinality(hashing) < Slots
  BY <1>4, FS_EmptySet
<1> QED
  BY <1>2, <1>3, <1>5

\* A pool larger than the number of concurrent requests never deadlocks, the
\* file store included.
THEOREM NoDeadlockWithSpareConnection ==
  ASSUME IsFiniteSet(Request), Cardinality(Request) < PoolSize
  PROVE  Spec => []NoCircularWait
<1>1. Resources => NoCircularWait
  BY SpareConnection
<1> QED
  BY <1>1, Initially, NextKeeps, PTL DEF Spec
=============================================================================
