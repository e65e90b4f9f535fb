------------------------------ MODULE SiteProofs ------------------------------
(***************************************************************************)
(* Proofs about Site, for any number of servers, releases, sites,          *)
(* operators, administrators, checkouts and deliveries.  In their order:   *)
(* migrations are applied once and in order; one site is created; a        *)
(* checkout is billed once; each variable has its type, and a row is       *)
(* locked by who is at work on it; host names lead to the sites that own   *)
(* them; a plan shown as paid is backed.                                   *)
(***************************************************************************)
EXTENDS Site, FiniteSetTheorems, WellFoundedInduction, TLAPS

USE VersionAssumption

\* Nothing is applied before a file that comes earlier in some image.
Closed ==
  \A r \in Runner : \A v \in files[r], w \in Range(schema) : v < w => v \in Range(schema)

\* What the history does not record is older than all it does.
Recorded ==
  /\ history \subseteq Range(schema)
  /\ legacy # 0 => legacy \in Range(schema)
  /\ \A x \in Range(schema) \ history : x <= legacy /\ \A h \in history : x < h
  /\ history # {} => schema # << >> /\ schema[Len(schema)] \in history

\* A process has everything up to its last version behind it, and what it is
\* about to commit is not there yet.
Progress(r) ==
  /\ runner[r].pc \in {"next", "insert", "commit", "done"} =>
       /\ \A u \in files[r] : u <= runner[r].last => u \in Range(schema)
       /\ \A x \in Range(schema) \ history : x <= runner[r].last
  /\ runner[r].pc \in {"insert", "commit"} => todo(r) # {}
  /\ runner[r].pc = "done" => todo(r) = {}
  /\ runner[r].pc = "commit" =>
       /\ next(r) \notin history
       /\ \A s \in Runner \ {r} : runner[s].pc = "commit" => next(s) # next(r)

MigrationInv ==
  /\ MigrationTypeOK /\ AppliedInOrder /\ Closed /\ Recorded
  /\ \A r \in Runner : Progress(r)
-----------------------------------------------------------------------------
\* Versions, and what stands for none, are numbers.
LEMMA VersionNumbers == Version \cup {0} \subseteq Nat
  OBVIOUS

\* A set of numbers has a least one: the intervals below its elements are
\* finite sets, ordered by inclusion.
LEMMA LeastNatural ==
  ASSUME NEW T, T \subseteq Nat, T # {}
  PROVE  \E x \in T : \A y \in T : x <= y
<1> DEFINE Below == {0 .. t : t \in T}
<1>1. Below \subseteq FiniteSubsetsOf(Nat)
  <2> SUFFICES ASSUME NEW t \in T PROVE 0 .. t \in FiniteSubsetsOf(Nat)
    OBVIOUS
  <2>1. IsFiniteSet(0 .. t)
    BY FS_Interval
  <2> QED
    BY <2>1 DEF FiniteSubsetsOf
<1>2. Below # {}
  OBVIOUS
<1> HIDE DEF Below
<1>3. PICK b \in Below : \A c \in Below : ~(<<c, b>> \in StrictSubsetOrdering(Nat))
  BY <1>1, <1>2, FS_StrictSubsetOrderingWellFounded, WFMin, Zenon
<1>4. PICK x \in T : b = 0 .. x
  BY <1>3 DEF Below
<1>5. ASSUME NEW y \in T, ~(x <= y) PROVE FALSE
  <2>1. 0 .. y \in Below
    BY DEF Below
  <2>2. 0 .. y \subseteq b /\ x \in b /\ x \notin 0 .. y /\ b \subseteq Nat
    BY <1>4, <1>5
  <2>3. <<0 .. y, b>> \in StrictSubsetOrdering(Nat)
    BY <2>2 DEF StrictSubsetOrdering
  <2> QED
    BY <1>3, <2>1, <2>3
<1> QED
  BY <1>5

\* The files left to a process have a first one.
LEMMA FirstOfTodo ==
  ASSUME MigrationTypeOK, NEW r \in Runner, todo(r) # {}
  PROVE  /\ next(r) \in files[r] /\ next(r) \in Version /\ next(r) > runner[r].last
         /\ \A v \in files[r] : v > runner[r].last => next(r) <= v
<1>1. todo(r) \subseteq Nat /\ todo(r) \subseteq Version
  BY DEF todo, MigrationTypeOK
<1>2. PICK x \in todo(r) : \A y \in todo(r) : x <= y
  BY <1>1, LeastNatural
<1>3. next(r) \in todo(r) /\ \A y \in todo(r) : next(r) <= y
  BY <1>2 DEF next, Min
<1> QED
  BY <1>1, <1>3 DEF todo

\* The last of a sequence in order is its greatest element.
LEMMA LastIsGreatest ==
  ASSUME NEW s \in Seq(Version), InOrder(s), s # << >>
  PROVE  s[Len(s)] \in Range(s) /\ \A x \in Range(s) : x <= s[Len(s)]
<1>1. Len(s) \in DOMAIN s
  OBVIOUS
<1>2. ASSUME NEW i \in DOMAIN s PROVE s[i] <= s[Len(s)]
  <2>1. s[i] \in Version /\ s[Len(s)] \in Version
    BY <1>1
  <2>2. s[i] \in Nat /\ s[Len(s)] \in Nat
    BY <2>1
  <2>3. CASE i = Len(s)
    BY <2>2, <2>3
  <2>4. CASE i # Len(s)
    <3>1. i < Len(s)
      BY <2>4
    <3>2. s[i] < s[Len(s)]
      BY <1>1, <3>1 DEF InOrder
    <3> QED
      BY <2>2, <3>2
  <2> QED
    BY <2>3, <2>4
<1> QED
  BY <1>1, <1>2 DEF Range

\* It is what Max finds, in any part of the sequence that contains it.
LEMMA LastIsMax ==
  ASSUME NEW s \in Seq(Version), InOrder(s), NEW S, S \subseteq Range(s), s # << >>,
         s[Len(s)] \in S
  PROVE  Max(S) = s[Len(s)]
<1>1. \A x \in S : x <= s[Len(s)]
  BY LastIsGreatest
<1>2. Range(s) \subseteq Version
  BY DEF Range
<1>3. S \subseteq Nat
  BY <1>2
<1>4. \A x \in S : s[Len(s)] >= x
  BY <1>1, <1>3
<1>5. \A x \in S : x >= s[Len(s)] => x = s[Len(s)]
  <2> SUFFICES ASSUME NEW x \in S, x >= s[Len(s)] PROVE x = s[Len(s)]
    OBVIOUS
  <2>1. x \in Nat /\ s[Len(s)] \in Nat /\ x <= s[Len(s)]
    BY <1>1, <1>3
  <2> QED
    BY <2>1
<1>6. \E x \in S : \A y \in S : x >= y
  BY <1>4
<1>7. Max(S) \in S /\ \A y \in S : Max(S) >= y
  BY <1>6 DEF Max
<1> QED
  BY <1>5, <1>7

\* What an append adds.
LEMMA RangeOfAppend ==
  ASSUME NEW s \in Seq(Version), NEW v \in Version
  PROVE  Range(Append(s, v)) = Range(s) \cup {v}
<1>1. ASSUME NEW x \in Range(Append(s, v)) PROVE x \in Range(s) \cup {v}
  <2>1. PICK i \in 1 .. Len(s) + 1 : x = Append(s, v)[i]
    BY <1>1 DEF Range
  <2> QED
    BY <2>1 DEF Range
<1>2. ASSUME NEW x \in Range(s) PROVE x \in Range(Append(s, v))
  <2>1. PICK i \in 1 .. Len(s) : x = s[i]
    BY <1>2 DEF Range
  <2>2. i \in DOMAIN Append(s, v) /\ x = Append(s, v)[i]
    BY <2>1
  <2> QED
    BY <2>2 DEF Range
<1>3. v \in Range(Append(s, v))
  <2>1. Len(s) + 1 \in DOMAIN Append(s, v) /\ v = Append(s, v)[Len(s) + 1]
    OBVIOUS
  <2> QED
    BY <2>1 DEF Range
<1> QED
  BY <1>1, <1>2, <1>3

LEMMA MigrationInitially == Init => MigrationInv
<1> SUFFICES ASSUME Init PROVE MigrationInv
  OBVIOUS
<1>1. PICK s \in Scopes : MigrationInit(s.files, s.applied, s.recorded)
  BY DEF Init
<1>2. /\ s.files \in [Runner -> SUBSET Version] /\ Chained(s.files) /\ Later(s.files)
      /\ s.applied \in Seq(Version) /\ InOrder(s.applied)
      /\ \A r \in Runner : \A v \in s.files[r] \ Range(s.applied) :
           \A w \in Range(s.applied) : v > w
  BY ScopesAssumption
<1>3. /\ files = s.files /\ schema = s.applied
      /\ legacy = IF s.recorded \/ s.applied = << >> THEN 0 ELSE s.applied[Len(s.applied)]
      /\ history = IF s.recorded THEN Range(s.applied) ELSE {}
      /\ runner = [r \in Runner |-> [pc |-> "idle", last |-> 0]]
  BY <1>1 DEF MigrationInit
<1>4. Range(schema) \subseteq Version
  BY <1>2, <1>3 DEF Range
<1>5. schema # << >> => /\ schema[Len(schema)] \in Range(schema)
                        /\ \A x \in Range(schema) : x <= schema[Len(schema)]
  BY <1>2, <1>3, LastIsGreatest
<1>6. schema = << >> => Range(schema) = {}
  BY <1>2, <1>3 DEF Range
<1>7. MigrationTypeOK
  BY <1>2, <1>3, <1>4, <1>5 DEF MigrationTypeOK
<1>8. AppliedInOrder
  BY <1>2, <1>3 DEF AppliedInOrder
<1>9. Closed
  <2> SUFFICES ASSUME NEW r \in Runner, NEW v \in files[r], NEW w \in Range(schema), v < w,
                      v \notin Range(schema)
               PROVE  FALSE
    BY DEF Closed
  <2>1. v > w
    BY <1>2, <1>3
  <2>2. v \in Nat /\ w \in Nat
    BY <1>2, <1>3, <1>4
  <2> QED
    BY <2>1, <2>2
<1>10. Recorded
  BY <1>3, <1>5, <1>6 DEF Recorded
<1>11. \A r \in Runner : Progress(r)
  BY <1>3 DEF Progress
<1> QED
  BY <1>7, <1>8, <1>9, <1>10, <1>11 DEF MigrationInv

\* A process moves, and nothing is committed.
LEMMA MovesKeep ==
  ASSUME MigrationInv, NEW r \in Runner, NEW p,
         UNCHANGED <<files, legacy, history, schema>>,
         runner' = [runner EXCEPT ![r].pc = p],
         \/ p = "failed"
         \/ p = "insert" /\ runner[r].pc = "next" /\ todo(r) # {}
         \/ p = "done" /\ runner[r].pc = "next" /\ todo(r) = {}
         \/ /\ p = "commit" /\ runner[r].pc = "insert" /\ next(r) \notin history
            /\ \A s \in Runner : runner[s].pc = "commit" => next(s) # next(r)
  PROVE  MigrationInv'
<1> USE DEF MigrationInv
<1>1. runner \in [Runner -> [pc : {"idle", "next", "insert", "commit", "done", "failed"},
                            last : Version \cup {0}]]
  BY DEF MigrationTypeOK
<1>2. \A s \in Runner : runner'[s].last = runner[s].last
                       /\ runner'[s].pc = IF s = r THEN p ELSE runner[s].pc
  BY <1>1
<1>3. \A s \in Runner : todo(s)' = todo(s) /\ next(s)' = next(s)
  BY <1>2 DEF todo, next
<1>4. MigrationTypeOK'
  BY <1>1 DEF MigrationTypeOK, Chained, Later
<1>5. AppliedInOrder' /\ Closed' /\ Recorded'
  BY DEF AppliedInOrder, InOrder, Closed, Recorded
<1>6. ASSUME NEW s \in Runner PROVE Progress(s)'
  <2>1. Progress(s)
    OBVIOUS
  <2>2. CASE s = r
    BY <1>2, <1>3, <2>1, <2>2 DEF Progress
  <2>3. CASE s # r
    BY <1>2, <1>3, <2>1, <2>3 DEF Progress
  <2> QED
    BY <2>2, <2>3
<1> QED
  BY <1>4, <1>5, <1>6

\* Reading the last version: the greatest of the history, or the older table's.
LEMMA ReadsKeep ==
  ASSUME MigrationInv, NEW r \in Runner, getLastMigration(r)
  PROVE  MigrationInv'
<1> USE DEF MigrationInv
<1> DEFINE last == IF history = {} THEN legacy ELSE Max(history)
<1>1. /\ runner \in [Runner -> [pc : {"idle", "next", "insert", "commit", "done", "failed"},
                               last : Version \cup {0}]]
      /\ legacy \in Version \cup {0} /\ schema \in Seq(Version)
      /\ files \in [Runner -> SUBSET Version]
  BY DEF MigrationTypeOK
<1>2. runner' = [runner EXCEPT ![r] = [pc |-> "next", last |-> last]]
      /\ UNCHANGED <<files, legacy, history, schema>>
  BY DEF getLastMigration
<1>3. Range(schema) \subseteq Version
  BY <1>1 DEF Range
<1>4. last # 0 => last \in Range(schema)
  <2>1. CASE history = {}
    BY <2>1 DEF Recorded
  <2>2. CASE history # {}
    <3>1. Max(history) = schema[Len(schema)]
      BY <1>1, <2>2, LastIsMax DEF Recorded, AppliedInOrder
    <3> QED
      BY <2>2, <3>1 DEF Recorded
  <2> QED
    BY <2>1, <2>2
<1>5. last \in Version \cup {0}
  BY <1>3, <1>4
<1>6. \A u \in files[r] : u <= last => u \in Range(schema)
  <2> SUFFICES ASSUME NEW u \in files[r], u <= last PROVE u \in Range(schema)
    OBVIOUS
  <2>1. u \in Version /\ u \in Nat /\ u # 0
    BY <1>1
  <2> HIDE DEF last
  <2>2. last # 0 /\ last \in Nat
    <3>1. last \in Nat
      BY <1>5, VersionNumbers
    <3> QED
      BY <2>1, <3>1
  <2>3. u = last \/ u < last
    BY <2>1, <2>2
  <2>4. last \in Range(schema)
    BY <1>4, <2>2
  <2> QED
    BY <2>3, <2>4 DEF Closed
<1>7. \A x \in Range(schema) \ history : x <= last
  <2> SUFFICES ASSUME NEW x \in Range(schema) \ history PROVE x <= last
    OBVIOUS
  <2>1. CASE history = {}
    BY <2>1 DEF Recorded
  <2>2. CASE history # {}
    <3>1. Max(history) = schema[Len(schema)]
      BY <1>1, <2>2, LastIsMax DEF Recorded, AppliedInOrder
    <3>2. schema # << >> /\ InOrder(schema)
      BY <2>2 DEF Recorded, AppliedInOrder
    <3> QED
      BY <1>1, <2>2, <3>1, <3>2, LastIsGreatest
  <2> QED
    BY <2>1, <2>2
<1> HIDE DEF last
<1>8. MigrationTypeOK'
  BY <1>1, <1>2, <1>5 DEF MigrationTypeOK, Chained, Later
<1>9. AppliedInOrder' /\ Closed' /\ Recorded'
  BY <1>2 DEF AppliedInOrder, InOrder, Closed, Recorded
<1>10. \A s \in Runner : runner'[s] = IF s = r THEN [pc |-> "next", last |-> last] ELSE runner[s]
  BY <1>1, <1>2
<1>11. ASSUME NEW s \in Runner PROVE Progress(s)'
  <2>1. Progress(s)
    OBVIOUS
  <2>2. CASE s = r
    BY <1>2, <1>6, <1>7, <1>10, <2>2 DEF Progress
  <2>3. CASE s # r
    <3>1. \A q \in Runner \ {r} : todo(q)' = todo(q) /\ next(q)' = next(q)
      BY <1>2, <1>10 DEF todo, next
    <3> QED
      BY <1>2, <1>10, <2>1, <2>3, <3>1 DEF Progress
  <2> QED
    BY <2>2, <2>3
<1> QED
  BY <1>8, <1>9, <1>11

\* A commit appends the first file that is left, and nothing that comes before
\* it in any image is missing.
LEMMA CommitKeeps ==
  ASSUME MigrationInv, NEW r \in Runner, CommitMigration(r)
  PROVE  MigrationInv'
<1> USE DEF MigrationInv
<1> DEFINE v == next(r)
<1>1. /\ runner \in [Runner -> [pc : {"idle", "next", "insert", "commit", "done", "failed"},
                               last : Version \cup {0}]]
      /\ legacy \in Version \cup {0} /\ schema \in Seq(Version) /\ history \subseteq Version
      /\ files \in [Runner -> SUBSET Version] /\ Chained(files) /\ Later(files)
  BY DEF MigrationTypeOK
<1>2. /\ runner[r].pc = "commit" /\ todo(r) # {} /\ v \notin history
      /\ \A u \in files[r] : u <= runner[r].last => u \in Range(schema)
      /\ \A x \in Range(schema) \ history : x <= runner[r].last
      /\ \A s \in Runner \ {r} : runner[s].pc = "commit" => next(s) # v
  BY DEF CommitMigration, Progress
<1>3. /\ v \in files[r] /\ v \in Version /\ v > runner[r].last
      /\ \A u \in files[r] : u > runner[r].last => v <= u
  BY <1>2, FirstOfTodo
<1>4. /\ history' = history \cup {v} /\ schema' = Append(schema, v)
      /\ files' = files /\ legacy' = legacy
      /\ \/ runner' = [runner EXCEPT ![r] = [pc |-> "next", last |-> v]]
         \/ runner' = [runner EXCEPT ![r].pc = "failed"]
  BY DEF CommitMigration, move
<1> HIDE DEF v
<1>4a. v \in Nat /\ runner[r].last \in Nat
  <2>1. runner[r].last \in Version \cup {0}
    BY <1>1
  <2> QED
    BY <1>3, <2>1, VersionNumbers
<1>5. Range(schema) \subseteq Version /\ Range(schema)' = Range(schema) \cup {v}
  <2>1. Range(schema) \subseteq Version
    BY <1>1 DEF Range
  <2>2. Range(Append(schema, v)) = Range(schema) \cup {v}
    BY <1>1, <1>3, RangeOfAppend
  <2> QED
    BY <1>4, <2>1, <2>2
<1>6. v \notin Range(schema)
  <2> SUFFICES ASSUME v \in Range(schema) PROVE FALSE
    OBVIOUS
  <2>1. v <= runner[r].last
    BY <1>2
  <2>2. v \in Nat /\ runner[r].last \in Nat
    BY <1>4a
  <2> QED
    BY <1>3, <2>1, <2>2
<1>7. \A x \in Range(schema) : x < v
  <2> SUFFICES ASSUME NEW x \in Range(schema), ~(x < v) PROVE FALSE
    OBVIOUS
  <2>1. x \in Nat /\ v \in Nat /\ x # v
    BY <1>3, <1>5, <1>6
  <2>2. v < x
    BY <2>1
  <2> QED
    BY <1>3, <1>6, <2>2 DEF Closed
<1>8. ASSUME NEW s \in Runner, NEW u \in files[s], u < v PROVE u \in Range(schema)
  <2>1. u \in Nat /\ v \in Nat /\ runner[r].last \in Nat
    BY <1>1, <1>4a
  <2>2. u \in files[r]
    <3>1. CASE files[s] \subseteq files[r]
      BY <3>1
    <3>2. CASE files[r] \subseteq files[s]
      <4> SUFFICES ASSUME u \notin files[r] PROVE FALSE
        OBVIOUS
      <4>1. u > v
        BY <1>1, <1>3, <3>2 DEF Later
      <4> QED
        BY <1>8, <2>1, <4>1
    <3> QED
      BY <1>1, <3>1, <3>2 DEF Chained
  <2>3. u <= runner[r].last
    BY <1>3, <1>8, <2>1, <2>2
  <2> QED
    BY <1>2, <2>2, <2>3
<1>9. MigrationTypeOK'
  <2>1. Chained(files)' /\ Later(files)'
    BY <1>1, <1>4
  <2>2. runner' \in [Runner -> [pc : {"idle", "next", "insert", "commit", "done", "failed"},
                               last : Version \cup {0}]]
    <3>1. CASE runner' = [runner EXCEPT ![r] = [pc |-> "next", last |-> v]]
      BY <1>1, <1>3, <3>1
    <3>2. CASE runner' = [runner EXCEPT ![r].pc = "failed"]
      BY <1>1, <3>2
    <3> QED
      BY <1>4, <3>1, <3>2
  <2>3. schema' \in Seq(Version) /\ history' \subseteq Version
    BY <1>1, <1>3, <1>4
  <2> QED
    BY <1>1, <1>4, <2>1, <2>2, <2>3 DEF MigrationTypeOK
<1>10. AppliedInOrder'
  <2> SUFFICES ASSUME NEW i \in DOMAIN schema', NEW j \in DOMAIN schema', i < j
               PROVE  schema'[i] < schema'[j]
    BY DEF AppliedInOrder, InOrder
  <2>1. i \in 1 .. Len(schema) /\ schema'[i] = schema[i] /\ schema[i] \in Range(schema)
    BY <1>1, <1>3, <1>4 DEF Range
  <2>2. CASE j \in 1 .. Len(schema)
    BY <1>1, <1>3, <1>4, <2>1, <2>2 DEF AppliedInOrder, InOrder
  <2>3. CASE j = Len(schema) + 1
    BY <1>1, <1>3, <1>4, <1>7, <2>1, <2>3
  <2> QED
    BY <1>1, <1>3, <1>4, <2>2, <2>3
<1>11. Closed'
  <2> SUFFICES ASSUME NEW s \in Runner, NEW u \in files[s], NEW w \in Range(schema) \cup {v}, u < w
               PROVE  u \in Range(schema) \cup {v}
    BY <1>4, <1>5 DEF Closed
  <2>1. CASE w \in Range(schema)
    BY <2>1 DEF Closed
  <2>2. CASE w = v
    BY <1>8, <2>2
  <2> QED
    BY <2>1, <2>2
<1>12. Recorded'
  <2>1. schema'[Len(schema')] = v /\ schema' # << >>
    BY <1>1, <1>3, <1>4
  <2>2. Range(schema)' \ history' = Range(schema) \ history
    BY <1>4, <1>5, <1>6
  <2>3. \A x \in Range(schema) \ history : x <= legacy /\ \A h \in history' : x < h
    BY <1>4, <1>7 DEF Recorded
  <2> QED
    BY <1>4, <1>5, <2>1, <2>2, <2>3 DEF Recorded
<1>13. ASSUME NEW s \in Runner PROVE Progress(s)'
  <2>1. Progress(s)
    OBVIOUS
  <2>2. Range(schema)' \ history' = Range(schema) \ history
    BY <1>4, <1>5, <1>6
  <2>3. CASE s = r
    <3>1. CASE runner' = [runner EXCEPT ![r] = [pc |-> "next", last |-> v]]
      <4>1. runner'[r] = [pc |-> "next", last |-> v]
        BY <1>1, <3>1
      <4>2. \A u \in files[r] : u <= v => u \in Range(schema)'
        <5> SUFFICES ASSUME NEW u \in files[r], u <= v PROVE u \in Range(schema) \cup {v}
          BY <1>5
        <5>1. u \in Nat /\ v \in Nat
          BY <1>1, <1>3
        <5>2. u = v \/ u < v
          BY <5>1
        <5> QED
          BY <1>8, <5>2
      <4>3. \A x \in Range(schema) \ history : x <= v
        <5> SUFFICES ASSUME NEW x \in Range(schema) PROVE x <= v
          OBVIOUS
        <5>1. x < v /\ x \in Nat
          BY <1>5, <1>7
        <5> QED
          BY <1>4a, <5>1
      <4> QED
        BY <1>4, <2>2, <2>3, <4>1, <4>2, <4>3 DEF Progress
    <3>2. CASE runner' = [runner EXCEPT ![r].pc = "failed"]
      BY <1>1, <2>3, <3>2 DEF Progress
    <3> QED
      BY <1>4, <3>1, <3>2
  <2>4. CASE s # r
    <3>1. \A q \in Runner \ {r} : runner'[q] = runner[q]
      BY <1>1, <1>4
    <3>2. \A q \in Runner \ {r} : todo(q)' = todo(q) /\ next(q)' = next(q)
      BY <1>4, <3>1 DEF todo, next
    <3>3. runner'[r].pc # "commit"
      BY <1>1, <1>4
    <3>4. runner[s].pc = "commit" => next(s) \notin history'
      BY <1>2, <1>4, <2>1, <2>4 DEF Progress
    <3> QED
      BY <1>4, <1>5, <2>1, <2>2, <2>4, <3>1, <3>2, <3>3, <3>4 DEF Progress
  <2> QED
    BY <2>3, <2>4
<1> QED
  BY <1>9, <1>10, <1>11, <1>12, <1>13

\* One case for each step of a process; other steps leave the migrations alone.
LEMMA MigrationStep == MigrationInv /\ [Next]_vars => MigrationInv'
<1> SUFFICES ASSUME MigrationInv, [Next]_vars PROVE MigrationInv'
  OBVIOUS
<1>1. ASSUME NEW r \in Runner, getLastMigration(r) PROVE MigrationInv'
  BY <1>1, ReadsKeep
<1>2. ASSUME NEW r \in Runner, ExecContent(r) PROVE MigrationInv'
  BY <1>2, MovesKeep DEF ExecContent, move
<1>3. ASSUME NEW r \in Runner, InsertHistory(r) PROVE MigrationInv'
  BY <1>3, MovesKeep DEF InsertHistory, move
<1>4. ASSUME NEW r \in Runner, CommitMigration(r) PROVE MigrationInv'
  BY <1>4, CommitKeeps
<1>5. ASSUME NEW r \in Runner, Migrated(r) PROVE MigrationInv'
  BY <1>5, MovesKeep DEF Migrated, move
<1>6. ASSUME NEW r \in Runner, MigrationFails(r) PROVE MigrationInv'
  BY <1>6, MovesKeep DEF MigrationFails, move
<1>7. ASSUME UNCHANGED migrationVars PROVE MigrationInv'
  <2>1. UNCHANGED <<files, legacy, history, schema, runner>>
    BY <1>7 DEF migrationVars
  <2>2. \A r \in Runner : todo(r)' = todo(r) /\ next(r)' = next(r)
    BY <2>1 DEF todo, next
  <2>3. MigrationTypeOK'
    BY <2>1 DEF MigrationInv, MigrationTypeOK, Chained, Later
  <2>4. AppliedInOrder' /\ Closed' /\ Recorded'
    BY <2>1 DEF MigrationInv, AppliedInOrder, InOrder, Closed, Recorded
  <2>5. \A r \in Runner : Progress(r)'
    BY <2>1, <2>2 DEF MigrationInv, Progress
  <2> QED
    BY <2>3, <2>4, <2>5 DEF MigrationInv
<1>8. CASE Next
  BY <1>1, <1>2, <1>3, <1>4, <1>5, <1>6, <1>7, <1>8 DEF Next, MigrationNext
<1>9. CASE UNCHANGED vars
  BY <1>7, <1>9 DEF vars
<1> QED
  BY <1>8, <1>9

\* Whatever releases start together, fail or die, every file is applied at most
\* once and in order, and all files of an image before its server serves.
THEOREM AppliedOnceInOrder == Spec => []MigrationsApplied
<1>1. MigrationInv => MigrationsApplied
  <2> SUFFICES ASSUME MigrationInv, NEW r \in Runner, runner[r].pc = "done", NEW f \in files[r]
               PROVE  f \in Range(schema)
    BY DEF MigrationsApplied, SuccessMeansApplied, MigrationInv
  <2>1. todo(r) = {} /\ \A u \in files[r] : u <= runner[r].last => u \in Range(schema)
    BY DEF MigrationInv, Progress
  <2>2. f \in Nat /\ runner[r].last \in Nat
    <3>1. f \in Version /\ runner[r].last \in Version \cup {0}
      BY DEF MigrationInv, MigrationTypeOK
    <3> QED
      BY <3>1, VersionNumbers
  <2>3. ~(f > runner[r].last)
    BY <2>1 DEF todo
  <2> QED
    BY <2>1, <2>2, <2>3
<1> QED
  BY <1>1, MigrationInitially, MigrationStep, PTL DEF Spec
-----------------------------------------------------------------------------
\* Only one site, and nothing is billed: what a request writes is a row, and a
\* request is a request of a site that exists.
SingleSite ==
  /\ tenants \in [Tenant -> Row \cup {None}]
  /\ settings \in [Admin -> SettingsRequest \cup {None}]
  /\ \A a \in Admin : settings[a] # None =>
       /\ settings[a] \in SettingsRequest
       /\ tenants[settings[a].tenant] # None
       /\ settings[a].pc \in {"write", "commit"} => settings[a].row \in Row
  /\ checkout = [c \in Session |-> None]
  /\ DOMAIN subscriptions = {} /\ DOMAIN events = {}
  /\ \A h \in Handler : delivery[h] = None

BootstrapInv ==
  /\ mode \in {"single", "multi"}
  /\ bootstrap \in [Operator -> {"idle", "previewed", "locked", "checked", "over"}]
  /\ mode = "multi" => \A o \in Operator : bootstrap[o] \in {"idle", "over"}
  /\ mode = "single" => SingleSite
  /\ \A o, p \in Operator :
       bootstrap[o] \in {"locked", "checked"} /\ bootstrap[p] \in {"locked", "checked"} => o = p
  /\ BootstrapFindingHolds

LEMMA BootstrapInitially == Init => BootstrapInv
<1> SUFFICES ASSUME Init PROVE BootstrapInv
  OBVIOUS
<1>1. PICK s \in Scopes : TenantInit(s.mode, s.tenants) /\ BillingInit(s.billing)
  BY DEF Init
<1>2. mode \in {"single", "multi"} /\ tenants \in [Tenant -> Row \cup {None}]
  BY <1>1, ScopesAssumption DEF TenantInit
<1>3. bootstrap = [o \in Operator |-> "idle"] /\ settings = [a \in Admin |-> None]
  BY <1>1 DEF TenantInit
<1>4. /\ checkout = [c \in Session |-> None] /\ delivery = [h \in Handler |-> None]
      /\ subscriptions = << >> /\ events = << >>
  BY <1>1 DEF BillingInit
<1>5. SingleSite
  BY <1>2, <1>3, <1>4 DEF SingleSite
<1> QED
  BY <1>2, <1>3, <1>5 DEF BootstrapInv, BootstrapFindingHolds

\* A row of a site stays a row when some of its fields are written.
LEMMA RowsStayRows ==
  ASSUME NEW r \in Row, NEW c \in Host \cup {""}, NEW l \in Logo \cup {None}
  PROVE  /\ [r EXCEPT !.cname = c, !.logo = l] \in Row
         /\ [r EXCEPT !.private = TRUE, !.feed = FALSE] \in Row
  BY DEF Row

LEMMA NewSiteIsRow == createTenant("") \in Row
  BY DEF createTenant, Row

LEMMA BootstrapSteps ==
  ASSUME BootstrapInv, BootstrapNext, UNCHANGED <<migrationVars, billingVars>>
  PROVE  BootstrapInv'
<1> USE DEF BootstrapInv
<1>1. UNCHANGED <<mode, settings, checkout, subscriptions, events, delivery>>
  BY DEF BootstrapNext, PreviewBootstrap, LockBootstrap, CheckBootstrap, CreateSite, EndBootstrap,
         billingVars
<1>2. ASSUME NEW o \in Operator, UNCHANGED tenants, NEW b,
             bootstrap' = [bootstrap EXCEPT ![o] = b],
             b \in {"idle", "previewed", "locked", "checked", "over"},
             mode = "multi" => b \in {"idle", "over"},
             b = "locked" => \A p \in Operator : bootstrap[p] \notin {"locked", "checked"},
             b = "checked" => bootstrap[o] = "locked" /\ existing = {}
      PROVE  BootstrapInv'
  <2>1. mode' = "single" => SingleSite'
    BY <1>1, <1>2 DEF SingleSite
  <2>2. existing' = existing
    BY <1>2 DEF existing
  <2>3. \A p \in Operator : bootstrap'[p] = IF p = o THEN b ELSE bootstrap[p]
    BY <1>2
  <2>4. BootstrapFindingHolds'
    BY <1>2, <2>2, <2>3 DEF BootstrapFindingHolds
  <2> QED
    BY <1>1, <1>2, <2>1, <2>3, <2>4
<1>3. ASSUME NEW o \in Operator, PreviewBootstrap(o) PROVE BootstrapInv'
  BY <1>2, <1>3 DEF PreviewBootstrap
<1>4. ASSUME NEW o \in Operator, LockBootstrap(o) PROVE BootstrapInv'
  BY <1>2, <1>4 DEF LockBootstrap, atBootstrap
<1>5. ASSUME NEW o \in Operator, CheckBootstrap(o) PROVE BootstrapInv'
  BY <1>2, <1>5 DEF CheckBootstrap, previewAccount
<1>6. ASSUME NEW o \in Operator, EndBootstrap(o) PROVE BootstrapInv'
  BY <1>2, <1>6 DEF EndBootstrap
<1>7. ASSUME NEW o \in Operator, CreateSite(o) PROVE BootstrapInv'
  <2> DEFINE row == [createTenant("") EXCEPT !.private = TRUE, !.feed = FALSE]
             id == Min(Tenant \ existing)
  <2>1. bootstrap[o] = "checked" /\ bootstrap' = [bootstrap EXCEPT ![o] = "over"]
    BY <1>7 DEF CreateSite, atBootstrap
  <2>2. mode = "single" /\ existing = {}
    BY <2>1 DEF BootstrapFindingHolds
  <2>3. row \in Row
    BY NewSiteIsRow, RowsStayRows
  <2>4. tenants' = [tenants EXCEPT ![id] = row]
    <3>1. ~\E t \in existing : tenants[t].subdomain = ""
      BY <2>2
    <3>2. tenants' = IF \E t \in existing : tenants[t].subdomain = "" THEN tenants
                     ELSE [tenants EXCEPT ![id] = row]
      BY <1>7 DEF CreateSite
    <3> QED
      BY <3>1, <3>2
  <2> HIDE DEF row, id
  <2>5. SingleSite'
    <3>1. tenants' \in [Tenant -> Row \cup {None}]
      BY <2>2, <2>3, <2>4 DEF SingleSite
    <3>2. \A a \in Admin : settings[a] = None
      BY <2>2 DEF SingleSite, SettingsRequest, existing
    <3> QED
      BY <1>1, <2>2, <3>1, <3>2 DEF SingleSite
  <2>6. \A p \in Operator : bootstrap'[p] # "checked"
    BY <2>1
  <2> QED
    BY <1>1, <2>1, <2>2, <2>5, <2>6 DEF BootstrapFindingHolds
<1> QED
  BY <1>3, <1>4, <1>5, <1>6, <1>7 DEF BootstrapNext

\* The first tenant, where there is one, is one of the tenants.
LEMMA FirstTenantExists == getFirstTenant \subseteq existing
<1> SUFFICES ASSUME existing # {} PROVE Min(existing) \in existing
  BY DEF getFirstTenant
<1>1. existing \subseteq Nat
  BY HostAssumption DEF existing
<1>2. \E x \in existing : \A y \in existing : x <= y
  BY <1>1, LeastNatural
<1> QED
  BY <1>2 DEF Min

\* Requests of administrators leave the operators' commands alone, and there is
\* none where there is no site.
LEMMA SettingsKeepBootstrap ==
  ASSUME BootstrapInv, SettingsNext, UNCHANGED <<migrationVars, billingVars>>
  PROVE  BootstrapInv'
<1> USE DEF BootstrapInv
<1>1. UNCHANGED <<mode, bootstrap, checkout, subscriptions, events, delivery>>
  BY DEF SettingsNext, SettingsStep, BeginSettings, LockTenant, UpdateTenantSettings,
         UpdateTenantPrivacySettings, UpdateTenantAdvancedSettings, WriteSettings, CommitSettings,
         AbortSettings, billingVars
<1>2. CASE mode = "multi"
  BY <1>1, <1>2 DEF BootstrapFindingHolds
<1>3. CASE mode = "single"
  <2>1. SingleSite
    BY <1>3
  <2>2. PICK a \in Admin : BeginSettings(a) \/ SettingsStep(a) \/ AbortSettings(a)
    BY DEF SettingsNext
  <2>3. ASSUME UNCHANGED tenants, NEW r, settings' = [settings EXCEPT ![a] = r],
               r # None => /\ r \in SettingsRequest
                           /\ tenants[r.tenant] # None
                           /\ r.pc \in {"write", "commit"} => r.row \in Row
        PROVE  BootstrapInv'
    <3>1. existing' = existing
      BY <2>3 DEF existing
    <3>2. \A b \in Admin : settings'[b] = IF b = a THEN r ELSE settings[b]
      BY <2>1, <2>3 DEF SingleSite
    <3>3. SingleSite'
      BY <1>1, <2>1, <2>3, <3>2 DEF SingleSite
    <3> QED
      BY <1>1, <1>3, <3>1, <3>3 DEF BootstrapFindingHolds
  <2>4. CASE BeginSettings(a)
    <3>1. PICK t \in existing :
            settings' = [settings EXCEPT ![a] =
              [tenant |-> t, pc |-> "lock", seen |-> tenants[t].logo, row |-> None]]
      BY <1>3, <2>4, FirstTenantExists DEF BeginSettings, TenantOf, SingleTenant, request
    <3>2. t \in Tenant /\ tenants[t] \in Row
      BY <2>1, <3>1 DEF existing, SingleSite
    <3>3. [tenant |-> t, pc |-> "lock", seen |-> tenants[t].logo, row |-> None] \in SettingsRequest
      BY <3>2 DEF SettingsRequest, Row
    <3> QED
      BY <2>3, <2>4, <3>1, <3>2, <3>3, NoneIsNoRow DEF BeginSettings
  <2>5. CASE AbortSettings(a)
    BY <2>3, <2>5 DEF AbortSettings, request
  <2>6. ASSUME settings[a] # None
        PROVE  /\ settings[a] \in SettingsRequest /\ settings[a].tenant \in Tenant
               /\ tenants[settings[a].tenant] \in Row /\ settings[a].seen \in Logo \cup {None}
    BY <2>1, <2>6 DEF SingleSite, SettingsRequest
  <2>7. CASE LockTenant(a)
    <3>1. [settings[a] EXCEPT !.pc = "validate"] \in SettingsRequest
      BY <2>6, <2>7 DEF LockTenant, SettingsRequest
    <3> QED
      BY <2>1, <2>3, <2>6, <2>7, <3>1 DEF LockTenant, request, SingleSite, SettingsRequest
  <2>8. ASSUME settings[a] # None, UNCHANGED tenants, NEW row \in Row,
               request(a, [settings[a] EXCEPT !.pc = "write", !.row = row])
        PROVE  BootstrapInv'
    <3>1. [settings[a] EXCEPT !.pc = "write", !.row = row] \in SettingsRequest
      BY <2>6, <2>8 DEF SettingsRequest
    <3> QED
      BY <2>1, <2>3, <2>6, <2>8, <3>1 DEF request, SingleSite, SettingsRequest
  <2>9. CASE UpdateTenantSettings(a)
    BY <2>6, <2>8, <2>9, RowsStayRows DEF UpdateTenantSettings
  <2>10. CASE UpdateTenantPrivacySettings(a)
    BY <2>6, <2>8, <2>10, RowsStayRows, HostAssumption DEF UpdateTenantPrivacySettings
  <2>11. CASE UpdateTenantAdvancedSettings(a)
    BY <2>6, <2>8, <2>11 DEF UpdateTenantAdvancedSettings
  <2>12. CASE WriteSettings(a)
    <3>1. [settings[a] EXCEPT !.pc = "commit"] \in SettingsRequest
      BY <2>6, <2>12 DEF WriteSettings, SettingsRequest
    <3> QED
      BY <2>1, <2>3, <2>6, <2>12, <3>1 DEF WriteSettings, request, SingleSite, SettingsRequest
  <2>13. CASE CommitSettings(a)
    <3>1. /\ settings[a] # None /\ settings[a].row \in Row
          /\ tenants' = [tenants EXCEPT ![settings[a].tenant] = settings[a].row]
          /\ settings' = [settings EXCEPT ![a] = None]
      BY <2>1, <2>13 DEF CommitSettings, request, SingleSite
    <3>2. SingleSite'
      BY <1>1, <2>1, <2>6, <3>1, NoneIsNoRow DEF SingleSite, SettingsRequest
    <3>3. existing # {}
      BY <2>1, <2>6, <3>1, NoneIsNoRow DEF existing
    <3> QED
      BY <1>1, <1>3, <3>2, <3>3 DEF BootstrapFindingHolds
  <2> QED
    BY <2>2, <2>4, <2>5, <2>7, <2>9, <2>10, <2>11, <2>12, <2>13 DEF SettingsStep
<1> QED
  BY <1>2, <1>3

\* Nothing is billed where the operator's command runs.
LEMMA BillingKeepsBootstrap ==
  ASSUME BootstrapInv, BillingNext
  PROVE  BootstrapInv'
<1> USE DEF BootstrapInv
<1>1. UNCHANGED <<mode, bootstrap>>
  BY DEF BillingNext, tenantVars, DeliveryStep, LockBilledTenant, CommitDelivery, CommitFails,
         FailDelivery, release
<1>2. CASE mode = "multi"
  BY <1>1, <1>2 DEF BootstrapFindingHolds
<1>3. CASE mode = "single"
  <2> USE <1>3 DEF SingleSite
  <2>1. \A c \in Session : ~CompleteCheckout(c) /\ \A t \in Tenant : ~createCheckoutSession(t, c)
    BY DEF CompleteCheckout, createCheckoutSession
  <2>2. \A t \in Tenant : ~CreateStripePortalSession(t)
    BY DEF CreateStripePortalSession
  <2>3. \A h \in Handler : ~DeliveryStep(h) /\ ~CommitFails(h) /\ ~FailDelivery(h)
    BY DEF DeliveryStep, handleSetupCheckoutCompleted, activateStripeSubscription,
           cancelStripeSubscription, LockBilledTenant, CommitDelivery, CommitFails, FailDelivery, at
  <2>4. \A id \in DOMAIN subscriptions : ~EndSubscription(id)
    OBVIOUS
  <2>5. \A h \in Handler, e \in DOMAIN events : ~IncomingStripeWebhook(h, e)
    OBVIOUS
  <2> HIDE DEF SingleSite, BootstrapInv
  <2> QED
    BY <2>1, <2>2, <2>3, <2>4, <2>5 DEF BillingNext
<1> QED
  BY <1>2, <1>3

LEMMA BootstrapStep == BootstrapInv /\ [Next]_vars => BootstrapInv'
<1>1. ASSUME BootstrapInv, UNCHANGED <<tenantVars, billingVars>> PROVE BootstrapInv'
  BY <1>1 DEF BootstrapInv, SingleSite, BootstrapFindingHolds, existing, tenantVars, billingVars
<1> QED
  BY <1>1, BootstrapSteps, SettingsKeepBootstrap, BillingKeepsBootstrap DEF Next, vars

\* What an operator's command found under its lock is true until it writes:
\* no two commands create a site, and none beside a site.
THEOREM OneBootstrap == Spec => []BootstrapFindingHolds
<1>1. BootstrapInv => BootstrapFindingHolds
  BY DEF BootstrapInv
<1> QED
  BY <1>1, BootstrapInitially, BootstrapStep, PTL DEF Spec
-----------------------------------------------------------------------------
\* The kind of session whose subscription is still to be created.
isSetup(s) == checkout[s] \in CheckoutSession /\ checkout[s].mode = "setup"

\* A subscription of a session that was set up is the answer remembered under
\* its key, and one of the older kind came with the completion.
Foreseen(id) ==
  /\ id[1] \in Session /\ id = <<id[1], 1>> /\ checkout[id[1]] # None
  /\ isSetup(id[1]) => <<id[1]>> \in DOMAIN keys
  /\ ~isSetup(id[1]) => checkout[id[1]].complete

\* What a handler of an event does is the creation for a session that was set up.
Delivering(h) ==
  delivery[h] # None =>
    /\ "pc" \in DOMAIN delivery[h]
    /\ delivery[h].pc = "create" => sessionOf(h) \in Session /\ isSetup(sessionOf(h))

CheckoutInv ==
  /\ checkout \in [Session -> CheckoutSession \cup {None}]
  /\ \A id \in DOMAIN subscriptions : Foreseen(id)
  /\ \A e \in DOMAIN events : e[1] = "completed" => e[2] \in Session /\ checkout[e[2]] # None
  /\ DOMAIN delivery = Handler
  /\ \A h \in Handler : Delivering(h)

LEMMA CheckoutInitially == Init => CheckoutInv
<1> SUFFICES ASSUME Init PROVE CheckoutInv
  OBVIOUS
<1>1. PICK s \in Scopes : BillingInit(s.billing)
  BY DEF Init
<1>2. /\ checkout = [c \in Session |-> None] /\ delivery = [h \in Handler |-> None]
      /\ DOMAIN subscriptions = {} /\ DOMAIN events = {}
  BY <1>1 DEF BillingInit
<1> QED
  BY <1>2 DEF CheckoutInv, Delivering

\* A step of a handler that only goes on, or ends.
LEMMA WorkKeeps ==
  ASSUME CheckoutInv, NEW h \in Handler, NEW d,
         UNCHANGED <<checkout, keys>>, DOMAIN subscriptions' = DOMAIN subscriptions,
         DOMAIN events' = DOMAIN events,
         delivery' = [delivery EXCEPT ![h] = d],
         d # None => /\ "pc" \in DOMAIN d
                     /\ d.pc = "create" => d.event[2] \in Session /\ isSetup(d.event[2])
  PROVE  CheckoutInv'
<1>1. \A s : isSetup(s)' <=> isSetup(s)
  BY DEF isSetup
<1>2. \A id \in DOMAIN subscriptions' : Foreseen(id)'
  BY <1>1 DEF CheckoutInv, Foreseen
<1>3. DOMAIN delivery' = Handler /\ delivery'[h] = d
      /\ \A g \in Handler \ {h} : delivery'[g] = delivery[g]
  BY DEF CheckoutInv
<1>4. \A g \in Handler : Delivering(g)'
  BY <1>1, <1>3 DEF CheckoutInv, Delivering, sessionOf
<1> QED
  BY <1>2, <1>3, <1>4 DEF CheckoutInv

\* A step at Stripe that leaves the handlers alone.
LEMMA StripeKeeps ==
  ASSUME CheckoutInv, UNCHANGED <<keys, delivery>>, NEW s \in Session, NEW c \in CheckoutSession,
         checkout' = [checkout EXCEPT ![s] = c],
         checkout[s] # None => c.mode = checkout[s].mode /\ (checkout[s].complete => c.complete),
         \A id \in DOMAIN subscriptions' \ DOMAIN subscriptions :
           id = <<s, 1>> /\ c.mode # "setup" /\ c.complete,
         \A e \in DOMAIN events' \ DOMAIN events : e = <<"completed", s>>
  PROVE  CheckoutInv'
<1>1. /\ checkout' \in [Session -> CheckoutSession \cup {None}] /\ checkout'[s] = c
      /\ \A z \in Session : z # s => checkout'[z] = checkout[z]
      /\ c # None
  BY NoneIsNoSession DEF CheckoutInv
<1>2. \A z \in Session : checkout[z] # None =>
        /\ checkout'[z] # None
        /\ isSetup(z)' <=> isSetup(z)
        /\ checkout[z].complete => checkout'[z].complete
  BY <1>1 DEF CheckoutInv, isSetup
<1>3. \A id \in DOMAIN subscriptions : Foreseen(id)'
  BY <1>2 DEF CheckoutInv, Foreseen
<1>4. \A id \in DOMAIN subscriptions' \ DOMAIN subscriptions : Foreseen(id)'
  BY <1>1 DEF Foreseen, isSetup
<1>5. \A e \in DOMAIN events' : e[1] = "completed" => e[2] \in Session /\ checkout'[e[2]] # None
  BY <1>1, <1>2 DEF CheckoutInv
<1>6. \A z \in Session : isSetup(z) => isSetup(z)'
  BY <1>2, NoneIsNoSession DEF isSetup
<1>7. \A h \in Handler : Delivering(h)'
  BY <1>6 DEF CheckoutInv, Delivering, sessionOf
<1> QED
  BY <1>1, <1>3, <1>4, <1>5, <1>7 DEF CheckoutInv

\* What a handler does with Stripe's answer to its creation.
answered(h, id, status) ==
  [delivery[h] EXCEPT !.sub = id, !.pc = IF activates(status) THEN "billing" ELSE "commit"]

\* A creation is answered as the first one for its session was, or is the first.
LEMMA Creation ==
  ASSUME CheckoutInv, NEW h \in Handler, handleSetupCheckoutCompleted(h)
  PROVE  /\ sessionOf(h) \in Session /\ isSetup(sessionOf(h)) /\ at(h, "create")
         /\ UNCHANGED <<billing, checkout, events, attempts, activated, lost>>
         /\ \/ /\ <<sessionOf(h)>> \in DOMAIN keys /\ UNCHANGED <<subscriptions, keys>>
               /\ delivery' = [delivery EXCEPT
                    ![h] = answered(h, keys[<<sessionOf(h)>>].sub, keys[<<sessionOf(h)>>].status)]
            \/ /\ <<sessionOf(h), 1>> \notin DOMAIN subscriptions
               /\ \E status \in Status :
                    /\ subscriptions' = put(subscriptions, <<sessionOf(h), 1>>,
                         [tenant |-> delivery[h].tenant, began |-> status, ended |-> FALSE])
                    /\ keys' = put(keys, <<sessionOf(h)>>,
                                   [sub |-> <<sessionOf(h), 1>>, status |-> status])
                    /\ delivery' = [delivery EXCEPT ![h] = answered(h, <<sessionOf(h), 1>>, status)]
<1>1. PICK s \in Session : s = sessionOf(h) /\ isSetup(s)
  BY DEF handleSetupCheckoutCompleted, at, CheckoutInv, Delivering
<1>2. at(h, "create") /\ UNCHANGED <<billing, checkout, events, attempts, activated, lost>>
  BY DEF handleSetupCheckoutCompleted
<1>3. CASE <<s>> \in DOMAIN keys
  <2>1. UNCHANGED <<subscriptions, keys>>
        /\ delivery' = [delivery EXCEPT ![h] = answered(h, keys[<<s>>].sub, keys[<<s>>].status)]
    BY <1>1, <1>3 DEF handleSetupCheckoutCompleted, idempotencyKey, work, answered
  <2> QED
    BY <1>1, <1>2, <1>3, <2>1
<1>4. CASE <<s>> \notin DOMAIN keys
  <2> DEFINE of == {id \in DOMAIN subscriptions : id[1] = s}
  <2>1. of = {}
    BY <1>1, <1>4 DEF CheckoutInv, Foreseen
  <2>2. Cardinality(of) + 1 = 1
    BY <2>1, FS_EmptySet
  <2>3. <<s, 1>> \notin DOMAIN subscriptions
    <3>1. <<s, 1>>[1] = s
      OBVIOUS
    <3> QED
      BY <2>1, <3>1
  <2> HIDE DEF of
  <2>4. \E status \in Status :
          /\ subscriptions' = put(subscriptions, <<s, Cardinality(of) + 1>>,
               [tenant |-> delivery[h].tenant, began |-> status, ended |-> FALSE])
          /\ keys' = put(keys, <<s>>, [sub |-> <<s, Cardinality(of) + 1>>, status |-> status])
          /\ delivery' = [delivery EXCEPT ![h] = answered(h, <<s, Cardinality(of) + 1>>, status)]
    BY <1>1, <1>4 DEF handleSetupCheckoutCompleted, idempotencyKey, work, answered, of
  <2> QED
    BY <1>1, <1>2, <2>2, <2>3, <2>4
<1> QED
  BY <1>3, <1>4

\* The creation of a subscription: the key tells whether there is one.
LEMMA CreationKeeps ==
  ASSUME CheckoutInv, NEW h \in Handler, handleSetupCheckoutCompleted(h)
  PROVE  CheckoutInv'
<1>1. PICK s \in Session :
        /\ s = sessionOf(h) /\ isSetup(s) /\ UNCHANGED <<checkout, events>>
        /\ delivery[h] # None /\ "pc" \in DOMAIN delivery[h]
  BY Creation DEF at, CheckoutInv, Delivering
<1>2. \A id, status : /\ "pc" \in DOMAIN answered(h, id, status)
                      /\ answered(h, id, status).pc # "create"
  BY <1>1 DEF answered
<1>3. ASSUME NEW id, NEW status, UNCHANGED <<subscriptions, keys>>,
             delivery' = [delivery EXCEPT ![h] = answered(h, id, status)]
      PROVE  CheckoutInv'
  BY <1>1, <1>2, <1>3, WorkKeeps
<1>4. ASSUME NEW status, NEW sub, NEW reply,
             subscriptions' = put(subscriptions, <<s, 1>>, sub),
             keys' = put(keys, <<s>>, reply),
             delivery' = [delivery EXCEPT ![h] = answered(h, <<s, 1>>, status)]
      PROVE  CheckoutInv'
  <2>1. /\ DOMAIN subscriptions' = DOMAIN subscriptions \cup {<<s, 1>>}
        /\ DOMAIN keys' = DOMAIN keys \cup {<<s>>}
    BY <1>4 DEF put
  <2>2. PICK d : delivery' = [delivery EXCEPT ![h] = d] /\ "pc" \in DOMAIN d /\ d.pc # "create"
    <3>1. /\ "pc" \in DOMAIN answered(h, <<s, 1>>, status)
          /\ answered(h, <<s, 1>>, status).pc # "create"
      BY <1>2, Zenon
    <3> QED
      BY <1>4, <3>1, Zenon
  <2>3. \A z : isSetup(z)' <=> isSetup(z)
    BY <1>1 DEF isSetup
  <2>4. \A id \in DOMAIN subscriptions : Foreseen(id)'
    BY <1>1, <2>1, <2>3 DEF CheckoutInv, Foreseen
  <2>5. Foreseen(<<s, 1>>)'
    BY <1>1, <2>1, <2>3, NoneIsNoSession DEF Foreseen, isSetup
  <2>6. DOMAIN delivery' = Handler /\ delivery'[h] = d
        /\ \A g \in Handler \ {h} : delivery'[g] = delivery[g]
    BY <2>2 DEF CheckoutInv
  <2>7. \A g \in Handler : Delivering(g)'
    BY <2>2, <2>3, <2>6 DEF CheckoutInv, Delivering, sessionOf
  <2> QED
    BY <1>1, <2>1, <2>4, <2>5, <2>6, <2>7 DEF CheckoutInv
<1>5. \/ /\ UNCHANGED <<subscriptions, keys>>
         /\ delivery' = [delivery EXCEPT ![h] = answered(h, keys[<<s>>].sub, keys[<<s>>].status)]
      \/ \E status \in Status :
           /\ subscriptions' = put(subscriptions, <<s, 1>>,
                [tenant |-> delivery[h].tenant, began |-> status, ended |-> FALSE])
           /\ keys' = put(keys, <<s>>, [sub |-> <<s, 1>>, status |-> status])
           /\ delivery' = [delivery EXCEPT ![h] = answered(h, <<s, 1>>, status)]
  BY <1>1, Creation
<1> QED
  BY <1>3, <1>4, <1>5

LEMMA CheckoutStep == CheckoutInv /\ [Next]_vars => CheckoutInv'
<1> SUFFICES ASSUME CheckoutInv, [Next]_vars PROVE CheckoutInv'
  OBVIOUS
<1>1. ASSUME UNCHANGED billingVars PROVE CheckoutInv'
  BY <1>1 DEF billingVars, CheckoutInv, Foreseen, Delivering, sessionOf, isSetup
<1>2. ASSUME NEW t \in Tenant, NEW s \in Session, createCheckoutSession(t, s) PROVE CheckoutInv'
  <2>1. PICK m \in {"setup", "subscription"} :
          checkout' = [checkout EXCEPT ![s] = [tenant |-> t, mode |-> m, complete |-> FALSE]]
    BY <1>2 DEF createCheckoutSession
  <2>2. [tenant |-> t, mode |-> m, complete |-> FALSE] \in CheckoutSession
    BY DEF CheckoutSession
  <2> QED
    BY <1>2, <2>1, <2>2, StripeKeeps DEF createCheckoutSession
<1>3. ASSUME NEW s \in Session, CompleteCheckout(s) PROVE CheckoutInv'
  <2> DEFINE c == [checkout[s] EXCEPT !.complete = TRUE]
  <2>1. checkout[s] \in CheckoutSession /\ checkout[s] # None
    BY <1>3 DEF CompleteCheckout, CheckoutInv
  <2>2. c \in CheckoutSession /\ c.mode = checkout[s].mode /\ c.complete
    BY <2>1 DEF CheckoutSession
  <2>3. checkout' = [checkout EXCEPT ![s] = c] /\ UNCHANGED <<keys, delivery>>
    BY <1>3 DEF CompleteCheckout
  <2>4. \A e \in DOMAIN events' \ DOMAIN events : e = <<"completed", s>>
    BY <1>3 DEF CompleteCheckout, occur, put
  <2>5. \A id \in DOMAIN subscriptions' \ DOMAIN subscriptions : id = <<s, 1>> /\ c.mode # "setup"
    BY <1>3, <2>2 DEF CompleteCheckout, put
  <2> HIDE DEF c
  <2> QED
    BY <2>2, <2>3, <2>4, <2>5, StripeKeeps
<1>4. ASSUME NEW id \in DOMAIN subscriptions, EndSubscription(id) PROVE CheckoutInv'
  <2>1. UNCHANGED <<checkout, keys, delivery>> /\ DOMAIN subscriptions' = DOMAIN subscriptions
    BY <1>4 DEF EndSubscription
  <2>2. \A e \in DOMAIN events' \ DOMAIN events : e[1] = "deleted"
    BY <1>4 DEF EndSubscription, occur, put
  <2> QED
    BY <2>1, <2>2 DEF CheckoutInv, Foreseen, Delivering, sessionOf, isSetup
<1>5. ASSUME NEW t \in Tenant, CreateStripePortalSession(t) PROVE CheckoutInv'
  BY <1>4, <1>5 DEF CreateStripePortalSession
<1>6. ASSUME NEW h \in Handler, NEW e \in DOMAIN events, IncomingStripeWebhook(h, e)
      PROVE  CheckoutInv'
  <2> DEFINE i == siteOf(e)
             s == IF e[1] = "completed" THEN <<e[2], 1>> ELSE None
             pc == IF siteOf(e) = None THEN "commit"
                   ELSE IF e[1] = "completed" /\ checkout[e[2]].mode = "setup" THEN "create"
                   ELSE "billing"
             d == [event |-> e, tenant |-> i, bill |-> None, sub |-> s, pc |-> pc]
  <2>1. /\ delivery' = [delivery EXCEPT ![h] = d]
        /\ pc = "create" => e[1] = "completed" /\ checkout[e[2]].mode = "setup"
    BY <1>6 DEF IncomingStripeWebhook, work
  <2>2. "pc" \in DOMAIN d /\ d.event = e /\ d.pc = pc
    OBVIOUS
  <2>3. pc = "create" => e[2] \in Session /\ isSetup(e[2])
    BY <2>1 DEF CheckoutInv, isSetup
  <2> HIDE DEF d
  <2> QED
    BY <1>6, <2>1, <2>2, <2>3, WorkKeeps DEF IncomingStripeWebhook
<1>7. ASSUME NEW h \in Handler, NEW d, work(h, d), d # None => "pc" \in DOMAIN d /\ d.pc # "create",
             UNCHANGED <<checkout, subscriptions, keys>>, DOMAIN events' = DOMAIN events
      PROVE  CheckoutInv'
  BY <1>7, WorkKeeps DEF work
<1>8. ASSUME NEW h \in Handler, delivery[h] # None PROVE "pc" \in DOMAIN delivery[h]
  BY <1>8 DEF CheckoutInv, Delivering
<1>9. ASSUME NEW h \in Handler, activateStripeSubscription(h) PROVE CheckoutInv'
  BY <1>7, <1>8, <1>9 DEF activateStripeSubscription, at, stripeVars
<1>10. ASSUME NEW h \in Handler, cancelStripeSubscription(h) PROVE CheckoutInv'
  BY <1>7, <1>8, <1>10 DEF cancelStripeSubscription, at, stripeVars
<1>11. ASSUME NEW h \in Handler, LockBilledTenant(h) PROVE CheckoutInv'
  BY <1>7, <1>8, <1>11 DEF LockBilledTenant, at, stripeVars
<1>12. ASSUME NEW h \in Handler, CommitDelivery(h) PROVE CheckoutInv'
  BY <1>7, <1>12 DEF CommitDelivery, release, answer
<1>13. ASSUME NEW h \in Handler, CommitFails(h) PROVE CheckoutInv'
  BY <1>7, <1>13 DEF CommitFails, release, answer
<1>14. ASSUME NEW h \in Handler, FailDelivery(h) PROVE CheckoutInv'
  BY <1>7, <1>14 DEF FailDelivery, release, stripeVars
<1>15. CASE BillingNext
  BY <1>2, <1>3, <1>4, <1>5, <1>6, <1>9, <1>10, <1>11, <1>12, <1>13, <1>14, <1>15, CreationKeeps
     DEF BillingNext, DeliveryStep
<1> QED
  BY <1>1, <1>15 DEF Next, vars

\* However often, late and at the same time Stripe delivers an event, a checkout
\* has one subscription.
THEOREM BilledOnce == Spec => []OneSubscriptionPerCheckout
<1>1. CheckoutInv => OneSubscriptionPerCheckout
  BY DEF CheckoutInv, Foreseen, OneSubscriptionPerCheckout
<1> QED
  BY <1>1, CheckoutInitially, CheckoutStep, PTL DEF Spec
-----------------------------------------------------------------------------
\* A request that has locked the row of its site holds it until it ends, so
\* that what it is about to write still agrees with the row in what it leaves alone.
Holding(a) ==
  settings[a] # None =>
    /\ settings[a].tenant \in existing
    /\ settings[a].pc # "lock" => locked[settings[a].tenant] = a
    /\ settings[a].pc \in {"write", "commit"} =>
         /\ settings[a].row \in Row
         /\ settings[a].row.pro = tenants[settings[a].tenant].pro
         /\ settings[a].row.subdomain = tenants[settings[a].tenant].subdomain

\* Who has a row is at work on that site.
Held(t) ==
  /\ locked[t] \in Admin => settings[locked[t]] # None /\ settings[locked[t]].tenant = t
  /\ locked[t] \in Handler => at(locked[t], "commit") /\ delivery[locked[t]].tenant = t

\* Only an event that names no site has nothing but its answer left.
Handling(h) ==
  delivery[h] # None =>
    /\ delivery[h].tenant \in existing \cup {None}
    /\ delivery[h].pc # "commit" => delivery[h].tenant # None

Answer == [sub : SubscriptionId, status : Status]

\* Stripe knows of no site that there is not.
StripeInv ==
  /\ billing \in [Tenant -> Bill \cup {None}]
  /\ \A s \in Session : checkout[s] # None => checkout[s].tenant \in existing
  /\ \A id \in DOMAIN subscriptions :
       subscriptions[id] \in Subscription /\ subscriptions[id].tenant \in existing \cup {None}
  /\ \A key \in DOMAIN keys : keys[key] \in Answer
  /\ DOMAIN events \subseteq Completed \cup Deleted /\ DOMAIN attempts = DOMAIN events
  /\ \A e \in DOMAIN events : e[1] = "deleted" => e[2] \in DOMAIN subscriptions

SiteInv ==
  /\ mode \in {"single", "multi"}
  /\ tenants \in [Tenant -> Row \cup {None}]
  /\ settings \in [Admin -> SettingsRequest \cup {None}]
  /\ locked \in [Tenant -> Admin \cup Handler \cup {None}]
  /\ delivery \in [Handler -> Delivery \cup {None}]
  /\ StripeInv
  /\ \A a \in Admin : Holding(a)
  /\ \A t \in Tenant : Held(t)
  /\ \A h \in Handler : Handling(h)

LEMMA SiteInitially == Init => SiteInv
<1> SUFFICES ASSUME Init PROVE SiteInv
  OBVIOUS
<1>1. PICK s \in Scopes : TenantInit(s.mode, s.tenants) /\ BillingInit(s.billing)
  BY DEF Init
<1>2. /\ mode \in {"single", "multi"} /\ tenants \in [Tenant -> Row \cup {None}]
      /\ billing \in [Tenant -> Bill \cup {None}]
  BY <1>1, ScopesAssumption DEF TenantInit, BillingInit
<1>3. locked = [t \in Tenant |-> None] /\ settings = [a \in Admin |-> None]
  BY <1>1 DEF TenantInit
<1>4. /\ checkout = [c \in Session |-> None] /\ delivery = [h \in Handler |-> None]
      /\ subscriptions = << >> /\ events = << >> /\ keys = << >> /\ attempts = << >>
  BY <1>1 DEF BillingInit
<1>5. StripeInv
  BY <1>2, <1>4 DEF StripeInv
<1>6. \A t \in Tenant : Held(t)
  BY <1>3, NoneIsNoRow, HandlersAssumption DEF Held
<1> QED
  BY <1>2, <1>3, <1>4, <1>5, <1>6 DEF SiteInv, Holding, Handling

\* What Stripe knows, and what handlers do, stays true when sites come to exist.
LEMMA StripeStays ==
  ASSUME SiteInv, UNCHANGED billingVars, existing \subseteq existing'
  PROVE  StripeInv' /\ \A h \in Handler : Handling(h)'
<1>1. StripeInv'
  BY DEF SiteInv, StripeInv, billingVars
<1>2. \A h \in Handler : Handling(h)'
  BY DEF SiteInv, Handling, billingVars
<1> QED
  BY <1>1, <1>2

\* A request goes on, and may lock its site's row as it does.
LEMMA RequestGoesOn ==
  ASSUME SiteInv, NEW a \in Admin, NEW r \in SettingsRequest,
         UNCHANGED <<mode, tenants, billingVars>>,
         settings' = [settings EXCEPT ![a] = r],
         r.tenant \in existing, settings[a] # None => settings[a].tenant = r.tenant,
         \/ locked' = locked
         \/ locked[r.tenant] = None /\ locked' = [locked EXCEPT ![r.tenant] = a],
         r.pc # "lock" => locked'[r.tenant] = a,
         r.pc \in {"write", "commit"} =>
           /\ r.row \in Row
           /\ r.row.pro = tenants[r.tenant].pro /\ r.row.subdomain = tenants[r.tenant].subdomain
  PROVE  SiteInv'
<1>1. existing' = existing /\ existing \subseteq Tenant
  BY DEF existing
<1>2. settings'[a] = r /\ \A b \in Admin \ {a} : settings'[b] = settings[b]
  BY DEF SiteInv
<1>3. r # None
  BY NoneIsNoRow
<1>4. /\ locked' \in [Tenant -> Admin \cup Handler \cup {None}]
      /\ \A t \in Tenant : locked'[t] = locked[t] \/ (t = r.tenant /\ locked'[t] = a /\ locked[t] = None)
  BY <1>1 DEF SiteInv
<1>5. ASSUME NEW b \in Admin PROVE Holding(b)'
  <2>1. CASE b = a
    BY <1>1, <1>2, <2>1 DEF Holding
  <2>2. CASE b # a
    <3>1. settings'[b] = settings[b] /\ Holding(b)
      BY <1>2, <2>2 DEF SiteInv
    <3>2. settings[b] # None => settings[b].tenant \in Tenant
      BY <1>1, <3>1 DEF Holding
    <3> QED
      BY <1>1, <1>4, <3>1, <3>2, NoneIsNoRow DEF Holding
  <2> QED
    BY <2>1, <2>2
<1>6. ASSUME NEW t \in Tenant PROVE Held(t)'
  <2>1. Held(t)
    BY DEF SiteInv
  <2>2. delivery' = delivery
    BY DEF billingVars
  <2>3. locked'[t] \in Admin => settings'[locked'[t]] # None /\ settings'[locked'[t]].tenant = t
    BY <1>2, <1>3, <1>4, <2>1 DEF Held
  <2>4. locked'[t] \in Handler => locked'[t] = locked[t]
    BY <1>4, HandlersAssumption
  <2> QED
    BY <2>1, <2>2, <2>3, <2>4 DEF Held, at
<1>7. settings' \in [Admin -> SettingsRequest \cup {None}]
  BY DEF SiteInv
<1> QED
  BY <1>1, <1>4, <1>5, <1>6, <1>7, StripeStays DEF SiteInv, billingVars

\* A request that had the row of its site ends, and writes it or not.
LEMMA RequestEnds ==
  ASSUME SiteInv, NEW a \in Admin, settings[a] # None,
         UNCHANGED <<mode, billingVars>>,
         settings' = [settings EXCEPT ![a] = None], unlock(a),
         \/ tenants' = tenants
         \/ /\ settings[a].pc = "commit"
            /\ tenants' = [tenants EXCEPT ![settings[a].tenant] = settings[a].row]
  PROVE  SiteInv'
<1> DEFINE t0 == settings[a].tenant
<1>1. t0 \in existing /\ existing \subseteq Tenant /\ Holding(a)
  BY DEF SiteInv, Holding, existing
<1>2. settings'[a] = None /\ \A b \in Admin \ {a} : settings'[b] = settings[b]
  BY DEF SiteInv
<1>3. /\ tenants' \in [Tenant -> Row \cup {None}]
      /\ \A t \in Tenant : \/ tenants'[t] = tenants[t]
                           \/ t = t0 /\ tenants'[t] \in Row /\ locked[t] = a
  BY <1>1 DEF SiteInv, Holding
<1>4. existing' = existing
  BY <1>3, <1>1, NoneIsNoRow DEF existing
<1>5. locked' = [t \in Tenant |-> IF locked[t] = a THEN None ELSE locked[t]]
  BY DEF unlock
<1>6. locked' \in [Tenant -> Admin \cup Handler \cup {None}]
  BY <1>5 DEF SiteInv
<1>7. ASSUME NEW b \in Admin PROVE Holding(b)'
  <2>1. CASE b = a
    BY <1>2, <2>1 DEF Holding
  <2>2. CASE b # a
    <3>1. settings'[b] = settings[b] /\ Holding(b)
      BY <1>2, <2>2 DEF SiteInv
    <3>2. settings[b] # None => settings[b].tenant \in Tenant
      BY <1>1, <3>1 DEF Holding
    <3>3. settings[b] # None /\ settings[b].pc # "lock" =>
            tenants'[settings[b].tenant] = tenants[settings[b].tenant] /\ locked'[settings[b].tenant] = b
      BY <1>3, <1>5, <2>2, <3>1, <3>2 DEF Holding
    <3> QED
      BY <1>4, <3>1, <3>3 DEF Holding
  <2> QED
    BY <2>1, <2>2
<1>8. ASSUME NEW t \in Tenant PROVE Held(t)'
  <2>1. Held(t) /\ delivery' = delivery
    BY DEF SiteInv, billingVars
  <2>2. locked'[t] \in Admin \cup Handler => locked'[t] = locked[t] /\ locked[t] # a
    BY <1>5, NoneIsNoRow, HandlersAssumption
  <2>3. locked'[t] \in Admin => settings'[locked'[t]] = settings[locked[t]]
    BY <1>2, <2>2
  <2> QED
    BY <2>1, <2>2, <2>3 DEF Held, at
<1>9. settings' \in [Admin -> SettingsRequest \cup {None}]
  BY DEF SiteInv
<1> QED
  BY <1>3, <1>4, <1>6, <1>7, <1>8, <1>9, StripeStays DEF SiteInv, billingVars

\* A host name leads to a site that exists, or to none.
LEMMA FoundTenantsExist == \A h \in Host : TenantOf(h) \subseteq existing
<1>1. \A h \in Host : getTenantByDomain(h) \subseteq existing
  BY DEF getTenantByDomain
<1> QED
  BY <1>1, FirstTenantExists DEF TenantOf, SingleTenant, MultiTenant

LEMMA SettingsKeepSite ==
  ASSUME SiteInv, SettingsNext, UNCHANGED <<migrationVars, billingVars>>
  PROVE  SiteInv'
<1>1. PICK a \in Admin : BeginSettings(a) \/ SettingsStep(a) \/ AbortSettings(a)
  BY DEF SettingsNext
<1>2. CASE BeginSettings(a)
  <2> DEFINE r(t) == [tenant |-> t, pc |-> "lock", seen |-> tenants[t].logo, row |-> None]
  <2>1. PICK t \in existing : settings' = [settings EXCEPT ![a] = r(t)]
    BY <1>2, FoundTenantsExist DEF BeginSettings, request
  <2>2. tenants[t] \in Row /\ t \in Tenant
    BY <2>1 DEF existing, SiteInv
  <2>3. r(t) \in SettingsRequest
    BY <2>2 DEF SettingsRequest, Row
  <2>4. r(t).tenant = t /\ r(t).pc = "lock"
    OBVIOUS
  <2>5. settings[a] = None /\ UNCHANGED <<mode, tenants, locked, billingVars>>
    BY <1>2 DEF BeginSettings
  <2> HIDE DEF r
  <2> QED
    BY <2>1, <2>3, <2>4, <2>5, RequestGoesOn
<1>3. ASSUME settings[a] # None
      PROVE  /\ settings[a] \in SettingsRequest /\ settings[a].tenant \in existing
             /\ tenants[settings[a].tenant] \in Row /\ settings[a].seen \in Logo \cup {None}
             /\ Holding(a)
  <2>1. Holding(a) /\ settings[a] \in SettingsRequest
    BY <1>3 DEF SiteInv
  <2>2. settings[a].tenant \in existing /\ settings[a].tenant \in Tenant
    BY <1>3, <2>1 DEF Holding, existing
  <2> QED
    BY <2>1, <2>2 DEF SiteInv, existing, SettingsRequest
<1>4. CASE LockTenant(a)
  <2> DEFINE r == [settings[a] EXCEPT !.pc = "validate"]
  <2>1. r \in SettingsRequest /\ r.tenant = settings[a].tenant /\ r.pc = "validate"
    BY <1>3, <1>4 DEF LockTenant, SettingsRequest
  <2>2. /\ settings' = [settings EXCEPT ![a] = r] /\ UNCHANGED <<mode, tenants, billingVars>>
        /\ locked[r.tenant] = None /\ locked' = [locked EXCEPT ![r.tenant] = a]
        /\ r.tenant \in existing
    BY <1>3, <1>4, <2>1 DEF LockTenant, request
  <2>3. locked'[r.tenant] = a
    BY <2>2 DEF SiteInv, existing
  <2> HIDE DEF r
  <2> QED
    BY <2>1, <2>2, <2>3, RequestGoesOn
<1>5. ASSUME settings[a] # None, settings[a].pc = "validate", NEW row \in Row,
             row.pro = tenants[settings[a].tenant].pro,
             row.subdomain = tenants[settings[a].tenant].subdomain,
             request(a, [settings[a] EXCEPT !.pc = "write", !.row = row]),
             UNCHANGED <<mode, tenants, locked, bootstrap>>
      PROVE  SiteInv'
  <2> DEFINE r == [settings[a] EXCEPT !.pc = "write", !.row = row]
  <2>1. /\ r \in SettingsRequest /\ r.tenant = settings[a].tenant /\ r.pc = "write" /\ r.row = row
        /\ settings' = [settings EXCEPT ![a] = r] /\ locked[r.tenant] = a /\ r.tenant \in existing
    BY <1>3, <1>5 DEF SettingsRequest, request, Holding
  <2> HIDE DEF r
  <2> QED
    BY <1>5, <2>1, RequestGoesOn
<1>6. CASE UpdateTenantSettings(a)
  <2> DEFINE row(c, l) == [tenants[settings[a].tenant] EXCEPT !.cname = c, !.logo = l]
  <2>1. PICK c \in Host \cup {""}, l \in Logo \cup {None} :
          request(a, [settings[a] EXCEPT !.pc = "write", !.row = row(c, l)])
    BY <1>3, <1>6 DEF UpdateTenantSettings
  <2>2. row(c, l) \in Row
    BY <1>3, <1>6, RowsStayRows DEF UpdateTenantSettings
  <2>3. /\ row(c, l).pro = tenants[settings[a].tenant].pro
        /\ row(c, l).subdomain = tenants[settings[a].tenant].subdomain
    BY <1>3, <1>6 DEF UpdateTenantSettings, Row
  <2> HIDE DEF row
  <2> QED
    BY <1>5, <1>6, <2>1, <2>2, <2>3 DEF UpdateTenantSettings
<1>7. CASE UpdateTenantPrivacySettings(a)
  <2>1. [tenants[settings[a].tenant] EXCEPT !.private = TRUE, !.feed = FALSE] \in Row
    BY <1>3, <1>7 DEF UpdateTenantPrivacySettings, Row
  <2> QED
    BY <1>3, <1>5, <1>7, <2>1 DEF UpdateTenantPrivacySettings, Row
<1>8. CASE UpdateTenantAdvancedSettings(a)
  BY <1>3, <1>5, <1>8 DEF UpdateTenantAdvancedSettings
<1>9. CASE WriteSettings(a)
  <2> DEFINE r == [settings[a] EXCEPT !.pc = "commit"]
  <2>1. /\ r \in SettingsRequest /\ r.tenant = settings[a].tenant /\ r.row = settings[a].row
        /\ settings' = [settings EXCEPT ![a] = r] /\ locked[r.tenant] = a /\ r.tenant \in existing
        /\ r.row \in Row /\ r.row.pro = tenants[r.tenant].pro
        /\ r.row.subdomain = tenants[r.tenant].subdomain
        /\ UNCHANGED <<mode, tenants, locked>>
    BY <1>3, <1>9 DEF WriteSettings, SettingsRequest, request, Holding
  <2> HIDE DEF r
  <2> QED
    BY <2>1, RequestGoesOn
<1>10. CASE CommitSettings(a)
  BY <1>10, RequestEnds DEF CommitSettings, request
<1>11. CASE AbortSettings(a)
  BY <1>11, RequestEnds DEF AbortSettings, request
<1> QED
  BY <1>1, <1>2, <1>4, <1>6, <1>7, <1>8, <1>9, <1>10, <1>11 DEF SettingsStep

\* The operator creates a site where there is none, and no request of one.
LEMMA BootstrapKeepsSite ==
  ASSUME SiteInv, BootstrapInv, BootstrapNext, UNCHANGED <<migrationVars, billingVars>>
  PROVE  SiteInv'
<1>1. UNCHANGED <<mode, locked, settings>>
  BY DEF BootstrapNext, PreviewBootstrap, LockBootstrap, CheckBootstrap, CreateSite, EndBootstrap
<1>2. ASSUME UNCHANGED tenants PROVE SiteInv'
  BY <1>1, <1>2, StripeStays DEF SiteInv, Holding, Held, at, existing, billingVars
<1>3. ASSUME NEW o \in Operator, CreateSite(o) PROVE SiteInv'
  <2> DEFINE row == [createTenant("") EXCEPT !.private = TRUE, !.feed = FALSE]
             id == Min(Tenant \ existing)
  <2>1. existing = {}
    BY <1>3 DEF CreateSite, atBootstrap, BootstrapInv, BootstrapFindingHolds
  <2>2. row \in Row
    BY NewSiteIsRow, RowsStayRows
  <2>3. tenants' = tenants \/ tenants' = [tenants EXCEPT ![id] = row]
    BY <1>3 DEF CreateSite
  <2> HIDE DEF row, id
  <2>4. tenants' \in [Tenant -> Row \cup {None}]
    BY <2>2, <2>3 DEF SiteInv
  <2>5. \A a \in Admin : settings'[a] = None
    BY <1>1, <2>1 DEF SiteInv, Holding
  <2>6. \A t \in Tenant : Held(t)'
    BY <1>1 DEF SiteInv, Held, at, billingVars
  <2> QED
    BY <1>1, <2>1, <2>4, <2>5, <2>6, StripeStays DEF SiteInv, Holding, billingVars
<1> QED
  BY <1>2, <1>3
     DEF BootstrapNext, PreviewBootstrap, LockBootstrap, CheckBootstrap, EndBootstrap

\* Stripe moves, and neither sites nor handlers do.
LEMMA StripeMoves ==
  ASSUME SiteInv, UNCHANGED <<tenantVars, delivery>>, StripeInv'
  PROVE  SiteInv'
<1>1. UNCHANGED <<mode, tenants, settings, locked, delivery>> /\ existing' = existing
  BY DEF tenantVars, existing
<1> QED
  BY <1>1 DEF SiteInv, Holding, Held, Handling, at

\* A handler goes on, and may lock the row of its site as its last step.
LEMMA HandlerGoesOn ==
  ASSUME SiteInv, NEW h \in Handler, NEW d \in Delivery,
         UNCHANGED <<mode, tenants, settings>>, StripeInv',
         delivery' = [delivery EXCEPT ![h] = d], ~at(h, "commit"),
         d.tenant \in existing \cup {None}, d.pc # "commit" => d.tenant # None,
         \/ locked' = locked
         \/ /\ d.tenant # None /\ d.pc = "commit" /\ locked[d.tenant] = None
            /\ locked' = [locked EXCEPT ![d.tenant] = h]
  PROVE  SiteInv'
<1>1. existing' = existing /\ existing \subseteq Tenant
  BY DEF existing
<1>2. /\ delivery' \in [Handler -> Delivery \cup {None}] /\ delivery'[h] = d
      /\ \A g \in Handler \ {h} : delivery'[g] = delivery[g]
  BY DEF SiteInv
<1>3. d # None
  BY NoneIsNoSession
<1>4. /\ locked' \in [Tenant -> Admin \cup Handler \cup {None}]
      /\ \A t \in Tenant : \/ locked'[t] = locked[t]
                           \/ (t = d.tenant /\ d.pc = "commit" /\ locked'[t] = h /\ locked[t] = None)
  BY <1>1 DEF SiteInv
<1>5. ASSUME NEW b \in Admin PROVE Holding(b)'
  <2>1. Holding(b) /\ settings' = settings
    BY DEF SiteInv
  <2>2. settings[b] # None => settings[b].tenant \in Tenant
    BY <1>1, <2>1 DEF Holding
  <2> QED
    BY <1>1, <1>4, <2>1, <2>2, NoneIsNoRow DEF Holding
<1>6. ASSUME NEW t \in Tenant PROVE Held(t)'
  <2>1. Held(t) /\ settings' = settings
    BY DEF SiteInv
  <2>2. CASE locked'[t] = locked[t]
    <3>1. locked'[t] \in Handler => locked'[t] # h /\ delivery'[locked'[t]] = delivery[locked[t]]
      BY <1>2, <2>1, <2>2 DEF Held
    <3> QED
      BY <2>1, <2>2, <3>1 DEF Held, at
  <2>3. CASE locked'[t] # locked[t]
    <3>1. t = d.tenant /\ d.pc = "commit" /\ locked'[t] = h
      BY <1>4, <2>3
    <3> QED
      BY <1>2, <1>3, <3>1, HandlersAssumption DEF Held, at
  <2> QED
    BY <2>2, <2>3
<1>7. ASSUME NEW g \in Handler PROVE Handling(g)'
  BY <1>1, <1>2 DEF SiteInv, Handling
<1> QED
  BY <1>2, <1>4, <1>5, <1>6, <1>7 DEF SiteInv

\* A site stays one when its plan changes, and keeps its names.
LEMMA BilledStaysRow ==
  ASSUME NEW r \in Row, NEW type
  PROVE  /\ billed(r, type) \in Row
         /\ billed(r, type).subdomain = r.subdomain /\ billed(r, type).cname = r.cname
         /\ billed(r, type).pro <=> type = "completed"
  BY DEF billed, Row

\* What a handler writes to the sites when it commits, if it does.
Writes(h) ==
  \/ tenants' = tenants
  \/ \E t \in Tenant :
       /\ locked[t] = h /\ tenants' = [tenants EXCEPT ![t] = billed(tenants[t], typeOf(h))]

\* Whose row a handler has is a site.
LEMMA LockedExists ==
  ASSUME SiteInv, NEW t \in Tenant, NEW h \in Handler, locked[t] = h
  PROVE  t \in existing /\ tenants[t] \in Row /\ at(h, "commit") /\ delivery[h].tenant = t
<1>1. at(h, "commit") /\ delivery[h].tenant = t
  BY DEF SiteInv, Held
<1>2. t \in existing
  BY <1>1, HandlersAssumption DEF SiteInv, Handling, at
<1> QED
  BY <1>1, <1>2 DEF existing, SiteInv

LEMMA CommitWrites ==
  ASSUME SiteInv, NEW h \in Handler, CommitDelivery(h)
  PROVE  Writes(h)
<1>1. tenants' = IF writes(h)
                 THEN [tenants EXCEPT ![delivery[h].tenant] = billed(@, typeOf(h))] ELSE tenants
  BY DEF CommitDelivery
<1>2. CASE ~writes(h)
  BY <1>1, <1>2 DEF Writes
<1>3. ASSUME NEW t \in Tenant, locked[t] = h PROVE Writes(h)
  <2>1. delivery[h].tenant = t /\ writes(h)
    BY <1>3, LockedExists DEF writes
  <2> QED
    BY <1>1, <1>3, <2>1 DEF Writes
<1> QED
  BY <1>2, <1>3 DEF writes

\* A handler ends.
LEMMA HandlerEnds ==
  ASSUME SiteInv, NEW h \in Handler, release(h), Writes(h),
         billing' \in [Tenant -> Bill \cup {None}],
         DOMAIN events' = DOMAIN events, UNCHANGED <<checkout, subscriptions, keys, attempts>>
  PROVE  SiteInv'
<1>1. /\ settings' = settings /\ mode' = mode /\ delivery' = [delivery EXCEPT ![h] = None]
      /\ locked' = [t \in Tenant |-> IF locked[t] = h THEN None ELSE locked[t]]
  BY DEF release, work, unlock
<1>2. /\ tenants' \in [Tenant -> Row \cup {None}]
      /\ \A t \in Tenant : \/ tenants'[t] = tenants[t]
                           \/ locked[t] = h /\ tenants[t] \in Row /\ tenants'[t] \in Row
  <2>1. CASE tenants' = tenants
    BY <2>1 DEF SiteInv
  <2>2. ASSUME NEW t \in Tenant, locked[t] = h,
               tenants' = [tenants EXCEPT ![t] = billed(tenants[t], typeOf(h))]
        PROVE  /\ tenants' \in [Tenant -> Row \cup {None}]
               /\ \A s \in Tenant : \/ tenants'[s] = tenants[s]
                                    \/ locked[s] = h /\ tenants[s] \in Row /\ tenants'[s] \in Row
    <3>1. tenants[t] \in Row
      BY <2>2, LockedExists
    <3>2. billed(tenants[t], typeOf(h)) \in Row
      BY <3>1, BilledStaysRow
    <3> QED
      BY <2>2, <3>1, <3>2 DEF SiteInv
  <2> QED
    BY <2>1, <2>2 DEF Writes
<1>3. existing' = existing /\ existing \subseteq Tenant
  BY <1>2, NoneIsNoRow DEF existing
<1>4. /\ delivery' \in [Handler -> Delivery \cup {None}] /\ delivery'[h] = None
      /\ \A g \in Handler \ {h} : delivery'[g] = delivery[g]
  BY <1>1 DEF SiteInv
<1>5. locked' \in [Tenant -> Admin \cup Handler \cup {None}]
  BY <1>1 DEF SiteInv
<1>6. ASSUME NEW b \in Admin PROVE Holding(b)'
  <2>1. Holding(b) /\ settings'[b] = settings[b]
    BY <1>1 DEF SiteInv
  <2>2. settings[b] # None => settings[b].tenant \in Tenant
    BY <1>3, <2>1 DEF Holding
  <2>3. settings[b] # None /\ settings[b].pc # "lock" =>
          tenants'[settings[b].tenant] = tenants[settings[b].tenant] /\ locked'[settings[b].tenant] = b
    BY <1>1, <1>2, <2>1, <2>2, HandlersAssumption DEF Holding
  <2> QED
    BY <1>3, <2>1, <2>3 DEF Holding
<1>7. ASSUME NEW t \in Tenant PROVE Held(t)'
  <2>1. Held(t) /\ settings' = settings
    BY <1>1 DEF SiteInv
  <2>2. locked'[t] \in Admin \cup Handler => locked'[t] = locked[t] /\ locked[t] # h
    BY <1>1, NoneIsNoRow, HandlersAssumption
  <2>3. locked'[t] \in Handler => delivery'[locked'[t]] = delivery[locked[t]]
    BY <1>4, <2>2
  <2> QED
    BY <2>1, <2>2, <2>3 DEF Held, at
<1>8. ASSUME NEW g \in Handler PROVE Handling(g)'
  BY <1>3, <1>4 DEF SiteInv, Handling
<1>9. StripeInv'
  BY <1>3 DEF SiteInv, StripeInv
<1> QED
  BY <1>1, <1>2, <1>4, <1>5, <1>6, <1>7, <1>8, <1>9 DEF SiteInv

\* A subscription that is first of its session has an id that others cannot have.
LEMMA FirstId == ASSUME NEW s \in Session PROVE <<s, 1>> \in SubscriptionId
  BY HandlersAssumption DEF SubscriptionId

LEMMA StripeKeepsSite ==
  ASSUME SiteInv, CheckoutInv, UNCHANGED tenantVars,
         \/ \E t \in Tenant, s \in Session : createCheckoutSession(t, s)
         \/ \E s \in Session : CompleteCheckout(s)
         \/ \E id \in DOMAIN subscriptions : EndSubscription(id)
  PROVE  SiteInv'
<1>1. existing' = existing /\ existing \subseteq Tenant
  BY DEF existing, tenantVars
<1>2. ASSUME NEW t \in Tenant, NEW s \in Session, createCheckoutSession(t, s) PROVE SiteInv'
  <2>1. PICK m \in {"setup", "subscription"} :
          checkout' = [checkout EXCEPT ![s] = [tenant |-> t, mode |-> m, complete |-> FALSE]]
    BY <1>2 DEF createCheckoutSession
  <2>2. \A z \in Session : checkout'[z] # None => checkout'[z].tenant \in existing
    BY <1>2, <2>1 DEF SiteInv, StripeInv, CheckoutInv, createCheckoutSession
  <2>3. StripeInv'
    BY <1>1, <1>2, <2>2 DEF SiteInv, StripeInv, createCheckoutSession
  <2> QED
    BY <1>2, <2>3, StripeMoves DEF createCheckoutSession
<1>3. ASSUME NEW s \in Session, CompleteCheckout(s) PROVE SiteInv'
  <2>1. checkout[s] # None /\ checkout[s] \in CheckoutSession /\ checkout[s].tenant \in existing
    BY <1>3 DEF CompleteCheckout, CheckoutInv, SiteInv, StripeInv
  <2>2. checkout' = [checkout EXCEPT ![s].complete = TRUE]
    BY <1>3 DEF CompleteCheckout
  <2>3. \A z \in Session : checkout'[z] # None => checkout'[z].tenant \in existing
    BY <2>1, <2>2 DEF SiteInv, StripeInv, CheckoutInv, CheckoutSession
  <2>4. /\ \A id \in DOMAIN subscriptions' :
             subscriptions'[id] \in Subscription /\ subscriptions'[id].tenant \in existing \cup {None}
        /\ DOMAIN subscriptions \subseteq DOMAIN subscriptions'
    <3>1. CASE UNCHANGED subscriptions
      BY <3>1 DEF SiteInv, StripeInv
    <3>2. ASSUME NEW t \in {checkout[s].tenant, None}, NEW status \in Status,
                 subscriptions' =
                   put(subscriptions, <<s, 1>>, [tenant |-> t, began |-> status, ended |-> FALSE])
          PROVE  /\ \A id \in DOMAIN subscriptions' :
                      /\ subscriptions'[id] \in Subscription
                      /\ subscriptions'[id].tenant \in existing \cup {None}
                 /\ DOMAIN subscriptions \subseteq DOMAIN subscriptions'
      BY <1>1, <2>1, <3>2 DEF SiteInv, StripeInv, Subscription, put
    <3> QED
      BY <1>3, <3>1, <3>2 DEF CompleteCheckout
  <2>5. /\ DOMAIN events' = DOMAIN events \cup {<<"completed", s>>}
        /\ DOMAIN attempts' = DOMAIN attempts \cup {<<"completed", s>>}
    BY <1>3 DEF CompleteCheckout, occur, put
  <2>6. <<"completed", s>> \in Completed /\ <<"completed", s>>[1] = "completed"
    BY DEF Completed
  <2>7. UNCHANGED <<billing, keys, delivery>>
    BY <1>3 DEF CompleteCheckout
  <2>8. StripeInv'
    BY <1>1, <2>3, <2>4, <2>5, <2>6, <2>7 DEF SiteInv, StripeInv
  <2> QED
    BY <2>7, <2>8, StripeMoves
<1>4. ASSUME NEW id \in DOMAIN subscriptions, EndSubscription(id) PROVE SiteInv'
  <2>1. /\ subscriptions' = [subscriptions EXCEPT ![id].ended = TRUE]
        /\ DOMAIN events' = DOMAIN events \cup {<<"deleted", id>>}
        /\ DOMAIN attempts' = DOMAIN attempts \cup {<<"deleted", id>>}
        /\ UNCHANGED <<billing, checkout, keys, delivery>>
    BY <1>4 DEF EndSubscription, occur, put
  <2>2. id \in SubscriptionId
    <3>1. id[1] \in Session /\ id = <<id[1], 1>>
      BY DEF CheckoutInv, Foreseen
    <3> QED
      BY <3>1, FirstId
  <2>3. <<"deleted", id>> \in Deleted /\ <<"deleted", id>>[2] = id
    BY <2>2 DEF Deleted
  <2>4. /\ DOMAIN subscriptions' = DOMAIN subscriptions
        /\ \A i \in DOMAIN subscriptions :
             subscriptions'[i] \in Subscription /\ subscriptions'[i].tenant = subscriptions[i].tenant
    BY <2>1 DEF SiteInv, StripeInv, Subscription
  <2>5. StripeInv'
    BY <1>1, <2>1, <2>3, <2>4 DEF SiteInv, StripeInv
  <2> QED
    BY <2>1, <2>5, StripeMoves
<1> QED
  BY <1>2, <1>3, <1>4

\* A handler begins with what the event says of its site.
LEMMA IncomingKeepsSite ==
  ASSUME SiteInv, CheckoutInv, UNCHANGED tenantVars, NEW h \in Handler, NEW e \in DOMAIN events,
         IncomingStripeWebhook(h, e)
  PROVE  SiteInv'
<1> DEFINE s == IF e[1] = "completed" THEN <<e[2], 1>> ELSE None
           pc == IF siteOf(e) = None THEN "commit"
                 ELSE IF e[1] = "completed" /\ checkout[e[2]].mode = "setup" THEN "create"
                 ELSE "billing"
           d == [event |-> e, tenant |-> siteOf(e), bill |-> None, sub |-> s, pc |-> pc]
<1>1. siteOf(e) \in existing \cup {None} /\ existing \subseteq Tenant
  <2>1. CASE e[1] = "completed"
    BY <2>1 DEF siteOf, existing, CheckoutInv, SiteInv, StripeInv
  <2>2. CASE e[1] # "completed"
    <3>1. e[1] = "deleted"
      BY <2>2 DEF SiteInv, StripeInv, Completed, Deleted
    <3> QED
      BY <2>2, <3>1 DEF siteOf, existing, SiteInv, StripeInv
  <2> QED
    BY <2>1, <2>2
<1>2. s \in SubscriptionId \cup {None}
  BY FirstId DEF CheckoutInv
<1>3. pc \in {"create", "billing", "commit"} /\ (pc # "commit" => siteOf(e) # None)
  OBVIOUS
<1>4. e \in Completed \cup Deleted
  BY DEF SiteInv, StripeInv
<1> HIDE DEF s, pc
<1>5. d \in Delivery /\ d.tenant = siteOf(e) /\ d.pc = pc
  BY <1>1, <1>2, <1>3, <1>4 DEF Delivery
<1>6. /\ delivery' = [delivery EXCEPT ![h] = d] /\ ~at(h, "commit")
      /\ UNCHANGED <<mode, tenants, settings, locked, billing, checkout, subscriptions, keys, events>>
      /\ DOMAIN attempts' = DOMAIN attempts
  BY DEF IncomingStripeWebhook, work, at, tenantVars, s, pc
<1> HIDE DEF d
<1>7. StripeInv'
  BY <1>6 DEF SiteInv, StripeInv, existing
<1> QED
  BY <1>1, <1>3, <1>5, <1>6, <1>7, HandlerGoesOn

LEMMA CreationKeepsSite ==
  ASSUME SiteInv, CheckoutInv, UNCHANGED tenantVars, NEW h \in Handler,
         handleSetupCheckoutCompleted(h)
  PROVE  SiteInv'
<1> DEFINE s == sessionOf(h)
<1>1. /\ s \in Session /\ at(h, "create") /\ ~at(h, "commit")
      /\ delivery[h] \in Delivery /\ delivery[h].tenant \in existing
      /\ UNCHANGED <<mode, tenants, settings, locked, billing, checkout, events, attempts>>
  BY Creation DEF at, SiteInv, Handling, tenantVars
<1>2. existing' = existing /\ existing \subseteq Tenant
  BY <1>1 DEF existing
<1>3. ASSUME NEW id \in SubscriptionId, NEW status
      PROVE  answered(h, id, status) \in Delivery /\ answered(h, id, status).tenant \in existing
  BY <1>1, <1>2 DEF answered, Delivery
<1>4. ASSUME NEW id \in SubscriptionId, NEW status, StripeInv',
             delivery' = [delivery EXCEPT ![h] = answered(h, id, status)]
      PROVE  SiteInv'
  <2>1. answered(h, id, status) \in Delivery /\ answered(h, id, status).tenant \in existing
    BY <1>3
  <2>2. answered(h, id, status).tenant # None
    BY <1>2, <2>1, HandlersAssumption
  <2> QED
    BY <1>1, <1>4, <2>1, <2>2, HandlerGoesOn
<1>5. CASE /\ <<s>> \in DOMAIN keys /\ UNCHANGED <<subscriptions, keys>>
           /\ delivery' = [delivery EXCEPT ![h] = answered(h, keys[<<s>>].sub, keys[<<s>>].status)]
  <2>1. keys[<<s>>].sub \in SubscriptionId
    BY <1>5 DEF SiteInv, StripeInv, Answer
  <2>2. StripeInv'
    BY <1>1, <1>2, <1>5 DEF SiteInv, StripeInv
  <2> QED
    BY <1>4, <1>5, <2>1, <2>2
<1>6. ASSUME NEW status \in Status,
             subscriptions' = put(subscriptions, <<s, 1>>,
               [tenant |-> delivery[h].tenant, began |-> status, ended |-> FALSE]),
             keys' = put(keys, <<s>>, [sub |-> <<s, 1>>, status |-> status]),
             delivery' = [delivery EXCEPT ![h] = answered(h, <<s, 1>>, status)]
      PROVE  SiteInv'
  <2>1. <<s, 1>> \in SubscriptionId
    BY <1>1, FirstId
  <2>2. \A id \in DOMAIN subscriptions' :
          subscriptions'[id] \in Subscription /\ subscriptions'[id].tenant \in existing \cup {None}
    BY <1>1, <1>2, <1>6 DEF put, SiteInv, StripeInv, Subscription
  <2>3. \A key \in DOMAIN keys' : keys'[key] \in Answer
    BY <1>6, <2>1 DEF put, SiteInv, StripeInv, Answer
  <2>4. DOMAIN subscriptions \subseteq DOMAIN subscriptions'
    BY <1>6 DEF put
  <2>5. StripeInv'
    BY <1>1, <1>2, <2>2, <2>3, <2>4 DEF SiteInv, StripeInv
  <2> QED
    BY <1>4, <1>6, <2>1, <2>5
<1> HIDE DEF s
<1>7. \/ /\ <<s>> \in DOMAIN keys /\ UNCHANGED <<subscriptions, keys>>
         /\ delivery' = [delivery EXCEPT ![h] = answered(h, keys[<<s>>].sub, keys[<<s>>].status)]
      \/ \E status \in Status :
           /\ subscriptions' = put(subscriptions, <<s, 1>>,
                [tenant |-> delivery[h].tenant, began |-> status, ended |-> FALSE])
           /\ keys' = put(keys, <<s>>, [sub |-> <<s, 1>>, status |-> status])
           /\ delivery' = [delivery EXCEPT ![h] = answered(h, <<s, 1>>, status)]
  BY Creation DEF s
<1> QED
  BY <1>5, <1>6, <1>7

\* The statements about the bill and the site's row.
LEMMA StatementsKeepSite ==
  ASSUME SiteInv, NEW h \in Handler,
         \/ UNCHANGED tenantVars /\ (activateStripeSubscription(h) \/ cancelStripeSubscription(h))
         \/ LockBilledTenant(h)
  PROVE  SiteInv'
<1>1. /\ delivery[h] \in Delivery /\ delivery[h] # None /\ delivery[h].pc \in {"billing", "tenant"}
      /\ ~at(h, "commit") /\ delivery[h].tenant \in existing /\ delivery[h].tenant # None
      /\ delivery[h].tenant \in Tenant
  BY DEF SiteInv, Handling, activateStripeSubscription, cancelStripeSubscription, LockBilledTenant,
         at, existing
<1>2. UNCHANGED <<mode, tenants, settings, billing, checkout, subscriptions, keys, events, attempts>>
  BY DEF activateStripeSubscription, cancelStripeSubscription, LockBilledTenant, tenantVars, stripeVars
<1>3. StripeInv'
  BY <1>2 DEF SiteInv, StripeInv, existing
<1>4. ASSUME NEW bill \in Bill \cup {None}, UNCHANGED tenantVars,
             work(h, [delivery[h] EXCEPT !.pc = "tenant", !.bill = bill])
      PROVE  SiteInv'
  <2> DEFINE d == [delivery[h] EXCEPT !.pc = "tenant", !.bill = bill]
  <2>1. /\ d \in Delivery /\ d.tenant = delivery[h].tenant
        /\ delivery' = [delivery EXCEPT ![h] = d] /\ locked' = locked
    BY <1>1, <1>4 DEF Delivery, work, tenantVars
  <2> HIDE DEF d
  <2> QED
    BY <1>1, <1>2, <1>3, <2>1, HandlerGoesOn
<1>5. CASE UNCHANGED tenantVars /\ activateStripeSubscription(h)
  <2> DEFINE bill == [customer |-> sessionOf(h), sub |-> delivery[h].sub, paddle |-> FALSE]
  <2>1. sessionOf(h) \in Session
    <3>1. delivery[h].event \in Completed \cup Deleted /\ delivery[h].event[1] = "completed"
      BY <1>1, <1>5 DEF Delivery, activateStripeSubscription, typeOf
    <3> QED
      BY <3>1 DEF sessionOf, Completed, Deleted
  <2>2. bill \in Bill
    BY <1>1, <2>1 DEF Bill, Delivery
  <2>3. work(h, [delivery[h] EXCEPT !.pc = "tenant", !.bill = bill])
    BY <1>5 DEF activateStripeSubscription
  <2> HIDE DEF bill
  <2> QED
    BY <1>4, <1>5, <2>2, <2>3
<1>6. CASE UNCHANGED tenantVars /\ cancelStripeSubscription(h)
  <2> DEFINE bill == billing[delivery[h].tenant]
  <2>1. bill \in Bill \cup {None}
    BY <1>1 DEF SiteInv, StripeInv
  <2>2. CASE bill = None
    <3> DEFINE d == [delivery[h] EXCEPT !.pc = "tenant"]
    <3>1. /\ d \in Delivery /\ d.tenant = delivery[h].tenant
          /\ delivery' = [delivery EXCEPT ![h] = d] /\ locked' = locked
      BY <1>1, <1>6, <2>2 DEF Delivery, cancelStripeSubscription, work, tenantVars
    <3> HIDE DEF d
    <3> QED
      BY <1>1, <1>2, <1>3, <3>1, HandlerGoesOn
  <2>3. CASE bill # None
    <3>1. [bill EXCEPT !.sub = None] \in Bill
      BY <2>1, <2>3 DEF Bill
    <3>2. work(h, [delivery[h] EXCEPT !.pc = "tenant", !.bill = [bill EXCEPT !.sub = None]])
      BY <1>6, <2>3 DEF cancelStripeSubscription
    <3> QED
      BY <1>4, <1>6, <3>1, <3>2
  <2> QED
    BY <2>2, <2>3
<1>7. CASE LockBilledTenant(h)
  <2> DEFINE d == [delivery[h] EXCEPT !.pc = "commit"]
  <2>1. /\ d \in Delivery /\ d.tenant = delivery[h].tenant /\ d.pc = "commit"
        /\ delivery' = [delivery EXCEPT ![h] = d]
        /\ locked[d.tenant] = None /\ locked' = [locked EXCEPT ![d.tenant] = h]
    BY <1>1, <1>7 DEF Delivery, LockBilledTenant, work
  <2> HIDE DEF d
  <2> QED
    BY <1>1, <1>2, <1>3, <2>1, HandlerGoesOn
<1> QED
  BY <1>5, <1>6, <1>7

\* Who commits, whose commit fails, and who fails before.
LEMMA EndsKeepSite ==
  ASSUME SiteInv, NEW h \in Handler, CommitDelivery(h) \/ CommitFails(h) \/ FailDelivery(h)
  PROVE  SiteInv'
<1>1. /\ release(h) /\ DOMAIN events' = DOMAIN events
      /\ UNCHANGED <<checkout, subscriptions, keys, attempts>> /\ delivery[h] # None
  BY DEF CommitDelivery, CommitFails, FailDelivery, stripeVars, answer, at
<1>2. CASE CommitDelivery(h)
  <2>1. billing' = IF delivery[h].bill # None
                   THEN [billing EXCEPT ![delivery[h].tenant] = delivery[h].bill] ELSE billing
    BY <1>2 DEF CommitDelivery
  <2>2. delivery[h] \in Delivery
    BY <1>1 DEF SiteInv
  <2>3. delivery[h].bill \in Bill \cup {None}
    BY <2>2 DEF Delivery
  <2>4. billing' \in [Tenant -> Bill \cup {None}]
    BY <2>1, <2>3 DEF SiteInv, StripeInv
  <2> QED
    BY <1>1, <1>2, <2>4, CommitWrites, HandlerEnds
<1>3. CASE CommitFails(h) \/ FailDelivery(h)
  <2>1. Writes(h) /\ billing' \in [Tenant -> Bill \cup {None}]
    BY <1>3 DEF Writes, CommitFails, FailDelivery, SiteInv, StripeInv
  <2> QED
    BY <1>1, <2>1, HandlerEnds
<1> QED
  BY <1>2, <1>3

LEMMA SiteStep == SiteInv /\ CheckoutInv /\ BootstrapInv /\ [Next]_vars => SiteInv'
<1> SUFFICES ASSUME SiteInv, CheckoutInv, BootstrapInv, [Next]_vars PROVE SiteInv'
  OBVIOUS
<1>1. ASSUME UNCHANGED <<tenantVars, billingVars>> PROVE SiteInv'
  BY <1>1, StripeMoves, StripeStays DEF tenantVars, billingVars, existing
<1>2. CASE BillingNext
  <2>1. ASSUME NEW t \in Tenant, UNCHANGED tenantVars, CreateStripePortalSession(t) PROVE SiteInv'
    BY <2>1, StripeKeepsSite DEF CreateStripePortalSession
  <2> QED
    BY <1>2, <2>1, StripeKeepsSite, IncomingKeepsSite, CreationKeepsSite, StatementsKeepSite, EndsKeepSite
       DEF BillingNext, DeliveryStep
<1> QED
  BY <1>1, <1>2, SettingsKeepSite, BootstrapKeepsSite DEF Next, vars

\* Each variable of a site has its type: no tenant is billed that is not there,
\* who holds a row is at work on it, and no handler is without its event.
THEOREM SiteTypes == Spec => []TypeOK
<1>1. MigrationInv /\ BootstrapInv /\ CheckoutInv /\ SiteInv => TypeOK
  <2> SUFFICES ASSUME MigrationInv, BootstrapInv, CheckoutInv, SiteInv PROVE TypeOK
    OBVIOUS
  <2>1. MigrationTypeOK
    BY DEF MigrationInv
  <2>2. TenantTypeOK
    BY DEF TenantTypeOK, BootstrapInv, SiteInv, Holding, Held
  <2>3. DOMAIN subscriptions \subseteq SubscriptionId
    BY FirstId DEF CheckoutInv, Foreseen
  <2>4. BillingTypeOK
    BY <2>3 DEF BillingTypeOK, CheckoutInv, SiteInv, StripeInv, Held
  <2> QED
    BY <2>1, <2>2, <2>4 DEF TypeOK
<1> QED
  BY <1>1, MigrationInitially, MigrationStep, CheckoutInitially, CheckoutStep, SiteInitially, SiteStep,
     BootstrapInitially, BootstrapStep, PTL DEF Spec
-----------------------------------------------------------------------------
\* A custom domain that a request is about to write is one that a form accepts;
\* from its statement on it is free, and no other request's.
Writing(a) ==
  settings[a] # None /\ settings[a].pc \in {"write", "commit"} /\ settings[a].row.cname # "" =>
    /\ settings[a].row.cname \notin NotHostname \cup UnderDomain
    /\ settings[a].pc = "commit" =>
         /\ isCNAMEAvailable(settings[a].row.cname, settings[a].tenant)
         /\ \A b \in Admin \ {a} :
              settings[b] # None /\ settings[b].pc = "commit" =>
                settings[b].row.cname # settings[a].row.cname

RouteInv == mode = "multi" => NamesApart(tenants) /\ \A a \in Admin : Writing(a)

LEMMA RouteInitially == Init => RouteInv
<1> SUFFICES ASSUME Init PROVE RouteInv
  OBVIOUS
<1>1. PICK s \in Scopes : TenantInit(s.mode, s.tenants)
  BY DEF Init
<1> QED
  BY <1>1, ScopesAssumption DEF TenantInit, RouteInv, Writing

\* What keeps the sites' names, and the requests, keeps where names lead.
LEMMA SameNamesKeep ==
  ASSUME RouteInv, UNCHANGED <<mode, settings>>,
         \A t \in Tenant :
           /\ tenants'[t] = None <=> tenants[t] = None
           /\ tenants[t] # None => /\ tenants'[t].cname = tenants[t].cname
                                   /\ tenants'[t].subdomain = tenants[t].subdomain
  PROVE  RouteInv'
<1> SUFFICES ASSUME mode = "multi" PROVE NamesApart(tenants)' /\ \A a \in Admin : Writing(a)'
  BY DEF RouteInv
<1>1. existing' = existing /\ existing \subseteq Tenant
  BY DEF existing
<1>2. NamesApart(tenants')
  <2>1. NamesApart(tenants)
    BY DEF RouteInv
  <2> SUFFICES ASSUME NEW t \in Tenant, tenants'[t] # None
               PROVE  /\ tenants'[t].subdomain \in Host => tenants'[t].subdomain \in NotHostname \ UnderDomain
                      /\ tenants'[t].cname # "" => tenants'[t].cname \notin NotHostname \cup UnderDomain
                      /\ \A s \in Tenant \ {t} : tenants'[s] # None =>
                           /\ tenants'[s].subdomain # tenants'[t].subdomain
                           /\ tenants'[t].cname # "" => tenants'[s].cname # tenants'[t].cname
    BY DEF NamesApart
  <2>2. tenants[t] # None /\ tenants'[t].cname = tenants[t].cname /\ tenants'[t].subdomain = tenants[t].subdomain
    OBVIOUS
  <2>3. /\ tenants[t].subdomain \in Host => tenants[t].subdomain \in NotHostname \ UnderDomain
        /\ tenants[t].cname # "" => tenants[t].cname \notin NotHostname \cup UnderDomain
        /\ \A s \in Tenant \ {t} : tenants[s] # None =>
             /\ tenants[s].subdomain # tenants[t].subdomain
             /\ tenants[t].cname # "" => tenants[s].cname # tenants[t].cname
    BY <2>1, <2>2 DEF NamesApart
  <2>4. \A s \in Tenant \ {t} : tenants'[s] # None =>
          tenants[s] # None /\ tenants'[s].cname = tenants[s].cname /\ tenants'[s].subdomain = tenants[s].subdomain
    OBVIOUS
  <2> QED
    BY <2>2, <2>3, <2>4
<1>3. \A c, t : isCNAMEAvailable(c, t) => isCNAMEAvailable(c, t)'
  BY <1>1 DEF isCNAMEAvailable, existing
<1>4. \A a \in Admin : Writing(a)'
  BY <1>3 DEF RouteInv, Writing
<1> QED
  BY <1>2, <1>4

\* A request goes on: it has a domain that a form accepts, or that its site has,
\* and its statement finds the domain free.
LEMMA RequestKeepsRoutes ==
  ASSUME RouteInv, SiteInv, NEW a \in Admin, NEW r,
         UNCHANGED <<mode, tenants>>, settings' = [settings EXCEPT ![a] = r],
         mode = "multi" /\ r # None /\ r.pc \in {"write", "commit"} /\ r.row.cname # "" =>
           /\ r.row.cname \notin NotHostname \cup UnderDomain
           /\ r.pc = "commit" =>
                /\ isCNAMEAvailable(r.row.cname, r.tenant)
                /\ \A b \in Admin \ {a} :
                     settings[b] # None /\ settings[b].pc = "commit" =>
                       settings[b].row.cname # r.row.cname
  PROVE  RouteInv'
<1> SUFFICES ASSUME mode = "multi" PROVE NamesApart(tenants)' /\ \A b \in Admin : Writing(b)'
  BY DEF RouteInv
<1>1. settings'[a] = r /\ \A b \in Admin \ {a} : settings'[b] = settings[b]
  BY DEF SiteInv
<1>2. \A c, t : isCNAMEAvailable(c, t)' <=> isCNAMEAvailable(c, t)
  BY DEF isCNAMEAvailable, existing
<1>3. ASSUME NEW b \in Admin PROVE Writing(b)'
  <2>1. CASE b = a
    BY <1>1, <1>2, <2>1 DEF Writing
  <2>2. CASE b # a
    <3>1. Writing(b)
      BY DEF RouteInv
    <3> QED
      BY <1>1, <1>2, <2>2, <3>1 DEF Writing
  <2> QED
    BY <2>1, <2>2
<1>4. NamesApart(tenants')
  BY DEF RouteInv
<1> QED
  BY <1>3, <1>4

\* A request commits: its domain was free, and is still; no other had it.
LEMMA CommitKeepsRoutes ==
  ASSUME RouteInv, SiteInv, NEW a \in Admin, CommitSettings(a)
  PROVE  RouteInv'
<1> DEFINE t0 == settings[a].tenant
           row == settings[a].row
<1>1. /\ settings[a] # None /\ settings[a].pc = "commit" /\ mode' = mode
      /\ tenants' = [tenants EXCEPT ![t0] = row] /\ settings' = [settings EXCEPT ![a] = None]
  BY DEF CommitSettings, request
<1> SUFFICES ASSUME mode = "multi" PROVE NamesApart(tenants)' /\ \A b \in Admin : Writing(b)'
  BY <1>1 DEF RouteInv
<1>2. /\ t0 \in existing /\ existing \subseteq Tenant /\ locked[t0] = a
      /\ row \in Row /\ row # None /\ row.subdomain = tenants[t0].subdomain
  BY <1>1, NoneIsNoRow DEF SiteInv, Holding, existing
<1>3. /\ tenants'[t0] = row /\ \A t \in Tenant \ {t0} : tenants'[t] = tenants[t]
      /\ settings'[a] = None /\ \A b \in Admin \ {a} : settings'[b] = settings[b]
  BY <1>1, <1>2 DEF SiteInv
<1>4. existing' = existing
  BY <1>2, <1>3 DEF existing
<1>5. row.cname # "" => /\ row.cname \notin NotHostname \cup UnderDomain
                        /\ isCNAMEAvailable(row.cname, t0)
                        /\ \A b \in Admin \ {a} :
                             settings[b] # None /\ settings[b].pc = "commit" =>
                               settings[b].row.cname # row.cname
  BY <1>1 DEF RouteInv, Writing
<1> HIDE DEF t0, row
<1>6. NamesApart(tenants')
  <2> SUFFICES ASSUME NEW t \in Tenant, tenants'[t] # None
               PROVE  /\ tenants'[t].subdomain \in Host =>
                           tenants'[t].subdomain \in NotHostname \ UnderDomain
                      /\ tenants'[t].cname # "" => tenants'[t].cname \notin NotHostname \cup UnderDomain
                      /\ \A s \in Tenant \ {t} : tenants'[s] # None =>
                           /\ tenants'[s].subdomain # tenants'[t].subdomain
                           /\ tenants'[t].cname # "" => tenants'[s].cname # tenants'[t].cname
    BY DEF NamesApart
  <2>1. /\ tenants[t] # None /\ tenants'[t].subdomain = tenants[t].subdomain
        /\ \A s \in Tenant : tenants'[s] # None =>
             tenants[s] # None /\ tenants'[s].subdomain = tenants[s].subdomain
    BY <1>2, <1>3 DEF existing
  <2>2. /\ tenants[t].subdomain \in Host => tenants[t].subdomain \in NotHostname \ UnderDomain
        /\ tenants[t].cname # "" => tenants[t].cname \notin NotHostname \cup UnderDomain
        /\ \A s \in Tenant \ {t} : tenants[s] # None =>
             /\ tenants[s].subdomain # tenants[t].subdomain
             /\ tenants[t].cname # "" => tenants[s].cname # tenants[t].cname
    BY <2>1 DEF RouteInv, NamesApart
  <2>3. CASE t = t0
    <3>1. row.cname # "" =>
            \A s \in Tenant \ {t} : tenants[s] # None => tenants[s].cname # row.cname
      BY <1>5, <2>3 DEF isCNAMEAvailable, existing
    <3>2. tenants'[t] = row /\ \A s \in Tenant \ {t} : tenants'[s] = tenants[s]
      BY <1>3, <2>3
    <3> QED
      BY <1>5, <2>1, <2>2, <3>1, <3>2
  <2>4. CASE t # t0
    <3>1. tenants[t].cname # "" => row.cname # tenants[t].cname
      BY <1>5, <2>1, <2>4 DEF isCNAMEAvailable, existing
    <3> QED
      BY <1>3, <2>1, <2>2, <2>4, <3>1
  <2> QED
    BY <2>3, <2>4
<1>7. ASSUME NEW b \in Admin PROVE Writing(b)'
  <2>1. CASE b = a
    BY <1>3, <2>1 DEF Writing
  <2>2. CASE b # a
    <3>1. Writing(b) /\ settings'[b] = settings[b]
      BY <1>3, <2>2 DEF RouteInv
    <3>2. ASSUME settings[b] # None, settings[b].pc = "commit", settings[b].row.cname # "",
                 isCNAMEAvailable(settings[b].row.cname, settings[b].tenant)
          PROVE  isCNAMEAvailable(settings[b].row.cname, settings[b].tenant)'
      <4>1. row.cname # settings[b].row.cname
        BY <1>5, <2>2, <3>2
      <4>2. \A s \in existing \ {settings[b].tenant} : tenants'[s].cname # settings[b].row.cname
        BY <1>2, <1>3, <3>2, <4>1 DEF isCNAMEAvailable
      <4> QED
        BY <1>4, <3>1, <4>2 DEF isCNAMEAvailable
    <3>3. settings'[a] = None
      BY <1>3
    <3>4. \A c \in Admin : settings'[c] # None => settings'[c] = settings[c]
      BY <1>3
    <3> QED
      BY <3>1, <3>2, <3>4 DEF Writing
  <2> QED
    BY <2>1, <2>2
<1> QED
  BY <1>6, <1>7

LEMMA SettingsKeepRoutes ==
  ASSUME RouteInv, SiteInv, NEW a \in Admin,
         BeginSettings(a) \/ SettingsStep(a) \/ AbortSettings(a)
  PROVE  RouteInv'
<1>1. ASSUME settings[a] # None
      PROVE  /\ settings[a] \in SettingsRequest /\ settings[a].tenant \in Tenant
             /\ tenants[settings[a].tenant] \in Row
  <2>1. Holding(a) /\ settings[a] \in SettingsRequest
    BY <1>1 DEF SiteInv
  <2> QED
    BY <1>1, <2>1 DEF SiteInv, existing, Holding
<1>2. CASE BeginSettings(a)
  <2>1. PICK r : settings' = [settings EXCEPT ![a] = r] /\ r.pc = "lock" /\ UNCHANGED <<mode, tenants>>
    BY <1>2 DEF BeginSettings, request
  <2> QED
    BY <2>1, RequestKeepsRoutes
<1>3. CASE LockTenant(a)
  <2>1. PICK r : settings' = [settings EXCEPT ![a] = r] /\ r.pc = "validate" /\ UNCHANGED <<mode, tenants>>
    BY <1>1, <1>3 DEF LockTenant, request, SettingsRequest
  <2> QED
    BY <2>1, RequestKeepsRoutes
<1>4. ASSUME settings[a] # None, UNCHANGED <<mode, tenants>>, NEW row,
             request(a, [settings[a] EXCEPT !.pc = "write", !.row = row]),
             mode = "multi" /\ row.cname # "" => row.cname \notin NotHostname \cup UnderDomain
      PROVE  RouteInv'
  <2> DEFINE r == [settings[a] EXCEPT !.pc = "write", !.row = row]
  <2>1. settings' = [settings EXCEPT ![a] = r] /\ r.pc = "write" /\ r.row = row
    BY <1>1, <1>4 DEF request, SettingsRequest
  <2> HIDE DEF r
  <2> QED
    BY <1>4, <2>1, RequestKeepsRoutes
<1>5. ASSUME settings[a] # None, mode = "multi"
      PROVE  LET row == tenants[settings[a].tenant]
             IN row.cname # "" => row.cname \notin NotHostname \cup UnderDomain
  BY <1>1, <1>5, NoneIsNoRow DEF RouteInv, NamesApart
<1>6. CASE UpdateTenantSettings(a)
  <2> DEFINE row(c, l) == [tenants[settings[a].tenant] EXCEPT !.cname = c, !.logo = l]
  <2>1. PICK c \in Host \cup {""}, l \in Logo \cup {None, settings[a].seen} :
          /\ c # "" => validCNAME(c, settings[a].tenant)
          /\ request(a, [settings[a] EXCEPT !.pc = "write", !.row = row(c, l)])
    BY <1>6 DEF UpdateTenantSettings
  <2>2. row(c, l).cname = c
    BY <1>1, <1>6 DEF UpdateTenantSettings, Row
  <2> HIDE DEF row
  <2> QED
    BY <1>4, <1>6, <2>1, <2>2 DEF UpdateTenantSettings, validCNAME
<1>7. CASE UpdateTenantPrivacySettings(a)
  <2> DEFINE row == [tenants[settings[a].tenant] EXCEPT !.private = TRUE, !.feed = FALSE]
  <2>1. row.cname = tenants[settings[a].tenant].cname
    BY <1>1, <1>7 DEF UpdateTenantPrivacySettings, Row
  <2>2. request(a, [settings[a] EXCEPT !.pc = "write", !.row = row])
    BY <1>7 DEF UpdateTenantPrivacySettings
  <2> HIDE DEF row
  <2> QED
    BY <1>4, <1>5, <1>7, <2>1, <2>2 DEF UpdateTenantPrivacySettings
<1>8. CASE UpdateTenantAdvancedSettings(a)
  BY <1>4, <1>5, <1>8 DEF UpdateTenantAdvancedSettings
<1>9. CASE WriteSettings(a)
  <2> DEFINE r == [settings[a] EXCEPT !.pc = "commit"]
  <2>1. /\ settings' = [settings EXCEPT ![a] = r] /\ r.pc = "commit"
        /\ r.row = settings[a].row /\ r.tenant = settings[a].tenant
    BY <1>1, <1>9 DEF WriteSettings, request, SettingsRequest
  <2> HIDE DEF r
  <2>2. mode = "multi" /\ r.row.cname # "" => r.row.cname \notin NotHostname \cup UnderDomain
    BY <1>9, <2>1 DEF RouteInv, WriteSettings, Writing
  <2>3. r.row.cname # "" =>
          /\ isCNAMEAvailable(r.row.cname, r.tenant)
          /\ \A b \in Admin \ {a} :
               settings[b] # None /\ settings[b].pc = "commit" => settings[b].row.cname # r.row.cname
    BY <1>9, <2>1 DEF WriteSettings
  <2>4. UNCHANGED <<mode, tenants>>
    BY <1>9 DEF WriteSettings
  <2> QED
    BY <2>1, <2>2, <2>3, <2>4, RequestKeepsRoutes
<1>10. CASE AbortSettings(a)
  BY <1>10, RequestKeepsRoutes DEF AbortSettings, request
<1> QED
  BY <1>2, <1>3, <1>6, <1>7, <1>8, <1>9, <1>10, CommitKeepsRoutes DEF SettingsStep

LEMMA RouteStep == RouteInv /\ SiteInv /\ BootstrapInv /\ [Next]_vars => RouteInv'
<1> SUFFICES ASSUME RouteInv, SiteInv, BootstrapInv, [Next]_vars PROVE RouteInv'
  OBVIOUS
<1>1. ASSUME UNCHANGED <<mode, settings, tenants>> PROVE RouteInv'
  BY <1>1, SameNamesKeep
<1>2. CASE BootstrapNext
  <2>1. UNCHANGED <<mode, settings>>
    BY <1>2 DEF BootstrapNext, PreviewBootstrap, LockBootstrap, CheckBootstrap, CreateSite, EndBootstrap
  <2>2. CASE mode # "multi"
    BY <2>1, <2>2 DEF RouteInv
  <2>3. CASE mode = "multi"
    <3>1. \A o \in Operator : ~CreateSite(o)
      BY <2>3 DEF BootstrapInv, CreateSite, atBootstrap
    <3> QED
      BY <1>1, <1>2, <2>1, <3>1
         DEF BootstrapNext, PreviewBootstrap, LockBootstrap, CheckBootstrap, EndBootstrap
  <2> QED
    BY <2>2, <2>3
<1>3. CASE SettingsNext
  BY <1>3, SettingsKeepRoutes DEF SettingsNext
<1>4. ASSUME NEW h \in Handler, CommitDelivery(h) PROVE RouteInv'
  <2>1. Writes(h) /\ UNCHANGED <<mode, settings>>
    BY <1>4, CommitWrites DEF CommitDelivery, release
  <2>2. CASE UNCHANGED tenants
    BY <1>1, <2>1, <2>2
  <2>3. ASSUME NEW t \in Tenant, locked[t] = h,
               tenants' = [tenants EXCEPT ![t] = billed(tenants[t], typeOf(h))]
        PROVE  RouteInv'
    <3>1. tenants[t] \in Row
      BY <2>3, LockedExists
    <3>2. /\ tenants'[t] \in Row /\ tenants'[t].cname = tenants[t].cname
          /\ tenants'[t].subdomain = tenants[t].subdomain
          /\ \A s \in Tenant \ {t} : tenants'[s] = tenants[s]
      BY <2>3, <3>1, BilledStaysRow DEF SiteInv
    <3> QED
      BY <2>1, <3>1, <3>2, NoneIsNoRow, SameNamesKeep
  <2> QED
    BY <2>1, <2>2, <2>3 DEF Writes
<1>5. CASE BillingNext
  <2>1. ASSUME NEW h \in Handler, LockBilledTenant(h) \/ CommitFails(h) \/ FailDelivery(h)
        PROVE  UNCHANGED <<mode, settings, tenants>>
    BY <2>1 DEF LockBilledTenant, CommitFails, FailDelivery, release
  <2> QED
    BY <1>1, <1>4, <1>5, <2>1 DEF BillingNext, DeliveryStep, tenantVars
<1> QED
  BY <1>1, <1>2, <1>3, <1>5 DEF Next, vars, tenantVars

\* A host name under the site's domain leads to the site of that subdomain, and a
\* custom domain to the one who set it, whatever others set at the same time,
\* unless what env.Subdomain makes of it is another's subdomain (env.go:254).
THEOREM NamesLeadHome == Spec => []RoutedToOwner
<1>1. RouteInv /\ SiteInv => RoutedToOwner
  <2> SUFFICES ASSUME RouteInv, SiteInv, mode = "multi", NEW h \in Host, NEW t \in existing,
                      \/ h \in UnderDomain /\ Subdomain[h] = tenants[t].subdomain
                      \/ /\ tenants[t].cname = h
                         /\ \A s \in existing \ {t} : tenants[s].subdomain # Subdomain[h]
               PROVE  getTenantByDomain(h) = {t}
    BY DEF RoutedToOwner
  <2> DEFINE found == {s \in existing : \/ tenants[s].subdomain \in {Subdomain[h], h}
                                        \/ tenants[s].cname = h}
  <2>1. h # "" /\ t \in found /\ NamesApart(tenants) /\ existing \subseteq Tenant
    BY HostAssumption DEF RouteInv, existing
  <2>2. ASSUME NEW s \in found, s # t PROVE FALSE
    <3>1. s \in Tenant \ {t} /\ tenants[s] # None /\ t \in Tenant /\ tenants[t] # None
      BY <2>2 DEF existing
    <3>2. /\ tenants[s].subdomain # tenants[t].subdomain
          /\ tenants[t].cname # "" => tenants[s].cname # tenants[t].cname
          /\ tenants[s].subdomain \in Host => tenants[s].subdomain \in NotHostname \ UnderDomain
          /\ tenants[s].cname # "" => tenants[s].cname \notin NotHostname \cup UnderDomain
          /\ tenants[t].cname # "" => tenants[t].cname \notin NotHostname \cup UnderDomain
      BY <2>1, <3>1 DEF NamesApart
    <3> QED
      BY <2>1, <2>2, <3>2
  <2>3. found = {t}
    BY <2>1, <2>2
  <2>4. Collation[tenants[t].cname] >= Collation[tenants[t].cname]
    <3>1. tenants[t].cname \in Host \cup {""}
      BY <2>1 DEF SiteInv, existing, Row
    <3>2. Collation[tenants[t].cname] \in Nat
      BY <3>1, HostAssumption
    <3> QED
      BY <3>2
  <2>5. getTenantByDomain(h) =
          {x \in found : \A s \in found : Collation[tenants[x].cname] >= Collation[tenants[s].cname]}
    BY DEF getTenantByDomain
  <2> HIDE DEF found
  <2> QED
    BY <2>3, <2>4, <2>5
<1> QED
  BY <1>1, BootstrapInitially, BootstrapStep, CheckoutInitially, CheckoutStep, SiteInitially, SiteStep,
     RouteInitially, RouteStep, PTL DEF Spec
-----------------------------------------------------------------------------
\* A subscription of a checkout of the present kind began active or with a trial.
Begun(id) == isSetup(id[1]) => subscriptions[id].began # "incomplete"

\* A subscription that a plan may rest on, of a checkout of that site.
Backed(id, t) ==
  /\ id \in DOMAIN subscriptions /\ Begun(id)
  /\ checkout[id[1]].tenant = t

\* A handler of a completed checkout goes on to write only with such a
\* subscription; a bill is written with the site's row, and the row with a bill.
Earned(h) ==
  delivery[h] # None =>
    /\ delivery[h].pc \in {"create", "billing"} => delivery[h].bill = None
    /\ delivery[h].event[1] = "completed" =>
         /\ checkout[delivery[h].event[2]] # None
         /\ delivery[h].tenant = checkout[delivery[h].event[2]].tenant
         /\ delivery[h].pc \in {"billing", "tenant"} => Backed(delivery[h].sub, delivery[h].tenant)
         /\ delivery[h].pc = "tenant" => delivery[h].bill # None
         /\ delivery[h].bill # None =>
              delivery[h].bill.sub # None /\ Backed(delivery[h].bill.sub, delivery[h].tenant)
         /\ delivery[h].pc = "commit" /\ writes(h) => delivery[h].bill # None
    /\ delivery[h].event[1] # "completed" =>
         /\ delivery[h].pc # "create"
         /\ delivery[h].bill # None => delivery[h].bill.sub = None
    /\ delivery[h].pc = "commit" /\ delivery[h].bill # None =>
         delivery[h].tenant \in Tenant /\ locked[delivery[h].tenant] = h

\* What is written of a site's plan.
Plan(t) ==
  /\ billing[t] # None /\ billing[t].sub # None => Backed(billing[t].sub, t)
  /\ tenants[t] # None /\ tenants[t].pro =>
       billing[t] # None /\ (billing[t].sub = None => billing[t].paddle)

\* What Stripe answered to a creation is so.
AnswersTrue ==
  \A s \in Session : <<s>> \in DOMAIN keys =>
    /\ keys[<<s>>].sub = <<s, 1>> /\ <<s, 1>> \in DOMAIN subscriptions
    /\ keys[<<s>>].status # "incomplete" => subscriptions[<<s, 1>>].began # "incomplete"

\* A completed session of the older kind has its subscription.
OlderSubscribed ==
  \A s \in Session : checkout[s] # None /\ checkout[s].complete /\ ~isSetup(s) =>
    <<s, 1>> \in DOMAIN subscriptions

EventsTrue == \A e \in DOMAIN events : e[1] = "completed" => checkout[e[2]].complete

BackedInv ==
  /\ AnswersTrue /\ OlderSubscribed /\ EventsTrue
  /\ \A h \in Handler : Earned(h)
  /\ \A t \in Tenant : Plan(t)

LEMMA BackedInitially == Init => BackedInv
<1> SUFFICES ASSUME Init PROVE BackedInv
  OBVIOUS
<1>1. PICK s \in Scopes : TenantInit(s.mode, s.tenants) /\ BillingInit(s.billing)
  BY DEF Init
<1>2. /\ tenants = s.tenants /\ billing = s.billing
      /\ checkout = [c \in Session |-> None] /\ delivery = [h \in Handler |-> None]
      /\ keys = << >> /\ events = << >>
  BY <1>1 DEF TenantInit, BillingInit
<1>3. \A t \in Tenant : Plan(t)
  BY <1>2, ScopesAssumption DEF Plan
<1> QED
  BY <1>2, <1>3 DEF BackedInv, AnswersTrue, OlderSubscribed, EventsTrue, Earned

\* What a plan may rest on stays so, and whose checkout it was.
EvidenceStays ==
  /\ \A id \in DOMAIN subscriptions :
       id \in DOMAIN subscriptions' /\ (Begun(id) => Begun(id)')
  /\ \A s \in Session : checkout[s] # None =>
       checkout'[s] # None /\ checkout'[s].tenant = checkout[s].tenant

LEMMA BackedStays ==
  ASSUME CheckoutInv, EvidenceStays
  PROVE  \A id, t : Backed(id, t) => Backed(id, t)'
<1> SUFFICES ASSUME NEW id, NEW t, Backed(id, t) PROVE Backed(id, t)'
  OBVIOUS
<1>1. id \in DOMAIN subscriptions /\ id[1] \in Session /\ checkout[id[1]] # None
  BY DEF Backed, CheckoutInv, Foreseen
<1> QED
  BY <1>1 DEF EvidenceStays, Backed

\* A handler that does not move has earned what it had.
LEMMA EarnedStays ==
  ASSUME CheckoutInv, SiteInv, EvidenceStays, NEW h \in Handler, Earned(h),
         delivery'[h] = delivery[h], \A t \in Tenant : locked'[t] = h <=> locked[t] = h
  PROVE  Earned(h)'
<1> SUFFICES ASSUME delivery[h] # None PROVE Earned(h)'
  BY DEF Earned
<1>1. delivery[h].event \in Completed \cup Deleted
  <2>1. delivery[h] \in Delivery
    BY DEF SiteInv
  <2> QED
    BY <2>1 DEF Delivery
<1>2. delivery[h].event[1] = "completed" => delivery[h].event[2] \in Session
  BY <1>1 DEF Completed, Deleted
<1>3. delivery[h].event[1] = "completed" =>
        /\ checkout'[delivery[h].event[2]] # None
        /\ delivery[h].tenant = checkout'[delivery[h].event[2]].tenant
  BY <1>2 DEF Earned, EvidenceStays
<1>4. writes(h)' <=> writes(h)
  BY DEF writes
<1>5. delivery[h].pc = "commit" /\ delivery[h].bill # None =>
        delivery[h].tenant \in Tenant /\ locked'[delivery[h].tenant] = h
  BY DEF Earned
<1>6. \A id, t : Backed(id, t) => Backed(id, t)'
  BY BackedStays
<1> QED
  BY <1>3, <1>4, <1>5, <1>6 DEF Earned

\* A plan that is not written stays earned, when the site's row does not say more.
LEMMA PlanStays ==
  ASSUME CheckoutInv, EvidenceStays, NEW t \in Tenant, Plan(t), billing'[t] = billing[t],
         tenants'[t] # None /\ tenants'[t].pro => tenants[t] # None /\ tenants[t].pro
  PROVE  Plan(t)'
  BY BackedStays DEF Plan

\* Nothing happens at Stripe.
LEMMA AnswersStay ==
  ASSUME BackedInv, UNCHANGED <<checkout, subscriptions, keys>>, DOMAIN events' = DOMAIN events
  PROVE  AnswersTrue' /\ OlderSubscribed' /\ EventsTrue' /\ EvidenceStays
  BY DEF BackedInv, AnswersTrue, OlderSubscribed, EventsTrue, isSetup, Begun, EvidenceStays

\* Sites change, and no plan does.
LEMMA SitesKeepBacked ==
  ASSUME BackedInv, CheckoutInv, SiteInv, UNCHANGED billingVars,
         \A t \in Tenant : tenants'[t] # None /\ tenants'[t].pro => tenants[t] # None /\ tenants[t].pro,
         \A h \in Handler, t \in Tenant : locked'[t] = h <=> locked[t] = h
  PROVE  BackedInv'
<1>1. UNCHANGED <<billing, checkout, subscriptions, keys, events, delivery>>
  BY DEF billingVars
<1>2. AnswersTrue' /\ OlderSubscribed' /\ EventsTrue' /\ EvidenceStays
  BY <1>1, AnswersStay
<1>3. \A h \in Handler : Earned(h)'
  BY <1>1, <1>2, EarnedStays DEF BackedInv
<1>4. \A t \in Tenant : Plan(t)'
  BY <1>1, <1>2, PlanStays DEF BackedInv
<1> QED
  BY <1>2, <1>3, <1>4 DEF BackedInv

LEMMA SettingsKeepBacked ==
  ASSUME BackedInv, CheckoutInv, SiteInv, UNCHANGED billingVars, NEW a \in Admin,
         BeginSettings(a) \/ SettingsStep(a) \/ AbortSettings(a)
  PROVE  BackedInv'
<1>1. \A h \in Handler, t \in Tenant : locked'[t] = h <=> locked[t] = h
  <2>1. CASE UNCHANGED locked
    BY <2>1
  <2>2. CASE LockTenant(a)
    BY <2>2, HandlersAssumption DEF LockTenant, SiteInv
  <2>3. CASE unlock(a)
    BY <2>3, HandlersAssumption DEF unlock
  <2> QED
    BY <2>1, <2>2, <2>3
       DEF BeginSettings, SettingsStep, UpdateTenantSettings, UpdateTenantPrivacySettings,
           UpdateTenantAdvancedSettings, WriteSettings, CommitSettings, AbortSettings
<1>2. CASE UNCHANGED tenants
  BY <1>1, <1>2, SitesKeepBacked
<1>3. CASE CommitSettings(a)
  <2>1. /\ settings[a] # None /\ settings[a].pc = "commit" /\ Holding(a)
        /\ tenants' = [tenants EXCEPT ![settings[a].tenant] = settings[a].row]
    BY <1>3 DEF CommitSettings, SiteInv
  <2>2. tenants[settings[a].tenant] # None /\ settings[a].row.pro = tenants[settings[a].tenant].pro
    BY <2>1 DEF Holding, existing
  <2>3. \A t \in Tenant : tenants'[t] # None /\ tenants'[t].pro => tenants[t] # None /\ tenants[t].pro
    BY <2>1, <2>2 DEF SiteInv
  <2> QED
    BY <1>1, <2>3, SitesKeepBacked
<1> QED
  BY <1>2, <1>3
     DEF BeginSettings, SettingsStep, LockTenant, UpdateTenantSettings, UpdateTenantPrivacySettings,
         UpdateTenantAdvancedSettings, WriteSettings, AbortSettings

LEMMA BootstrapKeepsBacked ==
  ASSUME BackedInv, CheckoutInv, SiteInv, UNCHANGED billingVars, BootstrapNext
  PROVE  BackedInv'
<1>1. UNCHANGED locked
  BY DEF BootstrapNext, PreviewBootstrap, LockBootstrap, CheckBootstrap, CreateSite, EndBootstrap
<1>2. CASE UNCHANGED tenants
  BY <1>1, <1>2, SitesKeepBacked
<1>3. ASSUME NEW o \in Operator, CreateSite(o) PROVE BackedInv'
  <2> DEFINE row == [createTenant("") EXCEPT !.private = TRUE, !.feed = FALSE]
             id == Min(Tenant \ existing)
  <2>1. tenants' = tenants \/ tenants' = [tenants EXCEPT ![id] = row]
    BY <1>3 DEF CreateSite
  <2>2. ~row.pro
    BY DEF createTenant
  <2> HIDE DEF row, id
  <2>3. \A t \in Tenant : tenants'[t] # None /\ tenants'[t].pro => tenants[t] # None /\ tenants[t].pro
    BY <2>1, <2>2 DEF SiteInv
  <2> QED
    BY <1>1, <2>3, SitesKeepBacked
<1> QED
  BY <1>2, <1>3
     DEF BootstrapNext, PreviewBootstrap, LockBootstrap, CheckBootstrap, EndBootstrap

\* Stripe moves: it forgets no payment.
LEMMA StripeKeepsBacked ==
  ASSUME BackedInv, CheckoutInv, SiteInv, UNCHANGED tenantVars,
         \/ \E t \in Tenant, s \in Session : createCheckoutSession(t, s)
         \/ \E s \in Session : CompleteCheckout(s)
         \/ \E id \in DOMAIN subscriptions : EndSubscription(id)
  PROVE  BackedInv'
<1>1. ASSUME EvidenceStays, AnswersTrue', OlderSubscribed', EventsTrue', UNCHANGED <<billing, delivery>>
      PROVE  BackedInv'
  <2>1. UNCHANGED <<tenants, locked>>
    BY DEF tenantVars
  <2>2. \A h \in Handler : Earned(h)'
    BY <1>1, <2>1, EarnedStays DEF BackedInv
  <2>3. \A t \in Tenant : Plan(t)'
    BY <1>1, <2>1, PlanStays DEF BackedInv
  <2> QED
    BY <1>1, <2>2, <2>3 DEF BackedInv
<1>2. ASSUME NEW t \in Tenant, NEW s \in Session, createCheckoutSession(t, s) PROVE BackedInv'
  <2>1. /\ UNCHANGED <<billing, subscriptions, keys, events, delivery>> /\ checkout[s] = None
        /\ checkout' \in [Session -> CheckoutSession \cup {None}] /\ ~checkout'[s].complete
        /\ \A z \in Session \ {s} : checkout'[z] = checkout[z]
    BY <1>2 DEF createCheckoutSession, CheckoutInv, CheckoutSession
  <2>2. EvidenceStays
    <3>1. \A id \in DOMAIN subscriptions : id[1] \in Session /\ checkout[id[1]] # None
      BY DEF CheckoutInv, Foreseen
    <3>2. \A id \in DOMAIN subscriptions : checkout'[id[1]] = checkout[id[1]]
      BY <2>1, <3>1
    <3> QED
      BY <2>1, <3>2 DEF EvidenceStays, Begun, isSetup
  <2>3. AnswersTrue'
    BY <2>1 DEF BackedInv, AnswersTrue
  <2>4. OlderSubscribed'
    BY <2>1 DEF BackedInv, OlderSubscribed, isSetup
  <2>5. EventsTrue'
    BY <2>1 DEF BackedInv, EventsTrue, CheckoutInv
  <2> QED
    BY <1>1, <2>1, <2>2, <2>3, <2>4, <2>5
<1>3. ASSUME NEW s \in Session, CompleteCheckout(s) PROVE BackedInv'
  <2>1. checkout[s] # None /\ checkout[s] \in CheckoutSession
    BY <1>3 DEF CompleteCheckout, CheckoutInv
  <2>2. /\ checkout'[s] # None /\ checkout'[s].complete /\ checkout'[s].tenant = checkout[s].tenant
        /\ isSetup(s)' <=> isSetup(s)
        /\ \A z \in Session \ {s} : checkout'[z] = checkout[z]
    BY <1>3, <2>1, NoneIsNoSession DEF CompleteCheckout, CheckoutInv, CheckoutSession, isSetup
  <2>3. UNCHANGED <<billing, keys, delivery>> /\ DOMAIN events' = DOMAIN events \cup {<<"completed", s>>}
    BY <1>3 DEF CompleteCheckout, occur, put
  <2>a. \A z \in Session : isSetup(z)' <=> isSetup(z)
    BY <2>2 DEF isSetup
  <2>b. \A id \in DOMAIN subscriptions : id[1] \in Session /\ id = <<id[1], 1>>
    BY DEF CheckoutInv, Foreseen
  <2>4. /\ \A id \in DOMAIN subscriptions : id \in DOMAIN subscriptions' /\ (Begun(id) => Begun(id)')
        /\ \A z \in Session : <<z, 1>> \in DOMAIN subscriptions => <<z, 1>> \in DOMAIN subscriptions'
        /\ ~isSetup(s) => <<s, 1>> \in DOMAIN subscriptions'
        /\ isSetup(s) => UNCHANGED subscriptions
        /\ \A z \in Session \ {s} : <<z, 1>> \in DOMAIN subscriptions =>
             subscriptions'[<<z, 1>>] = subscriptions[<<z, 1>>]
    <3>1. CASE checkout[s].mode = "setup"
      BY <1>3, <2>1, <2>a, <2>b, <3>1 DEF CompleteCheckout, isSetup, Begun
    <3>2. CASE checkout[s].mode # "setup"
      <4>1. PICK t, status : subscriptions' =
                       put(subscriptions, <<s, 1>>, [tenant |-> t, began |-> status, ended |-> FALSE])
        BY <1>3, <3>2 DEF CompleteCheckout
      <4>2. DOMAIN subscriptions' = DOMAIN subscriptions \cup {<<s, 1>>}
            /\ \A id \in DOMAIN subscriptions : id # <<s, 1>> => subscriptions'[id] = subscriptions[id]
        BY <4>1 DEF put
      <4>3. ~isSetup(s)
        BY <3>2 DEF isSetup
      <4>4. \A id \in DOMAIN subscriptions : Begun(id) => Begun(id)'
        BY <2>a, <2>b, <4>2, <4>3 DEF Begun
      <4>5. \A z \in Session \ {s} : <<z, 1>> # <<s, 1>>
        OBVIOUS
      <4> QED
        BY <4>2, <4>3, <4>4, <4>5
    <3> QED
      BY <3>1, <3>2
  <2>5. EvidenceStays
    BY <2>2, <2>4 DEF EvidenceStays
  <2>6. AnswersTrue'
    <3>1. <<s>> \in DOMAIN keys => isSetup(s)
      <4>1. <<s>> \in DOMAIN keys => <<s, 1>> \in DOMAIN subscriptions
        BY DEF BackedInv, AnswersTrue
      <4>2. <<s, 1>> \in DOMAIN subscriptions => isSetup(s) \/ checkout[s].complete
        BY DEF CheckoutInv, Foreseen
      <4> QED
        BY <1>3, <4>1, <4>2 DEF CompleteCheckout
    <3> QED
      BY <2>3, <2>4, <3>1 DEF BackedInv, AnswersTrue
  <2>7. OlderSubscribed'
    <3> SUFFICES ASSUME NEW z \in Session, checkout'[z] # None, checkout'[z].complete, ~isSetup(z)'
                 PROVE  <<z, 1>> \in DOMAIN subscriptions'
      BY DEF OlderSubscribed
    <3>1. CASE z = s
      BY <2>2, <2>4, <3>1
    <3>2. CASE z # s
      BY <2>2, <2>4, <3>2 DEF BackedInv, OlderSubscribed, isSetup
    <3> QED
      BY <3>1, <3>2
  <2>8. EventsTrue'
    BY <2>2, <2>3 DEF BackedInv, EventsTrue, CheckoutInv
  <2> QED
    BY <1>1, <2>3, <2>5, <2>6, <2>7, <2>8
<1>4. ASSUME NEW id \in DOMAIN subscriptions, EndSubscription(id) PROVE BackedInv'
  <2>1. /\ subscriptions' = [subscriptions EXCEPT ![id].ended = TRUE]
        /\ DOMAIN events' = DOMAIN events \cup {<<"deleted", id>>}
        /\ UNCHANGED <<billing, checkout, keys, delivery>>
    BY <1>4 DEF EndSubscription, occur, put
  <2>2. /\ DOMAIN subscriptions' = DOMAIN subscriptions
        /\ \A i \in DOMAIN subscriptions : subscriptions'[i].began = subscriptions[i].began
    BY <2>1 DEF SiteInv, StripeInv, Subscription
  <2>3. EvidenceStays
    BY <2>1, <2>2 DEF EvidenceStays, Begun, isSetup
  <2>4. AnswersTrue'
    BY <2>1, <2>2 DEF BackedInv, AnswersTrue
  <2>5. OlderSubscribed'
    BY <2>1, <2>2 DEF BackedInv, OlderSubscribed, isSetup
  <2>6. EventsTrue'
    BY <2>1 DEF BackedInv, EventsTrue
  <2> QED
    BY <1>1, <2>1, <2>3, <2>4, <2>5, <2>6
<1> QED
  BY <1>2, <1>3, <1>4

\* A handler goes on, and writes nothing yet.
LEMMA HandlerKeepsBacked ==
  ASSUME BackedInv, CheckoutInv, SiteInv, NEW h \in Handler, UNCHANGED <<tenants, billing>>,
         AnswersTrue', OlderSubscribed', EventsTrue', EvidenceStays,
         \A g \in Handler \ {h} : /\ delivery'[g] = delivery[g]
                                  /\ \A t \in Tenant : locked'[t] = g <=> locked[t] = g,
         Earned(h)'
  PROVE  BackedInv'
<1>1. \A g \in Handler : Earned(g)'
  BY EarnedStays DEF BackedInv
<1>2. \A t \in Tenant : Plan(t)'
  BY PlanStays DEF BackedInv
<1> QED
  BY <1>1, <1>2 DEF BackedInv

\* Whoever is not about to commit has no row.
LEMMA HoldsNothing ==
  ASSUME SiteInv, NEW h \in Handler, ~at(h, "commit")
  PROVE  ~writes(h)
  BY DEF SiteInv, Held, writes

LEMMA IncomingKeepsBacked ==
  ASSUME BackedInv, CheckoutInv, SiteInv, UNCHANGED tenantVars, NEW h \in Handler,
         NEW e \in DOMAIN events, IncomingStripeWebhook(h, e)
  PROVE  BackedInv'
<1> DEFINE s == IF e[1] = "completed" THEN <<e[2], 1>> ELSE None
           pc == IF siteOf(e) = None THEN "commit"
                 ELSE IF e[1] = "completed" /\ checkout[e[2]].mode = "setup" THEN "create"
                 ELSE "billing"
           d == [event |-> e, tenant |-> siteOf(e), bill |-> None, sub |-> s, pc |-> pc]
<1>1. /\ delivery' = [delivery EXCEPT ![h] = d] /\ delivery[h] = None
      /\ UNCHANGED <<tenants, locked, billing, checkout, subscriptions, keys, events>>
  BY DEF IncomingStripeWebhook, work, tenantVars
<1>2. delivery'[h] = d /\ \A g \in Handler \ {h} : delivery'[g] = delivery[g]
  BY <1>1 DEF SiteInv
<1>3. d.event = e /\ d.tenant = siteOf(e) /\ d.bill = None /\ d.sub = s /\ d.pc = pc
  OBVIOUS
<1>4. e[1] = "completed" =>
        /\ e[2] \in Session /\ checkout[e[2]] # None /\ checkout[e[2]] \in CheckoutSession
        /\ checkout[e[2]].complete /\ siteOf(e) = checkout[e[2]].tenant /\ siteOf(e) # None
        /\ s = <<e[2], 1>>
  <2> SUFFICES ASSUME e[1] = "completed"
               PROVE  /\ e[2] \in Session /\ checkout[e[2]] # None /\ checkout[e[2]] \in CheckoutSession
                      /\ checkout[e[2]].complete /\ siteOf(e) = checkout[e[2]].tenant
                      /\ siteOf(e) # None /\ s = <<e[2], 1>>
    OBVIOUS
  <2>1. e[2] \in Session /\ checkout[e[2]] # None /\ checkout[e[2]] \in CheckoutSession
    BY DEF CheckoutInv
  <2>2. checkout[e[2]].tenant \in Tenant
    BY <2>1 DEF CheckoutSession
  <2> QED
    BY <2>1, <2>2, HandlersAssumption DEF siteOf, BackedInv, EventsTrue
<1>5. e[1] = "completed" /\ pc = "billing" => Backed(s, siteOf(e))
  <2> SUFFICES ASSUME e[1] = "completed", pc = "billing" PROVE Backed(s, siteOf(e))
    OBVIOUS
  <2>1. ~isSetup(e[2])
    BY <1>4 DEF isSetup
  <2>2. <<e[2], 1>> \in DOMAIN subscriptions /\ Begun(<<e[2], 1>>)
    BY <1>4, <2>1 DEF BackedInv, OlderSubscribed, Begun
  <2> QED
    BY <1>4, <2>2 DEF Backed
<1>6. ~writes(h)
  BY <1>1, HoldsNothing DEF at
<1>7. AnswersTrue' /\ OlderSubscribed' /\ EventsTrue' /\ EvidenceStays
  BY <1>1, AnswersStay
<1>8. e[1] = "completed" => pc \in {"create", "billing"}
  BY <1>4
<1>9. e[1] # "completed" => pc # "create"
  OBVIOUS
<1>10. pc # "tenant"
  OBVIOUS
<1> HIDE DEF d, s, pc
<1>11. Earned(h)'
  <2>1. /\ checkout'[e[2]] = checkout[e[2]] /\ (writes(h)' <=> writes(h))
        /\ \A id, t : Backed(id, t)' <=> Backed(id, t)
    BY <1>1 DEF writes, Backed, Begun, isSetup
  <2> QED
    BY <1>2, <1>3, <1>4, <1>5, <1>6, <1>8, <1>9, <1>10, <2>1 DEF Earned
<1> QED
  BY <1>1, <1>2, <1>7, <1>11, HandlerKeepsBacked

\* Stripe answers that a subscription did not fail to begin, and it did not.
LEMMA CreationKeepsBacked ==
  ASSUME BackedInv, CheckoutInv, SiteInv, UNCHANGED tenantVars, NEW h \in Handler,
         handleSetupCheckoutCompleted(h)
  PROVE  BackedInv'
<1> DEFINE s == sessionOf(h)
<1>1. /\ s \in Session /\ at(h, "create") /\ isSetup(s)
      /\ UNCHANGED <<tenants, locked, billing, checkout, events>>
  BY Creation DEF tenantVars
<1>2. /\ delivery[h] \in Delivery /\ delivery[h] # None /\ delivery[h].pc = "create"
      /\ delivery[h].event[1] = "completed" /\ delivery[h].event[2] = s /\ delivery[h].bill = None
      /\ checkout[s] # None /\ delivery[h].tenant = checkout[s].tenant
  BY <1>1 DEF at, SiteInv, BackedInv, Earned, sessionOf
<1>3. ~writes(h)
  BY <1>2, HoldsNothing DEF at
<1> HIDE DEF s
<1>4. ASSUME NEW status \in Status, EvidenceStays, AnswersTrue',
             status # "incomplete" =>
               <<s, 1>> \in DOMAIN subscriptions' /\ subscriptions'[<<s, 1>>].began # "incomplete",
             delivery' = [delivery EXCEPT ![h] = answered(h, <<s, 1>>, status)]
      PROVE  BackedInv'
  <2>1. PICK d : /\ delivery' = [delivery EXCEPT ![h] = d]
                 /\ d.event = delivery[h].event /\ d.tenant = delivery[h].tenant /\ d.bill = None
                 /\ d.sub = <<s, 1>> /\ d.pc = IF activates(status) THEN "billing" ELSE "commit"
    <3> DEFINE d0 == answered(h, <<s, 1>>, status)
    <3>1. /\ d0.event = delivery[h].event /\ d0.tenant = delivery[h].tenant /\ d0.bill = None
          /\ d0.sub = <<s, 1>> /\ d0.pc = IF activates(status) THEN "billing" ELSE "commit"
      BY <1>2 DEF answered, Delivery
    <3> HIDE DEF d0
    <3>2. delivery' = [delivery EXCEPT ![h] = d0]
      BY <1>4 DEF d0
    <3> QED
      BY <3>1, <3>2
  <2>2. delivery'[h] = d /\ \A g \in Handler \ {h} : delivery'[g] = delivery[g]
    BY <2>1 DEF SiteInv
  <2>3. checkout'[s] = checkout[s] /\ checkout'[s].tenant = d.tenant /\ <<s, 1>>[1] = s
    BY <1>1, <1>2, <2>1
  <2>4. writes(h)' <=> writes(h)
    BY <1>1 DEF writes
  <2>5. d.pc = "billing" =>
          /\ d.sub \in DOMAIN subscriptions' /\ subscriptions'[d.sub].began # "incomplete"
          /\ checkout'[d.sub[1]].tenant = d.tenant
    BY <1>4, <2>1, <2>3 DEF activates
  <2>6. Earned(h)'
    <3>1. d.pc = "billing" => Backed(d.sub, d.tenant)'
      BY <2>5 DEF Backed, Begun
    <3> QED
      BY <1>1, <1>2, <1>3, <2>1, <2>2, <2>3, <2>4, <3>1 DEF Earned
  <2>7. OlderSubscribed' /\ EventsTrue'
    BY <1>1, <1>4 DEF BackedInv, OlderSubscribed, EventsTrue, EvidenceStays, isSetup
  <2> QED
    BY <1>1, <1>4, <2>2, <2>6, <2>7, HandlerKeepsBacked
<1>5. CASE /\ <<s>> \in DOMAIN keys /\ UNCHANGED <<subscriptions, keys>>
           /\ delivery' = [delivery EXCEPT ![h] = answered(h, keys[<<s>>].sub, keys[<<s>>].status)]
  <2>1. AnswersTrue' /\ EvidenceStays
    BY <1>1, <1>5, AnswersStay
  <2>2. /\ keys[<<s>>].sub = <<s, 1>> /\ <<s, 1>> \in DOMAIN subscriptions
        /\ keys[<<s>>].status # "incomplete" => subscriptions[<<s, 1>>].began # "incomplete"
    BY <1>1, <1>5 DEF BackedInv, AnswersTrue
  <2>3. keys[<<s>>].status \in Status
    BY <1>5 DEF SiteInv, StripeInv, Answer
  <2> QED
    BY <1>4, <1>5, <2>1, <2>2, <2>3
<1>6. ASSUME NEW status \in Status, <<s, 1>> \notin DOMAIN subscriptions,
             subscriptions' = put(subscriptions, <<s, 1>>,
               [tenant |-> delivery[h].tenant, began |-> status, ended |-> FALSE]),
             keys' = put(keys, <<s>>, [sub |-> <<s, 1>>, status |-> status]),
             delivery' = [delivery EXCEPT ![h] = answered(h, <<s, 1>>, status)]
      PROVE  BackedInv'
  <2>1. /\ <<s, 1>> \in DOMAIN subscriptions'
        /\ status # "incomplete" => subscriptions'[<<s, 1>>].began # "incomplete"
        /\ \A id \in DOMAIN subscriptions :
             id \in DOMAIN subscriptions' /\ subscriptions'[id] = subscriptions[id]
    BY <1>6 DEF put
  <2>2. EvidenceStays
    BY <1>1, <2>1 DEF EvidenceStays, Begun, isSetup
  <2>3. AnswersTrue'
    <3> SUFFICES ASSUME NEW z \in Session, <<z>> \in DOMAIN keys'
                 PROVE  /\ keys'[<<z>>].sub = <<z, 1>> /\ <<z, 1>> \in DOMAIN subscriptions'
                        /\ keys'[<<z>>].status # "incomplete" =>
                             subscriptions'[<<z, 1>>].began # "incomplete"
      BY DEF AnswersTrue
    <3>1. CASE z = s
      <4>1. keys'[<<z>>] = [sub |-> <<s, 1>>, status |-> status]
        BY <1>6, <3>1 DEF put
      <4>2. keys'[<<z>>].sub = <<s, 1>> /\ keys'[<<z>>].status = status
        BY <4>1
      <4> QED
        BY <2>1, <3>1, <4>2
    <3>2. CASE z # s
      <4>1. <<z>> # <<s>>
        BY <3>2
      <4>2. <<z>> \in DOMAIN keys /\ keys'[<<z>>] = keys[<<z>>]
        BY <1>6, <4>1 DEF put
      <4> QED
        BY <2>1, <4>2 DEF BackedInv, AnswersTrue
    <3> QED
      BY <3>1, <3>2
  <2> QED
    BY <1>4, <1>6, <2>1, <2>2, <2>3
<1>7. \/ /\ <<s>> \in DOMAIN keys /\ UNCHANGED <<subscriptions, keys>>
         /\ delivery' = [delivery EXCEPT ![h] = answered(h, keys[<<s>>].sub, keys[<<s>>].status)]
      \/ /\ <<s, 1>> \notin DOMAIN subscriptions
         /\ \E status \in Status :
              /\ subscriptions' = put(subscriptions, <<s, 1>>,
                   [tenant |-> delivery[h].tenant, began |-> status, ended |-> FALSE])
              /\ keys' = put(keys, <<s>>, [sub |-> <<s, 1>>, status |-> status])
              /\ delivery' = [delivery EXCEPT ![h] = answered(h, <<s, 1>>, status)]
  BY Creation DEF s
<1> QED
  BY <1>5, <1>6, <1>7

\* What the statements write is backed, and they write both tables.
LEMMA StatementsKeepBacked ==
  ASSUME BackedInv, CheckoutInv, SiteInv, NEW h \in Handler,
         \/ UNCHANGED tenantVars /\ (activateStripeSubscription(h) \/ cancelStripeSubscription(h))
         \/ LockBilledTenant(h)
  PROVE  BackedInv'
<1>1. /\ delivery[h] \in Delivery /\ delivery[h] # None /\ ~writes(h)
      /\ UNCHANGED <<tenants, billing, checkout, subscriptions, keys, events>>
  BY HoldsNothing DEF SiteInv, activateStripeSubscription, cancelStripeSubscription,
     LockBilledTenant, at, tenantVars, stripeVars
<1>2. AnswersTrue' /\ OlderSubscribed' /\ EventsTrue' /\ EvidenceStays
  BY <1>1, AnswersStay
<1>3. \A id, t : Backed(id, t)' <=> Backed(id, t)
  BY <1>1 DEF Backed, Begun, isSetup
<1>4. Earned(h)
  BY DEF BackedInv
<1>5. ASSUME NEW d, delivery' = [delivery EXCEPT ![h] = d], UNCHANGED locked, Earned(h)'
      PROVE  BackedInv'
  BY <1>1, <1>2, <1>5, HandlerKeepsBacked DEF SiteInv
<1>6. ASSUME NEW bill \in Bill, UNCHANGED locked, delivery[h].pc = "billing",
             delivery' = [delivery EXCEPT ![h] = [delivery[h] EXCEPT !.pc = "tenant", !.bill = bill]],
             delivery[h].event[1] = "completed" => bill.sub # None /\ Backed(bill.sub, delivery[h].tenant),
             delivery[h].event[1] # "completed" => bill.sub = None
      PROVE  BackedInv'
  <2> DEFINE d0 == [delivery[h] EXCEPT !.pc = "tenant", !.bill = bill]
  <2>1. d0.pc = "tenant" /\ d0.bill = bill /\ d0.bill # None
    BY <1>1, <1>6, NoneIsNoSession DEF Delivery
  <2>2. d0.event = delivery[h].event /\ d0.tenant = delivery[h].tenant /\ d0.sub = delivery[h].sub
    BY <1>1 DEF Delivery
  <2> HIDE DEF d0
  <2>3. PICK d : /\ d = d0 /\ delivery' = [delivery EXCEPT ![h] = d]
    BY <1>6 DEF d0
  <2>4. delivery'[h] = d
    BY <2>3 DEF SiteInv
  <2>5. Earned(h)'
    BY <1>1, <1>3, <1>4, <1>6, <2>1, <2>2, <2>3, <2>4 DEF Earned
  <2> QED
    BY <1>5, <1>6, <2>3, <2>5
<1>7. CASE UNCHANGED tenantVars /\ activateStripeSubscription(h)
  <2> DEFINE bill == [customer |-> sessionOf(h), sub |-> delivery[h].sub, paddle |-> FALSE]
  <2>1. /\ delivery[h].pc = "billing" /\ delivery[h].event[1] = "completed"
        /\ delivery' = [delivery EXCEPT ![h] = [delivery[h] EXCEPT !.pc = "tenant", !.bill = bill]]
        /\ UNCHANGED locked
    BY <1>7 DEF activateStripeSubscription, at, typeOf, work, tenantVars
  <2>2. Backed(delivery[h].sub, delivery[h].tenant)
    BY <1>1, <1>4, <2>1 DEF Earned
  <2>3. delivery[h].sub \in SubscriptionId
    BY <2>2, FirstId DEF Backed, CheckoutInv, Foreseen
  <2>4. sessionOf(h) \in Session
    BY <1>1, <2>1 DEF Delivery, Completed, Deleted, sessionOf
  <2>5. bill \in Bill /\ bill.sub = delivery[h].sub /\ bill.sub # None
    BY <2>3, <2>4, NoneIsNoSession DEF Bill
  <2> HIDE DEF bill
  <2> QED
    BY <1>6, <2>1, <2>2, <2>5
<1>8. CASE UNCHANGED tenantVars /\ cancelStripeSubscription(h)
  <2> DEFINE bill == billing[delivery[h].tenant]
  <2>1. /\ delivery[h].pc = "billing" /\ delivery[h].event[1] # "completed" /\ UNCHANGED locked
        /\ delivery[h].tenant \in Tenant
    BY <1>8 DEF cancelStripeSubscription, at, typeOf, tenantVars, SiteInv, Handling, existing
  <2>2. CASE bill = None
    <3> DEFINE d0 == [delivery[h] EXCEPT !.pc = "tenant"]
    <3>1. /\ d0.pc = "tenant" /\ d0.bill = delivery[h].bill /\ d0.event = delivery[h].event
          /\ d0.tenant = delivery[h].tenant
      BY <1>1 DEF Delivery
    <3> HIDE DEF d0
    <3>2. PICK d : d = d0 /\ delivery' = [delivery EXCEPT ![h] = d]
      BY <1>8, <2>2 DEF cancelStripeSubscription, work, d0
    <3>3. delivery'[h] = d
      BY <3>2 DEF SiteInv
    <3>4. Earned(h)'
      BY <1>1, <1>4, <2>1, <3>1, <3>2, <3>3 DEF Earned
    <3> QED
      BY <1>5, <2>1, <3>2, <3>4
  <2>3. CASE bill # None
    <3>1. bill \in Bill
      BY <2>1, <2>3 DEF SiteInv, StripeInv
    <3>2. PICK b \in Bill : b = [bill EXCEPT !.sub = None] /\ b.sub = None
      <4>1. [bill EXCEPT !.sub = None] \in Bill /\ [bill EXCEPT !.sub = None].sub = None
        BY <3>1 DEF Bill
      <4> QED
        BY <4>1
    <3>3. delivery' = [delivery EXCEPT ![h] = [delivery[h] EXCEPT !.pc = "tenant", !.bill = b]]
      BY <1>8, <2>3, <3>2 DEF cancelStripeSubscription, work
    <3> QED
      BY <1>6, <2>1, <3>2, <3>3
  <2> QED
    BY <2>2, <2>3
<1>9. CASE LockBilledTenant(h)
  <2> DEFINE d0 == [delivery[h] EXCEPT !.pc = "commit"]
  <2>1. /\ d0.pc = "commit" /\ d0.bill = delivery[h].bill /\ d0.event = delivery[h].event
        /\ d0.tenant = delivery[h].tenant
    BY <1>1 DEF Delivery
  <2> HIDE DEF d0
  <2>2. PICK d : d = d0 /\ delivery' = [delivery EXCEPT ![h] = d]
    BY <1>9 DEF LockBilledTenant, work, d0
  <2>3. /\ delivery[h].pc = "tenant" /\ delivery[h].tenant \in Tenant
        /\ locked[delivery[h].tenant] = None /\ locked' = [locked EXCEPT ![delivery[h].tenant] = h]
    BY <1>9 DEF LockBilledTenant, at, SiteInv, Handling, existing
  <2>4. /\ delivery'[h] = d /\ \A g \in Handler \ {h} : delivery'[g] = delivery[g]
        /\ locked'[delivery[h].tenant] = h
        /\ \A g \in Handler \ {h}, t \in Tenant : locked'[t] = g <=> locked[t] = g
    BY <2>2, <2>3, HandlersAssumption DEF SiteInv
  <2>5. delivery[h].event[1] = "completed" => delivery[h].bill # None
    BY <1>1, <1>4, <2>3 DEF Earned
  <2>6. Earned(h)'
    BY <1>1, <1>3, <1>4, <2>1, <2>2, <2>3, <2>4, <2>5 DEF Earned
  <2> QED
    BY <1>1, <1>2, <2>4, <2>6, HandlerKeepsBacked
<1> QED
  BY <1>7, <1>8, <1>9

\* A commit writes a plan with what backs it, or takes it away.
LEMMA EndsKeepBacked ==
  ASSUME BackedInv, CheckoutInv, SiteInv, NEW h \in Handler,
         CommitDelivery(h) \/ CommitFails(h) \/ FailDelivery(h)
  PROVE  BackedInv'
<1>1. /\ delivery[h] # None /\ DOMAIN events' = DOMAIN events
      /\ delivery' = [delivery EXCEPT ![h] = None]
      /\ locked' = [t \in Tenant |-> IF locked[t] = h THEN None ELSE locked[t]]
      /\ UNCHANGED <<checkout, subscriptions, keys>>
  BY DEF CommitDelivery, CommitFails, FailDelivery, release, work, unlock, answer, at, stripeVars
<1>2. AnswersTrue' /\ OlderSubscribed' /\ EventsTrue' /\ EvidenceStays
  BY <1>1, AnswersStay
<1>3. /\ delivery'[h] = None /\ \A g \in Handler \ {h} : delivery'[g] = delivery[g]
      /\ \A g \in Handler \ {h}, t \in Tenant : locked'[t] = g <=> locked[t] = g
  BY <1>1, HandlersAssumption DEF SiteInv
<1>4. \A g \in Handler : Earned(g)'
  <2> SUFFICES ASSUME NEW g \in Handler PROVE Earned(g)'
    OBVIOUS
  <2>1. CASE g = h
    BY <1>3, <2>1 DEF Earned
  <2>2. CASE g # h
    BY <1>2, <1>3, <2>2, EarnedStays DEF BackedInv
  <2> QED
    BY <2>1, <2>2
<1>5. CASE UNCHANGED <<tenants, billing>>
  BY <1>2, <1>4, <1>5, PlanStays DEF BackedInv
<1>6. CASE CommitDelivery(h)
  <2>1. delivery[h] \in Delivery /\ delivery[h].pc = "commit" /\ Earned(h)
    BY <1>1, <1>6 DEF SiteInv, BackedInv, CommitDelivery, at
  <2>2. /\ tenants' = IF writes(h)
                      THEN [tenants EXCEPT ![delivery[h].tenant] = billed(@, typeOf(h))] ELSE tenants
        /\ billing' = IF delivery[h].bill # None
                      THEN [billing EXCEPT ![delivery[h].tenant] = delivery[h].bill] ELSE billing
    BY <1>6 DEF CommitDelivery
  <2>3. CASE ~writes(h)
    <3>1. delivery[h].bill = None
      BY <1>1, <2>1, <2>3 DEF Earned, writes
    <3> QED
      BY <1>5, <2>2, <2>3, <3>1
  <2>4. ASSUME NEW t \in Tenant, locked[t] = h PROVE BackedInv'
    <3>1. tenants[t] \in Row /\ delivery[h].tenant = t /\ writes(h)
      BY <2>4, LockedExists DEF writes
    <3>2. /\ tenants'[t] = billed(tenants[t], typeOf(h)) /\ tenants'[t] \in Row
          /\ tenants'[t].pro <=> typeOf(h) = "completed"
          /\ \A s \in Tenant \ {t} : tenants'[s] = tenants[s] /\ billing'[s] = billing[s]
          /\ billing'[t] = IF delivery[h].bill # None THEN delivery[h].bill ELSE billing[t]
      BY <2>2, <2>4, <3>1, BilledStaysRow DEF SiteInv, StripeInv
    <3>3. \A id, s : Backed(id, s)' <=> Backed(id, s)
      BY <1>1 DEF Backed, Begun, isSetup
    <3>4. CASE typeOf(h) = "completed"
      <4>1. delivery[h].bill # None /\ delivery[h].bill.sub # None /\ Backed(delivery[h].bill.sub, t)
        BY <1>1, <2>1, <3>1, <3>4 DEF Earned, typeOf
      <4>2. Plan(t)'
        BY <3>2, <3>3, <4>1 DEF Plan
      <4> QED
        BY <1>2, <1>4, <3>2, <4>2, PlanStays DEF BackedInv
    <3>5. CASE typeOf(h) # "completed"
      <4>1. delivery[h].bill # None => delivery[h].bill.sub = None
        BY <1>1, <2>1, <3>5 DEF Earned, typeOf
      <4>2. Plan(t)
        BY DEF BackedInv
      <4>3. Plan(t)'
        BY <3>2, <3>3, <3>5, <4>1, <4>2 DEF Plan
      <4> QED
        BY <1>2, <1>4, <3>2, <4>3, PlanStays DEF BackedInv
    <3> QED
      BY <3>4, <3>5
  <2> QED
    BY <2>3, <2>4 DEF writes
<1> QED
  BY <1>5, <1>6 DEF CommitFails, FailDelivery

LEMMA BackedStep == BackedInv /\ CheckoutInv /\ SiteInv /\ [Next]_vars => BackedInv'
<1> SUFFICES ASSUME BackedInv, CheckoutInv, SiteInv, [Next]_vars PROVE BackedInv'
  OBVIOUS
<1>1. ASSUME UNCHANGED <<tenantVars, billingVars>> PROVE BackedInv'
  BY <1>1, SitesKeepBacked DEF tenantVars
<1>2. CASE BillingNext
  <2>1. ASSUME NEW t \in Tenant, UNCHANGED tenantVars, CreateStripePortalSession(t) PROVE BackedInv'
    BY <2>1, StripeKeepsBacked DEF CreateStripePortalSession
  <2> QED
    BY <1>2, <2>1, StripeKeepsBacked, IncomingKeepsBacked, CreationKeepsBacked, StatementsKeepBacked, EndsKeepBacked
       DEF BillingNext, DeliveryStep
<1> QED
  BY <1>1, <1>2, SettingsKeepBacked, BootstrapKeepsBacked DEF Next, vars, SettingsNext

\* A site is shown as paid only with a subscription of its own, or from Paddle, and with none
\* of a checkout of the present kind whose first payment failed, in whatever order, and
\* however often, Stripe tells of several (handleSetupCheckoutCompleted).
THEOREM PlansAreBacked == Spec => []ProIsBacked
<1>1. BackedInv /\ CheckoutInv => ProIsBacked
  <2> SUFFICES ASSUME BackedInv, CheckoutInv, mode = "multi", NEW t \in existing, IsPro(t)
               PROVE  /\ billing[t] # None
                      /\ billing[t].sub = None => billing[t].paddle
                      /\ billing[t].sub # None =>
                           /\ checkout[billing[t].sub[1]].tenant = t
                           /\ checkout[billing[t].sub[1]].mode = "setup" =>
                                subscriptions[billing[t].sub].began # "incomplete"
    BY DEF ProIsBacked
  <2>1. Plan(t) /\ tenants[t] # None
    BY DEF BackedInv, existing
  <2>2. billing[t].sub # None => Backed(billing[t].sub, t)
    BY <2>1 DEF IsPro, Plan
  <2>3. billing[t].sub # None => checkout[billing[t].sub[1]] \in CheckoutSession
    BY <2>2 DEF Backed, CheckoutInv, Foreseen
  <2> QED
    BY <2>1, <2>2, <2>3 DEF IsPro, Plan, Backed, Begun, isSetup
<1> QED
  BY <1>1, BootstrapInitially, BootstrapStep, CheckoutInitially, CheckoutStep, SiteInitially, SiteStep,
     BackedInitially, BackedStep, PTL DEF Spec
=============================================================================
