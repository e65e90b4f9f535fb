--------------------------- MODULE AttemptLimiter ---------------------------
(***************************************************************************)
(* The windows of sign-in attempts that passwordauth.Limiter keeps per     *)
(* account and per client address.  A window counts failures (attempts,    *)
(* for an address) and the attempts in flight; an attempt keeps a pointer  *)
(* to the window of its account until it reports its outcome.  The clock   *)
(* is relative: a window knows how long it has left, a failure its age.    *)
(***************************************************************************)
EXTENDS Integers, FiniteSets

CONSTANTS
  Account,       \* tenant and username, and the same with "change:"
  Address,       \* client addresses
  Attempt,       \* bound: attempts in flight at a time
  Window,        \* bound: windows in memory at a time
  AccountLimit,  \* 10
  AddressLimit,  \* 120
  Capacity,      \* 10000
  Length,        \* 15 minutes, in ticks
  None

Key == Account \cup Address

ASSUME SizesAssumption ==
  /\ AccountLimit \in Nat \ {0} /\ AddressLimit \in Nat \ {0}
  /\ Capacity \in Nat \ {0} /\ Length \in Nat \ {0}
ASSUME KeysAssumption == Account \cap Address = {}
ASSUME NoneAssumption == None \notin Window \cup Account

VARIABLES
  table,     \* Limiter.windows: from keys to windows
  windows,   \* the windows themselves
  account,   \* the account an attempt in flight is for
  captured,  \* the window of it
  failures   \* history: of an account, how many failures are younger than an age

vars == <<table, windows, account, captured, failures>>

Ages == 0 .. Length
Fresh == [left |-> Length, count |-> 0, pending |-> 0]
Garbage == [left |-> 0, count |-> 0, pending |-> 0]

Entries(t) == {k \in Key : t[k] # None}
Reachable(t, c) == {t[k] : k \in Entries(t)} \cup {c[a] : a \in {b \in Attempt : c[b] # None}}
Unused == Window \ Reachable(table, captured)

\* What nobody points to any more is forgotten.
Collected(w, t, c) == [x \in Window |-> IF x \in Reachable(t, c) THEN w[x] ELSE Garbage]

Init ==
  /\ table = [k \in Key |-> None]
  /\ windows = [w \in Window |-> Garbage]
  /\ account = [a \in Attempt |-> None]
  /\ captured = [a \in Attempt |-> None]
  /\ failures = [u \in Account |-> [age \in Ages |-> 0]]

\* Mutation of Droppable: an attempt in flight does not keep its window.
DroppableWithPending(w) == w.left = 0

\* Mutation of Droppable: windows stay for good.
NeverDroppable(w) == FALSE

Droppable(w) == w.left = 0 /\ w.pending = 0

Without(t, keys) == [k \in Key |-> IF k \in keys THEN None ELSE t[k]]
Drop(t, k) == IF t[k] # None /\ Droppable(windows[t[k]]) THEN Without(t, {k}) ELSE t

\* A full table is swept before anything is looked up.
Swept ==
  IF Cardinality(Entries(table)) >= Capacity
  THEN Without(table, {k \in Entries(table) : Droppable(windows[table[k]])})
  ELSE table

\* get: the table with k's window, which is new in the given place of memory
\* unless there is one that is still in use; or without, when the table is full.
get(t, k, new) ==
  LET dropped == Drop(t, k) IN
  IF dropped[k] = None /\ Cardinality(Entries(dropped)) < Capacity
  THEN [dropped EXCEPT ![k] = new] ELSE dropped

\* The address is charged for every attempt, also one its account refuses.
Start(a, u, ip) ==
  /\ account[a] = None
  /\ LET new == CHOOSE w \in Unused : TRUE
         other == CHOOSE w \in Unused \ {new} : TRUE
         t1 == get(Swept, ip, new)
         t2 == get(t1, u, other)
         was == [w \in Window |-> IF w \in {new, other} THEN Fresh ELSE windows[w]]
         charged == [was EXCEPT ![t1[ip]].count = @ + 1]
         full(w) == charged[w].count + charged[w].pending >= AccountLimit
     IN
     /\ new \in Unused /\ other \in Unused \ {new}
     /\ \/ /\ t1[ip] # None => was[t1[ip]].count >= AddressLimit
           /\ table' = t1
           /\ windows' = Collected(was, t1, captured)
           /\ UNCHANGED <<account, captured>>
        \/ /\ t1[ip] # None /\ was[t1[ip]].count < AddressLimit
           /\ t2[u] # None => full(t2[u])
           /\ table' = t2
           /\ windows' = Collected(charged, t2, captured)
           /\ UNCHANGED <<account, captured>>
        \/ /\ t1[ip] # None /\ was[t1[ip]].count < AddressLimit
           /\ t2[u] # None /\ ~full(t2[u])
           /\ table' = t2
           /\ account' = [account EXCEPT ![a] = u]
           /\ captured' = [captured EXCEPT ![a] = t2[u]]
           /\ windows' = Collected([charged EXCEPT ![t2[u]].pending = @ + 1], t2, captured')
  /\ UNCHANGED failures

\* One failure more is younger than any age, or none is.
Failed(u, n) ==
  failures' = [failures EXCEPT ![u] = [age \in Ages |-> IF age = 0 THEN 0 ELSE @[age] + n]]

\* Mutation of Finish: the place in the budget is given back, the failure is not counted.
FinishUncounted(a, success) ==
  /\ account[a] # None
  /\ LET w == captured[a] IN
     /\ captured' = [captured EXCEPT ![a] = None]
     /\ windows' = Collected([windows EXCEPT ![w].pending = @ - 1], table, captured')
  /\ account' = [account EXCEPT ![a] = None]
  /\ Failed(account[a], IF success THEN 0 ELSE 1)
  /\ UNCHANGED table

\* Mutation of Finish: a failure keeps its place among those in flight too.
FinishStillPending(a, success) ==
  /\ account[a] # None
  /\ LET w == captured[a] IN
     /\ captured' = [captured EXCEPT ![a] = None]
     /\ windows' = Collected([windows EXCEPT ![w].count = @ + IF success THEN 0 ELSE 1], table, captured')
  /\ account' = [account EXCEPT ![a] = None]
  /\ Failed(account[a], IF success THEN 0 ELSE 1)
  /\ UNCHANGED table

\* done(success), once, when the handler returns.
Finish(a, success) ==
  /\ account[a] # None
  /\ LET w == captured[a]
         failed == IF success THEN 0 ELSE 1
     IN  /\ captured' = [captured EXCEPT ![a] = None]
         /\ windows' = Collected([windows EXCEPT ![w].pending = @ - 1, ![w].count = @ + failed],
                                 table, captured')
         /\ Failed(account[a], failed)
  /\ account' = [account EXCEPT ![a] = None]
  /\ UNCHANGED table

\* Mutation of Tick: a window goes on aging after it has expired.
TickBelowZero ==
  /\ windows' = [w \in Window |-> [windows[w] EXCEPT !.left = @ - 1]]
  /\ UNCHANGED <<table, account, captured, failures>>

Tick ==
  /\ windows' = [w \in Window |->
                   [windows[w] EXCEPT !.left = IF @ = 0 THEN 0 ELSE @ - 1]]
  /\ failures' = [u \in Account |->
                    [age \in Ages |-> IF age = 0 THEN 0 ELSE failures[u][age - 1]]]
  /\ UNCHANGED <<table, account, captured>>

Next ==
  \/ \E a \in Attempt, u \in Account, ip \in Address : Start(a, u, ip)
  \/ \E a \in Attempt, success \in BOOLEAN : Finish(a, success)
  \/ Tick

Spec == Init /\ [][Next]_vars

\* Time passes, and a handler returns.
FairSpec ==
  /\ Spec
  /\ WF_vars(Tick)
  /\ \A a \in Attempt : WF_vars(\E success \in BOOLEAN : Finish(a, success))
-----------------------------------------------------------------------------
(* Properties                                                              *)

\* Each variable has its type.
TypeOK ==
  /\ table \in [Key -> Window \cup {None}]
  /\ windows \in [Window -> [left : 0 .. Length, count : Nat, pending : Nat]]
  /\ account \in [Attempt -> Account \cup {None}]
  /\ captured \in [Attempt -> Window \cup {None}]
  /\ failures \in [Account -> [Ages -> Nat]]
  /\ Cardinality(Entries(table)) <= Capacity

\* An attempt in flight has its place in the window that the table has for
\* its account, and in no other; so its failure will count there.
PlacesReserved ==
  /\ \A a \in Attempt : account[a] # None => captured[a] = table[account[a]] /\ captured[a] # None
  /\ \A a \in Attempt : account[a] = None <=> captured[a] = None
  /\ \A k, l \in Key : table[k] # None /\ table[k] = table[l] => k = l
  /\ \A w \in Window : windows[w].pending = Cardinality({a \in Attempt : captured[a] = w})

\* No window has more failures and attempts in flight than an account may have,
\* and none counts more than an address may send.
WithinBudget ==
  /\ \A u \in Account : table[u] # None =>
       windows[table[u]].count + windows[table[u]].pending <= AccountLimit
  /\ \A ip \in Address : table[ip] # None => windows[table[ip]].count <= AddressLimit

\* Overlapping attempts cannot spend more than the budget, for each has its
\* place in the window it will report to (limiter.go:66, 75).
BudgetKept == PlacesReserved /\ WithinBudget

Recent(u) == failures[u][Length]

\* In any period of a window's length an account sees at most twice its limit
\* of failures, however its attempts overlap with the windows.
FailuresBounded == \A u \in Account : Recent(u) <= 2 * AccountLimit

\* Start would refuse this key whoever asks.
Locked(k) ==
  LET w == Drop(Swept, k)[k] IN
  /\ w # None
  /\ windows[w].count + windows[w].pending >= IF k \in Account THEN AccountLimit ELSE AddressLimit

\* Nobody is locked out for good.
LockoutEnds == \A k \in Key : Locked(k) ~> ~Locked(k)
=============================================================================
