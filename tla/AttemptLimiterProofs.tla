------------------------ MODULE AttemptLimiterProofs ------------------------
(* Theorems about AttemptLimiter, for any accounts, addresses and limits.  *)
EXTENDS AttemptLimiter, FiniteSetTheorems, TLAPS

WindowType == [left : 0 .. Length, count : Nat, pending : Nat]
Holders(w) == {a \in Attempt : captured[a] = w}

\* What is in memory is finite, whatever the sets of accounts and attempts.
Finite ==
  /\ IsFiniteSet(Entries(table))
  /\ IsFiniteSet({a \in Attempt : captured[a] # None})

\* The failures since a window was made are counted in it, and before it there
\* were no more than an account may have; without a window the same holds of all.
Remembered(u) ==
  /\ failures[u][0] = 0
  /\ \A m, n \in Ages : m <= n => failures[u][m] <= failures[u][n]
  /\ table[u] = None => Recent(u) <= AccountLimit
  /\ table[u] # None =>
       /\ failures[u][Length - windows[table[u]].left] <= windows[table[u]].count
       /\ Recent(u) <= windows[table[u]].count + AccountLimit

LimiterInv ==
  /\ TypeOK /\ Finite /\ PlacesReserved /\ WithinBudget
  /\ \A u \in Account : Remembered(u)

LEMMA Initially == Init => LimiterInv
<1> SUFFICES ASSUME Init PROVE LimiterInv
  OBVIOUS
<1> USE SizesAssumption, NoneAssumption DEF Init
<1>1. Entries(table) = {} /\ {a \in Attempt : captured[a] # None} = {}
  BY DEF Entries, Key
<1>2. \A w \in Window : {a \in Attempt : captured[a] = w} = {}
  OBVIOUS
<1>3. TypeOK
  <2>1. Cardinality(Entries(table)) <= Capacity
    BY <1>1, FS_EmptySet
  <2>2. windows \in [Window -> [left : 0 .. Length, count : Nat, pending : Nat]]
    BY DEF Garbage
  <2>3. failures \in [Account -> [Ages -> Nat]]
    OBVIOUS
  <2> QED
    BY <2>1, <2>2, <2>3 DEF TypeOK
<1>4. Finite
  BY <1>1, FS_EmptySet DEF Finite
<1>5. PlacesReserved
  BY <1>2, FS_EmptySet DEF PlacesReserved, Garbage
<1>6. WithinBudget
  BY DEF WithinBudget, Key
<1>7. \A u \in Account : Remembered(u)
  BY DEF Remembered, Recent, Ages, Key
<1> QED
  BY <1>3, <1>4, <1>5, <1>6, <1>7 DEF LimiterInv
-----------------------------------------------------------------------------
\* A table in which windows nobody needs are gone, and the address or the
\* account may have a new one.
Derived(t, ip, new, u, other) ==
  /\ t \in [Key -> Window \cup {None}]
  /\ IsFiniteSet(Entries(t)) /\ Cardinality(Entries(t)) <= Capacity
  /\ \A k \in Key :
       \/ t[k] = table[k]
       \/ /\ table[k] # None => Droppable(windows[table[k]])
          /\ t[k] = None \/ (k = ip /\ t[k] = new) \/ (k = u /\ t[k] = other)

\* Entries that are removed leave a smaller table.
LEMMA WithoutSmaller ==
  ASSUME NEW t \in [Key -> Window \cup {None}], NEW K,
         IsFiniteSet(Entries(t)), Cardinality(Entries(t)) <= Capacity
  PROVE  /\ Without(t, K) \in [Key -> Window \cup {None}]
         /\ IsFiniteSet(Entries(Without(t, K))) /\ Cardinality(Entries(Without(t, K))) <= Capacity
<1>1. Entries(Without(t, K)) \subseteq Entries(t)
  BY DEF Entries, Without
<1>2. /\ IsFiniteSet(Entries(Without(t, K)))
      /\ Cardinality(Entries(Without(t, K))) <= Cardinality(Entries(t))
  BY <1>1, FS_Subset
<1>3. Cardinality(Entries(t)) \in Nat /\ Cardinality(Entries(Without(t, K))) \in Nat
  BY <1>2, FS_CardinalityType
<1> QED
  BY <1>2, <1>3, SizesAssumption DEF Without

LEMMA SweptDerives ==
  ASSUME LimiterInv, NEW ip, NEW new, NEW u, NEW other
  PROVE  Derived(Swept, ip, new, u, other)
<1> DEFINE K == {k \in Entries(table) : Droppable(windows[table[k]])}
<1>1. /\ table \in [Key -> Window \cup {None}]
      /\ IsFiniteSet(Entries(table)) /\ Cardinality(Entries(table)) <= Capacity
  BY DEF LimiterInv, TypeOK, Finite
<1>2. Derived(table, ip, new, u, other)
  BY <1>1 DEF Derived
<1>3. Derived(Without(table, K), ip, new, u, other)
  <2>1. \A k \in Key : Without(table, K)[k] = IF k \in K THEN None ELSE table[k]
    BY DEF Without
  <2> QED
    BY <1>1, <2>1, WithoutSmaller DEF Derived
<1> QED
  BY <1>2, <1>3 DEF Swept

\* Looking a key up derives a table from a derived one.
LEMMA GetDerives ==
  ASSUME LimiterInv, NEW ip, NEW new \in Window, NEW u, NEW other \in Window,
         NEW t, Derived(t, ip, new, u, other), NEW k \in Key, NEW x \in Window,
         (k = ip /\ x = new) \/ (k = u /\ x = other),
         t[k] \in {None, table[k]}
  PROVE  /\ Derived(get(t, k, x), ip, new, u, other)
         /\ \A l \in Key : l # k => get(t, k, x)[l] = t[l]
<1>1. /\ t \in [Key -> Window \cup {None}]
      /\ IsFiniteSet(Entries(t)) /\ Cardinality(Entries(t)) <= Capacity
  BY DEF Derived
<1>2. /\ Derived(Drop(t, k), ip, new, u, other) /\ Drop(t, k)[k] \in {None, table[k]}
      /\ \A l \in Key : l # k => Drop(t, k)[l] = t[l]
  <2>1. CASE t[k] # None /\ Droppable(windows[t[k]])
    <3>1. \A l \in Key : Without(t, {k})[l] = IF l = k THEN None ELSE t[l]
      BY DEF Without
    <3>2. Derived(Without(t, {k}), ip, new, u, other)
      BY <1>1, <2>1, <3>1, WithoutSmaller DEF Derived
    <3> QED
      BY <2>1, <3>1, <3>2 DEF Drop
  <2>2. CASE ~(t[k] # None /\ Droppable(windows[t[k]]))
    BY <2>2 DEF Drop
  <2> QED
    BY <2>1, <2>2
<1>3. ASSUME NEW d, Derived(d, ip, new, u, other), d[k] = None,
             d[k] = table[k] \/ Droppable(windows[table[k]]),
             Cardinality(Entries(d)) < Capacity
      PROVE  /\ Derived([d EXCEPT ![k] = x], ip, new, u, other)
             /\ \A l \in Key : l # k => [d EXCEPT ![k] = x][l] = d[l]
  <2> DEFINE e == [d EXCEPT ![k] = x]
  <2>1. /\ d \in [Key -> Window \cup {None}] /\ IsFiniteSet(Entries(d))
    BY <1>3 DEF Derived
  <2>2. \A l \in Key : e[l] = IF l = k THEN x ELSE d[l]
    BY <2>1
  <2>3. e \in [Key -> Window \cup {None}]
    BY <2>1
  <2> HIDE DEF e
  <2>4. Entries(e) = Entries(d) \cup {k}
    BY <2>2, NoneAssumption DEF Entries
  <2>5. /\ IsFiniteSet(Entries(e))
        /\ Cardinality(Entries(e)) <= Cardinality(Entries(d)) + 1
        /\ Cardinality(Entries(d)) \in Nat
    <3>1. Cardinality(Entries(d)) \in Nat
      BY <2>1, FS_CardinalityType
    <3>2. /\ IsFiniteSet(Entries(d) \cup {k})
          /\ Cardinality(Entries(d) \cup {k}) =
               IF k \in Entries(d) THEN Cardinality(Entries(d)) ELSE Cardinality(Entries(d)) + 1
      BY <2>1, FS_AddElement
    <3> QED
      BY <2>4, <3>1, <3>2
  <2>6. Cardinality(Entries(e)) <= Capacity
    <3>1. Cardinality(Entries(e)) \in Nat
      BY <2>5, FS_CardinalityType
    <3> QED
      BY <1>3, <2>5, <3>1, SizesAssumption
  <2>7. \A l \in Key :
          LET v == e[l]
          IN  \/ v = table[l]
              \/ /\ table[l] # None => Droppable(windows[table[l]])
                 /\ v = None \/ (l = ip /\ v = new) \/ (l = u /\ v = other)
    BY <1>3, <2>2 DEF Derived
  <2> QED
    BY <2>2, <2>3, <2>5, <2>6, <2>7 DEF Derived, e
<1>4. Drop(t, k)[k] = None => Drop(t, k)[k] = table[k] \/ Droppable(windows[table[k]])
  BY <1>2 DEF Derived
<1>5. CASE Drop(t, k)[k] = None /\ Cardinality(Entries(Drop(t, k))) < Capacity
  BY <1>2, <1>3, <1>4, <1>5 DEF get
<1>6. CASE ~(Drop(t, k)[k] = None /\ Cardinality(Entries(Drop(t, k))) < Capacity)
  BY <1>2, <1>6 DEF get
<1> QED
  BY <1>5, <1>6
-----------------------------------------------------------------------------
\* What a refusal or an admission leaves in memory: the windows the table keeps
\* are as they were, but for the address's count and the place of an attempt.
LEMMA Remembers ==
  ASSUME LimiterInv, NEW ip \in Address, NEW u \in Account,
         NEW new \in Unused, NEW other \in Unused \ {new},
         Derived(table', ip, new, u, other), UNCHANGED failures,
         \A k \in Key : table'[k] # None /\ table'[k] = table[k] =>
           /\ windows'[table'[k]].left = windows[table[k]].left
           /\ k \in Account => windows'[table'[k]].count = windows[table[k]].count,
         table'[u] = other => windows'[other].left = Length /\ windows'[other].count = 0
  PROVE  \A v \in Account : Remembered(v)'
<1> SUFFICES ASSUME NEW v \in Account PROVE Remembered(v)'
  OBVIOUS
<1> USE SizesAssumption
<1>1. /\ v \in Key /\ v # ip /\ Recent(v)' = Recent(v) /\ failures' = failures
      /\ Remembered(v) /\ Recent(v) \in Nat
  BY KeysAssumption DEF LimiterInv, Key, Recent, TypeOK, Ages
<1>2. /\ \A w \in Window : windows[w].count \in Nat /\ windows[w].pending \in Nat
      /\ table[v] # None => table[v] \in Window
  BY <1>1 DEF LimiterInv, TypeOK
<1>3. table[v] # None /\ Droppable(windows[table[v]]) => Recent(v) <= AccountLimit
  <2> SUFFICES ASSUME table[v] # None, Droppable(windows[table[v]]) PROVE Recent(v) <= AccountLimit
    OBVIOUS
  <2>1. Recent(v) <= windows[table[v]].count
    BY <1>1 DEF Remembered, Droppable, Recent
  <2>2. windows[table[v]].count + windows[table[v]].pending <= AccountLimit
    BY DEF LimiterInv, WithinBudget
  <2> QED
    BY <1>1, <1>2, <2>1, <2>2
<1>4. CASE table'[v] = table[v]
  BY <1>1, <1>4 DEF Remembered
<1>5. CASE table'[v] # table[v]
  <2>1. Recent(v) <= AccountLimit
    BY <1>1, <1>3, <1>5 DEF Derived, Remembered
  <2>2. table'[v] = None \/ (v = u /\ table'[v] = other)
    BY <1>1, <1>5 DEF Derived
  <2>3. CASE table'[v] = None
    BY <1>1, <2>1, <2>3 DEF Remembered
  <2>4. CASE table'[v] = other /\ v = u
    <3>1. windows'[table'[v]].left = Length /\ windows'[table'[v]].count = 0
      BY <2>4
    <3> QED
      BY <1>1, <2>1, <3>1 DEF Remembered
  <2> QED
    BY <2>2, <2>3, <2>4
<1> QED
  BY <1>4, <1>5

\* An attempt in flight has a place in its window, which is therefore not dropped.
LEMMA HeldPositive ==
  ASSUME LimiterInv, NEW b \in Attempt, account[b] # None
  PROVE  /\ account[b] \in Account /\ captured[b] \in Window /\ captured[b] = table[account[b]]
         /\ windows[captured[b]].pending \in Nat \ {0} /\ ~Droppable(windows[captured[b]])
<1>1. /\ account[b] \in Account /\ captured[b] \in Window /\ captured[b] = table[account[b]]
      /\ windows[captured[b]].pending = Cardinality(Holders(captured[b]))
  BY DEF LimiterInv, TypeOK, PlacesReserved, Holders
<1>2. Holders(captured[b]) \subseteq {a \in Attempt : captured[a] # None}
  BY <1>1, NoneAssumption DEF Holders
<1>3. IsFiniteSet(Holders(captured[b]))
  BY <1>2, FS_Subset DEF LimiterInv, Finite
<1>4. Holders(captured[b]) # {}
  BY DEF Holders
<1>5. Cardinality(Holders(captured[b])) \in Nat \ {0}
  BY <1>3, <1>4, FS_EmptySet, FS_CardinalityType
<1> QED
  BY <1>1, <1>5 DEF Droppable

\* No window that is new is in the table, in an attempt's hand, or held.
LEMMA UnusedUnheld ==
  ASSUME LimiterInv, NEW w \in Unused
  PROVE  /\ w \in Window /\ \A k \in Key : table[k] # w
         /\ \A b \in Attempt : captured[b] # w
         /\ windows[w].pending = 0
<1>1. /\ w \in Window /\ \A k \in Key : table[k] # w
      /\ \A b \in Attempt : captured[b] # w
  BY NoneAssumption DEF Unused, Reachable, Entries
<1>2. Holders(w) = {}
  BY <1>1 DEF Holders
<1> QED
  BY <1>1, <1>2, FS_EmptySet DEF LimiterInv, PlacesReserved, Holders

\* What becomes of the attempts: none more, or one that takes a place in the
\* window the table has for its account.
Taken(t, X, new, other, u) ==
  \/ /\ UNCHANGED <<account, captured>>
     /\ \A w \in Window : X[w].pending = IF w \in {new, other} THEN 0 ELSE windows[w].pending
  \/ \E a \in Attempt :
       /\ account[a] = None /\ t[u] # None
       /\ account' = [account EXCEPT ![a] = u] /\ captured' = [captured EXCEPT ![a] = t[u]]
       /\ \A w \in Window : X[w].pending = (IF w \in {new, other} THEN 0 ELSE windows[w].pending)
                                             + (IF w = t[u] THEN 1 ELSE 0)

LEMMA MemoryKeeps ==
  ASSUME LimiterInv, NEW ip \in Address, NEW u \in Account,
         NEW new \in Unused, NEW other \in Unused \ {new}, NEW t, NEW X \in [Window -> WindowType],
         Derived(t, ip, new, u, other), Taken(t, X, new, other, u),
         table' = t, windows' = Collected(X, t, captured'), UNCHANGED failures,
         \A w \in Window \ {new, other} : X[w].left = windows[w].left,
         \A k \in Account : t[k] # None /\ t[k] = table[k] => X[t[k]].count = windows[t[k]].count,
         t[u] = other => X[other].left = Length /\ X[other].count = 0,
         \A k \in Account : t[k] # None => X[t[k]].count + X[t[k]].pending <= AccountLimit,
         \A k \in Address : t[k] # None => X[t[k]].count <= AddressLimit
  PROVE  LimiterInv'
<1>1. /\ t \in [Key -> Window \cup {None}]
      /\ IsFiniteSet(Entries(t)) /\ Cardinality(Entries(t)) <= Capacity
      /\ \A k \in Key : t[k] = table[k] \/ (k = ip /\ t[k] = new) \/ (k = u /\ t[k] = other) \/ t[k] = None
  BY DEF Derived
<1>2. /\ account' \in [Attempt -> Account \cup {None}] /\ captured' \in [Attempt -> Window \cup {None}]
      /\ account \in [Attempt -> Account \cup {None}] /\ captured \in [Attempt -> Window \cup {None}]
      /\ table \in [Key -> Window \cup {None}]
  BY <1>1 DEF LimiterInv, TypeOK, Taken, Key
<1>3. \A w \in Window : windows'[w] = IF w \in Reachable(t, captured') THEN X[w] ELSE Garbage
  BY DEF Collected
<1>4. \A k \in Key : t[k] # None => t[k] \in Window /\ windows'[t[k]] = X[t[k]]
  BY <1>1, <1>3 DEF Reachable, Entries
<1>5. TypeOK'
  <2>1. windows' \in [Window -> WindowType]
    BY <1>3, SizesAssumption DEF Collected, Garbage, WindowType
  <2>2. failures' \in [Account -> [Ages -> Nat]]
    BY DEF LimiterInv, TypeOK
  <2> QED
    BY <1>1, <1>2, <2>1, <2>2 DEF TypeOK, WindowType
<1>6. Finite'
  <2>1. IsFiniteSet({b \in Attempt : captured[b] # None})
    BY DEF LimiterInv, Finite
  <2>2. PICK S : /\ IsFiniteSet(S) /\ {b \in Attempt : captured'[b] # None} \subseteq S
    <3>1. CASE UNCHANGED captured
      BY <2>1, <3>1
    <3>2. ASSUME NEW a \in Attempt, captured' = [captured EXCEPT ![a] = t[u]]
          PROVE  \E S : IsFiniteSet(S) /\ {b \in Attempt : captured'[b] # None} \subseteq S
      <4>1. IsFiniteSet({b \in Attempt : captured[b] # None} \cup {a})
        BY <2>1, FS_AddElement
      <4>2. {b \in Attempt : captured'[b] # None} \subseteq {b \in Attempt : captured[b] # None} \cup {a}
        BY <1>2, <3>2
      <4> QED
        BY <4>1, <4>2
    <3> QED
      BY <3>1, <3>2 DEF Taken
  <2>3. IsFiniteSet({b \in Attempt : captured'[b] # None})
    BY <2>2, FS_Subset
  <2> QED
    BY <1>1, <2>3 DEF Finite
<1>7. PlacesReserved'
  <2>1. ASSUME NEW b \in Attempt, account[b] # None PROVE t[account[b]] = captured[b] /\ captured[b] # None
    BY <2>1, HeldPositive, NoneAssumption DEF Derived, Key
  <2>2. \A b \in Attempt : account[b] = None <=> captured[b] = None
    BY DEF LimiterInv, PlacesReserved
  <2>3. \A k, l \in Key : table[k] # None /\ table[k] = table[l] => k = l
    BY DEF LimiterInv, PlacesReserved
  <2>4. \A k, l \in Key : t[k] # None /\ t[k] = t[l] => k = l
    BY <1>1, <2>3, UnusedUnheld
  <2>5. \A b \in Attempt : account'[b] # None => captured'[b] = t[account'[b]] /\ captured'[b] # None
    BY <1>2, <2>1 DEF Taken
  <2>6. \A b \in Attempt : account'[b] = None <=> captured'[b] = None
    BY <1>2, <2>2, NoneAssumption DEF Taken
  <2>7. ASSUME NEW w \in Window
        PROVE  windows'[w].pending = Cardinality(Holders(w)')
    <3>1. windows[w].pending = Cardinality(Holders(w)) /\ IsFiniteSet(Holders(w))
      <4>1. Holders(w) \subseteq {a \in Attempt : captured[a] # None}
        BY NoneAssumption DEF Holders
      <4>2. IsFiniteSet(Holders(w))
        BY <4>1, FS_Subset DEF LimiterInv, Finite
      <4> QED
        BY <4>2 DEF LimiterInv, PlacesReserved, Holders
    <3>2. w \in {new, other} => windows[w].pending = 0
      BY UnusedUnheld
    <3>3. CASE w \notin Reachable(t, captured')
      <4>1. Holders(w)' = {}
        BY <3>3, NoneAssumption DEF Reachable, Holders
      <4> QED
        BY <1>3, <3>3, <4>1, FS_EmptySet DEF Garbage
    <3>4. CASE w \in Reachable(t, captured') /\ UNCHANGED <<account, captured>>
               /\ X[w].pending = IF w \in {new, other} THEN 0 ELSE windows[w].pending
      BY <1>3, <3>1, <3>2, <3>4 DEF Holders
    <3>5. ASSUME w \in Reachable(t, captured'), NEW a \in Attempt, account[a] = None, t[u] # None,
                 captured' = [captured EXCEPT ![a] = t[u]],
                 X[w].pending = (IF w \in {new, other} THEN 0 ELSE windows[w].pending)
                                  + (IF w = t[u] THEN 1 ELSE 0)
          PROVE  windows'[w].pending = Cardinality(Holders(w)')
      <4>1. a \notin Holders(w)
        BY <2>2, <3>5, NoneAssumption DEF Holders
      <4>2. Holders(w)' = IF w = t[u] THEN Holders(w) \cup {a} ELSE Holders(w)
        BY <1>2, <3>5, <4>1 DEF Holders
      <4>3. Cardinality(Holders(w) \cup {a}) = Cardinality(Holders(w)) + 1
        BY <3>1, <4>1, FS_AddElement
      <4>4. Cardinality(Holders(w)) \in Nat /\ windows'[w] = X[w]
        BY <1>3, <3>1, <3>5, FS_CardinalityType
      <4> QED
        BY <3>1, <3>2, <3>5, <4>2, <4>3, <4>4
    <3> QED
      BY <3>3, <3>4, <3>5 DEF Taken
  <2> QED
    BY <2>4, <2>5, <2>6, <2>7 DEF PlacesReserved, Holders
<1>8. WithinBudget'
  BY <1>4 DEF WithinBudget, Key
<1>9. \A v \in Account : Remembered(v)'
  <2>1. \A k \in Key : t[k] # None /\ t[k] = table[k] => t[k] \in Window \ {new, other}
    BY <1>1, UnusedUnheld
  <2>2. \A k \in Key : t[k] # None /\ t[k] = table[k] =>
          /\ windows'[t[k]].left = windows[table[k]].left
          /\ k \in Account => windows'[t[k]].count = windows[table[k]].count
    BY <1>4, <2>1
  <2>3. t[u] = other => windows'[other].left = Length /\ windows'[other].count = 0
    BY <1>4, NoneAssumption DEF Key, Unused
  <2> QED
    BY <2>2, <2>3, Remembers
<1> QED
  BY <1>5, <1>6, <1>7, <1>8, <1>9 DEF LimiterInv

LEMMA GetAccountDerives ==
  ASSUME LimiterInv, NEW ip, NEW new \in Window, NEW u \in Key, NEW other \in Window,
         NEW t, Derived(t, ip, new, u, other), t[u] \in {None, table[u]}
  PROVE  /\ Derived(get(t, u, other), ip, new, u, other)
         /\ \A l \in Key : l # u => get(t, u, other)[l] = t[l]
<1>1. \A k \in Key, x \in Window :
        ((k = ip /\ x = new) \/ (k = u /\ x = other)) /\ t[k] \in {None, table[k]} =>
          /\ Derived(get(t, k, x), ip, new, u, other)
          /\ \A l \in Key : l # k => get(t, k, x)[l] = t[l]
  BY GetDerives
<1> QED
  BY <1>1

LEMMA StartKeeps ==
  ASSUME LimiterInv, NEW a \in Attempt, NEW u \in Account, NEW ip \in Address, Start(a, u, ip)
  PROVE  LimiterInv'
<1> DEFINE new == CHOOSE w \in Unused : TRUE
           other == CHOOSE w \in Unused \ {new} : TRUE
           t1 == get(Swept, ip, new)
           t2 == get(t1, u, other)
           was == [w \in Window |-> IF w \in {new, other} THEN Fresh ELSE windows[w]]
           charged == [was EXCEPT ![t1[ip]].count = @ + 1]
           admitted == [charged EXCEPT ![t2[u]].pending = @ + 1]
           full(w) == charged[w].count + charged[w].pending >= AccountLimit
<1>1. /\ account[a] = None /\ UNCHANGED failures /\ new \in Unused /\ other \in Unused \ {new}
      /\ \/ /\ t1[ip] # None => was[t1[ip]].count >= AddressLimit
            /\ table' = t1
            /\ windows' = Collected(was, t1, captured)
            /\ UNCHANGED <<account, captured>>
         \/ /\ t1[ip] # None /\ was[t1[ip]].count < AddressLimit
            /\ t2[u] # None => full(t2[u])
            /\ table' = t2
            /\ windows' = Collected(charged, t2, captured)
            /\ UNCHANGED <<account, captured>>
         \/ /\ t1[ip] # None /\ was[t1[ip]].count < AddressLimit
            /\ t2[u] # None /\ ~full(t2[u])
            /\ table' = t2
            /\ account' = [account EXCEPT ![a] = u]
            /\ captured' = [captured EXCEPT ![a] = t2[u]]
            /\ windows' = Collected(admitted, t2, captured')
  BY DEF Start
<1> HIDE DEF new, other
<1>2. new \in Window /\ other \in Window /\ new # other /\ ip \in Key /\ u \in Key /\ u # ip
  BY <1>1, KeysAssumption DEF Unused, Key
<1>3. \A k \in Key : table[k] \notin {new, other}
  BY <1>1, UnusedUnheld
<1>4. Derived(t1, ip, new, u, other) /\ t1[u] \in {None, table[u]}
  <2>1. Derived(Swept, ip, new, u, other)
    BY SweptDerives
  <2>2. \A k \in Key : Swept[k] \in {None, table[k]}
    BY DEF Swept, Without
  <2> HIDE DEF t1
  <2>3. Derived(t1, ip, new, u, other) /\ \A l \in Key : l # ip => t1[l] = Swept[l]
    BY <1>2, <2>1, <2>2, GetDerives DEF t1
  <2> QED
    BY <1>2, <2>2, <2>3
<1> HIDE DEF t1
<1> HIDE DEF t2
<1>5. Derived(t2, ip, new, u, other) /\ t2[ip] = t1[ip]
  <2>1. Derived(t2, ip, new, u, other) /\ \A l \in Key : l # u => t2[l] = t1[l]
    BY <1>2, <1>4, GetAccountDerives DEF t2
  <2> QED
    BY <1>2, <2>1
<1>6. windows \in [Window -> WindowType]
  BY DEF LimiterInv, TypeOK, WindowType
<1>7. was \in [Window -> WindowType]
  BY <1>6, SizesAssumption DEF Fresh, WindowType
<1>8. /\ \A w \in Window \ {new, other} : was[w] = windows[w]
      /\ \A w \in {new, other} : was[w] = [left |-> Length, count |-> 0, pending |-> 0]
  BY <1>2 DEF Fresh
<1> HIDE DEF was
<1>9. ASSUME NEW t, Derived(t, ip, new, u, other), NEW k \in Key, t[k] # None
      PROVE  /\ t[k] \in Window /\ (t[k] \in {new, other} \/ t[k] = table[k])
             /\ k \notin {ip, u} => t[k] = table[k]
             /\ k = u => t[k] # new /\ (t[k] = other \/ t[k] = table[k])
             /\ k = ip => t[k] # other /\ (t[k] = new \/ t[k] = table[k])
  BY <1>2, <1>3, <1>9 DEF Derived
<1>10. /\ \A k \in Account : table[k] # None => windows[table[k]].count + windows[table[k]].pending <= AccountLimit
       /\ \A k \in Address : table[k] # None => windows[table[k]].count <= AddressLimit
  BY DEF LimiterInv, WithinBudget
<1>11. \A k, l \in Key : table[k] # None /\ table[k] = table[l] => k = l
  BY DEF LimiterInv, PlacesReserved
\* Before the address is charged, what the table keeps is within the budget.
<1>12. ASSUME NEW t, Derived(t, ip, new, u, other)
       PROVE  /\ \A k \in Account : t[k] # None => was[t[k]].count + was[t[k]].pending <= AccountLimit
              /\ \A k \in Address : t[k] # None => was[t[k]].count <= AddressLimit
  BY <1>3, <1>8, <1>9, <1>10, <1>12, SizesAssumption DEF Key
<1>13. \A w \in Window : was[w].pending = IF w \in {new, other} THEN 0 ELSE windows[w].pending
  BY <1>8
<1>14. CASE table' = t1 /\ windows' = Collected(was, t1, captured) /\ UNCHANGED <<account, captured>>
  <2>1. Taken(t1, was, new, other, u)
    BY <1>13, <1>14 DEF Taken
  <2>2. /\ \A w \in Window \ {new, other} : was[w].left = windows[w].left
        /\ \A k \in Account : t1[k] # None /\ t1[k] = table[k] => was[t1[k]].count = windows[t1[k]].count
        /\ t1[u] = other => was[other].left = Length /\ was[other].count = 0
    BY <1>3, <1>4, <1>8, <1>9 DEF Key
  <2>3. windows' = Collected(was, t1, captured')
    BY <1>14
  <2> QED
    BY <1>1, <1>4, <1>7, <1>12, <1>14, <2>1, <2>2, <2>3, MemoryKeeps
<1>15. ASSUME t1[ip] # None, was[t1[ip]].count < AddressLimit
       PROVE  /\ charged \in [Window -> WindowType] /\ t1[ip] \in Window
              /\ \A w \in Window : /\ charged[w].left = was[w].left
                                   /\ charged[w].pending = was[w].pending
                                   /\ charged[w].count = was[w].count + (IF w = t1[ip] THEN 1 ELSE 0)
  <2>1. t1[ip] \in Window
    BY <1>2, <1>4, <1>9, <1>15
  <2> QED
    BY <1>7, <2>1 DEF WindowType
<1> HIDE DEF charged
<1>16. ASSUME t1[ip] # None, was[t1[ip]].count < AddressLimit
       PROVE  /\ \A w \in Window \ {new, other} : charged[w].left = windows[w].left
              /\ \A k \in Key \ {ip} : t2[k] # None => charged[t2[k]].count = was[t2[k]].count
              /\ \A k \in Account : t2[k] # None /\ t2[k] = table[k] => charged[t2[k]].count = windows[t2[k]].count
              /\ t2[u] = other => charged[other].left = Length /\ charged[other].count = 0
              /\ \A k \in Account : t2[k] # None => charged[t2[k]].count + charged[t2[k]].pending <= AccountLimit
              /\ \A k \in Address : t2[k] # None => charged[t2[k]].count <= AddressLimit
  <2>1. \A k \in Key \ {ip} : t2[k] # None => t2[k] \in Window /\ t2[k] # t1[ip]
    BY <1>2, <1>3, <1>4, <1>5, <1>9, <1>11, <1>16
  <2>2. \A k \in Key \ {ip} : t2[k] # None => charged[t2[k]].count = was[t2[k]].count
    BY <1>15, <1>16, <2>1, <1>7 DEF WindowType
  <2>3. \A k \in Account : t2[k] # None /\ t2[k] = table[k] => charged[t2[k]].count = windows[t2[k]].count
    BY <1>3, <1>8, <2>1, <2>2, KeysAssumption DEF Key
  <2>4. t2[u] = other => charged[other].left = Length /\ charged[other].count = 0
    BY <1>2, <1>8, <1>15, <1>16, <2>2, NoneAssumption
  <2>5. \A k \in Account : t2[k] # None => charged[t2[k]].count + charged[t2[k]].pending <= AccountLimit
    BY <1>5, <1>12, <1>15, <1>16, <2>1, <2>2, KeysAssumption DEF Key
  <2>6. \A k \in Address : t2[k] # None => charged[t2[k]].count <= AddressLimit
    <3> SUFFICES ASSUME NEW k \in Address, t2[k] # None PROVE charged[t2[k]].count <= AddressLimit
      OBVIOUS
    <3>1. CASE k = ip
      BY <1>5, <1>7, <1>15, <1>16, <3>1, SizesAssumption DEF WindowType
    <3>2. CASE k # ip
      BY <1>5, <1>12, <2>2, <3>2 DEF Key
    <3> QED
      BY <3>1, <3>2
  <2> QED
    BY <1>8, <1>15, <1>16, <2>2, <2>3, <2>4, <2>5, <2>6
<1>17. CASE /\ t1[ip] # None /\ was[t1[ip]].count < AddressLimit
            /\ table' = t2 /\ windows' = Collected(charged, t2, captured) /\ UNCHANGED <<account, captured>>
  <2>1. Taken(t2, charged, new, other, u)
    BY <1>13, <1>15, <1>17 DEF Taken
  <2>2. windows' = Collected(charged, t2, captured')
    BY <1>17
  <2> QED
    BY <1>1, <1>5, <1>15, <1>16, <1>17, <2>1, <2>2, MemoryKeeps
<1>18. CASE /\ t1[ip] # None /\ was[t1[ip]].count < AddressLimit
            /\ t2[u] # None /\ ~full(t2[u])
            /\ table' = t2
            /\ account' = [account EXCEPT ![a] = u]
            /\ captured' = [captured EXCEPT ![a] = t2[u]]
            /\ windows' = Collected(admitted, t2, captured')
  <2>1. t2[u] \in Window /\ charged \in [Window -> WindowType]
    BY <1>2, <1>5, <1>9, <1>15, <1>18
  <2>2. /\ admitted \in [Window -> WindowType]
        /\ \A w \in Window : /\ admitted[w].left = charged[w].left
                             /\ admitted[w].count = charged[w].count
                             /\ admitted[w].pending = charged[w].pending + (IF w = t2[u] THEN 1 ELSE 0)
    BY <2>1 DEF WindowType
  <2>3. charged[t2[u]].count + charged[t2[u]].pending < AccountLimit
    BY <1>18, <2>1, SizesAssumption DEF WindowType
  <2> HIDE DEF admitted, full
  <2>4. Taken(t2, admitted, new, other, u)
    <3>1. \A w \in Window : admitted[w].pending =
            (IF w \in {new, other} THEN 0 ELSE windows[w].pending) + (IF w = t2[u] THEN 1 ELSE 0)
      BY <1>13, <1>15, <1>18, <2>2
    <3> QED
      BY <1>1, <1>18, <3>1 DEF Taken
  <2>5. \A k \in Key : t2[k] # None => t2[k] \in Window
    BY <1>5, <1>9
  <2>6. \A k \in Account : t2[k] # None => admitted[t2[k]].count + admitted[t2[k]].pending <= AccountLimit
    <3> SUFFICES ASSUME NEW k \in Account, t2[k] # None
                 PROVE  admitted[t2[k]].count + admitted[t2[k]].pending <= AccountLimit
      OBVIOUS
    <3>1. k \in Key /\ t2[k] \in Window
      BY <2>5 DEF Key
    <3>2. charged[t2[k]].count \in Nat /\ charged[t2[k]].pending \in Nat
      BY <2>1, <3>1 DEF WindowType
    <3>3. charged[t2[k]].count + charged[t2[k]].pending <= AccountLimit
      BY <1>16, <1>18
    <3> QED
      BY <2>2, <2>3, <3>1, <3>2, <3>3, SizesAssumption
  <2>7. /\ \A k \in Address : t2[k] # None => admitted[t2[k]].count <= AddressLimit
        /\ \A w \in Window \ {new, other} : admitted[w].left = windows[w].left
        /\ \A k \in Account : t2[k] # None /\ t2[k] = table[k] => admitted[t2[k]].count = windows[t2[k]].count
        /\ t2[u] = other => admitted[other].left = Length /\ admitted[other].count = 0
    BY <1>2, <1>16, <1>18, <2>2, <2>5 DEF Key
  <2> QED
    BY <1>1, <1>5, <1>18, <2>2, <2>4, <2>6, <2>7, MemoryKeeps
<1> QED
  BY <1>1, <1>14, <1>17, <1>18

LEMMA FinishKeeps ==
  ASSUME LimiterInv, NEW a \in Attempt, NEW success \in BOOLEAN, Finish(a, success)
  PROVE  LimiterInv'
<1> DEFINE w == captured[a]
           u == account[a]
           failed == IF success THEN 0 ELSE 1
           X == [windows EXCEPT ![w].pending = @ - 1, ![w].count = @ + failed]
<1>1. /\ u \in Account /\ w \in Window /\ w = table[u] /\ w # None /\ u \in Key
      /\ windows[w].pending \in Nat \ {0}
  BY HeldPositive, NoneAssumption DEF Finish, Key
<1>2. /\ captured' = [captured EXCEPT ![a] = None] /\ account' = [account EXCEPT ![a] = None]
      /\ windows' = Collected(X, table, captured') /\ Failed(u, failed) /\ table' = table
  BY DEF Finish
<1>3. /\ table \in [Key -> Window \cup {None}] /\ windows \in [Window -> WindowType]
      /\ account \in [Attempt -> Account \cup {None}] /\ captured \in [Attempt -> Window \cup {None}]
      /\ failures \in [Account -> [Ages -> Nat]] /\ failed \in {0, 1}
  BY DEF LimiterInv, TypeOK, WindowType
<1> HIDE DEF w, u, failed
<1>4. /\ X \in [Window -> WindowType]
      /\ \A x \in Window : X[x] =
           IF x = w THEN [left |-> windows[w].left, count |-> windows[w].count + failed,
                          pending |-> windows[w].pending - 1]
           ELSE windows[x]
  <2>1. windows[w] \in WindowType
    BY <1>1, <1>3
  <2>2. \A x \in Window : X[x] =
          IF x = w THEN [left |-> windows[w].left, count |-> windows[w].count + failed,
                         pending |-> windows[w].pending - 1]
          ELSE windows[x]
    <3> DEFINE f == [windows EXCEPT ![w].pending = @ - 1]
               r == [left |-> windows[w].left, count |-> windows[w].count,
                     pending |-> windows[w].pending - 1]
    <3>1. f = [windows EXCEPT ![w] = r]
      <4>1. [windows[w] EXCEPT !.pending = @ - 1] = r
        BY <2>1 DEF WindowType
      <4>2. f = [windows EXCEPT ![w] = [windows[w] EXCEPT !.pending = @ - 1]]
        OBVIOUS
      <4> QED
        BY <4>1, <4>2
    <3>2. f[w] = r /\ \A x \in Window \ {w} : f[x] = windows[x]
      BY <1>1, <1>3, <3>1
    <3>3. X = [f EXCEPT ![w].count = @ + failed] /\ DOMAIN f = Window
      BY <1>3
    <3> HIDE DEF f, X
    <3>4. [r EXCEPT !.count = @ + failed] =
            [left |-> windows[w].left, count |-> windows[w].count + failed,
             pending |-> windows[w].pending - 1]
      OBVIOUS
    <3>5. X[w] = [r EXCEPT !.count = @ + failed] /\ \A x \in Window \ {w} : X[x] = f[x]
      BY <1>1, <3>2, <3>3
    <3> QED
      BY <3>2, <3>4, <3>5
  <2>3. [left |-> windows[w].left, count |-> windows[w].count + failed,
         pending |-> windows[w].pending - 1] \in WindowType
    BY <1>1, <1>3, <2>1 DEF WindowType
  <2>4. X = [x \in Window |-> X[x]]
    BY <1>3
  <2> HIDE DEF X
  <2>5. \A x \in Window : X[x] \in WindowType
    BY <1>3, <2>2, <2>3
  <2> QED
    BY <2>2, <2>4, <2>5
<1> HIDE DEF X
<1>5. \A k, l \in Key : table[k] # None /\ table[k] = table[l] => k = l
  BY DEF LimiterInv, PlacesReserved
<1>6. \A x \in Window : windows'[x] = IF x \in Reachable(table, captured') THEN X[x] ELSE Garbage
  BY <1>2 DEF Collected
<1>7. \A k \in Key : table[k] # None => table[k] \in Window /\ windows'[table[k]] = X[table[k]]
  BY <1>3, <1>6 DEF Reachable, Entries
<1>8. \A b \in Attempt : captured'[b] = IF b = a THEN None ELSE captured[b]
  BY <1>2, <1>3
<1>9. TypeOK'
  <2>1. windows' \in [Window -> WindowType]
    BY <1>2, <1>4, <1>6, SizesAssumption DEF Collected, Garbage, WindowType
  <2>2. failures' \in [Account -> [Ages -> Nat]]
    BY <1>1, <1>2, <1>3 DEF Failed
  <2>3. account' \in [Attempt -> Account \cup {None}] /\ captured' \in [Attempt -> Window \cup {None}]
    BY <1>2, <1>3
  <2>4. Cardinality(Entries(table)) <= Capacity
    BY DEF LimiterInv, TypeOK
  <2> QED
    BY <1>2, <1>3, <2>1, <2>2, <2>3, <2>4 DEF TypeOK, WindowType, Entries
<1>10. Finite'
  <2>1. {b \in Attempt : captured'[b] # None} \subseteq {b \in Attempt : captured[b] # None}
    BY <1>8
  <2>2. IsFiniteSet({b \in Attempt : captured'[b] # None})
    BY <2>1, FS_Subset DEF LimiterInv, Finite
  <2> QED
    BY <1>2, <2>2 DEF LimiterInv, Finite, Entries
<1>11. PlacesReserved'
  <2>1. ASSUME NEW x \in Window PROVE windows'[x].pending = Cardinality(Holders(x)')
    <3>1. windows[x].pending = Cardinality(Holders(x)) /\ IsFiniteSet(Holders(x))
      <4>1. Holders(x) \subseteq {b \in Attempt : captured[b] # None}
        BY NoneAssumption DEF Holders
      <4>2. IsFiniteSet(Holders(x))
        BY <4>1, FS_Subset DEF LimiterInv, Finite
      <4> QED
        BY <4>2 DEF LimiterInv, PlacesReserved, Holders
    <3>2. Holders(x)' = IF x = w THEN Holders(x) \ {a} ELSE Holders(x)
      BY <1>8, NoneAssumption DEF Holders, w
    <3>3. x = w => a \in Holders(x)
      BY DEF Holders, w
    <3>4. Cardinality(Holders(x) \ {a}) = IF a \in Holders(x) THEN Cardinality(Holders(x)) - 1
                                          ELSE Cardinality(Holders(x))
      BY <3>1, FS_RemoveElement
    <3>5. CASE x \in Reachable(table, captured')
      BY <1>1, <1>4, <1>6, <3>1, <3>2, <3>3, <3>4, <3>5
    <3>6. CASE x \notin Reachable(table, captured')
      <4>1. Holders(x)' = {}
        BY <3>6, NoneAssumption DEF Reachable, Holders
      <4> QED
        BY <1>6, <3>6, <4>1, FS_EmptySet DEF Garbage
    <3> QED
      BY <3>5, <3>6
  <2>2. \A b \in Attempt : account[b] = None <=> captured[b] = None
    BY DEF LimiterInv, PlacesReserved
  <2>3. \A b \in Attempt : account[b] # None => captured[b] = table[account[b]] /\ captured[b] # None
    BY DEF LimiterInv, PlacesReserved
  <2>4. \A b \in Attempt : account'[b] = IF b = a THEN None ELSE account[b]
    BY <1>2, <1>3
  <2>5. \A b \in Attempt : account'[b] # None => captured'[b] = table'[account'[b]] /\ captured'[b] # None
    BY <1>2, <1>8, <2>3, <2>4
  <2>6. \A b \in Attempt : account'[b] = None <=> captured'[b] = None
    BY <1>8, <2>2, <2>4
  <2>7. \A k, l \in Key : table'[k] # None /\ table'[k] = table'[l] => k = l
    BY <1>2, <1>5
  <2> QED
    BY <2>1, <2>5, <2>6, <2>7 DEF PlacesReserved, Holders
<1>12. WithinBudget'
  <2>1. ASSUME NEW v \in Account, table[v] # None
        PROVE  windows'[table[v]].count + windows'[table[v]].pending <= AccountLimit
    <3>1. v \in Key /\ table[v] \in Window
      BY <1>7, <2>1 DEF Key
    <3>2. windows[table[v]].count + windows[table[v]].pending <= AccountLimit
      BY <2>1 DEF LimiterInv, WithinBudget
    <3>3. windows[table[v]].count \in Nat /\ windows[table[v]].pending \in Nat
      BY <1>3, <3>1 DEF WindowType
    <3> QED
      BY <1>1, <1>3, <1>4, <1>7, <2>1, <3>1, <3>2, <3>3, SizesAssumption
  <2>2. ASSUME NEW ip \in Address, table[ip] # None PROVE windows'[table[ip]].count <= AddressLimit
    <3>1. table[ip] # w
      BY <1>1, <1>5, <2>2, KeysAssumption DEF Key
    <3> QED
      BY <1>4, <1>7, <2>2, <3>1 DEF Key, LimiterInv, WithinBudget
  <2> QED
    BY <1>2, <2>1, <2>2 DEF WithinBudget
<1>13. ASSUME NEW v \in Account PROVE Remembered(v)'
  <2>1. Remembered(v) /\ v \in Key
    BY DEF LimiterInv, Key
  <2>2. CASE v # u
    <3>1. failures'[v] = failures[v]
      BY <1>1, <1>2, <1>3, <2>2 DEF Failed
    <3>2. table[v] # None => windows'[table[v]] = windows[table[v]]
      BY <1>1, <1>4, <1>5, <1>7, <2>1, <2>2
    <3> QED
      BY <1>2, <2>1, <3>1, <3>2 DEF Remembered, Recent
  <2>3. CASE v = u
    <3>1. \A n \in Ages : /\ failures'[v][n] = IF n = 0 THEN 0 ELSE failures[v][n] + failed
                          /\ failures[v][n] \in Nat
      BY <1>1, <1>2, <1>3, <2>3 DEF Failed
    <3>2. windows'[table[v]] = [left |-> windows[w].left, count |-> windows[w].count + failed,
                                pending |-> windows[w].pending - 1]
      BY <1>1, <1>4, <1>7, <2>3
    <3>3. windows[w].left \in 0 .. Length /\ windows[w].count \in Nat
      BY <1>1, <1>3 DEF WindowType
    <3>4. /\ failures[v][0] = 0 /\ \A m, n \in Ages : m <= n => failures[v][m] <= failures[v][n]
          /\ failures[v][Length - windows[w].left] <= windows[w].count
          /\ Recent(v) <= windows[w].count + AccountLimit
      BY <1>1, <2>1, <2>3 DEF Remembered
    <3>5. 0 \in Ages /\ Length \in Ages /\ Length - windows[w].left \in Ages
      BY <3>3, SizesAssumption DEF Ages
    <3>6. failures'[v][0] = 0 /\ \A m, n \in Ages : m <= n => failures'[v][m] <= failures'[v][n]
      BY <1>3, <3>1, <3>4, <3>5 DEF Ages
    <3>7. failures'[v][Length - windows[w].left] <= windows[w].count + failed
      BY <1>3, <3>1, <3>3, <3>4, <3>5
    <3>8. Recent(v)' <= windows[w].count + failed + AccountLimit
      BY <1>3, <3>1, <3>3, <3>4, <3>5, SizesAssumption DEF Recent
    <3> QED
      BY <1>1, <1>2, <2>3, <3>2, <3>6, <3>7, <3>8 DEF Remembered
  <2> QED
    BY <2>2, <2>3
<1> QED
  BY <1>9, <1>10, <1>11, <1>12, <1>13 DEF LimiterInv

LEMMA TickKeeps ==
  ASSUME LimiterInv, Tick
  PROVE  LimiterInv'
<1> USE SizesAssumption
<1>1. UNCHANGED <<table, account, captured>>
  BY DEF Tick
<1>2. windows \in [Window -> WindowType] /\ failures \in [Account -> [Ages -> Nat]]
      /\ table \in [Key -> Window \cup {None}]
  BY DEF LimiterInv, TypeOK, WindowType
<1>3. \A w \in Window : /\ windows'[w].left = IF windows[w].left = 0 THEN 0 ELSE windows[w].left - 1
                        /\ windows'[w].count = windows[w].count
                        /\ windows'[w].pending = windows[w].pending
  BY <1>2 DEF Tick, WindowType
<1>4. windows' \in [Window -> WindowType]
  <2> DEFINE aged(w) == [windows[w] EXCEPT !.left = IF @ = 0 THEN 0 ELSE @ - 1]
  <2>1. ASSUME NEW w \in Window PROVE aged(w) \in WindowType
    <3>1. windows[w] \in WindowType
      BY <1>2
    <3>2. aged(w) = [windows[w] EXCEPT !.left = IF windows[w].left = 0 THEN 0 ELSE windows[w].left - 1]
      OBVIOUS
    <3>3. (IF windows[w].left = 0 THEN 0 ELSE windows[w].left - 1) \in 0 .. Length
      BY <3>1 DEF WindowType
    <3> QED
      BY <3>1, <3>2, <3>3 DEF WindowType
  <2>2. windows' = [w \in Window |-> aged(w)]
    BY DEF Tick
  <2> HIDE DEF aged
  <2> QED
    BY <2>1, <2>2
<1>5. \A u \in Account, n \in Ages : failures'[u][n] = IF n = 0 THEN 0 ELSE failures[u][n - 1]
  BY DEF Tick
<1>6. failures' \in [Account -> [Ages -> Nat]]
  BY <1>2 DEF Tick, Ages
<1>7. TypeOK' /\ Finite'
  BY <1>1, <1>4, <1>6 DEF LimiterInv, TypeOK, WindowType, Finite, Entries
<1>8. PlacesReserved'
  BY <1>1, <1>3 DEF LimiterInv, PlacesReserved
<1>9. WithinBudget'
  BY <1>1, <1>2, <1>3 DEF LimiterInv, WithinBudget, Key
<1>10. ASSUME NEW u \in Account PROVE Remembered(u)'
  <2>1. Remembered(u) /\ (table[u] # None => table[u] \in Window)
    BY <1>2 DEF LimiterInv, Key
  <2>2. \A n \in Ages : failures[u][n] \in Nat /\ (n # 0 => n - 1 \in Ages)
    BY <1>2 DEF Ages
  <2>3. failures'[u][0] = 0 /\ \A m, n \in Ages : m <= n => failures'[u][m] <= failures'[u][n]
    BY <1>5, <2>1, <2>2 DEF Remembered, Ages
  <2>4. Recent(u)' <= Recent(u) /\ Recent(u) \in Nat /\ Recent(u)' \in Nat
    BY <1>5, <2>1, <2>2 DEF Remembered, Ages, Recent
  <2>5. ASSUME table[u] # None
        PROVE  failures'[u][Length - windows'[table[u]].left] <= windows[table[u]].count
    <3>1. /\ windows[table[u]].left \in 0 .. Length /\ windows[table[u]].count \in Nat
          /\ failures[u][Length - windows[table[u]].left] <= windows[table[u]].count
      BY <1>2, <2>1, <2>5 DEF Remembered, WindowType
    <3>2. CASE windows[table[u]].left = 0
      <4>1. Length \in Ages /\ Length - 1 \in Ages /\ failures[u][Length - 1] <= failures[u][Length]
        BY <2>1 DEF Remembered, Ages
      <4>2. failures'[u][Length] = failures[u][Length - 1]
        BY <1>5, <4>1
      <4>3. Length - windows'[table[u]].left = Length /\ Length - windows[table[u]].left = Length
        BY <1>3, <2>1, <2>5, <3>2
      <4> QED
        BY <2>2, <3>1, <4>1, <4>2, <4>3
    <3>3. CASE windows[table[u]].left # 0
      <4> DEFINE n == Length - windows[table[u]].left
      <4>1. n \in Ages /\ n + 1 \in Ages /\ n + 1 # 0 /\ (n + 1) - 1 = n
        BY <3>1, <3>3 DEF Ages
      <4>2. Length - windows'[table[u]].left = n + 1
        BY <1>3, <2>1, <2>5, <3>1, <3>3
      <4>3. failures'[u][n + 1] = failures[u][n]
        BY <1>5, <4>1
      <4> QED
        BY <3>1, <4>2, <4>3
    <3> QED
      BY <3>2, <3>3
  <2>6. table[u] = None => Recent(u)' <= AccountLimit
    BY <2>1, <2>4 DEF Remembered
  <2>7. table[u] # None => Recent(u)' <= windows[table[u]].count + AccountLimit
    BY <1>2, <2>1, <2>4 DEF Remembered, WindowType
  <2> QED
    BY <1>1, <1>3, <2>1, <2>3, <2>5, <2>6, <2>7 DEF Remembered
<1> QED
  BY <1>7, <1>8, <1>9, <1>10 DEF LimiterInv

LEMMA LimiterStep == LimiterInv /\ [Next]_vars => LimiterInv'
<1>1. ASSUME LimiterInv, UNCHANGED vars PROVE LimiterInv'
  BY <1>1 DEF vars, LimiterInv, TypeOK, Finite, PlacesReserved, WithinBudget, Remembered, Recent, Entries
<1> QED
  BY <1>1, StartKeeps, FinishKeeps, TickKeeps DEF Next
-----------------------------------------------------------------------------
\* The table never outgrows its capacity, and every window is a window.
THEOREM LimiterTypes == Spec => []TypeOK
<1>1. LimiterInv => TypeOK
  BY DEF LimiterInv
<1> QED
  BY <1>1, Initially, LimiterStep, PTL DEF Spec

\* However many attempts overlap, each has a place of its own in the window it
\* will report to, and no window gives away more places than its limit.
THEOREM BudgetIsKept == Spec => []BudgetKept
<1>1. LimiterInv => BudgetKept
  BY DEF LimiterInv, BudgetKept
<1> QED
  BY <1>1, Initially, LimiterStep, PTL DEF Spec

\* In any period of a window's length an account sees at most twice its limit
\* of failures, whatever its attempts do around the end of a window.
THEOREM FailuresAreBounded == Spec => []FailuresBounded
<1>1. LimiterInv => FailuresBounded
  <2> SUFFICES ASSUME LimiterInv, NEW u \in Account PROVE Recent(u) <= 2 * AccountLimit
    BY DEF FailuresBounded
  <2>1. Remembered(u) /\ Recent(u) \in Nat /\ (table[u] # None => table[u] \in Window)
    BY SizesAssumption DEF LimiterInv, TypeOK, Recent, Ages, Key
  <2>2. CASE table[u] = None
    BY <2>1, <2>2, SizesAssumption DEF Remembered
  <2>3. CASE table[u] # None
    <3>1. windows[table[u]].count \in Nat /\ windows[table[u]].pending \in Nat
      BY <2>1, <2>3 DEF LimiterInv, TypeOK
    <3>2. windows[table[u]].count + windows[table[u]].pending <= AccountLimit
      BY <2>3 DEF LimiterInv, WithinBudget
    <3> QED
      BY <2>1, <2>3, <3>1, <3>2, SizesAssumption DEF Remembered
  <2> QED
    BY <2>2, <2>3
<1> QED
  BY <1>1, Initially, LimiterStep, PTL DEF Spec
=============================================================================
