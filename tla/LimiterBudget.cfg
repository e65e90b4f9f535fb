SPECIFICATION FairSpec
CONSTANTS
  Account = {u, v}
  Address = {i}
  Attempt = {a1, a2}
  Window = {w1, w2, w3, w4, w5}
  AccountLimit = 2
  AddressLimit = 6
  Capacity = 2
  Length = 3
  None = None
INVARIANTS TypeOK BudgetKept FailuresBounded
PROPERTIES LockoutEnds
