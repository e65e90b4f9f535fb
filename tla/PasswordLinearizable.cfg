SPECIFICATION Spec
CONSTANTS
  a = a
  b = b
  c = c
  p = p
  q = q
  User = {a, b, c}
  Request = {r1, r2}
  Password = {p, q}
  Setup = Setup
  NoHash = NoHash
  NoRequest = NoRequest
  NoClaims = NoClaims
  NoJob = NoJob
  NoRow = NoRow
  Kinds = {"signin", "change", "complete", "write", "block", "role", "create", "initialize", "reset", "restore", "offlineInitialize", "offlineReset"}
  InitialUsers <- EverySite
SYMMETRY Symmetry
INVARIANTS Inductive DecisionsHold
PROPERTIES Linearizable AdministratorRetained

