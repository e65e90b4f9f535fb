SPECIFICATION Spec
CONSTANTS
  a = a
  b = b
  c = c
  p = p
  q = q
  User = {a, b}
  Request = {r1, r2, r3}
  Password = {p, q}
  Setup = Setup
  NoHash = NoHash
  NoRequest = NoRequest
  NoClaims = NoClaims
  NoJob = NoJob
  NoRow = NoRow
  Kinds = {"signin", "change", "complete", "reset"}
  InitialUsers <- AdministratorAndMember
SYMMETRY Symmetry
PROPERTIES RevocationIsPermanent PresentedPasswordIsCurrent
