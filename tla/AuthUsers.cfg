SPECIFICATION Spec
CONSTANTS
  admin = admin
  student = student
  root = root
  ann = ann
  secret = secret
  other = other
  Requests = {r1, r2, r3, r4}
  SeedUsers = {admin, student}
  SeedRows <- MCSeedRows
  Forms <- MCForms
  Blank = Blank
  Nobody = Nobody
  Rights <- MCRights
  AdminRight = "admin"
  UseRight = "start_session"
  TokenLifetime = 2
  Instants = {0, 2}
SYMMETRY RequestSymmetry
INVARIANTS DuplicateNamesOnlyInWindow NoEffectAfterDeletion ConflictIsJustified DeletedOnce IInv
PROPERTIES ImplementsAccounts
CHECK_DEADLOCK FALSE
