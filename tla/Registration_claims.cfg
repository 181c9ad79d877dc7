CONSTANTS
  Procs = {p1, p2}
  Logins = {l1, l2}
  Invites = {i1, i2}
  Families = {f1, f2, f3}
  NoLogin = NoLogin
  NoInvite = NoInvite
  NoFamily = NoFamily
SPECIFICATION Spec
SYMMETRY Symmetry
INVARIANTS
  TypeOK GrantsOnce InvitesAccounted
PROPERTY ImplementsLives
CHECK_DEADLOCK FALSE
