CONSTANTS
  Users = {u1}
  Procs = {p1, p2, p3}
  Tokens = {t1, t2}
  ResetTokens = {r1}
  NoUser = NoUser
  NoToken = NoToken
  NoReset = NoReset
  MaxGen = 2
SPECIFICATION Spec
SYMMETRY Symmetry
INVARIANTS TypeOK ResetsSound SessionLinear StaleSessionsRaced
PROPERTY ImplementsChains
