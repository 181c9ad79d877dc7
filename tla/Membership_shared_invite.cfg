CONSTANTS
  u1 = u1  u2 = u2  u3 = u3  f1 = f1  f2 = f2
  i1 = i1  i2 = i2  p1 = p1  p2 = p2
  NoUser = NoUser
  NoFamily = NoFamily
  NoInvite = NoInvite
  Users <- MCThreeUsers
  Families <- MCOneFamily
  Invites <- MCInvites
  Procs <- MCProcs
  MaxMembers = 3
  MaxContent = 1
SPECIFICATION Spec
CHECK_DEADLOCK FALSE
SYMMETRY ThreeSymmetry
INVARIANT OneUserPerInvite
