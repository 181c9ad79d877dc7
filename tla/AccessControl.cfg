CONSTANTS
  u1 = u1  u2 = u2  f1 = f1  f2 = f2  p1 = p1  p2 = p2
  NoUser = NoUser
  NoFamily = NoFamily
  NoProc = NoProc
  Users <- MCUsers
  Families <- MCFamilies
  Procs <- MCProcs
  ConsentTTLs <- MCConsentTTLs
  AccessTTL = 1
  ElevTTL = 1
  ServeMax = 1
  MaxTime = 3
  MaxRequests = 5
SPECIFICATION MCSpec
CHECK_DEADLOCK FALSE
SYMMETRY Symmetry
INVARIANTS TypeOK ActsAsProven LastAdminStays DumpsCovered TokensEnd
