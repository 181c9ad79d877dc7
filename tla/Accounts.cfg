CONSTANTS
  f1 = f1  c1 = c1  p1 = p1  p2 = p2  u1 = u1  u2 = u2  a1 = a1  a2 = a2  a3 = a3
  NoFamily = NoFamily  NoCoupon = NoCoupon  NoUser = NoUser  NoAccount = NoAccount
  Unlimited = Unlimited
  Families <- MCFamilies
  Coupons <- MCCoupons
  Procs <- MCProcs
  Users <- MCUsers
  Accounts <- MCAccounts
  Maxima <- MCMaxima
  FreeMaxAccounts = 1
  MaxRequests = 4
SPECIFICATION Spec
CHECK_DEADLOCK FALSE
SYMMETRY Symmetry
INVARIANTS TypeOK LimitsByOverlap ListAsAsked
PROPERTIES NoCouponLowersLimits
