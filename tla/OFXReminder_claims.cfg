CONSTANTS
  f1 = f1  f2 = f2  f3 = f3  r1 = r1  r2 = r2
  Families <- MCThreeFamilies
  Replicas <- MCReplicas
  Steady = r1
  DailyCap = 2
  StaleAfter = 1
  MaxAge = 2
  MaxImports = 1
  MaxLost = 3
SPECIFICATION Spec
CONSTRAINT MCBound
SYMMETRY Symmetry
INVARIANTS TypeOK OneMailPerImport CapUnlessBlind ClaimsAccounted
