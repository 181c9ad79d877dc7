CONSTANTS
  f1 = f1  f2 = f2  f3 = f3  r1 = r1  r2 = r2
  Families <- MCFamilies
  Replicas <- MCReplicas
  Steady = r1
  DailyCap = 1
  StaleAfter = 1
  MaxAge = 2
  MaxImports = 2
  MaxLost = 3
SPECIFICATION MCFairSpec
VIEW MCView
PROPERTY StaleFamilyClaimed
