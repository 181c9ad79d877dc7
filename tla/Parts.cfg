CONSTANTS
  row1 = row1  row2 = row2  row3 = row3
  account1 = account1  account2 = account2  replica1 = replica1
  key1 = key1  key2 = key2  machine1 = machine1  machine2 = machine2
  class1 = class1  class2 = class2  class3 = class3  word1 = word1  word2 = word2  noise1 = noise1
  Layouts = {"balance", "ident", "noIdent", "ofx"}
  Days = {1, 2}
  Amounts <- MCAmounts
  MaxMovements = 4
  MaxUploads = 2
  Rows <- MCRows
  ListAccounts <- MCListAccounts
  HistoryDays = 1
  Limits = {1, 3}
  Froms = {0, 1}
  DefaultLimit = 2
  MaxLimit = 2
  LastDay = 2
  MaxChanges = 1
  Replicas <- MCReplicas
  Keys <- MCKeys
  MaxPerWindow = 2
  Window = 1
  LastInstant = 4
  MaxAsked = 6
  MaxRestarts = 1
  Machines <- MCMachines
  LastMigration = 3
  MaxRuns = 4
  Words <- MCWords
  Noise <- MCNoise
  Classes <- MCClasses
  NoClass = NoClass
  MaxText = 2
  MaxDocs = 3
  Bank = {f1, f2}
  Plans = {p1, p2}
  Imports = {a, b}
  Files <- MCFiles
  NoKey = NoKey
  NoPlan = NoPlan
  MaxExcuses = 2
CONSTRAINT MCBound
VIEW MCView
SYMMETRY MCSymmetry
SPECIFICATION MCSpec
CHECK_DEADLOCK FALSE
INVARIANTS TypeOK AckedRecorded NoDoubleEntry PartsTypeOK EachMovementOnce PagesFaithful LimitKept SchemaFollowsRecord BestByMargin
