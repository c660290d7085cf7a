SPECIFICATION ServicesSpec
CONSTANTS
  d1 = d1  d2 = d2  t1 = t1  t2 = t2  b1 = b1  o1 = o1
  Clients = {c1, c2}
  Pair = {x1, x2}
  Rings = {x1, x2}
  KeyIds = {k1}
  MaxKeys = 3
  MaxRestarts = 1
  MaxVersions = 3
  Members = {m1}
  MaxSerial = 3
  Buckets = {b1}
  Objects = {o1, o2}
  Seeds <- MCSeeds
  MaxUploads = 3
  Labels = {1, 2}
  MaxEntries = 4
  MaxLexemes = 7
  Tables <- MCTables
  Names = {"a__b__c"}
  Physical <- MCPhysical
  MaxIdle = 2
  MaxRows = 2
SYMMETRY Symmetry
INVARIANTS CiphertextOpens KeyHasRing TablesKept LogsKept
PROPERTIES SecretsKept AccountsKept ObjectsKept
CHECK_DEADLOCK FALSE
