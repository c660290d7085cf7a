SPECIFICATION ServersSpec
CONSTANTS
  n1 = n1  q1 = q1  q2 = q2  Main = main
  Instances = {n1, n2}
  Configured <- MCConfigured
  Callers = {caller}
  MaxListeners = 3
  MaxRestarts = 1
  Slots = {"", "a"}
  Queries = {q1, q2}
  Rejected = {q2}
  Params <- MCParams
  MaxMessages = 5
  MaxLexemes = 5
  Clients = {c1, c2}
  Pair = {x1, x2}
  MaxChildren = 3
  Ports = {1, 2}
  Commands = {1}
  Topics = {t1}
  Subs = {x1, x2}
  AckDeadlines <- OddDeadline
  ModSeconds <- NackOrExtend
  Limits <- DefaultPull
  DefaultAckSec = 1
  DefaultLimit = 1
  MaxBatch = 2
  MaxMsgs = 2
  MaxAcks = 4
  MaxTime = 2
SYMMETRY Symmetry
INVARIANTS
  TypeOK AckNamesOneDelivery NoLostMessage NackIsFinal SameOrderEverywhere
  NoLeakedChild ListenersServed  DaemonIsFound
PROPERTIES ExclusiveLease KeepsPromise SessionAnswers
CHECK_DEADLOCK FALSE
