SPECIFICATION MCSpec
CONSTANTS
  Txns = 2
  Stmts = 3
  MaxLosses = 2
  CommitMayFail = FALSE
  PUSyncers = {s1, s2}
  PUReaders = {r1}
  PUItems = {i1, i2}
  Passive = FALSE
  ZBX_MAX_HRECORDS = 1
  OfflineBuffer = 0
  LocalBuffer = 0
  KeepWindow = 4
  MaxRows = 2
  MaxUpNow = 0
  MaxFaults = 1
  AgKeys = {k1}
  LogKey = klog
  CONFIG_BUFFER_SIZE = 3
  MaxLines = 3
  MaxRestarts = 1
  EscTriggers = {1}
  EscPeriods = {0, 1}
  OpSteps = {1, 2}
  RecoveryMsg = TRUE
  EscMultiple = TRUE
  SleepPeriod = 1
  MaxEscNow = 3
  MaxEscEvents = 3
  MaxEscCrashes = 1
  MaxAlerts = 2
  ALERT_MAX_RETRIES = 3
  MaxAlertCrashes = 1
INVARIANTS NoAssert  LossTakesBeginning BufferSound MessagesSound 
PROPERTIES EveryTxnEnds EveryUploaded LinesArrive  AlertsEnd
