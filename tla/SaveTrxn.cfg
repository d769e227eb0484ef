SPECIFICATION Spec
CONSTANTS
  User = {"alice", "bob"}
  Bucket = {"alice", "bob"}
  Path <- OwnPath
  Key = {"key"}
  Trxn = {"open", "there", "back"}
  Req <- OpenAndPay
  Founded <- OnlyBob
  LogWal = TRUE
  Replay = TRUE
  MaxCrashes = 2
  MaxFaults = 1
INVARIANTS TypeOK BlocksNeverAhead CreditFollowsDebit AppliedPerProcess
PROPERTIES FoundIsDone AtomicSave
\* A node with nothing to save rests.
CHECK_DEADLOCK FALSE
