SPECIFICATION Spec
CONSTANTS
  User = {"a", "b", "c"}
  Bucket = {"a", "b", "c"}
  Path <- OwnPath
  Key = {"key", "other"}
  Trxn = {"openA", "openB", "openC", "p1", "p2", "p3", "p4", "p5", "p6"}
  Req <- MixedReq
INVARIANTS TypeOK AccountsMatchBlocks
CHECK_DEADLOCK FALSE
