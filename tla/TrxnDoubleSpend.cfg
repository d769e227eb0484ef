SPECIFICATION Spec
CONSTANTS
  User = {"alice", "bob"}
  Bucket = {"alice", "bob"}
  Path <- OwnPath
  Key = {"key"}
  Trxn = {"t1", "t2"}
  Req <- RivalReq
  N = 4
  Hash <- TwoZones
  Proxies <- AnyProxy
  Founded <- AliceAndBob
  Down = {}
  MaxRestarts <- NoRestart
  Stale = {}
  Late = {}
INVARIANTS NoDoubleSpend
\* The network rests when every message has been handled.
CHECK_DEADLOCK FALSE
