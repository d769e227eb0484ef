SPECIFICATION Spec
CONSTANTS
  User = {"alice", "bob"}
  Bucket = {"alice", "bob"}
  Path <- OwnPath
  Key = {"key"}
  Trxn = {"t1", "t2"}
  Req <- OpenReq
  N = 4
  Hash <- TwoZones
  Proxies <- AnyProxy
  Founded <- OnlyBob
  Down = {}
  MaxRestarts <- NoRestart
  Stale = {}
  Late = {}
INVARIANTS AccountEverywhere
\* The network rests when every message has been handled.
CHECK_DEADLOCK FALSE
