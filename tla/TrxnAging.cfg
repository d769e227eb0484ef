SPECIFICATION Spec
CONSTANTS
  User = {"alice", "bob"}
  Bucket = {"alice", "bob"}
  Path <- OwnPath
  Key = {"key"}
  Trxn = {"t1"}
  Req <- OneReq
  N = 6
  Hash <- FourAndTwo
  Proxies <- ProxyTwo
  Founded <- AliceAndBob
  Down = {}
  MaxRestarts <- NoRestart
  Stale = {"t1"}
  Late = {"t1"}
INVARIANTS CommitCertificate
PROPERTIES NothingRepeated KeepsPromise
\* The network rests when every message has been handled.
CHECK_DEADLOCK FALSE
