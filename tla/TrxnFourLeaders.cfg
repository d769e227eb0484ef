SPECIFICATION Spec
CONSTANTS
  User = {"alice", "bob"}
  Bucket = {"alice", "bob"}
  Path <- OwnPath
  Key = {"key"}
  Trxn = {"t1"}
  Req <- OneReq
  N = 10
  Hash <- SevenAndThree
  Proxies <- ProxyEight
  Founded <- AliceAndBob
  Down = {2, 3, 4, 5, 6, 7}
  MaxRestarts <- NoRestart
  Stale = {}
  Late = {}
INVARIANTS CommitCertificate RestIsFinal
PROPERTIES StateMonotone KeepsPromise
\* The network rests when every message has been handled.
CHECK_DEADLOCK FALSE
