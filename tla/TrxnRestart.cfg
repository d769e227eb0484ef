SPECIFICATION Spec
CONSTANTS
  User = {"alice", "bob"}
  Bucket = {"alice", "bob"}
  Path <- OwnPath
  Key = {"key"}
  Trxn = {"t1", "t2"}
  Req <- OpenReq
  N = 4
  Hash <- TwoZones
  Proxies <- ProxyTwo
  Founded <- OnlyBob
  Down = {}
  MaxRestarts <- RestartTwoThree
  Stale = {}
  Late = {}
INVARIANTS ConfirmedIsRecorded AtMostOnce
\* The network rests when every message has been handled.
CHECK_DEADLOCK FALSE
