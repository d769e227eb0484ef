SPECIFICATION FairSpec
CONSTANTS
  User = {"alice", "bob"}
  Bucket = {"alice", "bob"}
  Path <- OwnPath
  Key = {"key"}
  Trxn = {"t1", "t2"}
  Req <- TwoReq
  N = 4
  Hash <- TwoZones
  Proxies <- ProxyFour
  Founded <- AliceAndBob
  Down = {}
  MaxRestarts <- NoRestart
  Stale = {}
  Late = {}
INVARIANTS TypeOK RolesOK ReplicasAgree RestIsTold RestIsSame
PROPERTIES Finality ClientAnswered
\* The network rests when every message has been handled.
CHECK_DEADLOCK FALSE
