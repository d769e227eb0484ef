SPECIFICATION FairSpec
CONSTANTS
  User = {"alice", "bob"}
  Token = {"gold", "silver"}
  Query = {"q1", "q2", "q3"}
  Ask <- Asks
  Update = {"earn", "pay", "coin", "open"}
  Effect <- Effects
  Reach <- Reaches
  Opened = {"alice"}
  N = 7
  Hash <- Hashes
  Proxies <- LeaderOrFollower
  Outages <- OutageSets
  MaxRestarts <- RestartTwo
  MaxAge <- Ages
  Cleaners = {1}
  MaxQueries = 1
INVARIANTS TypeOK AnsweredCertificate RestIsAnswered
PROPERTIES AnswerIsCurrent QueryAnswered
\* The network rests when every message has been handled.
CHECK_DEADLOCK FALSE
