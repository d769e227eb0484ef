SPECIFICATION Spec
CONSTANTS
  User = {"alice", "bob"}
  Name = {"gold", "ring"}
  Node = {x1, x2}
  Founded = {"alice", "bob"}
  Trxn = {"mintA", "mintB", "both", "back", "twice", "self"}
  Req <- MixedReq
SYMMETRY Nodes
INVARIANTS TypeOK TokensConserved NftOneHolder CheckedIsDone TokenReplicasAgree
\* Every message is handled once.
CHECK_DEADLOCK FALSE
