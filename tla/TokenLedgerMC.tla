---------------------------- MODULE TokenLedgerMC ----------------------------
(***************************************************************************)
(* Instances of TokenLedger for TLC.                                        *)
(***************************************************************************)
EXTENDS TokenLedger, TLC

Mint(u, items) == [type |-> "NEWTOKEN", from |-> u, to |-> u, items |-> items]
Xfer(u, v, items) == [type |-> "XFERTOKEN", from |-> u, to |-> v, items |-> items]
Of(n, k) == [name |-> n, amount |-> k]

\* Both users create gold, alice also the only ring.  The ring goes to bob and
\* back, gold in both directions; twice names gold twice, which may be more than
\* alice has; self stays with alice.
MixedReq ==
  [mintA |-> Mint("alice", <<Of("gold", 100), Of("ring", 1)>>),
   mintB |-> Mint("bob", <<Of("gold", 50)>>),
   both  |-> Xfer("alice", "bob", <<Of("gold", 30), Of("ring", 1)>>),
   back  |-> Xfer("bob", "alice", <<Of("ring", 1), Of("gold", 60)>>),
   twice |-> Xfer("alice", "bob", <<Of("gold", 60), Of("gold", 40)>>),
   self  |-> Xfer("alice", "alice", <<Of("gold", 10)>>)]

Nodes == Permutations(Node)
=============================================================================
