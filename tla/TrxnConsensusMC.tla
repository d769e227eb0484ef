--------------------------- MODULE TrxnConsensusMC ---------------------------
(***************************************************************************)
(* Instances of TrxnConsensus for TLC.  A circuit is given by its hashes:   *)
(* with 4 nodes slots 0, 1 are zone 0 and 2, 3 are zone 1; with 6 nodes     *)
(* 0..2 and 3..5 (zone 2 of the three is always empty); with 10 nodes       *)
(* 0..2, 3..5, 6..8 and 9.                                                  *)
(***************************************************************************)
EXTENDS TrxnConsensus, TLC

OwnPath == [u \in User |-> u]

Payment(u, v, x) == [type |-> "PAYMENT", from |-> u, to |-> v, amount |-> x,
                     key |-> "key"]
NewAcct(u) == [type |-> "NEWACCT", from |-> u, to |-> u, amount |-> 0,
               key |-> "key"]

AliceAndBob == [alice |-> "key", bob |-> "key"]
OnlyBob == [bob |-> "key"]

\* Transactions: two payments of one payer, which it can afford, two it cannot,
\* an account opened and used, and one alone.
TwoReq == [t1 |-> Payment("alice", "bob", 6000050),
           t2 |-> Payment("alice", "bob", 3000060)]
RivalReq == [t1 |-> Payment("alice", "bob", 6000000),
             t2 |-> Payment("alice", "bob", 7000000)]
OpenReq == [t1 |-> NewAcct("alice"), t2 |-> Payment("alice", "bob", 1000000)]
OneReq == [t1 |-> Payment("alice", "bob", 4000000)]

\* Two zones of two nodes; t1 has leaders 1 and 3, t2 has leaders 1 and 2.
TwoZones == [t1 |-> <<0, 1, 2, 3>>, t2 |-> <<1, 2, 3, 0>>]
\* Zones {1, 2, 3, 4} and {5, 6}: the first needs three of four votes.
FourAndTwo == [t1 |-> <<0, 1, 2, 0, 3, 4>>]
\* Four zones of which three have one node.
SevenAndThree == [t1 |-> <<0, 1, 2, 0, 1, 2, 0, 3, 6, 9>>]

AnyProxy == [t \in Trxn |-> Node]
ProxyTwo == [t \in Trxn |-> {2}]
ProxyEight == [t \in Trxn |-> {8}]
NoRestart == [x \in Node |-> 0]
RestartTwoThree == [x \in Node |-> IF x \in {2, 3} THEN 1 ELSE 0]
RestartOne == [x \in Node |-> IF x = 1 THEN 1 ELSE 0]
ProxyFour == [t \in Trxn |-> {4}]
=============================================================================
