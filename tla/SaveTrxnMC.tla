------------------------------ MODULE SaveTrxnMC ------------------------------
(***************************************************************************)
(* Instances of SaveTrxn for TLC.                                           *)
(***************************************************************************)
EXTENDS SaveTrxn, TLC

OwnPath == [u \in User |-> u]
OnlyBob == [bob |-> "key"]

\* alice opens an account and pays bob, bob pays alice.
OpenAndPay ==
  [open |-> [type |-> "NEWACCT", from |-> "alice", to |-> "alice", amount |-> 0,
             key |-> "key"],
   there |-> [type |-> "PAYMENT", from |-> "alice", to |-> "bob",
              amount |-> 6000000, key |-> "key"],
   back |-> [type |-> "PAYMENT", from |-> "bob", to |-> "alice",
             amount |-> 2000000, key |-> "key"]]
=============================================================================
