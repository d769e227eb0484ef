--------------------------- MODULE QueryConsensusMC ---------------------------
(***************************************************************************)
(* An instance of QueryConsensus for TLC: seven nodes, which is two full    *)
(* zones of three hash slots and a third for slot 6.                        *)
(***************************************************************************)
EXTENDS QueryConsensus, TLC

\* alice's balance and one of her tokens; what she received; and a query of
\* bob, who has no account at first.
Asks == [q1 |-> [from |-> "alice", fields |-> {"balance", "token"},
                 token |-> "gold"],
         q2 |-> [from |-> "alice", fields |-> {"in"}, token |-> "gold"],
         q3 |-> [from |-> "bob", fields |-> {"out"}, token |-> "gold"]]

\* alice is paid and pays, which leaves the balance as it was, and is given a
\* token at a follower; bob's account is opened.
Effects == [earn |-> [user |-> "alice", kind |-> "earn", token |-> "gold"],
            pay  |-> [user |-> "alice", kind |-> "pay", token |-> "gold"],
            coin |-> [user |-> "alice", kind |-> "token", token |-> "gold"],
            open |-> [user |-> "bob", kind |-> "open", token |-> "gold"]]
Reaches == [earn |-> {2}, pay |-> {2}, coin |-> {4}, open |-> {2}]

\* Zones {1, 2}, {3, 4}, {5, 6, 7}; {1, 2, 3, 4}, {5, 6}, {7}.
TwoTwoThree == <<0, 1, 3, 4, 6, 6, 6>>
FourTwoOne == <<0, 1, 2, 0, 3, 4, 6>>
Hashes == [q1 |-> TwoTwoThree, q2 |-> FourTwoOne, q3 |-> FourTwoOne]

LeaderOrFollower == [q1 |-> {1, 2}, q2 |-> {2}, q3 |-> {2}]
OutageSets == {{}, {4}, {1, 3, 5}}
Ages == [q1 |-> 0, q2 |-> 240, q3 |-> 300]
RestartTwo == [x \in Node |-> IF x = 2 THEN 1 ELSE 0]
=============================================================================
