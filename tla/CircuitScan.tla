----------------------------- MODULE CircuitScan -----------------------------
(***************************************************************************)
(* The loops of src/src/dynamiccircuit.cc, one node-list entry per step.    *)
(* getLeaders, isLeader, getOtherLeadersAndThisFollowers and getLeader each *)
(* make one pass over nodeList_; this module makes the four passes in step  *)
(* and compares what they return with the circuit DynamicCircuit defines,   *)
(* which is what TrxnConsensus uses.                                        *)
(***************************************************************************)
EXTENDS DynamicCircuit

CONSTANT MaxNodes        \* bound on the length of the node list

ASSUME MaxNodesAssumption == MaxNodes \in Nat

VARIABLES
  n, h, me,    \* node list length, hashes under the beacon, srvid's position
  i,           \* the entry the loops look at
  leader,      \* getLeaders: the array it fills, one entry per zone
  verdict,     \* isLeader: what it has found out about srvid
  led,         \* isLeader: followersVec
  other,       \* getOtherLeadersAndThisFollowers: its array of leaders
  mates,       \* getOtherLeadersAndThisFollowers: followers
  answer,      \* getOtherLeadersAndThisFollowers: idIsLeader
  found        \* getLeader: the leader it pushed, NoNode before

vars == <<n, h, me, i, leader, verdict, led, other, mates, answer, found>>

Zone(x) == ZoneOf(n, h, x)
Done == i > n

\* The entries of an array of leaders that are not empty.
Entries(a) == {a[z] : z \in DOMAIN a} \ {NoNode}

\* Mutant: the last node of a zone wins.
ClaimLast(a) == [a EXCEPT ![Zone(i)] = i]

\* `if leader[zone] is empty then leader[zone] = nodeList_[i]'.
Claim(a) == [a EXCEPT ![Zone(i)] = IF @ = NoNode THEN i ELSE @]

Init ==
  /\ n \in 1..MaxNodes
  /\ h \in [1..n -> 0..(n - 1)]
  /\ me \in 1..n
  /\ i = 1
  /\ leader = [z \in 0..(NumZones(n) - 1) |-> NoNode]
  /\ other = leader
  /\ verdict = "unknown"
  /\ led = {}
  /\ mates = {}
  /\ answer = "no"
  /\ found = NoNode

\* One iteration on an entry of another zone than srvid's.
VisitOtherZone ==
  /\ ~Done /\ Zone(i) # Zone(me)
  /\ leader' = Claim(leader)
  /\ other' = Claim(other)
  /\ i' = i + 1
  /\ UNCHANGED <<n, h, me, verdict, led, mates, answer, found>>

\* One iteration on an entry of srvid's zone.  isLeader returns at the first
\* entry that is not srvid; idIsLeader of getOtherLeadersAndThisFollowers is
\* set whenever the pass meets srvid, because `first' is cleared nowhere else.
VisitOwnZone ==
  /\ ~Done /\ Zone(i) = Zone(me)
  /\ leader' = Claim(leader)
  /\ verdict' = IF verdict = "unknown" THEN IF i = me THEN "yes" ELSE "no"
                ELSE verdict
  /\ led' = IF verdict = "yes" THEN led \cup {i} ELSE led
  /\ mates' = mates \cup ({i} \ {me})
  /\ answer' = IF i = me THEN "yes" ELSE answer
  /\ found' = IF found = NoNode THEN i ELSE found
  /\ i' = i + 1
  /\ UNCHANGED <<n, h, me, other>>

Next == VisitOtherZone \/ VisitOwnZone
Spec == Init /\ [][Next]_vars

\* Every zone number the loops compute indexes the vector of numZones leaders
\* (strvec leader(numZones) is written at leader[zone] without a bound check).
ZoneInRange == \A x \in 1..n : Zone(x) \in DOMAIN leader

\* When the passes end, each has returned its part of one and the same
\* circuit: what a node concludes about itself agrees with what every other
\* node concludes about it.  The exception is idIsLeader, `true if id is a
\* leader' by the comment on line 209, which is true of every node.
ScansMatchCircuit ==
  Done => /\ leader = ZoneLeaders(n, h)
          /\ (verdict = "yes") = (me \in Leaders(n, h))
          /\ led = IF me \in Leaders(n, h) THEN Followers(n, h, me) ELSE {}
          /\ Entries(other) = OtherLeaders(n, h, me)
          /\ mates = Followers(n, h, me)
          /\ found = LeaderOf(n, h, me)
          /\ answer = "yes"
=============================================================================
