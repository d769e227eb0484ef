--------------------------- MODULE DynamicCircuit ---------------------------
(***************************************************************************)
(* The circuit of one transaction: how the nodes of the network split into  *)
(* zones and which node leads each zone (src/src/dynamiccircuit.cc).  The   *)
(* code recomputes it on every node for every message from the node list    *)
(* and the beacon of the transaction; the nodes exchange nothing about it,  *)
(* so the protocol is right only if all of them compute the same circuit.   *)
(*                                                                          *)
(* A node is its position in nodeList_, so Node == 1..n and "the first node *)
(* of a zone" is the least one.  A beacon enters only through h, where h[x] *)
(* stands for XXH64(nodeList_[x], seed); the code reduces it modulo n.      *)
(***************************************************************************)
EXTENDS Integers, FiniteSets

\* No leader: the empty string getLeaders leaves for a zone without nodes.
NoNode == 0

\* NodeList::getLevel: two levels of voting below ten thousand nodes.
Level(n) == IF n < 10000 THEN 2 ELSE 3

Power(c, level) == IF level = 2 THEN c * c ELSE c * c * c

\* int(sqrt(nlen)) at level 2, int(cbrt(nlen)) at level 3.
IsRoot(c, n, level) == Power(c, level) <= n /\ n < Power(c + 1, level)
NumFullZones(n) == CHOOSE c \in 0..n : IsRoot(c, n, Level(n))

\* Mutant: the last, narrower zone is forgotten.
NumZonesFull(n) == NumFullZones(n)
NumZones(n) == LET c == NumFullZones(n)
               IN  IF n > Power(c, Level(n)) THEN c + 1 ELSE c

\* dd of the code: how many hash slots make a zone.
ZoneWidth(n) == n \div NumFullZones(n)

ZoneOf(n, h, x) == (h[x] % n) \div ZoneWidth(n)

\* The nodes of x's zone, x included.
ZoneMates(n, h, x) == {y \in 1..n : ZoneOf(n, h, y) = ZoneOf(n, h, x)}

First(S) == CHOOSE x \in S : \A y \in S : x <= y

\* DynamicCircuit::getLeader: the first node of x's zone in list order.
LeaderOf(n, h, x) == First(ZoneMates(n, h, x))

\* DynamicCircuit::isLeader.
IsLeader(n, h, x) == LeaderOf(n, h, x) = x

\* Mutant: srvid is not left out.
FollowersAndSelf(n, h, x) == ZoneMates(n, h, x)

\* Mutant: the scan stops one node too early.
FollowersOffByOne(n, h, x) == ZoneMates(n, h, x) \ {x, n}

\* The followers isLeader returns to a leader, and the zone's other nodes
\* getOtherLeadersAndThisFollowers returns to any node.
Followers(n, h, x) == ZoneMates(n, h, x) \ {x}

\* The leaders of the zones that have nodes.
Leaders(n, h) == {LeaderOf(n, h, x) : x \in 1..n}

\* DynamicCircuit::getLeaders: one entry per zone, NoNode where it is empty.
ZoneLeaders(n, h) ==
  [z \in 0..(NumZones(n) - 1) |->
     LET zone == {x \in 1..n : ZoneOf(n, h, x) = z}
     IN  IF zone = {} THEN NoNode ELSE First(zone)]

\* The leaders of the other zones (getOtherLeaders and
\* getOtherLeadersAndThisFollowers drop the empty entries).
OtherLeaders(n, h, x) == Leaders(n, h) \ {LeaderOf(n, h, x)}

\* twofplus1 (omutil.cc): the votes asked of k voters.
TwoFPlus1(k) == 2 * ((k - 1) \div 3) + 1
=============================================================================
