-------------------------- MODULE CircuitScanProofs --------------------------
(***************************************************************************)
(* The passes over the node list compute the circuit, for node lists of     *)
(* every length and every hash.                                             *)
(***************************************************************************)
EXTENDS CircuitScan, OperatorProofs

\* The entries of zone z the loops have passed, and the first of them.
Seen(z) == {x \in 1..(i - 1) : Zone(x) = z}
FirstOf(S) == IF S = {} THEN NoNode ELSE First(S)
Zones == 0..(NumZones(n) - 1)

InputOK ==
  /\ n \in Nat \ {0}
  /\ h \in [1..n -> Nat]
  /\ me \in 1..n
  /\ i \in 1..(n + 1)

\* The loop invariant: after each iteration every pass holds the answer for
\* the part of the list it has passed.
Arrays ==
  /\ leader = [z \in Zones |-> FirstOf(Seen(z))]
  /\ other = [z \in Zones |-> IF z = Zone(me) THEN NoNode ELSE FirstOf(Seen(z))]
OwnZone ==
  LET mine == Seen(Zone(me))
  IN  /\ found = FirstOf(mine)
      /\ verdict = IF mine = {} THEN "unknown"
                   ELSE IF First(mine) = me THEN "yes" ELSE "no"
      /\ led = IF verdict = "yes" THEN mine \ {me} ELSE {}
      /\ mates = mine \ {me}
      /\ answer = IF me < i THEN "yes" ELSE "no"
LoopInvariant == InputOK /\ Arrays /\ OwnZone

\* Every zone number indexes the arrays.
LEMMA ZoneIsZone ==
  ASSUME InputOK, NEW x \in 1..n
  PROVE  Zone(x) \in Zones
BY ZoneBounded DEF InputOK, Zone, Zones

LEMMA LoopInit == Init => LoopInvariant
<1> SUFFICES ASSUME Init PROVE LoopInvariant
  OBVIOUS
<1>1. InputOK
  <2>1. n \in Nat \ {0} /\ i = 1 /\ me \in 1..n
    BY MaxNodesAssumption DEF Init
  <2>2. h \in [1..n -> Nat]
    BY <2>1 DEF Init
  <2> QED BY <2>1, <2>2 DEF InputOK
<1>2. \A z : Seen(z) = {}
  BY <1>1 DEF Init, Seen
<1>3. Arrays
  BY <1>2 DEF Init, Arrays, FirstOf, Zones
<1>4. OwnZone
  <2>1. answer = IF me < i THEN "yes" ELSE "no"
    BY <1>1 DEF Init, InputOK
  <2> QED BY <1>2, <2>1 DEF Init, OwnZone, FirstOf
<1> QED BY <1>1, <1>3, <1>4 DEF LoopInvariant

\* Adding a later position to a set does not change its first.
LEMMA FirstKept ==
  ASSUME NEW S \in SUBSET Nat, NEW k \in Nat, \A y \in S : y < k
  PROVE  First(S \cup {k}) = IF S = {} THEN k ELSE First(S)
<1>1. CASE S = {}
  <2>1. First({k}) \in {k}
    BY FirstIsLeast
  <2> QED BY <1>1, <2>1
<1>2. CASE S # {}
  <2>1. PICK a \in S : a = First(S) /\ \A y \in S : a <= y
    BY <1>2, FirstIsLeast
  <2>2. PICK b \in S \cup {k} : /\ b = First(S \cup {k})
                               /\ \A y \in S \cup {k} : b <= y
    BY FirstIsLeast
  <2>3. a \in Nat /\ b \in Nat /\ b <= a /\ a < k
    BY <2>1, <2>2
  <2>4. b \in S
    BY <2>2, <2>3
  <2>5. a = b
    BY <2>1, <2>3, <2>4
  <2> QED BY <1>2, <2>1, <2>2, <2>5
<1> QED BY <1>1, <1>2

\* One iteration adds entry i to the entries seen of its zone.
LEMMA SeenGrows ==
  ASSUME InputOK, ~Done, i' = i + 1, n' = n, h' = h, NEW z
  PROVE  Seen(z)' = IF z = Zone(i) THEN Seen(z) \cup {i} ELSE Seen(z)
<1>1. i \in 1..n /\ 1..(i' - 1) = (1..(i - 1)) \cup {i}
  BY DEF InputOK, Done
<1>2. \A x : Zone(x)' = Zone(x)
  BY DEF Zone
<1>3. Seen(z)' = {x \in 1..(i' - 1) : Zone(x) = z}
  BY <1>2 DEF Seen
<1> QED BY <1>1, <1>3 DEF Seen

\* ... so it changes the first of that zone only if there was none.
LEMMA FirstGrows ==
  ASSUME InputOK, ~Done, i' = i + 1, n' = n, h' = h, NEW z
  PROVE  FirstOf(Seen(z)') = IF z = Zone(i) /\ Seen(z) = {} THEN i
                             ELSE FirstOf(Seen(z))
<1>1. i \in Nat /\ Seen(z) \in SUBSET Nat /\ \A y \in Seen(z) : y < i
  BY DEF InputOK, Seen
<1>2. First(Seen(z) \cup {i}) = IF Seen(z) = {} THEN i ELSE First(Seen(z))
  BY <1>1, FirstKept
<1> QED BY <1>2, SeenGrows DEF FirstOf

\* Claim is what makes an array hold the first of each zone.
LEMMA ClaimRight ==
  ASSUME InputOK, ~Done, i' = i + 1, n' = n, h' = h,
         NEW z \in Zones, NEW a, DOMAIN a = Zones, a = [y \in Zones |-> a[y]],
         a[z] = FirstOf(Seen(z))
  PROVE  Claim(a)[z] = FirstOf(Seen(z)')
<1>1. i \in 1..n /\ \A S \in SUBSET Nat : S # {} => First(S) \in S
  BY FirstIsLeast DEF InputOK, Done
<1>2. Seen(z) \in SUBSET (1..n) /\ NoNode \notin Seen(z)
  BY DEF Seen, InputOK, NoNode
<1>3. FirstOf(Seen(z)) = NoNode <=> Seen(z) = {}
  BY <1>1, <1>2 DEF FirstOf, InputOK
<1>4. CASE z = Zone(i)
  BY <1>3, <1>4, FirstGrows DEF Claim
<1>5. CASE z # Zone(i)
  BY <1>5, FirstGrows DEF Claim
<1> QED BY <1>4, <1>5

\* VisitOtherZone keeps the invariant.
LEMMA OtherZoneStep == LoopInvariant /\ VisitOtherZone => LoopInvariant'
<1> SUFFICES ASSUME LoopInvariant, VisitOtherZone PROVE LoopInvariant'
  OBVIOUS
<1> USE DEF LoopInvariant
<1>1. /\ InputOK /\ ~Done /\ i' = i + 1 /\ n' = n /\ h' = h /\ me' = me
      /\ i \in 1..n /\ Zone(i) \in Zones /\ Zone(i) # Zone(me)
      /\ Zone(me)' = Zone(me) /\ Zones' = Zones
  BY ZoneIsZone DEF VisitOtherZone, InputOK, Done, Zone, Zones
<1>2. InputOK'
  BY <1>1 DEF InputOK
<1>3. Arrays'
  <2>1. /\ leader' = [z \in Zones |-> Claim(leader)[z]]
        /\ other' = [z \in Zones |-> Claim(other)[z]]
    BY DEF VisitOtherZone, Claim, Arrays
  <2>2. \A z \in Zones : Claim(leader)[z] = FirstOf(Seen(z)')
    BY <1>1, ClaimRight DEF Arrays
  <2>3. \A z \in Zones : z # Zone(me) => Claim(other)[z] = FirstOf(Seen(z)')
    BY <1>1, ClaimRight DEF Arrays
  <2>4. Zone(me) \in Zones => Claim(other)[Zone(me)] = NoNode
    BY <1>1 DEF Claim, Arrays
  <2> QED BY <1>1, <2>1, <2>2, <2>3, <2>4 DEF Arrays
<1>4. OwnZone'
  <2>1. Seen(Zone(me))' = Seen(Zone(me))
    BY <1>1, SeenGrows
  <2>2. answer' = IF me < i' THEN "yes" ELSE "no"
    <3>1. i # me
      BY <1>1
    <3> QED BY <1>1, <3>1 DEF OwnZone, VisitOtherZone, InputOK
  <2> QED BY <1>1, <2>1, <2>2 DEF OwnZone, VisitOtherZone
<1> QED BY <1>2, <1>3, <1>4

\* VisitOwnZone keeps the invariant.
LEMMA OwnZoneStep == LoopInvariant /\ VisitOwnZone => LoopInvariant'
<1> SUFFICES ASSUME LoopInvariant, VisitOwnZone PROVE LoopInvariant'
  OBVIOUS
<1> USE DEF LoopInvariant
<1>1. /\ InputOK /\ ~Done /\ i' = i + 1 /\ n' = n /\ h' = h /\ me' = me
      /\ i \in 1..n /\ Zone(i) \in Zones /\ Zone(i) = Zone(me)
      /\ Zone(me)' = Zone(me) /\ Zones' = Zones
  BY ZoneIsZone DEF VisitOwnZone, InputOK, Done, Zone, Zones
<1>2. InputOK'
  BY <1>1 DEF InputOK
<1>3. Arrays'
  <2>1. leader' = [z \in Zones |-> Claim(leader)[z]] /\ other' = other
    BY DEF VisitOwnZone, Claim, Arrays
  <2>2. \A z \in Zones : Claim(leader)[z] = FirstOf(Seen(z)')
    BY <1>1, ClaimRight DEF Arrays
  <2>3. \A z \in Zones : z # Zone(me) => FirstOf(Seen(z)') = FirstOf(Seen(z))
    BY <1>1, FirstGrows
  <2> QED BY <1>1, <2>1, <2>2, <2>3 DEF Arrays
<1>4. OwnZone'
  <2> DEFINE mine == Seen(Zone(me))
  <2>1. /\ Seen(Zone(me))' = mine \cup {i} /\ i \notin mine
        /\ mine \in SUBSET (1..n)
    BY SMTT(30), <1>1, SeenGrows DEF Seen, InputOK
  <2>2. First(mine \cup {i}) = IF mine = {} THEN i ELSE First(mine)
    <3>1. mine \in SUBSET Nat /\ i \in Nat /\ \A y \in mine : y < i
      BY DEF Seen, InputOK
    <3> HIDE DEF mine
    <3> QED BY <3>1, FirstKept
  <2>3. mine # {} => First(mine) \in mine
    BY <2>1, FirstIsLeast
  <2>4. found' = FirstOf(mine \cup {i})
    BY <1>1, <2>2, <2>1, <2>3 DEF OwnZone, VisitOwnZone, FirstOf, NoNode
  <2>5. verdict' = IF First(mine \cup {i}) = me THEN "yes" ELSE "no"
    BY <2>2 DEF OwnZone, VisitOwnZone
  <2>6. led' = IF verdict' = "yes" THEN (mine \cup {i}) \ {me} ELSE {}
    <3>1. CASE verdict = "yes"
      BY <2>1, <2>2, <2>3, <3>1 DEF OwnZone, VisitOwnZone
    <3>2. CASE verdict = "no"
      BY <3>2 DEF OwnZone, VisitOwnZone
    <3>3. CASE verdict = "unknown"
      BY <3>3 DEF OwnZone, VisitOwnZone
    <3> QED BY <3>1, <3>2, <3>3 DEF OwnZone
  <2>7. mates' = (mine \cup {i}) \ {me}
    BY <2>1 DEF OwnZone, VisitOwnZone
  <2>8. answer' = IF me < i' THEN "yes" ELSE "no"
    BY <1>1 DEF OwnZone, VisitOwnZone, InputOK
  <2> QED BY <1>1, <2>1, <2>4, <2>5, <2>6, <2>7, <2>8 DEF OwnZone
<1> QED BY <1>2, <1>3, <1>4

LEMMA LoopInductive == Spec => []LoopInvariant
<1>1. LoopInvariant /\ [Next]_vars => LoopInvariant'
  <2>1. LoopInvariant /\ UNCHANGED vars => LoopInvariant'
    BY DEF LoopInvariant, InputOK, Arrays, OwnZone, vars, Seen, Zone, Zones
  <2> QED BY <2>1, OtherZoneStep, OwnZoneStep DEF Next
<1> QED BY LoopInit, <1>1, PTL DEF Spec

\* dynamiccircuit.cc, whatever the node list and the beacon: no pass writes
\* its array of leaders beyond the end.
THEOREM ZonesInRange == Spec => []ZoneInRange
<1>1. LoopInvariant => ZoneInRange
  BY ZoneIsZone DEF LoopInvariant, Arrays, ZoneInRange
<1> QED BY LoopInductive, <1>1, PTL

\* ... and the four passes return the parts of one circuit.
THEOREM ScansComputeCircuit == Spec => []ScansMatchCircuit
<1>1. ASSUME LoopInvariant, Done PROVE ScansMatchCircuit
  <2> USE DEF LoopInvariant
  <2>1. \A z : Seen(z) = {x \in 1..n : Zone(x) = z}
    BY <1>1 DEF Seen, InputOK, Done
  <2>2. Seen(Zone(me)) = ZoneMates(n, h, me) /\ me \in ZoneMates(n, h, me)
    BY <1>1, <2>1 DEF ZoneMates, Zone, InputOK
  <2>3. found = LeaderOf(n, h, me)
    BY <1>1, <2>2 DEF OwnZone, FirstOf, LeaderOf
  <2>4. mates = Followers(n, h, me)
    BY <1>1, <2>2 DEF OwnZone, Followers
  <2>5. IsLeader(n, h, me) <=> me \in Leaders(n, h)
    BY <1>1, LeaderLeads DEF Leaders, IsLeader, InputOK
  <2>6. /\ (verdict = "yes") = (me \in Leaders(n, h))
        /\ led = IF me \in Leaders(n, h) THEN Followers(n, h, me) ELSE {}
    BY <1>1, <2>2, <2>5 DEF OwnZone, IsLeader, LeaderOf, Followers
  <2>7. leader = ZoneLeaders(n, h)
    BY <1>1, <2>1 DEF Arrays, FirstOf, ZoneLeaders, Zones, Zone
  <2>8. Entries(other) = OtherLeaders(n, h, me)
    <3>1. ASSUME NEW x \in 1..n
          PROVE  /\ FirstOf(Seen(Zone(x))) = LeaderOf(n, h, x)
                 /\ LeaderOf(n, h, x) \in 1..n
                 /\ Zone(LeaderOf(n, h, x)) = Zone(x)
      BY <1>1, <2>1, LeaderInZone DEF FirstOf, LeaderOf, ZoneMates, Zone, InputOK
    <3>2. ASSUME NEW y \in Entries(other) PROVE y \in OtherLeaders(n, h, me)
      <4>1. PICK z \in Zones : z # Zone(me) /\ y = FirstOf(Seen(z)) /\ y # NoNode
        BY <1>1, <3>2 DEF Entries, Arrays
      <4>2. PICK x \in 1..n : Zone(x) = z
        BY <2>1, <4>1 DEF FirstOf
      <4> QED BY <1>1, <3>1, <4>1, <4>2 DEF OtherLeaders, Leaders, InputOK
    <3>3. ASSUME NEW y \in OtherLeaders(n, h, me) PROVE y \in Entries(other)
      <4>1. PICK x \in 1..n : y = LeaderOf(n, h, x) /\ y # LeaderOf(n, h, me)
        BY <3>3 DEF OtherLeaders, Leaders
      <4>2. Zone(x) # Zone(me)
        BY <2>1, <3>1, <4>1, <1>1 DEF InputOK
      <4>3. Zone(x) \in Zones /\ other[Zone(x)] = y
        BY <1>1, <3>1, <4>1, <4>2, ZoneIsZone DEF Arrays
      <4> QED BY <1>1, <3>1, <4>1, <4>3 DEF Entries, Arrays, NoNode
    <3> QED BY <3>2, <3>3
  <2>9. answer = "yes"
    BY <1>1 DEF OwnZone, InputOK, Done
  <2> QED BY <2>3, <2>4, <2>6, <2>7, <2>8, <2>9 DEF ScansMatchCircuit
<1>2. LoopInvariant => ScansMatchCircuit
  BY <1>1 DEF ScansMatchCircuit
<1> QED BY LoopInductive, <1>2, PTL
=============================================================================
