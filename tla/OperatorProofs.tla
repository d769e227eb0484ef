---------------------------- MODULE OperatorProofs ----------------------------
(***************************************************************************)
(* Laws of the operators the models share: the circuit, for networks of     *)
(* every size and every hash, rounded numbers, and sums over finite sets.    *)
(***************************************************************************)
EXTENDS DynamicCircuit, OmAccount, Functions, FiniteSetTheorems, WellFoundedInduction,
        TLAPS

-----------------------------------------------------------------------------
(* Leaders.                                                                 *)

\* A set of positions that is not empty has a first one.
LEMMA FirstIsLeast ==
  ASSUME NEW S \in SUBSET Nat, S # {}
  PROVE  First(S) \in S /\ \A y \in S : First(S) <= y
<1> DEFINE R == OpToRel(<, Nat)
<1>1. PICK x \in S : \A y \in S : ~ (<<y, x>> \in R)
  <2>1. IsWellFoundedOn(R, Nat)
    BY NatLessThanWellFounded
  <2> HIDE DEF R
  <2> QED BY <2>1, WFMin
<1>2. \A y \in S : x <= y
  <2> TAKE y \in S
  <2>1. <<y, x>> \in Nat \X Nat /\ ~ (y < x)
    BY <1>1 DEF OpToRel
  <2> QED BY <2>1
<1> QED BY <1>1, <1>2 DEF First

\* Induction up to n, on the set of the numbers that have been reached.
LEMMA UpTo ==
  ASSUME NEW n \in Nat, NEW S \in SUBSET (0..n), 0 \in S,
         \A i \in 1..n : i - 1 \in S => i \in S
  PROVE  \A i \in 0..n : i \in S
<1> DEFINE Bad == (0..n) \ S
<1> SUFFICES ASSUME Bad # {} PROVE FALSE
  OBVIOUS
<1>1. Bad \in SUBSET Nat
  OBVIOUS
<1>2. PICK k \in Bad : \A y \in Bad : k <= y
  <2> HIDE DEF Bad
  <2> QED BY <1>1, FirstIsLeast
<1>3. k \in 1..n /\ k - 1 \in 0..n
  BY <1>1, <1>2
<1>4. k - 1 \notin Bad
  BY <1>2, <1>3
<1> QED BY <1>2, <1>3, <1>4

\* The leader of a node is a node of its zone.
LEMMA LeaderInZone ==
  ASSUME NEW len \in Nat, NEW hash, NEW x \in 1..len
  PROVE  /\ LeaderOf(len, hash, x) \in ZoneMates(len, hash, x)
         /\ LeaderOf(len, hash, x) \in 1..len
<1>1. ZoneMates(len, hash, x) \in SUBSET Nat /\ x \in ZoneMates(len, hash, x)
  BY DEF ZoneMates
<1> QED BY <1>1, FirstIsLeast DEF LeaderOf, ZoneMates

\* All nodes of a zone agree on its leader, the leader included.
LEMMA LeaderAgreed ==
  ASSUME NEW len \in Nat, NEW hash, NEW x \in 1..len,
         NEW y \in ZoneMates(len, hash, x)
  PROVE  LeaderOf(len, hash, y) = LeaderOf(len, hash, x)
<1>1. ZoneMates(len, hash, y) = ZoneMates(len, hash, x)
  BY DEF ZoneMates
<1> QED BY <1>1 DEF LeaderOf

\* A leader leads itself.
LEMMA LeaderLeads ==
  ASSUME NEW len \in Nat, NEW hash, NEW x \in 1..len
  PROVE  IsLeader(len, hash, LeaderOf(len, hash, x))
BY LeaderInZone, LeaderAgreed DEF IsLeader

\* The followers of a leader do not lead, and it is their leader: a leader
\* and its followers, which compute the circuit separately, agree.
LEMMA FollowersFollow ==
  ASSUME NEW len \in Nat, NEW hash, NEW x \in 1..len,
         IsLeader(len, hash, x),
         NEW y \in Followers(len, hash, x)
  PROVE  y \in 1..len /\ ~IsLeader(len, hash, y) /\ LeaderOf(len, hash, y) = x
<1>1. y \in ZoneMates(len, hash, x) /\ y # x /\ y \in 1..len
  BY DEF Followers, ZoneMates
<1> QED BY <1>1, LeaderAgreed DEF IsLeader

\* The leaders a node knows of lead their zones.
LEMMA OtherLeadersLead ==
  ASSUME NEW len \in Nat, NEW hash, NEW x \in 1..len,
         NEW y \in OtherLeaders(len, hash, x)
  PROVE  y \in 1..len /\ IsLeader(len, hash, y) /\ y # LeaderOf(len, hash, x)
BY LeaderInZone, LeaderLeads DEF OtherLeaders, Leaders

-----------------------------------------------------------------------------
(* Arithmetic.                                                              *)

LEMMA TimesMonotone ==
  ASSUME NEW a \in Nat, NEW b \in Nat, NEW c \in Nat, a <= b
  PROVE  c * a \in Nat /\ c * b \in Nat /\ c * a <= c * b
<1>1. b - a \in Nat /\ b = a + (b - a)
  OBVIOUS
<1>2. c * (b - a) \in Nat /\ c * a \in Nat /\ c * b \in Nat
  BY <1>1
<1>3. c * (a + (b - a)) = c * a + c * (b - a)
  BY <1>1
<1> QED BY <1>1, <1>2, <1>3

\* Integer division.
LEMMA Quotient ==
  ASSUME NEW a \in Nat, NEW b \in Nat \ {0}
  PROVE  /\ a \div b \in Nat
         /\ b * (a \div b) <= a
         /\ a < b * (a \div b) + b
<1>1. a \div b \in Int /\ a % b \in 0..(b - 1)
  OBVIOUS
<1>2. a = b * (a \div b) + (a % b)
  OBVIOUS
<1>3. b * (a \div b) \in Int
  BY <1>1
<1>4. a \div b >= 0
  OBVIOUS
<1> QED BY <1>1, <1>2, <1>3, <1>4

\* A quotient is below every bound whose multiple exceeds the dividend.
LEMMA QuotientBelow ==
  ASSUME NEW a \in Nat, NEW b \in Nat \ {0}, NEW k \in Nat, a < b * k
  PROVE  a \div b \in 0..(k - 1)
<1>1. a \div b \in Nat /\ b * (a \div b) <= a
  BY Quotient
<1> SUFFICES ASSUME k <= a \div b PROVE FALSE
  BY <1>1
<1>2. b * k \in Nat /\ b * (a \div b) \in Nat /\ b * k <= b * (a \div b)
  BY <1>1, TimesMonotone
<1> QED BY <1>1, <1>2

-----------------------------------------------------------------------------
(* Zones.                                                                   *)

\* The root getNumFullZones takes exists, and is positive.
LEMMA RootExists ==
  ASSUME NEW len \in Nat \ {0}
  PROVE  /\ NumFullZones(len) \in 1..len
         /\ IsRoot(NumFullZones(len), len, Level(len))
<1> DEFINE P(c) == Power(c, Level(len))
           T == {c \in Nat : len < P(c + 1)}
<1>0. \A c \in Nat : P(c) \in Nat /\ c <= P(c)
  <2> TAKE c \in Nat
  <2>1. c * c \in Nat /\ c <= c * c
    OBVIOUS
  <2>2. c * c * c \in Nat /\ c <= c * c * c
    OBVIOUS
  <2> QED BY <2>1, <2>2 DEF Power
<1>1. len \in T
  BY <1>0
<1>2. PICK m \in T : \A c \in T : m <= c
  BY <1>1, FirstIsLeast, T \in SUBSET Nat
<1>3. P(m) <= len
  <2>1. CASE m = 0
    BY <2>1 DEF Power
  <2>2. CASE m # 0
    <3>1. m - 1 \in Nat /\ ~(m - 1 \in T)
      BY <2>2, <1>2
    <3>2. ~(len < P(m - 1 + 1))
      BY <3>1
    <3>3. m - 1 + 1 = m
      BY <1>2
    <3> QED BY <3>2, <3>3, <1>0, <1>2
  <2> QED BY <2>1, <2>2
<1>4. m # 0
  BY <1>2 DEF Power
<1>5. m \in 1..len /\ IsRoot(m, len, Level(len))
  <2>1. len < P(m + 1)
    BY <1>2
  <2> QED BY <1>0, <1>2, <1>3, <1>4, <2>1 DEF IsRoot
<1>6. \A c \in 0..len : IsRoot(c, len, Level(len)) => c # 0
  BY DEF IsRoot, Power
<1> QED BY <1>5, <1>6 DEF NumFullZones

\* len slots in zones of len \div c: c zones hold them all when c divides len,
\* one more does otherwise.
LEMMA SlotsInZones ==
  ASSUME NEW len \in Nat, NEW c \in Nat \ {0}, NEW e \in Nat,
         c <= e, c * e <= len, NEW slot \in 0..(len - 1)
  PROVE  /\ slot \div (len \div c) \in 0..c
         /\ len = c * e => slot \div (len \div c) \in 0..(c - 1)
<1> DEFINE d == len \div c
<1>1. d \in Nat /\ c * d <= len /\ len < c * d + c
  BY Quotient
<1>2. c * d \in Nat /\ c * e \in Nat /\ d * (c + 1) = c * d + d
      /\ c * (d + 1) = c * d + c /\ d * c = c * d
  BY <1>1
<1> HIDE DEF d
<1>3. e <= d
  <2> SUFFICES ASSUME d + 1 <= e PROVE FALSE
    BY <1>1
  <2>1. c * (d + 1) <= c * e
    BY <1>1, TimesMonotone
  <2> QED BY <1>1, <1>2, <2>1
<1>4. d \in Nat \ {0} /\ c <= d /\ slot \in Nat
  BY <1>1, <1>3
<1>5. slot \div d \in 0..c
  <2>1. slot < d * (c + 1)
    BY <1>1, <1>2, <1>4
  <2>2. slot \div d \in 0..(c + 1 - 1)
    BY <1>4, <2>1, QuotientBelow
  <2> QED BY <2>2
<1>6. ASSUME len = c * e PROVE slot \div d \in 0..(c - 1)
  <2>1. c * e <= c * d
    BY <1>3, <1>4, TimesMonotone
  <2>2. slot < d * c
    BY <1>2, <1>6, <2>1
  <2> QED BY <1>4, <2>2, QuotientBelow
<1> QED BY <1>5, <1>6 DEF d

\* Every node falls into one of the zones getNumZones counts, so the vectors
\* of zone leaders are never indexed beyond their end.
LEMMA ZoneBounded ==
  ASSUME NEW len \in Nat \ {0}, NEW hash \in [1..len -> Nat], NEW x \in 1..len
  PROVE  ZoneOf(len, hash, x) \in 0..(NumZones(len) - 1)
<1>1. PICK c \in 1..len : /\ c = NumFullZones(len)
                          /\ Power(c, Level(len)) <= len
  BY RootExists DEF IsRoot
<1>2. PICK e \in Nat : c <= e /\ Power(c, Level(len)) = c * e
  <2>1. c \in Nat /\ c * c \in Nat /\ c <= c * c /\ c * c * c = c * (c * c)
    BY <1>1
  <2>2. CASE Level(len) = 2
    <3>1. Power(c, Level(len)) = c * c
      BY <2>2 DEF Power
    <3> QED BY <2>1, <3>1
  <2>3. CASE Level(len) # 2
    <3>1. Power(c, Level(len)) = c * (c * c)
      BY <2>1, <2>3 DEF Power
    <3> QED BY <2>1, <3>1
  <2> QED BY <2>2, <2>3
<1>3. PICK slot \in 0..(len - 1) : slot = hash[x] % len
  OBVIOUS
<1>4. NumZones(len) = IF len > c * e THEN c + 1 ELSE c
  BY <1>1, <1>2 DEF NumZones
<1>5. c * e \in Nat /\ c * e <= len
  BY <1>1, <1>2
<1>6. ZoneOf(len, hash, x) = slot \div (len \div c)
  BY <1>1, <1>3 DEF ZoneOf, ZoneWidth
<1>7. /\ ZoneOf(len, hash, x) \in 0..c
      /\ len = c * e => ZoneOf(len, hash, x) \in 0..(c - 1)
  <2>1. c \in Nat \ {0} /\ len \in Nat /\ c * e <= len /\ c <= e
    BY <1>1, <1>2, <1>5
  <2>2. /\ slot \div (len \div c) \in 0..c
        /\ len = c * e => slot \div (len \div c) \in 0..(c - 1)
    BY <2>1, SlotsInZones
  <2> QED BY <1>6, <2>2
<1>8. CASE len > c * e
  <2>1. NumZones(len) - 1 = c
    BY <1>4, <1>8
  <2> QED BY <1>7, <2>1
<1>9. CASE len = c * e
  <2>1. NumZones(len) = c
    BY <1>4, <1>5, <1>9
  <2> QED BY <1>7, <1>9, <2>1
<1> QED BY <1>5, <1>8, <1>9

-----------------------------------------------------------------------------
(* Sums, that is SumFunctionOnSet of the community modules.  The induction   *)
(* over finite sets is by a smallest counterexample.                         *)

\* A family of finite sets that is not empty has a member none of whose proper
\* subsets is in the family.
LEMMA SmallestSet ==
  ASSUME NEW S, IsFiniteSet(S), NEW F, F \subseteq SUBSET S, F # {}
  PROVE  \E T \in F : \A U \in F : U \subseteq T => U = T
<1>1. F \subseteq FiniteSubsetsOf(S)
  BY FS_Subset DEF FiniteSubsetsOf
<1>2. PICK T \in F : \A U \in F : ~ (<<U, T>> \in StrictSubsetOrdering(S))
  BY <1>1, FS_StrictSubsetOrderingWellFounded, WFMin
<1>3. \A U \in F : U \subseteq T => U = T
  BY <1>2 DEF StrictSubsetOrdering
<1> QED BY <1>3, Zenon

-----------------------------------------------------------------------------
(* The recursive function the sum is defined by.                            *)

Chosen(s) == CHOOSE x \in s : TRUE

Iterates(it, f, S) ==
  it = [s \in SUBSET S |->
          IF s = {} THEN 0 ELSE f[Chosen(s)] + it[s \ {Chosen(s)}]]

Iterate(f, S) == CHOOSE it : Iterates(it, f, S)

LEMMA SumIsIterate ==
  ASSUME NEW f, NEW S
  PROVE  SumFunctionOnSet(f, S) = Iterate(f, S)[S]
BY DEF SumFunctionOnSet, FoldFunctionOnSet, MapThenFoldSet, Iterate,
       Iterates, Chosen

LEMMA ChosenIn == ASSUME NEW s, s # {} PROVE Chosen(s) \in s
BY DEF Chosen

\* Two such functions agree wherever both are defined.
LEMMA OneIterate ==
  ASSUME NEW f, NEW S, IsFiniteSet(S), NEW T \in SUBSET S, NEW i, NEW j,
         Iterates(i, f, S), Iterates(j, f, T)
  PROVE  \A s \in SUBSET T : i[s] = j[s]
<1> DEFINE Bad == {s \in SUBSET T : i[s] # j[s]}
<1> SUFFICES ASSUME Bad # {} PROVE FALSE
  OBVIOUS
<1>1. IsFiniteSet(T)
  BY FS_Subset
<1>2. PICK s \in Bad : \A u \in Bad : u \subseteq s => u = s
  <2>1. Bad \subseteq SUBSET T
    OBVIOUS
  <2> HIDE DEF Bad
  <2> QED BY <1>1, <2>1, SmallestSet
<1>3. s \in SUBSET T /\ s \in SUBSET S /\ i[s] # j[s]
  OBVIOUS
<1>4. i[s] = IF s = {} THEN 0 ELSE f[Chosen(s)] + i[s \ {Chosen(s)}]
  BY <1>3 DEF Iterates
<1>5. j[s] = IF s = {} THEN 0 ELSE f[Chosen(s)] + j[s \ {Chosen(s)}]
  BY <1>3 DEF Iterates
<1>6. s # {}
  BY <1>3, <1>4, <1>5
<1>7. s \ {Chosen(s)} \notin Bad
  BY <1>2, <1>6, ChosenIn
<1>8. i[s \ {Chosen(s)}] = j[s \ {Chosen(s)}]
  BY <1>7, <1>3
<1> QED BY <1>3, <1>4, <1>5, <1>6, <1>8

\* One step of the recursion, for functions that are known to exist on the
\* smaller sets.
LEMMA IterateStep ==
  ASSUME NEW f, NEW T, IsFiniteSet(T),
         \A u \in SUBSET T : u # T => Iterates(Iterate(f, u), f, u)
  PROVE  Iterates(Iterate(f, T), f, T)
<1> DEFINE val(s) == IF s = {} THEN 0
                     ELSE f[Chosen(s)]
                          + Iterate(f, s \ {Chosen(s)})[s \ {Chosen(s)}]
           h == [s \in SUBSET T |-> val(s)]
<1>1. ASSUME NEW s \in SUBSET T, s # {}
      PROVE  h[s] = f[Chosen(s)] + h[s \ {Chosen(s)}]
  <2> DEFINE u == s \ {Chosen(s)}
             v == u \ {Chosen(u)}
  <2>1. u \in SUBSET T /\ u # T /\ IsFiniteSet(u)
    BY <1>1, ChosenIn, FS_Subset
  <2>2. Iterates(Iterate(f, u), f, u)
    BY <2>1
  <2>3. Iterate(f, u)[u] = h[u]
    <3>1. Iterate(f, u)[u] = IF u = {} THEN 0 ELSE f[Chosen(u)] + Iterate(f, u)[v]
      BY <2>2 DEF Iterates
    <3>2. CASE u = {}
      BY <3>1, <3>2, <2>1
    <3>3. CASE u # {}
      <4>1. v \in SUBSET u /\ v \in SUBSET T /\ v # T
        BY <2>1, <3>3, ChosenIn
      <4>2. Iterates(Iterate(f, v), f, v)
        BY <4>1
      <4>3. \A w \in SUBSET v : Iterate(f, u)[w] = Iterate(f, v)[w]
        <5> HIDE DEF u, v, h
        <5> QED BY <2>1, <2>2, <4>1, <4>2, OneIterate
      <4>4. h[u] = f[Chosen(u)] + Iterate(f, v)[v]
        BY <2>1, <3>3
      <4> QED BY <3>1, <3>3, <4>3, <4>4
    <3> QED BY <3>2, <3>3
  <2>4. h[s] = f[Chosen(s)] + Iterate(f, u)[u]
    BY <1>1
  <2> QED BY <2>3, <2>4
<1>2. h[{}] = 0
  OBVIOUS
<1> HIDE DEF h
<1>3. h = [s \in SUBSET T |-> IF s = {} THEN 0 ELSE f[Chosen(s)] + h[s \ {Chosen(s)}]]
  <2>1. h = [s \in SUBSET T |-> h[s]]
    BY DEF h
  <2>2. \A s \in SUBSET T :
          h[s] = IF s = {} THEN 0 ELSE f[Chosen(s)] + h[s \ {Chosen(s)}]
    BY <1>1, <1>2
  <2> QED BY <2>1, <2>2, Zenon
<1>4. Iterates(h, f, T)
  BY <1>3, Zenon DEF Iterates
<1> QED BY <1>4, Zenon DEF Iterate

LEMMA IterateExists ==
  ASSUME NEW f, NEW S, IsFiniteSet(S)
  PROVE  \A T \in SUBSET S : Iterates(Iterate(f, T), f, T)
<1> DEFINE Bad == {T \in SUBSET S : ~Iterates(Iterate(f, T), f, T)}
<1> SUFFICES ASSUME Bad # {} PROVE FALSE
  OBVIOUS
<1>1. PICK T \in Bad : \A u \in Bad : u \subseteq T => u = T
  <2>1. Bad \subseteq SUBSET S
    OBVIOUS
  <2> HIDE DEF Bad
  <2> QED BY <2>1, SmallestSet
<1>2. IsFiniteSet(T)
  BY FS_Subset
<1>3. \A u \in SUBSET T : u # T => Iterates(Iterate(f, u), f, u)
  BY <1>1
<1>4. Iterates(Iterate(f, T), f, T)
  BY <1>2, <1>3, IterateStep
<1> QED BY <1>4

-----------------------------------------------------------------------------
(* The laws of sums.                                                        *)

LEMMA SumEmpty == \A f : SumFunctionOnSet(f, {}) = 0
<1> TAKE f
<1>1. Iterates(Iterate(f, {}), f, {})
  BY IterateExists, FS_EmptySet
<1>2. Iterate(f, {})[{}] = 0
  BY <1>1 DEF Iterates
<1> QED BY <1>2, SumIsIterate

LEMMA SumChosen ==
  ASSUME NEW f, NEW S, IsFiniteSet(S), S # {}
  PROVE  SumFunctionOnSet(f, S) = f[Chosen(S)] + SumFunctionOnSet(f, S \ {Chosen(S)})
<1> DEFINE u == S \ {Chosen(S)}
<1>1. Iterates(Iterate(f, S), f, S) /\ Iterates(Iterate(f, u), f, u)
  BY IterateExists
<1>2. Iterate(f, S)[S] = f[Chosen(S)] + Iterate(f, S)[u]
  BY <1>1 DEF Iterates
<1>3. Iterate(f, S)[u] = Iterate(f, u)[u]
  BY <1>1, OneIterate
<1> QED BY <1>2, <1>3, SumIsIterate

LEMMA SumInt ==
  ASSUME NEW f, NEW S, IsFiniteSet(S), \A x \in S : f[x] \in Int
  PROVE  SumFunctionOnSet(f, S) \in Int
<1> DEFINE Bad == {T \in SUBSET S : SumFunctionOnSet(f, T) \notin Int}
<1> SUFFICES ASSUME Bad # {} PROVE FALSE
  OBVIOUS
<1>1. PICK T \in Bad : \A u \in Bad : u \subseteq T => u = T
  <2>1. Bad \subseteq SUBSET S
    OBVIOUS
  <2> HIDE DEF Bad
  <2> QED BY <2>1, SmallestSet
<1>2. T # {}
  BY SumEmpty
<1>3. Chosen(T) \in T /\ IsFiniteSet(T)
  BY <1>2, ChosenIn, FS_Subset
<1>4. SumFunctionOnSet(f, T \ {Chosen(T)}) \in Int
  BY <1>1, <1>3
<1>5. SumFunctionOnSet(f, T) \in Int
  BY <1>2, <1>3, <1>4, SumChosen
<1> QED BY <1>5

\* The order in which the members are added does not matter.
LEMMA SumRemove ==
  ASSUME NEW f, NEW S, IsFiniteSet(S), \A x \in S : f[x] \in Int, NEW y \in S
  PROVE  SumFunctionOnSet(f, S) = f[y] + SumFunctionOnSet(f, S \ {y})
<1> DEFINE Bad == {T \in SUBSET S :
                     \E x \in T : SumFunctionOnSet(f, T)
                                   # f[x] + SumFunctionOnSet(f, T \ {x})}
<1> SUFFICES ASSUME Bad # {} PROVE FALSE
  OBVIOUS
<1>1. PICK T \in Bad : \A u \in Bad : u \subseteq T => u = T
  <2>1. Bad \subseteq SUBSET S
    OBVIOUS
  <2> HIDE DEF Bad
  <2> QED BY <2>1, SmallestSet
<1>2. PICK x \in T : SumFunctionOnSet(f, T) # f[x] + SumFunctionOnSet(f, T \ {x})
  OBVIOUS
<1> DEFINE p == Chosen(T)
           Tp == T \ {p}
           Tx == T \ {x}
           Tpx == Tp \ {x}
<1>3. p \in T /\ IsFiniteSet(T) /\ IsFiniteSet(Tp) /\ IsFiniteSet(Tx)
  BY ChosenIn, FS_Subset
<1>4. SumFunctionOnSet(f, T) = f[p] + SumFunctionOnSet(f, Tp)
  BY <1>3, SumChosen
<1>5. p # x
  BY <1>2, <1>4
<1>6. Tp \notin Bad /\ Tx \notin Bad
  BY <1>1, <1>3
<1>7. SumFunctionOnSet(f, Tp) = f[x] + SumFunctionOnSet(f, Tpx)
  BY <1>5, <1>6
<1>8. SumFunctionOnSet(f, Tx) = f[p] + SumFunctionOnSet(f, Tx \ {p})
  BY <1>3, <1>5, <1>6
<1>9. Tx \ {p} = Tpx
  OBVIOUS
<1>10. SumFunctionOnSet(f, Tpx) \in Int /\ f[p] \in Int /\ f[x] \in Int
  <2>1. IsFiniteSet(Tpx)
    BY FS_Subset
  <2> QED BY <1>3, <2>1, SumInt
<1>11. SumFunctionOnSet(f, T) # f[x] + SumFunctionOnSet(f, Tx)
  BY <1>2
<1> DEFINE fp == f[p]
           fx == f[x]
           sT == SumFunctionOnSet(f, T)
           sTp == SumFunctionOnSet(f, Tp)
           sTx == SumFunctionOnSet(f, Tx)
           s == SumFunctionOnSet(f, Tpx)
<1>12. sT = fp + sTp /\ sTp = fx + s /\ sTx = fp + s /\ sT # fx + sTx
  BY <1>4, <1>7, <1>8, <1>9, <1>11
<1>13. fp \in Int /\ fx \in Int /\ s \in Int
  BY <1>10
<1> HIDE DEF fp, fx, sT, sTp, sTx, s
<1> QED BY <1>12, <1>13

LEMMA SumAdd ==
  ASSUME NEW f, NEW S, IsFiniteSet(S), NEW y, y \notin S,
         \A x \in S \cup {y} : f[x] \in Int
  PROVE  SumFunctionOnSet(f, S \cup {y}) = f[y] + SumFunctionOnSet(f, S)
<1>1. IsFiniteSet(S \cup {y})
  BY FS_AddElement
<1>2. (S \cup {y}) \ {y} = S /\ y \in S \cup {y}
  OBVIOUS
<1>3. \A z \in S \cup {y} :
        SumFunctionOnSet(f, S \cup {y}) = f[z] + SumFunctionOnSet(f, (S \cup {y}) \ {z})
  BY <1>1, SumRemove
<1> QED BY <1>1, <1>2, <1>3, Zenon

LEMMA SumSame ==
  ASSUME NEW f, NEW g, NEW S, IsFiniteSet(S), \A x \in S : f[x] = g[x]
  PROVE  SumFunctionOnSet(f, S) = SumFunctionOnSet(g, S)
<1> DEFINE Bad == {T \in SUBSET S : SumFunctionOnSet(f, T) # SumFunctionOnSet(g, T)}
<1> SUFFICES ASSUME Bad # {} PROVE FALSE
  OBVIOUS
<1>1. PICK T \in Bad : \A u \in Bad : u \subseteq T => u = T
  <2>1. Bad \subseteq SUBSET S
    OBVIOUS
  <2> HIDE DEF Bad
  <2> QED BY <2>1, SmallestSet
<1>2. T # {}
  BY SumEmpty
<1>3. Chosen(T) \in T /\ IsFiniteSet(T)
  BY <1>2, ChosenIn, FS_Subset
<1>4. SumFunctionOnSet(f, T \ {Chosen(T)}) = SumFunctionOnSet(g, T \ {Chosen(T)})
  BY <1>1, <1>3
<1>5. SumFunctionOnSet(f, T) = SumFunctionOnSet(g, T)
  BY <1>2, <1>3, <1>4, SumChosen
<1> QED BY <1>5

\* Changing one summand.
LEMMA SumChange ==
  ASSUME NEW f, NEW g, NEW S, IsFiniteSet(S), NEW y \in S,
         \A x \in S : f[x] \in Int, g[y] \in Int,
         \A x \in S : x # y => g[x] = f[x]
  PROVE  SumFunctionOnSet(g, S) = SumFunctionOnSet(f, S) - f[y] + g[y]
<1> DEFINE u == S \ {y}
<1>1. IsFiniteSet(u)
  BY FS_Subset
<1>2. SumFunctionOnSet(g, S) = g[y] + SumFunctionOnSet(g, u)
  BY SumRemove
<1>3. SumFunctionOnSet(f, S) = f[y] + SumFunctionOnSet(f, u)
  BY SumRemove
<1>4. SumFunctionOnSet(g, u) = SumFunctionOnSet(f, u)
  BY <1>1, SumSame
<1>5. SumFunctionOnSet(f, u) \in Int
  BY <1>1, SumInt
<1> HIDE DEF u
<1> QED BY <1>2, <1>3, <1>4, <1>5

LEMMA SumZero ==
  ASSUME NEW f, NEW S, IsFiniteSet(S), \A x \in S : f[x] = 0
  PROVE  SumFunctionOnSet(f, S) = 0
<1> DEFINE Bad == {T \in SUBSET S : SumFunctionOnSet(f, T) # 0}
<1> SUFFICES ASSUME Bad # {} PROVE FALSE
  OBVIOUS
<1>1. PICK T \in Bad : \A u \in Bad : u \subseteq T => u = T
  <2>1. Bad \subseteq SUBSET S
    OBVIOUS
  <2> HIDE DEF Bad
  <2> QED BY <2>1, SmallestSet
<1>2. T # {}
  BY SumEmpty
<1>3. Chosen(T) \in T /\ IsFiniteSet(T)
  BY <1>2, ChosenIn, FS_Subset
<1>4. SumFunctionOnSet(f, T \ {Chosen(T)}) = 0
  BY <1>1, <1>3
<1>5. SumFunctionOnSet(f, T) = 0
  BY <1>2, <1>3, <1>4, SumChosen
<1> QED BY <1>5

\* A sum is monotonic in its summands.
LEMMA SumLess ==
  ASSUME NEW f, NEW g, NEW S, IsFiniteSet(S),
         \A x \in S : f[x] \in Int /\ g[x] \in Int /\ f[x] <= g[x]
  PROVE  SumFunctionOnSet(f, S) <= SumFunctionOnSet(g, S)
<1> DEFINE Bad == {T \in SUBSET S : ~(SumFunctionOnSet(f, T) <= SumFunctionOnSet(g, T))}
<1> SUFFICES ASSUME Bad # {} PROVE FALSE
  OBVIOUS
<1>1. PICK T \in Bad : \A u \in Bad : u \subseteq T => u = T
  <2>1. Bad \subseteq SUBSET S
    OBVIOUS
  <2> HIDE DEF Bad
  <2> QED BY <2>1, SmallestSet
<1>2. T # {}
  BY SumEmpty
<1> DEFINE u == T \ {Chosen(T)}
<1>3. Chosen(T) \in T /\ IsFiniteSet(T) /\ IsFiniteSet(u)
  BY <1>2, ChosenIn, FS_Subset
<1>4. SumFunctionOnSet(f, u) <= SumFunctionOnSet(g, u)
  BY <1>1, <1>3
<1>5. SumFunctionOnSet(f, u) \in Int /\ SumFunctionOnSet(g, u) \in Int
  BY <1>3, SumInt
<1>6. /\ SumFunctionOnSet(f, T) = f[Chosen(T)] + SumFunctionOnSet(f, u)
      /\ SumFunctionOnSet(g, T) = g[Chosen(T)] + SumFunctionOnSet(g, u)
  BY <1>2, <1>3, SumChosen
<1> HIDE DEF u
<1>7. SumFunctionOnSet(f, T) <= SumFunctionOnSet(g, T)
  BY <1>3, <1>4, <1>5, <1>6
<1> QED BY <1>7

LEMMA SumNat ==
  ASSUME NEW f, NEW S, IsFiniteSet(S), \A x \in S : f[x] \in Nat
  PROVE  SumFunctionOnSet(f, S) \in Nat
<1> DEFINE g == [x \in S |-> 0]
<1>1. SumFunctionOnSet(g, S) = 0
  BY SumZero
<1>2. SumFunctionOnSet(g, S) <= SumFunctionOnSet(f, S)
  BY SumLess
<1>3. SumFunctionOnSet(f, S) \in Int
  BY SumInt
<1> QED BY <1>1, <1>2, <1>3

\* No two summands exceed the sum.
LEMMA SumOfTwo ==
  ASSUME NEW f, NEW S, IsFiniteSet(S), \A x \in S : f[x] \in Nat,
         NEW y \in S, NEW z \in S, y # z
  PROVE  f[y] + f[z] <= SumFunctionOnSet(f, S)
<1> DEFINE u == S \ {y}
           v == u \ {z}
<1>1. IsFiniteSet(u) /\ IsFiniteSet(v)
  BY FS_Subset
<1>2. SumFunctionOnSet(f, S) = f[y] + SumFunctionOnSet(f, u)
  BY SumRemove
<1>3. SumFunctionOnSet(f, u) = f[z] + SumFunctionOnSet(f, v)
  BY <1>1, SumRemove
<1>4. SumFunctionOnSet(f, v) \in Nat
  BY <1>1, SumNat
<1> QED BY <1>2, <1>3, <1>4

\* Nor does one.
LEMMA SumOfOne ==
  ASSUME NEW f, NEW S, IsFiniteSet(S), \A x \in S : f[x] \in Nat, NEW y \in S
  PROVE  f[y] <= SumFunctionOnSet(f, S)
<1> DEFINE u == S \ {y}
<1>1. IsFiniteSet(u)
  BY FS_Subset
<1>2. SumFunctionOnSet(f, S) = f[y] + SumFunctionOnSet(f, u)
  BY SumRemove
<1>3. SumFunctionOnSet(f, u) \in Nat
  BY <1>1, SumNat
<1> QED BY <1>2, <1>3

\* Changing two summands.
LEMMA SumChangeTwo ==
  ASSUME NEW f, NEW g, NEW S, IsFiniteSet(S),
         \A x \in S : f[x] \in Int /\ g[x] \in Int,
         NEW y \in S, NEW z \in S, y # z,
         \A x \in S : x # y /\ x # z => g[x] = f[x]
  PROVE  SumFunctionOnSet(g, S) =
           SumFunctionOnSet(f, S) - f[y] - f[z] + g[y] + g[z]
<1> DEFINE h == [x \in S |-> IF x = y THEN g[x] ELSE f[x]]
<1>1. /\ \A x \in S : h[x] \in Int
      /\ h[y] = g[y] /\ h[z] = f[z]
      /\ \A x \in S : x # y => h[x] = f[x]
      /\ \A x \in S : x # z => g[x] = h[x]
  OBVIOUS
<1> HIDE DEF h
<1>2. SumFunctionOnSet(h, S) = SumFunctionOnSet(f, S) - f[y] + h[y]
  BY <1>1, SumChange
<1>3. SumFunctionOnSet(g, S) = SumFunctionOnSet(h, S) - h[z] + g[z]
  BY <1>1, SumChange
<1>4. SumFunctionOnSet(f, S) \in Int
  BY SumInt
<1> QED BY <1>1, <1>2, <1>3, <1>4

\* Equal summands.
LEMMA SumConstant ==
  ASSUME NEW f, NEW S, IsFiniteSet(S), NEW c \in Int, \A x \in S : f[x] = c
  PROVE  SumFunctionOnSet(f, S) = c * Cardinality(S)
<1> DEFINE Bad == {T \in SUBSET S : SumFunctionOnSet(f, T) # c * Cardinality(T)}
<1> SUFFICES ASSUME Bad # {} PROVE FALSE
  OBVIOUS
<1>1. PICK T \in Bad : \A u \in Bad : u \subseteq T => u = T
  <2>1. Bad \subseteq SUBSET S
    OBVIOUS
  <2> HIDE DEF Bad
  <2> QED BY <2>1, SmallestSet
<1>2. T # {}
  BY SumEmpty, FS_EmptySet
<1> DEFINE u == T \ {Chosen(T)}
<1>3. Chosen(T) \in T /\ IsFiniteSet(T) /\ IsFiniteSet(u)
  BY <1>2, ChosenIn, FS_Subset
<1>4. PICK n \in Nat : n = Cardinality(u) /\ Cardinality(T) = n + 1
  BY <1>3, FS_RemoveElement, FS_CardinalityType
<1>5. SumFunctionOnSet(f, u) = c * n
  BY <1>1, <1>3, <1>4
<1>6. SumFunctionOnSet(f, T) = c + c * n
  BY <1>2, <1>3, <1>5, SumChosen
<1>7. c * (n + 1) = c + c * n
  OBVIOUS
<1> QED BY <1>4, <1>6, <1>7

\* More summands.
LEMMA SumSubset ==
  ASSUME NEW f, NEW S, IsFiniteSet(S), \A x \in S : f[x] \in Nat,
         NEW T \in SUBSET S
  PROVE  SumFunctionOnSet(f, T) <= SumFunctionOnSet(f, S)
<1> DEFINE Bad == {U \in SUBSET S : ~(T \subseteq U => SumFunctionOnSet(f, T)
                                                      <= SumFunctionOnSet(f, U))}
<1> SUFFICES ASSUME Bad # {} PROVE FALSE
  OBVIOUS
<1>1. PICK U \in Bad : \A u \in Bad : u \subseteq U => u = U
  <2>1. Bad \subseteq SUBSET S
    OBVIOUS
  <2> HIDE DEF Bad
  <2> QED BY <2>1, SmallestSet
<1>2. IsFiniteSet(T) /\ IsFiniteSet(U) /\ T \subseteq U
  BY <1>1, FS_Subset
<1>3. SumFunctionOnSet(f, T) \in Nat /\ SumFunctionOnSet(f, U) \in Nat
  BY <1>2, SumNat
<1>4. T # U
  BY <1>1, <1>3
<1>5. PICK y \in U : y \notin T
  BY <1>2, <1>4
<1> DEFINE u == U \ {y}
<1>6. IsFiniteSet(u) /\ u \notin Bad /\ T \subseteq u /\ u \in SUBSET S
  BY <1>1, <1>2, <1>5, FS_Subset
<1>7. SumFunctionOnSet(f, U) = f[y] + SumFunctionOnSet(f, u)
  BY <1>2, SumRemove
<1>8. SumFunctionOnSet(f, T) <= SumFunctionOnSet(f, u)
  BY <1>6
<1>9. f[y] \in Nat /\ SumFunctionOnSet(f, u) \in Nat
  BY <1>6, SumNat
<1>10. SumFunctionOnSet(f, T) <= SumFunctionOnSet(f, U)
  <2> HIDE DEF u
  <2> QED BY <1>3, <1>7, <1>8, <1>9
<1> QED BY <1>1, <1>2, <1>10

-----------------------------------------------------------------------------
(* Stored numbers.                                                          *)

LEMMA WeightType ==
  \A w \in LastDigits : w \in Nat /\ w > 0 /\ w <= Coarsest
BY DEF LastDigits, Coarsest

\* The weight chosen is the least that keeps the number, or the last there is.
LEMMA QuantumIs ==
  ASSUME NEW x \in Nat
  PROVE  /\ Quantum(x) \in LastDigits
         /\ Keeps(x, Quantum(x)) \/ Quantum(x) = Coarsest
         /\ \A p \in LastDigits : p < Quantum(x) => ~Keeps(x, p)
<1> DEFINE S == {q \in LastDigits : Keeps(x, q) \/ q = Coarsest}
<1>1. S \in SUBSET Nat /\ Coarsest \in S
  BY DEF LastDigits, Coarsest
<1>2. First(S) \in S /\ \A q \in S : First(S) <= q
  BY <1>1, FirstIsLeast
<1>3. \A p \in LastDigits : p < First(S) => ~Keeps(x, p)
  <2> TAKE p \in LastDigits
  <2>1. p \in Nat /\ First(S) \in Nat /\ (Keeps(x, p) => p \in S)
    BY <1>1, <1>2 DEF LastDigits, Coarsest
  <2> HIDE DEF S
  <2> QED BY <1>2, <2>1
<1>4. \E q \in LastDigits :
        /\ Keeps(x, q) \/ q = Coarsest
        /\ \A p \in LastDigits : p < q => ~Keeps(x, p)
  BY <1>2, <1>3, Zenon
<1> QED BY <1>4, Zenon DEF Quantum

\* Larger numbers lose more.
LEMMA QuantumGrows ==
  ASSUME NEW x \in Nat, NEW y \in Nat, x <= y
  PROVE  Quantum(x) <= Quantum(y)
<1>1. PICK p \in LastDigits : p = Quantum(y)
  BY QuantumIs
<1>2. PICK q \in LastDigits : q = Quantum(x)
  BY QuantumIs
<1>3. Keeps(y, p) => Keeps(x, p)
  BY DEF LastDigits, Coarsest, Keeps
<1>4. CASE p < q
  <2>1. ~Keeps(x, p) /\ p # Coarsest
    <3>1. p \in Nat /\ q \in Nat /\ q <= Coarsest /\ Coarsest \in Nat
      BY WeightType DEF Coarsest
    <3> QED BY <1>2, <1>4, <3>1, QuantumIs
  <2> QED BY <1>1, <1>3, <2>1, QuantumIs
<1> QED BY <1>1, <1>2, <1>4, WeightType

\* A weight divides those above it.
LEMMA WeightDivides ==
  \A p, q \in LastDigits : \A x \in Nat : q <= p /\ x % p = 0 => x % q = 0
<1> TAKE p, q \in LastDigits
<1> TAKE x \in Nat
<1> HAVE q <= p /\ x % p = 0
<1>1. CASE p = 1 \/ p = 10 \/ p = 100
  BY <1>1 DEF LastDigits, Coarsest
<1>2. CASE p = 1000
  BY <1>2 DEF LastDigits, Coarsest
<1>3. CASE p = 10000
  BY <1>3 DEF LastDigits, Coarsest
<1>4. CASE p = 100000
  BY <1>4 DEF LastDigits, Coarsest
<1>5. CASE p = 1000000
  BY <1>5 DEF LastDigits, Coarsest
<1>6. CASE p = 10000000
  BY <1>6 DEF LastDigits, Coarsest
<1>7. CASE p = 100000000
  BY <1>7 DEF LastDigits, Coarsest
<1>8. CASE p = Coarsest
  BY <1>8 DEF LastDigits, Coarsest
<1> QED BY <1>1, <1>2, <1>3, <1>4, <1>5, <1>6, <1>7, <1>8 DEF LastDigits, Coarsest

\* What a weight divides it divides the sum and the difference of.
LEMMA WeightSums ==
  ASSUME NEW q \in LastDigits, NEW x \in Nat, NEW y \in Nat, x % q = 0, y % q = 0
  PROVE  (x + y) % q = 0 /\ (x - y) % q = 0
<1>1. CASE q = 1 \/ q = 10 \/ q = 100
  BY <1>1 DEF LastDigits, Coarsest
<1>2. CASE q = 1000
  BY <1>2 DEF LastDigits, Coarsest
<1>3. CASE q = 10000
  BY <1>3 DEF LastDigits, Coarsest
<1>4. CASE q = 100000
  BY <1>4 DEF LastDigits, Coarsest
<1>5. CASE q = 1000000
  BY <1>5 DEF LastDigits, Coarsest
<1>6. CASE q = 10000000
  BY <1>6 DEF LastDigits, Coarsest
<1>7. CASE q = 100000000
  BY <1>7 DEF LastDigits, Coarsest
<1>8. CASE q = Coarsest
  BY <1>8 DEF LastDigits, Coarsest
<1> QED BY <1>1, <1>2, <1>3, <1>4, <1>5, <1>6, <1>7, <1>8 DEF LastDigits, Coarsest

\* Rounding moves a number by half a unit at most, and not at all where nothing
\* is left over.
LEMMA RoundedNear ==
  ASSUME NEW x \in Nat, NEW q \in LastDigits
  PROVE  /\ RoundTo(x, q) \in Nat
         /\ RoundTo(x, q) \in (x - q \div 2)..(x + q \div 2)
         /\ x % q = 0 => RoundTo(x, q) = x
<1>1. q \in Nat /\ q > 0
  BY DEF LastDigits, Coarsest
<1>2. PICK low \in Nat : low = x \div q
  BY <1>1
<1>3. PICK r \in 0..q - 1 : r = x % q
  BY <1>1
<1>4. x = q * low + r
  BY <1>1, <1>2, <1>3
<1>5. PICK a \in Nat : a = q * low
  BY <1>1
<1>6. q * (low + 1) = a + q
  BY <1>1, <1>5
<1>7. RoundTo(x, q) = a \/ RoundTo(x, q) = a + q
  BY <1>2, <1>5, <1>6 DEF RoundTo
<1>8. RoundTo(x, q) = a + q => 2 * r >= q
  BY <1>1, <1>2, <1>3, <1>5 DEF RoundTo
<1>9. RoundTo(x, q) = a => 2 * r <= q
  BY <1>1, <1>2, <1>3, <1>5, <1>6 DEF RoundTo
<1> QED BY <1>1, <1>3, <1>4, <1>5, <1>7, <1>8, <1>9

\* Rounding a natural number to six digits gives a natural number.
LEMMA StoredType == \A x \in Nat : Stored(x) \in Nat
BY QuantumIs, RoundedNear DEF Stored

\* Nothing is lost of a number that ends in zeros.
LEMMA StoredWhole ==
  ASSUME NEW x \in Nat, NEW m \in Nat, x <= m, x % Quantum(m) = 0
  PROVE  Stored(x) = x
<1>1. Quantum(x) \in LastDigits /\ Quantum(m) \in LastDigits
  BY QuantumIs
<1>2. Quantum(x) <= Quantum(m)
  BY QuantumGrows
<1>3. x % Quantum(x) = 0
  BY <1>1, <1>2, WeightDivides
<1> QED BY <1>1, <1>3, RoundedNear DEF Stored

\* Up to six digits nothing is lost.
LEMMA StoredExact == \A x \in Nat : x < 1000000 => Stored(x) = x
<1> SUFFICES ASSUME NEW x \in Nat, x < 1000000 PROVE Stored(x) = x
  OBVIOUS
<1>1. Keeps(x, 1)
  BY DEF Keeps
<1>2. 1 \in LastDigits /\ \A q \in LastDigits : q # 1 => 1 < q
  BY DEF LastDigits, Coarsest
<1>3. Quantum(x) = 1
  BY <1>1, <1>2, QuantumIs
<1>4. x % 1 = 0
  OBVIOUS
<1> QED BY <1>3, <1>4, StoredWhole
=============================================================================
