--------------------------- MODULE TokenLedgerProofs ---------------------------
(***************************************************************************)
(* TokenLedger for every number of nodes and users and every set of requests. *)
(* What a request does to two wallets is proved item by item (RunFungible,    *)
(* RunNft, RunChecked), what it then does to the accounts of a node is its    *)
(* effect (NewEffect, XferEffect), and the invariants only look at effects.   *)
(***************************************************************************)
EXTENDS TokenLedger, OperatorProofs

-----------------------------------------------------------------------------
(* Where a token is in a list.                                              *)

\* SelectInSeq finds the first place, or 0.
LEMMA FindIs ==
  ASSUME NEW S, NEW w \in Seq(S), NEW n
  PROVE  /\ Find(w, n) = IF Places(w, n) # {} THEN Min(Places(w, n)) ELSE 0
         /\ Find(w, n) = 0 <=> Places(w, n) = {}
         /\ Find(w, n) # 0 => /\ Find(w, n) \in Places(w, n)
                              /\ \A i \in Places(w, n) : Find(w, n) <= i
<1> DEFINE I == {i \in 1..Len(w) : w[i].name = n}
<1>1. Find(w, n) = IF I # {} THEN Min(I) ELSE 0
  BY DEF Find, SelectInSeq
<1>2. I = Places(w, n) /\ I \in SUBSET Nat /\ 0 \notin I
  BY DEF Places
<1>3. First(I) = Min(I)
  BY DEF First, Min
<1> HIDE DEF I
<1>4. I # {} => Min(I) \in I /\ \A y \in I : Min(I) <= y
  BY <1>2, <1>3, FirstIsLeast
<1> QED BY <1>1, <1>2, <1>4

\* The entry of n that every request looks at, if there is one.
Has(w, n) == Places(w, n) # {}
FirstOf(w, n) == w[Find(w, n)]

\* That entry is one, and is the token's.
LEMMA FirstIs ==
  ASSUME NEW w \in Seq(Entry), NEW n, Has(w, n)
  PROVE  /\ Find(w, n) \in Places(w, n) /\ Find(w, n) \in 1..Len(w)
         /\ FirstOf(w, n) \in Entry /\ FirstOf(w, n).name = n
<1>1. Find(w, n) \in Places(w, n)
  BY FindIs DEF Has
<1> QED BY <1>1 DEF FirstOf, Places

\* Only the names decide where a token is found.
LEMMA SamePlaces ==
  ASSUME NEW w \in Seq(Entry), NEW v \in Seq(Entry), NEW n,
         Places(v, n) = Places(w, n)
  PROVE  Find(v, n) = Find(w, n)
<1>1. Find(v, n) = IF Places(v, n) # {} THEN Min(Places(v, n)) ELSE 0
  BY FindIs
<1>2. Find(w, n) = IF Places(w, n) # {} THEN Min(Places(w, n)) ELSE 0
  BY FindIs
<1> QED BY <1>1, <1>2

-----------------------------------------------------------------------------
(* What a wallet holds.                                                     *)

Bals(w) == [i \in DOMAIN w |-> w[i].bal]

\* A balance is a sum of naturals.
LEMMA HeldType ==
  ASSUME NEW w \in Seq(Entry), NEW n
  PROVE  /\ IsFiniteSet(Places(w, n))
         /\ \A i \in Places(w, n) : w[i].bal \in Nat /\ Bals(w)[i] = w[i].bal
         /\ HeldIn(w, n) = SumFunctionOnSet(Bals(w), Places(w, n))
         /\ HeldIn(w, n) \in Nat
         /\ \A i \in Places(w, n) : w[i].bal <= HeldIn(w, n)
<1>1. IsFiniteSet(Places(w, n))
  <2>1. IsFiniteSet(1..Len(w))
    BY FS_Interval
  <2> QED BY <2>1, FS_Subset DEF Places
<1>2. ASSUME NEW i \in Places(w, n) PROVE w[i].bal \in Nat /\ Bals(w)[i] = w[i].bal
  <2>1. i \in DOMAIN w /\ w[i] \in Entry
    BY DEF Places
  <2>2. w[i].bal \in Nat
    BY <2>1 DEF Entry
  <2> QED BY <2>1, <2>2 DEF Bals
<1>3. HeldIn(w, n) = SumFunctionOnSet(Bals(w), Places(w, n))
  BY DEF HeldIn, Bals
<1>4. SumFunctionOnSet(Bals(w), Places(w, n)) \in Nat
  BY <1>1, <1>2, SumNat
<1>5. ASSUME NEW i \in Places(w, n) PROVE w[i].bal <= HeldIn(w, n)
  <2>1. IsFiniteSet(Places(w, n) \ {i})
    BY <1>1, FS_Subset
  <2>2. SumFunctionOnSet(Bals(w), Places(w, n) \ {i}) \in Nat
    BY <1>2, <2>1, SumNat
  <2>3. SumFunctionOnSet(Bals(w), Places(w, n))
          = Bals(w)[i] + SumFunctionOnSet(Bals(w), Places(w, n) \ {i})
    BY <1>1, <1>2, SumRemove
  <2> QED BY <1>2, <1>3, <2>2, <2>3
<1> QED BY <1>1, <1>2, <1>3, <1>4, <1>5

\* v is w as far as the token n goes.
Untouched(v, w, n) ==
  Places(v, n) = Places(w, n) /\ \A i \in Places(w, n) : v[i] = w[i]

\* Then nothing that is said of n changes.
LEMMA UntouchedSame ==
  ASSUME NEW w \in Seq(Entry), NEW v \in Seq(Entry), NEW n, Untouched(v, w, n)
  PROVE  /\ HeldIn(v, n) = HeldIn(w, n)
         /\ Has(v, n) <=> Has(w, n)
         /\ Has(w, n) => FirstOf(v, n) = FirstOf(w, n)
<1>1. Places(v, n) = Places(w, n) /\ \A i \in Places(w, n) : v[i] = w[i]
  BY DEF Untouched
<1>2. \A i \in Places(w, n) : Bals(v)[i] = Bals(w)[i]
  BY <1>1, HeldType
<1>3. HeldIn(v, n) = HeldIn(w, n)
  BY <1>1, <1>2, HeldType, SumSame
<1>4. Find(v, n) = Find(w, n)
  BY <1>1, SamePlaces
<1> QED BY <1>1, <1>3, <1>4, FirstIs DEF Has, FirstOf

\* One entry of n changes.
LEMMA HeldChanged ==
  ASSUME NEW w \in Seq(Entry), NEW v \in Seq(Entry), NEW n,
         Places(v, n) = Places(w, n), NEW i \in Places(w, n),
         \A j \in Places(w, n) : j # i => v[j] = w[j]
  PROVE  HeldIn(v, n) = HeldIn(w, n) - w[i].bal + v[i].bal
<1>1. /\ \A j \in Places(w, n) : Bals(w)[j] \in Int /\ Bals(v)[j] \in Int
      /\ \A j \in Places(w, n) : j # i => Bals(v)[j] = Bals(w)[j]
      /\ Bals(w)[i] = w[i].bal /\ Bals(v)[i] = v[i].bal
      /\ IsFiniteSet(Places(w, n))
  BY HeldType
<1>2. SumFunctionOnSet(Bals(v), Places(w, n))
        = SumFunctionOnSet(Bals(w), Places(w, n)) - Bals(w)[i] + Bals(v)[i]
  BY <1>1, SumChange
<1> QED BY <1>1, <1>2, HeldType

\* An entry is appended to a wallet without the token.
LEMMA HeldAppended ==
  ASSUME NEW w \in Seq(Entry), NEW e \in Entry, ~Has(w, e.name)
  PROVE  LET v == Append(w, e)
         IN  /\ v \in Seq(Entry)
             /\ Places(v, e.name) = {Len(w) + 1} /\ FirstOf(v, e.name) = e
             /\ HeldIn(v, e.name) = e.bal
             /\ \A n : n # e.name => Untouched(v, w, n)
<1> DEFINE v == Append(w, e)
<1>1. /\ v \in Seq(Entry) /\ Len(v) = Len(w) + 1 /\ v[Len(w) + 1] = e
      /\ \A i \in 1..Len(w) : v[i] = w[i]
  OBVIOUS
<1> HIDE DEF v
<1>2. Places(v, e.name) = {Len(w) + 1}
  BY <1>1 DEF Places, Has
<1>3. FirstOf(v, e.name) = e
  BY <1>1, <1>2, FirstIs DEF Has, FirstOf
<1>4. HeldIn(v, e.name) = e.bal
  <2>1. PICK i : i = Len(w) + 1
    OBVIOUS
  <2>2. Places(v, e.name) = {i} /\ v[i] = e
    BY <1>1, <1>2, <2>1
  <2>3. IsFiniteSet({i}) /\ Bals(v)[i] = e.bal /\ Bals(v)[i] \in Nat
    <3>1. /\ IsFiniteSet(Places(v, e.name))
          /\ \A j \in Places(v, e.name) : v[j].bal \in Nat /\ Bals(v)[j] = v[j].bal
      BY <1>1, HeldType
    <3> QED BY <2>2, <3>1
  <2>4. SumFunctionOnSet(Bals(v), {i}) = Bals(v)[i] + SumFunctionOnSet(Bals(v), {i} \ {i})
    BY <2>3, SumRemove
  <2>5. SumFunctionOnSet(Bals(v), {i} \ {i}) = 0
    <3>1. {i} \ {i} = {}
      OBVIOUS
    <3> QED BY <3>1, SumEmpty
  <2>6. HeldIn(v, e.name) = SumFunctionOnSet(Bals(v), {i})
    BY ZenonT(40), <1>1, <2>2, HeldType
  <2> QED BY <2>3, <2>4, <2>5, <2>6
<1>5. \A n : n # e.name => Untouched(v, w, n)
  BY <1>1 DEF Untouched, Places
<1> QED BY <1>1, <1>2, <1>3, <1>4, <1>5 DEF v

-----------------------------------------------------------------------------
(* One item.                                                                *)

\* v is the wallet w of me after the item has been taken for you.
TakenFrom(v, w, me, you, item) ==
  LET n == item.name
      e == FirstOf(w, n)
  IN  /\ v \in Seq(Entry)
      /\ \A m : Places(v, m) = Places(w, m)
      /\ \A m : m # n => Untouched(v, w, m)
      /\ Has(w, n) /\ Has(v, n)
      /\ e.bal >= item.amount /\ (IsNft(e) => e.owner = me)
      /\ FirstOf(v, n) = [e EXCEPT !.bal = Stored(@ - item.amount),
                                  !.owner = IF IsNft(e) THEN you ELSE @]
      /\ HeldIn(v, n) = HeldIn(w, n) - e.bal + FirstOf(v, n).bal

LEMMA TakenIs ==
  ASSUME NEW w \in Seq(Entry), NEW me \in User, NEW you \in User,
         NEW item \in Item, CanTake(w, me, item)
  PROVE  TakenFrom(Taken(w, you, item), w, me, you, item)
<1> DEFINE v == Taken(w, you, item)
           n == item.name
           i == Find(w, n)
           e == FirstOf(w, n)
           new == [e EXCEPT !.bal = Stored(@ - item.amount),
                            !.owner = IF IsNft(e) THEN you ELSE @]
<1>1. /\ Has(w, n) /\ e.bal >= item.amount /\ (IsNft(e) => e.owner = me)
      /\ i \in Places(w, n) /\ i \in 1..Len(w) /\ e \in Entry /\ e.name = n
  <2>1. Has(w, n)
    BY FindIs DEF CanTake, Has
  <2> QED BY <2>1, FirstIs DEF CanTake, FirstOf
<1>2. v = [w EXCEPT ![i] = new]
  BY DEF Taken, FirstOf
<1>3. new \in Entry /\ new.name = n
  <2>1. e.bal - item.amount \in Nat
    BY <1>1 DEF Entry, Item
  <2>2. Stored(e.bal - item.amount) \in Nat
    BY <2>1, StoredType
  <2> QED BY <1>1, <2>2 DEF Entry
<1> HIDE DEF new, e, i, v
<1>4. /\ v \in Seq(Entry) /\ Len(v) = Len(w) /\ v[i] = new
      /\ \A j \in 1..Len(w) : j # i => v[j] = w[j]
  BY <1>1, <1>2, <1>3
<1>5. /\ \A m : Places(v, m) = Places(w, m)
      /\ \A m : m # n => Untouched(v, w, m)
  BY SMTT(30), <1>1, <1>3, <1>4 DEF Places, Untouched
<1>6. FirstOf(v, n) = new
  <2>1. Find(v, n) = i
    BY <1>4, <1>5, SamePlaces DEF i
  <2> QED BY <1>4, <2>1 DEF FirstOf
<1>7. HeldIn(v, n) = HeldIn(w, n) - w[i].bal + v[i].bal
  <2>1. \A j \in Places(w, n) : j # i => v[j] = w[j]
    BY <1>4 DEF Places
  <2> QED BY <1>1, <1>4, <1>5, <2>1, HeldChanged
<1>8. w[i] = e
  BY DEF i, e, FirstOf
<1>9. Has(v, n)
  BY <1>1, <1>5 DEF Has
<1> QED BY <1>1, <1>4, <1>5, <1>6, <1>7, <1>8, <1>9 DEF v, e, new, TakenFrom

\* v is the wallet w of you after the item has been given to it out of e.
GivenTo(v, w, e, you, item) ==
  LET n == item.name
      g == FirstOf(w, n)
  IN  /\ v \in Seq(Entry) /\ Has(v, n)
      /\ \A m : m # n => Untouched(v, w, m)
      /\ ~Has(w, n) => /\ Places(v, n) = {Len(w) + 1}
                       /\ FirstOf(v, n) = [e EXCEPT !.bal = item.amount]
                       /\ HeldIn(v, n) = item.amount
      /\ Has(w, n) =>
           /\ Places(v, n) = Places(w, n)
           /\ FirstOf(v, n) = IF IsNft(e)
                              THEN [g EXCEPT !.bal = 1, !.owner = you]
                              ELSE [g EXCEPT !.bal = Stored(@ + item.amount)]
           /\ HeldIn(v, n) = HeldIn(w, n) - g.bal + FirstOf(v, n).bal

LEMMA GivenIs ==
  ASSUME NEW w \in Seq(Entry), NEW you \in User, NEW item \in Item,
         NEW e \in Entry, e.name = item.name
  PROVE  GivenTo(Given(w, e, you, item), w, e, you, item)
<1> DEFINE v == Given(w, e, you, item)
           n == item.name
           i == Find(w, n)
           g == FirstOf(w, n)
           new == IF IsNft(e) THEN [g EXCEPT !.bal = 1, !.owner = you]
                              ELSE [g EXCEPT !.bal = Stored(@ + item.amount)]
<1>1. CASE ~Has(w, n)
  <2> DEFINE c == [e EXCEPT !.bal = item.amount]
  <2>1. c \in Entry /\ c.name = n /\ c.bal = item.amount
    BY DEF Entry, Item
  <2>2. v = Append(w, c)
    BY <1>1, FindIs DEF Given, Has
  <2> HIDE DEF c, v
  <2>3. /\ v \in Seq(Entry) /\ Places(v, n) = {Len(w) + 1} /\ FirstOf(v, n) = c
        /\ HeldIn(v, n) = c.bal
        /\ \A m : m # n => Untouched(v, w, m)
    BY <1>1, <2>1, <2>2, HeldAppended
  <2>4. Has(v, n)
    BY <2>3 DEF Has
  <2> QED BY <1>1, <2>1, <2>3, <2>4 DEF v, c, GivenTo
<1>2. CASE Has(w, n)
  <2>1. i \in Places(w, n) /\ i \in 1..Len(w) /\ g \in Entry /\ g.name = n /\ i # 0
    BY <1>2, FirstIs
  <2>2. v = [w EXCEPT ![i] = new]
    BY <2>1 DEF Given, FirstOf
  <2>3. new \in Entry /\ new.name = n
    <3>1. g.bal + item.amount \in Nat
      BY <2>1 DEF Entry, Item
    <3>2. Stored(g.bal + item.amount) \in Nat
      BY <3>1, StoredType
    <3> QED BY <2>1, <3>2 DEF Entry
  <2> HIDE DEF new, g, i, v
  <2>4. /\ v \in Seq(Entry) /\ Len(v) = Len(w) /\ v[i] = new
        /\ \A j \in 1..Len(w) : j # i => v[j] = w[j]
    BY <2>1, <2>2, <2>3
  <2>5. /\ Places(v, n) = Places(w, n)
        /\ \A m : m # n => Untouched(v, w, m)
    BY <2>1, <2>3, <2>4 DEF Places, Untouched
  <2>6. FirstOf(v, n) = new
    <3>1. Find(v, n) = i
      BY <2>4, <2>5, SamePlaces DEF i
    <3> QED BY <2>4, <3>1 DEF FirstOf
  <2>7. HeldIn(v, n) = HeldIn(w, n) - w[i].bal + v[i].bal
    <3>1. \A j \in Places(w, n) : j # i => v[j] = w[j]
      BY <2>4 DEF Places
    <3> QED BY <2>1, <2>4, <2>5, <3>1, HeldChanged
  <2>8. w[i] = g /\ Has(v, n)
    BY <1>2, <2>5 DEF i, g, FirstOf, Has
  <2> QED BY <1>2, <2>4, <2>5, <2>6, <2>7, <2>8 DEF v, g, new, GivenTo
<1> QED BY <1>1, <1>2

\* Amounts that are stored without rounding.
SixDigits == 1000000

LEMMA StoredIs == /\ SixDigits \in Nat
                  /\ \A x \in Nat : x < SixDigits => Stored(x) = x
                  /\ Stored(0) = 0
<1>1. SixDigits \in Nat /\ 0 < SixDigits
  BY DEF SixDigits
<1>2. \A x \in Nat : x < SixDigits => Stored(x) = x
  BY StoredExact DEF SixDigits
<1> HIDE DEF SixDigits
<1> QED BY <1>1, <1>2

\* A token there are several of: what one wallet loses the other gains.
LEMMA FungibleItem ==
  ASSUME NEW f \in Seq(Entry), NEW w \in Seq(Entry), NEW me \in User,
         NEW you \in User, NEW item \in Item, CanTake(f, me, item),
         ~IsNft(FirstOf(f, item.name)), HeldIn(f, item.name) < SixDigits,
         HeldIn(w, item.name) + item.amount < SixDigits
  PROVE  LET n == item.name
             f2 == Taken(f, you, item)
             w2 == Given(w, FirstOf(f2, n), you, item)
         IN  /\ HeldIn(f2, n) = HeldIn(f, n) - item.amount
             /\ HeldIn(w2, n) = HeldIn(w, n) + item.amount
             /\ ~IsNft(FirstOf(f2, n))
             /\ ~Has(w, n) => ~IsNft(FirstOf(w2, n))
             /\ Has(w, n) => FirstOf(w2, n).max = FirstOf(w, n).max
<1> DEFINE n == item.name
           e == FirstOf(f, n)
           f2 == Taken(f, you, item)
           e2 == FirstOf(f2, n)
           w2 == Given(w, e2, you, item)
<1>0. TakenFrom(f2, f, me, you, item)
  BY TakenIs
<1>1. /\ f2 \in Seq(Entry) /\ Has(f, n) /\ Has(f2, n) /\ e.bal >= item.amount
      /\ e2 = [e EXCEPT !.bal = Stored(@ - item.amount),
                        !.owner = IF IsNft(e) THEN you ELSE @]
      /\ HeldIn(f2, n) = HeldIn(f, n) - e.bal + e2.bal
  BY <1>0 DEF TakenFrom
<1>2. e \in Entry /\ e2 \in Entry /\ e2.name = n
  BY <1>1, FirstIs
<1>3. e.bal <= HeldIn(f, n) /\ HeldIn(f, n) \in Nat /\ e.bal \in Nat
  BY <1>1, FirstIs, HeldType DEF FirstOf
<1>4. item.amount \in Nat
  BY DEF Item
<1>10. GivenTo(w2, w, e2, you, item)
  BY <1>2, GivenIs
<1> HIDE DEF f2, e2, e, w2
<1>5. e2.bal = e.bal - item.amount /\ e2.max = e.max
  <2>1. e.bal - item.amount \in Nat /\ e.bal - item.amount < SixDigits
    BY <1>1, <1>3, <1>4, StoredIs
  <2>2. Stored(e.bal - item.amount) = e.bal - item.amount
    BY <2>1, StoredIs
  <2> QED BY <1>1, <1>2, <2>2 DEF Entry
<1>6. HeldIn(f2, n) = HeldIn(f, n) - item.amount
  BY <1>1, <1>3, <1>4, <1>5
<1>7. ~IsNft(e2)
  BY <1>5 DEF IsNft, e
<1>8. CASE ~Has(w, n)
  <2>1. HeldIn(w, n) = 0
    BY <1>8, SumEmpty, HeldType DEF Has
  <2>2. /\ FirstOf(w2, n) = [e2 EXCEPT !.bal = item.amount]
        /\ HeldIn(w2, n) = item.amount
    BY <1>8, <1>10 DEF GivenTo
  <2>3. ~IsNft(FirstOf(w2, n))
    BY <1>2, <1>7, <2>2 DEF IsNft, Entry
  <2> QED BY <1>4, <1>6, <1>7, <1>8, <2>1, <2>2, <2>3 DEF f2, e2, w2
<1>9. CASE Has(w, n)
  <2> DEFINE g == FirstOf(w, n)
  <2>1. /\ FirstOf(w2, n) = [g EXCEPT !.bal = Stored(@ + item.amount)]
        /\ HeldIn(w2, n) = HeldIn(w, n) - g.bal + FirstOf(w2, n).bal
    BY <1>7, <1>9, <1>10 DEF GivenTo
  <2>2. g \in Entry /\ g.bal \in Nat /\ g.bal <= HeldIn(w, n) /\ HeldIn(w, n) \in Nat
    BY <1>9, FirstIs, HeldType DEF FirstOf
  <2> HIDE DEF g
  <2>3. Stored(g.bal + item.amount) = g.bal + item.amount
    BY <1>4, <2>2, StoredIs
  <2>4. FirstOf(w2, n).bal = g.bal + item.amount /\ FirstOf(w2, n).max = g.max
    BY <2>1, <2>2, <2>3 DEF Entry
  <2>5. HeldIn(w2, n) = HeldIn(w, n) + item.amount
    BY <1>4, <2>1, <2>2, <2>4
  <2> QED BY <1>6, <1>7, <1>9, <2>4, <2>5 DEF f2, e2, w2, g
<1> QED BY <1>8, <1>9

\* A token there is one of goes to the other wallet, and who had it has none.
LEMMA NftItem ==
  ASSUME NEW f \in Seq(Entry), NEW w \in Seq(Entry), NEW me \in User,
         NEW you \in User, NEW item \in Item, CanTake(f, me, item),
         IsNft(FirstOf(f, item.name)), FirstOf(f, item.name).bal \in {0, 1}
  PROVE  LET n == item.name
             f2 == Taken(f, you, item)
             w2 == Given(w, FirstOf(f2, n), you, item)
             g == FirstOf(w, n)
         IN  /\ item.amount = 1 /\ Has(f, n)
             /\ FirstOf(f, n).bal = 1 /\ FirstOf(f, n).owner = me
             /\ HeldIn(f2, n) = HeldIn(f, n) - 1
             /\ FirstOf(f2, n).max = 1 /\ FirstOf(f2, n).bal = 0
             /\ FirstOf(w2, n).bal = 1 /\ FirstOf(w2, n).owner = you
             /\ FirstOf(w2, n).max = IF Has(w, n) THEN g.max ELSE 1
             /\ HeldIn(w2, n) = HeldIn(w, n) - (IF Has(w, n) THEN g.bal ELSE 0) + 1
<1> DEFINE n == item.name
           e == FirstOf(f, n)
           f2 == Taken(f, you, item)
           e2 == FirstOf(f2, n)
           w2 == Given(w, e2, you, item)
           g == FirstOf(w, n)
<1>0. TakenFrom(f2, f, me, you, item)
  BY TakenIs
<1>1. /\ f2 \in Seq(Entry) /\ Has(f, n) /\ Has(f2, n) /\ e.bal >= item.amount
      /\ IsNft(e) => e.owner = me
      /\ e2 = [e EXCEPT !.bal = Stored(@ - item.amount),
                        !.owner = IF IsNft(e) THEN you ELSE @]
      /\ HeldIn(f2, n) = HeldIn(f, n) - e.bal + e2.bal
  BY <1>0 DEF TakenFrom
<1>2. e \in Entry /\ e2 \in Entry /\ e2.name = n
  BY <1>1, FirstIs
<1>3. item.amount = 1 /\ e.bal = 1 /\ e.owner = me /\ IsNft(e)
  BY <1>1 DEF Item
<1>4. HeldIn(f, n) \in Nat /\ HeldIn(w, n) \in Nat
  BY HeldType
<1>10. GivenTo(w2, w, e2, you, item)
  BY <1>2, GivenIs
<1> HIDE DEF f2, e2, e, w2, g
<1>5. e2.bal = 0 /\ e2.max = 1 /\ e2.owner = you /\ IsNft(e2)
  <2>1. Stored(e.bal - item.amount) = 0
    BY <1>3, StoredIs
  <2> QED BY <1>1, <1>2, <1>3, <2>1 DEF Entry, IsNft
<1>6. HeldIn(f2, n) = HeldIn(f, n) - 1
  BY <1>1, <1>3, <1>4, <1>5
<1>7. CASE ~Has(w, n)
  <2>1. HeldIn(w, n) = 0
    BY <1>7, SumEmpty, HeldType DEF Has
  <2>2. /\ FirstOf(w2, n) = [e2 EXCEPT !.bal = item.amount]
        /\ HeldIn(w2, n) = item.amount
    BY <1>7, <1>10 DEF GivenTo
  <2>3. /\ FirstOf(w2, n).bal = 1 /\ FirstOf(w2, n).owner = you
        /\ FirstOf(w2, n).max = 1
    BY <1>2, <1>3, <1>5, <2>2 DEF Entry
  <2> QED BY <1>1, <1>3, <1>5, <1>6, <1>7, <2>1, <2>2, <2>3 DEF f2, e2, w2, g, e
<1>8. CASE Has(w, n)
  <2>1. /\ FirstOf(w2, n) = [g EXCEPT !.bal = 1, !.owner = you]
        /\ HeldIn(w2, n) = HeldIn(w, n) - g.bal + FirstOf(w2, n).bal
    BY <1>5, <1>8, <1>10 DEF GivenTo, g
  <2>2. g \in Entry
    BY <1>8, FirstIs DEF g
  <2>3. /\ FirstOf(w2, n).bal = 1 /\ FirstOf(w2, n).owner = you
        /\ FirstOf(w2, n).max = g.max
    BY <2>1, <2>2 DEF Entry
  <2> QED BY <1>1, <1>3, <1>5, <1>6, <1>8, <2>1, <2>3 DEF f2, e2, w2, g, e
<1> QED BY <1>7, <1>8

-----------------------------------------------------------------------------
(* The items of a request one after the other.                              *)

\* f is what modifyTokens has after each item.
Runs(f, me, you, req, from, to, k) ==
  f = [i \in 0..k |-> IF i = 0 THEN [ok |-> TRUE, from |-> from, to |-> to]
                      ELSE Moved(f[i - 1], me, you, req[i])]

\* The recursive function of modifyTokens exists, by extending it item by item.
LEMMA RunExists ==
  ASSUME NEW me, NEW you, NEW req, NEW from, NEW to, NEW n \in Nat
  PROVE  \E f : Runs(f, me, you, req, from, to, n)
<1> DEFINE S == {k \in 0..n : \E f : Runs(f, me, you, req, from, to, k)}
<1>1. 0 \in S
  <2>1. Runs([i \in 0..0 |-> [ok |-> TRUE, from |-> from, to |-> to]],
             me, you, req, from, to, 0)
    BY DEF Runs
  <2> QED BY <2>1
<1>2. ASSUME NEW k \in 1..n, k - 1 \in S PROVE k \in S
  <2>1. PICK f : Runs(f, me, you, req, from, to, k - 1)
    BY <1>2
  <2> DEFINE g == [i \in 0..k |-> IF i < k THEN f[i]
                                  ELSE Moved(f[k - 1], me, you, req[k])]
  <2>2. Runs(g, me, you, req, from, to, k)
    <3>1. g[0] = [ok |-> TRUE, from |-> from, to |-> to]
      BY <2>1 DEF Runs
    <3>2. \A i \in 1..k : g[i] = Moved(g[i - 1], me, you, req[i])
      <4> TAKE i \in 1..k
      <4>1. CASE i < k
        <5>1. f[i] = Moved(f[i - 1], me, you, req[i])
          <6>1. i \in 0..(k - 1) /\ i # 0
            BY <4>1
          <6> QED BY <2>1, <6>1 DEF Runs
        <5>2. g[i] = f[i] /\ g[i - 1] = f[i - 1]
          BY <4>1
        <5> QED BY <5>1, <5>2
      <4>2. CASE i = k
        BY <4>2
      <4> QED BY <4>1, <4>2
    <3>3. g = [i \in 0..k |-> g[i]]
      OBVIOUS
    <3> HIDE DEF g
    <3>4. \A i \in 0..k : g[i] = IF i = 0 THEN [ok |-> TRUE, from |-> from, to |-> to]
                                 ELSE Moved(g[i - 1], me, you, req[i])
      <4>1. \A i \in 0..k : i # 0 => i \in 1..k
        OBVIOUS
      <4> QED BY <3>1, <3>2, <4>1, Zenon
    <3> QED BY <3>3, <3>4, Zenon DEF Runs
  <2> QED BY <2>2
<1> HIDE DEF S
<1>3. S \in SUBSET (0..n)
  BY DEF S
<1>4. n \in S
  BY <1>1, <1>2, <1>3, UpTo
<1> QED BY <1>4 DEF S

\* The wallets of modifyTokens after the first i items.
After(me, you, req, from, to) ==
  CHOOSE f : Runs(f, me, you, req, from, to, Len(req))

\* modifyTokens is its last value.
LEMMA AfterIs ==
  ASSUME NEW me, NEW you, NEW req, NEW from, NEW to, Len(req) \in Nat
  PROVE  LET a == After(me, you, req, from, to)
         IN  /\ a[0] = [ok |-> TRUE, from |-> from, to |-> to]
             /\ \A i \in 1..Len(req) : a[i] = Moved(a[i - 1], me, you, req[i])
             /\ ModifyTokens(me, you, req, from, to) = a[Len(req)]
<1> DEFINE a == After(me, you, req, from, to)
<1>1. Runs(a, me, you, req, from, to, Len(req))
  BY RunExists DEF After
<1>2. /\ a[0] = [ok |-> TRUE, from |-> from, to |-> to]
      /\ \A i \in 1..Len(req) : a[i] = Moved(a[i - 1], me, you, req[i])
  <2> HIDE DEF a
  <2>1. 0 \in 0..Len(req) /\ \A i \in 1..Len(req) : i \in 0..Len(req) /\ i # 0
    OBVIOUS
  <2> QED BY <1>1, <2>1 DEF Runs
<1>3. ModifyTokens(me, you, req, from, to) = a[Len(req)]
  BY DEF ModifyTokens, After, Runs
<1> QED BY <1>2, <1>3

Wallets == [ok : BOOLEAN, from : Seq(Entry), to : Seq(Entry)]

\* y is what the item has made of the wallets x.
Passed(y, x, me, you, item) ==
  /\ x.ok /\ CanTake(x.from, me, item)
  /\ TakenFrom(y.from, x.from, me, you, item)
  /\ y.from = Taken(x.from, you, item)
  /\ LET e == FirstOf(y.from, item.name)
     IN  /\ GivenTo(y.to, x.to, e, you, item)
         /\ y.to = Given(x.to, e, you, item)

\* An item is passed only if it could be taken.
LEMMA MovedIs ==
  ASSUME NEW x \in Wallets, NEW me \in User, NEW you \in User, NEW item \in Item
  PROVE  LET y == Moved(x, me, you, item)
         IN  /\ y \in Wallets
             /\ x.ok /\ CanTake(x.from, me, item) => y.ok
             /\ y.ok => Passed(y, x, me, you, item)
<1> DEFINE y == Moved(x, me, you, item)
<1>1. CASE x.ok /\ CanTake(x.from, me, item)
  <2> DEFINE left == Taken(x.from, you, item)
             e == FirstOf(left, item.name)
             new == Given(x.to, e, you, item)
  <2>1. x.from \in Seq(Entry) /\ x.to \in Seq(Entry)
    BY DEF Wallets
  <2>2. TakenFrom(left, x.from, me, you, item)
    BY <1>1, <2>1, TakenIs
  <2> HIDE DEF left
  <2>3. left \in Seq(Entry) /\ Has(left, item.name)
    BY <2>2 DEF TakenFrom
  <2>4. e \in Entry /\ e.name = item.name
    BY <2>3, FirstIs
  <2> HIDE DEF e
  <2>5. GivenTo(new, x.to, e, you, item)
    BY <2>1, <2>4, GivenIs
  <2>6. new \in Seq(Entry)
    BY <2>5 DEF GivenTo
  <2>7. y = [ok |-> TRUE, from |-> left, to |-> new]
    BY <1>1 DEF Moved, FirstOf, left, e
  <2> HIDE DEF y, new
  <2>8. y.ok /\ y.from = left /\ y.to = new /\ y \in Wallets
    BY <2>3, <2>6, <2>7 DEF Wallets
  <2>9. Passed(y, x, me, you, item)
    BY <1>1, <2>2, <2>5, <2>8 DEF Passed, new, left, e
  <2> QED BY <2>8, <2>9 DEF y
<1>2. CASE ~(x.ok /\ CanTake(x.from, me, item))
  <2>1. y = [x EXCEPT !.ok = FALSE]
    BY <1>2 DEF Moved
  <2> HIDE DEF y
  <2>2. y \in Wallets /\ ~y.ok
    BY <2>1 DEF Wallets
  <2> QED BY <1>2, <2>2 DEF y
<1> QED BY <1>1, <1>2

\* The requests and wallets the rest of this section is about.
Typed(me, you, req, from, to) ==
  /\ me \in User /\ you \in User /\ req \in Seq(Item)
  /\ from \in Seq(Entry) /\ to \in Seq(Entry)

\* All there is to know of the items in turn.
LEMMA RunIs ==
  ASSUME NEW me, NEW you, NEW req, NEW from, NEW to, Typed(me, you, req, from, to)
  PROVE  LET a == After(me, you, req, from, to)
         IN  /\ Len(req) \in Nat /\ \A k \in 1..Len(req) : req[k] \in Item
             /\ a[0].ok /\ a[0].from = from /\ a[0].to = to
             /\ \A k \in 0..Len(req) : a[k] \in Wallets
             /\ \A k \in 1..Len(req) :
                  /\ a[k - 1].ok /\ CanTake(a[k - 1].from, me, req[k]) => a[k].ok
                  /\ a[k].ok => Passed(a[k], a[k - 1], me, you, req[k])
             /\ ModifyTokens(me, you, req, from, to) = a[Len(req)]
<1> DEFINE a == After(me, you, req, from, to)
           N == Len(req)
<1>1. N \in Nat /\ \A k \in 1..N : req[k] \in Item
  BY DEF Typed
<1>2. /\ a[0] = [ok |-> TRUE, from |-> from, to |-> to]
      /\ \A i \in 1..N : a[i] = Moved(a[i - 1], me, you, req[i])
      /\ ModifyTokens(me, you, req, from, to) = a[N]
  BY <1>1, AfterIs
<1> HIDE DEF a, N
<1> DEFINE S == {k \in 0..N : a[k] \in Wallets}
<1>3. 0 \in S
  <2>1. from \in Seq(Entry) /\ to \in Seq(Entry)
    BY DEF Typed
  <2>2. [ok |-> TRUE, from |-> from, to |-> to] \in Wallets
    BY <2>1 DEF Wallets
  <2>3. a[0] \in Wallets
    BY <1>2, <2>2
  <2> QED BY <1>1, <2>3
<1>4. ASSUME NEW k \in 1..N, k - 1 \in S PROVE k \in S
  <2>1. a[k - 1] \in Wallets /\ k \in 0..N
    BY <1>4
  <2>2. Moved(a[k - 1], me, you, req[k]) \in Wallets
    BY <1>1, <2>1, MovedIs DEF Typed
  <2> QED BY <1>2, <2>1, <2>2
<1>5. \A k \in 0..N : k \in S
  <2>1. S \in SUBSET (0..N)
    OBVIOUS
  <2> HIDE DEF S
  <2> QED BY <1>1, <1>3, <1>4, <2>1, UpTo
<1>6. ASSUME NEW k \in 1..N
      PROVE  /\ a[k - 1].ok /\ CanTake(a[k - 1].from, me, req[k]) => a[k].ok
             /\ a[k].ok => Passed(a[k], a[k - 1], me, you, req[k])
  <2>1. k - 1 \in 0..N
    BY <1>1
  <2>2. a[k - 1] \in Wallets
    BY <1>5, <2>1
  <2> QED BY <1>1, <1>2, <2>2, MovedIs DEF Typed
<1>7. a[0].ok /\ a[0].from = from /\ a[0].to = to
  BY <1>2
<1> QED BY <1>1, <1>2, <1>5, <1>6, <1>7 DEF a, N

-----------------------------------------------------------------------------
(* How much a request moves.                                                *)

Amounts(req) == [i \in DOMAIN req |-> req[i].amount]

\* What the first k items name of the token n.
Part(req, n, k) == SumFunctionOnSet(Amounts(req), {i \in Places(req, n) : i <= k})

\* It grows by the amount of each item that names n.
LEMMA PartIs ==
  ASSUME NEW req \in Seq(Item), NEW n
  PROVE  /\ Part(req, n, 0) = 0
         /\ \A k \in 0..Len(req) :
              /\ Part(req, n, k) \in Nat
              /\ Part(req, n, k) <= Part(req, n, Len(req))
         /\ \A k \in 1..Len(req) :
              Part(req, n, k) = Part(req, n, k - 1)
                                + IF req[k].name = n THEN req[k].amount ELSE 0
         /\ Part(req, n, Len(req)) = SumFunctionOnSet(Amounts(req), Places(req, n))
<1> DEFINE P == Places(req, n)
           f == Amounts(req)
           U(k) == {i \in P : i <= k}
<1>1. /\ IsFiniteSet(P) /\ P \in SUBSET (1..Len(req)) /\ Len(req) \in Nat
      /\ \A i \in 1..Len(req) : i \in P <=> req[i].name = n
  <2>1. IsFiniteSet(1..Len(req))
    BY FS_Interval
  <2> QED BY <2>1, FS_Subset DEF Places
<1>2. \A i \in 1..Len(req) : f[i] = req[i].amount /\ f[i] \in Nat
  <2> TAKE i \in 1..Len(req)
  <2>1. i \in DOMAIN req /\ req[i] \in Item
    OBVIOUS
  <2> QED BY <2>1 DEF Amounts, Item
<1>3. \A k : IsFiniteSet(U(k)) /\ U(k) \in SUBSET P
  BY <1>1, FS_Subset
<1>4. U(0) = {} /\ U(Len(req)) = P
  BY <1>1
<1>5. Part(req, n, 0) = 0
  BY <1>4, SumEmpty DEF Part
<1>6. Part(req, n, Len(req)) = SumFunctionOnSet(f, P)
  BY <1>4 DEF Part
<1> HIDE DEF P, f
<1>7. ASSUME NEW k \in 0..Len(req)
      PROVE  Part(req, n, k) \in Nat /\ Part(req, n, k) <= Part(req, n, Len(req))
  <2>1. \A i \in P : f[i] \in Nat
    BY <1>1, <1>2
  <2>2. Part(req, n, k) = SumFunctionOnSet(f, U(k))
    BY DEF Part, P, f
  <2> HIDE DEF U
  <2>3. SumFunctionOnSet(f, U(k)) \in Nat
    BY <1>3, <2>1, SumNat
  <2>4. SumFunctionOnSet(f, U(k)) <= SumFunctionOnSet(f, P)
    BY <1>1, <1>3, <2>1, SumSubset
  <2> QED BY <1>6, <2>2, <2>3, <2>4
<1>8. ASSUME NEW k \in 1..Len(req)
      PROVE  Part(req, n, k) = Part(req, n, k - 1)
                               + IF req[k].name = n THEN req[k].amount ELSE 0
  <2>1. /\ Part(req, n, k) = SumFunctionOnSet(f, U(k))
        /\ Part(req, n, k - 1) = SumFunctionOnSet(f, U(k - 1))
    BY DEF Part, P, f
  <2>2. SumFunctionOnSet(f, U(k - 1)) \in Nat
    <3>1. \A i \in U(k - 1) : f[i] \in Nat
      BY <1>1, <1>2
    <3> HIDE DEF U
    <3> QED BY <1>3, <3>1, SumNat
  <2>5. /\ \A i \in P : i <= k <=> i <= k - 1 \/ i = k
        /\ k \in P <=> req[k].name = n
        /\ ~(k <= k - 1) /\ k <= k
    <3>1. \A i \in P : i \in 1..Len(req)
      BY <1>1
    <3>2. k \in P <=> req[k].name = n
      BY <1>1
    <3> QED BY <3>1, <3>2
  <2>3. CASE req[k].name = n
    <3>1. U(k) = U(k - 1) \cup {k} /\ k \notin U(k - 1)
      BY <2>3, <2>5
    <3>2. \A i \in U(k - 1) \cup {k} : f[i] \in Int
      BY <1>1, <1>2
    <3>3. f[k] = req[k].amount
      BY <1>2
    <3> HIDE DEF U
    <3>4. SumFunctionOnSet(f, U(k - 1) \cup {k}) = f[k] + SumFunctionOnSet(f, U(k - 1))
      BY <1>3, <3>1, <3>2, SumAdd
    <3>5. f[k] \in Nat
      BY <1>2
    <3> QED BY <2>1, <2>2, <2>3, <3>1, <3>3, <3>4, <3>5
  <2>4. CASE req[k].name # n
    <3>1. U(k) = U(k - 1)
      BY <2>4, <2>5
    <3> HIDE DEF U
    <3> QED BY <2>1, <2>2, <2>4, <3>1
  <2> QED BY <2>3, <2>4
<1> QED BY <1>5, <1>6, <1>7, <1>8 DEF P, f

-----------------------------------------------------------------------------
(* What a request does to the wallets.                                      *)

\* What the requests look at of n is an entry of a token there is one of, or of
\* one there are several of.
AllNft(w, n) == Has(w, n) => IsNft(FirstOf(w, n))
AllFungible(w, n) == Has(w, n) => ~IsNft(FirstOf(w, n))

\* A request that is done moves the sum of its items, even if it names a token
\* twice.
LEMMA RunFungible ==
  ASSUME NEW me, NEW you, NEW req, NEW from, NEW to, Typed(me, you, req, from, to),
         NEW n, AllFungible(from, n), AllFungible(to, n),
         HeldIn(from, n) < SixDigits,
         \/ HeldIn(to, n) + HeldIn(from, n) < SixDigits
         \/ HeldIn(to, n) + Part(req, n, Len(req)) < SixDigits,
         ModifyTokens(me, you, req, from, to).ok
  PROVE  LET new == ModifyTokens(me, you, req, from, to)
             sum == Part(req, n, Len(req))
         IN  /\ HeldIn(new.from, n) = HeldIn(from, n) - sum
             /\ HeldIn(new.to, n) = HeldIn(to, n) + sum
             /\ AllFungible(new.from, n) /\ AllFungible(new.to, n)
<1> DEFINE a == After(me, you, req, from, to)
           N == Len(req)
           Good(x, k) == /\ HeldIn(x.from, n) = HeldIn(from, n) - Part(req, n, k)
                         /\ HeldIn(x.to, n) = HeldIn(to, n) + Part(req, n, k)
                         /\ AllFungible(x.from, n) /\ AllFungible(x.to, n)
           S == {k \in 0..N : a[k].ok => Good(a[k], k)}
<1>1. /\ N \in Nat /\ \A k \in 1..N : req[k] \in Item
      /\ a[0].ok /\ a[0].from = from /\ a[0].to = to
      /\ \A k \in 0..N : a[k] \in Wallets
      /\ \A k \in 1..N : a[k].ok => Passed(a[k], a[k - 1], me, you, req[k])
      /\ ModifyTokens(me, you, req, from, to) = a[N]
  BY RunIs
<1> HIDE DEF a
<1>2. /\ Part(req, n, 0) = 0
      /\ \A k \in 0..N : Part(req, n, k) \in Nat /\ Part(req, n, k) <= Part(req, n, N)
      /\ \A k \in 1..N : Part(req, n, k) = Part(req, n, k - 1)
                             + IF req[k].name = n THEN req[k].amount ELSE 0
  BY PartIs DEF Typed
<1>3. HeldIn(from, n) \in Nat /\ HeldIn(to, n) \in Nat
  BY HeldType DEF Typed
<1> HIDE DEF N
<1>4. 0 \in S
  BY <1>1, <1>2, <1>3
<1>5. ASSUME NEW k \in 1..N, k - 1 \in S, a[k].ok PROVE Good(a[k], k)
  <2> DEFINE x == a[k - 1]
             y == a[k]
             item == req[k]
  <2>1. Passed(y, x, me, you, item) /\ item \in Item
    BY <1>1, <1>5
  <2>2. x \in Wallets /\ y \in Wallets /\ k - 1 \in 0..N /\ k \in 0..N
    BY <1>1
  <2>3. Good(x, k - 1) /\ me \in User /\ you \in User
    BY <1>5, <2>1 DEF Passed, Typed
  <2>4. x.from \in Seq(Entry) /\ x.to \in Seq(Entry)
    BY <2>2 DEF Wallets
  <2>4a. y.from \in Seq(Entry) /\ y.to \in Seq(Entry)
    BY <2>2 DEF Wallets
  <2>5. Part(req, n, k - 1) \in Nat /\ Part(req, n, k) \in Nat
    BY <1>2, <2>2
  <2> HIDE DEF x, y, item
  <2>6. CASE item.name # n
    <3>1. Untouched(y.from, x.from, n) /\ Untouched(y.to, x.to, n)
      BY <2>1, <2>6 DEF Passed, TakenFrom, GivenTo
    <3>2. /\ HeldIn(y.from, n) = HeldIn(x.from, n) /\ HeldIn(y.to, n) = HeldIn(x.to, n)
          /\ AllFungible(y.from, n) /\ AllFungible(y.to, n)
      BY <2>3, <2>4, <2>4a, <3>1, UntouchedSame DEF AllFungible
    <3>3. Part(req, n, k) = Part(req, n, k - 1)
      BY <1>2, <2>5, <2>6 DEF item
    <3> QED BY <2>3, <3>2, <3>3 DEF y
  <2>7. CASE item.name = n
    <3>1. Part(req, n, k) = Part(req, n, k - 1) + item.amount /\ item.amount \in Nat
      BY <1>2, <2>1, <2>7 DEF item, Item
    <3>2. CanTake(x.from, me, item) /\ Has(x.from, n) /\ ~IsNft(FirstOf(x.from, n))
      BY <2>1, <2>3, <2>7 DEF Passed, TakenFrom, AllFungible
    <3>3. /\ y.from = Taken(x.from, you, item)
          /\ y.to = Given(x.to, FirstOf(y.from, n), you, item)
      BY <2>1, <2>7 DEF Passed
    <3>4. HeldIn(x.from, n) \in Nat /\ HeldIn(x.to, n) \in Nat /\ HeldIn(y.from, n) \in Nat
      BY <2>4, <2>4a, HeldType
    <3>5. item.amount <= HeldIn(x.from, n)
      <4>1. FirstOf(x.from, n).bal >= item.amount
        BY <2>1, <2>7 DEF Passed, TakenFrom
      <4>2. FirstOf(x.from, n).bal <= HeldIn(x.from, n) /\ FirstOf(x.from, n).bal \in Nat
        BY <2>4, <3>2, FirstIs, HeldType DEF FirstOf
      <4> QED BY <3>1, <3>4, <4>1, <4>2
    <3>6. HeldIn(x.from, n) < SixDigits /\ HeldIn(x.to, n) + item.amount < SixDigits
      <4>1. Part(req, n, k) <= Part(req, n, N) /\ Part(req, n, N) \in Nat
        BY <1>1, <1>2, <2>2
      <4>2. Part(req, n, k) <= HeldIn(from, n)
        BY <1>3, <2>3, <2>5, <3>1, <3>4, <3>5
      <4>3. /\ HeldIn(x.to, n) + item.amount = HeldIn(to, n) + Part(req, n, k)
            /\ HeldIn(x.from, n) <= HeldIn(from, n)
        BY <1>3, <2>3, <2>5, <3>1
      <4>4. HeldIn(x.from, n) < SixDigits
        BY <1>3, <3>4, <4>3, StoredIs
      <4>5. HeldIn(to, n) + Part(req, n, k) < SixDigits
        <5>1. CASE HeldIn(to, n) + HeldIn(from, n) < SixDigits
          BY <1>3, <2>5, <4>2, <5>1, StoredIs
        <5>2. CASE HeldIn(to, n) + Part(req, n, Len(req)) < SixDigits
          BY <1>3, <2>5, <4>1, <5>2, StoredIs DEF N
        <5> QED BY <5>1, <5>2
      <4> QED BY <4>3, <4>4, <4>5
    <3>7. /\ HeldIn(y.from, n) = HeldIn(x.from, n) - item.amount
          /\ HeldIn(y.to, n) = HeldIn(x.to, n) + item.amount
          /\ ~IsNft(FirstOf(y.from, n))
          /\ ~Has(x.to, n) => ~IsNft(FirstOf(y.to, n))
          /\ Has(x.to, n) => FirstOf(y.to, n).max = FirstOf(x.to, n).max
      BY <2>1, <2>3, <2>4, <2>7, <3>2, <3>3, <3>6, FungibleItem
    <3>8. AllFungible(y.from, n) /\ AllFungible(y.to, n)
      BY <2>3, <3>7 DEF AllFungible, IsNft
    <3>9. /\ HeldIn(y.from, n) = HeldIn(from, n) - Part(req, n, k)
          /\ HeldIn(y.to, n) = HeldIn(to, n) + Part(req, n, k)
      BY <1>3, <2>3, <2>5, <3>1, <3>7
    <3> QED BY <3>8, <3>9 DEF y
  <2> QED BY <2>6, <2>7
<1>6. N \in S
  <2>1. S \in SUBSET (0..N)
    OBVIOUS
  <2>2. ASSUME NEW k \in 1..N, k - 1 \in S PROVE k \in S
    <3>1. k \in 0..N
      BY <1>1
    <3>2. a[k].ok => Good(a[k], k)
      BY <1>5, <2>2
    <3> QED BY <3>1, <3>2
  <2> HIDE DEF S
  <2>3. \A k \in 0..N : k \in S
    BY <1>1, <1>4, <2>1, <2>2, UpTo
  <2> QED BY <1>1, <2>3
<1>7. Good(a[N], N)
  BY <1>1, <1>6
<1> QED BY <1>1, <1>7 DEF N

\* Of a token there is one of, a wallet has the one or an empty entry; what
\* later entries of the name say does not count.
OneOrNone(w, n) == Has(w, n) => FirstOf(w, n).max = 1 /\ FirstOf(w, n).bal \in {0, 1}
TheOne(w, n, u) == /\ Has(w, n) /\ FirstOf(w, n).max = 1
                   /\ FirstOf(w, n).bal = 1 /\ FirstOf(w, n).owner = u
FirstBal(w, n) == IF Has(w, n) THEN FirstOf(w, n).bal ELSE 0

\* The one has gone from a wallet like `from' to one like `to'.
OneMoved(x, from, to, n, me, you) ==
  /\ TheOne(from, n, me) /\ TheOne(x.to, n, you)
  /\ Has(x.from, n) /\ FirstOf(x.from, n).bal = 0
  /\ HeldIn(x.from, n) = HeldIn(from, n) - 1
  /\ HeldIn(x.to, n) = HeldIn(to, n) - FirstBal(to, n) + 1

\* A request that is done moves the one or does not name the token: it cannot
\* name it twice, since the first item leaves an empty entry.
LEMMA RunNft ==
  ASSUME NEW me, NEW you, NEW req, NEW from, NEW to, Typed(me, you, req, from, to),
         NEW n, OneOrNone(from, n), OneOrNone(to, n),
         ModifyTokens(me, you, req, from, to).ok
  PROVE  LET new == ModifyTokens(me, you, req, from, to)
             sum == Part(req, n, Len(req))
         IN  /\ OneOrNone(new.from, n) /\ OneOrNone(new.to, n)
             /\ \/ sum = 0 /\ Untouched(new.from, from, n) /\ Untouched(new.to, to, n)
                \/ sum = 1 /\ OneMoved(new, from, to, n, me, you)
<1> DEFINE a == After(me, you, req, from, to)
           N == Len(req)
           Good(x, k) ==
             /\ OneOrNone(x.from, n) /\ OneOrNone(x.to, n)
             /\ \/ /\ Part(req, n, k) = 0
                   /\ Untouched(x.from, from, n) /\ Untouched(x.to, to, n)
                \/ Part(req, n, k) = 1 /\ OneMoved(x, from, to, n, me, you)
           S == {k \in 0..N : a[k].ok => Good(a[k], k)}
<1>1. /\ N \in Nat /\ \A k \in 1..N : req[k] \in Item
      /\ a[0].ok /\ a[0].from = from /\ a[0].to = to
      /\ \A k \in 0..N : a[k] \in Wallets
      /\ \A k \in 1..N : a[k].ok => Passed(a[k], a[k - 1], me, you, req[k])
      /\ ModifyTokens(me, you, req, from, to) = a[N]
  BY RunIs
<1> HIDE DEF a
<1>2. /\ Part(req, n, 0) = 0
      /\ \A k \in 1..N : Part(req, n, k) = Part(req, n, k - 1)
                             + IF req[k].name = n THEN req[k].amount ELSE 0
  BY PartIs DEF Typed
<1> HIDE DEF N
<1>3. 0 \in S
  BY <1>1, <1>2 DEF Untouched
<1>4. from \in Seq(Entry) /\ to \in Seq(Entry) /\ me \in User /\ you \in User
  BY DEF Typed
<1>5. ASSUME NEW k \in 1..N, k - 1 \in S, a[k].ok PROVE Good(a[k], k)
  <2> DEFINE x == a[k - 1]
             y == a[k]
             item == req[k]
  <2>1. Passed(y, x, me, you, item) /\ item \in Item
    BY <1>1, <1>5
  <2>2. x \in Wallets /\ y \in Wallets
    BY <1>1
  <2>3. Good(x, k - 1)
    BY <1>5, <2>1 DEF Passed
  <2>4. /\ x.from \in Seq(Entry) /\ x.to \in Seq(Entry)
        /\ y.from \in Seq(Entry) /\ y.to \in Seq(Entry)
    BY <2>2 DEF Wallets
  <2>5. Part(req, n, k) = Part(req, n, k - 1)
                          + IF item.name = n THEN item.amount ELSE 0
    BY <1>2
  <2> HIDE DEF x, y, item
  <2>6. CASE item.name # n
    <3>1. Untouched(y.from, x.from, n) /\ Untouched(y.to, x.to, n)
      BY <2>1, <2>6 DEF Passed, TakenFrom, GivenTo
    <3>2. /\ HeldIn(y.from, n) = HeldIn(x.from, n) /\ HeldIn(y.to, n) = HeldIn(x.to, n)
          /\ Has(y.from, n) <=> Has(x.from, n)
          /\ Has(y.to, n) <=> Has(x.to, n)
          /\ Has(x.from, n) => FirstOf(y.from, n) = FirstOf(x.from, n)
          /\ Has(x.to, n) => FirstOf(y.to, n) = FirstOf(x.to, n)
      BY <2>4, <3>1, UntouchedSame
    <3>3. Part(req, n, k) = Part(req, n, k - 1)
      BY <2>3, <2>5, <2>6
    <3>4. OneOrNone(y.from, n) /\ OneOrNone(y.to, n)
      BY <2>3, <3>2 DEF OneOrNone
    <3>5. CASE Part(req, n, k - 1) = 0 /\ Untouched(x.from, from, n) /\ Untouched(x.to, to, n)
      BY <3>1, <3>3, <3>4, <3>5 DEF Untouched, y
    <3>6. CASE Part(req, n, k - 1) = 1 /\ OneMoved(x, from, to, n, me, you)
      <4>1. OneMoved(y, from, to, n, me, you)
        BY <3>2, <3>6 DEF OneMoved, TheOne
      <4> QED BY <3>3, <3>4, <3>6, <4>1 DEF y
    <3> QED BY <2>3, <3>5, <3>6
  <2>7. CASE item.name = n
    <3>1. /\ CanTake(x.from, me, item) /\ Has(x.from, n)
          /\ FirstOf(x.from, n).max = 1 /\ FirstOf(x.from, n).bal \in {0, 1}
      BY <2>1, <2>3, <2>7 DEF Passed, TakenFrom, OneOrNone
    <3>2. /\ y.from = Taken(x.from, you, item)
          /\ y.to = Given(x.to, FirstOf(y.from, n), you, item)
      BY <2>1, <2>7 DEF Passed
    <3> DEFINE g == FirstOf(x.to, n)
    <3>3. /\ item.amount = 1
          /\ FirstOf(x.from, n).bal = 1 /\ FirstOf(x.from, n).owner = me
          /\ HeldIn(y.from, n) = HeldIn(x.from, n) - 1
          /\ FirstOf(y.from, n).max = 1 /\ FirstOf(y.from, n).bal = 0
          /\ FirstOf(y.to, n).bal = 1 /\ FirstOf(y.to, n).owner = you
          /\ FirstOf(y.to, n).max = IF Has(x.to, n) THEN g.max ELSE 1
          /\ HeldIn(y.to, n) = HeldIn(x.to, n) - (IF Has(x.to, n) THEN g.bal ELSE 0) + 1
      <4>1. /\ IsNft(FirstOf(x.from, item.name))
            /\ FirstOf(x.from, item.name).bal \in {0, 1}
            /\ y.to = Given(x.to, FirstOf(y.from, item.name), you, item)
        BY <2>7, <3>1, <3>2 DEF IsNft
      <4>2. /\ item.amount = 1
            /\ FirstOf(x.from, item.name).bal = 1 /\ FirstOf(x.from, item.name).owner = me
            /\ HeldIn(y.from, item.name) = HeldIn(x.from, item.name) - 1
            /\ FirstOf(y.from, item.name).max = 1 /\ FirstOf(y.from, item.name).bal = 0
            /\ FirstOf(y.to, item.name).bal = 1 /\ FirstOf(y.to, item.name).owner = you
            /\ FirstOf(y.to, item.name).max
                 = IF Has(x.to, item.name) THEN FirstOf(x.to, item.name).max ELSE 1
            /\ HeldIn(y.to, item.name)
                 = HeldIn(x.to, item.name)
                   - (IF Has(x.to, item.name) THEN FirstOf(x.to, item.name).bal ELSE 0) + 1
        BY <1>4, <2>1, <2>4, <3>1, <3>2, <4>1, NftItem
      <4> QED BY <2>7, <4>2
    <3>4. Has(y.from, n) /\ Has(y.to, n)
      BY <2>1, <2>7 DEF Passed, TakenFrom, GivenTo
    <3>5. FirstOf(y.to, n).max = 1
      BY <2>3, <3>3 DEF OneOrNone
    <3>6. /\ Part(req, n, k - 1) = 0
          /\ Untouched(x.from, from, n) /\ Untouched(x.to, to, n)
      BY <2>3, <3>3 DEF OneMoved
    <3>7. /\ HeldIn(x.from, n) = HeldIn(from, n) /\ HeldIn(x.to, n) = HeldIn(to, n)
          /\ Has(from, n) /\ FirstOf(x.from, n) = FirstOf(from, n)
          /\ Has(x.to, n) <=> Has(to, n)
          /\ Has(to, n) => FirstOf(x.to, n) = FirstOf(to, n)
      BY <1>4, <2>4, <3>1, <3>6, UntouchedSame
    <3>8. OneMoved(y, from, to, n, me, you)
      BY <3>1, <3>3, <3>4, <3>5, <3>7 DEF OneMoved, TheOne, FirstBal
    <3>9. OneOrNone(y.from, n) /\ OneOrNone(y.to, n)
      BY <3>3, <3>5 DEF OneOrNone
    <3> QED BY <2>5, <2>7, <3>3, <3>6, <3>8, <3>9 DEF y
  <2> QED BY <2>6, <2>7
<1>6. N \in S
  <2>1. S \in SUBSET (0..N)
    OBVIOUS
  <2>2. ASSUME NEW k \in 1..N, k - 1 \in S PROVE k \in S
    <3>1. k \in 0..N
      BY <1>1
    <3>2. a[k].ok => Good(a[k], k)
      BY <1>5, <2>2
    <3> QED BY <3>1, <3>2
  <2> HIDE DEF S
  <2>3. \A k \in 0..N : k \in S
    BY <1>1, <1>3, <2>1, <2>2, UpTo
  <2> QED BY <1>1, <2>3
<1>7. Good(a[N], N)
  BY <1>1, <1>6
<1> QED BY <1>1, <1>7 DEF N

\* No wallet gets a second entry of a name.
OnePlace(w, n) == \A i, j \in Places(w, n) : i = j

\* A receiver's entry is appended only where there is none.
LEMMA RunOnePlace ==
  ASSUME NEW me, NEW you, NEW req, NEW from, NEW to, Typed(me, you, req, from, to),
         NEW n, OnePlace(from, n), OnePlace(to, n),
         ModifyTokens(me, you, req, from, to).ok
  PROVE  LET new == ModifyTokens(me, you, req, from, to)
         IN  OnePlace(new.from, n) /\ OnePlace(new.to, n)
<1> DEFINE a == After(me, you, req, from, to)
           N == Len(req)
           Good(x) == OnePlace(x.from, n) /\ OnePlace(x.to, n)
           S == {k \in 0..N : a[k].ok => Good(a[k])}
<1>1. /\ N \in Nat
      /\ a[0].ok /\ a[0].from = from /\ a[0].to = to
      /\ \A k \in 1..N : a[k].ok => Passed(a[k], a[k - 1], me, you, req[k])
      /\ ModifyTokens(me, you, req, from, to) = a[N]
  BY RunIs
<1> HIDE DEF a, N
<1>2. 0 \in S
  BY <1>1
<1>3. ASSUME NEW k \in 1..N, k - 1 \in S, a[k].ok PROVE Good(a[k])
  <2> DEFINE x == a[k - 1]
             y == a[k]
             item == req[k]
  <2>1. Passed(y, x, me, you, item)
    BY <1>1, <1>3
  <2>2. Good(x)
    BY <1>3, <2>1 DEF Passed
  <2> HIDE DEF x, y, item
  <2>3. OnePlace(y.from, n)
    BY <2>1, <2>2 DEF Passed, TakenFrom, OnePlace
  <2>4. OnePlace(y.to, n)
    <3>1. \/ Places(y.to, n) = Places(x.to, n)
          \/ Places(y.to, n) = {Len(x.to) + 1}
      BY <2>1 DEF Passed, GivenTo, Untouched
    <3> QED BY <2>2, <3>1 DEF OnePlace
  <2> QED BY <2>3, <2>4 DEF y
<1>4. N \in S
  <2>1. S \in SUBSET (0..N)
    OBVIOUS
  <2>2. ASSUME NEW k \in 1..N, k - 1 \in S PROVE k \in S
    <3>1. k \in 0..N
      BY <1>1
    <3>2. a[k].ok => Good(a[k])
      BY <1>3, <2>2
    <3> QED BY <3>1, <3>2
  <2> HIDE DEF S
  <2>3. \A k \in 0..N : k \in S
    BY <1>1, <1>2, <2>1, <2>2, UpTo
  <2> QED BY <1>1, <2>3
<1> QED BY <1>1, <1>4 DEF N

\* A request whose items can be done each on its own, and that names no token
\* twice, can be done.
LEMMA RunChecked ==
  ASSUME NEW me, NEW you, NEW req, NEW from, NEW to, Typed(me, you, req, from, to),
         \A i, j \in DOMAIN req : req[i].name = req[j].name => i = j,
         CheckValidTokens(me, req, from)
  PROVE  ModifyTokens(me, you, req, from, to).ok
<1> DEFINE a == After(me, you, req, from, to)
           N == Len(req)
           Good(x, k) == /\ x.ok
                         /\ \A i \in (k + 1)..N : Untouched(x.from, from, req[i].name)
           S == {k \in 0..N : Good(a[k], k)}
<1>1. /\ N \in Nat /\ \A k \in 1..N : req[k] \in Item
      /\ a[0].ok /\ a[0].from = from /\ a[0].to = to
      /\ \A k \in 0..N : a[k] \in Wallets
      /\ \A k \in 1..N :
           /\ a[k - 1].ok /\ CanTake(a[k - 1].from, me, req[k]) => a[k].ok
           /\ a[k].ok => Passed(a[k], a[k - 1], me, you, req[k])
      /\ ModifyTokens(me, you, req, from, to) = a[N]
  BY RunIs
<1>2. /\ DOMAIN req = 1..N
      /\ \A i, j \in 1..N : req[i].name = req[j].name => i = j
      /\ \A i \in 1..N : CanTake(from, me, req[i])
      /\ from \in Seq(Entry)
  BY DEF Typed, CheckValidTokens, CanTake
<1> HIDE DEF a, N
<1>3. 0 \in S
  BY <1>1 DEF Untouched
<1>4. ASSUME NEW k \in 1..N, k - 1 \in S PROVE Good(a[k], k)
  <2> DEFINE x == a[k - 1]
             y == a[k]
             item == req[k]
             n == item.name
  <2>1. x.ok /\ x \in Wallets /\ k \in ((k - 1) + 1)..N
    BY <1>1, <1>4
  <2>2. Untouched(x.from, from, n)
    BY <1>4, <2>1
  <2>3. CanTake(x.from, me, item)
    <3>1. x.from \in Seq(Entry)
      BY <2>1 DEF Wallets
    <3>2. CanTake(from, me, item)
      BY <1>2
    <3>3. Has(from, n)
      BY <1>2, <3>2, FindIs DEF CanTake, Has
    <3>4. Has(x.from, n) /\ FirstOf(x.from, n) = FirstOf(from, n)
      BY <1>2, <2>2, <3>1, <3>3, UntouchedSame
    <3>5. Find(x.from, n) # 0
      BY <3>1, <3>4, FindIs DEF Has
    <3> QED BY <3>2, <3>4, <3>5 DEF CanTake, FirstOf
  <2>4. y.ok /\ Passed(y, x, me, you, item)
    BY <1>1, <2>1, <2>3
  <2>5. ASSUME NEW i \in (k + 1)..N PROVE Untouched(y.from, from, req[i].name)
    <3>1. i \in ((k - 1) + 1)..N /\ i \in 1..N /\ i # k
      BY <1>1
    <3>2. req[i].name # n
      BY <1>2, <3>1
    <3>3. Untouched(y.from, x.from, req[i].name)
      BY <2>4, <3>2 DEF Passed, TakenFrom
    <3>4. Untouched(x.from, from, req[i].name)
      BY <1>4, <3>1
    <3> QED BY <3>3, <3>4 DEF Untouched
  <2> QED BY <2>4, <2>5
<1>5. N \in S
  <2>1. S \in SUBSET (0..N)
    OBVIOUS
  <2>2. ASSUME NEW k \in 1..N, k - 1 \in S PROVE k \in S
    <3>1. k \in 0..N
      BY <1>1
    <3>2. Good(a[k], k)
      BY <1>4, <2>2
    <3> QED BY <3>1, <3>2
  <2> HIDE DEF S
  <2>3. \A k \in 0..N : k \in S
    BY <1>1, <1>3, <2>1, <2>2, UpTo
  <2> QED BY <1>1, <2>3
<1> QED BY <1>1, <1>5

-----------------------------------------------------------------------------
(* What a saved transaction does to the accounts of its node.               *)

\* Requests are well-typed, and what they name of a token is a natural number.
LEMMA RequestIs ==
  ASSUME NEW t \in Trxn
  PROVE  /\ Req[t].type \in {"NEWTOKEN", "XFERTOKEN"}
         /\ Req[t].from \in User /\ Req[t].to \in User /\ Req[t].items \in Seq(Item)
         /\ \A n : /\ AmountOf(t, n) = Part(Req[t].items, n, Len(Req[t].items))
                   /\ AmountOf(t, n) \in Nat
                   /\ Places(Req[t].items, n) = {} => AmountOf(t, n) = 0
<1>1. Req[t] \in Request
  BY ReqAssumption
<1> DEFINE r == Req[t]
<1>2. /\ r.type \in {"NEWTOKEN", "XFERTOKEN"} /\ r.from \in User /\ r.to \in User
      /\ r.items \in Seq(Item) /\ Len(r.items) \in Nat
  BY <1>1 DEF Request
<1>3. ASSUME NEW n
      PROVE  /\ AmountOf(t, n) = Part(r.items, n, Len(r.items))
             /\ AmountOf(t, n) \in Nat
             /\ Places(r.items, n) = {} => AmountOf(t, n) = 0
  <2>1. AmountOf(t, n) = SumFunctionOnSet(Amounts(r.items), Places(r.items, n))
    BY DEF AmountOf, Amounts
  <2>2. Part(r.items, n, Len(r.items)) = SumFunctionOnSet(Amounts(r.items), Places(r.items, n))
    BY <1>2, PartIs
  <2>3. Part(r.items, n, Len(r.items)) \in Nat
    <3>1. Len(r.items) \in 0..Len(r.items)
      BY <1>2
    <3> QED BY <1>2, <3>1, PartIs
  <2>4. Places(r.items, n) = {} => AmountOf(t, n) = 0
    BY <2>1, SumEmpty
  <2> QED BY <2>1, <2>2, <2>3, <2>4
<1> QED BY <1>2, <1>3

\* What validateReqTokens makes of the items.
LEMMA MintedIs ==
  ASSUME NEW req \in Seq(Item), NEW me \in User
  PROVE  LET v == Minted(me, req)
         IN  /\ v \in Seq(Entry) /\ (req = <<>> => v = <<>>)
             /\ \A n : /\ Places(v, n) = Places(req, n)
                       /\ HeldIn(v, n) = Part(req, n, Len(req))
                       /\ Has(v, n) =>
                            /\ FirstOf(v, n).max = req[Find(req, n)].amount
                            /\ FirstOf(v, n).bal = FirstOf(v, n).max
                            /\ FirstOf(v, n).max = 1 => FirstOf(v, n).owner = me
<1> DEFINE v == Minted(me, req)
           new(i) == [name |-> req[i].name, max |-> req[i].amount, bal |-> req[i].amount,
                      owner |-> IF req[i].amount = 1 THEN me ELSE NoOwner]
<1>1. DOMAIN req = 1..Len(req) /\ Len(req) \in Nat
  OBVIOUS
<1>2. v = [i \in 1..Len(req) |-> new(i)]
  BY <1>1 DEF Minted
<1>3. ASSUME NEW i \in 1..Len(req) PROVE new(i) \in Entry
  <2>1. req[i] \in Item
    OBVIOUS
  <2>2. req[i].name \in Name /\ req[i].amount \in Nat \ {0}
    BY <2>1 DEF Item
  <2> QED BY <2>2 DEF Entry
<1> HIDE DEF v
<1>4. /\ v \in Seq(Entry) /\ Len(v) = Len(req) /\ DOMAIN v = 1..Len(req)
      /\ \A i \in 1..Len(req) : v[i] = new(i)
  <2> HIDE DEF new
  <2>1. \A i \in 1..Len(req) : new(i) \in Entry
    BY <1>3
  <2> QED BY <1>1, <1>2, <2>1
<1>5. req = <<>> => v = <<>>
  BY <1>4
<1>6. \A i \in 1..Len(req) :
        /\ v[i].name = req[i].name /\ v[i].max = req[i].amount
        /\ v[i].bal = req[i].amount /\ (v[i].max = 1 => v[i].owner = me)
  BY <1>4
<1> HIDE DEF new
<1>7. ASSUME NEW n
      PROVE  /\ Places(v, n) = Places(req, n)
             /\ HeldIn(v, n) = Part(req, n, Len(req))
             /\ Has(v, n) =>
                  /\ FirstOf(v, n).max = req[Find(req, n)].amount
                  /\ FirstOf(v, n).bal = FirstOf(v, n).max
                  /\ FirstOf(v, n).max = 1 => FirstOf(v, n).owner = me
  <2>1. Places(v, n) = Places(req, n)
    BY <1>1, <1>4, <1>6 DEF Places
  <2>2. Find(v, n) = Find(req, n)
    <3>1. Find(v, n) = IF Places(v, n) # {} THEN Min(Places(v, n)) ELSE 0
      BY <1>4, FindIs
    <3>2. Find(req, n) = IF Places(req, n) # {} THEN Min(Places(req, n)) ELSE 0
      BY FindIs
    <3> QED BY <2>1, <3>1, <3>2
  <2>3. \A i \in Places(v, n) : Bals(v)[i] = Amounts(req)[i]
    BY <1>1, <1>4, <1>6 DEF Places, Bals, Amounts
  <2>4. SumFunctionOnSet(Bals(v), Places(v, n)) = SumFunctionOnSet(Amounts(req), Places(v, n))
    BY <1>4, <2>3, HeldType, SumSame
  <2>5. HeldIn(v, n) = Part(req, n, Len(req))
    BY <1>4, <2>1, <2>4, HeldType, PartIs
  <2>6. ASSUME Has(v, n)
        PROVE  /\ FirstOf(v, n).max = req[Find(req, n)].amount
               /\ FirstOf(v, n).bal = FirstOf(v, n).max
               /\ FirstOf(v, n).max = 1 => FirstOf(v, n).owner = me
    BY <1>4, <1>6, <2>2, <2>6, FirstIs DEF FirstOf
  <2> QED BY <2>1, <2>5, <2>6
<1> QED BY <1>4, <1>5, <1>7 DEF v

\* b is what the request t to create tokens makes of the accounts a.
NewEffect(a, b, t) ==
  LET f == Req[t].from
      items == Req[t].items
      w == a[f].tokens
      v == b[f].tokens
  IN  /\ b \in [User -> Account]
      /\ \A u \in User : /\ u # f => b[u] = a[u]
                         /\ b[u].out = a[u].out /\ b[u].in = a[u].in
      /\ \A n : Places(items, n) = {} => Untouched(v, w, n)
      /\ \A n : Places(items, n) # {} =>
           /\ ~Has(w, n) /\ Has(v, n) /\ Places(v, n) = Places(items, n)
           /\ FirstOf(v, n).max = items[Find(items, n)].amount
           /\ FirstOf(v, n).bal = FirstOf(v, n).max
           /\ FirstOf(v, n).max = 1 => FirstOf(v, n).owner = f
      /\ \A n : HeldIn(v, n) = HeldIn(w, n) + AmountOf(t, n)

\* createToken.
LEMMA CreatedIs ==
  ASSUME NEW a \in [User -> Account], NEW t \in Trxn, Req[t].type = "NEWTOKEN",
         Saves(a, t)
  PROVE  NewEffect(a, SavedTokens(a, t), t)
<1> DEFINE b == SavedTokens(a, t)
           f == Req[t].from
           items == Req[t].items
           w == a[f].tokens
           v == b[f].tokens
           m == Minted(f, items)
<1>1. f \in User /\ items \in Seq(Item) /\ a[f] \in Account /\ w \in Seq(Entry)
  BY RequestIs DEF Account
<1>2. b = [a EXCEPT ![f].tokens = w \o m]
  BY DEF SavedTokens, Created
<1>3. w = <<>> \/ items = <<>>
  BY DEF Saves, CanCreate, HasDupNames
<1>4. /\ m \in Seq(Entry) /\ (items = <<>> => m = <<>>)
      /\ \A n : /\ Places(m, n) = Places(items, n)
                /\ HeldIn(m, n) = Part(items, n, Len(items))
                /\ Has(m, n) => /\ FirstOf(m, n).max = items[Find(items, n)].amount
                                /\ FirstOf(m, n).bal = FirstOf(m, n).max
                                /\ FirstOf(m, n).max = 1 => FirstOf(m, n).owner = f
  BY <1>1, MintedIs
<1>9. \A n : /\ AmountOf(t, n) = Part(items, n, Len(items)) /\ AmountOf(t, n) \in Nat
             /\ Places(items, n) = {} => AmountOf(t, n) = 0
  BY RequestIs, Zenon
<1> HIDE DEF m, b
<1>5. /\ w \o m \in Seq(Entry) /\ (items = <<>> => w \o m = w)
      /\ (w = <<>> => w \o m = m)
  BY SMTT(30), <1>1, <1>4
<1>6. /\ b \in [User -> Account] /\ v = w \o m
      /\ \A u \in User : /\ u # f => b[u] = a[u]
                         /\ b[u].out = a[u].out /\ b[u].in = a[u].in
  BY <1>1, <1>2, <1>5 DEF Account
<1> HIDE DEF v, w, items, f
<1>7. CASE items = <<>>
  <2>1. \A n : Places(items, n) = {}
    BY <1>7 DEF Places
  <2>2. v = w
    BY <1>5, <1>6, <1>7
  <2>3. \A n : AmountOf(t, n) = 0
    BY <1>9, <2>1
  <2>4. \A n : HeldIn(w, n) \in Nat
    BY <1>1, HeldType
  <2>5. \A n : Untouched(v, w, n) /\ HeldIn(v, n) = HeldIn(w, n) + AmountOf(t, n)
    BY <2>2, <2>3, <2>4 DEF Untouched
  <2> QED BY <1>6, <2>1, <2>5 DEF NewEffect, b, v, w, items, f
<1>8. CASE items # <<>>
  <2>1. w = <<>> /\ v = m
    BY <1>3, <1>5, <1>6, <1>8
  <2>2. \A n : Places(w, n) = {}
    BY <2>1 DEF Places
  <2>3. \A n : HeldIn(w, n) = 0
    BY <2>2, SumEmpty DEF HeldIn
  <2>4. ASSUME NEW n
        PROVE  /\ Places(v, n) = Places(items, n)
               /\ HeldIn(v, n) = AmountOf(t, n) /\ AmountOf(t, n) \in Nat
               /\ Has(v, n) => /\ FirstOf(v, n).max = items[Find(items, n)].amount
                               /\ FirstOf(v, n).bal = FirstOf(v, n).max
                               /\ FirstOf(v, n).max = 1 => FirstOf(v, n).owner = f
    <3>1. /\ Places(m, n) = Places(items, n)
          /\ HeldIn(m, n) = Part(items, n, Len(items))
          /\ Has(m, n) => /\ FirstOf(m, n).max = items[Find(items, n)].amount
                          /\ FirstOf(m, n).bal = FirstOf(m, n).max
                          /\ FirstOf(m, n).max = 1 => FirstOf(m, n).owner = f
      BY <1>4, Zenon
    <3>2. AmountOf(t, n) = Part(items, n, Len(items)) /\ AmountOf(t, n) \in Nat
      BY <1>9, Zenon
    <3> QED BY <2>1, <3>1, <3>2, Zenon
  <2>5. \A n : Places(items, n) = {} => Untouched(v, w, n)
    BY <2>2, <2>4 DEF Untouched
  <2>6. \A n : HeldIn(v, n) = HeldIn(w, n) + AmountOf(t, n)
    BY <2>3, <2>4
  <2>7. \A n : Places(items, n) # {} =>
           /\ ~Has(w, n) /\ Has(v, n) /\ Places(v, n) = Places(items, n)
           /\ FirstOf(v, n).max = items[Find(items, n)].amount
           /\ FirstOf(v, n).bal = FirstOf(v, n).max
           /\ FirstOf(v, n).max = 1 => FirstOf(v, n).owner = f
    BY <2>2, <2>4 DEF Has
  <2> QED BY <1>6, <2>5, <2>6, <2>7 DEF NewEffect, b, v, w, items, f
<1> QED BY <1>7, <1>8 DEF b

\* b is what the request t to transfer tokens makes of the accounts a.
XferEffect(a, b, t) ==
  LET f == Req[t].from
      g == Req[t].to
      new == Outcome(a, t)
  IN  /\ Typed(f, g, Req[t].items, a[f].tokens, a[g].tokens) /\ new.ok
      /\ b \in [User -> Account]
      /\ \A u \in User : u # f /\ u # g => b[u] = a[u]
      /\ b[g].tokens = new.to /\ b[g].out = a[g].out /\ b[g].in = a[g].in + 1
      /\ f # g => /\ b[f].tokens = new.from
                  /\ b[f].out = a[f].out + 1 /\ b[f].in = a[f].in

\* transferToken, also to oneself.
LEMMA TransferredIs ==
  ASSUME NEW a \in [User -> Account], NEW t \in Trxn, Req[t].type = "XFERTOKEN",
         Saves(a, t)
  PROVE  XferEffect(a, SavedTokens(a, t), t)
<1> DEFINE b == SavedTokens(a, t)
           f == Req[t].from
           g == Req[t].to
           items == Req[t].items
           new == Outcome(a, t)
<1>1. /\ f \in User /\ g \in User /\ items \in Seq(Item)
      /\ a[f] \in Account /\ a[g] \in Account
  BY RequestIs
<1>2. Typed(f, g, items, a[f].tokens, a[g].tokens)
  BY <1>1 DEF Typed, Account
<1>3. new.ok
  BY DEF Saves, CanTransfer
<1>4. new.from \in Seq(Entry) /\ new.to \in Seq(Entry)
  <2>1. Len(items) \in Nat /\ Len(items) \in 0..Len(items)
    BY <1>1
  <2>2. new \in Wallets
    BY <1>2, <2>1, RunIs DEF Outcome
  <2> QED BY <2>2 DEF Wallets
<1> HIDE DEF new
<1> DEFINE from == [a[f] EXCEPT !.tokens = new.from, !.out = @ + 1]
           to == [a[g] EXCEPT !.tokens = new.to, !.in = @ + 1]
<1>5. b = [[a EXCEPT ![f] = from] EXCEPT ![g] = to]
  BY DEF SavedTokens, Transferred, new
<1>6. /\ from \in Account /\ to \in Account
      /\ from.tokens = new.from /\ from.out = a[f].out + 1 /\ from.in = a[f].in
      /\ to.tokens = new.to /\ to.out = a[g].out /\ to.in = a[g].in + 1
  <2>1. PICK o \in Nat, i \in Nat : o = a[f].out + 1 /\ i = a[g].in + 1
    <3>1. \A z \in Account : z.out + 1 \in Nat /\ z.in + 1 \in Nat
      BY DEF Account
    <3>2. a[f].out + 1 \in Nat /\ a[g].in + 1 \in Nat
      BY <1>1, <3>1
    <3> QED BY <3>2
  <2>2. /\ from = [a[f] EXCEPT !.tokens = new.from, !.out = o]
        /\ to = [a[g] EXCEPT !.tokens = new.to, !.in = i]
    BY <2>1
  <2> HIDE DEF from, to
  <2> QED BY <1>1, <1>4, <2>1, <2>2 DEF Account
<1> HIDE DEF from, to, b, f, g
<1>7. /\ b \in [User -> Account] /\ b[g] = to /\ (f # g => b[f] = from)
      /\ \A u \in User : u # f /\ u # g => b[u] = a[u]
  BY <1>1, <1>5, <1>6
<1> QED BY <1>2, <1>3, <1>6, <1>7 DEF XferEffect, b, f, g, new

-----------------------------------------------------------------------------
(* Steps.                                                                   *)

\* A node saves what it has handled, so nothing twice.
Ok == TypeOK /\ \A x \in Node : saved[x] \subseteq handled[x]

Effect(a, b, t) ==
  \/ Req[t].type = "NEWTOKEN" /\ NewEffect(a, b, t)
  \/ Req[t].type = "XFERTOKEN" /\ XferEffect(a, b, t)

\* What saveTrxn saves has one of the two effects.
LEMMA EffectIs ==
  ASSUME NEW a \in [User -> Account], NEW t \in Trxn, Saves(a, t)
  PROVE  Effect(a, SavedTokens(a, t), t) /\ SavedTokens(a, t) \in [User -> Account]
<1>1. CASE Req[t].type = "NEWTOKEN"
  BY <1>1, CreatedIs DEF Effect, NewEffect
<1>2. CASE Req[t].type = "XFERTOKEN"
  BY <1>2, TransferredIs DEF Effect, XferEffect
<1> QED BY <1>1, <1>2, RequestIs

\* What a step does at one node.
LEMMA StepIs ==
  ASSUME Ok, [Next]_vars
  PROVE  /\ Ok'
         /\ \A x \in Node :
              /\ acct[x] \in [User -> Account] /\ acct'[x] \in [User -> Account]
              /\ saved[x] \in SUBSET Trxn
              /\ \/ acct'[x] = acct[x] /\ saved'[x] = saved[x]
                 \/ \E t \in Trxn : /\ t \notin saved[x]
                                    /\ saved'[x] = saved[x] \cup {t}
                                    /\ Effect(acct[x], acct'[x], t)
<1>1. /\ acct \in [Node -> [User -> Account]] /\ saved \in [Node -> SUBSET Trxn]
      /\ handled \in [Node -> SUBSET Trxn] /\ \A x \in Node : saved[x] \subseteq handled[x]
  BY DEF Ok, TypeOK
<1>2. CASE UNCHANGED vars
  <2>1. acct' = acct /\ saved' = saved /\ handled' = handled
    BY <1>2 DEF vars
  <2> QED BY <1>1, <2>1 DEF Ok, TypeOK
<1>3. CASE Next
  <2>1. PICK y \in Node, t \in Trxn : Receive(y, t)
    BY <1>3 DEF Next
  <2>2. /\ t \notin handled[y]
        /\ handled' = [handled EXCEPT ![y] = @ \cup {t}]
    BY <2>1 DEF Receive
  <2>3. CASE acct' = acct /\ saved' = saved
    BY <1>1, <2>2, <2>3 DEF Ok, TypeOK
  <2>4. CASE /\ Saves(acct[y], t)
             /\ acct' = [acct EXCEPT ![y] = SavedTokens(@, t)]
             /\ saved' = [saved EXCEPT ![y] = @ \cup {t}]
    <3>1. acct[y] \in [User -> Account] /\ t \notin saved[y]
      BY <1>1, <2>2
    <3> DEFINE b == SavedTokens(acct[y], t)
    <3>2. Effect(acct[y], b, t) /\ b \in [User -> Account]
      BY <2>4, <3>1, EffectIs
    <3>3. acct' = [acct EXCEPT ![y] = b]
      BY <2>4
    <3> HIDE DEF b
    <3>4. /\ acct' \in [Node -> [User -> Account]]
          /\ acct'[y] = b /\ \A x \in Node : x # y => acct'[x] = acct[x]
      BY <1>1, <3>2, <3>3
    <3>5. /\ saved' \in [Node -> SUBSET Trxn]
          /\ saved'[y] = saved[y] \cup {t} /\ \A x \in Node : x # y => saved'[x] = saved[x]
          /\ handled' \in [Node -> SUBSET Trxn]
          /\ \A x \in Node : saved'[x] \subseteq handled'[x]
      BY <1>1, <2>2, <2>4
    <3>6. Ok'
      BY <3>4, <3>5 DEF Ok, TypeOK
    <3>7. ASSUME NEW x \in Node
          PROVE  /\ acct[x] \in [User -> Account] /\ acct'[x] \in [User -> Account]
                 /\ saved[x] \in SUBSET Trxn
                 /\ \/ acct'[x] = acct[x] /\ saved'[x] = saved[x]
                    \/ \E s \in Trxn : /\ s \notin saved[x]
                                       /\ saved'[x] = saved[x] \cup {s}
                                       /\ Effect(acct[x], acct'[x], s)
      <4>1. CASE x = y
        BY <1>1, <3>1, <3>2, <3>4, <3>5, <4>1
      <4>2. CASE x # y
        BY <1>1, <3>4, <3>5, <4>2
      <4> QED BY <4>1, <4>2
    <3> QED BY <3>6, <3>7
  <2> QED BY <2>1, <2>3, <2>4 DEF Receive
<1> QED BY <1>2, <1>3

LEMMA InitOk == Init => Ok
<1> SUFFICES ASSUME Init PROVE Ok
  OBVIOUS
<1>1. [tokens |-> <<>>, out |-> 0, in |-> 0] \in Account
  BY DEF Account
<1> QED BY <1>1 DEF Init, Ok, TypeOK

LEMMA AlwaysOk == Spec => []Ok
<1>1. Ok /\ [Next]_vars => Ok'
  BY StepIs
<1> QED BY <1>1, InitOk, PTL DEF Spec

\* Accounts keep their type: no balance of tokens becomes negative and no entry
\* is taken from or given to that is not there.
THEOREM TokensTyped == Spec => []TypeOK
<1>1. Ok => TypeOK
  BY DEF Ok
<1> QED BY <1>1, AlwaysOk, PTL

\* What the vote has accepted the save can do, in every state.
LEMMA CheckedInOk == Ok => CheckedIsDone
<1> SUFFICES ASSUME Ok, NEW x \in Node, NEW t \in Trxn,
                    Req[t].type = "XFERTOKEN", NamedOnce(t),
                    IsXferTokenValid(acct[x], t)
             PROVE  Saves(acct[x], t)
  BY DEF CheckedIsDone
<1> DEFINE a == acct[x]
           r == Req[t]
<1>1. /\ r.from \in User /\ r.to \in User /\ r.items \in Seq(Item)
  BY RequestIs
<1>2. a[r.from].tokens \in Seq(Entry) /\ a[r.to].tokens \in Seq(Entry)
  <2>1. a[r.from] \in Account /\ a[r.to] \in Account
    BY <1>1 DEF Ok, TypeOK
  <2> QED BY <2>1 DEF Account
<1>3. Typed(r.from, r.to, r.items, a[r.from].tokens, a[r.to].tokens)
  BY <1>1, <1>2 DEF Typed
<1>4. /\ {r.from, r.to} \subseteq Founded
      /\ HasDupNames(a[r.from].tokens, r.items)
      /\ CheckValidTokens(r.from, r.items, a[r.from].tokens)
  BY DEF IsXferTokenValid
<1>5. \A i, j \in DOMAIN r.items : r.items[i].name = r.items[j].name => i = j
  BY DEF NamedOnce
<1>6. Outcome(a, t).ok
  BY <1>3, <1>4, <1>5, RunChecked DEF Outcome
<1> QED BY <1>4, <1>6 DEF Saves, CanTransfer

\* A transfer that isXferTokenValid accepts, and that names no token twice, is
\* carried out by transferToken: each item is checked on its own list, and the
\* items before it have not touched its entry.
THEOREM CheckedDone == Spec => []CheckedIsDone
BY AlwaysOk, CheckedInOk, PTL

-----------------------------------------------------------------------------
(* A token there is one of.                                                 *)

\* u has the one, all others nothing or an empty entry.
Holder(a, n, u) ==
  /\ TheOne(a[u].tokens, n, u)
  /\ \A v \in User : v # u => /\ OneOrNone(a[v].tokens, n)
                              /\ FirstBal(a[v].tokens, n) = 0

\* S has one request at most to create n, and that asks for one.
NftSoFar(S, n) ==
  /\ \A t, s \in Mints(n) \cap S : t = s
  /\ \A t \in Mints(n) \cap S : Req[t].items[Find(Req[t].items, n)].amount = 1

HeldByOne(a, S, n) ==
  /\ Mints(n) \cap S = {} => \A u \in User : ~Has(a[u].tokens, n)
  /\ Mints(n) \cap S # {} => \E u \in User : Holder(a, n, u)

\* What t adds to what u has of n.  Of a token there are several of, one who
\* pays himself gets what he pays.
Gain(t, u, n) ==
  LET r == Req[t]
  IN  IF r.type = "NEWTOKEN" THEN IF u = r.from THEN AmountOf(t, n) ELSE 0
      ELSE IF r.from # r.to
           THEN IF u = r.to THEN AmountOf(t, n)
                ELSE IF u = r.from THEN -AmountOf(t, n) ELSE 0
           ELSE IF u = r.to /\ Fungible(n) THEN AmountOf(t, n) ELSE 0

Gains(a, b, t, n) ==
  \A u \in User : HeldIn(b[u].tokens, n) = HeldIn(a[u].tokens, n) + Gain(t, u, n)

\* u has a wallet.
LEMMA WalletOf ==
  ASSUME NEW a \in [User -> Account], NEW u \in User, NEW n
  PROVE  a[u].tokens \in Seq(Entry) /\ HeldIn(a[u].tokens, n) \in Nat
<1>1. a[u].tokens \in Seq(Entry)
  BY DEF Account
<1> QED BY <1>1, HeldType

\* A request that does not name n leaves the holder as it is.
LEMMA AllUntouched ==
  ASSUME NEW a \in [User -> Account], NEW b \in [User -> Account], NEW n,
         \A u \in User : Untouched(b[u].tokens, a[u].tokens, n)
  PROVE  /\ \A u \in User : HeldIn(b[u].tokens, n) = HeldIn(a[u].tokens, n)
         /\ \A S, T : Mints(n) \cap T = Mints(n) \cap S /\ HeldByOne(a, S, n)
                      => HeldByOne(b, T, n)
<1>1. ASSUME NEW u \in User
      PROVE  /\ HeldIn(b[u].tokens, n) = HeldIn(a[u].tokens, n)
             /\ Has(b[u].tokens, n) <=> Has(a[u].tokens, n)
             /\ Has(a[u].tokens, n) => FirstOf(b[u].tokens, n) = FirstOf(a[u].tokens, n)
  BY WalletOf, UntouchedSame
<1>2. \A u \in User : Holder(a, n, u) => Holder(b, n, u)
  BY <1>1 DEF Holder, TheOne, OneOrNone, FirstBal
<1> QED BY <1>1, <1>2 DEF HeldByOne

\* The request that creates the one makes its sender the holder.
LEMMA NftMint ==
  ASSUME NEW a \in [User -> Account], NEW b \in [User -> Account], NEW n,
         NEW S \in SUBSET Trxn, NEW t \in Trxn, t \notin S,
         Req[t].type = "NEWTOKEN", NewEffect(a, b, t),
         NftSoFar(S \cup {t}, n), HeldByOne(a, S, n)
  PROVE  HeldByOne(b, S \cup {t}, n)
<1> DEFINE f == Req[t].from
           items == Req[t].items
<1>1. /\ f \in User /\ \A u \in User : u # f => b[u] = a[u]
      /\ Places(items, n) = {} => Untouched(b[f].tokens, a[f].tokens, n)
      /\ Places(items, n) # {} =>
           /\ ~Has(a[f].tokens, n) /\ Has(b[f].tokens, n)
           /\ FirstOf(b[f].tokens, n).max = items[Find(items, n)].amount
           /\ FirstOf(b[f].tokens, n).bal = FirstOf(b[f].tokens, n).max
           /\ FirstOf(b[f].tokens, n).max = 1 => FirstOf(b[f].tokens, n).owner = f
  BY RequestIs DEF NewEffect
<1>2. t \in Mints(n) <=> Places(items, n) # {}
  BY DEF Mints
<1> HIDE DEF f, items
<1>3. CASE t \in Mints(n)
  <2>1. Mints(n) \cap S = {} /\ t \in Mints(n) \cap (S \cup {t})
    BY <1>3 DEF NftSoFar
  <2>2. items[Find(items, n)].amount = 1
    BY <2>1 DEF NftSoFar, items
  <2>3. \A u \in User : ~Has(a[u].tokens, n)
    BY <2>1 DEF HeldByOne
  <2>4. TheOne(b[f].tokens, n, f)
    BY <1>1, <1>2, <1>3, <2>2 DEF TheOne
  <2>5. Holder(b, n, f)
    BY <1>1, <2>3, <2>4 DEF Holder, OneOrNone, FirstBal
  <2> QED BY <1>1, <2>1, <2>5 DEF HeldByOne
<1>4. CASE t \notin Mints(n)
  <2>1. \A u \in User : Untouched(b[u].tokens, a[u].tokens, n)
    BY <1>1, <1>2, <1>4 DEF Untouched
  <2>2. Mints(n) \cap (S \cup {t}) = Mints(n) \cap S
    BY <1>4
  <2> QED BY <2>1, <2>2, AllUntouched
<1> QED BY <1>3, <1>4

\* A transfer makes its receiver the holder, or does not name the token.
LEMMA NftTransfer ==
  ASSUME NEW a \in [User -> Account], NEW b \in [User -> Account], NEW n,
         NEW S \in SUBSET Trxn, NEW t \in Trxn,
         Req[t].type = "XFERTOKEN", XferEffect(a, b, t), HeldByOne(a, S, n)
  PROVE  HeldByOne(b, S \cup {t}, n) /\ (~Fungible(n) => Gains(a, b, t, n))
<1> DEFINE f == Req[t].from
           g == Req[t].to
           items == Req[t].items
           new == Outcome(a, t)
           sum == AmountOf(t, n)
<1>1. /\ f \in User /\ g \in User
      /\ Typed(f, g, items, a[f].tokens, a[g].tokens) /\ new.ok
      /\ \A u \in User : u # f /\ u # g => b[u] = a[u]
      /\ b[g].tokens = new.to
      /\ f # g => b[f].tokens = new.from
  BY RequestIs DEF XferEffect
<1>2. Mints(n) \cap (S \cup {t}) = Mints(n) \cap S
  BY DEF Mints
<1>3. \A u \in User : OneOrNone(a[u].tokens, n)
  BY DEF HeldByOne, Holder, TheOne, OneOrNone
<1>4. /\ OneOrNone(new.from, n) /\ OneOrNone(new.to, n)
      /\ \/ /\ sum = 0
            /\ Untouched(new.from, a[f].tokens, n) /\ Untouched(new.to, a[g].tokens, n)
         \/ sum = 1 /\ OneMoved(new, a[f].tokens, a[g].tokens, n, f, g)
  <2>1. sum = Part(items, n, Len(items))
    BY RequestIs
  <2>2. OneOrNone(a[f].tokens, n) /\ OneOrNone(a[g].tokens, n)
    BY <1>1, <1>3
  <2> HIDE DEF sum, f, g, items
  <2>3. new = ModifyTokens(f, g, items, a[f].tokens, a[g].tokens)
    BY DEF Outcome, f, g, items
  <2> HIDE DEF new
  <2> QED BY <1>1, <2>1, <2>2, <2>3, RunNft
<1>5. ASSUME NEW u \in User
      PROVE  Gain(t, u, n) = IF f # g THEN IF u = g THEN sum ELSE IF u = f THEN -sum ELSE 0
                             ELSE IF u = g /\ Fungible(n) THEN sum ELSE 0
  BY DEF Gain
<1>6. \A u \in User : HeldIn(a[u].tokens, n) \in Nat
  BY WalletOf
<1> HIDE DEF f, g, items, new, sum
<1>7. CASE /\ sum = 0
           /\ Untouched(new.from, a[f].tokens, n) /\ Untouched(new.to, a[g].tokens, n)
  <2>1. \A u \in User : Untouched(b[u].tokens, a[u].tokens, n)
    BY <1>1, <1>7 DEF Untouched
  <2>2. HeldByOne(b, S \cup {t}, n)
    BY <1>2, <2>1, AllUntouched
  <2>3. ASSUME NEW u \in User
        PROVE  HeldIn(b[u].tokens, n) = HeldIn(a[u].tokens, n) + Gain(t, u, n)
    <3>1. Gain(t, u, n) = 0
      BY <1>5, <1>7
    <3>2. HeldIn(b[u].tokens, n) = HeldIn(a[u].tokens, n)
      BY <2>1, AllUntouched
    <3> QED BY <1>6, <3>1, <3>2
  <2> QED BY <2>2, <2>3 DEF Gains
<1>8. CASE sum = 1 /\ OneMoved(new, a[f].tokens, a[g].tokens, n, f, g)
  <2>1. /\ TheOne(a[f].tokens, n, f) /\ TheOne(new.to, n, g)
        /\ Has(new.from, n) /\ FirstOf(new.from, n).bal = 0
        /\ HeldIn(new.from, n) = HeldIn(a[f].tokens, n) - 1
        /\ HeldIn(new.to, n) = HeldIn(a[g].tokens, n) - FirstBal(a[g].tokens, n) + 1
    BY <1>8 DEF OneMoved
  <2>2. Mints(n) \cap S # {}
    BY <1>1, <2>1 DEF HeldByOne, TheOne
  <2>3. PICK u \in User : Holder(a, n, u)
    BY <2>2 DEF HeldByOne
  <2>4. u = f
    BY <1>1, <2>1, <2>3 DEF Holder, TheOne, FirstBal
  <2>5. \A v \in User : v # f => OneOrNone(a[v].tokens, n) /\ FirstBal(a[v].tokens, n) = 0
    BY <2>3, <2>4 DEF Holder
  <2>6. FirstBal(new.from, n) = 0 /\ OneOrNone(new.from, n)
    BY <1>4, <2>1 DEF FirstBal
  <2>7. Holder(b, n, g)
    BY <1>1, <2>1, <2>5, <2>6 DEF Holder
  <2>8. HeldByOne(b, S \cup {t}, n)
    BY <1>1, <1>2, <2>2, <2>7 DEF HeldByOne
  <2>9. ASSUME ~Fungible(n), NEW v \in User
        PROVE  HeldIn(b[v].tokens, n) = HeldIn(a[v].tokens, n) + Gain(t, v, n)
    <3>1. CASE v # f /\ v # g
      <4>1. Gain(t, v, n) = 0 /\ b[v] = a[v]
        BY <1>1, <1>5, <3>1
      <4> QED BY <1>6, <4>1
    <3>2. CASE v = g /\ f # g
      <4>1. Gain(t, v, n) = 1 /\ FirstBal(a[g].tokens, n) = 0
        BY <1>1, <1>5, <1>8, <2>5, <3>2
      <4> QED BY <1>1, <1>6, <2>1, <3>2, <4>1
    <3>3. CASE v = f /\ f # g
      <4>1. Gain(t, v, n) = -1
        BY <1>5, <1>8, <3>3
      <4> QED BY <1>1, <1>6, <2>1, <3>3, <4>1
    <3>4. CASE v = f /\ f = g
      <4>1. Gain(t, v, n) = 0
        BY <1>5, <2>9, <3>4
      <4>2. FirstBal(a[g].tokens, n) = 1
        BY <2>1, <3>4 DEF TheOne, FirstBal
      <4> QED BY <1>1, <1>6, <2>1, <3>4, <4>1, <4>2
    <3> QED BY <3>1, <3>2, <3>3, <3>4
  <2> QED BY <2>8, <2>9 DEF Gains
<1> QED BY <1>4, <1>7, <1>8

\* A request to create one of the token names it once.
LEMMA UniqueIs ==
  ASSUME NEW n, Unique(n), NEW t \in Mints(n)
  PROVE  /\ \A i, j \in Places(Req[t].items, n) : i = j
         /\ Req[t].items[Find(Req[t].items, n)].amount = 1
<1> DEFINE req == Req[t].items
           P == Places(req, n)
           f == Amounts(req)
           i == Find(req, n)
<1>1. t \in Trxn /\ P # {} /\ AmountOf(t, n) = 1
  BY DEF Mints, Unique
<1>2. req \in Seq(Item)
  BY <1>1, RequestIs
<1>3. SumFunctionOnSet(f, P) = 1
  BY <1>1 DEF AmountOf, Amounts
<1>4. IsFiniteSet(P) /\ \A j \in P : f[j] = req[j].amount /\ f[j] \in Nat \ {0}
  <2>1. IsFiniteSet(1..Len(req))
    BY <1>2, FS_Interval
  <2>2. P \in SUBSET (1..Len(req))
    BY <1>2 DEF Places
  <2>3. ASSUME NEW j \in P PROVE f[j] = req[j].amount /\ f[j] \in Nat \ {0}
    <3>1. j \in DOMAIN req /\ req[j] \in Item
      BY <1>2 DEF Places
    <3> QED BY <3>1 DEF Amounts, Item
  <2> QED BY <2>1, <2>2, <2>3, FS_Subset
<1>5. i \in P
  BY <1>1, <1>2, FindIs
<1> HIDE DEF P, f, i, req
<1>6. ASSUME NEW j \in P, NEW k \in P PROVE j = k
  <2>1. j # k => f[j] + f[k] <= 1
    BY <1>3, <1>4, SumOfTwo
  <2>2. f[j] \in Nat \ {0} /\ f[k] \in Nat \ {0}
    BY <1>4
  <2> QED BY <2>1, <2>2
<1>7. f[i] = 1
  <2>1. SumFunctionOnSet(f, P) = f[i] + SumFunctionOnSet(f, P \ {i})
    BY <1>4, <1>5, SumRemove
  <2>2. P \ {i} = {}
    BY <1>5, <1>6
  <2>3. SumFunctionOnSet(f, P \ {i}) = 0
    BY <2>2, SumEmpty
  <2>4. f[i] \in Nat
    BY <1>4, <1>5
  <2> QED BY <1>3, <2>1, <2>3, <2>4
<1> QED BY <1>4, <1>5, <1>6, <1>7 DEF P, req, i

\* No request gives a wallet a second entry of a name created as one.
LEMMA OnePlaceStep ==
  ASSUME NEW a \in [User -> Account], NEW b \in [User -> Account], NEW n, Unique(n),
         NEW t \in Trxn, Effect(a, b, t),
         \A u \in User : OnePlace(a[u].tokens, n)
  PROVE  \A u \in User : OnePlace(b[u].tokens, n)
<1> DEFINE f == Req[t].from
           g == Req[t].to
           items == Req[t].items
<1>1. f \in User /\ g \in User
  BY RequestIs
<1>2. CASE Req[t].type = "NEWTOKEN" /\ NewEffect(a, b, t)
  <2>1. /\ \A u \in User : u # f => b[u] = a[u]
        /\ Places(items, n) = {} => Untouched(b[f].tokens, a[f].tokens, n)
        /\ Places(items, n) # {} => Places(b[f].tokens, n) = Places(items, n)
    BY <1>2 DEF NewEffect
  <2>2. OnePlace(b[f].tokens, n)
    <3>1. CASE Places(items, n) = {}
      <4>1. Places(b[f].tokens, n) = Places(a[f].tokens, n)
        BY <2>1, <3>1 DEF Untouched
      <4>2. OnePlace(a[f].tokens, n)
        BY <1>1
      <4> QED BY <4>1, <4>2 DEF OnePlace
    <3>2. CASE Places(items, n) # {}
      <4>1. t \in Mints(n)
        BY <1>2, <3>2 DEF Mints
      <4>2. \A i, j \in Places(items, n) : i = j
        BY <4>1, UniqueIs
      <4> QED BY <2>1, <3>2, <4>2 DEF OnePlace
    <3> QED BY <3>1, <3>2
  <2> QED BY <2>1, <2>2
<1>3. CASE Req[t].type = "XFERTOKEN" /\ XferEffect(a, b, t)
  <2> DEFINE new == Outcome(a, t)
  <2>1. /\ Typed(f, g, items, a[f].tokens, a[g].tokens) /\ new.ok
        /\ \A u \in User : u # f /\ u # g => b[u] = a[u]
        /\ b[g].tokens = new.to
        /\ f # g => b[f].tokens = new.from
    BY <1>3 DEF XferEffect
  <2>2. OnePlace(new.from, n) /\ OnePlace(new.to, n)
    <3>1. OnePlace(a[f].tokens, n) /\ OnePlace(a[g].tokens, n)
      BY <1>1
    <3> HIDE DEF f, g, items
    <3>2. new = ModifyTokens(f, g, items, a[f].tokens, a[g].tokens)
      BY DEF Outcome, f, g, items
    <3> HIDE DEF new
    <3> QED BY <2>1, <3>1, <3>2, RunOnePlace
  <2> HIDE DEF new, f, g
  <2> QED BY <2>1, <2>2
<1> QED BY <1>2, <1>3 DEF Effect

\* The invariant: for what has been created so far, not for what may be.
NftOK ==
  \A x \in Node, n \in Name :
    /\ NftSoFar(saved[x], n) => HeldByOne(acct[x], saved[x], n)
    /\ Unique(n) => \A u \in User : OnePlace(acct[x][u].tokens, n)

LEMMA NftStep == Ok /\ NftOK /\ [Next]_vars => NftOK'
<1> SUFFICES ASSUME Ok, NftOK, [Next]_vars, NEW x \in Node, NEW n \in Name
             PROVE  /\ NftSoFar(saved'[x], n) => HeldByOne(acct'[x], saved'[x], n)
                    /\ Unique(n) => \A u \in User : OnePlace(acct'[x][u].tokens, n)
  BY DEF NftOK
<1> DEFINE a == acct[x]
           b == acct'[x]
           S == saved[x]
           T == saved'[x]
<1>1. /\ a \in [User -> Account] /\ b \in [User -> Account] /\ S \in SUBSET Trxn
      /\ \/ b = a /\ T = S
         \/ \E t \in Trxn : t \notin S /\ T = S \cup {t} /\ Effect(a, b, t)
  BY StepIs
<1>2. /\ NftSoFar(S, n) => HeldByOne(a, S, n)
      /\ Unique(n) => \A u \in User : OnePlace(a[u].tokens, n)
  BY DEF NftOK
<1> HIDE DEF a, b, S, T
<1>3. ASSUME NEW t \in Trxn, t \notin S, T = S \cup {t}, Effect(a, b, t)
      PROVE  /\ NftSoFar(T, n) => HeldByOne(b, T, n)
             /\ Unique(n) => \A u \in User : OnePlace(b[u].tokens, n)
  <2>1. NftSoFar(T, n) => NftSoFar(S, n)
    BY <1>3 DEF NftSoFar
  <2>2. NftSoFar(T, n) => HeldByOne(b, T, n)
    BY <1>1, <1>2, <1>3, <2>1, NftMint, NftTransfer DEF Effect
  <2> QED BY <1>1, <1>2, <1>3, <2>2, OnePlaceStep
<1>4. /\ NftSoFar(T, n) => HeldByOne(b, T, n)
      /\ Unique(n) => \A u \in User : OnePlace(b[u].tokens, n)
  BY <1>1, <1>2, <1>3
<1> QED BY <1>4 DEF b, T

\* With one entry of the name, the balance is that entry's.
LEMMA HeldOnePlace ==
  ASSUME NEW w \in Seq(Entry), NEW n, OnePlace(w, n)
  PROVE  HeldIn(w, n) = FirstBal(w, n)
<1>1. HeldIn(w, n) = SumFunctionOnSet(Bals(w), Places(w, n))
  BY HeldType
<1>2. CASE ~Has(w, n)
  BY <1>1, <1>2, SumEmpty DEF Has, FirstBal
<1>3. CASE Has(w, n)
  <2> DEFINE i == Find(w, n)
             P == Places(w, n)
  <2>1. i \in P /\ FirstBal(w, n) = w[i].bal
    BY <1>3, FirstIs DEF FirstBal, FirstOf
  <2>2. IsFiniteSet(P) /\ \A j \in P : Bals(w)[j] = w[j].bal /\ Bals(w)[j] \in Nat
    BY HeldType
  <2>3. P \ {i} = {}
    BY <2>1 DEF OnePlace
  <2> HIDE DEF i, P
  <2>4. SumFunctionOnSet(Bals(w), P) = Bals(w)[i] + SumFunctionOnSet(Bals(w), P \ {i})
    BY <2>1, <2>2, SumRemove
  <2>5. SumFunctionOnSet(Bals(w), P \ {i}) = 0
    BY <2>3, SumEmpty
  <2> QED BY <1>1, <2>1, <2>2, <2>4, <2>5 DEF P
<1> QED BY <1>2, <1>3

LEMMA NftOneInOk == Ok /\ NftOK => NftOneHolder
<1> SUFFICES ASSUME Ok, NftOK, NEW x \in Node, NEW n \in Name, Unique(n),
                    Cardinality(Mints(n) \cap saved[x]) = 1
             PROVE  \E u \in User :
                      /\ \A v \in User : Held(x, v, n) = IF v = u THEN 1 ELSE 0
                      /\ \E e \in ToSet(acct[x][u].tokens) : e.name = n /\ e.owner = u
  BY DEF NftOneHolder
<1> DEFINE a == acct[x]
           M == Mints(n) \cap saved[x]
<1>1. a \in [User -> Account] /\ IsFiniteSet(M)
  <2>1. M \in SUBSET Trxn
    BY DEF Mints
  <2> QED BY <2>1, FiniteAssumption, FS_Subset DEF Ok, TypeOK
<1>2. PICK t : M = {t}
  <2> HIDE DEF M
  <2> QED BY <1>1, FS_Singleton DEF M
<1>3. NftSoFar(saved[x], n)
  <2>1. \A s \in M : s \in Mints(n)
    OBVIOUS
  <2>2. \A s \in M : Req[s].items[Find(Req[s].items, n)].amount = 1
    BY <2>1, UniqueIs
  <2> QED BY <1>2, <2>2 DEF NftSoFar
<1>4. PICK u \in User : Holder(a, n, u)
  BY <1>2, <1>3 DEF NftOK, HeldByOne
<1>5. ASSUME NEW v \in User PROVE Held(x, v, n) = IF v = u THEN 1 ELSE 0
  <2>1. OnePlace(a[v].tokens, n)
    BY DEF NftOK
  <2>2. Held(x, v, n) = FirstBal(a[v].tokens, n)
    BY <1>1, <2>1, WalletOf, HeldOnePlace DEF Held
  <2>3. FirstBal(a[v].tokens, n) = IF v = u THEN 1 ELSE 0
    BY <1>4 DEF Holder, TheOne, FirstBal
  <2> QED BY <2>2, <2>3
<1>6. \E e \in ToSet(a[u].tokens) : e.name = n /\ e.owner = u
  <2> DEFINE w == a[u].tokens
  <2>1. w \in Seq(Entry) /\ Has(w, n) /\ FirstOf(w, n).owner = u
    BY <1>1, <1>4, WalletOf DEF Holder, TheOne
  <2> HIDE DEF w
  <2>2. Find(w, n) \in 1..Len(w) /\ FirstOf(w, n) = w[Find(w, n)] /\ FirstOf(w, n).name = n
    BY <2>1, FirstIs DEF FirstOf
  <2>3. FirstOf(w, n) \in ToSet(w)
    BY <2>1, <2>2 DEF ToSet
  <2> QED BY <2>1, <2>2, <2>3 DEF w
<1> QED BY <1>5, <1>6

LEMMA AlwaysNft == Spec => []NftOK
<1>1. Init => NftOK
  <2> SUFFICES ASSUME Init, NEW x \in Node, NEW n \in Name
               PROVE  /\ HeldByOne(acct[x], saved[x], n)
                      /\ \A u \in User : OnePlace(acct[x][u].tokens, n)
    BY DEF NftOK
  <2>1. saved[x] = {} /\ \A u \in User : Places(acct[x][u].tokens, n) = {}
    BY DEF Init, Places
  <2> QED BY <2>1 DEF HeldByOne, Has, OnePlace
<1>2. Ok /\ NftOK /\ [Next]_vars => NftOK'
  BY NftStep
<1> QED BY <1>1, <1>2, AlwaysOk, PTL DEF Spec

\* A token created once, of which there is one, is in one hand at every node, and
\* that hand is its owner's, also after it has come back.
THEOREM NftHeldOnce == Spec => []NftOneHolder
BY AlwaysOk, AlwaysNft, NftOneInOk, PTL

-----------------------------------------------------------------------------
(* A token there are several of.                                            *)

\* Wherever the token is, it is an entry of several.
AllOf(a, n) == \A u \in User : AllFungible(a[u].tokens, n)

\* Nothing is rounded when t changes the accounts a.
Fits(a, t, n) ==
  LET from == HeldIn(a[Req[t].from].tokens, n)
      to == HeldIn(a[Req[t].to].tokens, n)
  IN  /\ from < SixDigits
      /\ to + from < SixDigits \/ to + AmountOf(t, n) < SixDigits

\* Creating tokens does not create an NFT of the name.
LEMMA FungibleMint ==
  ASSUME NEW a \in [User -> Account], NEW b \in [User -> Account], NEW n,
         NEW t \in Trxn, Req[t].type = "NEWTOKEN", NewEffect(a, b, t),
         Fungible(n), AllOf(a, n)
  PROVE  AllOf(b, n)
<1> DEFINE f == Req[t].from
           items == Req[t].items
<1>1. /\ \A u \in User : u # f => b[u] = a[u]
      /\ Places(items, n) = {} => Untouched(b[f].tokens, a[f].tokens, n)
      /\ Places(items, n) # {} =>
           FirstOf(b[f].tokens, n).max = items[Find(items, n)].amount
  BY DEF NewEffect
<1>2. \A u \in User : AllFungible(a[u].tokens, n)
  BY DEF AllOf
<1>3. f \in User
  BY RequestIs
<1>4. AllFungible(b[f].tokens, n)
  <2>1. CASE Places(items, n) = {}
    <3>1. Untouched(b[f].tokens, a[f].tokens, n)
      BY <1>1, <2>1
    <3>2. a[f].tokens \in Seq(Entry) /\ b[f].tokens \in Seq(Entry)
      BY <1>3, WalletOf
    <3>3. AllFungible(a[f].tokens, n)
      BY <1>2, <1>3
    <3> HIDE DEF f
    <3> QED BY <3>1, <3>2, <3>3, UntouchedSame DEF AllFungible
  <2>2. CASE Places(items, n) # {}
    <3>1. t \in Mints(n)
      BY <2>2 DEF Mints
    <3>2. items[Find(items, n)].amount > 1
      BY <3>1 DEF Fungible
    <3>3. FirstOf(b[f].tokens, n).max > 1
      BY <1>1, <2>2, <3>2
    <3> QED BY <3>3 DEF AllFungible, IsNft
  <2> QED BY <2>1, <2>2
<1> HIDE DEF f, items
<1>5. ASSUME NEW u \in User PROVE AllFungible(b[u].tokens, n)
  BY <1>1, <1>2, <1>4
<1> QED BY <1>5 DEF AllOf

\* It adds what it says to what its sender has.
LEMMA MintGains ==
  ASSUME NEW a \in [User -> Account], NEW b \in [User -> Account], NEW n,
         NEW t \in Trxn, Req[t].type = "NEWTOKEN", NewEffect(a, b, t)
  PROVE  Gains(a, b, t, n)
<1> DEFINE f == Req[t].from
<1>1. /\ \A u \in User : u # f => b[u] = a[u]
      /\ HeldIn(b[f].tokens, n) = HeldIn(a[f].tokens, n) + AmountOf(t, n)
  BY DEF NewEffect
<1>2. \A u \in User : Gain(t, u, n) = IF u = f THEN AmountOf(t, n) ELSE 0
  BY DEF Gain
<1> HIDE DEF f
<1>3. ASSUME NEW u \in User
      PROVE  HeldIn(b[u].tokens, n) = HeldIn(a[u].tokens, n) + Gain(t, u, n)
  <2>1. HeldIn(a[u].tokens, n) \in Nat
    BY WalletOf
  <2>2. CASE u = f
    BY <1>1, <1>2, <2>2
  <2>3. CASE u # f
    <3>1. b[u] = a[u] /\ Gain(t, u, n) = 0
      BY <1>1, <1>2, <2>3
    <3> QED BY <2>1, <3>1
  <2> QED BY <2>2, <2>3
<1> QED BY <1>3 DEF Gains

\* A transfer takes from one what it gives to the other.
LEMMA FungibleTransfer ==
  ASSUME NEW a \in [User -> Account], NEW b \in [User -> Account], NEW n,
         NEW t \in Trxn, Req[t].type = "XFERTOKEN", XferEffect(a, b, t),
         Fungible(n), AllOf(a, n), Fits(a, t, n)
  PROVE  AllOf(b, n) /\ Gains(a, b, t, n)
<1> DEFINE f == Req[t].from
           g == Req[t].to
           items == Req[t].items
           new == Outcome(a, t)
           sum == AmountOf(t, n)
<1>1. /\ f \in User /\ g \in User /\ sum \in Nat
      /\ Typed(f, g, items, a[f].tokens, a[g].tokens) /\ new.ok
      /\ \A u \in User : u # f /\ u # g => b[u] = a[u]
      /\ b[g].tokens = new.to
      /\ f # g => b[f].tokens = new.from
  BY RequestIs DEF XferEffect
<1>2. \A u \in User : AllFungible(a[u].tokens, n)
  BY DEF AllOf
<1>3. /\ HeldIn(a[f].tokens, n) < SixDigits
      /\ \/ HeldIn(a[g].tokens, n) + HeldIn(a[f].tokens, n) < SixDigits
         \/ HeldIn(a[g].tokens, n) + sum < SixDigits
  BY DEF Fits
<1>4. /\ HeldIn(new.from, n) = HeldIn(a[f].tokens, n) - sum
      /\ HeldIn(new.to, n) = HeldIn(a[g].tokens, n) + sum
      /\ AllFungible(new.from, n) /\ AllFungible(new.to, n)
  <2>1. sum = Part(items, n, Len(items))
    BY RequestIs
  <2>2. AllFungible(a[f].tokens, n) /\ AllFungible(a[g].tokens, n)
    BY <1>1, <1>2
  <2> HIDE DEF sum, f, g, items
  <2>3. new = ModifyTokens(f, g, items, a[f].tokens, a[g].tokens)
    BY DEF Outcome, f, g, items
  <2> HIDE DEF new
  <2> QED BY <1>1, <1>3, <2>1, <2>2, <2>3, RunFungible
<1>5. ASSUME NEW u \in User
      PROVE  Gain(t, u, n) = IF f # g THEN IF u = g THEN sum ELSE IF u = f THEN -sum ELSE 0
                             ELSE IF u = g THEN sum ELSE 0
  BY DEF Gain
<1>6. \A u \in User : HeldIn(a[u].tokens, n) \in Nat
  BY WalletOf
<1> HIDE DEF f, g, items, new, sum
<1>7. AllOf(b, n)
  <2>1. ASSUME NEW u \in User PROVE AllFungible(b[u].tokens, n)
    BY <1>1, <1>2, <1>4
  <2> QED BY <2>1 DEF AllOf
<1>8. ASSUME NEW v \in User
      PROVE  HeldIn(b[v].tokens, n) = HeldIn(a[v].tokens, n) + Gain(t, v, n)
  <2>1. CASE v # f /\ v # g
    <3>1. Gain(t, v, n) = 0 /\ b[v] = a[v]
      BY <1>1, <1>5, <2>1
    <3> QED BY <1>6, <3>1
  <2>2. CASE v = g
    <3>1. Gain(t, v, n) = sum
      BY <1>5, <2>2
    <3> QED BY <1>1, <1>4, <2>2, <3>1
  <2>3. CASE v = f /\ f # g
    <3>1. Gain(t, v, n) = -sum
      BY <1>5, <2>3
    <3> QED BY <1>1, <1>4, <1>6, <2>3, <3>1
  <2> QED BY <2>1, <2>2, <2>3
<1> QED BY <1>7, <1>8 DEF Gains

-----------------------------------------------------------------------------
(* What there is of a token.                                                *)

Amt(n) == [t \in Trxn |-> AmountOf(t, n)]
Total(a, n) == SumFunctionOnSet([u \in User |-> HeldIn(a[u].tokens, n)], User)
CreatedBy(S, n) == SumFunctionOnSet(Amt(n), Mints(n) \cap S)
CreatesOf(t, n) == IF Req[t].type = "NEWTOKEN" THEN AmountOf(t, n) ELSE 0

\* All of a token that is ever created is a number of six digits.
FewMinted(n) == SumFunctionOnSet(Amt(n), Mints(n)) < SixDigits

LEMMA AmtType ==
  ASSUME NEW n, NEW S \in SUBSET Trxn
  PROVE  /\ IsFiniteSet(S) /\ IsFiniteSet(Mints(n) \cap S) /\ IsFiniteSet(Mints(n))
         /\ Mints(n) \in SUBSET Trxn
         /\ \A t \in Trxn : Amt(n)[t] = AmountOf(t, n) /\ Amt(n)[t] \in Nat
<1>1. Mints(n) \in SUBSET Trxn /\ Mints(n) \cap S \in SUBSET Trxn
  BY DEF Mints
<1>2. \A T \in SUBSET Trxn : IsFiniteSet(T)
  BY FiniteAssumption, FS_Subset
<1>3. \A t \in Trxn : Amt(n)[t] = AmountOf(t, n) /\ Amt(n)[t] \in Nat
  BY RequestIs DEF Amt
<1> QED BY <1>1, <1>2, <1>3

\* What has been created so far, and what a request adds to it.
LEMMA CreatedBound ==
  ASSUME NEW n, NEW S \in SUBSET Trxn
  PROVE  /\ CreatedBy(S, n) \in Nat
         /\ FewMinted(n) => CreatedBy(S, n) < SixDigits
         /\ \A t \in Trxn : t \notin S =>
              CreatedBy(S \cup {t}, n) = CreatedBy(S, n) + CreatesOf(t, n)
<1> DEFINE f == Amt(n)
           M == Mints(n)
<1>1. /\ IsFiniteSet(M \cap S) /\ IsFiniteSet(M) /\ M \in SUBSET Trxn
      /\ \A t \in Trxn : f[t] = AmountOf(t, n) /\ f[t] \in Nat
  BY AmtType
<1>2. CreatedBy(S, n) = SumFunctionOnSet(f, M \cap S)
  BY DEF CreatedBy
<1>3. FewMinted(n) => SumFunctionOnSet(f, M) < SixDigits
  BY DEF FewMinted
<1>4. ASSUME NEW t \in Trxn, t \notin S
      PROVE  CreatedBy(S \cup {t}, n) = CreatedBy(S, n) + CreatesOf(t, n)
  <2>1. CreatedBy(S \cup {t}, n) = SumFunctionOnSet(f, M \cap (S \cup {t}))
    BY DEF CreatedBy
  <2>2. CASE t \in M
    <3>1. CreatesOf(t, n) = f[t]
      BY <1>1, <2>2 DEF CreatesOf, Mints
    <3>2. M \cap (S \cup {t}) = (M \cap S) \cup {t} /\ t \notin M \cap S
      BY <1>4, <2>2
    <3> DEFINE U == M \cap S
    <3>3. \A s \in U \cup {t} : f[s] \in Int
      BY <1>1
    <3>4. IsFiniteSet(U) /\ t \notin U
      BY <1>1, <3>2
    <3> HIDE DEF f, U
    <3>5. SumFunctionOnSet(f, U \cup {t}) = f[t] + SumFunctionOnSet(f, U)
      BY <3>3, <3>4, SumAdd
    <3>6. SumFunctionOnSet(f, U) \in Int /\ f[t] \in Int
      BY <3>3, <3>4, SumInt
    <3>7. /\ CreatedBy(S, n) = SumFunctionOnSet(f, U)
          /\ CreatedBy(S \cup {t}, n) = SumFunctionOnSet(f, U \cup {t})
      BY <1>2, <2>1, <3>2 DEF U
    <3> QED BY <3>1, <3>5, <3>6, <3>7
  <2>3. CASE t \notin M
    <3>1. CreatesOf(t, n) = 0
      BY <2>3, RequestIs DEF CreatesOf, Mints
    <3>2. M \cap (S \cup {t}) = M \cap S
      BY <2>3
    <3>3. SumFunctionOnSet(f, M \cap S) \in Int
      <4> HIDE DEF f
      <4> QED BY <1>1, SumInt
    <3> QED BY SMTT(30), <1>2, <2>1, <3>1, <3>2, <3>3
  <2> QED BY <2>2, <2>3
<1>5. /\ SumFunctionOnSet(f, M \cap S) \in Nat /\ SumFunctionOnSet(f, M) \in Nat
      /\ SumFunctionOnSet(f, M \cap S) <= SumFunctionOnSet(f, M)
  <2> HIDE DEF f, M
  <2> QED BY <1>1, SumNat, SumSubset
<1> HIDE DEF f, M
<1>6. FewMinted(n) => CreatedBy(S, n) < SixDigits
  BY <1>2, <1>3, <1>5, StoredIs
<1> QED BY <1>2, <1>4, <1>5, <1>6

\* No two wallets exceed the total.
LEMMA TotalIs ==
  ASSUME NEW a \in [User -> Account], NEW n
  PROVE  /\ Total(a, n) \in Nat
         /\ \A u \in User : HeldIn(a[u].tokens, n) <= Total(a, n)
         /\ \A u, v \in User : u # v =>
              HeldIn(a[u].tokens, n) + HeldIn(a[v].tokens, n) <= Total(a, n)
<1> DEFINE f == [u \in User |-> HeldIn(a[u].tokens, n)]
<1>1. \A u \in User : f[u] = HeldIn(a[u].tokens, n) /\ f[u] \in Nat
  BY WalletOf
<1>2. Total(a, n) = SumFunctionOnSet(f, User) /\ IsFiniteSet(User)
  BY FiniteAssumption DEF Total
<1> HIDE DEF f
<1>3. SumFunctionOnSet(f, User) \in Nat
  BY <1>1, <1>2, SumNat
<1>4. ASSUME NEW u \in User PROVE f[u] <= SumFunctionOnSet(f, User)
  <2>1. SumFunctionOnSet(f, User) = f[u] + SumFunctionOnSet(f, User \ {u})
    BY <1>1, <1>2, SumRemove
  <2>2. IsFiniteSet(User \ {u})
    BY <1>2, FS_Subset
  <2>3. SumFunctionOnSet(f, User \ {u}) \in Nat
    BY <1>1, <2>2, SumNat
  <2> QED BY <1>1, <2>1, <2>3
<1>5. \A u, v \in User : u # v => f[u] + f[v] <= SumFunctionOnSet(f, User)
  BY <1>1, <1>2, SumOfTwo
<1> QED BY <1>1, <1>2, <1>3, <1>4, <1>5

\* Only a creation changes the total.
LEMMA TotalStep ==
  ASSUME NEW a \in [User -> Account], NEW b \in [User -> Account], NEW n,
         NEW t \in Trxn, Gains(a, b, t, n),
         Req[t].type = "XFERTOKEN" => Req[t].from # Req[t].to
  PROVE  Total(b, n) = Total(a, n) + CreatesOf(t, n)
<1> DEFINE f == [u \in User |-> HeldIn(a[u].tokens, n)]
           g == [u \in User |-> HeldIn(b[u].tokens, n)]
           y == Req[t].from
           z == Req[t].to
           m == AmountOf(t, n)
<1>1. ASSUME NEW u \in User
      PROVE  f[u] \in Int /\ g[u] \in Int /\ g[u] = f[u] + Gain(t, u, n)
  <2>1. HeldIn(a[u].tokens, n) \in Nat /\ HeldIn(b[u].tokens, n) \in Nat
    BY WalletOf
  <2>2. HeldIn(b[u].tokens, n) = HeldIn(a[u].tokens, n) + Gain(t, u, n)
    BY DEF Gains
  <2> QED BY <2>1, <2>2
<1>2. /\ Total(a, n) = SumFunctionOnSet(f, User) /\ IsFiniteSet(User)
      /\ Total(b, n) = SumFunctionOnSet(g, User)
  BY FiniteAssumption DEF Total
<1>3. Total(a, n) \in Int
  BY TotalIs
<1>4. y \in User /\ z \in User /\ m \in Nat
  BY RequestIs
<1>5. CASE Req[t].type = "NEWTOKEN"
  <2>1. /\ \A u \in User : Gain(t, u, n) = IF u = y THEN m ELSE 0
        /\ CreatesOf(t, n) = m
    BY <1>5 DEF Gain, CreatesOf
  <2> HIDE DEF f, g, y, m
  <2>2. \A u \in User : u # y => g[u] = f[u]
    BY <1>1, <2>1
  <2>3. SumFunctionOnSet(g, User) = SumFunctionOnSet(f, User) - f[y] + g[y]
    BY <1>1, <1>2, <1>4, <2>2, SumChange
  <2>4. f[y] \in Int /\ g[y] = f[y] + m
    BY <1>1, <1>4, <2>1
  <2> QED BY <1>2, <1>3, <1>4, <2>1, <2>3, <2>4
<1>6. CASE Req[t].type = "XFERTOKEN"
  <2>1. /\ y # z
        /\ \A u \in User : Gain(t, u, n) = IF u = z THEN m ELSE IF u = y THEN -m ELSE 0
        /\ CreatesOf(t, n) = 0
    BY <1>6 DEF Gain, CreatesOf
  <2> HIDE DEF f, g, y, z, m
  <2>2. \A u \in User : u # y /\ u # z => g[u] = f[u]
    BY <1>1, <2>1
  <2>3. SumFunctionOnSet(g, User)
          = SumFunctionOnSet(f, User) - f[y] - f[z] + g[y] + g[z]
    BY <1>1, <1>2, <1>4, <2>1, <2>2, SumChangeTwo
  <2>4. f[y] \in Int /\ f[z] \in Int /\ g[y] = f[y] - m /\ g[z] = f[z] + m
    BY <1>1, <1>4, <2>1
  <2> QED BY <1>2, <1>3, <1>4, <2>1, <2>3, <2>4
<1> QED BY <1>5, <1>6, RequestIs

\* While the total has six digits no balance is rounded.
LEMMA TotalFits ==
  ASSUME NEW a \in [User -> Account], NEW n, NEW t \in Trxn,
         Req[t].from # Req[t].to, Total(a, n) < SixDigits
  PROVE  Fits(a, t, n)
<1> DEFINE f == Req[t].from
           g == Req[t].to
<1>1. f \in User /\ g \in User
  BY RequestIs
<1> HIDE DEF f, g
<1>2. /\ HeldIn(a[f].tokens, n) <= Total(a, n)
      /\ HeldIn(a[g].tokens, n) + HeldIn(a[f].tokens, n) <= Total(a, n)
  BY <1>1, TotalIs DEF f, g
<1>3. HeldIn(a[f].tokens, n) \in Nat /\ HeldIn(a[g].tokens, n) \in Nat
  BY <1>1, WalletOf
<1>4. Total(a, n) \in Nat
  BY TotalIs
<1>5. /\ HeldIn(a[f].tokens, n) < SixDigits
      /\ HeldIn(a[g].tokens, n) + HeldIn(a[f].tokens, n) < SixDigits
  BY <1>2, <1>3, <1>4, StoredIs
<1> QED BY <1>5 DEF Fits, f, g

NoneToSelf(S) == \A t \in S : Req[t].type = "XFERTOKEN" => Req[t].from # Req[t].to

ConservedIn(a, S, n) == AllOf(a, n) /\ Total(a, n) = CreatedBy(S, n)

\* The invariant: the total comes with the kind of entry, and both with the
\* bound on the total that keeps the next step exact.
ConservedOK ==
  \A x \in Node, n \in Name :
    FewMinted(n) /\ Fungible(n) /\ NoneToSelf(saved[x])
      => ConservedIn(acct[x], saved[x], n)

LEMMA ConservedEffect ==
  ASSUME NEW a \in [User -> Account], NEW b \in [User -> Account], NEW n,
         NEW S \in SUBSET Trxn, NEW t \in Trxn, t \notin S, Effect(a, b, t),
         FewMinted(n), Fungible(n), NoneToSelf(S \cup {t}), ConservedIn(a, S, n)
  PROVE  ConservedIn(b, S \cup {t}, n)
<1>1. AllOf(a, n) /\ Total(a, n) = CreatedBy(S, n)
  BY DEF ConservedIn
<1>2. /\ Total(a, n) < SixDigits
      /\ CreatedBy(S \cup {t}, n) = CreatedBy(S, n) + CreatesOf(t, n)
  BY <1>1, CreatedBound
<1>3. Req[t].type = "XFERTOKEN" => Req[t].from # Req[t].to
  BY DEF NoneToSelf
<1>4. AllOf(b, n) /\ Gains(a, b, t, n)
  <2>1. CASE Req[t].type = "NEWTOKEN" /\ NewEffect(a, b, t)
    BY <1>1, <2>1, FungibleMint, MintGains
  <2>2. CASE Req[t].type = "XFERTOKEN" /\ XferEffect(a, b, t)
    BY <1>1, <1>2, <1>3, <2>2, TotalFits, FungibleTransfer
  <2> QED BY <2>1, <2>2 DEF Effect
<1>5. Total(b, n) = Total(a, n) + CreatesOf(t, n)
  BY <1>3, <1>4, TotalStep
<1> QED BY <1>1, <1>2, <1>4, <1>5 DEF ConservedIn

LEMMA ConservedStep == Ok /\ ConservedOK /\ [Next]_vars => ConservedOK'
<1> SUFFICES ASSUME Ok, ConservedOK, [Next]_vars, NEW x \in Node, NEW n \in Name,
                    FewMinted(n), Fungible(n), NoneToSelf(saved'[x])
             PROVE  ConservedIn(acct'[x], saved'[x], n)
  BY DEF ConservedOK
<1> DEFINE a == acct[x]
           b == acct'[x]
           S == saved[x]
           T == saved'[x]
<1>1. /\ a \in [User -> Account] /\ b \in [User -> Account] /\ S \in SUBSET Trxn
      /\ \/ b = a /\ T = S
         \/ \E t \in Trxn : t \notin S /\ T = S \cup {t} /\ Effect(a, b, t)
  BY StepIs
<1>2. NoneToSelf(S) => ConservedIn(a, S, n)
  BY DEF ConservedOK
<1>3. NoneToSelf(T)
  OBVIOUS
<1> HIDE DEF a, b, S, T
<1>4. NoneToSelf(S)
  BY <1>1, <1>3 DEF NoneToSelf
<1>5. ConservedIn(b, T, n)
  BY <1>1, <1>2, <1>3, <1>4, ConservedEffect
<1> QED BY <1>5 DEF b, T

LEMMA ConservedInit == Init => ConservedOK
<1> SUFFICES ASSUME Init, NEW x \in Node, NEW n
             PROVE  ConservedIn(acct[x], saved[x], n)
  BY DEF ConservedOK
<1> DEFINE f == [u \in User |-> HeldIn(acct[x][u].tokens, n)]
<1>1. saved[x] = {} /\ \A u \in User : acct[x][u].tokens = <<>>
  BY DEF Init
<1>2. \A u \in User : Places(acct[x][u].tokens, n) = {}
  BY <1>1 DEF Places
<1>3. \A u \in User : f[u] = 0
  BY <1>2, SumEmpty DEF HeldIn
<1>4. Total(acct[x], n) = SumFunctionOnSet(f, User)
  BY DEF Total
<1> HIDE DEF f
<1>5. Total(acct[x], n) = 0
  BY <1>3, <1>4, FiniteAssumption, SumZero
<1>6. CreatedBy(saved[x], n) = 0
  BY <1>1, SumEmpty DEF CreatedBy
<1> QED BY <1>2, <1>5, <1>6 DEF ConservedIn, AllOf, AllFungible, Has

LEMMA AlwaysConserved == Spec => []ConservedOK
BY AlwaysOk, ConservedInit, ConservedStep, PTL DEF Spec

\* At every node what all have of a token there are several of is what the saved
\* requests have created, if that is never more than six digits.
THEOREM TokensKept ==
  ASSUME \A n \in Name : FewMinted(n)
  PROVE  Spec => []TokensConserved
<1>1. ConservedOK => TokensConserved
  <2> SUFFICES ASSUME ConservedOK, NEW x \in Node, NEW n \in Name,
                      Fungible(n), ToSelf(x) = {}
               PROVE  SumFunctionOnSet([u \in User |-> Held(x, u, n)], User)
                        = SumFunctionOnSet([t \in Trxn |-> AmountOf(t, n)],
                                           Mints(n) \cap saved[x])
    BY DEF TokensConserved
  <2>1. NoneToSelf(saved[x])
    BY DEF NoneToSelf, ToSelf
  <2>2. ConservedIn(acct[x], saved[x], n)
    BY <2>1 DEF ConservedOK
  <2> QED BY <2>2 DEF ConservedIn, Total, CreatedBy, Amt, Held
<1> QED BY <1>1, AlwaysConserved, PTL

-----------------------------------------------------------------------------
(* Replicas: what a user has is determined by the set of saved requests.    *)

GainOf(u, n) == [t \in Trxn |-> Gain(t, u, n)]
Sent(u) == [t \in Trxn |-> IF /\ Req[t].type = "XFERTOKEN"
                              /\ Req[t].from = u /\ Req[t].to # u THEN 1 ELSE 0]
Got(u) == [t \in Trxn |-> IF Req[t].type = "XFERTOKEN" /\ Req[t].to = u
                          THEN 1 ELSE 0]

CountsIn(a, S) ==
  \A u \in User : /\ a[u].out = SumFunctionOnSet(Sent(u), S)
                  /\ a[u].in = SumFunctionOnSet(Got(u), S)
HoldingsIn(a, S, n) ==
  \A u \in User : HeldIn(a[u].tokens, n) = SumFunctionOnSet(GainOf(u, n), S)

NoSelfTransfer == \A t \in Trxn : Req[t].type = "XFERTOKEN" => Req[t].from # Req[t].to

\* All that is ever created or transferred of a token is a number of six digits.
FewMoved(n) == SumFunctionOnSet(Amt(n), Trxn) < SixDigits

\* No balance of the token gets too large to be stored exactly.
Exact(n) == FewMoved(n) \/ (FewMinted(n) /\ NoSelfTransfer)

\* Nobody gains more than a request moves.
LEMMA GainIs ==
  ASSUME NEW t \in Trxn, NEW u, NEW n
  PROVE  Gain(t, u, n) \in Int /\ Gain(t, u, n) <= AmountOf(t, n)
<1>1. AmountOf(t, n) \in Nat
  BY RequestIs
<1> DEFINE m == AmountOf(t, n)
<1>2. Gain(t, u, n) \in {m, -m, 0}
  BY DEF Gain
<1> HIDE DEF m
<1>3. m \in Nat
  BY <1>1 DEF m
<1> QED BY <1>2, <1>3 DEF m

\* Sums over the saved requests grow by the request that is saved.
LEMMA HoldingsStep ==
  ASSUME NEW a \in [User -> Account], NEW b \in [User -> Account], NEW n,
         NEW S \in SUBSET Trxn, NEW t \in Trxn, t \notin S,
         Gains(a, b, t, n), HoldingsIn(a, S, n)
  PROVE  HoldingsIn(b, S \cup {t}, n)
<1> SUFFICES ASSUME NEW u \in User
             PROVE  HeldIn(b[u].tokens, n) = SumFunctionOnSet(GainOf(u, n), S \cup {t})
  BY DEF HoldingsIn
<1> DEFINE f == GainOf(u, n)
<1>1. \A s \in Trxn : f[s] = Gain(s, u, n) /\ f[s] \in Int
  BY GainIs DEF GainOf
<1>2. IsFiniteSet(S)
  BY AmtType
<1>3. HeldIn(a[u].tokens, n) = SumFunctionOnSet(f, S)
  BY DEF HoldingsIn
<1>4. HeldIn(b[u].tokens, n) = HeldIn(a[u].tokens, n) + f[t]
  BY <1>1 DEF Gains
<1>5. HeldIn(a[u].tokens, n) \in Nat
  BY WalletOf
<1> HIDE DEF f
<1>6. SumFunctionOnSet(f, S \cup {t}) = f[t] + SumFunctionOnSet(f, S)
  BY <1>1, <1>2, SumAdd
<1>7. SumFunctionOnSet(f, S \cup {t}) = HeldIn(b[u].tokens, n)
  BY <1>1, <1>3, <1>4, <1>5, <1>6
<1> QED BY <1>7 DEF f

LEMMA CountsStep ==
  ASSUME NEW a \in [User -> Account], NEW b \in [User -> Account],
         NEW S \in SUBSET Trxn, NEW t \in Trxn, t \notin S,
         Effect(a, b, t), CountsIn(a, S)
  PROVE  CountsIn(b, S \cup {t})
<1> SUFFICES ASSUME NEW u \in User
             PROVE  /\ b[u].out = SumFunctionOnSet(Sent(u), S \cup {t})
                    /\ b[u].in = SumFunctionOnSet(Got(u), S \cup {t})
  BY DEF CountsIn
<1> DEFINE f == Sent(u)
           g == Got(u)
<1>1. /\ \A s \in Trxn : f[s] \in Int /\ g[s] \in Int
      /\ f[t] = IF Req[t].type = "XFERTOKEN" /\ Req[t].from = u /\ Req[t].to # u
                THEN 1 ELSE 0
      /\ g[t] = IF Req[t].type = "XFERTOKEN" /\ Req[t].to = u THEN 1 ELSE 0
  BY DEF Sent, Got
<1>2. IsFiniteSet(S)
  BY AmtType
<1>3. a[u].out = SumFunctionOnSet(f, S) /\ a[u].in = SumFunctionOnSet(g, S)
  BY DEF CountsIn
<1>4. a[u].out \in Nat /\ a[u].in \in Nat
  BY DEF Account
<1>5. b[u].out = a[u].out + f[t] /\ b[u].in = a[u].in + g[t]
  <2>1. CASE Req[t].type = "NEWTOKEN" /\ NewEffect(a, b, t)
    <3>1. b[u].out = a[u].out /\ b[u].in = a[u].in
      BY <2>1 DEF NewEffect
    <3>2. f[t] = 0 /\ g[t] = 0
      BY <1>1, <2>1
    <3> HIDE DEF f, g
    <3> QED BY <1>4, <3>1, <3>2
  <2>2. CASE Req[t].type = "XFERTOKEN" /\ XferEffect(a, b, t)
    <3> DEFINE y == Req[t].from
               z == Req[t].to
    <3>1. /\ u # y /\ u # z => b[u] = a[u]
          /\ b[z].out = a[z].out /\ b[z].in = a[z].in + 1
          /\ y # z => b[y].out = a[y].out + 1 /\ b[y].in = a[y].in
      BY <2>2 DEF XferEffect
    <3>2. /\ f[t] = IF y = u /\ z # u THEN 1 ELSE 0
          /\ g[t] = IF z = u THEN 1 ELSE 0
      BY <1>1, <2>2
    <3> HIDE DEF f, g, y, z
    <3>3. CASE u = z
      BY <1>4, <3>1, <3>2, <3>3
    <3>4. CASE u # z /\ u = y
      BY <1>4, <3>1, <3>2, <3>4
    <3>5. CASE u # z /\ u # y
      BY <1>4, <3>1, <3>2, <3>5
    <3> QED BY <3>3, <3>4, <3>5
  <2> QED BY <2>1, <2>2 DEF Effect
<1> HIDE DEF f, g
<1>6. /\ SumFunctionOnSet(f, S \cup {t}) = f[t] + SumFunctionOnSet(f, S)
      /\ SumFunctionOnSet(g, S \cup {t}) = g[t] + SumFunctionOnSet(g, S)
  BY <1>1, <1>2, SumAdd
<1>7. /\ SumFunctionOnSet(f, S \cup {t}) = b[u].out
      /\ SumFunctionOnSet(g, S \cup {t}) = b[u].in
  BY <1>1, <1>3, <1>4, <1>5, <1>6
<1> QED BY <1>7 DEF f, g

\* What is held is at most what has been moved so far.
LEMMA MovedFits ==
  ASSUME NEW a \in [User -> Account], NEW n, NEW S \in SUBSET Trxn, NEW t \in Trxn,
         t \notin S, HoldingsIn(a, S, n), FewMoved(n)
  PROVE  Fits(a, t, n)
<1> DEFINE f == Amt(n)
           sum == SumFunctionOnSet(f, S)
<1>1. IsFiniteSet(S) /\ \A s \in Trxn : f[s] = AmountOf(s, n) /\ f[s] \in Nat
  BY AmtType
<1>2. ASSUME NEW u \in User PROVE HeldIn(a[u].tokens, n) <= sum
  <2> DEFINE g == GainOf(u, n)
  <2>1. \A s \in S : g[s] \in Int /\ g[s] <= AmountOf(s, n)
    BY GainIs DEF GainOf
  <2>2. HeldIn(a[u].tokens, n) = SumFunctionOnSet(g, S)
    BY DEF HoldingsIn
  <2>3. \A s \in S : g[s] \in Int /\ f[s] \in Int /\ g[s] <= f[s]
    BY <1>1, <2>1
  <2> HIDE DEF f, g
  <2> QED BY <1>1, <2>2, <2>3, SumLess
<1>3. SumFunctionOnSet(f, Trxn) < SixDigits
  BY DEF FewMoved
<1> HIDE DEF f
<1>4. sum \in Nat
  BY <1>1, SumNat
<1>5. SumFunctionOnSet(f, S \cup {t}) = f[t] + sum
  <2>1. \A s \in S \cup {t} : f[s] \in Int
    BY <1>1
  <2> QED BY <1>1, <2>1, SumAdd
<1>6. SumFunctionOnSet(f, S \cup {t}) <= SumFunctionOnSet(f, Trxn)
  BY <1>1, FiniteAssumption, SumSubset
<1>7. SumFunctionOnSet(f, Trxn) \in Nat
  BY <1>1, FiniteAssumption, SumNat
<1> HIDE DEF sum
<1>8. f[t] \in Nat /\ f[t] = AmountOf(t, n)
  BY <1>1
<1>9. f[t] + sum < SixDigits
  BY <1>3, <1>4, <1>5, <1>6, <1>7, <1>8, StoredIs
<1>10. ASSUME NEW u \in User
       PROVE  /\ HeldIn(a[u].tokens, n) < SixDigits
              /\ HeldIn(a[u].tokens, n) + AmountOf(t, n) < SixDigits
  <2>1. HeldIn(a[u].tokens, n) \in Nat /\ HeldIn(a[u].tokens, n) <= sum
    BY <1>2, WalletOf
  <2> QED BY <1>4, <1>8, <1>9, <2>1, StoredIs
<1>11. Req[t].from \in User /\ Req[t].to \in User
  BY RequestIs
<1> QED BY <1>10, <1>11 DEF Fits

\* A name there is one request for is an NFT's or a fungible token's.
LEMMA OneMint ==
  ASSUME NEW n, ~Fungible(n), Cardinality(Mints(n)) = 1, NEW S \in SUBSET Trxn
  PROVE  NftSoFar(S, n)
<1>1. IsFiniteSet(Mints(n))
  BY AmtType
<1>2. PICK t : Mints(n) = {t}
  <2> DEFINE M == Mints(n)
  <2>1. IsFiniteSet(M) /\ Cardinality(M) = 1
    BY <1>1
  <2> HIDE DEF M
  <2>2. \E s : M = {s}
    BY <2>1, FS_Singleton
  <2> QED BY <2>2 DEF M
<1> DEFINE req == Req[t].items
           m == req[Find(req, n)].amount
<1>3. ~(m > 1)
  BY <1>2 DEF Fungible
<1>4. t \in Trxn /\ Places(req, n) # {}
  <2>1. t \in Mints(n)
    BY <1>2
  <2> QED BY <2>1 DEF Mints
<1>5. m \in Nat \ {0}
  <2>1. req \in Seq(Item)
    BY <1>4, RequestIs
  <2>2. Find(req, n) \in Places(req, n)
    BY <1>4, <2>1, FindIs
  <2>3. req[Find(req, n)] \in Item
    BY <2>1, <2>2 DEF Places
  <2> QED BY <2>3 DEF Item
<1> HIDE DEF m
<1>6. m = 1
  BY <1>3, <1>5
<1> QED BY <1>2, <1>6 DEF NftSoFar, m, req

ReplicaIn(a, S, n) ==
  /\ Fungible(n) /\ Exact(n) => AllOf(a, n) /\ HoldingsIn(a, S, n)
  /\ ~Fungible(n) /\ Cardinality(Mints(n)) = 1 => HoldingsIn(a, S, n)

ReplicaOK ==
  \A x \in Node : /\ CountsIn(acct[x], saved[x])
                  /\ \A n \in Name : ReplicaIn(acct[x], saved[x], n)

LEMMA ReplicaEffect ==
  ASSUME NEW a \in [User -> Account], NEW b \in [User -> Account], NEW n,
         NEW S \in SUBSET Trxn, NEW t \in Trxn, t \notin S, Effect(a, b, t),
         NftSoFar(S, n) => HeldByOne(a, S, n),
         FewMinted(n) /\ Fungible(n) /\ NoneToSelf(S) => ConservedIn(a, S, n),
         ReplicaIn(a, S, n)
  PROVE  ReplicaIn(b, S \cup {t}, n)
<1>2. ASSUME Fungible(n), Exact(n)
      PROVE  AllOf(b, n) /\ HoldingsIn(b, S \cup {t}, n)
  <2>1. AllOf(a, n) /\ HoldingsIn(a, S, n)
    BY <1>2 DEF ReplicaIn
  <2>2. AllOf(b, n) /\ Gains(a, b, t, n)
    <3>1. CASE Req[t].type = "NEWTOKEN" /\ NewEffect(a, b, t)
      BY <1>2, <2>1, <3>1, FungibleMint, MintGains
    <3>2. CASE Req[t].type = "XFERTOKEN" /\ XferEffect(a, b, t)
      <4>1. CASE FewMoved(n)
        BY <1>2, <2>1, <3>2, <4>1, MovedFits, FungibleTransfer
      <4>2. CASE FewMinted(n) /\ NoSelfTransfer
        <5>1. NoneToSelf(S) /\ Req[t].from # Req[t].to
          BY <3>2, <4>2 DEF NoneToSelf, NoSelfTransfer
        <5>2. Total(a, n) < SixDigits
          BY <1>2, <4>2, <5>1, CreatedBound DEF ConservedIn
        <5>3. Fits(a, t, n)
          BY <5>1, <5>2, TotalFits
        <5> QED BY <1>2, <2>1, <3>2, <5>3, FungibleTransfer
      <4> QED BY <1>2, <4>1, <4>2 DEF Exact
    <3> QED BY <3>1, <3>2 DEF Effect
  <2> QED BY <2>1, <2>2, HoldingsStep
<1>3. ASSUME ~Fungible(n), Cardinality(Mints(n)) = 1
      PROVE  HoldingsIn(b, S \cup {t}, n)
  <2>1. HoldingsIn(a, S, n)
    BY <1>3 DEF ReplicaIn
  <2>2. HeldByOne(a, S, n)
    BY <1>3, OneMint
  <2>3. Gains(a, b, t, n)
    BY <1>3, <2>2, MintGains, NftTransfer DEF Effect
  <2> QED BY <2>1, <2>3, HoldingsStep
<1> QED BY <1>2, <1>3 DEF ReplicaIn

LEMMA ReplicaStep ==
  Ok /\ NftOK /\ ConservedOK /\ ReplicaOK /\ [Next]_vars => ReplicaOK'
<1> SUFFICES ASSUME Ok, NftOK, ConservedOK, ReplicaOK, [Next]_vars, NEW x \in Node
             PROVE  /\ CountsIn(acct'[x], saved'[x])
                    /\ \A n \in Name : ReplicaIn(acct'[x], saved'[x], n)
  BY DEF ReplicaOK
<1> DEFINE a == acct[x]
           b == acct'[x]
           S == saved[x]
           T == saved'[x]
<1>1. /\ a \in [User -> Account] /\ b \in [User -> Account] /\ S \in SUBSET Trxn
      /\ \/ b = a /\ T = S
         \/ \E t \in Trxn : t \notin S /\ T = S \cup {t} /\ Effect(a, b, t)
  BY StepIs
<1>2. ASSUME NEW n \in Name
      PROVE  /\ NftSoFar(S, n) => HeldByOne(a, S, n)
             /\ FewMinted(n) /\ Fungible(n) /\ NoneToSelf(S) => ConservedIn(a, S, n)
             /\ ReplicaIn(a, S, n)
  BY DEF NftOK, ConservedOK, ReplicaOK
<1>3. CountsIn(a, S)
  BY DEF ReplicaOK
<1> HIDE DEF a, b, S, T
<1>4. CountsIn(b, T)
  BY <1>1, <1>3, CountsStep
<1>5. ASSUME NEW n \in Name PROVE ReplicaIn(b, T, n)
  BY <1>1, <1>2, ReplicaEffect
<1> QED BY <1>4, <1>5 DEF b, T

LEMMA ReplicaInit == Init => ReplicaOK
<1> SUFFICES ASSUME Init, NEW x \in Node
             PROVE  /\ CountsIn(acct[x], saved[x])
                    /\ \A n \in Name : ReplicaIn(acct[x], saved[x], n)
  BY DEF ReplicaOK
<1>1. /\ saved[x] = {}
      /\ \A u \in User : /\ acct[x][u].tokens = <<>>
                         /\ acct[x][u].out = 0 /\ acct[x][u].in = 0
  BY DEF Init
<1>2. \A u \in User, n \in Name : Places(acct[x][u].tokens, n) = {}
  BY <1>1 DEF Places
<1>3. \A u \in User, n \in Name : HeldIn(acct[x][u].tokens, n) = 0
  BY <1>2, SumEmpty DEF HeldIn
<1>4. CountsIn(acct[x], saved[x])
  BY <1>1, SumEmpty DEF CountsIn
<1>5. \A n \in Name : HoldingsIn(acct[x], saved[x], n)
  BY <1>1, <1>3, SumEmpty DEF HoldingsIn
<1>6. \A n \in Name : AllOf(acct[x], n)
  BY <1>2 DEF AllOf, AllFungible, Has
<1> QED BY <1>4, <1>5, <1>6 DEF ReplicaIn

\* Nodes that have saved the same requests agree on the counts and on what
\* everybody has of every token that is one user's NFT or fungible, if nothing is
\* rounded: each of these is a sum over the requests a node has saved, and a sum
\* has no order.
THEOREM TokenReplicasSame ==
  ASSUME \A n \in Name : Exact(n)
  PROVE  Spec => []TokenReplicasAgree
<1>1. Spec => []ReplicaOK
  BY AlwaysOk, AlwaysNft, AlwaysConserved, ReplicaInit, ReplicaStep, PTL DEF Spec
<1>2. ReplicaOK => TokenReplicasAgree
  <2> SUFFICES ASSUME ReplicaOK, NEW x \in Node, NEW y \in Node, saved[x] = saved[y],
                      NEW u \in User
               PROVE  /\ acct[x][u].out = acct[y][u].out
                      /\ acct[x][u].in = acct[y][u].in
                      /\ \A n \in Name : Fungible(n) \/ Cardinality(Mints(n)) = 1 =>
                           Held(x, u, n) = Held(y, u, n)
    BY DEF TokenReplicasAgree
  <2>1. \A n \in Name : ReplicaIn(acct[x], saved[x], n) /\ ReplicaIn(acct[y], saved[y], n)
    BY DEF ReplicaOK
  <2>2. CountsIn(acct[x], saved[x]) /\ CountsIn(acct[y], saved[y])
    BY DEF ReplicaOK
  <2>3. ASSUME NEW n \in Name, Fungible(n) \/ Cardinality(Mints(n)) = 1
        PROVE  Held(x, u, n) = Held(y, u, n)
    <3>1. HoldingsIn(acct[x], saved[x], n) /\ HoldingsIn(acct[y], saved[y], n)
      BY <2>1, <2>3 DEF ReplicaIn
    <3> QED BY <3>1 DEF HoldingsIn, Held
  <2> QED BY <2>2, <2>3 DEF CountsIn
<1> QED BY <1>1, <1>2, PTL
=============================================================================
