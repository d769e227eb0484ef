---------------------------- MODULE BlockMgrProofs ----------------------------
(***************************************************************************)
(* Facts about the ledger operators: what they return is a ledger, which of *)
(* its parts they leave alone, and that they keep the accounts Consistent   *)
(* with the block files.                                                    *)
(***************************************************************************)
EXTENDS BlockMgr, OperatorProofs

LEMMA NewAccountType == \A k \in Key : NoAccount \in Account /\ NewAccount(k) \in Account
BY KeyAssumption DEF NoAccount, NewAccount, Account, InitialBalance

LEMMA RequestType ==
  ASSUME NEW t \in Trxn
  PROVE  /\ Req[t].from \in User /\ Req[t].to \in User
         /\ Req[t].amount \in Nat /\ Req[t].key \in Key
         /\ Path[Req[t].from] \in Bucket /\ Path[Req[t].to] \in Bucket
BY ReqAssumption, PathAssumption DEF Request

LEMMA LedgerWithType ==
  ASSUME NEW S \in SUBSET User, NEW F \in [S -> Key]
  PROVE  LedgerWith(F) \in Ledger
<1>1. {Path[u] : u \in DOMAIN F} \in SUBSET Bucket
  BY PathAssumption
<1>2. \A u \in User : (IF u \in DOMAIN F THEN NewAccount(F[u]) ELSE NoAccount)
                        \in Account
  <2> TAKE u \in User
  <2>1. CASE u \in S
    BY <2>1, NewAccountType
  <2>2. CASE u \notin S
    BY <2>2, NewAccountType, KeyAssumption
  <2> QED BY <2>1, <2>2
<1>3. LedgerWith(F).acct \in [User -> Account]
  BY <1>2 DEF LedgerWith
<1> QED BY <1>1, <1>3 DEF LedgerWith, Ledger

LEMMA TouchType ==
  ASSUME NEW led \in Ledger, NEW u \in User
  PROVE  Touch(led, u) \in Ledger
BY PathAssumption DEF Touch, Ledger

LEMMA CheckedType ==
  ASSUME NEW led \in Ledger, NEW t \in Trxn
  PROVE  Checked(led, t) \in Ledger
BY TouchType, RequestType DEF Checked

LEMMA DebitedType ==
  ASSUME NEW a \in Account, NEW amt \in Nat, amt <= a.bal
  PROVE  Debited(a, amt) \in Account
<1>1. PICK v \in Nat : v = Stored(a.bal - amt)
  BY StoredType DEF Account
<1>2. PICK b \in Account : b = [a EXCEPT !.bal = v] /\ b.out = a.out
  <2>1. [a EXCEPT !.bal = v] \in Account
    BY DEF Account
  <2>2. [a EXCEPT !.bal = v].out = a.out
    BY DEF Account
  <2> QED BY <2>1, <2>2
<1>3. Debited(a, amt) = [b EXCEPT !.out = a.out + 1]
  BY <1>1, <1>2 DEF Debited
<1>4. [b EXCEPT !.out = b.out + 1] \in Account
  BY DEF Account
<1> QED BY <1>2, <1>3, <1>4

LEMMA CreditedType ==
  ASSUME NEW a \in Account, NEW amt \in Nat
  PROVE  Credited(a, amt) \in Account
<1>1. PICK v \in Nat : v = Stored(a.bal + amt)
  BY StoredType DEF Account
<1>2. PICK b \in Account : b = [a EXCEPT !.bal = v] /\ b.in = a.in
  <2>1. [a EXCEPT !.bal = v] \in Account
    BY DEF Account
  <2>2. [a EXCEPT !.bal = v].in = a.in
    BY DEF Account
  <2> QED BY <2>1, <2>2
<1>3. Credited(a, amt) = [b EXCEPT !.in = a.in + 1]
  BY <1>1, <1>2 DEF Credited
<1>4. [b EXCEPT !.in = b.in + 1] \in Account
  BY DEF Account
<1> QED BY <1>2, <1>3, <1>4

LEMMA AppendedType ==
  ASSUME NEW led \in Ledger, NEW t \in Trxn, NEW acct \in [User -> Account],
         NEW both \in BOOLEAN
  PROVE  Appended(led, t, acct, both) \in Ledger
BY RequestType DEF Appended, Ledger

LEMMA PayType ==
  ASSUME NEW led \in Ledger, NEW t \in Trxn, CanPay(led, t)
  PROVE  Pay(led, t) \in Ledger
<1> DEFINE r == Req[t]
           pair == [led.acct EXCEPT ![r.from] = Debited(@, r.amount)]
<1>1. led.acct \in [User -> Account]
  BY DEF Ledger
<1>2. Debited(led.acct[r.from], r.amount) \in Account
  BY <1>1, RequestType, DebitedType DEF CanPay, Account
<1>3. Credited(led.acct[r.to], r.amount) \in Account
  BY <1>1, RequestType, CreditedType
<1>4. [pair EXCEPT ![r.to] = Credited(led.acct[r.to], r.amount)]
        \in [User -> Account]
  BY <1>1, <1>2, <1>3, RequestType
<1> QED BY <1>4, AppendedType DEF Pay

LEMMA CreateType ==
  ASSUME NEW led \in Ledger, NEW t \in Trxn
  PROVE  Create(led, t) \in Ledger
<1>1. [led.acct EXCEPT ![Req[t].from] = NewAccount(Req[t].key)]
        \in [User -> Account]
  BY RequestType, NewAccountType DEF Ledger
<1> QED BY <1>1, AppendedType DEF Create

\* What saveTrxn leaves is a ledger.
LEMMA SavedType ==
  ASSUME NEW led \in Ledger, NEW t \in Trxn
  PROVE  Saved(led, t) \in Ledger
BY PayType, CreateType, TouchType, RequestType DEF Saved, Looked

\* Checking a transaction adds no record and saving it adds at most one of it
\* to either block file, and none of another transaction.
LEMMA CheckedRecords ==
  ASSUME NEW led \in Ledger, NEW t \in Trxn
  PROVE  Checked(led, t).debit = led.debit /\ Checked(led, t).credit = led.credit
BY DEF Checked, Touch, Ledger

LEMMA SavedRecords ==
  ASSUME NEW led \in Ledger, NEW t \in Trxn, NEW s \in Trxn
  PROVE  /\ Saved(led, t).debit[s] \in
              {led.debit[s], IF s = t THEN led.debit[s] + 1 ELSE led.debit[s]}
         /\ Saved(led, t).credit[s] \in
              {led.credit[s], IF s = t THEN led.credit[s] + 1 ELSE led.credit[s]}
BY DEF Saved, Looked, Pay, Create, Appended, Touch, Ledger

\* saveTrxn returning 0 means that the sender's block file has a record of it.
LEMMA SavesRecord ==
  ASSUME NEW led \in Ledger, NEW t \in Trxn, Saves(led, t)
  PROVE  Recorded(Saved(led, t), t)
<1>1. led.debit \in [Trxn -> Nat]
  BY DEF Ledger
<1>2. Req[t].type = "PAYMENT" \/ Req[t].type = "NEWACCT"
  BY ReqAssumption DEF Request, TrxnType
<1>3. Saved(led, t).debit[t] = led.debit[t] + 1
  BY <1>1, <1>2 DEF Saves, Saved, Pay, Create, Appended
<1> QED BY <1>1, <1>3 DEF Recorded

-----------------------------------------------------------------------------
(* Rounding.                                                                *)

\* A balance below another one is stored with half of the other's last digit.
LEMMA StoredNear ==
  ASSUME NEW x \in Nat, NEW m \in Nat, x <= m
  PROVE  /\ Stored(x) \in (x - Quantum(m) \div 2)..(x + Quantum(m) \div 2)
         /\ Quantum(m) \div 2 \in Nat
<1>1. /\ Quantum(x) \in LastDigits /\ Quantum(m) \in LastDigits
      /\ Quantum(x) <= Quantum(m)
  BY QuantumIs, QuantumGrows
<1>2. PICK q \in Nat : q = Quantum(x)
  BY <1>1, WeightType
<1>3. PICK p \in Nat : p = Quantum(m)
  BY <1>1, WeightType
<1>4. q \div 2 <= p \div 2 /\ q \div 2 \in Nat /\ p \div 2 \in Nat
  BY <1>1, <1>2, <1>3
<1>5. Stored(x) \in (x - q \div 2)..(x + q \div 2)
  BY <1>1, <1>2, RoundedNear DEF Stored
<1> QED BY <1>3, <1>4, <1>5

\* f is what all accounts can hold together after up to k payments.
Mosts(f, k) ==
  f = [n \in 0..k |-> IF n = 0 THEN InitialBalance * Cardinality(User)
                               ELSE f[n - 1] + Quantum(f[n - 1])]

\* This recursive function exists too.
LEMMA MostExists ==
  ASSUME NEW n \in Nat
  PROVE  \E f : Mosts(f, n)
<1> DEFINE S == {k \in 0..n : \E f : Mosts(f, k)}
           all == InitialBalance * Cardinality(User)
<1>1. 0 \in S
  <2>1. Mosts([i \in 0..0 |-> all], 0)
    BY DEF Mosts
  <2> QED BY <2>1
<1>2. ASSUME NEW k \in 1..n, k - 1 \in S PROVE k \in S
  <2>1. PICK f : Mosts(f, k - 1)
    BY <1>2
  <2> DEFINE g == [i \in 0..k |-> IF i < k THEN f[i]
                                  ELSE f[k - 1] + Quantum(f[k - 1])]
  <2>2. Mosts(g, k)
    <3>1. g[0] = all
      BY <2>1 DEF Mosts
    <3>2. \A i \in 1..k : g[i] = g[i - 1] + Quantum(g[i - 1])
      <4> TAKE i \in 1..k
      <4>1. CASE i < k
        <5>1. f[i] = f[i - 1] + Quantum(f[i - 1])
          <6>1. i \in 0..(k - 1) /\ i # 0
            BY <4>1
          <6> QED BY <2>1, <6>1 DEF Mosts
        <5>2. g[i] = f[i] /\ g[i - 1] = f[i - 1]
          BY <4>1
        <5> QED BY <5>1, <5>2
      <4>2. CASE i = k
        BY <4>2
      <4> QED BY <4>1, <4>2
    <3>3. g = [i \in 0..k |-> g[i]]
      OBVIOUS
    <3> HIDE DEF g
    <3>4. \A i \in 0..k : g[i] = IF i = 0 THEN all ELSE g[i - 1] + Quantum(g[i - 1])
      <4>1. \A i \in 0..k : i # 0 => i \in 1..k
        OBVIOUS
      <4> HIDE DEF all
      <4> QED BY <3>1, <3>2, <4>1, Zenon
    <3> QED BY <3>3, <3>4, Zenon DEF Mosts
  <2> QED BY <2>2
<1> HIDE DEF S
<1>3. S \in SUBSET (0..n)
  BY DEF S
<1>4. n \in S
  BY <1>1, <1>2, <1>3, UpTo
<1> QED BY <1>4 DEF S

\* What can be held grows with each payment by one last digit.
LEMMA MostIs ==
  LET N == Cardinality(Trxn)
  IN  /\ N \in Nat
      /\ Most[0] = InitialBalance * Cardinality(User)
      /\ \A n \in 0..N : Most[n] \in Nat
      /\ \A n \in 1..N : Most[n] = Most[n - 1] + Quantum(Most[n - 1])
      /\ \A n \in 0..N : Most[n] <= LargestBalance
<1> DEFINE N == Cardinality(Trxn)
<1>1. N \in Nat /\ Cardinality(User) \in Nat
  BY FiniteAssumption, FS_CardinalityType
<1>2. Mosts(Most, N)
  <2>1. \E f : Mosts(f, N)
    BY <1>1, MostExists
  <2>2. Mosts(CHOOSE f : Mosts(f, N), N)
    BY <2>1, Zenon
  <2> QED BY <2>2 DEF Most, Mosts
<1> HIDE DEF N
<1>3. /\ Most[0] = InitialBalance * Cardinality(User)
      /\ \A n \in 1..N : Most[n] = Most[n - 1] + Quantum(Most[n - 1])
  <2>1. 0 \in 0..N /\ \A n \in 1..N : n \in 0..N /\ n # 0
    BY <1>1
  <2> QED BY <1>2, <2>1 DEF Mosts
<1>4. \A n \in 0..N : Most[n] \in Nat
  <2> DEFINE S == {n \in 0..N : Most[n] \in Nat}
  <2>1. 0 \in S
    BY <1>1, <1>3 DEF InitialBalance
  <2>2. ASSUME NEW n \in 1..N, n - 1 \in S PROVE n \in S
    <3>1. Most[n] = Most[n - 1] + Quantum(Most[n - 1]) /\ Most[n - 1] \in Nat
      BY <1>3, <2>2
    <3>2. Quantum(Most[n - 1]) \in Nat
      BY <3>1, QuantumIs, WeightType
    <3> QED BY <1>1, <3>1, <3>2
  <2> HIDE DEF S
  <2>3. S \in SUBSET (0..N)
    BY DEF S
  <2>4. \A n \in 0..N : n \in S
    BY <1>1, <2>1, <2>2, <2>3, UpTo
  <2> QED BY <2>4 DEF S
<1>5. \A n \in 0..N : Most[n] <= Most[N]
  <2> TAKE n \in 0..N
  <2> DEFINE S == {k \in 0..(N - n) : Most[n] <= Most[n + k]}
  <2>1. 0 \in S
    BY <1>1, <1>4
  <2>2. ASSUME NEW k \in 1..(N - n), k - 1 \in S PROVE k \in S
    <3>1. /\ n + k \in 1..N /\ (n + k) - 1 = n + (k - 1)
          /\ n + k \in 0..N /\ n + (k - 1) \in 0..N
      BY <1>1
    <3>2. Most[n + k] = Most[n + (k - 1)] + Quantum(Most[n + (k - 1)])
      BY <1>3, <3>1
    <3>3. Most[n + (k - 1)] \in Nat /\ Most[n] \in Nat
      BY <1>4, <3>1
    <3>4. Quantum(Most[n + (k - 1)]) \in Nat
      BY <3>3, QuantumIs, WeightType
    <3>5. Most[n] <= Most[n + (k - 1)]
      BY <2>2
    <3>6. Most[n] <= Most[n + k]
      BY <3>2, <3>3, <3>4, <3>5
    <3> QED BY <1>1, <3>6
  <2> HIDE DEF S
  <2>3. S \in SUBSET (0..(N - n)) /\ N - n \in Nat
    BY <1>1 DEF S
  <2>4. N - n \in S
    BY <2>1, <2>2, <2>3, UpTo
  <2> QED BY <1>1, <2>4 DEF S
<1> QED BY <1>1, <1>3, <1>4, <1>5 DEF LargestBalance, N

LEMMA HalfDigitType == /\ LargestBalance \in Nat
                       /\ LastDigit \in Nat /\ HalfDigit \in Nat
                       /\ 2 * HalfDigit <= LastDigit
<1>1. LargestBalance \in Nat
  BY MostIs DEF LargestBalance
<1>2. LastDigit \in Nat
  BY <1>1, QuantumIs, WeightType DEF LastDigit
<1> QED BY <1>1, <1>2 DEF HalfDigit

-----------------------------------------------------------------------------
(* The sums of the records.                                                 *)

Amounts(d) == [t \in Trxn |-> d[t] * Req[t].amount]

\* One more record of t.
LEMMA OneMoreRecord ==
  ASSUME NEW d \in [Trxn -> Nat], NEW t \in Trxn, NEW S \in SUBSET Trxn
  PROVE  LET e == [d EXCEPT ![t] = @ + 1]
         IN  /\ SumFunctionOnSet(e, S) =
                  SumFunctionOnSet(d, S) + (IF t \in S THEN 1 ELSE 0)
             /\ SumFunctionOnSet(Amounts(e), S) =
                  SumFunctionOnSet(Amounts(d), S)
                    + (IF t \in S THEN Req[t].amount ELSE 0)
<1> DEFINE e == [d EXCEPT ![t] = @ + 1]
<1>1. IsFiniteSet(S)
  BY FiniteAssumption, FS_Subset
<1>2. \A s \in Trxn : d[s] \in Nat /\ Req[s].amount \in Nat
  BY RequestType
<1>3. \A s \in Trxn : d[s] * Req[s].amount \in Nat
  <2>1. \A i, j \in Nat : i * j \in Nat
    OBVIOUS
  <2> QED BY <1>2, <2>1
<1>4. \A s \in Trxn : Amounts(d)[s] \in Int /\ Amounts(d)[s] = d[s] * Req[s].amount
  BY <1>3 DEF Amounts
<1>5. /\ e[t] = d[t] + 1 /\ Amounts(e)[t] = d[t] * Req[t].amount + Req[t].amount
      /\ \A s \in Trxn : s # t => e[s] = d[s] /\ Amounts(e)[s] = Amounts(d)[s]
  <2>1. e[t] = d[t] + 1 /\ \A s \in Trxn : s # t => e[s] = d[s]
    OBVIOUS
  <2>2. \A i, j \in Nat : (i + 1) * j = i * j + j
    OBVIOUS
  <2>3. Amounts(e)[t] = e[t] * Req[t].amount
    BY DEF Amounts
  <2>4. \A s \in Trxn : s # t => Amounts(e)[s] = Amounts(d)[s]
    BY <2>1 DEF Amounts
  <2> HIDE DEF e
  <2> QED BY <1>2, <2>1, <2>2, <2>3, <2>4
<1> HIDE DEF e
<1>6. CASE t \in S
  <2>1. SumFunctionOnSet(e, S) = SumFunctionOnSet(d, S) - d[t] + e[t]
    BY <1>1, <1>2, <1>5, <1>6, SumChange
  <2>2. SumFunctionOnSet(Amounts(e), S)
          = SumFunctionOnSet(Amounts(d), S) - Amounts(d)[t] + Amounts(e)[t]
    <3>1. Amounts(e)[t] \in Int
      BY <1>2, <1>3, <1>5
    <3> QED BY <1>1, <1>4, <1>5, <1>6, <3>1, SumChange
  <2>3. SumFunctionOnSet(d, S) \in Int /\ SumFunctionOnSet(Amounts(d), S) \in Int
    BY <1>1, <1>2, <1>4, SumInt
  <2> QED BY <1>2, <1>3, <1>4, <1>5, <1>6, <2>1, <2>2, <2>3 DEF e
<1>7. CASE t \notin S
  <2>1. SumFunctionOnSet(e, S) = SumFunctionOnSet(d, S)
    BY <1>1, <1>5, <1>7, SumSame
  <2>2. SumFunctionOnSet(Amounts(e), S) = SumFunctionOnSet(Amounts(d), S)
    BY <1>1, <1>5, <1>7, SumSame
  <2>3. SumFunctionOnSet(d, S) \in Int /\ SumFunctionOnSet(Amounts(d), S) \in Int
    BY <1>1, <1>2, <1>4, SumInt
  <2> QED BY <1>7, <2>1, <2>2, <2>3 DEF e
<1> QED BY <1>6, <1>7

-----------------------------------------------------------------------------
(* What all accounts hold.                                                  *)

Balances(acct) == [u \in User |-> acct[u].bal]

LEMMA OpenedFinite ==
  ASSUME NEW acct
  PROVE  /\ Opened(acct) \in SUBSET User /\ IsFiniteSet(Opened(acct))
         /\ Cardinality(Opened(acct)) \in Nat
         /\ Cardinality(Opened(acct)) <= Cardinality(User)
<1>1. Opened(acct) \in SUBSET User
  BY DEF Opened
<1> QED BY <1>1, FiniteAssumption, FS_Subset, FS_CardinalityType

LEMMA BalancesType ==
  ASSUME NEW acct \in [User -> Account]
  PROVE  /\ \A u \in User : Balances(acct)[u] \in Nat
         /\ \A u \in User : Balances(acct)[u] = acct[u].bal
         /\ Total(acct) = SumFunctionOnSet(Balances(acct), Opened(acct))
         /\ Total(acct) \in Nat
<1>1. \A u \in User : Balances(acct)[u] \in Nat /\ Balances(acct)[u] = acct[u].bal
  BY DEF Balances, Account
<1>2. Total(acct) = SumFunctionOnSet(Balances(acct), Opened(acct))
  BY DEF Total, Balances
<1> QED BY <1>1, <1>2, OpenedFinite, SumNat

LEMMA TwoHold ==
  ASSUME NEW acct \in [User -> Account], NEW u \in Opened(acct),
         NEW v \in Opened(acct), u # v
  PROVE  acct[u].bal + acct[v].bal <= Total(acct)
<1>1. Balances(acct)[u] + Balances(acct)[v] <= Total(acct)
  BY BalancesType, OpenedFinite, SumOfTwo
<1> QED BY <1>1, BalancesType, OpenedFinite

LEMMA TotalOfTwo ==
  ASSUME NEW acct \in [User -> Account], NEW new \in [User -> Account],
         NEW u \in Opened(acct), NEW v \in Opened(acct), u # v,
         Opened(new) = Opened(acct),
         \A w \in User : w # u /\ w # v => new[w] = acct[w]
  PROVE  Total(new) = Total(acct) - acct[u].bal - acct[v].bal
                        + new[u].bal + new[v].bal
<1> DEFINE f == Balances(acct)
           g == Balances(new)
<1>1. \A x \in User : f[x] \in Int /\ g[x] \in Int
  BY BalancesType
<1>2. \A x \in User : x # u /\ x # v => g[x] = f[x]
  BY BalancesType
<1>3. SumFunctionOnSet(g, Opened(acct)) =
        SumFunctionOnSet(f, Opened(acct)) - f[u] - f[v] + g[u] + g[v]
  <2> HIDE DEF f, g
  <2> QED BY <1>1, <1>2, OpenedFinite, SumChangeTwo
<1> QED BY <1>3, BalancesType, OpenedFinite

-----------------------------------------------------------------------------
(* What the account store and the block files of a node say of each other   *)
(* when it has started with the accounts in F.                              *)

RecordOK(led, F, t) ==
  IF t \in Payments
  THEN /\ led.credit[t] = led.debit[t]
       /\ led.debit[t] > 0 => Exists(led, Req[t].from) /\ Exists(led, Req[t].to)
  ELSE led.debit[t] > 0 => /\ Exists(led, Req[t].from)
                           /\ led.acct[Req[t].from].key = Req[t].key
                           /\ Req[t].from \notin DOMAIN F

Opens(led, t, u) == t \notin Payments /\ Req[t].from = u /\ led.debit[t] > 0

AccountOK(led, F, u) ==
  /\ u \in DOMAIN F => Exists(led, u) /\ led.acct[u].key = F[u]
  /\ IF Exists(led, u)
     THEN /\ Path[u] \in led.files
          /\ u \in DOMAIN F \/ \E t \in Trxn : Opens(led, t, u)
     ELSE led.acct[u] = NoAccount

Exact(led, u) == InitialBalance + Received(led, u) - Paid(led, u)
Updates(led, u) == NumPaid(led, u) + NumReceived(led, u)

BalanceOK(led, u) ==
  Exists(led, u) =>
    /\ led.acct[u].bal <= Exact(led, u) + HalfDigit * Updates(led, u)
    /\ led.acct[u].bal >= Exact(led, u) - HalfDigit * Updates(led, u)
    /\ led.acct[u].out = NumPaid(led, u)
    /\ led.acct[u].in = NumReceived(led, u)

Applied(led) == {t \in Payments : led.debit[t] > 0}

\* What the users without an account are still to get.
Unopened(acct) == InitialBalance * (Cardinality(User) - Cardinality(Opened(acct)))

MoneyOK(led) ==
  Total(led.acct) + Unopened(led.acct) <= Most[Cardinality(Applied(led))]

Consistent(led, F) ==
  /\ \A t \in Trxn : RecordOK(led, F, t)
  /\ \A u \in User : AccountOK(led, F, u)
  /\ \A u \in User : BalanceOK(led, u)
  /\ MoneyOK(led)

LEMMA PaidSets ==
  ASSUME NEW u
  PROVE  /\ PaidBy(u) \in SUBSET Trxn /\ PaidTo(u) \in SUBSET Trxn
         /\ IsFiniteSet(PaidBy(u)) /\ IsFiniteSet(PaidTo(u))
<1>1. PaidBy(u) \in SUBSET Trxn /\ PaidTo(u) \in SUBSET Trxn
  BY DEF PaidBy, PaidTo, Payments
<1> QED BY <1>1, FiniteAssumption, FS_Subset

LEMMA RecordSumsType ==
  ASSUME NEW led \in Ledger, NEW u
  PROVE  /\ NumPaid(led, u) \in Nat /\ NumReceived(led, u) \in Nat
         /\ Paid(led, u) \in Nat /\ Received(led, u) \in Nat
         /\ Paid(led, u) = SumFunctionOnSet(Amounts(led.debit), PaidBy(u))
         /\ Received(led, u) = SumFunctionOnSet(Amounts(led.credit), PaidTo(u))
<1>1. led.debit \in [Trxn -> Nat] /\ led.credit \in [Trxn -> Nat]
  BY DEF Ledger
<1>2. ASSUME NEW d \in [Trxn -> Nat], NEW t \in Trxn PROVE Amounts(d)[t] \in Nat
  <2>1. \A i, j \in Nat : i * j \in Nat
    OBVIOUS
  <2>2. d[t] \in Nat /\ Req[t].amount \in Nat
    BY RequestType
  <2> QED BY <2>1, <2>2 DEF Amounts
<1>3. /\ Paid(led, u) = SumFunctionOnSet(Amounts(led.debit), PaidBy(u))
      /\ Received(led, u) = SumFunctionOnSet(Amounts(led.credit), PaidTo(u))
  BY DEF Paid, Received, Amounts
<1>4. NumPaid(led, u) \in Nat /\ NumReceived(led, u) \in Nat
  BY <1>1, PaidSets, SumNat DEF NumPaid, NumReceived
<1>5. Paid(led, u) \in Nat /\ Received(led, u) \in Nat
  BY <1>1, <1>2, <1>3, PaidSets, SumNat
<1> QED BY <1>3, <1>4, <1>5

\* Looking a user up changes nothing but the files.
LEMMA TouchConsistent ==
  ASSUME NEW led \in Ledger, NEW F, NEW u, Consistent(led, F)
  PROVE  Consistent(Touch(led, u), F)
<1> DEFINE new == Touch(led, u)
<1>1. /\ new.acct = led.acct /\ new.debit = led.debit /\ new.credit = led.credit
      /\ led.files \subseteq new.files
  BY DEF Touch, Ledger
<1> HIDE DEF new
<1>2. \A t \in Trxn : RecordOK(new, F, t)
  BY <1>1 DEF Consistent, RecordOK, Exists
<1>3. \A v \in User : AccountOK(new, F, v)
  BY <1>1 DEF Consistent, AccountOK, Exists, Opens
<1>4. \A v \in User : BalanceOK(new, v)
  BY <1>1 DEF Consistent, BalanceOK, Exists, Exact, Updates, Paid, Received,
              NumPaid, NumReceived
<1>5. MoneyOK(new)
  BY <1>1 DEF Consistent, MoneyOK, Applied
<1> QED BY <1>2, <1>3, <1>4, <1>5 DEF Consistent, new

LEMMA MoneyType ==
  ASSUME NEW led \in Ledger
  PROVE  /\ Cardinality(Applied(led)) \in 0..Cardinality(Trxn)
         /\ Total(led.acct) \in Nat /\ Unopened(led.acct) \in Nat
<1>1. Applied(led) \in SUBSET Trxn
  BY DEF Applied, Payments
<1>2. Cardinality(Applied(led)) \in Nat /\ Cardinality(Trxn) \in Nat
      /\ Cardinality(Applied(led)) <= Cardinality(Trxn)
  BY <1>1, FiniteAssumption, FS_Subset, FS_CardinalityType
<1>3. /\ Cardinality(User) \in Nat /\ Cardinality(Opened(led.acct)) \in Nat
      /\ Cardinality(Opened(led.acct)) <= Cardinality(User)
  BY OpenedFinite, FiniteAssumption, FS_CardinalityType
<1>4. InitialBalance * (Cardinality(User) - Cardinality(Opened(led.acct))) \in Nat
  BY <1>3 DEF InitialBalance
<1>5. Total(led.acct) \in Nat
  BY BalancesType DEF Ledger
<1> QED BY <1>2, <1>4, <1>5 DEF Unopened

\* No account holds more than the largest balance.
LEMMA MoneyFits ==
  ASSUME NEW led \in Ledger, MoneyOK(led)
  PROVE  Total(led.acct) <= LargestBalance
<1>1. /\ Cardinality(Applied(led)) \in 0..Cardinality(Trxn)
      /\ Total(led.acct) \in Nat /\ Unopened(led.acct) \in Nat
  BY MoneyType
<1>2. Most[Cardinality(Applied(led))] \in Nat
      /\ Most[Cardinality(Applied(led))] <= LargestBalance
      /\ LargestBalance \in Nat
  BY <1>1, MostIs, HalfDigitType
<1> QED BY <1>1, <1>2 DEF MoneyOK

LEMMA DebitedFields ==
  ASSUME NEW a \in Account, NEW amt
  PROVE  LET b == Debited(a, amt)
         IN  /\ b.exists = a.exists /\ b.key = a.key /\ b.in = a.in
             /\ b.out = a.out + 1 /\ b.bal = Stored(a.bal - amt)
BY DEF Debited, Account

LEMMA CreditedFields ==
  ASSUME NEW a \in Account, NEW amt
  PROVE  LET b == Credited(a, amt)
         IN  /\ b.exists = a.exists /\ b.key = a.key /\ b.out = a.out
             /\ b.in = a.in + 1 /\ b.bal = Stored(a.bal + amt)
BY DEF Credited, Account

\* A payment between two users moves the amount, and rounds both balances.
LEMMA PayFields ==
  ASSUME NoSelfPayment, NEW led \in Ledger, NEW t \in Payments
  PROVE  LET f == Req[t].from
             g == Req[t].to
             new == Pay(led, t)
         IN  /\ new.acct[f] = Debited(led.acct[f], Req[t].amount)
             /\ new.acct[g] = Credited(led.acct[g], Req[t].amount)
             /\ \A u \in User : u # f /\ u # g => new.acct[u] = led.acct[u]
             /\ \A u \in User : /\ new.acct[u].exists = led.acct[u].exists
                                /\ new.acct[u].key = led.acct[u].key
             /\ new.debit = [led.debit EXCEPT ![t] = @ + 1]
             /\ new.credit = [led.credit EXCEPT ![t] = @ + 1]
             /\ led.files \subseteq new.files
<1> DEFINE f == Req[t].from
           g == Req[t].to
           new == Pay(led, t)
<1>1. t \in Trxn /\ f \in User /\ g \in User /\ f # g
  BY RequestType DEF NoSelfPayment, Payments
<1>2. led.acct \in [User -> Account]
  BY DEF Ledger
<1>3. new.acct = [[led.acct EXCEPT ![f] = Debited(led.acct[f], Req[t].amount)]
                    EXCEPT ![g] = Credited(led.acct[g], Req[t].amount)]
  BY DEF Pay, Appended
<1>4. /\ new.acct[f] = Debited(led.acct[f], Req[t].amount)
      /\ new.acct[g] = Credited(led.acct[g], Req[t].amount)
      /\ \A u \in User : u # f /\ u # g => new.acct[u] = led.acct[u]
  BY <1>1, <1>2, <1>3
<1>5. /\ new.debit = [led.debit EXCEPT ![t] = @ + 1]
      /\ new.credit = [led.credit EXCEPT ![t] = @ + 1]
      /\ led.files \subseteq new.files
  BY DEF Pay, Appended
<1> HIDE DEF new
<1>6. \A u \in User : /\ new.acct[u].exists = led.acct[u].exists
                      /\ new.acct[u].key = led.acct[u].key
  BY <1>1, <1>2, <1>4, DebitedFields, CreditedFields
<1> QED BY <1>4, <1>5, <1>6 DEF new

LEMMA PayConsistent ==
  ASSUME NoSelfPayment, NEW led \in Ledger, NEW F, NEW t \in Payments,
         Consistent(led, F), CanPay(led, t), led.debit[t] = 0
  PROVE  Consistent(Pay(led, t), F)
<1> DEFINE f == Req[t].from
           g == Req[t].to
           amt == Req[t].amount
           new == Pay(led, t)
<1>1. t \in Trxn /\ f \in User /\ g \in User /\ f # g /\ amt \in Nat
  BY RequestType DEF NoSelfPayment, Payments
<1>2. /\ led.acct \in [User -> Account]
      /\ led.debit \in [Trxn -> Nat] /\ led.credit \in [Trxn -> Nat]
  BY DEF Ledger
<1>3. new \in Ledger /\ new.acct \in [User -> Account]
  BY <1>1, PayType DEF Ledger
<1>4. /\ new.acct[f] = Debited(led.acct[f], amt)
      /\ new.acct[g] = Credited(led.acct[g], amt)
      /\ \A u \in User : u # f /\ u # g => new.acct[u] = led.acct[u]
      /\ \A u \in User : /\ new.acct[u].exists = led.acct[u].exists
                         /\ new.acct[u].key = led.acct[u].key
      /\ new.debit = [led.debit EXCEPT ![t] = @ + 1]
      /\ new.credit = [led.credit EXCEPT ![t] = @ + 1]
      /\ led.files \subseteq new.files
  BY PayFields
<1> HIDE DEF new
<1>5. Opened(new.acct) = Opened(led.acct) /\ f \in Opened(led.acct)
      /\ g \in Opened(led.acct) /\ led.acct[f].bal >= amt
  BY <1>1, <1>4 DEF Opened, CanPay, Exists
<1>6. /\ led.acct[f].bal \in Nat /\ led.acct[g].bal \in Nat
      /\ led.acct[f].out \in Nat /\ led.acct[g].out \in Nat
      /\ led.acct[f].in \in Nat /\ led.acct[g].in \in Nat
  BY <1>1, <1>2 DEF Account
<1>7. led.acct[f].bal + led.acct[g].bal <= LargestBalance
  <2>1. Total(led.acct) <= LargestBalance /\ Total(led.acct) \in Nat
    BY <1>2, MoneyFits, BalancesType DEF Consistent
  <2>2. led.acct[f].bal + led.acct[g].bal <= Total(led.acct)
    BY <1>1, <1>2, <1>5, TwoHold
  <2> QED BY <1>6, <2>1, <2>2, HalfDigitType
<1>8. /\ new.acct[f].bal \in
           (led.acct[f].bal - amt - HalfDigit)..(led.acct[f].bal - amt + HalfDigit)
      /\ new.acct[g].bal \in
           (led.acct[g].bal + amt - HalfDigit)..(led.acct[g].bal + amt + HalfDigit)
      /\ new.acct[f].out = led.acct[f].out + 1 /\ new.acct[f].in = led.acct[f].in
      /\ new.acct[g].in = led.acct[g].in + 1 /\ new.acct[g].out = led.acct[g].out
  <2>1. /\ new.acct[f].bal = Stored(led.acct[f].bal - amt)
        /\ new.acct[f].out = led.acct[f].out + 1 /\ new.acct[f].in = led.acct[f].in
    BY <1>1, <1>2, <1>4, DebitedFields
  <2>2. /\ new.acct[g].bal = Stored(led.acct[g].bal + amt)
        /\ new.acct[g].in = led.acct[g].in + 1 /\ new.acct[g].out = led.acct[g].out
    BY <1>1, <1>2, <1>4, CreditedFields
  <2>3. LargestBalance \in Nat
    BY HalfDigitType
  <2>4. PICK x \in Nat : x = led.acct[f].bal - amt
    BY <1>1, <1>5, <1>6
  <2>5. PICK y \in Nat : y = led.acct[g].bal + amt
    BY <1>1, <1>6
  <2>6. x <= LargestBalance /\ y <= LargestBalance
    BY <1>1, <1>5, <1>6, <1>7, <2>3, <2>4, <2>5
  <2>7. /\ Stored(x) \in (x - HalfDigit)..(x + HalfDigit)
        /\ Stored(y) \in (y - HalfDigit)..(y + HalfDigit)
    BY <2>3, <2>4, <2>5, <2>6, StoredNear DEF HalfDigit, LastDigit
  <2>8. /\ new.acct[f].bal \in (x - HalfDigit)..(x + HalfDigit)
        /\ new.acct[g].bal \in (y - HalfDigit)..(y + HalfDigit)
    BY <2>1, <2>2, <2>4, <2>5, <2>7, Zenon
  <2>9. new.acct[f].bal \in
          (led.acct[f].bal - amt - HalfDigit)..(led.acct[f].bal - amt + HalfDigit)
    BY <2>4, <2>8
  <2>10. new.acct[g].bal \in
           (led.acct[g].bal + amt - HalfDigit)..(led.acct[g].bal + amt + HalfDigit)
    BY <1>1, <1>6, <2>5, <2>8, HalfDigitType
  <2> QED BY <2>1, <2>2, <2>9, <2>10, Zenon
<1>9. \A s \in Trxn : RecordOK(new, F, s)
  <2> TAKE s \in Trxn
  <2>1. RecordOK(led, F, s)
    BY DEF Consistent
  <2>2. s # t => new.debit[s] = led.debit[s] /\ new.credit[s] = led.credit[s]
    BY <1>2, <1>4
  <2>3. new.debit[t] = led.debit[t] + 1 /\ new.credit[t] = led.credit[t] + 1
    BY <1>1, <1>2, <1>4
  <2>4. \A u \in User : /\ Exists(new, u) = Exists(led, u)
                        /\ new.acct[u].key = led.acct[u].key
    BY <1>4 DEF Exists
  <2>5. CASE s = t
    BY <1>1, <1>5, <2>1, <2>3, <2>4, <2>5 DEF RecordOK, Opened, Exists
  <2>6. CASE s # t
    BY <2>1, <2>2, <2>4, <2>6, RequestType DEF RecordOK
  <2> QED BY <2>5, <2>6
<1>10. \A u \in User : AccountOK(new, F, u)
  <2> TAKE u \in User
  <2>1. AccountOK(led, F, u)
    BY DEF Consistent
  <2>2. \A s \in Trxn : Opens(led, s, u) => Opens(new, s, u)
    BY <1>1, <1>2, <1>4 DEF Opens
  <2>3. ~Exists(led, u) => new.acct[u] = led.acct[u]
    BY <1>4, <1>5 DEF Exists, Opened
  <2> QED BY <1>4, <2>1, <2>2, <2>3 DEF AccountOK, Exists
<1>11. \A u \in User : BalanceOK(new, u)
  <2> TAKE u \in User
  <2>1. BalanceOK(led, u)
    BY DEF Consistent
  <2>2. /\ NumPaid(new, u) = NumPaid(led, u) + (IF u = f THEN 1 ELSE 0)
        /\ NumReceived(new, u) = NumReceived(led, u) + (IF u = g THEN 1 ELSE 0)
        /\ Paid(new, u) = Paid(led, u) + (IF u = f THEN amt ELSE 0)
        /\ Received(new, u) = Received(led, u) + (IF u = g THEN amt ELSE 0)
    <3>1. (t \in PaidBy(u) <=> u = f) /\ (t \in PaidTo(u) <=> u = g)
      BY DEF PaidBy, PaidTo
    <3> QED BY <1>1, <1>2, <1>3, <1>4, <3>1, PaidSets, RecordSumsType,
               OneMoreRecord DEF NumPaid, NumReceived
  <2>3. /\ NumPaid(led, u) \in Nat /\ NumReceived(led, u) \in Nat
        /\ Paid(led, u) \in Nat /\ Received(led, u) \in Nat
    BY RecordSumsType
  <2>4. PICK h \in Nat : h = HalfDigit
    BY HalfDigitType
  <2>5. PICK n \in Nat : n = Updates(led, u)
    BY <2>3 DEF Updates
  <2>6. h * n \in Nat /\ h * (n + 1) = h * n + h
    BY <2>4, <2>5
  <2>7. CASE u = f
    <3>1. Updates(new, u) = n + 1 /\ Exact(new, u) = Exact(led, u) - amt
      BY <1>1, <2>2, <2>3, <2>5, <2>7 DEF Updates, Exact, InitialBalance
    <3>2. Exact(led, u) \in Int
      BY <2>3 DEF Exact, InitialBalance
    <3>3. /\ led.acct[u].bal <= Exact(led, u) + h * n
          /\ led.acct[u].bal >= Exact(led, u) - h * n
          /\ led.acct[u].out = NumPaid(led, u)
          /\ led.acct[u].in = NumReceived(led, u)
      BY <1>5, <2>1, <2>4, <2>5, <2>7 DEF BalanceOK, Opened, Exists
    <3>4. PICK hn \in Nat : hn = h * n
      BY <2>6
    <3>5. /\ new.acct[u].bal <= Exact(new, u) + (hn + h)
          /\ new.acct[u].bal >= Exact(new, u) - (hn + h)
      BY <1>1, <1>6, <1>8, <2>4, <2>7, <3>1, <3>2, <3>3, <3>4
    <3>6. /\ new.acct[u].out = NumPaid(new, u)
          /\ new.acct[u].in = NumReceived(new, u)
      BY <1>1, <1>8, <2>2, <2>3, <2>7, <3>3
    <3> QED BY <2>4, <2>6, <3>1, <3>4, <3>5, <3>6 DEF BalanceOK
  <2>8. CASE u = g
    <3>1. Updates(new, u) = n + 1 /\ Exact(new, u) = Exact(led, u) + amt
      BY <1>1, <2>2, <2>3, <2>5, <2>8 DEF Updates, Exact, InitialBalance
    <3>2. Exact(led, u) \in Int
      BY <2>3 DEF Exact, InitialBalance
    <3>3. /\ led.acct[u].bal <= Exact(led, u) + h * n
          /\ led.acct[u].bal >= Exact(led, u) - h * n
          /\ led.acct[u].out = NumPaid(led, u)
          /\ led.acct[u].in = NumReceived(led, u)
      BY <1>5, <2>1, <2>4, <2>5, <2>8 DEF BalanceOK, Opened, Exists
    <3>4. PICK hn \in Nat : hn = h * n
      BY <2>6
    <3>5. /\ new.acct[u].bal <= Exact(new, u) + (hn + h)
          /\ new.acct[u].bal >= Exact(new, u) - (hn + h)
      BY <1>1, <1>6, <1>8, <2>4, <2>8, <3>1, <3>2, <3>3, <3>4
    <3>6. /\ new.acct[u].out = NumPaid(new, u)
          /\ new.acct[u].in = NumReceived(new, u)
      BY <1>1, <1>8, <2>2, <2>3, <2>8, <3>3
    <3> QED BY <2>4, <2>6, <3>1, <3>4, <3>5, <3>6 DEF BalanceOK
  <2>9. CASE u # f /\ u # g
    <3>1. /\ NumPaid(new, u) = NumPaid(led, u)
          /\ NumReceived(new, u) = NumReceived(led, u)
          /\ Paid(new, u) = Paid(led, u) /\ Received(new, u) = Received(led, u)
      BY <2>2, <2>3, <2>9
    <3> QED BY <1>4, <2>1, <2>9, <3>1 DEF BalanceOK, Exact, Updates, Exists
  <2> QED BY <2>7, <2>8, <2>9
<1>12. MoneyOK(new)
  <2>1. Total(new.acct) = Total(led.acct) - led.acct[f].bal - led.acct[g].bal
                            + new.acct[f].bal + new.acct[g].bal
    BY <1>1, <1>2, <1>3, <1>4, <1>5, TotalOfTwo
  <2>2. Total(led.acct) \in Nat
    BY <1>2, BalancesType
  <2>3. PICK m \in Nat : m = Most[Cardinality(Applied(led))]
    BY MoneyType, MostIs
  <2>4. /\ Total(new.acct) <= Total(led.acct) + Quantum(m) /\ Quantum(m) \in Nat
    <3>1. led.acct[f].bal + led.acct[g].bal <= Total(led.acct)
      BY <1>1, <1>2, <1>5, TwoHold
    <3>2. Total(led.acct) <= m
      BY <2>2, <2>3, MoneyType DEF Consistent, MoneyOK
    <3>3. PICK x \in Nat : x = led.acct[f].bal - amt
      BY <1>1, <1>5, <1>6
    <3>4. PICK y \in Nat : y = led.acct[g].bal + amt
      BY <1>1, <1>6
    <3>5. x <= m /\ y <= m
      BY <1>1, <1>5, <1>6, <2>2, <3>1, <3>2, <3>3, <3>4
    <3>6. PICK k \in Nat : k = Quantum(m)
      BY QuantumIs, WeightType
    <3>7. /\ Stored(x) \in (x - k \div 2)..(x + k \div 2)
          /\ Stored(y) \in (y - k \div 2)..(y + k \div 2)
      BY <3>5, <3>6, StoredNear
    <3>8. new.acct[f].bal = Stored(x) /\ new.acct[g].bal = Stored(y)
      BY <1>1, <1>2, <1>4, <3>3, <3>4, DebitedFields, CreditedFields
    <3>9. PICK i \in Nat : i = k \div 2 /\ 2 * i <= k
      BY <3>6
    <3>10. /\ new.acct[f].bal <= x + i /\ new.acct[f].bal \in Int
           /\ new.acct[g].bal <= y + i /\ new.acct[g].bal \in Int
      BY <3>7, <3>8, <3>9
    <3> QED BY <1>1, <1>6, <2>1, <2>2, <3>3, <3>4, <3>6, <3>9, <3>10
  <2>5. Applied(new) = Applied(led) \cup {t} /\ t \notin Applied(led)
    <3>1. \A s \in Trxn : s # t => new.debit[s] = led.debit[s]
      BY <1>2, <1>4
    <3>2. new.debit[t] > 0
      BY <1>1, <1>2, <1>4
    <3> QED BY <3>1, <3>2 DEF Applied, Payments
  <2>6. IsFiniteSet(Applied(led))
    BY FiniteAssumption, FS_Subset DEF Applied, Payments
  <2>7. /\ Cardinality(Applied(new)) = Cardinality(Applied(led)) + 1
        /\ Cardinality(Applied(led)) \in Nat
    BY <2>5, <2>6, FS_AddElement, FS_CardinalityType
  <2>8. Unopened(new.acct) = Unopened(led.acct) /\ Unopened(led.acct) \in Nat
    BY <1>5, MoneyType DEF Unopened
  <2>9. Total(led.acct) + Unopened(led.acct) <= m
    BY <2>3 DEF Consistent, MoneyOK
  <2>10. Total(new.acct) \in Nat
    BY <1>3, BalancesType
  <2>11. Most[Cardinality(Applied(new))] = m + Quantum(m)
    <3>1. Cardinality(Applied(new)) \in 0..Cardinality(Trxn)
      BY <1>3, MoneyType
    <3>2. PICK n \in Nat : n = Cardinality(Applied(led))
      BY <2>7
    <3>3. n + 1 \in 1..Cardinality(Trxn) /\ (n + 1) - 1 = n
      BY <2>7, <3>1, <3>2, MostIs
    <3>4. Most[n + 1] = Most[n] + Quantum(Most[n])
      BY <3>3, MostIs
    <3> QED BY <2>3, <2>7, <3>2, <3>4
  <2> QED BY <2>2, <2>4, <2>8, <2>9, <2>10, <2>11 DEF MoneyOK
<1> QED BY <1>9, <1>10, <1>11, <1>12 DEF Consistent, new

\* A new account starts with its records empty: no payment of the user is
\* recorded, because a payment needs both accounts.
LEMMA CreateConsistent ==
  ASSUME NEW led \in Ledger, NEW F, NEW t \in Trxn \ Payments,
         Consistent(led, F), CanCreate(led, t)
  PROVE  Consistent(Create(led, t), F)
<1> DEFINE f == Req[t].from
           new == Create(led, t)
           acc == NewAccount(Req[t].key)
<1>1. /\ f \in User /\ led.acct \in [User -> Account]
      /\ led.debit \in [Trxn -> Nat] /\ led.credit \in [Trxn -> Nat]
  BY RequestType DEF Ledger
<1>2. new \in Ledger /\ new.acct \in [User -> Account]
  BY CreateType DEF Ledger
<1>3. /\ new.acct = [led.acct EXCEPT ![f] = acc]
      /\ new.debit = [led.debit EXCEPT ![t] = @ + 1]
      /\ new.credit = led.credit
      /\ led.files \subseteq new.files /\ Path[f] \in new.files
  BY DEF Create, Appended
<1>4. /\ new.acct[f] = acc
      /\ \A u \in User : u # f => new.acct[u] = led.acct[u]
      /\ new.debit[t] > 0
      /\ \A s \in Trxn : s # t => new.debit[s] = led.debit[s]
      /\ \A s \in Payments : s # t /\ new.debit[s] = led.debit[s]
  <2>1. /\ new.acct[f] = acc
        /\ \A u \in User : u # f => new.acct[u] = led.acct[u]
    BY <1>1, <1>3
  <2>2. /\ new.debit[t] > 0
        /\ \A s \in Trxn : s # t => new.debit[s] = led.debit[s]
    BY <1>1, <1>3
  <2>3. \A s \in Payments : s # t /\ s \in Trxn
    BY DEF Payments
  <2> QED BY <2>1, <2>2, <2>3
<1> HIDE DEF new
<1>5. /\ acc.exists /\ acc.key = Req[t].key /\ acc.bal = InitialBalance
      /\ acc.out = 0 /\ acc.in = 0
  BY DEF NewAccount
<1> HIDE DEF acc
<1>6. ~Exists(led, f) /\ led.acct[f] = NoAccount /\ f \notin DOMAIN F
  BY <1>1 DEF Consistent, AccountOK, CanCreate
<1>7. \A s \in Trxn : RecordOK(new, F, s)
  <2> TAKE s \in Trxn
  <2>1. RecordOK(led, F, s)
    BY DEF Consistent
  <2>2. \A u \in User : Exists(led, u) =>
          Exists(new, u) /\ new.acct[u].key = led.acct[u].key
    BY <1>4, <1>6 DEF Exists
  <2>3. CASE s = t
    BY <1>4, <1>5, <1>6, <2>3 DEF RecordOK, Exists
  <2>4. CASE s # t
    BY <1>3, <1>4, <2>1, <2>2, <2>4, RequestType DEF RecordOK
  <2> QED BY <2>3, <2>4
<1>8. \A u \in User : AccountOK(new, F, u)
  <2> TAKE u \in User
  <2>1. AccountOK(led, F, u)
    BY DEF Consistent
  <2>2. CASE u = f
    <3>1. Opens(new, t, u)
      BY <1>4, <2>2 DEF Opens
    <3> QED BY <1>3, <1>4, <1>5, <1>6, <2>2, <3>1 DEF AccountOK, Exists
  <2>3. CASE u # f
    <3>1. \A s \in Trxn : Opens(led, s, u) => Opens(new, s, u)
      BY <1>1, <1>4 DEF Opens
    <3> QED BY <1>3, <1>4, <2>1, <2>3, <3>1 DEF AccountOK, Exists
  <2> QED BY <2>2, <2>3
<1>9. \A u \in User : BalanceOK(new, u)
  <2> TAKE u \in User
  <2>1. BalanceOK(led, u)
    BY DEF Consistent
  <2>2. /\ NumPaid(new, u) = NumPaid(led, u)
        /\ NumReceived(new, u) = NumReceived(led, u)
        /\ Paid(new, u) = Paid(led, u) /\ Received(new, u) = Received(led, u)
    <3>1. t \notin PaidBy(u)
      BY DEF PaidBy
    <3> QED BY <1>1, <1>2, <1>3, <3>1, PaidSets, RecordSumsType,
               OneMoreRecord DEF NumPaid, NumReceived
  <2>3. CASE u = f
    <3>1. \A s \in PaidBy(u) : led.debit[s] = 0 /\ Amounts(led.debit)[s] = 0
      <4> TAKE s \in PaidBy(u)
      <4>1. s \in Trxn /\ s \in Payments /\ Req[s].from = u
        BY DEF PaidBy, Payments
      <4>2. led.debit[s] = 0
        BY <1>1, <1>6, <2>3, <4>1 DEF Consistent, RecordOK
      <4> QED BY <4>1, <4>2, RequestType DEF Amounts
    <3>2. \A s \in PaidTo(u) : led.credit[s] = 0 /\ Amounts(led.credit)[s] = 0
      <4> TAKE s \in PaidTo(u)
      <4>1. s \in Trxn /\ s \in Payments /\ Req[s].to = u
        BY DEF PaidTo, Payments
      <4>2. led.credit[s] = 0
        BY <1>1, <1>6, <2>3, <4>1 DEF Consistent, RecordOK
      <4> QED BY <4>1, <4>2, RequestType DEF Amounts
    <3>3. /\ NumPaid(led, u) = 0 /\ NumReceived(led, u) = 0
          /\ Paid(led, u) = 0 /\ Received(led, u) = 0
      BY <3>1, <3>2, PaidSets, RecordSumsType, SumZero DEF NumPaid, NumReceived
    <3>4. Updates(new, u) = 0 /\ Exact(new, u) = InitialBalance
      BY <2>2, <3>3 DEF Updates, Exact, InitialBalance
    <3>5. HalfDigit * 0 = 0
      BY HalfDigitType
    <3> QED BY <1>4, <1>5, <2>2, <2>3, <3>3, <3>4, <3>5
            DEF BalanceOK, InitialBalance
  <2>4. CASE u # f
    BY <1>4, <2>1, <2>2, <2>4 DEF BalanceOK, Exists, Exact, Updates
  <2> QED BY <2>3, <2>4
<1>10. MoneyOK(new)
  <2>1. Opened(new.acct) = Opened(led.acct) \cup {f} /\ f \notin Opened(led.acct)
    BY <1>1, <1>4, <1>5, <1>6 DEF Opened, Exists
  <2>2. IsFiniteSet(Opened(led.acct)) /\ Cardinality(Opened(led.acct)) \in Nat
    BY OpenedFinite
  <2>3. Cardinality(Opened(new.acct)) = Cardinality(Opened(led.acct)) + 1
    BY <2>1, <2>2, FS_AddElement
  <2>4. Total(new.acct) = InitialBalance + Total(led.acct)
    <3> DEFINE bal == Balances(new.acct)
    <3>1. \A u \in User : bal[u] \in Int
      BY <1>2, BalancesType
    <3>2. SumFunctionOnSet(bal, Opened(led.acct) \cup {f})
            = bal[f] + SumFunctionOnSet(bal, Opened(led.acct))
      <4>1. \A u \in Opened(led.acct) \cup {f} : bal[u] \in Int
        BY <1>1, <3>1 DEF Opened
      <4> HIDE DEF bal
      <4> QED BY <2>1, <2>2, <4>1, SumAdd
    <3>3. SumFunctionOnSet(bal, Opened(led.acct)) = Total(led.acct)
      <4>1. \A u \in Opened(led.acct) : bal[u] = Balances(led.acct)[u]
        BY <1>1, <1>4, <2>1 DEF Balances, Opened
      <4>2. SumFunctionOnSet(bal, Opened(led.acct))
              = SumFunctionOnSet(Balances(led.acct), Opened(led.acct))
        BY <2>2, <4>1, SumSame
      <4> QED BY <1>1, <4>2, BalancesType
    <3>4. bal[f] = InitialBalance
      BY <1>1, <1>4, <1>5 DEF Balances
    <3> QED BY <1>2, <2>1, <3>2, <3>3, <3>4, BalancesType
  <2>5. Applied(new) = Applied(led)
    BY <1>4 DEF Applied
  <2>6. Total(led.acct) \in Nat /\ Unopened(led.acct) \in Nat
    BY MoneyType
  <2>7. Unopened(led.acct) = Unopened(new.acct) + InitialBalance
        /\ Unopened(new.acct) \in Nat
    <3>1. PICK n \in Nat : n = Cardinality(User)
      BY FiniteAssumption, FS_CardinalityType
    <3>2. PICK k \in Nat : k = Cardinality(Opened(led.acct))
      BY <2>2
    <3>3. InitialBalance * (n - k) = InitialBalance * (n - (k + 1)) + InitialBalance
      BY DEF InitialBalance
    <3> QED BY <1>2, <2>3, <3>1, <3>2, <3>3, MoneyType DEF Unopened
  <2>8. Total(led.acct) + Unopened(led.acct) <= Most[Cardinality(Applied(led))]
    BY DEF Consistent, MoneyOK
  <2>9. Most[Cardinality(Applied(led))] \in Nat /\ InitialBalance \in Nat
    BY MoneyType, MostIs DEF InitialBalance
  <2> QED BY <2>4, <2>5, <2>6, <2>7, <2>8, <2>9 DEF MoneyOK
<1> QED BY <1>7, <1>8, <1>9, <1>10 DEF Consistent, new

\* Whatever saveTrxn does with a transaction it has not applied before, the
\* account store and the block files go on telling the same story.
LEMMA SavedConsistent ==
  ASSUME NoSelfPayment, NEW led \in Ledger, NEW F, NEW t \in Trxn,
         Consistent(led, F), led.debit[t] = 0
  PROVE  Consistent(Saved(led, t), F)
<1>1. t \in Payments <=> Req[t].type = "PAYMENT"
  BY DEF Payments
<1>2. CASE t \in Payments /\ CanPay(led, t)
  BY <1>1, <1>2, PayConsistent DEF Saved
<1>3. CASE t \in Payments /\ ~CanPay(led, t)
  BY <1>1, <1>3, TouchConsistent DEF Saved, Looked
<1>4. CASE t \notin Payments
  BY <1>1, <1>4, CreateConsistent DEF Saved
<1> QED BY <1>2, <1>3, <1>4

LEMMA CheckedConsistent ==
  ASSUME NEW led \in Ledger, NEW F, NEW t \in Trxn, Consistent(led, F)
  PROVE  Consistent(Checked(led, t), F)
BY TouchConsistent DEF Checked

LEMMA LedgerWithConsistent ==
  ASSUME NEW S \in SUBSET User, NEW F \in [S -> Key]
  PROVE  Consistent(LedgerWith(F), F)
<1> DEFINE led == LedgerWith(F)
<1>1. /\ \A t \in Trxn : led.debit[t] = 0 /\ led.credit[t] = 0
      /\ \A u \in User : led.acct[u] = IF u \in S THEN NewAccount(F[u]) ELSE NoAccount
      /\ led.files = {Path[u] : u \in S}
  BY DEF LedgerWith
<1>2. led \in Ledger /\ led.acct \in [User -> Account]
  BY LedgerWithType DEF Ledger
<1> HIDE DEF led
<1>3. /\ ~NoAccount.exists
      /\ \A k : /\ NewAccount(k).exists /\ NewAccount(k).key = k
                /\ NewAccount(k).bal = InitialBalance
                /\ NewAccount(k).out = 0 /\ NewAccount(k).in = 0
  BY DEF NoAccount, NewAccount
<1>4. \A t \in Trxn : RecordOK(led, F, t)
  BY <1>1 DEF RecordOK
<1>5. \A u \in User : AccountOK(led, F, u)
  BY <1>1, <1>3 DEF AccountOK, Exists
<1>6. \A u \in User : BalanceOK(led, u)
  <2> TAKE u \in User
  <2> SUFFICES ASSUME Exists(led, u) PROVE BalanceOK(led, u)
    BY DEF BalanceOK
  <2>1. /\ \A s \in PaidBy(u) : led.debit[s] = 0 /\ Amounts(led.debit)[s] = 0
        /\ \A s \in PaidTo(u) : led.credit[s] = 0 /\ Amounts(led.credit)[s] = 0
    BY <1>1, RequestType DEF PaidBy, PaidTo, Payments, Amounts
  <2>2. /\ NumPaid(led, u) = 0 /\ NumReceived(led, u) = 0
        /\ Paid(led, u) = 0 /\ Received(led, u) = 0
    BY <1>2, <2>1, PaidSets, RecordSumsType, SumZero DEF NumPaid, NumReceived
  <2>3. /\ led.acct[u].bal = InitialBalance /\ led.acct[u].out = 0
        /\ led.acct[u].in = 0
    BY <1>1, <1>3 DEF Exists
  <2>4. HalfDigit * 0 = 0
    BY HalfDigitType
  <2> QED BY <2>2, <2>3, <2>4 DEF BalanceOK, Exact, Updates, InitialBalance
<1>7. MoneyOK(led)
  <2> DEFINE n == Cardinality(Opened(led.acct))
  <2>1. n \in Nat
    BY OpenedFinite
  <2>2. Total(led.acct) = InitialBalance * n
    <3>1. \A u \in Opened(led.acct) : Balances(led.acct)[u] = InitialBalance
      BY <1>1, <1>3 DEF Opened, Balances
    <3>2. InitialBalance \in Int
      BY DEF InitialBalance
    <3> QED BY <1>2, <3>1, <3>2, OpenedFinite, BalancesType, SumConstant
  <2>3. Applied(led) = {}
    BY <1>1 DEF Applied, Payments
  <2>4. Unopened(led.acct) = InitialBalance * (Cardinality(User) - n)
    BY DEF Unopened
  <2>5. PICK k \in Nat : k = Cardinality(User)
    BY FiniteAssumption, FS_CardinalityType
  <2>6. Total(led.acct) + Unopened(led.acct) = InitialBalance * k
    <3> HIDE DEF n
    <3>1. InitialBalance * n + InitialBalance * (k - n) = InitialBalance * k
      BY <2>1 DEF InitialBalance
    <3> QED BY <2>2, <2>4, <2>5, <3>1
  <2>7. Cardinality(Applied(led)) = 0
    BY <2>3, FS_EmptySet
  <2>8. Most[0] = InitialBalance * k /\ Most[0] \in Nat
    BY <2>5, MostIs
  <2> QED BY <2>6, <2>7, <2>8 DEF MoneyOK
<1> QED BY <1>4, <1>5, <1>6, <1>7 DEF Consistent, led

\* Two ledgers with the same block files have the same accounts up to the last
\* digit of a balance.
LEMMA SameBlocksSameAccounts ==
  ASSUME NEW led1 \in Ledger, NEW led2 \in Ledger, NEW F,
         Consistent(led1, F), Consistent(led2, F),
         led1.debit = led2.debit, led1.credit = led2.credit, NEW u \in User
  PROVE  LET a == led1.acct[u]
             b == led2.acct[u]
         IN  /\ [a EXCEPT !.bal = 0] = [b EXCEPT !.bal = 0]
             /\ a.bal - b.bal <= LastDigit * (a.out + a.in)
<1> DEFINE a == led1.acct[u]
           b == led2.acct[u]
<1>1. a \in Account /\ b \in Account
  BY DEF Ledger
<1>2. /\ AccountOK(led1, F, u) /\ AccountOK(led2, F, u)
      /\ BalanceOK(led1, u) /\ BalanceOK(led2, u)
      /\ \A t \in Trxn : RecordOK(led1, F, t) /\ RecordOK(led2, F, t)
  BY DEF Consistent
<1>3. a.exists = b.exists
  <2>1. Exists(led1, u) => Exists(led2, u)
    BY <1>2 DEF AccountOK, Opens, RecordOK
  <2>2. Exists(led2, u) => Exists(led1, u)
    BY <1>2 DEF AccountOK, Opens, RecordOK
  <2> QED BY <1>1, <2>1, <2>2 DEF Exists, Account
<1>4. CASE ~Exists(led1, u)
  <2>1. a = NoAccount /\ b = NoAccount
    BY <1>2, <1>3, <1>4 DEF AccountOK, Exists
  <2>2. a.bal = 0 /\ a.out = 0 /\ a.in = 0 /\ b.bal = 0
    BY <2>1 DEF NoAccount
  <2>3. LastDigit * 0 = 0
    BY HalfDigitType
  <2> QED BY <2>1, <2>2, <2>3
<1>5. CASE Exists(led1, u)
  <2>1. Exists(led2, u)
    BY <1>3, <1>5 DEF Exists
  <2>2. a.key = b.key
    <3>1. CASE u \in DOMAIN F
      BY <1>2, <3>1 DEF AccountOK
    <3>2. CASE u \notin DOMAIN F
      <4>1. PICK t \in Trxn : Opens(led1, t, u)
        BY <1>2, <1>5, <3>2 DEF AccountOK
      <4>2. Opens(led2, t, u)
        BY <4>1 DEF Opens
      <4> QED BY <1>2, <4>1, <4>2 DEF Opens, RecordOK
    <3> QED BY <3>1, <3>2
  <2>3. /\ NumPaid(led1, u) = NumPaid(led2, u)
        /\ NumReceived(led1, u) = NumReceived(led2, u)
        /\ Paid(led1, u) = Paid(led2, u) /\ Received(led1, u) = Received(led2, u)
    BY DEF NumPaid, NumReceived, Paid, Received
  <2>4. Updates(led1, u) = Updates(led2, u) /\ Exact(led1, u) = Exact(led2, u)
    BY <2>3 DEF Updates, Exact
  <2>5. a.out = b.out /\ a.in = b.in /\ a.out + a.in = Updates(led1, u)
    BY <1>2, <1>5, <2>1, <2>3 DEF BalanceOK, Updates
  <2>6. PICK n \in Nat : n = Updates(led1, u)
    BY RecordSumsType DEF Updates
  <2>7. PICK x \in Int : x = Exact(led1, u)
    BY RecordSumsType DEF Exact, InitialBalance
  <2>8. PICK h \in Nat : h = HalfDigit
    BY HalfDigitType
  <2>9. PICK d \in Nat : d = LastDigit /\ 2 * h <= d
    BY <2>8, HalfDigitType
  <2>10. PICK hn \in Nat : hn = h * n
    <3>1. \A i, j \in Nat : i * j \in Nat
      OBVIOUS
    <3> QED BY <3>1, <2>6, <2>8
  <2>11. 2 * hn <= d * n
    <3>1. \A i, j, k \in Nat : 2 * i <= j => 2 * (i * k) <= j * k
      OBVIOUS
    <3> QED BY <2>6, <2>8, <2>9, <2>10, <3>1
  <2>12. a.bal <= x + hn /\ b.bal >= x - hn
    BY <1>2, <1>5, <2>1, <2>4, <2>6, <2>7, <2>8, <2>10 DEF BalanceOK
  <2>13. a.bal - b.bal <= d * n
    <3>1. PICK dn \in Int : dn = d * n
      BY <2>6, <2>9
    <3>2. a.bal \in Nat /\ b.bal \in Nat
      BY <1>1 DEF Account
    <3> QED BY <2>7, <2>10, <2>11, <2>12, <3>1, <3>2
  <2>14. [a EXCEPT !.bal = 0] = [b EXCEPT !.bal = 0]
    BY <1>1, <1>3, <2>2, <2>5 DEF Account
  <2> QED BY <2>5, <2>6, <2>9, <2>13, <2>14
<1> QED BY <1>4, <1>5
=============================================================================
