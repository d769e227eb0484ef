--------------------------- MODULE LedgerNodeProofs ---------------------------
(***************************************************************************)
(* The ledger of a node, for every set of users, transactions and           *)
(* directories: whatever it is told to save, in whatever order, the account *)
(* store and the block files tell the same story.                           *)
(***************************************************************************)
EXTENDS LedgerNode, BlockMgrProofs

\* A transaction with a record has come to its end; with the story of
\* BlockMgrProofs this is inductive.
SavedIsDone == \A t \in Trxn : Recorded(ledger, t) => t \in done
Story == Consistent(ledger, <<>>) /\ SavedIsDone

LEMMA TypeStep ==
  ASSUME TypeOK, [Next]_vars
  PROVE  TypeOK'
<1>1. ASSUME NEW u \in User, Lookup(u) PROVE TypeOK'
  BY <1>1, TouchType DEF TypeOK, Lookup
<1>2. ASSUME NEW t \in Trxn, Receive(t) PROVE TypeOK'
  BY <1>2, CheckedType, SavedType DEF TypeOK, Receive
<1>3. CASE UNCHANGED vars
  BY <1>3 DEF TypeOK, vars
<1> QED BY <1>1, <1>2, <1>3 DEF Next

LEMMA InitHolds == ASSUME Init PROVE TypeOK /\ Story
<1>1. {} \in SUBSET User /\ <<>> \in [{} -> Key]
  OBVIOUS
<1>2. ledger \in Ledger /\ Consistent(ledger, <<>>)
  BY <1>1, LedgerWithType, LedgerWithConsistent DEF Init
<1>3. \A t \in Trxn : ~Recorded(ledger, t)
  BY DEF Init, LedgerWith, Recorded
<1> QED BY <1>2, <1>3 DEF Init, TypeOK, Story, SavedIsDone

LEMMA StoryStep ==
  ASSUME NoSelfPayment, TypeOK, Story, [Next]_vars
  PROVE  Story'
<1>1. ASSUME NEW u \in User, Lookup(u) PROVE Story'
  <2>1. Consistent(ledger', <<>>)
    BY <1>1, TouchConsistent DEF Story, TypeOK, Lookup
  <2>2. ledger'.debit = ledger.debit /\ done' = done
    BY <1>1 DEF Lookup, Touch, TypeOK, Ledger
  <2> QED BY <2>1, <2>2 DEF Story, SavedIsDone, Recorded
<1>2. ASSUME NEW t \in Trxn, Receive(t) PROVE Story'
  <2> DEFINE led == Checked(ledger, t)
  <2>1. led \in Ledger /\ Consistent(led, <<>>) /\ led.debit = ledger.debit
    BY CheckedType, CheckedConsistent, CheckedRecords DEF TypeOK, Story
  <2>2. ledger.debit[t] = 0
    BY <1>2 DEF Receive, Story, SavedIsDone, Recorded, TypeOK, Ledger
  <2>3. ledger' = Saved(led, t) /\ done' = done \cup {t}
    BY <1>2 DEF Receive
  <2> HIDE DEF led
  <2>4. Consistent(ledger', <<>>)
    BY <2>1, <2>2, <2>3, SavedConsistent
  <2>5. \A s \in Trxn : s # t => ledger'.debit[s] = ledger.debit[s]
    BY <2>1, <2>3, SavedRecords
  <2> QED BY <2>3, <2>4, <2>5 DEF Story, SavedIsDone, Recorded
<1>3. CASE UNCHANGED vars
  BY <1>3 DEF Story, SavedIsDone, vars
<1> QED BY <1>1, <1>2, <1>3 DEF Next

\* A ledger stays a ledger, whatever is saved and looked up.
THEOREM LedgerTyped == Spec => []TypeOK
<1>1. Init => TypeOK
  BY InitHolds
<1>2. TypeOK /\ [Next]_vars => TypeOK'
  BY TypeStep
<1> QED BY <1>1, <1>2, PTL DEF Spec

LEMMA StoryMatches ==
  ASSUME TypeOK, Story
  PROVE  AccountsMatchBlocks
<1> SUFFICES ASSUME NEW u \in User
             PROVE  LET a == ledger.acct[u]
                        paid == NumPaid(ledger, u)
                        received == NumReceived(ledger, u)
                        exact == InitialBalance + Received(ledger, u) - Paid(ledger, u)
                        error == HalfDigit * (paid + received)
                    IN  IF a.exists
                        THEN /\ a.bal \in (exact - error)..(exact + error)
                             /\ a.out = paid /\ a.in = received
                        ELSE paid = 0 /\ received = 0
  BY DEF AccountsMatchBlocks
<1>1. /\ ledger \in Ledger /\ ledger.acct[u].bal \in Nat
      /\ ledger.debit \in [Trxn -> Nat] /\ ledger.credit \in [Trxn -> Nat]
  BY DEF TypeOK, Ledger, Account
<1>2. CASE Exists(ledger, u)
  <2>1. /\ ledger.acct[u].bal <= Exact(ledger, u) + HalfDigit * Updates(ledger, u)
        /\ ledger.acct[u].bal >= Exact(ledger, u) - HalfDigit * Updates(ledger, u)
        /\ ledger.acct[u].out = NumPaid(ledger, u)
        /\ ledger.acct[u].in = NumReceived(ledger, u)
    BY <1>2 DEF Story, Consistent, BalanceOK
  <2>2. PICK e \in Nat : e = HalfDigit * Updates(ledger, u)
    <3>1. HalfDigit \in Nat /\ Updates(ledger, u) \in Nat
      BY <1>1, HalfDigitType, RecordSumsType DEF Updates
    <3>2. \A i, j \in Nat : i * j \in Nat
      OBVIOUS
    <3> QED BY <3>1, <3>2
  <2>3. PICK x \in Int : x = Exact(ledger, u)
    BY <1>1, RecordSumsType DEF Exact, InitialBalance
  <2>4. ledger.acct[u].bal \in (x - e)..(x + e)
    BY <1>1, <2>1, <2>2, <2>3
  <2> QED BY <1>2, <2>1, <2>2, <2>3, <2>4, Zenon DEF Exists, Exact, Updates
<1>3. CASE ~Exists(ledger, u)
  <2>1. \A s \in PaidBy(u) : ledger.debit[s] = 0
    BY <1>1, <1>3 DEF Story, Consistent, RecordOK, PaidBy, Payments
  <2>2. \A s \in PaidTo(u) : ledger.credit[s] = 0
    BY <1>1, <1>3 DEF Story, Consistent, RecordOK, PaidTo, Payments
  <2> QED BY <1>3, <2>1, <2>2, PaidSets, SumZero DEF NumPaid, NumReceived, Exists
<1> QED BY <1>2, <1>3

\* The fence, the receive counter and, up to the rounding of each update, the
\* balance of every account follow from the block files: saveTrxn and the
\* lookups keep them in step in every order.  Payments of a user to itself are
\* excepted; they make money.
THEOREM AccountsMatch ==
  ASSUME NoSelfPayment
  PROVE  Spec => []AccountsMatchBlocks
<1>1. Init => TypeOK /\ Story
  BY InitHolds
<1>2. TypeOK /\ Story /\ [Next]_vars => TypeOK' /\ Story'
  BY TypeStep, StoryStep
<1>3. TypeOK /\ Story => AccountsMatchBlocks
  BY StoryMatches
<1> QED BY <1>1, <1>2, <1>3, PTL DEF Spec
=============================================================================
