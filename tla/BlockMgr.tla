------------------------------- MODULE BlockMgr -------------------------------
(***************************************************************************)
(* The ledger one node keeps (src/src/blockmgr.cc, omaccount.cc): accounts  *)
(* in per-user store files and a block file per user.  Every operator takes *)
(* a ledger and returns what the code reads from it or leaves in it; the    *)
(* nodes that own ledgers are in TrxnConsensus and LedgerNode.              *)
(*                                                                          *)
(* Payments and new accounts are modelled; amounts and balances are whole   *)
(* numbers of omicros.                                                      *)
(***************************************************************************)
EXTENDS OmAccount, FiniteSets, Functions

CONSTANTS
  User,      \* account names
  Bucket,    \* directories getUserPath can return, one store.hdb in each
  Path,      \* Path[u]: the directory of u's files, a hash of the name
  Key,       \* public keys of clients
  Trxn,      \* transaction ids (timestamp:sender)
  Req        \* Req[t]: the request, [type, from, to, amount, key]

ASSUME PathAssumption == Path \in [User -> Bucket]
ASSUME FiniteAssumption ==
  IsFiniteSet(User) /\ IsFiniteSet(Bucket) /\ IsFiniteSet(Trxn)
ASSUME KeyAssumption == Key # {}

TrxnType == {"PAYMENT", "NEWACCT"}
Request == [type : TrxnType, from : User, to : User, amount : Nat, key : Key]

ASSUME ReqAssumption == Req \in [Trxn -> Request]

InitialBalance == 10000000

\* An account record (class OmAccount): out is the fence, the number of
\* payments made; in the number received.
Account == [exists : BOOLEAN, bal : Nat, out : Nat, in : Nat, key : Key]

\* files: store files on disk.  debit[t] and credit[t]: the records of t in
\* the block file of its sender and of its receiver.
Ledger == [files : SUBSET Bucket, acct : [User -> Account],
           debit : [Trxn -> Nat], credit : [Trxn -> Nat]]

NewAccount(k) == [exists |-> TRUE, bal |-> InitialBalance, out |-> 0, in |-> 0,
                  key |-> k]

NoAccount == [exists |-> FALSE, bal |-> 0, out |-> 0, in |-> 0,
              key |-> CHOOSE k \in Key : TRUE]

\* A node that starts with the accounts in S, S[u] being u's public key.
LedgerWith(S) ==
  [files  |-> {Path[u] : u \in DOMAIN S},
   acct   |-> [u \in User |-> IF u \in DOMAIN S THEN NewAccount(S[u])
                                                ELSE NoAccount],
   debit  |-> [t \in Trxn |-> 0],
   credit |-> [t \in Trxn |-> 0]]

-----------------------------------------------------------------------------
(* Lookups.  findSaveStore opens the user's store with HDBOCREAT, so merely *)
(* looking for a user leaves the file behind.                               *)

Touch(led, u) == [led EXCEPT !.files = @ \cup {Path[u]}]

Exists(led, u) == led.acct[u].exists
Fence(led, u) == led.acct[u].out

\* readTrxns(sender, ..., trxnId): the sender's block file has a record of t.
Recorded(led, t) == led.debit[t] > 0

-----------------------------------------------------------------------------
(* receiveTrxn, that is saveTrxn: apply the request, then append the block  *)
(* records.  Saves says whether it returns 0, Saved what it leaves.         *)

CanCreate(led, t) == Path[Req[t].from] \notin led.files

\* addBalance: -15 above 10^10 (TLC's integers end before), -20 if too little is
\* there.
CanPay(led, t) ==
  /\ Exists(led, Req[t].from)
  /\ Exists(led, Req[t].to)
  /\ (Req[t].amount - 1) \div 1000000 < 10000
  /\ led.acct[Req[t].from].bal >= Req[t].amount

Saves(led, t) == IF Req[t].type = "PAYMENT" THEN CanPay(led, t)
                                            ELSE CanCreate(led, t)

\* Mutant: the amount leaves the account twice.
DebitedTwice(a, amt) == [a EXCEPT !.bal = Stored(@ - 2 * amt), !.out = @ + 1]

\* Mutant: the receiver's balance is not read back from its store.
CreditedFresh(a, amt) == [a EXCEPT !.bal = Stored(InitialBalance + amt),
                                   !.in = @ + 1]

Debited(a, amt) == [a EXCEPT !.bal = Stored(@ - amt), !.out = @ + 1]
Credited(a, amt) == [a EXCEPT !.bal = Stored(@ + amt), !.in = @ + 1]

\* appendToBlockchain: one more record of t in the block file of the sender,
\* and of the receiver if both; acct is what the request has made of the
\* accounts.
Appended(led, t, acct, both) ==
  [files  |-> led.files \cup {Path[Req[t].from]},
   acct   |-> acct,
   debit  |-> [led.debit EXCEPT ![t] = @ + 1],
   credit |-> IF both THEN [led.credit EXCEPT ![t] = @ + 1] ELSE led.credit]

\* updateAcctBalances: both records are computed before either is put, and
\* the receiver's is put last.
Pay(led, t) ==
  LET r == Req[t]
      pair == [led.acct EXCEPT ![r.from] = Debited(@, r.amount)]
  IN  Appended(led, t,
        [pair EXCEPT ![r.to] = Credited(led.acct[r.to], r.amount)], TRUE)

\* createAcct.
Create(led, t) ==
  Appended(led, t,
    [led.acct EXCEPT ![Req[t].from] = NewAccount(Req[t].key)], FALSE)

\* Mutant: the block records are appended although the payment failed.
LookedAndRecorded(led, t) == [led EXCEPT !.debit[t] = @ + 1,
                                         !.credit[t] = @ + 1]

\* The lookups a payment makes before it gives up: the receiver only if the
\* sender was found.
Looked(led, t) ==
  IF Exists(led, Req[t].from) THEN Touch(led, Req[t].to)
                              ELSE Touch(led, Req[t].from)

Saved(led, t) ==
  IF Req[t].type = "PAYMENT"
  THEN IF CanPay(led, t) THEN Pay(led, t) ELSE Looked(led, t)
  ELSE IF CanCreate(led, t) THEN Create(led, t) ELSE led

-----------------------------------------------------------------------------
(* validateTrxn of omsession.cc, without the state of the transaction.      *)

\* -20, -30 and -40: the sender exists, owns the key, and keeps something.
FundsValid(led, t) ==
  LET a == led.acct[Req[t].from]
  IN  a.exists /\ a.key = Req[t].key /\ a.bal > Req[t].amount

\* Mutant: the block files are not asked.
AnyFence(led, t, fence) == TRUE

\* -50: a fence that differs is accepted unless t is already in the blocks.
FenceValid(led, t, fence) ==
  fence = Fence(led, Req[t].from) \/ ~Recorded(led, t)

\* What a node checks of a transaction a client submits ...
SubmitValid(led, t) ==
  Req[t].type = "PAYMENT" => Req[t].amount > 0 /\ FundsValid(led, t)

\* ... and of one another node sends, with the fence the first node read.
RelayValid(led, t, fence) ==
  /\ SubmitValid(led, t)
  /\ Req[t].type = "PAYMENT" => FenceValid(led, t, fence)

\* The ledger after the check: getBalanceAndPubkey looks the payer up.
Checked(led, t) ==
  IF Req[t].type = "PAYMENT" /\ Req[t].amount > 0
  THEN Touch(led, Req[t].from) ELSE led

-----------------------------------------------------------------------------
(* What the block files say of an account.                                  *)

Payments == {t \in Trxn : Req[t].type = "PAYMENT"}
PaidBy(u) == {t \in Payments : Req[t].from = u}
PaidTo(u) == {t \in Payments : Req[t].to = u}

\* What u paid and received, and how often.
Paid(led, u) ==
  SumFunctionOnSet([t \in Trxn |-> led.debit[t] * Req[t].amount], PaidBy(u))
Received(led, u) ==
  SumFunctionOnSet([t \in Trxn |-> led.credit[t] * Req[t].amount], PaidTo(u))
NumPaid(led, u) == SumFunctionOnSet(led.debit, PaidBy(u))
NumReceived(led, u) == SumFunctionOnSet(led.credit, PaidTo(u))

\* What the accounts hold together.
Opened(acct) == {u \in User : acct[u].exists}
Total(acct) == SumFunctionOnSet([u \in User |-> acct[u].bal], Opened(acct))

\* What all accounts can hold together after n payments: what they were opened
\* with and, for each payment, two roundings of half a digit at most.  LastDigit
\* is the last digit an account keeps that holds it all.
Most[n \in 0..Cardinality(Trxn)] ==
  IF n = 0 THEN InitialBalance * Cardinality(User)
           ELSE Most[n - 1] + Quantum(Most[n - 1])

LargestBalance == Most[Cardinality(Trxn)]
LastDigit == Quantum(LargestBalance)
HalfDigit == LastDigit \div 2

\* Balances have fifteen digits at most, as those of a hundred million users
\* have: a double holds such a number exactly.
ASSUME DigitsAssumption == Keeps(LargestBalance, Coarsest)

\* No payment of a user to itself: updateAcctBalances makes money of it.
NoSelfPayment == \A t \in Payments : Req[t].from # Req[t].to
=============================================================================
