---------------------------- MODULE SaveTrxnProofs ----------------------------
(***************************************************************************)
(* What the steps of saveTrxn, the crashes between them and the replay of    *)
(* the log keep true, for every set of users and transactions and any number *)
(* of crashes and failures.                                                  *)
(***************************************************************************)
EXTENDS SaveTrxn, BlockMgrProofs

(* The steps left of a save: a suffix of Steps(t).                          *)

Pay1 == <<"debit", "credit", "log", "open1", "open2", "close1", "close2", "list">>
Pay2 == <<"credit", "log", "open1", "open2", "close1", "close2", "list">>
Pay3 == <<"log", "open1", "open2", "close1", "close2", "list">>
Pay4 == <<"open1", "open2", "close1", "close2", "list">>
Pay5 == <<"open2", "close1", "close2", "list">>
Pay6 == <<"close1", "close2", "list">>
Pay7 == <<"close2", "list">>
Pay8 == <<"list">>
New1 == <<"store", "create", "log", "open1", "close1", "list">>
New2 == <<"create", "log", "open1", "close1", "list">>
New3 == <<"log", "open1", "close1", "list">>
New4 == <<"open1", "close1", "list">>
New5 == <<"close1", "list">>
New6 == <<"list">>

Rests(t) ==
  IF IsPayment(t)
  THEN {Pay1, Pay2, Pay3, Pay4, Pay5, Pay6, Pay7, Pay8, <<>>}
  ELSE {New1, New2, New3, New4, New5, New6, <<>>}

\* The step saveTrxn is about to take, when these are left.
NextStep(s) == IF s = <<>> THEN "none" ELSE Head(s)
At == NextStep(todo)

Ordered == todo \in Rests(Trx)

\* b comes after a in a save of t.
Follows(t, a, b) ==
  IF IsPayment(t)
  THEN \/ a = "debit" /\ b = "credit"
       \/ a = "credit" /\ b = "log"
       \/ a = "log" /\ b = "open1"
       \/ a = "open1" /\ b = "open2"
       \/ a = "open2" /\ b = "close1"
       \/ a = "close1" /\ b = "close2"
       \/ a = "close2" /\ b = "list"
       \/ a = "list" /\ b = "none"
  ELSE \/ a = "store" /\ b = "create"
       \/ a = "create" /\ b = "log"
       \/ a = "log" /\ b = "open1"
       \/ a = "open1" /\ b = "close1"
       \/ a = "close1" /\ b = "list"
       \/ a = "list" /\ b = "none"

\* The suffixes one by one.
LEMMA PayRests ==
  /\ Pay1 # <<>> /\ Head(Pay1) = "debit" /\ Tail(Pay1) = Pay2
  /\ Pay2 # <<>> /\ Head(Pay2) = "credit" /\ Tail(Pay2) = Pay3
  /\ Pay3 # <<>> /\ Head(Pay3) = "log" /\ Tail(Pay3) = Pay4
  /\ Pay4 # <<>> /\ Head(Pay4) = "open1" /\ Tail(Pay4) = Pay5
  /\ Pay5 # <<>> /\ Head(Pay5) = "open2" /\ Tail(Pay5) = Pay6
  /\ Pay6 # <<>> /\ Head(Pay6) = "close1" /\ Tail(Pay6) = Pay7
  /\ Pay7 # <<>> /\ Head(Pay7) = "close2" /\ Tail(Pay7) = Pay8
  /\ Pay8 # <<>> /\ Head(Pay8) = "list" /\ Tail(Pay8) = <<>>
<1>1. /\ Pay1 # <<>> /\ Head(Pay1) = "debit" /\ Tail(Pay1) = Pay2
      /\ Pay2 # <<>> /\ Head(Pay2) = "credit" /\ Tail(Pay2) = Pay3
      /\ Pay3 # <<>> /\ Head(Pay3) = "log" /\ Tail(Pay3) = Pay4
      /\ Pay4 # <<>> /\ Head(Pay4) = "open1" /\ Tail(Pay4) = Pay5
  BY DEF Pay1, Pay2, Pay3, Pay4, Pay5
<1>2. /\ Pay5 # <<>> /\ Head(Pay5) = "open2" /\ Tail(Pay5) = Pay6
      /\ Pay6 # <<>> /\ Head(Pay6) = "close1" /\ Tail(Pay6) = Pay7
      /\ Pay7 # <<>> /\ Head(Pay7) = "close2" /\ Tail(Pay7) = Pay8
      /\ Pay8 # <<>> /\ Head(Pay8) = "list" /\ Tail(Pay8) = <<>>
  BY DEF Pay5, Pay6, Pay7, Pay8
<1> QED BY <1>1, <1>2

LEMMA NewRests ==
  /\ New1 # <<>> /\ Head(New1) = "store" /\ Tail(New1) = New2
  /\ New2 # <<>> /\ Head(New2) = "create" /\ Tail(New2) = New3
  /\ New3 # <<>> /\ Head(New3) = "log" /\ Tail(New3) = New4
  /\ New4 # <<>> /\ Head(New4) = "open1" /\ Tail(New4) = New5
  /\ New5 # <<>> /\ Head(New5) = "close1" /\ Tail(New5) = New6
  /\ New6 # <<>> /\ Head(New6) = "list" /\ Tail(New6) = <<>>
BY DEF New1, New2, New3, New4, New5, New6

LEMMA RestsFollow ==
  ASSUME NEW t, NEW s \in Rests(t), s # <<>>
  PROVE  Tail(s) \in Rests(t) /\ Follows(t, NextStep(s), NextStep(Tail(s)))
<1>1. CASE IsPayment(t)
  <2>1. Tail(s) \in Rests(t)
    BY <1>1, PayRests DEF Rests
  <2>2. Follows(t, NextStep(s), NextStep(Tail(s)))
    BY ZenonT(40), <1>1, PayRests DEF Rests, Follows, NextStep
  <2> QED BY <2>1, <2>2
<1>2. CASE ~IsPayment(t)
  <2>1. Tail(s) \in Rests(t)
    BY <1>2, NewRests DEF Rests
  <2>2. Follows(t, NextStep(s), NextStep(Tail(s)))
    BY <1>2, NewRests DEF Rests, Follows, NextStep
  <2> QED BY <2>1, <2>2
<1> QED BY <1>1, <1>2

LEMMA RestsEnd ==
  ASSUME NEW t, NEW s \in Rests(t)
  PROVE  s = <<>> <=> NextStep(s) = "none"
BY PayRests, NewRests DEF Rests, NextStep

LEMMA Moves ==
  ASSUME Ordered, todo # <<>>, todo' = Tail(todo), Trx' = Trx
  PROVE  Ordered' /\ Follows(Trx, At, At')
BY RestsFollow DEF Ordered, At

LEMMA Starts ==
  ASSUME todo' = Steps(Trx')
  PROVE  /\ Ordered' /\ todo' # <<>>
         /\ At' = IF IsPayment(Trx') THEN "debit" ELSE "store"
<1>1. /\ Steps(Trx') = IF IsPayment(Trx') THEN Pay1 ELSE New1
      /\ Steps(Trx') \in Rests(Trx')
  BY DEF Steps, Pay1, New1, Rests
<1> QED BY <1>1, PayRests, NewRests DEF Ordered, At, NextStep

LEMMA Stops == ASSUME todo' = <<>> PROVE Ordered' /\ At' = "none" /\ Idle'
BY DEF Ordered, Rests, At, NextStep, Idle

LEMMA RestsType ==
  ASSUME NEW t, NEW s \in Rests(t)
  PROVE  s \in Seq(Step)
<1>1. /\ Pay1 \in Seq(Step) /\ Pay2 \in Seq(Step) /\ Pay3 \in Seq(Step)
      /\ Pay4 \in Seq(Step)
  BY DEF Pay1, Pay2, Pay3, Pay4, Step
<1>2. /\ Pay5 \in Seq(Step) /\ Pay6 \in Seq(Step) /\ Pay7 \in Seq(Step)
      /\ Pay8 \in Seq(Step) /\ <<>> \in Seq(Step)
  BY DEF Pay5, Pay6, Pay7, Pay8, Step
<1>3. /\ New1 \in Seq(Step) /\ New2 \in Seq(Step) /\ New3 \in Seq(Step)
      /\ New4 \in Seq(Step) /\ New5 \in Seq(Step) /\ New6 \in Seq(Step)
  BY DEF New1, New2, New3, New4, New5, New6, Step
<1> QED BY <1>1, <1>2, <1>3, Zenon DEF Rests

LEMMA StepsType ==
  ASSUME Ordered
  PROVE  /\ todo \in Seq(Step)
         /\ Idle <=> At = "none"
         /\ ~Idle /\ Left("credit") /\ ~Left("debit") <=> At = "credit"
         /\ \A s : Doing(s) => At = s /\ todo # <<>>
         /\ Idle => ~Left("close1") /\ ~Left("close2")
<1>1. todo \in Seq(Step)
  BY RestsType DEF Ordered
<1>2. Idle <=> At = "none"
  BY RestsEnd DEF Ordered, At, Idle
<1>3. ~Idle /\ Left("credit") /\ ~Left("debit") <=> At = "credit"
  <2>1. CASE IsPayment(Trx)
    BY SMTT(30), <2>1 DEF Ordered, Rests, Pay1, Pay2, Pay3, Pay4, Pay5, Pay6, Pay7, Pay8,
                At, NextStep, Idle, Left
  <2>2. CASE ~IsPayment(Trx)
    BY <2>2 DEF Ordered, Rests, New1, New2, New3, New4, New5, New6, At, NextStep, Idle,
                Left
  <2> QED BY <2>1, <2>2
<1> QED BY <1>1, <1>2, <1>3 DEF At, NextStep, Doing, Idle, Left

-----------------------------------------------------------------------------
(* Counting in sequences, and in the block files.                           *)

LEMMA CountType ==
  ASSUME NEW S, NEW s \in Seq(S), NEW x
  PROVE  Count(s, x) \in Nat
<1>1. IsFiniteSet({i \in 1..Len(s) : s[i] = x})
  BY FS_Interval, FS_Subset
<1> QED BY <1>1, FS_CardinalityType DEF Count

LEMMA CountEmpty == \A x : Count(<<>>, x) = 0
<1>1. \A x : {i \in 1..Len(<<>>) : <<>>[i] = x} = {}
  OBVIOUS
<1> QED BY <1>1, FS_EmptySet DEF Count

LEMMA CountAppend ==
  ASSUME NEW S, NEW s \in Seq(S), NEW y \in S, NEW x
  PROVE  Count(Append(s, y), x) = Count(s, x) + (IF y = x THEN 1 ELSE 0)
<1> DEFINE I == {i \in 1..Len(s) : s[i] = x}
           J == {i \in 1..Len(Append(s, y)) : Append(s, y)[i] = x}
           n == Len(s) + 1
<1>1. IsFiniteSet(I) /\ n \notin I
  BY FS_Interval, FS_Subset
<1>2. /\ Len(Append(s, y)) = n /\ Append(s, y)[n] = y
      /\ \A i \in 1..Len(s) : Append(s, y)[i] = s[i]
  OBVIOUS
<1>3. J = IF y = x THEN I \cup {n} ELSE I
  BY <1>2
<1>4. Cardinality(I \cup {n}) = Cardinality(I) + 1
  BY <1>1, FS_AddElement
<1>5. Cardinality(I) \in Nat
  BY <1>1, FS_CardinalityType
<1>6. Count(s, x) = Cardinality(I) /\ Count(Append(s, y), x) = Cardinality(J)
  BY DEF Count
<1> HIDE DEF I, J, n
<1> QED BY <1>3, <1>4, <1>5, <1>6

LEMMA CountOne ==
  ASSUME NEW x, NEW y
  PROVE  Count(<<y>>, x) = IF y = x THEN 1 ELSE 0
<1>1. <<>> \in Seq({y}) /\ Append(<<>>, y) = <<y>>
  OBVIOUS
<1>2. \A s \in Seq({y}) :
        Count(Append(s, y), x) = Count(s, x) + (IF y = x THEN 1 ELSE 0)
  BY CountAppend
<1>3. Count(<<y>>, x) = Count(<<>>, x) + (IF y = x THEN 1 ELSE 0)
  BY <1>1, <1>2, Zenon
<1> QED BY <1>3, CountEmpty

Record(t, side) == [trxn |-> t, side |-> side]
RecordsIn(B, t, side) ==
  SumFunctionOnSet([b \in Bucket |-> Count(B[b], Record(t, side))], Bucket)

LEMMA RecordsAre ==
  \A t, side : /\ Records(t, side) = RecordsIn(blocks, t, side)
               /\ Records(t, side)' = RecordsIn(blocks', t, side)
BY DEF Records, RecordsIn, Record

Blocks == [Bucket -> Seq(Block)]

LEMMA RecordsType ==
  ASSUME NEW B \in Blocks, NEW t, NEW side
  PROVE  RecordsIn(B, t, side) \in Nat
<1> DEFINE f == [b \in Bucket |-> Count(B[b], Record(t, side))]
<1>1. \A b \in Bucket : f[b] \in Nat
  BY CountType DEF Blocks
<1> HIDE DEF f
<1>2. SumFunctionOnSet(f, Bucket) \in Nat
  BY <1>1, SumNat, FiniteAssumption
<1> QED BY <1>2 DEF f, RecordsIn

LEMMA RecordsAppend ==
  ASSUME NEW B \in Blocks, NEW C, NEW a \in Bucket, NEW r \in Block,
         C[a] = Append(B[a], r), \A b \in Bucket \ {a} : C[b] = B[b], NEW t, NEW side
  PROVE  RecordsIn(C, t, side)
           = RecordsIn(B, t, side) + (IF r = Record(t, side) THEN 1 ELSE 0)
<1> DEFINE f == [b \in Bucket |-> Count(B[b], Record(t, side))]
           g == [b \in Bucket |-> Count(C[b], Record(t, side))]
           n == IF r = Record(t, side) THEN 1 ELSE 0
<1>1. /\ \A b \in Bucket : f[b] \in Nat
      /\ g[a] = f[a] + n
      /\ \A b \in Bucket : b # a => g[b] = f[b]
  <2>1. \A b \in Bucket : f[b] \in Nat
    BY CountType DEF Blocks
  <2>2. B[a] \in Seq(Block)
    BY DEF Blocks
  <2>3. Count(Append(B[a], r), Record(t, side)) = Count(B[a], Record(t, side)) + n
    BY <2>2, CountAppend
  <2> QED BY <2>1, <2>3
<1>2. n \in {0, 1}
  OBVIOUS
<1>3. RecordsIn(B, t, side) = SumFunctionOnSet(f, Bucket)
      /\ RecordsIn(C, t, side) = SumFunctionOnSet(g, Bucket)
  BY DEF RecordsIn
<1> HIDE DEF f, g, n
<1>4. f[a] \in Int /\ g[a] \in Int /\ g[a] - f[a] = n
  BY <1>1, <1>2
<1>5. SumFunctionOnSet(g, Bucket) = SumFunctionOnSet(f, Bucket) - f[a] + g[a]
  BY <1>1, <1>4, SumChange, FiniteAssumption
<1>6. SumFunctionOnSet(f, Bucket) \in Int
  BY <1>1, SumInt, FiniteAssumption
<1>7. SumFunctionOnSet(g, Bucket) = SumFunctionOnSet(f, Bucket) + n
  BY <1>4, <1>5, <1>6
<1> QED BY <1>3, <1>7 DEF n

\* A torn record is the record of nobody, and neither the crash nor the
\* rollback that leaves one adds another.
LEMMA RecordsTorn ==
  ASSUME NEW B \in Blocks, NEW C \in Blocks, NEW t, NEW side \in {"-", "+"},
         \A b \in Bucket : \/ C[b] = B[b]
                           \/ \E u \in Trxn : C[b] = Append(B[b], Record(u, "torn"))
                           \/ \E u \in Trxn : C[b] = <<Record(u, "torn")>>
  PROVE  RecordsIn(C, t, side) <= RecordsIn(B, t, side)
<1> DEFINE f == [b \in Bucket |-> Count(B[b], Record(t, side))]
           g == [b \in Bucket |-> Count(C[b], Record(t, side))]
<1>1. \A u \in Trxn : Record(u, "torn") \in Block /\ Record(u, "torn") # Record(t, side)
  BY DEF Record, Block
<1>2. \A b \in Bucket : f[b] \in Nat /\ g[b] \in Nat
  BY CountType DEF Blocks
<1>3. ASSUME NEW b \in Bucket PROVE g[b] <= f[b]
  <2>1. CASE C[b] = B[b]
    BY <2>1, <1>2
  <2>2. CASE \E u \in Trxn : C[b] = Append(B[b], Record(u, "torn"))
    <3>1. PICK u \in Trxn : C[b] = Append(B[b], Record(u, "torn"))
      BY <2>2
    <3>2. B[b] \in Seq(Block)
      BY DEF Blocks
    <3>3. Count(C[b], Record(t, side)) = Count(B[b], Record(t, side)) + 0
      BY <3>1, <3>2, <1>1, CountAppend
    <3> QED BY <3>3, <1>2
  <2>3. CASE \E u \in Trxn : C[b] = <<Record(u, "torn")>>
    <3>1. PICK u \in Trxn : C[b] = <<Record(u, "torn")>>
      BY <2>3
    <3>2. Count(C[b], Record(t, side)) = 0
      BY <3>1, <1>1, CountOne
    <3> QED BY <3>2, <1>2
  <2> QED BY <2>1, <2>2, <2>3
<1>4. RecordsIn(B, t, side) = SumFunctionOnSet(f, Bucket)
      /\ RecordsIn(C, t, side) = SumFunctionOnSet(g, Bucket)
  BY DEF RecordsIn
<1> HIDE DEF f, g
<1>5. SumFunctionOnSet(g, Bucket) <= SumFunctionOnSet(f, Bucket)
  BY <1>2, <1>3, SumLess, FiniteAssumption
<1> QED BY <1>4, <1>5

-----------------------------------------------------------------------------
(* The base of every other invariant: each process, the first and the one    *)
(* after each crash, has logged a transaction once at most, and a replay is  *)
(* where its log entry is.                                                   *)

\* The steps before the first record is put, and up to the log entry.
Putting == {"debit", "store", "create"}
BeforeLog == Putting \cup {"credit", "log"}

\* This process has committed t, and is past the log entry for it.
Own(t) == t \in begun /\ ~(At \in BeforeLog /\ Trx = t)

LogOK ==
  /\ Replaying => begun = {}
  /\ ~Idle => IF Replaying THEN cursor <= Len(wal) /\ wal[cursor] = Trx
                           ELSE Trx \in begun
  /\ \A t \in Trxn : Count(wal, t) <= crashes + (IF Own(t) THEN 1 ELSE 0)

\* What updateAcctBalances has found before it puts the first record.
Prepared ==
  At = "debit" => /\ acct[Sender].exists /\ acct[Receiver].exists
                  /\ acct[Sender].bal >= Req[Trx].amount

Base == TypeOK /\ Ordered /\ LogOK /\ Prepared

\* A step of a save, and the end of one.
Goes == todo # <<>> /\ GoOn(Tail(todo)) /\ job' = job
Ends == todo # <<>> /\ GoOn(<<>>) /\ job' = job

LEMMA GoesOn ==
  ASSUME Ordered, Goes
  PROVE  /\ Ordered' /\ ~Idle /\ Follows(Trx, At, At')
         /\ Trx' = Trx /\ Sender' = Sender /\ Receiver' = Receiver
         /\ Idle' <=> At' = "none"
         /\ cursor' = IF Idle' /\ Replaying THEN cursor + 1 ELSE cursor
<1>1. Trx' = Trx /\ Sender' = Sender /\ Receiver' = Receiver /\ ~Idle
  BY DEF Goes, Trx, Sender, Receiver, Idle
<1>2. Ordered' /\ Follows(Trx, At, At')
  BY <1>1, Moves DEF Goes, GoOn
<1>3. Idle' <=> At' = "none"
  BY <1>2, RestsEnd DEF Ordered, At, Idle
<1> QED BY <1>1, <1>2, <1>3 DEF Goes, GoOn, Idle

LEMMA EndsNow ==
  ASSUME Ends
  PROVE  /\ Ordered' /\ ~Idle /\ At' = "none" /\ Idle'
         /\ Trx' = Trx /\ Sender' = Sender /\ Receiver' = Receiver
         /\ cursor' = IF Replaying THEN cursor + 1 ELSE cursor
BY Stops DEF Ends, GoOn, Idle, Trx, Sender, Receiver

\* A step that does not write to the log keeps what is known of it.
LEMMA LogKept ==
  ASSUME Base, Goes \/ Ends, UNCHANGED <<wal, begun, crashes>>
  PROVE  /\ LogOK' /\ Ordered' /\ cursor' \in 0..Len(wal') + 1
         /\ todo' \in Seq(Step)
         /\ todo' # <<>> => job' \in Job
         /\ begun' \subseteq Trxn /\ wal' \in Seq(Trxn)
<1>1. /\ Len(wal) \in Nat /\ cursor \in 0..Len(wal) + 1 /\ todo \in Seq(Step)
      /\ crashes \in Nat /\ \A t \in Trxn : Count(wal, t) \in Nat
  BY CountType DEF Base, TypeOK
<1>2. ASSUME Trx' = Trx, At' \in BeforeLog => At \in BeforeLog, NEW t \in Trxn
      PROVE  Count(wal', t) <= crashes' + (IF Own(t)' THEN 1 ELSE 0)
  <2>1. Own(t) => Own(t)'
    BY <1>2 DEF Own
  <2>2. Count(wal, t) <= crashes + (IF Own(t) THEN 1 ELSE 0)
    BY DEF Base, LogOK
  <2> QED BY <1>1, <2>1, <2>2
<1>3. CASE Goes
  <2>1. /\ Ordered' /\ ~Idle /\ Follows(Trx, At, At') /\ Trx' = Trx
        /\ cursor' = IF Idle' /\ Replaying THEN cursor + 1 ELSE cursor
    BY <1>3, GoesOn DEF Base
  <2>2. At' \in BeforeLog => At \in BeforeLog
    BY <2>1 DEF Follows, BeforeLog, Putting
  <2>3. Replaying' <=> Replaying
    BY <1>1, <2>1 DEF Replaying
  <2>4. LogOK'
    BY <1>2, <2>1, <2>2, <2>3 DEF Base, LogOK
  <2>5. cursor' \in 0..Len(wal') + 1
    BY <1>1, <2>1 DEF Base, LogOK, Replaying
  <2>6. todo' \in Seq(Step) /\ (todo' # <<>> => job' \in Job)
    BY <1>1, <1>3 DEF Goes, GoOn, Base, TypeOK
  <2> QED BY <2>1, <2>4, <2>5, <2>6 DEF Base, TypeOK
<1>4. CASE Ends
  <2>1. /\ Ordered' /\ ~Idle /\ At' = "none" /\ Idle' /\ Trx' = Trx
        /\ cursor' = IF Replaying THEN cursor + 1 ELSE cursor
    BY <1>4, EndsNow
  <2>2. Replaying' <=> Replaying
    BY <1>1, <2>1 DEF Replaying
  <2>3. At' \notin BeforeLog
    BY <2>1 DEF BeforeLog, Putting
  <2>4. LogOK'
    BY <1>2, <2>1, <2>2, <2>3 DEF Base, LogOK
  <2>5. cursor' \in 0..Len(wal') + 1
    BY <1>1, <2>1 DEF Base, LogOK, Replaying
  <2>6. todo' = <<>>
    BY <1>4 DEF Ends, GoOn
  <2> QED BY <2>1, <2>4, <2>5, <2>6 DEF Base, TypeOK
<1> QED BY <1>3, <1>4

LEMMA JobType ==
  ASSUME Base, todo # <<>>
  PROVE  /\ Trx \in Trxn /\ job.to \in Account /\ job.before \in Ledger
         /\ Sender \in User /\ Receiver \in User
         /\ Req[Trx].amount \in Nat /\ Req[Trx].key \in Key
         /\ Path[Sender] \in Bucket /\ Path[Receiver] \in Bucket
BY RequestType DEF Base, TypeOK, Job, Trx, Sender, Receiver

\* A step of a save other than the log entry, whatever it writes.
LEMMA QuietBase ==
  ASSUME Base, Goes \/ Ends, UNCHANGED <<wal, begun, crashes>>,
         acct' \in [User -> Account], files' \subseteq Bucket,
         blocks' \in [Bucket -> Seq(Block)], listed' \subseteq Trxn,
         debits' \in [Trxn -> Nat], credits' \in [Trxn -> Nat],
         faults' \in 0..MaxFaults
  PROVE  Base'
<1>1. /\ LogOK' /\ Ordered' /\ cursor' \in 0..Len(wal') + 1
      /\ todo' \in Seq(Step) /\ (todo' # <<>> => job' \in Job)
      /\ begun' \subseteq Trxn /\ wal' \in Seq(Trxn)
  BY LogKept
<1>2. TypeOK'
  BY <1>1 DEF TypeOK, Base
<1>3. At' # "debit"
  <2>1. Goes => Follows(Trx, At, At')
    BY GoesOn DEF Base
  <2>2. Ends => At' = "none"
    BY EndsNow
  <2> QED BY <2>1, <2>2 DEF Follows
<1> QED BY <1>1, <1>2, <1>3 DEF Base, Prepared

LEMMA PutsBase ==
  ASSUME Base, PutSender \/ PutReceiver \/ OpenStore \/ PutAccount
  PROVE  Base' /\ Goes
<1>1. /\ acct \in [User -> Account] /\ files \subseteq Bucket
      /\ blocks \in [Bucket -> Seq(Block)] /\ listed \subseteq Trxn
      /\ debits \in [Trxn -> Nat] /\ credits \in [Trxn -> Nat]
      /\ crashes \in 0..MaxCrashes /\ faults \in 0..MaxFaults
  BY DEF Base, TypeOK
<1>2. Goes
  BY DEF PutSender, PutReceiver, OpenStore, PutAccount, Doing, Goes
<1>3. /\ Trx \in Trxn /\ job.to \in Account /\ Sender \in User
      /\ Receiver \in User /\ Path[Sender] \in Bucket /\ Req[Trx].key \in Key
  BY <1>2, JobType DEF Goes
<1>4. UNCHANGED <<wal, begun, blocks, listed, crashes, faults>>
  BY DEF PutSender, PutReceiver, OpenStore, PutAccount, history
<1>5. CASE PutSender
  <2>1. Debited(acct[Sender], Req[Trx].amount) \in Account
    <3>1. At = "debit"
      BY <1>5, StepsType DEF PutSender, Base
    <3>2. acct[Sender].bal >= Req[Trx].amount /\ acct[Sender] \in Account
      BY <3>1, <1>1, <1>3 DEF Base, Prepared
    <3>3. Req[Trx].amount \in Nat /\ Req[Trx].amount <= acct[Sender].bal
      BY <3>2, <1>3, RequestType DEF Account
    <3> QED BY <3>2, <3>3, DebitedType
  <2>2. /\ acct' \in [User -> Account] /\ debits' \in [Trxn -> Nat]
        /\ credits' = credits /\ files' = files
    BY <1>1, <1>3, <1>5, <2>1 DEF PutSender
  <2> QED BY <1>1, <1>2, <1>4, <2>2, QuietBase
<1>6. CASE PutReceiver
  <2>1. /\ acct' \in [User -> Account] /\ credits' \in [Trxn -> Nat]
        /\ debits' = debits /\ files' = files
    BY <1>1, <1>3, <1>6 DEF PutReceiver
  <2> QED BY <1>1, <1>2, <1>4, <2>1, QuietBase
<1>7. CASE PutAccount
  <2>1. NewAccount(Req[Trx].key) \in Account
    BY <1>3, NewAccountType
  <2>2. /\ acct' \in [User -> Account] /\ debits' \in [Trxn -> Nat]
        /\ credits' = credits /\ files' = files
    BY <1>1, <1>3, <1>7, <2>1 DEF PutAccount
  <2> QED BY <1>1, <1>2, <1>4, <2>2, QuietBase
<1>8. CASE OpenStore
  <2>1. /\ acct' = acct /\ debits' = debits /\ credits' = credits
        /\ files' \subseteq Bucket
    BY <1>1, <1>3, <1>8 DEF OpenStore, history
  <2> QED BY <1>1, <1>2, <1>4, <2>1, QuietBase
<1> QED BY <1>2, <1>5, <1>6, <1>7, <1>8

LEMMA FilesBase ==
  ASSUME Base, \/ Open \/ OpenFails \/ Rollback \/ CloseSender \/ CloseReceiver
               \/ SaveTrxnList
  PROVE  Base'
<1>1. /\ acct \in [User -> Account] /\ files \subseteq Bucket
      /\ blocks \in [Bucket -> Seq(Block)] /\ listed \subseteq Trxn
      /\ debits \in [Trxn -> Nat] /\ credits \in [Trxn -> Nat]
      /\ crashes \in 0..MaxCrashes /\ faults \in 0..MaxFaults
  BY DEF Base, TypeOK
<1>2. Goes \/ Ends
  BY DEF Open, OpenFails, Rollback, CloseSender, CloseReceiver, SaveTrxnList,
         Doing, Goes, Ends
<1>3. Trx \in Trxn /\ Path[Sender] \in Bucket /\ Path[Receiver] \in Bucket
  BY <1>2, JobType DEF Goes, Ends
<1>4. UNCHANGED <<acct, files, wal, begun, debits, credits, crashes>>
  BY DEF Open, OpenFails, Rollback, CloseSender, CloseReceiver, SaveTrxnList,
         history
<1>5. faults' \in 0..MaxFaults
  BY <1>1, BoundAssumption DEF Open, OpenFails, Rollback, CloseSender,
     CloseReceiver, SaveTrxnList, history
<1>6. listed' \subseteq Trxn
  BY <1>1, <1>3 DEF Open, OpenFails, Rollback, CloseSender, CloseReceiver,
     SaveTrxnList
<1>7. blocks' \in [Bucket -> Seq(Block)]
  <2>1. /\ [trxn |-> Trx, side |-> "torn"] \in Block
        /\ [trxn |-> Trx, side |-> "-"] \in Block
        /\ [trxn |-> Trx, side |-> "+"] \in Block
    BY <1>3 DEF Block
  <2>2. CASE Open \/ OpenFails \/ SaveTrxnList
    BY <1>1, <2>2 DEF Open, OpenFails, SaveTrxnList
  <2>3. CASE Rollback
    BY <1>1, <1>3, <2>1, <2>3 DEF Rollback
  <2>4. CASE CloseSender
    BY <1>1, <1>3, <2>1, <2>4 DEF CloseSender
  <2>5. CASE CloseReceiver
    BY <1>1, <1>3, <2>1, <2>5 DEF CloseReceiver
  <2> QED BY <2>2, <2>3, <2>4, <2>5
<1> QED BY <1>1, <1>2, <1>4, <1>5, <1>6, <1>7, QuietBase

LEMMA WriteLogBase == ASSUME Base, WriteLog PROVE Base' /\ Goes
<1>1. Goes /\ At = "log" /\ ~Idle
  BY StepsType DEF WriteLog, Doing, Goes, Base, Idle
<1>2. /\ Ordered' /\ Follows(Trx, At, At') /\ Trx' = Trx
      /\ cursor' = IF Idle' /\ Replaying THEN cursor + 1 ELSE cursor
  BY <1>1, GoesOn DEF Base
<1>3. At' = "open1" /\ ~Idle'
  <2>1. At' = "open1"
    BY <1>1, <1>2 DEF Follows
  <2> QED BY <2>1 DEF At, NextStep, Idle
<1>4. /\ cursor' = cursor /\ cursor \in 0..Len(wal) + 1 /\ wal \in Seq(Trxn)
      /\ Trx \in Trxn /\ begun' = begun /\ crashes' = crashes /\ crashes \in Nat
      /\ \A t \in Trxn : Count(wal, t) \in Nat
      /\ \A t \in Trxn : Count(wal, t) <= crashes + (IF Own(t) THEN 1 ELSE 0)
  BY <1>1, <1>2, <1>3, JobType, CountType DEF Base, LogOK, Goes, TypeOK, WriteLog, history
<1>10. /\ \A t : t = Trx => ~Own(t) /\ (t \in begun => Own(t)')
       /\ \A t : Own(t) => Own(t)'
  BY <1>1, <1>2, <1>3, <1>4 DEF Own, BeforeLog, Putting
<1>5. ASSUME Logs
      PROVE  LogOK' /\ cursor' \in 0..Len(wal') + 1 /\ wal' \in Seq(Trxn)
  <2>1. ~Replaying /\ wal' = Append(wal, Trx) /\ wal' \in Seq(Trxn)
    BY <1>4, <1>5 DEF WriteLog, Logs
  <2>2. Trx \in begun /\ Len(wal') = Len(wal) + 1
    BY <1>1, <1>4, <2>1 DEF Base, LogOK
  <2>3. \A t \in Trxn : Count(wal', t) = Count(wal, t) + (IF Trx = t THEN 1 ELSE 0)
    BY <1>4, <2>1, CountAppend
  <2>4. \A t \in Trxn : Count(wal', t) <= crashes' + (IF Own(t)' THEN 1 ELSE 0)
    BY <1>4, <1>10, <2>2, <2>3
  <2>5. LogOK' /\ cursor' \in 0..Len(wal') + 1
    BY <1>2, <1>3, <1>4, <2>1, <2>2, <2>4 DEF LogOK, Replaying
  <2> QED BY <2>1, <2>5
<1>6. ASSUME ~Logs
      PROVE  LogOK' /\ cursor' \in 0..Len(wal') + 1 /\ wal' \in Seq(Trxn)
  <2>1. wal' = wal
    BY <1>6 DEF WriteLog
  <2>2. \A t \in Trxn : Count(wal', t) <= crashes' + (IF Own(t)' THEN 1 ELSE 0)
    BY <1>4, <1>10, <2>1
  <2>3. LogOK' /\ cursor' \in 0..Len(wal') + 1
    BY <1>1, <1>2, <1>3, <1>4, <2>1, <2>2 DEF Base, LogOK, Replaying
  <2> QED BY <2>1, <2>3, <1>4
<1>7. LogOK' /\ cursor' \in 0..Len(wal') + 1 /\ wal' \in Seq(Trxn)
  BY <1>5, <1>6
<1>8. todo' \in Seq(Step) /\ (todo' # <<>> => job' \in Job)
  BY <1>1 DEF Goes, GoOn, Base, TypeOK
<1>9. TypeOK'
  BY <1>4, <1>7, <1>8 DEF WriteLog, Base, TypeOK, history
<1> QED BY <1>1, <1>2, <1>3, <1>7, <1>9 DEF Base, Prepared

LEMMA LedgerNowType ==
  ASSUME TypeOK
  PROVE  LedgerNow \in Ledger
<1>1. \A t \in Trxn : Records(t, "-") \in Nat /\ Records(t, "+") \in Nat
  BY RecordsAre, RecordsType DEF TypeOK, Blocks
<1> QED BY <1>1 DEF LedgerNow, Ledger, TypeOK

\* saveTrxn is called for t, by the handler or by the replay.
LEMMA StartBase ==
  ASSUME Base, Idle, NEW t \in Trxn, Start(t),
         IF Replaying THEN cursor <= Len(wal) /\ wal[cursor] = t /\ begun' = begun
                      ELSE t \notin begun /\ begun' = begun \cup {t}
  PROVE  /\ Base' /\ Trx' = t
         /\ \/ Saves(LedgerNow, t) /\ ~Idle' /\ cursor' = cursor
               /\ At' = (IF IsPayment(t) THEN "debit" ELSE "store")
            \/ ~Saves(LedgerNow, t) /\ Idle' /\ At' = "none"
               /\ cursor' = IF Replaying THEN cursor + 1 ELSE cursor
<1>1. Trx' = t
  BY DEF Start, Trx
<1>2. /\ cursor \in 0..Len(wal) + 1 /\ Len(wal) \in Nat /\ wal' = wal
      /\ crashes' = crashes /\ crashes \in Nat /\ \A u \in Trxn : Count(wal, u) \in Nat
      /\ begun' \subseteq Trxn
  <2>1. wal \in Seq(Trxn) /\ crashes \in Nat /\ begun \subseteq Trxn
        /\ cursor \in 0..Len(wal) + 1
    BY DEF Base, TypeOK
  <2>2. wal' = wal /\ crashes' = crashes
    BY DEF Start
  <2>3. begun' \subseteq Trxn
    BY <2>1
  <2> QED BY <2>1, <2>2, <2>3, CountType
<1>3. (Replaying => begun' = {}) /\ (~Replaying => Trx' \in begun')
  BY <1>1 DEF Base, LogOK
<1>4. \A u \in Trxn : Count(wal', u) <= crashes' + (IF Own(u)' THEN 1 ELSE 0)
  <2> TAKE u \in Trxn
  <2>1. Own(u) => Own(u)'
    BY <1>1 DEF Own, Base, LogOK
  <2>2. Count(wal, u) <= crashes + (IF Own(u) THEN 1 ELSE 0)
    BY DEF Base, LogOK
  <2> QED BY <1>2, <2>1, <2>2
<1>5. job' \in Job
  <2>1. Credited(acct[Req[t].to], Req[t].amount) \in Account
    BY CreditedType, RequestType DEF Base, TypeOK
  <2> QED BY <2>1, LedgerNowType DEF Start, Job, Base
<1>6. ASSUME Saves(LedgerNow, t), GoOn(Steps(t)), UNCHANGED files
      PROVE  /\ Base' /\ ~Idle' /\ cursor' = cursor
             /\ At' = (IF IsPayment(t) THEN "debit" ELSE "store")
  <2>1. /\ Ordered' /\ ~Idle' /\ todo' # <<>>
        /\ At' = IF IsPayment(t) THEN "debit" ELSE "store"
    BY <1>1, <1>6, Starts DEF GoOn, Idle
  <2>2. cursor' = cursor
    BY <1>6, <2>1 DEF GoOn
  <2>3. LogOK'
    BY <1>1, <1>2, <1>3, <1>4, <2>1, <2>2 DEF LogOK, Replaying
  <2>4. todo' \in Seq(Step)
    <3>1. \A s \in Rests(t) : s \in Seq(Step)
      BY RestsType
    <3> QED BY <1>1, <2>1, <3>1 DEF Ordered
  <2>5. TypeOK'
    <3>1. UNCHANGED <<acct, files, blocks, wal, listed, debits, credits, crashes, faults>>
      BY <1>6 DEF Start
    <3> QED BY <1>2, <1>5, <2>2, <2>4, <3>1 DEF TypeOK, Base
  <2>6. Prepared'
    <3>1. At' = "debit" => CanPay(LedgerNow, t)
      BY <1>6, <2>1 DEF Saves, IsPayment
    <3>2. acct' = acct /\ Sender' = Req[t].from /\ Receiver' = Req[t].to
      BY <1>1 DEF Start, Sender, Receiver
    <3> QED BY <1>1, <3>1, <3>2 DEF Prepared, CanPay, Exists, LedgerNow
  <2> QED BY <2>1, <2>2, <2>3, <2>5, <2>6 DEF Base
<1>7. ASSUME GoOn(<<>>), files' = Saved(LedgerNow, t).files
      PROVE  /\ Base' /\ Idle' /\ At' = "none"
             /\ cursor' = IF Replaying THEN cursor + 1 ELSE cursor
  <2>1. Ordered' /\ At' = "none" /\ Idle' /\ todo' = <<>>
    BY <1>7, Stops DEF GoOn
  <2>2. cursor' = IF Replaying THEN cursor + 1 ELSE cursor
    BY <1>7 DEF GoOn
  <2>3. LogOK'
    <3>1. Replaying' => Replaying
      BY <1>2, <2>2 DEF Replaying
    <3> QED BY <1>3, <1>4, <2>1, <3>1 DEF LogOK
  <2>4. cursor' \in 0..Len(wal') + 1
    BY <1>2, <2>2 DEF Replaying
  <2>5. files' \subseteq Bucket
    <3>1. Saved(LedgerNow, t) \in Ledger
      BY LedgerNowType, SavedType DEF Base
    <3> QED BY <1>7, <3>1 DEF Ledger
  <2>6. TypeOK'
    <3>1. UNCHANGED <<acct, blocks, wal, listed, debits, credits, crashes, faults>>
      BY DEF Start
    <3>2. todo' \in Seq(Step)
      BY <2>1
    <3> QED BY <1>2, <2>1, <2>4, <2>5, <3>1, <3>2 DEF TypeOK, Base
  <2> QED BY <2>1, <2>2, <2>3, <2>6 DEF Base, Prepared
<1> QED BY <1>1, <1>6, <1>7 DEF Start

LEMMA BeginBase ==
  ASSUME Base, NEW t \in Trxn, Begin(t)
  PROVE  Base'
<1>1. /\ Idle /\ ~Replaying /\ Start(t) /\ t \notin begun
      /\ begun' = begun \cup {t}
  BY DEF Begin
<1> QED BY <1>1, StartBase

LEMMA CrashBase == ASSUME Base, Crash PROVE Base' /\ Idle' /\ At' = "none"
<1>1. Ordered' /\ At' = "none" /\ Idle' /\ todo' = <<>>
  BY Stops DEF Crash
<1>2. /\ UNCHANGED <<acct, files, wal, listed, job, debits, credits, faults>>
      /\ begun' = {} /\ crashes' = crashes + 1
  BY DEF Crash
<1>3. cursor' \in 0..Len(wal') + 1
  BY <1>2 DEF Crash, Base, TypeOK
<1>4. LogOK'
  <2>1. \A t \in Trxn : Count(wal, t) \in Nat /\ crashes \in Nat
    BY CountType DEF Base, TypeOK
  <2>2. \A t \in Trxn : Count(wal', t) <= crashes'
    BY <1>2, <2>1 DEF Base, LogOK
  <2>3. \A t : ~Own(t)'
    BY <1>2 DEF Own
  <2>4. crashes' \in Nat
    BY <1>2 DEF Base, TypeOK
  <2> QED BY <1>1, <1>2, <2>1, <2>2, <2>3, <2>4 DEF LogOK
<1>5. crashes' \in 0..MaxCrashes
  BY BoundAssumption DEF Crash, Base, TypeOK
<1>6. blocks' \in [Bucket -> Seq(Block)]
  <2>1. PICK torn \in SUBSET (Open1 \cup Open2) :
          blocks' = [b \in Bucket |->
            IF b \in torn THEN Append(blocks[b], [trxn |-> Trx, side |-> "torn"])
                          ELSE blocks[b]]
    BY DEF Crash
  <2>2. ASSUME NEW b \in torn PROVE [trxn |-> Trx, side |-> "torn"] \in Block
    <3>1. ~Idle
      BY <2>1, <2>2, StepsType DEF Open1, Open2, Base
    <3> QED BY <3>1, JobType DEF Idle, Block
  <2> QED BY <2>1, <2>2 DEF Base, TypeOK
<1>7. TypeOK'
  BY <1>1, <1>2, <1>3, <1>5, <1>6 DEF TypeOK, Base
<1> QED BY <1>1, <1>4, <1>7 DEF Base, Prepared

LEMMA ReplayBase == ASSUME Base, ReplayOne \/ ReplayEnds PROVE Base'
<1>1. CASE ReplayEnds
  <2>1. /\ Idle /\ cursor' = 0 /\ Idle'
        /\ UNCHANGED <<acct, files, blocks, wal, listed, todo, job, begun, history>>
    BY <1>1 DEF ReplayEnds, Idle
  <2>2. Ordered' /\ At' = "none"
    BY <2>1, Stops DEF Idle
  <2>3. \A t : Own(t)' <=> Own(t)
    BY <2>1 DEF Own, At, Trx
  <2>4. ~Replaying'
    BY <2>1 DEF Replaying
  <2>5. LogOK' /\ TypeOK'
    BY <2>1, <2>3, <2>4 DEF LogOK, TypeOK, Base, history, Idle
  <2> QED BY <2>2, <2>5 DEF Base, Prepared
<1>2. CASE ReplayOne
  <2>1. /\ Idle /\ Replaying /\ cursor <= Len(wal) /\ begun' = begun
        /\ cursor \in 1..Len(wal) /\ wal \in Seq(Trxn)
    BY <1>2 DEF ReplayOne, Replaying, Base, TypeOK
  <2>2. wal[cursor] \in Trxn
    BY <2>1
  <2>3. CASE Start(wal[cursor])
    BY <2>1, <2>2, <2>3, StartBase
  <2>4. CASE GoOn(<<>>) /\ UNCHANGED <<acct, files, blocks, wal, listed, job,
                             debits, credits, crashes, faults>>
    <3>1. Ordered' /\ At' = "none" /\ Idle' /\ todo' = <<>>
      BY <2>4, Stops DEF GoOn
    <3>2. cursor' = cursor + 1
      BY <2>1, <2>4 DEF GoOn
    <3>3. TypeOK'
      BY <2>1, <2>4, <3>1, <3>2 DEF TypeOK, Base
    <3>4. begun = {} /\ \A t : ~Own(t) /\ ~Own(t)'
      BY <2>1 DEF Own, Base, LogOK
    <3>5. LogOK'
      BY <2>1, <2>4, <3>1, <3>4 DEF LogOK, Base
    <3> QED BY <3>1, <3>3, <3>5 DEF Base, Prepared
  <2> QED BY <1>2, <2>3, <2>4 DEF ReplayOne
<1> QED BY <1>1, <1>2

LEMMA BaseStep == ASSUME Base, [Next]_vars PROVE Base'
<1>1. CASE UNCHANGED vars
  <2>1. UNCHANGED <<At, Trx, Idle, Replaying>>
    BY <1>1 DEF vars, At, Trx, Idle, Replaying
  <2>2. TypeOK' /\ Ordered' /\ LogOK' /\ Prepared'
    BY <1>1, <2>1 DEF vars, history, Base, TypeOK, Ordered, LogOK, Own, Prepared, Trx,
                      Sender, Receiver
  <2> QED BY <2>2 DEF Base
<1> QED BY <1>1, BeginBase, PutsBase, FilesBase, WriteLogBase, CrashBase,
           ReplayBase DEF Next

LEMMA BaseInit == Init => Base
<1> SUFFICES ASSUME Init PROVE Base
  OBVIOUS
<1>1. Ordered /\ At = "none" /\ Idle
  BY DEF Init, Ordered, Rests, At, NextStep, Idle
<1>2. LedgerWith(Founded) \in Ledger
  BY FoundedAssumption, LedgerWithType
<1>3. TypeOK
  BY <1>2, BoundAssumption DEF Init, TypeOK, Ledger
<1>4. LogOK
  BY <1>1, CountEmpty DEF Init, LogOK, Replaying
<1> QED BY <1>1, <1>3, <1>4 DEF Base, Prepared

\* Every reachable state is of the type it is meant to have: no put makes a
\* negative balance, and the replay never runs past the log.
THEOREM SaveTyped == Spec => []TypeOK
<1>1. Spec => []Base
  BY BaseInit, BaseStep, PTL DEF Spec
<1>2. Base => TypeOK
  BY DEF Base
<1> QED BY <1>1, <1>2, PTL

-----------------------------------------------------------------------------
(* Where each action takes a save.                                          *)

LEMMA StepPhases ==
  ASSUME Base, \/ PutSender \/ PutReceiver \/ OpenStore \/ PutAccount \/ WriteLog
               \/ Open \/ CloseSender \/ CloseReceiver \/ SaveTrxnList
  PROVE  /\ Trx' = Trx /\ Trx \in Trxn /\ Sender \in User /\ Receiver \in User
         /\ Path[Sender] \in Bucket /\ Path[Receiver] \in Bucket /\ job' = job
         /\ ~Idle /\ (Replaying' <=> Replaying)
         /\ cursor' = IF Idle' /\ Replaying THEN cursor + 1 ELSE cursor
         /\ Idle' <=> At' = "none"
         /\ PutSender => At = "debit" /\ At' = "credit" /\ IsPayment(Trx)
         /\ PutReceiver => At = "credit" /\ At' = "log" /\ IsPayment(Trx)
         /\ OpenStore => At = "store" /\ At' = "create" /\ ~IsPayment(Trx)
         /\ PutAccount => At = "create" /\ At' = "log" /\ ~IsPayment(Trx)
         /\ WriteLog => At = "log" /\ At' = "open1"
         /\ Open => \/ At = "open1" /\ IsPayment(Trx) /\ At' = "open2"
                    \/ At = "open1" /\ ~IsPayment(Trx) /\ At' = "close1"
                    \/ At = "open2" /\ IsPayment(Trx) /\ At' = "close1"
         /\ CloseSender => At = "close1"
                           /\ At' = IF IsPayment(Trx) THEN "close2" ELSE "list"
         /\ CloseReceiver => At = "close2" /\ At' = "list" /\ IsPayment(Trx)
         /\ SaveTrxnList => At = "list" /\ At' = "none"
<1>1. Goes
  BY DEF PutSender, PutReceiver, OpenStore, PutAccount, WriteLog, Open, CloseSender,
         CloseReceiver, SaveTrxnList, Doing, Goes
<1>2. /\ Follows(Trx, At, At') /\ Trx' = Trx /\ (Idle' <=> At' = "none") /\ ~Idle
      /\ cursor' = IF Idle' /\ Replaying THEN cursor + 1 ELSE cursor
  BY <1>1, GoesOn DEF Base
<1>3. /\ Trx \in Trxn /\ Sender \in User /\ Receiver \in User
      /\ Path[Sender] \in Bucket /\ Path[Receiver] \in Bucket /\ job' = job
  BY <1>1, JobType DEF Goes
<1>4. Replaying' <=> Replaying
  BY <1>2 DEF Replaying, Base, TypeOK
<1>5. /\ PutSender => At = "debit"
      /\ PutReceiver => At = "credit"
      /\ OpenStore => At = "store"
      /\ PutAccount => At = "create"
      /\ WriteLog => At = "log"
      /\ Open => At \in {"open1", "open2"}
      /\ CloseSender => At = "close1"
      /\ CloseReceiver => At = "close2"
      /\ SaveTrxnList => At = "list"
  BY StepsType DEF Base, PutSender, PutReceiver, OpenStore, PutAccount, WriteLog, Open,
     CloseSender, CloseReceiver, SaveTrxnList
<1> QED BY <1>2, <1>3, <1>4, <1>5 DEF Follows

LEMMA EndPhases ==
  ASSUME Base, OpenFails \/ Rollback
  PROVE  /\ Trx' = Trx /\ Trx \in Trxn /\ Path[Sender] \in Bucket /\ ~Idle
         /\ At' = "none" /\ Idle' /\ At \in {"open1", "open2"}
         /\ cursor' = IF Replaying THEN cursor + 1 ELSE cursor
<1>1. Ends
  BY DEF OpenFails, Rollback, Doing, Ends
<1>2. At \in {"open1", "open2"}
  BY StepsType DEF Base, OpenFails, Rollback
<1> QED BY <1>1, <1>2, EndsNow, JobType DEF Ends

Starting == {"debit", "store"}

\* A save that starts, or is found not to be possible or not to be needed.
LEMMA StartPhases ==
  ASSUME Base, (\E t \in Trxn : Begin(t)) \/ ReplayOne
  PROVE  /\ Idle /\ At = "none"
         /\ UNCHANGED <<acct, blocks, wal, listed, debits, credits, crashes, faults>>
         /\ \/ At' = "none" /\ Idle'
            \/ At' \in Starting /\ ~Idle' /\ cursor' = cursor /\ Saves(LedgerNow, Trx')
               /\ UNCHANGED files
               /\ Start(Trx') /\ Trx' \in Trxn
               /\ At' = (IF IsPayment(Trx') THEN "debit" ELSE "store")
               /\ \/ ReplayOne /\ Trx' = wal[cursor] /\ ~Found(Trx')
                  \/ Begin(Trx')
<1>1. Idle /\ At = "none"
  BY StepsType DEF Begin, ReplayOne, Base
<1>2. CASE \E t \in Trxn : Begin(t)
  <2>1. PICK t \in Trxn : Begin(t)
    BY <1>2
  <2>2. /\ ~Replaying /\ Start(t) /\ t \notin begun
        /\ begun' = begun \cup {t}
    BY <2>1 DEF Begin
  <2>4. /\ Trx' = t
        /\ \/ Saves(LedgerNow, t) /\ ~Idle' /\ cursor' = cursor
              /\ At' = (IF IsPayment(t) THEN "debit" ELSE "store")
           \/ ~Saves(LedgerNow, t) /\ Idle' /\ At' = "none"
    BY <1>1, <2>1, <2>2, StartBase
  <2>5. UNCHANGED <<acct, blocks, wal, listed, debits, credits, crashes, faults>>
        /\ (Saves(LedgerNow, t) => UNCHANGED files)
    BY <2>2 DEF Start
  <2> QED BY <1>1, <2>1, <2>2, <2>4, <2>5 DEF Starting
<1>3. CASE ReplayOne /\ ~Start(wal[cursor])
  <2>1. GoOn(<<>>) /\ UNCHANGED <<acct, files, blocks, wal, listed, job,
                             debits, credits, crashes, faults>>
    BY <1>3 DEF ReplayOne
  <2> QED BY <1>1, <2>1, Stops DEF GoOn
<1>4. CASE ReplayOne /\ Start(wal[cursor])
  <2> DEFINE t == wal[cursor]
  <2>1. /\ Replaying /\ cursor <= Len(wal) /\ begun' = begun /\ t \in Trxn
    BY <1>4 DEF ReplayOne, Replaying, Base, TypeOK
  <2>2. /\ Trx' = t
        /\ \/ Saves(LedgerNow, t) /\ ~Idle' /\ cursor' = cursor
              /\ At' = (IF IsPayment(t) THEN "debit" ELSE "store")
           \/ ~Saves(LedgerNow, t) /\ Idle' /\ At' = "none"
    BY <1>1, <1>4, <2>1, StartBase
  <2>3. UNCHANGED <<acct, blocks, wal, listed, debits, credits, crashes, faults>>
        /\ (Saves(LedgerNow, t) => UNCHANGED files)
    BY <1>4 DEF Start
  <2>4. ~Idle' => ~Found(t)
    BY <1>4 DEF ReplayOne, GoOn, Idle
  <2> QED BY <1>1, <1>4, <2>1, <2>2, <2>3, <2>4 DEF Starting
<1> QED BY <1>2, <1>3, <1>4

-----------------------------------------------------------------------------
(* The block files never run ahead of the accounts.                         *)

\* A record that the save in progress is still to write, its account put.
Owes(t, side) ==
  /\ Trx = t
  /\ At \in IF side = "-" THEN {"credit", "log", "open1", "open2", "close1"}
                          ELSE {"log", "open1", "open2", "close1", "close2"}

\* The records and the debt of one side, against how often it was put.
Covered(t, side, puts) ==
  RecordsIn(blocks, t, side) + (IF Owes(t, side) THEN 1 ELSE 0) <= puts[t]

Ahead == \A t \in Trxn : /\ Covered(t, "-", debits)
                         /\ IsPayment(t) => Covered(t, "+", credits)

LEMMA AheadStep == ASSUME Base, Ahead, [Next]_vars PROVE Ahead'
<1> SUFFICES ASSUME NEW t \in Trxn
             PROVE  Covered(t, "-", debits)' /\ (IsPayment(t) => Covered(t, "+", credits)')
  BY DEF Ahead
<1> DEFINE n(side) == RecordsIn(blocks, t, side)
           m(side) == RecordsIn(blocks', t, side)
<1>1. /\ blocks \in Blocks /\ debits \in [Trxn -> Nat] /\ credits \in [Trxn -> Nat]
      /\ n("-") \in Nat /\ n("+") \in Nat
  BY RecordsType DEF Base, TypeOK, Blocks
<1>2. Covered(t, "-", debits) /\ (IsPayment(t) => Covered(t, "+", credits))
  BY DEF Ahead
<1>3. /\ m("-") \in Nat /\ m("+") \in Nat
  <2>1. blocks' \in Blocks
    BY BaseStep DEF Base, TypeOK, Blocks
  <2> QED BY <2>1, RecordsType
<1>4. CASE UNCHANGED vars
  BY <1>2, <1>4 DEF vars, history, Covered, Owes, Trx, At
<1>5. CASE (\E u \in Trxn : Begin(u)) \/ ReplayOne
  <2>1. UNCHANGED <<blocks, debits, credits>> /\ At' \in Starting \cup {"none"}
    BY <1>5, StartPhases
  <2> QED BY <1>1, <1>2, <2>1 DEF Covered, Owes, Starting
<1>6. CASE PutSender \/ PutAccount
  <2>1. /\ Trx' = Trx /\ Trx \in Trxn /\ At \in Putting
        /\ At' = IF IsPayment(Trx) THEN "credit" ELSE "log"
    BY <1>6, StepPhases DEF Putting
  <2>2. /\ blocks' = blocks /\ credits' = credits
        /\ debits' = [debits EXCEPT ![Trx] = @ + 1]
    BY <1>6 DEF PutSender, PutAccount
  <2> QED BY <1>1, <1>2, <2>1, <2>2 DEF Covered, Owes, Putting
<1>7. CASE PutReceiver
  <2>1. Trx' = Trx /\ Trx \in Trxn /\ At = "credit" /\ At' = "log"
    BY <1>7, StepPhases
  <2>2. blocks' = blocks /\ debits' = debits /\ credits' = [credits EXCEPT ![Trx] = @ + 1]
    BY <1>7 DEF PutReceiver
  <2> QED BY <1>1, <1>2, <2>1, <2>2 DEF Covered, Owes
<1>8. CASE OpenStore \/ WriteLog \/ Open \/ SaveTrxnList
  <2>1. /\ Trx' = Trx
        /\ \/ /\ At \in {"log", "open1", "open2"}
              /\ At' \in {"open1", "open2", "close1"}
           \/ At' \in {"create", "none"}
    BY <1>8, StepPhases
  <2>2. UNCHANGED <<blocks, debits, credits>>
    BY <1>8 DEF OpenStore, WriteLog, Open, SaveTrxnList, history
  <2> QED BY <1>1, <1>2, <2>1, <2>2 DEF Covered, Owes
<1>9. CASE CloseSender
  <2>1. /\ Trx' = Trx /\ Trx \in Trxn /\ Path[Sender] \in Bucket
        /\ Record(Trx, "-") \in Block
        /\ At = "close1" /\ At' \in {"close2", "list"} /\ (~IsPayment(Trx) => At' = "list")
    BY <1>9, StepPhases DEF Block, Record
  <2>2. /\ blocks'[Path[Sender]] = Append(blocks[Path[Sender]], Record(Trx, "-"))
        /\ \A b \in Bucket \ {Path[Sender]} : blocks'[b] = blocks[b]
        /\ debits' = debits /\ credits' = credits
    BY <1>1, <2>1, <1>9 DEF CloseSender, history, Record, Blocks
  <2>3. \A d : m(d) = n(d) + (IF Record(Trx, "-") = Record(t, d) THEN 1 ELSE 0)
    <3>1. blocks \in Blocks
      BY <1>1
    <3> HIDE DEF Blocks, Block, Record
    <3> QED BY <3>1, <2>1, <2>2, RecordsAppend
  <2>4. /\ Record(Trx, "-") = Record(t, "-") <=> Trx = t
        /\ Record(Trx, "-") # Record(t, "+")
    BY DEF Record
  <2>5. m("-") = n("-") + (IF Trx = t THEN 1 ELSE 0) /\ m("+") = n("+")
    BY <1>1, <2>3, <2>4
  <2> HIDE DEF m, n
  <2>6. n("-") + (IF Trx = t THEN 1 ELSE 0) <= debits[t]
    BY <1>2, <2>1 DEF Covered, Owes, n
  <2>7. IsPayment(t) => n("+") + (IF Trx = t THEN 1 ELSE 0) <= credits[t]
    BY <1>2, <2>1 DEF Covered, Owes, n
  <2> QED BY <1>1, <2>1, <2>2, <2>5, <2>6, <2>7 DEF Covered, Owes, m
<1>12. CASE CloseReceiver
  <2>1. /\ Trx' = Trx /\ Trx \in Trxn /\ Path[Receiver] \in Bucket
        /\ Record(Trx, "+") \in Block /\ At = "close2" /\ At' = "list"
    BY <1>12, StepPhases DEF Block, Record
  <2>2. /\ blocks'[Path[Receiver]] = Append(blocks[Path[Receiver]], Record(Trx, "+"))
        /\ \A b \in Bucket \ {Path[Receiver]} : blocks'[b] = blocks[b]
        /\ debits' = debits /\ credits' = credits
    BY <1>1, <2>1, <1>12 DEF CloseReceiver, history, Record, Blocks
  <2>3. \A d : m(d) = n(d) + (IF Record(Trx, "+") = Record(t, d) THEN 1 ELSE 0)
    <3>1. blocks \in Blocks
      BY <1>1
    <3> HIDE DEF Blocks, Block, Record
    <3> QED BY <3>1, <2>1, <2>2, RecordsAppend
  <2>4. /\ Record(Trx, "+") = Record(t, "+") <=> Trx = t
        /\ Record(Trx, "+") # Record(t, "-")
    BY DEF Record
  <2>5. m("+") = n("+") + (IF Trx = t THEN 1 ELSE 0) /\ m("-") = n("-")
    BY <1>1, <2>3, <2>4
  <2> HIDE DEF m, n
  <2>6. n("-") <= debits[t]
    BY <1>1, <1>2, <2>1 DEF Covered, Owes, n
  <2>7. IsPayment(t) => n("+") + (IF Trx = t THEN 1 ELSE 0) <= credits[t]
    BY <1>2, <2>1 DEF Covered, Owes, n
  <2> QED BY <1>1, <2>1, <2>2, <2>5, <2>6, <2>7 DEF Covered, Owes, m
<1>10. CASE OpenFails \/ Rollback \/ Crash
  <2>1. At' = "none" /\ debits' = debits /\ credits' = credits
    BY <1>10, EndPhases, CrashBase DEF OpenFails, Rollback, Crash
  <2>2. \A b \in Bucket :
          \/ blocks'[b] = blocks[b]
          \/ \E u \in Trxn : blocks'[b] = Append(blocks[b], Record(u, "torn"))
          \/ \E u \in Trxn : blocks'[b] = <<Record(u, "torn")>>
    <3>1. CASE OpenFails
      BY <3>1 DEF OpenFails
    <3>2. CASE Rollback
      BY <1>1, <3>2, EndPhases DEF Rollback, Record, Blocks
    <3>3. CASE Crash
      <4>1. PICK torn \in SUBSET (Open1 \cup Open2) :
              blocks' = [b \in Bucket |->
                IF b \in torn THEN Append(blocks[b], [trxn |-> Trx, side |-> "torn"])
                              ELSE blocks[b]]
        BY <3>3 DEF Crash
      <4>2. torn # {} => Trx \in Trxn
        <5>1. torn # {} => ~Idle
          BY <4>1, StepsType DEF Open1, Open2, Base
        <5> QED BY <5>1, JobType DEF Idle
      <4> QED BY <4>1, <4>2 DEF Record
    <3> QED BY <1>10, <3>1, <3>2, <3>3
  <2>3. blocks' \in Blocks
    BY BaseStep DEF Base, TypeOK, Blocks
  <2>4. m("-") <= n("-") /\ m("+") <= n("+")
    BY <1>1, <2>2, <2>3, RecordsTorn
  <2> QED BY <1>1, <1>2, <1>3, <2>1, <2>4 DEF Covered, Owes
<1>11. CASE ReplayEnds
  <2>1. UNCHANGED <<blocks, debits, credits, Trx, At>>
    BY <1>11 DEF ReplayEnds, history, Trx, At
  <2> QED BY <1>2, <2>1 DEF Covered, Owes
<1> QED BY <1>4, <1>5, <1>6, <1>7, <1>8, <1>9, <1>10, <1>11, <1>12 DEF Next

LEMMA NoRecords ==
  ASSUME Init, NEW t, NEW side
  PROVE  RecordsIn(blocks, t, side) = 0
<1> DEFINE f == [b \in Bucket |-> Count(blocks[b], Record(t, side))]
<1>1. \A b \in Bucket : f[b] = 0
  BY CountEmpty DEF Init
<1> HIDE DEF f
<1>2. SumFunctionOnSet(f, Bucket) = 0
  BY <1>1, SumZero, FiniteAssumption
<1> QED BY <1>2 DEF f, RecordsIn

LEMMA AheadInit == Init => Ahead
<1> SUFFICES ASSUME Init PROVE Ahead
  OBVIOUS
<1>1. At = "none"
  BY DEF Init, At, NextStep
<1> QED BY <1>1, NoRecords DEF Init, Ahead, Covered, Owes

\* Every record in the block files stands for a put: a crash or a failure
\* leaves the accounts ahead of the blocks, never the blocks ahead.
THEOREM BlocksBehind == Spec => []BlocksNeverAhead
<1>1. Base /\ Ahead => BlocksNeverAhead
  <2> SUFFICES ASSUME Base, Ahead, NEW t \in Trxn
               PROVE  /\ Records(t, "-") <= debits[t]
                      /\ IsPayment(t) => Records(t, "+") <= credits[t]
    BY DEF BlocksNeverAhead
  <2>1. /\ blocks \in Blocks /\ debits[t] \in Nat /\ credits[t] \in Nat
    BY DEF Base, TypeOK, Blocks
  <2>2. RecordsIn(blocks, t, "-") \in Nat /\ RecordsIn(blocks, t, "+") \in Nat
    BY <2>1, RecordsType
  <2>3. Covered(t, "-", debits) /\ (IsPayment(t) => Covered(t, "+", credits))
    BY DEF Ahead
  <2> QED BY <2>1, <2>2, <2>3, RecordsAre DEF Covered
<1>2. Spec => [](Base /\ Ahead)
  <2>1. Init => Base /\ Ahead
    BY BaseInit, AheadInit
  <2>2. Base /\ Ahead /\ [Next]_vars => Base' /\ Ahead'
    BY BaseStep, AheadStep
  <2> QED BY <2>1, <2>2, PTL DEF Spec
<1> QED BY <1>1, <1>2, PTL

-----------------------------------------------------------------------------
(* What is found in the block files is not applied again by a replay.       *)

Fresh == Replaying /\ At \in Putting => ~Found(Trx)

\* A save comes to its first step only by starting.
LEMMA PuttingStarts ==
  ASSUME Base, Next, At' \in Starting
  PROVE  (\E t \in Trxn : Begin(t)) \/ ReplayOne
<1>1. ASSUME \/ PutSender \/ PutReceiver \/ OpenStore \/ PutAccount \/ WriteLog \/ Open
             \/ CloseSender \/ CloseReceiver \/ SaveTrxnList
      PROVE  FALSE
  BY <1>1, StepPhases DEF Starting
<1>2. ASSUME OpenFails \/ Rollback PROVE FALSE
  BY <1>2, EndPhases DEF Starting
<1>3. ASSUME Crash PROVE FALSE
  BY <1>3, CrashBase DEF Starting
<1>4. ASSUME ReplayEnds PROVE FALSE
  <2>1. Idle /\ todo' = todo
    BY <1>4 DEF ReplayEnds
  <2> QED BY <2>1, Stops DEF Idle, Starting
<1> QED BY <1>1, <1>2, <1>3, <1>4 DEF Next

\* ... and to the put of a new account only from the opening of its file.
LEMMA CreateFollows ==
  ASSUME Base, Next, At' = "create"
  PROVE  OpenStore
<1>1. ASSUME \/ PutSender \/ PutReceiver \/ PutAccount \/ WriteLog \/ Open
             \/ CloseSender \/ CloseReceiver \/ SaveTrxnList
      PROVE  FALSE
  BY <1>1, StepPhases
<1>2. ASSUME OpenFails \/ Rollback PROVE FALSE
  BY <1>2, EndPhases
<1>3. ASSUME Crash PROVE FALSE
  BY <1>3, CrashBase
<1>4. ASSUME ReplayEnds PROVE FALSE
  <2>1. Idle /\ todo' = todo
    BY <1>4 DEF ReplayEnds
  <2> QED BY <2>1, Stops DEF Idle
<1>5. ASSUME (\E t \in Trxn : Begin(t)) \/ ReplayOne PROVE FALSE
  BY <1>5, StartPhases DEF Starting
<1> QED BY <1>1, <1>2, <1>3, <1>4, <1>5 DEF Next

LEMMA FreshStep == ASSUME Base, Fresh, [Next]_vars PROVE Fresh'
<1>1. CASE UNCHANGED vars
  <2>1. UNCHANGED <<blocks, At, Trx, Replaying>>
    BY <1>1 DEF vars, At, Trx, Replaying
  <2>2. Found(Trx)' <=> Found(Trx)
    BY <2>1 DEF Found, Readable
  <2> QED BY <2>1, <2>2 DEF Fresh
<1>2. CASE Next
  <2> SUFFICES ASSUME Replaying', At' \in Putting PROVE ~Found(Trx)'
    BY DEF Fresh
  <2>1. CASE At' \in Starting
    <3>1. /\ blocks' = blocks /\ cursor' = cursor
          /\ ~Found(Trx') \/ Begin(Trx')
      BY <1>2, <2>1, PuttingStarts, StartPhases DEF Starting
    <3>2. ~Begin(Trx')
      BY <3>1 DEF Begin, Replaying
    <3>3. Found(Trx)' <=> Found(Trx')
      BY <3>1 DEF Found, Readable
    <3> QED BY <3>1, <3>2, <3>3
  <2>2. CASE At' = "create"
    <3>1. OpenStore
      BY <1>2, <2>2, CreateFollows
    <3>2. /\ At = "store" /\ Trx' = Trx /\ Replaying /\ blocks' = blocks
      BY <3>1, StepPhases DEF OpenStore
    <3>3. Found(Trx)' <=> Found(Trx)
      BY <3>2 DEF Found, Readable
    <3> QED BY <3>2, <3>3 DEF Fresh, Putting
  <2> QED BY <2>1, <2>2 DEF Putting, Starting
<1> QED BY <1>1, <1>2

\* While the log is replayed, a transaction that can be read in its sender's
\* block file is done: no step puts its sender's record again.
THEOREM FoundStaysDone == Spec => FoundIsDone
<1> DEFINE Done == Replaying => \A t \in Trxn : \A r \in Readable(Path[Req[t].from]) :
                     r.trxn = t => debits'[t] = debits[t]
<1>1. Base /\ Fresh /\ [Next]_vars => [Done]_vars
  <2> SUFFICES ASSUME Base, Fresh, [Next]_vars, Replaying, NEW t \in Trxn,
                      NEW r \in Readable(Path[Req[t].from]), r.trxn = t
               PROVE  debits'[t] = debits[t]
    OBVIOUS
  <2>1. Found(t) /\ debits \in [Trxn -> Nat]
    BY DEF Base, TypeOK, Found
  <2>2. CASE PutSender \/ PutAccount
    <3>1. At \in Putting /\ debits' = [debits EXCEPT ![Trx] = @ + 1]
      BY <2>2, StepPhases DEF PutSender, PutAccount, Putting
    <3>2. Trx # t
      BY <2>1, <3>1 DEF Fresh
    <3> QED BY <2>1, <3>1, <3>2
  <2>3. CASE ~(PutSender \/ PutAccount)
    <3>1. debits' = debits
      BY <2>3 DEF Next, vars, history, Begin, Start, PutReceiver, OpenStore, WriteLog,
         Open, OpenFails, Rollback, CloseSender, CloseReceiver, SaveTrxnList, Crash,
         ReplayOne, ReplayEnds
    <3> QED BY <3>1
  <2> QED BY <2>2, <2>3
<1>2. Init => Base /\ Fresh
  BY BaseInit DEF Init, Fresh, Replaying
<1>3. Base /\ Fresh /\ [Next]_vars => Base' /\ Fresh'
  BY BaseStep, FreshStep
<1> QED BY <1>1, <1>2, <1>3, PTL DEF Spec, FoundIsDone

-----------------------------------------------------------------------------
(* How often the sender's record of a transaction is put: by each process    *)
(* once in a commit, and once for each log entry its replay has come past.   *)

\* The replay is past the put of the entry in hand.
PastPut == ~Idle /\ At \notin Putting

\* The entries for t in the log w before c, and at c if it is put.
Passed(w, c, put, t) == {i \in 1..Len(w) : w[i] = t /\ (i < c \/ (i = c /\ put))}

\* The entries this replay has done with or, once it is over, the puts of its
\* own, of this process and of the commits of those before.
Tries(t) ==
  IF Replaying THEN Cardinality(Passed(wal, cursor, PastPut, t))
  ELSE crashes + (IF t \in begun /\ ~(At \in Putting /\ Trx = t) THEN 1 ELSE 0)

AppliedOK ==
  \A t \in Trxn : 2 * debits[t] <= crashes * (crashes + 1) + 2 * Tries(t)

LEMMA PassedType ==
  ASSUME NEW w \in Seq(Trxn), NEW c, NEW put, NEW t
  PROVE  /\ IsFiniteSet(Passed(w, c, put, t))
         /\ Cardinality(Passed(w, c, put, t)) \in Nat
         /\ Cardinality(Passed(w, c, put, t)) <= Count(w, t) /\ Count(w, t) \in Nat
<1> DEFINE I == {i \in 1..Len(w) : w[i] = t}
<1>1. IsFiniteSet(I) /\ Count(w, t) = Cardinality(I)
  BY FS_Interval, FS_Subset DEF Count
<1>2. Passed(w, c, put, t) \subseteq I
  BY DEF Passed
<1> HIDE DEF I
<1> QED BY <1>1, <1>2, FS_Subset, FS_CardinalityType

LEMMA TriesType ==
  ASSUME Base, NEW t
  PROVE  /\ Tries(t) \in Nat
         /\ Replaying => Tries(t) <= Count(wal, t)
         /\ ~Replaying => Tries(t) <= crashes + 1
         /\ crashes \in Nat
BY PassedType DEF Base, TypeOK, Tries

LEMMA TriesNext ==
  ASSUME Base, [Next]_vars, NEW t
  PROVE  Tries(t)' \in Nat /\ crashes' \in Nat
<1>1. TypeOK'
  BY BaseStep DEF Base
<1>2. crashes' \in Nat /\ wal' \in Seq(Trxn)
  BY <1>1 DEF TypeOK
<1>3. Cardinality(Passed(wal', cursor', PastPut', t)) \in Nat
  BY <1>2, PassedType
<1>4. CASE Replaying'
  BY <1>2, <1>3, <1>4 DEF Tries
<1>5. CASE ~Replaying'
  <2>1. Tries(t)' \in {crashes' + 1, crashes' + 0}
    BY <1>5 DEF Tries
  <2> QED BY <1>2, <2>1
<1> QED BY <1>4, <1>5

\* A replay that comes further has passed at least as much.
LEMMA PassedGrows ==
  ASSUME NEW w \in Seq(Trxn), NEW c \in Nat, NEW put, NEW d \in Nat, NEW done, NEW t,
         c < d \/ (c = d /\ (put => done))
  PROVE  Cardinality(Passed(w, c, put, t)) <= Cardinality(Passed(w, d, done, t))
<1>1. Passed(w, c, put, t) \subseteq Passed(w, d, done, t)
  BY DEF Passed
<1> QED BY <1>1, PassedType, FS_Subset

\* Only a crash sets the tries back.
LEMMA TriesKept ==
  ASSUME Base, Next, ~Crash, NEW t \in Trxn
  PROVE  Tries(t) <= Tries(t)'
<1>1. /\ crashes \in Nat /\ cursor \in Nat /\ cursor' \in Nat /\ wal \in Seq(Trxn)
      /\ wal' \in Seq(Trxn) /\ Replaying => begun = {}
  BY BaseStep DEF Base, TypeOK, LogOK
<1>2. crashes' = crashes
  BY DEF Next, history, Begin, Start, PutSender, PutReceiver, OpenStore, PutAccount,
     WriteLog, Open, OpenFails, Rollback, CloseSender, CloseReceiver, SaveTrxnList,
     ReplayOne, ReplayEnds
<1>3. CASE ReplayEnds
  <2>1. Replaying /\ ~Replaying'
    BY <1>1, <1>3 DEF ReplayEnds, Replaying
  <2>2. Tries(t) <= Count(wal, t) /\ Count(wal, t) <= crashes
    BY <1>1, <2>1, TriesType DEF Base, LogOK, Own
  <2>3. Tries(t)' >= crashes /\ Tries(t)' \in Nat
    BY <1>1, <1>2, <2>1 DEF Tries
  <2>4. Tries(t) \in Nat /\ Count(wal, t) \in Nat
    BY <1>1, TriesType, CountType
  <2> QED BY <1>1, <2>2, <2>3, <2>4
<1>4. CASE Replaying /\ ~ReplayEnds
  <2>1. wal' = wal /\ ~\E u \in Trxn : Begin(u)
    BY <1>4 DEF Next, history, Begin, Start, PutSender, PutReceiver, OpenStore, PutAccount,
       WriteLog, Logs, Open, OpenFails, Rollback, CloseSender, CloseReceiver,
       SaveTrxnList, Crash, ReplayOne, ReplayEnds
  <2>2. cursor < cursor' \/ (cursor = cursor' /\ (PastPut => PastPut'))
    <3>1. CASE ReplayOne
      <4>1. Idle /\ (cursor' = cursor \/ cursor' = cursor + 1)
        BY <3>1 DEF ReplayOne, Start, GoOn
      <4> QED BY <1>1, <4>1 DEF PastPut
    <3>2. CASE OpenFails \/ Rollback
      BY <1>1, <1>4, <3>2, EndPhases
    <3>3. CASE \/ PutSender \/ PutReceiver \/ OpenStore \/ PutAccount \/ WriteLog
               \/ Open \/ CloseSender \/ CloseReceiver \/ SaveTrxnList
      <4>1. /\ cursor' = IF Idle' /\ Replaying THEN cursor + 1 ELSE cursor
            /\ At \notin Putting => At' \notin Putting
        BY <3>3, StepPhases DEF Putting
      <4> QED BY <1>1, <1>4, <4>1 DEF PastPut
    <3> QED BY <1>4, <2>1, <3>1, <3>2, <3>3 DEF Next
  <2>3. Replaying'
    BY <1>1, <1>4, <2>2 DEF Replaying
  <2>4. Cardinality(Passed(wal, cursor, PastPut, t))
          <= Cardinality(Passed(wal, cursor', PastPut', t))
    BY <1>1, <2>2, PassedGrows
  <2> QED BY <1>4, <2>1, <2>3, <2>4 DEF Tries
<1>5. CASE ~Replaying /\ ~ReplayEnds
  <2> DEFINE Put(u) == u \in begun /\ ~(At \in Putting /\ Trx = u)
  <2>1. ~Replaying' /\ (Put(t) => Put(t)')
    <3>1. CASE \E u \in Trxn : Begin(u)
      <4>1. PICK u \in Trxn : Begin(u)
        BY <3>1
      <4>2. /\ Trx' = u /\ u \notin begun /\ begun' = begun \cup {u} /\ cursor' = cursor
        BY <1>5, <4>1 DEF Begin, Start, GoOn, Trx, Replaying
      <4> QED BY <1>5, <4>2 DEF Replaying
    <3>2. CASE OpenFails \/ Rollback
      <4>1. At' \notin Putting /\ begun' = begun /\ cursor' = cursor
        BY <1>5, <3>2, EndPhases DEF OpenFails, Rollback, Putting
      <4> QED BY <1>5, <4>1 DEF Replaying
    <3>3. CASE \/ PutSender \/ PutReceiver \/ OpenStore \/ PutAccount \/ WriteLog
               \/ Open \/ CloseSender \/ CloseReceiver \/ SaveTrxnList
      <4>1. /\ cursor' = cursor /\ Trx' = Trx
            /\ At \notin Putting => At' \notin Putting
        BY <1>5, <3>3, StepPhases DEF Putting
      <4>2. begun' = begun
        BY <3>3 DEF history, PutSender, PutReceiver, OpenStore, PutAccount, WriteLog,
           Open, CloseSender, CloseReceiver, SaveTrxnList
      <4> QED BY <1>5, <4>1, <4>2 DEF Replaying
    <3>4. ~ReplayOne
      BY <1>5 DEF ReplayOne
    <3> QED BY <1>5, <3>1, <3>2, <3>3, <3>4 DEF Next
  <2> QED BY <1>1, <1>2, <1>5, <2>1 DEF Tries
<1> QED BY <1>3, <1>4, <1>5

\* A put is one try more.
LEMMA PutTries ==
  ASSUME Base, PutSender \/ PutAccount
  PROVE  Tries(Trx)' = Tries(Trx) + 1
<1>1. /\ Trx' = Trx /\ Trx \in Trxn /\ ~Idle /\ ~Idle'
      /\ At \in Putting /\ At' \notin Putting
      /\ cursor' = cursor /\ wal' = wal /\ begun' = begun /\ crashes' = crashes
  BY StepPhases DEF Putting, PutSender, PutAccount
<1>2. crashes \in Nat /\ wal \in Seq(Trxn) /\ cursor \in Nat
  BY DEF Base, TypeOK
<1>3. CASE Replaying
  <2> DEFINE P == Passed(wal, cursor, PastPut, Trx)
             Q == Passed(wal, cursor', PastPut', Trx)
  <2>1. cursor \in 1..Len(wal) /\ wal[cursor] = Trx
    BY <1>1, <1>2, <1>3 DEF Base, LogOK, Replaying
  <2>2. ~PastPut /\ PastPut'
    BY <1>1 DEF PastPut
  <2>3. Q = P \cup {cursor} /\ cursor \notin P
    BY <1>1, <1>2, <2>1, <2>2 DEF Passed
  <2>4. IsFiniteSet(P)
    BY <1>2, PassedType
  <2> HIDE DEF P, Q
  <2>5. Cardinality(Q) = Cardinality(P) + 1
    BY <2>3, <2>4, FS_AddElement
  <2> QED BY <1>1, <1>3, <2>5 DEF Tries, P, Q, Replaying
<1>4. CASE ~Replaying
  <2>1. Trx \in begun
    BY <1>1, <1>4 DEF Base, LogOK
  <2> QED BY <1>1, <1>2, <1>4, <2>1 DEF Tries, Replaying
<1> QED BY <1>3, <1>4

\* Twice the sum of the numbers up to c, and up to c + 1.
LEMMA TwiceTheSum ==
  ASSUME NEW c \in Nat
  PROVE  /\ c * (c + 1) \in Nat
         /\ (c + 1) * ((c + 1) + 1) = c * (c + 1) + 2 * (c + 1)
         /\ (1 + c) * (2 + c) = c * (c + 1) + 2 * (c + 1)
<1>1. c + 1 \in Nat
  OBVIOUS
<1>2. \A m, n \in Nat : m * n \in Nat
  OBVIOUS
<1>3. c * (c + 1) \in Nat
  BY <1>1, <1>2
<1> QED BY <1>3

LEMMA AppliedStep == ASSUME Base, AppliedOK, [Next]_vars PROVE AppliedOK'
<1> SUFFICES ASSUME NEW t \in Trxn
             PROVE  2 * debits'[t] <= crashes' * (crashes' + 1) + 2 * Tries(t)'
  BY DEF AppliedOK
<1> DEFINE before == crashes * (crashes + 1)
           before1 == crashes' * (crashes' + 1)
<1>1. /\ debits \in [Trxn -> Nat] /\ crashes \in Nat /\ crashes' \in Nat
      /\ 2 * debits[t] <= before + 2 * Tries(t)
      /\ Tries(t) \in Nat
  BY TriesType, TriesNext DEF Base, TypeOK, AppliedOK
<1>2. before \in Nat /\ before1 \in Nat
  BY <1>1, TwiceTheSum
<1>3. Tries(t)' \in Nat
  BY TriesNext
<1>4. CASE UNCHANGED vars
  <2>1. debits' = debits /\ crashes' = crashes /\ Tries(t)' = Tries(t)
    BY <1>4 DEF vars, history, Tries, PastPut, At, Trx, Replaying, Idle
  <2> QED BY <1>1, <2>1
<1>5. CASE Crash
  <2>1. debits' = debits /\ crashes' = crashes + 1
    BY <1>5 DEF Crash
  <2>2. Tries(t) <= crashes + 1
    <3>1. Count(wal, t) \in Nat /\ (Replaying => Count(wal, t) <= crashes)
      BY <1>1, CountType DEF Base, TypeOK, LogOK, Own
    <3> QED BY <1>1, <3>1, TriesType
  <2>3. before1 = before + 2 * (crashes + 1)
    BY <1>1, <2>1, TwiceTheSum
  <2> HIDE DEF before, before1
  <2>4. 2 * debits'[t] <= before1 + 2 * Tries(t)'
    BY <1>1, <1>2, <1>3, <2>1, <2>2, <2>3
  <2> QED BY <2>4 DEF before1
<1>6. CASE PutSender \/ PutAccount
  <2>1. debits' = [debits EXCEPT ![Trx] = @ + 1] /\ crashes' = crashes
    BY <1>6 DEF PutSender, PutAccount
  <2>2. Trx' = Trx /\ Trx \in Trxn /\ ~Crash
    BY <1>6, StepPhases, CrashBase
  <2>3. before1 = before
    BY <2>1
  <2>4. CASE t = Trx
    <3>1. Tries(t)' = Tries(t) + 1
      BY <1>6, <2>2, <2>4, PutTries
    <3> HIDE DEF before, before1
    <3>2. 2 * debits'[t] <= before1 + 2 * Tries(t)'
      BY <1>1, <1>2, <2>1, <2>2, <2>3, <2>4, <3>1
    <3> QED BY <3>2 DEF before1
  <2>5. CASE t # Trx
    <3>1. Tries(t) <= Tries(t)'
      BY <1>6, <2>2, TriesKept DEF Next
    <3> HIDE DEF before, before1
    <3>2. 2 * debits'[t] <= before1 + 2 * Tries(t)'
      BY <1>1, <1>2, <1>3, <2>1, <2>2, <2>3, <2>5, <3>1
    <3> QED BY <3>2 DEF before1
  <2> QED BY <2>4, <2>5
<1>7. CASE Next /\ ~Crash /\ ~PutSender /\ ~PutAccount
  <2>1. debits' = debits /\ crashes' = crashes
    BY <1>7 DEF Next, history, Begin, Start, PutReceiver, OpenStore, WriteLog, Open,
       OpenFails, Rollback, CloseSender, CloseReceiver, SaveTrxnList,
       ReplayOne, ReplayEnds
  <2>2. Tries(t) <= Tries(t)'
    BY <1>7, TriesKept
  <2>3. before1 = before
    BY <2>1
  <2> HIDE DEF before, before1
  <2>4. 2 * debits'[t] <= before1 + 2 * Tries(t)'
    BY <1>1, <1>2, <1>3, <2>1, <2>2, <2>3
  <2> QED BY <2>4 DEF before1
<1> QED BY <1>4, <1>5, <1>6, <1>7

LEMMA AppliedInit == Init => AppliedOK
<1> SUFFICES ASSUME Init, NEW t \in Trxn
             PROVE  2 * debits[t] <= crashes * (crashes + 1) + 2 * Tries(t)
  BY DEF AppliedOK
<1>1. debits[t] = 0 /\ crashes = 0 /\ Tries(t) \in Nat
  BY BaseInit, TriesType DEF Init
<1> QED BY <1>1

\* Each process, the first and the one after each crash, logs a transaction once
\* at most, and applies it once at most in a commit and once for each entry its
\* replay finds: c crashes let it be applied (c + 1) * (c + 2) / 2 times.
THEOREM AppliedOncePerProcess == Spec => []AppliedPerProcess
<1>1. Base /\ AppliedOK => AppliedPerProcess
  <2> SUFFICES ASSUME Base, AppliedOK, NEW t \in Trxn
               PROVE  /\ Count(wal, t) <= 1 + crashes
                      /\ 2 * debits[t] <= (1 + crashes) * (2 + crashes)
    BY DEF AppliedPerProcess
  <2>1. /\ debits[t] \in Nat /\ crashes \in Nat /\ Count(wal, t) \in Nat
        /\ Count(wal, t) <= crashes + (IF Own(t) THEN 1 ELSE 0)
    BY CountType DEF Base, TypeOK, LogOK
  <2>2. Tries(t) \in Nat /\ Tries(t) <= crashes + 1
    BY <2>1, TriesType DEF Base, LogOK, Own
  <2> DEFINE before == crashes * (crashes + 1)
             all == (1 + crashes) * (2 + crashes)
  <2>3. before \in Nat /\ all = before + 2 * (crashes + 1)
    BY <2>1, TwiceTheSum
  <2>4. 2 * debits[t] <= before + 2 * Tries(t)
    BY DEF AppliedOK
  <2> HIDE DEF before, all
  <2>5. 2 * debits[t] <= all
    BY <2>1, <2>2, <2>3, <2>4
  <2> QED BY <2>1, <2>5 DEF all
<1>2. Init => Base /\ AppliedOK
  BY BaseInit, AppliedInit
<1>3. Base /\ AppliedOK /\ [Next]_vars => Base' /\ AppliedOK'
  BY BaseStep, AppliedStep
<1> QED BY <1>1, <1>2, <1>3, PTL DEF Spec

-----------------------------------------------------------------------------
(* What a crash between the two puts loses.                                 *)

Halves == [t \in Trxn |-> debits[t] - credits[t]]

HalvesOK ==
  /\ \A t \in Payments :
       credits[t] + (IF At = "credit" /\ Trx = t THEN 1 ELSE 0) <= debits[t]
  /\ SumFunctionOnSet(Halves, Payments) <= crashes + (IF At = "credit" THEN 1 ELSE 0)

LEMMA PaymentsFinite ==
  /\ IsFiniteSet(Payments) /\ Payments \subseteq Trxn
  /\ \A t \in Trxn : t \in Payments <=> IsPayment(t)
BY FiniteAssumption, FS_Subset DEF Payments, IsPayment

LEMMA HalvesType ==
  ASSUME TypeOK
  PROVE  /\ \A t \in Payments : Halves[t] \in Int
         /\ SumFunctionOnSet(Halves, Payments) \in Int
<1>1. \A t \in Payments : Halves[t] \in Int
  BY PaymentsFinite DEF Halves, TypeOK
<1> QED BY <1>1, PaymentsFinite, SumInt

\* Only the two puts, or a crash between them, have to do with the receiver's.
LEMMA CreditComesFromDebit ==
  ASSUME Base, Next, ~PutSender, ~PutReceiver, ~PutAccount
  PROVE  At' # "credit" /\ (At # "credit" \/ Crash)
<1>1. CASE (\E t \in Trxn : Begin(t)) \/ ReplayOne
  BY <1>1, StartPhases DEF Starting
<1>2. CASE OpenStore \/ WriteLog \/ Open \/ CloseSender \/ CloseReceiver \/ SaveTrxnList
  BY <1>2, StepPhases
<1>3. CASE OpenFails \/ Rollback
  BY <1>3, EndPhases
<1>4. CASE Crash
  BY <1>4, CrashBase
<1>5. CASE ReplayEnds
  BY <1>5, Stops DEF ReplayEnds, Idle, At, NextStep
<1> QED BY <1>1, <1>2, <1>3, <1>4, <1>5 DEF Next

LEMMA HalvesStep == ASSUME Base, HalvesOK, [Next]_vars PROVE HalvesOK'
<1>1. /\ debits \in [Trxn -> Nat] /\ credits \in [Trxn -> Nat] /\ crashes \in Nat
      /\ \A t \in Payments : Halves[t] \in Int
      /\ SumFunctionOnSet(Halves, Payments) \in Int
  BY HalvesType DEF Base, TypeOK
<1> DEFINE old == SumFunctionOnSet(Halves, Payments)
           new == SumFunctionOnSet(Halves', Payments)
<1>2. CASE UNCHANGED vars
  BY <1>2 DEF vars, history, HalvesOK, Halves, At, Trx
<1>3. CASE PutSender
  <2>1. /\ At = "debit" /\ At' = "credit" /\ Trx' = Trx /\ Trx \in Payments /\ Trx \in Trxn
        /\ debits' = [debits EXCEPT ![Trx] = @ + 1] /\ credits' = credits
        /\ crashes' = crashes
    BY <1>3, StepPhases, PaymentsFinite DEF PutSender
  <2>2. /\ Halves'[Trx] = Halves[Trx] + 1
        /\ \A t \in Payments : t # Trx => Halves'[t] = Halves[t]
    BY <1>1, <2>1, PaymentsFinite DEF Halves
  <2>3. new = old - Halves[Trx] + Halves'[Trx]
    BY <1>1, <2>1, <2>2, PaymentsFinite, SumChange
  <2>4. new = old + 1
    BY <1>1, <2>1, <2>2, <2>3
  <2>5. old <= crashes
    BY <1>1, <2>1 DEF HalvesOK
  <2> HIDE DEF old, new
  <2>6. new <= crashes' + 1
    BY <1>1, <2>1, <2>4, <2>5 DEF old
  <2>7. \A t \in Payments :
          credits'[t] + (IF Trx = t THEN 1 ELSE 0) <= debits'[t]
    BY <1>1, <2>1, PaymentsFinite DEF HalvesOK
  <2> QED BY <2>1, <2>6, <2>7 DEF HalvesOK, new
<1>4. CASE PutReceiver
  <2>1. /\ At = "credit" /\ At' = "log" /\ Trx' = Trx /\ Trx \in Payments /\ Trx \in Trxn
        /\ credits' = [credits EXCEPT ![Trx] = @ + 1] /\ debits' = debits
        /\ crashes' = crashes
    BY <1>4, StepPhases, PaymentsFinite DEF PutReceiver
  <2>2. /\ Halves'[Trx] = Halves[Trx] - 1
        /\ \A t \in Payments : t # Trx => Halves'[t] = Halves[t]
    BY <1>1, <2>1, PaymentsFinite DEF Halves
  <2>3. new = old - Halves[Trx] + Halves'[Trx]
    BY <1>1, <2>1, <2>2, PaymentsFinite, SumChange
  <2>4. new = old - 1
    BY <1>1, <2>1, <2>2, <2>3
  <2>5. old <= crashes + 1
    BY <2>1 DEF HalvesOK
  <2> HIDE DEF old, new
  <2>6. new <= crashes'
    BY <1>1, <2>1, <2>4, <2>5 DEF old
  <2>7. \A t \in Payments : credits'[t] <= debits'[t]
    BY <1>1, <2>1, PaymentsFinite DEF HalvesOK
  <2> QED BY <1>1, <2>1, <2>6, <2>7, PaymentsFinite DEF HalvesOK, new
<1>5. CASE PutAccount
  <2>1. /\ At # "credit" /\ At' # "credit" /\ Trx \notin Payments /\ Trx \in Trxn
        /\ debits' = [debits EXCEPT ![Trx] = @ + 1] /\ credits' = credits
        /\ crashes' = crashes
    BY <1>5, StepPhases, PaymentsFinite DEF PutAccount
  <2>2. /\ \A t \in Payments : Halves'[t] = Halves[t] /\ debits'[t] = debits[t]
    BY <1>1, <2>1, PaymentsFinite DEF Halves
  <2>3. new = old
    BY <2>2, PaymentsFinite, SumSame
  <2> QED BY <1>1, <2>1, <2>2, <2>3 DEF HalvesOK
<1>6. CASE Next /\ ~PutSender /\ ~PutReceiver /\ ~PutAccount
  <2>1. /\ debits' = debits /\ credits' = credits
        /\ crashes' = IF Crash THEN crashes + 1 ELSE crashes
    BY <1>6 DEF Next, history, Begin, Start, OpenStore, WriteLog, Open, OpenFails, Rollback,
       CloseSender, CloseReceiver, SaveTrxnList, Crash, ReplayOne, ReplayEnds
  <2>2. At' # "credit" /\ (At # "credit" \/ Crash)
    BY <1>6, CreditComesFromDebit
  <2>3. \A t \in Payments : credits'[t] <= debits'[t]
    BY <1>1, <2>1, PaymentsFinite DEF HalvesOK
  <2>4. new = old /\ old <= crashes'
    BY <1>1, <2>1, <2>2 DEF HalvesOK, Halves
  <2>5. \A t \in Payments : credits'[t] \in Nat
    BY <1>1, <2>1, PaymentsFinite
  <2>6. crashes' \in Nat
    BY <1>1, <2>1
  <2> QED BY <2>2, <2>3, <2>4, <2>5, <2>6 DEF HalvesOK
<1> QED BY <1>2, <1>3, <1>4, <1>5, <1>6

LEMMA HalvesInit == Init => HalvesOK
<1> SUFFICES ASSUME Init PROVE HalvesOK
  OBVIOUS
<1>1. At # "credit" /\ crashes = 0
  BY DEF Init, At, NextStep
<1>2. \A t \in Payments : debits[t] = 0 /\ credits[t] = 0 /\ Halves[t] = 0
  BY PaymentsFinite DEF Init, Halves
<1>3. SumFunctionOnSet(Halves, Payments) = 0
  BY <1>2, PaymentsFinite, SumZero
<1> QED BY <1>1, <1>2, <1>3 DEF HalvesOK

-----------------------------------------------------------------------------
(* The balances, when nothing is rounded.                                   *)

\* A number that loses nothing when it is stored, unless it is more than there
\* is of money.
Whole(x) == x % Quantum(Money) = 0

LEMMA WholeStored ==
  /\ Money \in Nat /\ Quantum(Money) \in LastDigits
  /\ \A x \in Nat : Whole(x) /\ x <= Money => Stored(x) = x
  /\ \A x, y \in Nat : Whole(x) /\ Whole(y) => Whole(x + y) /\ Whole(x - y)
<1>1. Money \in Nat
  <2>1. Cardinality(User) \in Nat
    BY FiniteAssumption, FS_CardinalityType
  <2> QED BY <2>1 DEF Money, InitialBalance
<1>2. Quantum(Money) \in LastDigits
  BY <1>1, QuantumIs
<1> QED BY <1>1, <1>2, StoredWhole, WeightSums DEF Whole

\* One account changes, or is opened.
LEMMA TotalOfOne ==
  ASSUME NEW a \in [User -> Account], NEW b \in [User -> Account],
         NEW u \in Opened(a), Opened(b) = Opened(a),
         \A w \in User : w # u => b[w] = a[w]
  PROVE  Total(b) = Total(a) - a[u].bal + b[u].bal
<1> DEFINE f == Balances(a)
           g == Balances(b)
<1>1. \A x \in User : f[x] \in Int /\ g[x] \in Int
  BY BalancesType
<1>2. \A x \in User : x # u => g[x] = f[x]
  BY BalancesType
<1>3. SumFunctionOnSet(g, Opened(a)) = SumFunctionOnSet(f, Opened(a)) - f[u] + g[u]
  <2> HIDE DEF f, g
  <2> QED BY <1>1, <1>2, OpenedFinite, SumChange
<1> QED BY <1>3, BalancesType, OpenedFinite

LEMMA TotalOfOpened ==
  ASSUME NEW a \in [User -> Account], NEW b \in [User -> Account], NEW u \in User,
         u \notin Opened(a), Opened(b) = Opened(a) \cup {u},
         \A w \in User : w # u => b[w] = a[w]
  PROVE  /\ Total(b) = Total(a) + b[u].bal
         /\ Cardinality(Opened(b)) = Cardinality(Opened(a)) + 1
<1> DEFINE f == Balances(a)
           g == Balances(b)
<1>1. /\ \A x \in User : f[x] \in Int /\ g[x] \in Int
      /\ \A x \in Opened(a) : g[x] = f[x]
      /\ Opened(a) \subseteq User /\ IsFiniteSet(Opened(a))
      /\ g[u] = b[u].bal /\ b[u].bal \in Nat
      /\ SumFunctionOnSet(f, Opened(a)) = Total(a) /\ Total(a) \in Nat
      /\ SumFunctionOnSet(g, Opened(b)) = Total(b)
  <2>1. \A x \in User : f[x] = a[x].bal /\ g[x] = b[x].bal /\ f[x] \in Nat /\ g[x] \in Nat
    BY BalancesType
  <2>2. /\ SumFunctionOnSet(f, Opened(a)) = Total(a) /\ Total(a) \in Nat
        /\ SumFunctionOnSet(g, Opened(b)) = Total(b)
    BY BalancesType
  <2>3. Opened(a) \subseteq User /\ IsFiniteSet(Opened(a))
    BY OpenedFinite
  <2>4. \A x \in Opened(a) : g[x] = f[x]
    BY <2>1, <2>3
  <2> HIDE DEF f, g
  <2> QED BY <2>1, <2>2, <2>3, <2>4
<1> HIDE DEF f, g
<1>2. SumFunctionOnSet(g, Opened(a) \cup {u}) = g[u] + SumFunctionOnSet(g, Opened(a))
  BY <1>1, SumAdd
<1>3. SumFunctionOnSet(g, Opened(a)) = SumFunctionOnSet(f, Opened(a))
  BY <1>1, SumSame
<1>4. Cardinality(Opened(b)) = Cardinality(Opened(a)) + 1
  BY <1>1, FS_AddElement
<1> QED BY <1>1, <1>2, <1>3, <1>4

Transit == [t \in Trxn |-> Half(t) * Req[t].amount]

MoneyKept ==
  /\ Total(acct) = InitialBalance * Cardinality(Opened(acct)) - InTransit
  /\ \A u \in User : Whole(acct[u].bal)
  /\ At \in {"debit", "credit"} =>
       /\ acct[Receiver].exists
       /\ job.to = Credited(acct[Receiver], Req[Trx].amount)

LEMMA TransitType ==
  ASSUME TypeOK
  PROVE  /\ \A t \in Payments : Transit[t] \in Int
         /\ InTransit = SumFunctionOnSet(Transit, Payments) /\ InTransit \in Int
<1>1. \A t \in Payments : Transit[t] \in Int
  <2> TAKE t \in Payments
  <2>1. t \in Trxn /\ Half(t) \in Int /\ Req[t].amount \in Int
    BY PaymentsFinite, RequestType DEF Half, TypeOK
  <2> QED BY <2>1 DEF Transit
<1>2. InTransit = SumFunctionOnSet(Transit, Payments)
  BY DEF InTransit, Transit
<1> QED BY <1>1, <1>2, PaymentsFinite, SumInt

\* The amount of t is in transit once more, or once less.
LEMMA TransitChanges ==
  ASSUME Base, Base', NEW t \in Payments, NEW n \in {1, -1}, Half(t)' = Half(t) + n,
         \A s \in Payments : s # t => Half(s)' = Half(s)
  PROVE  InTransit' = InTransit + n * Req[t].amount
<1> DEFINE amt == Req[t].amount
<1>1. /\ \A s \in Payments : Transit[s] \in Int
      /\ InTransit = SumFunctionOnSet(Transit, Payments) /\ InTransit \in Int
  BY TransitType DEF Base
<1>2. /\ InTransit' = SumFunctionOnSet(Transit', Payments)
  BY DEF InTransit, Transit
<1>3. t \in Trxn /\ amt \in Nat /\ Half(t) \in Int
  BY SMTT(30), PaymentsFinite, RequestType DEF Half, Base, TypeOK
<1>4. Transit[t] = Half(t) * amt /\ Transit'[t] = (Half(t) + n) * amt
  BY <1>3 DEF Transit
<1>5. Transit'[t] = Transit[t] + n * amt /\ n * amt \in Int
  <2>1. PICK h \in Int : h = Half(t)
    BY <1>3
  <2>2. (h + n) * amt = h * amt + n * amt
    <3> HIDE DEF amt
    <3>1. CASE n = 1
      BY <1>3, <3>1
    <3>2. CASE n = -1
      BY <1>3, <3>2
    <3> QED BY <3>1, <3>2
  <2> QED BY <1>3, <1>4, <2>1, <2>2
<1>6. \A s \in Payments : s # t => Transit'[s] = Transit[s]
  BY PaymentsFinite DEF Transit
<1>7. SumFunctionOnSet(Transit', Payments)
        = SumFunctionOnSet(Transit, Payments) - Transit[t] + Transit'[t]
  <2>1. Transit'[t] \in Int
    BY <1>1, <1>5
  <2> QED BY <1>1, <1>6, <2>1, PaymentsFinite, SumChange
<1>8. Transit[t] \in Int
  BY <1>1
<1> QED BY <1>1, <1>2, <1>5, <1>7, <1>8

\* Nobody holds more than all the money there is, whatever is in transit.
LEMMA HoldsNoMore ==
  ASSUME Base, HalvesOK, MoneyKept, NEW u \in Opened(acct)
  PROVE  /\ acct[u].bal <= Money
         /\ At = "credit" /\ Trx \in Payments => acct[u].bal + Req[Trx].amount <= Money
<1>1. /\ acct \in [User -> Account] /\ debits \in [Trxn -> Nat] /\ credits \in [Trxn -> Nat]
  BY DEF Base, TypeOK
<1>2. acct[u].bal \in Nat /\ Total(acct) \in Nat /\ acct[u].bal <= Total(acct)
  <2> DEFINE f == Balances(acct)
  <2>1. /\ \A x \in User : f[x] \in Nat /\ f[x] = acct[x].bal
        /\ Total(acct) = SumFunctionOnSet(f, Opened(acct)) /\ Total(acct) \in Nat
        /\ Opened(acct) \in SUBSET User /\ IsFiniteSet(Opened(acct))
    BY <1>1, BalancesType, OpenedFinite
  <2> HIDE DEF f
  <2>2. f[u] <= SumFunctionOnSet(f, Opened(acct))
    BY <2>1, SumOfOne
  <2> QED BY <2>1, <2>2
<1>3. Total(acct) <= Money - InTransit /\ InTransit \in Int /\ Money \in Int
  <2>1. /\ Cardinality(Opened(acct)) \in Nat /\ Cardinality(User) \in Nat
        /\ Cardinality(Opened(acct)) <= Cardinality(User) /\ InTransit \in Int
    BY OpenedFinite, TransitType, FiniteAssumption, FS_CardinalityType DEF Base
  <2>2. Total(acct) = InitialBalance * Cardinality(Opened(acct)) - InTransit
    BY DEF MoneyKept
  <2> QED BY <1>2, <2>1, <2>2, SMT DEF InitialBalance, Money
<1>4. /\ \A t \in Payments : Transit[t] \in Nat
      /\ At = "credit" /\ Trx \in Payments => Req[Trx].amount <= Transit[Trx]
  <2>1. ASSUME NEW t \in Payments
        PROVE  Transit[t] \in Nat /\ (At = "credit" /\ Trx = t => Req[t].amount <= Transit[t])
    <3>1. PICK h \in Nat : h = Half(t) /\ (At = "credit" /\ Trx = t => h >= 1)
      <4>1. debits[t] \in Nat /\ credits[t] \in Nat
        BY <1>1, PaymentsFinite
      <4> QED BY <4>1 DEF HalvesOK, Half
    <3>2. PICK amt \in Nat : amt = Req[t].amount
      BY PaymentsFinite, RequestType
    <3>3. h * amt \in Nat /\ (h >= 1 => amt <= h * amt)
      <4>1. h * amt \in Nat
        OBVIOUS
      <4>2. ASSUME h >= 1 PROVE amt <= h * amt
        <5>1. h - 1 \in Nat /\ h * amt = (h - 1) * amt + amt
          BY <4>2
        <5>2. \A m, n \in Nat : m * n \in Nat
          OBVIOUS
        <5>3. (h - 1) * amt \in Nat
          BY <5>1, <5>2
        <5> QED BY <5>1, <5>3
      <4> QED BY <4>1, <4>2
    <3>4. Transit[t] = h * amt
      BY <3>1, <3>2, PaymentsFinite DEF Transit
    <3> QED BY <3>1, <3>2, <3>3, <3>4
  <2> QED BY <2>1
<1>5. InTransit \in Nat /\ \A t \in Payments : Transit[t] <= InTransit
  <2>1. InTransit = SumFunctionOnSet(Transit, Payments)
    BY TransitType DEF Base
  <2> QED BY <1>4, <2>1, PaymentsFinite, SumNat, SumOfOne
<1>6. acct[u].bal <= Money
  BY <1>2, <1>3, <1>5
<1>7. ASSUME At = "credit", Trx \in Payments PROVE acct[u].bal + Req[Trx].amount <= Money
  <2>1. Req[Trx].amount \in Nat
    BY <1>7, PaymentsFinite, RequestType
  <2>2. Req[Trx].amount <= InTransit
    <3>1. Transit[Trx] \in Nat /\ Transit[Trx] <= InTransit /\ Req[Trx].amount <= Transit[Trx]
      BY <1>4, <1>5, <1>7
    <3> QED BY <1>5, <2>1, <3>1
  <2> QED BY <1>2, <1>3, <2>1, <2>2
<1> QED BY <1>6, <1>7

\* The record a payment puts for one of the two users: the balance moves by the
\* amount, to the last digit.
LEMMA WholePut ==
  ASSUME WholeAmounts, NEW a \in Account, Whole(a.bal), a.bal <= Money, NEW t \in Payments
  PROVE  LET amt == Req[t].amount
             d == Debited(a, amt)
             c == Credited(a, amt)
         IN  /\ a.bal + amt <= Money => /\ c.exists = a.exists /\ c.bal = a.bal + amt
                                        /\ Whole(c.bal)
             /\ amt <= a.bal => /\ d.exists = a.exists /\ d.bal = a.bal - amt
                                /\ Whole(d.bal)
<1> DEFINE amt == Req[t].amount
<1>1. amt \in Nat /\ Whole(amt) /\ a.bal \in Nat
  BY PaymentsFinite, RequestType DEF WholeAmounts, Account, Whole
<1>7. Whole(a.bal + amt) /\ Whole(a.bal - amt) /\ Money \in Nat
  BY <1>1, WholeStored, Zenon
<1>2. Whole(a.bal + amt) /\ a.bal + amt \in Nat
  BY <1>1, <1>7
<1>3. amt <= a.bal => Whole(a.bal - amt) /\ a.bal - amt \in Nat /\ a.bal - amt <= Money
  BY <1>1, <1>7
<1>4. a.bal + amt <= Money => Stored(a.bal + amt) = a.bal + amt
  BY <1>2, WholeStored
<1>5. amt <= a.bal => Stored(a.bal - amt) = a.bal - amt
  BY <1>3, WholeStored
<1>6. /\ Debited(a, amt).exists = a.exists /\ Debited(a, amt).bal = Stored(a.bal - amt)
      /\ Credited(a, amt).exists = a.exists /\ Credited(a, amt).bal = Stored(a.bal + amt)
  BY DebitedFields, CreditedFields
<1> QED BY <1>2, <1>3, <1>4, <1>5, <1>6

LEMMA LookupsKeepFiles ==
  ASSUME NEW led \in Ledger, NEW t
  PROVE  led.files \subseteq Saved(led, t).files
BY DEF Saved, Pay, Create, Looked, Touch, Appended, Ledger

\* An account has its store file, and a new account is put where there was none.
StoresOK ==
  /\ \A u \in User : acct[u].exists => Path[u] \in files
  /\ At \in {"debit", "credit"} => Path[Receiver] \in files
  /\ At = "store" => Path[Sender] \notin files
  /\ At = "create" => Path[Sender] \in files /\ ~acct[Sender].exists

LEMMA StoresStep == ASSUME Base, StoresOK, [Next]_vars PROVE StoresOK'
<1>1. CASE UNCHANGED vars
  BY <1>1 DEF vars, StoresOK, At, Trx, Sender, Receiver
<1>2. CASE PutSender \/ PutReceiver \/ PutAccount
  <2>1. /\ At' \notin {"debit", "store", "create"} /\ Sender \in User /\ Receiver \in User
        /\ At' = "credit" => At = "debit"
        /\ Receiver' = Receiver
    BY <1>2, StepPhases DEF Receiver
  <2>2. acct \in [User -> Account] /\ files' = files
    BY <1>2 DEF Base, TypeOK, PutSender, PutReceiver, PutAccount
  <2>3. ASSUME NEW u \in User, acct'[u].exists PROVE Path[u] \in files'
    <3>1. CASE PutSender
      <4>1. acct[u].exists
        <5>1. Debited(acct[Sender], Req[Trx].amount).exists = acct[Sender].exists
          BY <2>1, <2>2, DebitedFields
        <5> QED BY <2>1, <2>2, <2>3, <3>1, <5>1 DEF PutSender
      <4> QED BY <2>2, <4>1 DEF StoresOK
    <3>2. CASE PutReceiver
      <4>1. Path[Receiver] \in files
        BY <3>2, StepPhases DEF StoresOK
      <4> QED BY <2>1, <2>2, <2>3, <3>2, <4>1 DEF PutReceiver, StoresOK
    <3>3. CASE PutAccount
      <4>1. Path[Sender] \in files
        BY <3>3, StepPhases DEF StoresOK
      <4> QED BY <2>1, <2>2, <2>3, <3>3, <4>1 DEF PutAccount, StoresOK
    <3> QED BY <1>2, <3>1, <3>2, <3>3
  <2>4. At' = "credit" => Path[Receiver'] \in files'
    BY <2>1, <2>2 DEF StoresOK
  <2> QED BY <2>1, <2>3, <2>4 DEF StoresOK
<1>4. CASE OpenStore
  <2>1. /\ At = "store" /\ At' = "create" /\ Sender' = Sender /\ Sender \in User
        /\ acct' = acct /\ files' = files \cup {Path[Sender]}
    BY <1>4, StepPhases DEF OpenStore, Sender
  <2>2. ~acct[Sender].exists
    BY <2>1 DEF StoresOK
  <2> QED BY <2>1, <2>2 DEF StoresOK
<1>3. CASE Next /\ ~PutSender /\ ~PutReceiver /\ ~PutAccount /\ ~OpenStore
  <2>1. acct' = acct
    BY <1>3 DEF Next, history, Begin, Start, WriteLog, Open, OpenFails, Rollback,
       CloseSender, CloseReceiver, SaveTrxnList, Crash, ReplayOne, ReplayEnds
  <2>2. files \subseteq files'
    <3>1. ASSUME NEW t, Start(t) PROVE files \subseteq files'
      <4>1. LedgerNow.files \subseteq Saved(LedgerNow, t).files
        BY LedgerNowType, LookupsKeepFiles DEF Base
      <4> QED BY <3>1, <4>1 DEF Start, LedgerNow
    <3> QED BY <1>3, <3>1 DEF Next, Begin, WriteLog, Open, OpenFails, Rollback,
       CloseSender, CloseReceiver, SaveTrxnList, Crash, ReplayOne, ReplayEnds
  <2>3. ASSUME At' = "store" PROVE Path[Sender'] \notin files'
    <3>1. /\ Saves(LedgerNow, Trx') /\ files' = files /\ ~IsPayment(Trx')
      BY <1>3, <2>3, PuttingStarts, StartPhases DEF Starting
    <3> QED BY <3>1 DEF Saves, IsPayment, CanCreate, LedgerNow, Sender
  <2>4. At' # "credit" /\ At' # "create"
    BY <1>3, CreditComesFromDebit, CreateFollows
  <2>5. ASSUME At' = "debit" PROVE Path[Receiver'] \in files'
    <3>1. /\ Saves(LedgerNow, Trx') /\ files' = files /\ IsPayment(Trx') /\ Trx' \in Trxn
      BY <1>3, <2>5, PuttingStarts, StartPhases DEF Starting
    <3>2. Receiver' \in User /\ acct[Receiver'].exists
      BY <3>1, RequestType DEF Saves, IsPayment, CanPay, Exists, LedgerNow, Receiver
    <3> QED BY <3>1, <3>2 DEF StoresOK
  <2> QED BY <2>1, <2>2, <2>3, <2>4, <2>5 DEF StoresOK
<1> QED BY <1>1, <1>2, <1>3, <1>4

LEMMA StoresInit == Init => StoresOK
<1> SUFFICES ASSUME Init PROVE StoresOK
  OBVIOUS
<1>1. At = "none"
  BY DEF Init, At, NextStep
<1>2. PICK S \in SUBSET User : Founded \in [S -> Key]
  BY FoundedAssumption
<1>3. ASSUME NEW u \in User, acct[u].exists PROVE Path[u] \in files
  <2>1. CASE u \in S
    BY <1>2, <2>1 DEF Init, LedgerWith
  <2>2. CASE u \notin S
    <3>1. acct[u] = NoAccount
      BY <1>2, <2>2 DEF Init, LedgerWith
    <3> QED BY <1>3, <3>1 DEF NoAccount
  <2> QED BY <2>1, <2>2
<1> QED BY <1>1, <1>3 DEF StoresOK

LEMMA PutSenderMoney ==
  ASSUME NoSelfPayment, WholeAmounts, Base, Base', HalvesOK, MoneyKept, PutSender
  PROVE  MoneyKept'
<1> DEFINE amt == Req[Trx].amount
           new == Debited(acct[Sender], amt)
<1>1. /\ At = "debit" /\ At' = "credit" /\ Trx' = Trx /\ Trx \in Payments /\ job' = job
      /\ Sender \in User /\ Receiver \in User /\ Sender # Receiver
      /\ Sender' = Sender /\ Receiver' = Receiver /\ files' = files /\ amt \in Nat
  BY StepPhases, PaymentsFinite, RequestType
     DEF PutSender, NoSelfPayment, Sender, Receiver, Trx
<1>2. /\ acct \in [User -> Account] /\ acct' \in [User -> Account]
      /\ acct' = [acct EXCEPT ![Sender] = new]
  BY DEF Base, TypeOK, PutSender
<1>3. /\ acct[Sender].exists /\ amt <= acct[Sender].bal /\ acct[Sender].bal \in Nat
  BY <1>1, <1>2 DEF Base, Prepared, Account
<1>4. new.exists /\ new.bal = acct[Sender].bal - amt /\ Whole(new.bal)
  <2>1. acct[Sender].bal <= Money
    BY <1>1, <1>3, HoldsNoMore DEF Opened
  <2> QED BY <1>1, <1>2, <1>3, <2>1, WholePut DEF MoneyKept
<1> HIDE DEF new
<1>5. /\ acct'[Sender] = new /\ \A u \in User : u # Sender => acct'[u] = acct[u]
      /\ \A u \in User : acct'[u].exists = acct[u].exists
  BY <1>1, <1>2, <1>3, <1>4
<1>6. Opened(acct') = Opened(acct) /\ Sender \in Opened(acct)
  BY <1>1, <1>3, <1>5 DEF Opened
<1>7. Total(acct') = Total(acct) - acct[Sender].bal + new.bal
  <2> DEFINE a == acct
             b == acct'
  <2>1. /\ a \in [User -> Account] /\ b \in [User -> Account]
        /\ Sender \in Opened(a) /\ Opened(b) = Opened(a)
        /\ \A w \in User : w # Sender => b[w] = a[w]
    BY <1>1, <1>2, <1>5, <1>6
  <2> HIDE DEF a, b
  <2>2. Total(b) = Total(a) - a[Sender].bal + b[Sender].bal
    BY <2>1, TotalOfOne
  <2> QED BY <1>5, <2>2 DEF a, b
<1>8. InTransit' = InTransit + 1 * amt
  <2>1. debits \in [Trxn -> Nat] /\ credits \in [Trxn -> Nat]
        /\ debits' = [debits EXCEPT ![Trx] = @ + 1] /\ credits' = credits
    BY DEF PutSender, Base, TypeOK
  <2>2. Half(Trx)' = Half(Trx) + 1 /\ \A s \in Payments : s # Trx => Half(s)' = Half(s)
    BY <1>1, <2>1, PaymentsFinite DEF Half
  <2> QED BY <1>1, <2>2, TransitChanges
<1>9. Total(acct') = InitialBalance * Cardinality(Opened(acct')) - InTransit'
  <2>1. Total(acct) \in Nat /\ Cardinality(Opened(acct)) \in Nat /\ InTransit \in Int
    BY <1>2, BalancesType, OpenedFinite, TransitType DEF Base
  <2>2. Total(acct) = InitialBalance * Cardinality(Opened(acct)) - InTransit
    BY DEF MoneyKept
  <2>3. InitialBalance * Cardinality(Opened(acct)) \in Int
    BY <2>1, SMT DEF InitialBalance
  <2>4. InTransit' = InTransit + amt
    BY <1>1, <1>8, <2>1, SMT
  <2>5. Total(acct') = Total(acct) - amt
    BY <1>1, <1>3, <1>4, <1>7, <2>1, SMT
  <2> HIDE DEF amt
  <2> QED BY <1>1, <1>6, <2>1, <2>2, <2>3, <2>4, <2>5, SMT
<1>10. \A u \in User : Whole(acct'[u].bal)
  BY <1>4, <1>5 DEF MoneyKept
<1>11. /\ acct'[Receiver].exists /\ job'.to = Credited(acct'[Receiver], amt)
  BY <1>1, <1>5 DEF MoneyKept
<1> QED BY <1>1, <1>5, <1>9, <1>10, <1>11 DEF MoneyKept

LEMMA PutReceiverMoney ==
  ASSUME NoSelfPayment, WholeAmounts, Base, Base', HalvesOK, MoneyKept, PutReceiver
  PROVE  MoneyKept'
<1> DEFINE amt == Req[Trx].amount
           new == Credited(acct[Receiver], amt)
<1>1. /\ At = "credit" /\ At' = "log" /\ Trx' = Trx /\ Trx \in Payments
      /\ Receiver \in User /\ files' = files /\ amt \in Nat
  BY StepPhases, PaymentsFinite, RequestType DEF PutReceiver
<1>2. /\ acct \in [User -> Account] /\ acct' \in [User -> Account]
      /\ acct' = [acct EXCEPT ![Receiver] = new] /\ acct[Receiver].exists
  BY <1>1 DEF Base, TypeOK, PutReceiver, MoneyKept
<1>3. new.exists /\ new.bal = acct[Receiver].bal + amt /\ Whole(new.bal)
  <2>1. acct[Receiver].bal <= Money /\ acct[Receiver].bal + amt <= Money
    BY <1>1, <1>2, HoldsNoMore DEF Opened
  <2> QED BY <1>1, <1>2, <2>1, WholePut DEF MoneyKept
<1> HIDE DEF new
<1>4. /\ acct'[Receiver] = new /\ \A u \in User : u # Receiver => acct'[u] = acct[u]
      /\ \A u \in User : acct'[u].exists = acct[u].exists
  BY <1>1, <1>2, <1>3
<1>5. Opened(acct') = Opened(acct) /\ Receiver \in Opened(acct)
  BY <1>1, <1>2, <1>4 DEF Opened
<1>6. Total(acct') = Total(acct) - acct[Receiver].bal + new.bal
  <2> DEFINE a == acct
             b == acct'
  <2>1. /\ a \in [User -> Account] /\ b \in [User -> Account]
        /\ Receiver \in Opened(a) /\ Opened(b) = Opened(a)
        /\ \A w \in User : w # Receiver => b[w] = a[w]
    BY <1>2, <1>4, <1>5
  <2> HIDE DEF a, b
  <2>2. Total(b) = Total(a) - a[Receiver].bal + b[Receiver].bal
    BY <2>1, TotalOfOne
  <2> QED BY <1>4, <2>2 DEF a, b
<1>7. InTransit' = InTransit + (-1) * amt
  <2>1. debits \in [Trxn -> Nat] /\ credits \in [Trxn -> Nat]
        /\ credits' = [credits EXCEPT ![Trx] = @ + 1] /\ debits' = debits
    BY DEF PutReceiver, Base, TypeOK
  <2>2. Half(Trx)' = Half(Trx) + (-1) /\ \A s \in Payments : s # Trx => Half(s)' = Half(s)
    BY <1>1, <2>1, PaymentsFinite DEF Half
  <2> QED BY <1>1, <2>2, TransitChanges
<1>8. Total(acct') = InitialBalance * Cardinality(Opened(acct')) - InTransit'
  <2>1. /\ Total(acct) \in Nat /\ Cardinality(Opened(acct)) \in Nat /\ InTransit \in Int
        /\ acct[Receiver].bal \in Nat
    BY <1>1, <1>2, BalancesType, OpenedFinite, TransitType DEF Base, Account
  <2>2. Total(acct) = InitialBalance * Cardinality(Opened(acct)) - InTransit
    BY DEF MoneyKept
  <2>3. InitialBalance * Cardinality(Opened(acct)) \in Int
    BY <2>1, SMT DEF InitialBalance
  <2>4. InTransit' = InTransit - amt
    BY <1>1, <1>7, <2>1, SMT
  <2>5. Total(acct') = Total(acct) + amt
    BY <1>1, <1>3, <1>6, <2>1, SMT
  <2> HIDE DEF amt
  <2> QED BY <1>1, <1>5, <2>1, <2>2, <2>3, <2>4, <2>5, SMT
<1>9. \A u \in User : Whole(acct'[u].bal)
  BY <1>3, <1>4 DEF MoneyKept
<1> QED BY <1>1, <1>4, <1>8, <1>9 DEF MoneyKept

LEMMA PutAccountMoney ==
  ASSUME WholeAmounts, Base, Base', StoresOK, MoneyKept, PutAccount
  PROVE  MoneyKept'
<1> DEFINE new == NewAccount(Req[Trx].key)
<1>1. /\ At = "create" /\ At' = "log" /\ Trx' = Trx /\ Trx \in Trxn /\ Trx \notin Payments
      /\ Sender \in User /\ ~acct[Sender].exists
  BY StepPhases, PaymentsFinite DEF PutAccount, StoresOK
<1>2. /\ acct \in [User -> Account] /\ acct' \in [User -> Account]
      /\ acct' = [acct EXCEPT ![Sender] = new]
  BY DEF Base, TypeOK, PutAccount
<1>3. new.exists /\ new.bal = InitialBalance /\ ~acct[Sender].exists
  BY <1>1 DEF NewAccount
<1> HIDE DEF new
<1>4. acct'[Sender] = new /\ \A u \in User : u # Sender => acct'[u] = acct[u]
  BY <1>1, <1>2
<1>5. Opened(acct') = Opened(acct) \cup {Sender} /\ Sender \notin Opened(acct)
  BY <1>1, <1>3, <1>4 DEF Opened
<1>6. /\ Total(acct') = Total(acct) + InitialBalance
      /\ Cardinality(Opened(acct')) = Cardinality(Opened(acct)) + 1
  BY <1>1, <1>2, <1>3, <1>4, <1>5, TotalOfOpened
<1>7. InTransit' = InTransit
  <2>1. debits \in [Trxn -> Nat] /\ debits' = [debits EXCEPT ![Trx] = @ + 1]
        /\ credits' = credits
    BY DEF PutAccount, Base, TypeOK
  <2>2. \A s \in Payments : Transit'[s] = Transit[s]
    BY <1>1, <2>1, PaymentsFinite DEF Transit, Half
  <2>3. InTransit = SumFunctionOnSet(Transit, Payments)
        /\ InTransit' = SumFunctionOnSet(Transit', Payments)
    BY DEF InTransit, Transit
  <2> QED BY <2>2, <2>3, PaymentsFinite, SumSame
<1>8. Total(acct') = InitialBalance * Cardinality(Opened(acct')) - InTransit'
  <2>1. /\ Total(acct) \in Nat /\ Cardinality(Opened(acct)) \in Nat /\ InTransit \in Int
    BY <1>2, BalancesType, OpenedFinite, TransitType DEF Base
  <2>2. Total(acct) = InitialBalance * Cardinality(Opened(acct)) - InTransit
    BY DEF MoneyKept
  <2> QED BY <1>6, <1>7, <2>1, <2>2 DEF InitialBalance
<1>9. \A u \in User : Whole(acct'[u].bal)
  BY <1>3, <1>4 DEF MoneyKept, WholeAmounts, Whole
<1> QED BY <1>1, <1>8, <1>9 DEF MoneyKept

LEMMA MoneyStep ==
  ASSUME NoSelfPayment, WholeAmounts, Base, HalvesOK, StoresOK, MoneyKept, [Next]_vars
  PROVE  MoneyKept'
<1>1. Base'
  BY BaseStep
<1>2. CASE UNCHANGED vars
  BY <1>2 DEF vars, history, MoneyKept, At, Trx, Sender, Receiver, InTransit, Half
<1>3. CASE PutSender \/ PutReceiver \/ PutAccount
  BY <1>1, <1>3, PutSenderMoney, PutReceiverMoney, PutAccountMoney
<1>4. CASE Next /\ ~PutSender /\ ~PutReceiver /\ ~PutAccount
  <2>1. acct' = acct /\ debits' = debits /\ credits' = credits
    BY <1>4 DEF Next, history, Begin, Start, OpenStore, WriteLog, Open, OpenFails, Rollback,
       CloseSender, CloseReceiver, SaveTrxnList, Crash, ReplayOne, ReplayEnds
  <2>3. InTransit' = InTransit
    BY <2>1 DEF InTransit, Half
  <2>4. /\ Total(acct') = InitialBalance * Cardinality(Opened(acct')) - InTransit'
        /\ \A u \in User : Whole(acct'[u].bal)
    BY <2>1, <2>3 DEF MoneyKept
  <2>5. CASE At' \in Starting
    <3>1. /\ Saves(LedgerNow, Trx') /\ Start(Trx') /\ files' = files /\ Trx' \in Trxn
          /\ At' = IF IsPayment(Trx') THEN "debit" ELSE "store"
      BY <1>4, <2>5, PuttingStarts, StartPhases DEF Starting
    <3>2. Sender' = Req[Trx'].from /\ Receiver' = Req[Trx'].to
      BY DEF Sender, Receiver
    <3>4. At' = "debit" => acct'[Receiver'].exists
      BY <2>1, <3>1, <3>2 DEF Saves, IsPayment, CanPay, Exists, LedgerNow
    <3>5. job'.to = Credited(acct'[Receiver'], Req[Trx'].amount)
      BY <2>1, <3>1, <3>2 DEF Start
    <3> QED BY <2>4, <2>5, <3>4, <3>5 DEF MoneyKept, Starting
  <2>6. CASE At' \notin Starting
    <3>1. At' # "credit"
      BY <1>4, CreditComesFromDebit
    <3> QED BY <2>4, <2>6, <3>1 DEF MoneyKept, Starting
  <2> QED BY <2>5, <2>6
<1> QED BY <1>2, <1>3, <1>4

LEMMA MoneyInit == WholeAmounts /\ Init => MoneyKept
<1> SUFFICES ASSUME WholeAmounts, Init PROVE MoneyKept
  OBVIOUS
<1>1. At = "none"
  BY DEF Init, At, NextStep
<1>2. \A t \in Payments : Transit[t] = 0
  <2> TAKE t \in Payments
  <2>1. t \in Trxn /\ Req[t].amount \in Nat /\ Half(t) = 0
    BY PaymentsFinite, RequestType DEF Init, Half
  <2> QED BY <2>1 DEF Transit
<1>3. InTransit = 0
  <2>1. InTransit = SumFunctionOnSet(Transit, Payments)
    BY DEF InTransit, Transit
  <2> QED BY <1>2, <2>1, PaymentsFinite, SumZero
<1>4. PICK S \in SUBSET User : Founded \in [S -> Key]
  BY FoundedAssumption
<1>5. \A u \in User : acct[u] = IF u \in S THEN NewAccount(Founded[u]) ELSE NoAccount
  BY <1>4 DEF Init, LedgerWith
<1>6. \A u \in User : /\ acct[u].exists <=> u \in S
                     /\ acct[u].bal = IF u \in S THEN InitialBalance ELSE 0
  <2> TAKE u \in User
  <2>1. CASE u \in S
    <3>1. acct[u] = NewAccount(Founded[u])
      BY <1>5, <2>1
    <3>2. acct[u].exists = TRUE /\ acct[u].bal = InitialBalance
      BY <3>1 DEF NewAccount
    <3> QED BY <2>1, <3>2
  <2>2. CASE u \notin S
    <3>1. acct[u] = NoAccount
      BY <1>5, <2>2
    <3>2. acct[u].exists = FALSE /\ acct[u].bal = 0
      BY <3>1 DEF NoAccount
    <3> QED BY <2>2, <3>2
  <2> QED BY <2>1, <2>2
<1>7. Opened(acct) = S
  BY <1>4, <1>6 DEF Opened
<1>8. Total(acct) = InitialBalance * Cardinality(S)
  <2> DEFINE bal == [u \in User |-> acct[u].bal]
  <2>1. Total(acct) = SumFunctionOnSet(bal, S)
    BY <1>7 DEF Total
  <2>2. \A u \in S : bal[u] = InitialBalance
    BY <1>6
  <2>3. IsFiniteSet(S) /\ InitialBalance \in Int
    BY FiniteAssumption, FS_Subset DEF InitialBalance
  <2> HIDE DEF bal
  <2> QED BY <2>1, <2>2, <2>3, SumConstant
<1>9. Total(acct) = InitialBalance * Cardinality(Opened(acct)) - InTransit
  <2>1. Cardinality(S) \in Nat
    BY FiniteAssumption, FS_Subset, FS_CardinalityType
  <2> QED BY <1>3, <1>7, <1>8, <2>1 DEF InitialBalance
<1>10. \A u \in User : Whole(acct[u].bal)
  <2>1. Whole(InitialBalance)
    BY DEF WholeAmounts, Whole
  <2>2. Whole(0)
    <3>1. \A q \in Nat : q > 0 => 0 % q = 0
      OBVIOUS
    <3> QED BY <3>1, WholeStored, WeightType DEF Whole
  <2> QED BY <1>6, <2>1, <2>2
<1> QED BY <1>1, <1>9, <1>10 DEF MoneyKept

\* Whatever crashes and is replayed, no money is made: what the accounts lack is
\* in transit, and it went there once per crash at most.  The hypotheses leave
\* out a user paying itself, which does make money, and the rounding of
\* balances, for which AccountsMatch has the bound.
THEOREM MoneyLostOnlyByCrashes ==
  ASSUME NoSelfPayment, WholeAmounts
  PROVE  Spec => []CreditFollowsDebit
<1>1. Base /\ HalvesOK /\ MoneyKept => CreditFollowsDebit
  <2> SUFFICES ASSUME Base, HalvesOK, MoneyKept PROVE CreditFollowsDebit
    OBVIOUS
  <2>1. ~Idle /\ Left("credit") /\ ~Left("debit") <=> At = "credit"
    BY StepsType DEF Base
  <2>2. \A t \in Payments : Half(t) >= 0
    <3> TAKE t \in Payments
    <3>1. debits[t] \in Nat /\ credits[t] \in Nat
      BY PaymentsFinite DEF Base, TypeOK
    <3> QED BY <3>1 DEF HalvesOK, Half
  <2>3. [t \in Trxn |-> Half(t)] = Halves
    BY DEF Half, Halves
  <2> QED BY <2>1, <2>2, <2>3 DEF CreditFollowsDebit, HalvesOK, MoneyKept
<1>2. Init => Base /\ HalvesOK /\ StoresOK /\ MoneyKept
  BY BaseInit, HalvesInit, StoresInit, MoneyInit
<1>3. Base /\ HalvesOK /\ StoresOK /\ MoneyKept /\ [Next]_vars
        => Base' /\ HalvesOK' /\ StoresOK' /\ MoneyKept'
  BY BaseStep, HalvesStep, StoresStep, MoneyStep
<1> QED BY <1>1, <1>2, <1>3, PTL DEF Spec

-----------------------------------------------------------------------------
(* Undisturbed, the steps of a save amount to one step of LedgerNode.       *)

Debits(B) == [t \in Trxn |-> RecordsIn(B, t, "-")]
Credits(B) == [t \in Trxn |-> RecordsIn(B, t, "+")]

\* A save between two of its steps: how much of what it leaves is there.
Midway ==
  LET b == job.before
      s == Saved(b, Trx)
  IN  /\ Saves(b, Trx) /\ SubmitValid(b, Trx)
      /\ \A u \in User : b.acct[u].exists => Path[u] \in b.files
      /\ job.to = Credited(b.acct[Receiver], Req[Trx].amount)
      /\ files = IF At \in Starting THEN b.files ELSE s.files
      /\ acct = IF At \in Putting THEN b.acct
                ELSE IF At = "credit"
                THEN [b.acct EXCEPT ![Sender] = Debited(@, Req[Trx].amount)]
                ELSE s.acct
      /\ Debits(blocks) = IF At \in {"close2", "list"} THEN s.debit ELSE b.debit
      /\ Credits(blocks) = IF At = "list" THEN s.credit ELSE b.credit

Undisturbed == crashes = 0 /\ faults = 0

InHand == Undisturbed => ~Replaying /\ (~Idle => Midway)

LEMMA LedgerNowIs ==
  /\ LedgerNow = [files |-> files, acct |-> acct, debit |-> Debits(blocks),
                  credit |-> Credits(blocks)]
  /\ LedgerNow' = [files |-> files', acct |-> acct', debit |-> Debits(blocks'),
                   credit |-> Credits(blocks')]
BY RecordsAre DEF LedgerNow, Debits, Credits

\* What a save that can be made leaves.
LEMMA SavedIs ==
  ASSUME NEW b \in Ledger, NEW t \in Trxn, Saves(b, t)
  PROVE  LET s == Saved(b, t)
             from == Req[t].from
             amt == Req[t].amount
         IN  /\ s.files = b.files \cup {Path[from]}
             /\ s.debit = [b.debit EXCEPT ![t] = @ + 1]
             /\ IsPayment(t) =>
                  /\ b.acct[from].exists /\ Saved(b, t) = Pay(b, t)
                  /\ s.acct = [[b.acct EXCEPT ![from] = Debited(@, amt)]
                                EXCEPT ![Req[t].to] = Credited(b.acct[Req[t].to], amt)]
                  /\ s.credit = [b.credit EXCEPT ![t] = @ + 1]
             /\ ~IsPayment(t) =>
                  /\ s.acct = [b.acct EXCEPT ![from] = NewAccount(Req[t].key)]
                  /\ s.credit = b.credit
<1>1. CASE IsPayment(t)
  <2>1. Saved(b, t) = Pay(b, t) /\ b.acct[Req[t].from].exists
    BY <1>1 DEF Saves, Saved, IsPayment, CanPay, Exists
  <2> QED BY <1>1, <2>1 DEF Pay, Appended
<1>2. CASE ~IsPayment(t)
  <2>1. Saved(b, t) = Create(b, t)
    BY <1>2 DEF Saves, Saved, IsPayment
  <2> QED BY <1>2, <2>1 DEF Create, Appended
<1> QED BY <1>1, <1>2

LEMMA BlocksAppend ==
  ASSUME NEW B \in Blocks, NEW C \in Blocks, NEW a \in Bucket, NEW t \in Trxn,
         NEW side \in {"-", "+"}, C[a] = Append(B[a], Record(t, side)),
         \A b \in Bucket \ {a} : C[b] = B[b]
  PROVE  /\ side = "-" => /\ Debits(C) = [Debits(B) EXCEPT ![t] = @ + 1]
                          /\ Credits(C) = Credits(B)
         /\ side = "+" => /\ Credits(C) = [Credits(B) EXCEPT ![t] = @ + 1]
                          /\ Debits(C) = Debits(B)
<1>1. ASSUME NEW u \in Trxn, NEW d \in {"-", "+"}
      PROVE  RecordsIn(C, u, d)
               = RecordsIn(B, u, d) + (IF u = t /\ d = side THEN 1 ELSE 0)
  <2>1. /\ Record(t, side) \in Block
        /\ Record(t, side) = Record(u, d) <=> u = t /\ d = side
    BY DEF Record, Block
  <2>2. RecordsIn(C, u, d)
          = RecordsIn(B, u, d) + (IF Record(t, side) = Record(u, d) THEN 1 ELSE 0)
    BY <2>1, RecordsAppend
  <2> QED BY <2>1, <2>2
<1>2. \A u \in Trxn : RecordsIn(B, u, "-") \in Nat /\ RecordsIn(B, u, "+") \in Nat
  BY RecordsType
<1>3. \A u \in Trxn :
        /\ RecordsIn(C, u, "-") = RecordsIn(B, u, "-")
                                   + (IF u = t /\ side = "-" THEN 1 ELSE 0)
        /\ RecordsIn(C, u, "+") = RecordsIn(B, u, "+")
                                   + (IF u = t /\ side = "+" THEN 1 ELSE 0)
  BY <1>1
<1>4. CASE side = "-"
  <2>1. \A u \in Trxn :
          /\ RecordsIn(C, u, "-") = IF u = t THEN RecordsIn(B, u, "-") + 1
                                             ELSE RecordsIn(B, u, "-")
          /\ RecordsIn(C, u, "+") = RecordsIn(B, u, "+")
    BY <1>2, <1>3, <1>4
  <2>2. Debits(C) = [Debits(B) EXCEPT ![t] = @ + 1] /\ Credits(C) = Credits(B)
    BY <2>1 DEF Debits, Credits
  <2> QED BY <1>4, <2>2
<1>5. CASE side = "+"
  <2>1. \A u \in Trxn :
          /\ RecordsIn(C, u, "+") = IF u = t THEN RecordsIn(B, u, "+") + 1
                                             ELSE RecordsIn(B, u, "+")
          /\ RecordsIn(C, u, "-") = RecordsIn(B, u, "-")
    BY <1>2, <1>3, <1>5
  <2>2. Credits(C) = [Credits(B) EXCEPT ![t] = @ + 1] /\ Debits(C) = Debits(B)
    BY <2>1 DEF Debits, Credits
  <2> QED BY <1>5, <2>2
<1> QED BY <1>4, <1>5

\* The files and accounts come first, then the records.
LEMMA PutMidway ==
  ASSUME Base, ~Idle, Midway, PutSender \/ PutReceiver \/ OpenStore \/ PutAccount
  PROVE  Midway'
<1> DEFINE b == job.before
           s == Saved(b, Trx)
<1>1. /\ Trx' = Trx /\ Trx \in Trxn /\ Sender' = Sender /\ Receiver' = Receiver
      /\ job' = job /\ b \in Ledger /\ blocks' = blocks
  BY StepPhases, JobType DEF Idle, Trx, Sender, Receiver, PutSender, PutReceiver,
     OpenStore, PutAccount
<1>2. /\ Saves(b, Trx) /\ SubmitValid(b, Trx)
      /\ \A u \in User : b.acct[u].exists => Path[u] \in b.files
      /\ job.to = Credited(b.acct[Receiver], Req[Trx].amount)
      /\ Debits(blocks) = IF At \in {"close2", "list"} THEN s.debit ELSE b.debit
      /\ Credits(blocks) = IF At = "list" THEN s.credit ELSE b.credit
  BY DEF Midway
<1>3. /\ At \in {"debit", "store", "create", "credit"}
      /\ At' \in {"credit", "create", "log"}
      /\ Sender \in User
  BY StepPhases
<1>4. /\ Debits(blocks') = IF At' \in {"close2", "list"} THEN s.debit ELSE b.debit
      /\ Credits(blocks') = IF At' = "list" THEN s.credit ELSE b.credit
  BY <1>1, <1>2, <1>3
<1>5. /\ files' = s.files
      /\ acct' = IF At' = "create" THEN b.acct
                 ELSE IF At' = "credit"
                 THEN [b.acct EXCEPT ![Sender] = Debited(@, Req[Trx].amount)]
                 ELSE s.acct
  <2>1. CASE PutSender
    <3>1. At = "debit" /\ At' = "credit" /\ IsPayment(Trx)
      BY <2>1, StepPhases
    <3>2. acct = b.acct /\ files = b.files
      BY <3>1 DEF Midway, Putting, Starting
    <3>3. b.acct[Sender].exists /\ s.files = b.files \cup {Path[Sender]}
      BY <1>1, <1>2, <3>1, SavedIs DEF Sender
    <3>4. Path[Sender] \in b.files
      BY <1>2, <1>3, <3>3
    <3>5. s.files = b.files
      BY <3>3, <3>4
    <3> QED BY <2>1, <3>1, <3>2, <3>5 DEF PutSender
  <2>2. CASE PutReceiver
    <3>1. At = "credit" /\ At' = "log" /\ IsPayment(Trx)
      BY <2>2, StepPhases
    <3>2. /\ acct = [b.acct EXCEPT ![Sender] = Debited(@, Req[Trx].amount)]
          /\ files = s.files
      BY <3>1 DEF Midway, Putting, Starting
    <3>3. s.acct = [[b.acct EXCEPT ![Sender] = Debited(@, Req[Trx].amount)]
                      EXCEPT ![Receiver] = Credited(b.acct[Receiver], Req[Trx].amount)]
      BY <1>1, <1>2, <3>1, SavedIs DEF Sender, Receiver
    <3>4. acct' = [acct EXCEPT ![Receiver] = job.to] /\ files' = files
      BY <2>2 DEF PutReceiver
    <3> QED BY <1>2, <3>1, <3>2, <3>3, <3>4
  <2>3. CASE PutAccount
    <3>1. At = "create" /\ At' = "log" /\ ~IsPayment(Trx)
      BY <2>3, StepPhases
    <3>2. acct = b.acct /\ files = s.files
      BY <3>1 DEF Midway, Putting, Starting
    <3>3. s.acct = [b.acct EXCEPT ![Sender] = NewAccount(Req[Trx].key)]
      BY <1>1, <1>2, <3>1, SavedIs DEF Sender
    <3> QED BY <2>3, <3>1, <3>2, <3>3 DEF PutAccount
  <2>4. CASE OpenStore
    <3>1. At = "store" /\ At' = "create" /\ ~IsPayment(Trx)
      BY <2>4, StepPhases
    <3>2. acct = b.acct /\ files = b.files
      BY <3>1 DEF Midway, Putting, Starting
    <3>3. s.files = b.files \cup {Path[Sender]}
      BY <1>1, <1>2, <3>1, SavedIs DEF Sender
    <3> QED BY <2>4, <3>1, <3>2, <3>3 DEF OpenStore
  <2> QED BY <2>1, <2>2, <2>3, <2>4
<1> QED BY <1>1, <1>2, <1>3, <1>4, <1>5 DEF Midway, Putting, Starting

LEMMA WriteMidway ==
  ASSUME Base, ~Idle, Midway, WriteLog \/ Open \/ CloseSender \/ CloseReceiver
  PROVE  Midway'
<1> DEFINE b == job.before
           s == Saved(b, Trx)
<1>1. /\ Trx' = Trx /\ Trx \in Trxn /\ Sender' = Sender /\ Receiver' = Receiver
      /\ job' = job /\ b \in Ledger /\ files' = files /\ acct' = acct
      /\ Path[Sender] \in Bucket /\ Path[Receiver] \in Bucket
  BY StepPhases, JobType DEF Idle, Trx, Sender, Receiver, WriteLog, Open, CloseSender,
     CloseReceiver
<1>0. blocks \in Blocks /\ blocks' \in Blocks
  <2>1. Base'
    BY BaseStep DEF Next
  <2> QED BY <2>1 DEF Base, TypeOK, Blocks
<1>2. /\ Saves(b, Trx) /\ SubmitValid(b, Trx)
      /\ \A u \in User : b.acct[u].exists => Path[u] \in b.files
      /\ job.to = Credited(b.acct[Receiver], Req[Trx].amount)
      /\ Debits(blocks) = IF At \in {"close2", "list"} THEN s.debit ELSE b.debit
      /\ Credits(blocks) = IF At = "list" THEN s.credit ELSE b.credit
  BY DEF Midway
<1>3. /\ At \in {"log", "open1", "open2", "close1", "close2"}
      /\ At' \in {"open1", "open2", "close1", "close2", "list"}
  BY StepPhases
<1>4. /\ files' = s.files /\ acct' = s.acct
  BY <1>1, <1>3 DEF Midway, Putting, Starting
<1>5. /\ s.debit = [b.debit EXCEPT ![Trx] = @ + 1]
      /\ s.credit = IF IsPayment(Trx) THEN [b.credit EXCEPT ![Trx] = @ + 1] ELSE b.credit
  BY <1>1, <1>2, SavedIs
<1>6. /\ Debits(blocks') = IF At' \in {"close2", "list"} THEN s.debit ELSE b.debit
      /\ Credits(blocks') = IF At' = "list" THEN s.credit ELSE b.credit
  <2>1. CASE WriteLog \/ Open
    <3>1. blocks' = blocks /\ At \in {"log", "open1", "open2"}
          /\ At' \in {"open1", "open2", "close1"}
      BY <2>1, StepPhases DEF WriteLog, Open
    <3> QED BY <1>2, <3>1
  <2>2. CASE CloseSender
    <3>1. At = "close1" /\ At' = IF IsPayment(Trx) THEN "close2" ELSE "list"
      BY <2>2, StepPhases
    <3>2. /\ blocks'[Path[Sender]] = Append(blocks[Path[Sender]], Record(Trx, "-"))
          /\ \A c \in Bucket \ {Path[Sender]} : blocks'[c] = blocks[c]
      BY <2>2, <1>0, <1>1 DEF CloseSender, Record, Blocks
    <3>3. /\ Debits(blocks') = [Debits(blocks) EXCEPT ![Trx] = @ + 1]
          /\ Credits(blocks') = Credits(blocks)
      BY <1>0, <1>1, <3>2, BlocksAppend
    <3> HIDE DEF b, s
    <3> QED BY <1>2, <1>5, <3>1, <3>3
  <2>3. CASE CloseReceiver
    <3>1. At = "close2" /\ At' = "list" /\ IsPayment(Trx)
      BY <2>3, StepPhases
    <3>2. /\ blocks'[Path[Receiver]] = Append(blocks[Path[Receiver]], Record(Trx, "+"))
          /\ \A c \in Bucket \ {Path[Receiver]} : blocks'[c] = blocks[c]
      BY <2>3, <1>0, <1>1 DEF CloseReceiver, Record, Blocks
    <3>3. /\ Credits(blocks') = [Credits(blocks) EXCEPT ![Trx] = @ + 1]
          /\ Debits(blocks') = Debits(blocks)
      BY <1>0, <1>1, <3>2, BlocksAppend
    <3> HIDE DEF b, s
    <3> QED BY <1>2, <1>5, <3>1, <3>3
  <2> QED BY <2>1, <2>2, <2>3
<1> QED BY <1>1, <1>2, <1>3, <1>4, <1>6 DEF Midway, Putting, Starting

\* A payer that can be checked has an account, so looking it up leaves nothing.
LEMMA CheckedLeavesNothing ==
  ASSUME NEW b \in Ledger, NEW t \in Trxn, SubmitValid(b, t),
         \A u \in User : b.acct[u].exists => Path[u] \in b.files
  PROVE  Checked(b, t) = b
<1>1. CASE IsPayment(t)
  <2>1. Req[t].from \in User /\ b.acct[Req[t].from].exists
    BY <1>1, RequestType DEF SubmitValid, FundsValid, IsPayment
  <2>2. b.files \cup {Path[Req[t].from]} = b.files
    BY <2>1
  <2>3. Touch(b, Req[t].from) = b
    BY <2>2 DEF Touch, Ledger
  <2> QED BY <2>3 DEF Checked
<1>2. CASE ~IsPayment(t)
  BY <1>2 DEF Checked, IsPayment
<1> QED BY <1>1, <1>2

LEMMA StartMidway ==
  ASSUME Base, StoresOK, NEW t \in Trxn, Begin(t), ~Idle'
  PROVE  Midway'
<1>1. /\ Idle /\ ~Replaying /\ Start(t) /\ SubmitValid(LedgerNow, t)
      /\ t \notin begun
  BY DEF Begin
<1>2. /\ Trx' = t /\ job'.before = LedgerNow
      /\ job'.to = Credited(acct[Req[t].to], Req[t].amount)
      /\ UNCHANGED <<acct, blocks>>
  BY <1>1 DEF Start, Trx
<1>3. At' \in Starting /\ Saves(LedgerNow, t) /\ files' = files
  BY <1>2, StartPhases
<1>4. /\ LedgerNow = [files |-> files, acct |-> acct, debit |-> Debits(blocks),
                      credit |-> Credits(blocks)]
  BY LedgerNowIs
<1>5. Sender' = Req[t].from /\ Receiver' = Req[t].to
  BY <1>2 DEF Sender, Receiver
<1>6. \A u \in User : LedgerNow.acct[u].exists => Path[u] \in LedgerNow.files
  BY <1>4 DEF StoresOK
<1> QED BY <1>1, <1>2, <1>3, <1>4, <1>5, <1>6 DEF Midway, Putting, Starting

\* While nothing has failed, nothing fails and nothing is replayed.
LEMMA Calm ==
  ASSUME Base, InHand, Next, crashes' = 0, faults' = 0
  PROVE  /\ Undisturbed /\ ~Replaying
         /\ ~OpenFails /\ ~Rollback /\ ~Crash /\ ~ReplayOne /\ ~ReplayEnds
<1>1. crashes \in Nat /\ faults \in Nat /\ crashes <= crashes' /\ faults <= faults'
  BY BoundAssumption DEF Base, TypeOK, Next, history, Begin, Start, PutSender, PutReceiver,
     OpenStore, PutAccount, WriteLog, Open, OpenFails, Rollback, CloseSender, CloseReceiver,
     SaveTrxnList, Crash, ReplayOne, ReplayEnds
<1>2. Undisturbed /\ ~Replaying
  BY <1>1 DEF Undisturbed, InHand
<1>3. ~OpenFails /\ ~Rollback /\ ~Crash
  BY <1>2 DEF Undisturbed, OpenFails, Rollback, Crash
<1>4. ~ReplayOne /\ ~ReplayEnds
  BY <1>2 DEF ReplayOne, ReplayEnds, Replaying, Base, TypeOK
<1> QED BY <1>2, <1>3, <1>4

LEMMA InHandStep == ASSUME Base, StoresOK, InHand, [Next]_vars PROVE InHand'
<1> SUFFICES ASSUME crashes' = 0, faults' = 0
             PROVE  ~Replaying' /\ (~Idle' => Midway')
  BY DEF InHand, Undisturbed
<1>1. CASE UNCHANGED vars
  <2>1. Undisturbed /\ UNCHANGED <<At, Trx, Sender, Receiver, Idle, Replaying>>
    BY <1>1 DEF vars, history, At, Trx, Sender, Receiver, Idle, Replaying, Undisturbed
  <2> QED BY <1>1, <2>1 DEF vars, InHand, Midway
<1>2. CASE Next
  <2>1. Undisturbed /\ ~Replaying /\ (~Idle => Midway)
    BY <1>2, Calm DEF InHand
  <2>2. ASSUME NEW t \in Trxn, Begin(t) PROVE ~Replaying' /\ (~Idle' => Midway')
    <3>1. ~Replaying'
      BY <2>2, <2>1 DEF Begin, Start, GoOn, Replaying
    <3> QED BY <2>2, <3>1, StartMidway
  <2>3. CASE PutSender \/ PutReceiver \/ OpenStore \/ PutAccount
    BY <2>1, <2>3, StepPhases, PutMidway
  <2>4. CASE WriteLog \/ Open \/ CloseSender \/ CloseReceiver
    BY <2>1, <2>4, StepPhases, WriteMidway
  <2>5. CASE SaveTrxnList
    BY <2>1, <2>5, StepPhases
  <2> QED BY <1>2, <2>1, <2>2, <2>3, <2>4, <2>5, Calm DEF Next
<1> QED BY <1>1, <1>2

LEMMA InHandInit == Init => InHand
BY DEF Init, InHand, Idle, Replaying

-----------------------------------------------------------------------------
(* LedgerNode's operators, as Seen has them, are those of BlockMgr.         *)

LEMMA SeenStored ==
  /\ \A a, n : Seen!Debited(a, n) = Debited(a, n) /\ Seen!Credited(a, n) = Credited(a, n)
  /\ \A k : Seen!NewAccount(k) = NewAccount(k)
<1>1. \A x : Seen!Stored(x) = Stored(x)
  BY DEF Seen!Stored, Stored, Seen!RoundTo, RoundTo, Seen!Quantum, Quantum,
         Seen!Keeps, Keeps, Seen!LastDigits, LastDigits, Seen!Coarsest, Coarsest
<1>2. Seen!InitialBalance = InitialBalance
  BY DEF Seen!InitialBalance, InitialBalance
<1> QED BY <1>1, <1>2 DEF Seen!Debited, Debited, Seen!Credited, Credited,
           Seen!NewAccount, NewAccount

LEMMA SeenSaved == \A led, t : Seen!Saved(led, t) = Saved(led, t)
<1> TAKE led, t
<1>1. /\ Seen!CanPay(led, t) <=> CanPay(led, t)
      /\ Seen!CanCreate(led, t) <=> CanCreate(led, t)
  BY DEF Seen!CanPay, CanPay, Seen!CanCreate, CanCreate, Seen!Exists, Exists
<1>2. Seen!Looked(led, t) = Looked(led, t)
  BY DEF Seen!Looked, Looked, Seen!Exists, Exists, Seen!Touch, Touch
<1>3. \A a, both : Seen!Appended(led, t, a, both) = Appended(led, t, a, both)
  BY DEF Seen!Appended, Appended
<1>4. Seen!Pay(led, t) = Pay(led, t) /\ Seen!Create(led, t) = Create(led, t)
  BY <1>3, SeenStored DEF Seen!Pay, Pay, Seen!Create, Create
<1> QED BY <1>1, <1>2, <1>4 DEF Seen!Saved, Saved

LEMMA SeenChecks ==
  \A led, t : /\ Seen!Checked(led, t) = Checked(led, t)
              /\ Seen!RelayValid(led, t, Seen!Fence(led, Req[t].from))
                   <=> SubmitValid(led, t)
<1> TAKE led, t
<1>1. Seen!Checked(led, t) = Checked(led, t)
  BY DEF Seen!Checked, Checked, Seen!Touch, Touch
<1>2. Seen!SubmitValid(led, t) <=> SubmitValid(led, t)
  BY DEF Seen!SubmitValid, SubmitValid, Seen!FundsValid, FundsValid
<1>3. Seen!FenceValid(led, t, Seen!Fence(led, Req[t].from))
  BY DEF Seen!FenceValid
<1> QED BY <1>1, <1>2, <1>3 DEF Seen!RelayValid

-----------------------------------------------------------------------------
(* What Seen sees of each step.                                             *)

SeenLedger == IF Idle THEN LedgerNow ELSE job.before
SeenDone == IF Idle THEN begun ELSE begun \ {Trx}

\* Receive of LedgerNode, in the terms of this module.
SeenReceive(t) ==
  /\ t \notin SeenDone /\ SubmitValid(SeenLedger, t)
  /\ SeenLedger' = Saved(Checked(SeenLedger, t), t)
  /\ SeenDone' = SeenDone \cup {t}

LEMMA SeenReceives == ASSUME NEW t \in Trxn, SeenReceive(t) PROVE Seen!Next
<1>1. Seen!Receive(t)
  BY SeenSaved, SeenChecks DEF SeenReceive, SeenLedger, SeenDone, Seen!Receive
<1> QED BY <1>1 DEF Seen!Next

LEMMA SeenNothing == SeenLedger' = SeenLedger /\ SeenDone' = SeenDone => UNCHANGED Seen!vars
BY DEF SeenLedger, SeenDone, Seen!vars

\* A transaction begins: it is saved in steps, or nothing but files are left.
LEMMA BeginSeen ==
  ASSUME Base, StoresOK, NEW t \in Trxn, Begin(t)
  PROVE  Seen!Next \/ UNCHANGED Seen!vars
<1>1. /\ Idle /\ ~Replaying /\ Start(t) /\ SubmitValid(LedgerNow, t)
      /\ t \notin begun /\ begun' = begun \cup {t}
  BY DEF Begin
<1>2. /\ Trx' = t /\ job'.before = LedgerNow /\ UNCHANGED <<acct, blocks>>
  BY <1>1 DEF Start, Trx
<1>3. SeenLedger = LedgerNow /\ SeenDone = begun
  BY <1>1 DEF SeenLedger, SeenDone
<1>4. CASE ~Idle'
  <2>1. SeenLedger' = LedgerNow /\ SeenDone' = begun
    BY <1>1, <1>2, <1>4 DEF SeenLedger, SeenDone
  <2> QED BY <1>3, <2>1, SeenNothing
<1>5. CASE Idle'
  <2>1. ~Saves(LedgerNow, t) /\ files' = Saved(LedgerNow, t).files
    <3>1. Saves(LedgerNow, t) => todo' = Steps(Trx')
      BY <1>1, <1>2 DEF Start, GoOn
    <3>2. Saves(LedgerNow, t) => ~Idle'
      BY <3>1, Starts DEF Idle
    <3> QED BY <1>1, <1>5, <3>2 DEF Start
  <2>2. LedgerNow' = Saved(LedgerNow, t)
    <3>1. LedgerNow = [files |-> files, acct |-> acct, debit |-> Debits(blocks),
                       credit |-> Credits(blocks)]
      BY LedgerNowIs
    <3>2. LedgerNow' = [LedgerNow EXCEPT !.files = files']
      BY <1>2, <3>1, LedgerNowIs
    <3>3. \/ Saved(LedgerNow, t) = LedgerNow
          \/ \E u : Saved(LedgerNow, t) = Touch(LedgerNow, u)
      BY <2>1 DEF Saves, Saved, Looked
    <3>4. \A f : [LedgerNow EXCEPT !.files = f]
                 = [files |-> f, acct |-> acct, debit |-> Debits(blocks),
                    credit |-> Credits(blocks)]
      BY <3>1
    <3> QED BY <2>1, <3>1, <3>2, <3>3, <3>4 DEF Touch
  <2>3. Checked(LedgerNow, t) = LedgerNow
    <3>1. LedgerNow.acct = acct /\ LedgerNow.files = files /\ LedgerNow \in Ledger
      BY LedgerNowType DEF LedgerNow, Base
    <3> QED BY <1>1, <3>1, CheckedLeavesNothing DEF StoresOK
  <2>4. SeenLedger' = LedgerNow' /\ SeenDone' = begun'
    BY <1>5 DEF SeenLedger, SeenDone
  <2>5. SeenReceive(t)
    BY <1>1, <1>3, <2>2, <2>3, <2>4 DEF SeenReceive
  <2> QED BY <2>5, SeenReceives
<1> QED BY <1>4, <1>5

\* The last step: what is there is what Receive leaves.
LEMMA ListSeen ==
  ASSUME Base, Midway, SaveTrxnList, ~Replaying
  PROVE  Seen!Next
<1> DEFINE b == job.before
           s == Saved(b, Trx)
<1>1. /\ Trx \in Trxn /\ b \in Ledger /\ ~Idle /\ At = "list" /\ Idle'
      /\ UNCHANGED <<files, acct, blocks, begun>> /\ Trx \in begun
  <2>1. ~Idle /\ At = "list" /\ Idle' /\ Trx \in Trxn
    BY StepPhases
  <2>2. UNCHANGED <<files, acct, blocks, begun>>
    BY DEF SaveTrxnList
  <2>3. b \in Ledger /\ Trx \in begun
    BY <2>1, JobType DEF Base, LogOK, Idle
  <2> QED BY <2>1, <2>2, <2>3
<1>2. /\ Saves(b, Trx) /\ SubmitValid(b, Trx)
      /\ \A u \in User : b.acct[u].exists => Path[u] \in b.files
      /\ files = s.files /\ acct = s.acct
      /\ Debits(blocks) = s.debit /\ Credits(blocks) = s.credit
  BY <1>1 DEF Midway, Putting, Starting
<1>3. LedgerNow' = s
  <2>1. s = [files |-> s.files, acct |-> s.acct, debit |-> s.debit, credit |-> s.credit]
    <3>1. s \in Ledger
      BY <1>1, SavedType
    <3> HIDE DEF s
    <3> QED BY <3>1 DEF Ledger
  <2> QED BY <1>1, <1>2, <2>1, LedgerNowIs
<1>4. Checked(b, Trx) = b
  BY <1>1, <1>2, CheckedLeavesNothing
<1>5. SeenLedger = b /\ SeenDone = begun \ {Trx} /\ SeenLedger' = s /\ SeenDone' = begun
  BY <1>1, <1>3 DEF SeenLedger, SeenDone
<1>6. SeenReceive(Trx)
  BY <1>1, <1>2, <1>4, <1>5 DEF SeenReceive
<1> QED BY <1>1, <1>6, SeenReceives

LEMMA StepSeen ==
  ASSUME Base, StoresOK, InHand, Next, crashes' = 0, faults' = 0
  PROVE  Seen!Next \/ UNCHANGED Seen!vars
<1>1. /\ Undisturbed /\ ~Replaying /\ (~Idle => Midway)
      /\ ~OpenFails /\ ~Rollback /\ ~Crash /\ ~ReplayOne /\ ~ReplayEnds
  BY Calm DEF InHand
<1>2. CASE \E t \in Trxn : Begin(t)
  BY <1>2, BeginSeen
<1>3. CASE \/ PutSender \/ PutReceiver \/ OpenStore \/ PutAccount \/ WriteLog
           \/ Open \/ CloseSender \/ CloseReceiver
  <2>1. ~Idle /\ ~Idle' /\ job' = job /\ Trx' = Trx
    BY <1>3, StepPhases
  <2>2. begun' = begun
    BY <1>3 DEF PutSender, PutReceiver, OpenStore, PutAccount, WriteLog, Open,
       CloseSender, CloseReceiver, history
  <2> QED BY <2>1, <2>2, SeenNothing DEF SeenLedger, SeenDone
<1>4. CASE SaveTrxnList
  BY <1>1, <1>4, StepPhases, ListSeen
<1> QED BY <1>1, <1>2, <1>3, <1>4 DEF Next

\* Unless the process ends or a block file cannot be opened, the steps of
\* saveTrxn amount to the one step that LedgerNode and TrxnConsensus take.
THEOREM SaveIsOneStep == Spec => AtomicSave
<1> DEFINE Seen1 == crashes' = 0 /\ faults' = 0 => Seen!Next \/ UNCHANGED Seen!vars
<1>1. Base /\ StoresOK /\ InHand /\ [Next]_vars => [Seen1]_vars
  BY StepSeen
<1>2. Init => Base /\ StoresOK /\ InHand
  BY BaseInit, StoresInit, InHandInit
<1>3. Base /\ StoresOK /\ InHand /\ [Next]_vars => Base' /\ StoresOK' /\ InHand'
  BY BaseStep, StoresStep, InHandStep
<1> QED BY <1>1, <1>2, <1>3, PTL DEF Spec, AtomicSave
=============================================================================
