------------------------------- MODULE SaveTrxn -------------------------------
(***************************************************************************)
(* The steps of saveTrxn (src/src/blockmgr.cc) at one node, with the files   *)
(* they leave: the account store, the write-ahead log, the block files and   *)
(* the list of transactions.  A step may fail, the process may end between   *)
(* any two steps, and a new process may replay the log.                      *)
(*                                                                          *)
(* All transactions fall into one hour, so each directory has one block file *)
(* (a new hour would start with an empty one).  An entry of the log is       *)
(* written in one step.                                                      *)
(***************************************************************************)
EXTENDS BlockMgr, Sequences

CONSTANTS
  Founded,     \* users with an account in the initial state, and their keys
  LogWal,      \* LOG_WAL is YES in the configuration
  Replay,      \* the environment starts a replay (see server.cpp:69)
  MaxCrashes,  \* bound on the crashes
  MaxFaults    \* bound on the block files that cannot be opened

ASSUME FoundedAssumption == \E S \in SUBSET User : Founded \in [S -> Key]
ASSUME SwitchAssumption == LogWal \in BOOLEAN /\ Replay \in BOOLEAN
ASSUME BoundAssumption == MaxCrashes \in Nat /\ MaxFaults \in Nat

VARIABLES
  acct,      \* the account records
  files,     \* store files on disk
  blocks,    \* blocks[b]: the records of the block file of directory b
  wal,       \* the write-ahead log, transaction ids in order
  listed,    \* transactions in the trxnlist file
  todo,      \* the steps of saveTrxn still to be done, in order
  job,       \* its argument and local variables
  cursor,    \* the log entry the replay has come to; 0: no replay
  begun,     \* transactions this process has been told to commit: trxnState_
  debits,    \* debits[t]: how often the sender's new record was put (history)
  credits,   \* credits[t]: how often the receiver's was (history)
  crashes,   \* crashes so far (history)
  faults     \* failures so far (history)

history == <<debits, credits, crashes, faults>>
vars == <<acct, files, blocks, wal, listed, todo, job, cursor, begun, history>>

Step == {"debit", "credit", "store", "create", "log", "open1", "open2", "close1",
         "close2", "list"}

\* A record of a block file: `-' in the sender's, `+' in the receiver's.  What
\* a crash or a rollback leaves instead stops every reader of the file.
Block == [trxn : Trxn, side : {"-", "+", "torn"}]

\* job.to is toAcct, computed before anything is put; job.before the ledger
\* when the save began (history).
Job == [trxn : Trxn, to : Account, before : Ledger]

TypeOK ==
  /\ acct \in [User -> Account]
  /\ files \subseteq Bucket
  /\ blocks \in [Bucket -> Seq(Block)]
  /\ wal \in Seq(Trxn)
  /\ listed \subseteq Trxn
  /\ todo \in Seq(Step)
  /\ todo # <<>> => job \in Job
  /\ cursor \in 0..Len(wal) + 1
  /\ begun \subseteq Trxn
  /\ debits \in [Trxn -> Nat] /\ credits \in [Trxn -> Nat]
  /\ crashes \in 0..MaxCrashes /\ faults \in 0..MaxFaults

-----------------------------------------------------------------------------
(* Reading the block files.                                                 *)

\* readTrxns gives up at the first record it cannot parse, and keeps what it
\* has found before.
Readable(b) ==
  {blocks[b][i] : i \in {k \in 1..Len(blocks[b]) :
                           \A j \in 1..k : blocks[b][j].side # "torn"}}

\* Mutant: the blocks are not asked.
NeverFound(t) == FALSE

\* readTrxns(sender, ..., trxnId) finds t.
Found(t) == \E r \in Readable(Path[Req[t].from]) : r.trxn = t

\* How often x is in the sequence s.
Count(s, x) == Cardinality({i \in 1..Len(s) : s[i] = x})

\* The records of t in all block files.
Records(t, side) ==
  SumFunctionOnSet(
    [b \in Bucket |-> Count(blocks[b], [trxn |-> t, side |-> side])], Bucket)

\* The ledger of BlockMgr these files make.
LedgerNow ==
  [files  |-> files, acct |-> acct,
   debit  |-> [t \in Trxn |-> Records(t, "-")],
   credit |-> [t \in Trxn |-> Records(t, "+")]]

-----------------------------------------------------------------------------
Init ==
  /\ acct = LedgerWith(Founded).acct
  /\ files = LedgerWith(Founded).files
  /\ blocks = [b \in Bucket |-> <<>>]
  /\ wal = <<>> /\ listed = {}
  /\ todo = <<>> /\ job = <<>> /\ cursor = 0
  /\ begun = {}
  /\ debits = [t \in Trxn |-> 0] /\ credits = [t \in Trxn |-> 0]
  /\ crashes = 0 /\ faults = 0

Idle == todo = <<>>
Replaying == cursor > 0
IsPayment(t) == Req[t].type = "PAYMENT"

\* Mutants: the receiver's record is put first; the block records are written
\* before the balances; the receiver's block file is never closed.
CreditFirst(t) ==
  IF IsPayment(t)
  THEN <<"credit", "debit", "log", "open1", "open2", "close1", "close2", "list">>
  ELSE <<"store", "create", "log", "open1", "close1", "list">>
BlocksFirst(t) ==
  IF IsPayment(t)
  THEN <<"open1", "open2", "close1", "close2", "debit", "credit", "log", "list">>
  ELSE <<"open1", "close1", "store", "create", "log", "list">>
NeverClosed(t) ==
  IF IsPayment(t)
  THEN <<"debit", "credit", "log", "open1", "open2", "close1", "list">>
  ELSE <<"store", "create", "log", "open1", "close1", "list">>

\* The steps of saveTrxn once the checks have passed.
Steps(t) ==
  IF IsPayment(t)
  THEN <<"debit", "credit", "log", "open1", "open2", "close1", "close2", "list">>
  ELSE <<"store", "create", "log", "open1", "close1", "list">>

\* saveTrxn goes on with the steps left, or returns: to the handler, or to the
\* loop of replayWallog.
GoOn(left) ==
  /\ todo' = left
  /\ cursor' = IF left = <<>> /\ Replaying THEN cursor + 1 ELSE cursor

\* saveTrxn is called for t: updateAcctBalances looks both users up and
\* computes the new records; createAcct looks for the store file.
Start(t) ==
  /\ job' = [trxn |-> t, before |-> LedgerNow,
             to |-> Credited(acct[Req[t].to], Req[t].amount)]
  /\ \/ /\ Saves(LedgerNow, t)
        /\ GoOn(Steps(t))
        /\ UNCHANGED files
     \/ /\ ~Saves(LedgerNow, t)
        /\ GoOn(<<>>)
        /\ files' = Saved(LedgerNow, t).files
  /\ UNCHANGED <<acct, blocks, wal, listed, debits, credits, crashes, faults>>

\* The network commits t here, and t is valid when it does.  That it has been
\* saved before nobody asks but the process that did so: receiveTrxn looks into
\* no file.  The fence in the message may be any.
Begin(t) ==
  /\ Idle /\ ~Replaying
  /\ t \notin begun /\ SubmitValid(LedgerNow, t)
  /\ begun' = begun \cup {t}
  /\ Start(t)

-----------------------------------------------------------------------------
(* The steps.                                                               *)

Trx == job.trxn
Sender == Req[Trx].from
Receiver == Req[Trx].to
Doing(step) == todo # <<>> /\ Head(todo) = step

PutSender ==
  /\ Doing("debit")
  /\ acct' = [acct EXCEPT ![Sender] = Debited(@, Req[Trx].amount)]
  /\ debits' = [debits EXCEPT ![Trx] = @ + 1]
  /\ GoOn(Tail(todo))
  /\ UNCHANGED <<files, blocks, wal, listed, job, begun, credits, crashes, faults>>

PutReceiver ==
  /\ Doing("credit")
  /\ acct' = [acct EXCEPT ![Receiver] = job.to]
  /\ credits' = [credits EXCEPT ![Trx] = @ + 1]
  /\ GoOn(Tail(todo))
  /\ UNCHANGED <<files, blocks, wal, listed, job, begun, debits, crashes, faults>>

\* createAcct opens the new store, which leaves a file without an account ...
OpenStore ==
  /\ Doing("store")
  /\ files' = files \cup {Path[Sender]}
  /\ GoOn(Tail(todo))
  /\ UNCHANGED <<acct, blocks, wal, listed, job, begun, history>>

\* ... and puts the account.
PutAccount ==
  /\ Doing("create")
  /\ acct' = [acct EXCEPT ![Sender] = NewAccount(Req[Trx].key)]
  /\ debits' = [debits EXCEPT ![Trx] = @ + 1]
  /\ GoOn(Tail(todo))
  /\ UNCHANGED <<files, blocks, wal, listed, job, begun, credits, crashes, faults>>

\* Mutant: dowal is not looked at.
AlwaysLog == LogWal

\* saveTrxn logs unless it is called by the replay.
Logs == LogWal /\ ~Replaying

WriteLog ==
  /\ Doing("log")
  /\ wal' = IF Logs THEN Append(wal, Trx) ELSE wal
  /\ GoOn(Tail(todo))
  /\ UNCHANGED <<acct, files, blocks, listed, job, begun, history>>

\* The block files are opened and the records written to their buffers ...
Open ==
  /\ Doing("open1") \/ Doing("open2")
  /\ GoOn(Tail(todo))
  /\ UNCHANGED <<acct, files, blocks, wal, listed, job, begun, history>>

\* ... unless the first cannot be opened: -1 ...
OpenFails ==
  /\ Doing("open1") /\ faults < MaxFaults
  /\ faults' = faults + 1
  /\ GoOn(<<>>)
  /\ UNCHANGED <<acct, files, blocks, wal, listed, job, begun, debits, credits,
                 crashes>>

\* ... or the second: -2.  rollbackFromBlockchain opens the sender's file with
\* "w", so the records of earlier transactions go too, and leaves NUL bytes.
Rollback ==
  /\ Doing("open2") /\ faults < MaxFaults
  /\ faults' = faults + 1
  /\ blocks' = [blocks EXCEPT
       ![Path[Sender]] = <<[trxn |-> Trx, side |-> "torn"]>>]
  /\ GoOn(<<>>)
  /\ UNCHANGED <<acct, files, wal, listed, job, begun, debits, credits, crashes>>

\* The record is marked `T}' and reaches the file when it is closed.
CloseSender ==
  /\ Doing("close1")
  /\ blocks' = [blocks EXCEPT
       ![Path[Sender]] = Append(@, [trxn |-> Trx, side |-> "-"])]
  /\ GoOn(Tail(todo))
  /\ UNCHANGED <<acct, files, wal, listed, job, begun, history>>

CloseReceiver ==
  /\ Doing("close2")
  /\ blocks' = [blocks EXCEPT
       ![Path[Receiver]] = Append(@, [trxn |-> Trx, side |-> "+"])]
  /\ GoOn(Tail(todo))
  /\ UNCHANGED <<acct, files, wal, listed, job, begun, history>>

SaveTrxnList ==
  /\ Doing("list")
  /\ listed' = listed \cup {Trx}
  /\ GoOn(Tail(todo))
  /\ UNCHANGED <<acct, files, blocks, wal, job, begun, history>>

-----------------------------------------------------------------------------
(* Crashes and the replay.                                                  *)

Left(step) == \E i \in 1..Len(todo) : todo[i] = step

\* The block files that have been opened and not yet closed.
Open1 == IF ~Left("open1") /\ Left("close1") THEN {Path[Sender]} ELSE {}
Open2 == IF ~Left("open2") /\ Left("close2") THEN {Path[Receiver]} ELSE {}

\* The process ends: a record that is still in its buffer is lost, or part of
\* it has been written.  A new process starts, which has committed nothing, and
\* replays the log or not.
Crash ==
  /\ crashes < MaxCrashes
  /\ crashes' = crashes + 1
  /\ \E torn \in SUBSET (Open1 \cup Open2) :
       blocks' = [b \in Bucket |->
         IF b \in torn THEN Append(blocks[b], [trxn |-> Trx, side |-> "torn"])
                       ELSE blocks[b]]
  /\ todo' = <<>>
  /\ cursor' = IF Replay THEN 1 ELSE 0
  /\ begun' = {}
  /\ UNCHANGED <<acct, files, wal, listed, job, debits, credits, faults>>

\* replayWallog, the next entry: a transaction the sender's block file has is
\* passed over, any other is saved again.
ReplayOne ==
  /\ Idle /\ Replaying /\ cursor <= Len(wal)
  /\ \/ /\ Found(wal[cursor])
        /\ GoOn(<<>>)
        /\ UNCHANGED <<acct, files, blocks, wal, listed, job, debits, credits,
                       crashes, faults>>
     \/ /\ ~Found(wal[cursor])
        /\ Start(wal[cursor])
  /\ UNCHANGED begun

ReplayEnds ==
  /\ Idle /\ cursor = Len(wal) + 1
  /\ cursor' = 0
  /\ UNCHANGED <<acct, files, blocks, wal, listed, todo, job, begun, history>>

Next ==
  \/ \E t \in Trxn : Begin(t)
  \/ PutSender \/ PutReceiver \/ OpenStore \/ PutAccount \/ WriteLog
  \/ Open \/ OpenFails \/ Rollback \/ CloseSender \/ CloseReceiver
  \/ SaveTrxnList
  \/ Crash \/ ReplayOne \/ ReplayEnds

Spec == Init /\ [][Next]_vars

-----------------------------------------------------------------------------
(* Properties.                                                              *)

\* Every record in the block files, readable or not, stands for a payment that
\* was applied: updateAcctBalances comes before appendToBlockchain, so a crash
\* leaves accounts ahead of the blocks and never blocks ahead of the accounts.
BlocksNeverAhead ==
  \A t \in Trxn : /\ Records(t, "-") <= debits[t]
                  /\ IsPayment(t) => Records(t, "+") <= credits[t]

\* Amounts of which rounding takes nothing: multiples of the last digit that the
\* money of all accounts together keeps.
Money == InitialBalance * Cardinality(User)
WholeAmounts ==
  /\ InitialBalance % Quantum(Money) = 0
  /\ \A t \in Payments : Req[t].amount % Quantum(Money) = 0

\* How often the amount of t has left its sender and reached nobody, and what
\* has in all.
Half(t) == debits[t] - credits[t]
InTransit ==
  SumFunctionOnSet([t \in Trxn |-> Half(t) * Req[t].amount], Payments)

\* A crash never makes money: the sender's record is put first, so what a crash
\* between the two puts does is lose the amount, once per crash, however often
\* the log is replayed.
CreditFollowsDebit ==
  LET pending == IF ~Idle /\ Left("credit") /\ ~Left("debit") THEN 1 ELSE 0
  IN  /\ \A t \in Payments : Half(t) >= 0
      /\ SumFunctionOnSet([t \in Trxn |-> Half(t)], Payments)
           <= crashes + pending
      /\ Total(acct) = InitialBalance * Cardinality(Opened(acct)) - InTransit

\* A replay never applies again what can be found in the sender's block file.
\* (Only the replay looks there: a commit after a restart may repeat it.)
FoundIsDone ==
  [][Replaying =>
       \A t \in Trxn : \A r \in Readable(Path[Req[t].from]) :
         r.trxn = t => debits'[t] = debits[t]]_vars

\* Each process commits and logs a transaction once at most, and its replay
\* applies it once at most for each entry the processes before it have left:
\* 1 + 2 + ... + crashes in the replays, and 1 + crashes in the commits.
AppliedPerProcess ==
  \A t \in Trxn : /\ Count(wal, t) <= 1 + crashes
                  /\ 2 * debits[t] <= (1 + crashes) * (2 + crashes)

-----------------------------------------------------------------------------
(* One step per save, which is how LedgerNode and TrxnConsensus have it.    *)

\* The ledger others see: while a save runs nobody looks.
Seen == INSTANCE LedgerNode WITH
  ledger <- IF Idle THEN LedgerNow ELSE job.before,
  done   <- IF Idle THEN begun ELSE begun \ {Trx}

\* As long as nothing fails and the process does not end, the steps of a save
\* amount to the one step Receive of LedgerNode.
AtomicSave ==
  [][crashes' = 0 /\ faults' = 0 => Seen!Next \/ UNCHANGED Seen!vars]_vars
=============================================================================
