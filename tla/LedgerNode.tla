------------------------------ MODULE LedgerNode ------------------------------
(***************************************************************************)
(* The ledger of one node on its own: the transactions the network commits  *)
(* reach receiveTrxn in an arbitrary order, and queries and checks look     *)
(* users up between them.  This is the sequential core of BlockMgr; the     *)
(* interleaving of several nodes is TrxnConsensus.                          *)
(***************************************************************************)
EXTENDS BlockMgr

VARIABLES
  ledger,    \* the node's files and accounts
  done       \* transactions whose state is ST_F here, so never saved again

vars == <<ledger, done>>

Init == ledger = LedgerWith(<<>>) /\ done = {}

\* getBalance and every other read of an account.
Lookup(u) == ledger' = Touch(ledger, u) /\ UNCHANGED done

\* A committed transaction is saved; whatever saveTrxn returns, the state of
\* the transaction becomes ST_F.
Receive(t) ==
  /\ t \notin done
  /\ RelayValid(ledger, t, Fence(ledger, Req[t].from))
  /\ ledger' = Saved(Checked(ledger, t), t)
  /\ done' = done \cup {t}

Next == (\E u \in User : Lookup(u)) \/ (\E t \in Trxn : Receive(t))
Spec == Init /\ [][Next]_vars

TypeOK == ledger \in Ledger /\ done \subseteq Trxn

-----------------------------------------------------------------------------
\* The account store and the block files of a node tell the same story: the
\* fence and the receive counter of every account follow from the records, and
\* so does the balance, but for the rounding of each update, in whatever order
\* updateAcctBalances and appendToBlockchain were called for the users.
AccountsMatchBlocks ==
  \A u \in User :
    LET a == ledger.acct[u]
        paid == NumPaid(ledger, u)
        received == NumReceived(ledger, u)
    IN  IF a.exists
        THEN LET exact == InitialBalance + Received(ledger, u) - Paid(ledger, u)
                 error == HalfDigit * (paid + received)
             IN  /\ a.bal \in (exact - error)..(exact + error)
                 /\ a.out = paid
                 /\ a.in = received
        ELSE paid = 0 /\ received = 0
=============================================================================
