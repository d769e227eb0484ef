# A TLA+ model of omicro

omicro is a payment network written in C++.  Every node keeps all accounts in
local files; a client submits a payment (or another transaction) to any node,
and the nodes vote on it over a *dynamic circuit*, a two-level tree of zones
and zone leaders which every node computes for itself from a hash of the
transaction.  A transaction that collects its votes is *final*: every node
writes it to its block files and updates its accounts.

This directory models the circuit, the ledger of a node with the steps of a
save, tokens, and the consensus protocols for transactions and for queries,
checks them with TLC on small networks, and proves their main safety properties
for all networks with TLAPS.

Paths below are those of the repository: `src/server.cpp` is the server.

## 1. Inventory

### Components

| component | code | state | operations |
|---|---|---|---|
| Circuit | `src/dynamiccircuit.cc`, `src/nodelist.cc`, `twofplus1` in `src/omutil.cc` | node list (fixed) | `getNumZones`, `getNumFullZones`, `getLeaders`, `getOtherLeaders`, `isLeader`, `getOtherLeadersAndThisFollowers`, `getLeader` |
| Ledger | `src/blockmgr.cc`, `src/omaccount.cc`, `src/omstore.cc` | `store.hdb` per user directory, a block file per user, `trxnlist` files, the write-ahead log | `receiveTrxn` = `saveTrxn` (`createAcct`, `updateAcctBalances`, token operations, `appendToBlockchain`), `findSaveStore`, `getBalance*`, `getFence`, `readTrxns`, `replayWallog` |
| Transaction consensus | `src/omsession.cc` `doTrxnL2`, `initTrxn`, `validateTrxn`; `src/server.cpp` `onRecvK/L/M/N`, `sendFollowersXITn`, `multicast`, `doCleanup`; `src/trxnstate.cc` | `trxnState_`, `collectKTrxn_`, `collectLTrxn_`, `collectMTrxn_`, `trxn_initer_client_socket_` | one handler per message XIT_i .. XIT_n |
| Query consensus | `src/omsession.cc` `doQueryL2`, `initQuery`, `validateQuery`; `src/server.cpp` `onRecvQueryK/L`; `runQuery` of `src/blockmgr.cc`; `src/omwaitstr.cc` | `trxnState_`, `collectQueryKTrxn_`, `collectQueryLTrxn_`, `qResult_`, `query_initer_client_socket_` | one handler per message XIT_i .. XIT_l |
| Tokens | `src/omtoken.cc`, `createToken`, `transferToken`, `modifyTokens`, `checkValidTokens` of `src/blockmgr.cc` | token list in each account record | create, transfer |
| Sessions, connections | `src/omsession.cc`, `src/server.cpp`, `src/omicroclient.cc`, `src/clientpool.cc` | sockets | read a request, dispatch, answer |
| Cryptography | `src/omicrokey.cc`, `src/omaes.cc`, `src/ombase85.cc` | none | sign, verify, encrypt |
| Formats | `src/omjson.cc`, `src/omdom.cc`, `src/omstrsplit.cc`, `src/ommsghdr.cc`, `src/ZlibCompress.cc` | none | parse, print |
| Synchronisation | `src/omsync.cc` | none | not called by the server |

### Interaction

A node runs one `io_context` on one thread.  A connection is read, its message
handled to the end (validation, state change, saving, sending), and closed.  A
handler sends with `multicast`, which starts one thread per recipient to connect
and send, joins them, and waits for no answer; a message whose connection fails
is gone.  Nodes share
nothing else.  A handler reads and writes the ledger directly.

    client -> proxy  --i-> every zone leader
    leader --j-> followers --k-> leader        first vote, in the zone
    leader --l-> other leaders                 second vote
    leader --m-> other leaders                 third vote, then the leader saves
    leader --n-> followers                     the followers save; the proxy
                                               answers the client

A query takes the first half of the way.  The proxy computes the result first,
every node a message reaches computes it again and drops the message if it finds
another one:

    client -> proxy  --i-> every zone leader
    leader --j-> followers --k-> leader --l-> proxy, which answers the client

### What is hard

* **Ordering.**  Votes of the second and third kind may reach a leader before
  its own zone has voted, and XIT_i after all of them.
* **Interleaving.**  Every vote is based on a balance read before the other
  transactions in flight are saved; nothing reserves money.
* **Loss and restart.**  Messages are never repeated.  `main.cc` builds a new
  server after an exception: the files survive, states, counters and waiting
  clients do not.
* **Time.**  Counters older than 240 s are erased and transactions older than
  300 s refused, both possibly in the middle of a vote.
* **Files.**  Looking an account up creates its store file; a save has several
  steps and can fail after the vote is over.
* **Queries.**  The accounts change while the nodes confirm a result about them.
* **Tokens.**  A token list is edited entry by entry, in place, by requests of
  several items; receiver's entries are copies of the sender's.
* **Numbers.**  Balances are text with six significant digits; `2f+1` is 1 for
  up to three voters; zone numbers index an array without a check.

`PROJECT.json` lists these as hazards, each at its line with the properties
aimed at it.

### What makes each component correct

* Circuit: every node computes the same zones and leaders; zone numbers stay in
  range; the separate passes over the node list agree with one another.
* Ledger: accounts follow from the block files; money is neither made nor lost;
  a failed operation leaves no record; an account that does not exist can be
  created.
* Save: blocks never get ahead of the accounts; a crash makes no money; a replay
  does not apply again what it finds in the blocks; no process logs a transaction
  twice.
* Tokens: conserved; an NFT has one holder, its owner; what the vote has checked
  the save can do; replicas agree.
* Queries: an answer is what 2f+1 of the followers in more than half of the zones
  have found too, and still true when it is given; clients are answered.
* Consensus: messages reach nodes in the role the handler assumes; final only
  with 2f+1 votes at each level; saved at most once per node; nodes with the
  same blocks have the same accounts; no double spending; a client is told of
  success only if the transaction is saved; transactions become final and
  clients are answered.

## 2. Modules

    DynamicCircuit                OmAccount
      |     |    \                /      \
      |  Circuit  TrxnConsensus-BlockMgr   Tokens
      |  Scan        |          /     \        \
    QueryConsensus   |    LedgerNode  SaveTrxn  TokenLedger
                     |         \_________|
                VoteCommit     (refinement)
               (refinement)

EXTENDS goes downwards; `TrxnConsensus` and `SaveTrxn` instantiate `VoteCommit`
and `LedgerNode` under a refinement mapping.  Each `...MC` module gives values to
the constants, `TrxnRestMC` has TLC evaluate the hypotheses of `RestFinal` on its
instances, each `...Proofs` module extends the one it proves about;
`OperatorProofs` has the laws of the circuit's operators, of rounded numbers and of
sums over a set, which the other proof modules share.

* **`DynamicCircuit`**: the circuit as functions of the number of nodes `n` and
  of `h`, the hashes of the node names under the beacon.  A node is its position
  in the node list.  Hashes are arbitrary, so every beacon is covered.
* **`CircuitScan`**: the four loops of `dynamiccircuit.cc`, one node-list entry
  per step; `leader`, `other`, `verdict`, ... are the code's local variables.
  `VisitOtherZone` and `VisitOwnZone` are the two branches of the loop body.
* **`OmAccount`**: what `sprintf("%.6g")` does to a balance (`Stored`).
* **`BlockMgr`**: the ledger of a node as a record of the store files on disk,
  the accounts, and the records of each transaction in the block files of its
  sender (`debit`) and receiver (`credit`).  Operators take a ledger and return
  what the code reads from it or leaves in it: `Saved` is `saveTrxn`, `Checked`
  what a validation leaves behind, `RelayValid` the conditions of `validateTrxn`.
* **`LedgerNode`**: one such ledger under an arbitrary sequence of saves and
  lookups.
* **`SaveTrxn`**: the steps inside `saveTrxn`.  `todo` is the program counter:
  the steps still to be done, in the order of `Steps`; `job` its local variables;
  `blocks`, `wal`, `listed` the files; `cursor` the loop of `replayWallog`.  A
  block file that cannot be opened ends the save (`OpenFails`) or truncates the
  sender's file (`Rollback`); `Crash` may come between any two steps, also
  between the opening of a new store (`OpenStore`) and the put of its account
  (`PutAccount`), and may leave a torn record.  `begun` is `trxnState_`, which a
  crash erases: a new process may be told to commit a transaction that is in the
  files, and `receiveTrxn` does not look (`Begin`).  `AtomicSave` maps it to
  `LedgerNode`: the ledger others see is the one before the save while the save
  runs.
* **`Tokens`**: token lists and what `modifyTokens`, `checkValidTokens`,
  `hasDupNames` and `validateReqTokens` make of them; `ModifyTokens` is a recursive
  function over the items of the request.
* **`TokenLedger`**: token lists on several nodes, which save committed requests
  in any order.
* **`VoteCommit`**: what the network promises of a transaction, without messages
  or counters: members vote, leaders agree, confirm and commit, followers
  follow, nothing is taken back.
* **`TrxnConsensus`**: the network.  `round[x][t]` holds `trxnState_` and the
  three vote counters; `initer[x]` the waiting clients; `pending` the messages
  on their way.  Each message handler is one action or a few, one per early
  return (`RecvL`, `RecvLCounted`, `RecvLIgnored`), because a handler runs
  without interruption.  `Ignore` and `Reject` are the two ways validation
  fails.  `Restart` is the loop of `main.cc`, `Cleanup` is `doCleanup`,
  `Expire` the passing of 300 s.  `sent` and `epoch` are history.  `Promise` is
  the mapping to `VoteCommit`: who has voted, agreed and confirmed is who has
  sent XIT_k, XIT_l and XIT_m.
* **`QueryConsensus`**: the same network answering queries.  `account` is the
  part of the ledger `runQuery` reads; `Save` stands for any transaction that
  changes it at one node; `qResult` is the result `OmWaitStr` keeps.  `Submit` to
  `RecvL` are the branches of `doQueryL2`, `onRecvQueryK` and `onRecvQueryL`.

### Abstractions

* Cryptography: a request carries a key, which equals the account's or not.
* Names, JSON and wire formats: model values and records.  `getUserPath` is an
  arbitrary function `Path`, so that two users may share a directory.
* `isqrt`/`cbrt` are exact, as they are for the sizes a node list can have.
* Amounts are whole omicros (or whole tokens).  Balances have up to fifteen
  digits, as long as a `double` is exact: `DigitsAssumption` asks that all the
  money of a network fits, which it does for a hundred million users.  `Quantum`
  is the weight of the last of six digits anywhere in that range, and `addBalance`
  refuses amounts above 10^10 (`CanPay`).  Token requests are well-formed: at least
  one item, each with a name and a positive amount, from users with an account.
* In `TrxnConsensus` and `LedgerNode` one save is one step.  That is right as
  long as nothing fails and the process does not end, because one thread runs
  all handlers: `AtomicSave` says so.  What happens otherwise is the subject of
  `SaveTrxn`.
* In `SaveTrxn` all transactions fall into one hour, so a directory has one block
  file, and an entry of the log is written in one step.
* In `QueryConsensus` a transaction that is saved meanwhile is one update of one
  account by one unit, and fields of an account that never change are left out:
  a query only tells records apart.
* Clocks: a transaction is older than 300 s for all nodes (`old`) or for none.
  A query has an age of 0, more than 240 s or more than 300 s.
* A message may wait for ever in `pending`: this is a lost one.  A message sent
  before its recipient restarts may still be delivered after.
* XIT_i at a node that does not lead, XIT_n at one that does and so on have no
  action: `RolesOK`, checked and proved, says that they are never sent.

## 3. Runs

Deadlock checking is off in all of them: a network in which every message has
been handled rests, a scan ends at the end of the list, a node with nothing to
save rests.

| run | instance | what it shows |
|---|---|---|
| `circuit_scan` | all networks of 1 to 5 nodes, all hashes, every position of the node itself | indices in range; the four passes agree with the circuit and one another |
| `ledger_node` | 3 users, 3 openings, 6 payments, some to be rounded, one with a wrong key | accounts follow from the block files, but for the rounding, after refused payments too |
| `trxn_payments` | 4 nodes, 2 zones, two payments of one payer, which it can afford, with different leaders, follower proxy | roles; replicas with the same blocks have the same accounts up to the last digit of a balance; when all messages have been handled the block files are the same and every client is answered whose proxy does not lead; with fair delivery both payments become final at all nodes and both clients are answered |
| `trxn_restart` | 4 nodes, an account being opened while it is paid from; the proxy and a leader may each restart once | no node saves a transaction twice; `confirmed` only if the proxy has the record |
| `trxn_aging` | zones of 4 and 2 nodes, counters erased and expiry at any moment | final only with 2f+1 votes at each level; votes after the quorum make no leader send again; every step is one of `VoteCommit` |
| `trxn_four_leaders` | 4 zones, 3 of 4 leaders needed, 6 nodes unreachable | the same at the upper level; states only go forward; M votes that arrive early are not forgotten: when all messages have been handled, the reachable nodes have finished |
| `save_trxn` | an opening and two payments in opposite directions; two crashes, one failure, replays, commits repeated after a crash | blocks never ahead of the accounts; a crash loses the amount of a payment or nothing, and never makes money; a replay does nothing about a transaction it can find; a process commits and logs each transaction once and replays each entry once; without crash and failure a save is one step of `LedgerNode` |
| `tokens` | 2 nodes, 2 users who mint one name each and an NFT, transfers of several items in both directions, one naming a token twice, one to its sender | tokens conserved; one holder of the NFT; what the vote has checked the save does; replicas agree |
| `query` | 7 nodes, 3 zones; three queries of different circuits, two of them of zones {1,2,3,4}, {5,6}, {7}; four updates; three sets of unreachable nodes; the proxy restarts, votes are cleaned up | an answer is what the proxy holds when it is given; it has its certificate; it comes if nothing stands in the way, and a client that still waits when every message has been handled waits for a reason |

**Why the bounds are enough.**  Two zones is the least with an upper level; a
zone of four and four zones are the least for which `2f+1` (here 3) is neither
one vote nor all, so both kinds of quorum appear.  Votes only count, so a fifth
voter brings no new case of the handlers.  Two transactions are what interferes:
each refers to the ledger and to its own round only.  Six nodes are unreachable
in the runs with four zones so that TLC ends; the remaining ones still form a
quorum.  One restart per node puts a restart at every point of one transaction.

Two crashes interrupt a save and the replay or the second commit of it, so the
third process finds two entries of one transaction in the log; every pair of
transactions in the instance shares an account.  The transfers include every way a
receiver can meet a token: for the first time, again, and with the empty entry
left from an NFT.  Queries share no state with one another, so one is submitted
per behaviour, with three to choose from; with seven nodes a zone needs two of
three or three of four votes and two of three zones must answer, and every
follower of {5, 6, 7} may be the one that is not asked for.  The updates of
alice's balance cancel out, so that a result may be true, then false, then true
again.

**Fairness.**  `Spec` assumes none, which makes every loss of messages a
behaviour; an invariant sees the same states under `FairSpec`, which adds that
some pending message is handled: `io_context` runs every handler that is ready.
Submitting, restarting, cleaning up, saving and expiry are not fair.  With `WF` of
the union of all deliveries each message is handled eventually, because no
message is sent twice and only finitely many are.  `QueryAnswered` is about
queries that meet no obstacle (`Smooth`: one result everywhere while the client
waits, no restart, no ageing, and leaders of more than half of the zones that
have enough reachable followers and are not the proxy): without any one clause the
code may leave the client without an answer.

### Disagreements between the code and what it says of itself

Each is a run that TLC ends with a counterexample (`expect: violation`); the
quoted lines are in `PROJECT.json`.

| run | what happens |
|---|---|
| `trxn_double_spend` | two payments that together exceed the balance are both final: both are voted for by nodes that have saved neither, since nothing reserves the money between the check of the balance (`src/omsession.cc:655`) and the save; a node that has saved one refuses the other, but different nodes have saved different ones |
| `trxn_reapplied` | a leader that restarts during the vote saves a payment a second time: it has forgotten the transaction, and asks its block files only if the fence in the message, read by the proxy, differs from its own (`src/omsession.cc:665`) |
| `trxn_account_lost` | looking a user up leaves a store file, which makes the opening of the account fail at a node that has committed it |

Others, met while modelling, have no run of their own:

* A client connected to a zone leader gets no final reply: only followers answer
  (`src/server.cpp:509`, `sendFollowersXITn` ends without looking for a client).
  `RestIsTold` says that nobody else is left waiting.
* A leader whose own L vote completes the quorum does not notice: `onRecvK` adds
  the vote (`src/server.cpp:316`) and looks at nothing.  With three votes of four
  needed another vote must still come.  If just three leaders can be reached and two
  votes overtake the third leader's zone, it never comes, and the transaction stays
  as it is.  `RestFinal` therefore asks for one leader more than the quorum.
* `REPLAY_WALLOG` starts a replay when its value is not `YES`
  (`src/server.cpp:67`); `Replay` is therefore a constant of `SaveTrxn`.
* A crash between the two puts of `updateAcctBalances` loses the amount, and one
  after the log entry but before the block files are closed makes the replay
  apply the transaction again.  So may a commit: the only memory of what has been
  saved is `trxnState_`, and a process that has just started has none
  (`trxn_reapplied` shows the messages that lead there).  The commit writes one
  more entry, and each entry is replayed on its own.  `CreditFollowsDebit` and
  `AppliedPerProcess` say how bad it can get: with n crashes a transaction is
  applied (n+1)(n+2)/2 times at most, and in `save_trxn` it
  does come to six times with two.
* An opening interrupted between the creation of the store file and the put of the
  account leaves a file without an account, which every later `createAcct` takes
  for the account (-3, `src/blockmgr.cc:210`).
* Leaders that have handled a vote before a transaction is 300 s old commit it,
  those that have not refuse it (`src/omicrotrxn.cc:244`), and nothing makes the
  ledgers equal again.
* `createToken` refuses every second request of a user, because `hasDupNames`
  (`src/omtoken.cc:97`) compares the keys of the JSON objects instead of the
  names; a transfer to oneself creates tokens, as a payment creates money.
* The polling request QQ compares the votes of zones, erased at the quorum, with
  two thirds of all nodes (`src/omsession.cc:524`): with three or more nodes the
  answer is always `NOT_ENOUGH_VOTES`.
* In a query a zone of one node never votes: the leader counts its own vote, but
  what `onRecvQueryK` returns is not looked at and no XIT_l is sent.
* `getOtherLeadersAndThisFollowers` answers "am I a leader" with yes on every
  node: `ScansMatchCircuit` says so, and the `not leader` branches of the
  handlers are dead.
* A payment to oneself creates money: `updateAcctBalances` computes both records
  from the one before the payment and puts the receiver's last
  (`src/blockmgr.cc:374`), so the debit is overwritten.
* Rounding loses small amounts (50 omicros paid to an account of ten million
  leave the payer and arrive nowhere), which is why `AccountsMatchBlocks` allows
  half a digit per update.  And because a sum of rounded numbers depends on their
  order, replicas that saved the same payments may differ in the last digit for
  good: in `trxn_payments` bob ends with 19000100 at a node that credited him
  6000050 before 3000060, and with 19000200 at one that did so after.
  `ReplicasAgree` allows that and no more.

## 4. Proofs

| theorem | module | statement |
|---|---|---|
| `ZonesInRange`, `ScansComputeCircuit` | `CircuitScanProofs` | `CircuitScan`'s two invariants, for every number of nodes and every hash |
| `TypeCorrect` | `TrxnConsensusProofs` | `Spec => []TypeOK` |
| `RolesCorrect` | `TrxnConsensusProofs` | `Spec => []RolesOK` |
| `StatesGoForward` | `TrxnConsensusProofs` | `Spec => StateMonotone` |
| `AppliedOncePerEpoch` | `TrxnConsensusProofs` | `Spec => []AppliedPerEpoch`: at most once per process, whatever restarts; no run lists it, because where it says more than `AtMostOnce` a node applies a payment twice, which is the counterexample of `trxn_reapplied` |
| `AppliedOnce`, `AppliedOnceThroughRestarts` | `TrxnConsensusProofs` | `Spec => []AtMostOnce`, without restarts or if nobody makes two payments or one to itself |
| `ConfirmedRecorded` | `TrxnConsensusProofs` | `Spec => []ConfirmedIsRecorded` |
| `ReplicasSame`, `ReplicasSameThroughRestarts` | `TrxnConsensusProofs` | if nobody pays itself, and without restarts or if nobody makes two payments, `Spec => []ReplicasAgree` |
| `PromiseKept`, `CommitsCertified` | `TrxnConsensusProofs` | without restarts, `Spec => KeepsPromise` and `Spec => []CommitCertificate` |
| `RestFinal`, `RestTold`, `RestSame` | `TrxnConsensusProofs` | `Spec => []RestIsFinal`, `[]RestIsTold` and `[]RestIsSame`, under `Timely`, `NoSelfPayment`, `Affordable` and `Reachable`, explained below |
| `NeverRepeated` | `TrxnConsensusProofs` | without restarts `Spec => NothingRepeated` |
| `AnswersCertified` | `QueryConsensusProofs` | `Spec => []AnsweredCertificate`, which speaks of runs so far without restarts |
| `AnsweredAtRest` | `QueryConsensusProofs` | `Spec => []RestIsAnswered`, which speaks of queries so far `Undisturbed` |
| `QueryTypeCorrect`, `AnswersCurrent` | `QueryConsensusProofs` | `TypeOK` and `AnswerIsCurrent` of `QueryConsensus` |
| `LedgerTyped`, `AccountsMatch` | `LedgerNodeProofs` | `Spec => []TypeOK`; if nobody pays itself, `Spec => []AccountsMatchBlocks` |
| `SaveTyped`, `BlocksBehind`, `FoundStaysDone`, `AppliedOncePerProcess` | `SaveTrxnProofs` | `TypeOK`, `BlocksNeverAhead`, `FoundIsDone` and `AppliedPerProcess` of `SaveTrxn` |
| `MoneyLostOnlyByCrashes` | `SaveTrxnProofs` | if nobody pays itself and amounts are `WholeAmounts`, `Spec => []CreditFollowsDebit` |
| `SaveIsOneStep` | `SaveTrxnProofs` | `Spec => AtomicSave`: the steps of a save implement one step of `LedgerNode` |
| `TokensTyped`, `CheckedDone`, `NftHeldOnce` | `TokenLedgerProofs` | `TypeOK`, `CheckedIsDone` and `NftOneHolder` of `TokenLedger` |
| `TokensKept` | `TokenLedgerProofs` | if every name is created `FewMinted`, `Spec => []TokensConserved` |
| `TokenReplicasSame` | `TokenLedgerProofs` | if amounts of every name are `Exact`, `Spec => []TokenReplicasAgree` |

They hold for every value of the constants that satisfies the assumptions:
a network has at least one node, hashes are natural numbers, requests are
well-typed, accounts of the initial state have keys, users, directories and
transactions are finitely many (a disk holds no more), and all their money has
fifteen digits at most (`DigitsAssumption`).

The hypotheses some of them add are those without which the code breaks the
property, as the runs and the list above show:

* `NoSelfPayment`: a payment to oneself makes money (`src/blockmgr.cc:374`).
* `NoRestarts`: a restarted node may apply a payment again (`trxn_reapplied`), so
  replicas and accounts may differ by it.  `OnePaymentEach` excludes it too: it
  takes a second payment of the user to make the fences agree.
* `WholeAmounts`: `CreditFollowsDebit` has an equation for the total of all
  balances, and rounding breaks it.  The amounts are multiples of the last digit
  that the money of all users together keeps (`Quantum(Money)`: 100 omicros for up
  to 9 users, 1000 for up to 99, 10000 for up to 999 and so on); the run has such
  amounts.  How far rounding takes a balance is what `AccountsMatch` says for all
  amounts.
* `FewMinted`: balances of tokens are printed with six digits too, so that of a
  million and more some are lost.  What is created of one name has six digits
  together.  `TokensConserved` itself excludes transfers to oneself, which create
  tokens.
* `Timely`, `Affordable`, `Reachable`: the network comes to rest with every
  transaction final only if nothing refuses or loses a vote.  No node restarts and
  nothing becomes too old; payments are signed by their payers, who can make all
  they plan, with half a digit for each rounding; of the leaders, one more than the
  quorum can be reached, a quorum of them can have their zones agree, and no
  reachable node has a leader that is not.  `AllReachable` shows that with no node
  down two zones are enough.  `RestSame` also asks that receivers have accounts:
  what the opening of an account does depends on the store files of a node
  (`trxn_account_lost`).  `TrxnRestMC` evaluates them on the instances of the runs.
* `Exact`: replicas agree on transfers to oneself too, so these are not excluded;
  but they let balances grow without any being created.  Either there are none and
  `FewMinted` holds, or all that is ever created and transferred of the name has six
  digits together (`FewMoved`).

* **Circuit.**  `FirstIsLeast` (from well-founded induction on `Nat`) gives that
  a zone has a least node; hence all nodes of a zone agree on their leader
  (`LeaderAgreed`) and followers follow (`FollowersFollow`).  `RootExists` shows
  that the integer root the code computes exists and `ZoneBounded` that
  `slot \div width` stays below the number of zones.  The loops are proved with
  `LoopInvariant`: before entry `i` is looked at, each array holds the first
  node below `i` of every zone.
* **Roles.**  `RolesOK` is inductive beside the types: the handler that sends
  votes was itself started by a message in role, and the circuit lemmas carry
  the role over to the recipients.
* **States.**  `DeliverRound` says what any delivery does to the round and the
  ledger: nothing, or a step forward, and a save only on the way into ST_F.
  `StatesGoForward` follows at once.
* **At most once.**  `AtMostOnce` is not inductive: a node with a record and a
  state below F would save again.  `RecordsPerEpoch` adds that a node below F has
  no more records of a transaction than it had processes before this one; a
  restart forgets the state and begins a new process.  Where nobody pays twice more
  is true (`OnceInv`): every message of a payment carries the fence 0 that the
  proxy read, since nobody sends a payment before its client has submitted it, and
  the fence of a payer is the number of records of its one payment (`OnceOK`), so a
  node with the record finds the fences different, asks its block files and refuses
  (`ValidNew`); and an account is opened only where its user has no files.
* **Confirmation.**  `ConfirmedByProxy` adds where clients wait; `RecordsKept`
  shows that no step takes a record away.
* **Certificate.** That `TrxnConsensus` implements `VoteCommit` for every
  network is the longest argument. `CommitCertificate` is not inductive, since
  the code commits on counters and the certificate speaks of votes. The
  invariant `VotesOK` ties the two together: `Sources` (who sent a vote had
  reached the state the vote stands for, and could be reached itself),
  `Single` (no vote is sent twice to one node), `CountsOK` (a counter is at
  most the number of different voters handled, and one more once the leader
  has cast its own vote) and `Announced` (a leader that has voted has told
  every peer it could reach, so that its own vote is one of those sent).
  `Single` is what breaks with a restart, which is why both theorems assume
  `NoRestarts`. `Effect` then sums a delivery up in eight cases, one per action
  of `VoteCommit` and the stutters, and `PromiseDeliver` maps each. Lost
  messages, cleaned-up counters, stale transactions, other transactions of the
  same users and any order of delivery are included. `CommitsCertified` needs
  the refinement only: `PromiseExtends` says what a step of `VoteCommit` adds to
  the votes, zones, leaders and commits of one transaction, and `ExtendsBacked`
  that each stays backed by the one before.
  `AnswersCertified` follows the same argument for queries, where the leaders do
  not vote themselves: `CertInv` holds as long as no node has been restarted
  (`QuietInv`), and adds that the results of all votes are one (`OneResponse`)
  and that a client has been told what a message said when enough leaders had
  spoken (`ToldOK`).
* **Rest.**  `RestIsFinal` speaks of the states without messages; what leads there
  is an invariant about the messages that have been handled.  `Consistent` bounds
  what a payer has spent, so an affordable payment passes every check
  (`AffordableValid`, `DeliverValid`), and a delivery is one of the handlers' cases
  (`DeliverMoves`).  `RestOK` says of every node what it has asked for in its state
  (`StateOK`), of every leader that its counters are at least the votes it has heard
  and that these are no quorum it has passed over (`CountsHigh`, the converse of
  `CountsOK`), of every message handled that what it asks for has been done
  (`Done`), of every vote that all leaders that can be reached are told (`TellsAll`).
  Passing over is possible once: a leader that agrees after it heard the others
  looks at no count.  `NoCircle` says that of two leaders that lack one vote each,
  not both can have agreed after hearing the other, so at most one stays behind
  (`OneAtRest`), and one leader more than the quorum makes up for it.  When nothing
  is pending all that was sent has been heard, and the quorums follow from the
  bottom up: zones (`ZonesAtRest`), leaders (`LeadersAtRest`, `LeaderFinal`),
  followers (`AllFinal`).  `RestTold` adds where clients wait (`ClientsOK`),
  `RestSame` that what is final has been saved (`FinalIsSaved`), and only once.
  `NeverRepeated` is why there is a rest: messages are finitely many, and none that
  was handled comes back.  With the fairness of `FairSpec` that is `Finality` and
  `ClientAnswered`; this last, temporal step is left to TLC.
* **Queries.**  `AnswerIsCurrent` speaks of the moment a client is answered and
  is not inductive.  `QueryInv` adds that a client waits at one proxy only
  (`WaitsOnce`), that all messages of a query carry the one result its proxy
  found (`OneResponse`), and that the result a node keeps came in such a message
  (`KeptResults`).  The vote that completes a quorum carries that result, and the
  comparison at its receipt ties it to the accounts of that moment.
  `RestIsAnswered` speaks of the states without messages, and of queries nothing has
  disturbed so far (`Undisturbed`: no restart, no ageing, no saved update that the
  query asks about).  All nodes find one result for these (`SteadyInv`, from what an
  update leaves of an account, `UpdatedIs`), so no message is rejected and every
  delivery does something (`DeliverMoves`).  `RestQ` says that no vote is lost before
  its count is over (`NoneLost`, the converse of `CountsOK`), that the proxy of a
  client that waits has asked all leaders it can reach (`Waits`), and that whatever a
  node has handled or reached was passed on (`ActedOn`); the proxy is an exception,
  since its answer may come before its own XIT_i, which asks its followers then no
  more.  Without messages every zone that can speak has then been heard
  (`SpeakingHeard`), and a proxy that has heard more than half has its answer.

* **Sums.**  Money is a sum over users, and a paid amount a sum over
  transactions.  `SumFunctionOnSet` is a fold, and no induction over finite sets
  can be cited, so its laws (`SumRemove`, `SumAdd`, `SumChange`, ... in
  `OperatorProofs`) are proved by the least counterexample: a finite set has a
  smallest subset for which the law fails, and the fold's own equation, which
  removes a chosen element, refutes it.
* **Ledger.**  `AccountsMatchBlocks` is inductive only with an account of all the
  money.  `Consistent` adds it: balances together exceed what the accounts were
  opened with by at most what the roundings can have added (`MoneyOK`).  That depends
  on the size of the balances and so on the roundings before: `Most` adds one
  last digit per payment, of a balance that has all the money `Most` allowed before
  it.  So none exceeds `LargestBalance` and every update rounds by at most
  `HalfDigit`; and an account exists from the start or was opened by a recorded
  transaction (`AccountOK`).  `PayConsistent` and
  `CreateConsistent` are the two ways a save changes it.
* **Replicas.**  In `TrxnConsensus` every ledger stays `Consistent`
  (`DeliverStory` and `OnceStory`: what is saved is not in the blocks yet, because
  a node below F has no record of it, or by `ValidNew`).  Two accounts that follow
  from the same records have the same fence and counter, and balances within half
  a digit per update of the same number (`SameBlocksSameAccounts`).
* **Steps of a save.**  `Base` says what the program counter means: `todo` is
  always the rest of the steps of the transaction in hand (`Ordered`), so its
  first element `At` tells what has been done.  `LogOK` counts the entries of a
  transaction: one per crash, and one more if this process has committed it and is
  past its entry (`Own`).  On it rest `Ahead` (records plus the record still owed
  are at most the puts), `Fresh` (while a replay is about to put the first record,
  its transaction is not in the file), `AppliedOK` (puts after c crashes are at most
  c(c+1)/2, all that the processes before could do, plus `Tries`: this one's own
  commit and the entries its replay has passed, `Passed`) and `HalvesOK` with
  `MoneyKept` (the amounts put once and not twice, summed).  `MoneyKept` also says
  that balances are `Whole`; since no balance exceeds all the money (`HoldsNoMore`),
  nothing is rounded (`WholeStored`).  The first two
  conjuncts of `CreditFollowsDebit` need no hypothesis; only the equation does.
* **One save, one step.**  `Midway` gives files, accounts and records in the middle
  of an undisturbed save as parts of the ledger before it and the ledger `Saved`
  makes of that.  `StartMidway`, `PutMidway` and `WriteMidway` carry it through
  the steps, and `ListSeen` shows that at the last one everything is there: the
  step LedgerNode takes at once.  `CheckedLeavesNothing` disposes of the store
  file a validation may leave: a payer that is valid has one.
* **Tokens.**  `modifyTokens` is a loop whose length is the request's.  `AfterIs`
  shows that the recursive function exists (induction as a set of numbers, `UpTo`,
  of `OperatorProofs`), and `RunFungible`, `RunNft`, `RunOnePlace` and
  `RunChecked` carry what is said of two wallets through the items: of a fungible
  token the sum of the items leaves one list and enters the other, which may be
  the same list; of an NFT at most one item can be done, because it leaves an
  empty entry.  `NewEffect` and `XferEffect` are then all that the invariants know
  of a saved request.  `NftOneHolder` is not inductive: `NftOK` speaks of what has
  been created so far, says that everybody but the holder has an empty entry or
  none, and that no wallet gets a second entry of the name.  `TokensConserved`
  needs that entries of the name are nobody's NFT (`AllOf`), and bounds the
  balances by the total it is about.  `ReplicaOK` makes the holdings and counters
  of a user sums of `Gain` over the saved requests, and a sum has no order.
  `Fungible` looks at the first item of a request that names the token, since that
  is the entry all later requests find: when two users each create one of a name
  twice, that entry is an NFT's, and one is lost where they meet.

With TLC stay liveness and `ENABLED`: `Finality`, `ClientAnswered` and
`QueryAnswered`.  All invariants and action properties of the passing runs have a
theorem.

## 5. What is not modelled, and why

* Three-level voting: reached with ten thousand nodes; its messages have no
  handler.
* QP, QT and QQ: requests that read one thing and change nothing.
* Cryptography, formats, compression: computation without state.
* `omsync.cc`: not called.  `SecureContract`, `miners`, `UDP`: no code.
* Reuse of socket descriptors, client retries, clocks that differ, malformed
  requests, the text of the write-ahead log.
* The client library and its pool: one connection per message, which succeeds or
  does not, is all that the nodes see of it.

## 6. Plan

Done: the modules above.  Left, in order of importance:

1. Restarts in the middle of a save together with the votes of other nodes:
   `SaveTrxn` inside `TrxnConsensus`.

