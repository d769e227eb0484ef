---------------------------- MODULE TrxnConsensus ----------------------------
(***************************************************************************)
(* How a transaction becomes final (src/src/omsession.cc doTrxnL2 and       *)
(* src/src/server.cpp onRecvK ... sendFollowersXITn), for payments and new  *)
(* accounts.  Per transaction the nodes form a circuit (DynamicCircuit):    *)
(*                                                                          *)
(*   client -> proxy  --i-> every zone leader                               *)
(*   leader --j-> followers --k-> leader        first vote, in the zone     *)
(*   leader --l-> other leaders                 second vote                 *)
(*   leader --m-> other leaders                 third vote, then commit     *)
(*   leader --n-> followers                     commit                      *)
(*                                                                          *)
(* A handler runs on the node's one io_context thread from the message to   *)
(* the end, so each is one action.  Multicast opens a connection per        *)
(* recipient and waits for no answer: messages may arrive in any order or,  *)
(* when a connection fails, never; none arrives twice.                      *)
(***************************************************************************)
EXTENDS DynamicCircuit, BlockMgr

CONSTANTS
  N,           \* number of nodes
  Hash,        \* Hash[t][x]: hash of node x under the beacon of t
  Proxies,     \* Proxies[t]: the nodes t's client may connect to
  Founded,     \* users with an account everywhere in the initial state, and
               \* their keys
  Down,        \* nodes no connection can be made to, throughout
  MaxRestarts, \* MaxRestarts[x]: bound on the restarts of node x
  Stale,       \* transactions whose votes doCleanup may find 240 s old
  Late         \* transactions that may become 300 s old before they are done

Node == 1..N

ASSUME NAssumption == N \in Nat \ {0}
ASSUME HashAssumption == Hash \in [Trxn -> [Node -> Nat]]
ASSUME FoundedAssumption == \E S \in SUBSET User : Founded \in [S -> Key]
ASSUME RestartsAssumption == MaxRestarts \in [Node -> Nat]

\* OmState of trxnstate.h: ST_NULL, ST_A .. ST_F.
ST_NULL == 0
ST_A == 1
ST_B == 2
ST_C == 3
ST_D == 4
ST_E == 5
ST_F == 6
State == ST_NULL..ST_F

Xit == {"i", "j", "k", "l", "m", "n"}

VARIABLES
  round,    \* round[x][t]: trxnState_ and collectK/L/MTrxn_ of t at node x
  ledger,   \* ledger[x]: the files of node x
  initer,   \* initer[x]: the keys of trxn_initer_client_socket_ of node x
  client,   \* client[t]: what the client that submitted t has seen
  pending,  \* messages sent, to be delivered
  sent,     \* messages ever sent (history)
  epoch,    \* epoch[x]: restarts of node x (history)
  old       \* transactions that are more than 300 s old

vars == <<round, ledger, initer, client, pending, sent, epoch, old>>

\* epoch tells two messages a node sends before and after a restart apart.
Message == [xit : Xit, trxn : Trxn, from : Node, to : Node, fence : Nat,
            epoch : Nat]
Round == [state : State, k : Nat, l : Nat, m : Nat]
ClientState == {"idle", "waiting", "confirmed", "rejected", "dropped"}

NoRound == [state |-> ST_NULL, k |-> 0, l |-> 0, m |-> 0]

TypeOK ==
  /\ round \in [Node -> [Trxn -> Round]]
  /\ ledger \in [Node -> Ledger]
  /\ initer \in [Node -> SUBSET Trxn]
  /\ client \in [Trxn -> ClientState]
  /\ sent \subseteq Message
  /\ pending \subseteq sent
  /\ epoch \in [Node -> Nat]
  /\ old \subseteq Trxn

Init ==
  /\ round = [x \in Node |-> [t \in Trxn |-> NoRound]]
  /\ ledger = [x \in Node |-> LedgerWith(Founded)]
  /\ initer = [x \in Node |-> {}]
  /\ client = [t \in Trxn |-> "idle"]
  /\ pending = {}
  /\ sent = {}
  /\ epoch = [x \in Node |-> 0]
  /\ old = {}

-----------------------------------------------------------------------------
(* The circuit of t as the nodes compute it.                                *)

\* What node x computes of the circuit of t.
Part(x, t) == [leader    |-> LeaderOf(N, Hash[t], x),
               followers |-> Followers(N, Hash[t], x),
               peers     |-> OtherLeaders(N, Hash[t], x)]
Circuit == [t \in Trxn |-> [x \in Node |-> Part(x, t)]]

MyLeader(x, t) == Circuit[t][x].leader
MyFollowers(x, t) == Circuit[t][x].followers
MyPeers(x, t) == Circuit[t][x].peers
Leads(x, t) == MyLeader(x, t) = x
LeadersOf(t) == {MyLeader(x, t) : x \in Node}

\* Mutants: the voter itself is not counted; every leader must vote.
ZoneQuorumOthers(x, t) == TwoFPlus1(Cardinality(MyFollowers(x, t)))
LeaderQuorumOthers(x, t) == TwoFPlus1(Cardinality(MyPeers(x, t)))
LeaderQuorumAll(x, t) == Cardinality(MyPeers(x, t)) + 1

ZoneQuorum(x, t) == TwoFPlus1(Cardinality(MyFollowers(x, t)) + 1)
LeaderQuorum(x, t) == TwoFPlus1(Cardinality(MyPeers(x, t)) + 1)

-----------------------------------------------------------------------------
(* Messages.                                                                *)

\* multicast: a message to each host a connection can be made to.
Multicast(xit, t, x, fence, hosts) ==
  {[xit |-> xit, trxn |-> t, from |-> x, to |-> y, fence |-> fence,
    epoch |-> epoch[x]] : y \in hosts \ Down}

\* The same transaction object goes on with another xit.
Forward(m, xit, hosts) == Multicast(xit, m.trxn, m.to, m.fence, hosts)

Send(msgs) == /\ sent' = sent \cup msgs
              /\ pending' = pending \cup msgs

\* m has been handled and msgs are what its handler sends.
Answer(m, msgs) == /\ sent' = sent \cup msgs
                   /\ pending' = (pending \ {m}) \cup msgs

RoundAt(m) == round[m.to][m.trxn]
SetRound(m, r) == round' = [round EXCEPT ![m.to][m.trxn] = r]

\* validateTrxn: a message is late (-900) or must pass the checks.
IsLate(m) == RoundAt(m).state >= ST_F
IsValid(m) == /\ m.trxn \notin old
              /\ RelayValid(ledger[m.to], m.trxn, m.fence)

\* m is next to be handled, is of kind xit and passes validateTrxn.
Receives(m, xit) == m.xit = xit /\ ~IsLate(m) /\ IsValid(m)

\* What the lookups of the check leave behind.
LedgerChecked(m) ==
  ledger' = [ledger EXCEPT ![m.to] = Checked(@, m.trxn)]

-----------------------------------------------------------------------------
(* doTrxnL2 for a client: the node becomes the proxy of t.                  *)

FenceFor(x, t) == IF Req[t].type = "NEWACCT" THEN 0
                  ELSE Fence(ledger[x], Req[t].from)

SubmitOK(x, t) == t \notin old /\ SubmitValid(ledger[x], t)

Submit(x, t) ==
  /\ client[t] = "idle" /\ x \in Proxies[t] \ Down
  /\ SubmitOK(x, t)
  /\ ledger' = [ledger EXCEPT ![x] = Checked(@, t)]
  /\ Send(Multicast("i", t, x, FenceFor(x, t), LeadersOf(t)))
  /\ initer' = [initer EXCEPT ![x] = @ \cup {t}]
  /\ client' = [client EXCEPT ![t] = "waiting"]
  /\ UNCHANGED <<round, epoch, old>>

SubmitRefused(x, t) ==
  /\ client[t] = "idle" /\ x \in Proxies[t] \ Down
  /\ ~SubmitOK(x, t)
  /\ ledger' = [ledger EXCEPT ![x] = IF t \in old THEN @ ELSE Checked(@, t)]
  /\ client' = [client EXCEPT ![t] = "rejected"]
  /\ UNCHANGED <<round, initer, pending, sent, epoch, old>>

-----------------------------------------------------------------------------
(* doTrxnL2 for a message of another node.                                  *)

\* -900: ignored.
Ignore(m) ==
  /\ IsLate(m)
  /\ Answer(m, {})
  /\ UNCHANGED <<round, ledger, initer, client, epoch, old>>

\* Any other error: answered on the connection, which the peer has left.
Reject(m) ==
  /\ ~IsLate(m) /\ ~IsValid(m)
  /\ IF m.trxn \in old THEN ledger' = ledger ELSE LedgerChecked(m)
  /\ Answer(m, {})
  /\ UNCHANGED <<round, initer, client, epoch, old>>

\* Mutant: the state and the count stay, as if the handler ended here.
ZoneUnmarked(r) == [r EXCEPT !.l = @ + 1]

\* A leader's K quorum: state C, its own L vote, XIT_l to the other leaders.
\* The L votes that came earlier are not looked at.
ZoneVoted(r) == [r EXCEPT !.state = ST_C, !.k = 0, !.l = @ + 1]

\* Mutant: goState does not look at the state.
AlwaysGood(m) == TRUE

\* toAgood of doTrxnL2: goState takes XIT_i only in the initial state.
ToAGood(m) == RoundAt(m).state = ST_NULL

\* XIT_i at a leader in its initial state: on to A and B, its own K vote,
\* XIT_j to the followers.
RecvI(m) ==
  /\ Receives(m, "i") /\ Leads(m.to, m.trxn)
  /\ ToAGood(m)
  /\ MyFollowers(m.to, m.trxn) # {}
  /\ SetRound(m, [RoundAt(m) EXCEPT !.state = ST_B, !.k = @ + 1])
  /\ Answer(m, Forward(m, "j", MyFollowers(m.to, m.trxn)))
  /\ LedgerChecked(m)
  /\ UNCHANGED <<initer, client, epoch, old>>

\* The same at a leader without followers, which goes on into onRecvK at once:
\* its one vote is a quorum of one.
RecvIAlone(m) ==
  /\ Receives(m, "i") /\ Leads(m.to, m.trxn)
  /\ ToAGood(m)
  /\ MyFollowers(m.to, m.trxn) = {}
  /\ SetRound(m, ZoneVoted(RoundAt(m)))
  /\ Answer(m, Forward(m, "l", MyPeers(m.to, m.trxn)))
  /\ LedgerChecked(m)
  /\ UNCHANGED <<initer, client, epoch, old>>

\* XIT_i at a leader the votes of others have already carried further.
RecvILate(m) ==
  /\ Receives(m, "i") /\ Leads(m.to, m.trxn)
  /\ ~ToAGood(m)
  /\ Answer(m, {})
  /\ LedgerChecked(m)
  /\ UNCHANGED <<round, initer, client, epoch, old>>

\* XIT_j at a follower: its vote for its leader.
RecvJ(m) ==
  /\ Receives(m, "j") /\ ~Leads(m.to, m.trxn)
  /\ Answer(m, Forward(m, "k", {MyLeader(m.to, m.trxn)}))
  /\ LedgerChecked(m)
  /\ UNCHANGED <<round, initer, client, epoch, old>>

\* onRecvK.
RecvKIgnored(m) ==
  /\ Receives(m, "k") /\ RoundAt(m).state >= ST_C
  /\ Answer(m, {})
  /\ LedgerChecked(m)
  /\ UNCHANGED <<round, initer, client, epoch, old>>

RecvK(m) ==
  /\ Receives(m, "k") /\ RoundAt(m).state < ST_C
  /\ LET r == [RoundAt(m) EXCEPT !.k = @ + 1]
     IN  \/ /\ r.k < ZoneQuorum(m.to, m.trxn)
            /\ SetRound(m, r)
            /\ Answer(m, {})
         \/ /\ r.k >= ZoneQuorum(m.to, m.trxn)
            /\ SetRound(m, ZoneVoted(r))
            /\ Answer(m, Forward(m, "l", MyPeers(m.to, m.trxn)))
  /\ LedgerChecked(m)
  /\ UNCHANGED <<initer, client, epoch, old>>

\* onRecvL.
RecvLIgnored(m) ==
  /\ Receives(m, "l") /\ RoundAt(m).state >= ST_D
  /\ Answer(m, {})
  /\ LedgerChecked(m)
  /\ UNCHANGED <<round, initer, client, epoch, old>>

RecvLCounted(m) ==
  /\ Receives(m, "l") /\ RoundAt(m).state < ST_D
  /\ RoundAt(m).l + 1 < LeaderQuorum(m.to, m.trxn)
  /\ SetRound(m, [RoundAt(m) EXCEPT !.l = @ + 1])
  /\ Answer(m, {})
  /\ LedgerChecked(m)
  /\ UNCHANGED <<initer, client, epoch, old>>

\* The L quorum: state D, the leader's own M vote, XIT_m to the other leaders.
LeadersVoted(r) == [r EXCEPT !.state = ST_D, !.l = 0, !.m = @ + 1]

\* sendFollowersXITn: XIT_n to the followers, state F, and the leader saves
\* the transaction whatever comes of it.
Final(r) == [r EXCEPT !.state = ST_F, !.m = 0]
Save(m) == ledger' = [ledger EXCEPT
             ![m.to] = Saved(Checked(@, m.trxn), m.trxn)]

\* Mutant: the M votes that came before the L quorum are not looked at.
NotAtOnce(m) == FALSE

\* Mutant: the leader's own M vote is counted twice.
AtOnceEarly(m) == RoundAt(m).m + 2 >= LeaderQuorum(m.to, m.trxn)

\* ... which is the M quorum if enough M votes came before.
AtOnce(m) == RoundAt(m).m + 1 >= LeaderQuorum(m.to, m.trxn)

RecvL(m) ==
  /\ Receives(m, "l") /\ RoundAt(m).state < ST_D
  /\ RoundAt(m).l + 1 >= LeaderQuorum(m.to, m.trxn)
  /\ LET r == LeadersVoted(RoundAt(m))
         votes == Forward(m, "m", MyPeers(m.to, m.trxn))
     IN  \/ /\ ~AtOnce(m)
            /\ SetRound(m, r)
            /\ Answer(m, votes)
            /\ LedgerChecked(m)
         \/ /\ AtOnce(m)
            /\ SetRound(m, Final(r))
            /\ Answer(m, votes
                         \cup Forward(m, "n", MyFollowers(m.to, m.trxn)))
            /\ Save(m)
  /\ UNCHANGED <<initer, client, epoch, old>>

\* onRecvM.  A leader in state E has committed, so it is in state F.
RecvMCounted(m) ==
  /\ Receives(m, "m") /\ RoundAt(m).state < ST_E
  /\ RoundAt(m).m + 1 < LeaderQuorum(m.to, m.trxn)
  /\ SetRound(m, [RoundAt(m) EXCEPT !.m = @ + 1])
  /\ Answer(m, {})
  /\ LedgerChecked(m)
  /\ UNCHANGED <<initer, client, epoch, old>>

RecvM(m) ==
  /\ Receives(m, "m") /\ RoundAt(m).state < ST_E
  /\ RoundAt(m).m + 1 >= LeaderQuorum(m.to, m.trxn)
  /\ SetRound(m, Final(RoundAt(m)))
  /\ Answer(m, Forward(m, "n", MyFollowers(m.to, m.trxn)))
  /\ Save(m)
  /\ UNCHANGED <<initer, client, epoch, old>>

\* Mutant: the return code is not looked at.
ToldConfirmed(m) == "confirmed"

\* What the client is told: whether saveTrxn returned 0.
Told(m) == IF Saves(Checked(ledger[m.to], m.trxn), m.trxn)
           THEN "confirmed" ELSE "rejected"

\* XIT_n at a follower: onRecvN saves the transaction, the state becomes F
\* whatever comes of it, and a client waiting here is answered.
RecvN(m) ==
  /\ Receives(m, "n") /\ ~Leads(m.to, m.trxn)
  /\ SetRound(m, [RoundAt(m) EXCEPT !.state = ST_F])
  /\ Save(m)
  /\ Answer(m, {})
  /\ IF m.trxn \in initer[m.to]
     THEN client' = [client EXCEPT ![m.trxn] = Told(m)]
     ELSE UNCHANGED client
  /\ initer' = [initer EXCEPT ![m.to] = @ \ {m.trxn}]
  /\ UNCHANGED <<epoch, old>>

-----------------------------------------------------------------------------
(* What happens to a node besides messages.                                 *)

\* main.cc catches an exception and builds a new server, or the process is
\* started again: the files stay, everything else and every connection goes.
Restart(x) ==
  /\ epoch[x] < MaxRestarts[x]
  /\ epoch' = [epoch EXCEPT ![x] = @ + 1]
  /\ round' = [round EXCEPT ![x] = [t \in Trxn |-> NoRound]]
  /\ initer' = [initer EXCEPT ![x] = {}]
  /\ client' = [t \in Trxn |-> IF t \in initer[x] THEN "dropped"
                                                  ELSE client[t]]
  /\ UNCHANGED <<ledger, pending, sent, old>>

\* The vote counters of x that may be 240 s old.
OldVotes(x) == {v \in Stale \X {"k", "l", "m"} : round[x][v[1]][v[2]] > 0}

\* doCleanup erases the counters that are too old, each by its own age.
Cleanup(x) ==
  \E gone \in (SUBSET OldVotes(x)) \ {{}} :
    /\ round' = [round EXCEPT ![x] = [t \in Trxn |->
         LET r == round[x][t]
         IN  [r EXCEPT !.k = IF <<t, "k">> \in gone THEN 0 ELSE @,
                       !.l = IF <<t, "l">> \in gone THEN 0 ELSE @,
                       !.m = IF <<t, "m">> \in gone THEN 0 ELSE @]]]
    /\ UNCHANGED <<ledger, initer, client, pending, sent, epoch, old>>

\* The timestamp of t becomes older than validateTrxn accepts.
Expire(t) ==
  /\ t \in Late \ old
  /\ old' = old \cup {t}
  /\ UNCHANGED <<round, ledger, initer, client, pending, sent, epoch>>

-----------------------------------------------------------------------------
\* One message is handled.  XIT_i at a node that does not lead, XIT_j and n at
\* one that does, and k, l, m at one that does not have no action: RolesOK
\* says that no node is ever sent them.
Deliver(m) ==
  \/ Ignore(m) \/ Reject(m)
  \/ RecvI(m) \/ RecvIAlone(m) \/ RecvILate(m)
  \/ RecvJ(m)
  \/ RecvK(m) \/ RecvKIgnored(m)
  \/ RecvL(m) \/ RecvLCounted(m) \/ RecvLIgnored(m)
  \/ RecvM(m) \/ RecvMCounted(m)
  \/ RecvN(m)

Next ==
  \/ \E t \in Trxn : \E x \in Node : Submit(x, t) \/ SubmitRefused(x, t)
  \/ \E m \in pending : Deliver(m)
  \/ \E x \in Node : Restart(x) \/ Cleanup(x)
  \/ \E t \in Trxn : Expire(t)

Spec == Init /\ [][Next]_vars

\* A message that was sent over a connection is read and handled: io_context
\* runs every ready handler.  Clients and the passing of time owe nothing.
FairSpec == Spec /\ WF_vars(\E m \in pending : Deliver(m))

-----------------------------------------------------------------------------
(* Properties.                                                              *)

\* Messages reach only nodes in the role their handler is written for: XIT_i,
\* k, l, m the leader of a zone, and k the leader of the sender's zone; XIT_j
\* and n a follower of the sender.  The handlers rely on it, because the test
\* `iAmLeader' of onRecvK, onRecvL and onRecvM answers yes on every node.
InRole(m) ==
  /\ m.xit \in {"i", "k", "l", "m"} => Leads(m.to, m.trxn)
  /\ m.xit = "k" => m.to = MyLeader(m.from, m.trxn)
  /\ m.xit \in {"j", "n"} => /\ ~Leads(m.to, m.trxn)
                             /\ m.from = MyLeader(m.to, m.trxn)
RolesOK == \A m \in sent : InRole(m)

\* A node never goes back in the states of a transaction while it runs: no
\* handler undoes what a later vote, handled earlier, has already decided.
StateMonotone ==
  [][\A x \in Node, t \in Trxn :
       \/ round'[x][t].state >= round[x][t].state
       \/ epoch'[x] # epoch[x]]_vars

\* A message that has been handled is not sent again while no node restarts: a
\* leader proposes, agrees, confirms and commits once whatever votes still come,
\* and a follower votes once.
NothingRepeated == [][sent \ pending \subseteq sent' \ pending']_vars

\* No node writes a transaction to its block files, and so applies it to its
\* accounts, more than once.
AtMostOnce ==
  \A x \in Node, t \in Trxn : ledger[x].debit[t] <= 1 /\ ledger[x].credit[t] <= 1

\* And whatever restarts: at most once in the life of each of its processes.
AppliedPerEpoch ==
  \A x \in Node, t \in Trxn :
    ledger[x].debit[t] <= epoch[x] + 1 /\ ledger[x].credit[t] <= epoch[x] + 1

Senders(xit, t) == {m.from : m \in {v \in sent : v.xit = xit /\ v.trxn = t}}
ZoneVoters(x, t) ==
  {m.from : m \in {v \in sent : v.xit = "k" /\ v.trxn = t /\ v.to = x}}

\* A transaction is final somewhere only if 2f+1 of the leaders confirmed it
\* (XIT_m), 2f+1 of them had 2f+1 votes of their zone, themselves included
\* (XIT_l), and a follower only after its leader.
CommitCertificate ==
  \A t \in Trxn :
    LET final == {x \in Node : round[x][t].state = ST_F}
        quorum == TwoFPlus1(Cardinality(LeadersOf(t)))
    IN  final # {} =>
          /\ Cardinality(Senders("m", t)) >= quorum
          /\ Cardinality(Senders("l", t)) >= quorum
          /\ \A y \in Senders("l", t) :
               Cardinality(ZoneVoters(y, t)) + 1
                 >= TwoFPlus1(Cardinality({z \in Node : MyLeader(z, t) = y}))
          /\ \A x \in final : MyLeader(x, t) \in final

\* `Transaction Confirmed' is not said before the proxy has the transaction
\* in its own block files, where it stays.
ConfirmedIsRecorded ==
  \A t \in Trxn : client[t] = "confirmed" =>
    \E x \in Proxies[t] : Recorded(ledger[x], t)

\* Nodes that have saved the same transactions have the same accounts, in
\* whatever order the votes let each of them save, but for the last digit of
\* a balance: every update rounds it, and nodes round in different orders.
SameAccount(a, b) ==
  /\ [a EXCEPT !.bal = 0] = [b EXCEPT !.bal = 0]
  /\ a.bal - b.bal <= LastDigit * (a.out + a.in)
ReplicasAgree ==
  \A x, y \in Node :
    /\ ledger[x].debit = ledger[y].debit
    /\ ledger[x].credit = ledger[y].credit
    => \A u \in User : SameAccount(ledger[x].acct[u], ledger[y].acct[u])

\* omsession.cc:605, validateTrxn `checks ... balance, double-spending': the
\* payments of a user that some node has saved do not exceed, together, what
\* the user ever had.
Spent(u) == {t \in Trxn : /\ Req[t].type = "PAYMENT" /\ Req[t].from = u
                         /\ \E x \in Node : Recorded(ledger[x], t)}
\* Two payments of u that u could not both make.
NoDoubleSpend ==
  \A u \in User : \A t1, t2 \in Spent(u) :
    /\ t1 # t2
    /\ \A t \in Trxn : Req[t].type = "PAYMENT" => Req[t].to # u
    => Req[t1].amount + Req[t2].amount < InitialBalance

\* The account a saved NEWACCT opens exists at every node that has handled the
\* final message of it.
AccountEverywhere ==
  \A x \in Node, t \in Trxn :
    /\ Req[t].type = "NEWACCT" /\ round[x][t].state = ST_F
    => ledger[x].acct[Req[t].from].exists

\* When every message has been handled, no submitted transaction has stopped
\* half way at a node that can be reached: no vote that was counted too early
\* or too late was the one a leader waits for.
RestIsFinal ==
  pending = {} =>
    \A t \in Trxn : client[t] \notin {"idle", "rejected"} =>
      \A x \in Node \ Down : round[x][t].state = ST_F

\* A client that still waits then waits at a node that leads its zone under this
\* transaction: a leader is not sent XIT_n and so never comes to `final reply to
\* client'.  At every other proxy the client has been answered.
RestIsTold ==
  pending = {} =>
    \A t \in Trxn : client[t] = "waiting" =>
      \E x \in Proxies[t] : t \in initer[x] /\ Leads(x, t)

\* And the block files of the nodes that can be reached are the same: no node
\* has missed a payment that another has saved.
RestIsSame ==
  pending = {} =>
    \A x, y \in Node \ Down : /\ ledger[x].debit = ledger[y].debit
                              /\ ledger[x].credit = ledger[y].credit

\* A submitted transaction becomes final at every node that can be reached.
Finality ==
  \A t \in Trxn : client[t] = "waiting"
                    ~> \A x \in Node \ Down : round[x][t].state = ST_F

\* The client of a submitted transaction is told how it ended
\* (omsession.cc:438, `final reply to client').
ClientAnswered == \A t \in Trxn : client[t] = "waiting" ~> client[t] # "waiting"

-----------------------------------------------------------------------------
(* What the theorems about this module rest on.                             *)

NoRestarts == \A x \in Node : MaxRestarts[x] = 0

\* No user makes two payments.
OnePaymentEach == \A s, t \in Payments : Req[s].from = Req[t].from => s = t

\* Nothing is ever too old, and no node restarts.
Timely == NoRestarts /\ Stale = {} /\ Late = {}

\* Every payment is signed by a user with an account, and the users can make
\* all the payments they plan, in whatever order: no check fails.
Planned(u) == SumFunctionOnSet([t \in Trxn |-> Req[t].amount], PaidBy(u))
Affordable ==
  /\ \A t \in Payments : /\ Req[t].amount > 0
                         /\ Req[t].from \in DOMAIN Founded
                         /\ Req[t].key = Founded[Req[t].from]
  /\ \A u \in User :
       Planned(u) + HalfDigit * (Cardinality(PaidBy(u)) + Cardinality(PaidTo(u)))
         < InitialBalance

\* x can get a quorum of its zone from the followers it reaches; alone it needs
\* nobody, but with followers it goes on only when one of them votes.
CanAgree(x, t) ==
  LET reached == MyFollowers(x, t) \ Down
  IN  \/ MyFollowers(x, t) = {}
      \/ reached # {} /\ Cardinality(reached) + 1 >= ZoneQuorum(x, t)

\* One leader more than the quorum can be reached, a quorum of them can have
\* their zones agree, and no node is cut off from its leader.  One more, because
\* a leader that hears the others before its own zone agrees may count too few
\* votes (ZoneVoted).
Reached(t) == LeadersOf(t) \ Down
Needed(t) == TwoFPlus1(Cardinality(LeadersOf(t)))
Reachable(t) ==
  /\ Cardinality(Reached(t)) > Needed(t)
  /\ Cardinality({x \in Reached(t) : CanAgree(x, t)}) >= Needed(t)
  /\ \A x \in Node \ Down : MyLeader(x, t) \notin Down

-----------------------------------------------------------------------------
(* The abstract specification.                                              *)

FinalAt(t) == {x \in Node : round[x][t].state = ST_F}

Promise == INSTANCE VoteCommit WITH
  Leader     <- [t \in Trxn |-> [x \in Node |-> MyLeader(x, t)]],
  ZoneNeed   <- [t \in Trxn |-> [x \in Node |->
                  TwoFPlus1(Cardinality({z \in Node : MyLeader(z, t) = x}))]],
  LeaderNeed <- [t \in Trxn |-> TwoFPlus1(Cardinality(LeadersOf(t)))],
  voted      <- [t \in Trxn |-> Senders("k", t)],
  agreed     <- [t \in Trxn |-> Senders("l", t)],
  confirmed  <- [t \in Trxn |-> Senders("m", t)],
  final      <- [t \in Trxn |-> FinalAt(t)]

\* Without restarts, every handler moves a transaction as VoteCommit allows:
\* no counter runs ahead of the votes that were really cast, whatever order
\* they are counted in, whatever is cleaned up and whichever are lost, and no
\* vote or commit is ever taken back.
KeepsPromise == Promise!Spec
=============================================================================
