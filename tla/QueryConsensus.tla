---------------------------- MODULE QueryConsensus ----------------------------
(***************************************************************************)
(* How a query about an account is answered (src/src/omsession.cc           *)
(* doQueryL2, src/src/server.cpp onRecvQueryK and onRecvQueryL).  The proxy *)
(* runs the query on its own files, puts the result in the message, and     *)
(* every node a message of the query reaches runs it again and drops the    *)
(* message when it finds another result:                                    *)
(*                                                                          *)
(*   client -> proxy  --i-> every zone leader                               *)
(*   leader --j-> followers --k-> leader        the vote of a zone          *)
(*   leader --l-> proxy                         which tells the client      *)
(*                                                                          *)
(* Handlers and messages are as in TrxnConsensus.  The accounts of a node   *)
(* change meanwhile, by the transactions it saves (TrxnConsensus, BlockMgr, *)
(* Tokens); here such a transaction is an update of one account, which each *)
(* node applies once, at a time and in an order of its own.                 *)
(***************************************************************************)
EXTENDS DynamicCircuit

CONSTANTS
  User, Token,
  Query,
  Ask,         \* Ask[q] = [from, fields, token]: account, fields, predicate
  Update,
  Effect,      \* Effect[u] = [user, kind, token]: what transaction u does
  Reach,       \* Reach[u]: the nodes that may save u while queries run
  Opened,      \* users with an account everywhere in the initial state
  N, Hash,     \* as in TrxnConsensus
  Proxies,     \* Proxies[q]: the nodes q's client may connect to
  Outages,     \* sets of nodes no connection can be made to, throughout
  MaxRestarts, \* MaxRestarts[x]: bound on the restarts of node x
  MaxAge,      \* MaxAge[q]: bound on the age of q, of those below
  Cleaners,    \* nodes whose doCleanup falls due while a query is that old
  MaxQueries   \* bound on the queries submitted in one behaviour

Node == 1..N
Field == {"balance", "out", "in", "tokens", "token"}
Kind == {"open", "pay", "earn", "token"}

ASSUME QueryNAssumption == N \in Nat \ {0}
ASSUME QueryHashAssumption == Hash \in [Query -> [Node -> Nat]]
ASSUME AskAssumption ==
  Ask \in [Query -> [from : User, fields : SUBSET Field, token : Token]]
ASSUME EffectAssumption ==
  Effect \in [Update -> [user : User, kind : Kind, token : Token]]
ASSUME MaxAgeAssumption == MaxAge \in [Query -> {0, 240, 300}]
ASSUME ReachAssumption == Reach \in [Update -> SUBSET Node]

\* OmState of trxnstate.h, as far as a query gets.
ST_NULL == 0
ST_B == 2
ST_C == 3
ST_D == 4

VARIABLES
  round,   \* round[x][q]: trxnState_, collectQueryKTrxn_ and
           \* collectQueryLTrxn_ of q at node x
  account, \* account[x][u]: the record of u in the store of node x
  saved,   \* saved[x]: the updates node x has applied
  qResult, \* qResult[x][q]: qResult_ of node x, a set of at most one result
  initer,  \* initer[x]: the keys of query_initer_client_socket_ of node x
  client,  \* client[q]: what the client that submitted q has seen
  told,    \* told[q]: the result it was given, a set of at most one
  pending, \* messages sent, to be delivered
  sent,    \* messages ever sent (history)
  epoch,   \* epoch[x]: restarts of node x (history)
  age,     \* age[q]: 0, more than 240 s or more than 300 s
  down     \* nodes no connection can be made to

vars == <<round, account, saved, qResult, initer, client, told, pending, sent,
          epoch, age, down>>
files == <<account, saved>>

-----------------------------------------------------------------------------
(* Accounts and what runQuery reads of them.                                *)

NoRecord == [exists |-> FALSE, balance |-> 0, out |-> 0, in |-> 0,
             tokens |-> {}]
NewRecord == [NoRecord EXCEPT !.exists = TRUE]

\* What the update e does to the record a.  An amount is one unit: a query
\* tells records apart, not amounts.
Updated(a, e) ==
  CASE e.kind = "open"  -> NewRecord
    [] e.kind = "pay"   -> [a EXCEPT !.balance = @ - 1, !.out = @ + 1]
    [] e.kind = "earn"  -> [a EXCEPT !.balance = @ + 1, !.in = @ + 1]
    [] e.kind = "token" -> [a EXCEPT !.tokens = @ \cup {e.token}]

\* One field of the result; "token" is the one token the predicate names, or
\* an empty string.
FieldOf(a, ask, f) == IF f = "token" THEN a.tokens \cap {ask.token} ELSE a[f]

\* runQuery, for a user with an account.
Result(a, ask) == [f \in ask.fields |-> FieldOf(a, ask, f)]
ResultAt(x, q) == Result(account[x][Ask[q].from], Ask[q])
Knows(x, q) == account[x][Ask[q].from].exists

-----------------------------------------------------------------------------
(* The circuit of q as the nodes compute it.                                *)

Part(x, q) == [leader    |-> LeaderOf(N, Hash[q], x),
               followers |-> Followers(N, Hash[q], x)]
Circuit == [q \in Query |-> [x \in Node |-> Part(x, q)]]
MyLeader(x, q) == Circuit[q][x].leader
MyFollowers(x, q) == Circuit[q][x].followers
LeadersOf(q) == {MyLeader(x, q) : x \in Node}

\* Mutant: the vote the leader does not cast is asked for all the same.
ZoneQuorumAll(x, q) == Cardinality(MyFollowers(x, q)) + 1

\* The leader is counted among the voters but does not vote.
ZoneQuorum(x, q) == TwoFPlus1(Cardinality(MyFollowers(x, q)) + 1)

\* Mutant: half of the zones are enough.
LeaderQuorumHalf == NumZones(N) \div 2

\* More than half of the zones, those without nodes included.
LeaderQuorum == NumZones(N) \div 2 + 1

-----------------------------------------------------------------------------
(* State.                                                                   *)

NoRound == [state |-> ST_NULL, k |-> 0, l |-> 0]
Round == [state : {ST_NULL, ST_B, ST_C, ST_D}, k : Nat, l : Nat]
ClientState == {"idle", "waiting", "answered", "refused", "dropped"}

\* A message with the result r.
Message(r) == [xit : {"i", "j", "k", "l"}, query : Query, from : Node, to : Node,
               proxy : Node, epoch : Nat, response : {r}]

\* A counter stays below its quorum: the vote that reaches it starts anew.
TypeOK ==
  /\ round \in [Node -> [Query -> Round]]
  /\ \A x \in Node, q \in Query : /\ round[x][q].k < ZoneQuorum(x, q)
                                  /\ round[x][q].l < LeaderQuorum
                                  /\ Cardinality(qResult[x][q]) <= 1
  /\ \A m \in sent : m \in Message(m.response)
  /\ pending \subseteq sent
  /\ saved \in [Node -> SUBSET Update]
  /\ initer \in [Node -> SUBSET Query]
  /\ client \in [Query -> ClientState]
  /\ \A q \in Query : told[q] # {} <=> client[q] = "answered"
  /\ epoch \in [Node -> Nat]
  /\ age \in [Query -> {0, 240, 300}]

Init ==
  /\ round = [x \in Node |-> [q \in Query |-> NoRound]]
  /\ account = [x \in Node |-> [u \in User |->
                  IF u \in Opened THEN NewRecord ELSE NoRecord]]
  /\ saved = [x \in Node |-> {}]
  /\ qResult = [x \in Node |-> [q \in Query |-> {}]]
  /\ initer = [x \in Node |-> {}]
  /\ client = [q \in Query |-> "idle"]
  /\ told = [q \in Query |-> {}]
  /\ pending = {}
  /\ sent = {}
  /\ epoch = [x \in Node |-> 0]
  /\ age = [q \in Query |-> 0]
  /\ down \in Outages

-----------------------------------------------------------------------------
(* Messages.                                                                *)

\* multicast of the message m by x: to each host a connection can be made to.
Multicast(m, xit, x, hosts) ==
  {[m EXCEPT !.xit = xit, !.from = x, !.to = y, !.epoch = epoch[x]] :
     y \in hosts \ down}

\* The same message goes on with another xit; proxy and response stay.
Forward(m, xit, hosts) == Multicast(m, xit, m.to, hosts)

Send(msgs) == /\ sent' = sent \cup msgs
              /\ pending' = pending \cup msgs
Answer(m, msgs) == /\ sent' = sent \cup msgs
                   /\ pending' = (pending \ {m}) \cup msgs

RoundAt(m) == round[m.to][m.query]
SetRound(m, r) == round' = [round EXCEPT ![m.to][m.query] = r]

\* Mutant: XIT_l is taken without a look at the files, as by the test the
\* source has in a comment.
AgreesUnlessL(m) ==
  /\ age[m.query] < 300
  /\ m.xit # "l" => Knows(m.to, m.query) /\ ResultAt(m.to, m.query) = m.response

\* validateQuery for a message of another node.
Agrees(m) == /\ age[m.query] < 300
             /\ Knows(m.to, m.query)
             /\ ResultAt(m.to, m.query) = m.response

\* Mutant: the result is not kept.
KeepNothing(m) == UNCHANGED qResult

\* OmWaitStr::add keeps the first result it is given.
KeepResult(m) ==
  qResult' = [qResult EXCEPT ![m.to][m.query] =
                IF @ = {} THEN {m.response} ELSE @]

\* m is next to be handled, is of kind xit and passes validateQuery.
Receives(m, xit) == m.xit = xit /\ Agrees(m)

-----------------------------------------------------------------------------
(* doQueryL2 for a client: the node becomes the proxy of q.                 *)

\* initQuery: XIT_i to the leader of every zone that has nodes.
Asked(x, q) ==
  {[xit |-> "i", query |-> q, from |-> x, to |-> y, proxy |-> x,
    epoch |-> epoch[x], response |-> ResultAt(x, q)] : y \in LeadersOf(q) \ down}

\* ... which must reach 2f+1 zones, those without nodes counted.
Reached(q) == Cardinality(LeadersOf(q) \ down) >= TwoFPlus1(NumZones(N))

CanSubmit(x, q) ==
  /\ client[q] = "idle" /\ x \in Proxies[q] \ down
  /\ Cardinality({p \in Query : client[p] # "idle"}) < MaxQueries

Submit(x, q) ==
  /\ CanSubmit(x, q)
  /\ Knows(x, q)
  /\ Reached(q)
  /\ Send(Asked(x, q))
  /\ initer' = [initer EXCEPT ![x] = @ \cup {q}]
  /\ client' = [client EXCEPT ![q] = "waiting"]
  /\ UNCHANGED <<round, files, qResult, told, epoch, age, down>>

\* The client is told so, though the leaders that were reached carry on.
SubmitUnreached(x, q) ==
  /\ CanSubmit(x, q)
  /\ Knows(x, q)
  /\ ~Reached(q)
  /\ Send(Asked(x, q))
  /\ client' = [client EXCEPT ![q] = "refused"]
  /\ UNCHANGED <<round, files, qResult, initer, told, epoch, age, down>>

\* The sender has no account here, or the query took too long to come.
SubmitRefused(x, q) ==
  /\ CanSubmit(x, q)
  /\ \/ ~Knows(x, q) /\ UNCHANGED age
     \/ MaxAge[q] = 300 /\ age' = [age EXCEPT ![q] = 300]
  /\ client' = [client EXCEPT ![q] = "refused"]
  /\ UNCHANGED <<round, files, qResult, initer, told, pending, sent, epoch, down>>

-----------------------------------------------------------------------------
(* doQueryL2 for a message of another node.                                 *)

\* Answered with an error on the connection, which the peer has left.
Reject(m) ==
  /\ ~Agrees(m)
  /\ Answer(m, {})
  /\ UNCHANGED <<round, files, qResult, initer, client, told, epoch, age, down>>

\* XIT_i at a leader in its initial state: on to A and B, XIT_j to the
\* followers.  Unlike in doTrxnL2 the leader does not vote.
RecvI(m) ==
  /\ Receives(m, "i") /\ RoundAt(m).state = ST_NULL
  /\ MyFollowers(m.to, m.query) # {}
  /\ SetRound(m, [RoundAt(m) EXCEPT !.state = ST_B])
  /\ KeepResult(m)
  /\ Answer(m, Forward(m, "j", MyFollowers(m.to, m.query)))
  /\ UNCHANGED <<files, initer, client, told, epoch, age, down>>

\* The same without followers: the leader votes for itself and reaches state C,
\* but what onRecvQueryK returns is not looked at and no XIT_l is sent.
RecvIAlone(m) ==
  /\ Receives(m, "i") /\ RoundAt(m).state = ST_NULL
  /\ MyFollowers(m.to, m.query) = {}
  /\ SetRound(m, [RoundAt(m) EXCEPT !.state = ST_C])
  /\ KeepResult(m)
  /\ Answer(m, {})
  /\ UNCHANGED <<files, initer, client, told, epoch, age, down>>

\* XIT_i at a leader that is also the proxy and has its answer already.
RecvILate(m) ==
  /\ Receives(m, "i") /\ RoundAt(m).state # ST_NULL
  /\ KeepResult(m)
  /\ Answer(m, {})
  /\ UNCHANGED <<round, files, initer, client, told, epoch, age, down>>

\* XIT_j at a follower: its vote for its leader.
RecvJ(m) ==
  /\ Receives(m, "j")
  /\ KeepResult(m)
  /\ Answer(m, Forward(m, "k", {MyLeader(m.to, m.query)}))
  /\ UNCHANGED <<round, files, initer, client, told, epoch, age, down>>

\* onRecvQueryK.
RecvKIgnored(m) ==
  /\ Receives(m, "k") /\ RoundAt(m).state >= ST_C
  /\ KeepResult(m)
  /\ Answer(m, {})
  /\ UNCHANGED <<round, files, initer, client, told, epoch, age, down>>

RecvKCounted(m) ==
  /\ Receives(m, "k") /\ RoundAt(m).state < ST_C
  /\ RoundAt(m).k + 1 < ZoneQuorum(m.to, m.query)
  /\ SetRound(m, [RoundAt(m) EXCEPT !.k = @ + 1])
  /\ KeepResult(m)
  /\ Answer(m, {})
  /\ UNCHANGED <<files, initer, client, told, epoch, age, down>>

\* The quorum of a zone: XIT_l to the proxy, but never from the proxy to
\* itself.
RecvK(m) ==
  /\ Receives(m, "k") /\ RoundAt(m).state < ST_C
  /\ RoundAt(m).k + 1 >= ZoneQuorum(m.to, m.query)
  /\ SetRound(m, [RoundAt(m) EXCEPT !.state = ST_C, !.k = 0])
  /\ KeepResult(m)
  /\ Answer(m, Forward(m, "l", {m.proxy} \ {m.to}))
  /\ UNCHANGED <<files, initer, client, told, epoch, age, down>>

\* onRecvQueryL.
RecvLIgnored(m) ==
  /\ Receives(m, "l") /\ RoundAt(m).state >= ST_D
  /\ KeepResult(m)
  /\ Answer(m, {})
  /\ UNCHANGED <<round, files, initer, client, told, epoch, age, down>>

RecvLCounted(m) ==
  /\ Receives(m, "l") /\ RoundAt(m).state < ST_D
  /\ RoundAt(m).l + 1 < LeaderQuorum
  /\ SetRound(m, [RoundAt(m) EXCEPT !.l = @ + 1])
  /\ KeepResult(m)
  /\ Answer(m, {})
  /\ UNCHANGED <<files, initer, client, told, epoch, age, down>>

\* The quorum of the leaders: a client that waits here is given the result
\* getQueryResult finds, which is the first this node kept.
RecvL(m) ==
  /\ Receives(m, "l") /\ RoundAt(m).state < ST_D
  /\ RoundAt(m).l + 1 >= LeaderQuorum
  /\ SetRound(m, [RoundAt(m) EXCEPT !.state = ST_D, !.l = 0])
  /\ KeepResult(m)
  /\ Answer(m, {})
  /\ IF m.query \in initer[m.to]
     THEN /\ client' = [client EXCEPT ![m.query] = "answered"]
          /\ told' = [told EXCEPT ![m.query] = qResult'[m.to][m.query]]
     ELSE UNCHANGED <<client, told>>
  /\ initer' = [initer EXCEPT ![m.to] = @ \ {m.query}]
  /\ UNCHANGED <<files, epoch, age, down>>

-----------------------------------------------------------------------------
(* What happens to a node besides messages.                                 *)

\* Node x saves the transaction of update u.
Save(x, u) ==
  LET e == Effect[u]
  IN  /\ x \in Reach[u] /\ u \notin saved[x]
      /\ (e.kind = "open") # account[x][e.user].exists
      /\ account' = [account EXCEPT ![x][e.user] = Updated(@, e)]
      /\ saved' = [saved EXCEPT ![x] = @ \cup {u}]
      /\ UNCHANGED <<round, qResult, initer, client, told, pending, sent, epoch,
                     age, down>>

\* The files stay, everything else and every connection goes.
Restart(x) ==
  /\ epoch[x] < MaxRestarts[x]
  /\ epoch' = [epoch EXCEPT ![x] = @ + 1]
  /\ round' = [round EXCEPT ![x] = [q \in Query |-> NoRound]]
  /\ qResult' = [qResult EXCEPT ![x] = [q \in Query |-> {}]]
  /\ initer' = [initer EXCEPT ![x] = {}]
  /\ client' = [q \in Query |-> IF q \in initer[x] THEN "dropped"
                                                   ELSE client[q]]
  /\ UNCHANGED <<files, told, pending, sent, age, down>>

\* What doCleanup may find older than 240 s at x: each counter and each kept
\* result by its own age.
OldEntries(x) ==
  {v \in {q \in Query : age[q] >= 240} \X {"k", "l", "result"} :
     CASE v[2] = "k"      -> round[x][v[1]].k > 0
       [] v[2] = "l"      -> round[x][v[1]].l > 0
       [] v[2] = "result" -> qResult[x][v[1]] # {}}

Cleanup(x) ==
  /\ x \in Cleaners
  /\ \E gone \in (SUBSET OldEntries(x)) \ {{}} :
       /\ round' = [round EXCEPT ![x] = [q \in Query |->
            LET r == round[x][q]
            IN  [r EXCEPT !.k = IF <<q, "k">> \in gone THEN 0 ELSE @,
                          !.l = IF <<q, "l">> \in gone THEN 0 ELSE @]]]
       /\ qResult' = [qResult EXCEPT ![x] = [q \in Query |->
            IF <<q, "result">> \in gone THEN {} ELSE qResult[x][q]]]
       /\ UNCHANGED <<files, initer, client, told, pending, sent, epoch, age, down>>

\* Time passes: 240 s, what doCleanup keeps; 300 s, what validateTrxn accepts.
Age(q) ==
  /\ client[q] # "idle"
  /\ \E a \in {240, 300} : /\ age[q] < a /\ a <= MaxAge[q]
                           /\ age' = [age EXCEPT ![q] = a]
  /\ UNCHANGED <<round, files, qResult, initer, client, told, pending, sent,
                 epoch, down>>

-----------------------------------------------------------------------------
\* As in TrxnConsensus, every message reaches a node in the role its handler
\* is written for.
Deliver(m) ==
  \/ Reject(m)
  \/ RecvI(m) \/ RecvIAlone(m) \/ RecvILate(m)
  \/ RecvJ(m)
  \/ RecvK(m) \/ RecvKCounted(m) \/ RecvKIgnored(m)
  \/ RecvL(m) \/ RecvLCounted(m) \/ RecvLIgnored(m)

Next ==
  \/ \E q \in Query : \E x \in Node :
       Submit(x, q) \/ SubmitUnreached(x, q) \/ SubmitRefused(x, q)
  \/ \E m \in pending : Deliver(m)
  \/ \E x \in Node, u \in Update : Save(x, u)
  \/ \E x \in Node : Restart(x) \/ Cleanup(x)
  \/ \E q \in Query : Age(q)

Spec == Init /\ [][Next]_vars

\* A message that was sent over a connection is read and handled.
FairSpec == Spec /\ WF_vars(\E m \in pending : Deliver(m))

-----------------------------------------------------------------------------
(* Properties.                                                              *)

\* The client is never told what its proxy no longer holds: the result it is
\* given is, at the moment it is given, what the files of the proxy say,
\* although the proxy computed it before the votes and keeps the first result
\* it finds (omsession.cc:748 qResult_.add, 958 getQueryResult).
AnswerIsCurrent ==
  [][\A q \in Query :
       client'[q] = "answered" /\ client[q] # "answered"
       => \E x \in Node : q \in initer[x] /\ told'[q] = {ResultAt(x, q)}]_vars

\* Those of a zone that have told their leader y that they find the result r.
Confirmed(y, q, r) ==
  {m.from : m \in {v \in sent : v.xit = "k" /\ v.query = q /\ v.to = y
                                /\ v.response = r}}

\* The voters V are 2f+1 of the nodes of y's zone.
Certain(y, q, V) ==
  Cardinality(V) >= TwoFPlus1(Cardinality({z \in Node : MyLeader(z, q) = y}))

\* An answer has a certificate: more than half of the zones have a leader,
\* other than the proxy, to whom 2f+1 followers confirmed that very result;
\* the leader itself makes no part of it.  A leader that restarts may count
\* its zone a second time, so this is said of nodes that did not.
AnsweredCertificate ==
  \A q \in Query : client[q] = "answered" /\ (\A x \in Node : epoch[x] = 0) =>
    \E r \in told[q] :
      LET sure == {y \in LeadersOf(q) :
                     Certain(y, q, Confirmed(y, q, r))}
          proxies == {m.from : m \in {v \in sent : v.xit = "i" /\ v.query = q}}
      IN  2 * Cardinality(sure \ proxies) > NumZones(N)

\* The zones whose leader can be reached by enough of its followers and speaks
\* to the proxy x.
Speaking(q, x) ==
  {y \in LeadersOf(q) \ (down \cup {x}) :
     /\ MyFollowers(y, q) # {}
     /\ Certain(y, q, MyFollowers(y, q) \ down)}

\* No query meets an obstacle: while a client waits the nodes find one result
\* and do not restart, its query does not grow old, and enough zones can speak
\* to its proxy.
Smooth ==
  \A q \in Query : client[q] = "waiting" =>
    /\ age[q] = 0
    /\ \A x \in Node : epoch[x] = 0
    /\ \A x \in Node : Knows(x, q) /\ ResultAt(x, q) = ResultAt(1, q)
    /\ \A x \in Node :
         q \in initer[x] => 2 * Cardinality(Speaking(q, x)) > NumZones(N)

\* Clients are not left waiting: when no query meets an obstacle, there comes a
\* time at which every client has its answer, whatever the order in which
\* messages are handled.
Waiting == {q \in Query : client[q] = "waiting"}
QueryAnswered == []Smooth => (Waiting # {} ~> Waiting = {})

\* Saving u changes what ask finds out about an account that is open.
Touches(u, ask) ==
  LET e == Effect[u]
  IN  /\ e.user = ask.from
      /\ \/ e.kind = "pay" /\ ask.fields \cap {"balance", "out"} # {}
         \/ e.kind = "earn" /\ ask.fields \cap {"balance", "in"} # {}
         \/ e.kind = "token" /\ "tokens" \in ask.fields
         \/ e.kind = "token" /\ "token" \in ask.fields /\ e.token = ask.token

\* So far no node has restarted or found another result, and q is not old.
Undisturbed(q) ==
  /\ \A x \in Node : epoch[x] = 0
  /\ age[q] = 0
  /\ Ask[q].from \in Opened
  /\ \A x \in Node : \A u \in saved[x] : ~Touches(u, Ask[q])

\* A client that still waits when every message has been handled has been
\* disturbed, or no more than half of the zones can speak to its proxy: no vote
\* of a zone or a leader was counted too early, too late or not at all.
RestIsAnswered ==
  pending = {} =>
    \A x \in Node : \A q \in initer[x] :
      Undisturbed(q) => 2 * Cardinality(Speaking(q, x)) <= NumZones(N)
=============================================================================
