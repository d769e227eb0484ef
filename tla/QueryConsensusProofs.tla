------------------------- MODULE QueryConsensusProofs -------------------------
(***************************************************************************)
(* What a client is told about its query and what stands behind the answer, *)
(* for every network, circuit and set of queries and updates, with losses   *)
(* and clean-ups; and why a query that nothing disturbs is answered.        *)
(***************************************************************************)
EXTENDS QueryConsensus, OperatorProofs

-----------------------------------------------------------------------------
(* The circuit and its quorums.                                             *)

LEMMA HostsType ==
  ASSUME NEW x \in Node, NEW q \in Query
  PROVE  /\ MyLeader(x, q) \in Node
         /\ MyFollowers(x, q) \in SUBSET Node
         /\ LeadersOf(q) \in SUBSET Node
<1>1. \A y \in Node : /\ MyLeader(y, q) = LeaderOf(N, Hash[q], y)
                      /\ MyFollowers(y, q) = Followers(N, Hash[q], y)
  BY DEF MyLeader, MyFollowers, Circuit, Part
<1>2. \A y \in Node : MyLeader(y, q) \in Node
  BY <1>1, QueryNAssumption, LeaderInZone DEF Node
<1>3. MyFollowers(x, q) \in SUBSET Node
  BY <1>1 DEF Followers, ZoneMates, Node
<1> QED BY <1>2, <1>3 DEF LeadersOf

\* No quorum is empty.
LEMMA QuorumType ==
  ASSUME NEW x \in Node, NEW q \in Query
  PROVE  /\ ZoneQuorum(x, q) \in Nat /\ ZoneQuorum(x, q) > 0
         /\ LeaderQuorum \in Nat /\ LeaderQuorum > 0
<1>1. Cardinality(MyFollowers(x, q)) \in Nat
  <2>1. IsFiniteSet(Node)
    BY QueryNAssumption, FS_Interval DEF Node
  <2> QED BY <2>1, HostsType, FS_Subset, FS_CardinalityType
<1>2. \A c \in Nat : TwoFPlus1(c + 1) \in Nat /\ TwoFPlus1(c + 1) > 0
  BY DEF TwoFPlus1
<1>3. NumZones(N) \in Nat
  <2>1. NumFullZones(N) \in Nat
    BY RootExists, QueryNAssumption
  <2> QED BY <2>1 DEF NumZones
<1>4. NumZones(N) \div 2 \in Nat
  BY <1>3
<1>5. ZoneQuorum(x, q) \in Nat /\ ZoneQuorum(x, q) > 0
  BY <1>1, <1>2 DEF ZoneQuorum
<1>6. LeaderQuorum \in Nat /\ LeaderQuorum > 0
  BY <1>4 DEF LeaderQuorum
<1> QED BY <1>5, <1>6

-----------------------------------------------------------------------------
(* The invariant.                                                           *)

\* A client waits at one node, and at none any more once it has been answered.
WaitsOnce ==
  /\ \A x \in Node : \A q \in initer[x] : client[q] = "waiting"
  /\ \A x, y \in Node : x # y => initer[x] \cap initer[y] = {}

\* All messages of a query carry the one result its proxy has found.
OneResponse ==
  /\ \A m \in sent : client[m.query] # "idle"
  /\ \A m1, m2 \in sent : m1.query = m2.query => m1.response = m2.response

\* The result a node keeps has come in a message of the query.
KeptCame(kept, q) ==
  kept = {} \/ \E m \in sent : m.query = q /\ kept = {m.response}
KeptResults ==
  /\ DOMAIN qResult = Node /\ DOMAIN told = Query
  /\ \A x \in Node : /\ DOMAIN qResult[x] = Query
                     /\ \A q \in Query : KeptCame(qResult[x][q], q)

QueryInv == TypeOK /\ WaitsOnce /\ OneResponse /\ KeptResults

\* The part of TypeOK that is about rounds.
RoundsOK ==
  /\ round \in [Node -> [Query -> Round]]
  /\ \A x \in Node, q \in Query : /\ round[x][q].k < ZoneQuorum(x, q)
                                  /\ round[x][q].l < LeaderQuorum

\* ... and about messages.
MessagesOK == /\ \A m \in sent : m \in Message(m.response)
              /\ pending \subseteq sent

LEMMA InitInv == Init => QueryInv
<1> SUFFICES ASSUME Init PROVE QueryInv
  OBVIOUS
<1>1. NoRound \in Round /\ NoRound.k = 0 /\ NoRound.l = 0
  BY DEF NoRound, Round, ST_NULL
<1>2. RoundsOK
  BY <1>1, QuorumType DEF Init, RoundsOK
<1>3. Cardinality({}) = 0
  BY FS_EmptySet
<1>4. TypeOK
  BY <1>2, <1>3 DEF Init, TypeOK, RoundsOK, ClientState
<1>5. WaitsOnce /\ OneResponse
  BY DEF Init, WaitsOnce, OneResponse
<1>6. KeptResults
  BY DEF Init, KeptResults, KeptCame
<1> QED BY <1>4, <1>5, <1>6 DEF QueryInv

-----------------------------------------------------------------------------
(* The handlers.                                                            *)

\* What a handler sends is about the query it was called for.
LEMMA ForwardType ==
  ASSUME TypeOK, NEW m \in sent, NEW xit \in {"i", "j", "k", "l"},
         NEW hosts \in SUBSET Node, NEW v \in Forward(m, xit, hosts)
  PROVE  /\ v \in Message(v.response)
         /\ v.query = m.query /\ v.response = m.response
<1>1. m \in Message(m.response)
  BY DEF TypeOK
<1>2. PICK y \in hosts :
        v = [m EXCEPT !.xit = xit, !.from = m.to, !.to = y, !.epoch = epoch[m.to]]
  BY DEF Forward, Multicast
<1>3. y \in Node /\ m.to \in Node /\ epoch[m.to] \in Nat
  BY <1>1 DEF Message, TypeOK
<1> QED BY <1>1, <1>2, <1>3 DEF Message

LEMMA MessageType ==
  ASSUME TypeOK, NEW m \in pending
  PROVE  /\ m \in sent /\ m \in Message(m.response)
         /\ m.to \in Node /\ m.query \in Query /\ m.proxy \in Node
         /\ RoundAt(m) \in Round
         /\ MyFollowers(m.to, m.query) \in SUBSET Node
         /\ {MyLeader(m.to, m.query)} \in SUBSET Node
         /\ {m.proxy} \ {m.to} \in SUBSET Node
<1>1. m \in sent /\ m \in Message(m.response)
  BY DEF TypeOK
<1>2. m.to \in Node /\ m.query \in Query /\ m.proxy \in Node
  BY <1>1 DEF Message
<1> QED BY <1>1, <1>2, HostsType DEF TypeOK, RoundAt

LEMMA DeliverSends ==
  ASSUME TypeOK, NEW m \in pending, Deliver(m)
  PROVE  /\ sent \subseteq sent' /\ MessagesOK'
         /\ \A v \in sent' \ sent : v.query = m.query /\ v.response = m.response
<1> USE MessageType
<1>1. PICK msgs :
        /\ Answer(m, msgs)
        /\ \/ msgs = {}
           \/ \E xit \in {"i", "j", "k", "l"}, hosts \in SUBSET Node :
                msgs = Forward(m, xit, hosts)
  BY DEF Deliver, Reject, RecvI, RecvIAlone, RecvILate, RecvJ, RecvK, RecvKCounted,
         RecvKIgnored, RecvL, RecvLCounted, RecvLIgnored
<1>2. \A v \in msgs : /\ v \in Message(v.response)
                      /\ v.query = m.query /\ v.response = m.response
  BY <1>1, ForwardType
<1>3. sent' = sent \cup msgs /\ pending' = (pending \ {m}) \cup msgs
  BY <1>1 DEF Answer
<1> QED BY <1>2, <1>3 DEF TypeOK, MessagesOK

\* A vote is counted or reaches its quorum, when the counter starts anew.
LEMMA DeliverRounds ==
  ASSUME TypeOK, NEW m \in pending, Deliver(m)
  PROVE  RoundsOK'
<1> USE MessageType
<1> DEFINE r == RoundAt(m)
<1>1. RoundsOK /\ r \in Round
  BY DEF TypeOK, RoundsOK
<1>2. /\ r.k < ZoneQuorum(m.to, m.query) /\ r.l < LeaderQuorum
      /\ 0 < ZoneQuorum(m.to, m.query) /\ 0 < LeaderQuorum
  BY <1>1, QuorumType DEF RoundsOK, RoundAt
<1> DEFINE Fits(v) == /\ v \in Round /\ v.k < ZoneQuorum(m.to, m.query)
                      /\ v.l < LeaderQuorum
<1>3. ASSUME NEW v, Fits(v), SetRound(m, v) PROVE RoundsOK'
  BY <1>1, <1>3 DEF RoundsOK, SetRound
<1>4. /\ Fits([r EXCEPT !.state = ST_B]) /\ Fits([r EXCEPT !.state = ST_C])
      /\ Fits([r EXCEPT !.state = ST_C, !.k = 0])
      /\ Fits([r EXCEPT !.state = ST_D, !.l = 0])
  BY <1>1, <1>2 DEF Round
<1>5. /\ r.k + 1 < ZoneQuorum(m.to, m.query) => Fits([r EXCEPT !.k = @ + 1])
      /\ r.l + 1 < LeaderQuorum => Fits([r EXCEPT !.l = @ + 1])
  BY <1>1, <1>2 DEF Round
<1>6. CASE UNCHANGED round
  BY <1>1, <1>6 DEF RoundsOK
<1> HIDE DEF r, Fits
<1>7. CASE RecvI(m)
  BY <1>3, <1>4, <1>7 DEF RecvI, r
<1>8. CASE RecvIAlone(m)
  BY <1>3, <1>4, <1>8 DEF RecvIAlone, r
<1>9. CASE RecvK(m)
  BY <1>3, <1>4, <1>9 DEF RecvK, r
<1>10. CASE RecvKCounted(m)
  BY <1>3, <1>5, <1>10 DEF RecvKCounted, r
<1>11. CASE RecvL(m)
  BY <1>3, <1>4, <1>11 DEF RecvL, r
<1>12. CASE RecvLCounted(m)
  BY <1>3, <1>5, <1>12 DEF RecvLCounted, r
<1> QED BY <1>6, <1>7, <1>8, <1>9, <1>10, <1>11, <1>12
           DEF Deliver, Reject, RecvILate, RecvJ, RecvKIgnored, RecvLIgnored

\* The results kept: those of before, or the one that came.
LEMMA DeliverKept ==
  ASSUME QueryInv, NEW m \in pending, Deliver(m)
  PROVE  /\ DOMAIN qResult' = Node
         /\ \A x \in Node : /\ DOMAIN qResult'[x] = Query
                            /\ \A q \in Query : KeptCame(qResult[x][q], q)
                                               /\ KeptCame(qResult'[x][q], q)
<1> USE MessageType
<1>1. TypeOK /\ KeptResults
  BY DEF QueryInv
<1>2. CASE UNCHANGED qResult
  BY <1>1, <1>2 DEF KeptResults
<1>3. CASE KeepResult(m)
  <2>1. KeptCame({m.response}, m.query)
    BY <1>1 DEF KeptCame
  <2>2. /\ DOMAIN qResult' = Node
        /\ \A x \in Node : DOMAIN qResult'[x] = Query
    BY <1>1, <1>3 DEF KeptResults, KeepResult
  <2>3. \A x \in Node, q \in Query :
          \/ qResult'[x][q] = qResult[x][q]
          \/ q = m.query /\ qResult'[x][q] = {m.response}
    BY <1>1, <1>3 DEF KeptResults, KeepResult
  <2>4. \A x \in Node, q \in Query : KeptCame(qResult[x][q], q)
    BY <1>1 DEF KeptResults
  <2> QED BY <2>1, <2>2, <2>3, <2>4
<1> QED BY <1>2, <1>3 DEF Deliver, Reject, RecvI, RecvIAlone, RecvILate, RecvJ,
              RecvK, RecvKCounted, RecvKIgnored, RecvL, RecvLCounted, RecvLIgnored

\* Only the quorum of the leaders tells a client something, and only a client
\* that waits at this node; the node finds the result of the message itself.
LEMMA DeliverTells ==
  ASSUME TypeOK, NEW m \in pending, Deliver(m)
  PROVE  /\ UNCHANGED <<files, epoch, age>>
         /\ \/ UNCHANGED <<initer, client, told>>
            \/ /\ m.query \in initer[m.to] /\ Agrees(m) /\ KeepResult(m)
               /\ client' = [client EXCEPT ![m.query] = "answered"]
               /\ told' = [told EXCEPT ![m.query] = qResult'[m.to][m.query]]
               /\ initer' = [initer EXCEPT ![m.to] = @ \ {m.query}]
<1>1. CASE RecvL(m)
  <2>1. CASE m.query \in initer[m.to]
    BY <1>1, <2>1 DEF RecvL, Receives, files
  <2>2. CASE m.query \notin initer[m.to]
    <3>1. initer \in [Node -> SUBSET Query] /\ m.to \in Node
      BY MessageType DEF TypeOK
    <3>2. initer' = initer
      BY <1>1, <2>2, <3>1 DEF RecvL
    <3> QED BY <1>1, <2>2, <3>2 DEF RecvL, files
  <2> QED BY <2>1, <2>2
<1> QED BY <1>1 DEF Deliver, Reject, RecvI, RecvIAlone, RecvILate, RecvJ, RecvK,
                    RecvKCounted, RecvKIgnored, RecvLCounted, RecvLIgnored, files

\* A node that keeps results keeps one, which is the one that came.
LEMMA KeptOne ==
  ASSUME QueryInv, NEW m \in pending, KeepResult(m)
  PROVE  qResult'[m.to][m.query] = {m.response}
<1> USE MessageType
<1>1. TypeOK /\ OneResponse /\ KeptResults
  BY DEF QueryInv
<1>2. KeptCame(qResult[m.to][m.query], m.query)
  BY <1>1 DEF KeptResults
<1>3. \/ qResult[m.to][m.query] = {}
      \/ qResult[m.to][m.query] = {m.response}
  BY <1>1, <1>2 DEF KeptCame, OneResponse
<1> QED BY <1>1, <1>3 DEF KeepResult, KeptResults

LEMMA DeliverInv ==
  ASSUME QueryInv, NEW m \in pending, Deliver(m)
  PROVE  QueryInv'
<1> USE MessageType
<1>1. TypeOK /\ WaitsOnce /\ OneResponse /\ KeptResults
  BY DEF QueryInv
<1>2. /\ sent \subseteq sent' /\ MessagesOK'
      /\ \A v \in sent' \ sent : v.query = m.query /\ v.response = m.response
  BY <1>1, DeliverSends
<1>3. RoundsOK'
  BY <1>1, DeliverRounds
<1>4. /\ DOMAIN told' = Query /\ initer' \in [Node -> SUBSET Query]
      /\ client' \in [Query -> ClientState]
      /\ \A q \in Query : /\ told'[q] # {} <=> client'[q] = "answered"
                          /\ client[q] # "idle" => client'[q] # "idle"
      /\ WaitsOnce'
  <2>1. CASE UNCHANGED <<initer, client, told>>
    BY <1>1, <2>1 DEF TypeOK, KeptResults, WaitsOnce
  <2>2. CASE /\ m.query \in initer[m.to] /\ Agrees(m) /\ KeepResult(m)
             /\ client' = [client EXCEPT ![m.query] = "answered"]
             /\ told' = [told EXCEPT ![m.query] = qResult'[m.to][m.query]]
             /\ initer' = [initer EXCEPT ![m.to] = @ \ {m.query}]
    <3>1. qResult'[m.to][m.query] = {m.response}
      BY <2>2, KeptOne
    <3>2. \A x \in Node \ {m.to} : m.query \notin initer[x]
      BY <1>1, <2>2 DEF WaitsOnce, TypeOK
    <3>3. WaitsOnce'
      BY <1>1, <2>2, <3>2 DEF WaitsOnce, TypeOK
    <3> QED BY ZenonT(40), <1>1, <2>2, <3>1, <3>3 DEF TypeOK, KeptResults, ClientState
  <2> QED BY <1>1, <2>1, <2>2, DeliverTells
<1>5. OneResponse'
  <2>1. \A v \in sent' : v.query \in Query
    BY <1>2 DEF MessagesOK, Message
  <2>2. ASSUME NEW v \in sent'
        PROVE  \E w \in sent : v.query = w.query /\ v.response = w.response
    <3>1. CASE v \in sent
      BY <3>1
    <3>2. CASE v \notin sent
      <4>1. v.query = m.query /\ v.response = m.response
        BY <1>2, <3>2
      <4> QED BY <1>1, <4>1
    <3> QED BY <3>1, <3>2
  <2> QED BY <1>1, <1>4, <2>1, <2>2 DEF OneResponse
<1>6. KeptResults'
  <2>1. \A x \in Node, q \in Query : KeptCame(qResult'[x][q], q)
    BY DeliverKept
  <2>2. \A x \in Node, q \in Query :
          \/ qResult'[x][q] = {}
          \/ \E v \in sent' : v.query = q /\ qResult'[x][q] = {v.response}
    BY <1>2, <2>1 DEF KeptCame
  <2> QED BY <1>4, <2>2, DeliverKept DEF KeptResults, KeptCame
<1>7. \A x \in Node, q \in Query : Cardinality(qResult'[x][q]) <= 1
  <2>1. Cardinality({}) = 0 /\ \A r : Cardinality({r}) = 1
    BY FS_EmptySet, FS_Singleton
  <2> TAKE x \in Node, q \in Query
  <2>2. qResult'[x][q] = {} \/ \E r : qResult'[x][q] = {r}
    BY <1>6 DEF KeptResults, KeptCame
  <2>3. Cardinality(qResult'[x][q]) \in {0, 1}
    BY <2>1, <2>2
  <2> QED BY <2>3
<1>8. TypeOK'
  BY <1>1, <1>2, <1>3, <1>4, <1>7, DeliverTells
     DEF TypeOK, RoundsOK, MessagesOK, files
<1> QED BY <1>4, <1>5, <1>6, <1>8 DEF QueryInv

-----------------------------------------------------------------------------
(* What else may happen.                                                    *)

\* The first messages of a query: all with the result the proxy finds.
LEMMA AskedType ==
  ASSUME TypeOK, NEW x \in Node, NEW q \in Query, NEW v \in Asked(x, q)
  PROVE  /\ v \in Message(v.response)
         /\ v.query = q /\ v.response = ResultAt(x, q)
<1>1. PICK y \in LeadersOf(q) \ down :
        v = [xit |-> "i", query |-> q, from |-> x, to |-> y, proxy |-> x,
             epoch |-> epoch[x], response |-> ResultAt(x, q)]
  BY DEF Asked
<1>2. y \in Node /\ epoch[x] \in Nat
  BY HostsType DEF TypeOK
<1> QED BY <1>1, <1>2 DEF Message

\* Submit and SubmitUnreached send the same.
LEMMA SubmitSends ==
  ASSUME QueryInv, NEW x \in Node, NEW q \in Query, client[q] = "idle",
         Send(Asked(x, q)), client' \in [Query -> ClientState], client'[q] # "idle",
         \A p \in Query \ {q} : client'[p] = client[p],
         UNCHANGED qResult, DOMAIN told' = Query
  PROVE  MessagesOK' /\ OneResponse' /\ KeptResults'
<1>1. TypeOK /\ OneResponse /\ KeptResults
  BY DEF QueryInv
<1>2. \A v \in Asked(x, q) : /\ v \in Message(v.response)
                             /\ v.query = q /\ v.response = ResultAt(x, q)
  BY <1>1, AskedType
<1>3. sent' = sent \cup Asked(x, q) /\ pending' = pending \cup Asked(x, q)
  BY DEF Send
<1>4. \A v \in sent : v.query \in Query /\ v.query # q
  <2>1. \A v \in sent : v.query \in Query
    BY <1>1 DEF TypeOK, Message
  <2> QED BY <1>1, <2>1 DEF OneResponse
<1>5. MessagesOK'
  BY <1>1, <1>2, <1>3 DEF MessagesOK, TypeOK
<1>6. OneResponse'
  BY <1>1, <1>2, <1>3, <1>4 DEF OneResponse
<1>7. KeptResults'
  BY <1>1, <1>3 DEF KeptResults, KeptCame
<1> QED BY <1>5, <1>6, <1>7

LEMMA SubmitInv ==
  ASSUME QueryInv, NEW x \in Node, NEW q \in Query,
         Submit(x, q) \/ SubmitUnreached(x, q) \/ SubmitRefused(x, q)
  PROVE  QueryInv'
<1>1. TypeOK /\ WaitsOnce /\ OneResponse /\ KeptResults
  BY DEF QueryInv
<1>2. client[q] = "idle"
  BY DEF Submit, SubmitUnreached, SubmitRefused, CanSubmit
<1>3. \A y \in Node : q \notin initer[y]
  BY <1>1, <1>2 DEF WaitsOnce
<1>4. CASE Submit(x, q)
  <2>1. /\ client' \in [Query -> ClientState] /\ client'[q] # "idle"
        /\ \A p \in Query \ {q} : client'[p] = client[p]
    BY <1>1, <1>4 DEF Submit, TypeOK, ClientState
  <2>2. MessagesOK' /\ OneResponse' /\ KeptResults'
    BY <1>1, <1>2, <1>4, <2>1, SubmitSends DEF Submit, KeptResults
  <2>3. TypeOK'
    BY <1>1, <1>2, <1>4, <2>1, <2>2 DEF Submit, TypeOK, MessagesOK, files
  <2>4. WaitsOnce'
    BY <1>1, <1>3, <1>4, <2>1 DEF Submit, WaitsOnce, TypeOK
  <2> QED BY <2>2, <2>3, <2>4 DEF QueryInv
<1>5. CASE SubmitUnreached(x, q)
  <2>1. /\ client' \in [Query -> ClientState] /\ client'[q] # "idle"
        /\ \A p \in Query \ {q} : client'[p] = client[p]
    BY <1>1, <1>5 DEF SubmitUnreached, TypeOK, ClientState
  <2>2. MessagesOK' /\ OneResponse' /\ KeptResults'
    BY <1>1, <1>2, <1>5, <2>1, SubmitSends DEF SubmitUnreached, KeptResults
  <2>3. TypeOK'
    BY <1>1, <1>2, <1>5, <2>1, <2>2 DEF SubmitUnreached, TypeOK, MessagesOK, files
  <2>4. WaitsOnce'
    BY <1>1, <1>3, <1>5, <2>1 DEF SubmitUnreached, WaitsOnce, TypeOK
  <2> QED BY <2>2, <2>3, <2>4 DEF QueryInv
<1>6. CASE SubmitRefused(x, q)
  <2>1. age' \in [Query -> {0, 240, 300}]
    <3>1. age' = age \/ age' = [age EXCEPT ![q] = 300]
      BY <1>6 DEF SubmitRefused
    <3> QED BY <1>1, <3>1 DEF TypeOK
  <2>2. TypeOK'
    <3>1. /\ client' = [client EXCEPT ![q] = "refused"]
          /\ UNCHANGED <<round, files, qResult, initer, told, pending, sent, epoch>>
      BY <1>6 DEF SubmitRefused
    <3> QED BY <1>1, <1>2, <2>1, <3>1 DEF TypeOK, ClientState, files
  <2>3. WaitsOnce' /\ KeptResults'
    BY <1>1, <1>3, <1>6 DEF SubmitRefused, WaitsOnce, KeptResults, KeptCame, TypeOK
  <2>4. OneResponse'
    BY <1>1, <1>6 DEF SubmitRefused, OneResponse, TypeOK
  <2> QED BY <2>2, <2>3, <2>4 DEF QueryInv
<1> QED BY <1>4, <1>5, <1>6

LEMMA SaveInv ==
  ASSUME QueryInv, NEW x \in Node, NEW u \in Update, Save(x, u)
  PROVE  QueryInv'
<1>1. saved' \in [Node -> SUBSET Update]
  BY DEF Save, QueryInv, TypeOK
<1> QED BY <1>1 DEF Save, QueryInv, TypeOK, WaitsOnce, OneResponse, KeptResults,
                    KeptCame

LEMMA RestartInv ==
  ASSUME QueryInv, NEW x \in Node, Restart(x)
  PROVE  QueryInv'
<1>1. TypeOK /\ WaitsOnce /\ OneResponse /\ KeptResults
  BY DEF QueryInv
<1>2. NoRound \in Round /\ NoRound.k = 0 /\ NoRound.l = 0
  BY DEF NoRound, Round, ST_NULL
<1>3. RoundsOK'
  BY <1>1, <1>2, QuorumType DEF Restart, RoundsOK, TypeOK
<1>4. \A y \in Node, q \in Query : \/ qResult'[y][q] = {}
                                  \/ qResult'[y][q] = qResult[y][q]
  BY <1>1 DEF Restart, KeptResults
<1>5. KeptResults'
  BY <1>1, <1>4 DEF Restart, KeptResults, KeptCame
<1>6. \A q \in Query : client'[q] = "dropped" \/ client'[q] = client[q]
  BY DEF Restart
<1>7. \A q \in Query : client[q] = "answered" => client'[q] = "answered"
  BY <1>1 DEF Restart, WaitsOnce
<1>8. client' \in [Query -> ClientState]
  BY <1>1 DEF Restart, TypeOK, ClientState
<1>9. \A y \in Node, q \in Query : Cardinality(qResult'[y][q]) <= 1
  <2>1. Cardinality({}) <= 1
    BY FS_EmptySet
  <2> QED BY <1>1, <1>4, <2>1 DEF TypeOK
<1>10. TypeOK'
  <2>1. \A q \in Query : told'[q] # {} <=> client'[q] = "answered"
    BY <1>1, <1>6, <1>7 DEF Restart, TypeOK
  <2>2. initer' \in [Node -> SUBSET Query] /\ epoch' \in [Node -> Nat]
    BY <1>1 DEF Restart, TypeOK
  <2> QED BY <1>1, <1>3, <1>8, <1>9, <2>1, <2>2
             DEF Restart, TypeOK, RoundsOK, files
<1>11. WaitsOnce'
  BY <1>1 DEF Restart, WaitsOnce, TypeOK
<1>12. OneResponse'
  <2>1. \A v \in sent : v.query \in Query
    BY <1>1 DEF TypeOK, Message
  <2> QED BY <1>1, <1>6, <2>1 DEF Restart, OneResponse
<1> QED BY <1>5, <1>10, <1>11, <1>12 DEF QueryInv

LEMMA CleanupInv ==
  ASSUME QueryInv, NEW x \in Node, Cleanup(x)
  PROVE  QueryInv'
<1>1. TypeOK /\ WaitsOnce /\ OneResponse /\ KeptResults
  BY DEF QueryInv
<1> DEFINE erased(r, ck, cl) == [r EXCEPT !.k = IF ck THEN 0 ELSE @,
                                          !.l = IF cl THEN 0 ELSE @]
<1>2. PICK gone :
        /\ round' = [round EXCEPT ![x] = [q \in Query |->
             erased(round[x][q], <<q, "k">> \in gone, <<q, "l">> \in gone)]]
        /\ qResult' = [qResult EXCEPT ![x] = [q \in Query |->
             IF <<q, "result">> \in gone THEN {} ELSE qResult[x][q]]]
        /\ UNCHANGED <<files, initer, client, told, pending, sent, epoch, age, down>>
  BY DEF Cleanup
<1>3. ASSUME NEW r \in Round, NEW ck \in BOOLEAN, NEW cl \in BOOLEAN
      PROVE  /\ erased(r, ck, cl) \in Round
             /\ erased(r, ck, cl).k \in {0, r.k}
             /\ erased(r, ck, cl).l \in {0, r.l}
  BY DEF Round
<1> HIDE DEF erased
<1>4. RoundsOK'
  <2> SUFFICES ASSUME NEW q \in Query
               PROVE  LET r == round'[x][q]
                      IN  /\ r \in Round
                          /\ r.k < ZoneQuorum(x, q) /\ r.l < LeaderQuorum
    BY <1>1, <1>2 DEF RoundsOK, TypeOK
  <2>1. round[x][q] \in Round /\ (<<q, "k">> \in gone) \in BOOLEAN
        /\ (<<q, "l">> \in gone) \in BOOLEAN
    BY <1>1 DEF TypeOK
  <2>2. PICK r \in Round : r = round'[x][q] /\ r.k \in {0, round[x][q].k}
                          /\ r.l \in {0, round[x][q].l}
    <3>1. round'[x][q] = erased(round[x][q], <<q, "k">> \in gone, <<q, "l">> \in gone)
      BY <1>1, <1>2 DEF TypeOK
    <3>2. /\ round'[x][q] \in Round
          /\ round'[x][q].k \in {0, round[x][q].k}
          /\ round'[x][q].l \in {0, round[x][q].l}
      BY ZenonT(40), <1>3, <2>1, <3>1
    <3> QED BY <3>2
  <2> QED BY <1>1, <2>2, QuorumType DEF TypeOK
<1>5. \A y \in Node, q \in Query : \/ qResult'[y][q] = {}
                                  \/ qResult'[y][q] = qResult[y][q]
  BY <1>1, <1>2 DEF KeptResults
<1>6. KeptResults'
  BY <1>1, <1>2, <1>5 DEF KeptResults, KeptCame
<1>7. \A y \in Node, q \in Query : Cardinality(qResult'[y][q]) <= 1
  <2>1. Cardinality({}) <= 1
    BY FS_EmptySet
  <2> QED BY <1>1, <1>5, <2>1 DEF TypeOK
<1>8. TypeOK'
  BY <1>1, <1>2, <1>4, <1>7 DEF TypeOK, RoundsOK, files
<1>9. WaitsOnce' /\ OneResponse'
  BY <1>1, <1>2 DEF WaitsOnce, OneResponse
<1> QED BY <1>6, <1>8, <1>9 DEF QueryInv

LEMMA AgeInv ==
  ASSUME QueryInv, NEW q \in Query, Age(q)
  PROVE  QueryInv'
<1>1. age' \in [Query -> {0, 240, 300}]
  BY DEF Age, QueryInv, TypeOK
<1> QED BY <1>1 DEF Age, QueryInv, TypeOK, WaitsOnce, OneResponse, KeptResults,
                    KeptCame, files

LEMMA InvStep == QueryInv /\ [Next]_vars => QueryInv'
<1> SUFFICES ASSUME QueryInv, [Next]_vars PROVE QueryInv'
  OBVIOUS
<1>1. CASE UNCHANGED vars
  BY <1>1 DEF vars, QueryInv, TypeOK, WaitsOnce, OneResponse, KeptResults, KeptCame
<1> QED BY <1>1, DeliverInv, SubmitInv, SaveInv, RestartInv, CleanupInv, AgeInv
           DEF Next

LEMMA InvHolds == Spec => []QueryInv
BY InitInv, InvStep, PTL DEF Spec

\* Rounds, messages, results and clients keep their types; counters stay below
\* their quorums, and a node keeps at most one result of a query.
THEOREM QueryTypeCorrect == Spec => []TypeOK
<1>1. QueryInv => TypeOK
  BY DEF QueryInv
<1> QED BY <1>1, InvHolds, PTL

-----------------------------------------------------------------------------
(* The answer.                                                              *)

\* What a client is told is what the files of its proxy say at that moment,
\* whatever was saved, restarted or cleaned up since the query was asked: no
\* message of the query carries another result, so the one kept is the one
\* that has just been compared.
THEOREM AnswersCurrent == Spec => AnswerIsCurrent
<1> DEFINE Current ==
      \A q \in Query :
        client'[q] = "answered" /\ client[q] # "answered"
        => \E x \in Node : q \in initer[x] /\ told'[q] = {ResultAt(x, q)}
<1>1. QueryInv /\ [Next]_vars => Current
  <2> SUFFICES ASSUME QueryInv, [Next]_vars, NEW q \in Query,
                      client'[q] = "answered", client[q] # "answered"
               PROVE  \E x \in Node : q \in initer[x] /\ told'[q] = {ResultAt(x, q)}
    OBVIOUS
  <2>1. TypeOK /\ KeptResults
    BY DEF QueryInv
  <2>2. ASSUME NEW m \in pending, Deliver(m)
        PROVE  \E x \in Node : q \in initer[x] /\ told'[q] = {ResultAt(x, q)}
    <3>1. /\ m.query \in initer[m.to] /\ Agrees(m) /\ KeepResult(m)
          /\ client' = [client EXCEPT ![m.query] = "answered"]
          /\ told' = [told EXCEPT ![m.query] = qResult'[m.to][m.query]]
      BY <2>1, <2>2, DeliverTells
    <3>2. q = m.query /\ m.to \in Node
      BY <2>1, <3>1, MessageType DEF TypeOK
    <3>3. told'[q] = {m.response}
      BY <2>1, <3>1, <3>2, KeptOne DEF KeptResults
    <3> QED BY <3>1, <3>2, <3>3 DEF Agrees
  <2>3. ASSUME NEW x \in Node, NEW p \in Query,
               Submit(x, p) \/ SubmitUnreached(x, p) \/ SubmitRefused(x, p)
        PROVE  FALSE
    BY <2>1, <2>3 DEF Submit, SubmitUnreached, SubmitRefused, TypeOK
  <2>4. ASSUME NEW x \in Node, Restart(x) PROVE FALSE
    BY <2>4 DEF Restart
  <2>5. client' = client => FALSE
    OBVIOUS
  <2> QED BY <2>2, <2>3, <2>4, <2>5 DEF Next, Save, Cleanup, Age, vars
<1>2. QueryInv /\ [Next]_vars => [Current]_vars
  BY <1>1
<1> QED BY <1>2, InvHolds, PTL DEF Spec, AnswerIsCurrent

-----------------------------------------------------------------------------
(* The certificate of an answer.  As long as no node is restarted, a proxy   *)
(* that answers has heard of more than half of the zones, and each of these  *)
(* was confirmed by 2f+1 followers, each of them counted once.               *)

-----------------------------------------------------------------------------
(* The circuit.                                                             *)

LEMMA NodesFinite ==
  ASSUME NEW S \in SUBSET Node
  PROVE  IsFiniteSet(S) /\ Cardinality(S) \in Nat
<1>1. IsFiniteSet(Node)
  BY QueryNAssumption, FS_Interval DEF Node
<1>2. IsFiniteSet(S)
  BY <1>1, FS_Subset
<1> QED BY <1>2, FS_CardinalityType

LEMMA NodesGrow ==
  ASSUME NEW T \in SUBSET Node, NEW S \in SUBSET T
  PROVE  Cardinality(S) <= Cardinality(T)
BY NodesFinite, FS_Subset

Leads(x, q) == MyLeader(x, q) = x

LEMMA MyPart ==
  ASSUME NEW x \in Node, NEW q \in Query
  PROVE  /\ MyLeader(x, q) = LeaderOf(N, Hash[q], x)
         /\ MyFollowers(x, q) = Followers(N, Hash[q], x)
BY DEF MyLeader, MyFollowers, Circuit, Part

LEMMA RolesInCircuit ==
  ASSUME NEW x \in Node, NEW q \in Query
  PROVE  /\ MyLeader(x, q) \in Node /\ Leads(MyLeader(x, q), q)
         /\ Leads(x, q) => \A y \in MyFollowers(x, q) : MyLeader(y, q) = x
         /\ \A y \in LeadersOf(q) : Leads(y, q)
<1>1. N \in Nat /\ \A y \in Node : MyLeader(y, q) = LeaderOf(N, Hash[q], y)
  BY MyPart, QueryNAssumption
<1>2. \A y \in Node : MyLeader(y, q) \in Node /\ Leads(MyLeader(y, q), q)
  BY <1>1, HostsType, LeaderLeads DEF Node, IsLeader, Leads
<1>3. Leads(x, q) => \A y \in MyFollowers(x, q) : MyLeader(y, q) = x
  BY <1>1, MyPart, HostsType, FollowersFollow DEF Node, IsLeader, Leads
<1> QED BY <1>2, <1>3 DEF LeadersOf

\* The members of the zone that x leads, x included.
Members(x, q) == {z \in Node : MyLeader(z, q) = x}

LEMMA ZoneQuorumIs ==
  ASSUME NEW x \in Node, NEW q \in Query, Leads(x, q)
  PROVE  ZoneQuorum(x, q) = TwoFPlus1(Cardinality(Members(x, q)))
<1>1. LeaderOf(N, Hash[q], x) = x /\ N \in Nat
  BY MyPart, QueryNAssumption DEF Leads
<1>2. \A z \in Node : MyLeader(z, q) = LeaderOf(N, Hash[q], z)
  BY MyPart
<1>3. \A z \in ZoneMates(N, Hash[q], x) : LeaderOf(N, Hash[q], z) = x
  BY <1>1, LeaderAgreed DEF Node
<1>4. \A z \in Node : LeaderOf(N, Hash[q], z) \in ZoneMates(N, Hash[q], z)
  BY <1>1, LeaderInZone DEF Node
<1>5. Members(x, q) = ZoneMates(N, Hash[q], x)
  BY <1>2, <1>3, <1>4 DEF Members, ZoneMates, Node
<1>6. x \in Members(x, q) /\ MyFollowers(x, q) = Members(x, q) \ {x}
  BY <1>1, <1>2, <1>5, MyPart DEF Followers, Members
<1>7. IsFiniteSet(Members(x, q)) /\ Cardinality(Members(x, q)) \in Nat
  BY NodesFinite DEF Members
<1>8. Cardinality(MyFollowers(x, q)) = Cardinality(Members(x, q)) - 1
  BY <1>6, <1>7, FS_RemoveElement
<1>9. Cardinality(MyFollowers(x, q)) + 1 = Cardinality(Members(x, q))
  BY <1>7, <1>8
<1> QED BY <1>9 DEF ZoneQuorum

-----------------------------------------------------------------------------
(* The invariant: what a message that was sent says about its sender, and   *)
(* what a counter says about the messages.                                  *)

Quiet == \A x \in Node : epoch[x] = 0

Handled == sent \ pending

\* Whose vote of kind xit the node x has handled.
Heard(xit, x, q) ==
  {m.from : m \in {v \in Handled : v.xit = xit /\ v.query = q /\ v.to = x}}

\* Who sent v has come to the state v stands for.  A follower votes because of
\* a proposal, and a leader for its zone, never at the proxy, because 2f+1
\* followers have confirmed the result.
Source(v) ==
  LET state == round[v.from][v.query].state
  IN  /\ v.xit = "i" => v.from = v.proxy /\ Leads(v.to, v.query)
      /\ v.xit = "j" => state >= ST_B /\ v.from = MyLeader(v.to, v.query)
      /\ v.xit = "k" => /\ v.to = MyLeader(v.from, v.query)
                        /\ \E w \in Handled : /\ w.xit = "j" /\ w.query = v.query
                                              /\ w.to = v.from
      /\ v.xit = "l" =>
           /\ state >= ST_C /\ Leads(v.from, v.query)
           /\ v.to = v.proxy /\ v.from # v.proxy
           /\ Cardinality(Confirmed(v.from, v.query, v.response))
                >= TwoFPlus1(Cardinality(Members(v.from, v.query)))
Sources == \A v \in sent : Source(v)

\* A query has one proxy, and no vote is sent twice to one node.
OneProxy == \A v, w \in sent : v.query = w.query => v.proxy = w.proxy
SameVote(v, w) ==
  v.xit = w.xit /\ v.query = w.query /\ v.from = w.from /\ v.to = w.to
Single == \A v, w \in sent : v.xit # "i" /\ SameVote(v, w) => v = w

\* A counter has counted votes that were cast, each once.
CountsOK(x, q) ==
  /\ round[x][q].k <= Cardinality(Heard("k", x, q))
  /\ round[x][q].l <= Cardinality(Heard("l", x, q))

\* The zones that have told the proxy of q that they are sure.
Telling(q) == {m.from : m \in {v \in sent : v.xit = "l" /\ v.query = q}}

\* A client has been told what a message said, when enough zones were sure.
ToldOK(q) ==
  client[q] = "answered" =>
    /\ \E m \in sent : m.query = q /\ told[q] = {m.response}
    /\ Cardinality(Telling(q)) >= LeaderQuorum

CertInv ==
  /\ Sources /\ OneProxy /\ Single
  /\ \A x \in Node, q \in Query : CountsOK(x, q)
  /\ \A q \in Query : ToldOK(q)

-----------------------------------------------------------------------------
(* What a delivery does, without results and clients.                       *)

One(b) == IF b THEN 1 ELSE 0

\* A counter grows by the vote in m at most, and no state is undone.
Counts(m, r) ==
  LET was == RoundAt(m)
  IN  /\ r.k <= was.k + One(m.xit = "k")
      /\ r.l <= was.l + One(m.xit = "l")
      /\ r.state >= was.state

Proposing(m, r, msgs) ==
  /\ m.xit = "i"
  /\ RoundAt(m).state = ST_NULL /\ r.state = ST_B
  /\ msgs = Forward(m, "j", MyFollowers(m.to, m.query))

Voting(m, msgs) ==
  /\ m.xit = "j"
  /\ msgs = Forward(m, "k", {MyLeader(m.to, m.query)})

Agreeing(m, r, msgs) ==
  /\ m.xit = "k" /\ RoundAt(m).k + 1 >= ZoneQuorum(m.to, m.query)
  /\ RoundAt(m).state < ST_C /\ r.state = ST_C
  /\ msgs = Forward(m, "l", {m.proxy} \ {m.to})

Sends(m, r, msgs) ==
  msgs = {} \/ Proposing(m, r, msgs) \/ Voting(m, msgs) \/ Agreeing(m, r, msgs)

\* m is handled: its node is in the round r afterwards and has sent msgs.
Handles(m, r, msgs) ==
  /\ SetRound(m, r) /\ Answer(m, msgs)
  /\ Counts(m, r) /\ Sends(m, r, msgs)

LEMMA RoundIs ==
  ASSUME NEW r \in Round
  PROVE  r.state \in 0..4 /\ r.k \in Nat /\ r.l \in Nat
BY DEF Round, ST_NULL, ST_B, ST_C, ST_D

LEMMA RoundAfter ==
  ASSUME NEW r \in Round
  PROVE  /\ [r EXCEPT !.state = ST_B] \in Round
         /\ [r EXCEPT !.state = ST_C] \in Round
         /\ [r EXCEPT !.k = @ + 1] \in Round
         /\ [r EXCEPT !.l = @ + 1] \in Round
         /\ [r EXCEPT !.state = ST_C, !.k = 0] \in Round
         /\ [r EXCEPT !.state = ST_D, !.l = 0] \in Round
<1>1. r.k + 1 \in Nat /\ r.l + 1 \in Nat /\ 0 \in Nat
  BY DEF Round
<1>2. \A k, l \in Nat : /\ [r EXCEPT !.k = k] \in Round
                        /\ [r EXCEPT !.l = l] \in Round
                        /\ [r EXCEPT !.state = ST_C, !.k = k] \in Round
                        /\ [r EXCEPT !.state = ST_D, !.l = l] \in Round
  BY DEF Round
<1>3. [r EXCEPT !.state = ST_B] \in Round /\ [r EXCEPT !.state = ST_C] \in Round
  BY DEF Round
<1> QED BY <1>1, <1>2, <1>3

LEMMA DeliverHandles ==
  ASSUME TypeOK, NEW m \in pending, Deliver(m)
  PROVE  \E r \in Round, msgs \in SUBSET sent' : Handles(m, r, msgs)
<1> DEFINE was == RoundAt(m)
<1>1. /\ was \in Round /\ was.state \in 0..4 /\ was.k \in Nat /\ was.l \in Nat
  BY MessageType, RoundIs
<1>2. UNCHANGED round => SetRound(m, was)
  <2>1. round \in [Node -> [Query -> Round]] /\ m.to \in Node /\ m.query \in Query
    BY MessageType DEF TypeOK
  <2> QED BY <2>1 DEF SetRound, RoundAt, was
<1>3. \A msgs : Answer(m, msgs) => msgs \in SUBSET sent'
  BY DEF Answer
<1> SUFFICES \E r \in Round : \E msgs : Handles(m, r, msgs)
  BY <1>3 DEF Handles
<1> HIDE DEF was
<1>4. CASE UNCHANGED round /\ Answer(m, {})
  <2>1. Handles(m, was, {})
    BY <1>1, <1>2, <1>4 DEF Handles, Counts, Sends, One, was
  <2> QED BY <1>1, <2>1
<1>5. CASE RecvI(m)
  <2> DEFINE r == [was EXCEPT !.state = ST_B]
  <2>1. r \in Round /\ r.k = was.k /\ r.l = was.l /\ r.state = ST_B
    BY <1>1, RoundAfter DEF Round
  <2>2. Handles(m, r, Forward(m, "j", MyFollowers(m.to, m.query)))
    BY <1>1, <1>5, <2>1 DEF RecvI, Receives, Handles, Counts, Sends, Proposing, One,
       was, ST_NULL, ST_B
  <2> QED BY <2>1, <2>2
<1>6. CASE RecvIAlone(m)
  <2> DEFINE r == [was EXCEPT !.state = ST_C]
  <2>1. r \in Round /\ r.k = was.k /\ r.l = was.l /\ r.state = ST_C
    BY <1>1, RoundAfter DEF Round
  <2>2. Handles(m, r, {})
    BY <1>1, <1>6, <2>1 DEF RecvIAlone, Handles, Counts, Sends, One, was, ST_NULL, ST_C
  <2> QED BY <2>1, <2>2
<1>7. CASE RecvJ(m)
  <2>1. Handles(m, was, Forward(m, "k", {MyLeader(m.to, m.query)}))
    BY <1>1, <1>2, <1>7 DEF RecvJ, Receives, Handles, Counts, Sends, Voting, One, was
  <2> QED BY <1>1, <2>1
<1>8. CASE RecvK(m)
  <2> DEFINE r == [was EXCEPT !.state = ST_C, !.k = 0]
  <2>1. r \in Round /\ r.k = 0 /\ r.l = was.l /\ r.state = ST_C
    BY <1>1, RoundAfter DEF Round
  <2>2. Handles(m, r, Forward(m, "l", {m.proxy} \ {m.to}))
    BY <1>1, <1>8, <2>1 DEF RecvK, Receives, Handles, Counts, Sends, Agreeing, One,
       was, ST_C
  <2> QED BY <2>1, <2>2
<1>9. CASE RecvKCounted(m)
  <2> DEFINE r == [was EXCEPT !.k = @ + 1]
  <2>1. r \in Round /\ r.k = was.k + 1 /\ r.l = was.l /\ r.state = was.state
    BY <1>1, RoundAfter DEF Round
  <2>2. Handles(m, r, {})
    BY <1>1, <1>9, <2>1 DEF RecvKCounted, Receives, Handles, Counts, Sends, One, was
  <2> QED BY <2>1, <2>2
<1>10. CASE RecvL(m)
  <2> DEFINE r == [was EXCEPT !.state = ST_D, !.l = 0]
  <2>1. r \in Round /\ r.l = 0 /\ r.k = was.k /\ r.state = ST_D
    BY <1>1, RoundAfter DEF Round
  <2>2. Handles(m, r, {})
    BY <1>1, <1>10, <2>1 DEF RecvL, Receives, Handles, Counts, Sends, One, was, ST_D
  <2> QED BY <2>1, <2>2
<1>11. CASE RecvLCounted(m)
  <2> DEFINE r == [was EXCEPT !.l = @ + 1]
  <2>1. r \in Round /\ r.l = was.l + 1 /\ r.k = was.k /\ r.state = was.state
    BY <1>1, RoundAfter DEF Round
  <2>2. Handles(m, r, {})
    BY <1>1, <1>11, <2>1 DEF RecvLCounted, Receives, Handles, Counts, Sends, One, was
  <2> QED BY <2>1, <2>2
<1> QED BY <1>4, <1>5, <1>6, <1>7, <1>8, <1>9, <1>10, <1>11
           DEF Deliver, Reject, RecvILate, RecvKIgnored, RecvLIgnored
-----------------------------------------------------------------------------
(* The invariant is kept by a delivery.                                     *)

LEMMA ForwardIs ==
  ASSUME TypeOK, NEW m \in pending, NEW xit, NEW hosts
  PROVE  /\ \A v \in Forward(m, xit, hosts) :
              /\ v.xit = xit /\ v.query = m.query /\ v.from = m.to
              /\ v.proxy = m.proxy /\ v.response = m.response /\ v.to \in hosts
         /\ \A v, w \in Forward(m, xit, hosts) : v.to = w.to => v = w
<1> DEFINE copy(y) == [m EXCEPT !.xit = xit, !.from = m.to, !.to = y,
                                !.epoch = epoch[m.to]]
<1>1. m \in Message(m.response)
  BY MessageType
<1>2. \A y : /\ copy(y).xit = xit /\ copy(y).query = m.query
             /\ copy(y).from = m.to /\ copy(y).proxy = m.proxy
             /\ copy(y).response = m.response /\ copy(y).to = y
  BY <1>1 DEF Message
<1>3. \A v \in Forward(m, xit, hosts) : \E y \in hosts : v = copy(y)
  BY DEF Forward, Multicast
<1> HIDE DEF copy
<1>4. \A v \in Forward(m, xit, hosts) : v.to \in hosts /\ v = copy(v.to)
  BY <1>2, <1>3
<1> QED BY <1>2, <1>4

\* What a delivery sends.
LEMMA NewIs ==
  ASSUME TypeOK, NEW m \in pending, NEW r \in Round, NEW msgs, Handles(m, r, msgs),
         NEW v \in msgs
  PROVE  /\ v.query = m.query /\ v.from = m.to
         /\ v.proxy = m.proxy /\ v.response = m.response
         /\ \/ /\ v.xit = "j" /\ Proposing(m, r, msgs)
               /\ v.to \in MyFollowers(m.to, m.query)
            \/ /\ v.xit = "k" /\ Voting(m, msgs)
               /\ v.to = MyLeader(m.to, m.query)
            \/ /\ v.xit = "l" /\ Agreeing(m, r, msgs)
               /\ v.to = m.proxy /\ v.to # m.to
BY ForwardIs DEF Handles, Sends, Proposing, Voting, Agreeing

\* It was not sent before, by anyone to anyone.
LEMMA NewIsFresh ==
  ASSUME TypeOK, Sources, Single, NEW m \in pending, NEW r \in Round, NEW msgs,
         Handles(m, r, msgs)
  PROVE  /\ \A v \in msgs : \A w \in sent :
              ~(v.xit = w.xit /\ v.query = w.query /\ v.from = w.from)
         /\ \A v, w \in msgs : SameVote(v, w) => v = w
<1>1. m.to \in Node /\ m.query \in Query /\ m \in sent
  BY MessageType
<1>2. ASSUME NEW v \in msgs, NEW w \in sent,
             v.xit = w.xit, v.query = w.query, v.from = w.from
      PROVE  FALSE
  <2>1. w.query = m.query /\ w.from = m.to /\ Source(w)
    BY <1>2, NewIs DEF Sources
  <2>2. RoundAt(m).state \in 0..4
    BY MessageType, RoundIs
  <2>3. CASE v.xit = "j"
    <3>1. RoundAt(m).state = ST_NULL
      BY <1>2, <2>3, NewIs DEF Proposing
    <3> QED BY <1>2, <2>1, <2>3, <3>1 DEF Source, RoundAt, ST_NULL, ST_B
  <2>4. CASE v.xit = "k"
    <3>1. m.xit = "j"
      BY ZenonT(40), <1>2, <2>4, NewIs DEF Voting
    <3>2. PICK u \in Handled : u.xit = "j" /\ u.query = m.query /\ u.to = m.to
      BY <1>2, <2>1, <2>4 DEF Source
    <3>3. u \in sent /\ u \notin pending
      BY DEF Handled
    <3>4. u.from = m.from
      BY <1>1, <3>1, <3>2, <3>3 DEF Sources, Source
    <3>5. u = m
      BY <1>1, <3>1, <3>2, <3>3, <3>4 DEF Single, SameVote
    <3> QED BY <3>3, <3>5
  <2>5. CASE v.xit = "l"
    <3>1. RoundAt(m).state < ST_C
      BY <1>2, <2>5, NewIs DEF Agreeing
    <3> QED BY <1>2, <2>1, <2>2, <2>5, <3>1 DEF Source, RoundAt, ST_C
  <2> QED BY <1>2, <2>3, <2>4, <2>5, NewIs
<1>3. \A v, w \in msgs : SameVote(v, w) => v = w
  BY ForwardIs DEF Handles, Sends, Proposing, Voting, Agreeing, SameVote
<1> QED BY <1>2, <1>3

\* A delivery handles its own message and no other.
LEMMA HandledStep ==
  ASSUME TypeOK, Sources, Single, NEW m \in pending, NEW r \in Round,
         NEW msgs, Handles(m, r, msgs)
  PROVE  Handled' = Handled \cup {m} /\ m \notin Handled /\ sent' = sent \cup msgs
<1>1. \A v \in msgs : v \notin sent
  BY NewIsFresh
<1> QED BY <1>1, MessageType DEF Handles, Answer, Handled

LEMMA SingleStep ==
  ASSUME TypeOK, Sources, Single, OneProxy, NEW m \in pending, NEW r \in Round,
         NEW msgs, Handles(m, r, msgs)
  PROVE  Single' /\ OneProxy'
<1>1. sent' = sent \cup msgs
  BY HandledStep
<1>2. /\ \A v \in msgs, w \in sent : ~SameVote(v, w) /\ ~SameVote(w, v)
      /\ \A v, w \in msgs : SameVote(v, w) => v = w
  BY NewIsFresh DEF SameVote
<1>3. Single'
  BY <1>1, <1>2 DEF Single
<1>4. \A v \in sent' : \E w \in sent : v.query = w.query /\ v.proxy = w.proxy
  BY <1>1, NewIs, MessageType
<1> QED BY <1>3, <1>4 DEF OneProxy

\* One vote more has been heard, if m is one, and it is a new one.
LEMMA HeardStep ==
  ASSUME TypeOK, Sources, Single, NEW m \in pending, NEW r \in Round,
         NEW msgs, Handles(m, r, msgs),
         NEW xit \in {"k", "l"}, NEW x \in Node, NEW q \in Query
  PROVE  LET mine == m.xit = xit /\ m.to = x /\ m.query = q
         IN  /\ Heard(xit, x, q) \in SUBSET Node
             /\ mine => m.from \in Node \ Heard(xit, x, q)
             /\ Cardinality(Heard(xit, x, q)) \in Nat
             /\ Cardinality(Heard(xit, x, q)')
                  = Cardinality(Heard(xit, x, q)) + One(mine)
<1> DEFINE mine == m.xit = xit /\ m.to = x /\ m.query = q
           H == Heard(xit, x, q)
<1>1. Handled' = Handled \cup {m} /\ m \notin Handled /\ m \in sent /\ m.from \in Node
  BY HandledStep, MessageType DEF Message
<1>2. H \in SUBSET Node
  BY DEF Heard, Handled, TypeOK, Message
<1>3. ASSUME mine, m.from \in H PROVE FALSE
  <2>1. PICK v \in Handled : /\ v.xit = xit /\ v.query = q /\ v.to = x
                             /\ v.from = m.from
    BY <1>3 DEF Heard
  <2>2. v = m
    BY <1>1, <1>3, <2>1 DEF Single, SameVote, Handled
  <2> QED BY <1>1, <2>1, <2>2
<1>4. Heard(xit, x, q)' = H \cup (IF mine THEN {m.from} ELSE {})
  BY <1>1 DEF Heard
<1>5. IsFiniteSet(H) /\ Cardinality(H) \in Nat
  BY <1>2, NodesFinite
<1> HIDE DEF H
<1>6. Cardinality(Heard(xit, x, q)') = Cardinality(H) + One(mine)
  <2>1. CASE mine
    <3>1. Heard(xit, x, q)' = H \cup {m.from} /\ m.from \notin H
      BY <1>3, <1>4, <2>1
    <3> QED BY <1>5, <2>1, <3>1, FS_AddElement DEF One
  <2>2. CASE ~mine
    <3>1. Heard(xit, x, q)' = H
      BY <1>4, <2>2
    <3> QED BY <1>5, <2>2, <3>1 DEF One
  <2> QED BY <2>1, <2>2
<1> QED BY <1>1, <1>2, <1>3, <1>5, <1>6 DEF H

LEMMA CountsStep ==
  ASSUME TypeOK, Sources, Single, NEW m \in pending, NEW r \in Round,
         NEW msgs, Handles(m, r, msgs),
         NEW x \in Node, NEW q \in Query, CountsOK(x, q)
  PROVE  CountsOK(x, q)'
<1> DEFINE Ck == Cardinality(Heard("k", x, q))
           Cl == Cardinality(Heard("l", x, q))
           here == m.to = x /\ m.query = q
<1>1. /\ Ck \in Nat /\ Ck' = Ck + One(m.xit = "k" /\ here)
      /\ Cl \in Nat /\ Cl' = Cl + One(m.xit = "l" /\ here)
  BY HeardStep
<1>2. /\ round \in [Node -> [Query -> Round]]
      /\ m.to \in Node /\ m.query \in Query
  BY MessageType DEF TypeOK
<1>3. /\ round[x][q].k \in Nat /\ round[x][q].l \in Nat
      /\ r.k \in Nat /\ r.l \in Nat
  BY <1>2, RoundIs
<1>4. round'[x][q] = IF here THEN r ELSE round[x][q]
  BY <1>2 DEF Handles, SetRound
<1>5. round[x][q].k <= Ck /\ round[x][q].l <= Cl
  BY DEF CountsOK
<1> HIDE DEF Ck, Cl
<1>6. CASE ~here
  <2>1. round'[x][q].k <= Ck' /\ round'[x][q].l <= Cl'
    BY <1>1, <1>4, <1>5, <1>6 DEF One
  <2> QED BY <2>1 DEF CountsOK, Ck, Cl
<1>7. CASE here
  <2>1. /\ r.k <= round[x][q].k + One(m.xit = "k")
        /\ r.l <= round[x][q].l + One(m.xit = "l")
    BY <1>7 DEF Handles, Counts, RoundAt
  <2>2. r.k <= Ck' /\ r.l <= Cl'
    BY <1>1, <1>3, <1>5, <1>7, <2>1 DEF One
  <2> QED BY <1>4, <1>7, <2>2 DEF CountsOK, Ck, Cl
<1> QED BY <1>6, <1>7

\* Confirmations are not taken back.
LEMMA ConfirmedGrows ==
  ASSUME TypeOK, sent \subseteq sent', MessagesOK',
         NEW y, NEW q, NEW rsp
  PROVE  /\ Confirmed(y, q, rsp)' \in SUBSET Node
         /\ Confirmed(y, q, rsp) \in SUBSET Confirmed(y, q, rsp)'
         /\ Cardinality(Confirmed(y, q, rsp)) <= Cardinality(Confirmed(y, q, rsp)')
         /\ Cardinality(Confirmed(y, q, rsp)) \in Nat
         /\ Cardinality(Confirmed(y, q, rsp)') \in Nat
<1>1. Confirmed(y, q, rsp)' \in SUBSET Node
  BY DEF Confirmed, MessagesOK, Message
<1>2. Confirmed(y, q, rsp) \in SUBSET Confirmed(y, q, rsp)'
  BY DEF Confirmed
<1> QED BY <1>1, <1>2, NodesGrow, NodesFinite

\* The votes a leader needs are those of 2f+1 different followers, all for the
\* one result of the query.
LEMMA QuorumConfirms ==
  ASSUME QueryInv, Sources, Single, NEW m \in pending, NEW r \in Round,
         NEW msgs, Handles(m, r, msgs), m.xit = "k",
         CountsOK(m.to, m.query),
         RoundAt(m).k + 1 >= ZoneQuorum(m.to, m.query)
  PROVE  /\ Leads(m.to, m.query)
         /\ Cardinality(Confirmed(m.to, m.query, m.response))
              >= TwoFPlus1(Cardinality(Members(m.to, m.query)))
<1>1. /\ TypeOK /\ OneResponse
      /\ m \in sent /\ m.to \in Node /\ m.query \in Query /\ m.from \in Node
      /\ RoundAt(m).k \in Nat
  BY MessageType, RoundIs DEF QueryInv, Message
<1>2. Leads(m.to, m.query)
  BY <1>1, RolesInCircuit DEF Sources, Source
<1> DEFINE H == Heard("k", m.to, m.query)
           C == Confirmed(m.to, m.query, m.response)
<1>3. H \in SUBSET Node /\ m.from \in Node \ H /\ Cardinality(H) \in Nat
  BY <1>1, HeardStep
<1>4. RoundAt(m).k <= Cardinality(H)
  BY DEF CountsOK, RoundAt
<1>5. C \in SUBSET Node /\ H \cup {m.from} \in SUBSET C
  <2>1. C \in SUBSET Node
    BY <1>1 DEF Confirmed, TypeOK, Message
  <2>2. \A v \in Handled : v \in sent /\ (v.query = m.query => v.response = m.response)
    BY <1>1 DEF Handled, OneResponse
  <2>3. H \in SUBSET C
    BY <2>2 DEF Heard, Confirmed
  <2>4. m.from \in C
    BY <1>1 DEF Confirmed
  <2> QED BY <2>1, <2>3, <2>4
<1> HIDE DEF H, C
<1>6. Cardinality(H \cup {m.from}) = Cardinality(H) + 1
  BY <1>3, NodesFinite, FS_AddElement
<1>7. Cardinality(H \cup {m.from}) <= Cardinality(C) /\ Cardinality(C) \in Nat
  BY <1>5, NodesGrow, NodesFinite
<1>8. Cardinality(C) >= ZoneQuorum(m.to, m.query)
  BY <1>1, <1>3, <1>4, <1>6, <1>7, QuorumType
<1> QED BY <1>1, <1>2, <1>8, ZoneQuorumIs DEF C
\* States go forward, and a proposal that was handled stays handled.
LEMMA SourcesStep ==
  ASSUME QueryInv, CertInv, NEW m \in pending, Deliver(m), NEW r \in Round,
         NEW msgs, Handles(m, r, msgs)
  PROVE  Sources'
<1>1. /\ TypeOK /\ Sources /\ Single /\ OneProxy
      /\ sent' = sent \cup msgs /\ Handled' = Handled \cup {m}
  BY HandledStep DEF QueryInv, CertInv
<1>2. /\ m \in sent /\ m.to \in Node /\ m.query \in Query
      /\ round \in [Node -> [Query -> Round]]
      /\ RoundAt(m).state \in 0..4 /\ r.state \in 0..4
      /\ r.state >= RoundAt(m).state
  BY <1>1, MessageType, RoundIs DEF TypeOK, Handles, Counts
<1>3. /\ round'[m.to][m.query] = r
      /\ \A x \in Node, q \in Query :
           x # m.to \/ q # m.query => round'[x][q] = round[x][q]
  BY <1>2 DEF Handles, SetRound
<1>4. MessagesOK' /\ sent \subseteq sent'
  BY <1>1, DeliverSends
<1>5. ASSUME NEW v \in sent PROVE Source(v)'
  <2>1. v.from \in Node /\ v.query \in Query /\ Source(v)
    BY <1>1 DEF TypeOK, Message, Sources
  <2>2. /\ round[v.from][v.query].state \in 0..4
        /\ round'[v.from][v.query].state \in 0..4
        /\ round'[v.from][v.query].state >= round[v.from][v.query].state
    <3>1. round[v.from][v.query].state \in 0..4
      BY <1>2, <2>1, RoundIs
    <3>2. CASE v.from = m.to /\ v.query = m.query
      BY <1>2, <1>3, <3>2 DEF RoundAt
    <3>3. CASE ~(v.from = m.to /\ v.query = m.query)
      BY <1>3, <2>1, <3>1, <3>3
    <3> QED BY <3>2, <3>3
  <2>3. v.xit = "j" => round'[v.from][v.query].state >= ST_B
    BY <2>1, <2>2 DEF Source, ST_B
  <2>4. v.xit = "k" => \E w \in Handled' : /\ w.xit = "j" /\ w.query = v.query
                                           /\ w.to = v.from
    BY <1>1, <2>1 DEF Source
  <2>5. v.xit = "l" =>
          /\ round'[v.from][v.query].state >= ST_C
          /\ Cardinality(Confirmed(v.from, v.query, v.response)')
               >= TwoFPlus1(Cardinality(Members(v.from, v.query)))
    <3>1. /\ Cardinality(Confirmed(v.from, v.query, v.response))
               <= Cardinality(Confirmed(v.from, v.query, v.response)')
          /\ Cardinality(Confirmed(v.from, v.query, v.response)) \in Nat
          /\ Cardinality(Confirmed(v.from, v.query, v.response)') \in Nat
      BY <1>1, <1>4, ConfirmedGrows
    <3>2. TwoFPlus1(Cardinality(Members(v.from, v.query))) \in Int
      BY NodesFinite DEF Members, TwoFPlus1
    <3> QED BY <2>1, <2>2, <3>1, <3>2 DEF Source, ST_C
  <2> QED BY <2>1, <2>3, <2>4, <2>5 DEF Source
<1>6. ASSUME NEW v \in msgs PROVE Source(v)'
  <2>1. v.query = m.query /\ v.from = m.to /\ v.proxy = m.proxy
        /\ v.response = m.response
    BY <1>1, NewIs
  <2>2. CASE v.xit = "j" /\ Proposing(m, r, msgs) /\ v.to \in MyFollowers(m.to, m.query)
    <3>1. Leads(m.to, m.query)
      BY <1>1, <1>2, <2>2 DEF Proposing, Sources, Source
    <3>2. MyLeader(v.to, v.query) = v.from
      BY <1>2, <2>1, <2>2, <3>1, RolesInCircuit
    <3> QED BY <1>3, <2>1, <2>2, <3>2 DEF Source, Proposing, ST_B
  <2>3. CASE v.xit = "k" /\ Voting(m, msgs) /\ v.to = MyLeader(m.to, m.query)
    BY <1>1, <2>1, <2>3 DEF Source, Voting
  <2>4. CASE v.xit = "l" /\ Agreeing(m, r, msgs) /\ v.to = m.proxy /\ v.to # m.to
    <3>1. m.xit = "k" /\ RoundAt(m).k + 1 >= ZoneQuorum(m.to, m.query)
      BY <2>4 DEF Agreeing
    <3>2. CountsOK(m.to, m.query)
      BY <1>2 DEF CertInv
    <3>3. /\ Leads(m.to, m.query)
          /\ Cardinality(Confirmed(m.to, m.query, m.response))
               >= TwoFPlus1(Cardinality(Members(m.to, m.query)))
      BY <1>1, <3>1, <3>2, QuorumConfirms
    <3>4. /\ Cardinality(Confirmed(m.to, m.query, m.response))
               <= Cardinality(Confirmed(m.to, m.query, m.response)')
          /\ Cardinality(Confirmed(m.to, m.query, m.response)) \in Nat
          /\ Cardinality(Confirmed(m.to, m.query, m.response)') \in Nat
      BY <1>1, <1>4, ConfirmedGrows
    <3>5. TwoFPlus1(Cardinality(Members(m.to, m.query))) \in Int
      BY NodesFinite DEF Members, TwoFPlus1
    <3>6. Cardinality(Confirmed(m.to, m.query, m.response)')
            >= TwoFPlus1(Cardinality(Members(m.to, m.query)))
      BY <3>3, <3>4, <3>5
    <3>7. round'[v.from][v.query].state >= ST_C
      BY <1>3, <2>1, <2>4 DEF Agreeing, ST_C
    <3> QED BY <2>1, <2>4, <3>3, <3>6, <3>7 DEF Source
  <2> QED BY <1>1, <2>2, <2>3, <2>4, NewIs
<1> QED BY <1>1, <1>5, <1>6 DEF Sources

-----------------------------------------------------------------------------
(* Answers.                                                                 *)

\* Only the last vote the proxy needs changes what a client has been told.
LEMMA DeliverAnswers ==
  ASSUME TypeOK, NEW m \in pending, Deliver(m)
  PROVE  \/ UNCHANGED <<client, told>>
         \/ /\ m.xit = "l" /\ RoundAt(m).l + 1 >= LeaderQuorum /\ KeepResult(m)
            /\ client' = [client EXCEPT ![m.query] = "answered"]
            /\ told' = [told EXCEPT ![m.query] = qResult'[m.to][m.query]]
<1>1. CASE RecvL(m)
  BY <1>1 DEF RecvL, Receives
<1> QED BY <1>1 DEF Deliver, Reject, RecvI, RecvIAlone, RecvILate, RecvJ, RecvK,
                    RecvKCounted, RecvKIgnored, RecvLCounted, RecvLIgnored

LEMMA TellingGrows ==
  ASSUME TypeOK, sent \subseteq sent', MessagesOK', NEW q
  PROVE  /\ Telling(q) \in SUBSET Node /\ Telling(q)' \in SUBSET Node
         /\ Cardinality(Telling(q)) <= Cardinality(Telling(q)')
         /\ Cardinality(Telling(q)) \in Nat /\ Cardinality(Telling(q)') \in Nat
<1>1. Telling(q)' \in SUBSET Node /\ Telling(q) \in SUBSET Telling(q)'
  BY DEF Telling, MessagesOK, Message
<1> QED BY <1>1, NodesGrow, NodesFinite

LEMMA ToldStep ==
  ASSUME QueryInv, CertInv, NEW m \in pending, Deliver(m), NEW r \in Round,
         NEW msgs, Handles(m, r, msgs), NEW q \in Query
  PROVE  ToldOK(q)'
<1>1. /\ TypeOK /\ Sources /\ Single /\ ToldOK(q)
      /\ m \in sent /\ m.to \in Node /\ m.query \in Query /\ m.from \in Node
      /\ RoundAt(m).l \in Nat /\ LeaderQuorum \in Nat
  BY MessageType, RoundIs, QuorumType DEF QueryInv, CertInv, Message
<1>2. MessagesOK' /\ sent \subseteq sent'
  BY <1>1, DeliverSends
<1>3. /\ Telling(q) \in SUBSET Node
      /\ Cardinality(Telling(q)) <= Cardinality(Telling(q)')
      /\ Cardinality(Telling(q)) \in Nat /\ Cardinality(Telling(q)') \in Nat
  BY <1>1, <1>2, TellingGrows
<1>4. CASE client'[q] = client[q] /\ told'[q] = told[q]
  BY <1>1, <1>2, <1>3, <1>4 DEF ToldOK
<1>5. CASE ~(client'[q] = client[q] /\ told'[q] = told[q])
  <2>1. /\ m.xit = "l" /\ RoundAt(m).l + 1 >= LeaderQuorum /\ KeepResult(m)
        /\ client' = [client EXCEPT ![m.query] = "answered"]
        /\ told' = [told EXCEPT ![m.query] = qResult'[m.to][m.query]]
    BY <1>1, <1>5, DeliverAnswers
  <2>2. m.query = q
    BY <1>5, <2>1
  <2>3. told'[q] = {m.response}
    BY <1>1, <2>1, <2>2, KeptOne DEF QueryInv, KeptResults
  <2> DEFINE H == Heard("l", m.to, m.query)
  <2>4. H \in SUBSET Node /\ m.from \in Node \ H /\ Cardinality(H) \in Nat
    BY <1>1, <2>1, HeardStep
  <2>5. RoundAt(m).l <= Cardinality(H)
    BY <1>1 DEF CertInv, CountsOK, RoundAt
  <2>6. H \cup {m.from} \in SUBSET Telling(q)
    BY <1>1, <2>1, <2>2 DEF Heard, Handled, Telling
  <2> HIDE DEF H
  <2>7. Cardinality(H \cup {m.from}) = Cardinality(H) + 1
    BY <2>4, NodesFinite, FS_AddElement
  <2>8. Cardinality(H \cup {m.from}) <= Cardinality(Telling(q))
    BY <1>3, <2>6, NodesGrow
  <2>9. Cardinality(Telling(q)') >= LeaderQuorum
    BY <1>1, <1>3, <2>1, <2>4, <2>5, <2>7, <2>8
  <2> QED BY <1>1, <1>2, <2>2, <2>3, <2>9 DEF ToldOK
<1> QED BY <1>4, <1>5

LEMMA CertDeliver ==
  ASSUME QueryInv, CertInv, NEW m \in pending, Deliver(m)
  PROVE  CertInv'
<1>1. TypeOK /\ Sources /\ Single /\ OneProxy
  BY DEF QueryInv, CertInv
<1>2. PICK r \in Round, msgs \in SUBSET sent' : Handles(m, r, msgs)
  BY <1>1, DeliverHandles
<1>3. Sources'
  BY <1>2, SourcesStep
<1>4. Single' /\ OneProxy'
  BY <1>1, <1>2, SingleStep
<1>5. \A x \in Node, q \in Query : CountsOK(x, q)'
  BY <1>1, <1>2, CountsStep DEF CertInv
<1>6. \A q \in Query : ToldOK(q)'
  BY <1>2, ToldStep
<1> QED BY <1>3, <1>4, <1>5, <1>6 DEF CertInv
-----------------------------------------------------------------------------
(* What else may happen, as long as no node is restarted.                   *)

\* Votes may be forgotten, and first messages of a new query sent.
Aside(msgs) ==
  /\ sent' = sent \cup msgs /\ pending' = pending \cup msgs
  /\ \A v \in msgs : /\ v.xit = "i" /\ client[v.query] = "idle"
                     /\ v.from = v.proxy /\ Leads(v.to, v.query)
  /\ \A v, w \in msgs : v.proxy = w.proxy
  /\ \A x \in Node, q \in Query :
       /\ round'[x][q].state = round[x][q].state
       /\ round'[x][q].k \in {0, round[x][q].k}
       /\ round'[x][q].l \in {0, round[x][q].l}
  /\ told' = told
  /\ \A q \in Query : client'[q] = "answered" => client[q] = "answered"

LEMMA AskedIs ==
  ASSUME NEW x \in Node, NEW q \in Query, NEW v \in Asked(x, q)
  PROVE  /\ v.xit = "i" /\ v.query = q /\ v.from = x /\ v.proxy = x
         /\ Leads(v.to, q)
<1>1. PICK y \in LeadersOf(q) \ down :
        v = [xit |-> "i", query |-> q, from |-> x, to |-> y, proxy |-> x,
             epoch |-> epoch[x], response |-> ResultAt(x, q)]
  BY DEF Asked
<1> QED BY <1>1, RolesInCircuit

LEMMA OtherSteps ==
  ASSUME TypeOK, Quiet', [Next]_vars, ~\E m \in pending : Deliver(m)
  PROVE  Quiet /\ \E msgs : Aside(msgs)
<1>1. CASE /\ UNCHANGED <<round, told, sent, pending, epoch>>
           /\ \A q \in Query : client'[q] = "answered" => client[q] = "answered"
  <2>1. Aside({})
    BY <1>1 DEF Aside
  <2> QED BY <1>1, <2>1 DEF Quiet
<1>2. ASSUME NEW x \in Node, NEW q \in Query, Submit(x, q) \/ SubmitUnreached(x, q)
      PROVE  Quiet /\ Aside(Asked(x, q))
  <2>1. /\ client[q] = "idle" /\ Send(Asked(x, q))
        /\ UNCHANGED <<round, told, epoch>>
        /\ \/ client' = [client EXCEPT ![q] = "waiting"]
           \/ client' = [client EXCEPT ![q] = "refused"]
    BY <1>2 DEF Submit, SubmitUnreached, CanSubmit
  <2>2. \A p \in Query : client'[p] = "answered" => client[p] = "answered"
    BY <2>1 DEF TypeOK
  <2>3. Aside(Asked(x, q))
    BY <2>1, <2>2, AskedIs DEF Aside, Send
  <2> QED BY <2>1, <2>3 DEF Quiet
<1>3. ASSUME NEW x \in Node, NEW q \in Query, SubmitRefused(x, q)
      PROVE  Quiet /\ Aside({})
  <2>1. /\ UNCHANGED <<round, told, sent, pending, epoch>>
        /\ client' = [client EXCEPT ![q] = "refused"]
    BY <1>3 DEF SubmitRefused
  <2>2. \A p \in Query : client'[p] = "answered" => client[p] = "answered"
    BY <2>1 DEF TypeOK
  <2>3. Aside({})
    BY <2>1, <2>2 DEF Aside
  <2> QED BY <2>1, <2>3 DEF Quiet
<1>4. ASSUME NEW x \in Node, Cleanup(x) PROVE Quiet /\ Aside({})
  <2> DEFINE erased(r, ck, cl) == [r EXCEPT !.k = IF ck THEN 0 ELSE @,
                                            !.l = IF cl THEN 0 ELSE @]
  <2>1. PICK gone :
          /\ round' = [round EXCEPT ![x] = [q \in Query |->
               erased(round[x][q], <<q, "k">> \in gone, <<q, "l">> \in gone)]]
          /\ UNCHANGED <<client, told, pending, sent, epoch>>
    BY <1>4 DEF Cleanup
  <2>2. ASSUME NEW r \in Round, NEW ck \in BOOLEAN, NEW cl \in BOOLEAN
        PROVE  /\ erased(r, ck, cl).state = r.state
               /\ erased(r, ck, cl).k \in {0, r.k}
               /\ erased(r, ck, cl).l \in {0, r.l}
    BY DEF Round
  <2> HIDE DEF erased
  <2>3. ASSUME NEW y \in Node, NEW q \in Query
        PROVE  /\ round'[y][q].state = round[y][q].state
               /\ round'[y][q].k \in {0, round[y][q].k}
               /\ round'[y][q].l \in {0, round[y][q].l}
    <3>1. /\ round[y][q] \in Round
          /\ (<<q, "k">> \in gone) \in BOOLEAN /\ (<<q, "l">> \in gone) \in BOOLEAN
      BY DEF TypeOK
    <3>2. \/ round'[y][q] = round[y][q]
          \/ round'[y][q] = erased(round[y][q], <<q, "k">> \in gone,
                                                <<q, "l">> \in gone)
      BY <2>1 DEF TypeOK
    <3>3. LET e == erased(round[y][q], <<q, "k">> \in gone, <<q, "l">> \in gone)
          IN  /\ e.state = round[y][q].state
              /\ e.k \in {0, round[y][q].k} /\ e.l \in {0, round[y][q].l}
      BY <2>2, <3>1
    <3> QED BY <3>2, <3>3
  <2>4. Aside({})
    BY <2>1, <2>3 DEF Aside
  <2> QED BY <2>1, <2>4 DEF Quiet
<1>5. ASSUME NEW x \in Node, Restart(x) PROVE FALSE
  <2>1. epoch'[x] = epoch[x] + 1 /\ epoch[x] \in Nat
    BY <1>5 DEF Restart, TypeOK
  <2> QED BY <2>1 DEF Quiet
<1> QED BY <1>1, <1>2, <1>3, <1>4, <1>5 DEF Next, Save, Age, vars

LEMMA CertAside ==
  ASSUME QueryInv, QueryInv', CertInv, NEW msgs, Aside(msgs)
  PROVE  CertInv'
<1>1. /\ TypeOK /\ TypeOK' /\ OneResponse
      /\ Sources /\ Single /\ OneProxy
      /\ sent' = sent \cup msgs /\ sent \subseteq sent' /\ MessagesOK'
  BY DEF QueryInv, CertInv, Aside, TypeOK, MessagesOK
<1>2. \A v \in msgs, w \in sent : v.query # w.query
  BY <1>1 DEF Aside, OneResponse
<1>3. Handled' = Handled
  BY <1>1, <1>2 DEF Aside, Handled
<1>4. Sources'
  <2>1. ASSUME NEW v \in sent PROVE Source(v)'
    <3>1. v.from \in Node /\ v.query \in Query /\ Source(v)
      BY <1>1 DEF TypeOK, Message, Sources
    <3>2. round'[v.from][v.query].state = round[v.from][v.query].state
      BY <3>1 DEF Aside
    <3>3. v.xit = "l" => Cardinality(Confirmed(v.from, v.query, v.response)')
                           >= TwoFPlus1(Cardinality(Members(v.from, v.query)))
      <4>1. /\ Cardinality(Confirmed(v.from, v.query, v.response))
                 <= Cardinality(Confirmed(v.from, v.query, v.response)')
            /\ Cardinality(Confirmed(v.from, v.query, v.response)) \in Nat
            /\ Cardinality(Confirmed(v.from, v.query, v.response)') \in Nat
        BY <1>1, ConfirmedGrows
      <4>2. TwoFPlus1(Cardinality(Members(v.from, v.query))) \in Int
        BY NodesFinite DEF Members, TwoFPlus1
      <4> QED BY <3>1, <4>1, <4>2 DEF Source
    <3> QED BY <1>3, <3>1, <3>2, <3>3 DEF Source
  <2>2. ASSUME NEW v \in msgs PROVE Source(v)'
    BY <2>2 DEF Aside, Source
  <2> QED BY <1>1, <2>1, <2>2 DEF Sources
<1>5. Single'
  BY <1>1, <1>2 DEF Aside, Single, SameVote
<1>6. OneProxy'
  BY <1>1, <1>2 DEF Aside, OneProxy
<1>7. ASSUME NEW x \in Node, NEW q \in Query PROVE CountsOK(x, q)'
  <2>1. \A xit : Heard(xit, x, q)' = Heard(xit, x, q)
    BY <1>3 DEF Heard
  <2>2. \A xit : Cardinality(Heard(xit, x, q)) \in Nat
    <3>1. \A xit : Heard(xit, x, q) \in SUBSET Node
      BY <1>1 DEF Heard, Handled, TypeOK, Message
    <3> QED BY <3>1, NodesFinite
  <2>3. /\ round'[x][q].k \in {0, round[x][q].k}
        /\ round'[x][q].l \in {0, round[x][q].l}
        /\ CountsOK(x, q)
    BY DEF Aside, CertInv
  <2> QED BY <2>1, <2>2, <2>3 DEF CountsOK
<1>8. ASSUME NEW q \in Query PROVE ToldOK(q)'
  <2>1. /\ Cardinality(Telling(q)) <= Cardinality(Telling(q)')
        /\ Cardinality(Telling(q)) \in Nat /\ Cardinality(Telling(q)') \in Nat
        /\ LeaderQuorum \in Nat
    <3>1. Node # {} /\ 1 \in Node
      BY QueryNAssumption DEF Node
    <3> QED BY <1>1, <3>1, TellingGrows, QuorumType
  <2>2. /\ ToldOK(q) /\ told' = told
        /\ client'[q] = "answered" => client[q] = "answered"
    BY DEF Aside, CertInv
  <2> QED BY <1>1, <2>1, <2>2 DEF ToldOK
<1> QED BY <1>4, <1>5, <1>6, <1>7, <1>8 DEF CertInv

\* The invariant, which a restart may end.
QuietInv == QueryInv /\ (Quiet => CertInv)

LEMMA QuietInit == Init => QuietInv
<1> SUFFICES ASSUME Init PROVE CertInv
  BY InitInv DEF QuietInv
<1>1. sent = {} /\ \A q \in Query : client[q] = "idle"
  BY DEF Init
<1>2. ASSUME NEW x \in Node, NEW q \in Query PROVE CountsOK(x, q)
  <2>1. \A xit : Heard(xit, x, q) = {}
    BY <1>1 DEF Heard, Handled
  <2>2. round[x][q].k = 0 /\ round[x][q].l = 0
    BY DEF Init, NoRound
  <2> QED BY <2>1, <2>2, FS_EmptySet DEF CountsOK
<1> QED BY <1>1, <1>2 DEF CertInv, Sources, OneProxy, Single, ToldOK

LEMMA QuietStep == QuietInv /\ [Next]_vars => QuietInv'
<1> SUFFICES ASSUME QuietInv, [Next]_vars PROVE QuietInv'
  OBVIOUS
<1>1. QueryInv /\ QueryInv' /\ TypeOK
  BY InvStep DEF QuietInv, QueryInv
<1>2. ASSUME Quiet' PROVE CertInv'
  <2>1. CASE \E m \in pending : Deliver(m)
    <3>1. PICK m \in pending : Deliver(m)
      BY <2>1
    <3>2. Quiet
      BY <1>1, <1>2, <3>1, DeliverTells DEF Quiet
    <3> QED BY <1>1, <3>1, <3>2, CertDeliver DEF QuietInv
  <2>2. CASE ~\E m \in pending : Deliver(m)
    BY <1>1, <1>2, <2>2, OtherSteps, CertAside DEF QuietInv
  <2> QED BY <2>1, <2>2
<1> QED BY <1>1, <1>2 DEF QuietInv

-----------------------------------------------------------------------------
(* The certificate.                                                         *)

LEMMA CertificateIs ==
  ASSUME QueryInv, CertInv, NEW q \in Query, client[q] = "answered"
  PROVE  \E r \in told[q] :
           LET sure == {y \in LeadersOf(q) : Certain(y, q, Confirmed(y, q, r))}
               proxies == {m.from : m \in {v \in sent : v.xit = "i" /\ v.query = q}}
           IN  2 * Cardinality(sure \ proxies) > NumZones(N)
<1>1. TypeOK /\ OneResponse /\ Sources /\ OneProxy /\ ToldOK(q)
  BY DEF QueryInv, CertInv
<1>2. PICK m \in sent : m.query = q /\ told[q] = {m.response}
  BY <1>1 DEF ToldOK
<1> DEFINE sure == {y \in LeadersOf(q) : Certain(y, q, Confirmed(y, q, m.response))}
           proxies == {v.from : v \in {w \in sent : w.xit = "i" /\ w.query = q}}
<1>3. ASSUME NEW v \in sent, v.xit = "l", v.query = q
      PROVE  v.from \in sure \ proxies
  <2>1. v.from \in Node /\ v.response = m.response /\ Source(v)
    BY <1>1, <1>2, <1>3 DEF OneResponse, Sources, TypeOK, Message
  <2>2. v.from \in LeadersOf(q)
    BY <1>3, <2>1 DEF Source, Leads, LeadersOf
  <2>3. Certain(v.from, q, Confirmed(v.from, q, m.response))
    BY <1>3, <2>1 DEF Source, Certain, Members
  <2>4. v.from \notin proxies
    BY <1>1, <1>3, <2>1 DEF OneProxy, Sources, Source
  <2> QED BY <2>2, <2>3, <2>4
<1>4. Telling(q) \in SUBSET (sure \ proxies)
  BY <1>3 DEF Telling
<1>5. sure \ proxies \in SUBSET Node
  <2>1. 1 \in Node
    BY QueryNAssumption DEF Node
  <2> QED BY <2>1, HostsType
<1> HIDE DEF sure, proxies
<1>6. /\ Cardinality(Telling(q)) <= Cardinality(sure \ proxies)
      /\ Cardinality(Telling(q)) \in Nat /\ Cardinality(sure \ proxies) \in Nat
  <2>1. Telling(q) \in SUBSET Node
    BY <1>4, <1>5
  <2> QED BY <1>4, <1>5, <2>1, NodesGrow, NodesFinite
<1>7. Cardinality(Telling(q)) >= LeaderQuorum
  BY <1>1 DEF ToldOK
<1>8. NumZones(N) \in Nat /\ 2 * LeaderQuorum > NumZones(N)
  <2>1. NumFullZones(N) \in Nat
    BY RootExists, QueryNAssumption
  <2>2. NumZones(N) \in Nat
    BY <2>1 DEF NumZones
  <2> QED BY <2>2 DEF LeaderQuorum
<1>9. 2 * Cardinality(sure \ proxies) > NumZones(N)
  <2>1. LeaderQuorum \in Nat
    BY <1>8 DEF LeaderQuorum
  <2> QED BY <1>6, <1>7, <1>8, <2>1
<1> QED BY <1>2, <1>9 DEF sure, proxies

\* Behind every answer are more than half of the zones, none of them led by
\* the proxy, and 2f+1 of each which confirmed the very result that the client
\* was given (onRecvQueryK, onRecvQueryL), whatever is lost, reordered, saved
\* meanwhile or cleaned up, as long as no node is restarted.
THEOREM AnswersCertified == Spec => []AnsweredCertificate
<1>1. QuietInv => AnsweredCertificate
  BY CertificateIs DEF QuietInv, Quiet, AnsweredCertificate
<1> QED BY <1>1, QuietInit, QuietStep, PTL DEF Spec

-----------------------------------------------------------------------------
(* When nothing disturbs a query.  The rest of the module shows why it is   *)
(* answered then: the votes that were sent are votes that were counted.     *)

\* What every node finds.
Fresh(q) == Result(NewRecord, Ask[q])
Steady(q) == \A x \in Node : Knows(x, q) /\ ResultAt(x, q) = Fresh(q)

RecordsOf(B) == [exists : B, balance : Int, out : Int, in : Int,
                 tokens : SUBSET Token]
Record == RecordsOf(BOOLEAN)
SteadyInv ==
  /\ account \in [Node -> [User -> Record]]
  /\ \A q \in Query : Undisturbed(q) => Steady(q)

LEMMA AskIs ==
  ASSUME NEW q \in Query
  PROVE  /\ Ask[q].from \in User /\ Ask[q].token \in Token
         /\ Ask[q].fields \in SUBSET Field
BY AskAssumption

\* What an update leaves of the fields of an account; the type of "exists" does
\* not matter.
Paid(a, i, j) == [a EXCEPT !.balance = i, !.out = j]
Earned(a, i, j) == [a EXCEPT !.balance = i, !.in = j]
Given(a, T) == [a EXCEPT !.tokens = T]
Made(a, b) == [a EXCEPT !.exists = b]

LEMMA AfterUpdate ==
  ASSUME NEW B, NEW a \in RecordsOf(B), NEW i \in Int, NEW j \in Int
  PROVE  /\ LET b == Paid(a, i, j)
            IN  /\ b \in RecordsOf(B) /\ b.exists = a.exists
                /\ b.in = a.in /\ b.tokens = a.tokens
         /\ LET b == Earned(a, i, j)
            IN  /\ b \in RecordsOf(B) /\ b.exists = a.exists
                /\ b.out = a.out /\ b.tokens = a.tokens
         /\ \A T \in SUBSET Token :
              LET b == Given(a, T)
              IN  /\ b \in RecordsOf(B) /\ b.exists = a.exists
                  /\ b.balance = a.balance /\ b.out = a.out /\ b.in = a.in
                  /\ b.tokens = T
         /\ \A t \in B : Made(a, t) \in RecordsOf(B) /\ Made(a, t).exists = t
BY DEF RecordsOf, Paid, Earned, Given, Made

LEMMA RecordsAre == NoRecord \in Record /\ NewRecord \in Record /\ NewRecord.exists
<1>1. NoRecord \in Record
  BY DEF NoRecord, Record, RecordsOf
<1>2. NewRecord = Made(NoRecord, TRUE)
  BY Zenon DEF NewRecord, Made
<1>3. TRUE \in BOOLEAN /\ 0 \in Int
  OBVIOUS
<1> QED BY Zenon, <1>1, <1>2, <1>3, AfterUpdate DEF Record

LEMMA UpdatedIs ==
  ASSUME NEW a \in Record, NEW u \in Update
  PROVE  LET e == Effect[u]
             b == Updated(a, e)
         IN  /\ b \in Record /\ (a.exists => b.exists)
             /\ e.kind = "pay" => b.in = a.in /\ b.tokens = a.tokens
             /\ e.kind = "earn" => b.out = a.out /\ b.tokens = a.tokens
             /\ e.kind = "token" => /\ b.balance = a.balance /\ b.out = a.out
                                    /\ b.in = a.in
                                    /\ b.tokens = a.tokens \cup {e.token}
<1> DEFINE e == Effect[u]
<1>1. e.kind \in {"open", "pay", "earn", "token"} /\ e.token \in Token
  BY EffectAssumption DEF Kind
<1> HIDE DEF e
<1>6. /\ a.balance - 1 \in Int /\ a.out + 1 \in Int
      /\ a.balance + 1 \in Int /\ a.in + 1 \in Int
      /\ a.tokens \cup {e.token} \in SUBSET Token
  BY <1>1 DEF Record, RecordsOf
<1>7. a \in RecordsOf(BOOLEAN)
  BY DEF Record
<1> SUFFICES LET b == Updated(a, e)
             IN  /\ b \in RecordsOf(BOOLEAN) /\ (a.exists => b.exists)
                 /\ e.kind = "pay" => b.in = a.in /\ b.tokens = a.tokens
                 /\ e.kind = "earn" => b.out = a.out /\ b.tokens = a.tokens
                 /\ e.kind = "token" => /\ b.balance = a.balance /\ b.out = a.out
                                        /\ b.in = a.in
                                        /\ b.tokens = a.tokens \cup {e.token}
  BY Zenon DEF e, Record
<1>2. CASE e.kind = "open"
  <2>1. Updated(a, e) = NewRecord
    BY Zenon, <1>2 DEF Updated
  <2> QED BY Zenon, <1>2, <2>1, RecordsAre DEF Record
<1>3. CASE e.kind = "pay"
  <2>1. PICK i \in Int, j \in Int : i = a.balance - 1 /\ j = a.out + 1
    BY <1>6
  <2>2. Updated(a, e) = Paid(a, i, j)
    BY Zenon, <1>3, <2>1 DEF Updated, Paid
  <2>3. LET b == Updated(a, e)
        IN  /\ b \in RecordsOf(BOOLEAN) /\ b.exists = a.exists
            /\ b.in = a.in /\ b.tokens = a.tokens
    BY <1>7, <2>1, <2>2, AfterUpdate
  <2> QED BY Zenon, <1>3, <2>3
<1>4. CASE e.kind = "earn"
  <2>1. PICK i \in Int, j \in Int : i = a.balance + 1 /\ j = a.in + 1
    BY <1>6
  <2>2. Updated(a, e) = Earned(a, i, j)
    BY Zenon, <1>4, <2>1 DEF Updated, Earned
  <2>3. LET b == Updated(a, e)
        IN  /\ b \in RecordsOf(BOOLEAN) /\ b.exists = a.exists
            /\ b.out = a.out /\ b.tokens = a.tokens
    BY <1>7, <2>1, <2>2, AfterUpdate
  <2> QED BY Zenon, <1>4, <2>3
<1>5. CASE e.kind = "token"
  <2>1. PICK T \in SUBSET Token : T = a.tokens \cup {e.token}
    BY <1>6
  <2>2. Updated(a, e) = Given(a, T)
    BY Zenon, <1>5, <2>1 DEF Updated, Given
  <2>3. LET b == Updated(a, e)
        IN  /\ b \in RecordsOf(BOOLEAN) /\ b.exists = a.exists /\ b.tokens = T
            /\ b.balance = a.balance /\ b.out = a.out /\ b.in = a.in
    BY <1>6, <1>7, <2>1, <2>2, AfterUpdate
  <2> QED BY Zenon, <1>5, <2>1, <2>3
<1> QED BY <1>1, <1>2, <1>3, <1>4, <1>5

\* An update that does not touch what is asked for leaves every field of the
\* answer as it was.
LEMMA UntouchedField ==
  ASSUME NEW a \in Record, NEW u \in Update, NEW q \in Query, NEW f \in Ask[q].fields,
         Effect[u].user = Ask[q].from, Effect[u].kind # "open",
         ~Touches(u, Ask[q])
  PROVE  FieldOf(Updated(a, Effect[u]), Ask[q], f) = FieldOf(a, Ask[q], f)
<1> DEFINE e == Effect[u]
           ask == Ask[q]
<1>1. /\ e.kind \in {"pay", "earn", "token"} /\ e.token \in Token
      /\ f \in {"balance", "out", "in", "tokens", "token"}
  BY EffectAssumption, AskIs DEF Kind, Field
<1>2. CASE e.kind = "pay"
  <2>1. f \in {"in", "tokens", "token"}
    BY <1>1, <1>2 DEF Touches
  <2> QED BY <1>2, <2>1, UpdatedIs DEF FieldOf
<1>3. CASE e.kind = "earn"
  <2>1. f \in {"out", "tokens", "token"}
    BY <1>1, <1>3 DEF Touches
  <2> QED BY <1>3, <2>1, UpdatedIs DEF FieldOf
<1>4. CASE e.kind = "token"
  <2>1. f \in {"balance", "out", "in"} \/ (f = "token" /\ e.token # ask.token)
    BY <1>1, <1>4 DEF Touches
  <2>2. CASE f \in {"balance", "out", "in"}
    BY <1>4, <2>2, UpdatedIs DEF FieldOf
  <2>3. CASE f = "token" /\ e.token # ask.token
    <3>1. Updated(a, e).tokens = a.tokens \cup {e.token}
      BY <1>4, UpdatedIs
    <3>2. (a.tokens \cup {e.token}) \cap {ask.token} = a.tokens \cap {ask.token}
      BY <2>3
    <3> QED BY <2>3, <3>1, <3>2 DEF FieldOf
  <2> QED BY <2>1, <2>2, <2>3
<1> QED BY <1>1, <1>2, <1>3, <1>4

LEMMA SteadyInit == Init => SteadyInv
<1> SUFFICES ASSUME Init PROVE SteadyInv
  OBVIOUS
<1>1. NewRecord \in Record /\ NoRecord \in Record /\ NewRecord.exists
  BY RecordsAre
<1>2. \A x \in Node, u \in User : account[x][u] = IF u \in Opened THEN NewRecord ELSE NoRecord
  BY DEF Init
<1>3. account \in [Node -> [User -> Record]]
  BY <1>1 DEF Init
<1>4. ASSUME NEW q \in Query, Undisturbed(q) PROVE Steady(q)
  BY <1>1, <1>2, <1>4, AskIs DEF Undisturbed, Steady, Knows, ResultAt, Fresh
<1> QED BY <1>3, <1>4 DEF SteadyInv

\* Nothing that has been disturbed is undisturbed again.
LEMMA UndisturbedBefore ==
  ASSUME TypeOK, [Next]_vars, NEW q \in Query, Undisturbed(q)'
  PROVE  Undisturbed(q)
<1>1. \A x \in Node : epoch'[x] = 0 => epoch[x] = 0
  <2>1. CASE UNCHANGED epoch
    BY <2>1
  <2>2. ASSUME NEW x \in Node, Restart(x)
        PROVE  \A y \in Node : epoch'[y] = 0 => epoch[y] = 0
    BY <2>2 DEF Restart, TypeOK
  <2> QED BY <2>1, <2>2, DeliverTells
             DEF Next, Submit, SubmitUnreached, SubmitRefused, Save, Cleanup, Age, vars
<1>2. \A x \in Node : saved[x] \subseteq saved'[x]
  <2>1. CASE UNCHANGED saved
    BY <2>1
  <2>2. ASSUME NEW x \in Node, NEW u \in Update, Save(x, u)
        PROVE  \A y \in Node : saved[y] \subseteq saved'[y]
    BY <2>2 DEF Save, TypeOK
  <2> QED BY <2>1, <2>2, DeliverTells
             DEF Next, Submit, SubmitUnreached, SubmitRefused, Restart, Cleanup, Age, vars,
                 files
<1>3. age'[q] = 0 => age[q] = 0
  <2>1. CASE UNCHANGED age
    BY <2>1
  <2>2. ASSUME NEW p \in Query, Age(p) PROVE age'[q] = 0 => age[q] = 0
    BY <2>2 DEF Age, TypeOK
  <2>3. ASSUME NEW p \in Query, NEW x \in Node, SubmitRefused(x, p)
        PROVE  age'[q] = 0 => age[q] = 0
    BY <2>3 DEF SubmitRefused, TypeOK
  <2> QED BY <2>1, <2>2, <2>3, DeliverTells
             DEF Next, Submit, SubmitUnreached, Save, Restart, Cleanup, vars
<1> QED BY <1>1, <1>2, <1>3 DEF Undisturbed

\* Files change by saving only.
LEMMA OnlySaves ==
  ASSUME TypeOK, [Next]_vars
  PROVE  \/ UNCHANGED account
         \/ \E x \in Node, u \in Update : Save(x, u)
BY DeliverTells DEF Next, Submit, SubmitUnreached, SubmitRefused, Restart, Cleanup, Age,
                    vars, files

LEMMA SteadyStep ==
  ASSUME TypeOK, SteadyInv, [Next]_vars
  PROVE  SteadyInv'
<1>1. CASE UNCHANGED account
  <2>1. ASSUME NEW q \in Query, Undisturbed(q)' PROVE Steady(q)'
    <3>1. Steady(q)
      BY <2>1, UndisturbedBefore DEF SteadyInv
    <3> QED BY <1>1, <3>1 DEF Steady, Knows, ResultAt
  <2> QED BY <1>1, <2>1 DEF SteadyInv
<1>2. ASSUME NEW x \in Node, NEW u \in Update, Save(x, u) PROVE SteadyInv'
  <2> DEFINE e == Effect[u]
             a == account[x][e.user]
             b == Updated(a, e)
  <2>1. /\ account \in [Node -> [User -> Record]] /\ saved \in [Node -> SUBSET Update]
        /\ e.user \in User /\ e.kind \in Kind /\ a \in Record
    BY EffectAssumption DEF SteadyInv, TypeOK
  <2>2. account' = [account EXCEPT ![x][e.user] = b] /\ u \in saved'[x]
        /\ (e.kind = "open") # a.exists
    BY <1>2, <2>1 DEF Save
  <2>3. b \in Record /\ (a.exists => b.exists)
    BY <2>1, UpdatedIs
  <2> HIDE DEF e, a, b
  <2>4. account' \in [Node -> [User -> Record]]
    BY <2>1, <2>2, <2>3
  <2>5. ASSUME NEW q \in Query, Undisturbed(q)' PROVE Steady(q)'
    <3>1. Steady(q)
      BY <2>5, UndisturbedBefore DEF SteadyInv
    <3>2. Ask[q].from \in User /\ ~Touches(u, Ask[q])
      BY <2>2, <2>5, AskIs DEF Undisturbed
    <3>3. \A y \in Node : \/ account'[y][Ask[q].from] = account[y][Ask[q].from]
                          \/ /\ y = x /\ e.user = Ask[q].from
                             /\ account[y][Ask[q].from] = a /\ account'[y][Ask[q].from] = b
      BY <2>1, <2>2, <3>2 DEF a
    <3> SUFFICES ASSUME e.user = Ask[q].from, account[x][Ask[q].from] = a,
                        account'[x][Ask[q].from] = b
                 PROVE  Knows(x, q)' /\ ResultAt(x, q)' = ResultAt(x, q)
      BY <3>1, <3>3 DEF Steady, Knows, ResultAt
    <3>4. a.exists
      BY <3>1 DEF Steady, Knows
    <3>5. b.exists /\ e.kind # "open"
      BY <2>2, <2>3, <3>4
    <3>6. \A f \in Ask[q].fields : FieldOf(b, Ask[q], f) = FieldOf(a, Ask[q], f)
      BY <2>1, <3>2, <3>5, UntouchedField DEF b, e
    <3>7. Result(b, Ask[q]) = Result(a, Ask[q])
      BY <3>6 DEF Result
    <3> QED BY <3>5, <3>7 DEF Knows, ResultAt
  <2> QED BY <2>4, <2>5 DEF SteadyInv
<1> QED BY <1>1, <1>2, OnlySaves

-----------------------------------------------------------------------------
(* What the handling of a message of an undisturbed query amounts to.       *)

\* The handling of m is not without effect: the vote is counted, or the count
\* is over; a new state has been reached the way that calls for it, with the
\* messages it calls for.
Moves(m, r, msgs) ==
  LET was == RoundAt(m)
      mine == MyFollowers(m.to, m.query)
  IN  /\ r.state < ST_C => r.k >= was.k + One(m.xit = "k")
      /\ r.state < ST_D => r.l >= was.l + One(m.xit = "l")
      /\ was.state = ST_NULL /\ r.state # ST_NULL =>
           m.xit \in {"k", "l"} \/ mine = {} \/ msgs = Forward(m, "j", mine)
      /\ was.state < ST_C /\ r.state >= ST_C =>
           m.xit = "l" \/ mine = {} \/ msgs = Forward(m, "l", {m.proxy} \ {m.to})
      /\ was.state < ST_D /\ r.state >= ST_D => m.query \notin initer'[m.to]
      /\ m.xit = "i" => r.state # ST_NULL
      /\ m.xit = "j" => msgs = Forward(m, "k", {MyLeader(m.to, m.query)})

LEMMA DeliverMoves ==
  ASSUME TypeOK, NEW m \in pending, Deliver(m), Agrees(m)
  PROVE  \E r \in Round, msgs \in SUBSET sent' : Handles(m, r, msgs) /\ Moves(m, r, msgs)
<1> DEFINE was == RoundAt(m)
<1>1. /\ was \in Round /\ was.state \in 0..4 /\ was.k \in Nat /\ was.l \in Nat
  BY MessageType, RoundIs
<1>2. UNCHANGED round => SetRound(m, was)
  <2>1. round \in [Node -> [Query -> Round]] /\ m.to \in Node /\ m.query \in Query
    BY MessageType DEF TypeOK
  <2> QED BY <2>1 DEF SetRound, RoundAt, was
<1>3. \A msgs : Answer(m, msgs) => msgs \in SUBSET sent'
  BY DEF Answer
<1> SUFFICES \E r \in Round : \E msgs : Handles(m, r, msgs) /\ Moves(m, r, msgs)
  BY <1>3 DEF Handles
<1> HIDE DEF was
<1>4. CASE /\ UNCHANGED round /\ Answer(m, {})
           /\ \/ m.xit = "i" /\ was.state # ST_NULL
              \/ m.xit = "k" /\ was.state >= ST_C
              \/ m.xit = "l" /\ was.state >= ST_D
  <2>1. Handles(m, was, {})
    BY <1>1, <1>2, <1>4 DEF Handles, Counts, Sends, One, was
  <2>2. Moves(m, was, {})
    BY <1>1, <1>4 DEF Moves, One, was, ST_NULL, ST_C, ST_D
  <2> QED BY <1>1, <2>1, <2>2
<1>5. CASE RecvI(m)
  <2> DEFINE r == [was EXCEPT !.state = ST_B]
  <2>1. r \in Round /\ r.k = was.k /\ r.l = was.l /\ r.state = ST_B
    BY <1>1, RoundAfter DEF Round
  <2> HIDE DEF r
  <2>2. /\ Receives(m, "i") /\ was.state = ST_NULL /\ SetRound(m, r)
        /\ Answer(m, Forward(m, "j", MyFollowers(m.to, m.query)))
    BY <1>5 DEF RecvI, was, r
  <2>3. Handles(m, r, Forward(m, "j", MyFollowers(m.to, m.query)))
    BY <1>1, <2>1, <2>2 DEF Receives, Handles, Counts, Sends, Proposing, One,
       was, ST_NULL, ST_B
  <2>4. Moves(m, r, Forward(m, "j", MyFollowers(m.to, m.query)))
    BY <1>1, <2>1, <2>2 DEF Receives, Moves, One, was, ST_NULL, ST_B, ST_C, ST_D
  <2> QED BY <2>1, <2>3, <2>4
<1>6. CASE RecvIAlone(m)
  <2> DEFINE r == [was EXCEPT !.state = ST_C]
  <2>1. r \in Round /\ r.k = was.k /\ r.l = was.l /\ r.state = ST_C
    BY <1>1, RoundAfter DEF Round
  <2> HIDE DEF r
  <2>2. /\ Receives(m, "i") /\ was.state = ST_NULL /\ SetRound(m, r)
        /\ Answer(m, {}) /\ MyFollowers(m.to, m.query) = {}
    BY <1>6 DEF RecvIAlone, was, r
  <2>3. Handles(m, r, {})
    BY <1>1, <2>1, <2>2 DEF Receives, Handles, Counts, Sends, One, was, ST_NULL, ST_C
  <2>4. Moves(m, r, {})
    BY <1>1, <2>1, <2>2 DEF Receives, Moves, One, was, ST_NULL, ST_B, ST_C, ST_D
  <2> QED BY <2>1, <2>3, <2>4
<1>7. CASE RecvJ(m)
  <2>1. /\ Receives(m, "j") /\ SetRound(m, was)
        /\ Answer(m, Forward(m, "k", {MyLeader(m.to, m.query)}))
    BY <1>2, <1>7 DEF RecvJ
  <2>2. Handles(m, was, Forward(m, "k", {MyLeader(m.to, m.query)}))
    BY <1>1, <2>1 DEF Receives, Handles, Counts, Sends, Voting, One, was
  <2>3. Moves(m, was, Forward(m, "k", {MyLeader(m.to, m.query)}))
    BY <1>1, <2>1 DEF Receives, Moves, One, was, ST_NULL, ST_C, ST_D
  <2> QED BY <1>1, <2>2, <2>3
<1>8. CASE RecvK(m)
  <2> DEFINE r == [was EXCEPT !.state = ST_C, !.k = 0]
  <2>1. r \in Round /\ r.k = 0 /\ r.l = was.l /\ r.state = ST_C
    BY <1>1, RoundAfter DEF Round
  <2> HIDE DEF r
  <2>2. /\ Receives(m, "k") /\ was.state < ST_C /\ SetRound(m, r)
        /\ was.k + 1 >= ZoneQuorum(m.to, m.query)
        /\ Answer(m, Forward(m, "l", {m.proxy} \ {m.to}))
    BY <1>8 DEF RecvK, was, r
  <2>3. Handles(m, r, Forward(m, "l", {m.proxy} \ {m.to}))
    BY <1>1, <2>1, <2>2 DEF Receives, Handles, Counts, Sends, Agreeing, One, was, ST_C
  <2>4. Moves(m, r, Forward(m, "l", {m.proxy} \ {m.to}))
    BY <1>1, <2>1, <2>2 DEF Receives, Moves, One, was, ST_NULL, ST_C, ST_D
  <2> QED BY <2>1, <2>3, <2>4
<1>9. CASE RecvKCounted(m)
  <2> DEFINE r == [was EXCEPT !.k = @ + 1]
  <2>1. r \in Round /\ r.k = was.k + 1 /\ r.l = was.l /\ r.state = was.state
    BY <1>1, RoundAfter DEF Round
  <2> HIDE DEF r
  <2>2. Receives(m, "k") /\ SetRound(m, r) /\ Answer(m, {})
    BY <1>9 DEF RecvKCounted, was, r
  <2>3. Handles(m, r, {})
    BY <1>1, <2>1, <2>2 DEF Receives, Handles, Counts, Sends, One, was
  <2>4. Moves(m, r, {})
    BY <1>1, <2>1, <2>2 DEF Receives, Moves, One, was, ST_NULL, ST_C, ST_D
  <2> QED BY <2>1, <2>3, <2>4
<1>10. CASE RecvL(m)
  <2> DEFINE r == [was EXCEPT !.state = ST_D, !.l = 0]
  <2>1. r \in Round /\ r.l = 0 /\ r.k = was.k /\ r.state = ST_D
    BY <1>1, RoundAfter DEF Round
  <2> HIDE DEF r
  <2>2. /\ Receives(m, "l") /\ was.state < ST_D /\ SetRound(m, r) /\ Answer(m, {})
        /\ initer' = [initer EXCEPT ![m.to] = @ \ {m.query}]
    BY <1>10 DEF RecvL, was, r
  <2>3. Handles(m, r, {})
    BY <1>1, <2>1, <2>2 DEF Receives, Handles, Counts, Sends, One, was, ST_D
  <2>4. m.query \notin initer'[m.to]
    BY <2>2, MessageType DEF TypeOK
  <2>5. Moves(m, r, {})
    BY <1>1, <2>1, <2>2, <2>4 DEF Receives, Moves, One, was, ST_C, ST_D, ST_NULL
  <2> QED BY <2>1, <2>3, <2>5
<1>11. CASE RecvLCounted(m)
  <2> DEFINE r == [was EXCEPT !.l = @ + 1]
  <2>1. r \in Round /\ r.l = was.l + 1 /\ r.k = was.k /\ r.state = was.state
    BY <1>1, RoundAfter DEF Round
  <2> HIDE DEF r
  <2>2. Receives(m, "l") /\ SetRound(m, r) /\ Answer(m, {})
    BY <1>11 DEF RecvLCounted, was, r
  <2>3. Handles(m, r, {})
    BY <1>1, <2>1, <2>2 DEF Receives, Handles, Counts, Sends, One, was
  <2>4. Moves(m, r, {})
    BY <1>1, <2>1, <2>2 DEF Receives, Moves, One, was, ST_NULL, ST_C, ST_D
  <2> QED BY <2>1, <2>3, <2>4
<1>12. ~Reject(m)
  BY DEF Reject
<1>13. RecvILate(m) \/ RecvKIgnored(m) \/ RecvLIgnored(m) =>
         /\ UNCHANGED round /\ Answer(m, {})
         /\ \/ m.xit = "i" /\ was.state # ST_NULL
            \/ m.xit = "k" /\ was.state >= ST_C
            \/ m.xit = "l" /\ was.state >= ST_D
  BY DEF RecvILate, RecvKIgnored, RecvLIgnored, Receives, was
<1> QED BY <1>4, <1>5, <1>6, <1>7, <1>8, <1>9, <1>10, <1>11, <1>12, <1>13 DEF Deliver

-----------------------------------------------------------------------------
(* What holds of a query nothing has disturbed.                             *)

\* No message of q carries another result.
AllFresh(q) == \A v \in sent : v.query = q => v.response = Fresh(q)

\* No vote of q has been left uncounted, until the count is over.
NoneLost(x, q) ==
  /\ round[x][q].state < ST_C => round[x][q].k >= Cardinality(Heard("k", x, q))
  /\ round[x][q].state < ST_D => round[x][q].l >= Cardinality(Heard("l", x, q))

SentTo(xit, q, x, y) ==
  \E v \in sent : v.xit = xit /\ v.query = q /\ v.from = x /\ v.to = y

\* A client waits at a proxy that can be reached, has not come to its answer
\* and has asked every leader that can be reached.
Waits(x, q) ==
  q \in initer[x] =>
    /\ x \notin down /\ round[x][q].state < ST_D
    /\ \A y \in LeadersOf(q) \ down :
         \E v \in sent : v.xit = "i" /\ v.query = q /\ v.to = y /\ v.proxy = x

\* What was handled has been acted on, proxies apart: a leader that was asked
\* has asked its followers; a follower that was asked has voted; a leader with
\* enough votes has voted for its zone.
ActedOn(x, q) ==
  /\ round[x][q].state # ST_NULL => \E v \in sent : v.query = q
  /\ \A v \in Handled : v.query = q /\ v.to = x =>
       /\ v.xit = "i" => round[x][q].state # ST_NULL
       /\ v.xit = "j" /\ MyLeader(x, q) \notin down
            => SentTo("k", q, x, MyLeader(x, q))
  /\ \A v \in sent : v.query = q /\ v.proxy # x /\ MyFollowers(x, q) # {} =>
       /\ round[x][q].state # ST_NULL =>
            \A y \in MyFollowers(x, q) \ down : SentTo("j", q, x, y)
       /\ round[x][q].state >= ST_C /\ v.proxy \notin down
            => SentTo("l", q, x, v.proxy)

RestQ(q) ==
  /\ AllFresh(q)
  /\ \A x \in Node : NoneLost(x, q) /\ Waits(x, q) /\ ActedOn(x, q)

\* Nothing happens to the query q.
Still(q) ==
  /\ \A x \in Node : round'[x][q] = round[x][q]
  /\ sent \subseteq sent' /\ \A v \in sent' : v.query = q => v \in sent
  /\ \A v \in Handled' : v.query = q => v \in Handled
  /\ \A x \in Node : q \in initer'[x] => q \in initer[x]
  /\ down' = down

LEMMA HeardIn ==
  ASSUME TypeOK, NEW xit, NEW x, NEW q
  PROVE  Heard(xit, x, q) \in SUBSET Node /\ Cardinality(Heard(xit, x, q)) \in Nat
<1>1. Heard(xit, x, q) \in SUBSET Node
  BY DEF Heard, Handled, TypeOK, Message
<1> QED BY <1>1, NodesFinite

LEMMA StillKeeps ==
  ASSUME TypeOK, TypeOK', NEW q \in Query, RestQ(q), Still(q)
  PROVE  RestQ(q)'
<1>1. AllFresh(q)'
  BY DEF RestQ, AllFresh, Still
<1> SUFFICES ASSUME NEW x \in Node
             PROVE  NoneLost(x, q)' /\ Waits(x, q)' /\ ActedOn(x, q)'
  BY <1>1 DEF RestQ
<1>2. /\ NoneLost(x, q) /\ Waits(x, q) /\ ActedOn(x, q)
      /\ round'[x][q] = round[x][q]
      /\ round[x][q].k \in Nat /\ round[x][q].l \in Nat
  BY RoundIs DEF RestQ, Still, TypeOK
<1>3. NoneLost(x, q)'
  <2>1. ASSUME NEW xit \in {"k", "l"}
        PROVE  /\ Cardinality(Heard(xit, x, q)') <= Cardinality(Heard(xit, x, q))
               /\ Cardinality(Heard(xit, x, q)') \in Nat
               /\ Cardinality(Heard(xit, x, q)) \in Nat
    <3>1. Heard(xit, x, q)' \in SUBSET Heard(xit, x, q)
      BY DEF Heard, Still
    <3>2. Heard(xit, x, q) \in SUBSET Node
      BY HeardIn
    <3> QED BY <3>1, <3>2, NodesGrow, NodesFinite
  <2> QED BY <1>2, <2>1 DEF NoneLost
<1>4. Waits(x, q)'
  BY <1>2 DEF Waits, Still
<1>5. ActedOn(x, q)'
  <2>1. \A xit, y, z : SentTo(xit, q, y, z) => SentTo(xit, q, y, z)'
    BY DEF SentTo, Still
  <2> QED BY <1>2, <2>1 DEF ActedOn, Still
<1> QED BY <1>3, <1>4, <1>5

\* A client asks q of the node x.
Begins(x, q) ==
  /\ client[q] = "idle" /\ Send(Asked(x, q))
  /\ round' = round /\ down' = down
  /\ \A y \in Node : q \in initer'[y] => q \in initer[y] \/ y = x

LEMMA StillOrBegins ==
  ASSUME TypeOK, Quiet', [Next]_vars, ~\E m \in pending : Deliver(m),
         NEW q \in Query, age[q] = 0
  PROVE  Still(q) \/ \E x \in Node \ down : Begins(x, q)
<1>1. CASE /\ UNCHANGED <<sent, pending, down>>
           /\ \A x \in Node : round'[x][q] = round[x][q]
           /\ \A x \in Node : q \in initer'[x] => q \in initer[x]
  BY <1>1 DEF Still, Handled
<1>2. ASSUME NEW x \in Node, NEW p \in Query, Submit(x, p) \/ SubmitUnreached(x, p)
      PROVE  Still(q) \/ \E y \in Node \ down : Begins(y, q)
  <2>1. /\ client[p] = "idle" /\ Send(Asked(x, p)) /\ x \in Node \ down
        /\ UNCHANGED <<round, down>>
        /\ initer' = [initer EXCEPT ![x] = @ \cup {p}] \/ initer' = initer
    BY <1>2 DEF Submit, SubmitUnreached, CanSubmit
  <2>2. \A y \in Node : q \in initer'[y] => q \in initer[y] \/ (y = x /\ p = q)
    BY <2>1 DEF TypeOK
  <2>3. CASE p = q
    BY <2>1, <2>2, <2>3 DEF Begins
  <2>4. CASE p # q
    <3>1. sent' = sent \cup Asked(x, p) /\ pending' = pending \cup Asked(x, p)
      BY <2>1 DEF Send
    <3>2. \A v \in Asked(x, p) : v.query # q
      BY <2>4, AskedIs
    <3> QED BY <2>1, <2>2, <2>4, <3>1, <3>2 DEF Still, Handled
  <2> QED BY <2>3, <2>4
<1>3. ASSUME NEW x \in Node, Cleanup(x) PROVE Still(q)
  <2> DEFINE erased(r, ck, cl) == [r EXCEPT !.k = IF ck THEN 0 ELSE @,
                                            !.l = IF cl THEN 0 ELSE @]
  <2>1. PICK gone \in SUBSET OldEntries(x) :
          /\ round' = [round EXCEPT ![x] = [p \in Query |->
               erased(round[x][p], <<p, "k">> \in gone, <<p, "l">> \in gone)]]
          /\ UNCHANGED <<initer, pending, sent, down>>
    BY <1>3 DEF Cleanup
  <2>2. \A v \in OldEntries(x) : v[1] # q
    BY DEF OldEntries
  <2>3. <<q, "k">> \notin gone /\ <<q, "l">> \notin gone
    BY <2>1, <2>2
  <2>4. ASSUME NEW r \in Round, NEW ck, NEW cl, ~ck, ~cl PROVE erased(r, ck, cl) = r
    BY <2>4 DEF Round
  <2> HIDE DEF erased
  <2>5. ASSUME NEW y \in Node PROVE round'[y][q] = round[y][q]
    <3>1. round \in [Node -> [Query -> Round]]
      BY DEF TypeOK
    <3>2. CASE y # x
      BY <2>1, <3>1, <3>2
    <3>3. CASE y = x
      <4>1. round'[x][q] = erased(round[x][q], <<q, "k">> \in gone, <<q, "l">> \in gone)
        BY <2>1, <3>1
      <4>2. round[x][q] \in Round
        BY <3>1
      <4> QED BY <2>3, <2>4, <3>3, <4>1, <4>2
    <3> QED BY <3>2, <3>3
  <2> QED BY <2>1, <2>5 DEF Still, Handled
<1>4. ASSUME NEW x \in Node, Restart(x) PROVE FALSE
  <2>1. epoch'[x] = epoch[x] + 1 /\ epoch[x] \in Nat
    BY <1>4 DEF Restart, TypeOK
  <2> QED BY <2>1 DEF Quiet
<1> QED BY <1>1, <1>2, <1>3, <1>4 DEF Next, SubmitRefused, Save, Age, vars

LEMMA BeginKeeps ==
  ASSUME QueryInv, QueryInv', NEW q \in Query, RestQ(q), Steady(q),
         NEW x \in Node \ down, Begins(x, q)
  PROVE  RestQ(q)'
<1>1. /\ TypeOK /\ OneResponse /\ WaitsOnce
      /\ sent' = sent \cup Asked(x, q) /\ pending' = pending \cup Asked(x, q)
      /\ round' = round /\ down' = down
  BY DEF QueryInv, Begins, Send
<1>2. \A v \in sent : v.query # q
  BY <1>1 DEF Begins, OneResponse
<1>3. \A v \in Handled' : v.query # q
  BY <1>1, <1>2 DEF Handled
<1>4. \A v \in Asked(x, q) : v.query = q /\ v.response = Fresh(q) /\ v.proxy = x
  <2>1. ResultAt(x, q) = Fresh(q)
    BY DEF Steady
  <2> QED BY <1>1, <2>1, AskedType, AskedIs
<1>5. AllFresh(q)'
  BY <1>1, <1>2, <1>4 DEF AllFresh
<1> SUFFICES ASSUME NEW y \in Node
             PROVE  NoneLost(y, q)' /\ Waits(y, q)' /\ ActedOn(y, q)'
  BY <1>5 DEF RestQ
<1>6. round[y][q].state = ST_NULL /\ round[y][q].k \in Nat /\ round[y][q].l \in Nat
  <2>1. ActedOn(y, q) /\ round[y][q] \in Round
    BY <1>1 DEF RestQ, TypeOK
  <2>2. round[y][q].state = ST_NULL
    BY <1>2, <2>1 DEF ActedOn
  <2> QED BY <2>1, <2>2, RoundIs
<1>7. NoneLost(y, q)'
  <2>1. \A xit : Heard(xit, y, q)' = {}
    BY <1>3 DEF Heard
  <2>2. \A xit : Cardinality(Heard(xit, y, q)') = 0
    BY <2>1, FS_EmptySet
  <2> QED BY <1>1, <1>6, <2>2 DEF NoneLost
<1>8. Waits(y, q)'
  <2> SUFFICES ASSUME q \in initer'[y] PROVE Waits(y, q)'
    BY DEF Waits
  <2>1. y = x
    BY <1>1 DEF Begins, WaitsOnce
  <2>2. \A z \in LeadersOf(q) \ down : \E v \in Asked(x, q) :
          v.xit = "i" /\ v.query = q /\ v.to = z /\ v.proxy = x
    <3> TAKE z \in LeadersOf(q) \ down
    <3> DEFINE v == [xit |-> "i", query |-> q, from |-> x, to |-> z, proxy |-> x,
                     epoch |-> epoch[x], response |-> ResultAt(x, q)]
    <3>1. v \in Asked(x, q)
      BY DEF Asked
    <3>2. v.xit = "i" /\ v.query = q /\ v.to = z /\ v.proxy = x
      OBVIOUS
    <3> QED BY <3>1, <3>2
  <2> QED BY <1>1, <1>6, <2>1, <2>2 DEF Waits, ST_NULL, ST_D
<1>9. ActedOn(y, q)'
  BY <1>1, <1>3, <1>6 DEF ActedOn, ST_NULL, ST_C
<1> QED BY <1>7, <1>8, <1>9

-----------------------------------------------------------------------------
(* A message of the query is handled.                                       *)

LEMMA ForwardHas ==
  ASSUME TypeOK, NEW m \in pending, NEW xit, NEW hosts, NEW y \in hosts \ down
  PROVE  \E v \in Forward(m, xit, hosts) :
           v.xit = xit /\ v.query = m.query /\ v.from = m.to /\ v.to = y
<1> DEFINE v == [m EXCEPT !.xit = xit, !.from = m.to, !.to = y, !.epoch = epoch[m.to]]
<1>1. m \in Message(m.response)
  BY MessageType
<1>2. v.xit = xit /\ v.query = m.query /\ v.from = m.to /\ v.to = y
  BY <1>1 DEF Message
<1>3. v \in Forward(m, xit, hosts)
  BY DEF Forward, Multicast
<1> QED BY <1>2, <1>3

LEMMA DeliverAside ==
  ASSUME TypeOK, NEW m \in pending, Deliver(m)
  PROVE  /\ down' = down
         /\ \A x \in Node, q \in Query :
              /\ q \in initer'[x] => q \in initer[x]
              /\ q # m.query => round'[x][q] = round[x][q]
<1>1. down' = down
  BY DEF Deliver, Reject, RecvI, RecvIAlone, RecvILate, RecvJ, RecvK, RecvKCounted,
         RecvKIgnored, RecvL, RecvLCounted, RecvLIgnored
<1>2. \A x \in Node, q \in Query : q \in initer'[x] => q \in initer[x]
  <2>1. initer \in [Node -> SUBSET Query]
    BY DEF TypeOK
  <2> QED BY <2>1, DeliverTells
<1>3. \A x \in Node, q \in Query : q # m.query => round'[x][q] = round[x][q]
  <2>1. round \in [Node -> [Query -> Round]] /\ m.to \in Node /\ m.query \in Query
    BY MessageType DEF TypeOK
  <2>2. PICK r \in Round, msgs \in SUBSET sent' : Handles(m, r, msgs)
    BY DeliverHandles
  <2> QED BY <2>1, <2>2 DEF Handles, SetRound
<1> QED BY <1>1, <1>2, <1>3

\* A leader that is voted for has asked for votes.
LEMMA VotedForAsked ==
  ASSUME TypeOK, Sources, NEW m \in pending, m.xit = "k"
  PROVE  RoundAt(m).state # ST_NULL
<1>1. m \in sent /\ Source(m)
  BY MessageType DEF Sources
<1>2. PICK w \in Handled : w.xit = "j" /\ w.query = m.query /\ w.to = m.from
  BY <1>1 DEF Source
<1>3. Source(w) /\ w.from = m.to
  BY <1>1, <1>2 DEF Handled, Sources, Source
<1> QED BY <1>2, <1>3 DEF Source, RoundAt, ST_NULL, ST_B

LEMMA OtherDelivery ==
  ASSUME QueryInv, CertInv, NEW m \in pending, Deliver(m), NEW q \in Query, m.query # q
  PROVE  Still(q)
<1>1. TypeOK /\ Sources /\ Single
  BY DEF QueryInv, CertInv
<1>2. PICK r \in Round, msgs \in SUBSET sent' : Handles(m, r, msgs)
  BY <1>1, DeliverHandles
<1>3. Handled' = Handled \cup {m} /\ sent' = sent \cup msgs
  BY <1>1, <1>2, HandledStep
<1>4. \A v \in msgs : v.query = m.query
  BY <1>1, <1>2, NewIs
<1> QED BY <1>1, <1>3, <1>4, DeliverAside DEF Still

LEMMA NoneLostStep ==
  ASSUME TypeOK, Sources, Single, NEW m \in pending, NEW r \in Round,
         NEW msgs, Handles(m, r, msgs), Moves(m, r, msgs),
         NEW x \in Node, NEW q \in Query, NoneLost(x, q)
  PROVE  NoneLost(x, q)'
<1> DEFINE Ck == Cardinality(Heard("k", x, q))
           Cl == Cardinality(Heard("l", x, q))
           here == m.to = x /\ m.query = q
<1>1. /\ Ck \in Nat /\ Ck' = Ck + One(m.xit = "k" /\ here)
      /\ Cl \in Nat /\ Cl' = Cl + One(m.xit = "l" /\ here)
  BY HeardStep
<1>2. /\ round \in [Node -> [Query -> Round]]
      /\ m.to \in Node /\ m.query \in Query
  BY MessageType DEF TypeOK
<1>3. /\ round[x][q].k \in Nat /\ round[x][q].l \in Nat /\ round[x][q].state \in 0..4
      /\ r.k \in Nat /\ r.l \in Nat /\ r.state \in 0..4
  BY <1>2, RoundIs
<1>4. round'[x][q] = IF here THEN r ELSE round[x][q]
  BY <1>2 DEF Handles, SetRound
<1>5. /\ round[x][q].state < ST_C => round[x][q].k >= Ck
      /\ round[x][q].state < ST_D => round[x][q].l >= Cl
  BY DEF NoneLost
<1> HIDE DEF Ck, Cl
<1>6. CASE ~here
  <2>1. Ck' = Ck /\ Cl' = Cl
    BY <1>1, <1>6 DEF One
  <2> QED BY <1>4, <1>5, <1>6, <2>1 DEF NoneLost, Ck, Cl
<1>7. CASE here
  <2>1. /\ r.state < ST_C => r.k >= round[x][q].k + One(m.xit = "k")
        /\ r.state < ST_D => r.l >= round[x][q].l + One(m.xit = "l")
        /\ r.state >= round[x][q].state
    BY <1>7 DEF Handles, Counts, Moves, RoundAt
  <2>2. Ck' = Ck + One(m.xit = "k") /\ Cl' = Cl + One(m.xit = "l")
    BY <1>1, <1>7 DEF One
  <2>3. One(m.xit = "k") \in Nat /\ One(m.xit = "l") \in Nat
    BY DEF One
  <2>4. r.state < ST_C => r.k >= Ck'
    BY <1>1, <1>3, <1>5, <2>1, <2>2, <2>3 DEF ST_C
  <2>5. r.state < ST_D => r.l >= Cl'
    BY <1>1, <1>3, <1>5, <2>1, <2>2, <2>3 DEF ST_D
  <2> QED BY <1>4, <1>7, <2>4, <2>5 DEF NoneLost, Ck, Cl
<1> QED BY <1>6, <1>7

LEMMA DeliverKeeps ==
  ASSUME QueryInv, CertInv, NEW m \in pending, Deliver(m), NEW r \in Round,
         NEW msgs \in SUBSET sent', Handles(m, r, msgs), Moves(m, r, msgs),
         NEW q \in Query, m.query = q, RestQ(q)
  PROVE  RestQ(q)'
<1>1. /\ TypeOK /\ Sources /\ Single /\ OneProxy /\ Source(m)
      /\ m \in sent /\ m.to \in Node /\ down' = down
      /\ round \in [Node -> [Query -> Round]]
      /\ RoundAt(m).state \in 0..4 /\ r.state \in 0..4 /\ r.state >= RoundAt(m).state
  BY MessageType, DeliverAside, RoundIs
     DEF QueryInv, CertInv, Sources, TypeOK, Handles, Counts
<1>2. Handled' = Handled \cup {m} /\ sent' = sent \cup msgs
  BY <1>1, HandledStep
<1>3. \A v \in msgs : v.query = q /\ v.proxy = m.proxy /\ v.response = m.response
  BY <1>1, NewIs
<1>4. AllFresh(q)'
  BY <1>1, <1>2, <1>3 DEF RestQ, AllFresh
<1> SUFFICES ASSUME NEW x \in Node
             PROVE  NoneLost(x, q)' /\ Waits(x, q)' /\ ActedOn(x, q)'
  BY <1>4 DEF RestQ
<1> DEFINE here == m.to = x
           state == round[x][q].state
           after == round'[x][q].state
           mine == MyFollowers(x, q)
<1>5. NoneLost(x, q) /\ Waits(x, q) /\ ActedOn(x, q)
  BY DEF RestQ
<1>6. /\ here => round'[x][q] = r /\ RoundAt(m) = round[x][q]
      /\ ~here => round'[x][q] = round[x][q]
  BY <1>1 DEF Handles, SetRound, RoundAt
<1>7. state \in 0..4 /\ after \in 0..4 /\ after >= state /\ (after # state => here)
  BY <1>1, <1>6, RoundIs
<1>8. NoneLost(x, q)'
  BY <1>1, <1>5, NoneLostStep
<1>9. Waits(x, q)'
  <2> SUFFICES ASSUME q \in initer'[x] PROVE Waits(x, q)'
    BY DEF Waits
  <2>1. q \in initer[x]
    BY <1>1, DeliverAside
  <2>2. after < ST_D
    BY <1>5, <1>6, <1>7, <2>1 DEF Waits, Moves, ST_D
  <2> QED BY <1>1, <1>2, <1>5, <2>1, <2>2 DEF Waits
<1>10. \A xit, y, z : SentTo(xit, q, y, z) => SentTo(xit, q, y, z)'
  BY <1>2 DEF SentTo
<1>11. ASSUME NEW xit, NEW hosts, msgs = Forward(m, xit, hosts), NEW y \in hosts \ down
       PROVE  SentTo(xit, q, m.to, y)'
  <2>1. PICK v \in msgs : v.xit = xit /\ v.query = m.query /\ v.from = m.to /\ v.to = y
    BY <1>1, <1>11, ForwardHas
  <2> QED BY <1>2, <2>1 DEF SentTo
<1>12. ASSUME NEW v \in Handled', v.query = q, v.to = x
       PROVE  /\ v.xit = "i" => after # ST_NULL
              /\ v.xit = "j" /\ MyLeader(x, q) \notin down
                   => SentTo("k", q, x, MyLeader(x, q))'
  <2>1. CASE v \in Handled
    BY <1>5, <1>7, <1>10, <1>12, <2>1 DEF ActedOn, ST_NULL
  <2>2. CASE v = m
    <3>1. MyLeader(x, q) \in Node /\ here
      BY <1>12, <2>2, HostsType
    <3>2. v.xit = "i" => after # ST_NULL
      BY <1>6, <2>2, <3>1 DEF Moves
    <3>3. v.xit = "j" => msgs = Forward(m, "k", {MyLeader(x, q)})
      BY <2>2, <3>1 DEF Moves
    <3>4. v.xit = "j" /\ MyLeader(x, q) \notin down => SentTo("k", q, m.to, MyLeader(x, q))'
      BY <1>11, <3>3
    <3> QED BY <3>1, <3>2, <3>4
  <2> QED BY <1>2, <2>1, <2>2
<1>13. ASSUME NEW v \in sent', v.query = q, v.proxy # x, mine # {}
       PROVE  /\ after # ST_NULL => \A y \in mine \ down : SentTo("j", q, x, y)'
              /\ after >= ST_C /\ v.proxy \notin down => SentTo("l", q, x, v.proxy)'
  <2>1. v.proxy = m.proxy /\ m.proxy \in Node /\ mine \in SUBSET Node
    BY <1>1, <1>2, <1>3, <1>13, MessageType, HostsType DEF OneProxy
  <2>2. here => m.xit # "l" /\ (m.xit = "k" => state # ST_NULL)
    BY <1>1, <1>6, <1>13, <2>1, VotedForAsked DEF Source
  <2>3. after # ST_NULL => \A y \in mine \ down : SentTo("j", q, x, y)'
    <3>1. CASE state # ST_NULL
      BY <1>1, <1>5, <1>10, <1>13, <2>1, <3>1 DEF ActedOn
    <3>2. CASE state = ST_NULL /\ after # ST_NULL
      <4>1. here /\ RoundAt(m) = round[x][q] /\ round'[x][q] = r
        BY <1>6, <1>7, <3>2
      <4>2. msgs = Forward(m, "j", mine)
        BY <1>13, <2>2, <3>2, <4>1 DEF Moves
      <4> QED BY <1>11, <4>1, <4>2
    <3> QED BY <3>1, <3>2
  <2>4. after >= ST_C /\ v.proxy \notin down => SentTo("l", q, x, v.proxy)'
    <3>1. CASE state >= ST_C
      BY <1>1, <1>5, <1>10, <1>13, <2>1, <3>1 DEF ActedOn
    <3>2. CASE state < ST_C /\ after >= ST_C
      <4>1. here /\ RoundAt(m) = round[x][q] /\ round'[x][q] = r
        BY <1>6, <1>7, <3>2 DEF ST_C
      <4>2. msgs = Forward(m, "l", {m.proxy} \ {m.to})
        BY <1>13, <2>2, <3>2, <4>1 DEF Moves
      <4>3. v.proxy \in {m.proxy} \ {m.to}
        BY <1>13, <2>1, <4>1
      <4> QED BY <1>11, <4>1, <4>2, <4>3
    <3> QED BY <1>7, <3>1, <3>2 DEF ST_C
  <2> QED BY <2>3, <2>4
<1>14. ActedOn(x, q)'
  BY <1>1, <1>2, <1>12, <1>13 DEF ActedOn
<1> QED BY <1>8, <1>9, <1>14

RestInv == /\ QuietInv /\ SteadyInv
           /\ \A q \in Query : Undisturbed(q) => RestQ(q)

LEMMA RestInit == Init => RestInv
<1> SUFFICES ASSUME Init PROVE RestInv
  OBVIOUS
<1>1. sent = {} /\ \A x \in Node : initer[x] = {}
  BY DEF Init
<1>2. ASSUME NEW q \in Query PROVE RestQ(q)
  <2> SUFFICES ASSUME NEW x \in Node PROVE NoneLost(x, q) /\ ActedOn(x, q)
    BY <1>1 DEF RestQ, AllFresh, Waits
  <2>1. round[x][q].state = ST_NULL /\ round[x][q].k = 0 /\ round[x][q].l = 0
    BY DEF Init, NoRound
  <2>2. \A xit : Cardinality(Heard(xit, x, q)) = 0
    <3>1. \A xit : Heard(xit, x, q) = {}
      BY <1>1 DEF Heard, Handled
    <3> QED BY <3>1, FS_EmptySet
  <2> QED BY <1>1, <2>1, <2>2 DEF NoneLost, ActedOn, Handled
<1> QED BY <1>2, QuietInit, SteadyInit DEF RestInv

LEMMA RestStep == RestInv /\ [Next]_vars => RestInv'
<1> SUFFICES ASSUME RestInv, [Next]_vars PROVE RestInv'
  OBVIOUS
<1>1. QuietInv' /\ SteadyInv' /\ QueryInv /\ QueryInv' /\ TypeOK /\ TypeOK'
  BY QuietStep, SteadyStep DEF RestInv, QuietInv, QueryInv
<1>2. ASSUME NEW q \in Query, Undisturbed(q)' PROVE RestQ(q)'
  <2>1. Undisturbed(q) /\ Quiet /\ Quiet' /\ age[q] = 0
    BY <1>1, <1>2, UndisturbedBefore DEF Undisturbed, Quiet
  <2>2. CertInv /\ Steady(q) /\ RestQ(q)
    BY <2>1 DEF RestInv, QuietInv, SteadyInv
  <2>3. CASE \E m \in pending : Deliver(m)
    <3>1. PICK m \in pending : Deliver(m)
      BY <2>3
    <3>2. CASE m.query # q
      BY <1>1, <2>2, <3>1, <3>2, OtherDelivery, StillKeeps
    <3>3. CASE m.query = q
      <4>1. Agrees(m)
        BY <1>1, <2>1, <2>2, <3>3, MessageType DEF Agrees, Steady, RestQ, AllFresh
      <4>2. PICK r \in Round, msgs \in SUBSET sent' : Handles(m, r, msgs) /\ Moves(m, r, msgs)
        BY <1>1, <3>1, <4>1, DeliverMoves
      <4> QED BY <1>1, <2>2, <3>1, <3>3, <4>2, DeliverKeeps
    <3> QED BY <3>2, <3>3
  <2>4. CASE ~\E m \in pending : Deliver(m)
    BY <1>1, <2>1, <2>2, <2>4, StillOrBegins, StillKeeps, BeginKeeps
  <2> QED BY <2>3, <2>4
<1> QED BY <1>1, <1>2 DEF RestInv

\* A zone that can speak to the proxy has spoken when every message has been
\* handled, and the proxy has heard it.
LEMMA SpeakingHeard ==
  ASSUME TypeOK, Sources, pending = {}, NEW x \in Node, NEW q \in initer[x],
         RestQ(q), NEW y \in Speaking(q, x)
  PROVE  y \in Heard("l", x, q)
<1>1. q \in Query /\ y \in LeadersOf(q) \ down /\ y # x /\ y \in Node
      /\ MyFollowers(y, q) # {} /\ MyFollowers(y, q) \in SUBSET Node
      /\ Certain(y, q, MyFollowers(y, q) \ down)
  BY HostsType DEF Speaking, TypeOK
<1>2. Waits(x, q) /\ NoneLost(y, q) /\ ActedOn(y, q)
      /\ \A z \in Node : ActedOn(z, q)
  BY <1>1 DEF RestQ
<1>3. Handled = sent /\ x \notin down /\ Leads(y, q)
  BY <1>1, <1>2, RolesInCircuit DEF Handled, Waits
<1>4. PICK i \in sent : i.xit = "i" /\ i.query = q /\ i.to = y /\ i.proxy = x
  BY <1>1, <1>2 DEF Waits
<1>5. round[y][q].state # ST_NULL
  BY <1>2, <1>3, <1>4 DEF ActedOn
<1>6. ASSUME NEW z \in MyFollowers(y, q) \ down PROVE z \in Heard("k", y, q)
  <2>1. SentTo("j", q, y, z) /\ z \in Node
    BY <1>1, <1>2, <1>4, <1>5, <1>6 DEF ActedOn
  <2>2. MyLeader(z, q) = y
    BY <1>1, <1>3, RolesInCircuit
  <2>3. SentTo("k", q, z, y)
    BY <1>1, <1>2, <1>3, <2>1, <2>2 DEF ActedOn, SentTo
  <2> QED BY <1>3, <2>3 DEF SentTo, Heard
<1>7. round[y][q].state >= ST_C
  <2> DEFINE H == Heard("k", y, q)
             V == MyFollowers(y, q) \ down
  <2>1. H \in SUBSET Node /\ V \in SUBSET H
    BY <1>6, HeardIn
  <2>2. /\ Cardinality(V) <= Cardinality(H)
        /\ Cardinality(V) \in Nat /\ Cardinality(H) \in Nat
    BY <2>1, NodesGrow, NodesFinite
  <2>3. Cardinality(V) >= ZoneQuorum(y, q)
    BY <1>1, <1>3, ZoneQuorumIs DEF Certain, Members
  <2> HIDE DEF H, V
  <2>4. /\ round[y][q].k < ZoneQuorum(y, q) /\ round[y][q].k \in Nat
        /\ round[y][q].state \in 0..4 /\ ZoneQuorum(y, q) \in Nat
    BY <1>1, RoundIs, QuorumType DEF TypeOK
  <2>5. ~(round[y][q].k >= Cardinality(H))
    BY <2>2, <2>3, <2>4
  <2> QED BY <1>2, <2>4, <2>5 DEF NoneLost, H, ST_C
<1>8. SentTo("l", q, y, x)
  BY <1>1, <1>2, <1>3, <1>4, <1>7 DEF ActedOn
<1> QED BY <1>3, <1>8 DEF SentTo, Heard

LEMMA RestAnswers ==
  ASSUME TypeOK, Sources, pending = {}, NEW x \in Node, NEW q \in initer[x], RestQ(q)
  PROVE  2 * Cardinality(Speaking(q, x)) <= NumZones(N)
<1> DEFINE S == Speaking(q, x)
           H == Heard("l", x, q)
<1>1. q \in Query /\ Waits(x, q) /\ NoneLost(x, q)
  BY DEF TypeOK, RestQ
<1>2. /\ Cardinality(S) <= Cardinality(H)
      /\ Cardinality(S) \in Nat /\ Cardinality(H) \in Nat
  <2>1. H \in SUBSET Node /\ S \in SUBSET H
    BY SpeakingHeard, HeardIn
  <2> QED BY <2>1, NodesGrow, NodesFinite
<1>3. round[x][q].l < LeaderQuorum /\ round[x][q].l \in Nat
  BY <1>1, RoundIs DEF TypeOK
<1>4. round[x][q].l >= Cardinality(H)
  BY <1>1 DEF Waits, NoneLost
<1> HIDE DEF S, H
<1>5. NumZones(N) \in Nat
  <2>1. NumFullZones(N) \in Nat
    BY RootExists, QueryNAssumption
  <2> QED BY <2>1 DEF NumZones
<1>6. Cardinality(S) < NumZones(N) \div 2 + 1
  <2>1. LeaderQuorum \in Nat
    BY <1>1, QuorumType
  <2> QED BY <1>2, <1>3, <1>4, <2>1 DEF LeaderQuorum
<1>7. 2 * Cardinality(S) <= NumZones(N)
  BY <1>2, <1>5, <1>6
<1> QED BY <1>7 DEF S

\* A client is never left waiting by the order in which votes come, are counted
\* or are no longer looked at (onRecvQueryK, onRecvQueryL): if it waits when
\* every message has been handled, a node has restarted or found another
\* result meanwhile, the query has grown old, or half of the zones or more
\* cannot reach their followers or its proxy.
THEOREM AnsweredAtRest == Spec => []RestIsAnswered
<1>1. RestInv => RestIsAnswered
  <2> SUFFICES ASSUME RestInv, pending = {}, NEW x \in Node, NEW q \in initer[x],
                      Undisturbed(q)
               PROVE  2 * Cardinality(Speaking(q, x)) <= NumZones(N)
    BY DEF RestIsAnswered
  <2>1. TypeOK /\ q \in Query /\ Quiet
    BY DEF RestInv, QuietInv, QueryInv, TypeOK, Undisturbed, Quiet
  <2>2. Sources /\ RestQ(q)
    BY <2>1 DEF RestInv, QuietInv, CertInv
  <2> QED BY <2>1, <2>2, RestAnswers
<1> QED BY <1>1, RestInit, RestStep, PTL DEF Spec
=============================================================================
