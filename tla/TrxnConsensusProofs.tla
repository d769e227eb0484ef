------------------------- MODULE TrxnConsensusProofs -------------------------
(***************************************************************************)
(* Safety of the transaction protocol for every network, circuit and set of *)
(* transactions, the implementation of VoteCommit included, and what is     *)
(* true when it comes to rest.                                              *)
(***************************************************************************)
EXTENDS TrxnConsensus, BlockMgrProofs

-----------------------------------------------------------------------------
(* The circuit as the handlers see it.                                      *)

LEMMA MyPart ==
  ASSUME NEW x \in Node, NEW t \in Trxn
  PROVE  /\ MyLeader(x, t) = LeaderOf(N, Hash[t], x)
         /\ MyFollowers(x, t) = Followers(N, Hash[t], x)
         /\ MyPeers(x, t) = OtherLeaders(N, Hash[t], x)
BY DEF MyLeader, MyFollowers, MyPeers, Circuit, Part

LEMMA LeadsIsLeader ==
  ASSUME NEW x \in Node, NEW t \in Trxn
  PROVE  Leads(x, t) <=> IsLeader(N, Hash[t], x)
BY MyPart DEF Leads, IsLeader

\* The leader of a node leads.
LEMMA MyLeaderLeads ==
  ASSUME NEW x \in Node, NEW t \in Trxn
  PROVE  MyLeader(x, t) \in Node /\ Leads(MyLeader(x, t), t)
<1>1. MyLeader(x, t) \in Node
  BY MyPart, NAssumption, LeaderInZone DEF Node
<1> QED BY <1>1, MyPart, LeadsIsLeader, NAssumption, LeaderLeads DEF Node

\* The nodes a leader sends XIT_j and XIT_n to take it for their leader.
LEMMA MyFollowersFollow ==
  ASSUME NEW x \in Node, NEW t \in Trxn, NEW y \in MyFollowers(x, t)
  PROVE  /\ y \in Node
         /\ Leads(x, t) => ~Leads(y, t) /\ MyLeader(y, t) = x
<1>1. y \in Followers(N, Hash[t], x) /\ y \in Node
  BY MyPart DEF Followers, ZoneMates, Node
<1>2. ASSUME Leads(x, t) PROVE ~Leads(y, t) /\ MyLeader(y, t) = x
  <2>1. ~IsLeader(N, Hash[t], y) /\ LeaderOf(N, Hash[t], y) = x
    BY <1>1, <1>2, LeadsIsLeader, FollowersFollow, NAssumption DEF Node
  <2> QED BY <1>1, <2>1, MyPart, LeadsIsLeader
<1> QED BY <1>1, <1>2

\* The nodes XIT_l and XIT_m are sent to lead their zones.
LEMMA MyPeersLead ==
  ASSUME NEW x \in Node, NEW t \in Trxn, NEW y \in MyPeers(x, t)
  PROVE  y \in Node /\ Leads(y, t)
<1>1. y \in Node /\ IsLeader(N, Hash[t], y)
  BY MyPart, OtherLeadersLead, NAssumption DEF Node
<1> QED BY <1>1, LeadsIsLeader

LEMMA LeadersLead ==
  ASSUME NEW t \in Trxn, NEW y \in LeadersOf(t)
  PROVE  y \in Node /\ Leads(y, t)
BY MyLeaderLeads DEF LeadersOf

-----------------------------------------------------------------------------
(* Types.                                                                   *)

LEMMA MulticastType ==
  ASSUME TypeOK, NEW xit \in Xit, NEW t \in Trxn, NEW x \in Node,
         NEW fence \in Nat, NEW hosts \in SUBSET Node
  PROVE  Multicast(xit, t, x, fence, hosts) \in SUBSET Message
BY DEF Multicast, Message, TypeOK

\* What a message finds at the node it is sent to.
LEMMA MessageType ==
  ASSUME TypeOK, NEW m \in pending
  PROVE  /\ m \in Message /\ m \in sent
         /\ m.to \in Node /\ m.from \in Node /\ m.trxn \in Trxn
         /\ m.fence \in Nat /\ m.xit \in Xit
         /\ RoundAt(m) \in Round
         /\ ledger[m.to] \in Ledger
BY DEF TypeOK, Message, RoundAt

LEMMA ForwardType ==
  ASSUME TypeOK, NEW m \in pending, NEW xit \in Xit, NEW hosts \in SUBSET Node
  PROVE  Forward(m, xit, hosts) \in SUBSET Message
BY MessageType, MulticastType DEF Forward

LEMMA AnswerType ==
  ASSUME TypeOK, NEW m \in pending, NEW msgs \in SUBSET Message, Answer(m, msgs)
  PROVE  sent' \subseteq Message /\ pending' \subseteq sent'
BY DEF TypeOK, Answer

LEMMA SetRoundType ==
  ASSUME TypeOK, NEW m \in pending, NEW r \in Round, SetRound(m, r)
  PROVE  round' \in [Node -> [Trxn -> Round]]
BY MessageType DEF TypeOK, SetRound

LEMMA LedgerCheckedType ==
  ASSUME TypeOK, NEW m \in pending, LedgerChecked(m)
  PROVE  ledger' \in [Node -> Ledger]
<1>1. Checked(ledger[m.to], m.trxn) \in Ledger
  BY MessageType, CheckedType
<1> QED BY <1>1, MessageType DEF TypeOK, LedgerChecked

LEMMA SaveType ==
  ASSUME TypeOK, NEW m \in pending, Save(m)
  PROVE  ledger' \in [Node -> Ledger]
<1>1. Saved(Checked(ledger[m.to], m.trxn), m.trxn) \in Ledger
  BY MessageType, CheckedType, SavedType
<1> QED BY <1>1, MessageType DEF TypeOK, Save

\* The steps of a vote, field by field.
LEMMA StateSet ==
  ASSUME NEW r \in Round, NEW s \in State
  PROVE  /\ [r EXCEPT !.state = s] \in Round
         /\ [r EXCEPT !.state = s].state = s
         /\ [r EXCEPT !.state = s].k = r.k
         /\ [r EXCEPT !.state = s].l = r.l
         /\ [r EXCEPT !.state = s].m = r.m
BY DEF Round

LEMMA KSet ==
  ASSUME NEW r \in Round, NEW c \in Nat
  PROVE  /\ [r EXCEPT !.k = c] \in Round
         /\ [r EXCEPT !.k = c].state = r.state
         /\ [r EXCEPT !.k = c].l = r.l
         /\ [r EXCEPT !.k = c].m = r.m
BY DEF Round

LEMMA LSet ==
  ASSUME NEW r \in Round, NEW c \in Nat
  PROVE  /\ [r EXCEPT !.l = c] \in Round
         /\ [r EXCEPT !.l = c].state = r.state
         /\ [r EXCEPT !.l = c].k = r.k
         /\ [r EXCEPT !.l = c].m = r.m
BY DEF Round

LEMMA MSet ==
  ASSUME NEW r \in Round, NEW c \in Nat
  PROVE  /\ [r EXCEPT !.m = c] \in Round
         /\ [r EXCEPT !.m = c].state = r.state
         /\ [r EXCEPT !.m = c].k = r.k
         /\ [r EXCEPT !.m = c].l = r.l
BY DEF Round

\* What a vote, the quorums and the commit make of a round.
LEMMA RoundSteps ==
  ASSUME NEW r \in Round
  PROVE  /\ ZoneVoted(r) \in Round /\ ZoneVoted(r).state = ST_C
         /\ LeadersVoted(r) \in Round /\ LeadersVoted(r).state = ST_D
         /\ Final(r) \in Round /\ Final(r).state = ST_F
         /\ [r EXCEPT !.state = ST_B, !.k = @ + 1] \in Round
         /\ [r EXCEPT !.state = ST_B, !.k = @ + 1].state = ST_B
         /\ [r EXCEPT !.state = ST_F] \in Round
         /\ [r EXCEPT !.state = ST_F].state = ST_F
<1>1. /\ {ST_B, ST_C, ST_D, ST_F} \subseteq State
      /\ 0 \in Nat /\ r.k + 1 \in Nat /\ r.l + 1 \in Nat /\ r.m + 1 \in Nat
  BY DEF Round, State, ST_NULL, ST_B, ST_C, ST_D, ST_F
<1>2. ZoneVoted(r) \in Round /\ ZoneVoted(r).state = ST_C
  <2>1. PICK a \in Round : /\ a = [r EXCEPT !.state = ST_C]
                           /\ a.state = ST_C /\ a.l = r.l
    BY <1>1, StateSet
  <2>2. PICK b \in Round : b = [a EXCEPT !.k = 0] /\ b.state = ST_C /\ b.l = r.l
    <3>1. /\ [a EXCEPT !.k = 0] \in Round
          /\ [a EXCEPT !.k = 0].state = ST_C
          /\ [a EXCEPT !.k = 0].l = r.l
      BY <1>1, <2>1, KSet
    <3> QED BY <3>1
  <2>3. [b EXCEPT !.l = r.l + 1] \in Round /\ [b EXCEPT !.l = r.l + 1].state = ST_C
    BY <1>1, <2>2, LSet
  <2> QED BY <2>1, <2>2, <2>3 DEF ZoneVoted
<1>3. LeadersVoted(r) \in Round /\ LeadersVoted(r).state = ST_D
  <2>1. PICK a \in Round : /\ a = [r EXCEPT !.state = ST_D]
                           /\ a.state = ST_D /\ a.m = r.m
    BY <1>1, StateSet
  <2>2. PICK b \in Round : b = [a EXCEPT !.l = 0] /\ b.state = ST_D /\ b.m = r.m
    <3>1. /\ [a EXCEPT !.l = 0] \in Round
          /\ [a EXCEPT !.l = 0].state = ST_D
          /\ [a EXCEPT !.l = 0].m = r.m
      BY <1>1, <2>1, LSet
    <3> QED BY <3>1
  <2>3. [b EXCEPT !.m = r.m + 1] \in Round /\ [b EXCEPT !.m = r.m + 1].state = ST_D
    BY <1>1, <2>2, MSet
  <2> QED BY <2>1, <2>2, <2>3 DEF LeadersVoted
<1>4. Final(r) \in Round /\ Final(r).state = ST_F
  <2>1. PICK a \in Round : a = [r EXCEPT !.state = ST_F] /\ a.state = ST_F
    BY <1>1, StateSet
  <2>2. [a EXCEPT !.m = 0] \in Round /\ [a EXCEPT !.m = 0].state = ST_F
    BY <2>1, MSet
  <2> QED BY <2>1, <2>2 DEF Final
<1>5. /\ [r EXCEPT !.state = ST_B, !.k = @ + 1] \in Round
      /\ [r EXCEPT !.state = ST_B, !.k = @ + 1].state = ST_B
  <2>1. PICK a \in Round : /\ a = [r EXCEPT !.state = ST_B]
                           /\ a.state = ST_B /\ a.k = r.k
    BY <1>1, StateSet
  <2>2. [a EXCEPT !.k = r.k + 1] \in Round /\ [a EXCEPT !.k = r.k + 1].state = ST_B
    BY <1>1, <2>1, KSet
  <2> QED BY <2>1, <2>2
<1> QED BY <1>1, <1>2, <1>3, <1>4, <1>5, StateSet

\* Counting a vote changes no state.
LEMMA CountSteps ==
  ASSUME NEW r \in Round
  PROVE  /\ [r EXCEPT !.k = @ + 1] \in Round
         /\ [r EXCEPT !.k = @ + 1].state = r.state
         /\ [r EXCEPT !.l = @ + 1] \in Round
         /\ [r EXCEPT !.l = @ + 1].state = r.state
         /\ [r EXCEPT !.m = @ + 1] \in Round
         /\ [r EXCEPT !.m = @ + 1].state = r.state
<1>1. r.k + 1 \in Nat /\ r.l + 1 \in Nat /\ r.m + 1 \in Nat
  BY DEF Round
<1> QED BY <1>1, KSet, LSet, MSet

LEMMA InitType == Init => TypeOK
<1> SUFFICES ASSUME Init PROVE TypeOK
  OBVIOUS
<1>1. LedgerWith(Founded) \in Ledger
  BY FoundedAssumption, LedgerWithType
<1>2. NoRound \in Round
  BY DEF NoRound, Round, State, ST_NULL, ST_F
<1> QED BY <1>1, <1>2 DEF Init, TypeOK, ClientState

LEMMA HostsType ==
  ASSUME NEW x \in Node, NEW t \in Trxn
  PROVE  /\ MyFollowers(x, t) \in SUBSET Node
         /\ MyPeers(x, t) \in SUBSET Node
         /\ {MyLeader(x, t)} \in SUBSET Node
         /\ LeadersOf(t) \in SUBSET Node
BY MyFollowersFollow, MyPeersLead, MyLeaderLeads, LeadersLead

\* What the handlers of a message send.
LEMMA RelaysType ==
  ASSUME TypeOK, NEW m \in pending
  PROVE  /\ Forward(m, "j", MyFollowers(m.to, m.trxn)) \in SUBSET Message
         /\ Forward(m, "k", {MyLeader(m.to, m.trxn)}) \in SUBSET Message
         /\ Forward(m, "l", MyPeers(m.to, m.trxn)) \in SUBSET Message
         /\ Forward(m, "m", MyPeers(m.to, m.trxn)) \in SUBSET Message
         /\ Forward(m, "n", MyFollowers(m.to, m.trxn)) \in SUBSET Message
         /\ {} \in SUBSET Message
BY MessageType, HostsType, ForwardType DEF Xit

\* A handler that answers no client keeps the types if what it makes of the
\* round and of the ledger has them.
LEMMA HandledType ==
  ASSUME TypeOK, NEW m \in pending, NEW msgs \in SUBSET Message, Answer(m, msgs),
         round' \in [Node -> [Trxn -> Round]],
         ledger' \in [Node -> Ledger],
         UNCHANGED <<initer, client, epoch, old>>
  PROVE  TypeOK'
BY AnswerType DEF TypeOK

LEMMA DeliverType ==
  ASSUME TypeOK, NEW m \in pending, Deliver(m)
  PROVE  TypeOK'
<1> USE MessageType, RelaysType
<1>1. /\ round \in [Node -> [Trxn -> Round]]
      /\ ledger \in [Node -> Ledger]
      /\ RoundAt(m) \in Round
  BY DEF TypeOK
<1>2. CASE Ignore(m)
  BY <1>1, <1>2, HandledType DEF Ignore
<1>3. CASE Reject(m)
  <2>1. ledger' \in [Node -> Ledger]
    BY <1>1, <1>3, LedgerCheckedType DEF Reject
  <2> QED BY <1>1, <1>3, <2>1, HandledType DEF Reject
<1>4. CASE RecvI(m)
  <2>1. round' \in [Node -> [Trxn -> Round]]
    BY <1>1, <1>4, RoundSteps, SetRoundType DEF RecvI
  <2> QED BY <1>4, <2>1, LedgerCheckedType, HandledType DEF RecvI
<1>5. CASE RecvIAlone(m)
  <2>1. round' \in [Node -> [Trxn -> Round]]
    BY <1>1, <1>5, RoundSteps, SetRoundType DEF RecvIAlone
  <2> QED BY <1>5, <2>1, LedgerCheckedType, HandledType DEF RecvIAlone
<1>6. CASE RecvILate(m)
  BY <1>1, <1>6, LedgerCheckedType, HandledType DEF RecvILate
<1>7. CASE RecvJ(m)
  BY <1>1, <1>7, LedgerCheckedType, HandledType DEF RecvJ
<1>8. CASE RecvK(m)
  <2> DEFINE r == [RoundAt(m) EXCEPT !.k = @ + 1]
  <2>1. r \in Round /\ ZoneVoted(r) \in Round
    BY <1>1, CountSteps, RoundSteps
  <2> HIDE DEF r
  <2>2. \/ SetRound(m, r) /\ Answer(m, {})
        \/ /\ SetRound(m, ZoneVoted(r))
           /\ Answer(m, Forward(m, "l", MyPeers(m.to, m.trxn)))
    BY <1>8 DEF RecvK, r
  <2>3. ledger' \in [Node -> Ledger]
    BY <1>8, LedgerCheckedType DEF RecvK
  <2>4. round' \in [Node -> [Trxn -> Round]]
    BY <2>1, <2>2, SetRoundType
  <2> QED BY <1>8, <2>2, <2>3, <2>4, HandledType DEF RecvK
<1>9. CASE RecvKIgnored(m)
  BY <1>1, <1>9, LedgerCheckedType, HandledType DEF RecvKIgnored
<1>10. CASE RecvL(m)
  <2> DEFINE r == LeadersVoted(RoundAt(m))
             votes == Forward(m, "m", MyPeers(m.to, m.trxn))
             finals == Forward(m, "n", MyFollowers(m.to, m.trxn))
  <2>1. r \in Round /\ Final(r) \in Round
    BY <1>1, RoundSteps
  <2>2. votes \in SUBSET Message /\ votes \cup finals \in SUBSET Message
    OBVIOUS
  <2> HIDE DEF r, votes, finals
  <2>3. \/ SetRound(m, r) /\ Answer(m, votes) /\ LedgerChecked(m)
        \/ SetRound(m, Final(r)) /\ Answer(m, votes \cup finals) /\ Save(m)
    BY <1>10 DEF RecvL, r, votes, finals
  <2>4. round' \in [Node -> [Trxn -> Round]] /\ ledger' \in [Node -> Ledger]
    BY <2>1, <2>3, SetRoundType, LedgerCheckedType, SaveType
  <2> QED BY <1>10, <2>2, <2>3, <2>4, HandledType DEF RecvL
<1>11. CASE RecvLCounted(m)
  <2>1. round' \in [Node -> [Trxn -> Round]]
    BY <1>1, <1>11, CountSteps, SetRoundType DEF RecvLCounted
  <2> QED BY <1>11, <2>1, LedgerCheckedType, HandledType DEF RecvLCounted
<1>12. CASE RecvLIgnored(m)
  BY <1>1, <1>12, LedgerCheckedType, HandledType DEF RecvLIgnored
<1>13. CASE RecvM(m)
  <2>1. round' \in [Node -> [Trxn -> Round]]
    BY <1>1, <1>13, RoundSteps, SetRoundType DEF RecvM
  <2> QED BY <1>13, <2>1, SaveType, HandledType DEF RecvM
<1>14. CASE RecvMCounted(m)
  <2>1. round' \in [Node -> [Trxn -> Round]]
    BY <1>1, <1>14, CountSteps, SetRoundType DEF RecvMCounted
  <2> QED BY <1>14, <2>1, LedgerCheckedType, HandledType DEF RecvMCounted
<1>15. CASE RecvN(m)
  <2>1. round' \in [Node -> [Trxn -> Round]] /\ ledger' \in [Node -> Ledger]
    BY <1>1, <1>15, RoundSteps, SetRoundType, SaveType DEF RecvN
  <2>2. client' \in [Trxn -> ClientState]
    BY <1>15 DEF TypeOK, RecvN, Told, ClientState
  <2>3. initer' \in [Node -> SUBSET Trxn]
    BY <1>15 DEF TypeOK, RecvN
  <2>4. sent' \subseteq Message /\ pending' \subseteq sent'
    BY <1>15, AnswerType DEF RecvN
  <2> QED BY <1>15, <2>1, <2>2, <2>3, <2>4 DEF TypeOK, RecvN
<1> QED
  BY <1>2, <1>3, <1>4, <1>5, <1>6, <1>7, <1>8, <1>9, <1>10, <1>11, <1>12, <1>13,
     <1>14, <1>15 DEF Deliver

LEMMA SubmitType ==
  ASSUME TypeOK, NEW t \in Trxn, NEW x \in Node,
         Submit(x, t) \/ SubmitRefused(x, t)
  PROVE  TypeOK'
<1>1. ledger[x] \in Ledger /\ Checked(ledger[x], t) \in Ledger
  BY CheckedType DEF TypeOK
<1>2. CASE Submit(x, t)
  <2>1. FenceFor(x, t) \in Nat
    BY <1>1, RequestType DEF FenceFor, Fence, Ledger, Account
  <2>2. Multicast("i", t, x, FenceFor(x, t), LeadersOf(t)) \in SUBSET Message
    BY <2>1, HostsType, MulticastType DEF Xit
  <2>3. sent' \subseteq Message /\ pending' \subseteq sent'
    BY <1>2, <2>2 DEF Submit, Send, TypeOK
  <2> QED BY <1>1, <1>2, <2>3 DEF Submit, TypeOK, ClientState
<1>3. CASE SubmitRefused(x, t)
  BY <1>1, <1>3 DEF SubmitRefused, TypeOK, ClientState
<1> QED BY <1>2, <1>3

LEMMA RestartType ==
  ASSUME TypeOK, NEW x \in Node, Restart(x)
  PROVE  TypeOK'
<1>1. NoRound \in Round
  BY DEF NoRound, Round, State, ST_NULL, ST_F
<1> QED BY <1>1 DEF Restart, TypeOK, ClientState

\* Erasing votes leaves every state as it is.
LEMMA CleanupRounds ==
  ASSUME TypeOK, NEW x \in Node, Cleanup(x)
  PROVE  /\ round' \in [Node -> [Trxn -> Round]]
         /\ \A y \in Node, t \in Trxn : round'[y][t].state = round[y][t].state
<1> DEFINE erased(r, ck, cl, cm) ==
      [r EXCEPT !.k = IF ck THEN 0 ELSE @,
                !.l = IF cl THEN 0 ELSE @,
                !.m = IF cm THEN 0 ELSE @]
<1>1. ASSUME NEW r \in Round, NEW ck \in BOOLEAN, NEW cl \in BOOLEAN,
             NEW cm \in BOOLEAN
      PROVE  /\ erased(r, ck, cl, cm) \in Round
             /\ erased(r, ck, cl, cm).state = r.state
  <2>1. PICK vk \in Nat : vk = IF ck THEN 0 ELSE r.k
    BY DEF Round
  <2>2. PICK vl \in Nat : vl = IF cl THEN 0 ELSE r.l
    BY DEF Round
  <2>3. PICK vm \in Nat : vm = IF cm THEN 0 ELSE r.m
    BY DEF Round
  <2>4. PICK a \in Round : /\ a = [r EXCEPT !.k = vk] /\ a.state = r.state
                           /\ a.l = r.l /\ a.m = r.m
    BY KSet
  <2>5. PICK b \in Round : /\ b = [a EXCEPT !.l = vl] /\ b.state = r.state
                           /\ b.m = r.m
    <3>1. /\ [a EXCEPT !.l = vl] \in Round
          /\ [a EXCEPT !.l = vl].state = r.state
          /\ [a EXCEPT !.l = vl].m = r.m
      BY <2>4, LSet
    <3> QED BY <3>1
  <2>6. [b EXCEPT !.m = vm] \in Round /\ [b EXCEPT !.m = vm].state = r.state
    BY <2>5, MSet
  <2> QED BY <2>1, <2>2, <2>3, <2>4, <2>5, <2>6
<1> HIDE DEF erased
<1>2. PICK gone : round' = [round EXCEPT ![x] = [t \in Trxn |->
                    erased(round[x][t], <<t, "k">> \in gone,
                           <<t, "l">> \in gone, <<t, "m">> \in gone)]]
  BY DEF Cleanup, erased
<1>3. round \in [Node -> [Trxn -> Round]]
  BY DEF TypeOK
<1>4. \A t \in Trxn :
        LET e == erased(round[x][t], <<t, "k">> \in gone,
                        <<t, "l">> \in gone, <<t, "m">> \in gone)
        IN  e \in Round /\ e.state = round[x][t].state
  <2> TAKE t \in Trxn
  <2>1. /\ round[x][t] \in Round
        /\ (<<t, "k">> \in gone) \in BOOLEAN
        /\ (<<t, "l">> \in gone) \in BOOLEAN
        /\ (<<t, "m">> \in gone) \in BOOLEAN
    BY <1>3
  <2> QED BY <1>1, <2>1
<1> QED BY <1>2, <1>3, <1>4

LEMMA TypeStep == TypeOK /\ [Next]_vars => TypeOK'
<1> SUFFICES ASSUME TypeOK, [Next]_vars PROVE TypeOK'
  OBVIOUS
<1>1. ASSUME NEW t \in Trxn, NEW x \in Node, Submit(x, t) \/ SubmitRefused(x, t)
      PROVE  TypeOK'
  BY <1>1, SubmitType
<1>2. ASSUME NEW m \in pending, Deliver(m) PROVE TypeOK'
  BY <1>2, DeliverType
<1>3. ASSUME NEW x \in Node, Restart(x) PROVE TypeOK'
  BY <1>3, RestartType
<1>4. ASSUME NEW x \in Node, Cleanup(x) PROVE TypeOK'
  BY <1>4, CleanupRounds DEF Cleanup, TypeOK
<1>5. ASSUME NEW t \in Trxn, Expire(t) PROVE TypeOK'
  BY <1>5 DEF Expire, TypeOK
<1>6. CASE UNCHANGED vars
  BY <1>6 DEF vars, TypeOK
<1> QED BY <1>1, <1>2, <1>3, <1>4, <1>5, <1>6 DEF Next

\* Every variable keeps its type, whatever the network, the circuit and the
\* transactions are: counters are natural numbers, a node's files a ledger.
THEOREM TypeCorrect == Spec => []TypeOK
<1>1. Init => TypeOK
  BY InitType
<1>2. TypeOK /\ [Next]_vars => TypeOK'
  BY TypeStep
<1> QED BY <1>1, <1>2, PTL DEF Spec

-----------------------------------------------------------------------------
(* Messages reach nodes in the right role.                                  *)

\* What each kind of multicast is for, if the sender has the role for it.
LEMMA MulticastRoles ==
  ASSUME NEW t \in Trxn, NEW x \in Node, NEW fence
  PROVE  /\ \A v \in Multicast("i", t, x, fence, LeadersOf(t)) : InRole(v)
         /\ \A v \in Multicast("k", t, x, fence, {MyLeader(x, t)}) : InRole(v)
         /\ \A v \in Multicast("l", t, x, fence, MyPeers(x, t)) : InRole(v)
         /\ \A v \in Multicast("m", t, x, fence, MyPeers(x, t)) : InRole(v)
         /\ Leads(x, t) =>
              /\ \A v \in Multicast("j", t, x, fence, MyFollowers(x, t)) : InRole(v)
              /\ \A v \in Multicast("n", t, x, fence, MyFollowers(x, t)) : InRole(v)
<1>1. \A v \in Multicast("i", t, x, fence, LeadersOf(t)) : InRole(v)
  BY LeadersLead DEF Multicast, InRole
<1>2. \A v \in Multicast("k", t, x, fence, {MyLeader(x, t)}) : InRole(v)
  BY MyLeaderLeads DEF Multicast, InRole
<1>3. \A v \in Multicast("l", t, x, fence, MyPeers(x, t)) : InRole(v)
  BY MyPeersLead DEF Multicast, InRole
<1>4. \A v \in Multicast("m", t, x, fence, MyPeers(x, t)) : InRole(v)
  BY MyPeersLead DEF Multicast, InRole
<1>5. ASSUME Leads(x, t)
      PROVE  /\ \A v \in Multicast("j", t, x, fence, MyFollowers(x, t)) : InRole(v)
             /\ \A v \in Multicast("n", t, x, fence, MyFollowers(x, t)) : InRole(v)
  BY <1>5, MyFollowersFollow DEF Multicast, InRole
<1> QED BY <1>1, <1>2, <1>3, <1>4, <1>5

\* A handler run by a message in role sends messages in role.
LEMMA DeliverRoles ==
  ASSUME TypeOK, RolesOK, NEW m \in pending, Deliver(m)
  PROVE  RolesOK'
<1> DEFINE F(xit, hosts) == Forward(m, xit, hosts)
<1>1. /\ m.to \in Node /\ m.trxn \in Trxn /\ InRole(m)
      /\ m.xit \in {"i", "l", "m"} => Leads(m.to, m.trxn)
  BY MessageType DEF RolesOK, InRole
<1>2. /\ \A v \in F("k", {MyLeader(m.to, m.trxn)}) : InRole(v)
      /\ \A v \in F("l", MyPeers(m.to, m.trxn)) : InRole(v)
      /\ \A v \in F("m", MyPeers(m.to, m.trxn)) : InRole(v)
      /\ m.xit \in {"i", "l", "m"} =>
           /\ \A v \in F("j", MyFollowers(m.to, m.trxn)) : InRole(v)
           /\ \A v \in F("n", MyFollowers(m.to, m.trxn)) : InRole(v)
  BY <1>1, MulticastRoles DEF Forward
<1>3. ASSUME NEW msgs, Answer(m, msgs), \A v \in msgs : InRole(v)
      PROVE  RolesOK'
  BY <1>3 DEF RolesOK, Answer
<1> HIDE DEF F
<1>4. PICK msgs : /\ Answer(m, msgs)
                  /\ \/ msgs = {}
                     \/ msgs = F("k", {MyLeader(m.to, m.trxn)})
                     \/ msgs = F("l", MyPeers(m.to, m.trxn))
                     \/ msgs = F("m", MyPeers(m.to, m.trxn))
                     \/ /\ m.xit \in {"i", "l", "m"}
                        /\ \/ msgs = F("j", MyFollowers(m.to, m.trxn))
                           \/ msgs = F("n", MyFollowers(m.to, m.trxn))
                           \/ msgs = F("m", MyPeers(m.to, m.trxn))
                                      \cup F("n", MyFollowers(m.to, m.trxn))
  <2>1. CASE Ignore(m) \/ Reject(m)
    BY <2>1 DEF Ignore, Reject
  <2>2. CASE RecvI(m) \/ RecvIAlone(m) \/ RecvILate(m)
    BY <2>2 DEF RecvI, RecvIAlone, RecvILate, Receives, F
  <2>3. CASE RecvJ(m)
    BY <2>3 DEF RecvJ, F
  <2>4. CASE RecvK(m) \/ RecvKIgnored(m)
    BY <2>4 DEF RecvK, RecvKIgnored, F
  <2>5. CASE RecvL(m) \/ RecvLCounted(m) \/ RecvLIgnored(m)
    BY <2>5 DEF RecvL, RecvLCounted, RecvLIgnored, Receives, F
  <2>6. CASE RecvM(m) \/ RecvMCounted(m)
    BY <2>6 DEF RecvM, RecvMCounted, Receives, F
  <2>7. CASE RecvN(m)
    BY <2>7 DEF RecvN
  <2> QED BY <2>1, <2>2, <2>3, <2>4, <2>5, <2>6, <2>7 DEF Deliver
<1>5. \A v \in msgs : InRole(v)
  BY <1>2, <1>4
<1> QED BY <1>3, <1>4, <1>5

LEMMA RolesStep == TypeOK /\ RolesOK /\ [Next]_vars => RolesOK'
<1> SUFFICES ASSUME TypeOK, RolesOK, [Next]_vars PROVE RolesOK'
  OBVIOUS
<1>1. ASSUME NEW t \in Trxn, NEW x \in Node, Submit(x, t) PROVE RolesOK'
  BY <1>1, MulticastRoles DEF Submit, Send, RolesOK
<1>2. ASSUME NEW m \in pending, Deliver(m) PROVE RolesOK'
  BY <1>2, DeliverRoles
<1>3. CASE UNCHANGED sent
  BY <1>3 DEF RolesOK
<1>4. ASSUME NEW t \in Trxn, NEW x \in Node, SubmitRefused(x, t)
      PROVE  UNCHANGED sent
  BY <1>4 DEF SubmitRefused
<1>5. ASSUME NEW x \in Node, Restart(x) \/ Cleanup(x) PROVE UNCHANGED sent
  BY <1>5 DEF Restart, Cleanup
<1>6. ASSUME NEW t \in Trxn, Expire(t) PROVE UNCHANGED sent
  BY <1>6 DEF Expire
<1>7. CASE UNCHANGED vars
  BY <1>3, <1>7 DEF vars
<1> QED BY <1>1, <1>2, <1>3, <1>4, <1>5, <1>6, <1>7 DEF Next

\* The handlers may rely on the role the message implies: in no network, with
\* no hash and no order of delivery does a vote reach a node that does not
\* lead, or a proposal or a commit a node that leads.
THEOREM RolesCorrect == Spec => []RolesOK
<1>1. Init => TypeOK /\ RolesOK
  BY InitType DEF Init, RolesOK
<1>2. TypeOK /\ RolesOK /\ [Next]_vars => (TypeOK /\ RolesOK)'
  BY TypeStep, RolesStep
<1> QED BY <1>1, <1>2, PTL DEF Spec

-----------------------------------------------------------------------------
(* What a delivery does to the state of its transaction and to the ledger.  *)

\* The round of the transaction only goes forward, and the transaction is
\* saved on the way into the last state and only there.
LEMMA DeliverRound ==
  ASSUME TypeOK, NEW m \in pending, Deliver(m)
  PROVE  \/ UNCHANGED round /\ (UNCHANGED ledger \/ LedgerChecked(m))
         \/ \E r \in Round :
              /\ SetRound(m, r) /\ r.state >= RoundAt(m).state
              /\ \/ /\ LedgerChecked(m)
                    /\ r.state = ST_F => RoundAt(m).state = ST_F
                 \/ Save(m) /\ r.state = ST_F /\ RoundAt(m).state < ST_F
<1> DEFINE Result == \E r \in Round :
              /\ SetRound(m, r) /\ r.state >= RoundAt(m).state
              /\ \/ /\ LedgerChecked(m)
                    /\ r.state = ST_F => RoundAt(m).state = ST_F
                 \/ Save(m) /\ r.state = ST_F /\ RoundAt(m).state < ST_F
<1>1. RoundAt(m) \in Round /\ RoundAt(m).state \in 0..6
  BY MessageType DEF Round, State, ST_NULL, ST_F
<1>2. ASSUME NEW r \in Round, SetRound(m, r), r.state >= RoundAt(m).state,
             LedgerChecked(m), r.state \in {RoundAt(m).state, ST_B, ST_C, ST_D}
      PROVE  Result
  <2>1. r.state = ST_F => RoundAt(m).state = ST_F
    BY <1>2 DEF ST_B, ST_C, ST_D, ST_F
  <2> QED BY <1>2, <2>1
<1>3. ASSUME NEW r \in Round, SetRound(m, r), r.state = ST_F, Save(m), ~IsLate(m)
      PROVE  Result
  <2>1. r.state >= RoundAt(m).state /\ RoundAt(m).state < ST_F
    BY <1>1, <1>3 DEF IsLate, ST_F
  <2> QED BY <1>3, <2>1
<1> HIDE DEF Result
<1>4. CASE Ignore(m) \/ Reject(m)
  BY <1>4 DEF Ignore, Reject
<1>5. CASE RecvILate(m) \/ RecvJ(m) \/ RecvKIgnored(m) \/ RecvLIgnored(m)
  BY <1>5 DEF RecvILate, RecvJ, RecvKIgnored, RecvLIgnored
<1>6. CASE RecvI(m)
  <2>1. PICK r \in Round : /\ r = [RoundAt(m) EXCEPT !.state = ST_B, !.k = @ + 1]
                           /\ r.state = ST_B
    BY <1>1, RoundSteps
  <2>2. SetRound(m, r) /\ LedgerChecked(m) /\ RoundAt(m).state = ST_NULL
    BY <1>6, <2>1 DEF RecvI, ToAGood
  <2>3. r.state >= RoundAt(m).state
    BY <2>1, <2>2 DEF ST_NULL, ST_B
  <2> QED BY <1>2, <2>1, <2>2, <2>3 DEF Result
<1>7. CASE RecvIAlone(m)
  <2>1. PICK r \in Round : r = ZoneVoted(RoundAt(m)) /\ r.state = ST_C
    BY <1>1, RoundSteps
  <2>2. SetRound(m, r) /\ LedgerChecked(m) /\ RoundAt(m).state = ST_NULL
    BY <1>7, <2>1 DEF RecvIAlone, ToAGood
  <2>3. r.state >= RoundAt(m).state
    BY <2>1, <2>2 DEF ST_NULL, ST_C
  <2> QED BY <1>2, <2>1, <2>2, <2>3 DEF Result
<1>8. CASE RecvK(m)
  <2>1. PICK r \in Round : /\ r = [RoundAt(m) EXCEPT !.k = @ + 1]
                           /\ r.state = RoundAt(m).state
    <3>1. /\ [RoundAt(m) EXCEPT !.k = @ + 1] \in Round
          /\ [RoundAt(m) EXCEPT !.k = @ + 1].state = RoundAt(m).state
      BY <1>1, CountSteps
    <3> QED BY <3>1
  <2>2. PICK v \in Round : v = ZoneVoted(r) /\ v.state = ST_C
    BY <2>1, RoundSteps
  <2>3. LedgerChecked(m) /\ (SetRound(m, r) \/ SetRound(m, v))
    BY <1>8, <2>1, <2>2 DEF RecvK
  <2>4. r.state >= RoundAt(m).state /\ v.state >= RoundAt(m).state
    BY <1>1, <1>8, <2>1, <2>2 DEF RecvK, ST_C
  <2> QED BY <1>2, <2>1, <2>2, <2>3, <2>4 DEF Result
<1>9. CASE RecvLCounted(m)
  <2>1. PICK r \in Round : /\ r = [RoundAt(m) EXCEPT !.l = @ + 1]
                           /\ r.state = RoundAt(m).state
    <3>1. /\ [RoundAt(m) EXCEPT !.l = @ + 1] \in Round
          /\ [RoundAt(m) EXCEPT !.l = @ + 1].state = RoundAt(m).state
      BY <1>1, CountSteps
    <3> QED BY <3>1
  <2>2. SetRound(m, r) /\ LedgerChecked(m)
    BY <1>9, <2>1 DEF RecvLCounted
  <2>3. r.state >= RoundAt(m).state
    BY <1>1, <2>1
  <2> QED BY <1>2, <2>1, <2>2, <2>3 DEF Result
<1>10. CASE RecvMCounted(m)
  <2>1. PICK r \in Round : /\ r = [RoundAt(m) EXCEPT !.m = @ + 1]
                           /\ r.state = RoundAt(m).state
    <3>1. /\ [RoundAt(m) EXCEPT !.m = @ + 1] \in Round
          /\ [RoundAt(m) EXCEPT !.m = @ + 1].state = RoundAt(m).state
      BY <1>1, CountSteps
    <3> QED BY <3>1
  <2>2. SetRound(m, r) /\ LedgerChecked(m)
    BY <1>10, <2>1 DEF RecvMCounted
  <2>3. r.state >= RoundAt(m).state
    BY <1>1, <2>1
  <2> QED BY <1>2, <2>1, <2>2, <2>3 DEF Result
<1>11. CASE RecvL(m)
  <2>1. PICK r \in Round : r = LeadersVoted(RoundAt(m)) /\ r.state = ST_D
    BY <1>1, RoundSteps
  <2>2. PICK f \in Round : f = Final(r) /\ f.state = ST_F
    BY <2>1, RoundSteps
  <2>3. /\ \/ SetRound(m, r) /\ LedgerChecked(m)
           \/ SetRound(m, f) /\ Save(m)
        /\ ~IsLate(m)
    BY <1>11, <2>1, <2>2 DEF RecvL, Receives
  <2>4. r.state >= RoundAt(m).state
    BY <1>1, <1>11, <2>1 DEF RecvL, ST_D
  <2> QED BY <1>2, <1>3, <2>1, <2>2, <2>3, <2>4 DEF Result
<1>12. CASE RecvM(m)
  <2>1. PICK f \in Round : f = Final(RoundAt(m)) /\ f.state = ST_F
    BY <1>1, RoundSteps
  <2>2. SetRound(m, f) /\ Save(m) /\ ~IsLate(m)
    BY <1>12, <2>1 DEF RecvM, Receives
  <2> QED BY <1>3, <2>1, <2>2 DEF Result
<1>13. CASE RecvN(m)
  <2>1. PICK f \in Round : /\ f = [RoundAt(m) EXCEPT !.state = ST_F]
                           /\ f.state = ST_F
    BY <1>1, RoundSteps
  <2>2. SetRound(m, f) /\ Save(m) /\ ~IsLate(m)
    BY <1>13, <2>1 DEF RecvN, Receives
  <2> QED BY <1>3, <2>1, <2>2 DEF Result
<1> QED
  BY <1>4, <1>5, <1>6, <1>7, <1>8, <1>9, <1>10, <1>11, <1>12, <1>13
  DEF Deliver, Result

\* The states of a transaction at a node that keeps running.
LEMMA MonotoneStep ==
  ASSUME TypeOK, [Next]_vars, NEW x \in Node, NEW t \in Trxn
  PROVE  \/ round'[x][t].state >= round[x][t].state
         \/ epoch'[x] # epoch[x]
<1>1. round[x][t].state \in Nat /\ epoch[x] \in Nat
  <2>1. round[x][t] \in Round /\ epoch[x] \in Nat
    BY DEF TypeOK
  <2> QED BY <2>1 DEF Round, State, ST_NULL, ST_F
<1>2. CASE UNCHANGED round
  BY <1>1, <1>2
<1>3. ASSUME NEW m \in pending, Deliver(m), ~UNCHANGED round
      PROVE  round'[x][t].state >= round[x][t].state
  <2>1. PICK r \in Round : SetRound(m, r) /\ r.state >= RoundAt(m).state
    BY <1>3, DeliverRound
  <2> QED BY <1>1, <2>1, MessageType DEF SetRound, RoundAt, TypeOK
<1>4. ASSUME NEW y \in Node, Restart(y)
      PROVE  \/ round'[x][t].state >= round[x][t].state
             \/ epoch'[x] # epoch[x]
  <2>1. CASE x = y
    BY <1>1, <1>4, <2>1 DEF Restart, TypeOK
  <2>2. CASE x # y
    BY <1>1, <1>4, <2>2 DEF Restart, TypeOK
  <2> QED BY <2>1, <2>2
<1>5. ASSUME NEW y \in Node, Cleanup(y)
      PROVE  round'[x][t].state >= round[x][t].state
  BY <1>1, <1>5, CleanupRounds
<1>6. ASSUME NEW s \in Trxn, Expire(s) PROVE UNCHANGED round
  BY <1>6 DEF Expire
<1>7. ASSUME NEW s \in Trxn, NEW y \in Node, Submit(y, s) \/ SubmitRefused(y, s)
      PROVE  UNCHANGED round
  BY <1>7 DEF Submit, SubmitRefused
<1>8. CASE UNCHANGED vars
  BY <1>2, <1>8 DEF vars
<1> QED BY <1>2, <1>3, <1>4, <1>5, <1>6, <1>7, <1>8 DEF Next

\* Whatever order the votes of any number of nodes arrive in, no handler takes
\* a transaction back to an earlier state; only a restart of the node does.
THEOREM StatesGoForward == Spec => StateMonotone
<1> DEFINE Forward1 == \A x \in Node, t \in Trxn :
             \/ round'[x][t].state >= round[x][t].state
             \/ epoch'[x] # epoch[x]
<1>1. TypeOK /\ [Next]_vars => [Forward1]_vars
  BY MonotoneStep
<1> QED BY <1>1, TypeCorrect, PTL DEF Spec, StateMonotone

-----------------------------------------------------------------------------
(* No transaction is applied twice by one process of a node.                *)

\* Each process of a node saves a transaction once: before the last state of a
\* transaction there are at most as many records as there were processes
\* before this one.  This is why one comparison of states in validateTrxn
\* keeps commits that arrive late or twice from being applied again.
RecordsPerEpoch(x) ==
  \A t \in Trxn :
    /\ ledger[x].debit[t] <= epoch[x] + 1 /\ ledger[x].credit[t] <= epoch[x] + 1
    /\ round[x][t].state < ST_F =>
         ledger[x].debit[t] <= epoch[x] /\ ledger[x].credit[t] <= epoch[x]

\* What a delivery leaves alone.
LEMMA DeliverElsewhere ==
  ASSUME TypeOK, NEW m \in pending, Deliver(m), NEW x \in Node, x # m.to
  PROVE  round'[x] = round[x] /\ ledger'[x] = ledger[x]
<1>1. \/ UNCHANGED ledger \/ LedgerChecked(m) \/ Save(m)
  BY DeliverRound
<1>2. ledger'[x] = ledger[x]
  BY <1>1 DEF LedgerChecked, Save, TypeOK
<1>3. UNCHANGED round \/ \E r \in Round : SetRound(m, r)
  BY DeliverRound
<1>4. round'[x] = round[x]
  BY <1>3 DEF SetRound, TypeOK
<1> QED BY <1>2, <1>4

\* No delivery restarts a node.
LEMMA DeliverEpoch ==
  ASSUME NEW m \in pending, Deliver(m)
  PROVE  UNCHANGED epoch
BY DEF Deliver, Ignore, Reject, RecvI, RecvIAlone, RecvILate, RecvJ, RecvK,
       RecvKIgnored, RecvL, RecvLCounted, RecvLIgnored, RecvM, RecvMCounted, RecvN

\* A delivery saves once at most, on its way into the last state.
LEMMA DeliverRecords ==
  ASSUME TypeOK, NEW m \in pending, Deliver(m), NEW x \in Node,
         RecordsPerEpoch(x)
  PROVE  RecordsPerEpoch(x)'
<1> epoch'[x] = epoch[x] /\ epoch[x] \in Nat
  BY DeliverEpoch DEF TypeOK
<1>1. CASE x # m.to
  BY <1>1, DeliverElsewhere DEF RecordsPerEpoch
<1>2. CASE x = m.to
  <2> DEFINE t == m.trxn
             led == ledger[x]
             n == epoch[x]
  <2>1. /\ t \in Trxn /\ led \in Ledger /\ Checked(led, t) \in Ledger
        /\ Checked(led, t).debit = led.debit /\ Checked(led, t).credit = led.credit
    BY <1>2, MessageType, CheckedType, CheckedRecords
  <2>2. ASSUME UNCHANGED ledger \/ LedgerChecked(m),
               NEW s \in Trxn
        PROVE  /\ ledger'[x].debit[s] = led.debit[s]
               /\ ledger'[x].credit[s] = led.credit[s]
    BY <1>2, <2>1, <2>2 DEF LedgerChecked, TypeOK
  <2>3. ASSUME NEW s \in Trxn
        PROVE  round[x][s].state \in 0..6 /\ led.debit[s] \in Nat /\ led.credit[s] \in Nat
    <3>1. round[x][s] \in Round
      BY DEF TypeOK
    <3> QED BY <2>1, <3>1 DEF Ledger, Round, State, ST_NULL, ST_F
  <2>4. CASE UNCHANGED round /\ (UNCHANGED ledger \/ LedgerChecked(m))
    BY <2>2, <2>4 DEF RecordsPerEpoch
  <2>5. ASSUME NEW r \in Round, SetRound(m, r), r.state >= RoundAt(m).state,
               LedgerChecked(m)
        PROVE  RecordsPerEpoch(x)'
    <3> SUFFICES ASSUME NEW s \in Trxn
                 PROVE  /\ led.debit[s] <= n + 1 /\ led.credit[s] <= n + 1
                        /\ round'[x][s].state < ST_F =>
                             led.debit[s] <= n /\ led.credit[s] <= n
      BY <2>2, <2>5 DEF RecordsPerEpoch
    <3>1. round'[x][s].state >= round[x][s].state
      <4>1. CASE s = t
        BY <1>2, <2>1, <2>5, <4>1 DEF SetRound, RoundAt, TypeOK
      <4>2. CASE s # t
        <5>1. round'[x][s] = round[x][s]
          BY <1>2, <2>1, <2>5, <4>2 DEF SetRound, TypeOK
        <5> QED BY <2>3, <5>1
      <4> QED BY <4>1, <4>2
    <3>2. r.state \in 0..6 /\ round'[x][s].state \in 0..6
      BY <1>2, <2>1, <2>3, <2>5
      DEF SetRound, RoundAt, TypeOK, Round, State, ST_NULL, ST_F
    <3> QED BY <2>3, <3>1, <3>2 DEF RecordsPerEpoch, ST_F
  <2>6. ASSUME NEW r \in Round, SetRound(m, r), Save(m), r.state = ST_F,
               RoundAt(m).state < ST_F
        PROVE  RecordsPerEpoch(x)'
    <3>1. led.debit[t] <= n /\ led.credit[t] <= n
      BY <1>2, <2>1, <2>6 DEF RecordsPerEpoch, RoundAt
    <3>2. ledger'[x] = Saved(Checked(led, t), t)
      BY <1>2, <2>1, <2>6 DEF Save, TypeOK
    <3>3. ASSUME NEW s \in Trxn
          PROVE  /\ ledger'[x].debit[s] \in
                      {led.debit[s], IF s = t THEN led.debit[s] + 1 ELSE led.debit[s]}
                 /\ ledger'[x].credit[s] \in
                      {led.credit[s], IF s = t THEN led.credit[s] + 1 ELSE led.credit[s]}
      BY <2>1, <3>2, SavedRecords
    <3>4. round'[x][t].state = ST_F
      BY <1>2, <2>1, <2>6 DEF SetRound, TypeOK
    <3>5. ASSUME NEW s \in Trxn, s # t
          PROVE  round'[x][s] = round[x][s]
      BY <1>2, <2>1, <2>6, <3>5 DEF SetRound, TypeOK
    <3>6. ASSUME NEW s \in Trxn
          PROVE  /\ ledger'[x].debit[s] <= n + 1 /\ ledger'[x].credit[s] <= n + 1
                 /\ round'[x][s].state < ST_F =>
                      ledger'[x].debit[s] <= n /\ ledger'[x].credit[s] <= n
      <4>1. CASE s = t
        BY <2>3, <3>1, <3>3, <3>4, <4>1 DEF ST_F
      <4>2. CASE s # t
        BY <3>3, <3>5, <4>2 DEF RecordsPerEpoch
      <4> QED BY <4>1, <4>2
    <3> QED BY <3>6 DEF RecordsPerEpoch
  <2> QED BY <2>4, <2>5, <2>6, DeliverRound
<1> QED BY <1>1, <1>2

\* A restart forgets the state, and a new process begins.
LEMMA RecordsStep ==
  ASSUME TypeOK, [Next]_vars, NEW x \in Node, RecordsPerEpoch(x)
  PROVE  RecordsPerEpoch(x)'
<1>1. CASE UNCHANGED <<round, ledger, epoch>>
  BY <1>1 DEF RecordsPerEpoch
<1>2. ASSUME NEW m \in pending, Deliver(m) PROVE RecordsPerEpoch(x)'
  BY <1>2, DeliverRecords
<1>3. ASSUME NEW s \in Trxn, NEW y \in Node, Submit(y, s) \/ SubmitRefused(y, s)
      PROVE  RecordsPerEpoch(x)'
  <2>1. /\ UNCHANGED <<round, epoch>>
        /\ \/ UNCHANGED ledger
           \/ ledger' = [ledger EXCEPT ![y] = Checked(@, s)]
    BY <1>3 DEF Submit, SubmitRefused, TypeOK
  <2>2. /\ ledger[y] \in Ledger
        /\ Checked(ledger[y], s).debit = ledger[y].debit
        /\ Checked(ledger[y], s).credit = ledger[y].credit
    BY CheckedRecords DEF TypeOK
  <2>3. ledger'[x].debit = ledger[x].debit /\ ledger'[x].credit = ledger[x].credit
    BY <2>1, <2>2 DEF TypeOK
  <2> QED BY <2>1, <2>3 DEF RecordsPerEpoch
<1>4. ASSUME NEW y \in Node, Restart(y) PROVE RecordsPerEpoch(x)'
  <2>1. /\ epoch[x] \in Nat /\ UNCHANGED ledger
        /\ \A t \in Trxn : ledger[x].debit[t] \in Nat /\ ledger[x].credit[t] \in Nat
    BY <1>4 DEF TypeOK, Ledger, Restart
  <2>2. CASE x = y
    <3>1. epoch'[x] = epoch[x] + 1
      BY <1>4, <2>2 DEF Restart, TypeOK
    <3>2. \A t \in Trxn : /\ ledger[x].debit[t] <= epoch[x] + 1
                          /\ ledger[x].credit[t] <= epoch[x] + 1
      BY DEF RecordsPerEpoch
    <3> QED BY <2>1, <3>1, <3>2 DEF RecordsPerEpoch
  <2>3. CASE x # y
    <3>1. epoch'[x] = epoch[x] /\ round'[x] = round[x]
      BY <1>4, <2>3 DEF Restart, TypeOK
    <3> QED BY <2>1, <3>1 DEF RecordsPerEpoch
  <2> QED BY <2>2, <2>3
<1>5. ASSUME NEW y \in Node, Cleanup(y) PROVE RecordsPerEpoch(x)'
  <2>1. /\ UNCHANGED <<ledger, epoch>>
        /\ \A t \in Trxn : round'[x][t].state = round[x][t].state
    BY <1>5, CleanupRounds DEF Cleanup
  <2> QED BY <2>1 DEF RecordsPerEpoch
<1>6. ASSUME NEW s \in Trxn, Expire(s) PROVE UNCHANGED <<round, ledger, epoch>>
  BY <1>6 DEF Expire
<1>7. CASE UNCHANGED vars
  BY <1>1, <1>7 DEF vars
<1> QED BY <1>1, <1>2, <1>3, <1>4, <1>5, <1>6, <1>7 DEF Next

\* How often a node has restarted and what its processes have saved.
EpochsOK == \A x \in Node : epoch[x] <= MaxRestarts[x] /\ RecordsPerEpoch(x)

\* A node restarts no more often than it may.
LEMMA EpochStep ==
  ASSUME TypeOK, [Next]_vars, NEW x \in Node, epoch[x] <= MaxRestarts[x]
  PROVE  epoch'[x] <= MaxRestarts[x]
<1>1. epoch[x] \in Nat /\ MaxRestarts[x] \in Nat
  BY RestartsAssumption DEF TypeOK
<1>2. CASE UNCHANGED epoch
  BY <1>1, <1>2
<1>3. ASSUME NEW m \in pending, Deliver(m) PROVE UNCHANGED epoch
  BY <1>3, DeliverEpoch
<1>4. ASSUME NEW t \in Trxn, NEW y \in Node, Submit(y, t) \/ SubmitRefused(y, t)
      PROVE  UNCHANGED epoch
  BY <1>4 DEF Submit, SubmitRefused
<1>5. ASSUME NEW y \in Node, Cleanup(y) PROVE UNCHANGED epoch
  BY <1>5 DEF Cleanup
<1>6. ASSUME NEW t \in Trxn, Expire(t) PROVE UNCHANGED epoch
  BY <1>6 DEF Expire
<1>7. CASE UNCHANGED vars
  BY <1>2, <1>7 DEF vars
<1>8. ASSUME NEW y \in Node, Restart(y) PROVE epoch'[x] <= MaxRestarts[x]
  <2>1. \/ UNCHANGED epoch[x]
        \/ epoch[x] < MaxRestarts[x] /\ epoch'[x] = epoch[x] + 1
    BY <1>8 DEF Restart, TypeOK
  <2> QED BY <1>1, <2>1
<1> QED BY <1>2, <1>3, <1>4, <1>5, <1>6, <1>7, <1>8 DEF Next

\* EpochsOK is invariant.
LEMMA EpochsInv == Spec => []EpochsOK
<1>1. Init => EpochsOK
  <2> SUFFICES ASSUME Init, NEW x \in Node
               PROVE  epoch[x] <= MaxRestarts[x] /\ RecordsPerEpoch(x)
    BY DEF EpochsOK
  <2>1. epoch[x] = 0 /\ MaxRestarts[x] \in Nat
    BY RestartsAssumption DEF Init
  <2>2. \A t \in Trxn : ledger[x].debit[t] = 0 /\ ledger[x].credit[t] = 0
    BY DEF Init, LedgerWith
  <2> QED BY <2>1, <2>2 DEF RecordsPerEpoch
<1>2. TypeOK /\ EpochsOK /\ [Next]_vars => EpochsOK'
  <2> SUFFICES ASSUME TypeOK, EpochsOK, [Next]_vars, NEW x \in Node
               PROVE  epoch'[x] <= MaxRestarts[x] /\ RecordsPerEpoch(x)'
    BY DEF EpochsOK
  <2> QED BY EpochStep, RecordsStep DEF EpochsOK
<1> QED BY <1>1, <1>2, TypeCorrect, PTL DEF Spec

\* Whatever restarts, a node saves a transaction at most once in the life of
\* each of its processes.
THEOREM AppliedOncePerEpoch == Spec => []AppliedPerEpoch
<1>1. EpochsOK => AppliedPerEpoch
  BY DEF EpochsOK, RecordsPerEpoch, AppliedPerEpoch
<1> QED BY <1>1, EpochsInv, PTL

\* Without restarts that is: no record before the last state, one at most then.
RecordsFollowState(x) ==
  \A t \in Trxn :
    /\ ledger[x].debit[t] <= 1 /\ ledger[x].credit[t] <= 1
    /\ round[x][t].state < ST_F =>
         ledger[x].debit[t] = 0 /\ ledger[x].credit[t] = 0

Unrestarted ==
  \A x \in Node : /\ epoch[x] <= MaxRestarts[x]
                  /\ epoch[x] = 0 => RecordsFollowState(x)

LEMMA EpochsUnrestarted ==
  ASSUME TypeOK, EpochsOK
  PROVE  Unrestarted
<1> SUFFICES ASSUME NEW x \in Node, epoch[x] = 0 PROVE RecordsFollowState(x)
  BY DEF Unrestarted, EpochsOK
<1>1. \A t \in Trxn : ledger[x].debit[t] \in Nat /\ ledger[x].credit[t] \in Nat
  BY DEF TypeOK, Ledger
<1> QED BY <1>1 DEF EpochsOK, RecordsPerEpoch, RecordsFollowState

LEMMA UnrestartedInv == Spec => []Unrestarted
<1>1. TypeOK /\ EpochsOK => Unrestarted
  BY EpochsUnrestarted
<1> QED BY <1>1, TypeCorrect, EpochsInv, PTL

LEMMA UnrestartedRecords ==
  ASSUME NoRestarts, TypeOK, Unrestarted, NEW x \in Node
  PROVE  RecordsFollowState(x)
<1>1. epoch[x] \in Nat /\ epoch[x] <= 0
  BY DEF Unrestarted, TypeOK, NoRestarts
<1> QED BY <1>1 DEF Unrestarted

\* Without restarts no node saves a transaction twice, whatever is late, lost
\* or reordered: the restarts are what the finding about them needs.
THEOREM AppliedOnce ==
  ASSUME NoRestarts
  PROVE  Spec => []AtMostOnce
<1>1. TypeOK /\ Unrestarted => AtMostOnce
  BY UnrestartedRecords DEF AtMostOnce, RecordsFollowState
<1> QED BY <1>1, TypeCorrect, UnrestartedInv, PTL

-----------------------------------------------------------------------------
(* Replicas.                                                                *)

\* At every node the account store and the block files tell the same story.
Stories == \A x \in Node : Consistent(ledger[x], Founded)

LEMMA DeliverStory ==
  ASSUME NoSelfPayment, TypeOK, NEW m \in pending, Deliver(m),
         NEW x \in Node, RecordsFollowState(x), Consistent(ledger[x], Founded)
  PROVE  Consistent(ledger'[x], Founded)
<1>1. CASE x # m.to
  BY <1>1, DeliverElsewhere
<1>2. CASE x = m.to
  <2> DEFINE t == m.trxn
             led == ledger[x]
  <2>1. t \in Trxn /\ led \in Ledger /\ Checked(led, t) \in Ledger
    BY <1>2, MessageType, CheckedType
  <2>2. Consistent(Checked(led, t), Founded)
    BY <2>1, CheckedConsistent
  <2>3. CASE UNCHANGED ledger
    BY <2>3
  <2>4. CASE LedgerChecked(m)
    BY <1>2, <2>2, <2>4 DEF LedgerChecked, TypeOK
  <2>5. CASE Save(m) /\ RoundAt(m).state < ST_F
    <3>1. led.debit[t] = 0
      BY <1>2, <2>1, <2>5 DEF RecordsFollowState, RoundAt
    <3>2. Checked(led, t).debit = led.debit
      BY <2>1, CheckedRecords
    <3>3. ledger'[x] = Saved(Checked(led, t), t)
      BY <1>2, <2>5 DEF Save, TypeOK
    <3> HIDE DEF t, led
    <3> QED BY <2>1, <2>2, <3>1, <3>2, <3>3, SavedConsistent
  <2> QED BY <2>3, <2>4, <2>5, DeliverRound
<1> QED BY <1>1, <1>2

\* Of the steps, only deliveries save.
LEMMA StoriesAside ==
  ASSUME TypeOK, Stories, [Next]_vars, NEW x \in Node,
         \A m \in pending : Deliver(m) => Consistent(ledger'[x], Founded)
  PROVE  Consistent(ledger'[x], Founded)
<1>1. Consistent(ledger[x], Founded)
  BY DEF Stories
<1>2. CASE UNCHANGED ledger
  BY <1>1, <1>2
<1>3. ASSUME NEW s \in Trxn, NEW y \in Node, Submit(y, s) \/ SubmitRefused(y, s)
      PROVE  Consistent(ledger'[x], Founded)
  <2>1. \/ UNCHANGED ledger
        \/ ledger' = [ledger EXCEPT ![y] = Checked(@, s)]
    BY <1>3 DEF Submit, SubmitRefused, TypeOK
  <2>2. ledger[x] \in Ledger
    BY DEF TypeOK
  <2>3. Consistent(Checked(ledger[x], s), Founded)
    BY <1>1, <2>2, CheckedConsistent
  <2> QED BY <1>1, <2>1, <2>3 DEF TypeOK
<1>4. ASSUME NEW y \in Node, Restart(y) \/ Cleanup(y) PROVE UNCHANGED ledger
  BY <1>4 DEF Restart, Cleanup
<1>5. ASSUME NEW s \in Trxn, Expire(s) PROVE UNCHANGED ledger
  BY <1>5 DEF Expire
<1>6. CASE UNCHANGED vars
  BY <1>2, <1>6 DEF vars
<1> QED BY <1>2, <1>3, <1>4, <1>5, <1>6 DEF Next

LEMMA StoriesStep ==
  ASSUME NoSelfPayment, NoRestarts, TypeOK, Unrestarted, Stories, [Next]_vars
  PROVE  Stories'
<1> SUFFICES ASSUME NEW x \in Node PROVE Consistent(ledger'[x], Founded)
  BY DEF Stories
<1>1. ASSUME NEW m \in pending, Deliver(m) PROVE Consistent(ledger'[x], Founded)
  BY <1>1, DeliverStory, UnrestartedRecords DEF Stories
<1> QED BY <1>1, StoriesAside

LEMMA StoriesInit == Init => Stories
<1>1. Consistent(LedgerWith(Founded), Founded)
  BY FoundedAssumption, LedgerWithConsistent
<1> QED BY <1>1 DEF Init, Stories

\* What tells the same story about the same blocks is the same.
LEMMA StoriesAgree ==
  ASSUME TypeOK, Stories
  PROVE  ReplicasAgree
<1> SUFFICES ASSUME NEW x \in Node, NEW y \in Node,
                    ledger[x].debit = ledger[y].debit,
                    ledger[x].credit = ledger[y].credit, NEW u \in User
             PROVE  SameAccount(ledger[x].acct[u], ledger[y].acct[u])
  BY DEF ReplicasAgree
<1>1. ledger[x] \in Ledger /\ ledger[y] \in Ledger
  BY DEF TypeOK
<1>2. Consistent(ledger[x], Founded) /\ Consistent(ledger[y], Founded)
  BY DEF Stories
<1> QED BY <1>1, <1>2, SameBlocksSameAccounts DEF SameAccount

\* Nodes that have saved the same transactions have the same accounts up to
\* the last digit of a balance, in whatever order the votes have let each of
\* them save, on every network and with every loss of messages.  As everywhere
\* in the ledger, payments of a user to itself are excepted, and a restarted
\* node may have applied a payment twice.
THEOREM ReplicasSame ==
  ASSUME NoSelfPayment, NoRestarts
  PROVE  Spec => []ReplicasAgree
<1>1. TypeOK /\ Unrestarted /\ Stories /\ [Next]_vars => Stories'
  BY StoriesStep
<1> QED BY <1>1, StoriesAgree, StoriesInit, TypeCorrect, UnrestartedInv, PTL DEF Spec

-----------------------------------------------------------------------------
(* What a client is told.                                                   *)

\* A client waits at the proxy it chose, and is told of success only with the
\* record in the files of that proxy.
ConfirmedByProxy ==
  /\ \A x \in Node : \A t \in initer[x] : x \in Proxies[t]
  /\ \A t \in Trxn : client[t] = "confirmed" =>
       \E x \in Proxies[t] \cap Node : Recorded(ledger[x], t)

\* Nothing takes a record out of the block files again.
LEMMA RecordsKept ==
  ASSUME TypeOK, [Next]_vars, NEW x \in Node, NEW t \in Trxn,
         Recorded(ledger[x], t)
  PROVE  Recorded(ledger'[x], t)
<1>1. CASE UNCHANGED ledger
  BY <1>1
<1>2. ASSUME NEW m \in pending, Deliver(m)
      PROVE  Recorded(ledger'[x], t)
  <2>1. CASE x # m.to
    BY <1>2, <2>1, DeliverElsewhere
  <2>2. CASE x = m.to
    <3>1. /\ m.trxn \in Trxn /\ ledger[x] \in Ledger
          /\ Checked(ledger[x], m.trxn) \in Ledger
          /\ Checked(ledger[x], m.trxn).debit = ledger[x].debit
      BY <2>2, MessageType, CheckedType, CheckedRecords
    <3>2. \/ UNCHANGED ledger
          \/ ledger'[x] = Checked(ledger[x], m.trxn)
          \/ ledger'[x] = Saved(Checked(ledger[x], m.trxn), m.trxn)
      BY <1>2, <2>2, DeliverRound DEF LedgerChecked, Save, TypeOK
    <3>3. ledger[x].debit[t] \in Nat
      BY <3>1 DEF Ledger
    <3>4. ledger'[x].debit[t] \in {ledger[x].debit[t], ledger[x].debit[t] + 1}
      BY <3>1, <3>2, SavedRecords
    <3> QED BY <3>3, <3>4 DEF Recorded
  <2> QED BY <2>1, <2>2
<1>3. ASSUME NEW s \in Trxn, NEW y \in Node, Submit(y, s) \/ SubmitRefused(y, s)
      PROVE  Recorded(ledger'[x], t)
  <2>1. \/ UNCHANGED ledger
        \/ ledger' = [ledger EXCEPT ![y] = Checked(@, s)]
    BY <1>3 DEF Submit, SubmitRefused, TypeOK
  <2>2. Checked(ledger[y], s).debit = ledger[y].debit
    BY CheckedRecords DEF TypeOK
  <2>3. ledger'[x].debit = ledger[x].debit
    BY <2>1, <2>2 DEF TypeOK
  <2> QED BY <2>3 DEF Recorded
<1>4. ASSUME NEW y \in Node, Restart(y) \/ Cleanup(y) PROVE UNCHANGED ledger
  BY <1>4 DEF Restart, Cleanup
<1>5. ASSUME NEW s \in Trxn, Expire(s) PROVE UNCHANGED ledger
  BY <1>5 DEF Expire
<1>6. CASE UNCHANGED vars
  BY <1>1, <1>6 DEF vars
<1> QED BY <1>1, <1>2, <1>3, <1>4, <1>5, <1>6 DEF Next

\* A client that a delivery tells of success is told by its proxy, which has
\* just saved the transaction.
LEMMA DeliverTells ==
  ASSUME TypeOK, ConfirmedByProxy, NEW m \in pending, Deliver(m)
  PROVE  /\ \A x \in Node : initer'[x] \subseteq initer[x]
         /\ \A t \in Trxn :
              \/ client'[t] = client[t]
              \/ client'[t] # "confirmed"
              \/ \E x \in Proxies[t] \cap Node : Recorded(ledger'[x], t)
<1>1. CASE RecvN(m)
  <2>1. /\ m.to \in Node /\ m.trxn \in Trxn /\ ledger[m.to] \in Ledger
        /\ Checked(ledger[m.to], m.trxn) \in Ledger
    BY MessageType, CheckedType
  <2>2. \A x \in Node : initer'[x] \subseteq initer[x]
    BY <1>1, <2>1 DEF RecvN, TypeOK
  <2>3. ledger'[m.to] = Saved(Checked(ledger[m.to], m.trxn), m.trxn)
    BY <1>1, <2>1 DEF RecvN, Save, TypeOK
  <2>4. CASE m.trxn \notin initer[m.to] \/ Told(m) # "confirmed"
    BY <1>1, <2>2, <2>4 DEF RecvN, TypeOK
  <2>5. CASE m.trxn \in initer[m.to] /\ Told(m) = "confirmed"
    <3>1. Recorded(ledger'[m.to], m.trxn) /\ m.to \in Proxies[m.trxn] \cap Node
      BY <2>1, <2>3, <2>5, SavesRecord DEF Told, ConfirmedByProxy
    <3>2. \A t \in Trxn : t # m.trxn => client'[t] = client[t]
      BY <1>1 DEF RecvN, TypeOK
    <3> QED BY <2>2, <3>1, <3>2
  <2> QED BY <2>4, <2>5
<1>2. CASE ~RecvN(m)
  <2>1. UNCHANGED <<initer, client>>
    BY <1>2 DEF Deliver, Ignore, Reject, RecvI, RecvIAlone, RecvILate, RecvJ,
                RecvK, RecvKIgnored, RecvL, RecvLCounted, RecvLIgnored, RecvM,
                RecvMCounted
  <2> QED BY <2>1
<1> QED BY <1>1, <1>2

LEMMA ConfirmedStep ==
  ASSUME TypeOK, ConfirmedByProxy, [Next]_vars
  PROVE  ConfirmedByProxy'
<1> DEFINE Proxied == \A x \in Node : \A t \in initer'[x] : x \in Proxies[t]
           Kept(t) == \/ client'[t] = client[t]
                      \/ client'[t] # "confirmed"
                      \/ \E x \in Proxies[t] \cap Node : Recorded(ledger'[x], t)
<1>1. ASSUME Proxied, \A t \in Trxn : Kept(t)
      PROVE  ConfirmedByProxy'
  BY <1>1, RecordsKept DEF ConfirmedByProxy
<1>2. ASSUME NEW m \in pending, Deliver(m)
      PROVE  Proxied /\ \A t \in Trxn : Kept(t)
  BY <1>2, DeliverTells DEF ConfirmedByProxy
<1>3. ASSUME NEW s \in Trxn, NEW y \in Node, Submit(y, s)
      PROVE  Proxied /\ \A t \in Trxn : Kept(t)
  BY <1>3 DEF Submit, ConfirmedByProxy, TypeOK
<1>4. ASSUME NEW s \in Trxn, NEW y \in Node, SubmitRefused(y, s)
      PROVE  Proxied /\ \A t \in Trxn : Kept(t)
  BY <1>4 DEF SubmitRefused, ConfirmedByProxy, TypeOK
<1>5. ASSUME NEW y \in Node, Restart(y)
      PROVE  Proxied /\ \A t \in Trxn : Kept(t)
  BY <1>5 DEF Restart, ConfirmedByProxy, TypeOK
<1>6. ASSUME NEW y \in Node, Cleanup(y)
      PROVE  Proxied /\ \A t \in Trxn : Kept(t)
  BY <1>6 DEF Cleanup, ConfirmedByProxy
<1>7. ASSUME NEW s \in Trxn, Expire(s)
      PROVE  Proxied /\ \A t \in Trxn : Kept(t)
  BY <1>7 DEF Expire, ConfirmedByProxy
<1>8. CASE UNCHANGED vars
  BY <1>1, <1>8 DEF vars, ConfirmedByProxy
<1> HIDE DEF Proxied, Kept
<1> QED BY <1>1, <1>2, <1>3, <1>4, <1>5, <1>6, <1>7, <1>8 DEF Next

\* A client is told `Transaction Confirmed' only when a proxy of its has the
\* transaction in its block files, and it stays there through votes, restarts
\* and whatever other transactions do.
THEOREM ConfirmedRecorded == Spec => []ConfirmedIsRecorded
<1>1. Init => ConfirmedByProxy
  BY DEF Init, ConfirmedByProxy
<1>2. TypeOK /\ ConfirmedByProxy /\ [Next]_vars => ConfirmedByProxy'
  BY ConfirmedStep
<1>3. ConfirmedByProxy => ConfirmedIsRecorded
  BY DEF ConfirmedByProxy, ConfirmedIsRecorded
<1> QED BY <1>1, <1>2, <1>3, TypeCorrect, PTL DEF Spec

-----------------------------------------------------------------------------
(* The certificate of a commit.  As long as no node is restarted, the        *)
(* network keeps the promise of VoteCommit: the counters of a node never     *)
(* run ahead of the votes that were cast.                                    *)

-----------------------------------------------------------------------------
(* The quorums a leader computes from its own part of the circuit are those *)
(* of the whole circuit.                                                    *)

LEMMA NodesFinite ==
  ASSUME NEW S \in SUBSET Node
  PROVE  IsFiniteSet(S) /\ Cardinality(S) \in Nat
<1>1. IsFiniteSet(Node)
  BY NAssumption, FS_Interval DEF Node
<1>2. IsFiniteSet(S)
  BY <1>1, FS_Subset
<1> QED BY <1>2, FS_CardinalityType

LEMMA PeersAreLeaders ==
  ASSUME NEW x \in Node, NEW t \in Trxn, Leads(x, t)
  PROVE  MyPeers(x, t) = LeadersOf(t) \ {x} /\ x \in LeadersOf(t)
<1>1. LeadersOf(t) = Leaders(N, Hash[t])
  BY MyPart DEF LeadersOf, Leaders, Node
<1>2. LeaderOf(N, Hash[t], x) = x
  BY MyPart DEF Leads
<1> QED BY <1>1, <1>2, MyPart DEF OtherLeaders, Leaders, Node

LEMMA LeaderQuorumIs ==
  ASSUME NEW x \in Node, NEW t \in Trxn, Leads(x, t)
  PROVE  LeaderQuorum(x, t) = TwoFPlus1(Cardinality(LeadersOf(t)))
<1>1. IsFiniteSet(LeadersOf(t)) /\ Cardinality(LeadersOf(t)) \in Nat
  BY HostsType, NodesFinite
<1>2. Cardinality(MyPeers(x, t)) = Cardinality(LeadersOf(t)) - 1
  BY <1>1, PeersAreLeaders, FS_RemoveElement
<1>3. Cardinality(MyPeers(x, t)) + 1 = Cardinality(LeadersOf(t))
  BY <1>1, <1>2
<1> QED BY <1>3 DEF LeaderQuorum

\* The members of the zone that x leads, x included.
Members(x, t) == {z \in Node : MyLeader(z, t) = x}

LEMMA ZoneQuorumIs ==
  ASSUME NEW x \in Node, NEW t \in Trxn, Leads(x, t)
  PROVE  /\ ZoneQuorum(x, t) = TwoFPlus1(Cardinality(Members(x, t)))
         /\ MyFollowers(x, t) = Members(x, t) \ {x}
<1>1. LeaderOf(N, Hash[t], x) = x /\ N \in Nat
  BY MyPart, NAssumption DEF Leads
<1>2. \A z \in Node : MyLeader(z, t) = LeaderOf(N, Hash[t], z)
  BY MyPart
<1>3. \A z \in ZoneMates(N, Hash[t], x) : LeaderOf(N, Hash[t], z) = x
  BY <1>1, LeaderAgreed DEF Node
<1>4. \A z \in Node : LeaderOf(N, Hash[t], z) \in ZoneMates(N, Hash[t], z)
  BY <1>1, LeaderInZone DEF Node
<1>5. Members(x, t) = ZoneMates(N, Hash[t], x)
  BY <1>2, <1>3, <1>4 DEF Members, ZoneMates, Node
<1>6. x \in Members(x, t) /\ MyFollowers(x, t) = Members(x, t) \ {x}
  BY <1>1, <1>2, <1>5, MyPart DEF Followers, Members
<1>7. IsFiniteSet(Members(x, t)) /\ Cardinality(Members(x, t)) \in Nat
  BY NodesFinite DEF Members
<1>8. Cardinality(MyFollowers(x, t)) = Cardinality(Members(x, t)) - 1
  BY <1>6, <1>7, FS_RemoveElement
<1>9. Cardinality(MyFollowers(x, t)) + 1 = Cardinality(Members(x, t))
  BY <1>7, <1>8
<1> QED BY <1>6, <1>9 DEF ZoneQuorum

LEMMA QuorumType ==
  ASSUME NEW k \in Nat
  PROVE  TwoFPlus1(k) \in Int
BY DEF TwoFPlus1

-----------------------------------------------------------------------------
(* What a delivery does, without the ledger and the client.                 *)

One(b) == IF b THEN 1 ELSE 0

\* A counter grows by the vote in m, and by the node's own on the way into the
\* state that this vote stands for.
Counts(m, r) ==
  LET was == RoundAt(m)
  IN  /\ r.k <= was.k + One(m.xit = "k") + One(was.state < ST_B /\ r.state >= ST_B)
      /\ r.l <= was.l + One(m.xit = "l") + One(was.state < ST_C /\ r.state >= ST_C)
      /\ r.m <= was.m + One(m.xit = "m") + One(was.state < ST_D /\ r.state >= ST_D)

\* What m makes of the state, and what is sent.
Silent(m, r, msgs) == r.state = RoundAt(m).state /\ msgs = {}

Proposing(m, r, msgs) ==
  /\ Leads(m.to, m.trxn)
  /\ RoundAt(m).state = ST_NULL /\ r.state = ST_B
  /\ msgs = Forward(m, "j", MyFollowers(m.to, m.trxn))

Voting(m, r, msgs) ==
  /\ m.xit = "j" /\ ~Leads(m.to, m.trxn)
  /\ r.state = RoundAt(m).state
  /\ msgs = Forward(m, "k", {MyLeader(m.to, m.trxn)})

Agreeing(m, r, msgs) ==
  /\ Leads(m.to, m.trxn)
  /\ \/ m.xit = "k" /\ RoundAt(m).k + 1 >= ZoneQuorum(m.to, m.trxn)
     \/ 1 >= ZoneQuorum(m.to, m.trxn)
  /\ RoundAt(m).state < ST_C /\ r.state = ST_C
  /\ msgs = Forward(m, "l", MyPeers(m.to, m.trxn))

LeadersAgree(m) ==
  /\ m.xit = "l" /\ Leads(m.to, m.trxn)
  /\ RoundAt(m).l + 1 >= LeaderQuorum(m.to, m.trxn)
  /\ RoundAt(m).state < ST_D

Confirming(m, r, msgs) ==
  /\ LeadersAgree(m) /\ r.state = ST_D
  /\ msgs = Forward(m, "m", MyPeers(m.to, m.trxn))

ConfirmingLast(m, r, msgs) ==
  /\ LeadersAgree(m) /\ r.state = ST_F
  /\ RoundAt(m).m + 1 >= LeaderQuorum(m.to, m.trxn)
  /\ msgs = Forward(m, "m", MyPeers(m.to, m.trxn))
              \cup Forward(m, "n", MyFollowers(m.to, m.trxn))

Committing(m, r, msgs) ==
  /\ m.xit = "m" /\ Leads(m.to, m.trxn)
  /\ RoundAt(m).m + 1 >= LeaderQuorum(m.to, m.trxn)
  /\ RoundAt(m).state < ST_E /\ r.state = ST_F
  /\ msgs = Forward(m, "n", MyFollowers(m.to, m.trxn))

Following(m, r, msgs) ==
  /\ m.xit = "n" /\ ~Leads(m.to, m.trxn)
  /\ RoundAt(m).state < ST_F /\ r.state = ST_F
  /\ msgs = {}

Effect(m, r, msgs) ==
  \/ Silent(m, r, msgs) \/ Proposing(m, r, msgs) \/ Voting(m, r, msgs)
  \/ Agreeing(m, r, msgs) \/ Confirming(m, r, msgs)
  \/ ConfirmingLast(m, r, msgs) \/ Committing(m, r, msgs)
  \/ Following(m, r, msgs)

\* The counters after each kind of step.
LEMMA StepCounters ==
  ASSUME NEW r \in Round
  PROVE  /\ r.state \in 0..6 /\ r.k \in Nat /\ r.l \in Nat /\ r.m \in Nat
         /\ [r EXCEPT !.state = ST_B, !.k = @ + 1].k = r.k + 1
         /\ [r EXCEPT !.state = ST_B, !.k = @ + 1].l = r.l
         /\ [r EXCEPT !.state = ST_B, !.k = @ + 1].m = r.m
         /\ ZoneVoted(r).k = 0 /\ ZoneVoted(r).l = r.l + 1
         /\ ZoneVoted(r).m = r.m
         /\ LeadersVoted(r).k = r.k /\ LeadersVoted(r).l = 0
         /\ LeadersVoted(r).m = r.m + 1
         /\ Final(r).k = r.k /\ Final(r).l = r.l /\ Final(r).m = 0
BY DEF Round, ZoneVoted, LeadersVoted, Final, State, ST_NULL, ST_F

\* A vote that is only counted.
LEMMA VoteCounters ==
  ASSUME NEW r \in Round
  PROVE  /\ [r EXCEPT !.k = @ + 1].k = r.k + 1 /\ [r EXCEPT !.k = @ + 1].l = r.l
         /\ [r EXCEPT !.k = @ + 1].m = r.m
         /\ [r EXCEPT !.l = @ + 1].k = r.k /\ [r EXCEPT !.l = @ + 1].l = r.l + 1
         /\ [r EXCEPT !.l = @ + 1].m = r.m
         /\ [r EXCEPT !.m = @ + 1].k = r.k /\ [r EXCEPT !.m = @ + 1].l = r.l
         /\ [r EXCEPT !.m = @ + 1].m = r.m + 1
BY DEF Round

LEMMA DeliverEffect ==
  ASSUME TypeOK, RolesOK, NEW m \in pending, Deliver(m)
  PROVE  \E r \in Round : \E msgs :
           /\ SetRound(m, r) /\ Answer(m, msgs)
           /\ Counts(m, r) /\ Effect(m, r, msgs)
<1> DEFINE w == RoundAt(m)
           Result == \E r \in Round : \E msgs :
                       /\ SetRound(m, r) /\ Answer(m, msgs)
                       /\ Counts(m, r) /\ Effect(m, r, msgs)
<1>1. /\ w \in Round /\ w.state \in 0..6 /\ w.k \in Nat /\ w.l \in Nat /\ w.m \in Nat
      /\ m.to \in Node /\ m.trxn \in Trxn /\ m \in sent
  BY MessageType, StepCounters
<1>2. /\ m.xit \in {"i", "k", "l", "m"} => Leads(m.to, m.trxn)
      /\ m.xit \in {"j", "n"} => ~Leads(m.to, m.trxn)
  BY <1>1 DEF RolesOK, InRole
<1>3. ASSUME NEW r \in Round, NEW msgs, SetRound(m, r), Answer(m, msgs),
             r.k <= w.k /\ r.l <= w.l /\ r.m <= w.m, Effect(m, r, msgs)
      PROVE  Result
  <2>1. r.k \in Nat /\ r.l \in Nat /\ r.m \in Nat
    BY StepCounters
  <2>2. Counts(m, r)
    BY <1>1, <1>3, <2>1 DEF Counts, One
  <2> QED BY <1>3, <2>2
<1>4. ASSUME UNCHANGED round PROVE SetRound(m, w)
  BY <1>1, <1>4 DEF SetRound, RoundAt, TypeOK
<1>5. ASSUME NEW msgs, UNCHANGED round, Answer(m, msgs), Effect(m, w, msgs)
      PROVE  Result
  BY <1>1, <1>3, <1>4, <1>5
<1>6. ASSUME NEW r \in Round, NEW msgs, SetRound(m, r), Answer(m, msgs),
             Counts(m, r), Effect(m, r, msgs)
      PROVE  Result
  BY <1>6
<1>7. Effect(m, w, {})
  BY DEF Silent, Effect
<1> SUFFICES Result
  OBVIOUS
<1> HIDE DEF Result
<1>8. CASE Ignore(m) \/ Reject(m)
  BY <1>5, <1>7, <1>8 DEF Ignore, Reject
<1>9. CASE RecvILate(m) \/ RecvKIgnored(m) \/ RecvLIgnored(m)
  BY <1>5, <1>7, <1>9 DEF RecvILate, RecvKIgnored, RecvLIgnored
<1>10. CASE RecvI(m)
  <2>1. PICK r \in Round : /\ r = [w EXCEPT !.state = ST_B, !.k = @ + 1]
                           /\ r.state = ST_B
                           /\ r.k = w.k + 1 /\ r.l = w.l /\ r.m = w.m
    BY <1>1, RoundSteps, StepCounters
  <2>2. /\ SetRound(m, r) /\ w.state = ST_NULL /\ Leads(m.to, m.trxn)
        /\ Answer(m, Forward(m, "j", MyFollowers(m.to, m.trxn)))
    BY <1>10, <2>1 DEF RecvI, ToAGood
  <2>3. Counts(m, r)
    BY <1>1, <2>1, <2>2 DEF Counts, One, ST_NULL, ST_B, ST_C, ST_D
  <2>4. Effect(m, r, Forward(m, "j", MyFollowers(m.to, m.trxn)))
    BY <2>1, <2>2 DEF Effect, Proposing
  <2> QED BY <1>6, <2>2, <2>3, <2>4
<1>11. CASE RecvIAlone(m)
  <2>1. PICK r \in Round : /\ r = ZoneVoted(w) /\ r.state = ST_C
                           /\ r.k = 0 /\ r.l = w.l + 1 /\ r.m = w.m
    BY <1>1, RoundSteps, StepCounters
  <2>2. /\ SetRound(m, r) /\ w.state = ST_NULL /\ Leads(m.to, m.trxn)
        /\ Answer(m, Forward(m, "l", MyPeers(m.to, m.trxn)))
        /\ MyFollowers(m.to, m.trxn) = {}
    BY <1>11, <2>1 DEF RecvIAlone, ToAGood
  <2>3. Counts(m, r)
    BY <1>1, <2>1, <2>2 DEF Counts, One, ST_NULL, ST_B, ST_C, ST_D
  <2>4. ZoneQuorum(m.to, m.trxn) = 1
    BY <2>2, FS_EmptySet DEF ZoneQuorum, TwoFPlus1
  <2>5. Effect(m, r, Forward(m, "l", MyPeers(m.to, m.trxn)))
    BY <2>1, <2>2, <2>4 DEF Effect, Agreeing, ST_NULL, ST_C
  <2> QED BY <1>6, <2>2, <2>3, <2>5
<1>12. CASE RecvJ(m)
  <2>1. Effect(m, w, Forward(m, "k", {MyLeader(m.to, m.trxn)}))
    BY <1>12 DEF RecvJ, Receives, Effect, Voting
  <2>2. UNCHANGED round /\ Answer(m, Forward(m, "k", {MyLeader(m.to, m.trxn)}))
    BY <1>12 DEF RecvJ
  <2> QED BY <1>5, <2>1, <2>2
<1>13. CASE RecvK(m)
  <2>1. PICK r \in Round : /\ r = [w EXCEPT !.k = @ + 1] /\ r.state = w.state
                           /\ r.k = w.k + 1 /\ r.l = w.l /\ r.m = w.m
    <3>1. /\ [w EXCEPT !.k = @ + 1] \in Round
          /\ [w EXCEPT !.k = @ + 1].state = w.state
          /\ [w EXCEPT !.k = @ + 1].k = w.k + 1
          /\ [w EXCEPT !.k = @ + 1].l = w.l
          /\ [w EXCEPT !.k = @ + 1].m = w.m
      BY <1>1, CountSteps, VoteCounters
    <3> QED BY <3>1
  <2>2. PICK v \in Round : /\ v = ZoneVoted(r) /\ v.state = ST_C
                           /\ v.k = 0 /\ v.l = w.l + 1 /\ v.m = w.m
    <3>1. /\ ZoneVoted(r) \in Round /\ ZoneVoted(r).state = ST_C
          /\ ZoneVoted(r).k = 0 /\ ZoneVoted(r).l = r.l + 1
          /\ ZoneVoted(r).m = r.m
      BY RoundSteps, StepCounters
    <3> QED BY <2>1, <3>1
  <2>3. /\ m.xit = "k" /\ Leads(m.to, m.trxn) /\ w.state < ST_C
        /\ \/ SetRound(m, r) /\ Answer(m, {})
           \/ /\ r.k >= ZoneQuorum(m.to, m.trxn)
              /\ SetRound(m, v)
              /\ Answer(m, Forward(m, "l", MyPeers(m.to, m.trxn)))
    BY <1>2, <1>13, <2>1, <2>2 DEF RecvK, Receives
  <2>4. CASE SetRound(m, r) /\ Answer(m, {})
    <3>1. Counts(m, r) /\ Effect(m, r, {})
      BY <1>1, <2>1, <2>3 DEF Counts, One, Effect, Silent
    <3> QED BY <1>6, <2>4, <3>1
  <2>5. CASE /\ r.k >= ZoneQuorum(m.to, m.trxn)
             /\ SetRound(m, v)
             /\ Answer(m, Forward(m, "l", MyPeers(m.to, m.trxn)))
    <3>1. Counts(m, v)
      BY <1>1, <2>2, <2>3 DEF Counts, One, ST_B, ST_C, ST_D
    <3>2. Effect(m, v, Forward(m, "l", MyPeers(m.to, m.trxn)))
      BY <2>1, <2>2, <2>3, <2>5 DEF Effect, Agreeing
    <3> QED BY <1>6, <2>5, <3>1, <3>2
  <2> QED BY <2>3, <2>4, <2>5
<1>14. CASE RecvLCounted(m)
  <2>1. PICK r \in Round : /\ r = [w EXCEPT !.l = @ + 1] /\ r.state = w.state
                           /\ r.k = w.k /\ r.l = w.l + 1 /\ r.m = w.m
    <3>1. /\ [w EXCEPT !.l = @ + 1] \in Round
          /\ [w EXCEPT !.l = @ + 1].state = w.state
          /\ [w EXCEPT !.l = @ + 1].k = w.k
          /\ [w EXCEPT !.l = @ + 1].l = w.l + 1
          /\ [w EXCEPT !.l = @ + 1].m = w.m
      BY <1>1, CountSteps, VoteCounters
    <3> QED BY <3>1
  <2>2. SetRound(m, r) /\ Answer(m, {}) /\ m.xit = "l"
    BY <1>14, <2>1 DEF RecvLCounted, Receives
  <2>3. Counts(m, r) /\ Effect(m, r, {})
    BY <1>1, <2>1, <2>2 DEF Counts, One, Effect, Silent
  <2> QED BY <1>6, <2>2, <2>3
<1>15. CASE RecvMCounted(m)
  <2>1. PICK r \in Round : /\ r = [w EXCEPT !.m = @ + 1] /\ r.state = w.state
                           /\ r.k = w.k /\ r.l = w.l /\ r.m = w.m + 1
    <3>1. /\ [w EXCEPT !.m = @ + 1] \in Round
          /\ [w EXCEPT !.m = @ + 1].state = w.state
          /\ [w EXCEPT !.m = @ + 1].k = w.k
          /\ [w EXCEPT !.m = @ + 1].l = w.l
          /\ [w EXCEPT !.m = @ + 1].m = w.m + 1
      BY <1>1, CountSteps, VoteCounters
    <3> QED BY <3>1
  <2>2. SetRound(m, r) /\ Answer(m, {}) /\ m.xit = "m"
    BY <1>15, <2>1 DEF RecvMCounted, Receives
  <2>3. Counts(m, r) /\ Effect(m, r, {})
    BY <1>1, <2>1, <2>2 DEF Counts, One, Effect, Silent
  <2> QED BY <1>6, <2>2, <2>3
<1>16. CASE RecvL(m)
  <2> DEFINE votes == Forward(m, "m", MyPeers(m.to, m.trxn))
             finals == Forward(m, "n", MyFollowers(m.to, m.trxn))
  <2>1. PICK r \in Round : /\ r = LeadersVoted(w) /\ r.state = ST_D
                           /\ r.k = w.k /\ r.l = 0 /\ r.m = w.m + 1
    BY <1>1, RoundSteps, StepCounters
  <2>2. PICK f \in Round : /\ f = Final(r) /\ f.state = ST_F
                           /\ f.k = w.k /\ f.l = 0 /\ f.m = 0
    <3>1. /\ Final(r) \in Round /\ Final(r).state = ST_F
          /\ Final(r).k = r.k /\ Final(r).l = r.l /\ Final(r).m = 0
      BY RoundSteps, StepCounters
    <3> QED BY <2>1, <3>1
  <2>3. LeadersAgree(m)
    BY <1>2, <1>16 DEF RecvL, Receives, LeadersAgree
  <2>4. \/ SetRound(m, r) /\ Answer(m, votes)
        \/ AtOnce(m) /\ SetRound(m, f) /\ Answer(m, votes \cup finals)
    BY <1>16, <2>1, <2>2 DEF RecvL
  <2>5. CASE SetRound(m, r) /\ Answer(m, votes)
    <3>1. Counts(m, r)
      BY <1>1, <2>1, <2>3 DEF Counts, One, LeadersAgree, ST_D
    <3>2. Effect(m, r, votes)
      BY <2>1, <2>3 DEF Effect, Confirming
    <3> QED BY <1>6, <2>5, <3>1, <3>2
  <2>6. CASE AtOnce(m) /\ SetRound(m, f) /\ Answer(m, votes \cup finals)
    <3>1. Effect(m, f, votes \cup finals)
      BY <2>2, <2>3, <2>6 DEF Effect, ConfirmingLast, AtOnce
    <3>2. f.k <= w.k /\ f.l <= w.l /\ f.m <= w.m
      BY <1>1, <2>2
    <3> HIDE DEF votes, finals
    <3> QED BY <1>3, <2>6, <3>1, <3>2
  <2> QED BY <2>4, <2>5, <2>6
<1>17. CASE RecvM(m)
  <2>1. PICK f \in Round : /\ f = Final(w) /\ f.state = ST_F
                           /\ f.k = w.k /\ f.l = w.l /\ f.m = 0
    BY <1>1, RoundSteps, StepCounters
  <2>2. /\ SetRound(m, f)
        /\ Answer(m, Forward(m, "n", MyFollowers(m.to, m.trxn)))
        /\ m.xit = "m" /\ w.state < ST_E
        /\ w.m + 1 >= LeaderQuorum(m.to, m.trxn)
    BY <1>17, <2>1 DEF RecvM, Receives
  <2>3. Effect(m, f, Forward(m, "n", MyFollowers(m.to, m.trxn)))
    BY <1>2, <2>1, <2>2 DEF Effect, Committing
  <2>4. f.k <= w.k /\ f.l <= w.l /\ f.m <= w.m
    BY <1>1, <2>1
  <2> QED BY <1>3, <2>2, <2>3, <2>4
<1>18. CASE RecvN(m)
  <2>1. PICK f \in Round : /\ f = [w EXCEPT !.state = ST_F] /\ f.state = ST_F
                           /\ f.k = w.k /\ f.l = w.l /\ f.m = w.m
    <3>1. ST_F \in State
      BY DEF State, ST_NULL, ST_F
    <3> QED BY <1>1, <3>1, StateSet
  <2>2. /\ SetRound(m, f) /\ Answer(m, {}) /\ m.xit = "n" /\ ~IsLate(m)
        /\ ~Leads(m.to, m.trxn)
    BY <1>18, <2>1 DEF RecvN, Receives
  <2>3. Effect(m, f, {})
    BY <1>1, <2>1, <2>2 DEF Effect, Following, IsLate, ST_F
  <2>4. f.k <= w.k /\ f.l <= w.l /\ f.m <= w.m
    BY <1>1, <2>1
  <2> QED BY <1>3, <2>2, <2>3, <2>4
<1> QED
  BY <1>8, <1>9, <1>10, <1>11, <1>12, <1>13, <1>14, <1>15, <1>16, <1>17, <1>18
  DEF Deliver

-----------------------------------------------------------------------------
(* The invariant: what a message that was sent says about its sender, and   *)
(* what a counter says about the messages.                                  *)

Handled == sent \ pending

\* Whose vote of kind xit the node x has handled.
Heard(xit, x, t) ==
  {m.from : m \in {v \in Handled : v.xit = xit /\ v.trxn = t /\ v.to = x}}

\* Who sent v could be reached itself, has the role for it, and has come to
\* the state v stands for; a follower votes because of a proposal.
Source(v) ==
  LET state == round[v.from][v.trxn].state
  IN  /\ v.to \notin Down
      /\ v.xit # "i" => v.from \notin Down
      /\ v.xit \in {"j", "l", "m", "n"} => Leads(v.from, v.trxn)
      /\ v.xit = "j" => state >= ST_B
      /\ v.xit = "k" => \E w \in Handled :
                          w.xit = "j" /\ w.trxn = v.trxn /\ w.to = v.from
      /\ v.xit = "l" => state >= ST_C
      /\ v.xit = "m" => state >= ST_D
      /\ v.xit = "n" => state = ST_F
      /\ v.xit \in {"l", "m"} => v.to \in MyPeers(v.from, v.trxn)
Sources == \A v \in sent : Source(v)

\* No vote is sent twice to one node.
SameVote(v, w) ==
  v.xit = w.xit /\ v.trxn = w.trxn /\ v.from = w.from /\ v.to = w.to
Single == \A v, w \in sent : v.xit # "i" /\ SameVote(v, w) => v = w

\* A leader that has voted has told every peer it could reach.
HasTold(xit, x, t) ==
  \A y \in MyPeers(x, t) \ Down :
    \E v \in sent : v.xit = xit /\ v.trxn = t /\ v.from = x /\ v.to = y
Announced(x, t) ==
  /\ round[x][t].state = ST_C => HasTold("l", x, t)
  /\ round[x][t].state = ST_D => HasTold("m", x, t)

\* A counter has counted votes that were cast, each once, and the node's own.
CountsOK(x, t) ==
  LET r == round[x][t]
  IN  /\ r.k <= Cardinality(Heard("k", x, t)) + One(r.state >= ST_B)
      /\ r.l <= Cardinality(Heard("l", x, t)) + One(r.state >= ST_C)
      /\ r.m <= Cardinality(Heard("m", x, t)) + One(r.state >= ST_D)

VotesOK ==
  /\ TypeOK /\ RolesOK /\ Sources /\ Single
  /\ \A x \in Node, t \in Trxn : Announced(x, t) /\ CountsOK(x, t)

-----------------------------------------------------------------------------
(* The invariant is kept by a delivery.                                     *)

LEMMA ForwardIs ==
  ASSUME NEW m, NEW xit, NEW hosts
  PROVE  /\ \A v \in Forward(m, xit, hosts) :
              /\ v.xit = xit /\ v.trxn = m.trxn /\ v.from = m.to
              /\ v.to \in hosts \ Down
         /\ \A v, w \in Forward(m, xit, hosts) : v.to = w.to => v = w
         /\ \A y \in hosts \ Down : \E v \in Forward(m, xit, hosts) : v.to = y
<1>1. \A v \in Forward(m, xit, hosts) :
        /\ v.xit = xit /\ v.trxn = m.trxn /\ v.from = m.to
        /\ v.to \in hosts \ Down
  BY DEF Forward, Multicast
<1>2. \A v, w \in Forward(m, xit, hosts) : v.to = w.to => v = w
  BY DEF Forward, Multicast
<1>3. \A y \in hosts \ Down : \E v \in Forward(m, xit, hosts) : v.to = y
  <2> TAKE y \in hosts \ Down
  <2> DEFINE v == [xit |-> xit, trxn |-> m.trxn, from |-> m.to, to |-> y,
                   fence |-> m.fence, epoch |-> epoch[m.to]]
  <2>1. v \in Forward(m, xit, hosts) /\ v.to = y
    BY DEF Forward, Multicast
  <2> QED BY <2>1
<1> QED BY <1>1, <1>2, <1>3

\* States only go forward, and only where m is handled.
LEMMA EffectRound ==
  ASSUME TypeOK, NEW m \in pending, NEW r \in Round, NEW msgs,
         SetRound(m, r), Effect(m, r, msgs)
  PROVE  /\ m.to \in Node /\ m.trxn \in Trxn
         /\ RoundAt(m).state \in 0..6 /\ r.state \in 0..6
         /\ r.state >= RoundAt(m).state
         /\ round'[m.to][m.trxn] = r
         /\ \A x \in Node, t \in Trxn :
              /\ round[x][t].state \in 0..6
              /\ round'[x][t].state >= round[x][t].state
              /\ x # m.to \/ t # m.trxn => round'[x][t] = round[x][t]
<1>1. /\ m.to \in Node /\ m.trxn \in Trxn /\ RoundAt(m) \in Round
      /\ RoundAt(m).state \in 0..6 /\ r.state \in 0..6
  BY MessageType, StepCounters
<1>2. r.state >= RoundAt(m).state
  BY <1>1 DEF Effect, Silent, Proposing, Voting, Agreeing, Confirming, LeadersAgree,
              ConfirmingLast, Committing, Following,
              ST_NULL, ST_B, ST_C, ST_D, ST_E, ST_F
<1>3. \A x \in Node, t \in Trxn : round[x][t] \in Round /\ round[x][t].state \in 0..6
  <2> TAKE x \in Node, t \in Trxn
  <2>1. round[x][t] \in Round
    BY DEF TypeOK
  <2> QED BY <2>1, StepCounters
<1>4. /\ round'[m.to][m.trxn] = r
      /\ \A x \in Node, t \in Trxn :
           x # m.to \/ t # m.trxn => round'[x][t] = round[x][t]
  BY <1>1 DEF SetRound, TypeOK
<1>5. ASSUME NEW x \in Node, NEW t \in Trxn
      PROVE  round'[x][t].state >= round[x][t].state
  <2>1. CASE x = m.to /\ t = m.trxn
    BY <1>2, <1>4, <2>1 DEF RoundAt
  <2>2. CASE x # m.to \/ t # m.trxn
    BY <1>3, <1>4, <2>2
  <2> QED BY <2>1, <2>2
<1> QED BY <1>1, <1>2, <1>3, <1>4, <1>5

\* What is sent was not sent before, by anyone to anyone.
LEMMA EffectFresh ==
  ASSUME TypeOK, RolesOK, Sources, Single, NEW m \in pending, NEW r \in Round,
         NEW msgs, Effect(m, r, msgs)
  PROVE  /\ \A v \in msgs :
              /\ v.xit # "i" /\ v.trxn = m.trxn /\ v.from = m.to /\ v.to \notin Down
              /\ \A w \in sent : ~(v.xit = w.xit /\ v.trxn = w.trxn /\ v.from = w.from)
         /\ \A v, w \in msgs : SameVote(v, w) => v = w
<1> DEFINE F(xit, hosts) == Forward(m, xit, hosts)
           Fresh(xit) == \A w \in sent :
                           ~(xit = w.xit /\ m.trxn = w.trxn /\ m.to = w.from)
<1>1. /\ m.to \in Node /\ m.trxn \in Trxn /\ m \in sent
      /\ RoundAt(m).state \in 0..6
  <2>1. RoundAt(m) \in Round
    BY MessageType
  <2> QED BY <2>1, MessageType, StepCounters
<1>2. ASSUME NEW xit, NEW hosts, xit # "i", Fresh(xit)
      PROVE  /\ \A v \in F(xit, hosts) :
                  /\ v.xit = xit /\ v.xit # "i" /\ v.trxn = m.trxn /\ v.from = m.to
                  /\ v.to \notin Down
                  /\ \A w \in sent :
                       ~(v.xit = w.xit /\ v.trxn = w.trxn /\ v.from = w.from)
             /\ \A v, w \in F(xit, hosts) : SameVote(v, w) => v = w
  BY <1>2, ForwardIs DEF SameVote
<1>3. \A w \in sent : w.from = m.to /\ w.trxn = m.trxn =>
        /\ w.xit = "j" => RoundAt(m).state >= ST_B
        /\ w.xit = "l" => RoundAt(m).state >= ST_C
        /\ w.xit = "m" => RoundAt(m).state >= ST_D
        /\ w.xit = "n" => RoundAt(m).state = ST_F
  BY DEF Sources, Source, RoundAt
<1> HIDE DEF F
<1>4. CASE Silent(m, r, msgs) \/ Following(m, r, msgs)
  BY <1>4 DEF Silent, Following
<1>5. CASE Proposing(m, r, msgs)
  <2>1. Fresh("j") /\ msgs = F("j", MyFollowers(m.to, m.trxn))
    BY <1>1, <1>3, <1>5 DEF Proposing, ST_NULL, ST_B, F
  <2> QED BY <1>2, <2>1
<1>6. CASE Voting(m, r, msgs)
  <2>1. ASSUME NEW w \in sent, w.xit = "k", w.trxn = m.trxn, w.from = m.to
        PROVE  FALSE
    <3>1. PICK u \in Handled : u.xit = "j" /\ u.trxn = m.trxn /\ u.to = m.to
      BY <2>1 DEF Sources, Source
    <3>2. m.xit = "j" /\ u \in sent /\ u \notin pending
      BY <1>6, <3>1 DEF Voting, Handled
    <3>3. u.from = MyLeader(m.to, m.trxn) /\ m.from = MyLeader(m.to, m.trxn)
      BY <1>1, <3>1, <3>2 DEF RolesOK, InRole
    <3>4. u = m
      BY <1>1, <3>1, <3>2, <3>3 DEF Single, SameVote
    <3> QED BY <3>2, <3>4
  <2>2. Fresh("k") /\ msgs = F("k", {MyLeader(m.to, m.trxn)})
    BY <1>6, <2>1 DEF Voting, F
  <2> QED BY <1>2, <2>2
<1>7. CASE Agreeing(m, r, msgs)
  <2>1. Fresh("l") /\ msgs = F("l", MyPeers(m.to, m.trxn))
    BY <1>1, <1>3, <1>7 DEF Agreeing, ST_C, F
  <2> QED BY <1>2, <2>1
<1>8. CASE Confirming(m, r, msgs)
  <2>1. Fresh("m") /\ msgs = F("m", MyPeers(m.to, m.trxn))
    BY <1>1, <1>3, <1>8 DEF Confirming, LeadersAgree, ST_D, F
  <2> QED BY <1>2, <2>1
<1>9. CASE ConfirmingLast(m, r, msgs)
  <2>1. Fresh("m") /\ Fresh("n")
    BY <1>1, <1>3, <1>9 DEF ConfirmingLast, LeadersAgree, ST_D, ST_F
  <2>2. msgs = F("m", MyPeers(m.to, m.trxn)) \cup F("n", MyFollowers(m.to, m.trxn))
    BY <1>9 DEF ConfirmingLast, F
  <2> HIDE DEF Fresh
  <2> QED BY <1>2, <2>1, <2>2 DEF SameVote
<1>10. CASE Committing(m, r, msgs)
  <2>1. Fresh("n") /\ msgs = F("n", MyFollowers(m.to, m.trxn))
    BY <1>1, <1>3, <1>10 DEF Committing, ST_E, ST_F, F
  <2> QED BY <1>2, <2>1
<1> QED BY <1>4, <1>5, <1>6, <1>7, <1>8, <1>9, <1>10 DEF Effect

\* A delivery handles its own message and no other.
LEMMA HandledStep ==
  ASSUME TypeOK, RolesOK, Sources, Single, NEW m \in pending, NEW r \in Round,
         NEW msgs, Effect(m, r, msgs), Answer(m, msgs)
  PROVE  Handled' = Handled \cup {m} /\ m \notin Handled /\ sent' = sent \cup msgs
<1>1. \A v \in msgs : v \notin sent
  BY EffectFresh
<1> QED BY <1>1, MessageType DEF Answer, Handled

LEMMA SingleStep ==
  ASSUME TypeOK, RolesOK, Sources, Single, NEW m \in pending, NEW r \in Round,
         NEW msgs, Effect(m, r, msgs), Answer(m, msgs)
  PROVE  Single'
<1>1. sent' = sent \cup msgs
  BY DEF Answer
<1>2. /\ \A v \in msgs, w \in sent : ~SameVote(v, w) /\ ~SameVote(w, v)
      /\ \A v, w \in msgs : SameVote(v, w) => v = w
  BY EffectFresh DEF SameVote
<1> QED BY <1>1, <1>2 DEF Single

\* A state that has been reached stays reached, and a proposal handled.
LEMMA SourcesStep ==
  ASSUME TypeOK, RolesOK, Sources, Single, NEW m \in pending, NEW r \in Round,
         NEW msgs, SetRound(m, r), Effect(m, r, msgs), Answer(m, msgs)
  PROVE  Sources'
<1>1. sent' = sent \cup msgs /\ Handled' = Handled \cup {m}
  BY HandledStep
<1>2. /\ m.to \in Node /\ m.trxn \in Trxn /\ m \in sent
      /\ RoundAt(m).state \in 0..6 /\ r.state \in 0..6
      /\ round'[m.to][m.trxn] = r
  BY EffectRound, MessageType
<1>3. ASSUME NEW v \in sent PROVE Source(v)'
  <2>1. v.from \in Node /\ v.trxn \in Trxn
    BY DEF TypeOK, Message
  <2>2. /\ round[v.from][v.trxn].state \in 0..6
        /\ round'[v.from][v.trxn].state >= round[v.from][v.trxn].state
        /\ round'[v.from][v.trxn].state \in 0..6
    <3>1. /\ round[v.from][v.trxn].state \in 0..6
          /\ round'[v.from][v.trxn].state >= round[v.from][v.trxn].state
          /\ v.from # m.to \/ v.trxn # m.trxn =>
               round'[v.from][v.trxn] = round[v.from][v.trxn]
      BY <2>1, EffectRound
    <3> QED BY <1>2, <3>1
  <2>3. Source(v)
    BY DEF Sources
  <2>4. v.xit = "k" => \E w \in Handled' :
                         w.xit = "j" /\ w.trxn = v.trxn /\ w.to = v.from
    BY <1>1, <2>3 DEF Source
  <2>5. /\ v.xit = "j" => round'[v.from][v.trxn].state >= ST_B
        /\ v.xit = "l" => round'[v.from][v.trxn].state >= ST_C
        /\ v.xit = "m" => round'[v.from][v.trxn].state >= ST_D
        /\ v.xit = "n" => round'[v.from][v.trxn].state = ST_F
    BY <2>2, <2>3 DEF Source, ST_B, ST_C, ST_D, ST_F
  <2> QED BY <2>3, <2>4, <2>5 DEF Source
<1>4. m.to \notin Down
  BY <1>2 DEF Sources, Source
<1> DEFINE Good(v) == /\ v.trxn = m.trxn /\ v.from = m.to /\ v.to \notin Down
                      /\ \/ v.xit = "j" /\ r.state >= ST_B /\ Leads(m.to, m.trxn)
                         \/ v.xit = "k" /\ m.xit = "j"
                         \/ /\ v.xit = "l" /\ r.state >= ST_C /\ Leads(m.to, m.trxn)
                            /\ v.to \in MyPeers(m.to, m.trxn)
                         \/ /\ v.xit = "m" /\ r.state >= ST_D /\ Leads(m.to, m.trxn)
                            /\ v.to \in MyPeers(m.to, m.trxn)
                         \/ v.xit = "n" /\ r.state = ST_F /\ Leads(m.to, m.trxn)
<1>5. ASSUME NEW v \in msgs, Good(v) PROVE Source(v)'
  BY <1>1, <1>2, <1>4, <1>5 DEF Source
<1>6. ASSUME NEW v \in msgs PROVE Good(v)
  <2>1. CASE Silent(m, r, msgs) \/ Following(m, r, msgs)
    BY <1>6, <2>1 DEF Silent, Following
  <2>2. CASE Proposing(m, r, msgs)
    BY <1>6, <2>2, ForwardIs DEF Proposing, ST_B
  <2>3. CASE Voting(m, r, msgs)
    BY <1>6, <2>3, ForwardIs DEF Voting
  <2>4. CASE Agreeing(m, r, msgs)
    BY <1>6, <2>4, ForwardIs DEF Agreeing, ST_C
  <2>5. CASE Confirming(m, r, msgs)
    BY <1>6, <2>5, ForwardIs DEF Confirming, LeadersAgree, ST_D
  <2>6. CASE ConfirmingLast(m, r, msgs)
    <3>1. \/ v \in Forward(m, "m", MyPeers(m.to, m.trxn))
          \/ v \in Forward(m, "n", MyFollowers(m.to, m.trxn))
      BY <1>6, <2>6 DEF ConfirmingLast
    <3>2. Leads(m.to, m.trxn) /\ r.state >= ST_D /\ r.state = ST_F
      BY <2>6 DEF ConfirmingLast, LeadersAgree, ST_D, ST_F
    <3> QED BY <3>1, <3>2, ForwardIs
  <2>7. CASE Committing(m, r, msgs)
    BY <1>6, <2>7, ForwardIs DEF Committing
  <2> QED BY <2>1, <2>2, <2>3, <2>4, <2>5, <2>6, <2>7 DEF Effect
<1> QED BY <1>1, <1>3, <1>5, <1>6 DEF Sources

\* One vote more has been heard, if m is one, and it is a new one.
LEMMA HeardStep ==
  ASSUME TypeOK, RolesOK, Sources, Single, NEW m \in pending, NEW r \in Round,
         NEW msgs, Effect(m, r, msgs), Answer(m, msgs),
         NEW xit \in {"k", "l", "m"}, NEW x \in Node, NEW t \in Trxn
  PROVE  LET mine == m.xit = xit /\ m.to = x /\ m.trxn = t
         IN  /\ Heard(xit, x, t) \in SUBSET Node
             /\ mine => m.from \in Node \ Heard(xit, x, t)
             /\ Heard(xit, x, t)' = Heard(xit, x, t)
                                      \cup (IF mine THEN {m.from} ELSE {})
             /\ Cardinality(Heard(xit, x, t)) \in Nat
             /\ Cardinality(Heard(xit, x, t)')
                  = Cardinality(Heard(xit, x, t)) + One(mine)
<1> DEFINE mine == m.xit = xit /\ m.to = x /\ m.trxn = t
           H == Heard(xit, x, t)
<1>1. Handled' = Handled \cup {m} /\ m \notin Handled /\ m \in sent /\ m.from \in Node
  BY HandledStep, MessageType
<1>2. H \in SUBSET Node
  BY DEF Heard, Handled, TypeOK, Message
<1>3. ASSUME mine, m.from \in H PROVE FALSE
  <2>1. PICK v \in Handled : /\ v.xit = xit /\ v.trxn = t /\ v.to = x
                             /\ v.from = m.from
    BY <1>3 DEF Heard
  <2>2. v = m
    BY <1>1, <1>3, <2>1 DEF Single, SameVote, Handled
  <2> QED BY <1>1, <2>1, <2>2
<1>4. Heard(xit, x, t)' = H \cup (IF mine THEN {m.from} ELSE {})
  BY <1>1 DEF Heard
<1>5. IsFiniteSet(H) /\ Cardinality(H) \in Nat
  BY <1>2, NodesFinite
<1> HIDE DEF H
<1>6. Cardinality(Heard(xit, x, t)') = Cardinality(H) + One(mine)
  <2>1. CASE mine
    <3>1. Heard(xit, x, t)' = H \cup {m.from} /\ m.from \notin H
      BY <1>3, <1>4, <2>1
    <3> QED BY <1>5, <2>1, <3>1, FS_AddElement DEF One
  <2>2. CASE ~mine
    <3>1. Heard(xit, x, t)' = H
      BY <1>4, <2>2
    <3> QED BY <1>5, <2>2, <3>1 DEF One
  <2> QED BY <2>1, <2>2
<1> QED BY <1>1, <1>2, <1>3, <1>4, <1>5, <1>6 DEF H

LEMMA CountsStep ==
  ASSUME TypeOK, RolesOK, Sources, Single, NEW m \in pending, NEW r \in Round,
         NEW msgs, SetRound(m, r), Effect(m, r, msgs), Answer(m, msgs),
         Counts(m, r), NEW x \in Node, NEW t \in Trxn, CountsOK(x, t)
  PROVE  CountsOK(x, t)'
<1> DEFINE Ck == Cardinality(Heard("k", x, t))
           Cl == Cardinality(Heard("l", x, t))
           Cm == Cardinality(Heard("m", x, t))
           here == m.to = x /\ m.trxn = t
<1>1. /\ Ck \in Nat /\ Ck' = Ck + One(m.xit = "k" /\ here)
      /\ Cl \in Nat /\ Cl' = Cl + One(m.xit = "l" /\ here)
      /\ Cm \in Nat /\ Cm' = Cm + One(m.xit = "m" /\ here)
  BY HeardStep
<1>2. round[x][t] \in Round /\ RoundAt(m) \in Round
  BY MessageType DEF TypeOK
<1>3. /\ round[x][t].k \in Nat /\ round[x][t].l \in Nat /\ round[x][t].m \in Nat
      /\ r.k \in Nat /\ r.l \in Nat /\ r.m \in Nat
  BY <1>2, StepCounters
<1>4. /\ RoundAt(m).state \in 0..6 /\ r.state \in 0..6
      /\ r.state >= RoundAt(m).state
      /\ round'[m.to][m.trxn] = r
      /\ ~here => round'[x][t] = round[x][t]
  BY EffectRound
<1> HIDE DEF Ck, Cl, Cm
<1>5. CASE ~here
  BY <1>1, <1>3, <1>4, <1>5 DEF CountsOK, One, Ck, Cl, Cm
<1>6. CASE here
  <2> DEFINE w == RoundAt(m)
  <2>1. /\ w = round[x][t] /\ round'[x][t] = r
        /\ w.k \in Nat /\ w.l \in Nat /\ w.m \in Nat
        /\ w.state \in 0..6 /\ r.state \in 0..6 /\ r.state >= w.state
    BY <1>3, <1>4, <1>6 DEF RoundAt
  <2>2. /\ w.k <= Ck + One(w.state >= ST_B)
        /\ w.l <= Cl + One(w.state >= ST_C)
        /\ w.m <= Cm + One(w.state >= ST_D)
    BY <2>1 DEF CountsOK, Ck, Cl, Cm
  <2>3. /\ r.k <= w.k + One(m.xit = "k") + One(w.state < ST_B /\ r.state >= ST_B)
        /\ r.l <= w.l + One(m.xit = "l") + One(w.state < ST_C /\ r.state >= ST_C)
        /\ r.m <= w.m + One(m.xit = "m") + One(w.state < ST_D /\ r.state >= ST_D)
    BY DEF Counts
  <2> HIDE DEF w
  <2>4. r.k <= Ck' + One(r.state >= ST_B)
    BY <1>1, <1>3, <1>6, <2>1, <2>2, <2>3 DEF One, ST_B
  <2>5. r.l <= Cl' + One(r.state >= ST_C)
    BY <1>1, <1>3, <1>6, <2>1, <2>2, <2>3 DEF One, ST_C
  <2>6. r.m <= Cm' + One(r.state >= ST_D)
    BY <1>1, <1>3, <1>6, <2>1, <2>2, <2>3 DEF One, ST_D
  <2> QED BY <2>1, <2>4, <2>5, <2>6 DEF CountsOK, Ck, Cl, Cm
<1> QED BY <1>5, <1>6

LEMMA AnnouncedStep ==
  ASSUME TypeOK, NEW m \in pending, NEW r \in Round,
         NEW msgs, SetRound(m, r), Effect(m, r, msgs), Answer(m, msgs),
         NEW x \in Node, NEW t \in Trxn, Announced(x, t)
  PROVE  Announced(x, t)'
<1>1. sent' = sent \cup msgs
  BY DEF Answer
<1>2. ASSUME NEW xit, HasTold(xit, x, t) PROVE HasTold(xit, x, t)'
  BY <1>1, <1>2 DEF HasTold
<1>3. /\ RoundAt(m).state \in 0..6 /\ r.state >= RoundAt(m).state
      /\ round'[m.to][m.trxn] = r
      /\ x # m.to \/ t # m.trxn => round'[x][t] = round[x][t]
  BY EffectRound
<1>4. CASE round'[x][t].state = round[x][t].state
  BY <1>2, <1>4 DEF Announced
<1>5. CASE x = m.to /\ t = m.trxn /\ r.state # RoundAt(m).state
  <2>1. ASSUME NEW xit, Forward(m, xit, MyPeers(m.to, m.trxn)) \subseteq msgs
        PROVE  HasTold(xit, x, t)'
    BY <1>1, <1>5, <2>1, ForwardIs DEF HasTold
  <2>2. r.state = ST_C => msgs = Forward(m, "l", MyPeers(m.to, m.trxn))
    BY <1>5 DEF Effect, Silent, Proposing, Voting, Agreeing, Confirming,
                ConfirmingLast, Committing, Following, ST_B, ST_C, ST_D, ST_F
  <2>3. r.state = ST_D => msgs = Forward(m, "m", MyPeers(m.to, m.trxn))
    BY <1>5 DEF Effect, Silent, Proposing, Voting, Agreeing, Confirming,
                ConfirmingLast, Committing, Following, ST_B, ST_C, ST_D, ST_F
  <2> QED BY <1>3, <1>5, <2>1, <2>2, <2>3 DEF Announced
<1> QED BY <1>3, <1>4, <1>5 DEF RoundAt

LEMMA VotesDeliver ==
  ASSUME VotesOK, NEW m \in pending, Deliver(m)
  PROVE  VotesOK'
<1>1. TypeOK /\ RolesOK /\ Sources /\ Single
  BY DEF VotesOK
<1>0. PICK r \in Round : \E msgs : /\ SetRound(m, r) /\ Answer(m, msgs)
                                    /\ Counts(m, r) /\ Effect(m, r, msgs)
  BY <1>1, DeliverEffect
<1>2. PICK msgs : /\ SetRound(m, r) /\ Answer(m, msgs)
                  /\ Counts(m, r) /\ Effect(m, r, msgs)
  BY <1>0
<1>3. TypeOK' /\ RolesOK'
  BY <1>1, DeliverType, DeliverRoles
<1>4. Sources' /\ Single'
  BY <1>1, <1>2, SourcesStep, SingleStep
<1>5. \A x \in Node, t \in Trxn : Announced(x, t)' /\ CountsOK(x, t)'
  BY <1>1, <1>2, AnnouncedStep, CountsStep DEF VotesOK
<1> QED BY <1>3, <1>4, <1>5 DEF VotesOK

-----------------------------------------------------------------------------
(* The invariant is kept by everything else but a restart.                  *)

\* Counters may be erased and messages of a client be sent.
Aside(msgs) ==
  /\ sent' = sent \cup msgs /\ Handled' = Handled \ msgs
  /\ \A v \in msgs : v.xit = "i" /\ v.to \notin Down
  /\ \A x \in Node, t \in Trxn :
       LET r == round[x][t]
           s == round'[x][t]
       IN  s.state = r.state /\ s.k <= r.k /\ s.l <= r.l /\ s.m <= r.m

LEMMA CleanupCounters ==
  ASSUME TypeOK, NEW x \in Node, Cleanup(x), NEW y \in Node, NEW t \in Trxn
  PROVE  LET r == round[y][t]
             s == round'[y][t]
         IN  s.state = r.state /\ s.k <= r.k /\ s.l <= r.l /\ s.m <= r.m
<1> DEFINE erased(r, ck, cl, cm) ==
      [r EXCEPT !.k = IF ck THEN 0 ELSE @,
                !.l = IF cl THEN 0 ELSE @,
                !.m = IF cm THEN 0 ELSE @]
<1>1. ASSUME NEW r \in Round, NEW ck, NEW cl, NEW cm
      PROVE  /\ erased(r, ck, cl, cm).k <= r.k
             /\ erased(r, ck, cl, cm).l <= r.l
             /\ erased(r, ck, cl, cm).m <= r.m
  BY DEF Round
<1> HIDE DEF erased
<1>2. PICK gone : round' = [round EXCEPT ![x] = [u \in Trxn |->
                    erased(round[x][u], <<u, "k">> \in gone,
                           <<u, "l">> \in gone, <<u, "m">> \in gone)]]
  BY DEF Cleanup, erased
<1>3. round[y][t] \in Round
  BY DEF TypeOK
<1>4. /\ round[y][t].k \in Nat /\ round[y][t].l \in Nat /\ round[y][t].m \in Nat
      /\ round'[y][t].state = round[y][t].state
  BY <1>3, StepCounters, CleanupRounds
<1>5. CASE x # y
  <2>1. round'[y][t] = round[y][t]
    BY <1>2, <1>5 DEF TypeOK
  <2> QED BY <1>4, <2>1
<1>6. CASE x = y
  <2>1. round'[y][t] = erased(round[y][t], <<t, "k">> \in gone,
                              <<t, "l">> \in gone, <<t, "m">> \in gone)
    BY <1>2, <1>6 DEF TypeOK
  <2> QED BY <1>1, <1>3, <1>4, <2>1
<1> QED BY <1>5, <1>6

LEMMA OtherSteps ==
  ASSUME NoRestarts, TypeOK, [Next]_vars,
         ~\E m \in pending : Deliver(m)
  PROVE  \E msgs : Aside(msgs)
<1>1. \A x \in Node, t \in Trxn :
        /\ round[x][t].k \in Nat /\ round[x][t].l \in Nat /\ round[x][t].m \in Nat
  <2> TAKE x \in Node, t \in Trxn
  <2>1. round[x][t] \in Round
    BY DEF TypeOK
  <2> QED BY <2>1, StepCounters
<1>2. ASSUME UNCHANGED <<round, sent, pending>> PROVE Aside({})
  BY <1>1, <1>2 DEF Aside, Handled
<1>3. ASSUME NEW t \in Trxn, NEW x \in Node, Submit(x, t)
      PROVE  \E msgs : Aside(msgs)
  <2> DEFINE msgs == Multicast("i", t, x, FenceFor(x, t), LeadersOf(t))
  <2>1. \A v \in msgs : v.xit = "i" /\ v.to \notin Down
    BY DEF Multicast
  <2>2. Send(msgs) /\ UNCHANGED round
    BY <1>3 DEF Submit
  <2> HIDE DEF msgs
  <2>3. sent' = sent \cup msgs /\ Handled' = Handled \ msgs
    BY <2>2 DEF Send, Handled
  <2> QED BY <1>1, <2>1, <2>2, <2>3 DEF Aside
<1>4. ASSUME NEW t \in Trxn, NEW x \in Node, SubmitRefused(x, t)
      PROVE  UNCHANGED <<round, sent, pending>>
  BY <1>4 DEF SubmitRefused
<1>5. ASSUME NEW x \in Node, Restart(x) PROVE FALSE
  BY <1>5 DEF Restart, NoRestarts, TypeOK
<1>6. ASSUME NEW x \in Node, Cleanup(x) PROVE Aside({})
  <2>1. UNCHANGED <<sent, pending>>
    BY <1>6 DEF Cleanup
  <2> QED BY <1>6, <2>1, CleanupCounters DEF Aside, Handled
<1>7. ASSUME NEW t \in Trxn, Expire(t) PROVE UNCHANGED <<round, sent, pending>>
  BY <1>7 DEF Expire
<1>8. CASE UNCHANGED vars
  BY <1>2, <1>8 DEF vars
<1> QED BY <1>2, <1>3, <1>4, <1>5, <1>6, <1>7, <1>8 DEF Next

LEMMA VotesAside ==
  ASSUME VotesOK, TypeOK', RolesOK', NEW msgs, Aside(msgs)
  PROVE  VotesOK'
<1>1. /\ sent' = sent \cup msgs /\ Handled' = Handled \ msgs
      /\ \A v \in msgs : v.xit = "i" /\ v.to \notin Down
      /\ \A x \in Node, t \in Trxn : round'[x][t].state = round[x][t].state
  BY DEF Aside
<1>2. Sources'
  <2>1. ASSUME NEW v \in sent PROVE Source(v)'
    <3>1. Source(v) /\ v.from \in Node /\ v.trxn \in Trxn
      BY DEF VotesOK, Sources, TypeOK, Message
    <3>2. round'[v.from][v.trxn].state = round[v.from][v.trxn].state
      BY <1>1, <3>1
    <3>3. v.xit = "k" => \E w \in Handled' :
                           w.xit = "j" /\ w.trxn = v.trxn /\ w.to = v.from
      BY <1>1, <3>1 DEF Source
    <3> QED BY <3>1, <3>2, <3>3 DEF Source
  <2>2. ASSUME NEW v \in msgs PROVE Source(v)'
    BY <1>1 DEF Source
  <2> QED BY <1>1, <2>1, <2>2 DEF Sources
<1>3. Single'
  BY <1>1 DEF VotesOK, Single, SameVote
<1>4. ASSUME NEW x \in Node, NEW t \in Trxn PROVE Announced(x, t)'
  <2>1. Announced(x, t)
    BY DEF VotesOK
  <2> QED BY <1>1, <2>1 DEF Announced, HasTold
<1>5. ASSUME NEW x \in Node, NEW t \in Trxn PROVE CountsOK(x, t)'
  <2>1. ASSUME NEW xit \in {"k", "l", "m"}
        PROVE  /\ Heard(xit, x, t)' = Heard(xit, x, t)
               /\ Cardinality(Heard(xit, x, t)) \in Nat
    <3>1. Heard(xit, x, t)' = Heard(xit, x, t)
      BY <1>1 DEF Heard
    <3>2. Heard(xit, x, t) \in SUBSET Node
      BY DEF VotesOK, Heard, Handled, TypeOK, Message
    <3> QED BY <3>1, <3>2, NodesFinite
  <2>2. /\ CountsOK(x, t) /\ round[x][t] \in Round /\ round'[x][t] \in Round
    BY DEF VotesOK, TypeOK
  <2>3. /\ round[x][t].k \in Nat /\ round[x][t].l \in Nat /\ round[x][t].m \in Nat
        /\ round'[x][t].k \in Nat /\ round'[x][t].l \in Nat /\ round'[x][t].m \in Nat
    BY <2>2, StepCounters
  <2>4. /\ round'[x][t].k <= round[x][t].k
        /\ round'[x][t].l <= round[x][t].l
        /\ round'[x][t].m <= round[x][t].m
        /\ round'[x][t].state = round[x][t].state
    BY DEF Aside
  <2> DEFINE s == round[x][t].state
  <2>5. /\ One(s >= ST_B) \in Nat /\ One(s >= ST_C) \in Nat /\ One(s >= ST_D) \in Nat
    BY DEF One
  <2>6. /\ round'[x][t].k <= Cardinality(Heard("k", x, t)) + One(s >= ST_B)
        /\ round'[x][t].l <= Cardinality(Heard("l", x, t)) + One(s >= ST_C)
        /\ round'[x][t].m <= Cardinality(Heard("m", x, t)) + One(s >= ST_D)
    BY <2>1, <2>2, <2>3, <2>4, <2>5 DEF CountsOK
  <2> QED BY <2>1, <2>4, <2>6 DEF CountsOK
<1> QED BY <1>2, <1>3, <1>4, <1>5 DEF VotesOK

LEMMA VotesInit == Init => VotesOK
<1> SUFFICES ASSUME Init PROVE VotesOK
  OBVIOUS
<1>1. sent = {} /\ pending = {} /\ \A x \in Node, t \in Trxn : round[x][t] = NoRound
  BY DEF Init
<1>2. TypeOK /\ RolesOK
  BY <1>1, InitType DEF RolesOK
<1>3. Sources /\ Single
  BY <1>1 DEF Sources, Single
<1>4. ASSUME NEW x \in Node, NEW t \in Trxn PROVE Announced(x, t) /\ CountsOK(x, t)
  <2>1. round[x][t].state = 0
    BY <1>1 DEF NoRound, ST_NULL
  <2>2. \A xit \in {"k", "l", "m"} : Heard(xit, x, t) = {}
    BY <1>1 DEF Heard, Handled
  <2>3. CountsOK(x, t)
    <3>1. round[x][t].k = 0 /\ round[x][t].l = 0 /\ round[x][t].m = 0
      BY <1>1 DEF NoRound
    <3>2. /\ Cardinality(Heard("k", x, t)) = 0
          /\ Cardinality(Heard("l", x, t)) = 0
          /\ Cardinality(Heard("m", x, t)) = 0
      BY <2>2, FS_EmptySet
    <3> QED BY <2>1, <3>1, <3>2 DEF CountsOK, One, ST_B, ST_C, ST_D
  <2> QED BY <2>1, <2>3 DEF Announced, ST_C, ST_D
<1> QED BY <1>2, <1>3, <1>4 DEF VotesOK

LEMMA VotesStep ==
  ASSUME NoRestarts, VotesOK, [Next]_vars
  PROVE  VotesOK'
<1>1. TypeOK' /\ RolesOK'
  BY TypeStep, RolesStep DEF VotesOK
<1>2. CASE \E m \in pending : Deliver(m)
  BY <1>2, VotesDeliver
<1>3. CASE ~\E m \in pending : Deliver(m)
  BY <1>1, <1>3, OtherSteps, VotesAside DEF VotesOK
<1> QED BY <1>2, <1>3

LEMMA VotesInv ==
  ASSUME NoRestarts
  PROVE  Spec => []VotesOK
<1>1. VotesOK /\ [Next]_vars => VotesOK'
  BY VotesStep
<1> QED BY <1>1, VotesInit, PTL DEF Spec

-----------------------------------------------------------------------------
(* Enough votes counted are enough votes cast.                              *)

\* A quorum of K votes, the leader's own included.
LEMMA ZoneHasVoted ==
  ASSUME VotesOK, NEW m \in pending, NEW r \in Round, NEW msgs,
         Agreeing(m, r, msgs)
  PROVE  LET t == m.trxn
             x == m.to
         IN  Cardinality({y \in Senders("k", t) : MyLeader(y, t) = x}) + 1
               >= ZoneQuorum(x, t)
<1> DEFINE t == m.trxn
           x == m.to
           S == {y \in Senders("k", t) : MyLeader(y, t) = x}
           H == Heard("k", x, t)
<1>1. /\ x \in Node /\ t \in Trxn /\ m \in sent /\ m.from \in Node
      /\ TypeOK /\ RolesOK /\ Single /\ CountsOK(x, t)
      /\ RoundAt(m) \in Round /\ RoundAt(m).k \in Nat
  <2>1. TypeOK /\ RoundAt(m) \in Round
    BY MessageType DEF VotesOK
  <2> QED BY <2>1, MessageType, StepCounters DEF VotesOK
<1>2. S \in SUBSET Node
  BY <1>1 DEF Senders, TypeOK, Message
<1>3. IsFiniteSet(S) /\ Cardinality(S) \in Nat
  BY <1>2, NodesFinite
<1>4. ZoneQuorum(x, t) \in Int
  <2>1. Cardinality(MyFollowers(x, t)) \in Nat
    BY <1>1, HostsType, NodesFinite
  <2>2. Cardinality(MyFollowers(x, t)) + 1 \in Nat
    BY <2>1
  <2> QED BY <2>2, QuorumType DEF ZoneQuorum
<1>5. CASE 1 >= ZoneQuorum(x, t)
  <2> HIDE DEF S
  <2> QED BY <1>3, <1>4, <1>5 DEF S
<1>6. CASE m.xit = "k" /\ RoundAt(m).k + 1 >= ZoneQuorum(x, t)
  <2>1. H \cup {m.from} \in SUBSET S
    <3>1. \A v \in sent : v.xit = "k" /\ v.trxn = t /\ v.to = x => v.from \in S
      BY <1>1 DEF Senders, RolesOK, InRole
    <3> HIDE DEF S
    <3> QED BY <1>1, <1>6, <3>1 DEF Heard, Handled
  <2>2. m.from \notin H
    BY <1>1, <1>6 DEF Heard, Handled, Single, SameVote
  <2>3. IsFiniteSet(H) /\ Cardinality(H) \in Nat
    <3>1. H \in SUBSET S
      BY <2>1
    <3> HIDE DEF S
    <3> QED BY <1>3, <3>1, FS_Subset, FS_CardinalityType
  <2> HIDE DEF S, H
  <2>4. Cardinality(H) + 1 <= Cardinality(S)
    <3>1. Cardinality(H \cup {m.from}) = Cardinality(H) + 1
      BY <2>2, <2>3, FS_AddElement
    <3> QED BY <1>3, <2>1, <3>1, FS_Subset
  <2>5. RoundAt(m).k <= Cardinality(H) + One(RoundAt(m).state >= ST_B)
    BY <1>1 DEF CountsOK, RoundAt, H
  <2>6. Cardinality(S) + 1 >= ZoneQuorum(x, t)
    BY <1>1, <1>3, <1>4, <1>6, <2>3, <2>4, <2>5 DEF One
  <2> QED BY <2>6 DEF S
<1> QED BY <1>5, <1>6 DEF Agreeing

\* Leaders hear from their peers only, and not from themselves.
LEMMA PeersHeard ==
  ASSUME VotesOK, NEW xit \in {"l", "m"}, NEW x \in Node, NEW t \in Trxn,
         Leads(x, t)
  PROVE  \A v \in sent : v.xit = xit /\ v.trxn = t /\ v.to = x =>
           /\ v.from \in Node /\ v.from \in Senders(xit, t) /\ v.from # x
           /\ v.from \in MyPeers(x, t) \ Down
<1> SUFFICES ASSUME NEW v \in sent, v.xit = xit, v.trxn = t, v.to = x
             PROVE  /\ v.from \in Node /\ v.from \in Senders(xit, t) /\ v.from # x
                    /\ v.from \in MyPeers(x, t) \ Down
  OBVIOUS
<1>1. /\ v.from \in Node /\ v.from \notin Down
      /\ Leads(v.from, t) /\ x \in MyPeers(v.from, t)
  BY DEF VotesOK, TypeOK, Message, Sources, Source
<1>2. /\ v.from \in LeadersOf(t) /\ x # v.from
      /\ MyPeers(x, t) = LeadersOf(t) \ {x}
  BY <1>1, PeersAreLeaders
<1> QED BY <1>1, <1>2 DEF Senders

\* A leader that has voted and could reach a peer is among those who voted.
LEMMA OwnVote ==
  ASSUME NEW xit, NEW x \in Node, NEW t \in Trxn, HasTold(xit, x, t),
         MyPeers(x, t) \ Down # {}
  PROVE  x \in Senders(xit, t)
BY DEF HasTold, Senders

\* c votes counted, one of them in m or the leader's own, of votes that were
\* cast.
LEMMA LeadersHaveVoted ==
  ASSUME VotesOK, NEW xit \in {"l", "m"}, NEW x \in Node, NEW t \in Trxn,
         Leads(x, t), NEW y \in Node \ Heard(xit, x, t),
         NEW S \in SUBSET Node, Senders(xit, t) \cup {y} \subseteq S
  PROVE  /\ Cardinality(Heard(xit, x, t)) \in Nat /\ Cardinality(S) \in Nat
         /\ Cardinality(Heard(xit, x, t)) + 1 <= Cardinality(S)
         /\ x \in S /\ x # y =>
              Cardinality(Heard(xit, x, t)) + 2 <= Cardinality(S)
<1> DEFINE H == Heard(xit, x, t)
<1>1. H \subseteq Senders(xit, t) /\ x \notin H
  BY PeersHeard DEF Heard, Handled
<1>2. H \in SUBSET Node /\ H \cup {y} \in SUBSET S
  BY <1>1
<1> HIDE DEF H
<1>3. /\ IsFiniteSet(H) /\ Cardinality(H) \in Nat
      /\ IsFiniteSet(S) /\ Cardinality(S) \in Nat
  BY <1>2, NodesFinite
<1>4. /\ IsFiniteSet(H \cup {y}) /\ y \notin H
      /\ Cardinality(H \cup {y}) = Cardinality(H) + 1
  BY <1>3, FS_AddElement DEF H
<1>5. Cardinality(H \cup {y}) <= Cardinality(S)
  BY <1>2, <1>3, FS_Subset
<1>6. ASSUME x \in S, x # y
      PROVE  Cardinality(H) + 2 <= Cardinality(S)
  <2>1. x \notin H \cup {y}
    BY <1>1, <1>6
  <2>2. Cardinality((H \cup {y}) \cup {x}) = Cardinality(H \cup {y}) + 1
    BY <1>4, <2>1, FS_AddElement
  <2>3. (H \cup {y}) \cup {x} \in SUBSET S
    BY <1>2, <1>6
  <2>4. Cardinality((H \cup {y}) \cup {x}) <= Cardinality(S)
    BY <1>3, <2>3, FS_Subset
  <2> QED BY <1>3, <1>4, <2>2, <2>4
<1> QED BY <1>3, <1>4, <1>5, <1>6 DEF H

\* A counted quorum of L or of M votes, m's and the leader's own included.
LEMMA QuorumHasVoted ==
  ASSUME VotesOK, NEW m \in pending, m.xit \in {"l", "m"},
         Leads(m.to, m.trxn), NEW c \in Nat, NEW own \in Nat,
         c <= Cardinality(Heard(m.xit, m.to, m.trxn)) + own,
         \/ own = 0
         \/ own = 1 /\ HasTold(m.xit, m.to, m.trxn),
         c + 1 >= LeaderQuorum(m.to, m.trxn)
  PROVE  Cardinality(Senders(m.xit, m.trxn)) >= LeaderQuorum(m.to, m.trxn)
<1> DEFINE x == m.to
           t == m.trxn
           S == Senders(m.xit, t)
           H == Heard(m.xit, x, t)
<1>1. /\ x \in Node /\ t \in Trxn /\ m \in sent
      /\ TypeOK /\ Single
  BY MessageType DEF VotesOK
<1>2. /\ m.from \in Node /\ m.from \in S /\ m.from # x
      /\ m.from \in MyPeers(x, t) \ Down
  BY <1>1, PeersHeard
<1>3. m.from \notin H
  BY <1>1 DEF Heard, Handled, Single, SameVote
<1>4. S \in SUBSET Node
  BY <1>1 DEF Senders, TypeOK, Message
<1>5. own = 1 => x \in S
  BY <1>1, <1>2, OwnVote
<1>6. /\ Cardinality(H) \in Nat /\ Cardinality(S) \in Nat
      /\ Cardinality(H) + 1 <= Cardinality(S)
      /\ x \in S => Cardinality(H) + 2 <= Cardinality(S)
  BY <1>1, <1>2, <1>3, <1>4, LeadersHaveVoted
<1>7. LeaderQuorum(x, t) \in Int
  <2>1. Cardinality(MyPeers(x, t)) \in Nat
    BY <1>1, HostsType, NodesFinite
  <2>2. Cardinality(MyPeers(x, t)) + 1 \in Nat
    BY <2>1
  <2> QED BY <2>2, QuorumType DEF LeaderQuorum
<1> HIDE DEF S, H
<1>8. Cardinality(S) >= LeaderQuorum(x, t)
  BY <1>5, <1>6, <1>7 DEF H
<1> QED BY <1>8 DEF S

-----------------------------------------------------------------------------
(* Every step is one of VoteCommit, or none.                                *)

Cast(xit) == [t \in Trxn |-> Senders(xit, t)]
Finals == [t \in Trxn |-> FinalAt(t)]

\* What VoteCommit sees of a delivery.
LEMMA AbstractStep ==
  ASSUME VotesOK, NEW m \in pending, NEW r \in Round, NEW msgs,
         SetRound(m, r), Answer(m, msgs), Effect(m, r, msgs)
  PROVE  /\ \A xit : Cast(xit)' = IF \E v \in msgs : v.xit = xit
                                  THEN [Cast(xit) EXCEPT ![m.trxn] = @ \cup {m.to}]
                                  ELSE Cast(xit)
         /\ Finals' = IF r.state = ST_F
                      THEN [Finals EXCEPT ![m.trxn] = @ \cup {m.to}]
                      ELSE Finals
<1>1. TypeOK /\ RolesOK /\ Sources /\ Single
  BY DEF VotesOK
<1>2. /\ m.to \in Node /\ m.trxn \in Trxn
      /\ RoundAt(m).state \in 0..6 /\ r.state \in 0..6
      /\ r.state >= RoundAt(m).state
      /\ round'[m.to][m.trxn] = r
      /\ \A x \in Node, t \in Trxn :
           x # m.to \/ t # m.trxn => round'[x][t] = round[x][t]
  BY <1>1, EffectRound
<1>3. /\ \A v \in msgs : v.trxn = m.trxn /\ v.from = m.to
      /\ sent' = sent \cup msgs
  BY <1>1, EffectFresh DEF Answer
<1>4. ASSUME NEW xit
      PROVE  Cast(xit)' = IF \E v \in msgs : v.xit = xit
                          THEN [Cast(xit) EXCEPT ![m.trxn] = @ \cup {m.to}]
                          ELSE Cast(xit)
  <2>1. ASSUME NEW t \in Trxn
        PROVE  Senders(xit, t)' = Senders(xit, t) \cup
                 (IF t = m.trxn /\ \E v \in msgs : v.xit = xit THEN {m.to} ELSE {})
    BY <1>3 DEF Senders
  <2> QED BY <1>2, <2>1 DEF Cast
<1>5. \A t \in Trxn : FinalAt(t)' = FinalAt(t) \cup
                        (IF t = m.trxn /\ r.state = ST_F THEN {m.to} ELSE {})
  <2> TAKE t \in Trxn
  <2>1. ASSUME NEW x \in Node
        PROVE  x \in FinalAt(t)' <=> \/ x \in FinalAt(t)
                                     \/ x = m.to /\ t = m.trxn /\ r.state = ST_F
    <3>1. CASE x = m.to /\ t = m.trxn
      BY <1>2, <3>1 DEF FinalAt, RoundAt, ST_F
    <3>2. CASE x # m.to \/ t # m.trxn
      BY <1>2, <3>2 DEF FinalAt
    <3> QED BY <3>1, <3>2
  <2>2. FinalAt(t) \subseteq Node /\ FinalAt(t)' \subseteq Node /\ m.to \in Node
    BY <1>2 DEF FinalAt
  <2> QED BY <2>1, <2>2
<1>6. Finals' = IF r.state = ST_F
                THEN [Finals EXCEPT ![m.trxn] = @ \cup {m.to}]
                ELSE Finals
  BY ZenonT(40), <1>2, <1>5 DEF Finals
<1> QED BY <1>4, <1>6

\* The instance has its own name for the number of elements.
LEMMA SameCardinality ==
  ASSUME NEW S
  PROVE  Promise!Cardinality(S) = Cardinality(S)
BY DEF Promise!Cardinality, Cardinality

\* VoteCommit under the mapping, written out.
LEMMA PromiseIs ==
  ASSUME NEW x \in Node, NEW t \in Trxn
  PROVE  LET zone == {y \in Senders("k", t) : MyLeader(y, t) = x}
             leaders == TwoFPlus1(Cardinality(LeadersOf(t)))
             Adds(xit) == Cast(xit)' = [Cast(xit) EXCEPT ![t] = @ \cup {x}]
             Commits == Finals' = [Finals EXCEPT ![t] = @ \cup {x}]
         IN  /\ ~Leads(x, t) /\ Adds("k")
                /\ UNCHANGED <<Cast("l"), Cast("m"), Finals>>
                => Promise!Vote(x, t)
             /\ Leads(x, t) /\ Senders("k", t) \subseteq Node
                /\ Cardinality(zone) + 1 >= TwoFPlus1(Cardinality(Members(x, t)))
                /\ Adds("l") /\ UNCHANGED <<Cast("k"), Cast("m"), Finals>>
                => Promise!Agree(x, t)
             /\ Leads(x, t) /\ Cardinality(Senders("l", t)) >= leaders
                /\ Adds("m") /\ UNCHANGED <<Cast("k"), Cast("l"), Finals>>
                => Promise!Confirm(x, t)
             /\ Leads(x, t) /\ Cardinality(Senders("l", t)) >= leaders
                /\ Cardinality(Senders("m", t) \cup {x}) >= leaders
                /\ Adds("m") /\ Commits /\ UNCHANGED <<Cast("k"), Cast("l")>>
                => Promise!ConfirmAndCommit(x, t)
             /\ Leads(x, t) /\ Cardinality(Senders("m", t)) >= leaders
                /\ Commits /\ UNCHANGED <<Cast("k"), Cast("l"), Cast("m")>>
                => Promise!Commit(x, t)
             /\ MyLeader(x, t) \in FinalAt(t)
                /\ Commits /\ UNCHANGED <<Cast("k"), Cast("l"), Cast("m")>>
                => Promise!Follow(x, t)
<1> DEFINE zone == {y \in Senders("k", t) : MyLeader(y, t) = x}
           leaders == TwoFPlus1(Cardinality(LeadersOf(t)))
           Adds(xit) == Cast(xit)' = [Cast(xit) EXCEPT ![t] = @ \cup {x}]
           Commits == Finals' = [Finals EXCEPT ![t] = @ \cup {x}]
<1>1. ASSUME ~Leads(x, t), Adds("k"), UNCHANGED <<Cast("l"), Cast("m"), Finals>>
      PROVE  Promise!Vote(x, t)
  BY <1>1 DEF Promise!Vote, Promise!Leads, Leads, Cast, Finals
<1>2. ASSUME Leads(x, t), Senders("k", t) \subseteq Node,
             Cardinality(zone) + 1 >= TwoFPlus1(Cardinality(Members(x, t))),
             Adds("l"), UNCHANGED <<Cast("k"), Cast("m"), Finals>>
      PROVE  Promise!Agree(x, t)
  BY <1>2, SameCardinality DEF Promise!Agree, Promise!Leads, Leads, Cast, Finals, Members
<1>3. ASSUME Leads(x, t), Cardinality(Senders("l", t)) >= leaders,
             Adds("m"), UNCHANGED <<Cast("k"), Cast("l"), Finals>>
      PROVE  Promise!Confirm(x, t)
  BY <1>3, SameCardinality DEF Promise!Confirm, Promise!Leads, Leads, Cast, Finals
<1>4. ASSUME Leads(x, t), Cardinality(Senders("l", t)) >= leaders,
             Cardinality(Senders("m", t) \cup {x}) >= leaders,
             Adds("m"), Commits, UNCHANGED <<Cast("k"), Cast("l")>>
      PROVE  Promise!ConfirmAndCommit(x, t)
  BY <1>4, SameCardinality DEF Promise!ConfirmAndCommit, Promise!Leads, Leads, Cast, Finals
<1>5. ASSUME Leads(x, t), Cardinality(Senders("m", t)) >= leaders,
             Commits, UNCHANGED <<Cast("k"), Cast("l"), Cast("m")>>
      PROVE  Promise!Commit(x, t)
  BY <1>5, SameCardinality DEF Promise!Commit, Promise!Leads, Leads, Cast, Finals
<1>6. ASSUME MyLeader(x, t) \in FinalAt(t),
             Commits, UNCHANGED <<Cast("k"), Cast("l"), Cast("m")>>
      PROVE  Promise!Follow(x, t)
  BY <1>6 DEF Promise!Follow, Cast, Finals
<1> QED BY <1>1, <1>2, <1>3, <1>4, <1>5, <1>6

\* A node that has committed already does not change what is final.
LEMMA FinalAlready ==
  ASSUME NEW t \in Trxn, NEW x \in FinalAt(t)
  PROVE  [Finals EXCEPT ![t] = @ \cup {x}] = Finals
<1>1. FinalAt(t) \cup {x} = FinalAt(t)
  OBVIOUS
<1> QED BY <1>1 DEF Finals

LEMMA PromiseDeliver ==
  ASSUME VotesOK, NEW m \in pending, Deliver(m)
  PROVE  [Promise!Next]_(Promise!vars)
<1> DEFINE x == m.to
           t == m.trxn
           leaders == TwoFPlus1(Cardinality(LeadersOf(t)))
<1>1. TypeOK /\ RolesOK /\ Sources /\ Single
  BY DEF VotesOK
<1>0. PICK r \in Round : \E msgs : /\ SetRound(m, r) /\ Answer(m, msgs)
                                    /\ Counts(m, r) /\ Effect(m, r, msgs)
  BY <1>1, DeliverEffect
<1>2. PICK msgs : /\ SetRound(m, r) /\ Answer(m, msgs)
                  /\ Counts(m, r) /\ Effect(m, r, msgs)
  BY <1>0
<1>3. /\ x \in Node /\ t \in Trxn /\ m \in sent
      /\ RoundAt(m) \in Round /\ RoundAt(m).state \in 0..6
      /\ RoundAt(m).l \in Nat /\ RoundAt(m).m \in Nat
  <2>1. RoundAt(m) \in Round
    BY <1>1, MessageType
  <2> QED BY <1>1, <2>1, MessageType, StepCounters
<1>4. /\ \A xit : Cast(xit)' = IF \E v \in msgs : v.xit = xit
                              THEN [Cast(xit) EXCEPT ![t] = @ \cup {x}]
                              ELSE Cast(xit)
      /\ Finals' = IF r.state = ST_F THEN [Finals EXCEPT ![t] = @ \cup {x}]
                                     ELSE Finals
  BY <1>2, AbstractStep
<1>5. ASSUME UNCHANGED <<Cast("k"), Cast("l"), Cast("m"), Finals>>
      PROVE  UNCHANGED Promise!vars
  BY <1>5 DEF Promise!vars, Cast, Finals
<1>6. ASSUME \/ Promise!Vote(x, t) \/ Promise!Agree(x, t) \/ Promise!Confirm(x, t)
             \/ Promise!Commit(x, t) \/ Promise!ConfirmAndCommit(x, t)
             \/ Promise!Follow(x, t)
      PROVE  Promise!Next
  BY <1>3, <1>6 DEF Promise!Next
<1>7. CountsOK(x, t) /\ Announced(x, t) /\ RoundAt(m) = round[x][t]
  BY <1>3 DEF VotesOK, RoundAt
<1>8. ASSUME LeadersAgree(m)
      PROVE  Cardinality(Senders("l", t)) >= leaders
  <2> DEFINE own == One(RoundAt(m).state >= ST_C)
  <2>1. RoundAt(m).l <= Cardinality(Heard("l", x, t)) + own
    BY <1>7 DEF CountsOK
  <2>2. /\ own \in Nat
        /\ \/ own = 0
           \/ own = 1 /\ HasTold("l", x, t)
    BY <1>3, <1>7, <1>8 DEF One, Announced, LeadersAgree, ST_C, ST_D
  <2> HIDE DEF own
  <2>3. Cardinality(Senders("l", t)) >= LeaderQuorum(x, t)
    BY <1>3, <1>8, <2>1, <2>2, QuorumHasVoted DEF LeadersAgree
  <2> QED BY <1>3, <1>8, <2>3, LeaderQuorumIs DEF LeadersAgree
<1>9. CASE Silent(m, r, msgs)
  <2>1. r.state = ST_F => x \in FinalAt(t)
    BY <1>3, <1>7, <1>9 DEF Silent, FinalAt
  <2>2. Finals' = Finals
    BY <1>3, <1>4, <2>1, FinalAlready
  <2> QED BY <1>4, <1>5, <1>9, <2>2 DEF Silent
<1>10. CASE Proposing(m, r, msgs)
  <2>1. /\ \A v \in msgs : v.xit = "j"
        /\ r.state # ST_F
    BY <1>10, ForwardIs DEF Proposing, ST_B, ST_F
  <2> QED BY <1>4, <1>5, <2>1
<1>11. CASE Voting(m, r, msgs)
  <2>1. \A v \in msgs : v.xit = "k"
    BY <1>11, ForwardIs DEF Voting
  <2>2. r.state = ST_F => x \in FinalAt(t)
    BY <1>3, <1>7, <1>11 DEF Voting, FinalAt
  <2>3. Finals' = Finals
    BY <1>3, <1>4, <2>2, FinalAlready
  <2>4. UNCHANGED <<Cast("l"), Cast("m"), Finals>>
    BY <1>4, <2>1, <2>3
  <2>5. CASE msgs = {}
    BY <1>4, <1>5, <2>4, <2>5
  <2>6. CASE msgs # {}
    <3>1. Cast("k")' = [Cast("k") EXCEPT ![t] = @ \cup {x}]
      BY <1>4, <2>1, <2>6
    <3> QED BY <1>3, <1>6, <1>11, <2>4, <3>1, PromiseIs DEF Voting
  <2> QED BY <2>5, <2>6
<1>12. CASE Agreeing(m, r, msgs)
  <2>1. /\ \A v \in msgs : v.xit = "l"
        /\ r.state # ST_F /\ Leads(x, t)
    BY <1>12, ForwardIs DEF Agreeing, ST_C, ST_F
  <2>2. UNCHANGED <<Cast("k"), Cast("m"), Finals>>
    BY <1>4, <2>1
  <2>3. Cardinality({y \in Senders("k", t) : MyLeader(y, t) = x}) + 1
          >= TwoFPlus1(Cardinality(Members(x, t)))
    BY <1>3, <1>12, <2>1, ZoneHasVoted, ZoneQuorumIs
  <2>4. Senders("k", t) \subseteq Node
    BY <1>1 DEF Senders, TypeOK, Message
  <2>5. CASE msgs = {}
    BY <1>4, <1>5, <2>2, <2>5
  <2>6. CASE msgs # {}
    <3>1. Cast("l")' = [Cast("l") EXCEPT ![t] = @ \cup {x}]
      BY <1>4, <2>1, <2>6
    <3> QED BY <1>3, <1>6, <2>1, <2>2, <2>3, <2>4, <3>1, PromiseIs
  <2> QED BY <2>5, <2>6
<1>13. CASE Confirming(m, r, msgs)
  <2>1. /\ \A v \in msgs : v.xit = "m"
        /\ r.state # ST_F /\ Leads(x, t)
    BY <1>13, ForwardIs DEF Confirming, LeadersAgree, ST_D, ST_F
  <2>2. UNCHANGED <<Cast("k"), Cast("l"), Finals>>
    BY <1>4, <2>1
  <2>3. Cardinality(Senders("l", t)) >= leaders
    BY <1>8, <1>13 DEF Confirming
  <2>4. CASE msgs = {}
    BY <1>4, <1>5, <2>2, <2>4
  <2>5. CASE msgs # {}
    <3>1. Cast("m")' = [Cast("m") EXCEPT ![t] = @ \cup {x}]
      BY <1>4, <2>1, <2>5
    <3> QED BY <1>3, <1>6, <2>1, <2>2, <2>3, <3>1, PromiseIs
  <2> QED BY <2>4, <2>5
<1>14. CASE ConfirmingLast(m, r, msgs)
  <2>1. /\ LeadersAgree(m) /\ r.state = ST_F /\ Leads(x, t) /\ m.xit = "l"
        /\ RoundAt(m).m + 1 >= LeaderQuorum(x, t)
        /\ \A v \in msgs : v.xit \in {"m", "n"}
    BY <1>14, ForwardIs DEF ConfirmingLast, LeadersAgree
  <2>2. UNCHANGED <<Cast("k"), Cast("l")>>
    BY <1>4, <2>1
  <2>3. \E v \in msgs : v.xit = "m"
    <3>1. m.from \in MyPeers(x, t) \ Down
      BY <1>3, <2>1, PeersHeard
    <3>2. \E v \in Forward(m, "m", MyPeers(x, t)) : v.xit = "m"
      BY <3>1, ForwardIs
    <3> QED BY <1>14, <3>2 DEF ConfirmingLast
  <2>4. /\ Cast("m")' = [Cast("m") EXCEPT ![t] = @ \cup {x}]
        /\ Finals' = [Finals EXCEPT ![t] = @ \cup {x}]
    BY <1>4, <2>1, <2>3
  <2>5. Cardinality(Senders("m", t) \cup {x}) >= leaders
    <3> DEFINE H == Heard("m", x, t)
               S == Senders("m", t) \cup {x}
    <3>1. RoundAt(m).m <= Cardinality(H) + One(RoundAt(m).state >= ST_D)
      BY <1>7 DEF CountsOK
    <3>2. One(RoundAt(m).state >= ST_D) = 0
      BY <1>3, <2>1 DEF One, LeadersAgree, ST_D
    <3>3. x \notin H
      BY <1>3, <2>1, PeersHeard DEF Heard, Handled
    <3>4. S \in SUBSET Node
      BY <1>1, <1>3 DEF Senders, TypeOK, Message
    <3>5. /\ Cardinality(H) \in Nat /\ Cardinality(S) \in Nat
          /\ Cardinality(H) + 1 <= Cardinality(S)
      BY <1>3, <2>1, <3>3, <3>4, LeadersHaveVoted
    <3>6. LeaderQuorum(x, t) \in Int
      <4>1. Cardinality(MyPeers(x, t)) \in Nat
        BY <1>3, HostsType, NodesFinite
      <4>2. Cardinality(MyPeers(x, t)) + 1 \in Nat
        BY <4>1
      <4> QED BY <4>2, QuorumType DEF LeaderQuorum
    <3> HIDE DEF H, S
    <3>7. Cardinality(S) >= LeaderQuorum(x, t)
      BY <1>3, <2>1, <3>1, <3>2, <3>5, <3>6
    <3> QED BY <1>3, <2>1, <3>7, LeaderQuorumIs DEF S
  <2> QED BY <1>3, <1>6, <1>8, <2>1, <2>2, <2>4, <2>5, PromiseIs
<1>15. CASE Committing(m, r, msgs)
  <2>1. /\ \A v \in msgs : v.xit = "n"
        /\ r.state = ST_F /\ Leads(x, t) /\ m.xit = "m"
        /\ RoundAt(m).state < ST_E /\ RoundAt(m).m + 1 >= LeaderQuorum(x, t)
    BY <1>15, ForwardIs DEF Committing
  <2>2. UNCHANGED <<Cast("k"), Cast("l"), Cast("m")>>
    BY <1>4, <2>1
  <2>3. Finals' = [Finals EXCEPT ![t] = @ \cup {x}]
    BY <1>4, <2>1
  <2> DEFINE own == One(RoundAt(m).state >= ST_D)
  <2>4. RoundAt(m).m <= Cardinality(Heard("m", x, t)) + own
    BY <1>7 DEF CountsOK
  <2>5. /\ own \in Nat
        /\ \/ own = 0
           \/ own = 1 /\ HasTold("m", x, t)
    BY <1>3, <1>7, <2>1 DEF One, Announced, ST_D, ST_E
  <2> HIDE DEF own
  <2>6. Cardinality(Senders("m", t)) >= LeaderQuorum(x, t)
    BY <1>3, <2>1, <2>4, <2>5, QuorumHasVoted
  <2>7. Cardinality(Senders("m", t)) >= leaders
    BY <1>3, <2>1, <2>6, LeaderQuorumIs
  <2> QED BY <1>3, <1>6, <2>1, <2>2, <2>3, <2>7, PromiseIs
<1>16. CASE Following(m, r, msgs)
  <2>1. msgs = {} /\ r.state = ST_F /\ m.xit = "n"
    BY <1>16 DEF Following
  <2>2. /\ UNCHANGED <<Cast("k"), Cast("l"), Cast("m")>>
        /\ Finals' = [Finals EXCEPT ![t] = @ \cup {x}]
    BY <1>4, <2>1
  <2>3. m.from = MyLeader(x, t)
    BY <1>1, <1>3, <2>1 DEF RolesOK, InRole
  <2>4. m.from \in Node /\ round[m.from][t].state = ST_F
    BY <1>1, <1>3, <2>1, MessageType DEF Sources, Source
  <2>5. MyLeader(x, t) \in FinalAt(t)
    BY <2>3, <2>4 DEF FinalAt
  <2> QED BY <1>3, <1>6, <2>2, <2>5, PromiseIs
<1> QED
  BY <1>2, <1>9, <1>10, <1>11, <1>12, <1>13, <1>14, <1>15, <1>16 DEF Effect

LEMMA PromiseStep ==
  ASSUME NoRestarts, VotesOK, [Next]_vars
  PROVE  [Promise!Next]_(Promise!vars)
<1>1. CASE \E m \in pending : Deliver(m)
  BY <1>1, PromiseDeliver
<1>2. CASE ~\E m \in pending : Deliver(m)
  <2>1. PICK msgs : Aside(msgs)
    BY <1>2, OtherSteps DEF VotesOK
  <2>2. \A xit \in {"k", "l", "m"}, t \in Trxn : Senders(xit, t)' = Senders(xit, t)
    BY <2>1 DEF Aside, Senders
  <2>3. \A t \in Trxn : FinalAt(t)' = FinalAt(t)
    BY <2>1 DEF Aside, FinalAt
  <2>4. /\ [t \in Trxn |-> Senders("k", t)]' = [t \in Trxn |-> Senders("k", t)]
        /\ [t \in Trxn |-> Senders("l", t)]' = [t \in Trxn |-> Senders("l", t)]
        /\ [t \in Trxn |-> Senders("m", t)]' = [t \in Trxn |-> Senders("m", t)]
        /\ [t \in Trxn |-> FinalAt(t)]' = [t \in Trxn |-> FinalAt(t)]
    BY <2>2, <2>3
  <2> QED BY <2>4 DEF Promise!vars
<1> QED BY <1>1, <1>2

LEMMA PromiseInit == Init => Promise!Init
<1> SUFFICES ASSUME Init PROVE Promise!Init
  OBVIOUS
<1>1. sent = {} /\ \A x \in Node, t \in Trxn : round[x][t].state = 0
  BY DEF Init, NoRound, ST_NULL
<1>2. \A t \in Trxn : FinalAt(t) = {} /\ \A xit : Senders(xit, t) = {}
  BY <1>1 DEF Senders, FinalAt, ST_F
<1>3. /\ [t \in Trxn |-> Senders("k", t)] = [t \in Trxn |-> {}]
      /\ [t \in Trxn |-> Senders("l", t)] = [t \in Trxn |-> {}]
      /\ [t \in Trxn |-> Senders("m", t)] = [t \in Trxn |-> {}]
      /\ [t \in Trxn |-> FinalAt(t)] = [t \in Trxn |-> {}]
  BY <1>2
<1> QED BY <1>3 DEF Promise!Init

\* Without restarts the network does what VoteCommit promises: whatever is
\* lost, late, reordered or erased, no leader agrees, confirms or commits
\* before enough nodes have really voted, agreed or confirmed.
THEOREM PromiseKept ==
  ASSUME NoRestarts
  PROVE  Spec => KeepsPromise
<1>1. VotesOK /\ [Next]_vars => [Promise!Next]_(Promise!vars)
  BY PromiseStep
<1> QED BY <1>1, PromiseInit, VotesInv, PTL DEF Spec, KeepsPromise, Promise!Spec

-----------------------------------------------------------------------------
(* The certificate.                                                         *)

\* There are leaders, so that at least one vote is needed.
LEMMA SomeNeeded ==
  ASSUME NEW t \in Trxn
  PROVE  /\ TwoFPlus1(Cardinality(LeadersOf(t))) \in Nat
         /\ TwoFPlus1(Cardinality(LeadersOf(t))) >= 1
<1>1. 1 \in Node
  BY NAssumption DEF Node
<1>2. LeadersOf(t) \in SUBSET Node /\ LeadersOf(t) # {}
  BY <1>1, HostsType DEF LeadersOf
<1>3. IsFiniteSet(LeadersOf(t)) /\ Cardinality(LeadersOf(t)) \in Nat
  BY <1>2, NodesFinite
<1>4. Cardinality(LeadersOf(t)) # 0
  BY <1>2, <1>3, FS_EmptySet
<1> QED BY <1>3, <1>4 DEF TwoFPlus1

\* The certificate of t: a commit rests on enough leaders that have confirmed,
\* a confirmation on enough leaders whose zones have agreed, a zone's agreement
\* on enough votes, and a follower has committed only if its leader has.
VotersOf(votes, y, t) == {z \in votes : MyLeader(z, t) = y}
Backed(votes, zones, leaders, finals, t) ==
  /\ finals # {} => Cardinality(leaders) >= TwoFPlus1(Cardinality(LeadersOf(t)))
  /\ leaders # {} => Cardinality(zones) >= TwoFPlus1(Cardinality(LeadersOf(t)))
  /\ \A y \in zones : Cardinality(VotersOf(votes, y, t)) + 1
                        >= TwoFPlus1(Cardinality({z \in Node : MyLeader(z, t) = y}))
  /\ \A x \in finals : MyLeader(x, t) \in finals
Certificate ==
  \A t \in Trxn :
    Backed(Senders("k", t), Senders("l", t), Senders("m", t), FinalAt(t), t)

\* What a step of VoteCommit adds to the votes V, the zones A, the leaders C and
\* the commits F of one transaction.
Extends(V, A, C, F, V2, A2, C2, F2, t) ==
  LET needed == TwoFPlus1(Cardinality(LeadersOf(t)))
  IN  \/ V2 = V /\ A2 = A /\ C2 = C /\ F2 = F
      \/ \E x \in Node :
           \/ V2 = V \cup {x} /\ A2 = A /\ C2 = C /\ F2 = F
           \/ /\ V2 = V /\ A2 = A \cup {x} /\ C2 = C /\ F2 = F
              /\ Cardinality(VotersOf(V, x, t)) + 1
                   >= TwoFPlus1(Cardinality({z \in Node : MyLeader(z, t) = x}))
           \/ /\ V2 = V /\ A2 = A /\ C2 = C \cup {x} /\ F2 = F
              /\ Cardinality(A) >= needed
           \/ /\ V2 = V /\ A2 = A /\ C2 = C /\ F2 = F \cup {x}
              /\ MyLeader(x, t) = x /\ Cardinality(C) >= needed
           \/ /\ V2 = V /\ A2 = A /\ C2 = C \cup {x} /\ F2 = F \cup {x}
              /\ Cardinality(A) >= needed
              /\ MyLeader(x, t) = x /\ Cardinality(C2) >= needed
           \/ /\ V2 = V /\ A2 = A /\ C2 = C /\ F2 = F \cup {x}
              /\ MyLeader(x, t) \in F

LEMMA PromiseExtends ==
  ASSUME [Promise!Next]_(Promise!vars), NEW t \in Trxn,
         \A xit : Senders(xit, t) \in SUBSET Node
  PROVE  Extends(Senders("k", t), Senders("l", t), Senders("m", t), FinalAt(t),
                 Senders("k", t)', Senders("l", t)', Senders("m", t)', FinalAt(t)', t)
<1> DEFINE needed == TwoFPlus1(Cardinality(LeadersOf(t)))
<1>1. /\ \A xit : Cast(xit)[t] = Senders(xit, t) /\ Cast(xit)'[t] = Senders(xit, t)'
      /\ Finals[t] = FinalAt(t) /\ Finals'[t] = FinalAt(t)'
  BY DEF Cast, Finals
<1>2. CASE UNCHANGED Promise!vars
  <2>1. UNCHANGED <<Cast("k"), Cast("l"), Cast("m"), Finals>>
    BY <1>2 DEF Promise!vars, Cast, Finals
  <2> QED BY <1>1, <2>1 DEF Extends
<1>3. CASE Promise!Next
  <2>1. PICK x \in Node, u \in Trxn :
          \/ Promise!Vote(x, u) \/ Promise!Agree(x, u) \/ Promise!Confirm(x, u)
          \/ Promise!Commit(x, u) \/ Promise!ConfirmAndCommit(x, u)
          \/ Promise!Follow(x, u)
    BY <1>3 DEF Promise!Next
  <2> DEFINE Adds(xit) == Cast(xit)' = [Cast(xit) EXCEPT ![u] = @ \cup {x}]
             Commits == Finals' = [Finals EXCEPT ![u] = @ \cup {x}]
  <2>2. CASE Promise!Vote(x, u)
    <3>1. Adds("k") /\ UNCHANGED <<Cast("l"), Cast("m"), Finals>>
      BY <2>2 DEF Promise!Vote, Cast, Finals
    <3> QED BY <1>1, <3>1 DEF Extends, Cast
  <2>3. CASE Promise!Agree(x, u)
    <3>1. Adds("l") /\ UNCHANGED <<Cast("k"), Cast("m"), Finals>>
      BY <2>3 DEF Promise!Agree, Cast, Finals
    <3>2. u = t => Cardinality(VotersOf(Senders("k", t), x, t)) + 1
                     >= TwoFPlus1(Cardinality({z \in Node : MyLeader(z, t) = x}))
      <4> SUFFICES ASSUME u = t
                   PROVE  Cardinality(VotersOf(Senders("k", t), x, t)) + 1
                            >= TwoFPlus1(Cardinality({z \in Node : MyLeader(z, t) = x}))
        OBVIOUS
      <4> DEFINE of == {z \in Senders("k", t) : [y \in Node |-> MyLeader(y, t)][z] = x}
      <4>1. Promise!Cardinality(of) + 1
              >= TwoFPlus1(Cardinality({z \in Node : MyLeader(z, t) = x}))
        BY <2>3 DEF Promise!Agree
      <4>2. of = VotersOf(Senders("k", t), x, t)
        BY DEF VotersOf
      <4> HIDE DEF of
      <4> QED BY <4>1, <4>2, SameCardinality
    <3> QED BY <1>1, <3>1, <3>2 DEF Extends, Cast
  <2>4. CASE Promise!Confirm(x, u)
    <3>1. Adds("m") /\ UNCHANGED <<Cast("k"), Cast("l"), Finals>>
      BY <2>4 DEF Promise!Confirm, Cast, Finals
    <3>2. u = t => Cardinality(Senders("l", t)) >= needed
      BY <2>4, SameCardinality DEF Promise!Confirm
    <3> QED BY <1>1, <3>1, <3>2 DEF Extends, Cast
  <2>5. CASE Promise!Commit(x, u)
    <3>1. Commits /\ UNCHANGED <<Cast("k"), Cast("l"), Cast("m")>>
      BY <2>5 DEF Promise!Commit, Cast, Finals
    <3>2. u = t => MyLeader(x, t) = x /\ Cardinality(Senders("m", t)) >= needed
      BY <2>5, SameCardinality DEF Promise!Commit, Promise!Leads
    <3> QED BY <1>1, <3>1, <3>2 DEF Extends, Finals
  <2>6. CASE Promise!ConfirmAndCommit(x, u)
    <3>1. Adds("m") /\ Commits /\ UNCHANGED <<Cast("k"), Cast("l")>>
      BY <2>6 DEF Promise!ConfirmAndCommit, Cast, Finals
    <3>2. u = t => /\ MyLeader(x, t) = x /\ Cardinality(Senders("l", t)) >= needed
                   /\ Cardinality(Senders("m", t)') >= needed
      BY <2>6, SameCardinality DEF Promise!ConfirmAndCommit, Promise!Leads
    <3> QED BY <1>1, <3>1, <3>2 DEF Extends, Cast, Finals
  <2>7. CASE Promise!Follow(x, u)
    <3>1. Commits /\ UNCHANGED <<Cast("k"), Cast("l"), Cast("m")>>
      BY <2>7 DEF Promise!Follow, Cast, Finals
    <3>2. u = t => MyLeader(x, t) \in FinalAt(t)
      BY <2>7 DEF Promise!Follow
    <3> QED BY <1>1, <3>1, <3>2 DEF Extends, Finals
  <2> QED BY <2>1, <2>2, <2>3, <2>4, <2>5, <2>6, <2>7
<1> QED BY <1>2, <1>3

\* A set of nodes that grows does not get smaller.
LEMMA NodesGrow ==
  ASSUME NEW T \in SUBSET Node, NEW S \in SUBSET T
  PROVE  /\ Cardinality(S) \in Nat /\ Cardinality(T) \in Nat
         /\ Cardinality(S) <= Cardinality(T)
<1>1. IsFiniteSet(T)
  BY NodesFinite
<1> QED BY <1>1, FS_Subset, FS_CardinalityType

\* Every action adds a node to one of the sets, or to two, with the votes that
\* it needs.
LEMMA ExtendsBacked ==
  ASSUME NEW t \in Trxn, NEW V, NEW A, NEW C, NEW F,
         NEW V2 \in SUBSET Node, NEW A2 \in SUBSET Node, NEW C2 \in SUBSET Node,
         NEW F2 \in SUBSET Node,
         Extends(V, A, C, F, V2, A2, C2, F2, t), Backed(V, A, C, F, t)
  PROVE  Backed(V2, A2, C2, F2, t)
<1> DEFINE needed == TwoFPlus1(Cardinality(LeadersOf(t)))
           zone(y) == TwoFPlus1(Cardinality({z \in Node : MyLeader(z, t) = y}))
           voters(S, y) == Cardinality(VotersOf(S, y, t))
<1>1. V \subseteq V2 /\ A \subseteq A2 /\ C \subseteq C2 /\ F \subseteq F2
  BY DEF Extends
<1>2. needed \in Nat
  BY SomeNeeded
<1>3. /\ Cardinality(C) \in Nat /\ Cardinality(C2) \in Nat
      /\ Cardinality(C) <= Cardinality(C2)
      /\ Cardinality(A) \in Nat /\ Cardinality(A2) \in Nat
      /\ Cardinality(A) <= Cardinality(A2)
  BY <1>1, NodesGrow
<1>4. ASSUME NEW y
      PROVE  /\ voters(V, y) \in Nat /\ voters(V2, y) \in Nat
             /\ voters(V, y) <= voters(V2, y)
  <2>1. VotersOf(V2, y, t) \in SUBSET Node
    BY DEF VotersOf
  <2>2. VotersOf(V, y, t) \in SUBSET VotersOf(V2, y, t)
    BY <1>1 DEF VotersOf
  <2> QED BY <2>1, <2>2, NodesGrow
<1>5. /\ F # {} => Cardinality(C) >= needed
      /\ C # {} => Cardinality(A) >= needed
      /\ \A y \in A : voters(V, y) + 1 >= zone(y)
      /\ \A x \in F : MyLeader(x, t) \in F
  BY DEF Backed
<1>6. /\ F2 = F \/ F # {} \/ Cardinality(C) >= needed \/ Cardinality(C2) >= needed
      /\ C2 = C \/ Cardinality(A) >= needed
      /\ \A y \in A2 : y \in A \/ voters(V, y) + 1 >= zone(y)
      /\ \A x \in F2 : x \in F \/ MyLeader(x, t) = x \/ MyLeader(x, t) \in F
  BY DEF Extends
<1>7. \A y \in A2 : zone(y) \in Int
  <2> TAKE y \in A2
  <2> DEFINE mine == {z \in Node : MyLeader(z, t) = y}
  <2>1. mine \in SUBSET Node
    OBVIOUS
  <2> HIDE DEF mine
  <2> QED BY <2>1, NodesFinite, QuorumType DEF mine
<1> HIDE DEF needed, zone, voters
<1>8. F2 # {} => Cardinality(C2) >= needed
  BY <1>2, <1>3, <1>5, <1>6
<1>9. C2 # {} => Cardinality(A2) >= needed
  BY <1>2, <1>3, <1>5, <1>6
<1>10. ASSUME NEW y \in A2 PROVE voters(V2, y) + 1 >= zone(y)
  BY <1>4, <1>5, <1>6, <1>7
<1>11. \A x \in F2 : MyLeader(x, t) \in F2
  BY <1>1, <1>5, <1>6
<1> QED BY <1>8, <1>9, <1>10, <1>11 DEF Backed, needed, zone, voters

LEMMA SendersNodes ==
  ASSUME TypeOK
  PROVE  \A t \in Trxn : /\ \A xit : Senders(xit, t) \in SUBSET Node
                         /\ FinalAt(t) \in SUBSET Node
BY DEF Senders, FinalAt, TypeOK, Message

LEMMA CertificateStep ==
  ASSUME TypeOK, TypeOK', Certificate, [Promise!Next]_(Promise!vars)
  PROVE  Certificate'
<1> SUFFICES ASSUME NEW t \in Trxn
             PROVE  Backed(Senders("k", t)', Senders("l", t)', Senders("m", t)',
                           FinalAt(t)', t)
  BY DEF Certificate
<1>1. \A xit : Senders(xit, t) \in SUBSET Node
  BY SendersNodes
<1>2. /\ Senders("k", t)' \in SUBSET Node /\ Senders("l", t)' \in SUBSET Node
      /\ Senders("m", t)' \in SUBSET Node /\ FinalAt(t)' \in SUBSET Node
  BY DEF Senders, FinalAt, TypeOK, Message
<1>3. Backed(Senders("k", t), Senders("l", t), Senders("m", t), FinalAt(t), t)
  BY DEF Certificate
<1>4. Extends(Senders("k", t), Senders("l", t), Senders("m", t), FinalAt(t),
              Senders("k", t)', Senders("l", t)', Senders("m", t)', FinalAt(t)', t)
  BY <1>1, PromiseExtends
<1> QED BY <1>2, <1>3, <1>4, ExtendsBacked

LEMMA CertificateInit == Init => Certificate
<1> SUFFICES ASSUME Init, NEW t \in Trxn
             PROVE  Backed(Senders("k", t), Senders("l", t), Senders("m", t),
                           FinalAt(t), t)
  BY DEF Certificate
<1>1. sent = {} /\ \A x \in Node : round[x][t].state = 0
  BY DEF Init, NoRound, ST_NULL
<1>2. FinalAt(t) = {} /\ \A xit : Senders(xit, t) = {}
  BY <1>1 DEF Senders, FinalAt, ST_F
<1> QED BY <1>2 DEF Backed

LEMMA CertificateIs ==
  ASSUME Certificate, TypeOK, RolesOK
  PROVE  CommitCertificate
<1> SUFFICES ASSUME NEW t \in Trxn, FinalAt(t) # {}
             PROVE  LET quorum == TwoFPlus1(Cardinality(LeadersOf(t)))
                    IN  /\ Cardinality(Senders("m", t)) >= quorum
                        /\ Cardinality(Senders("l", t)) >= quorum
                        /\ \A y \in Senders("l", t) :
                             Cardinality(ZoneVoters(y, t)) + 1
                               >= TwoFPlus1(Cardinality({z \in Node : MyLeader(z, t) = y}))
                        /\ \A x \in FinalAt(t) : MyLeader(x, t) \in FinalAt(t)
  BY DEF CommitCertificate, FinalAt
<1>1. Backed(Senders("k", t), Senders("l", t), Senders("m", t), FinalAt(t), t)
  BY DEF Certificate
<1>2. /\ Cardinality(Senders("m", t)) >= TwoFPlus1(Cardinality(LeadersOf(t)))
      /\ Senders("m", t) # {} =>
           Cardinality(Senders("l", t)) >= TwoFPlus1(Cardinality(LeadersOf(t)))
      /\ \A x \in FinalAt(t) : MyLeader(x, t) \in FinalAt(t)
  BY <1>1 DEF Backed
<1>3. Senders("m", t) # {}
  <2>1. Cardinality({}) = 0
    BY FS_EmptySet
  <2> QED BY <1>2, <2>1, SomeNeeded
<1>4. ASSUME NEW y \in Senders("l", t)
      PROVE  Cardinality(ZoneVoters(y, t)) + 1
               >= TwoFPlus1(Cardinality({z \in Node : MyLeader(z, t) = y}))
  <2>1. VotersOf(Senders("k", t), y, t) = ZoneVoters(y, t)
    BY DEF VotersOf, Senders, ZoneVoters, RolesOK, InRole
  <2> QED BY <1>1, <2>1 DEF Backed
<1> QED BY <1>2, <1>3, <1>4

\* A transaction is final somewhere only with the votes of 2f+1 leaders and of
\* 2f+1 members of each of their zones behind it, and at a follower only after
\* its leader: doTrxnL2 and onRecvK to onRecvN of every node together, whatever
\* is lost, reordered, cleaned up or too old, as long as no node is restarted.
THEOREM CommitsCertified ==
  ASSUME NoRestarts
  PROVE  Spec => []CommitCertificate
<1>1. Init => VotesOK /\ Certificate
  BY VotesInit, CertificateInit
<1>2. VotesOK /\ VotesOK' /\ Certificate /\ [Next]_vars => Certificate'
  BY PromiseStep, CertificateStep DEF VotesOK
<1>3. VotesOK /\ Certificate => CommitCertificate
  BY CertificateIs DEF VotesOK
<1> QED BY <1>1, <1>2, <1>3, VotesInv, PTL DEF Spec

-----------------------------------------------------------------------------
(* What a delivery does at least, of a message that passes validateTrxn.    *)

\* What the handling of a message that passes validateTrxn does at least: the
\* state it asks for is reached, and a vote that is not enough is counted.
Progress(m, r) ==
  LET w == RoundAt(m)
      x == m.to
      t == m.trxn
  IN  /\ r.state \in {w.state, ST_B, ST_C, ST_D, ST_F}
      /\ r.state = ST_B => w.state = ST_B \/ MyFollowers(x, t) # {}
      /\ m.xit = "i" => r.state # ST_NULL
      /\ m.xit = "n" => r.state = ST_F
      /\ r.state < ST_C =>
           /\ r.k >= w.k + One(m.xit = "k") + One(w.state < ST_B /\ r.state >= ST_B)
           /\ m.xit = "k" => r.k < ZoneQuorum(x, t)
      /\ r.state < ST_D =>
           /\ r.l >= w.l + One(m.xit = "l") + One(w.state < ST_C /\ r.state >= ST_C)
           /\ m.xit = "l" => r.l < LeaderQuorum(x, t)
      /\ r.state < ST_F =>
           /\ r.m >= w.m + One(m.xit = "m") + One(w.state < ST_D /\ r.state >= ST_D)
           /\ r.m = w.m \/ r.m < LeaderQuorum(x, t)

\* A valid proposal is answered with a vote, unless it comes after the commit.
Answered(m) ==
  m.xit = "j" /\ RoundAt(m).state < ST_F /\ MyLeader(m.to, m.trxn) \notin Down =>
    \E v \in sent' : /\ v.xit = "k" /\ v.trxn = m.trxn /\ v.from = m.to
                     /\ v.to = MyLeader(m.to, m.trxn)

\* The quorums of a node's zone and of its leaders are numbers.
LEMMA OwnQuorums ==
  ASSUME NEW x \in Node, NEW t \in Trxn
  PROVE  ZoneQuorum(x, t) \in Int /\ LeaderQuorum(x, t) \in Int
<1>1. MyFollowers(x, t) \in SUBSET Node /\ MyPeers(x, t) \in SUBSET Node
  BY HostsType
<1>2. /\ Cardinality(MyFollowers(x, t)) + 1 \in Nat
      /\ Cardinality(MyPeers(x, t)) + 1 \in Nat
  BY <1>1, NodesFinite
<1> QED BY <1>2, QuorumType DEF ZoneQuorum, LeaderQuorum

\* A delivery that passes the checks makes the progress its kind is meant to make.
LEMMA DeliverProgress ==
  ASSUME TypeOK, RolesOK, NEW m \in pending, Deliver(m), IsLate(m) \/ IsValid(m)
  PROVE  \E r \in Round : SetRound(m, r) /\ Progress(m, r) /\ Answered(m)
<1> DEFINE w == RoundAt(m)
           x == m.to
           t == m.trxn
           Result == \E r \in Round : SetRound(m, r) /\ Progress(m, r) /\ Answered(m)
<1>1. /\ w \in Round /\ w.state \in 0..6 /\ w.k \in Nat /\ w.l \in Nat /\ w.m \in Nat
      /\ m.to \in Node /\ m.trxn \in Trxn /\ m \in sent
      /\ x \in Node /\ t \in Trxn
  BY MessageType, StepCounters
<1>2. /\ m.xit \in {"i", "k", "l", "m"} => Leads(m.to, m.trxn)
      /\ m.xit \in {"j", "n"} => ~Leads(m.to, m.trxn)
  BY <1>1 DEF RolesOK, InRole
<1>3. ZoneQuorum(x, t) \in Int /\ LeaderQuorum(x, t) \in Int
  BY <1>1, OwnQuorums
<1>4. ASSUME NEW r \in Round, SetRound(m, r), Progress(m, r),
             m.xit # "j" \/ w.state >= ST_F
      PROVE  Result
  <2>1. Answered(m)
    BY <1>1, <1>4 DEF Answered, ST_F
  <2> QED BY <1>4, <2>1
<1>5. ASSUME UNCHANGED round PROVE SetRound(m, w)
  BY <1>1, <1>5 DEF SetRound, RoundAt, TypeOK
<1>6. ASSUME UNCHANGED round, Progress(m, w), m.xit # "j" \/ w.state >= ST_F
       PROVE  Result
  <2>1. SetRound(m, w)
    BY <1>5, <1>6
  <2> HIDE DEF w, Result
  <2> QED BY <1>1, <1>4, <1>6, <2>1
<1> HIDE DEF Result
<1> SUFFICES Result
  BY DEF Result
<1>7. CASE IsLate(m)
  <2>1. w.state >= ST_F
    BY <1>7 DEF IsLate
  <2>2. UNCHANGED round
    BY <1>7 DEF Deliver, Ignore, Reject, RecvI, RecvIAlone, RecvILate, RecvJ, RecvK,
                RecvKIgnored, RecvL, RecvLCounted, RecvLIgnored, RecvM, RecvMCounted,
                RecvN, Receives
  <2>3. w.state # ST_NULL
    BY <1>1, <2>1 DEF ST_NULL, ST_F
  <2>4. Progress(m, w)
    BY <1>1, <2>1, <2>3 DEF Progress, One, ST_NULL, ST_B, ST_C, ST_D, ST_F
  <2> QED BY <1>6, <2>1, <2>2, <2>4
<1>8. CASE Reject(m)
  BY <1>7, <1>8 DEF Reject
<1>9. CASE RecvILate(m)
  <2>1. UNCHANGED round /\ m.xit = "i" /\ w.state # ST_NULL
    BY <1>9 DEF RecvILate, Receives, ToAGood
  <2>2. Progress(m, w)
    BY <1>1, <2>1 DEF Progress, One, ST_NULL, ST_B, ST_C, ST_D, ST_F
  <2> QED BY <1>6, <2>1, <2>2
<1>10. CASE RecvKIgnored(m) \/ RecvLIgnored(m)
  <2>1. UNCHANGED round
    BY <1>10 DEF RecvKIgnored, RecvLIgnored
  <2>2. \/ m.xit = "k" /\ w.state >= ST_C
        \/ m.xit = "l" /\ w.state >= ST_D
    BY <1>10 DEF RecvKIgnored, RecvLIgnored, Receives
  <2>3. m.xit \notin {"i", "j", "m", "n"} /\ w.state >= ST_C
    BY <1>1, <2>2 DEF ST_C, ST_D
  <2>4. Progress(m, w)
    BY <1>1, <2>2, <2>3 DEF Progress, One, ST_NULL, ST_B, ST_C, ST_D, ST_F
  <2> QED BY <1>6, <2>1, <2>3, <2>4
<1>11. CASE RecvI(m)
  <2>1. PICK r \in Round : /\ r = [w EXCEPT !.state = ST_B, !.k = @ + 1]
                           /\ r.state = ST_B
                           /\ r.k = w.k + 1 /\ r.l = w.l /\ r.m = w.m
    BY <1>1, RoundSteps, StepCounters
  <2>2. /\ SetRound(m, r) /\ w.state = ST_NULL /\ m.xit = "i"
        /\ MyFollowers(x, t) # {}
    BY <1>11, <2>1 DEF RecvI, ToAGood, Receives
  <2>3. Progress(m, r)
    BY <1>1, <2>1, <2>2 DEF Progress, One, ST_NULL, ST_B, ST_C, ST_D, ST_F
  <2> QED BY <1>4, <2>2, <2>3
<1>12. CASE RecvIAlone(m)
  <2>1. PICK r \in Round : /\ r = ZoneVoted(w) /\ r.state = ST_C
                           /\ r.k = 0 /\ r.l = w.l + 1 /\ r.m = w.m
    BY <1>1, RoundSteps, StepCounters
  <2>2. SetRound(m, r) /\ w.state = ST_NULL /\ m.xit = "i"
    BY <1>12, <2>1 DEF RecvIAlone, ToAGood, Receives
  <2>3. Progress(m, r)
    BY <1>1, <2>1, <2>2 DEF Progress, One, ST_NULL, ST_B, ST_C, ST_D, ST_F
  <2> QED BY <1>4, <2>2, <2>3
<1>13. CASE RecvJ(m)
  <2>1. /\ UNCHANGED round /\ m.xit = "j"
        /\ Answer(m, Forward(m, "k", {MyLeader(x, t)}))
    BY <1>13 DEF RecvJ, Receives
  <2>2. Answered(m)
    BY <2>1, ForwardIs DEF Answered, Answer
  <2>3. Progress(m, w)
    BY <1>1, <2>1 DEF Progress, One, ST_NULL, ST_B, ST_C, ST_D, ST_F
  <2>4. SetRound(m, w)
    BY <1>5, <2>1
  <2> HIDE DEF w
  <2> QED BY <1>1, <2>2, <2>3, <2>4 DEF Result
<1>14. CASE RecvK(m)
  <2>1. PICK r \in Round : /\ r = [w EXCEPT !.k = @ + 1] /\ r.state = w.state
                           /\ r.k = w.k + 1 /\ r.l = w.l /\ r.m = w.m
    <3>1. /\ [w EXCEPT !.k = @ + 1] \in Round
          /\ [w EXCEPT !.k = @ + 1].state = w.state
          /\ [w EXCEPT !.k = @ + 1].k = w.k + 1
          /\ [w EXCEPT !.k = @ + 1].l = w.l
          /\ [w EXCEPT !.k = @ + 1].m = w.m
      BY <1>1, CountSteps, VoteCounters
    <3> QED BY <3>1
  <2>2. PICK v \in Round : /\ v = ZoneVoted(r) /\ v.state = ST_C
                           /\ v.k = 0 /\ v.l = w.l + 1 /\ v.m = w.m
    <3>1. /\ ZoneVoted(r) \in Round /\ ZoneVoted(r).state = ST_C
          /\ ZoneVoted(r).k = 0 /\ ZoneVoted(r).l = r.l + 1
          /\ ZoneVoted(r).m = r.m
      BY RoundSteps, StepCounters
    <3> QED BY <2>1, <3>1
  <2>3. /\ m.xit = "k" /\ w.state < ST_C
        /\ \/ r.k < ZoneQuorum(x, t) /\ SetRound(m, r)
           \/ SetRound(m, v)
    BY <1>14, <2>1, <2>2 DEF RecvK, Receives
  <2>4. CASE r.k < ZoneQuorum(x, t) /\ SetRound(m, r)
    <3>1. Progress(m, r)
      BY <1>1, <2>1, <2>3, <2>4 DEF Progress, One, ST_NULL, ST_B, ST_C, ST_D, ST_F
    <3> QED BY <1>4, <2>3, <2>4, <3>1
  <2>5. CASE SetRound(m, v)
    <3>1. Progress(m, v)
      BY <1>1, <2>2, <2>3 DEF Progress, One, ST_NULL, ST_B, ST_C, ST_D, ST_F
    <3> QED BY <1>4, <2>3, <2>5, <3>1
  <2> QED BY <2>3, <2>4, <2>5
<1>15. CASE RecvLCounted(m)
  <2>1. PICK r \in Round : /\ r = [w EXCEPT !.l = @ + 1] /\ r.state = w.state
                           /\ r.k = w.k /\ r.l = w.l + 1 /\ r.m = w.m
    <3>1. /\ [w EXCEPT !.l = @ + 1] \in Round
          /\ [w EXCEPT !.l = @ + 1].state = w.state
          /\ [w EXCEPT !.l = @ + 1].k = w.k
          /\ [w EXCEPT !.l = @ + 1].l = w.l + 1
          /\ [w EXCEPT !.l = @ + 1].m = w.m
      BY <1>1, CountSteps, VoteCounters
    <3> QED BY <3>1
  <2>2. SetRound(m, r) /\ m.xit = "l" /\ w.l + 1 < LeaderQuorum(x, t)
    BY <1>15, <2>1 DEF RecvLCounted, Receives
  <2>3. Progress(m, r)
    BY <1>1, <2>1, <2>2 DEF Progress, One, ST_NULL, ST_B, ST_C, ST_D, ST_F
  <2> QED BY <1>4, <2>2, <2>3
<1>16. CASE RecvMCounted(m)
  <2>1. PICK r \in Round : /\ r = [w EXCEPT !.m = @ + 1] /\ r.state = w.state
                           /\ r.k = w.k /\ r.l = w.l /\ r.m = w.m + 1
    <3>1. /\ [w EXCEPT !.m = @ + 1] \in Round
          /\ [w EXCEPT !.m = @ + 1].state = w.state
          /\ [w EXCEPT !.m = @ + 1].k = w.k
          /\ [w EXCEPT !.m = @ + 1].l = w.l
          /\ [w EXCEPT !.m = @ + 1].m = w.m + 1
      BY <1>1, CountSteps, VoteCounters
    <3> QED BY <3>1
  <2>2. SetRound(m, r) /\ m.xit = "m" /\ w.m + 1 < LeaderQuorum(x, t)
    BY <1>16, <2>1 DEF RecvMCounted, Receives
  <2>3. Progress(m, r)
    BY <1>1, <2>1, <2>2 DEF Progress, One, ST_NULL, ST_B, ST_C, ST_D, ST_F
  <2> QED BY <1>4, <2>2, <2>3
<1>17. CASE RecvL(m)
  <2>1. PICK r \in Round : /\ r = LeadersVoted(w) /\ r.state = ST_D
                           /\ r.k = w.k /\ r.l = 0 /\ r.m = w.m + 1
    BY <1>1, RoundSteps, StepCounters
  <2>2. PICK f \in Round : f = Final(r) /\ f.state = ST_F
    BY <2>1, RoundSteps
  <2>3. /\ m.xit = "l" /\ w.state < ST_D
        /\ \/ ~AtOnce(m) /\ SetRound(m, r)
           \/ SetRound(m, f)
    BY <1>17, <2>1, <2>2 DEF RecvL, Receives
  <2>4. CASE ~AtOnce(m) /\ SetRound(m, r)
    <3>1. r.m < LeaderQuorum(x, t)
      BY <1>1, <1>3, <2>1, <2>4 DEF AtOnce
    <3>2. Progress(m, r)
      BY <1>1, <2>1, <2>3, <3>1 DEF Progress, One, ST_NULL, ST_B, ST_C, ST_D, ST_F
    <3> QED BY <1>4, <2>3, <2>4, <3>2
  <2>5. CASE SetRound(m, f)
    <3>1. Progress(m, f)
      BY <2>2, <2>3 DEF Progress, One, ST_NULL, ST_B, ST_C, ST_D, ST_F
    <3> QED BY <1>4, <2>3, <2>5, <3>1
  <2> QED BY <2>3, <2>4, <2>5
<1>18. CASE RecvM(m) \/ RecvN(m)
  <2>1. PICK f \in Round : /\ f = IF RecvM(m) THEN Final(w) ELSE [w EXCEPT !.state = ST_F]
                           /\ f.state = ST_F
    BY <1>1, RoundSteps
  <2>2. SetRound(m, f) /\ m.xit \in {"m", "n"}
    BY <1>18, <2>1 DEF RecvM, RecvN, Receives
  <2>3. Progress(m, f)
    BY <2>1, <2>2 DEF Progress, One, ST_NULL, ST_B, ST_C, ST_D, ST_F
  <2> QED BY <1>4, <2>2, <2>3
<1>19. CASE Ignore(m)
  BY <1>7, <1>19 DEF Ignore
<1> QED
  BY <1>8, <1>9, <1>10, <1>11, <1>12, <1>13, <1>14, <1>15, <1>16, <1>17, <1>18, <1>19
  DEF Deliver

-----------------------------------------------------------------------------
(* Every message does: nothing is old and nobody is out of money.           *)

\* Records of each transaction at most once are at most as many as the
\* transactions.
LEMMA AtMostEach ==
  ASSUME NEW f \in [Trxn -> Nat], NEW S \in SUBSET Trxn, \A t \in Trxn : f[t] <= 1
  PROVE  SumFunctionOnSet(f, S) <= Cardinality(S) /\ Cardinality(S) \in Nat
<1> DEFINE g == [t \in Trxn |-> 1]
<1>1. IsFiniteSet(S) /\ Cardinality(S) \in Nat
  BY FiniteAssumption, FS_Subset, FS_CardinalityType
<1>2. \A t \in S : g[t] = 1 /\ f[t] \in Nat /\ f[t] <= 1
  OBVIOUS
<1> HIDE DEF g
<1>3. SumFunctionOnSet(f, S) <= SumFunctionOnSet(g, S)
  BY <1>1, <1>2, SumLess
<1>4. SumFunctionOnSet(g, S) = 1 * Cardinality(S)
  BY <1>1, <1>2, SumConstant
<1> QED BY <1>1, <1>3, <1>4

\* What is still to be paid is not spent yet.
LEMMA StillPlanned ==
  ASSUME NEW led \in Ledger, NEW t \in Payments, led.debit[t] = 0,
         \A s \in Trxn : led.debit[s] <= 1
  PROVE  /\ Paid(led, Req[t].from) + Req[t].amount <= Planned(Req[t].from)
         /\ Paid(led, Req[t].from) \in Nat /\ Req[t].amount \in Nat
         /\ Planned(Req[t].from) \in Nat
<1> DEFINE u == Req[t].from
           a == [s \in Trxn |-> Req[s].amount]
           f == [s \in Trxn |-> led.debit[s] * Req[s].amount]
           g == [s \in Trxn |-> IF s = t THEN Req[t].amount ELSE f[s]]
<1>1. t \in PaidBy(u) /\ t \in Trxn /\ u \in User
  BY RequestType DEF PaidBy, Payments
<1>2. \A s \in Trxn : a[s] \in Nat /\ f[s] \in Nat /\ g[s] \in Nat /\ g[s] <= a[s]
  <2> TAKE s \in Trxn
  <2>1. Req[s].amount \in Nat /\ led.debit[s] \in {0, 1}
    BY RequestType DEF Ledger
  <2>2. CASE led.debit[s] = 0
    BY <1>1, <2>1, <2>2
  <2>3. CASE led.debit[s] = 1
    BY <1>1, <2>1, <2>3
  <2> QED BY <2>1, <2>2, <2>3
<1>3. /\ f[t] = 0 /\ g[t] = Req[t].amount /\ g[t] \in Nat
      /\ \A s \in PaidBy(u) : s # t => g[s] = f[s]
  BY <1>1, RequestType DEF PaidBy, Payments
<1>4. PaidBy(u) \in SUBSET Trxn /\ IsFiniteSet(PaidBy(u))
  BY PaidSets
<1>5. /\ Paid(led, u) = SumFunctionOnSet(f, PaidBy(u))
      /\ Planned(u) = SumFunctionOnSet(a, PaidBy(u))
      /\ Req[t].amount \in Nat
  BY <1>1, RequestType DEF Paid, Planned
<1> HIDE DEF f, g, a, u
<1>6. SumFunctionOnSet(g, PaidBy(u)) = SumFunctionOnSet(f, PaidBy(u)) - f[t] + g[t]
  BY <1>1, <1>2, <1>3, <1>4, SumChange
<1>7. SumFunctionOnSet(g, PaidBy(u)) <= SumFunctionOnSet(a, PaidBy(u))
  BY <1>2, <1>4, SumLess
<1>8. /\ SumFunctionOnSet(f, PaidBy(u)) \in Nat
      /\ SumFunctionOnSet(a, PaidBy(u)) \in Nat
  BY <1>2, <1>4, SumNat
<1>9. Paid(led, u) + Req[t].amount <= Planned(u)
  BY <1>3, <1>5, <1>6, <1>7, <1>8
<1> QED BY <1>5, <1>8, <1>9 DEF u

\* A transaction that is not in the blocks of a node passes its checks.
LEMMA AffordableValid ==
  ASSUME Affordable, NEW led \in Ledger, Consistent(led, Founded),
         \A s \in Trxn : led.debit[s] <= 1 /\ led.credit[s] <= 1,
         NEW t \in Trxn, led.debit[t] = 0, NEW fence
  PROVE  /\ RelayValid(led, t, fence)
         /\ t \in Payments => Req[t].amount < InitialBalance
<1> SUFFICES ASSUME t \in Payments
             PROVE  /\ Req[t].amount > 0 /\ Req[t].amount < InitialBalance
                    /\ FundsValid(led, t) /\ ~Recorded(led, t)
  BY RequestType DEF RelayValid, SubmitValid, FenceValid, Payments
<1> DEFINE u == Req[t].from
           a == led.acct[u]
<1>1. u \in User /\ a \in Account
  BY RequestType DEF Ledger
<1>2. /\ Req[t].amount > 0 /\ u \in DOMAIN Founded /\ Req[t].key = Founded[u]
      /\ Planned(u) + HalfDigit * (Cardinality(PaidBy(u)) + Cardinality(PaidTo(u)))
           < InitialBalance
  BY <1>1 DEF Affordable
<1>3. a.exists /\ a.key = Req[t].key
  BY <1>1, <1>2 DEF Consistent, AccountOK, Exists
<1>4. a.bal >= Exact(led, u) - HalfDigit * Updates(led, u) /\ a.bal \in Nat
  BY <1>1, <1>3 DEF Consistent, BalanceOK, Exists, Account
<1>5. /\ led.debit \in [Trxn -> Nat] /\ led.credit \in [Trxn -> Nat]
      /\ PaidBy(u) \in SUBSET Trxn /\ PaidTo(u) \in SUBSET Trxn
  BY PaidSets DEF Ledger
<1>6. /\ NumPaid(led, u) \in Nat /\ NumReceived(led, u) \in Nat
      /\ NumPaid(led, u) <= Cardinality(PaidBy(u)) /\ Cardinality(PaidBy(u)) \in Nat
      /\ NumReceived(led, u) <= Cardinality(PaidTo(u))
      /\ Cardinality(PaidTo(u)) \in Nat
      /\ Received(led, u) \in Nat
  BY <1>5, AtMostEach, RecordSumsType DEF NumPaid, NumReceived
<1>7. /\ Paid(led, u) + Req[t].amount <= Planned(u)
      /\ Paid(led, u) \in Nat /\ Req[t].amount \in Nat /\ Planned(u) \in Nat
  BY StillPlanned
<1> DEFINE n == Cardinality(PaidBy(u)) + Cardinality(PaidTo(u))
<1>8. HalfDigit \in Nat /\ HalfDigit * Updates(led, u) <= HalfDigit * n
      /\ HalfDigit * Updates(led, u) \in Nat /\ HalfDigit * n \in Nat
  <2>1. HalfDigit \in Nat
    BY HalfDigitType
  <2>2. Updates(led, u) \in Nat /\ n \in Nat /\ Updates(led, u) <= n
    BY <1>6 DEF Updates
  <2>3. \A h, i, j \in Nat : i <= j => h * i <= h * j
    BY TimesMonotone
  <2>4. \A h, i \in Nat : h * i \in Nat
    OBVIOUS
  <2> HIDE DEF n
  <2> QED BY <2>1, <2>2, <2>3, <2>4
<1> HIDE DEF n
<1>9. a.bal > Req[t].amount /\ Req[t].amount < InitialBalance
  <2>1. a.bal >= Exact(led, u) - HalfDigit * Updates(led, u)
    BY <1>4
  <2>2. Planned(u) + HalfDigit * n < InitialBalance
    BY <1>2 DEF n
  <2>3. InitialBalance \in Nat
    BY DEF InitialBalance
  <2> HIDE DEF u, a
  <2> QED BY <1>4, <1>6, <1>7, <1>8, <2>1, <2>2, <2>3 DEF Exact
<1> QED BY <1>2, <1>3, <1>9 DEF FundsValid, Recorded

\* No message of a node that runs is refused.
LEMMA DeliverValid ==
  ASSUME NoRestarts, Affordable, TypeOK, Unrestarted, Stories, old = {},
         NEW m \in pending
  PROVE  IsLate(m) \/ IsValid(m)
<1>1. /\ m.to \in Node /\ m.trxn \in Trxn /\ RoundAt(m).state \in 0..6
      /\ ledger[m.to] \in Ledger
  BY MessageType, StepCounters DEF TypeOK
<1>2. RecordsFollowState(m.to) /\ Consistent(ledger[m.to], Founded)
  BY <1>1, UnrestartedRecords DEF Stories
<1>3. ASSUME ~IsLate(m) PROVE ledger[m.to].debit[m.trxn] = 0
  BY <1>1, <1>2, <1>3 DEF IsLate, RecordsFollowState, RoundAt, ST_F
<1>4. \A s \in Trxn : ledger[m.to].debit[s] <= 1 /\ ledger[m.to].credit[s] <= 1
  BY <1>2 DEF RecordsFollowState
<1> QED BY <1>1, <1>2, <1>3, <1>4, AffordableValid DEF IsValid

\* All that a delivery does, of one round and one set of messages.
LEMMA DeliverMoves ==
  ASSUME TypeOK, RolesOK, NEW m \in pending, Deliver(m), IsLate(m) \/ IsValid(m)
  PROVE  \E r \in Round : \E msgs :
           /\ SetRound(m, r) /\ Answer(m, msgs)
           /\ Counts(m, r) /\ Effect(m, r, msgs)
           /\ Progress(m, r) /\ Answered(m)
<1>1. PICK r \in Round : \E msgs : /\ SetRound(m, r) /\ Answer(m, msgs)
                                   /\ Counts(m, r) /\ Effect(m, r, msgs)
  BY DeliverEffect
<1>2. PICK s \in Round : SetRound(m, s) /\ Progress(m, s) /\ Answered(m)
  BY DeliverProgress
<1>3. r = s
  BY <1>1, <1>2, MessageType DEF SetRound, TypeOK
<1> QED BY <1>1, <1>2, <1>3

-----------------------------------------------------------------------------
(* What keeps a transaction from stopping half way: a leader has counted    *)
(* every vote it has heard, and what it has counted is not a quorum; what a *)
(* message asks for has been done; and of the leaders that lack one vote    *)
(* each has heard another only before it agreed itself.                     *)

\* x has told every follower it could reach.
HasSent(xit, x, t) ==
  \A y \in MyFollowers(x, t) \ Down :
    \E v \in sent : v.xit = xit /\ v.trxn = t /\ v.from = x /\ v.to = y

\* The states there are; a leader that proposes has followers and has asked
\* them, one that has committed has told them.
StateOK(x, t) ==
  LET state == round[x][t].state
  IN  /\ state \in {ST_NULL, ST_B, ST_C, ST_D, ST_F}
      /\ state = ST_B => MyFollowers(x, t) # {} /\ HasSent("j", x, t)
      /\ state = ST_F /\ Leads(x, t) => HasSent("n", x, t)

\* A leader has counted every vote it has heard, and what it has heard since it
\* could count is not a quorum.
CountsHigh(x, t) ==
  LET r == round[x][t]
      heard(xit) == Cardinality(Heard(xit, x, t))
  IN  /\ r.state < ST_C =>
           /\ r.k >= heard("k") + One(r.state >= ST_B)
           /\ heard("k") > 0 => /\ r.state = ST_B
                                 /\ heard("k") + 1 < ZoneQuorum(x, t)
      /\ r.state < ST_D =>
           /\ r.l >= heard("l") + One(r.state >= ST_C)
           /\ heard("l") < LeaderQuorum(x, t)
      /\ r.state < ST_F =>
           /\ r.m >= heard("m") + One(r.state >= ST_D)
           /\ r.m < LeaderQuorum(x, t)

\* What v asked for has been done.
Done(v) ==
  LET state == round[v.to][v.trxn].state
      leader == MyLeader(v.to, v.trxn)
  IN  /\ v.xit = "i" => state >= ST_B
      /\ v.xit = "n" => state = ST_F
      /\ v.xit = "j" /\ state # ST_F /\ leader \notin Down =>
           \E w \in sent : /\ w.xit = "k" /\ w.trxn = v.trxn /\ w.from = v.to
                           /\ w.to = leader

TellsAll == \A v \in sent : v.xit \in {"l", "m"} => HasTold(v.xit, v.from, v.trxn)

\* The zone of x has agreed, and x lacks one vote of the leaders at most.
Nearly(x, t) ==
  /\ Leads(x, t) /\ round[x][t].state = ST_C
  /\ Cardinality(Heard("l", x, t)) + 1 >= LeaderQuorum(x, t)

\* Of two such leaders one has agreed before it heard the other.
NoCircle ==
  \A t \in Trxn : \A x, y \in Node :
    x # y /\ Nearly(x, t) /\ Nearly(y, t) =>
      ~(x \in Heard("l", y, t) /\ y \in Heard("l", x, t))

RestOK ==
  /\ old = {}
  /\ \A x \in Node, t \in Trxn : StateOK(x, t)
  /\ \A x \in Node, t \in Trxn : Leads(x, t) => CountsHigh(x, t)
  /\ \A v \in Handled : Done(v)
  /\ TellsAll /\ NoCircle

\* The parts of a step of a delivery.
LEMMA StateStep ==
  ASSUME TypeOK, NEW m \in pending, NEW r \in Round, NEW msgs,
         SetRound(m, r), Effect(m, r, msgs), Answer(m, msgs), Progress(m, r),
         NEW x \in Node, NEW t \in Trxn, StateOK(x, t)
  PROVE  StateOK(x, t)'
<1>1. sent' = sent \cup msgs
  BY DEF Answer
<1>2. ASSUME NEW xit, HasSent(xit, x, t) PROVE HasSent(xit, x, t)'
  BY <1>1, <1>2 DEF HasSent
<1>3. /\ round'[m.to][m.trxn] = r
      /\ x # m.to \/ t # m.trxn => round'[x][t] = round[x][t]
  BY EffectRound
<1>4. CASE round'[x][t].state = round[x][t].state
  BY <1>2, <1>4 DEF StateOK
<1>5. CASE x = m.to /\ t = m.trxn /\ r.state # RoundAt(m).state
  <2>1. ASSUME NEW xit, Forward(m, xit, MyFollowers(m.to, m.trxn)) \subseteq msgs
        PROVE  HasSent(xit, x, t)'
    BY <1>1, <1>5, <2>1, ForwardIs DEF HasSent
  <2>2. r.state = ST_B => /\ msgs = Forward(m, "j", MyFollowers(m.to, m.trxn))
                          /\ MyFollowers(x, t) # {}
    BY <1>5 DEF Progress, Effect, Silent, Proposing, Voting, Agreeing, Confirming,
                ConfirmingLast, Committing, Following, ST_B, ST_C, ST_D, ST_F
  <2>3. r.state = ST_F /\ Leads(x, t) =>
          Forward(m, "n", MyFollowers(m.to, m.trxn)) \subseteq msgs
    BY <1>5 DEF Effect, Silent, Proposing, Voting, Agreeing, Confirming,
                ConfirmingLast, Committing, Following, ST_B, ST_C, ST_D, ST_F
  <2>4. r.state \in {ST_B, ST_C, ST_D, ST_F}
    BY <1>5 DEF Progress
  <2> QED BY <1>3, <1>5, <2>1, <2>2, <2>3, <2>4 DEF StateOK
<1> QED BY <1>3, <1>4, <1>5 DEF RoundAt

\* A vote that is not the last one needed is counted.
LEMMA CountsHighStep ==
  ASSUME TypeOK, RolesOK, Sources, Single, NEW m \in pending, NEW r \in Round,
         NEW msgs, SetRound(m, r), Effect(m, r, msgs), Answer(m, msgs),
         Progress(m, r), NEW x \in Node, NEW t \in Trxn, CountsHigh(x, t)
  PROVE  CountsHigh(x, t)'
<1> DEFINE Ck == Cardinality(Heard("k", x, t))
           Cl == Cardinality(Heard("l", x, t))
           Cm == Cardinality(Heard("m", x, t))
           here == m.to = x /\ m.trxn = t
<1>1. /\ Ck \in Nat /\ Ck' = Ck + One(m.xit = "k" /\ here)
      /\ Cl \in Nat /\ Cl' = Cl + One(m.xit = "l" /\ here)
      /\ Cm \in Nat /\ Cm' = Cm + One(m.xit = "m" /\ here)
  BY HeardStep
<1>2. round[x][t] \in Round /\ RoundAt(m) \in Round
  BY MessageType DEF TypeOK
<1>3. /\ round[x][t].k \in Nat /\ round[x][t].l \in Nat /\ round[x][t].m \in Nat
      /\ r.k \in Nat /\ r.l \in Nat /\ r.m \in Nat
      /\ ZoneQuorum(x, t) \in Int /\ LeaderQuorum(x, t) \in Int
  BY <1>2, StepCounters, OwnQuorums
<1>4. /\ RoundAt(m).state \in 0..6 /\ r.state \in 0..6
      /\ r.state >= RoundAt(m).state
      /\ round'[m.to][m.trxn] = r
      /\ ~here => round'[x][t] = round[x][t]
  BY EffectRound
<1>5. ZoneQuorum(x, t)' = ZoneQuorum(x, t) /\ LeaderQuorum(x, t)' = LeaderQuorum(x, t)
  BY DEF ZoneQuorum, LeaderQuorum, MyFollowers, MyPeers, Circuit, Part
<1> HIDE DEF Ck, Cl, Cm
<1>6. CASE ~here
  BY <1>1, <1>3, <1>4, <1>5, <1>6 DEF CountsHigh, One, Ck, Cl, Cm
<1>7. CASE here
  <2> DEFINE w == RoundAt(m)
             ZQ == ZoneQuorum(x, t)
             LQ == LeaderQuorum(x, t)
  <2>1. /\ w = round[x][t] /\ round'[x][t] = r
        /\ w.k \in Nat /\ w.l \in Nat /\ w.m \in Nat
        /\ w.state \in 0..6 /\ r.state \in 0..6 /\ r.state >= w.state
    BY <1>3, <1>4, <1>7 DEF RoundAt
  <2>2. /\ w.state < ST_C => /\ w.k >= Ck + One(w.state >= ST_B)
                             /\ Ck > 0 => w.state = ST_B /\ Ck + 1 < ZQ
        /\ w.state < ST_D => w.l >= Cl + One(w.state >= ST_C) /\ Cl < LQ
        /\ w.state < ST_F => w.m >= Cm + One(w.state >= ST_D) /\ w.m < LQ
    BY <2>1 DEF CountsHigh, Ck, Cl, Cm
  <2>3. /\ r.state < ST_C =>
             /\ r.k >= w.k + One(m.xit = "k") + One(w.state < ST_B /\ r.state >= ST_B)
             /\ m.xit = "k" => r.k < ZQ
        /\ r.state < ST_D =>
             /\ r.l >= w.l + One(m.xit = "l") + One(w.state < ST_C /\ r.state >= ST_C)
             /\ m.xit = "l" => r.l < LQ
        /\ r.state < ST_F =>
             /\ r.m >= w.m + One(m.xit = "m") + One(w.state < ST_D /\ r.state >= ST_D)
             /\ r.m = w.m \/ r.m < LQ
    BY <1>7 DEF Progress
  <2>4. m.xit = "k" => w.state >= ST_B
    <3> SUFFICES ASSUME m.xit = "k" PROVE w.state >= ST_B
      OBVIOUS
    <3>1. PICK u \in Handled : u.xit = "j" /\ u.trxn = m.trxn /\ u.to = m.from
      BY MessageType DEF Sources, Source
    <3>2. u \in sent /\ m \in sent /\ u.from = m.to
      BY <3>1, MessageType DEF RolesOK, InRole, Handled
    <3> QED BY <3>1, <3>2 DEF Sources, Source, RoundAt
  <2>5. /\ ZQ \in Int /\ LQ \in Int
        /\ Ck' = Ck + One(m.xit = "k") /\ Cl' = Cl + One(m.xit = "l")
        /\ Cm' = Cm + One(m.xit = "m")
        /\ r.k \in Nat /\ r.l \in Nat /\ r.m \in Nat
    BY <1>1, <1>3, <1>7
  <2>6. m.xit = "k" => m.xit # "l" /\ m.xit # "m"
    OBVIOUS
  <2> HIDE DEF w, ZQ, LQ
  <2>7. r.state < ST_C => /\ r.k >= Ck' + One(r.state >= ST_B)
                          /\ Ck' > 0 => r.state = ST_B /\ Ck' + 1 < ZQ
    <3> SUFFICES ASSUME r.state < ST_C
                 PROVE  /\ r.k >= Ck' + One(r.state >= ST_B)
                        /\ Ck' > 0 => r.state = ST_B /\ Ck' + 1 < ZQ
      OBVIOUS
    <3>0. w.state < ST_C
      BY <2>1 DEF ST_C
    <3>1. /\ r.k >= w.k + One(m.xit = "k") + One(w.state < ST_B /\ r.state >= ST_B)
          /\ m.xit = "k" => r.k < ZQ
      BY <2>3
    <3>2. /\ w.k >= Ck + One(w.state >= ST_B)
          /\ Ck > 0 => w.state = ST_B /\ Ck + 1 < ZQ
      BY <2>2, <3>0
    <3>3. r.k >= Ck' + One(r.state >= ST_B)
      BY <1>1, <2>1, <2>5, <3>1, <3>2 DEF One, ST_B
    <3>4. CASE m.xit = "k"
      <4>1. w.state = ST_B /\ r.state = ST_B
        BY <2>1, <2>4, <3>0, <3>4 DEF ST_B, ST_C
      <4>2. Ck' + 1 <= r.k /\ r.k < ZQ
        BY <1>1, <2>5, <3>1, <3>3, <3>4, <4>1 DEF One, ST_B
      <4> QED BY <1>1, <2>5, <3>3, <4>1, <4>2 DEF One
    <3>5. CASE m.xit # "k"
      <4>1. Ck' = Ck
        BY <1>1, <2>5, <3>5 DEF One
      <4>2. CASE Ck > 0
        <5>1. w.state = ST_B /\ r.state = ST_B
          BY <2>1, <3>2, <4>2 DEF ST_B, ST_C
        <5> QED BY <3>2, <3>3, <4>1, <4>2, <5>1
      <4> QED BY <1>1, <3>3, <4>1, <4>2
    <3> QED BY <3>4, <3>5
  <2>8. r.state < ST_D => r.l >= Cl' + One(r.state >= ST_C) /\ Cl' < LQ
    <3> SUFFICES ASSUME r.state < ST_D
                 PROVE  r.l >= Cl' + One(r.state >= ST_C) /\ Cl' < LQ
      OBVIOUS
    <3>1. w.state < ST_D
      BY <2>1 DEF ST_D
    <3>2. r.l >= Cl' + One(r.state >= ST_C)
      BY <1>1, <2>1, <2>2, <2>3, <2>5, <3>1 DEF One, ST_C
    <3>3. CASE m.xit = "l"
      BY <1>1, <2>3, <2>5, <3>2, <3>3 DEF One
    <3>4. CASE m.xit # "l"
      BY <1>1, <2>2, <2>5, <3>1, <3>2, <3>4 DEF One
    <3> QED BY <3>3, <3>4
  <2>9. r.state < ST_F => r.m >= Cm' + One(r.state >= ST_D) /\ r.m < LQ
    <3> SUFFICES ASSUME r.state < ST_F
                 PROVE  r.m >= Cm' + One(r.state >= ST_D) /\ r.m < LQ
      OBVIOUS
    <3>1. w.state < ST_F
      BY <2>1 DEF ST_F
    <3>2. r.m >= Cm' + One(r.state >= ST_D)
      BY <1>1, <2>1, <2>2, <2>3, <2>5, <3>1 DEF One, ST_D
    <3>3. r.m < LQ
      BY <2>2, <2>3, <3>1
    <3> QED BY <3>2, <3>3
  <2> QED BY <1>5, <2>1, <2>7, <2>8, <2>9 DEF CountsHigh, Ck, Cl, Cm, ZQ, LQ
<1> QED BY <1>6, <1>7

-----------------------------------------------------------------------------
(* Each part is kept by a delivery.                                         *)

\* What has been done stays done, and m is.
LEMMA DoneStep ==
  ASSUME TypeOK, RolesOK, Sources, Single, NEW m \in pending, NEW r \in Round,
         NEW msgs, SetRound(m, r), Effect(m, r, msgs), Answer(m, msgs),
         Progress(m, r), Answered(m), StateOK(m.to, m.trxn),
         \A v \in Handled : Done(v)
  PROVE  (\A v \in Handled : Done(v))'
<1>1. sent' = sent \cup msgs /\ Handled' = Handled \cup {m}
  BY HandledStep
<1>2. /\ m.to \in Node /\ m.trxn \in Trxn
      /\ RoundAt(m).state \in 0..6 /\ r.state \in 0..6
      /\ r.state >= RoundAt(m).state
      /\ round'[m.to][m.trxn] = r
      /\ \A x \in Node, t \in Trxn :
           /\ round[x][t].state \in 0..6
           /\ round'[x][t].state >= round[x][t].state
           /\ x # m.to \/ t # m.trxn => round'[x][t] = round[x][t]
  BY EffectRound
<1>3. ASSUME NEW v \in Handled PROVE Done(v)'
  <2>1. v.to \in Node /\ v.trxn \in Trxn /\ Done(v)
    BY DEF Handled, TypeOK, Message
  <2> DEFINE old1 == round[v.to][v.trxn].state
             new == round'[v.to][v.trxn].state
  <2>2. old1 \in 0..6 /\ new \in 0..6 /\ new >= old1
    <3>1. CASE v.to = m.to /\ v.trxn = m.trxn
      BY <1>2, <3>1 DEF RoundAt
    <3>2. CASE v.to # m.to \/ v.trxn # m.trxn
      BY <1>2, <2>1, <3>2
    <3> QED BY <3>1, <3>2
  <2> HIDE DEF old1, new
  <2>3. /\ old1 >= ST_B => new >= ST_B
        /\ old1 = ST_F => new = ST_F
    BY <2>2 DEF ST_B, ST_F
  <2> QED BY <1>1, <2>1, <2>3 DEF Done, old1, new
<1>4. Done(m)'
  <2>1. RoundAt(m).state \in {ST_NULL, ST_B, ST_C, ST_D, ST_F}
    BY DEF StateOK, RoundAt
  <2>2. m.xit = "i" => r.state >= ST_B
    BY <1>2, <2>1 DEF Progress, ST_NULL, ST_B, ST_C, ST_D, ST_F
  <2>3. m.xit = "n" => r.state = ST_F
    BY DEF Progress
  <2>4. m.xit = "j" /\ r.state # ST_F => RoundAt(m).state < ST_F
    BY <1>2 DEF ST_F
  <2> QED BY <1>2, <2>2, <2>3, <2>4 DEF Done, Answered
<1> QED BY <1>1, <1>3, <1>4

\* Votes are sent to all the peers that can be reached at once.
LEMMA TellsStep ==
  ASSUME TypeOK, NEW m \in pending, NEW r \in Round,
         NEW msgs, Effect(m, r, msgs), Answer(m, msgs), TellsAll
  PROVE  TellsAll'
<1>1. sent' = sent \cup msgs
  BY DEF Answer
<1>2. ASSUME NEW xit, NEW x, NEW t, HasTold(xit, x, t) PROVE HasTold(xit, x, t)'
  BY <1>1, <1>2 DEF HasTold
<1>3. ASSUME NEW xit, Forward(m, xit, MyPeers(m.to, m.trxn)) \subseteq msgs
      PROVE  HasTold(xit, m.to, m.trxn)'
  BY <1>1, <1>3, ForwardIs DEF HasTold
<1>4. ASSUME NEW v \in msgs, v.xit \in {"l", "m"}
      PROVE  /\ v.from = m.to /\ v.trxn = m.trxn
             /\ Forward(m, v.xit, MyPeers(m.to, m.trxn)) \subseteq msgs
  <2>1. \/ Forward(m, "l", MyPeers(m.to, m.trxn)) = msgs
        \/ Forward(m, "m", MyPeers(m.to, m.trxn)) = msgs
        \/ msgs = Forward(m, "m", MyPeers(m.to, m.trxn))
                    \cup Forward(m, "n", MyFollowers(m.to, m.trxn))
    BY <1>4, ForwardIs DEF Effect, Silent, Proposing, Voting, Agreeing, Confirming,
                     ConfirmingLast, Committing, Following
  <2> QED BY <1>4, <2>1, ForwardIs
<1> QED BY <1>1, <1>2, <1>3, <1>4 DEF TellsAll

\* A message is heard by the one that handles it.
LEMMA HeardElsewhere ==
  ASSUME TypeOK, RolesOK, Sources, Single, NEW m \in pending, NEW r \in Round,
         NEW msgs, Effect(m, r, msgs), Answer(m, msgs), NEW xit, NEW x, NEW t,
         ~(m.xit = xit /\ m.to = x /\ m.trxn = t)
  PROVE  Heard(xit, x, t)' = Heard(xit, x, t)
BY HandledStep DEF Heard

\* x, which m is handled at, and any other leader y.
LEMMA CircleAtOne ==
  ASSUME TypeOK, RolesOK, Sources, Single, NEW m \in pending, NEW r \in Round,
         NEW msgs, SetRound(m, r), Effect(m, r, msgs), Answer(m, msgs),
         Progress(m, r), NoCircle,
         NEW y \in Node, y # m.to, CountsHigh(m.to, m.trxn),
         Nearly(m.to, m.trxn)', Nearly(y, m.trxn)',
         (m.to \in Heard("l", y, m.trxn))', (y \in Heard("l", m.to, m.trxn))'
  PROVE  FALSE
<1> DEFINE x == m.to
           t == m.trxn
           H == Heard("l", x, t)
<1>1. /\ x \in Node /\ t \in Trxn /\ Leads(x, t) /\ Leads(y, t)
      /\ RoundAt(m).state \in 0..6 /\ r.state = ST_C
      /\ r.state >= RoundAt(m).state /\ round'[y][t] = round[y][t]
      /\ round'[x][t] = r
  <2>1. /\ x \in Node /\ t \in Trxn
        /\ RoundAt(m).state \in 0..6
        /\ r.state >= RoundAt(m).state /\ round'[y][t] = round[y][t]
        /\ round'[x][t] = r
    BY EffectRound
  <2> QED BY <2>1 DEF Nearly, Leads, MyLeader, Circuit, Part
<1>2. Heard("l", y, t)' = Heard("l", y, t)
  BY HeardElsewhere
<1>3. /\ Cardinality(H) \in Nat /\ Cardinality(H)' = Cardinality(H) + One(m.xit = "l")
      /\ m.xit # "l" => H' = H
  <2>1. "l" \in {"k", "l", "m"} /\ (m.xit = "l" /\ m.to = x /\ m.trxn = t <=> m.xit = "l")
    OBVIOUS
  <2>2. Cardinality(H) \in Nat /\ Cardinality(H)' = Cardinality(H) + One(m.xit = "l")
    BY <1>1, <2>1, HeardStep
  <2> QED BY <2>2, HeardElsewhere
<1>4. LeaderQuorum(x, t)' = LeaderQuorum(x, t) /\ LeaderQuorum(x, t) \in Int
      /\ LeaderQuorum(y, t)' = LeaderQuorum(y, t)
  BY <1>1, OwnQuorums DEF LeaderQuorum, MyPeers, Circuit, Part
<1>5. Nearly(y, t)
  BY <1>1, <1>2, <1>4 DEF Nearly
<1>6. RoundAt(m).state = ST_C
  <2>1. PICK v \in Handled : v.xit = "l" /\ v.trxn = t /\ v.from = x
    BY <1>2 DEF Heard
  <2>2. RoundAt(m).state >= ST_C
    BY <2>1 DEF Sources, Source, Handled, RoundAt
  <2> QED BY <1>1, <2>2 DEF ST_C
<1>7. CASE m.xit = "l"
  <2>1. round[x][t] = RoundAt(m) /\ RoundAt(m) \in Round
    BY MessageType DEF RoundAt
  <2>2. RoundAt(m).l \in Nat /\ r.l \in Nat
    BY <2>1, StepCounters
  <2>3. RoundAt(m).l >= Cardinality(H) + 1
    BY <1>6, <2>1 DEF CountsHigh, One, ST_C, ST_D
  <2>4. r.l >= RoundAt(m).l + 1 + One(RoundAt(m).state < ST_C /\ r.state >= ST_C)
        /\ r.l < LeaderQuorum(x, t)
    BY <1>1, <1>7 DEF Progress, One, ST_C, ST_D
  <2>5. Cardinality(H') + 1 >= LeaderQuorum(x, t)
    BY <1>4 DEF Nearly
  <2> HIDE DEF H, x, t
  <2> QED BY <1>1, <1>3, <1>4, <1>6, <1>7, <2>2, <2>3, <2>4, <2>5 DEF One, ST_C
<1>8. CASE m.xit # "l"
  <2>1. H' = H
    BY <1>3, <1>8
  <2>2. Nearly(x, t)
    BY <1>1, <1>4, <1>6, <2>1 DEF Nearly, RoundAt
  <2>3. y \in H /\ x \in Heard("l", y, t)
    BY <1>2, <2>1
  <2> QED BY <1>1, <1>5, <2>2, <2>3 DEF NoCircle
<1> QED BY <1>7, <1>8

\* Whoever hears the last but one vote of the other has not agreed yet, or does
\* not miss a vote any more.
LEMMA NoCircleStep ==
  ASSUME TypeOK, RolesOK, Sources, Single, NEW m \in pending, NEW r \in Round,
         NEW msgs, SetRound(m, r), Effect(m, r, msgs), Answer(m, msgs),
         Progress(m, r), NoCircle,
         Leads(m.to, m.trxn) => CountsHigh(m.to, m.trxn)
  PROVE  NoCircle'
<1> SUFFICES ASSUME NEW t \in Trxn, NEW x \in Node, NEW y \in Node, x # y,
                    Nearly(x, t)', Nearly(y, t)',
                    (x \in Heard("l", y, t))', (y \in Heard("l", x, t))'
             PROVE  FALSE
  BY DEF NoCircle
<1>1. Leads(x, t) /\ Leads(y, t)
  BY DEF Nearly, Leads, MyLeader, Circuit, Part
<1>2. CASE m.to = x /\ m.trxn = t
  BY <1>1, <1>2, CircleAtOne
<1>3. CASE m.to = y /\ m.trxn = t
  BY <1>1, <1>3, CircleAtOne
<1>4. CASE ~(m.trxn = t /\ m.to \in {x, y})
  <2>1. /\ round'[x][t] = round[x][t] /\ round'[y][t] = round[y][t]
    BY <1>4, EffectRound
  <2>2. /\ Heard("l", x, t)' = Heard("l", x, t)
        /\ Heard("l", y, t)' = Heard("l", y, t)
    BY <1>4, HeardElsewhere
  <2>3. Nearly(x, t) /\ Nearly(y, t)
    BY <2>1, <2>2 DEF Nearly, Leads, LeaderQuorum, MyLeader, MyPeers, Circuit, Part
  <2> QED BY <2>2, <2>3 DEF NoCircle
<1> QED BY <1>2, <1>3, <1>4

\* A delivery keeps every part of RestOK.
LEMMA RestDeliver ==
  ASSUME VotesOK, RestOK, NEW m \in pending, Deliver(m), IsLate(m) \/ IsValid(m)
  PROVE  RestOK'
<1>1. TypeOK /\ RolesOK /\ Sources /\ Single
  BY DEF VotesOK
<1>2. PICK r \in Round : \E msgs : /\ SetRound(m, r) /\ Answer(m, msgs)
                                   /\ Counts(m, r) /\ Effect(m, r, msgs)
                                   /\ Progress(m, r) /\ Answered(m)
  BY <1>1, DeliverMoves
<1>3. PICK msgs : /\ SetRound(m, r) /\ Answer(m, msgs)
                  /\ Counts(m, r) /\ Effect(m, r, msgs)
                  /\ Progress(m, r) /\ Answered(m)
  BY <1>2
<1>4. m.to \in Node /\ m.trxn \in Trxn
  BY <1>1, MessageType
<1>5. old' = {}
  BY DEF RestOK, Deliver, Ignore, Reject, RecvI, RecvIAlone, RecvILate, RecvJ, RecvK,
         RecvKIgnored, RecvL, RecvLCounted, RecvLIgnored, RecvM, RecvMCounted, RecvN
<1>6. ASSUME NEW x \in Node, NEW t \in Trxn PROVE StateOK(x, t)'
  BY <1>1, <1>3, StateStep DEF RestOK
<1>7. ASSUME NEW x \in Node, NEW t \in Trxn PROVE (Leads(x, t) => CountsHigh(x, t))'
  <2>1. Leads(x, t)' = Leads(x, t)
    BY DEF Leads, MyLeader, Circuit, Part
  <2> QED BY <1>1, <1>3, <2>1, CountsHighStep DEF RestOK
<1>8. (\A v \in Handled : Done(v))'
  BY <1>1, <1>3, <1>4, DoneStep DEF RestOK
<1>9. TellsAll'
  BY <1>1, <1>3, TellsStep DEF RestOK
<1>10. NoCircle'
  BY <1>1, <1>3, <1>4, NoCircleStep DEF RestOK
<1> QED BY <1>5, <1>6, <1>7, <1>8, <1>9, <1>10 DEF RestOK

-----------------------------------------------------------------------------
(* And by everything else, when nothing is ever old and no node restarts:   *)
(* what is left besides deliveries are the clients.                         *)

LEMMA RestInit == Init => RestOK
<1> SUFFICES ASSUME Init PROVE RestOK
  OBVIOUS
<1>1. /\ sent = {} /\ pending = {} /\ old = {}
      /\ \A x \in Node, t \in Trxn :
           /\ round[x][t].state = 0
           /\ round[x][t].k = 0 /\ round[x][t].l = 0 /\ round[x][t].m = 0
  BY DEF Init, NoRound, ST_NULL
<1>2. Handled = {} /\ \A xit, x, t : Heard(xit, x, t) = {}
  BY <1>1 DEF Handled, Heard
<1>3. ASSUME NEW x \in Node, NEW t \in Trxn PROVE StateOK(x, t)
  BY <1>1 DEF StateOK, ST_NULL, ST_B, ST_F
<1>4. ASSUME NEW x \in Node, NEW t \in Trxn, Leads(x, t) PROVE CountsHigh(x, t)
  <2>1. /\ Cardinality(Heard("k", x, t)) = 0
        /\ Cardinality(Heard("l", x, t)) = 0
        /\ Cardinality(Heard("m", x, t)) = 0
    BY <1>2, FS_EmptySet
  <2>2. LeaderQuorum(x, t) \in Int /\ LeaderQuorum(x, t) >= 1
    BY <1>4, LeaderQuorumIs, SomeNeeded
  <2> QED BY <1>1, <2>1, <2>2 DEF CountsHigh, One, ST_B, ST_C, ST_D, ST_F
<1>5. NoCircle
  BY <1>2 DEF NoCircle
<1>6. TellsAll /\ \A v \in Handled : Done(v)
  BY <1>1, <1>2 DEF TellsAll
<1> QED BY <1>1, <1>3, <1>4, <1>5, <1>6 DEF RestOK

\* The steps that are no delivery, in a network where nothing becomes too old.
LEMMA QuietSteps ==
  ASSUME Timely, TypeOK, [Next]_vars, ~\E m \in pending : Deliver(m)
  PROVE  UNCHANGED <<round, epoch, old>>
<1>1. ASSUME NEW x \in Node, Restart(x) \/ Cleanup(x) PROVE FALSE
  <2>1. CASE Restart(x)
    BY <2>1 DEF Restart, Timely, NoRestarts, TypeOK
  <2>2. CASE Cleanup(x)
    <3>1. ASSUME NEW v \in OldVotes(x) PROVE FALSE
      <4>1. v \in Stale \X {"k", "l", "m"}
        BY DEF OldVotes
      <4>2. v[1] \in Stale
        BY <4>1
      <4> QED BY <4>2 DEF Timely
    <3>2. PICK gone \in (SUBSET OldVotes(x)) \ {{}} : TRUE
      BY <2>2, ZenonT(40) DEF Cleanup
    <3> QED BY <3>1, <3>2
  <2> QED BY <1>1, <2>1, <2>2
<1>2. ASSUME NEW t \in Trxn, Expire(t) PROVE FALSE
  BY <1>2 DEF Expire, Timely
<1>3. ASSUME NEW x \in Node, NEW t \in Trxn, Submit(x, t) \/ SubmitRefused(x, t)
      PROVE  UNCHANGED <<round, epoch, old>>
  BY <1>3 DEF Submit, SubmitRefused
<1>4. CASE UNCHANGED vars
  BY <1>4 DEF vars
<1> QED BY <1>1, <1>2, <1>3, <1>4 DEF Next

\* A request only adds messages that nobody has handled.
LEMMA RestAside ==
  ASSUME RestOK, NEW msgs, Aside(msgs), UNCHANGED <<round, old>>
  PROVE  RestOK'
<1>1. /\ sent' = sent \cup msgs /\ Handled' = Handled \ msgs
      /\ \A v \in msgs : v.xit = "i"
  BY DEF Aside
<1>2. ASSUME NEW xit \in {"k", "l", "m"}, NEW x \in Node, NEW t \in Trxn
      PROVE  Heard(xit, x, t)' = Heard(xit, x, t)
  BY <1>1 DEF Heard
<1>3. ASSUME NEW xit, NEW x \in Node, NEW t \in Trxn, HasSent(xit, x, t)
      PROVE  HasSent(xit, x, t)'
  BY <1>1, <1>3 DEF HasSent
<1>4. ASSUME NEW x \in Node, NEW t \in Trxn PROVE StateOK(x, t)'
  BY <1>3 DEF StateOK, RestOK
<1>5. ASSUME NEW x \in Node, NEW t \in Trxn, Leads(x, t) PROVE CountsHigh(x, t)'
  <2>1. CountsHigh(x, t)
    BY <1>5 DEF RestOK
  <2>2. /\ Heard("k", x, t)' = Heard("k", x, t)
        /\ Heard("l", x, t)' = Heard("l", x, t)
        /\ Heard("m", x, t)' = Heard("m", x, t)
    BY <1>2
  <2> QED BY <2>1, <2>2 DEF CountsHigh
<1>6. ASSUME NEW v \in Handled' PROVE Done(v)'
  <2>1. Done(v)
    BY <1>1, <1>6 DEF RestOK
  <2> QED BY <1>1, <2>1 DEF Done
<1>7. TellsAll'
  <2>1. ASSUME NEW xit, NEW x, NEW t, HasTold(xit, x, t) PROVE HasTold(xit, x, t)'
    BY <1>1, <2>1 DEF HasTold
  <2> QED BY <1>1, <2>1 DEF TellsAll, RestOK
<1>8. NoCircle'
  <2>1. NoCircle
    BY DEF RestOK
  <2>2. ASSUME NEW x \in Node, NEW t \in Trxn PROVE Nearly(x, t)' = Nearly(x, t)
    BY <1>2 DEF Nearly
  <2> QED BY <1>2, <2>1, <2>2 DEF NoCircle
<1> QED BY <1>4, <1>5, <1>6, <1>7, <1>8 DEF RestOK

\* Every step keeps RestOK.
LEMMA RestStep ==
  ASSUME Timely, Affordable, VotesOK, Unrestarted, Stories, RestOK, [Next]_vars
  PROVE  RestOK'
<1>1. TypeOK
  BY DEF VotesOK
<1>2. CASE \E m \in pending : Deliver(m)
  <2>1. PICK m \in pending : Deliver(m)
    BY <1>2
  <2>2. IsLate(m) \/ IsValid(m)
    BY <1>1, DeliverValid DEF Timely, RestOK
  <2> QED BY <2>1, <2>2, RestDeliver
<1>3. CASE ~\E m \in pending : Deliver(m)
  <2>1. UNCHANGED <<round, old>>
    BY <1>1, <1>3, QuietSteps
  <2>2. \E msgs : Aside(msgs)
    BY <1>1, <1>3, OtherSteps DEF Timely
  <2> QED BY <2>1, <2>2, RestAside
<1> QED BY <1>2, <1>3

\* Without restarts every ledger stays consistent.
LEMMA StoriesInv ==
  ASSUME NoSelfPayment, NoRestarts
  PROVE  Spec => []Stories
<1>1. TypeOK /\ Unrestarted /\ Stories /\ [Next]_vars => Stories'
  BY StoriesStep
<1> QED BY <1>1, StoriesInit, TypeCorrect, UnrestartedInv, PTL DEF Spec

\* RestOK is invariant.
LEMMA RestInv ==
  ASSUME Timely, NoSelfPayment, Affordable
  PROVE  Spec => []RestOK
<1>1. VotesOK /\ Unrestarted /\ Stories /\ RestOK /\ [Next]_vars => RestOK'
  BY RestStep
<1>2. (Spec => []VotesOK) /\ (Spec => []Stories)
  BY VotesInv, StoriesInv DEF Timely
<1> QED BY <1>1, <1>2, RestInit, UnrestartedInv, PTL DEF Spec

-----------------------------------------------------------------------------
(* Clients.                                                                 *)

\* Every leader that can be reached has been sent the request.
Asked(t) ==
  \A y \in LeadersOf(t) \ Down :
    \E v \in sent : v.xit = "i" /\ v.trxn = t /\ v.to = y
Unsent(t) == \A v \in sent : v.trxn # t

\* Nothing is known of a transaction before it is submitted, and then every
\* leader has been sent it.  A client waits at one proxy, which has yet to
\* handle the XIT_n it answers the client on.
ClientOK(t) ==
  /\ client[t] = "idle" => Unsent(t)
  /\ client[t] \notin {"idle", "rejected"} \/ ~Unsent(t) => Asked(t)
  /\ Unsent(t) => \A x \in Node : round[x][t].state = ST_NULL
  /\ client[t] = "waiting" => \E x \in Node : t \in initer[x]
  /\ \A x \in Node : t \in initer[x] =>
       /\ client[t] = "waiting" /\ x \in Proxies[t] \ Down
       /\ ~Leads(x, t) => round[x][t].state # ST_F
  /\ \A x, y \in Node : t \in initer[x] /\ t \in initer[y] => x = y
ClientsOK == \A t \in Trxn : ClientOK(t)

\* Only XIT_n has to do with the client, and only where it is handled.
LEMMA DeliverClient ==
  ASSUME NEW m \in pending, Deliver(m)
  PROVE  \/ RecvN(m)
         \/ UNCHANGED <<initer, client>> /\ (m.xit = "n" => UNCHANGED round)
BY DEF Deliver, Ignore, Reject, RecvI, RecvIAlone, RecvILate, RecvJ, RecvK,
       RecvKIgnored, RecvL, RecvLCounted, RecvLIgnored, RecvM, RecvMCounted, Receives

\* All that a delivery sends is about the transaction of its message.
LEMMA EffectTrxn ==
  ASSUME NEW m, NEW r, NEW msgs, Effect(m, r, msgs), NEW v \in msgs
  PROVE  v.trxn = m.trxn
BY ForwardIs DEF Effect, Silent, Proposing, Voting, Agreeing, Confirming,
                 ConfirmingLast, Committing, Following

\* A client is told, once, by the XIT_n its proxy handles.
LEMMA ClientsDeliver ==
  ASSUME TypeOK, RolesOK, ClientsOK, NEW m \in pending, Deliver(m)
  PROVE  ClientsOK'
<1> SUFFICES ASSUME NEW t \in Trxn PROVE ClientOK(t)'
  BY DEF ClientsOK
<1>1. PICK r \in Round : \E msgs : SetRound(m, r) /\ Answer(m, msgs) /\ Effect(m, r, msgs)
  BY DeliverEffect
<1>2. PICK msgs : SetRound(m, r) /\ Answer(m, msgs) /\ Effect(m, r, msgs)
  BY <1>1
<1>3. /\ m.to \in Node /\ m.trxn \in Trxn
      /\ round'[m.to][m.trxn] = r
      /\ \A x \in Node : x # m.to \/ t # m.trxn => round'[x][t] = round[x][t]
  BY <1>2, EffectRound
<1>4. /\ m \in sent /\ sent' = sent \cup msgs
      /\ \A v \in msgs : v.trxn = m.trxn
  BY <1>2, MessageType, EffectTrxn DEF Answer
<1>5. /\ ClientOK(t)
      /\ Unsent(t)' => Unsent(t)
      /\ t = m.trxn => ~Unsent(t) /\ ~Unsent(t)'
      /\ t # m.trxn /\ Unsent(t) => Unsent(t)'
      /\ Asked(t) => Asked(t)'
  BY <1>4 DEF ClientsOK, Unsent, Asked
<1>6. CASE t # m.trxn
  <2>1. client'[t] = client[t] /\ \A x \in Node : t \in initer'[x] <=> t \in initer[x]
    BY <1>6, DeliverClient DEF RecvN, TypeOK
  <2>2. \A x \in Node : round'[x][t] = round[x][t]
    BY <1>3, <1>6
  <2> QED BY <1>5, <1>6, <2>1, <2>2 DEF ClientOK
<1>7. CASE t = m.trxn /\ RecvN(m)
  <2>1. /\ ~Leads(m.to, t) /\ Asked(t) /\ Asked(t)' /\ ~Unsent(t)'
        /\ client[t] # "idle"
    BY <1>5, <1>7 DEF RecvN, ClientOK
  <2>2. /\ \A x \in Node : t \in initer'[x] <=> t \in initer[x] /\ x # m.to
        /\ client'[t] = IF t \in initer[m.to] THEN Told(m) ELSE client[t]
        /\ Told(m) \in {"confirmed", "rejected"}
    BY <1>3, <1>7 DEF RecvN, TypeOK, Told
  <2>3. \A x \in Node : x # m.to => round'[x][t] = round[x][t]
    BY <1>3
  <2>4. CASE t \in initer[m.to]
    <3>1. \A x \in Node : t \notin initer'[x]
      BY <1>3, <1>5, <2>2, <2>4 DEF ClientOK
    <3> QED BY <2>1, <2>2, <2>4, <3>1 DEF ClientOK
  <2>5. CASE t \notin initer[m.to]
    <3>1. client'[t] = client[t] /\ \A x \in Node : t \in initer'[x] <=> t \in initer[x]
      BY <2>2, <2>5
    <3> QED BY <1>5, <2>1, <2>2, <2>3, <3>1 DEF ClientOK, Leads, MyLeader, Circuit, Part
  <2> QED BY <2>4, <2>5
<1>8. CASE t = m.trxn /\ ~RecvN(m)
  <2>1. /\ UNCHANGED <<initer, client>>
        /\ m.xit = "n" => UNCHANGED round
        /\ Asked(t)' /\ ~Unsent(t)' /\ client[t] # "idle"
    BY <1>5, <1>8, DeliverClient DEF ClientOK
  <2>2. ASSUME NEW x \in Node, t \in initer[x], ~Leads(x, t)
        PROVE  round'[x][t].state # ST_F
    <3>1. round[x][t].state # ST_F
      BY <1>5, <2>2 DEF ClientOK
    <3>2. CASE x # m.to \/ m.xit = "n"
      <4>1. CASE x # m.to
        BY <1>3, <3>1, <4>1
      <4>2. CASE m.xit = "n"
        BY <2>1, <3>1, <4>2
      <4> QED BY <3>2, <4>1, <4>2
    <3>3. CASE x = m.to /\ m.xit # "n"
      <4>1. r.state = RoundAt(m).state
        BY <1>2, <1>8, <2>2, <3>3
        DEF Effect, Silent, Proposing, Voting, Agreeing, LeadersAgree, Confirming,
            ConfirmingLast, Committing, Following
      <4> QED BY <1>3, <1>8, <3>1, <3>3, <4>1 DEF RoundAt
    <3> QED BY <1>3, <3>2, <3>3
  <2>3. /\ client'[t] = client[t] /\ \A x \in Node : t \in initer'[x] <=> t \in initer[x]
        /\ \A x \in Node : Leads(x, t)' = Leads(x, t)
    BY <2>1 DEF Leads, MyLeader, Circuit, Part
  <2> QED BY <1>5, <2>1, <2>2, <2>3 DEF ClientOK
<1> QED BY <1>6, <1>7, <1>8

\* Every step keeps ClientsOK.
LEMMA ClientsStep ==
  ASSUME NoRestarts, VotesOK, ClientsOK, [Next]_vars
  PROVE  ClientsOK'
<1>0. TypeOK /\ RolesOK
  BY DEF VotesOK
<1>1. ASSUME NEW m \in pending, Deliver(m) PROVE ClientsOK'
  BY <1>0, <1>1, ClientsDeliver
<1>2. ASSUME NEW t \in Trxn, NEW x \in Node, Submit(x, t) PROVE ClientsOK'
  <2> DEFINE msgs == Multicast("i", t, x, FenceFor(x, t), LeadersOf(t))
  <2>1. /\ client[t] = "idle" /\ x \in Proxies[t] \ Down
        /\ Send(msgs) /\ UNCHANGED round
        /\ initer' = [initer EXCEPT ![x] = @ \cup {t}]
        /\ client' = [client EXCEPT ![t] = "waiting"]
    BY <1>2 DEF Submit
  <2>2. /\ \A v \in msgs : v.trxn = t
        /\ \A y \in LeadersOf(t) \ Down :
             \E v \in msgs : v.xit = "i" /\ v.trxn = t /\ v.to = y
    <3> DEFINE v(y) == [xit |-> "i", trxn |-> t, from |-> x, to |-> y,
                        fence |-> FenceFor(x, t), epoch |-> epoch[x]]
    <3>1. msgs = {v(y) : y \in LeadersOf(t) \ Down}
      BY DEF Multicast
    <3>2. \A y : v(y).xit = "i" /\ v(y).trxn = t /\ v(y).to = y
      OBVIOUS
    <3> HIDE DEF v, msgs
    <3> QED BY <3>1, <3>2
  <2> HIDE DEF msgs
  <2>3. Asked(t)'
    BY <2>1, <2>2 DEF Asked, Send, LeadersOf, MyLeader, Circuit, Part
  <2>4. ASSUME NEW s \in Trxn, s # t PROVE ClientOK(s)'
    <3>1. /\ ClientOK(s) /\ client'[s] = client[s]
          /\ \A y \in Node : s \in initer'[y] <=> s \in initer[y]
      BY <1>0, <2>1, <2>4 DEF ClientsOK, TypeOK
    <3>2. /\ Unsent(s)' <=> Unsent(s)
          /\ Asked(s) => Asked(s)'
      BY <2>1, <2>2, <2>4 DEF Unsent, Asked, Send
    <3>3. UNCHANGED round
      BY <2>1
    <3> QED BY <3>1, <3>2, <3>3 DEF ClientOK
  <2>5. ClientOK(t)'
    <3>1. ClientOK(t) /\ client'[t] = "waiting"
      BY <1>0, <2>1 DEF ClientsOK, TypeOK
    <3>2. \A y \in Node : t \notin initer[y]
      BY <2>1, <3>1 DEF ClientOK
    <3>3. \A y \in Node : t \in initer'[y] <=> y = x
      BY <1>0, <2>1, <3>2 DEF TypeOK
    <3>4. \A y \in Node : round'[y][t].state = ST_NULL
      BY <2>1, <3>1 DEF ClientOK
    <3> QED BY <2>1, <2>3, <3>1, <3>3, <3>4 DEF ClientOK, ST_NULL, ST_F
  <2> QED BY <2>4, <2>5 DEF ClientsOK
<1>3. ASSUME NEW t \in Trxn, NEW x \in Node, SubmitRefused(x, t) PROVE ClientsOK'
  <2>1. /\ client[t] = "idle" /\ UNCHANGED <<round, initer, sent>>
        /\ client' = [client EXCEPT ![t] = "rejected"]
    BY <1>3 DEF SubmitRefused
  <2>2. ASSUME NEW s \in Trxn
        PROVE  /\ ClientOK(s)
               /\ client'[s] = IF s = t THEN "rejected" ELSE client[s]
               /\ Unsent(s)' = Unsent(s) /\ Asked(s)' = Asked(s)
    BY <1>0, <2>1 DEF ClientsOK, TypeOK, Unsent, Asked
  <2>3. ASSUME NEW s \in Trxn PROVE ClientOK(s)'
    BY <2>1, <2>2 DEF ClientOK
  <2> QED BY <2>3 DEF ClientsOK
<1>4. ASSUME NEW x \in Node, Restart(x) PROVE FALSE
  BY <1>0, <1>4 DEF Restart, NoRestarts, TypeOK
<1>5. ASSUME NEW x \in Node, Cleanup(x) PROVE ClientsOK'
  <2>1. UNCHANGED <<initer, client, sent>>
    BY <1>5 DEF Cleanup
  <2>2. \A y \in Node, t \in Trxn : round'[y][t].state = round[y][t].state
    BY <1>0, <1>5, CleanupCounters
  <2>3. ASSUME NEW t \in Trxn PROVE ClientOK(t)'
    <3>1. ClientOK(t)
      BY DEF ClientsOK
    <3> QED BY <2>1, <2>2, <3>1 DEF ClientOK, Unsent, Asked
  <2> QED BY <2>3 DEF ClientsOK
<1>6. ASSUME UNCHANGED <<round, initer, client, sent>> PROVE ClientsOK'
  BY <1>6 DEF ClientsOK, ClientOK, Unsent, Asked
<1>7. ASSUME NEW t \in Trxn, Expire(t) PROVE UNCHANGED <<round, initer, client, sent>>
  BY <1>7 DEF Expire
<1>8. CASE UNCHANGED vars
  BY <1>6, <1>8 DEF vars
<1> QED BY <1>1, <1>2, <1>3, <1>4, <1>5, <1>6, <1>7, <1>8 DEF Next

\* ClientsOK is invariant.
LEMMA ClientsInv ==
  ASSUME NoRestarts
  PROVE  Spec => []ClientsOK
<1>1. Init => ClientsOK
  BY DEF Init, ClientsOK, ClientOK, Unsent, NoRound
<1>2. VotesOK /\ ClientsOK /\ [Next]_vars => ClientsOK'
  BY ClientsStep
<1> QED BY <1>1, <1>2, VotesInv, PTL DEF Spec

-----------------------------------------------------------------------------
(* When every message has been handled.                                     *)

Resting(t) ==
  /\ VotesOK /\ Certificate /\ RestOK /\ pending = {} /\ Asked(t)
  /\ Reachable(t)

\* The leaders that can be reached, and the votes they need of each other.
LEMMA ReachedLead ==
  ASSUME NEW t \in Trxn
  PROVE  /\ \A x \in Reached(t) : x \in Node /\ Leads(x, t) /\ x \notin Down
         /\ Reached(t) \in SUBSET Node
         /\ \A x \in Node : Leads(x, t) /\ x \notin Down => x \in Reached(t)
         /\ Needed(t) \in Nat /\ Needed(t) >= 1
         /\ \A x \in Reached(t) : LeaderQuorum(x, t) = Needed(t)
BY LeadersLead, SomeNeeded, LeaderQuorumIs DEF Reached, Needed, Leads, LeadersOf

\* All messages have been handled: the leaders have heard each other.
LEMMA HeardAtRest ==
  ASSUME NEW t \in Trxn, Resting(t), NEW xit \in {"l", "m"}
  PROVE  /\ Senders(xit, t) \in SUBSET Reached(t)
         /\ \A x \in Reached(t) : Heard(xit, x, t) = Senders(xit, t) \ {x}
         /\ Cardinality(Senders(xit, t)) \in Nat
         /\ \A x \in Reached(t) :
              Cardinality(Heard(xit, x, t))
                = Cardinality(Senders(xit, t)) - One(x \in Senders(xit, t))
<1>1. /\ VotesOK /\ TypeOK /\ Sources /\ TellsAll /\ Handled = sent
  BY DEF Resting, VotesOK, RestOK, Handled
<1>2. ASSUME NEW y \in Senders(xit, t)
      PROVE  /\ y \in Reached(t) /\ HasTold(xit, y, t)
  <2>1. PICK v \in sent : v.xit = xit /\ v.trxn = t /\ v.from = y
    BY DEF Senders
  <2>2. y \in Node /\ y \notin Down /\ Leads(y, t)
    BY <1>1, <2>1 DEF TypeOK, Message, Sources, Source
  <2>3. HasTold(xit, y, t)
    BY <1>1, <2>1 DEF TellsAll
  <2> QED BY <2>2, <2>3, ReachedLead
<1>3. ASSUME NEW x \in Reached(t) PROVE Heard(xit, x, t) = Senders(xit, t) \ {x}
  <2>1. x \in Node /\ Leads(x, t) /\ x \notin Down /\ x \in LeadersOf(t)
    BY ReachedLead DEF Reached
  <2>2. Heard(xit, x, t) \subseteq Senders(xit, t) \ {x}
    BY <1>1, <2>1, PeersHeard DEF Heard
  <2>3. ASSUME NEW y \in Senders(xit, t) \ {x} PROVE y \in Heard(xit, x, t)
    <3>1. y \in Node /\ Leads(y, t) /\ HasTold(xit, y, t)
      BY <1>2, ReachedLead
    <3>2. x \in MyPeers(y, t) \ Down
      BY <2>1, <3>1, PeersAreLeaders
    <3>3. PICK v \in sent : v.xit = xit /\ v.trxn = t /\ v.from = y /\ v.to = x
      BY <3>1, <3>2 DEF HasTold
    <3> QED BY <1>1, <3>3 DEF Heard
  <2> QED BY <2>2, <2>3
<1>4. /\ IsFiniteSet(Senders(xit, t)) /\ Cardinality(Senders(xit, t)) \in Nat
  BY <1>2, NodesFinite, ReachedLead
<1>5. ASSUME NEW x \in Reached(t)
      PROVE  Cardinality(Heard(xit, x, t))
                = Cardinality(Senders(xit, t)) - One(x \in Senders(xit, t))
  <2> DEFINE S == Senders(xit, t)
  <2>1. Heard(xit, x, t) = S \ {x}
    BY <1>3
  <2>2. IsFiniteSet(S) /\ Cardinality(S) \in Nat
    BY <1>4
  <2> HIDE DEF S
  <2>3. Cardinality(S \ {x}) = Cardinality(S) - One(x \in S)
    <3>1. Cardinality(S \ {x}) = IF x \in S THEN Cardinality(S) - 1 ELSE Cardinality(S)
      BY <2>2, FS_RemoveElement
    <3> QED BY <2>2, <3>1 DEF One
  <2> QED BY <2>1, <2>3 DEF S
<1> QED BY <1>2, <1>3, <1>4, <1>5

\* Where a leader stands.
LEMMA LeaderAtRest ==
  ASSUME NEW t \in Trxn, Resting(t), NEW x \in Reached(t)
  PROVE  /\ round[x][t].state \in {ST_B, ST_C, ST_D, ST_F}
         /\ round[x][t].state = ST_C => x \in Senders("l", t)
         /\ round[x][t].state = ST_D => x \in Senders("m", t)
         /\ x \in Senders("l", t) => round[x][t].state >= ST_C
         /\ x \in Senders("m", t) => round[x][t].state >= ST_D
<1>1. x \in Node /\ Leads(x, t) /\ x \notin Down /\ x \in LeadersOf(t)
  BY ReachedLead DEF Reached
<1>2. /\ VotesOK /\ TypeOK /\ Sources /\ Announced(x, t) /\ StateOK(x, t)
      /\ \A v \in sent : Done(v)
  BY <1>1 DEF Resting, VotesOK, RestOK, Handled
<1>3. round[x][t].state \in {ST_B, ST_C, ST_D, ST_F}
  <2>1. PICK v \in sent : v.xit = "i" /\ v.trxn = t /\ v.to = x
    BY DEF Resting, Asked, Reached
  <2>2. round[x][t].state >= ST_B
    BY <1>2, <2>1 DEF Done
  <2> QED BY <1>2, <2>2 DEF StateOK, ST_NULL, ST_B
<1>4. MyPeers(x, t) \ Down # {}
  <2>1. Cardinality(Reached(t)) > Needed(t) /\ Needed(t) \in Nat /\ Needed(t) >= 1
    BY ReachedLead DEF Resting, Reachable
  <2>2. Reached(t) # {x}
    <3>1. Cardinality({x}) = 1
      BY FS_Singleton
    <3> QED BY <2>1, <3>1
  <2>3. MyPeers(x, t) = LeadersOf(t) \ {x}
    BY <1>1, PeersAreLeaders
  <2> QED BY <2>2, <2>3 DEF Reached
<1>5. /\ round[x][t].state = ST_C => x \in Senders("l", t)
      /\ round[x][t].state = ST_D => x \in Senders("m", t)
  BY <1>1, <1>2, <1>4, OwnVote DEF Announced
<1>6. /\ x \in Senders("l", t) => round[x][t].state >= ST_C
      /\ x \in Senders("m", t) => round[x][t].state >= ST_D
  BY <1>2 DEF Senders, Sources, Source
<1> QED BY <1>3, <1>5, <1>6

\* A leader whose zone can agree has not stopped before, unless the
\* transaction is final somewhere.
LEMMA ZoneAtRest ==
  ASSUME NEW t \in Trxn, Resting(t), NEW x \in Reached(t), CanAgree(x, t),
         FinalAt(t) = {}
  PROVE  round[x][t].state # ST_B
<1> SUFFICES ASSUME round[x][t].state = ST_B PROVE FALSE
  OBVIOUS
<1> DEFINE S == MyFollowers(x, t) \ Down
           H == Heard("k", x, t)
<1>1. x \in Node /\ Leads(x, t) /\ x \notin Down
  BY ReachedLead
<1>2. /\ VotesOK /\ TypeOK /\ StateOK(x, t) /\ CountsHigh(x, t)
      /\ Handled = sent /\ \A v \in sent : Done(v)
  BY <1>1 DEF Resting, VotesOK, RestOK, Handled
<1>3. MyFollowers(x, t) # {} /\ HasSent("j", x, t)
  BY <1>2 DEF StateOK
<1>4. S # {} /\ Cardinality(S) + 1 >= ZoneQuorum(x, t)
  BY <1>3 DEF CanAgree
<1>5. ASSUME NEW y \in S PROVE y \in H
  <2>1. y \in Node /\ MyLeader(y, t) = x
    BY <1>1, MyFollowersFollow
  <2>2. PICK v \in sent : v.xit = "j" /\ v.trxn = t /\ v.from = x /\ v.to = y
    BY <1>3 DEF HasSent
  <2>3. round[y][t].state # ST_F
    BY <2>1 DEF FinalAt
  <2>4. PICK w \in sent : w.xit = "k" /\ w.trxn = t /\ w.from = y /\ w.to = x
    BY <1>1, <1>2, <2>1, <2>2, <2>3 DEF Done
  <2> QED BY <1>2, <2>4 DEF Heard
<1>6. H \in SUBSET Node /\ S \in SUBSET H
  BY <1>2, <1>5 DEF Heard, TypeOK, Message
<1>7. /\ Cardinality(S) \in Nat /\ Cardinality(H) \in Nat
      /\ Cardinality(S) <= Cardinality(H)
  BY <1>6, NodesGrow
<1>8. Cardinality(S) # 0
  <2>1. IsFiniteSet(S)
    BY <1>6, NodesFinite
  <2> HIDE DEF S
  <2> QED BY <1>4, <2>1, FS_EmptySet
<1>9. Cardinality(H) > 0 => Cardinality(H) + 1 < ZoneQuorum(x, t)
  BY <1>2 DEF CountsHigh, ST_B, ST_C
<1> HIDE DEF S, H
<1> QED BY <1>1, <1>4, <1>7, <1>8, <1>9, OwnQuorums

\* Enough leaders have voted.
LEMMA ZonesAtRest ==
  ASSUME NEW t \in Trxn, Resting(t)
  PROVE  /\ Cardinality(Senders("l", t)) >= Needed(t)
         /\ Cardinality(Senders("l", t)) \in Nat
<1>1. /\ FinalAt(t) # {} => Cardinality(Senders("m", t)) >= Needed(t)
      /\ Senders("m", t) # {} => Cardinality(Senders("l", t)) >= Needed(t)
  BY DEF Resting, Certificate, Backed, Needed
<1>2. Needed(t) \in Nat /\ Needed(t) >= 1 /\ Cardinality({}) = 0
  BY ReachedLead, FS_EmptySet
<1>3. /\ Cardinality(Senders("l", t)) \in Nat
      /\ Senders("l", t) \in SUBSET Node
  BY HeardAtRest, ReachedLead
<1>4. CASE FinalAt(t) # {} \/ Senders("m", t) # {}
  <2>1. Senders("m", t) # {}
    BY <1>1, <1>2, <1>4
  <2> QED BY <1>1, <1>3, <2>1
<1>5. CASE FinalAt(t) = {} /\ Senders("m", t) = {}
  <2> DEFINE U == {x \in Reached(t) : CanAgree(x, t)}
             A == Senders("l", t)
  <2>1. ASSUME NEW x \in U PROVE x \in A
    <3>1. x \in Reached(t) /\ CanAgree(x, t) /\ x \in Node
      BY ReachedLead
    <3>2. round[x][t].state # ST_B
      BY <1>5, <3>1, ZoneAtRest
    <3>3. round[x][t].state # ST_F
      BY <1>5, <3>1 DEF FinalAt
    <3> QED BY <1>5, <3>1, <3>2, <3>3, LeaderAtRest
  <2>2. Cardinality(U) >= Needed(t)
    BY DEF Resting, Reachable
  <2>3. U \in SUBSET A /\ A \in SUBSET Node
    BY <1>3, <2>1
  <2> HIDE DEF U, A
  <2>4. Cardinality(U) \in Nat /\ Cardinality(A) \in Nat /\ Cardinality(U) <= Cardinality(A)
    BY <2>3, NodesGrow
  <2>5. Cardinality(A) >= Needed(t)
    BY <1>2, <2>2, <2>4
  <2> QED BY <1>3, <2>5 DEF A
<1> QED BY <1>4, <1>5

\* At most one leader lacks a vote.
LEMMA OneAtRest ==
  ASSUME NEW t \in Trxn, Resting(t), NEW x \in Reached(t),
         round[x][t].state \notin {ST_D, ST_F}
  PROVE  /\ round[x][t].state = ST_C
         /\ \A y \in Reached(t) \ {x} : round[y][t].state \in {ST_D, ST_F}
<1>1. ASSUME NEW y \in Reached(t), round[y][t].state \notin {ST_D, ST_F}
      PROVE  Nearly(y, t) /\ round[y][t].state = ST_C /\ y \in Senders("l", t)
  <2> DEFINE s == round[y][t].state
             a == Cardinality(Senders("l", t))
             h == Cardinality(Heard("l", y, t))
  <2>1. y \in Node /\ Leads(y, t) /\ LeaderQuorum(y, t) = Needed(t) /\ Needed(t) \in Nat
    BY ReachedLead
  <2>2. s \in {ST_B, ST_C} /\ (s = ST_C => y \in Senders("l", t))
        /\ (y \in Senders("l", t) => s >= ST_C)
    BY <1>1, LeaderAtRest
  <2>3. s < ST_D => h < LeaderQuorum(y, t)
    BY <2>1 DEF Resting, RestOK, CountsHigh
  <2>4. h = a - One(y \in Senders("l", t)) /\ a \in Nat /\ a >= Needed(t)
    BY HeardAtRest, ZonesAtRest
  <2> HIDE DEF a, h
  <2>5. s = ST_C /\ y \in Senders("l", t)
    <3>1. s < ST_D /\ (s = ST_B => ~(s >= ST_C))
      BY <2>2 DEF ST_B, ST_C, ST_D
    <3>2. y \in Senders("l", t)
      BY <2>1, <2>3, <2>4, <3>1 DEF One
    <3> QED BY <2>2, <3>1, <3>2
  <2>6. h + 1 >= LeaderQuorum(y, t)
    BY <2>1, <2>4, <2>5 DEF One
  <2> QED BY <2>1, <2>5, <2>6 DEF Nearly, h
<1>2. ASSUME NEW y \in Reached(t) \ {x}, round[y][t].state \notin {ST_D, ST_F}
      PROVE  FALSE
  <2>1. /\ x \in Node /\ y \in Node /\ x # y /\ Nearly(x, t) /\ Nearly(y, t)
        /\ x \in Senders("l", t) /\ y \in Senders("l", t)
    BY <1>1, <1>2, ReachedLead
  <2>2. x \in Heard("l", y, t) /\ y \in Heard("l", x, t)
    BY <2>1, HeardAtRest
  <2> QED BY <2>1, <2>2 DEF Resting, RestOK, NoCircle
<1> QED BY <1>1, <1>2

\* Enough leaders have confirmed.
LEMMA LeadersAtRest ==
  ASSUME NEW t \in Trxn, Resting(t)
  PROVE  /\ Cardinality(Senders("m", t)) >= Needed(t)
         /\ Cardinality(Senders("m", t)) \in Nat
<1> DEFINE R == Reached(t)
           M == Senders("m", t)
<1>1. /\ Needed(t) \in Nat /\ R \in SUBSET Node /\ M \in SUBSET Node
      /\ Cardinality(M) \in Nat
  BY HeardAtRest, ReachedLead
<1>2. Cardinality(R) \in Nat /\ IsFiniteSet(R) /\ Cardinality(R) > Needed(t)
  BY <1>1, NodesFinite DEF Resting, Reachable
<1>3. CASE FinalAt(t) # {}
  BY <1>1, <1>3 DEF Resting, Certificate, Backed, Needed
<1>4. CASE FinalAt(t) = {}
  <2>1. \A y \in R : round[y][t].state # ST_F
    BY <1>1, <1>4 DEF FinalAt
  <2>2. PICK x : \A y \in R \ {x} : y \in M
    <3>1. \A y \in R : round[y][t].state = ST_D => y \in M
      BY LeaderAtRest
    <3>2. CASE \E x \in R : round[x][t].state # ST_D
      <4>1. PICK x \in R : round[x][t].state # ST_D
        BY <3>2
      <4>2. \A y \in R \ {x} : round[y][t].state \in {ST_D, ST_F}
        BY <2>1, <4>1, OneAtRest
      <4> QED BY <2>1, <3>1, <4>2
    <3>3. CASE \A x \in R : round[x][t].state = ST_D
      BY <3>1, <3>3
    <3> QED BY <3>2, <3>3
  <2>3. R \ {x} \in SUBSET M
    BY <2>2
  <2> HIDE DEF R, M
  <2>4. Cardinality(R \ {x}) >= Cardinality(R) - 1
    BY <1>2, FS_RemoveElement
  <2>5. Cardinality(R \ {x}) \in Nat /\ Cardinality(R \ {x}) <= Cardinality(M)
    BY <1>1, <2>3, NodesGrow
  <2> QED BY <1>1, <1>2, <2>4, <2>5 DEF M
<1> QED BY <1>3, <1>4

\* So every leader has a quorum of confirmations.
LEMMA LeaderFinal ==
  ASSUME NEW t \in Trxn, Resting(t), NEW x \in Reached(t)
  PROVE  round[x][t].state = ST_F
<1> SUFFICES ASSUME round[x][t].state # ST_F PROVE FALSE
  OBVIOUS
<1> DEFINE s == round[x][t].state
           c == Cardinality(Senders("m", t))
           h == Cardinality(Heard("m", x, t))
<1>1. x \in Node /\ Leads(x, t) /\ LeaderQuorum(x, t) = Needed(t) /\ Needed(t) \in Nat
  BY ReachedLead
<1>2. /\ s \in {ST_B, ST_C, ST_D}
      /\ x \in Senders("m", t) => s >= ST_D
  BY LeaderAtRest
<1>3. /\ round[x][t].m >= h + One(s >= ST_D)
      /\ round[x][t].m < LeaderQuorum(x, t)
      /\ round[x][t].m \in Nat
  <2>1. s < ST_F
    BY <1>2 DEF ST_B, ST_C, ST_D, ST_F
  <2>2. CountsHigh(x, t) /\ round[x][t] \in Round
    BY <1>1 DEF Resting, RestOK, VotesOK, TypeOK
  <2> QED BY <2>1, <2>2, StepCounters DEF CountsHigh
<1>4. h = c - One(x \in Senders("m", t)) /\ c \in Nat /\ c >= Needed(t)
  BY HeardAtRest, LeadersAtRest
<1> HIDE DEF s, c, h
<1>5. One(x \in Senders("m", t)) <= One(s >= ST_D) /\ One(s >= ST_D) \in Nat
      /\ One(x \in Senders("m", t)) \in Nat
  BY <1>2 DEF One
<1> QED BY <1>1, <1>3, <1>4, <1>5

\* And every follower has its commit.
LEMMA AllFinal ==
  ASSUME NEW t \in Trxn, Resting(t), NEW x \in Node \ Down
  PROVE  round[x][t].state = ST_F
<1> DEFINE y == MyLeader(x, t)
<1>1. y \in Node /\ Leads(y, t) /\ y \notin Down
  BY MyLeaderLeads DEF Resting, Reachable
<1>2. y \in Reached(t) /\ round[y][t].state = ST_F
  BY <1>1, ReachedLead, LeaderFinal
<1>3. CASE x = y
  BY <1>2, <1>3
<1>4. CASE x # y
  <2>1. x \in MyFollowers(y, t) \ Down
    <3>1. x \in Members(y, t) /\ x \notin Down
      BY DEF Members
    <3>2. MyFollowers(y, t) = Members(y, t) \ {y}
      BY <1>1, ZoneQuorumIs
    <3> QED BY <1>4, <3>1, <3>2
  <2>2. HasSent("n", y, t)
    BY <1>1, <1>2 DEF Resting, RestOK, StateOK
  <2>3. PICK v \in sent : v.xit = "n" /\ v.trxn = t /\ v.to = x
    BY <2>1, <2>2 DEF HasSent
  <2>4. Done(v)
    BY <2>3 DEF Resting, RestOK, Handled
  <2> QED BY <2>3, <2>4 DEF Done
<1> QED BY <1>3, <1>4

\* The certificate beside VotesOK.
LEMMA CertificateInv ==
  ASSUME NoRestarts
  PROVE  Spec => []Certificate
<1>1. VotesOK /\ VotesOK' /\ Certificate /\ [Next]_vars => Certificate'
  BY PromiseStep, CertificateStep DEF VotesOK
<1> QED BY <1>1, CertificateInit, VotesInv, PTL DEF Spec

\* On every network, with every circuit and however the messages overtake each
\* other: when none is left, each transaction that a proxy has sent on is final
\* at every node that can be reached.  onRecvK, onRecvL and onRecvM leave no
\* leader waiting for a vote that has come already, though a leader may miss
\* the quorum of votes that came before its zone agreed (Nearly).
THEOREM RestFinal ==
  ASSUME Timely, NoSelfPayment, Affordable, \A t \in Trxn : Reachable(t)
  PROVE  Spec => []RestIsFinal
<1>1. VotesOK /\ Certificate /\ RestOK /\ ClientsOK => RestIsFinal
  BY AllFinal DEF RestIsFinal, Resting, ClientsOK, ClientOK
<1>2. NoRestarts
  BY DEF Timely
<1> QED BY <1>1, <1>2, VotesInv, CertificateInv, RestInv, ClientsInv, PTL

\* The only clients that are left without an answer then are those whose proxy
\* leads its zone: onRecvN is the only place that answers.
THEOREM RestTold ==
  ASSUME Timely, NoSelfPayment, Affordable, \A t \in Trxn : Reachable(t)
  PROVE  Spec => []RestIsTold
<1>1. RestIsFinal /\ ClientsOK => RestIsTold
  <2> SUFFICES ASSUME RestIsFinal, ClientsOK, pending = {}, NEW t \in Trxn,
                      client[t] = "waiting"
               PROVE  \E x \in Proxies[t] : t \in initer[x] /\ Leads(x, t)
    BY DEF RestIsTold
  <2>1. PICK x \in Node : t \in initer[x]
    BY DEF ClientsOK, ClientOK
  <2>2. x \in Proxies[t] \ Down /\ (~Leads(x, t) => round[x][t].state # ST_F)
    BY <2>1 DEF ClientsOK, ClientOK
  <2>3. round[x][t].state = ST_F
    BY <2>2 DEF RestIsFinal
  <2> QED BY <2>1, <2>2, <2>3
<1>2. NoRestarts
  BY DEF Timely
<1> QED BY <1>1, <1>2, RestFinal, ClientsInv, PTL

\* A node that has handled the commit of a payment has it in its files.
FinalIsSaved ==
  \A x \in Node, t \in Trxn : round[x][t].state = ST_F => ledger[x].debit[t] > 0

\* A node that comes to be final saves the transaction: the payer can afford it.
LEMMA FinalSaved ==
  ASSUME NoRestarts, Affordable, TypeOK, RolesOK, Unrestarted, Stories, FinalIsSaved,
         \A t \in Trxn : t \in Payments /\ Req[t].to \in DOMAIN Founded,
         NEW m \in pending, Deliver(m)
  PROVE  FinalIsSaved'
<1> DEFINE x == m.to
           t == m.trxn
           led == ledger[x]
<1>1. /\ x \in Node /\ t \in Trxn /\ led \in Ledger
      /\ RoundAt(m).state \in 0..6
      /\ Checked(led, t) \in Ledger
      /\ Checked(led, t).debit = led.debit /\ Checked(led, t).acct = led.acct
  BY MessageType, StepCounters, CheckedType, CheckedRecords DEF Checked, Touch
<1>2. ASSUME NEW y \in Node, y # x PROVE ledger'[y] = ledger[y] /\ round'[y] = round[y]
  BY <1>2, DeliverElsewhere
<1>3. ASSUME NEW s \in Trxn, round'[x][s].state = ST_F PROVE ledger'[x].debit[s] > 0
  <2>1. CASE UNCHANGED round /\ (UNCHANGED ledger \/ LedgerChecked(m))
    <3>1. ledger'[x].debit = led.debit
      BY <1>1, <2>1 DEF LedgerChecked, TypeOK
    <3> QED BY <1>1, <1>3, <2>1, <3>1 DEF FinalIsSaved
  <2>2. ASSUME NEW r \in Round, SetRound(m, r), r.state = ST_F, Save(m),
               RoundAt(m).state < ST_F
        PROVE  ledger'[x].debit[s] > 0
    <3>1. ledger'[x] = Saved(Checked(led, t), t)
      BY <1>1, <2>2 DEF Save, TypeOK
    <3>2. RecordsFollowState(x) /\ Consistent(led, Founded)
      BY <1>1, UnrestartedRecords DEF Stories
    <3>3. led.debit[t] = 0 /\ \A u \in Trxn : led.debit[u] <= 1 /\ led.credit[u] <= 1
      BY <1>1, <2>2, <3>2 DEF RecordsFollowState, RoundAt
    <3>4. FundsValid(led, t) /\ Req[t].amount < InitialBalance
      BY <1>1, <3>2, <3>3, AffordableValid DEF RelayValid, SubmitValid, Payments
    <3>5. CanPay(Checked(led, t), t)
      <4>1. Exists(led, Req[t].to)
        BY <1>1, <3>2, RequestType DEF Consistent, AccountOK
      <4>2. led.acct[Req[t].from].bal >= Req[t].amount
        BY <1>1, <3>4, RequestType DEF FundsValid, Ledger, Account
      <4>3. (Req[t].amount - 1) \div 1000000 < 10000
        BY <1>1, <3>4, RequestType DEF InitialBalance
      <4> QED BY <1>1, <3>4, <4>1, <4>2, <4>3 DEF FundsValid, CanPay, Exists
    <3>6. Saved(Checked(led, t), t) = Pay(Checked(led, t), t)
      BY <1>1, <3>5 DEF Saved, Payments
    <3>7. ledger'[x].debit = [led.debit EXCEPT ![t] = @ + 1]
      BY <1>1, <3>1, <3>6 DEF Pay, Appended
    <3>8. led.debit \in [Trxn -> Nat]
      BY <1>1 DEF Ledger
    <3>9. CASE s = t
      BY <1>1, <3>3, <3>7, <3>8, <3>9
    <3>10. CASE s # t
      <4>1. round'[x][s] = round[x][s]
        BY <1>1, <2>2, <3>10 DEF SetRound, TypeOK
      <4> QED BY <1>1, <1>3, <3>7, <3>8, <3>10, <4>1 DEF FinalIsSaved
    <3> QED BY <3>9, <3>10
  <2>3. ASSUME NEW r \in Round, SetRound(m, r), LedgerChecked(m),
               r.state = ST_F => RoundAt(m).state = ST_F
        PROVE  ledger'[x].debit[s] > 0
    <3>1. ledger'[x].debit = led.debit
      BY <1>1, <2>3 DEF LedgerChecked, TypeOK
    <3>2. round[x][s].state = ST_F
      BY <1>1, <1>3, <2>3 DEF SetRound, RoundAt, TypeOK
    <3> QED BY <1>1, <3>1, <3>2 DEF FinalIsSaved
  <2>4. \/ UNCHANGED round /\ (UNCHANGED ledger \/ LedgerChecked(m))
        \/ \E r \in Round :
              /\ SetRound(m, r)
              /\ \/ LedgerChecked(m) /\ (r.state = ST_F => RoundAt(m).state = ST_F)
                 \/ Save(m) /\ r.state = ST_F /\ RoundAt(m).state < ST_F
    BY DeliverRound
  <2> QED BY <2>1, <2>2, <2>3, <2>4
<1> QED BY <1>2, <1>3 DEF FinalIsSaved

\* What is final at a node is in its blocks.
LEMMA FinalSavedInv ==
  ASSUME NoSelfPayment, NoRestarts, Affordable,
         \A t \in Trxn : t \in Payments /\ Req[t].to \in DOMAIN Founded
  PROVE  Spec => []FinalIsSaved
<1>1. Init => FinalIsSaved
  BY DEF Init, FinalIsSaved, NoRound, ST_NULL, ST_F
<1>2. TypeOK /\ RolesOK /\ Unrestarted /\ Stories /\ FinalIsSaved /\ [Next]_vars
        => FinalIsSaved'
  <2> SUFFICES ASSUME TypeOK, RolesOK, Unrestarted, Stories, FinalIsSaved, [Next]_vars
               PROVE  FinalIsSaved'
    OBVIOUS
  <2>1. ASSUME NEW m \in pending, Deliver(m) PROVE FinalIsSaved'
    BY <2>1, FinalSaved
  <2>2. CASE UNCHANGED <<round, ledger>>
    BY <2>2 DEF FinalIsSaved
  <2>3. ASSUME NEW t \in Trxn, NEW x \in Node, Submit(x, t) \/ SubmitRefused(x, t)
        PROVE  FinalIsSaved'
    <3>1. /\ UNCHANGED round
          /\ \/ UNCHANGED ledger
             \/ ledger' = [ledger EXCEPT ![x] = Checked(@, t)]
      BY <2>3 DEF Submit, SubmitRefused, TypeOK
    <3>2. Checked(ledger[x], t).debit = ledger[x].debit
      BY CheckedRecords DEF TypeOK
    <3>3. \A y \in Node : ledger'[y].debit = ledger[y].debit
      BY <3>1, <3>2 DEF TypeOK
    <3> QED BY <3>1, <3>3 DEF FinalIsSaved
  <2>4. ASSUME NEW x \in Node, Restart(x) PROVE FALSE
    BY <2>4 DEF Restart, NoRestarts, TypeOK
  <2>5. ASSUME NEW x \in Node, Cleanup(x) PROVE FinalIsSaved'
    <3>1. UNCHANGED ledger /\ \A y \in Node, t \in Trxn :
                                round'[y][t].state = round[y][t].state
      BY <2>5, CleanupCounters DEF Cleanup
    <3> QED BY <3>1 DEF FinalIsSaved
  <2>6. ASSUME NEW t \in Trxn, Expire(t) PROVE UNCHANGED <<round, ledger>>
    BY <2>6 DEF Expire
  <2>7. CASE UNCHANGED vars
    BY <2>2, <2>7 DEF vars
  <2> QED BY <2>1, <2>2, <2>3, <2>4, <2>5, <2>6, <2>7 DEF Next
<1> QED BY <1>1, <1>2, RolesCorrect, TypeCorrect, UnrestartedInv, StoriesInv, PTL DEF Spec

\* And the block files of all nodes that can be reached are the same, so that
\* with ReplicasSame their accounts are, but for the last digit of a balance.
\* For payments between users with an account; what createAcct does depends on
\* the store files a node has (AccountEverywhere).
THEOREM RestSame ==
  ASSUME Timely, NoSelfPayment, Affordable, \A t \in Trxn : Reachable(t),
         \A t \in Trxn : t \in Payments /\ Req[t].to \in DOMAIN Founded
  PROVE  Spec => []RestIsSame
<1>1. TypeOK /\ VotesOK /\ Certificate /\ RestOK /\ ClientsOK /\ Unrestarted
        /\ Stories /\ FinalIsSaved => RestIsSame
  <2> SUFFICES ASSUME TypeOK, VotesOK, Certificate, RestOK, ClientsOK, Unrestarted,
                      Stories, FinalIsSaved, pending = {}
               PROVE  \A x, y \in Node \ Down :
                        /\ ledger[x].debit = ledger[y].debit
                        /\ ledger[x].credit = ledger[y].credit
    BY DEF RestIsSame
  <2>1. ASSUME NEW x \in Node \ Down, NEW t \in Trxn
        PROVE  /\ ledger[x].debit[t] = IF Unsent(t) THEN 0 ELSE 1
               /\ ledger[x].credit[t] = ledger[x].debit[t]
    <3>1. RecordsFollowState(x) /\ ledger[x].debit[t] \in Nat
      BY UnrestartedRecords DEF Timely, TypeOK, Ledger
    <3>2. ledger[x].credit[t] = ledger[x].debit[t]
      BY DEF Stories, Consistent, RecordOK
    <3>3. CASE Unsent(t)
      <4>1. round[x][t].state < ST_F
        BY <3>3 DEF ClientsOK, ClientOK, ST_NULL, ST_F
      <4> QED BY <3>1, <3>2, <3>3, <4>1 DEF RecordsFollowState
    <3>4. CASE ~Unsent(t)
      <4>1. Resting(t)
        BY <3>4 DEF Resting, ClientsOK, ClientOK
      <4>2. ledger[x].debit[t] > 0
        BY <4>1, AllFinal DEF FinalIsSaved
      <4> QED BY <3>1, <3>2, <3>4, <4>2 DEF RecordsFollowState
    <3> QED BY <3>3, <3>4
  <2>2. \A x \in Node : /\ ledger[x].debit \in [Trxn -> Nat]
                        /\ ledger[x].credit \in [Trxn -> Nat]
    BY DEF TypeOK, Ledger
  <2> TAKE x, y \in Node \ Down
  <2>3. \A t \in Trxn : /\ ledger[x].debit[t] = ledger[y].debit[t]
                        /\ ledger[x].credit[t] = ledger[y].credit[t]
    BY <2>1
  <2> QED BY <2>2, <2>3
<1>2. NoRestarts
  BY DEF Timely
<1> QED BY <1>1, <1>2, TypeCorrect, VotesInv, CertificateInv, RestInv, ClientsInv,
           UnrestartedInv, StoriesInv, FinalSavedInv, PTL

\* Without restarts no handler sends again what has been handled: with the
\* finitely many messages there are, the nodes come to rest.
THEOREM NeverRepeated ==
  ASSUME NoRestarts
  PROVE  Spec => NothingRepeated
<1>1. VotesOK /\ ClientsOK /\ [Next]_vars
        => [sent \ pending \subseteq sent' \ pending']_vars
  <2> SUFFICES ASSUME VotesOK, ClientsOK, [Next]_vars
               PROVE  Handled \subseteq Handled'
    BY DEF Handled
  <2>0. TypeOK /\ RolesOK /\ Sources /\ Single
    BY DEF VotesOK
  <2>1. CASE \E m \in pending : Deliver(m)
    <3>1. PICK m \in pending : Deliver(m)
      BY <2>1
    <3>2. PICK r \in Round : \E msgs : Answer(m, msgs) /\ Effect(m, r, msgs)
      BY <2>0, <3>1, DeliverEffect
    <3> QED BY <2>0, <3>2, HandledStep
  <2>2. ASSUME NEW t \in Trxn, NEW x \in Node, Submit(x, t)
        PROVE  Handled \subseteq Handled'
    <3>1. Unsent(t)
      BY <2>2 DEF ClientsOK, ClientOK, Submit
    <3>2. PICK msgs : Send(msgs) /\ \A v \in msgs : v.trxn = t
      <4>1. \A v \in Multicast("i", t, x, FenceFor(x, t), LeadersOf(t)) : v.trxn = t
        BY DEF Multicast
      <4> QED BY <2>2, <4>1 DEF Submit
    <3> QED BY <3>1, <3>2 DEF Handled, Unsent, Send
  <2>3. CASE UNCHANGED <<sent, pending>>
    BY <2>3 DEF Handled
  <2>4. ASSUME NEW t \in Trxn, NEW x \in Node, SubmitRefused(x, t)
        PROVE  UNCHANGED <<sent, pending>>
    BY <2>4 DEF SubmitRefused
  <2>5. ASSUME NEW x \in Node, Restart(x) \/ Cleanup(x)
        PROVE  UNCHANGED <<sent, pending>>
    BY <2>5 DEF Restart, Cleanup
  <2>6. ASSUME NEW t \in Trxn, Expire(t) PROVE UNCHANGED <<sent, pending>>
    BY <2>6 DEF Expire
  <2>7. CASE UNCHANGED vars
    BY <2>3, <2>7 DEF vars
  <2> QED BY <2>1, <2>2, <2>3, <2>4, <2>5, <2>6, <2>7 DEF Next
<1> QED BY <1>1, VotesInv, ClientsInv, PTL DEF Spec, NothingRepeated

\* Where every node can be reached, two zones are enough.
LEMMA AllReachable ==
  ASSUME NEW t \in Trxn, Down = {}, Cardinality(LeadersOf(t)) >= 2
  PROVE  Reachable(t)
<1> DEFINE c == Cardinality(LeadersOf(t))
<1>1. c \in Nat
  BY HostsType, NAssumption, NodesFinite DEF LeadersOf
<1>2. \A k \in Nat : /\ k >= 2 => k > TwoFPlus1(k)
                     /\ k >= 1 => k >= TwoFPlus1(k)
  BY DEF TwoFPlus1
<1>3. Reached(t) = LeadersOf(t) /\ Cardinality(Reached(t)) > Needed(t)
  BY <1>1, <1>2 DEF Reached, Needed
<1>4. ASSUME NEW x \in Reached(t) PROVE CanAgree(x, t)
  <2> DEFINE f == MyFollowers(x, t)
  <2>1. x \in Node /\ f \in SUBSET Node /\ f \ Down = f
    BY ReachedLead, HostsType
  <2>2. Cardinality(f) \in Nat
    BY <2>1, NodesFinite
  <2>3. Cardinality(f) + 1 >= ZoneQuorum(x, t)
    BY <1>2, <2>2 DEF ZoneQuorum
  <2> QED BY <2>1, <2>3 DEF CanAgree
<1>5. {x \in Reached(t) : CanAgree(x, t)} = LeadersOf(t)
  BY <1>3, <1>4
<1> QED BY <1>1, <1>2, <1>3, <1>5 DEF Reachable, Needed

-----------------------------------------------------------------------------
(* Restarts, where everybody pays once.                                     *)

\* The account tells what the block files tell: a payer's fence is 1 once its
\* one payment is recorded, an account that was opened has its store file.
OnceOK(led) ==
  \A t \in Trxn :
    /\ led.debit[t] <= 1 /\ led.credit[t] <= led.debit[t]
    /\ led.debit[t] > 0 => Path[Req[t].from] \in led.files
    /\ t \in Payments => led.acct[Req[t].from].out = led.debit[t]

\* A look-up opens no account and pays nothing.
LEMMA TouchOnce ==
  ASSUME NEW led \in Ledger, NEW u \in User, OnceOK(led)
  PROVE  OnceOK(Touch(led, u))
BY DEF OnceOK, Touch, Ledger

\* The first payment of a user is its last.
LEMMA PayOnce ==
  ASSUME NoSelfPayment, OnePaymentEach, NEW led \in Ledger, NEW t \in Payments,
         OnceOK(led), led.debit[t] = 0
  PROVE  OnceOK(Pay(led, t))
<1> DEFINE u == Req[t].from
           v == Req[t].to
           new == Pay(led, t)
<1>1. /\ t \in Trxn /\ u \in User /\ v \in User /\ u # v
      /\ led.debit \in [Trxn -> Nat] /\ led.credit \in [Trxn -> Nat]
      /\ led.acct \in [User -> Account]
  BY RequestType DEF Payments, NoSelfPayment, Ledger
<1>2. \A w \in User : led.acct[w].out \in Nat
  BY <1>1 DEF Account
<1>3. /\ new.files = led.files \cup {Path[u]}
      /\ new.debit = [led.debit EXCEPT ![t] = @ + 1]
      /\ new.credit = [led.credit EXCEPT ![t] = @ + 1]
  BY DEF Pay, Appended
<1>4. /\ new.acct[u].out = led.acct[u].out + 1
      /\ \A w \in User \ {u} : new.acct[w].out = led.acct[w].out
  <2> DEFINE d == Debited(led.acct[u], Req[t].amount)
             c == Credited(led.acct[v], Req[t].amount)
  <2>1. d.out = led.acct[u].out + 1 /\ c.out = led.acct[v].out
    BY <1>1 DEF Debited, Credited, Account
  <2>2. new.acct = [[led.acct EXCEPT ![u] = d] EXCEPT ![v] = c]
    BY DEF Pay, Appended
  <2> HIDE DEF d, c, new
  <2> QED BY <1>1, <2>1, <2>2
<1> HIDE DEF new
<1>5. ASSUME NEW s \in Trxn, s # t
      PROVE  /\ new.debit[s] = led.debit[s] /\ new.credit[s] = led.credit[s]
             /\ s \in Payments => new.acct[Req[s].from].out = led.acct[Req[s].from].out
  <2>1. s \in Payments => Req[s].from \in User \ {u}
    BY <1>5, RequestType DEF OnePaymentEach, Payments
  <2> QED BY <1>1, <1>3, <1>4, <1>5, <2>1
<1>6. new.debit[t] = 1 /\ new.credit[t] = 1 /\ new.acct[u].out = 1
  <2>1. led.credit[t] = 0 /\ led.acct[u].out = 0
    BY <1>1 DEF OnceOK
  <2> QED BY <1>1, <1>3, <1>4, <2>1
<1> SUFFICES ASSUME NEW s \in Trxn
             PROVE  /\ new.debit[s] <= 1 /\ new.credit[s] <= new.debit[s]
                    /\ new.debit[s] > 0 => Path[Req[s].from] \in new.files
                    /\ s \in Payments => new.acct[Req[s].from].out = new.debit[s]
  BY DEF OnceOK, new
<1>7. CASE s = t
  BY <1>3, <1>6, <1>7
<1>8. CASE s # t
  BY <1>3, <1>5, <1>8 DEF OnceOK
<1> QED BY <1>7, <1>8

\* An account is opened where its user has no files, and so no records.
LEMMA CreateOnce ==
  ASSUME NEW led \in Ledger, NEW t \in Trxn \ Payments, OnceOK(led), CanCreate(led, t)
  PROVE  OnceOK(Create(led, t)) /\ led.debit[t] = 0
<1> DEFINE u == Req[t].from
           new == Create(led, t)
<1>1. /\ u \in User /\ led.acct \in [User -> Account]
      /\ led.debit \in [Trxn -> Nat] /\ led.credit \in [Trxn -> Nat]
  BY RequestType DEF Ledger
<1>2. \A s \in Trxn : Req[s].from = u => led.debit[s] = 0
  BY <1>1 DEF OnceOK, CanCreate
<1>3. /\ new.files = led.files \cup {Path[u]}
      /\ new.debit = [led.debit EXCEPT ![t] = @ + 1]
      /\ new.credit = led.credit
      /\ new.acct = [led.acct EXCEPT ![u] = NewAccount(Req[t].key)]
  BY DEF Create, Appended
<1>4. \A w \in User : new.acct[w].out = IF w = u THEN 0 ELSE led.acct[w].out
  BY <1>1, <1>3 DEF NewAccount
<1> HIDE DEF new
<1>5. ASSUME NEW s \in Trxn
      PROVE  /\ new.debit[s] <= 1 /\ new.credit[s] <= new.debit[s]
             /\ new.debit[s] > 0 => Path[Req[s].from] \in new.files
             /\ s \in Payments => new.acct[Req[s].from].out = new.debit[s]
  <2>1. CASE s = t
    <3>1. led.debit[t] = 0 /\ led.credit[t] = 0 /\ s \notin Payments
      BY <1>1, <1>2, <2>1 DEF OnceOK
    <3> QED BY <1>1, <1>3, <2>1, <3>1
  <2>2. CASE s # t
    <3>1. new.debit[s] = led.debit[s] /\ new.credit[s] = led.credit[s]
      BY <1>1, <1>3, <2>2
    <3>2. Req[s].from \in User
      BY RequestType
    <3> QED BY <1>2, <1>3, <1>4, <3>1, <3>2 DEF OnceOK
  <2> QED BY <2>1, <2>2
<1> QED BY <1>2, <1>5 DEF OnceOK, new

\* A save keeps this; of what is in the blocks already it makes nothing.
LEMMA SavedOnce ==
  ASSUME NoSelfPayment, OnePaymentEach, NEW led \in Ledger, NEW t \in Trxn,
         OnceOK(led), t \in Payments => led.debit[t] = 0
  PROVE  /\ OnceOK(Saved(led, t))
         /\ led.debit[t] = 0 \/ Saved(led, t) = led
<1>1. t \in Payments <=> Req[t].type = "PAYMENT"
  BY DEF Payments
<1>2. CASE t \in Payments /\ CanPay(led, t)
  BY <1>1, <1>2, PayOnce DEF Saved
<1>3. CASE t \in Payments /\ ~CanPay(led, t)
  BY <1>1, <1>3, TouchOnce, RequestType DEF Saved, Looked
<1>4. CASE t \notin Payments /\ CanCreate(led, t)
  BY <1>1, <1>4, CreateOnce DEF Saved
<1>5. CASE t \notin Payments /\ ~CanCreate(led, t)
  BY <1>1, <1>5 DEF Saved
<1> QED BY <1>2, <1>3, <1>4, <1>5

\* So does the look-up of a check.
LEMMA CheckedOnce ==
  ASSUME NEW led \in Ledger, NEW t \in Trxn, OnceOK(led)
  PROVE  OnceOK(Checked(led, t))
BY TouchOnce, RequestType DEF Checked

\* What a payment is sent with is the fence of a payer that has not paid.
OnceInv ==
  /\ \A x \in Node : OnceOK(ledger[x])
  /\ \A v \in sent : /\ v.trxn \in Payments => v.fence = 0
                     /\ client[v.trxn] # "idle"
  /\ \A t \in Trxn : client[t] = "idle" => \A x \in Node : ledger[x].debit[t] = 0

\* What is saved has passed the checks.
LEMMA DeliverSaves ==
  ASSUME NEW m \in pending, Deliver(m)
  PROVE  UNCHANGED ledger \/ LedgerChecked(m) \/ (Save(m) /\ IsValid(m))
BY DEF Deliver, Ignore, Reject, RecvI, RecvIAlone, RecvILate, RecvJ, RecvK,
       RecvKIgnored, RecvL, RecvLCounted, RecvLIgnored, RecvM, RecvMCounted, RecvN,
       Receives

\* ... and is not in the blocks yet.
LEMMA ValidNew ==
  ASSUME TypeOK, OnceInv, NEW m \in pending, IsValid(m), m.trxn \in Payments
  PROVE  ledger[m.to].debit[m.trxn] = 0
<1> DEFINE t == m.trxn
           led == ledger[m.to]
<1>1. /\ m \in sent /\ t \in Trxn /\ m.to \in Node /\ led \in Ledger
  BY MessageType
<1>2. m.fence = 0 /\ OnceOK(led)
  BY <1>1 DEF OnceInv
<1>3. Req[t].type = "PAYMENT"
  BY DEF Payments
<1>4. m.fence = Fence(led, Req[t].from) \/ ~Recorded(led, t)
  BY <1>3 DEF IsValid, RelayValid, FenceValid
<1>5. led.debit[t] \in Nat
  BY <1>1 DEF Ledger
<1> QED BY <1>1, <1>2, <1>4, <1>5 DEF OnceOK, Fence, Recorded

\* A delivery keeps the ledger so, and saves no other transaction.
LEMMA OnceDeliver ==
  ASSUME NoSelfPayment, OnePaymentEach, TypeOK, OnceInv, NEW m \in pending, Deliver(m),
         NEW x \in Node
  PROVE  /\ OnceOK(ledger'[x])
         /\ \A s \in Trxn \ {m.trxn} : ledger'[x].debit[s] = ledger[x].debit[s]
<1> DEFINE t == m.trxn
           led == ledger[x]
<1>1. OnceOK(led) /\ led \in Ledger /\ t \in Trxn
  BY MessageType DEF OnceInv, TypeOK
<1>2. CASE ledger'[x] = led
  BY <1>1, <1>2
<1>3. CASE x = m.to /\ LedgerChecked(m)
  <2>1. ledger'[x] = Checked(led, t)
    BY <1>3 DEF LedgerChecked, TypeOK
  <2> QED BY <1>1, <2>1, CheckedOnce, CheckedRecords
<1>4. CASE x = m.to /\ Save(m) /\ IsValid(m)
  <2>1. ledger'[x] = Saved(Checked(led, t), t)
    BY <1>4 DEF Save, TypeOK
  <2>2. OnceOK(Checked(led, t)) /\ Checked(led, t) \in Ledger
        /\ Checked(led, t).debit = led.debit
    BY <1>1, CheckedOnce, CheckedType, CheckedRecords
  <2>3. t \in Payments => Checked(led, t).debit[t] = 0
    BY <1>4, <2>2, ValidNew
  <2>4. OnceOK(Saved(Checked(led, t), t))
    BY <1>1, <2>2, <2>3, SavedOnce
  <2>5. ASSUME NEW s \in Trxn \ {t} PROVE ledger'[x].debit[s] = led.debit[s]
    BY <1>1, <2>1, <2>2, SavedRecords
  <2> QED BY <2>1, <2>4, <2>5
<1>5. x # m.to => ledger'[x] = led
  BY DeliverElsewhere
<1> QED BY <1>2, <1>3, <1>4, <1>5, DeliverSaves DEF TypeOK

\* What a delivery makes of clients and messages.
LEMMA DeliverSent ==
  ASSUME TypeOK, RolesOK, NEW m \in pending, Deliver(m)
  PROVE  /\ \A v \in sent' \ sent : v.trxn = m.trxn /\ v.fence = m.fence
         /\ \A t \in Trxn : client'[t] = "idle" => client[t] = "idle"
<1>1. PICK r \in Round : \E msgs : Answer(m, msgs) /\ Effect(m, r, msgs)
  BY DeliverEffect
<1>2. PICK msgs : Answer(m, msgs) /\ Effect(m, r, msgs)
  BY <1>1
<1>3. \A xit, hosts : \A v \in Forward(m, xit, hosts) : v.trxn = m.trxn /\ v.fence = m.fence
  BY DEF Forward, Multicast
<1>4. \A v \in msgs : v.trxn = m.trxn /\ v.fence = m.fence
  BY <1>2, <1>3 DEF Effect, Silent, Proposing, Voting, Agreeing, Confirming,
                    ConfirmingLast, Committing, Following
<1>5. ASSUME NEW t \in Trxn, client'[t] = "idle" PROVE client[t] = "idle"
  <2>1. CASE RecvN(m)
    <3>1. client' = client \/ client' = [client EXCEPT ![m.trxn] = Told(m)]
      BY <2>1 DEF RecvN
    <3>2. Told(m) # "idle"
      BY DEF Told
    <3> QED BY <1>5, <3>1, <3>2 DEF TypeOK
  <2>2. CASE UNCHANGED client
    BY <1>5, <2>2
  <2> QED BY <2>1, <2>2, DeliverClient
<1> QED BY <1>2, <1>4, <1>5 DEF Answer

\* Every step keeps OnceInv.
LEMMA OnceStep ==
  ASSUME NoSelfPayment, OnePaymentEach, TypeOK, RolesOK, OnceInv, [Next]_vars
  PROVE  OnceInv'
<1>1. ASSUME UNCHANGED <<ledger, sent>>,
             \A t \in Trxn : client'[t] = "idle" => client[t] = "idle"
      PROVE  OnceInv'
  BY <1>1 DEF OnceInv, TypeOK, Message
<1>2. ASSUME NEW m \in pending, Deliver(m) PROVE OnceInv'
  <2>1. m \in sent /\ m.trxn \in Trxn
    BY MessageType
  <2>2. \A x \in Node : OnceOK(ledger'[x])
    BY <1>2, OnceDeliver
  <2>3. ASSUME NEW v \in sent'
        PROVE  /\ v.trxn \in Payments => v.fence = 0
               /\ client'[v.trxn] # "idle"
    <3>1. CASE v \in sent
      BY <1>2, <3>1, DeliverSent DEF OnceInv, TypeOK, Message
    <3>2. CASE v \notin sent
      BY <1>2, <2>1, <3>2, DeliverSent DEF OnceInv
    <3> QED BY <3>1, <3>2
  <2>4. ASSUME NEW t \in Trxn, client'[t] = "idle", NEW x \in Node
        PROVE  ledger'[x].debit[t] = 0
    <3>1. client[t] = "idle" /\ t # m.trxn
      BY <1>2, <2>1, <2>4, DeliverSent DEF OnceInv
    <3> QED BY <1>2, <3>1, OnceDeliver DEF OnceInv
  <2> QED BY <2>2, <2>3, <2>4 DEF OnceInv
<1>3. ASSUME NEW t \in Trxn, NEW y \in Node, Submit(y, t) PROVE OnceInv'
  <2>1. ASSUME NEW x \in Node
        PROVE  OnceOK(ledger'[x]) /\ ledger'[x].debit = ledger[x].debit
    BY <1>3, CheckedOnce, CheckedRecords DEF Submit, OnceInv, TypeOK
  <2>2. client'[t] # "idle" /\ \A s \in Trxn : client'[s] = "idle" => client[s] = "idle"
    BY <1>3 DEF Submit, TypeOK
  <2>3. ASSUME NEW v \in sent' \ sent
        PROVE  v.trxn = t /\ (t \in Payments => v.fence = 0)
    <3>1. v \in Multicast("i", t, y, FenceFor(y, t), LeadersOf(t))
      BY <1>3, <2>3 DEF Submit, Send
    <3>2. v.trxn = t /\ v.fence = FenceFor(y, t)
      BY <3>1 DEF Multicast
    <3>3. t \in Payments => ledger[y].acct[Req[t].from].out = 0
      BY <1>3 DEF OnceInv, OnceOK, Submit
    <3> QED BY <3>2, <3>3 DEF FenceFor, Fence, Payments
  <2>4. ASSUME NEW v \in sent'
        PROVE  /\ v.trxn \in Payments => v.fence = 0
               /\ client'[v.trxn] # "idle"
    <3>1. CASE v \in sent
      BY <2>2, <3>1 DEF OnceInv, TypeOK, Message
    <3>2. CASE v \notin sent
      BY <2>2, <2>3, <3>2
    <3> QED BY <3>1, <3>2
  <2> QED BY <2>1, <2>2, <2>4 DEF OnceInv
<1>4. ASSUME NEW t \in Trxn, NEW y \in Node, SubmitRefused(y, t) PROVE OnceInv'
  <2>1. ASSUME NEW x \in Node
        PROVE  OnceOK(ledger'[x]) /\ ledger'[x].debit = ledger[x].debit
    <3>1. ledger'[x] = ledger[x] \/ ledger'[x] = Checked(ledger[x], t)
      BY <1>4 DEF SubmitRefused, TypeOK
    <3> QED BY <3>1, CheckedOnce, CheckedRecords DEF OnceInv, TypeOK
  <2>2. sent' = sent /\ \A s \in Trxn : client'[s] = "idle" => client[s] = "idle"
    BY <1>4 DEF SubmitRefused, TypeOK
  <2>3. \A v \in sent : v.trxn \in Trxn
    BY DEF TypeOK, Message
  <2> QED BY <2>1, <2>2, <2>3 DEF OnceInv
<1>5. ASSUME NEW y \in Node, Restart(y) PROVE OnceInv'
  <2>1. \A t \in Trxn : client'[t] = "idle" => client[t] = "idle"
    BY <1>5 DEF Restart
  <2> QED BY <1>1, <1>5, <2>1 DEF Restart
<1>6. ASSUME NEW y \in Node, Cleanup(y) PROVE OnceInv'
  BY <1>1, <1>6 DEF Cleanup
<1>7. ASSUME NEW t \in Trxn, Expire(t) PROVE OnceInv'
  BY <1>1, <1>7 DEF Expire
<1>8. CASE UNCHANGED vars
  BY <1>1, <1>8 DEF vars
<1> QED BY <1>2, <1>3, <1>4, <1>5, <1>6, <1>7, <1>8 DEF Next

\* Nobody has paid anything at the start.
LEMMA OnceInit == Init => OnceInv
<1> SUFFICES ASSUME Init PROVE OnceInv
  OBVIOUS
<1>1. ASSUME NEW x \in Node, NEW t \in Trxn
      PROVE  /\ ledger[x].debit[t] = 0 /\ ledger[x].credit[t] = 0
             /\ ledger[x].acct[Req[t].from].out = 0
  BY RequestType DEF Init, LedgerWith, NewAccount, NoAccount
<1> QED BY <1>1 DEF Init, OnceInv, OnceOK

\* OnceInv is invariant.
LEMMA OnceInvariant ==
  ASSUME NoSelfPayment, OnePaymentEach
  PROVE  Spec => []OnceInv
<1>1. TypeOK /\ RolesOK /\ OnceInv /\ [Next]_vars => OnceInv'
  BY OnceStep
<1> QED BY <1>1, OnceInit, TypeCorrect, RolesCorrect, PTL DEF Spec

\* Where everybody pays once no node saves a transaction twice, whatever
\* restarts and whatever a restarted leader sends again: the fence the proxy
\* read is that of a payer that has not paid, so every node that has the payment
\* asks its block files, and an account is opened only where there are no files.
THEOREM AppliedOnceThroughRestarts ==
  ASSUME NoSelfPayment, OnePaymentEach
  PROVE  Spec => []AtMostOnce
<1>1. TypeOK /\ OnceInv => AtMostOnce
  <2> SUFFICES ASSUME TypeOK, OnceInv, NEW x \in Node, NEW t \in Trxn
               PROVE  ledger[x].debit[t] <= 1 /\ ledger[x].credit[t] <= 1
    BY DEF AtMostOnce
  <2>1. ledger[x].debit[t] \in Nat /\ ledger[x].credit[t] \in Nat
    BY DEF TypeOK, Ledger
  <2> QED BY <2>1 DEF OnceInv, OnceOK
<1> QED BY <1>1, TypeCorrect, OnceInvariant, PTL

\* The save of what a node does not have yet keeps accounts and blocks together.
LEMMA OnceStory ==
  ASSUME NoSelfPayment, OnePaymentEach, TypeOK, OnceInv, NEW m \in pending, Deliver(m),
         NEW x \in Node, Consistent(ledger[x], Founded)
  PROVE  Consistent(ledger'[x], Founded)
<1> DEFINE t == m.trxn
           led == ledger[x]
<1>1. OnceOK(led) /\ led \in Ledger /\ t \in Trxn
  BY MessageType DEF OnceInv, TypeOK
<1>2. Consistent(Checked(led, t), Founded) /\ Checked(led, t) \in Ledger
  BY <1>1, CheckedConsistent, CheckedType
<1>3. CASE ledger'[x] = led
  BY <1>3
<1>4. CASE x = m.to /\ LedgerChecked(m)
  BY <1>2, <1>4 DEF LedgerChecked, TypeOK
<1>5. CASE x = m.to /\ Save(m) /\ IsValid(m)
  <2>1. ledger'[x] = Saved(Checked(led, t), t)
    BY <1>5 DEF Save, TypeOK
  <2>2. OnceOK(Checked(led, t)) /\ Checked(led, t).debit = led.debit
    BY <1>1, CheckedOnce, CheckedRecords
  <2>3. t \in Payments => Checked(led, t).debit[t] = 0
    BY <1>5, <2>2, ValidNew
  <2>4. \/ Checked(led, t).debit[t] = 0
        \/ Saved(Checked(led, t), t) = Checked(led, t)
    BY <1>1, <1>2, <2>2, <2>3, SavedOnce
  <2> HIDE DEF t, led
  <2> QED BY <1>1, <1>2, <2>1, <2>4, SavedConsistent
<1>6. x # m.to => ledger'[x] = led
  BY DeliverElsewhere
<1> QED BY <1>3, <1>4, <1>5, <1>6, DeliverSaves DEF TypeOK

\* Then nodes that restart still agree on accounts when they agree on blocks.
THEOREM ReplicasSameThroughRestarts ==
  ASSUME NoSelfPayment, OnePaymentEach
  PROVE  Spec => []ReplicasAgree
<1>1. TypeOK /\ OnceInv /\ Stories /\ [Next]_vars => Stories'
  <2> SUFFICES ASSUME TypeOK, OnceInv, Stories, [Next]_vars, NEW x \in Node
               PROVE  Consistent(ledger'[x], Founded)
    BY DEF Stories
  <2>1. ASSUME NEW m \in pending, Deliver(m) PROVE Consistent(ledger'[x], Founded)
    BY <2>1, OnceStory DEF Stories
  <2> QED BY <2>1, StoriesAside
<1> QED BY <1>1, StoriesAgree, StoriesInit, TypeCorrect, OnceInvariant, PTL DEF Spec
=============================================================================
