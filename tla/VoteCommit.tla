------------------------------ MODULE VoteCommit ------------------------------
(***************************************************************************)
(* What the network promises of a transaction, without messages, counters   *)
(* or ledgers: a member votes, a leader agrees when enough of its zone has   *)
(* voted, leaders confirm when enough leaders agree, a leader commits when   *)
(* enough leaders have confirmed, and a follower commits after its leader.   *)
(* Nothing is taken back.  TrxnConsensus implements this specification as    *)
(* long as no node is restarted.                                             *)
(***************************************************************************)
EXTENDS Naturals, FiniteSets

CONSTANTS
  Node,
  Trxn,
  Leader,      \* Leader[t][x]: who leads the zone of x in the circuit of t
  ZoneNeed,    \* ZoneNeed[t][x]: votes the leader x needs, its own included
  LeaderNeed   \* LeaderNeed[t]: leaders that have to agree, and to confirm

VARIABLES
  voted,       \* voted[t]: the followers that have voted for t
  agreed,      \* agreed[t]: the leaders whose zone has agreed
  confirmed,   \* confirmed[t]: the leaders that know enough zones to agree
  final        \* final[t]: the nodes that have committed t

vars == <<voted, agreed, confirmed, final>>

Init ==
  /\ voted = [t \in Trxn |-> {}]
  /\ agreed = [t \in Trxn |-> {}]
  /\ confirmed = [t \in Trxn |-> {}]
  /\ final = [t \in Trxn |-> {}]

Leads(x, t) == Leader[t][x] = x

Vote(x, t) ==
  /\ ~Leads(x, t)
  /\ voted' = [voted EXCEPT ![t] = @ \cup {x}]
  /\ UNCHANGED <<agreed, confirmed, final>>

Agree(x, t) ==
  /\ Leads(x, t)
  /\ Cardinality({y \in voted[t] : Leader[t][y] = x}) + 1 >= ZoneNeed[t][x]
  /\ agreed' = [agreed EXCEPT ![t] = @ \cup {x}]
  /\ UNCHANGED <<voted, confirmed, final>>

Confirm(x, t) ==
  /\ Leads(x, t)
  /\ Cardinality(agreed[t]) >= LeaderNeed[t]
  /\ confirmed' = [confirmed EXCEPT ![t] = @ \cup {x}]
  /\ UNCHANGED <<voted, agreed, final>>

Commit(x, t) ==
  /\ Leads(x, t)
  /\ Cardinality(confirmed[t]) >= LeaderNeed[t]
  /\ final' = [final EXCEPT ![t] = @ \cup {x}]
  /\ UNCHANGED <<voted, agreed, confirmed>>

\* A leader whose confirmation is the last one needed commits at once.
ConfirmAndCommit(x, t) ==
  /\ Leads(x, t)
  /\ Cardinality(agreed[t]) >= LeaderNeed[t]
  /\ confirmed' = [confirmed EXCEPT ![t] = @ \cup {x}]
  /\ Cardinality(confirmed'[t]) >= LeaderNeed[t]
  /\ final' = [final EXCEPT ![t] = @ \cup {x}]
  /\ UNCHANGED <<voted, agreed>>

Follow(x, t) ==
  /\ Leader[t][x] \in final[t]
  /\ final' = [final EXCEPT ![t] = @ \cup {x}]
  /\ UNCHANGED <<voted, agreed, confirmed>>

Next ==
  \E x \in Node, t \in Trxn :
    \/ Vote(x, t) \/ Agree(x, t) \/ Confirm(x, t)
    \/ Commit(x, t) \/ ConfirmAndCommit(x, t) \/ Follow(x, t)

Spec == Init /\ [][Next]_vars
=============================================================================
