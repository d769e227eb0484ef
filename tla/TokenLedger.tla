------------------------------ MODULE TokenLedger ------------------------------
(***************************************************************************)
(* Tokens in the ledgers of several nodes: createToken and transferToken of  *)
(* src/src/blockmgr.cc under the checks of validateTrxn.  The network commits *)
(* transactions; how is the subject of TrxnConsensus, here the final message  *)
(* of each reaches each node once, in any order, or never.                    *)
(***************************************************************************)
EXTENDS Tokens, FiniteSets

CONSTANTS
  Node,
  Founded,   \* users with an account, on every node
  Trxn,      \* transaction ids
  Req        \* Req[t]: [type, from, to, items]; an item of a NEWTOKEN says how
             \* many there are of the token

Request == [type : {"NEWTOKEN", "XFERTOKEN"}, from : User, to : User,
            items : Seq(Item)]

ASSUME FiniteAssumption == IsFiniteSet(User) /\ IsFiniteSet(Trxn)
ASSUME FoundedAssumption == Founded \subseteq User
ASSUME ReqAssumption == Req \in [Trxn -> Request]

VARIABLES
  acct,      \* acct[x][u]: tokens_, out_ and in_ in u's record at node x
  saved,     \* saved[x]: transactions in the block files of node x
  handled    \* handled[x]: transactions whose final message x has handled

vars == <<acct, saved, handled>>

Account == [tokens : Seq(Entry), out : Nat, in : Nat]

TypeOK ==
  /\ acct \in [Node -> [User -> Account]]
  /\ saved \in [Node -> SUBSET Trxn]
  /\ handled \in [Node -> SUBSET Trxn]

Init ==
  /\ acct = [x \in Node |->
       [u \in User |-> [tokens |-> <<>>, out |-> 0, in |-> 0]]]
  /\ saved = [x \in Node |-> {}]
  /\ handled = [x \in Node |-> {}]

-----------------------------------------------------------------------------
\* isXferTokenValid; a is one node's accounts.
IsXferTokenValid(a, t) ==
  LET r == Req[t]
  IN  /\ {r.from, r.to} \subseteq Founded
      /\ HasDupNames(a[r.from].tokens, r.items)
      /\ CheckValidTokens(r.from, r.items, a[r.from].tokens)

\* validateTrxn has no check of its own for a NEWTOKEN.
Valid(a, t) == Req[t].type = "XFERTOKEN" => IsXferTokenValid(a, t)

\* createToken: a user whose list is not empty is refused by hasDupNames.
CanCreate(a, t) == /\ Req[t].from \in Founded
                   /\ ~HasDupNames(a[Req[t].from].tokens, Req[t].items)

Created(a, t) ==
  [a EXCEPT ![Req[t].from].tokens = @ \o Minted(Req[t].from, Req[t].items)]

\* transferToken.
Outcome(a, t) == ModifyTokens(Req[t].from, Req[t].to, Req[t].items,
                              a[Req[t].from].tokens, a[Req[t].to].tokens)

CanTransfer(a, t) ==
  LET r == Req[t]
  IN  /\ {r.from, r.to} \subseteq Founded
      /\ HasDupNames(a[r.from].tokens, r.items)
      /\ Outcome(a, t).ok

\* Both records are computed from what was read; the receiver's is put last.
Transferred(a, t) ==
  LET r == Req[t]
      new == Outcome(a, t)
      from == [a[r.from] EXCEPT !.tokens = new.from, !.out = @ + 1]
      to == [a[r.to] EXCEPT !.tokens = new.to, !.in = @ + 1]
  IN  [[a EXCEPT ![r.from] = from] EXCEPT ![r.to] = to]

\* saveTrxn.
Saves(a, t) == IF Req[t].type = "NEWTOKEN" THEN CanCreate(a, t)
                                           ELSE CanTransfer(a, t)
SavedTokens(a, t) == IF Req[t].type = "NEWTOKEN" THEN Created(a, t)
                                                 ELSE Transferred(a, t)

-----------------------------------------------------------------------------
\* The final message of t is handled at x: it is checked once more, and saved
\* if it can be.
Receive(x, t) ==
  /\ t \notin handled[x]
  /\ handled' = [handled EXCEPT ![x] = @ \cup {t}]
  /\ \/ /\ Valid(acct[x], t) /\ Saves(acct[x], t)
        /\ acct' = [acct EXCEPT ![x] = SavedTokens(@, t)]
        /\ saved' = [saved EXCEPT ![x] = @ \cup {t}]
     \/ /\ ~(Valid(acct[x], t) /\ Saves(acct[x], t))
        /\ UNCHANGED <<acct, saved>>

Next == \E x \in Node, t \in Trxn : Receive(x, t)
Spec == Init /\ [][Next]_vars

-----------------------------------------------------------------------------
(* Properties.                                                              *)

\* Where a list, of entries or of items, names the token n.
Places(s, n) == {i \in DOMAIN s : s[i].name = n}

\* How much of the token n a wallet has, and user u at node x.
HeldIn(wallet, n) ==
  SumFunctionOnSet([i \in DOMAIN wallet |-> wallet[i].bal], Places(wallet, n))
Held(x, u, n) == HeldIn(acct[x][u].tokens, n)

\* How much of n the items of t create or transfer.
AmountOf(t, n) ==
  SumFunctionOnSet([i \in DOMAIN Req[t].items |-> Req[t].items[i].amount],
                   Places(Req[t].items, n))

Mints(n) == {t \in Trxn : Req[t].type = "NEWTOKEN" /\ Places(Req[t].items, n) # {}}

\* An NFT, if every request to create one of the name asks for one; names are
\* not reserved, so two users may each create it.  A request may name a token
\* twice: all but the first entry are out of reach.
Unique(n) == \A t \in Mints(n) : AmountOf(t, n) = 1
Fungible(n) ==
  \A t \in Mints(n) : Req[t].items[Find(Req[t].items, n)].amount > 1
ToSelf(x) == {t \in saved[x] : Req[t].type = "XFERTOKEN" /\ Req[t].from = Req[t].to}

\* At every node, what all users have of a fungible token is what the saved
\* requests have created: a transfer takes from one list what it adds to the
\* other, also when it fails half way through its items, when the receiver has
\* the token already, and when two users created tokens of one name.  (A
\* transfer to oneself creates tokens: the receiver's record is put last.)
TokensConserved ==
  \A x \in Node, n \in Name :
    Fungible(n) /\ ToSelf(x) = {} =>
      SumFunctionOnSet([u \in User |-> Held(x, u, n)], User)
        = SumFunctionOnSet([t \in Trxn |-> AmountOf(t, n)], Mints(n) \cap saved[x])

\* An NFT created once is in one hand, and that is its owner's, whatever way it
\* went, also back to a user who had it before and still has the empty entry.
NftOneHolder ==
  \A x \in Node, n \in Name :
    Unique(n) /\ Cardinality(Mints(n) \cap saved[x]) = 1 =>
      \E u \in User :
        /\ \A v \in User : Held(x, v, n) = IF v = u THEN 1 ELSE 0
        /\ \E e \in ToSet(acct[x][u].tokens) : e.name = n /\ e.owner = u

\* The vote is about what the save then does: in any state, a transfer that
\* isXferTokenValid accepts and that names no token twice is carried out.
NamedOnce(t) ==
  \A i, j \in DOMAIN Req[t].items :
    Req[t].items[i].name = Req[t].items[j].name => i = j
CheckedIsDone ==
  \A x \in Node, t \in Trxn :
    /\ Req[t].type = "XFERTOKEN" /\ NamedOnce(t)
    /\ IsXferTokenValid(acct[x], t)
    => Saves(acct[x], t)

\* Nodes that have saved the same transactions agree on what everybody has, in
\* whatever order each of them saved.
TokenReplicasAgree ==
  \A x, y \in Node :
    saved[x] = saved[y] =>
      \A u \in User :
        /\ acct[x][u].out = acct[y][u].out /\ acct[x][u].in = acct[y][u].in
        /\ \A n \in Name : Fungible(n) \/ Cardinality(Mints(n)) = 1 =>
             Held(x, u, n) = Held(y, u, n)
=============================================================================
