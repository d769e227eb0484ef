-------------------------------- MODULE Tokens --------------------------------
(***************************************************************************)
(* The token list in an account record and what minting and transferring do  *)
(* to it (src/src/blockmgr.cc modifyTokens, checkValidTokens,                *)
(* validateReqTokens; src/src/omtoken.cc hasDupNames).                       *)
(*                                                                          *)
(* A wallet is the JSON array as a sequence of entries, the empty text as    *)
(* <<>>.  Requests are well-formed, as getMintJson and getXferJson make      *)
(* them: at least one item, each with a name and a positive whole amount.    *)
(***************************************************************************)
EXTENDS OmAccount, Sequences, SequencesExt

CONSTANTS
  User,   \* account names
  Name    \* token names

NoOwner == ""

\* max is 1 for a token there is one of (an NFT), and only such a token has an
\* owner.
Entry == [name : Name, max : Nat \ {0}, bal : Nat, owner : User \cup {NoOwner}]
Item == [name : Name, amount : Nat \ {0}]

\* The loops stop at the first entry of the name; 0: none.
Find(wallet, n) == SelectInSeq(wallet, LAMBDA e : e.name = n)

IsNft(e) == e.max = 1

\* hasDupNames compares the keys of the JSON objects, not the names: every
\* entry has the key "name", so only an empty text has none in common.
HasDupNames(wallet, req) == wallet # <<>> /\ req # <<>>

\* validateReqTokens makes the creator the owner of an NFT; the client library
\* has set bal to max.
Minted(me, req) ==
  [i \in DOMAIN req |->
    [name |-> req[i].name, max |-> req[i].amount, bal |-> req[i].amount,
     owner |-> IF req[i].amount = 1 THEN me ELSE NoOwner]]

-----------------------------------------------------------------------------
(* modifyTokens: me sends what req lists to you.                            *)

\* Mutant: the balance is not looked at.
CanTakeAny(wallet, me, item) ==
  LET i == Find(wallet, item.name)
  IN  i # 0 /\ (IsNft(wallet[i]) => wallet[i].owner = me)

\* -55, -81 and -50: there is an entry, an NFT is mine, and it suffices.
CanTake(wallet, me, item) ==
  LET i == Find(wallet, item.name)
  IN  /\ i # 0
      /\ IsNft(wallet[i]) => wallet[i].owner = me
      /\ wallet[i].bal >= item.amount

Taken(wallet, you, item) ==
  LET i == Find(wallet, item.name)
      e == wallet[i]
  IN  [wallet EXCEPT
        ![i] = [e EXCEPT !.bal = Stored(@ - item.amount),
                         !.owner = IF IsNft(e) THEN you ELSE @]]

\* Mutants: the copied entry keeps what the sender has left; the owner stays.
GivenWhole(wallet, e, you, item) ==
  LET i == Find(wallet, item.name)
  IN  IF i = 0 THEN Append(wallet, e)
      ELSE IF IsNft(e)
           THEN [wallet EXCEPT ![i] = [@ EXCEPT !.bal = 1, !.owner = you]]
           ELSE [wallet EXCEPT ![i].bal = Stored(@ + item.amount)]
GivenNotOwned(wallet, e, you, item) ==
  LET i == Find(wallet, item.name)
  IN  IF i = 0 THEN Append(wallet, [e EXCEPT !.bal = item.amount])
      ELSE [wallet EXCEPT ![i].bal = Stored(@ + item.amount)]

\* e is the sender's entry once taken from: its owner is already you.
Given(wallet, e, you, item) ==
  LET i == Find(wallet, item.name)
  IN  IF i = 0 THEN Append(wallet, [e EXCEPT !.bal = item.amount])
      ELSE IF IsNft(e)
           THEN [wallet EXCEPT ![i] = [@ EXCEPT !.bal = 1, !.owner = you]]
           ELSE [wallet EXCEPT ![i].bal = Stored(@ + item.amount)]

\* Mutant: an item that cannot be taken is passed over.
MovedPartly(x, me, you, item) ==
  IF CanTake(x.from, me, item)
  THEN LET left == Taken(x.from, you, item)
           e == left[Find(left, item.name)]
       IN  [ok |-> TRUE, from |-> left, to |-> Given(x.to, e, you, item)]
  ELSE x

\* One item; ok tells whether the request can still be done.
Moved(x, me, you, item) ==
  IF x.ok /\ CanTake(x.from, me, item)
  THEN LET left == Taken(x.from, you, item)
           e == left[Find(left, item.name)]
       IN  [ok |-> TRUE, from |-> left, to |-> Given(x.to, e, you, item)]
  ELSE [x EXCEPT !.ok = FALSE]

\* The items in turn, each on what the ones before have left; nothing is kept
\* of a request that fails.
ModifyTokens(me, you, req, from, to) ==
  LET after[i \in 0..Len(req)] ==
        IF i = 0 THEN [ok |-> TRUE, from |-> from, to |-> to]
                 ELSE Moved(after[i - 1], me, you, req[i])
  IN  after[Len(req)]

\* Mutant: the balance is not looked at.
NamesOnly(me, req, from) ==
  \A i \in DOMAIN req :
    LET j == Find(from, req[i].name)
    IN  j # 0 /\ (IsNft(from[j]) => from[j].owner = me)

\* checkValidTokens looks at each item on its own.
CheckValidTokens(me, req, from) ==
  \A i \in DOMAIN req :
    LET j == Find(from, req[i].name)
    IN  /\ j # 0
        /\ IsNft(from[j]) => from[j].owner = me
        /\ from[j].bal >= req[i].amount
=============================================================================
