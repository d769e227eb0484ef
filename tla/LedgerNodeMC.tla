----------------------------- MODULE LedgerNodeMC -----------------------------
(***************************************************************************)
(* An instance of LedgerNode for TLC.                                       *)
(***************************************************************************)
EXTENDS LedgerNode, TLC

NewAcct(u) == [type |-> "NEWACCT", from |-> u, to |-> u, amount |-> 0,
               key |-> "key"]
Payment(u, v, x) == [type |-> "PAYMENT", from |-> u, to |-> v, amount |-> x,
                     key |-> "key"]

OwnPath == [u \in User |-> u]

Openings == [openA |-> NewAcct("a"), openB |-> NewAcct("b"),
             openC |-> NewAcct("c")]

\* p1, p2 and p3 cannot all be paid unless p4 or p5 comes first; p6 is paid by
\* someone with another key.  The last digits of p2, p4 and p5 are rounded, up
\* or down, depending on the balance they meet.
MixedReq == Openings @@
  [p1 |-> Payment("a", "b", 4000000), p2 |-> Payment("a", "c", 5000063),
   p3 |-> Payment("a", "b", 3000000), p4 |-> Payment("b", "a", 2500045),
   p5 |-> Payment("c", "a", 9000050),
   p6 |-> [Payment("b", "c", 1000000) EXCEPT !.key = "other"]]
=============================================================================
