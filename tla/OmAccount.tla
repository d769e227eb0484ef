------------------------------ MODULE OmAccount ------------------------------
(***************************************************************************)
(* Numbers in an account record (src/src/omaccount.cc).  A balance, of       *)
(* omicros or of tokens, is stored as the text sprintf("%.6g") makes of it:  *)
(* six significant digits, ties to the even digit.                           *)
(***************************************************************************)
EXTENDS Integers

\* The weights the last of six digits can have, up to a number of fifteen.
Coarsest == 1000000000
LastDigits == {1, 10, 100, 1000, 10000, 100000, 1000000, 10000000, 100000000,
               Coarsest}

\* Counted in units of q, x has no more than six digits.
Keeps(x, q) == x \div q < 1000000

\* The weight of the last digit of x that is printed.
Quantum(x) ==
  CHOOSE q \in LastDigits :
    /\ Keeps(x, q) \/ q = Coarsest
    /\ \A p \in LastDigits : p < q => ~Keeps(x, p)

RoundTo(x, q) ==
  LET low == x \div q
      r == x % q
  IN  q * IF 2 * r > q \/ (2 * r = q /\ low % 2 = 1) THEN low + 1 ELSE low

Stored(x) == RoundTo(x, Quantum(x))
=============================================================================
