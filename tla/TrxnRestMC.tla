----------------------------- MODULE TrxnRestMC -----------------------------
(***************************************************************************)
(* The instances of TrxnConsensusMC of which the theorems RestFinal and     *)
(* RestTold speak: TLC evaluates their hypotheses.  NoSelfPayment is a      *)
(* hypothesis of RestSame, with one about receivers' accounts.              *)
(***************************************************************************)
EXTENDS TrxnConsensusMC

ASSUME RestAssumption ==
  /\ Timely
  /\ NoSelfPayment
  /\ Affordable
  /\ \A t \in Trxn : Reachable(t)

ASSUME ReceiversAssumption == \A t \in Payments : Req[t].to \in DOMAIN Founded
=============================================================================
