------------------------ MODULE ExampleUserValidator ------------------------
(***************************************************************************)
(* src/on-chain/src/ExampleUserValidator.hs, the demo contract: whoever    *)
(* refers to a response that is successful, good and at most half an hour  *)
(* old may spend what is locked there.                                     *)
(***************************************************************************)
EXTENDS OracleData

CONSTANT
  Wanted      \* the pool action the contract is compiled for

UserAddr == ScriptAddr("user")

UserValidityPeriod == 30 * 60

GoodThreshold == 25000000

IsResponseGood(item) == item.value > GoodThreshold

(* Mutant of UserValidates: the response need not hold its token.          *)
UserValidatesAnyDatum(tx) ==
  \E u \in tx.refs :
    /\ tx.refs = {u}
    /\ u.datum \in DataItem
    /\ u.datum.error = 0
    /\ IsResponseGood(u.datum)
    /\ After(u.datum.timestamp + UserValidityPeriod, tx)

(* The transaction has one reference input, and it holds the response.     *)
UserValidates(tx) ==
  \E u \in tx.refs :
    /\ tx.refs = {u}
    /\ Quantity(u, ResponseAsset(Wanted)) = 1
    /\ u.datum \in DataItem
    /\ u.datum.error = 0
    /\ IsResponseGood(u.datum)
    /\ After(u.datum.timestamp + UserValidityPeriod, tx)
=============================================================================
