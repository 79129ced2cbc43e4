-------------------------- MODULE RequestValidator --------------------------
(***************************************************************************)
(* src/on-chain/src/OracleRequestValidator.hs, the guard of the outputs    *)
(* that hold a request and the coin its owner put up for a response.       *)
(* Before the request expires its output can be spent to pay for a         *)
(* response within the requested time, the owner getting back all but the  *)
(* cost; afterwards its owner can take it back.                            *)
(***************************************************************************)
EXTENDS OracleData

RequestAddr == ScriptAddr("request")

(* Bytes of a response output other than its datum, as the ledger counts   *)
(* them for the minimal coin.                                              *)
MinUTxOIntercept == 274

(* Mutant of RequestExpired: a request expires at the last time it is for. *)
ExpiredTooSoon(request, tx) == request.before <= tx.lo

RequestExpired(request, tx) == Before(request.before, tx)

Holding(S, asset) == {u \in S : Quantity(u, asset) > 0}

AdaSpentWithAsset(asset, tx) == CoinOf(Holding(tx.ins, asset))

(* The data items of the outputs that respond in time.  The script takes   *)
(* the last such output of the transaction, whose builder orders them.     *)
ValidResponses(request, tx) ==
  {d \in {o.datum : o \in Holding(tx.outs, ResponseAsset(request.poolActionID))}
           \cap DataItem :
     request.after <= d.timestamp /\ d.timestamp <= request.before}

RealCost(request, item, tx) ==
  request.reward + tx.fee
    + request.coinPerByte * (MinUTxOIntercept + Bytes(item))
    - AdaSpentWithAsset(ResponseAsset(request.poolActionID), tx)

(* Mutant of CappedCost: the maximal cost is not regarded.                 *)
UncappedCost(request, item, tx) == Max({0, RealCost(request, item, tx)})

CappedCost(request, item, tx) ==
  Max({0, Min({request.maxCost, RealCost(request, item, tx)})})

ExistsChangeOutput(u, item, tx) ==
  LET minChange == u.coin - CappedCost(u.datum, item, tx)
  IN  \/ minChange <= 0
      \/ \E o \in tx.outs : o.addr = KeyAddr(u.datum.owner) /\ o.coin >= minChange

(* An output without a datum is anybody's.                                 *)
RequestValidates(u, tx) ==
  \/ u.datum = NoDatum
  \/ /\ u.datum \in Request
     /\ \/ /\ RequestExpired(u.datum, tx)
           /\ u.datum.owner \in tx.signers
        \/ /\ ~RequestExpired(u.datum, tx)
           /\ \E item \in ValidResponses(u.datum, tx) :
                ExistsChangeOutput(u, item, tx)
=============================================================================
