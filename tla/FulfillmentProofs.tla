-------------------------- MODULE FulfillmentProofs --------------------------
(***************************************************************************)
(* Fulfillment for every price, size and fee: what fulfill_request builds  *)
(* within the budget of a request is complete, and the request script      *)
(* accepts it, however the price has changed since the request was posted. *)
(*                                                                         *)
(* The programs reckon by today's price, so the lemmas are BuilderProofs'  *)
(* for that price.                                                         *)
(***************************************************************************)
EXTENDS Fulfillment, CoinProofs

Reckoned == INSTANCE BuilderProofs WITH CoinsPerByte <- price

(* The definitions are the same under each of the names they go by.        *)

(* Sums and bounds.                                                        *)
LEMMA SameSums ==
  ASSUME NEW S
  PROVE  /\ Reckoned!CoinOf(S) = CoinOf(S) /\ Today!CoinOf(S) = CoinOf(S)
         /\ Reckoned!Min(S) = Min(S) /\ Today!Min(S) = Min(S)
         /\ Reckoned!Max(S) = Max(S) /\ Today!Max(S) = Max(S)
BY Zenon
DEF Reckoned!CoinOf, Reckoned!MapThenSumSet, Reckoned!MapThenFoldSet, Reckoned!Min,
    Today!CoinOf, Today!MapThenSumSet, Today!MapThenFoldSet, Today!Min,
    CoinOf, MapThenSumSet, MapThenFoldSet, Min, Reckoned!Max, Today!Max, Max

(* What is finite, and the reward and the buffer for the fee.              *)
LEMMA SameNumbers ==
  /\ \A S : IsFiniteSet(S) => Reckoned!IsFiniteSet(S)
  /\ Reckoned!RelayerReward = Today!RelayerReward
  /\ Reckoned!CardanoFeeBuffer = Today!CardanoFeeBuffer
  /\ Reckoned!MinUTxOIntercept = MinUTxOIntercept
  /\ Today!RelayerReward \in Nat /\ Today!CardanoFeeBuffer \in Nat
  /\ MinUTxOIntercept \in Nat
<1>1. \A S : IsFiniteSet(S) => Reckoned!IsFiniteSet(S)
  BY DEF Reckoned!IsFiniteSet, IsFiniteSet
<1>2. /\ Reckoned!RelayerReward = Today!RelayerReward
      /\ Reckoned!CardanoFeeBuffer = Today!CardanoFeeBuffer
      /\ Reckoned!MinUTxOIntercept = MinUTxOIntercept
      /\ Today!RelayerReward \in Nat /\ Today!CardanoFeeBuffer \in Nat
      /\ MinUTxOIntercept \in Nat
  BY DEF Reckoned!RelayerReward, Today!RelayerReward, Reckoned!CardanoFeeBuffer,
         Today!CardanoFeeBuffer, Reckoned!MinUTxOIntercept, MinUTxOIntercept
<1> QED
  BY <1>1, <1>2

(* The responses of a pool action.                                         *)
LEMMA SameExisting ==
  ASSUME NEW view, NEW p
  PROVE  Reckoned!ByPoolActionID(view, p) = Today!ByPoolActionID(view, p)
BY DEF Reckoned!ByPoolActionID, Reckoned!StoredResponses, Reckoned!ResponseAsset,
       Reckoned!HasCurrency, Reckoned!DataItem, Reckoned!ResponseAddr,
       Reckoned!ScriptAddr,
       Today!ByPoolActionID, Today!StoredResponses, Today!ResponseAsset,
       Today!HasCurrency, Today!DataItem, Today!ResponseAddr, Today!ScriptAddr

(* The change for the owner, and the least there can be.                   *)
LEMMA SameChange ==
  ASSUME NEW u, NEW existing, NEW size, NEW reward, NEW fee
  PROVE  /\ Reckoned!FirstChange(u, existing, size, reward)
              = Today!FirstChange(u, existing, size, reward)
         /\ Reckoned!SecondChange(u, existing, size, reward, fee)
              = Today!SecondChange(u, existing, size, reward, fee)
         /\ Reckoned!MinCoin(Reckoned!ChangeBytes) = Today!MinCoin(Today!ChangeBytes)
BY SameSums
DEF Reckoned!FirstChange, Reckoned!SecondChange, Reckoned!MinCost,
    Reckoned!MinUTxOIntercept, Reckoned!MinCoin, Reckoned!ChangeBytes,
    Today!FirstChange, Today!SecondChange, Today!MinCost, Today!MinUTxOIntercept,
    Today!MinCoin, Today!ChangeBytes

(* A response.                                                             *)
LEMMA SameResponse ==
  ASSUME NEW p, NEW item, NEW id
  PROVE  Reckoned!ResponseOutput(p, item, id) = Today!ResponseOutput(p, item, id)
BY DEF Reckoned!ResponseOutput, Reckoned!TokenOutput, Reckoned!Output,
       Reckoned!MinCoin, Reckoned!ResponseBytes, Reckoned!HeadBytes, Reckoned!One,
       Reckoned!ResponseAsset, Reckoned!ResponseAddr, Reckoned!ScriptAddr,
       Today!ResponseOutput, Today!TokenOutput, Today!Output, Today!MinCoin,
       Today!ResponseBytes, Today!HeadBytes, Today!One, Today!ResponseAsset,
       Today!ResponseAddr, Today!ScriptAddr

(* The transaction that publishes one.                                     *)
LEMMA SamePublish ==
  ASSUME NEW view, NEW slot, NEW oracle, NEW msg, NEW wallet, NEW id
  PROVE  Reckoned!PublishTx(view, slot, oracle, msg, wallet, id)
           = Today!PublishTx(view, slot, oracle, msg, wallet, id)
<1>1. Reckoned!TTLOffset(oracle.data) = Today!TTLOffset(oracle.data)
  BY SameSums DEF Reckoned!TTLOffset, Today!TTLOffset
<1>2. Reckoned!PoolActionID(oracle.pool, msg.action) = Today!PoolActionID(oracle.pool, msg.action)
  BY DEF Reckoned!PoolActionID, Today!PoolActionID
<1> DEFINE p == Today!PoolActionID(oracle.pool, msg.action)
<1>3. /\ Reckoned!ByPoolActionID(view, p) = Today!ByPoolActionID(view, p)
      /\ Reckoned!ResponseOutput(p, msg.item, id) = Today!ResponseOutput(p, msg.item, id)
  BY SameExisting, SameResponse
<1>4. Reckoned!StartOffset = Today!StartOffset
  BY DEF Reckoned!StartOffset, Today!StartOffset
<1>5. \A ins, refs, outs, lo, hi, signers, fee :
        Reckoned!Tx(ins, refs, outs, lo, hi, signers, fee)
          = Today!Tx(ins, refs, outs, lo, hi, signers, fee)
  BY DEF Reckoned!Tx, Today!Tx
<1> QED
  BY ONLY <1>1, <1>2, <1>3, <1>4, <1>5 DEF Reckoned!PublishTx, Today!PublishTx

(* The transaction that fulfills a request, and what is left of it.        *)
LEMMA SameTx ==
  ASSUME NEW view, NEW slot, NEW oracle, NEW u, NEW msg, NEW wallet, NEW change,
         NEW fee, NEW id, NEW tx
  PROVE  /\ Reckoned!FulfillingTx(view, slot, oracle, u, msg, wallet, change, fee, id)
              = Today!FulfillingTx(view, slot, oracle, u, msg, wallet, change, fee, id)
         /\ Reckoned!RelayerGain(tx) = Today!RelayerGain(tx)
<1>1. Reckoned!RelayerGain(tx) = Today!RelayerGain(tx)
  BY SameSums DEF Reckoned!RelayerGain, Today!RelayerGain
<1>2. Reckoned!FulfillingTx(view, slot, oracle, u, msg, wallet, change, fee, id)
        = Today!FulfillingTx(view, slot, oracle, u, msg, wallet, change, fee, id)
  BY SamePublish
  DEF Reckoned!FulfillingTx, Reckoned!Output, Reckoned!KeyAddr, Reckoned!NoTokens,
      Reckoned!NoDatum, Today!FulfillingTx, Today!Output, Today!KeyAddr,
      Today!NoTokens, Today!NoDatum
<1> QED
  BY <1>1, <1>2

(* What comes of fulfilling one.                                           *)
LEMMA SameFulfillment ==
  ASSUME NEW view, NEW slot, NEW oracle, NEW u, NEW msg, NEW reward, NEW wallet,
         NEW fee, NEW id
  PROVE  Reckoned!Fulfillment(view, slot, oracle, u, msg, reward, wallet, fee, id)
           = Today!Fulfillment(view, slot, oracle, u, msg, reward, wallet, fee, id)
BY SameTx, SameChange, SameExisting, Zenon
DEF Reckoned!Fulfillment, Reckoned!PoolActionID, Today!Fulfillment, Today!PoolActionID

(* What the script reckons.                                                *)
LEMMA SameScript ==
  ASSUME NEW u, NEW item, NEW tx
  PROVE  Reckoned!ExistsChangeOutput(u, item, tx) = ExistsChangeOutput(u, item, tx)
<1>1. Reckoned!RealCost(u.datum, item, tx) = RealCost(u.datum, item, tx)
  BY SameSums
  DEF Reckoned!RealCost, Reckoned!AdaSpentWithAsset, Reckoned!Holding,
      Reckoned!Quantity, Reckoned!ResponseAsset, Reckoned!MinUTxOIntercept,
      RealCost, AdaSpentWithAsset, Holding, Quantity, ResponseAsset, MinUTxOIntercept
<1>2. Reckoned!CappedCost(u.datum, item, tx) = CappedCost(u.datum, item, tx)
  BY <1>1, SameSums DEF Reckoned!CappedCost, CappedCost
<1> QED
  BY <1>2
  DEF Reckoned!ExistsChangeOutput, Reckoned!KeyAddr, ExistsChangeOutput, KeyAddr

-----------------------------------------------------------------------------

(* What create_request has put into a request: change that can stand alone *)
(* and the maximal cost, which covers the fee, the reward and a response   *)
(* of the size promised, and its storage unless a response is there.       *)
RequestOK(u) ==
  LET p == u.datum.coinPerByte
      sum == Today!CardanoFeeBuffer + Today!RelayerReward + maxResponse * p
  IN  /\ u.addr = RequestAddr /\ u.tokens = NoTokens
      /\ u.coin \in Nat /\ p \in Nat \ {0} /\ u.datum.maxCost \in Nat
      /\ u.datum.reward = Today!RelayerReward /\ u.datum.poolActionID = PoolAction
      /\ u.coin >= p * 199 + u.datum.maxCost
      /\ u.datum.maxCost >= sum
      /\ stored = {} => u.datum.maxCost >= sum + MinUTxOIntercept * p

ResponseOK(o) ==
  /\ o.addr = ResponseAddr /\ o.tokens = One(ResponseAsset(PoolAction))
  /\ o.coin \in Nat /\ o.datum \in DataItem

(* The responses there are and will be are one pool action's.              *)
OutputsOK ==
  /\ IsFiniteSet(request) /\ \A u \in request : RequestOK(u)
  /\ IsFiniteSet(stored) /\ \A o \in stored : ResponseOK(o)
  /\ built.outcome = "transaction" =>
       /\ IsFiniteSet(built.tx.outs)
       /\ \E o \in built.tx.outs : HasCurrency(o, "response")
       /\ \A o \in built.tx.outs : HasCurrency(o, "response") => ResponseOK(o)

FulfillInv ==
  /\ price \in Nat \ {0} /\ maxResponse \in Nat
  /\ OutputsOK
  /\ BudgetSuffices /\ AcceptedWithinBudget

(* Items of 256 bytes and more need a longer head than is reckoned with.   *)
SmallItems == Sizes \subseteq 0 .. 255

-----------------------------------------------------------------------------

(* The lemmas' assumptions on the price.                                   *)
LEMMA PriceAssumed ==
  ASSUME price \in Nat \ {0}
  PROVE  Reckoned!CoinsAssumption /\ Reckoned!KeysAssumption
BY KeysAssumption DEF Reckoned!CoinsAssumption, Reckoned!KeysAssumption

(* A response has the token of the pool action and nothing else.           *)
LEMMA ResponseTokens ==
  ASSUME NEW o, ResponseOK(o)
  PROVE  /\ HasCurrency(o, "response")
         /\ Quantity(o, ResponseAsset(PoolAction)) = 1
<1>1. /\ DOMAIN o.tokens = {ResponseAsset(PoolAction)}
      /\ o.tokens[ResponseAsset(PoolAction)] = 1
  BY DEF ResponseOK, One
<1>2. ResponseAsset(PoolAction).cs = "response"
  BY DEF ResponseAsset
<1> QED
  BY <1>1, <1>2 DEF HasCurrency, Quantity

(* What is found is what is stored, all of it, and not the request.        *)
LEMMA AllFound ==
  ASSUME OutputsOK, NEW size
  PROVE  /\ Reckoned!Existing(View, Oracle, Message(size)) = stored
         /\ Today!ByPoolActionID(View, PoolAction) = stored
         /\ request \cap stored = {}
         /\ IsFiniteSet(View) /\ \A v \in View : v.coin \in Nat
         /\ \A u \in request : u \notin stored /\ Quantity(u, ResponseAsset(PoolAction)) = 0
         /\ \A u \in request : ~HasCurrency(u, "response")
<1>1. \A u \in request : u.addr # ResponseAddr /\ u.tokens = NoTokens /\ u.coin \in Nat
  BY DEF OutputsOK, RequestOK, RequestAddr, ResponseAddr, ScriptAddr
<1>2. \A o \in stored :
        /\ o.addr = ResponseAddr /\ o.coin \in Nat /\ o.datum \in DataItem
        /\ HasCurrency(o, "response") /\ ResponseAsset(PoolAction) \in DOMAIN o.tokens
  BY ResponseTokens DEF OutputsOK, ResponseOK, One
<1>3. Today!ByPoolActionID(View, PoolAction)
        = {u \in View : /\ u.addr = ResponseAddr /\ HasCurrency(u, "response")
                        /\ u.datum \in DataItem
                        /\ ResponseAsset(PoolAction) \in DOMAIN u.tokens}
  BY DEF Today!ByPoolActionID, Today!StoredResponses, Today!ResponseAsset, ResponseAsset,
         Today!HasCurrency, HasCurrency, Today!DataItem, DataItem, Today!ResponseAddr,
         ResponseAddr, Today!ScriptAddr, ScriptAddr
<1>4. Today!ByPoolActionID(View, PoolAction) = stored
  BY <1>1, <1>2, <1>3 DEF View
<1>5. Reckoned!Existing(View, Oracle, Message(size)) = stored
  <2>1. Reckoned!PoolActionID(Oracle.pool, Message(size).action) = PoolAction
    BY DEF Reckoned!PoolActionID, PoolAction, PoolActionID, Message
  <2> QED
    BY <1>4, <2>1, SameExisting DEF Reckoned!Existing
<1>6. IsFiniteSet(View)
  BY FS_Union DEF OutputsOK, View
<1>7. DOMAIN NoTokens = {}
  BY DEF NoTokens
<1>8. \A u \in request : /\ Quantity(u, ResponseAsset(PoolAction)) = 0
                         /\ ~HasCurrency(u, "response")
  BY <1>1, <1>7 DEF Quantity, HasCurrency
<1> QED
  BY <1>1, <1>2, <1>4, <1>5, <1>6, <1>8 DEF View

(* A step that fulfills: what is built within the budget is complete and   *)
(* accepted.                                                               *)
LEMMA WithinBudget ==
  ASSUME FulfillInv, SmallItems, NEW u \in request, NEW size \in Sizes, NEW fee \in Fees,
         size <= maxResponse, fee <= Today!CardanoFeeBuffer,
         price <= u.datum.coinPerByte,
         stored # {} => CoinOf(stored) >= price * MinUTxOIntercept,
         NEW f, f = Today!Fulfillment(View, 0, Oracle, u, Message(size),
                                      Today!RelayerReward, "relayer", fee, "next")
  PROVE  f.outcome = "transaction" /\ ExistsChangeOutput(u, Item(size), f.tx)
<1> DEFINE msg == Message(size)
<1> DEFINE sum == u.datum.maxCost
<1> DEFINE p == u.datum.coinPerByte
<1> DEFINE reward == Reckoned!RelayerReward
<1> DEFINE buffer == Reckoned!CardanoFeeBuffer
<1> DEFINE slope == Reckoned!MinUTxOIntercept
<1>0. /\ reward = Today!RelayerReward /\ buffer = Today!CardanoFeeBuffer
      /\ slope = MinUTxOIntercept
      /\ reward \in Nat /\ buffer \in Nat /\ slope \in Nat
  BY SameNumbers
<1>1. /\ Reckoned!CoinsAssumption /\ Reckoned!KeysAssumption
      /\ price \in Nat /\ maxResponse \in Nat
  BY PriceAssumed DEF FulfillInv
<1>2. /\ u.coin \in Nat /\ p \in Nat /\ sum \in Nat /\ u.datum.reward = reward
      /\ u.datum.poolActionID = PoolAction
      /\ u.coin >= p * 199 + sum
      /\ \/ sum >= buffer + reward + maxResponse * p + slope * p
         \/ sum >= buffer + reward + maxResponse * p /\ stored # {}
  BY <1>0 DEF FulfillInv, OutputsOK, RequestOK
<1>3. /\ size \in 0 .. maxResponse /\ size \in 0 .. 255 /\ size \in Nat /\ fee \in Nat
      /\ msg.item = Item(size) /\ Bytes(msg.item) = size /\ msg.action = "a"
      /\ fee <= buffer
  BY <1>0, AmountsAssumption, ItemsAssumption DEF SmallItems, Message, FulfillInv
<1>4. /\ Reckoned!Existing(View, Oracle, msg) = stored
      /\ Reckoned!IsFiniteSet(View) /\ \A v \in View : v.coin \in Nat
      /\ u \notin stored /\ Quantity(u, ResponseAsset(PoolAction)) = 0
  BY AllFound, SameNumbers DEF FulfillInv
<1> DEFINE cost == Reckoned!Cost(View, Oracle, msg, reward, fee)
<1> DEFINE coin == CoinOf(stored)
<1> HIDE DEF msg, sum, p, reward, buffer, slope
<1>5. cost \in Int /\ cost <= sum
  <2>1. coin \in Nat
    <3>1. IsFiniteSet(stored) /\ \A v \in stored : v.coin \in Nat
      BY DEF FulfillInv, OutputsOK, ResponseOK
    <3> QED
      BY <3>1, CoinOfNat
  <2>2. cost \in Int /\ cost = reward + price * (slope + size) - coin + fee
    <3>1. /\ cost \in Int
          /\ cost = reward + price * (slope + Bytes(msg.item))
                      - Reckoned!CoinOf(Reckoned!Existing(View, Oracle, msg)) + fee
      BY <1>0, <1>1, <1>3, <1>4, Reckoned!CostOf DEF slope
    <3>2. Reckoned!CoinOf(stored) = CoinOf(stored)
      BY SameSums
    <3> QED
      BY <1>3, <1>4, <3>1, <3>2
  <2>3. stored # {} => coin >= price * slope
    BY <1>0
  <2>4. price <= p
    BY DEF p
  <2> HIDE DEF coin
  <2>5. reward + price * (slope + size) - coin + fee <= sum
    <3>1. \/ sum >= buffer + reward + maxResponse * p + slope * p
          \/ sum >= buffer + reward + maxResponse * p /\ coin >= price * slope
      BY <1>2, <2>3
    <3>2. /\ coin \in Nat /\ p \in Nat /\ price <= p /\ maxResponse \in Nat
          /\ size \in 0 .. maxResponse /\ fee \in Nat /\ fee <= buffer
          /\ reward \in Nat /\ sum \in Nat
      BY <1>0, <1>1, <1>2, <1>3, <2>1, <2>4
    <3>3. Reckoned!CoinsAssumption /\ Reckoned!KeysAssumption
      BY <1>1
    <3> QED
      BY ONLY <3>1, <3>2, <3>3, Reckoned!SumCovers DEF buffer, slope
  <2> QED
    BY <2>2, <2>5
<1>6. u.coin >= Reckoned!MinCoin(Reckoned!ChangeBytes) + sum
  <2>1. Reckoned!MinCoin(Reckoned!ChangeBytes) = price * 199
    BY <1>1 DEF Reckoned!MinCoin, Reckoned!ChangeBytes
  <2>2. price * 199 <= p * 199 /\ price * 199 \in Nat /\ p * 199 \in Nat
    BY <1>1, <1>2 DEF p
  <2> QED
    BY <1>2, <2>1, <2>2
<1> DEFINE g == Reckoned!Fulfillment(View, 0, Oracle, u, msg, reward, "relayer", fee, "next")
<1>7. f = g
  BY <1>0, SameFulfillment DEF msg
<1> HIDE DEF cost
<1>8. g.outcome = "transaction"
  <2>1. cost <= u.datum.maxCost
    BY <1>5 DEF sum
  <2>2. u.datum.maxCost \in Nat
        /\ u.coin >= Reckoned!MinCoin(Reckoned!ChangeBytes) + u.datum.maxCost
    BY <1>2, <1>6 DEF sum
  <2>3. u \notin Reckoned!Existing(View, Oracle, msg) /\ Bytes(msg.item) \in 0 .. 255
    BY <1>3, <1>4
  <2>4. Reckoned!CostIsCovered(View, Oracle, u, msg, reward, fee)
    BY <1>0, <1>2, <1>3, <1>4, <2>1, <2>2, <2>3 DEF Reckoned!CostIsCovered, Reckoned!Reckonable, cost
  <2> QED
    BY ONLY <1>1, <2>4, Reckoned!FulfillmentSucceeds
<1> DEFINE change == Reckoned!SecondChange(u, stored, size, reward, fee)
<1>9. f.tx = Reckoned!FulfillingTx(View, 0, Oracle, u, msg, "relayer", change, fee, "next")
  <2>1. Reckoned!ByPoolActionID(View, Reckoned!PoolActionID(Oracle.pool, msg.action))
          = stored
    BY <1>4 DEF Reckoned!Existing
  <2> QED
    BY <1>3, <1>7, <2>1 DEF Reckoned!Fulfillment
<1>10. change = u.coin - Reckoned!Max({0, cost}) /\ change \in Int
  <2>1. change = u.coin - Reckoned!Max({0, cost})
    BY <1>3, <1>4 DEF Reckoned!SecondChange, Reckoned!Cost, cost
  <2>2. Reckoned!Max({0, cost}) = Max({0, cost})
    BY SameSums
  <2> HIDE DEF change
  <2>3. Max({0, cost}) \in Nat
    BY <1>2, <1>5, Capped
  <2> QED
    BY <1>2, <2>1, <2>2, <2>3
<1>11. /\ u.datum.poolActionID = Reckoned!PoolActionID(Oracle.pool, msg.action)
       /\ Reckoned!Holding(Reckoned!Existing(View, Oracle, msg) \cup {u},
                           Reckoned!ResponseAsset(u.datum.poolActionID))
            = Reckoned!Existing(View, Oracle, msg)
  <2>1. u.datum.poolActionID = Reckoned!PoolActionID(Oracle.pool, msg.action)
    BY <1>2, <1>3 DEF Reckoned!PoolActionID, PoolAction, PoolActionID
  <2>2. \A v \in stored : Quantity(v, ResponseAsset(PoolAction)) = 1
    BY ResponseTokens DEF FulfillInv, OutputsOK
  <2>3. Reckoned!ResponseAsset(u.datum.poolActionID) = ResponseAsset(PoolAction)
    BY <1>2 DEF Reckoned!ResponseAsset, ResponseAsset
  <2>4. Reckoned!Holding(stored \cup {u}, ResponseAsset(PoolAction))
          = {v \in stored \cup {u} : Quantity(v, ResponseAsset(PoolAction)) > 0}
    BY DEF Reckoned!Holding, Reckoned!Quantity, Quantity
  <2>5. {v \in stored \cup {u} : Quantity(v, ResponseAsset(PoolAction)) > 0} = stored
    BY <1>4, <2>2
  <2> QED
    BY <1>4, <2>1, <2>3, <2>4, <2>5
<1>12. Reckoned!ExistsChangeOutput(u, msg.item, f.tx)
  <2>1. Bytes(msg.item) \in Nat /\ u.datum.reward \in Nat
    BY <1>0, <1>2, <1>3
  <2>2. cost = Reckoned!Cost(View, Oracle, msg, u.datum.reward, fee)
    BY <1>2 DEF cost
  <2>3. change >= u.coin - Reckoned!Max({0, cost})
    <3> HIDE DEF change
    <3>1. u.coin - Reckoned!Max({0, cost}) \in Int
      BY <1>10
    <3> QED
      BY <1>10, <3>1
  <2> HIDE DEF change
  <2>4. /\ Reckoned!Cost(View, Oracle, msg, u.datum.reward, fee) <= u.datum.maxCost
        /\ change >= u.coin
                       - Reckoned!Max({0, Reckoned!Cost(View, Oracle, msg, u.datum.reward,
                                                        fee)})
    BY <1>5, <2>2, <2>3 DEF sum
  <2>5. /\ u.datum.maxCost \in Nat /\ u.datum.coinPerByte \in Nat
        /\ price <= u.datum.coinPerByte /\ u.coin \in Nat
    BY <1>2 DEF sum, p
  <2>6. /\ Reckoned!CoinsAssumption /\ Reckoned!KeysAssumption
        /\ Reckoned!IsFiniteSet(View) /\ \A v \in View : v.coin \in Nat
        /\ change \in Int /\ fee \in Nat
    BY <1>1, <1>3, <1>4, <1>10
  <2> QED
    BY <1>9, <1>11, <2>1, <2>4, <2>5, <2>6, Reckoned!ScriptAgrees
<1>13. ExistsChangeOutput(u, Item(size), f.tx)
  BY <1>3, <1>12, SameScript
<1> QED
  BY <1>7, <1>8, <1>13

-----------------------------------------------------------------------------

(* A response that is written is one that FulfillInv speaks of.            *)
LEMMA Written ==
  ASSUME price \in Nat \ {0}, NEW size \in Sizes, NEW id
  PROVE  ResponseOK(Today!ResponseOutput(PoolAction, Item(size), id))
<1> DEFINE o == Today!ResponseOutput(PoolAction, Item(size), id)
<1>1. size \in Nat /\ Bytes(Item(size)) = size
  BY AmountsAssumption, ItemsAssumption
<1>2. /\ o.addr = ResponseAddr /\ o.tokens = One(ResponseAsset(PoolAction))
      /\ o.datum = Item(size) /\ o.coin = Today!MinCoin(Today!ResponseBytes(size))
  BY <1>1
  DEF Today!ResponseOutput, Today!TokenOutput, Today!Output, Today!One, One,
      Today!ResponseAsset, ResponseAsset, Today!ResponseAddr, ResponseAddr,
      Today!ScriptAddr, ScriptAddr
<1>3. Item(size) \in DataItem
  BY <1>1 DEF Item, DataItem
<1>4. Today!MinCoin(Today!ResponseBytes(size)) \in Nat
  <2>1. 160 + Today!ResponseBytes(size) \in Nat
    BY <1>1 DEF Today!ResponseBytes, Today!HeadBytes
  <2> DEFINE bytes == 160 + Today!ResponseBytes(size)
  <2> HIDE DEF bytes
  <2>2. price * bytes \in Nat
    BY <2>1 DEF bytes
  <2> QED
    BY <2>2 DEF Today!MinCoin, bytes
<1> QED
  BY <1>2, <1>3, <1>4 DEF ResponseOK

(* In the beginning there is nothing.                                      *)
LEMMA InitEstablishesFulfillInv == Init => FulfillInv
<1> SUFFICES ASSUME Init PROVE FulfillInv
  OBVIOUS
<1>1. price \in Nat \ {0} /\ maxResponse \in Nat
  BY AmountsAssumption DEF Init
<1>2. request = {} /\ stored = {} /\ built.outcome = "none"
  BY DEF Init
<1>3. OutputsOK
  BY <1>2, FS_EmptySet DEF OutputsOK
<1>4. ~AsBudgeted
  BY <1>2 DEF AsBudgeted
<1> QED
  BY <1>1, <1>3, <1>4 DEF FulfillInv, BudgetSuffices, AcceptedWithinBudget

(* What an attempt was depends on nothing but what was built.              *)
LEMMA SameAttempt ==
  ASSUME BudgetSuffices, AcceptedWithinBudget, built' = built
  PROVE  BudgetSuffices' /\ AcceptedWithinBudget'
<1>1. AsBudgeted' <=> AsBudgeted
  BY DEF AsBudgeted, ReplacedPayForStorage, Today!CardanoFeeBuffer
<1>2. IsAccepted(built)' <=> IsAccepted(built)
  BY DEF IsAccepted, ExistsChangeOutput, CappedCost, RealCost
<1> QED
  BY <1>1, <1>2 DEF BudgetSuffices, AcceptedWithinBudget

(* A request is created with the sum that covers its answer.               *)
LEMMA CreatePreserves ==
  ASSUME FulfillInv, NEW size \in Sizes, NEW bytes \in RequestBytes, Create(size, bytes)
  PROVE  FulfillInv'
<1> DEFINE r == Today!NewRequest(View, Oracle.pool, "a", size, 0, 1, "owner")
<1> DEFINE u == Today!RequestOutput(r, bytes, "request")
<1> DEFINE buffer == Today!CardanoFeeBuffer
<1> DEFINE reward == Today!RelayerReward
<1> DEFINE slope == MinUTxOIntercept
<1> DEFINE sum == buffer + reward + size * price
<1>1. /\ price \in Nat \ {0} /\ size \in Nat /\ bytes \in Nat
      /\ buffer \in Nat /\ reward \in Nat /\ slope \in Nat
  BY AmountsAssumption, SameNumbers DEF FulfillInv
<1>2. request' = {u} /\ maxResponse' = size /\ UNCHANGED <<price, stored, built>>
  BY DEF Create
<1>3. /\ r.poolActionID = PoolAction /\ r.reward = reward /\ r.coinPerByte = price
      /\ r.maxCost = Today!MaxCost(stored, size)
  <2>1. Today!PoolActionID(Oracle.pool, "a") = PoolAction
    BY DEF Today!PoolActionID, PoolAction, PoolActionID
  <2>2. Today!ByPoolActionID(View, PoolAction) = stored
    BY AllFound DEF FulfillInv
  <2> QED
    BY <2>1, <2>2 DEF Today!NewRequest
<1>4. /\ r.maxCost \in Nat /\ r.maxCost >= sum
      /\ stored = {} => r.maxCost >= sum + slope * price
  <2>1. size * price \in Nat /\ slope * price \in Nat
    BY <1>1
  <2>2. r.maxCost = sum + IF stored = {} THEN slope * price ELSE 0
    BY <1>3 DEF Today!MaxCost, Today!MinUTxOIntercept, MinUTxOIntercept
  <2> HIDE DEF buffer, reward, slope, r
  <2> QED
    BY <1>1, <2>1, <2>2
<1>5. /\ u.addr = RequestAddr /\ u.tokens = NoTokens /\ u.datum = r
      /\ u.coin = Max({Today!MinCoin(Today!ChangeBytes) + r.maxCost, Today!MinCoin(bytes)})
  BY SameSums
  DEF Today!RequestOutput, Today!Output, Today!RequestAddr, RequestAddr,
      Today!ScriptAddr, ScriptAddr, Today!NoTokens, NoTokens
<1> DEFINE funds == Today!MinCoin(Today!ChangeBytes) + r.maxCost
<1> DEFINE min == Today!MinCoin(bytes)
<1>6. funds = price * 199 + r.maxCost /\ min \in Nat /\ funds \in Nat
  <2>1. Today!MinCoin(Today!ChangeBytes) = price * 199
    BY <1>1 DEF Today!MinCoin, Today!ChangeBytes
  <2>2. min = price * (160 + bytes) /\ 160 + bytes \in Nat
    BY <1>1 DEF Today!MinCoin
  <2>3. price * 199 \in Nat /\ price * (160 + bytes) \in Nat
    BY <1>1, <2>2
  <2> QED
    BY <1>4, <2>1, <2>2, <2>3
<1>7. u.coin \in Nat /\ u.coin >= price * 199 + r.maxCost
  <2> HIDE DEF funds, min, r, u
  <2>0. funds \in Int /\ min \in Int
    BY <1>6
  <2>1. Max({funds, min}) \in {funds, min} /\ Max({funds, min}) >= funds
    BY <2>0, MaxOfTwo, Zenon
  <2>2. Max({funds, min}) \in Nat
    BY <1>6, <2>1
  <2>3. u.coin = Max({funds, min})
    BY <1>5 DEF funds, min
  <2> QED
    BY <1>6, <2>1, <2>2, <2>3
<1>8. ASSUME NEW v \in request' PROVE RequestOK(v)'
  <2>1. /\ maxResponse' = size /\ stored' = stored
        /\ PoolAction' = PoolAction /\ v = u /\ u.datum = r
    BY <1>2, <1>5 DEF PoolAction
  <2>2. Today!CardanoFeeBuffer' = buffer /\ Today!RelayerReward' = reward
    BY DEF Today!CardanoFeeBuffer, Today!RelayerReward
  <2> HIDE DEF u, r, buffer, reward, slope
  <2>3. /\ v.addr = RequestAddr /\ v.tokens = NoTokens
        /\ v.coin \in Nat /\ v.datum.coinPerByte = price /\ v.datum.maxCost \in Nat
        /\ v.datum.reward = reward /\ v.datum.poolActionID = PoolAction
        /\ v.coin >= price * 199 + v.datum.maxCost
    BY <1>3, <1>4, <1>5, <1>7, <2>1
  <2>4. /\ v.datum.maxCost >= sum
        /\ stored = {} => v.datum.maxCost >= sum + MinUTxOIntercept * price
    BY <1>4, <2>1 DEF slope
  <2> QED
    BY <1>1, <2>1, <2>2, <2>3, <2>4 DEF RequestOK
<1> HIDE DEF u
<1>9. OutputsOK'
  <2>1. IsFiniteSet(request')
    BY <1>2, FS_Singleton
  <2>2. \A o : ResponseOK(o)' <=> ResponseOK(o)
    BY DEF ResponseOK, PoolAction
  <2> QED
    BY <1>2, <1>8, <2>1, <2>2 DEF FulfillInv, OutputsOK
<1>10. BudgetSuffices' /\ AcceptedWithinBudget'
  BY <1>2, SameAttempt DEF FulfillInv
<1> QED
  BY <1>1, <1>2, <1>9, <1>10 DEF FulfillInv

(* What is promised is kept with fewer requests, and no more bytes.        *)
LEMMA StillOK ==
  ASSUME FulfillInv, request' \subseteq request, maxResponse' \in {0, maxResponse},
         stored' = {} => stored = {}
  PROVE  IsFiniteSet(request') /\ \A u \in request' : RequestOK(u)'
<1>1. IsFiniteSet(request')
  BY FS_Subset DEF FulfillInv, OutputsOK
<1>2. ASSUME NEW u \in request' PROVE RequestOK(u)'
  <2> DEFINE p == u.datum.coinPerByte
  <2>1. /\ Today!CardanoFeeBuffer' = Today!CardanoFeeBuffer
        /\ Today!RelayerReward' = Today!RelayerReward
        /\ PoolAction' = PoolAction
    BY DEF Today!CardanoFeeBuffer, Today!RelayerReward, PoolAction
  <2>2. RequestOK(u) /\ maxResponse \in Nat
    BY DEF FulfillInv, OutputsOK
  <2>3. maxResponse' * p <= maxResponse * p /\ maxResponse * p \in Nat
        /\ maxResponse' * p \in Nat
    <3>1. p \in Nat
      BY <2>2 DEF RequestOK
    <3>2. 0 * p = 0 /\ maxResponse * p \in Nat
      BY <2>2, <3>1
    <3> QED
      BY <3>1, <3>2
  <2>4. MinUTxOIntercept * p \in Nat
    BY <2>2, SameNumbers DEF RequestOK
  <2> DEFINE sum == Today!CardanoFeeBuffer + Today!RelayerReward + maxResponse * p
  <2> DEFINE less == Today!CardanoFeeBuffer + Today!RelayerReward + maxResponse' * p
  <2>5. less <= sum /\ less \in Nat /\ sum \in Nat
    BY <2>3, SameNumbers
  <2>6. /\ u.addr = RequestAddr /\ u.tokens = NoTokens
        /\ u.coin \in Nat /\ p \in Nat \ {0} /\ u.datum.maxCost \in Nat
        /\ u.datum.reward = Today!RelayerReward /\ u.datum.poolActionID = PoolAction
        /\ u.coin >= p * 199 + u.datum.maxCost
        /\ u.datum.maxCost >= sum
        /\ stored = {} => u.datum.maxCost >= sum + MinUTxOIntercept * p
    BY <2>2 DEF RequestOK
  <2>7. /\ u.datum.maxCost >= less
        /\ stored' = {} => u.datum.maxCost >= less + MinUTxOIntercept * p
    <3> HIDE DEF less, sum
    <3> QED
      BY <2>4, <2>5, <2>6
  <2> QED
    BY <2>1, <2>6, <2>7 DEF RequestOK
<1> QED
  BY <1>1, <1>2

(* What is built replaces the responses there are by the new one.          *)
LEMMA FulfillPreserves ==
  ASSUME FulfillInv, SmallItems, NEW size \in Sizes, NEW fee \in Fees, Fulfill(size, fee)
  PROVE  FulfillInv'
<1>1. PICK u \in request :
        LET f == Today!Fulfillment(View, 0, Oracle, u, Message(size),
                                   Today!RelayerReward, "relayer", fee, "next")
        IN  built' = [request |-> u, size |-> size, fee |-> fee, price |-> price,
                      promised |-> maxResponse, outcome |-> f.outcome, tx |-> f.tx]
  BY DEF Fulfill
<1>2. UNCHANGED <<price, request, maxResponse, stored>>
  BY DEF Fulfill
<1> DEFINE f == Today!Fulfillment(View, 0, Oracle, u, Message(size),
                                  Today!RelayerReward, "relayer", fee, "next")
<1>3. /\ built'.request = u /\ built'.size = size /\ built'.fee = fee
      /\ built'.price = price /\ built'.promised = maxResponse
      /\ built'.outcome = f.outcome /\ built'.tx = f.tx
  BY <1>1
<1>4. /\ f.tx.ins = stored \cup {u}
      /\ \E change : f.tx.outs = {Today!ResponseOutput(PoolAction, Item(size), "next"),
                                  Today!Output(<<"next", 1>>, KeyAddr(u.datum.owner),
                                               change, NoTokens, NoDatum)}
  <2> DEFINE change == Today!SecondChange(u, stored, Bytes(Item(size)),
                                          Today!RelayerReward, fee)
  <2>1. /\ Today!PoolActionID(Oracle.pool, Message(size).action) = PoolAction
        /\ Message(size).item = Item(size)
    BY DEF Today!PoolActionID, PoolAction, PoolActionID, Message
  <2>2. Today!ByPoolActionID(View, PoolAction) = stored
    BY AllFound DEF FulfillInv
  <2>3. f.tx = Today!FulfillingTx(View, 0, Oracle, u, Message(size), "relayer", change,
                                  fee, "next")
    BY <2>1, <2>2 DEF Today!Fulfillment
  <2>4. /\ Today!KeyAddr(u.datum.owner) = KeyAddr(u.datum.owner)
        /\ Today!NoTokens = NoTokens /\ Today!NoDatum = NoDatum
    BY DEF Today!KeyAddr, KeyAddr, Today!NoTokens, NoTokens, Today!NoDatum, NoDatum
  <2> HIDE DEF change
  <2>5. /\ f.tx.ins = stored \cup {u}
        /\ f.tx.outs = {Today!ResponseOutput(PoolAction, Item(size), "next")}
                         \cup {Today!Output(<<"next", 1>>, KeyAddr(u.datum.owner),
                                            change, NoTokens, NoDatum)}
    BY <2>1, <2>2, <2>3, <2>4 DEF Today!FulfillingTx, Today!PublishTx, Today!Tx
  <2> QED
    BY <2>5
<1> HIDE DEF f
<1>5. OutputsOK'
  <2>1. IsFiniteSet(request') /\ \A v \in request' : RequestOK(v)'
    BY <1>2, StillOK DEF FulfillInv
  <2>2. \A o : ResponseOK(o)' <=> ResponseOK(o)
    BY DEF ResponseOK, PoolAction
  <2> DEFINE response == Today!ResponseOutput(PoolAction, Item(size), "next")
  <2>3. ResponseOK(response) /\ HasCurrency(response, "response")
    BY Written, ResponseTokens DEF FulfillInv
  <2>4. PICK change :
          f.tx.outs = {response, Today!Output(<<"next", 1>>, KeyAddr(u.datum.owner),
                                              change, NoTokens, NoDatum)}
    BY <1>4
  <2> DEFINE back == Today!Output(<<"next", 1>>, KeyAddr(u.datum.owner), change,
                                  NoTokens, NoDatum)
  <2>5. ~HasCurrency(back, "response")
    BY DEF Today!Output, HasCurrency, NoTokens
  <2>6. f.tx.outs = {response, back}
    BY <2>4
  <2> HIDE DEF response, back
  <2>7. IsFiniteSet({response, back})
    <3>1. IsFiniteSet({response} \cup {back})
      BY FS_Singleton, FS_AddElement
    <3>2. {response} \cup {back} = {response, back}
      OBVIOUS
    <3> QED
      BY <3>1, <3>2
  <2>8. /\ IsFiniteSet(built'.tx.outs)
        /\ \E o \in built'.tx.outs : HasCurrency(o, "response")
        /\ \A o \in built'.tx.outs : HasCurrency(o, "response") => ResponseOK(o)
    BY <1>3, <2>3, <2>5, <2>6, <2>7
  <2>9. IsFiniteSet(stored) /\ \A o \in stored : ResponseOK(o)
    BY DEF FulfillInv, OutputsOK
  <2> QED
    BY <1>2, <2>1, <2>2, <2>8, <2>9 DEF OutputsOK
<1>6. AsBudgeted' => f.outcome = "transaction" /\ ExistsChangeOutput(u, Item(size), f.tx)
  <2> SUFFICES ASSUME AsBudgeted'
               PROVE  f.outcome = "transaction" /\ ExistsChangeOutput(u, Item(size), f.tx)
    OBVIOUS
  <2>1. /\ size <= maxResponse /\ price <= u.datum.coinPerByte
        /\ fee <= Today!CardanoFeeBuffer
    BY <1>3 DEF AsBudgeted, Today!CardanoFeeBuffer
  <2>2. {v \in f.tx.ins : HasCurrency(v, "response")} = stored
    <3>1. ~HasCurrency(u, "response")
      BY AllFound DEF FulfillInv
    <3>2. \A v \in stored : HasCurrency(v, "response")
      BY ResponseTokens DEF FulfillInv, OutputsOK
    <3> QED
      BY <1>4, <3>1, <3>2
  <2>3. stored # {} => CoinOf(stored) >= price * MinUTxOIntercept
    BY <1>3, <2>2 DEF AsBudgeted, ReplacedPayForStorage
  <2> QED
    BY <2>1, <2>3, WithinBudget DEF f
<1>7. BudgetSuffices' /\ AcceptedWithinBudget'
  BY <1>3, <1>6 DEF BudgetSuffices, AcceptedWithinBudget, IsAccepted
<1> QED
  BY <1>2, <1>5, <1>7 DEF FulfillInv

(* What was included leaves a response.                                    *)
LEMMA IncludePreserves ==
  ASSUME FulfillInv, Include
  PROVE  FulfillInv'
<1>1. /\ built.outcome = "transaction"
      /\ request' = request \ built.tx.ins
      /\ stored' = (stored \ built.tx.ins)
                     \cup {o \in built.tx.outs : HasCurrency(o, "response")}
      /\ maxResponse' = 0 /\ built' = [outcome |-> "none"] /\ price' = price
  BY DEF Include
<1>2. built'.outcome = "none"
  BY <1>1
<1> DEFINE new == {o \in built.tx.outs : HasCurrency(o, "response")}
<1>3. IsFiniteSet(new) /\ new # {} /\ \A o \in new : ResponseOK(o)
  BY <1>1, FS_Subset DEF FulfillInv, OutputsOK
<1>4. IsFiniteSet(stored \ built.tx.ins) /\ \A o \in stored : ResponseOK(o)
  BY FS_Subset DEF FulfillInv, OutputsOK
<1>5. IsFiniteSet(stored') /\ \A o \in stored' : ResponseOK(o)
  <2> HIDE DEF new
  <2>1. stored' = (stored \ built.tx.ins) \cup new
    BY <1>1 DEF new
  <2> QED
    BY <1>3, <1>4, <2>1, FS_Union
<1>6. IsFiniteSet(request') /\ \A u \in request' : RequestOK(u)'
  BY <1>1, <1>3, StillOK
<1>7. \A o : ResponseOK(o)' <=> ResponseOK(o)
  BY DEF ResponseOK, PoolAction
<1>8. OutputsOK'
  BY <1>2, <1>5, <1>6, <1>7 DEF OutputsOK
<1>9. ~AsBudgeted'
  BY <1>2 DEF AsBudgeted
<1> QED
  BY <1>1, <1>8, <1>9 DEF FulfillInv, BudgetSuffices, AcceptedWithinBudget

(* Whoever publishes leaves a response as well.                            *)
LEMMA PublishPreserves ==
  ASSUME FulfillInv, NEW size \in Sizes, Publish(size)
  PROVE  FulfillInv'
<1>1. UNCHANGED <<price, request, maxResponse, built>>
  BY DEF Publish
<1>2. \E id : LET new == Today!ResponseOutput(PoolAction, Item(size), id)
              IN  stored' = {new} \/ stored' = stored \cup {new}
  BY DEF Publish
<1>3. PICK id : LET new == Today!ResponseOutput(PoolAction, Item(size), id)
                IN  stored' = {new} \/ stored' = stored \cup {new}
  BY <1>2
<1> DEFINE new == Today!ResponseOutput(PoolAction, Item(size), id)
<1>4. ResponseOK(new)
  BY Written DEF FulfillInv
<1>5. stored' = {new} \/ stored' = stored \cup {new}
  BY <1>3
<1> HIDE DEF new
<1>6. stored' # {} /\ IsFiniteSet(stored') /\ \A o \in stored' : ResponseOK(o)
  <2>1. IsFiniteSet(stored) /\ \A o \in stored : ResponseOK(o)
    BY DEF FulfillInv, OutputsOK
  <2>2. CASE stored' = {new}
    BY <1>4, <2>2, FS_Singleton
  <2>3. CASE stored' = stored \cup {new}
    BY <1>4, <2>1, <2>3, FS_AddElement
  <2> QED
    BY <1>5, <2>2, <2>3
<1>7. IsFiniteSet(request') /\ \A u \in request' : RequestOK(u)'
  BY <1>1, <1>6, StillOK
<1>8. \A o : ResponseOK(o)' <=> ResponseOK(o)
  BY DEF ResponseOK, PoolAction
<1>9. OutputsOK'
  BY <1>1, <1>6, <1>7, <1>8 DEF OutputsOK, FulfillInv
<1>10. BudgetSuffices' /\ AcceptedWithinBudget'
  BY <1>1, SameAttempt DEF FulfillInv
<1> QED
  BY <1>1, <1>9, <1>10 DEF FulfillInv

(* A new price, or nothing, changes nothing of it.                         *)
LEMMA RepricePreserves ==
  ASSUME FulfillInv, UNCHANGED <<request, maxResponse, stored, built>>,
         price' \in Nat \ {0}
  PROVE  FulfillInv'
<1>1. IsFiniteSet(request') /\ \A u \in request' : RequestOK(u)'
  BY StillOK
<1>2. \A o : ResponseOK(o)' <=> ResponseOK(o)
  BY DEF ResponseOK, PoolAction
<1>3. OutputsOK'
  BY <1>1, <1>2 DEF OutputsOK, FulfillInv
<1>4. BudgetSuffices' /\ AcceptedWithinBudget'
  BY SameAttempt DEF FulfillInv
<1> QED
  BY <1>3, <1>4 DEF FulfillInv

(* No step breaks it.                                                      *)
LEMMA NextPreservesFulfillInv ==
  ASSUME SmallItems, FulfillInv, [Next]_vars
  PROVE  FulfillInv'
<1>1. CASE \E size \in Sizes, bytes \in RequestBytes : Create(size, bytes)
  BY <1>1, CreatePreserves
<1>2. CASE \E size \in Sizes, fee \in Fees : Fulfill(size, fee)
  BY <1>2, FulfillPreserves
<1>3. CASE Include
  BY <1>3, IncludePreserves
<1>4. CASE \E size \in Sizes : Publish(size)
  BY <1>4, PublishPreserves
<1>5. CASE \E p \in Prices : Reprice(p)
  <2>1. UNCHANGED <<request, maxResponse, stored, built>> /\ price' \in Nat \ {0}
    BY <1>5, AmountsAssumption DEF Reprice
  <2> QED
    BY <2>1, RepricePreserves
<1>6. CASE UNCHANGED vars
  BY <1>6, RepricePreserves DEF vars, FulfillInv
<1> QED
  BY <1>1, <1>2, <1>3, <1>4, <1>5, <1>6 DEF Next

-----------------------------------------------------------------------------

(* The sum create_request asks for suffices for any answer it was created  *)
(* for, whatever the price, the fee, and the responses there are by then,  *)
(* as long as items have less than 256 bytes.                              *)
THEOREM BudgetIsEnough ==
  ASSUME SmallItems
  PROVE  Spec => []BudgetSuffices
<1>1. Init => FulfillInv
  BY InitEstablishesFulfillInv
<1>2. FulfillInv /\ [Next]_vars => FulfillInv'
  BY NextPreservesFulfillInv
<1>3. FulfillInv => BudgetSuffices
  BY DEF FulfillInv
<1> QED
  BY <1>1, <1>2, <1>3, PTL DEF Spec

(* What fulfill_request builds within it, the request script accepts.      *)
THEOREM ScriptAndBuilderAgree ==
  ASSUME SmallItems
  PROVE  Spec => []AcceptedWithinBudget
<1>1. Init => FulfillInv
  BY InitEstablishesFulfillInv
<1>2. FulfillInv /\ [Next]_vars => FulfillInv'
  BY NextPreservesFulfillInv
<1>3. FulfillInv => AcceptedWithinBudget
  BY DEF FulfillInv
<1> QED
  BY <1>1, <1>2, <1>3, PTL DEF Spec
=============================================================================
