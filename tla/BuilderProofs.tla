---------------------------- MODULE BuilderProofs ----------------------------
(***************************************************************************)
(* What fulfill_request reckons: that the sum a request is created with    *)
(* covers what answering it takes, that what is left is the relayer's      *)
(* reward at least, and that the request script reckons no less a cost.    *)
(*                                                                         *)
(* The amounts are a price times a number of bytes, and the price of today *)
(* may differ from the one a request was created for, so that the lemmas   *)
(* are about products of what the provers know nothing of.                 *)
(***************************************************************************)
EXTENDS Builders, CoinProofs

(* Products grow with their factors.                                       *)
LEMMA TimesGrows ==
  ASSUME NEW a \in Nat, NEW b \in Nat, NEW c \in Nat, NEW d \in Nat, a <= b, c <= d
  PROVE  a * c \in Nat /\ b * d \in Nat /\ a * c <= b * d
<1>1. a * c \in Nat /\ b * d \in Nat /\ b * c \in Nat
  OBVIOUS
<1>2. a * c <= b * c
  <2>1. b * c = a * c + (b - a) * c
    OBVIOUS
  <2>2. b - a \in Nat
    OBVIOUS
  <2>3. (b - a) * c \in Nat
    BY <2>2
  <2> QED
    BY <1>1, <2>1, <2>3
<1>3. b * c <= b * d
  <2>1. b * d = b * c + b * (d - c)
    OBVIOUS
  <2>2. d - c \in Nat
    OBVIOUS
  <2>3. b * (d - c) \in Nat
    BY <2>2
  <2> QED
    BY <1>1, <2>1, <2>3
<1> QED
  BY <1>1, <1>2, <1>3

(* What the price makes of numbers of bytes.                               *)
LEMMA Distributes ==
  ASSUME NEW a \in Int, NEW b \in Int
  PROVE  /\ CoinsPerByte * a \in Int
         /\ CoinsPerByte * (a + b) = CoinsPerByte * a + CoinsPerByte * b
         /\ CoinsPerByte * (a - b) = CoinsPerByte * a - CoinsPerByte * b
BY CoinsAssumption

(* A response of less than 256 bytes needs no more coin than the script    *)
(* reckons with.                                                           *)
LEMMA ResponseCoin ==
  ASSUME NEW size \in 0 .. 255
  PROVE  /\ MinCoin(ResponseBytes(size)) \in Nat
         /\ MinCoin(ResponseBytes(size)) <= CoinsPerByte * (MinUTxOIntercept + size)
         /\ size >= 1 =>
              MinCoin(ResponseBytes(size)) >= CoinsPerByte * MinUTxOIntercept
<1>1. HeadBytes(size) \in 1 .. 2
  BY DEF HeadBytes
<1>2. /\ 160 + ResponseBytes(size) \in Nat
      /\ 160 + ResponseBytes(size) <= MinUTxOIntercept + size
      /\ size >= 1 => MinUTxOIntercept <= 160 + ResponseBytes(size)
  BY <1>1 DEF ResponseBytes, MinUTxOIntercept
<1>3. MinUTxOIntercept + size \in Nat /\ MinUTxOIntercept \in Nat
  BY DEF MinUTxOIntercept
<1> DEFINE bytes == 160 + ResponseBytes(size)
<1> DEFINE most == MinUTxOIntercept + size
<1>4. MinCoin(ResponseBytes(size)) = CoinsPerByte * bytes
  BY DEF MinCoin
<1>5. bytes \in Nat /\ most \in Nat /\ CoinsPerByte \in Nat /\ CoinsPerByte <= CoinsPerByte
  BY <1>2, <1>3, CoinsAssumption
<1>6. bytes <= most /\ (size >= 1 => MinUTxOIntercept <= bytes)
  BY <1>2
<1> HIDE DEF bytes, most
<1>7. CoinsPerByte * bytes \in Nat /\ CoinsPerByte * bytes <= CoinsPerByte * most
  BY <1>5, <1>6, TimesGrows
<1>8. size >= 1 => CoinsPerByte * MinUTxOIntercept <= CoinsPerByte * bytes
  BY <1>3, <1>5, <1>6, TimesGrows
<1>9. CoinsPerByte * MinUTxOIntercept \in Nat
  BY <1>3, <1>5
<1> QED
  BY <1>4, <1>7, <1>8, <1>9 DEF most
-----------------------------------------------------------------------------

(* The responses that are replaced.                                        *)
Existing(view, oracle, msg) == ByPoolActionID(view, PoolActionID(oracle.pool, msg.action))

(* The outputs of a fulfilling transaction.                                *)
NewResponse(oracle, msg, id) ==
  ResponseOutput(PoolActionID(oracle.pool, msg.action), msg.item, id)
ChangeOutput(u, change, id) ==
  Output(<<id, 1>>, KeyAddr(u.datum.owner), change, NoTokens, NoDatum)

(* Of what a fulfilling transaction is made.                               *)
LEMMA FulfillingParts ==
  ASSUME NEW view, NEW slot, NEW oracle, NEW u, NEW msg, NEW wallet, NEW change,
         NEW fee, NEW id, NEW tx,
         tx = FulfillingTx(view, slot, oracle, u, msg, wallet, change, fee, id)
  PROVE  /\ tx.ins = Existing(view, oracle, msg) \cup {u}
         /\ tx.refs = {oracle.utxo}
         /\ tx.outs = {NewResponse(oracle, msg, id), ChangeOutput(u, change, id)}
         /\ tx.lo = slot + StartOffset /\ tx.hi = slot + TTLOffset(oracle.data)
         /\ tx.signers = {wallet} /\ tx.fee = fee
<1>1. /\ tx.ins = Existing(view, oracle, msg) \cup {u}
      /\ tx.outs = {NewResponse(oracle, msg, id)} \cup {ChangeOutput(u, change, id)}
      /\ tx.fee = fee
  BY DEF FulfillingTx, PublishTx, Tx, Existing, NewResponse, ChangeOutput
<1>2. /\ tx.refs = {oracle.utxo}
      /\ tx.lo = slot + StartOffset /\ tx.hi = slot + TTLOffset(oracle.data)
      /\ tx.signers = {wallet}
  BY DEF FulfillingTx, PublishTx, Tx
<1>3. {NewResponse(oracle, msg, id)} \cup {ChangeOutput(u, change, id)}
        = {NewResponse(oracle, msg, id), ChangeOutput(u, change, id)}
  OBVIOUS
<1> QED
  BY <1>1, <1>2, <1>3

(* The coin of what is found can be summed up, and the request is beside   *)
(* the responses.                                                          *)
Reckonable(view, oracle, u, msg) ==
  /\ IsFiniteSet(view) /\ \A v \in view : v.coin \in Nat
  /\ Bytes(msg.item) \in 0 .. 255
  /\ u.coin \in Nat /\ u \notin Existing(view, oracle, msg)

(* What is replaced and the request pay for the response, the change, the  *)
(* fee and the relayer.                                                    *)
LEMMA FulfillingCoin ==
  ASSUME NEW view, NEW slot, NEW oracle, NEW u, NEW msg, NEW wallet, NEW change,
         NEW fee, NEW id, Reckonable(view, oracle, u, msg), change \in Int, fee \in Int
  PROVE  RelayerGain(FulfillingTx(view, slot, oracle, u, msg, wallet, change, fee, id)) =
           CoinOf(Existing(view, oracle, msg)) + u.coin
             - MinCoin(ResponseBytes(Bytes(msg.item))) - change - fee
<1> DEFINE tx == FulfillingTx(view, slot, oracle, u, msg, wallet, change, fee, id)
<1> DEFINE existing == Existing(view, oracle, msg)
<1> DEFINE response == NewResponse(oracle, msg, id)
<1> DEFINE back == ChangeOutput(u, change, id)
<1>0. /\ IsFiniteSet(view) /\ \A v \in view : v.coin \in Nat
      /\ Bytes(msg.item) \in 0 .. 255
      /\ u.coin \in Nat /\ u \notin Existing(view, oracle, msg)
  BY DEF Reckonable
<1> USE <1>0
<1>1. tx.ins = existing \cup {u} /\ tx.outs = {response, back} /\ tx.fee = fee
  BY FulfillingParts
<1> HIDE DEF tx
<1>2. IsFiniteSet(existing) /\ Coins(existing) /\ CoinOf(existing) \in Nat
  <2>1. existing \subseteq view
    BY DEF Existing, ByPoolActionID, StoredResponses
  <2> HIDE DEF existing
  <2>2. IsFiniteSet(existing) /\ \A v \in existing : v.coin \in Nat
    BY <2>1, FS_Subset
  <2> QED
    BY <2>2, CoinOfNat DEF Coins
<1>3. CoinOf(tx.ins) = CoinOf(existing) + u.coin
  BY <1>1, <1>2, CoinOfAdd
<1>4. /\ response.ref = <<id, 0>> /\ back.ref = <<id, 1>>
      /\ response.coin = MinCoin(ResponseBytes(Bytes(msg.item))) /\ back.coin = change
  BY DEF NewResponse, ResponseOutput, TokenOutput, ChangeOutput, Output
<1>5. response.coin \in Nat /\ response # back
  BY <1>4, ResponseCoin
<1> HIDE DEF existing, response, back
<1>6. CoinOf({response}) = response.coin
  BY <1>5, CoinOfOne
<1>7. IsFiniteSet({response}) /\ Coins({response}) /\ back \notin {response}
  <2>1. IsFiniteSet({response})
    BY FS_Singleton
  <2>2. Coins({response})
    BY <1>5 DEF Coins
  <2>3. back \notin {response}
    BY <1>5
  <2> QED
    BY <2>1, <2>2, <2>3
<1>8. CoinOf({response} \cup {back}) = response.coin + change
  BY <1>4, <1>6, <1>7, CoinOfAdd
<1>9. {response} \cup {back} = {response, back}
  OBVIOUS
<1>10. CoinOf(tx.outs) = response.coin + change
  BY <1>1, <1>8, <1>9
<1> QED
  BY <1>1, <1>2, <1>3, <1>4, <1>5, <1>10 DEF RelayerGain, existing, tx

(* What answering costs: the change is what is left of the request, or all *)
(* of it.                                                                  *)
Cost(view, oracle, msg, reward, fee) ==
  MinCost(Existing(view, oracle, msg), Bytes(msg.item), reward) + fee

(* The request pays for its answer and keeps what its change needs.        *)
CostIsCovered(view, oracle, u, msg, reward, fee) ==
  /\ Reckonable(view, oracle, u, msg)
  /\ fee \in Nat /\ reward \in Nat
  /\ u.datum.maxCost \in Nat /\ u.coin >= MinCoin(ChangeBytes) + u.datum.maxCost
  /\ Cost(view, oracle, msg, reward, fee) <= u.datum.maxCost

(* A cost within the maximal one leaves change that can stand alone, and   *)
(* the relayer no less than the reward.                                    *)
LEMMA FulfillmentSucceeds ==
  ASSUME NEW view, NEW slot, NEW oracle, NEW u, NEW msg, NEW reward, NEW wallet,
         NEW fee, NEW id, CostIsCovered(view, oracle, u, msg, reward, fee)
  PROVE  Fulfillment(view, slot, oracle, u, msg, reward, wallet, fee, id).outcome
           = "transaction"
<1>0. /\ IsFiniteSet(view) /\ \A v \in view : v.coin \in Nat
      /\ fee \in Nat /\ reward \in Nat /\ Bytes(msg.item) \in 0 .. 255
      /\ u.coin \in Nat /\ u \notin Existing(view, oracle, msg)
      /\ u.datum.maxCost \in Nat /\ u.coin >= MinCoin(ChangeBytes) + u.datum.maxCost
      /\ Cost(view, oracle, msg, reward, fee) <= u.datum.maxCost
  BY DEF CostIsCovered, Reckonable
<1> USE <1>0
<1> DEFINE existing == Existing(view, oracle, msg)
<1> DEFINE size == Bytes(msg.item)
<1> DEFINE coin == CoinOf(existing)
<1> DEFINE bytesCost == CoinsPerByte * (MinUTxOIntercept + size)
<1> DEFINE cost == MinCost(existing, size, reward)
<1> DEFINE max == u.datum.maxCost
<1> DEFINE min == MinCoin(ChangeBytes)
<1> DEFINE first == FirstChange(u, existing, size, reward)
<1> DEFINE second == SecondChange(u, existing, size, reward, fee)
<1> DEFINE f == Fulfillment(view, slot, oracle, u, msg, reward, wallet, fee, id)
<1> DEFINE paid == FulfillingTx(view, slot, oracle, u, msg, wallet, second, fee, id)
<1>1. coin \in Nat
  <2>1. existing \subseteq view
    BY DEF Existing, ByPoolActionID, StoredResponses
  <2> HIDE DEF existing
  <2>2. IsFiniteSet(existing) /\ \A v \in existing : v.coin \in Nat
    BY <2>1, FS_Subset
  <2> QED
    BY <2>2, CoinOfNat
<1>2. bytesCost \in Int /\ min \in Int /\ max \in Nat /\ u.coin >= min + max
  BY CoinsAssumption DEF MinCoin, ChangeBytes, MinUTxOIntercept
<1>3. cost = reward + bytesCost - coin /\ cost + fee <= max
  BY DEF MinCost, Cost
<1>4. /\ first = u.coin - Max({0, Min({max, cost})})
      /\ second = u.coin - Max({0, cost + fee})
  BY DEF FirstChange, SecondChange
<1>5. MinCoin(ResponseBytes(size)) \in Nat /\ MinCoin(ResponseBytes(size)) <= bytesCost
  BY ResponseCoin
<1> DEFINE response == MinCoin(ResponseBytes(size))
<1> HIDE DEF coin, bytesCost, cost, max, min, response
<1>6. cost \in Int /\ cost + fee \in Int
  BY <1>1, <1>2, <1>3
<1>7. Max({0, Min({max, cost})}) \in Nat /\ Max({0, Min({max, cost})}) <= max
  BY <1>2, <1>6, Capped
<1> DEFINE charge == Max({0, cost + fee})
<1>8. charge \in Nat /\ charge <= max /\ charge >= cost + fee
  <2> DEFINE total == cost + fee
  <2>1. total \in Int /\ total <= max
    BY <1>3, <1>6
  <2> HIDE DEF total
  <2>2. Max({0, total}) \in Nat /\ total <= Max({0, total}) /\ Max({0, total}) \in {0, total}
    BY <1>2, <2>1, Capped
  <2>3. Max({0, total}) <= max
    BY <1>2, <2>1, <2>2
  <2> QED
    BY <2>2, <2>3 DEF total
<1> HIDE DEF charge
<1>9. first \in Int /\ first >= min /\ second \in Int /\ second >= min
  BY <1>2, <1>4, <1>7, <1>8 DEF charge
<1>10. RelayerGain(paid) = coin + u.coin - response - second - fee
  <2>1. second \in Int /\ fee \in Int
    BY <1>9
  <2>2. Reckonable(view, oracle, u, msg)
    BY DEF CostIsCovered
  <2> HIDE DEF second, existing, size
  <2>3. RelayerGain(paid) = CoinOf(Existing(view, oracle, msg)) + u.coin
                              - MinCoin(ResponseBytes(Bytes(msg.item))) - second - fee
    BY ONLY <2>1, <2>2, FulfillingCoin
  <2> QED
    BY ONLY <2>3 DEF coin, response, existing, size
<1>11. RelayerGain(paid) >= reward
  <2>1. second = u.coin - charge
    BY <1>4 DEF charge
  <2>2. response \in Nat /\ response <= bytesCost
    BY <1>5 DEF response
  <2> HIDE DEF second, paid
  <2> QED
    BY <1>1, <1>2, <1>3, <1>6, <1>8, <1>10, <2>1, <2>2
<1>12. f.outcome = IF first < min \/ second < min THEN "InsufficientFunds"
                   ELSE IF RelayerGain(paid) < reward THEN "InsufficientReward"
                   ELSE "transaction"
  BY DEF Fulfillment, min, Existing
<1>13. RelayerGain(paid) \in Int
  <2> HIDE DEF second, paid
  <2> QED
    BY <1>1, <1>5, <1>9, <1>10 DEF response
<1> HIDE DEF first, second, paid, f
<1>14. f.outcome = "transaction"
  BY <1>2, <1>9, <1>11, <1>12, <1>13
<1> QED
  BY <1>14 DEF f
-----------------------------------------------------------------------------

(* The sum that create_request puts into a request, for a response of at   *)
(* most "most" bytes and a price no lower than today's, covers the cost of *)
(* a smaller one, if its storage is in the sum or already paid for.        *)
LEMMA SumCovers ==
  ASSUME NEW coin \in Nat, NEW price \in Nat, CoinsPerByte <= price,
         NEW most \in Nat, NEW size \in 0 .. most,
         NEW fee \in Nat, fee <= CardanoFeeBuffer, NEW reward \in Nat, NEW sum \in Nat,
         \/ sum >= CardanoFeeBuffer + reward + most * price
                     + MinUTxOIntercept * price
         \/ /\ sum >= CardanoFeeBuffer + reward + most * price
            /\ coin >= CoinsPerByte * MinUTxOIntercept
  PROVE  reward + CoinsPerByte * (MinUTxOIntercept + size) - coin + fee <= sum
<1> DEFINE C == CoinsPerByte
<1>1. C \in Nat /\ MinUTxOIntercept \in Nat /\ size \in Nat /\ size <= most
  BY CoinsAssumption DEF MinUTxOIntercept
<1>2. C * (MinUTxOIntercept + size) = C * MinUTxOIntercept + C * size
  BY <1>1, Distributes
<1> DEFINE bytes == C * size
<1> DEFINE storage == C * MinUTxOIntercept
<1> DEFINE bytesMost == most * price
<1> DEFINE storageMost == MinUTxOIntercept * price
<1>3. /\ bytes \in Nat /\ storage \in Nat /\ bytesMost \in Nat /\ storageMost \in Nat
      /\ bytes <= bytesMost /\ storage <= storageMost
  <2>1. C * size \in Nat /\ price * most \in Nat /\ C * size <= price * most
    BY <1>1, TimesGrows
  <2>2. /\ C * MinUTxOIntercept \in Nat /\ price * MinUTxOIntercept \in Nat
        /\ C * MinUTxOIntercept <= price * MinUTxOIntercept
    BY <1>1, TimesGrows
  <2>3. price * most = most * price /\ price * MinUTxOIntercept = MinUTxOIntercept * price
    BY <1>1
  <2> QED
    BY <2>1, <2>2, <2>3
<1>4. CardanoFeeBuffer \in Nat
  BY DEF CardanoFeeBuffer
<1>5. C * (MinUTxOIntercept + size) = storage + bytes
  BY <1>2
<1>6. \/ sum >= CardanoFeeBuffer + reward + bytesMost + storageMost
      \/ sum >= CardanoFeeBuffer + reward + bytesMost /\ coin >= storage
  OBVIOUS
<1> HIDE DEF bytes, storage, bytesMost, storageMost
<1>7. reward + (storage + bytes) - coin + fee <= sum
  BY <1>3, <1>4, <1>6
<1> QED
  BY <1>5, <1>7

(* The coin of the responses that are replaced.                            *)
LEMMA ExistingCoin ==
  ASSUME NEW view, IsFiniteSet(view), \A v \in view : v.coin \in Nat,
         NEW oracle, NEW msg
  PROVE  /\ IsFiniteSet(Existing(view, oracle, msg))
         /\ CoinOf(Existing(view, oracle, msg)) \in Nat
         /\ \A v \in Existing(view, oracle, msg) :
              v.coin \in Nat /\ v.coin <= CoinOf(Existing(view, oracle, msg))
<1> DEFINE existing == Existing(view, oracle, msg)
<1>1. existing \subseteq view
  BY DEF Existing, ByPoolActionID, StoredResponses
<1> HIDE DEF existing
<1>2. IsFiniteSet(existing) /\ \A v \in existing : v.coin \in Nat
  BY <1>1, FS_Subset
<1>3. CoinOf(existing) \in Nat /\ \A v \in existing : v.coin <= CoinOf(existing)
  BY <1>2, CoinOfNat, CoinOfMember
<1> QED
  BY <1>2, <1>3 DEF existing

(* What an answer costs, in the price's terms.                             *)
LEMMA CostOf ==
  ASSUME NEW view, IsFiniteSet(view), \A v \in view : v.coin \in Nat,
         NEW oracle, NEW msg, NEW reward \in Nat, NEW fee \in Nat,
         Bytes(msg.item) \in Nat
  PROVE  /\ Cost(view, oracle, msg, reward, fee) \in Int
         /\ Cost(view, oracle, msg, reward, fee) =
              reward + CoinsPerByte * (MinUTxOIntercept + Bytes(msg.item))
                - CoinOf(Existing(view, oracle, msg)) + fee
<1>1. CoinOf(Existing(view, oracle, msg)) \in Nat
  BY ExistingCoin
<1>2. MinUTxOIntercept + Bytes(msg.item) \in Int
  BY DEF MinUTxOIntercept
<1>3. CoinsPerByte * (MinUTxOIntercept + Bytes(msg.item)) \in Int
  BY <1>2, Distributes
<1> QED
  BY <1>1, <1>3 DEF Cost, MinCost

(* The script reckons no less a cost than the builder, from the same       *)
(* outputs and the price the request names, and so asks for no more        *)
(* change.                                                                 *)
LEMMA ScriptAgrees ==
  ASSUME NEW view, IsFiniteSet(view), \A v \in view : v.coin \in Nat,
         NEW slot, NEW oracle, NEW msg, NEW wallet, NEW change \in Int,
         NEW fee \in Nat, NEW id, Bytes(msg.item) \in Nat,
         NEW u, u.coin \in Nat, u.datum.maxCost \in Nat, u.datum.reward \in Nat,
         u.datum.coinPerByte \in Nat, CoinsPerByte <= u.datum.coinPerByte,
         u.datum.poolActionID = PoolActionID(oracle.pool, msg.action),
         Holding(Existing(view, oracle, msg) \cup {u},
                 ResponseAsset(u.datum.poolActionID)) = Existing(view, oracle, msg),
         Cost(view, oracle, msg, u.datum.reward, fee) <= u.datum.maxCost,
         change >= u.coin - Max({0, Cost(view, oracle, msg, u.datum.reward, fee)}),
         NEW tx, tx = FulfillingTx(view, slot, oracle, u, msg, wallet, change, fee, id)
  PROVE  ExistsChangeOutput(u, msg.item, tx)
<1> DEFINE cost == Cost(view, oracle, msg, u.datum.reward, fee)
<1> DEFINE coin == CoinOf(Existing(view, oracle, msg))
<1> DEFINE bytes == MinUTxOIntercept + Bytes(msg.item)
<1> DEFINE max == u.datum.maxCost
<1> DEFINE real == RealCost(u.datum, msg.item, tx)
<1> DEFINE capped == CappedCost(u.datum, msg.item, tx)
<1> DEFINE back == ChangeOutput(u, change, id)
<1>1. /\ tx.ins = Existing(view, oracle, msg) \cup {u} /\ tx.fee = fee
      /\ back \in tx.outs
  BY FulfillingParts
<1>2. AdaSpentWithAsset(ResponseAsset(u.datum.poolActionID), tx) = coin
  BY <1>1 DEF AdaSpentWithAsset
<1>3. real = u.datum.reward + fee + u.datum.coinPerByte * bytes - coin
  BY <1>1, <1>2 DEF RealCost
<1>4. cost \in Int /\ cost = u.datum.reward + CoinsPerByte * bytes - coin + fee
  BY CostOf
<1>5. coin \in Nat /\ bytes \in Nat
  BY ExistingCoin DEF MinUTxOIntercept
<1> HIDE DEF bytes, coin, cost, real
<1>6. /\ CoinsPerByte * bytes \in Nat /\ u.datum.coinPerByte * bytes \in Nat
      /\ CoinsPerByte * bytes <= u.datum.coinPerByte * bytes
  BY <1>5, TimesGrows, CoinsAssumption
<1>7. real \in Int /\ cost <= real
  BY <1>3, <1>4, <1>5, <1>6
<1>8. capped = Max({0, Min({max, real})})
  BY DEF CappedCost, real
<1>9. max \in Nat /\ cost <= max /\ change >= u.coin - Max({0, cost})
  BY DEF cost
<1> HIDE DEF max, capped
<1>10. Max({0, cost}) <= capped
  BY <1>4, <1>7, <1>8, <1>9, CappedGrows
<1>11. capped \in Nat /\ Max({0, cost}) \in Nat
  BY <1>4, <1>7, <1>8, <1>9, Capped
<1>12. change >= u.coin - capped
  BY <1>9, <1>10, <1>11
<1>13. back.addr = KeyAddr(u.datum.owner) /\ back.coin = change
  BY DEF ChangeOutput, Output
<1> QED
  BY <1>1, <1>12, <1>13 DEF ExistsChangeOutput, capped
=============================================================================
