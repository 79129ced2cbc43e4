------------------------------ MODULE Builders ------------------------------
(***************************************************************************)
(* The transactions the programs of src/off-chain build from what they see *)
(* of the chain: "view", the unspent outputs, and "tip", the slot of the   *)
(* last block.  A program that gives up builds none, so a builder is a set *)
(* of at most one transaction, or a record with the exception raised.      *)
(*                                                                         *)
(* "id" stands for the new transaction's hash.  Inputs and change of the   *)
(* wallet that balances a transaction are left out, and what is minted or  *)
(* burnt is the difference between outputs and inputs (Ledger!Minted).     *)
(***************************************************************************)
EXTENDS ResponseValidator, RequestValidator, SingleOraclePoolValidator,
        ExampleUserValidator

CONSTANT
  CoinsPerByte     \* the protocol's coins_per_utxo_byte

ASSUME CoinsAssumption == CoinsPerByte \in Nat \ {0}

Output(ref, addr, coin, tokens, datum) ==
  [ref |-> ref, addr |-> addr, coin |-> coin, tokens |-> tokens, datum |-> datum]

(* The bytes of the CBOR head of a byte string or number.                  *)
HeadBytes(n) == IF n < 24 THEN 1 ELSE IF n < 256 THEN 2 ELSE 3

(* The bytes of outputs: change to a key address, and a response with its  *)
(* token at the script's, whose datum is wrapped into a byte string.       *)
ChangeBytes == 39
ResponseBytes(size) == 112 + HeadBytes(size) + size

MinCoin(bytes) == CoinsPerByte * (160 + bytes)

(* A transaction without Plutus scripts has no validity interval; one with *)
(* them starts by default a thousand slots before the last block and ends  *)
(* ten thousand after it.                                                  *)
EndOfTime == 2000000000
StartOffset == -1000
EndOffset == 10000

(* The bytes of a serialised PlutusOracle.                                 *)
OracleBytes == 44

(* A response, or the registration of an oracle: one token and a datum.    *)
TokenOutput(ref, addr, asset, datum, bytes) ==
  Output(ref, addr, MinCoin(ResponseBytes(bytes)), One(asset), datum)

Tx(ins, refs, outs, lo, hi, signers, fee) ==
  [ins |-> ins, refs |-> refs, outs |-> outs, lo |-> lo, hi |-> hi,
   signers |-> signers, fee |-> fee]

(* One that pays the wallets that sign it.                                 *)
PlainTx(ins, outs, signers) == Tx(ins, {}, outs, 0, EndOfTime, signers, 0)

-----------------------------------------------------------------------------

(* What a program makes of the outputs it finds.                           *)

(* get_registered_oracles_at: an oracle for each token beside its datum.   *)
RegisteredOracles(view, addrs) ==
  UNION {{[utxo |-> u, pool |-> a, data |-> u.datum] : a \in DOMAIN u.tokens} :
           u \in {v \in view : /\ v.addr \in addrs
                               /\ v.datum \in OracleDatum
                               /\ v.datum.pubKey \in Compressed}}

(* find_oracle_by_pk_pool_id                                               *)
OraclesOf(view, addrs, pubKey, pools) ==
  {o \in RegisteredOracles(view, addrs) : o.data.pubKey = pubKey /\ o.pool \in pools}

StoredResponses(view) ==
  {u \in view : /\ u.addr = ResponseAddr
                /\ HasCurrency(u, "response")
                /\ u.datum \in DataItem}

ByPoolActionID(view, poolActionID) ==
  {u \in StoredResponses(view) : ResponseAsset(poolActionID) \in DOMAIN u.tokens}

StoredRequests(view) == {u \in view : u.addr = RequestAddr /\ u.datum \in Request}

-----------------------------------------------------------------------------

(* Oracles: SingleOracleRepository and PrivateOracleRepository.            *)

AddSingleOracleTx(tip, oracle, wallet, id) ==
  Tx({}, {}, {TokenOutput(<<id, 0>>, SinglePoolAddr, SingleOracleAsset(oracle), oracle,
                          OracleBytes)},
     tip + StartOffset, tip + EndOffset, {wallet}, 0)

AddPrivateOracleTx(oracle, name, wallet, oraclesWallet, id) ==
  PlainTx({}, {TokenOutput(<<id, 0>>, KeyAddr(oraclesWallet),
                           PrivateAsset(wallet, name), oracle, OracleBytes)},
          {wallet})

(* All tokens of the output are burnt.                                     *)
DeleteOracleTx(u, wallet, oraclesWallet) ==
  PlainTx({u}, {}, {wallet, oraclesWallet})

-----------------------------------------------------------------------------

(* Responses: ResponseTransactionBuilder and ResponseRepository.           *)

(* Mutant of TTLOffset: the end of the interval is the library's.          *)
TTLOffsetOfLibrary(oracle) == EndOffset

TTLOffset(oracle) == Min({(9 * oracle.period) \div 10, 10000})

ResponseOutput(poolActionID, item, id) ==
  TokenOutput(<<id, 0>>, ResponseAddr, ResponseAsset(poolActionID), item, Bytes(item))

(* All responses of the pool action become one; without any, one is        *)
(* minted.                                                                 *)
PublishTx(view, tip, oracle, msg, wallet, id) ==
  LET p == PoolActionID(oracle.pool, msg.action)
  IN  Tx(ByPoolActionID(view, p), {oracle.utxo}, {ResponseOutput(p, msg.item, id)},
         tip + StartOffset, tip + TTLOffset(oracle.data), {wallet}, 0)

-----------------------------------------------------------------------------

(* Requests: create_request and RequestRepository.                         *)

CardanoFeeBuffer == 1000000
RelayerReward == 50000

(* Mutant of MaxCost: the response is taken to replace another.            *)
MaxCostOfReplacing(existing, size) ==
  CardanoFeeBuffer + RelayerReward + size * CoinsPerByte

MaxCost(existing, size) ==
  CardanoFeeBuffer + RelayerReward + size * CoinsPerByte
    + IF existing = {} THEN MinUTxOIntercept * CoinsPerByte ELSE 0

NewRequest(view, pool, action, size, after, ttl, owner) ==
  LET p == PoolActionID(pool, action)
  IN  [action |-> action, pool |-> pool, poolActionID |-> p,
       after |-> after, before |-> after + ttl, owner |-> owner,
       reward |-> RelayerReward, coinPerByte |-> CoinsPerByte,
       maxCost |-> MaxCost(ByPoolActionID(view, p), size)]

(* "bytes" are those of the request's output without what it pays.         *)
RequestOutput(request, bytes, id) ==
  Output(<<id, 0>>, RequestAddr,
         Max({MinCoin(ChangeBytes) + request.maxCost, MinCoin(bytes)}),
         NoTokens, request)

AddRequestTx(request, bytes, id) ==
  PlainTx({}, {RequestOutput(request, bytes, id)}, {request.owner})

RecycleTx(u, tip, wallet, id) ==
  Tx({u}, {}, {Output(<<id, 0>>, KeyAddr(wallet), u.coin, u.tokens, NoDatum)},
     tip + StartOffset, tip + EndOffset, {wallet}, 0)

(* Mutant of Expired: anybody's requests are taken.                        *)
ExpiredOfAnybody(view, now, owner) ==
  {u \in StoredRequests(view) : u.datum.before < now}

Expired(view, now, owner) ==
  {u \in StoredRequests(view) : u.datum.before < now /\ u.datum.owner = owner}

(* Mutant of RecycleAllStart: the interval starts as the library has it.   *)
RecycleAllStartOfLibrary(tip) == tip + StartOffset

RecycleAllStart(tip) == tip

(* The first "limit" expired requests, in whatever order they are listed,  *)
(* by the wall clock "now"; the interval starts at the last block.  Their  *)
(* whole value is paid out: coin, as requests are created without tokens.  *)
RecycleAllTxs(view, tip, now, limit, owner, id) ==
  {Tx(S, {}, {Output(<<id, 0>>, KeyAddr(owner), CoinOf(S), NoTokens, NoDatum)},
      RecycleAllStart(tip), tip + EndOffset, {owner}, 0) :
     S \in {R \in (SUBSET Expired(view, now, owner)) \ {{}} :
              Cardinality(R) = Min({limit, Cardinality(Expired(view, now, owner))})}}

-----------------------------------------------------------------------------

(* fulfill_request.  It builds twice: without regard to the fee, to learn  *)
(* it and the cost of the scripts, and again with the fee as part of the   *)
(* request's cost.  The two transactions differ in the change only, and    *)
(* have the same fee.                                                      *)

(* Mutant of MinCost: the coin of the responses replaced is the relayer's. *)
MinCostOfMinting(existing, size, reward) ==
  reward + CoinsPerByte * (MinUTxOIntercept + size)

MinCost(existing, size, reward) ==
  reward + CoinsPerByte * (MinUTxOIntercept + size) - CoinOf(existing)

FirstChange(u, existing, size, reward) ==
  u.coin - Max({0, Min({u.datum.maxCost, MinCost(existing, size, reward)})})

(* Mutant of SecondChange: the maximal cost is charged whatever it cost.   *)
SecondChangeAtMaxCost(u, existing, size, reward, fee) == u.coin - u.datum.maxCost

SecondChange(u, existing, size, reward, fee) ==
  u.coin - Max({0, MinCost(existing, size, reward) + fee})

FulfillingTx(view, tip, oracle, u, msg, wallet, change, fee, id) ==
  LET publish == PublishTx(view, tip, oracle, msg, wallet, id)
  IN  [publish EXCEPT
         !.ins  = @ \cup {u},
         !.outs = @ \cup {Output(<<id, 1>>, KeyAddr(u.datum.owner), change, NoTokens,
                                 NoDatum)},
         !.fee  = fee]

(* What is left to the relayer of the transaction.                         *)
RelayerGain(tx) == CoinOf(tx.ins) - CoinOf(tx.outs) - tx.fee

(* The exception raised, or "transaction", and the two transactions.       *)
Fulfillment(view, tip, oracle, u, msg, reward, wallet, fee, id) ==
  LET existing == ByPoolActionID(view, PoolActionID(oracle.pool, msg.action))
      first  == FirstChange(u, existing, Bytes(msg.item), reward)
      second == SecondChange(u, existing, Bytes(msg.item), reward, fee)
      Built(change) ==
        FulfillingTx(view, tip, oracle, u, msg, wallet, change, fee, id)
  IN  [first |-> Built(first), tx |-> Built(second),
       outcome |->
         IF first < MinCoin(ChangeBytes) \/ second < MinCoin(ChangeBytes)
         THEN "InsufficientFunds"
         ELSE IF RelayerGain(Built(second)) < reward
         THEN "InsufficientReward"
         ELSE "transaction"]

-----------------------------------------------------------------------------

(* The demo contract: lock and spend.                                      *)

LockTx(coin, wallet, id) ==
  PlainTx({}, {Output(<<id, 0>>, UserAddr, coin, NoTokens, NoDatum)}, {wallet})

SpendTTL == 10 * 60

(* Mutant of Latest: an error counts as a response.                        *)
LatestOfAny(view) ==
  LET found == ByPoolActionID(view, Wanted)
  IN  {u \in found : \A v \in found : v.datum.timestamp <= u.datum.timestamp}

(* The freshest of the successful responses of the wanted pool action.     *)
Latest(view) ==
  LET good == {u \in ByPoolActionID(view, Wanted) : u.datum.error = 0}
  IN  {u \in good : \A v \in good : v.datum.timestamp <= u.datum.timestamp}

(* All that is locked, which is coin as "lock" has put it there, if the    *)
(* response outlives the transaction.                                      *)
SpendTxs(view, tip, now, wallet, id) ==
  LET locked == {u \in view : u.addr = UserAddr}
  IN  {Tx(locked, {r},
          {Output(<<id, 0>>, KeyAddr(wallet), CoinOf(locked), NoTokens, NoDatum)},
          tip + StartOffset, tip + SpendTTL, {wallet}, 0) :
         r \in {v \in Latest(view) :
                  /\ CoinOf(locked) > 0
                  /\ now + SpendTTL <= v.datum.timestamp + UserValidityPeriod}}
=============================================================================
