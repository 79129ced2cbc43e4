----------------------------- MODULE MCOffchain -----------------------------
(***************************************************************************)
(* An instance of Offchain with one oracle, registered in a private pool,  *)
(* two relayers, the owner "alice" who works with the commands, and "bob", *)
(* whose expired request nobody takes back.                                *)
(***************************************************************************)
EXTENDS Offchain

MCBytes(item) == 26

K1 == [pubKey |-> "k1", period |-> 60]
Pool == PrivateAsset("operator", "pool")
Paid == PoolActionID(Pool, "a")

MCPools == {Pool}

Answer(relayer, oracle, time, error, value) ==
  [action |-> "a", item |-> [timestamp |-> time, error |-> error, value |-> value],
   relayer |-> relayer, signer |-> oracle.pubKey]

Registered(k, oracle) ==
  TokenOutput(<<0, k>>, KeyAddr("oracles"), Pool, oracle, OracleBytes)

(* Requests: one of alice's for the first minute, one of bob's that is     *)
(* over, their time, an answer or two for them, and the time after.        *)
RequestTimes == {0, 40, 61, 1062}
RequestMessages == {Answer("relayer", K1, 0, 0, 0), Answer("rival", K1, 40, 0, 0)}

Requested(k, owner, before) ==
  LET cost == MaxCost({}, 26)
  IN  Output(<<0, k>>, RequestAddr, MinCoin(ChangeBytes) + cost, NoTokens,
             [action |-> "a", pool |-> Pool, poolActionID |-> Paid,
              after |-> 0, before |-> before, owner |-> owner,
              reward |-> RelayerReward, coinPerByte |-> CoinsPerByte, maxCost |-> cost])

RequestGenesis ==
  {Registered(2, K1), Requested(0, "alice", 60), Requested(1, "bob", 1)}
MCKinds == {[pool |-> Pool, action |-> "a", size |-> 26, ttl |-> 60, bytes |-> 400]}

NoCandidates(S, time, msgs) == {}

(* What the theorems on money suppose is so here.                          *)
ASSUME PromiseAssumption == AsPromised
=============================================================================
