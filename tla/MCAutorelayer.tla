--------------------------- MODULE MCAutorelayer ---------------------------
(***************************************************************************)
(* An instance of Autorelayer: a relayer with one output in its wallet,    *)
(* two of alice's requests for one action that can be answered one after   *)
(* the other, one of bob's that names another pool action than its own,    *)
(* and a rival who publishes, or fulfills, in between.  The action holds a *)
(* secret for one of the two oracles of the pool.                          *)
(***************************************************************************)
EXTENDS Autorelayer

MCBytes(item) == 26

K1 == [pubKey |-> "k1", period |-> 900]
K2 == [pubKey |-> "k2", period |-> 900]
Pool == PrivateAsset("operator", "pool")

Sealed == CHOOSE a \in Created("request", {"secret"}, {"k1"}) : TRUE
Public == CHOOSE a \in Created("request", {}, {}) : TRUE
Paid == PoolActionID(Pool, Sealed)

MCActionIDs == {Sealed, Public}
MCPools == {Pool}
MCPurses == {KeyAddr("relayer")}
MCTimes == {0, 601, 720}

Answer(relayer, time) ==
  [action |-> Sealed, item |-> [timestamp |-> time, error |-> 0, value |-> 0],
   relayer |-> relayer, signer |-> "k1"]

MCMessages == {Answer("relayer", 0), Answer("relayer", 601), Answer("rival", 601)}

Requested(k, owner, before, reward, poolActionID) ==
  LET cost == MaxCost({}, 26)
  IN  Output(<<0, k>>, RequestAddr, MinCoin(ChangeBytes) + cost, NoTokens,
             [action |-> Sealed, pool |-> Pool, poolActionID |-> poolActionID,
              after |-> 0, before |-> before, owner |-> owner,
              reward |-> reward, coinPerByte |-> CoinsPerByte, maxCost |-> cost])

Registered(k, oracle) ==
  TokenOutput(<<0, k>>, KeyAddr("oracles"), Pool, oracle, OracleBytes)

MCGenesis ==
  {Requested(0, "alice", 200, RelayerReward, Paid),
   Requested(1, "alice", 700, RelayerReward, Paid),
   Requested(2, "bob", 10, RelayerReward, PoolActionID(Pool, Public)),
   Registered(3, K1), Registered(4, K2),
   Output(<<0, 5>>, KeyAddr("relayer"), 5000000, NoTokens, NoDatum)}

MCConfigAddrs(cs) == {KeyAddr("oracles")}

NoCandidates(S, time, msgs) == {}

(* What the theorems about the relayer's answers suppose holds here.       *)
ASSUME PromiseAssumption == AsPromised /\ AsConfigured
=============================================================================
