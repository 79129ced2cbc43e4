----------------------------- MODULE MCTreasury -----------------------------
(***************************************************************************)
(* An instance of Treasury: the request treasury has locked its coin in a  *)
(* request, the library holds one script, and a relayer has a message that *)
(* answers.                                                                *)
(***************************************************************************)
EXTENDS Treasury

MCBytes(item) == 26

K1 == [pubKey |-> "k1", period |-> 900]
Pool == PrivateAsset("operator", "pool")
Paid == PoolActionID(Pool, "a")

MCPools == {Pool}
MCTimes == {0, 30, 90}
MCPurses == {KeyAddr("operator"), KeyAddr("requests"), KeyAddr("library")}
MCKinds == {[pool |-> Pool, action |-> "a", size |-> 26, ttl |-> 20, bytes |-> 400]}

MCMessages ==
  {[action |-> "a", item |-> [timestamp |-> 0, error |-> 0, value |-> 0],
    relayer |-> "relayer", signer |-> "k1"]}

Cost == MaxCost({}, 26)

Requested(k, before) ==
  Output(<<0, k>>, RequestAddr, MinCoin(ChangeBytes) + Cost, NoTokens,
         [action |-> "a", pool |-> Pool, poolActionID |-> Paid,
          after |-> 0, before |-> before, owner |-> "requests",
          reward |-> RelayerReward, coinPerByte |-> CoinsPerByte, maxCost |-> Cost])

MCGenesis ==
  {Requested(0, 20), Output(<<0, 1>>, KeyAddr("requests"), 1000000, NoTokens, NoDatum),
   TokenOutput(<<0, 2>>, KeyAddr("oracles"), Pool, K1, OracleBytes),
   Output(<<0, 3>>, KeyAddr("operator"), 20000000, NoTokens, NoDatum),
   Output(<<0, 4>>, KeyAddr("library"), MinCoin(ScriptBytes), NoTokens,
          [script |-> "request"])}

NoCandidates(S, time, msgs) == {}
=============================================================================
