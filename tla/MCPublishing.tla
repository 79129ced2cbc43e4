---------------------------- MODULE MCPublishing ----------------------------
(***************************************************************************)
(* An instance of WaitTx: K1, registered in a private pool, K3, which may  *)
(* be added to either kind of pool and whose responses are valid for       *)
(* little more than a block takes, two relayers who publish their answers  *)
(* in any order or beside each other, and the demo contract, which wants   *)
(* good news of the private pool.  One answer brings bad news and one an   *)
(* error.                                                                  *)
(***************************************************************************)
EXTENDS WaitTx

MCBytes(item) == 26

K1 == [pubKey |-> "k1", period |-> 60]
K3 == [pubKey |-> "k3", period |-> 21]
Pool == PrivateAsset("operator", "pool")
Paid == PoolActionID(Pool, "a")

MCOracles == {K3}
MCPools == {Pool, SingleOracleAsset(K3)}

(* The second answers' time, and the last at which the first one can be    *)
(* spent upon, and the first at which it cannot.                           *)
MCTimes == {0, 20, 1200, 1201}

Answer(relayer, oracle, time, error, value) ==
  [action |-> "a", item |-> [timestamp |-> time, error |-> error, value |-> value],
   relayer |-> relayer, signer |-> oracle.pubKey]

MCMessages ==
  {Answer("relayer", K1, 0, 0, 25000001), Answer("relayer", K3, 20, 1, 25000001),
   Answer("rival", K1, 20, 0, 25000000)}

MCGenesis ==
  {TokenOutput(<<0, 0>>, KeyAddr("oracles"), Pool, K1, OracleBytes),
   Output(<<0, 1>>, UserAddr, 7, NoTokens, NoDatum)}

NoCandidates(S, time, msgs) == {}
=============================================================================
