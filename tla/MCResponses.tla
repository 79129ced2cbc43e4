---------------------------- MODULE MCResponses ----------------------------
(***************************************************************************)
(* An instance of Chain for the two scripts that hold tokens: a            *)
(* single-oracle pool and a private pool that may hand its token to either *)
(* of two oracles, and every transaction of up to two script inputs, one   *)
(* reference input or all there are, and up to two outputs with tokens, in *)
(* which tokens go to the right places and to wrong ones, alone, in pairs  *)
(* and doubled.                                                            *)
(***************************************************************************)
EXTENDS Chain

CONSTANTS
  MaxTime,      \* the last time of the clock
  MaxUTxOs      \* how many outputs a transaction may leave on chain

MCBytes(item) == 25

K1 == [pubKey |-> "k1", period |-> 2]
K2 == [pubKey |-> "k2", period |-> 1]

SinglePool == SingleOracleAsset(K1)
PrivatePool == PrivateAsset("operator", "pool")

MCPools == {SinglePool, PrivatePool}
MCTimes == 0 .. MaxTime

Item(t) == [timestamp |-> t, error |-> 0, value |-> t]

(* The first oracle answers twice; the second one only serves the private  *)
(* pool, and only in the middle of the run.                                *)
Answer(oracle, t) ==
  [action |-> "a", item |-> Item(t), relayer |-> "relayer", signer |-> oracle.pubKey]

MCMessages == {Answer(K1, 0), Answer(K1, 1), Answer(K2, 1)}

Output(ref, addr, tokens, datum) ==
  [ref |-> ref, addr |-> addr, coin |-> 2, tokens |-> tokens, datum |-> datum]

Two(a, b) == [x \in {a, b} |-> 1]
Double(a) == [x \in {a} |-> 2]

MCGenesis == {Output(0, KeyAddr("operator"), One(PrivatePool), K1)}

Paid == {PoolActionID(pool, "a") : pool \in MCPools}

Items(msgs) == {m.item : m \in msgs}

ResponseOutputs(ref, msgs) ==
  {Output(ref, ResponseAddr, One(ResponseAsset(p)), d) :
     p \in Paid, d \in Items(msgs)}
    \cup {Output(ref, KeyAddr("relayer"), One(ResponseAsset(p)), Item(1)) : p \in Paid}
    \cup {Output(ref, ResponseAddr, Double(ResponseAsset(p)), Item(1)) : p \in Paid}

OracleOutputs(ref) ==
  {Output(ref, a, One(SinglePool), d) :
     a \in {SinglePoolAddr, KeyAddr("operator")}, d \in {K1, K2}}
    \cup {Output(ref, KeyAddr("operator"), One(PrivatePool), K2),
          Output(ref, SinglePoolAddr, One(SingleOracleAsset(K2)), K2)}

(* Whatever an input holds may also be carried on, to a wallet.            *)
CarriedOn(ref, ins) ==
  {[u EXCEPT !.ref = ref, !.addr = KeyAddr("operator")] : u \in ins}

Fresh(S) == CHOOSE r \in 0 .. MaxUTxOs + 2 : \A u \in S : u.ref # r

OutputSets(S, ins, msgs) ==
  LET r == Fresh(S)
      s == CHOOSE x \in 0 .. MaxUTxOs + 2 : x # r /\ \A u \in S : u.ref # x
      first == ResponseOutputs(r, msgs) \cup OracleOutputs(r)
      pairs == {{o, p} : o \in {x \in first : x.addr.kind = "script"},
                         p \in CarriedOn(s, ins) \cup
                               {x \in ResponseOutputs(s, msgs) :
                                  x.addr.kind = "key"}}
  IN  {{}} \cup {{o} : o \in first} \cup pairs
        \cup {CarriedOn(r, {u}) : u \in ins}

MCCandidates(S, time, msgs) ==
  UNION {[ins : {ins}, refs : {S \ ins} \cup {{u} : u \in S \ ins},
          outs : {outs \in OutputSets(S, ins, msgs) :
                    Cardinality(S) - Cardinality(ins) + Cardinality(outs)
                      <= MaxUTxOs},
          lo : {time}, hi : {time + 1}, signers : {{"operator", "relayer"}},
          fee : {0}] :
         ins \in {x \in SUBSET S : Cardinality(x) <= 2}}
=============================================================================
