---------------------- MODULE SingleOraclePoolValidator ----------------------
(***************************************************************************)
(* src/on-chain/src/SingleOraclePoolValidator.hs: the minting policy of    *)
(* the tokens that register the one oracle of a pool, and the guard of the *)
(* outputs that hold them.  The redeemer is the oracle's datum, and the    *)
(* token's name is the hash of it, so a pool is bound to its oracle.       *)
(***************************************************************************)
EXTENDS OracleData

SinglePoolAddr == ScriptAddr("single")

(* Mutant of StoresOracle: the token need not be named after the oracle.   *)
StoresOracleUnderAnyName(oracle, tx) ==
  \E o \in tx.outs :
    /\ {p \in tx.outs : HasCurrency(p, "single")} = {o}
    /\ o.addr = SinglePoolAddr
    /\ o.datum = oracle
    /\ \E a \in DOMAIN o.tokens : o.tokens = One(a)

(* The single output with the policy's tokens: one token, named after the  *)
(* oracle, at the script's own address, with the oracle for datum.         *)
StoresOracle(oracle, tx) ==
  \E o \in tx.outs :
    /\ {p \in tx.outs : HasCurrency(p, "single")} = {o}
    /\ o.addr = SinglePoolAddr
    /\ o.datum = oracle
    /\ o.tokens = One(SingleOracleAsset(oracle))

(* Mutant of KeepsOracle: the token spent may be another oracle's.         *)
KeepsAnyOracle(oracle, spent) ==
  \A u \in spent : u.datum # NoDatum => u.datum \in OracleDatum

(* What is asked of the input the script guards, if it guards one: a       *)
(* single token must be the oracle's, and a datum must be the oracle.      *)
KeepsOracle(oracle, spent) ==
  \A u \in spent :
    /\ \A tn \in TokenNames(u, "single") :
         TokenNames(u, "single") = {tn} => tn = oracle
    /\ u.datum # NoDatum => u.datum = oracle

SinglePoolValidates(oracle, spent, tx) ==
  /\ oracle \in OracleDatum
  /\ oracle.pubKey \in Compressed
  /\ oracle.period > 0
  /\ StoresOracle(oracle, tx)
  /\ KeepsOracle(oracle, spent)
=============================================================================
