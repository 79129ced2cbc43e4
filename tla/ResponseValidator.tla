------------------------- MODULE ResponseValidator -------------------------
(***************************************************************************)
(* src/on-chain/src/OracleResponseValidator.hs, the script that is both    *)
(* the minting policy of response tokens and the guard of the outputs that *)
(* hold them.  It runs once per script input of its address and once when  *)
(* the supply of its policy changes.  "spent" is {u} when it guards the    *)
(* input u and {} when it is the minting policy (Validator.hs,             *)
(* storageScriptInfo).                                                     *)
(***************************************************************************)
EXTENDS OracleData

ResponseAddr == ScriptAddr("response")

(* The one asset an oracle's output holds identifies its pool.             *)
FindPoolID(u) == {a \in DOMAIN u.tokens : u.tokens = One(a)}

IsOracleOutput(u) == FindPoolID(u) # {} /\ u.datum # NoDatum

(* The reference inputs that look like oracles.  The script fails unless   *)
(* there is exactly one, and it carries the datum of an oracle.            *)
Oracles(tx) == {u \in tx.refs : IsOracleOutput(u)}

(* Mutant of VerifyOracleMessage: any registered oracle's key will do.     *)
VerifyAnySigner(msg, oracle, signed, tx) ==
  /\ msg \in signed
  /\ After(msg.item.timestamp + oracle.period, tx)

(* Mutant of VerifyOracleMessage: messages do not expire.                  *)
VerifyWithoutExpiry(msg, oracle, signed, tx) ==
  /\ msg \in signed
  /\ msg.signer = oracle.pubKey

VerifyOracleMessage(msg, oracle, signed, tx) ==
  /\ msg \in signed
  /\ msg.signer = oracle.pubKey
  /\ After(msg.item.timestamp + oracle.period, tx)

(* Mutant of StoresResponse: the token may go to another address.          *)
StoresResponseAnywhere(poolActionID, item, tx) ==
  \E o \in tx.outs :
    /\ {p \in tx.outs : HasCurrency(p, "response")} = {o}
    /\ o.datum = item
    /\ o.tokens = One(ResponseAsset(poolActionID))

(* The single output with the policy's tokens: one token, at the script's  *)
(* own address, with the signed item for datum.                            *)
StoresResponse(poolActionID, item, tx) ==
  \E o \in tx.outs :
    /\ {p \in tx.outs : HasCurrency(p, "response")} = {o}
    /\ o.addr = ResponseAddr
    /\ o.datum = item
    /\ o.tokens = One(ResponseAsset(poolActionID))

(* Mutant of Supersedes: the token spent may be another pool action's.     *)
SupersedesAnyAction(poolActionID, item, spent) ==
  \A u \in spent : u.datum # NoDatum =>
    u.datum \in DataItem /\ item.timestamp > u.datum.timestamp

(* Mutant of Supersedes: the item spent may be newer.                      *)
SupersedesAnyItem(poolActionID, item, spent) ==
  \A u \in spent : \A tn \in TokenNames(u, "response") :
    TokenNames(u, "response") = {tn} => tn = poolActionID

(* What is asked of the input the script guards, if it guards one: a       *)
(* single response token must be of the same pool action, and a datum must *)
(* be older than the new one.                                              *)
Supersedes(poolActionID, item, spent) ==
  \A u \in spent :
    /\ \A tn \in TokenNames(u, "response") :
         TokenNames(u, "response") = {tn} => tn = poolActionID
    /\ u.datum # NoDatum
         => u.datum \in DataItem /\ item.timestamp > u.datum.timestamp

ResponseValidates(msg, spent, signed, tx) ==
  \E oracle \in tx.refs, pool \in AssetsIn(tx.refs) :
    /\ Oracles(tx) = {oracle}
    /\ pool \in FindPoolID(oracle)
    /\ oracle.datum \in OracleDatum
    /\ VerifyOracleMessage(msg, oracle.datum, signed, tx)
    /\ msg.relayer \in tx.signers
    /\ StoresResponse(PoolActionID(pool, msg.action), msg.item, tx)
    /\ Supersedes(PoolActionID(pool, msg.action), msg.item, spent)
=============================================================================
