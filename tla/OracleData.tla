----------------------------- MODULE OracleData -----------------------------
(***************************************************************************)
(* The data the scripts exchange: the datum of an oracle, the message its  *)
(* trust domain signs, the data item published on chain, and the request.  *)
(*                                                                         *)
(* Hashes are modelled as injective: a hash is the value it is taken of.   *)
(* PlutusData parsing (unsafeFromBuiltinData) of a value of another shape  *)
(* fails; here a value has a shape iff it is in the set of that shape.     *)
(***************************************************************************)
EXTENDS Ledger

CONSTANTS
  PubKeys,        \* public keys an oracle datum may carry, well-formed or not
  Compressed,     \* those of 33 bytes
  Hashes,         \* key hashes of owners, relayers and operators
  Pools,          \* pools, each named by its asset, that requests ask for
  ActionIDs,      \* oracle actions, each being its own identifier
  Bytes(_)        \* the length of a serialised data item

ASSUME KeysAssumption == Compressed \subseteq PubKeys

(* (public_key, response_validity_period), the period in seconds.          *)
OracleDatum == [pubKey : PubKeys, period : Int]

(* (timestamp, error, value): what is published on chain.                  *)
DataItem == [timestamp : Nat, error : Nat, value : Int]

(* What a trust domain signs; "signer" stands for the signature, which     *)
(* nobody else can produce.                                                *)
OracleMessage ==
  [action : ActionIDs, item : DataItem, relayer : Hashes, signer : PubKeys]

PoolActionIDs == [pool : Pools, action : ActionIDs]

(* An OracleRequest.  Whoever posts it vouches for nothing: the id may be   *)
(* another than that of its pool and action, which no script looks at.     *)
Request ==
  [action : ActionIDs, pool : Pools, poolActionID : PoolActionIDs,
   after : Nat, before : Nat, owner : Hashes, reward : Nat, coinPerByte : Nat, maxCost : Nat]

(* The scripts of the protocol, and an output that carries one for others  *)
(* to refer to, which has no datum, by that script in place of a datum.    *)
ScriptNames == {"request", "response", "single"}
ScriptRef == [script : ScriptNames]

(* The policies' currency symbols are the hashes of their scripts, so that *)
(* the script that guards an output has the policy's name for an address.  *)
ResponseAsset(poolActionID) == [cs |-> "response", tn |-> poolActionID]
SingleOracleAsset(datum)    == [cs |-> "single", tn |-> datum]
PrivateAsset(owner, name) ==
  [cs |-> "private", tn |-> [owner |-> owner, name |-> name]]

(* sha256(policy ++ token name ++ action).                                 *)
PoolActionID(pool, action) == [pool |-> pool, action |-> action]
=============================================================================
