--------------------------- MODULE MCFulfillment ---------------------------
(***************************************************************************)
(* Fulfillment with the mainnet's coins_per_utxo_byte and a lower one,     *)
(* requests whose own minimal coin is below and above what is put into     *)
(* them, and items at the sizes where their CBOR heads grow.               *)
(***************************************************************************)
EXTENDS Fulfillment

MCBytes(item) == item.value

Pool == PrivateAsset("operator", "pool")

MCOracle ==
  LET data == [pubKey |-> "k1", period |-> 60]
  IN  [pool |-> Pool, data |-> data,
       utxo |-> [ref |-> <<"oracle", 0>>, addr |-> KeyAddr("operator"), coin |-> 2000000,
                tokens |-> One(Pool), datum |-> data]]

MCPools == {Pool}
=============================================================================
