---------------------------- MODULE Fulfillment ----------------------------
(***************************************************************************)
(* The money of one pool action: what src/off-chain/pending_requests.py    *)
(* puts into a request, what the transaction it builds to fulfill one      *)
(* takes out of it, and whether that is what OracleRequestValidator.hs     *)
(* accepts.  The builder and the script compute the cost each for itself,  *)
(* the builder from the sizes and coins it reads through pycardano, which  *)
(* are here those of the network.  The network's coins_per_utxo_byte may   *)
(* change at any time, and a program reads today's; the script reads the   *)
(* one the request was created with.  Time stands still.                   *)
(***************************************************************************)
EXTENDS ResponseValidator, RequestValidator, SingleOraclePoolValidator,
        ExampleUserValidator

CONSTANTS
  RequestBytes,    \* bytes of a request output, for requests of some kinds
  Sizes,           \* bytes of serialised data items, and of --max-response
  Fees,            \* what a fulfilling transaction may cost
  Prices,          \* what coins_per_utxo_byte may be
  Oracle           \* the oracle that answers, as the look-up finds it

ASSUME AmountsAssumption ==
  /\ RequestBytes \subseteq Nat
  /\ Sizes \subseteq Nat
  /\ Fees \subseteq Nat
  /\ Prices \subseteq Nat \ {0}

VARIABLES
  price,        \* today's coins_per_utxo_byte
  request,      \* the outputs that hold an open request: one or none
  maxResponse,  \* the --max-response the open request was created for
  stored,       \* the outputs that hold responses of the pool action
  built         \* the outcome of the last attempt to fulfill

vars == <<price, request, maxResponse, stored, built>>

(* The programs as they reckon today.                                      *)
Today == INSTANCE Builders WITH CoinsPerByte <- price

View == request \cup stored

PoolAction == PoolActionID(Oracle.pool, "a")

(* A data item, of which only the size of its value matters here.          *)
Item(size) == [timestamp |-> 0, error |-> 0, value |-> size]

ASSUME ItemsAssumption == \A size \in Sizes : Bytes(Item(size)) = size

Message(size) ==
  [action |-> "a", item |-> Item(size), relayer |-> "relayer",
   signer |-> Oracle.data.pubKey]

Create(size, bytes) ==
  /\ request = {}
  /\ request' = {Today!RequestOutput(
                   Today!NewRequest(View, Oracle.pool, "a", size, 0, 1, "owner"),
                   bytes, "request")}
  /\ maxResponse' = size
  /\ UNCHANGED <<price, stored, built>>

Fulfill(size, fee) ==
  /\ \E u \in request :
       LET f == Today!Fulfillment(View, 0, Oracle, u, Message(size),
                                  Today!RelayerReward, "relayer", fee, "next")
       IN  built' = [request |-> u, size |-> size, fee |-> fee, price |-> price,
                     promised |-> maxResponse, outcome |-> f.outcome, tx |-> f.tx]
  /\ UNCHANGED <<price, request, maxResponse, stored>>

(* The request script, before the request expires, with the response in    *)
(* time.                                                                   *)
IsAccepted(attempt) ==
  ExistsChangeOutput(attempt.request, Item(attempt.size), attempt.tx)

(* What was built is submitted, and included if nothing it spends is gone. *)
(* References are reused once an output is gone, so an output that comes   *)
(* back with the same contents counts as the one there was.                *)
Include ==
  /\ built.outcome = "transaction"
  /\ built.tx.ins \subseteq View
  /\ IsAccepted(built)
  /\ request' = request \ built.tx.ins
  /\ stored' = (stored \ built.tx.ins)
                 \cup {o \in built.tx.outs : HasCurrency(o, "response")}
  /\ maxResponse' = 0
  /\ built' = [outcome |-> "none"]
  /\ UNCHANGED price

(* Somebody publishes without a request: over all responses there are, or, *)
(* having seen none, beside the one that came first.                       *)
Publish(size) ==
  /\ \/ stored' = {Today!ResponseOutput(PoolAction, Item(size), "published")}
     \/ /\ Cardinality(stored) = 1
        /\ stored' = stored \cup {Today!ResponseOutput(PoolAction, Item(size), "beside")}
  /\ UNCHANGED <<price, request, maxResponse, built>>

(* A vote of the network's changes its parameters.                         *)
Reprice(p) ==
  /\ price # p
  /\ price' = p
  /\ UNCHANGED <<request, maxResponse, stored, built>>

Init ==
  /\ price \in Prices
  /\ request = {}
  /\ maxResponse = 0
  /\ stored = {}
  /\ built = [outcome |-> "none"]

Next ==
  \/ \E size \in Sizes, bytes \in RequestBytes : Create(size, bytes)
  \/ \E size \in Sizes, fee \in Fees : Fulfill(size, fee)
  \/ Include
  \/ \E size \in Sizes : Publish(size)
  \/ \E p \in Prices : Reprice(p)

Spec == Init /\ [][Next]_vars

-----------------------------------------------------------------------------

(* What the responses that are replaced hold pays for storing one by now.  *)
(* The sum of a request that was created beside a response relies on it,   *)
(* and a response stored for a lower price does not hold it.               *)
ReplacedPayForStorage ==
  LET replaced == {u \in built.tx.ins : HasCurrency(u, "response")}
  IN  replaced # {} => CoinOf(replaced) >= built.price * MinUTxOIntercept

(* An attempt with an item no larger than the request was created for, a   *)
(* fee within the buffer, and bytes that cost no more than the request has *)
(* for them, which is what validate_request asks for.                      *)
AsBudgeted ==
  /\ built.outcome # "none"
  /\ built.size <= built.promised
  /\ built.fee <= Today!CardanoFeeBuffer
  /\ built.price <= built.request.datum.coinPerByte
  /\ ReplacedPayForStorage

(* The coin a request was created with pays for the reward, for storing    *)
(* any response it was created for and for the fee, whatever responses     *)
(* there were when it was created and have come since, and whatever the    *)
(* price of storage has been meanwhile.                                    *)
BudgetSuffices == AsBudgeted => built.outcome = "transaction"

(* Script and builder agree on the cost: what is built within the budget   *)
(* gives the owner the change the script asks for, although one reckons    *)
(* from the outputs it sees and today's price and the other from the       *)
(* transaction it gets and the price the request names.                    *)
AcceptedWithinBudget ==
  AsBudgeted /\ built.outcome = "transaction" => IsAccepted(built)

(* What the transaction returns to the owner of the request.                *)
Change(tx) == CoinOf({o \in tx.outs : o.addr = KeyAddr("owner")})

(* No transaction that is built charges the owner more than the request's  *)
(* maximal cost.                                                           *)
ChargedAtMostMaxCost ==
  built.outcome = "transaction" =>
    built.request.coin - Change(built.tx) <= built.request.datum.maxCost
=============================================================================
