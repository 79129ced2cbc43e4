------------------------------ MODULE Offchain ------------------------------
(***************************************************************************)
(* The commands of src/off-chain at work on the chain.  A command reads    *)
(* the chain, builds a transaction, has the node evaluate its scripts and  *)
(* submits it to the pool of pending transactions; a block includes it     *)
(* later, in another order or never.  Meanwhile its inputs may be spent    *)
(* and its interval end.  The wall clock and the slots run together in     *)
(* "now"; what a command knows of the slots is the last block's, "tip".    *)
(*                                                                         *)
(* A command's reads are one step: what changes between its reads and its  *)
(* submission changes as well between submission and inclusion.            *)
(***************************************************************************)
EXTENDS Chain, Builders

CONSTANTS
  Relayers,          \* key hashes of those who relay responses
  Owners,            \* ... of those who post requests
  Operator,          \* ... of the treasury of who runs private pools
  OraclesWallet,     \* ... of the operator's wallet of oracles
  OraclesToAdd,      \* the oracles that "add" is run for
  PoolNames,         \* the --pool-name of private pools
  RequestKinds,      \* (pool, action, size, ttl, bytes) of requests to add
  Fees,              \* what a fulfilling transaction may cost
  Limit,             \* the --limit of "recycleall"
  DemoUsers,         \* key hashes of those who use the demo contract
  Deposits,          \* coin to lock at it
  MaxBuilt           \* how many transactions may be built, recycling aside

(* Where "fulfill" and "relay" look for oracles.                           *)
OracleAddrs == {KeyAddr(OraclesWallet), SinglePoolAddr}

(* An output as the commands make it.                                      *)
Proper(u) ==
  /\ u.addr \in OracleAddrs /\ u.datum \in OracleDatum =>
       u.datum.period \in Nat /\ \E a \in DOMAIN u.tokens : u.tokens = One(a)
  /\ u.addr \in {RequestAddr, UserAddr} => u.tokens = NoTokens

ASSUME PartiesAssumption ==
  /\ Relayers \cup Owners \cup DemoUsers \cup {Operator, OraclesWallet} \subseteq Hashes
  /\ Limit \in Nat /\ MaxBuilt \in Nat /\ Fees \subseteq Nat

(* The outputs there are at first are of none of the transactions built.   *)
ASSUME NumbersAssumption == \A u \in Genesis : u.ref[1] = 0

(* Where the commands look for oracles, requests and what is locked, they  *)
(* find what commands have put there: an oracle with one token, and a      *)
(* period that is not negative, and coin only.                             *)
ASSUME DeploymentAssumption ==
  /\ \A oracle \in OraclesToAdd : oracle \in OracleDatum /\ oracle.period \in Nat
  /\ \A u \in Genesis : Proper(u)

VARIABLES
  tip,        \* the slot of the last block
  pending,    \* the transactions submitted and not included
  built       \* how many transactions have been built

offvars == <<utxos, now, signed, tip, pending, built>>

-----------------------------------------------------------------------------

(* What the node evaluates before a command submits: inputs must be there  *)
(* and scripts accept.                                                     *)
Evaluates(tx) ==
  /\ tx.ins \subseteq utxos
  /\ tx.refs \subseteq utxos
  /\ ScriptsAccept(tx)

SubmitToNode(tx) ==
  /\ pending' = pending \cup {tx}
  /\ UNCHANGED <<utxos, now, signed, tip>>

(* The number of a transaction of which no output is tracked.              *)
ChangeOnly == -1

(* One of the bounded number of transactions.                              *)
Build(tx) ==
  /\ built < MaxBuilt
  /\ built' = built + 1
  /\ SubmitToNode(tx)

(* oracles.py: add, delete                                                 *)
AddSingleOracle(oracle) ==
  LET tx == AddSingleOracleTx(tip, oracle, Operator, built)
  IN  Evaluates(tx) /\ Build(tx)

AddPrivateOracle(oracle, name) ==
  Build(AddPrivateOracleTx(oracle, name, Operator, OraclesWallet, built))

DeleteOracle(u) ==
  /\ u.addr = KeyAddr(OraclesWallet)
  /\ Evaluates(DeleteOracleTx(u, Operator, OraclesWallet))
  /\ Build(DeleteOracleTx(u, Operator, OraclesWallet))

(* relay.py: a message that a trust domain has signed for this relayer is  *)
(* published, through any pool its oracle is found in.                     *)
Relay(msg) ==
  \E oracle \in OraclesOf(utxos, OracleAddrs, msg.signer, Pools) :
    LET tx == PublishTx(utxos, tip, oracle, msg, msg.relayer, built)
    IN  Evaluates(tx) /\ Build(tx)

(* pending_requests.py: add, fulfill, recycle, recycleall                  *)
AddRequest(owner, kind) ==
  LET request == NewRequest(utxos, kind.pool, kind.action, kind.size, now, kind.ttl,
                            owner)
  IN  Build(AddRequestTx(request, kind.bytes, built))

(* The second of the two transactions is not evaluated again.              *)
Fulfill(u, msg, fee) ==
  /\ msg.action = u.datum.action
  /\ \E oracle \in OraclesOf(utxos, OracleAddrs, msg.signer, {u.datum.pool}) :
       LET f == Fulfillment(utxos, tip, oracle, u, msg, RelayerReward, msg.relayer,
                            fee, built)
       IN  /\ f.outcome = "transaction"
           /\ Evaluates(f.first)
           /\ Build(f.tx)

Recycle(u) ==
  LET tx == RecycleTx(u, tip, u.datum.owner, built)
  IN  Evaluates(tx) /\ Build(tx)

(* An owner runs it again and again, each time once the last transaction   *)
(* of theirs has been included or has become invalid.                      *)
RecycleAll(owner) ==
  /\ \A tx \in pending : owner \notin tx.signers
  /\ \E tx \in RecycleAllTxs(utxos, tip, now, Limit, owner, ChangeOnly) :
       Evaluates(tx) /\ SubmitToNode(tx)
  /\ UNCHANGED built

(* demo.py: lock, spend                                                    *)
Lock(user, coin) == Build(LockTx(coin, user, built))

Spend(user) ==
  \E tx \in SpendTxs(utxos, tip, now, user, built) :
    Evaluates(tx) /\ Build(tx)

(* The messages the commands' relayers have been sent.                     *)
Held == {msg \in signed : msg.relayer \in Relayers}

Command ==
  \/ \E oracle \in OraclesToAdd : AddSingleOracle(oracle)
  \/ \E oracle \in OraclesToAdd, name \in PoolNames : AddPrivateOracle(oracle, name)
  \/ \E u \in utxos : DeleteOracle(u)
  \/ \E msg \in Held : Relay(msg)
  \/ \E owner \in Owners, kind \in RequestKinds : AddRequest(owner, kind)
  \/ \E u \in StoredRequests(utxos), msg \in Held, fee \in Fees : Fulfill(u, msg, fee)
  \/ \E u \in StoredRequests(utxos) : Recycle(u)
  \/ \E owner \in Owners : RecycleAll(owner)
  \/ \E user \in DemoUsers, coin \in Deposits : Lock(user, coin)
  \/ \E user \in DemoUsers : Spend(user)

-----------------------------------------------------------------------------

(* A block includes a transaction, or has none for us.                     *)
Include(tx) ==
  /\ Submit(tx)
  /\ tip' = now
  /\ pending' = pending \ {tx}
  /\ UNCHANGED built

EmptyBlock ==
  /\ tip' = now
  /\ UNCHANGED <<utxos, now, signed, pending, built>>

(* The node forgets a transaction that can never be included any more.     *)
Dead(tx) == ~(tx.ins \cup tx.refs \subseteq utxos) \/ now >= tx.hi

Forget(tx) ==
  /\ Dead(tx)
  /\ pending' = pending \ {tx}
  /\ UNCHANGED <<utxos, now, signed, tip, built>>

Environment ==
  \/ \E tx \in pending : Include(tx) \/ Forget(tx)
  \/ EmptyBlock
  \/ /\ \/ \E m \in Messages : m.relayer \in Relayers /\ Sign(m)
        \/ \E t \in Times : Tick(t)
     /\ UNCHANGED <<tip, pending, built>>

OffInit ==
  /\ Init
  /\ tip = now
  /\ pending = {}
  /\ built = 1

OffNext == Command \/ Environment

OffSpec == OffInit /\ [][OffNext]_offvars

(* What an instance assumes of the network and of owners when something    *)
(* is to happen in the end: time goes on, blocks come, what an owner has   *)
(* pending is included or forgotten, and owners keep running "recycleall". *)
(* Nobody is obliged to relay, to add or to fulfill anything.              *)
OffFairness ==
  /\ WF_offvars(\E t \in Times : Tick(t) /\ UNCHANGED <<tip, pending, built>>)
  /\ WF_offvars(EmptyBlock)
  /\ \A owner \in Owners :
       /\ WF_offvars(RecycleAll(owner))
       /\ WF_offvars(\E tx \in pending :
                       owner \in tx.signers /\ (Include(tx) \/ Forget(tx)))

OffFairSpec == OffSpec /\ OffFairness

-----------------------------------------------------------------------------

(* A transaction that a block could include is accepted by every script    *)
(* it runs: nobody forfeits a collateral, although fulfill_request submits *)
(* a transaction that has not been evaluated, and the chain has changed    *)
(* since it was built.  It is so if items and requests are as promised     *)
(* (AsPromised): for a larger item, the second transaction may charge more *)
(* than the script allows.                                                 *)
SubmittedKeepCollateral ==
  \A tx \in pending : LedgerAccepts(tx, utxos, now) => ScriptsAccept(tx)

Newer(msg, poolActionID) ==
  \A r \in ByPoolActionID(utxos, poolActionID) : r.datum.timestamp < msg.item.timestamp

(* What a trust domain has signed since the last block, through whatever   *)
(* oracle is found for it, gives a transaction the scripts accept unless a *)
(* response that is as new is there: the intervals, the outputs and the    *)
(* look-up of the Python programs are what the Haskell scripts ask for.    *)
FreshResponsesPass ==
  \A msg \in signed :
    \A oracle \in OraclesOf(utxos, OracleAddrs, msg.signer, Pools) :
      /\ msg.item.timestamp >= tip
      /\ Newer(msg, PoolActionID(oracle.pool, msg.action))
      => ScriptsAccept(PublishTx(utxos, tip, oracle, msg, msg.relayer, built))

(* A request for the pool action that it names.                            *)
Answerable(o) ==
  /\ o.addr = RequestAddr /\ o.datum \in Request
  /\ o.datum.poolActionID = PoolActionID(o.datum.pool, o.datum.action)

(* The fee, the reward and the bytes of an answer.                         *)
Sum(u, m) == CardanoFeeBuffer + u.datum.reward + Bytes(m.item) * CoinsPerByte

(* A request as create_request makes it ...                                *)
Posted(u) ==
  /\ u.datum.reward >= RelayerReward /\ u.datum.coinPerByte >= CoinsPerByte
  /\ u.coin >= MinCoin(ChangeBytes) + u.datum.maxCost
  /\ \A m \in Messages : u.datum.maxCost >= Sum(u, m)

(* ... when there is no response.                                          *)
PaysForStorage(u) ==
  \A m \in Messages : u.datum.maxCost >= Sum(u, m) + MinUTxOIntercept * CoinsPerByte

(* What an answer may cost is what owners and relayers are promised: an    *)
(* item is no larger than --max-response, nor than 255 bytes, from where   *)
(* on storage costs more than create_request reckons; a transaction costs  *)
(* no more than it reckons; and create_request has made what requests      *)
(* there are at first, without a response.                                 *)
AsPromised ==
  /\ \A m \in Messages : Bytes(m.item) \in 1 .. 255
  /\ \A kind \in RequestKinds :
       /\ kind.size \in Nat /\ kind.bytes \in Nat
       /\ \A m \in Messages : Bytes(m.item) <= kind.size
  /\ \A fee \in Fees : fee \in Nat /\ fee <= CardanoFeeBuffer
  /\ \A u \in Genesis : Answerable(u) => Posted(u) /\ PaysForStorage(u)

(* As much for fulfilling a request within its time: no exception is       *)
(* raised, and both transactions are such that the scripts accept them,    *)
(* whatever responses have come since the request was created.             *)
FreshAnswersPass ==
  \A u \in StoredRequests(utxos), msg \in signed, fee \in Fees :
    \A oracle \in OraclesOf(utxos, OracleAddrs, msg.signer, {u.datum.pool}) :
      /\ msg.action = u.datum.action
      /\ u.datum.poolActionID = PoolActionID(u.datum.pool, u.datum.action)
      /\ msg.item.timestamp >= tip
      /\ Newer(msg, u.datum.poolActionID)
      /\ u.datum.after <= msg.item.timestamp
      /\ msg.item.timestamp <= u.datum.before
      => LET f == Fulfillment(utxos, tip, oracle, u, msg, RelayerReward, msg.relayer,
                              fee, built)
         IN  /\ f.outcome = "transaction"
             /\ ScriptsAccept(f.first)
             /\ ScriptsAccept(f.tx)

(* What "spend" finds is what the demo contract accepts, if the value is   *)
(* good: the newest of the successful responses, long enough before it is  *)
(* half an hour old by the clock of the command.                           *)
SpendingPasses ==
  \A user \in DemoUsers :
    \A tx \in SpendTxs(utxos, tip, now, user, built) :
      (\A r \in tx.refs : IsResponseGood(r.datum)) => ScriptsAccept(tx)

(* Transaction number "id" has put a request there that is going to expire *)
(* before the last of the bounded times.                                   *)
Expiring(id) ==
  \E u \in StoredRequests(utxos) : u.ref = <<id, 0>> /\ u.datum.before < Max(Times)

(* Answered or not, and whatever transactions it is raced for by, a        *)
(* request is spent in the end if its owner keeps running "recycleall".    *)
EveryRequestLeaves == \A id \in 0 .. MaxBuilt : Expiring(id) ~> ~Expiring(id)

(* A request that has expired, as of the last block, can be taken back     *)
(* with "recycle".                                                         *)
ExpiredCanBeRecycled ==
  \A u \in StoredRequests(utxos) :
    u.datum.before < tip => Evaluates(RecycleTx(u, tip, u.datum.owner, built))

(* As soon as a block has come after a request's time, "recycleall" gets it *)
(* back, with all others it takes; "recycle" does a thousand slots later.  *)
RecyclingPasses ==
  /\ \A owner \in Owners :
       \A tx \in RecycleAllTxs(utxos, tip, now, Limit, owner, ChangeOnly) :
         (\A u \in tx.ins : u.datum.before < tip) => Evaluates(tx)
  /\ \A u \in StoredRequests(utxos) :
       u.datum.before < tip + StartOffset =>
         Evaluates(RecycleTx(u, tip, u.datum.owner, built))
=============================================================================
