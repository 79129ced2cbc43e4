------------------------------ MODULE Treasury ------------------------------
(***************************************************************************)
(* The operator's wallets at work: the treasury, the request treasury that *)
(* posts requests and takes them back, and the library of scripts.  What   *)
(* Offchain leaves to wallets is part of it: every command needs coin of   *)
(* its wallet, spends outputs that other pending commands spend as well,   *)
(* and leaves change behind, until "consolidate" gathers it and "topup"    *)
(* adds to it.  Transactions refer to scripts of the library, which        *)
(* "scripts clear" may take away before a block has included them.         *)
(*                                                                         *)
(* Relayers fulfill the requests in between, with wallets of their own.    *)
(***************************************************************************)
EXTENDS Offchain, Wallets

CONSTANTS
  RequestTreasury,     \* the key hash of request_treasury
  Library,             \* ... of library
  Fee,                 \* what a transaction of the operator's costs
  Collateral,          \* what has to be there to run a script
  Ada,                 \* the amounts of "topup"
  ScriptBytes          \* the bytes of an output with a script

ASSUME WalletsAssumption ==
  /\ {Operator, RequestTreasury, Library} \subseteq Hashes
  /\ Purses = {KeyAddr(Operator), KeyAddr(RequestTreasury), KeyAddr(Library)}
  /\ Fee \in Nat /\ Collateral \in Nat /\ ScriptBytes \in Nat
  /\ Ada \subseteq Nat
  /\ \A u, v \in StoredScripts(Genesis, Library) : u.datum = v.datum => u = v

-----------------------------------------------------------------------------

(* A hash for a transaction that is not one of the bounded number.         *)
Taken ==
  {u.ref[1] : u \in utxos} \cup {o.ref[1] : o \in UNION {tx.outs : tx \in pending}}

Fresh == Min((MaxBuilt + 1 .. MaxBuilt + 1 + Cardinality(Taken)) \ Taken)

(* The operator waits for the last transaction of a wallet, as with        *)
(* "--wait", or for the node to have forgotten it.                         *)
Idle(wallet) == \A tx \in pending : wallet \notin tx.signers

(* Any balanced transaction of those that are there to be submitted.       *)
SubmitOne(txs) ==
  /\ \E tx \in txs : Evaluates(tx) /\ SubmitToNode(tx)
  /\ UNCHANGED built

BuildOne(txs) == \E tx \in txs : Build(tx)

CanRunScripts(wallet) == CoinOf(Purse(utxos, wallet)) >= Collateral

(* pending_requests.py: add, recycleall                                    *)
Add(kind) ==
  LET request == NewRequest(utxos, kind.pool, kind.action, kind.size, now, kind.ttl,
                            RequestTreasury)
  IN  BuildOne(Balanced(utxos, RequestTreasury,
                        [AddRequestTx(request, kind.bytes, built) EXCEPT !.fee = Fee],
                        built))

TakeBackAll ==
  /\ Idle(RequestTreasury)
  /\ CanRunScripts(RequestTreasury)
  /\ \E tx \in RecycleAllTxs(utxos, tip, now, Limit, RequestTreasury, Fresh) :
       \E refs \in References(utxos, Library, "request") :
         SubmitOne(Merged(utxos, RequestTreasury,
                          [tx EXCEPT !.refs = refs, !.fee = Fee], Fresh))

(* consolidate.py, run while there is something to consolidate             *)
Consolidate ==
  /\ Idle(RequestTreasury)
  /\ Cardinality(Purse(utxos, RequestTreasury)) > 1
  /\ \E tx \in ConsolidateTxs(utxos, RequestTreasury, Fee, Fresh) :
       SubmitOne(Merged(utxos, RequestTreasury, tx, Fresh))

(* topup.py, run when the request treasury cannot pay for "recycleall"     *)
TopUp(ada) ==
  /\ Idle(Operator)
  /\ CoinOf(Purse(utxos, RequestTreasury)) < Max({Fee, Collateral})
  /\ SubmitOne(Balanced(utxos, Operator, TopUpTx(Operator, RequestTreasury, ada, Fee, Fresh),
                        Fresh))

(* scripts.py: addall, clear                                               *)
AddAll ==
  /\ Idle(Operator)
  /\ Missing(utxos, Library) # {}
  /\ BuildOne(Balanced(utxos, Operator,
                       AddScriptsTx(utxos, Operator, Library, ScriptBytes, Fee, built),
                       built))

Clear ==
  /\ StoredScripts(utxos, Library) # {}
  /\ BuildOne(Merged(utxos, Operator, ClearTx(utxos, Operator, Library, Fee, built), built))

OperatorStep ==
  \/ \E kind \in RequestKinds : Add(kind)
  \/ TakeBackAll
  \/ Consolidate
  \/ \E ada \in Ada : TopUp(ada)
  \/ AddAll
  \/ Clear

TreasuryNext ==
  \/ OperatorStep
  \/ \E u \in StoredRequests(utxos), msg \in Held, fee \in Fees : Fulfill(u, msg, fee)
  \/ Environment

(* Time goes on and blocks come, what the operator has pending is included *)
(* or forgotten, and the operator keeps running "recycleall", "topup" when *)
(* there is no coin for it, and "consolidate".  Nothing else need happen.  *)
TreasurySpec ==
  /\ OffInit /\ [][TreasuryNext]_offvars
  /\ WF_offvars(\E t \in Times : Tick(t) /\ UNCHANGED <<tip, pending, built>>)
  /\ WF_offvars(EmptyBlock)
  /\ WF_offvars(TakeBackAll)
  /\ WF_offvars(Consolidate)
  /\ WF_offvars(\E ada \in Ada : TopUp(ada))
  /\ \A wallet \in {Operator, RequestTreasury} :
       WF_offvars(\E tx \in pending : wallet \in tx.signers /\ (Include(tx) \/ Forget(tx)))

-----------------------------------------------------------------------------

(* The operator's requests all leave in the end, as with Offchain's        *)
(* EveryRequestLeaves, although each recycling now takes coin, a           *)
(* collateral and perhaps a script of the library that is cleared first,   *)
(* and competes for the wallet's outputs with requests, change and         *)
(* consolidation, and although the coin may all be in the requests.        *)
RequestsComeHome == EveryRequestLeaves

(* Whatever requests, answers, recycling and top-ups scatter, and whatever *)
(* of it is spent by somebody else before a consolidation is included, the *)
(* coin of the request treasury ends in one output, at most, if the        *)
(* operator keeps running "consolidate".                                   *)
GatheredInTheEnd == <>[](Cardinality(Purse(utxos, RequestTreasury)) <= 1)

(* No script is twice in the library, in which every copy locks its coin,  *)
(* if the operator waits for each "addall" to be included or forgotten.    *)
EachScriptOnce ==
  \A u, v \in StoredScripts(utxos, Library) : u.datum = v.datum => u = v
=============================================================================
