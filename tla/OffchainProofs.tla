--------------------------- MODULE OffchainProofs ---------------------------
(***************************************************************************)
(* What holds of the chain while the commands are at work on it.  Their    *)
(* transactions are not among the candidates of Chain, but whatever a      *)
(* block includes the scripts have accepted, so the steps' lemmas do.      *)
(*                                                                         *)
(* Then what the commands build: what they find on chain is what commands  *)
(* have put there, so that publishing, recycling and spending pass; a      *)
(* transaction answers one request; and a request always has the coin for  *)
(* its answer, so that fulfilling passes, now and later.                   *)
(***************************************************************************)
EXTENDS Offchain, ChainProofs, BuilderProofs

(* A command changes nothing but what is pending and how much is built.    *)
LEMMA CommandOnlySubmits ==
  ASSUME Command
  PROVE  UNCHANGED <<utxos, now, signed, tip>>
BY DEF Command, AddSingleOracle, AddPrivateOracle, DeleteOracle, Relay, AddRequest,
       Fulfill, Recycle, RecycleAll, Lock, Spend, Build, SubmitToNode

(* A step changes the chain by a transaction, by a signature, by time or   *)
(* not at all.                                                             *)
LEMMA ChainChanges ==
  ASSUME [OffNext]_offvars
  PROVE  \/ \E tx : Submit(tx)
         \/ \E m \in Messages : Sign(m)
         \/ \E t \in Times : Tick(t)
         \/ UNCHANGED vars
<1>1. CASE Command
  BY <1>1, CommandOnlySubmits DEF vars
<1>2. CASE Environment
  BY <1>2 DEF Environment, Include, Forget, EmptyBlock, vars
<1>3. CASE UNCHANGED offvars
  BY <1>3 DEF offvars, vars
<1> QED
  BY <1>1, <1>2, <1>3 DEF OffNext

(* Of the steps off chain, inclusion alone changes the outputs.            *)
LEMMA OutputsChangeOffchain ==
  ASSUME [OffNext]_offvars
  PROVE  OutputsChange
BY ChainChanges DEF OutputsChange, Sign, Tick, vars

(* The strengthening of ChainProofs is inductive for the commands as well. *)
LEMMA OffNextPreservesIndInv ==
  ASSUME IndInv, [OffNext]_offvars
  PROVE  IndInv'
<1>1. CASE \E tx : Submit(tx)
  BY <1>1, SubmitPreservesIndInv
<1>2. CASE \E m \in Messages : Sign(m)
  BY <1>2, SignPreservesIndInv
<1>3. CASE \E t \in Times : Tick(t)
  BY <1>3, IdlePreservesIndInv DEF Tick
<1>4. CASE UNCHANGED vars
  BY <1>4, IdlePreservesIndInv DEF vars, IndInv, TypeOK
<1> QED
  BY <1>1, <1>2, <1>3, <1>4, ChainChanges

(* So it holds whatever the commands do, and in whatever order and how     *)
(* late blocks include what they have submitted.                           *)
THEOREM OffchainInvariance == OffSpec => []IndInv
<1>1. OffInit => IndInv
  BY InitEstablishesIndInv DEF OffInit
<1>2. IndInv /\ [OffNext]_offvars => IndInv'
  BY OffNextPreservesIndInv
<1> QED
  BY <1>1, <1>2, PTL DEF OffSpec

(* With the commands, too, responses are replaced by newer ones only.      *)
THEOREM OffchainNoRegress == OffSpec => ResponsesNeverRegress
<1>1. IndInv /\ IndInv' /\ [OffNext]_offvars => ResponsesKept
  BY OutputsChangeOffchain, NoRegressStep
<1> QED
  BY <1>1, OffchainInvariance, PTL DEF OffSpec, ResponsesNeverRegress, ResponsesKept

(* ... oracles of single-oracle pools stay ...                             *)
THEOREM OffchainNoRevocation == OffSpec => SingleOraclesStay
<1>1. IndInv /\ IndInv' /\ [OffNext]_offvars => OraclesKept
  BY OutputsChangeOffchain, NoRevocationStep
<1> QED
  BY <1>1, OffchainInvariance, PTL DEF OffSpec, SingleOraclesStay, OraclesKept

(* ... and a request leaves once it has expired or with its answer.        *)
THEOREM OffchainAnsweredOrExpired == OffSpec => RequestsLeaveForAReason
<1>1. IndInv /\ IndInv' /\ [OffNext]_offvars => RequestsLeave
  BY OutputsChangeOffchain, RequestsAnsweredOrExpiredStep
<1> QED
  BY <1>1, OffchainInvariance, PTL DEF OffSpec, RequestsLeaveForAReason, RequestsLeave

(* The commands at work on the chain implement the slots.                  *)
THEOREM OffchainRefinement == OffSpec => ImplementsResponseSlot
<1>1. OffInit => Slot!Init
  BY InitImplementsSlot DEF OffInit
<1>2. IndInv /\ IndInv' /\ [OffNext]_offvars => [Slot!Next]_Known
  BY OutputsChangeOffchain, SlotStep
<1> QED
  BY <1>1, <1>2, OffchainInvariance, PTL DEF OffSpec, Slot!Spec, ImplementsResponseSlot

-----------------------------------------------------------------------------

(* What pending transactions may put there.                                *)
Outs == UNION {tx.outs : tx \in pending}

AtScript(o) == o.addr.kind = "script"

(* Outputs at scripts' addresses bear the number "id" of the transaction,  *)
(* and at most one is at the responses' address.                           *)
Numbered(tx, id) ==
  /\ \A o \in tx.outs : AtScript(o) => o.ref[1] = id
  /\ \A o, p \in tx.outs : o.addr = ResponseAddr /\ p.addr = ResponseAddr => o = p

(* A command adds one transaction with the next number, or one that has    *)
(* nothing to do with scripts' outputs.                                    *)
OneMorePending ==
  \E tx : /\ pending' = pending \cup {tx}
          /\ \/ Numbered(tx, built) /\ built' = built + 1
             \/ (\A o \in tx.outs : ~AtScript(o)) /\ built' = built

(* A command that is counted has the number of its transaction.            *)
LEMMA BuildAddsOne ==
  ASSUME NEW tx, Build(tx), Numbered(tx, built)
  PROVE  OneMorePending
BY DEF Build, SubmitToNode, OneMorePending

(* A fulfilling transaction puts the response and the change there.        *)
LEMMA FulfillingNumbered ==
  ASSUME NEW view, NEW oracle, NEW u, NEW msg, NEW wallet, NEW change, NEW fee, NEW id,
         NEW slot
  PROVE  Numbered(FulfillingTx(view, slot, oracle, u, msg, wallet, change, fee, id), id)
<1> DEFINE publish == PublishTx(view, slot, oracle, msg, wallet, id)
<1> DEFINE response == ResponseOutput(PoolActionID(oracle.pool, msg.action), msg.item, id)
<1> DEFINE back == Output(<<id, 1>>, KeyAddr(u.datum.owner), change, NoTokens, NoDatum)
<1>1. FulfillingTx(view, slot, oracle, u, msg, wallet, change, fee, id).outs
        = {response, back}
  BY DEF FulfillingTx, PublishTx, Tx
<1>2. response.ref[1] = id
  BY DEF ResponseOutput, TokenOutput, Output
<1>3. ~AtScript(back) /\ back.addr # ResponseAddr
  BY DEF AtScript, Output, KeyAddr, ResponseAddr, ScriptAddr
<1> HIDE DEF publish, response, back
<1> QED
  BY <1>1, <1>2, <1>3 DEF Numbered

(* What is spent from the demo contract goes to a wallet.                  *)
LEMMA SpendingNumbered ==
  ASSUME NEW view, NEW slot, NEW time, NEW user, NEW id,
         NEW tx \in SpendTxs(view, slot, time, user, id)
  PROVE  Numbered(tx, id)
<1> DEFINE locked == {u \in view : u.addr = UserAddr}
<1> DEFINE paid == Output(<<id, 0>>, KeyAddr(user), CoinOf(locked), NoTokens, NoDatum)
<1>1. PICK r : tx = Tx(locked, {r}, {paid}, slot + StartOffset, slot + SpendTTL, {user}, 0)
  BY Zenon DEF SpendTxs
<1>2. paid.ref[1] = id
  BY DEF Output
<1> HIDE DEF paid
<1> QED
  BY <1>1, <1>2 DEF Numbered, Tx

(* Each command submits one transaction, of a number of its own.           *)
LEMMA CommandAddsOne ==
  ASSUME Command
  PROVE  OneMorePending
<1> USE DEF Output, Tx, PlainTx, KeyAddr, ScriptAddr, ResponseAddr, AtScript
<1>1. CASE \E oracle \in OraclesToAdd : AddSingleOracle(oracle)
  BY <1>1, BuildAddsOne
  DEF AddSingleOracle, AddSingleOracleTx, TokenOutput, Numbered
<1>2. CASE \E oracle \in OraclesToAdd, name \in PoolNames : AddPrivateOracle(oracle, name)
  BY <1>2, BuildAddsOne
  DEF AddPrivateOracle, AddPrivateOracleTx, TokenOutput, Numbered
<1>3. CASE \E u \in utxos : DeleteOracle(u)
  BY <1>3, BuildAddsOne DEF DeleteOracle, DeleteOracleTx, Numbered
<1>4. CASE \E msg \in Held : Relay(msg)
  BY <1>4, BuildAddsOne
  DEF Relay, PublishTx, ResponseOutput, TokenOutput, Numbered
<1>5. CASE \E owner \in Owners, kind \in RequestKinds : AddRequest(owner, kind)
  BY <1>5, BuildAddsOne
  DEF AddRequest, AddRequestTx, RequestOutput, Numbered
<1>6. CASE \E u \in StoredRequests(utxos), msg \in Held, fee \in Fees :
             Fulfill(u, msg, fee)
  <2>1. PICK view, slot, oracle, u, msg, wallet, change, fee :
          Build(FulfillingTx(view, slot, oracle, u, msg, wallet, change, fee, built))
    BY <1>6 DEF Fulfill, Fulfillment
  <2> QED
    BY <2>1, BuildAddsOne, FulfillingNumbered
<1>7. CASE \E u \in StoredRequests(utxos) : Recycle(u)
  BY <1>7, BuildAddsOne DEF Recycle, RecycleTx, Numbered
<1>8. CASE \E owner \in Owners : RecycleAll(owner)
  BY <1>8 DEF RecycleAll, RecycleAllTxs, SubmitToNode, OneMorePending
<1>9. CASE \E user \in DemoUsers, coin \in Deposits : Lock(user, coin)
  BY <1>9, BuildAddsOne DEF Lock, LockTx, UserAddr, Numbered
<1>10. CASE \E user \in DemoUsers : Spend(user)
  <2>1. PICK user \in DemoUsers :
          \E tx \in SpendTxs(utxos, tip, now, user, built) : Build(tx)
    BY <1>10 DEF Spend
  <2>2. PICK tx \in SpendTxs(utxos, tip, now, user, built) : Build(tx)
    BY <2>1
  <2> QED
    BY <2>2, BuildAddsOne, SpendingNumbered
<1> QED
  BY <1>1, <1>2, <1>3, <1>4, <1>5, <1>6, <1>7, <1>8, <1>9, <1>10 DEF Command
-----------------------------------------------------------------------------

(* That what the commands build passes the scripts, for commands that      *)
(* publish, take requests back or use a response.  The sums, intervals and *)
(* outputs that the Python programs reckon meet what the Haskell scripts   *)
(* reckon, whatever the chain looks like by then.                          *)

AllProper == \A o \in utxos \cup Outs : Proper(o)

(* The last block is not in the future.                                    *)
BlocksArePast == tip \in Times /\ tip <= now

CommandInv == IndInv /\ AllProper /\ BlocksArePast

-----------------------------------------------------------------------------

(* Outputs that are no oracle, no request and not locked, and outputs      *)
(* without tokens or without datum, are proper.                            *)
LEMMA ProperElsewhere ==
  ASSUME NEW o, o.addr \notin OracleAddrs, o.addr \notin {RequestAddr, UserAddr}
  PROVE  Proper(o)
BY DEF Proper

(* What has no datum is proper, with coin only where scripts guard it.     *)
LEMMA ProperWithoutDatum ==
  ASSUME NEW o, o.datum = NoDatum,
         o.addr \in {RequestAddr, UserAddr} => o.tokens = NoTokens
  PROVE  Proper(o)
<1>1. NoDatum \notin OracleDatum
  BY DEF OracleDatum, NoDatum
<1> QED
  BY <1>1 DEF Proper

(* So is an oracle with one token.                                         *)
LEMMA ProperOracle ==
  ASSUME NEW o, NEW oracle \in OraclesToAdd, NEW asset,
         o.datum = oracle, o.tokens = One(asset), o.addr \notin {RequestAddr, UserAddr}
  PROVE  Proper(o)
<1>1. asset \in DOMAIN o.tokens
  BY OneToken
<1> QED
  BY <1>1, DeploymentAssumption DEF Proper

(* ... and a request with coin only.                                       *)
LEMMA ProperRequest ==
  ASSUME NEW o, o.addr = RequestAddr, o.tokens = NoTokens
  PROVE  Proper(o)
BY DEF Proper, OracleAddrs, RequestAddr, SinglePoolAddr, ScriptAddr, KeyAddr

(* What a command adds is proper.                                          *)
AddsProper == \E tx : pending' = pending \cup {tx} /\ \A o \in tx.outs : Proper(o)

(* One more pending transaction.                                           *)
LEMMA BuildAddsProper ==
  ASSUME NEW tx, Build(tx), \A o \in tx.outs : Proper(o)
  PROVE  AddsProper
BY DEF Build, SubmitToNode, AddsProper

(* Responses are at an address of their own.                               *)
LEMMA ResponseProper ==
  ASSUME NEW p, NEW item, NEW id
  PROVE  Proper(ResponseOutput(p, item, id))
<1>1. ResponseOutput(p, item, id).addr = ResponseAddr
  BY DEF ResponseOutput, TokenOutput, Output
<1> QED
  BY <1>1, ProperElsewhere
  DEF OracleAddrs, RequestAddr, UserAddr, SinglePoolAddr, ResponseAddr, ScriptAddr, KeyAddr

(* Change goes to wallets.                                                 *)
LEMMA ChangeProper ==
  ASSUME NEW ref, NEW hash, NEW coin, NEW tokens
  PROVE  Proper(Output(ref, KeyAddr(hash), coin, tokens, NoDatum))
<1> DEFINE o == Output(ref, KeyAddr(hash), coin, tokens, NoDatum)
<1>1. o.addr = KeyAddr(hash) /\ o.datum = NoDatum
  BY DEF Output
<1>2. o.addr \notin {RequestAddr, UserAddr}
  BY <1>1 DEF RequestAddr, UserAddr, ScriptAddr, KeyAddr
<1> HIDE DEF o
<1>3. Proper(o)
  BY <1>1, <1>2, ProperWithoutDatum
<1> QED
  BY <1>3 DEF o

(* One case per command.                                                   *)
LEMMA CommandAddsProper ==
  ASSUME Command
  PROVE  AddsProper
<1>1. CASE \E oracle \in OraclesToAdd : AddSingleOracle(oracle)
  <2>1. PICK oracle \in OraclesToAdd :
          Build(AddSingleOracleTx(tip, oracle, Operator, built))
    BY <1>1 DEF AddSingleOracle
  <2>2. \A o \in AddSingleOracleTx(tip, oracle, Operator, built).outs :
          /\ o.addr = SinglePoolAddr /\ o.datum = oracle
          /\ o.tokens = One(SingleOracleAsset(oracle))
    BY DEF AddSingleOracleTx, Tx, TokenOutput, Output
  <2>3. SinglePoolAddr \notin {RequestAddr, UserAddr}
    BY DEF SinglePoolAddr, RequestAddr, UserAddr, ScriptAddr
  <2> QED
    BY <2>1, <2>2, <2>3, BuildAddsProper, ProperOracle
<1>2. CASE \E oracle \in OraclesToAdd, name \in PoolNames : AddPrivateOracle(oracle, name)
  <2>1. PICK oracle \in OraclesToAdd, name \in PoolNames :
          Build(AddPrivateOracleTx(oracle, name, Operator, OraclesWallet, built))
    BY <1>2 DEF AddPrivateOracle
  <2>2. \A o \in AddPrivateOracleTx(oracle, name, Operator, OraclesWallet, built).outs :
          /\ o.addr = KeyAddr(OraclesWallet) /\ o.datum = oracle
          /\ o.tokens = One(PrivateAsset(Operator, name))
    BY DEF AddPrivateOracleTx, PlainTx, Tx, TokenOutput, Output
  <2>3. KeyAddr(OraclesWallet) \notin {RequestAddr, UserAddr}
    BY DEF KeyAddr, RequestAddr, UserAddr, ScriptAddr
  <2> QED
    BY <2>1, <2>2, <2>3, BuildAddsProper, ProperOracle
<1>3. CASE \E u \in utxos : DeleteOracle(u)
  BY <1>3, BuildAddsProper DEF DeleteOracle, DeleteOracleTx, PlainTx, Tx
<1>4. CASE \E msg \in Held : Relay(msg)
  BY <1>4, BuildAddsProper, ResponseProper DEF Relay, PublishTx, Tx
<1>5. CASE \E owner \in Owners, kind \in RequestKinds : AddRequest(owner, kind)
  <2>1. PICK request, bytes : Build(AddRequestTx(request, bytes, built))
    BY <1>5 DEF AddRequest
  <2>2. \A o \in AddRequestTx(request, bytes, built).outs :
          o.addr = RequestAddr /\ o.tokens = NoTokens
    BY DEF AddRequestTx, PlainTx, Tx, RequestOutput, Output
  <2> QED
    BY <2>1, <2>2, BuildAddsProper, ProperRequest
<1>6. CASE \E u \in StoredRequests(utxos), msg \in Held, fee \in Fees :
             Fulfill(u, msg, fee)
  <2>1. PICK view, slot, oracle, u, msg, wallet, change, fee :
          Build(FulfillingTx(view, slot, oracle, u, msg, wallet, change, fee, built))
    BY <1>6 DEF Fulfill, Fulfillment
  <2>2. \A o \in FulfillingTx(view, slot, oracle, u, msg, wallet, change, fee, built).outs :
          \/ o = ResponseOutput(PoolActionID(oracle.pool, msg.action), msg.item, built)
          \/ o = Output(<<built, 1>>, KeyAddr(u.datum.owner), change, NoTokens, NoDatum)
    BY DEF FulfillingTx, PublishTx, Tx
  <2> QED
    BY <2>1, <2>2, BuildAddsProper, ResponseProper, ChangeProper
<1>7. CASE \E u \in StoredRequests(utxos) : Recycle(u)
  BY <1>7, BuildAddsProper, ChangeProper DEF Recycle, RecycleTx, Tx
<1>8. CASE \E owner \in Owners : RecycleAll(owner)
  BY <1>8, ChangeProper DEF RecycleAll, RecycleAllTxs, Tx, SubmitToNode, AddsProper
<1>9. CASE \E user \in DemoUsers, coin \in Deposits : Lock(user, coin)
  <2>1. PICK user, coin : Build(LockTx(coin, user, built))
    BY <1>9 DEF Lock
  <2>2. \A o \in LockTx(coin, user, built).outs :
          o.addr = UserAddr /\ o.datum = NoDatum /\ o.tokens = NoTokens
    BY DEF LockTx, PlainTx, Tx, Output
  <2> QED
    BY <2>1, <2>2, BuildAddsProper, ProperWithoutDatum
<1>10. CASE \E user \in DemoUsers : Spend(user)
  <2>0. PICK user \in DemoUsers :
          \E tx \in SpendTxs(utxos, tip, now, user, built) : Build(tx)
    BY <1>10 DEF Spend
  <2>1. PICK tx \in SpendTxs(utxos, tip, now, user, built) : Build(tx)
    BY <2>0
  <2>2. PICK r, coin, hi : tx = Tx({u \in utxos : u.addr = UserAddr}, {r},
                                  {Output(<<built, 0>>, KeyAddr(user), coin, NoTokens,
                                          NoDatum)},
                                  tip + StartOffset, hi, {user}, 0)
    BY <2>1, Zenon DEF SpendTxs
  <2> QED
    BY <2>1, <2>2, BuildAddsProper, ChangeProper DEF Tx
<1> QED
  BY <1>1, <1>2, <1>3, <1>4, <1>5, <1>6, <1>7, <1>8, <1>9, <1>10 DEF Command

(* The step of the induction.                                              *)
LEMMA NextPreservesCommandInv ==
  ASSUME CommandInv, [OffNext]_offvars
  PROVE  CommandInv'
<1>1. IndInv'
  BY OffNextPreservesIndInv DEF CommandInv
<1>2. now \in Times /\ now' \in Times /\ now <= now' /\ Times \subseteq Nat
  <2>1. now' = now \/ now' > now
    BY ChainChanges DEF Submit, Sign, Tick, vars
  <2> QED
    BY <1>1, <2>1, TimesAssumption DEF CommandInv, IndInv, TypeOK
<1>3. BlocksArePast'
  <2>1. tip' = tip \/ tip' = now
    BY CommandOnlySubmits
    DEF OffNext, Environment, Include, Forget, EmptyBlock, offvars
  <2> QED
    BY <1>2, <2>1 DEF CommandInv, BlocksArePast
<1>4. AllProper'
  <2>1. CASE Command
    <3>1. PICK tx : pending' = pending \cup {tx} /\ \A o \in tx.outs : Proper(o)
      BY <2>1, CommandAddsProper DEF AddsProper
    <3>2. utxos' = utxos
      BY <2>1, CommandOnlySubmits
    <3> QED
      BY <3>1, <3>2 DEF CommandInv, AllProper, Outs
  <2>2. CASE \E tx \in pending : Include(tx)
    <3>1. utxos' \cup Outs' \subseteq utxos \cup Outs
      BY <2>2 DEF Include, Submit, Outs
    <3> QED
      BY <3>1 DEF CommandInv, AllProper
  <2>3. CASE utxos' = utxos /\ pending' \subseteq pending
    <3>1. utxos' \cup Outs' \subseteq utxos \cup Outs
      BY <2>3 DEF Outs
    <3> QED
      BY <3>1 DEF CommandInv, AllProper
  <2> QED
    BY <2>1, <2>2, <2>3
    DEF OffNext, Environment, Forget, EmptyBlock, Sign, Tick, offvars
<1> QED
  BY <1>1, <1>3, <1>4 DEF CommandInv

(* There is nothing at first but what commands have put there.             *)
LEMMA InitEstablishesCommandInv ==
  ASSUME OffInit
  PROVE  CommandInv
<1>1. IndInv
  BY InitEstablishesIndInv DEF OffInit
<1>2. AllProper
  BY DeploymentAssumption DEF OffInit, Init, AllProper, Outs
<1>3. BlocksArePast
  BY TimesAssumption DEF OffInit, Init, BlocksArePast
<1> QED
  BY <1>1, <1>2, <1>3 DEF CommandInv

(* What commands find is what commands have put there.                     *)
THEOREM CommandsFindTheirOwn == OffSpec => []CommandInv
<1>1. OffInit => CommandInv
  BY InitEstablishesCommandInv
<1>2. CommandInv /\ [OffNext]_offvars => CommandInv'
  BY NextPreservesCommandInv
<1> QED
  BY <1>1, <1>2, PTL DEF OffSpec

-----------------------------------------------------------------------------

(* A transaction that has to do with no script but the responses'.         *)
LEMMA OnlyResponseScript ==
  ASSUME NEW tx, ResponseScriptAccepts(tx),
         \A u \in tx.ins : u.addr = ResponseAddr,
         \A a \in AssetsIn(tx.ins) \cup AssetsIn(tx.outs) : a.cs = "response"
  PROVE  ScriptsAccept(tx)
<1>1. /\ GuardedBy(SinglePoolAddr, tx) = {}
      /\ GuardedBy(RequestAddr, tx) = {}
      /\ GuardedBy(UserAddr, tx) = {}
  BY DEF GuardedBy, ResponseAddr, SinglePoolAddr, RequestAddr, UserAddr, ScriptAddr
<1>2. \A a \in Minted(tx) : a.cs = "response"
  BY DEF Minted
<1> QED
  BY <1>1, <1>2
  DEF ScriptsAccept, SinglePoolScriptAccepts, RequestScriptAccepts, UserScriptAccepts,
      PrivatePolicyAccepts, MintsOf

(* A transaction without tokens, of inputs at one address.                 *)
LEMMA NoTokensMinted ==
  ASSUME NEW tx, \A u \in tx.ins \cup tx.outs : u.tokens = NoTokens
  PROVE  Minted(tx) = {}
<1>1. DOMAIN NoTokens = {}
  BY DEF NoTokens
<1>2. AssetsIn(tx.ins) = {} /\ AssetsIn(tx.outs) = {}
  BY <1>1 DEF AssetsIn
<1> QED
  BY <1>2 DEF Minted

(* Recycling runs the request script and no other.                         *)
LEMMA OnlyRequestScript ==
  ASSUME NEW tx, \A u \in tx.ins \cup tx.outs : u.tokens = NoTokens,
         \A u \in tx.ins : u.addr = RequestAddr /\ RequestValidates(u, tx)
  PROVE  ScriptsAccept(tx)
<1>1. /\ GuardedBy(SinglePoolAddr, tx) = {}
      /\ GuardedBy(ResponseAddr, tx) = {}
      /\ GuardedBy(UserAddr, tx) = {}
  BY DEF GuardedBy, ResponseAddr, SinglePoolAddr, RequestAddr, UserAddr, ScriptAddr
<1> QED
  BY <1>1, NoTokensMinted
  DEF ScriptsAccept, ResponseScriptAccepts, SinglePoolScriptAccepts,
      RequestScriptAccepts, UserScriptAccepts, PrivatePolicyAccepts, MintsOf, GuardedBy

(* Spending runs the demo contract and no other.                           *)
LEMMA OnlyUserScript ==
  ASSUME NEW tx, \A u \in tx.ins \cup tx.outs : u.tokens = NoTokens,
         \A u \in tx.ins : u.addr = UserAddr, UserValidates(tx)
  PROVE  ScriptsAccept(tx)
<1>1. /\ GuardedBy(SinglePoolAddr, tx) = {}
      /\ GuardedBy(ResponseAddr, tx) = {}
      /\ GuardedBy(RequestAddr, tx) = {}
  BY DEF GuardedBy, ResponseAddr, SinglePoolAddr, RequestAddr, UserAddr, ScriptAddr
<1> QED
  BY <1>1, NoTokensMinted
  DEF ScriptsAccept, ResponseScriptAccepts, SinglePoolScriptAccepts,
      RequestScriptAccepts, UserScriptAccepts, PrivatePolicyAccepts, MintsOf

-----------------------------------------------------------------------------

(* The interval that "relay" chooses ends within the validity of what was  *)
(* signed since the last block.                                            *)
LEMMA IntervalEndsInTime ==
  ASSUME NEW oracle, oracle.period \in Nat, NEW slot \in Nat, NEW t \in Nat, slot <= t
  PROVE  /\ slot + TTLOffset(oracle) \in Int
         /\ slot + TTLOffset(oracle) <= t + oracle.period
<1> DEFINE nine == (9 * oracle.period) \div 10
<1>1. nine \in Int /\ nine <= oracle.period
  OBVIOUS
<1>2. TTLOffset(oracle) = Min({nine, 10000})
  BY DEF TTLOffset
<1> HIDE DEF nine
<1>3. TTLOffset(oracle) \in Int /\ TTLOffset(oracle) <= nine
  BY <1>1, <1>2, MinOfTwo
<1> QED
  BY <1>1, <1>3

(* The responses of a pool action, as the scripts keep them.               *)
LEMMA StoredTogether ==
  ASSUME CommandInv, NEW p, NEW v \in ByPoolActionID(utxos, p)
  PROVE  /\ v \in Responses /\ v.addr = ResponseAddr
         /\ v.tokens = One(ResponseAsset(p))
         /\ v.datum \in DataItem /\ v.datum.timestamp \in Nat
<1>1. v \in utxos /\ HasCurrency(v, "response") /\ ResponseAsset(p) \in DOMAIN v.tokens
  BY DEF ByPoolActionID, StoredResponses
<1>2. v \in Responses
  BY <1>1 DEF Responses
<1>3. /\ v.addr = ResponseAddr /\ v.datum \in DataItem
      /\ \E a : v.tokens = One(ResponseAsset(a.tn))
  BY <1>2 DEF CommandInv, IndInv, ResponseTokensAtHome
<1>4. v.tokens = One(ResponseAsset(p))
  BY <1>1, <1>3, OnlyToken
<1> QED
  BY <1>2, <1>3, <1>4 DEF DataItem

(* The outputs with the policy's tokens.                                   *)
WithResponse(S) == {v \in S : HasCurrency(v, "response")}

(* What "relay" and "fulfill" build with a fresh message passes the        *)
(* response script, whether it mints or replaces.                          *)
LEMMA FreshValidates ==
  ASSUME CommandInv, NEW msg \in signed,
         NEW oracle \in OraclesOf(utxos, OracleAddrs, msg.signer, Pools),
         NEW p, p = PoolActionID(oracle.pool, msg.action),
         msg.item.timestamp >= tip, Newer(msg, p),
         NEW tx, tx.refs = {oracle.utxo}, tx.hi = tip + TTLOffset(oracle.data),
         tx.signers = {msg.relayer}, NEW id,
         WithResponse(tx.outs) = {ResponseOutput(p, msg.item, id)},
         NEW S \in SUBSET ByPoolActionID(utxos, p)
  PROVE  ResponseValidates(msg, S, signed, tx)
<1> DEFINE o == ResponseOutput(p, msg.item, id)
<1> DEFINE u == oracle.utxo
<1>1. /\ o.addr = ResponseAddr /\ o.datum = msg.item
      /\ o.tokens = One(ResponseAsset(p))
  BY DEF ResponseOutput, TokenOutput, Output
<1>2. /\ u \in utxos /\ u.addr \in OracleAddrs
      /\ oracle.pool \in DOMAIN u.tokens
      /\ oracle.data = u.datum /\ u.datum \in OracleDatum
      /\ u.datum.pubKey = msg.signer
  BY DEF OraclesOf, RegisteredOracles
<1>3. u.tokens = One(oracle.pool) /\ u.datum.period \in Nat
  <2>1. Proper(u)
    BY <1>2 DEF CommandInv, AllProper
  <2>2. u.datum.period \in Nat /\ \E a \in DOMAIN u.tokens : u.tokens = One(a)
    BY <1>2, <2>1 DEF Proper
  <2> QED
    BY <1>2, <2>2, OnlyToken
<1>4. /\ msg.item \in DataItem /\ msg.item.timestamp \in Nat /\ tip \in Nat
  BY MessagesAssumption, TimesAssumption
  DEF CommandInv, BlocksArePast, IndInv, TypeOK, OracleMessage, DataItem
<1>5. VerifyOracleMessage(msg, u.datum, signed, tx)
  <2>1. /\ tip + TTLOffset(u.datum) \in Int
        /\ tip + TTLOffset(u.datum) <= msg.item.timestamp + u.datum.period
    BY <1>3, <1>4, IntervalEndsInTime
  <2>2. After(msg.item.timestamp + u.datum.period, tx)
    BY <1>2, <1>3, <1>4, <2>1 DEF After
  <2> QED
    BY <1>2, <2>2 DEF VerifyOracleMessage
<1>6. Oracles(tx) = {u} /\ oracle.pool \in FindPoolID(u) /\ oracle.pool \in AssetsIn(tx.refs)
  <2>1. oracle.pool \in FindPoolID(u)
    BY <1>2, <1>3 DEF FindPoolID
  <2>2. u.datum # NoDatum
    BY <1>2 DEF OracleDatum, NoDatum
  <2> QED
    BY <1>2, <2>1, <2>2 DEF Oracles, IsOracleOutput, AssetsIn
<1>7. StoresResponse(p, msg.item, tx)
  <2> HIDE DEF o
  <2>1. {v \in tx.outs : HasCurrency(v, "response")} = {o} /\ o \in tx.outs
    BY DEF o, WithResponse
  <2> QED
    BY <1>1, <2>1 DEF StoresResponse
<1>8. Supersedes(p, msg.item, S)
  <2> SUFFICES ASSUME NEW v \in S
               PROVE  /\ \A tn \in TokenNames(v, "response") : tn = p
                      /\ v.datum \in DataItem
                      /\ msg.item.timestamp > v.datum.timestamp
    BY DEF Supersedes
  <2>1. /\ v.tokens = One(ResponseAsset(p)) /\ v.datum \in DataItem
        /\ v.datum.timestamp \in Nat
    BY StoredTogether
  <2>2. ASSUME NEW tn \in TokenNames(v, "response") PROVE tn = p
    <3>1. PICK a \in DOMAIN v.tokens : a.tn = tn
      BY DEF TokenNames
    <3>2. a = ResponseAsset(p)
      BY <2>1, <3>1, OnlyToken
    <3> QED
      BY <3>1, <3>2 DEF ResponseAsset
  <2>3. msg.item.timestamp > v.datum.timestamp
    BY <1>4, <2>1 DEF Newer
  <2> QED
    BY <2>1, <2>2, <2>3
<1> HIDE DEF o, u
<1> QED
  BY <1>2, <1>5, <1>6, <1>7, <1>8 DEF ResponseValidates, u

(* What "relay" builds passes.                                             *)
LEMMA PublishingPasses ==
  ASSUME CommandInv, NEW msg \in signed,
         NEW oracle \in OraclesOf(utxos, OracleAddrs, msg.signer, Pools),
         msg.item.timestamp >= tip,
         Newer(msg, PoolActionID(oracle.pool, msg.action))
  PROVE  ScriptsAccept(PublishTx(utxos, tip, oracle, msg, msg.relayer, built))
<1> DEFINE tx == PublishTx(utxos, tip, oracle, msg, msg.relayer, built)
<1> DEFINE p == PoolActionID(oracle.pool, msg.action)
<1> DEFINE o == ResponseOutput(p, msg.item, built)
<1>1. /\ tx.ins = ByPoolActionID(utxos, p) /\ tx.refs = {oracle.utxo} /\ tx.outs = {o}
      /\ tx.hi = tip + TTLOffset(oracle.data) /\ tx.signers = {msg.relayer}
  BY DEF PublishTx, Tx
<1>2. o.tokens = One(ResponseAsset(p)) /\ HasCurrency(o, "response")
  <2>1. o.tokens = One(ResponseAsset(p))
    BY DEF ResponseOutput, TokenOutput, Output
  <2> HIDE DEF o, p
  <2> QED
    BY <2>1, ResponseCurrency
<1>3. \A v \in tx.ins : v.addr = ResponseAddr /\ v.tokens = One(ResponseAsset(p))
  BY <1>1, StoredTogether
<1> HIDE DEF tx, o
<1>4. WithResponse(tx.outs) = {o}
  BY <1>1, <1>2 DEF WithResponse
<1>5. \A S \in SUBSET tx.ins : ResponseValidates(msg, S, signed, tx)
  BY <1>1, <1>4, FreshValidates DEF o
<1>6. ResponseScriptAccepts(tx)
  <2>1. \A v \in GuardedBy(ResponseAddr, tx) : {v} \in SUBSET tx.ins
    BY DEF GuardedBy
  <2>2. {} \in SUBSET tx.ins
    OBVIOUS
  <2> QED
    BY <1>5, <2>1, <2>2 DEF ResponseScriptAccepts
<1>7. \A a \in AssetsIn(tx.ins) \cup AssetsIn(tx.outs) : a.cs = "response"
  <2>1. \A v \in tx.ins \cup tx.outs : v.tokens = One(ResponseAsset(p))
    BY <1>1, <1>2, <1>3
  <2>2. DOMAIN One(ResponseAsset(p)) = {ResponseAsset(p)} /\ ResponseAsset(p).cs = "response"
    BY OneToken DEF ResponseAsset
  <2> QED
    BY <2>1, <2>2 DEF AssetsIn
<1>8. ScriptsAccept(tx)
  BY <1>3, <1>6, <1>7, OnlyResponseScript
<1> QED
  BY <1>8 DEF tx

(* What a trust domain has signed since the last block can be published.   *)
THEOREM FreshResponsesAlwaysPass == OffSpec => []FreshResponsesPass
<1>1. CommandInv => FreshResponsesPass
  BY PublishingPasses DEF FreshResponsesPass
<1> QED
  BY <1>1, CommandsFindTheirOwn, PTL

-----------------------------------------------------------------------------

(* What holds no tokens has none of any asset.                             *)
LEMMA OutputWithoutTokens ==
  ASSUME NEW ref, NEW addr, NEW coin
  PROVE  Output(ref, addr, coin, NoTokens, NoDatum).tokens = NoTokens
BY DEF Output

(* Requests hold coin only.                                                *)
LEMMA RequestsHoldNoTokens ==
  ASSUME CommandInv, NEW u \in StoredRequests(utxos)
  PROVE  u \in utxos /\ u.addr = RequestAddr /\ u.tokens = NoTokens /\ u.datum \in Request
<1>1. u \in utxos /\ u.addr = RequestAddr /\ u.datum \in Request
  BY DEF StoredRequests
<1> QED
  BY <1>1 DEF CommandInv, AllProper, Proper

(* What "recycleall" builds passes, if the last block came after the time  *)
(* of all requests it takes.                                               *)
LEMMA RecyclingAllPasses ==
  ASSUME CommandInv, NEW owner,
         NEW tx \in RecycleAllTxs(utxos, tip, now, Limit, owner, ChangeOnly),
         \A u \in tx.ins : u.datum.before < tip
  PROVE  Evaluates(tx)
<1>1. PICK S \in SUBSET Expired(utxos, now, owner) :
        tx = Tx(S, {}, {Output(<<ChangeOnly, 0>>, KeyAddr(owner), CoinOf(S), NoTokens,
                               NoDatum)},
                tip, tip + EndOffset, {owner}, 0)
  BY DEF RecycleAllTxs, RecycleAllStart
<1>2. /\ tx.ins = S /\ tx.refs = {} /\ tx.lo = tip /\ tx.signers = {owner}
      /\ \A o \in tx.outs : o.tokens = NoTokens
  BY <1>1, OutputWithoutTokens DEF Tx
<1>3. \A u \in tx.ins : /\ u \in StoredRequests(utxos)
                        /\ u.datum.owner = owner
  BY <1>1, <1>2 DEF Expired
<1>4. \A u \in tx.ins : /\ u \in utxos /\ u.addr = RequestAddr
                        /\ u.tokens = NoTokens /\ u.datum \in Request
  BY <1>3, RequestsHoldNoTokens
<1>5. \A u \in tx.ins : RequestValidates(u, tx)
  BY <1>2, <1>3, <1>4 DEF RequestValidates, RequestExpired, Before
<1>6. ScriptsAccept(tx)
  BY <1>2, <1>4, <1>5, OnlyRequestScript
<1> QED
  BY <1>2, <1>4, <1>6 DEF Evaluates

(* What "recycle" builds passes a thousand slots later.                    *)
LEMMA RecyclingOnePasses ==
  ASSUME CommandInv, NEW u \in StoredRequests(utxos),
         u.datum.before < tip + StartOffset
  PROVE  Evaluates(RecycleTx(u, tip, u.datum.owner, built))
<1> DEFINE tx == RecycleTx(u, tip, u.datum.owner, built)
<1>1. /\ tx.ins = {u} /\ tx.refs = {} /\ tx.lo = tip + StartOffset
      /\ tx.signers = {u.datum.owner}
      /\ \A o \in tx.outs : o.tokens = u.tokens
  BY DEF RecycleTx, Tx, Output
<1>2. u \in utxos /\ u.addr = RequestAddr /\ u.tokens = NoTokens /\ u.datum \in Request
  BY RequestsHoldNoTokens
<1> HIDE DEF tx
<1>3. RequestValidates(u, tx)
  BY <1>1, <1>2 DEF RequestValidates, RequestExpired, Before
<1>4. ScriptsAccept(tx)
  BY <1>1, <1>2, <1>3, OnlyRequestScript
<1>5. Evaluates(tx)
  BY <1>1, <1>2, <1>4 DEF Evaluates
<1> QED
  BY <1>5 DEF tx

(* Requests that have expired as of the last block can be taken back.      *)
THEOREM RecyclingAlwaysPasses == OffSpec => []RecyclingPasses
<1>1. CommandInv => RecyclingPasses
  BY RecyclingAllPasses, RecyclingOnePasses DEF RecyclingPasses
<1> QED
  BY <1>1, CommandsFindTheirOwn, PTL

(* What "spend" builds passes the demo contract, if the news is good.      *)
LEMMA SpendPasses ==
  ASSUME CommandInv, NEW user, NEW tx \in SpendTxs(utxos, tip, now, user, built),
         \A r \in tx.refs : IsResponseGood(r.datum)
  PROVE  ScriptsAccept(tx)
<1> DEFINE locked == {u \in utxos : u.addr = UserAddr}
<1> DEFINE paid == Output(<<built, 0>>, KeyAddr(user), CoinOf(locked), NoTokens, NoDatum)
<1>1. PICK r \in Latest(utxos) :
        /\ now + SpendTTL <= r.datum.timestamp + UserValidityPeriod
        /\ tx = Tx(locked, {r}, {paid}, tip + StartOffset, tip + SpendTTL, {user}, 0)
  BY Zenon DEF SpendTxs
<1>2. paid.tokens = NoTokens
  BY OutputWithoutTokens
<1> HIDE DEF paid
<1>3. tx.ins = locked /\ tx.refs = {r} /\ tx.outs = {paid} /\ tx.hi = tip + SpendTTL
  BY <1>1 DEF Tx
<1>4. /\ r \in Responses /\ ResponseAsset(Wanted) \in DOMAIN r.tokens
      /\ r.datum \in DataItem /\ r.datum.error = 0
  BY DEF Latest, ByPoolActionID, StoredResponses, Responses
<1>5. Quantity(r, ResponseAsset(Wanted)) = 1
  <2>1. \E a : r.tokens = One(ResponseAsset(a.tn))
    BY <1>4 DEF CommandInv, IndInv, ResponseTokensAtHome
  <2>2. r.tokens = One(ResponseAsset(Wanted))
    BY <1>4, <2>1, OnlyToken
  <2> QED
    BY <2>2, OneToken DEF Quantity
<1>6. After(r.datum.timestamp + UserValidityPeriod, tx)
  <2>1. tip \in Nat /\ now \in Nat /\ tip <= now
    BY TimesAssumption DEF CommandInv, BlocksArePast, IndInv, TypeOK
  <2>2. r.datum.timestamp \in Nat
    BY <1>4 DEF DataItem
  <2>3. now + SpendTTL <= r.datum.timestamp + UserValidityPeriod
    BY <1>1
  <2>4. SpendTTL \in Int /\ UserValidityPeriod \in Int
    BY DEF SpendTTL, UserValidityPeriod
  <2>5. r.datum.timestamp + UserValidityPeriod >= tip + SpendTTL
    BY <2>1, <2>2, <2>3, <2>4
  <2> QED
    BY <1>3, <2>5 DEF After
<1>7. UserValidates(tx)
  BY <1>3, <1>4, <1>5, <1>6 DEF UserValidates
<1>8. \A u \in tx.ins : u.addr = UserAddr /\ u.tokens = NoTokens
  BY <1>3 DEF CommandInv, AllProper, Proper
<1> QED
  BY <1>2, <1>3, <1>7, <1>8, OnlyUserScript

(* Good news can always be used.                                           *)
THEOREM SpendingAlwaysPasses == OffSpec => []SpendingPasses
<1>1. CommandInv => SpendingPasses
  BY SpendPasses DEF SpendingPasses
<1> QED
  BY <1>1, CommandsFindTheirOwn, PTL

-----------------------------------------------------------------------------

(* The commands answer one request at a time, or take back what nothing    *)
(* answers, and so never come near what the request script lets through:   *)
(* one output as the change of several requests.                           *)

AnswersOne(tx) ==
  \/ \A o \in tx.outs : o.tokens = NoTokens
  \/ \A u, v \in GuardedBy(RequestAddr, tx) : u = v

PendingAnswerOne == \A tx \in pending : AnswersOne(tx)

(* Whoever's request is spent by a transaction of a command that a block   *)
(* may include is charged no more than its maximal cost.                   *)
CommandsChargeFairly ==
  \A tx \in pending :
    Accepted(tx) => \A owner \in Hashes : DueTo(owner, tx) <= PaidTo(owner, tx)

(* Only requests that are over are spent without an answer.                *)
LEMMA AnswersOneIsFair ==
  ASSUME IndInv, NEW tx, AnswersOne(tx), Accepted(tx), NEW owner
  PROVE  DueTo(owner, tx) <= PaidTo(owner, tx)
<1>1. CASE \A o \in tx.outs : o.tokens = NoTokens
  <2>1. DOMAIN NoTokens = {}
    BY DEF NoTokens
  <2>2. \A request : ValidResponses(request, tx) = {}
    BY <1>1, <2>1 DEF ValidResponses, Holding, Quantity
  <2>3. Open(owner, tx) = {}
    BY <2>2, OpenIsAnswered
  <2> QED
    BY <2>3, FairToOne
<1>2. CASE \A u, v \in GuardedBy(RequestAddr, tx) : u = v
  BY <1>2, FairToOne DEF Open
<1> QED
  BY <1>1, <1>2 DEF AnswersOne

(* One case per command.                                                   *)
LEMMA CommandAnswersOne ==
  ASSUME Command
  PROVE  \E tx : pending' = pending \cup {tx} /\ AnswersOne(tx)
<1>1. ASSUME NEW tx, Build(tx), AnswersOne(tx)
      PROVE  \E t : pending' = pending \cup {t} /\ AnswersOne(t)
  BY <1>1 DEF Build, SubmitToNode
<1>2. ASSUME NEW tx, \A v \in tx.ins : v.addr # RequestAddr
      PROVE  AnswersOne(tx)
  BY <1>2 DEF AnswersOne, GuardedBy
<1>3. ASSUME NEW tx, NEW u, \A v \in tx.ins : v = u \/ v.addr # RequestAddr
      PROVE  AnswersOne(tx)
  BY <1>3 DEF AnswersOne, GuardedBy
<1>4. /\ \A p : \A v \in ByPoolActionID(utxos, p) : v.addr # RequestAddr
      /\ UserAddr # RequestAddr /\ KeyAddr(OraclesWallet) # RequestAddr
  BY DEF ByPoolActionID, StoredResponses, ResponseAddr, RequestAddr, UserAddr, ScriptAddr,
         KeyAddr
<1>5. CASE \E oracle \in OraclesToAdd : AddSingleOracle(oracle)
  BY <1>1, <1>2, <1>5 DEF AddSingleOracle, AddSingleOracleTx, Tx
<1>6. CASE \E oracle \in OraclesToAdd, name \in PoolNames : AddPrivateOracle(oracle, name)
  BY <1>1, <1>2, <1>6 DEF AddPrivateOracle, AddPrivateOracleTx, PlainTx, Tx
<1>7. CASE \E u \in utxos : DeleteOracle(u)
  BY <1>1, <1>2, <1>4, <1>7 DEF DeleteOracle, DeleteOracleTx, PlainTx, Tx
<1>8. CASE \E msg \in Held : Relay(msg)
  BY <1>1, <1>2, <1>4, <1>8 DEF Relay, PublishTx, Tx
<1>9. CASE \E owner \in Owners, kind \in RequestKinds : AddRequest(owner, kind)
  BY <1>1, <1>2, <1>9 DEF AddRequest, AddRequestTx, PlainTx, Tx
<1>10. CASE \E u \in StoredRequests(utxos), msg \in Held, fee \in Fees :
              Fulfill(u, msg, fee)
  <2>1. PICK u \in StoredRequests(utxos) :
          \E slot, oracle, msg, wallet, change, fee :
            Build(FulfillingTx(utxos, slot, oracle, u, msg, wallet, change, fee, built))
    BY <1>10 DEF Fulfill, Fulfillment
  <2>2. PICK slot, oracle, msg, wallet, change, fee :
          Build(FulfillingTx(utxos, slot, oracle, u, msg, wallet, change, fee, built))
    BY <2>1
  <2> DEFINE tx == FulfillingTx(utxos, slot, oracle, u, msg, wallet, change, fee, built)
  <2>3. tx.ins = ByPoolActionID(utxos, PoolActionID(oracle.pool, msg.action)) \cup {u}
    BY DEF FulfillingTx, PublishTx, Tx
  <2> HIDE DEF tx
  <2>4. AnswersOne(tx)
    BY <1>3, <1>4, <2>3
  <2> QED
    BY <1>1, <2>2, <2>4 DEF tx
<1>11. CASE \E u \in StoredRequests(utxos) : Recycle(u)
  BY <1>1, <1>3, <1>11 DEF Recycle, RecycleTx, Tx
<1>12. CASE \E owner \in Owners : RecycleAll(owner)
  <2>1. PICK owner :
          \E tx \in RecycleAllTxs(utxos, tip, now, Limit, owner, ChangeOnly) :
            SubmitToNode(tx)
    BY <1>12 DEF RecycleAll
  <2>2. PICK tx \in RecycleAllTxs(utxos, tip, now, Limit, owner, ChangeOnly) :
          SubmitToNode(tx)
    BY <2>1
  <2>3. PICK coin : tx.outs = {Output(<<ChangeOnly, 0>>, KeyAddr(owner), coin, NoTokens,
                                      NoDatum)}
    BY DEF RecycleAllTxs, Tx
  <2>4. \A o \in tx.outs : o.tokens = NoTokens
    BY <2>3, OutputWithoutTokens
  <2> QED
    BY <2>2, <2>4 DEF SubmitToNode, AnswersOne
<1>13. CASE \E user \in DemoUsers, coin \in Deposits : Lock(user, coin)
  BY <1>1, <1>2, <1>13 DEF Lock, LockTx, PlainTx, Tx
<1>14. CASE \E user \in DemoUsers : Spend(user)
  <2>1. PICK user : \E tx \in SpendTxs(utxos, tip, now, user, built) : Build(tx)
    BY <1>14 DEF Spend
  <2>2. PICK tx \in SpendTxs(utxos, tip, now, user, built) : Build(tx)
    BY <2>1
  <2>3. PICK r, coin, hi : tx = Tx({v \in utxos : v.addr = UserAddr}, {r},
                                  {Output(<<built, 0>>, KeyAddr(user), coin, NoTokens,
                                          NoDatum)},
                                  tip + StartOffset, hi, {user}, 0)
    BY <2>2, Zenon DEF SpendTxs
  <2>4. tx.ins = {v \in utxos : v.addr = UserAddr}
    BY <2>3 DEF Tx
  <2> QED
    BY <1>1, <1>2, <1>4, <2>2, <2>4
<1> QED
  BY <1>5, <1>6, <1>7, <1>8, <1>9, <1>10, <1>11, <1>12, <1>13, <1>14 DEF Command

(* That a block may include several answers one after the other is all     *)
(* there is of several requests at once, with the programs as they are.    *)
THEOREM CommandsKeepTheirWord == OffSpec => []CommandsChargeFairly
<1>1. OffInit => PendingAnswerOne
  BY DEF OffInit, PendingAnswerOne
<1>2. PendingAnswerOne /\ [OffNext]_offvars => PendingAnswerOne'
  <2> SUFFICES ASSUME PendingAnswerOne, [OffNext]_offvars
               PROVE  PendingAnswerOne'
    OBVIOUS
  <2>1. CASE Command
    <3>1. PICK tx : pending' = pending \cup {tx} /\ AnswersOne(tx)
      BY <2>1, CommandAnswersOne
    <3> QED
      BY <3>1 DEF PendingAnswerOne
  <2>2. CASE Environment \/ UNCHANGED offvars
    <3>1. pending' \subseteq pending
      BY <2>2 DEF Environment, Include, Forget, EmptyBlock, Sign, Tick, offvars
    <3> QED
      BY <3>1 DEF PendingAnswerOne
  <2> QED
    BY <2>1, <2>2 DEF OffNext
<1>3. IndInv /\ PendingAnswerOne => CommandsChargeFairly
  BY AnswersOneIsFair DEF PendingAnswerOne, CommandsChargeFairly
<1> QED
  BY <1>1, <1>2, <1>3, OffchainInvariance, PTL DEF OffSpec

-----------------------------------------------------------------------------

(* The money.  A request has what any answer to it costs, or there is a    *)
(* response already that pays for its own storage.  Both stay so, as       *)
(* responses are only ever replaced, and therefore what fulfill_request    *)
(* submits without another evaluation passes.                              *)

(* There is a response to replace.                                         *)
HasResponse(u) == \E v \in Responses : v.tokens = One(ResponseAsset(u.datum.poolActionID))

(* Whoever posts a request that cannot be answered is on their own.        *)
Funded(o) ==
  /\ Answerable(o) => Posted(o) /\ (PaysForStorage(o) \/ HasResponse(o))
  /\ HasCurrency(o, "response") => o.coin >= CoinsPerByte * MinUTxOIntercept

AllFunded == \A o \in utxos \cup Outs : Funded(o)

AllAccepted == \A tx \in pending : ScriptsAccept(tx)

MoneyInv == CommandInv /\ AllFunded /\ AllAccepted

-----------------------------------------------------------------------------

(* An answer runs the request script, the response script and no other,    *)
(* whatever the wallet adds.                                               *)
LEMMA OnlyAnswerScripts ==
  ASSUME NEW tx, NEW S, NEW u, NEW p,
         \A v \in tx.ins : \/ v = u \/ v \in S
                           \/ v.addr.kind = "key" /\ v.tokens = NoTokens,
         u.addr = RequestAddr, u.tokens = NoTokens, RequestValidates(u, tx),
         \A v \in S : v.addr = ResponseAddr /\ v.tokens = One(ResponseAsset(p)),
         \A o \in tx.outs : o.tokens = NoTokens \/ o.tokens = One(ResponseAsset(p)),
         \A v \in S : \E m \in signed : ResponseValidates(m, {v}, signed, tx),
         \E m \in signed : ResponseValidates(m, {}, signed, tx)
  PROVE  ScriptsAccept(tx)
<1>1. /\ GuardedBy(SinglePoolAddr, tx) = {} /\ GuardedBy(UserAddr, tx) = {}
      /\ GuardedBy(RequestAddr, tx) \subseteq {u} /\ GuardedBy(ResponseAddr, tx) \subseteq S
  BY DEF GuardedBy, ResponseAddr, SinglePoolAddr, RequestAddr, UserAddr, ScriptAddr
<1>2. \A a \in Minted(tx) : a.cs = "response"
  <2>1. /\ DOMAIN NoTokens = {} /\ DOMAIN One(ResponseAsset(p)) = {ResponseAsset(p)}
        /\ ResponseAsset(p).cs = "response"
    BY OneToken DEF NoTokens, ResponseAsset
  <2>2. \A v \in tx.ins \cup tx.outs : v.tokens \in {NoTokens, One(ResponseAsset(p))}
    OBVIOUS
  <2>3. \A a \in AssetsIn(tx.ins) \cup AssetsIn(tx.outs) : a.cs = "response"
    BY <2>1, <2>2 DEF AssetsIn
  <2> QED
    BY <2>3 DEF Minted
<1> QED
  BY <1>1, <1>2
  DEF ScriptsAccept, ResponseScriptAccepts, SinglePoolScriptAccepts,
      RequestScriptAccepts, UserScriptAccepts, PrivatePolicyAccepts, MintsOf

(* A message and an oracle that "fulfill" finds for a request.             *)
Matches(u, msg, oracle) ==
  /\ u \in StoredRequests(utxos) /\ msg \in Messages
  /\ msg.action = u.datum.action /\ oracle.pool = u.datum.pool

(* The pool action of the answer.                                          *)
AnswerFor(oracle, msg) == PoolActionID(oracle.pool, msg.action)

(* The least change that an owner who pays in full is due.                 *)
ChangeDue(u, msg, oracle, fee) ==
  u.coin - Max({0, Cost(utxos, oracle, msg, u.datum.reward, fee)})

(* A transaction of "fulfill" that leaves this change.                     *)
IsAnswer(tx, u, msg, oracle, fee, change) ==
  tx = FulfillingTx(utxos, tip, oracle, u, msg, msg.relayer, change, fee, built)

(* What is token and what is none, for the scripts.                        *)
LEMMA ByTokens ==
  ASSUME NEW p
  PROVE  /\ \A v : v.tokens = One(ResponseAsset(p)) =>
                   HasCurrency(v, "response") /\ Quantity(v, ResponseAsset(p)) > 0
         /\ \A v : v.tokens = NoTokens =>
                   ~HasCurrency(v, "response") /\ ~(Quantity(v, ResponseAsset(p)) > 0)
<1>1. /\ DOMAIN One(ResponseAsset(p)) = {ResponseAsset(p)}
      /\ One(ResponseAsset(p))[ResponseAsset(p)] = 1
      /\ DOMAIN NoTokens = {}
  BY DEF One, NoTokens
<1>2. \A v : v.tokens = One(ResponseAsset(p)) =>
             HasCurrency(v, "response") /\ Quantity(v, ResponseAsset(p)) > 0
  BY <1>1, ResponseCurrency DEF Quantity
<1>3. \A v : v.tokens = NoTokens =>
             ~HasCurrency(v, "response") /\ ~(Quantity(v, ResponseAsset(p)) > 0)
  BY <1>1 DEF Quantity, HasCurrency
<1> QED
  BY <1>2, <1>3

(* The request and the responses that are replaced, for the scripts.       *)
LEMMA AnswerInputs ==
  ASSUME CommandInv, NEW u, NEW msg, NEW oracle, Matches(u, msg, oracle),
         NEW p, p = AnswerFor(oracle, msg)
  PROVE  /\ u.addr = RequestAddr /\ u.tokens = NoTokens /\ u.datum \in Request
         /\ Existing(utxos, oracle, msg) = ByPoolActionID(utxos, p)
         /\ u \notin Existing(utxos, oracle, msg)
         /\ Holding(Existing(utxos, oracle, msg) \cup {u}, ResponseAsset(p))
              = Existing(utxos, oracle, msg)
         /\ Answerable(u) <=> u.datum.poolActionID = p
<1> DEFINE S == Existing(utxos, oracle, msg)
<1>1. u.addr = RequestAddr /\ u.tokens = NoTokens /\ u.datum \in Request
  BY RequestsHoldNoTokens DEF Matches
<1>2. S = ByPoolActionID(utxos, p)
  BY DEF Existing, AnswerFor
<1>3. \A v \in S : v.tokens = One(ResponseAsset(p))
  BY <1>2, StoredTogether
<1>4. p = PoolActionID(u.datum.pool, u.datum.action)
  BY DEF Matches, AnswerFor
<1> HIDE DEF S
<1>5. u \notin S /\ Holding(S \cup {u}, ResponseAsset(p)) = S
  BY <1>1, <1>3, ByTokens DEF Holding
<1> QED
  BY <1>1, <1>2, <1>4, <1>5 DEF S, Answerable

(* The outputs of the transaction that fulfills it.                        *)
LEMMA AnswerOutputs ==
  ASSUME CommandInv, NEW u, NEW msg, NEW oracle, Matches(u, msg, oracle),
         NEW p, p = AnswerFor(oracle, msg),
         NEW change, NEW fee, NEW tx, IsAnswer(tx, u, msg, oracle, fee, change),
         NEW o, o = ResponseOutput(p, msg.item, built)
  PROVE  /\ tx.ins = Existing(utxos, oracle, msg) \cup {u} /\ tx.refs = {oracle.utxo}
         /\ tx.lo = tip + StartOffset /\ tx.hi = tip + TTLOffset(oracle.data)
         /\ tx.signers = {msg.relayer}
         /\ WithResponse(tx.outs) = {o}
         /\ o.datum = msg.item /\ msg.item \in DataItem
         /\ o.tokens = One(ResponseAsset(p)) /\ o \in tx.outs
         /\ Holding(tx.outs, ResponseAsset(p)) = {o}
         /\ \A v \in tx.outs : \/ v.tokens = NoTokens
                               \/ v.tokens = One(ResponseAsset(p))
         /\ tx.outs = {o, ChangeOutput(u, change, built)}
<1> DEFINE back == ChangeOutput(u, change, built)
<1>1. /\ tx.ins = Existing(utxos, oracle, msg) \cup {u} /\ tx.refs = {oracle.utxo}
      /\ tx.lo = tip + StartOffset /\ tx.hi = tip + TTLOffset(oracle.data)
      /\ tx.signers = {msg.relayer}
      /\ tx.outs = {NewResponse(oracle, msg, built), back}
  BY FulfillingParts DEF IsAnswer
<1>2. NewResponse(oracle, msg, built) = o
  BY DEF NewResponse, AnswerFor
<1>3. o.tokens = One(ResponseAsset(p)) /\ o.datum = msg.item /\ back.tokens = NoTokens
  BY DEF ResponseOutput, TokenOutput, Output, ChangeOutput
<1> HIDE DEF back
<1>4. tx.outs = {o, back}
  BY <1>1, <1>2
<1>5. /\ WithResponse(tx.outs) = {o}
      /\ Holding(tx.outs, ResponseAsset(p)) = {o}
      /\ \A v \in tx.outs : v.tokens = NoTokens \/ v.tokens = One(ResponseAsset(p))
  BY <1>3, <1>4, ByTokens DEF Holding, WithResponse
<1>6. msg.item \in DataItem
  BY MessagesAssumption DEF Matches, OracleMessage
<1> QED
  BY <1>1, <1>3, <1>4, <1>5, <1>6 DEF back

(* Whatever a request is answered with costs no more than its owner has    *)
(* put up for that.                                                        *)
LEMMA AnswerCost ==
  ASSUME AsPromised, CommandInv, AllFunded, NEW u, NEW msg, NEW oracle,
         Matches(u, msg, oracle), Answerable(u), NEW fee \in Fees,
         NEW reward \in Nat, reward <= u.datum.reward
  PROVE  /\ Cost(utxos, oracle, msg, reward, fee) \in Int
         /\ Cost(utxos, oracle, msg, reward, fee) <= u.datum.maxCost
         /\ fee \in Nat /\ Bytes(msg.item) \in 1 .. 255
         /\ IsFiniteSet(utxos) /\ \A v \in utxos : v.coin \in Nat
         /\ u.coin \in Nat /\ u.datum.maxCost \in Nat
         /\ u.coin >= MinCoin(ChangeBytes) + u.datum.maxCost
         /\ u.datum.reward \in Nat /\ u.datum.reward >= RelayerReward
         /\ u.datum.coinPerByte \in Nat /\ u.datum.coinPerByte >= CoinsPerByte
<1> DEFINE size == Bytes(msg.item)
<1> DEFINE p == u.datum.poolActionID
<1> DEFINE S == ByPoolActionID(utxos, p)
<1>1. /\ fee \in Nat /\ fee <= CardanoFeeBuffer /\ size \in 1 .. 255 /\ size \in Nat
      /\ CardanoFeeBuffer \in Nat /\ MinUTxOIntercept \in Nat
      /\ msg \in Messages
  BY DEF AsPromised, Matches, CardanoFeeBuffer, MinUTxOIntercept
<1>2. /\ IsFiniteSet(utxos) /\ \A v \in utxos : v.coin \in Nat
      /\ u \in utxos /\ u.datum.maxCost \in Nat
      /\ u.datum.reward \in Nat /\ u.datum.coinPerByte \in Nat
  <2>1. u \in utxos /\ u.addr = RequestAddr /\ u.datum \in Request
    BY RequestsHoldNoTokens DEF Matches
  <2> QED
    BY <2>1 DEF CommandInv, IndInv, TypeOK, Request
<1>3. Posted(u) /\ (PaysForStorage(u) \/ HasResponse(u))
  BY <1>2 DEF AllFunded, Funded
<1>4. S = Existing(utxos, oracle, msg)
  BY DEF Matches, Existing, Answerable
<1> DEFINE coin == CoinOf(S)
<1>5. coin \in Nat /\ \A v \in S : v.coin \in Nat /\ v.coin <= coin
  BY <1>2, <1>4, ExistingCoin
<1>6. HasResponse(u) => coin >= CoinsPerByte * MinUTxOIntercept
  <2> SUFFICES ASSUME NEW v \in Responses, v.tokens = One(ResponseAsset(p))
               PROVE  coin >= CoinsPerByte * MinUTxOIntercept
    BY DEF HasResponse
  <2>1. /\ v \in utxos /\ HasCurrency(v, "response")
        /\ v.addr = ResponseAddr /\ v.datum \in DataItem
    BY DEF Responses, CommandInv, IndInv, ResponseTokensAtHome
  <2>2. v \in S
    BY <2>1, OneToken DEF ByPoolActionID, StoredResponses
  <2>3. v.coin >= CoinsPerByte * MinUTxOIntercept
    BY <2>1 DEF AllFunded, Funded
  <2>4. CoinsPerByte * MinUTxOIntercept \in Int
    BY <1>1, CoinsAssumption
  <2> HIDE DEF coin, S
  <2> QED
    BY <1>5, <2>2, <2>3, <2>4
<1> HIDE DEF coin, size
<1>7. /\ u.datum.maxCost >= CardanoFeeBuffer + u.datum.reward + size * CoinsPerByte
      /\ PaysForStorage(u) =>
           u.datum.maxCost >= CardanoFeeBuffer + u.datum.reward + size * CoinsPerByte
                                + MinUTxOIntercept * CoinsPerByte
  BY <1>1, <1>3 DEF Posted, PaysForStorage, Sum, size
<1>8. reward + CoinsPerByte * (MinUTxOIntercept + size) - coin + fee <= u.datum.maxCost
  <2>1. CoinsPerByte \in Nat /\ CoinsPerByte <= CoinsPerByte /\ size \in 0 .. size
    BY <1>1, CoinsAssumption
  <2>2. /\ size * CoinsPerByte \in Nat /\ MinUTxOIntercept * CoinsPerByte \in Nat
    BY <1>1, <2>1, TimesGrows
  <2>3. /\ u.datum.maxCost >= CardanoFeeBuffer + reward + size * CoinsPerByte
        /\ PaysForStorage(u) =>
             u.datum.maxCost >= CardanoFeeBuffer + reward + size * CoinsPerByte
                                  + MinUTxOIntercept * CoinsPerByte
    BY <1>1, <1>2, <1>7, <2>2
  <2> QED
    BY <1>1, <1>2, <1>3, <1>5, <1>6, <2>1, <2>3, SumCovers
<1>9. /\ Cost(utxos, oracle, msg, reward, fee) \in Int
      /\ Cost(utxos, oracle, msg, reward, fee)
           = reward + CoinsPerByte * (MinUTxOIntercept + size) - coin + fee
  BY <1>1, <1>2, <1>4, CostOf DEF coin, size
<1> QED
  BY <1>1, <1>2, <1>3, <1>8, <1>9 DEF Posted, size

(* The two transactions that "fulfill" builds, by their change.            *)
LEMMA TwoTransactions ==
  ASSUME AsPromised, CommandInv, AllFunded, NEW u, NEW msg, NEW oracle,
         Matches(u, msg, oracle), Answerable(u), NEW fee \in Fees,
         NEW reward \in Nat, reward <= u.datum.reward,
         NEW f, f = Fulfillment(utxos, tip, oracle, u, msg, reward, msg.relayer, fee, built)
  PROVE  /\ f.outcome = "transaction"
         /\ \A tx \in {f.first, f.tx} : \E change \in Int :
              /\ IsAnswer(tx, u, msg, oracle, fee, change)
              /\ change >= ChangeDue(u, msg, oracle, fee)
<1> DEFINE S == Existing(utxos, oracle, msg)
<1> DEFINE size == Bytes(msg.item)
<1> DEFINE min == MinCost(S, size, reward)
<1> DEFINE first == FirstChange(u, S, size, reward)
<1> DEFINE second == SecondChange(u, S, size, reward, fee)
<1> DEFINE max == u.datum.maxCost
<1> DEFINE cost == Cost(utxos, oracle, msg, reward, fee)
<1> DEFINE full == Cost(utxos, oracle, msg, u.datum.reward, fee)
<1>1. /\ cost \in Int /\ cost <= max /\ fee \in Nat
      /\ size \in 1 .. 255 /\ u.coin \in Nat /\ max \in Nat
      /\ IsFiniteSet(utxos) /\ \A v \in utxos : v.coin \in Nat
      /\ u.coin >= MinCoin(ChangeBytes) + max
  BY AnswerCost
<1>2. u \notin S /\ size \in 0 .. 255
  <2>1. size \in 0 .. 255
    BY <1>1
  <2>2. u \notin S
    BY AnswerInputs
  <2> QED
    BY <2>1, <2>2
<1>3. f.outcome = "transaction"
  <2>1. CostIsCovered(utxos, oracle, u, msg, reward, fee)
    BY <1>1, <1>2 DEF CostIsCovered, Reckonable
  <2> HIDE DEF S, size, min, first, second, max, cost, full
  <2> QED
    BY <2>1, FulfillmentSucceeds
<1>4. /\ f.first = FulfillingTx(utxos, tip, oracle, u, msg, msg.relayer, first, fee, built)
      /\ f.tx = FulfillingTx(utxos, tip, oracle, u, msg, msg.relayer, second, fee, built)
  BY DEF Fulfillment, Existing
<1>5. /\ cost = min + fee
      /\ first = u.coin - Max({0, Min({max, min})})
      /\ second = u.coin - Max({0, cost})
  BY DEF Cost, FirstChange, SecondChange
<1> DEFINE paid == Max({0, Min({max, min})})
<1> DEFINE due == Max({0, cost})
<1>6. min \in Int
  <2>1. CoinOf(S) \in Nat
    BY <1>1, ExistingCoin
  <2>2. MinUTxOIntercept + size \in Int
    BY <1>1 DEF MinUTxOIntercept
  <2>3. CoinsPerByte * (MinUTxOIntercept + size) \in Int
    BY <2>2, Distributes
  <2> QED
    BY <1>1, <2>1, <2>3 DEF MinCost
<1> HIDE DEF min, max, first, second, size, S, cost
<1>7. min <= max /\ min <= cost
  BY <1>1, <1>5, <1>6
<1>8. Max({0, min}) <= Max({0, Min({max, cost})}) /\ Min({max, cost}) = cost
  <2>1. Max({0, min}) <= Max({0, Min({max, cost})})
    BY <1>1, <1>6, <1>7, CappedGrows
  <2>2. Min({max, cost}) \in {max, cost} /\ Min({max, cost}) <= max /\ Min({max, cost}) <= cost
    BY <1>1, MinOfTwo, max \in Int, Zenon
  <2>3. Min({max, cost}) = cost
    BY <1>1, <2>2
  <2> QED
    BY <2>1, <2>3
<1>9. Min({max, min}) = min
  <2>1. Min({max, min}) \in {max, min} /\ Min({max, min}) <= max /\ Min({max, min}) <= min
    BY <1>1, <1>6, MinOfTwo, max \in Int, Zenon
  <2> QED
    BY <1>1, <1>6, <1>7, <2>1
<1>10. paid <= due
  BY <1>8, <1>9
<1>11. paid \in Nat /\ due \in Nat
  BY <1>1, <1>6, Capped
<1>12. first = u.coin - paid /\ second = u.coin - due
  BY <1>5
<1> HIDE DEF paid, due
<1>13. first \in Int /\ second \in Int /\ first >= u.coin - due /\ second >= u.coin - due
  BY <1>1, <1>10, <1>11, <1>12
<1>14. due <= Max({0, full})
  <2>1. full \in Int /\ full <= max
    <3>1. u.datum.reward \in Nat /\ u.datum.reward <= u.datum.reward
      BY AnswerCost
    <3> QED
      BY <3>1, AnswerCost DEF full, max
  <2>2. cost <= full
    <3>1. u.datum.reward \in Nat
      BY AnswerCost
    <3>2. /\ cost = min + fee
          /\ full = MinCost(S, size, u.datum.reward) + fee
      BY <1>5 DEF full, Cost, S, size
    <3>3. MinCost(S, size, u.datum.reward) = min - reward + u.datum.reward
      <4>1. CoinOf(S) \in Nat
        BY <1>1, ExistingCoin DEF S
      <4>2. MinUTxOIntercept + size \in Int
        BY <1>1 DEF MinUTxOIntercept
      <4>3. CoinsPerByte * (MinUTxOIntercept + size) \in Int
        BY <4>2, Distributes
      <4> QED
        BY <3>1, <4>1, <4>3 DEF MinCost, min
    <3> QED
      BY <1>1, <1>6, <3>1, <3>2, <3>3
  <2> HIDE DEF full
  <2>3. max \in Nat
    BY <1>1 DEF max
  <2>4. Max({0, cost}) <= Max({0, Min({max, full})})
    BY <1>1, <1>7, <2>1, <2>2, <2>3, CappedGrows
  <2>5. Max({0, Min({max, full})}) = Max({0, full})
    BY <2>1, <2>3, Capped
  <2> QED
    BY <2>4, <2>5 DEF due
<1>15. Max({0, full}) \in Nat
  <2>1. full \in Int
    <3>1. u.datum.reward \in Nat /\ u.datum.reward <= u.datum.reward
      BY AnswerCost
    <3> QED
      BY <3>1, AnswerCost DEF full
  <2> HIDE DEF full
  <2>2. max \in Nat
    BY <1>1 DEF max
  <2> QED
    BY <2>1, <2>2, Capped
<1>16. ChangeDue(u, msg, oracle, fee) = u.coin - Max({0, full})
  BY DEF ChangeDue, full
<1> DEFINE all == Max({0, full})
<1> HIDE DEF full, all
<1>17. /\ first >= ChangeDue(u, msg, oracle, fee)
       /\ second >= ChangeDue(u, msg, oracle, fee)
  <2>1. due <= all /\ all \in Nat /\ ChangeDue(u, msg, oracle, fee) = u.coin - all
    BY <1>14, <1>15, <1>16 DEF all
  <2> QED
    BY <1>1, <1>11, <1>13, <2>1
<1>18. IsAnswer(f.first, u, msg, oracle, fee, first) /\ IsAnswer(f.tx, u, msg, oracle, fee, second)
  BY <1>4 DEF IsAnswer
<1> QED
  BY <1>3, <1>13, <1>17, <1>18

(* Either gives the owner the change the request script asks for.          *)
LEMMA ChangeAccepted ==
  ASSUME AsPromised, CommandInv, AllFunded, NEW u, NEW msg, NEW oracle,
         Matches(u, msg, oracle), Answerable(u), NEW fee \in Fees, NEW change \in Int,
         change >= ChangeDue(u, msg, oracle, fee),
         NEW tx, IsAnswer(tx, u, msg, oracle, fee, change)
  PROVE  ExistsChangeOutput(u, msg.item, tx)
<1> DEFINE p == AnswerFor(oracle, msg)
<1> DEFINE reward == u.datum.reward
<1>0. reward \in Nat /\ reward <= reward
  BY DEF Answerable, Request
<1>1. /\ Cost(utxos, oracle, msg, reward, fee) <= u.datum.maxCost
      /\ fee \in Nat /\ Bytes(msg.item) \in Nat
      /\ u.coin \in Nat /\ u.datum.maxCost \in Nat
      /\ IsFiniteSet(utxos) /\ \A v \in utxos : v.coin \in Nat
      /\ u.datum.coinPerByte \in Nat /\ u.datum.coinPerByte >= CoinsPerByte
  <2> HIDE DEF reward
  <2>1. reward <= u.datum.reward
    BY <1>0 DEF reward
  <2> QED
    BY <1>0, <2>1, AnswerCost
<1>2. /\ u.datum.poolActionID = p
      /\ Holding(Existing(utxos, oracle, msg) \cup {u}, ResponseAsset(p))
           = Existing(utxos, oracle, msg)
  BY AnswerInputs
<1>3. /\ u.datum.poolActionID = PoolActionID(oracle.pool, msg.action)
      /\ Holding(Existing(utxos, oracle, msg) \cup {u},
                 ResponseAsset(u.datum.poolActionID)) = Existing(utxos, oracle, msg)
  BY <1>2 DEF AnswerFor
<1>4. CoinsPerByte \in Nat /\ CoinsPerByte <= u.datum.coinPerByte
  BY <1>1, CoinsAssumption
<1> QED
  BY <1>0, <1>1, <1>3, <1>4, ScriptAgrees DEF IsAnswer, ChangeDue

(* A fresh answer in time passes, as evaluated and as submitted.           *)
LEMMA AnsweringPasses ==
  ASSUME AsPromised, CommandInv, AllFunded, NEW u, NEW msg \in signed,
         NEW oracle \in OraclesOf(utxos, OracleAddrs, msg.signer, {u.datum.pool}),
         Matches(u, msg, oracle), Answerable(u), NEW fee \in Fees, NEW change \in Int,
         change >= ChangeDue(u, msg, oracle, fee),
         NEW tx, IsAnswer(tx, u, msg, oracle, fee, change),
         msg.item.timestamp >= tip, Newer(msg, u.datum.poolActionID),
         u.datum.after <= msg.item.timestamp, msg.item.timestamp <= u.datum.before
  PROVE  ScriptsAccept(tx)
<1> DEFINE p == AnswerFor(oracle, msg)
<1> DEFINE S == ByPoolActionID(utxos, p)
<1> DEFINE o == ResponseOutput(p, msg.item, built)
<1>0. /\ u.addr = RequestAddr /\ u.tokens = NoTokens /\ u.datum \in Request
      /\ u.datum.poolActionID = p /\ S = Existing(utxos, oracle, msg)
      /\ p = PoolActionID(oracle.pool, msg.action)
  BY AnswerInputs DEF AnswerFor
<1>1. /\ tx.ins = S \cup {u} /\ tx.refs = {oracle.utxo}
      /\ tx.lo = tip + StartOffset /\ tx.hi = tip + TTLOffset(oracle.data)
      /\ tx.signers = {msg.relayer}
      /\ WithResponse(tx.outs) = {o}
      /\ o.datum = msg.item /\ msg.item \in DataItem
      /\ Holding(tx.outs, ResponseAsset(p)) = {o}
      /\ \A v \in tx.outs : v.tokens = NoTokens \/ v.tokens = One(ResponseAsset(p))
  <2>1. p = AnswerFor(oracle, msg) /\ o = ResponseOutput(p, msg.item, built)
    OBVIOUS
  <2>2. CommandInv /\ Matches(u, msg, oracle) /\ IsAnswer(tx, u, msg, oracle, fee, change)
    OBVIOUS
  <2> HIDE DEF o, p, S
  <2>3. /\ tx.ins = Existing(utxos, oracle, msg) \cup {u} /\ tx.refs = {oracle.utxo}
        /\ tx.lo = tip + StartOffset /\ tx.hi = tip + TTLOffset(oracle.data)
        /\ tx.signers = {msg.relayer}
        /\ WithResponse(tx.outs) = {o}
        /\ o.datum = msg.item /\ msg.item \in DataItem
        /\ Holding(tx.outs, ResponseAsset(p)) = {o}
        /\ \A v \in tx.outs : v.tokens = NoTokens \/ v.tokens = One(ResponseAsset(p))
    BY ONLY <2>1, <2>2, AnswerOutputs
  <2> QED
    BY <1>0, <2>3
<1>2. oracle \in OraclesOf(utxos, OracleAddrs, msg.signer, Pools)
  BY <1>0 DEF OraclesOf, Request
<1>3. \A T \in SUBSET S : ResponseValidates(msg, T, signed, tx)
  BY <1>0, <1>1, <1>2, FreshValidates
<1>4. \A v \in S : v.addr = ResponseAddr /\ v.tokens = One(ResponseAsset(p))
  BY StoredTogether
<1>5. RequestValidates(u, tx)
  <2>1. u.datum \in Request /\ u.datum.before \in Nat
    BY <1>0 DEF Request
  <2>2. ~RequestExpired(u.datum, tx)
    <3>1. tip \in Nat /\ msg.item.timestamp \in Nat
      BY <1>1, TimesAssumption DEF CommandInv, BlocksArePast, DataItem
    <3>2. ~(u.datum.before < tip + StartOffset)
      BY <2>1, <3>1 DEF StartOffset
    <3> QED
      BY <1>1, <3>2 DEF RequestExpired, Before
  <2>3. msg.item \in ValidResponses(u.datum, tx)
    <3> HIDE DEF o
    <3> QED
      BY <1>0, <1>1 DEF ValidResponses
  <2>4. ExistsChangeOutput(u, msg.item, tx)
    BY ChangeAccepted
  <2> QED
    BY <2>1, <2>2, <2>3, <2>4 DEF RequestValidates
<1> HIDE DEF o, S
<1>6. \A v \in S : \E m \in signed : ResponseValidates(m, {v}, signed, tx)
  BY <1>3
<1>7. \E m \in signed : ResponseValidates(m, {}, signed, tx)
  BY <1>3
<1> QED
  BY <1>0, <1>1, <1>4, <1>5, <1>6, <1>7, OnlyAnswerScripts

(* So both transactions that "fulfill" builds of it pass, whoever relays   *)
(* for no more than the request offers.                                    *)
LEMMA AnswersPass ==
  ASSUME AsPromised, CommandInv, AllFunded, NEW u \in StoredRequests(utxos),
         NEW msg \in signed, NEW fee \in Fees,
         NEW oracle \in OraclesOf(utxos, OracleAddrs, msg.signer, {u.datum.pool}),
         msg.action = u.datum.action, Answerable(u),
         msg.item.timestamp >= tip, Newer(msg, u.datum.poolActionID),
         u.datum.after <= msg.item.timestamp, msg.item.timestamp <= u.datum.before,
         NEW reward \in Nat, reward <= u.datum.reward,
         NEW f, f = Fulfillment(utxos, tip, oracle, u, msg, reward, msg.relayer, fee, built)
  PROVE  f.outcome = "transaction" /\ ScriptsAccept(f.first) /\ ScriptsAccept(f.tx)
<1>1. Matches(u, msg, oracle)
  <2>1. oracle.pool = u.datum.pool
    BY DEF OraclesOf
  <2>2. msg \in Messages
    BY DEF CommandInv, IndInv, TypeOK
  <2> QED
    BY <2>1, <2>2 DEF Matches
<1>2. /\ f.outcome = "transaction"
      /\ \A tx \in {f.first, f.tx} : \E change \in Int :
           /\ IsAnswer(tx, u, msg, oracle, fee, change)
           /\ change >= ChangeDue(u, msg, oracle, fee)
  BY <1>1, TwoTransactions
<1>3. \A tx \in {f.first, f.tx} : ScriptsAccept(tx)
  BY <1>1, <1>2, AnsweringPasses
<1> QED
  BY <1>2, <1>3

(* The conclusion for a state.                                             *)
LEMMA MoneyLetsAnswersPass ==
  ASSUME AsPromised, CommandInv, AllFunded
  PROVE  FreshAnswersPass
<1> DEFINE F(u, msg, fee, oracle) ==
             Fulfillment(utxos, tip, oracle, u, msg, RelayerReward, msg.relayer, fee, built)
<1> DEFINE Passes(u, msg, fee, oracle) ==
             /\ F(u, msg, fee, oracle).outcome = "transaction"
             /\ ScriptsAccept(F(u, msg, fee, oracle).first)
             /\ ScriptsAccept(F(u, msg, fee, oracle).tx)
<1> SUFFICES ASSUME NEW u \in StoredRequests(utxos), NEW msg \in signed, NEW fee \in Fees,
                    NEW oracle \in OraclesOf(utxos, OracleAddrs, msg.signer,
                                            {u.datum.pool}),
                    msg.action = u.datum.action,
                    u.datum.poolActionID = PoolActionID(u.datum.pool, u.datum.action),
                    msg.item.timestamp >= tip, Newer(msg, u.datum.poolActionID),
                    u.datum.after <= msg.item.timestamp,
                    msg.item.timestamp <= u.datum.before
             PROVE  Passes(u, msg, fee, oracle)
  <2> HIDE DEF F
  <2>1. FreshAnswersPass <=>
          \A u \in StoredRequests(utxos), msg \in signed, fee \in Fees :
            \A oracle \in OraclesOf(utxos, OracleAddrs, msg.signer, {u.datum.pool}) :
              /\ msg.action = u.datum.action
              /\ u.datum.poolActionID = PoolActionID(u.datum.pool, u.datum.action)
              /\ msg.item.timestamp >= tip
              /\ Newer(msg, u.datum.poolActionID)
              /\ u.datum.after <= msg.item.timestamp
              /\ msg.item.timestamp <= u.datum.before
              => Passes(u, msg, fee, oracle)
    BY Zenon DEF FreshAnswersPass, F
  <2> HIDE DEF Passes
  <2> QED
    BY <2>1
<1>1. Answerable(u) /\ u.datum.reward >= RelayerReward
  <2>1. Answerable(u) /\ u \in utxos
    BY DEF Answerable, StoredRequests
  <2> QED
    BY <2>1 DEF AllFunded, Funded, Posted
<1>2. RelayerReward \in Nat /\ u.datum.reward \in Nat /\ RelayerReward <= u.datum.reward
  BY <1>1 DEF RelayerReward, Answerable, Request
<1> QED
  BY <1>1, <1>2, AnswersPass

-----------------------------------------------------------------------------

(* That the money is there is kept by what commands submit, and so is that *)
(* scripts accept what is pending.                                         *)

(* What is no request and no response needs no coin.                       *)
LEMMA FundedElsewhere ==
  ASSUME NEW o, o.addr # RequestAddr, \A a \in DOMAIN o.tokens : a.cs # "response"
  PROVE  Funded(o)
BY DEF Funded, Answerable, HasCurrency

(* Coin that goes anywhere but to the request script.                      *)
LEMMA FundedCoin ==
  ASSUME NEW o, o.addr # RequestAddr, o.tokens = NoTokens
  PROVE  Funded(o)
<1>1. DOMAIN NoTokens = {}
  BY DEF NoTokens
<1> QED
  BY <1>1, FundedElsewhere

(* Change in wallets.                                                      *)
LEMMA FundedChange ==
  ASSUME NEW ref, NEW hash, NEW coin
  PROVE  Funded(Output(ref, KeyAddr(hash), coin, NoTokens, NoDatum))
<1> DEFINE o == Output(ref, KeyAddr(hash), coin, NoTokens, NoDatum)
<1>1. o.addr # RequestAddr /\ o.tokens = NoTokens
  BY DEF Output, KeyAddr, RequestAddr, ScriptAddr
<1> HIDE DEF o
<1>2. Funded(o)
  BY <1>1, FundedCoin
<1> QED
  BY <1>2 DEF o

(* A response pays for the storage of a response.                          *)
LEMMA FundedResponse ==
  ASSUME AsPromised, NEW msg \in Messages, NEW p, NEW id
  PROVE  Funded(ResponseOutput(p, msg.item, id))
<1> DEFINE o == ResponseOutput(p, msg.item, id)
<1> DEFINE size == Bytes(msg.item)
<1>1. o.addr # RequestAddr /\ o.coin = MinCoin(ResponseBytes(size))
  BY DEF ResponseOutput, TokenOutput, Output, ResponseAddr, RequestAddr, ScriptAddr
<1>2. size \in 1 .. 255
  BY DEF AsPromised
<1> HIDE DEF o, size
<1>3. MinCoin(ResponseBytes(size)) >= CoinsPerByte * MinUTxOIntercept
  <2>1. size \in 0 .. 255 /\ size >= 1
    BY <1>2
  <2> QED
    BY <2>1, ResponseCoin
<1>4. Funded(o)
  BY <1>1, <1>3 DEF Funded, Answerable
<1> QED
  BY <1>4 DEF o

(* A request needs one of two sums.                                        *)
LEMMA FundedByOne ==
  ASSUME NEW o, o.tokens = NoTokens, Posted(o), PaysForStorage(o) \/ HasResponse(o)
  PROVE  Funded(o)
<1>1. DOMAIN NoTokens = {}
  BY DEF NoTokens
<1> QED
  BY <1>1 DEF Funded, HasCurrency

(* What create_request reckons is enough for any answer there may be.      *)
LEMMA FundedRequest ==
  ASSUME AsPromised, CommandInv, NEW kind \in RequestKinds, NEW owner, NEW id,
         NEW request, request = NewRequest(utxos, kind.pool, kind.action, kind.size,
                                           now, kind.ttl, owner)
  PROVE  Funded(RequestOutput(request, kind.bytes, id))
<1> DEFINE o == RequestOutput(request, kind.bytes, id)
<1> DEFINE p == PoolActionID(kind.pool, kind.action)
<1> DEFINE storage == MinUTxOIntercept * CoinsPerByte
<1> DEFINE base == CardanoFeeBuffer + RelayerReward + kind.size * CoinsPerByte
<1> DEFINE least == MinCoin(ChangeBytes) + request.maxCost
<1>1. /\ o.datum = request /\ o.tokens = NoTokens
      /\ o.coin = Max({least, MinCoin(kind.bytes)})
  BY DEF RequestOutput, Output
<1>2. /\ request.poolActionID = p
      /\ p = PoolActionID(request.pool, request.action)
      /\ request.reward = RelayerReward /\ request.coinPerByte = CoinsPerByte
      /\ request.maxCost = MaxCost(ByPoolActionID(utxos, p), kind.size)
  BY DEF NewRequest
<1>3. /\ storage \in Nat /\ base \in Nat /\ CoinsPerByte \in Nat
      /\ CardanoFeeBuffer \in Nat /\ RelayerReward \in Nat
      /\ kind.size \in Nat /\ kind.bytes \in Nat /\ kind.size * CoinsPerByte \in Nat
  <2>1. CoinsPerByte \in Nat /\ kind.size \in Nat /\ kind.bytes \in Nat
    BY CoinsAssumption DEF AsPromised
  <2>2. MinUTxOIntercept \in Nat /\ CardanoFeeBuffer \in Nat /\ RelayerReward \in Nat
    BY DEF MinUTxOIntercept, CardanoFeeBuffer, RelayerReward
  <2>3. kind.size * CoinsPerByte \in Nat /\ storage \in Nat
    BY <2>1, <2>2, TimesGrows
  <2> QED
    BY <2>1, <2>2, <2>3
<1> HIDE DEF storage, base, o
<1>4. /\ request.maxCost \in Nat /\ request.maxCost >= base
      /\ ByPoolActionID(utxos, p) = {} => request.maxCost >= base + storage
  <2>1. request.maxCost = base + IF ByPoolActionID(utxos, p) = {} THEN storage ELSE 0
    BY <1>2 DEF MaxCost, base, storage
  <2> QED
    BY <1>3, <2>1
<1>5. ASSUME NEW m \in Messages PROVE Sum(o, m) \in Nat /\ Sum(o, m) <= base
  <2>1. Bytes(m.item) \in Nat /\ Bytes(m.item) <= kind.size
    BY DEF AsPromised
  <2>2. /\ Bytes(m.item) * CoinsPerByte \in Nat
        /\ Bytes(m.item) * CoinsPerByte <= kind.size * CoinsPerByte
    BY <1>3, <2>1, TimesGrows
  <2> QED
    BY <1>1, <1>2, <1>3, <2>2 DEF Sum, base
<1>6. o.coin >= least
  <2>1. least \in Int /\ MinCoin(kind.bytes) \in Int
    <3>1. MinCoin(ChangeBytes) \in Int /\ MinCoin(kind.bytes) \in Int
      BY <1>3, Distributes DEF MinCoin, ChangeBytes
    <3> QED
      BY <1>4, <3>1
  <2> HIDE DEF least
  <2>2. Max({least, MinCoin(kind.bytes)}) >= least
    BY <2>1, MaxOfTwo, Zenon
  <2> QED
    BY <1>1, <2>2
<1>7. Posted(o)
  <2>1. \A m \in Messages : request.maxCost >= Sum(o, m)
    BY <1>3, <1>4, <1>5
  <2>2. request.reward >= RelayerReward /\ request.coinPerByte >= CoinsPerByte
    BY <1>2, <1>3
  <2> QED
    BY <1>1, <1>6, <2>1, <2>2 DEF Posted
<1>8. ASSUME ByPoolActionID(utxos, p) = {} PROVE Funded(o)
  <2>1. \A m \in Messages : request.maxCost >= Sum(o, m) + storage
    BY <1>3, <1>4, <1>5, <1>8
  <2>2. PaysForStorage(o)
    BY <1>1, <2>1 DEF PaysForStorage, storage
  <2> QED
    BY <1>1, <1>7, <2>2, FundedByOne
<1>9. ASSUME ByPoolActionID(utxos, p) # {} PROVE Funded(o)
  <2>1. PICK v : v \in ByPoolActionID(utxos, p)
    BY <1>9
  <2>2. v \in Responses /\ v.tokens = One(ResponseAsset(p))
    BY <2>1, StoredTogether
  <2>3. HasResponse(o)
    BY <1>1, <1>2, <2>2 DEF HasResponse
  <2> QED
    BY <1>1, <1>7, <2>3, FundedByOne
<1> QED
  BY <1>8, <1>9 DEF o

(* Scripts that accept a transaction do so whatever is signed afterwards.  *)
LEMMA AcceptedForGood ==
  ASSUME NEW tx, ScriptsAccept(tx), signed \subseteq signed'
  PROVE  ScriptsAccept(tx)'
<1>1. \A m, S : ResponseValidates(m, S, signed, tx) => ResponseValidates(m, S, signed', tx)
  BY DEF ResponseValidates, VerifyOracleMessage
<1>2. ResponseScriptAccepts(tx) => ResponseScriptAccepts(tx)'
  BY <1>1 DEF ResponseScriptAccepts
<1> QED
  BY <1>2
  DEF ScriptsAccept, SinglePoolScriptAccepts, RequestScriptAccepts, UserScriptAccepts,
      PrivatePolicyAccepts

(* A transaction that spends nothing and moves no tokens runs no script.   *)
LEMMA NoScriptRuns ==
  ASSUME NEW tx, tx.ins = {}, \A o \in tx.outs : o.tokens = NoTokens
  PROVE  ScriptsAccept(tx)
BY OnlyRequestScript

(* Registering in a private pool takes the operator's signature only.      *)
LEMMA PrivatePoolPasses ==
  ASSUME NEW oracle, NEW name
  PROVE  ScriptsAccept(AddPrivateOracleTx(oracle, name, Operator, OraclesWallet, built))
<1> DEFINE tx == AddPrivateOracleTx(oracle, name, Operator, OraclesWallet, built)
<1> DEFINE asset == PrivateAsset(Operator, name)
<1>1. /\ tx.ins = {} /\ Operator \in tx.signers
      /\ \A o \in tx.outs : o.tokens = One(asset)
  BY DEF AddPrivateOracleTx, PlainTx, Tx, TokenOutput, Output
<1>2. asset.cs = "private" /\ asset.tn.owner = Operator
  BY DEF PrivateAsset
<1> HIDE DEF tx, asset
<1>3. Minted(tx) \subseteq {asset}
  <2>1. AssetsIn(tx.ins) \subseteq {asset} /\ AssetsIn(tx.outs) \subseteq {asset}
    BY <1>1, OneToken DEF AssetsIn
  <2> QED
    BY <2>1 DEF Minted
<1>4. \A addr : GuardedBy(addr, tx) = {}
  BY <1>1 DEF GuardedBy
<1>5. ScriptsAccept(tx)
  BY <1>1, <1>2, <1>3, <1>4
  DEF ScriptsAccept, ResponseScriptAccepts, SinglePoolScriptAccepts,
      RequestScriptAccepts, UserScriptAccepts, PrivatePolicyAccepts, MintsOf
<1> QED
  BY <1>5 DEF tx

(* All that the response script looks at.                                  *)
LEMMA SameForResponseScript ==
  ASSUME NEW m, NEW S, NEW first, NEW tx, ResponseValidates(m, S, signed, first),
         tx.refs = first.refs, tx.hi = first.hi, tx.signers = first.signers,
         WithResponse(tx.outs) = WithResponse(first.outs)
  PROVE  ResponseValidates(m, S, signed, tx) /\ ResponseValidates(m, {}, signed, tx)
<1>1. ASSUME NEW p, NEW item, StoresResponse(p, item, first)
      PROVE  StoresResponse(p, item, tx)
  <2>1. PICK o \in first.outs : /\ {v \in first.outs : HasCurrency(v, "response")} = {o}
                                /\ o.addr = ResponseAddr /\ o.datum = item
                                /\ o.tokens = One(ResponseAsset(p))
    BY <1>1 DEF StoresResponse
  <2>2. WithResponse(tx.outs) = {o}
    BY <2>1 DEF WithResponse
  <2>3. o \in tx.outs /\ {v \in tx.outs : HasCurrency(v, "response")} = {o}
    BY <2>2 DEF WithResponse
  <2> QED
    BY <2>1, <2>3 DEF StoresResponse
<1>2. \A msg, oracle : VerifyOracleMessage(msg, oracle, signed, first)
                         => VerifyOracleMessage(msg, oracle, signed, tx)
  BY DEF VerifyOracleMessage, After
<1>3. Oracles(tx) = Oracles(first)
  BY DEF Oracles
<1>4. \A p, item : Supersedes(p, item, {})
  BY DEF Supersedes
<1> QED
  BY <1>1, <1>2, <1>3, <1>4 DEF ResponseValidates

(* An answer that passes has run the policy, or the guard, which looks at  *)
(* the same and more.                                                      *)
LEMMA AnswerRunsPolicy ==
  ASSUME CommandInv, NEW u, NEW msg, NEW oracle, Matches(u, msg, oracle),
         NEW fee, NEW change,
         NEW tx, IsAnswer(tx, u, msg, oracle, fee, change), ScriptsAccept(tx)
  PROVE  \E m \in signed : ResponseValidates(m, {}, signed, tx)
<1> DEFINE p == AnswerFor(oracle, msg)
<1> DEFINE S == ByPoolActionID(utxos, p)
<1> DEFINE o == ResponseOutput(p, msg.item, built)
<1>1. u.tokens = NoTokens /\ S = Existing(utxos, oracle, msg)
  BY AnswerInputs
<1>2. p = AnswerFor(oracle, msg) /\ o = ResponseOutput(p, msg.item, built)
  OBVIOUS
<1> HIDE DEF o, p
<1>3. tx.ins = S \cup {u} /\ o \in tx.outs /\ o.tokens = One(ResponseAsset(p))
  BY <1>1, <1>2, AnswerOutputs
<1>4. \A v \in S : v.addr = ResponseAddr /\ v.tokens = One(ResponseAsset(p))
  BY StoredTogether
<1> HIDE DEF S
<1>5. CASE S # {}
  <2>1. PICK v \in S : TRUE
    BY <1>5
  <2>2. PICK m \in signed : ResponseValidates(m, {v}, signed, tx)
    BY <1>3, <1>4, <2>1 DEF ScriptsAccept, ResponseScriptAccepts, GuardedBy
  <2> QED
    BY <2>2, SameForResponseScript
<1>6. CASE S = {}
  <2>1. AssetsIn(tx.ins) = {}
    <3>1. DOMAIN NoTokens = {}
      BY DEF NoTokens
    <3> QED
      BY <1>1, <1>3, <1>6, <3>1 DEF AssetsIn
  <2>2. ResponseAsset(p) \in AssetsIn(tx.outs) /\ ResponseAsset(p).cs = "response"
    <3>1. ResponseAsset(p) \in DOMAIN o.tokens
      BY <1>3, OneToken
    <3> QED
      BY <1>3, <3>1 DEF AssetsIn, ResponseAsset
  <2>3. MintsOf("response", tx)
    BY <2>1, <2>2 DEF MintsOf, Minted
  <2> QED
    BY <2>3 DEF ScriptsAccept, ResponseScriptAccepts
<1> QED
  BY <1>5, <1>6

(* The second transaction of "fulfill" passes if the first does: they      *)
(* differ in the change, and the second one's is enough.                   *)
LEMMA SecondPassesToo ==
  ASSUME CommandInv, NEW u, NEW msg, NEW oracle, Matches(u, msg, oracle),
         NEW fee, NEW change, NEW change2,
         NEW first, IsAnswer(first, u, msg, oracle, fee, change), ScriptsAccept(first),
         NEW tx, IsAnswer(tx, u, msg, oracle, fee, change2),
         Answerable(u) => ExistsChangeOutput(u, msg.item, tx)
  PROVE  ScriptsAccept(tx)
<1> DEFINE p == AnswerFor(oracle, msg)
<1> DEFINE S == ByPoolActionID(utxos, p)
<1> DEFINE o == ResponseOutput(p, msg.item, built)
<1>0. /\ u.addr = RequestAddr /\ u.tokens = NoTokens /\ u.datum \in Request
      /\ S = Existing(utxos, oracle, msg)
      /\ Answerable(u) <=> u.datum.poolActionID = p
  BY AnswerInputs
<1>1. p = AnswerFor(oracle, msg) /\ o = ResponseOutput(p, msg.item, built)
  OBVIOUS
<1> HIDE DEF o, p
<1>2. /\ first.ins = S \cup {u} /\ first.refs = {oracle.utxo}
      /\ first.lo = tip + StartOffset /\ first.hi = tip + TTLOffset(oracle.data)
      /\ first.signers = {msg.relayer} /\ WithResponse(first.outs) = {o}
      /\ o.datum = msg.item /\ o \in first.outs /\ o.tokens = One(ResponseAsset(p))
      /\ \A v \in first.outs : v.tokens = NoTokens \/ v.tokens = One(ResponseAsset(p))
  BY <1>0, <1>1, AnswerOutputs
<1>3. /\ tx.ins = S \cup {u} /\ tx.refs = {oracle.utxo}
      /\ tx.lo = tip + StartOffset /\ tx.hi = tip + TTLOffset(oracle.data)
      /\ tx.signers = {msg.relayer} /\ WithResponse(tx.outs) = {o}
      /\ \A v \in tx.outs : v.tokens = NoTokens \/ v.tokens = One(ResponseAsset(p))
  BY <1>0, <1>1, AnswerOutputs
<1>4. \A v \in S : v.addr = ResponseAddr /\ v.tokens = One(ResponseAsset(p))
  BY StoredTogether
<1> HIDE DEF S
<1>5. \A m, R : ResponseValidates(m, R, signed, first) =>
                  ResponseValidates(m, R, signed, tx) /\ ResponseValidates(m, {}, signed, tx)
  BY <1>2, <1>3, SameForResponseScript
<1>6. \A v \in S : \E m \in signed : ResponseValidates(m, {v}, signed, first)
  BY <1>2, <1>4 DEF ScriptsAccept, ResponseScriptAccepts, GuardedBy
<1>7. \E m \in signed : ResponseValidates(m, {}, signed, first)
  BY AnswerRunsPolicy
<1>8. RequestValidates(u, tx)
  <2>1. RequestValidates(u, first) /\ u.datum # NoDatum
    <3>1. u.datum # NoDatum
      BY <1>0 DEF Request, NoDatum
    <3>2. u \in GuardedBy(RequestAddr, first)
      BY <1>0, <1>2 DEF GuardedBy
    <3> QED
      BY <3>1, <3>2 DEF ScriptsAccept, RequestScriptAccepts
  <2>2. RequestExpired(u.datum, tx) <=> RequestExpired(u.datum, first)
    BY <1>2, <1>3 DEF RequestExpired, Before
  <2>3. CASE RequestExpired(u.datum, first)
    BY <1>0, <1>2, <1>3, <2>1, <2>2, <2>3 DEF RequestValidates
  <2>4. CASE ~RequestExpired(u.datum, first)
    <3>1. PICK item : item \in ValidResponses(u.datum, first)
      BY <2>1, <2>4 DEF RequestValidates
    <3>2. PICK v \in first.outs : /\ Quantity(v, ResponseAsset(u.datum.poolActionID)) > 0
                                  /\ v.datum = item
      BY <3>1 DEF ValidResponses, Holding
    <3>3. u.datum.poolActionID = p /\ v = o
      <4>1. v.tokens = One(ResponseAsset(p))
        BY <1>2, <3>2, ByTokens
      <4>2. ResponseAsset(u.datum.poolActionID) \in DOMAIN v.tokens
        BY <3>2 DEF Quantity
      <4>3. ResponseAsset(u.datum.poolActionID) = ResponseAsset(p)
        BY <4>1, <4>2, OneToken
      <4>4. u.datum.poolActionID = p
        BY <4>3 DEF ResponseAsset
      <4>5. v \in WithResponse(first.outs)
        BY <3>2, <4>1, ByTokens DEF WithResponse
      <4> QED
        BY <1>2, <4>4, <4>5
    <3>4. item = msg.item /\ item \in ValidResponses(u.datum, tx)
      <4>1. /\ item \in DataItem /\ u.datum.after <= item.timestamp
            /\ item.timestamp <= u.datum.before
        BY <3>1 DEF ValidResponses
      <4>2. o \in tx.outs
        BY <1>3 DEF WithResponse
      <4>3. o \in Holding(tx.outs, ResponseAsset(u.datum.poolActionID))
        BY <3>2, <3>3, <4>2 DEF Holding
      <4> QED
        BY <1>2, <3>2, <3>3, <4>1, <4>3 DEF ValidResponses
    <3>5. ExistsChangeOutput(u, item, tx)
      BY <1>0, <3>3, <3>4
    <3> QED
      BY <1>0, <2>2, <2>4, <3>4, <3>5 DEF RequestValidates
  <2> QED
    BY <2>3, <2>4
<1> QED
  BY <1>0, <1>3, <1>4, <1>5, <1>6, <1>7, <1>8, OnlyAnswerScripts

(* What a command adds has its money and passes.                           *)
AddsSound ==
  \E tx : /\ pending' = pending \cup {tx}
          /\ \A o \in tx.outs : Funded(o)
          /\ ScriptsAccept(tx)

(* One more pending transaction.                                           *)
LEMMA BuildAddsSound ==
  ASSUME NEW tx, Build(tx), \A o \in tx.outs : Funded(o), ScriptsAccept(tx)
  PROVE  AddsSound
BY DEF Build, SubmitToNode, AddsSound

(* "fulfill", whose second transaction is submitted and the first has been *)
(* evaluated.                                                              *)
LEMMA FulfillAddsSound ==
  ASSUME AsPromised, CommandInv, AllFunded, NEW u \in StoredRequests(utxos),
         NEW msg \in Messages, NEW fee \in Fees, Fulfill(u, msg, fee)
  PROVE  AddsSound
<1> DEFINE F(oracle) == Fulfillment(utxos, tip, oracle, u, msg, RelayerReward,
                                    msg.relayer, fee, built)
<1>1. PICK oracle \in OraclesOf(utxos, OracleAddrs, msg.signer, {u.datum.pool}) :
        Evaluates(F(oracle).first) /\ Build(F(oracle).tx)
  BY DEF Fulfill
<1> DEFINE f == F(oracle)
<1>2. Matches(u, msg, oracle)
  <2>1. oracle.pool = u.datum.pool /\ msg.action = u.datum.action
    BY DEF OraclesOf, Fulfill
  <2> QED
    BY <2>1 DEF Matches
<1> DEFINE first == f.first
<1> DEFINE tx == f.tx
<1>3. ScriptsAccept(first) /\ Build(tx)
  BY <1>1 DEF Evaluates
<1>4. /\ \E change : IsAnswer(first, u, msg, oracle, fee, change)
      /\ \E change : IsAnswer(tx, u, msg, oracle, fee, change)
  BY DEF IsAnswer, Fulfillment
<1>5. f = Fulfillment(utxos, tip, oracle, u, msg, RelayerReward, msg.relayer, fee, built)
  OBVIOUS
<1> HIDE DEF F, f
<1>6. Answerable(u) => ExistsChangeOutput(u, msg.item, tx)
  <2> SUFFICES ASSUME Answerable(u) PROVE ExistsChangeOutput(u, msg.item, tx)
    OBVIOUS
  <2>1. RelayerReward \in Nat /\ RelayerReward <= u.datum.reward
    <3>1. u \in utxos
      BY DEF StoredRequests
    <3>2. Posted(u) /\ u.datum.reward \in Nat
      BY <3>1 DEF AllFunded, Funded, Answerable, Request
    <3> QED
      BY <3>2 DEF Posted, RelayerReward
  <2>2. \E change \in Int : /\ IsAnswer(tx, u, msg, oracle, fee, change)
                            /\ change >= ChangeDue(u, msg, oracle, fee)
    BY <1>2, <1>5, <2>1, TwoTransactions
  <2> HIDE DEF tx
  <2> QED
    BY <1>2, <2>2, ChangeAccepted
<1> HIDE DEF first, tx
<1>7. ScriptsAccept(tx)
  BY <1>2, <1>3, <1>4, <1>6, SecondPassesToo
<1>8. \A o \in tx.outs : Funded(o)
  <2>1. PICK change : IsAnswer(tx, u, msg, oracle, fee, change)
    BY <1>4
  <2>2. \A o \in tx.outs :
          \/ o = ResponseOutput(PoolActionID(oracle.pool, msg.action), msg.item, built)
          \/ o = Output(<<built, 1>>, KeyAddr(u.datum.owner), change, NoTokens, NoDatum)
    BY <2>1 DEF IsAnswer, FulfillingTx, PublishTx, Tx
  <2> QED
    BY <2>2, FundedResponse, FundedChange
<1> QED
  BY <1>3, <1>7, <1>8, BuildAddsSound

(* One case per command.                                                   *)
LEMMA CommandAddsSound ==
  ASSUME AsPromised, CommandInv, AllFunded, Command
  PROVE  AddsSound
<1>0. Held \subseteq Messages
  BY DEF Held, CommandInv, IndInv, TypeOK
<1>1. CASE \E oracle \in OraclesToAdd : AddSingleOracle(oracle)
  <2>1. PICK oracle \in OraclesToAdd :
          /\ Build(AddSingleOracleTx(tip, oracle, Operator, built))
          /\ ScriptsAccept(AddSingleOracleTx(tip, oracle, Operator, built))
    BY <1>1 DEF AddSingleOracle, Evaluates
  <2>2. \A o \in AddSingleOracleTx(tip, oracle, Operator, built).outs :
          o.addr = SinglePoolAddr /\ o.tokens = One(SingleOracleAsset(oracle))
    BY DEF AddSingleOracleTx, Tx, TokenOutput, Output
  <2>3. SinglePoolAddr # RequestAddr
    BY DEF SinglePoolAddr, RequestAddr, ScriptAddr
  <2>4. \A a \in DOMAIN One(SingleOracleAsset(oracle)) : a.cs # "response"
    <3>1. SingleOracleAsset(oracle).cs # "response"
      BY DEF SingleOracleAsset
    <3> QED
      BY <3>1, OnlyToken, Zenon
  <2> QED
    BY <2>1, <2>2, <2>3, <2>4, BuildAddsSound, FundedElsewhere
<1>2. CASE \E oracle \in OraclesToAdd, name \in PoolNames : AddPrivateOracle(oracle, name)
  <2>1. PICK oracle \in OraclesToAdd, name \in PoolNames :
          Build(AddPrivateOracleTx(oracle, name, Operator, OraclesWallet, built))
    BY <1>2 DEF AddPrivateOracle
  <2>2. \A o \in AddPrivateOracleTx(oracle, name, Operator, OraclesWallet, built).outs :
          o.addr = KeyAddr(OraclesWallet) /\ o.tokens = One(PrivateAsset(Operator, name))
    BY DEF AddPrivateOracleTx, PlainTx, Tx, TokenOutput, Output
  <2>3. KeyAddr(OraclesWallet) # RequestAddr
    BY DEF KeyAddr, RequestAddr, ScriptAddr
  <2>4. \A a \in DOMAIN One(PrivateAsset(Operator, name)) : a.cs # "response"
    <3>1. PrivateAsset(Operator, name).cs # "response"
      BY DEF PrivateAsset
    <3> QED
      BY <3>1, OnlyToken, Zenon
  <2> QED
    BY <2>1, <2>2, <2>3, <2>4, BuildAddsSound, FundedElsewhere, PrivatePoolPasses
<1>3. CASE \E u \in utxos : DeleteOracle(u)
  <2>1. PICK u : /\ Build(DeleteOracleTx(u, Operator, OraclesWallet))
                 /\ ScriptsAccept(DeleteOracleTx(u, Operator, OraclesWallet))
    BY <1>3 DEF DeleteOracle, Evaluates
  <2>2. DeleteOracleTx(u, Operator, OraclesWallet).outs = {}
    BY DEF DeleteOracleTx, PlainTx, Tx
  <2> QED
    BY <2>1, <2>2, BuildAddsSound
<1>4. CASE \E msg \in Held : Relay(msg)
  <2>1. PICK msg \in Messages :
          \E oracle : /\ Build(PublishTx(utxos, tip, oracle, msg, msg.relayer, built))
                      /\ ScriptsAccept(PublishTx(utxos, tip, oracle, msg, msg.relayer,
                                                 built))
    BY <1>0, <1>4 DEF Relay, Evaluates
  <2>2. PICK oracle : /\ Build(PublishTx(utxos, tip, oracle, msg, msg.relayer, built))
                      /\ ScriptsAccept(PublishTx(utxos, tip, oracle, msg, msg.relayer,
                                                 built))
    BY <2>1
  <2>3. \A o \in PublishTx(utxos, tip, oracle, msg, msg.relayer, built).outs :
          o = ResponseOutput(PoolActionID(oracle.pool, msg.action), msg.item, built)
    BY DEF PublishTx, Tx
  <2> QED
    BY <2>2, <2>3, BuildAddsSound, FundedResponse
<1>5. CASE \E owner \in Owners, kind \in RequestKinds : AddRequest(owner, kind)
  <2>1. PICK owner \in Owners, kind \in RequestKinds :
          Build(AddRequestTx(NewRequest(utxos, kind.pool, kind.action, kind.size, now,
                                        kind.ttl, owner),
                             kind.bytes, built))
    BY <1>5 DEF AddRequest
  <2> DEFINE request == NewRequest(utxos, kind.pool, kind.action, kind.size, now, kind.ttl,
                                   owner)
  <2> DEFINE tx == AddRequestTx(request, kind.bytes, built)
  <2>2. /\ tx.ins = {} /\ tx.outs = {RequestOutput(request, kind.bytes, built)}
        /\ \A o \in tx.outs : o.tokens = NoTokens
    BY DEF AddRequestTx, PlainTx, Tx, RequestOutput, Output
  <2>3. Build(tx)
    BY <2>1
  <2>4. Funded(RequestOutput(request, kind.bytes, built))
    BY FundedRequest
  <2> HIDE DEF tx, request
  <2> QED
    BY <2>2, <2>3, <2>4, NoScriptRuns, BuildAddsSound
<1>6. CASE \E u \in StoredRequests(utxos), msg \in Held, fee \in Fees :
             Fulfill(u, msg, fee)
  BY <1>0, <1>6, FulfillAddsSound
<1>7. CASE \E u \in StoredRequests(utxos) : Recycle(u)
  <2>1. PICK u \in StoredRequests(utxos) :
          /\ Build(RecycleTx(u, tip, u.datum.owner, built))
          /\ ScriptsAccept(RecycleTx(u, tip, u.datum.owner, built))
    BY <1>7 DEF Recycle, Evaluates
  <2>2. \A o \in RecycleTx(u, tip, u.datum.owner, built).outs :
          o = Output(<<built, 0>>, KeyAddr(u.datum.owner), u.coin, NoTokens, NoDatum)
    BY RequestsHoldNoTokens DEF RecycleTx, Tx
  <2> QED
    BY <2>1, <2>2, BuildAddsSound, FundedChange
<1>8. CASE \E owner \in Owners : RecycleAll(owner)
  <2>1. PICK owner :
          \E tx \in RecycleAllTxs(utxos, tip, now, Limit, owner, ChangeOnly) :
            Evaluates(tx) /\ SubmitToNode(tx)
    BY <1>8 DEF RecycleAll
  <2>2. PICK tx \in RecycleAllTxs(utxos, tip, now, Limit, owner, ChangeOnly) :
          Evaluates(tx) /\ SubmitToNode(tx)
    BY <2>1
  <2>3. PICK coin : tx.outs = {Output(<<ChangeOnly, 0>>, KeyAddr(owner), coin, NoTokens,
                                      NoDatum)}
    BY DEF RecycleAllTxs, Tx
  <2> QED
    BY <2>2, <2>3, FundedChange DEF SubmitToNode, Evaluates, AddsSound
<1>9. CASE \E user \in DemoUsers, coin \in Deposits : Lock(user, coin)
  <2>1. PICK user, coin : Build(LockTx(coin, user, built))
    BY <1>9 DEF Lock
  <2>2. /\ LockTx(coin, user, built).ins = {}
        /\ \A o \in LockTx(coin, user, built).outs :
             o.addr = UserAddr /\ o.tokens = NoTokens
    BY DEF LockTx, PlainTx, Tx, Output
  <2>3. UserAddr # RequestAddr
    BY DEF UserAddr, RequestAddr, ScriptAddr
  <2> QED
    BY <2>1, <2>2, <2>3, NoScriptRuns, FundedCoin, BuildAddsSound
<1>10. CASE \E user \in DemoUsers : Spend(user)
  <2>0. PICK user \in DemoUsers :
          \E tx \in SpendTxs(utxos, tip, now, user, built) : Evaluates(tx) /\ Build(tx)
    BY <1>10 DEF Spend
  <2>1. PICK tx \in SpendTxs(utxos, tip, now, user, built) : Evaluates(tx) /\ Build(tx)
    BY <2>0
  <2>2. PICK r, coin, hi : tx = Tx({u \in utxos : u.addr = UserAddr}, {r},
                                  {Output(<<built, 0>>, KeyAddr(user), coin, NoTokens,
                                          NoDatum)},
                                  tip + StartOffset, hi, {user}, 0)
    BY <2>1, Zenon DEF SpendTxs
  <2>3. tx.outs = {Output(<<built, 0>>, KeyAddr(user), coin, NoTokens, NoDatum)}
    BY <2>2 DEF Tx
  <2> QED
    BY <2>1, <2>3, BuildAddsSound, FundedChange DEF Evaluates
<1> QED
  BY <1>1, <1>2, <1>3, <1>4, <1>5, <1>6, <1>7, <1>8, <1>9, <1>10 DEF Command

(* What has its money keeps it.                                            *)
LEMMA FundedStays ==
  ASSUME CommandInv, CommandInv', OutputsChange, NEW o, Funded(o)
  PROVE  Funded(o)'
<1>1. ResponsesKept
  BY NoRegressStep DEF CommandInv
<1>2. HasResponse(o) => HasResponse(o)'
  BY <1>1 DEF HasResponse, ResponsesKept
<1> QED
  BY <1>2 DEF Funded, Answerable, Posted, PaysForStorage, Sum

(* The step of the induction, for each part of the invariant.              *)
LEMMA NextPreservesAllFunded ==
  ASSUME AsPromised, CommandInv, AllFunded, [OffNext]_offvars
  PROVE  AllFunded'
<1>1. ASSUME NEW o, Funded(o) PROVE Funded(o)'
  BY <1>1, NextPreservesCommandInv, OutputsChangeOffchain, FundedStays
<1>2. CASE Command
  <2>1. PICK tx : pending' = pending \cup {tx} /\ \A o \in tx.outs : Funded(o)
    BY <1>2, CommandAddsSound DEF AddsSound
  <2>2. utxos' = utxos
    BY <1>2, CommandOnlySubmits
  <2>3. \A o \in utxos' \cup Outs' : Funded(o)
    BY <2>1, <2>2 DEF AllFunded, Outs
  <2> QED
    BY <1>1, <2>3 DEF AllFunded
<1>3. CASE utxos' \cup Outs' \subseteq utxos \cup Outs
  BY <1>1, <1>3 DEF AllFunded
<1>4. CASE Environment \/ UNCHANGED offvars
  <2>1. utxos' \cup Outs' \subseteq utxos \cup Outs
    BY <1>4
    DEF Environment, Include, Forget, EmptyBlock, Submit, Sign, Tick, Outs, offvars
  <2> QED
    BY <1>3, <2>1
<1> QED
  BY <1>2, <1>4 DEF OffNext

(* What scripts accept stays accepted, and no other is added.              *)
LEMMA NextPreservesMoneyInv ==
  ASSUME AsPromised, MoneyInv, [OffNext]_offvars
  PROVE  MoneyInv'
<1>1. CommandInv' /\ AllFunded'
  BY NextPreservesCommandInv, NextPreservesAllFunded DEF MoneyInv
<1>2. ASSUME NEW tx, ScriptsAccept(tx) PROVE ScriptsAccept(tx)'
  <2>1. signed \subseteq signed'
    BY ChainChanges DEF Submit, Sign, Tick, vars
  <2> QED
    BY <1>2, <2>1, AcceptedForGood
<1>3. CASE Command
  <2>1. PICK tx : pending' = pending \cup {tx} /\ ScriptsAccept(tx)
    BY <1>3, CommandAddsSound DEF AddsSound, MoneyInv
  <2>2. \A t \in pending' : ScriptsAccept(t)
    BY <2>1 DEF MoneyInv, AllAccepted
  <2> QED
    BY <1>1, <1>2, <2>2 DEF MoneyInv, AllAccepted
<1>4. CASE pending' \subseteq pending
  BY <1>1, <1>2, <1>4 DEF MoneyInv, AllAccepted
<1>5. CASE Environment \/ UNCHANGED offvars
  <2>1. pending' \subseteq pending
    BY <1>5 DEF Environment, Include, Forget, EmptyBlock, Sign, Tick, offvars
  <2> QED
    BY <1>4, <2>1
<1> QED
  BY <1>3, <1>5 DEF OffNext

(* At first there is no response and every request pays for its storage.   *)
LEMMA InitEstablishesMoneyInv ==
  ASSUME AsPromised, OffInit
  PROVE  MoneyInv
<1>1. CommandInv
  BY InitEstablishesCommandInv
<1>2. utxos = Genesis /\ Outs = {} /\ pending = {}
  BY DEF OffInit, Init, Outs
<1>3. \A u \in Genesis : ~HasCurrency(u, "response")
  BY GenesisAssumption
<1>4. AllFunded
  BY <1>2, <1>3 DEF AllFunded, Funded, AsPromised
<1> QED
  BY <1>1, <1>2, <1>4 DEF MoneyInv, AllAccepted

(* The money is always there.                                              *)
THEOREM MoneyIsThere ==
  ASSUME AsPromised
  PROVE  OffSpec => []MoneyInv
<1>1. OffInit => MoneyInv
  BY InitEstablishesMoneyInv
<1>2. MoneyInv /\ [OffNext]_offvars => MoneyInv'
  BY NextPreservesMoneyInv
<1> QED
  BY <1>1, <1>2, PTL DEF OffSpec

(* A request can be answered within its time, with both transactions of    *)
(* fulfill_request, whatever has happened since it was created: other      *)
(* responses, other requests answered, its own answer on the way.          *)
THEOREM FreshAnswersAlwaysPass ==
  ASSUME AsPromised
  PROVE  OffSpec => []FreshAnswersPass
<1>1. MoneyInv => FreshAnswersPass
  BY MoneyLetsAnswersPass DEF MoneyInv
<1> QED
  BY <1>1, MoneyIsThere, PTL

(* Nobody's collateral is lost with what the commands submit, although the *)
(* transaction of "fulfill" that is submitted has not been evaluated.      *)
THEOREM CollateralIsSafe ==
  ASSUME AsPromised
  PROVE  OffSpec => []SubmittedKeepCollateral
<1>1. MoneyInv => SubmittedKeepCollateral
  BY DEF MoneyInv, AllAccepted, SubmittedKeepCollateral
<1> QED
  BY <1>1, MoneyIsThere, PTL
=============================================================================
