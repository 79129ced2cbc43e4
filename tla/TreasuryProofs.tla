--------------------------- MODULE TreasuryProofs ---------------------------
(***************************************************************************)
(* No script is twice in the library, in whatever order blocks include     *)
(* what the operator submits: "addall" adds what is missing by then, and   *)
(* nobody else adds scripts until it is included or forgotten.             *)
(***************************************************************************)
EXTENDS Treasury, OffchainProofs

Stored(o) == o.addr = KeyAddr(Library) /\ o.datum \in ScriptRef

(* Scripts that are there or pending are there, or pending, once, and all  *)
(* that are pending are of one transaction of the operator's.              *)
ScriptsInv ==
  /\ \A u, v \in utxos : Stored(u) /\ Stored(v) /\ u.datum = v.datum => u = v
  /\ \A u \in utxos, o \in Outs : Stored(u) /\ Stored(o) => u.datum # o.datum
  /\ \A t, x \in pending : \A o \in t.outs, p \in x.outs :
       Stored(o) /\ Stored(p) => t = x /\ (o.datum = p.datum => o = p)
  /\ \A t \in pending : \A o \in t.outs : Stored(o) => Operator \in t.signers

AddsNoScript(tx) == \A o \in tx.outs : ~Stored(o)

-----------------------------------------------------------------------------

(* Outputs that are no scripts of the library.                             *)
LEMMA NotStored ==
  ASSUME NEW o, o.datum = NoDatum \/ o.addr \in {RequestAddr, ResponseAddr}
  PROVE  ~Stored(o)
<1>1. NoDatum \notin ScriptRef
  BY DEF NoDatum, ScriptRef
<1>2. KeyAddr(Library) \notin {RequestAddr, ResponseAddr}
  BY DEF KeyAddr, RequestAddr, ResponseAddr, ScriptAddr
<1> QED
  BY <1>1, <1>2 DEF Stored

(* Neither balancing nor merging the change adds any.                      *)
LEMMA BalancedOuts ==
  ASSUME NEW view, NEW wallet, NEW id,
         NEW tx, "outs" \in DOMAIN tx, "signers" \in DOMAIN tx,
         NEW b \in Balanced(view, wallet, tx, id)
  PROVE  /\ \A o \in b.outs : o \in tx.outs \/ o.datum = NoDatum
         /\ b.signers = tx.signers
<1>1. PICK P, coin :
        b = [tx EXCEPT
               !.ins  = @ \cup P,
               !.outs = @ \cup {Output(<<id, 2>>, KeyAddr(wallet), coin, NoTokens,
                                       NoDatum)}]
  BY DEF Balanced
<1>2. /\ b.outs = tx.outs \cup {Output(<<id, 2>>, KeyAddr(wallet), coin, NoTokens, NoDatum)}
      /\ b.signers = tx.signers
  BY <1>1
<1>3. Output(<<id, 2>>, KeyAddr(wallet), coin, NoTokens, NoDatum).datum = NoDatum
  BY DEF Output
<1> QED
  BY <1>2, <1>3

(* The change a wallet adds is no script.                                  *)
LEMMA BalancedAddsNoScript ==
  ASSUME NEW view, NEW wallet, NEW id,
         NEW tx, "outs" \in DOMAIN tx, "signers" \in DOMAIN tx,
         AddsNoScript(tx), NEW b \in Balanced(view, wallet, tx, id)
  PROVE  AddsNoScript(b)
BY BalancedOuts, NotStored DEF AddsNoScript

(* What is merged is change only.                                          *)
LEMMA MergedAddsNoScript ==
  ASSUME NEW view, NEW wallet, NEW id, NEW tx, "outs" \in DOMAIN tx,
         \A o \in tx.outs : "datum" \in DOMAIN o /\ o.datum = NoDatum,
         NEW b \in Merged(view, wallet, tx, id)
  PROVE  AddsNoScript(b)
<1> DEFINE new(o, P) == IF o.addr = KeyAddr(wallet)
                        THEN o.coin + CoinOf(P) + RelayerGain(tx) ELSE o.coin
           outs(P) == {[o EXCEPT !.coin = new(o, P)] : o \in tx.outs}
<1>1. PICK P : b = [tx EXCEPT !.ins = tx.ins \cup P, !.outs = outs(P)]
  BY DEF Merged
<1> HIDE DEF new
<1>2. b.outs = outs(P)
  <2> HIDE DEF outs
  <2> QED
    BY <1>1
<1>3. \A q \in b.outs : q.datum = NoDatum
  BY <1>2
<1> QED
  BY <1>3, NotStored DEF AddsNoScript

-----------------------------------------------------------------------------

(* A transaction that adds no script disturbs nothing.                     *)
LEMMA OtherTxPending ==
  ASSUME ScriptsInv, NEW tx, AddsNoScript(tx), SubmitToNode(tx)
  PROVE  ScriptsInv'
<1>1. utxos' = utxos /\ pending' = pending \cup {tx} /\ Outs' = Outs \cup tx.outs
  BY DEF SubmitToNode, Outs
<1> QED
  BY <1>1 DEF ScriptsInv, AddsNoScript, Stored

(* "addall" adds each script once, with none pending and those there left  *)
(* out.                                                                    *)
LEMMA AddAllPending ==
  ASSUME ScriptsInv, AddAll
  PROVE  ScriptsInv'
<1> DEFINE add == AddScriptsTx(utxos, Operator, Library, ScriptBytes, Fee, built)
<1>1. PICK tx \in Balanced(utxos, Operator, add, built) : SubmitToNode(tx)
  BY DEF AddAll, BuildOne, Build
<1>2. utxos' = utxos /\ pending' = pending \cup {tx} /\ Outs' = Outs \cup tx.outs
  BY <1>1 DEF SubmitToNode, Outs
<1>3. /\ \A o \in tx.outs : o \in add.outs \/ o.datum = NoDatum
      /\ tx.signers = {Operator}
  <2>1. "outs" \in DOMAIN add /\ "signers" \in DOMAIN add /\ add.signers = {Operator}
    BY DEF AddScriptsTx, Tx
  <2> HIDE DEF add
  <2> QED
    BY <1>1, <2>1, BalancedOuts
<1>4. \A o \in add.outs : \E s \in Missing(utxos, Library) :
        o = Output(<<built, Place[s]>>, KeyAddr(Library), MinCoin(ScriptBytes), NoTokens,
                   [script |-> s])
  BY DEF AddScriptsTx, Tx
<1>5. \A o \in tx.outs : Stored(o) =>
        \E s \in Missing(utxos, Library) :
          /\ o = Output(<<built, Place[s]>>, KeyAddr(Library), MinCoin(ScriptBytes),
                        NoTokens, [script |-> s])
          /\ o.datum = [script |-> s]
  BY <1>3, <1>4, NotStored DEF Output
<1>6. \A o \in Outs : ~Stored(o)
  BY DEF AddAll, Idle, ScriptsInv, Outs
<1>7. \A o, p \in tx.outs : Stored(o) /\ Stored(p) /\ o.datum = p.datum => o = p
  <2> SUFFICES ASSUME NEW o \in tx.outs, NEW p \in tx.outs,
                      Stored(o), Stored(p), o.datum = p.datum
               PROVE  o = p
    OBVIOUS
  <2>1. PICK s : /\ o = Output(<<built, Place[s]>>, KeyAddr(Library), MinCoin(ScriptBytes),
                               NoTokens, [script |-> s])
                 /\ o.datum = [script |-> s]
    BY <1>5
  <2>2. PICK t : /\ p = Output(<<built, Place[t]>>, KeyAddr(Library), MinCoin(ScriptBytes),
                               NoTokens, [script |-> t])
                 /\ p.datum = [script |-> t]
    BY <1>5
  <2>3. s = t
    BY <2>1, <2>2
  <2> QED
    BY <2>1, <2>2, <2>3
<1>8. \A u \in utxos, o \in tx.outs : Stored(u) /\ Stored(o) => u.datum # o.datum
  <2> SUFFICES ASSUME NEW u \in utxos, NEW o \in tx.outs, Stored(u), Stored(o)
               PROVE  u.datum # o.datum
    OBVIOUS
  <2>1. u \in StoredScripts(utxos, Library)
    BY DEF Stored, StoredScripts
  <2>2. PICK s \in Missing(utxos, Library) : o.datum = [script |-> s]
    BY <1>5
  <2>3. u.datum.script # s
    BY <2>1, <2>2 DEF Missing
  <2> QED
    BY <2>2, <2>3
<1>9. Outs = UNION {t.outs : t \in pending}
  BY DEF Outs
<1> HIDE DEF add
<1> QED
  BY <1>2, <1>3, <1>6, <1>7, <1>8, <1>9 DEF ScriptsInv, Stored

(* Once included, they are there.                                          *)
LEMMA IncludedScripts ==
  ASSUME ScriptsInv, NEW tx \in pending, Include(tx)
  PROVE  ScriptsInv'
<1>1. utxos' \subseteq utxos \cup tx.outs /\ pending' = pending \ {tx}
  BY DEF Include, Submit
<1>2. Outs' \subseteq Outs /\ tx.outs \subseteq Outs
  BY <1>1 DEF Outs
<1>3. \A u, v \in utxos' : Stored(u) /\ Stored(v) /\ u.datum = v.datum => u = v
  BY <1>1, <1>2 DEF ScriptsInv
<1>4. \A u \in utxos', o \in Outs' : Stored(u) /\ Stored(o) => u.datum # o.datum
  <2> SUFFICES ASSUME NEW u \in utxos', NEW o \in Outs', Stored(u), Stored(o)
               PROVE  u.datum # o.datum
    OBVIOUS
  <2>1. PICK t \in pending : t # tx /\ o \in t.outs
    BY <1>1 DEF Outs
  <2>2. u \notin tx.outs
    BY <2>1 DEF ScriptsInv
  <2> QED
    BY <1>1, <1>2, <2>2 DEF ScriptsInv
<1> QED
  BY <1>1, <1>3, <1>4 DEF ScriptsInv, Stored

(* What is forgotten stores nothing.                                       *)
LEMMA FewerPendingScripts ==
  ASSUME ScriptsInv, utxos' = utxos, pending' \subseteq pending
  PROVE  ScriptsInv'
<1>1. Outs' \subseteq Outs
  BY DEF Outs
<1> QED
  BY <1>1 DEF ScriptsInv, Stored

-----------------------------------------------------------------------------

(* One case per command of the operator.                                   *)
LEMMA OperatorPreservesScriptsInv ==
  ASSUME ScriptsInv, OperatorStep
  PROVE  ScriptsInv'
<1>1. CASE \E kind \in RequestKinds : Add(kind)
  <2>1. PICK request, bytes, tx :
          /\ SubmitToNode(tx)
          /\ tx \in Balanced(utxos, RequestTreasury,
                             [AddRequestTx(request, bytes, built) EXCEPT !.fee = Fee], built)
    BY <1>1 DEF Add, BuildOne, Build
  <2> DEFINE add == [AddRequestTx(request, bytes, built) EXCEPT !.fee = Fee]
  <2>2. /\ add.outs = {RequestOutput(request, bytes, built)}
        /\ "outs" \in DOMAIN add /\ "signers" \in DOMAIN add
    BY DEF AddRequestTx, PlainTx, Tx
  <2>3. RequestOutput(request, bytes, built).addr = RequestAddr
    BY DEF RequestOutput, Output
  <2> HIDE DEF add
  <2>4. AddsNoScript(add)
    BY <2>2, <2>3, NotStored DEF AddsNoScript
  <2>5. AddsNoScript(tx)
    BY <2>1, <2>2, <2>4, BalancedAddsNoScript DEF add
  <2> QED
    BY <2>1, <2>5, OtherTxPending
<1>2. CASE TakeBackAll
  <2>1. PICK tx, refs :
          /\ tx \in RecycleAllTxs(utxos, tip, now, Limit, RequestTreasury, Fresh)
          /\ \E b \in Merged(utxos, RequestTreasury, [tx EXCEPT !.refs = refs, !.fee = Fee],
                             Fresh) : SubmitToNode(b)
    BY <1>2 DEF TakeBackAll, SubmitOne
  <2> DEFINE last == [tx EXCEPT !.refs = refs, !.fee = Fee]
  <2>2. PICK S : tx = Tx(S, {}, {Output(<<Fresh, 0>>, KeyAddr(RequestTreasury), CoinOf(S),
                                        NoTokens, NoDatum)},
                         RecycleAllStart(tip), tip + EndOffset, {RequestTreasury}, 0)
    BY <2>1 DEF RecycleAllTxs
  <2>3. /\ "outs" \in DOMAIN last
        /\ last.outs = {Output(<<Fresh, 0>>, KeyAddr(RequestTreasury), CoinOf(S),
                               NoTokens, NoDatum)}
    BY <2>2 DEF Tx
  <2>4. \A o \in last.outs : "datum" \in DOMAIN o /\ o.datum = NoDatum
    BY <2>3 DEF Output
  <2>5. PICK b \in Merged(utxos, RequestTreasury, last, Fresh) : SubmitToNode(b)
    BY <2>1
  <2> HIDE DEF last
  <2> QED
    BY <2>3, <2>4, <2>5, MergedAddsNoScript, OtherTxPending
<1>3. CASE Consolidate
  <2>1. PICK S, id, coin, tx, b :
          /\ tx = Tx(S, {}, {Output(<<id, 0>>, KeyAddr(RequestTreasury), coin, NoTokens,
                                    NoDatum)}, 0, EndOfTime, {RequestTreasury}, Fee)
          /\ b \in Merged(utxos, RequestTreasury, tx, id)
          /\ SubmitToNode(b)
    BY <1>3 DEF Consolidate, ConsolidateTxs, SubmitOne
  <2>2. "outs" \in DOMAIN tx /\ \A o \in tx.outs : "datum" \in DOMAIN o /\ o.datum = NoDatum
    BY <2>1 DEF Tx, Output
  <2> QED
    BY <2>1, <2>2, MergedAddsNoScript, OtherTxPending
<1>4. CASE \E ada \in Ada : TopUp(ada)
  <2>1. PICK ada, id, tx :
          /\ SubmitToNode(tx)
          /\ tx \in Balanced(utxos, Operator,
                             TopUpTx(Operator, RequestTreasury, ada, Fee, id), id)
    BY <1>4 DEF TopUp, SubmitOne
  <2> DEFINE topup == TopUpTx(Operator, RequestTreasury, ada, Fee, id)
  <2>2. /\ \A o \in topup.outs : o.datum = NoDatum
        /\ "outs" \in DOMAIN topup /\ "signers" \in DOMAIN topup
    BY DEF TopUpTx, Tx, Output
  <2> HIDE DEF topup
  <2>3. AddsNoScript(topup)
    BY <2>2, NotStored DEF AddsNoScript
  <2>4. AddsNoScript(tx)
    BY <2>1, <2>2, <2>3, BalancedAddsNoScript DEF topup
  <2> QED
    BY <2>1, <2>4, OtherTxPending
<1>5. CASE AddAll
  BY <1>5, AddAllPending
<1>6. CASE Clear
  <2> DEFINE tx == ClearTx(utxos, Operator, Library, Fee, built)
  <2>1. PICK b \in Merged(utxos, Operator, tx, built) : SubmitToNode(b)
    BY <1>6 DEF Clear, BuildOne, Build
  <2>2. "outs" \in DOMAIN tx /\ \A o \in tx.outs : "datum" \in DOMAIN o /\ o.datum = NoDatum
    BY DEF ClearTx, Tx, Output
  <2> HIDE DEF tx
  <2> QED
    BY <2>1, <2>2, MergedAddsNoScript, OtherTxPending
<1> QED
  BY <1>1, <1>2, <1>3, <1>4, <1>5, <1>6 DEF OperatorStep

(* A relayer leaves a response and change.                                 *)
LEMMA FulfillPreservesScriptsInv ==
  ASSUME ScriptsInv, NEW u \in StoredRequests(utxos), NEW msg \in Held, NEW fee \in Fees,
         Fulfill(u, msg, fee)
  PROVE  ScriptsInv'
<1>1. PICK view, slot, oracle, wallet, change, tx :
        /\ SubmitToNode(tx)
        /\ tx = FulfillingTx(view, slot, oracle, u, msg, wallet, change, fee, built)
  BY DEF Fulfill, Fulfillment, Build
<1>2. \A o \in tx.outs :
        \/ o = ResponseOutput(PoolActionID(oracle.pool, msg.action), msg.item, built)
        \/ o = Output(<<built, 1>>, KeyAddr(u.datum.owner), change, NoTokens, NoDatum)
  BY <1>1 DEF FulfillingTx, PublishTx, Tx
<1>3. \A o \in tx.outs : o.addr = ResponseAddr \/ o.datum = NoDatum
  BY <1>2 DEF ResponseOutput, TokenOutput, Output
<1> QED
  BY <1>1, <1>3, NotStored, OtherTxPending DEF AddsNoScript

(* The step of the induction.                                              *)
LEMMA TreasuryNextPreservesScriptsInv ==
  ASSUME ScriptsInv, [TreasuryNext]_offvars
  PROVE  ScriptsInv'
<1>1. CASE OperatorStep
  BY <1>1, OperatorPreservesScriptsInv
<1>2. CASE \E u \in StoredRequests(utxos), msg \in Held, fee \in Fees : Fulfill(u, msg, fee)
  BY <1>2, FulfillPreservesScriptsInv
<1>3. CASE \E tx \in pending : Include(tx)
  BY <1>3, IncludedScripts
<1>4. CASE utxos' = utxos /\ pending' \subseteq pending
  BY <1>4, FewerPendingScripts
<1> QED
  BY <1>1, <1>2, <1>3, <1>4
  DEF TreasuryNext, Environment, Forget, EmptyBlock, Sign, Tick, offvars

(* Each script is in the library once at most.                             *)
THEOREM ScriptsAreStoredOnce == TreasurySpec => []EachScriptOnce
<1>1. OffInit => ScriptsInv
  BY WalletsAssumption DEF OffInit, Init, ScriptsInv, Stored, StoredScripts, Outs
<1>2. ScriptsInv /\ [TreasuryNext]_offvars => ScriptsInv'
  BY TreasuryNextPreservesScriptsInv
<1>3. ScriptsInv => EachScriptOnce
  BY DEF ScriptsInv, Stored, StoredScripts, EachScriptOnce
<1> QED
  BY <1>1, <1>2, <1>3, PTL DEF TreasurySpec
=============================================================================
