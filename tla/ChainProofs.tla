----------------------------- MODULE ChainProofs -----------------------------
(***************************************************************************)
(* Theorems about Chain, for every set of transactions that may be         *)
(* submitted, of messages that may be signed and of times.                 *)
(*                                                                         *)
(* None of the properties can be seen from one script alone.  The policy   *)
(* of response tokens is not asked when a token merely moves, and the      *)
(* guard of the response address is not asked when the token is elsewhere: *)
(* that one of them is always asked (ResponseScriptRuns) needs every token *)
(* to be at home, which in turn is what they enforce.  So the properties   *)
(* are proved together, as one inductive invariant.  From it follow what a *)
(* step may never do, and that Chain implements ResponseSlot.              *)
(***************************************************************************)
EXTENDS Chain, CoinProofs

IndInv ==
  /\ TypeOK
  /\ ResponseTokensAtHome
  /\ SinglePoolTokensAtHome
  /\ SingleOracleAuthentic

-----------------------------------------------------------------------------

(* A bag of one token holds that asset and no other.                       *)
LEMMA OneToken ==
  ASSUME NEW asset
  PROVE  /\ DOMAIN One(asset) = {asset}
         /\ One(asset)[asset] = 1
BY DEF One

(* An asset a bag of one token holds is that one.                          *)
LEMMA OnlyToken ==
  ASSUME NEW a, NEW b, a \in DOMAIN One(b)
  PROVE  a = b
BY DEF One

(* Different assets make different bags.                                   *)
LEMMA OneInjective ==
  ASSUME NEW a, NEW b, One(a) = One(b)
  PROVE  a = b
BY OneToken

(* The asset of an output that holds tokens of a policy is minted by the   *)
(* transaction or held by an input that holds tokens of the policy too.    *)
LEMMA TokensComeFromSomewhere ==
  ASSUME NEW tx, NEW cs, NEW o \in tx.outs, HasCurrency(o, cs)
  PROVE  \/ MintsOf(cs, tx)
         \/ \E u \in tx.ins : HasCurrency(u, cs)
<1>1. PICK a \in DOMAIN o.tokens : a.cs = cs
  BY DEF HasCurrency
<1>2. a \in AssetsIn(tx.outs)
  BY <1>1 DEF AssetsIn
<1>3. CASE a \in AssetsIn(tx.ins)
  BY <1>1, <1>3 DEF AssetsIn, HasCurrency
<1>4. CASE a \notin AssetsIn(tx.ins)
  <2>1. a \in Minted(tx)
    BY <1>2, <1>4 DEF Minted
  <2> QED
    BY <1>1, <2>1 DEF MintsOf
<1> QED
  BY <1>3, <1>4

(* While response tokens are at home, no transaction has an output with    *)
(* one unless the response script ran and succeeded.                       *)
LEMMA ResponseScriptRuns ==
  ASSUME ResponseTokensAtHome,
         NEW tx, Accepted(tx),
         NEW o \in tx.outs, HasCurrency(o, "response")
  PROVE  \E m \in signed : \E spent \in SUBSET tx.ins :
           ResponseValidates(m, spent, signed, tx)
<1>1. tx.ins \subseteq utxos
  BY DEF Accepted, LedgerAccepts
<1>2. ResponseScriptAccepts(tx)
  BY DEF Accepted, ScriptsAccept
<1>3. CASE MintsOf("response", tx)
  <2>1. \E m \in signed : ResponseValidates(m, {}, signed, tx)
    BY <1>2, <1>3 DEF ResponseScriptAccepts
  <2>2. {} \in SUBSET tx.ins
    OBVIOUS
  <2> QED
    BY <2>1, <2>2
<1>4. CASE \E u \in tx.ins : HasCurrency(u, "response")
  <2>1. PICK u \in tx.ins : HasCurrency(u, "response")
    BY <1>4
  <2>2. u.addr = ResponseAddr
    BY <1>1, <2>1 DEF ResponseTokensAtHome, Responses
  <2>3. u \in GuardedBy(ResponseAddr, tx)
    BY <2>2 DEF GuardedBy
  <2>4. \E m \in signed : ResponseValidates(m, {u}, signed, tx)
    BY <1>2, <2>3 DEF ResponseScriptAccepts
  <2>5. {u} \in SUBSET tx.ins
    OBVIOUS
  <2> QED
    BY <2>4, <2>5
<1> QED
  BY <1>3, <1>4, TokensComeFromSomewhere

(* What the success of the response script says of the output.             *)
VouchedBy(o, m, oracle, pool, tx) ==
  /\ o.addr = ResponseAddr
  /\ o.datum = m.item
  /\ o.tokens = One(ResponseAsset(PoolActionID(pool, m.action)))
  /\ oracle \in tx.refs
  /\ pool \in DOMAIN oracle.tokens
  /\ oracle.tokens = One(pool)
  /\ oracle.datum \in OracleDatum
  /\ m.signer = oracle.datum.pubKey
  /\ tx.hi <= m.item.timestamp + oracle.datum.period

(* What a run of the response script has checked.                          *)
LEMMA ValidatedOutput ==
  ASSUME TypeOK,
         NEW tx, NEW m \in signed, NEW spent,
         ResponseValidates(m, spent, signed, tx),
         NEW o \in tx.outs, HasCurrency(o, "response")
  PROVE  \E oracle \in tx.refs : \E pool \in DOMAIN oracle.tokens :
           /\ VouchedBy(o, m, oracle, pool, tx)
           /\ Supersedes(PoolActionID(pool, m.action), m.item, spent)
<1>1. PICK oracle \in tx.refs, pool \in AssetsIn(tx.refs) :
        /\ pool \in FindPoolID(oracle)
        /\ oracle.datum \in OracleDatum
        /\ VerifyOracleMessage(m, oracle.datum, signed, tx)
        /\ StoresResponse(PoolActionID(pool, m.action), m.item, tx)
        /\ Supersedes(PoolActionID(pool, m.action), m.item, spent)
  BY DEF ResponseValidates
<1>2. pool \in DOMAIN oracle.tokens /\ oracle.tokens = One(pool)
  BY <1>1 DEF FindPoolID
<1>3. PICK q \in tx.outs :
        /\ {p \in tx.outs : HasCurrency(p, "response")} = {q}
        /\ q.addr = ResponseAddr
        /\ q.datum = m.item
        /\ q.tokens = One(ResponseAsset(PoolActionID(pool, m.action)))
  BY <1>1 DEF StoresResponse
<1>4. o = q
  BY <1>3
<1>5. m.signer = oracle.datum.pubKey /\ tx.hi <= m.item.timestamp + oracle.datum.period
  <2>1. m.item.timestamp + oracle.datum.period >= tx.hi
    BY <1>1 DEF VerifyOracleMessage, After
  <2> QED
    BY <1>1, <2>1 DEF VerifyOracleMessage
<1> QED
  BY <1>1, <1>2, <1>3, <1>4, <1>5 DEF VouchedBy

-----------------------------------------------------------------------------

(* The same for the single-oracle pool's script.                           *)
LEMMA SinglePoolScriptRuns ==
  ASSUME SinglePoolTokensAtHome,
         NEW tx, Accepted(tx),
         NEW o \in tx.outs, HasCurrency(o, "single")
  PROVE  \E p \in tx.outs : \E spent \in SUBSET tx.ins :
           SinglePoolValidates(p.datum, spent, tx)
<1>1. tx.ins \subseteq utxos
  BY DEF Accepted, LedgerAccepts
<1>2. SinglePoolScriptAccepts(tx)
  BY DEF Accepted, ScriptsAccept
<1>3. CASE MintsOf("single", tx)
  <2>1. \E p \in tx.outs : SinglePoolValidates(p.datum, {}, tx)
    BY <1>2, <1>3 DEF SinglePoolScriptAccepts
  <2>2. {} \in SUBSET tx.ins
    OBVIOUS
  <2> QED
    BY <2>1, <2>2
<1>4. CASE \E u \in tx.ins : HasCurrency(u, "single")
  <2>1. PICK u \in tx.ins : HasCurrency(u, "single")
    BY <1>4
  <2>2. u.addr = SinglePoolAddr
    BY <1>1, <2>1 DEF SinglePoolTokensAtHome
  <2>3. u \in GuardedBy(SinglePoolAddr, tx)
    BY <2>2 DEF GuardedBy
  <2>4. \E p \in tx.outs : SinglePoolValidates(p.datum, {u}, tx)
    BY <1>2, <2>3 DEF SinglePoolScriptAccepts
  <2>5. {u} \in SUBSET tx.ins
    OBVIOUS
  <2> QED
    BY <2>4, <2>5
<1> QED
  BY <1>3, <1>4, TokensComeFromSomewhere

(* What the success of the single-oracle pool's script says of the output. *)
LEMMA RegisteredOutput ==
  ASSUME NEW tx, NEW oracle, NEW spent,
         SinglePoolValidates(oracle, spent, tx),
         NEW o \in tx.outs, HasCurrency(o, "single")
  PROVE  /\ o.addr = SinglePoolAddr
         /\ o.datum \in OracleDatum
         /\ o.datum.pubKey \in Compressed /\ o.datum.period > 0
         /\ o.tokens = One(SingleOracleAsset(o.datum))
<1>1. PICK q \in tx.outs :
        /\ {p \in tx.outs : HasCurrency(p, "single")} = {q}
        /\ q.addr = SinglePoolAddr
        /\ q.datum = oracle
        /\ q.tokens = One(SingleOracleAsset(oracle))
  BY DEF SinglePoolValidates, StoresOracle
<1>2. o = q
  BY <1>1
<1> QED
  BY <1>1, <1>2 DEF SinglePoolValidates

-----------------------------------------------------------------------------

(* A transaction keeps every part of the invariant.                        *)
LEMMA SubmitPreservesTypes ==
  ASSUME TypeOK, NEW tx, Submit(tx)
  PROVE  TypeOK'
<1>1. /\ utxos' \subseteq utxos \cup tx.outs
      /\ now' = now /\ signed' = signed
  BY DEF Submit
<1>2. /\ \A o \in tx.outs : o.datum \in Datums
      /\ \A o \in tx.outs : \A u \in utxos : o.ref # u.ref
      /\ \A o, p \in tx.outs : o.ref = p.ref => o = p
      /\ \A o \in tx.outs : \A a \in DOMAIN o.tokens : o.tokens[a] \in Nat \ {0}
      /\ \A o \in tx.outs : o.coin \in Nat
  BY DEF Submit, Accepted, LedgerAccepts
<1>3. IsFiniteSet(utxos')
  <2>1. IsFiniteSet(utxos) /\ IsFiniteSet(tx.outs)
    BY DEF TypeOK, Submit, Accepted, LedgerAccepts
  <2>2. IsFiniteSet(utxos \cup tx.outs)
    BY <2>1, FS_Union
  <2> QED
    BY <1>1, <2>2, FS_Subset
<1> QED
  BY <1>1, <1>2, <1>3 DEF TypeOK

(* A response that is new is the one the script has checked.               *)
LEMMA NewResponseIsVouchedFor ==
  ASSUME IndInv, NEW tx, Submit(tx),
         NEW o \in utxos', o \notin utxos, HasCurrency(o, "response")
  PROVE  \E m \in signed, oracle \in utxos : \E pool \in DOMAIN oracle.tokens :
           VouchedBy(o, m, oracle, pool, tx)
<1>1. o \in tx.outs
  BY DEF Submit
<1>2. Accepted(tx) /\ tx.refs \subseteq utxos
  BY DEF Submit, Accepted, LedgerAccepts
<1>3. PICK m \in signed, spent \in SUBSET tx.ins :
        ResponseValidates(m, spent, signed, tx)
  BY <1>1, <1>2, ResponseScriptRuns DEF IndInv
<1>4. PICK oracle \in tx.refs :
        \E pool \in DOMAIN oracle.tokens : VouchedBy(o, m, oracle, pool, tx)
  BY <1>1, <1>3, ValidatedOutput DEF IndInv
<1> QED
  BY <1>2, <1>4

(* Each part of the invariant, past a transaction.                         *)
LEMMA SubmitKeepsResponsesHome ==
  ASSUME IndInv, NEW tx, Submit(tx)
  PROVE  ResponseTokensAtHome'
<1> SUFFICES ASSUME NEW o \in utxos', HasCurrency(o, "response")
             PROVE  /\ o.addr = ResponseAddr
                    /\ o.datum \in DataItem
                    /\ \E a \in DOMAIN o.tokens : o.tokens = One(ResponseAsset(a.tn))
  BY DEF ResponseTokensAtHome, Responses
<1>1. CASE o \in utxos
  BY <1>1 DEF IndInv, ResponseTokensAtHome, Responses
<1>2. CASE o \notin utxos
  <2>0. PICK m \in signed, oracle \in utxos :
          \E pool \in DOMAIN oracle.tokens : VouchedBy(o, m, oracle, pool, tx)
    BY <1>2, NewResponseIsVouchedFor
  <2>1. PICK pool \in DOMAIN oracle.tokens : VouchedBy(o, m, oracle, pool, tx)
    BY <2>0
  <2>2. m \in OracleMessage
    BY MessagesAssumption DEF IndInv, TypeOK
  <2>3. m.item \in DataItem
    BY <2>2 DEF OracleMessage
  <2> DEFINE asset == ResponseAsset(PoolActionID(pool, m.action))
  <2>4. asset \in DOMAIN o.tokens /\ asset = ResponseAsset(asset.tn)
    BY <2>1, OneToken DEF VouchedBy, ResponseAsset
  <2> QED
    BY <2>1, <2>3, <2>4 DEF VouchedBy
<1> QED
  BY <1>1, <1>2

(* The same for single-oracle pools.                                       *)
LEMMA SubmitKeepsSinglePoolsHome ==
  ASSUME IndInv, NEW tx, Submit(tx)
  PROVE  SinglePoolTokensAtHome'
<1> SUFFICES ASSUME NEW o \in utxos', HasCurrency(o, "single")
             PROVE  /\ o.addr = SinglePoolAddr
                    /\ o.datum \in OracleDatum
                    /\ o.datum.pubKey \in Compressed /\ o.datum.period > 0
                    /\ o.tokens = One(SingleOracleAsset(o.datum))
  BY DEF SinglePoolTokensAtHome
<1>1. CASE o \in utxos
  BY <1>1 DEF IndInv, SinglePoolTokensAtHome
<1>2. CASE o \notin utxos
  <2>1. o \in tx.outs /\ Accepted(tx)
    BY <1>2 DEF Submit
  <2>2. PICK p \in tx.outs, spent \in SUBSET tx.ins :
          SinglePoolValidates(p.datum, spent, tx)
    BY <2>1, SinglePoolScriptRuns DEF IndInv
  <2> QED
    BY <2>1, <2>2, RegisteredOutput
<1> QED
  BY <1>1, <1>2

(* The oracle referred to is the one its token names.                      *)
LEMMA SubmitKeepsAuthenticity ==
  ASSUME IndInv, NEW tx, Submit(tx)
  PROVE  SingleOracleAuthentic'
<1> SUFFICES ASSUME NEW o \in utxos', HasCurrency(o, "response"),
                    NEW a \in DOMAIN o.tokens, a.tn.pool.cs = "single"
             PROVE  \E m \in signed : /\ m.signer = a.tn.pool.tn.pubKey
                                     /\ m.action = a.tn.action
                                     /\ m.item = o.datum
  <2>1. signed' = signed
    BY DEF Submit
  <2> QED
    BY <2>1 DEF SingleOracleAuthentic, Responses
<1>1. CASE o \in utxos
  BY <1>1 DEF IndInv, SingleOracleAuthentic, Responses
<1>2. CASE o \notin utxos
  <2>0. PICK m \in signed, oracle \in utxos :
          \E pool \in DOMAIN oracle.tokens : VouchedBy(o, m, oracle, pool, tx)
    BY <1>2, NewResponseIsVouchedFor
  <2>1. PICK pool \in DOMAIN oracle.tokens : VouchedBy(o, m, oracle, pool, tx)
    BY <2>0
  <2>2. a = ResponseAsset(PoolActionID(pool, m.action))
    BY <2>1, OneToken DEF VouchedBy
  <2>3. a.tn.pool = pool /\ a.tn.action = m.action
    BY <2>2 DEF ResponseAsset, PoolActionID
  <2>4. HasCurrency(oracle, "single")
    BY <2>3 DEF HasCurrency
  <2>5. oracle.tokens = One(SingleOracleAsset(oracle.datum))
    BY <2>4 DEF IndInv, SinglePoolTokensAtHome
  <2>6. pool = SingleOracleAsset(oracle.datum)
    BY <2>1, <2>5, OneInjective DEF VouchedBy
  <2>7. pool.tn = oracle.datum
    BY <2>6 DEF SingleOracleAsset
  <2> QED
    BY <2>1, <2>3, <2>7 DEF VouchedBy
<1> QED
  BY <1>1, <1>2

-----------------------------------------------------------------------------

(* The parts together.                                                     *)
LEMMA SubmitPreservesIndInv ==
  ASSUME IndInv, NEW tx, Submit(tx)
  PROVE  IndInv'
BY SubmitPreservesTypes, SubmitKeepsResponsesHome, SubmitKeepsSinglePoolsHome,
   SubmitKeepsAuthenticity DEF IndInv

(* Signing leaves the outputs alone.                                       *)
LEMMA SignPreservesIndInv ==
  ASSUME IndInv, NEW m \in Messages, Sign(m)
  PROVE  IndInv'
<1>1. utxos' = utxos /\ now' = now /\ signed' = signed \cup {m}
  BY DEF Sign
<1>2. TypeOK'
  BY <1>1 DEF IndInv, TypeOK
<1>3. ResponseTokensAtHome' /\ SinglePoolTokensAtHome'
  BY <1>1 DEF IndInv, ResponseTokensAtHome, SinglePoolTokensAtHome, Responses
<1>4. SingleOracleAuthentic'
  BY <1>1 DEF IndInv, SingleOracleAuthentic, Responses
<1> QED
  BY <1>2, <1>3, <1>4 DEF IndInv

(* ... and so does time.                                                   *)
LEMMA IdlePreservesIndInv ==
  ASSUME IndInv, now' \in Times, UNCHANGED <<utxos, signed>>
  PROVE  IndInv'
<1>1. TypeOK'
  BY DEF IndInv, TypeOK
<1>2. ResponseTokensAtHome' /\ SinglePoolTokensAtHome'
  BY DEF IndInv, ResponseTokensAtHome, SinglePoolTokensAtHome, Responses
<1>3. SingleOracleAuthentic'
  BY DEF IndInv, SingleOracleAuthentic, Responses
<1> QED
  BY <1>1, <1>2, <1>3 DEF IndInv

(* Genesis is in order.                                                    *)
LEMMA InitEstablishesIndInv ==
  ASSUME Init
  PROVE  IndInv
<1>1. TypeOK
  BY GenesisAssumption DEF Init, TypeOK
<1>2. \A u \in utxos : ~HasCurrency(u, "response") /\ ~HasCurrency(u, "single")
  BY GenesisAssumption DEF Init
<1> QED
  BY <1>1, <1>2
  DEF IndInv, ResponseTokensAtHome, SinglePoolTokensAtHome, SingleOracleAuthentic,
      Responses

(* The step of the induction.                                              *)
LEMMA NextPreservesIndInv ==
  ASSUME IndInv, [Next]_vars
  PROVE  IndInv'
<1>1. CASE \E tx \in Candidates(utxos, now, signed) : Submit(tx)
  BY <1>1, SubmitPreservesIndInv
<1>2. CASE \E m \in Messages : Sign(m)
  BY <1>2, SignPreservesIndInv
<1>3. CASE \E t \in Times : Tick(t)
  BY <1>3, IdlePreservesIndInv DEF Tick
<1>4. CASE UNCHANGED vars
  <2>1. now' \in Times /\ UNCHANGED <<utxos, signed>>
    BY <1>4 DEF vars, IndInv, TypeOK
  <2> QED
    BY <2>1, IdlePreservesIndInv
<1> QED
  BY <1>1, <1>2, <1>3, <1>4 DEF Next

(* The inductive invariant holds of every reachable state.                 *)
THEOREM Invariance == Spec => []IndInv
<1>1. Init => IndInv
  BY InitEstablishesIndInv
<1>2. IndInv /\ [Next]_vars => IndInv'
  BY NextPreservesIndInv
<1> QED
  BY <1>1, <1>2, PTL DEF Spec

(* The state is always of its type, and an output is known by its          *)
(* reference.                                                              *)
THEOREM TypeCorrectness == Spec => []TypeOK
<1>1. IndInv => TypeOK
  BY DEF IndInv
<1> QED
  BY <1>1, Invariance, PTL

(* No transaction takes a response token away from the response script.    *)
THEOREM ResponseTokensStayHome == Spec => []ResponseTokensAtHome
<1>1. IndInv => ResponseTokensAtHome
  BY DEF IndInv
<1> QED
  BY <1>1, Invariance, PTL

(* The token of a single-oracle pool stays with the oracle it is named     *)
(* after.                                                                  *)
THEOREM SinglePoolTokensStayHome == Spec => []SinglePoolTokensAtHome
<1>1. IndInv => SinglePoolTokensAtHome
  BY DEF IndInv
<1> QED
  BY <1>1, Invariance, PTL

(* Every response of a single-oracle pool was signed by that oracle.       *)
THEOREM SingleOraclesSpeakForThemselves == Spec => []SingleOracleAuthentic
<1>1. IndInv => SingleOracleAuthentic
  BY DEF IndInv
<1> QED
  BY <1>1, Invariance, PTL
-----------------------------------------------------------------------------

(* What all the proofs need of a step, so that they hold of programs at    *)
(* work on the chain as well: only transactions change the outputs.        *)
OutputsChange == utxos' = utxos \/ \E tx : Submit(tx)

(* Only transactions change the outputs.                                   *)
LEMMA OutputsChangeBySubmit ==
  ASSUME [Next]_vars
  PROVE  OutputsChange
BY DEF Next, Sign, Tick, vars, OutputsChange

(* An accepted output with a response token is on chain afterwards, and it *)
(* is the only such output of its transaction.                             *)
LEMMA AcceptedResponse ==
  ASSUME IndInv, NEW tx, Submit(tx),
         NEW o \in tx.outs, HasCurrency(o, "response")
  PROVE  /\ o \in utxos'
         /\ \E m \in signed : \E oracle \in tx.refs :
              \E pool \in DOMAIN oracle.tokens : VouchedBy(o, m, oracle, pool, tx)
<1>1. Accepted(tx)
  BY DEF Submit
<1>2. PICK m \in signed, spent \in SUBSET tx.ins :
        ResponseValidates(m, spent, signed, tx)
  BY <1>1, ResponseScriptRuns DEF IndInv
<1>3. \E oracle \in tx.refs : \E pool \in DOMAIN oracle.tokens :
        VouchedBy(o, m, oracle, pool, tx)
  BY <1>2, ValidatedOutput DEF IndInv
<1>4. o.addr.kind = "script"
  BY <1>3 DEF VouchedBy, ResponseAddr, ScriptAddr
<1>5. o \in utxos'
  BY <1>4 DEF Submit, Tracked
<1> QED
  BY <1>3, <1>5

-----------------------------------------------------------------------------

(* Every response a step puts there is vouched for by a registered oracle. *)
ResponsesEnterVouchedFor ==
  \A v \in Responses' \ Responses :
    \E m \in signed, oracle \in utxos :
      \E pool \in DOMAIN oracle.tokens :
        /\ oracle.tokens = One(pool)
        /\ v.tokens = One(ResponseAsset(PoolActionID(pool, m.action)))
        /\ v.datum = m.item
        /\ m.signer = oracle.datum.pubKey
        /\ now < m.item.timestamp + oracle.datum.period

(* ... and so it is of any step that changes the outputs by transactions.  *)
LEMMA NewResponsesStep ==
  ASSUME IndInv, OutputsChange
  PROVE  ResponsesEnterVouchedFor
<1> SUFFICES ASSUME NEW v \in Responses', v \notin Responses
             PROVE  \E m \in signed, oracle \in utxos :
                      \E pool \in DOMAIN oracle.tokens :
                        /\ oracle.tokens = One(pool)
                        /\ v.tokens = One(ResponseAsset(PoolActionID(pool, m.action)))
                        /\ v.datum = m.item
                        /\ m.signer = oracle.datum.pubKey
                        /\ now < m.item.timestamp + oracle.datum.period
  BY DEF ResponsesEnterVouchedFor
<1>1. v \in utxos' /\ v \notin utxos /\ HasCurrency(v, "response")
  BY DEF Responses
<1>2. PICK tx : Submit(tx)
  BY <1>1 DEF OutputsChange
<1>3. PICK m \in signed, oracle \in utxos :
        \E pool \in DOMAIN oracle.tokens : VouchedBy(v, m, oracle, pool, tx)
  BY <1>1, <1>2, NewResponseIsVouchedFor
<1>4. PICK pool \in DOMAIN oracle.tokens : VouchedBy(v, m, oracle, pool, tx)
  BY <1>3
<1>5. now < m.item.timestamp + oracle.datum.period
  <2>1. now < tx.hi /\ tx.hi \in Int
    BY <1>2 DEF Submit, Accepted, LedgerAccepts
  <2>2. tx.hi <= m.item.timestamp + oracle.datum.period
    BY <1>4 DEF VouchedBy
  <2>3. now \in Int
    BY TimesAssumption DEF IndInv, TypeOK
  <2>4. m.item.timestamp \in Int
    BY MessagesAssumption DEF IndInv, TypeOK, OracleMessage, DataItem
  <2>5. oracle.datum.period \in Int
    BY <1>4 DEF VouchedBy, OracleDatum
  <2> QED
    BY <2>1, <2>2, <2>3, <2>4, <2>5
<1> QED
  BY <1>4, <1>5 DEF VouchedBy

(* Every response that enters is vouched for by a registered oracle.       *)
THEOREM NewResponses == Spec => NewResponsesAreVouchedFor
<1>1. IndInv /\ IndInv' /\ [Next]_vars => ResponsesEnterVouchedFor
  BY OutputsChangeBySubmit, NewResponsesStep
<1> QED
  BY <1>1, Invariance, PTL DEF Spec, NewResponsesAreVouchedFor, ResponsesEnterVouchedFor

-----------------------------------------------------------------------------

(* Spending a response leaves one of the same pool action that is newer.   *)
LEMMA SpentResponseIsSuperseded ==
  ASSUME IndInv, NEW tx, Submit(tx), NEW u \in Responses, u \in tx.ins
  PROVE  \E o \in tx.outs : /\ HasCurrency(o, "response")
                            /\ o \in utxos'
                            /\ o.tokens = u.tokens
                            /\ o.datum.timestamp > u.datum.timestamp
<1>1. /\ u.addr = ResponseAddr
      /\ u.datum \in DataItem
      /\ HasCurrency(u, "response")
  BY DEF IndInv, ResponseTokensAtHome, Responses
<1>2. PICK a \in DOMAIN u.tokens : u.tokens = One(ResponseAsset(a.tn))
  BY DEF IndInv, ResponseTokensAtHome
<1>3. u \in GuardedBy(ResponseAddr, tx)
  BY <1>1 DEF GuardedBy
<1>4. PICK m \in signed : ResponseValidates(m, {u}, signed, tx)
  BY <1>3 DEF Submit, Accepted, ScriptsAccept, ResponseScriptAccepts
<1>5. PICK p : StoresResponse(p, m.item, tx) /\ Supersedes(p, m.item, {u})
  BY <1>4 DEF ResponseValidates
<1>6. PICK o \in tx.outs :
        /\ {q \in tx.outs : HasCurrency(q, "response")} = {o}
        /\ o.addr = ResponseAddr
        /\ o.datum = m.item
        /\ o.tokens = One(ResponseAsset(p))
  BY <1>5 DEF StoresResponse
<1>7. HasCurrency(o, "response")
  BY <1>6
<1>8. o \in utxos'
  BY <1>7, AcceptedResponse
<1>9. o.tokens = u.tokens
  <2>1. DOMAIN u.tokens = {ResponseAsset(a.tn)}
    BY <1>2, OneToken
  <2>2. TokenNames(u, "response") = {a.tn}
    BY <2>1 DEF TokenNames, ResponseAsset
  <2>3. a.tn = p
    BY <1>5, <2>2 DEF Supersedes
  <2> QED
    BY <1>2, <1>6, <2>3
<1>10. o.datum.timestamp > u.datum.timestamp
  <2>1. u.datum # NoDatum
    BY <1>1 DEF DataItem, NoDatum
  <2> QED
    BY <1>5, <1>6, <2>1 DEF Supersedes
<1> QED
  BY <1>7, <1>8, <1>9, <1>10

(* For each response before a step there is one after it that is no older. *)
ResponsesKept ==
  \A u \in Responses :
    \E v \in Responses' :
      v.tokens = u.tokens /\ v.datum.timestamp >= u.datum.timestamp

(* A response that goes is one that has been spent, hence superseded.      *)
LEMMA NoRegressStep ==
  ASSUME IndInv, IndInv', OutputsChange
  PROVE  ResponsesKept
<1> SUFFICES ASSUME NEW u \in Responses
             PROVE  \E v \in Responses' : /\ v.tokens = u.tokens
                                          /\ v.datum.timestamp >= u.datum.timestamp
  BY DEF ResponsesKept
<1>1. u.datum.timestamp \in Nat
  BY DEF IndInv, ResponseTokensAtHome, DataItem
<1>2. CASE u \in utxos'
  BY <1>1, <1>2 DEF Responses
<1>3. CASE u \notin utxos'
  <2>1. PICK tx : Submit(tx)
    BY <1>3 DEF OutputsChange, Responses
  <2>2. u \in tx.ins
    BY <1>3, <2>1 DEF Submit, Responses
  <2>3. PICK o \in tx.outs : /\ HasCurrency(o, "response")
                             /\ o \in utxos'
                             /\ o.tokens = u.tokens
                             /\ o.datum.timestamp > u.datum.timestamp
    BY <2>1, <2>2, SpentResponseIsSuperseded
  <2>4. o \in Responses'
    BY <2>3 DEF Responses
  <2>5. o.datum.timestamp \in Nat
    BY <2>4 DEF IndInv, ResponseTokensAtHome, DataItem
  <2> QED
    BY <1>1, <2>3, <2>4, <2>5
<1> QED
  BY <1>2, <1>3

(* A response is only ever replaced by one of the same pool action that is *)
(* not older.                                                              *)
THEOREM NoRegress == Spec => ResponsesNeverRegress
<1>1. IndInv /\ IndInv' /\ [Next]_vars => ResponsesKept
  BY OutputsChangeBySubmit, NoRegressStep
<1> QED
  BY <1>1, Invariance, PTL DEF Spec, ResponsesNeverRegress, ResponsesKept

-----------------------------------------------------------------------------

(* Each single oracle before a step is there after it, with its datum.     *)
OraclesKept ==
  \A u \in utxos : HasCurrency(u, "single") =>
    \E v \in utxos' :
      v.addr = u.addr /\ v.tokens = u.tokens /\ v.datum = u.datum

(* The pool script has every spent oracle stored again.                    *)
LEMMA NoRevocationStep ==
  ASSUME IndInv, OutputsChange
  PROVE  OraclesKept
<1> SUFFICES ASSUME NEW u \in utxos, HasCurrency(u, "single"), u \notin utxos'
             PROVE  \E v \in utxos' : /\ v.addr = u.addr
                                       /\ v.tokens = u.tokens
                                       /\ v.datum = u.datum
  BY DEF OraclesKept
<1>1. PICK tx : Submit(tx)
  BY DEF OutputsChange
<1>2. u \in tx.ins
  BY <1>1 DEF Submit
<1>3. /\ u.addr = SinglePoolAddr
      /\ u.datum \in OracleDatum
      /\ u.tokens = One(SingleOracleAsset(u.datum))
  BY DEF IndInv, SinglePoolTokensAtHome
<1>4. u \in GuardedBy(SinglePoolAddr, tx)
  BY <1>2, <1>3 DEF GuardedBy
<1>5. PICK p \in tx.outs : SinglePoolValidates(p.datum, {u}, tx)
  BY <1>1, <1>4 DEF Submit, Accepted, ScriptsAccept, SinglePoolScriptAccepts
<1>6. p.datum = u.datum
  <2>1. TokenNames(u, "single") = {u.datum}
    BY <1>3 DEF TokenNames, One, SingleOracleAsset
  <2> QED
    BY <1>5, <2>1 DEF SinglePoolValidates, KeepsOracle
<1>7. PICK o \in tx.outs : /\ o.addr = SinglePoolAddr
                           /\ o.datum = p.datum
                           /\ o.tokens = One(SingleOracleAsset(p.datum))
  BY <1>5 DEF SinglePoolValidates, StoresOracle
<1>8. o \in utxos'
  BY <1>1, <1>7 DEF Submit, Tracked, SinglePoolAddr, ScriptAddr
<1> QED
  BY <1>3, <1>6, <1>7, <1>8

(* An oracle of a single-oracle pool is never revoked.                     *)
THEOREM NoRevocation == Spec => SingleOraclesStay
<1>1. IndInv /\ IndInv' /\ [Next]_vars => OraclesKept
  BY OutputsChangeBySubmit, NoRevocationStep
<1> QED
  BY <1>1, Invariance, PTL DEF Spec, SingleOraclesStay, OraclesKept

-----------------------------------------------------------------------------

(* A request that goes has expired, or an answer in time is there.         *)
RequestsLeave ==
  \A u \in utxos \ utxos' :
    u.addr = RequestAddr /\ u.datum # NoDatum =>
      \/ now > u.datum.before
      \/ \E v \in Responses' :
           /\ v.tokens = One(ResponseAsset(u.datum.poolActionID))
           /\ u.datum.after <= v.datum.timestamp
           /\ v.datum.timestamp <= u.datum.before

(* The request script accepts either of the two and nothing else.          *)
LEMMA RequestsAnsweredOrExpiredStep ==
  ASSUME IndInv, OutputsChange
  PROVE  RequestsLeave
<1> SUFFICES ASSUME NEW u \in utxos, u \notin utxos',
                    u.addr = RequestAddr, u.datum # NoDatum
             PROVE  \/ now > u.datum.before
                    \/ \E v \in Responses' :
                         /\ v.tokens = One(ResponseAsset(u.datum.poolActionID))
                         /\ u.datum.after <= v.datum.timestamp
                         /\ v.datum.timestamp <= u.datum.before
  BY DEF RequestsLeave
<1>1. PICK tx : Submit(tx)
  BY DEF OutputsChange
<1>2. u \in GuardedBy(RequestAddr, tx)
  BY <1>1 DEF Submit, GuardedBy
<1>3. RequestValidates(u, tx)
  BY <1>1, <1>2 DEF Submit, Accepted, ScriptsAccept, RequestScriptAccepts
<1>4. u.datum \in Request
  BY <1>3 DEF RequestValidates
<1>5. CASE RequestExpired(u.datum, tx)
  <2>1. u.datum.before < tx.lo
    BY <1>5 DEF RequestExpired, Before
  <2>2. tx.lo \in Int /\ tx.lo <= now
    BY <1>1 DEF Submit, Accepted, LedgerAccepts
  <2>3. now \in Nat /\ u.datum.before \in Nat
    BY <1>4, TimesAssumption DEF IndInv, TypeOK, Request
  <2> QED
    BY <2>1, <2>2, <2>3
<1>6. CASE ~RequestExpired(u.datum, tx)
  <2>1. PICK d \in ValidResponses(u.datum, tx) : TRUE
    BY <1>3, <1>6 DEF RequestValidates
  <2>2. PICK o \in Holding(tx.outs, ResponseAsset(u.datum.poolActionID)) :
          /\ o.datum = d
          /\ u.datum.after <= d.timestamp /\ d.timestamp <= u.datum.before
    BY <2>1 DEF ValidResponses
  <2>3. o \in tx.outs /\ ResponseAsset(u.datum.poolActionID) \in DOMAIN o.tokens
    BY <2>2 DEF Holding, Quantity
  <2>4. HasCurrency(o, "response")
    BY <2>3 DEF HasCurrency, ResponseAsset
  <2>5. o \in utxos' /\ \E p : o.tokens = One(ResponseAsset(p))
    BY <1>1, <2>3, <2>4, AcceptedResponse DEF VouchedBy
  <2>6. o.tokens = One(ResponseAsset(u.datum.poolActionID))
    <3>1. PICK p : o.tokens = One(ResponseAsset(p))
      BY <2>5
    <3>2. ResponseAsset(u.datum.poolActionID) = ResponseAsset(p)
      BY <2>3, <3>1, OnlyToken
    <3> QED
      BY <3>1, <3>2
  <2>7. o \in Responses'
    BY <2>4, <2>5 DEF Responses
  <2> QED
    BY <2>2, <2>6, <2>7
<1> QED
  BY <1>5, <1>6

(* A request leaves only once it has expired or with a response in time.   *)
THEOREM RequestsAnsweredOrExpired == Spec => RequestsLeaveForAReason
<1>1. IndInv /\ IndInv' /\ [Next]_vars => RequestsLeave
  BY OutputsChangeBySubmit, RequestsAnsweredOrExpiredStep
<1> QED
  BY <1>1, Invariance, PTL DEF Spec, RequestsLeaveForAReason, RequestsLeave

-----------------------------------------------------------------------------

(* With one open request of an owner at most, what is due is its part.     *)
LEMMA DueToOne ==
  ASSUME NEW owner, NEW tx, NEW u, Open(owner, tx) = {u},
         u.coin \in Int, u.datum.maxCost \in Int
  PROVE  DueTo(owner, tx) = Max({0, u.coin - u.datum.maxCost})
<1> DEFINE due == Max({0, u.coin - u.datum.maxCost})
<1> DEFINE Sums(f) == f = [s \in SUBSET {u} |->
                             IF s = {} THEN 0
                             ELSE Max({0, Pick(s).coin - Pick(s).datum.maxCost})
                                    + f[s \ {Pick(s)}]]
<1>1. DueTo(owner, tx) = (CHOOSE f : Sums(f))[{u}]
  BY Zenon DEF DueTo, MapThenSumSet, MapThenFoldSet, Pick
<1>2. due \in Int
  <2> DEFINE left == u.coin - u.datum.maxCost
  <2>1. 0 \in Int /\ left \in Int
    OBVIOUS
  <2> HIDE DEF left
  <2>2. Max({0, left}) \in {0, left}
    BY <2>1, MaxOfTwo, Zenon
  <2> QED
    BY <2>1, <2>2 DEF left
<1>3. Pick({u}) = u
  BY DEF Pick
<1>4. \A s \in SUBSET {u} : s = {} \/ s = {u}
  OBVIOUS
<1> HIDE DEF Pick
<1>5. \E f : Sums(f)
  <2> DEFINE f == [s \in SUBSET {u} |-> IF s = {} THEN 0 ELSE due]
  <2>1. f[{}] = 0 /\ {u} \ {u} = {} /\ f[{u}] = due
    BY <1>4
  <2>2. ASSUME NEW s \in SUBSET {u}
        PROVE  f[s] = IF s = {} THEN 0
                      ELSE Max({0, Pick(s).coin - Pick(s).datum.maxCost})
                             + f[s \ {Pick(s)}]
    <3>1. CASE s = {}
      BY <2>1, <3>1
    <3>2. CASE s = {u}
      <4>1. Max({0, Pick(s).coin - Pick(s).datum.maxCost}) = due
        BY <1>3, <3>2
      <4>2. s \ {Pick(s)} = {}
        BY <1>3, <3>2
      <4>3. f[s \ {Pick(s)}] = 0
        BY <2>1, <4>2, Zenon
      <4> HIDE DEF due, f
      <4>4. due + f[s \ {Pick(s)}] = due
        BY <1>2, <4>3
      <4> QED
        BY <2>1, <3>2, <4>1, <4>4
    <3> QED
      BY <1>4, <3>1, <3>2
  <2>3. Sums(f)
    BY <2>2
  <2> QED
    BY <2>3
<1>6. PICK f : Sums(f) /\ DueTo(owner, tx) = f[{u}]
  BY <1>1, <1>5
<1>7. f[{u}] = due + f[{}] /\ f[{}] = 0
  <2>1. \A s \in SUBSET {u} :
          f[s] = IF s = {} THEN 0
                 ELSE Max({0, Pick(s).coin - Pick(s).datum.maxCost}) + f[s \ {Pick(s)}]
    BY <1>6
  <2>2. {u} \ {Pick({u})} = {}
    BY <1>3
  <2>3. Max({0, Pick({u}).coin - Pick({u}).datum.maxCost}) = due
    BY <1>3
  <2> HIDE DEF due
  <2>4. f[{u}] = due + f[{}]
    BY <2>1, <2>2, <2>3
  <2> QED
    BY <2>1, <2>4
<1> QED
  BY <1>2, <1>6, <1>7

(* ... and nothing is due to an owner of none.                             *)
LEMMA DueToNobody ==
  ASSUME NEW owner, NEW tx, Open(owner, tx) = {}
  PROVE  DueTo(owner, tx) = 0
<1> DEFINE Sums(f) == f = [s \in SUBSET {} |->
                             IF s = {} THEN 0
                             ELSE Max({0, Pick(s).coin - Pick(s).datum.maxCost})
                                    + f[s \ {Pick(s)}]]
<1>1. DueTo(owner, tx) = (CHOOSE f : Sums(f))[{}]
  BY Zenon DEF DueTo, MapThenSumSet, MapThenFoldSet, Pick
<1>2. \A s \in SUBSET {} : s = {}
  OBVIOUS
<1>3. Sums([s \in SUBSET {} |-> 0])
  BY <1>2
<1>4. PICK f : Sums(f) /\ DueTo(owner, tx) = f[{}]
  BY <1>1, <1>3
<1> QED
  BY <1>4

(* A request that is spent before it expires is answered, and its run of   *)
(* the request script has looked for its change.                           *)
LEMMA OpenIsAnswered ==
  ASSUME IndInv, NEW tx, Accepted(tx), NEW owner, NEW u \in Open(owner, tx)
  PROVE  /\ u.datum \in Request
         /\ \E item \in ValidResponses(u.datum, tx) : ExistsChangeOutput(u, item, tx)
<1>1. u \in GuardedBy(RequestAddr, tx) /\ u \in tx.ins /\ u.datum # NoDatum
  BY DEF Open, GuardedBy
<1>2. RequestValidates(u, tx)
  BY <1>1 DEF Accepted, ScriptsAccept, RequestScriptAccepts
<1>3. u.datum \in Request
  BY <1>1, <1>2 DEF RequestValidates
<1>4. ~RequestExpired(u.datum, tx)
  <2>1. now <= u.datum.before
    BY DEF Open
  <2>2. tx.lo \in Int /\ tx.lo <= now
    BY DEF Accepted, LedgerAccepts
  <2>3. now \in Nat /\ u.datum.before \in Nat
    BY <1>3, TimesAssumption DEF IndInv, TypeOK, Request
  <2> QED
    BY <2>1, <2>2, <2>3 DEF RequestExpired, Before
<1> QED
  BY <1>1, <1>2, <1>3, <1>4 DEF RequestValidates

(* The change it has found is worth all but the maximal cost, for the item *)
(* that answers is one that was signed, and its size a number.             *)
LEMMA EachDueIsPaid ==
  ASSUME IndInv, NEW tx, Accepted(tx), NEW owner, NEW u \in Open(owner, tx)
  PROVE  /\ u.coin \in Nat /\ u.datum.maxCost \in Nat
         /\ Max({0, u.coin - u.datum.maxCost}) <= PaidTo(owner, tx)
<1> DEFINE paid == {o \in tx.outs : o.addr = KeyAddr(owner)}
<1>1. /\ tx.ins \subseteq utxos /\ IsFiniteSet(tx.ins) /\ IsFiniteSet(paid)
      /\ \A v \in tx.ins : v.coin \in Nat
      /\ \A o \in paid : o.coin \in Nat
  BY FS_Subset DEF Accepted, LedgerAccepts, IndInv, TypeOK
<1>2. u \in tx.ins
  BY DEF Open, GuardedBy
<1>3. u.datum \in Request
  BY OpenIsAnswered
<1>4. PICK item \in ValidResponses(u.datum, tx) : ExistsChangeOutput(u, item, tx)
  BY OpenIsAnswered
<1>5. Bytes(item) \in Nat
  <2>1. PICK r \in tx.outs : /\ r.datum = item
                             /\ ResponseAsset(u.datum.poolActionID) \in DOMAIN r.tokens
    BY <1>4 DEF ValidResponses, Holding, Quantity
  <2>2. HasCurrency(r, "response")
    BY <2>1 DEF HasCurrency, ResponseAsset
  <2>3. PICK m \in signed, spent \in SUBSET tx.ins :
          ResponseValidates(m, spent, signed, tx)
    BY <2>2, ResponseScriptRuns DEF IndInv
  <2>4. \E oracle \in tx.refs : \E pool \in DOMAIN oracle.tokens :
          VouchedBy(r, m, oracle, pool, tx)
    BY <2>2, <2>3, ValidatedOutput DEF IndInv
  <2>5. m \in Messages /\ item = m.item
    BY <2>1, <2>4 DEF VouchedBy, IndInv, TypeOK
  <2> QED
    BY <2>5, MessagesAssumption
<1> DEFINE cost == RealCost(u.datum, item, tx)
<1> DEFINE capped == CappedCost(u.datum, item, tx)
<1>6. cost \in Int
  <2>1. AdaSpentWithAsset(ResponseAsset(u.datum.poolActionID), tx) \in Int
    <3> DEFINE S == Holding(tx.ins, ResponseAsset(u.datum.poolActionID))
    <3>1. IsFiniteSet(S) /\ Coins(S)
      BY <1>1, FS_Subset DEF Holding, Coins
    <3> QED
      BY <3>1, CoinOfType DEF AdaSpentWithAsset
  <2>2. tx.fee \in Nat /\ u.datum.reward \in Nat /\ u.datum.coinPerByte \in Nat
    BY <1>3 DEF Accepted, LedgerAccepts, Request
  <2>3. u.datum.coinPerByte * (MinUTxOIntercept + Bytes(item)) \in Int
    BY <1>5, <2>2 DEF MinUTxOIntercept
  <2> QED
    BY <2>1, <2>2, <2>3 DEF RealCost
<1>7. u.coin \in Nat /\ u.datum.maxCost \in Nat
  BY <1>1, <1>2, <1>3 DEF Request
<1>8. capped \in Int /\ capped <= u.datum.maxCost
  <2>1. capped = Max({0, Min({u.datum.maxCost, cost})})
    BY DEF CappedCost
  <2> DEFINE most == u.datum.maxCost
  <2> DEFINE least == Min({most, cost})
  <2>2. most \in Nat
    BY <1>7
  <2> HIDE DEF cost, capped, most
  <2>3. least \in Int /\ least <= most
    <3>1. most \in Int
      BY <2>2
    <3>2. least \in {most, cost} /\ least <= most
      BY <1>6, <3>1, MinOfTwo, Zenon
    <3> QED
      BY <1>6, <3>1, <3>2
  <2>4. capped = Max({0, least})
    BY <2>1 DEF most
  <2> HIDE DEF least
  <2>5. capped \in {0, least} /\ capped \in Int
    <3>1. 0 \in Int
      OBVIOUS
    <3>2. capped \in {0, least}
      BY <2>3, <2>4, <3>1, MaxOfTwo, Zenon
    <3> QED
      BY <2>3, <3>2
  <2>6. capped \in Int /\ capped <= most
    BY <2>2, <2>3, <2>5
  <2> QED
    BY <2>6 DEF most
<1>9. PaidTo(owner, tx) \in Nat /\ \A o \in paid : o.coin <= PaidTo(owner, tx)
  BY <1>1, CoinOfNat, CoinOfMember DEF PaidTo
<1>10. \/ u.coin - capped <= 0
       \/ \E o \in paid : o.coin >= u.coin - capped
  <2>1. u.datum.owner = owner
    BY DEF Open
  <2> QED
    BY <1>4, <2>1 DEF ExistsChangeOutput
<1> HIDE DEF cost, capped, paid
<1>11. 0 <= PaidTo(owner, tx) /\ u.coin - u.datum.maxCost <= PaidTo(owner, tx)
  BY <1>1, <1>7, <1>8, <1>9, <1>10
<1>12. Max({0, u.coin - u.datum.maxCost}) \in {0, u.coin - u.datum.maxCost}
  <2> DEFINE left == u.coin - u.datum.maxCost
  <2>1. left \in Int
    BY <1>7
  <2> HIDE DEF left
  <2>2. Max({0, left}) \in {0, left}
    BY <2>1, MaxOfTwo
  <2> QED
    BY <2>2 DEF left
<1> QED
  BY <1>7, <1>11, <1>12

(* Of the requests of one owner that a transaction spends before they      *)
(* expire, the owner gets back all but the maximal cost of the one with    *)
(* most left.                                                              *)
LargestDueIsPaid ==
  \A tx \in Candidates(utxos, now, signed) :
    Accepted(tx) =>
      \A owner \in Hashes : \A u \in Open(owner, tx) :
        Max({0, u.coin - u.datum.maxCost}) <= PaidTo(owner, tx)

(* Nothing else is said of several: one output may be the change for all   *)
(* of them.  For owners with one, that is all there is to say.             *)
OneRequestPerOwner ==
  \A tx \in Candidates(utxos, now, signed) :
    Accepted(tx) => \A owner \in Hashes : \A u, v \in Open(owner, tx) : u = v

(* For every owner, each open request is charged at most its maximal cost, *)
(* if others of the same owner share the change.                           *)
THEOREM EachRequestChargedAtMostMaxCost == Spec => []LargestDueIsPaid
<1>1. IndInv => LargestDueIsPaid
  BY EachDueIsPaid DEF LargestDueIsPaid
<1> QED
  BY <1>1, Invariance, PTL

(* An owner of a single request that a transaction answers pays no more    *)
(* than agreed.                                                            *)
LEMMA FairToOne ==
  ASSUME IndInv, NEW tx, Accepted(tx), NEW owner, \A u, v \in Open(owner, tx) : u = v
  PROVE  DueTo(owner, tx) <= PaidTo(owner, tx)
<1>1. CASE Open(owner, tx) = {}
  <2> DEFINE paid == {o \in tx.outs : o.addr = KeyAddr(owner)}
  <2>1. IsFiniteSet(paid) /\ \A o \in paid : o.coin \in Nat
    BY FS_Subset DEF Accepted, LedgerAccepts
  <2>2. PaidTo(owner, tx) \in Nat
    BY <2>1, CoinOfNat DEF PaidTo
  <2> QED
    BY <1>1, <2>2, DueToNobody
<1>2. CASE Open(owner, tx) # {}
  <2>1. PICK u : Open(owner, tx) = {u}
    BY <1>2
  <2>2. /\ u.coin \in Nat /\ u.datum.maxCost \in Nat
        /\ Max({0, u.coin - u.datum.maxCost}) <= PaidTo(owner, tx)
    BY <2>1, EachDueIsPaid
  <2> QED
    BY <2>1, <2>2, DueToOne
<1> QED
  BY <1>1, <1>2

(* No owner of one request a transaction at most is ever charged more than *)
(* its maximal cost.                                                       *)
THEOREM OwnersChargedFairly ==
  Spec => [](OneRequestPerOwner => OwnersChargedAtMostMaxCost)
<1>1. IndInv /\ OneRequestPerOwner => OwnersChargedAtMostMaxCost
  BY FairToOne DEF OneRequestPerOwner, OwnersChargedAtMostMaxCost
<1> QED
  BY <1>1, Invariance, PTL

-----------------------------------------------------------------------------

(* What the demo contract takes for good news.                             *)
GoodNews(v) ==
  /\ v.tokens = One(ResponseAsset(Wanted))
  /\ v.addr = ResponseAddr
  /\ v.datum.error = 0 /\ IsResponseGood(v.datum)
  /\ now < v.datum.timestamp + UserValidityPeriod

(* What goes from the demo contract goes beside a good response.           *)
UserSpends ==
  \A u \in utxos \ utxos' :
    u.addr = UserAddr => \E v \in Responses \cap Responses' : GoodNews(v)

(* What the contract has seen is a response, for the token is at home.     *)
LEMMA UserWaitsForGoodNewsStep ==
  ASSUME IndInv, OutputsChange
  PROVE  UserSpends
<1> SUFFICES ASSUME NEW u \in utxos, u \notin utxos', u.addr = UserAddr
             PROVE  \E v \in Responses \cap Responses' : GoodNews(v)
  BY DEF UserSpends
<1>1. PICK tx : Submit(tx)
  BY DEF OutputsChange
<1>2. u \in GuardedBy(UserAddr, tx)
  BY <1>1 DEF Submit, GuardedBy
<1>3. UserValidates(tx)
  BY <1>1, <1>2 DEF Submit, Accepted, ScriptsAccept, UserScriptAccepts
<1>4. PICK v \in tx.refs :
        /\ Quantity(v, ResponseAsset(Wanted)) = 1
        /\ v.datum \in DataItem
        /\ v.datum.error = 0
        /\ IsResponseGood(v.datum)
        /\ After(v.datum.timestamp + UserValidityPeriod, tx)
  BY <1>3 DEF UserValidates
<1>5. v \in utxos /\ v \in utxos'
  BY <1>1 DEF Submit, Accepted, LedgerAccepts
<1>6. ResponseAsset(Wanted) \in DOMAIN v.tokens
  BY <1>4 DEF Quantity
<1>7. HasCurrency(v, "response")
  BY <1>6 DEF HasCurrency, ResponseAsset
<1>8. v \in Responses /\ v \in Responses'
  BY <1>5, <1>7 DEF Responses
<1>9. v.addr = ResponseAddr /\ v.tokens = One(ResponseAsset(Wanted))
  <2>1. v.addr = ResponseAddr
    BY <1>8 DEF IndInv, ResponseTokensAtHome
  <2>2. PICK a : v.tokens = One(ResponseAsset(a.tn))
    BY <1>8 DEF IndInv, ResponseTokensAtHome
  <2>3. DOMAIN v.tokens = {ResponseAsset(a.tn)}
    BY <2>2, Zenon DEF One
  <2>4. ResponseAsset(Wanted) = ResponseAsset(a.tn)
    BY <1>6, <2>3, Zenon
  <2> QED
    BY <2>1, <2>2, <2>4
<1>10. now < v.datum.timestamp + UserValidityPeriod
  <2>1. now < tx.hi /\ tx.hi \in Int /\ now \in Int
    BY <1>1, TimesAssumption
    DEF Submit, Accepted, LedgerAccepts, IndInv, TypeOK
  <2>2. v.datum.timestamp + UserValidityPeriod >= tx.hi
    BY <1>4 DEF After
  <2>3. v.datum.timestamp + UserValidityPeriod \in Int
    BY <1>4 DEF DataItem, UserValidityPeriod
  <2> QED
    BY <2>1, <2>2, <2>3
<1> QED
  BY <1>4, <1>8, <1>9, <1>10 DEF GoodNews

(* What is locked at the demo contract is spent only while a good response *)
(* of the wanted pool action is on chain.                                  *)
THEOREM UserWaitsForGoodNews == Spec => UserSpendsOnGoodNews
<1>1. IndInv /\ IndInv' /\ [Next]_vars => UserSpends
  BY OutputsChangeBySubmit, UserWaitsForGoodNewsStep
<1> QED
  BY <1>1, Invariance, PTL DEF Spec, UserSpendsOnGoodNews, UserSpends, GoodNews
-----------------------------------------------------------------------------

(* Chain implements ResponseSlot: the freshest response of a pool action   *)
(* is a slot that only gets fresher.  A transaction either publishes to    *)
(* one slot or changes none.                                               *)

(* An output with a pool action's response token has the currency.         *)
LEMMA ResponseCurrency ==
  ASSUME NEW p, NEW u, u.tokens = One(ResponseAsset(p))
  PROVE  HasCurrency(u, "response")
<1>1. ResponseAsset(p) \in DOMAIN u.tokens
  BY DEF One
<1>2. ResponseAsset(p).cs = "response"
  BY DEF ResponseAsset
<1> QED
  BY <1>1, <1>2 DEF HasCurrency

(* A response of a pool action is a response, with a data item.            *)
LEMMA ResponsesOfAreResponses ==
  ASSUME IndInv, NEW p, NEW u \in ResponsesOf(p)
  PROVE  u \in Responses /\ u \in utxos /\ u.datum.timestamp \in Nat
<1>1. u \in utxos /\ ResponseAsset(p) \in DOMAIN u.tokens
  BY OneToken DEF ResponsesOf
<1>2. u \in Responses
  BY <1>1 DEF Responses, HasCurrency, ResponseAsset
<1> QED
  BY <1>1, <1>2 DEF IndInv, ResponseTokensAtHome, DataItem

(* Different pool actions have different responses.                        *)
LEMMA ResponsesOfOne ==
  ASSUME NEW p, NEW q, NEW u,
         u.tokens = One(ResponseAsset(p)), u.tokens = One(ResponseAsset(q))
  PROVE  p = q
<1>1. ResponseAsset(p) = ResponseAsset(q)
  BY OneInjective
<1> QED
  BY <1>1 DEF ResponseAsset

(* The stamps of a set of outputs: every time up to one of theirs.         *)
Stamped(S) == UNION {0 .. u.datum.timestamp : u \in S}

(* One output that is newer than some of S takes their place.              *)
LEMMA StampedByNewer ==
  ASSUME NEW S, NEW R, NEW o, R \subseteq S,
         \A u \in S : u.datum.timestamp \in Nat,
         o.datum.timestamp \in Nat,
         \A u \in S \ R : u.datum.timestamp <= o.datum.timestamp
  PROVE  \/ Stamped(R \cup {o}) = Stamped(S)
         \/ /\ Stamped(S) \subseteq 0 .. o.datum.timestamp
            /\ Stamped(R \cup {o}) = 0 .. o.datum.timestamp
<1>1. CASE \A u \in R : u.datum.timestamp <= o.datum.timestamp
  <2>1. \A u \in S : u.datum.timestamp <= o.datum.timestamp
    BY <1>1
  <2>2. \A u \in S : 0 .. u.datum.timestamp \subseteq 0 .. o.datum.timestamp
    BY <2>1
  <2>3. Stamped(S) \subseteq 0 .. o.datum.timestamp
    BY <2>2 DEF Stamped
  <2>4. Stamped(R \cup {o}) = 0 .. o.datum.timestamp
    BY <2>2 DEF Stamped
  <2> QED
    BY <2>3, <2>4
<1>2. CASE \E v \in R : ~(v.datum.timestamp <= o.datum.timestamp)
  <2>1. PICK v \in R : ~(v.datum.timestamp <= o.datum.timestamp)
    BY <1>2
  <2>2. v \in S /\ v.datum.timestamp \in Nat
    BY <2>1
  <2>3. 0 .. o.datum.timestamp \subseteq 0 .. v.datum.timestamp
    BY <2>1, <2>2
  <2>4. \A u \in S \ R : 0 .. u.datum.timestamp \subseteq 0 .. v.datum.timestamp
    BY <2>1, <2>2
  <2>5. Stamped(R \cup {o}) \subseteq Stamped(S)
    BY <2>2, <2>3 DEF Stamped
  <2>6. Stamped(S) \subseteq Stamped(R \cup {o})
    BY <2>1, <2>4 DEF Stamped
  <2> QED
    BY <2>5, <2>6
<1> QED
  BY <1>1, <1>2

(* The outputs of other pool actions are left alone by a transaction that  *)
(* publishes a response, and all are by one that does not.                 *)
LEMMA OtherSlotsUntouched ==
  ASSUME IndInv, NEW tx, Submit(tx), NEW p,
         \A o \in tx.outs : o.tokens # One(ResponseAsset(p))
  PROVE  ResponsesOf(p)' = ResponsesOf(p)
<1>1. utxos' = (utxos \ tx.ins) \cup {o \in tx.outs : Tracked(o)}
  BY DEF Submit
<1>2. \A u \in ResponsesOf(p) : u \notin tx.ins
  <2> SUFFICES ASSUME NEW u \in ResponsesOf(p), u \in tx.ins
               PROVE  FALSE
    OBVIOUS
  <2>1. u \in Responses
    BY ResponsesOfAreResponses
  <2>2. PICK o \in tx.outs : o.tokens = u.tokens
    BY <2>1, SpentResponseIsSuperseded
  <2> QED
    BY <2>2 DEF ResponsesOf
<1> QED
  BY <1>1, <1>2 DEF ResponsesOf

(* A transaction that publishes a response of a pool action leaves that    *)
(* response and those it did not spend, which were newer or not.           *)
LEMMA SlotTouched ==
  ASSUME IndInv, IndInv', NEW tx, Submit(tx), NEW p,
         NEW o \in tx.outs, o.tokens = One(ResponseAsset(p))
  PROVE  /\ o.datum.timestamp \in Times
         /\ ResponsesOf(p)' = (ResponsesOf(p) \ tx.ins) \cup {o}
         /\ \A u \in ResponsesOf(p) \cap tx.ins :
              u.datum.timestamp <= o.datum.timestamp
         /\ \A q : q # p => \A r \in tx.outs : r.tokens # One(ResponseAsset(q))
<1>1. HasCurrency(o, "response")
  BY ResponseCurrency
<1>2. PICK m \in signed, spent \in SUBSET tx.ins :
        ResponseValidates(m, spent, signed, tx)
  BY <1>1, ResponseScriptRuns DEF Submit, IndInv
<1>3. \A r \in tx.outs : HasCurrency(r, "response") => r = o
  <2>1. PICK s \in tx.outs : {r \in tx.outs : HasCurrency(r, "response")} = {s}
    BY <1>2 DEF ResponseValidates, StoresResponse
  <2> QED
    BY <1>1, <2>1
<1>4. \A r \in tx.outs : \A q : r.tokens = One(ResponseAsset(q)) => r = o /\ q = p
  <2> SUFFICES ASSUME NEW r \in tx.outs, NEW q, r.tokens = One(ResponseAsset(q))
               PROVE  r = o /\ q = p
    OBVIOUS
  <2>1. HasCurrency(r, "response")
    BY ResponseCurrency
  <2>2. r = o
    BY <1>3, <2>1
  <2> QED
    BY <2>2, ResponsesOfOne
<1>5. o \in utxos'
  BY <1>1, AcceptedResponse
<1>6. ResponsesOf(p)' = (ResponsesOf(p) \ tx.ins) \cup {o}
  <2>1. utxos' = (utxos \ tx.ins) \cup {r \in tx.outs : Tracked(r)}
    BY DEF Submit
  <2> QED
    BY <1>4, <1>5, <2>1 DEF ResponsesOf
<1>7. o.datum.timestamp \in Times
  <2>1. \E oracle \in tx.refs : \E pool \in DOMAIN oracle.tokens :
          VouchedBy(o, m, oracle, pool, tx)
    BY <1>1, <1>2, ValidatedOutput DEF IndInv
  <2>2. o.datum = m.item
    BY <2>1 DEF VouchedBy
  <2>3. m \in Messages
    BY DEF IndInv, TypeOK
  <2> QED
    BY <2>2, <2>3, MessagesAssumption
<1>8. \A u \in ResponsesOf(p) \cap tx.ins : u.datum.timestamp <= o.datum.timestamp
  <2> SUFFICES ASSUME NEW u \in ResponsesOf(p), u \in tx.ins
               PROVE  u.datum.timestamp <= o.datum.timestamp
    OBVIOUS
  <2>1. u \in Responses /\ u.datum.timestamp \in Nat
    BY ResponsesOfAreResponses
  <2>2. PICK r \in tx.outs : /\ HasCurrency(r, "response")
                             /\ r.datum.timestamp > u.datum.timestamp
    BY <2>1, SpentResponseIsSuperseded
  <2>3. o.datum.timestamp > u.datum.timestamp
    BY <1>3, <2>2
  <2>4. o.datum.timestamp \in Nat
    BY <1>7, TimesAssumption
  <2> QED
    BY <2>1, <2>3, <2>4
<1> QED
  BY <1>4, <1>6, <1>7, <1>8

-----------------------------------------------------------------------------

(* At first there is no response, and every slot is empty.                 *)
LEMMA InitImplementsSlot ==
  ASSUME Init
  PROVE  Slot!Init
<1>1. \A p : ResponsesOf(p) = {}
  <2> SUFFICES ASSUME NEW p, NEW u \in ResponsesOf(p)
               PROVE  FALSE
    OBVIOUS
  <2>1. u \in Genesis /\ HasCurrency(u, "response")
    BY ResponseCurrency DEF Init, ResponsesOf
  <2> QED
    BY <2>1, GenesisAssumption
<1> QED
  BY <1>1 DEF Slot!Init, Known

(* A transaction publishes to one slot or changes none.                    *)
LEMMA SubmitImplementsSlot ==
  ASSUME IndInv, IndInv', NEW tx, Submit(tx)
  PROVE  Slot!Next \/ Known' = Known
<1>1. CASE \A p \in PoolActionIDs : \A o \in tx.outs : o.tokens # One(ResponseAsset(p))
  <2>1. \A p \in PoolActionIDs : ResponsesOf(p)' = ResponsesOf(p)
    BY <1>1, OtherSlotsUntouched
  <2> QED
    BY <2>1 DEF Known
<1>2. CASE ~\A p \in PoolActionIDs : \A o \in tx.outs : o.tokens # One(ResponseAsset(p))
  <2>1. PICK p \in PoolActionIDs, o \in tx.outs : o.tokens = One(ResponseAsset(p))
    BY <1>2
  <2>2. /\ o.datum.timestamp \in Times
        /\ ResponsesOf(p)' = (ResponsesOf(p) \ tx.ins) \cup {o}
        /\ \A u \in ResponsesOf(p) \cap tx.ins :
             u.datum.timestamp <= o.datum.timestamp
        /\ \A q : q # p => \A r \in tx.outs : r.tokens # One(ResponseAsset(q))
    BY <2>1, SlotTouched
  <2>3. \A q \in PoolActionIDs \ {p} : ResponsesOf(q)' = ResponsesOf(q)
    BY <2>2, OtherSlotsUntouched
  <2>4. \A u \in ResponsesOf(p) : u.datum.timestamp \in Nat
    BY ResponsesOfAreResponses
  <2>5. \/ Stamped(ResponsesOf(p)') = Stamped(ResponsesOf(p))
        \/ /\ Stamped(ResponsesOf(p)) \subseteq 0 .. o.datum.timestamp
           /\ Stamped(ResponsesOf(p)') = 0 .. o.datum.timestamp
    <3>1. o.datum.timestamp \in Nat
      BY <2>2, TimesAssumption
    <3>2. \A u \in ResponsesOf(p) \ (ResponsesOf(p) \ tx.ins) :
            u.datum.timestamp <= o.datum.timestamp
      BY <2>2
    <3> DEFINE S == ResponsesOf(p)
    <3> DEFINE R == S \ tx.ins
    <3>3. /\ R \subseteq S
          /\ \A u \in S : u.datum.timestamp \in Nat
          /\ \A u \in S \ R : u.datum.timestamp <= o.datum.timestamp
      BY <2>4, <3>2
    <3> HIDE DEF S, R
    <3>4. \/ Stamped(R \cup {o}) = Stamped(S)
          \/ /\ Stamped(S) \subseteq 0 .. o.datum.timestamp
             /\ Stamped(R \cup {o}) = 0 .. o.datum.timestamp
      BY <3>1, <3>3, StampedByNewer
    <3>5. Stamped(R \cup {o}) = Stamped(ResponsesOf(p)')
      BY <2>2 DEF R, S
    <3> QED
      BY <3>4, <3>5 DEF S
  <2>6. /\ Known = [q \in PoolActionIDs |-> Stamped(ResponsesOf(q))]
        /\ Known' = [q \in PoolActionIDs |-> Stamped(ResponsesOf(q)')]
    BY DEF Known, Stamped
  <2>7. CASE Stamped(ResponsesOf(p)') = Stamped(ResponsesOf(p))
    BY <2>3, <2>6, <2>7
  <2>8. CASE /\ Stamped(ResponsesOf(p)) \subseteq 0 .. o.datum.timestamp
             /\ Stamped(ResponsesOf(p)') = 0 .. o.datum.timestamp
    <3>1. Known[p] \subseteq 0 .. o.datum.timestamp
      BY <2>1, <2>6, <2>8
    <3>2. Known' = [Known EXCEPT ![p] = 0 .. o.datum.timestamp]
      BY <2>1, <2>3, <2>6, <2>8
    <3>3. Slot!Publish(p, o.datum.timestamp)
      BY <3>1, <3>2 DEF Slot!Publish, Slot!UpTo
    <3> QED
      BY <2>1, <2>2, <3>3 DEF Slot!Next
  <2> QED
    BY <2>5, <2>7, <2>8
<1> QED
  BY <1>1, <1>2

(* ... and so does any step that changes the outputs by transactions.      *)
LEMMA SlotStep ==
  ASSUME IndInv, IndInv', OutputsChange
  PROVE  [Slot!Next]_Known
<1>1. CASE utxos' = utxos
  BY <1>1 DEF Known, ResponsesOf
<1>2. CASE \E tx : Submit(tx)
  BY <1>2, SubmitImplementsSlot
<1> QED
  BY <1>1, <1>2 DEF OutputsChange

(* The scripts implement the slots.                                        *)
THEOREM Refinement == Spec => ImplementsResponseSlot
<1>1. Init => Slot!Init
  BY InitImplementsSlot
<1>2. IndInv /\ IndInv' /\ [Next]_vars => [Slot!Next]_Known
  BY OutputsChangeBySubmit, SlotStep
<1> QED
  BY <1>1, <1>2, Invariance, PTL DEF Spec, Slot!Spec, ImplementsResponseSlot
=============================================================================
