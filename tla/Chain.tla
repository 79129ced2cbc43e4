-------------------------------- MODULE Chain --------------------------------
(***************************************************************************)
(* The chain as the oracle's scripts govern it: any transaction that the   *)
(* ledger and every script it runs accept may happen, whoever built it.    *)
(* The builders of src/off-chain are some of those who build them.         *)
(*                                                                         *)
(* A script runs once for each input it guards and, if it is a minting     *)
(* policy, once when the supply of its tokens changes.  The builder picks  *)
(* the redeemer of each run, so a run succeeds iff some redeemer makes it  *)
(* succeed.                                                                *)
(***************************************************************************)
EXTENDS ResponseValidator, RequestValidator, SingleOraclePoolValidator,
        ExampleUserValidator

CONSTANTS
  Times,                \* what the clock shows, in seconds
  Purses,               \* addresses whose ada-only outputs are kept track of
  Messages,             \* what trust domains may sign
  Genesis,              \* the outputs there are when the policies are deployed
  Candidates(_, _, _)   \* the transactions considered in a state

ASSUME TimesAssumption == Times \subseteq Nat

ASSUME MessagesAssumption ==
  /\ Messages \subseteq OracleMessage
  /\ \A m \in Messages : m.item.timestamp \in Times /\ Bytes(m.item) \in Nat

VARIABLES
  utxos,    \* the unspent outputs, ada-only ones at most key addresses left out
  now,      \* the time
  signed    \* the messages trust domains have signed

vars == <<utxos, now, signed>>

Datums == {NoDatum} \cup OracleDatum \cup DataItem \cup Request \cup ScriptRef

(* Nothing is minted before the scripts that mint it exist.                *)
ASSUME GenesisAssumption ==
  /\ IsFiniteSet(Genesis)
  /\ \A u \in Genesis :
       /\ u.coin \in Nat
       /\ ~HasCurrency(u, "response") /\ ~HasCurrency(u, "single")
       /\ u.datum \in Datums
       /\ \A a \in DOMAIN u.tokens : u.tokens[a] \in Nat \ {0}
  /\ \A u, v \in Genesis : u.ref = v.ref => u = v

-----------------------------------------------------------------------------

MintsOf(cs, tx) == \E a \in Minted(tx) : a.cs = cs

GuardedBy(addr, tx) == {u \in tx.ins : u.addr = addr}

ResponseScriptAccepts(tx) ==
  /\ \A u \in GuardedBy(ResponseAddr, tx) :
       \E m \in signed : ResponseValidates(m, {u}, signed, tx)
  /\ MintsOf("response", tx) =>
       \E m \in signed : ResponseValidates(m, {}, signed, tx)

(* The redeemer has to equal the new output's datum, so no other is tried. *)
SinglePoolScriptAccepts(tx) ==
  /\ \A u \in GuardedBy(SinglePoolAddr, tx) :
       \E o \in tx.outs : SinglePoolValidates(o.datum, {u}, tx)
  /\ MintsOf("single", tx) =>
       \E o \in tx.outs : SinglePoolValidates(o.datum, {}, tx)

RequestScriptAccepts(tx) ==
  \A u \in GuardedBy(RequestAddr, tx) : RequestValidates(u, tx)

UserScriptAccepts(tx) ==
  GuardedBy(UserAddr, tx) # {} => UserValidates(tx)

(* The policy of a private pool is the operator's key.                     *)
PrivatePolicyAccepts(tx) ==
  \A a \in Minted(tx) : a.cs = "private" => a.tn.owner \in tx.signers

ScriptsAccept(tx) ==
  /\ ResponseScriptAccepts(tx)
  /\ SinglePoolScriptAccepts(tx)
  /\ RequestScriptAccepts(tx)
  /\ UserScriptAccepts(tx)
  /\ PrivatePolicyAccepts(tx)

(* Ada-only outputs at key addresses are wallets' own business, but for    *)
(* those whose business is looked at.                                      *)
Tracked(o) ==
  \/ o.addr.kind = "script"
  \/ DOMAIN o.tokens # {}
  \/ o.addr \in Purses

Accepted(tx) ==
  /\ \A o \in tx.outs : o.datum \in Datums
  /\ LedgerAccepts(tx, utxos, now)
  /\ ScriptsAccept(tx)

Submit(tx) ==
  /\ Accepted(tx)
  /\ utxos' = (utxos \ tx.ins) \cup {o \in tx.outs : Tracked(o)}
  /\ UNCHANGED <<now, signed>>

(* Mutant of Sign: the item bears the time after the action has run.       *)
SignLate(m) ==
  /\ m.item.timestamp = now
  /\ signed' = signed \cup {[m EXCEPT !.item.timestamp = @ + 1]}
  /\ UNCHANGED <<utxos, now>>

(* A trust domain runs an action and signs the result for a relayer.       *)
Sign(m) ==
  /\ m.item.timestamp = now
  /\ signed' = signed \cup {m}
  /\ UNCHANGED <<utxos, now>>

Tick(t) ==
  /\ t > now
  /\ now' = t
  /\ UNCHANGED <<utxos, signed>>

Init ==
  /\ utxos = Genesis
  /\ now \in Times
  /\ signed = {}

Next ==
  \/ \E tx \in Candidates(utxos, now, signed) : Submit(tx)
  \/ \E m \in Messages : Sign(m)
  \/ \E t \in Times : Tick(t)

Spec == Init /\ [][Next]_vars

-----------------------------------------------------------------------------

(* The outputs that hold a response, and those of one pool action.         *)
Responses == {u \in utxos : HasCurrency(u, "response")}

ResponsesOf(poolActionID) ==
  {u \in utxos : u.tokens = One(ResponseAsset(poolActionID))}

(* The variables' types; an output is known by its reference.              *)
TypeOK ==
  /\ IsFiniteSet(utxos) /\ \A u \in utxos : u.coin \in Nat
  /\ \A u \in utxos : u.datum \in Datums
  /\ \A u \in utxos : \A a \in DOMAIN u.tokens : u.tokens[a] \in Nat \ {0}
  /\ \A u, v \in utxos : u.ref = v.ref => u = v
  /\ now \in Times
  /\ signed \subseteq Messages

(* A response token never leaves the response script's address, where it   *)
(* is alone with a data item, although the policy checks its supply and    *)
(* its guard checks single inputs: together they leave no way out.         *)
ResponseTokensAtHome ==
  \A u \in Responses :
    /\ u.addr = ResponseAddr
    /\ u.datum \in DataItem
    /\ \E a \in DOMAIN u.tokens : u.tokens = One(ResponseAsset(a.tn))

(* The token of a single-oracle pool is for ever with the oracle it is     *)
(* named after: such an oracle can be neither changed nor revoked.         *)
SinglePoolTokensAtHome ==
  \A u \in utxos : HasCurrency(u, "single") =>
    /\ u.addr = SinglePoolAddr
    /\ u.datum \in OracleDatum
    /\ u.datum.pubKey \in Compressed /\ u.datum.period > 0
    /\ u.tokens = One(SingleOracleAsset(u.datum))

(* A response of a single-oracle pool was signed, for that action, by the  *)
(* one oracle the pool is named after.  It takes both scripts: the         *)
(* response script believes whatever datum comes with the pool's token.    *)
SingleOracleAuthentic ==
  \A u \in Responses : \A a \in DOMAIN u.tokens :
    a.tn.pool.cs = "single" =>
      \E m \in signed :
        /\ m.signer = a.tn.pool.tn.pubKey
        /\ m.action = a.tn.action
        /\ m.item = u.datum

(* An oracle registered in a single-oracle pool stays registered: neither  *)
(* by burning its token, by merging its outputs nor by registering another *)
(* oracle in the same transaction is it ever revoked.                      *)
SingleOraclesStay ==
  [][\A u \in utxos : HasCurrency(u, "single") =>
       \E v \in utxos' :
         v.addr = u.addr /\ v.tokens = u.tokens /\ v.datum = u.datum]_vars

(* A response, once on chain, is only ever replaced by one of the same     *)
(* pool action that is not older: not by burning, by merging duplicates or *)
(* by publishing for another pool action in the same transaction.          *)
ResponsesNeverRegress ==
  [][\A u \in Responses :
       \E v \in Responses' :
         v.tokens = u.tokens /\ v.datum.timestamp >= u.datum.timestamp]_vars

(* Every response that enters was signed for its action by an oracle that  *)
(* is then registered in its pool, and has not outlived that oracle's      *)
(* validity period.                                                        *)
NewResponsesAreVouchedFor ==
  [][\A v \in Responses' \ Responses :
       \E m \in signed, oracle \in utxos :
         \E pool \in DOMAIN oracle.tokens :
           /\ oracle.tokens = One(pool)
           /\ v.tokens = One(ResponseAsset(PoolActionID(pool, m.action)))
           /\ v.datum = m.item
           /\ m.signer = oracle.datum.pubKey
           /\ now < m.item.timestamp + oracle.datum.period]_vars

(* A request is spent only once it has expired or together with a response *)
(* to it, made within the requested time, that is then on chain.           *)
RequestsLeaveForAReason ==
  [][\A u \in utxos \ utxos' :
       u.addr = RequestAddr /\ u.datum # NoDatum =>
         \/ now > u.datum.before
         \/ \E v \in Responses' :
              /\ v.tokens = One(ResponseAsset(u.datum.poolActionID))
              /\ u.datum.after <= v.datum.timestamp
              /\ v.datum.timestamp <= u.datum.before]_vars

(* The requests of an owner that a transaction spends before they expire,  *)
(* and their coin less the maximal cost of each.                           *)
Open(owner, tx) ==
  {u \in GuardedBy(RequestAddr, tx) :
     u.datum # NoDatum /\ u.datum.owner = owner /\ now <= u.datum.before}

DueTo(owner, tx) ==
  MapThenSumSet(LAMBDA u : Max({0, u.coin - u.datum.maxCost}), Open(owner, tx))

PaidTo(owner, tx) == CoinOf({o \in tx.outs : o.addr = KeyAddr(owner)})

(* Until requests expire, whatever becomes of them, their owner gets back  *)
(* all but the maximal cost of each, whatever fee, reward and storage come *)
(* to and however many requests are answered at once.                      *)
OwnersChargedAtMostMaxCost ==
  \A tx \in Candidates(utxos, now, signed) :
    Accepted(tx) => \A owner \in Hashes : DueTo(owner, tx) <= PaidTo(owner, tx)

(* What is locked at the demo contract is spent only while a response of   *)
(* the wanted pool action that is successful, good and not yet half an     *)
(* hour old is on chain, whatever else holds a token or a datum like it.   *)
UserSpendsOnGoodNews ==
  [][\A u \in utxos \ utxos' :
       u.addr = UserAddr =>
         \E v \in Responses \cap Responses' :
           /\ v.tokens = One(ResponseAsset(Wanted))
           /\ v.addr = ResponseAddr
           /\ v.datum.error = 0 /\ IsResponseGood(v.datum)
           /\ now < v.datum.timestamp + UserValidityPeriod]_vars

(* The freshest response of each pool action, as ResponseSlot has it.      *)
Known ==
  [p \in PoolActionIDs |->
     UNION {0 .. u.datum.timestamp : u \in ResponsesOf(p)}]

Slot == INSTANCE ResponseSlot
          WITH Slots <- PoolActionIDs, Stamps <- Times, known <- Known

(* The scripts implement the slots: duplicates of a response, responses    *)
(* minted anew beside an old one and merges of several never show.         *)
ImplementsResponseSlot == Slot!Spec
=============================================================================
