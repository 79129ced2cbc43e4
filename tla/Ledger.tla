------------------------------- MODULE Ledger -------------------------------
(***************************************************************************)
(* The part of the Cardano ledger that the scripts of src/on-chain/src and *)
(* the transaction builders of src/off-chain rely on.  It is external to   *)
(* the repository and is modelled from how the repository uses it.         *)
(*                                                                         *)
(*   - An output is a record [ref, addr, coin, tokens, datum].  "tokens"   *)
(*     is a bag: a function from assets to positive quantities.  Ada is    *)
(*     kept apart in "coin".                                               *)
(*   - An asset is a record [cs, tn]: its policy and its token name.       *)
(*   - A transaction is a record [ins, refs, outs, lo, hi, signers, fee],  *)
(*     where ins, refs and outs are sets of outputs (inputs are given      *)
(*     resolved), lo is the closed lower end and hi the excluded upper end *)
(*     of its validity interval, in seconds.                               *)
(*                                                                         *)
(* Staking credentials, datum hashes, and the ada-only inputs with which   *)
(* a wallet balances a transaction are left out.                           *)
(***************************************************************************)
EXTENDS Integers, FiniteSets, FiniteSetsExt

ScriptAddr(hash) == [kind |-> "script", id |-> hash]
KeyAddr(hash)    == [kind |-> "key", id |-> hash]

(* An output without an inline datum.                                      *)
NoDatum == [none |-> TRUE]

One(asset) == [a \in {asset} |-> 1]
NoTokens   == [a \in {} |-> 0]

(* The policies an output holds tokens of, as "symbols" lists them.        *)
HasCurrency(u, cs) == \E a \in DOMAIN u.tokens : a.cs = cs

(* The names of the tokens of one policy an output holds.                  *)
TokenNames(u, cs) == {a.tn : a \in {b \in DOMAIN u.tokens : b.cs = cs}}

Quantity(u, asset) == IF asset \in DOMAIN u.tokens THEN u.tokens[asset] ELSE 0

CoinOf(S) == MapThenSumSet(LAMBDA u : u.coin, S)

AssetsIn(S) == UNION {DOMAIN u.tokens : u \in S}

Total(S, asset) == MapThenSumSet(LAMBDA u : Quantity(u, asset), S)

(* The assets whose supply the transaction changes, by minting or burning: *)
(* those its inputs and outputs do not hold in equal quantities.           *)
Minted(tx) ==
  {a \in AssetsIn(tx.ins) \cup AssetsIn(tx.outs) :
     \/ a \notin AssetsIn(tx.ins)
     \/ a \notin AssetsIn(tx.outs)
     \/ Total(tx.ins, a) # Total(tx.outs, a)}

(* The interval functions "before" and "after" of PlutusLedgerApi: a time  *)
(* before, or after, every time of the interval.                           *)
Before(t, tx) == t < tx.lo
After(t, tx)  == t >= tx.hi

(* What the ledger asks of every transaction, scripts aside: inputs and    *)
(* reference inputs are unspent and disjoint, outputs are finitely many,   *)
(* are new and hold positive quantities, neither they nor the fee owe      *)
(* coin, the clock is within the validity interval, and whoever owns a     *)
(* spent key address has signed.                                           *)
LedgerAccepts(tx, utxos, now) ==
  /\ tx.ins \subseteq utxos
  /\ tx.refs \subseteq utxos \ tx.ins
  /\ IsFiniteSet(tx.outs)
  /\ \A o \in tx.outs : \A u \in utxos : o.ref # u.ref
  /\ \A o, p \in tx.outs : o.ref = p.ref => o = p
  /\ \A o \in tx.outs : \A a \in DOMAIN o.tokens : o.tokens[a] \in Nat \ {0}
  /\ \A o \in tx.outs : o.coin \in Nat
  /\ tx.fee \in Nat /\ tx.lo \in Int /\ tx.hi \in Int
  /\ tx.lo <= now /\ now < tx.hi
  /\ \A u \in tx.ins : u.addr.kind = "key" => u.addr.id \in tx.signers
=============================================================================
