------------------------------ MODULE Wallets ------------------------------
(***************************************************************************)
(* What the wallet that pays for a transaction adds to it: inputs that     *)
(* cover what the transaction spends beyond its own, and the change.  The  *)
(* library that builds the transactions chooses the inputs, here any that  *)
(* suffice, from what it sees at the wallet's address, where an output is  *)
(* seen until a block has spent it.                                        *)
(*                                                                         *)
(* And the wallet called library, whose outputs carry the scripts, for     *)
(* transactions to refer to.                                               *)
(***************************************************************************)
EXTENDS Builders

(* The outputs that can pay.                                               *)
Purse(view, wallet) ==
  {u \in view : u.addr = KeyAddr(wallet) /\ u.datum = NoDatum /\ u.tokens = NoTokens}

Picks(view, wallet, tx, atLeast) ==
  {P \in SUBSET (Purse(view, wallet) \ tx.ins) : CoinOf(P) + RelayerGain(tx) >= atLeast}

(* The change is an output of its own, which has to be worth its bytes.    *)
Balanced(view, wallet, tx, id) ==
  {[tx EXCEPT !.ins  = @ \cup P,
              !.outs = @ \cup {Output(<<id, 2>>, KeyAddr(wallet),
                                      CoinOf(P) + RelayerGain(tx), NoTokens, NoDatum)}] :
     P \in Picks(view, wallet, tx, MinCoin(ChangeBytes))}

(* merge_change: the change is added to the output there is for the wallet. *)
Merged(view, wallet, tx, id) ==
  {[tx EXCEPT !.ins  = @ \cup P,
              !.outs = {[o EXCEPT !.coin =
                           IF o.addr = KeyAddr(wallet) THEN @ + CoinOf(P) + RelayerGain(tx)
                                                       ELSE @] : o \in @}] :
     P \in Picks(view, wallet, tx, 0)}

-----------------------------------------------------------------------------

(* Mutant of ConsolidateTxs: two outputs are taken to be few enough.       *)
ConsolidateMany(view, wallet, fee, id) ==
  {Tx(Purse(view, wallet) \ {largest}, {},
      {Output(<<id, 0>>, KeyAddr(wallet), CoinOf(Purse(view, wallet) \ {largest}),
              NoTokens, NoDatum)},
      0, EndOfTime, {wallet}, fee) :
     largest \in {u \in Purse(view, wallet) :
                    /\ Cardinality(Purse(view, wallet)) > 2
                    /\ \A v \in Purse(view, wallet) : v.coin <= u.coin}}

(* consolidate.py: all outputs but the largest are spent, for one output   *)
(* of as much, and the largest is there to pay the fee.                    *)
ConsolidateTxs(view, wallet, fee, id) ==
  {Tx(Purse(view, wallet) \ {largest}, {},
      {Output(<<id, 0>>, KeyAddr(wallet), CoinOf(Purse(view, wallet) \ {largest}),
              NoTokens, NoDatum)},
      0, EndOfTime, {wallet}, fee) :
     largest \in {u \in Purse(view, wallet) :
                    \A v \in Purse(view, wallet) : v.coin <= u.coin}}

(* topup.py                                                                *)
TopUpTx(wallet, recipient, coin, fee, id) ==
  Tx({}, {}, {Output(<<id, 0>>, KeyAddr(recipient), coin, NoTokens, NoDatum)},
     0, EndOfTime, {wallet}, fee)

-----------------------------------------------------------------------------

(* scripts.py                                                              *)

(* ScriptRepository.all                                                    *)
StoredScripts(view, library) ==
  {u \in view : u.addr = KeyAddr(library) /\ u.datum \in ScriptRef}

(* Mutant of References: transactions no longer carry the script.          *)
ReferencesOnly(view, library, script) ==
  {{u} : u \in {v \in StoredScripts(view, library) : v.datum.script = script}}

(* try_refer_to_script: an output that has the script, or none and the     *)
(* script in the transaction itself.                                       *)
References(view, library, script) ==
  LET found == {u \in StoredScripts(view, library) : u.datum.script = script}
  IN  IF found = {} THEN {{}} ELSE {{u} : u \in found}

(* Mutant of Missing: what is there already is added again.                *)
MissingOrNot(view, library) == ScriptNames

Missing(view, library) ==
  ScriptNames \ {u.datum.script : u \in StoredScripts(view, library)}

(* One output for each script; the first two places are others'.           *)
Place == [request |-> 3, response |-> 4, single |-> 5]

AddScriptsTx(view, wallet, library, scriptBytes, fee, id) ==
  Tx({}, {},
     {Output(<<id, Place[s]>>, KeyAddr(library), MinCoin(scriptBytes), NoTokens,
             [script |-> s]) : s \in Missing(view, library)},
     0, EndOfTime, {wallet}, fee)

ClearTx(view, wallet, library, fee, id) ==
  LET scripts == StoredScripts(view, library)
  IN  Tx(scripts, {}, {Output(<<id, 0>>, KeyAddr(wallet), CoinOf(scripts), NoTokens,
                              NoDatum)},
         0, EndOfTime, {wallet, library}, fee)
=============================================================================
