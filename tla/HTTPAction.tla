----------------------------- MODULE HTTPAction -----------------------------
(***************************************************************************)
(* The actions that clients ask trust domains to run: an HTTP request, and *)
(* a patch with the parts of it that are nobody else's business, encrypted *)
(* for the one trust domain that it names.                                 *)
(*                                                                         *)
(* What is encrypted can be read by whom it was encrypted for.  A key and  *)
(* the address computed of it are the same value.  The proof that comes    *)
(* with an action depends on nothing but the action and is left out: an    *)
(* action stands for itself and its proof, and for its identifier.         *)
(***************************************************************************)
EXTENDS Integers, FiniteSets

(* The trust domain that an action names, if any: a set of one key, or of  *)
(* none for the zero address, with which an action is anybody's.           *)
AnyTD == {}

(* Encrypted for whoever holds the key.                                    *)
Encrypted(secret, tdKey) == {[part |-> s, for |-> k] : s \in secret, k \in tdKey}

(* create_http_action_with_proof: a client with a secret has to know the   *)
(* key of a trust domain; one who knows it names it even without a secret. *)
Created(request, secret, tdKey) ==
  IF secret # {} /\ tdKey = {} THEN {}
  ELSE {[request |-> request,
         patch |-> [td |-> IF tdKey # {} THEN tdKey ELSE AnyTD,
                    sealed |-> Encrypted(secret, tdKey)]]}

(* The keys of the trust domains that an action asks for, of those there   *)
(* are.                                                                    *)
Designated(action, keys) ==
  {k \in keys : action.patch.td # AnyTD => k \in action.patch.td}

(* Who can run an action: the trust domain that it names, or any, if all   *)
(* that is encrypted is for it.                                            *)
CanRun(key, action) ==
  /\ action.patch.td \subseteq {key}
  /\ \A s \in action.patch.sealed : s.for = key
=============================================================================
