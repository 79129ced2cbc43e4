---------------------------- MODULE ResponseSlot ----------------------------
(***************************************************************************)
(* What the oracle promises those who read it, with no scripts, outputs or *)
(* tokens: there is one slot per pool action, and it only ever gets        *)
(* fresher.  known[s] is the set of the times up to the freshest response  *)
(* in slot s, {} while there is none (request-mechanics.md, tokens.md).    *)
(***************************************************************************)
EXTENDS Naturals

CONSTANTS
  Slots,
  Stamps        \* the times a response may bear

VARIABLE known

UpTo(t) == 0 .. t

Init == known = [s \in Slots |-> {}]

(* One response is published at a time.                                    *)
Publish(s, t) ==
  /\ known[s] \subseteq UpTo(t)
  /\ known' = [known EXCEPT ![s] = UpTo(t)]

Next == \E s \in Slots, t \in Stamps : Publish(s, t)

Spec == Init /\ [][Next]_known
=============================================================================
