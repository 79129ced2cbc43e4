------------------------------- MODULE WaitTx -------------------------------
(***************************************************************************)
(* The command relay.py with --submit and --wait, beside all others: it    *)
(* submits a transaction and handle_tx (src/off-chain/utils.py) looks      *)
(* every five seconds whether an output of it is at the address of its     *)
(* first, which is the response.  There is no time-out.                    *)
(***************************************************************************)
EXTENDS Offchain

VARIABLES
  waiting,     \* the first outputs of the transactions commands wait for
  confirmed    \* ... and of those found

waitvars == <<utxos, now, signed, tip, pending, built, waiting, confirmed>>

RelayAndWait(msg) ==
  /\ Relay(msg)
  /\ waiting' = waiting \cup UNION {tx.outs : tx \in pending' \ pending}
  /\ UNCHANGED confirmed

(* Mutant of Confirmed: any output at the address will do.                 *)
ConfirmedByAny(o) == \E u \in utxos : u.addr = o.addr

(* References are (transaction, index).                                    *)
Confirmed(o) == \E u \in utxos : u.addr = o.addr /\ u.ref[1] = o.ref[1]

Poll(o) ==
  /\ Confirmed(o)
  /\ waiting' = waiting \ {o}
  /\ confirmed' = confirmed \cup {o}
  /\ UNCHANGED offvars

WaitInit == OffInit /\ waiting = {} /\ confirmed = {}

WaitNext ==
  \/ \E msg \in Held : RelayAndWait(msg)
  \/ \E o \in waiting : Poll(o)
  \/ OffNext /\ UNCHANGED <<waiting, confirmed>>

(* Every command keeps polling.                                            *)
WaitSpec ==
  /\ WaitInit /\ [][WaitNext]_waitvars
  /\ \A id \in 1 .. MaxBuilt :
       WF_waitvars(\E o \in waiting : o.ref = <<id, 0>> /\ Poll(o))

-----------------------------------------------------------------------------

(* Once a command has printed "Transaction confirmed.", whoever looks for  *)
(* the pool action finds, for ever, a response that is no older than the   *)
(* one the command has published, whatever others publish and merge.       *)
PublishedForGood ==
  \A o \in confirmed :
    \E r \in Responses :
      r.tokens = o.tokens /\ r.datum.timestamp >= o.datum.timestamp

(* A command whose transaction is on chain, as --wait waits for, ends.     *)
CommandsEnd ==
  \A id \in 1 .. MaxBuilt :
    (\E o \in waiting \cap utxos : o.ref = <<id, 0>>)
      ~> ~(\E o \in waiting : o.ref = <<id, 0>>)
=============================================================================
