----------------------------- MODULE WaitProofs -----------------------------
(***************************************************************************)
(* What --wait has confirmed stays published.  That the scripts never let  *)
(* a response regress is half of it; the other half is that the output     *)
(* handle_tx finds, by its transaction and its address, is the one the     *)
(* command has submitted, and so a response at all.                        *)
(***************************************************************************)
EXTENDS WaitTx, OffchainProofs

(* The outputs at the responses' address that are there, that may come,    *)
(* and that are waited for.                                                *)
Seen ==
  {o \in utxos \cup Outs \cup waiting : o.addr = ResponseAddr}

(* An output seen there is known by the number of its transaction, which   *)
(* the next one does not have, unless it has been there from the start.    *)
NumbersTell ==
  /\ built \in Nat \ {0}
  /\ \A o \in Seen : o.ref[1] \in 0 .. built - 1
  /\ \A o, p \in Seen : o.ref[1] = p.ref[1] => o = p \/ o.ref[1] = 0

(* Only responses to be published are waited for.                          *)
WaitingForResponses ==
  \A o \in waiting :
    o.addr = ResponseAddr /\ HasCurrency(o, "response") /\ o.ref[1] # 0

ConfirmedAreTimed == \A o \in confirmed : o.datum.timestamp \in Nat

WaitInv ==
  /\ IndInv
  /\ NumbersTell
  /\ WaitingForResponses
  /\ ConfirmedAreTimed
  /\ PublishedForGood

-----------------------------------------------------------------------------

(* What "relay" adds, it adds like any command; its outputs are one, the   *)
(* response.                                                               *)
LEMMA RelayAddsResponse ==
  ASSUME NEW msg \in Held, Relay(msg)
  PROVE  \E tx : /\ Build(tx)
                 /\ Numbered(tx, built)
                 /\ \A o \in tx.outs : /\ o.addr = ResponseAddr
                                       /\ HasCurrency(o, "response")
                                       /\ o.ref[1] = built
<1>1. PICK oracle, tx :
        /\ Build(tx)
        /\ tx = PublishTx(utxos, tip, oracle, msg, msg.relayer, built)
  BY DEF Relay
<1> DEFINE p == PoolActionID(oracle.pool, msg.action)
<1> DEFINE o == ResponseOutput(p, msg.item, built)
<1>2. tx.outs = {o}
  BY <1>1 DEF PublishTx, Tx
<1>3. /\ o.addr = ResponseAddr
      /\ o.tokens = One(ResponseAsset(p))
      /\ o.ref[1] = built
  BY DEF ResponseOutput, TokenOutput, Output
<1>4. HasCurrency(o, "response")
  BY <1>3, ResponseCurrency
<1> HIDE DEF o
<1> QED
  BY <1>1, <1>2, <1>3, <1>4 DEF Numbered

(* Nothing is seen that has not been seen or is of a transaction with the  *)
(* next number.                                                            *)
LEMMA NumbersTellOn ==
  ASSUME NumbersTell, NEW New,
         Seen' \subseteq Seen \cup New,
         \/ built' = built /\ New = {}
         \/ /\ built' = built + 1
            /\ \A o, p \in New : o = p /\ o.ref[1] = built
  PROVE  NumbersTell'
<1>1. CASE built' = built /\ New = {}
  BY <1>1 DEF NumbersTell
<1>2. CASE built' = built + 1 /\ \A o, p \in New : o = p /\ o.ref[1] = built
  <2>1. built' \in Nat \ {0}
    BY <1>2 DEF NumbersTell
  <2>2. \A o \in Seen' : o.ref[1] \in 0 .. built' - 1
    BY <1>2 DEF NumbersTell
  <2>3. ASSUME NEW o \in Seen', NEW p \in Seen', o.ref[1] = p.ref[1]
        PROVE  o = p \/ o.ref[1] = 0
    <3>1. \A q \in Seen : q.ref[1] # built
      BY DEF NumbersTell
    <3> QED
      BY <1>2, <2>3, <3>1 DEF NumbersTell
  <2> QED
    BY <2>1, <2>2, <2>3 DEF NumbersTell
<1> QED
  BY <1>1, <1>2

(* A step of the commands that do not wait, or of their environment.       *)
LEMMA OffNextNumbersTell ==
  ASSUME NumbersTell, OffNext, waiting' = waiting
  PROVE  NumbersTell'
<1>1. CASE Command
  <2>1. utxos' = utxos
    BY <1>1, CommandOnlySubmits
  <2>2. PICK tx : /\ pending' = pending \cup {tx}
                  /\ \/ Numbered(tx, built) /\ built' = built + 1
                     \/ /\ \A o \in tx.outs : ~AtScript(o)
                        /\ built' = built
    BY <1>1, CommandAddsOne DEF OneMorePending
  <2> DEFINE New == {o \in tx.outs : o.addr = ResponseAddr}
  <2>3. Seen' \subseteq Seen \cup New
    BY <2>1, <2>2 DEF Seen, Outs
  <2>4. CASE Numbered(tx, built) /\ built' = built + 1
    <3>1. \A o, p \in New : o = p /\ o.ref[1] = built
      BY <2>4 DEF Numbered, AtScript, ResponseAddr, ScriptAddr
    <3> HIDE DEF New
    <3> QED
      BY <2>3, <2>4, <3>1, NumbersTellOn
  <2>5. CASE (\A o \in tx.outs : ~AtScript(o)) /\ built' = built
    <3>1. New = {}
      BY <2>5 DEF AtScript, ResponseAddr, ScriptAddr
    <3> HIDE DEF New
    <3> QED
      BY <2>3, <2>5, <3>1, NumbersTellOn
  <2> QED
    BY <2>2, <2>4, <2>5
<1>2. CASE Environment
  <2>1. built' = built
    BY <1>2 DEF Environment, Include, Forget, EmptyBlock
  <2>2. Seen' \subseteq Seen
    <3>1. CASE \E tx \in pending : Include(tx)
      BY <3>1 DEF Include, Submit, Seen, Outs
    <3>2. CASE \E tx \in pending : Forget(tx)
      BY <3>2 DEF Forget, Seen, Outs
    <3>3. CASE utxos' = utxos /\ pending' = pending
      BY <3>3 DEF Seen, Outs
    <3> QED
      BY <1>2, <3>1, <3>2, <3>3 DEF Environment, EmptyBlock, Sign, Tick
  <2> QED
    BY <2>1, <2>2, NumbersTellOn
<1> QED
  BY <1>1, <1>2 DEF OffNext

(* A command that waits submits as one that does not.                      *)
LEMMA RelayAndWaitNumbersTell ==
  ASSUME NumbersTell, NEW msg \in Held, RelayAndWait(msg)
  PROVE  NumbersTell' /\ (WaitingForResponses => WaitingForResponses')
<1>1. PICK tx : /\ Build(tx)
                /\ Numbered(tx, built)
                /\ \A o \in tx.outs : /\ o.addr = ResponseAddr
                                      /\ HasCurrency(o, "response")
                                      /\ o.ref[1] = built
  BY RelayAddsResponse DEF RelayAndWait
<1>2. /\ utxos' = utxos
      /\ pending' = pending \cup {tx}
      /\ built' = built + 1
  BY <1>1 DEF Build, SubmitToNode
<1>3. waiting' \subseteq waiting \cup tx.outs
  BY <1>2 DEF RelayAndWait
<1>4. NumbersTell'
  <2>1. Seen' \subseteq Seen \cup tx.outs
    BY <1>2, <1>3 DEF Seen, Outs
  <2>2. \A o, p \in tx.outs : o = p /\ o.ref[1] = built
    BY <1>1 DEF Numbered
  <2> QED
    BY <1>2, <2>1, <2>2, NumbersTellOn
<1>5. ASSUME WaitingForResponses PROVE WaitingForResponses'
  <2>1. built # 0
    BY DEF NumbersTell
  <2> QED
    BY <1>1, <1>3, <1>5, <2>1 DEF WaitingForResponses
<1> QED
  BY <1>4, <1>5

(* What has been published for good is so after a transaction.             *)
LEMMA StillPublished ==
  ASSUME WaitInv, IndInv', OutputsChange, confirmed' = confirmed
  PROVE  PublishedForGood' /\ ConfirmedAreTimed'
<1>1. ConfirmedAreTimed'
  BY DEF WaitInv, ConfirmedAreTimed
<1>2. ResponsesKept
  BY NoRegressStep DEF WaitInv
<1>3. ASSUME NEW o \in confirmed'
      PROVE  \E r \in Responses' : /\ r.tokens = o.tokens
                                   /\ r.datum.timestamp >= o.datum.timestamp
  <2>1. PICK q \in Responses : /\ q.tokens = o.tokens
                               /\ q.datum.timestamp >= o.datum.timestamp
    BY <1>3 DEF WaitInv, PublishedForGood
  <2>2. PICK r \in Responses' : /\ r.tokens = q.tokens
                                /\ r.datum.timestamp >= q.datum.timestamp
    BY <1>2 DEF ResponsesKept
  <2>3. o.datum.timestamp \in Nat
    BY <1>3 DEF WaitInv, ConfirmedAreTimed
  <2>4. q.datum.timestamp \in Nat
    BY DEF WaitInv, IndInv, ResponseTokensAtHome, DataItem
  <2>5. r.datum.timestamp \in Nat
    BY DEF IndInv, ResponseTokensAtHome, DataItem
  <2> QED
    BY <2>1, <2>2, <2>3, <2>4, <2>5
<1> QED
  BY <1>1, <1>3 DEF PublishedForGood

(* The output that is found is the one waited for.                         *)
LEMMA PollConfirmsAResponse ==
  ASSUME WaitInv, NEW o \in waiting, Poll(o)
  PROVE  WaitInv'
<1>1. /\ UNCHANGED <<utxos, now, signed, pending, built>>
      /\ waiting' = waiting \ {o}
      /\ confirmed' = confirmed \cup {o}
  BY DEF Poll, offvars
<1>2. IndInv'
  BY <1>1, IdlePreservesIndInv DEF WaitInv, IndInv, TypeOK
<1>3. NumbersTell'
  <2>1. Seen' \subseteq Seen
    BY <1>1 DEF Seen, Outs
  <2> QED
    BY <1>1, <2>1, NumbersTellOn DEF WaitInv
<1>4. WaitingForResponses'
  BY <1>1 DEF WaitInv, WaitingForResponses
<1>5. o \in Responses /\ o.datum.timestamp \in Nat
  <2>1. /\ o.addr = ResponseAddr
        /\ HasCurrency(o, "response")
        /\ o.ref[1] # 0
    BY DEF WaitInv, WaitingForResponses
  <2>2. PICK u \in utxos : u.addr = o.addr /\ u.ref[1] = o.ref[1]
    BY DEF Poll, Confirmed
  <2>3. u \in Seen /\ o \in Seen
    BY <2>1, <2>2 DEF Seen, Outs
  <2>4. u = o
    BY <2>1, <2>2, <2>3 DEF WaitInv, NumbersTell
  <2>5. o \in Responses
    BY <2>1, <2>4 DEF Responses
  <2> QED
    BY <2>5 DEF WaitInv, IndInv, ResponseTokensAtHome, DataItem
<1>6. Responses' = Responses
  BY <1>1 DEF Responses
<1>7. ConfirmedAreTimed'
  BY <1>1, <1>5 DEF WaitInv, ConfirmedAreTimed
<1>8. PublishedForGood'
  BY <1>1, <1>5, <1>6 DEF WaitInv, PublishedForGood
<1> QED
  BY <1>2, <1>3, <1>4, <1>7, <1>8 DEF WaitInv

(* At first nothing is waited for.                                         *)
LEMMA WaitInitEstablishesWaitInv ==
  ASSUME WaitInit
  PROVE  WaitInv
<1>1. IndInv
  BY InitEstablishesIndInv DEF WaitInit, OffInit
<1>2. Seen \subseteq Genesis /\ built = 1
  BY DEF WaitInit, OffInit, Init, Seen, Outs
<1>3. NumbersTell
  BY <1>2, NumbersAssumption DEF NumbersTell
<1> QED
  BY <1>1, <1>3
  DEF WaitInit, WaitInv, WaitingForResponses, ConfirmedAreTimed, PublishedForGood

(* One case per action.                                                    *)
LEMMA WaitNextPreservesWaitInv ==
  ASSUME WaitInv, [WaitNext]_waitvars
  PROVE  WaitInv'
<1>1. CASE \E msg \in Held : RelayAndWait(msg)
  <2>1. PICK msg \in Held : RelayAndWait(msg)
    BY <1>1
  <2>2. OffNext /\ confirmed' = confirmed
    BY <2>1 DEF RelayAndWait, OffNext, Command
  <2>3. IndInv' /\ OutputsChange
    BY <2>2, OffNextPreservesIndInv, OutputsChangeOffchain DEF WaitInv
  <2> QED
    BY <2>1, <2>2, <2>3, RelayAndWaitNumbersTell, StillPublished DEF WaitInv
<1>2. CASE \E o \in waiting : Poll(o)
  BY <1>2, PollConfirmsAResponse
<1>3. CASE OffNext /\ UNCHANGED <<waiting, confirmed>>
  <2>1. IndInv' /\ OutputsChange
    BY <1>3, OffNextPreservesIndInv, OutputsChangeOffchain DEF WaitInv
  <2>2. NumbersTell'
    BY <1>3, OffNextNumbersTell DEF WaitInv
  <2>3. WaitingForResponses'
    BY <1>3 DEF WaitInv, WaitingForResponses
  <2> QED
    BY <1>3, <2>1, <2>2, <2>3, StillPublished DEF WaitInv
<1>4. CASE UNCHANGED waitvars
  <2>1. IndInv' /\ OutputsChange
    BY <1>4, OffNextPreservesIndInv, OutputsChangeOffchain DEF WaitInv, waitvars, offvars
  <2>2. NumbersTell'
    BY <1>4 DEF WaitInv, NumbersTell, Seen, Outs, waitvars
  <2>3. WaitingForResponses'
    BY <1>4 DEF WaitInv, WaitingForResponses, waitvars
  <2> QED
    BY <1>4, <2>1, <2>2, <2>3, StillPublished DEF WaitInv, waitvars
<1> QED
  BY <1>1, <1>2, <1>3, <1>4 DEF WaitNext

(* Whatever a command has seen confirmed is published for good.            *)
THEOREM ConfirmedStaysPublished == WaitSpec => []PublishedForGood
<1>1. WaitInit => WaitInv
  BY WaitInitEstablishesWaitInv
<1>2. WaitInv /\ [WaitNext]_waitvars => WaitInv'
  BY WaitNextPreservesWaitInv
<1>3. WaitInv => PublishedForGood
  BY DEF WaitInv
<1> QED
  BY <1>1, <1>2, <1>3, PTL DEF WaitSpec
=============================================================================
