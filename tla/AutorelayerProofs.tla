-------------------------- MODULE AutorelayerProofs --------------------------
(***************************************************************************)
(* The automatic relayer, whatever others do, blocks delay or reorder, and *)
(* however often it crashes.                                               *)
(*                                                                         *)
(* What it reports as handled is answered: the output that wait_tx sees is *)
(* of the relayer's own transaction, as transactions differ in their       *)
(* numbers; when that was included it spent the request and published a    *)
(* response in time; and from then on neither does the request come back   *)
(* nor the response regress.                                               *)
(*                                                                         *)
(* Nobody is asked in vain and no collateral is lost: what the run knows   *)
(* of its job is what OffchainProofs supposes of an answer.  And it is     *)
(* paid: each of its transactions, when it is included, adds the reward to *)
(* its wallet, and no other takes anything from there.                     *)
(***************************************************************************)
EXTENDS Autorelayer, OffchainProofs

(* The outputs at scripts' addresses tell by their numbers whether they    *)
(* are on chain, and which pending transaction they are of.                *)
Numbers ==
  /\ built \in Nat \ {0}
  /\ \A o \in utxos \cup Outs : AtScript(o) => o.ref[1] \in 0 .. built - 1
  /\ \A u \in utxos, o \in Outs : AtScript(u) /\ AtScript(o) => u.ref[1] # o.ref[1]
  /\ \A t, x \in pending : \A o \in t.outs, p \in x.outs :
       AtScript(o) /\ AtScript(p) /\ o.ref[1] = p.ref[1] => t = x

(* An output that has been on chain and is of no pending transaction: once *)
(* it is spent it does not come back.                                      *)
Unique(u) ==
  /\ AtScript(u)
  /\ u.ref[1] \in 0 .. built - 1
  /\ u \notin Outs

AtWork == pc \in {"asking", "answered", "waiting"}

(* The requests runs have come across.                                     *)
Listed == todo \cup handled \cup (IF AtWork THEN {job.request} ELSE {})

IsListed(u) == Unique(u) /\ u.addr = RequestAddr /\ u.datum \in Request

ListedAreRequests == \A u \in Listed : IsListed(u)

(* The output is a response in time to the request.                        *)
Answers(o, u) ==
  /\ o.tokens = One(ResponseAsset(u.datum.poolActionID))
  /\ u.datum.after <= o.datum.timestamp

Done(u) == u \notin utxos /\ \E r \in utxos : Answers(r, u)

(* What is known of the request at hand at each stage.                     *)
JobIsValid ==
  pc \in {"asking", "answered"} =>
    /\ WellFormed(job.request.datum)
    /\ job.oracle.pool = job.request.datum.pool
    /\ job.request.datum.after <= now

MessageIsForJob ==
  pc = "answered" =>
    /\ job.msg \in Messages /\ job.msg.action = job.request.datum.action
    /\ job.msg.item.timestamp \in Nat
    /\ job.request.datum.after <= job.msg.item.timestamp

(* The transaction a run waits for spends the request for a response.      *)
WaitsForAnswer ==
  pc = "waiting" =>
    /\ job.id \in 1 .. built - 1
    /\ \A tx \in pending : \A o \in tx.outs :
         o.addr = ResponseAddr /\ o.ref[1] = job.id
           => Answers(o, job.request) /\ job.request \in tx.ins
    /\ Seen(job.id) => Done(job.request)

HandledAreDone == \A u \in handled : Done(u)

AutoInv ==
  /\ IndInv
  /\ Numbers
  /\ ListedAreRequests
  /\ JobIsValid
  /\ MessageIsForJob
  /\ WaitsForAnswer
  /\ HandledAreDone

-----------------------------------------------------------------------------

(* The numbers after a transaction has been added.                         *)
LEMMA PendingNumbers ==
  ASSUME Numbers, NEW tx,
         utxos' = utxos, pending' = pending \cup {tx},
         \/ /\ \A o \in tx.outs : AtScript(o) => o.ref[1] = built
            /\ built' = built + 1
         \/ (\A o \in tx.outs : ~AtScript(o)) /\ built' = built
  PROVE  /\ Numbers'
         /\ \A u : Unique(u) => Unique(u)'
<1>1. built' \in Nat \ {0} /\ built \in Nat /\ (built' = built \/ built' = built + 1)
  BY DEF Numbers
<1>2. \A o \in tx.outs : AtScript(o) => o.ref[1] = built /\ built' = built + 1
  OBVIOUS
<1>3. Outs' = Outs \cup tx.outs
  BY DEF Outs
<1>4. \A o \in Outs : AtScript(o) => o.ref[1] # built
  BY <1>1 DEF Numbers
<1>5. \A o \in utxos : AtScript(o) => o.ref[1] # built
  BY <1>1 DEF Numbers
<1>6. \A o \in utxos' \cup Outs' : AtScript(o) => o.ref[1] \in 0 .. built' - 1
  <2> SUFFICES ASSUME NEW o \in utxos' \cup Outs', AtScript(o)
               PROVE  o.ref[1] \in 0 .. built' - 1
    OBVIOUS
  <2>1. CASE o \in tx.outs
    BY <1>1, <1>2, <2>1
  <2>2. CASE o \in utxos \cup Outs
    BY <1>1, <2>2 DEF Numbers
  <2> QED
    BY <1>3, <2>1, <2>2
<1>7. \A u \in utxos', o \in Outs' : AtScript(u) /\ AtScript(o) => u.ref[1] # o.ref[1]
  BY <1>2, <1>3, <1>5 DEF Numbers
<1>8. ASSUME NEW t \in pending', NEW x \in pending',
             NEW o \in t.outs, NEW p \in x.outs,
             AtScript(o), AtScript(p), o.ref[1] = p.ref[1]
      PROVE  t = x
  <2>1. CASE t \in pending /\ x \in pending
    BY <1>8, <2>1 DEF Numbers
  <2>2. CASE t = tx /\ x \in pending
    BY <1>2, <1>4, <1>8, <2>2 DEF Outs
  <2>3. CASE t \in pending /\ x = tx
    BY <1>2, <1>4, <1>8, <2>3 DEF Outs
  <2> QED
    BY <2>1, <2>2, <2>3
<1>9. ASSUME NEW u, Unique(u) PROVE Unique(u)'
  <2>1. u.ref[1] # built /\ u.ref[1] \in 0 .. built' - 1
    BY <1>1, <1>9 DEF Unique
  <2> QED
    BY <1>2, <1>3, <1>9, <2>1 DEF Unique
<1>10. Numbers'
  BY <1>1, <1>6, <1>7, <1>8 DEF Numbers
<1> QED
  BY <1>9, <1>10

(* The numbers after one has been included.                                *)
LEMMA IncludedNumbers ==
  ASSUME Numbers, NEW tx \in pending, Include(tx)
  PROVE  /\ Numbers'
         /\ \A u : Unique(u) => Unique(u)'
<1>1. /\ utxos' \subseteq utxos \cup tx.outs
      /\ pending' = pending \ {tx}
      /\ built' = built
  BY DEF Include, Submit
<1>2. Outs' \subseteq Outs /\ tx.outs \subseteq Outs
  BY <1>1 DEF Outs
<1>3. \A t \in pending' : \A o \in t.outs, p \in tx.outs :
        AtScript(o) /\ AtScript(p) => o.ref[1] # p.ref[1]
  BY <1>1 DEF Numbers
<1>4. \A u \in utxos', o \in Outs' : AtScript(u) /\ AtScript(o) => u.ref[1] # o.ref[1]
  <2> SUFFICES ASSUME NEW u \in utxos', NEW o \in Outs', AtScript(u), AtScript(o)
               PROVE  u.ref[1] # o.ref[1]
    OBVIOUS
  <2>1. CASE u \in utxos
    BY <1>2, <2>1 DEF Numbers
  <2>2. CASE u \in tx.outs
    BY <1>3, <2>2 DEF Outs
  <2> QED
    BY <1>1, <2>1, <2>2
<1>5. Numbers'
  BY <1>1, <1>2, <1>4 DEF Numbers
<1>6. \A u : Unique(u) => Unique(u)'
  BY <1>1, <1>2 DEF Unique
<1> QED
  BY <1>5, <1>6

(* Everything else leaves them or forgets some.                            *)
LEMMA FewerNumbers ==
  ASSUME Numbers, utxos' = utxos, pending' \subseteq pending, built' = built
  PROVE  /\ Numbers'
         /\ \A u : Unique(u) => Unique(u)'
<1>1. Outs' \subseteq Outs
  BY DEF Outs
<1> QED
  BY <1>1 DEF Numbers, Unique

(* A request that has been answered stays so.                              *)
LEMMA DoneStays ==
  ASSUME IndInv, IndInv', OutputsChange,
         NEW u, u.datum \in Request, u \in utxos' => u \in utxos,
         Done(u)
  PROVE  Done(u)'
<1>1. PICK r \in utxos : Answers(r, u)
  BY DEF Done
<1>2. r \in Responses
  BY <1>1, ResponseCurrency DEF Answers, Responses
<1>3. PICK q \in Responses' : /\ q.tokens = r.tokens
                              /\ q.datum.timestamp >= r.datum.timestamp
  BY <1>2, NoRegressStep DEF ResponsesKept
<1>4. r.datum.timestamp \in Nat /\ q.datum.timestamp \in Nat
  BY <1>2 DEF IndInv, ResponseTokensAtHome, DataItem
<1>5. Answers(q, u)
  <2>1. u.datum.after \in Nat
    BY DEF Request
  <2> QED
    BY <1>1, <1>3, <1>4, <2>1 DEF Answers
<1>6. q \in utxos'
  BY DEF Responses
<1> QED
  BY <1>5, <1>6 DEF Done

(* A unique output is not put there again.                                 *)
LEMMA UniqueStaysSpent ==
  ASSUME [OffNext]_offvars, NEW u, Unique(u), u \in utxos'
  PROVE  u \in utxos
<1>1. CASE \E tx \in pending : Include(tx)
  BY <1>1 DEF Include, Submit, Unique, Outs
<1>2. CASE utxos' = utxos
  BY <1>2
<1> QED
  BY <1>1, <1>2, CommandOnlySubmits
  DEF OffNext, Environment, Forget, EmptyBlock, Sign, Tick, offvars

-----------------------------------------------------------------------------

(* Steps of others.                                                        *)

(* What others submit leaves the numbers in order.                         *)
LEMMA OthersNumbers ==
  ASSUME Numbers, [OffNext]_offvars
  PROVE  /\ Numbers'
         /\ \A u : Unique(u) => Unique(u)'
<1>1. CASE Command
  <2>1. utxos' = utxos
    BY <1>1, CommandOnlySubmits
  <2>2. PICK tx : /\ pending' = pending \cup {tx}
                  /\ \/ Numbered(tx, built) /\ built' = built + 1
                     \/ (\A o \in tx.outs : ~AtScript(o)) /\ built' = built
    BY <1>1, CommandAddsOne DEF OneMorePending
  <2>3. \/ /\ \A o \in tx.outs : AtScript(o) => o.ref[1] = built
           /\ built' = built + 1
        \/ (\A o \in tx.outs : ~AtScript(o)) /\ built' = built
    BY <2>2 DEF Numbered
  <2> QED
    BY <2>1, <2>2, <2>3, PendingNumbers
<1>2. CASE \E tx \in pending : Include(tx)
  BY <1>2, IncludedNumbers
<1>3. CASE utxos' = utxos /\ pending' \subseteq pending /\ built' = built
  BY <1>3, FewerNumbers
<1> QED
  BY <1>1, <1>2, <1>3
  DEF OffNext, Environment, Forget, EmptyBlock, Sign, Tick, offvars

(* ... and what the relayer waits for as it is.                            *)
LEMMA OthersLetWait ==
  ASSUME AutoInv, [OffNext]_offvars, UNCHANGED runvars, pc = "waiting",
         Done(job.request) => Done(job.request)'
  PROVE  WaitsForAnswer'
<1> DEFINE u == job.request
<1> DEFINE k == job.id
<1>1. /\ k \in 1 .. built - 1
      /\ \A tx \in pending : \A o \in tx.outs :
           o.addr = ResponseAddr /\ o.ref[1] = k => Answers(o, u) /\ u \in tx.ins
      /\ Seen(k) => Done(u)
  BY DEF AutoInv, WaitsForAnswer
<1>2. pc' = pc /\ u' = u /\ k' = k
  BY DEF runvars
<1>3. u \notin Outs
  BY DEF AutoInv, ListedAreRequests, Listed, AtWork, IsListed, Unique
<1>4. \A o : o.addr = ResponseAddr => AtScript(o)
  BY DEF AtScript, ResponseAddr, ScriptAddr
<1>5. built \in Nat
  BY DEF AutoInv, Numbers
<1> HIDE DEF u, k
<1>6. CASE Command
  <2>1. utxos' = utxos
    BY <1>6, CommandOnlySubmits
  <2>2. PICK tx : /\ pending' = pending \cup {tx}
                  /\ \/ Numbered(tx, built) /\ built' = built + 1
                     \/ (\A o \in tx.outs : ~AtScript(o)) /\ built' = built
    BY <1>6, CommandAddsOne DEF OneMorePending
  <2>3. \A o \in tx.outs : o.addr = ResponseAddr => o.ref[1] # k
    BY <1>1, <1>4, <1>5, <2>2 DEF Numbered
  <2>4. k \in 1 .. built' - 1
    BY <1>1, <1>5, <2>2
  <2>5. Seen(k)' => Seen(k)
    BY <1>2, <2>1 DEF Seen
  <2> QED
    BY <1>1, <1>2, <2>2, <2>3, <2>4, <2>5 DEF WaitsForAnswer, Answers, u, k
<1>7. CASE \E tx \in pending : Include(tx)
  <2>1. PICK tx \in pending : Include(tx)
    BY <1>7
  <2>2. /\ pending' = pending \ {tx} /\ built' = built
        /\ utxos' = (utxos \ tx.ins) \cup {o \in tx.outs : Tracked(o)}
    BY <2>1 DEF Include, Submit
  <2>3. ASSUME Seen(k)' PROVE Done(u)'
    <3>1. PICK v \in utxos' : v.addr = ResponseAddr /\ v.ref[1] = k
      BY <1>2, <2>3 DEF Seen
    <3>2. CASE v \in utxos
      <4>1. Seen(k)
        BY <3>1, <3>2 DEF Seen
      <4> QED
        BY <1>1, <4>1 DEF u
    <3>3. CASE v \notin utxos
      <4>1. v \in tx.outs
        BY <2>2, <3>1, <3>3
      <4>2. Answers(v, u) /\ u \in tx.ins
        BY <1>1, <3>1, <4>1
      <4>3. u \notin utxos'
        BY <1>3, <2>2, <4>2 DEF Outs
      <4> QED
        BY <1>2, <3>1, <4>2, <4>3 DEF Done, Answers
    <3> QED
      BY <3>2, <3>3
  <2> QED
    BY <1>1, <1>2, <2>2, <2>3 DEF WaitsForAnswer, Answers, u, k
<1>8. CASE utxos' = utxos /\ pending' \subseteq pending /\ built' = built
  <2>1. Seen(k)' => Seen(k)
    BY <1>2, <1>8 DEF Seen
  <2> QED
    BY <1>1, <1>2, <1>8, <2>1 DEF WaitsForAnswer, Answers, u, k
<1> QED
  BY <1>6, <1>7, <1>8
  DEF OffNext, Environment, Forget, EmptyBlock, Sign, Tick, offvars

(* Steps of others than the relayer.                                       *)
LEMMA OthersPreserveAutoInv ==
  ASSUME AutoInv, [OffNext]_offvars, UNCHANGED runvars
  PROVE  AutoInv'
<1>1. IndInv' /\ OutputsChange
  BY OffNextPreservesIndInv, OutputsChangeOffchain DEF AutoInv
<1>2. Numbers' /\ \A u : Unique(u) => Unique(u)'
  BY OthersNumbers DEF AutoInv
<1>3. AtWork' = AtWork /\ Listed' = Listed
  BY DEF AtWork, Listed, runvars
<1>4. ListedAreRequests'
  BY <1>2, <1>3 DEF AutoInv, ListedAreRequests, IsListed
<1>5. \A u \in Listed : Done(u) => Done(u)'
  BY <1>1, DoneStays, UniqueStaysSpent DEF AutoInv, ListedAreRequests, IsListed
<1>6. HandledAreDone'
  BY <1>5 DEF AutoInv, HandledAreDone, Listed, runvars
<1>7. JobIsValid'
  <2>1. now \in Nat /\ now' \in Nat /\ now <= now'
    <3>1. now' = now \/ now' > now
      BY ChainChanges DEF Submit, Sign, Tick, vars
    <3> QED
      BY <1>1, <3>1, TimesAssumption DEF AutoInv, IndInv, TypeOK
  <2>2. AtWork => job.request.datum.after \in Nat
    BY DEF AutoInv, ListedAreRequests, Listed, IsListed, Request
  <2>3. pc \in {"asking", "answered"} => job.request.datum.after <= now'
    BY <2>1, <2>2 DEF AutoInv, JobIsValid, AtWork
  <2>4. pc' = pc /\ job' = job
    BY DEF runvars
  <2> QED
    BY <2>3, <2>4 DEF AutoInv, JobIsValid, WellFormed
<1>8. MessageIsForJob'
  BY DEF AutoInv, MessageIsForJob, runvars
<1>9. WaitsForAnswer'
  <2>1. CASE pc = "waiting"
    <3>1. job' = job /\ job.request \in Listed
      BY <2>1 DEF Listed, AtWork, runvars
    <3>2. Done(job.request) => Done(job.request)'
      BY <1>5, <3>1 DEF Done, Answers
    <3> QED
      BY <2>1, <3>2, OthersLetWait
  <2>2. CASE pc # "waiting"
    BY <2>2 DEF WaitsForAnswer, runvars
  <2> QED
    BY <2>1, <2>2
<1> QED
  BY <1>1, <1>2, <1>4, <1>6, <1>7, <1>8, <1>9 DEF AutoInv

-----------------------------------------------------------------------------

(* Steps of the run.                                                       *)

(* Whatever brings a run to the stages between requests.                   *)
LEMMA StageOver ==
  ASSUME AutoInv, UNCHANGED offvars, ~AtWork',
         \A u \in todo' \cup handled' : IsListed(u),
         \A u \in handled' : Done(u)
  PROVE  AutoInv'
<1>1. IndInv'
  BY OffNextPreservesIndInv DEF AutoInv
<1>2. Numbers' /\ \A u : Unique(u) => Unique(u)'
  BY OthersNumbers DEF AutoInv
<1>3. ListedAreRequests'
  BY <1>2 DEF ListedAreRequests, Listed, IsListed
<1>4. HandledAreDone'
  BY DEF HandledAreDone, Done, Answers, offvars
<1>5. JobIsValid' /\ MessageIsForJob' /\ WaitsForAnswer'
  BY DEF AtWork, JobIsValid, MessageIsForJob, WaitsForAnswer
<1> QED
  BY <1>1, <1>2, <1>3, <1>4, <1>5 DEF AutoInv

(* The requests listed are on chain, hence of no pending transaction.      *)
LEMMA StartPreserves ==
  ASSUME AutoInv, Start
  PROVE  AutoInv'
<1>1. ASSUME NEW u \in todo'
      PROVE  IsListed(u)
  <2>1. u \in utxos /\ AtScript(u) /\ u.addr = RequestAddr /\ u.datum \in Request
    BY <1>1 DEF Start, StoredRequests, AtScript, RequestAddr, ScriptAddr
  <2>2. u.ref[1] \in 0 .. built - 1 /\ u \notin Outs
    BY <2>1 DEF AutoInv, Numbers
  <2> QED
    BY <2>1, <2>2 DEF IsListed, Unique
<1>2. \A u \in handled' : IsListed(u) /\ Done(u)
  BY DEF Start, AutoInv, ListedAreRequests, Listed, HandledAreDone
<1>3. UNCHANGED offvars /\ ~AtWork'
  BY DEF Start, AtWork
<1> QED
  BY <1>1, <1>2, <1>3, StageOver

(* A run that gives a request up, or itself.                               *)
LEMMA GivingUpPreserves ==
  ASSUME AutoInv, UNCHANGED offvars, ~AtWork', todo' \subseteq todo, handled' = handled
  PROVE  AutoInv'
<1>1. \A u \in todo' \cup handled' : IsListed(u)
  BY DEF AutoInv, ListedAreRequests, Listed
<1>2. \A u \in handled' : Done(u)
  BY DEF AutoInv, HandledAreDone
<1> QED
  BY <1>1, <1>2, StageOver

(* The relayer's own steps, in the order of the program.                   *)
LEMMA HandlePreserves ==
  ASSUME AutoInv, Handle
  PROVE  AutoInv'
<1>1. Done(job.request) /\ IsListed(job.request)
  BY DEF Handle, AutoInv, WaitsForAnswer, ListedAreRequests, Listed, AtWork
<1>2. /\ todo' \subseteq todo
      /\ handled' = handled \cup {job.request}
      /\ UNCHANGED offvars /\ ~AtWork'
  BY DEF Handle, Proceed, AtWork
<1>3. \A u \in todo' \cup handled' : IsListed(u)
  BY <1>1, <1>2 DEF AutoInv, ListedAreRequests, Listed
<1>4. \A u \in handled' : Done(u)
  BY <1>1, <1>2 DEF AutoInv, HandledAreDone
<1> QED
  BY <1>2, <1>3, <1>4, StageOver

(* The next request is looked at, and an oracle chosen.                    *)
LEMMA ConsiderPreserves ==
  ASSUME AutoInv, NEW u \in todo, Consider(u)
  PROVE  AutoInv'
<1>1. CASE ~(IsValid(u.datum) /\ SuitableOracles(u.datum) # {})
  BY <1>1, GivingUpPreserves DEF Consider, AtWork
<1>2. CASE IsValid(u.datum) /\ SuitableOracles(u.datum) # {}
  <2>1. PICK o \in SuitableOracles(u.datum) : job' = [request |-> u, oracle |-> o]
    BY <1>2 DEF Consider
  <2>2. /\ pc' = "asking" /\ todo' = todo /\ handled' = handled
        /\ UNCHANGED offvars
    BY <1>2 DEF Consider
  <2>3. IndInv' /\ Numbers' /\ \A v : Unique(v) => Unique(v)'
    BY <2>2, OffNextPreservesIndInv, OthersNumbers DEF AutoInv
  <2>4. Listed' \subseteq Listed
    BY <2>1, <2>2 DEF Listed
  <2>5. ListedAreRequests'
    BY <2>3, <2>4 DEF AutoInv, ListedAreRequests, IsListed
  <2>6. HandledAreDone'
    BY <2>2 DEF AutoInv, HandledAreDone, Done, Answers, offvars
  <2>7. JobIsValid'
    <3>1. o.pool = u.datum.pool
      BY <2>1 DEF SuitableOracles
    <3>2. WellFormed(u.datum) /\ u.datum.after <= now
      BY <1>2 DEF IsValid
    <3>3. job'.request = u /\ job'.oracle = o /\ now' = now
      BY <2>1, <2>2 DEF offvars
    <3> QED
      BY <3>1, <3>2, <3>3 DEF JobIsValid, WellFormed
  <2>8. MessageIsForJob' /\ WaitsForAnswer'
    BY <2>2 DEF MessageIsForJob, WaitsForAnswer
  <2> QED
    BY <2>3, <2>5, <2>6, <2>7, <2>8 DEF AutoInv
<1> QED
  BY <1>1, <1>2

(* A trust domain answers now, which is after the request asked for it.    *)
LEMMA AnsweredPreserves ==
  ASSUME AutoInv, NEW msg \in Messages, Answered(msg)
  PROVE  AutoInv'
<1>1. /\ pc = "asking" /\ pc' = "answered"
      /\ job' = [request |-> job.request, oracle |-> job.oracle, msg |-> msg]
      /\ msg.action = job.request.datum.action
      /\ Sign(msg)
      /\ todo' = todo /\ handled' = handled /\ pending' = pending /\ built' = built
  BY DEF Answered
<1>2. utxos' = utxos /\ now' = now /\ msg.item.timestamp = now
  BY <1>1 DEF Sign
<1>3. IndInv'
  BY <1>1, SignPreservesIndInv DEF AutoInv
<1>4. Numbers' /\ \A v : Unique(v) => Unique(v)'
  BY <1>1, <1>2, FewerNumbers DEF AutoInv
<1>5. Listed' = Listed
  BY <1>1 DEF Listed, AtWork
<1>6. ListedAreRequests'
  BY <1>4, <1>5 DEF AutoInv, ListedAreRequests, IsListed
<1>7. HandledAreDone'
  BY <1>1, <1>2 DEF AutoInv, HandledAreDone, Done, Answers
<1>8. job'.request = job.request /\ job'.oracle = job.oracle /\ job'.msg = msg
  BY <1>1
<1>9. JobIsValid'
  BY <1>1, <1>2, <1>8 DEF AutoInv, JobIsValid, WellFormed
<1>10. MessageIsForJob'
  <2>1. job.request.datum.after <= now
    BY <1>1 DEF AutoInv, JobIsValid
  <2>2. now \in Nat
    BY TimesAssumption DEF AutoInv, IndInv, TypeOK
  <2> QED
    BY <1>1, <1>2, <1>8, <2>1, <2>2 DEF MessageIsForJob
<1>11. WaitsForAnswer'
  BY <1>1 DEF WaitsForAnswer
<1> QED
  BY <1>3, <1>4, <1>6, <1>7, <1>9, <1>10, <1>11 DEF AutoInv

(* The wallet adds inputs to what is built, and one output.                *)
LEMMA WalletAdds ==
  ASSUME NEW fee, NEW tx \in Balanced(utxos, Me, Attempt(fee).tx, built)
  PROVE  \E P, coin :
           /\ tx.ins = Attempt(fee).tx.ins \cup P
           /\ tx.outs = Attempt(fee).tx.outs
                         \cup {Output(<<built, 2>>, KeyAddr(Me), coin, NoTokens, NoDatum)}
<1> DEFINE a == Attempt(fee).tx
<1>1. \A x, y : /\ [a EXCEPT !.ins = x, !.outs = y].ins = x
               /\ [a EXCEPT !.ins = x, !.outs = y].outs = y
  BY DEF Attempt, Fulfillment, FulfillingTx, PublishTx, Tx
<1> HIDE DEF a
<1>2. PICK P, coin :
        tx = [a EXCEPT
                !.ins  = @ \cup P,
                !.outs = @ \cup {Output(<<built, 2>>, KeyAddr(Me), coin, NoTokens,
                                        NoDatum)}]
  BY DEF Balanced, a
<1> QED
  BY <1>1, <1>2 DEF a

(* What is built spends the request, and its only outputs besides change   *)
(* to key addresses is the response, numbered as none before.              *)
LEMMA BuiltAnswers ==
  ASSUME AutoInv, pc = "answered", NEW fee,
         NEW tx \in Balanced(utxos, Me, Attempt(fee).tx, built)
  PROVE  /\ job.request \in tx.ins
         /\ \A o \in tx.outs : AtScript(o) =>
              o.ref[1] = built /\ Answers(o, job.request)
<1> DEFINE p == PoolActionID(job.oracle.pool, job.msg.action)
<1> DEFINE response == ResponseOutput(p, job.msg.item, built)
<1>1. PICK owner, change :
        /\ Attempt(fee).tx.outs =
              {response, Output(<<built, 1>>, KeyAddr(owner), change, NoTokens, NoDatum)}
        /\ job.request \in Attempt(fee).tx.ins
  BY DEF Attempt, Fulfillment, FulfillingTx, PublishTx, Tx
<1>2. PICK P, coin :
        /\ tx.ins = Attempt(fee).tx.ins \cup P
        /\ tx.outs = Attempt(fee).tx.outs
                      \cup {Output(<<built, 2>>, KeyAddr(Me), coin, NoTokens, NoDatum)}
  BY WalletAdds
<1>3. job.request \in tx.ins
  BY <1>1, <1>2
<1>4. \A o \in tx.outs : AtScript(o) => o = response
  BY <1>1, <1>2 DEF AtScript, Output, KeyAddr
<1>5. response.ref[1] = built /\ Answers(response, job.request)
  <2>1. p = job.request.datum.poolActionID
    BY DEF AutoInv, JobIsValid, MessageIsForJob, WellFormed
  <2>2. /\ response.ref[1] = built
        /\ response.tokens = One(ResponseAsset(p))
        /\ response.datum = job.msg.item
    BY DEF ResponseOutput, TokenOutput, Output
  <2>3. job.request.datum.after <= job.msg.item.timestamp
    BY DEF AutoInv, MessageIsForJob
  <2> HIDE DEF response, p
  <2> QED
    BY <2>1, <2>2, <2>3 DEF Answers
<1> QED
  BY <1>3, <1>4, <1>5

(* The transaction is submitted, to be waited for.                         *)
LEMMA FulfilledPreserves ==
  ASSUME AutoInv, NEW fee, Fulfilled(fee)
  PROVE  AutoInv'
<1>1. PICK tx \in Balanced(utxos, Me, Attempt(fee).tx, built) : Build(tx)
  BY DEF Fulfilled
<1>2. /\ pc = "answered" /\ pc' = "waiting"
      /\ job'.request = job.request /\ job'.id = built
      /\ todo' = todo /\ handled' = handled
  BY DEF Fulfilled
<1>3. /\ UNCHANGED <<utxos, now, signed>>
      /\ pending' = pending \cup {tx}
      /\ built' = built + 1
  BY <1>1 DEF Build, SubmitToNode
<1>4. /\ job.request \in tx.ins
      /\ \A o \in tx.outs : AtScript(o) =>
           o.ref[1] = built /\ Answers(o, job.request)
  BY <1>1, <1>2, BuiltAnswers
<1>5. Numbers' /\ \A u : Unique(u) => Unique(u)'
  BY <1>3, <1>4, PendingNumbers DEF AutoInv
<1>6. IndInv'
  BY <1>3, IdlePreservesIndInv DEF AutoInv, IndInv, TypeOK
<1>7. Listed' = Listed
  BY <1>2 DEF Listed, AtWork
<1>8. ListedAreRequests'
  BY <1>5, <1>7 DEF AutoInv, ListedAreRequests, IsListed
<1>9. HandledAreDone'
  BY <1>2, <1>3 DEF AutoInv, HandledAreDone, Done, Answers
<1>10. JobIsValid' /\ MessageIsForJob'
  BY <1>2 DEF JobIsValid, MessageIsForJob
<1>11. WaitsForAnswer'
  <2>1. built \in Nat \ {0} /\ job'.id \in 1 .. built' - 1
    BY <1>2, <1>3 DEF AutoInv, Numbers
  <2>2. \A o : o.addr = ResponseAddr => AtScript(o)
    BY DEF AtScript, ResponseAddr, ScriptAddr
  <2>3. \A o \in utxos \cup Outs : AtScript(o) => o.ref[1] # built
    BY <2>1 DEF AutoInv, Numbers
  <2>4. ASSUME NEW t \in pending', NEW o \in t.outs,
               o.addr = ResponseAddr, o.ref[1] = built
        PROVE  Answers(o, job.request) /\ job.request \in t.ins
    <3>1. t \notin pending
      BY <2>2, <2>3, <2>4 DEF Outs
    <3>2. t = tx
      BY <1>3, <3>1
    <3> QED
      BY <1>4, <2>2, <2>4, <3>2
  <2>5. ~Seen(job.id)'
    BY <1>2, <1>3, <2>2, <2>3 DEF Seen
  <2> QED
    BY <1>2, <2>1, <2>4, <2>5 DEF WaitsForAnswer, Answers
<1> QED
  BY <1>5, <1>6, <1>8, <1>9, <1>10, <1>11 DEF AutoInv

-----------------------------------------------------------------------------

(* At first there is no job.                                               *)
LEMMA InitEstablishesAutoInv ==
  ASSUME AutoInit
  PROVE  AutoInv
<1>1. IndInv
  BY InitEstablishesIndInv DEF AutoInit, OffInit
<1>2. utxos = Genesis /\ built = 1 /\ Outs = {}
  BY DEF AutoInit, OffInit, Init, Outs
<1>3. Numbers
  BY <1>2, NumbersAssumption DEF Numbers, AutoInit, OffInit
<1> QED
  BY <1>1, <1>3
  DEF AutoInit, AutoInv, ListedAreRequests, Listed, AtWork, JobIsValid,
      MessageIsForJob, WaitsForAnswer, HandledAreDone

(* One case per action.                                                    *)
LEMMA AutoNextPreservesAutoInv ==
  ASSUME AutoInv, [AutoNext]_autovars
  PROVE  AutoInv'
<1>1. CASE OffNext /\ UNCHANGED runvars
  BY <1>1, OthersPreserveAutoInv
<1>2. CASE UNCHANGED autovars
  BY <1>2, OthersPreserveAutoInv DEF autovars, offvars, runvars
<1>3. CASE RunStep
  <2>1. CASE Start
    BY <2>1, StartPreserves
  <2>2. CASE \E u \in todo : Consider(u)
    BY <2>2, ConsiderPreserves
  <2>3. CASE Handle
    BY <2>3, HandlePreserves
  <2>4. CASE \E msg \in Messages : Answered(msg)
    BY <2>4, AnsweredPreserves
  <2>5. CASE \E fee \in Fees : Fulfilled(fee)
    BY <2>5, FulfilledPreserves
  <2>6. CASE Unreachable \/ NotFulfilled \/ TimeOut \/ Previewed
    BY <2>6, GivingUpPreserves
    DEF Unreachable, NotFulfilled, TimeOut, Previewed, GiveUp, Proceed, AtWork
  <2>7. CASE Finish \/ Crash \/ \E mode \in Modes : Restart(mode)
    BY <2>7, GivingUpPreserves DEF Finish, Crash, Restart, AtWork
  <2> QED
    BY <1>3, <2>1, <2>2, <2>3, <2>4, <2>5, <2>6, <2>7 DEF RunStep, OrdinaryStep
<1> QED
  BY <1>1, <1>2, <1>3 DEF AutoNext

(* What a run reports as handled is and stays answered.                    *)
THEOREM HandledStaysAnswered == AutoSpec => []HandledMeansAnswered
<1>1. AutoInit => AutoInv
  BY InitEstablishesAutoInv
<1>2. AutoInv /\ [AutoNext]_autovars => AutoInv'
  BY AutoNextPreservesAutoInv
<1>3. AutoInv => HandledMeansAnswered
  BY DEF AutoInv, HandledAreDone, Done, Answers, HandledMeansAnswered, ResponsesOf
<1> QED
  BY <1>1, <1>2, <1>3, PTL DEF AutoSpec

-----------------------------------------------------------------------------

(* Nobody is asked in vain.  What the run knows of its job is enough for   *)
(* its answer to pass, as the money for any answer is always there.        *)

(* What clients encrypt, they encrypt for the trust domain they name.      *)
LEMMA CreatedIsReadable ==
  ASSUME NEW request, NEW secret, NEW tdKey, \A k, l \in tdKey : k = l,
         NEW action \in Created(request, secret, tdKey)
  PROVE  Readable(action)
<1>1. /\ action.patch.td = IF tdKey # {} THEN tdKey ELSE AnyTD
      /\ action.patch.sealed = Encrypted(secret, tdKey)
  BY DEF Created
<1>2. \A s \in Encrypted(secret, tdKey) : s.for \in tdKey
  BY DEF Encrypted
<1> QED
  BY <1>1, <1>2 DEF Readable, AnyTD

(* A trust domain that an action asks for can run it.                      *)
LEMMA DesignatedCanRun ==
  ASSUME NEW action, Readable(action), NEW key \in Designated(action, PubKeys)
  PROVE  CanRun(key, action)
BY DEF Readable, Designated, CanRun, AnyTD

JobIsWorthIt ==
  pc \in {"asking", "answered"} =>
    /\ CanRun(job.oracle.data.pubKey, job.request.datum.action)
    /\ job.oracle \in RegisteredOracles({job.oracle.utxo}, OracleAddrs)
    /\ job.request.datum.reward >= ConfigReward

AnswerIsMine ==
  pc = "answered" =>
    /\ job.msg \in signed /\ job.msg.relayer = Me
    /\ job.msg.signer = job.oracle.data.pubKey

WorthInv ==
  /\ AutoInv
  /\ CommandInv
  /\ AllFunded
  /\ JobIsWorthIt
  /\ AnswerIsMine

(* The outputs of what a run submits, as any command makes them.           *)
LEMMA BuiltIsSound ==
  ASSUME AsPromised, WorthInv, pc = "answered", NEW fee,
         NEW tx \in Balanced(utxos, Me, Attempt(fee).tx, built)
  PROVE  \A o \in tx.outs : Proper(o) /\ Funded(o)
<1> DEFINE p == PoolActionID(job.oracle.pool, job.msg.action)
<1>1. PICK owner, change :
        Attempt(fee).tx.outs =
          {ResponseOutput(p, job.msg.item, built),
           Output(<<built, 1>>, KeyAddr(owner), change, NoTokens, NoDatum)}
  BY DEF Attempt, Fulfillment, FulfillingTx, PublishTx, Tx
<1>2. PICK P, coin :
        /\ tx.ins = Attempt(fee).tx.ins \cup P
        /\ tx.outs = Attempt(fee).tx.outs
                      \cup {Output(<<built, 2>>, KeyAddr(Me), coin, NoTokens, NoDatum)}
  BY WalletAdds
<1>3. job.msg \in Messages
  BY DEF WorthInv, AnswerIsMine, CommandInv, IndInv, TypeOK
<1> HIDE DEF p
<1>4. /\ Proper(ResponseOutput(p, job.msg.item, built))
      /\ Funded(ResponseOutput(p, job.msg.item, built))
  BY <1>3, ResponseProper, FundedResponse
<1>5. \A ref, hash, amount :
        /\ Proper(Output(ref, KeyAddr(hash), amount, NoTokens, NoDatum))
        /\ Funded(Output(ref, KeyAddr(hash), amount, NoTokens, NoDatum))
  BY ChangeProper, FundedChange
<1>6. \A o \in tx.outs :
        \/ o \in Attempt(fee).tx.outs
        \/ o = Output(<<built, 2>>, KeyAddr(Me), coin, NoTokens, NoDatum)
  BY <1>2
<1> QED
  BY <1>1, <1>4, <1>5, <1>6

(* Steps of the run that neither submit nor have anything signed.          *)
LEMMA IdlePreservesWorthInv ==
  ASSUME AsPromised, WorthInv, AutoInv', UNCHANGED offvars,
         JobIsWorthIt', pc' # "answered"
  PROVE  WorthInv'
<1>1. CommandInv' /\ AllFunded'
  BY NextPreservesCommandInv, NextPreservesAllFunded DEF WorthInv
<1> QED
  BY <1>1 DEF WorthInv, AnswerIsMine

(* The oracle that is chosen can run the action and is where commands have *)
(* put it.                                                                 *)
LEMMA ConsiderFindsWorthy ==
  ASSUME AsConfigured, WorthInv, NEW u \in todo, Consider(u)
  PROVE  JobIsWorthIt' /\ pc' # "answered"
<1>1. CASE IsValid(u.datum) /\ SuitableOracles(u.datum) # {}
  <2>1. PICK o \in SuitableOracles(u.datum) : job' = [request |-> u, oracle |-> o]
    BY <1>1 DEF Consider
  <2>2. pc' = "asking" /\ job'.request = u /\ job'.oracle = o
    BY <1>1, <2>1 DEF Consider
  <2>3. u.datum \in Request /\ u.datum.pool \in Pools /\ u.datum.action \in ActionIDs
    BY DEF WorthInv, AutoInv, ListedAreRequests, Listed, IsListed, Request
  <2>4. o \in RegisteredOracles({o.utxo}, OracleAddrs)
    <3>1. o \in RegisteredOracles(utxos, ConfigAddrs(u.datum.pool.cs))
      BY <2>1 DEF SuitableOracles
    <3>2. ConfigAddrs(u.datum.pool.cs) \subseteq OracleAddrs
      BY <2>3 DEF AsConfigured
    <3> QED
      BY <3>1, <3>2 DEF RegisteredOracles
  <2>5. CanRun(o.data.pubKey, u.datum.action)
    BY <2>1, <2>3, DesignatedCanRun DEF SuitableOracles, AsConfigured
  <2>6. u.datum.reward >= ConfigReward
    BY <1>1 DEF IsValid
  <2> QED
    BY <2>2, <2>4, <2>5, <2>6 DEF JobIsWorthIt
<1>2. CASE ~(IsValid(u.datum) /\ SuitableOracles(u.datum) # {})
  <2>1. pc' = "next"
    BY <1>2 DEF Consider
  <2> QED
    BY <2>1 DEF JobIsWorthIt
<1> QED
  BY <1>1, <1>2

(* The trust domain's message for the relayer is signed now.               *)
LEMMA AnsweredPreservesWorthInv ==
  ASSUME WorthInv, AutoInv', NEW msg \in Messages, Answered(msg)
  PROVE  WorthInv'
<1>1. /\ pc = "asking" /\ pc' = "answered"
      /\ job' = [request |-> job.request, oracle |-> job.oracle, msg |-> msg]
      /\ msg.signer = job.oracle.data.pubKey /\ msg.relayer = Me
      /\ UNCHANGED <<utxos, now, tip, pending>> /\ msg \in signed'
  BY DEF Answered, Sign
<1>2. job'.request = job.request /\ job'.oracle = job.oracle /\ job'.msg = msg
  BY <1>1
<1>3. CommandInv'
  BY <1>1 DEF WorthInv, AutoInv, CommandInv, AllProper, Outs, Proper, BlocksArePast
<1>4. AllFunded'
  <2>1. Responses' = Responses
    BY <1>1 DEF Responses
  <2>2. \A o : Funded(o) => Funded(o)'
    BY <2>1 DEF Funded, Answerable, Posted, PaysForStorage, Sum, HasResponse
  <2> QED
    BY <1>1, <2>2 DEF WorthInv, AllFunded, Outs
<1>5. JobIsWorthIt' /\ AnswerIsMine'
  BY <1>1, <1>2 DEF WorthInv, JobIsWorthIt, AnswerIsMine
<1> QED
  BY <1>3, <1>4, <1>5 DEF WorthInv

(* The run's own transaction is like others'.                              *)
LEMMA FulfilledPreservesWorthInv ==
  ASSUME AsPromised, WorthInv, AutoInv', NEW fee, Fulfilled(fee)
  PROVE  WorthInv'
<1>1. PICK tx \in Balanced(utxos, Me, Attempt(fee).tx, built) : Build(tx)
  BY DEF Fulfilled
<1>2. /\ UNCHANGED <<utxos, now, signed, tip>>
      /\ pending' = pending \cup {tx}
      /\ pc = "answered" /\ pc' = "waiting"
  BY <1>1 DEF Build, SubmitToNode, Fulfilled
<1>3. \A o \in tx.outs : Proper(o) /\ Funded(o)
  BY <1>1, <1>2, BuiltIsSound
<1>4. Outs' = Outs \cup tx.outs
  BY <1>2 DEF Outs
<1>5. CommandInv'
  BY <1>2, <1>3, <1>4 DEF WorthInv, AutoInv, CommandInv, AllProper, Proper, BlocksArePast
<1>6. AllFunded'
  <2>1. Responses' = Responses
    BY <1>2 DEF Responses
  <2>2. \A o : Funded(o) => Funded(o)'
    BY <2>1 DEF Funded, Answerable, Posted, PaysForStorage, Sum, HasResponse
  <2> QED
    BY <1>2, <1>3, <1>4, <2>2 DEF WorthInv, AllFunded
<1> QED
  BY <1>2, <1>5, <1>6 DEF WorthInv, JobIsWorthIt, AnswerIsMine

(* One case per action.                                                    *)
LEMMA AutoNextPreservesWorthInv ==
  ASSUME AsPromised, AsConfigured, WorthInv, [AutoNext]_autovars
  PROVE  WorthInv'
<1>1. AutoInv'
  BY AutoNextPreservesAutoInv DEF WorthInv
<1>2. CASE [OffNext]_offvars /\ UNCHANGED runvars
  <2>1. CommandInv' /\ AllFunded'
    BY <1>2, NextPreservesCommandInv, NextPreservesAllFunded DEF WorthInv
  <2>2. signed \subseteq signed'
    BY <1>2, ChainChanges DEF Submit, Sign, Tick, vars
  <2>3. pc' = pc /\ job' = job
    BY <1>2 DEF runvars
  <2>4. JobIsWorthIt' /\ AnswerIsMine'
    BY <2>2, <2>3 DEF WorthInv, JobIsWorthIt, AnswerIsMine
  <2> QED
    BY <1>1, <2>1, <2>4 DEF WorthInv
<1>3. CASE RunStep
  <2>1. CASE \E u \in todo : Consider(u)
    <3>1. PICK u \in todo : Consider(u)
      BY <2>1
    <3>2. UNCHANGED offvars
      BY <3>1 DEF Consider
    <3> QED
      BY <1>1, <3>1, <3>2, ConsiderFindsWorthy, IdlePreservesWorthInv
  <2>2. CASE \E msg \in Messages : Answered(msg)
    BY <1>1, <2>2, AnsweredPreservesWorthInv
  <2>3. CASE \E fee \in Fees : Fulfilled(fee)
    BY <1>1, <2>3, FulfilledPreservesWorthInv
  <2>4. CASE UNCHANGED offvars /\ ~AtWork'
    BY <1>1, <2>4, IdlePreservesWorthInv DEF AtWork, JobIsWorthIt
  <2>5. CASE \/ Start \/ Finish \/ Unreachable \/ NotFulfilled \/ Handle \/ TimeOut
             \/ Previewed \/ Crash \/ \E mode \in Modes : Restart(mode)
    BY <2>4, <2>5
    DEF Start, Finish, Unreachable, NotFulfilled, Handle, TimeOut, Previewed, Crash,
        Restart, GiveUp, Proceed, AtWork
  <2> QED
    BY <1>3, <2>1, <2>2, <2>3, <2>5 DEF RunStep, OrdinaryStep
<1> QED
  BY <1>2, <1>3 DEF AutoNext, autovars, offvars, runvars

(* What a run knows when it has been answered makes the answer pass.       *)
LEMMA WorthyAnswersPass ==
  ASSUME AsPromised, WorthInv
  PROVE  WorthAsking
<1>1. pc = "asking" => CanRun(job.oracle.data.pubKey, job.request.datum.action)
  BY DEF WorthInv, JobIsWorthIt
<1>2. ASSUME pc = "answered", NEW fee \in Fees, NEW u, u = job.request,
             NEW msg, msg = job.msg, NEW oracle, oracle = job.oracle,
             {u, oracle.utxo} \subseteq utxos, tip <= msg.item.timestamp,
             u.datum.after <= msg.item.timestamp, msg.item.timestamp <= u.datum.before,
             Newer(msg, u.datum.poolActionID)
      PROVE  /\ Attempt(fee).outcome = "transaction"
             /\ ScriptsAccept(Attempt(fee).first)
             /\ ScriptsAccept(Attempt(fee).tx)
  <2>1. /\ u.addr = RequestAddr /\ u.datum \in Request
        /\ u.datum.poolActionID = PoolActionID(u.datum.pool, u.datum.action)
        /\ oracle.pool = u.datum.pool
        /\ msg.action = u.datum.action /\ msg \in signed /\ msg.relayer = Me
        /\ msg.signer = oracle.data.pubKey
        /\ oracle \in RegisteredOracles({oracle.utxo}, OracleAddrs)
        /\ u.datum.reward >= ConfigReward
    BY <1>2
    DEF WorthInv, AutoInv, ListedAreRequests, Listed, AtWork, IsListed, JobIsValid,
        WellFormed, MessageIsForJob, JobIsWorthIt, AnswerIsMine
  <2>2. u \in StoredRequests(utxos) /\ Answerable(u)
    BY <1>2, <2>1 DEF StoredRequests, Answerable
  <2>3. oracle \in OraclesOf(utxos, OracleAddrs, msg.signer, {u.datum.pool})
    <3>1. oracle \in RegisteredOracles(utxos, OracleAddrs)
      BY <1>2, <2>1 DEF RegisteredOracles
    <3> QED
      BY <2>1, <3>1 DEF OraclesOf
  <2>4. ConfigReward \in Nat /\ ConfigReward <= u.datum.reward
    BY <2>1, ConfigAssumption DEF Request
  <2>5. Attempt(fee) = Fulfillment(utxos, tip, oracle, u, msg, ConfigReward, msg.relayer,
                                   fee, built)
    BY <1>2, <2>1 DEF Attempt
  <2>6. msg.item.timestamp >= tip
    <3>1. tip \in Nat /\ msg.item.timestamp \in Nat
      BY <1>2, TimesAssumption
      DEF WorthInv, AutoInv, MessageIsForJob, CommandInv, BlocksArePast
    <3> QED
      BY <1>2, <3>1
  <2> QED
    <3>1. CommandInv /\ AllFunded
      BY <1>2 DEF WorthInv
    <3>2. /\ msg \in signed /\ msg.action = u.datum.action /\ fee \in Fees
          /\ Newer(msg, u.datum.poolActionID)
          /\ u.datum.after <= msg.item.timestamp /\ msg.item.timestamp <= u.datum.before
      BY <1>2, <2>1
    <3> QED
      BY ONLY AsPromised, <3>1, <3>2, <2>2, <2>3, <2>4, <2>5, <2>6, AnswersPass
<1> QED
  BY <1>1, <1>2 DEF WorthAsking

(* At first nobody has been asked.                                         *)
LEMMA InitEstablishesWorthInv ==
  ASSUME AsPromised, AutoInit
  PROVE  WorthInv
<1>1. AutoInv /\ MoneyInv
  BY InitEstablishesAutoInv, InitEstablishesMoneyInv DEF AutoInit
<1> QED
  BY <1>1 DEF WorthInv, MoneyInv, JobIsWorthIt, AnswerIsMine, AutoInit

(* No trust domain is asked for what it cannot run, and none for an answer *)
(* that could not be published to the relayer's benefit.                   *)
THEOREM NobodyIsAskedInVain ==
  ASSUME AsPromised, AsConfigured
  PROVE  AutoSpec => []WorthAsking
<1>1. AutoInit => WorthInv
  BY InitEstablishesWorthInv
<1>2. WorthInv /\ [AutoNext]_autovars => WorthInv'
  BY AutoNextPreservesWorthInv
<1>3. WorthInv => WorthAsking
  BY WorthyAnswersPass
<1> QED
  BY <1>1, <1>2, <1>3, PTL DEF AutoSpec

-----------------------------------------------------------------------------

(* The relayer's collateral is safe.  What it submits differs from what is *)
(* evaluated in the change, and in what its wallet adds, which no script   *)
(* of the transaction looks at.                                            *)

(* What the wallet that pays adds, whichever inputs it picks.              *)
LEMMA WalletChangesNoVerdict ==
  ASSUME CommandInv, NEW u, NEW msg, NEW oracle, Matches(u, msg, oracle),
         NEW fee, NEW change,
         NEW plain, IsAnswer(plain, u, msg, oracle, fee, change), ScriptsAccept(plain),
         NEW tx \in Balanced(utxos, Me, plain, built)
  PROVE  ScriptsAccept(tx)
<1> DEFINE p == AnswerFor(oracle, msg)
<1> DEFINE S == ByPoolActionID(utxos, p)
<1> DEFINE o == ResponseOutput(p, msg.item, built)
<1> DEFINE back(coin) == Output(<<built, 2>>, KeyAddr(Me), coin, NoTokens, NoDatum)
<1>0. /\ u.addr = RequestAddr /\ u.tokens = NoTokens /\ u.datum \in Request
      /\ S = Existing(utxos, oracle, msg)
  BY AnswerInputs
<1>1. p = AnswerFor(oracle, msg) /\ o = ResponseOutput(p, msg.item, built)
  OBVIOUS
<1> HIDE DEF o, p
<1>2. /\ plain.ins = S \cup {u} /\ WithResponse(plain.outs) = {o}
      /\ \A v \in plain.outs : v.tokens = NoTokens \/ v.tokens = One(ResponseAsset(p))
  BY <1>0, <1>1, AnswerOutputs
<1>3. PICK P, coin :
        /\ P \subseteq Purse(utxos, Me)
        /\ tx = [plain EXCEPT !.ins = @ \cup P, !.outs = @ \cup {back(coin)}]
  BY DEF Balanced, Picks
<1>4. /\ \A v \in P : v.addr.kind = "key" /\ v.tokens = NoTokens
      /\ back(coin).tokens = NoTokens
  BY <1>3 DEF Purse, KeyAddr, Output
<1> HIDE DEF back
<1>5. /\ tx.ins = plain.ins \cup P /\ tx.outs = plain.outs \cup {back(coin)}
      /\ tx.refs = plain.refs /\ tx.lo = plain.lo /\ tx.hi = plain.hi
      /\ tx.signers = plain.signers /\ tx.fee = plain.fee
  BY <1>3 DEF IsAnswer, FulfillingTx, PublishTx, Tx
<1>6. \A v \in S : v.addr = ResponseAddr /\ v.tokens = One(ResponseAsset(p))
  BY StoredTogether
<1> HIDE DEF S
<1>7. WithResponse(tx.outs) = WithResponse(plain.outs)
  BY <1>4, <1>5, ByTokens DEF WithResponse
<1>8. \A m, R : ResponseValidates(m, R, signed, plain) => ResponseValidates(m, R, signed, tx)
  BY <1>5, <1>7, SameForResponseScript
<1>9. \A v \in S : \E m \in signed : ResponseValidates(m, {v}, signed, tx)
  BY <1>2, <1>6, <1>8 DEF ScriptsAccept, ResponseScriptAccepts, GuardedBy
<1>10. \E m \in signed : ResponseValidates(m, {}, signed, tx)
  BY <1>8, AnswerRunsPolicy
<1>11. RequestValidates(u, tx)
  <2>1. u.datum # NoDatum /\ RequestValidates(u, plain)
    <3>1. u.datum # NoDatum
      BY <1>0 DEF Request, NoDatum
    <3>2. u \in GuardedBy(RequestAddr, plain)
      BY <1>0, <1>2 DEF GuardedBy
    <3> QED
      BY <3>1, <3>2 DEF ScriptsAccept, RequestScriptAccepts
  <2>2. RequestExpired(u.datum, tx) <=> RequestExpired(u.datum, plain)
    BY <1>5 DEF RequestExpired, Before
  <2>3. \A item \in ValidResponses(u.datum, plain) : item \in ValidResponses(u.datum, tx)
    BY <1>5 DEF ValidResponses, Holding
  <2>4. ASSUME NEW item, ExistsChangeOutput(u, item, plain)
        PROVE  ExistsChangeOutput(u, item, tx)
    <3>1. \A asset : Holding(tx.ins, asset) = Holding(plain.ins, asset)
      <4>1. DOMAIN NoTokens = {}
        BY DEF NoTokens
      <4> QED
        BY <1>4, <1>5, <4>1 DEF Holding, Quantity
    <3>2. CappedCost(u.datum, item, tx) = CappedCost(u.datum, item, plain)
      BY <1>5, <3>1 DEF CappedCost, RealCost, AdaSpentWithAsset
    <3> QED
      BY <1>5, <2>4, <3>2 DEF ExistsChangeOutput
  <2> QED
    BY <1>0, <1>5, <2>1, <2>2, <2>3, <2>4 DEF RequestValidates
<1>12. \A v \in tx.ins : \/ v = u \/ v \in S
                         \/ v.addr.kind = "key" /\ v.tokens = NoTokens
  BY <1>2, <1>4, <1>5
<1>13. \A v \in tx.outs : v.tokens = NoTokens \/ v.tokens = One(ResponseAsset(p))
  BY <1>2, <1>4, <1>5
<1> QED
  BY <1>0, <1>6, <1>9, <1>10, <1>11, <1>12, <1>13, OnlyAnswerScripts

(* What the run submits passes, as the first transaction has.              *)
LEMMA SubmittedPasses ==
  ASSUME AsPromised, WorthInv, pc = "answered", NEW fee \in Fees,
         Evaluates(Attempt(fee).first),
         NEW tx \in Balanced(utxos, Me, Attempt(fee).tx, built)
  PROVE  ScriptsAccept(tx)
<1> DEFINE u == job.request
<1> DEFINE msg == job.msg
<1> DEFINE oracle == job.oracle
<1> DEFINE f == Attempt(fee)
<1> DEFINE first == f.first
<1> DEFINE plain == f.tx
<1>1. /\ u.addr = RequestAddr /\ u.datum \in Request /\ oracle.pool = u.datum.pool
      /\ u.datum.poolActionID = PoolActionID(u.datum.pool, u.datum.action)
      /\ msg.action = u.datum.action /\ msg \in Messages /\ msg.relayer = Me
      /\ u.datum.reward >= ConfigReward
  BY DEF WorthInv, AutoInv, ListedAreRequests, Listed, AtWork, IsListed, JobIsValid,
         WellFormed, MessageIsForJob, JobIsWorthIt, AnswerIsMine
<1>2. f = Fulfillment(utxos, tip, oracle, u, msg, ConfigReward, msg.relayer, fee, built)
  BY <1>1 DEF Attempt
<1>3. /\ \E change : IsAnswer(first, u, msg, oracle, fee, change)
      /\ \E change : IsAnswer(plain, u, msg, oracle, fee, change)
  BY <1>2 DEF IsAnswer, Fulfillment
<1>4. u \in utxos
  <2>1. u \in first.ins
    BY <1>3, FulfillingParts DEF IsAnswer
  <2> QED
    BY <2>1 DEF Evaluates
<1>5. Matches(u, msg, oracle) /\ Answerable(u)
  BY <1>1, <1>4 DEF Matches, Answerable, StoredRequests
<1>6. ConfigReward \in Nat /\ ConfigReward <= u.datum.reward
  BY <1>1, ConfigAssumption DEF Request
<1>7. ScriptsAccept(first) /\ CommandInv /\ AllFunded
  BY DEF Evaluates, WorthInv
<1> HIDE DEF f, u, msg, oracle
<1>8. ExistsChangeOutput(u, msg.item, plain)
  <2>1. PICK change \in Int : /\ IsAnswer(plain, u, msg, oracle, fee, change)
                              /\ change >= ChangeDue(u, msg, oracle, fee)
    BY <1>2, <1>5, <1>6, <1>7, TwoTransactions
  <2> HIDE DEF plain
  <2> QED
    BY <1>5, <1>7, <2>1, ChangeAccepted
<1> HIDE DEF first, plain
<1>9. ScriptsAccept(plain)
  BY <1>3, <1>5, <1>7, <1>8, SecondPassesToo
<1>10. tx \in Balanced(utxos, Me, plain, built)
  BY DEF plain, f
<1> QED
  BY <1>3, <1>5, <1>7, <1>9, <1>10, WalletChangesNoVerdict

(* Nothing else is added that scripts would refuse.                        *)
LEMMA AutoNextPreservesAllAccepted ==
  ASSUME AsPromised, AsConfigured, WorthInv, AllAccepted, [AutoNext]_autovars
  PROVE  AllAccepted'
<1>1. MoneyInv
  BY DEF WorthInv, MoneyInv
<1>2. CASE [OffNext]_offvars
  BY <1>1, <1>2, NextPreservesMoneyInv DEF MoneyInv
<1>3. CASE RunStep
  <2>1. CASE \E msg \in Messages : Answered(msg)
    <3>1. signed \subseteq signed' /\ pending' = pending
      BY <2>1 DEF Answered, Sign
    <3> QED
      BY <3>1, AcceptedForGood DEF AllAccepted
  <2>2. CASE \E fee \in Fees : Fulfilled(fee)
    <3>1. PICK fee \in Fees : Fulfilled(fee)
      BY <2>2
    <3>2. PICK tx \in Balanced(utxos, Me, Attempt(fee).tx, built) : Build(tx)
      BY <3>1 DEF Fulfilled
    <3>3. pending' = pending \cup {tx} /\ signed' = signed
      BY <3>2 DEF Build, SubmitToNode
    <3>4. ScriptsAccept(tx)
      BY <3>1, <3>2, SubmittedPasses DEF Fulfilled
    <3>5. \A t \in pending' : ScriptsAccept(t)
      BY <3>3, <3>4 DEF AllAccepted
    <3> QED
      BY <3>3, <3>5, AcceptedForGood DEF AllAccepted
  <2>3. CASE UNCHANGED offvars
    BY <1>2, <2>3
  <2> QED
    BY <1>3, <2>1, <2>2, <2>3
    DEF RunStep, OrdinaryStep, Start, Finish, Consider, Unreachable, NotFulfilled, Handle,
        TimeOut, Previewed, Crash, Restart
<1> QED
  BY <1>2, <1>3 DEF AutoNext, autovars, offvars

(* Whatever the runs and others have pending, included or overtaken, costs *)
(* no one a collateral.                                                    *)
THEOREM RelayerKeepsCollateral ==
  ASSUME AsPromised, AsConfigured
  PROVE  AutoSpec => []SubmittedKeepCollateral
<1>1. AutoInit => WorthInv /\ AllAccepted
  <2>1. AutoInit => MoneyInv
    BY InitEstablishesMoneyInv DEF AutoInit
  <2> QED
    BY <2>1, InitEstablishesWorthInv DEF MoneyInv
<1>2. WorthInv /\ AllAccepted /\ [AutoNext]_autovars => WorthInv' /\ AllAccepted'
  BY AutoNextPreservesWorthInv, AutoNextPreservesAllAccepted
<1>3. AllAccepted => SubmittedKeepCollateral
  BY DEF AllAccepted, SubmittedKeepCollateral
<1> QED
  BY <1>1, <1>2, <1>3, PTL DEF AutoSpec

-----------------------------------------------------------------------------

(* The relayer is paid.  Each transaction of a run brings the reward when  *)
(* it is included, whichever blocks have come in between; what others      *)
(* submit leaves the relayer's wallet alone; and what is reported as       *)
(* handled has been included.                                              *)

(* A transaction that pays the relayer the reward beyond what it takes.    *)
Gains(tx) ==
  \E o \in Purse(tx.outs, Me) : o.coin >= CoinOf(Purse(tx.ins, Me)) + ConfigReward

(* What is pending takes nothing of the relayer's or pays.                 *)
NoneAtMyExpense == \A tx \in pending : Purse(tx.ins, Me) = {} \/ Gains(tx)

WaitsForGain ==
  pc = "waiting" =>
    \A tx \in pending : \A o \in tx.outs :
      o.addr = ResponseAddr /\ o.ref[1] = job.id => Gains(tx)

(* The requests handled, and the one that is going to be reported as such. *)
Counted == Cardinality(handled) + IF pc = "waiting" /\ Seen(job.id) THEN 1 ELSE 0

Paid ==
  CoinOf(Purse(utxos, Me)) >= CoinOf(Purse(Genesis, Me)) + Counted * ConfigReward

PaidInv ==
  /\ AutoInv
  /\ IsFiniteSet(handled)
  /\ NoneAtMyExpense
  /\ WaitsForGain
  /\ Paid

(* The relayer's outputs on chain.                                         *)
LEMMA PurseIsFinite ==
  ASSUME NEW S, IsFiniteSet(S), \A u \in S : u.coin \in Nat
  PROVE  /\ Purse(S, Me) \subseteq S
         /\ IsFiniteSet(Purse(S, Me)) /\ CoinOf(Purse(S, Me)) \in Nat
         /\ \A o \in Purse(S, Me) : o.coin \in Nat /\ o.coin <= CoinOf(Purse(S, Me))
<1> DEFINE R == Purse(S, Me)
<1>1. R \subseteq S
  BY DEF Purse
<1> HIDE DEF R
<1>2. IsFiniteSet(R) /\ \A u \in R : u.coin \in Nat
  BY <1>1, FS_Subset
<1>3. CoinOf(R) \in Nat
  BY <1>2, CoinOfNat
<1>4. ASSUME NEW o \in R PROVE o.coin <= CoinOf(R)
  <2>1. CoinOf({o}) = o.coin
    BY <1>2, CoinOfOne
  <2>2. {o} \in SUBSET R
    OBVIOUS
  <2>3. CoinOf({o}) <= CoinOf(R)
    BY <1>2, <2>2, CoinOfLess
  <2> QED
    BY <2>1, <2>3
<1> QED
  BY <1>1, <1>2, <1>3, <1>4 DEF R

(* What a block does to them.                                              *)
LEMMA PurseAfter ==
  ASSUME IndInv, NEW tx, Submit(tx)
  PROVE  /\ CoinOf(Purse(utxos, Me)) \in Nat /\ CoinOf(Purse(utxos', Me)) \in Nat
         /\ Purse(tx.ins, Me) = {} =>
              CoinOf(Purse(utxos', Me)) >= CoinOf(Purse(utxos, Me))
         /\ Gains(tx) =>
              CoinOf(Purse(utxos', Me)) >= CoinOf(Purse(utxos, Me)) + ConfigReward
<1> DEFINE R == Purse(utxos, Me)
<1> DEFINE I == Purse(tx.ins, Me)
<1> DEFINE O == Purse(tx.outs, Me)
<1> DEFINE L == R \ I
<1>1. /\ tx.ins \subseteq utxos /\ IsFiniteSet(tx.outs)
      /\ \A o \in tx.outs : o.coin \in Nat
      /\ \A o \in tx.outs : \A u \in utxos : o.ref # u.ref
      /\ utxos' = (utxos \ tx.ins) \cup {o \in tx.outs : Tracked(o)}
  BY DEF Submit, Accepted, LedgerAccepts
<1>2. IsFiniteSet(utxos) /\ \A u \in utxos : u.coin \in Nat
  BY DEF IndInv, TypeOK
<1>3. /\ R \subseteq utxos /\ IsFiniteSet(R) /\ CoinOf(R) \in Nat
      /\ \A o \in R : o.coin \in Nat
  BY <1>2, PurseIsFinite
<1>4. /\ O \subseteq tx.outs /\ IsFiniteSet(O) /\ CoinOf(O) \in Nat
      /\ \A o \in O : o.coin \in Nat /\ o.coin <= CoinOf(O)
  BY <1>1, PurseIsFinite
<1>5. I \subseteq R
  BY <1>1 DEF Purse
<1>6. Purse(utxos', Me) = L \cup O
  <2>1. \A o \in O : Tracked(o)
    BY ConfigAssumption DEF Purse, Tracked
  <2> QED
    BY <1>1, <2>1 DEF Purse
<1>7. L \cap O = {}
  BY <1>1, <1>3, <1>4
<1> HIDE DEF R, I, O
<1>8. /\ IsFiniteSet(L) /\ \A o \in L : o.coin \in Nat
      /\ IsFiniteSet(I) /\ \A o \in I : o.coin \in Nat
      /\ L \cup I = R /\ L \cap I = {}
  BY <1>3, <1>5, FS_Subset
<1> HIDE DEF L
<1>9. CoinOf(L) \in Nat /\ CoinOf(I) \in Nat
  BY <1>8, CoinOfNat
<1>10. CoinOf(R) = CoinOf(L) + CoinOf(I)
  <2>1. CoinOf(L \cup I) = CoinOf(L) + CoinOf(I)
    BY <1>8, CoinOfUnion DEF Coins
  <2> QED
    BY <1>8, <2>1
<1>11. CoinOf(L \cup O) = CoinOf(L) + CoinOf(O)
  BY <1>4, <1>7, <1>8, CoinOfUnion DEF Coins
<1>12. CoinOf(Purse(utxos', Me)) = CoinOf(L) + CoinOf(O)
  BY <1>6, <1>11
<1>13. I = {} => CoinOf(L) + CoinOf(O) >= CoinOf(R)
  <2>1. I = {} => CoinOf(I) = 0
    BY CoinOfNone
  <2> QED
    BY <1>4, <1>9, <1>10, <2>1
<1>14. ASSUME NEW o \in O, o.coin >= CoinOf(I) + ConfigReward
       PROVE  CoinOf(L) + CoinOf(O) >= CoinOf(R) + ConfigReward
  BY <1>4, <1>9, <1>10, <1>14, ConfigAssumption
<1> QED
  BY <1>3, <1>4, <1>9, <1>12, <1>13, <1>14 DEF R, I, O, Gains

(* What others submit takes nothing from wallets but the oracles'.         *)
AddsAtNoExpense ==
  \E tx : /\ pending' = pending \cup {tx}
          /\ \A u \in tx.ins : u.addr.kind = "script" \/ u.addr = KeyAddr(OraclesWallet)

(* One more pending transaction.                                           *)
LEMMA BuildAddsAtNoExpense ==
  ASSUME NEW tx, Build(tx),
         \A u \in tx.ins : u.addr.kind = "script" \/ u.addr = KeyAddr(OraclesWallet)
  PROVE  AddsAtNoExpense
BY DEF Build, SubmitToNode, AddsAtNoExpense

(* One case per command.                                                   *)
LEMMA CommandAddsAtNoExpense ==
  ASSUME Command
  PROVE  AddsAtNoExpense
<1>0. /\ \A p : \A u \in ByPoolActionID(utxos, p) : u.addr.kind = "script"
      /\ \A u \in StoredRequests(utxos) : u.addr.kind = "script"
      /\ UserAddr.kind = "script"
  BY DEF ByPoolActionID, StoredResponses, StoredRequests, ResponseAddr, RequestAddr,
         UserAddr, ScriptAddr
<1>1. CASE \E oracle \in OraclesToAdd : AddSingleOracle(oracle)
  BY <1>1, BuildAddsAtNoExpense DEF AddSingleOracle, AddSingleOracleTx, Tx
<1>2. CASE \E oracle \in OraclesToAdd, name \in PoolNames : AddPrivateOracle(oracle, name)
  BY <1>2, BuildAddsAtNoExpense DEF AddPrivateOracle, AddPrivateOracleTx, PlainTx, Tx
<1>3. CASE \E u \in utxos : DeleteOracle(u)
  BY <1>3, BuildAddsAtNoExpense DEF DeleteOracle, DeleteOracleTx, PlainTx, Tx
<1>4. CASE \E msg \in Held : Relay(msg)
  BY <1>0, <1>4, BuildAddsAtNoExpense DEF Relay, PublishTx, Tx
<1>5. CASE \E owner \in Owners, kind \in RequestKinds : AddRequest(owner, kind)
  BY <1>5, BuildAddsAtNoExpense DEF AddRequest, AddRequestTx, PlainTx, Tx
<1>6. CASE \E u \in StoredRequests(utxos), msg \in Held, fee \in Fees :
             Fulfill(u, msg, fee)
  <2>1. PICK u \in StoredRequests(utxos) :
          \E slot, oracle, msg, wallet, change, fee :
            Build(FulfillingTx(utxos, slot, oracle, u, msg, wallet, change, fee, built))
    BY <1>6 DEF Fulfill, Fulfillment
  <2>2. PICK slot, oracle, msg, wallet, change, fee :
          Build(FulfillingTx(utxos, slot, oracle, u, msg, wallet, change, fee, built))
    BY <2>1
  <2>3. FulfillingTx(utxos, slot, oracle, u, msg, wallet, change, fee, built).ins
          = ByPoolActionID(utxos, PoolActionID(oracle.pool, msg.action)) \cup {u}
    BY DEF FulfillingTx, PublishTx, Tx
  <2> QED
    BY <1>0, <2>2, <2>3, BuildAddsAtNoExpense
<1>7. CASE \E u \in StoredRequests(utxos) : Recycle(u)
  BY <1>0, <1>7, BuildAddsAtNoExpense DEF Recycle, RecycleTx, Tx
<1>8. CASE \E owner \in Owners : RecycleAll(owner)
  <2>1. PICK owner :
          \E tx \in RecycleAllTxs(utxos, tip, now, Limit, owner, ChangeOnly) :
            SubmitToNode(tx)
    BY <1>8 DEF RecycleAll
  <2>2. PICK tx \in RecycleAllTxs(utxos, tip, now, Limit, owner, ChangeOnly) :
          SubmitToNode(tx)
    BY <2>1
  <2>3. PICK S \in SUBSET Expired(utxos, now, owner) :
          tx = Tx(S, {}, {Output(<<ChangeOnly, 0>>, KeyAddr(owner), CoinOf(S), NoTokens,
                                 NoDatum)},
                  RecycleAllStart(tip), tip + EndOffset, {owner}, 0)
    BY DEF RecycleAllTxs
  <2>4. tx.ins \subseteq StoredRequests(utxos)
    BY <2>3 DEF Expired, Tx
  <2> QED
    BY <1>0, <2>2, <2>4 DEF SubmitToNode, AddsAtNoExpense
<1>9. CASE \E user \in DemoUsers, coin \in Deposits : Lock(user, coin)
  BY <1>9, BuildAddsAtNoExpense DEF Lock, LockTx, PlainTx, Tx
<1>10. CASE \E user \in DemoUsers : Spend(user)
  <2>0. PICK user \in DemoUsers :
          \E tx \in SpendTxs(utxos, tip, now, user, built) : Build(tx)
    BY <1>10 DEF Spend
  <2>1. PICK tx \in SpendTxs(utxos, tip, now, user, built) : Build(tx)
    BY <2>0
  <2>2. PICK r, out, hi : tx = Tx({u \in utxos : u.addr = UserAddr}, {r}, {out},
                                  tip + StartOffset, hi, {user}, 0)
    BY <2>1, Zenon DEF SpendTxs
  <2>3. tx.ins = {u \in utxos : u.addr = UserAddr}
    BY <2>2 DEF Tx
  <2> QED
    BY <1>0, <2>1, <2>3, BuildAddsAtNoExpense
<1> QED
  BY <1>1, <1>2, <1>3, <1>4, <1>5, <1>6, <1>7, <1>8, <1>9, <1>10 DEF Command

(* What is left of a fulfilling transaction is a number.                   *)
LEMMA GainIsNumber ==
  ASSUME NEW view, IsFiniteSet(view), \A v \in view : v.coin \in Nat,
         NEW slot, NEW oracle, NEW u \in view, NEW msg, Bytes(msg.item) \in Nat,
         NEW wallet, NEW change \in Int, NEW fee \in Nat, NEW id,
         NEW tx, tx = FulfillingTx(view, slot, oracle, u, msg, wallet, change, fee, id)
  PROVE  RelayerGain(tx) \in Int
<1> DEFINE o == NewResponse(oracle, msg, id)
<1> DEFINE back == ChangeOutput(u, change, id)
<1>1. /\ tx.ins = Existing(view, oracle, msg) \cup {u}
      /\ tx.outs = {o, back} /\ tx.fee = fee
  BY FulfillingParts
<1>2. tx.ins \subseteq view
  BY <1>1 DEF Existing, ByPoolActionID, StoredResponses
<1>3. CoinOf(tx.ins) \in Nat
  <2>1. IsFiniteSet(tx.ins) /\ \A v \in tx.ins : v.coin \in Nat
    BY <1>2, FS_Subset
  <2> QED
    BY <2>1, CoinOfNat
<1>4. o.coin \in Int /\ back.coin \in Int
  <2>1. o.coin = MinCoin(ResponseBytes(Bytes(msg.item))) /\ back.coin = change
    BY DEF NewResponse, ChangeOutput, ResponseOutput, TokenOutput, Output
  <2>2. 160 + ResponseBytes(Bytes(msg.item)) \in Int
    <3>1. HeadBytes(Bytes(msg.item)) \in 1 .. 3
      BY DEF HeadBytes
    <3> QED
      BY <3>1 DEF ResponseBytes
  <2>3. MinCoin(ResponseBytes(Bytes(msg.item))) \in Int
    BY <2>2, Distributes DEF MinCoin
  <2> QED
    BY <2>1, <2>3
<1> HIDE DEF o, back
<1>5. CoinOf(tx.outs) \in Int
  <2>1. IsFiniteSet({o} \cup {back})
    BY FS_Singleton, FS_AddElement
  <2>2. tx.outs = {o} \cup {back}
    BY <1>1
  <2> QED
    BY <1>4, <2>1, <2>2, CoinOfType DEF Coins
<1> QED
  BY <1>1, <1>3, <1>5 DEF RelayerGain

(* What is left to an owner is a number, too.                              *)
LEMMA ChangeIsNumber ==
  ASSUME NEW view, IsFiniteSet(view), \A v \in view : v.coin \in Nat,
         NEW oracle, NEW u \in view, NEW msg, Bytes(msg.item) \in Nat,
         NEW reward \in Nat, NEW fee \in Nat
  PROVE  SecondChange(u, Existing(view, oracle, msg), Bytes(msg.item), reward, fee) \in Int
<1> DEFINE cost == Cost(view, oracle, msg, reward, fee)
<1>1. cost \in Int
  BY CostOf
<1>2. SecondChange(u, Existing(view, oracle, msg), Bytes(msg.item), reward, fee)
        = u.coin - Max({0, cost})
  BY DEF SecondChange, Cost
<1> HIDE DEF cost
<1>3. Max({0, cost}) \in Nat
  <2>1. 0 \in Nat
    OBVIOUS
  <2> QED
    BY <1>1, <2>1, Capped
<1> QED
  BY <1>2, <1>3

(* A run submits what pays.                                                *)
LEMMA FulfilledGains ==
  ASSUME AutoInv, pc = "answered", NEW fee \in Fees,
         Attempt(fee).outcome = "transaction", Evaluates(Attempt(fee).first),
         NEW tx \in Balanced(utxos, Me, Attempt(fee).tx, built)
  PROVE  Gains(tx)
<1> DEFINE u == job.request
<1> DEFINE msg == job.msg
<1> DEFINE oracle == job.oracle
<1> DEFINE A == Attempt(fee).tx
<1> DEFINE change ==
             SecondChange(u, Existing(utxos, oracle, msg), Bytes(msg.item), ConfigReward, fee)
<1> DEFINE gain == RelayerGain(A)
<1>1. /\ IsFiniteSet(utxos) /\ \A v \in utxos : v.coin \in Nat
      /\ fee \in Nat /\ ConfigReward \in Nat
      /\ u.addr = RequestAddr /\ Bytes(msg.item) \in Nat
  BY PartiesAssumption, ConfigAssumption, MessagesAssumption
  DEF AutoInv, IndInv, TypeOK, ListedAreRequests, Listed, AtWork, IsListed,
      MessageIsForJob
<1>2. A = FulfillingTx(utxos, tip, oracle, u, msg, Me, change, fee, built)
  BY DEF Attempt, Fulfillment, Existing
<1>3. A.ins = Existing(utxos, oracle, msg) \cup {u} /\ A.ins \subseteq utxos
  <2>1. Attempt(fee).first.ins = Existing(utxos, oracle, msg) \cup {u}
    BY DEF Attempt, Fulfillment, FulfillingTx, PublishTx, Tx, Existing
  <2>2. A.ins = Existing(utxos, oracle, msg) \cup {u}
    BY <1>2, FulfillingParts
  <2> QED
    BY <2>1, <2>2 DEF Evaluates
<1>4. Attempt(fee).outcome =
        IF FirstChange(u, Existing(utxos, oracle, msg), Bytes(msg.item), ConfigReward)
              < MinCoin(ChangeBytes) \/ change < MinCoin(ChangeBytes)
        THEN "InsufficientFunds"
        ELSE IF gain < ConfigReward THEN "InsufficientReward" ELSE "transaction"
  BY DEF Attempt, Fulfillment, Existing
<1>5. \A v \in A.ins : v.addr.kind = "script"
  BY <1>1, <1>3
  DEF Existing, ByPoolActionID, StoredResponses, ResponseAddr, RequestAddr, ScriptAddr
<1>6. PICK P \in SUBSET Purse(utxos, Me) :
        tx = [A EXCEPT !.ins  = @ \cup P,
                       !.outs = @ \cup {Output(<<built, 2>>, KeyAddr(Me),
                                               CoinOf(P) + gain, NoTokens, NoDatum)}]
  BY DEF Balanced, Picks
<1>7. /\ "ins" \in DOMAIN A /\ "outs" \in DOMAIN A
  BY <1>2 DEF FulfillingTx, PublishTx, Tx
<1> DEFINE o == Output(<<built, 2>>, KeyAddr(Me), CoinOf(P) + gain, NoTokens, NoDatum)
<1>8. u \in utxos
  BY <1>3
<1> HIDE DEF u, msg, oracle, A, change
<1>9. change \in Int
  BY <1>1, <1>8, ChangeIsNumber DEF change
<1>10. gain \in Int
  BY <1>1, <1>2, <1>8, <1>9, GainIsNumber
<1>11. gain >= ConfigReward
  BY <1>1, <1>4, <1>10
<1>12. Purse(tx.ins, Me) = P
  <2>1. tx.ins = A.ins \cup P
    BY <1>6, <1>7
  <2>2. KeyAddr(Me).kind # "script"
    BY DEF KeyAddr
  <2> QED
    BY <1>5, <2>1, <2>2 DEF Purse
<1>13. CoinOf(P) \in Nat
  <2>1. Purse(utxos, Me) \subseteq utxos
    BY DEF Purse
  <2>2. IsFiniteSet(P) /\ \A v \in P : v.coin \in Nat
    BY <1>1, <2>1, FS_Subset
  <2> QED
    BY <2>2, CoinOfNat
<1>14. o \in Purse(tx.outs, Me) /\ o.coin = CoinOf(P) + gain
  BY <1>6, <1>7 DEF Purse, Output
<1> HIDE DEF o, gain
<1>15. o.coin >= CoinOf(Purse(tx.ins, Me)) + ConfigReward
  BY <1>1, <1>10, <1>11, <1>12, <1>13, <1>14
<1> QED
  BY <1>14, <1>15 DEF Gains

(* The sum that is due grows with the number of requests.                  *)
LEMMA DueGrows ==
  ASSUME NEW n \in Nat, NEW m \in Nat, NEW base \in Nat, NEW coin \in Nat,
         coin >= base + n * ConfigReward
  PROVE  /\ m <= n => coin >= base + m * ConfigReward
         /\ m <= n + 1 => coin + ConfigReward >= base + m * ConfigReward
<1>1. ConfigReward \in Nat
  BY ConfigAssumption
<1>2. m <= n => m * ConfigReward <= n * ConfigReward
  BY <1>1, TimesGrows
<1>3. m <= n + 1 => m * ConfigReward <= n * ConfigReward + ConfigReward
  <2>1. m <= n + 1 => m * ConfigReward <= (n + 1) * ConfigReward
    BY <1>1, TimesGrows
  <2>2. (n + 1) * ConfigReward = n * ConfigReward + ConfigReward
    BY <1>1
  <2> QED
    BY <2>1, <2>2
<1>4. n * ConfigReward \in Nat /\ m * ConfigReward \in Nat
  BY <1>1, TimesGrows
<1> QED
  BY <1>1, <1>2, <1>3, <1>4

(* What the relayer had at first.                                          *)
LEMMA PurseAtFirst == CoinOf(Purse(Genesis, Me)) \in Nat
BY GenesisAssumption, PurseIsFinite

(* Numbers of requests.                                                    *)
LEMMA CountedIsNumber ==
  ASSUME IsFiniteSet(handled)
  PROVE  Counted \in Nat /\ Cardinality(handled) \in Nat
BY FS_CardinalityType DEF Counted

(* A step that leaves the chain as it is and counts no more.               *)
LEMMA PaidStays ==
  ASSUME IndInv, IsFiniteSet(handled), IsFiniteSet(handled'), Paid, utxos' = utxos,
         Counted' <= Counted
  PROVE  Paid'
<1>1. Counted \in Nat /\ Counted' \in Nat
  <2>1. Counted \in Nat
    BY CountedIsNumber
  <2>2. Cardinality(handled') \in Nat
    BY FS_CardinalityType
  <2> QED
    BY <2>1, <2>2 DEF Counted
<1>2. CoinOf(Purse(utxos, Me)) \in Nat
  BY PurseIsFinite DEF IndInv, TypeOK
<1> DEFINE n == Counted
<1> DEFINE m == Counted'
<1> HIDE DEF n, m
<1>3. CoinOf(Purse(utxos, Me)) >= CoinOf(Purse(Genesis, Me)) + m * ConfigReward
  <2>1. /\ n \in Nat /\ m \in Nat /\ m <= n
        /\ CoinOf(Purse(utxos, Me)) >= CoinOf(Purse(Genesis, Me)) + n * ConfigReward
    BY <1>1 DEF n, m, Paid
  <2> QED
    BY <1>2, <2>1, PurseAtFirst, DueGrows
<1> QED
  BY <1>3 DEF Paid, m

(* A block includes what takes nothing of the relayer's, or what pays.     *)
LEMMA IncludedIsPaid ==
  ASSUME PaidInv, NEW tx \in pending, Include(tx), UNCHANGED runvars
  PROVE  Paid'
<1>1. /\ IndInv /\ Submit(tx) /\ IsFiniteSet(handled)
      /\ utxos' = (utxos \ tx.ins) \cup {o \in tx.outs : Tracked(o)}
      /\ handled' = handled /\ pc' = pc /\ job' = job
  BY DEF PaidInv, AutoInv, Include, Submit, runvars
<1> DEFINE base == CoinOf(Purse(Genesis, Me))
<1> DEFINE coin == CoinOf(Purse(utxos, Me))
<1> DEFINE coin2 == CoinOf(Purse(utxos', Me))
<1> DEFINE n == Counted
<1> DEFINE m == Counted'
<1>2. /\ coin \in Nat /\ coin2 \in Nat /\ base \in Nat
      /\ Purse(tx.ins, Me) = {} => coin2 >= coin
      /\ Gains(tx) => coin2 >= coin + ConfigReward
  BY <1>1, PurseAfter, PurseAtFirst
<1>3. n \in Nat /\ m \in Nat /\ m <= n + 1
  BY <1>1, CountedIsNumber DEF Counted
<1>4. ~Gains(tx) => m <= n
  <2> SUFFICES ASSUME ~Gains(tx), pc = "waiting", Seen(job.id)' PROVE Seen(job.id)
    BY <1>1, CountedIsNumber DEF Counted
  <2>1. PICK v \in utxos' : v.addr = ResponseAddr /\ v.ref[1] = job.id
    BY <1>1 DEF Seen
  <2>2. v \notin tx.outs
    BY <2>1 DEF PaidInv, WaitsForGain
  <2>3. v \in utxos
    BY <1>1, <2>1, <2>2
  <2> QED
    BY <2>1, <2>3 DEF Seen
<1>5. Purse(tx.ins, Me) = {} \/ Gains(tx)
  BY DEF PaidInv, NoneAtMyExpense
<1>6. coin >= base + n * ConfigReward
  BY DEF PaidInv, Paid
<1> HIDE DEF base, coin, n, m
<1>7. /\ m <= n => coin >= base + m * ConfigReward
      /\ m <= n + 1 => coin + ConfigReward >= base + m * ConfigReward
  BY <1>2, <1>3, <1>6, DueGrows
<1>8. m * ConfigReward \in Nat /\ ConfigReward \in Nat
  BY <1>3, ConfigAssumption, TimesGrows
<1> HIDE DEF coin2
<1>9. coin2 >= base + m * ConfigReward
  BY <1>2, <1>3, <1>4, <1>5, <1>7, <1>8
<1> QED
  BY <1>9 DEF Paid, base, coin2, m

(* Steps of others: what they submit is not at the relayer's expense.      *)
LEMMA OthersPreservePaidInv ==
  ASSUME Me # OraclesWallet, PaidInv, AutoInv', [OffNext]_offvars, UNCHANGED runvars
  PROVE  PaidInv'
<1>1. /\ handled' = handled /\ pc' = pc /\ job' = job
      /\ IndInv /\ IsFiniteSet(handled)
  BY DEF PaidInv, AutoInv, runvars
<1>2. CASE Command
  <2>1. PICK tx : /\ pending' = pending \cup {tx}
                  /\ \A u \in tx.ins : \/ u.addr.kind = "script"
                                       \/ u.addr = KeyAddr(OraclesWallet)
    BY <1>2, CommandAddsAtNoExpense DEF AddsAtNoExpense
  <2>2. Purse(tx.ins, Me) = {}
    BY <2>1 DEF Purse, KeyAddr
  <2>3. NoneAtMyExpense'
    BY <2>1, <2>2 DEF PaidInv, NoneAtMyExpense, Gains
  <2>4. utxos' = utxos
    BY <1>2, CommandOnlySubmits
  <2>5. Paid'
    <3>1. Counted' = Counted /\ Counted \in Nat
      BY <1>1, <2>4, CountedIsNumber DEF Counted, Seen
    <3> QED
      BY <1>1, <2>4, <3>1, PaidStays DEF PaidInv
  <2>6. WaitsForGain'
    <3> SUFFICES ASSUME pc = "waiting", NEW t \in pending', NEW o \in t.outs,
                        o.addr = ResponseAddr, o.ref[1] = job.id
                 PROVE  Gains(t)
      BY <1>1 DEF WaitsForGain, Gains
    <3>1. CASE t \in pending
      BY <3>1 DEF PaidInv, WaitsForGain
    <3>2. CASE t \notin pending
      <4>1. PICK x : /\ pending' = pending \cup {x}
                     /\ \/ Numbered(x, built) /\ built' = built + 1
                        \/ (\A p \in x.outs : ~AtScript(p)) /\ built' = built
        BY <1>2, CommandAddsOne DEF OneMorePending
      <4>2. t = x /\ AtScript(o)
        BY <3>2, <4>1 DEF AtScript, ResponseAddr, ScriptAddr
      <4>3. o.ref[1] = built
        BY <4>1, <4>2 DEF Numbered
      <4>4. job.id \in 1 .. built - 1 /\ built \in Nat
        BY DEF PaidInv, AutoInv, WaitsForAnswer, Numbers
      <4> QED
        BY <4>3, <4>4
    <3> QED
      BY <3>1, <3>2
  <2> QED
    BY <1>1, <2>3, <2>5, <2>6 DEF PaidInv
<1>3. CASE pending' \subseteq pending
  <2>1. NoneAtMyExpense' /\ WaitsForGain'
    BY <1>1, <1>3 DEF PaidInv, NoneAtMyExpense, WaitsForGain, Gains
  <2>2. CASE \E tx \in pending : Include(tx)
    BY <1>1, <2>1, <2>2, IncludedIsPaid DEF PaidInv
  <2>3. CASE utxos' = utxos
    <3>1. Counted' = Counted /\ Counted \in Nat
      BY <1>1, <2>3, CountedIsNumber DEF Counted, Seen
    <3>2. Paid'
      BY <1>1, <2>3, <3>1, PaidStays DEF PaidInv
    <3> QED
      BY <1>1, <2>1, <3>2 DEF PaidInv
  <2>4. CASE (\E tx \in pending : Include(tx)) \/ utxos' = utxos
    BY <2>2, <2>3, <2>4
  <2> QED
    BY <1>2, <2>4
    DEF OffNext, Environment, Include, Forget, EmptyBlock, Sign, Tick, offvars
<1> QED
  BY <1>2, <1>3
  DEF OffNext, Environment, Include, Forget, EmptyBlock, Sign, Tick, offvars

(* Steps of the run that submit nothing.                                   *)
LEMMA IdlePreservesPaidInv ==
  ASSUME PaidInv, AutoInv', utxos' = utxos, pending' = pending,
         IsFiniteSet(handled'), pc' # "waiting", Cardinality(handled') <= Counted
  PROVE  PaidInv'
<1>1. NoneAtMyExpense' /\ WaitsForGain'
  BY DEF PaidInv, NoneAtMyExpense, WaitsForGain, Gains
<1>2. Counted' <= Counted
  BY FS_CardinalityType DEF Counted
<1>3. Paid'
  BY <1>2, PaidStays DEF PaidInv, AutoInv
<1> QED
  BY <1>1, <1>3 DEF PaidInv

(* What has been seen is reported.                                         *)
LEMMA HandlePreservesPaidInv ==
  ASSUME PaidInv, AutoInv', Handle
  PROVE  PaidInv'
<1>1. /\ pc = "waiting" /\ Seen(job.id) /\ pc' = "next"
      /\ handled' = handled \cup {job.request}
      /\ utxos' = utxos /\ pending' = pending /\ IsFiniteSet(handled)
  BY DEF Handle, Proceed, offvars, PaidInv
<1>2. IsFiniteSet(handled') /\ Cardinality(handled') <= Cardinality(handled) + 1
  BY <1>1, FS_AddElement, FS_CardinalityType
<1>3. Counted = Cardinality(handled) + 1
  BY <1>1 DEF Counted
<1> QED
  BY <1>1, <1>2, <1>3, IdlePreservesPaidInv

(* What a run submits is waited for and pays.                              *)
LEMMA FulfilledPreservesPaidInv ==
  ASSUME PaidInv, AutoInv', NEW fee \in Fees, Fulfilled(fee)
  PROVE  PaidInv'
<1>1. PICK tx \in Balanced(utxos, Me, Attempt(fee).tx, built) : Build(tx)
  BY DEF Fulfilled
<1>2. /\ pc = "answered" /\ pc' = "waiting" /\ job'.id = built
      /\ handled' = handled
      /\ utxos' = utxos /\ pending' = pending \cup {tx}
      /\ AutoInv /\ IndInv /\ IsFiniteSet(handled)
  BY <1>1 DEF Fulfilled, Build, SubmitToNode, PaidInv, AutoInv
<1>3. Gains(tx)
  BY <1>1, <1>2, FulfilledGains DEF Fulfilled
<1>4. \A o \in utxos \cup Outs : o.addr = ResponseAddr => o.ref[1] # built
  BY <1>2 DEF AutoInv, Numbers, AtScript, ResponseAddr, ScriptAddr
<1>5. NoneAtMyExpense'
  BY <1>2, <1>3 DEF PaidInv, NoneAtMyExpense, Gains
<1>6. WaitsForGain'
  <2> SUFFICES ASSUME NEW t \in pending', NEW o \in t.outs,
                      o.addr = ResponseAddr, o.ref[1] = built
               PROVE  Gains(t)
    BY <1>2 DEF WaitsForGain, Gains
  <2>1. t \notin pending
    BY <1>4 DEF Outs
  <2> QED
    BY <1>2, <1>3, <2>1
<1>7. ~Seen(job.id)'
  BY <1>2, <1>4 DEF Seen
<1>8. Counted' <= Counted
  <2>1. Cardinality(handled) \in Nat
    BY <1>2, FS_CardinalityType
  <2> QED
    BY <1>2, <1>7, <2>1 DEF Counted
<1>9. Paid'
  BY <1>2, <1>8, PaidStays DEF PaidInv
<1> QED
  BY <1>2, <1>5, <1>6, <1>9 DEF PaidInv

(* One case per action.                                                    *)
LEMMA AutoNextPreservesPaidInv ==
  ASSUME Me # OraclesWallet, PaidInv, [AutoNext]_autovars
  PROVE  PaidInv'
<1>1. AutoInv'
  BY AutoNextPreservesAutoInv DEF PaidInv
<1>2. CASE [OffNext]_offvars /\ UNCHANGED runvars
  BY <1>1, <1>2, OthersPreservePaidInv
<1>3. CASE RunStep
  <2>1. CASE Handle
    BY <1>1, <2>1, HandlePreservesPaidInv
  <2>2. CASE \E fee \in Fees : Fulfilled(fee)
    BY <1>1, <2>2, FulfilledPreservesPaidInv
  <2>3. CASE /\ utxos' = utxos /\ pending' = pending /\ handled' = handled
             /\ pc' # "waiting"
    <3>1. IsFiniteSet(handled') /\ Cardinality(handled') <= Counted
      BY <2>3, FS_CardinalityType DEF PaidInv, Counted
    <3> QED
      BY <1>1, <2>3, <3>1, IdlePreservesPaidInv
  <2>4. CASE \/ Start \/ Finish \/ Unreachable \/ NotFulfilled \/ TimeOut
             \/ Previewed \/ Crash \/ \E mode \in Modes : Restart(mode)
    BY <2>3, <2>4
    DEF Start, Finish, Unreachable, NotFulfilled, TimeOut, Previewed, Crash, Restart,
        GiveUp, Proceed, offvars
  <2>5. CASE \E u \in todo : Consider(u)
    BY <2>3, <2>5 DEF Consider, offvars
  <2>6. CASE \E msg \in Messages : Answered(msg)
    BY <2>3, <2>6 DEF Answered, Sign
  <2> QED
    BY <1>3, <2>1, <2>2, <2>4, <2>5, <2>6 DEF RunStep, OrdinaryStep
<1> QED
  BY <1>2, <1>3 DEF AutoNext, autovars, offvars, runvars

(* At first nothing is due.                                                *)
LEMMA InitEstablishesPaidInv ==
  ASSUME AutoInit
  PROVE  PaidInv
<1>1. AutoInv /\ utxos = Genesis /\ pending = {} /\ handled = {} /\ pc = "start"
  BY InitEstablishesAutoInv DEF AutoInit, OffInit, Init
<1>2. IsFiniteSet(handled) /\ Cardinality(handled) = 0
  BY <1>1, FS_EmptySet
<1>3. Counted = 0
  BY <1>1, <1>2 DEF Counted
<1>4. Paid
  <2>1. Counted * ConfigReward = 0
    BY <1>3, ConfigAssumption
  <2> QED
    BY <1>1, <2>1, PurseAtFirst DEF Paid
<1> QED
  BY <1>1, <1>2, <1>4 DEF PaidInv, NoneAtMyExpense, WaitsForGain

(* Each request that is reported as handled has brought the reward.  The   *)
(* relayer's wallet has to be another than the operator's wallet of        *)
(* oracles, from which "delete" takes any output.                          *)
THEOREM EachHandledIsPaid ==
  ASSUME Me # OraclesWallet
  PROVE  AutoSpec => []HandledIsPaid
<1>1. AutoInit => PaidInv
  BY InitEstablishesPaidInv
<1>2. PaidInv /\ [AutoNext]_autovars => PaidInv'
  BY AutoNextPreservesPaidInv
<1>3. PaidInv => HandledIsPaid
  <2> SUFFICES ASSUME PaidInv PROVE HandledIsPaid
    OBVIOUS
  <2> DEFINE n == Counted
  <2> DEFINE m == Cardinality(handled)
  <2>1. n \in Nat /\ m \in Nat /\ m <= n
    BY CountedIsNumber DEF PaidInv, Counted
  <2>2. CoinOf(Purse(utxos, Me)) \in Nat
    BY PurseIsFinite DEF PaidInv, AutoInv, IndInv, TypeOK
  <2>3. CoinOf(Purse(utxos, Me)) >= CoinOf(Purse(Genesis, Me)) + n * ConfigReward
    BY DEF PaidInv, Paid
  <2> HIDE DEF n, m
  <2>4. CoinOf(Purse(utxos, Me)) >= CoinOf(Purse(Genesis, Me)) + m * ConfigReward
    BY <2>1, <2>2, <2>3, PurseAtFirst, DueGrows
  <2> QED
    BY <2>4 DEF HandledIsPaid, m
<1> QED
  BY <1>1, <1>2, <1>3, PTL DEF AutoSpec
=============================================================================
