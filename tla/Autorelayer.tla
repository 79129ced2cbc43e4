----------------------------- MODULE Autorelayer -----------------------------
(***************************************************************************)
(* Runs of src/off-chain/autorelayer.py among other relayers' and owners'  *)
(* commands.  A run lists the requests once and handles them one by one,   *)
(* those that expire first before others, each from what the chain looks   *)
(* like by then: check the request, choose an oracle, have its trust       *)
(* domain answer, fulfill, submit, and wait for at most ten minutes.       *)
(* What goes wrong with one request is reported, and the loop goes on; an  *)
(* exception that is not expected ends the run.  The next run knows        *)
(* nothing of it, nor of its transactions that are still pending.          *)
(*                                                                         *)
(* Of all wallets the relayer's alone is modelled with its coin, in which  *)
(* it is paid.                                                             *)
(***************************************************************************)
EXTENDS Offchain, HTTPAction, Wallets

CONSTANTS
  Me,                  \* the key hash of the relayer's treasury
  ConfigAddrs(_),      \* addressesByCurrencySymbol
  KeysWithURLs,        \* the keys in urlsByPublicKey
  ConfigReward,        \* relayerReward
  Blacklist,           \* requestUtxoBlacklist, a set of references
  Modes,               \* FALSE: a run submits, TRUE: --dry-run
  MaxRuns              \* how many runs there may be

ASSUME ConfigAssumption ==
  /\ Me \in Hashes
  /\ KeysWithURLs \subseteq PubKeys
  /\ ConfigReward \in Nat
  /\ Modes \subseteq BOOLEAN
  /\ MaxRuns \in Nat
  /\ Purses = {KeyAddr(Me)}

VARIABLES
  pc,          \* the stage of the run, or "ended" or "crashed"
  runs,        \* how many runs there have been
  dry,         \* whether this one only shows what it would do
  todo,        \* the requests listed and not yet handled
  job,         \* what is known of the request at hand
  deadline,    \* until when the run waits for its transaction
  handled      \* the requests that runs which submit have reported as "Handled"

runvars == <<pc, runs, dry, todo, job, deadline, handled>>
autovars == <<utxos, now, signed, tip, pending, built, pc, runs, dry, todo, job,
              deadline, handled>>

Running == {"start", "next", "asking", "answered", "waiting"}

NoJob == [none |-> TRUE]

WaitTimeout == 600

-----------------------------------------------------------------------------

(* Mutant of WellFormed: the request is believed to name its pool action. *)
WellFormedWithAnyID(request) == request.after < request.before

(* OracleRequest.is_valid                                                  *)
WellFormed(request) ==
  /\ request.after < request.before
  /\ request.poolActionID = PoolActionID(request.pool, request.action)

(* validate_request                                                        *)
IsValid(request) ==
  /\ WellFormed(request)
  /\ request.coinPerByte >= CoinsPerByte
  /\ request.reward >= ConfigReward
  /\ request.after <= now /\ now <= request.before

(* get_suitable_oracles                                                    *)
SuitableOracles(request) ==
  {o \in RegisteredOracles(utxos, ConfigAddrs(request.pool.cs)) :
     /\ o.pool = request.pool
     /\ o.data.pubKey \in KeysWithURLs
     /\ o.data.pubKey \in Designated(request.action, PubKeys)}

(* The loop over the snapshot.                                             *)
Start ==
  /\ pc = "start"
  /\ todo' = {u \in StoredRequests(utxos) : u.ref \notin Blacklist}
  /\ pc' = "next"
  /\ UNCHANGED <<offvars, runs, dry, job, deadline, handled>>

Finish ==
  /\ pc = "next" /\ todo = {}
  /\ pc' = "ended"
  /\ UNCHANGED <<offvars, runs, dry, todo, job, deadline, handled>>

(* The loop goes on with the next request.                                 *)
Proceed ==
  /\ pc' = "next"
  /\ todo' = todo \ {job.request}
  /\ job' = NoJob
  /\ deadline' = 0
  /\ UNCHANGED <<runs, dry>>

(* The request is reported as one that could not be handled.               *)
GiveUp == Proceed /\ UNCHANGED handled

Consider(u) ==
  /\ pc = "next"
  /\ \A v \in todo : u.datum.before <= v.datum.before
  /\ IF IsValid(u.datum) /\ SuitableOracles(u.datum) # {}
     THEN /\ \E o \in SuitableOracles(u.datum) : job' = [request |-> u, oracle |-> o]
          /\ pc' = "asking"
          /\ UNCHANGED todo
     ELSE /\ todo' = todo \ {u}
          /\ UNCHANGED <<pc, job>>
  /\ UNCHANGED <<offvars, runs, dry, deadline, handled>>

(* obtain_response: the trust domain answers for this relayer, if it can   *)
(* read what it is sent; or it refuses, is not there or is another's.      *)
Answered(msg) ==
  /\ pc = "asking"
  /\ msg.signer = job.oracle.data.pubKey
  /\ msg.action = job.request.datum.action
  /\ CanRun(msg.signer, msg.action)
  /\ msg.relayer = Me
  /\ Sign(msg)
  /\ job' = [request |-> job.request, oracle |-> job.oracle, msg |-> msg]
  /\ pc' = "answered"
  /\ UNCHANGED <<tip, pending, built, runs, dry, todo, deadline, handled>>

Unreachable ==
  /\ pc = "asking"
  /\ GiveUp
  /\ UNCHANGED offvars

Attempt(fee) ==
  Fulfillment(utxos, tip, job.oracle, job.request, job.msg, ConfigReward, Me, fee, built)

(* fulfill_request: a transaction to submit and to wait for, or an         *)
(* exception, of the builder, of the node that evaluates the transaction   *)
(* or of the node that refuses it, which it may do with any.               *)
Fulfilled(fee) ==
  /\ pc = "answered" /\ ~dry
  /\ Attempt(fee).outcome = "transaction"
  /\ Evaluates(Attempt(fee).first)
  /\ \E tx \in Balanced(utxos, Me, Attempt(fee).tx, built) : Build(tx)
  /\ job' = [request |-> job.request, id |-> built]
  /\ pc' = "waiting"
  /\ deadline' = now + WaitTimeout
  /\ UNCHANGED <<runs, dry, todo, handled>>

NotFulfilled ==
  /\ pc = "answered"
  /\ GiveUp
  /\ UNCHANGED offvars

(* With --dry-run nothing is submitted, whatever was built.  The run prints *)
(* "Handled" all the same, which "handled" does not count.                 *)
Previewed ==
  /\ pc = "answered" /\ dry
  /\ Proceed
  /\ UNCHANGED <<offvars, handled>>

(* Mutant of Seen: any response will do.                                   *)
SeenAny(id) == \E u \in utxos : u.addr = ResponseAddr

(* wait_tx: the first output of the transaction, which is the response.    *)
Seen(id) == \E u \in utxos : u.addr = ResponseAddr /\ u.ref[1] = id

Handle ==
  /\ pc = "waiting" /\ now < deadline
  /\ Seen(job.id)
  /\ Proceed
  /\ handled' = handled \cup {job.request}
  /\ UNCHANGED offvars

(* Mutant of TimeOut: it waits until the transaction is seen.              *)
TimeOutNever == FALSE

TimeOut ==
  /\ pc = "waiting" /\ now >= deadline
  /\ GiveUp
  /\ UNCHANGED offvars

(* An answer that cannot be parsed, or an exception of the chain's backend *)
(* where none is expected, ends the run wherever it is.                    *)
Crash ==
  /\ pc \in Running
  /\ pc' = "crashed"
  /\ todo' = {} /\ job' = NoJob /\ deadline' = 0
  /\ UNCHANGED <<offvars, runs, dry, handled>>

(* The operator runs it again.                                             *)
Restart(mode) ==
  /\ pc \in {"ended", "crashed"}
  /\ runs < MaxRuns
  /\ runs' = runs + 1
  /\ dry' = mode
  /\ pc' = "start"
  /\ UNCHANGED <<offvars, todo, job, deadline, handled>>

(* One of these is possible at every stage, but while the run sleeps.      *)
OrdinaryStep ==
  \/ Start \/ Finish
  \/ \E u \in todo : Consider(u)
  \/ Unreachable \/ NotFulfilled
  \/ Handle \/ TimeOut

RunStep ==
  \/ OrdinaryStep
  \/ \E msg \in Messages : Answered(msg)
  \/ \E fee \in Fees : Fulfilled(fee)
  \/ Previewed
  \/ Crash
  \/ \E mode \in Modes : Restart(mode)

AutoInit ==
  /\ OffInit
  /\ now = Min(Times)
  /\ pc = "start" /\ runs = 1 /\ dry \in Modes
  /\ todo = {} /\ job = NoJob /\ deadline = 0 /\ handled = {}

AutoNext ==
  \/ RunStep
  \/ OffNext /\ UNCHANGED runvars

(* A run is a process that is scheduled, and time goes on.  Nothing is     *)
(* assumed of blocks, trust domains and others: a run may fail at each     *)
(* stage, but does not stay there.  Nobody has to start another.           *)
AutoSpec ==
  /\ AutoInit /\ [][AutoNext]_autovars
  /\ WF_autovars(OrdinaryStep)
  /\ WF_autovars(/\ \E t \in Times : Tick(t)
                 /\ UNCHANGED <<tip, pending, built, pc, runs, dry, todo, job, deadline,
                                handled>>)

-----------------------------------------------------------------------------

(* What a run that submits reports as "Handled" is: the request is spent,  *)
(* and consumers find a response to it or a fresher one, whoever published *)
(* meanwhile.                                                              *)
HandledMeansAnswered ==
  \A u \in handled :
    /\ u \notin utxos
    /\ \E r \in ResponsesOf(u.datum.poolActionID) : u.datum.after <= r.datum.timestamp

(* Each request that a run that submits has reported as "Handled" has      *)
(* brought the relayer its reward, whatever other transactions of the      *)
(* relayer's, of this run or of an earlier one, spend the same outputs of  *)
(* its wallet, come late or never; and nothing the relayer submits is ever *)
(* at its expense.                                                         *)
HandledIsPaid ==
  CoinOf(Purse(utxos, Me)) >=
    CoinOf(Purse(Genesis, Me)) + Cardinality(handled) * ConfigReward

(* What is encrypted in an action is for the one trust domain it names.    *)
Readable(action) ==
  /\ \A k, l \in action.patch.td : k = l
  /\ \A s \in action.patch.sealed : s.for \in action.patch.td

(* The relayer is configured to look where the commands register oracles,  *)
(* and actions are as clients create them.                                 *)
AsConfigured ==
  /\ \A pool \in Pools : ConfigAddrs(pool.cs) \subseteq OracleAddrs
  /\ \A action \in ActionIDs : Readable(action)

(* Nobody is asked in vain: the trust domain chosen can run the action,    *)
(* and what it answers in time makes a transaction that the scripts accept *)
(* and that is worth the relayer's while, if request and oracle are still  *)
(* there and no response as new is.  An oracle's output has to hold one    *)
(* token for that: the scripts believe no other, but the look-up does.  It *)
(* is so if items and requests are as promised (AsPromised): the relayer   *)
(* does not look at a request's coin before it has an answer.              *)
WorthAsking ==
  /\ pc = "asking" => CanRun(job.oracle.data.pubKey, job.request.datum.action)
  /\ pc = "answered" =>
       LET u == job.request
           item == job.msg.item
       IN  /\ {u, job.oracle.utxo} \subseteq utxos
           /\ DOMAIN job.oracle.utxo.tokens = {job.oracle.pool}
           /\ tip <= item.timestamp
           /\ u.datum.after <= item.timestamp /\ item.timestamp <= u.datum.before
           /\ Newer(job.msg, u.datum.poolActionID)
           => \A fee \in Fees :
                /\ Attempt(fee).outcome = "transaction"
                /\ ScriptsAccept(Attempt(fee).first)
                /\ ScriptsAccept(Attempt(fee).tx)

(* Each run ends whatever becomes of its requests and transactions, unless *)
(* the bounded clock stops before the deadline.                            *)
EveryRunEnds ==
  pc \in Running ~> \/ pc \notin Running
                    \/ pc = "waiting" /\ deadline > Max(Times)
=============================================================================
