# The Quex oracle on Cardano, in TLA+

A specification of the programs in this repository: the four on-chain scripts,
the transactions they let through, the off-chain programs that build such
transactions, and those programs at work beside each other. The modules are
checked with TLC on small instances; most safety properties are also proved with
TLAPS for every instance.

Line numbers in this file and in `PROJECT.json` are those of `src/`.

## 1. The system

A *trust domain* runs an HTTP action and signs the result. A *relayer* carries
the signed message to the chain, where a script checks it against the *oracle*
registered in a *pool* and stores its data item in an output that holds the
token of the *pool action*. *Consumers* refer to that output. A *requester* may
lock coin at another script, to pay whoever has a response published.

| Component | State | Operations | Correct when |
|---|---|---|---|
| Response policy and guard, `on-chain/src/OracleResponseValidator.hs`, `Validator.hs` | outputs with response tokens | mint, replace, merge (spend several, burn all but one) | every response was signed by a registered oracle and is in time; a response is replaced by none that is older; tokens stay with the script |
| Single-oracle pools, `SingleOraclePoolValidator.hs` | outputs that register one oracle for ever | mint, move | the token stays with the oracle it is named after |
| Private pools, `off-chain/oracles.py` | outputs with the operator's tokens | add, delete | only the operator registers and revokes |
| Request script, `OracleRequestValidator.hs` | outputs with a request and coin | answer (before expiry), take back (after) | the coin goes for a response in time, or back to the owner; the owner pays no more than `reqMaxCost` |
| Example consumer, `ExampleUserValidator.hs`, `demo.py` | locked coin | lock, spend | the coin leaves only on a good and recent response |
| Request commands, `pending_requests.py` | none of their own | add, fulfill, recycle, recycle all | what is put into a request pays for any response it was created for; builder and script agree on the cost |
| Publishing, `relay.py`, `responses.py` | none | read existing responses, build a mint, a replacement or a merge | duplicates get merged |
| Automatic relayer, `autorelayer.py` | a snapshot of requests, the transaction waited for; nothing between runs | validate, choose an oracle, query, fulfill, submit, wait with a time-out | what is reported as handled is, and has paid; nobody is asked in vain; each run ends |
| Submission, `utils.handle_tx` | the transaction waited for | submit, wait without a time-out | what is confirmed is there; the command ends |
| Demo commands, `demo.py` | none | lock, find the freshest response and spend | what is found is what the demo contract accepts |
| Trust domain (external, `signer_client.py`) | its key | sign | |
| HTTP actions, `http_action.py` | none | create an action, with parts encrypted for one trust domain | the trust domain that is asked can read them |
| Wallets, `wallet.py`, `topup.py`, `consolidate.py` | ada-only outputs of the treasury and the request treasury | pay, take change back, top up, consolidate | what a command leaves behind does not keep the next from working |
| Library, `scripts.py` | outputs that carry the scripts | add all, clear, refer to | each script once; nothing hangs on what is cleared |
| Chain backends, codecs, viewers, generators | | | see section 8 |

Components interact through the chain alone: each program reads the unspent
outputs, builds a transaction from what it saw, and submits it; by the time it
is included the outputs may be gone, the interval over, or somebody else's
transaction first. Within a transaction, every script is run on its own, once
per input it guards and once per policy whose supply changes, and sees all of
the transaction. So the hard behaviours are:

- **composition of scripts**: what one checks per input and another per supply
  must together leave no way out;
- **concurrency of relayers**: duplicate responses, merges, stale views;
- **time**: validity intervals chosen by builders, inclusive and exclusive ends,
  messages relayed late, requests that expire while they are answered;
- **arithmetic**: the same cost computed by a builder and by a script, from
  different sides of the transaction;
- **failure**: transactions that are not included, late or not at all.

`PROJECT.json` lists each of these hazards at the line where it bites, with the
properties that would catch it or a note that says why none does.

## 2. The modules

```
Ledger <- OracleData <- ResponseValidator, SingleOraclePoolValidator,
                        RequestValidator, ExampleUserValidator        the scripts
  the scripts <- Chain          any transaction;  ResponseSlot is what it implements
                   <- MCResponses, MCConsumers                        runs
                   <- ChainProofs                                     theorems
  the scripts <- Builders       the transactions the programs build
                   <- Fulfillment <- MCFulfillment
                                  <- FulfillmentProofs                theorems
                   <- Wallets     inputs, change, consolidation, the library
  Chain, Builders <- Offchain   the commands at work on the chain
                   <- MCOffchain
                   <- OffchainProofs                                  theorems
                   <- WaitTx      <- MCPublishing
                   <- Autorelayer <- MCAutorelayer   with Wallets, HTTPAction
                   <- Treasury    <- MCTreasury      with Wallets
  Ledger  <- CoinProofs     lemmas on sums of coin, for ChainProofs and
  Builders <- BuilderProofs  lemmas on amounts, for FulfillmentProofs and OffchainProofs
  OffchainProofs   <- WaitProofs, AutorelayerProofs, TreasuryProofs
                      of WaitTx, Autorelayer, Treasury                 theorems
```

**Ledger** is external: outputs are records `[ref, addr, coin, tokens, datum]`,
transactions `[ins, refs, outs, lo, hi, signers, fee]`, with inputs given
resolved. `Minted` says whose supply a transaction changes, hence which
policies run; `LedgerAccepts` is what the ledger asks, scripts aside. It does
not balance ada: wallets add ada-only inputs and outputs of their own at will,
and no property but those about fulfilling (`Builders!RelayerGain` computes what
the relayer is left with) depends on it.

**OracleData** has the datums, messages and token names. Hashes are injective
and signatures unforgeable: a hash is the value itself, and a message is
genuine iff it is in the set of signed messages.

**ResponseValidator**, **SingleOraclePoolValidator**, **RequestValidator** and
**ExampleUserValidator** are the scripts, one predicate each, over a
transaction. `spent` is `{u}` when a storage script guards the input `u` and
`{}` when it is the policy (`Validator.hs:46-57`). A script that fails
(`error ()`, a datum of another shape) is one whose predicate is false. The
request script takes the *last* output that answers in time; the builder orders
the outputs, so the predicate takes some output that does. Times are in
seconds, the resolution of the datums and of the network's slots.

**Chain** has the state `utxos` (outputs that hold tokens or are at a script's
address; other ada is wallets' business, but for the wallets in the constant
`Purses`), `now` and `signed`. `Submit(tx)`
includes *any* transaction that ledger and scripts accept, whoever built it:
the builders of `off-chain/` are some of those people. A builder chooses the
redeemer of each run, so a run succeeds iff some redeemer makes it succeed.
`Sign` is a trust domain, `Tick` the clock. The constant operator `Candidates`
says which transactions an instance considers; the theorems hold for whatever
it is.

**ResponseSlot** is what a consumer is promised: one slot per pool action whose
freshest time only grows. `known[s]` is the set of times up to the freshest, so
that "none yet" is the empty set and needs no special case.
`Chain!ImplementsResponseSlot` maps the outputs to it: duplicates, merges and
tokens in between disappear.

**Builders** is what the off-chain programs build from what they see: a `view`,
the unspent outputs, and a `tip`, the slot of the last block. It has the look-ups
(`RegisteredOracles`, `OraclesOf`, `StoredResponses`, `StoredRequests`, `Latest`),
one builder per command (`AddSingleOracleTx`, `AddPrivateOracleTx`,
`DeleteOracleTx`, `PublishTx`, `AddRequestTx`, `RecycleTx`, `RecycleAllTxs`,
`Fulfillment`, `LockTx`, `SpendTxs`), and the amounts: `create_request`
(`pending_requests.py:380-412`), the two transactions `fulfill_request` (531-627)
builds, and the exceptions it raises. Validity intervals are those of the
library (a thousand slots back, ten thousand ahead) unless the program sets
them. What is minted or burnt is not in a transaction: it is the difference of
outputs and inputs.

**Fulfillment** is the money of one pool action while time stands still: requests
are created, attempts to fulfill them made and included or not, and `stored`
changes under them by `Publish`, as other relayers mint, replace and duplicate
responses. The price of storage, `coins_per_utxo_byte`, changes too (`Reprice`):
builders are instances of `Builders` with today's, the script goes by the one in
the request. `built.outcome` is `"transaction"` or the name of the exception.

**Offchain** puts the builders to work on `Chain`. A command (`Relay`, `Fulfill`,
`RecycleAll`, ...) builds from the chain as it is, has the node evaluate the
scripts (`Evaluates`), and puts the transaction into `pending`; `Include` is
`Chain!Submit` of a pending transaction by a block, possibly much later, in
another order, or never; `Forget` is the node dropping one whose inputs are
gone or whose interval is over. There are two clocks: `now`, which is the wall
clock and the slots' time, and `tip`, the last block's slot, which is all a
builder knows of the latter; `EmptyBlock` is a block without any of our
transactions. `fulfill_request` submits a transaction that is *not* evaluated
(`_should_estimate_execution_units = False`), and so does `Fulfill`.
`RecycleAll` is not counted in `built`: an owner runs it again and again, each
time once the transaction before is off the list.

**WaitTx** adds `relay.py --submit --wait`: `waiting` holds the first output of each
transaction waited for, `Poll` is the look that finds it.

**Wallets** is what the library adds to a transaction for the wallet that pays:
inputs, any that suffice, and the change, as an output of its own (`Balanced`)
or merged into one there is (`Merged`, for `merge_change=True`); the transactions
of `consolidate.py`, `topup.py` and `scripts.py`; and `try_refer_to_script`
(`References`).

**HTTPAction** has of an action what decides who can run it: the trust domain it
names, if any, and for whose key parts of it are encrypted.

**Autorelayer** adds runs of the automatic relayer, one after the other, as a
process with a program counter, from the snapshot (`Start`) through `Consider`,
`Answered`, `Fulfilled` and `Handle` for each request, or to one of the ways it is
given up: invalid or without an oracle (`Consider`), `Unreachable`,
`NotFulfilled`, `TimeOut`; with `--dry-run`, to `Previewed`. A dry run prints "Handled"
of what it has only built, too (`autorelayer.py:138`); `handled` holds what runs
that submit have reported, so `Previewed` leaves it alone. Everything a request
is handled with is read anew, but the request itself. `Crash` is an exception
that no handler expects, at any stage: an answer that cannot be parsed, a
backend that fails. The next run (`Restart`) knows nothing of the one before,
whose transactions may still be pending. The relayer's treasury is in `Purses`:
transactions spend its outputs, two of them perhaps the same.

**Treasury** is the operator's wallets, all three in `Purses`, and the commands
that move coin between them and requests: `Add`, `TakeBackAll` (`recycleall`),
`Consolidate`, `TopUp`, `AddAll`, `Clear`. Each pays a fee; recycling needs a
collateral as well and refers to the library's request script if there is one,
and consolidation, recycling and requests spend the same outputs. A relayer's
`Fulfill` comes in between and pays change back. `Fresh` is the hash of a
transaction of the commands that may be run without end.

Each definition that models code is listed with its lines in `PROJECT.json`
under `map`. Operators headed "Mutant of ..." are not used by the
specifications: each is a plausible mistake in the definition it is named
after, and putting it in that definition's place makes the property named in
`PROJECT.json` fail.

## 3. The properties

In `Chain`, invariants:

- `TypeOK`; outputs are told apart by reference, and what is signed has the time it
  was asked at. The latter is the trust domain's doing, which is outside the
  repository (`Sign` is external, and so is the mutant that breaks it): the scripts
  rely on it.
- `ResponseTokensAtHome`, `SinglePoolTokensAtHome`: tokens never leave their
  script, alone in their output, with a datum of the right shape. The policy is
  only asked when the supply changes and the guard only about its own inputs.
- `SingleOracleAuthentic`: a response of a single-oracle pool was signed by the
  oracle the pool is named after. The response script believes whatever datum
  comes with the pool's token, so this rests on the other script.
- `OwnersChargedAtMostMaxCost`: no transaction that is accepted before expiry
  gives a request's owner back less than all but `maxCost`, even when several
  requests are answered at once.

In `Chain`, properties of steps:

- `SingleOraclesStay`: no transaction unregisters an oracle of a single-oracle
  pool.
- `ResponsesNeverRegress`: a response is only removed if one of the same pool
  action that is not older is left.
- `NewResponsesAreVouchedFor`: a response that enters was signed by an oracle
  that is registered, alone with one token, at that time, and not expired.
- `RequestsLeaveForAReason`: a request goes only expired or answered in time.
- `UserSpendsOnGoodNews`: the demo contract pays only on a real, recent, good
  response of the pool action it was compiled for.
- `ImplementsResponseSlot`: the refinement.

In `Fulfillment`:

- `BudgetSuffices`: for items as large as the request was created for and fees
  within the buffer, no exception is raised.
- `AcceptedWithinBudget`: the request script then accepts the transaction.
- `ChargedAtMostMaxCost`: no transaction that is built charges more than the
  maximal cost, as `request-mechanics.md:52` has it. It fails, see section 5.

In `Offchain`:

- `SubmittedKeepCollateral`: a pending transaction that a block could include
  passes its scripts, so nobody forfeits a collateral, evaluated or not. It is
  checked with the automatic relayer, too, whose wallet adds to what has been
  evaluated. It holds if items and requests are as promised (`AsPromised`, section
  6); with an item larger than the request was created for, the second
  transaction may charge more than the script allows (finding 2).
- `FreshResponsesPass`, `FreshAnswersPass`: what `relay` and `fulfill` build for a
  message signed since the last block is what the scripts accept, unless a
  response that is as new is there. They tie the builders' intervals, outputs,
  look-ups and amounts to what the scripts ask for; `FreshAnswersPass` under
  `AsPromised`, too.
- `SpendingPasses`: what `demo.py spend` finds is what the demo contract accepts,
  if the value is good.
- `RecyclingPasses`: `recycleall` gets requests back as soon as a block has come
  after their time, `recycle` a thousand slots later.
- `EveryRequestLeaves` (liveness): a request that is going to expire is spent in
  the end, whatever it is raced for by, if its owner keeps running
  `recycleall`.
- `ExpiredCanBeRecycled` fails, see section 5.

In `WaitTx`: `PublishedForGood`: what a command has seen confirmed is on chain
for ever, itself or a response that is not older, whatever others merge.
`CommandsEnd` (liveness) fails, see section 5.

In `Autorelayer`:

- `HandledMeansAnswered`: a request that a run that submits has reported as "Handled"
  is spent and a response that is no older than the request is there. (A dry run
  prints the same message, and has submitted nothing.)
- `HandledIsPaid`: the relayer's wallet has gained the reward for each of them, whatever
  transactions of earlier attempts and runs spend the same inputs, come late or
  never; so nothing it submits is ever at its expense either.
- `WorthAsking`: the trust domain that is asked can decrypt what it is sent, and
  its answer, if in time, makes a transaction that is built, accepted and worth
  the while. It relates the checks of `validate_request`, `is_valid` and
  `get_suitable_oracles` to the scripts. It holds under `AsPromised` and `AsConfigured`
  (section 6): `validate_request` does not look at a request's coin, so a
  stranger's request that holds too little for its answer is found out only
  after the query (`autorelayer.py:177`).
- `EveryRunEnds` (liveness): a run ends, whatever becomes of its requests and
  transactions, its response being replaced before it is seen among them.

In `Treasury`:

- `RequestsComeHome` (liveness): every request of the operator's leaves in the end,
  although all coin may be in requests, outputs are competed for, and the script
  that a recycling refers to may be cleared first.
- `GatheredInTheEnd` (liveness): the coin of the request treasury ends in one
  output, if `consolidate` is run as long as there are several.
- `EachScriptOnce`: no script is twice in the library, if `addall` is run with
  nothing of the treasury's pending. (Without waiting it may be, `all()` being
  what blocks have included.)

## 4. The runs

| Run | Module, cfg | States, time | Bounds | Shows |
|---|---|---|---|---|
| `responses` | `MCResponses` | 19,622; 1.5 min | a clock of 0..2, up to 3 outputs, a private pool and two single-oracle pools, two oracles with validity periods 2 and 1, three messages | tokens stay, oracles stay, responses are authentic and never regress, refinement |
| `consumers` | `MCConsumers` | 18,612; 50 s | requests: a clock of 0..3, two owners, two requests with overlapping times, two fees, right and short change, up to two inputs and three outputs; demo contract: times around the half hour, up to 6 outputs, two pools, good, bad, failed and outdated items, a look-alike | requests leave for a reason, owners are charged no more than agreed, the demo contract is not taken in |
| `fulfillment` | `MCFulfillment` | 187,056; 50 s | items of 23 and 255 bytes, a fee as large as the buffer, up to two responses of the pool action, mainnet's `coins_per_utxo_byte` and a lower one | the amounts add up |
| `commands_requests` | `MCOffRequests.cfg` | 12,649; 15 s | two requests to begin with, two relayers with an answer each, two commands beside any number of `recycleall`, four times | fulfilling and recycling race, nothing is lost and every request leaves |
| `publishing` | `MCPublishing` | 385,855; 45 s | two relayers, three answers, an oracle to add and one to revoke, locked coin, three commands, four times | publishing, waiting and spending work beside each other |
| `autorelayer` | `MCAutorelayer` | 115,773; 1.6 min | two runs, dry or not, three requests, one of which names a wrong pool action, two oracles of which one can run the action, one output in the wallet, a rival, times before, at and after the time-out | what runs that submit report as handled is and has paid, nobody is asked in vain, no collateral is lost, and runs end |
| `treasury` | `MCTreasury` | 22,015; 30 s | one request with all coin but a little in it, one script in the library, an answer, two commands of `Add`, `AddAll`, `Clear`, `Fulfill` beside any number of `TakeBackAll`, `Consolidate`, `TopUp` | requests come home, coin is gathered |
| `budget_at_256` | `MCBudget.cfg` | violation | items of 24 and 256 bytes | finding 1 |
| `overcharge` | `MCOvercharge.cfg` | violation | items of 24 and 255 bytes | finding 2 |
| `shared_change` | `MCSharedChange.cfg` | violation | the requests of `consumers` with one owner | finding 3 |
| `recycle_too_soon` | `MCOffRecycle.cfg` | violation | as `commands_requests` | finding 4 |
| `wait_forever` | `MCWaitForever.cfg` | violation | two publications | finding 5 |

Why the bounds are enough to be interesting. In `responses` three outputs are
what it takes for a registered oracle, a response and a duplicate of it (or a
response of another pool action, or a second oracle), which covers minting
beside an old response, merging two, spending two of different pool actions
and storing one oracle for another in one transaction; the candidates put
tokens at the right place and at a wallet's, with the right and the wrong
oracle's datum, alone, in pairs and doubled, and carry any input to a wallet;
the clock is long enough for a message of time 0 to outlive the period of
either oracle. In `consumers` the costs are small numbers such that one fee stays
below `maxCost` and the other exceeds it, and the change outputs cover what is
due, a lovelace less, and what is due when an old response's coin pays. In
`fulfillment` the sizes are where CBOR heads grow. In `commands_requests` two
commands make every pair of them race (two relayers who fulfill one request,
one who publishes while another's fulfilment is pending, a request that is
added while another is answered), and recycling comes on top. In `publishing`
three make two relayers publish beside each other and a third transaction
merge what they left; the times are those of the second answers and the last
at which the first answer can be spent upon, and one second later. In
`autorelayer` two transactions of the runs or the rival are enough for every
outcome of every stage, a transaction of the first run included during the
second and two that spend the wallet's one output among them. In `treasury`
three outputs of the wallet to gather arise, and the library is cleared under a
recycling that refers to it and filled again.

In `consumers` few states exist, but each tries thousands of transactions, of
which few are accepted.

Deadlock is not checked: clocks, messages and the number of commands are
bounded, so a run ends.

Fairness. Nobody is obliged to submit, relay or answer anything, and blocks need
not include anything. `EveryRequestLeaves` assumes (`Offchain!OffFairness`) that
time goes on and blocks come, which is the network's; that a pending
transaction *of the owner* is included or dropped while that is possible,
since it pays its fee; and that the owner keeps running `recycleall`, the
premise of the property. `EveryRunEnds` assumes (`AutoSpec`) that the relayer's process is
scheduled and that time goes on. `RequestsComeHome` and `GatheredInTheEnd` assume
(`TreasurySpec`) the network's part, as `EveryRequestLeaves` does, for the
operator's transactions, and that the operator keeps running `recycleall`,
`consolidate` while there are several outputs, and `topup` when there is no coin
for recycling. `CommandsEnd` assumes that each command polls
as long as there is something to see (`WaitSpec`), which its loop does.

## 5. Where the code and its documentation disagree

1. `budget_at_256`. The constant 274 (`pending_requests.py:54`,
   `OracleRequestValidator.hs:128`) is right for items of up to 255 bytes. At 256
   the byte string that holds the datum has a head of three bytes, the output
   costs 275 bytes and the item, the missing byte comes out of the relayer's
   reward, and `fulfill_request` raises `InsufficientRewardError` whatever the
   request holds. 256 is the default of `--max-response`, and
   `request-mechanics.md:77` says the amount "guarantees there is enough budget
   to pay relayer reward, response storage cost, and tx fee".
2. `overcharge`. `pending_requests.py:575` caps the cost at `max_cost`, line 600
   computes it again, with the fee, without the cap. For a response larger than
   the request was created for, within the coin that is meant for the change,
   the transaction charges more than `reqMaxCost` and the script refuses it.
3. `shared_change`. The request script runs once for each request and is content
   with any output to the owner that holds the change (`OracleRequestValidator.hs:112-135`):
   two requests of one owner answered in one transaction may share one change
   output, and the owner pays more than `reqMaxCost` for one of them
   (`request-mechanics.md:52`). The programs of this repository fulfill one
   request per transaction; others need not.
4. `recycle_too_soon`. `recycle_tx` (`pending_requests.py:273`) leaves the start of
   the interval to the library, a thousand slots before the last block, and the
   script takes a request for expired only if the interval starts after it: for
   more than a quarter of an hour `recycle` fails. `recycle_all_tx` sets the
   offset to 0 (327). The help of `--ttl` (97) says "After it expires, author can
   reclaim funds".
5. `wait_forever`. `handle_tx` (`utils.py:39`) looks for an output of its transaction
   at the response script. If the response has been replaced between two looks,
   the command waits for ever though its transaction is confirmed; `--wait` (95)
   is to "Wait for the transaction confirmation".

Seen while modelling, without a run of their own:

- `recycle_all_tx` chooses requests by the wall clock (294) and its interval starts
  at the last block's slot: a request whose time ends between the two makes the
  whole batch fail. `RecyclingPasses` says when it does not.
- `obtain_response` (`autorelayer.py:268`) expects an `OSError` and nothing else: an
  answer that cannot be parsed ends the program (`Autorelayer!Crash`), with
  requests left although it "Fulfills all valid requests" (91).
- A request created beside a response does not pay for its storage
  (`pending_requests.py:399`), which the response's coin is to pay for. When that
  response was stored at a lower `coins_per_utxo_byte`, it does not:
  `Fulfillment!ReplacedPayForStorage` is the premise that excludes it. And
  `fulfill`, unlike the automatic relayer, does not compare the request's
  `coins_per_utxo_byte` with today's.
- `recycle` and `recycleall` take fee and collateral from the owner's wallet: an owner
  whose coin is all in requests needs `topup` to get it back. `RequestsComeHome`
  has it as part of its fairness.
- Two `scripts.py addall` without `--wait` may store every script twice.
- `tokens.md:75` says of duplicates that they are all within the validity period.
  The scripts check that when a response enters, and a response stays as it
  ages; a consumer has to look at the timestamp, as the demo contract does.

## 6. What is proved

Eight modules hold the theorems, for every value of the constants: any pools,
keys, messages, times, genesis, candidate transactions, numbers of commands,
wallets, amounts and sizes. Each invariant and each property of steps that a run
with expectation "pass" checks is a theorem, some under a hypothesis that is
named below; liveness is not.

The assumptions of the modules:

- `KeysAssumption` (`OracleData`): compressed keys are keys.
- `TimesAssumption`, `MessagesAssumption` (`Chain`): times are natural numbers, and
  trust domains sign well-formed messages with times of the clock and items of
  some size.
- `GenesisAssumption` (`Chain`): there are no tokens of a policy before its script,
  outputs are finitely many, have references of their own and no negative coin,
  quantities are positive and datums have one of the modelled shapes.
- `CoinsAssumption` (`Builders`): a byte of storage costs something.
- `AmountsAssumption`, `ItemsAssumption` (`Fulfillment`): amounts are natural numbers,
  and the item made for a size has it.
- `NumbersAssumption` (`Offchain`): the outputs there are at first are of none of the
  transactions built later. A transaction's hash is modelled as the number it is
  built under, and this is what makes the numbers tell transactions apart.
- `DeploymentAssumption` (`Offchain`): where the commands look for oracles, requests
  and locked coin, there is at first what commands put there, and validity
  periods are not negative. It is needed since the look-up of oracles takes
  outputs the script refuses (`oracles.py:294`, a listed hazard that no property covers): the theorems on
  what commands build are about a chain the commands have written.
- `PartiesAssumption`, `ConfigAssumption`, `WalletsAssumption`: the parties have keys,
  amounts are natural numbers, and no script is in the library twice to begin
  with.

Some theorems have a hypothesis of their own, where the property holds for a
reason the constants do not give:

- `SmallItems` (`FulfillmentProofs`): items have less than 256 bytes. For larger ones
  `BudgetSuffices` is false, which is finding 1.
- `OneRequestPerOwner` (`ChainProofs`), a premise within the property: no candidate
  transaction answers several requests of one owner. Otherwise
  `OwnersChargedAtMostMaxCost` is false, which is finding 3.
- `AsPromised` (`Offchain`): items have from 1 to 255 bytes and no more than any
  request was created for, transactions cost no more than the 1 ada
  `create_request` reckons (`pending_requests.py:52`), and `create_request` has made
  the requests there are at first that can be answered. Requests that name another
  pool action than their own may be any.
- `AsConfigured` (`Autorelayer`): the relayer is configured to look for oracles at the
  addresses the commands register them at, and what is encrypted in an action is
  for the trust domain it names, as `create_http_action_with_proof` makes it (lemma
  `CreatedIsReadable`).
- `Me # OraclesWallet` (`EachHandledIsPaid`): the relayer's wallet is not that of the
  oracles, whose outputs `oracles.py delete` spends.

`MCOffchain` and `MCAutorelayer` state `AsPromised` and `AsConfigured` as assumptions, so
that TLC finds them true of the instances the runs check.

The first twelve theorems of the table are about `Spec`, any transactions at all,
then come `Fulfillment`, `OffSpec`, `WaitSpec`, `AutoSpec` and `TreasurySpec`.

| Theorem | Property |
|---|---|
| `TypeCorrectness` | `TypeOK` |
| `ResponseTokensStayHome` | `ResponseTokensAtHome` |
| `SinglePoolTokensStayHome` | `SinglePoolTokensAtHome` |
| `SingleOraclesSpeakForThemselves` | `SingleOracleAuthentic` |
| `NewResponses` | `NewResponsesAreVouchedFor` |
| `NoRevocation` | `SingleOraclesStay` |
| `NoRegress` | `ResponsesNeverRegress` |
| `RequestsAnsweredOrExpired` | `RequestsLeaveForAReason` |
| `UserWaitsForGoodNews` | `UserSpendsOnGoodNews` |
| `EachRequestChargedAtMostMaxCost` | the largest change of an owner is paid (`LargestDueIsPaid`) |
| `OwnersChargedFairly` | `OneRequestPerOwner => OwnersChargedAtMostMaxCost` |
| `Refinement` | `ImplementsResponseSlot` |
| `BudgetIsEnough` | `BudgetSuffices`, if `SmallItems` |
| `ScriptAndBuilderAgree` | `AcceptedWithinBudget`, if `SmallItems` |
| `OffchainNoRegress`, `OffchainNoRevocation`, `OffchainAnsweredOrExpired` | `ResponsesNeverRegress`, `SingleOraclesStay`, `RequestsLeaveForAReason` of `OffSpec` |
| `OffchainRefinement` | `ImplementsResponseSlot` of `OffSpec` |
| `FreshResponsesAlwaysPass` | `FreshResponsesPass` |
| `RecyclingAlwaysPasses` | `RecyclingPasses` |
| `SpendingAlwaysPasses` | `SpendingPasses` |
| `CommandsKeepTheirWord` | what commands submit charges owners at most `reqMaxCost` (`CommandsChargeFairly`) |
| `MoneyIsThere` | each request has the coin for its answer (`MoneyInv`), if `AsPromised` |
| `FreshAnswersAlwaysPass` | `FreshAnswersPass`, if `AsPromised` |
| `CollateralIsSafe` | `SubmittedKeepCollateral`, if `AsPromised` |
| `ConfirmedStaysPublished` | `PublishedForGood` |
| `HandledStaysAnswered` | `HandledMeansAnswered` |
| `NobodyIsAskedInVain` | `WorthAsking`, if `AsPromised` and `AsConfigured` |
| `RelayerKeepsCollateral` | `SubmittedKeepCollateral` of `AutoSpec`, if `AsPromised` and `AsConfigured` |
| `EachHandledIsPaid` | `HandledIsPaid`, if `Me # OraclesWallet` |
| `ScriptsAreStoredOnce` | `EachScriptOnce` |

On chain, the inductive invariant `IndInv` is the conjunction of four invariants:
`TypeOK`, the two on tokens at home, and `SingleOracleAuthentic`.
None but `TypeOK` is inductive alone. The key lemma is
`TokensComeFromSomewhere`: if an output of a transaction holds a policy's token,
either the policy runs, or some input holds the token; by the invariant that
input is at the script's address, and the script runs as its guard. Either way
(`ResponseScriptRuns`, `SinglePoolScriptRuns`) one run of the script has checked
the whole transaction, which has then a *single* output with the policy's
tokens, at home, with the datum the run has checked (`ValidatedOutput`,
`RegisteredOutput`). `SingleOracleAuthentic` needs `SinglePoolTokensAtHome`: the
oracle a response was checked against holds a pool's token, hence has the datum
the token is named after. The properties of steps follow from the same lemmas
and the invariant; `NoRegress` also uses that each response spent has been
compared by a run of its own. `Refinement` then shows that only the slot of the
one new response changes (`OtherSlotsUntouched`), by a single `Publish`
(`SlotTouched`).

Sums of coin are folds over sets (`CoinOf`), which the library defines by a
function that picks one output after the other. `CoinProofs` shows what they add
up to: that there is such a function for a finite set (`SumExists`), that all
functions that pick differently agree (`SumsAgree`), and hence what one more
output (`CoinOfAdd`), a disjoint union (`CoinOfUnion`) and a subset (`CoinOfLess`) come
to. Both need induction, which is done over a *set* of numbers with a least
element (`InductionOverNat`, `InductionOverSets`), for the library's induction over
an operator cannot be used. `EachDueIsPaid` and `OwnersChargedFairly` rest on it: a
run of the request script has found an output as large as the change.

Amounts are products of a price and a number of bytes, of which the provers know
little; `TimesGrows`, `Distributes` and `SumCovers` (`BuilderProofs`) are all that is used of
them. From these, `FulfillmentSucceeds` shows that the two passes of
`fulfill_request` raise no exception as soon as the request's coin covers the cost
within its cap, and `ScriptAgrees` that `existsChangeOutput` on chain reckons no more
change than the builder has left, though it sees the old responses as inputs
only. `FulfillmentProofs` instantiates `BuilderProofs` with today's price; the lemmas
`Same...` say that a definition is the same by whichever name. Its invariant,
`FulfillInv`, adds to the two properties what the open request was created with, that
responses stored are of the one pool action, and that outputs are finitely many.

Off chain:

- *The chain below.* Every step of `OffNext`, `WaitNext` or `AutoNext` is one of `Chain`
  or leaves its variables alone (`ChainChanges`), and the lemmas on steps in
  `ChainProofs` are stated for any change of the outputs (`OutputsChange`). So
  `IndInv` and the properties of steps carry over, and so does the refinement.
- *What commands find* (`CommandInv`): `IndInv`; every oracle the look-ups find holds
  one token and has a period in `Nat`, requests and locked outputs hold coin
  only, on chain and in what is pending (`AllProper`); the last block is in the
  past (`BlocksArePast`). From it, each builder's transaction is followed through
  the scripts that run, and shown to run no others: `IntervalEndsInTime` has the
  arithmetic of `TTLOffset`, nine tenths of a period rounded down. A property of
  a state like `FreshResponsesPass` is not inductive; it follows from `CommandInv`
  in every state.
- *Which transaction an output is of*: `handle_tx` and `wait_tx` look for an output
  with a transaction's hash. `NumbersTell` (`WaitProofs`) and `Numbers`
  (`AutorelayerProofs`) say that outputs at scripts with one number are one
  output, be it on chain, pending, or waited for, and that numbers to come are
  not taken. Without it an output found need not be the one submitted.
- `ConfirmedStaysPublished`: what `Poll` finds is a response waited for
  (`WaitingForResponses`), and `ResponsesKept`, the step of `ResponsesNeverRegress`,
  hands it down from then on.
- `HandledStaysAnswered`: `AutoInv` ties the program counter to the chain. While
  waiting, if the transaction's outputs have been on chain, the request is spent
  and answered (`WaitsForAnswer`), the response having a time after the request's
  since the trust domain was asked during the run. A spent request does not come
  back (`UniqueStaysSpent`), as its number is taken, and its answer is only
  replaced by a newer one (`DoneStays`). Nothing is asked of what a crashed run
  has left pending but that its numbers differ.
- `ScriptsAreStoredOnce`: `ScriptsInv` says in addition that what is pending stores
  nothing that is stored already, and that only one pending transaction stores
  scripts at all, which is one of the operator's; so `Idle` rules out a second.
- *One answer at a time.* `CommandsKeepTheirWord`: a pending transaction has one
  request among its inputs or no token among its outputs (`PendingAnswerOne`). One
  that answers nothing spends only requests that are over, so `recycleall` is no
  exception; and for one request `FairToOne` is what the script checks. So finding
  3 is about other people's programs.
- *The money* (`MoneyInv`): what can be answered was posted with the sum of
  `create_request` (`Posted`), and either that covers the storage as well
  (`PaysForStorage`) or there is a response, and each response holds the coin of a
  response (`Funded`). The second alternative is not inductive by itself: it takes
  `ResponsesKept`, the step of `ResponsesNeverRegress`, that a response is left for as
  long as there was one. From `MoneyInv`, `AnswerCost` bounds the cost of every answer, and
  `TwoTransactions` finds the change of both transactions of `fulfill_request` to be
  what the script is going to ask for, at the reward of the request rather than
  the relayer's.
- *Collateral.* Only the first of the two transactions is evaluated. The second
  runs the same scripts on the same responses (`SecondPassesToo`), needs its own
  change for the request script, and is then accepted for good, as no script
  looks at anything but the transaction and at what is signed, of which there is
  only more (`AcceptedForGood`). In `AutoSpec` the wallet adds inputs and an output, which no
  script looks at (`WalletChangesNoVerdict`).
- *Nobody is asked in vain* (`WorthInv`): while a trust domain is asked, the oracle
  found can read the action (`DesignatedCanRun`), was registered by a command, and
  the reward is the configured one at least (`JobIsWorthIt`); the answer is the
  relayer's own (`AnswerIsMine`). Both survive that the request or the oracle is
  spent meanwhile; if they are not, `AnswersPass` applies.
- *The relayer is paid* (`PaidInv`): each pending transaction takes nothing from the
  relayer's wallet or leaves there the reward beyond what it takes
  (`NoneAtMyExpense`), so that including any of them in any order keeps `Paid`. The
  request waited for counts from its inclusion on (`Counted`) and not from when it
  is reported, which is what makes it inductive.

Only model-checked: the liveness properties (`EveryRequestLeaves`, `EveryRunEnds`,
`RequestsComeHome`, `GatheredInTheEnd`), as liveness under fairness and `ENABLED` are out
of reach of the provers at hand, and the properties that fail. No module uses a
recursive operator.

## 7. The plan

Done: the scripts, `Chain`, `ResponseSlot`; `Builders`, `Fulfillment` with a changing
price, `Offchain`, `WaitTx`, `Wallets`, `HTTPAction`, `Autorelayer` with restarts and the
wallet, `Treasury`, each with its runs; the proofs above. Left, in this order:

1. The refinement and the properties of steps for `WaitSpec`, `AutoSpec` and
   `TreasurySpec`, as for `OffSpec`.
2. The safety part of the operator's wallets: what `consolidate`, `topup` and the
   library's commands may cost the operator at most.
3. The relayer's references to the library in `Autorelayer`, and the library in one
   instance with it.

## 8. Not modelled

- CBOR, JSON, HTTP, URLs (`models.py`, `signer_client.py`): data no property tells
  apart. Where an encoding's *size* matters, `Builders` has it. The cryptography
  of `http_action.py` is taken to be perfect, and the proof that comes with an
  action, which only the trust domain looks at, is part of the action.
- Key derivation (`wallet.py`): keys of wallets differ.
- Chain backends, blueprints and protocol tables (`networks.py`, `protocol.py`,
  `cardano_protocol.py`, which prints recorded parameters): input and output.
- The fee data collector adds a request, waits, asks, and prints the transaction
  that would fulfill it, by functions that are modelled (`NewRequest`,
  `AddRequestTx`, `Fulfillment`); the viewer prints.
- Execution units, transaction sizes, staking credentials (the response script
  compares them as part of the address; here an address is the script's hash
  alone). Of collateral only that there is enough (`Treasury!CanRunScripts`) and
  that none is lost (`SubmittedKeepCollateral`).
- The references to the library of transactions that fulfill, which are as those
  of recycling.
- The commands' listings and previews, which change nothing.
- Tokens in what `recycleall` and `demo.py spend` pay out: the programs sum whole
  values, `RecycleAllTxs` and `SpendTxs` the coin, as requests and locked outputs are
  created without tokens (`DeploymentAssumption`).
- The generators of blueprints and the Haskell unit test.
