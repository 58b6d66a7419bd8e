# Latch relayer: TLA+ verification project

The relayer is two Go services on PostgreSQL and the Stellar network.

* **serve** (deposit bridge): users send XLM or USDC to a shared pool account
  with a memo; the service credits each deposit to the smart-contract address
  (C-address) its memo was minted for, or returns it to a recovery account.
* **gasless** (sponsored transactions): a back end submits signed contract calls;
  the service wraps them in a fee-bump paid by its funder.

Money moves on a network whose answers may be late, lost or wrong about the
past, while processes crash, overlap during deployments and share tables. The
modules here model that part of the code. Paths below are relative to the
repository root.

## Inventory

| Component | Code | State | Operations | Correct when |
| --- | --- | --- | --- | --- |
| Deposit life cycle | `internal/service/forwarder/forwarder.go`, `internal/store/store.go`, `internal/service/retry/retry.go` | `forwards` and `intents` rows; what each worker holds in memory; transfers in flight | claim, decide credit or sweep, build, record, send, poll, resolve, write outcome, close intent, retry, expire | no deposit is paid twice, to the wrong place, or forgotten |
| Deposit intake | `internal/service/watcher/watcher.go`, `internal/lifecycle/tracker.go` | `cursors` row, poll position, bounded queue | poll, insert, dispatch, save cursor, take, drain | the cursor never passes a deposit without a row |
| Pool account sequencer | `internal/service/forwarder/sequence.go` | next sequence number, send lock | next, resync, lockSend | numbers are consumed in order and gaps heal |
| Channel pool | `internal/gasless/channels/pool.go`, used by forwarder and submitter | `channel_accounts` rows with leases | Sync, Acquire, Release, RecordBalance | a lease has one holder and the stored number is one the account consumed |
| Sponsored submissions | `internal/gasless/sponsor/{submitter,store,resolver}.go`, `internal/gasless/api/submit.go` | `sponsored_transactions` rows, running submissions | Prepare, Reserve, Run, SetHash, Finish, resolve | one payment per request, true outcomes, caps hold |
| Forward mode pricing | `internal/gasless/sponsor/{forward,price,request}.go`, pricing in `submitter.go`, `internal/feebump` | cached price, last good price, balance snapshot | quote, validate, price in two rounds, sign, reserve, bid | prices are recent and plausible, a quote stands, a reservation covers the bids, only the fee on record is signed |
| Deposit API | `internal/handler` | `intents` rows, round robin over pools | CreateIntent, SetExternalID, status | an intent is bound to one order; an answer is consistent |
| HTTP limits, auth | `internal/httpx` | token buckets, requests in flight | LimitInflight, Allow, evictIdle, RequireBearer | dropping buckets grants nothing |
| Process lifecycle | `cmd/serve`, `cmd/gasless`, `internal/lifecycle` | drain flag, deadline, running submissions | signal, Shutdown, Drain, exit | it cancels no tracked work before the deadline, and ends once its database calls have |
| Migrations | `migrations/migrations.go` | `schema_migrations` | Run | each migration is applied once |
| Balance monitor, startup checks, keys, signing, fee bumps, memo, config, metrics, db, scripts | see `PROJECT.json` | | | |

How they interact: the watcher inserts a `forwards` row and hands the key to a
worker through an in-memory queue; the worker and the retry worker meet only in
that row. Both send through the sequencer (pool account) or a leased channel.
Channels are leased through a table that both services and overlapping
deployments share. The submitter and the resolver of gasless meet only in the
`sponsored_transactions` row. Requests of one process share the price cache and
the last good price, each behind a mutex of its own, the rate limiter and the
tracker of background work. Nothing else is shared.

What is hard: a worker and the retry worker are kept apart by two timeouts; a
lost `SendTransaction` answer leaves a transfer that may land minutes later; the
RPC server may be behind the network; two writes that belong together can be
split by a crash; leases lapse under a slow holder; the resolver and the
submitter are kept apart by a timeout. The full list, at the lines where each
bites, is under `hazards` in `PROJECT.json`. In the API: a price is read under one
mutex and used under another; a fee is signed, simulated and signed again; two
queries of one answer see two states of the tables; a shutdown meets requests
that are about to start work.

## Modules

| Module | Models |
| --- | --- |
| `Forwards` | the deposit life cycle |
| `DepositLedger` | abstract specification of the deposit bridge; `Forwards` refines it |
| `ForwardsInvariant` | inductive invariant of `Forwards` and the two assumptions it needs |
| `ForwardsProofs` | type correctness of `Forwards` and lemmas about its operators |
| `ForwardsSafety` | the safety theorems and the refinement of `DepositLedger` |
| `Watcher`, `WatcherProofs` | deposit intake, shutdown and restart, and the proof about it |
| `Sequencer`, `SequencerProofs` | the pool account's sequence numbers, and the proof about them |
| `ChannelPool`, `ChannelPoolProofs` | channel leases and the protocol of their two users, and the proof about them |
| `Sponsor`, `SponsorProofs` | sponsored submissions, caps and the resolver, and the proof about them |
| `Fees` | fee arithmetic: bids, reservation, conversion to the fee token |
| `Pricing`, `PricingProofs` | quotes, the XLM price, forward mode pricing and bids, and the proof about them |
| `Service`, `ServiceProofs` | request limits, deposit API, background submissions, shutdown, and the proof about them |
| `MC*` | instances for TLC, one module per component, one `.cfg` per run |

Definitions that begin with the comment `Mutant:` are wrong variants of the
definition that follows them. They are used by no specification; each belongs to
a property and shows that the property would notice that bug.

### Forwards

`row` is the `forwards` table, `intent` the status column of `intents`, `age`
the time since `updated_at` up to the retry cutoff. A process (`Workers`,
`Retriers`) has a `job`: the phase it is in, its deposit, the copy of the row it
read, its transaction and its clock. Each phase ends at a call to the database or
the network, so any two processes interleave between any two calls.
`ForwardRecorded` is `ClaimNewForward` to `WriteOutcome`; `Retry` is `TakeRetry`,
`ClaimPendingForward`, `ResolveSubmitted` and the same steps from there on.

A database call may fail without effect, take effect and lose its reply, or
delay it (`Call`), and a process may crash anywhere. The network (`st`, `view`)
holds each transaction as live, landed or gone, and what the RPC server shows of
it can be late and can be pruned. `Lookups` gives the answers `GetTransaction`
can return together with the close time of the server's latest ledger, which is
what `resolveSubmitted` compares with `submitted_until`.

Abstractions: amounts, addresses and memos are reduced to whether a deposit is
creditable (`Accepted`, `MemoOf`, `Late`) and which transfers would be
byte-identical (`Alike`). Sequence numbers and channels are the modules
`Sequencer` and `ChannelPool`: here a transaction is accepted or refused for any
reason the code tells apart. Rows without `submitted_tx` written by an earlier
release are left out, and so is an RPC server that does not report the close
times of its latest or oldest ledger, for which `pastMaxTime` falls back to the
local clock plus `landingGrace` and a pruned transfer counts as expired
(`internal/service/forwarder/forwarder.go:639`, `:663`). Time advances in ticks (`Tick`), a minute in the run with
the code's constants.

### Watcher

Per process a poll position, the page it reads, the jobs channel and its
workers; shared, the `cursors` row and the keys of `forwards`. An operation is a
payment or something `handle` passes over; `depositKey` is modelled with the low
12 bits of the operation id. `Shutdown`, `Drain`, `Exit` and `Crash` follow
`cmd/serve/main.go` and `Tracker.Drain`.

### Sequencer

Senders of one or more serve processes on one pool account draw a number from
their process's position, send under its lock, and reload from Horizon after a
failure, unless the answer was lost: then the position is kept. Horizon reports
closed ledgers only, so a reading misses what is queued; a reading can also fail.
What another process sends makes a position wrong as well (`doubt`). The network
applies numbers in order, may drop a queued transaction, and holds `Depth`
transactions of an account at a time: one, as `docs/concurrency-load-test.md:176`
measured, so that even the right number is refused while another transaction is
in flight (`Refused`). When the refusal is TRY_AGAIN_LATER the sender waits with
its number, which is no step of the model; when the waiting ends without success,
that is `NotSent`.

### ChannelPool

The table rows with lease token, expiry, number and resync flag; holders run the
common protocol of `transferViaChannel` and `attempt`. A lease can lapse at any
moment. Processes with other configurations (a channel more, a new seed) can
start at any moment (`Sync`). Which free channel `Acquire` prefers is left open.

### Sponsor

`rec` is the `sponsored_transactions` table, `run` the submission of each call
(any id with any body, so ids are repeated and reused for other bodies),
`stale` the record each resolver has in hand, `tx` the transactions. Times are
ages: of a record since `updated_at`, of a transaction's remaining time bounds,
and since it landed. `Reserve` is one step because it runs under one advisory
lock. The rolling windows (24 hours, failure window) do not end within a
behaviour, so the caps are checked where they are tightest. Leases are
`ChannelPool`'s; here a lease is had or not.

### Fees and Pricing

`Fees` has the operators: `inclusionFee`, `maxBid` (saturating), the envelope that
must fit 32 bits, the fee bump's bid, and `FeeInToken`, the conversion with its
margin, rounded up and refused past 63 bits. A price is a number of
`PriceScale`-ths of a dollar; the code uses rationals, so nothing is rounded
before the last division.

In `Pricing` a caller asks for a quote (`Ask`, `Quote`), and may then submit what
it signed (`Prepare`, `Estimate`, `PriceForward`, `Reserve`, `AcquireWait`,
`Send`). Each of the three pricings reads the XLM price first: `XLMUSD` under the
mutex of the price source (`ReadCached`, or `FetchStart` and `FetchEnd` with the
mutex held over the fetch), and then the rest of `xlmUSD` under `Forward.mu`
(`UsePrice`), together with the fee that is computed from it. Between the two,
other callers go on. Ages are in ticks; `birth` is the true age of a price, which
the code does not know: it stamps the cache after the fetch and the last good
price when it is used. `FetchTimeout` and `MaxDelay` bound a fetch and the time
from reading a price to using it: the request's context ends it.

A request body is a record of what the checks look at: mode, contract, function,
fee token, target, user, wallet, and whose authorization entries it carries
(`Source` for credentials of the transaction's source). A simulation with
authorization enforced takes the call only if the executor's entry is signed for
the amount in the call (`simulate`). Signatures and ScVal encoding are left out.
The policy's refusals by function argument are not told apart.

### Service

Each connection has one request, which stops at every database call. `Request`
is the middleware chain (drain flag, cap on requests in flight, key, token
bucket) and the part of the handler before its first call. `load` is chosen in
`Init` and says which routes, keys, memos, orders and stops a behaviour has; it
keeps questions that do not meet each other apart. A bucket holds units, `Unit` to
a token, so that a tick can give back part of one; `owed` is the bucket a caller
would have if none were ever dropped. The limiter's key is a hash of the raw
`Authorization` header (`internal/httpx/limit.go`), so one API key in two
spellings has two buckets: `Accepted` has both.

`told` is what a caller has been answered. A memo can be asked about only after
someone was told of it: between the UPDATE and the SELECT of `SetIntentExternalID`
a row can be inserted for a memo that did not exist, but nobody can name that
memo before it was drawn at random.

`RecordDeposit`, `MarkForward` and `CloseIntent` are what the forwarder does to the
two tables the status reads, in the order `Forwards` has them, with the ignored
write errors (`lost`). `Submit`, `Record` and `RunEnds` are the tracker's work; its
last writes (`recording`: the lease given back, the outcome) run on
`context.WithoutCancel`. `Retry` is the retry worker of `cmd/serve`, whose transfers are
not on the tracker. `Signal` to `Exit` is the main goroutine: drain flag, `Shutdown`,
`Drain` with its cancellation and its wait for the cancelled work, the wait for the
workers. `PoolCloses` is the deferred `pool.Close()` of both programs, which waits for
every connection in use (`Holding`), also that of a request that hangs: a request's
context does not end with `Shutdown`, and no statement timeout is set. A probe's ping
has a timeout of its own and holds nothing for long.

## Runs

Every passing run explores its instance completely.

| Run | Instance | Shows |
| --- | --- | --- |
| `lifecycle` | one deposit, the code's limits, a worker and the retry worker, two transactions, two faults | one payout (`PaidAtMostOnce`); every transfer that can land is on record (`TransfersAreOnRecord`); `BooksMatchTheLedger`; `OneHolder`; `FailedIsOver`; `CompletedIsCredited`; settled rows stay (`SettledIsFinal`) |
| `twins` | two equal payments of one late transaction, whose sweeps (with that transaction's hash as memo) can be byte-identical | one transfer never settles both (`OneTransferOneDeposit`), and a late deposit is never credited (`RightDestination`) |
| `live` | one deposit, small limits, fair scheduling | `IInv`, the invariant of the proofs; `Forwards` implements `DepositLedger` (`ImplementsLedger`); `NoDepositIsStranded`; `EveryTransferIsResolved` |
| `intake` | two processes on one pool that overwrite each other's cursor, with and without a saved one, two faults, fair scheduling | no deposit is passed over (`NothingIsSkipped`); what is queued has a row (`QueueIsRecorded`); no deposit is handed to workers twice (`OfferedOnce`); always again, everything in range is recorded (`EveryDepositIsRecorded`); a queue empties (`QueuedIsTaken`) |
| `burst` | two processes with three senders, one transaction of the account in flight at a time, three faults, fair scheduling | `RefusedForACause`: a number is refused only while another transaction is in flight or for a cause outside the sequencer; the account goes on after gaps (`AccountMovesOn`) |
| `leases` | two holders, two channels, two configurations, two faults, fair scheduling | the stored number is one the account consumed (`KnownIsConsumed`), and of a free channel the latest (`FreeChannelIsUpToDate`); `LeaseIsKept`; a channel always carries another transaction (`ChannelsKeepServing`) |
| `requests` | one request submitted twice, two resolvers, three faults, fair scheduling | `PaidAtMostOnce`; the hash of a sent transaction is on record (`SentIsOnRecord`); `OutcomeIsTrue`; `EveryRequestSettles` |
| `caps` | two submissions with any ids, wallets and modes | real charges stay within wallet caps and daily budget (`SpendIsWithinCaps`); unreimbursed failures are bounded (`ForwardLossIsBounded`) |
| `pricing` | a caller that quotes and submits and one that only quotes, requests for each rule, a feed with good and bad prices | `PriceIsRecent`; a signed quote covers a surge (`QuoteCoversASurge`); `ReservationCoversBids`; `UserFeeCoversBid`; `SentAsAuthorized` |
| `service` | two requests at a time in six mixes; stops and crashes | dropped buckets grant nothing (`RateIsKept`); `AnswerIsCoherent`; `BindingIsKept`; the drain cuts no work of the tracker short before the deadline (`WorkIsSpared`); a process told to stop does, unless a database call never returns (`ServiceStops`) |

### Where the code and its documents differ

Two runs end in a violation; the lines they contradict are quoted under
`findings`.

| Run | Shows |
| --- | --- |
| `instances` | `Retry` does not claim a `pending_retry` row: the retry workers of two serve processes pay it twice |
| `slow` | a submitter slower than `staleAfter` finds its record rejected, `SetHash` changes no row without an error, and the transaction is sent and charged |

Three more appear when constants leave the range the passing runs use:

* `Forwards`, `MaxReply` greater than `RetryCutoff - ForwardDeadline`: the deadline
  of a worker starts at the reply of its claim
  (`internal/service/forwarder/forwarder.go:286`), so with a slow reply the
  retry worker holds the deposit as well and `OneHolder` fails. The comment at
  line 230 says the deadline covers the forward "from claiming the row".
* `Sponsor`, `RpcLag` greater than `LedgerTime`: `resolve` concludes from NOT_FOUND
  by the local clock (`internal/gasless/sponsor/resolver.go:143`) and rejects a
  request that was charged, so `OutcomeIsTrue` fails. `resolveSubmitted` of the
  forwarder compares with the server's latest ledger instead.
* `ChannelPool`, a configuration with a second seed: `Sync` changes the address of
  a row and keeps its lease token, so the `Release` of a process with the old
  seed stores the old account's number, and `KnownIsConsumed` fails.

And nine are part of the modelled behaviour, with no property against them:

* when `CompleteIntent` fails after `MarkForwardDone` has succeeded, nothing
  repeats it, and the intent later expires (`ARCHITECTURE.md:148` has both);
* a permanent failure met by a watcher worker closes the forward and leaves the
  intent pending; only `Retry` calls `FailIntent` (`ARCHITECTURE.md:149` has both);
* without a saved cursor a poll starts at the latest payment and does not save
  it, so an error before the first save starts the next poll later
  (`internal/service/watcher/watcher.go:166` says "nothing is missed");
  `NothingIsSkipped` therefore counts from the last such start (`base`);
* failures and forwards in flight are limited separately, so a wallet can have
  `MaxForwardFailuresPerWallet - 1 + MaxForwardInFlightPerWallet` failures;
  `ForwardLossIsBounded` states that bound, not the failure limit alone
  (`docs/gasless-sponsor-api.md:108`);
* `priceForward` prices the simulation it made, and `Prepare` then simulates the
  signed call once more and builds the transaction from that one
  (`Reserve` in `Pricing`), so its resource fee can differ from the priced one
  (`docs/gasless-keys.md:36` has the fee "priced from the enforce-mode simulation"
  that "the transaction is built from");
* a fee retry doubles the inclusion fee after the user's fee is fixed, so the bid
  of a retry can pass what the user paid. `UserFeeCoversBid` therefore speaks of the bids within the
  margin of the priced cost; the caps, not the user, cover the rest
  (`ReservationCoversBids`);
* a pool account has one transaction in flight at a time
  (`docs/concurrency-load-test.md:176`), so a burst with consecutive numbers does not
  "settle together" (`internal/service/forwarder/sequence.go:22`,
  `internal/service/forwarder/forwarder.go:738`): all but the first wait or are
  refused. `RefusedForACause` counts the transaction in flight among the causes;
* the retry worker's transfers run on the context the signal cancels
  (`internal/service/retry/retry.go:68`, `cmd/serve/main.go:96`) and are cut short at
  once, while `cmd/serve/main.go:178` says that "Watchers and the retry ticker hold no
  in-flight work". The row and the recorded hash let the next process resolve
  them (`Forwards`); `WorkIsSpared` speaks of the tracker's work only;
* the shutdown deadline does not bound the exit: `Drain` waits for the writes a
  cancelled submission makes on `context.WithoutCancel`
  (`internal/gasless/sponsor/submitter.go:432`, `:460`), and the deferred `pool.Close()`
  (`cmd/serve/main.go:63`, `cmd/gasless/main.go:66`) for every connection in use,
  although `cmd/serve/main.go:180` will not let a worker "hold the process past the
  deadline". `ServiceStops` therefore leaves out behaviours in which a database
  call never returns.

### Bounds

`MaxFaults` caps failed calls, lost replies, crashes and lapses of a behaviour.
Two or three are enough for a fault during the handling of a fault, which is
what the recovery code is about. The runs that are about something else have
fewer: `live` and `caps` one, `twins` none (its twins meet without a fault). Retry
limits are the code's in `lifecycle` and small elsewhere; `MaxSent`, `MaxSeq` and
`NumOps` end behaviours once every position has been passed. Queues and pages are
one or two long so that they fill. Time constants keep the order of the code's
(deadline < cutoff, stale < validity + margin) in a few ticks. In `pricing` the
prices lie below, within and above the plausible range, the resource fees on
both sides of the quote, of the largest one that is priced and of the envelope,
and the inclusion fees on both sides of the cap; the TTL lets a cached price age.
In `service` there is one more key than `MaxKeys`, two draws of a memo and two
orders for one intent.

Symmetry is over transactions, tokens, twin deposits, and in `caps` also calls and
ids, and never used with liveness. Deadlock is off in `Watcher`, `Sequencer` and
`ChannelPool`, whose bounded behaviours end; `Forwards`, `Sponsor` and `Pricing`
have a clock that never stops, and in `Service` a caller may always come.

### Fairness

* a process that can take its next step takes it, time passes, ledgers close:
  goroutines are scheduled and calls have timeouts;
* a process that has ended is started again (`Watcher`): the service runs under
  a supervisor;
* the retry worker and the resolver run on tickers and work what is oldest
  first, so a row that is selectable again and again is worked (strong fairness
  on taking it);
* in `Service` only the deadline, the main goroutine, and submissions whose context
  was cancelled, up to their last writes, are fair. Requests, workers, other
  submissions and database calls may take for ever. The process stops all the
  same, unless it is a database call that does;
* faults are finite in a behaviour. Nothing is claimed of a system in which
  every call fails.

## Proofs

Every safety property the passing runs check, invariant or action property, and
the refinement are also theorems. What the theorems add to the runs is the
quantifier: any sets of deposits, processes, channels, requests or callers, any
limits, and any number of faults. The modules' named `ASSUME`s say what is
required of the constants; a hypothesis beyond those is named in the theorem.

### The deposit life cycle

`ForwardsProofs` and `ForwardsSafety` prove, for any sets of deposits, workers,
transactions and memos and any limits:

* `TypeCorrect`: the type invariant;
* `InvariantHolds`: `Spec => []IInv`, from which follow `PaidOnce`,
  `OnRecordAlways`, `BooksMatch`, `DestinationIsRight`, `HoldersAreAlone`,
  `FailedStaysOver`, `CompletedWasCredited`, `TransfersAreDistinct` and the action
  property `SettledForGood`;
* `LedgerIsImplemented`: `Spec => ImplementsLedger`. Under the invariant a
  successful landing is the first of an open deposit (`LandPays`), a write of an
  outcome settles a paid deposit or abandons an open one (`WriteSettles`), a hash
  that is recorded anew never landed (`RecordingKeepsLedger`), an insert records,
  and every other step leaves rows' standing and landed transfers alone.

They assume `SingleRetrier` (one serve process) and `ClaimAnswersInTime` (a claim
is answered within cutoff minus deadline). Neither can be dropped: the run
`instances` is the counterexample for the first, and a larger `MaxReply` for the
second.

That no deposit is paid twice is not inductive. It follows from: every transfer
that landed or can land is named by its row (`OnRecord`); a process that decides
or builds knows that nothing is in play, and one that sends or polls knows its
transaction is the recorded one (`Knows`); and at most one process can write a
row (`HolderOK`). That in turn needs the ages: a worker holds a row only while
its clock is below the deadline and the row's age is within the reply delay of
that clock, so a row old enough for the retry worker has no worker left. For a
`pending_retry` row, which is not claimed, it needs that what the retry worker
fetched is still what the table holds (`BatchOK`).

### Intake

`WatcherProofs` proves `NoDepositIsSkipped`, `QueueHoldsRows`, the action property
`QueuedOnce` and `Typing`, for any number of serve processes. `NothingIsSkipped`
speaks of the saved cursor, which any process may overwrite with an older or a
newer one; the invariant therefore says of every cursor a process has in hand that
all before it is recorded (`WalkedIsRecorded`, `HandledIsRecorded`), and of the
operation it is about to dispatch that no process offered it before
(`DispatchedIsNew`). The lemma under both is `ConflictIsOwnRow`: `depositKey` tells
any two operations apart.

### The sequencer

`SequencerProofs` proves, for any number of processes and senders, `InvariantHolds`,
`PositionHasNoGap` and `RefusalsHaveACause`, whatever number of transactions of an
account the network holds (`Depth`): the sequencer's position is at most one past
what the account has consumed or has in its queue, unless a fault outside it is on
record. So the sequencer never causes a refusal; it does not prevent the ones that
come from a transaction in flight.

### The channel pool

`ChannelPoolProofs` proves `Typing` and the action property `LeasesAreKept` for any
configurations, and, when they have one seed (`SeedIsShared`),
`KnownNumbersAreConsumed`, `FreeChannelsAreUpToDate` and `ChannelsAreExclusive`: no
two holders work on one channel account unless one outlived its lease. The
hypothesis is needed: with a second seed `KnownIsConsumed` fails (above). The
invariant adds that tokens are unique (there are more of them than rows and holders can
have in hand, which stands for random ones), that a pending transaction is its holder's next
number (`PendingIsFollowers`), that a holder's numbers are the account's
(`HeldIsConsumed`) and, for an account without doubt, that they are its latest
(`RowIsHeld`, `PendingIsFollowed`, `HeldIsUpToDate`).

### Sponsored submissions

`SponsorProofs` proves

* with no assumption on times, `Typing` and `PaidOnce`;
* with `PromptSubmitter` (a submission sends before its record is stale),
  `SentIsRecorded`;
* with `PromptSubmitter` and `RpcLag <= LedgerTime`, `OutcomesAreTrue`, `CapsHold`
  and `ForwardLossBound`.

The run `slow` is the counterexample without the first hypothesis, and a larger
`RpcLag` the one without the second. `PaidOnce` needs neither, because it does not
rest on the record: `Reserve` lets one submission in per request id (`OwnedOnce`),
and that one seals a transaction only while none of its earlier ones can land
(`LiveIsOne`). The rest turns on time. `Timely` ties the age of a record to what is
left of its transaction's time bounds, or to how long ago it landed, so that a
record is old enough for the resolver to give up on it only when its transaction
has expired or can be found; `RecordIsTrue` then says that what is written is what
happened. The caps hold of what the tables count when the last row is let in
(`LimitInv`, `SpendInv`), and `RecordIsTrue` carries that over to what the network charges.

The stroop caps are about sums over sets of records. `RemoveInduction` is induction
on finite sets, from the well-foundedness of the strict subset order; with it
`FoldExists` and `FoldIsUnique` show that a sum over a finite set is well defined,
and `TotalRemove` and `TotalInto` how it changes with one element and how it
compares under an injection.

### Pricing

`PricingProofs` proves, for any number of callers, any requests, feed, fees, margin,
price scale and delays:

* `InvariantHolds` and `TypeCorrect`;
* `PricesAreRecent`, `QuotesCoverASurge`, `ReservationsCoverBids`,
  `UserFeesCoverBids` and `SendsAreAuthorized`, each the property of that meaning
  in the run `pricing`.

Of the constants it assumes what the configuration and the types guarantee
(`FeesAreRight`, `PricesAreRight`): the largest inclusion fee is at least the
minimum, and neither the largest quote nor a 32-bit envelope with one inclusion
fee more overflows 64 bits. The invariant has one part per piece of a request's
record: `HeldOK` (a price in hand is older than the cached one by the time it was
held), `BidOK` (doubling stops below the cap and the reservation is for the
resource fee in the transaction), `QuoteOK` (what was signed is the quote for the
remembered price and fee) and `SignedOK` (what was validated is what is sent, and
the three places that carry the fee agree); and two about the shared prices,
`CacheOK` and `GoodOK`. The last is why the recency bound is a sum: the last good
price is stamped when it is used, so it may be older than its stamp by TTL - 1,
one fetch and one request's delay. The arithmetic rests on `CeilCovers` (rounding
up is the least quotient that covers) and `FeeGrows` (the fee is monotone in
price and cost).

### The service

`ServiceProofs` proves `AllowanceIsExact`, `StatusIsCoherent`, `BindingsAreKept`,
`DrainSparesWork` and `Typing`, for any connections, keys, memos, orders, payments
and limits; of the constants it uses `ServiceIsRight` and that NULL is no value
(`NoneIsNothing`). The invariant separates rows from requests: rows only grow
(`RowsAreTrue`), so what a request learnt from one between two of its calls still
holds at the next (`Learnt`). For the limiter, `LevelInRange` shows that a bucket
idle long enough to be dropped is a full one, which is what a new bucket is. For
the stop, `Drained`: with the listener closed no request is left to start work,
and no tracked work is left when its context is cancelled, unless the deadline has
passed.

### Only model-checked

The eight liveness properties: `NoDepositIsStranded` and
`EveryTransferIsResolved`, `EveryDepositIsRecorded` and `QueuedIsTaken`,
`AccountMovesOn`, `ChannelsKeepServing`, `EveryRequestSettles`, `ServiceStops`. Fairness and
ENABLED are beyond the prover.

## Not modelled

* Migrations: one transaction under one advisory lock, with nothing in between to
  interleave.
* Startup checks, configuration, metrics, the database pool: they read, parse or
  count, and a process goes on or ends.
* Signing, key derivation, strkey, ScVal and XDR encoding: cryptography and
  formats. What is signed, and for which amount, is in `Pricing`.
* The gauges and the sweep alert of the balance monitor, and what the fee token
  list and the status of a gasless request show.
* Scripts, load tests and test helpers.

Of the modelled components: log output, metrics, the loss alert, request ids,
the outbound HTTP transport, and the limits of 200 and 100 rows per batch.

## Plan

Done: the deposit life cycle, intake, sequencer and channel pool, sponsored
submissions, pricing, the API with its limits and the shutdown, each with the
proofs of its safety properties; the refinement of `DepositLedger`.

1. The retry queue with a small batch limit: rows requeued for contention
   against rows with more retries.
2. An abstract specification of sponsored requests (paid once, reserved before
   paid) that `Sponsor` implements, and one of the lease table, with their
   refinements proved.
3. A module that composes `Watcher` and `Forwards` over one table, and one that
   composes `Pricing` and `Sponsor` (the reservation of the one is what the caps
   of the other count).
