# TLA+ models of the NFT mint autopilot

This directory models the parts of the program in `src/` that keep state, spend
money or share something: the store and its users, the subscription, the hunt,
the purchase of a collection, the unattended autopilot and the tracker that
feeds it, the way a collection of the feed comes to a verdict or to a row with a
Mint button, the settings and rate limits, and the move to another host.  TLC
checks small instances; TLAPS proves the results named below for every value of
the constants.  Paths in this text are relative to the repository's root
(`src/` is its program).

## The system

The program is one Node process (or several serverless invocations of it): an
HTTP server, a command line and an optional unattended minter, over a chain
whose sequencer takes transactions first come, first served.  There are no
threads: every interleaving happens at an `await`, so each `await` of modelled
code is a step of its own here.

| Component | State it keeps | Operations | What makes it correct |
|---|---|---|---|
| Store drivers (`src/kv.ts`) | one JSON file, redis hash or map per namespace; a promise chain per file | get, set, delete, entries, size, clear | a write takes effect once, on the whole map; no write is lost; a rejected write does not block the next |
| Accounts and subscription (`src/accounts.ts`, `accountstore.ts`, `billing.ts`, `routes/account.ts`, `routes/subscribe.ts`) | one row per account: key hash, wallets, autoMint, rpcUrl, subscription | sign up, PATCH, POST /api/subscribe, the gate in front of a hunt | nobody hunts unpaid; a payment buys one period, once; what was paid for stays |
| Service fee and billing settings (`src/billing.ts`, `routes/billing.ts`) | one settings row; the environment | loadBilling, saveBilling, payServiceFee | a fee bills a mint that landed, once |
| Findings history (`src/findings.ts`, `store.ts`, `routes/findings.ts`) | one row per contract, capped at 200 | put, update, list, clear, pricing | sightings counted, passes remembered, cap held |
| Hunt (`src/hunt.ts`, `routes/hunt.ts`, `ratelimit.ts`) | the single-flight lock; the locals of a round | sample, inspect, buy, record | one round at a time, its cap held, outcomes remembered, the lock given back |
| Purchase (`mintCandidate` in `src/hunt.ts`, `wallet.ts`, `presign.ts`, `submit.ts`, `routes/mintnow.ts`) | nonces read from the sequencer; signed transactions | simulate, estimate, prime, sign, submit, poll, charge | no nonce gap, an honest report, a fee for what landed and no mint charged for twice |
| Autopilot (`src/autopilot.ts`) | spent, mintedAt, handled, busy | handle a hot collection | total, per-collection and hourly limits hold; busy is given back |
| Tracker (`src/tracker.ts`) | one row per collection, a bounded recovery queue | ingest, recover a sender, evict | a hot collection is reported; rates are exact; bounded memory |
| RPC and submission race (`src/rpc.ts`) | sockets; the requests of a race | sendRaw, raceSubmit | a success wins over failures in any order; every request ends |
| Timed bot (`src/bot.ts`, `triggers.ts`, `feed.ts`, `presign.ts`, `src/service.ts`) | presigned transactions, a trigger, a spend ceiling | check the ceiling, preflight, prime, presign, wait, submit | what is reported accepted arrived; the ceiling holds; a run ends |
| Rate limits (`src/ratelimit.ts`) | one bucket per client and limit | checkRateLimit | no more calls than capacity plus refill, whatever the clock does |
| Criteria (`src/criteria.ts`, `couldQualify` in `hunt.ts`) | none; the criteria of a request | merge, pre-filter, evaluate, score | the filter drops nothing good; a failed read makes nothing good; a near miss is near |
| Inspection (`src/inspect.ts`) | none | reads of a contract, any of which may fail | a read that failed is not an answer |
| Mint calls (`src/mintdetect.ts`, `mintcall.ts`) | none | classify a transaction, build our call from it | our call mints the same collection, to us |
| Snapshot and live board (`src/snapshot.ts`, `live.ts`, `liveCache.ts`, `routes/live.ts`, `routes/mintnow.ts`) | rows of the tracker; the cache behind the buttons | listen, snapshot, build the board, press | what is pressed is what was seen, and not long ago |
| Migration (`src/migrate.ts`, `export` and `import` of `cli.ts`) | a copy of the store | export, import row by row, again after a break | nothing newer is taken back |
| Everything else: HTTP routing, calldata for POST /api/mint, images and prices, configuration, the page | none these depend on | | see *Not modelled* |

How they interact.  Everything persistent goes through the store drivers, which
know nothing of rows: each user reads a whole row, awaits something else, and
writes a whole row back.  The hunt and the Mint button both call
`mintCandidate` with the same wallets and meet at the nonces; only the hunt
takes the lock.  The tracker calls the autopilot back synchronously with each
hot collection.  A round writes the findings history, which `GET /api/findings`
prices and writes too.  The gate of an account's hunt reads the account row and
the billing settings.  The board and a hunt both read snapshots of the tracker,
their own or an upstream one; the board leaves rows in the cache, a press takes
one to `mintCandidate` much later.  An import writes to the same namespaces as the
server it runs beside, from a process of its own.

The behaviours that are hard to test, each at its line, are listed under
`hazards` in `PROJECT.json`.  They are of five kinds: read-modify-write over an
`await` (store, account row, finding row, settings row); nonces read before the
transaction that uses them is sent; a budget checked before the money is
booked; answers that are lost, late or never come; and two definitions of one
thing that must agree (the filter and the verdict, the row and the call, the
percentage stored and the one charged).

## Modules

Each component module declares the code's parameters as CONSTANTS with a named
assumption, its state as VARIABLES, and one action per step between two awaits.
Definitions keep the source's names where they have one; `map` in
`PROJECT.json` gives the lines of each.  A section "Mutated forms" in each
module holds slips the code could have; `mutants` in `PROJECT.json` pairs each
with the property it breaks, which shows that the property depends on the code.

| Module | Models | State ↔ code |
|---|---|---|
| `KvHash` | the interface `KvHash`: what a namespace promises | `rows` is the map, `status` how far each call is |
| `KvFile` | `FileHash` | `file` is the disk, `waits` the promise chain `queue`, `work` the rows a running write has read; `ReadFails`, `WriteFails` and `Crash` are the world's faults |
| `Subscription` | account rows, PATCH, subscribe, the hunt gate | `row` is the accounts namespace, `req` the locals of handlers, `chain` the payments, `billing` the settings in force; `applied` is history |
| `FindingStore` | `HashFindingStore`, `mergeFinding`, the pricing of `GET /api/findings` | `rows` the namespace, `rec` and `pricer` calls under way, `onFile` whether the driver is the file; the rest is history |
| `HuntRounds` | `withSingleFlight`, `runAndRespond`, `runHuntCycle` | `lock` is `locks.has('hunt')`, `round` the locals of each request, `history` the findings of each account, `lookUps` the rows a `GET /api/findings` is pricing |
| `MintBatch` | `mintCandidate`, `submitAll`, `waitForReceipts`, `payServiceFee` | `run` the locals of each call, `ledger` and `mined` what the sequencer took and the chain executed, per wallet, `adrift` the requests given up that may still arrive; `run.beaten` is history |
| `TokenBucket` | `checkRateLimit` | `buckets` as in the code, in parts of a token; `now` is `Date.now()`; `granted` and `forward` are history |
| `BillingSettings` | `loadBilling`, `saveBilling`, `parseBillingPatch`, the settings namespace on each driver, `handleApi` in front of them; extends `TokenBucket` | `row` is the stored row, `torn` a file being rewritten, `state` and `next` the locals of requests; `blind` and `stale` are history |
| `Migrate` | `exportData`, `importData`, the two commands of `cli.ts`; extends `BillingSettings`, whose row is one of those moved | `backup` is the file, `dest` says where each row of the new host comes from, `step`, `todo`, `current`, `option`, `copy` are the locals of the command, `saving` and `mine` those of a save of the server; `disturbed` is history |
| `Inspect` | `inspectContract` and its probes | a contract is a function from reads to answers; the reads that fail are a parameter |
| `Criteria` | `evaluate`, `scoreOf`, `mergeCriteria`; extends `Inspect` | operators; a check is a record as in the code |
| `Judge` | one collection's way through `runHuntCycle`: `couldQualify`, inspection, verdict; extends `Criteria` | `criteria`, `collection`, `info`, `checks` are the locals; `contract` and `unread` the world |
| `MintCall` | `classifyMint`, `mintTarget`, `buildAutoMintCalls` | operators over calldata as a function and its words |
| `LiveBoard` | `ingest` as far as rows go, `snapshot`, `collectSnapshot`, `runLiveBoard`, the cache; extends `Inspect` and `MintCall` | `served`, `sampled` are trackers, `listening` a request that holds the feed open, `cache` and `left` the namespace and its expiry; `quiet` is history |
| `MintNow` | `POST /api/mintnow` and a qualified collection of a hunt, to `mintCandidate` and the calls it sends; extends `LiveBoard` | `plan` is `MintCandidateParams`, `sent` the transactions; `full` is whom the collection refuses |
| `BotRun` | `run()` of `bot.ts`, `waitForTrigger`, `raceSubmit`, `submitAll`, `runMintService` | `run` the locals of `run()`, `try` each request of each race, `race` the locals of `raceSubmit`, `ledger` and `mined` the chain, `open` the sale; `run.seen` is history |
| `Autopilot` | class `Autopilot` | fields of the class by name; `job` the locals of `mintCollection`; `exposed…` and `firstSent` are history of the chain |
| `MintTracker` | class `MintTracker` | `row` is `contracts`, `queue` is `recoveryQueue`, `recovery` the one awaited; `samples` is a set of numbered attempts; `seen`, every attempt since promotion, is history |
| `MC…` | the constants of the small instances | |
| `…Proofs` | theorems and lemmas about the module of that name; `SettingsProofs` about `Migrate` with what it extends, `JudgeProofs` about `Judge` and `MintNow` with what they extend, `StoreProofs` about `KvFile` and `FindingStore`, `AutopilotProofs` about `Autopilot` and `MintTracker` | |

Composition is by shared abstraction rather than by one large product.
`HuntRounds` treats a purchase as one step with the outcomes `MintBatch` can
give (refused before sending, sent without confirmation, bought, thrown), and a
put as one step with the outcomes `FindingStore` can give (written over the row
it found or over none, failed, failed although written).  `KvHash` is the abstract specification of the store,
and `KvFile` refines it: `NothingLost` is the specification of `KvHash` under the mapping
`rows <- AbstractRows`, `status <- AbstractStatus`, where a write counts as
applied from the moment it opens the file.  The refinement is claimed up to
the first fault, because a read that fails inside a set leaves the file with one row,
and after a torn write it reads as empty: the code promises nothing more; what a fault
costs is stated separately
(`SavedRowsStay`: nothing is lost without a fault; the unconditional
`SavedRowsSurvive` does not hold of the code).

The modules that share state are built one on the other: `Migrate` over
`BillingSettings` over `TokenBucket`, because an import writes the row a PATCH has
read and every request passes the bucket first; `MintNow` over `LiveBoard`
over `Inspect` and `MintCall`, because what a press sends depends on a
transaction, a row and a contract seen at three different times; `Judge`
over `Criteria` over `Inspect`.

## Runs

All bounds are constants of the configurations.  State counts are distinct
states.

| Run | Instance | States | Shows |
|---|---|---|---|
| `autopilot` | 4 collections (one denied), 2 transactions each, values 0/1, gas 1/3 over a limit of 2, 2 collections an hour, 3 ticks | 343,530 | `BudgetHeld`, `CollectionCapHeld`: what may be on chain stays inside both budgets though the check is several awaits before the booking and answers may be lost; `HourlyCapHeld` on the time of the first broadcast; `AlwaysReleased` |
| `subscription` | 1 account, 2 handlers, a good and a foreign payment, 3 settings, 1 tick | 1,230,960 | `MonthPerPayment`: paid time never exceeds one period per payment; `NoFreeCycle`: no cycle opens unpaid |
| `subscription_replay` | 2 good payments, 1 handler | violation | posting A, B, A applies A twice |
| `kv_file` | 2 keys, 4 writes (two sets, a delete, a clear), 1 fault (a failed read, a write that fails half way, a death) | 70,022 | `NothingLost` (refinement), `SavedRowsStay`, `EveryWriteSettles` |
| `findings` | the file driver or another, 2 contracts over a cap of 1, 2 puts, 1 pricing, 3 recorded findings, 1 failure or empty answer in a trim | 2,453,461 | `HistoryKept`: no kept row forgets that it passed, or loses or invents a sighting, unless a call that had not read it wrote over it; `CapAtRest` |
| `rounds` | 2 requests, 2 accounts, 2 collections, a shortlist of 2, a cap of 1, 2 rounds, 1 price look-up at a time, clears | 299,902 | `CapHeld`, `SentIsRemembered`, `AlwaysUnlocked` |
| `mint` | 1 hunt and 1 press of the button, 2 wallets, 2 contracts, any request given up may arrive later | 1,331,776 | `HonestReport`; `FeeOnlyForResult`: a fee is worked out from executed mints, one of which landed; `ChargedOnce`: a mint is in two bills only where the runs met at its nonce; `AcceptedReached`; and no nonce gap (in `TypeOK`) |
| `bot` | 1 wallet with 2 transactions, 2 endpoints, 1 foreign transaction, 2 gas limits around the assumed one | 395,282 | `AckedIsAccepted`, `AcceptedArrived`, `CeilingHeld`, `EndsOnceReady` |
| `tracker` | 2 collections, 2 senders, 1 row, a queue of 1, 1 sample, 3 ticks, 5 mints | 216,876 | `NeverMissed`, `WindowExact`, and the row limit (in `TrackerTypeOK`) |
| `settings` | 1 client with a bucket of one token and a clock that goes forward twice and back at will; 2 PATCHes (the address, the fee cleared); 2 accounts to move; an old settings row with a fee above the limit; each driver, and on files a save of the server step by step | 1,739,202 | `BucketAverage`: no refill counts twice; `PatchKeeps`: a PATCH keeps what it does not name unless its read failed or the row was stored since; `NoRollback`: a plain import takes no used account back, unless it met the server on the file; no percentage in force above its limit (in `TypeOK`) |
| `judge` | 648 rows of the feed around every threshold, 10 kinds of contract, 5 requests, any 2 failing reads | 24,917 | `PrefilterSound`, `QualifiedIsEarned`, `NearMissIsReachable` |
| `board` | 4 contracts (free, paid, a token, a shared drop contract), 9 transactions of which 2 come, 3 setups, 2 drivers, 2 wallets, a lifetime of 2 ticks | 126,489 | `SendsWhatWasSeen`: every call sent mints the collection chosen, within the ceiling, to its own wallet; `QuietBoardExpires` |

Why the bounds are enough.  Each limit of the code (budget, cap, queue, sample
list, row limit, window) is set so that it is reached and crossed inside the
run: the autopilot's instance has a run stopped by each of its three limits;
the store's has a delete and a clear queued between two sets of one key; the
tracker's evicts, rediscovers and drops a recovery within five mints; the
board's promotes at one mint in one setup and at two in the others, so that two
transactions give every pairing of a sample with the value, the drop contract
and the top function of another.  Two
actors are enough wherever the code's hazard is a read-modify-write (one that
reads, one that writes in between).  The proofs remove the bounds for every
safety property of a passing run (`MonthPerPayment` and `SendsWhatWasSeen` under
a hypothesis each, see *Proofs*).  Two constraints cut what is explored:
`Crowd` of `MCSettings` moves two accounts, or saves to a file, only while no price
changes and the clock stands (the theorems about all of them have no such bound), and
`Alone` of `MCBoard` has nobody hold the feed open while a call is being made, which reads neither tracker nor cache.
Symmetry is used only in runs without liveness (`findings`, `mint`, `settings`), over
sets no constant or definition distinguishes.  `CHECK_DEADLOCK FALSE` is set where the
model stops on purpose: its clock, its calls or its rounds are used up.

### What the code does not promise

One run shows a disagreement.  `subscription_replay`: `routes/subscribe.ts:77`
refuses a hash only when it is the newest one applied, while the comment above
it says replay is checked against the account's own history.

Two properties one would like are in the modules and hold only under a
condition, which the property that is checked states:

* `PaidTimeKept` of `Subscription`.  `saveAccount` writes a whole row loaded
  before other awaits, so a PATCH that overlaps a payment takes the paid time
  away after the payer was told it is on.
* `SavedRowsSurvive` of `KvFile`.  `write()` truncates the only copy in place,
  and `read()` takes a file that does not parse for an empty namespace.  It also
  answers "empty" for any other failure (`kv.ts:72`: too many open files, an I/O
  error), inside `set` and `delete` too, which then write the file back with one
  row or none.  Each of the three is a fault that ends the promise of
  `SavedRowsStay` and `NothingLost`.

What else the models showed or had to except, each at its line:

* `mergeFinding` lets a later attempt that confirmed nothing overwrite "bought"
  (`findings.ts:135`), and a throw in the middle of a round drops the outcomes
  of what the round had bought before (`hunt.ts:278`), which is why
  `SentIsRemembered` is about rounds that answer.
* `get`, `size` and `entries` are not queued behind a running write
  (`kv.ts:88`, `kv.ts:106-110`), and the puts of a round run in parallel.  On the file
  driver a put may therefore find no row where there is one, and start it afresh
  with `timesSeen` 1 and without its pass, or find the history empty and skip its
  trim.  `HistoryKept` excepts the first and `CapAtRest` counts the second, on
  that driver only.
* What a round has recorded may be gone before it answers: `DELETE /api/findings`
  empties the history, and a price look-up writes the row it had listed back over
  the newer one (`routes/findings.ts:128`).  `SentIsRemembered` excepts these, with
  the puts that failed.
* Once one mint of a batch is confirmed, the fee is worked out from the gas of all
  receipts, reverted ones included (`hunt.ts:564`, `billing.ts:288`); "the app bills
  for a result, not an attempt" (`hunt.ts:554`) is true of the batch only.
  `FeeOnlyForResult` says just that.
* A round and a press of the button that sign the very same transaction both find
  its receipt, and both charge for it.  `ChargedOnce` says that this is the only way to
  be charged twice.
* Nothing is bought twice only as long as `wallets[0]` holds the collection when
  it is asked, the balance read comes through, the request leaves `skipIfOwned` on
  (`criteria.ts:418`, `criteria.ts:477-482`) and the run is no press of the button.  The other
  wallets are never asked.  No property claims it; in `MintBatch` a run may go on
  whatever is held.
* A transaction reported accepted for "nonce too low" may never have reached the
  sequencer: another run's, or one given up by an earlier run that arrives late
  (`rpc.ts:176`), may have taken its nonce.  `AcceptedReached` excepts exactly a nonce
  that was taken between its reading and the answer.
* When all endpoints fail, the first failure speaks for all, so a time-out
  before "already known" is reported rejected though the transaction is live
  (`rpc.ts:295`); `AckedIsAccepted` is therefore about acknowledged
  transactions.  A response broken off after its headers settles `sendRaw` in
  neither way (`rpc.ts:146`).
* The ceiling of `POST /api/mint` assumes 400,000 gas when no limit is
  configured, while `run()` signs with the estimate (`service.ts:293`).
* A PATCH whose read of the settings failed, or met the file being rewritten,
  counts as a PATCH of no overrides and drops the others (`billing.ts:529`).
* On the file driver an import is a second process over the server's files,
  and `migrate.ts:54-57`, by which an import cannot roll an account back, is not kept.
  Its look-up, or the read of its write, may meet the file truncated by a save of the
  server, or fail, and then finds no account where a used one is; the server may
  save the account between look-up and write; and a write broken off half way
  leaves no rows.  `NoRollback` excepts an import that met the server in one of these
  ways (`disturbed`); on redis it holds without exception.
* One failed ask of ERC-165 next to one "no" makes a collection "not an NFT"
  (`inspect.ts:347`); a token that fails `decimals` may look like a
  collection.  `QualifiedIsEarned` says which reads a verdict rests on.
* A near miss short on a number of the feed never shows, because the filter
  drops it first (`hunt.ts:207`), although the score is made for it
  (`criteria.ts:125`); and one above the server's price, or that sells out later
  than its dial reaches, is shown though no dial helps.
* The verbatim replay is tried last, but it is tried: when the collection
  refuses `wallets[0]` and still accepts the copied payload, the mint goes to
  the wallet that was copied (`mintcall.ts:266`, against the comment at 22-30).
* A hunt and the autopilot ignore `mintVia` (`hunt.ts:276`), so samples through a
  shared drop contract never mint there; on the board `mintVia` is sticky
  (`tracker.ts:279`) and may be paired with a direct sample.  The
  simulation refuses both, so nothing wrong is sent.
* Redis expires the cache as a whole: a row whose collection left the board
  lives on while others are refreshed, since `cachedAt` is never compared, and a new
  hash whose `EXPIRE` failed stays; the file and memory drivers expire nothing.
* The board shows a contract that answers ERC-165 "no" but has a name and a supply
  as "likely" (`live.ts:436`).

## Fairness

Safety properties need none.  Liveness is claimed under weak fairness of steps
the code itself bounds in time:

* `Autopilot` – `WF(JobStep)`: every await of `mintCollection` is an `RpcClient`
  call, which has a time-out (`rpc.ts:176`), or the receipt poll with its
  deadline of 45 s.  Hot events and the clock are not fair.
* `KvFile` – weak fairness of each write's steps: file-system calls answer,
  with success or an error.  New calls, faults and deaths are not fair.
* `BotRun` – weak fairness of the preparation, of the trigger once it is due, of
  each request (answered, broken off or timed out) and of the end of the receipt
  poll.  Opening the sale, mining and other users are not fair.  An answer that
  is broken off is a step of the model, and `EndsOnceReady` says that nothing else
  holds a run up; the other modules assume that it does not happen.
* `HuntRounds` – weak fairness of each round's steps: the sampling window is at
  most 20 s, a store command has 5 s, RPC calls and the receipt poll have
  deadlines.  That requests keep coming is not assumed.

`Migrate`, `Judge` and `MintNow` state no fairness and no liveness: an import
may be broken off for good, and nobody has to press.

## Proofs

Every invariant and action property of a passing run is a theorem, for
arbitrary constants that satisfy the named assumptions of its module.  These say
that "no value" constants are fresh (`NoRow` is no finding and no row of the
tracker), numbers are naturals, sets that are counted are finite, and:

* `KvFileAssumption`: a call is a set, a delete or a clear.
* `MintBatchAssumption`: there is a wallets[0], and a gas limit to sign with.
* `BillingAssumption`: the environment's percentages are clamped, as
  `loadBillingConfig` does it.
* `DialAssumption`: the dials are ranges, and that of the supply reaches all of it
  (`ADJUSTABLE`).  The deployment's own criteria may be beyond the dials, since
  nothing clamps them.
* `FeedAssumption`: no wallet of ours and no sender of a transaction is one of the
  collections, and a contract's price is a number.
* `ProxyAssumption`: the functions of `PROXY_MINT_SELECTORS`, and no others, take
  the collection as their first word, and mean the same at every contract.  It
  says of the chain what `mintdetect.ts` takes for granted when it files a
  transaction under its first word.

TLC evaluates each assumption in the run of its module.  Two theorems have a
hypothesis of their own, because without it they are false or open:

* `OneMonthPerPayment` assumes `OnePaymentEach`, which the run
  `subscription_replay` shows to be needed.
* `WhatIsSentWasSeen` assumes `DropContractsApart`: a contract through which the feed
  was seen to mint another collection offers no mint of its own.  `mintVia` of
  a row is the last drop contract seen (`tracker.ts:279`), its sample may be a direct
  mint, and a press sends the sample's calldata to `mintVia`; that it
  then mints the chosen collection or is refused by the simulation is a fact
  about drop contracts, not about this code.  `MCBoard` assumes it of the
  contracts of its instance.

* `AutopilotProofs`.  `TypeCorrect`; `BudgetSafe`: `Spec => []BudgetHeld`.
  `BudgetHeld` is not inductive, since the walk has passed its check when money
  goes out.  `BusyInv` says that `busy` is set exactly while a job runs and that
  its collection is in `handled`; `BudgetInv` splits the exposure into what is
  booked and the part of the running batch sent so far, and says that booked
  money plus the whole batch fits the budget from the check until the booking.
  `CollectionCapSafe`, from `CollectionInv`: only the running batch adds to a
  collection's exposure, it was cut to the cap before it was signed, and what is
  in `handled` is never walked again.  `HourlyCapSafe`, from `HourInv`: a
  collection's first transaction is sent before its booking, so since any instant
  no more collections were begun than booked, the running one aside; and while it
  runs the hour still has room for it.
  For the tracker: `TrackerBounded` (types, the row limit, the queue's limit);
  `NothingHotIsMissed` and `WindowIsExact`, from `TrackerInv`: inside its window a
  row's samples are its attempts (`Exact`), so evaluating whenever a count or a
  minter was added sets the flag in time (`Reported`).
* `SubscriptionProofs`.  `TypeCorrect`; `CyclesArePaidFor`:
  `Spec => []NoFreeCycle`, from `PaidInv`, which says that every paid row, and
  every copy of a row in a handler's locals, rests on a mined payment of its own
  account.  `OneMonthPerPayment`: `MonthPerPayment` under `OnePaymentEach` (at
  most one payment per payer), from `MonthInv`, which bounds rows and copies to
  one period ahead.  Without that hypothesis the statement is false: that is
  the run `subscription_replay`.
* `StoreProofs`.  For `KvFile`: `TypeCorrect`; `OneAtATimeHolds`: up to the first
  fault, the promise chain keeps writes apart (an ordering of `waits` is the
  inductive part); `FileImplementsHash`: `Spec => NothingLost`, one step of the
  abstract map or a stutter for each step of the file, up to that fault (a read that
  fails in a write, a write that fails half way, a death of the process).  `SavedRowsSafe` is
  `SavedRowsStay`, from `KeptSoFar`: a row that was saved is in the file, and in
  what a running write has read and is about to write back.
  For `FindingStore`: `HistorySafe`, from `HistInv`: the row a put has read still
  covers what it is about to overwrite, unless a price look-up came between or it found
  none in a file (`PutReady`), and no two puts are about one contract.  `CapSafe`, from `TrimInv`: counting rows alone
  is not inductive, since trims that overlap decide on stale sizes; the invariant
  is about every subset of the trims that are deleting, as if just these had
  finished: what they leave is within the cap, one row aside for every other
  trim and every one that failed or found nothing.
* `HuntRoundsProofs`.  Everything about the locals of one request is one
  predicate `Good` of that record, kept by each step of the round; what is still
  on the shortlist has no outcome yet, so the counter and the set of collections
  sent for grow together.  From it `TypeCorrect` and `CapSafe`.
  `RoundsExclude`: the lock is held exactly while one round is under way, throws
  included.  `RoundsRemember`: a round that answers has recorded what it sent but
  for the puts that failed or were undone.  It rests on `Kept`: what the round under way
  has put is in the history or among what it lost, since no other round is recording
  (exclusion) and every other writer is seen by it (`BesideMoves`).
* `BotRunProofs`.  `TypeCorrect` and `AckedSafe` rest on `RaceGood`, which
  relates what one race knows to the state of its requests (told as soon as one
  succeeded, otherwise when none is outstanding); `SettleGood` shows that every
  answer, in any order, keeps it.  `CeilingSafe` carries the test of
  `assertWithinCeiling` along the run (`CeilingInv`) and closes the gap between
  the assumed and the actual gas limit with `Monotone`.  `AcceptedSafe`
  (`AcceptedArrived`), from `ArrivedInv`: "already known" and "nonce too low" were
  said of a nonce that the sequencer had, and entries of the ledger stand at the
  nonce they were signed with, so that one is either ours or foreign and
  newer than the reading of the nonce.
* `MintBatchProofs`.  All five properties of the run `mint` from one `BatchInv`.
  Its part about one run, `Good`, is a predicate of that run's locals; steps of
  other runs and of the chain keep it because of one fact about the ledgers
  (`Moves`): they grow at the end, and what was executed does not change.  It says
  that a nonce that was read leaves no gap, that a receipt that is in is about the run's
  own executed transaction, and that a nonce stays the next one until the run is
  answered or beaten (`Reached`): whatever the sequencer takes marks every run that
  waits for that nonce.  `Once`: two runs are told that one nonce is theirs only if
  one was beaten.  `Drift`: a fee that may still arrive was worked out like one that
  has.  `TypeCorrect`, `HonestSafe`, `FeesAreForResults`, `ChargedOnceSafe` and
  `AcceptedReachedSafe` follow from its conjuncts.
* `SettingsProofs`.  `BucketSafe`: `BucketAverage` is not inductive, since the
  clock may be ahead of a bucket; `BucketInv` counts the time not yet refilled as
  tokens, so that a call only moves it and a step back only loses it.
  `PatchesKeepTheRest`, from `PatchInv`: what a request that is neither blind
  nor stale is about to store equals the row in every field it does not name;
  `stale` is what makes it inductive beside other requests and an import.
  `ImportRollsNothingBack`, from `MoveInv` (`Undisturbed`): as long as nobody met the
  import on the file, the account it is about to write is not there, only accounts
  that are there can be used, and the file is as it was read.  `TypeCorrect` for the three together, from
  `FlowInv`; it includes that no percentage in force exceeds its limit,
  whatever is stored.
* `JudgeProofs`.  `VerdictInv` carries along a walk where its verdict came from.
  `PrefilterIsSound`: each conjunct of `couldQualify` is the passing condition
  of a check of `evaluate`, so what the filter drops fails one.
  `QualifyingIsEarned`: a read that came through answers the same whatever other
  reads do (`SameAnswers`), so a bar is seen by the check it feeds; and no
  request changes the price (`PriceIsTheServers`).  `NearMissesAreReachable`:
  a positive score means that no blocking check failed, and the loosest dials
  let every other check pass; the supply check needs that a supply not sold
  out is below the whole (`ProgressIsPartial`).
  Of the board: `QuietRowsExpire`, from `LifeInv`: the ticks the cache has left
  and those since it was filled are together at most its lifetime.
  `WhatIsSentWasSeen` is `SendsWhatWasSeen` and follows a transaction from the
  feed to a call.  `SeenInv`: every row of either tracker and of the cache is of a
  transaction that minted that collection (`classifyMint` and `mintTarget` agree
  with the chain), and is priced by the contract.  `PlanInv` carries that to the
  call: no way of `buildAutoMintCalls` touches the word that names the
  collection, and the simulation fixes the value.  For the recipient the order of the
  ways counts.  Where the sample minted to its sender by naming it, the swap of that
  address is a way, it comes before every way that leaves a foreign recipient
  (`SwapIsFirst`), and it works whenever any way does and the collection does not
  refuse wallets[0] (`SwapWorks`); so the first way that passes is one that mints to
  the wallet that sends it.

Model-checked only: liveness (`AlwaysReleased`, `EveryWriteSettles`,
`AlwaysUnlocked`, `EndsOnceReady`), because the prover has no rule for fairness and
ENABLED; and the refutation of `subscription_replay`.

## Abstractions

Money is small naturals; addresses, keys, hashes and calldata are model values;
signatures, sealing and hashing are the fact they establish.  A transaction
that reached the sequencer may be reported as anything.  An RPC call answers or
fails; a chain executes a wallet's transactions in nonce order and a mint may
revert.  Redis appears as "the row was written and the caller saw an
error" (HSET succeeded, EXPIRE did not).  Several processes over one store are
modelled only for an import beside the server, whose saves are one at a time and
do not overlay the import's bytes; the lock and the promise chain are per
process in the code too.

`Inspect` keeps one or two getters of each of the code's lists, in their order,
since no property tells more of them apart.  Calldata is a function and one
word per argument; a recipient is a word that is an address, as in the code's
word scan.  What a contract does with a call (`Roles`, `Works`) is external.
The list of ways of `buildAutoMintCalls` is a set of ways with ranks, the place in the
list; "the first that passes" is the one of least rank, and a way
whose data an earlier one already has is left out as in the code.  The samples of a
row are a set of numbered attempts, the list in the order of the numbers.
Scores are whole parts of `Whole`, and a ceiling on a quotient is compared
without dividing.  Tokens of a bucket are parts of a token, so that a tick
refills a whole number.  In `MCSettings` no input is one the form refuses; its
refusal is reached through the memory driver, which refuses every PATCH.  An import
that `parseBackup` or `checkEncryptionKey` refuses is one that does not start.

## Not modelled, and why

The one call of `POST /api/mint` (`calldata.ts`, `resolve.ts`, `mintplan.ts`) is built
from its arguments without state; images, market prices, origins and explanations are
functions from data to data whose failures end in a missing field.  HTTP routing, the operator
token, configuration, logging, the page and deployment keep no state these
components depend on.  The binary framing of the sequencer feed is data work.

## Plan

In order of importance.

1. A login that meets a file being rewritten, and account saves of the server that
   queue behind each other while an import runs.
2. `resolve.ts` and `calldata.ts` as operators, with the ceiling of `BotRun`.
3. An abstract specification of a purchase that `MintBatch` implements and
   `HuntRounds` uses, in place of the outcomes they share by hand; likewise of a
   put, which `FindingStore` implements up to the first write over a row not read.
4. Proofs of what holds only under a condition: `PaidTimeKept` while no PATCH
   overlaps a payment.
