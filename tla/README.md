# Lido Keys API: a TLA+ model

The Keys API keeps, in PostgreSQL, a copy of what the Lido staking modules say
on chain: which modules exist, their node operators, and every signing key with
its deposited (`used`) and `vetted` flag. Two jobs maintain the copy, HTTP
readers serve it. Clients (oracles, the deposit tooling, validators' ejectors)
act on what it says, so the question of this development is one: *is what a
reader finds beside a block what the contracts say at that block*, although the
service fetches as little as it can, the chain reorganises under it, calls fail,
the process dies, and releases are rolled out over a database in use.

Source paths below are relative to `src/src/`.

## 1. Inventory

| Component | Code | State | Operations |
|---|---|---|---|
| Reads of a module's contract | `common/registry*/fetch` | a round's requests and answers; type and address caches | counts, operators in batches, keys in batches, names |
| Registry synchronisation, one staking module (two copies: curated, CSM) | `common/registry`, `common/registry-csm` | tables `registry_operator`, `registry_key` | `update`, `saveOperators`, `syncUpdatedKeysWithContract`, `operatorsWereChanged` |
| Keys update round | `jobs/keys-update` | tables `el_meta_entity`, `sr_module_entity`; the round's locals | `update`, `updateStakingModules`, `isReorgDetected`, upserts |
| Execution client | `common/execution-provider` | none; the node's head moves | `getBlock('latest')`, `getFullBlock(hash or number)`, logs, calls at a hash |
| Staking router reads | `staking-router-modules/contracts` | none | `getStakingModules` at a hash |
| Job clockwork | `jobs/*/…-update.service.ts`, `common/decorators/oneAtTime.ts`, `common/job` | interval, `isExecuting`, deadline timer, last timestamp | `initialize`, `updateKeys`, `check…UpdateTimeout`, exit |
| Validators update | `jobs/validators-update`, `validators` | tables of `@lido-nestjs/validators-registry` (external) | `updateValidators('finalized')` |
| HTTP readers | `http/*`, `staking-router-modules/*.service.ts` | a transaction per request | lists, streams, lookups, filters |
| Response cache | `http/common/cache` | replies by URL, for a TTL | lookup, store, expiry |
| Validators to exit, status | `http/sr-modules-validators`, `validators`, `http/status` | a transaction per request | oldest validators of an operator; the two metas |
| Process and schema | `main.ts`, `app`, `jobs/jobs.service.ts`, `migrations`, `common/config` | environment, recorded migrations, tables, intervals | bootstrap, migrate, start and stop of the jobs |
| Glue | metrics, health, throttler, swagger, logging | | |

How they interact: the keys job calls, module by module, the registry of the
module's type, which reads the contract and writes its tables; the whole round
is one `READ COMMITTED` transaction, so readers (`REPEATABLE READ`) see the
state after one round or the next. The round asks the node by block **hash**
where it can (modules, nonces, operators, keys) and by **tag or number** where
it cannot (the latest block, the blocks in between, the events, the finalized
count of each operator). The two jobs share the process: an exit of either kills
both. Bootstrap migrates the schema before any job runs, beside whatever other
process uses the database.

Where it is hard, and what has to be right:

- *Incremental sync.* Keys below a stored finalized count are not fetched again.
  The count, the rows and the block they belong to come from different moments.
  Every skipped row must be the row that would have been fetched.
- *Reads in pieces.* One picture of a contract is put together from batches of
  concurrent requests, any of which may fail; some outlive their round.
- *Skipped modules.* Most rounds fetch no registry: nonce, reorg check and events
  decide. A module may be kept only if its keys are the same at the new block.
- *Answers by number.* The head moves between the questions of one round, so the
  answers may describe a chain that never existed; and a node may have forgotten
  the block the database is at.
- *Failures.* A round may throw anywhere, or the process may die; half a round
  must never be visible and the next must make up for it.
- *Readers in several queries.* A reply is put together from many queries, often
  after the status was sent, while the jobs commit; the two databases it may join
  are filled by jobs that do not wait for each other.
- *Two ways to read.* The same rows are reached through `find` and through
  streams, with parameters that clients spell in many ways.
- *Timers.* A job that stops updating must end the process; one that works must
  not be killed.
- *Releases.* A migration meets tables in use by any earlier release, another
  process in the middle of the same migration, or an operator taking one back.

The hazards, each at its line and with the properties that watch it, are in
`PROJECT.json`.

## 2. Modules

| Module | Models | Its state |
|---|---|---|
| `ELChain` | the block tree, given by constants; answers by number | constants only |
| `ModuleContract` | what a module's contract holds at a block, by module type | constants only |
| `ContractRead` | abstract: a read is the operators and keys of one block, or nothing | the block asked, what was read |
| `ContractFetch` | the requests such a read is made of | requests, answers, caches |
| `RegistryMirror` | abstract: what an update does to ALL rows of one module | `finalized`, `block`, `picture` |
| `RegistrySync` | `AbstractRegistryService.update` for one module | committed tables, the transaction's copy, locals |
| `Snapshots` | abstract: what the keys job promises to readers | `block`, `content` |
| `KeysUpdate` | `KeysUpdateService.update`, `StakingModuleUpdaterService` | committed db, the transaction's copy, locals |
| `Watchdog` | interval, `OneAtTime`, `wrapJob`, deadline timer, exit | timers, flags, ages |
| `HttpReads` | how the handlers of keys and operators read: streams, cache, failures | requests, cache, number of the last snapshot |
| `Requests` | pipes, transforms and validations of parameters | operators only |
| `RestApi` | what every endpoint of modules, operators, keys answers | the database, one request and its reply |
| `ValidatorsExit` | exit lists and the status, beside both jobs | one request, the two blocks stored |
| `Environment` | environment variables, their check, the factories that use them | operators only |
| `Migrations` | the statements of each migration, on schema and rows | operators only |
| `Deployment` | processes of two releases beside one database | database, phases, intervals |
| `…Proofs` | theorems about the module they extend | |
| `MC…` | block trees, contents, texts and times for TLC | |

How they compose. Each layer takes from the one below exactly what an abstract
module promises, and that the layer below keeps the promise is a refinement that
is checked and proved:

- `ContractFetch` implements `ContractRead` (`ReadsWholeOrNothing`);
  `RegistrySync`'s reads are such reads.
- `RegistrySync` implements `RegistryMirror` (`MirrorSpec`): an update is one step
  on everything a reader can find. Operators the contract has at the block become
  the contract's; every other operator stays whole, as it was. So the tables are
  not a picture of one block once operators were lost to a reorganisation, and the
  abstract module says so; for the operators that exist, `TablesMatchContract`
  says they are. In `KeysUpdate` a registry update is one step that brings the
  module's tables to a block, those operators being meant.
- `KeysUpdate` implements `Snapshots` (`SnapshotsSpec`): rounds are published
  whole, the block does not go back, no module is lost; for modules whose id has
  one address on every branch (`OneAddress`), since a reader looks under the
  address of the row. `HttpReads`, `ValidatorsExit` and `RestApi` look at what a
  reader makes of that.
- `RestApi` uses `Requests`; `Deployment` uses `Environment` and `Migrations`.
- `Watchdog` looks at the rounds from outside: whether they end, how, and when.

### 2.1 `ContractFetch`

One step per answer. `getOperatorsFromContract` asks for the number of operators;
`SendBatch` sends all requests of a batch of operators at once: the operator, its
summary, its count at the finalized block and, for the V2 modules, its name, for
which the address of the META_REGISTRY is asked first unless it is cached. The
answers come in any order (`AnswerNodeOperator`, …). The last one starts the next
batch, then `syncUpdatedKeysWithContract` goes operator by operator, from any
border, through its batches of keys (`makeBatches`), whose concatenated bytes are
split by `splitHex`; `formatKeys` reads `used` from the answer, `formatKeysCSM`
compares the index. `Fail` is any request that is not answered; the one at the
finalized block is caught and counts 0. After a failed round its requests go on;
the only one whose answer can still change something is the one that fills the
address cache (`strays`). `Restart` empties both caches, `types` included, which
the update fills before it reads.

A key's bytes are tuples of where they stand, so that any shift is seen. The
border at which key fetches begin is `RegistrySync`'s matter. `META_REGISTRY` is
read at the latest block and cached for good; it is a constant here. Defaults of
the key fetches that no caller in the program uses are left out.

### 2.2 `RegistrySync`

One step per await that matters. `ChooseTarget` (the round fixed a block hash) →
`ReadStorage` (`previousOperators`) → `FetchOperator(o)` in any order, each with
its own reading of `'finalized'`, which may fail and count 0 → `SaveOperators`
(delete keys beyond each total, upsert operators) → `SyncOperatorKeys` for each
operator (the border `FromIndex`, the batch merged over the stored rows) →
`Commit`, or `Abort` from anywhere. The head moves and finality advances at any
point. `ops`/`keys` are what readers see, `workOps`/`workKeys` the transaction.
A key row is `[key, used, vetted]`: key and signature are one token.

The contract is given by constants (`OpCount`, `Operator`, `SigningKey`) under
`ContractAssumption`: along one chain operators are not removed and deposited
keys keep their index, content and flags. Across branches nothing is assumed.

The CSM copy runs the same algorithm; where the two differ (the curated contract
returns a `used` flag per key, the CSM copy compares the index with
`usedSigningKeys`) the model takes the CSM form, which is the meaning of the flag.

### 2.3 `KeysUpdate`

`GetLatest` → `NothingToUpdate` | `ExitOnUnknownType` | `ExitOnDeletedModules` |
`BeginTransaction` → per module `UpdateOutright` (no past state, nonce changed, 30
blocks of difference) or the reorg check. The check is split into its questions:
by hash (`ReorgCheckParent`, `ReorgCheckSameHeight`, or `ReorgCheckForgotten` when
the node no longer has a block that left its chain, as `Known` says), then one
`GetFullBlock(n)` per number in any order while the head moves, then the verdict
(`NoReorg`, `ReorgFound`, or `ReorgCheckThrows` when a null answer is
dereferenced). `CheckEvents` asks the logs by number from the head of that moment.
`Commit` writes el_meta and publishes the transaction. `db.tables[a]` is the block
the registry of address `a` was brought to. `Upserted` is the upsert of a row, which
looks it up by id and keeps its address and type: a row made on a branch that is
gone keeps naming the contract the id had there, while the registry is brought up
to date under the new address.

`ModulesAssumption` is what the contracts guarantee along one chain: modules are
appended and keep their address, the same nonce means the same keys, and names
that change under one nonce leave an event. Keys and names are compared by
content (`Keyset`, `Names`), never by block, so "kept" is right exactly when it
makes no difference.

### 2.4 `Watchdog`

Time is counted in ticks. `Start` arms the deadline timer and runs the first
round; `IntervalFires` is turned away while `isExecuting`; a round ends as
`RoundUpdates`, `RoundIsIdle`, `RoundFails` or `MetricsFail` (keys job: the update
committed, the metrics query threw). `CheckTimeout` is
`check…UpdateTimeout`: the old timer is cleared only if the data is fresh, the
handle is overwritten always, so `orphans` is the set of armed timers nobody
refers to. The variable `job`, chosen at the start, tells the two jobs apart: an
idle round of the validators job reports the stored block, one of the keys job
reports nothing. Ages that grow without bound stop at a cap no guard looks
beyond. A round may commit a block of any age: the jobs compare numbers, and after
a reorganisation the higher block may be the older one. The `since…` variables are history.

### 2.5 `HttpReads`

A *snapshot* is a committed round; number 0 is the empty database. A handler
arrives (perhaps to be answered from the cache), is refused (`Refuse`: 404 for an
unknown module, 425 without meta) or opened (`Open`: modules and meta, which fix
the snapshot of its transaction), reads its modules one by one (`ReadModule`, or
`OpenStream`, `WriteRow`, `CloseStream`; the operators-keys handler first awaits
its operators, `FindOperators`, before any status is sent), and ends in `Finish`, `FinishEmpty` or a
failure. Endpoints are set apart by what the code sets apart: streamed or not,
about one module or all, cached or not, in a transaction or not (`Grouped`,
where `Seen` is whatever is committed), sent before or after the meta is read
(`RepliesFirst`). `Cut` is the handlers' catch: a reply whose status was sent is
destroyed, any other becomes a status. A row is named by module, snapshot and
place, so that a row of another snapshot is another row; that a request may hang
on the database (`Stall`), and may never go on, is what the idle timer of streams
is for. The queries before the status have no such timer, so `StreamsEnd` speaks
of streams that were announced. History: `arrived` and `failed`. The keys and operators that one reply may
hold of a module are one result per module; filters are `RestApi`'s matter.

### 2.6 `Requests` and `RestApi`

`HttpReads` asks what happens to a handler in time; `RestApi` what its answer
says. One action per endpoint, under the name of the controller's method, takes
every spelling of its parameters (`Requests`: a text is what it denotes and the
form it is written in, such as checksummed, upper case, ICAP, or hex, padded,
blank, fraction for numbers), and answers from one snapshot through the service's
own chain of refusals and queries. `find` and stream queries are separate
operators, as they are separate code in each module service; one operator stands
for the curated and the community copy of each, whose text is the same but for the
registry they call, so a divergence of the two would not show here; numbers beyond the
column make a stream fail after its status, and a `find` fail or find nothing
(`strict`, chosen at the start, since it depends on how the driver writes the
number into the statement). `TypeOK` holds the response classes of the
documentation against every whole reply. Lists are sets: their order is lost.

What the model says of the code, where one might think otherwise: `find` by
pubkeys (POST) compares them as written while the lookup of one (GET) lower-cases
it; `?moduleAddresses` is lower-cased before it is validated, so an address with a
wrong checksum passes there and not in the path; an address in a form ethers
accepts but the table does not hold (without 0x, ICAP) is 404; a blank
`operatorIndex` is operator 0.

### 2.7 `ValidatorsExit`

`el` and `cl` are the EL blocks of the two snapshots stored; both jobs commit at
any time. One request at a time: `AskExits` → `ReadModule` (404, 425, or its
transaction's `view`) → `ReadKeys` → `ReadValidators` (the choice `Chosen`, then
425 without CL meta, 500 if the keys are older than the validators, else 200).
`AskStatus` → `ReadElMeta` → `ReadClMeta` is the status. `Restart` may change
`VALIDATOR_REGISTRY_ENABLE`. Contract and beacon chain are constants by block
number (`KeysAt`, `UsedAt`, `ExitableAt`), so reorganisations are not seen here:
finalized CL blocks are on every branch. The list is the set of its members; its
order is that of the index.

### 2.8 `Environment`, `Migrations` and `Deployment`

`Environment` has one rule per variable: how its text becomes a value
(`Number`, `parseInt`, booleans, lists of URLs, secrets from a file), which values
pass the check, and what each factory needs (`FactoriesWork`: positive numbers, a
node, an address of the locator, which may be any text that is not empty,
`LocatorAddress`). `Migrations` has
the statements of every `up` and `down`, with what PostgreSQL makes of them on a
table that has rows: a column without a default cannot be added, a narrower key
may clash. A row is the number of the round that wrote it.

`Deployment` runs processes beside one database: `Start` (validation),
`CreateApp` (factories), `ReadPending` and `RunPending` (the migrator reads which
migrations are recorded, then runs the rest in one transaction, with nothing
locked in between; it may also fail for reasons of its own, such as a deadlock
with a round of another process), `InitJobs`, `Listen`, `FirstRoundEnds` and `KeysRound` for the
jobs, `Shutdown` and `UncaughtException` for the two ways out, `Exit` for the end
of the process at any moment, `Down` for a migration taken back by hand. A
process of an older release knows fewer migrations and writes fewer columns; it
is otherwise taken to behave as this one. A round is one step.

Left out: `CORS_WHITELIST_REGEXP` (a bad pattern throws in bootstrap, after the
migrations), `SENTRY_DSN`, `NODE_ENV=test` (no validation), intervals beyond
2³¹−1 ms, which Node.js turns into 1. The tables of
`@lido-nestjs/validators-registry` and their migrations belong to that package.
The command line of MikroORM reads `DB_PORT` with `parseInt`, the server with
`Number`; the model has the server's.

## 3. Runs

| Run | Question | Expected |
|---|---|---|
| `ContractFetch` | is a read of a contract whole, of one block, and does it end | pass, 11 192 states |
| `RegistrySync` | skipping, readers' view, refinement of the mirror | pass, 13 774 states |
| `RegistrySyncSlow` | the same skip when finality passes the synced block | violated |
| `RegistrySyncPhantom` | are keys gone from the contract gone from the db | violated |
| `KeysUpdate` | refinement of `Snapshots`, rows, marks, names with a moving head; the db reaches a head that stopped | pass, 15 668 states |
| `KeysUpdateMovingHead` | operators of kept modules, without assumptions on the head | violated |
| `Watchdog` | overlap, bounded silence, cause of exits, hung rounds, both jobs | pass, 22 181 states |
| `WatchdogForgotten` | exits only when outdated (keys job) | violated |
| `HttpReads` | whole replies, cut streams, the cache, no endless stream | pass, 46 805 states |
| `RestApi` | every endpoint, every spelling: types, agreement, filters | pass, 356 states (60 202 generated) |
| `ValidatorsExit` | order and origin of exit lists; the status | pass, 602 208 states |
| `Deployment` | schema, rows and configuration through releases, races, shutdown | pass, 37 564 states |

**What the properties say.** *Registry and contract*: `FailsOnlyByFault` (a round
fails only by a request that failed), `ReadsWholeOrNothing`, `RoundEnds`;
`TablesMatchContract`, `SkippedKeysUnchanged`, `MirrorSpec`. *Round*:
`SnapshotsSpec` as above, `ModuleRowFaithful` (the row of a module is the contract's
at the block, with its nonce; its address may be one from a branch that is gone,
never another one of the block's own chain), `LastChangedIdentifiesKeys` (who kept the answer of the marked block may
reuse it), `SnapshotNamesFaithful` (names, as long as the node stayed on the
round's chain), `EventuallyCaughtUp`. *Clockwork*: `SilenceBounded`,
`ExitHasCause`, `ValidatorsExitMeansOutdated`, `FlagIsReleased`. *Readers*:
`CompleteRepliesAreSnapshots`, `StreamedRowsBelongToMeta`, `GroupedKeysNotOlder`,
`StreamsEnd`; `EmptyServesNothing`, `ReadsAgree` (rows, counts and lookups are the
same whichever endpoint is asked), `FiltersSplit`, `ModuleNamedAnyhow`;
`ExitListIsOldest`, `MetaDeterminesReply`, `StatusIsOneMoment`. *Process*:
`SchemaIsOfVersion` (the schema is the one the recorded migrations build),
`WholeOrEmpty` (the tables hold one snapshot or none), `FailsOnlyByRace`
(migrations that nobody overtook run on whatever rows there are),
`ValidatedConfigSuffices`, `EmptyIsUnset`, `ClosingStopsJobs` (the end of the
service clears every interval there is; one that a first round still under way
makes later runs on until the process ends, and no other does).

**Bounds.** `MCContractFetch`: two blocks, with three and two operators of which
one has no keys, batches of two, so that last batches are short and there are two
batches of operators and three of keys; any number of rounds. `MCRegistrySync`:
six blocks, a trunk of two and two branches of two, two operators and three key
slots. The tree is chosen so that between branches a reward address changes, a
total shrinks, an operator appears, the same index holds different keys, and
deposits happen before and after the fork: each reason for the border to move, in
both directions. A seventh block or a third operator repeats one of these.
`MCKeysUpdate`: eight blocks, branches of three and three from a trunk of two, two
modules of two types, a third whose id has another address on each branch (so its
row goes stale and readers of the new branch look under the old address), and a
fourth of an unknown type; the third's addresses are used by nobody else, so the
unique constraint does not bite;
`MAX_BLOCKS_OVERLAP` 3 in place of 30 so that the threshold lies inside the tree;
the same nonce names different key sets on the branches, names change under one
nonce, and a node at the end of one branch has forgotten the other.
`MCWatchdog`: a timeout of four ticks and an interval of one, enough for three
rounds and three forgotten timers inside one timeout; the proofs cover all values.
`MCHttpReads`: two modules, one of them appearing with snapshot 2, three commits,
row counts that differ from snapshot to snapshot, every kind of handler; one
client, whose requests meet the ones before them in the cache. Clients meet
nowhere else, and the proofs are for any number of them. `MCRestApi`: two
snapshots, a curated module alone and with a community module beside it that has
one of its pubkeys too; operators 0 and 1, one without keys; integer columns that
end at 2; every form of text. Few states, since a request ends where it began;
what counts is the pairs of database and request, which are all generated.
`MCValidatorsExit`: three blocks and five keys, whose indexes are not in the order
of deposits; one leaves, one is never used; percentages that divide the number of
validators and that do not, 0 and more than 100; amounts below and above it, and
0. `MCDeployment`: this release beside the one before it, from a database left by
any release, before or after its first round; every environment that differs from
an ordinary one in one variable, and in the pairs of variables the code relates;
one migration taken back, two rounds that write.

**Fairness.** `ContractFetch`: weak fairness of answers, since the providers time
out: a request is answered or fails. `KeysUpdate`'s `FairSpec` has weak fairness
of the service's own steps: `setInterval` calls again and the event loop resumes a
round whose answer has come. Nothing is asked of the node; `EventuallyCaughtUp`
starts from `calm`, a moment from which the head stays and calls do not fail, and
`CaughtUp` excuses a database that cannot follow: the node is behind it, a module
disappeared or is of an unknown type, or the node has forgotten its block and is
less than `MAX_BLOCKS_OVERLAP` blocks away. `Watchdog`'s `FairSpec` has weak
fairness of time, of due timers and intervals and of the supervisor that starts
the process again; nothing says that a round ever ends. `HttpReads`' `FairSpec`
has weak fairness of each handler's own steps while its database answers, and of
the idle timers of streams; nothing says that a database that stopped answering
goes on. The other specifications state no fairness.

**What the violated runs show** (details under "findings" in `PROJECT.json`):

1. *`RegistrySyncSlow`.* Each operator's finalized count is read when the
   operator is fetched, at whatever is finalized then. If finality passes the
   block being synced (a first sync can take longer than two epochs, or the head
   the node served was already old), the count covers deposits the stored rows do
   not show; the next update skips them and they stay `used = false`.
2. *`RegistrySyncPhantom`.* `saveOperators` deletes only for operators it was
   given. An operator that existed on a branch that was reorganised away keeps
   its row and keys.
3. *`KeysUpdateMovingHead`.* Logs are asked by numbers after the reorg check has
   ended.
4. *`WatchdogForgotten`.* A forgotten timer exits a process that is up to date:
   for instance one restarted on a fresh db whose first round finds nothing new.

Smaller differences seen on the way, which no run is spent on:

- `upsert` (`storage/sr-module.storage.ts:42`, "update its properties") does not
  update address and type. If a module id has different addresses on two branches
  the row keeps the first one after the reorganisation, and readers look for the
  module's keys under it. The `KeysUpdate` run goes through this case;
  `ModuleRowFaithful` and `Snapshots` are stated with it.
- `onModuleDestroy` clears the intervals there are. A first round under way makes
  its interval afterwards, and nobody clears that one (`ClosingStopsJobs`).
- Idle rounds re-arm the deadline timer: nearly two timeouts can pass without an
  update (`SilenceBounded` is the bound that holds), where
  `keys-update.service.ts:51` says one.
- The handlers about one module document 425 and never answer it: on an empty
  database they look for the module first and say 404. The v2 stream documents
  425 too and is a broken 200 then.
- A number beyond an integer column cuts a stream after its status 200.
- `percent=0` gives way to `max_amount`, since 0 is falsy. `max_amount=0` alone
  lists every validator; the test named for this case sends `percent: 0`.
- Exit lists are made from all keys of the operator, not from the `used` ones of
  `rest-api.md:418`. The two are the same as long as only the module deposits to
  its keys (`DepositsByModule`).
- `sample.env` gives `STREAM_TIMEOUT` in seconds; the value is in milliseconds.
- An empty `STREAM_TIMEOUT` is not the same as an unset one, as it is for every
  other variable (`EmptyIsUnset`).
- After an uncaught exception the process lives 5 seconds more, and a round under
  way may still commit.

## 4. Proofs

TLAPS checks the theorems of the eight `…Proofs` modules for every value of the
constants that satisfies the named assumptions of the module they extend.

- **ContractFetch.** `TypeCorrect`, `RoundsFailOnlyByFault`, `KeepsPromise`. The
  invariant says that each request of the batch is in flight or answered, that an
  answer is the contract's at the round's block, that the batches before `next`
  are done and right, and that the batches of keys are a partition of the indices
  from the border to the total. That splitting the bytes gives the keys back, and
  as many signatures, is arithmetic about `splitHex` for any lengths. The
  refinement follows: the last answer makes a whole picture, every other step
  stutters, a failure or a restart gives up.
- **RegistrySync.** `RegistrySyncTypeCorrect` needs nothing more.
  `RegistrySyncSafe`, `SkippedKeysSafe`, `DepositedKeysNeverChange` and
  `RegistrySyncRefinesMirror` assume `FinalityWaits`: finality does not pass the
  block of an update in progress. `RegistrySyncSlow` shows that they need it. The
  inductive invariant adds to the properties what links the moments:
  `FinalityBehindTarget` (the finalized block is on the target's chain),
  `PreviousIsCommitted`, `FetchedFaithful` (each fetched operator is the
  contract's, and its count is at most the deposits finalized now) and
  `WorkFaithful` (operators before `next` are done, the rest are the committed
  rows cut at the new total). The heart is the step of `SyncOperatorKeys`: rows
  below the border are those of the finalized block by `FinalizedPrefixStored`,
  and the finalized block is an ancestor of the target, so `ContractAssumption`
  carries them over. The refinement is about all rows: an operator the contract
  has at the block is taken over whole (`CommittedListing`), the others are what
  `WorkFaithful` says is untouched.
  `RowsOfOneBlock` speaks of all rows, those that no update touches any more
  included: each operator is that of some block, with the keys of the same block
  (`OperatorsAreOfOneBlock`), so that its counts are those of its keys
  (`OperatorsCountTheirKeys`, by `FirstSlots`: the first n slots are n).
  `KeysLeftOnlyByLostOperators` is what is true of `NoKeyBeyondContract`: keys that
  the contract does not have come only from an update to a block with fewer
  operators (`OperatorsStay` excludes it), as in `RegistrySyncPhantom`; `NoPhantoms`
  is the inductive part.
- **KeysUpdate.** `KeysUpdateTypeCorrect`, `ReorgCheckSound`,
  `SnapshotKeysCorrect`, `MarksIdentifyKeys`, `SnapshotNamesCorrect`,
  `ModuleRowsCorrect`, `KeysUpdateRefinesSnapshots`. The check compares blocks
  asked at different moments; `ReorgCheckSound` shows by descent along `Linked`
  that if every link holds, the answers, wherever they came from, are one chain
  from the current block back to the previous. `SnapshotKeysCorrect` rests on it:
  modules below the loop index are right for the new block, the others still right
  for the previous, and a module kept on an unchanged nonce has, by
  `ModulesAssumption` along that chain, the keys it had. The second invariant,
  `More`, describes every row in full: its mark is the block its tables were
  brought to, whose keys are those of the snapshot's mark; the snapshot's mark is
  either the committed one or the round's block. For names it adds that a round's
  block is on the node's chain while `stable` holds, so that the numbers between
  the two blocks name exactly the blocks between them: later blocks of one chain
  are above (`LaterBlocksAreAbove`), and an event between them is among the logs.
  `ModuleRowsCorrect` and the refinement assume nothing of addresses: a row's
  address is one its id had on some branch, and for ids with a single address that
  is the block's. `RowsOwnTheirTables` is for `AddressesAgree`, every id having one.
  `KeptOperatorsMissedByReorgOnly` says that what `KeysUpdateMovingHead` shows is
  the only way to keep operators that changed: with `stable`, the promise holds.
  `RowsOwnTheirTables` follows the rows through the committed database and the
  transaction at once (`Owned`): no address twice, no tables without a row.
- **Watchdog.** `WatchdogTypeCorrect`, `RoundsExclude`, `SilenceIsBounded`,
  `EveryExitHasCause`, `ValidatorsExitIsJustified`. The invariant says that the
  timer measures the time since the last round went through, that ages are never
  smaller than the time since the commit (so a timer is cleared only while that is
  young), and hence that some armed timer fires before the silence is twice the
  timeout (`DeadlineIsSet`). For the validators job, whose idle rounds report what
  is stored, a timer left armed is one whose round saw outdated data.
  `ExitUnjustifiedByIdleReportsOnly` finds the cause of what `WatchdogForgotten`
  shows: if idle rounds report what the database holds (`IdleReportsStored`, which
  the keys job breaks after a restart or after failed metrics), every timer left
  armed was armed before a moment of outdated data, for either job, and
  `ExitMeansOutdated` holds.
- **HttpReads.** `HttpReadsTypeCorrect`, `RepliesAreSnapshots`,
  `StreamsKeepTheirSnapshot`, `GroupedKeysAreNotOlder`, `ReadyMeansServed`. The
  invariant describes a request in the middle of its reading: its body is exactly
  the rows of the modules behind it and of the stream it is in, at the snapshot
  of its meta (for the grouped handler: each module's rows at some snapshot since
  then). `ReadyMeansServed` also needs that modules stay (`ModulesStay`), and that
  the cache holds nothing but what handlers returned.
- **RestApi.** `RepliesAreTyped`, `EmptyIsNeverServed`, `RefusalsAreDocumented`,
  `FiltersAlwaysSplit`, `ModulesAreNamedAnyhow`: for any snapshots and any inputs
  within the types. Every endpoint is a function of database and parameters, so
  the invariant is small and the work is one lemma per endpoint. `ReadsAlwaysAgree`
  is of the same kind for the rows; for the counts it compares an operator's row
  with a list that shows its keys: `Key` shows different keys of one operator as
  different rows, so there are as many of the one as of the other
  (`PictureHasAsMany`), and the keys that are not used are the rest. What it takes
  of the committed rows (`RestApiAssumption`) is not taken on trust:
  `OperatorsCountTheirKeys`, `RowsOwnTheirTables` and `SnapshotKeysCorrect` are
  proved of the jobs that write them. `NullAssumption` says that null is no row.
- **ValidatorsExit.** `ValidatorsExitTypeCorrect`, `ExitListsAreOldestFirst`,
  `ListsAreDeterminedByMeta`, `StatusesAreOfOneMoment`. `OldestIsPrefix` and
  `ChosenIsPrefix` are facts about the choice for any finite set and any
  parameters; the invariant says that what a request holds (EL meta, keys) comes
  from the one stored state its transaction sees. `ListsAreDeterminedByMeta`
  assumes `DepositsByModule`, that only the module deposits to its operators'
  keys. That keys stay in
  the contract once they are used, and that the keys are not older than the
  validators, then makes the operator's exitable validators the same in every
  keys snapshot the list could have been made from.
- **Deployment.** `ConfigSuffices` and `EmptyTextsAreUnset` go through the rules
  of the variables, for any texts; the run has environments a variable or two from
  an ordinary one. `ClosingLeavesNoInterval` needs the order in which the jobs get
  their intervals: with it the clearing, which stops at the first job that has
  none, leaves none, and an interval seen while the service closes is one that a
  first round had yet to make (`ToCome`).
  `TypeCorrect`, `SchemaFollowsTheRecord`, `SnapshotStaysWhole` and
  `MigratesUnlessOvertaken` are about the database and all the processes beside it,
  for any number of rounds and of migrations taken back. The recorded migrations
  are not always a first part of the list: a process that read the pending ones
  before an operator took one back executes the later ones all the same. They are
  always *closed*, though: the second stands on the first, and all later ones on
  the second. The invariant (`DatabaseOK`) is that the tables are `Db(E, r)`: for the
  recorded set E, however it came about, one schema, with the rows of one round r
  or none in every table. One lemma per migration says what its `up` and its `down`
  make of `Db(E, r)`: another such database, or a statement that fails, and then
  E with it would not be closed. `Execute` and `RunUp` are recursive over a list;
  they are unfolded by the least place at which the result would differ
  (`LeastNatural`). `ProcessesOK` keeps a process's list of pending migrations to
  those of its release, and to the time in which it migrates; with `DatabaseOK`,
  a list that is still what is not recorded can be run to its end
  (`PendingRuns`), which is `MigratesUnlessOvertaken`.

Every invariant and every action property of the passing runs is proved, and what
remains true of the violated ones under the hypothesis that excludes the
counterexample. Model-checked only: the liveness properties `EventuallyCaughtUp`,
`FlagIsReleased`, `StreamsEnd` and `RoundEnds`, which are out of the prover's
reach, as are `ENABLED` and induction over data.

## 5. Not modelled

- The unique constraint on module addresses beyond the rollback it causes.
- MikroORM's identity map; nested transactions are parts of the outer one.
- CSM operator names can change in the META_REGISTRY without an event the service
  looks at and stay stale until the next nonce: `KeysUpdate` assumes the event,
  `ContractFetch` reads names at the round's block.
- Replies of the cache that go back to an older block, when two misses store
  theirs in the other order: nothing in the repository promises otherwise.
- A `BEGIN` that fails after the v2 stream was sent.
- The first rounds run before the network is checked (`jobs.service.ts:20`): a
  round may write the data of another chain before the process dies. `Deployment`
  has the order, its rows do not say of which chain they are.
- The libraries that store validators and cache replies, PostgreSQL, Umzug and
  MikroORM: modelled as the code uses them.
- `streamify`, which no handler uses.
- Metrics beyond `MetricsFail`, health, logging, Sentry, throttler, swagger: they
  keep no state that anything modelled depends on. Dashboards and load scripts.

## 6. Plan

Done, in this order: `RegistrySync`, `KeysUpdate`, `Watchdog`, `HttpReads`,
`ValidatorsExit`; then `RestApi`, `ContractFetch`, `Deployment` and `Snapshots`,
each with its proofs. What could follow:

1. The layers joined in one theorem: `RestApi`'s snapshots as what `KeysUpdate` and
   one `RegistrySync` per module commit, in place of the assumption whose parts are
   proved one by one.
2. A second client in `HttpReads`' run, with the order in which replies enter the
   cache, should the service come to promise that blocks do not go back.
