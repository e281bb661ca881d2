# atlasnet-explorer in TLA+

A verification project for the Star Atlas block explorer: a Next.js client that
talks to Solana RPC endpoints. What is hard in it is not any single function.
Every page is a set of small state machines - React state, effects, timers and
RPC calls in flight - and the user may switch the cluster under all of them.

## The system

| Component | State | Operations |
|---|---|---|
| **Cluster connection** `providers/cluster.tsx` | reducer state (cluster, custom url, status, info), search params, the `enableCustomUrl` switch | navigation, `updateCluster` attempts that answer in any order, the param-stripping effect |
| **Fetch cache** `providers/cache.tsx` | entries by key with status and data, the url they are for | Update (ignored for another url, reconciled otherwise), Clear |
| **Accounts** `providers/accounts/index.tsx`, `address/[address]/layout.tsx` | cache, three fetchers with timers, calls in flight | request, timer, batch by batch answer or failure, replacement on a new url |
| **Address page** the layout, its pages and tabs | SWR lookups, the path, error boundaries | open a tab, redirect, look up, fail |
| **Account history** `providers/accounts/history.tsx`, history cards | cache of pages, details | refresh, load more, details, reconcile |
| **Owned tokens** `providers/accounts/tokens.tsx`, `TokenHistoryCard` | cache, the histories of all token accounts | fetch with retry, filter, refresh, load older, two effects |
| **Transaction page** `providers/transactions/{index,parsed}.tsx`, `tx/[signature]/page-client.tsx` | two caches, retry counter, interval | fetch on load, poll, bail out, refresh, retry |
| **Raw transactions, inspector** `providers/transactions/raw.tsx`, `components/inspector/*` | cache; url params, input, message; simulation; lookup tables | paste, link, permalink, decode, replace the url, simulate |
| **Supply, rich list** `providers/supply.tsx`, `richList.tsx`, their cards | one value each: idle, disconnected, connecting, error or data | fetch on load or on click, refetch on reconnection |
| **Blocks, epochs** `providers/{block,epoch}.tsx`, their pages, `BlockHistoryCard` | cache of each; filters in the url | fetch in several requests; epoch arithmetic; filter, order, page |
| **Rewards, stake** `providers/accounts/rewards.tsx`, `RewardsCard`, `stakeActivation` | cache of pages of epochs; none | open, load more; one request per epoch; stake by epoch |
| **Programs** `utils/verified-builds.tsx`, `program-verification`, `security-txt` | SWR entries of registry, multisig and IDL | look up, compare, upgrade meanwhile |
| **Token accounts** `TokenAccountSection`, `TokenExtensionsCard` and their hooks | SWR entries, one price effect, selected extension | look up, refresh the price, select, hide |
| **Cluster stats** `providers/stats/*`, the stats cards | two reducers, `active`, four intervals, a time-out per card | poll, time out, reset, retry |
| **Search** `SearchBar`, `utils/token-search.ts` | options by text, input, last request | type, blur, choose, switch the cluster, answers late or rejected |
| **Program logs** `utils/program-logs.ts`, `ProgramLogsCardBody` | none (pure) | lines to entries, entries to rows |
| **Combat telemetry** `utils/combat-telemetry.ts`, `CombatVisualizer` | none; phase of the replay | decode, extract from the log, pair with attacks, replay |
| **Sage cargo, tokens, star frame** | one cache of promises; none | fetch names; movements; decode |
| **Instruction cards** `transaction/InstructionsSection.tsx`, `components/instruction`, scroll anchors | raw view per card, one flag of the page | choose the card, tell what the node says, fetch decimals and raw data, scroll once |
| Metadata proxy, Anchor and IDL conversion, flavors | little or none | not modelled, see PROJECT.json |

**How they interact.** `ClusterProvider` is at the root; every data provider
reads `{url, status}` from it through `useCluster()`. A provider clears its
cache in an effect after the url changed. Components below a provider ask it to
fetch in effects of their own, which run *before* the provider's (React runs
the effects of children first), and every request keeps the url it was made
with until its answer is dispatched. So the same dispatch can come from a
timer, an effect, a click or an answer, and the reducer is where the races are
decided.

**What is hard.** Answers of an earlier cluster; answers that overtake each
other; effects of children that run before the Clear of their parent; spinners
whose request was dropped; polling that must stop; pages put together from
requests that overlapped. PROJECT.json lists these hazards at their lines.

**What makes each component correct.**

- Cluster: it shows the requested cluster, settles, and no late answer counts for another one.
- Cache and accounts: nothing answered by one cluster is shown for another; every "loading" has a request behind it; the page ends up with its account or an error.
- History: the rows are one stretch of the ledger without gaps or duplicates; "full" means full.
- Transaction page: the interval fits what the page says and asks the right cluster; it stops.
- Supply: "not connected" and "loading" are true when they are shown; what is shown is of this cluster.
- Rewards: every epoch of the range the card speaks of was asked for, and is listed once.
- Stats: they are of the url that is polled, an error ends the polling, and every spinner ends in data or an error.
- Program logs: a row shows the lines, the failure and the compute units of its instruction and of no other.
- Combat telemetry: exactly SAGE's own events count, an attack is shown with the one it logged, and the replay tells every shot.
- Owned tokens: the merged table leaves out no transaction that is newer than the oldest row of a complete history.
- Inspector: at rest the url says what is shown, and what was entered is shown with its signatures.
- Address page: the tabs, pages and header agree about the kind of the account, and no user is sent away from a page the account has,
  but for two cases in which the code does that (below, under *Address page*).
- Block and epoch: what is shown agrees with the schedule of the url, and the counts with the list.
- Stake, programs, tokens: what is told is what the cluster, the registry or the service answered for what is shown now.
- Search: the options offered are of the text in the field, and choosing one keeps the cluster.
- Instruction cards: a card tells all the node says, once, of its own instruction and in units of its own token.
- Star frame and cargo: what is decoded is what an SDK encoded; a name is of the game of this cluster.

## The modules

```
Connection            what useCluster() promises            (abstract)
  ^ implemented by    ^ environment of
Cluster               Accounts   SupplyPage   TransactionPage
                         |           |             |
UrlCache (abstract) <- FetchCache  StatusFetch   FetchCache
                         |
      AccountHistory, TokenHistory, Rewards, RawTransaction, ChainPages
           (HistoryRows)

TransactionLogs       the runtime that writes a log (external), and what reads it:
                      program logs and combat telemetry

Messages              what a message says of its accounts
  |  shown by
MessageCards, BlockCards

alone: Stats, AddressTabs, Inspector, Simulator, StakeActivation, ProgramCards,
       TokenCards, SearchBar, CombatReplay, SageTokens, SageCard, StarFrame,
       InstructionCards

Addresses         Accounts | AddressTabs                                  AccountsProofs
Histories         AccountHistory | TokenHistory                           AccountHistoryProofs
Pages             SupplyPage | ChainPages | BlockCards                    PagesProofs
TransactionPages  TransactionPage | Inspector + RawTransaction
                                  | Simulator | MessageCards              TransactionProofs
AccountCards      Rewards | StakeActivation | ProgramCards                AccountCardsProofs
Services          Stats | TokenCards | SearchBar                          ServicesProofs
MCInstructions    TransactionLogs | CombatReplay
                                  | SageTokens | SageCard | StarFrame
                                  | InstructionCards                      TransactionLogsProofs
                                                                          ClusterProofs
```

Each of the seven above EXTENDS one module and takes the others as instances over
variables of their own. These parts share no state in the code either; `part` says of
which one a behaviour is, and the others are at rest. So one run explores each of them
by itself, and a property of the run is the conjunction of theirs. The first six leave
every value to constants with named assumptions, so that the module of proofs on the
right EXTENDS them, and the .cfg files give the values, by definitions named MC... at
their end where it takes an expression; MCInstructions has the values in it, and
reaches the recursive `StarFrame`.

- **Connection** - the url and status that providers see: becoming Connecting
  (perhaps with another url), and an outcome that may come at any time, also a
  late one after the connection had settled.
- **Cluster** - `ClusterProvider`. `Render` is the body of the component,
  `Effects` both effects in order, `Succeed` and `Fail` the two ends of
  `updateCluster`. `ran` is what the effects last ran with. The attempts take
  slots, so they overlap and answer in any order. `ImplementsConnection` maps
  it to Connection.
- **FetchCache** - the reducer of `cache.tsx` as operators on a cache value
  `[url, entries]`. An entry that is not there is `Absent`.
- **UrlCache** - the promise of a provider: entries are answers of the one url;
  only emptying the whole cache takes data away; Fetched means data.
- **Accounts** - `AccountsProvider` and the address page. A fetcher is
  `[url, mode, pubkeys]`, its timer is set exactly when it has pubkeys;
  `retired` are fetchers replaced while their timer was set. A call walks
  through its batches; of parsed accounts it may dispatch some and be
  interrupted, as `handleParsedAccountData` awaits more requests.
- **AccountHistory** - `HistoryProvider` and the three cards. A signature is
  its position in the ledger of the address, which grows while requests run.
  A call has its page read by the server (`Serve`), and later dispatched.
- **HistoryRows** - `combineFetched`, which both histories use; **TokenHistory** -
  `fetchAccountTokens` with its retry, and the table that drives the histories of
  many accounts at once: `mintAndTxs`, the oldest slot of the complete ones, the
  filter, and the two effects that load older rows.
- **StatusFetch**, **SupplyPage** - `SupplyProvider` and `RichListProvider` are
  the same machine, instantiated twice on one page.
- **TransactionPage** - the page with both caches. An answer tells the stage
  the transaction had at some moment between the request and the answer.
- **Rewards** - `RewardsProvider` and its card. A call asks for the epoch info
  unless it was given an epoch, and then for all epochs of its page; `Truthy`
  is where an epoch of 0 counts as none. `nulls` is a record, for the
  properties, of the epochs the cache got no reward for.
- **Stats** - the polling provider, both reducers and the two kinds of cards.
  The four requests of the code are two of each reducer and are kept apart
  where their errors differ. Requests may hang for ever.
- **TransactionLogs** - the environment: a stack of programs that log,
  invoke each other and return or fail, precompiles that log nothing, native
  programs without an invoke line, and a log collector with a limit. The readers:
  `parseProgramLogs` as a recursive function over lines, each reduced to what the
  string tests of the code find in it, and the rows of the card; the telemetry decoder
  reduced to the lengths it reads and the values it rejects, the stack of
  `extractCombatTelemetryFromLogs`, and the pairing of `getCombatVisualizations`.
- **CombatReplay**, **SageTokens**, **SageCard**, **StarFrame** - the phases of the
  replay and the damage it sums up; the net movements of tokens between the
  balances before and after; the card whose names come from a cache of promises;
  the decoder of the IDL's types against an encoder of every release.
- **InstructionCards** - `InstructionsSection`: which card an instruction gets. For the
  programs the node parses, the `types.ts` of each is a table of the fields that must and
  may be there, and a card the sequence of the fields it has a row for; what the node
  says is a function from fields to values, of which only "is wrong" and "is zero" are
  told apart. The state is around them: details, IDLs, token accounts and mints and the
  raw transaction that arrive, the raw views, and the scroll to the card in the url.
- **Inspector**, **RawTransaction**, **Simulator** - `params` is the url,
  `pending` a `router.replace` under way, and the two effects keep the url and
  the inspector's data in step; the provider of raw transactions with the view of
  a signature; `useSimulator` with answers of earlier messages and urls.
- **Messages**, **MessageCards** - the header, static keys and lookups of a
  message as its sender made it, and the cards that read them while lookup tables load,
  change or are closed.
- **ChainPages**, **BlockCards** - both providers over one connection with the
  epoch schedule of the cluster; the tabs of a block.
- **AddressTabs** - an account is a record of what the layout asks of it; `lookups` are
  the SWR hooks of asset, proof, multisig, IDL and token; a switch renders the page once
  with the account of the other cluster. A page that is not found throws in the render,
  which is then not committed: no effect runs before the redirect (`Committed`). A url
  has one cluster here.
- **StakeActivation**, **ProgramCards**, **TokenCards**, **SearchBar** - the runtime's
  activation of a delegation against the code's; builds, multisig and
  security.txt; header, card, price and extensions of a token; the search control.

React is modelled the same way everywhere: a render is instantaneous, `ran`
holds the dependencies the effects last ran with, and while it differs from
what was rendered (`~EffectsDone`) the next step is the effects of the commit,
children first. Mount is `ran` being empty. Timers, answers and clicks are
taken to find the effects of the last commit done; Cluster and Accounts allow
answers and timers in between. Elsewhere this leaves out short gaps. In Stats an answer
between an error and the effects that stop the polling takes the error back; if both
infos lose it before the next render, the time-out that fired is not set again, and Try
Again followed by requests that hang spins on, which `ServicesSettle` does not see.
AddressTabs has the render between a switch and its effect.

A definition that begins "Mutant:" is a plausible bug of the definition after
it. It is not part of the specification; replacing the one by the other makes
the property PROJECT.json names fail.

## What the runs check

| Run | Bounds | What it shows |
|---|---|---|
| `cluster` | two named clusters and Custom, a valid and an invalid custom url, 3 attempts in flight, 3 navigations and toggles | `ShowsRequestedCluster`, `ConnectingIsInFlight`, `EventuallySettles`, and `ImplementsConnection` |
| `accounts` | 2 addresses in batches of 1, 2 urls, 2 calls, modes parsed and skip, 1 reconnection, 1 request besides the page's; or about 36 kinds of account on one of two urls, some on both, 11 tabs, 1 act and 1 failed lookup | `EntriesAnsweredByCacheUrl`, `FetchingIsInFlight`, `AddressIsTold`, `AddressSettles`, `ImplementsUrlCache` |
| `pages` | 2 urls, 2 fetches in flight per provider, 2 reconnections, 2 clicks; epochs 0 and 2, slots 5 and 12 of a cluster that warms up, 2 acts; pages of 2 transactions, 3 clicks | `LoadingIsInFlight`, `NotConnectedIsTrue`, `ChainIsTold`, `PagesSettle` |
| `histories` | pages of 2, a ledger of up to 4, 2 requests in flight of 3, 1 switch; or two token accounts with pages of 1, a ledger of 3, 4 calls, 1 failure, 2 presses | `RowsAreContiguous`, `MergedTableIsTrue`, `EarliestIsThere`, `HistoriesSettle`, `ImplementsUrlCache` |
| `transaction` | 2 urls, 2 polls and 2 details requests, bail-out after 2, 1 reconnection; or 5 texts, 4 acts and 3 fetches; 2 switches; 2 changes of lookup tables | `LoadingIsInFlight`, `IntervalMatchesPage`, `InspectedIsOfUrl`, `EnteredIsShown`, `MessageIsTold`, `PagesRest` |
| `account_cards` | pages of 2, epochs up to 4, 2 switches, 1 epoch that begins, 3 requests; stakes of 3 and 10 over 5 epochs; 4 programs with 5 answers of the registry, 2 acts | `RangeIsComplete`, `StakeIsTold`, `ProgramIsTold`, `CardsSettle` |
| `services` | 3 urls of 2 clusters, from the first of them in an open tab 1 switch (within the cluster or to the other), 1 change of the tab, 1 retry; or 12 accounts of tokens, 2 price requests, 3 acts; or 5 texts, 2 requests, 3 inputs | `StatsAreOfUrl`, `ErrorStopsPolling`, `TokenIsTold`, `SearchIsTold`, `ServicesSettle` |
| `instructions` | 1 or 2 instructions, a stack of 2, 3 lines or invocations by programs, logs cut early or never; 2 token accounts and 2 operations; 3 kinds of cargo and 2 runs; byte strings of the SDK's releases; every parsed instruction of 9 programs with all, the least, or one field missing or wrong, and 3 transactions of 2 instructions that call others | `RowsAreOfInstruction`, `TelemetryIsExact`, `PairedWithOwnEvent`, `ReplayTellsTheShots`, `SageInstructionIsTold`, `CardsTellInstructions`, `CardSettles` |
| `supply_still`, `history_full`, `transaction_details`, `rewards_more` | as above | a counterexample each, see below |

The bounds are where the cases of interest begin: two requests are the fewest
that can overlap or overtake, two urls the fewest for an answer to be foreign,
one switch mostly enough for every "before" and "after"; a ledger of twice the page
size is the fewest for a refresh that does not reach the rows, and one more
than it lets an old page arrive late; a bail-out of two with two polls in
flight makes the counter pass its limit. Rewards need two pages and an epoch 0 to end
at. The stats have two urls of one cluster because some effects depend on the
cluster and others on the url. Two token accounts with a transaction of both and
two of one slot are the fewest in which a merged row can be lost or doubled. Three
lines let SAGE log, invoke a program that
logs, and log again; two instructions let a line end up with the wrong one.
Every bound is a CONSTANT, and bounds
only forbid the user and the environment to do more, never an answer or an
effect (in Rewards, fewer epochs than a page begin): a call waits for a free slot before it begins.

**Fairness.** Effects are weakly fair: React flushes them. A request settles,
with an answer or an error: weak fairness of the disjunction. Timers fire. In
Stats the effects are weakly fair and the time-outs strongly, as a change of the
card sets them anew; intervals and answers are not fair at all. On
the transaction page the interval and the answers are strongly fair, because
effects come in between again and again, and so that not every single poll
fails for ever. Clicks, navigations, the connection and the ledger are never
fair; a liveness property that needs a connection says so in its premise.

**Where the code disagrees with what it says.**

- `supply_still`: "Update state if still connecting" (`supply.tsx:62`,
  `richList.tsx:67`). The state may be Connecting again for another fetch: the
  supply of the previous cluster is then shown as that of the new one.
- `history_full`: "Fetched full history" (`HistoryCardComponents.tsx:56`) stays
  after a refresh has replaced the rows by one page.
- `transaction_details`: "Details are not available" (`page-client.tsx:374`)
  stays for a transaction that was opened before it was confirmed.
- `rewards_more`: the rows of the card are keyed by epoch (`RewardsCard.tsx:60`),
  yet Load More may list epochs twice: `fromEpoch ? ... :` (`rewards.tsx:90`)
  takes an epoch 0 for none and begins with the newest page again.

Some things are as they are in the models without a run that shows them. A
cluster with less than one transaction per second times out although it
answers. A failed request of one epoch's rewards counts as an epoch without
rewards. An error of a request of the previous cluster stops the polling of the
new one. An attack that logged no event is shown with the event of a later
attack of its kind. The rows of a log that was cut may be shown with a
neighbouring instruction. A native program that misses the invoke line, fails
after it logged and comes after a precompile is not marked as failed.

Of the pages added later, in the same way:

- *Owned tokens.* Refresh loads older rows of every account whose history is not complete.
- *Rewards.* A page asked for before switching away and back can leave a hole in the
  range; `RangeIsComplete` speaks of behaviours without such an answer.
- *Blocks and epochs.* The last block of an epoch in progress is cached as its last.
- *Inspector.* A failed request for a raw transaction is never told. Clear during a
  pending replace is undone by it.
- *Simulator.* A late answer for another url or message sets the logs; Token-2022
  mints with extensions are read as token accounts; a mint from a lookup table
  gives a balance that is no number.
- *Messages and blocks.* Instructions whose lookup table was closed load for ever, and an
  index beyond the accounts throws; the accounts of a block are those of
  top-level instructions only.
- *Instruction cards.* An info of a created associated token account is not checked, and that of
  a lookup table only against the least of any type: one that lacks a row's field throws
  with no boundary around the card, so the runs give these cards whole infos only. The
  recipient of a closed table and the system program of a created one have no row, nor
  has the vote program's `initialize` a card. One IDL that is not answered keeps all
  cards waiting. The inspector rewrites the empty data of a create to one zero byte.
- *Address page.* A failed lookup of the asset is thrown by pages without a boundary; a
  failed IDL is cached as none; an uninitialized lookup table has a tab whose page
  redirects; one nested request that fails makes the account look unknown, and its
  pages redirect (`Lost`). The cache is cleared "whenever cluster is changed"
  (accounts/index.tsx:181), but in an effect, so the render of a switch decides with
  the account of the other cluster while the lookups by url are those of the new one
  already (SWR keeps them). With `/metadata` open, the asset of an account without
  metadata still asked for, a switch to the cluster that has the NFT, seen before,
  finds the asset answered there, no metadata in the old account, and redirects
  (MetaplexMetadataCard.tsx:10-17, ParsedAccountRenderer.tsx:31): the user leaves a page the
  account has. So it is with any page while a token is looked up, which hides the
  page until then. `KeepsPage` excepts these as `DecidesAnew`; every other redirect from the
  old account is refused by it, and without that disjunct `accounts` fails with this trace.
- *Programs.* A registry entry compared with another cluster's or version's bytes stays
  unverified in the cache; the multisig is asked for before the IDL and retried.
- *Token accounts.* The fee in force is labelled "Future", as the epoch is never given;
  a failed or late price request overwrites the newer price; a closed extension
  can be shown raw.
- *Search.* Options are cached by text without the cluster; one rejected lookup
  rejects all options; a cached text may be overtaken by a late answer.
- *Cargo.* An empty answer is cached for ever. *Star frame.* Two older layouts of one
  length are an error.

## What is proved

Every theorem is about the specification itself, for every value of the constants
that satisfies the named assumptions, and rests on an inductive invariant: the
lemma for `Init`, the lemma for a step with one case per action, and the lemma
that the invariant gives the property.

**`ClusterProofs`** - for every set of clusters, custom urls and attempts, assuming
that `None` is neither a target nor anything rendered: `TypeCorrect`,
`ConnectsToRequested` (`ShowsRequestedCluster`), `NoIdleSpinner`
(`ConnectingIsInFlight`) and `ProvidesConnection`, the refinement of Connection.
The invariant is `TypeOK /\ RenderIsCurrent /\ StateFollowsEffects /\
ConnectingIsInFlight`: what is rendered is what the state and the params give,
and the reducer's target is the one the effects last asked for. The second is
what makes a late answer harmless: its target differs from that of the state,
or it is an answer for the same target.

**`AccountsProofs`** - for every set of addresses and urls, every batch size, every
number of calls: `TypeCorrect`, `NoForeignAnswers` (`EntriesAnsweredByCacheUrl`),
`NoForgottenFetch` (`FetchingIsInFlight`) and `KeepsPromise`, the refinement of
UrlCache. The strengthening is `LeftInBatch` (what a call has left belongs to its
batch): a failing batch marks the whole batch, so an entry it leaves Fetching can
only be pending in a later batch or another call. The cache lemmas say what one
reducer step does to an entry; the refinement follows from the step lemmas.
`AddressIsAlwaysTold` (`AddressIsTold`) is about accounts of any kind, not only the 36
of the run: `LedgersAssumption` says what no account is (parsed and raw at once,
an authority without a loader, a compressed asset with data). `TabsInv` keeps the
cache to what its url answers; that links, tabs, pages, header and section then agree
is a case analysis over the kinds, and the action part (a page the account has is
not given up) one over the actions. It excepts `Lost` and `DecidesAnew`, not every
redirect with the account of the other cluster: a switch starts from a committed
render, which had not redirected, so the old account suits the page (`Decided`,
`SwitchDecides`), and unless the page had not yet decided (`DecidesAnew`) it is not left
in the render after the switch.

**`AccountHistoryProofs`** - for every page size, ledger and number of overlapping
requests: `TypeCorrect`, `Contiguous` (`RowsAreContiguous`) and `KeepsPromise`, the
refinement of UrlCache. The invariant says of every request whose page was read
that the page is the stretch of the ledger just below its `before`: then what
`combineFetched` joins is a stretch again, and what it does not join replaces it.
Of the table of all tokens: `TokenHistoriesHaveNoGaps`, `EarliestIsAlwaysThere`
(`EarliestIsThere`) and `MergedTableIsAlwaysTrue` (`MergedTableIsTrue`). `TokensInv`
says of each history that it is a stretch of the ledger's transactions of its token
(`IsStretch`), with a row unless its end was found. Above the oldest slot of the incomplete
ones no stretch can then miss a transaction, and the merge lists each under one mint.

**`TransactionProofs`** - of the transaction page, for any number of requests,
polls and reconnections and any bail-out: `TypeCorrect`, `NoIdleSpinner`
(`LoadingIsInFlight`), `IntervalMatches` (`IntervalMatchesPage`) and `KeepsPromise`
(both caches refine UrlCache). The strengthening: both caches are of the url the
effects ran with (`CachesAreOfRan`), a call finds a slot (`SlotsAreLeft`), and there is
nothing left to ask for once the effects ran (`NothingToAsk`); the interval is of
the url of the last effects as well. Of the inspector, for any texts, messages and
signatures: `InspectorTypeCorrect`; `UrlOfShown`, by `NothingLeftBehind`: whatever the
url and the data disagree about is being replaced or will be synced by the next
effects; `EnteredIsKept`, by what stays of an entry until it is shown;
`RawIsAskedFor` and `RawKeepsPromise` of the view of a signature, by `AskedIsOfCache`.
`InspectedIsAlwaysOfUrl` (`InspectedIsOfUrl`) and `EnteredIsAlwaysShown`
(`EnteredIsShown`) put them together with the simulator, whose `SimulatorInv` says
that where it spins the last simulation is under way at the url of the effect.

**`AccountCardsProofs`** - of the rewards, for every page size and any epochs, while
epochs begin: `TypeCorrect`, `RangeHasNoHoles` (`RangeIsComplete`) and `KeepsPromise`.
The invariant follows one page at a time: without a late answer the calls run one
after the other (`OneAtATime`), and the page of a call that has its epochs ends where
the range begins, or goes up to where the range ends (`NextPage`, `FirstPage`); the
lowest epoch of what the cache got is the one the card goes on from
(`OldestIsFound`). Of programs, for any programs, signers and answers of the registry:
`BuildAndMultisigAreAlwaysTold`, two of the three conjuncts of `ProgramIsTold`.
`ProgramInv` relates the three lookups; `KeptOf` says of the registry's entries that
they are as answered, or were compared with the bytes of the program on display.

**`TransactionLogsProofs`** - of the logs, for any number of instructions, any
depth of invocations and any limit (of at least three, in the units of the model):

- `DecodesExactly`, `LengthsDiffer`: `parseCombatTelemetry` accepts exactly the known
  kinds and versions at the length its reader consumes, and no length belongs to two.
- `TelemetryOfTheLog` (`TelemetryIsExact`). The invariant `IsRead`: until a line is
  left out, the stack of the reader is the stack of the runtime, so a data line
  is read with the program on top that wrote it; and once one is left out, no
  data line fits any more.
- `RowsOfTheLog` (`RowsAreOfInstruction`). `Started`: the loop never threw, and has an
  entry as soon as there is a line, as the first line always fits. `IsTold`: there
  is an increasing sequence `own` of instructions such that the k-th entry holds the
  lines, units and failure of instruction `own[k]` (`Tells`) and the depth the reader
  is at is that of the runtime (`Follows`). At the end each instruction takes its own
  entry (`EachTakesItsOwn`), and a failure that was not logged is counted to the
  instruction that failed (`CountedToItsOwn`).
- `AttacksAreShownTheirEvents` (`PairedWithOwnEvent`). The log keeps the order of the
  instructions (`Ordered`), the reader tells every event of a program and no other, in
  that order (`TelemetryTellsAll`); where each attack logged one, the events are as
  many as the attacks and in their order, so each attack takes its own
  (`PairedInOrder`, and by counting them `AllAreTaken`).
- `ReplayIsAlwaysTold` (`ReplayTellsTheShots`), for any combatants, any damage types and
  breakdowns and each version of the telemetry. `ReplayInv` says that a shot hits for at
  most its effective damage and that the event is the telemetry of this combat. The sums
  and the search for the dominant type are recursive functions over the types; `BestIs` says of
  the latter after n types what holds of the first n. `ToldIs` then reads the shot back
  from the texts, and `PrimaryIs` and `ReturnIs` give the texts of the two shots, or why
  there are none. Its assumption `Combat!ConstantsAssumption` is evaluated by
  the run `instructions`.

The readers are recursive functions over the lines. The library's induction
theorems cannot be instantiated, so these proofs go by the set of the numbers for which the
statement holds: `Induction` says of a set with 0 and every successor that it holds
all naturals, and follows from the least element `WFMin` gives to any other set.

**`PagesProofs`** - of supply and rich list, for every set of urls and fetches:
`TypeCorrect`, `NoIdleSpinner` (`LoadingIsInFlight`) and `NotConnectedIsNeverWrong`
(`NotConnectedIsTrue`). The strengthening is `NoDisconnectedWhenRan`: a state is not
Disconnected once the effects ran with a connection, since only the effects take it
there. Of the pages of an epoch and a block: `PagesOfChainAreAlwaysTold`, the first
conjunct of `ChainIsTold`, on every chain, for any window and any number of calls.
`ChainInv` says of each call what its requests have been answered so far, in view of
blocks that were confirmed meanwhile, and that once the effects ran the cache is of
their url. `ScheduleAssumption` says that a slot is not before the first of an epoch
exactly if its epoch is not before that one; `EpochsWithoutWarmUp` proves it of the arithmetic
of `epoch-schedule.ts` for clusters that do not warm up, and TLC evaluates it for one that does.

**`ServicesProofs`** - of the stats, for every set of urls and clusters: `TypeCorrect`,
`StatsOfTheUrl` (`StatsAreOfUrl`) and `ErrorsStop` (`ErrorStopsPolling`). The invariant
relates the fields to `ran.url`, the url of the effects that ran last, an error to
`active`, and what is in flight to `ran.active`: between a commit and its effects these
differ from what is rendered. `SearchIsAlwaysTold` (`SearchIsTold`), for any texts, tables and
calls: `SearchInv` says of the call, the cache of options, the loaded options and the
field whose text each is of; `ReadingAssumption` says what a text can be read as (an
address of digits only that no table lists is left out: it gets the options of a number
alone). `HeaderAndPriceAreAlwaysTold`, two of the four conjuncts of `TokenIsTold`:
`PriceInv` says that whatever asks for a price, or was told one, is of a mint that has one.

The assumptions are those the modules state by name; TLC evaluates each on a passing
run. Besides those named above: constants that stand for nothing (`NoData`, `None`) are
none of the values they are compared with, sizes and bounds are naturals, the kinds of
programs are disjoint.

Only model-checked:

- liveness, everywhere, and ENABLED: out of the prover's reach;
- `SageInstructionIsTold`: the decoder recurses over types of any depth (`RECURSIVE`),
  which excludes it from modules with theorems; the movements of cargo are folds over the
  balances, and the cache of promises beneath them has no theorem of its own yet;
- `CardsTellInstructions`: what a card tells is compared with the tables of its program,
  which are constants: the run goes through every type, and there is no more to prove;
- `MessageIsTold`, `BlockIsListed` of `ChainIsTold`, `SecurityIsAsWritten` of
  `ProgramIsTold`, the rows and extensions of `TokenIsTold`: each compares what is
  built by folds, sorting or filters of sequences with a reference, and what a fold
  computes for every input is an induction over data;
- `StakeIsTold`: the runtime's activation is defined by recursion over the epochs, with
  the code's division and rounding in each.

## What is not modelled

Rendering, formatting and logging; the parsing of account layouts (an account
is reduced to which form of its data exists); RPC semantics beyond "some answer
or an error"; the custom url box, which no flavor renders; the API routes (stateless
handlers), the cards that decode the bytes of Serum, Mango, Pyth, Wormhole, token
swap, lending, Lighthouse, Ed25519 and compute budget instructions (one layout each, and
no state), Anchor and the conversion of IDLs, flavors and build scripts. Of the scroll
anchors the registry's elements that are gone are not modelled, nor navigations within a
page, which arm the scroll again. Components with
status `not_modelled` in PROJECT.json carry their reasons. Of the runtime,
TransactionLogs has what the code tells apart; old runtimes that log two lines
for one failure are not in it (the depth of the code then falls below one).

## Plan

What is left: that the names on a card of cargo are of the game of its url, apart from
the movements; a reading of `stakeActivation` as a recursive function, so that its bounds (no more
effective than delegated) can be proved; the schedule of clusters that warm up, from
the powers of two; and models of the conversion of IDLs and of the metadata proxy.
