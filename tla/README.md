# Verification of the Telegram trading platform

TLA+ models of this repository's core, the TLC runs that check them on small instances, and TLAPS
proofs for every value of their constants: of every safety property the passing runs check, and of two
refinements. Paths are relative to the
repository (`src/`).

    tlc -config exec_sole.cfg MCTradeExecution      # a run: see the table below
    tlapm TradeExecutionProofs.tla                  # the proofs of a module: see section 6

## 1. The system

Signals posted in Telegram chats are stored, parsed, judged and, if they pass, traded on an OANDA
account. There is no server and no database: several Python programs (`main.py`, the `listen_*.py`
scripts, `import_telegram_history.py`) share JSON files under `data/`. Every file is read whole,
changed in memory and replaced; nothing is locked.

| Component | State it keeps | Operations | What makes it hard | Correct means |
| --- | --- | --- | --- | --- |
| Trade executor (`execution/trade_executor.py`, `controls/`, `execution/idempotency.py`, `reconciliation/broker_reconciler.py`) | none of its own; the execution store, the event store | `execute_trade` | the duplicate test and the record that blocks a duplicate are far apart; crashes and timeouts around the order; an exception handler that overwrites statuses | no order without a record and an event; no second order in the window of a record; no open trade that nobody is told about |
| Close executor (`execution/close_executor.py`) | the same files | `close_trade` with bounded polling | a close that took effect while the call failed; a lagging broker; two closers | CLOSED only of trades the broker does not show open; every close accounted for; every call ends |
| Execution store (`data/execution_store.py`) | `execution_state.json` | create, update, list unfinished | updates the *first* record of a request id; lost updates | a record describes its own order |
| Startup reconciler (`reconciliation/startup_reconciler.py`) | none | `run_for_account` | is only as good as the records | reports every trade that is not on record |
| OANDA broker (`execution/brokers/oanda.py`) | the account (external) | order, close, open trades, trade | answers that never arrive, arrive late or are not JSON; netting; GTC orders | external |
| Telegram ingestion (`ingestion/telegram/`) | offset file; pushed messages | poll, push, import | acknowledging before saving; three ways to see one message | stored once, never lost |
| Signal store, event store (`storage/`, `events/event_store.py`) | `signals.json`, `trade_events.json` | save, update, append | two files, one after the other | every event has its record |
| Channel intelligence (`decision/channel_intelligence.py`) | `channel_profiles.json`, the decision ledger | parsed signal, trade result, override, evaluation | the whole profile is saved from an earlier read; three ledger events afterwards | the grade fits the statistics; results count once; overrides stay |
| Decision engine, ensemble, strategy fusion, ML score (`decision/`) | none | `evaluate`, `fuse`, `score` | votes depend on order, age and source; the traded candidate is looked up again; two engines for one question | only tradable, fresh candidates are approved; the two engines agree |
| Risk engine, allocator (`risk/`, `capital/`) | none; a portfolio snapshot from the caller | `evaluate`, `allocate` | the snapshot is old when it is used; rounding and clamping | bounded risk per trade and in total |
| Pipeline (`orchestration/`) | none | `run` | the composition is the caller's | stages in order |
| Parsing, paper trading (`parsing/`, `paper_trading/`) | `paper_trades.json`, `trade_events.json` | `process_raw_signal`, `paper_trade_signal` | patterns over the whole text, in the order of the patterns | a paper trade is what the author meant |
| Backtesting (`backtesting/`) | none; candles from OANDA | `backtest_signal`, `run_for_source`, `score` | a candle hides the order of its prices; windows that are still going on | the verdict is what happened, and stays; the score does not flatter |
| Learning (`learning/`) | a memory its caller holds; the decision ledger | `build`, `ingest_outcome`, `evaluate`, `recommend`, `refresh_from_events` | results are rebuilt from five numbers; the layer reads the ledger it writes | both ways to a memory agree; advice is never the opposite of what is deserved |
| Routing, deployment, dashboard, other ingestion | see section 8 | | | |

How they interact: ingestion writes `signals.json` and `trade_events.json`; the executors write
`execution_state.json` and `trade_events.json`; the reconciler compares `execution_state.json` with
the broker. The decision side calls from stage to stage with immutable values, and channel
intelligence is called by the decision engine (a parsed signal) and with results of trades. All
calls are synchronous except Telethon's handlers.

## 2. Modules

| Module | Models | Uses |
| --- | --- | --- |
| `ExecutionStore` | records of `execution_state.json` and the operators that change them | |
| `BrokerBook` | the OANDA account as the requests and answers in `src/` show it (external) | |
| `OrderAuthority` | abstract: grants and the orders placed on them | |
| `MessageStore` | abstract: messages posted, stored and announced | |
| `TradeExecution` | `execute_trade` with crashes, timeouts and concurrent processes | extends `ExecutionStore`, instantiates `BrokerBook`, `OrderAuthority` |
| `CloseExecution` | `close_trade`, in the world (crew, faults, trades, retries) chosen at the start | extends `ExecutionStore` |
| `SignalIngestion` | the bot, the channel client and listener, the history import, the signal store | instantiates `MessageStore` |
| `ChannelIntelligence` | profiles, scorer, promotion rules, overrides, ledger | |
| `DecisionFlow` | decision engine, ensemble, strategy fusion, risk engine, allocator and the caller around them | |
| `SignalReplay` | candle window, `SignalBacktester`, `ChannelScorecard`, against a market that moves tick by tick | |
| `SourceLearning` | performance memory, evaluator, recommendations, training examples, around one ledger | |
| `SignalParsing` | `SignalParser`, `SignalProcessor`, `PaperRunner` and its store | |
| `Research` | the last three side by side | extends them |
| `MC*` | the instances that TLC checks | |
| `FiniteOrders` | lemmas: first and last members, counts and sums over finite sets, loops over lists | |
| `ExecutionStoreProofs` | lemmas: what the store's operations do to a list of records | `ExecutionStore`, `FiniteOrders` |
| `TradeExecutionProofs` | theorems: types, audit, duplicates, the refinement; what records say of trades, and the other way round | `TradeExecution`, `ExecutionStoreProofs` |
| `CloseExecutionProofs`, `SignalIngestionProofs`, `ChannelIntelligenceProofs`, `DecisionFlowProofs`, `ResearchProofs` | theorems about the module of that name | that module, `FiniteOrders` or `ExecutionStoreProofs` |

How state and actions correspond to the code:

* **File operations are two steps.** `ReadStore`/`ReadEvents` copy the file into the process's
  `view`; the step that follows (`ReplaceStore`, `AddEvent`, `SaveRaw`, `Save`) replaces the file
  with the changed copy. `os.replace` is atomic, so there is no torn store. Between the two any
  other process may act: lost updates are behaviours of the model, not an assumption. The offset
  file of the bot is different: `open("w")` empties it before it is written (`TruncateOffset`,
  `SetOffset`), so it can be torn.
* **One action per statement that matters.** `pc[p]` names the statement a process is at. In
  `TradeExecution`: `Submit` (up to the idempotency check), `Refuse`/`PassPolicy`/
  `CloseExistingFirst` and the closing loop, `CreateAttempt`, `AppendSubmitted`, `MarkSent`, one
  action per outcome of `place_order`, `MarkReceived`, `MarkResult`, `AppendOutcome`, the
  verification, and the handler (`MarkException`). A crash (`Crash`) loses the locals and keeps the
  files and the account.
* **What a broker's answer leaves out** is believed, as in the code. An answer without `trades`
  (`get_open_trades`) passes for an empty account (`Unaware`), any answer below 400 to a close counts as
  a close (`CloseExisting`, `BrokerDeclines`), and an answer without `trade` (`get_trade`) for a trade
  that is not open (`PollNotOpen`). Two variables that no program has remember whom this misled:
  `missed`, the open trades an executor took for not open, and `blank`, the calls of `close_trade` that
  got such an answer. Properties that fail only in that way name them.
* **A request that is refused before anything is written** (kill switch, duplicate) changes no
  state; its steps are left out of `Submit`.
* **Records carry the number `n` of their attempt**, which no JSON record has: it lets properties
  speak about the attempt a record was made for, where `request_id` may be ambiguous.
* **Events are sets** because each has a fresh id; the ledger of `ChannelIntelligence` is reduced
  to the newest grade it reports for a source.
* **Messages are sequences of words** in `SignalParsing`: a keyword, an instrument, or a level with its
  label and perhaps an `@`. That is what the regular expressions tell apart, once each has found its
  place; spellings (`S/L`, `STOP LOSS`, `TP1`) stand for one label, `ENTRY` for `ENTER` and `LIMIT`
  for `PRICE`, whose patterns stand at the same place in the order.
* **Candles are made from ticks** in `SignalReplay`. The program sees only the candles, the
  properties also the ticks: `RealStatus` walks the ticks and is written without the operators of
  the backtester, except for the window and the comparison of one price with the two levels.
* **Arithmetic.** Results of trades are whole multiples of R, scores hundredths of a point rounded
  down part by part; money is in whole units, multipliers in quarters. The comparisons are those of
  the code (`>=` where it says `>=`).

## 3. Runs

| Run | Question | States | Result |
| --- | --- | --- | --- |
| `exec_sole` | One process, all six faults, two attempts, a key repeated after the window: `OrderAudited`, `NoDuplicateInWindow`, `OpenTradesSurface`, `SettledForGood`, and the refinement `AuthoritySpec` | 475 k | holds |
| `exec_live` | One process that does not crash, exclusive policies, market orders, failing verifications, trades missing from answers, closes that close nothing, an operator editing `.env`: `OneOpenTrade`, `NoUnexplainedDrift`, `AttemptsSettle` | 629 k | holds |
| `exec_race` | Two processes lose each other's updates: `RecordsNeverLie` | 1.1 M | holds |
| `close` | Two closers of one trade with crashes, timeouts and blank answers, one closer of one and of two trades with all faults, one with timeouts, blank answers and a lagging view: `ClosedMeansClosed`, `CloseAccounted`, `EventHasRecord`, `ClosesSettle` | 461 k | holds |
| `ingest` | Three ingestors one at a time, or two of them together, crashes and failing writes: `UniqueSignals`, `OneCopyEach`, `PendingStored`, and the refinement `StoreSpec` | 42 k | holds |
| `channel_sole` | Six calls, cut off anywhere: `GradeCurrent`, `SuspendedStaysOut`, `ResultsCountedOnce`, `OverrideByOperator`, `LedgerAfterProfile` | 709 k | holds |
| `flow` | Two decisions in flight over three signals: `OnlyTradableTraded`, `RiskWithinBudget`, `ExposureBounded`, `OrderFree`, `FusionOrderFree`, `FusionFollowsEnsemble` | 184 k | holds |
| `research` | Replays over every price path of eight ticks, the memory of two sources over four results, messages of five words: `ReplayAgrees`, `VerdictFinal`, `ScoreNeverFlatters`, `MemoryTotals`, `AdviceSound`, `PaperAsMeant` | 567 k | holds |
| `exec_main` | `main.py` run twice: `NoUnexplainedDrift` | | violated, see 4.1 |
| `exec_kill` | The kill switch set while an executor runs: `KillSwitchBlocks` | | violated, see 4.2 |
| `ingest_ack` | The bot killed between offset and record: `AcknowledgedStored` | | violated, see 4.3 |
| `flow_stale` | A stale candidate with the winning opinion: `StaleIgnored` | | violated, see 4.4 |

Deadlock is not reported anywhere: every program here may stop, once the bound on its calls is
reached or because it was killed.

Each property that holds has a mutant, an operator with a plausible bug next to the definition it
replaces (`...OffByOne`, `...Skipped`, `...Dropped`), under which TLC finds the property violated.

### Bounds and why they are enough

* `exec_*`: at most two attempts (three in `exec_live`), `Window` 1, clock up to 2: the second
  attempt falls inside the window, on its inclusive end, or after it. Two keys and two requests of
  opposite sides make netting, and a shared or fresh request id, possible. Every property about
  orders or records relates two of them, so two attempts give it the chance to fail.
* `exec_race` keeps the clock at 0 and the one fault `timeout`; it is about lost updates, which
  need two processes in the file operations at once.
* `close`: `MCWorlds` has four worlds, and a behaviour keeps the one it starts in. Two processes
  with one trade, one poll and two calls; one process with every fault, two polls and either two trades
  and two calls or one trade and three; one process with two trades, timeouts, blank answers and lag.
  The last poll, the lag and a second close of a
  closed trade all occur. `CloseAccounted` and `EventHasRecord` are about the worlds of one process
  (`Sole`), `ClosesSettle` about those without crashes and failing writes (`Calm`).
* `ingest`: two messages, worth saving or not, seen by each ingestor before and after each other's
  restart. `together`, chosen at the start, says who may run at the same time: nobody, or the bot
  and the channel client (the import runs alone). Two suffice for the lost update and for the check
  that both pass. The other pairs are covered by the theorem `TwoCopiesAtMost`; with three at once
  `OneCopyEach` promises nothing (section 5).
* `channel_sole`: thresholds scaled down (2 signals, drawdown 2, streaks 1/2/3) so that six calls
  reach every grade, with results -1, 0 and 4 R. The order of the thresholds is that of the
  defaults. One source: profiles of two sources meet only in the file, which one process writes.
* `flow`: three sources, two symbols, both actions, all orders of three candidates; one candidate
  can get stale. Ages are a prefix of the pool: candidates are numbered as they were created. The
  limits are reached by two positions, so that two decisions in flight can overrun them. In this
  run channels are LIVE, and what is not tradable is not valid; `flow_stale` has PAPER and
  REJECTED channels too. A position blocks its candidate until it is closed: a repeat during the
  300 s window is the executor's business.
* `research`: a behaviour follows one of the three parts, which share nothing (`lane`). Replay: two
  signals out of four (with and without an entry, both actions, one with its levels on the wrong
  sides), posted before or after the first tick, so that one window of five ticks ends inside the
  eight; candles of two ticks; moves of -1, 2 and 3, so that a candle can hold both levels and a
  price can jump over an entry. Learning: results of -1, -1/2, 0 and 1 1/2 R, of which two are
  recent, so that made-up and forgotten results both count. Parsing: five different words out of
  twelve, in every order, enough for a complete signal,
  or one with a part missing, given twice or of another kind of message.
* `MaxAttempts`, `MaxTime`, `MaxPosts`, `MaxCalls`, `MaxSignals`, `MaxExpired`, the `calls` of a world,
  `MaxTicks`, `PostUntil`, `MaxOutcomes`, `MaxReviews`, `MaxWords` and `MaxPapers` are the only bounds;
  each is a guard of one action and no program has it.

### Fairness

* `TradeExecution`, `CloseExecution`: `WF_vars(Run(p))`. A call that has begun is straight-line code
  (the polling loop has `verify_retries` rounds) and each request has a timeout of 20 s. Nothing is
  assumed of callers, crashes, the clock, the broker or the operator. Liveness is claimed without
  the crash (`exec_live`, the calm world of `close`) and without a failing event store, because with
  them a record really stays unfinished.
* `SignalIngestion`: `WF_vars(Run(p))` for what the code does when nothing around it fails; failures
  (`Fail`) are possible and never required, and nobody has to start a process. `PendingStored`
  therefore says "stored, or the bot has stopped".
* The other modules have safety properties only.

## 4. Where code and documents disagree

1. **One request id for every run of `main.py`** (`exec_main`). `external_signal_id` is a constant
   (`main.py:78`) and becomes the request id; the idempotency key differs as prices move;
   `update_attempt` (`data/execution_store.py:72`) changes the first record of that id. The second
   run's trade is written into the first run's record and its own record stays `ATTEMPT_STARTED`,
   although `docs/production_readiness.md:24` wants no unexplained drift.
2. **The kill switch is read at start** (`exec_kill`). `docs/production_readiness.md:9` says it
   blocks execution; `BotControls` (`controls/bot_controls.py:6`) reads `os.environ`, filled from
   `.env` when the process started.
3. **A message may be acknowledged and lost** (`ingest_ack`). `poll_once` stores the offset
   (`ingestion/telegram/bot_listener.py:107`) before it handles the update;
   `docs/manual_e2e_validation.md:113` wants the raw message in the signal store.
4. **A stale candidate may be the one that is traded** (`flow_stale`). `_votes` leaves stale
   candidates out, `_representative` (`decision/ensemble.py:265`) does not;
   `tests/unit/decision/test_ensemble.py:92` is named `test_stale_signal_ignored`.

Seen while reading, without a run: `docs/manual_e2e_validation.md:39` expects `parse_status`
`VALID_SIGNAL` after the listener stored a message, the listener leaves `UNPARSED`;
`LiveTradingGuard` (`deployment/readiness.py`), which asks for `LIVE_TRADING_APPROVED`, is called by
nothing. For the same reason `run_for_source` finds no signal of a source that was only listened to,
since it asks for `VALID_SIGNAL` (`backtesting/signal_history_backtester.py:29`) and only
`SignalProcessor` writes that; `docs/manual_e2e_validation.md:119` expects the valid ones to be
simulated. With the defaults of `DecisionConfig` the base score of a valid signal is the threshold for
approval (0.5): no contribution, which is never negative, can turn an approval into anything else, so
an ensemble, a fusion or a model that disagrees changes nothing. No code under `src/` writes an event
with `realized_r` in its payload; `PerformanceMemory.build` depends on its callers for them. A paper
trade is stored once for every call (`paper_trading/paper_store.py:54`), with the signal's id each time.

## 5. Properties that hold only under a condition

The code has no lock, so several promises are those of one process at a time. The model has the
interleavings of several, and these are what breaks with two: `NoDuplicateInWindow` (both pass the
idempotency check), `OrderAudited` (a record or event is overwritten), `CloseAccounted`,
`EventHasRecord`, `UniqueSignals` and `StoreSpec` (hence their condition
`together = {}`, which `StoreSpec` has in its mapping; `OneCopyEach` says what is left of the first
with two: at most two records of a message. With three ingestors there is no such number: one takes
the message out again with a copy from before it, one puts all its records back, the third adds one,
and so on), `ResultsCountedOnce` and `OverrideByOperator` (a profile saved from an old read). What
survives two processes is checked with two: `RecordsNeverLie` and `ClosedMeansClosed`.
`NoDuplicateInWindow` measures from where the check does, the making of the first record: the order
itself may have gone out later than that, and two orders are then closer than the window.

Two depend on the broker's answers (section 2). Next to an open trade another is opened, in spite of
`CLOSE_EXISTING_FIRST` and `REJECT_IF_EXISTS`, if the older one was `missed`; `OneOpenTrade` says that
there is no other way. A call with a `blank` answer records CLOSED of an open trade; `ClosedMeansClosed`
says that no other call does, and none because of it. No document or test promises more of either.

Others need a configuration: `OneOpenTrade` and `NoUnexplainedDrift` need market orders (a resting
GTC order is no open trade and fills later without any record being updated), the second also a
process that does not crash; `RiskWithinBudget` needs multipliers of at most one and `minUnits` 1, since the
clamp to `min_units` and the multipliers come after the policy's cap; `OrderFree` needs one opinion
of each source. `FusionFollowsEnsemble` needs sources that speak once and fresh candidates: the fusion
has no rule for repeated or stale signals. (`FusionOrderFree` needs neither, since a tie is refused.)

Of the offline parts: `ReplayAgrees` leaves out signals whose candle of entry also holds one of the
levels, or whose entry is jumped over between two candles, and lets a loss stand for a win only when the
candle of the exit holds both (`ExitUnclear`); `ScoreNeverFlatters` also wants the levels on their
sides of the entry, because the R of a win is an absolute value. `MemoryTotals` has the wins and losses only of whole
results, `AdviceSound` says only that advice does not turn into its opposite once results are made up. `PaperAsMeant`
is about messages with one direction, one instrument and one level of a kind, and leaves the entry
open when an `@` stands in front of a stop or a target and no `ENTRY` does.

## 6. Proofs

The theorems hold for every value of the constants that satisfies the assumptions of the module
(`ConstantsAssumption`; `Research` has one for each of its parts). That of `ChannelIntelligence` wants
`minimum_signals` and `maximum_drawdown` positive: the scorer divides by them (lines 271 and 276), and
with 0, which nothing refuses, it raises before anything but a new profile is saved. The theorems hold for
any set of requests, keys, symbols, sources, settings and faults, any window, and any number of
attempts, calls or messages. What else a theorem assumes is a hypothesis in its statement and not an
assumption of its module, since the runs use the same specification without it.

| Module | Theorem | States | Under |
| --- | --- | --- | --- |
| `TradeExecutionProofs` | `TypeCorrect` | `[]TypeOK` | |
| | `SoleInvariant` | `[]IInv` | `SoleProcess` |
| | `EveryOrderAudited` | `[]OrderAudited` | `SoleProcess` |
| | `NoDuplicates` | `[]NoDuplicateInWindow` | `SoleProcess` |
| | `ExecutorImplementsAuthority` | the refinement `AuthoritySpec` | `SoleProcess` |
| | `RecordsHonest` | `[]RecordsNeverLie` | `UuidsOnly` |
| | `SoleRecordsHonest` | `[]RecordsNeverLie` | `SoleProcess` |
| | `OpenTradesAreSeen` | `[]OpenTradesSurface` | `SoleProcess` |
| | `SettledStays` | `SettledForGood` | `SoleProcess` |
| | `OneTradePerSymbol` | `[]OneOpenTrade` | `SoleProcess`, `OrdersAtOnce`, `NeverAdds` |
| | `NoDrift` | `[]NoUnexplainedDrift` | `SoleProcess`, `OrdersAtOnce`, `UuidsOnly`, `NoFaults` |
| `CloseExecutionProofs` | `TypeCorrect` | `[]TypeOK` | |
| | `ClosedIsClosed` | `[]ClosedMeansClosed` | |
| | `EveryCloseAccounted`, `EveryEventRecorded` | `[]CloseAccounted`, `[]EventHasRecord` | (`Sole(world)`, in the property) |
| `SignalIngestionProofs` | `TypeCorrect` | `[]TypeOK` | |
| | `MessageStoredOnce`, `EveryEventHasSignal` | `[]UniqueSignals`, `[]EventHasSignal` | (`together = {}`, in the property) |
| | `IngestionImplementsStore` | the refinement `StoreSpec` | (`together = {}`, in the mapping) |
| | `TwoCopiesAtMost` | `[]OneCopyEach` | (two at a time, in the property) |
| `ChannelIntelligenceProofs` | `TypeCorrect`, `ScoreRange` | `[]TypeOK`; a score is between 0 and 100 | |
| | `GradeFollowsProfile`, `SuspendedNotTraded` | `[]GradeCurrent`, `[]SuspendedStaysOut` | |
| | `EveryResultCountedOnce` | `[]ResultsCountedOnce` | `OneProcess` |
| | `OnlyOperatorOverrides`, `LedgerReportsStored` | `OverrideByOperator`, `LedgerAfterProfile` | `OneProcess` |
| `DecisionFlowProofs` | `TypeCorrect` | `[]TypeOK` | |
| | `OnlyTradable` | `[]OnlyTradableTraded` | |
| | `RiskBounded` | `[]RiskWithinBudget` | `PlainSizing` |
| | `LimitsHold` | `[]ExposureBounded` | `PlainSizing`, `SomeFlows`, a positive `Capital.policy` |
| | `EnsembleOrder`, `FusionOrder` | `[]OrderFree`, `[]FusionOrderFree` | `FiniteSymbols` |
| | `FusionFollows` | `[]FusionFollowsEnsemble` | `FiniteSymbols`, a positive `MinimumWeight` |
| `ResearchProofs` | `TypesKept` | `[]TypeOK` | |
| | `ReplayFindsTheTruth`, `VerdictsAreFinal` | `[]ReplayAgrees`, `VerdictFinal` | |
| | `NoSourceIsFlattered` | `[]ScoreNeverFlatters` | |
| | `MemoryKeepsTotals`, `AdviceNeverOpposite` | `[]MemoryTotals`, `[]AdviceSound` | |
| | `PaperTradesAreMeant` | `[]PaperAsMeant` | |

A theorem without an entry in the last column holds under every fault and for any number of processes,
where there are such. (What `ReplayAgrees` and its neighbours leave out, section 5 says; it is in the
properties.)

### The hypotheses

* `SoleProcess`, `OneProcess`: no two different processes. Section 5 says what breaks with two.
* `UuidsOnly`: no caller gives an id of its own. With several processes the honesty of records needs
  it: two attempts that share an id are told apart only by their places in the file, and a process
  that writes back an old copy moves them. One process needs no such thing (`SoleRecordsHonest`).
* `OrdersAtOnce`: no limit orders and no order that is carried out after its timeout; otherwise a
  trade may open when nobody is looking (section 5). What the broker does not tell is not excluded by a
  hypothesis: `OneOpenTrade` and `ClosedMeansClosed` name the trades and calls concerned.
  `NeverAdds`: no policy is `ALLOW_ADD`.
* `NoFaults`: a failing lookup of the verification is the one fault. Every other fault may leave the
  reconciler something to report; that it lists an open trade its record does not name is
  `OpenTradesSurface`, under all faults.
* `PlainSizing`: multipliers of at most one and a minimum of one unit, see section 5. A positive
  `Capital.policy` is a plain hypothesis: it stands for `RiskPolicy.max_risk_percent`, which nothing
  validates.
* `SomeFlows`: there are some decisions in flight, and finitely many. `FiniteSymbols`: a sum of
  weights over the opinions is a number.
* A positive `MinimumWeight`: the default of `minimum_weight` is 1.0. With 0, a candidate of a source
  that weighs nothing could be the ensemble's representative, while the fusion leaves it out.

### The arguments

None of the properties is inductive as it stands. The strengthened invariants are definitions of the
models, at the end of each module or before its properties, and TLC has checked each on the runs'
instances.

* **Trade executor, one process** (`IInv`). `ViewsFresh`: the copy a process holds is still what the
  file contains, so that replacing the file loses nothing. `InOrder`: records and orders are in the
  order of their attempts, and the attempt in hand is the last. `AttemptInHand`: before its record is
  made no record of its key blocks the attempt, and time only makes that more so; after that its
  record exists; after `AppendSubmitted` its event exists; before the order is placed there is none of
  it. `Spaced`: records of one key are more than the window apart, and no order is older than its
  record; `SpacedOrders` derives `NoDuplicateInWindow` from it. The steps are grouped by what they do
  to the files (`UpdateStep`, `EventStep`, `QuietStep`, `CreateStep`, `OrderStep`, `RestStep`), one
  lemma each. The refinement maps records to grants (`n`, key, time of creation) and the list of orders
  to the list of placements: `CreateAttempt` is `Grant`, the outcomes of `place_order` that reach the
  broker are `Place`, `Tick` is `Advance`, everything else stutters.
* **Records and trades** (`TruthInv`, `IdsInv`). An order only moves forward (`Grown`), so what was
  once true of it stays true enough: every record in the file, every record in any process's copy, and
  every answer a process is about to write (`Told`) is honest. `IdsInv` says that an id is that of the
  attempt, so that `update_attempt` hits the attempt's own record in whatever copy; with one process
  `CopyInUse` and `InOrder` do the same for shared ids. `SurfaceInv` follows the attempt in hand: until
  its answer is written its record is unfinished or says EXCEPTION, wherever the attempt is cut off.
  `NamedInv`: a record names a trade only under the request id of the trade's own attempt, so that a
  trade its record does not name is unknown to the reconciler. `OneInv`: past the policy
  nothing is open on the symbol but what was missed, and while the old trades are being closed what is
  open is on the list or was missed. `DriftInv`: an unfinished record belongs to an attempt that is
  under way, and a trade that no record names to one whose answer is in hand.
* **Close executor**. `CloseInv`, any number of processes: no step of anyone opens a trade again, and a
  call that was misled stays one, so a CLOSED once found (`Found`) or copied (`CopiesTrue`) stays
  justified (`MaySayClosed`). `SoleInv`, one process: the copy is fresh, and `CallInHand` says what is on record at each step of a call.
* **Ingestion**. `AloneInv`, one at a time: at most one is up, its copies are fresh, and the answer to
  `exists()` holds until the record is appended. For the refinement `WorthInHand` adds that what is
  saved was posted and has a text: `SaveRaw` is then `Store`, `Announce` is `Announce` of a stored id,
  a post with a text is `Post`, and every other write puts back the ids it found. `EveryEventHasSignal`
  is the invariant that this needs of the events. Two at a time: `CopiesBounded` counts the records of a
  message in the file and in the two copies, next to who is about to add one (`Adding`), has the copy
  to add it to (`Writing`) or is about to write a copy back (`Carrying`). A step of one of them is one
  of six moves in this game of numbers (`Turns`), and no move leaves the bounds as long as only one
  other plays (`TurnBounded`).
* **Channel intelligence**. `GradesInv`, any number of processes: the grade of every profile in the
  file, in a copy or in hand fits that profile's own statistics, so that writing back an old profile
  loses results and never leaves a wrong grade. `NothingStale` and `CountInv`, one process: the profile
  in hand is the stored one, and the difference between calls begun, results counted and calls returned
  is the call in hand.
* **Decision flow**. `JobsInv` and `BudgetInv` follow a decision from its approval to its order;
  rounding down, the cap and the clamp are arithmetic. `ExposureInv` reserves the policy's amount for
  each decision in flight (`Reserved`), which turns the checks against an old snapshot into a bound
  that every step keeps: by the time a decision passes, the others have been reserved already. Of the
  engines: a tally of votes is the same for every order of a list; at most one opinion outweighs all
  others; the first of the heaviest groups is that opinion if there is one, and if there is none, the
  conflict tests refuse.

* **Learning** (`LearnInv`). The memory of a source has the number and the sum of its results in the
  ledger; the events the layer writes itself are no results (`OwnEventsFit`), so neither way to a
  memory counts them. The hard part is `ValuesFit`: the values made up from five numbers have the
  stored number and sum, whatever the last of them takes up, and give back the wins and losses if the
  sum is that of whole results. `Plausible` (the recent results are all of them while there are few)
  is what the advice needs besides, and does not follow from the totals.
* **Parsing and paper trades** (`DeskInv`). The signal in hand is what `Parse` makes of the message, and
  every paper trade repeats it. What a pattern finds is the level of a place it matches
  (`LeadingLevel`); in a plain message a kind of level has one price (`OneLevel`), so whichever pattern
  comes first finds the author's.
* **Backtesting** (`ReplayInv`). The candles follow each other, all but the last are complete, and each
  has the least and the greatest of its own ticks. `LoopFinds` says what the loop of `backtest_signal`
  computes: the outcome of the first candle that decides. `VerdictFinal` follows since a step adds
  candles to the window only after those that are in it (`WindowGrows`). For `ReplayAgrees` candles are
  compared with ticks: a candle has the entry between its low and its high only if one of its ticks is
  there or jumps over it (`EntryReached`, a discrete intermediate value theorem), it reaches a level
  exactly if one of its ticks does (`LevelsReached`), and the candles that end a trade are those in
  which a tick ends it (`ExitsDecide`). `ScoreNeverFlatters` adds up `ResultBelow`, signal by signal
  (`ScoreBelow`).

Sums and tallies are defined by recursion over finite sets (`MapThenSumSet`, `SumFunctionOnSet`).
`FiniteOrders` proves what is needed of them from a form of induction that the provers can use: a set of subsets of a finite
set that contains the empty set and, with a set, the set with one more member, contains all subsets
(`SubsetInduction`). From it the function behind a sum exists (`SumsExist`), does not depend on the
order (`SumsAgree`), grows with the set (`SumsPart`, `SumsGrow`) and keeps its value when the members
are renamed (`SumsRenamed`); the same for sums of the values of a function (`SumMember`, `SumBelow`,
`SumOfWholes`). In the same way `PlaceInduction` goes through the places of a list, and `LoopExists`
shows that a loop over a list, a function that computes each round from the one before, exists and
obeys its equation.

### What the proofs found

* `OneCopyEach` used to say that there are never more records of a message than ingestors that run
  together. For three that is false, which the attempt to find its inductive invariant showed and TLC
  confirmed (four records, and no bound). It is now stated for two.
* `FusionFollowsEnsemble` needs a positive `MinimumWeight`.
* Several definitions used a CASE whose guards overlap (`Parsed`, `ChannelMultiplier`, `ParseStatus`,
  `RealStatus`). TLC takes the first, the semantics of TLA+ any; the code has `if`/`elif`, and so have
  the definitions now.
* The learning, parsing and replay modules used to pick with `SelectSeq` and `FoldLeft`, of which a
  proof can say nothing. They now speak of the set of places that match and its first member, and of
  one recursive function for the loop, which is closer to the code as well (`re.search` finds the first
  place).
* `IngestionImplementsStore` needed more than the invariants checked before: that a message about to be
  saved was posted and is worth it, whichever of the three fetched it (`WorthInHand`).
* `EnsembleOrder` needs no condition on the weights, and `LimitsHold` none on the number of positions.

### Only model-checked

The liveness properties `AttemptsSettle`, `ClosesSettle` and `PendingStored`: the installed provers do
not reason about fairness and ENABLED. The four violated properties are counterexamples and need no
proof. Everything else the runs check is proved.

## 7. Plan

Done, in this order: `ExecutionStore`, `BrokerBook`, `OrderAuthority`, `TradeExecution` and its first
theorems; `CloseExecution`; `SignalIngestion`; `ChannelIntelligence`; `DecisionFlow`, then with strategy
fusion and the advisors' scores; `SignalReplay`, `SourceLearning`, `SignalParsing`; `MessageStore`;
the theorems of section 6.

Next, model:

1. one composed run of `CloseExecution` with `TradeExecution` as `main.py` has it: open, verify,
   close;
2. the paper broker as a second implementation of `BrokerBook`.

The twelve runs are each about one question. A new module should replace or join runs rather than
add to them: the shorter runs of one module fit into one instance once their properties are
settled.

## 8. Not modelled, and why

* **Text** (`parsing/`): white space, spellings and numbers as characters, and `entry_type`, which
  nothing modelled here reads.
* **ML model** beyond its score: shadow predictions, calibration, drift and training reports are
  written down and decide nothing.
* **`PaperBroker`** (`execution/brokers/paper.py`): a dictionary in one object that fills every order
  at once; `create()` makes a new one for each caller.
* **Allocations with given units** (`_legacy_allocate`) and the causes of the allocator's other
  multipliers (mode, confidence, strategy, volatility, portfolio), which are off by default.
* **Routing**: a lookup in a configuration file; the models have one account.
* **Deployment readiness**: nothing in the running system calls it.
* **Dashboard, logging, other ingestion, contracts, price and candle requests**: read-only views,
  conversions and I/O without control flow of their own.
* **Daily, weekly and drawdown limits**: the portfolio snapshot brings these numbers along; a refusal
  for one of them is `RefuseRisk`.
* **Partial fills**: the code reads `tradeOpened.tradeID` and not the units, so a partial fill is a
  fill.
