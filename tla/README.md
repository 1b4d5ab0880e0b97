# A verification project for crypto_quant

crypto_quant collects market data from an exchange (REST and WebSocket), cleans
and stores it, computes indicators, and back-tests trading strategies; a Python
API starts back tests through bindings. This directory holds TLA+ modules that
model its core, the TLC configurations that check them, and proofs checked by
TLAPS. `PROJECT.json` lists the components, the runs, the source lines each
definition stands for, the hazards and the theorems.

Run a configuration with `tlc -config <name>.cfg <module>.tla`, a proof with
`tlapm <module>.tla`.

## Inventory

| Component | State it keeps | Operations | Interacts with | What is hard | What makes it correct |
|---|---|---|---|---|---|
| Back-test engine (`cpp/src/backtest/backtest_engine.cpp`) | strategy pointer, data, result (counters, trade list, equity curve) | `set_strategy`, `set_data`, `run`, `process_signal`, `get_result` | calls the strategy for every bar; filled in by the bindings | order of calls in the loop; what survives from one run to the next | curve valued at the close; trade list explains the cash; counters agree with the trade list |
| Strategy base (`cpp/src/strategy/strategy_base.cpp`) | cash, initial cash, one position, trade list | `on_init`, `open_position`, `close_position`, `update_position_price`, `add_trade`, getters | base class of strategies, driven by the engine | silent refusals, uninitialised members, partial reset | cash and position change together; no overdraft |
| MA crossing strategy (`cpp/src/strategy/ma_cross_strategy.cpp`) | bounded price history, last two values of two averages, last signal | `on_bar`, `generate_signal` | indicators, its base's position | bounded history against long periods; caches; two filters that must agree | decides as if it saw the whole history |
| Technical indicators (`cpp/src/indicators`) | none | averages, MACD, RSI, extracting series | strategy, bindings | index arithmetic, periods at the boundary | each function equals its definition |
| WebSocket client (`cpp/src/websocket`) | resolver, stream, buffer, `connected_`, `should_stop_`, callbacks | `connect`, `disconnect`, handlers for resolve, connect, TLS, handshake, read, close | an `io_context` run by another thread; user callbacks on that thread | interleaving of main and IO thread; shutdown; lifetime; dead peers | one read armed; stop takes effect; the program ends |
| Performance analyzer (`cpp/src/analysis`) | risk-free rate | metrics of a curve and a trade list | engine's result | units, empty and constant curves | a drawdown, a streak or a holding period is what its name says of the run |
| Kline storage (`cpp/src/storage`) | CSV files | `save_ohlcv` | collector, cleaner | crash between header and rows, concurrent writers, repeated batches | every file has one header, at its top, and every save's rows once each |
| Data cleaner (`cpp/src/cleaners`) | rules, some with a memory | `clean_*`, `deduplicate`, `fill_missing_data` | collector, storage | rules that remember, rules that reject, their order | a rejected bar leaves no trace; each candle once |
| Normalizer and types (`cpp/src/normalizers`, `cpp/include/common/types.h`) | none | conversions | collector | time frames, integer widths | conversions are inverse where they claim it |
| HTTP client, Binance collector (`cpp/src/collectors`) | session per request | `get_klines`, `get_ticker`, `get_orderbook` | exchange | errors that look like answers, partial parses | an error never becomes an `Ok` |
| Configuration manager (`cpp/src/config`) | parsed configuration | `load`, getters | collector | an exception half-way through a block | what was read is what is used |
| Python bindings, REST API (`cpp/bindings`, `python/api`) | none across requests | one request, one engine | all of the above | object lifetimes, errors turned into the wrong status | a bad request is answered as one |
| `python/websocket_stream.py`, `scripts`, `docker`, `third_party` | – | – | – | demonstration, deployment and vendored code: not modelled | – |

The hazards in `PROJECT.json` name, line by line, what is hard to test here and
the properties that cover it.

Modelled: the back-test engine, the strategy base, the crossing strategy, the
performance analyzer, the storage and the configuration manager. Partly: the
indicators, the collector with its HTTP client, the cleaner, the normalizer and
the types (what the programs call of them), the programs that compose these, and
the WebSocket clients. `PROJECT.json` has the status and the reason of each.

## Modules

| Part | Modules, in the order they extend each other | Properties | Abstract | Instances | Proofs |
|---|---|---|---|---|---|
| Back test | `TechnicalIndicators`, `StrategyBase`, `MACrossStrategy`, `BacktestEngine` | `BacktestProperties` | `MACross` | `MCBacktest` | `BacktestProofs`, `StrategyProofs` |
| Analysis | `PerformanceAnalyzer`; `Indicators` | `AnalysisProperties` | | `MCBacktest` | `AnalysisProofs`; `StrategyProofs` (indicators) |
| Collection | `MarketTypes`, `KlineStorage`, `ConfigManager`, `BinanceCollector`, `DataCleaner`, `Collection` | `CollectionProperties` | `KlineTable` | `MCCollection` | `CollectionProofs` |
| WebSocket | `WebSocketClient` | `WebSocketProperties` | | `MCWebSocket` | `WebSocketProofs` |

`Selection` has the one operator the analysis and the cleaner share, `chosen`:
what a loop that appends under a condition leaves in a vector. `DataInduction`,
`FoldLemmas` and `ChosenLemmas` hold the lemmas about sequences that the proofs
rest on.

Operators called "Mutant" in a module are variants with a bug that a definition
of it could have; nothing in the specifications uses them. They are there to
show, one per property of a passing run, that the property notices the bug.

### Back test

The specification composes the three classes as the code does: the strategy is
its base class plus members, and the engine calls it. `run()` is
single-threaded; its position is `pc`, and each call it makes is one action:

| Code | Action or operator |
|---|---|
| `BacktestEngine::set_strategy` (with the strategy's constructor), `set_data` | `set_strategy`, `set_data` |
| `run`: early return; `on_init` and the initial point | `run_refused`; `run_begin` |
| `run`: `on_bar`; `generate_signal` and the test of its result | `run_on_bar`; `run_generate_signal` |
| `process_signal`, the two branches | `process_buy`, `process_sell` |
| `run`: repricing and recording; the summary | `run_record`; `run_end` |
| `on_bar`: history, `update_ma`, repricing | `remember`, `latest_two`, `on_bar` |
| `detect_cross`; `generate_signal`, result and effect | `detect_cross`; `generated_signal`, `generate_signal` |

Data: money, prices and quantities are integers, where the code has doubles. A
quantity counts lots, so a division rounds down; rates are integers over
`RateScale`. Moving averages are represented by their window sums and compared
after multiplying with the other's period, which is exact. Rounding of doubles
is therefore not modelled. `HistoryMargin` is the 10 of `slow_period + 10`. The
members no constructor initialises start with any value of `Uninitialised`.

`MACross` is the abstract strategy: it looks at every close so far and at
whether a position is held, with no window, no cache and no memory of signals.
`BacktestProperties!ImplementsMACross` maps the engine to it (`closes` are the
bars whose signal was acted upon) and is checked as a refinement.

### Analysis

`PerformanceAnalyzer` has one operator per function of the class, and `analyze`
puts them together as the code does; `Indicators` has the averages, the MACD and
the RSI. They are pure functions, so they have no state of their own: the
properties apply them to what every back test of the instance leaves, its data,
its equity curve and its trade list. Rates are integers over `ReturnScale`. A
root is not taken: a deviation is kept as its square and a ratio by a deviation
as the pair of its two parts; an annualised return is the pair of the growth and
the span it is the power of. `EPSILON` is the analyser's tolerance: a trade whose
profit or loss is not beyond it counts as neither (`won`, `lost`), and an average
loss below it gives no ratio. The engine has no tolerance and counts by the exact
sign, so the two differ by the trades in between, `Negligible`;
`AnalysisAgreesWithSummary` says that they differ by nothing else. The code's
tolerance is 1e-8 against prices of any size; in the model it is a constant in
units of the scaled money, so that the difference is there to be seen. The properties compare each figure with what its
name promises, written another way: the drawdown with the worst pair of points
of the curve, the streaks with the longest intervals of like trades, the holding
periods with the round trips, a MACD value with the averages of the prices up to
its bar, the RSI with the move of the close.

### Collection

The programs `test_binance_collector`, `test_data_cleaner` and the fetching part
of `test_strategy` are processes that share a data directory and one
configuration file. Nobody in the repository calls `get_ticker` or
`get_orderbook` (the calls in `test_binance_collector.cpp:98-171` are comments):
the program "quote" is a user from outside that does, external like the exchange.
A process loads the configuration, asks, waits, parses,
cleans, and saves; `at` is where it is.

| Code | Action or operator |
|---|---|
| `ConfigManager::load`, `get_binance_config` | `load_config`, `load_config_fails`; `extracted`, `filled_from` |
| `HttpClient::get`: URL; sending; the outcomes | `refuse_url`; `send_request`; `exchange_answers`, `connection_breaks`, `request_times_out` |
| `get_klines`, `get_ticker`, `get_orderbook` | `parse`, with the operators of those names |
| `main()`: giving up; the second request; saving | `give_up`; `ask_for_book`; `save_collected`, `save_cleaned` |
| `clean_ohlcv_batch` and the rules' `apply`; `deduplicate` | operators of those names |
| `KlineStorage::KlineStorage`; `save_ohlcv` | `construct_storage`; `save_check`, `save_open`, `save_returns_false`, `save_header`, `save_row`, `save_returns_true` |
| a failing write, the end or the death of a process | `write_fails`, `exit`, `crash` |

Between two steps of one process the others run, so `save_ohlcv` is as many steps
as it has system calls: the test for the file, the open, one write per line
(`std::endl` flushes). A file is a sequence of lines, each a header, a row, a
line without its end (`Torn`) or what another line glued to that (`Garbled`).
A crash is possible everywhere and loses the memory of the process; a write may
fail with nothing or a part of its line written, and as nobody tests the stream
the save goes on and reports success. `spoiled` is a history variable: the files
whose creation was disturbed, that is, two saves found no file, or a save met one
between its creation and its header, or the creator died or failed there.

The configuration is a record of values and the place of the first ill-typed
field. The code's `catch` returns the struct as far as it was filled: strings
are then empty and numbers hold anything (`Uninitialised`). A reply is a status
and a kind of body; a candle is a record of small numbers, or `Malformed`, which
makes the parsing throw. An item that is a too short array is not among the
answers: it is read past its end without a check (`BinanceCollector.cpp:66-77`),
and of what that may do the model has only the end of the process, `crash`. What
a timestamp that does not fit an `int` becomes is computed modulo `IntRange`.

`KlineTable` is the abstract storage: per path a table of rows that only grows,
to which a save adds its rows once each and in order, and the one thing that may
cost rows, a damaged end. `ImplementsKlineTable` maps the files to it by leaving
out headers and damaged lines.

### WebSocket client

`main` is the main thread of `test_websocket.cpp`, and of the programs one gets
from it by three habits (`Callers`): insisting on `is_connected()` before going
on, polling it after `disconnect()`, and having other work on the
`io_context`. `io` is the thread in `io_context::run()`. An asynchronous
operation is in `pending` from its initiation to the start of its handler.
Where the code reads or writes an atomic flag in the middle of a function the
other thread can interfere with, the function is split: `disconnect()` into
`disconnect_check`, `disconnect_set_stop`, `disconnect_async_close`; `on_read`
into `on_read_message`, `parse_message`, `on_read_check_stop`, `do_read`. The
transport (`link`) and the exchange (`peer_*`) are external. Every setup step
may fail (a time-out is a failure). The destructor is `destructor_leads_to`: it
calls `disconnect()`, which on a client that still counts as connected asks
`shared_from_this()` of an object whose last owner is gone; the exception
leaves a destructor, and the program is terminated.

What a message does is one of two actions. `parse_message` is one that is used,
passed over, or makes the parser throw: the catch of `parse_message` swallows the
exception and the read loop goes on. `parse_message_dies` is a kline or a ticker
that lacks a key: `parse_kline_message` and `parse_ticker_message` index a const
json with `operator[]`, which does not throw then but asserts, or is undefined in
a build without assertions; the process ends ("died"). What else undefined
behaviour might do is not modelled. The properties of the client are about a
process that lives, and those that promise an end accept this one.

## Runs

| Run | Asks | Result |
|---|---|---|
| `backtest` | one run, every data set up to 4 bars over 5 closes and up to 7 bars after two lowest closes, fast 1, slow 2, and its analysis and indicators | all properties hold, and the refinement |
| `backtest_edge` | two runs of one engine, fast = slow + margin | the curve starts anew, trades and counters accumulate together; still implements `MACross` |
| `backtest_silent` | fast = slow + margin + 1, which the constructor only warns about | never trades |
| `backtest_commission` | does the commission reach the capital? | no: violated |
| `backtest_position_size` | is `position_size` used? | no: violated |
| `backtest_rerun` | does a second run with the same strategy start its curve at the equity? | no: violated |
| `websocket` | every habit of the program, a peer that sends, closes or dies, a message that ends the process | all properties hold |
| `websocket_terminate` | does the test program return? | no: `std::terminate` |
| `websocket_early` | does `disconnect()` hold while connecting? | no: violated; it does after the wait for the connection (`DisconnectIsFinal` in `websocket`) |
| `collection` | two collecting programs, an exchange that answers anything or nothing, a crash or a full disk, broken configurations | all properties hold, and the refinement |
| `proxy_disabled` | is a proxy that is not enabled left alone? | no: violated |
| `websocket_out_of_work` | does `is_connected()` become false after `disconnect()`? | not if the IO thread ran out of work |

What the properties say, and why they are not obvious, is in the comments of
the four modules of properties.

Bounds. With fast 1 and slow 2 an average and a crossing need 3 bars. The history
keeps 3 closes, so what a run does from bar 4 on is a matter of the last closes,
and a data set that begins with two lowest closes buys at its first rise and has
bars left for two round trips: the data sets are all those of up to 4 bars, and
all those of up to 7 that begin so (`MCFlatStarts`). With five closes (100, 130,
137, 170 and 200) and a tolerance `EPSILON` of 2500 a round trip may end with a
profit or a loss, within and beyond the tolerance, and one run may have both; two
losses in a row occur, two profits in a row would take 8 bars. There are averages
that are equal, above and below. The edge run needs
4 bars for its first crossing and 5 for a SELL, and has 6. `MaxRuns` bounds the
calls of `run()`: two show everything that can survive into a run. The capital
is large against the prices, so a BUY always gets a lot, as it does with
doubles. Two messages are enough for one before, one during and none after the
stop: the proofs below hold for any number.

The 7 bars also give the analysis curves that rise, fall and return, with gains,
losses and ties. The MACD and the RSI are computed
with periods 1 and 2, which have a seed and smoothed values. The collection run
has two processes and two starts: two saves to one file, or a save after one that
crashed; three starts, which take minutes, show nothing else. One fault
(`MaxFaults`) is a crash or a failing write at any step. The cleaner gets every batch of
up to 3 (`MaxLimit`) of the 6 candles: plain at two times, with a jump, a second
copy, without a close, above its high. The invalid ones have the time of a valid
one, so that a rejected first copy is followed by a valid second one. With a volume history of
2 bars and a threshold of 1 the history overflows and stands out within a batch.
`JumpPercent` is the 30 of `test_data_cleaner`. `IntRange` 8 makes a time
or an id of 9 wrap. The configurations have each of the four first fields
ill-typed in turn, a missing directory, one that cannot be created, a disabled
proxy, and a file that is no JSON; `Setups` pairs each of them with every kind
of program but the cleaning one, alone, and the complete configuration with two
collectors or with the cleaning program.

Fairness. The back test is checked for safety only. In `Collection` each process
is weakly fair for its own steps, among them the time-out of a request, because
the system schedules it and the HTTP client bounds each wait with the configured
time-out; the exchange owes nobody an answer, and neither starts, crashes nor
failing writes are fair. A negative time-out, which an ill-typed configuration
can leave, waits for ever: `ProgramsEnd` excludes exactly that field. A time-out
bounds each receive, not the whole request; a peer that sends a byte now and then
for ever is not modelled. In `WebSocketClient` both
threads are weakly fair (the operating system schedules them, and
every operation under way on the IO thread ends: the setup steps and the close
have time-outs, a read is only counted as able to end when there is a message or
the transport is closed). The user's interrupt and the peer are not fair: nobody
owes a Ctrl+C, a message or an answer. Deadlock is not checked: a finished back
test and an ended program stop.

Results worth knowing. `disconnect()` lets at most one more callback through.
A program that polls `is_connected()` after `disconnect()` only ends if it had
waited for the connection and something keeps the IO thread running;
`ShutdownCompletes` states this exactly. `disconnect()` followed at once by
`io_context::stop()`, as in the test program, ends in `std::terminate` unless
the close completes first. The commission is never charged to the capital, and
`position_size` is never read. The analyser and the engine do not agree on what a
profit is: one has a tolerance, the other has not. The collector uses a proxy by its host and port,
which always have defaults, and not by `proxy_enabled`.

Noticed in the code while modelling, without a run of their own:

- A kline or ticker that lacks a key is not an exception but a failed assertion
  or undefined behaviour (`binance_websocket_client.cpp:106-117`, `:154-160`), and
  the comment with the format of a kline (`:81-99`) has no `q`, which `:114` reads.
- A candle that is a too short array is read past its end
  (`BinanceCollector.cpp:66-77`).
- `extract_close_prices` pushes the open (`technical_indicators.cpp:188`).
- A SELL records the quantity 0, where `strategy_base.h:37` has the traded one.
- `save_ohlcv` returns true after a write that failed; the next save continues
  the half line that may be left.
- The order book made of an error object is `Ok` and empty; the depth answer of
  the spot market has no `T`, so the cleaner rejects each one; `lastUpdateId` and
  `T` are read as `int`.
- An interval without a timeframe ("3d") is labelled `1m` in the file of "3d".
- `clean_ohlcv` reports GOOD for a bar it marks SUSPICIOUS; `fill_missing`
  returns its input; the volume rule with a threshold not below the history's
  length can never fire.
- The retry and rate-limit blocks of `binance.json` are never read.
- The annualised return and the trade frequency divide milliseconds
  (`types.h:11`) by the seconds of a year (`performance_analyzer.cpp:133`,
  `:437`); the volatility documented as annual (`performance_metrics.h:21`) is
  that of one bar.
- The RSI of a series without a loss is 99.01, also for prices that stand still,
  and a first tiny loss can raise it; `calculate_macd` with fast > slow leaves
  the bounds of a vector. (Its offsets are those of the periods; `aligned` takes
  the difference of the lengths, which is the same for fast <= slow.)

## Proofs

Every safety invariant and action property a passing run checks, and both
refinements, are theorems:
the run shows the property on a small instance, the theorem for every value of
the constants that satisfies the assumptions of the modules.

### Induction over data

The provers cannot use a theorem that takes an operator as a parameter, so the
induction theorems of the library are out of reach. `DataInduction` replaces
them by a fact about sets: a non-empty set of naturals has a least element
(from `WFMin`), hence a set that contains 0 and with each n also n + 1 contains
every number (`SetInduction`), and a recursively defined function is the function
it was meant to be. `FoldLemmas` derives what `FoldLeft` returns on an empty
sequence and on one with an element more, `ChosenLemmas` does so for `chosen`
(type, count, all, none). Both are modules with a constant operator; a proof
module instantiates them once per loop of the code (`Cleaning`, `Uniting`,
`ValidBars`, `RowLines`, ...), so the operator is fixed before a prover sees it.
What is proved by this about data is true of sequences of any length.

### Back test

`BacktestProofs`: type correctness with the bound on the history
(`TypeCorrect`), `SignalsAreExecutable`, `TradesDoAlternate`, `NeverOverdraws`,
`SilentBeyondWindow`, `CurveMarkedToClose`, `SummaryDoesAgree`,
`MemoryMatchesPosition` and `LedgerDoesReplay`. The arguments: a signal executes
because `held_back` tests the position and nothing changes it before
`process_signal`; alternation needs that the last signal let through is that of
the last trade, or of the one being processed; the account stays non-negative
because half of it, minus the commission, is divided by a price that is positive;
silence because the history never has the length the fast average needs, so no
pair of values is ever available; the curve is marked to the close because
`run_record` reprices every position that is not short, and solvency says none
is. `SummaryDoesAgree` needs that between two bars the last point of the curve is
the equity `run_end` is going to ask for, and counts by one lemma on a trade list
with one more trade (`CountsAppend`). `LedgerDoesReplay` carries the fold of the
trade list along the run: a trade appended to the list changes the replayed cash
and lots by what it changed the account by.

`StrategyProofs` proves the refinement of `MACross`, one step of the engine after
the other (`StrategyImplementsMACross`). It rests on two facts about data: the
bounded history is the end of all closes so far, as long as it needs to be; and
the last two values `update_ma` takes from the averages over the history are
those over all closes, because the sum of a window does not see what is before
it.

Hypotheses, each of them needed:

- `EveryBuyFills` (`MemoryMatchesPosition`, `StrategyImplementsMACross`): with
  whole lots a tiny account could buy none, and the strategy would remember a BUY
  that opened nothing. With doubles that takes an empty account or a commission
  of the whole amount.
- `FastPeriod <= SlowPeriod + HistoryMargin` (`StrategyImplementsMACross`): with
  a longer fast period the strategy is silent, which `SilentBeyondWindow` proves.
- `~ReuseStrategy` (`LedgerDoesReplay`, `StrategyImplementsMACross`): a strategy
  that runs a second time starts with the position and the memory of the first,
  but with fresh cash (`on_init` resets the account only).

### Analysis

`AnalysisProofs` proves the five properties of the analysis, `StrategyProofs` the two
of the indicators. The invariants they need of a back test: the equity is positive at each point of
a curve that starts with a positive capital (`SolvencyInv`: a BUY spends at most
half of the cash, and a price is at least 1), the points and trades are well
formed (`PointsInv`), and after one run the trades of the result alternate and
grow in time (`LogInv`). The rest is about the functions: the running maximum is
the largest value so far, so the largest difference from it is that of the worst
pair; the streak counter holds the length of the streak that ends at its position;
in an alternating list a BUY is closed by the next trade; an average of a prefix is
a prefix of the averages; every loss that counts is beyond the tolerance, hence so is
their average (`TotalAtMost`), and a list of trades has as many winners as the engine
counted less those within the tolerance (`CountersAreSelections`); the quotient of the two smoothed averages moves with the
change. The properties name small periods; the lemmas `MacdAligned` and
`RsiFollows` are about all.

The tolerance is any natural number (`ToleranceAssumption`), zero among them.
Hypotheses: `InitialCapital > 0` (`DrawdownIsTheWorst`, `RiskIsAlwaysSeen`: the
analyzer drops the returns after a point that is not positive), and `runs <= 1`
in `AnalysisDoesAgree` and `HoldingIsRoundTrips`: the engine never clears the
trades and the counters of its result (`run_begin`), so after a second run they
are those of two back tests one after the other, of which the first may have
ended with a position: a BUY then follows a BUY, at an earlier time.

### Collection

`CollectionProofs` proves all safety properties and the refinement for any number
of processes, paths, starts and faults, and for batches of any length, from five
invariants.

`HeaderStaysOnTop`: the property alone is not inductive, because a second creator
would add a second header. `Undisturbed` says who may be writing what: an
undisturbed file has at most one creator, is empty for as long as it has one, and
is not there before that one opens it; whoever saves to it otherwise finds lines.
Files are sequences of anything there, so nothing is assumed of the bars.
`StoresWhereConfigured` follows the directory from the extraction to the
configuration, the path of a save and the file (`Placed`). `ErrorsAreNeverData`
shows that no part of an answer and no error becomes a result (`Answered`).

`Held` is what a program has in its hands: a configuration of its file, an answer
to its question, bars of its interval, and before it saves, the batch it made of
them. With the lemmas on the cleaner it gives `RejectedBarsNeverTrace` (rule by
rule: what the rules remember after a batch is the last close and the last
volumes of the valid bars) and `CandlesAreSavedOnce` (the list without duplicates
is that of the first copies).

`Stored` adds the files: each line is a header, damage, or a row of a bar of the
file's interval, what a program has still to write are bars of the interval of its
target, and it is told of a success only at its end. It gives the types
(`StorageIsTyped`), `RowsAlwaysNameTheirInterval` (with `LabelIsInterval`: the two
tables of names are inverse to each other) and, one step after the other,
`StorageImplementsKlineTable` (with `WithLineRows`: what one line more makes of
the rows of a file). With the table's steps it also gives `RowsAreNeverLost`: after any
step the rows of a file are those before it and perhaps more. TLC has checked `Held` and `Stored` on the instance of the
run `collection` too.

Assumed of the exchange, which is external (`AnswersAssumption`): it sends an
answer of the kind asked for with status 200 only, and its candles have a time
above zero and a volume that is not negative. The cleaner tests neither, the
normalizer's `validate_ohlcv` does: without this assumption the two disagree.
`NamesAssumption` says that `Bars` and `Paths` are large enough to hold what the
programs make of answers and configurations; `CleanerAssumption` that the volume
rule wants no more volumes (10) than it remembers (100).

### WebSocket client

`WebSocketProofs` proves seven theorems from one inductive invariant,
`Inductive`. None of the properties is inductive alone: that a read is the only
one needs that setup operations happen one at a time and never after the
transport was up (`SetupFirst`); one callback after the stop needs that no read
is under way once it was delivered (`LastCallback`); that a careful caller never
terminates needs that the connection once was up, which excludes that a late
handshake sets `connected_` again (`CarefulCaller`). For the same reason the end of
a connection is final for a caller that waited for it (`DisconnectStaysFinal`); the
run `websocket_early` shows that it is not for one that did not.
`OneReadAlwaysArmed` is about a client whose process lives: a message may end it
(`parse_message_dies`), and the invariant then only keeps that both threads are
gone (`Joined`).

### Only model-checked

The liveness properties `ProgramsEnd`, `ShutdownCompletes` and
`MessagesAreRead`: liveness under fairness needs `ENABLED`, which the provers do
not treat. The runs that expect a violation show a behaviour of the code; a
theorem has nothing to add to them, except `SilentBeyondWindow`.

## Not modelled

Floating-point rounding; the text of messages and logs; the data race of
`async_close` against handlers on the strand (its outcomes are inside Beast);
`send_message` and `on_write`, `post` and `add_header`, `clean_tick` and the
conversions of the normalizer, which nothing calls; more than one symbol; the
date in a file name (a path is one day's file); a second subscription on one
WebSocket client; the lifetime of the strategy pointer in the bindings;
and the components marked `not_modelled` in `PROJECT.json`. The REST API is left
out because all it does with the modelled system is one run of a fresh engine
per request; what could go wrong there is in Python and in the bindings.

## Plan

What is left, in this order:

1. `WebSocketClient`: a second subscription on one client (overlapping
   resolves, `path_`, `should_stop_` never reset).
2. `BacktestApi`: one request through the bindings, composing `BacktestEngine`;
   status codes and the life of the strategy.
3. Proofs: that two saves of one batch add its rows twice and nothing else;
   the analysis after several runs of one engine.
