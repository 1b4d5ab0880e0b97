----------------------------- MODULE Collection -----------------------------
(* The programs that collect market data, run side by side: load the        *)
(* configuration, construct a collector, ask the exchange, clean the bars   *)
(* and save them.  "collect" is test_binance_collector.cpp, "clean" is      *)
(* test_data_cleaner.cpp, "strategy" the fetching part of test_strategy.cpp *)
(* (which ignores what load() returns).  No program of the repository asks  *)
(* for a ticker or an order book (test_binance_collector.cpp:98-171 does in *)
(* comments only): "quote" is a user from outside it that calls             *)
(* get_ticker() and then get_orderbook().                                   *)
EXTENDS KlineStorage, ConfigManager, BinanceCollector, DataCleaner

CONSTANTS Setups,        \* [file, program, interval]: the configuration file, what
                         \* each process runs, and the literal in its main()
          Answers,       \* Answers[<<program, query>>]: what the exchange may reply
          MaxStarts      \* bound: programs started

(* What each program asks the exchange for.                                 *)
Asked == {<<"collect", "klines">>, <<"clean", "klines">>, <<"strategy", "klines">>,
          <<"quote", "ticker">>, <<"quote", "book">>}

ASSUME SetupAssumption ==
  \A setup \in Setups :
    /\ setup.file.ill_typed \in Nat
    /\ \A p \in Procs : setup.program[p] \in {"none", "collect", "clean", "strategy", "quote"}

(* A candle of the exchange: it has a time, and no less than no volume.     *)
ExchangeCandles ==
  [timestamp : Nat \ {0}, open : Int, high : Int, low : Int, close : Int, volume : Nat]

(* The exchange sends what was asked for with status 200, and an error      *)
(* object or a text with any other.                                         *)
ASSUME AnswersAssumption ==
  \A asked \in Asked : \A answer \in Answers[asked] :
    /\ answer.body.kind \in {"array", "ticker", "book"} => answer.status = 200
    /\ answer.body.kind = "array" =>
         answer.body.items \in Seq(ExchangeCandles \cup {Malformed})

(* The bars a program can make of the answers, and the paths it can save to.*)
BarsOf(name) ==
  {bar_of(item, "BTCUSDT", name) : item \in
     UNION {ToSet(answer.body.items) \ {Malformed} : answer \in
              {a \in UNION {Answers[asked] : asked \in Asked} : a.body.kind = "array"}}}

PathsOf(file, name) ==
  [dir : {c.data_dir : c \in get_binance_config(file)},
   symbol : {"BTCUSDT", "BTCUSDT_cleaned"}, interval : {name}]

ASSUME NamesAssumption ==
  /\ \A setup \in Setups : \A p \in Procs :
       /\ BarsOf(setup.interval[p]) \subseteq Bars
       /\ load(setup.file) => PathsOf(setup.file, setup.interval[p]) \subseteq Paths
  /\ \A bar \in Bars :
       /\ bar \in [timestamp : Nat \ {0}, symbol : {"BTCUSDT"},
                   timeframe : DOMAIN timeframe_to_string,
                   open : Int, high : Int, low : Int, close : Int, volume : Nat,
                   quality : {"GOOD", "SUSPICIOUS"}]
       /\ [bar EXCEPT !.quality = "SUSPICIOUS"] \in Bars

ASSUME BoundsAssumption == MaxStarts \in Nat /\ MaxFaults \in Nat

VARIABLES config_file, program, interval,   \* chosen once
          config,                 \* the struct each program got
          query, reply, result,   \* the request under way and its outcome
          starts

collector_vars == <<config_file, program, interval, config, query, reply, result, starts>>
vars == <<storage_vars, collector_vars>>

NoReply  == [status |-> 0, body |-> [kind |-> "none"]]
NoResult == Err("UNKNOWN_ERROR")

Init ==
  /\ StorageInit
  /\ at = [p \in Procs |-> "idle"]
  /\ \E setup \in Setups : /\ config_file = setup.file
                           /\ program = setup.program /\ interval = setup.interval
  /\ config = [p \in Procs |-> DefaultConfig]
  /\ query = [p \in Procs |-> ""] /\ reply = [p \in Procs |-> NoReply]
  /\ result = [p \in Procs |-> NoResult]
  /\ starts = 0

(* The first thing a program asks for.                                      *)
first_query(p) == IF program[p] = "quote" THEN "ticker" ELSE "klines"

start(p) ==
  /\ at[p] = "idle" /\ program[p] # "none"
  /\ starts < MaxStarts /\ starts' = starts + 1
  /\ query' = [query EXCEPT ![p] = first_query(p)]
  /\ goto(p, "load")
  /\ UNCHANGED <<files, present, dirs, target, found, unsaved, saved, faults, spoiled,
                 config_file, program, interval, config, reply, result>>

outside_storage ==
  UNCHANGED <<files, present, dirs, target, found, unsaved, saved, faults,
              spoiled, config_file, program, interval, starts>>

load_config(p) ==
  /\ at[p] = "load" /\ load(config_file)
  /\ \E c \in get_binance_config(config_file) : config' = [config EXCEPT ![p] = c]
  /\ goto(p, "request")
  /\ outside_storage /\ UNCHANGED <<query, reply, result>>

(* Without a configuration main() returns; test_strategy.cpp goes on, and   *)
(* get_binance_config() hands it the defaults.                              *)
load_config_fails(p) ==
  /\ at[p] = "load" /\ ~load(config_file)
  /\ config' = [config EXCEPT ![p] = DefaultConfig]
  /\ goto(p, IF program[p] = "strategy" THEN "request" ELSE "exit")
  /\ outside_storage /\ UNCHANGED <<query, reply, result>>

(* What the collector's method returns once http_get has returned.          *)
finish_request(p, r) ==
  /\ result' = [result EXCEPT ![p] = r]
  /\ goto(p, "result")

send_request(p) ==
  /\ at[p] = "request" /\ sendable(config[p])
  /\ goto(p, "waiting")
  /\ outside_storage /\ UNCHANGED <<config, query, reply, result>>

refuse_url(p) ==
  /\ at[p] = "request" /\ ~sendable(config[p])
  /\ finish_request(p, Err("INVALID_PARAMS"))
  /\ outside_storage /\ UNCHANGED <<config, query, reply>>

exchange_answers(p) ==
  /\ at[p] = "waiting"
  /\ \E answer \in Answers[<<program[p], query[p]>>] : reply' = [reply EXCEPT ![p] = answer]
  /\ goto(p, "parse")
  /\ outside_storage /\ UNCHANGED <<config, query, result>>

connection_breaks(p) ==
  /\ at[p] = "waiting"
  /\ finish_request(p, Err("NETWORK_ERROR"))
  /\ outside_storage /\ UNCHANGED <<config, query, reply>>

(* Mutant: the time-out the configuration gives is never set.               *)
request_times_out_unset(p) ==
  /\ at[p] = "waiting" /\ config[p].timeout_ms > 30000
  /\ finish_request(p, Err("NETWORK_ERROR"))
  /\ outside_storage /\ UNCHANGED <<config, query, reply>>

(* A time-out is a network error like any other.                            *)
request_times_out(p) ==
  /\ at[p] = "waiting" /\ times_out_eventually(config[p])
  /\ finish_request(p, Err("NETWORK_ERROR"))
  /\ outside_storage /\ UNCHANGED <<config, query, reply>>

parse(p) ==
  /\ at[p] = "parse"
  /\ finish_request(p,
       LET response == http_get(reply[p]).data
       IN  CASE query[p] = "klines" -> get_klines(response, "BTCUSDT", interval[p])
             [] query[p] = "ticker" -> get_ticker(response)
             [] query[p] = "book"   -> get_orderbook(response))
  /\ outside_storage /\ UNCHANGED <<config, query, reply>>

(* A program that got no bars, or wants nothing else, ends.                 *)
give_up(p) ==
  /\ at[p] = "result"
  /\ \/ program[p] \in {"collect", "clean"} /\ ~result[p].success
     \/ program[p] = "strategy"
     \/ query[p] = "book"
  /\ goto(p, "exit")
  /\ outside_storage /\ UNCHANGED <<config, query, reply, result>>

(* A user from outside asks for the order book after the ticker.            *)
ask_for_book(p) ==
  /\ at[p] = "result" /\ query[p] = "ticker"
  /\ query' = [query EXCEPT ![p] = "book"]
  /\ reply' = [reply EXCEPT ![p] = NoReply]
  /\ result' = [result EXCEPT ![p] = NoResult]
  /\ goto(p, "request")
  /\ outside_storage /\ UNCHANGED config

path_of(p, symbol) ==
  [dir |-> config[p].data_dir, symbol |-> symbol, interval |-> interval[p]]

save_collected(p) ==
  /\ at[p] = "result" /\ program[p] = "collect" /\ result[p].success
  /\ construct_storage(p, path_of(p, "BTCUSDT"), result[p].data)
  /\ UNCHANGED collector_vars

(* Mutant: the duplicates go before the rules have seen them.               *)
save_cleaned_late(p) ==
  /\ at[p] = "result" /\ program[p] = "clean" /\ result[p].success
  /\ construct_storage(p, path_of(p, "BTCUSDT_cleaned"),
                       clean_ohlcv_batch(deduplicate(result[p].data)))
  /\ UNCHANGED collector_vars

save_cleaned(p) ==
  /\ at[p] = "result" /\ program[p] = "clean" /\ result[p].success
  /\ construct_storage(p, path_of(p, "BTCUSDT_cleaned"),
                       deduplicate(clean_ohlcv_batch(result[p].data)))
  /\ UNCHANGED collector_vars

save(p)      == save_ohlcv(p) /\ UNCHANGED collector_vars
disk_full(p) == write_fails(p) /\ UNCHANGED collector_vars

forget(p) ==
  /\ config' = [config EXCEPT ![p] = DefaultConfig]
  /\ query' = [query EXCEPT ![p] = ""]
  /\ reply' = [reply EXCEPT ![p] = NoReply]
  /\ result' = [result EXCEPT ![p] = NoResult]
  /\ UNCHANGED <<config_file, program, interval, starts>>

exit(p) == at[p] = "exit" /\ leave(p) /\ forget(p) /\ UNCHANGED faults

crash(p) ==
  /\ at[p] # "idle" /\ faults < MaxFaults /\ faults' = faults + 1
  /\ leave(p) /\ forget(p)

(* What a process does by itself, and what the world does to it.            *)
step(p) ==
  \/ load_config(p) \/ load_config_fails(p)
  \/ send_request(p) \/ refuse_url(p) \/ request_times_out(p) \/ parse(p)
  \/ give_up(p) \/ ask_for_book(p) \/ save_collected(p) \/ save_cleaned(p)
  \/ save(p) \/ exit(p)

Next ==
  \E p \in Procs :
    \/ start(p) \/ exchange_answers(p) \/ connection_breaks(p) \/ disk_full(p) \/ crash(p)
    \/ step(p)

Spec == Init /\ [][Next]_vars

(* The processes are scheduled; the exchange owes nobody an answer.         *)
FairSpec == Spec /\ \A p \in Procs : WF_vars(step(p))
=============================================================================
