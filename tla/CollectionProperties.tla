------------------------ MODULE CollectionProperties ------------------------
(* What collecting, cleaning and saving must get right.                     *)
EXTENDS Collection, Selection

Places == {"idle", "load", "request", "waiting", "parse", "result", "check",
           "open", "header", "rows", "exit"}

Lines == {Header, Torn, Garbled} \cup {Row(bar) : bar \in Bars}

BookFields == {"timestamp", "sequence", "bids", "asks"}

(* The kind of data a query asks for.                                       *)
OfKind(asked_for, data) ==
  CASE asked_for = "klines" -> data \in Seq(Bars)
    [] asked_for = "ticker" -> data[1].kind = "ticker"
    [] asked_for = "book"   -> DOMAIN data[1] = BookFields

(* What the storage keeps, what a program asks for while a request is under *)
(* way, and that a request that succeeded is decided on with the kind of    *)
(* data its query asks for.                                                 *)
TypeOK ==
  /\ files \in [Paths -> Seq(Lines)] /\ present \subseteq Paths
  /\ at \in [Procs -> Places]
  /\ target \in [Procs -> Paths \cup {NoPath}]
  /\ found \in [Procs -> BOOLEAN] /\ saved \in [Procs -> BOOLEAN]
  /\ unsaved \in [Procs -> Seq(Bars)]
  /\ faults \in 0..MaxFaults /\ starts \in 0..MaxStarts
  /\ spoiled \subseteq Paths
  /\ \A p \in Procs : at[p] \in {"check", "open", "header", "rows"} => target[p] \in Paths
  /\ \A p \in Procs : at[p] \in {"load", "request", "waiting", "parse", "result"} =>
       <<program[p], query[p]>> \in Asked
  /\ \A p \in Procs : at[p] = "result" /\ result[p].success =>
       OfKind(query[p], result[p].data)

(* A file that has lines has one header, at the top, unless its creation    *)
(* was disturbed: two saves that both found no file, a save that met the    *)
(* file between its creation and its header, or a creator that died or      *)
(* failed there.                                                            *)
HeaderOnTop ==
  \A path \in Paths \ spoiled :
    files[path] # <<>> =>
      \A i \in 1..Len(files[path]) : files[path][i] = Header <=> i = 1

(* get_klines, get_ticker and get_orderbook make data only out of a         *)
(* complete answer of the kind asked for: not of a part of one, and not of  *)
(* an error whose status nobody looks at.  (The order book they make of an  *)
(* error is one the cleaner rejects, an answer without candles is no data.) *)
ErrorsAreNotData ==
  \A p \in Procs : (at[p] = "result" /\ result[p].success) =>
    CASE query[p] = "klines" ->
           result[p].data # <<>> =>
             /\ reply[p].status = 200 /\ reply[p].body.kind = "array"
             /\ Len(result[p].data) = Len(reply[p].body.items)
      [] query[p] = "ticker" -> reply[p].status = 200
      [] query[p] = "book" ->
           clean_orderbook(result[p].data[1]) => reply[p].status = 200

(* The bars a program can clean, and those the normalizer calls valid.      *)
Fetched(p) == IF at[p] = "result" /\ query[p] = "klines" THEN result[p].data ELSE <<>>
Valid(bars) == chosen(bars, validate_ohlcv)

(* Bar i of the valid ones stands out: against the close of the valid bar   *)
(* before it, or against the last volumes up to its own.                    *)
Jumps(bars, i) ==
  i > 1 /\ abs_diff(bars[i].close, bars[i-1].close) * 100
             > JumpPercent * bars[i-1].close
LastVolumes(bars, i) ==
  LET n == IF i < HISTORY_SIZE THEN i ELSE HISTORY_SIZE
  IN  [k \in 1..n |-> bars[i - n + k].volume]
VolumeStandsOut(bars, i) ==
  LET last == LastVolumes(bars, i)
      total == sum_of(last)
  IN  i >= MinVolumes /\ total > 0 /\ bars[i].volume * Len(last) > total * VolumeThreshold

Marked(bars, i) ==
  [bars[i] EXCEPT !.quality =
     IF Jumps(bars, i) \/ VolumeStandsOut(bars, i) THEN "SUSPICIOUS" ELSE "GOOD"]

(* The cleaner keeps exactly the bars the normalizer calls valid, and marks *)
(* each against the valid ones only: a bar that is thrown away becomes      *)
(* neither the reference of the next one nor part of an average.            *)
RejectedBarsLeaveNoTrace ==
  \A p \in Procs : LET valid == Valid(Fetched(p)) IN
    clean_ohlcv_batch(Fetched(p)) = [i \in 1..Len(valid) |-> Marked(valid, i)]

(* The time and the close of bar i.                                         *)
Quoted(bars, i) == <<bars[i].timestamp, bars[i].close>>

(* What "clean" saves has each candle once, the first valid copy the        *)
(* exchange sent, and every time the exchange sent a valid candle for.      *)
EachCandleOnce ==
  \A p \in Procs : (at[p] = "check" /\ program[p] = "clean") =>
    LET valid == Valid(result[p].data)
        first(i) == \A j \in 1..(i - 1) : valid[j].timestamp # valid[i].timestamp
    IN  /\ \A i, j \in DOMAIN unsaved[p] :
             i # j => unsaved[p][i].timestamp # unsaved[p][j].timestamp
        /\ {Quoted(unsaved[p], i) : i \in DOMAIN unsaved[p]} =
             {Quoted(valid, i) : i \in {k \in DOMAIN valid : first(k)}}

(* The intervals Timeframe has a member for (types.h:18-30).                *)
NamedIntervals ==
  {"tick", "1s", "1m", "5m", "15m", "30m", "1h", "4h", "1d", "1w", "1M"}

(* A row stands in the file of its interval, with that interval as its      *)
(* label, for every interval that has a timeframe (any other is called a    *)
(* minute): the two tables are inverse to each other.                       *)
RowsNameTheirInterval ==
  \A path \in Paths : \A i \in 1..Len(files[path]) :
    files[path][i].kind = "row" =>
      files[path][i].label =
        IF path.interval \in NamedIntervals THEN path.interval ELSE "1m"

(* Files land in the working directory only when the configuration has an   *)
(* ill-typed field no later than data_dir: a broken proxy block does not    *)
(* move them.                                                               *)
StoredWhereConfigured ==
  \A path \in present :
    path.dir # value(config_file, "data_dir") => config_file.ill_typed \in 1..3

(* A program that was started ends, whether or not the exchange answers,    *)
(* unless the time-out of the configuration is ill-typed: then nobody knows *)
(* how long the request waits.  (With an ill-typed base URL nothing is      *)
(* sent; a peer that sends an answer bit by bit is not modelled.)           *)
ProgramsEnd ==
  config_file.ill_typed # 2 =>
    \A p \in Procs : at[p] = "load" ~> at[p] = "idle"
-----------------------------------------------------------------------------
(* The files as a table of rows: headers and damaged lines left out.        *)
IsRow(line) == line.kind = "row"
BarsIn(lines) ==
  LET rows_only == chosen(lines, IsRow)
  IN  [i \in 1..Len(rows_only) |-> rows_only[i].bar]

Table == INSTANCE KlineTable WITH
  table   <- [path \in Paths |-> BarsIn(files[path])],
  rows    <- unsaved,
  into    <- target,
  saving  <- {p \in Procs : at[p] \in {"check", "open", "header", "rows"}},
  told    <- {p \in Procs : saved[p]},
  damaged <- {path \in Paths : files[path] # <<>> /\ files[path][Len(files[path])] = Torn}

ImplementsKlineTable == Table!Spec
-----------------------------------------------------------------------------
(* What the repository says elsewhere and the code does not do.             *)

(* A proxy that is not enabled is not used.                                 *)
DisabledProxyIsNotUsed ==
  \A p \in Procs :
    at[p] = "waiting" /\ uses_proxy(config[p]) => config[p].proxy_enabled
=============================================================================
