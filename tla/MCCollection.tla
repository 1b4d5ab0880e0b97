---------------------------- MODULE MCCollection ----------------------------
(* Small instances of the collecting programs for TLC.                      *)
EXTENDS CollectionProperties

CONSTANTS p1, p2, MaxLimit   \* MaxLimit: candles the cleaning program asks for

Candle(t, o, h, l, c, v) ==
  [timestamp |-> t, open |-> o, high |-> h, low |-> l, close |-> c, volume |-> v]

(* Two plain candles, one that jumps, a second copy of it, one without a    *)
(* close, and one that opens above its high.                                *)
Plain1  == Candle(1, 10, 11, 9, 10, 4)
Plain2  == Candle(2, 10, 12, 9, 11, 2)
Jump    == Candle(3, 11, 16, 10, 15, 6)
Again   == Candle(3, 12, 16, 10, 14, 5)
NoClose == Candle(2, 10, 12, 9, 0, 3)
Crossed == Candle(2, 20, 16, 9, 16, 9)
Candles == {Plain1, Plain2, Jump, Again, NoClose, Crossed}

Body(status, body) == [status |-> status, body |-> body]
Text   == Body(200, [kind |-> "text"])
Errors == {Text, Body(429, [kind |-> "text"]), Body(429, [kind |-> "object"]),
           Body(429, [kind |-> "empty"])}
Array(items) == Body(200, [kind |-> "array", items |-> items])
Book(T, id, bids, asks) ==
  Body(200, [kind |-> "book", T |-> T, lastUpdateId |-> id, bids |-> bids, asks |-> asks])

(* A program that cleans gets every batch up to MaxLimit, those in which a  *)
(* bad candle comes before a good one of its time included; the others get  *)
(* a few.                                                                   *)
CleanAnswers   == {Array(items) : items \in BoundedSeq(Candles, MaxLimit)}
CollectAnswers == {Array(<<Plain1, Plain2>>), Array(<<Plain1, Malformed>>)}
BookAnswers    == {Book(T, 9, b, <<1>>) : T \in {0, 5, 9}, b \in {<<>>, <<1>>}}
MCAnswers ==
  (<<"collect", "klines">>  :> {Body(429, [kind |-> "empty"])} \cup CollectAnswers) @@
  (<<"strategy", "klines">> :> Errors \cup CollectAnswers) @@
  (<<"clean", "klines">>    :> Errors \cup CleanAnswers) @@
  (<<"quote", "ticker">>    :> Errors \cup {Body(200, [kind |-> "ticker"])}) @@
  (<<"quote", "book">>      :> Errors \cup BookAnswers)

File(kind, fields, ill_typed) ==
  [kind |-> kind, fields |-> fields, ill_typed |-> ill_typed]
Given == [base_url |-> "https://api.binance.com", proxy_host |-> "127.0.0.1",
          proxy_port |-> 7897, proxy_enabled |-> TRUE, timeout_ms |-> 30000,
          data_dir |-> "out"]

(* A complete file, one with its proxy disabled and no data_dir, one whose  *)
(* data_dir cannot be created, one for each place where a field can be ill  *)
(* typed, one that cannot be parsed.                                        *)
Complete  == File("object", Given, 0)
OddFiles ==
  {File("object", Given, ill) : ill \in 1..4} \cup
  {File("object", [Given EXCEPT !.proxy_enabled = FALSE, !.data_dir = Absent], 0),
   File("object", [Given EXCEPT !.data_dir = "no/out"], 0),
   File("malformed", Given, 0)}

Setup(file, program1, program2, an_interval) ==
  [file |-> file, program |-> (p1 :> program1 @@ p2 :> program2),
   interval |-> [p \in {p1, p2} |-> an_interval]]

(* Two programs that save to one file, every kind of program alone with     *)
(* every odd configuration, and an interval no timeframe is named after.    *)
MCSetups ==
  {Setup(Complete, "collect", "collect", "1h"), Setup(Complete, "clean", "none", "3d")} \cup
  {Setup(file, program1, "none", "1h") :
     file \in OddFiles, program1 \in {"collect", "quote", "strategy"}}

Intervals == {"1h", "3d"}

MCUninitialised == {-1, 0}

MCPaths == [dir : {"", "out", "no/out", "data"}, symbol : {"BTCUSDT", "BTCUSDT_cleaned"},
            interval : Intervals]
MCBars  == {bar_of(c, "BTCUSDT", i) : c \in Candles, i \in Intervals}
             \cup {[bar_of(c, "BTCUSDT", i) EXCEPT !.quality = "SUSPICIOUS"] :
                     c \in Candles, i \in Intervals}
=============================================================================
