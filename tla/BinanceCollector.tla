-------------------------- MODULE BinanceCollector --------------------------
(* cpp/src/collectors/http_client.cpp and BinanceCollector.cpp: what a      *)
(* request needs and what is made of an answer.  A reply is [status, body]; *)
(* a body is "text" (not JSON), an "array" of items, an "object" that is    *)
(* none of the answers asked for ("empty" if it has no keys), a "ticker" or *)
(* a "book".  An item is a candle or Malformed: a value whose reading       *)
(* throws.  An array with too few elements is read past its end, which is   *)
(* undefined; it is not among the answers considered.                       *)
EXTENDS MarketTypes

CONSTANTS SchemeUrls,  \* base URLs that contain "://"
          Malformed,   \* an item that is not a candle
          IntRange     \* the numbers an int can tell apart

(* The constructor sets a proxy, and get() uses it, when there is a host    *)
(* and a port.                                                              *)
uses_proxy(config) == config.proxy_host # "" /\ config.proxy_port > 0

sendable(config) == config.base_url \in SchemeUrls

(* A negative time-out is given to poll(), which then waits for ever.       *)
times_out_eventually(config) == config.timeout_ms >= 0

(* get(): any answer is a response, whatever its status.                    *)
http_get(reply) == Ok(reply)

(* What the loop over the parsed body visits: the values of an object are   *)
(* no candles, an empty object has none.                                    *)
items_of(body) ==
  CASE body.kind = "array" -> body.items
    [] body.kind = "empty" -> <<>>
    [] OTHER -> <<Malformed>>

bar_of(candle, symbol, interval) ==
  [timestamp |-> candle.timestamp, symbol |-> symbol,
   timeframe |-> string_to_timeframe(interval),
   open |-> candle.open, high |-> candle.high, low |-> candle.low,
   close |-> candle.close, volume |-> candle.volume, quality |-> "GOOD"]

(* Mutant: the candles before the malformed one are returned.               *)
get_klines_partial(reply, symbol, interval) ==
  LET items == items_of(reply.body)
      good  == SelectSeq(items, LAMBDA item : item # Malformed)
  IN  Ok([i \in DOMAIN good |-> bar_of(good[i], symbol, interval)])

(* One item that is no candle throws the whole batch away.                  *)
get_klines(reply, symbol, interval) ==
  LET items == items_of(reply.body)
  IN  IF \E i \in DOMAIN items : items[i] = Malformed
      THEN Err("PARSE_ERROR")
      ELSE Ok([i \in DOMAIN items |-> bar_of(items[i], symbol, interval)])

get_ticker(reply) ==
  IF reply.body.kind = "ticker" THEN Ok(<<reply.body>>) ELSE Err("PARSE_ERROR")

(* value(key, 0) reads a 64-bit number as an int.                           *)
to_int(n) == ((n + IntRange \div 2) % IntRange) - IntRange \div 2

(* Missing keys read as 0 and as no levels at all.                          *)
book_of(body) ==
  IF body.kind = "book"
  THEN [timestamp |-> to_int(body.T), sequence |-> to_int(body.lastUpdateId),
        bids |-> body.bids, asks |-> body.asks]
  ELSE [timestamp |-> 0, sequence |-> 0, bids |-> <<>>, asks |-> <<>>]

get_orderbook(reply) ==
  IF reply.body.kind \in {"text", "array"}
  THEN Err("PARSE_ERROR")
  ELSE Ok(<<book_of(reply.body)>>)
=============================================================================
