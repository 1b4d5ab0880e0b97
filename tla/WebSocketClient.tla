-------------------------- MODULE WebSocketClient --------------------------
(* cpp/src/websocket/websocket_client_base.cpp under the program that uses  *)
(* it (cpp/src/websocket/test_websocket.cpp): the main thread subscribes,   *)
(* waits, disconnects, stops the io_context and lets the client go; one IO  *)
(* thread runs the completion handlers; the peer sends, closes or dies.     *)
(*                                                                          *)
(* An asynchronous operation is a member of pending from its initiation to  *)
(* the start of its handler, and holds one shared_ptr to the client while   *)
(* it is there.  A handler is one action where main cannot see its middle,  *)
(* and several where an atomic flag is read or written half-way.            *)
EXTENDS Naturals, FiniteSets

(* What a program that uses the client may do beyond what the test program  *)
(* does: insist on is_connected() before it goes on, poll is_connected()    *)
(* until it is false after disconnect(), keep io_context::run() busy with   *)
(* other work.                                                              *)
Habits == {"waits_for_connection", "awaits_closed", "other_work"}

CONSTANTS
  MaxMessages,   \* bound: messages the peer sends
  Callers        \* the programs considered, each by its habits

ASSUME ClientAssumption ==
  /\ MaxMessages \in Nat
  /\ Callers \subseteq SUBSET Habits

VARIABLES
  caller,       \* the program at hand
  main,         \* where the main thread is
  io,           \* where the IO thread is; "run" is between two handlers
  pending,      \* asynchronous operations under way
  connected,    \* connected_
  should_stop,  \* should_stop_
  stopped,      \* io_context::stop() was called
  link,         \* the transport, as the peer and the network leave it
  sent,         \* messages the peer has sent
  inbox,        \* of those, the ones no read has taken yet
  after_stop    \* callbacks entered since should_stop_ was set

main_vars == <<main, should_stop, stopped>>
io_vars   == <<io, connected, after_stop>>
net_vars  == <<link, sent, inbox>>
vars == <<caller, main_vars, io_vars, net_vars, pending>>

Setup == {"resolve", "connect", "ssl", "handshake"}

Init ==
  /\ caller \in Callers
  /\ main = "subscribe" /\ io = "off" /\ pending = {}
  /\ connected = FALSE /\ should_stop = FALSE /\ stopped = FALSE
  /\ link = "none" /\ sent = 0 /\ inbox = 0 /\ after_stop = 0
-----------------------------------------------------------------------------
(* The main thread.                                                         *)

(* subscribe_kline: connect() starts the resolver; then the IO thread is    *)
(* started.                                                                 *)
subscribe ==
  /\ main = "subscribe"
  /\ pending' = {"resolve"}
  /\ io' = "run" /\ main' = "wait_connected"
  /\ UNCHANGED <<should_stop, stopped, connected, after_stop, net_vars>>

(* The bounded wait for is_connected(), and then the wait for the user's    *)
(* signal, which may also cut the first one short.                          *)
wait_over ==
  /\ main = "wait_connected"
  /\ "waits_for_connection" \in caller => connected
  /\ main' = "wait_signal"
  /\ UNCHANGED <<should_stop, stopped, io_vars, net_vars, pending>>

interrupted ==
  /\ main = "wait_signal"
  /\ main' = "disconnect"
  /\ UNCHANGED <<caller, should_stop, stopped, io_vars, net_vars, pending>>

(* Mutant: disconnect() does not ask whether there is a connection.         *)
disconnect_check_unguarded ==
  /\ main = "disconnect"
  /\ main' = "set_stop"
  /\ UNCHANGED <<should_stop, stopped, io_vars, net_vars, pending>>

(* disconnect() reads connected_, writes should_stop_, and then initiates   *)
(* the close: the IO thread may run between the three.                      *)
disconnect_check ==
  /\ main = "disconnect"
  /\ main' = IF connected THEN "set_stop" ELSE "disconnected"
  /\ UNCHANGED <<should_stop, stopped, io_vars, net_vars, pending>>

disconnect_set_stop ==
  /\ main = "set_stop"
  /\ should_stop' = TRUE
  /\ main' = "async_close"
  /\ UNCHANGED <<stopped, io_vars, net_vars, pending>>

disconnect_async_close ==
  /\ main = "async_close"
  /\ pending' = pending \cup {"close"}
  /\ main' = "disconnected"
  /\ UNCHANGED <<should_stop, stopped, io_vars, net_vars>>

(* Mutant: the io_context is not stopped.                                   *)
ioc_stop_forgotten ==
  /\ main = "disconnected"
  /\ "awaits_closed" \in caller => ~connected
  /\ main' = "join"
  /\ UNCHANGED <<stopped, should_stop, io_vars, net_vars, pending>>

ioc_stop ==
  /\ main = "disconnected"
  /\ "awaits_closed" \in caller => ~connected
  /\ stopped' = TRUE
  /\ main' = "join"
  /\ UNCHANGED <<should_stop, io_vars, net_vars, pending>>

join ==
  /\ main = "join" /\ io = "ended"
  /\ main' = "release"
  /\ UNCHANGED <<should_stop, stopped, io_vars, net_vars, pending>>

(* Mutant: shared_from_this() comes before the test of connected_.          *)
destructor_leads_to_throw(normally) == "terminated"

(* ~WebSocketClientBase calls disconnect(): on a client that still counts   *)
(* as connected, shared_from_this() throws out of the destructor, and the   *)
(* program is terminated.                                                   *)
destructor_leads_to(normally) == IF connected THEN "terminated" ELSE normally

(* main's shared_ptr goes first; it is the last one if nothing is pending.  *)
release_client ==
  /\ main = "release"
  /\ main' = IF pending = {} THEN destructor_leads_to("returned") ELSE "destroy_ioc"
  /\ UNCHANGED <<should_stop, stopped, io_vars, net_vars, pending>>

(* ~io_context destroys the handlers that never ran, and with the last of   *)
(* them the client.                                                         *)
destroy_ioc ==
  /\ main = "destroy_ioc"
  /\ pending' = {}
  /\ main' = destructor_leads_to("returned")
  /\ UNCHANGED <<should_stop, stopped, io_vars, net_vars>>

Main ==
  /\ \/ subscribe \/ wait_over
     \/ disconnect_check \/ disconnect_set_stop \/ disconnect_async_close
     \/ ioc_stop \/ join \/ release_client \/ destroy_ioc
  /\ UNCHANGED caller
-----------------------------------------------------------------------------
(* The IO thread: the handlers, each taking its operation out of pending.   *)

dispatches(op) == io = "run" /\ ~stopped /\ op \in pending

(* A setup handler returns on an error (a time-out is one), and initiates   *)
(* the next operation otherwise.                                            *)
setup_step(op, next) ==
  /\ dispatches(op)
  /\ \E ok \in BOOLEAN :
       pending' = (pending \ {op}) \cup (IF ok THEN {next} ELSE {})
  /\ UNCHANGED <<main_vars, io_vars, net_vars>>

on_resolve       == setup_step("resolve", "connect")
on_connect       == setup_step("connect", "ssl")
on_ssl_handshake == setup_step("ssl", "handshake")

(* Mutant: the first read is started twice.                                 *)
on_handshake_reading ==
  /\ dispatches("handshake")
  /\ pending' = (pending \ {"handshake"}) \cup {"read"}
  /\ \/ /\ connected' = TRUE /\ io' = "do_read" /\ link' = "up"
     \/ UNCHANGED <<connected, io, link>>
  /\ UNCHANGED <<main_vars, after_stop, sent, inbox>>

on_handshake ==
  /\ dispatches("handshake")
  /\ pending' = pending \ {"handshake"}
  /\ \/ /\ connected' = TRUE /\ io' = "do_read" /\ link' = "up"
     \/ UNCHANGED <<connected, io, link>>
  /\ UNCHANGED <<main_vars, after_stop, sent, inbox>>

do_read ==
  /\ io = "do_read"
  /\ pending' = pending \cup {"read"}
  /\ io' = "run"
  /\ UNCHANGED <<main_vars, connected, after_stop, net_vars>>

(* Mutant: a read completes with nothing to read.                           *)
on_read_message_spurious ==
  /\ dispatches("read")
  /\ pending' = pending \ {"read"}
  /\ inbox' = inbox - 1
  /\ io' = "parse"
  /\ UNCHANGED <<main_vars, connected, after_stop, link, sent>>

(* A read ends with a message ...                                           *)
on_read_message ==
  /\ dispatches("read") /\ inbox > 0
  /\ pending' = pending \ {"read"}
  /\ inbox' = inbox - 1
  /\ io' = "parse"
  /\ UNCHANGED <<main_vars, connected, after_stop, link, sent>>

(* Mutant: a lost connection is set up again.                               *)
on_read_error_reconnecting ==
  /\ dispatches("read")
  /\ link \in {"peer_closed", "down"} \/ "close" \in pending
  /\ pending' = (pending \ {"read"}) \cup {"resolve"}
  /\ connected' = FALSE
  /\ link' = "down"
  /\ UNCHANGED <<main_vars, io, after_stop, sent, inbox>>

(* ... or with an error: the peer has closed, or the closing handshake is   *)
(* over for this client.                                                    *)
on_read_error ==
  /\ dispatches("read")
  /\ link \in {"peer_closed", "down"} \/ "close" \in pending
  /\ pending' = pending \ {"read"}
  /\ connected' = FALSE
  /\ link' = "down"
  /\ UNCHANGED <<main_vars, io, after_stop, sent, inbox>>

(* Mutant: an exception leaves parse_message and on_read with it.           *)
parse_message_throwing ==
  /\ io = "parse"
  /\ \/ io' = "check_stop"
     \/ io' = "run"
  /\ UNCHANGED <<main_vars, connected, after_stop, net_vars, pending>>

(* parse_message catches every exception; a message it understands reaches  *)
(* the user's callback.  So may, with a value made up, one that lacks a key *)
(* in a build without assertions, if reading the key does no worse.         *)
parse_message ==
  /\ io = "parse"
  /\ \/ after_stop' = IF should_stop THEN after_stop + 1 ELSE after_stop
     \/ UNCHANGED after_stop
  /\ io' = "check_stop"
  /\ UNCHANGED <<main_vars, connected, net_vars, pending>>

(* A kline or a ticker that lacks a key: operator[] of a const json does    *)
(* not throw.  It is an assertion that ends the process, or in a build      *)
(* without assertions undefined, and may end it as well.                    *)
parse_message_dies ==
  /\ io = "parse"
  /\ io' = "died" /\ main' = "died"
  /\ UNCHANGED <<should_stop, stopped, connected, after_stop, net_vars, pending>>

(* Mutants: the flag is ignored; the read is never started again.           *)
on_read_ignores_stop ==
  /\ io = "check_stop"
  /\ io' = "do_read"
  /\ UNCHANGED <<main_vars, connected, after_stop, net_vars, pending>>

on_read_never_again ==
  /\ io = "check_stop"
  /\ io' = "run"
  /\ UNCHANGED <<main_vars, connected, after_stop, net_vars, pending>>

on_read_check_stop ==
  /\ io = "check_stop"
  /\ io' = IF should_stop THEN "run" ELSE "do_read"
  /\ UNCHANGED <<main_vars, connected, after_stop, net_vars, pending>>

(* The close ends when the peer answers, when the transport fails, or when  *)
(* its time-out of 30 seconds expires; a read under way fails with it.      *)
on_close ==
  /\ dispatches("close")
  /\ pending' = pending \ {"close"}
  /\ connected' = FALSE
  /\ link' = "down"
  /\ UNCHANGED <<main_vars, io, after_stop, sent, inbox>>

(* run() returns when it is stopped or out of work.                         *)
run_returns ==
  /\ io = "run"
  /\ stopped \/ (pending = {} /\ "other_work" \notin caller)
  /\ io' = "ended"
  /\ UNCHANGED <<main_vars, connected, after_stop, net_vars, pending>>

IO ==
  /\ \/ on_resolve \/ on_connect \/ on_ssl_handshake \/ on_handshake \/ do_read
     \/ on_read_message \/ on_read_error \/ parse_message \/ parse_message_dies
     \/ on_read_check_stop \/ on_close \/ run_returns
  /\ UNCHANGED caller
-----------------------------------------------------------------------------
(* The peer and the network.                                                *)

peer_sends ==
  /\ link = "up" /\ sent < MaxMessages
  /\ sent' = sent + 1 /\ inbox' = inbox + 1
  /\ UNCHANGED <<main_vars, io_vars, link, pending>>

peer_closes ==
  /\ link = "up"
  /\ link' = "peer_closed"
  /\ UNCHANGED <<main_vars, io_vars, sent, inbox, pending>>

(* A peer that vanishes without a FIN or RST: no read ever ends again.      *)
peer_dies ==
  /\ link = "up"
  /\ link' = "dead"
  /\ UNCHANGED <<main_vars, io_vars, sent, inbox, pending>>

Peer == (peer_sends \/ peer_closes \/ peer_dies) /\ UNCHANGED caller

Next == Main \/ interrupted \/ IO \/ Peer

(* Both threads are scheduled; the user and the peer owe nothing.           *)
Spec == Init /\ [][Next]_vars /\ WF_vars(Main) /\ WF_vars(IO)
=============================================================================
