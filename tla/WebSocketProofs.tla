--------------------------- MODULE WebSocketProofs ---------------------------
(* What TLAPS proves of WebSocketClient, for any number of messages and any *)
(* way of using the client.                                                 *)
EXTENDS WebSocketProperties, TLAPS

(* A read is under way, or a handler is on its way to start the next one.   *)
Reading == "read" \in pending \/ io \in {"parse", "check_stop", "do_read"}

(* Connection steps happen one at a time, and only before the transport is  *)
(* up; everything that needs a connection happens after it.                 *)
SetupFirst ==
  /\ \A a, b \in pending \cap Setup : a = b
  /\ link # "none" => pending \cap Setup = {}
  /\ (connected \/ should_stop \/ Reading) => link # "none"
  /\ main = "subscribe" => pending = {} /\ link = "none"

(* A callback after should_stop_ was set is the last: no read follows it.   *)
LastCallback ==
  /\ inbox <= sent
  /\ after_stop > 0 => /\ should_stop /\ after_stop = 1 /\ "read" \notin pending
                       /\ io \in {"check_stop", "run", "ended"}

(* A caller that waits for the connection goes on with a transport that is  *)
(* up, or was; one that waits for its end too knows that the client is not  *)
(* connected when it goes on.                                               *)
CarefulCaller ==
  /\ "waits_for_connection" \in caller /\ main \notin {"subscribe", "wait_connected"} =>
       link # "none"
  /\ {"waits_for_connection", "awaits_closed"} \subseteq caller =>
    /\ main \in {"join", "release", "destroy_ioc", "returned"} => ~connected
    /\ main # "terminated"

(* The handlers are over once main has joined the IO thread, and a process  *)
(* that died did so with both threads.                                      *)
Joined ==
  /\ main \in {"release", "destroy_ioc", "returned", "terminated"} => io = "ended"
  /\ main = "died" => io = "died"

(* The inductive invariant.                                                 *)
Inductive ==
  /\ TypeOK /\ SetupFirst /\ LastCallback /\ ReadLoopArmed /\ OneReader
  /\ CloseAfterHandshake /\ Joined /\ CarefulCaller

USE ClientAssumption

LEMMA InitInductive == Init => Inductive
<1>. SUFFICES ASSUME Init PROVE Inductive
  OBVIOUS
<1>1. TypeOK
  <2>1. 0 \in 0..MaxMessages /\ 0 \in Nat
    OBVIOUS
  <2>. QED
    BY <2>1, Zenon DEF Init, TypeOK
<1>2. SetupFirst /\ LastCallback
  BY DEF Init, SetupFirst, LastCallback, Reading
<1>3. ReadLoopArmed /\ OneReader /\ CloseAfterHandshake /\ Joined /\ CarefulCaller
  BY DEF Init, ReadLoopArmed, OneReader, CloseAfterHandshake, Joined, CarefulCaller
<1>. QED
  BY <1>1, <1>2, <1>3 DEF Inductive

LEMMA MainPreserves == Inductive /\ (Main \/ interrupted) => Inductive'
<1>. SUFFICES ASSUME Inductive, Main \/ interrupted PROVE Inductive'
  OBVIOUS
<1>. USE DEF Inductive, TypeOK, SetupFirst, LastCallback, ReadLoopArmed, OneReader,
             CloseAfterHandshake, Joined, CarefulCaller, Reading, Setup, main_vars, io_vars, net_vars
<1>0. caller' = caller
  BY DEF Main, interrupted
<1>1. CASE subscribe
  BY <1>0, <1>1 DEF subscribe
<1>2. CASE wait_over
  BY <1>0, <1>2 DEF wait_over
<1>3. CASE interrupted
  BY <1>0, <1>3 DEF interrupted
<1>4. CASE disconnect_check
  BY <1>0, <1>4 DEF disconnect_check
<1>5. CASE disconnect_set_stop
  BY <1>0, <1>5 DEF disconnect_set_stop
<1>6. CASE disconnect_async_close
  BY <1>0, <1>6 DEF disconnect_async_close
<1>7. CASE ioc_stop
  BY <1>0, <1>7 DEF ioc_stop
<1>8. CASE join
  BY <1>0, <1>8 DEF join
<1>9. CASE release_client
  BY <1>0, <1>9 DEF release_client, destructor_leads_to
<1>10. CASE destroy_ioc
  BY <1>0, <1>10 DEF destroy_ioc, destructor_leads_to
<1>. QED
  BY <1>1, <1>2, <1>3, <1>4, <1>5, <1>6, <1>7, <1>8, <1>9, <1>10 DEF Main

(* One lemma for the three handlers that only pass the connection on.       *)
LEMMA SetupStepPreserves ==
  ASSUME Inductive,
         NEW op \in {"resolve", "connect", "ssl"},
         NEW next \in {"connect", "ssl", "handshake"},
         setup_step(op, next), UNCHANGED caller
  PROVE  Inductive'
<1>1. PICK ok \in BOOLEAN :
        pending' = (pending \ {op}) \cup (IF ok THEN {next} ELSE {})
  BY DEF setup_step
<1>2. /\ pending \cap Setup = {op} /\ link = "none"
      /\ UNCHANGED <<main_vars, io_vars, net_vars>>
  BY DEF setup_step, dispatches, Inductive, SetupFirst, Setup
<1>3. pending' \cap Setup \subseteq {next} /\ ("read" \in pending' <=> "read" \in pending)
  BY <1>1, <1>2 DEF Setup
<1>. QED
  BY <1>1, <1>2, <1>3 DEF Inductive, TypeOK, SetupFirst, LastCallback, ReadLoopArmed,
     OneReader, CloseAfterHandshake, Joined, CarefulCaller, Reading, Setup, main_vars, io_vars,
     net_vars, setup_step, dispatches

LEMMA IOPreserves == Inductive /\ IO => Inductive'
<1>. SUFFICES ASSUME Inductive, IO PROVE Inductive'
  OBVIOUS
<1>0. caller' = caller
  BY DEF IO
<1>1. CASE on_resolve \/ on_connect \/ on_ssl_handshake
  BY <1>0, <1>1, SetupStepPreserves DEF on_resolve, on_connect, on_ssl_handshake
<1>. USE DEF Inductive, TypeOK, SetupFirst, LastCallback, ReadLoopArmed, OneReader,
             CloseAfterHandshake, Joined, CarefulCaller, Reading, Setup, main_vars, io_vars, net_vars,
             dispatches
<1>2. CASE on_handshake
  <2>1. pending \cap Setup = {"handshake"} /\ link = "none" /\ ~Reading
    BY <1>0, <1>2 DEF on_handshake
  <2>2. pending' \cap Setup = {} /\ "read" \notin pending'
    BY <1>2, <2>1 DEF on_handshake
  <2>3. main \in {"wait_connected", "wait_signal", "disconnect", "disconnected", "join"}
    BY <1>2, <2>1 DEF on_handshake
  <2>4. CASE UNCHANGED <<connected, io, link>>
    BY <1>0, <1>2, <2>1, <2>2, <2>4 DEF on_handshake
  <2>5. CASE connected' = TRUE /\ io' = "do_read" /\ link' = "up"
    BY <1>0, <1>2, <2>1, <2>2, <2>3, <2>5 DEF on_handshake
  <2>. QED
    BY <1>0, <1>2, <2>4, <2>5 DEF on_handshake
<1>3. CASE do_read
  BY <1>0, <1>3 DEF do_read
<1>4. CASE on_read_message
  BY <1>0, <1>4 DEF on_read_message
<1>5. CASE on_read_error
  BY <1>0, <1>5 DEF on_read_error
<1>6. CASE parse_message
  BY <1>0, <1>6 DEF parse_message
<1>7. CASE parse_message_dies
  BY <1>0, <1>7 DEF parse_message_dies
<1>8. CASE on_read_check_stop
  BY <1>0, <1>8 DEF on_read_check_stop
<1>9. CASE on_close
  BY <1>0, <1>9 DEF on_close
<1>10. CASE run_returns
  BY <1>0, <1>10 DEF run_returns
<1>. QED
  BY <1>1, <1>2, <1>3, <1>4, <1>5, <1>6, <1>7, <1>8, <1>9, <1>10 DEF IO

LEMMA PeerPreserves == Inductive /\ Peer => Inductive'
<1>. USE DEF Inductive, TypeOK, SetupFirst, LastCallback, ReadLoopArmed, OneReader,
             CloseAfterHandshake, Joined, CarefulCaller, Reading, Setup, main_vars, io_vars, net_vars
<1>1. ASSUME Inductive, peer_sends, UNCHANGED caller PROVE Inductive'
  BY <1>1 DEF peer_sends
<1>2. ASSUME Inductive, peer_closes, UNCHANGED caller PROVE Inductive'
  BY <1>2 DEF peer_closes
<1>3. ASSUME Inductive, peer_dies, UNCHANGED caller PROVE Inductive'
  BY <1>3 DEF peer_dies
<1>. QED
  BY <1>1, <1>2, <1>3 DEF Peer

LEMMA StutterPreserves == Inductive /\ UNCHANGED vars => Inductive'
BY DEF Inductive, TypeOK, SetupFirst, LastCallback, ReadLoopArmed, OneReader,
  CloseAfterHandshake, Joined, CarefulCaller, Reading, vars, main_vars, io_vars, net_vars

LEMMA AlwaysInductive == Spec => []Inductive
<1>1. Inductive /\ [Next]_vars => Inductive'
  BY MainPreserves, IOPreserves, PeerPreserves, StutterPreserves DEF Next
<1>. QED
  BY InitInductive, <1>1, PTL DEF Spec

(* The threads, the flags and the transport are where TypeOK says.          *)
THEOREM TypeCorrect == Spec => []TypeOK
<1>1. Inductive => TypeOK
  BY DEF Inductive
<1>. QED
  BY AlwaysInductive, <1>1, PTL

(* Between two handlers a connected client that nobody asked to stop has    *)
(* its read under way, and never a second one, whatever parse_message made  *)
(* of the messages before, as long as it returned.                          *)
THEOREM OneReadAlwaysArmed == Spec => [](ReadLoopArmed /\ OneReader)
<1>1. Inductive => ReadLoopArmed /\ OneReader
  BY DEF Inductive
<1>. QED
  BY AlwaysInductive, <1>1, PTL

(* No two reads are ever under way on one stream, nor a read during a step  *)
(* of the connection.                                                       *)
THEOREM NeverTwoReads == Spec => []OneReader
<1>1. Inductive => OneReader
  BY DEF Inductive
<1>. QED
  BY AlwaysInductive, <1>1, PTL

(* At most one callback is entered after disconnect() set should_stop_.     *)
THEOREM OneCallbackAfterStop == Spec => []AtMostOneAfterStop
<1>1. Inductive => AtMostOneAfterStop
  BY SMT DEF Inductive, TypeOK, LastCallback, AtMostOneAfterStop
<1>. QED
  BY AlwaysInductive, <1>1, PTL

(* disconnect() never initiates the close of a stream that was never open.  *)
THEOREM ClosesWhatWasOpen == Spec => []CloseAfterHandshake
<1>1. Inductive => CloseAfterHandshake
  BY DEF Inductive
<1>. QED
  BY AlwaysInductive, <1>1, PTL

(* A caller that waits until the client is connected before it disconnects, *)
(* and until it is not before it stops the io_context, never terminates.    *)
THEOREM CarefulCallerReturns == Spec => []CarefulNeverTerminates
<1>1. Inductive => CarefulNeverTerminates
  BY DEF Inductive, CarefulCaller, CarefulNeverTerminates
<1>. QED
  BY AlwaysInductive, <1>1, PTL

(* Only the last handler of the set-up makes the client connected, and once *)
(* a transport was up no set-up is under way.                               *)
LEMMA OnlyHandshakeConnects ==
  ASSUME Inductive, [Next]_vars, link # "none", ~connected
  PROVE  ~(connected')
<1>. USE DEF main_vars, io_vars, net_vars
<1>1. CASE Main
  BY <1>1 DEF Main, subscribe, wait_over, disconnect_check, disconnect_set_stop,
     disconnect_async_close, ioc_stop, join, release_client, destroy_ioc
<1>2. CASE interrupted
  BY <1>2 DEF interrupted
<1>3. CASE Peer
  BY <1>3 DEF Peer, peer_sends, peer_closes, peer_dies
<1>4. CASE IO
  <2>1. pending \cap Setup = {}
    BY DEF Inductive, SetupFirst
  <2>2. ~on_handshake
    BY <2>1 DEF on_handshake, dispatches, Setup
  <2>. QED
    BY <1>4, <2>2 DEF IO, on_resolve, on_connect, on_ssl_handshake, setup_step, do_read,
       on_read_message, on_read_error, parse_message, parse_message_dies, on_read_check_stop,
       on_close, run_returns
<1>5. CASE UNCHANGED vars
  BY <1>5 DEF vars
<1>. QED
  BY <1>1, <1>2, <1>3, <1>4, <1>5 DEF Next

(* After the wait for the connection its end is final: a client that is not *)
(* connected stays so, with the peer's close as with disconnect()'s.        *)
THEOREM DisconnectStaysFinal == Spec => DisconnectIsFinal
<1>. DEFINE Final ==
       ( /\ "waits_for_connection" \in caller
         /\ main \notin {"subscribe", "wait_connected"}
         /\ ~connected )
       => ~(connected')
<1>1. Inductive /\ [Next]_vars => [Final]_vars
  <2>. SUFFICES ASSUME Inductive, [Next]_vars,
                       "waits_for_connection" \in caller,
                       main \notin {"subscribe", "wait_connected"},
                       ~connected
                PROVE  ~(connected')
    OBVIOUS
  <2>1. link # "none"
    BY DEF Inductive, CarefulCaller
  <2>. QED
    BY <2>1, OnlyHandshakeConnects
<1>. QED
  BY AlwaysInductive, <1>1, PTL DEF Spec, DisconnectIsFinal
=============================================================================
