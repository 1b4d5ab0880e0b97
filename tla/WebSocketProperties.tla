------------------------ MODULE WebSocketProperties ------------------------
(* What the client owes its user, stated over WebSocketClient.              *)
EXTENDS WebSocketClient

(* Where the threads, the flags and the transport can be.                   *)
TypeOK ==
  /\ caller \in Callers
  /\ main \in {"subscribe", "wait_connected", "wait_signal", "disconnect",
               "set_stop", "async_close", "disconnected", "join", "release",
               "destroy_ioc", "returned", "terminated", "died"}
  /\ io \in {"off", "run", "do_read", "parse", "check_stop", "ended", "died"}
  /\ pending \subseteq Setup \cup {"read", "close"}
  /\ connected \in BOOLEAN /\ should_stop \in BOOLEAN /\ stopped \in BOOLEAN
  /\ link \in {"none", "up", "peer_closed", "dead", "down"}
  /\ sent \in 0..MaxMessages /\ inbox \in 0..MaxMessages
  /\ after_stop \in Nat

(* While the client counts as connected and nobody asked it to stop, a read *)
(* is under way whenever the IO thread is between two handlers: no message  *)
(* from which parse_message returns ends the read loop.  (One that lacks a  *)
(* key it reads may end the whole process there.)                           *)
ReadLoopArmed ==
  connected /\ ~should_stop /\ io = "run" => "read" \in pending

(* Never two reads on the stream, nor a read next to a connection step: a   *)
(* handler on its way to do_read() is the only reader.                      *)
OneReader ==
  /\ io \in {"parse", "check_stop", "do_read"} => "read" \notin pending
  /\ ("read" \in pending \/ io \in {"parse", "check_stop", "do_read"}) =>
       pending \cap Setup = {}

(* disconnect() lets at most one more message through to the callback.      *)
AtMostOneAfterStop == after_stop <= 1

(* async_close() is only initiated on a stream that has been opened, however *)
(* the test of connected_ in disconnect() falls among the IO thread's steps. *)
CloseAfterHandshake ==
  ("close" \in pending \/ main \in {"set_stop", "async_close"}) => link # "none"

(* A program that waits until the client is connected before it disconnects *)
(* it, and until it is not before it stops the io_context, never ends in    *)
(* std::terminate: the destructor does not find the client still connected. *)
CarefulNeverTerminates ==
  {"waits_for_connection", "awaits_closed"} \subseteq caller => main # "terminated"

(* For a program that waited until the client was connected, the end of the *)
(* connection is final, whether the peer closed it or disconnect() did: no  *)
(* handler that is still under way makes the client connected again.        *)
DisconnectIsFinal ==
  [][ ( /\ "waits_for_connection" \in caller
        /\ main \notin {"subscribe", "wait_connected"}
        /\ ~connected )
      => ~(connected') ]_vars

(* disconnect() leads the program to its end, even if the peer is dead; its *)
(* end may be that of the process in a message that lacks a key.  A program *)
(* that polls is_connected() afterwards needs more for that: it had to be   *)
(* connected, and something has to keep the IO thread alive.                *)
ShutdownCompletes ==
  ( /\ main = "disconnect"
    /\ "awaits_closed" \in caller =>
         {"waits_for_connection", "other_work"} \subseteq caller )
  ~> main \in {"returned", "terminated", "died"}

(* A message that has arrived is read, unless the client is disconnected,   *)
(* by either side, or its io_context stopped first, or a message before it  *)
(* lacks a key and ends the process.                                        *)
MessagesAreRead ==
  inbox > 0 ~> inbox = 0 \/ should_stop \/ stopped \/ ~connected \/ main = "died"
-----------------------------------------------------------------------------
(* What the repository says and the code does not do.                       *)

(* The program ends without std::terminate.                                 *)
NoTerminate == main # "terminated"

(* After disconnect() the client does not become connected.                 *)
StaysDisconnected ==
  [][(main \in {"disconnected", "join"} /\ ~connected) => ~(connected')]_vars

(* A client whose disconnect() was called is not connected in the end, if   *)
(* its process lives.                                                       *)
DisconnectDisconnects == main = "disconnected" ~> ~connected \/ main = "died"
=============================================================================
