---------------------------- MODULE MCWebSocket ----------------------------
(* Instances of the WebSocket client for TLC: the .cfg files choose the     *)
(* programs that use it.                                                    *)
EXTENDS WebSocketProperties

AllCallers == SUBSET Habits
TestProgram == {{}}
PatientProgram == {{"waits_for_connection"}}
CarefulProgram == {{"waits_for_connection", "awaits_closed"}}
=============================================================================
