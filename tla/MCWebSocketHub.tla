--------------------------- MODULE MCWebSocketHub ---------------------------
(* Instances of WebSocketHub for TLC. *)
EXTENDS WebSocketHub

CONSTANTS c1, b1, b2

OneClient == {c1}
=============================================================================
