--------------------------- MODULE MC_ErrorBridge ---------------------------
(* ErrorBridge with two errors that can be told apart. *)
EXTENDS ErrorBridge
CONSTANTS e1, e2
TwoErrors == {e1, e2}
=============================================================================
