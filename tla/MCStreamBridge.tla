--------------------------- MODULE MCStreamBridge ---------------------------
(* Values for model checking StreamBridge.                                  *)
EXTENDS StreamBridge

\* All bridges, with three indices for tools.
MCTools == {0, 1, 2}
MCParams == {"max_tokens", "temperature", "top_p", "top_k"}
=============================================================================
