----------------------------- MODULE DisplayLife -----------------------------
(***************************************************************************)
(* The main loop and the HTTP client implement RequestLife.                *)
(***************************************************************************)
EXTENDS DisplayInv

StageOf(status) ==
  CASE status \in WifiStates            -> "joining"
    [] status = "DNS"                   -> "lookup"
    [] status \in {"CONNECT", "REQUEST"} -> "connecting"
    [] status = "RESPONSE_STATUS"       -> "status"
    [] status = "HEADERS"               -> "headers"
    [] status = "DATA"                  -> "body"
    [] status \in EndStates             -> "ended"

RequestStage ==
  IF tainted THEN "undefined"
  ELSE IF http_request = NULL THEN "none"
  ELSE StageOf(mem[http_request].status)

Life == INSTANCE RequestLife WITH stage <- RequestStage, up <- ~halted

\* Whatever the order of calls, callbacks, timeouts and failures, the request
\* only moves forward through the stages of httpclient_status_t, and the main
\* loop gives it up only at the end.  (Within "joining" it may go back and forth
\* between WIFI and WIFI_INIT, httpclient.c:679-694.)
LivesForward == Life!Spec
=============================================================================
