---------------------------- MODULE ResponseStream ----------------------------
(***************************************************************************)
(* One request and the response stream of its connection: every way TCP    *)
(* can cut a response into segments, for responses longer than Display can *)
(* afford, until the request is done or the connection is gone.            *)
(***************************************************************************)
EXTENDS HttpResponse

CONSTANT Served    \* the responses [code, clen] a server may send

ASSUME ServedAssumption ==
  Served # {} /\ \A v \in Served : v.code \in Nat /\ v.clen \in Nat

VARIABLES
  request,  \* the fields of the request structure that receiving touches
  served,   \* the response on its way
  pos,      \* the units of it received so far
  first,    \* the length of the first segment, 0 before it
  leaks,    \* segments whose p_buf was neither freed nor handed on
  open      \* are the callbacks still registered?

vars == <<request, served, pos, first, leaks, open>>

Init ==
  /\ request = [status |-> "RESPONSE_STATUS", code |-> 0, cap |-> -1, len |-> 0, clen |-> 0]
  /\ served \in Served
  /\ pos = 0
  /\ first = 0
  /\ leaks = 0
  /\ open = TRUE

\* httpclient_recv_callback on the next segment, up to unit "to".
Receive(to) ==
  /\ open
  /\ LET s == [from |-> pos, to |-> to, code |-> served.code, clen |-> served.clen]
     IN \E o \in RecvOutcomes(request, s) :
          /\ request' = o.req
          /\ open' = ~o.failed
          /\ leaks' = IF o.leaks THEN leaks + 1 ELSE leaks
  /\ pos' = to
  /\ first' = IF first = 0 THEN to ELSE first
  /\ UNCHANGED served

\* ... and on a NULL p_buf, at the end of the response or before it.
Finish ==
  /\ open
  /\ request' = [request EXCEPT !.status = "COMPLETE"]
  /\ open' = FALSE
  /\ UNCHANGED <<served, pos, first, leaks>>

Next == Finish \/ \E to \in (pos + 1) .. Total(served.clen) : Receive(to)

Spec == Init /\ [][Next]_vars

------------------------------------------------------------------------------
(* Properties *)

\* Wherever the response was cut, the body copied so far is all of the body
\* received so far: nothing is skipped and no header is taken for the body.
NothingLost == request.status = "DATA" => request.len = pos - HeaderUnits

\* A response that completes by its length (the connection is still open) holds
\* as much of the body as the limit allows, unless its length has wrapped.
CompleteIsWhole ==
  open /\ request.status = "COMPLETE" /\ served.clen < Unset =>
    request.len = Least(MaxSize, served.clen)

\* When the headers arrive in one segment with the beginning of the body, and
\* the body is not empty and fits, the rest may be cut in any way: the code is
\* right, the response completes with its last unit, and no buffer is lost.
UncutIsRead ==
  first > HeaderUnits /\ served.clen \in 1 .. MaxSize /\ request.status # "FAILED" =>
    /\ request.code = served.code
    /\ pos = Total(served.clen) => request.status = "COMPLETE" /\ request.len = served.clen
    /\ leaks = 0

=============================================================================
