------------------------------ MODULE DisplayInv ------------------------------
(***************************************************************************)
(* The inductive invariant behind the safety properties of Display: each   *)
(* conjunct is named for what it says of the request's life.               *)
(***************************************************************************)
EXTENDS Display

\* The request is read and freed where the main loop waits for it.
PcInv ==
  pc \in {"fetch", "close"} =>
    /\ http_request # NULL
    /\ app_state = "ST_WAIT_RESPONSE"
    /\ http_state \in EndStates

\* http_state belongs to the open request.
StateFresh == http_request = NULL => http_state \notin NetStates

\* The first half of the invariant: the heap, whatever callbacks do to it.
HeapInv == TypeOK /\ ClientInv /\ RequestNotLeaked /\ PcInv /\ StateFresh

------------------------------------------------------------------------------
(* The second half: connections and the requests they call back to. *)

\* Nothing has yet happened that leaves the program's behaviour undefined.
Sane == ~tainted /\ ~halted

\* A pcb is in use exactly when callbacks are registered with it.
ArgWhenUsed == \A p \in Pcb : InUse(p) <=> pcb[p].arg # NULL

\* A lookup in progress is the open request's, and it waits for it.
LookupPending == \A a \in dns : a \in live /\ mem[a].status = "DNS"

\* What the main loop has seen ended has ended.
ReadWhenEnded ==
  pc \in {"fetch", "close"} => mem[http_request].status \in EndStates

\* The life of the open request and of its pcb, state by state.
OpenRequest(r) ==
  /\ r.status \in WifiStates => r.pcb = NULL
  /\ r.status = "DNS" =>
       /\ http_request \in dns
       /\ r.pcb # NULL => pcb[r.pcb].st = "idle"
  /\ r.status \in NetStates \ {"DNS"} => r.pcb # NULL /\ Connected(r.pcb)
  /\ r.status \in {"RESPONSE_STATUS", "HEADERS", "DATA"} => pcb[r.pcb].st = "est"
  /\ r.status \in DoneStates /\ r.pcb # NULL => pcb[r.pcb].st = "est" /\ pcb[r.pcb].acks = 0
  /\ r.status = "FAILED" => r.pcb = NULL
  /\ r.pcb # NULL => pcb[r.pcb].arg = http_request

\* While a request is open, the only pcb in use is its own.
OnlyItsPcb ==
  http_request # NULL =>
    \A p \in Pcb : InUse(p) => pcb[p].arg = http_request /\ mem[http_request].pcb = p

\* A pcb left over from a freed request is connected and quiet, will be closed
\* by its poll timer, and that before the main loop wakes up.
Leftover(p) ==
  /\ pcb[p].st = "est"
  /\ pcb[p].acks = 0
  /\ mem[pcb[p].arg].pcb = p
  /\ mem[pcb[p].arg].status \in DoneStates
  /\ app_state \in {"ST_HANDLE_RESPONSE", "ST_TRANSITION", "ST_SLEEP"}
  /\ app_state = "ST_SLEEP" => wait >= PollTicks - pcb[p].poll

OthersLeftOver ==
  http_request = NULL => \A p \in Pcb : InUse(p) => Leftover(p)

ConnectionsInv ==
  /\ ArgWhenUsed
  /\ LookupPending
  /\ http_request # NULL => OpenRequest(mem[http_request])
  /\ ReadWhenEnded
  /\ OnlyItsPcb
  /\ OthersLeftOver

Connections == Sane => ConnectionsInv

IInv == HeapInv /\ Connections
=============================================================================
