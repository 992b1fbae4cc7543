----------------------------- MODULE HttpClient -----------------------------
(***************************************************************************)
(* The HTTP client (opt/httpclient.c) and the parts of lwIP it talks to.   *)
(*                                                                         *)
(* The main loop calls open2, check, get_response and close; everything    *)
(* else happens in callbacks that lwIP runs from an interrupt and that may *)
(* therefore come between any two steps of the main loop.  A callback is   *)
(* given the address of the request it was registered with.  Nothing tells *)
(* it whether the request still lives there: the addresses, what they hold *)
(* after free, and what the registered pcbs point to are all part of the   *)
(* state here.                                                             *)
(*                                                                         *)
(* Time passes in ticks of five seconds, in the action Tick of the module  *)
(* that composes this one with the main loop.                              *)
(***************************************************************************)
EXTENDS HttpResponse

CONSTANTS
  Addr,        \* heap addresses at which a request may be allocated
  Pcb,         \* lwIP protocol control blocks
  NULL,        \* the null pointer
  Served,      \* the responses [code, clen] a server may send
  PollTicks,   \* PCBP_HTTP_TIMEOUT_SECS, in ticks
  RetryTicks,  \* PCBP_HTTP_WIFI_RETRY_MS, in ticks
  Flights,     \* acknowledged flights of the (TLS) handshake
  Tls,         \* is the URL an https:// one?
  PoolSize,    \* PBUF_POOL_SIZE
  OpenMayFail  \* may open2 return NULL (no memory, or an unknown scheme)?

ASSUME ClientAssumption ==
  /\ NULL \notin Addr \cup Pcb
  /\ \A v \in Served : v.code \in Nat /\ v.clen \in Nat
  /\ Served # {}
  /\ PollTicks \in Nat \ {0}
  /\ RetryTicks \in Nat
  /\ Flights \in Nat
  /\ PoolSize \in Nat
  /\ Tls \in BOOLEAN
  /\ OpenMayFail \in BOOLEAN

VARIABLES
  mem,       \* the request structure each address holds (or last held)
  live,      \* the addresses allocated to a request
  scribbled, \* freed addresses that something else has overwritten since
  pcb,       \* the control blocks, each with the argument of its callbacks
  dns,       \* requests with a lookup in progress
  link,      \* cyw43_tcpip_link_status
  leaked,    \* receive buffers no longer available to the driver
  tainted,   \* has a callback used overwritten memory since the last boot?
  halted     \* did the program end in a fault or an uncaught exception?

clientVars == <<mem, live, scribbled, pcb, dns, link, leaked, tainted, halted>>

------------------------------------------------------------------------------
(* httpclient_status_t, in the groups main.cpp makes of it. *)

WifiStates   == {"NONE", "WIFI_INIT", "WIFI"}
NetStates    == {"DNS", "CONNECT", "REQUEST", "RESPONSE_STATUS", "HEADERS", "DATA"}
DoneStates   == {"TRUNCATED", "COMPLETE"}
EndStates    == DoneStates \cup {"FAILED"}
Status       == WifiStates \cup NetStates \cup EndStates

\* The structure as memset leaves it, with a NULL response buffer.
EmptyRequest ==
  [status |-> "NONE", code |-> 0, cap |-> -1, len |-> 0, clen |-> 0,
   sendbuf |-> FALSE, pcb |-> NULL, retry |-> 0]

FreePcb == [st |-> "free", arg |-> NULL, poll |-> 0, acks |-> 0, pos |-> 0,
            code |-> 0, clen |-> 0]

Connected(p) == pcb[p].st \in {"syn", "est"}
InUse(p)     == pcb[p].st # "free"

ClientInit ==
  /\ mem = [a \in Addr |-> EmptyRequest]
  /\ live = {}
  /\ scribbled = {}
  /\ pcb = [p \in Pcb |-> FreePcb]
  /\ dns = {}
  /\ link = "DOWN"
  /\ leaked = 0
  /\ tainted = FALSE
  /\ halted = FALSE

------------------------------------------------------------------------------
(* Steps shared by the calls and the callbacks.  "r" is the request        *)
(* structure as it is in the middle of a call, at address "a".             *)

\* httpclient_close_pcb: the callbacks are removed and lwIP lets go of it.
Close(pcbs, q) == IF q = NULL THEN pcbs ELSE [pcbs EXCEPT ![q] = FreePcb]

Fail(r, a, pcbs) ==
  /\ mem' = [mem EXCEPT ![a] = [r EXCEPT !.status = "FAILED", !.pcb = NULL]]
  /\ pcb' = Close(pcbs, r.pcb)

\* httpclient_connect.  altcp_connect refuses a NULL pcb, and may fail.
Connect(r, a, pcbs) ==
  \/ /\ r.pcb # NULL
     /\ mem' = [mem EXCEPT ![a] = [r EXCEPT !.status = "CONNECT"]]
     /\ pcb' = [pcbs EXCEPT ![r.pcb].st = "syn", ![r.pcb].acks = Flights]
  \/ Fail(r, a, pcbs)

\* dns_gethostbyname: in progress, known already, or refused.
Lookup(r, a, pcbs) ==
  \/ /\ mem' = [mem EXCEPT ![a] = [r EXCEPT !.status = "DNS"]]
     /\ pcb' = pcbs
     /\ dns' = dns \cup {a}
  \/ /\ Connect(r, a, pcbs)
     /\ UNCHANGED dns
  \/ /\ Fail(r, a, pcbs)
     /\ UNCHANGED dns

\* httpclient_start_request.  With TLS the pcb is used before any check.
StartRequest(r, a) ==
  \/ \E p \in Pcb :
       /\ ~InUse(p)
       /\ Lookup([r EXCEPT !.pcb = p], a,
                 [pcb EXCEPT ![p].st = "idle", ![p].arg = a])
       /\ UNCHANGED halted
  \/ /\ ~Tls
     /\ Lookup([r EXCEPT !.pcb = NULL], a, pcb)
     /\ UNCHANGED halted
  \/ /\ Tls
     /\ halted' = TRUE
     /\ mem' = [mem EXCEPT ![a] = r]
     /\ UNCHANGED <<pcb, dns>>

------------------------------------------------------------------------------
(* The calls the main loop makes. *)

\* httpclient_open2, where it returns a request at address a.
Open2(a) ==
  /\ a \notin live
  /\ live' = live \cup {a}
  /\ scribbled' = scribbled \ {a}
  /\ LET r == [EmptyRequest EXCEPT !.sendbuf = TRUE]
     IN \/ /\ link = "UP"
           /\ StartRequest(r, a)
        \/ /\ link # "UP"
           /\ mem' = [mem EXCEPT ![a] = [r EXCEPT !.status = "WIFI"]]
           /\ UNCHANGED <<pcb, dns, halted>>
  /\ UNCHANGED <<link, leaked, tainted>>

\* httpclient_check on the request at address a.
Check(a) ==
  LET r == mem[a]
  IN /\ \/ /\ r.status = "WIFI" /\ link = "FAIL"
           /\ mem' = [mem EXCEPT ![a].status = "WIFI_INIT", ![a].retry = RetryTicks]
           /\ UNCHANGED <<pcb, dns, halted>>
        \/ /\ r.status = "WIFI" /\ link = "UP"
           /\ StartRequest(r, a)
        \/ /\ r.status = "WIFI_INIT" /\ r.retry = 0
           /\ mem' = [mem EXCEPT ![a].status = "WIFI"]
           /\ UNCHANGED <<pcb, dns, halted>>
        \/ /\ ~(r.status = "WIFI" /\ link \in {"FAIL", "UP"})
           /\ ~(r.status = "WIFI_INIT" /\ r.retry = 0)
           /\ UNCHANGED <<mem, pcb, dns, halted>>
     /\ UNCHANGED <<live, scribbled, link, leaked, tainted>>

\* httpclient_get_response: the buffer, or NULL.
GetResponse(a) == IF mem[a].status \in DoneStates /\ mem[a].cap # -1
                    THEN a ELSE NULL

\* A lookup for the request at address a, or a pcb still registered for it.
Pending(a) == a \in dns \/ \E p \in Pcb : pcb[p].arg = a

\* httpclient_close frees the request and what it points to on the heap.  What
\* the freed structure holds matters only if a callback can still read it.
CloseRequest(a) ==
  /\ mem' = IF Pending(a)
              THEN [mem EXCEPT ![a].cap = -1, ![a].sendbuf = FALSE]
              ELSE [mem EXCEPT ![a] = EmptyRequest]
  /\ live' = live \ {a}
  /\ UNCHANGED <<scribbled, pcb, dns, link, leaked, tainted, halted>>

\* Other users of the heap may overwrite any freed request.
Scribble == \E S \in SUBSET (Addr \ live) : scribbled' = scribbled \cup S

------------------------------------------------------------------------------
(* The callbacks. *)

\* A callback works on the structure at its argument for as long as nothing
\* has overwritten it, freed or not.
Readable(a) == a # NULL /\ a \notin scribbled

Running == ~halted

\* A receive buffer is needed for anything that arrives from the network.
CanReceive == Running /\ leaked < PoolSize

\* httpclient_dns_callback.  A lookup never outlives its request (FreedWhenEnded
\* in Display), so the structure at its argument is still there.
DnsCallback(a) ==
  /\ Running
  /\ a \in dns
  /\ dns' = dns \ {a}
  /\ \/ leaked < PoolSize /\ Connect(mem[a], a, pcb)
     \/ Fail(mem[a], a, pcb)                       \* no address: not found, or timeout
  /\ UNCHANGED <<live, scribbled, link, leaked, tainted, halted>>

\* httpclient_connect_callback
ConnectCallback(p) ==
  /\ CanReceive
  /\ pcb[p].st = "syn"
  /\ Readable(pcb[p].arg)
  /\ LET a == pcb[p].arg
         r == mem[a]
     IN \/ \E v \in Served :
             /\ mem' = [mem EXCEPT ![a].status = "RESPONSE_STATUS",
                                   ![a].sendbuf = FALSE]
             /\ pcb' = [pcb EXCEPT ![p].st = "est", ![p].acks = 1,
                                   ![p].code = v.code, ![p].clen = v.clen]
        \/ Fail(r, a, pcb)                         \* an error, or altcp_write failed
  /\ UNCHANGED <<live, scribbled, dns, link, leaked, tainted, halted>>

\* The peer acknowledges a flight of ours, which restarts the poll timer.
Acked(p) ==
  /\ CanReceive
  /\ Connected(p)
  /\ pcb[p].acks > 0
  /\ pcb' = [pcb EXCEPT ![p].acks = @ - 1, ![p].poll = 0]
  /\ UNCHANGED <<mem, live, scribbled, dns, link, leaked, tainted, halted>>

\* The next segment: any further part of the response.
Segments(p) ==
  {[from |-> pcb[p].pos, to |-> n, code |-> pcb[p].code, clen |-> pcb[p].clen] :
     n \in (pcb[p].pos + 1) .. Total(pcb[p].clen)}

\* lwIP's side of it: the stream advances, and the first segment acknowledges
\* the request.
Received(p, s) ==
  [pcb EXCEPT ![p].pos = s.to, ![p].acks = 0,
              ![p].poll = IF pcb[p].acks > 0 THEN 0 ELSE @]

\* httpclient_recv_callback on data
RecvCallback(p) ==
  /\ CanReceive
  /\ pcb[p].st = "est"
  /\ Readable(pcb[p].arg)
  /\ LET a == pcb[p].arg
     IN \E s \in Segments(p) : \E o \in RecvOutcomes(mem[a], s) :
          /\ IF o.failed
               THEN /\ mem' = [mem EXCEPT ![a] = [o.req EXCEPT !.pcb = NULL]]
                    /\ pcb' = Close(Received(p, s), mem[a].pcb)
               ELSE /\ mem' = [mem EXCEPT ![a] = o.req]
                    /\ pcb' = Received(p, s)
          /\ leaked' = IF o.leaks THEN leaked + 1 ELSE leaked
  /\ UNCHANGED <<live, scribbled, dns, link, tainted, halted>>

\* httpclient_recv_callback with a NULL p_buf: the peer has closed.
FinCallback(p) ==
  /\ CanReceive
  /\ pcb[p].st = "est"
  /\ Readable(pcb[p].arg)
  /\ LET a == pcb[p].arg
     IN /\ mem' = [mem EXCEPT ![a].status = "COMPLETE", ![a].pcb = NULL]
        /\ pcb' = Close(pcb, mem[a].pcb)
  /\ UNCHANGED <<live, scribbled, dns, link, leaked, tainted, halted>>

\* httpclient_poll_callback: the connection has been quiet for too long.
PollDue(p) == Connected(p) /\ pcb[p].poll = PollTicks

PollCallback_KeepsWaiting(p) ==
  /\ Running
  /\ PollDue(p)
  /\ Readable(pcb[p].arg)
  /\ pcb' = [pcb EXCEPT ![p].poll = 0]
  /\ UNCHANGED <<mem, live, scribbled, dns, link, leaked, tainted, halted>>

PollCallback_StatusKept(p) ==
  /\ Running
  /\ PollDue(p)
  /\ Readable(pcb[p].arg)
  /\ LET a == pcb[p].arg
     IN /\ mem' = [mem EXCEPT ![a].pcb = NULL]
        /\ pcb' = Close(pcb, mem[a].pcb)
  /\ UNCHANGED <<live, scribbled, dns, link, leaked, tainted, halted>>

PollCallback(p) ==
  /\ Running
  /\ PollDue(p)
  /\ Readable(pcb[p].arg)
  /\ LET a == pcb[p].arg
     IN /\ mem' = [mem EXCEPT ![a].status = "TRUNCATED", ![a].pcb = NULL]
        /\ pcb' = Close([pcb EXCEPT ![p].poll = 0], mem[a].pcb)
  /\ UNCHANGED <<live, scribbled, dns, link, leaked, tainted, halted>>

\* httpclient_err_callback: a reset, or retransmissions given up.  lwIP has
\* already freed the pcb when it calls.
ErrCallback_StartsOver(p) ==
  /\ Running
  /\ Connected(p)
  /\ Readable(pcb[p].arg)
  /\ mem' = [mem EXCEPT ![pcb[p].arg].status = "WIFI", ![pcb[p].arg].pcb = NULL]
  /\ pcb' = [pcb EXCEPT ![p] = FreePcb]
  /\ UNCHANGED <<live, scribbled, dns, link, leaked, tainted, halted>>

ErrCallback(p) ==
  /\ Running
  /\ Connected(p)
  /\ Readable(pcb[p].arg)
  /\ LET a == pcb[p].arg
     IN Fail(mem[a], a, [pcb EXCEPT ![p] = FreePcb])
  /\ UNCHANGED <<live, scribbled, dns, link, leaked, tainted, halted>>

\* Any callback of a pcb whose argument has been overwritten: the fields it
\* reads are someone else's data.  It faults, or writes a status there and
\* goes on, perhaps keeping a buffer; the pcb stays registered and its poll
\* timer starts again.
CallbackOnOverwritten(p) ==
  /\ Running
  /\ Connected(p)
  /\ pcb[p].arg \in scribbled
  /\ tainted' = TRUE
  /\ halted' \in BOOLEAN
  /\ pcb' = [pcb EXCEPT ![p].poll = 0]
  /\ leaked' \in leaked .. Least(PoolSize, leaked + 1)
  /\ UNCHANGED <<mem, live, scribbled, dns, link>>

\* The WiFi link comes, goes and fails as it likes.
LinkChange ==
  /\ Running
  /\ link' \in {"UP", "FAIL", "DOWN"} \ {link}
  /\ UNCHANGED <<mem, live, scribbled, pcb, dns, leaked, tainted, halted>>

Callback ==
  \/ \E a \in Addr : DnsCallback(a)
  \/ \E p \in Pcb : \/ ConnectCallback(p) \/ Acked(p) \/ RecvCallback(p)
                    \/ FinCallback(p) \/ PollCallback(p) \/ ErrCallback(p)
                    \/ CallbackOnOverwritten(p)

------------------------------------------------------------------------------
(* What a tick does to the client's timers. *)

Countdown(n) == IF n > 0 THEN n - 1 ELSE 0

ClientTick ==
  /\ \A p \in Pcb : ~PollDue(p)
  /\ pcb' = [p \in Pcb |-> IF Connected(p) THEN [pcb[p] EXCEPT !.poll = @ + 1]
                                           ELSE pcb[p]]
  /\ mem' = [a \in Addr |-> IF a \in live THEN [mem[a] EXCEPT !.retry = Countdown(@)]
                                          ELSE mem[a]]
  /\ UNCHANGED <<live, scribbled, dns, link, leaked, tainted, halted>>

Request ==
  [status : Status, code : Nat, cap : -1 .. MaxSize, len : 0 .. MaxSize,
   clen : 0 .. Unset, sendbuf : BOOLEAN, pcb : Pcb \cup {NULL},
   retry : 0 .. RetryTicks]

ControlBlock ==
  [st : {"free", "idle", "syn", "est"}, arg : Addr \cup {NULL},
   poll : 0 .. PollTicks, acks : Nat, pos : Nat, code : Nat, clen : Nat]

ClientType ==
  /\ mem \in [Addr -> Request]
  /\ live \subseteq Addr
  /\ scribbled \subseteq Addr \ live
  /\ pcb \in [Pcb -> ControlBlock]
  /\ dns \subseteq Addr
  /\ link \in {"UP", "FAIL", "DOWN"}
  /\ leaked \in 0 .. PoolSize
  /\ tainted \in BOOLEAN
  /\ halted \in BOOLEAN

\* Every request structure, freed or not, is within the length announced, and
\* the open one within its buffer.
BodyBounded == \A a \in Addr : Bounded(mem[a])
BufferFits  == \A a \in live : Fits(mem[a])
ClientInv   == ClientType /\ BodyBounded /\ BufferFits
=============================================================================
