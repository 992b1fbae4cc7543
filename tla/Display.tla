------------------------------- MODULE Display -------------------------------
(***************************************************************************)
(* The main loop (main.cpp) polling the Zabbix server, composed with the   *)
(* HTTP client it uses.                                                    *)
(*                                                                         *)
(* One turn of the loop runs the case of the switch that app_state names.  *)
(* The callbacks of HttpClient interrupt it, so the one case that looks at *)
(* a request more than once is split where it looks again: "pc" is "iter"  *)
(* at the head of the loop, "fetch" when httpclient_check has reported the *)
(* response complete and it has yet to be read, and "close" when it has    *)
(* been read and the request has yet to be freed.                          *)
(***************************************************************************)
EXTENDS HttpClient

CONSTANTS
  SleepTicks,  \* the 10 s between a response and the next request, in ticks
  StateTicks,  \* the 15 s a request may spend in one state, in ticks
  Watchdog     \* is the watchdog enabled (WATCHDOG_TIMER # 0)?

\* The main loop sleeps for at least as long as lwIP's poll timer runs: ten
\* seconds each.  NoCrossTalk rests on this.
ASSUME DisplayAssumption ==
  /\ SleepTicks \in Nat
  /\ StateTicks \in Nat
  /\ PollTicks <= SleepTicks
  /\ Watchdog \in BOOLEAN

VARIABLES
  app_state,     \* the state of the main loop
  pc,            \* where it is in the turn
  http_request,  \* the open request, or NULL
  http_state,    \* what httpclient_check last returned
  wait,          \* wait_until - now in ticks; is_after holds below zero
  http_status,   \* the status of the last response, 0 failed, 408 timeout
  http_response, \* its body: units received, and whether that is all of it
  alerts         \* what is on display, likewise

mainVars == <<app_state, pc, http_request, http_state, wait, http_status,
              http_response, alerts>>
vars == <<clientVars, mainVars>>

NoResponse == [len |-> 0, whole |-> TRUE]
AppState == {"ST_DO_REQUEST", "ST_WAIT_RESPONSE", "ST_HANDLE_RESPONSE",
             "ST_TRANSITION", "ST_SLEEP"}

is_after == wait < 0

MainInit ==
  /\ app_state = "ST_DO_REQUEST"
  /\ pc = "iter"
  /\ http_request = NULL
  /\ http_state = "NONE"
  /\ wait = -1
  /\ http_status = 0
  /\ http_response = NoResponse
  /\ alerts = NoResponse

Init == ClientInit /\ MainInit

\* The loop is about to run the case of the switch for this state.
AtCase(state) == Running /\ pc = "iter" /\ app_state = state

------------------------------------------------------------------------------
(* ST_DO_REQUEST *)

DoRequest_Unchecked ==
  /\ AtCase("ST_DO_REQUEST")
  /\ app_state' = "ST_WAIT_RESPONSE"
  /\ \E a \in Addr : Open2(a) /\ http_request' = a
  /\ UNCHANGED <<pc, http_state, wait, http_status, http_response, alerts>>

DoRequest ==
  /\ AtCase("ST_DO_REQUEST")
  /\ app_state' = "ST_WAIT_RESPONSE"
  /\ \/ /\ http_request = NULL
        /\ \/ \E a \in Addr : Open2(a) /\ http_request' = a
           \/ /\ OpenMayFail
              /\ UNCHANGED <<clientVars, http_request>>
     \/ /\ http_request # NULL                     \* "BUG: http_request non-zero?"
        /\ UNCHANGED <<clientVars, http_request>>
  /\ UNCHANGED <<pc, http_state, wait, http_status, http_response, alerts>>

(* ST_WAIT_RESPONSE: what main.cpp makes of the status "s" that check      *)
(* returned.                                                               *)

StillJoining(s) ==
  /\ s \in WifiStates
  /\ UNCHANGED <<app_state, pc, wait, http_status>>

\* The deadline is looked at before a change of state moves it.
StillTalking_TimeoutFrees(s) ==
  /\ s \in NetStates
  /\ IF http_state \in NetStates /\ is_after
       THEN http_status' = 408 /\ pc' = "close"
       ELSE UNCHANGED <<http_status, pc>>
  /\ wait' = IF s # http_state THEN StateTicks ELSE wait
  /\ UNCHANGED app_state

StillTalking(s) ==
  /\ s \in NetStates
  /\ IF http_state \in NetStates /\ is_after
       THEN /\ http_status' = 408
            /\ app_state' = "ST_HANDLE_RESPONSE"
       ELSE UNCHANGED <<http_status, app_state>>
  /\ wait' = IF s # http_state THEN StateTicks ELSE wait
  /\ UNCHANGED pc

ResponseReady_OnlyComplete(s, code) ==
  /\ s = "COMPLETE"
  /\ http_status' = code
  /\ pc' = "fetch"
  /\ UNCHANGED <<app_state, wait>>

ResponseReady(s, code) ==
  /\ s \in DoneStates
  /\ http_status' = code
  /\ pc' = "fetch"
  /\ UNCHANGED <<app_state, wait>>

RequestFailed(s) ==
  /\ s = "FAILED"
  /\ http_status' = 0
  /\ pc' = "close"
  /\ UNCHANGED <<app_state, wait>>

WaitResponse_StateKept ==
  /\ AtCase("ST_WAIT_RESPONSE")
  /\ http_request # NULL
  /\ Check(http_request)
  /\ LET r == mem'[http_request]
     IN /\ \/ StillJoining(r.status) \/ StillTalking(r.status)
           \/ ResponseReady(r.status, r.code) \/ RequestFailed(r.status)
        /\ http_state' = IF r.status \in NetStates THEN r.status ELSE http_state
  /\ UNCHANGED <<http_request, http_response, alerts>>

WaitResponse ==
  /\ AtCase("ST_WAIT_RESPONSE")
  /\ http_request # NULL
  /\ Check(http_request)
  /\ LET r == mem'[http_request]
     IN /\ \/ StillJoining(r.status) \/ StillTalking(r.status)
           \/ ResponseReady(r.status, r.code) \/ RequestFailed(r.status)
        /\ http_state' = r.status
  /\ UNCHANGED <<http_request, http_response, alerts>>

\* "BUG: why is http_request zero?"
WaitForNothing ==
  /\ AtCase("ST_WAIT_RESPONSE")
  /\ http_request = NULL
  /\ UNCHANGED vars

\* std::string(httpclient_get_response(..), response_length): the status is
\* read again, and a NULL buffer of non-zero length throws.
Whole(r) == r.cap # -1 /\ r.len = r.clen

FetchResponse ==
  /\ Running /\ pc = "fetch"
  /\ LET r == mem[http_request]
     IN IF GetResponse(http_request) = NULL /\ r.len > 0
          THEN /\ halted' = TRUE
               /\ UNCHANGED <<mem, live, scribbled, pcb, dns, link, leaked, tainted,
                              http_response, pc>>
          ELSE /\ http_response' = [len |-> r.len, whole |-> Whole(r)]
               /\ pc' = "close"
               /\ UNCHANGED clientVars
  /\ UNCHANGED <<app_state, http_request, http_state, wait, http_status, alerts>>

FreeRequest ==
  /\ Running /\ pc = "close"
  /\ CloseRequest(http_request)
  /\ http_request' = NULL
  /\ app_state' = "ST_HANDLE_RESPONSE"
  /\ pc' = "iter"
  /\ UNCHANGED <<http_state, wait, http_status, http_response, alerts>>

(* ST_HANDLE_RESPONSE: parsing builds strings and vectors on the heap, and *)
(* what they overwrite is whatever has been freed.                         *)

ShowAlerts ==
  /\ AtCase("ST_HANDLE_RESPONSE")
  /\ http_status = 200
  /\ alerts' = http_response
  /\ http_response' = NoResponse
  /\ Scribble
  /\ app_state' = "ST_TRANSITION"
  /\ UNCHANGED <<mem, live, pcb, dns, link, leaked, tainted, halted, pc,
                 http_request, http_state, wait, http_status>>

IgnoreResponse_NoSleep ==
  /\ AtCase("ST_HANDLE_RESPONSE")
  /\ http_status # 200
  /\ http_response' = NoResponse
  /\ app_state' = "ST_SLEEP"
  /\ UNCHANGED <<clientVars, pc, http_request, http_state, wait, http_status, alerts>>

IgnoreResponse ==
  /\ AtCase("ST_HANDLE_RESPONSE")
  /\ http_status # 200
  /\ http_response' = NoResponse
  /\ app_state' = "ST_SLEEP"
  /\ wait' = SleepTicks
  /\ UNCHANGED <<clientVars, pc, http_request, http_state, http_status, alerts>>

\* ST_TRANSITION falls through to ST_SLEEP, whose wait has just begun.
Transition_NoSleep ==
  /\ AtCase("ST_TRANSITION")
  /\ app_state' = "ST_SLEEP"
  /\ UNCHANGED <<clientVars, pc, http_request, http_state, wait, http_status,
                 http_response, alerts>>

Transition ==
  /\ AtCase("ST_TRANSITION")
  /\ app_state' = "ST_SLEEP"
  /\ wait' = SleepTicks
  /\ UNCHANGED <<clientVars, pc, http_request, http_state, http_status,
                 http_response, alerts>>

WakeUp ==
  /\ AtCase("ST_SLEEP")
  /\ is_after
  /\ app_state' = "ST_DO_REQUEST"
  /\ UNCHANGED <<clientVars, pc, http_request, http_state, wait, http_status,
                 http_response, alerts>>

\* update_from_config, at the head of a turn in which config_check has seen a
\* change.  URL and credentials are not in the model; their strings are
\* allocated anew.
ReloadConfig ==
  /\ Running /\ pc = "iter"
  /\ Scribble
  /\ UNCHANGED <<mem, live, pcb, dns, link, leaked, tainted, halted, mainVars>>

MainLoop ==
  \/ DoRequest \/ WaitResponse \/ WaitForNothing \/ FetchResponse \/ FreeRequest
  \/ ShowAlerts \/ IgnoreResponse \/ Transition \/ WakeUp

------------------------------------------------------------------------------
(* The environment *)

\* Five seconds pass.  The main loop takes milliseconds for a turn, so time
\* only passes between turns; and callbacks that are due come first.
Tick ==
  /\ Running
  /\ pc = "iter"
  /\ ClientTick
  /\ wait' = IF wait < 0 THEN wait ELSE wait - 1
  /\ UNCHANGED <<app_state, pc, http_request, http_state, http_status,
                 http_response, alerts>>

\* A halted program no longer updates the watchdog, which reboots the device.
Reboot ==
  /\ halted /\ Watchdog
  /\ mem' = [a \in Addr |-> EmptyRequest]
  /\ live' = {}
  /\ scribbled' = {}
  /\ pcb' = [p \in Pcb |-> FreePcb]
  /\ dns' = {}
  /\ link' = "DOWN"
  /\ leaked' = 0
  /\ tainted' = FALSE
  /\ halted' = FALSE
  /\ app_state' = "ST_DO_REQUEST"
  /\ pc' = "iter"
  /\ http_request' = NULL
  /\ http_state' = "NONE"
  /\ wait' = -1
  /\ http_status' = 0
  /\ http_response' = NoResponse
  /\ alerts' = NoResponse

\* An interrupt of the main loop, or of its sleep.
Interrupt == (Callback \/ LinkChange) /\ UNCHANGED mainVars

Next == MainLoop \/ ReloadConfig \/ Interrupt \/ Tick \/ Reboot

Spec == Init /\ [][Next]_vars

\* What the system's scheduling guarantees: the loop keeps turning, time
\* passes, lwIP's timers fire, its lookups end (in an address or a timeout),
\* and the watchdog bites.  Nothing is assumed of the server or of the link.
Fairness ==
  /\ WF_vars(MainLoop)
  /\ WF_vars(Tick)
  /\ WF_vars(Reboot)
  /\ \A a \in Addr : WF_vars(DnsCallback(a) /\ UNCHANGED mainVars)
  /\ \A p \in Pcb :
       WF_vars(PollDue(p) /\ (PollCallback(p) \/ CallbackOnOverwritten(p))
                 /\ UNCHANGED mainVars)

FairSpec == Spec /\ Fairness

------------------------------------------------------------------------------
(* Properties *)

\* Every variable of the client and of the main loop stays in its type.
TypeOK ==
  /\ ClientType
  /\ app_state \in AppState
  /\ pc \in {"iter", "fetch", "close"}
  /\ http_request \in Addr \cup {NULL}
  /\ http_state \in Status
  /\ wait \in Nat \cup {-1}
  /\ http_status \in Nat
  /\ http_response \in [len : 0 .. MaxSize, whole : BOOLEAN]
  /\ alerts \in [len : 0 .. MaxSize, whole : BOOLEAN]

\* Over all the paths through the switch (timeouts that keep the request,
\* responses and failures that free it) the only request on the heap is the
\* one http_request points to: none is freed twice, leaked, or used freed.
RequestNotLeaked ==
  live = IF http_request = NULL THEN {} ELSE {http_request}

\* A request that the main loop sees in progress is one that some callback is
\* going to move: its lookup is pending, or its own pcb is connected (and so
\* polled) and calls back to it.  Otherwise the loop would report timeouts
\* (main.cpp:352) for ever and never open another request.
InProgressIsDriven ==
  ~tainted /\ ~halted =>
    \A a \in live :
      /\ mem[a].status = "DNS" => a \in dns
      /\ mem[a].status \in NetStates \ {"DNS"} =>
           /\ mem[a].pcb # NULL
           /\ Connected(mem[a].pcb)
           /\ pcb[mem[a].pcb].arg = a

\* httpclient_close leaves a connection registered with the freed request's
\* address.  By the time the next request is open (perhaps at that address)
\* it is gone: the ten seconds' sleep outlasts the ten seconds' poll timer.
\* Every registered connection is then the open request's own.
NoCrossTalk ==
  ~tainted /\ ~halted /\ http_request # NULL =>
    \A p \in Pcb : InUse(p) => pcb[p].arg = http_request /\ mem[http_request].pcb = p

\* FAILED, unlike COMPLETE, means that nothing will call back any more: the
\* main loop frees a failed request at once.
FailedIsClosed ==
  ~tainted /\ ~halted => \A a \in live : mem[a].status = "FAILED" => ~Pending(a)

\* The loop never waits for a response without a request (main.cpp:401 calls
\* that a BUG, and nothing leads away from it), as long as open2 gives it one.
WaitsForRequest ==
  ~OpenMayFail /\ AtCase("ST_WAIT_RESPONSE") => http_request # NULL

\* What has been copied fits the buffer that was allocated for it, which fits
\* the caller's limit, whatever lengths the server announced and sent.
ResponseFits ==
  \A a \in live :
    IF mem[a].cap = -1 THEN mem[a].len = 0
    ELSE mem[a].len <= mem[a].cap /\ mem[a].cap <= MaxSize

\* http_state is left over from the last request when a new one is opened.  It
\* is never one that would let the old deadline (main.cpp:345-352) time the
\* new request out on its first check.
FreshDeadline ==
  app_state = "ST_DO_REQUEST" /\ http_request = NULL => http_state \notin NetStates

\* Once a request has ended, no callback makes it look unfinished again while
\* the main loop reads and frees it.
EndedStaysEnded ==
  [][ \A a \in live \cap live' :
        ~tainted' /\ mem[a].status \in EndStates => mem'[a].status \in EndStates ]_vars

\* A request is only freed when it has ended and no lookup will report to it.
FreedWhenEnded ==
  [][ ~halted /\ ~tainted => \A a \in live \ live' :
        mem[a].status \in EndStates /\ a \notin dns ]_vars

\* The device keeps asking: once the link stays up, a new request is started
\* again and again, however the server behaves.
LoopLives ==
  <>[](link = "UP") => []<>(app_state = "ST_DO_REQUEST")

\* ... and each time it really is a new one: an old request is always ended
\* and freed, if only by a timer.
RequestEnds == <>[](link = "UP") => []<>(http_request = NULL)

------------------------------------------------------------------------------
(* What the source says of itself and a run refutes: see the findings. *)

\* httpclient.c:705: get_response gives the buffer "if the request has
\* completed".  An error callback between check and get_response takes it away
\* again, and std::string(NULL, n) throws.
CompletedHasBuffer ==
  pc = "fetch" /\ mem[http_request].len > 0 => GetResponse(http_request) # NULL
=============================================================================
