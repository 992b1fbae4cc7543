-------------------------------- MODULE Boot ---------------------------------
(***************************************************************************)
(* main.cpp and time: the boot with its delays, the watchdog, and what the *)
(* main loop does with the clock.                                          *)
(*                                                                         *)
(* Time passes in ticks, while the boot sleeps or between turns of the     *)
(* loop.  "pc" is "start" up to the end of update_from_config, "delay" and *)
(* "blink" in the two sleeps of the boot, and "loop".  A loop that hangs   *)
(* (an exception, a fault, a stall in TLS) takes no more turns.            *)
(***************************************************************************)
EXTENDS Clock

CONSTANTS
  Settings,   \* what the file may set: [BOOT_DELAY, WATCHDOG_TIMER]
  MaxTimer,   \* the most that the watchdog is set to (8000 ms)
  CodeTimer,  \* what it is set to when the setting is missing or negative (5000 ms)
  Blink,      \* ten sleeps of 200 ms
  Sleep,      \* the 10 s between a response and the next request
  Patience,   \* the 15 s that a request may spend in one state
  Period      \* updates_at_least_every (30 s)

\* A boot that sleeps no longer than the watchdog allows it to.
Timer(setting) ==
  IF setting < 0 THEN CodeTimer ELSE IF setting > MaxTimer THEN MaxTimer ELSE setting
Delay(setting) == IF setting < 0 THEN 0 ELSE setting
BootFits(s) == Timer(s.WATCHDOG_TIMER) # 0 =>
                 Delay(s.BOOT_DELAY) + Blink < Timer(s.WATCHDOG_TIMER)

ASSUME BootAssumption ==
  /\ MaxTimer \in Nat \ {0} /\ CodeTimer \in Nat \ {0}
  /\ Blink \in Nat \ {0} /\ Sleep \in Nat /\ Patience \in Nat /\ Period \in Nat \ {0}
  /\ Sleep < Half /\ Patience < Half /\ 4 < Half /\ Period < Modulus
  /\ Settings \subseteq [BOOT_DELAY : Int, WATCHDOG_TIMER : Int]
  /\ \A s \in Settings : BootFits(s)

VARIABLES
  now,             \* millis()
  pc,
  left,            \* of the sleep that the boot is in
  file,            \* what the configuration file says
  watchdog_timer,
  dog,             \* ticks until the watchdog bites, or Off
  caused,          \* watchdog_caused_reboot()
  hung,            \* does the loop hang?
  turned,          \* has it taken a turn in this tick?
  app_state, http_state, http_status,
  wait_until, last_update,
  due,             \* ticks from now to that deadline, down to -Half
  age              \* ticks since the list was updated, up to Modulus

dogVars == <<file, watchdog_timer, dog, caused, hung>>
clockVars == <<now, wait_until, last_update, due, age>>
appVars == <<app_state, http_state, http_status>>
vars == <<pc, left, turned, dogVars, clockVars, appVars>>

Off == -1

\* The states of a request, as far as the loop's time-out tells them apart.
Joining == "joining"
Talking == {"connecting", "reading"}
Ended == "ended"
NoRequest == "none"
Not200 == 0

Init ==
  /\ now = 0 /\ pc = "start" /\ left = 0 /\ turned = FALSE
  /\ file \in Settings /\ caused = FALSE
  /\ watchdog_timer = 0 /\ dog = Off /\ hung = FALSE
  /\ app_state = "ST_DO_REQUEST" /\ http_state = NoRequest /\ http_status = 0
  /\ wait_until = 0 /\ last_update = 0 /\ due = 0 /\ age = 0

Reset ==
  /\ now' = 0 /\ pc' = "start" /\ left' = 0 /\ turned' = FALSE
  /\ UNCHANGED file
  /\ watchdog_timer' = 0 /\ dog' = Off /\ hung' = FALSE
  /\ app_state' = "ST_DO_REQUEST" /\ http_state' = NoRequest /\ http_status' = 0
  /\ wait_until' = 0 /\ last_update' = 0 /\ due' = 0 /\ age' = 0

------------------------------------------------------------------------------
(* The boot *)

Enabled_IfReset(timer) == IF timer = 0 \/ ~caused THEN Off ELSE timer
Enabled(timer) == IF timer = 0 THEN Off ELSE timer

\* boot_delay is read once, after the first call; a setting that is missing leaves it
\* at 0.
update_from_config ==
  /\ watchdog_timer' = Timer(file.WATCHDOG_TIMER)
  /\ dog' = Enabled(watchdog_timer')

Start ==
  /\ pc = "start"
  /\ update_from_config
  /\ pc' = "delay" /\ left' = Delay(file.BOOT_DELAY)
  /\ UNCHANGED <<file, caused, hung, turned, clockVars, appVars>>

\* "Last update was never."
EnterLoop ==
  /\ pc' = "loop" /\ left' = 0
  /\ last_update' = Minus(now, Period) /\ age' = Period
  /\ UNCHANGED <<now, wait_until, due>>

AfterDelay ==
  /\ pc = "delay" /\ left = 0 /\ dog # 0
  /\ IF caused
     THEN pc' = "blink" /\ left' = Blink /\ UNCHANGED clockVars
     ELSE EnterLoop
  /\ UNCHANGED <<turned, dogVars, appVars>>

AfterBlink ==
  /\ pc = "blink" /\ left = 0 /\ dog # 0
  /\ EnterLoop
  /\ UNCHANGED <<turned, dogVars, appVars>>

------------------------------------------------------------------------------
(* A turn of the loop *)

Turning == pc = "loop" /\ ~hung /\ dog # 0

\* It ends with watchdog_update.
Fed_Not == dog
Fed == Enabled(watchdog_timer)
EndOfTurn ==
  /\ turned' = TRUE /\ dog' = Fed
  /\ UNCHANGED <<pc, left, file, watchdog_timer, caused, hung, now>>

WaitFor(ticks) == wait_until' = Plus(now, ticks) /\ due' = ticks

DoRequest ==
  /\ Turning /\ app_state = "ST_DO_REQUEST"
  /\ app_state' = "ST_WAIT_RESPONSE"
  /\ EndOfTurn
  /\ UNCHANGED <<http_state, http_status, wait_until, due, last_update, age>>

\* The deadline of the last request is left over, and looked at if http_state is.
WaitResponse ==
  /\ Turning /\ app_state = "ST_WAIT_RESPONSE"
  /\ \E new_http_state \in {Joining, Ended} \cup Talking :
       /\ \/ /\ new_http_state = Joining
             /\ UNCHANGED <<app_state, http_status>>
          \/ /\ new_http_state \in Talking
             /\ IF http_state \in Talking /\ is_after(wait_until, now)
                THEN http_status' = Not200 /\ app_state' = "ST_HANDLE_RESPONSE"
                ELSE UNCHANGED <<app_state, http_status>>
          \/ /\ new_http_state = Ended
             /\ http_status' \in {200, Not200}
             /\ app_state' = "ST_HANDLE_RESPONSE"
       /\ IF new_http_state \in Talking /\ new_http_state # http_state
          THEN WaitFor(Patience)
          ELSE UNCHANGED <<wait_until, due>>
       /\ http_state' = new_http_state
  /\ EndOfTurn
  /\ UNCHANGED <<last_update, age>>

ShowAlerts ==
  /\ Turning /\ app_state = "ST_HANDLE_RESPONSE" /\ http_status = 200
  /\ app_state' = "ST_TRANSITION"
  /\ last_update' = now /\ age' = 0
  /\ EndOfTurn
  /\ UNCHANGED <<http_state, http_status, wait_until, due>>

IgnoreResponse ==
  /\ Turning /\ app_state = "ST_HANDLE_RESPONSE" /\ http_status # 200
  /\ app_state' = "ST_SLEEP"
  /\ WaitFor(Sleep)
  /\ EndOfTurn
  /\ UNCHANGED <<http_state, http_status, last_update, age>>

\* ST_TRANSITION falls through to ST_SLEEP, whose wait has just begun.
Transition ==
  /\ Turning /\ app_state = "ST_TRANSITION"
  /\ app_state' = "ST_SLEEP"
  /\ WaitFor(Sleep)
  /\ EndOfTurn
  /\ UNCHANGED <<http_state, http_status, last_update, age>>

SleepOn ==
  /\ Turning /\ app_state = "ST_SLEEP"
  /\ app_state' = IF is_after(wait_until, now) THEN "ST_DO_REQUEST" ELSE app_state
  /\ EndOfTurn
  /\ UNCHANGED <<http_state, http_status, wait_until, due, last_update, age>>

\* config_check has seen a change, at the head of a turn.
Reload ==
  /\ Turning
  /\ update_from_config
  /\ UNCHANGED <<pc, left, turned, file, caused, hung, clockVars, appVars>>

Turn ==
  DoRequest \/ WaitResponse \/ ShowAlerts \/ IgnoreResponse \/ Transition \/ SleepOn

------------------------------------------------------------------------------
(* Time, the watchdog and the rest *)

\* A turn takes milliseconds, so the loop has taken one before a tick is over.
Tick ==
  /\ pc # "start" /\ dog # 0
  /\ pc \in {"delay", "blink"} => left > 0
  /\ pc = "loop" => turned \/ hung
  /\ left' = IF left > 0 THEN left - 1 ELSE 0
  /\ turned' = FALSE
  /\ dog' = IF dog = Off THEN Off ELSE dog - 1
  /\ now' = Plus(now, 1)
  /\ due' = IF due > -Half THEN due - 1 ELSE due
  /\ age' = IF age < Modulus THEN age + 1 ELSE age
  /\ UNCHANGED <<pc, file, watchdog_timer, caused, hung, wait_until,
                 last_update, appVars>>

\* The watchdog resets the device, and says so.
Bite ==
  /\ dog = 0
  /\ Reset /\ caused' = TRUE

PowerCycle == Reset /\ caused' = FALSE

Hang ==
  /\ Turning
  /\ hung' = TRUE
  /\ UNCHANGED <<pc, left, turned, file, watchdog_timer, dog, caused,
                 clockVars, appVars>>

\* The USB host edits the file.
EditFile ==
  /\ Turning
  /\ file' \in Settings
  /\ UNCHANGED <<pc, left, turned, watchdog_timer, dog, caused, hung,
                 clockVars, appVars>>

Next ==
  \/ Start \/ AfterDelay \/ AfterBlink
  \/ Turn \/ Reload
  \/ Tick \/ Bite \/ PowerCycle \/ Hang \/ EditFile

Spec == Init /\ [][Next]_vars

\* The program runs on while it does not hang, and time passes.
FairSpec ==
  /\ Spec
  /\ WF_vars(Start) /\ WF_vars(AfterDelay) /\ WF_vars(AfterBlink) /\ WF_vars(Turn)
  /\ WF_vars(Tick) /\ WF_vars(Bite)

------------------------------------------------------------------------------
(* Properties *)

\* The type invariant.
TypeOK ==
  /\ now \in Time /\ wait_until \in Time /\ last_update \in Time
  /\ pc \in {"start", "delay", "blink", "loop"} /\ left \in Nat
  /\ file \in Settings
  /\ watchdog_timer \in 0 .. MaxTimer \cup {CodeTimer}
  /\ dog \in Nat \cup {Off}
  /\ caused \in BOOLEAN /\ hung \in BOOLEAN /\ turned \in BOOLEAN
  /\ app_state \in {"ST_DO_REQUEST", "ST_WAIT_RESPONSE", "ST_HANDLE_RESPONSE",
                    "ST_TRANSITION", "ST_SLEEP"}
  /\ http_state \in {NoRequest, Joining, Ended} \cup Talking
  /\ http_status \in {200, Not200}
  /\ due \in -Half .. Half /\ age \in 0 .. Modulus

\* The watchdog bites a loop that hangs and nothing else: not the sleeps of the boot,
\* whatever reset went before, and not a loop that is told of a new timer.
BitesOnlyHung == dog = 0 => hung

\* What the loop looks at is a deadline young enough for the signed difference to
\* tell: after any time spent joining the network, or asleep, is_after gives the
\* answer that a clock without an end would give.
Consults ==
  \/ app_state = "ST_SLEEP"
  \/ app_state = "ST_WAIT_RESPONSE" /\ http_state \in Talking
DeadlineIsRight == Turning /\ Consults => (is_after(wait_until, now) <=> due < 0)

\* The list is shown as recent for as long as it is, across the end of the clock, and
\* not before the first response; a list that is a whole turn of the clock old may
\* look recent again.
RecentIsRight ==
  pc = "loop" /\ age < Modulus =>
    (has_recent_data(now, last_update, Period) <=> age < Period)

\* A loop that hangs with the watchdog on comes back, through the boot, to take turns,
\* if nobody cuts the power before that.
HangEnds ==
  hung /\ watchdog_timer # 0 ~> \/ pc = "loop" /\ ~hung
                                \/ pc = "start" /\ ~caused
=============================================================================
