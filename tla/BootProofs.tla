----------------------------- MODULE BootProofs ------------------------------
(***************************************************************************)
(* Boot, for every width of the clock, every length of the sleeps and      *)
(* every set of settings under which the boot fits the watchdog.           *)
(***************************************************************************)
EXTENDS Boot, TLAPS

USE DEF Time, Modulus, Off, Talking, Joining, Ended, NoRequest, Not200

------------------------------------------------------------------------------
(* The clock *)

LEMMA PlusType ==
  ASSUME NEW t \in Time, NEW a \in 0 .. Modulus
  PROVE  Plus(t, a) \in Time
BY ClockAssumption DEF Plus

LEMMA MinusType ==
  ASSUME NEW t \in Time, NEW u \in Time
  PROVE  Minus(t, u) \in Time
BY ClockAssumption DEF Minus

\* How far ahead a time is, as is_after sees it.
Ahead(until, t) == Signed(Minus(until, t))

\* A deadline less than half the clock away is seen where it is,
LEMMA AheadOfPlus ==
  ASSUME NEW t \in Time, NEW a \in 0 .. Half - 1
  PROVE  Ahead(Plus(t, a), t) = a
BY ClockAssumption DEF Ahead, Signed, Plus, Minus

\* and comes nearer by one with each tick.
LEMMA AheadTick ==
  ASSUME NEW until \in Time, NEW t \in Time, Ahead(until, t) > -Half
  PROVE  Ahead(until, Plus(t, 1)) = Ahead(until, t) - 1
BY ClockAssumption DEF Ahead, Signed, Plus, Minus

\* What was less than the whole clock ago grows older by one with each tick.
LEMMA MinusTick ==
  ASSUME NEW t \in Time, NEW u \in Time, Minus(t, u) < Modulus - 1
  PROVE  Minus(Plus(t, 1), u) = Minus(t, u) + 1
BY ClockAssumption DEF Plus, Minus

LEMMA MinusMinus ==
  ASSUME NEW t \in Time, NEW a \in 0 .. Modulus - 1
  PROVE  /\ Minus(t, a) \in Time
         /\ Minus(t, Minus(t, a)) = a
         /\ Minus(t, t) = 0
BY ClockAssumption DEF Minus

------------------------------------------------------------------------------
(* Types *)

LEMMA TimerType ==
  ASSUME NEW s \in Settings
  PROVE  /\ Timer(s.WATCHDOG_TIMER) \in 0 .. MaxTimer \cup {CodeTimer}
         /\ Delay(s.BOOT_DELAY) \in Nat
         /\ Timer(s.WATCHDOG_TIMER) \in Nat
         /\ Enabled(Timer(s.WATCHDOG_TIMER)) \in Nat \cup {Off}
<1>1. s.WATCHDOG_TIMER \in Int /\ s.BOOT_DELAY \in Int
  BY BootAssumption
<1> QED BY <1>1, BootAssumption DEF Timer, Delay, Enabled

LEMMA EnabledType ==
  ASSUME NEW timer \in 0 .. MaxTimer \cup {CodeTimer}
  PROVE  Enabled(timer) \in Nat \cup {Off}
BY BootAssumption DEF Enabled

LEMMA UpdateType ==
  ASSUME TypeOK, update_from_config
  PROVE  /\ watchdog_timer' = Timer(file.WATCHDOG_TIMER)
         /\ dog' = Enabled(Timer(file.WATCHDOG_TIMER))
         /\ watchdog_timer' \in 0 .. MaxTimer \cup {CodeTimer}
         /\ dog' \in Nat \cup {Off}
         /\ Delay(file.BOOT_DELAY) \in Nat
<1>1. /\ watchdog_timer' = Timer(file.WATCHDOG_TIMER)
      /\ dog' = Enabled(watchdog_timer')
  BY DEF update_from_config
<1>2. file \in Settings
  BY DEF TypeOK
<1> QED BY <1>1, <1>2, TimerType

LEMMA WaitForType ==
  ASSUME now \in Time, NEW ticks \in Nat, ticks < Half, WaitFor(ticks)
  PROVE  wait_until' \in Time /\ due' \in -Half .. Half
<1>1. ticks \in 0 .. Modulus
  BY ClockAssumption
<1> QED BY <1>1, PlusType, ClockAssumption DEF WaitFor

\* The turns of the loop change the states that they name, and feed the watchdog.
LEMMA TurnType ==
  ASSUME TypeOK, Turn
  PROVE  TypeOK'
<1> USE ClockAssumption, BootAssumption DEF TypeOK
<1>1. Fed \in Nat \cup {Off}
  BY EnabledType DEF Fed
<1>2. Sleep \in Nat /\ Sleep < Half /\ Patience \in Nat /\ Patience < Half
  OBVIOUS
<1>3. 0 \in 0 .. Modulus
  OBVIOUS
<1>4. CASE DoRequest
  BY <1>1, <1>4 DEF DoRequest, EndOfTurn
<1>5. CASE WaitResponse
  <2>1. PICK new \in {Joining, Ended} \cup Talking :
          /\ app_state' \in {app_state, "ST_HANDLE_RESPONSE"}
          /\ http_status' \in {http_status, 200, Not200}
          /\ WaitFor(Patience) \/ UNCHANGED <<wait_until, due>>
          /\ http_state' = new
    BY <1>5 DEF WaitResponse
  <2>2. wait_until' \in Time /\ due' \in -Half .. Half
    BY <2>1, <1>2, WaitForType
  <2> QED BY <1>1, <1>5, <2>1, <2>2 DEF WaitResponse, EndOfTurn
<1>6. CASE ShowAlerts
  BY <1>1, <1>3, <1>6 DEF ShowAlerts, EndOfTurn
<1>7. CASE IgnoreResponse
  <2>1. wait_until' \in Time /\ due' \in -Half .. Half
    BY <1>7, <1>2, WaitForType DEF IgnoreResponse
  <2> QED BY <1>1, <1>7, <2>1 DEF IgnoreResponse, EndOfTurn
<1>8. CASE Transition
  <2>1. wait_until' \in Time /\ due' \in -Half .. Half
    BY <1>8, <1>2, WaitForType DEF Transition
  <2> QED BY <1>1, <1>8, <2>1 DEF Transition, EndOfTurn
<1>9. CASE SleepOn
  BY <1>1, <1>9 DEF SleepOn, EndOfTurn
<1> QED BY <1>4, <1>5, <1>6, <1>7, <1>8, <1>9 DEF Turn

\* The steps that begin the program again.
LEMMA ResetType ==
  ASSUME TypeOK, Bite \/ PowerCycle
  PROVE  TypeOK'
<1>1. 0 \in 0 .. MaxTimer
  BY BootAssumption
<1>2. 0 \in Time /\ 0 \in -Half .. Half /\ 0 \in 0 .. Modulus
  BY ClockAssumption
<1>3. Reset /\ caused' \in BOOLEAN
  BY DEF Bite, PowerCycle
<1> QED BY <1>1, <1>2, <1>3 DEF TypeOK, Reset

LEMMA EnterLoopType ==
  ASSUME TypeOK, EnterLoop
  PROVE  /\ last_update' \in Time /\ age' \in 0 .. Modulus
         /\ UNCHANGED <<now, wait_until, due>> /\ pc' = "loop" /\ left' \in Nat
<1>1. Period \in 0 .. Modulus - 1
  BY BootAssumption, ClockAssumption
<1>2. Minus(now, Period) \in Time
  BY <1>1, MinusMinus DEF TypeOK
<1>3. Period \in 0 .. Modulus
  BY <1>1, ClockAssumption
<1> QED BY <1>2, <1>3 DEF EnterLoop

LEMMA TickType ==
  ASSUME TypeOK, Tick
  PROVE  TypeOK'
<1>1. now' \in Time
  BY PlusType, ClockAssumption DEF TypeOK, Tick
<1>2. due' \in -Half .. Half /\ age' \in 0 .. Modulus
  BY ClockAssumption DEF TypeOK, Tick
<1>3. dog' \in Nat \cup {Off} /\ left' \in Nat
  BY DEF TypeOK, Tick
<1>4. /\ UNCHANGED <<pc, file, watchdog_timer, caused, hung, wait_until, last_update>>
      /\ UNCHANGED <<app_state, http_state, http_status>>
      /\ turned' \in BOOLEAN
  BY DEF Tick, appVars
<1> QED BY <1>1, <1>2, <1>3, <1>4 DEF TypeOK

LEMMA TypeStep ==
  ASSUME TypeOK, [Next]_vars
  PROVE  TypeOK'
<1>1. CASE Start
  BY <1>1, UpdateType DEF TypeOK, Start, clockVars, appVars
<1>2. CASE AfterDelay
  <2>1. CASE caused
    BY <1>2, <2>1, BootAssumption DEF TypeOK, AfterDelay, clockVars, dogVars, appVars
  <2>2. CASE ~caused
    BY <1>2, <2>2, EnterLoopType DEF TypeOK, AfterDelay, dogVars, appVars
  <2> QED BY <2>1, <2>2
<1>3. CASE AfterBlink
  BY <1>3, EnterLoopType DEF TypeOK, AfterBlink, dogVars, appVars
<1>4. CASE Turn
  BY <1>4, TurnType
<1>5. CASE Reload
  BY <1>5, UpdateType DEF TypeOK, Reload, clockVars, appVars
<1>6. CASE Tick
  BY <1>6, TickType
<1>7. CASE Bite \/ PowerCycle
  BY <1>7, ResetType
<1>8. CASE Hang
  BY <1>8 DEF TypeOK, Hang, clockVars, appVars
<1>9. CASE EditFile
  BY <1>9 DEF TypeOK, EditFile, clockVars, appVars
<1>10. CASE UNCHANGED vars
  BY <1>10 DEF TypeOK, vars, clockVars, dogVars, appVars
<1> QED BY <1>1, <1>2, <1>3, <1>4, <1>5, <1>6, <1>7, <1>8, <1>9, <1>10 DEF Next

LEMMA TypeInit == Init => TypeOK
<1>1. 0 \in 0 .. MaxTimer
  BY BootAssumption
<1>2. 0 \in Time /\ 0 \in -Half .. Half /\ 0 \in 0 .. Modulus
  BY ClockAssumption
<1> SUFFICES ASSUME Init PROVE TypeOK
  OBVIOUS
<1>3. /\ now \in Time /\ wait_until \in Time /\ last_update \in Time
      /\ due \in -Half .. Half /\ age \in 0 .. Modulus
      /\ watchdog_timer \in 0 .. MaxTimer \cup {CodeTimer}
  BY <1>1, <1>2 DEF Init
<1> QED BY <1>3 DEF Init, TypeOK

\* TypeOK: every variable of the boot and the loop keeps its type.
THEOREM TypeCorrect == Spec => []TypeOK
<1>1. TypeOK /\ [Next]_vars => TypeOK'
  BY TypeStep
<1> QED BY <1>1, TypeInit, PTL DEF Spec

------------------------------------------------------------------------------
(* The watchdog *)

\* What is left of the watchdog's time outlasts what is left of the boot; in the loop
\* the first tick after a turn leaves some.
DogInv ==
  /\ pc = "start" => dog = Off
  /\ pc = "delay" /\ dog # Off => dog > left + Blink
  /\ pc = "blink" /\ dog # Off => dog > left
  /\ pc = "loop" /\ ~hung => dog # 0
  /\ pc = "loop" /\ ~hung /\ turned => dog # 1
  /\ pc = "loop" => watchdog_timer # 1
  /\ pc \in {"delay", "blink"} => watchdog_timer # 1
  /\ pc # "loop" => ~hung /\ ~turned

\* A timer that is on leaves room for the blinks, so for more than a tick.
LEMMA TimerFits ==
  ASSUME NEW s \in Settings
  PROVE  LET dog_ == Enabled(Timer(s.WATCHDOG_TIMER))
         IN /\ dog_ # Off => dog_ > Delay(s.BOOT_DELAY) + Blink
            /\ dog_ \notin {0, 1}
            /\ Timer(s.WATCHDOG_TIMER) # 1
<1>1. BootFits(s)
  BY BootAssumption
<1> QED BY <1>1, TimerType, BootAssumption DEF BootFits, Enabled

LEMMA DogStep ==
  ASSUME TypeOK, DogInv, [Next]_vars
  PROVE  DogInv'
<1> USE DEF DogInv
<1>1. CASE Start
  <2>1. file \in Settings
    BY DEF TypeOK
  <2> QED BY <1>1, <2>1, TimerFits, UpdateType DEF Start
<1>2. CASE AfterDelay
  <2>1. dog # Off => dog > Blink
    BY <1>2, BootAssumption DEF AfterDelay, TypeOK
  <2>2. (pc' = "blink" /\ left' = Blink) \/ pc' = "loop"
    BY <1>2 DEF AfterDelay, EnterLoop
  <2>3. dog # 1
    BY <2>1, BootAssumption
  <2>4. UNCHANGED <<dog, watchdog_timer, hung>> /\ ~hung /\ dog # 0 /\ watchdog_timer # 1
    BY <1>2 DEF AfterDelay, dogVars
  <2>5. ~turned /\ ~turned'
    BY <1>2 DEF AfterDelay
  <2> QED BY <2>1, <2>2, <2>3, <2>4, <2>5
<1>3. CASE AfterBlink
  BY <1>3 DEF AfterBlink, EnterLoop, dogVars, TypeOK
<1>4. CASE Turn
  <2>1. EndOfTurn /\ Turning
    BY <1>4 DEF Turn, DoRequest, WaitResponse, ShowAlerts, IgnoreResponse, Transition,
                SleepOn
  <2>2. Fed \notin {0, 1}
    BY <2>1 DEF Turning, Fed, Enabled, TypeOK
  <2> QED BY <2>1, <2>2 DEF Turning, EndOfTurn
<1>5. CASE Reload
  <2>1. file \in Settings
    BY DEF TypeOK
  <2> QED BY <1>5, <2>1, TimerFits, UpdateType DEF Reload, Turning
<1>6. CASE Tick
  BY <1>6, BootAssumption DEF TypeOK, Tick
<1>7. CASE Bite \/ PowerCycle
  BY <1>7 DEF Bite, PowerCycle, Reset
<1>8. CASE Hang
  BY <1>8 DEF Hang, Turning
<1>9. CASE EditFile
  BY <1>9 DEF EditFile, Turning
<1>10. CASE UNCHANGED vars
  BY <1>10 DEF vars, dogVars
<1> QED BY <1>1, <1>2, <1>3, <1>4, <1>5, <1>6, <1>7, <1>8, <1>9, <1>10 DEF Next

\* BitesOnlyHung: under every set of settings whose boot fits the watchdog, it bites
\* a loop that hangs, and never a boot or a loop that goes on.
THEOREM WatchdogBitesOnlyHung == Spec => []BitesOnlyHung
<1>1. Init => DogInv
  BY DEF Init, DogInv
<1>2. TypeOK /\ DogInv /\ [Next]_vars => DogInv'
  BY DogStep
<1>3. TypeOK /\ DogInv => BitesOnlyHung
  BY BootAssumption DEF TypeOK, DogInv, BitesOnlyHung
<1> QED BY <1>1, <1>2, <1>3, TypeCorrect, PTL DEF Spec

------------------------------------------------------------------------------
(* The age of the list *)

AgeInv == pc = "loop" /\ age < Modulus => Minus(now, last_update) = age

LEMMA EnterLoopAge ==
  ASSUME TypeOK, EnterLoop
  PROVE  AgeInv'
<1>1. Period \in 0 .. Modulus - 1 /\ now \in Time
  BY BootAssumption, ClockAssumption DEF TypeOK
<1>2. Minus(now, Minus(now, Period)) = Period
  BY <1>1, MinusMinus
<1> QED BY <1>2 DEF EnterLoop, AgeInv

LEMMA AgeStep ==
  ASSUME TypeOK, AgeInv, [Next]_vars
  PROVE  AgeInv'
<1> USE DEF AgeInv
<1>1. CASE Start
  BY <1>1 DEF Start
<1>2. CASE AfterDelay
  <2>1. CASE caused
    BY <1>2, <2>1 DEF AfterDelay
  <2>2. CASE ~caused
    BY <1>2, <2>2, EnterLoopAge DEF AfterDelay
  <2> QED BY <2>1, <2>2
<1>3. CASE AfterBlink
  BY <1>3, EnterLoopAge DEF AfterBlink
<1>4. CASE Turn
  <2>1. CASE ShowAlerts
    <3>1. Minus(now, now) = 0
      BY ClockAssumption DEF Minus, TypeOK
    <3> QED BY <2>1, <3>1 DEF ShowAlerts, EndOfTurn
  <2>2. CASE ~ShowAlerts
    BY <1>4, <2>2 DEF Turn, EndOfTurn, DoRequest, WaitResponse, IgnoreResponse,
                      Transition, SleepOn
  <2> QED BY <2>1, <2>2
<1>5. CASE Reload
  BY <1>5 DEF Reload, clockVars
<1>6. CASE Tick
  <2> SUFFICES ASSUME pc' = "loop", age' < Modulus
               PROVE  Minus(now', last_update') = age'
    OBVIOUS
  <2>1. pc = "loop" /\ now' = Plus(now, 1) /\ last_update' = last_update
    BY <1>6 DEF Tick
  <2>2. age < Modulus - 1 /\ age' = age + 1
    BY <1>6, ClockAssumption DEF Tick, TypeOK
  <2>3. Minus(now, last_update) = age
    BY <2>1, <2>2, ClockAssumption DEF TypeOK
  <2>4. Minus(Plus(now, 1), last_update) = age + 1
    BY <2>2, <2>3, MinusTick DEF TypeOK
  <2> QED BY <2>1, <2>2, <2>4
<1>7. CASE Bite \/ PowerCycle
  BY <1>7 DEF Bite, PowerCycle, Reset
<1>8. CASE Hang
  BY <1>8 DEF Hang, clockVars
<1>9. CASE EditFile
  BY <1>9 DEF EditFile, clockVars
<1>10. CASE UNCHANGED vars
  BY <1>10 DEF vars, clockVars
<1> QED BY <1>1, <1>2, <1>3, <1>4, <1>5, <1>6, <1>7, <1>8, <1>9, <1>10 DEF Next

\* RecentIsRight: for a clock of any width, the list looks recent exactly while it is,
\* until it is a whole turn of the clock old.
THEOREM RecentAcrossTheWrap == Spec => []RecentIsRight
<1>1. Init => AgeInv
  BY DEF Init, AgeInv
<1>2. TypeOK /\ AgeInv /\ [Next]_vars => AgeInv'
  BY AgeStep
<1>3. AgeInv => RecentIsRight
  BY DEF AgeInv, RecentIsRight, has_recent_data
<1> QED BY <1>1, <1>2, <1>3, TypeCorrect, PTL DEF Spec

------------------------------------------------------------------------------
(* The deadline *)

\* A deadline that is not yet half the clock old is where is_after sees it; and while
\* the loop goes on it looks at none that is more than three ticks past.
SeenInv == due > -Half => Ahead(wait_until, now) = due
Past(turns) == due >= (IF turned THEN 1 ELSE 0) - turns
YoungInv ==
  /\ pc # "loop" => app_state = "ST_DO_REQUEST" /\ http_state = NoRequest
  /\ ~hung /\ app_state = "ST_SLEEP" => Past(1)
  /\ ~hung /\ app_state = "ST_DO_REQUEST" /\ http_state \in Talking => Past(2)
  /\ ~hung /\ app_state = "ST_WAIT_RESPONSE" /\ http_state \in Talking => Past(3)

LEMMA AheadIsAfter ==
  ASSUME TypeOK, SeenInv, due > -Half
  PROVE  is_after(wait_until, now) <=> due < 0
BY DEF SeenInv, Ahead, is_after

LEMMA WaitForSeen ==
  ASSUME TypeOK, NEW ticks \in Nat, ticks < Half, WaitFor(ticks), now' = now
  PROVE  SeenInv' /\ due' = ticks
<1>1. ticks \in 0 .. Half - 1 /\ now \in Time
  BY ClockAssumption DEF TypeOK
<1>2. Ahead(Plus(now, ticks), now) = ticks
  BY <1>1, AheadOfPlus
<1> QED BY <1>2 DEF WaitFor, SeenInv

LEMMA SeenTick ==
  ASSUME TypeOK, SeenInv, Tick
  PROVE  SeenInv'
<1> SUFFICES ASSUME due' > -Half PROVE Ahead(wait_until', now') = due'
  BY DEF SeenInv
<1>1. due > -Half /\ due' = due - 1 /\ now' = Plus(now, 1) /\ wait_until' = wait_until
  BY ClockAssumption DEF Tick, TypeOK
<1>2. Ahead(wait_until, now) = due
  BY <1>1 DEF SeenInv
<1>3. Ahead(wait_until, Plus(now, 1)) = due - 1
  BY <1>1, <1>2, AheadTick DEF TypeOK
<1> QED BY <1>1, <1>3

LEMMA TurnDeadline ==
  ASSUME TypeOK, SeenInv, YoungInv, Turn
  PROVE  SeenInv' /\ YoungInv'
<1>0. /\ Sleep \in Nat /\ Sleep < Half /\ Patience \in Nat /\ Patience < Half
      /\ due \in Int /\ turned \in BOOLEAN /\ Half \in Nat /\ 4 < Half
  BY BootAssumption, ClockAssumption DEF TypeOK
<1>1. /\ Turning /\ EndOfTurn /\ turned' = TRUE /\ now' = now
      /\ pc' = "loop" /\ pc = "loop" /\ ~hung
  BY DEF Turn, DoRequest, WaitResponse, ShowAlerts, IgnoreResponse, Transition, SleepOn,
         Turning, EndOfTurn
<1>2. CASE DoRequest
  BY <1>0, <1>1, <1>2 DEF DoRequest, SeenInv, YoungInv, Past
<1>3. CASE WaitResponse
  <2>1. PICK new \in {Joining, Ended} \cup Talking :
          /\ app_state' \in {app_state, "ST_HANDLE_RESPONSE"}
          /\ new \in Talking /\ http_state \in Talking /\ is_after(wait_until, now)
               => app_state' = "ST_HANDLE_RESPONSE"
          /\ IF new \in Talking /\ new # http_state
             THEN WaitFor(Patience) ELSE UNCHANGED <<wait_until, due>>
          /\ http_state' = new
    BY <1>3 DEF WaitResponse
  <2>2. app_state = "ST_WAIT_RESPONSE"
    BY <1>3 DEF WaitResponse
  <2>3. CASE new \in Talking /\ new # http_state
    <3>1. SeenInv' /\ due' = Patience
      BY <1>0, <1>1, <2>1, <2>3, WaitForSeen
    <3> QED BY <1>0, <1>1, <2>1, <2>2, <3>1 DEF YoungInv, Past
  <2>4. CASE ~(new \in Talking /\ new # http_state)
    <3>1. SeenInv'
      BY <1>1, <2>1, <2>4 DEF SeenInv
    <3>2. CASE new \in Talking /\ app_state' = "ST_WAIT_RESPONSE"
      <4>1. http_state \in Talking /\ due > -Half
        BY <1>0, <1>1, <2>2, <2>4, <3>2 DEF YoungInv, Past
      <4>2. due >= 0
        BY <1>0, <2>1, <3>2, <4>1, AheadIsAfter
      <4> QED BY <1>0, <1>1, <2>1, <2>2, <2>4, <3>1, <3>2, <4>2 DEF YoungInv, Past
    <3>3. CASE ~(new \in Talking /\ app_state' = "ST_WAIT_RESPONSE")
      BY <1>1, <2>1, <2>2, <3>1, <3>3 DEF YoungInv
    <3> QED BY <3>2, <3>3
  <2> QED BY <2>3, <2>4
<1>4. CASE ShowAlerts
  BY <1>1, <1>4 DEF ShowAlerts, SeenInv, YoungInv
<1>5. CASE IgnoreResponse \/ Transition
  <2>1. WaitFor(Sleep) /\ app_state' = "ST_SLEEP"
    BY <1>5 DEF IgnoreResponse, Transition
  <2>2. SeenInv' /\ due' = Sleep
    BY <1>0, <1>1, <2>1, WaitForSeen
  <2> QED BY <1>0, <1>1, <2>1, <2>2 DEF YoungInv, Past
<1>6. CASE SleepOn
  <2>1. due >= -1 /\ due > -Half
    BY <1>0, <1>1, <1>6 DEF SleepOn, YoungInv, Past
  <2>2. is_after(wait_until, now) <=> due < 0
    BY <2>1, AheadIsAfter
  <2>3. UNCHANGED <<wait_until, due, http_state>>
        /\ app_state' = IF due < 0 THEN "ST_DO_REQUEST" ELSE "ST_SLEEP"
    BY <1>6, <2>2 DEF SleepOn
  <2> QED BY <1>0, <1>1, <2>1, <2>3 DEF SeenInv, YoungInv, Past
<1> QED BY <1>2, <1>3, <1>4, <1>5, <1>6 DEF Turn

LEMMA DeadlineStep ==
  ASSUME TypeOK, SeenInv, YoungInv, [Next]_vars
  PROVE  SeenInv' /\ YoungInv'
<1>1. CASE Start
  BY <1>1 DEF Start, clockVars, appVars, SeenInv, YoungInv
<1>2. CASE AfterDelay \/ AfterBlink
  <2>1. /\ UNCHANGED <<now, wait_until, due, app_state, http_state>>
        /\ app_state = "ST_DO_REQUEST" /\ http_state = NoRequest
    BY <1>2 DEF AfterDelay, AfterBlink, EnterLoop, clockVars, appVars, YoungInv
  <2> QED BY <2>1 DEF SeenInv, YoungInv
<1>3. CASE Turn
  BY <1>3, TurnDeadline
<1>4. CASE Reload \/ EditFile
  <2>1. UNCHANGED <<pc, hung, turned, now, wait_until, due, app_state, http_state>>
    BY <1>4 DEF Reload, EditFile, clockVars, appVars
  <2> QED BY <2>1 DEF SeenInv, YoungInv, Past
<1>5. CASE Tick
  <2>1. SeenInv'
    BY <1>5, SeenTick
  <2>2. /\ UNCHANGED <<pc, hung, app_state, http_state>> /\ turned' = FALSE
        /\ pc = "loop" => turned \/ hung
        /\ due > -Half => due' = due - 1
    BY <1>5 DEF Tick, appVars
  <2>3. due \in Int /\ Half \in Nat /\ 4 < Half
    BY BootAssumption, ClockAssumption DEF TypeOK
  <2> QED BY <2>1, <2>2, <2>3 DEF YoungInv, Past
<1>6. CASE Bite \/ PowerCycle
  <2>1. Reset
    BY <1>6 DEF Bite, PowerCycle
  <2>2. Ahead(0, 0) = 0
    BY ClockAssumption DEF Ahead, Minus, Signed
  <2> QED BY <2>1, <2>2 DEF Reset, SeenInv, YoungInv
<1>7. CASE Hang
  BY <1>7 DEF Hang, clockVars, appVars, SeenInv, YoungInv, Turning
<1>8. CASE UNCHANGED vars
  BY <1>8 DEF vars, clockVars, dogVars, appVars, SeenInv, YoungInv, Past
<1> QED BY <1>1, <1>2, <1>3, <1>4, <1>5, <1>6, <1>7, <1>8 DEF Next

\* DeadlineIsRight: whatever time passes between, the loop never asks is_after of a
\* deadline so old that the signed difference would take it for one to come.
THEOREM DeadlinesStayYoung == Spec => []DeadlineIsRight
<1>1. Init => SeenInv /\ YoungInv
  <2>1. Ahead(0, 0) = 0
    BY ClockAssumption DEF Ahead, Minus, Signed
  <2> QED BY <2>1 DEF Init, SeenInv, YoungInv
<1>2. TypeOK /\ SeenInv /\ YoungInv /\ [Next]_vars => SeenInv' /\ YoungInv'
  BY DeadlineStep
<1>3. TypeOK /\ SeenInv /\ YoungInv => DeadlineIsRight
  <2> SUFFICES ASSUME TypeOK, SeenInv, YoungInv, Turning, Consults
               PROVE  is_after(wait_until, now) <=> due < 0
    BY DEF DeadlineIsRight
  <2>1. due > -Half
    BY BootAssumption, ClockAssumption DEF TypeOK, YoungInv, Past, Turning, Consults
  <2> QED BY <2>1, AheadIsAfter
<1> QED BY <1>1, <1>2, <1>3, TypeCorrect, PTL DEF Spec
=============================================================================
