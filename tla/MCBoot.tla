------------------------------- MODULE MCBoot --------------------------------
(***************************************************************************)
(* Small instances of Boot: seconds shrunk so that the clock wraps within  *)
(* a few sleeps.                                                           *)
(***************************************************************************)
EXTENDS Boot

\* Off, missing, and more than there is.
MCSettings ==
  {[BOOT_DELAY |-> 2, WATCHDOG_TIMER |-> 0], [BOOT_DELAY |-> -1, WATCHDOG_TIMER |-> -1],
   [BOOT_DELAY |-> 2, WATCHDOG_TIMER |-> 9]}
=============================================================================
