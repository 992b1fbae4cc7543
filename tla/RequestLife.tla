----------------------------- MODULE RequestLife -----------------------------
(***************************************************************************)
(* What the HTTP client and the main loop promise together about a         *)
(* request: it is opened, moves forward through its stages, ends, and only *)
(* then is given up, one after the other.  Nothing takes it back.          *)
(***************************************************************************)
EXTENDS Integers

VARIABLES
  stage,  \* of the one request there is, or "none"
  up      \* is the program running?

vars == <<stage, up>>

Rank == [joining |-> 1, lookup |-> 2, connecting |-> 3, status |-> 4, headers |-> 5,
         body |-> 6, ended |-> 7]
Stages == DOMAIN Rank

Init == stage = "none" /\ up = TRUE

\* Without a link it first joins the network; with one it may even have failed.
Open ==
  /\ stage = "none"
  /\ stage' \in {"joining", "lookup", "connecting", "ended"}

\* Stages may be skipped, as one segment may hold several parts of a response.
Advance ==
  /\ stage \in Stages
  /\ stage' \in Stages
  /\ Rank[stage'] > Rank[stage]

Release ==
  /\ stage = "ended"
  /\ stage' = "none"

\* A callback has used memory no longer its own: nothing is promised from there.
Overwritten == stage' = "undefined"

\* Any step of a running program may be its last before a reboot.
Step ==
  /\ up
  /\ Open \/ Advance \/ Release \/ Overwritten \/ UNCHANGED stage
  /\ up' \in BOOLEAN

Restart ==
  /\ ~up
  /\ stage' = "none"
  /\ up' = TRUE

Next == Step \/ Restart

Spec == Init /\ [][Next]_vars
=============================================================================
