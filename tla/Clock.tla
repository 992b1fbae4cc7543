-------------------------------- MODULE Clock --------------------------------
(***************************************************************************)
(* The clock of main.cpp: milliseconds since boot in an unsigned word that *)
(* wraps round, and the two questions asked of it.                         *)
(***************************************************************************)
EXTENDS Integers

CONSTANT Half   \* half of the numbers that a word holds (2^31)

ASSUME ClockAssumption == Half \in Nat \ {0}

Modulus == 2 * Half
Time == 0 .. Modulus - 1

\* Unsigned sum and difference, of a time and an amount or of two times.
Plus(t, amount) == IF t + amount < Modulus THEN t + amount ELSE t + amount - Modulus
Minus(t, u) == IF t >= u THEN t - u ELSE t - u + Modulus

\* (int32_t)
Signed(word) == IF word < Half THEN word ELSE word - Modulus

is_after_Unsigned(until, now) == now > until
is_after(until, now) == Signed(Minus(until, now)) < 0

has_recent_data_Unsigned(now, last_update, period) ==
  now < Plus(last_update, period)
has_recent_data(now, last_update, period) == Minus(now, last_update) < period
=============================================================================
