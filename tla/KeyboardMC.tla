----------------------------- MODULE KeyboardMC -----------------------------
(***************************************************************************)
(* A keyboard of five keys for the model checker: one without a character,  *)
(* a digit, a letter, the lock and, past the table, one more code.          *)
(***************************************************************************)
EXTENDS Keyboard

FiveKeys == [s \in 0 .. 3 |-> CASE s = 0 -> 0 [] s = 1 -> 49 [] s = 2 -> 9 [] s = 3 -> 65]
=============================================================================
