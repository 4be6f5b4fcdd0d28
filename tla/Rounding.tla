---- MODULE Rounding ----
(***************************************************************************)
(* Python's round() of a quotient, which history.py and main.py of the     *)
(* field emulator apply to indexes and to levels.                          *)
(***************************************************************************)
EXTENDS Integers

\* The integer nearest to a/b, the even one of two that are as near.
Round(a, b) ==
  LET q == a \div b
      r == 2 * (a % b)
  IN  IF r > b \/ (r = b /\ q % 2 = 1) THEN q + 1 ELSE q

====
