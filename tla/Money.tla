------------------------------- MODULE Money -------------------------------
(***************************************************************************)
(* core/money.py: amounts are whole paise, and what does not come out whole *)
(* is rounded half up, once.                                               *)
(***************************************************************************)
EXTENDS Integers

HalfUp(n, d) == (2 * n + d) \div (2 * d)
=============================================================================
