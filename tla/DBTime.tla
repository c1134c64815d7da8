------------------------------- MODULE DBTime -------------------------------
(***************************************************************************)
(* Instants as APIGuard stores and compares them.  Every timestamp column  *)
(* is TEXT holding time.RFC3339Nano in UTC, and every time condition in a  *)
(* query (window start, quarantine expiry, month start and end) compares   *)
(* those strings.  RFC3339Nano drops trailing zeros of the fraction, and a *)
(* whole second has no fraction at all, so within one second the text      *)
(* order is not the order of time: "...:05.5Z" sorts before "...:05Z",     *)
(* because '.' and the digits sort before 'Z'.                             *)
(*                                                                         *)
(* An instant is a number of tenths of a second.  One fractional digit is  *)
(* enough to tell the two orders apart; longer fractions repeat the same   *)
(* effect in shorter intervals.                                            *)
(***************************************************************************)
EXTENDS Integers

Ticks(seconds) == 10 * seconds

Second(t) == t \div 10

\* A whole second sorts behind the nine fractional instants of its second.
TextKey(t) == IF t % 10 = 0 THEN t + 9 ELSE t - 1

\* The SQL conditions  a < b  and  a >= b  on timestamp columns.
TextBefore(a, b) == TextKey(a) < TextKey(b)
TextAtOrAfter(a, b) == TextKey(a) >= TextKey(b)
=============================================================================
