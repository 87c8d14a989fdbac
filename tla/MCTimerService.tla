--------------------------- MODULE MCTimerService ---------------------------
(* A wheel of four lists for the near future and four times two coarse     *)
(* ones: a span of 64 ticks.                                               *)
EXTENDS TimerService

CONSTANTS a, b

\* Timeouts that end in every array, on its edges and next to them, except
\* the longest that still goes to the near array; and no tick at all.
NoRace == {ticks * kPeriod : ticks \in {0, 1, 4, 7, 8, 15, 16, 17, 32, 33}}
=============================================================================
