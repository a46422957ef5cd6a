----------------------------- MODULE MCCalendar -----------------------------
(* Every second of the first and of the last day of the unsigned 32-bit     *)
(* time_t, and every day of it at the edges of its minutes, hours and half  *)
(* days and at the second at which the range ends.                          *)
EXTENDS Calendar

MCSlowDays == {0, LastDay}
MCSeconds == {0, 59, 60, 3599, 3600, LastSecond, 43199, 43200, 46800, 86399}
=============================================================================
