---------------------------- MODULE MCIrrigation ----------------------------
(* A day of three hours of four minutes of four ticks.  The clock is set    *)
(* forward by a tick or a minute and a half, or back by a tick.             *)
EXTENDS Irrigation

MCFirstTimers == <<2, 0, 2>>
=============================================================================
