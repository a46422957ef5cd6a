---------------------------- MODULE MCIRReceiver ----------------------------
(* A buffer of four entries, a gap of four ticks and a timer that wraps     *)
(* after nine, so that it also wraps during a long space.                  *)
EXTENDS IRReceiver
=============================================================================
