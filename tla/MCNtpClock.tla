----------------------------- MODULE MCNtpClock -----------------------------
(* Two ticks to a second, three to the 1.5 s of getNtpTime(); millis()      *)
(* wraps after eleven, not a multiple of a second, as 2^32 is none of 1000. *)
EXTENDS NtpClock
=============================================================================
