----------------------------- MODULE MCStation -----------------------------
(* Both builds of the station, an alert held for two ticks, and at most two *)
(* losses of the connection.                                                *)
EXTENDS Station
=============================================================================
