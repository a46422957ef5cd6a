------------------------- MODULE MCThingSpeakClient -------------------------
(* Two fields, and three calls, so that a late request of one call meets    *)
(* the next one and a third follows.                                        *)
EXTENDS ThingSpeakClient
=============================================================================
