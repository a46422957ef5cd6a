------------------------------ MODULE MCRFLink ------------------------------
(* Frames of two bits in a ring of eight slots.                             *)
EXTENDS RFLink
=============================================================================
