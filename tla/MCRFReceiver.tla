---------------------------- MODULE MCRFReceiver ----------------------------
(* RFReceiver on an arbitrary sequence of pulses and pin levels.  The ring  *)
(* has six slots and a frame one bit: four pulses, the sync pair included.  *)
EXTENDS RFReceiver
=============================================================================
