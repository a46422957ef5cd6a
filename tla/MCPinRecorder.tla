---------------------------- MODULE MCPinRecorder ---------------------------
(* Three entries and bytes of three values: as in the sketch, the array is  *)
(* full just when count carries into its high byte.                         *)
EXTENDS PinRecorder
=============================================================================
