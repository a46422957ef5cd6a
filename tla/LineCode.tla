------------------------------ MODULE LineCode ------------------------------
(* A code sent over a line, recorded as the lengths of its pulses, and the  *)
(* result a decoder makes of the recording: the state the infrared codes of *)
(* IRCodes and the radio frames of PollReceiver have in common.             *)

VARIABLES
    sent,       \* what a sender sends, with the disturbance on the way
    heard,      \* the recorded lengths
    result      \* what the decoder found

lineVars == <<sent, heard, result>>

Nothing == [type |-> "none"]
=============================================================================
