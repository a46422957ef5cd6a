---------------------------- MODULE MCLineCodes -----------------------------
(* Infrared values made of repeated blocks of five bits, so that every      *)
(* neighbourhood of bits occurs, measured by a detector 50 to 150 us off,   *)
(* the same or another amount at each edge, behind the longest gap, behind  *)
(* one that is lost, and behind the last and first of the shorter ones;     *)
(* radio frames of the full size, each pulse of the recording disturbed.    *)
EXTENDS IRCodes, PollReceiver

MCBlocks == [1 .. 5 -> {0, 1}]
MCExcesses == {<<50>>, <<150>>, <<50, 150, 150>>}
MCPhases == {<<0>>, <<49, 0, 0, 49>>}

Bits(n, ones) == [i \in 1 .. n |-> IF i \in ones THEN "1" ELSE "0"]
MCSensor == Bits(16, (2 .. 7) \cup {9})     \* 0111111010000000
\* In the last one the identity, behind a disturbed first bit, once more.
MCPayloads == {Bits(15, {2, 3, 5, 9}), Bits(15, 1 .. 15), Bits(15, (3 .. 8) \cup {10})}

Init == IRInit \/ PollInit
Next == IRNext \/ PollNext
Spec == Init /\ [][Next]_lineVars
=============================================================================
