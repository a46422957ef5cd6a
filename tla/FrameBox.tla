------------------------------ MODULE FrameBox ------------------------------
(* What the ring-buffer receiver promises to the rest of the sketch: a box  *)
(* that holds at most one captured frame.  A frame is put in the empty box, *)
(* nothing touches it until its field has been read out exactly once, and   *)
(* only then is the box emptied for the next one.                           *)
EXTENDS Naturals, FiniteSetsExt

CONSTANTS
    FRAME,    \* pulses in a frame, the closing sync pair included
    FIRST,    \* position of the temperature field in the decoded characters
    WIDTH     \* characters in the temperature field

Pulses == {"sep", "sync", "one", "zero", "other"}
Chars  == {"0", "1", "?", "NUL"}

Frames == [0 .. FRAME - 1 -> Pulses]
Field  == [0 .. WIDTH - 1 -> Chars]
Empty  == <<>>
NoField == [j \in 0 .. WIDTH - 1 |-> "NUL"]

VARIABLES
    box,      \* the captured frame, or Empty
    told,     \* its field has been read out
    out       \* the field read out, while it has been told

bvars == <<box, told, out>>

\* A pair of pulses says something about the bit when its separator is wrong
\* (the bit is then unknown) or when its data pulse is a one or a zero.
Tells(f, j) == f[2 * j] # "sep" \/ f[2 * j + 1] \in {"one", "zero"}

CharOf(f, j) == IF f[2 * j] # "sep" THEN "?"
                ELSE IF f[2 * j + 1] = "one" THEN "1" ELSE "0"

\* Character j of the message: what the last telling pair up to j said;
\* before any of them it is whatever was in memory (g).
Message(f, g) ==
    [j \in 0 .. FRAME \div 2 - 1 |->
        LET said == {m \in 0 .. j : Tells(f, m)}
        IN  IF said = {} THEN g ELSE CharOf(f, Max(said))]

\* A NUL ends the string: no character is found at or behind it.
Shown(m, j) == IF \E e \in 0 .. j : m[e] = "NUL" THEN "NUL" ELSE m[j]

FieldOf(f, g) == [j \in 0 .. WIDTH - 1 |-> Shown(Message(f, g), FIRST + j)]

BoxInit ==
    /\ box = Empty
    /\ told = FALSE
    /\ out = NoField

\* Only frames closed by a sync pair are ever put in the box.
Deliver ==
    /\ box = Empty
    /\ box' \in {f \in Frames : f[FRAME - 2] = "sep" /\ f[FRAME - 1] = "sync"}
    /\ UNCHANGED <<told, out>>

Report ==
    /\ box # Empty
    /\ ~told
    /\ \E g \in Chars : out' = FieldOf(box, g)
    /\ told' = TRUE
    /\ UNCHANGED box

Release ==
    /\ box # Empty
    /\ told
    /\ box' = Empty
    /\ told' = FALSE
    /\ out' = NoField

BoxNext == Deliver \/ Report \/ Release

BoxSpec == BoxInit /\ [][BoxNext]_bvars /\ WF_bvars(Report) /\ WF_bvars(Release)
=============================================================================
