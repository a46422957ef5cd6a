SPECIFICATION Spec
CONSTANTS
    RING_BUFFER_SIZE = 6
    FRAME = 4
    STR_SIZE = 1
    FIRST = 0
    WIDTH = 1
    Lengths = {"sep", "sync", "one", "zero"}
INVARIANTS TypeOK Handoff FrameIntact MarkKept DecodeInStep
PROPERTIES FrozenWhileHeld ListensAgain ImplementsBox
