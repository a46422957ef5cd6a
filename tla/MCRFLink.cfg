SPECIFICATION LinkSpec
CONSTANTS
    RING_BUFFER_SIZE = 8
    FRAME = 6
    STR_SIZE = 2
    FIRST = 0
    WIDTH = 2
    MaxNoise = 2
    Lengths = {"sep", "sync", "one"}
INVARIANTS TwoFramesSuffice ReadsWhatWasSent
PROPERTIES GoodFramesAreHeard
