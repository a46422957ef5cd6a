SPECIFICATION Spec
CONSTANTS
    RAWBUF = 100
    Blocks <- MCBlocks
    Excesses <- MCExcesses
    Phases <- MCPhases
    Silences = {65535, 65635, 66035, 66036, 66335}
    Stales = {0, 13}
    buffer_size = 155
    sensor_id <- MCSensor
    Payloads <- MCPayloads
INVARIANTS SentIsDecoded FrameIsFound
CHECK_DEADLOCK FALSE
