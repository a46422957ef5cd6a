SPECIFICATION Spec
CONSTANTS
    MAX_SAMPLE = 3
    BYTE = 3
    MAX_TIME = 2
INVARIANTS OverrunBounded LabelsTrueIfQuiet
PROPERTIES PrintsASnapshot RecordingEnds
