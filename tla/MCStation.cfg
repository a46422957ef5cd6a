SPECIFICATION Spec
CONSTANTS
    Builds = {TRUE, FALSE}
    HOLD = 2
    MaxDrops = 2
INVARIANTS AlertsAlternate MotionNotForgotten RadioNotLeftOff
PROPERTIES AlertCleared MotionReported SensorsComeBack
