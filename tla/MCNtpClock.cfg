SPECIFICATION NtpSpec
CONSTANTS
    MILLIS = 11
    SECOND = 2
    WAIT = 3
    DNS = 1
    LIFE = 2
    Intervals = {3, 4}
    Times = {1, 2, 3, 4, 5, 6, 7, 8, 9}
    MaxTicks = 18
    MaxTruth = 18
    MaxRequests = 1
    MaxQueue = 2
INVARIANTS TimeConserved SyncAhead NeverAhead BehindByDelay
PROPERTIES ImplementsClock
CHECK_DEADLOCK FALSE
