SPECIFICATION Spec
CONSTANTS
    rollSize = 12
    flushInterval = 1
    checkEveryN = 2
    kRollPerSeconds = 2
    kSmallBuffer = 10
    kMaxNumericSize = 2
    kLargeBuffer = 16
    MaxBuffers = 2
    Messages = {1, 9}
    MaxLines = 4
    MaxTime = 3
    Years <- StartYears
    MaxDays = 800
    Zones <- ZoneFiles
    Hours = 240
INVARIANTS
    LinesInOrder
    CalendarRoundTrip
PROPERTIES
    LinesReachDisk
\* A log that is closed and a walk that has come to its end are at rest.
CHECK_DEADLOCK FALSE
