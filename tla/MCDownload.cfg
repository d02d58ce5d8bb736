SPECIFICATION Spec
CONSTANTS
    Pulls = {p1, p2}
    NoDownload = NoDownload
    Total = 3
    PartSize = 2
    MaxRetries = 2
    MaxFaults = 1
INVARIANTS TypeOK SingleWriter ResumeSound StoreSound
PROPERTY PreparedEnds
CHECK_DEADLOCK FALSE
