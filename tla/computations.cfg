SPECIFICATION SpecTask
CONSTANTS
    Year0 = 2023
    Kinds = {"prepaid", "capacity", "flat"}
    Calendars = {TRUE, FALSE}
    Periods = {3, 30}
    Lasts = {0, 1, 2, 3, 5, 28, 29, 30, 31, 58, 60, 89, 120}
    MaxNow = 125
    MaxTicks = 2
    MaxSpans = 45
    Starts <- Days
    MaxMoves = 4
    Amount = 2
    Period = 2
    On = {"RUNNING", "STOPPED"}
    Except = FALSE
    MaxTime = 8
    MaxHistory = 3
    Lengths = {1, 2, 3, 5, 10, 30, 31}
    MaxRenewals = 2
    MaxSuspensions = 2
INVARIANTS
    
    MonthsCounted
    CancelUndoesRenew
    NeverOvercharged
    
    NoticeOnce
    Told
PROPERTIES
    Terminates
CHECK_DEADLOCK FALSE
