\* Calls are single requests, so that the instance may stop.
CONSTANTS
    Calls = {c1, c2}
    MaxRecords = 3
    MaxTime = 7
    Questions = {"q1", "q2"}
    Bodies <- MCBodies
    Patches <- MCPatches
    Wages <- MCWages
    Starts <- MCStarts
    Null = Null
    Gone = Gone
    Offset = 1
    MonthLen = 4
    DayLen = 2
    WeekLen = 3
    HistoryDays = 2
    TopCategories = 1
    Etc = "ETC"
    Targets <- MCTargets
    Amounts <- MCAmounts
SPECIFICATION Spec
INVARIANTS
    RowsAreWhole
    GoalsAgree
    SpendingAgrees
    SharesAreDefined
    SummaryAddsUp
SYMMETRY MCSymmetry
CHECK_DEADLOCK FALSE
