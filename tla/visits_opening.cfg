SPECIFICATION Spec
CONSTANTS
    u1 = u1
    u2 = u2
    b1 = b1
    b2 = b2
    s1 = s1
    Users = {u1, u2}
    Ids = {b1, b2}
    Staff = {s1}
    NoPlace = NoPlace
    NoId = NoId
    NoMax = NoMax
    Unset = Unset
    Hours <- MCHours
    Day = 3
    Buffer = 1
    Duration = 1
    Lead = 0
    Deadline = 0
    Advance = 1
    MaxActive = 1
    EntryLimit = 2
    Specs <- MCSpecs
    Entries <- MCEntries
    TimeSets <- MCTimeSets
    Shifts <- MCShifts
    ClosedUntil = 4
    Horizon = 1
    ReminderTime = 2
    NoShowAfter = 1
    FirstMoment = 2
    LastMoment = 6
    MaxCrashes = 1
    Scenarios <- MCScenarios
INVARIANT ListShowsCapacity
SYMMETRY MCSymmetry
CHECK_DEADLOCK FALSE
