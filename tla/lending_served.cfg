SPECIFICATION FairSpec
CONSTANTS
    Patrons = {alice, bob}
    Items = {copy1, copy2}
    NoItem = NoItem
    ChargePeriod = 1
    HoldPeriod = 1
    Titles = {title1}
    Borrowed = {}
    Slots = {row1}
    NewRow = NewRow
    Workers = {w1}
    NoOne = NoOne
    MaxAttempts = 2
    MaxRequests = 2
    MaxItemChanges = 3
    MaxCrashes = 1
INVARIANTS
    CopiesLentOnce
PROPERTIES
    BatchesGetThrough
    WaitingPatronsServed
