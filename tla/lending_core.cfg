SPECIFICATION Spec
CONSTANTS
    Patrons = {alice, bob, carol}
    Items = {copy1}
    NoItem = NoItem
    ChargePeriod = 2
    HoldPeriod = 1
    Titles = {title1}
    Borrowed = {title1}
    Slots = {row1}
    NewRow = NewRow
    Workers = {w1, w2}
    NoOne = NoOne
    MaxAttempts = 2
    MaxRequests = 4
    MaxItemChanges = 0
    MaxCrashes = 1
SYMMETRY Symmetry
INVARIANTS
    PromisesKept
    OneLiveHoldPerPatron
    ActiveHoldsAnnounced
PROPERTIES
    ChargesNotLost
    HoldsNotLost
    ImplementsLending
