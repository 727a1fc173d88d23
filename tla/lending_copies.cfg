SPECIFICATION Spec
CONSTANTS
    Patrons = {alice, bob}
    Items = {copy1}
    NoItem = NoItem
    ChargePeriod = 2
    HoldPeriod = 1
    Titles = {title1}
    Borrowed = {}
    Slots = {row1, row2}
    NewRow = NewRow
    Workers = {w1, w2}
    NoOne = NoOne
    MaxAttempts = 2
    MaxRequests = 2
    MaxItemChanges = 0
    MaxCrashes = 0
SYMMETRY Symmetry
INVARIANTS
    NoMoreLoansThanCopies
