SPECIFICATION FairSpec
CONSTANTS
    j1 = j1  j2 = j2
    old = old  mid = mid  new = new
    Janitors = {j1, j2}
    Rows = {old, mid, new}
    DayOf <- MCDayOf
    Prepared = 1
    Lookahead = 1
    Retention = 1
    MaxDay = 5
    MaxFaults = 1
INVARIANTS
    RowsAreRouted
PROPERTIES
    NothingLostEarly
    DaysArePrepared
    PartitionsExpire
