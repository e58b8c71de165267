SPECIFICATION FairSpec
CONSTANTS
    Children = {c1, c2}
    Nodes = {n1, n2}
    EndDates = {"d1", "d2"}
    Open = "open"
    None = None
    RetryNumber = 2
    MaxFaults = 2
    MaxRecords = 2
    MaxBatches = 1
INVARIANTS
    NothingLeftOpen
    ResultsArePublished
PROPERTIES
    CommitsTheDocument
    PublishesOnlyOwed
    RecordReturns
