\* Two fragments over two connections, documents of a record and its end flag
\* through a DB queue of one place, up to two SIGTERMs at any moment, accept()
\* may fail.
SPECIFICATION FairSpec
CONSTANTS
    DbMax = 1
    MaxRecords = 1
    MaxWork = 2
    MaxConns = 2
    MaxSigterm = 2
    AcceptFails = TRUE
INVARIANTS
    DocumentsOfOneConnection
    RepliesOnOpenConnection
    BatchesAreWhole
    DrainedAtExit
PROPERTY
    TermEndsTheProcess
