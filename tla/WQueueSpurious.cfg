\* POSIX permits a wake-up without a signal.
SPECIFICATION SpuriousSpec
CONSTANTS
    Max = 2
    MaxPuts = 3
INVARIANT NullMeansClosed
