SPECIFICATION FairSpec
CONSTANTS NumNodes = 5
          MaxThreads = 2
          MaxHosts = 2
          MaxFaults = 2
INVARIANTS OutputIsComplete SessionsAreExchanged PartsAreApart
PROPERTY ControlEnds
