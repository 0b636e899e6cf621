SPECIFICATION FairSpec

CONSTANTS
    MinVerdict = 2
    RemindEvery = 3
    MaxStarts = 3
    Faults = {"fail", "unsure", "forget", "crash"}

INVARIANTS
    ChannelCurrent

PROPERTIES
    NoRepeats
    Reminded
