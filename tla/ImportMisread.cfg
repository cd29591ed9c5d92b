SPECIFICATION ImpSpec
CONSTANTS
    SourceRows = 5
    SourcePersons = 3
    PageRows = 2
    BatchRows = 1
    LongGaps = FALSE
INVARIANT
    InterruptedResumes
