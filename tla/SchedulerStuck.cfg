CONSTANTS
    Jobs = {1, 2}
    NoJob = 0
    Projects = {1, 2}
    MaxLease = 2
    Punctual = FALSE
    TypeOf <- MCTypeOf
    ProjectOf <- MCTwoProjects
SPECIFICATION FairSpec
PROPERTIES RunningEnds
