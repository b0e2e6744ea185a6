CONSTANTS
    Jobs = {1, 2, 3}
    NoJob = 0
    Projects = {1, 2}
    MaxLease = 2
    Punctual = TRUE
    TypeOf <- MCTypeOf
    ProjectOf <- MCTwoProjects
SPECIFICATION Spec
INVARIANTS OneActiveJob   NoReplay
PROPERTIES NoSecondTurn
