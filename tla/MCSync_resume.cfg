SPECIFICATION Spec
CONSTANTS
    Paths <- ChainPaths
    LocalFiles <- Edited
    ForeignFiles <- Stale
    Cases <- ResumeCases
    FileConcurrency = 2
INVARIANT Converged
