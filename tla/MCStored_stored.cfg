SPECIFICATION StoredSpec
CONSTANTS
    Paths <- ChainPaths
    LocalFiles <- Edited
    ForeignFiles <- Stale
    Cases <- AllCases
    FileConcurrency = 2
INVARIANTS Converged PreflightDecides ForeignSurvives Consent StoresSound
PROPERTY KeepsRemote
