CONSTANTS
    Fold <- MCFold
    SearchPaths <- MCSearchPaths
    Replacements <- MCReplacements
    Requests <- MCRequests
    Report <- MCReport
    MaxSubstitutions = 3
    MaxCalls = 4
SPECIFICATION Spec
CHECK_DEADLOCK FALSE
INVARIANTS
    TreesSound
    ReturnedIsFixpoint
    GivingUpIsReported
PROPERTIES
    EveryCallReturns
