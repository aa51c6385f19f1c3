SPECIFICATION Spec
CONSTANTS
    Files = {"a", "b", "c", "d"}
    NoFile = "nullptr"
    Flat = {"d"}
    Rules = {"r1", "r2"}
    NoRule = "whole"
    Matched <- MCMatched
    AutoRule <- MCAutoRule
    CacheSize = 2
    MaxRuns = 7
    MaxRules = 2
INVARIANTS
    RecentFilesCached
    TrimmedPathFresh
CHECK_DEADLOCK FALSE
