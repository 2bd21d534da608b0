\* A behaviour ends where a run has become shorter than its header.
SPECIFICATION Spec
CONSTANTS
    PageSize = 14
    Header = 2
    Sizes = {2, 3, 5}
    Mallocs <- Around
INVARIANTS
    Conserved
    Coalesced
PROPERTIES
    MallocLastResort
    OnlyShortCuts
CHECK_DEADLOCK FALSE
