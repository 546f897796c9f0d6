SPECIFICATION Spec
CONSTANTS
    Suite <- MCSuite
    Cases = 2
    StreamCap = 2
    MaxOutages = 1
INVARIANTS TheGateIsRight RowsAreCleared
PROPERTY SuiteEnds
