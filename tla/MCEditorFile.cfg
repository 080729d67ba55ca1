SPECIFICATION Spec
CONSTANTS
    e1 = e1
    e2 = e2
    e3 = e3
    here = here
    there = there
    Editors <- ThreeProcesses
    Hosts <- TwoHosts
    MaxUp = 2
    ForeignEntries = TRUE
SYMMETRY Alike
CHECK_DEADLOCK FALSE
INVARIANTS
    TypeOK
    LockIsOne
    NoLockLeaks
    AutosaveKept
PROPERTIES
    SavesAreInformed
