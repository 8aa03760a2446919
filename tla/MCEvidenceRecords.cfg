\* Two calls, two faults; the audit file may hold a record at the first start.
SPECIFICATION Spec
CONSTANTS
    MaxCalls = 2
    MaxFaults = 2
    Seeded = {TRUE, FALSE}
INVARIANTS
    RecordsVerify
    RootsSurvive
    NamesResolve
    ReturnedIsStored
\* After the last call, or over a damaged file, nothing is left to do.
CHECK_DEADLOCK FALSE
