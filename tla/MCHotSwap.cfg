\* Every call may raise; a failed swap is not retried in its drain epoch.
SPECIFICATION SwapSpec
CONSTANTS
    a = a
    b = b
    c = c
    u1 = u1
    u2 = u2
    d = d
    Instances = {a, b, c}
    First = a
    Updates = {u1, u2}
    Deltas <- NoDeltaOrD
    Retention = 1
    MaxSwaps = 3
    SwapFaults = {"suspend", "export", "store", "deactivate", "migrate", "resume", "observe", "compensate", "cancel"}
    Retries = FALSE
SYMMETRY Symmetry
INVARIANTS
    TypeOK
    OneServes
    CheckpointExact
    HandedOver
PROPERTIES
    Restores
\* After the last swap, and once every update is held, nothing is left to do.
CHECK_DEADLOCK FALSE
