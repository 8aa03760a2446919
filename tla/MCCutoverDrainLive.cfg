\* A cutover may raise and is aborted; nothing else goes wrong.
SPECIFICATION FairSpec
CONSTANTS
    Routes = {r1}
    Events = {e1}
    Components = {k1}
    MaxBuffered = 1
    MaxPromotions = 2
    Faults = {"cutover"}
INVARIANTS
    GatesOpenAtRest
PROPERTIES
    PromotionEnds
    CopiedIsHandled
\* After the last promotion and the last message nothing is left to do.
CHECK_DEADLOCK FALSE
