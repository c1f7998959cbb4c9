SPECIFICATION FairSpec
CONSTANTS
    Window = 2
    MaxSeq = 3
    Burst = 3
    MaxRestarts = 1
INVARIANTS
    NothingLost
    NeverBuried
    DeferredWaits
    SendInv
PROPERTIES
    DeliverySpec
    EverythingDelivered
    EverythingRetired
