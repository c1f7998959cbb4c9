SPECIFICATION FairSpec
CONSTANTS
    MaxSeq = 4
    MaxRestarts = 1
    FirstAlone = TRUE
INVARIANTS
    AckedIsKept
    FirstAloneInv
PROPERTIES
    DeliverySpec
    EveryPacketHandled
    EveryPacketAcked
