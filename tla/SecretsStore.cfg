CONSTANTS
    Labels = {slot, label}
    Slot = slot
    Secrets = {secret1, secret2}
    Absent = Absent
    Guards = {"on"}
    Capacity = 2
    MaxFaults = 2
SPECIFICATION FairSpec
INVARIANT
    TypeOK
    ConfiguredExactly
    DeletesOne
PROPERTY
    KeepsSlot
    RenameKeepsKind
    SlotConverges
