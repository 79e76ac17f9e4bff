SPECIFICATION VmmSpec
CONSTANTS
    PAGE_SIZE = 4
    BYTE = 8
    MemMaps <- MCMemMaps
    Pages <- MCPages
    FANOUT = 5
    KHEAP_BASE = 573
    PASSTHRU_BASE = 610
    EarlyRanges <- MCEarlyRanges
    ApicRange <- MCApicRange
    LateRanges <- MCLateRanges
    Initramfs <- MCInitramfs
    SupportApic = TRUE
    MaxCount = 3
    MaxHeap = 6
INVARIANT
    BootRangesMapped
