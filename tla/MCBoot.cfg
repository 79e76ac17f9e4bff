SPECIFICATION Spec
CONSTANTS
    Pages = {0, 1, 2, 3, 4, 5, 6, 7, 8, 9, 10, 11, 12}
    IDENTITY = 10
    FOUR_GIB = 9
    SPACE = 16
    Machines <- MCMachines
    KERNEL_AT = 6
    RAMDISK_AT = 3
INVARIANTS
    LoadFileReleases
    HandoffMapTrue
    HandoffReachable
    KernelGetsActiveMode
PROPERTIES
    LoaderSettles
