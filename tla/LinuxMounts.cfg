SPECIFICATION MountsSpec
CONSTANTS
    f1 = f1
    f2 = f2
    f3 = f3
    root = root
    data = data
    usb = usb
    Fs <- Filesystems
    Dir <- Directories
    Root = root
    Spaced <- WithSpace
    MaxChanges = 3
    t1 = t1
    t2 = t2
    BsdDir <- BsdDirectories
    Thread <- Threads
    Reads <- Fields
    MaxEdits = 2
SYMMETRY Symmetry
INVARIANTS
    NumbersWereThere
    ListComplete
    OverrideAgrees
    AloneHonest
    OverlapBounded
