\* One caller at a time, two cards, packets lost, reserved descriptors.
CONSTANTS
    Threads = {t1}
    Units = {0, 1}
    Files = {f1, f2}
    Ops <- EveryWay
    Overlap <- Nothing
    MaxFd = 2
    CardFds <- SomeReserved
    CardFaults = TRUE
    NoThread = NoThread
    NoFile = NoFile
SPECIFICATION Spec
INVARIANTS TypeOK RightCard RightFile HandlesDistinct
PROPERTY FilesKept
