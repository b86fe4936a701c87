\* Two callers open a file at the same time, with slots for both.
CONSTANTS
    Threads = {t1, t2}
    Units = {0}
    Files = {f1, f2}
    Ops <- OpenOnly
    Overlap <- OpenOnly
    MaxFd = 2
    CardFds <- SomeFds
    CardFaults = FALSE
    NoThread = NoThread
    NoFile = NoFile
SPECIFICATION Spec
INVARIANT HandlesDistinct
