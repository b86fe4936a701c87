\* Two callers at the same time, except in an open; one card that answers.
CONSTANTS
    Threads = {t1, t2}
    Units = {0}
    Files = {f1, f2, f3}
    Ops <- OverlapOps
    Overlap <- AllButOpens
    MaxFd = 2
    CardFds <- MixedFds
    CardFaults = FALSE
    NoThread = NoThread
    NoFile = NoFile
SPECIFICATION FairSpec
INVARIANTS RightFile NothingLeft
PROPERTIES CallReturns FilesKept
