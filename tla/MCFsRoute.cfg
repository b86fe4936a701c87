\* Two callers, one for each card, at the same time.
CONSTANTS
    Threads = {t1, t2}
    Units = {0, 1}
    Files = {f1}
    Ops <- NameOnly
    Overlap <- NameOnly
    MaxFd = 1
    CardFds <- SomeFds
    CardFaults = FALSE
    NoThread = NoThread
    NoFile = NoFile
SPECIFICATION Spec
INVARIANT RightCard
