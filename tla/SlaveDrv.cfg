SPECIFICATION FairSpec
CONSTANTS
    Fd <- Descriptors
    MaxMasters = 2
    MaxErrors = 2
    MaxTrys = 2
    MaxWaiting = 1
INVARIANTS TypeOK Books Quiet ReportedOnce PassIsOpen
PROPERTIES ShutdownEnds RequestIsRead
CHECK_DEADLOCK FALSE
