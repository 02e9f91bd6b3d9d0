SPECIFICATION MCSpec
CONSTANTS
    Used <- OrdersAndAcknowledgements
    MayFail = TRUE
    Leftover <- Anything
    MaxSP = 1
INVARIANTS TypeOK NoSilentOutage
PROPERTIES NotOlder ModeSettles AlarmsStay OutageIsShown
