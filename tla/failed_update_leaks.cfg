CONSTANTS
    HasMotion = TRUE
    HasIr = TRUE
    Malformed = Malformed
    Defaults <- MCDefaults
    Requests <- MCRequests
    InitialFlash <- MCInitialFlash
    WriteThrough = TRUE
    GpioFaults = FALSE
    EraseAtBoot = FALSE
SPECIFICATION FairSpec
INVARIANT FailedUpdateLeavesNoPersistedState
