CONSTANTS
    HasMotion = TRUE
    HasIr = TRUE
    Malformed = Malformed
    Defaults <- MCDefaults
    Requests <- MCRequests
    InitialFlash <- MCInitialFlash
    WriteThrough = FALSE
    GpioFaults = TRUE
    EraseAtBoot = TRUE
SPECIFICATION FairSpec
INVARIANTS
    TypeOK
    DurableMatchesRam
    HeartbeatSetterNeverRefuses
    AcceptedUpdateIsLive
PROPERTIES
    FailedUpdateRestoresLive
    UnmentionedServicesAreUndisturbed
    StoreSpec
