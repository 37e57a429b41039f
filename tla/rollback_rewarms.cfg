CONSTANTS
    HasMotion = TRUE
    HasIr = TRUE
    Malformed = Malformed
    Defaults <- MCDefaults
    Requests <- MCRequests
    InitialFlash <- MCInitialFlash
    WriteThrough = FALSE
    GpioFaults = FALSE
    EraseAtBoot = FALSE
SPECIFICATION FairSpec
PROPERTY RollbackKeepsArmed
