CONSTANTS
    HasMotion = FALSE
    HasIr = TRUE
    Malformed = Malformed
    Defaults <- MCFaultDefaults
    Requests <- MCFaultRequests
    InitialFlash <- MCFaultInitialFlash
    WriteThrough = TRUE
    GpioFaults = TRUE
    EraseAtBoot = FALSE
SPECIFICATION FairSpec
INVARIANTS
    
    AckedSettingsSurvive
PROPERTIES
    WritesAreValid
    CommandEnds
