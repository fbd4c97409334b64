CONSTANTS
    Devices <- TwoDevices
    SpeedOf <- SpeedOfTwo
    Ports <- FourPorts
    HubOf <- HubOfFour
    ControllerOf <- ControllerOfFour
    Controllers = 2
    SysfsMayFail = FALSE
SPECIFICATION Spec
INVARIANT AttachedOwnsPort
CHECK_DEADLOCK FALSE
