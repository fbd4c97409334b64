CONSTANTS
    Devices <- ThreeDevices
    SpeedOf <- SpeedOfThree
    Ports <- FourPorts
    HubOf <- HubOfFour
    ControllerOf <- ControllerOfFour
    Controllers = 2
    SysfsMayFail = TRUE
SPECIFICATION FairSpec
INVARIANT LostOnlyToRival
INVARIANT PortFits
PROPERTY PortsReturn
CHECK_DEADLOCK FALSE
