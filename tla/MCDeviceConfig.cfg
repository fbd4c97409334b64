CONSTANTS
    Devices <- SampleDevices
    WLengths = {4, 18, 255}
    Omissions <- SampleOmissions
SPECIFICATION Spec
INVARIANT AnswersOfTheDevice
INVARIANT MockIsDevice
INVARIANT WholeOrRefused
CHECK_DEADLOCK FALSE
