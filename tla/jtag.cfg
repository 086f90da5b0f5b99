CONSTANTS
    LeaveStates = {"RunTestIdle", "ShiftDr", "PauseIr"}
SPECIFICATION Spec
INVARIANTS TypeOK SyncByFiveOnes
PROPERTIES ScanIsCapture LossIsReported ImplementsDmiPort CaptureIsCurrent RequestEnds
