\* The instance of MCInterruptManager.cfg, asked what the comment claims.
CONSTANTS
    Tasks = {taskA, taskB}
    Unset = unset
    Boot = kernelMain
    MaxTasks = 2
    PcBound = 1
    Lines = {0, 1, 8}
    MaxCalls = 2

SPECIFICATION InterruptSpec

INVARIANT
    HardwareInterruptsAcknowledged
