\* Two tasks, the timer, a master line and a slave line, two activations.
CONSTANTS
    Tasks = {taskA, taskB}
    Unset = unset
    Boot = kernelMain
    MaxTasks = 2
    PcBound = 1
    Lines = {0, 1, 8}
    MaxCalls = 2

SPECIFICATION InterruptSpec

INVARIANTS
    AcknowledgedUnlessMissed
    RequestsKept

PROPERTIES
    TasksRun
    DevicesServed
