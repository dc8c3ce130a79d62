\* A heap of 14 bytes with headers of 2: up to five chunks, every size from an
\* empty block to one that only just fits.  Three tasks for three slots, in
\* programs of two instructions.  Two of them with their stacks, on which
\* exceptions with an error code and without one, the timer, the keyboard, a
\* call of the system and an ignored vector occur.
CONSTANTS
    Heap = heap
    Scheduler = scheduler
    Frames = frames
    HeapStart = 3
    HeapSize = 14
    Header = 2
    Sizes = {0, 1, 2, 3, 5}
    Tasks = {taskA, taskB, taskC}
    Unset = unset
    Boot = kernelMain
    MaxTasks = 3
    PcBound = 2
    Owners = {kernelMain, taskA, taskB}
    Main = kernelMain
    Vectors = {0, 13, 14, 32, 33, 128, 200}

SPECIFICATION KernelSpec

INVARIANTS
    ListTilesHeap
    HeapRecovered
    ContextsIntact
    FramesReturn

PROPERTIES
    ImplementsHeap
