------------------------------ MODULE MCKernel ------------------------------
(* The parts that the rest of the kernel stands on, one at a time: heap,   *)
(* scheduler, and the frames on the stacks that it switches.               *)
EXTENDS MemoryManager, TaskManager, InterruptStubs

CONSTANTS Heap, Scheduler, Frames

VARIABLE part

kernelVars == <<vars, taskVars, stubVars, part>>

KernelInit ==
    /\ Init /\ TaskInit /\ StubInit
    /\ part \in {Heap, Scheduler, Frames}

HeapNext == part = Heap /\ Next /\ UNCHANGED <<taskVars, stubVars, part>>
SchedulerNext == part = Scheduler /\ TaskNext /\ UNCHANGED <<vars, stubVars, part>>
FramesNext == part = Frames /\ StubNext /\ UNCHANGED <<vars, taskVars, part>>

KernelNext == HeapNext \/ SchedulerNext \/ FramesNext

KernelSpec == KernelInit /\ [][KernelNext]_kernelVars
=============================================================================
