---------------------- MODULE InterruptManager_proofs -----------------------
(***************************************************************************)
(* The scheduler and interrupt dispatch.                                   *)
(*                                                                         *)
(* The scheduler, for any set of tasks and any length of the array: TaskInv*)
(* is inductive, and everything else follows from it.                      *)
(*                                                                         *)
(* Interrupt dispatch, for any lines, tasks and number of activations: it  *)
(* implements the scheduler's specification, acknowledges what it serves,  *)
(* loses no request, and misses interrupts only in a handover.             *)
(***************************************************************************)
EXTENDS InterruptManager, TLAPS

USE UnsetAssumption, BootAssumption, MaxTasksAssumption, PcAssumption

(* A filled array and a current slot: Schedule picks a filled slot again.  *)
LEMMA NextIndexIsFilled ==
    ASSUME TaskTypeOK, CurrentRuns, numTasks > 0
    PROVE  NextIndex \in Slots
  <1>1. numTasks \in Nat /\ numTasks > 0 /\ currentTask \in Int
    BY DEF TaskTypeOK
  <1>2. -1 <= currentTask /\ currentTask < numTasks
    BY DEF TaskTypeOK, CurrentRuns
  <1>3. CASE currentTask + 1 >= numTasks
    <2>1. currentTask + 1 = numTasks
      BY <1>1, <1>2, <1>3
    <2>2. (currentTask + 1) % numTasks = 0
      BY <2>1, <1>1
    <2> QED  BY <2>2, <1>1, <1>3 DEF NextIndex, Slots
  <1>4. CASE ~(currentTask + 1 >= numTasks)
    BY <1>1, <1>2, <1>4 DEF NextIndex, Slots
  <1> QED  BY <1>3, <1>4

(* The initial state satisfies the invariant.                              *)
LEMMA TaskInitInv == TaskInit => TaskInv
  BY DEF TaskInit, TaskInv, TaskTypeOK, CurrentRuns, ContextsIntact, Threads,
         CPUState, EntryState, NoTask, Slots

(* AddTask keeps the invariant.                                            *)
LEMMA AddTaskInv ==
    ASSUME TaskInv, NEW t \in Tasks, AddTask(t)
    PROVE  TaskInv'
  <1> USE DEF TaskInv, AddTask
  <1>1. CASE HasRoom
    <2>1. TaskTypeOK'
      <3>1. /\ tasks \in [0 .. MaxTasks - 1 -> Tasks \union {Unset}]
            /\ numTasks \in 0 .. MaxTasks /\ numTasks < MaxTasks
        BY <1>1 DEF TaskTypeOK, HasRoom
      <3>2. tasks' = [tasks EXCEPT ![numTasks] = t] /\ numTasks' = numTasks + 1
        BY <1>1
      <3>3. tasks' \in [0 .. MaxTasks - 1 -> Tasks \union {Unset}]
        BY <3>1, <3>2
      <3>4. numTasks' \in 0 .. MaxTasks
        BY <3>1, <3>2
      <3>5. UNCHANGED <<currentTask, cpustate, cpu, progress>>
        OBVIOUS
      <3> QED  BY <3>3, <3>4, <3>5 DEF TaskTypeOK
    <2>2. CurrentRuns'
      <3>1. ASSUME NEW i \in Slots'
            PROVE  tasks'[i] \in Tasks
        <4>1. numTasks \in Nat /\ numTasks < MaxTasks
          BY <1>1 DEF TaskTypeOK, HasRoom
        <4>2. tasks' = [tasks EXCEPT ![numTasks] = t] /\ numTasks' = numTasks + 1
          BY <1>1
        <4>3. i \in 0 .. numTasks
          BY <3>1, <4>1, <4>2 DEF Slots
        <4>4. CASE i = numTasks
          BY <4>1, <4>2, <4>4 DEF TaskTypeOK
        <4>5. CASE i # numTasks
          <5>1. i \in Slots /\ i \in 0 .. MaxTasks - 1
            BY <4>1, <4>3, <4>5 DEF Slots
          <5> QED  BY <4>1, <4>2, <4>5, <5>1 DEF TaskTypeOK, CurrentRuns
        <4> QED  BY <4>4, <4>5
      <3>2. currentTask < 0
        BY DEF TaskTypeOK, CurrentRuns, Slots
      <3> QED  BY <1>1, <3>1, <3>2 DEF TaskTypeOK, CurrentRuns
    <2>3. ContextsIntact'
      BY DEF ContextsIntact
    <2> QED  BY <2>1, <2>2, <2>3
  <1>2. CASE ~HasRoom
    BY <1>2 DEF TaskTypeOK, CurrentRuns, ContextsIntact, Slots
  <1> QED  BY <1>1, <1>2

(* So do sti and cli.                                                      *)
LEMMA SetInterruptFlagInv ==
    ASSUME TaskInv, NEW flag \in BOOLEAN, SetInterruptFlag(flag)
    PROVE  TaskInv'
  BY DEF TaskInv, SetInterruptFlag, TaskTypeOK, CurrentRuns, ContextsIntact,
         CPUState, Slots

(* And an instruction of the running thread.                               *)
LEMMA ExecuteInv ==
    ASSUME TaskInv, Execute
    PROVE  TaskInv'
  <1> USE DEF TaskInv, Execute
  <1>1. cpu.thread \in Threads /\ cpu.pc \in 0 .. PcBound - 1
    BY DEF TaskTypeOK, CPUState
  <1>2. (cpu.pc + 1) % PcBound \in 0 .. PcBound - 1
    BY <1>1
  <1>3. TaskTypeOK'
    BY <1>1, <1>2 DEF TaskTypeOK, CPUState, ContextsIntact
  <1>4. CurrentRuns'
    BY DEF TaskTypeOK, CPUState, CurrentRuns, Slots
  <1>5. ContextsIntact'
    BY <1>1 DEF TaskTypeOK, CPUState, Threads, ContextsIntact
  <1> QED  BY <1>3, <1>4, <1>5

(* Filing the interrupted context makes every task's context exact.        *)
LEMMA SavedIsExact ==
    ASSUME TaskInv, cpu.interruptible
    PROVE  /\ Saved \in [Tasks -> CPUState]
           /\ \A t \in Tasks :
                 Saved[t] = [thread |-> t, pc |-> progress[t], interruptible |-> TRUE]
  <1> USE DEF TaskInv
  <1>1. /\ cpu \in CPUState
        /\ cpustate \in [Tasks -> CPUState]
    BY DEF TaskTypeOK
  <1>2. cpu = [thread |-> cpu.thread, pc |-> cpu.pc, interruptible |-> cpu.interruptible]
    BY <1>1 DEF CPUState
  <1>3. cpu = [thread |-> cpu.thread, pc |-> progress[cpu.thread], interruptible |-> TRUE]
    BY <1>2 DEF ContextsIntact
  <1>4. CASE currentTask >= 0
    <2>1. tasks[currentTask] = cpu.thread /\ cpu.thread \in Tasks
      BY <1>4 DEF CurrentRuns, TaskTypeOK, Slots
    <2>2. Saved = [cpustate EXCEPT ![cpu.thread] = cpu]
      BY <1>4, <2>1 DEF Saved
    <2> QED  BY <1>1, <1>3, <2>1, <2>2 DEF ContextsIntact
  <1>5. CASE ~(currentTask >= 0)
    <2>1. cpu.thread = Boot
      BY <1>5 DEF CurrentRuns
    <2>2. Saved = cpustate
      BY <1>5 DEF Saved
    <2> QED  BY <1>1, <2>1, <2>2 DEF ContextsIntact
  <1> QED  BY <1>4, <1>5

(* A switch hands out the context of a filled slot, as it was filed.       *)
LEMMA ScheduleInv ==
    ASSUME TaskInv, cpu.interruptible, Schedule,
           UNCHANGED <<tasks, numTasks, progress>>
    PROVE  TaskInv'
  <1> USE DEF TaskInv
  <1>1. CASE numTasks <= 0
    BY <1>1 DEF Schedule, TaskTypeOK, CurrentRuns, ContextsIntact, Slots
  <1>2. CASE ~(numTasks <= 0)
    <2> DEFINE next == NextIndex
               thread == tasks[next]
    <2>1. numTasks > 0 /\ numTasks \in 0 .. MaxTasks
      BY <1>2 DEF TaskTypeOK
    <2>2. next \in Slots
      BY <2>1, NextIndexIsFilled
    <2>3. thread \in Tasks
      BY <2>2 DEF CurrentRuns
    <2>4. next \in 0 .. MaxTasks - 1 /\ next < numTasks /\ next >= 0
      BY <2>1, <2>2 DEF Slots
    <2>5. /\ Saved \in [Tasks -> CPUState]
          /\ \A t \in Tasks :
                Saved[t] = [thread |-> t, pc |-> progress[t], interruptible |-> TRUE]
      BY SavedIsExact
    <2> HIDE DEF next
    <2>6. currentTask' = next /\ cpustate' = Saved /\ cpu' = Saved[thread]
      BY <1>2 DEF Schedule, next
    <2>7. cpu' = [thread |-> thread, pc |-> progress[thread], interruptible |-> TRUE]
      BY <2>3, <2>5, <2>6
    <2>8. TaskTypeOK'
      BY <2>3, <2>4, <2>5, <2>6 DEF TaskTypeOK
    <2>9. CurrentRuns'
      BY <2>4, <2>6, <2>7 DEF CurrentRuns, Slots
    <2>10. ContextsIntact'
      BY <2>3, <2>5, <2>6, <2>7 DEF ContextsIntact, Threads
    <2> QED  BY <2>8, <2>9, <2>10
  <1> QED  BY <1>1, <1>2

(* Every step keeps the invariant.                                         *)
LEMMA TaskNextInv == TaskInv /\ [TaskNext]_taskVars => TaskInv'
  <1> SUFFICES ASSUME TaskInv, [TaskNext]_taskVars
               PROVE  TaskInv'
    OBVIOUS
  <1>1. CASE \E t \in Tasks : AddTask(t)
    BY <1>1, AddTaskInv
  <1>2. CASE \E flag \in BOOLEAN : SetInterruptFlag(flag)
    BY <1>2, SetInterruptFlagInv
  <1>3. CASE Tick
    BY <1>3, ScheduleInv DEF Tick
  <1>4. CASE Execute
    BY <1>4, ExecuteInv
  <1>5. CASE UNCHANGED taskVars
    BY <1>5 DEF taskVars, TaskInv, TaskTypeOK, CurrentRuns, ContextsIntact, Slots
  <1> QED  BY <1>1, <1>2, <1>3, <1>4, <1>5 DEF TaskNext

(* TaskInv holds in every reachable state of the scheduler.                *)
THEOREM TaskInvariance == TaskSpec => []TaskInv
  <1> QED  BY TaskInitInv, TaskNextInv, PTL DEF TaskSpec

(* The scheduler never indexes outside its array: types hold.              *)
THEOREM TaskTypeCorrect == TaskSpec => []TaskTypeOK
  <1>1. TaskInv => TaskTypeOK
    BY DEF TaskInv
  <1> QED  BY <1>1, TaskInvariance, PTL

(* The running thread is always the one currentTask names.                 *)
THEOREM CurrentAlwaysRuns == TaskSpec => []CurrentRuns
  <1>1. TaskInv => CurrentRuns
    BY DEF TaskInv
  <1> QED  BY <1>1, TaskInvariance, PTL

(* A task always resumes its own code, where it was interrupted.           *)
THEOREM ContextsAlwaysIntact == TaskSpec => []ContextsIntact
  <1>1. TaskInv => ContextsIntact
    BY DEF TaskInv
  <1> QED  BY <1>1, TaskInvariance, PTL

(* Once a task was scheduled, the running thread is a task.                *)
LEMMA SwitchedMeansTask ==
    TaskInv => (currentTask >= 0 => cpu.thread # Boot)
  <1> SUFFICES ASSUME TaskInv, currentTask >= 0
               PROVE  cpu.thread # Boot
    OBVIOUS
  <1>1. /\ currentTask \in Int /\ numTasks \in Nat
        /\ currentTask < numTasks
        /\ cpu.thread = tasks[currentTask]
    BY DEF TaskInv, CurrentRuns, TaskTypeOK
  <1>2. currentTask \in Slots
    BY <1>1 DEF Slots
  <1> QED  BY <1>1, <1>2 DEF TaskInv, CurrentRuns

(* Once a task was scheduled, kernelMain never runs again.                 *)
THEOREM KernelMainStaysDropped == TaskSpec => KernelMainDropped
  <1> DEFINE Dropped == currentTask >= 0 => cpu.thread # Boot
  <1>0. TaskInv => Dropped
    BY SwitchedMeansTask
  <1>1. ASSUME TaskInv, Dropped, Dropped', [TaskNext]_taskVars, currentTask >= 0
        PROVE  progress'[Boot] = progress[Boot] /\ cpu'.thread # Boot
    <2>1. currentTask' >= 0
      <3>1. CASE Tick
        <4>1. TaskTypeOK /\ CurrentRuns
          BY <1>1 DEF TaskInv
        <4>2. numTasks > 0 => NextIndex \in Slots
          BY <4>1, NextIndexIsFilled
        <4>3. numTasks > 0
          BY <1>1, <4>1 DEF TaskTypeOK, CurrentRuns
        <4>4. NextIndex >= 0
          BY <4>1, <4>2, <4>3 DEF Slots, TaskTypeOK
        <4> QED  BY <1>1, <3>1, <4>3, <4>4, <4>1 DEF Tick, Schedule, TaskTypeOK
      <3>2. CASE ~Tick
        BY <1>1, <3>2 DEF TaskNext, AddTask, SetInterruptFlag, Execute, taskVars
      <3> QED  BY <3>1, <3>2
    <2>2. cpu.thread # Boot /\ cpu'.thread # Boot
      BY <1>1, <2>1
    <2>3. progress'[Boot] = progress[Boot]
      BY <1>1, <2>2 DEF TaskNext, AddTask, SetInterruptFlag, Tick, Execute, taskVars,
                        TaskInv, TaskTypeOK, Threads
    <2> QED  BY <2>2, <2>3
  <1> QED  BY <1>0, <1>1, TaskInvariance, PTL DEF TaskSpec, KernelMainDropped
-----------------------------------------------------------------------------

USE LinesAssumption, MaxCallsAssumption

(* Where kernelMain is in Activate decides whether a manager is active and *)
(* whether interrupts can come.                                            *)
BootInv ==
    /\ calls = 0 => /\ bootStep = "idle" /\ ~active
                    /\ ~cpu.interruptible /\ work \subseteq irr
    /\ calls > 0 /\ bootStep = "idle" => active
    /\ bootStep = "cli" => ~active /\ calls > 1
    /\ bootStep = "set" => ~active /\ ~cpu.interruptible
    /\ bootStep = "sti" => active /\ ~cpu.interruptible

(* What is in service belongs to the vector that the CPU handles.          *)
ServiceInv ==
    /\ phase # "run" => vector = SystemCall \/ Hardware(vector)
    /\ phase # "run" /\ Hardware(vector) => cpu.interruptible
    /\ ~missed =>
         /\ phase \in {"run", "return"} => isr = {}
         /\ phase = "entered" /\ vector = SystemCall => isr = {}
         /\ phase \in {"entered", "master"} /\ Hardware(vector) =>
               IF vector < Offset + 8 THEN isr \subseteq {vector - Offset}
               ELSE isr \subseteq {Cascade, vector - Offset}
         /\ phase = "slave" => isr \subseteq {vector - Offset}

(* The inductive invariant.                                                *)
InterruptInv == InterruptTypeOK /\ BootInv /\ ServiceInv /\ RequestsKept
                /\ MissedOnlyInHandover

(***************************************************************************)
(* Implementation of the scheduler.                                        *)
(***************************************************************************)

(* Every step of the dispatcher is a step of the scheduler or a stutter.   *)
LEMMA StepRefines == [InterruptNext]_interruptVars => [TaskNext]_taskVars
  <1> SUFFICES ASSUME [InterruptNext]_interruptVars
               PROVE  [TaskNext]_taskVars
    OBVIOUS
  <1>1. CASE \E l \in Lines : Raise(l) \/ Withdraw(l) \/ Deliver(l) \/ Register(l)
    BY <1>1 DEF Raise, Withdraw, Deliver, Register
  <1>2. CASE SoftwareInterrupt
    BY <1>2 DEF SoftwareInterrupt
  <1>3. CASE Service
    BY <1>3 DEF Service, HandleInterruptIgnored, DoHandleInterrupt,
                AcknowledgeMaster, AcknowledgeSlave, Iret, TaskNext
  <1>4. CASE Activate \/ DeactivateCli \/ ActivateSet \/ ActivateSti
    BY <1>4 DEF Activate, DeactivateCli, ActivateSet, ActivateSti, TaskNext
  <1>5. CASE Thread
    BY <1>5 DEF Thread, TaskNext
  <1>6. CASE UNCHANGED interruptVars
    BY <1>6 DEF interruptVars
  <1> QED  BY <1>1, <1>2, <1>3, <1>4, <1>5, <1>6 DEF InterruptNext

(* The dispatcher with its controllers implements the scheduler, in which  *)
(* a switch is one step.                                                   *)
THEOREM ImplementsScheduler == InterruptSpec => TaskSpec
  <1>1. InterruptInit => TaskInit
    BY DEF InterruptInit
  <1> QED  BY <1>1, StepRefines, PTL DEF InterruptSpec, TaskSpec

(***************************************************************************)
(* The invariant, one lemma per action.                                    *)
(***************************************************************************)

(* Before the first activation nothing is in service.                      *)
LEMMA InterruptInitInv == InterruptInit => InterruptInv
  <1> SUFFICES ASSUME InterruptInit
               PROVE  InterruptInv
    OBVIOUS
  <1> USE DEF InterruptInit
  <1>1. InterruptTypeOK
    <2>1. calls \in 0 .. MaxCalls
      BY MaxCallsAssumption
    <2>2. vector \in {0, SystemCall} \union (Offset .. Offset + 15)
      OBVIOUS
    <2> QED  BY <2>1, <2>2 DEF InterruptTypeOK
  <1>2. BootInv
    BY DEF BootInv, TaskInit
  <1>3. ServiceInv /\ RequestsKept /\ MissedOnlyInHandover
    BY DEF ServiceInv, RequestsKept, MissedOnlyInHandover
  <1> QED  BY <1>1, <1>2, <1>3 DEF InterruptInv

(* A request changes nothing that is in service.                           *)
LEMMA RaiseInv ==
    ASSUME InterruptInv, NEW l \in Lines, Raise(l)
    PROVE  InterruptInv'
  BY DEF Raise, InterruptInv, InterruptTypeOK, BootInv, ServiceInv, RequestsKept,
         MissedOnlyInHandover, taskVars, serviceVars, bootVars, Hardware

(* A device that was polled has no handler waiting.                        *)
LEMMA WithdrawInv ==
    ASSUME InterruptInv, NEW l \in Lines, Withdraw(l)
    PROVE  InterruptInv'
  BY DEF Withdraw, InterruptInv, InterruptTypeOK, BootInv, ServiceInv, RequestsKept,
         MissedOnlyInHandover, taskVars, serviceVars, bootVars, Hardware

(* The lines of a chip, and what Input makes of them.                      *)
LEMMA LineFacts ==
    ASSUME NEW l \in Lines
    PROVE  /\ l \in 0 .. 15 /\ l # Cascade
           /\ l \in Slave => l >= 8 /\ Input(l) = Cascade
           /\ l \notin Slave => l < 8 /\ Input(l) = l
  BY DEF Master, Slave, Cascade, Input

(* Only what a vector puts in service is in service.                       *)
LEMMA DeliverInv ==
    ASSUME InterruptInv, NEW l \in Lines, Deliver(l)
    PROVE  InterruptInv'
  <1> USE DEF Offset, Cascade, SystemCall
  <1>1. /\ phase = "run" /\ cpu.interruptible /\ phase' = "entered"
        /\ irr' = irr \ {l}
        /\ UNCHANGED <<work, missed, handlers, active, bootStep, calls, cpu>>
    BY DEF Deliver, taskVars, bootVars
  <1>2. \/ isr' = isr \union {l, Input(l)} /\ vector' = 32 + l
        \/ /\ l \notin work
           /\ isr' = IF l \in Slave THEN isr \union {2} ELSE isr
           /\ vector' = 32 + (IF l \in Slave THEN 15 ELSE 7)
    BY DEF Deliver
  <1>3. calls # 0
    BY <1>1 DEF InterruptInv, BootInv
  <1>4. InterruptTypeOK'
    BY <1>1, <1>2, LineFacts DEF InterruptInv, InterruptTypeOK
  <1>5. BootInv'
    BY <1>1, <1>3 DEF InterruptInv, BootInv
  <1>6. ~missed => isr = {}
    BY <1>1 DEF InterruptInv, ServiceInv
  <1>7. ServiceInv'
    BY <1>1, <1>2, <1>6, LineFacts DEF ServiceInv, Hardware
  <1>8. RequestsKept'
    BY <1>1, <1>2 DEF InterruptInv, RequestsKept
  <1>9. MissedOnlyInHandover'
    BY <1>1 DEF InterruptInv, MissedOnlyInHandover
  <1> QED  BY <1>4, <1>5, <1>7, <1>8, <1>9 DEF InterruptInv

(* A new handler finds its device's request still latched.                 *)
LEMMA RegisterInv ==
    ASSUME InterruptInv, NEW l \in Lines, Register(l)
    PROVE  InterruptInv'
  BY DEF Register, InterruptInv, InterruptTypeOK, BootInv, ServiceInv, RequestsKept,
         MissedOnlyInHandover, taskVars, picVars, serviceVars, Hardware

(* int 0x80 leaves the controllers alone.                                  *)
LEMMA SoftwareInterruptInv ==
    ASSUME InterruptInv, SoftwareInterrupt
    PROVE  InterruptInv'
  BY DEF SoftwareInterrupt, InterruptInv, InterruptTypeOK, BootInv, ServiceInv,
         RequestsKept, MissedOnlyInHandover, taskVars, picVars, bootVars, Hardware,
         SystemCall, Offset

(* An interrupt without a manager is missed, in a handover only.           *)
LEMMA HandleInterruptIgnoredInv ==
    ASSUME InterruptInv, HandleInterruptIgnored
    PROVE  InterruptInv'
  <1> USE DEF HandleInterruptIgnored, InterruptInv, Hardware, SystemCall, Offset
  <1>1. UNCHANGED <<irr, isr, work, vector, handlers, active, bootStep, calls, cpu>>
    BY DEF taskVars, picVars, bootVars
  <1>2. InterruptTypeOK' /\ BootInv'
    BY <1>1 DEF InterruptTypeOK, BootInv
  <1>3. ServiceInv'
    BY <1>1 DEF ServiceInv
  <1>4. RequestsKept'
    <2> SUFFICES ASSUME ~missed', NEW l \in work \intersect handlers
                 PROVE  l \in irr
      BY <1>1 DEF RequestsKept
    <2>1. ~missed /\ vector = 160
      BY DEF ServiceInv
    <2>2. l \in 0 .. 15
      BY LineFacts DEF InterruptTypeOK
    <2>3. l \in irr \/ vector = 32 + l
      BY <2>1 DEF RequestsKept
    <2> QED  BY <2>1, <2>2, <2>3
  <1>5. MissedOnlyInHandover'
    BY <1>1 DEF MissedOnlyInHandover, BootInv, ServiceInv, InterruptTypeOK
  <1> QED  BY <1>2, <1>3, <1>4, <1>5

(* A tick leaves the running context with interrupts enabled.              *)
LEMMA TickInterruptible ==
    ASSUME TaskInv, TaskInv', Tick, cpu.interruptible
    PROVE  cpu'.interruptible
  <1>1. CASE numTasks <= 0
    BY <1>1 DEF Tick, Schedule
  <1>2. CASE ~(numTasks <= 0)
    <2>1. NextIndex \in Slots
      BY <1>2, NextIndexIsFilled DEF TaskInv, TaskTypeOK
    <2>2. tasks[NextIndex] \in Tasks
      BY <2>1 DEF TaskInv, CurrentRuns
    <2>3. cpu' = Saved[tasks[NextIndex]]
      BY <1>2 DEF Tick, Schedule
    <2> QED  BY <2>2, <2>3, SavedIsExact
  <1> QED  BY <1>1, <1>2

(* The handler serves its device; the timer's tick keeps interrupts on.    *)
LEMMA DoHandleInterruptInv ==
    ASSUME InterruptInv, TaskInv, TaskInv', DoHandleInterrupt
    PROVE  InterruptInv'
  <1> USE DEF InterruptInv, Hardware, SystemCall, Offset
  <1>1. /\ phase = "entered" /\ active
        /\ work' = IF HasHandler \/ IsTimer THEN work \ {vector - 32} ELSE work
        /\ phase' = IF Hardware(vector) THEN "master" ELSE "return"
        /\ UNCHANGED <<irr, isr, vector, missed, handlers, active, bootStep, calls>>
    BY DEF DoHandleInterrupt, bootVars
  <1>2. /\ cpu.interruptible => cpu'.interruptible
        /\ ~cpu.interruptible => cpu' = cpu
    BY TickInterruptible DEF DoHandleInterrupt, Tick, taskVars
  <1>3. InterruptTypeOK'
    BY <1>1 DEF InterruptTypeOK, ServiceInv
  <1>4. BootInv'
    BY <1>1, <1>2 DEF BootInv
  <1>5. ServiceInv'
    BY <1>1, <1>2 DEF ServiceInv
  <1>6. RequestsKept'
    BY <1>1 DEF RequestsKept, HasHandler, InterruptTypeOK, Master, Slave
  <1>7. MissedOnlyInHandover'
    BY <1>1 DEF MissedOnlyInHandover
  <1> QED  BY <1>3, <1>4, <1>5, <1>6, <1>7

(* An end of interrupt clears the only input in service on its chip.       *)
LEMMA EndOfInterruptClears ==
    ASSUME NEW chip, NEW n \in chip, chip \subseteq Int,
           \A s \in isr : s \in chip => s = n
    PROVE  EndOfInterrupt(chip) = {s \in isr : s \notin chip}
  BY DEF EndOfInterrupt

(* The master has nothing in service after its acknowledgement.            *)
LEMMA AcknowledgeMasterInv ==
    ASSUME InterruptInv, AcknowledgeMaster
    PROVE  InterruptInv'
  <1> USE DEF InterruptInv, Hardware, SystemCall, Offset
  <1>1. /\ phase = "master" /\ isr' = EndOfInterrupt(Master)
        /\ phase' = IF ToSlave THEN "slave" ELSE "return"
        /\ UNCHANGED <<irr, work, vector, missed, handlers, active, bootStep, calls, cpu>>
    BY DEF AcknowledgeMaster, taskVars, bootVars
  <1>2. vector \in 32 .. 47
    BY <1>1 DEF InterruptTypeOK
  <1>3. isr' \subseteq isr
    BY <1>1 DEF EndOfInterrupt
  <1>4. InterruptTypeOK'
    BY <1>1, <1>2, <1>3 DEF InterruptTypeOK, ToSlave
  <1>5. BootInv' /\ RequestsKept' /\ MissedOnlyInHandover'
    BY <1>1 DEF BootInv, RequestsKept, MissedOnlyInHandover
  <1>6. ASSUME ~missed
        PROVE  IF ToSlave THEN isr' \subseteq {vector - 32} ELSE isr' = {}
    <2>1. CASE ToSlave
      <3>1. isr \subseteq {2, vector - 32} /\ vector - 32 \in 8 .. 15
        BY <1>1, <1>2, <1>6, <2>1 DEF ServiceInv, Cascade, ToSlave
      <3>2. EndOfInterrupt(Master) = {s \in isr : s \notin Master}
        BY <3>1, EndOfInterruptClears DEF Master
      <3>3. ASSUME NEW s \in isr'
            PROVE  s = vector - 32
        <4>1. s \in isr /\ s \notin 0 .. 7
          BY <1>1, <3>2, <3>3 DEF Master
        <4>2. s # 2
          BY <4>1
        <4> QED  BY <3>1, <4>1, <4>2
      <3> QED  BY <2>1, <3>3
    <2>2. CASE ~ToSlave
      <3>1. isr \subseteq {vector - 32} /\ vector - 32 \in 0 .. 7
        BY <1>1, <1>2, <1>6, <2>2 DEF ServiceInv, ToSlave
      <3>2. EndOfInterrupt(Master) = {s \in isr : s \notin Master}
        BY <3>1, EndOfInterruptClears DEF Master
      <3>3. isr' = {}
        BY <1>1, <3>1, <3>2 DEF Master
      <3> QED  BY <2>2, <3>3
    <2> QED  BY <2>1, <2>2
  <1>7. ServiceInv'
    BY <1>1, <1>2, <1>6 DEF ServiceInv
  <1> QED  BY <1>4, <1>5, <1>7

(* The slave has nothing in service after its acknowledgement.             *)
LEMMA AcknowledgeSlaveInv ==
    ASSUME InterruptInv, AcknowledgeSlave
    PROVE  InterruptInv'
  <1> USE DEF InterruptInv, Hardware, SystemCall, Offset
  <1>1. /\ phase = "slave" /\ isr' = EndOfInterrupt(Slave)
        /\ phase' = "return"
        /\ UNCHANGED <<irr, work, vector, missed, handlers, active, bootStep, calls, cpu>>
    BY DEF AcknowledgeSlave, taskVars, bootVars
  <1>2. vector \in 40 .. 47
    BY <1>1 DEF InterruptTypeOK
  <1>3. isr' \subseteq isr
    BY <1>1 DEF EndOfInterrupt
  <1>4. InterruptTypeOK'
    BY <1>1, <1>3 DEF InterruptTypeOK
  <1>5. BootInv' /\ RequestsKept' /\ MissedOnlyInHandover'
    BY <1>1 DEF BootInv, RequestsKept, MissedOnlyInHandover
  <1>6. ASSUME ~missed
        PROVE  isr' = {}
    <2>1. isr \subseteq {vector - 32} /\ vector - 32 \in 8 .. 15
      BY <1>1, <1>2, <1>6 DEF ServiceInv
    <2>2. EndOfInterrupt(Slave) = {s \in isr : s \notin Slave}
      BY <2>1, EndOfInterruptClears DEF Slave
    <2> QED  BY <1>1, <2>1, <2>2 DEF Slave
  <1>7. ServiceInv'
    BY <1>1, <1>2, <1>6 DEF ServiceInv
  <1> QED  BY <1>4, <1>5, <1>7

(* The interrupted thread resumes with nothing in service.                 *)
LEMMA IretInv ==
    ASSUME InterruptInv, Iret
    PROVE  InterruptInv'
  BY DEF Iret, InterruptInv, InterruptTypeOK, BootInv, ServiceInv, RequestsKept,
         MissedOnlyInHandover, taskVars, picVars, bootVars, Hardware

(* Activate sets a manager, or starts to take down the active one.         *)
LEMMA ActivateInv ==
    ASSUME InterruptInv, Activate
    PROVE  InterruptInv'
  <1> USE DEF Activate, InBoot, InterruptInv
  <1>1. UNCHANGED <<irr, isr, work, handlers, phase, vector, missed, cpu>>
    BY DEF taskVars, picVars, serviceVars
  <1>2. calls \in Nat /\ calls < MaxCalls /\ calls' = calls + 1
    BY DEF InterruptTypeOK
  <1>3. calls' \in 0 .. MaxCalls /\ calls' > calls
    BY <1>2, MaxCallsAssumption
  <1>4. InterruptTypeOK'
    BY <1>1, <1>3 DEF InterruptTypeOK
  <1>5. MissedOnlyInHandover'
    BY <1>1, <1>2, <1>3 DEF MissedOnlyInHandover
  <1>6. BootInv'
    BY <1>1, <1>2 DEF BootInv
  <1>7. ServiceInv' /\ RequestsKept'
    BY <1>1 DEF ServiceInv, RequestsKept, Hardware
  <1> QED  BY <1>4, <1>5, <1>6, <1>7

(* The flag of the running context after sti or cli.                       *)
LEMMA FlagIsSet ==
    ASSUME TaskInv, NEW flag \in BOOLEAN, SetInterruptFlag(flag)
    PROVE  cpu'.interruptible = flag
  BY DEF TaskInv, TaskTypeOK, CPUState, SetInterruptFlag

(* The machine steps of Activate, one after the other.                     *)
LEMMA ActivateStepsInv ==
    ASSUME InterruptInv, TaskInv, DeactivateCli \/ ActivateSet \/ ActivateSti
    PROVE  InterruptInv'
  <1> USE DEF InBoot, InterruptInv
  <1>1. CASE DeactivateCli
    <2>1. ~cpu'.interruptible
      BY <1>1, FlagIsSet DEF DeactivateCli
    <2> QED  BY <1>1, <2>1 DEF DeactivateCli, InterruptTypeOK, BootInv, ServiceInv,
                 RequestsKept, MissedOnlyInHandover, picVars, serviceVars, Hardware
  <1>2. CASE ActivateSet
    BY <1>2 DEF ActivateSet, InterruptTypeOK, BootInv, ServiceInv, RequestsKept,
                MissedOnlyInHandover, taskVars, picVars, serviceVars, Hardware
  <1>3. CASE ActivateSti
    <2>1. cpu'.interruptible
      BY <1>3, FlagIsSet DEF ActivateSti
    <2>2. calls # 0
      BY <1>3 DEF ActivateSti, BootInv
    <2> QED  BY <1>3, <2>1, <2>2 DEF ActivateSti, InterruptTypeOK, BootInv, ServiceInv,
                 RequestsKept, MissedOnlyInHandover, picVars, serviceVars, Hardware
  <1> QED  BY <1>1, <1>2, <1>3

(* Threads do not touch the controllers.                                   *)
LEMMA ThreadInv ==
    ASSUME InterruptInv, TaskInv, Thread
    PROVE  InterruptInv'
  <1>1. cpu'.interruptible = cpu.interruptible
    BY DEF Thread, Execute, AddTask, TaskInv, TaskTypeOK, CPUState
  <1> QED  BY <1>1 DEF Thread, InterruptInv, InterruptTypeOK, BootInv, ServiceInv,
               RequestsKept, MissedOnlyInHandover, picVars, serviceVars, bootVars,
               Hardware

(* Every step keeps the invariant.                                         *)
LEMMA InterruptNextInv ==
    ASSUME InterruptInv, TaskInv, TaskInv', [InterruptNext]_interruptVars
    PROVE  InterruptInv'
  <1>1. CASE \E l \in Lines : Raise(l) \/ Withdraw(l) \/ Deliver(l) \/ Register(l)
    BY <1>1, RaiseInv, WithdrawInv, DeliverInv, RegisterInv
  <1>2. CASE SoftwareInterrupt
    BY <1>2, SoftwareInterruptInv
  <1>3. CASE Service
    BY <1>3, HandleInterruptIgnoredInv, DoHandleInterruptInv, AcknowledgeMasterInv,
       AcknowledgeSlaveInv, IretInv DEF Service
  <1>4. CASE Activate
    BY <1>4, ActivateInv
  <1>5. CASE DeactivateCli \/ ActivateSet \/ ActivateSti
    BY <1>5, ActivateStepsInv
  <1>6. CASE Thread
    BY <1>6, ThreadInv
  <1>7. CASE UNCHANGED interruptVars
    BY <1>7 DEF interruptVars, taskVars, picVars, serviceVars, bootVars, InterruptInv,
                InterruptTypeOK, BootInv, ServiceInv, RequestsKept,
                MissedOnlyInHandover, Hardware
  <1> QED  BY <1>1, <1>2, <1>3, <1>4, <1>5, <1>6, <1>7 DEF InterruptNext

(* InterruptInv holds in every reachable state.                            *)
THEOREM InterruptInvariance == InterruptSpec => []InterruptInv
  <1>1. InterruptSpec => []TaskInv
    BY ImplementsScheduler, TaskInvariance, PTL
  <1>2. InterruptInv /\ TaskInv /\ TaskInv' /\ [InterruptNext]_interruptVars
           => InterruptInv'
    BY InterruptNextInv
  <1> QED  BY InterruptInitInv, <1>1, <1>2, PTL DEF InterruptSpec

(* Types hold, and only the controllers' vectors are acknowledged.         *)
THEOREM InterruptTypeCorrect == InterruptSpec => []InterruptTypeOK
  <1>1. InterruptInv => InterruptTypeOK
    BY DEF InterruptInv
  <1> QED  BY <1>1, InterruptInvariance, PTL

(* Every interrupt that finds a manager is acknowledged, on the right chip *)
(* and once, before the interrupted thread goes on.                        *)
THEOREM InterruptsAcknowledged == InterruptSpec => []AcknowledgedUnlessMissed
  <1>1. InterruptInv => AcknowledgedUnlessMissed
    BY DEF InterruptInv, ServiceInv, AcknowledgedUnlessMissed,
           HardwareInterruptsAcknowledged
  <1> QED  BY <1>1, InterruptInvariance, PTL

(* No request of a device with a handler is lost.                          *)
THEOREM RequestsAlwaysKept == InterruptSpec => []RequestsKept
  <1>1. InterruptInv => RequestsKept
    BY DEF InterruptInv
  <1> QED  BY <1>1, InterruptInvariance, PTL

(* An interrupt is missed in a handover only.                              *)
THEOREM MissedInHandoverOnly == InterruptSpec => []MissedOnlyInHandover
  <1>1. InterruptInv => MissedOnlyInHandover
    BY DEF InterruptInv
  <1> QED  BY <1>1, InterruptInvariance, PTL

(* With the single activation of kernelMain every hardware interrupt is    *)
(* acknowledged.                                                           *)
THEOREM SingleActivationAcknowledges ==
    MaxCalls = 1 => (InterruptSpec => []HardwareInterruptsAcknowledged)
  <1>1. ASSUME MaxCalls = 1
        PROVE  InterruptInv => HardwareInterruptsAcknowledged
    BY <1>1 DEF InterruptInv, InterruptTypeOK, MissedOnlyInHandover, ServiceInv,
                HardwareInterruptsAcknowledged
  <1>2. CASE MaxCalls = 1
    BY <1>1, <1>2, InterruptInvariance, PTL
  <1> QED  BY <1>2
=============================================================================
