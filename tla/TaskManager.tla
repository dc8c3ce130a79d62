---------------------------- MODULE TaskManager ----------------------------
(***************************************************************************)
(* The scheduler, multitasking.cpp: an array of tasks filled by AddTask    *)
(* and, at every timer interrupt, Schedule, which files the interrupted    *)
(* context under the current task and hands back the next task's.          *)
(*                                                                         *)
(* A CPUState is abstracted to whose code it resumes, where, and whether   *)
(* its eflags let interrupts in.  "progress" is a history variable: how    *)
(* far each thread really got.  Programs are loops of PcBound instructions *)
(* so that the counters are finite.                                        *)
(***************************************************************************)
EXTENDS Integers

CONSTANTS Tasks,      \* the Task objects
          Unset,      \* what an array slot holds that AddTask has not filled
          Boot,       \* the thread that runs kernelMain
          MaxTasks,   \* length of the array "tasks" (256 in the code)
          PcBound     \* instructions of a program, a bound of the model

ASSUME UnsetAssumption == Unset \notin Tasks
ASSUME BootAssumption == Boot \notin Tasks
ASSUME MaxTasksAssumption == MaxTasks \in Nat \ {0}
ASSUME PcAssumption == PcBound \in Nat \ {0}

VARIABLES tasks,        \* the array: index -> Task
          numTasks,
          currentTask,  \* index of the running task, -1 before the first switch
          cpustate,     \* task -> the context its cpustate points to
          cpu,          \* the context that runs, or that the interrupt returns to
          progress      \* thread -> instructions it has executed, modulo PcBound

taskVars == <<tasks, numTasks, currentTask, cpustate, cpu, progress>>

Threads == Tasks \union {Boot}
CPUState == [thread : Threads, pc : 0 .. PcBound - 1, interruptible : BOOLEAN]

(* currentTask before the first switch.                                    *)
NoTask == -1

(* What the constructor of Task leaves on its stack: eip = entrypoint and  *)
(* eflags = 0x202, interrupts enabled.                                     *)
EntryState(t) == [thread |-> t, pc |-> 0, interruptible |-> TRUE]

TaskInit ==
    /\ tasks = [i \in 0 .. MaxTasks - 1 |-> Unset]
    /\ numTasks = 0
    /\ currentTask = NoTask
    /\ cpustate = [t \in Tasks |-> EntryState(t)]
    /\ cpu = [thread |-> Boot, pc |-> 0, interruptible |-> FALSE]
    /\ progress = [t \in Threads |-> 0]

-----------------------------------------------------------------------------
HasRoom == numTasks < MaxTasks

(* kernelMain adds its tasks with interrupts disabled, so the two stores   *)
(* of "tasks[numTasks++] = task" are one step.                             *)
AddTask(t) ==
    /\ cpu.thread = Boot
    /\ ~cpu.interruptible
    /\ IF HasRoom
       THEN /\ tasks' = [tasks EXCEPT ![numTasks] = t]
            /\ numTasks' = numTasks + 1
       ELSE UNCHANGED <<tasks, numTasks>>
    /\ UNCHANGED <<currentTask, cpustate, cpu, progress>>

(* The sti and the cli of InterruptManager, which only kernelMain executes. *)
SetInterruptFlag(flag) ==
    /\ cpu.thread = Boot
    /\ cpu' = [cpu EXCEPT !.interruptible = flag]
    /\ UNCHANGED <<tasks, numTasks, currentTask, cpustate, progress>>

(* "if(++currentTask >= numTasks) currentTask %= numTasks"                 *)
NextIndex ==
    IF currentTask + 1 >= numTasks THEN (currentTask + 1) % numTasks
    ELSE currentTask + 1

(* Mutant of Saved: the context is not filed.                              *)
SavedNever == cpustate

(* The contexts once the interrupted one is filed; before the first switch *)
(* it is kernelMain's, and it is filed nowhere.                            *)
Saved ==
    IF currentTask >= 0
    THEN [cpustate EXCEPT ![tasks[currentTask]] = cpu]
    ELSE cpustate

Schedule ==
    IF numTasks <= 0
    THEN UNCHANGED <<currentTask, cpustate, cpu>>
    ELSE /\ currentTask' = NextIndex
         /\ cpustate' = Saved
         /\ cpu' = cpustate'[tasks[currentTask']]

(* A timer interrupt, from the running context to the one it returns to.   *)
Tick ==
    /\ cpu.interruptible
    /\ Schedule
    /\ UNCHANGED <<tasks, numTasks, progress>>

(* The running thread executes an instruction.                             *)
Execute ==
    /\ cpu' = [cpu EXCEPT !.pc = (@ + 1) % PcBound]
    /\ progress' = [progress EXCEPT ![cpu.thread] = (@ + 1) % PcBound]
    /\ UNCHANGED <<tasks, numTasks, currentTask, cpustate>>

TaskNext == \/ \E t \in Tasks : AddTask(t)
            \/ \E flag \in BOOLEAN : SetInterruptFlag(flag)
            \/ Tick
            \/ Execute

TaskSpec == TaskInit /\ [][TaskNext]_taskVars

(* The timer never stops.                                                  *)
FairTaskSpec == TaskSpec /\ WF_taskVars(Tick)

-----------------------------------------------------------------------------
(* Properties                                                              *)

Slots == 0 .. numTasks - 1
Added == {tasks[i] : i \in Slots}

(* The types of the scheduler's state.                                     *)
TaskTypeOK ==
    /\ tasks \in [0 .. MaxTasks - 1 -> Tasks \union {Unset}]
    /\ numTasks \in 0 .. MaxTasks
    /\ currentTask \in -1 .. MaxTasks - 1
    /\ cpustate \in [Tasks -> CPUState]
    /\ cpu \in CPUState
    /\ progress \in [Threads -> 0 .. PcBound - 1]

(* The thread that runs is the one currentTask names, a slot AddTask has   *)
(* filled, or kernelMain as long as nothing was ever scheduled.            *)
CurrentRuns ==
    /\ \A i \in Slots : tasks[i] \in Tasks
    /\ currentTask < numTasks
    /\ cpu.thread = IF currentTask >= 0 THEN tasks[currentTask] ELSE Boot

(* Every context that Schedule may hand out resumes its own task, where    *)
(* that task was interrupted and with interrupts enabled; and the running  *)
(* thread really is where it left off, a task with interrupts enabled.     *)
ContextsIntact ==
    /\ cpu.pc = progress[cpu.thread]
    /\ cpu.thread # Boot => cpu.interruptible
    /\ \A t \in Tasks : t # cpu.thread =>
          cpustate[t] = [thread |-> t, pc |-> progress[t], interruptible |-> TRUE]

(* kernelMain's context is dropped by the first switch to a task: from     *)
(* then on its loop never executes another instruction.                    *)
KernelMainDropped ==
    [][currentTask >= 0 =>
          progress'[Boot] = progress[Boot] /\ cpu'.thread # Boot]_taskVars

(* Round robin starves nobody: if interrupts stay enabled, every task that *)
(* was added runs again and again.                                         *)
EveryTaskRuns ==
    <>[](cpu.interruptible) =>
        \A t \in Tasks : [](t \in Added => <>(cpu.thread = t))

(* The inductive invariant.                                                *)
TaskInv == TaskTypeOK /\ CurrentRuns /\ ContextsIntact
=============================================================================
