------------------------- MODULE InterruptManager -------------------------
(***************************************************************************)
(* Interrupt dispatch, interrupts.cpp and interruptstubs.s, with the two   *)
(* cascaded interrupt controllers it programs and acknowledges, on top of  *)
(* the scheduler that it drives.                                           *)
(*                                                                         *)
(* Interrupt gates disable interrupts, so one vector is in service at a    *)
(* time; the devices go on raising lines meanwhile, which is why the       *)
(* handler's call and the two acknowledgements are steps of their own.     *)
(* While a vector is in service "cpu" is the context that the stub's iret  *)
(* will resume.                                                            *)
(***************************************************************************)
EXTENDS TaskManager

CONSTANTS Lines,     \* interrupt lines that have a device
          MaxCalls   \* calls of Activate by kernelMain, a bound of the model

Offset  == 32        \* hardwareInterruptOffset, 0x20 in kernelMain
Timer   == 0
Cascade == 2         \* the master's input that the slave drives
Master  == 0 .. 7
Slave   == 8 .. 15
SystemCall == 160    \* gate 0x80; its stub adds IRQ_BASE to the number

ASSUME LinesAssumption == Lines \subseteq (Master \union Slave) \ {Cascade}
ASSUME MaxCallsAssumption == MaxCalls \in Nat

VARIABLES irr,       \* lines latched by the controllers, not yet taken
          isr,       \* inputs in service, not yet acknowledged
          work,      \* lines whose device still waits for its handler
          handlers,  \* lines with an InterruptHandler in the table
          active,    \* ActiveInterruptManager # 0
          bootStep,  \* where kernelMain is in Activate
          calls,
          phase,     \* where the CPU is between interrupt and iret
          vector,    \* "interruptnumber"
          missed     \* history: an interrupt found no active manager

picVars == <<irr, isr, work>>
serviceVars == <<phase, vector, missed>>
bootVars == <<handlers, active, bootStep, calls>>
interruptVars == <<taskVars, picVars, serviceVars, bootVars>>

InterruptInit ==
    /\ TaskInit
    /\ irr = {} /\ isr = {} /\ work = {}
    /\ handlers = {}
    /\ active = FALSE
    /\ bootStep = "idle"
    /\ calls = 0
    /\ phase = "run"
    /\ vector = 0
    /\ missed = FALSE

(* Mutant of Hardware: the slave's lines are forgotten.                    *)
HardwareMasterOnly(v) == Offset <= v /\ v < Offset + 8

Hardware(v) == Offset <= v /\ v < Offset + 16

-----------------------------------------------------------------------------
(* The controllers: edge triggered, fully nested, nothing masked.          *)

Input(l) == IF l \in Slave THEN Cascade ELSE l

(* The lines each chip would announce: the slave's go through the cascade. *)
Requests ==
    (irr \intersect Master)
      \union {l \in irr \intersect Slave :
                \A s \in isr \intersect Slave : l < s}

(* The line that the master and then the slave put first.                  *)
Selected(l) ==
    /\ l \in Requests
    /\ \A s \in isr \intersect Master : Input(l) < s
    /\ \A r \in Requests : Input(l) < Input(r) \/ (Input(l) = Input(r) /\ l <= r)

(* A non-specific EOI ends the service of a chip's first input.            *)
EndOfInterrupt(chip) ==
    {s \in isr : s \notin chip \/ \E t \in isr \intersect chip : t < s}

(* A device (the timer: its tick) asks for service; the line is latched on *)
(* its rising edge.                                                        *)
Raise(l) ==
    /\ l = Timer \/ l \notin work
    /\ l # Timer \/ l \notin irr
    /\ irr' = irr \union {l}
    /\ work' = work \union {l}
    /\ UNCHANGED <<taskVars, isr, serviceVars, bootVars>>

(* A device is served by polling before its interrupt is taken, as the     *)
(* constructors of the drivers do.                                         *)
Withdraw(l) ==
    /\ l \in work
    /\ ~cpu.interruptible
    /\ phase = "run"
    /\ work' = work \ {l}
    /\ UNCHANGED <<taskVars, irr, isr, serviceVars, bootVars>>

(* The CPU takes an interrupt.                                             *)
Deliver(l) ==
    /\ phase = "run"
    /\ cpu.interruptible
    /\ Selected(l)
    /\ irr' = irr \ {l}
    /\ phase' = "entered"
    /\ \/ /\ isr' = isr \union {l, Input(l)}
          /\ vector' = Offset + l
       \/ /\ l \notin work   \* the line fell: the chip reports its last input
          /\ isr' = IF l \in Slave THEN isr \union {Cascade} ELSE isr
          /\ vector' = Offset + (IF l \in Slave THEN 15 ELSE 7)
    /\ UNCHANGED <<taskVars, work, missed, bootVars>>

(* A thread executes int 0x80.                                             *)
SoftwareInterrupt ==
    /\ phase = "run"
    /\ phase' = "entered"
    /\ vector' = SystemCall
    /\ UNCHANGED <<taskVars, picVars, missed, bootVars>>

-----------------------------------------------------------------------------
(* InterruptManager                                                        *)

(* HandleInterrupt when ActiveInterruptManager is 0: "return esp".         *)
HandleInterruptIgnored ==
    /\ phase = "entered"
    /\ ~active
    /\ phase' = "return"
    /\ missed' = (missed \/ Hardware(vector))
    /\ UNCHANGED <<taskVars, picVars, vector, bootVars>>

(* Mutant of HasHandler: only the master's lines are looked up.            *)
HasHandlerMasterOnly == vector - Offset \in handlers /\ vector < Offset + 8

HasHandler == vector - Offset \in handlers

(* Mutant of IsTimer: the timer goes to its handler only.                  *)
IsTimerNever == FALSE

IsTimer == vector = Offset + Timer

(* DoHandleInterrupt up to the acknowledgement: the handler serves its     *)
(* device, the timer switches tasks.                                       *)
DoHandleInterrupt ==
    /\ phase = "entered"
    /\ active
    /\ work' = IF HasHandler \/ IsTimer THEN work \ {vector - Offset} ELSE work
    /\ IF IsTimer THEN Tick ELSE UNCHANGED taskVars
    /\ phase' = IF Hardware(vector) THEN "master" ELSE "return"
    /\ UNCHANGED <<irr, isr, vector, missed, bootVars>>

(* Mutant of ToSlave: line 8 is taken for one of the master's.             *)
ToSlaveOffByOne == Offset + 8 < vector

ToSlave == Offset + 8 <= vector

AcknowledgeMaster ==
    /\ phase = "master"
    /\ isr' = EndOfInterrupt(Master)
    /\ phase' = IF ToSlave THEN "slave" ELSE "return"
    /\ UNCHANGED <<taskVars, irr, work, vector, missed, bootVars>>

AcknowledgeSlave ==
    /\ phase = "slave"
    /\ isr' = EndOfInterrupt(Slave)
    /\ phase' = "return"
    /\ UNCHANGED <<taskVars, irr, work, vector, missed, bootVars>>

(* The stub switches to the returned stack and executes iret; the number   *)
(* it leaves in "interruptnumber" is overwritten before it is read again.  *)
Iret ==
    /\ phase = "return"
    /\ phase' = "run"
    /\ vector' = 0
    /\ UNCHANGED <<taskVars, picVars, missed, bootVars>>

(* kernelMain constructs an InterruptHandler.                              *)
Register(l) ==
    /\ phase = "run" /\ cpu.thread = Boot /\ calls = 0
    /\ l # Timer
    /\ handlers' = handlers \union {l}
    /\ UNCHANGED <<taskVars, picVars, serviceVars, active, bootStep, calls>>

InBoot(step) == phase = "run" /\ cpu.thread = Boot /\ bootStep = step

(* Activate; with a manager active, it starts with Deactivate, which       *)
(* clears ActiveInterruptManager and then executes cli.                    *)
Activate ==
    /\ InBoot("idle")
    /\ calls < MaxCalls
    /\ calls' = calls + 1
    /\ IF active THEN active' = FALSE /\ bootStep' = "cli"
                 ELSE active' = TRUE  /\ bootStep' = "sti"
    /\ UNCHANGED <<taskVars, picVars, serviceVars, handlers>>

DeactivateCli ==
    /\ InBoot("cli")
    /\ SetInterruptFlag(FALSE)
    /\ bootStep' = "set"
    /\ UNCHANGED <<picVars, serviceVars, handlers, active, calls>>

ActivateSet ==
    /\ InBoot("set")
    /\ active' = TRUE
    /\ bootStep' = "sti"
    /\ UNCHANGED <<taskVars, picVars, serviceVars, handlers, calls>>

ActivateSti ==
    /\ InBoot("sti")
    /\ SetInterruptFlag(TRUE)
    /\ bootStep' = "idle"
    /\ UNCHANGED <<picVars, serviceVars, handlers, active, calls>>

(* Between interrupts the threads run; kernelMain adds its tasks before it *)
(* activates interrupts.                                                   *)
Thread ==
    /\ phase = "run"
    /\ Execute \/ (calls = 0 /\ \E t \in Tasks : AddTask(t))
    /\ UNCHANGED <<picVars, serviceVars, bootVars>>

Service == HandleInterruptIgnored \/ DoHandleInterrupt \/ AcknowledgeMaster
           \/ AcknowledgeSlave \/ Iret

InterruptNext ==
    \/ \E l \in Lines : Raise(l) \/ Withdraw(l) \/ Deliver(l) \/ Register(l)
    \/ SoftwareInterrupt
    \/ Service
    \/ Activate \/ DeactivateCli \/ ActivateSet \/ ActivateSti
    \/ Thread

(* The timer never stops, the CPU leaves no interrupt waiting for ever and *)
(* always gets on with the one it serves.                                  *)
InterruptSpec ==
    /\ InterruptInit
    /\ [][InterruptNext]_interruptVars
    /\ WF_interruptVars(Service)
    /\ WF_interruptVars(Timer \in Lines /\ Raise(Timer))
    /\ \A l \in Lines : SF_interruptVars(Deliver(l))

-----------------------------------------------------------------------------
(* Properties                                                              *)

(* The types of the dispatcher's state; only a vector of the controllers   *)
(* is acknowledged, the slave only for one of its own.                     *)
InterruptTypeOK ==
    /\ irr \subseteq Lines /\ work \subseteq Lines
    /\ isr \subseteq Lines \union {Cascade}
    /\ handlers \subseteq Lines \ {Timer}
    /\ active \in BOOLEAN /\ missed \in BOOLEAN
    /\ bootStep \in {"idle", "cli", "set", "sti"}
    /\ calls \in 0 .. MaxCalls
    /\ phase \in {"run", "entered", "master", "slave", "return"}
    /\ vector \in {0, SystemCall} \union (Offset .. Offset + 15)
    /\ phase = "master" => vector \in Offset .. Offset + 15
    /\ phase = "slave" => vector \in Offset + 8 .. Offset + 15

(* "hardware interrupts must be acknowledged" (interrupts.cpp:209): when   *)
(* the interrupted thread runs again no input of the controllers is still  *)
(* in service, so none of a lower priority is held back.                   *)
HardwareInterruptsAcknowledged == phase = "run" => isr = {}

(* So it is, spurious interrupts included, as long as every interrupt      *)
(* finds a manager active.                                                 *)
AcknowledgedUnlessMissed == ~missed => HardwareInterruptsAcknowledged

(* No request of a device with a handler is lost: until its handler runs   *)
(* it is latched or the one in service, although devices go on raising and *)
(* dropping their lines while others are served.                           *)
RequestsKept ==
    ~missed => \A l \in work \intersect handlers :
                  l \in irr \/ (phase = "entered" /\ vector = Offset + l)

(* Only an interrupt taken while kernelMain hands over from one manager to *)
(* the next is missed, never one of a single activation.                   *)
MissedOnlyInHandover == missed => calls > 1

(* The scheduler keeps its promise when it is driven through the           *)
(* controllers: every task runs again and again.                           *)
TasksRun == [](~missed) => EveryTaskRuns

(* Nothing but the line l waits.                                           *)
Quiet(l) == phase = "run" /\ irr \subseteq {l}

(* A device with a handler is served, unless higher priorities keep the    *)
(* controllers busy for ever or interrupts are switched off.               *)
DevicesServed ==
    ([](~missed) /\ <>[](cpu.interruptible)) =>
        \A l \in Lines \ {Timer} :
            ([]<>Quiet(l)) =>
                [](l \in work \intersect handlers => <>(l \notin work))
=============================================================================
