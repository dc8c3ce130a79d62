---------------------------- MODULE InterruptStubs ----------------------------
(***************************************************************************)
(* How an interrupt gets to HandleInterrupt and back: the entries of the   *)
(* interrupt descriptor table (interrupts.cpp), the stubs that push and    *)
(* pop the registers (interruptstubs.s), and the frame that the            *)
(* constructor of a task prepares for them (multitasking.cpp).             *)
(*                                                                         *)
(* Each thread has a stack, its top first, of symbolic words: what a word  *)
(* is, and whose.  The processor pushes flags, code selector and return    *)
(* address, and for some exceptions an error code; its iret takes three    *)
(* words, and faults if the second is no code selector: a general          *)
(* protection exception, which returns to the iret.                        *)
(***************************************************************************)
EXTENDS Integers, SequencesExt

CONSTANTS Owners,  \* of the stacks: kernelMain and the tasks
          Main,    \* kernelMain
          Vectors  \* exceptions and interrupts that occur

ASSUME MainAssumption == Main \in Owners
ASSUME VectorsAssumption == Vectors \subseteq 0 .. 255

Timer == 32
GeneralProtection == 13

(* Exceptions for which the processor pushes an error code.                *)
WithCode == {8, 10, 11, 12, 13, 14, 17}

(* Which stub a gate of the table leads to.                                *)
Gate(v) ==
    IF v \in 0 .. 19 THEN "HandleException"
    ELSE IF v \in (32 .. 47) \union {128} THEN "HandleInterruptRequest"
    ELSE "InterruptIgnore"

VARIABLES stack,      \* of each owner
          running,    \* whose stack esp points into
          registers,  \* eax, ebx, ecx, edx, esi, edi, ebp
          at,         \* the code that runs, or that was interrupted
          step,       \* "run", or how far an interrupt has got
          vector,     \* the interrupt's
          left        \* history: registers and place where each was left

stubVars == <<stack, running, registers, at, step, vector, left>>

Word(is, whose) == [is |-> is, whose |-> whose]
Names == <<"eax", "ebx", "ecx", "edx", "esi", "edi", "ebp">>
Own(o) == [k \in 1 .. 7 |-> Word(Names[k], o)]
Code(o) == Word("code", o)
Selector == Word("selector", Main)
Flags(o) == Word("flags", o)

(* What the constructor of Task leaves, from eax to eflags; the error is   *)
(* not set.                                                                *)
TaskFrame(o) == Own(o) \o <<Word("unset", o), Code(o), Selector, Flags(o)>>

StubInit ==
    /\ stack = [o \in Owners |-> IF o = Main THEN <<>> ELSE TaskFrame(o)]
    /\ running = Main
    /\ registers = Own(Main) /\ at = Code(Main)
    /\ step = "run" /\ vector = 0
    /\ left = [o \in Owners |-> [registers |-> Own(o), at |-> Code(o)]]

Push(words) == stack' = [stack EXCEPT ![running] = words \o @]
Drop(n) == stack' = [stack EXCEPT ![running] = SubSeq(@, n + 1, Len(@))]

-----------------------------------------------------------------------------
(* The processor enters a gate, from code at this place.                   *)
Enter(v, place) ==
    /\ Push((IF v \in WithCode THEN <<Word("error", running)>> ELSE <<>>)
            \o <<place, Selector, Flags(running)>>)
    /\ left' = [left EXCEPT ![running] = [registers |-> registers, at |-> place]]
    /\ vector' = v
    /\ at' = place
    /\ step' = IF Gate(v) = "InterruptIgnore" THEN "iret" ELSE "stub"
    /\ UNCHANGED <<running, registers>>

(* Execute until an exception or an interrupt.                             *)
Interrupted(v) == step = "run" /\ Enter(v, at)

(* Mutant of Filler: the request's stub pushes nothing for the error.      *)
FillerForgotten == <<>>

(* Where the processor pushed no error code: HandleException relies on it, *)
(* HandleInterruptRequest pushes 0.                                        *)
Filler ==
    IF Gate(vector) = "HandleInterruptRequest" THEN <<Word("zero", running)>>
    ELSE <<>>

(* To the call, and what a C++ function may change.                        *)
Stub ==
    /\ step = "stub"
    /\ Push(registers \o Filler)
    /\ registers' = [k \in 1 .. 7 |->
                        IF Names[k] \in {"eax", "ecx", "edx"}
                        THEN Word("changed", running) ELSE registers[k]]
    /\ step' = "handle"
    /\ UNCHANGED <<running, at, vector, left>>

(* HandleInterrupt gives the esp that it got, or for the timer another     *)
(* task's.                                                                 *)
HandleInterrupt ==
    /\ step = "handle"
    /\ running' = running \/ (vector = Timer /\ running' \in Owners \ {Main})
    /\ step' = "restore"
    /\ UNCHANGED <<stack, registers, at, vector, left>>

(* "mov %eax, %esp", the pops, and the word of the error code.             *)
Restore ==
    /\ step = "restore"
    /\ registers' = SubSeq(stack[running], 1, 7)
    /\ Drop(8)
    /\ step' = "iret"
    /\ UNCHANGED <<running, at, vector, left>>

Faults == stack[running][2] # Selector
Iret == Word("iret", Main)

Return ==
    /\ step = "iret" /\ ~Faults
    /\ at' = Head(stack[running])
    /\ Drop(3)
    /\ step' = IF at' = Iret THEN "fault" ELSE "run"
    /\ UNCHANGED <<running, registers, vector, left>>

IretFaults ==
    \/ step = "fault" /\ Enter(GeneralProtection, Iret)
    \/ step = "iret" /\ Faults /\ Enter(GeneralProtection, Iret)

Serve == Stub \/ HandleInterrupt \/ Restore \/ Return \/ IretFaults

StubNext == (\E v \in Vectors : Interrupted(v)) \/ Serve

StubSpec == StubInit /\ [][StubNext]_stubVars

-----------------------------------------------------------------------------
(* "return to original process" (interruptstubs.s:120): the iret finds the *)
(* place, the selector and the flags of the thread whose stack it is on,   *)
(* and the seven registers as they were there, also of a task that was     *)
(* interrupted earlier or never ran.  Except for an exception without an   *)
(* error code, whose stub pushes nothing in its place: the word that is    *)
(* dropped is then the return address, and iret faults again and again.    *)
FramesReturn ==
    step = "iret" /\ (Gate(vector) = "HandleException" => vector \in WithCode) =>
        /\ registers = left[running].registers
        /\ IsPrefix(<<left[running].at, Selector, Flags(running)>>, stack[running])
=============================================================================
