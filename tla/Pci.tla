--------------------------------- MODULE Pci ---------------------------------
(***************************************************************************)
(* The drivers that kernelMain collects: the keyboard's and the mouse's,   *)
(* then one for each network card that PCIController.SelectDrivers finds   *)
(* (pci.cpp), in the array of the driver manager (driver.cpp).             *)
(*                                                                         *)
(* A slot is a device number of a bus, in the order of the two outer       *)
(* loops.  It is empty, or has functions: bit 7 of the header type, which  *)
(* is `multi', says that there may be several.  The configuration space of *)
(* the others is external: a device of one function does not look at the   *)
(* function's number, so that it answers under each.                       *)
(***************************************************************************)
EXTENDS Integers, SequencesExt

CONSTANTS Machines,      \* what may be plugged in: sequences of slots
          FunctionCount, \* of a device with several, 8
          BarCount,      \* base address registers of a function, 6
          Ports          \* that a register may hold

KeyboardLine == 1
MouseLine == 12

(* A function: is it the am79c973, its kind of header, its registers, its  *)
(* interrupt line.                                                         *)
Function(f) ==
    /\ f.card \in BOOLEAN /\ f.header \in 0 .. 2 /\ f.line \in 0 .. 15
    /\ f.bars \in [1 .. BarCount -> [io : BOOLEAN, address : Ports \union {0}]]

ASSUME FunctionCountAssumption == FunctionCount \in Nat \ {0}
ASSUME BarCountAssumption == BarCount \in Nat
ASSUME PortsAssumption == Ports \subseteq Nat \ {0}
ASSUME MachinesAssumption ==
    \A machine \in Machines : \A s \in 1 .. Len(machine) :
        LET functions == machine[s].functions
        IN  /\ machine[s].multi \in BOOLEAN
            /\ DOMAIN functions \subseteq 0 .. FunctionCount - 1
            /\ \A n \in DOMAIN functions : Function(functions[n])
            /\ DOMAIN functions # {} => 0 \in DOMAIN functions

VARIABLES machine,   \* what is plugged in
          slot,      \* the loops' place: bus and device,
          function,  \* and function
          drivers,   \* the driver manager's
          handlers   \* the interrupt manager's, by line: an index of drivers

pciVars == <<machine, slot, function, drivers, handlers>>

Input(line) == [line |-> line, slot |-> 0, function |-> 0, port |-> 0]

(* The two constructors and their AddDriver.                               *)
PciInit ==
    /\ machine \in Machines
    /\ slot = 1 /\ function = 0
    /\ drivers = <<Input(KeyboardLine), Input(MouseLine)>>
    /\ handlers = [line \in {KeyboardLine, MouseLine} |->
                       IF line = KeyboardLine THEN 1 ELSE 2]

-----------------------------------------------------------------------------
Selected == slot > Len(machine)

Empty(s) == DOMAIN machine[s].functions = {}
Multi(s) == machine[s].multi \/ Empty(s)

(* A function that answers, as GetDeviceDescriptor finds it; 0xFFFF and 0  *)
(* for the vendor mean none.                                               *)
Answers(s, n) == ~Empty(s) /\ (~Multi(s) \/ n \in DOMAIN machine[s].functions)
Descriptor(s, n) == machine[s].functions[IF Multi(s) THEN n ELSE 0]

(* Mutant of NumFunctions: every device is asked for eight.                *)
NumFunctionsAll(s) == FunctionCount

(* DeviceHasFunctions; an empty slot answers with ones.                    *)
NumFunctions(s) == IF Multi(s) THEN FunctionCount ELSE 1

(* maxBARs.                                                                *)
MaxBars(f) == BarCount - 4 * f.header

(* The registers that GetBaseAddressRegister gives an I/O address for.     *)
IoBars(f) == {k \in 1 .. BarCount : f.bars[k].io /\ f.bars[k].address # 0}

(* What the loop over the registers leaves in portBase: the last of them.  *)
(* Without one, or if the header has fewer registers than the loop asks    *)
(* for, it is not initialised.                                             *)
PortBase(f) ==
    IF MaxBars(f) < BarCount \/ IoBars(f) = {} THEN Ports
    ELSE {f.bars[k].address : k \in {n \in IoBars(f) : \A m \in IoBars(f) : n >= m}}

NextFunction ==
    IF function + 1 < NumFunctions(slot)
    THEN function' = function + 1 /\ UNCHANGED slot
    ELSE function' = 0 /\ slot' = slot + 1

(* The constructor takes the line over, whoever had it.                    *)
Constructed(driver) ==
    /\ drivers' = Append(drivers, driver)
    /\ handlers' = [line \in DOMAIN handlers \union {driver.line} |->
                        IF line = driver.line THEN Len(drivers) + 1
                        ELSE handlers[line]]

(* A function with a driver, for which there is memory.                    *)
AddCard ==
    /\ ~Selected
    /\ Answers(slot, function) /\ Descriptor(slot, function).card
    /\ \E port \in PortBase(Descriptor(slot, function)) :
           Constructed([line |-> Descriptor(slot, function).line,
                        slot |-> slot, function |-> function, port |-> port])
    /\ NextFunction
    /\ UNCHANGED machine

(* Nothing there, nothing that GetDriver knows, or malloc gives 0.         *)
SkipFunction ==
    /\ ~Selected
    /\ NextFunction
    /\ UNCHANGED <<machine, drivers, handlers>>

SelectDrivers == AddCard \/ SkipFunction

-----------------------------------------------------------------------------
(* The functions that are cards with a port.                               *)
Cards ==
    {place \in (1 .. Len(machine)) \X (0 .. FunctionCount - 1) :
        LET functions == machine[place[1]].functions
        IN  /\ place[2] \in DOMAIN functions
            /\ functions[place[2]].card
            /\ functions[place[2]].header = 0
            /\ IoBars(functions[place[2]]) # {}}

(* The function that a driver's number reaches.                            *)
Device(driver) ==
    <<driver.slot, IF Multi(driver.slot) THEN driver.function ELSE 0>>

(* No card has two drivers, whose interrupts and rings would fight over    *)
(* it, although a device of one function answers under all its numbers,    *)
(* and each driver talks to a port of its own card (pci.cpp:69-93).        *)
OneDriverPerCard ==
    \A k, n \in 3 .. Len(drivers) :
        LET card == Device(drivers[k])
        IN  /\ card = Device(drivers[n]) => k = n
            /\ card \in Cards =>
                   \E b \in 1 .. BarCount :
                       machine[card[1]].functions[card[2]].bars[b] =
                           [io |-> TRUE, address |-> drivers[k].port]
=============================================================================
