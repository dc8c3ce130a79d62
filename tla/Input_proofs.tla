---------------------------- MODULE Input_proofs ----------------------------
(***************************************************************************)
(* Proofs about what the user's input passes on its way: the search for    *)
(* cards and the drivers of keyboard and mouse, for any machine and any    *)
(* packets, and the input line of the shell, for any length.               *)
(*                                                                         *)
(* Each part has an inductive invariant of its own. PciInv: drivers were   *)
(* found in the order in which the loops pass the functions. AlignInv: the *)
(* bytes of the mouse that are under way, the one that waits in the        *)
(* controller and the place that the handler is at follow each other.      *)
(* LineInv: what the arrays hold from each place on, in each phase of the  *)
(* end of a line.                                                          *)
(***************************************************************************)
EXTENDS InputDrivers, LineEditor, SequenceLemmas

(* The drivers' fields.                                                    *)
Driver == [line : Nat, slot : Nat, function : Nat, port : Nat]

(* In the order of the loops.                                              *)
Before(s, n, t, m) == s < t \/ (s = t /\ n < m)

(* The loops count slots from 1 and functions from 0; keyboard and mouse   *)
(* come first.                                                             *)
PciTypeOK ==
    /\ machine \in Machines
    /\ slot \in Nat \ {0} /\ function \in Nat
    /\ drivers \in Seq(Driver) /\ Len(drivers) >= 2

(* A driver of a card was made for a function that answers, below those    *)
(* that the device has, and has a port that the loop could find there.     *)
DriverFound(d) ==
    /\ d.slot \in 1 .. Len(machine)
    /\ d.function < NumFunctions(d.slot)
    /\ Answers(d.slot, d.function)
    /\ d.port \in PortBase(Descriptor(d.slot, d.function))

(* The loops pass each number once.                                        *)
DriversInOrder ==
    \A k, n \in 3 .. Len(drivers) :
        k < n => Before(drivers[k].slot, drivers[k].function,
                        drivers[n].slot, drivers[n].function)

(* What is true after each function that the loops look at.                *)
PciInv ==
    /\ PciTypeOK
    /\ ~Selected => function < NumFunctions(slot)
    /\ \A k \in 3 .. Len(drivers) :
          /\ DriverFound(drivers[k])
          /\ Before(drivers[k].slot, drivers[k].function, slot, function)
    /\ DriversInOrder

-----------------------------------------------------------------------------
(* The part that follows in what the mouse sends: its acknowledgement,     *)
(* then packets.                                                           *)
Following(part) == IF part = 3 THEN 1 ELSE part + 1

(* The first byte of a packet holds the buttons.                           *)
FirstByte(value) == \E packet \in Packets : value = packet[1]

(* A byte that the mouse sends.                                            *)
MouseByte(b) ==
    /\ b.source = "mouse" /\ b.part \in 0 .. 3
    /\ b.part = 1 => FirstByte(b.value)

(* The part that Activate or the handler takes the next byte for.          *)
Expected == IF pc = "running" THEN offset + 1 ELSE 0

(* The next byte that a read of the port returns is the mouse's.           *)
MouseWaits == output # <<>> /\ output[1].source = "mouse"

(* The mouse has not been told to report.                                  *)
BeforeStart == pc \in {"select", "keyboardSets", "mouseAsks", "mouseSets", "mouseStarts"}

(* What the mouse has still to send: whole packets but for the first.      *)
QueueAligned ==
    /\ \A k \in 1 .. Len(mouse) :
          /\ MouseByte(mouse[k])
          /\ k < Len(mouse) => mouse[k + 1].part = Following(mouse[k].part)
    /\ mouse # <<>> => mouse[Len(mouse)].part \in {0, 3}

(* The next byte is the one that Activate or the handler expects.          *)
NextAligned ==
    IF MouseWaits
    THEN /\ MouseByte(output[1])
         /\ output[1].part = Expected
         /\ IF mouse = <<>> THEN output[1].part \in {0, 3}
            ELSE mouse[1].part = Following(output[1].part)
    ELSE IF mouse = <<>> THEN Expected = 1 ELSE mouse[1].part = Expected

(* Each byte of a packet is in its place.                                  *)
BufferAligned ==
    /\ \A k \in 0 .. 2 :
          buffer[k].source # "none" => MouseByte(buffer[k]) /\ buffer[k].part = k + 1
    /\ buffer[0].source = "none" => buffer[0].value = 0
    /\ buttons # 0 => FirstByte(buttons)

(* The bytes of both devices.                                              *)
KeyByte == [source : {"keyboard"}, value : Byte, part : {0}]
PacketByte == [source : {"mouse"}, value : Byte, part : 0 .. 3]

(* The types of the queues and of the driver's fields.                     *)
AlignTypeOK ==
    /\ output = <<>> \/ output = <<output[1]>>
    /\ answer = <<>> \/ answer = <<answer[1]>>
    /\ keys \in Seq(KeyByte)
    /\ mouse \in Seq(PacketByte)
    /\ buffer = [k \in 0 .. 2 |-> buffer[k]]
    /\ offset \in 0 .. 2 /\ blind \in BOOLEAN
    /\ pc \in {"select", "keyboardSets", "mouseAsks", "mouseSets", "mouseStarts",
               "mouseReads", "running"}

(* While Activate gets to the mouse, it sends nothing.                     *)
AlignInv ==
    /\ AlignTypeOK
    /\ answer # <<>> => answer[1].source # "mouse"
    /\ BeforeStart => ~reporting /\ mouse = <<>> /\ ~MouseWaits
    /\ ~blind =>
          /\ pc # "running" => offset = 0
          /\ ~BeforeStart => QueueAligned /\ NextAligned
          /\ BufferAligned

-----------------------------------------------------------------------------
(* The loops start at the first function of the first slot.                *)
LEMMA PciInitInv == PciInit => PciInv
  <1> SUFFICES ASSUME PciInit
               PROVE  PciInv
    OBVIOUS
  <1>1. drivers = <<Input(KeyboardLine), Input(MouseLine)>>
    BY DEF PciInit
  <1>2. Input(KeyboardLine) \in Driver /\ Input(MouseLine) \in Driver
    BY DEF Input, KeyboardLine, MouseLine, Driver
  <1>3. drivers \in Seq(Driver) /\ Len(drivers) = 2
    BY <1>1, <1>2
  <1>4. 3 .. Len(drivers) = {}
    BY <1>3
  <1>5. PciTypeOK
    BY <1>3 DEF PciInit, PciTypeOK
  <1>6. 0 < NumFunctions(slot) /\ function = 0
    BY FunctionCountAssumption DEF NumFunctions, PciInit
  <1> QED  BY <1>4, <1>5, <1>6 DEF PciInv, DriversInOrder

(* The loops go on to a later function, and to one the device may have.    *)
LEMMA NextFunctionMoves ==
    ASSUME PciInv, ~Selected, NextFunction, machine' = machine
    PROVE  /\ slot' \in Nat \ {0} /\ function' \in Nat
           /\ (~Selected => function < NumFunctions(slot))'
           /\ Before(slot, function, slot', function')
           /\ \A s, n \in Nat : Before(s, n, slot, function) => Before(s, n, slot', function')
  <1>1. slot \in Nat \ {0} /\ function \in Nat
    BY DEF PciInv, PciTypeOK
  <1>2. CASE function + 1 < NumFunctions(slot)
    <2>1. function' = function + 1 /\ slot' = slot
      BY <1>2 DEF NextFunction
    <2>2. (NumFunctions(slot))' = NumFunctions(slot)
      BY <2>1 DEF NumFunctions, Multi, Empty
    <2> QED  BY <1>1, <1>2, <2>1, <2>2 DEF Before
  <1>3. CASE ~(function + 1 < NumFunctions(slot))
    <2>1. function' = 0 /\ slot' = slot + 1
      BY <1>3 DEF NextFunction
    <2>2. (0 < NumFunctions(slot))'
      BY FunctionCountAssumption DEF NumFunctions
    <2> QED  BY <1>1, <2>1, <2>2 DEF Before
  <1> QED  BY <1>2, <1>3

(* What is kept when only the machine is.                                  *)
LEMMA FoundStays ==
    ASSUME NEW d, machine' = machine, DriverFound(d)
    PROVE  DriverFound(d)'
  BY DEF DriverFound, NumFunctions, Answers, Descriptor, Multi, Empty

(* A function that gets no driver.                                         *)
LEMMA SkipFunctionInv ==
    ASSUME PciInv, SkipFunction
    PROVE  PciInv'
  <1>1. /\ ~Selected /\ NextFunction /\ machine' = machine /\ drivers' = drivers
    BY DEF SkipFunction
  <1>2. PciTypeOK'
    BY <1>1, NextFunctionMoves DEF PciInv, PciTypeOK
  <1>3. ASSUME NEW k \in 3 .. Len(drivers')
        PROVE  /\ DriverFound(drivers[k])'
               /\ Before(drivers[k].slot, drivers[k].function, slot, function)'
    <2>1. drivers[k] \in Driver
      <3>1. drivers \in Seq(Driver) /\ k \in 1 .. Len(drivers)
        BY <1>1, <1>3 DEF PciInv, PciTypeOK
      <3> QED  BY <3>1, ElementOfSeq
    <2>2. DriverFound(drivers[k]) /\ Before(drivers[k].slot, drivers[k].function, slot, function)
      BY <1>1, <1>3 DEF PciInv
    <2>3. Before(drivers[k].slot, drivers[k].function, slot', function')
      BY <1>1, <2>1, <2>2, NextFunctionMoves DEF Driver
    <2>4. DriverFound(drivers[k])'
      BY <1>1, <2>2 DEF DriverFound, NumFunctions, Answers, Descriptor, Multi, Empty
    <2> QED  BY <1>1, <2>3, <2>4 DEF Before
  <1>4. DriversInOrder'
    BY <1>1 DEF PciInv, DriversInOrder, Before
  <1> QED  BY <1>1, <1>2, <1>3, <1>4, NextFunctionMoves DEF PciInv

(* A function that gets one: it comes last.                                *)
LEMMA AddCardInv ==
    ASSUME PciInv, AddCard
    PROVE  PciInv'
  <1> DEFINE f == Descriptor(slot, function)
  <1>1. PICK port \in PortBase(f) :
            Constructed([line |-> f.line, slot |-> slot, function |-> function, port |-> port])
    BY DEF AddCard
  <1> DEFINE d == [line |-> f.line, slot |-> slot, function |-> function, port |-> port]
             N == Len(drivers)
  <1>2. /\ ~Selected /\ NextFunction /\ machine' = machine
        /\ Answers(slot, function)
        /\ drivers' = Append(drivers, d)
    BY <1>1 DEF AddCard, Constructed
  <1>3. /\ drivers \in Seq(Driver) /\ N \in Nat /\ N >= 2
        /\ machine \in Machines /\ slot \in Nat \ {0} /\ function \in Nat
        /\ function < NumFunctions(slot) /\ slot <= Len(machine)
    BY <1>2, LenProperties DEF PciInv, PciTypeOK, Selected
  <1>4. slot \in 1 .. Len(machine)
    BY <1>3
  <1>5. Function(f)
    <2>1. f = machine[slot].functions[IF Multi(slot) THEN function ELSE 0]
      BY DEF Descriptor
    <2>2. DOMAIN machine[slot].functions # {}
      BY <1>2 DEF Answers, Empty
    <2>3. (IF Multi(slot) THEN function ELSE 0) \in DOMAIN machine[slot].functions
      BY <1>2, <1>3, <1>4, <2>2, MachinesAssumption DEF Answers
    <2> QED  BY <1>3, <1>4, <2>1, <2>3, MachinesAssumption
  <1>6. d \in Driver
    <2>1. f.line \in Nat
      BY <1>5 DEF Function
    <2>2. port \in Nat
      <3>1. CASE MaxBars(f) < BarCount \/ IoBars(f) = {}
        BY <1>1, <3>1, PortsAssumption DEF PortBase
      <3>2. CASE ~(MaxBars(f) < BarCount \/ IoBars(f) = {})
        <4>1. PICK k \in IoBars(f) : port = f.bars[k].address
          BY <1>1, <3>2 DEF PortBase
        <4>2. k \in 1 .. BarCount
          BY DEF IoBars
        <4>3. f.bars[k] \in [io : BOOLEAN, address : Ports \union {0}]
          BY <1>5, <4>2 DEF Function
        <4>4. f.bars[k].address \in Ports \union {0}
          BY <4>3
        <4>5. Ports \union {0} \subseteq Nat
          BY PortsAssumption
        <4> QED  BY ONLY <4>1, <4>4, <4>5
      <3> QED  BY <3>1, <3>2
    <2> QED  BY <1>3, <2>1, <2>2 DEF Driver
  <1>7. DriverFound(d)
    BY <1>1, <1>2, <1>3, <1>4 DEF DriverFound
  <1>8. d.slot = slot /\ d.function = function
    OBVIOUS
  <1> HIDE DEF f, d
  <1>9. /\ drivers' \in Seq(Driver) /\ Len(drivers') = N + 1
        /\ \A k \in 1 .. N : drivers'[k] = drivers[k]
        /\ drivers'[N + 1] = d
    BY <1>2, <1>3, <1>6, AppendProperties
  <1>10. PciTypeOK'
    BY <1>2, <1>3, <1>9, NextFunctionMoves DEF PciTypeOK
  <1>11. ASSUME NEW k \in 3 .. N
         PROVE  /\ drivers'[k] = drivers[k] /\ drivers[k] \in Driver
                /\ DriverFound(drivers[k])
                /\ Before(drivers[k].slot, drivers[k].function, slot, function)
    <2>1. k \in 1 .. N /\ k \in 3 .. Len(drivers)
      BY <1>3
    <2> QED  BY <2>1, <1>3, <1>9, ElementOfSeq DEF PciInv
  <1>12. \A k \in 3 .. Len(drivers') : k \in 3 .. N \/ k = N + 1
    BY <1>3, <1>9
  <1>13. ASSUME NEW k \in 3 .. Len(drivers')
         PROVE  /\ DriverFound(drivers[k])'
                /\ Before(drivers[k].slot, drivers[k].function, slot, function)'
    <2>1. CASE k \in 3 .. N
      <3>1. Before(drivers[k].slot, drivers[k].function, slot', function')
        BY <1>2, <1>11, <2>1, NextFunctionMoves DEF Driver
      <3>2. DriverFound(drivers[k])'
        BY <1>2, <1>11, <2>1 DEF DriverFound, NumFunctions, Answers, Descriptor, Multi, Empty
      <3> QED  BY <1>11, <2>1, <3>1, <3>2 DEF Before
    <2>2. CASE k = N + 1
      <3>1. drivers'[k] = d
        BY <2>2, <1>9
      <3>2. Before(slot, function, slot', function')
        BY <1>2, NextFunctionMoves
      <3>3. DriverFound(drivers[k])'
        BY <1>2, <1>7, <3>1 DEF DriverFound, NumFunctions, Answers, Descriptor, Multi, Empty
      <3> QED  BY <1>8, <3>1, <3>2, <3>3 DEF Before
    <2> QED  BY <1>12, <2>1, <2>2
  <1>14. ASSUME NEW k \in 3 .. Len(drivers'), NEW n \in 3 .. Len(drivers'), k < n
         PROVE  Before(drivers'[k].slot, drivers'[k].function,
                       drivers'[n].slot, drivers'[n].function)
    <2>1. k \in 3 .. N
      BY <1>3, <1>9, <1>14
    <2>2. CASE n \in 3 .. N
      <3>1. Before(drivers[k].slot, drivers[k].function, drivers[n].slot, drivers[n].function)
        BY <1>14, <2>1, <2>2 DEF PciInv, DriversInOrder
      <3> QED  BY <1>11, <2>1, <2>2, <3>1
    <2>3. CASE n = N + 1
      <3>1. drivers'[n] = d
        BY <2>3, <1>9
      <3> QED  BY <1>8, <1>11, <2>1, <3>1
    <2> QED  BY <1>12, <2>2, <2>3
  <1>15. DriversInOrder'
    BY <1>14 DEF DriversInOrder, Before
  <1> QED  BY <1>2, <1>10, <1>13, <1>15, NextFunctionMoves DEF PciInv

(* Every step of the search keeps its invariant.                           *)
LEMMA PciStepInv ==
    ASSUME PciInv, SelectDrivers \/ UNCHANGED pciVars
    PROVE  PciInv'
  <1>1. CASE UNCHANGED pciVars
    BY <1>1 DEF pciVars, PciInv, PciTypeOK, Selected, NumFunctions, DriverFound, Answers,
                Descriptor, Multi, Empty, DriversInOrder, Before
  <1> QED  BY <1>1, AddCardInv, SkipFunctionInv DEF SelectDrivers

(* Numbers below those that a device has lead to different devices.        *)
LEMMA OneDriver ==
    ASSUME PciInv
    PROVE  OneDriverPerCard
  <1>1. ASSUME NEW k \in 3 .. Len(drivers), NEW n \in 3 .. Len(drivers),
               Device(drivers[k]) = Device(drivers[n])
        PROVE  ~(k < n)
    <2>1. drivers[k] \in Driver /\ drivers[n] \in Driver
      <3>1. k \in 1 .. Len(drivers) /\ n \in 1 .. Len(drivers) /\ drivers \in Seq(Driver)
        BY DEF PciInv, PciTypeOK
      <3> QED  BY <3>1, ElementOfSeq
    <2>2. DriverFound(drivers[k]) /\ DriverFound(drivers[n])
      BY DEF PciInv
    <2>3. drivers[k].slot = drivers[n].slot
      BY <1>1 DEF Device
    <2>4. CASE Multi(drivers[k].slot)
      <3>1. drivers[k].function = drivers[n].function
        BY <1>1, <2>3, <2>4 DEF Device
      <3> QED  BY <2>1, <2>3, <3>1 DEF PciInv, DriversInOrder, Before, Driver
    <2>5. CASE ~Multi(drivers[k].slot)
      <3>1. drivers[k].function < 1 /\ drivers[n].function < 1
        BY <2>2, <2>3, <2>5 DEF DriverFound, NumFunctions
      <3> QED  BY <2>1, <2>3, <3>1 DEF PciInv, DriversInOrder, Before, Driver
    <2> QED  BY <2>4, <2>5
  <1>2. ASSUME NEW k \in 3 .. Len(drivers), Device(drivers[k]) \in Cards
        PROVE  \E b \in 1 .. BarCount :
                  machine[Device(drivers[k])[1]].functions[Device(drivers[k])[2]].bars[b] =
                       [io |-> TRUE, address |-> drivers[k].port]
    <2> DEFINE d == drivers[k]
               f == Descriptor(d.slot, d.function)
    <2>1. DriverFound(d)
      BY DEF PciInv
    <2>2. Device(d)[1] = d.slot /\ Device(d)[2] = IF Multi(d.slot) THEN d.function ELSE 0
      BY DEF Device
    <2>3. f = machine[Device(d)[1]].functions[Device(d)[2]]
      BY <2>2 DEF Descriptor
    <2>4. f.header = 0 /\ IoBars(f) # {}
      BY <1>2, <2>3 DEF Cards
    <2>5. Function(f)
      <3>1. Device(d)[2] \in DOMAIN machine[Device(d)[1]].functions
        BY <1>2 DEF Cards
      <3>2. machine \in Machines /\ Device(d)[1] \in 1 .. Len(machine)
        BY <2>1, <2>2 DEF PciInv, PciTypeOK, DriverFound
      <3> QED  BY <2>3, <3>1, <3>2, MachinesAssumption
    <2>6. ~(MaxBars(f) < BarCount)
      BY <2>4, BarCountAssumption DEF MaxBars
    <2>7. PICK b \in IoBars(f) : d.port = f.bars[b].address
      <3>1. d.port \in PortBase(f)
        BY <2>1 DEF DriverFound
      <3> QED  BY <2>4, <2>6, <3>1 DEF PortBase
    <2>8. b \in 1 .. BarCount /\ f.bars[b].io
      BY <2>7 DEF IoBars
    <2>9. f.bars[b] \in [io : BOOLEAN, address : Ports \union {0}]
      BY <2>5, <2>8 DEF Function
    <2> HIDE DEF d, f
    <2>10. f.bars[b] = [io |-> TRUE, address |-> d.port]
      BY <2>7, <2>8, <2>9
    <2>11. machine[Device(d)[1]].functions[Device(d)[2]].bars[b] = [io |-> TRUE, address |-> d.port]
      BY <2>3, <2>10
    <2> QED  BY <2>8, <2>11 DEF d
  <1>3. ASSUME NEW k \in 3 .. Len(drivers), NEW n \in 3 .. Len(drivers)
        PROVE  LET card == Device(drivers[k])
               IN  /\ card = Device(drivers[n]) => k = n
                   /\ card \in Cards =>
                         \E b \in 1 .. BarCount :
                            machine[card[1]].functions[card[2]].bars[b] =
                               [io |-> TRUE, address |-> drivers[k].port]
    <2>1. Device(drivers[k]) = Device(drivers[n]) => k = n
      BY <1>1
    <2> QED  BY <2>1, <1>2
  <1> QED  BY <1>3 DEF OneDriverPerCard

-----------------------------------------------------------------------------
(* Nothing is under way at first.                                          *)
LEMMA AlignInitInv == InputInit => AlignInv
  <1> SUFFICES ASSUME InputInit
               PROVE  AlignInv
    OBVIOUS
  <1>1. \A k \in 0 .. 2 : buffer[k].source = "none" /\ buffer[k].value = 0
    BY DEF InputInit, From
  <1>2. AlignTypeOK
    BY DEF InputInit, AlignTypeOK
  <1>3. BufferAligned
    BY <1>1 DEF InputInit, BufferAligned
  <1> QED  BY <1>2, <1>3 DEF InputInit, AlignInv, BeforeStart, MouseWaits

(* A read leaves nothing at the data port.                                 *)
LEMMA ReadTakes ==
    ASSUME AlignTypeOK, Read
    PROVE  /\ output' = <<>>
           /\ output # <<>> => Reading = output[1]
  BY DEF AlignTypeOK, Read, Reading

(* What a step that takes no byte of the mouse leaves as it was.           *)
LEMMA AlignStays ==
    ASSUME AlignInv, AlignTypeOK', blind => blind',
           mouse' = mouse, pc' = pc, reporting' = reporting,
           buffer' = buffer, offset' = offset, buttons' = buttons,
           answer' # <<>> => answer'[1].source # "mouse",
           ~blind' => MouseWaits' = MouseWaits /\ (MouseWaits => output' = output),
           BeforeStart => ~MouseWaits'
    PROVE  AlignInv'
  <1>1. BeforeStart' = BeforeStart /\ Expected' = Expected
    BY DEF BeforeStart, Expected
  <1>2. QueueAligned => QueueAligned'
    BY DEF QueueAligned, MouseByte, FirstByte, Following
  <1>3. BufferAligned => BufferAligned'
    BY DEF BufferAligned, MouseByte, FirstByte
  <1>4. ~blind' /\ NextAligned => NextAligned'
    BY <1>1 DEF NextAligned, MouseByte, FirstByte, Following
  <1> QED  BY <1>1, <1>2, <1>3, <1>4 DEF AlignInv

(* A key makes a byte or two.                                              *)
LEMMA KeysType ==
    ASSUME AlignTypeOK, NEW code \in Byte
    PROVE  Append(keys, From("keyboard", code, 0)) \in Seq(KeyByte)
  <1>1. From("keyboard", code, 0) \in KeyByte
    BY DEF From, KeyByte
  <1> QED  BY <1>1, AppendProperties DEF AlignTypeOK

(* A key is pressed.                                                       *)
LEMMA PressKeyAligned ==
    ASSUME AlignInv, NEW code \in Codes, PressKey(code)
    PROVE  AlignInv'
  <1>1. keys' \in Seq(KeyByte)
    BY BytesAssumption, KeysType DEF PressKey, AlignInv
  <1>2. AlignTypeOK'
    BY <1>1 DEF PressKey, AlignInv, AlignTypeOK, controllerVars, driverVars
  <1> QED  BY <1>2, AlignStays
           DEF PressKey, AlignInv, controllerVars, driverVars, MouseWaits

(* The card's handler, and the loops over the devices.                     *)
LEMMA OthersAligned ==
    ASSUME AlignInv,
           SelectAll \/ (\E line \in {KeyboardLine, MouseLine} : CardInterrupts(line))
              \/ UNCHANGED inputVars
    PROVE  AlignInv'
  <1>1. UNCHANGED <<controllerVars, keys, mouse, reporting, pc, driverVars, blind>>
    BY DEF SelectAll, CardInterrupts, inputVars
  <1>2. AlignTypeOK'
    BY <1>1 DEF AlignInv, AlignTypeOK, controllerVars, driverVars
  <1> QED  BY <1>1, <1>2, AlignStays DEF AlignInv, controllerVars, driverVars, MouseWaits

(* Before Activate no byte is the mouse's.                                 *)
LEMMA DrainAligned ==
    ASSUME AlignInv, Drain
    PROVE  AlignInv'
  <1>1. output' = <<>> /\ ~MouseWaits /\ ~MouseWaits'
    BY ReadTakes DEF Drain, AlignInv, BeforeStart, MouseWaits
  <1>2. AlignTypeOK'
    BY <1>1 DEF Drain, AlignInv, AlignTypeOK, driverVars
  <1>3. MouseWaits' = MouseWaits
    BY <1>1 DEF MouseWaits
  <1>4. UNCHANGED <<answer, mouse, reporting, pc, buffer, offset, buttons, blind>>
    BY DEF Drain, driverVars
  <1> QED  BY <1>1, <1>2, <1>3, <1>4, AlignStays DEF AlignInv

(* 0x20 asks for the command byte.                                         *)
LEMMA AsksAligned ==
    ASSUME AlignInv, KeyboardAsks \/ MouseAsks
    PROVE  AlignInv'
  <1>1. /\ BeforeStart /\ BeforeStart'
        /\ pc' \in {"keyboardSets", "mouseSets"}
        /\ UNCHANGED <<output, keys, mouse, reporting, blind, buffer>>
    BY DEF KeyboardAsks, MouseAsks, Ask, Goes, BeforeStart, driverVars
  <1>2. answer' = <<From("controller", command', 0)>>
    BY DEF KeyboardAsks, MouseAsks, Ask
  <1>3. answer' = <<answer'[1]>> /\ answer'[1].source # "mouse"
    BY <1>2 DEF From
  <1>4. (offset' = offset /\ buttons' = buttons) \/ (offset' = 0 /\ buttons' = 0)
    BY DEF KeyboardAsks, MouseAsks, driverVars
  <1>5. AlignTypeOK'
    BY <1>1, <1>3, <1>4 DEF AlignInv, AlignTypeOK
  <1>6. BufferAligned => BufferAligned'
    BY <1>1, <1>4 DEF BufferAligned, MouseByte, FirstByte
  <1>7. MouseWaits' = MouseWaits
    BY <1>1 DEF MouseWaits
  <1>8. offset = 0 => offset' = 0
    BY <1>4
  <1>9. pc # "running"
    BY <1>1 DEF BeforeStart
  <1> QED  BY <1>1, <1>3, <1>5, <1>6, <1>7, <1>8, <1>9 DEF AlignInv

(* The answer is read and written back.                                    *)
LEMMA SetsAligned ==
    ASSUME AlignInv, KeyboardSets \/ MouseSets
    PROVE  AlignInv'
  <1>1. /\ BeforeStart /\ BeforeStart' /\ pc # "running"
        /\ pc' \in {"mouseAsks", "mouseStarts"}
        /\ UNCHANGED <<answer, mouse, reporting, buffer, offset, buttons>>
    BY DEF KeyboardSets, MouseSets, Set, Goes, BeforeStart, driverVars
  <1>2. output' = <<>> /\ blind' \in BOOLEAN /\ (blind => blind')
    BY DEF KeyboardSets, MouseSets, Set, ReadAs, Read
  <1>3. keys' \in Seq(KeyByte)
    <2>1. ACK \in Byte
      BY DEF ACK, Byte
    <2> QED  BY <2>1, KeysType DEF KeyboardSets, MouseSets, AlignInv, AlignTypeOK
  <1>4. AlignTypeOK'
    BY <1>1, <1>2, <1>3 DEF AlignInv, AlignTypeOK
  <1>5. BufferAligned => BufferAligned'
    BY <1>1 DEF BufferAligned, MouseByte, FirstByte
  <1> QED  BY <1>1, <1>2, <1>4, <1>5 DEF AlignInv, MouseWaits

(* The mouse is told to send: its acknowledgement is the first byte.       *)
LEMMA MouseStartsAligned ==
    ASSUME AlignInv, MouseStarts
    PROVE  AlignInv'
  <1> DEFINE b == From("mouse", ACK, 0)
  <1>1. /\ BeforeStart /\ mouse = <<>> /\ ~MouseWaits /\ pc' = "mouseReads"
        /\ UNCHANGED <<output, answer, keys, blind, buffer, offset, buttons>>
        /\ mouse' = Append(mouse, b)
    BY DEF MouseStarts, Goes, BeforeStart, AlignInv, controllerVars, driverVars
  <1>2. b \in PacketByte /\ b.part = 0 /\ MouseByte(b)
    BY DEF From, PacketByte, MouseByte, Byte, ACK
  <1> HIDE DEF b
  <1>3. mouse' = <<b>>
    BY <1>1
  <1>4. mouse' \in Seq(PacketByte) /\ Len(mouse') = 1 /\ mouse'[1] = b /\ mouse' # <<>>
    BY <1>2, <1>3
  <1>5. AlignTypeOK'
    BY <1>1, <1>4 DEF AlignInv, AlignTypeOK
  <1>6. QueueAligned'
    <2>1. \A k \in 1 .. Len(mouse') : k = 1
      BY <1>4
    <2> QED  BY <1>2, <1>4, <2>1 DEF QueueAligned, MouseByte, FirstByte
  <1>7. NextAligned'
    BY <1>1, <1>2, <1>4 DEF NextAligned, MouseWaits, Expected
  <1>8. BufferAligned => BufferAligned'
    BY <1>1 DEF BufferAligned, MouseByte, FirstByte
  <1>9. pc # "running" /\ ~BeforeStart'
    BY <1>1 DEF BeforeStart
  <1> QED  BY <1>1, <1>5, <1>6, <1>7, <1>8, <1>9 DEF AlignInv

(* A byte of the mouse that is taken for what it is: the next one is the   *)
(* one expected then.                                                      *)
LEMMA MouseTaken ==
    ASSUME AlignTypeOK, QueueAligned, NextAligned, MouseWaits,
           output' = <<>>, mouse' = mouse, Expected' = Following(Expected)
    PROVE  QueueAligned' /\ NextAligned'
  <1>1. QueueAligned'
    BY DEF QueueAligned, MouseByte, FirstByte, Following
  <1>2. ~MouseWaits'
    BY DEF MouseWaits
  <1>3. CASE mouse = <<>>
    <2>1. Expected \in {0, 3}
      BY <1>3 DEF NextAligned
    <2>2. Expected' = 1
      BY <2>1 DEF Following
    <2> QED  BY <1>1, <1>2, <1>3, <2>2 DEF NextAligned
  <1>4. CASE mouse # <<>>
    <2>1. mouse[1].part = Following(Expected)
      BY <1>4 DEF NextAligned
    <2>2. mouse'[1].part = Expected'
      BY <2>1
    <2> QED  BY <1>1, <1>2, <1>4, <2>2 DEF NextAligned
  <1> QED  BY <1>1, <1>3, <1>4

(* Activate reads the acknowledgement, or something else: it is blind then. *)
LEMMA MouseReadsAligned ==
    ASSUME AlignInv, MouseReads
    PROVE  AlignInv'
  <1>1. /\ pc = "mouseReads" /\ pc' = "running" /\ output' = <<>>
        /\ UNCHANGED <<answer, keys, mouse, reporting, buffer, offset, buttons>>
        /\ blind' = (blind \/ output = <<>> \/ Reading.source # "mouse")
    BY DEF MouseReads, Goes, ReadAs, Read, driverVars
  <1>2. AlignTypeOK'
    BY <1>1 DEF AlignInv, AlignTypeOK
  <1>3. ASSUME ~blind'
        PROVE  QueueAligned' /\ NextAligned'
    <2>1. ~blind /\ output # <<>> /\ Reading.source = "mouse"
      BY <1>1, <1>3
    <2>2. Reading = output[1]
      BY <2>1, ReadTakes DEF AlignInv, MouseReads, ReadAs
    <2>3. MouseWaits
      BY <2>1, <2>2 DEF MouseWaits
    <2>4. offset = 0 /\ QueueAligned /\ NextAligned
      BY <1>1, <2>1 DEF AlignInv, BeforeStart
    <2>5. Expected' = Following(Expected)
      BY <1>1, <2>4 DEF Expected, Following
    <2> QED  BY <1>1, <2>3, <2>4, <2>5, MouseTaken DEF AlignInv
  <1>4. BufferAligned => BufferAligned'
    BY <1>1 DEF BufferAligned, MouseByte, FirstByte
  <1>5. ~blind' => ~blind
    BY <1>1
  <1>6. ~BeforeStart'
    BY <1>1 DEF BeforeStart
  <1> QED  BY <1>1, <1>2, <1>3, <1>4, <1>5, <1>6 DEF AlignInv

(* A byte that does not come from the mouse gets to the data port, or is   *)
(* read there.                                                             *)
LEMMA OfferAligned ==
    ASSUME AlignInv, Offer
    PROVE  AlignInv'
  <1>0. /\ output = <<>> /\ AlignTypeOK /\ ~MouseWaits
        /\ UNCHANGED <<reporting, pc, buffer, offset, buttons, blind>>
    BY DEF Offer, driverVars, AlignInv, MouseWaits
  <1>1. CASE answer # <<>> /\ output' = answer /\ answer' = <<>> /\ UNCHANGED <<keys, mouse>>
    <2>1. AlignTypeOK'
      BY <1>0, <1>1 DEF AlignTypeOK
    <2>2. ~MouseWaits'
      BY <1>0, <1>1 DEF MouseWaits, AlignInv
    <2>3. MouseWaits' = MouseWaits
      BY <1>0, <2>2 DEF MouseWaits
    <2> QED  BY <1>0, <1>1, <2>1, <2>2, <2>3, AlignStays
  <1>2. CASE keys # <<>> /\ output' = <<Head(keys)>> /\ keys' = Tail(keys) /\ UNCHANGED <<answer, mouse>>
    <2>1. keys \in Seq(KeyByte)
      BY <1>0 DEF AlignTypeOK
    <2>2. Head(keys) \in KeyByte /\ Tail(keys) \in Seq(KeyByte)
      BY <1>2, <2>1, HeadTailProperties
    <2>3. output' = <<output'[1]>> /\ output'[1] \in KeyByte
      BY <1>2, <2>2
    <2>4. AlignTypeOK'
      BY <1>0, <1>2, <2>2, <2>3 DEF AlignTypeOK
    <2>5. ~MouseWaits'
      BY <2>3 DEF MouseWaits, KeyByte
    <2>6. MouseWaits' = MouseWaits
      BY <1>0, <2>5 DEF MouseWaits
    <2> QED  BY <1>0, <1>2, <2>4, <2>5, <2>6, AlignStays DEF AlignInv
  <1>3. CASE mouse # <<>> /\ output' = <<Head(mouse)>> /\ mouse' = Tail(mouse) /\ UNCHANGED <<answer, keys>>
    <2> DEFINE n == Len(mouse)
    <2>1. mouse \in Seq(PacketByte)
      BY <1>0 DEF AlignTypeOK
    <2>2. n \in Nat /\ n >= 1
      BY <1>3, <2>1, LenProperties, EmptySeq
    <2>3. /\ mouse' \in Seq(PacketByte) /\ Len(mouse') = n - 1
          /\ \A k \in 1 .. n - 1 : mouse'[k] = mouse[k + 1]
          /\ Head(mouse) \in PacketByte
      BY <1>3, <2>1, <2>2, HeadTailProperties
    <2>4. output' = <<output'[1]>> /\ output'[1] = mouse[1] /\ mouse[1] \in PacketByte
      BY <1>3, <2>3
    <2>5. AlignTypeOK'
      BY <1>0, <1>3, <2>3, <2>4 DEF AlignTypeOK
    <2>6. MouseWaits' /\ output' # <<>>
      BY <2>4 DEF MouseWaits, PacketByte
    <2>7. ~BeforeStart /\ ~BeforeStart'
      BY <1>0, <1>3 DEF BeforeStart, AlignInv
    <2>8. mouse' = <<>> <=> n = 1
      BY <2>2, <2>3, EmptySeq
    <2>9. ASSUME QueueAligned
          PROVE  QueueAligned'
      <3>1. ASSUME NEW k \in 1 .. n - 1
            PROVE  /\ MouseByte(mouse'[k])
                   /\ k < n - 1 => mouse'[k + 1].part = Following(mouse'[k].part)
        <4>1. k + 1 \in 1 .. n
          BY <2>2
        <4>2. MouseByte(mouse[k + 1])
          BY <2>9, <4>1 DEF QueueAligned
        <4>3. mouse'[k] = mouse[k + 1]
          BY <2>3
        <4>4. ASSUME k < n - 1
              PROVE  mouse'[k + 1].part = Following(mouse'[k].part)
          <5>1. k + 1 \in 1 .. n - 1 /\ k + 1 < n /\ (k + 1) + 1 = k + 2
            BY <2>2, <4>4
          <5>2. mouse'[k + 1] = mouse[k + 2]
            BY <2>3, <5>1
          <5>3. mouse[k + 2].part = Following(mouse[k + 1].part)
            BY <2>9, <4>1, <5>1 DEF QueueAligned
          <5> QED  BY <4>3, <5>2, <5>3
        <4> QED  BY <4>2, <4>3, <4>4 DEF MouseByte, FirstByte
      <3>2. ASSUME mouse' # <<>>
            PROVE  mouse'[Len(mouse')].part \in {0, 3}
        <4>0. n # 1
          BY <2>8, <3>2
        <4>4. \A m \in Nat : m >= 1 /\ m # 1 => m - 1 \in 1 .. m - 1 /\ (m - 1) + 1 = m
          OBVIOUS
        <4>1. n - 1 \in 1 .. n - 1 /\ (n - 1) + 1 = n
          BY <2>2, <4>0, <4>4
        <4>2. mouse'[n - 1] = mouse[n]
          BY <2>3, <4>1
        <4>3. mouse[n].part \in {0, 3}
          BY <1>3, <2>9 DEF QueueAligned
        <4> QED  BY <2>3, <4>2, <4>3
      <3>3. /\ \A k \in 1 .. Len(mouse') :
                  /\ MouseByte(mouse'[k])
                  /\ k < Len(mouse') => mouse'[k + 1].part = Following(mouse'[k].part)
        BY <2>3, <3>1
      <3> QED  BY <3>2, <3>3 DEF QueueAligned, MouseByte, FirstByte, Following
    <2>10. ASSUME QueueAligned, NextAligned
           PROVE  NextAligned'
      <3>1. Expected' = Expected
        BY <1>0 DEF Expected
      <3>2. mouse[1].part = Expected
        BY <1>0, <1>3, <2>10 DEF NextAligned
      <3>3. MouseByte(mouse[1]) /\ (1 < n => mouse[2].part = Following(mouse[1].part))
        <4>1. 1 \in 1 .. n /\ 1 + 1 = 2
          BY <2>2
        <4> QED  BY <2>10, <4>1 DEF QueueAligned
      <3>4. mouse' = <<>> => mouse[1].part \in {0, 3}
        BY <1>3, <2>8, <2>10 DEF QueueAligned
      <3>5. mouse' # <<>> => mouse'[1] = mouse[2] /\ 1 < n
        <4>0. \A m \in Nat : m >= 1 /\ m # 1 => 1 < m /\ 1 \in 1 .. m - 1
          OBVIOUS
        <4>1. n # 1 => 1 < n /\ 1 \in 1 .. n - 1
          BY <2>2, <4>0
        <4>2. 1 + 1 = 2
          OBVIOUS
        <4> QED  BY <2>3, <2>8, <4>1, <4>2
      <3>6. MouseByte(output'[1])
        BY <2>4, <3>3 DEF MouseByte, FirstByte
      <3> QED  BY <2>4, <2>6, <3>1, <3>2, <3>3, <3>4, <3>5, <3>6 DEF NextAligned, Following
    <2>11. BufferAligned => BufferAligned'
      BY <1>0 DEF BufferAligned, MouseByte, FirstByte
    <2> QED  BY <1>0, <1>3, <2>5, <2>7, <2>9, <2>10, <2>11 DEF AlignInv
  <1> QED  BY <1>1, <1>2, <1>3 DEF Offer

(* Three bytes of a packet follow what is under way.                       *)
LEMMA MovePacketAligned ==
    ASSUME AlignInv, NEW packet \in Packets, MovePacket(packet)
    PROVE  AlignInv'
  <1> DEFINE new == [k \in 1 .. 3 |-> From("mouse", packet[k], k)]
             n == Len(mouse)
  <1>0. /\ reporting /\ AlignTypeOK /\ ~BeforeStart /\ ~BeforeStart'
        /\ UNCHANGED <<output, answer, keys, reporting, pc, buffer, offset, buttons, blind>>
        /\ mouse' = mouse \o new
    BY DEF MovePacket, controllerVars, driverVars, AlignInv, BeforeStart
  <1>1. \A k \in 1 .. 3 : new[k] \in PacketByte /\ new[k].part = k /\ MouseByte(new[k])
    <2>1. ASSUME NEW k \in 1 .. 3
          PROVE  new[k] \in PacketByte /\ new[k].part = k /\ MouseByte(new[k])
      <3>1. packet[k] \in Byte
        BY PacketsAssumption
      <3>2. new[k] = [source |-> "mouse", value |-> packet[k], part |-> k]
        BY DEF From
      <3>3. k = 1 => FirstByte(packet[k])
        BY DEF FirstByte
      <3>4. k \in 0 .. 3
        OBVIOUS
      <3> QED  BY <3>1, <3>2, <3>3, <3>4 DEF PacketByte, MouseByte
    <2> QED  BY <2>1
  <1>2. new \in Seq(PacketByte) /\ Len(new) = 3
    <2>1. new \in [1 .. 3 -> PacketByte]
      BY <1>1
    <2>2. new \in UNION {[1 .. m -> PacketByte] : m \in Nat}
      BY <2>1
    <2>3. new \in Seq(PacketByte)
      BY <2>2, SeqDef
    <2>4. DOMAIN new = 1 .. 3
      OBVIOUS
    <2> QED  BY <2>3, <2>4, LenProperties
  <1>3. mouse \in Seq(PacketByte) /\ n \in Nat
    BY <1>0, LenProperties DEF AlignTypeOK
  <1> HIDE DEF new
  <1>4. /\ mouse' \in Seq(PacketByte) /\ Len(mouse') = n + Len(new)
        /\ \A k \in 1 .. n + Len(new) :
              mouse'[k] = IF k <= n THEN mouse[k] ELSE new[k - n]
    BY <1>0, <1>2, <1>3, ConcatProperties
  <1>5. /\ Len(mouse') = n + 3
        /\ \A k \in 1 .. n : mouse'[k] = mouse[k]
        /\ mouse'[n + 1] = new[1] /\ mouse'[n + 2] = new[2] /\ mouse'[n + 3] = new[3]
        /\ \A k \in 1 .. n + 3 : k \in 1 .. n \/ k = n + 1 \/ k = n + 2 \/ k = n + 3
    <2>1. \A a \in Nat : /\ \A k \in 1 .. a : k <= a /\ k \in 1 .. a + 3
                         /\ a + 1 \in 1 .. a + 3 /\ ~(a + 1 <= a) /\ a + 1 - a = 1
                         /\ a + 2 \in 1 .. a + 3 /\ ~(a + 2 <= a) /\ a + 2 - a = 2
                         /\ a + 3 \in 1 .. a + 3 /\ ~(a + 3 <= a) /\ a + 3 - a = 3
                         /\ \A k \in 1 .. a + 3 : k \in 1 .. a \/ k = a + 1 \/ k = a + 2 \/ k = a + 3
      OBVIOUS
    <2>2. \A k \in 1 .. n + 3 : mouse'[k] = IF k <= n THEN mouse[k] ELSE new[k - n]
      BY <1>2, <1>4
    <2>3. Len(mouse') = n + 3
      BY <1>2, <1>4
    <2> QED  BY <1>3, <2>1, <2>2, <2>3
  <1>6. AlignTypeOK'
    BY <1>0, <1>4 DEF AlignTypeOK
  <1>7. mouse' # <<>> /\ (mouse # <<>> => n >= 1)
    <2>1. Len(<<>>) = 0
      OBVIOUS
    <2>2. n + 3 # 0
      BY <1>3
    <2>3. mouse # <<>> => n \in Nat \ {0}
      BY <1>3, EmptySeq
    <2> QED  BY <1>3, <1>5, <2>1, <2>2, <2>3
  <1>8. new[1] \in PacketByte /\ new[1].part = 1 /\ new[2].part = 2 /\ new[3].part = 3
    <2>1. 1 \in 1 .. 3 /\ 2 \in 1 .. 3 /\ 3 \in 1 .. 3
      OBVIOUS
    <2> QED  BY <1>1, <2>1
  <1>9. ASSUME QueueAligned
        PROVE  QueueAligned'
    <2>1. ASSUME NEW k \in 1 .. n + 3
          PROVE  MouseByte(mouse'[k])
      <3>1. 1 \in 1 .. 3 /\ 2 \in 1 .. 3 /\ 3 \in 1 .. 3
        OBVIOUS
      <3>2. k \in 1 .. n => MouseByte(mouse[k])
        BY <1>9 DEF QueueAligned
      <3> QED  BY <1>1, <1>5, <3>1, <3>2
    <2>2. ASSUME NEW k \in 1 .. n + 3, k < n + 3
          PROVE  mouse'[k + 1].part = Following(mouse'[k].part)
      <3>1. CASE k \in 1 .. n /\ k < n
        <4>1. k + 1 \in 1 .. n
          BY <1>3, <3>1
        <4>2. mouse[k + 1].part = Following(mouse[k].part)
          BY <1>9, <3>1 DEF QueueAligned
        <4> QED  BY <1>5, <3>1, <4>1, <4>2
      <3>2. CASE k \in 1 .. n /\ ~(k < n)
        <4>1. k = n /\ n \in 1 .. n
          BY <1>3, <3>2
        <4>2. mouse # <<>>
          <5>1. Len(<<>>) = 0
            OBVIOUS
          <5> QED  BY <4>1, <5>1
        <4>3. mouse[n].part \in {0, 3}
          BY <1>9, <4>2 DEF QueueAligned
        <4> QED  BY <1>5, <1>8, <4>1, <4>3 DEF Following
      <3>3. CASE k = n + 1
        <4>1. k + 1 = n + 2
          BY <1>3, <3>3
        <4> QED  BY <1>5, <1>8, <3>3, <4>1 DEF Following
      <3>4. CASE k = n + 2
        <4>1. k + 1 = n + 3
          BY <1>3, <3>4
        <4> QED  BY <1>5, <1>8, <3>4, <4>1 DEF Following
      <3>5. k # n + 3
        BY <1>3, <2>2
      <3> QED  BY <1>5, <3>1, <3>2, <3>3, <3>4, <3>5
    <2>3. mouse'[Len(mouse')].part \in {0, 3}
      BY <1>5, <1>8
    <2>4. \A k \in 1 .. Len(mouse') :
             /\ MouseByte(mouse'[k])
             /\ k < Len(mouse') => mouse'[k + 1].part = Following(mouse'[k].part)
      BY <1>5, <2>1, <2>2
    <2> QED  BY <2>3, <2>4 DEF QueueAligned, MouseByte, FirstByte, Following
  <1>10. ASSUME NextAligned, QueueAligned
         PROVE  NextAligned'
    <2>1. MouseWaits' = MouseWaits /\ Expected' = Expected /\ output' = output
      BY <1>0 DEF MouseWaits, Expected
    <2>2. CASE mouse = <<>>
      <3>1. n = 0
        BY <2>2
      <3>2. mouse'[1] = new[1]
        BY <1>5, <3>1
      <3> QED  BY <1>7, <1>8, <1>10, <2>1, <2>2, <3>2 DEF NextAligned, Following, MouseByte, FirstByte
    <2>3. CASE mouse # <<>>
      <3>1. 1 \in 1 .. n
        BY <1>3, <1>7, <2>3
      <3>2. mouse'[1] = mouse[1]
        BY <1>5, <3>1
      <3> QED  BY <1>7, <1>10, <2>1, <2>3, <3>2 DEF NextAligned, Following, MouseByte, FirstByte
    <2> QED  BY <2>2, <2>3
  <1>11. BufferAligned => BufferAligned'
    BY <1>0 DEF BufferAligned, MouseByte, FirstByte
  <1> QED  BY <1>0, <1>6, <1>9, <1>10, <1>11 DEF AlignInv

(* The keyboard's handler takes no byte of the mouse, or it is blind.      *)
LEMMA KeyboardInterruptsAligned ==
    ASSUME AlignInv, KeyboardInterrupts
    PROVE  AlignInv'
  <1>1. /\ pc = "running" /\ output' = <<>>
        /\ UNCHANGED <<answer, keys, mouse, reporting, pc, buffer, offset, buttons>>
        /\ blind' = (blind \/ output = <<>> \/ Reading.source # "keyboard")
    BY DEF KeyboardInterrupts, Interrupt, ReadAs, Read
  <1>2. AlignTypeOK'
    BY <1>1 DEF AlignInv, AlignTypeOK
  <1>3. ASSUME ~blind'
        PROVE  ~MouseWaits /\ ~MouseWaits'
    <2>1. output # <<>> /\ Reading.source = "keyboard"
      BY <1>1, <1>3
    <2>2. Reading = output[1]
      BY <2>1, ReadTakes DEF AlignInv, KeyboardInterrupts, ReadAs
    <2> QED  BY <1>1, <2>1, <2>2 DEF MouseWaits
  <1>4. ~blind' => MouseWaits' = MouseWaits /\ (MouseWaits => output' = output)
    BY <1>3 DEF MouseWaits
  <1>5. ~BeforeStart
    BY <1>1 DEF BeforeStart
  <1> QED  BY <1>1, <1>2, <1>4, <1>5, AlignStays DEF AlignInv

(* The mouse's handler files the byte where it belongs.                    *)
LEMMA MouseInterruptsAligned ==
    ASSUME AlignInv, MouseInterrupts
    PROVE  AlignInv'
  <1>0. /\ pc = "running" /\ AlignTypeOK /\ ~BeforeStart /\ ~BeforeStart'
        /\ UNCHANGED <<answer, keys, mouse, reporting, pc, blind>>
    BY DEF MouseInterrupts, Interrupt, AlignInv, BeforeStart
  <1>1. CASE ~IsMine
    <2>1. UNCHANGED <<output, buffer, offset, buttons>>
      BY <1>1 DEF MouseInterrupts
    <2>2. AlignTypeOK' /\ MouseWaits' = MouseWaits
      BY <1>0, <2>1 DEF AlignTypeOK, MouseWaits
    <2> QED  BY <1>0, <2>1, <2>2, AlignStays DEF AlignInv
  <1>2. CASE IsMine
    <2>1. /\ Read /\ buffer' = [buffer EXCEPT ![offset] = Reading]
          /\ offset' = NextOffset
          /\ buttons' = IF offset' = 0 THEN buffer'[0].value ELSE buttons
      BY <1>2 DEF MouseInterrupts
    <2>2. output' = <<>> /\ Reading = output[1] /\ MouseWaits
      BY <1>0, <1>2, <2>1, ReadTakes DEF IsMine, MouseWaits
    <2>3. offset \in {0, 1, 2}
      BY <1>0 DEF AlignTypeOK
    <2>4. offset' = IF offset = 2 THEN 0 ELSE offset + 1
      BY <2>1, <2>3 DEF NextOffset
    <2>5. Expected' = Following(Expected)
      BY <1>0, <2>3, <2>4 DEF Expected, Following
    <2>6. /\ buffer' = [k \in 0 .. 2 |-> buffer'[k]]
          /\ \A k \in 0 .. 2 : buffer'[k] = IF k = offset THEN output[1] ELSE buffer[k]
      BY <1>0, <2>1, <2>2 DEF AlignTypeOK
    <2>7. AlignTypeOK'
      BY <1>0, <2>2, <2>3, <2>4, <2>6 DEF AlignTypeOK
    <2>8. ASSUME ~blind
          PROVE  QueueAligned' /\ NextAligned' /\ BufferAligned'
      <3>1. QueueAligned /\ NextAligned /\ BufferAligned
        BY <1>0, <2>8 DEF AlignInv
      <3>2. QueueAligned' /\ NextAligned'
        BY <1>0, <2>2, <2>5, <3>1, MouseTaken
      <3>3. MouseByte(output[1]) /\ output[1].part = offset + 1
        BY <1>0, <2>2, <3>1 DEF NextAligned, Expected
      <3>4. ASSUME NEW k \in 0 .. 2, buffer'[k].source # "none"
            PROVE  MouseByte(buffer'[k]) /\ buffer'[k].part = k + 1
        BY <2>6, <3>1, <3>3, <3>4 DEF BufferAligned
      <3>5. buffer'[0].source = "none" => buffer'[0].value = 0
        <4>1. 0 \in 0 .. 2
          OBVIOUS
        <4>2. output[1].source = "mouse"
          BY <3>3 DEF MouseByte
        <4> QED  BY <2>6, <3>1, <4>1, <4>2 DEF BufferAligned
      <3>6. buttons' # 0 => FirstByte(buttons')
        <4>1. CASE offset' = 0
          <5>1. buttons' = buffer'[0].value
            BY <2>1, <4>1
          <5>2. 0 \in 0 .. 2 /\ 0 + 1 = 1
            OBVIOUS
          <5>3. buffer'[0].source # "none" => MouseByte(buffer'[0]) /\ buffer'[0].part = 1
            BY <3>4, <5>2
          <5> QED  BY <3>5, <5>1, <5>3 DEF MouseByte
        <4>2. CASE offset' # 0
          BY <2>1, <3>1, <4>2 DEF BufferAligned
        <4> QED  BY <4>1, <4>2
      <3>7. BufferAligned'
        BY <3>4, <3>5, <3>6 DEF BufferAligned, MouseByte, FirstByte
      <3> QED  BY <3>2, <3>7
    <2> QED  BY <1>0, <2>7, <2>8 DEF AlignInv
  <1> QED  BY <1>1, <1>2

(* Each step of the drivers keeps both invariants.                         *)
LEMMA InputNextInv == PciInv /\ AlignInv /\ [InputNext]_inputVars => PciInv' /\ AlignInv'
  <1> SUFFICES ASSUME PciInv, AlignInv, [InputNext]_inputVars
               PROVE  PciInv' /\ AlignInv'
    OBVIOUS
  <1>1. CASE UNCHANGED inputVars
    <2>1. UNCHANGED pciVars
      BY <1>1 DEF inputVars
    <2> QED  BY <1>1, <2>1, PciStepInv, OthersAligned
  <1>2. CASE Boot
    <2>1. SelectDrivers \/ UNCHANGED pciVars
      BY <1>2 DEF Boot, SelectAll, Drain, KeyboardAsks, KeyboardSets, MouseAsks, MouseSets,
                  MouseStarts, MouseReads, Ask, Set
    <2>2. AlignInv'
      BY <1>2, OthersAligned, DrainAligned, AsksAligned, SetsAligned, MouseStartsAligned,
         MouseReadsAligned DEF Boot
    <2> QED  BY <2>1, <2>2, PciStepInv
  <1>3. CASE Offer
    BY <1>3, OfferAligned, PciStepInv DEF Offer
  <1>4. ASSUME NEW code \in Codes, PressKey(code)
        PROVE  PciInv' /\ AlignInv'
    BY <1>4, PressKeyAligned, PciStepInv DEF PressKey
  <1>5. ASSUME NEW packet \in Packets, MovePacket(packet)
        PROVE  PciInv' /\ AlignInv'
    BY <1>5, MovePacketAligned, PciStepInv DEF MovePacket
  <1>6. CASE KeyboardInterrupts
    BY <1>6, KeyboardInterruptsAligned, PciStepInv DEF KeyboardInterrupts
  <1>7. CASE MouseInterrupts
    BY <1>7, MouseInterruptsAligned, PciStepInv DEF MouseInterrupts
  <1>8. ASSUME NEW line \in {KeyboardLine, MouseLine}, CardInterrupts(line)
        PROVE  PciInv' /\ AlignInv'
    BY <1>8, OthersAligned, PciStepInv DEF CardInterrupts
  <1> QED  BY <1>1, <1>2, <1>3, <1>4, <1>5, <1>6, <1>7, <1>8 DEF InputNext

(* Search and drivers keep both invariants (pci.cpp:69-93,                 *)
(* mouse.cpp:48-101).                                                      *)
THEOREM InputInvariance == InputSpec => [](PciInv /\ AlignInv)
  <1>1. InputInit => PciInv /\ AlignInv
    BY PciInitInv, AlignInitInv DEF InputInit
  <1> QED  BY <1>1, InputNextInv, PTL DEF InputSpec

(* Every card that was found gets one driver, with a port of its own       *)
(* (pci.cpp:69-93).                                                        *)
THEOREM OneDriverAlways == InputSpec => []OneDriverPerCard
  <1>1. PciInv => OneDriverPerCard
    BY OneDriver
  <1> QED  BY <1>1, InputInvariance, PTL

(* The handler of the mouse never takes a byte for another one of the      *)
(* packet, unless an interrupt came before it could read (mouse.cpp:48-101).*)
THEOREM PacketsAlwaysAligned == InputSpec => []PacketsAligned
  <1>1. AlignInv => PacketsAligned
    BY DEF AlignInv, BufferAligned, MouseByte, FirstByte, PacketsAligned
  <1> QED  BY <1>1, InputInvariance, PTL
-----------------------------------------------------------------------------
(* Keys on their way                                                       *)

(* The codes of the bytes in a queue.                                      *)
Values(q) == [k \in 1 .. Len(q) |-> q[k].value]

(* The code that waits in the controller, and all that were not read yet.  *)
Waits == IF output # <<>> /\ output[1].source = "keyboard" THEN <<output[1].value>> ELSE <<>>
OnTheWay == Waits \o Values(keys)

(* What was typed is what was heard and what is on its way; before         *)
(* Activate looks for bytes, nothing else was pressed.                     *)
KeyInv ==
    /\ pressed \in Seq(Byte) /\ heard \in Seq(Byte) /\ Waits \in Seq(Byte)
    /\ answer # <<>> => answer[1].source = "controller"
    /\ pc = "select" =>
          /\ answer = <<>> /\ heard = <<>>
          /\ output # <<>> => output[1].source = "keyboard"
          /\ pressed = OnTheWay
    /\ ~blind => Kept(pressed, Typed) = heard \o Kept(OnTheWay, Typed)

(* The codes of a queue of the keyboard's bytes.                           *)
LEMMA ValuesSeq ==
    ASSUME NEW q \in Seq(KeyByte)
    PROVE  Values(q) \in Seq(Byte) /\ Len(Values(q)) = Len(q)
  <1>1. PICK n \in Nat : n = Len(q)
    BY LenProperties
  <1>2. \A k \in 1 .. n : q[k].value \in Byte
    <2>1. \A k \in 1 .. n : q[k] \in KeyByte
      BY <1>1, ElementOfSeq
    <2> QED  BY <2>1 DEF KeyByte
  <1>3. Values(q) = [k \in 1 .. n |-> q[k].value]
    BY <1>1 DEF Values
  <1> QED  BY <1>1, <1>2, <1>3

(* A byte at the end of a queue brings its code at the end, ...            *)
LEMMA ValuesAppend ==
    ASSUME NEW q \in Seq(KeyByte), NEW b \in KeyByte
    PROVE  Values(Append(q, b)) = Append(Values(q), b.value)
  <1>1. PICK n \in Nat : n = Len(q)
    BY LenProperties
  <1>2. /\ Append(q, b) \in Seq(KeyByte) /\ Len(Append(q, b)) = n + 1
        /\ \A k \in 1 .. n : Append(q, b)[k] = q[k]
        /\ Append(q, b)[n + 1] = b
    BY <1>1, AppendProperties
  <1>3. b.value \in Byte
    BY DEF KeyByte
  <1>4. PICK s \in Seq(Byte), t \in Seq(Byte) :
            s = Values(q) /\ t = Values(Append(q, b)) /\ Len(s) = n /\ Len(t) = n + 1
    BY <1>1, <1>2, ValuesSeq
  <1>5. \A k \in 1 .. n : s[k] = q[k].value
    BY <1>1, <1>4 DEF Values
  <1>6. \A k \in 1 .. n + 1 : t[k] = Append(q, b)[k].value
    BY <1>2, <1>4 DEF Values
  <1>7. /\ Append(s, b.value) \in Seq(Byte) /\ Len(Append(s, b.value)) = n + 1
        /\ \A k \in 1 .. n : Append(s, b.value)[k] = s[k]
        /\ Append(s, b.value)[n + 1] = b.value
    BY <1>3, <1>4, AppendProperties
  <1>8. ASSUME NEW k \in 1 .. n + 1 PROVE t[k] = Append(s, b.value)[k]
    <2>1. k \in 1 .. n \/ k = n + 1
      BY <1>1
    <2> QED  BY <1>2, <1>5, <1>6, <1>7, <2>1
  <1>9. t = Append(s, b.value)
    BY <1>4, <1>7, <1>8, SeqEqual
  <1> QED  BY <1>4, <1>9

(* ... and the first byte had the first of the codes.                      *)
LEMMA ValuesTail ==
    ASSUME NEW q \in Seq(KeyByte), q # <<>>
    PROVE  /\ Values(q) = <<Head(q).value>> \o Values(Tail(q))
           /\ Head(q) \in KeyByte /\ Tail(q) \in Seq(KeyByte)
  <1>1. PICK n \in Nat \ {0} : n = Len(q)
    BY EmptySeq
  <1>2. /\ Head(q) \in KeyByte /\ Head(q) = q[1]
        /\ Tail(q) \in Seq(KeyByte) /\ Len(Tail(q)) = n - 1
        /\ \A k \in 1 .. n - 1 : Tail(q)[k] = q[k + 1]
    BY <1>1, HeadTailProperties
  <1>3. PICK x \in Byte, u \in Seq(Byte), s \in Seq(Byte) :
            /\ x = Head(q).value /\ u = Values(Tail(q)) /\ s = Values(q)
            /\ Len(u) = n - 1 /\ Len(s) = n
    <2>1. Head(q).value \in Byte
      BY <1>2 DEF KeyByte
    <2>2. Values(Tail(q)) \in Seq(Byte) /\ Len(Values(Tail(q))) = n - 1
      BY <1>2, ValuesSeq
    <2>3. Values(q) \in Seq(Byte) /\ Len(Values(q)) = n
      BY <1>1, ValuesSeq
    <2> QED  BY <2>1, <2>2, <2>3
  <1>4. \A k \in 1 .. n : s[k] = q[k].value
    BY <1>1, <1>3 DEF Values
  <1>5. s # <<>>
    BY <1>1, <1>3
  <1>6. Head(s) = x
    <2>1. 1 \in 1 .. n
      BY <1>1
    <2> QED  BY <1>2, <1>3, <1>4, <1>5, <2>1
  <1>7. Tail(s) = u
    <2>1. /\ Tail(s) \in Seq(Byte) /\ Len(Tail(s)) = n - 1
          /\ \A k \in 1 .. n - 1 : Tail(s)[k] = s[k + 1]
      BY <1>3, <1>5, HeadTailProperties
    <2>2. \A k \in 1 .. n - 1 : u[k] = Tail(q)[k].value
      BY <1>2, <1>3 DEF Values
    <2>3. \A k \in 1 .. n - 1 : k + 1 \in 1 .. n
      BY <1>1
    <2>4. \A k \in 1 .. n - 1 : Tail(s)[k] = u[k]
      BY <1>2, <1>4, <2>1, <2>2, <2>3
    <2> QED  BY <1>3, <2>1, <2>4, SeqEqual
  <1>8. s = <<Head(s)>> \o Tail(s)
    BY <1>5, HeadAndTail
  <1> QED  BY <1>2, <1>3, <1>6, <1>7, <1>8

(* What is on its way is a sequence of codes.                              *)
LEMMA OnTheWaySeq ==
    ASSUME AlignInv, KeyInv
    PROVE  /\ Values(keys) \in Seq(Byte) /\ Waits \in Seq(Byte)
           /\ OnTheWay \in Seq(Byte)
           /\ Waits = <<>> => OnTheWay = Values(keys)
  <1>1. Values(keys) \in Seq(Byte) /\ Waits \in Seq(Byte)
    BY ValuesSeq DEF AlignInv, AlignTypeOK, KeyInv
  <1> QED  BY <1>1, ConcatProperties, ConcatEmptySeq DEF OnTheWay

(* No key was pressed at first.                                            *)
LEMMA KeyInitInv == InputInit => KeyInv
  <1> SUFFICES ASSUME InputInit PROVE KeyInv
    OBVIOUS
  <1>1. /\ pressed = <<>> /\ heard = <<>> /\ keys = <<>> /\ output = <<>> /\ answer = <<>>
    BY DEF InputInit
  <1>2. <<>> \in Seq(Byte) /\ <<>> \o <<>> = <<>>
    BY ConcatEmptySeq
  <1>3. Waits = <<>> /\ Values(<<>>) = <<>>
    BY <1>1 DEF Waits, Values
  <1>4. OnTheWay = <<>> /\ Kept(<<>>, Typed) = <<>>
    BY <1>1, <1>2, <1>3, KeptEmpty DEF OnTheWay
  <1> QED  BY <1>1, <1>2, <1>3, <1>4 DEF KeyInv

(* What a step that takes no code leaves as it was.                        *)
LEMMA KeysStay ==
    ASSUME KeyInv, UNCHANGED <<pressed, heard, keys>>, blind => blind',
           answer' # <<>> => answer'[1].source = "controller",
           pc' = "select" => pc = "select" /\ UNCHANGED <<output, answer>>,
           Waits' \in {Waits, <<>>}, ~blind' => Waits' = Waits
    PROVE  KeyInv'
  <1>1. pc' = "select" => Waits' = Waits
    BY DEF Waits
  <1>2. Waits' = Waits => OnTheWay' = OnTheWay
    BY DEF OnTheWay, Values
  <1>3. Waits' \in Seq(Byte)
    <2>1. <<>> \in Seq(Byte)
      OBVIOUS
    <2>2. Waits \in Seq(Byte)
      BY DEF KeyInv
    <2>3. Waits' = Waits \/ Waits' = <<>>
      OBVIOUS
    <2> QED  BY <2>1, <2>2, <2>3
  <1>4. ~blind' => Kept(pressed', Typed) = heard' \o Kept(OnTheWay', Typed)
    BY <1>2 DEF KeyInv
  <1>5. pc' = "select" =>
          /\ answer' = <<>> /\ heard' = <<>>
          /\ output' # <<>> => output'[1].source = "keyboard"
          /\ pressed' = OnTheWay'
    BY <1>1, <1>2 DEF KeyInv
  <1> QED  BY <1>3, <1>4, <1>5 DEF KeyInv

(* A code joins those on their way.                                        *)
LEMMA KeyJoins ==
    ASSUME AlignInv, KeyInv, NEW code \in Byte,
           keys' = Append(keys, From("keyboard", code, 0)), Waits' = Waits
    PROVE  /\ OnTheWay' = Append(OnTheWay, code)
           /\ Kept(OnTheWay', Typed) = IF code \in Typed THEN Append(Kept(OnTheWay, Typed), code)
                                       ELSE Kept(OnTheWay, Typed)
  <1>1. From("keyboard", code, 0) \in KeyByte /\ From("keyboard", code, 0).value = code
    BY DEF From, KeyByte
  <1>2. Values(keys') = Append(Values(keys), code)
    BY <1>1, ValuesAppend DEF AlignInv, AlignTypeOK
  <1>3. PICK w \in Seq(Byte), v \in Seq(Byte) : w = Waits /\ v = Values(keys)
    BY OnTheWaySeq
  <1>4. w \o Append(v, code) = Append(w \o v, code)
    <2>1. <<code>> \in Seq(Byte) /\ w \o v \in Seq(Byte)
      BY ConcatProperties
    <2> QED  BY <2>1, AppendIsConcat, ConcatAssociative
  <1>5. OnTheWay' = Append(OnTheWay, code)
    BY <1>2, <1>3, <1>4 DEF OnTheWay
  <1> QED  BY <1>5, OnTheWaySeq, KeptAppend

(* A key is pressed.                                                       *)
LEMMA PressKeyKeys ==
    ASSUME AlignInv, KeyInv, NEW code \in Codes, PressKey(code)
    PROVE  KeyInv'
  <1>1. /\ pressed' = Append(pressed, code) /\ keys' = Append(keys, From("keyboard", code, 0))
        /\ UNCHANGED <<output, answer, heard, pc, blind>>
    BY DEF PressKey, controllerVars, driverVars
  <1>2. code \in Byte
    BY BytesAssumption
  <1>3. Waits' = Waits
    BY <1>1 DEF Waits
  <1>4. /\ OnTheWay' = Append(OnTheWay, code)
        /\ Kept(OnTheWay', Typed) = IF code \in Typed THEN Append(Kept(OnTheWay, Typed), code)
                                    ELSE Kept(OnTheWay, Typed)
    BY <1>1, <1>2, <1>3, KeyJoins
  <1>5. pressed' \in Seq(Byte)
    BY <1>1, <1>2, AppendProperties DEF KeyInv
  <1>6. ~blind' => Kept(pressed', Typed) = heard' \o Kept(OnTheWay', Typed)
    <2> SUFFICES ASSUME ~blind PROVE Kept(pressed', Typed) = heard \o Kept(OnTheWay', Typed)
      BY <1>1
    <2>1. PICK h \in Seq(Byte), k \in Seq(Byte) : h = heard /\ k = Kept(OnTheWay, Typed)
      BY OnTheWaySeq, KeptSeq DEF KeyInv
    <2>2. Kept(pressed, Typed) = h \o k
      BY <2>1 DEF KeyInv
    <2>3. Kept(pressed', Typed) = IF code \in Typed THEN Append(h \o k, code) ELSE h \o k
      <3>1. PICK p \in Seq(Byte) : p = pressed
        BY DEF KeyInv
      <3>2. Kept(Append(p, code), Typed) = IF code \in Typed THEN Append(Kept(p, Typed), code)
                                           ELSE Kept(p, Typed)
        BY <1>2, KeptAppend
      <3> QED  BY <1>1, <2>2, <3>1, <3>2
    <2>4. h \o Append(k, code) = Append(h \o k, code)
      <3>1. <<code>> \in Seq(Byte) /\ h \o k \in Seq(Byte)
        BY <1>2, ConcatProperties
      <3> QED  BY <1>2, <3>1, AppendIsConcat, ConcatAssociative
    <2> QED  BY <1>4, <2>1, <2>3, <2>4
  <1> QED  BY <1>1, <1>3, <1>4, <1>5, <1>6 DEF KeyInv

(* A byte goes to the data port.                                           *)
LEMMA OfferKeys ==
    ASSUME AlignInv, KeyInv, Offer
    PROVE  KeyInv'
  <1>1. output = <<>> /\ UNCHANGED <<pressed, heard, pc, blind>> /\ Waits = <<>>
    BY DEF Offer, driverVars, Waits
  <1>2. CASE answer # <<>> /\ output' = answer /\ answer' = <<>> /\ UNCHANGED keys
    <2>1. Waits' = <<>> /\ pc # "select"
      BY <1>2 DEF Waits, KeyInv
    <2> QED  BY <1>1, <1>2, <2>1, KeysStay
  <1>3. CASE keys # <<>> /\ output' = <<Head(keys)>> /\ keys' = Tail(keys) /\ UNCHANGED answer
    <2>1. /\ Values(keys) = <<Head(keys).value>> \o Values(Tail(keys))
          /\ Head(keys) \in KeyByte /\ Tail(keys) \in Seq(KeyByte)
      BY <1>3, ValuesTail DEF AlignInv, AlignTypeOK
    <2>2. output' # <<>> /\ output'[1] = Head(keys) /\ Head(keys).source = "keyboard"
          /\ Head(keys).value \in Byte
      BY <1>3, <2>1 DEF KeyByte
    <2>3. Waits' = <<Head(keys).value>>
      BY <2>2 DEF Waits
    <2>4. Waits' \in Seq(Byte)
      BY <2>2, <2>3
    <2>5. OnTheWay' = OnTheWay
      BY <1>1, <1>3, <2>1, <2>3, OnTheWaySeq DEF OnTheWay
    <2> QED  BY <1>1, <1>3, <2>2, <2>4, <2>5 DEF KeyInv
  <1>4. CASE mouse # <<>> /\ output' = <<Head(mouse)>> /\ UNCHANGED <<answer, keys>>
    <2>1. output' # <<>> /\ output'[1].source = "mouse"
      <3>1. PICK q \in Seq(PacketByte) : q = mouse
        BY DEF AlignInv, AlignTypeOK
      <3>2. Head(q) \in PacketByte
        BY <1>4, <3>1, HeadTailProperties
      <3>3. Head(q).source = "mouse"
        BY <3>2 DEF PacketByte
      <3>4. output' # <<>> /\ output'[1] = Head(q)
        BY <1>4, <3>1
      <3> QED  BY <3>3, <3>4
    <2>2. Waits' = <<>> /\ pc # "select"
      BY <1>4, <2>1 DEF Waits, AlignInv, BeforeStart
    <2>3. answer' # <<>> => answer'[1].source = "controller"
      BY <1>4 DEF KeyInv
    <2> QED  BY <1>1, <1>4, <2>2, <2>3, KeysStay
  <1> QED  BY <1>2, <1>3, <1>4 DEF Offer

(* Before Activate looks for its own answers it drops the keys that wait.  *)
LEMMA DrainKeys ==
    ASSUME AlignInv, KeyInv, Drain
    PROVE  KeyInv'
  <1>1. /\ pc = "select" /\ output # <<>> /\ output' = <<>> /\ pressed' = Tail(pressed)
        /\ UNCHANGED <<answer, keys, pc, heard, blind>>
    BY DEF Drain, driverVars, Read
  <1>2. heard = <<>> /\ pressed = OnTheWay /\ answer = <<>> /\ output[1].source = "keyboard"
    BY <1>1 DEF KeyInv
  <1>3. Waits = <<output[1].value>> /\ Waits' = <<>>
    BY <1>1, <1>2 DEF Waits
  <1>4. PICK x \in Byte, v \in Seq(Byte) : x = output[1].value /\ v = Values(keys)
    <2>1. <<output[1].value>> \in Seq(Byte)
      BY <1>3, OnTheWaySeq
    <2>2. 1 \in 1 .. Len(<<output[1].value>>) /\ <<output[1].value>>[1] = output[1].value
      OBVIOUS
    <2>3. output[1].value \in Byte
      BY <2>1, <2>2, ElementOfSeq
    <2> QED  BY <2>3, OnTheWaySeq
  <1>5. pressed' = v
    BY <1>1, <1>2, <1>3, <1>4, HeadTailOfCons DEF OnTheWay
  <1>6. OnTheWay' = v
    BY <1>1, <1>3, <1>4, ConcatEmptySeq DEF OnTheWay
  <1>7. <<>> \o Kept(v, Typed) = Kept(v, Typed)
    BY KeptSeq, ConcatEmptySeq
  <1>8. <<>> \in Seq(Byte)
    OBVIOUS
  <1> QED  BY <1>1, <1>2, <1>3, <1>5, <1>6, <1>7, <1>8 DEF KeyInv

(* A read by Activate that finds what it takes it for, takes no key.       *)
LEMMA ReadAsKeys ==
    ASSUME AlignInv, NEW source \in {"controller", "mouse"}, ReadAs(source)
    PROVE  /\ Waits' = <<>> /\ output' = <<>>
           /\ blind => blind'
           /\ ~blind' => Waits = <<>>
  <1>1. output' = <<>> /\ (output # <<>> => Reading = output[1])
    BY ReadTakes DEF ReadAs, AlignInv
  <1> QED  BY <1>1 DEF ReadAs, Waits

(* The keyboard acknowledges, and that is no key.                          *)
LEMMA KeyboardSetsKeys ==
    ASSUME AlignInv, KeyInv, KeyboardSets
    PROVE  KeyInv'
  <1>1. /\ keys' = Append(keys, From("keyboard", ACK, 0)) /\ ReadAs("controller")
        /\ UNCHANGED <<answer, heard, pressed>> /\ pc' = "mouseAsks"
    BY DEF KeyboardSets, Set, Goes, driverVars
  <1>2. Waits' = <<>> /\ (blind => blind') /\ (~blind' => Waits = <<>>)
    BY <1>1, ReadAsKeys
  <1>3. ACK \in Byte /\ ACK \notin Typed
    BY DEF ACK, Byte, Typed
  <1>4. ~blind' => Kept(pressed', Typed) = heard' \o Kept(OnTheWay', Typed)
    BY <1>1, <1>2, <1>3, KeyJoins DEF KeyInv
  <1>5. <<>> \in Seq(Byte)
    OBVIOUS
  <1> QED  BY <1>1, <1>2, <1>4, <1>5 DEF KeyInv

(* Nor do the other steps of boot take a key.                              *)
LEMMA BootKeys ==
    ASSUME AlignInv, KeyInv, Boot
    PROVE  KeyInv'
  <1>1. CASE SelectAll
    <2>1. UNCHANGED <<pressed, heard, keys, output, answer, pc, blind>>
      BY <1>1 DEF SelectAll, controllerVars, driverVars
    <2>2. Waits' = Waits
      BY <2>1 DEF Waits
    <2> QED  BY <2>1, <2>2, KeysStay DEF KeyInv
  <1>2. CASE KeyboardAsks \/ MouseAsks
    <2>1. /\ UNCHANGED <<pressed, heard, keys, output, blind>> /\ pc' # "select"
          /\ \E value : answer' = <<From("controller", value, 0)>>
      BY <1>2 DEF KeyboardAsks, MouseAsks, Ask, Goes, driverVars
    <2>2. Waits' = Waits /\ (answer' # <<>> => answer'[1].source = "controller")
      BY <2>1 DEF Waits, From
    <2> QED  BY <2>1, <2>2, KeysStay
  <1>3. CASE MouseSets \/ MouseReads
    <2>1. /\ UNCHANGED <<pressed, heard, keys, answer>> /\ pc' # "select"
          /\ \E source \in {"controller", "mouse"} : ReadAs(source)
      BY <1>3 DEF MouseSets, MouseReads, Set, Goes, driverVars
    <2>2. Waits' = <<>> /\ (blind => blind') /\ (~blind' => Waits = <<>>)
      BY <2>1, ReadAsKeys
    <2>3. answer' # <<>> => answer'[1].source = "controller"
      BY <2>1 DEF KeyInv
    <2> QED  BY <2>1, <2>2, <2>3, KeysStay
  <1>4. CASE MouseStarts
    <2>1. UNCHANGED <<pressed, heard, keys, output, answer, blind>> /\ pc' # "select"
      BY <1>4 DEF MouseStarts, Goes, controllerVars, driverVars
    <2>2. Waits' = Waits
      BY <2>1 DEF Waits
    <2> QED  BY <2>1, <2>2, KeysStay DEF KeyInv
  <1> QED  BY <1>1, <1>2, <1>3, <1>4, DrainKeys, KeyboardSetsKeys DEF Boot

(* Codes in three parts.                                                   *)
LEMMA CodesAssociate ==
    \A s \in Seq(Byte), t \in Seq(Byte), u \in Seq(Byte) : s \o (t \o u) = (s \o t) \o u
  BY ConcatAssociative

(* The handler of the keyboard hears the next code.                        *)
LEMMA KeyboardInterruptsKeys ==
    ASSUME AlignInv, KeyInv, KeyboardInterrupts
    PROVE  KeyInv'
  <1>1. /\ UNCHANGED <<pressed, keys, answer, pc>> /\ pc = "running" /\ ReadAs("keyboard")
        /\ heard' = IF Reading.value \in Typed THEN Append(heard, Reading.value) ELSE heard
    BY DEF KeyboardInterrupts, Interrupt
  <1>2. output' = <<>> /\ (output # <<>> => Reading = output[1]) /\ Waits' = <<>>
    BY <1>1, ReadTakes DEF ReadAs, AlignInv, Waits
  <1>3. heard' \in Seq(Byte)
    <2>1. Typed \subseteq Byte
      BY DEF Typed, Byte
    <2> QED  BY <1>1, <2>1, AppendProperties DEF KeyInv
  <1>4. ASSUME ~blind'
        PROVE  Kept(pressed', Typed) = heard' \o Kept(OnTheWay', Typed)
    <2>1. ~blind /\ output # <<>> /\ output[1].source = "keyboard" /\ Reading = output[1]
      BY <1>1, <1>2, <1>4 DEF ReadAs, AlignInv, AlignTypeOK
    <2>2. Waits = <<Reading.value>>
      BY <2>1 DEF Waits
    <2>3. PICK x \in Byte, v \in Seq(Byte), h \in Seq(Byte) :
              x = Reading.value /\ v = Values(keys) /\ h = heard
      <3>1. <<Reading.value>> \in Seq(Byte)
        BY <2>2, OnTheWaySeq
      <3>2. 1 \in 1 .. Len(<<Reading.value>>) /\ <<Reading.value>>[1] = Reading.value
        OBVIOUS
      <3>3. Reading.value \in Byte
        BY <3>1, <3>2, ElementOfSeq
      <3> QED  BY <3>3, OnTheWaySeq DEF KeyInv
    <2>4. OnTheWay = <<x>> \o v /\ OnTheWay' = v
      BY <1>1, <1>2, <2>2, <2>3, ConcatEmptySeq DEF OnTheWay
    <2>5. PICK w \in Seq(Byte) : w = <<x>>
      <3>1. <<x>> \in Seq(Byte)
        OBVIOUS
      <3> QED  BY <3>1
    <2>6. Kept(w \o v, Typed) = Kept(w, Typed) \o Kept(v, Typed)
      BY KeptConcat
    <2>7. Kept(w, Typed) = IF x \in Typed THEN <<x>> ELSE <<>>
      BY <2>5, KeptOne
    <2>8. PICK k \in Seq(Byte) : k = Kept(v, Typed)
      BY KeptSeq
    <2>9. Kept(pressed, Typed) = h \o ((IF x \in Typed THEN <<x>> ELSE <<>>) \o k)
      BY <2>1, <2>3, <2>4, <2>5, <2>6, <2>7, <2>8 DEF KeyInv
    <2>10. CASE x \in Typed
      <3>1. heard' = h \o w
        BY <1>1, <2>3, <2>5, <2>10, AppendIsConcat
      <3>2. h \o (w \o k) = (h \o w) \o k
        BY CodesAssociate
      <3> QED  BY <1>1, <2>4, <2>5, <2>8, <2>9, <2>10, <3>1, <3>2
    <2>11. CASE x \notin Typed
      <3>1. heard' = h
        BY <1>1, <2>3, <2>11
      <3>2. <<>> \o k = k
        BY ConcatEmptySeq
      <3> QED  BY <1>1, <2>4, <2>8, <2>9, <2>11, <3>1, <3>2
    <2> QED  BY <2>10, <2>11
  <1>5. <<>> \in Seq(Byte)
    OBVIOUS
  <1> QED  BY <1>1, <1>2, <1>3, <1>4, <1>5 DEF KeyInv

(* The handler of the mouse takes no key.                                  *)
LEMMA MouseInterruptsKeys ==
    ASSUME AlignInv, KeyInv, MouseInterrupts
    PROVE  KeyInv'
  <1>1. UNCHANGED <<pressed, heard, keys, answer, pc, blind>> /\ pc = "running"
    BY DEF MouseInterrupts, Interrupt
  <1>2. Waits' = Waits
    <2>1. CASE IsMine
      <3>1. output' = <<>> /\ output # <<>> /\ Reading = output[1] /\ Reading.source = "mouse"
        BY <2>1, ReadTakes DEF MouseInterrupts, IsMine, AlignInv
      <3> QED  BY <3>1 DEF Waits
    <2>2. CASE ~IsMine
      BY <2>2 DEF MouseInterrupts, Waits
    <2> QED  BY <2>1, <2>2
  <1> QED  BY <1>1, <1>2, KeysStay DEF KeyInv

(* Each step keeps the keys in order.                                      *)
LEMMA KeyNextInv == AlignInv /\ KeyInv /\ [InputNext]_inputVars => KeyInv'
  <1> SUFFICES ASSUME AlignInv, KeyInv, [InputNext]_inputVars PROVE KeyInv'
    OBVIOUS
  <1>1. ASSUME UNCHANGED <<pressed, heard, keys, output, answer, pc, blind>> PROVE KeyInv'
    <2>1. Waits' = Waits
      BY <1>1 DEF Waits
    <2> QED  BY <1>1, <2>1, KeysStay DEF KeyInv
  <1>2. CASE UNCHANGED inputVars
    BY <1>1, <1>2 DEF inputVars, controllerVars, driverVars
  <1>3. ASSUME NEW packet \in Packets, MovePacket(packet) PROVE KeyInv'
    BY <1>1, <1>3 DEF MovePacket, controllerVars, driverVars
  <1>4. ASSUME NEW line \in {KeyboardLine, MouseLine}, CardInterrupts(line) PROVE KeyInv'
    BY <1>1, <1>4 DEF CardInterrupts, controllerVars, driverVars
  <1> QED
    BY <1>2, <1>3, <1>4, BootKeys, OfferKeys, PressKeyKeys, KeyboardInterruptsKeys,
       MouseInterruptsKeys DEF InputNext

(* A sequence is a prefix of itself with another behind it.                *)
LEMMA PrefixOfConcat ==
    ASSUME NEW S, NEW s \in Seq(S), NEW t \in Seq(S)
    PROVE  IsPrefix(s, s \o t)
  <1>1. PICK m \in Nat, n \in Nat : m = Len(s) /\ n = Len(t)
    BY LenProperties
  <1>2. /\ s \o t \in Seq(S) /\ Len(s \o t) = m + n
        /\ \A k \in 1 .. m + n : (s \o t)[k] = IF k <= m THEN s[k] ELSE t[k - m]
    BY <1>1, ConcatProperties
  <1>3. PICK c \in Seq(S) : c = s \o t
    BY <1>2
  <1>4. \A k \in 1 .. m : c[k] = s[k] /\ s[k] \in S /\ c[k] \in S
    <2>1. \A k \in 1 .. m : k \in 1 .. m + n /\ k <= m
      BY <1>1
    <2> QED  BY <1>1, <1>2, <1>3, <2>1, ElementOfSeq
  <1>5. /\ SubSeq(c, 1, m) \in Seq(S) /\ Len(SubSeq(c, 1, m)) = m
        /\ \A k \in 1 .. m : SubSeq(c, 1, m)[k] = c[k]
    <2>1. /\ SubSeq(c, 1, m) \in Seq(S)
          /\ Len(SubSeq(c, 1, m)) = IF 1 <= m THEN m - 1 + 1 ELSE 0
          /\ \A k \in 1 .. m - 1 + 1 : SubSeq(c, 1, m)[k] = c[1 + k - 1]
      BY <1>4, SubSeqProperties
    <2>2. m - 1 + 1 = m /\ (IF 1 <= m THEN m - 1 + 1 ELSE 0) = m
          /\ \A k \in 1 .. m : 1 + k - 1 = k
      BY <1>1
    <2> QED  BY <2>1, <2>2
  <1>6. SubSeq(c, 1, m) = s
    BY <1>1, <1>4, <1>5, SeqEqual
  <1>7. /\ SubSeq(s, 1, m) \in Seq(S) /\ SubSeq(s, 1, m) = s
    BY <1>1, SubSeqFull
  <1>8. m <= m + n
    BY <1>1
  <1> QED  BY <1>1, <1>2, <1>3, <1>6, <1>7, <1>8 DEF IsPrefix

(* The shell hears the keys that were typed since Activate, once and in    *)
(* their order, while no blind read went wrong, whatever the mouse and the *)
(* controller send in between (keyboard.cpp:40-146, mouse.cpp:70).         *)
THEOREM KeysAlwaysInOrder == InputSpec => []KeysInOrder
  <1>1. AlignInv /\ KeyInv => KeysInOrder
    <2> SUFFICES ASSUME AlignInv, KeyInv, ~blind
                 PROVE  /\ IsPrefix(heard, Kept(pressed, Typed))
                        /\ output = <<>> /\ keys = <<>> => heard = Kept(pressed, Typed)
      BY DEF KeysInOrder
    <2>1. PICK h \in Seq(Byte), k \in Seq(Byte) :
              h = heard /\ k = Kept(OnTheWay, Typed) /\ Kept(pressed, Typed) = h \o k
      BY OnTheWaySeq, KeptSeq DEF KeyInv
    <2>2. IsPrefix(h, h \o k)
      BY PrefixOfConcat
    <2>3. ASSUME output = <<>>, keys = <<>> PROVE k = <<>>
      <3>1. Waits = <<>> /\ Values(keys) = <<>>
        BY <2>3 DEF Waits, Values
      <3> QED  BY <2>1, <3>1, OnTheWaySeq, KeptEmpty
    <2>4. h \o <<>> = h
      BY ConcatEmptySeq
    <2> QED  BY <2>1, <2>2, <2>3, <2>4
  <1>2. InputInit => KeyInv
    BY KeyInitInv
  <1>3. InputInit /\ []AlignInv /\ [][InputNext]_inputVars => []KeyInv
    BY <1>2, KeyNextInv, PTL
  <1>4. InputSpec => []AlignInv
    BY InputInvariance, PTL
  <1> QED  BY <1>1, <1>3, <1>4, PTL DEF InputSpec
-----------------------------------------------------------------------------

USE LengthAssumption, ByteModAssumption, CharsAssumption

(* Characters that stand in input: after too many backspaces i lies beyond *)
(* the arrays, and none do.                                                *)
Standing == IF i <= I THEN i ELSE 0

(* No character is left from a place up to another.                        *)
Zero(first, past) == \A a \in first .. past - 1 : memory[a] = 0

(* The types of the line; too many backspaces put i beyond the arrays.     *)
LineTypeOK ==
    /\ memory \in [Object -> Bytes]
    /\ phase \in {"idle", "copy", "process", "clear"}
    /\ typed \in Seq(Chars) /\ Len(typed) <= I
    /\ orderly \in BOOLEAN
    /\ i <= Len(typed) \/ i > I

(* What stands in input from a place on.                                   *)
Text(first) ==
    \A a \in first .. Standing - 1 :
        memory[a] # 0 /\ (orderly => memory[a] = typed[a + 1])

(* Between two lines data is clear, or holds what the line ran into it.    *)
Idle == Text(0) /\ Zero(Standing, I)

(* The copy has got as far as a place.                                     *)
Copied(past) == \A a \in 0 .. past - 1 : memory[Data + a] = memory[a]

(* What the arrays hold in each phase of the end of a line.                *)
Copying ==
    /\ j <= Standing /\ Text(0) /\ Zero(Standing, Data)
    /\ Copied(j) /\ Zero(Data + j, I)

Processing ==
    /\ Text(0) /\ Zero(Standing, Data)
    /\ Copied(Standing) /\ Zero(Data + Standing, I)

Clearing ==
    /\ j <= Standing /\ Text(j)
    /\ Zero(0, j) /\ Zero(Standing, Data)
    /\ Zero(Data, Data + j) /\ Zero(Data + Standing, I)

(* The phases together; a line that was too long promises nothing.         *)
LineInv ==
    /\ overrun \in BOOLEAN
    /\ ~overrun =>
          /\ LineTypeOK
          /\ orderly => i = Len(typed)
          /\ phase # "idle" => Len(typed) < Length
          /\ phase = "idle" => Idle
          /\ phase = "copy" => Copying
          /\ phase = "process" => Processing
          /\ phase = "clear" => Clearing

(* Where the members are.                                                  *)
LEMMA Sizes ==
    /\ Data \in Nat /\ Data >= 1 /\ I \in Nat /\ J \in Nat /\ ByteMod \in Nat
    /\ I = Data + Data /\ J = I + 1 /\ J < ByteMod /\ Length = Data
    /\ Object = 0 .. J /\ I \in Object /\ J \in Object
    /\ Bytes = 0 .. ByteMod - 1
  BY DEF Data, I, J, Object, Bytes

(* Every character is a byte other than zero.                              *)
LEMMA CharIsByte == \A c \in Chars : c \in Bytes /\ c # 0
  BY Sizes DEF I, Data

(* A store changes the place it is meant for, or nothing.                  *)
LEMMA StoredCells ==
    ASSUME NEW m \in [Object -> Bytes], NEW k \in Int, NEW v \in Bytes
    PROVE  /\ Stored(m, k, v) \in [Object -> Bytes]
           /\ \A a \in Object : Stored(m, k, v)[a] = IF a = k THEN v ELSE m[a]
  <1> HIDE DEF Object, Bytes
  <1> QED  BY DEF Stored

(* A member counted up.                                                    *)
LEMMA IncrementedCells ==
    ASSUME NEW m \in [Object -> Bytes], NEW k \in Object
    PROVE  /\ Incremented(m, k) \in [Object -> Bytes]
           /\ \A a \in Object : a # k => Incremented(m, k)[a] = m[a]
           /\ Incremented(m, k)[k] = IF m[k] + 1 = ByteMod THEN 0 ELSE m[k] + 1
  <1>1. m[k] \in 0 .. ByteMod - 1 /\ ByteMod \in Nat
    BY Sizes
  <1>2. (m[k] + 1) % ByteMod = IF m[k] + 1 = ByteMod THEN 0 ELSE m[k] + 1
    BY <1>1
  <1>3. (m[k] + 1) % ByteMod \in Bytes
    BY <1>1, <1>2, Sizes
  <1> QED  BY <1>2, <1>3 DEF Incremented

(* Places in the object that the proofs look at.                           *)
LEMMA Places ==
    /\ \A a \in Int : 0 <= a /\ a < I => a \in Object /\ a # I /\ a # J
    /\ I # J
  BY Sizes

(* The members as numbers.                                                 *)
LEMMA LineFacts ==
    ASSUME LineTypeOK
    PROVE  /\ i \in Nat /\ j \in Nat /\ i < ByteMod /\ j < ByteMod
           /\ Len(typed) \in Nat
           /\ Standing \in Nat /\ Standing <= Len(typed) /\ Standing <= I
           /\ i <= I => Standing = i
           /\ ~(i <= I) => Standing = 0
  <1>1. i \in 0 .. ByteMod - 1 /\ j \in 0 .. ByteMod - 1
    BY Sizes DEF LineTypeOK, i, j
  <1>2. Len(typed) \in Nat
    BY LenProperties DEF LineTypeOK
  <1> QED  BY <1>1, <1>2, Sizes DEF LineTypeOK, Standing

(* Nothing is typed at first.                                              *)
LEMMA LineInitInv == LineInit => LineInv
  <1> SUFFICES ASSUME LineInit
               PROVE  LineInv
    OBVIOUS
  <1>1. \A a \in Object : memory[a] = 0
    BY DEF LineInit
  <1>2. typed = <<>> /\ Len(typed) = 0 /\ typed \in Seq(Chars)
    BY DEF LineInit
  <1>3. i = 0 /\ j = 0
    BY <1>1, Sizes DEF i, j
  <1>4. 0 \in Bytes
    BY Sizes
  <1>5. memory \in [Object -> Bytes]
    BY <1>4 DEF LineInit
  <1>6. LineTypeOK
    BY <1>2, <1>3, <1>5, Sizes DEF LineInit, LineTypeOK
  <1>7. Standing = 0
    BY <1>3, Sizes DEF Standing
  <1>8. Idle
    BY <1>1, <1>7, Places, Sizes DEF Idle, Text, Zero
  <1> QED  BY <1>2, <1>3, <1>6, <1>8 DEF LineInit, LineInv

(* A character on a line that is not too long.                             *)
LEMMA TypeCharInv ==
    ASSUME LineInv, NEW c \in Chars, TypeChar(c)
    PROVE  LineInv'
  <1>0. overrun' \in BOOLEAN
    BY DEF TypeChar, LineInv
  <1> SUFFICES ASSUME ~overrun'
               PROVE  LineInv'
    BY <1>0 DEF LineInv
  <1> DEFINE m == Stored(memory, i, c)
  <1>1. /\ phase = "idle" /\ phase' = "idle" /\ ~overrun /\ Len(typed) # I
        /\ orderly' = orderly /\ typed' = Append(typed, c)
        /\ memory' = Incremented(m, I)
    BY DEF TypeChar
  <1>2. LineTypeOK /\ (orderly => i = Len(typed)) /\ Idle
    BY <1>1 DEF LineInv
  <1>3. /\ i \in Nat /\ i < ByteMod /\ Len(typed) \in Nat /\ Len(typed) < I
        /\ i < I \/ i > I
        /\ i < I => Standing = i
        /\ i > I => Standing = 0
        /\ i < I => i <= Len(typed)
    <2>1. /\ i \in Nat /\ i < ByteMod /\ Len(typed) \in Nat
          /\ i <= I => Standing = i
          /\ ~(i <= I) => Standing = 0
      BY <1>2, LineFacts
    <2>2. Len(typed) <= I /\ (i <= Len(typed) \/ i > I)
      BY <1>2 DEF LineTypeOK
    <2>3. I \in Nat
      BY Sizes
    <2> QED  BY ONLY <1>1, <2>1, <2>2, <2>3
  <1>4. c \in Bytes /\ c # 0
    BY CharIsByte
  <1>5. /\ m \in [Object -> Bytes]
        /\ \A a \in Object : m[a] = IF a = i THEN c ELSE memory[a]
    BY <1>2, <1>3, <1>4, StoredCells DEF LineTypeOK
  <1>6. m[I] = i
    BY <1>3, <1>5, Sizes DEF i
  <1> HIDE DEF m
  <1>7. /\ memory' \in [Object -> Bytes]
        /\ \A a \in Object : a # I => memory'[a] = m[a]
        /\ memory'[I] = IF m[I] + 1 = ByteMod THEN 0 ELSE m[I] + 1
    <2>1. I \in Object
      BY Sizes
    <2> QED  BY <1>1, <1>5, <2>1, IncrementedCells
  <1>8. i' = IF i + 1 = ByteMod THEN 0 ELSE i + 1
    <2>1. i' = memory'[I]
      BY DEF i
    <2> QED  BY <1>6, <1>7, <2>1
  <1>9. /\ typed' \in Seq(Chars) /\ Len(typed') = Len(typed) + 1
        /\ \A k \in 1 .. Len(typed) : typed'[k] = typed[k]
        /\ typed'[Len(typed) + 1] = c
    BY <1>1, <1>2, AppendProperties DEF LineTypeOK
  <1>10. LineTypeOK'
    <2>1. Len(typed') <= I
      BY <1>3, <1>9, Sizes
    <2>2. i' <= Len(typed') \/ i' > I
      BY <1>3, <1>8, <1>9, Sizes
    <2> QED  BY <1>1, <1>2, <1>7, <1>9, <2>1, <2>2 DEF LineTypeOK, I
  <1>11. orderly' => i' = Len(typed')
    BY <1>1, <1>2, <1>3, <1>8, <1>9, Sizes DEF LineTypeOK
  <1>12. ASSUME NEW a \in Int, 0 <= a, a < I
         PROVE  memory'[a] = IF a = i THEN c ELSE memory[a]
    BY <1>5, <1>7, <1>12, Places
  <1>13. CASE i < I
    <2>1. Standing' = i + 1
      BY <1>3, <1>8, <1>13, Sizes DEF Standing
    <2>2. ASSUME NEW a \in 0 .. i
          PROVE  memory'[a] # 0 /\ (orderly' => memory'[a] = typed'[a + 1])
      <3>1. a \in Int /\ 0 <= a /\ a < I
        BY <1>3, <1>13, Sizes
      <3>2. CASE a = i
        BY <1>2, <1>4, <1>9, <1>12, <1>1, <3>1, <3>2
      <3>3. CASE a # i
        <4>1. a \in 0 .. Standing - 1
          BY <1>3, <1>13, <3>3
        <4>2. memory[a] # 0 /\ (orderly => memory[a] = typed[a + 1])
          BY <1>2, <4>1 DEF Idle, Text
        <4>3. a + 1 \in 1 .. Len(typed)
          BY <1>3, <1>13, <3>3
        <4> QED  BY <1>1, <1>9, <1>12, <3>1, <3>3, <4>2, <4>3
      <3> QED  BY <3>2, <3>3
    <2>3. ASSUME NEW a \in i + 1 .. I - 1
          PROVE  memory'[a] = 0
      <3>1. a \in Int /\ 0 <= a /\ a < I /\ a # i /\ a \in Standing .. I - 1
        BY <1>3, <1>13, Sizes
      <3> QED  BY <1>2, <1>12, <3>1 DEF Idle, Zero
    <2>4. 0 .. Standing' - 1 = 0 .. i
      BY <2>1, <1>3
    <2> QED  BY <1>0, <1>1, <1>10, <1>11, <2>1, <2>2, <2>3, <2>4
             DEF LineInv, Idle, Text, Zero
  <1>14. CASE i > I
    <2>1. Standing' = 0
      BY <1>3, <1>8, <1>14, Sizes DEF Standing
    <2>2. ASSUME NEW a \in 0 .. I - 1
          PROVE  memory'[a] = 0
      <3>1. a \in Int /\ 0 <= a /\ a < I /\ a # i /\ a \in Standing .. I - 1
        BY <1>3, <1>14, Sizes
      <3> QED  BY <1>2, <1>12, <3>1 DEF Idle, Zero
    <2>3. 0 .. Standing' - 1 = {}
      BY <2>1
    <2> QED  BY <1>0, <1>1, <1>10, <1>11, <2>1, <2>2, <2>3
             DEF LineInv, Idle, Text, Zero
  <1> QED  BY <1>3, <1>13, <1>14

(* A character is taken back, or i runs below 0: then it lies beyond the   *)
(* arrays, until it counts up over ByteMod or down onto itself.            *)
LEMMA BackspaceInv ==
    ASSUME LineInv, Backspace
    PROVE  LineInv'
  <1>0. overrun' = overrun /\ overrun \in BOOLEAN
    BY DEF Backspace, LineInv
  <1> SUFFICES ASSUME ~overrun'
               PROVE  LineInv'
    BY <1>0 DEF LineInv
  <1> DEFINE k == (i + ByteMod - 1) % ByteMod
             m == [memory EXCEPT ![I] = k]
             n == Len(typed)
  <1>1. /\ phase = "idle" /\ phase' = "idle" /\ ~overrun
        /\ orderly' = (orderly /\ typed # <<>>)
        /\ typed' = IF typed = <<>> THEN typed ELSE SubSeq(typed, 1, n - 1)
        /\ memory' = Stored(m, k, 0)
    BY <1>0 DEF Backspace, Retreated
  <1>2. LineTypeOK /\ (orderly => i = n) /\ Idle
    BY <1>0, <1>1 DEF LineInv
  <1>3. /\ i \in Nat /\ i < ByteMod /\ n \in Nat /\ n <= I
        /\ i <= I => Standing = i
        /\ i > I => Standing = 0
        /\ i <= n \/ i > I
    <2>1. /\ i \in Nat /\ i < ByteMod /\ n \in Nat
          /\ i <= I => Standing = i
          /\ ~(i <= I) => Standing = 0
      BY <1>2, LineFacts
    <2>2. n <= I /\ (i <= n \/ i > I)
      BY <1>2 DEF LineTypeOK
    <2>3. I \in Nat
      BY Sizes
    <2> QED  BY ONLY <2>1, <2>2, <2>3
  <1>4. k = IF i = 0 THEN ByteMod - 1 ELSE i - 1
    <2>1. ByteMod \in Nat /\ ByteMod > 0
      BY Sizes
    <2> QED  BY <1>3, <2>1
  <1>5. k \in Nat /\ k \in Bytes /\ 0 \in Bytes
    BY <1>3, <1>4, Sizes
  <1> HIDE DEF k
  <1>6. /\ m \in [Object -> Bytes]
        /\ \A a \in Object : m[a] = IF a = I THEN k ELSE memory[a]
    BY <1>2, <1>5 DEF LineTypeOK
  <1> HIDE DEF m
  <1>7. /\ memory' \in [Object -> Bytes]
        /\ \A a \in Object : memory'[a] = IF a = k THEN 0 ELSE m[a]
    BY <1>1, <1>5, <1>6, StoredCells
  <1>8. i' = IF k = I THEN 0 ELSE k
    <2>1. I \in Object
      BY Sizes
    <2> QED  BY <1>6, <1>7, <2>1 DEF i
  <1>9. /\ typed' \in Seq(Chars)
        /\ Len(typed') = IF n = 0 THEN 0 ELSE n - 1
        /\ \A a \in 1 .. n - 1 : typed'[a] = typed[a]
        /\ typed = <<>> <=> n = 0
    <2>1. typed \in Seq(Chars)
      BY <1>2 DEF LineTypeOK
    <2>2. typed = <<>> <=> n = 0
      BY <2>1, EmptySeq
    <2>3. CASE typed = <<>>
      <3>1. 1 .. n - 1 = {}
        BY <2>2, <2>3
      <3> QED  BY <1>1, <2>1, <2>2, <2>3, <3>1
    <2>4. CASE typed # <<>>
      <3>1. n \in Nat /\ n >= 1
        BY <1>3, <2>2, <2>4
      <3>2. \A a \in 1 .. n - 1 : typed[a] \in Chars
        BY <2>1, <3>1, ElementOfSeq
      <3>3. 1 \in Int /\ n - 1 \in Int
        BY <3>1
      <3>4. /\ SubSeq(typed, 1, n - 1) \in Seq(Chars)
            /\ Len(SubSeq(typed, 1, n - 1)) = IF 1 <= n - 1 THEN n - 1 - 1 + 1 ELSE 0
            /\ \A a \in 1 .. n - 1 - 1 + 1 : SubSeq(typed, 1, n - 1)[a] = typed[1 + a - 1]
        BY <3>2, <3>3, SubSeqProperties
      <3>5. \A b \in Nat : b >= 1 => /\ b - 1 - 1 + 1 = b - 1
                                     /\ (IF 1 <= b - 1 THEN b - 1 - 1 + 1 ELSE 0) = b - 1
        OBVIOUS
      <3>6. \A a \in 1 .. n - 1 : 1 + a - 1 = a
        BY <3>1
      <3>7. /\ Len(SubSeq(typed, 1, n - 1)) = n - 1
            /\ \A a \in 1 .. n - 1 : SubSeq(typed, 1, n - 1)[a] = typed[a]
        BY <3>1, <3>4, <3>5, <3>6
      <3> QED  BY <1>1, <2>2, <2>4, <3>4, <3>7
    <2> QED  BY <2>3, <2>4
  <1>10. \A a \in Int : 0 <= a /\ a < I => memory'[a] = IF a = k THEN 0 ELSE memory[a]
    BY <1>6, <1>7, Places
  <1>11. orderly' => i' = Len(typed')
    <2> SUFFICES ASSUME orderly'
                 PROVE  i' = Len(typed')
      OBVIOUS
    <2>1. i = n /\ n # 0
      BY <1>1, <1>2, <1>9
    <2>2. k = n - 1 /\ k # I
      BY <1>3, <1>4, <2>1, Sizes
    <2> QED  BY <1>8, <1>9, <2>1, <2>2
  <1>12. LineTypeOK'
    <2>1. Len(typed') <= I
      BY <1>3, <1>9, Sizes
    <2>2. i' <= Len(typed') \/ i' > I
      BY <1>3, <1>4, <1>5, <1>8, <1>9, Sizes
    <2>3. orderly' \in BOOLEAN
      BY <1>1, <1>2 DEF LineTypeOK
    <2> QED  BY <1>1, <1>7, <1>9, <2>1, <2>2, <2>3 DEF LineTypeOK, I
  <1>13. CASE i <= I /\ i # 0
    <2>1. k = i - 1 /\ k < I /\ i' = k /\ Standing = i
      BY <1>3, <1>4, <1>8, <1>13, Sizes
    <2>2. Standing' = k
      BY <1>5, <2>1, Sizes DEF Standing
    <2>3. ASSUME NEW a \in 0 .. k - 1
          PROVE  memory'[a] # 0 /\ (orderly' => memory'[a] = typed'[a + 1])
      <3>1. a \in Int /\ 0 <= a /\ a < I /\ a # k /\ a \in 0 .. Standing - 1
        BY <1>5, <2>1, Sizes
      <3>2. memory[a] # 0 /\ (orderly => memory[a] = typed[a + 1])
        BY <1>2, <3>1 DEF Idle, Text
      <3>3. orderly' => a + 1 \in 1 .. n - 1
        BY <1>1, <1>2, <1>3, <1>5, <2>1
      <3> QED  BY <1>1, <1>9, <1>10, <3>1, <3>2, <3>3
    <2>4. ASSUME NEW a \in k .. I - 1
          PROVE  memory'[a] = 0
      <3>1. a \in Int /\ 0 <= a /\ a < I /\ (a = k \/ a \in Standing .. I - 1)
        BY <1>3, <1>5, <2>1, Sizes
      <3> QED  BY <1>2, <1>10, <3>1 DEF Idle, Zero
    <2> QED  BY <1>0, <1>1, <1>11, <1>12, <2>2, <2>3, <2>4
             DEF LineInv, Idle, Text, Zero
  <1>14. CASE ~(i <= I /\ i # 0)
    <2>1. Standing = 0
      BY <1>3, <1>14, Sizes
    <2>2. i' = 0 \/ i' > I
      BY <1>3, <1>4, <1>5, <1>8, <1>14, Sizes
    <2>3. Standing' = 0
      BY <1>5, <1>8, <2>2, Sizes DEF Standing
    <2>4. ASSUME NEW a \in 0 .. I - 1
          PROVE  memory'[a] = 0
      <3>1. a \in Int /\ 0 <= a /\ a < I /\ a \in Standing .. I - 1
        BY <2>1, Sizes
      <3> QED  BY <1>2, <1>10, <3>1 DEF Idle, Zero
    <2>5. 0 .. Standing' - 1 = {}
      BY <2>3
    <2> QED  BY <1>0, <1>1, <1>11, <1>12, <2>3, <2>4, <2>5
             DEF LineInv, Idle, Text, Zero
  <1> QED  BY <1>13, <1>14

(* A step that leaves the characters and their count as they are.          *)
LEMMA TypeStays ==
    ASSUME LineTypeOK, memory' \in [Object -> Bytes], i' = i,
           phase' \in {"idle", "copy", "process", "clear"},
           typed' = typed, orderly' = orderly
    PROVE  LineTypeOK' /\ Standing' = Standing
  <1>1. LineTypeOK'
    BY DEF LineTypeOK, I
  <1>2. Standing' = Standing
    BY DEF Standing, I
  <1> QED  BY <1>1, <1>2

(* Enter ends the string where it ends already.                            *)
LEMMA EnterInv ==
    ASSUME LineInv, Enter
    PROVE  LineInv'
  <1>0. overrun' \in BOOLEAN
    BY DEF Enter, LineInv
  <1> SUFFICES ASSUME ~overrun'
               PROVE  LineInv'
    BY <1>0 DEF LineInv
  <1> DEFINE m == Stored(memory, i, 0)
  <1>1. /\ phase = "idle" /\ phase' = "copy" /\ ~overrun /\ ~(Len(typed) >= Length)
        /\ typed' = typed /\ orderly' = orderly
        /\ memory' = [m EXCEPT ![J] = 0]
    BY DEF Enter
  <1>2. LineTypeOK /\ (orderly => i = Len(typed)) /\ Idle
    BY <1>1 DEF LineInv
  <1>3. /\ i \in Nat /\ Len(typed) \in Nat /\ Len(typed) < Data /\ Standing \in Nat
        /\ i < I \/ i > I
        /\ i < I => Standing = i
        /\ Standing <= Len(typed)
    <2>1. /\ i \in Nat /\ Len(typed) \in Nat /\ Standing \in Nat
          /\ i <= I => Standing = i
          /\ Standing <= Len(typed)
      BY <1>2, LineFacts
    <2>2. i <= Len(typed) \/ i > I
      BY <1>2 DEF LineTypeOK
    <2>3. I \in Nat /\ Data \in Nat /\ Data < I /\ Length = Data
      BY Sizes
    <2> QED  BY ONLY <1>1, <2>1, <2>2, <2>3
  <1>4. 0 \in Bytes
    BY Sizes
  <1>5. /\ m \in [Object -> Bytes]
        /\ \A a \in Object : m[a] = IF a = i THEN 0 ELSE memory[a]
    BY <1>2, <1>3, <1>4, StoredCells DEF LineTypeOK
  <1> HIDE DEF m
  <1>6. /\ memory' \in [Object -> Bytes]
        /\ \A a \in Object : memory'[a] = IF a = J THEN 0 ELSE m[a]
    BY <1>1, <1>4, <1>5
  <1>7. i' = i /\ j' = 0
    <2>1. I \in Object /\ J \in Object /\ I # J /\ I # i
      BY <1>3, Sizes, Places
    <2> QED  BY <1>5, <1>6, <2>1 DEF i, j
  <1>8. \A a \in Int : 0 <= a /\ a < I => memory'[a] = memory[a]
    <2>1. ASSUME NEW a \in Int, 0 <= a, a < I
          PROVE  memory'[a] = memory[a]
      <3>1. a \in Object /\ a # J
        BY <2>1, Places
      <3>2. CASE a = i
        <4>1. a \in Standing .. I - 1
          BY <1>3, <2>1, <3>2, Sizes
        <4> QED  BY <1>2, <1>5, <1>6, <3>1, <3>2, <4>1 DEF Idle, Zero
      <3>3. CASE a # i
        BY <1>5, <1>6, <3>1, <3>3
      <3> QED  BY <3>2, <3>3
    <2> QED  BY <2>1
  <1>9. LineTypeOK' /\ Standing' = Standing
    BY <1>1, <1>2, <1>6, <1>7, TypeStays
  <1>10. Copying'
    <2>1. ASSUME NEW a \in 0 .. Standing - 1
          PROVE  memory'[a] # 0 /\ (orderly' => memory'[a] = typed'[a + 1])
      <3>1. 0 <= a /\ a < I
        BY <1>3, Sizes
      <3> QED  BY <1>1, <1>2, <1>8, <3>1 DEF Idle, Text
    <2>2. ASSUME NEW a \in Standing .. I - 1
          PROVE  memory'[a] = 0
      <3>1. 0 <= a /\ a < I
        BY <1>3, Sizes
      <3> QED  BY <1>2, <1>8, <3>1 DEF Idle, Zero
    <2>3. /\ \A a \in Standing .. Data - 1 : a \in Standing .. I - 1
          /\ \A a \in Data + 0 .. I - 1 : a \in Standing .. I - 1
          /\ 0 .. 0 - 1 = {}
      BY <1>3, Sizes
    <2>4. Text(0)'
      BY <1>9, <2>1 DEF Text
    <2>5. Zero(Standing, Data)' /\ Zero(Data + j, I)'
      BY <1>7, <1>9, <2>2, <2>3 DEF Zero, Data, I
    <2>6. Copied(j)'
      BY <1>7, <2>3 DEF Copied
    <2>7. j' <= Standing'
      BY <1>3, <1>7, <1>9
    <2> QED  BY <2>4, <2>5, <2>6, <2>7 DEF Copying
  <1>11. orderly' => i' = Len(typed')
    BY <1>1, <1>2, <1>7
  <1> QED  BY <1>0, <1>1, <1>9, <1>10, <1>11 DEF LineInv

(* While a line ends its text is shorter than the arrays.                  *)
LEMMA EndingFacts ==
    ASSUME LineInv, ~overrun, phase # "idle"
    PROVE  /\ LineTypeOK /\ (orderly => i = Len(typed)) /\ Len(typed) < Length
           /\ Standing \in Nat /\ Standing < Data /\ j \in Nat
  <1>1. LineTypeOK /\ (orderly => i = Len(typed)) /\ Len(typed) < Length
    BY DEF LineInv
  <1>2. Standing \in Nat /\ Standing <= Len(typed) /\ j \in Nat /\ Len(typed) \in Nat
    BY <1>1, LineFacts
  <1>3. Length = Data /\ Data \in Nat
    BY Sizes
  <1>4. Standing < Data
    BY ONLY <1>1, <1>2, <1>3
  <1> QED  BY <1>1, <1>2, <1>4

(* input[j] can be seen when j has not passed the end.                     *)
LEMMA InputLoaded ==
    ASSUME NEW s \in Nat, s < Data, j \in Nat, j <= s
    PROVE  Loaded(j) = {memory[j]} /\ j \in Object /\ j < I
  <1>1. j < I /\ j \in Object
    BY Sizes
  <1> QED  BY <1>1 DEF Loaded

(* A character is copied.                                                  *)
LEMMA CopyInv ==
    ASSUME LineInv, Copy
    PROVE  LineInv'
  <1>0. overrun' = overrun /\ overrun \in BOOLEAN
    BY DEF Copy, LineInv
  <1> SUFFICES ASSUME ~overrun'
               PROVE  LineInv'
    BY <1>0 DEF LineInv
  <1>1. /\ phase = "copy" /\ phase' = "copy" /\ ~overrun
        /\ typed' = typed /\ orderly' = orderly
    BY <1>0 DEF Copy
  <1>2. Copying
    BY <1>1 DEF LineInv
  <1>3. /\ LineTypeOK /\ (orderly => i = Len(typed)) /\ Len(typed) < Length
        /\ Standing \in Nat /\ Standing < Data /\ j \in Nat /\ j <= Standing
    BY <1>1, <1>2, EndingFacts DEF Copying
  <1>4. Loaded(j) = {memory[j]} /\ j \in Object /\ j < I
    BY <1>3, InputLoaded
  <1> DEFINE v == memory[j]
             m == Stored(memory, Data + j, v)
  <1>5. v # 0 /\ memory' = Incremented(m, J) /\ v \in Bytes
    BY <1>3, <1>4 DEF Copy, LineTypeOK
  <1>6. j < Standing
    <2>1. j # Standing
      <3>1. Standing \in Standing .. Data - 1
        BY <1>3, Sizes
      <3> QED  BY <1>2, <1>5, <3>1 DEF Copying, Zero
    <2> QED  BY <1>3, <2>1
  <1> HIDE DEF v
  <1>7. Data + j \in Int
    BY <1>3, Sizes
  <1>8. /\ m \in [Object -> Bytes]
        /\ \A a \in Object : m[a] = IF a = Data + j THEN v ELSE memory[a]
    <2>1. memory \in [Object -> Bytes]
      BY <1>3 DEF LineTypeOK
    <2> QED  BY <1>5, <1>7, <2>1, StoredCells
  <1> HIDE DEF m
  <1>9. J \in Object /\ I \in Object /\ I # J /\ Data + j # J /\ Data + j # I
    BY <1>3, Sizes
  <1>10. /\ memory' \in [Object -> Bytes]
         /\ \A a \in Object : a # J => memory'[a] = m[a]
         /\ memory'[J] = IF m[J] + 1 = ByteMod THEN 0 ELSE m[J] + 1
    BY <1>5, <1>8, <1>9, IncrementedCells
  <1>11. i' = i
    BY <1>8, <1>9, <1>10 DEF i
  <1>12. j' = j + 1
    <2>1. m[J] = j
      BY <1>8, <1>9 DEF j
    <2>2. j + 1 # ByteMod
      BY <1>3, Sizes
    <2>3. j' = memory'[J]
      BY DEF j
    <2> QED  BY <1>10, <2>1, <2>2, <2>3
  <1>13. \A a \in Int : 0 <= a /\ a < I => memory'[a] = IF a = Data + j THEN v ELSE memory[a]
    BY <1>8, <1>10, Places
  <1>14. LineTypeOK' /\ Standing' = Standing
    BY <1>1, <1>3, <1>10, <1>11, TypeStays
  <1>15. \A a \in Int : 0 <= a /\ a < Data => memory'[a] = memory[a]
    <2>1. \A a \in Int : 0 <= a /\ a < Data => a < I /\ a # Data + j
      BY <1>3, Sizes
    <2> QED  BY <1>13, <2>1
  <1>16. Text(0)'
    <2>1. ASSUME NEW a \in 0 .. Standing - 1
          PROVE  memory'[a] # 0 /\ (orderly' => memory'[a] = typed'[a + 1])
      <3>1. 0 <= a /\ a < Data
        BY <1>3, Sizes
      <3> QED  BY <1>1, <1>2, <1>15, <3>1 DEF Copying, Text
    <2> QED  BY <1>14, <2>1 DEF Text
  <1>17. Zero(Standing, Data)'
    <2>1. ASSUME NEW a \in Standing .. Data - 1
          PROVE  memory'[a] = 0
      <3>1. 0 <= a /\ a < Data
        BY <1>3, Sizes
      <3> QED  BY <1>2, <1>15, <3>1 DEF Copying, Zero
    <2> QED  BY <1>14, <2>1 DEF Zero, Data
  <1>18. Copied(j)'
    <2>1. ASSUME NEW a \in 0 .. j
          PROVE  memory'[Data + a] = memory'[a]
      <3>1. /\ a \in Int /\ 0 <= a /\ a < Data /\ Data + a \in Int /\ 0 <= Data + a
            /\ Data + a < I /\ (a = j \/ (a \in 0 .. j - 1 /\ Data + a # Data + j))
        BY <1>3, <1>6, Sizes
      <3>2. memory'[a] = memory[a]
        BY <1>15, <3>1
      <3>3. CASE a = j
        BY <1>13, <3>1, <3>2, <3>3 DEF v
      <3>4. CASE a \in 0 .. j - 1 /\ Data + a # Data + j
        <4>1. memory'[Data + a] = memory[Data + a]
          BY <1>13, <3>1, <3>4
        <4> QED  BY <1>2, <3>2, <3>4, <4>1 DEF Copying, Copied
      <3> QED  BY <3>1, <3>3, <3>4
    <2>2. 0 .. j' - 1 = 0 .. j
      BY <1>3, <1>12
    <2> QED  BY <2>1, <2>2 DEF Copied, Data
  <1>19. Zero(Data + j, I)'
    <2>1. ASSUME NEW a \in Data + j' .. I - 1
          PROVE  memory'[a] = 0
      <3>1. /\ a \in Int /\ 0 <= a /\ a < I /\ a # Data + j /\ a \in Data + j .. I - 1
        BY <1>3, <1>12, Sizes
      <3> QED  BY <1>2, <1>13, <3>1 DEF Copying, Zero
    <2> QED  BY <2>1 DEF Zero, Data, I
  <1>20. j' <= Standing'
    BY <1>3, <1>6, <1>12, <1>14
  <1>21. Copying'
    BY <1>16, <1>17, <1>18, <1>19, <1>20 DEF Copying
  <1>22. (orderly' => i' = Len(typed')) /\ Len(typed') < Length
    BY <1>1, <1>3, <1>11
  <1> QED  BY <1>0, <1>1, <1>14, <1>21, <1>22 DEF LineInv

(* The copy is over: all that stands was copied.                           *)
LEMMA CopyEndsInv ==
    ASSUME LineInv, CopyEnds
    PROVE  LineInv'
  <1>0. overrun' = overrun /\ overrun \in BOOLEAN
    BY DEF CopyEnds, LineInv
  <1> SUFFICES ASSUME ~overrun'
               PROVE  LineInv'
    BY <1>0 DEF LineInv
  <1>1. /\ phase = "copy" /\ phase' = "process" /\ ~overrun
        /\ memory' = memory /\ typed' = typed /\ orderly' = orderly /\ 0 \in Loaded(j)
    BY <1>0 DEF CopyEnds
  <1>2. Copying
    BY <1>1 DEF LineInv
  <1>3. /\ LineTypeOK /\ (orderly => i = Len(typed)) /\ Len(typed) < Length
        /\ Standing \in Nat /\ Standing < Data /\ j \in Nat /\ j <= Standing
    BY <1>1, <1>2, EndingFacts DEF Copying
  <1>4. memory[j] = 0
    BY <1>1, <1>3, InputLoaded
  <1>5. j = Standing
    <2>1. ~(j \in 0 .. Standing - 1)
      BY <1>2, <1>4 DEF Copying, Text
    <2> QED  BY <1>3, <2>1
  <1>6. Processing
    BY <1>2, <1>5 DEF Copying, Processing
  <1>7. i' = i
    BY <1>1 DEF i
  <1>8. LineTypeOK' /\ Standing' = Standing
    BY <1>1, <1>3, <1>7, TypeStays DEF LineTypeOK
  <1>9. Processing'
    BY <1>1, <1>6, <1>8 DEF Processing, Text, Zero, Copied, Data, I
  <1> QED  BY <1>0, <1>1, <1>3, <1>7, <1>8, <1>9 DEF LineInv

(* processdata only reads, and j is set back.                              *)
LEMMA ProcessInv ==
    ASSUME LineInv, Process
    PROVE  LineInv'
  <1>0. overrun' = overrun /\ overrun \in BOOLEAN
    BY DEF Process, LineInv
  <1> SUFFICES ASSUME ~overrun'
               PROVE  LineInv'
    BY <1>0 DEF LineInv
  <1>1. /\ phase = "process" /\ phase' = "clear" /\ ~overrun
        /\ memory' = [memory EXCEPT ![J] = 0] /\ typed' = typed /\ orderly' = orderly
    BY <1>0 DEF Process
  <1>2. Processing
    BY <1>1 DEF LineInv
  <1>3. /\ LineTypeOK /\ (orderly => i = Len(typed)) /\ Len(typed) < Length
        /\ Standing \in Nat /\ Standing < Data
    BY <1>1, EndingFacts
  <1>4. memory \in [Object -> Bytes] /\ 0 \in Bytes /\ J \in Object /\ I \in Object /\ I # J
    BY <1>3, Sizes DEF LineTypeOK
  <1>5. memory' \in [Object -> Bytes] /\ i' = i /\ j' = 0
    BY <1>1, <1>4 DEF i, j
  <1>6. \A a \in Int : 0 <= a /\ a < I => memory'[a] = memory[a]
    BY <1>1, <1>4, Places
  <1>7. LineTypeOK' /\ Standing' = Standing
    BY <1>1, <1>3, <1>5, TypeStays
  <1>8. Text(0)'
    <2>1. ASSUME NEW a \in 0 .. Standing - 1
          PROVE  memory'[a] # 0 /\ (orderly' => memory'[a] = typed'[a + 1])
      <3>1. 0 <= a /\ a < I
        BY <1>3, Sizes
      <3> QED  BY <1>1, <1>2, <1>6, <3>1 DEF Processing, Text
    <2> QED  BY <1>7, <2>1 DEF Text
  <1>9. \A a \in Standing .. Data - 1 : memory'[a] = 0
    <2>1. \A a \in Standing .. Data - 1 : a \in Int /\ 0 <= a /\ a < I
      BY <1>3, Sizes
    <2> QED  BY <1>2, <1>6, <2>1 DEF Processing, Zero
  <1>10. \A a \in Data + Standing .. I - 1 : memory'[a] = 0
    <2>1. \A a \in Data + Standing .. I - 1 : a \in Int /\ 0 <= a /\ a < I
      BY <1>3, Sizes
    <2> QED  BY <1>2, <1>6, <2>1 DEF Processing, Zero
  <1>11. 0 .. 0 - 1 = {} /\ Data .. Data + 0 - 1 = {}
    BY Sizes
  <1>12. Text(j)'
    BY <1>5, <1>8 DEF Text
  <1>13. Zero(0, j)' /\ Zero(Data, Data + j)'
    BY <1>5, <1>11 DEF Zero, Data
  <1>14. Zero(Standing, Data)' /\ Zero(Data + Standing, I)'
    BY <1>7, <1>9, <1>10 DEF Zero, Data, I
  <1>15. j' <= Standing'
    BY <1>3, <1>5, <1>7
  <1>16. Clearing'
    BY <1>12, <1>13, <1>14, <1>15 DEF Clearing
  <1>17. (orderly' => i' = Len(typed')) /\ Len(typed') < Length
    BY <1>1, <1>3, <1>5
  <1> QED  BY <1>0, <1>1, <1>7, <1>16, <1>17 DEF LineInv

(* One place of both strings is cleared, and j stays clear of the stores.  *)
LEMMA ClearInv ==
    ASSUME LineInv, Clear
    PROVE  LineInv'
  <1>0. overrun' = overrun /\ overrun \in BOOLEAN
    BY DEF Clear, LineInv
  <1> SUFFICES ASSUME ~overrun'
               PROVE  LineInv'
    BY <1>0 DEF LineInv
  <1>1. /\ phase = "clear" /\ phase' = "clear" /\ ~overrun /\ Loaded(j) # {0}
        /\ typed' = typed /\ orderly' = orderly /\ memory' = Incremented(Blanked, J)
    BY <1>0 DEF Clear
  <1>2. Clearing
    BY <1>1 DEF LineInv
  <1>3. /\ LineTypeOK /\ (orderly => i = Len(typed)) /\ Len(typed) < Length
        /\ Standing \in Nat /\ Standing < Data /\ j \in Nat /\ j <= Standing
    BY <1>1, <1>2, EndingFacts DEF Clearing
  <1>4. Loaded(j) = {memory[j]} /\ j \in Object /\ j < I
    BY <1>3, InputLoaded
  <1>5. j < Standing
    <2>1. memory[j] # 0
      BY <1>1, <1>4
    <2>2. j # Standing
      <3>1. Standing \in Standing .. Data - 1
        BY <1>3, Sizes
      <3> QED  BY <1>2, <2>1, <3>1 DEF Clearing, Zero
    <2> QED  BY <1>3, <2>2
  <1> DEFINE first == Stored(memory, j, 0)
             both == Stored(first, Data + j, 0)
  <1>6. /\ J \in Object /\ I \in Object /\ I # J /\ Data + j # J /\ Data + j # I
        /\ j # J /\ j # I /\ Data + j \in Int /\ j \in Int /\ 0 \in Bytes
    BY <1>3, Sizes
  <1>7. /\ first \in [Object -> Bytes]
        /\ \A a \in Object : first[a] = IF a = j THEN 0 ELSE memory[a]
    <2>1. memory \in [Object -> Bytes]
      BY <1>3 DEF LineTypeOK
    <2> QED  BY <1>6, <2>1, StoredCells
  <1>8. first[J] = j
    BY <1>6, <1>7 DEF j
  <1>9. Blanked = both
    BY <1>8 DEF Blanked
  <1> HIDE DEF first
  <1>10. /\ both \in [Object -> Bytes]
         /\ \A a \in Object : both[a] = IF a = Data + j THEN 0 ELSE first[a]
    BY <1>6, <1>7, StoredCells
  <1> HIDE DEF both
  <1>11. /\ memory' \in [Object -> Bytes]
         /\ \A a \in Object : a # J => memory'[a] = both[a]
         /\ memory'[J] = IF both[J] + 1 = ByteMod THEN 0 ELSE both[J] + 1
    BY <1>1, <1>6, <1>9, <1>10, IncrementedCells
  <1>12. i' = i
    BY <1>6, <1>7, <1>10, <1>11 DEF i
  <1>13. j' = j + 1
    <2>1. both[J] = j
      BY <1>6, <1>8, <1>10
    <2>2. j + 1 # ByteMod
      BY <1>3, Sizes
    <2>3. j' = memory'[J]
      BY DEF j
    <2> QED  BY <1>11, <2>1, <2>2, <2>3
  <1>14. \A a \in Int : 0 <= a /\ a < I =>
             memory'[a] = IF a = j \/ a = Data + j THEN 0 ELSE memory[a]
    BY <1>7, <1>10, <1>11, Places
  <1>15. LineTypeOK' /\ Standing' = Standing
    BY <1>1, <1>3, <1>11, <1>12, TypeStays
  <1>16. Text(j)'
    <2>1. ASSUME NEW a \in j + 1 .. Standing - 1
          PROVE  memory'[a] # 0 /\ (orderly' => memory'[a] = typed'[a + 1])
      <3>1. 0 <= a /\ a < I /\ a # j /\ a # Data + j /\ a \in j .. Standing - 1
        BY <1>3, Sizes
      <3> QED  BY <1>1, <1>2, <1>14, <3>1 DEF Clearing, Text
    <2> QED  BY <1>13, <1>15, <2>1 DEF Text
  <1>17. Zero(0, j)'
    <2>1. ASSUME NEW a \in 0 .. j' - 1
          PROVE  memory'[a] = 0
      <3>1. 0 <= a /\ a < I /\ (a = j \/ a \in 0 .. j - 1)
        BY <1>3, <1>13, Sizes
      <3> QED  BY <1>2, <1>14, <3>1 DEF Clearing, Zero
    <2> QED  BY <2>1 DEF Zero
  <1>18. Zero(Standing, Data)'
    <2>1. ASSUME NEW a \in Standing .. Data - 1
          PROVE  memory'[a] = 0
      <3>1. 0 <= a /\ a < I
        BY <1>3, Sizes
      <3> QED  BY <1>2, <1>14, <3>1 DEF Clearing, Zero
    <2> QED  BY <1>15, <2>1 DEF Zero, Data
  <1>19. Zero(Data, Data + j)'
    <2>1. ASSUME NEW a \in Data .. (Data + j') - 1
          PROVE  memory'[a] = 0
      <3>1. /\ a \in Int /\ 0 <= a /\ a < I
            /\ a = Data + j \/ a \in Data .. (Data + j) - 1
        BY <1>3, <1>13, Sizes
      <3>2. \A b \in Data .. (Data + j) - 1 : memory[b] = 0
        BY <1>2 DEF Clearing, Zero
      <3> QED  BY <1>14, <3>1, <3>2
    <2> QED  BY <2>1 DEF Zero, Data
  <1>20. Zero(Data + Standing, I)'
    <2>1. ASSUME NEW a \in Data + Standing .. I - 1
          PROVE  memory'[a] = 0
      <3>1. 0 <= a /\ a < I
        BY <1>3, Sizes
      <3> QED  BY <1>2, <1>14, <3>1 DEF Clearing, Zero
    <2> QED  BY <1>15, <2>1 DEF Zero, Data, I
  <1>21. j' <= Standing'
    BY <1>3, <1>5, <1>13, <1>15
  <1>22. Clearing'
    BY <1>16, <1>17, <1>18, <1>19, <1>20, <1>21 DEF Clearing
  <1>23. (orderly' => i' = Len(typed')) /\ Len(typed') < Length
    BY <1>1, <1>3, <1>12
  <1> QED  BY <1>0, <1>1, <1>15, <1>22, <1>23 DEF LineInv

(* The loop that clears has reached the end: nothing is left in the arrays.*)
LEMMA ClearEndsInv ==
    ASSUME LineInv, ClearEnds
    PROVE  LineInv'
  <1>0. overrun' = overrun /\ overrun \in BOOLEAN
    BY DEF ClearEnds, LineInv
  <1> SUFFICES ASSUME ~overrun'
               PROVE  LineInv'
    BY <1>0 DEF LineInv
  <1>1. /\ phase = "clear" /\ phase' = "idle" /\ ~overrun /\ 0 \in Loaded(j)
        /\ memory' = [memory EXCEPT ![I] = 0] /\ typed' = <<>> /\ orderly' = TRUE
    BY <1>0 DEF ClearEnds
  <1>2. Clearing
    BY <1>1 DEF LineInv
  <1>3. /\ LineTypeOK /\ Standing \in Nat /\ Standing < Data
        /\ j \in Nat /\ j <= Standing
    BY <1>1, <1>2, EndingFacts DEF Clearing
  <1>4. j = Standing
    <2>1. memory[j] = 0
      BY <1>1, <1>3, InputLoaded
    <2>2. ~(j \in j .. Standing - 1)
      BY <1>2, <2>1 DEF Clearing, Text
    <2> QED  BY <1>3, <2>2
  <1>5. memory \in [Object -> Bytes] /\ 0 \in Bytes /\ I \in Object
    BY <1>3, Sizes DEF LineTypeOK
  <1>6. memory' \in [Object -> Bytes] /\ i' = 0
    BY <1>1, <1>5 DEF i
  <1>7. Standing' = 0
    BY <1>6, Sizes DEF Standing
  <1>8. ASSUME NEW a \in 0 .. I - 1
        PROVE  memory'[a] = 0
    <2>1. a \in Int /\ 0 <= a /\ a < I
      BY Sizes
    <2>2. memory'[a] = memory[a]
      BY <1>1, <1>5, <2>1, Places
    <2>3. \/ a \in 0 .. j - 1 \/ a \in Standing .. Data - 1
          \/ a \in Data .. (Data + j) - 1 \/ a \in Data + Standing .. I - 1
      BY <1>3, <1>4, <2>1, Sizes
    <2>4. /\ \A b \in 0 .. j - 1 : memory[b] = 0
          /\ \A b \in Standing .. Data - 1 : memory[b] = 0
          /\ \A b \in Data .. (Data + j) - 1 : memory[b] = 0
          /\ \A b \in Data + Standing .. I - 1 : memory[b] = 0
      BY <1>2 DEF Clearing, Zero
    <2> QED  BY <2>2, <2>3, <2>4
  <1>9. typed' \in Seq(Chars) /\ Len(typed') = 0
    BY <1>1
  <1>10. LineTypeOK'
    <2>1. Len(typed') <= I
      BY <1>9, Sizes
    <2>2. i' <= Len(typed')
      BY <1>6, <1>9
    <2> QED  BY <1>1, <1>6, <1>9, <2>1, <2>2 DEF LineTypeOK, I
  <1>11. 0 .. 0 - 1 = {}
    OBVIOUS
  <1>12. Text(0)'
    BY <1>7, <1>11 DEF Text
  <1>13. Zero(Standing, I)'
    BY <1>7, <1>8 DEF Zero, I
  <1>14. Idle'
    BY <1>12, <1>13 DEF Idle
  <1> QED  BY <1>0, <1>1, <1>6, <1>9, <1>10, <1>14 DEF LineInv

(* Every step of the handler keeps the invariant.                          *)
LEMMA LineNextInv ==
    ASSUME LineInv, [LineNext]_lineVars
    PROVE  LineInv'
  <1>1. CASE UNCHANGED lineVars
    BY <1>1 DEF lineVars, LineInv, LineTypeOK, Idle, Copying, Processing, Clearing,
                Text, Zero, Copied, Standing, Data, I, i, j
  <1>2. CASE \E c \in Chars : TypeChar(c)
    BY <1>2, TypeCharInv
  <1>3. CASE Backspace
    BY <1>3, BackspaceInv
  <1>4. CASE Enter
    BY <1>4, EnterInv
  <1>5. CASE Copy
    BY <1>5, CopyInv
  <1>6. CASE CopyEnds
    BY <1>6, CopyEndsInv
  <1>7. CASE Process
    BY <1>7, ProcessInv
  <1>8. CASE ProcessHangs
    BY <1>1, <1>8 DEF ProcessHangs
  <1>9. CASE Clear
    BY <1>9, ClearInv
  <1>10. CASE ClearEnds
    BY <1>10, ClearEndsInv
  <1> QED  BY <1>1, <1>2, <1>3, <1>4, <1>5, <1>6, <1>7, <1>8, <1>9, <1>10
           DEF LineNext, EndOfLine

(* What the arrays hold, and how far the end of a line has got, agree in   *)
(* every state (kernel.cpp:137-169).                                       *)
THEOREM LineInvariance == LineSpec => []LineInv
  <1>1. LineInv /\ [LineNext]_lineVars => LineInv'
    BY LineNextInv
  <1> QED  BY LineInitInv, <1>1, PTL DEF LineSpec

(* The command that processdata gets is the line as the user left it       *)
(* (kernel.cpp:143-166).                                                   *)
THEOREM CommandAlwaysTyped == LineSpec => []CommandIsTyped
  <1>1. LineInv => CommandIsTyped
    <2> SUFFICES ASSUME LineInv, phase = "process", orderly, ~overrun
                 PROVE  /\ \A k \in 1 .. Len(typed) : memory[Data + k - 1] = typed[k]
                        /\ memory[Data + Len(typed)] = 0
      BY DEF CommandIsTyped
    <2>1. Processing
      BY DEF LineInv
    <2>2. /\ LineTypeOK /\ i = Len(typed) /\ Len(typed) < Length
          /\ Standing \in Nat /\ Standing < Data
      BY EndingFacts
    <2>3. Standing = Len(typed)
      <3>1. Len(typed) \in Nat /\ Length < I
        BY <2>2, LineFacts, Sizes
      <3>2. Len(typed) <= I
        BY <2>2 DEF LineTypeOK
      <3> QED  BY <2>2, <3>2 DEF Standing
    <2>4. ASSUME NEW k \in 1 .. Standing
          PROVE  memory[Data + k - 1] = typed[k]
      <3>1. k - 1 \in 0 .. Standing - 1 /\ Data + (k - 1) = Data + k - 1 /\ k - 1 + 1 = k
        BY <2>2, Sizes
      <3>2. memory[Data + (k - 1)] = memory[k - 1]
        BY <2>1, <3>1 DEF Processing, Copied
      <3>3. memory[k - 1] = typed[k - 1 + 1]
        BY <2>1, <3>1 DEF Processing, Text
      <3> QED  BY <3>1, <3>2, <3>3
    <2>5. memory[Data + Standing] = 0
      <3>1. Data + Standing \in Data + Standing .. I - 1
        BY <2>2, Sizes
      <3> QED  BY <2>1, <3>1 DEF Processing, Zero
    <2> QED  BY <2>3, <2>4, <2>5
  <1> QED  BY LineInvariance, <1>1, PTL
=============================================================================
