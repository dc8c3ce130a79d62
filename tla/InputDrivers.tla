---------------------------- MODULE InputDrivers ----------------------------
(***************************************************************************)
(* The keyboard's and the mouse's drivers, keyboard.cpp and mouse.cpp,     *)
(* from ActivateAll on, which calls the Activate of each driver with       *)
(* interrupts disabled.                                                    *)
(*                                                                         *)
(* Both share a controller, which is external: one byte at a time waits at *)
(* its data port, the answer to a command or a byte of one of the devices. *)
(* An interrupt is requested when a byte begins to wait whose bit of the   *)
(* command byte is set; a read takes the request back or comes too late.   *)
(* Answers take any time.  A read with nothing there gives the last byte   *)
(* again.  Commands are taken to be accepted at once.                      *)
(*                                                                         *)
(* No Activate waits for what it asked for, and the keyboard's handler     *)
(* does not look whose byte waits: blind says that such a read found       *)
(* another's byte, or none.                                                *)
(***************************************************************************)
EXTENDS Pci, Kept

CONSTANTS CommandBytes,  \* that the loader may leave in the controller
          Codes,         \* that the keyboard sends: of keys pressed, released
          Packets,       \* that the mouse sends: three bytes
          MaxKeys, MaxPackets

Byte == 0 .. 255
ACK == 250

ASSUME BytesAssumption == CommandBytes \subseteq Byte /\ Codes \subseteq Byte
ASSUME PacketsAssumption == Packets \subseteq [1 .. 3 -> Byte]
ASSUME BoundsAssumption == MaxKeys \in Nat /\ MaxPackets \in Nat

VARIABLES
    command,    \* the controller's command byte
    output,     \* what waits at its data port: <<>> or <<byte>>
    last,       \* the last byte read there
    answer,     \* the answer it has not given yet: <<>> or <<byte>>
    keys, mouse,  \* bytes that the devices send next
    reporting,  \* the mouse was told to send packets
    pc,         \* where kernelMain is
    buffer, offset, buttons,  \* the mouse driver's
    pressed, heard,  \* history: codes of keys, and those that OnKeyDown got
    packets,    \* history: how many packets were sent
    requests,   \* lines whose interrupt is requested
    blind       \* history: a read that did not look found something else

controllerVars == <<command, output, last, answer>>
driverVars == <<buffer, offset, buttons, heard>>
inputVars == <<pciVars, controllerVars, keys, mouse, reporting, pc, driverVars,
               pressed, packets, requests, blind>>

(* A byte, its source, and a packet's byte's place in it.                  *)
From(source, value, part) == [source |-> source, value |-> value, part |-> part]

InputInit ==
    /\ PciInit
    /\ command \in CommandBytes
    /\ output = <<>> /\ last = From("keyboard", ACK, 0) /\ answer = <<>>
    /\ keys = <<>> /\ mouse = <<>> /\ reporting = FALSE
    /\ pc = "select"
    /\ buffer = [k \in 0 .. 2 |-> From("none", 0, 0)]
    /\ offset = 0 /\ buttons = 0
    /\ pressed = <<>> /\ heard = <<>> /\ packets = 0
    /\ requests = {} /\ blind = FALSE

(* The bits of the command byte: interrupts of both, both off.             *)
KeyboardInterrupt == 0
MouseInterrupt == 1
KeyboardOff == 4
MouseOff == 5

Bit(v, n) == (v \div 2^n) % 2 = 1
With(v, n) == IF Bit(v, n) THEN v ELSE v + 2^n
Without(v, n) == IF Bit(v, n) THEN v - 2^n ELSE v

(* The lines that the controller raises.                                   *)
Lines(out, bits) ==
    {line \in {KeyboardLine, MouseLine} :
        /\ out # <<>>
        /\ Bit(bits, IF line = MouseLine THEN MouseInterrupt ELSE KeyboardInterrupt)
        /\ (Head(out).source = "mouse") = (line = MouseLine)}

(* Requests after a step that takes some of them.                          *)
Latch(taken) ==
    LET before == Lines(output, command)
        after == Lines(output', command')
        raised == (requests \ taken) \union (after \ before)
    IN  requests' \in {raised, raised \ (before \ after)}

-----------------------------------------------------------------------------
(* The devices and the controller.                                         *)
PressKey(code) ==
    /\ Len(pressed) < MaxKeys
    /\ pressed' = Append(pressed, code)
    /\ keys' = Append(keys, From("keyboard", code, 0))
    /\ UNCHANGED <<pciVars, controllerVars, mouse, reporting, pc, driverVars,
                   packets, blind>>

MovePacket(packet) ==
    /\ reporting /\ packets < MaxPackets
    /\ packets' = packets + 1
    /\ mouse' = mouse \o [k \in 1 .. 3 |-> From("mouse", packet[k], k)]
    /\ UNCHANGED <<pciVars, controllerVars, keys, reporting, pc, driverVars,
                   pressed, blind>>

Offer ==
    /\ output = <<>>
    /\ \/ /\ answer # <<>>
          /\ output' = answer /\ answer' = <<>>
          /\ UNCHANGED <<keys, mouse>>
       \/ /\ keys # <<>> /\ ~Bit(command, KeyboardOff)
          /\ output' = <<Head(keys)>> /\ keys' = Tail(keys)
          /\ UNCHANGED <<answer, mouse>>
       \/ /\ mouse # <<>> /\ ~Bit(command, MouseOff)
          /\ output' = <<Head(mouse)>> /\ mouse' = Tail(mouse)
          /\ UNCHANGED <<answer, keys>>
    /\ UNCHANGED <<pciVars, command, last, reporting, pc, driverVars, pressed,
                   packets, blind>>

(* What dataport.Read() gives, and what it leaves.                         *)
Reading == IF output = <<>> THEN last ELSE Head(output)
Read == output' = <<>> /\ last' = Reading

(* A read that takes what is there for a byte of this source.              *)
ReadAs(source) ==
    /\ Read
    /\ blind' = (blind \/ output = <<>> \/ Reading.source # source)

-----------------------------------------------------------------------------
Goes(from, to) == pc = from /\ pc' = to

SelectAll ==
    /\ pc = "select"
    /\ SelectDrivers
    /\ UNCHANGED <<controllerVars, keys, mouse, reporting, pc, driverVars,
                   pressed, packets, blind>>

(* KeyboardDriver::Activate: keys that were pressed before it are dropped, *)
(* until none waits; then 0xAE and 0x20.                                   *)
Drain ==
    /\ Selected /\ pc = "select" /\ output # <<>>
    /\ Read
    /\ pressed' = Tail(pressed)
    /\ UNCHANGED <<pciVars, command, answer, keys, mouse, reporting, pc,
                   driverVars, packets, blind>>

Ask(from, to, bit) ==
    /\ Selected /\ Goes(from, to)
    /\ command' = Without(command, bit)
    /\ answer' = <<From("controller", command', 0)>>
    /\ UNCHANGED <<pciVars, output, last, keys, mouse, reporting, pressed,
                   packets, blind>>

KeyboardAsks ==
    /\ output = <<>>
    /\ Ask("select", "keyboardSets", KeyboardOff)
    /\ UNCHANGED driverVars

(* The answer is read at once, changed, and written back.                  *)
Set(from, to, status) ==
    /\ Goes(from, to)
    /\ ReadAs("controller")
    /\ command' = status
    /\ UNCHANGED <<pciVars, answer, mouse, driverVars, pressed, packets>>

(* Then 0xF4, which the keyboard acknowledges.                             *)
KeyboardSets ==
    /\ Set("keyboardSets", "mouseAsks",
           Without(With(Reading.value, KeyboardInterrupt), KeyboardOff))
    /\ keys' = Append(keys, From("keyboard", ACK, 0))
    /\ UNCHANGED reporting

(* MouseDriver::Activate: 0xA8, 0x20.                                      *)
MouseAsks ==
    /\ Ask("mouseAsks", "mouseSets", MouseOff)
    /\ offset' = 0 /\ buttons' = 0
    /\ UNCHANGED <<buffer, heard>>

(* Mutant of Enabled: its bit is taken for the keyboard's.                 *)
EnabledKeyboard(v) == With(v, KeyboardInterrupt)

Enabled(v) == With(v, MouseInterrupt)

MouseSets ==
    /\ Set("mouseSets", "mouseStarts", Enabled(Reading.value))
    /\ UNCHANGED <<keys, reporting>>

(* 0xD4 and 0xF4: the mouse acknowledges, then sends.                      *)
MouseStarts ==
    /\ Goes("mouseStarts", "mouseReads")
    /\ reporting' = TRUE
    /\ mouse' = Append(mouse, From("mouse", ACK, 0))
    /\ UNCHANGED <<pciVars, controllerVars, keys, driverVars, pressed, packets,
                   blind>>

(* A last read, and interrupts.Activate().                                 *)
MouseReads ==
    /\ Goes("mouseReads", "running")
    /\ ReadAs("mouse")
    /\ UNCHANGED <<pciVars, command, answer, keys, mouse, reporting, driverVars,
                   pressed, packets>>

Boot ==
    \/ SelectAll \/ Drain \/ KeyboardAsks \/ KeyboardSets
    \/ MouseAsks \/ MouseSets \/ MouseStarts \/ MouseReads

-----------------------------------------------------------------------------
(* An interrupt, whose handler a card's driver may have taken over.        *)
Served(line) == drivers[handlers[line]].port = 0
Interrupt(line) == pc = "running" /\ line \in requests

(* The codes in the switch, of keys that have a character.                 *)
Typed == (2 .. 14) \union (16 .. 28) \union (30 .. 39) \union {41} \union
         (44 .. 53) \union {57}

(* KeyboardDriver::HandleInterrupt: other codes are printed, or ignored.   *)
KeyboardInterrupts ==
    /\ Interrupt(KeyboardLine) /\ Served(KeyboardLine)
    /\ ReadAs("keyboard")
    /\ heard' = IF Reading.value \in Typed THEN Append(heard, Reading.value)
                ELSE heard
    /\ UNCHANGED <<pciVars, command, answer, keys, mouse, reporting, pc, buffer,
                   offset, buttons, pressed, packets>>

(* Mutant of IsMine: the status is not looked at.                          *)
IsMineUnchecked == TRUE

(* Bit 5 of the status.                                                    *)
IsMine == output # <<>> /\ Reading.source = "mouse"

(* Mutant of NextOffset: a packet has four bytes.                          *)
NextOffsetLate == (offset + 1) % 4

NextOffset == (offset + 1) % 3

(* MouseDriver::HandleInterrupt.  With a packet complete it reports the    *)
(* movement, and each of buttons that differs from before.                 *)
MouseInterrupts ==
    /\ Interrupt(MouseLine) /\ Served(MouseLine)
    /\ IF IsMine
       THEN /\ Read
            /\ buffer' = [buffer EXCEPT ![offset] = Reading]
            /\ offset' = NextOffset
            /\ buttons' = IF offset' = 0 THEN buffer'[0].value ELSE buttons
       ELSE UNCHANGED <<output, last, buffer, offset, buttons>>
    /\ UNCHANGED <<pciVars, command, answer, keys, mouse, reporting, pc, heard,
                   pressed, packets, blind>>

(* A card's handler looks at its card only.                                *)
CardInterrupts(line) ==
    /\ Interrupt(line) /\ ~Served(line)
    /\ UNCHANGED <<pciVars, controllerVars, keys, mouse, reporting, pc,
                   driverVars, pressed, packets, blind>>

InputNext ==
    \/ Boot /\ Latch({})
    \/ Offer /\ Latch({})
    \/ \E code \in Codes : PressKey(code) /\ Latch({})
    \/ \E packet \in Packets : MovePacket(packet) /\ Latch({})
    \/ KeyboardInterrupts /\ Latch({KeyboardLine})
    \/ MouseInterrupts /\ Latch({MouseLine})
    \/ \E line \in {KeyboardLine, MouseLine} : CardInterrupts(line) /\ Latch({line})

(* The controller hands over what it has, kernelMain goes on, and requests *)
(* are taken.                                                              *)
InputSpec ==
    /\ InputInit /\ [][InputNext]_inputVars
    /\ WF_inputVars(Boot /\ Latch({}))
    /\ WF_inputVars(Offer /\ Latch({}))
    /\ WF_inputVars(KeyboardInterrupts /\ Latch({KeyboardLine}))
    /\ WF_inputVars(MouseInterrupts /\ Latch({MouseLine}))

-----------------------------------------------------------------------------
(* While no blind read went wrong, the mouse's handler takes each byte for *)
(* what it is in its packet of three, also with keys between them and with *)
(* the acknowledgements of Activate; nothing would ever align it again     *)
(* (mouse.cpp:48-65, 67-101).                                              *)
PacketsAligned ==
    ~blind =>
        /\ \A k \in 0 .. 2 :
               buffer[k].source # "none" =>
                   buffer[k].source = "mouse" /\ buffer[k].part = k + 1
        /\ buttons # 0 => \E packet \in Packets : buttons = packet[1]

(* While no blind read went wrong, the shell hears the keys that were      *)
(* typed since Activate, once and in their order: no release, no byte of   *)
(* the mouse and no acknowledgement, and none is lost on the way           *)
(* (keyboard.cpp:40-146, mouse.cpp:70).                                    *)
KeysInOrder ==
    ~blind =>
        LET typed == Kept(pressed, Typed)
        IN  /\ IsPrefix(heard, typed)
            /\ output = <<>> /\ keys = <<>> => heard = typed

(* Every byte is taken in the end, so that neither device blocks the other *)
(* for ever: Activate leaves both enabled, with their interrupts, if no    *)
(* blind read went wrong, and no card has their lines                      *)
(* (keyboard.cpp:40-52, mouse.cpp:48-65, interrupts.cpp:15).               *)
BytesTaken ==
    [](pc = "running" =>
           <>(output = <<>> \/ blind
              \/ \E line \in {KeyboardLine, MouseLine} : ~Served(line)))
=============================================================================
