# NugaOS in TLA+

Specifications of the NugaOS kernel, checked with TLC and proved with TLAPS.
Paths are relative to the repository; line numbers are those of the commit
beside which this directory is kept. `PROJECT.json` maps every definition to
the lines it stands for.

## 1. Inventory

NugaOS is a 32-bit x86 kernel in C++. `kernelMain` (`src/kernel.cpp`) constructs
everything once, activates interrupts and idles; from then on the system is
driven by interrupts.

| component | state | operations | who calls it |
|---|---|---|---|
| memory manager (`src/memorymanagement.cpp`) | a doubly linked list of chunks in the heap | `malloc`, `free`, `operator new/delete` | kernelMain, the network layers; no lock |
| scheduler (`src/multitasking.cpp`) | array of 256 tasks, `numTasks`, `currentTask`, each task's saved context | `AddTask`, `Schedule` | kernelMain, the timer interrupt |
| interrupt dispatch (`src/hardwarecommunication/interrupts.cpp`) | IDT, table of 256 handlers, the active manager | `Activate`, `Deactivate`, `DoHandleInterrupt`, handler registration | the stubs, kernelMain, drivers' constructors |
| interrupt stubs (`interruptstubs.s`) | the frame on the interrupted stack | push, switch stack, pop, `iret` | the CPU |
| GDT, boot, ports (`gdt.cpp`, `loader.s`, `port.cpp`) | descriptor table | encode, decode | kernelMain |
| console and shell (`src/kernel.cpp`) | text buffer and cursor, input line of 100 characters, mouse cursor | `printf`, `OnKeyDown`, `OnMouseMove`, calculator | keyboard and mouse interrupts, kernelMain |
| keyboard, mouse drivers (`drivers/keyboard.cpp`, `mouse.cpp`) | packet of 3 bytes with its offset, buttons; the controller's command byte, which both change | `Activate`, `HandleInterrupt` | driver manager, interrupt dispatch |
| driver manager, PCI (`drivers/driver.cpp`, `hardwarecommunication/pci.cpp`) | array of drivers; the machine's configuration space | `AddDriver`, `ActivateAll`, `SelectDrivers` | kernelMain |
| network card (`drivers/amd_am79c973.cpp`) | two rings of 8 descriptors shared with the card | `Send`, `Receive`, `HandleInterrupt` | interrupt dispatch, network layers |
| Ethernet, ARP, IPv4, ICMP (`src/net`) | handler tables; ARP cache of 128 entries | dispatch by type, `Resolve`, `Send`, reply in place | the card's interrupt, the layers above |
| UDP, TCP (`net/udp.cpp`, `net/tcp.cpp`) | table of sockets, next free port; per socket state, peer, two sequence numbers, handler | incoming segment, `Connect`, `Listen`, `Bind`, `Send`, `Disconnect` | IPv4, inside an interrupt; threads |
| GUI (`src/gui`) | tree of widgets, focus, mouse position, dragging | mouse and keyboard events, `Draw` | mouse and keyboard interrupts, kernelMain |
| VGA (`drivers/vga.cpp`) | the card's registers and its pixels | `SetMode`, `PutPixel`, `FillRectangle` | kernelMain, `Draw` |
| ATA, system calls | a disk's registers; none | read, write, flush; print | nobody |

The Makefile links neither `net/*` nor `ata`, `syscalls` and `calc`, and the
card's driver has its call of `Receive` commented out; the code is complete all
the same and is modelled as it is written.

**How they interact.** Everything after boot is a thread (kernelMain or a task)
interrupted by a gate that disables interrupts until `iret`. Handlers run to
their end on the interrupted stack and call upwards synchronously: dispatch,
driver, Ethernet, IPv4, TCP, application, and back down to send. The only
concurrency is a thread against the interrupts that split it, and both against
devices, the controllers and the network. There is no lock anywhere.

**What is hard.** Interrupts between two steps of a thread's call (the socket
table, `Activate`); an interrupt handler that waits for another interrupt (ARP,
`Send` in a handler); acknowledging the right controller under spurious
interrupts and cascading; contexts filed under the wrong task; the arithmetic
of the chunk list at its boundaries; lost, repeated and overtaken segments;
wrapping numbers and counters; buffers at their limit; devices that answer when
they like on a port that two drivers read; exceptions whose frame differs by a
word; the order of drawing against the order in which a click is handed on.
`PROJECT.json` lists these hazards at their lines, with the property that covers
each one, or the reason why none does yet.

**What makes each component correct.** Memory: blocks in use lie in the heap
and never overlap; free memory is coalesced; everything freed is recovered.
Scheduler: each context resumes its own task where it stopped; nobody starves.
Dispatch: what is served is acknowledged on its chips, no request is lost,
devices and tasks are served. TCP: one connection for a pair of ends, bytes in
order and once, numbers that agree, closes that end, no reset without cause.
Network card: each direction is a queue, no descriptor is lost, and no frame is
spoilt, which the code's overlapping buffers do not give. Network
layers: an address is resolved before a packet leaves and for good, nobody waits
for ever without a cause. UDP: a flow keeps its socket and a socket its peer.
Console: text, marker and mouse share the screen without traces of each other.
Shell: a command is executed as it was typed and returns; its answers should be
right, and are not.
Stubs: every interrupt returns to the code that it interrupted, with its
registers. Drivers: one for each card; bytes are taken for what they are, keys
once and in order, and neither device blocks the other. Graphics: the mode is set
whatever state the card was in. GUI: what is seen is what a click reaches, keys
go where the user clicked, a window moves with the pointer and is let go.

## 2. Modules

| module | models | kind |
|---|---|---|
| `Heap` | what an allocator promises: held blocks, apart and inside | abstract specification |
| `MemoryManager` | `memorymanagement.cpp`, every call one action | detailed; implements `Heap` |
| `TaskManager` | `multitasking.cpp` and the tick that drives it | detailed |
| `InterruptManager` | `interrupts.cpp` with two cascaded 8259 controllers and devices | EXTENDS and implements `TaskManager` |
| `Tcp` | `net/tcp.cpp` against arbitrary segments | detailed |
| `TcpPeer` | `Tcp` composed with an RFC 793 peer over a faulty network | composition |
| `FrameQueue` | what each direction of a card promises: frames once, in order, and intact unless they share memory | abstract specification |
| `EtherCard` | `amd_am79c973.cpp` and the card on both rings | detailed; implements `FrameQueue` twice |
| `Network` | `etherframe.cpp`, `arp.cpp`, `ipv4.cpp`, `icmp.cpp` with hosts and a network | detailed, on top of two queues of frames |
| `Udp` | `udp.cpp` against arbitrary datagrams | detailed |
| `Console` | `printf` and `MouseToConsole` of `kernel.cpp` on one video memory | detailed |
| `LineEditor` | `PrintfKeyboardEventHandler` of `kernel.cpp`, the shell's input line | detailed |
| `Calculator` | `processdata` of `kernel.cpp` and the calculator behind it | detailed, against arithmetic |
| `InterruptStubs` | `interruptstubs.s` word by word, the descriptor table, a task's first frame | detailed |
| `Pci` | `pci.cpp` and `driver.cpp` on machines with cards | detailed |
| `InputDrivers` | `keyboard.cpp` and `mouse.cpp` with their controller | EXTENDS `Pci`, which boots before it |
| `Vga` | `vga.cpp` and the card's registers | detailed |
| `Gui` | `widget.cpp`, `window.cpp`, `desktop.cpp` | EXTENDS `Vga`, whose mode is set before it and whose rectangles it draws |
| `Kept` | the elements of a sequence that are in a set, for what `EtherCard` and `InputDrivers` promise | operator |
| `MC*` | instances for TLC; `MCKernel`, `MCShell`, `MCUserInterface`, `MCNetwork` and `MCEtherCard` choose one of several parts at the start | |
| `Kernel_proofs` | about `InterruptStubs` and `MemoryManager` | theorems |
| `InterruptManager_proofs` | about `TaskManager` and `InterruptManager` | theorems |
| `Input_proofs` | about `Pci`, `InputDrivers` and `LineEditor` | theorems |
| `EtherCard_proofs` | about `EtherCard` and its two queues | theorems |
| `Network_proofs` | about `Network` and `Udp` | theorems |
| `Tcp_proofs` | about `Tcp` and `TcpPeer` | theorems |
| `UserInterface_proofs` | about `Console`, `Gui`, `Vga` and `Calculator` | theorems |
| `SequenceLemmas` | least numbers, strong induction, division, `Append`, `\o`, `Tail`, `Kept` | lemmas |

**MemoryManager.** `chunk` is the list: header address to its fields `next`,
`prev`, `allocated`, `size`. `malloc` is three actions, one per outcome
(`MallocSplit`, `MallocWhole`, `MallocFails`), each the whole function. `free`
does both merges in the code's order. `live` is history: what callers hold.
Callers free only what they got, once; `free(0)` and double frees are outside
the model because no caller does either.

**TaskManager.** A context is whose code it resumes, where, and its interrupt
flag. `Tick` is the timer branch of `DoHandleInterrupt` with `Schedule` inside
it; `Execute` is an instruction of the running thread; `progress` is history.

**InterruptManager.** A vector goes through the phases entered, master, slave,
return, so that devices raise and withdraw lines between the handler's call and
the two acknowledgements; interrupts stay disabled meanwhile, as the gates do.
`Activate` and `Deactivate` are split into their machine steps, because an
interrupt can come between clearing the active manager and `cli`. The
controllers are external: edge triggered, fully nested, with the spurious
vectors 7 and 15.

**Tcp.** `Receive` is `OnInternetProtocolReceived` from the search to the last
answer, one action: it runs with interrupts disabled. A thread's call is split
where an interrupt finds the socket half updated: `Connect`, then `ConnectSend`;
`Send` (the last look at the state), then `SendSegment`; `Disconnect`, then
`DisconnectSend`, then `DisconnectCount`. `Listen` leaves the remote end and both
numbers to whatever the memory held, as the constructor does. The payload is
abstracted to the place of its last byte that is not zero, which is all the
provider looks at; the application is a handler that accepts, refuses, replies
or disconnects. `Spins` is the loop in `Send`.

**TcpPeer.** One socket, opened by either side; the peer numbers its bytes from
1, retransmits when nothing is under way, acknowledges as RFC 793 asks. `Fault`
loses, repeats or lets one segment overtake the rest.

**EtherCard.** A descriptor is its owner (the bit `OWN`), the frame in its buffer,
and whether that is intact. The buffers are declared `sendBuffers[2*1024+15][8]`
and `recvBuffers[2*1024+15][8]` (`amd_am79c973.h:71, 76`), which makes rows of 8
bytes out of what was meant as eight buffers of 2063: descriptor *i* points to the
first multiple of 16 behind row *i* (`amd_am79c973.cpp:94, 100`), so that all
eight begin within 64 bytes, most of them two at one address. Memory is therefore counted in
lines of 16 bytes: `Place` is where a buffer begins, `Lines` what a frame takes
there, and every write spoils each other frame of the ring that has one of its
lines (`Overwritten`). A frame that is shorter than the distance is safe in one
order; any two frames of more than 64 bytes overlap.
A thread's `Send` is split at its second statement, where `currentSendBuffer` may
be advanced from the value already read or from the one in memory, and in its
copy, which goes from the last line to the first; a `Send` inside the interrupt is
one step. A frame arrives in two steps: `CardBegins` writes it, `CardReceive` hands
the descriptor over. `Receive` hands a frame up, lets the handler write into it and
send, may send the frame back in its own buffer, and only then frees the
descriptor. The driver's interrupt has its call of `Receive` commented out
(`amd_am79c973.cpp:150`), so the steps of `Receive` are what it does if it is
called, and nothing is promised that needs the call: received frames stay in the
ring for ever. With the call restored as it stands, the status read at line 144 and
written back at 155 would clear the request of a frame that arrived after the loop
of `Receive` and before the write. `Damaged` frames stand for ERR and for
frames in several buffers. The two `FrameQueue`s are read off the rings: the frames
between the card's place and the driver's. Their promise of intact frames holds
while no two of a ring overlap (`crowded`), which with the code's
declarations two long frames always do.

**Network.** A frame is its hardware addresses, its kind, and its two IP
addresses. `Begin`, `Ask`, `Resolved` and `Emit` are a thread's `Send` with the
waiting `Resolve` in it; `ReceiveFrame` is everything that one received frame
sets off, from the check of its destination to the answer, be it in place (ARP,
ICMP) or a transport layer's `Send`, which hangs inside the handler when the
address is not in the cache. Hosts answer requests, send unasked, and may change
their cards.

**Udp.** `Receive` is the search for a datagram's socket with the binding of a
listening one to its sender; `Header` is the two ends that `Send` writes. The code
has no check that its table is full (`udp.cpp:125, 147`): the 65536th socket is
stored behind it. `MaxSockets` is where the model ends (`WithinModel`), not
a guard of the code, and nothing is claimed of the table's length.
`flows` is history: the socket that had a flow's first datagram.

**Console.** A cell is a character and its two colours. `Printed` is the body of
`printf`'s loop in the code's order: erase the marker, write, draw the marker,
wrap, clear a full screen; as all its variables are static and it runs inside
interrupts after boot, a string is its characters one by one. The mouse takes
any offset that a packet can hold, and its place wraps as an `int8_t` before it
is clamped.

**LineEditor.** No index of the handler is checked, so its object is modelled as
its bytes: `input`, `data`, `i` and `j` one behind the other, where a store to
`input[k]` may hit any of them. What is behind the object belongs to other
objects: a store there is lost, a load gives any byte. The end of a line is
byte by byte (`Copy`, `Clear`), since the loops may not end. The object begins as
zeros, an assumption: it has no initialiser, but it lies in `kernelMain`'s frame
on a stack in `.bss`, of which only the few bytes at the top were in use before.
`typed`, `orderly` and `overrun` are history.

**Calculator.** A command is its first word and what follows it. `Search` is the
loop of `commalocator`, an index at a time, as it may not end; the loops of
`termone`, `termtwo`, `chartoint` and `inttostring` are functions on sequences,
as they do. Neither the array of a term nor that of the printed digits is
terminated: what follows in them is what the stack held, so that a conversion
gives the number or any other. `clean` is history: no such read went wrong.
A term longer than its array overwrites a frame; what comes then is left open
(`lost`). The result is computed modulo 2^16. `AnswerIsRight` is what the printed
texts announce, and the code does not do it; `NoOtherFault` names the three
causes (`len` is one short, the digits come out last first, 0 has none) and says
that there is no other.

**InterruptStubs.** A stack is a sequence of words that say what they are and
whose. `Enter` is the processor, which pushes an error code for some exceptions
only; `Filler` is what the two macros do about it; `Stub` and `Restore` push and
pop. `TaskFrame` is what the constructor of `Task` writes below the top of its
stack. `left` is history: registers and place where each thread was left. The
module also has what the comment at `interruptstubs.s:120` leaves out: an
exception without an error code drops the return address in place of it, and
its `iret` faults again and again. A division by zero in the shell does so.

**Pci.** A machine is a sequence of slots, each empty or with functions; one
step is one pass of the innermost loop of `SelectDrivers`. `Constructed` is the
constructor of the driver, which takes its interrupt line over, and `AddDriver`.
`PortBase` may be any port where the code reads a base address register that
the header does not have, or none is for I/O: the result is not initialised.

**InputDrivers.** `ActivateAll` runs with interrupts disabled, but devices go on
meanwhile: its accesses to the controller are steps. The external controller has
one byte waiting at most, of either device or an answer; its command byte
enables devices and interrupts. `Latch` is the request of an interrupt by a byte
that begins to wait, taken back or not when the byte is read before. No code
waits for the answer it reads, and the keyboard's handler does not look whose
byte it reads; `blind` is history and says that such a read found another's byte
or none, after which the properties promise nothing. Bit 5 of the status is taken
to be clear when no byte waits: `mouse.cpp:69` does not test bit 0, which says so.

**Vga.** A step is a write of `WriteRegisters` with its index. The card starts in
any state of its lock and of the port that takes index and data in turns.
`Visited` is the loop of `FillRectangle` with its unsigned comparison.

**Gui.** The desktop, its windows and plain widgets in them, each event one step
through all levels. `FirstAt` and `InnerAt` are the two searches for a child;
`MovedPlaces` the two loops of a movement. `Shows` is read off the order in which
`Draw` paints. `clicked` is history. A window that is behind another may go on
following the pointer after a release over the one in front, and a window whose
place is negative is hit and not drawn: both are the code's, and the properties
say so.

## 3. Runs

| run | instance and bounds | shows |
|---|---|---|
| `kernel` | heap of 14 bytes, header of 2, sizes 0 to 5; 3 tasks, 3 slots, programs of 2 instructions; 3 stacks, 7 vectors | five chunks are enough for a free with merges on no, one and both sides and for fits that are exact, one byte too large and one too small for a split; any selection of tasks with ticks anywhere; exceptions with and without an error code, the timer, another interrupt, a system call, an ignored vector, in any order on any stack |
| `interrupt_manager` | timer, line 1, line 8, 2 tasks, 2 activations | a line of each chip and the timer above both; a second activation, which no code does but the class allows |
| `interrupt_handover` | the same | violation: `HardwareInterruptsAcknowledged` as the comment states it |
| `tcp` | 2 sockets, 2 peers, ports 80 and 1024, one sequence number | port 1024 is the one that Connect picks first; with one number every segment is in order, which only adds behaviours |
| `tcp_peer` | 2 data segments of 2 bytes, one `Send`, one fault; numbers wrap at 42 with the ISN 40, at 2^32 in the code | handshakes, both directions of data, all closes, each with one fault at any place |
| `tcp_zero_byte` | the same without faults, segments that end in a zero byte | violation: a reset although nothing was lost or reordered |
| `ether_card` | rings of 2 descriptors, 8 in the code, with two good frames and a damaged one of one and two lines; buffers for sending a line apart, for receiving at the same one | each ring empty, half full and full, each order of two different frames, frames that overlap in one order only and in both, writes between a copy's lines; longer rings add only distance between the driver's and the card's place |
| `network` | a gateway, a host beside it, one behind it; a cache of 2 entries; 2 frames each way, one sent unasked, one lost or one card changed; or 3 UDP sockets, 2 peers, 4 ports | resolution with the cache empty, with one entry and full; a response that was not asked for; a thread that waits while frames are answered; all orders of Connect and Listen, three sockets of which two can share a port, and a port counter that wraps |
| `user_interface` | a screen of 4 by 2 characters, an 8-bit mouse scaled to 8 values; or 4 by 2 pixels, two windows that overlap with three widgets, room for two of three windows, two buttons, moves of one pixel back, one and two forward, and none | the marker at the end of a row, of the screen and behind it; moves that wrap; windows dragged over each other, off the screen and back, released over another; the card with its lock and its port in each state |
| `shell` | arrays of 3 bytes and bytes of 9 values, 100 and 256 in the code; terms of at most 3 binary digits, words of 3 bits, a term's array of 3, 10 decimal digits in 10 and 16 bits in the code | lines that fit, that run into `data` and are shortened again, that reach `i`; backspaces on an empty line until the index is back at 0; every operation on every pair of terms, with and without comma, with characters that are no digits, with results that wrap |
| `calculator` | the same with one command, 1 + 1 | violation: `AnswerIsRight`, the answer is 1 |
| `drivers` | a machine with an empty slot, a device of two functions of which one is a card on the mouse's line, and a card of one function with two ports; two keys, two packets, two command bytes left by the loader | each way to miss an answer, both devices sending at any time of boot and after, a line that was taken over |

`kernel`, `shell`, `user_interface`, `network` and `ether_card` look at several
parts that share no state in one instance: `part` says which one moves, so that
their state spaces add and do not multiply, and a property of a part is checked over
all behaviours of that part. In `ether_card` the two rings meet only in `Receive`:
one part has the receive ring alone with every frame and every write of a
handler, the other all that sends, with short frames arriving, one at a time while
a thread is in `Send`; after an overrun of the send ring it stops, as the promise does.

Deadlock is checked wherever the system cannot stop. TCP may: a handler may
spin for ever in `Send`, and a connection comes to rest; so may the network
layers, whose handler may hang in `Resolve`, UDP, where the model ends with a full table, and the
input drivers, when no more keys are pressed.

**Fairness.** The dispatcher's run assumes that the timer never stops, that the
service of a vector goes on (it runs with interrupts disabled), and that a line
selected again and again is taken while interrupts are enabled again and again (strong
fairness, since higher lines disable the choice). `TcpPeer` assumes that what
arrived is processed on both sides and that a thread is not stopped for ever in
the middle of a call; it does not assume that anybody opens, sends, closes or
retransmits. `EtherCard` assumes that the card goes on with the descriptors it
owns, and nothing of `Receive`, which nobody calls; a thread inside `Send` needs
strong fairness, since the interrupt's handler takes the processor
from it again and again but not for ever. `Network` assumes that frames that
arrived are handled, that hosts answer, and that a waiting thread runs; not that
anybody sends. `LineEditor` and `Calculator` assume that the interrupt handler
goes on. `InputDrivers` assumes that boot goes on, that the controller hands over
what it has, and that requests are taken; not that anybody types. The rest has no
liveness.

**Findings.** Three runs end in a violation of what a comment or a message says:

- `interrupt_handover`: "hardware interrupts must be acknowledged"
  (`interrupts.cpp:209`). A second `Activate` clears the active manager before
  `cli`; an interrupt in between is never acknowledged and its line, with all
  of lower priority, is blocked. `SingleActivationAcknowledges` proves that
  kernelMain's single activation never meets this.
- `tcp_zero_byte`: "data in wrong order" (`tcp.cpp:230`). The acknowledgement
  number advances to the last byte that is not zero; after data that ends in a
  zero byte the next segment, in order, is answered with RST.
- `calculator`: "Calculating the length of command...", "Performing addition
  operation...", "Answer: " (`kernel.cpp:222, 447, 450`). `len` returns one less than
  the length, so the second term loses its last digit, and 1 + 1 is answered with 1.
  The digits of every answer are printed last first, and for 0 there are none.

A fourth defect contradicts no text and so has no run of its own: the overlapping
buffers of the network card, which `EtherCard` models as they are.

## 4. Proofs

All theorems hold for every value of the constants under their ASSUMEs, which
TLC evaluates in the runs. Each is listed in `PROJECT.json` with the property
that it states. Every safety property that a passing run checks is proved, four of
them under an assumption named below.

**Kernel_proofs: MemoryManager** (heap, header and sizes arbitrary). `IInv` joins
types, the doubly linked tiling, coalescing and what callers hold. The tiling
cannot be proved from the list alone: the invariant says locally that each chunk
ends where its `next` begins and that `prev` is its inverse, and that the chunks
are the only ones. `SplitLinked` and `AbsorbLinked` show that the two changes of
the list keep it, each rewriting one chunk and its neighbours. The refinement
`Implementation` follows step by step from the same invariant.

**Kernel_proofs: InterruptStubs** (threads, vectors and depth of the stacks
arbitrary). `FramesReturn` is about the moment of `iret`; that the frame is right
then has to be known since it was pushed. `StubInv` therefore says for every thread
that is not running that the stack which its stub left behind holds a whole frame,
with the registers that history kept, and for the running one how much of its frame
is there in each step of the stub. `Normal` bounds the claim: where a stub counts on
an error code that the processor did not push, the frame is a word short.

**InterruptManager_proofs: TaskManager** (tasks and array arbitrary). `TaskInv`
says that every saved context is its task's own and exact; `ContextsAlwaysIntact`
is the safety that matters, `KernelMainStaysDropped` an action property from it.

**InterruptManager_proofs: InterruptManager** (lines, tasks and activations
arbitrary). Every step of the dispatcher is a step of the scheduler or a stutter
(`ImplementsScheduler`), so the scheduler's theorems carry over. The
acknowledgement theorems need to know what is in service in each phase
(`ServiceInv`) and how far `Activate` has come (`BootInv`).

**Tcp_proofs: Tcp** (peers, ports, sockets, modulus and segments arbitrary).
Uniqueness of connections is not inductive: a socket that takes a peer must know
that no socket behind it already has that peer. `FirstListens` says that while a
socket listens none behind it with the same port has a peer; this holds because the
search takes the first match. `ActivePorts` says that Connect never repeats a
port, from the injectivity of the byte swap and `MaxSocketsAssumption`, which
keeps the 16-bit counter from wrapping.

**Tcp_proofs: TcpPeer** (length of the data, calls of `Send`, faults and modulus
arbitrary). A step of the composition is one of `Tcp` (`PeerImplementsTcp`), so
that `TcpInv` holds in it. Three invariants rest on each other:

- `LinkInv` holds whatever the network does: what is under way in either direction
  is about this connection; nothing acknowledges a socket without a peer; a socket
  waits in `FIN_WAIT1` or `FIN_WAIT2`, and a call of `Send` spins, only after a
  Disconnect. `OnlyDisconnectHangs` is a part of it.
- `FlowInv` is about a connection without fault and without Disconnect. It is in one
  of few phases (`Listening`, `Calling`, `Answering`, `Flow`), and in the last one
  the segments under way lead without a gap from the number that one side expects to
  the number that the other will use next (`UpFrom`, `DownFrom`). `OnlyCauseResets`,
  `NumbersAlwaysAgree` and `CloseAlwaysComplete` follow: a reset needs a number that
  is not the expected one.
- `OrderInv` covers either faults or a Disconnect, in any number: in each state of
  the socket it gives the reason why no data can be out of order. Either the number
  expected is one more than the bytes delivered (`InStep`), or the peer's FIN was
  taken and no data with that number is under way (`Finished`), or the connection
  was disconnected before it was open (`Stillborn`), or the peer has been told to
  give up. `EverythingInOrder` needs all three invariants.

`PeerAssumption` says that the peer's numbers do not reach the modulus: in the code
two gigabytes and more on one connection are left out. The last four theorems assume
`DataEnd = DataSize`, that no data ends in a zero byte; without it they are false,
as the run `tcp_zero_byte` shows. The three invariants were checked by TLC on the
instance of the run `tcp_peer` before they were proved.

**EtherCard_proofs** (rings of any size, any frames and sizes, buffers wherever the
array begins). `IInv` joins the types with two facts: while a handler runs
its descriptor is the driver's, and the frame is as it was handed up unless one with a
line in common has arrived (`Held`), and every descriptor that the driver reads has
a frame (`Frameful`). `HandledFrameHeld` is a part of it. For the two
refinements of `FrameQueue` the invariants `SendInv` and `RecvInv` say that the
descriptors which are claimed, or which are the driver's, are a run along the ring
that starts at one side's place and ends at the other's (`Filled`): the content of
the queue is then that run, a step at either end is a step of the queue, and every
other step a stutter, or one that spoils frames. A write into shared memory
changes the content of the queue only in `intact` (`Resembles`), and only if two
of its frames overlap (`Worn`), which is what `FrameQueue` allows. For `Send` a thread that was split at its first two
statements must have read a value that is still right. `SendInv` stops at the first
overrun, as the refinement does: `SendIsQueue` promises the order up to it.
The places are numbers modulo the size, whose lemmas (`AtDist`, `FilledPlaces`)
carry the proof.

**Network_proofs: Network** (hosts, addresses, cache, traffic and faults
arbitrary). That every frame leaves for its next hop needs an invariant over all that
can carry a hardware address: the cache, the thread, and the frames of both
directions each hold, for an IP address, only an address that its next hop has had
(`Entries`, `ThreadOK`, `Arrivals`, `Departures`). `Wider` says that those sets only
grow when a card changes. `ResolutionIsFinal` rests on `LookupStays`: a cache that
grows at its end answers as before.

**Network_proofs: Udp** (peers, ports and number of sockets arbitrary). `Owns` says that a
flow's socket matches it and none before it does; sockets that are opened later come
behind it, and a socket that a datagram binds had no flow.

**Input_proofs: Pci** (machines with any number of slots, functions and registers).
`PciInv` says that the drivers were found in the order in which the loops pass the
functions, each before the place where the loops are now; so none is found twice
(`OneDriverAlways`).

**Input_proofs: InputDrivers** (packets, keys, command bytes and their number
arbitrary). `PacketsAlwaysAligned` needs an invariant over all of the mouse's bytes:
what it has still to send follows the byte that waits in the controller, which is
the part that `offset` expects (`AlignInv`), in each step of boot and after it.
`KeyInv` is the same for the keyboard, without positions: the codes typed are those
that the handler heard followed by those that wait and those that are to be sent,
of the keys that have a character. Both stop where `blind` says that
a read at boot took another's byte.

**Input_proofs: LineEditor** (arrays of any length). `LineInv` says of every byte of
the object what it holds in each phase: between lines `input` holds what was typed
and zeros behind; while the loops run, how far `data` is a copy (`Copying`) or
`input` is clear again (`Clearing`). After more backspaces than characters the index
is beyond both arrays and nothing stands in them (`Standing`). The invariant ends
with a line that overruns `input`, where `CommandIsTyped` promises nothing either.

**UserInterface_proofs** (screen, colours, windows, widgets, movements and the
table of the mode arbitrary). `InvertedAt` says of all of video memory which cell
is inverted; every write of `printf` keeps it, and a movement takes it along. That
the cursor is back on the screen after a character needs the states within it
(`Printing`): the column may be one too far, the row too, never both. The marker
needs them as well: when it is erased nothing is left from the cursor on (`Blank`),
a character moves that place by one cell or to the next row, and wrapping does not
change the cell. On the desktop, `DesktopInv` is inductive as the properties
stand, since the searches find the window in front first wherever it lies; that
nothing moves twice follows because the second search may only find another
window, which has not moved. `ShownIsAlwaysHit` is no induction: a rectangle is
painted where it is hit (`PaintedIsHit`), so that the last rectangle painted at a
pixel is the first child the search finds. It needs `InsideAssumption`, that
widgets lie in their windows, since `Draw` does not clip and a click does.
`ModeInv` says how far the registers agree with the table, and that the controller
is unlocked when its turn comes.

**UserInterface_proofs: Calculator** (base, width of numbers, sizes of arrays and
commands arbitrary). `CalcInv` says how far a command has got: the search has not
passed the comma, and each term that was converted is the value of its numeral
modulo the word. The rest is about the conversions, which are recursive functions:
`CharToInt` shows that the loop over the digits, with its remainder at each step, ends
in the value modulo the word (`HornerModulo`), and `IntToString` that the digits
printed, read backwards, are the number again, with no zero in front.
`CalculatorHasNoOtherFault` puts them together with the four operations
(`ResultIs`). It is a theorem about wrong answers: that they are wrong by the three
faults that it names, and by nothing else.

**Induction.** The library's induction theorems have an operator as a parameter,
which the provers cannot instantiate. `SequenceLemmas` goes round it with sets: a
nonempty set of the places where a claim fails has a least element (`LeastNat`, from
the well-foundedness of strict inclusion on finite sets), so a claim that passes
from all smaller places to the next holds everywhere (`StrongInduction`), two
functions made by the same recursion are one (`SameUpTo`), and a recursion has a
solution (`Recursion`).

**Only model-checked**: liveness (`TasksRun`, `DevicesServed`, `PeerCloses`,
`SendSlotsComeBack`, `SendEnds`, `BytesTaken`, `CommandsEnd`, `CommandReturns`), since
TLAPS 1.4 handles neither ENABLED nor fairness. The other way round, the
type invariants of the modules with proofs, `KernelMainDropped`, `NoAdjacentFree`,
`LiveIsAllocated`, `LiveUntouched`, `CurrentRuns` and `MissedOnlyInHandover` are
proved for all constants and have no run of their own.

## 5. Not modelled

- **GDT, boot**: descriptors encoded once from constants before interrupts exist,
  and one sequence of constructors, whose order the initial states and the boot
  steps of `Pci`, `InputDrivers`, `Gui` and `InterruptManager` follow.
- **Port I/O**: instructions without state; each model takes a port's access for
  what the device behind it does.
- **ATA, system calls**: neither has a caller or is linked. The disk's driver spins
  on a status that only the disk changes; int 0x80 itself is a vector of
  `InterruptManager` and `InterruptStubs`, and its handler only prints.

Out of the models: `malloc` returning 0 inside the network layers, two threads
inside one provider, an interrupt inside `malloc`; lengths and checksums of
packets, and so IPv4's computation of a payload's length; the cut of frames over
1518 bytes and the status register of the card; what an overlong term of the calculator overwrites, and the digits that it
prints of arrays it did not fill; `inttostring32` and `calc.cpp`, which nothing
calls; an event between two rectangles of `Draw`, which may show a window at two
places until it is drawn again; colours. `Network` stands on queues of frames
rather than on the rings. `EtherCard` shows that a ring is one in which frames keep
their order and number while Send is not overrun, but that only frames that do not
overlap, and so no two long ones, are intact: what `Network` shows of frames in a row holds once the
buffers are declared as they were meant, or, where it lets frames get lost, of
those that are not spoilt.

## 6. Plan

1. *Done*: every part with state that the kernel reaches or the network code
   describes, its safety properties checked and proved, and both refinements.
2. Proofs: the types of `TcpPeer` that `LinkInv` does not hold; an abstract
   specification of a stream of bytes for `TcpPeer`, of which `EverythingInOrder` is
   the core, and the step from one socket to several.
3. `malloc` and `free` split at each access to the list, against a handler that
   calls them in between: the one interleaving that no module has yet.
4. `Draw` rectangle by rectangle against events.
