# A TLA+ model of CppStation

CppStation is a PlayStation emulator in C++ (`src/CppStation`). It has one
thread: `main()` calls `Cpu::runNextInstruction()` for ever and looks at the
window every 1,000,000 instructions. What makes it hard to get right is not
concurrency between threads. It is the state that survives from one instruction
to the next (two delay slots, a mode stack, a half received GPU command, a DMA
channel being set up register by register) and the fact that any program may
drive it through any order of legal steps.

The repository has no tests. The comments in the source are its only
documentation of what the code should do, apart from a README that lists what is
implemented.

## The system

| Component | State | Operations | What makes it correct |
|---|---|---|---|
| CPU interpreter (`cpu/cpu.cpp`) | `mPc`, `mNextPc`, `mCurrentPc`, two register files, the pending load, HI, LO, SR, CAUSE, EPC, `mBranch`, `mDelaySlot` | fetch, one handler per opcode, `exception` | control flow through both delay slots, loads land one instruction late, a trap can be returned from, the mode stack, exact arithmetic, isolation of the cache |
| Bus (`bus.cpp`) | owner of the memories and devices | loads and stores by width, dispatched by address; `setDmaReg`; `doDma` | each address reaches its device; a DMA start is noticed whatever register completes it |
| DMA controller (`memory/dma.cpp`) | base, block control and control of seven channels, the interrupt register | register reads and writes, `active`, `done`, `transferSize` | a transfer moves the words it was told to move and no others, and ends |
| GPU (`gpu/gpu.cpp`) | the drawing and display registers, the command buffer, the count of words the command still expects, the mode of GP0 | `gp0`, `gp1`, `status` | each command runs on its own words, images swallow theirs, STATUS shows the settings made last but for those decoded from the wrong bit, a reset leaves nothing behind |
| Renderer (`gpu/opengl/renderer.cpp`) | the vertex buffers and how full they are | `pushTriangle`, `pushQuad`, `draw`, `display` | no vertex lost or repeated when the buffer fills, only whole triangles drawn |
| Memory map (`memory/map.*`) | none | `maskRegion`, `Range::contains` | regions mirror, ranges do not overlap |
| RAM, BIOS (`memory/ram.cpp`, `bios.cpp`) | bytes | loads and stores of three widths, reading the BIOS file | little endian; a BIOS that does not load is not run |
| Window, shaders (`gpu/opengl/`) | GLFW, OpenGL objects, the size of the window | start-up and shutdown, each step of which may fail; `resizeCallback` | what was created is released, in order; OpenGL is never called without a context |
| Input (`ui/input.cpp`) | arrays of keys and buttons, the place of the mouse | GLFW callbacks | the callbacks leave what the user has |
| Main loop (`main.cpp`) | the count of instructions, `shouldClose` | batches of 1,000,000 instructions, a poll, a look at the window | a window that is closed ends the process |
| Result type, helpers, backtrace | the signal handler | `panic` and `check` exit the process; `setupSigAct` | no fault goes unreported |

### How they interact

    main loop --> Cpu --load/store--> Bus --> Ram, Bios
                                       |--> Gpu (GP0, GP1, STATUS) --> Renderer --> OpenGL
                                       `--> Dma registers --> doDma --> Ram, Gpu

Everything is a synchronous call. A store that starts a DMA transfer returns
when the transfer is over, so the CPU sees no intermediate state; the GPU, which
takes the words one by one, does. `panic` exits the process from any depth.

### What is hard to test

`PROJECT.json` lists the hazards, each at its line and with the properties that
would catch it. In short:

- sequences of jumps, delay slots, exceptions and misaligned fetches;
- pairs of instructions around a load, on the same register;
- nested exceptions and returns over a mode stack inside a shared register;
- the edges of signed arithmetic, division, and merges of unaligned words;
- DMA registers written in any order; blocks and ordering tables that wrap
  around the end of RAM; lists that end, do not end, or point nowhere;
- GP0 words that look like commands when they are parameters or pixels, and a
  reset in the middle of a command or an image;
- a vertex buffer that fills up in the middle of a command;
- a picture: a table cleared by one loop, linked by the program, walked by another
  loop and cut into commands by the GPU; a program that polls registers that
  nothing changes between its instructions;
- addresses at the edges of twelve ranges, in mirrors, at six functions that
  each test some of the ranges;
- a failure or a fault at each step of the start-up, and what is released after it;
- keys, buttons, moves and sizes in one poll, polls in the middle of a batch;
- operator slips: `!` where `~` was meant and `&` against `!=`. They change
  behaviour for some values only. They are modelled as the compiler reads them.

## Modules

| Module | What it is |
|---|---|
| `Cpu` | the interpreter |
| `LoadDelay` | abstract: one register file with a load delay slot |
| `CpuProps` | the properties of `Cpu`, and the refinement of `LoadDelay` |
| `CpuModes` | `Cpu` with an observer of the interrupted modes, and its properties |
| `Dma`, `DmaProps` | the DMA controller with the transfers of the bus; observers and properties |
| `Gpu`, `GpuProps` | the GPU with the vertex buffer; observers and properties |
| `MemoryMap` | the memory map and the device that answers an access |
| `Memory` | loads and stores of the bus, RAM and BIOS |
| `FlatMemory` | abstract: one array of bytes |
| `System` | the bus with RAM, DMA and GPU behind it, as a program meets them |
| `DisplayList` | abstract: a table of packets that is drawn from the back to the front |
| `DisplayDriver` | a program that draws with an ordering table on `System`, and the refinement of `DisplayList` |
| `Startup` | the process: signal handler, constructors, GLFW and OpenGL, main loop, input, destructors |
| `MCCpu`, `MCCpuModes`, `MCDma`, `MCGpu`, `MCMemory`, `MCDisplay`, `MCStartup` | instances for TLC |
| `Induction` | induction over the naturals and recursive functions, with sets and functions for operators |
| `CpuProofs` | types, control flow (`SequentialFlow`, `HandlerEntry`, `EpcIsRestartPoint`) and the mode stack |
| `CpuDataProofs` | registers, bus and arithmetic: the refinement of `LoadDelay`, links, traps, stores, overflow, products and quotients, merges of words |
| `GpuProofs` | framing of GP0, soft reset, STATUS, the vertex buffer and what is drawn |
| `DmaProofs` | types and starts of the DMA; what blocks, ordering tables and lists move |
| `MemoryProofs` | the memory map, stores and the refinement of `FlatMemory` |
| `DisplayProofs` | the program that draws: no panic, and devices that are where it believes them to be |
| `StartupProofs` | OpenGL objects, context, memories, faults and input through every failure |

Observers (`saved`, `before`, `sent`, `since`, `last`, `shown`) are variables added beside
the code's state to remember what a property needs. They never guard a step,
except that `MaxSent` cuts off what a circular list sends.
Operators named `...Variant` are faulty forms of the operator below them. They
occur in no specification. Each property is checked to fail when the operator
is replaced by its variant.

### Cpu

A step of `Next` is one call of `runNextInstruction`: `Fetch` does what
precedes the decoding (pc, flags, the pending load), an `Exec...` action is
the handler, and `Retire` is the copy of the register file at the end. A
misaligned fetch is an action of its own because the code returns early from it.
Instructions are records of the fields a handler uses. Memory is open: any
instruction of `Program` may be fetched from any aligned address and any value
of `BusData` loaded, so the model covers programs that change themselves and
memory that changes behind the CPU. Addresses in `Unmapped` panic.

Words have `WORD` values, bytes `BYTE`, halfwords `HALF`. Bitwise operators are
constants, of which the proofs know that they return words and what they do to whole
bytes (`BytesAssumption`); TLC evaluates the real ones. `bus` and `trap` record the accesses and the
exception of the last step.

Deviations of the code that the model keeps: `mSr &= !0x3f` clears the whole
register; `opLwr` uses the mask of `opLwl`, and `opSwl` ORs the bytes of the register over those
in memory without clearing them; ADD and ADDI write their result
after raising the overflow exception, which SUB does not (`TrapHasNoOtherEffect` lets each write
the register of its sum and nothing else); LH does not check alignment; DIV of the
most negative number by -1 wraps. An exception in the delay slot of a jump that is
itself in a delay slot stores in EPC the address of the slot minus 4, which is
no branch (`cpu.cpp:411`); `EpcIsRestartPoint` leaves this case out.

### Dma

A store to a channel register decodes the value and, in the same step, starts a
transfer if the channel has become active (`setDmaReg`). From then on only
`Transfer` steps are possible, one per iteration of the loops of `doDmaBlock`
and `doDmaLinkedList`, until `done()`. Control registers are sets of bits, so
that reserved bits, direction, step and synchronization are independent. A word
of RAM is its top byte and its low 24 bits, which is how headers are
read.

`EndOfTable` is bit 0 of the header, as the compiler reads
`header & 0x800000 != 0`. `transferSize` counts words, although two comments
call them bytes (`dma.cpp:238`, `dma.hpp:126`). `mChannelIrqFlags &= !ack` keeps
bit 0 or nothing, but no code sets a flag. The product of two block counts has no
bound in the model; in the code it is an `int` for products below 2^31.

The operations that write a register (`WriteBase`, `WriteControl`, ...) take the
value; the actions of this module choose it from small sets, and `System` passes
what the program stores.

### Gpu

The words written to GP0 are chosen from `Gp0Words` when a command may begin
and from `Gp0Params` when a parameter or pixel is due. The division keeps the
instance small; the two sets overlap in words that look like commands. `Inputs`
is the only place that knows. `RunSetting` and `DisplaySetting` stand for the
handlers that decode bit
fields: `Fields` and `DisplayFields` are the tables of
those fields. Pushing vertices and drawing happen inside the step of the last
word of a command, and `draws` records the buffers drawn. The texture of a quad
is the solid red the code uses in its place.

GPUREAD is always zero and no GPU interrupt is ever raised, so neither
is a variable. Vertical resolution, video mode, depth and interlacing follow bit 0 of the
display mode, because `val & 0x4 != 0` is `val & 1` (`gpu.cpp:589-595`). Their bits of STATUS,
19 to 22, are therefore not the settings made, and `StatusIsCurrent` leaves them out, with the
bits that are constant (13, 14, 24, 26-28, 31) and bit 25; it is about bits 0-12, 15-18, 23 and
29-30.

### Memory

A step is one call of `Bus::load8` ... `Bus::store32` by the CPU. In `MemoryMap`,
`Dispatch` lists the ranges each of the six functions tests; `Target` is the device that
answers, `Offset` where. `OneDevice` shows that the order of the tests does not
matter. An address is its top three bits and its low 29, since `REGION_MASK` is
indexed by the former. A value of n bytes is a function on `0 .. n-1`, because
byte order is what RAM and BIOS are about. Bytes have no sign: that each plain `char` passes
through `uint8_t` on its way into a word (`ram.cpp:24-29`) is taken as done. Registers of the DMA and the GPU
answer a load with any word here; their state is in `Dma` and `Gpu`.

Stores of words and halfwords are aligned: the CPU traps on the others
(`BusStores` in `Cpu`). LW and LH are not checked, so a load can
go past the end of a device; `Read` gives any byte there. All ranges
but RAM and BIOS have the sizes and bases of `map.cpp`. Those two are
constants, bounded so that RAM ends below the first device and BIOS below the
end of the segment.

### System, DisplayDriver, DisplayList

`System` instantiates `Dma` and `Gpu` on one RAM and dispatches with
`MemoryMap`. `Store32` is `Bus::store32` with all it calls. When a store starts a
transfer, `Transfer` takes the steps of `Dma!Move`, and the word that a step sends
goes to `Gpu!Gp0Step` in the same step. What panics in a device panics here
(`StorePanics`, `Dma!Unhandled`, `Gpu!Gp0Panics`). `Load32` is what RAM, the
registers of the DMA and STATUS answer. Here words are words of the machine, 32 bits
in a top byte and 24 bits, and addresses are those of the map; only RAM is
small. The CPU's instructions are those of the program that follows, taken as
loads and stores.

`DisplayDriver` is that program. It is external: it stands for those that the
emulator exists for, and uses the registers as the comments of the source
describe them. A routine is a list of loads and stores, `todo`: set-up, clearing the
ordering table by DMA, inserting a packet, uploading an image by GP0 and DMA,
drawing the list and displaying it. Which packets, at which depths, which images,
in which order and in which of the segments KUSEG, KSEG0, KSEG1 is open. Between two
of its stores everything is as the last store left it, since transfers run to their end.
A "link" is a load and a store: the low bits of an entry become those of the
packet's header.

`DisplayList` knows none of this: a table of sequences of packets, and pictures that
show them command by command. The refinement reads the table off RAM, chain by
chain, and takes for `shown` the commands that `Gpu` has run since the list was
started.

### Startup

`pc` is where the process is: `setupSigAct`, the members of `Bus` in the order of their
declaration (RAM, BIOS, the GPU with its renderer), the body of `Bus::Bus`,
`main`, and the destructors in reverse. `~Renderer` is two steps, the calls of OpenGL
and `glfwTerminate`. Each step that calls the outside may
fail. GLFW and OpenGL are known by what the code relies on: a window needs
`glfwInit`, GLAD finds its functions only with a context, `glfwTerminate` takes
windows and contexts with it. OpenGL objects are a set of names. `Panic` and
`result::check` call `exit`, which runs no destructor of a variable of `main`.

`User` presses, holds, releases, resizes, moves and closes while `main` runs; the
events wait until a poll, in `main` (`Poll`) or in an instruction that makes the GPU
display (`Display`). A poll calls the callbacks in the order of the events; what they
leave is what the last event of each key, button or kind says (`IsDown`, `Latest`). The
last key and the eighth button, whose indices are `GLFW_KEY_LAST` and `GLFW_MOUSE_BUTTON_LAST`,
have events too, which the callbacks ignore (`input.cpp:15`, `input.cpp:29`): `KnownKeys` and
`KnownButtons` are the others. Any step may fault: `Fault` is SIGSEGV, which
ends in `crit_err_hdlr` if `setupSigAct` has installed it. Elsewhere than on
Linux `setupSigAct` is empty (`backtrace.cpp:160`); the model is of Linux. `outcome` records which step
of `compileAndLink` failed, for the properties. What the code does not
release is in `Lost`: the program if the vertex shader does not compile,
and with it the vertex shader if the fragment shader does not. A BIOS file of the
wrong size leaves `image` as `malloc` gave it and the machine starts
(`bios.cpp:28`). "Exiting early" (`renderer.cpp:57`) is printed and the renderer
goes on without a program.

### Panic

`panic` prints and calls `exit`. The model sets `running` to FALSE and leaves
everything else alone; the process is gone. All configurations but that of
`display` say `CHECK_DEADLOCK FALSE`, because a panicked program stops and because the
bounds below end the others. The program of `display` draws for ever: deadlock is
checked there.

## Runs

| Run | Question | Bounds |
|---|---|---|
| `cpu_flow` | where a program goes through jumps, branches, traps, misaligned fetches, returns and writes of SR; in which mode; that it always goes on | 17 instructions, 5 executed |
| `cpu_data` | what instructions of every kind do to registers and bus, after and before every other; arithmetic against the integers | 3 instructions executed, or one on 30 values for each operand |
| `dma_transfers` | registers in any order; what blocks, tables and lists move; that they end | 4 words of RAM, 3 stores, 12 words sent |
| `gpu_ports` | framing, images, STATUS, resets, the vertex buffer | commands of 1 and 3 words, images of 0, 3 and 6 pixels; drawing commands of 5 to 9 words, 7 vertices |
| `memory` | which device answers; that RAM is one array of bytes | RAM of 8 bytes, BIOS of 4, 3 accesses |
| `display` | pictures drawn by a program through bus, RAM, DMA and GPU; that it never panics or waits in vain | 32 words of RAM, 2 depths, 2 packets or images a picture, any number of pictures; tables and devices in KUSEG or KSEG0, GP0 in KSEG1 |
| `startup` | failures and faults of the start-up, events, the end | 2 instructions between looks, 2 waiting events, a key, a button and the ignored one, 2 sizes and places |
| `cpu_sr`, `cpu_slotflag`, `cpu_lwr`, `dma_marker`, `gpu_image` | comments of the source that the code does not meet | as small as the counterexample allows |

The words of the CPU have 8 bits, of four bytes of 2 bits: enough for every
case of alignment, sign and carry, for the six mode bits, and for two more bits
of SR above them. `MaxIp` bounds the instructions executed. Five are a jump, a
jump in its delay slot, a trap and two instructions of the handler. Three are a
load, the instruction that meets it and the one after. Exceptions
nest two deep in SR and two returns follow, which `cpu_flow` reaches within its
five instructions. For arithmetic `cpu_data` also starts with the operands in
two registers, as earlier loads would have left them: values around zero, the
greatest positive and the least negative word and the shift of a byte.

RAM has four words, so that blocks and packets of three words wrap and meet
themselves. Low parts of words have eight times as many values as RAM has bytes,
as in the code (2^24 and 2^21), so that links leave RAM. `MaxOps` (3) is what
it takes to set up a channel; RAM starts as the constructor leaves it (0xca) or
holding a list, and the same three stores may change the list instead.

A buffer of seven vertices leaves one place over after two triangles, as 16384
does after 5461: quads fill it up at each of their vertices. Commands of nine
words (`0x2c`) are among them. A behaviour of `gpu_ports` either draws or sends commands,
images and resets, for which one and three words suffice, because the code only counts.
Either is a behaviour of `ObservedSpec`, which the theorems are about.

Bytes have two values in `memory`: order and position of bytes matter, not what
they hold. Its addresses are all of RAM, the first and last byte of every device
and the address after it, mirrors, and registers that exist or do not. A store
and two loads, or two stores and a load, are what a mirror or a width needs to
disagree. In `startup` two instructions suffice to have events arrive before, between
and after polls; two waiting events put press and release, or two sizes, into one poll. Of the ids past the ends
of the arrays the instance has the button: the guards of both callbacks are one conjunct of
`IsDown`, and the theorem is about any keys and buttons, known or not.

In `display` two depths and two packets are what it takes to have packets on one
depth, on two, and a depth without any. The packets are a quad whose corners
look like commands, three settings, and a command without effect; one of the images has
padding and all have words that look like commands. The second picture finds the table, the packets
and the vertices of the first, and any further one finds the same. RAM is the
smallest that has the table, two slots and the pixels; the addresses of the devices
and the length of the vertex buffer are the real ones.

Three properties are liveness. `Progress` assumes weak fairness of `Next`: `main`
calls `runNextInstruction` for ever. `TransferEnds` assumes weak fairness of
`Transfer`: a transfer is a loop of the only thread, which nothing can preempt.
It is about blocks and about lists that end; a circular list does hang the
emulator, and `ListIsExact` says nothing of it either. `CloseEnds` assumes weak fairness of `Main`: `main` waits
for nothing, and what the user does disables none of its steps. That the program of
`display` goes on for ever is stated as safety instead: `DevicesAreReady` says that each of its
polls is answered in the first round, and TLC finds no deadlock.

### What the code says and does not do

- `cpu_sr`: an exception clears the bits of SR above the mode stack
  (`cpu.cpp:397`); RFE does the same (`cpu.cpp:1043`).
- `cpu_slotflag`: after a misaligned fetch `mDelaySlot` is that of the
  instruction before (`cpu.cpp:330`), and its exception may be filed under a
  delay slot.
- `cpu_lwr`: LWR keeps the bytes it should replace (`cpu.cpp:1269`).
- `dma_marker`: a list does not end at a header with bit 23 set (`bus.cpp:418`).
- `gpu_image`: an image without pixels leaves GP0 in `ImageLoad` mode and the
  next command is dropped (`gpu.cpp:378`).

## Proofs

The theorems hold for every value of the constants that meets the named
assumptions: bytes of any number of values of which four make a word of at least 64
(`WordAssumption` and its neighbours in
`Cpu`), any operators for the bitwise instructions that return words and, on masks
and shifts of whole bytes, do what C's do (`BytesAssumption`), any program
whose fields fit and any contents of memory; any size of RAM that is a multiple of
four up to the range of a pointer, which is even because the code takes bit 0 for the end
of a list (`RamAssumption`), and any values written to the DMA; any sets of words on the GPU ports and any vertex
buffer of at least four vertices (`GpuAssumption`); any RAM and BIOS that fit
below the devices of the map, with bytes of any number of values
(`SizeAssumption`, `MapAssumption`) and any set of addresses; any program that draws
with an ordering table of 1 to 65535 entries, in any of the three segments, if table, packets and
pixels are in RAM and apart (`LayoutAssumption`), packets are whole commands of the GPU of at most
255 words that load no image and, as `gp0DrawMode` panics otherwise, use no reserved texture depth
(`PacketAssumption`), and an image has two pixels in a word and at least one word (`ImageAssumption`);
any keys, buttons, sizes and
places, any number of waiting events and any batch. TLC evaluates these
assumptions on every run.

| Theorem | Says | Argument |
|---|---|---|
| `CpuProofs!TypeCorrect` | `TypeOK` | is inductive; one lemma per group of handlers, and the range of each operator (products, quotients, merges, sign extension) |
| `CpuProofs!FlowCorrect` | `SequentialFlow` | `FlowInv`: with `TypeOK` it is inductive, since the next pc of a branch is set by one handler and used by the fetch after it |
| `CpuProofs!HandlerEntryCorrect`, `EpcCorrect` | `HandlerEntry`, `EpcIsRestartPoint` | from `FlowInv`: EPC can only be right if `mPc` is that of the slot when an exception happens in it |
| `CpuDataProofs!LoadDelayCorrect` | `Spec` implements `LoadDelay` | `RegisterInv`: between instructions both register files agree and register 0 is zero; each action maps to a step or a stutter of `LoadDelay` |
| `CpuDataProofs!LinkCorrect`, `TrapCorrect` | `LinkSkipsDelaySlot` (a call links to the word after its delay slot), `TrapHasNoOtherEffect` (an instruction that traps, SUB included, only commits the pending load; ADD and ADDI write the register of their sum as well) | from `FlowInv` and `RegisterInv` |
| `CpuDataProofs!BusStoresCorrect`, `OverflowCorrect` | `BusStores`, `OverflowIsExact` | from `TypeOK`; the second compares the sign test with the signed sum case by case |
| `CpuProofs!ModeStackCorrect`, `RfeCorrect` | `ModeStack`, `RfeRestoresMode` | `ModeInv`: the observed stack of modes is in the pairs of bits of SR, which `PushMode` and `PopMode` shift |
| `CpuDataProofs!HiLoCorrect` | `HiLoIsExact` | a natural divided by a natural is unique (`Division`), and `TruncDiv` is that quotient with a sign; the product of two words is below the square of their number, so HI and LO hold it |
| `CpuDataProofs!MergesCorrect` | `MergesAreExact` | a mask keeps the low bytes of the old word, a shift puts the new ones above them: the two have no bit in common, so OR adds them, for each of the four offsets |
| `DmaProofs!TypeCorrect` | `TypeOK` | needs `ListAtCell`: a list is read at cells only, or a pointer would leave RAM |
| `DmaProofs!NothingLeftStartedCorrect` | `NothingLeftStarted` | `ChannelInv`: the only channel that can be started is the one whose loop is under way |
| `DmaProofs!BlockIsExactCorrect`, `OrderingTableCorrect` | `BlockIsExact`, `OrderingTable` | `BlockInv`, over the loop of `doDmaBlock`: after k rounds the address is k cells from the base, around the end of RAM if need be, and what has been sent or linked is the first k cells; the cells of a table that fits are distinct, so that a round does not undo an earlier one |
| `DmaProofs!ListIsExactCorrect` | `ListIsExact` | `ListInv`, over the two loops of `doDmaLinkedList`: the words sent, followed by those of the rest of the packet and of the rest of the list, are those of the list. A header found in a list that ends is odd exactly if it is the last one, because the others are addresses of cells |
| `GpuProofs!CommandFitsCorrect` | `CommandFits` | `PortInv`: the words received and those due add up to the length of the command |
| `GpuProofs!RunsOnItsWordsCorrect`, `ImageIsExactCorrect` | `RunsOnItsWords`, `ImageIsExact` | `SinceInv`: the words observed since the last command are those in the buffer, or with those due make the image |
| `GpuProofs!SoftResetCorrect` | `SoftResetForgets` | field by field |
| `GpuProofs!WholeTrianglesCorrect` | `WholeTriangles` | `BufferInv`: whole triangles in the buffer and in each draw, for each of the steps of a push |
| `GpuProofs!TypeCorrect` | `TypeOK` | `TypeInv`, with `BufferInv`: each bit field is below the power of two of its width |
| `GpuProofs!StatusIsCurrentCorrect` | `StatusIsCurrent`: bits 0-12, 15-18, 23 and 29-30 of STATUS | `Current`: each of their registers holds the bits of the setting made last; the bits of STATUS are then compared one by one, and no other command writes these registers |
| `GpuProofs!VerticesKeptCorrect` | `VerticesKept` | each of the six pushes of a quad, and each of the three of a triangle, puts one vertex at the end of what the drawn buffers and the current one hold end to end (`Kept`), also when it has to draw first |
| `DisplayProofs!NeverPanicsCorrect`, `DevicesAreReadyCorrect` | `NeverPanics`, `DevicesAreReady` | `DriverInv`, below |
| `MemoryProofs!TypeCorrect` | `TypeOK` | inductive |
| `MemoryProofs!OneDeviceCorrect`, `RamAnswersCorrect`, `StoresInsideCorrect` | `OneDevice`, `RamAnswers`, `StoresStayInside` | `AccessInv`: what was recorded is what `Target` gives; `Disjoint` compares the ranges pair by pair |
| `MemoryProofs!FlatRamCorrect` | `Spec` implements `FlatMemory` | an access covers cells of RAM exactly when RAM is its target, at the offset its segment hides |
| `StartupProofs!TypeCorrect` | `TypeOK` | inductive |
| `StartupProofs!RunsOnAMachineCorrect`, `ReleasedAtExitCorrect`, `GlHasContextCorrect`, `FaultsAreReportedCorrect` | the property of that name | `IInv`: what memory, window and OpenGL objects there are at each stage of `main`, with the failure that led to it |
| `StartupProofs!InputFollowsCorrect` | `InputFollows`, of all buttons but the eighth | `InputInv`: what the callbacks would leave if the waiting events were delivered is what the user has; a poll delivers them, and an event changes both sides |

`LinkSkipsDelaySlot`, `RfeRestoresMode` and `RamAnswers` are proved and no run checks them:
the first two follow from what `SequentialFlow` and `ModeStack` say, the third from `FlatRam`
and `NeverPanics`.

`DriverInv` says where the program is, an operation of a routine or between two
routines, and what RAM, channels, loop and port are there. It has to be
this detailed because each step relies on what several others have left. The loop that walks
the list never panics because every header it meets is an entry of the table or a slot with
a whole packet, and leads to another one or to the end (`Built`); that holds because the loop that clears the
table leaves entries that lead to each other (`Cleared`), because a packet gets its words before its header and
is linked last (`AtPacket`), and because pixels and packets lie apart. GP0 runs no word that it would
panic on because at each word the walk sends, the port is as many words into a command as
the walk is (`Framed`), and for an image because the words the loop has to go are those that
`gp0ImageLoad` counts (`UploadLoop`). A poll is answered at once because no channel but that
of the loop under way has bit 24 set (`QuietBut`). One lemma per routine and device shows that
the invariant is kept. TLC had found it true of all states of `display` before it was proved.

Blocks, tables, lists and what is drawn have any length. Their proofs need
induction over the naturals and recursive functions that are what they are defined to be. The
library's theorems on these take operators as parameters, which the provers cannot
instantiate. `Induction` derives them for sets and functions, from the fact that the
intervals `1 .. n`, being finite sets, are well-founded. The recursive definitions of the
properties (`Ending`, `Listed`, `Join`) are therefore recursive functions.

Only model-checked: `DelaySlotFlagIsCurrent` and the other properties of the violation
runs, which do not hold; `DrawsDisplayList`, the refinement
that `display` checks, whose table is read off RAM by following the links and choosing the packet that
each slot holds; and the liveness of `Progress`, `TransferEnds` and
`CloseEnds`, which is out of the prover's reach.

## Not modelled, and why

- The CPU on top of `System`: the contents of memory are open in `Cpu`, which therefore
  covers every program, and the program of `DisplayDriver` is a list of loads and stores.
  Instructions out of RAM that is also data would multiply both state spaces and
  add no interaction: the CPU sees the bus through loads and stores only.
- Halfwords and bytes in `System`: they reach RAM and no register; `Memory` has them.
- `Window::close`, `isKeyDown`, `isMouseButtonDown` and the callback of the mouse wheel, which
  nothing calls.
- The destructors of `Cpu`, `Dma` and `Gpu`, which run after the last step of the machine.
- The GTE (`COP2`) panics in the code and does so in the model. The timers, the
  SPU and the interrupt controller ignore what is written to them.
- Time. The code counts no cycles.
- What OpenGL draws, shader code, printing, the text of the stack trace: input and output
  without state of the emulator.
- `result.hpp` is a third-party header but for `check()`.
- Undefined behaviour of `int` products of 2^31 and more in `transferSize`.

## Plan

The order was: the CPU, whose two delay slots and mode stack everything else
runs on; the DMA and the GPU, its main customers; the memory map below them; the
life of the process around them; the bus with all of them behind it and a program that
draws; proofs beside each. What is left, in order:

1. A proof of `DrawsDisplayList`, on top of `DriverInv`: the chains of the table as recursive
   functions, and that linking a packet puts it at the head of one chain and leaves the others.
2. The pixels `gp0ImageLoad` will store once it does, and a property of SWL once the
   code or a comment says what it should keep.
3. Interrupts, when `done()` raises them: the flags of the DMA, their acknowledgement
   (`dma.cpp:77`) and the CPU's look at them.
