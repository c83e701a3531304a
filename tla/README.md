# A verification development for the Lynx SDK

This directory holds TLA+ models of the parts of this repository whose
correctness depends on the order of events rather than on data: library code
on the Atari Lynx that shares memory between the main program and interrupt
handlers, the C heap, the linker's bookkeeping, and the chain from the config
file to the running program. The TLC model checker examines small instances of
every model; the TLAPS proof system proves the central theorems for all values
of the constants.

## 1. Inventory

The repository is a C tool chain for the Atari Lynx (65C02, one processor, one
interrupt line) and the library a Lynx program links.

| Component | State it keeps | Operations | Why it is hard |
|---|---|---|---|
| ComLynx serial driver, `libraries/core/ser-*.s` | two 256-byte rings with four one-byte indices, `ser_stat`, `ser_txdone`, a SERCTL shadow | `ser_open`, `ser_close`, `ser_put`, `ser_get`, `ser_status`; handler `ser_irq` | no lock between calls and handler; one interrupt for both directions; a break resets the rings from the handler |
| C heap, `libraries/libc/malloc.s, free.s, realloc.c, calloc.s, _heap*.s` | heap top, doubly linked sorted free list inside the free blocks, size words inside the used ones | `malloc`, `calloc`, `realloc`, `free`, `_heapadd`, `_heapmemavail`, `_heapmaxavail`, `_heapblocksize` | three-way merges, end cases of the list, 16-bit arithmetic |
| Interrupt dispatch, `runtime/lynx/irq.s`, `runtime/rt/callirq.s`, `libraries/core/clock.s`, `libraries/libc/interrupt.s` | INTSET, the operand `callirq` patches in its own code, `clock_count`, a C-level save area | `IRQStub`, `callirq`, the interruptors, `set_irq`, `reset_irq`, `clock` | one interruptor enables interrupts, so passes nest in self-modifying code |
| Display pages, `libraries/graphics/gfx-page.s` | view-page shadow, draw page, its number, a swap request, DISPCTL and SPRSYS shadows | `gfx_setviewpage`, `gfx_setdrawpage`, `gfx_flip`, `gfx_setbpp`, `gfx_busy`, `gfx_updatedisplay`; handler `gfx_vbl_irq` | two-byte addresses shared with the handler; write-only registers with shadows |
| Graphics core, the rest of `libraries/graphics` | draw page and pen, palette, text style | `gfx_init`, `gfx_sprite`, text, clear, palette, rate | mostly straight-line register writes |
| Sound engine, `libraries/audio/lynx-snd.s`, `mikey-snd.s` | per channel: active flag, stop request, stream pointer, delay, loop, return address, envelope; the ReturnAll flags, a semaphore, the saved timer | `snd_play`, `snd_stop`, `snd_stop_channel`, `snd_pause`, `snd_continue`, `snd_active`, `snd_init`; handler `snd_handler` | handler runs with interrupts enabled; calls busy-wait on it; a ReturnAll sends other channels elsewhere |
| HandyMusic, `libraries/audio/handymusic` | channels and tracks with priorities and script pointers, loop slots shared by all, an effect request, the streaming sample's pointer and 16-bit length, saved timers | init, play and stop of songs and effects, pause and unpause, play and register samples; the vertical-blank tick and the timer-3 sample handler | songs and effects compete for channels by priority; a second interrupt falls into the tick; the program writes what both read |
| Suzy math, `libraries/math` | one hardware unit, one set of saved operands | start/result pairs | one operation in flight |
| Cartridge, `lynx-cart.s, open.s, read.s, lseek.s, load.s`; multicart | block number, position in the block | open, read, seek, load, launch | position kept in counters of the hardware |
| EEPROM, `eeprom46/66/86.s` | none between calls | read, write, erase | bit-serial protocol |
| SD cartridge, decompression and checksums, joystick, power | none, or a pure function | | |
| Linker's symbols, `compiler/ld65/main.c, objfile.c, exports.c, library.c, condes.c` | table of exports with their imports, three counters, open libraries of a group, loaded modules, tables of constructors and interruptors | object and library items, group brackets, forced imports, definitions; entering exports and imports, the search of libraries, the check for unresolved symbols | what is linked depends on the order of everything; an entry is replaced while imports point to it |
| Linker's layout, `segments.c, config.c, bin.c`, `common/alignment.c` | sections in segments, segments in areas, addresses, fill levels, offsets in the output files | collecting sections, placing segments, writing files | two walks over the same lists, in different files, must agree |
| Startup and loaders, `runtime/lynx` | the memory, an index register | the loader's load, relocation of ONCE, clearing of BSS, constructors, `main` with its heap | code is copied over memory that may hold its own source |
| Runtime arithmetic, `runtime/rt`; C library | none | about 300 sequential routines | data |
| Assembler, librarian, compiler, tools | one run's data | batch programs | size |

Interactions. `IRQStub` calls `callirq`, which calls every interruptor the
linker put into the table (by priority, then by name, see
`compiler/ld65/condes.c`); the serial handler, the page swap, the clock, the
sound engine, the music driver and the C-level handler are such interruptors.
They poll INTSET and return carry clear, so that others see the same bit; the
stub then writes the pending bits back to INTRST. Main-program calls and
handlers share only the variables listed above. `gfx_sprite` passes the draw
page to Suzy; Suzy math relies on `gfx_sprite` being synchronous. No handler
calls the heap. The linker links `callirq` only if some module exports an
interruptor, and the addresses and file offsets it assigns are what the boot
loader, the relocator and the heap rely on.

What makes each component correct, and whether something here checks it, is
the list of hazards in `PROJECT.json`; each hazard names its source line and
the properties that would fail if it bit.

## 2. Modules

| Module | Models |
|---|---|
| `Uart` | the Mikey UART and its INTSET bit (hardware; read off the accesses of the library) |
| `SerDriver` (extends `Uart`) | the serial driver: main thread, handler, rings |
| `SerQueues` | abstract specification: two bounded FIFO queues |
| `MCSerDriver` | instance of the two, refinement mapping, liveness, the properties that need sequences |
| `SerDriver_proofs` | proofs about `SerDriver` and that it implements `SerQueues` |
| `Heap` | the heap's operations on the linked list, in modular arithmetic |
| `HeapBlocks` | abstract specification: memory cut into blocks |
| `MCHeap` | values, derived queries, refinement mapping, properties |
| `Heap_proofs` | proofs about `HeapBlocks`, `Heap` and that the one implements the other |
| `Irq`, `MCIrq` | interrupt dispatch with nested passes; the interruptor table |
| `Irq_proofs` | proofs about `Irq` |
| `Pages` | display pages, and what `gfx_init` and `gfx_sprite` do with them |
| `Pages_proofs` | proofs about `Pages` |
| `Sound`, `MCSound` | the sound engine and its calls; two songs |
| `Sound_proofs` | proofs about `Sound` |
| `HandyMusic`, `MCHandyMusic` | the music driver, its sample handler and its calls; a song with effects |
| `Scripts` | when the scripts of `HandyMusic` are well nested |
| `HandyMusic_proofs` | proofs about `HandyMusic` |
| `Linker`, `MCLinker` | the linker's symbol resolution; a family of programs |
| `Linker_proofs` | proofs about `Linker` |
| `Layout` | the linker's segments, addresses and output files |
| `Startup` (extends `Layout`), `MCStartup` | the linked program from the loader to its heap; a family of config files |
| `Startup_proofs` | proofs about `Layout` and `Startup` |

Operators called "Mutant" in a comment are plausible slips of the code. The
specifications do not use them: each is put in the place of the definition
behind it to confirm that the property the run checks can fail.

### Serial driver

Control is kept at the grain at which main thread and handler can meet. `mpc`
has one step per instruction of `ser_put`, `ser_get` and `ser_open` that
touches a shared byte; a `sei` ... `plp` section (`ser_close`, the kick in
`ser_put`) is one step. `hpc` has one step per access of `ser_irq` to a UART
register, because the UART moves between them while interrupts are off. The
actions carry the name of the call and the instruction (`PutLoad`, `PutCmp`,
`PutIdx`, ...) or of the branch in the handler (`RxStore`, `RxFull`,
`TxAllSent`, ...); `map` in `PROJECT.json` gives the lines of each.

Data is abstracted: a byte is an integer that names who sent it and as which.
What is assumed beyond the source:

* The UART may shift a frame between any two steps, or take arbitrarily long.
  A store to SERDAT with an idle shift register goes straight on to it. A byte
  is heard by its sender when the shift register runs empty.
* Both interrupts are levels; INTSET latches the level and a write to INTRST
  clears it for as long as the level is low. The clearing by the handler and
  by `IRQStub` behind it are one step.
* The program opens only a closed port and puts only on an open one. It may
  mask interrupts, so that a pending one waits for any number of its steps.
* The parameter checks of `ser_open` are a choice among its three outcomes.
  The SERCTL shadow holds format bits only and is left out. `ser_status`
  reads one byte and changes nothing.

### Heap

A call is one step, since the heap is not reentrant; `realloc`'s move is two,
because both blocks exist between its `malloc` and its `free`. The free list is
a function from addresses to `[size, next, prev]` records and is updated
through its links the way the code does: an inconsistent link would be
followed. Additions that the code lets wrap are reduced modulo `Word`. The
contents of used blocks are not modelled, except how much `realloc` copies.
`heaporg` and `heapend` are constants: `initheap` runs once, before `main`.

`HeapBlocks` forgets the list: a set of free and a set of used blocks. Heap
steps map to its steps by `FreeBlocks`, `UsedBlocks` and `heapptr`.

### Interrupt dispatch

`stack` holds a frame per activation of `IRQStub`. `index` is the operand that
`callirq` patches: a pass interrupted in the sound engine continues with the
value the nested pass left. The page swap and the clock appear by their polling
of the vertical-blank bit only; their effects are in `Pages` and in `clock`.
Two assumptions: vertical blanks are further apart than the longest pass
(16 ms against well under one), and the main program does not mask interrupts.

### Display pages

An address is a number whose two bytes are loaded and stored in separate steps.
`gfx_vbl_irq` is one step and may come between any two: the documentation only
advises to poll `gfx_busy`, and lets a frame go on while a swap is pending. Two
variables are history and none of the code's state: `byhand` is the pages set by
another call than the last swap, and `spoiled` names what a swap has come into the
middle of. A swap puts everything right that it does not fall into, so it resets
both. The properties say with them which windows the code has, and that it has no
others. The initial state is the first `gfx_init` about to set its page addresses.

### Sound engine

A tick of the sound timer is one action, `Tick`: the main program stands still
during it, and `Irq` shows that a pass nested in it is turned away. A tick first
pushes what the one before has changed to the chip (`SetValues`). Then, for each
sounding channel, it moves the envelopes, honours a stop request with a fade,
sends the channel home if a ReturnAll is due, counts its delay down and, at its
end, reads commands up to one that takes time. The calls of the main program are
one action for each of the instructions between which a tick may fall: the test
of `SndActive` (`Play`, `Stop`, `StopChannel`), the decrement of `SndReqStop`
(`Request`), the store to the delay (`Hurry`), the busy-wait (`WaitOver`), and the
entry of the new stream with interrupts off (`Start`).

A stream is a sequence of commands in `Memory`, each with its durations, volumes
and targets. Left out are wave forms and stereo, which go to registers nobody
reads back, compact notes, which only encode others, `SndPlayerFreq`, and
`SndStartSound2`, which nothing calls. A frequency envelope may move the pitch
on any tick. `beat`, the parity of the ticks, is a history variable and only
there to state fairness. Address 0 holds the end of a stream, as a channel that
never made a call is sent there by a ReturnAll.

### HandyMusic

`HandyMusic_Main`, on every vertical blank, walks over the channels' scripts,
takes up a requested effect and walks over the song's tracks, with interrupts
enabled. `at` says where it is; a step is one script command, and the sample
handler `PcmIrq` may come between any two. The main program stands still during
the walk; `call` is where it is when the walk begins. Each of its calls has one
step per store to what a tick or the sample handler reads: `PlaySFX`, `StoreNext`,
`StoreRequest`; `StopMusic`, then `StopTrack` for each track with a tick possible
in between; both bytes of a sample's length.

Of a channel's hardware the model keeps whether its timer runs, which is whether
it is heard. Volumes, panning and pitch are left out, and whether a pitch
envelope moved is a choice. `note` is a history variable: the channel was started
by a track. Two documented restrictions are assumed: a song is loaded only while
none plays, and a track keeps its priority while a note sounds (the song of
`MCHandyMusic` does).

`Scripts` says what scripts have to be like: `Nested` of a set of places, each an
address with the loops and calls around it, in which every command stands where it
may (a `Loop` in a loop, a `Return` in a call, a note behind an instrument, not
deeper than `Depth`) and leads to another place of the set. Each script is looked at
alone; only two things reach into it from outside, the note-off, which may come
anywhere (`WellNested`), and the Pattern Break (`Breaks`). `MCHandyMusic` computes
the places of its scripts and assumes, that is, has TLC check, that they are nested.

### Linker

`Linker` is the resolution of symbols. `next` walks over the command line; an
item enters an object's exports and imports one by one (`InsertExport`,
`InsertImport`, `InsertDuplicate`), or opens a library, a group or a definition.
`LibCheckExports`, `NextLib` and `EndOfPass` search the open libraries again and
again until a pass adds nothing; `LoadModule`, `LoadLib` and `EndOfLoad` load what
was found and drop what was not needed, with the index error of the code as it
is; `ConDesCreate` and `ConDesCount` build the tables of the constructor type that
stands for all of them, interruptors included, and `CheckUnresolvedImports` ends.
The table keeps of an export who defines it, and a dummy entry (`Unresolved`) for
a name only imported so far. `prog`, what is linked, is chosen in `Init`.

`Layout` reads the sections (`ReadSection`), places the segments area by area
(`BeginArea`, `PlaceSegment`, `EndArea`) and writes the files by a second walk
(`BeginWriteMem`, `WriteSegment`, `EndWriteMem`). The content of a byte is where
it comes from: a segment and an offset, or fill. `pc = "misfit"` is the internal
error of `BinWriteMem`; a state with `misaligned` segments is one with warnings.
Expressions, relocations and the other output formats are left out.

### Startup

`Startup` continues where the linker has ended: `Load` is the boot loader's copy
of the directory's first file, `Copy` the relocator's loop in `crt0.s`, one byte a
step; `ZeroBss` and `CallMain` are the one-shot code and `HeapGrows` any write of
the program into its heap. `boot` in a configuration says which areas and segments
the template's config file has, and whether ONCE is loaded where it runs.
`Junk`, `Zero` and `Heap` are bytes from no segment.

## 3. Runs

Every passing run explores its instance completely.

| Run | Instance | Question |
|---|---|---|
| `SerRings` | 3-slot rings, 3 puts, 2 foreign frames, parity and framing errors | Are the rings two FIFO queues (`ImplementsQueues`)? Is a byte overwritten in the UART (`HoldingSafe`)? |
| `SerBreak` | the same with breaks, 2 puts, fairness | Does a break in the middle of anything lose a wakeup (`NoLostWakeup`)? Does every byte leave the ring (`EveryByteSent`), is every arrival read (`ReceiverServed`)? |
| `HeapList` | 38 bytes, requests of 1, 5 and 9 bytes and a 2x6 array | Does the linked list implement the blocks (`ImplementsBlocks`), so that nothing leaks (`NoLeak`) or is fragmented without need (`Coalesced`)? Does it account for all memory (`AvailHonest`), grant and copy enough (`KeepsPromises`)? |
| `HeapDonated` | 30 bytes and three donations, below, at and above the heap's ends | Is the list still sound, are blocks disjoint (`DonationsKept`) and all bytes accounted for (`AvailHonest`) when `_heapadd` is used? |
| `Irq` | 4 interruptors as the linker sorts them, 3 vertical blanks, fairness | How deep do passes nest (`NestsOnce`), what can be lost or counted twice (`LostOnlyLate`, `CountedOnce`), does the engine come free (`EngineComesFree`)? |
| `Pages` | a program that makes any of the seven calls, with a swap pending or not | Is always one whole page shown, the way it was asked for, and one drawn into (`DisplayCoherent`, `RendersIntoPage`)? Do swaps exchange the two (`SwapExchanges`), and is nothing drawn into the page on view (`NoTearing`)? |
| `PagesTorn` | a program that draws and swaps | Does every sprite go into one of the pages (`SpritesInPages`)? No: section 6 |
| `Sound` | 2 channels, 2 songs with all kinds of commands, 4 calls, fairness | Is a stop request ever lost or left over (`StopsAsAsked`)? Does a note hang (`Silenced`)? Do the busy-waits end (`WaitEnds`), and the streams (`StreamsEnd`)? |
| `HandyMusic` | 2 channels and tracks, a song, 2 effects, a sample, 4 calls, fairness | Do loops stay in their slots (`LoopsInBounds`)? Does `stop_music` leave a note of the song (`SongStops`), or a tick a free channel sounding (`NoHangingNote`)? Does the music get channel 0 back (`HandedBack`)? |
| `Linker` | 4 modules, 5 names, 9 command lines, every choice of exports and imports | Are the counters and pointers of the table exact (`Counted`, `ExpCurrent`)? Is just what is needed linked, in whatever order (`NeededOnly`, `GroupComplete`), loaded (`LoadedOrSkipped`), and every interruptor dispatched (`InterruptorsDispatched`)? |
| `LinkerSkip` | the same | Is every linked module loaded (`EveryNeededLoaded`)? No: section 6 |
| `Startup` | the cartridge templates' areas with sizes 0 to 4; 4 areas and 2 segments with all combinations of attributes | Do segments overlap or leave their areas (`SegmentsApart`, `SegmentsInside`), are they aligned (`AlignmentsKept`)? Is the file what the addresses promise (`FileAsLinked`)? Is everything in memory where it was linked to run while it runs (`Resident`), after a faithful copy (`Relocated`)? |

A property may join parts that go wrong together; the module states the parts
by name. `DonationsKept` is soundness of the list (`ListSound`) and
disjointness; `AvailHonest` is conservation, a bound for the largest block and
that this bound is attained; `KeepsPromises` is what `malloc` grants and `realloc` copies. Type
invariants are stated where a proof uses them (`SerDriver`, `HeapBlocks`,
`Linker`) and proved there. `HeapBlocks` has no run of its own: its invariants are
proved for every memory, and `HeapList` checks them on the list that implements it.

### Bounds

They are enough for what can go wrong:

* Serial: three slots give empty, partly full, full and wrapped rings, and with
  three puts each index wraps; two foreign frames give an overrun and a full
  receive ring.
* Heap: 38 bytes hold six minimal blocks, so there are lists of three free
  blocks with first, middle and last, every merge, remainders that are sliced
  and remainders that are too small, and a 64-byte address space makes the
  arithmetic wrap. The passing runs ask for sizes that do not wrap when the size
  word is added; section 6 says what happens beyond.
* Irq: passes nest once whatever `MaxVbl` is; three vertical blanks allow one
  before, one in and one after a nested pass.
* Pages: no bound, its state is finite, addresses are those of the code and the
  program makes all calls for ever.
* Sound: two channels (`Voices`, 4 in the code) are one that a ReturnAll sends
  home and one that sends it, or two that `snd_stop` asks in turn; `Byte` is 6, so
  that loop and delay counters wrap; `MaxCalls` 4 is enough for a play, a stop or
  a second play during the fade, a pause and one call after it; `MaxCommands` 4 is
  the longest run of commands of the songs that take no time, which the parser reads
  in one tick before the one that does; with 3 it would be cut short.
* HandyMusic: two channels compete; `Depth` is 2 (4), which a note in a loop in a
  pattern reaches; `Byte` is 2 (256), so a sample of length 3 borrows from its
  high byte once; `Lengths` {0, 3} are nothing and something; four calls are a
  song, an effect, and a stop or pause and unpause around them.
* Linker: a chain of three modules in any order, in and out of groups, with a
  second definition of each name; the two condes exports can be in different
  modules.
* Startup: ONCE is shorter than, as long as and longer than the BSS it is copied
  over; sections of two and three alignments that divide each other or not.
  `Primes` stops at 3 where the code's table stops at 251, so 5 stands for a
  prime beyond it; `Page` is 4 where an index register has 256 values.

Deadlock is checked except where the system really stops: the linker and the
start of a program end; the sound engine's busy-wait with the timer paused goes
on for ever without a change; and HandyMusic rests while it is paused and the
program's calls are used up.

### Fairness

`SerDriver!FairSpec`: a call that has begun goes on whenever the handler does
not run, a pending interrupt is taken, the handler's straight-line code runs to
its end, and a running baud clock shifts a loaded frame out. All four are weak
fairness: nothing is assumed of the program, which need not call at all, nor of
the other consoles. `Irq!FairSpec`: a pending interrupt is taken and a pass
runs on (weak), and the engine's body ends although passes keep interrupting it
(strong): timers leave time between interrupts. `Sound!FairSpec`: the sound timer,
while it runs, keeps interrupting, and the main program, once in a call, keeps
executing it (both weak). `HandyMusic!FairSpec`: timer 3, which a streaming sample
has started, keeps interrupting (weak); the handler itself stops it.

## 4. Theorems

`SerDriver_proofs`, for every ring size of at least two slots, every set of
faults and every bound:

* `TypeCorrect`: the type invariant.
* `NoWakeupLost`: `NoLostWakeup` is an invariant.
* `NothingOverwritten`: no step overwrites the holding register.
* `RingsAreQueues`: without breaks, every behaviour is one of two bounded FIFO
  queues (`ImplementsQueues`).

The first three rest on `Inductive`: `IInv` holds in every reachable state. `NoLostWakeup`
is not inductive by itself. `ser_put` may test `ser_txdone` just before the
handler clears it, and what saves it is that the handler clears it only having
found the ring empty, that this cannot change while the handler runs, and that
`ser_put` publishes the byte before it tests; `TransmitInv` says so for each
position of the handler. `NothingOverwritten` needs to know why an interrupt is
pending: `HoldInv` says that the holding register is free whenever the handler
can reach its store, because a received frame implies that the shift register
just ran empty and took the held byte, or was idle. `ClosedInv` says that
nothing moves on a closed port. The constants' assumptions used are
`UartAssumption` and `SerAssumption`.

`RingsAreQueues` maps each ring to the sequence of bytes between its indices and
each step to `Put`, `Send`, `Arrive`, `Get`, a reset or a stutter. It needs, beside
`IInv`, what a call has found out and may still rely on when it acts on it
(`RingInv`): `ser_put` between its test and its store knows that the slot behind
`txin` is still free, since the handler only moves `txout` away from it; `ser_get`
knows that the byte it found stays; a byte stored in the buffer but not yet
published belongs to neither queue. A break resets all four indices under a call,
which then acts on what it found out before: section 6 says what comes of it, and
`"Break" \notin Faults` is why the theorem does not say otherwise. `NoWakeupLost`
and `NothingOverwritten` hold with breaks as well.

`Heap_proofs` has three layers. The first is the abstract heap, for every memory,
block size and sequence of operations: `NeverOverlap`, `NeverLeaks`,
`AlwaysCoalesced`. Here the conjunction of the type invariant and the three
properties is inductive and none of them is alone: lowering the top past a free
block keeps coalescing only because free blocks do not touch, and merging keeps
disjointness only because no block is skipped between the merged ones.

The second is the list. `Linked` says that the links of a set of blocks are those of
its order by address, `Spaced` that free blocks, used blocks, what is left above the
top and memory still to be donated are pieces apart from each other. The walks of
`malloc` and `free` are recursive functions over the list; that they are defined, and
that the first finds a block with room if there is one (`FirstFit`) and the second
the last one below an address (`Place`), is shown with the order of the list in place
of the recursion. There is a lemma for each way the list changes: a block is taken
off it, cut, or entered with neither, one or both neighbours joined. `HeapInv` is
`Linked`, `Spaced` and what they need of the sizes; from it follow

* `ListStaysSound` (`DonationsKept`), whatever the program donates;
* `PromisesKept` (`KeepsPromises`), with `PromiseInv`, which says of a move in
  progress that both its blocks are still in use and which of them is the old one;
* `QueriesHonest` (`AvailHonest`), whatever the program donates, with `TallyInv`: the
  sizes of all blocks, free and used, add up to what is below the top and what was
  given. The folds of the run have a value (`FoldDefined`) that is a sum over the
  sizes (`SumsExist`), the same in every order (`SumsAgree`), and it changes with
  one entry by the difference (`SumChanges`); there is a lemma for each way a block
  changes hands. The
  walks of `_heapmemavail` and `_heapmaxavail` compute that sum over the list and the
  largest of its sizes (`WalkSums`, `WalkMax`): no more can be allocated (`MaxBounds`),
  and that much can (`MaxMeant`).

The third is the refinement, for a heap without donations: `ListIsBlocks`
(`ImplementsBlocks`), by one lemma per way `malloc`, `free` and `realloc` end, and with
it `ListLeaksNothing` (`NoLeak`) and `ListCoalesced` (`Coalesced`).

All of the second and third assume `RequestsFit`: sizes do not wrap when the size
word is added twice, as `realloc` does, and the program's sizes fit above the heap's
end without wrapping. The code does not check this and goes wrong without it: section
6 names the requests. `HeapAssumption` says of donations what makes them memory of
the program's own: they lie outside the heap and apart. Without donations is needed
only where a block donated directly below or above the heap touches the top without
being joined to it (section 5).

`Linker_proofs`, for every command line and all exports and imports of any number
of modules: `TypeCorrect`, `CountersExact` (`Counted`), `PointersCurrent`
(`ExpCurrent`), `NothingUnneeded` (`NeededOnly`), `NothingOverlooked`
(`GroupComplete`), `LoadedOnce` (`LoadedOrSkipped`), `AllDispatched`
(`InterruptorsDispatched`). `Counted` and `ExpCurrent` are inductive only together and with
the types: the open imports that `Resolve` takes off `ImpOpen` are as many as
`ImpCount` of the entry says, and the imports it redirects are all of them because
`ExpCurrent` says who points to the dummy. `EnterImportStep`, `NewNameStep` and
`ResolveStep` are the three ways an entry changes. `NeededOnly` says nothing of a
module while it is being entered, so `NeedInv` adds why that one is: the command
line names it, or an import of another module is bound to it or waits for one of
its exports that are still to come (`Entering`). The waiting import is another's
because every import's owner is in use (`Owners`), and there is one because a dummy
is only made for an import (`Waiting`). `GroupComplete` rests on `GroupInv`: as long
as a pass has added nothing, the modules behind it are settled, and only the
entering of another one could unsettle them, after which there is another pass.

`LoadedOrSkipped` follows from `OpenInv` and `LoadInv`: the open libraries are always
a stretch of the command line, of which the walk of `LibResolve` has loaded, or
deleted and thereby skipped, a part that these say exactly. `AllDispatched` needs
that the table of interruptors is complete (`CondesInv`) and that whoever asks for it
gets it (`TableInv`), and assumes `DispatcherAsks`: as in `runtime/rt/callirq.s`
(lines 30 and 35), the module that defines the dispatcher is the one that imports the
table's label, which no module exports; no option defines the dispatcher; and, where
duplicates are allowed, an object file exports a name once. Each program of the run is
like that. The proofs use `LinkerAssumption` and `ReadingAssumption`: `main` acts on
options while it reads the command line and on files behind it, and each file read is
an object of its own.

`Pages_proofs`, for any set and sequence of calls and swaps between any two accesses:
`IntoAPage` (`RendersIntoPage`), `Coherent` (`DisplayCoherent`), `NeverTorn`
(`NoTearing`) and `SwapsPages` (`SwapExchanges`), without an assumption on the program.
`PInv` says of each half-made update what it has stored so far, an address whose low
byte is the new one and whose high byte is still the old one (`ViewInv`, `DrawInv`,
`TargetInv`, `DispInv`), each only as long as no swap has come into it, and what the
swaps themselves have set (`SwapInv`, `ShownInv`). What a call may have left to do is
one of sixteen lists (`Todos`), and a swap may come at each of them.

`Irq_proofs`, for every table of handlers and any number of vertical blanks:
`NestingBounded` (`NestsOnce`), `OnlyLateLost` (`LostOnlyLate`), `ClockedOnce`
(`CountedOnce`). They rest on `IInv`. `NestsOnce` needs that only the engine's frame
is ever interrupted and that no engine starts on top of another, which is what
`SndSema` is for (`Nesting`). `ShownInv` says that the pass on top has shown the
pending blank to every interruptor it has called so far, and `OnceInv` that, once
the clock has seen a blank, the pass on top neither calls the clock again nor
starts the engine. Besides `IrqAssumption` they use `SortedAssumption`: the linker
sorts the table by priority, so that the C handler, which may end a pass, comes
last, and the engine before the clock. The run checks that the linked table is of
this form.

`Startup_proofs`, for every config file and all sections, whatever the size of the
memory: `SegmentsNeverOverlap`, `SegmentsFit`, `AlignedAsAsked` (`AlignmentsKept`),
`FileIsAsLinked` (`FileAsLinked`), `RelocationExact` (`Relocated`) and
`ProgramResident` (`Resident`).
The first two rest on `LInv`, which says how far the walk over the areas has come:
every segment placed so far in the area ends at or below the address where the
next one may begin. `TooLow`, the check of `START` and `OFFSET` against that
address, is what the disjunct of fixed addresses needs. `AlignedAsAsked` needs some
number theory, from `Euclid` to the prime divisors of a number and of what
`Factorize` leaves of it (`RemainderPrimes`): the combination of two alignments is a
multiple of both, and divides every other one if the two share no prime beyond the
table (`CombinedLeast`). `AlignInv` says so of the sections read, and of the segments
placed that their address suits the combination; `LeastInv`, that the combination's
primes come from the sections. They use of `LayoutAssumption` that the table holds
primes and that a segment has only one of align, start and offset, which the parser
of the config file sees to. `RelocationExact` rests on
`CopyInv`: below the index nothing is copied yet and the source bytes there are
still what the loader left, because the copy goes down and ONCE moves up, or
stays. `AlignUp` is the arithmetic of rounding up to a multiple.

`FileIsAsLinked` relates the two walks, of which the first only counts. `PlacingInv`
says of every area behind the first walk that there is a sequence of addresses and
file sizes, one for each segment of its list (`Trace`), which starts at the area's
address and file offset, of which `Stride` gives the next from the last, and which
ends at the area's level and the file's size; the offset of an area is the size
behind the area in front of it (`Chain`). The state keeps only the last members of
these sequences, hence the existential quantifiers. `WritingInv` says that the second
walk goes along the same sequences: `addr` is its member at the present segment, and
`pos` is as well if everything up to there is told of (`Told`, `At`), and as far
behind the area's offset as `addr` is behind its start if everything is written
(`Going`); the bytes of a file are those of the segments sent, and the length of a
file nothing overwrites is the position (`Bytes`, `Calm`). `FileOrder` is the order in
which `CfgWriteTarget` takes the areas, which is not the one of `CfgProcess`. TLC has
checked this invariant on the instance of the run `Startup`, with the sequences as
history variables. The properties make exceptions for what the second walk writes
otherwise than the first one counts (`Unpredicted`) or writes over (`Overwritten`);
they were stronger before the proof, and false for two areas of a file of which the
first is `Unpredicted`.

`ProgramResident` follows the bytes from the file into memory. `MemInv` says that code
and data stand where they run from the load on, that the image has ONCE at
`OncePhys` until the relocator is through, and where ONCE and a clear BSS are then. The
load is the step that needs the linker: it puts the file's bytes from the directory's
offset at `MainStart` and behind, so each segment must stand as far behind its area's
begin in the file as in memory. For code and data that is `FileAsLinked`. For ONCE
of an area that is not filled it is not, the BSS in front having no bytes: there
`EndsInv` says that a segment ends in the file where the first walk has counted it to,
by whatever sequence, since there is only one (`StepsUnique`), and `CountedTo` that
everything in front of the BSS is counted, so that ONCE begins in the file where the
BSS begins in memory (`OnceInImage`). The writes that follow are all above code and data
(`Regions`, from `LInv`). Two hypotheses are stated: `CartridgeAssumption`, of which
every config file of the library is an instance (main fits into memory, its
segments load where they run, BSS and ONCE are its last two and not aligned, and
`__ONCE_PHYS__` is `__ONCE_RUN__` just where main is filled); and `DirectoryRight`, that
the offset in the directory is where the linker has put main. `defdir.s` computes it
from the size the boot loader and the directory should have, and nothing checks that.
The configurations of the run satisfy both.

`Sound_proofs`, for any number of channels, any streams and any envelopes:
`RequestsExact` (`StopsAsAsked`), by `SInv`, which adds that requests are bytes: a
tick only clears the requests of the channels it ends, and `snd_stop`'s request
at a channel that is silent is overwritten by the `Start` of the next stream; and
`NoNoteHangs` (`Silenced`), by `QuietInv`, which distinguishes what is flagged, and
then mute, from what is not, and then already silent on the chip. `Silenced` alone is
not inductive: a channel silent on the chip may still be flagged with a volume.

`HandyMusic_proofs`, for any number of channels and all scripts, songs, effects and
samples, well formed or not: `NothingHangs` (`NoHangingNote`). `HInv` says how far
the tick has come: of the channels the walk has left, the free ones stand still, and
behind the walk all free channels do, because whatever takes or frees one there
stops its timer (`Settles`). The calls of the program need not keep it, and do not:
`UnPause` restarts the timers of channels that were freed meanwhile.

`SongEnds` (`SongStops`): `stop_music` leaves no note of the song, whatever ticks and
effects come between its steps. `SongInv` adds that a note of the song has the
priority of its track, by which `StopTrack` tells it from an effect, and that, when
no song plays, a note is only left at or below the track `stop_music` has come to.
Its hypothesis `[][Settled]_vars` is the restriction of section 6: no track changes
its priority under its note. TLC finds it true of the song of `MCHandyMusic`, whose
tracks end themselves by a change of priority.

`LoopsStayInSlots` (`LoopsInBounds`), for all scripts that are `WellNested` for some
sets of places: `LoopInv` says that every channel in use and every track is at a
place of its script, with the slots of its own holding the loops and calls around it
(`Holds`), and that a request is for an effect there is. What is to be shown is that
the driver keeps each script's nesting apart from the others': that slots of two
channels never coincide (`SlotsApart`), that a note or effect starts outside of all
loops (`BegunFits`), that a note-off leaves the slots as they are, that a track that
has ended inside of loops is still broken out of them correctly (`BrokenFits`). It
is what the mutant `BeginInLoop` breaks. All use `HandyMusicAssumption`.

Only model-checked: the liveness properties, temporal reasoning under fairness
being beyond the prover (`EveryByteSent`, `ReceiverServed`, `EngineComesFree`,
`WaitEnds`, `StreamsEnd`, `HandedBack`).

## 5. Not modelled

Each component in `PROJECT.json` says why it is left out. In short: the
arithmetic helpers, string functions, decompression and the assembler and compiler
are sequential programs over data; the SD cartridge's protocol has its other half
elsewhere; joystick and power are single register accesses. Suzy math, the
cartridge and the EEPROMs are planned below.

About modelled parts: a block donated directly above the heap end, once freed
space reaches it, touches the heap top without being joined to it, so
`Coalesced` is a promise only without donations; `HeapDonated` therefore does
not check the refinement. `clevel_irq`'s save area is not in `Irq`. The linker's
expressions, o65 and xex output, map, label and debug files are data.

## 6. Where code and documentation disagree

| Run | What happens |
|---|---|
| `LinkerSkip` | `LibResolve` deletes an unused library inside the loop over the open ones and so skips the one behind it: its modules take part in the symbols, but their code is not in the output |

Others that the models show and no run is spent on. Each can be seen by the
change named; the property then fails or the trace shows it.

Serial driver:

* A break between `ser_get`'s index read and its increment leaves a full ring of
  stale bytes; the header says a break drops all data. `SerBreak` with
  `Faults = {"Break"}`, `MaxPut = 1` and the property that only reception adds
  data to the receive ring.
* A break in the middle of `ser_put` makes the handler send a slot already sent
  in place of the new byte (`Faults = {"Break"}`; watch the byte `TxNext` takes).
* `ser_open` and `ser_close` leave `ser_stat` alone, so status bits survive a
  close and open; `serial.h` says "since the last open". `GoodFormat` keeps
  `stat` unchanged.
* While a transmit is in progress the handler never reads SERDAT, so a console
  that sends two bytes back to back overruns its own echo, although
  `doc/comlynx.html` says every byte comes back. `IrqEnter` turns to the transmit
  path whenever `txdone` is set.

Heap:

* `malloc` of 65534 or 65535 bytes, and `calloc` of an array larger than 64 KB,
  wrap to a small block: with 62 in `Requests`, or an array of product 64 and
  more in `Arrays`, `KeepsPromises` fails in `HeapList`.
* Growing the top block by nearly 64 KB moves the heap top below the block:
  `HeapList` with `Requests = {5, 46}`, `End = 38` and the invariant
  `BlocksDisjoint`.
* `_heapmaxavail` reports the space above the heap top even when it is smaller
  than any block and `malloc` refuses it; `MaxAvailMeant` says that this is the only
  time it reports too much.

Interrupts and display:

* The stub acknowledges vertical blanks nobody has seen, and `clock` loses them:
  in `Irq`, a blank that falls between the clock's poll and the store to INTRST is
  in none of the counts. `LostOnlyLate` says that no others are lost.
* A page swap between the two loads of `gfx_sprite` renders from $E038 or $C018 on:
  the 32 bytes beyond the pages are the vectors and the zero page, or what lies
  below page 1. `PagesTorn` finds it with a sprite and a pending swap;
  `RendersIntoPage` says that only such a swap, or one between the two stores of
  `gfx_setdrawpage` or `gfx_init`, can do that.
* After `gfx_setdrawpage` the next swap may show a page that was not drawn, since
  `drawpagenum` is not set; after a second `gfx_init` it may show page 1 although
  page 0 was drawn. Without its condition on `byhand`, `SwapExchanges` fails in
  `Pages`, and `NoTearing` fails likewise.
* A swap in the middle of `set_dispadr` leaves the old page on view until the next
  swap, flip or depth change, and so does a second `gfx_init`, which displays page 0
  whatever the view page is: without its condition on `spoiled`, `DisplayCoherent`
  fails in `Pages`.
* A swap between the load of the draw page and the end of a sprite has the sprite
  drawn into the page on view, against which `gfx_busy` is to be polled: without
  its condition on `spoiled`, `NoTearing` fails in `Pages`.

Sound engine:

* A frequency envelope is not heard: the reload register is written only for a
  channel whose flag is set to all ones by a new note, not to one
  (`lynx-snd.s:1209-1213`, against the comment at 973-976). `Sound` with
  `Streams <- SweepSong`, `SPECIFICATION Spec` and `PROPERTY SweepHeard`.
* A fade lowers the volume by 32 a tick and an envelope may raise it again: with a
  looped rising envelope a stop never ends, although the comment at 412-416
  promises the end. No looped envelope
  of `MCSound` rises on average.
* The mask bit of a channel that was silent at a ReturnAll stays set (line 332),
  so the next stream played there begins at the channel's old return address.
* A second `snd_pause` saves a stopped timer, and `snd_continue` before any pause
  stops a running one. `snd_stop` while paused waits for ever.

HandyMusic:

* A tick between `stx EnqueueNext` and `inc PlayRequest` (`handymusic.s:708-709`)
  starts an effect that is then started again; one between the test and the store
  refuses an effect though the request was just taken.
* `Mus_Sampl` of an unregistered slot stores its length over that of a running
  sample, although "An unregistered or empty slot plays nothing" (`hm-mus.inc`);
  with a high byte already 0 the handler's count wraps to 65535 bytes. Muting does
  not prevent the store.
* Retriggering a sample races with the handler's decrement of the two bytes.
* `PlayPCM` during a sample saves the forced pan as the one to restore. A
  sustained note on channel 0 stays silent after a sample, since nothing forces
  its update. Pausing does not stop a sample, and unpausing then turns channel 0's
  timer on under it.
* Note-offs do not reset `LoopDepth`, so a note-off section that loops may need
  more than the four slots. A track that changes its priority while a note sounds
  leaves that note behind `stop_music`.
* `Pause` and `UnPause` push X and Y and pull them in the same order
  (`handymusic.s:854-855, 881-882`), and `handymusic_main` called while disabled
  returns with interrupts masked.

Linker and startup:

* `BinWriteMem` fills the place of a segment that runs in a filled area and is
  loaded elsewhere (`bin.c:236`), and `CfgProcess` does not count it
  (`config.c:1786`): the next area of the file begins where it should not, which the
  code calls an internal error (comment at `bin.c:142`). `Startup` with
  `Configs <- FillConfigs` and the invariant `FileOffsetCorrect`.
* `LeastCommonMultiple` multiplies the remainders beyond the table of primes even
  if they are equal (`alignment.c:157`): two sections aligned to 257 are refused.
* `condes.c:227` says that the count is defined only if it is referenced; it always
  is. `Counted` counts it.
* A constructor in ONCE that calls `malloc` is given the memory it runs in: `crt0`
  lets the heap begin at `__ONCE_RUN__`. `HeapGrows` begins at `main`, as all
  constructors of the library behave.

## 7. Plan

Done, in this order: the serial driver, the heap, the dispatch core and the
display pages, where an error is likeliest and a test least likely to find it; the
sound engine and its busy-waits; the linker's symbols, libraries and
interruptors; its layout and files with the program's start; HandyMusic.

What is left:

1. `ComLynx`: several `SerDriver`s on one wire, with collisions; what two
   consoles that alternate can rely on.
2. `Cart`: block and byte position under open, read, seek and load, refined by a
   flat file position; `Multicart` on top of it.
3. `SuzyMath`: the one-operation-in-flight contract against an abstract
   processor, and the signed algorithms on narrow words against division.
4. `Eeprom`; the object and segment bookkeeping of ca65 and ar65; the checksums and
   decompressors as recursive definitions.
