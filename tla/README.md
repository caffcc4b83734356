# siplx: a TLA+ verification project

The repository holds the Linux software of a Sheldon Instruments PCI card with a
PLX 9054 bridge (the "cg400"): a kernel module, a user library over its ioctls,
and a program that sets the card's clock synthesiser. This directory holds TLA+
models of it, TLC configurations that check them on small instances, and proofs
that TLAPS checks.

All source paths below are relative to `src/hardware/cg400/linux/`. The models take
`long` to be four bytes, as the code does throughout (`siplx/plx.c:163`).

## 1. The system

| Part | Source | State | Operations |
|---|---|---|---|
| DMA transfer engine | `siplx/busmaster.c`, `siplx/isr.c`, part of `siplx/main.c`, `siplx/plx0206.c` | `struct transfer_info` for each channel, page lists, descriptor tables, the PLX registers INTCSR and DMACSR, a work item, two kernel timers | transfer ioctls, cancel, timeout, interrupt, bottom half |
| Scatter-gather list builder | `siplx/busmaster.c:501` | a descriptor table | one call a transfer |
| Board lifecycle | `siplx/main.c:118-299`, `siplx/init.c` | `pdx[]`: regions, irq, DMA memory, `init` | load, probe, open, release, unload |
| User DMA client | `common/sicommon_plx_lnx.cpp`, `setfrequency/siabstract.cpp` | `wait_event`, the SIGIO handler | block and addon-initiated transfers, messages |
| NVRAM access | `siplx/plx0206.c:79-226`, `common/sicommon_plx_lnx.cpp:1090` | the VPD register, the write-protect bits | read and write a word |
| Board handles | `setfrequency/cg400_lib.cpp:88-214` | four handles, the one `gPLXDev` | count, open, close |
| Serial EEPROM | `setfrequency/cg400_lib.cpp:309-547` | port lines, the EEPROM's shift register | bit-banged read and write |
| Clock synthesiser | `setfrequency/cg400_lib.cpp:553-837` | ports, PLL, DDS | set the frequency |
| Register windows | `siplx/plx.c`, `siplx/plx0206.c:19-75`, `setfrequency/siabstract.cpp:334-934`, `common/sicommon_plx_lnx.cpp` | card registers, the board's block/point mode, the direction of the FIFO | blocks and single words of a space, operation registers, mailboxes, the configuration space |
| PLX 9030 interrupt branch | `siplx/isr.c:172-226`, `siplx/init.c:223` | the 9030's INTCSR | reading and clearing LINT1 and LINT2 |
| Card buffer mapping | `siplx/plx0206.c:229`, `siplx/main.c:643-721` | `mmap_sem`, the mapping, DMLBAM and DMPBAM | map, release |

How they interact. A process calls the user library, which calls an ioctl. A
transfer ioctl spins on `in_progress`, claims the channel, pins the user's pages,
builds the descriptor table, programs the PLX and returns while the card moves
the data. The card's interrupt is acknowledged by `SIPLX_isr`, which records the
source in `just_completed` and queues a work item; the work queue runs
`SIPLX_isr_bottomhalf`, which unpins the pages, clears `in_progress` and sends
SIGIO; the library's signal handler sets `wait_event`, on which the process
spins. A kernel timer, if set, aborts a transfer that takes too long.

Single words and small blocks go another way: an ioctl of `plx.c` steps through a
window with the processor, under no lock.

What is hard. Five kinds of actors (processes, interrupt, work queue, timers, the
card) share plain fields without a lock: the `status` rwlock is taken only around
the store that clears `in_progress`. Registers are updated by read and write
back. Several failures leave state behind. What makes the parts correct:

* DMA engine: the card touches only memory pinned for the current transfer; pages
  are unpinned once, lists freed once, nothing leaks; a completion is served and
  taken for the transfer it belongs to; every transfer ends.
* List builder: the chain covers exactly the buffer and ends.
* Lifecycle: what was acquired is released once; nothing runs after unload.
* Client: a call returns when its own transfer is done, and it returns.
* NVRAM, EEPROM: a read returns what was written; write protection is back on.
* Handles: a handle reaches its own card.
* Windows: the words of a call go to the addresses asked for, whatever mode others
  set meanwhile, and through a FIFO turned their way.
* 9030: the request a handler was called for is cleared. Mapping: it ends.
* Clock: the PLL and the DDS hold the words of the frequency asked for, never half of one,
  also when a program is killed in between.

## 2. The modules

| Module | Models | Extends |
|---|---|---|
| `BusMaster` | the DMA transfer engine of one board | |
| `BusMasterInv` | the limits (`Fits`, `Limits`, `Discipline`) and the inductive invariant `IInv` | `BusMaster` |
| `DmaChannel` | what a DMA channel promises, without the driver's machinery | |
| `BusMasterRefinement` | the mapping of `BusMaster` to `DmaChannel` | `BusMasterInv` |
| `BusMaster_proofs` | what holds in every environment, what under `Discipline`, and the refinement | `BusMasterRefinement`, `TLAPS` |
| `ScatterGather` | the descriptor chain of one channel | |
| `ScatterGather_proofs` | what holds of the chain, and of what it moves, for every page size, table and word | `ScatterGather`, `TLAPS` |
| `BoardLifecycle` | loading and unloading the module | |
| `BoardLifecycle_proofs` | that the driver's table and the kernel agree, for any cards and failures | `BoardLifecycle`, `TLAPS` |
| `NvRam` | the configuration EEPROM through the VPD registers | |
| `NvRam_proofs` | types, and what calls do that do not overlap | `NvRam`, `TLAPS` |
| `SiplxClient` | processes that transfer through the user library, and the card's DSP | `BusMaster` |
| `SiplxClient_proofs` | what one process can rely on | `SiplxClient`, `BusMaster_proofs` |
| `Cg400Eeprom` | the serial EEPROM, and its calls as sequences of register writes | |
| `Cg400Clock` | the PLL and the DDS, and their calls as sequences of port writes | |
| `Cg400Lib` | programs that open boards and make those calls | `Cg400Eeprom`, `Cg400Clock` |
| `Cg400Lib_proofs` | the PLL and the DDS, for any programs, kills and cards | `Cg400Lib`, `TLAPS` |
| `Cg400Eeprom_proofs` | the serial EEPROM, bit by bit, for any programs and cards | `Cg400Lib_proofs` |
| `PlxWindows` | programmed access to a card, from the library call to the single word | |
| `PlxWindows_proofs` | its three properties, for any processes, calls and cards | `PlxWindows`, `TLAPS` |
| `Plx9030Irq` | the interrupt line shared by 9030 and 9054 cards | |
| `AddonMap` | the mapping of the card's buffer, and the semaphore it takes | |
| `MC...` | constants for TLC | the module of that name |

`PROJECT.json` maps every definition to the lines it models. A definition whose
name begins with `Mutant` is a plausible bug in the definition after it; no
specification uses it.

### 2.1 BusMaster

One record of `struct transfer_info` becomes a function on the two channels
`"read"` and `"write"`; the two copies of the code in `busmaster.c` and in `isr.c`
(read and write, the same text over other registers) are written once over a
channel. Each variable has the name of the field it models, with these additions:

* `heap` says of each page list whether it is free, allocated (`"held"`) or
  allocated with its pages pinned; `desc` says which list a channel's descriptor
  table addresses. The table itself belongs to `ScatterGather`.
* `enabled`, `running`, `irq`, `doorbell`, `intcsr` are the card's registers.
* `timer`, `handler`, `work`, `sigio` are the kernel's: an armed timer, a timeout
  handler that runs, the one pending bit of the work item, the processes with a
  pending SIGIO.
* `pc`, `job`, `reg` hold where each process and the work queue is, which transfer
  it is at, and its local copy of INTCSR.

An action ends where another actor can see or change what the next statement uses.
The INTCSR updates are two steps, read and write back. The interrupt handler is
three (acknowledge, mark, queue), since a process may run on another CPU between.
The store of `in_progress` under `write_lock(status)` is one step.

Lengths are in words of four bytes, and `count` is a word count throughout.
A buffer is an offset in its first page and a length. The signed/unsigned
comparison of `busmaster.c:123` is `Rejects`: a negative error is not less than
`nr_pages`. `SIPLX_Build_SGL` called by the bottom half, where `current->mm` is
NULL, is the step `Oops`.

### 2.2 DmaChannel

A channel is claimed, pins a buffer that no other channel has, moves it, is
finished by the card, unpins and becomes free; or it is given up before it starts.
A channel of the driver is "done" from the card's interrupt to the store that
clears `in_progress`, and its buffer is the list `pages[c]` while that is pinned.

### 2.3 ScatterGather

Bytes and addresses in C's unsigned arithmetic (`Modulus` for 2^32). The table
`tscrpt` is kept from one call to the next, as in the driver, so a descriptor that
is not written again is one of an older transfer. `moved` collects what the
engine has moved, card address by card address. The engine (`Load`, `Move`) is
external: it takes what `doBlockDMA` puts into DMAPADR, DMALADR, DMASIZ and
DMADPR, or what DMADPR points to.

### 2.4 BoardLifecycle

`pdx` is the driver's own table; `chrdev`, `cdevs`, `irqs`, `regions`, `dma` are
what the kernel holds on the module's behalf, so that the two can differ. Each
call that may fail is a step with both outcomes if `Failures` names it. `mapped` is
apart from `regions` because the result of `ioremap` is taken as it is: after a
failure the region is requested and there is nothing at its address. Open files
are there because processes come and go while cards are added and removed; what
they transfer is left to `BusMaster`. `clean` is a history variable: nothing was
refused, and every board has an interrupt.

`CleanupGivesBack` is about loads in which something was refused. `module_cleanup` goes
by the table, from slot 0 to the first one that was not initialised: a slot that is
not marked so, or is marked too early or too late, hides the boards behind it. What
stays after a cleanup is the regions of the one board that `SIPLX_board_init` failed
on, and the registrations of boards without an interrupt.

### 2.5 NvRam

Each ioctl is broken at every access to the VPD registers, and the library's write
at every ioctl. `Polls` stands for 200. `start` and `wrote` are history variables.
Calls are for at least one word, all of them in the EEPROM (`o + n <= Words`): the code has
no such bound and leaves it to its callers. The library's error returns are left out.
Those of `SI_PLX_WritePCI_NVWord` after the protection was taken off would leave it
off, but on an open board `SIPLX_NVRamWrite` has no result other than 0.

### 2.6 SiplxClient

Every step of a process is one of the library's; `InDriver` takes the process
through `SIPLX_doBlockDMA` as `BusMaster` has it, and `Kernel` is the rest of the
driver, unchanged. `at` is where a process is: about to call the driver (`"block"`),
in it, back from it, in GET_ADDON_ADDR, or in the loop on `wait_event`. The ioctl's
return and the loop are separate steps, between which the signal may come; a
process that is in the driver gets its signals when it returns.

`P9054_DMAReadWriteBlock` turns the card's FIFO (`direction`, the store at
0x800000) before it calls the library. `SI_PLX_AddonInit` is both
`SI_PLX_ReadAddonInit` and `SI_PLX_WriteAddonInit`, which differ in the side of the
wait on which they copy. The DSP obeys, and rings; it may also ring unasked, at most
`Unasked` times.

`stray` is a history variable: a signal may come that is not for this call, since a
doorbell was rung unasked or something had not ended when the call began.
`ReturnsWhenDone`, `DirectionKept` and `WriteEndsAlone` hold up to it: with such a
signal a block read does return early, and what follows from that is allowed.

### 2.7 Cg400Eeprom, Cg400Clock, Cg400Lib

A call of `cg400_lib.cpp` is a sequence of operations on the card, computed by an
operator of the call's name; `Cg400Lib` runs it one operation at a time through the
handle, so that a program can be killed between two. The chips are external:
what an edge of a line does to an EEPROM (93C56), to the PLL's shift register
and latches (LMX2316) and to the DDS (DS852), as far as the code relies on it.

`EEPROM_DELAY` reads CNTRL before every write, so a write is "set" or "clear" of
lines. Port 0 is the set of its lines that are one, and has the two copies of the
code, `WGR` and `Port0_Value`. `hDevice` is the file of the one `gPLXDev` behind
all handles. `ready`, `freq`, `before` are history variables for the properties.

### 2.8 PlxWindows

A library call is a record of `Call`, and its ioctls a sequence computed by an
operator of the function's name; the driver makes them one word at a time. What a
word says is left out, but for the one that turns the FIFO: `trace` keeps the
addresses that the words of an ioctl went to. A window is its size; past its end
an access may hit something or nothing (`Oops`), a window the card does not have
has size 0 and begins at address 0. The address that the kernel's code compares and
steps is `addr`, from the window's start.

Reads and writes take the same path and are one action, with `write` in the record.
`SI_PLX_DriverConfig_BlockPoint` is an ioctl of any process for the whole board, so
`DriverConfig` may come between two words of another's call. `mixed` and `disturbed`
are history variables: the mode was set since the ioctl began; and during this call the
block itself ran over the FIFO's register, or another call turned the FIFO the other way
(`Disturbs`; one that turns it the same way disturbs nobody). `FifoTurnedItsWay` asks
what the register holds at each word, whoever wrote it last.

### 2.9 Plx9030Irq

The kernel calls the handler of every board on the line, in any order, and gives the
line up after `NobodyCared` unanswered interrupts. A board has two words: the one at
INTCSR and the one at the offset the driver uses, which for a 9030 is another. The
9054's part of the handler is reduced to one request; `BusMaster` has the rest.

### 2.10 AddonMap

The ioctl is broken where it takes and gives back the `mmap_sem` of the process, which
its threads share. `BusMaster` and `SiplxClient` have the rest of `SIPLX_GetAddOn` (its
update of INTCSR among the others) as though the mapping returned: what they show of
it is what would hold with the semaphore taken once, as in the `do_mmap` call that is
commented out at `siplx/main.c:704`.

## 3. What TLC checks

Runs that pass:

| Run | Specification and environment | What it shows |
|---|---|---|
| `exclusive` | a process on each channel, a buffer that crosses a page and fills the table, doorbells that stay masked, `kmalloc` and `get_user_pages` may fail | the invariant `IInv` and what follows from it: `DMASafety`, `ReleaseSafety`, `NoLeak`, `IrqClaimed`, `ReleasedOnlyWhenDone`, `ClaimedOnlyWhenQuiet`, and that the driver implements `DmaChannel` |
| `rough` | one process on both channels, timeouts, cancel, GetAddOn, oversize buffers, one page list | types; a recorded read completion is never lost (the invariants of `exclusive` do not hold here) |
| `scatter_gather` | 21 buffers over pages of 8 bytes and a table of 3, block and point mode, pages that cannot all be pinned | exactly the buffer is moved, through pinned pages; pins balance; the chain ends |
| `lifecycle` | three cards, two slots, every kernel call may fail | only what is held is given back; the handler, and an open file, have their registers; a load without refusals leaves nothing behind when unloaded, and any other no interrupt, no DMA memory and no regions but those of the board that failed (`CleanupGivesBack`); loading ends |
| `client` | one process that makes every kind of transfer, a DSP that rings when it is done and once unasked, pages that cannot all be pinned, fairness | a call returns when its own transfer is done (`ReturnsWhenDone`) and it returns (`CallReturns`); the FIFO stays turned and the interrupt unmasked while data moves; reads end, and so do the writes of a process that was not misled by a stray signal |
| `cg400` | one card, five frequencies, an EEPROM of four words, programs of which one is killed | the PLL holds its words and the DDS follows the frequency, never by half a word; EEPROM calls read and write the words at their address (writes to addresses within the EEPROM's words) |
| `windows` | two processes, 20 calls of every function, two cards, any mode at any time | words go forward from the offset asked for; a call that reports success has moved the words it was asked for; a block passes a FIFO turned its way (cards whose space 0 reaches the register; undisturbed) |
| `nvram` | one process, three words, reads and writes of one or two words, a chip of any speed | calls do their work, change no other word, leave the protection on, and end |

Runs that find a comment or a stated limit of the code violated (each is a finding
in `PROJECT.json`):

| Run | What it shows |
|---|---|
| `write_ends` | a bottom-half run serves one source; when read and write complete together the write is left behind |
| `early_return` | the signal of one process's transfer ends the wait of another, whose transfer is still moving |
| `lint` | the handler of a 9030 reads and clears the wrong register: the request it was called for stays asserted |
| `addon_hang` | a process that asks for the card's buffer takes its own `mmap_sem` twice and never comes back |

Seven more were seen while modelling, and are in the models though no run is spent on
them:

* `SIPLX_Build_SGL` returns -ENOMEM or -EFAULT, which `busmaster.c:123` compares as
  unsigned and takes for success: the engine starts on stale descriptors
  (`Rejects` in `BusMaster`).
* "abort any active DMA" (`main.c:222`) is not done: `module_cleanup` goes on to free the
  memory and the handler of a transfer whose process closed its file. No run shows it:
  `BoardLifecycle` leaves transfers out, and `BusMaster` unloading.
* The handle of the first board reaches the second card once that is opened
  (`Cg400Lib`: one `gPLXDev`).
* Past "stop the timeout" (`isr.c:236`) the timer may still be armed, or its handler
  running.
* An EEPROM write at word 128 of 128 passes "EXIT IF PARAMETERS OUT OF RANGE"
  (`cg400_lib.cpp:436` has 128 where the read has 127), and the chip, which ignores the
  first address bit, stores it in words 0 and 1 (`InBounds` in `Cg400Eeprom_proofs`).
* `CancelDMA` never stops a read, since nothing assigns `t_type` (`isr.c:459`).
* Of two processes that write the NVRAM at once, the second restores the protection
  it read while the first had it off.

### Bounds

* `BusMaster`: pages of two words, tables of two descriptors, one or two buffers,
  two page lists (`SiplxClient` the same). A buffer that crosses a page, one that
  also fills the table and one that exceeds it by half are the cases the code
  distinguishes; two lists are one a channel, and one list makes `kmalloc` fail. The
  theorems have no bounds.
* `ScatterGather`: 3 descriptors give a first, a middle and a last one, which the
  code treats differently; offsets 0 (a page boundary), 4 (a word) and 6 (inside a
  word) with every length that fits. `Modulus` is 128, and no request wraps.
  Left out, and listed as hazards: an empty buffer on a page boundary, and counts
  near 2^30 words.
* `BoardLifecycle`: two slots for three cards, so that the table can be full and a
  slot reused; two regions, so that the second can fail after the first.
* `SiplxClient`: one unasked doorbell (`Unasked`): it makes one call return early, so
  that two transfers are outstanding at once, which is as far as one process gets.
* `Cg400Lib`: an EEPROM of 4 words of 2 bits with addresses of 3 bits, of which, as in
  the 93C56, the first is ignored; addresses up to the last word, one inside it,
  and past the bounds. Tuning words of 4 bits in two halves, a full scale of 5:
  off, two frequencies below full scale, and one past each bound of
  `cg400_SetFrequency`. The PLL's words are the code's own. `MaxKills` = 1: the
  second program starts from what a kill left.
* `PlxWindows`: two processes, so that one sets the mode or turns the FIFO in the
  middle of the other's call. The calls have 0 to 3 words (a first, a middle and a last
  one; 5 and 4 where the function says so), in each width, inside a window, at its end
  and past it, in a window the card lacks, across the FIFO's register and at it, and
  mailboxes on both sides of the gap between the two groups. One card has the FIFO's
  register in its space 0, the other has not. The theorems have no bounds.
* `Plx9030Irq`: two 9030s, so that one answers for the other, and a 9054.
  `NobodyCared` = 2, for the kernel's 99,900. `AddonMap`: two threads, two mappings
  (`MaxMapped`).
* `NvRam`: `Polls` = 2, so that a command is given again after one poll or two; two
  values a word; two words a call.

`CHECK_DEADLOCK FALSE` stands in the cfgs of systems that stop: a process that
spins on a channel nobody will clear, a module that failed to load and left
something behind, or that was unloaded with a transfer running, a process that died
of an oops, a line the kernel has given up, and threads that sleep on a semaphore.

### Fairness

* `BusMaster!KernelFairness`: kernel code that does not wait runs on, an asserted
  interrupt reaches its handler, queued work and expired timers run. The spin loop
  of `busmaster.c:70` gets no fairness: it reads a plain field that the compiler
  may keep in a register. `CardFairness`: the card moves the data of a channel
  that was started. Processes may stop calling at any time.
* `ScatterGather`: weak fairness of the driver's and the engine's steps, none of
  new calls.
* `BoardLifecycle`: `insmod` and `rmmod` run on once begun.
* `SiplxClient!ClientFairness`: a process in the middle of a call runs on, signals are
  delivered, the DSP does what it was asked. The loop on `wait_event` is fair because
  `setfrequency/Makefile` builds without optimisation, so the field is read each
  time. Nothing makes a process begin a call, or the DSP ring unasked.
* `AddonMap`: a thread in the kernel runs on, and the semaphore passes over nobody for
  ever (strong fairness of the ioctl's steps, weak fairness of a transfer's). Nothing
  makes a thread ask for the buffer, or release it.
* `NvRam`: processes run on. Strong fairness of the chip's answer while it is
  polled: with weak fairness alone the chip may answer just after the last poll
  every time, and the command given again undoes the answer. This is an assumption
  about the hardware (the delay of 200 polls and the chip's own time are not in
  step); without it TLC shows the endless loop.

## 4. What is proved

For every value of the constants that satisfies `BusMasterAssumption`:

* `BusMaster_proofs`: `TypeCorrect` and `ReadCompletionIsKept`, in every
  environment: any processes on any channel, any buffer, timeouts, cancellation.
  The second needs no more than types: wherever `just_completed["read"]` is set,
  the handler is about to queue the work item, the item is queued, or the bottom
  half has yet to look.
* Also there, under `Discipline`: `PhasesKeptApart` (`[]IInv`), and
  from it `DMAIsSafe`, `ReleaseIsSafe`, `NothingLeaks`, `InterruptsAreClaimed`,
  `ReleasedWhenDone` and `ClaimedWhenQuiet`.
* And, under `Discipline`, `DriverImplementsDmaChannel`, for pages, tables, lists and
  buffers of any number and size.

`Discipline` names the limits within which the driver is right: one process a
channel and buffers that are mapped (`Limits`), buffers that are not empty and no
larger than a table (`Fits`), no cancellation and no timeouts. `rough` is the run
outside them. `Limits` and `Fits` have names of their own because the steps of
`doBlockDMA` need no more, and the client's proofs take them up from there.

None of the safety properties is inductive. That the pages are pinned while the
card moves data follows from the order of the call, the interrupt and the bottom
half, so the invariant says where a transfer is: `OnePhase` (programming, moving,
interrupt waiting, being recorded, recorded, being tidied up exclude one another,
and are excluded by a channel that is not in progress), `OwnershipOK` (in each phase
exactly one channel owns a page list, and it is pinned in the phases of
`HasPinned`), `PlacesOK` (a process is at a label of a call that fits) and
`NoTimeouts`. Each action is a lemma; the cases of one action go by the parts of
`IInv` it can disturb.

The refinement maps a state to `PhaseOf` and `BufferOf`. The lemmas `LooksNow` and
`LooksNext` reduce both to facts about the phases, each action either leaves every
channel as it looks (`Stutters`) or takes one step of one channel (`AbstractStep`).

`ScatterGather_proofs`, for pages, tables and words of any size: `SGTypeCorrect`,
`SGInvariant` (`[]SGInv`: while it is built and followed, the chain stays inside the
buffer, whose pages are pinned) and `PinsAreBalanced`. `SGInv` says how far the
build has come (`k` descriptors of `n`) and that every descriptor up to there
is one of the call's own; it is inductive. Then, under `NoWrapAround`,
`MovesInvariant` and `BufferIsMoved`: exactly the buffer is moved. That buffers end
below 2^32 is what `busmaster.c:22` takes for granted; the requests of the run are such.
`MovesOK` gives each descriptor in closed form: segment `k` starts `Upto(r, k)` bytes
into the transfer (`Segments`: one after another, the first within its page), the table
has those filled so far, and `moved` is the transfer up to the segment the engine is at.

`BoardLifecycle_proofs`, for any cards and slots and whichever kernel calls are
refused: the six safety properties of `lifecycle`, with no hypothesis. The driver's
table and what the kernel holds are set by different statements, so the invariant
`LifecycleInv` says how they keep in step: `SlotsOK` (the slots before `card_num` are
those of cards already found, in the order of the bus, one slot a card; also for a slot
left half set up, which the next card takes over), `BoardOK` (what the table says of a
board at each stage of `SIPLX_board_init`), `IrqsOK` and `HeldOK` (the kernel has what
the table says, and what `module_cleanup` has yet to come to), `FilesOK`, and `CleanOK`
(where nothing was refused, the kernel has nothing else). `CleanupGivesBackTheRest` is
about loads in which something was, and rests on `RestOK`: at every step the kernel holds
no region and no DMA memory but what the table says of boards `module_cleanup` has still to
come to, and once it runs, slots from `card_num` on have no DMA memory, and regions only
of the card that failed.

`NvRam_proofs`: `NvTypeCorrect`, for any processes. Then `NvInvariant`,
`NvCallsDoTheirWork`, `NvWriteProtectOn` and `NvWritesItsWordsOnly`, for behaviours
in which calls do not overlap (`[]Alone`, which one process satisfies by itself): the
driver takes no lock, and two callers do break them. `CallInv` says what a call has read
or written so far (`ReadOK`, `WriteOK`), that a command the chip is at is the one the call
has come to, whether it is given for the first time or again (`ChipOK`), and between which
steps the protection is off (`ProtectOK`).

`SiplxClient_proofs`, under `ClientLimits` (one process, mapped buffers that fit; it
may also ask for empty ones and for the addon's messages, and the DSP may ring unasked):
`CallsReturnWhenDone`, `FifoStaysTurned`, `InterruptsStayUnmasked` and the invariant they
rest on. A step of the library either is one of the driver or leaves it alone, so `IInv` is
half of the invariant, its proof reused. The other half says where a process is in both
(`PlaceOK`), that what it has read of INTCSR is still so when it writes it back (`RegOK`),
that the FIFO is turned for the block about to start (`TurnedFor`), and that a call no stray
signal can reach is alone with what it started (`CallAlone`): nothing in the card, the
kernel or `sigio` could end its wait early. One process is the limit of the
code, not of the proof: `early_return` shows the first property false for two.

`PlxWindows_proofs`, for any processes, any calls and cards of any size:
`WindowsInvariant` (`[]WindowsInv`), `WordsAreInOrder`, `CallsDoTheirWork` and
`FifoIsTurned`. The properties speak of the words already moved or of a call about to
return; the invariant says why they come out so. `Plan`: what is left of a call is
nothing, its block, the FIFO's turn, or the turn and then the block, and the block's
words are those the call asks for (`Moves`, one lemma a library function; for the
mailboxes it needs the bound of `MailboxOK`). `InOrder` and `OnCourse`: where the next
word goes, given those that went before, with and without a change of the mode.
`AtRest` and `InLibrary`: nothing is left over from one ioctl or call to the next.
`FifoOK`: where `WantsFifo`, once `HasTurned` (the words are next, or the word that turns
the FIFO has gone), the FIFO is turned the way of this call.

`Cg400Lib_proofs`, for any programs, cards and kills, and halves of a tuning word of up
to the code's 16 bits: `WholeWords`, `PllIsProgrammed` and the invariant of both,
`ClockInvariant`. A call is a sequence of writes, and the properties speak of its end, so
`ClockInv` says what the chips hold in the middle: `CopiesOK` (the library's two copies of
port 0 and the port differ in the RAM's line only, and agree while a call sets the clock),
`WordsOK` (`STRP` is up only when both ports hold their half of a word that was asked
for, also on a card whose program was killed there), `PllOK` (the first words are latched,
and the register holds the bits of the next one up to the bit the call has come to). Then
`FrequencyFollowed`, whose invariant is `DdsOK`, under `OneBoard` and `BelowFullScale`: all
handles reach one device, so a second board would take the first one's writes, and from
full scale on the word does not fit. Both are limits of the code, and the run `cg400`
is within both. `cg400_initialize` makes 205 writes, three calls of `Load_PLL` of 67 each,
written as sequences joined and flattened; `FlattenTriples`, `LoadWrites` and `InitWrites`
give the write at each index. The induction that the flattening needs is over one set of
numbers, with the least element of a well-founded order (`Induct`).

`Cg400Eeprom_proofs`, for any programs and cards and any number of words up to those of
the code's 93C56 (`AddrBits` up to 8, `WordBits` up to 16): `RomInvariant`, `EepromReads`
and `EepromWrites`. The properties speak of the end of a dialogue of hundreds of clock
edges; `RomOK` says where it is at each of them. A call is a few frames, each the bits sent
between two falls of chip select (`EnableFrame`, `ReadFrame`, `WriteFrame`). `Left`: which
operations are left; `AtBit`: how far a frame has been sent, down to the edge of a bit;
`Taken`: that the chip has just the bits before it, and answers with the bit asked for;
`Lines3`: what the lines are, and that `READ_Data` is as much of the answer as has been
sampled. `Reading` and `Writing` put the frames of a call in order, with what the EEPROM
stores between them; `Rests` is all that can be said of the other cards. The proof has four
parts. Numbers and their bits: what a number's bits say of its fields (`Field`, `Decoded`), and
that an answer grows by a bit as the code's shift and add make it (`NextAnswer`). The scripts: a call's sequence of operations,
joined and flattened, is its frames one after another (`ReadScript`, `WriteScript`,
`CallScripts`). The chip: what it does at each bit of a frame and when it is
deselected after one (`BitTaken`, `Released`, `WordStored`). And the steps:
`ReadStep` and `WriteStep` take each operation one step further.

Two hypotheses are limits of the code. `NoEepromKills`: no program is killed inside an
EEPROM call, which leaves the chip selected half way through a command (the run `cg400` is
within it). `InBounds`, for `EepromWrites` alone: no write at the one address past the end
that the code lets through, which overwrites the first two words. The bounds on the two
widths are those of the code's types; powers of two up to them are checked one by one,
since nothing in the prover multiplies out `2 ^ n`.

Only model-checked: all liveness (`ReadEnds`, `WriteEndsAlone`, `CallReturns`,
`ChainEnds`, `LoadEnds`, `CallEnds`), which with its fairness is out of the prover's
reach.

## 5. What is not modelled, and the plan

Of the driver: an interrupt between `request_irq` and `INIT_WORK`, the
`BUSMASTERED_*_DONE` ioctls (they only read), and the `status` lock as a lock (a
timeout's soft interrupt may spin on it for ever; the models treat the one store
under it as a step). `HARD_RESET`, which runs `release` on a file that stays open, is
a hazard without a model: no call of the library makes it. Memory is sequentially
consistent. Of programmed access: what the words say, and `put_user` and `get_user`
on a caller's buffer that is not mapped, whose results the driver does not look at.

Of the library: the messages from the DSP (`SI_PLX_WaitMessageFromDSP` waits on a
message queue nobody sends to), `SI_PLX_SetTimeout` and `SI_PLX_CancelBlockDMA`
(their ioctls are in `BusMaster`), `P9054_IntEnable`, which reads and writes back a
register through two calls of `PlxWindows`, and DMA to local addresses from 0x800000
on, for which the FIFO is not turned. Of `cg400_lib`: the GPIO register, the RAM's
contents, the protected-area register, return codes, kills inside an EEPROM call, and
frequencies above full scale, whose conversion to an integer is undefined.

Next: a model of the `status` lock with CPUs.

Not planned: the stubs of `read`, `write` and `poll`, the build and install scripts,
and the interactive test program: they keep no state.

## 6. Running the checks

    tlc -workers 2 -config exclusive.cfg MCBusMaster
    tlapm BusMaster_proofs.tla

`cg400` (5 million states), `rough` (3 million) and `exclusive` (300,000, with the
refinement) take about a minute each, the others, `windows` (400,000) among them, less.
The eight proof modules take some minutes each, or less, from nothing.
