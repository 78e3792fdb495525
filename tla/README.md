# Verification of the mini-rv32ima emulator

This directory is a TLA+ development of the emulator in `mini-rv32ima/`: the
processor core of `mini-rv32ima.h`, the machine around it in `full-rv32ima.c`,
and the devices (`plic.c`, `virtio*.c`, `pl011.c`, `network_tap.c`), with the guest code of this
repository that talks to them (`lk/`, `fbdoom-overlay/`) and the write-back cache of
the shader experiment (`cachetest/`). The modules
are checked with TLC on small instances, and the theorems in the `*Proofs`
modules are checked with TLAPS for every value of the constants. `PROJECT.json`
lists the components, the runs, the line of the source each definition stands
for, and the hazards the properties are for.

Paths below are relative to `src/`; a name without a directory is in
`src/mini-rv32ima/`.

## The system

One process, two threads.

* The **main thread** runs the loop of `main` (`full-rv32ima.c:611-674`): sample
  the host clock, run one `MiniRV32IMAStep` with `irq_mutex` held, react to what
  it returns (sleep, restart, stop), draw, poll the UART.
* The **reader thread** (`network_tap.c:25-38`) blocks in `read` on the tap, and
  calls `callback` of `virtio-net.c` for every packet.

A Step runs up to 1024 guest instructions. A guest load or store outside RAM is
routed to a device (`mmio.c`), so the whole body of a device handler runs inside
the Step, on the main thread, with `irq_mutex` held. The threads share: the
hart's `mip` and `extraflags`, `irq_pending` and `irq_claimed` of the PLIC,
`InterruptStatus` and the used ring of the network device, and the list of
receive buffers.

| component | state | operations | interacts with |
|---|---|---|---|
| hart control (`mini-rv32ima.h`) | pc, privilege, wait flag, mstatus, mie, mip, mepc, mtvec, mcause | Step: timer test, wait, dispatch, instructions, trap, MRET, WFI, CSR | called by the main loop; devices raise and clear `mip` |
| hart data (`mini-rv32ima.h`) | registers, RAM, pc, mtval | decode and execute one instruction | RAM, MMIO |
| timer (`mini-rv32ima.h`, `full-rv32ima.c`) | timerl/h, timermatchl/h, lastTime | advance by the elapsed microseconds, compare, `MiniSleep` | host clock, `ppoll` |
| LR/SC (`mini-rv32ima.h`) | the reservation in `extraflags` | LR, SC, AMO | the guest's contexts |
| PLIC (`plic.c`) | irq_pending, irq_claimed | raise, clear, claim, complete | devices on one side, the hart's line on the other |
| virtio transport (`virtio.c`) | rings, read_ptr, write_ptr, InterruptStatus, Status | notify, completion, acknowledge, reset | device types by callback, PLIC |
| network (`virtio-net.c`, `network_tap.c`) | list of receive chains | notify appends, reader pops and completes | transport, PLIC, its own mutex |
| disk (`virtio-blk.c`) | sector_count | completes at once; looks at the size of the image before every command and configuration load | transport |
| keyboard, mouse (`virtio-input.c`) | list of event chains, relative mode | send_event, HandleKey, HandleMotion, HandleButton | window system, transport |
| UART (`pl011.c`, `stdio.c`) | irq_status, irq_mask, end of file | poll, data, flags, mask, clear | stdin, PLIC |
| MMIO (`mmio.c`) | list of ranges, next_base | route | every device |
| boot (`full-rv32ima.c`) | next_guest_alloc, next_guest_top_alloc, next_irq, images, device tree | load, patch, restart | everything |
| GPU cache experiment (`cachetest/`) | sets of cache lines, cache_usage, a shadow of RAM | load, store, FlushRunlet, restart | a Step of the same hart |
| guests (`lk/`, `fbdoom-overlay/`, ...) | receive buffer of LK's UART driver, Doom's event ring | interrupt handler, getc, event post and pop | the devices above |

What is hard here: two threads that share words with and without locks; a
register protocol (claim, status, acknowledge, complete) whose steps interleave
with completions; a hart that may sleep and must be woken by every cause; clocks
of one or two words that carry and wrap; ring indices that wrap; groups of events
and packets in pieces, of which some may be dropped; state that a reset or a
restart does not reset. Nothing is persisted and no message crosses a
network that this code retries, so crash recovery and lost messages are not
hazards of this system.

What makes each part correct:

* hart: an enabled interrupt is taken, in order, before any further instruction;
  what a trap saves is what MRET brings back; a wait ends with every new cause.
* timer: it follows the host clock; an interrupt is taken only when due; a wait
  does not outlast its deadline.
* PLIC and transport: no event is left without the line, and the line is not
  left up without an event; every used buffer is seen.
* instructions: each has the result its mnemonic names, stores nothing else, and
  leaves no trace when it traps.
* virtqueue: buffers are taken and returned once, in order, wherever the indices
  wrap, and a packet is whole in them however the chain cuts it.
* console: every byte typed comes to the reader once and in order, and a masked
  UART has somebody to unmask it.
* network: the list stays a queue under both threads, a buffer has one owner, the
  threads do not wait for each other.
* input: the game comes to hold the keys the host holds, and no click or motion is
  lost or told twice.
* boot: what is loaded and what is added has a place of its own, in every boot; the
  disk's capacity is one the disk has had, and not an old one.
* cache: a load returns what was stored last, and no access meets a full set.

## Modules

| module | models | checked by |
|---|---|---|
| `Plic` | the four entry points of `plic.c` and the hart line, as operators | `irq_delivery` |
| `IrqDelivery` | `Plic`, the InterruptStatus of each virtio device, the Step that samples the line, the guest's handler | `irq_delivery`; proofs in `VirtioProofs` |
| `Hart` | the control of `MiniRV32IMAStep` and what the main loop does with its result | `hart`; proofs in `HartProofs` |
| `Exec` | decoding and execution of one instruction: registers, RAM, pc, mtval | `exec`; proofs in `ExecProofs` |
| `Clock` | the timer, the sampling of the host clock, WFI and `MiniSleep` | `clock`, `clock_wait`; proofs in `ClockProofs` |
| `BufferFifo` | abstract: what a virtqueue promises its driver | as a property of `VirtQueue` |
| `ChainWrite` | a chain of descriptors and the two functions that write into it, as operators | `virtqueue`; proofs in `VirtioProofs` |
| `VirtQueue` | rings, indices, notify loop, completion; the header and packet in a chain | `virtqueue`; proofs in `VirtioProofs` |
| `NetRx` | the two threads, each load, store and lock of `plic.c`, `virtio-net.c` and the acknowledgement | `net_rx`; proofs in `NetRxProofs` |
| `ByteFifo` | abstract: what a console promises | as a property of `UartConsole` |
| `UartConsole` | `Plic`, stdin, `pl011.c`, the receive side of the LK driver and its buffer | `uart`; proofs in `HostInputProofs` |
| `Atomics` | LR, SC, AMO and context switches | `lrsc` |
| `BlkConfig` | the disk's capacity in the configuration space, and the driver that reads it | `boot`; proofs in `BootProofs` |
| `Boot` | `BlkConfig`, guest memory, images, device tree, MMIO list, restart | `boot`; proofs in `BootProofs` |
| `InputEvents` | keyboard and mouse, the guest's input layer, Doom's evdev reader and event ring | `input`; proofs in `HostInputProofs` |
| `GpuCache` | the cache of `cachetest/` with its shadow | `gpu_cache`; proofs in `GpuCacheProofs` |

`MC*` modules give the instances; an operator whose comment begins with `Bug:`
is a plausible mistake in the code, used to see that a property notices it, and
no specification reaches it.

### How state and actions correspond to the code

**Plic, IrqDelivery.** The two words of `plic.c` are sets of interrupt numbers.
`PlicRaise`, `PlicClear`, `PlicClaim` and `PlicComplete` are the bodies of
`plic_raise_irq`, `plic_clear_irq`, `plic_load` and `plic_store`; in
`IrqDelivery` each call of `virtio.c` that makes them is one action
(`FlagCompletion`, `ConfigChanged`, `InterruptAck`, `DriverResets`). `StepStarts` is
the start of a Step as far as the line matters: the timer that ends a wait (`due`), the
wait, the dispatch. A Step that returns 1 is followed by a sleep of the main loop
(`SleepFollows`, unless `do_sleep` is off): "asleep" is one that times out, "stuck" one
that began with the timer due, whose timeout is a difference below zero and without
end (`full-rv32ima.c:781`); either ends when a descriptor is readable. The guest's handler is not in the
repository: it is modelled by the order in which a virtio driver behind a PLIC
uses these registers, and it is marked external in the map. `usedUnseen` and
`configUnseen` are what the driver would find if it looked.

**Hart.** One action per instruction that touches the control state, `Compute`
for all others, `left` for how many instructions the Step may still run. Device
lines move only between two Steps, the sleep included, or in an MMIO access: the main
loop holds the mutex during a Step. `asleep` is the sleep of `MiniSleep`, into which
the main loop may go after a Step that returned 1 (`MaySleep`) and from which only
`Wakes` leads: a cleared wait flag does not end it. RAM has `RamWords` words, and three more addresses stand
for the word after RAM, for 0 and for a misaligned address. `mip` bit 7 is
recomputed by every `StepBegin` from a nondeterministic timer; module `Clock`
says when the timer has expired. A trap handler is just the guest.

**Clock.** A machine word has `Word` values, and every sum and difference is cut
as the C code cuts it: `Elapsed` to one word (`uint32_t elapsedUs`), `Remaining`
to two (`uint64_t delta`). `Nap` is the timeout `ppoll` gets: whole seconds, and
a rest counted in microseconds that is handed over as nanoseconds. The host
clock ticks, may be set back once, and stops at `Horizon`.

**Exec.** The instruction keeps its 32 bits: `Encode` is the encoding of the ISA
(external) as a number, negative where bit 31 is set, and the actions take their
fields out as the code does, a range of bits at a time (`Bits`). A byte has 2, 4 or
256 values, a word is four bytes, and every result is cut to a word; products are
exact, as the code's 64 bits are. AND, OR and XOR act on the set of the bits that
are 1. `Alu` is the pair of switches over funct3 that Op and
Op-immediate share, `Combined` the AMOs, `Retire` the end of the turn with its
trap. One behaviour is one instruction, from a state of `Starts`: an instruction of a
mnemonic, or any 32-bit word as it is (`AnyWord`), among them those the ISA reserves. What the
mnemonics mean (`Means`, `Jumps`, `AmoMeans`) is stated a second time below the
actions, as the ISA says it: bit by bit, or as an equation the result solves.
The devices are a window of addresses, the CLINT and SYSCON part of it: those are
in `Clock` and `Hart`.

**VirtQueue, ChainWrite.** Rings have `QueueNum` slots and indices `Wrap` values. A
chain is its head descriptor; the one that is being completed has its buffers in
`chain`. `Begin` adds up the lengths as the loop over the descriptors does, `Turn` is
one turn of the loop of `virtio_chain_write`, `Turns` the loop, and
`virtio_chain_zero` is the same with zeros. `Packet` is what `callback` of
`virtio-net.c` does with a chain it has popped: the header, the packet, and then
the used element. `Notify`, `TakeChain`, `NotifyEnd` are
`virtio_process_rings` one iteration at a time; `StoreElement` and `Publish` are
the two stores of `virtio_flag_completion` a guest can tell apart. `immediate`
chooses a device that completes in `process_command` or one that keeps the
chain. `read_ptr` starts with any value: `virtio_create` does not set it. The driver
binds once (see below).

**NetRx.** `mpc` and `rpc` are the program counters of the two threads. The
words both threads reach without a common lock are loaded and stored in separate
actions. A call into `plic.c` from the main thread is `MainLoad`, `MainStore`,
`MainTest`, `MainLine`, without locks; the reader's is between
`ReaderLockPlic` and `ReaderUnlockPlic`. `order` is a history of what the linked
list should hold. `lost` is set by a store that undoes a store of the other
thread, and by an acknowledgement that withdraws a source whose status bit has
been set since: the windows the missing lock leaves.

**UartConsole.** `Boundary` is the end of a Step with `pl011_poll`, and the
beginning of the next, which may take the interrupt; it may come between any two
accesses of the guest. Every access of the LK driver to a register is one action
(`StatusLoad`, `ClearStore`, `FlagsLoad`, `MaskStore`, `DataLoad`, `Unmask`), with
the handler of `pl011.c` it reaches and what the driver does up to the next one.
The mask register has no case in `pl011_load` and reads as 0, so `&=` stores 0 and
`|=` stores the one bit. A byte is its place in the input; those of `High` have
bit 7 set, and a signed `char` (as on x86) makes a break of them. `Hangup` closes
the other end of stdin; for a pipe or a file, which cannot be written, the end
of file is seen as soon as nothing waits. `uart_rx_buf` is a bounded sequence:
LK's `cbuf`, its threads and its PLIC driver are not in the repository.

**Boot, BlkConfig.** `phase` is how far `main` and `patch_dtb` have come between
`restart:` and the loop; each call that takes memory, a base or an interrupt
number is one action. A device is named by the boot that made it, so that `Route`
tells the old ones from the new. `AddNet` opens the tap, which succeeds once per
process. While the guest runs, the host may resize the image, and the driver of
the disk reads the capacity word by word: `OpenFile` is in every load and command.
The driver, that of Linux, is external.

**InputEvents.** The three handlers of `virtio-input.c` run between two Steps, so that
a group of events is used at once or cut by what `Buffers` allow. A key is the code
`HandleKey` sends. The table of the game, `ev_to_doom`, is a constant, and of many to
one: UP and W are both its arrow up; a code it does not have falls through
(`NoCase`). `asked` is a history: the keys whose key of the game was pressed last. `TakeUsed` is the
guest's driver and input layer (external). `Read` is the game's read of the keyboard's
file or, after it, of the mouse's, and returns `left` events; `CheckEvent` is one turn
of the loop of `check_for_events`, with the case its event falls into; after both
reads (`EndOfReads`) `DPopEvent` is the event loop, which empties the ring before the
next read. The host and the kernel act between any two of these. `evdev`, the kernel's
buffer for a reader, is not bounded. `whole` and `dropped` are histories of what had
buffers.

**GpuCache.** `lines` is `cachesetsaddy` and `cachesetsdata`: for each set, its ways in
use. A stored byte is a number of its own, so that no two are mistaken for each
other. `Store` is the whole of `StoreMemInternal` with one or two words and the
test of `cache_usage` behind it; `Load` is the check against the shadow that fails.
`stale` remembers which blocks a restart left in the cache.

**Atomics.** Two contexts of a guest use LR and SC on shared words; a kernel,
outside the repository, switches between them at any instruction.

## Runs

| run | bounds | shows |
|---|---|---|
| `irq_delivery` | 3 devices | no event without the line, line and pending agree outside the handler, every used buffer is seen |
| `hart` | 1 word of RAM, 2 instructions per Step, bits 3, 7, 9, 11, of which the guest raises 3 and 9 | trap and MRET contexts, order, waits, progress |
| `exec` | words of 4 bits, RAM of 8 bytes; every register operation on every pair of words; every format with immediates of one bit, all bits but one, and the small ones; words of every opcode but SYSTEM with every funct3 and 16 values of the upper bits | results, memory, traps |
| `clock` | words of 4, seconds of 2 ticks, 11 ticks, deadlines 2, 5, 8, 15, one set-back by 1 | timer against host clock, due traps, sleeps |
| `clock_wait` | the same | a violation, see below |
| `boot` | pages of 4, memories of 20, 39, 40, 41, images around a page and larger than the memory, 3 restarts, 2 resizes | places of images and devices, capacity |
| `virtqueue` | rings of 3, indices modulo 6, chains of 2 and of 4 descriptors, packets of 1 and 3 | refinement of `BufferFifo`, one owner, whole packets, notifies end |
| `net_rx` | 3 buffers (symmetric), network and UART sources | list, owners, locks, interrupts under both threads |
| `input` | 4 keys (the shift, two that are one to the game, one it does not know), queues of 3, reads of 2 events, a ring of 4, motions of 0 and 1, 4 inputs | keys, clicks and motion from host to game |
| `uart` | 5 bytes, one above 0x7f, a buffer of 2 | refinement of `ByteFifo`, a masked UART has a reader, bytes arrive |
| `gpu_cache` | words of 2 bytes, blocks of 2 words, 5 blocks, 2 sets of 2 ways, 3 stores | no full set, loads return stores |
| `lrsc` | 2 contexts, 2 words, values up to 3 | a violation |

Why these bounds are enough to meet the interesting cases. Three devices give a
source that is served, one that comes back meanwhile, and one the claim register
prefers. One word of RAM already has an address of each kind, and two
instructions give a Step that is cut short and one that is not. Eleven ticks of
words of four pass two carries, deadlines below, at and beyond them, and a
deadline that is never reached; the 64-bit timer itself does not wrap within a
run, nor does it in half a million years. Indices modulo 6 over rings of three
wrap while both rings are partly full, and differ from the slots they name.
Three buffers let the walk pass a node in the middle while the reader has
another; the UART is the second source, so that one word of the PLIC has two
writers. A buffer of two fills, is drained and fills again within five bytes, with
the byte that is refused in the middle.

Words of four bits, with bytes of one, have both signs in every width and tell
every pair of operations apart; the immediates are not narrowed, since the
instruction is not. Memories of 39, 40 and 41 units put the end of the RAM on a page
and off it; three restarts take the bases to where the PLIC begins and beyond. The
chain of four descriptors has one the header does not fill, an empty one, one that
takes the end of the header and the beginning of the packet, and an end the larger
packet meets exactly. Queues of three buffers hold one motion and its SYN and no
more, so that a second input before the guest has given them back is cut; reads of
two cut groups of three. Two keys that are one to the game can be down together, and
four inputs press both and release both. Three blocks share a set of two ways, and three stores fill
a set, straddle two, and still have one to come after a flush.

Liveness runs use no state constraint. `CHECK_DEADLOCK FALSE` is said for `hart` and
`boot`, where the main loop may be left, for `gpu_cache`, where the program may end,
and for `exec`, where nothing follows the one instruction.

### What the violations show

* `clock_wait`: WFI does not look at what is pending. If the timer is due when
  the guest executes it, `MiniSleep` computes a 64-bit difference below zero and
  `ppoll` is asked for more than half a million years. `DeadlineEndsWait` is what
  holds: a wait that began before its deadline ends.
* `lrsc`: SC compares an address and nothing ends a reservation. A guest kernel
  that does an SC on its own stack to give the reservation up does not succeed in
  that, and an interrupted LR/SC sequence of another context can store a value
  computed from a stale load.

### What the models show besides

These are places where a property needs an assumption that the code does not make
true; each is said at the property, or in the hazards.

* The order in the comment at `mini-rv32ima.h:164` has the software interrupts; the
  chain of tests below it has not. `InterruptsInOrder` exempts the Steps that find one
  pending and enabled: beside it, the next in the chain is taken. A Step that finds
  nothing else returns without running anything, again and again; nothing promises that
  this ends. `PendingIsTaken` is about the interrupts that have a case: they are taken
  also beside a software interrupt, and out of such a stall.
* `UsedIsSeen` and `PendingIsTaken` assume that the main loop comes back from its
  sleeps. It need not: the sleep of `clock_wait` below zero ends only with input, and a
  thread that clears the wait flag meanwhile does not wake the main loop.
* `QueueIsFifo` is about the first driver. A reset sets `read_ptr` to 0 and leaves
  `write_ptr` (`virtio.c:249-254`): a driver bound again after use reads its used ring
  from 0 and the device writes elsewhere.
* `BytesArrive` assumes that the terminal stays. At the end of file `IsKBHit`
  answers -1, which `pl011_poll` does not take for a byte and the flag register
  does: a handler that reads until the FIFO is empty then reads breaks for ever.
* `RegionsDisjoint` ends where the two allocators meet, `DevicesAnswer` where the
  bases meet the PLIC or the interrupt numbers pass 31: no code looks at either.
  The first boot has a network device; no later one has, since the first descriptor
  still holds the tap.
* `KeysFollow` is about keys whose last group had its buffers. A release that is
  dropped leaves the key down in the game until it is pressed again. It says two
  things: the game comes to the state of one of the keys that are one to it; and, if
  nothing was dropped, to that of the one pressed or released last. It does not come to
  hold the arrow as long as one of UP and W is down: the game counts no presses, and
  with both down the release of W ends what UP still asks for
  (`i_input_evdev.c:37-38`; so with DOWN and S, LEFT and A, RIGHT and D, and
  COMPOSE and the right control key).
* `ReadsAreWrites` leaves out the blocks that a restart of the experiment finds in
  the cache; a load of one of these ends the program with a failed check. So does a
  load from the last 192 bytes of `ram_image`, without a restart: the hart has its
  state there (`cachetest.c:364`), which every Step changes and the shadow does not
  get. The device tree keeps a guest away from them, and the model's memory ends below.
* `ResultIsIsa` and `TrapLeavesNoTrace` are not the ISA's word for word. Where the code
  departs from it:
  * an illegal width of a load or store at a device is not looked at
    (`mini-rv32ima.h:251-257`, `:286-297`), and a device answers its whole word to a load
    of any width;
  * the last three bytes of RAM are out of reach for byte and halfword accesses too,
    since the bound at `:249` and `:284` is that of a word;
  * an AMO at a device is a fault, and one at a misaligned address in RAM is not;
  * a jump or taken branch to an address that is no multiple of 4 is made, with its
    link written, and the trap is that of the fetch at the target (`:191`, `:205-219`):
    `ResultIsIsa` exempts it (`JumpsAstray`);
  * encodings the ISA reserves are executed: an Op with another funct7 as if the other
    bits were 0, JALR with any funct3, an AMO with any width. Of these only
    `TrapLeavesNoTrace` speaks: if one traps, it leaves no trace.

## Fairness

* `IrqDelivery`: outside a sleep the main loop always begins another Step; a sleep that
  began before the timer was due times out, one that began after that need not end;
  the guest's code and its handler go on, and while the hart waits the timer the guest
  has programmed comes due. `UsedIsSeen` assumes in addition that the main loop does
  not stay in a sleep without end (`[]<>(at # "stuck")`), and that sources of a lower
  number fall silent: the claim register always answers the lowest one. Without either
  the property is false.
* `Hart`: the loop of `main` has no exit besides those modelled, so that Steps follow
  each other, and a Step executes its instructions. Nothing is assumed of the end of a
  sleep, nor of a Step that a waiting hart or a software interrupt without a case keeps
  from doing anything. `PendingIsTaken` assumes that no sleep is for ever
  (`[]<>~asleep`).
* `Clock`: time passes, `ppoll` honours its timeout, the loop calls Step. The
  liveness properties assume `OnTime`: no gap between samples exceeds a word,
  which for 32 bits of microseconds is 71 minutes.
* `VirtQueue`: a notify runs to its end and a completion that has begun is
  finished. Nothing is assumed of packets or drivers.
* `UartConsole`: Steps follow each other with a poll after each, the handler goes
  on, and a thread that waits for a character reads it and unmasks. `BytesArrive`
  assumes that the terminal stays.
* `NetRx`, `Atomics`, `Exec`, `Boot`, `InputEvents` and `GpuCache` state safety only.

## Proofs

The eight proof modules follow one argument: an invariant `IInv` that is inductive,
which TLC has checked on the instance of the run first; a lemma per action or group
of actions that it is kept; `SpecIInv`; and one short theorem per property. The
refinements add a lemma per action that says which abstract step it is.

| module | theorem | states, for every value of the constants |
|---|---|---|
| `HartProofs` | `TypeCorrect`, `ContextCorrect`, `WakeCorrect`, `ResumeCorrect`, `OrderCorrect` | `TypeOK`, `SavedContextKept`, `NewCauseEndsWait`, `MretResumes`, `InterruptsInOrder` |
| `ExecProofs` | `DecodingUndoesEncoding`, `ResultIsIsaHolds`, `StoresOnlyItsBytesHolds`, `TrapLeavesNoTraceHolds` | decoding below; `ResultIsIsa`, `StoresOnlyItsBytes`, `TrapLeavesNoTrace` |
| `HostInputProofs` | `TypeCorrect`, `MaskCorrect`, `ConsoleCorrect` | `TypeOK`, `MaskedHasReader`, `ConsoleIsFifo` of `UartConsole` |
| | `KeysFollowHolds`, `MouseArrivesHolds` | `KeysFollow`, `MouseArrives` of `InputEvents` |
| `ClockProofs` | `TimerCorrect`, `SleepCorrect`, `LowWordCorrect`, `TrapsCorrect` | `TimerCountsSamples`, `SleepsWithinDeadline`, `LowWordExact`, `TrapsAreDue` |
| `NetRxProofs` | `TypeCorrect`, `NoDeadlock`, `ListCorrect`, `OwnersCorrect`, `PacketCorrect`, `LineCorrect` | `TypeOK`, `NoLockCycle`, `ListIsQueue`, `BufferHasOneOwner`, `PacketHasLine`, `LineComesBack` |
| `VirtioProofs` | `TypeCorrect`, `OwnerCorrect`, `FifoCorrect`, `PacketCorrect` | `TypeOK`, `OneOwner`, `QueueIsFifo`, `PacketWhole` of `VirtQueue` |
| | `IrqTypeCorrect`, `LineCorrect`, `NothingLost` | `IrqTypeOK`, `LineFollowsPending`, `NothingUnseenWithoutLine` of `IrqDelivery` |
| `BootProofs` | `RegionsCorrect`, `DevicesCorrect`, `CapacityCorrect` | `RegionsDisjoint`, `DevicesAnswer`, `CapacityWholeAndFresh` |
| `GpuCacheProofs` | `RoomCorrect`, `ReadsCorrect` | `NeverOverfull`, `ReadsAreWrites` |

Four more state what no run checks by itself: `WaitCorrect` (a hart that waits has its
interrupts on), `StatusCorrect` (a device with a status bit set is pending in the
PLIC), `ExitsCorrect` (a failed check of the cache experiment is never the end of a
store, and of a load only after a restart), and the `SpecIInv` of each module.

* `HartProofs`. `IInv` adds to the invariants of the run `RunsAwake`, that
  instructions run only on a hart that does not wait: without it a WFI could be
  followed by an instruction that turns interrupts off while the flag is set, and
  `WaitsInterruptible` would not be preserved. `MretResumes` follows from
  `SavedContextKept`. `OrderCorrect` compares the chain of tests with the
  documented order, for the Steps that find no software interrupt: with one the chain
  leaves it out. Its assumption is that `IrqBits` are among the six bits the order
  names. Assumption: `HartAssumption`.
* `VirtioProofs`, for `IrqDelivery`. `IrqInv` traces every unseen event: it is in InterruptStatus,
  or the handler has it in hand (`UsedTraced`, `ConfigTraced`); a status bit is
  pending in the PLIC (`StatusHeldPending`); only the handler's source is claimed
  (`ClaimedIsCurrent`); and outside the handler what is pending has the line
  (`RestingLineUp`, `LineHasCause`). The last two matter because a complete does
  not raise the line again: it is the raise while claimed, or the claim loop that
  runs until nothing is unmasked, that makes up for it. Assumption: `IrqAssumption`.
* `HostInputProofs`, for `UartConsole`. `IInv` adds to `MaskedHasReader` that the handler comes to
  the store that masks only with characters in the buffer (`MaskedWhenFull`). The
  handler takes none out, and the thread does not run in it, so that they are
  still there when the store happens; a buffer of at least one character
  (`ConsoleAssumption`) is what makes a full one non-empty. For `ConsoleCorrect` the
  queue of `ByteFifo` is the buffer and stdin behind it. A load of the data register
  then moves the boundary between the two, or drops a byte above 0x7f; that it drops
  no other needs `RoomForData`: the flags are looked at one access earlier, and
  nothing fills the buffer in between.
* `HostInputProofs`, for `InputEvents`. `InputIInv` follows an event from the host to
  the game. For a key (`KeysWay`) the game's knowledge, the ring and the reader's
  queue lead to what the kernel has down, whatever was dropped (`KernelTold`); the used
  ring leads from there to the host, if the last group of the key was whole
  (`KeyTaken`). Keys
  that are one to the game share its knowledge, so that what comes last is the state of
  one of them; which one, the events say while none was dropped: they come in turn,
  press and release, for each key (`InTurn`, which is why the kernel drops none of
  them, `KeysKept`), and the last of them is that of `asked` (`AskedLast`). `RingRoom` is why a
  key event, which is posted without a look at the ring, finds room: the ring is empty
  before the keyboard is read, a read returns `Batch` events, half of the ring, and
  mouse events leave the other half. The mouse needs more, while nothing is dropped.
  `Flows`: between two motions there is a SYN, in each queue and across them, so that
  `delta_x` is 0 when the next overwrites it, however a read cuts a group and although
  a SYN of the keyboard's file reports it as well. `MouseRoom`: the ring is never so
  full that a report is thrown away, as of the keyboard's events every other is a SYN:
  it bounds twice the ring, with the report that is due and what is left of the read.
  `MotionSum` then adds up the motion in every place. `LastIs` and
  `SumOf` have a lemma each for a sequence that loses its first element, gets a last
  one, or is put together from two. Assumption: `InputAssumption`, with a ring of
  twice a read (64 and 32 in the code) and reads of at least two events.
* `ClockProofs`. `TimerCountsSamples` says that the two words are the sample they were
  last advanced to. What keeps it through the sum with its carry is `SampleNearClock`: a
  sample is ahead of the host clock by a word at most, and only after a set-back, so
  that the difference, cut to one word, never carries the pair over its end.
  `MatchIsTarget` says that the match register is the deadline the guest has completed,
  or half of the next and then with the interrupt off. Assumption: `ClockAssumption`, of
  which `Horizon + Word < Word * Word` keeps the modelled time within the 64 bits.
* `NetRxProofs`. `LocksHeld` reads the owner of every mutex off the two program
  counters; `NoLockCycle` follows from it. `RegistersFit` is what the local
  variables of both threads hold while they are in use, and `Linked` that the pointers
  of the list spell `order` without a buffer twice, at every point of the walk and the
  unlinking. For the interrupt a chain of who is about to do what:
  `StatusTold`, `SourceTold`, `LineFollows` lead from a used buffer to its status bit,
  from there to the source, and from there to the line, each up to `lost`.
  Assumption: `ChainsAssumption`, that NULL is no buffer.
* `VirtioProofs`, for `VirtQueue`. `IInv` is `TypeOK` and `OneOwner` with `UsedFollows`, that the
  index the guest reads is `write_ptr` and the element below it is the chain at hand,
  and `FreshUntilBound`, `KeepsOrCompletes` for the two kinds of device. Every
  distance of two indices is a difference modulo `Wrap`, and a slot is an index modulo
  `QueueNum`: the lemmas on both need that `Wrap` is a multiple of `QueueNum` and
  larger (`QueueAssumption`; 65536 and a power of two in the code). `FifoCorrect` has
  one lemma per action: what it adds to or takes from the ends of the three queues
  `BufferFifo` sees. `PacketCorrect` is about the loop of `virtio_chain_write`.
  `ChainUpTo` is a chain that holds the first bytes up to a place, a descriptor and
  an offset; a turn leads from one place to a later one (`TurnFills`), the loop to the
  end of the buffer if the chain has room (`TurnsFill`), and the header and the packet
  are two such loops (`HeaderThenPacket`).
* `ExecProofs`. Before its one instruction a behaviour is `Ready`, after it the three
  properties hold together (`Right`): that is `IInv`. For a word that need not be an
  instruction (`ReadyWord`) the same lemmas on the ends of an instruction give
  `TrapLeavesNoTrace` alone (`RightWord`). That a mnemonic takes its trap and no other
  (`IsCause`) is a part of `ResultIsIsa`. Decoding comes first: every field
  and every immediate the code takes out of the 32 bits is the one `Encode` put there
  (`DecodeR` to `DecodeJ`, together `DecodingUndoesEncoding`). Then each operation: the
  code's expression, cut to a word, is what the ISA says of the mnemonic
  (`BasicMeans`, `MulDivMeans`, `LoadedMeans`, `CombinedMeans`), among them shifts as
  divisions by powers of two, the high halves of products, and the division of the
  smallest number by -1. Then memory byte by byte (`StoredIs`, `StoreRest`), and one lemma
  per action. The proof found that the guards of two cases of the division overlapped in
  an earlier form of the model. Assumptions: `ExecAssumption`, which has the three widths
  of a byte and the RAM above the devices, and `StartsAssumption`, which types the start.
* `BootProofs`. `RegionsInOrder` says more than that no two places overlap: those
  that were taken from below are all below `next_guest_alloc`, and those from above
  all above `next_guest_top_alloc`, which is what a new one is put against.
  `DevicesCorrect` finds out what the walk of `mmio.c` meets first: the bases of the
  list go down (`HandlersInOrder`), so that of two devices only one can have an
  address; of the controllers of several boots, which share their addresses, the
  newest is in front (`NewestPlic`); and the first console is last in the list
  (`OldestUart`). `CapacityCorrect` needs `WordsMatch`: two words that were read under
  the generation the device still has are those of one size. Assumptions:
  `BootAssumption`, `BlkAssumption`.
* `GpuCacheProofs`. `IInv` says where a byte is: the flush would take it from where
  the shadow has it (`Flushed`), unless its block is `stale`; a set holds a block once
  and at its place (`Placed`); and below `MaxFcnt` every set has a free way
  (`HasRoom`). The lemmas follow the code from the division of an address into block,
  set and word (`DivMod`, `BlockFacts`, `WordInBlock`) over one word (`LoadRBFacts`,
  `StoreRBFacts`) to one or two (`LoadFacts`, `StoreMemFacts`). A split store could
  meet a full set with its second word, after the first has taken the last way: it
  does not, since two neighbouring blocks are in different sets
  (`NextWordBlock`), which is why `CacheAssumption` has more than one set (256 in the
  code). Assumptions: `CacheAssumption`, `ImageAssumption`.

What stays with TLC:

* the liveness properties (`UsedIsSeen`, `PendingIsTaken`, `DeadlineEndsWait`,
  `NotifyEnds`, `BytesArrive`), which need fairness and are out of reach of the prover.

Every invariant, action property and refinement of a passing run has a theorem.

The prover has no induction over data that takes a predicate. Where a proof needs one,
for powers of two, for the bits of a word, or for a function that is defined by
recursion (`Begin`, `Turns`, `SumOf`), it looks at the smallest number for which the fact fails
(`Smallest`, from the well-foundedness of the naturals): there is none.

## What is not modelled

* mscratch and the CSRs that only keep a value, the cycle counter, and the options
  `-l` and `-t`.
* Weak memory. `NetRx` is sequentially consistent; the plain C variables both
  threads share give no such guarantee, so what it shows is a lower bound of what
  can go wrong.
* Teardown: the reader thread is not joined, and closing the tap while it reads is
  not modelled; nor is the one packet the reader thread of the boot before may put
  into the memory of the new guest (`virtio-net.c:200`).
* virtio feature negotiation, QueueSel and QueueReady (the assertion in
  `virtio_process_rings` looks at the selected queue, not at the one it reads); the
  configuration space of keyboard and mouse, the table from the window system's keys
  to key codes; the contents of the
  images and of the device tree, and of the disk.
* Descriptors the driver makes readable, beyond their order: the disk's request and
  the network's transmit are read in place.
* The sound device: it is not in the default build, and its calls no longer match
  `virtio.h`. The video and sound output of the Doom overlay, the reference wrapper
  `mini-rv32ima.c` with `8250.c`, vendored headers, build descriptions, and guest
  programs that keep no state.

## Plan

Done, in this order: `Plic` and `IrqDelivery` with proofs, `Hart` with proofs,
`Clock`, `BufferFifo` and `VirtQueue`, `NetRx`, `Atomics`, `ByteFifo` and
`UartConsole` with proofs; then `InputEvents`, `BlkConfig` and `Boot`, `ChainWrite`
within `VirtQueue`, `Exec`, and `GpuCache`.

The proofs were added in this order: `Clock`, `NetRx`, `VirtQueue` with its
refinement, `Boot` with `BlkConfig`, `GpuCache`, the refinement of `ByteFifo`, `Exec`,
`PacketWhole`, and `InputEvents`.

Of the code, what is left is the set-up of the queues (QueueSel, QueueReady and the
assertion of the notify loop), the cycle counter, and the reader thread over a
restart.
