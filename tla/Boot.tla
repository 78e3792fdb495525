-------------------------------- MODULE Boot --------------------------------
(***************************************************************************)
(* From "restart:" in main to the first instruction, and back there when   *)
(* the guest asks for it: the two ends guest memory is handed out from,    *)
(* the images, and patch_dtb, which gives each device a base and an        *)
(* interrupt, tells the device tree of it and puts it into the list the    *)
(* loads and stores of the hart are routed by.  A restart starts the       *)
(* memory again and keeps all the rest: the list, the next base and the    *)
(* next interrupt, the tap.  The capacity of the disk (BlkConfig) is read  *)
(* by the guest of each boot.                                              *)
(*                                                                         *)
(* Addresses in memory are relative to MINIRV32_RAM_IMAGE_OFFSET, those of *)
(* devices to the first base, 0x10000000.                                  *)
(***************************************************************************)
EXTENDS BlkConfig, Sequences

CONSTANTS
    Page,           \* ROUNDUP's 4096
    CoreSize, BssSize, DtbSize, FrameSize,
    UartSize, VirtioSize,
    PlicBase, PlicSize,
    IrqLines,       \* the bits of irq_pending
    Options,        \* [ram, kernel, initrd, dtb, tun]: the command line and the host
    MaxRestarts     \* bound

ASSUME BootAssumption ==
    /\ Page \in Nat \ {0}
    /\ {CoreSize, BssSize, DtbSize, FrameSize, UartSize, VirtioSize} \subseteq Nat \ {0}
    /\ UartSize <= Page /\ VirtioSize <= Page
    /\ PlicBase \in Nat /\ PlicSize \in Nat \ {0}
    /\ IrqLines \in Nat /\ MaxRestarts \in Nat
    /\ \A o \in Options : {o.ram, o.kernel, o.initrd} \subseteq Nat /\ o.dtb \in BOOLEAN

VARIABLES
    opt,
    phase,                  \* what main does next
    next_guest_alloc, next_guest_top_alloc,
    regions,                \* what has been handed out: [name, base, size]
    told,                   \* the end of the memory the tree tells of, or None
    next_base, next_irq,
    root,                   \* the list of struct mmio_range, newest first
    tree,                   \* this boot's devices: [dev, base, size, irq]
    attached,               \* a file descriptor holds tap0
    restarts

memory == <<next_guest_alloc, next_guest_top_alloc, regions, told>>
routing == <<next_base, next_irq, root, tree>>
vars == <<opt, phase, memory, routing, attached, restarts, blkVars>>

RoundUp(size) == ((size + Page - 1) \div Page) * Page
RoundDown(addr) == (addr \div Page) * Page

Init ==
    /\ opt \in Options
    /\ phase = "core"
    /\ next_guest_alloc = 0 /\ next_guest_top_alloc = opt.ram
    /\ regions = {} /\ told = None
    /\ next_base = 0 /\ next_irq = 1
    /\ root = <<>> /\ tree = {}
    /\ attached = FALSE /\ restarts = 0
    /\ BlkInit

-----------------------------------------------------------------------------
(* Memory.                                                                 *)

Region(name, base, size) == [name |-> name, base |-> base, size |-> size]

GuestAlloc(size, name) ==
    /\ regions' = regions \cup {Region(name, next_guest_alloc, size)}
    /\ next_guest_alloc' = next_guest_alloc + RoundUp(size)
    /\ UNCHANGED next_guest_top_alloc

\* Bug: only what is returned is cut to a page.
GuestTopAllocUncut(size, name) ==
    /\ regions' = regions \cup {Region(name, RoundDown(next_guest_top_alloc - RoundUp(size)), size)}
    /\ next_guest_top_alloc' = next_guest_top_alloc - RoundUp(size)
    /\ UNCHANGED next_guest_alloc

GuestTopAlloc(size, name) ==
    /\ next_guest_top_alloc' = RoundDown(next_guest_top_alloc - RoundUp(size))
    /\ regions' = regions \cup {Region(name, next_guest_top_alloc', size)}
    /\ UNCHANGED next_guest_alloc

MemoryOnly == UNCHANGED <<opt, told, routing, attached, restarts, blkVars>>

AllocCore ==
    /\ phase = "core"
    /\ GuestTopAlloc(CoreSize, "CORE")
    /\ phase' = "kernel"
    /\ MemoryOnly

\* exit(-6) for an image that is larger than the memory.
LoadKernel ==
    /\ phase = "kernel"
    /\ \/ /\ opt.kernel > opt.ram
          /\ phase' = "off"
          /\ UNCHANGED <<next_guest_alloc, next_guest_top_alloc, regions>>
       \/ /\ opt.kernel <= opt.ram
          /\ GuestAlloc(opt.kernel + BssSize, "KERNEL")
          /\ phase' = "images"
    /\ MemoryOnly

\* Without a device tree there is nothing to patch, and no initrd.
NoTree ==
    /\ phase = "images" /\ ~opt.dtb
    /\ phase' = IF opt.initrd = 0 THEN "run" ELSE "off"
    /\ UNCHANGED <<next_guest_alloc, next_guest_top_alloc, regions>> /\ MemoryOnly

LoadInitrd ==
    /\ phase = "images" /\ opt.dtb
    /\ \/ /\ opt.initrd = 0
          /\ UNCHANGED <<next_guest_alloc, next_guest_top_alloc, regions>>
       \/ /\ opt.initrd > 0
          /\ GuestAlloc(opt.initrd, "INITRD")
    /\ phase' = "dtb"
    /\ MemoryOnly

LoadDtb ==
    /\ phase = "dtb"
    /\ GuestAlloc(DtbSize, "DTB")
    /\ phase' = "uart"
    /\ MemoryOnly

-----------------------------------------------------------------------------
(* patch_dtb.                                                              *)

\* Bug: a size below a page takes no room.
GetNextBaseDown(size) == next_base' = next_base + RoundDown(size)

GetNextBase(size) == next_base' = next_base + RoundUp(size)

AddHandler(dev, base, size) == root' = <<[dev |-> dev, base |-> base, size |-> size]>> \o root

\* A base, the next interrupt, the node in the tree and the handler.
AddDevice(name, size) ==
    /\ GetNextBase(size)
    /\ next_irq' = next_irq + 1
    /\ AddHandler(<<name, restarts>>, next_base, size)
    /\ tree' = tree \cup {[dev |-> <<name, restarts>>, base |-> next_base, size |-> size,
                           irq |-> next_irq]}

AddUart ==
    /\ phase = "uart"
    /\ AddDevice("uart", UartSize)
    /\ phase' = "gfx"
    /\ UNCHANGED <<opt, memory, attached, restarts, blkVars>>

AddFramebuffer ==
    /\ phase = "gfx"
    /\ GuestTopAlloc(RoundUp(FrameSize), "FB")
    /\ phase' = "plic"
    /\ MemoryOnly

AddPlic ==
    /\ phase = "plic"
    /\ AddHandler(<<"plic", restarts>>, PlicBase, PlicSize)
    /\ phase' = "blk"
    /\ UNCHANGED <<opt, memory, next_base, next_irq, tree, attached, restarts, blkVars>>

AddBlk ==
    /\ phase = "blk"
    /\ AddDevice("blk", VirtioSize)
    /\ BlkCreate
    /\ phase' = "keyboard"
    /\ UNCHANGED <<opt, memory, attached, restarts>>

AddInput ==
    /\ \/ /\ phase = "keyboard" /\ phase' = "mouse"
       \/ /\ phase = "mouse" /\ phase' = "net"
    /\ AddDevice(phase, VirtioSize)
    /\ UNCHANGED <<opt, memory, attached, restarts, blkVars>>

\* network_init opens the tap again, which the descriptor of an earlier boot
\* still holds: then there is no device, and the base is used up.
AddNet ==
    /\ phase = "net"
    /\ \/ /\ opt.tun /\ ~attached
          /\ AddDevice("net", VirtioSize)
          /\ attached' = TRUE
       \/ /\ ~opt.tun \/ attached
          /\ GetNextBase(VirtioSize)
          /\ UNCHANGED <<next_irq, root, tree, attached>>
    /\ phase' = "memory"
    /\ UNCHANGED <<opt, memory, restarts, blkVars>>

TellMemory ==
    /\ phase = "memory"
    /\ told' = next_guest_top_alloc
    /\ phase' = "run"
    /\ UNCHANGED <<opt, next_guest_alloc, next_guest_top_alloc, regions, routing, attached,
                   restarts, blkVars>>

-----------------------------------------------------------------------------
(* The guest runs.                                                         *)

UseDisk ==
    /\ phase = "run" /\ opt.dtb
    /\ GuestStep
    /\ UNCHANGED <<opt, phase, memory, routing, attached, restarts>>

HostResizes ==
    /\ Resize
    /\ UNCHANGED <<opt, phase, memory, routing, attached, restarts>>

\* The guest stores 0x7777 to SYSCON: goto restart.
Restart ==
    /\ phase = "run" /\ restarts < MaxRestarts
    /\ phase' = "core" /\ restarts' = restarts + 1
    /\ next_guest_alloc' = 0 /\ next_guest_top_alloc' = opt.ram
    /\ regions' = {} /\ told' = None /\ tree' = {}
    /\ UNCHANGED <<opt, next_base, next_irq, root, attached, disk, blk, low, high, old>>
    /\ step' = "down" /\ capacity' = None /\ due' = FALSE

\* 0x5555, a signal, a closed window or a pc of 0: the tap is closed.
Off ==
    /\ phase = "run"
    /\ phase' = "off" /\ attached' = FALSE
    /\ UNCHANGED <<opt, memory, routing, restarts, blkVars>>

Next ==
    \/ AllocCore \/ LoadKernel \/ NoTree \/ LoadInitrd \/ LoadDtb
    \/ AddUart \/ AddFramebuffer \/ AddPlic \/ AddBlk \/ AddInput \/ AddNet \/ TellMemory
    \/ UseDisk \/ HostResizes \/ Restart \/ Off

Spec == Init /\ [][Next]_vars

-----------------------------------------------------------------------------
Bytes(r) == r.base .. r.base + r.size - 1

\* mmio_routed_load and mmio_routed_store: the first in the list.
Route(addr) ==
    LET hits == {i \in DOMAIN root : addr \in Bytes(root[i])}
    IN  IF hits = {} THEN None
                     ELSE root[CHOOSE i \in hits : \A j \in hits : i <= j].dev

\* As long as the two ends have not met, which nothing looks at, no two of the
\* kernel with its bss, the initrd, the tree, the frame buffer and the hart's
\* own state share a byte, all are in the memory, and the memory the tree
\* tells the kernel of holds what was loaded and neither of the last two; so
\* in every boot, for memory of any size (guest_alloc, guest_top_alloc).
RegionsDisjoint ==
    phase = "run" /\ next_guest_alloc <= next_guest_top_alloc =>
        /\ \A r, s \in regions : r = s \/ Bytes(r) \cap Bytes(s) = {}
        /\ \A r \in regions : Bytes(r) \subseteq 0 .. opt.ram - 1
        /\ \A r \in regions : told # None =>
            IF r.name \in {"CORE", "FB"} THEN r.base >= told ELSE r.base + r.size <= told

\* While the bases are below the interrupt controller and the interrupts have
\* a bit, every device the tree of this boot names answers at its base under
\* an interrupt of its own, however many devices of earlier boots are in the
\* list; so does the controller, and the console of the command line is found
\* at the first base by the guest of every boot.
DevicesAnswer ==
    phase = "run" /\ opt.dtb /\ next_base <= PlicBase /\ next_irq <= IrqLines =>
        /\ \A d \in tree : \A a \in Bytes(d) : Route(a) = d.dev
        /\ \A d, e \in tree : d.irq = e.irq => d = e
        /\ \A a \in {PlicBase, PlicBase + PlicSize - 1} : Route(a) = <<"plic", restarts>>
        /\ Route(0) = <<"uart", 0>>

-----------------------------------------------------------------------------
(* What makes them inductive.  Memory: what was handed out from an end is  *)
(* behind that end, in the order it was handed out.  Devices: the list has *)
(* the higher base first, the console of the first boot at its end, and    *)
(* before the controller of this boot no other controller.                 *)

AtTop(r) == r.name \in {"CORE", "FB"}
EndOf(r) == r.base + r.size

EndsOfMemory ==
    /\ opt \in Options
    /\ next_guest_alloc \in Nat
    /\ next_guest_top_alloc \in Int /\ next_guest_top_alloc <= opt.ram
    /\ told # None => phase \in {"run", "off"} /\ told = next_guest_top_alloc

RegionsInOrder ==
    /\ \A r \in regions :
        /\ r.base \in Int /\ r.size \in Nat
        /\ IF AtTop(r) THEN next_guest_top_alloc <= r.base /\ EndOf(r) <= opt.ram
                       ELSE 0 <= r.base /\ EndOf(r) <= next_guest_alloc
    /\ \A r, s \in regions :
        AtTop(r) = AtTop(s) => r = s \/ EndOf(r) <= s.base \/ EndOf(s) <= r.base

Names == {"uart", "plic", "blk", "keyboard", "mouse", "net"}
Handlers == [dev : Names \X (0 .. MaxRestarts), base : Nat, size : Nat]
IsPlic(h) == h.dev[1] = "plic"
Handler(d) == [dev |-> d.dev, base |-> d.base, size |-> d.size]
PlicOf(boot) == [dev |-> <<"plic", boot>>, base |-> PlicBase, size |-> PlicSize]
FirstUart == [dev |-> <<"uart", 0>>, base |-> 0, size |-> UartSize]

HandlersInOrder ==
    /\ next_base \in Nat /\ next_irq \in Nat /\ restarts \in 0 .. MaxRestarts
    /\ root \in Seq(Handlers)
    /\ \A i \in DOMAIN root :
        IF IsPlic(root[i]) THEN root[i].base = PlicBase /\ root[i].size = PlicSize
                           ELSE EndOf(root[i]) <= next_base
    /\ \A i, j \in DOMAIN root :
        i < j /\ ~IsPlic(root[i]) /\ ~IsPlic(root[j]) => EndOf(root[j]) <= root[i].base

TreeInList ==
    /\ \A d \in tree :
        /\ d.irq \in Nat /\ d.irq < next_irq
        /\ \E i \in DOMAIN root : root[i] = Handler(d) /\ ~IsPlic(root[i])
    /\ \A d, e \in tree : d.irq = e.irq => d = e

\* What main does after the controller, and after the console, of this boot.
WithPlic ==
    phase \in {"blk", "keyboard", "mouse", "net", "memory"} \/ (phase = "run" /\ opt.dtb)
WithUart == phase \in {"gfx", "plic"} \/ WithPlic

NewestPlic ==
    WithPlic => \E i \in DOMAIN root :
        root[i] = PlicOf(restarts) /\ \A j \in DOMAIN root : j < i => ~IsPlic(root[j])

OldestUart ==
    /\ root # <<>> => root[Len(root)] = FirstUart
    /\ root = <<>> => next_base = 0 /\ ~WithUart /\ (opt.dtb => restarts = 0)
    /\ phase \in {"dtb", "uart"} \/ WithUart => opt.dtb

IInv ==
    /\ EndsOfMemory /\ RegionsInOrder
    /\ HandlersInOrder /\ TreeInList /\ NewestPlic /\ OldestUart
    /\ BlkIInv
=============================================================================
