----------------------------- MODULE VirtQueue -----------------------------
(***************************************************************************)
(* One split virtqueue of virtio.c: the available ring the driver writes,  *)
(* the loop of virtio_process_rings that a notify runs, the device that    *)
(* either completes a chain at once (disk, network transmit) or keeps it   *)
(* until the reader thread has a packet for it (network receive), and the  *)
(* used ring virtio_flag_completion writes.                                *)
(*                                                                         *)
(* The indices are 16 bits wide and wrap; here they count modulo Wrap.  A  *)
(* chain is its head descriptor.  The notify runs inside a Step, so the    *)
(* guest stands still until it is over; the reader thread does not.  The   *)
(* driver is outside the repository: it offers free descriptors, reads     *)
(* the used ring, and resets the device before it uses it.                 *)
(***************************************************************************)
EXTENDS ChainWrite, SequencesExt

CONSTANTS
    QueueNum,       \* the size of the rings, which the driver stores
    Wrap,           \* the number of values of a ring index
    Header,         \* the bytes before a packet, 12
    Layouts,        \* the lengths of the descriptors of a receive chain
    PacketSizes     \* the sizes of packets

ASSUME QueueAssumption ==
    /\ QueueNum \in Nat \ {0}
    /\ Wrap \in Nat /\ Wrap > QueueNum /\ Wrap % QueueNum = 0
    /\ Header \in Nat \ {0} /\ PacketSizes \subseteq Nat \ {0}
    /\ \A lens \in Layouts : lens \in Seq(Nat)

VARIABLES
    availRing, availIdx,        \* struct virtio_available_ring
    usedRing, usedIdx,          \* struct virtio_used_ring
    free, lastUsed, bound,      \* the driver
    read_ptr, write_ptr,        \* virtio_queue
    n,                          \* the loop of virtio_process_rings, or Idle
    rx_queue,                   \* the chains the network device keeps
    filling, stored,            \* the chain being completed, and whether its
                                \* used element has been stored
    chain,                      \* the buffers of the chain being completed
    immediate                   \* the device completes a chain at once

driver == <<availRing, availIdx, free, lastUsed, bound>>
device == <<usedRing, usedIdx, read_ptr, write_ptr, n, rx_queue, filling, stored, chain>>
vars == <<driver, device, immediate>>

Heads == 0 .. QueueNum - 1
Slots == 0 .. QueueNum - 1
Index == 0 .. Wrap - 1
Idle == -1
None == -1

Slot(i) == i % QueueNum
Inc(i) == (i + 1) % Wrap

TypeOK ==
    /\ availRing \in [Slots -> Heads] /\ usedRing \in [Slots -> Heads]
    /\ availIdx \in Index /\ usedIdx \in Index /\ lastUsed \in Index
    /\ read_ptr \in Index /\ write_ptr \in Index
    /\ free \subseteq Heads
    /\ n \in Index \cup {Idle}
    /\ rx_queue \in Seq(Heads)
    /\ filling \in Heads \cup {None}
    /\ bound \in BOOLEAN /\ stored \in BOOLEAN /\ immediate \in BOOLEAN

\* virtio_create allocates the queue and leaves read_ptr as it comes.
Init ==
    /\ availRing = [s \in Slots |-> 0] /\ usedRing = [s \in Slots |-> 0]
    /\ availIdx = 0 /\ usedIdx = 0 /\ lastUsed = 0
    /\ read_ptr \in Index
    /\ write_ptr = 0
    /\ free = Heads
    /\ n = Idle /\ rx_queue = <<>> /\ filling = None /\ stored = FALSE
    /\ bound = FALSE
    /\ chain = ChainOf(<<>>)
    /\ immediate \in BOOLEAN

-----------------------------------------------------------------------------
(* The driver.                                                             *)

GuestRuns == n = Idle

\* The driver stores 0 to Status and starts with empty rings.  The device
\* resets read_ptr, and keeps write_ptr and the chains it holds, so that a
\* driver bound a second time reads its used ring where nothing is written:
\* the model follows the first binding only.
Reset ==
    /\ GuestRuns
    /\ ~bound
    /\ bound' = TRUE
    /\ availIdx' = 0 /\ usedIdx' = 0 /\ lastUsed' = 0
    /\ free' = Heads
    /\ read_ptr' = 0
    /\ UNCHANGED <<availRing, usedRing, write_ptr, n, rx_queue, filling, stored,
                   immediate, chain>>

Post(h) ==
    /\ GuestRuns /\ bound
    /\ h \in free
    /\ free' = free \ {h}
    /\ availRing' = [availRing EXCEPT ![Slot(availIdx)] = h]
    /\ availIdx' = Inc(availIdx)
    /\ UNCHANGED <<device, lastUsed, bound, immediate>>

Reap ==
    /\ GuestRuns /\ bound
    /\ lastUsed # usedIdx
    /\ free' = free \cup {usedRing[Slot(lastUsed)]}
    /\ lastUsed' = Inc(lastUsed)
    /\ UNCHANGED <<device, availRing, availIdx, bound, immediate>>

-----------------------------------------------------------------------------
(* The notify.                                                             *)

Notify ==
    /\ GuestRuns /\ bound
    /\ n' = read_ptr
    /\ UNCHANGED <<driver, usedRing, usedIdx, read_ptr, write_ptr, rx_queue,
                   filling, stored, immediate, chain>>

\* The main thread is at the head of the loop: a device that completes at
\* once has done so.
LoopHead == n # Idle /\ (immediate => filling = None)

\* The disk and the transmitter are done with a chain before they return.
CompleteAtOnce(h) == filling' = h /\ UNCHANGED rx_queue

\* Bug: a kept chain is put in front of the others.
KeepInFront(h) == rx_queue' = <<h>> \o rx_queue /\ UNCHANGED filling

\* The receiver keeps the chain, after those it has.
Keep(h) == rx_queue' = Append(rx_queue, h) /\ UNCHANGED filling

ProcessCommand(h) == IF immediate THEN CompleteAtOnce(h) ELSE Keep(h)

\* Bug: the loop counts slots, and the index it waits for is none.
TakeChainBySlot ==
    /\ LoopHead /\ n # availIdx
    /\ ProcessCommand(availRing[Slot(n)])
    /\ n' = Slot(n + 1)
    /\ UNCHANGED <<driver, usedRing, usedIdx, read_ptr, write_ptr, stored,
                   immediate, chain>>

TakeChain ==
    /\ LoopHead /\ n # availIdx
    /\ ProcessCommand(availRing[Slot(n)])
    /\ n' = Inc(n)
    /\ UNCHANGED <<driver, usedRing, usedIdx, read_ptr, write_ptr, stored,
                   immediate, chain>>

\* Bug: the position is not kept.
NotifyEndForgets ==
    /\ LoopHead /\ n = availIdx
    /\ n' = Idle
    /\ UNCHANGED <<driver, usedRing, usedIdx, read_ptr, write_ptr, rx_queue,
                   filling, stored, immediate, chain>>

NotifyEnd ==
    /\ LoopHead /\ n = availIdx
    /\ read_ptr' = n
    /\ n' = Idle
    /\ UNCHANGED <<driver, usedRing, usedIdx, write_ptr, rx_queue, filling, stored,
                   immediate, chain>>

-----------------------------------------------------------------------------
(* The completions.                                                        *)

\* The bytes of a packet.
Packet(size) == [b \in 1 .. size |-> b]

\* The reader thread has a packet and takes the oldest chain for it; a packet
\* the chain is too small for would end the program in an assert.
Receive ==
    /\ ~immediate /\ filling = None
    /\ rx_queue # <<>>
    /\ \E lens \in Layouts, size \in PacketSizes :
        /\ Header + size <= ChainOf(lens).writeable_bytes
        /\ chain' = ChainWriteBytes(ChainZero(ChainOf(lens), Header), Packet(size))
    /\ filling' = Head(rx_queue)
    /\ rx_queue' = Tail(rx_queue)
    /\ UNCHANGED <<driver, usedRing, usedIdx, read_ptr, write_ptr, n, stored,
                   immediate>>

\* virtio_flag_completion: the element, then the index the driver watches.
StoreElement ==
    /\ filling # None /\ ~stored
    /\ usedRing' = [usedRing EXCEPT ![Slot(write_ptr)] = filling]
    /\ stored' = TRUE
    /\ UNCHANGED <<driver, usedIdx, read_ptr, write_ptr, n, rx_queue, filling,
                   immediate, chain>>

\* Bug: the index is not cut to its width.
PublishWide ==
    /\ stored
    /\ write_ptr' = write_ptr + 1
    /\ usedIdx' = write_ptr'
    /\ filling' = None /\ stored' = FALSE /\ chain' = ChainOf(<<>>)
    /\ UNCHANGED <<driver, usedRing, read_ptr, n, rx_queue, immediate>>

Publish ==
    /\ stored
    /\ write_ptr' = Inc(write_ptr)
    /\ usedIdx' = write_ptr'
    /\ filling' = None /\ stored' = FALSE /\ chain' = ChainOf(<<>>)
    /\ UNCHANGED <<driver, usedRing, read_ptr, n, rx_queue, immediate>>

-----------------------------------------------------------------------------
MainThread == TakeChain \/ NotifyEnd
Completion == StoreElement \/ Publish

Next ==
    \/ Reset
    \/ \E h \in Heads : Post(h)
    \/ Reap
    \/ Notify
    \/ TakeChain
    \/ NotifyEnd
    \/ Receive
    \/ StoreElement
    \/ Publish

\* A notify runs to its end, and so does a completion that has begun; nothing
\* says when a packet arrives or what the driver does.
Spec ==
    /\ Init
    /\ [][Next]_vars
    /\ WF_vars(MainThread)
    /\ WF_vars(Completion)

-----------------------------------------------------------------------------
\* The elements from one ring index up to another.
Between(ring, from, to) ==
    [k \in 1 .. (to - from) % Wrap |-> ring[Slot(from + k - 1)]]

Offered == IF bound THEN Between(availRing, IF n = Idle THEN read_ptr ELSE n, availIdx)
                    ELSE <<>>
InHand == IF filling = None THEN <<>> ELSE <<filling>>
Held == InHand \o rx_queue
Returned == Between(usedRing, lastUsed, usedIdx)

Promise == INSTANCE BufferFifo WITH
    offered <- Offered, held <- Held, returned <- Returned

\* Whatever the interleaving of the guest, the notify and the reader thread,
\* and wherever the indices wrap, each offered buffer is taken once and given
\* back once, in order.
QueueIsFifo == Promise!FifoSpec

\* No descriptor is ever in two hands: the driver's free list, the part of
\* the available ring not yet read, the device, the part of the used ring not
\* yet read; and none is lost.
OneOwner ==
    LET inRings == Offered \o Held \o Returned
    IN  /\ IsInjective(inRings)
        /\ free \cap ToSet(inRings) = {}
        /\ free \cup ToSet(inRings) = Heads

\* A notify comes to its end, and by then every buffer offered before it has
\* been taken.
NotifyEnds == (n # Idle) ~> (n = Idle /\ Offered = <<>>)

\* The byte at a place of the chain: the header, the packet, what was there.
WholeByte(place, size) ==
    IF place <= Header THEN 0
    ELSE IF place <= Header + size THEN place - Header ELSE Stale

\* A packet comes to the guest whole: a header of zeros, its bytes in order,
\* and nothing written after them, whatever the lengths of the descriptors it
\* is spread over; and the used element says how many bytes that is
\* (virtio_chain_zero and virtio_chain_write, called one after the other).
PacketWhole ==
    stored /\ ~immediate =>
        LET size == chain.bytes_written - Header
            begin == Begin(chain.lens)
        IN  /\ size \in PacketSizes
            /\ \A d \in DOMAIN chain.lens :
                  chain.cells[d] = [b \in 1 .. chain.lens[d] |-> WholeByte(begin[d] + b, size)]

-----------------------------------------------------------------------------
(* What makes OneOwner inductive, and the refinement a step by step one:   *)
(* nothing has happened before the driver is bound, the used ring holds    *)
(* the chain that is about to be published, and a device that completes at *)
(* once keeps no chain.  PacketInHand does the same for PacketWhole.       *)

FreshUntilBound ==
    ~bound =>
        /\ availIdx = 0 /\ usedIdx = 0 /\ lastUsed = 0
        /\ free = Heads /\ n = Idle /\ rx_queue = <<>> /\ filling = None

UsedFollows ==
    /\ usedIdx = write_ptr
    /\ stored => filling # None /\ usedRing[Slot(write_ptr)] = filling

KeepsOrCompletes == immediate => rx_queue = <<>>

\* The chain a packet is about to be given back in is one it was written into.
PacketInHand ==
    ~immediate /\ filling # None =>
        \E lens \in Layouts, size \in PacketSizes :
            /\ Header + size <= ChainOf(lens).writeable_bytes
            /\ chain = ChainWriteBytes(ChainZero(ChainOf(lens), Header), Packet(size))

IInv == TypeOK /\ OneOwner /\ FreshUntilBound /\ UsedFollows /\ KeepsOrCompletes
=============================================================================
