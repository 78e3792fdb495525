------------------------------- MODULE NetRx -------------------------------
(***************************************************************************)
(* Two threads of the emulator and what they share.  The main thread runs  *)
(* Steps of the guest, which offers receive buffers and serves its         *)
(* interrupts, and polls the UART after each.  The reader thread of        *)
(* network_tap.c takes a packet, pops a buffer from the list of            *)
(* virtio-net.c, completes it and raises the interrupt.                    *)
(*                                                                         *)
(* The words the threads share without a common lock are loaded and stored *)
(* in separate steps: irq_pending, which the main thread never locks, and  *)
(* the InterruptStatus of the network device.  The line (mip bit 11) is    *)
(* stored in one step: its other bits are recomputed by the next Step.     *)
(* Memory is sequentially consistent, and a Step may end anywhere in the   *)
(* guest's code.  A register (mval, rval, node, tail, rnode) is emptied    *)
(* once it is dead.                                                        *)
(***************************************************************************)
EXTENDS Integers, Sequences

CONSTANT Chains     \* the receive buffers of the guest

NULL == 0
ASSUME ChainsAssumption == NULL \notin Chains

VARIABLES
    irq_pending, irq_claimed, meip,
    status,                 \* InterruptStatus: the used bit
    queue_mutex, plic_mutex, hart_mutex,
    queue_head, next,       \* the list of virtio-net.c; a node is its chain
    order,                  \* history: the chains of the list, oldest first
    free, used,             \* chains the guest may offer, and used ones it
                            \* has not looked at
    key,                    \* a byte waits on stdin
    mpc, mval, op, irq, ret, node, tail,    \* the main thread
    handler, seen,          \* the guest's handler and the status it read
    rpc, rval, rnode,       \* the reader thread
    lost                    \* history: an update of a shared word was undone

plic == <<irq_pending, irq_claimed, meip>>
locks == <<queue_mutex, plic_mutex, hart_mutex>>
list == <<queue_head, next, order>>
rings == <<free, used>>
call == <<op, irq, ret>>
append == <<node, tail>>
guest == <<handler, seen>>
main == <<mpc, mval, call, append, guest>>
reader == <<rpc, rval, rnode>>
vars == <<plic, status, locks, list, rings, key, main, reader, lost>>

Uart == 1
Net == 2
Irqs == {Uart, Net}
Used == 1           \* bit 0 of InterruptStatus, the one a network device sets
Nobody == "nobody"
Main == "main"
Reader == "reader"

TypeOK ==
    /\ irq_pending \subseteq Irqs /\ irq_claimed \subseteq Irqs
    /\ meip \in BOOLEAN /\ status \subseteq {Used}
    /\ {queue_mutex, plic_mutex, hart_mutex} \subseteq {Nobody, Main, Reader}
    /\ queue_head \in Chains \cup {NULL}
    /\ next \in [Chains -> Chains \cup {NULL}]
    /\ order \in Seq(Chains)
    /\ free \subseteq Chains /\ used \subseteq Chains
    /\ key \in BOOLEAN /\ lost \in BOOLEAN
    /\ mpc \in {"between", "step", "lockQueue", "walk", "unlockQueue",
                "ackStore", "ackTest", "load", "store", "test", "line"}
    /\ mval \subseteq Irqs
    /\ op \in {"raise", "clear"} /\ irq \in Irqs /\ ret \in {"between", "step"}
    /\ node \in Chains \cup {NULL} /\ tail \in Chains \cup {NULL}
    /\ handler \in {"none", "claim", "status", "ack", "drain", "uart",
                    "completeUart", "completeNet"}
    /\ seen \subseteq {Used}
    /\ rpc \in {"read", "take", "unlink", "unlockQueue", "use", "statusLoad",
                "statusStore", "lockPlic", "load", "store", "test", "lockHart",
                "line", "unlockHart", "unlockPlic"}
    /\ rval \subseteq Irqs
    /\ rnode \in Chains \cup {NULL}

Init ==
    /\ irq_pending = {} /\ irq_claimed = {} /\ meip = FALSE /\ status = {}
    /\ queue_mutex = Nobody /\ plic_mutex = Nobody /\ hart_mutex = Nobody
    /\ queue_head = NULL /\ next = [c \in Chains |-> NULL]
    /\ order = <<>>
    /\ free = Chains /\ used = {}
    /\ key = FALSE
    /\ mpc = "between" /\ mval = {} /\ op = "clear" /\ irq = Uart
    /\ ret = "between" /\ node = NULL /\ tail = NULL
    /\ handler = "none" /\ seen = {}
    /\ rpc = "read" /\ rval = {} /\ rnode = NULL
    /\ lost = FALSE

Unmasked == irq_pending \ irq_claimed

-----------------------------------------------------------------------------
(* The main thread: a call into plic.c, without its mutex.                 *)

Call(o, i, back) == mpc' = "load" /\ op' = o /\ irq' = i /\ ret' = back

MainLoad ==
    /\ mpc = "load"
    /\ mval' = irq_pending
    /\ mpc' = "store"
    /\ UNCHANGED <<plic, status, locks, list, rings, key, call, append, guest,
                   reader, lost>>

\* The acknowledgement withdraws the network's source although the reader has
\* set the status bit since it was tested.
WithdrawsNews == op = "clear" /\ irq = Net /\ status # {}

MainStore ==
    /\ mpc = "store"
    /\ irq_pending' = IF op = "raise" THEN mval \cup {irq} ELSE mval \ {irq}
    /\ lost' = (lost \/ mval # irq_pending \/ WithdrawsNews)
    /\ mval' = {}
    /\ mpc' = "test"
    /\ UNCHANGED <<irq_claimed, meip, status, locks, list, rings, key, call,
                   append, guest, reader>>

\* Bug: a cleared source takes the line down, whatever else is pending.
MainTestDrops ==
    /\ mpc = "test"
    /\ mpc' = IF op = "clear" \/ Unmasked # {} THEN "line" ELSE ret
    /\ mval' = Unmasked
    /\ UNCHANGED <<plic, status, locks, list, rings, key, call, append, guest,
                   reader, lost>>

MainTest ==
    /\ mpc = "test"
    /\ mpc' = IF (op = "raise") = (Unmasked # {}) THEN "line" ELSE ret
    /\ mval' = IF mpc' = "line" THEN Unmasked ELSE {}
    /\ UNCHANGED <<plic, status, locks, list, rings, key, call, append, guest,
                   reader, lost>>

\* Between two Steps nothing keeps the reader thread from raising the line
\* after the test and before this store takes it down.
MainLine ==
    /\ mpc = "line"
    /\ meip' = (op = "raise")
    /\ lost' = (lost \/ (op = "clear" /\ mval # Unmasked /\ hart_mutex # Main))
    /\ mval' = {}
    /\ mpc' = ret
    /\ UNCHANGED <<irq_pending, irq_claimed, status, locks, list, rings, key,
                   call, append, guest, reader>>

(* The main loop.                                                          *)

StepBegin ==
    /\ mpc = "between" /\ hart_mutex = Nobody
    /\ hart_mutex' = Main
    /\ mpc' = "step"
    /\ handler' = IF handler = "none" /\ meip THEN "claim" ELSE handler
    /\ UNCHANGED <<plic, status, queue_mutex, plic_mutex, list, rings, key,
                   mval, call, append, seen, reader, lost>>

\* The Step is over and pl011_poll looks at stdin.
StepEnd ==
    /\ mpc = "step"
    /\ hart_mutex' = Nobody
    /\ Call(IF key THEN "raise" ELSE "clear", Uart, "between")
    /\ UNCHANGED <<plic, status, queue_mutex, plic_mutex, list, rings, key,
                   mval, append, guest, reader, lost>>

KeyPress ==
    /\ ~key
    /\ key' = TRUE
    /\ UNCHANGED <<plic, status, locks, list, rings, main, reader, lost>>

-----------------------------------------------------------------------------
(* The guest, inside a Step: a notify that offers one buffer.              *)

\* Bug: the new node's link is left as it comes.
NotifyKeepsLink(c) ==
    /\ mpc = "step" /\ c \in free
    /\ free' = free \ {c}
    /\ node' = c
    /\ mpc' = "lockQueue"
    /\ UNCHANGED <<plic, status, locks, list, used, key, mval, call, tail,
                   guest, reader, lost>>

Notify(c) ==
    /\ mpc = "step" /\ c \in free
    /\ free' = free \ {c}
    /\ next' = [next EXCEPT ![c] = NULL]
    /\ node' = c
    /\ mpc' = "lockQueue"
    /\ UNCHANGED <<plic, status, locks, queue_head, order, used, key, mval,
                   call, tail, guest, reader, lost>>

LockQueue ==
    /\ mpc = "lockQueue" /\ queue_mutex = Nobody
    /\ queue_mutex' = Main
    /\ IF queue_head = NULL
         THEN /\ queue_head' = node
              /\ order' = Append(order, node)
              /\ mpc' = "unlockQueue"
              /\ UNCHANGED tail
         ELSE /\ tail' = queue_head
              /\ mpc' = "walk"
              /\ UNCHANGED <<queue_head, order>>
    /\ UNCHANGED <<plic, status, plic_mutex, hart_mutex, next, rings,
                   key, mval, call, node, guest, reader, lost>>

Walk ==
    /\ mpc = "walk"
    /\ IF next[tail] # NULL
         THEN /\ tail' = next[tail]
              /\ UNCHANGED <<next, order, mpc>>
         ELSE /\ next' = [next EXCEPT ![tail] = node]
              /\ order' = Append(order, node)
              /\ mpc' = "unlockQueue"
              /\ UNCHANGED tail
    /\ UNCHANGED <<plic, status, locks, queue_head, rings, key, mval,
                   call, node, guest, reader, lost>>

UnlockQueue ==
    /\ mpc = "unlockQueue"
    /\ queue_mutex' = Nobody
    /\ node' = NULL /\ tail' = NULL
    /\ mpc' = "step"
    /\ UNCHANGED <<plic, status, plic_mutex, hart_mutex, list, rings, key,
                   mval, call, guest, reader, lost>>

-----------------------------------------------------------------------------
(* The guest's interrupt handler, as in IrqDelivery.                       *)

Lowest(s) == CHOOSE i \in s : \A j \in s : i <= j

Claim ==
    /\ mpc = "step" /\ handler = "claim"
    /\ IF Unmasked = {}
         THEN handler' = "none" /\ UNCHANGED irq_claimed
         ELSE /\ irq_claimed' = irq_claimed \cup {Lowest(Unmasked)}
              /\ handler' = IF Lowest(Unmasked) = Net THEN "status" ELSE "uart"
    /\ UNCHANGED <<irq_pending, meip, status, locks, list, rings, key, mpc,
                   mval, call, append, seen, reader, lost>>

StatusLoad ==
    /\ mpc = "step" /\ handler = "status"
    /\ seen' = status
    /\ handler' = "ack"
    /\ UNCHANGED <<plic, status, locks, list, rings, key, mpc, mval, call,
                   append, reader, lost>>

\* InterruptACK: &= is a load and a store.
AckLoad ==
    /\ mpc = "step" /\ handler = "ack"
    /\ mval' = status
    /\ mpc' = "ackStore"
    /\ handler' = "drain"
    /\ UNCHANGED <<plic, status, locks, list, rings, key, call, append, seen,
                   reader, lost>>

AckStore ==
    /\ mpc = "ackStore"
    /\ status' = mval \ seen
    /\ lost' = (lost \/ mval # status)
    /\ mval' = status'
    /\ mpc' = "ackTest"
    /\ UNCHANGED <<plic, locks, list, rings, key, call, append, guest, reader>>

\* The word is tested again: the compiler may load it again or use what was
\* stored.
AckTest(value) ==
    /\ mpc = "ackTest" /\ value \in {mval, status}
    /\ IF value # {}
         THEN mpc' = "step" /\ UNCHANGED call
         ELSE Call("clear", Net, "step")
    /\ mval' = {}
    /\ UNCHANGED <<plic, status, locks, list, rings, key, append, guest,
                   reader, lost>>

Drain ==
    /\ mpc = "step" /\ handler = "drain"
    /\ IF seen # {}
         THEN used' = {} /\ free' = free \cup used
         ELSE UNCHANGED rings
    /\ handler' = "completeNet"
    /\ UNCHANGED <<plic, status, locks, list, key, mpc, mval, call, append,
                   seen, reader, lost>>

\* The UART's handler reads a byte; the load polls stdin again, and while more
\* is there the handler goes on.
UartRead ==
    /\ mpc = "step" /\ handler = "uart"
    /\ key' \in BOOLEAN
    /\ Call(IF key' THEN "raise" ELSE "clear", Uart, "step")
    /\ handler' = IF key' THEN "uart" ELSE "completeUart"
    /\ UNCHANGED <<plic, status, locks, list, rings, mval, append, seen,
                   reader, lost>>

Complete ==
    /\ mpc = "step" /\ handler \in {"completeUart", "completeNet"}
    /\ irq_claimed' = irq_claimed \ {IF handler = "completeNet" THEN Net ELSE Uart}
    /\ handler' = "claim"
    /\ UNCHANGED <<irq_pending, meip, status, locks, list, rings, key, mpc,
                   mval, call, append, seen, reader, lost>>

-----------------------------------------------------------------------------
(* The reader thread: read, then the callback of virtio-net.c.             *)

Read ==
    /\ rpc = "read" /\ queue_mutex = Nobody
    /\ queue_mutex' = Reader
    /\ rpc' = "take"
    /\ UNCHANGED <<plic, status, plic_mutex, hart_mutex, list, rings, key,
                   main, rval, rnode, lost>>

\* No buffer: the packet is dropped.
Take ==
    /\ rpc = "take"
    /\ rnode' = queue_head
    /\ rpc' = IF queue_head = NULL THEN "unlockQueue" ELSE "unlink"
    /\ UNCHANGED <<plic, status, locks, list, rings, key, main, rval, lost>>

Unlink ==
    /\ rpc = "unlink"
    /\ queue_head' = next[rnode]
    /\ order' = Tail(order)
    /\ rpc' = "unlockQueue"
    /\ UNCHANGED <<plic, status, locks, next, rings, key, main, rval,
                   rnode, lost>>

\* Bug: the mutex is kept while the interrupt is raised.
ReaderKeepsQueue ==
    /\ rpc = "unlockQueue"
    /\ IF rnode = NULL THEN queue_mutex' = Nobody ELSE UNCHANGED queue_mutex
    /\ rpc' = IF rnode = NULL THEN "read" ELSE "use"
    /\ UNCHANGED <<plic, status, plic_mutex, hart_mutex, list, rings, key,
                   main, rval, rnode, lost>>

ReaderUnlockQueue ==
    /\ rpc = "unlockQueue"
    /\ queue_mutex' = Nobody
    /\ rpc' = IF rnode = NULL THEN "read" ELSE "use"
    /\ UNCHANGED <<plic, status, plic_mutex, hart_mutex, list, rings, key,
                   main, rval, rnode, lost>>

\* Bug: the node is put back, as for a packet that did not fit.
UsePutsBack ==
    /\ rpc = "use"
    /\ used' = used \cup {rnode}
    /\ queue_head' = rnode /\ order' = <<rnode>> \o order
    /\ rpc' = "statusLoad"
    /\ UNCHANGED <<plic, status, locks, next, free, key, main, rval, rnode, lost>>

\* The packet is written and the buffer put in the used ring.
Use ==
    /\ rpc = "use"
    /\ used' = used \cup {rnode}
    /\ rpc' = "statusLoad"
    /\ UNCHANGED <<plic, status, locks, list, free, key, main, rval, rnode, lost>>

ReaderStatusLoad ==
    /\ rpc = "statusLoad"
    /\ rval' = status
    /\ rpc' = "statusStore"
    /\ UNCHANGED <<plic, status, locks, list, rings, key, main, rnode, lost>>

ReaderStatusStore ==
    /\ rpc = "statusStore"
    /\ status' = rval \cup {Used}
    /\ lost' = (lost \/ rval # status)
    /\ rval' = {}
    /\ rnode' = NULL
    /\ rpc' = "lockPlic"
    /\ UNCHANGED <<plic, locks, list, rings, key, main>>

ReaderLockPlic ==
    /\ rpc = "lockPlic" /\ plic_mutex = Nobody
    /\ plic_mutex' = Reader
    /\ rpc' = "load"
    /\ UNCHANGED <<plic, status, queue_mutex, hart_mutex, list, rings, key,
                   main, rval, rnode, lost>>

ReaderLoad ==
    /\ rpc = "load"
    /\ rval' = irq_pending
    /\ rpc' = "store"
    /\ UNCHANGED <<plic, status, locks, list, rings, key, main, rnode, lost>>

\* Bug: the number is stored in the place of the word.
ReaderStoreNumber ==
    /\ rpc = "store"
    /\ irq_pending' = {Net + 1}
    /\ lost' = (lost \/ rval # irq_pending)
    /\ rval' = {}
    /\ rpc' = "test"
    /\ UNCHANGED <<irq_claimed, meip, status, locks, list, rings, key, main,
                   rnode>>

ReaderStore ==
    /\ rpc = "store"
    /\ irq_pending' = rval \cup {Net}
    /\ lost' = (lost \/ rval # irq_pending)
    /\ rval' = {}
    /\ rpc' = "test"
    /\ UNCHANGED <<irq_claimed, meip, status, locks, list, rings, key, main,
                   rnode>>

\* Bug: the source is recorded and the hart is not told.
ReaderTestNever ==
    /\ rpc = "test"
    /\ rpc' = "unlockPlic"
    /\ UNCHANGED <<plic, status, locks, list, rings, key, main, rval, rnode, lost>>

ReaderTest ==
    /\ rpc = "test"
    /\ rpc' = IF Unmasked # {} THEN "lockHart" ELSE "unlockPlic"
    /\ UNCHANGED <<plic, status, locks, list, rings, key, main, rval, rnode, lost>>

ReaderLockHart ==
    /\ rpc = "lockHart" /\ hart_mutex = Nobody
    /\ hart_mutex' = Reader
    /\ rpc' = "line"
    /\ UNCHANGED <<plic, status, queue_mutex, plic_mutex, list, rings, key,
                   main, rval, rnode, lost>>

ReaderLine ==
    /\ rpc = "line"
    /\ meip' = TRUE
    /\ rpc' = "unlockHart"
    /\ UNCHANGED <<irq_pending, irq_claimed, status, locks, list, rings, key,
                   main, rval, rnode, lost>>

ReaderUnlockHart ==
    /\ rpc = "unlockHart"
    /\ hart_mutex' = Nobody
    /\ rpc' = "unlockPlic"
    /\ UNCHANGED <<plic, status, queue_mutex, plic_mutex, list, rings, key,
                   main, rval, rnode, lost>>

ReaderUnlockPlic ==
    /\ rpc = "unlockPlic"
    /\ plic_mutex' = Nobody
    /\ rpc' = "read"
    /\ UNCHANGED <<plic, status, queue_mutex, hart_mutex, list, rings, key,
                   main, rval, rnode, lost>>

-----------------------------------------------------------------------------
MainThread ==
    \/ MainLoad \/ MainStore \/ MainTest \/ MainLine
    \/ StepBegin \/ StepEnd
    \/ \E c \in Chains : Notify(c)
    \/ LockQueue \/ Walk \/ UnlockQueue
    \/ Claim \/ StatusLoad \/ AckLoad \/ AckStore
    \/ \E value \in SUBSET {Used} : AckTest(value)
    \/ Drain \/ UartRead \/ Complete

ReaderThread ==
    \/ Read \/ Take \/ Unlink \/ ReaderUnlockQueue \/ Use
    \/ ReaderStatusLoad \/ ReaderStatusStore
    \/ ReaderLockPlic \/ ReaderLoad \/ ReaderStore \/ ReaderTest
    \/ ReaderLockHart \/ ReaderLine \/ ReaderUnlockHart \/ ReaderUnlockPlic

Next == KeyPress \/ MainThread \/ ReaderThread

Spec == Init /\ [][Next]_vars

-----------------------------------------------------------------------------
\* What a thread is about to lock, and who has it.
MainWantsFrom ==
    CASE mpc = "between" -> hart_mutex
      [] mpc = "lockQueue" -> queue_mutex
      [] OTHER -> Nobody
ReaderWantsFrom ==
    CASE rpc = "read" -> queue_mutex
      [] rpc = "lockPlic" -> plic_mutex
      [] rpc = "lockHart" -> hart_mutex
      [] OTHER -> Nobody

\* The two threads never wait for each other: the main thread locks the list
\* while it holds the hart's mutex for the whole Step, and the reader locks
\* the hart's mutex for the line it raises.
NoLockCycle == ~(MainWantsFrom = Reader /\ ReaderWantsFrom = Main)

\* The linked list is the queue of the offered buffers, oldest first, whenever
\* nobody has it locked.
ListIsQueue ==
    queue_mutex = Nobody =>
        /\ queue_head = IF order = <<>> THEN NULL ELSE Head(order)
        /\ \A k \in 1 .. Len(order) :
              next[order[k]] = IF k = Len(order) THEN NULL ELSE order[k + 1]

\* Every buffer is with exactly one of: the guest (free or used), the notify
\* that appends it, the list, the reader.
WithMain == IF mpc \in {"lockQueue", "walk"} THEN {node} ELSE {}
WithReader == IF rpc \in {"unlockQueue", "use"} /\ rnode # NULL THEN {rnode} ELSE {}
InList == {order[k] : k \in 1 .. Len(order)}
BufferHasOneOwner ==
    /\ free \cup used \cup WithMain \cup WithReader \cup InList = Chains
    /\ \A c \in Chains :
         \A S, T \in {"free", "used", "main", "reader", "list"} :
            LET in == [free |-> free, used |-> used, main |-> WithMain,
                       reader |-> WithReader, list |-> InList]
            IN  c \in in[S] /\ c \in in[T] => S = T

\* A packet the guest has not seen is never left without its interrupt while
\* both threads are outside virtio.c and plic.c, unless a load and a store of
\* one thread enclosed a store of the other (lost): the unlocked words lose an
\* interrupt in those windows only.
Resting ==
    /\ mpc \in {"between", "step"} /\ handler = "none"
    /\ rpc \in {"read", "take", "unlink", "unlockQueue"}
PacketHasLine == Resting /\ used # {} => meip \/ lost

\* During a Step the line is not taken down under a source that is pending,
\* whatever the reader does: it waits for the hart's mutex, and raises the
\* line after the Step.
LineComesBack ==
    hart_mutex = Main /\ mpc = "step" /\ handler = "none" /\ Unmasked # {} =>
        meip \/ lost \/ rpc \in {"test", "lockHart"}

-----------------------------------------------------------------------------
(* What makes the properties above inductive.                              *)

\* Who has which mutex is told by the two program counters.  A call into plic.c
\* that returns to "step" is made inside a Step.
Calling == mpc \in {"load", "store", "test", "line"}
InStep == mpc # "between" /\ (Calling => ret = "step")
LocksHeld ==
    /\ hart_mutex = Main <=> InStep
    /\ hart_mutex = Reader <=> rpc \in {"line", "unlockHart"}
    /\ queue_mutex = Main <=> mpc \in {"walk", "unlockQueue"}
    /\ queue_mutex = Reader <=> rpc \in {"take", "unlink", "unlockQueue"}
    /\ plic_mutex = Nobody <=>
        rpc \in {"read", "take", "unlink", "unlockQueue", "use", "statusLoad",
                 "statusStore", "lockPlic"}
    /\ plic_mutex # Main

\* What the registers hold while they are in use.
RegistersFit ==
    /\ mpc = "ackStore" => mval \subseteq {Used}
    /\ mpc = "line" /\ op = "clear" => mval = {}
    /\ mpc \in {"lockQueue", "walk"} => node \in Chains /\ next[node] = NULL
    /\ mpc = "walk" => tail \in InList
    /\ rpc = "statusStore" => rval \subseteq {Used}
    /\ rpc \in {"use", "unlink"} => rnode # NULL
    /\ rpc = "unlink" => order # <<>> /\ rnode = Head(order)

\* The list is the queue at every step, the unlocking and the walk included,
\* and no buffer is in it twice.
Linked ==
    /\ queue_head = IF order = <<>> THEN NULL ELSE Head(order)
    /\ \A k \in 1 .. Len(order) :
          next[order[k]] = IF k = Len(order) THEN NULL ELSE order[k + 1]
    /\ \A j, k \in 1 .. Len(order) : order[j] = order[k] => j = k

\* The claim in the PLIC is that of the handler, and what the main thread calls
\* plic.c for is told by the handler too.
HandlerPlace ==
    /\ irq_claimed = CASE handler \in {"none", "claim"} -> {}
                       [] handler \in {"uart", "completeUart"} -> {Uart}
                       [] OTHER -> {Net}
    /\ mpc \in {"ackStore", "ackTest"} => handler = "drain"
    /\ Calling /\ ret = "step" => handler # "none"
    /\ Calling /\ irq = Net => op = "clear" /\ ret = "step" /\ handler = "drain"

\* A source that is pending has its line, or somebody is about to raise it.
LineFollows ==
    Unmasked # {} =>
        \/ meip \/ lost \/ handler # "none"
        \/ rpc \in {"test", "lockHart", "line"}
        \/ mpc \in {"test", "line"} /\ op = "raise"

\* A used buffer has its status bit and its source, or the reader is about to
\* set them, or the handler is about to take the buffer.
Draining == handler = "drain" /\ seen # {}
StatusTold ==
    used # {} =>
        \/ lost \/ status # {} \/ Draining
        \/ rpc \in {"statusLoad", "statusStore"}
SourceTold ==
    used # {} =>
        \/ lost \/ Net \in irq_pending \/ Draining
        \/ rpc \in {"statusLoad", "statusStore", "lockPlic", "load", "store"}

IInv ==
    /\ TypeOK /\ LocksHeld /\ RegistersFit /\ Linked /\ BufferHasOneOwner
    /\ HandlerPlace /\ LineFollows /\ StatusTold /\ SourceTold
=============================================================================
