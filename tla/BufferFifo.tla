----------------------------- MODULE BufferFifo -----------------------------
(***************************************************************************)
(* What a virtqueue promises its driver: the buffers it offers are taken,  *)
(* and given back, each once and in the order they were offered.  The      *)
(* rings and the indices that wrap are not seen here.                      *)
(***************************************************************************)
EXTENDS Sequences

CONSTANT Heads      \* the descriptors a driver may offer

VARIABLES
    free,           \* the driver's
    offered,        \* the device has not looked at these yet
    held,           \* the device works on these
    returned        \* the driver has not looked at these yet

fifoVars == <<free, offered, held, returned>>

FifoInit ==
    /\ free = Heads
    /\ offered = <<>> /\ held = <<>> /\ returned = <<>>

Offer(h) ==
    /\ h \in free
    /\ free' = free \ {h}
    /\ offered' = Append(offered, h)
    /\ UNCHANGED <<held, returned>>

Take ==
    /\ offered # <<>>
    /\ held' = Append(held, Head(offered))
    /\ offered' = Tail(offered)
    /\ UNCHANGED <<free, returned>>

GiveBack ==
    /\ held # <<>>
    /\ returned' = Append(returned, Head(held))
    /\ held' = Tail(held)
    /\ UNCHANGED <<free, offered>>

Collect ==
    /\ returned # <<>>
    /\ free' = free \cup {Head(returned)}
    /\ returned' = Tail(returned)
    /\ UNCHANGED <<offered, held>>

FifoNext == (\E h \in Heads : Offer(h)) \/ Take \/ GiveBack \/ Collect

FifoSpec == FifoInit /\ [][FifoNext]_fifoVars
=============================================================================
