----------------------------- MODULE ChainWrite -----------------------------
(***************************************************************************)
(* A chain of descriptors as virtio.h writes into it: virtio_chain_zero    *)
(* and virtio_chain_write put bytes into one descriptor after the other    *)
(* and leave their place in the chain for the next call.                   *)
(***************************************************************************)
EXTENDS Integers, Sequences

\* What a byte of a buffer is before anybody writes it.
Stale == -1

\* Where each descriptor begins, counted in bytes of the chain, and where the
\* last one ends.
Begin(lens) ==
    LET begin[d \in 1 .. Len(lens) + 1] ==
            IF d = 1 THEN 0 ELSE begin[d - 1] + lens[d - 1]
    IN  begin

\* struct virtio_chain, over buffers of the given lengths.
ChainOf(lens) ==
    [lens |-> lens,
     cells |-> [d \in DOMAIN lens |-> [b \in 1 .. lens[d] |-> Stale]],
     seek_chain |-> 1, seek_bytes |-> 0,
     writeable_bytes |-> Begin(lens)[Len(lens) + 1],
     bytes_written |-> 0]

\* Bug: the next descriptor is begun one byte too late.
NextDescriptorLate(c) ==
    IF c.seek_bytes > c.lens[c.seek_chain]
    THEN [c EXCEPT !.seek_bytes = 0, !.seek_chain = @ + 1] ELSE c

\* A descriptor that is full is left.
NextDescriptor(c) ==
    IF c.seek_bytes = c.lens[c.seek_chain]
    THEN [c EXCEPT !.seek_bytes = 0, !.seek_chain = @ + 1] ELSE c

\* One turn of the loop: as much of buf as the descriptor still takes.
Turn(c, buf) ==
    LET remain == c.lens[c.seek_chain] - c.seek_bytes
        len == IF Len(buf) < remain THEN Len(buf) ELSE remain
        Put(cell) == [b \in DOMAIN cell |->
                        IF b - c.seek_bytes \in 1 .. len THEN buf[b - c.seek_bytes] ELSE cell[b]]
    IN  [chain |-> NextDescriptor([c EXCEPT !.cells[c.seek_chain] = Put(@),
                                            !.seek_bytes = @ + len]),
         rest |-> SubSeq(buf, len + 1, Len(buf))]

\* The loop: a turn fills a descriptor or empties the buffer.
Turns(c, buf) ==
    LET after[k \in 0 .. Len(c.lens)] ==
            IF k = 0 THEN [chain |-> c, rest |-> buf]
            ELSE IF after[k - 1].rest = <<>> THEN after[k - 1]
            ELSE Turn(after[k - 1].chain, after[k - 1].rest)
    IN  after

ChainWriteBytes(c, buf) ==
    LET counted == [c EXCEPT !.bytes_written = @ + Len(buf), !.writeable_bytes = @ - Len(buf)]
    IN  Turns(counted, buf)[Len(c.lens)].chain

ChainZero(c, bytes) == ChainWriteBytes(c, [b \in 1 .. bytes |-> 0])
=============================================================================
