------------------------------ MODULE ByteFifo ------------------------------
(***************************************************************************)
(* What a console promises: the bytes that are typed are read, each once   *)
(* and in the order they were typed.  Bytes of some kind it never delivers *)
(* and may drop wherever they wait.                                        *)
(***************************************************************************)
EXTENDS Integers, Sequences

CONSTANTS
    Bytes,
    Dropped     \* the bytes that are not delivered

VARIABLES
    waiting,    \* typed and not read
    got         \* the byte read last

byteVars == <<waiting, got>>

ByteInit == waiting = <<>> /\ got = 0

Arrive(b) == waiting' = Append(waiting, b) /\ UNCHANGED got

Deliver ==
    /\ waiting # <<>> /\ Head(waiting) \notin Dropped
    /\ got' = Head(waiting)
    /\ waiting' = Tail(waiting)

Drop(i) ==
    /\ waiting[i] \in Dropped
    /\ waiting' = SubSeq(waiting, 1, i - 1) \o SubSeq(waiting, i + 1, Len(waiting))
    /\ UNCHANGED got

ByteNext ==
    \/ \E b \in Bytes : Arrive(b)
    \/ Deliver
    \/ \E i \in DOMAIN waiting : Drop(i)

ByteSpec == ByteInit /\ [][ByteNext]_byteVars
=============================================================================
