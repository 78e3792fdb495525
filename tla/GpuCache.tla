----------------------------- MODULE GpuCache -----------------------------
(* The memory bus of the cache experiment (cachetest/gpucache.h): stores go *)
(* to a small set-associative cache that is never evicted while a Step      *)
(* runs; the store that fills a set makes the Step return, and FlushRunlet  *)
(* writes every line back before the next one (cachetest.c).  Every access  *)
(* is also made on a shadow of the RAM, and a load that disagrees with it   *)
(* ends the program.                                                        *)
EXTENDS Integers, Sequences

CONSTANTS
    WordBytes,    \* bytes of a word: 4 in the code
    BlockWords,   \* words of a block, 4
    Blocks,       \* blocks of RAM
    Sets, Ways,   \* 256 sets of CACHE_N_WAY = 2
    MaxFcnt,      \* MAX_FCNT, 512
    Image,        \* the RAM after the image is loaded, all bytes 0 in the checks
    MaxStores     \* bound on the stores of a run

ASSUME CacheAssumption ==
    /\ {WordBytes, BlockWords, Blocks, Sets, Ways, MaxFcnt} \subseteq Nat \ {0}
    /\ Sets > 1
    /\ MaxStores \in Nat

BlockBytes == WordBytes * BlockWords
Bytes == 0 .. Blocks * BlockBytes - 1
Lengths == {1, 2, 4} \cap 1 .. WordBytes

\* A byte is 0 or the number of the stored byte it came from, so that no two
\* stored bytes are taken for each other.
Values == 0 .. MaxStores * WordBytes

ASSUME ImageAssumption == Image \in [Bytes -> Values]

\* ram_image, ram_image_shadow; lines is the cache, for each set the ways in
\* use in the order they were taken; usage is cache_usage.  stepping holds
\* inside MiniRV32IMAStep, and status is "exit" after one of the exit(-99).
\* stores and stale only observe: the stores made, and the
\* blocks that were still in the cache at it.
VARIABLES ram, shadow, lines, usage, stepping, status, stores, stale
vars == <<ram, shadow, lines, usage, stepping, status, stores, stale>>

Init ==
    /\ ram = Image /\ shadow = Image
    /\ lines = [s \in 0 .. Sets - 1 |-> <<>>]
    /\ usage = 0 /\ stores = 0 /\ stale = {}
    /\ stepping = TRUE /\ status = "runs"

BlockOf(ptr) == ptr \div BlockBytes
SetOf(block) == block % Sets
MainSystemAccess(block) == [i \in 0 .. BlockBytes - 1 |-> ram[block * BlockBytes + i]]
WaysOf(c, block) == {w \in DOMAIN c[SetOf(block)] : c[SetOf(block)][w].block = block}

\* The word at an aligned ptr: from the block's line, or from RAM.
LoadRB(c, ptr) ==
    LET block == BlockOf(ptr)
        hit   == WaysOf(c, block)
        data  == IF hit = {} THEN MainSystemAccess(block)
                 ELSE c[SetOf(block)][CHOOSE w \in hit : TRUE].data
    IN  [i \in 0 .. WordBytes - 1 |-> data[(ptr % BlockBytes) + i]]

\* The bytes of a load that may straddle two words.
LoadMemInternal(c, ptr, len) ==
    LET remo == ptr % WordBytes
        base == ptr - remo
        low  == LoadRB(c, base)
        high == IF len > WordBytes - remo THEN LoadRB(c, base + WordBytes) ELSE low
    IN  [i \in 0 .. len - 1 |->
            IF remo + i < WordBytes THEN low[remo + i] ELSE high[remo + i - WordBytes]]

\* An access meets a set whose ways all hold other blocks.
Overfull(c, block) == WaysOf(c, block) = {} /\ Len(c[SetOf(block)]) = Ways

WithWord(data, at, val) ==
    [i \in DOMAIN data |-> IF i \in at .. at + WordBytes - 1 THEN val[i - at] ELSE data[i]]

\* Bug: a filled set asks for no flush.
UsageCounts(n, old) == old + 1

\* The count of lines after one more in a set that had n.
UsageWith(n, old) == IF n = Ways - 1 THEN MaxFcnt ELSE old + 1

\* StoreMemInternalRB on c = [lines, usage, full]: the block's line is changed,
\* or a way is taken and filled from RAM; the last one of a set asks for a
\* flush, and without one the program ends.
StoreRB(c, ptr, val) ==
    LET block == BlockOf(ptr)
        s     == SetOf(block)
        hit   == WaysOf(c.lines, block)
        at    == ptr % BlockBytes
        fresh == [block |-> block, data |-> WithWord(MainSystemAccess(block), at, val)]
    IN  CASE hit # {} -> [c EXCEPT !.lines[s][CHOOSE w \in hit : TRUE].data = WithWord(@, at, val)]
          [] Overfull(c.lines, block) -> [c EXCEPT !.full = TRUE]
          [] OTHER -> [c EXCEPT !.lines[s] = Append(@, fresh),
                                !.usage = UsageWith(Len(c.lines[s]), @)]

\* Bug: an access is taken to be in one word.
NeverStraddles(ptr, len) == FALSE

\* len bytes at ptr are in two words.
Straddles(ptr, len) == (ptr % WordBytes) + len > WordBytes

\* A word StoreMemInternal writes: what was read before the first write, with
\* the bytes of the store in it.
Merged(word, ptr, len, val) ==
    LET old == LoadRB(lines, word)
    IN  [i \in 0 .. WordBytes - 1 |->
            IF word + i \in ptr .. ptr + len - 1 THEN val[word + i - ptr] ELSE old[i]]

\* The one or two words of StoreMemInternal, in its order.
StoreMemInternal(ptr, len, val) ==
    LET base  == ptr - (ptr % WordBytes)
        first == StoreRB([lines |-> lines, usage |-> usage, full |-> FALSE],
                         base, Merged(base, ptr, len, val))
    IN  IF Straddles(ptr, len)
        THEN StoreRB(first, base + WordBytes, Merged(base + WordBytes, ptr, len, val))
        ELSE first

\* A store instruction; the Step goes on only while the cache has room.
Store(ptr, len) ==
    LET val == [i \in 0 .. len - 1 |-> stores * WordBytes + i + 1]
        c   == StoreMemInternal(ptr, len, val)
    IN  /\ status = "runs" /\ stepping /\ stores < MaxStores
        /\ ptr + len - 1 \in Bytes
        /\ shadow' = [a \in Bytes |-> IF a \in ptr .. ptr + len - 1 THEN val[a - ptr] ELSE shadow[a]]
        /\ stores' = stores + 1
        /\ lines' = c.lines /\ usage' = c.usage
        /\ status' = IF c.full THEN "exit" ELSE status
        /\ stepping' = (c.usage < MaxFcnt)
        /\ UNCHANGED <<ram, stale>>

\* A load compares what it returns with the shadow.
Load(ptr, len) ==
    /\ status = "runs" /\ stepping
    /\ ptr + len - 1 \in Bytes
    /\ \E i \in 0 .. len - 1 : LoadMemInternal(lines, ptr, len)[i] # shadow[ptr + i]
    /\ status' = "exit"
    /\ UNCHANGED <<ram, shadow, lines, usage, stepping, stores, stale>>

\* The Step has run its instructions, or returns early.
EndStep ==
    /\ status = "runs" /\ stepping
    /\ stepping' = FALSE
    /\ UNCHANGED <<ram, shadow, lines, usage, status, stores, stale>>

\* FlushRunlet: every line goes back to its block and leaves the cache.
Flushed ==
    [a \in Bytes |-> LET hit == WaysOf(lines, BlockOf(a))
                     IN  IF hit = {} THEN ram[a]
                         ELSE lines[SetOf(BlockOf(a))][CHOOSE w \in hit : TRUE].data[a % BlockBytes]]

FlushRunlet ==
    IF usage >= MaxFcnt
    THEN /\ ram' = Flushed
         /\ lines' = [s \in 0 .. Sets - 1 |-> <<>>]
         /\ usage' = 0
    ELSE UNCHANGED <<ram, lines, usage>>

\* The main loop after a Step, and the next Step.
NextStep ==
    /\ status = "runs" /\ ~stepping
    /\ FlushRunlet
    /\ stepping' = TRUE
    /\ UNCHANGED <<shadow, status, stores, stale>>

\* The Step returned 0x7777, at a store to the SYSCON, so no flush is due: the
\* image again, in RAM and shadow.  The old guest's lines stay in the cache.
Restart ==
    /\ status = "runs" /\ ~stepping /\ usage < MaxFcnt
    /\ ram' = Image /\ shadow' = Image
    /\ stepping' = TRUE
    /\ stale' = {block \in 0 .. Blocks - 1 : WaysOf(lines, block) # {}}
    /\ UNCHANGED <<lines, usage, status, stores>>

Next ==
    \/ \E ptr \in Bytes, len \in Lengths : Store(ptr, len) \/ Load(ptr, len)
    \/ EndStep
    \/ NextStep
    \/ Restart

Spec == Init /\ [][Next]_vars
---------------------------------------------------------------------------
\* No access, load or store, ever meets a set whose ways are all taken by other
\* blocks ("This should never ever happen", gpucache.h:37 and :78-83): the store
\* that takes the last way ends the Step, even as one half of a split store.
NeverOverfull ==
    stepping => \A block \in 0 .. Blocks - 1 : ~Overfull(lines, block)

\* Every load returns what the shadow holds, in one word or straddling two, in
\* a line, in RAM or one part in each (the checks of LoadMemInternal never
\* fail): no split, merge, fill or flush loses a byte or changes another.  Of a
\* block that a restart found in the cache it is not so; nor of the end of
\* ram_image, where the hart's own state lies (cachetest.c:364), which every Step
\* changes behind cache and shadow: Bytes is the memory below, which the device
\* tree tells the guest of.
ReadsAreWrites ==
    \A ptr \in Bytes, len \in Lengths :
        LET span == ptr .. ptr + len - 1
        IN  /\ span \subseteq Bytes
            /\ \A a \in span : BlockOf(a) \notin stale
            => \A a \in span : LoadMemInternal(lines, ptr, len)[a - ptr] = shadow[a]

---------------------------------------------------------------------------
(* What makes them inductive: the lines of a set are of different blocks    *)
(* of that set, a set with no room has asked for the flush, and a byte is   *)
(* where the flush would take it from.                                      *)

Line == [block : 0 .. Blocks - 1, data : [0 .. BlockBytes - 1 -> Values]]

TypeOK ==
    /\ ram \in [Bytes -> Values] /\ shadow \in [Bytes -> Values]
    /\ lines \in [0 .. Sets - 1 -> Seq(Line)]
    /\ usage \in Nat /\ stores \in 0 .. MaxStores
    /\ stale \subseteq 0 .. Blocks - 1
    /\ stepping \in BOOLEAN /\ status \in {"runs", "exit"}

Placed(c) ==
    \A s \in 0 .. Sets - 1 : \A w \in DOMAIN c[s] :
        /\ SetOf(c[s][w].block) = s
        /\ \A v \in DOMAIN c[s] : c[s][v].block = c[s][w].block => v = w

HasRoom(c, used) == used < MaxFcnt => \A s \in 0 .. Sets - 1 : Len(c[s]) < Ways

IInv ==
    /\ TypeOK
    /\ Placed(lines) /\ HasRoom(lines, usage)
    /\ stepping => usage < MaxFcnt
    /\ \A a \in Bytes : BlockOf(a) \notin stale => Flushed[a] = shadow[a]
    /\ stale = {} => status = "runs"
===========================================================================
