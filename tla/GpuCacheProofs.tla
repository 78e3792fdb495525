--------------------------- MODULE GpuCacheProofs ---------------------------
(* For caches, blocks and memories of every size: no access meets a set    *)
(* that is taken by other blocks, a store never ends the program, and what *)
(* is read is what was written, in a line, in RAM, or one part in each.    *)
EXTENDS GpuCache, TLAPS

-----------------------------------------------------------------------------
(* Words and blocks.                                                       *)

\* What is assumed of the constants.
LEMMA Constants ==
  /\ WordBytes \in Nat /\ WordBytes > 0 /\ BlockWords \in Nat /\ BlockWords > 0
  /\ Blocks \in Nat /\ Sets \in Nat /\ Sets > 1 /\ Ways \in Nat /\ Ways > 0
  /\ MaxFcnt \in Nat /\ MaxFcnt > 0 /\ MaxStores \in Nat
  BY CacheAssumption

\* A product of naturals grows with its factor.
LEMMA Monotone ==
  ASSUME NEW w \in Nat, NEW a \in Int, NEW b \in Int, a <= b
  PROVE  w * a <= w * b /\ w * a \in Int /\ w * b \in Int /\ w * a = a * w
  OBVIOUS

\* The bytes of a block, and of the memory.
LEMMA BlockSize ==
  /\ BlockBytes \in Nat /\ BlockBytes >= WordBytes /\ BlockBytes > 0
  /\ Blocks * BlockBytes \in Nat /\ Bytes \subseteq Nat
<1>1. WordBytes * 1 <= WordBytes * BlockWords /\ WordBytes * BlockWords \in Int
  BY Constants, Monotone
<1>2. BlockBytes \in Nat /\ BlockBytes >= WordBytes /\ BlockBytes > 0
  BY <1>1, Constants DEF BlockBytes
<1>3. BlockBytes * 0 <= BlockBytes * Blocks /\ BlockBytes * Blocks \in Int
      /\ BlockBytes * Blocks = Blocks * BlockBytes
  BY <1>2, Constants, Monotone
<1> QED BY <1>2, <1>3 DEF Bytes

\* Division with rest, for a positive divisor.
LEMMA DivMod ==
  ASSUME NEW a \in Int, NEW w \in Nat, w > 0
  PROVE  /\ a \div w \in Int /\ a % w \in 0 .. w - 1
         /\ a = w * (a \div w) + (a % w)
  OBVIOUS

\* Quotient and rest are the only ones.
LEMMA DivModUnique ==
  ASSUME NEW w \in Nat, w > 0, NEW q \in Int, NEW r \in 0 .. w - 1
  PROVE  (w * q + r) \div w = q /\ (w * q + r) % w = r
  OBVIOUS

\* The block of a byte of the memory, and its place in it.
LEMMA BlockFacts ==
  ASSUME NEW a \in Int
  PROVE  /\ BlockOf(a) \in Int /\ a % BlockBytes \in 0 .. BlockBytes - 1
         /\ a = BlockBytes * BlockOf(a) + (a % BlockBytes)
         /\ a \in Bytes => BlockOf(a) \in 0 .. Blocks - 1
<1> DEFINE q == BlockOf(a)
           r == a % BlockBytes
           w == BlockBytes
<1>1. q \in Int /\ r \in 0 .. w - 1 /\ a = w * q + r /\ w \in Nat /\ w > 0
  BY DivMod, BlockSize DEF BlockOf
<1>2. a \in Bytes => 0 <= a /\ a < Blocks * w
  BY BlockSize DEF Bytes
<1> HIDE DEF q, r, w
<1>3. ASSUME a \in Bytes, q < 0 PROVE FALSE
  <2>1. w * q <= w * (-1)
    BY <1>1, <1>3, Monotone
  <2> QED BY <1>1, <1>2, <1>3, <2>1
<1>4. ASSUME a \in Bytes, q >= Blocks PROVE FALSE
  <2>1. w * Blocks <= w * q /\ w * Blocks = Blocks * w
    BY <1>1, <1>4, Constants, Monotone
  <2> QED BY <1>1, <1>2, <1>4, <2>1, Constants
<1>5. a \in Bytes => q \in 0 .. Blocks - 1
  BY <1>1, <1>3, <1>4, Constants
<1> QED BY <1>1, <1>5 DEF q, r, w

\* A byte of a block is a byte of the memory.
LEMMA ByteOfBlock ==
  ASSUME NEW b \in 0 .. Blocks - 1, NEW i \in 0 .. BlockBytes - 1
  PROVE  b * BlockBytes + i \in Bytes /\ b * BlockBytes + i = BlockBytes * b + i
<1>1. BlockBytes * (b + 1) <= BlockBytes * Blocks /\ BlockBytes * Blocks = Blocks * BlockBytes
      /\ BlockBytes * (b + 1) = BlockBytes * b + BlockBytes
  BY BlockSize, Constants, Monotone
<1>2. BlockBytes * 0 <= BlockBytes * b /\ BlockBytes * b = b * BlockBytes /\ BlockBytes * b \in Int
  BY BlockSize, Constants, Monotone
<1> QED BY <1>1, <1>2, BlockSize DEF Bytes

\* An aligned word lies in one block.
LEMMA WordInBlock ==
  ASSUME NEW word \in Int, word % WordBytes = 0
  PROVE  /\ (word % BlockBytes) + WordBytes <= BlockBytes
         /\ \A i \in 0 .. WordBytes - 1 :
              /\ BlockOf(word + i) = BlockOf(word)
              /\ (word + i) % BlockBytes = (word % BlockBytes) + i
<1> DEFINE k == word \div WordBytes
           q == BlockOf(word)
           r == word % BlockBytes
           m == k - BlockWords * q
<1>1. k \in Int /\ word = WordBytes * k
  BY DivMod, Constants
<1>2. q \in Int /\ r \in 0 .. BlockBytes - 1 /\ word = BlockBytes * q + r
  BY BlockFacts
<1> HIDE DEF k, q, r
<1>3. m \in Int /\ r = WordBytes * m
  <2>1. BlockBytes * q = WordBytes * (BlockWords * q)
    BY <1>2, Constants DEF BlockBytes
  <2> QED BY <1>1, <1>2, <2>1, Constants
<1> HIDE DEF m
<1>4. m < BlockWords
  <2>1. ASSUME m >= BlockWords PROVE FALSE
    <3>1. WordBytes * BlockWords <= WordBytes * m
      BY <1>3, <2>1, Constants, Monotone
    <3> QED BY <1>2, <1>3, <3>1, BlockSize DEF BlockBytes
  <2> QED BY <1>3, <2>1, Constants
<1>5. r + WordBytes <= BlockBytes
  <2>1. WordBytes * (m + 1) <= WordBytes * BlockWords /\ WordBytes * (m + 1) = WordBytes * m + WordBytes
    BY <1>3, <1>4, Constants, Monotone
  <2> QED BY <1>3, <2>1 DEF BlockBytes
<1>6. ASSUME NEW i \in 0 .. WordBytes - 1
      PROVE  BlockOf(word + i) = q /\ (word + i) % BlockBytes = r + i
  <2> DEFINE x == r + i
  <2>1. x \in 0 .. BlockBytes - 1 /\ word + i = BlockBytes * q + x
    BY <1>2, <1>5, BlockSize, Constants
  <2> HIDE DEF x
  <2>2. (BlockBytes * q + x) \div BlockBytes = q /\ (BlockBytes * q + x) % BlockBytes = x
    BY <1>2, <2>1, DivModUnique, BlockSize
  <2> QED BY <2>1, <2>2 DEF BlockOf, x
<1> QED BY <1>5, <1>6 DEF q, r

\* The words an access of at most a word at ptr is in.
LEMMA BaseFacts ==
  ASSUME NEW ptr \in Bytes
  PROVE  LET base == ptr - (ptr % WordBytes)
         IN  /\ base \in Bytes /\ base % WordBytes = 0 /\ base + WordBytes \in Int
             /\ (base + WordBytes) % WordBytes = 0
             /\ ptr % WordBytes \in 0 .. WordBytes - 1 /\ base <= ptr /\ ptr < base + WordBytes
<1> DEFINE k == ptr \div WordBytes
           r == ptr % WordBytes
           base == ptr - r
<1>1. k \in Int /\ r \in 0 .. WordBytes - 1 /\ ptr = WordBytes * k + r /\ ptr \in Nat
  BY DivMod, Constants, BlockSize
<1> HIDE DEF k, r
<1>2. base = WordBytes * k + 0 /\ base + WordBytes = WordBytes * (k + 1) + 0
  BY <1>1, Constants
<1>3. 0 \in 0 .. WordBytes - 1 /\ k + 1 \in Int
  BY <1>1, Constants
<1>4. base % WordBytes = 0 /\ (base + WordBytes) % WordBytes = 0
  BY <1>1, <1>2, <1>3, DivModUnique, Constants
<1>5. base >= 0
  <2>1. ASSUME k < 0 PROVE FALSE
    <3>1. WordBytes * k <= WordBytes * (-1)
      BY <1>1, <2>1, Constants, Monotone
    <3> QED BY <1>1, <3>1, Constants
  <2>2. WordBytes * 0 <= WordBytes * k
    BY <1>1, <2>1, Constants, Monotone
  <2> QED BY <1>1, <1>2, <2>2, Constants
<1>6. base \in Bytes /\ base + WordBytes \in Int
  BY <1>1, <1>5, BlockSize, Constants DEF Bytes
<1> QED BY <1>1, <1>4, <1>6, Constants DEF r

-----------------------------------------------------------------------------
(* The byte the cache c and the memory m hold at an address.               *)

Cached(m, c, a) ==
    LET hit == WaysOf(c, BlockOf(a))
    IN  IF hit = {} THEN m[a]
        ELSE c[SetOf(BlockOf(a))][CHOOSE w \in hit : TRUE].data[a % BlockBytes]

Caches == [0 .. Sets - 1 -> Seq(Line)]

\* Every block has a set.
LEMMA SetOfBlock ==
  ASSUME NEW b \in Int
  PROVE  SetOf(b) \in 0 .. Sets - 1
  BY DivMod, Constants DEF SetOf

\* The lines of a cache, those of a set, and the one of a block.
LEMMA CacheFacts ==
  ASSUME NEW c \in Caches, NEW b \in Int
  PROVE  /\ c[SetOf(b)] \in Seq(Line) /\ Len(c[SetOf(b)]) \in Nat
         /\ DOMAIN c[SetOf(b)] = 1 .. Len(c[SetOf(b)])
         /\ \A w \in DOMAIN c[SetOf(b)] : c[SetOf(b)][w] \in Line
         /\ WaysOf(c, b) = {w \in DOMAIN c[SetOf(b)] : c[SetOf(b)][w].block = b}
<1>1. c[SetOf(b)] \in Seq(Line)
  BY SetOfBlock DEF Caches
<1> QED BY <1>1 DEF WaysOf

\* The way that is chosen for a block is the one that holds it.
LEMMA OneWay ==
  ASSUME NEW c \in Caches, Placed(c), NEW b \in Int, NEW w \in WaysOf(c, b)
  PROVE  (CHOOSE v \in WaysOf(c, b) : TRUE) = w
<1>1. (CHOOSE v \in WaysOf(c, b) : TRUE) \in WaysOf(c, b)
  OBVIOUS
<1>2. \A v \in WaysOf(c, b) : v = w
  <2> SUFFICES ASSUME NEW v \in WaysOf(c, b) PROVE v = w
    OBVIOUS
  <2>1. /\ v \in DOMAIN c[SetOf(b)] /\ c[SetOf(b)][v].block = b
        /\ w \in DOMAIN c[SetOf(b)] /\ c[SetOf(b)][w].block = b
    BY CacheFacts
  <2> QED BY <2>1, SetOfBlock DEF Placed
<1> QED BY <1>1, <1>2

\* A word that is read is made of the bytes held at its addresses.
LEMMA LoadRBFacts ==
  ASSUME NEW c \in Caches, NEW word \in Bytes, word % WordBytes = 0,
         NEW i \in 0 .. WordBytes - 1
  PROVE  /\ LoadRB(c, word)[i] = Cached(ram, c, word + i)
         /\ word + i \in Bytes /\ BlockOf(word + i) = BlockOf(word)
<1> DEFINE b == BlockOf(word)
           r == word % BlockBytes
           hit == WaysOf(c, b)
<1>1. word \in Int /\ i \in Int
  BY BlockSize, Constants
<1>2. /\ b \in 0 .. Blocks - 1 /\ r \in 0 .. BlockBytes - 1 /\ word = BlockBytes * b + r
  BY <1>1, BlockFacts
<1>3. /\ BlockOf(word + i) = b /\ (word + i) % BlockBytes = r + i
      /\ r + WordBytes <= BlockBytes
  BY <1>1, WordInBlock
<1> HIDE DEF b, r, hit
<1>4. r + i \in 0 .. BlockBytes - 1
  BY <1>2, <1>3, BlockSize, Constants
<1>5. b * BlockBytes + (r + i) = word + i /\ word + i \in Bytes
  <2> DEFINE x == r + i
  <2>1. x \in 0 .. BlockBytes - 1 /\ word + i = BlockBytes * b + x
    BY <1>1, <1>2, <1>4, BlockSize
  <2> HIDE DEF x
  <2>2. b * BlockBytes + x \in Bytes /\ b * BlockBytes + x = BlockBytes * b + x
    BY <1>2, <2>1, ByteOfBlock
  <2> QED BY <2>1, <2>2 DEF x
<1>6. LoadRB(c, word)[i] =
        (IF hit = {} THEN MainSystemAccess(b) ELSE c[SetOf(b)][CHOOSE w \in hit : TRUE].data)[r + i]
  BY DEF LoadRB, b, r, hit
<1>7. MainSystemAccess(b)[r + i] = ram[word + i]
  BY <1>4, <1>5 DEF MainSystemAccess
<1>8. Cached(ram, c, word + i) =
        IF hit = {} THEN ram[word + i] ELSE c[SetOf(b)][CHOOSE w \in hit : TRUE].data[r + i]
  <2>1. WaysOf(c, BlockOf(word + i)) = hit
    BY <1>3 DEF hit
  <2>2. (CHOOSE w \in WaysOf(c, BlockOf(word + i)) : TRUE) = CHOOSE w \in hit : TRUE
    BY <2>1
  <2> QED BY <1>3, <2>1, <2>2 DEF Cached
<1> QED BY <1>3, <1>5, <1>6, <1>7, <1>8 DEF b

\* The flush writes back just what the cache holds.
LEMMA FlushedFacts ==
  \A a \in Bytes : Flushed[a] = Cached(ram, lines, a)
  BY DEF Flushed, Cached

-----------------------------------------------------------------------------
(* A word that is stored.                                                  *)

\* A line of block b is put at way k of its set, and it is the only one of b:
\* every other block is held as before.
LEMMA LinePut ==
  ASSUME NEW L \in Caches, Placed(L), NEW N \in Caches, NEW b \in Int,
         NEW k \in DOMAIN N[SetOf(b)], N[SetOf(b)][k].block = b,
         \A s \in 0 .. Sets - 1 : s # SetOf(b) => N[s] = L[s],
         DOMAIN N[SetOf(b)] = DOMAIN L[SetOf(b)] \cup {k},
         \A w \in DOMAIN L[SetOf(b)] :
            /\ w # k => N[SetOf(b)][w] = L[SetOf(b)][w]
            /\ w = k <=> L[SetOf(b)][w].block = b
  PROVE  /\ Placed(N) /\ k \in WaysOf(N, b)
         /\ \A a \in Bytes :
              Cached(ram, N, a) = IF BlockOf(a) = b THEN N[SetOf(b)][k].data[a % BlockBytes]
                                                    ELSE Cached(ram, L, a)
<1> DEFINE s == SetOf(b)
<1>1. s \in 0 .. Sets - 1
  BY SetOfBlock
<1> HIDE DEF s
<1>2. \A w \in DOMAIN N[s] : w # k => w \in DOMAIN L[s] /\ N[s][w] = L[s][w] /\ L[s][w].block # b
  BY DEF s
<1>3. k \in DOMAIN N[s] /\ N[s][k].block = b /\ SetOf(b) = s
  BY DEF s
<1>4. Placed(N)
  <2> SUFFICES ASSUME NEW t \in 0 .. Sets - 1, NEW w \in DOMAIN N[t]
               PROVE  /\ SetOf(N[t][w].block) = t
                      /\ \A v \in DOMAIN N[t] : N[t][v].block = N[t][w].block => v = w
    BY DEF Placed
  <2>1. CASE t # s
    <3>1. N[t] = L[t]
      BY <2>1 DEF s
    <3> QED BY <3>1 DEF Placed
  <2>2. CASE t = s
    <3>1. CASE w = k
      BY <1>2, <1>3, <2>2, <3>1
    <3>2. CASE w # k
      <4>1. w \in DOMAIN L[s] /\ N[s][w] = L[s][w] /\ N[s][w].block # b
        BY <1>2, <2>2, <3>2
      <4>2. /\ SetOf(L[s][w].block) = s
            /\ \A v \in DOMAIN L[s] : L[s][v].block = L[s][w].block => v = w
        BY <1>1, <4>1 DEF Placed
      <4> QED BY <1>2, <1>3, <2>2, <4>1, <4>2
    <3> QED BY <3>1, <3>2
  <2> QED BY <2>1, <2>2
<1>5. k \in WaysOf(N, b)
  BY <1>3 DEF WaysOf
<1>6. ASSUME NEW a \in Bytes, BlockOf(a) = b
      PROVE  Cached(ram, N, a) = N[s][k].data[a % BlockBytes]
  <2>1. (CHOOSE v \in WaysOf(N, b) : TRUE) = k
    BY <1>4, <1>5, OneWay
  <2> QED BY <1>3, <1>5, <1>6, <2>1 DEF Cached
<1>7. ASSUME NEW a \in Bytes, BlockOf(a) # b
      PROVE  Cached(ram, N, a) = Cached(ram, L, a)
  <2> DEFINE e == BlockOf(a)
             t == SetOf(e)
  <2>1. t \in 0 .. Sets - 1
    BY BlockFacts, BlockSize, SetOfBlock
  <2> HIDE DEF e, t
  <2>2. WaysOf(N, e) = WaysOf(L, e) /\ \A w \in WaysOf(L, e) : N[t][w] = L[t][w]
    <3>1. CASE t # s
      <4>1. N[t] = L[t]
        BY <2>1, <3>1 DEF s
      <4> QED BY <4>1 DEF WaysOf, t
    <3>2. CASE t = s
      <4>1. ASSUME NEW w \in WaysOf(N, e) PROVE w \in WaysOf(L, e) /\ N[t][w] = L[t][w]
        BY <1>2, <1>3, <1>7, <3>2 DEF WaysOf, t, e
      <4>2. ASSUME NEW w \in WaysOf(L, e) PROVE w \in WaysOf(N, e)
        <5>1. w \in DOMAIN L[s] /\ L[s][w].block = e
          BY <3>2 DEF WaysOf, t
        <5>2. w # k /\ N[s][w] = L[s][w] /\ w \in DOMAIN N[s]
          BY <1>7, <5>1 DEF s, e
        <5> QED BY <3>2, <5>1, <5>2 DEF WaysOf, t
      <4> QED BY <4>1, <4>2
    <3> QED BY <3>1, <3>2
  <2>3. (CHOOSE w \in WaysOf(N, e) : TRUE) = CHOOSE w \in WaysOf(L, e) : TRUE
    BY <2>2
  <2>4. WaysOf(L, e) # {} => (CHOOSE w \in WaysOf(L, e) : TRUE) \in WaysOf(L, e)
    OBVIOUS
  <2>5. WaysOf(L, e) # {} =>
          N[t][CHOOSE w \in WaysOf(N, e) : TRUE] = L[t][CHOOSE w \in WaysOf(L, e) : TRUE]
    BY <2>2, <2>3, <2>4
  <2> QED BY <2>2, <2>5 DEF Cached, e, t
<1> QED BY <1>4, <1>5, <1>6, <1>7 DEF s

\* A word put into the data of a line.
LEMMA WithWordFacts ==
  ASSUME NEW data \in [0 .. BlockBytes - 1 -> Values], NEW at \in 0 .. BlockBytes - 1,
         at + WordBytes <= BlockBytes, NEW val \in [0 .. WordBytes - 1 -> Values]
  PROVE  /\ WithWord(data, at, val) \in [0 .. BlockBytes - 1 -> Values]
         /\ \A i \in 0 .. BlockBytes - 1 :
              WithWord(data, at, val)[i] =
                IF i - at \in 0 .. WordBytes - 1 THEN val[i - at] ELSE data[i]
<1>1. ASSUME NEW i \in 0 .. BlockBytes - 1
      PROVE  i \in at .. at + WordBytes - 1 <=> i - at \in 0 .. WordBytes - 1
  BY BlockSize, Constants
<1>2. DOMAIN data = 0 .. BlockBytes - 1
  OBVIOUS
<1> QED BY <1>1, <1>2 DEF WithWord

\* An address in the block of an aligned word is in the word when its place is.
LEMMA PlaceInWord ==
  ASSUME NEW word \in Bytes, word % WordBytes = 0, NEW a \in Bytes
  PROVE  /\ BlockOf(a) = BlockOf(word) => a - word = (a % BlockBytes) - (word % BlockBytes)
         /\ a - word \in 0 .. WordBytes - 1 => BlockOf(a) = BlockOf(word)
<1>1. word \in Int /\ a \in Int
  BY BlockSize
<1>2. /\ a = BlockBytes * BlockOf(a) + (a % BlockBytes)
      /\ word = BlockBytes * BlockOf(word) + (word % BlockBytes)
      /\ BlockOf(a) \in Int /\ BlockOf(word) \in Int
      /\ a % BlockBytes \in Int /\ word % BlockBytes \in Int
  BY <1>1, BlockFacts
<1>3. BlockOf(a) = BlockOf(word) => a - word = (a % BlockBytes) - (word % BlockBytes)
  <2> DEFINE p == BlockBytes * BlockOf(word)
             x == a % BlockBytes
             y == word % BlockBytes
  <2>1. p \in Int /\ word = p + y /\ x \in Int /\ y \in Int
    BY <1>2, BlockSize
  <2>2. BlockOf(a) = BlockOf(word) => a = p + x
    BY <1>2
  <2> HIDE DEF p, x, y
  <2>3. BlockOf(a) = BlockOf(word) => a - word = x - y
    BY <2>1, <2>2
  <2> QED BY <2>3 DEF x, y
<1>4. ASSUME a - word \in 0 .. WordBytes - 1 PROVE BlockOf(a) = BlockOf(word)
  <2>1. BlockOf(word + (a - word)) = BlockOf(word)
    BY <1>1, <1>4, WordInBlock
  <2>2. word + (a - word) = a
    BY <1>1
  <2> QED BY <2>1, <2>2
<1> QED BY <1>3, <1>4

\* What the cache holds once the word val is stored at word, and what is left
\* as it was: the other sets, and the room of the sets.
StoredWord(L, d, word, val) ==
    /\ d.lines \in Caches /\ Placed(d.lines)
    /\ d.usage \in Nat /\ HasRoom(d.lines, d.usage)
    /\ WaysOf(d.lines, BlockOf(word)) # {}
    /\ \A t \in 0 .. Sets - 1 : t # SetOf(BlockOf(word)) => d.lines[t] = L[t]
    /\ \A a \in Bytes :
        Cached(ram, d.lines, a) =
            IF a - word \in 0 .. WordBytes - 1 THEN val[a - word] ELSE Cached(ram, L, a)

\* A line whose data have the word in it holds it, and no other block does.
LEMMA WordHeld ==
  ASSUME NEW word \in Bytes, word % WordBytes = 0, NEW a \in Bytes,
         NEW val \in [0 .. WordBytes - 1 -> Values],
         NEW data \in [0 .. BlockBytes - 1 -> Values]
  PROVE  /\ BlockOf(a) = BlockOf(word) =>
              WithWord(data, word % BlockBytes, val)[a % BlockBytes] =
                IF a - word \in 0 .. WordBytes - 1 THEN val[a - word] ELSE data[a % BlockBytes]
         /\ BlockOf(a) # BlockOf(word) => a - word \notin 0 .. WordBytes - 1
<1> DEFINE at == word % BlockBytes
           i == a % BlockBytes
<1>1. word \in Int /\ a \in Int
  BY BlockSize
<1>2. i \in 0 .. BlockBytes - 1 /\ at \in 0 .. BlockBytes - 1 /\ at + WordBytes <= BlockBytes
  BY <1>1, BlockFacts, WordInBlock
<1>3. /\ BlockOf(a) = BlockOf(word) => a - word = i - at
      /\ a - word \in 0 .. WordBytes - 1 => BlockOf(a) = BlockOf(word)
  BY PlaceInWord
<1> HIDE DEF at, i
<1>4. WithWord(data, at, val)[i] = IF i - at \in 0 .. WordBytes - 1 THEN val[i - at] ELSE data[i]
  <2>1. \A j \in 0 .. BlockBytes - 1 :
          WithWord(data, at, val)[j] = IF j - at \in 0 .. WordBytes - 1 THEN val[j - at] ELSE data[j]
    BY ONLY <1>2, WithWordFacts, data \in [0 .. BlockBytes - 1 -> Values],
            val \in [0 .. WordBytes - 1 -> Values]
  <2> QED BY <1>2, <2>1
<1> QED BY <1>3, <1>4 DEF at, i

\* StoreMemInternalRB, when the set has a line of the block or a way for it.
LEMMA StoreRBFacts ==
  ASSUME ram \in [Bytes -> Values], NEW L \in Caches, Placed(L), NEW u \in Nat, HasRoom(L, u),
         NEW word \in Bytes, word % WordBytes = 0, NEW val \in [0 .. WordBytes - 1 -> Values],
         ~Overfull(L, BlockOf(word))
  PROVE  LET d == StoreRB([lines |-> L, usage |-> u, full |-> FALSE], word, val)
         IN  /\ d = [lines |-> d.lines, usage |-> d.usage, full |-> FALSE]
             /\ StoredWord(L, d, word, val)
<1> DEFINE b == BlockOf(word)
           s == SetOf(b)
           at == word % BlockBytes
           hit == WaysOf(L, b)
           c == [lines |-> L, usage |-> u, full |-> FALSE]
           d == StoreRB(c, word, val)
           w == CHOOSE v \in hit : TRUE
           fresh == [block |-> b, data |-> WithWord(MainSystemAccess(b), at, val)]
           put == [block |-> b, data |-> WithWord(L[s][w].data, at, val)]
<1>1. /\ word \in Int /\ b \in 0 .. Blocks - 1 /\ at \in 0 .. BlockBytes - 1
      /\ at + WordBytes <= BlockBytes
  BY BlockSize, BlockFacts, WordInBlock
<1>2. /\ s \in 0 .. Sets - 1 /\ L[s] \in Seq(Line) /\ Len(L[s]) \in Nat
      /\ DOMAIN L[s] = 1 .. Len(L[s]) /\ \A v \in DOMAIN L[s] : L[s][v] \in Line
      /\ hit = {v \in DOMAIN L[s] : L[s][v].block = b}
  <2>1. b \in Int
    BY <1>1
  <2> QED BY <2>1, SetOfBlock, CacheFacts
<1>3. d = CASE hit # {} -> [c EXCEPT !.lines[s][w].data = WithWord(@, at, val)]
            [] Overfull(L, b) -> [c EXCEPT !.full = TRUE]
            [] OTHER -> [c EXCEPT !.lines[s] = Append(@, fresh), !.usage = UsageWith(Len(L[s]), @)]
  BY DEF StoreRB
<1>4. \A a \in Bytes : a % BlockBytes \in 0 .. BlockBytes - 1 /\ BlockOf(a) \in Int
  BY BlockSize, BlockFacts
<1>5. CASE hit # {}
  <2>1. w \in hit
    BY <1>5
  <2>2. w \in DOMAIN L[s] /\ L[s][w].block = b /\ L[s][w] \in Line
    BY <1>2, <2>1
  <2>3. L[s][w].data \in [0 .. BlockBytes - 1 -> Values]
    BY <2>2 DEF Line
  <2> DEFINE N == [L EXCEPT ![s] = [L[s] EXCEPT ![w] = put]]
  <2>4. put \in Line /\ put.block = b /\ put.data = WithWord(L[s][w].data, at, val)
    BY <1>1, <2>3, WithWordFacts DEF Line
  <2>5. put = [L[s][w] EXCEPT !.data = WithWord(@, at, val)]
    BY <2>2 DEF Line
  <2>6. d = [lines |-> N, usage |-> u, full |-> FALSE]
    <3>1. d = [c EXCEPT !.lines[s][w].data = WithWord(@, at, val)]
      BY <1>3, <1>5
    <3>2. d = [lines |-> [L EXCEPT ![s] = [L[s] EXCEPT ![w] =
                             [L[s][w] EXCEPT !.data = WithWord(L[s][w].data, at, val)]]],
               usage |-> u, full |-> FALSE]
      <4> HIDE DEF s, w, d, at
      <4> QED BY <1>2, <2>2, <3>1 DEF Caches
    <3> QED BY <2>5, <3>2
  <2> HIDE DEF put, w, d
  <2>7. /\ [L[s] EXCEPT ![w] = put] \in Seq(Line) /\ Len([L[s] EXCEPT ![w] = put]) = Len(L[s])
    BY <1>2, <2>2, <2>4
  <2>8. N \in Caches /\ N[s] = [L[s] EXCEPT ![w] = put] /\ \A t \in 0 .. Sets - 1 : t # s => N[t] = L[t]
    BY <1>2, <2>7 DEF Caches
  <2>9. /\ DOMAIN N[s] = DOMAIN L[s] \cup {w} /\ N[s][w] = put
        /\ \A v \in DOMAIN L[s] : v # w => N[s][v] = L[s][v]
    BY <2>2, <2>8
  <2>10. \A v \in DOMAIN L[s] : v = w <=> L[s][v].block = b
    BY <1>2, <2>2 DEF Placed
  <2> HIDE DEF N
  <2>11. /\ Placed(N) /\ w \in WaysOf(N, b)
         /\ \A a \in Bytes :
              Cached(ram, N, a) = IF BlockOf(a) = b THEN N[s][w].data[a % BlockBytes]
                                                    ELSE Cached(ram, L, a)
    BY <1>1, <2>4, <2>8, <2>9, <2>10, LinePut
  <2>12. \A a \in Bytes : BlockOf(a) = b => L[s][w].data[a % BlockBytes] = Cached(ram, L, a)
    <3> SUFFICES ASSUME NEW a \in Bytes, BlockOf(a) = b
                 PROVE  L[s][w].data[a % BlockBytes] = Cached(ram, L, a)
      OBVIOUS
    <3>1. (CHOOSE v \in WaysOf(L, BlockOf(a)) : TRUE) = w
      BY DEF w
    <3>2. Cached(ram, L, a) =
            IF WaysOf(L, BlockOf(a)) = {} THEN ram[a]
            ELSE L[SetOf(BlockOf(a))][CHOOSE v \in WaysOf(L, BlockOf(a)) : TRUE].data[a % BlockBytes]
      BY DEF Cached
    <3> QED BY <1>5, <3>1, <3>2
  <2>13. \A a \in Bytes :
            Cached(ram, N, a) =
              IF a - word \in 0 .. WordBytes - 1 THEN val[a - word] ELSE Cached(ram, L, a)
    <3> DEFINE data == L[s][w].data
    <3>1. \A a \in Bytes :
            Cached(ram, N, a) = IF BlockOf(a) = BlockOf(word)
                                THEN WithWord(data, word % BlockBytes, val)[a % BlockBytes]
                                ELSE Cached(ram, L, a)
      BY <2>4, <2>9, <2>11
    <3>2. data \in [0 .. BlockBytes - 1 -> Values]
      BY <2>3
    <3>3. \A a \in Bytes : BlockOf(a) = BlockOf(word) => data[a % BlockBytes] = Cached(ram, L, a)
      BY <2>12
    <3> HIDE DEF data
    <3> SUFFICES ASSUME NEW a \in Bytes
                 PROVE  Cached(ram, N, a) =
                          IF a - word \in 0 .. WordBytes - 1 THEN val[a - word] ELSE Cached(ram, L, a)
      OBVIOUS
    <3>4. /\ BlockOf(a) = BlockOf(word) =>
               WithWord(data, word % BlockBytes, val)[a % BlockBytes] =
                 IF a - word \in 0 .. WordBytes - 1 THEN val[a - word] ELSE data[a % BlockBytes]
          /\ BlockOf(a) # BlockOf(word) => a - word \notin 0 .. WordBytes - 1
      BY <3>2, WordHeld
    <3> QED BY <3>1, <3>3, <3>4
  <2>14. HasRoom(N, u)
    <3>1. \A t \in 0 .. Sets - 1 : Len(N[t]) = Len(L[t])
      BY <2>7, <2>8
    <3> QED BY <3>1 DEF HasRoom
  <2>15. d.lines = N /\ d.usage = u /\ d = [lines |-> d.lines, usage |-> d.usage, full |-> FALSE]
    BY <2>6
  <2>16. StoredWord(L, d, word, val)
    BY <2>8, <2>11, <2>13, <2>14, <2>15 DEF StoredWord
  <2> QED BY <2>15, <2>16 DEF d
<1>6. CASE hit = {}
  <2>1. Len(L[s]) # Ways
    BY <1>6 DEF Overfull
  <2> DEFINE N == [L EXCEPT ![s] = Append(L[s], fresh)]
             k == Len(L[s]) + 1
             v == UsageWith(Len(L[s]), u)
  <2>2. d = [lines |-> N, usage |-> v, full |-> FALSE]
    <3>1. ~Overfull(L, b)
      OBVIOUS
    <3>2. d = [c EXCEPT !.lines[s] = Append(@, fresh), !.usage = UsageWith(Len(L[s]), @)]
      BY <1>3, <1>6, <3>1
    <3> QED BY <3>2
  <2>3. MainSystemAccess(b) \in [0 .. BlockBytes - 1 -> Values]
    <3>1. \A i \in 0 .. BlockBytes - 1 : b * BlockBytes + i \in Bytes
      BY <1>1, ByteOfBlock
    <3> QED BY <3>1 DEF MainSystemAccess
  <2>4. fresh \in Line /\ fresh.block = b /\ fresh.data = WithWord(MainSystemAccess(b), at, val)
    BY <1>1, <2>3, WithWordFacts DEF Line
  <2> HIDE DEF fresh, d
  <2>5. /\ Append(L[s], fresh) \in Seq(Line) /\ DOMAIN Append(L[s], fresh) = DOMAIN L[s] \cup {k}
        /\ Len(Append(L[s], fresh)) = k /\ Append(L[s], fresh)[k] = fresh
        /\ k \notin DOMAIN L[s]
        /\ \A x \in DOMAIN L[s] : Append(L[s], fresh)[x] = L[s][x]
    BY <1>2, <2>4
  <2>6. /\ N \in Caches /\ N[s] = Append(L[s], fresh)
        /\ \A t \in 0 .. Sets - 1 : t # s => N[t] = L[t]
    BY <1>2, <2>5 DEF Caches
  <2>7. \A x \in DOMAIN L[s] : x # k /\ L[s][x].block # b
    BY <1>2, <1>6, <2>5
  <2> HIDE DEF N
  <2>8. /\ Placed(N) /\ k \in WaysOf(N, b)
        /\ \A a \in Bytes :
              Cached(ram, N, a) = IF BlockOf(a) = b THEN N[s][k].data[a % BlockBytes]
                                                    ELSE Cached(ram, L, a)
    <3>1. \A x \in DOMAIN L[s] : /\ x # k => N[s][x] = L[s][x]
                                 /\ x = k <=> L[s][x].block = b
      BY <2>5, <2>6, <2>7
    <3>2. k \in DOMAIN N[s] /\ N[s][k].block = b /\ DOMAIN N[s] = DOMAIN L[s] \cup {k} /\ b \in Int
      BY <1>1, <2>4, <2>5, <2>6
    <3> HIDE DEF k
    <3> QED BY <2>6, <3>1, <3>2, LinePut
  <2>9. \A a \in Bytes : BlockOf(a) = b => MainSystemAccess(b)[a % BlockBytes] = Cached(ram, L, a)
    <3> SUFFICES ASSUME NEW a \in Bytes, BlockOf(a) = b
                 PROVE  MainSystemAccess(b)[a % BlockBytes] = Cached(ram, L, a)
      OBVIOUS
    <3>1. Cached(ram, L, a) = ram[a]
      BY <1>6 DEF Cached
    <3>2. a \in Int /\ a % BlockBytes \in 0 .. BlockBytes - 1 /\ a = BlockBytes * b + (a % BlockBytes)
      BY BlockSize, BlockFacts
    <3>3. b * BlockBytes + (a % BlockBytes) = a
      BY <1>1, <3>2, ByteOfBlock
    <3> QED BY <3>1, <3>2, <3>3 DEF MainSystemAccess
  <2>10. \A a \in Bytes :
            Cached(ram, N, a) =
              IF a - word \in 0 .. WordBytes - 1 THEN val[a - word] ELSE Cached(ram, L, a)
    <3> DEFINE data == MainSystemAccess(b)
    <3>1. \A a \in Bytes :
            Cached(ram, N, a) = IF BlockOf(a) = BlockOf(word)
                                THEN WithWord(data, word % BlockBytes, val)[a % BlockBytes]
                                ELSE Cached(ram, L, a)
      BY <2>4, <2>5, <2>6, <2>8
    <3>2. \A a \in Bytes : BlockOf(a) = BlockOf(word) => data[a % BlockBytes] = Cached(ram, L, a)
      BY <2>9
    <3>3. data \in [0 .. BlockBytes - 1 -> Values]
      BY <2>3
    <3> HIDE DEF data
    <3> SUFFICES ASSUME NEW a \in Bytes
                 PROVE  Cached(ram, N, a) =
                          IF a - word \in 0 .. WordBytes - 1 THEN val[a - word] ELSE Cached(ram, L, a)
      OBVIOUS
    <3>4. /\ BlockOf(a) = BlockOf(word) =>
               WithWord(data, word % BlockBytes, val)[a % BlockBytes] =
                 IF a - word \in 0 .. WordBytes - 1 THEN val[a - word] ELSE data[a % BlockBytes]
          /\ BlockOf(a) # BlockOf(word) => a - word \notin 0 .. WordBytes - 1
      BY <3>3, WordHeld
    <3> QED BY <3>1, <3>2, <3>4
  <2>11. v \in Nat /\ HasRoom(N, v)
    <3>1. v \in Nat /\ (v < MaxFcnt => u < MaxFcnt /\ Len(L[s]) # Ways - 1)
      BY Constants DEF UsageWith
    <3>2. ASSUME v < MaxFcnt, NEW t \in 0 .. Sets - 1 PROVE Len(N[t]) < Ways
      <4>1. Len(L[t]) < Ways /\ Len(L[s]) < Ways
        BY <1>2, <3>1, <3>2 DEF HasRoom
      <4>2. CASE t = s
        BY <1>2, <2>5, <2>6, <3>1, <3>2, <4>1, <4>2, Constants
      <4>3. CASE t # s
        BY <2>6, <4>1, <4>3
      <4> QED BY <4>2, <4>3
    <3> QED BY <3>1, <3>2 DEF HasRoom
  <2>12. d.lines = N /\ d.usage = v /\ d = [lines |-> d.lines, usage |-> d.usage, full |-> FALSE]
    BY <2>2
  <2>13. StoredWord(L, d, word, val)
    BY <2>6, <2>8, <2>10, <2>11, <2>12 DEF StoredWord
  <2> QED BY <2>12, <2>13 DEF d
<1> QED BY <1>5, <1>6

-----------------------------------------------------------------------------
(* An access of one or two words.                                          *)

\* The second word of an access is in the block of the first, or in the next
\* block, which has another set.
LEMMA NextWordBlock ==
  ASSUME NEW word \in Int, word % WordBytes = 0
  PROVE  \/ BlockOf(word + WordBytes) = BlockOf(word)
         \/ SetOf(BlockOf(word + WordBytes)) # SetOf(BlockOf(word))
<1> DEFINE q == BlockOf(word)
           r == word % BlockBytes
<1>1. q \in Int /\ r \in 0 .. BlockBytes - 1 /\ word = BlockBytes * q + r
  BY BlockFacts
<1>2. r + WordBytes <= BlockBytes
  BY WordInBlock
<1> HIDE DEF q, r
<1>3. CASE r + WordBytes < BlockBytes
  <2> DEFINE x == r + WordBytes
  <2>1. x \in 0 .. BlockBytes - 1 /\ word + WordBytes = BlockBytes * q + x
    BY <1>1, <1>3, BlockSize, Constants
  <2> HIDE DEF x
  <2>2. (BlockBytes * q + x) \div BlockBytes = q
    BY <1>1, <2>1, DivModUnique, BlockSize
  <2> QED BY <2>1, <2>2 DEF BlockOf, q
<1>4. CASE r + WordBytes = BlockBytes
  <2> DEFINE e == q + 1
  <2>1. e \in Int /\ word + WordBytes = BlockBytes * e + 0 /\ 0 \in 0 .. BlockBytes - 1
    BY <1>1, <1>4, BlockSize, Constants
  <2> HIDE DEF e
  <2>2. (BlockBytes * e + 0) \div BlockBytes = e
    BY <2>1, DivModUnique, BlockSize
  <2>3. BlockOf(word + WordBytes) = e
    BY <2>1, <2>2 DEF BlockOf
  <2> DEFINE i == q \div Sets
             j == e \div Sets
  <2>4. /\ i \in Int /\ q = Sets * i + SetOf(q)
        /\ j \in Int /\ e = Sets * j + SetOf(e)
    BY <1>1, <2>1, DivMod, Constants DEF SetOf
  <2> HIDE DEF i, j
  <2>5. ASSUME SetOf(e) = SetOf(q) PROVE FALSE
    <3>1. Sets * j - Sets * i = 1
      <4>1. SetOf(q) \in Int /\ Sets * i \in Int /\ Sets * j \in Int /\ e = q + 1
        BY <1>1, <2>4, SetOfBlock, Constants DEF e
      <4> QED BY <1>1, <2>4, <2>5, <4>1
    <3>2. CASE j <= i
      <4>1. Sets * j <= Sets * i /\ Sets * i \in Int /\ Sets * j \in Int
        BY <2>4, <3>2, Monotone, Constants
      <4> QED BY <3>1, <4>1
    <3>3. CASE j >= i + 1
      <4>1. Sets * (i + 1) <= Sets * j /\ Sets * (i + 1) = Sets * i + Sets
            /\ Sets * i \in Int /\ Sets * j \in Int
        BY <2>4, <3>3, Monotone, Constants
      <4> QED BY <3>1, <4>1, Constants
    <3> QED BY <2>4, <3>2, <3>3
  <2> QED BY <2>3, <2>5 DEF q
<1> QED BY <1>1, <1>2, <1>3, <1>4, BlockSize, Constants

\* What the addresses of an access are.
LEMMA SpanFacts ==
  ASSUME NEW ptr \in Bytes, NEW len \in Lengths, ptr + len - 1 \in Bytes
  PROVE  /\ ptr \in Nat /\ len \in Nat /\ len > 0 /\ len <= WordBytes
         /\ ptr .. ptr + len - 1 \subseteq Bytes
  BY BlockSize, Constants DEF Lengths, Bytes

\* Every byte that is held is a byte.
LEMMA CachedType ==
  ASSUME NEW c \in Caches, ram \in [Bytes -> Values], NEW a \in Bytes
  PROVE  Cached(ram, c, a) \in Values
<1> DEFINE b == BlockOf(a)
           hit == WaysOf(c, b)
           w == CHOOSE v \in hit : TRUE
<1>1. a \in Int /\ b \in Int /\ a % BlockBytes \in 0 .. BlockBytes - 1
  BY BlockSize, BlockFacts
<1>2. Cached(ram, c, a) = IF hit = {} THEN ram[a] ELSE c[SetOf(b)][w].data[a % BlockBytes]
  BY DEF Cached
<1>3. CASE hit # {}
  <2>1. w \in hit
    BY <1>3
  <2> HIDE DEF w, b
  <2>2. c[SetOf(b)][w] \in Line
    BY <1>1, <2>1, CacheFacts
  <2>3. c[SetOf(b)][w].data \in [0 .. BlockBytes - 1 -> Values]
    BY <2>2 DEF Line
  <2> QED BY <1>1, <1>2, <1>3, <2>3
<1> QED BY <1>2, <1>3

\* A load answers the bytes held at its addresses, in one word or two.
LEMMA LoadFacts ==
  ASSUME NEW c \in Caches, NEW ptr \in Bytes, NEW len \in Lengths, ptr + len - 1 \in Bytes,
         NEW i \in 0 .. len - 1
  PROVE  LoadMemInternal(c, ptr, len)[i] = Cached(ram, c, ptr + i)
<1> DEFINE remo == ptr % WordBytes
           base == ptr - remo
           next == base + WordBytes
<1>1. /\ base \in Bytes /\ base % WordBytes = 0 /\ next % WordBytes = 0
      /\ remo \in 0 .. WordBytes - 1 /\ base \in Int
  BY BaseFacts, BlockSize
<1>2. /\ ptr \in Nat /\ len \in Nat /\ len > 0 /\ len <= WordBytes /\ ptr + i \in Bytes
      /\ base + remo = ptr
  <2>1. /\ ptr \in Nat /\ len \in Nat /\ len > 0 /\ len <= WordBytes
        /\ ptr .. ptr + len - 1 \subseteq Bytes
    BY SpanFacts
  <2>2. ptr + i \in ptr .. ptr + len - 1
    BY <2>1
  <2>3. base + remo = ptr
    BY <1>1, <2>1, Constants
  <2> QED BY <2>1, <2>2, <2>3
<1>3. LoadMemInternal(c, ptr, len)[i] =
        IF remo + i < WordBytes THEN LoadRB(c, base)[remo + i]
        ELSE (IF len > WordBytes - remo THEN LoadRB(c, next) ELSE LoadRB(c, base))[remo + i - WordBytes]
  BY DEF LoadMemInternal
<1> HIDE DEF remo, base, next
<1>4. CASE remo + i < WordBytes
  <2>1. remo + i \in 0 .. WordBytes - 1 /\ base + (remo + i) = ptr + i
    BY <1>1, <1>2, <1>4, Constants
  <2>2. LoadRB(c, base)[remo + i] = Cached(ram, c, base + (remo + i))
    BY <1>1, <2>1, LoadRBFacts
  <2> QED BY <1>3, <1>4, <2>1, <2>2
<1>5. CASE ~(remo + i < WordBytes)
  <2> DEFINE x == remo + i - WordBytes
  <2>1. /\ x \in 0 .. WordBytes - 1 /\ next + x = ptr + i /\ len > WordBytes - remo
        /\ next \in Nat /\ next <= ptr + i
    BY <1>1, <1>2, <1>5, Constants, BlockSize DEF next
  <2>2. next \in Bytes
    BY <1>2, <2>1, BlockSize DEF Bytes
  <2> HIDE DEF x
  <2>3. LoadRB(c, next)[x] = Cached(ram, c, next + x)
    BY <1>1, <2>1, <2>2, LoadRBFacts
  <2> QED BY <1>3, <1>5, <2>1, <2>3 DEF x
<1> QED BY <1>4, <1>5

\* The addresses of an access.
InSpan(a, ptr, len) == a \in ptr .. ptr + len - 1

\* A word of a store has the bytes of the store, and else those held before.
LEMMA MergedFacts ==
  ASSUME lines \in Caches, ram \in [Bytes -> Values],
         NEW word \in Bytes, word % WordBytes = 0,
         NEW ptr \in Bytes, NEW len \in Lengths, NEW val \in [0 .. len - 1 -> Values]
  PROVE  /\ Merged(word, ptr, len, val) \in [0 .. WordBytes - 1 -> Values]
         /\ \A i \in 0 .. WordBytes - 1 :
              Merged(word, ptr, len, val)[i] =
                IF InSpan(word + i, ptr, len) THEN val[word + i - ptr]
                ELSE Cached(ram, lines, word + i)
<1>1. ptr \in Int /\ len \in Int /\ word \in Int
  BY BlockSize DEF Lengths
<1>2. ASSUME NEW i \in 0 .. WordBytes - 1
      PROVE  LoadRB(lines, word)[i] = Cached(ram, lines, word + i)
             /\ Cached(ram, lines, word + i) \in Values
  <2>1. LoadRB(lines, word)[i] = Cached(ram, lines, word + i) /\ word + i \in Bytes
    BY LoadRBFacts
  <2> QED BY <2>1, CachedType
<1>3. ASSUME NEW i \in 0 .. WordBytes - 1, word + i \in ptr .. ptr + len - 1
      PROVE  val[word + i - ptr] \in Values
  <2>1. word + i - ptr \in 0 .. len - 1
    BY <1>1, <1>3
  <2> QED BY <2>1
<1> QED BY <1>2, <1>3 DEF Merged, InSpan

\* StoreMemInternal, when the cache has room: it finds a way for each of its
\* words, the second of which is in another set if it is in another block, and
\* changes the bytes of the store and no other.
LEMMA StoreMemFacts ==
  ASSUME lines \in Caches, Placed(lines), usage \in Nat, HasRoom(lines, usage),
         usage < MaxFcnt, ram \in [Bytes -> Values],
         NEW ptr \in Bytes, NEW len \in Lengths, ptr + len - 1 \in Bytes,
         NEW val \in [0 .. len - 1 -> Values]
  PROVE  LET c == StoreMemInternal(ptr, len, val)
         IN  /\ c.full = FALSE /\ c.lines \in Caches /\ Placed(c.lines)
             /\ c.usage \in Nat /\ HasRoom(c.lines, c.usage)
             /\ \A a \in Bytes :
                  Cached(ram, c.lines, a) =
                    IF InSpan(a, ptr, len) THEN val[a - ptr] ELSE Cached(ram, lines, a)
<1> DEFINE remo == ptr % WordBytes
           base == ptr - remo
           next == base + WordBytes
           low == Merged(base, ptr, len, val)
           high == Merged(next, ptr, len, val)
           first == StoreRB([lines |-> lines, usage |-> usage, full |-> FALSE], base, low)
           second == StoreRB(first, next, high)
           c == StoreMemInternal(ptr, len, val)
           span == ptr .. ptr + len - 1
<1>1. /\ base \in Bytes /\ base % WordBytes = 0 /\ next % WordBytes = 0
      /\ remo \in 0 .. WordBytes - 1 /\ base \in Int /\ next \in Int
  BY BaseFacts, BlockSize
<1>2. /\ ptr \in Nat /\ len \in Nat /\ len > 0 /\ len <= WordBytes /\ base + remo = ptr
      /\ span \subseteq Bytes
  <2>1. /\ ptr \in Nat /\ len \in Nat /\ len > 0 /\ len <= WordBytes /\ span \subseteq Bytes
    BY SpanFacts
  <2> QED BY <1>1, <2>1, Constants
<1>3. c = IF remo + len > WordBytes THEN second ELSE first
  BY DEF StoreMemInternal, Straddles
<1>4. \A b \in Int : Len(lines[SetOf(b)]) < Ways
  BY SetOfBlock DEF HasRoom
<1>5. ~Overfull(lines, BlockOf(base)) /\ BlockOf(base) \in Int /\ BlockOf(next) \in Int
  <2>1. BlockOf(base) \in Int /\ BlockOf(next) \in Int
    BY <1>1, BlockFacts
  <2>2. Len(lines[SetOf(BlockOf(base))]) \in Nat
    BY <2>1, CacheFacts
  <2>3. Len(lines[SetOf(BlockOf(base))]) # Ways
    BY <1>4, <2>1, <2>2, Constants
  <2> QED BY <2>1, <2>3 DEF Overfull
<1> HIDE DEF remo, base, next
<1>6. /\ low \in [0 .. WordBytes - 1 -> Values]
      /\ \A i \in 0 .. WordBytes - 1 :
           low[i] = IF InSpan(base + i, ptr, len) THEN val[base + i - ptr] ELSE Cached(ram, lines, base + i)
  <2>1. lines \in Caches /\ ram \in [Bytes -> Values] /\ base \in Bytes /\ base % WordBytes = 0
        /\ ptr \in Bytes /\ len \in Lengths /\ val \in [0 .. len - 1 -> Values]
    BY <1>1
  <2> QED BY ONLY <2>1, MergedFacts
<1> HIDE DEF low
<1>7. /\ first = [lines |-> first.lines, usage |-> first.usage, full |-> FALSE]
      /\ StoredWord(lines, first, base, low)
  BY <1>1, <1>5, <1>6, StoreRBFacts
<1> HIDE DEF first
<1>8. ASSUME NEW a \in Bytes
      PROVE  Cached(ram, first.lines, a) =
               IF a - base \in 0 .. WordBytes - 1 /\ InSpan(a, ptr, len) THEN val[a - ptr]
               ELSE Cached(ram, lines, a)
  <2>1. a \in Int /\ base + (a - base) = a
    BY <1>1, BlockSize
  <2>2. Cached(ram, first.lines, a) =
          IF a - base \in 0 .. WordBytes - 1 THEN low[a - base] ELSE Cached(ram, lines, a)
    BY <1>7 DEF StoredWord
  <2>3. ASSUME a - base \in 0 .. WordBytes - 1
        PROVE  low[a - base] = IF InSpan(a, ptr, len) THEN val[a - ptr] ELSE Cached(ram, lines, a)
    <3> DEFINE i == a - base
    <3>1. i \in 0 .. WordBytes - 1 /\ base + i = a /\ a - base = i
      BY <2>1, <2>3
    <3> HIDE DEF i
    <3>2. low[i] = IF InSpan(base + i, ptr, len) THEN val[base + i - ptr] ELSE Cached(ram, lines, base + i)
      BY <1>6, <3>1
    <3> QED BY <1>1, <2>1, <3>1, <3>2, BlockSize
  <2> QED BY <2>2, <2>3
<1>9. CASE ~(remo + len > WordBytes)
  <2>1. \A a \in Bytes : InSpan(a, ptr, len) => a - base \in 0 .. WordBytes - 1
    BY <1>1, <1>2, <1>9, Constants, BlockSize DEF InSpan
  <2>2. c = first
    BY <1>3, <1>9
  <2> HIDE DEF c
  <2> QED BY <1>7, <1>8, <2>1, <2>2 DEF StoredWord, c
<1>10. CASE remo + len > WordBytes
  <2>1. next = base + WordBytes /\ next \in Nat /\ next <= ptr + len - 1
    BY <1>1, <1>2, <1>10, Constants, BlockSize DEF next
  <2>2. next \in Bytes
    BY <2>1, <1>2, BlockSize DEF Bytes
  <2>3. /\ high \in [0 .. WordBytes - 1 -> Values]
        /\ \A i \in 0 .. WordBytes - 1 :
             high[i] = IF InSpan(next + i, ptr, len) THEN val[next + i - ptr] ELSE Cached(ram, lines, next + i)
    <3>1. lines \in Caches /\ ram \in [Bytes -> Values] /\ next \in Bytes /\ next % WordBytes = 0
          /\ ptr \in Bytes /\ len \in Lengths /\ val \in [0 .. len - 1 -> Values]
      BY <1>1, <2>2
    <3> QED BY ONLY <3>1, MergedFacts
  <2> HIDE DEF high
  <2>4. ~Overfull(first.lines, BlockOf(next))
    <3>1. CASE BlockOf(next) = BlockOf(base)
      BY <1>7, <3>1 DEF StoredWord, Overfull
    <3>2. CASE SetOf(BlockOf(next)) # SetOf(BlockOf(base))
      <4>1. first.lines[SetOf(BlockOf(next))] = lines[SetOf(BlockOf(next))]
        BY <1>5, <1>7, <3>2, SetOfBlock DEF StoredWord
      <4>2. Len(lines[SetOf(BlockOf(next))]) < Ways /\ Len(lines[SetOf(BlockOf(next))]) \in Nat
        BY <1>4, <1>5, CacheFacts
      <4> QED BY <4>1, <4>2, Constants DEF Overfull
    <3> QED BY <1>1, <2>1, <3>1, <3>2, NextWordBlock
  <2>5. /\ second = [lines |-> second.lines, usage |-> second.usage, full |-> FALSE]
        /\ StoredWord(first.lines, second, next, high)
    <3> DEFINE L == first.lines
               u == first.usage
    <3>1. L \in Caches /\ Placed(L) /\ u \in Nat /\ HasRoom(L, u)
      BY <1>7 DEF StoredWord
    <3>2. first = [lines |-> L, usage |-> u, full |-> FALSE]
      BY <1>7
    <3>3. ~Overfull(L, BlockOf(next))
      BY <2>4
    <3> HIDE DEF L, u
    <3>4. LET d == StoreRB([lines |-> L, usage |-> u, full |-> FALSE], next, high)
          IN  /\ d = [lines |-> d.lines, usage |-> d.usage, full |-> FALSE]
              /\ StoredWord(L, d, next, high)
      BY <1>1, <2>2, <2>3, <3>1, <3>3, StoreRBFacts
    <3> QED BY <3>2, <3>4 DEF L
  <2> HIDE DEF second
  <2>6. ASSUME NEW a \in Bytes
        PROVE  Cached(ram, second.lines, a) =
                 IF InSpan(a, ptr, len) THEN val[a - ptr] ELSE Cached(ram, lines, a)
    <3>1. a \in Int /\ next + (a - next) = a
      BY <2>1, BlockSize
    <3>2. Cached(ram, second.lines, a) =
            IF a - next \in 0 .. WordBytes - 1 THEN high[a - next] ELSE Cached(ram, first.lines, a)
      BY <2>5 DEF StoredWord
    <3>3. ASSUME a - next \in 0 .. WordBytes - 1
          PROVE  high[a - next] = IF InSpan(a, ptr, len) THEN val[a - ptr] ELSE Cached(ram, lines, a)
      <4> DEFINE i == a - next
      <4>1. i \in 0 .. WordBytes - 1 /\ next + i = a /\ a - next = i
        BY <3>1, <3>3
      <4> HIDE DEF i
      <4>2. high[i] = IF InSpan(next + i, ptr, len) THEN val[next + i - ptr] ELSE Cached(ram, lines, next + i)
        BY <2>3, <4>1
      <4> QED BY <1>1, <3>1, <4>1, <4>2, BlockSize
    <3>4. InSpan(a, ptr, len) => a - base \in 0 .. WordBytes - 1 \/ a - next \in 0 .. WordBytes - 1
      BY <1>1, <1>2, <2>1, <3>1, Constants DEF InSpan
    <3> QED BY <1>8, <3>2, <3>3, <3>4
  <2>7. c = second
    BY <1>3, <1>10
  <2> HIDE DEF c
  <2> QED BY <2>5, <2>6, <2>7 DEF StoredWord, c
<1> QED BY <1>9, <1>10

-----------------------------------------------------------------------------
(* The inductive invariant.                                                 *)

\* The lines of a cache without lines.
Empty == [s \in 0 .. Sets - 1 |-> <<>>]

\* It holds no byte, and has room.
LEMMA EmptyFacts ==
  /\ Empty \in Caches /\ Placed(Empty) /\ HasRoom(Empty, 0)
  /\ \A m, a : a \in Bytes => Cached(m, Empty, a) = m[a]
<1>1. Empty \in Caches
  BY DEF Empty, Caches
<1>2. \A s \in 0 .. Sets - 1 : DOMAIN Empty[s] = {} /\ Len(Empty[s]) = 0
  BY DEF Empty
<1>3. Placed(Empty) /\ HasRoom(Empty, 0)
  BY <1>2, Constants DEF Placed, HasRoom
<1>4. ASSUME NEW a \in Bytes PROVE WaysOf(Empty, BlockOf(a)) = {}
  <2>1. SetOf(BlockOf(a)) \in 0 .. Sets - 1
    BY BlockSize, BlockFacts, SetOfBlock
  <2> QED BY <1>2, <2>1 DEF WaysOf
<1> QED BY <1>1, <1>3, <1>4 DEF Cached

\* The program starts with an empty cache and its shadow equal to the RAM.
LEMMA InitIInv == Init => IInv
<1> SUFFICES ASSUME Init PROVE IInv
  OBVIOUS
<1>1. lines = Empty /\ ram = Image /\ shadow = Image
  BY DEF Init, Empty
<1>2. TypeOK
  BY <1>1, EmptyFacts, ImageAssumption, Constants DEF Init, TypeOK, Caches
<1>3. Placed(lines) /\ HasRoom(lines, usage)
  BY <1>1, EmptyFacts DEF Init
<1>4. \A a \in Bytes : Flushed[a] = shadow[a]
  BY <1>1, EmptyFacts, FlushedFacts
<1> QED BY <1>2, <1>3, <1>4, Constants DEF Init, IInv

\* The bytes of a store are told from all others by a value of their own.
LEMMA StoredValues ==
  ASSUME stores \in 0 .. MaxStores, stores < MaxStores, NEW len \in Lengths,
         NEW i \in 0 .. len - 1
  PROVE  stores * WordBytes + i + 1 \in Values
<1>1. len \in Nat /\ len <= WordBytes
  BY Constants DEF Lengths
<1>2. /\ WordBytes * (stores + 1) <= WordBytes * MaxStores
      /\ WordBytes * (stores + 1) = WordBytes * stores + WordBytes
      /\ WordBytes * MaxStores = MaxStores * WordBytes /\ WordBytes * MaxStores \in Int
  BY Constants, Monotone
<1>3. /\ WordBytes * 0 <= WordBytes * stores /\ WordBytes * stores = stores * WordBytes
      /\ WordBytes * stores \in Int
  BY Constants, Monotone
<1> QED BY <1>1, <1>2, <1>3, Constants DEF Values

\* Inside a Step the cache has room, so that a store changes its own bytes in
\* the cache as in the shadow, and the program goes on.
LEMMA StoreStep ==
  ASSUME IInv, NEW ptr \in Bytes, NEW len \in Lengths, Store(ptr, len)
  PROVE  IInv' /\ status' = status
<1> DEFINE val == [i \in 0 .. len - 1 |-> stores * WordBytes + i + 1]
           c == StoreMemInternal(ptr, len, val)
<1>1. /\ status = "runs" /\ stepping /\ stores < MaxStores /\ ptr + len - 1 \in Bytes
      /\ shadow' = [a \in Bytes |-> IF a \in ptr .. ptr + len - 1 THEN val[a - ptr] ELSE shadow[a]]
      /\ stores' = stores + 1 /\ lines' = c.lines /\ usage' = c.usage
      /\ status' = (IF c.full THEN "exit" ELSE status)
      /\ stepping' = (c.usage < MaxFcnt) /\ ram' = ram /\ stale' = stale
  BY DEF Store
<1>2. /\ lines \in Caches /\ Placed(lines) /\ usage \in Nat /\ HasRoom(lines, usage)
      /\ usage < MaxFcnt /\ ram \in [Bytes -> Values] /\ shadow \in [Bytes -> Values]
      /\ stores \in 0 .. MaxStores /\ stale \subseteq 0 .. Blocks - 1
  BY <1>1 DEF IInv, TypeOK, Caches
<1>3. val \in [0 .. len - 1 -> Values]
  BY <1>1, <1>2, StoredValues
<1>4. \A a \in Bytes : BlockOf(a) \notin stale => Cached(ram, lines, a) = shadow[a]
  BY FlushedFacts DEF IInv
<1> HIDE DEF val
<1>5. /\ c.full = FALSE /\ c.lines \in Caches /\ Placed(c.lines)
      /\ c.usage \in Nat /\ HasRoom(c.lines, c.usage)
      /\ \A a \in Bytes :
           Cached(ram, c.lines, a) =
             IF InSpan(a, ptr, len) THEN val[a - ptr] ELSE Cached(ram, lines, a)
  BY <1>1, <1>2, <1>3, StoreMemFacts
<1> HIDE DEF c
<1>6. ASSUME NEW a \in Bytes, InSpan(a, ptr, len) PROVE val[a - ptr] \in Values
  <2>1. a \in Int /\ ptr \in Int /\ len \in Int
    BY <1>1, BlockSize, SpanFacts
  <2>2. a - ptr \in 0 .. len - 1
    BY <1>6, <2>1 DEF InSpan
  <2> QED BY <1>3, <2>2
<1>7. \A a \in Bytes : shadow'[a] = IF InSpan(a, ptr, len) THEN val[a - ptr] ELSE shadow[a]
  BY <1>1 DEF InSpan
<1>8. shadow' \in [Bytes -> Values]
  BY <1>1, <1>2, <1>6 DEF InSpan
<1>9. status' = "runs" /\ status' = status
  BY <1>1, <1>5
<1>10. TypeOK'
  BY <1>1, <1>2, <1>5, <1>8, <1>9, Constants DEF TypeOK, Caches
<1>11. \A a \in Bytes : Flushed'[a] = Cached(ram', lines', a)
  BY DEF Flushed, Cached
<1>12. \A a \in Bytes : BlockOf(a) \notin stale' => Flushed'[a] = shadow'[a]
  BY <1>1, <1>4, <1>5, <1>7, <1>11
<1> QED BY <1>1, <1>5, <1>9, <1>10, <1>12 DEF IInv

\* Every load answers the shadow when the block of no byte of it is stale.
LEMMA LoadsShadow ==
  ASSUME IInv, NEW ptr \in Bytes, NEW len \in Lengths, ptr + len - 1 \in Bytes,
         NEW i \in 0 .. len - 1, BlockOf(ptr + i) \notin stale
  PROVE  LoadMemInternal(lines, ptr, len)[i] = shadow[ptr + i]
<1>1. lines \in Caches
  BY DEF IInv, TypeOK, Caches
<1>2. LoadMemInternal(lines, ptr, len)[i] = Cached(ram, lines, ptr + i)
  BY <1>1, LoadFacts
<1>3. ptr + i \in Bytes
  BY SpanFacts
<1> QED BY <1>2, <1>3, FlushedFacts DEF IInv

\* A load ends the program only at a block that a restart left stale.
LEMMA LoadStep ==
  ASSUME IInv, NEW ptr \in Bytes, NEW len \in Lengths, Load(ptr, len)
  PROVE  IInv'
<1>1. PICK i \in 0 .. len - 1 : LoadMemInternal(lines, ptr, len)[i] # shadow[ptr + i]
  BY DEF Load
<1>2. ptr + len - 1 \in Bytes /\ status' = "exit"
      /\ UNCHANGED <<ram, shadow, lines, usage, stepping, stores, stale>>
  BY DEF Load
<1>3. BlockOf(ptr + i) \in stale
  BY <1>1, <1>2, LoadsShadow
<1>4. stale' # {}
  BY <1>2, <1>3
<1>5. TypeOK'
  BY <1>2 DEF IInv, TypeOK
<1>6. Flushed' = Flushed
  BY <1>2 DEF Flushed
<1> QED BY <1>2, <1>4, <1>5, <1>6 DEF IInv

LEMMA EndStepStep ==
  ASSUME IInv, EndStep
  PROVE  IInv'
<1>1. stepping' = FALSE /\ UNCHANGED <<ram, shadow, lines, usage, status, stores, stale>>
  BY DEF EndStep
<1>2. TypeOK'
  BY <1>1 DEF IInv, TypeOK
<1>3. Flushed' = Flushed
  BY <1>1 DEF Flushed
<1> QED BY <1>1, <1>2, <1>3 DEF IInv

\* The flush puts every byte where the next load takes it from.
LEMMA NextStepStep ==
  ASSUME IInv, NextStep
  PROVE  IInv'
<1>1. FlushRunlet /\ stepping' = TRUE /\ UNCHANGED <<shadow, status, stores, stale>>
  BY DEF NextStep
<1>2. /\ lines \in Caches /\ usage \in Nat /\ ram \in [Bytes -> Values]
  BY DEF IInv, TypeOK, Caches
<1>3. CASE usage >= MaxFcnt
  <2>1. ram' = Flushed /\ lines' = Empty /\ usage' = 0
    BY <1>1, <1>3 DEF FlushRunlet, Empty
  <2>2. Flushed \in [Bytes -> Values]
    <3>1. \A a \in Bytes : Flushed[a] \in Values
      BY <1>2, FlushedFacts, CachedType
    <3>2. Flushed = [a \in Bytes |-> Flushed[a]]
      BY DEF Flushed
    <3> QED BY <3>1, <3>2
  <2>3. TypeOK'
    BY <1>1, <2>1, <2>2, EmptyFacts DEF IInv, TypeOK, Caches
  <2>4. Placed(lines') /\ HasRoom(lines', usage')
    BY <2>1, EmptyFacts
  <2>5. \A a \in Bytes : Flushed'[a] = Cached(ram', lines', a)
    BY DEF Flushed, Cached
  <2>6. \A a \in Bytes : Flushed'[a] = Flushed[a]
    BY <2>1, <2>5, EmptyFacts
  <2> QED BY <1>1, <2>1, <2>3, <2>4, <2>6, Constants DEF IInv
<1>4. CASE ~(usage >= MaxFcnt)
  <2>1. UNCHANGED <<ram, lines, usage>>
    BY <1>1, <1>4 DEF FlushRunlet
  <2>2. TypeOK'
    BY <1>1, <2>1 DEF IInv, TypeOK
  <2>3. Flushed' = Flushed
    BY <2>1 DEF Flushed
  <2>4. usage' < MaxFcnt
    BY <1>2, <1>4, <2>1, Constants
  <2> QED BY <1>1, <2>1, <2>2, <2>3, <2>4 DEF IInv
<1> QED BY <1>3, <1>4

\* After a restart the blocks that are not in the cache are those of the image.
LEMMA RestartStep ==
  ASSUME IInv, Restart
  PROVE  IInv'
<1>1. /\ status = "runs" /\ usage < MaxFcnt /\ ram' = Image /\ shadow' = Image /\ stepping' = TRUE
      /\ stale' = {block \in 0 .. Blocks - 1 : WaysOf(lines, block) # {}}
      /\ UNCHANGED <<lines, usage, status, stores>>
  BY DEF Restart
<1>2. TypeOK'
  BY <1>1, ImageAssumption DEF IInv, TypeOK
<1>3. \A a \in Bytes : Flushed'[a] = Cached(ram', lines', a)
  BY DEF Flushed, Cached
<1>4. ASSUME NEW a \in Bytes, BlockOf(a) \notin stale' PROVE Flushed'[a] = shadow'[a]
  <2>1. BlockOf(a) \in 0 .. Blocks - 1
    BY BlockSize, BlockFacts
  <2>2. WaysOf(lines', BlockOf(a)) = {}
    BY <1>1, <1>4, <2>1
  <2> QED BY <1>1, <1>3, <2>2 DEF Cached
<1> QED BY <1>1, <1>2, <1>4 DEF IInv

LEMMA NextIInv == IInv /\ [Next]_vars => IInv'
<1> SUFFICES ASSUME IInv, [Next]_vars PROVE IInv'
  OBVIOUS
<1>1. ASSUME NEW ptr \in Bytes, NEW len \in Lengths, Store(ptr, len) PROVE IInv'
  BY <1>1, StoreStep
<1>2. ASSUME NEW ptr \in Bytes, NEW len \in Lengths, Load(ptr, len) PROVE IInv'
  BY <1>2, LoadStep
<1>3. CASE EndStep
  BY <1>3, EndStepStep
<1>4. CASE NextStep
  BY <1>4, NextStepStep
<1>5. CASE Restart
  BY <1>5, RestartStep
<1>6. CASE UNCHANGED vars
  <2>1. Flushed' = Flushed
    BY <1>6 DEF Flushed, vars
  <2> QED BY <1>6, <2>1 DEF IInv, TypeOK, vars
<1> QED BY <1>1, <1>2, <1>3, <1>4, <1>5, <1>6 DEF Next

-----------------------------------------------------------------------------
(* The results.                                                             *)

\* A byte is always where the flush would take it from, and inside a Step every
\* set has a free way (StoreMemInternalRB and FlushRunlet).
THEOREM SpecIInv == Spec => []IInv
<1> QED BY InitIInv, NextIInv, PTL DEF Spec

\* "This should never ever happen": no access meets a set that is full of other
\* blocks, whatever the size of the cache.
THEOREM RoomCorrect == Spec => []NeverOverfull
<1>1. IInv => NeverOverfull
  <2> SUFFICES ASSUME IInv, stepping, NEW block \in 0 .. Blocks - 1
               PROVE  ~Overfull(lines, block)
    BY DEF NeverOverfull
  <2>1. lines \in Caches /\ HasRoom(lines, usage) /\ usage < MaxFcnt /\ block \in Int
    BY DEF IInv, TypeOK, Caches
  <2>2. Len(lines[SetOf(block)]) < Ways /\ Len(lines[SetOf(block)]) \in Nat
    BY <2>1, SetOfBlock, CacheFacts DEF HasRoom
  <2> QED BY <2>2, Constants DEF Overfull
<1> QED BY SpecIInv, <1>1, PTL

\* Every load, in one word or two, answers what was stored last, whether its
\* bytes are in lines, in the RAM or in both.
THEOREM ReadsCorrect == Spec => []ReadsAreWrites
<1>1. IInv => ReadsAreWrites
  <2> SUFFICES ASSUME IInv, NEW ptr \in Bytes, NEW len \in Lengths,
                      ptr .. ptr + len - 1 \subseteq Bytes,
                      \A a \in ptr .. ptr + len - 1 : BlockOf(a) \notin stale,
                      NEW a \in ptr .. ptr + len - 1
               PROVE  LoadMemInternal(lines, ptr, len)[a - ptr] = shadow[a]
    BY DEF ReadsAreWrites
  <2>1. ptr \in Nat /\ len \in Nat /\ len > 0 /\ a \in Int
    BY BlockSize, Constants DEF Lengths
  <2>2. ptr + len - 1 \in Bytes
    BY <2>1
  <2> DEFINE i == a - ptr
  <2>3. i \in 0 .. len - 1 /\ ptr + i = a
    BY <2>1
  <2> HIDE DEF i
  <2>4. BlockOf(ptr + i) \notin stale
    BY <2>3
  <2>5. LoadMemInternal(lines, ptr, len)[i] = shadow[ptr + i]
    BY <2>2, <2>3, <2>4, LoadsShadow
  <2> QED BY <2>3, <2>5 DEF i
<1> QED BY SpecIInv, <1>1, PTL

\* The checks that end the program, in StoreMemInternalRB and LoadMemInternal,
\* are never the end of a store, and of a load only after a restart has left
\* lines of the old guest in the cache.
THEOREM ExitsCorrect ==
  Spec => [](status = "exit" => stale # {}) /\ [][stores' # stores => status' = status]_vars
<1>1. IInv => (status = "exit" => stale # {})
  BY DEF IInv
<1>2. IInv /\ [Next]_vars => [stores' # stores => status' = status]_vars
  <2> SUFFICES ASSUME IInv, Next, stores' # stores PROVE status' = status
    OBVIOUS
  <2>1. PICK ptr \in Bytes, len \in Lengths : Store(ptr, len)
    BY DEF Next, Load, EndStep, NextStep, Restart
  <2> QED BY <2>1, StoreStep
<1> QED BY SpecIInv, <1>1, <1>2, PTL DEF Spec
=============================================================================
