---------------------------- MODULE VirtioProofs ----------------------------
(* For every size of the rings, every width of their indices that is a     *)
(* multiple of it, and every set of packets: the rings and the notify give *)
(* each buffer back once and in order, and no descriptor has two owners.   *)
(* For every layout of a chain and every header and packet: the bytes come *)
(* whole.  And for every set of interrupt sources: an event the driver has *)
(* not seen never rests without the hart's line.                           *)
EXTENDS VirtQueue, IrqDelivery, FiniteSetTheorems, WellFoundedInduction, TLAPS

-----------------------------------------------------------------------------
(* Indices that wrap.                                                      *)

\* What is assumed of the constants, as the facts the steps cite.
LEMMA Constants ==
  /\ QueueNum \in Nat /\ QueueNum > 0
  /\ Wrap \in Nat /\ Wrap > QueueNum /\ Wrap % QueueNum = 0
  BY QueueAssumption

\* Division with rest, for a positive divisor.
LEMMA DivMod ==
  ASSUME NEW a \in Int, NEW w \in Nat, w > 0
  PROVE  /\ a \div w \in Int /\ a % w \in 0 .. w - 1
         /\ a = w * (a \div w) + (a % w)
  OBVIOUS

\* Quotient and rest are the only ones.
LEMMA DivModUnique ==
  ASSUME NEW w \in Nat, w > 0, NEW q \in Int, NEW r \in 0 .. w - 1
  PROVE  (w * q + r) % w = r
  OBVIOUS

\* A multiple of the divisor does not change the rest.
LEMMA ModShift ==
  ASSUME NEW a \in Int, NEW w \in Nat, w > 0, NEW k \in Int
  PROVE  (a + w * k) % w = a % w
<1> DEFINE q == a \div w + k
<1>1. a = w * (a \div w) + (a % w) /\ a \div w \in Int /\ a % w \in 0 .. w - 1
  BY DivMod
<1>2. a + w * k = w * q + (a % w) /\ q \in Int
  BY <1>1
<1> HIDE DEF q
<1>3. (w * q + (a % w)) % w = a % w
  BY <1>1, <1>2, DivModUnique
<1> QED BY <1>2, <1>3

\* How far it is from one index to another, as Between counts it.
Gap(from, to) == (to - from) % Wrap

\* The next index, without the remainder.
LEMMA IncFacts ==
  ASSUME NEW i \in Index
  PROVE  Inc(i) = (IF i = Wrap - 1 THEN 0 ELSE i + 1) /\ Inc(i) \in Index
<1>1. (Wrap * 1 + 0) % Wrap = 0 /\ (i # Wrap - 1 => (Wrap * 0 + (i + 1)) % Wrap = i + 1)
  BY DivModUnique, Constants DEF Index
<1> QED BY <1>1, Constants DEF Inc, Index

\* The distance without the remainder.
LEMMA GapFacts ==
  ASSUME NEW from \in Index, NEW to \in Index
  PROVE  /\ Gap(from, to) = IF to >= from THEN to - from ELSE to - from + Wrap
         /\ Gap(from, to) \in 0 .. Wrap - 1
         /\ Gap(from, to) = 0 <=> from = to
<1>1. CASE to >= from
  <2>1. (Wrap * 0 + (to - from)) % Wrap = to - from
    BY <1>1, DivModUnique, Constants DEF Index
  <2> QED BY <1>1, <2>1, Constants DEF Index, Gap
<1>2. CASE to < from
  <2>1. (Wrap * (-1) + (to - from + Wrap)) % Wrap = to - from + Wrap
    BY <1>2, DivModUnique, Constants DEF Index
  <2>2. Wrap * (-1) + (to - from + Wrap) = to - from
    BY <1>2, Constants DEF Index
  <2> QED BY <1>2, <2>1, <2>2, Constants DEF Index, Gap
<1> QED BY <1>1, <1>2 DEF Index

\* Moving one of the two indices moves the distance by one.
LEMMA GapMoves ==
  ASSUME NEW from \in Index, NEW to \in Index
  PROVE  /\ Gap(from, to) < Wrap - 1 => Gap(from, Inc(to)) = Gap(from, to) + 1
         /\ from # to => Gap(Inc(from), to) = Gap(from, to) - 1
<1>1. /\ Gap(from, to) = IF to >= from THEN to - from ELSE to - from + Wrap
      /\ Gap(from, to) \in 0 .. Wrap - 1
  BY GapFacts
<1>2. /\ Inc(to) \in Index /\ Inc(to) = IF to = Wrap - 1 THEN 0 ELSE to + 1
      /\ Inc(from) \in Index /\ Inc(from) = IF from = Wrap - 1 THEN 0 ELSE from + 1
  BY IncFacts
<1>3. /\ Gap(from, Inc(to)) = IF Inc(to) >= from THEN Inc(to) - from ELSE Inc(to) - from + Wrap
      /\ Gap(Inc(from), to) = IF to >= Inc(from) THEN to - Inc(from) ELSE to - Inc(from) + Wrap
  BY <1>2, GapFacts
<1> QED BY <1>1, <1>2, <1>3, Constants DEF Index

\* The slot of an index is that of the number it is the remainder of.
LEMMA SlotOfIndex ==
  ASSUME NEW i \in Int, NEW k \in Int
  PROVE  Slot(i + Wrap * k) = Slot(i) /\ Slot(i) \in Slots
<1>1. Wrap = QueueNum * (Wrap \div QueueNum) /\ Wrap \div QueueNum \in Int
  BY DivMod, Constants
<1> DEFINE m == (Wrap \div QueueNum) * k
<1>2. Wrap * k = QueueNum * m /\ m \in Int
  BY <1>1, Constants
<1> HIDE DEF m
<1>3. (i + QueueNum * m) % QueueNum = i % QueueNum
  BY <1>2, ModShift, Constants
<1> QED BY <1>2, <1>3, DivMod, Constants DEF Slot, Slots

\* Fewer than a ring's size apart, two numbers have different slots.
LEMMA SlotsApart ==
  ASSUME NEW i \in Int, NEW j \in Int, i < j, j - i < QueueNum
  PROVE  Slot(i) # Slot(j)
<1> DEFINE p == i \div QueueNum
           q == j \div QueueNum
<1>1. i = QueueNum * p + Slot(i) /\ p \in Int /\ Slot(i) \in 0 .. QueueNum - 1
  BY DivMod, Constants DEF Slot
<1>2. j = QueueNum * q + Slot(j) /\ q \in Int /\ Slot(j) \in 0 .. QueueNum - 1
  BY DivMod, Constants DEF Slot
<1> HIDE DEF p, q
<1>3. SUFFICES ASSUME Slot(i) = Slot(j) PROVE FALSE
  OBVIOUS
<1>4. QueueNum * (q - p) = j - i
  BY <1>1, <1>2, <1>3, Constants
<1>5. q - p > 0
  BY <1>1, <1>2, <1>4, Constants
<1>6. QueueNum * (q - p) >= QueueNum
  BY <1>1, <1>2, <1>5, Constants
<1> QED BY <1>4, <1>6, Constants

-----------------------------------------------------------------------------
(* The part of a ring between two indices.                                 *)

\* It is a sequence as long as they are apart.
LEMMA BetweenFacts ==
  ASSUME NEW ring \in [Slots -> Heads], NEW from \in Index, NEW to \in Index
  PROVE  /\ Between(ring, from, to) \in Seq(Heads)
         /\ Len(Between(ring, from, to)) = Gap(from, to)
         /\ \A k \in 1 .. Gap(from, to) : Between(ring, from, to)[k] = ring[Slot(from + k - 1)]
<1>1. Gap(from, to) \in Nat
  BY GapFacts, Constants
<1>2. Between(ring, from, to) = [k \in 1 .. Gap(from, to) |-> ring[Slot(from + k - 1)]]
  BY DEF Between, Gap
<1>3. \A k \in 1 .. Gap(from, to) : ring[Slot(from + k - 1)] \in Heads
  <2> SUFFICES ASSUME NEW k \in 1 .. Gap(from, to) PROVE ring[Slot(from + k - 1)] \in Heads
    OBVIOUS
  <2>1. from + k - 1 \in Int
    BY <1>1 DEF Index
  <2>2. Slot(from + k - 1) \in Slots
    BY <2>1, DivMod, Constants DEF Slot, Slots
  <2> QED BY <2>2
<1> QED BY <1>1, <1>2, <1>3

\* An empty part.
LEMMA BetweenNothing ==
  ASSUME NEW ring \in [Slots -> Heads], NEW i \in Index
  PROVE  Between(ring, i, i) = <<>>
  BY BetweenFacts, GapFacts

\* An element stored at the upper index, as long as there is room, is not in
\* the part below it, and is its last one when the index is moved.
LEMMA BetweenAppend ==
  ASSUME NEW ring \in [Slots -> Heads], NEW from \in Index, NEW to \in Index,
         NEW h \in Heads, Gap(from, to) < QueueNum
  PROVE  LET written == [ring EXCEPT ![Slot(to)] = h]
         IN  /\ Between(written, from, to) = Between(ring, from, to)
             /\ Between(written, from, Inc(to)) = Append(Between(ring, from, to), h)
<1> DEFINE new == [ring EXCEPT ![Slot(to)] = h]
           gap == Gap(from, to)
<1>1. gap \in Nat /\ gap < Wrap - 1 /\ gap < QueueNum /\ from \in Nat /\ to \in Nat
  BY GapFacts, Constants DEF Index
<1>2. Slot(to) \in Slots /\ new \in [Slots -> Heads] /\ new[Slot(to)] = h
  BY <1>1, DivMod, Constants DEF Slot, Slots
<1>3. Slot(from + gap) = Slot(to)
  <2>1. from + gap = to + Wrap * 0 \/ from + gap = to + Wrap * 1
    BY <1>1, GapFacts, Constants
  <2> QED BY <1>1, <2>1, SlotOfIndex
<1>4. ASSUME NEW k \in 1 .. gap PROVE new[Slot(from + k - 1)] = ring[Slot(from + k - 1)]
  <2> HIDE DEF gap
  <2>1. /\ from + k - 1 \in Int /\ from + gap \in Int /\ from + k - 1 < from + gap
        /\ (from + gap) - (from + k - 1) < QueueNum
    BY <1>1, Constants
  <2>2. Slot(from + k - 1) # Slot(from + gap)
    BY <2>1, SlotsApart
  <2>3. Slot(from + k - 1) \in Slots
    BY <2>1, DivMod, Constants DEF Slot, Slots
  <2> QED BY <1>3, <2>2, <2>3
<1>5. Gap(from, Inc(to)) = gap + 1 /\ Inc(to) \in Index
  BY <1>1, GapMoves, IncFacts
<1> DEFINE old == Between(ring, from, to)
           same == Between(new, from, to)
           longer == Between(new, from, Inc(to))
<1>6. /\ old \in Seq(Heads) /\ Len(old) = gap
      /\ \A k \in 1 .. gap : old[k] = ring[Slot(from + k - 1)]
  BY BetweenFacts
<1>7. /\ same \in Seq(Heads) /\ Len(same) = gap
      /\ \A k \in 1 .. gap : same[k] = new[Slot(from + k - 1)]
  BY <1>2, BetweenFacts
<1>8. /\ longer \in Seq(Heads) /\ Len(longer) = gap + 1
      /\ \A k \in 1 .. gap + 1 : longer[k] = new[Slot(from + k - 1)]
  <2> HIDE DEF new, gap
  <2>1. /\ longer \in Seq(Heads) /\ Len(longer) = Gap(from, Inc(to))
        /\ \A k \in 1 .. Gap(from, Inc(to)) : longer[k] = new[Slot(from + k - 1)]
    BY <1>2, <1>5, BetweenFacts
  <2> QED BY <1>5, <2>1
<1> HIDE DEF old, same, longer, new, gap
<1>9. same = old
  BY <1>1, <1>4, <1>6, <1>7
<1>10. longer = Append(old, h)
  <2>1. longer[gap + 1] = h
    <3>1. from + (gap + 1) - 1 = from + gap /\ gap + 1 \in 1 .. gap + 1
      BY <1>1
    <3> QED BY <1>2, <1>3, <1>8, <3>1
  <2>2. ASSUME NEW k \in 1 .. gap PROVE longer[k] = old[k]
    <3>1. k \in 1 .. gap + 1
      BY <1>1
    <3> QED BY <1>4, <1>6, <1>8, <3>1
  <2> QED BY <1>1, <1>6, <1>8, <2>1, <2>2
<1> QED BY <1>9, <1>10 DEF old, same, longer, new

\* The lower index moves over the first element.
LEMMA BetweenTail ==
  ASSUME NEW ring \in [Slots -> Heads], NEW from \in Index, NEW to \in Index, from # to
  PROVE  /\ Between(ring, from, to) # <<>>
         /\ Head(Between(ring, from, to)) = ring[Slot(from)]
         /\ Between(ring, Inc(from), to) = Tail(Between(ring, from, to))
<1> DEFINE gap == Gap(from, to)
           old == Between(ring, from, to)
           rest == Between(ring, Inc(from), to)
<1>1. gap \in Nat /\ gap > 0 /\ from \in Nat
  BY GapFacts, Constants DEF Index
<1>2. Inc(from) \in Index /\ Gap(Inc(from), to) = gap - 1
  BY IncFacts, GapMoves
<1>3. /\ old \in Seq(Heads) /\ Len(old) = gap
      /\ \A k \in 1 .. gap : old[k] = ring[Slot(from + k - 1)]
  BY BetweenFacts
<1>4. /\ rest \in Seq(Heads) /\ Len(rest) = gap - 1
      /\ \A k \in 1 .. gap - 1 : rest[k] = ring[Slot(Inc(from) + k - 1)]
  BY <1>2, BetweenFacts, SMTT(40)
<1>5. ASSUME NEW k \in 1 .. gap - 1 PROVE Slot(Inc(from) + k - 1) = Slot(from + (k + 1) - 1)
  <2>1. \/ Inc(from) + k - 1 = (from + (k + 1) - 1) + Wrap * 0
        \/ Inc(from) + k - 1 = (from + (k + 1) - 1) + Wrap * (-1)
    BY <1>1, IncFacts, Constants DEF Index
  <2> QED BY <1>1, <2>1, SlotOfIndex
<1>6. old[1] = ring[Slot(from)]
  <2>1. from + 1 - 1 = from /\ 1 \in 1 .. gap
    BY <1>1
  <2> QED BY <1>3, <2>1
<1> HIDE DEF old, rest, gap
<1>7. \A k \in 1 .. gap - 1 : rest[k] = old[k + 1]
  <2> SUFFICES ASSUME NEW k \in 1 .. gap - 1 PROVE rest[k] = old[k + 1]
    OBVIOUS
  <2>1. k + 1 \in 1 .. gap
    BY <1>1
  <2> QED BY <1>3, <1>4, <1>5, <2>1
<1> QED BY <1>1, <1>3, <1>4, <1>6, <1>7 DEF old, rest, gap

-----------------------------------------------------------------------------
(* Sequences without repetition, which share nothing.                      *)

\* A concatenation has no repetition just when its halves have none and share
\* no element, and holds what they hold.
LEMMA ConcatApart ==
  ASSUME NEW S, NEW a \in Seq(S), NEW b \in Seq(S)
  PROVE  /\ a \o b \in Seq(S)
         /\ ToSet(a \o b) = ToSet(a) \cup ToSet(b)
         /\ IsInjective(a \o b) <=>
              IsInjective(a) /\ IsInjective(b) /\ ToSet(a) \cap ToSet(b) = {}
<1> DEFINE c == a \o b
           m == Len(a)
           k == Len(b)
<1>1. /\ c \in Seq(S) /\ Len(c) = m + k /\ m \in Nat /\ k \in Nat
      /\ DOMAIN a = 1 .. m /\ DOMAIN b = 1 .. k /\ DOMAIN c = 1 .. m + k
      /\ \A i \in 1 .. m : c[i] = a[i]
      /\ \A i \in 1 .. k : c[m + i] = b[i]
  OBVIOUS
<1> HIDE DEF c, m, k
<1>2. ASSUME NEW i \in 1 .. m + k
      PROVE  (i \in 1 .. m /\ c[i] = a[i]) \/ (i - m \in 1 .. k /\ c[i] = b[i - m])
  <2>1. i \in 1 .. m \/ (i - m \in 1 .. k /\ m + (i - m) = i)
    BY <1>1
  <2> QED BY <1>1, <2>1
<1>3. (\A i \in 1 .. m : i \in 1 .. m + k) /\ (\A i \in 1 .. k : m + i \in 1 .. m + k)
  BY <1>1
<1>4. ToSet(c) = ToSet(a) \cup ToSet(b)
  <2>1. ToSet(c) \subseteq ToSet(a) \cup ToSet(b)
    BY <1>1, <1>2 DEF ToSet
  <2>2. ToSet(a) \subseteq ToSet(c)
    BY <1>1, <1>3 DEF ToSet
  <2>3. ToSet(b) \subseteq ToSet(c)
    <3> SUFFICES ASSUME NEW i \in 1 .. k PROVE b[i] \in ToSet(c)
      BY <1>1 DEF ToSet
    <3>1. m + i \in DOMAIN c /\ c[m + i] = b[i]
      BY <1>1, <1>3
    <3> QED BY <3>1 DEF ToSet
  <2> QED BY <2>1, <2>2, <2>3
<1>5. ASSUME IsInjective(c)
      PROVE  IsInjective(a) /\ IsInjective(b) /\ ToSet(a) \cap ToSet(b) = {}
  <2>1. IsInjective(a)
    BY <1>1, <1>3, <1>5 DEF IsInjective
  <2>2. IsInjective(b)
    <3> SUFFICES ASSUME NEW i \in 1 .. k, NEW j \in 1 .. k, b[i] = b[j] PROVE i = j
      BY <1>1 DEF IsInjective
    <3>1. m + i = m + j
      BY <1>1, <1>3, <1>5 DEF IsInjective
    <3> QED BY <1>1, <3>1
  <2>3. ASSUME NEW i \in 1 .. m, NEW j \in 1 .. k, a[i] = b[j] PROVE FALSE
    <3>1. i = m + j
      BY <1>1, <1>3, <1>5, <2>3 DEF IsInjective
    <3> QED BY <1>1, <3>1
  <2> QED BY <1>1, <2>1, <2>2, <2>3 DEF ToSet
<1>6. ASSUME IsInjective(a), IsInjective(b), ToSet(a) \cap ToSet(b) = {}
      PROVE  IsInjective(c)
  <2> SUFFICES ASSUME NEW i \in 1 .. m + k, NEW j \in 1 .. m + k, c[i] = c[j] PROVE i = j
    BY <1>1 DEF IsInjective
  <2>1. \A x \in 1 .. m, y \in 1 .. k : a[x] # b[y]
    BY <1>1, <1>6 DEF ToSet
  <2>2. /\ (i \in 1 .. m /\ c[i] = a[i]) \/ (i - m \in 1 .. k /\ c[i] = b[i - m])
        /\ (j \in 1 .. m /\ c[j] = a[j]) \/ (j - m \in 1 .. k /\ c[j] = b[j - m])
    BY <1>2
  <2>3. (i \in 1 .. m /\ j \in 1 .. m => i = j) /\ (i - m \in 1 .. k /\ j - m \in 1 .. k /\ b[i - m] = b[j - m] => i - m = j - m)
    BY <1>1, <1>6, <2>2 DEF IsInjective
  <2> QED BY <1>1, <2>1, <2>2, <2>3
<1> QED BY <1>1, <1>4, <1>5, <1>6 DEF c

\* An element more at the end.
LEMMA AppendApart ==
  ASSUME NEW S, NEW s \in Seq(S), NEW x \in S
  PROVE  /\ Append(s, x) \in Seq(S)
         /\ ToSet(Append(s, x)) = ToSet(s) \cup {x}
         /\ IsInjective(s) /\ x \notin ToSet(s) => IsInjective(Append(s, x))
<1>1. <<x>> \in Seq(S) /\ Append(s, x) = s \o <<x>>
  OBVIOUS
<1>2. ToSet(<<x>>) = {x} /\ IsInjective(<<x>>)
  BY DEF ToSet, IsInjective
<1> DEFINE one == <<x>>
<1> HIDE DEF one
<1>3. one \in Seq(S) /\ ToSet(one) = {x} /\ IsInjective(one) /\ Append(s, x) = s \o one
  BY <1>1, <1>2 DEF one
<1>4. /\ s \o one \in Seq(S)
      /\ ToSet(s \o one) = ToSet(s) \cup ToSet(one)
      /\ IsInjective(s \o one) <=>
           IsInjective(s) /\ IsInjective(one) /\ ToSet(s) \cap ToSet(one) = {}
  BY <1>3, ConcatApart
<1> QED BY <1>3, <1>4

\* An element less at the front.
LEMMA TailApart ==
  ASSUME NEW S, NEW s \in Seq(S), s # <<>>, IsInjective(s)
  PROVE  /\ Tail(s) \in Seq(S) /\ Head(s) \in S
         /\ IsInjective(Tail(s))
         /\ Head(s) \in ToSet(s) /\ ToSet(Tail(s)) = ToSet(s) \ {Head(s)}
<1>1. /\ <<Head(s)>> \in Seq(S) /\ Tail(s) \in Seq(S) /\ Head(s) \in S
      /\ s = <<Head(s)>> \o Tail(s)
  OBVIOUS
<1>2. ToSet(<<Head(s)>>) = {Head(s)}
  BY DEF ToSet
<1> DEFINE one == <<Head(s)>>
           rest == Tail(s)
<1> HIDE DEF one, rest
<1>3. /\ one \in Seq(S) /\ rest \in Seq(S) /\ s = one \o rest
      /\ ToSet(one) = {Head(s)} /\ Head(s) \in S
  BY <1>1, <1>2 DEF one, rest
<1>4. /\ ToSet(one \o rest) = ToSet(one) \cup ToSet(rest)
      /\ IsInjective(one \o rest) <=>
           IsInjective(one) /\ IsInjective(rest) /\ ToSet(one) \cap ToSet(rest) = {}
  BY <1>3, ConcatApart
<1> QED BY <1>3, <1>4 DEF rest

\* A sequence without repetition is no longer than the set it is drawn from.
LEMMA Pigeons ==
  ASSUME NEW S, IsFiniteSet(S), NEW s \in Seq(S), IsInjective(s)
  PROVE  Len(s) <= Cardinality(S)
<1>1. s \in [1 .. Len(s) -> S] /\ Len(s) \in Nat
  OBVIOUS
<1>2. s \in Injection(1 .. Len(s), S)
  BY <1>1 DEF Injection
<1>3. Cardinality(1 .. Len(s)) = Len(s)
  <2>1. Cardinality(1 .. Len(s)) = IF 1 > Len(s) THEN 0 ELSE Len(s) - 1 + 1
    BY <1>1, FS_Interval
  <2> QED BY <1>1, <2>1
<1> QED BY <1>2, <1>3, FS_Injection

\* A sequence of descriptors that leaves one out is shorter than a ring.
LEMMA RoomLeft ==
  ASSUME NEW s \in Seq(Heads), IsInjective(s), NEW h \in Heads, h \notin ToSet(s)
  PROVE  Len(s) < QueueNum
<1>1. IsFiniteSet(Heads) /\ Cardinality(Heads) = QueueNum
  BY FS_Interval, Constants DEF Heads
<1>2. IsFiniteSet(Heads \ {h}) /\ Cardinality(Heads \ {h}) = QueueNum - 1
  BY <1>1, FS_RemoveElement
<1>3. s \in Seq(Heads \ {h})
  BY DEF ToSet
<1>4. Len(s) <= QueueNum - 1 /\ Len(s) \in Nat
  BY <1>2, <1>3, Pigeons
<1> QED BY <1>4, Constants

-----------------------------------------------------------------------------
(* OneOwner, for any three sequences, and the steps of the abstract queue. *)

\* Three sequences of descriptors without repetition and a set, which share
\* nothing and leave nothing out.
Apart(f, o, h, r) ==
    /\ o \in Seq(Heads) /\ h \in Seq(Heads) /\ r \in Seq(Heads)
    /\ IsInjective(o) /\ IsInjective(h) /\ IsInjective(r)
    /\ ToSet(o) \cap ToSet(h) = {} /\ ToSet(o) \cap ToSet(r) = {} /\ ToSet(h) \cap ToSet(r) = {}
    /\ f \cap (ToSet(o) \cup ToSet(h) \cup ToSet(r)) = {}
    /\ f \cup (ToSet(o) \cup ToSet(h) \cup ToSet(r)) = Heads

\* It is OneOwner, said part by part.
LEMMA ApartIsOneOwner ==
  ASSUME NEW f, NEW o \in Seq(Heads), NEW h \in Seq(Heads), NEW r \in Seq(Heads)
  PROVE  Apart(f, o, h, r) <=>
           /\ IsInjective(o \o h \o r)
           /\ f \cap ToSet(o \o h \o r) = {}
           /\ f \cup ToSet(o \o h \o r) = Heads
<1> DEFINE oh == o \o h
<1>1. /\ oh \in Seq(Heads) /\ ToSet(oh) = ToSet(o) \cup ToSet(h)
      /\ IsInjective(oh) <=> IsInjective(o) /\ IsInjective(h) /\ ToSet(o) \cap ToSet(h) = {}
  BY ConcatApart
<1> HIDE DEF oh
<1>2. /\ ToSet(oh \o r) = ToSet(oh) \cup ToSet(r)
      /\ IsInjective(oh \o r) <=> IsInjective(oh) /\ IsInjective(r) /\ ToSet(oh) \cap ToSet(r) = {}
  BY <1>1, ConcatApart
<1>3. IsInjective(oh \o r) <=>
        /\ IsInjective(o) /\ IsInjective(h) /\ IsInjective(r)
        /\ ToSet(o) \cap ToSet(h) = {} /\ ToSet(o) \cap ToSet(r) = {} /\ ToSet(h) \cap ToSet(r) = {}
  BY <1>1, <1>2
<1>4. ToSet(oh \o r) = ToSet(o) \cup ToSet(h) \cup ToSet(r)
  BY <1>1, <1>2
<1> QED BY <1>3, <1>4 DEF oh, Apart

\* The driver offers a buffer of its own.
LEMMA ApartOffer ==
  ASSUME NEW f, NEW o, NEW h, NEW r, Apart(f, o, h, r), NEW x \in f
  PROVE  Apart(f \ {x}, Append(o, x), h, r)
<1>1. o \in Seq(Heads) /\ x \in Heads /\ x \notin ToSet(o) /\ IsInjective(o)
  BY DEF Apart
<1>2. /\ Append(o, x) \in Seq(Heads) /\ ToSet(Append(o, x)) = ToSet(o) \cup {x}
      /\ IsInjective(Append(o, x))
  BY <1>1, AppendApart
<1> QED BY <1>1, <1>2 DEF Apart

\* A buffer goes from the front of one sequence to the end of another.
LEMMA Moved ==
  ASSUME NEW a \in Seq(Heads), NEW b \in Seq(Heads), a # <<>>,
         IsInjective(a), IsInjective(b), ToSet(a) \cap ToSet(b) = {}
  PROVE  /\ Tail(a) \in Seq(Heads) /\ Append(b, Head(a)) \in Seq(Heads)
         /\ IsInjective(Tail(a)) /\ IsInjective(Append(b, Head(a)))
         /\ ToSet(Tail(a)) \cap ToSet(Append(b, Head(a))) = {}
         /\ ToSet(Tail(a)) \cup ToSet(Append(b, Head(a))) = ToSet(a) \cup ToSet(b)
<1>1. /\ Tail(a) \in Seq(Heads) /\ Head(a) \in Heads /\ IsInjective(Tail(a))
      /\ Head(a) \in ToSet(a) /\ ToSet(Tail(a)) = ToSet(a) \ {Head(a)}
  BY TailApart
<1>2. Head(a) \notin ToSet(b)
  BY <1>1
<1>3. /\ Append(b, Head(a)) \in Seq(Heads)
      /\ ToSet(Append(b, Head(a))) = ToSet(b) \cup {Head(a)}
      /\ IsInjective(Append(b, Head(a)))
  BY <1>1, <1>2, AppendApart
<1> QED BY <1>1, <1>2, <1>3

\* The device takes the oldest buffer on offer.
LEMMA ApartTake ==
  ASSUME NEW f, NEW o, NEW h, NEW r, Apart(f, o, h, r), o # <<>>
  PROVE  Apart(f, Tail(o), Append(h, Head(o)), r)
<1>1. /\ Tail(o) \in Seq(Heads) /\ Append(h, Head(o)) \in Seq(Heads)
      /\ IsInjective(Tail(o)) /\ IsInjective(Append(h, Head(o)))
      /\ ToSet(Tail(o)) \cap ToSet(Append(h, Head(o))) = {}
      /\ ToSet(Tail(o)) \cup ToSet(Append(h, Head(o))) = ToSet(o) \cup ToSet(h)
  BY Moved DEF Apart
<1> QED BY <1>1 DEF Apart

\* The device gives its oldest buffer back.
LEMMA ApartGiveBack ==
  ASSUME NEW f, NEW o, NEW h, NEW r, Apart(f, o, h, r), h # <<>>
  PROVE  Apart(f, o, Tail(h), Append(r, Head(h)))
<1>1. /\ Tail(h) \in Seq(Heads) /\ Append(r, Head(h)) \in Seq(Heads)
      /\ IsInjective(Tail(h)) /\ IsInjective(Append(r, Head(h)))
      /\ ToSet(Tail(h)) \cap ToSet(Append(r, Head(h))) = {}
      /\ ToSet(Tail(h)) \cup ToSet(Append(r, Head(h))) = ToSet(h) \cup ToSet(r)
  BY Moved DEF Apart
<1> QED BY <1>1 DEF Apart

\* The driver has back the buffer that was returned first.
LEMMA ApartCollect ==
  ASSUME NEW f, NEW o, NEW h, NEW r, Apart(f, o, h, r), r # <<>>
  PROVE  Apart(f \cup {Head(r)}, o, h, Tail(r))
<1>1. /\ Tail(r) \in Seq(Heads) /\ IsInjective(Tail(r))
      /\ Head(r) \in ToSet(r) /\ ToSet(Tail(r)) = ToSet(r) \ {Head(r)}
  BY TailApart DEF Apart
<1> QED BY <1>1 DEF Apart

-----------------------------------------------------------------------------
(* Every step is a step of the abstract queue, or changes nothing of it.   *)

\* What is in the rings and in the device's hands are sequences.
LEMMA PartsAreSequences ==
  ASSUME TypeOK
  PROVE  Offered \in Seq(Heads) /\ Held \in Seq(Heads) /\ Returned \in Seq(Heads)
<1>1. Offered \in Seq(Heads)
  <2>1. (IF n = Idle THEN read_ptr ELSE n) \in Index
    BY DEF TypeOK
  <2>2. Between(availRing, IF n = Idle THEN read_ptr ELSE n, availIdx) \in Seq(Heads)
    BY <2>1, BetweenFacts DEF TypeOK
  <2>3. <<>> \in Seq(Heads)
    OBVIOUS
  <2> QED BY <2>2, <2>3 DEF Offered
<1>2. Held \in Seq(Heads)
  BY DEF TypeOK, Held, InHand
<1>3. Returned \in Seq(Heads)
  BY BetweenFacts DEF TypeOK, Returned
<1> QED BY <1>1, <1>2, <1>3

\* OneOwner part by part, for the queue as it is.
LEMMA OwnersApart ==
  ASSUME IInv
  PROVE  Apart(free, Offered, Held, Returned)
  BY PartsAreSequences, ApartIsOneOwner DEF IInv, OneOwner

\* The numbers of an index are not those of no loop and no chain.
LEMMA NotIdle ==
  /\ Idle \notin Index /\ None \notin Heads /\ 0 \in Index
  BY Constants DEF Idle, None, Index, Heads

\* Nothing the abstract queue shows depends on more than these.
LEMMA ViewsKept ==
  /\ UNCHANGED <<bound, availRing, n, read_ptr, availIdx>> => UNCHANGED Offered
  /\ UNCHANGED <<filling, rx_queue>> => UNCHANGED Held
  /\ UNCHANGED <<usedRing, lastUsed, usedIdx>> => UNCHANGED Returned
<1>1. UNCHANGED <<bound, availRing, n, read_ptr, availIdx>> => UNCHANGED Offered
  BY DEF Offered, Between, Slot
<1>2. UNCHANGED <<filling, rx_queue>> => UNCHANGED Held
  BY DEF Held, InHand
<1>3. UNCHANGED <<usedRing, lastUsed, usedIdx>> => UNCHANGED Returned
  BY DEF Returned, Between, Slot
<1> QED BY <1>1, <1>2, <1>3

\* The driver's first reset empties rings that are empty.
LEMMA ResetMapped ==
  ASSUME IInv, Reset
  PROVE  UNCHANGED Promise!fifoVars
<1>1. /\ ~bound /\ n = Idle /\ n' = Idle /\ free = Heads /\ lastUsed = 0 /\ usedIdx = 0
      /\ availIdx' = 0 /\ usedIdx' = 0 /\ lastUsed' = 0 /\ free' = Heads /\ read_ptr' = 0
      /\ availRing' = availRing /\ usedRing' = usedRing
      /\ availRing \in [Slots -> Heads] /\ usedRing \in [Slots -> Heads]
  BY DEF IInv, TypeOK, FreshUntilBound, Reset, GuestRuns
<1>2. Offered = <<>> /\ Offered' = <<>>
  <2>1. Between(availRing, 0, 0) = <<>>
    BY <1>1, NotIdle, BetweenNothing
  <2>2. Between(availRing, 0, 0)' = Between(availRing, 0, 0)
    BY <1>1 DEF Between, Slot
  <2>3. Offered' = IF bound' THEN Between(availRing, 0, 0)' ELSE <<>>
    BY <1>1 DEF Offered, Between, Slot
  <2> QED BY <1>1, <2>1, <2>2, <2>3 DEF Offered
<1>3. Returned' = Returned
  BY <1>1, ViewsKept
<1>4. Held' = Held
  BY ViewsKept DEF Reset
<1> QED BY <1>1, <1>2, <1>3, <1>4 DEF Promise!fifoVars

\* A buffer posted is a buffer offered: its slot is not one the device has
\* still to read.
LEMMA PostMapped ==
  ASSUME IInv, NEW h \in Heads, Post(h)
  PROVE  Promise!Offer(h)
<1>1. /\ n = Idle /\ bound /\ h \in free /\ free' = free \ {h} /\ n' = n /\ bound' = bound
      /\ availRing' = [availRing EXCEPT ![Slot(availIdx)] = h] /\ availIdx' = Inc(availIdx)
      /\ read_ptr' = read_ptr
      /\ UNCHANGED <<usedRing, lastUsed, usedIdx, filling, rx_queue>>
  BY DEF Post, GuestRuns, device
<1>2. availRing \in [Slots -> Heads] /\ read_ptr \in Index /\ availIdx \in Index
  BY DEF IInv, TypeOK
<1>3. Apart(free, Offered, Held, Returned)
  BY OwnersApart
<1>4. Offered = Between(availRing, read_ptr, availIdx)
  BY <1>1 DEF Offered
<1>5. Gap(read_ptr, availIdx) < QueueNum
  <2>1. Len(Offered) < QueueNum
    BY <1>1, <1>3, RoomLeft DEF Apart
  <2> QED BY <1>2, <1>4, <2>1, BetweenFacts
<1>6. Offered' = Append(Offered, h)
  <2>1. Offered' = Between(availRing', read_ptr, Inc(availIdx))
    BY <1>1 DEF Offered, Between, Slot
  <2> QED BY <1>1, <1>2, <1>4, <1>5, <2>1, BetweenAppend
<1>7. Held' = Held /\ Returned' = Returned
  BY <1>1, ViewsKept
<1> QED BY <1>1, <1>6, <1>7 DEF Promise!Offer

\* A buffer read from the used ring is the one returned first.
LEMMA ReapMapped ==
  ASSUME IInv, Reap
  PROVE  Promise!Collect
<1>1. /\ lastUsed # usedIdx /\ lastUsed' = Inc(lastUsed)
      /\ free' = free \cup {usedRing[Slot(lastUsed)]}
      /\ UNCHANGED <<bound, availRing, n, read_ptr, availIdx, filling, rx_queue, usedRing, usedIdx>>
  BY DEF Reap, device
<1>2. usedRing \in [Slots -> Heads] /\ lastUsed \in Index /\ usedIdx \in Index
  BY DEF IInv, TypeOK
<1>3. Returned' = Between(usedRing, Inc(lastUsed), usedIdx)
  BY <1>1 DEF Returned, Between, Slot
<1>4. Returned # <<>> /\ Returned' = Tail(Returned) /\ free' = free \cup {Head(Returned)}
  BY <1>1, <1>2, <1>3, BetweenTail DEF Returned
<1>5. Offered' = Offered /\ Held' = Held
  BY <1>1, ViewsKept
<1> QED BY <1>4, <1>5 DEF Promise!Collect

\* A notify begins and ends without touching a buffer.
LEMMA NotifyMapped ==
  ASSUME IInv, Notify \/ NotifyEnd
  PROVE  UNCHANGED Promise!fifoVars
<1>1. read_ptr \in Index
  BY DEF IInv, TypeOK
<1>2. (IF n' = Idle THEN read_ptr' ELSE n') = IF n = Idle THEN read_ptr ELSE n
  BY <1>1, NotIdle DEF Notify, NotifyEnd, GuestRuns, LoopHead
<1>3. UNCHANGED <<bound, availRing, availIdx, free>>
  BY DEF Notify, NotifyEnd, driver
<1>4. Offered' = Offered
  BY <1>2, <1>3 DEF Offered, Between, Slot
<1>5. UNCHANGED <<filling, rx_queue, usedRing, lastUsed, usedIdx>>
  BY DEF Notify, NotifyEnd, driver
<1> QED BY <1>3, <1>4, <1>5, ViewsKept DEF Promise!fifoVars

\* The loop takes the oldest buffer on offer, and the device has it after
\* those it kept.
LEMMA TakeChainMapped ==
  ASSUME IInv, TakeChain
  PROVE  Promise!Take
<1>1. /\ n # Idle /\ n # availIdx /\ n' = Inc(n) /\ (immediate => filling = None)
      /\ ProcessCommand(availRing[Slot(n)])
      /\ UNCHANGED <<bound, availRing, availIdx, free, usedRing, usedIdx, lastUsed>>
  BY DEF TakeChain, LoopHead, driver
<1>2. /\ availRing \in [Slots -> Heads] /\ n \in Index /\ availIdx \in Index /\ bound
      /\ rx_queue \in Seq(Heads)
  BY <1>1 DEF IInv, TypeOK, FreshUntilBound
<1>3. n' \in Index /\ n' # Idle
  BY <1>1, <1>2, IncFacts, NotIdle
<1>4. Offered = Between(availRing, n, availIdx)
  BY <1>1, <1>2 DEF Offered
<1>5. Offered' = Between(availRing, Inc(n), availIdx)
  BY <1>1, <1>2, <1>3 DEF Offered, Between, Slot
<1>6. /\ Offered # <<>> /\ Offered' = Tail(Offered) /\ Head(Offered) = availRing[Slot(n)]
  BY <1>1, <1>2, <1>4, <1>5, BetweenTail
<1> DEFINE h == availRing[Slot(n)]
<1>7. h \in Heads
  <2>1. Slot(n) \in Slots
    BY <1>2, DivMod, Constants DEF Slot, Slots, Index
  <2> QED BY <1>2, <2>1
<1> HIDE DEF h
<1>8. Held' = Append(Held, h)
  <2>1. CASE immediate
    <3>1. filling = None /\ rx_queue = <<>> /\ filling' = h /\ rx_queue' = <<>>
      BY <1>1, <2>1 DEF ProcessCommand, CompleteAtOnce, IInv, KeepsOrCompletes, h
    <3>2. Held = <<>> /\ Held' = <<h>>
      BY <1>7, <3>1, NotIdle DEF Held, InHand
    <3> QED BY <3>2
  <2>2. CASE ~immediate
    <3>1. filling' = filling /\ rx_queue' = Append(rx_queue, h)
      BY <1>1, <2>2 DEF ProcessCommand, Keep, h
    <3>2. InHand \in Seq(Heads) /\ InHand' = InHand
      BY <3>1 DEF InHand, IInv, TypeOK
    <3>3. InHand \o Append(rx_queue, h) = Append(InHand \o rx_queue, h)
      BY <1>2, <1>7, <3>2
    <3> QED BY <3>1, <3>2, <3>3 DEF Held
  <2> QED BY <2>1, <2>2
<1>9. Returned' = Returned
  BY <1>1, ViewsKept
<1> QED BY <1>1, <1>6, <1>8, <1>9 DEF Promise!Take, h

\* A packet goes to the chain the device has kept longest.
LEMMA ReceiveMapped ==
  ASSUME IInv, Receive
  PROVE  UNCHANGED Promise!fifoVars
<1>1. /\ filling = None /\ rx_queue # <<>>
      /\ filling' = Head(rx_queue) /\ rx_queue' = Tail(rx_queue)
      /\ UNCHANGED <<bound, availRing, n, read_ptr, availIdx, free, usedRing, usedIdx, lastUsed>>
  BY DEF Receive, driver
<1>2. rx_queue \in Seq(Heads)
  BY DEF IInv, TypeOK
<1>3. Head(rx_queue) \in Heads /\ rx_queue = <<Head(rx_queue)>> \o Tail(rx_queue)
  BY <1>1, <1>2
<1>4. Held = rx_queue
  BY <1>1, <1>2 DEF Held, InHand
<1>5. Held' = <<Head(rx_queue)>> \o Tail(rx_queue)
  BY <1>1, <1>3, NotIdle DEF Held, InHand
<1> QED BY <1>1, <1>3, <1>4, <1>5, ViewsKept DEF Promise!fifoVars

\* The element is stored where the driver does not look yet: not all buffers
\* are in the used ring, for this one is not.
LEMMA StoreElementMapped ==
  ASSUME IInv, StoreElement
  PROVE  UNCHANGED Promise!fifoVars
<1>1. /\ filling # None /\ usedRing' = [usedRing EXCEPT ![Slot(write_ptr)] = filling]
      /\ UNCHANGED <<bound, availRing, n, read_ptr, availIdx, free, rx_queue, filling, usedIdx, lastUsed>>
  BY DEF StoreElement, driver
<1>2. /\ usedRing \in [Slots -> Heads] /\ lastUsed \in Index /\ usedIdx \in Index
      /\ usedIdx = write_ptr /\ filling \in Heads /\ rx_queue \in Seq(Heads)
  BY <1>1 DEF IInv, TypeOK, UsedFollows
<1>3. Apart(free, Offered, Held, Returned)
  BY OwnersApart
<1>4. filling \in ToSet(Held)
  <2>1. Held = <<filling>> \o rx_queue
    BY <1>1 DEF Held, InHand
  <2>2. Held # <<>> /\ Head(Held) = filling
    BY <1>2, <2>1
  <2> QED BY <1>3, <2>2, TailApart DEF Apart
<1>5. Gap(lastUsed, usedIdx) < QueueNum
  <2>1. filling \notin ToSet(Returned)
    BY <1>3, <1>4 DEF Apart
  <2>2. Len(Returned) < QueueNum
    BY <1>2, <1>3, <2>1, RoomLeft DEF Apart
  <2> QED BY <1>2, <2>2, BetweenFacts DEF Returned
<1>6. Returned' = Returned
  <2>1. Returned' = Between(usedRing', lastUsed, usedIdx)
    BY <1>1 DEF Returned, Between, Slot
  <2> QED BY <1>1, <1>2, <1>5, <2>1, BetweenAppend DEF Returned
<1> QED BY <1>1, <1>6, ViewsKept DEF Promise!fifoVars

\* Publishing the index is what gives the buffer back.
LEMMA PublishMapped ==
  ASSUME IInv, Publish
  PROVE  Promise!GiveBack
<1>1. /\ stored /\ usedIdx' = Inc(write_ptr) /\ filling' = None
      /\ UNCHANGED <<bound, availRing, n, read_ptr, availIdx, free, usedRing, lastUsed, rx_queue>>
  BY DEF Publish, driver
<1>2. /\ usedRing \in [Slots -> Heads] /\ lastUsed \in Index /\ usedIdx \in Index
      /\ usedIdx = write_ptr /\ filling \in Heads /\ filling # None
      /\ usedRing[Slot(write_ptr)] = filling /\ rx_queue \in Seq(Heads)
  BY <1>1 DEF IInv, TypeOK, UsedFollows
<1>3. Apart(free, Offered, Held, Returned)
  BY OwnersApart
<1>4. /\ Held # <<>> /\ Head(Held) = filling /\ Held' = Tail(Held)
  <2>1. Held = <<filling>> \o rx_queue /\ Held' = <<>> \o rx_queue
    BY <1>1, <1>2 DEF Held, InHand
  <2> QED BY <1>2, <2>1
<1>5. Gap(lastUsed, usedIdx) < QueueNum
  <2>1. filling \notin ToSet(Returned)
    BY <1>3, <1>4, TailApart DEF Apart
  <2>2. Len(Returned) < QueueNum
    BY <1>2, <1>3, <2>1, RoomLeft DEF Apart
  <2> QED BY <1>2, <2>2, BetweenFacts DEF Returned
<1>6. Returned' = Append(Returned, filling)
  <2>1. Returned' = Between(usedRing, lastUsed, Inc(usedIdx))
    BY <1>1, <1>2 DEF Returned, Between, Slot
  <2>2. usedRing = [usedRing EXCEPT ![Slot(usedIdx)] = filling]
    BY <1>2
  <2>3. Between([usedRing EXCEPT ![Slot(usedIdx)] = filling], lastUsed, Inc(usedIdx))
          = Append(Between(usedRing, lastUsed, usedIdx), filling)
    BY <1>2, <1>5, BetweenAppend, ZenonT(40)
  <2> QED BY <2>1, <2>2, <2>3 DEF Returned
<1> QED BY <1>1, <1>4, <1>6, ViewsKept DEF Promise!GiveBack

\* Every step of the rings is a step of the abstract queue or none.
LEMMA NextMapped ==
  ASSUME IInv, [Next]_vars
  PROVE  [Promise!FifoNext]_(Promise!fifoVars)
<1>1. CASE Reset
  BY <1>1, ResetMapped
<1>2. ASSUME NEW h \in Heads, Post(h) PROVE Promise!FifoNext
  BY <1>2, PostMapped DEF Promise!FifoNext
<1>3. CASE Reap
  BY <1>3, ReapMapped DEF Promise!FifoNext
<1>4. CASE Notify \/ NotifyEnd
  BY <1>4, NotifyMapped
<1>5. CASE TakeChain
  BY <1>5, TakeChainMapped DEF Promise!FifoNext
<1>6. CASE Receive
  BY <1>6, ReceiveMapped
<1>7. CASE StoreElement
  BY <1>7, StoreElementMapped
<1>8. CASE Publish
  BY <1>8, PublishMapped DEF Promise!FifoNext
<1>9. CASE UNCHANGED vars
  BY <1>9, ViewsKept DEF vars, driver, device, Promise!fifoVars
<1> QED BY <1>1, <1>2, <1>3, <1>4, <1>5, <1>6, <1>7, <1>8, <1>9 DEF Next

-----------------------------------------------------------------------------
(* The inductive invariant.                                                *)

\* The owners stay apart, whatever step of the abstract queue it is.
LEMMA OwnersStep ==
  ASSUME IInv, [Next]_vars
  PROVE  OneOwner'
<1>1. Apart(free, Offered, Held, Returned)
  BY OwnersApart
<1>2. [Promise!FifoNext]_(Promise!fifoVars)
  BY NextMapped
<1>3. Apart(free', Offered', Held', Returned')
  <2>1. ASSUME NEW h \in Heads, Promise!Offer(h) PROVE Apart(free', Offered', Held', Returned')
    BY <1>1, <2>1, ApartOffer DEF Promise!Offer
  <2>2. CASE Promise!Take
    BY <1>1, <2>2, ApartTake DEF Promise!Take
  <2>3. CASE Promise!GiveBack
    BY <1>1, <2>3, ApartGiveBack DEF Promise!GiveBack
  <2>4. CASE Promise!Collect
    BY <1>1, <2>4, ApartCollect DEF Promise!Collect
  <2>5. CASE UNCHANGED Promise!fifoVars
    BY <1>1, <2>5 DEF Promise!fifoVars
  <2> QED BY <1>2, <2>1, <2>2, <2>3, <2>4, <2>5 DEF Promise!FifoNext
<1>4. Offered' \in Seq(Heads) /\ Held' \in Seq(Heads) /\ Returned' \in Seq(Heads)
  BY <1>3 DEF Apart
<1> QED BY <1>3, <1>4, ApartIsOneOwner DEF OneOwner

\* The variables keep their types.
LEMMA TypeStep ==
  ASSUME IInv, [Next]_vars
  PROVE  TypeOK'
<1> USE DEF IInv, TypeOK
<1>1. 0 \in Index /\ \A i \in Index : Inc(i) \in Index
  BY IncFacts, NotIdle
<1>2. CASE Reset
  BY <1>1, <1>2 DEF Reset
<1>3. ASSUME NEW h \in Heads, Post(h) PROVE TypeOK'
  BY <1>1, <1>3 DEF Post, device
<1>4. CASE Reap
  <2>1. Slot(lastUsed) \in Slots
    BY DivMod, Constants DEF Slot, Slots, Index
  <2> QED BY <1>1, <1>4, <2>1 DEF Reap, device
<1>5. CASE Notify
  BY <1>5 DEF Notify, driver
<1>6. CASE NotifyEnd
  BY <1>6 DEF NotifyEnd, LoopHead, driver
<1>7. CASE TakeChain
  <2>1. n \in Index
    BY <1>7 DEF TakeChain, LoopHead
  <2>2. Slot(n) \in Slots
    BY <2>1, DivMod, Constants DEF Slot, Slots, Index
  <2>3. rx_queue' \in Seq(Heads) /\ filling' \in Heads \cup {None}
    BY <1>7, <2>2 DEF TakeChain, ProcessCommand, CompleteAtOnce, Keep
  <2> QED BY <1>1, <1>7, <2>1, <2>3 DEF TakeChain, driver
<1>8. CASE Receive
  <2>1. rx_queue # <<>> /\ filling' = Head(rx_queue) /\ rx_queue' = Tail(rx_queue)
    BY <1>8 DEF Receive
  <2>2. filling' \in Heads /\ rx_queue' \in Seq(Heads)
    BY <2>1
  <2> QED BY <1>8, <2>2 DEF Receive, driver
<1>9. CASE StoreElement
  BY <1>9 DEF StoreElement, driver
<1>10. CASE Publish
  BY <1>1, <1>10 DEF Publish, driver
<1>11. CASE UNCHANGED vars
  BY <1>11 DEF vars, driver, device
<1> QED BY <1>2, <1>3, <1>4, <1>5, <1>6, <1>7, <1>8, <1>9, <1>10, <1>11 DEF Next

\* Nothing happens to the rings before the driver is bound.
LEMMA FreshStep ==
  ASSUME IInv, [Next]_vars
  PROVE  FreshUntilBound'
<1> USE DEF FreshUntilBound
<1>1. FreshUntilBound
  BY DEF IInv
<1>2. CASE Reset
  BY <1>2 DEF Reset
<1>3. ASSUME NEW h \in Heads, Post(h) PROVE FreshUntilBound'
  BY <1>3 DEF Post
<1>4. CASE Reap \/ Notify
  BY <1>4 DEF Reap, Notify, driver
<1>5. CASE TakeChain \/ NotifyEnd
  BY <1>1, <1>5 DEF TakeChain, NotifyEnd, LoopHead, driver
<1>6. CASE Receive
  BY <1>1, <1>6 DEF Receive, driver
<1>7. CASE StoreElement
  BY <1>1, <1>7 DEF StoreElement, driver
<1>8. CASE Publish
  BY <1>1, <1>8 DEF Publish, driver, IInv, UsedFollows
<1>9. CASE UNCHANGED vars
  BY <1>1, <1>9 DEF vars, driver, device
<1> QED BY <1>2, <1>3, <1>4, <1>5, <1>6, <1>7, <1>8, <1>9 DEF Next

\* The index the driver sees is the device's own, and the chain to be
\* published is in the slot it points at.
LEMMA UsedStep ==
  ASSUME IInv, [Next]_vars
  PROVE  UsedFollows'
<1> USE DEF UsedFollows, Slot
<1>1. UsedFollows /\ TypeOK
  BY DEF IInv
<1>2. CASE Reset
  BY <1>1, <1>2 DEF Reset, IInv, FreshUntilBound
<1>3. ASSUME NEW h \in Heads, Post(h) PROVE UsedFollows'
  BY <1>1, <1>3 DEF Post, device
<1>4. CASE Reap
  BY <1>1, <1>4 DEF Reap, device
<1>5. CASE Notify \/ NotifyEnd
  BY <1>1, <1>5 DEF Notify, NotifyEnd
<1>6. CASE TakeChain
  <2>1. immediate => ~stored
    BY <1>1, <1>6 DEF TakeChain, LoopHead
  <2>2. UNCHANGED <<usedRing, usedIdx, write_ptr, stored>>
    BY <1>6 DEF TakeChain
  <2>3. ~immediate => filling' = filling
    BY <1>6 DEF TakeChain, ProcessCommand, Keep
  <2> QED BY <1>1, <2>1, <2>2, <2>3
<1>7. CASE Receive
  BY <1>1, <1>7 DEF Receive
<1>8. CASE StoreElement
  <2>1. usedRing' = [usedRing EXCEPT ![Slot(write_ptr)] = filling] /\ filling # None
        /\ UNCHANGED <<usedIdx, write_ptr, filling>>
    BY <1>8 DEF StoreElement
  <2>2. Slot(write_ptr) \in Slots /\ usedRing \in [Slots -> Heads]
    BY <1>1, DivMod, Constants DEF Slots, Index, TypeOK
  <2> QED BY <1>1, <2>1, <2>2
<1>9. CASE Publish
  BY <1>9 DEF Publish
<1>10. CASE UNCHANGED vars
  BY <1>1, <1>10 DEF vars, driver, device
<1> QED BY <1>2, <1>3, <1>4, <1>5, <1>6, <1>7, <1>8, <1>9, <1>10 DEF Next

\* A device that completes at once keeps nothing.
LEMMA KeepsStep ==
  ASSUME IInv, [Next]_vars
  PROVE  KeepsOrCompletes'
<1> USE DEF KeepsOrCompletes
<1>1. KeepsOrCompletes
  BY DEF IInv
<1>2. UNCHANGED immediate
  BY DEF Next, vars, Reset, Post, Reap, Notify, TakeChain, NotifyEnd, Receive, StoreElement, Publish
<1>3. CASE TakeChain
  BY <1>1, <1>2, <1>3 DEF TakeChain, ProcessCommand, CompleteAtOnce
<1>4. CASE Receive
  BY <1>2, <1>4 DEF Receive
<1>5. CASE ~TakeChain /\ ~Receive
  <2>1. UNCHANGED rx_queue
    BY <1>5 DEF Next, vars, device, Reset, Post, Reap, Notify, NotifyEnd, StoreElement, Publish
  <2> QED BY <1>1, <1>2, <2>1
<1> QED BY <1>3, <1>4, <1>5

\* Every buffer is the driver's at first.
LEMMA InitMapped ==
  ASSUME Init
  PROVE  IInv /\ Promise!FifoInit
<1>1. TypeOK
  <2>1. 0 \in Heads /\ 0 \in Index /\ <<>> \in Seq(Heads)
    BY Constants DEF Heads, Index
  <2> QED BY <2>1 DEF Init, TypeOK
<1>2. Offered = <<>> /\ Held = <<>> /\ Returned = <<>>
  <2>1. usedRing \in [Slots -> Heads] /\ lastUsed = 0 /\ usedIdx = 0 /\ 0 \in Index
    BY <1>1 DEF Init, TypeOK
  <2>2. Returned = <<>>
    BY <2>1, BetweenNothing DEF Returned
  <2> QED BY <2>2 DEF Init, Offered, Held, InHand
<1>3. OneOwner
  <2>1. ToSet(<<>>) = {} /\ IsInjective(<<>>) /\ <<>> \o <<>> = <<>> /\ <<>> \in Seq(Heads)
    BY DEF ToSet, IsInjective
  <2>2. free = Heads
    BY DEF Init
  <2> QED BY <1>2, <2>1, <2>2 DEF OneOwner
<1>4. FreshUntilBound /\ UsedFollows /\ KeepsOrCompletes
  BY DEF Init, FreshUntilBound, UsedFollows, KeepsOrCompletes
<1> QED BY <1>1, <1>2, <1>3, <1>4 DEF IInv, Init, Promise!FifoInit

\* The inductive invariant holds in every reachable state.
THEOREM SpecIInv == Spec => []IInv
<1>1. Init => IInv
  BY InitMapped
<1>2. IInv /\ [Next]_vars => IInv'
  BY TypeStep, OwnersStep, FreshStep, UsedStep, KeepsStep DEF IInv
<1> QED BY <1>1, <1>2, PTL DEF Spec

-----------------------------------------------------------------------------
(* What follows for the virtqueue.                                         *)

\* The indices stay in their width and the ring elements name descriptors.
THEOREM TypeCorrect == Spec => []TypeOK
<1>1. IInv => TypeOK
  BY DEF IInv
<1> QED BY <1>1, SpecIInv, PTL

\* No descriptor is ever in two hands and none is lost, whatever the size of
\* the rings and wherever their indices wrap (virtio_process_rings and
\* virtio_flag_completion).
THEOREM OwnerCorrect == Spec => []OneOwner
<1>1. IInv => OneOwner
  BY DEF IInv
<1> QED BY <1>1, SpecIInv, PTL

\* The rings, the loop of the notify and the reader thread implement the
\* queue that takes and gives back each buffer once and in order.
THEOREM FifoCorrect == Spec => QueueIsFifo
<1>1. Init => Promise!FifoInit
  BY InitMapped
<1>2. IInv /\ [Next]_vars => [Promise!FifoNext]_(Promise!fifoVars)
  BY NextMapped
<1> QED BY <1>1, <1>2, SpecIInv, PTL DEF Spec, QueueIsFifo, Promise!FifoSpec

-----------------------------------------------------------------------------
(* A packet in a chain: the functions ChainWrite defines by recursion.     *)

\* Every nonempty set of naturals has a smallest member.
LEMMA Smallest ==
  ASSUME NEW T, T \subseteq Nat, T # {}
  PROVE  \E m \in T : \A k \in T : m <= k
<1>1. PICK x \in T : \A y \in T : ~ (<<y, x>> \in OpToRel(<, Nat))
  BY NatLessThanWellFounded, WFMin, Zenon
<1>2. ASSUME NEW y \in T PROVE ~(y < x)
  <2>1. <<y, x>> \in Nat \X Nat /\ <<y, x>>[1] = y /\ <<y, x>>[2] = x
    OBVIOUS
  <2>2. y < x => <<y, x>> \in OpToRel(<, Nat)
    BY <2>1, Zenon DEF OpToRel
  <2> QED BY <1>1, <2>2, Zenon
<1> QED BY <1>2, SMT

\* The places where descriptors begin: the definition as an equation.
LEMMA BeginIs ==
  ASSUME NEW lens \in Seq(Nat)
  PROVE  Begin(lens) = [d \in 1 .. Len(lens) + 1 |->
                          IF d = 1 THEN 0 ELSE Begin(lens)[d - 1] + lens[d - 1]]
<1> DEFINE N == Len(lens) + 1
           Is(m, g) == g = [d \in 1 .. m |-> IF d = 1 THEN 0 ELSE g[d - 1] + lens[d - 1]]
           T == {m \in 1 .. N : ~\E g : Is(m, g)}
<1>1. Begin(lens) = CHOOSE g : Is(N, g)
  BY Zenon DEF Begin
<1>2. N \in Nat \ {0}
  OBVIOUS
<1> HIDE DEF N
<1>3. T = {}
  <2>1. SUFFICES ASSUME T # {} PROVE FALSE
    OBVIOUS
  <2>2. PICK m \in T : \A k \in T : m <= k
    <3>1. T \subseteq Nat
      BY <1>2
    <3> QED BY <2>1, <3>1, Smallest
  <2>3. m \in 1 .. N /\ ~\E g : Is(m, g)
    OBVIOUS
  <2>4. CASE m = 1
    <3> DEFINE g == [d \in 1 .. 1 |-> 0]
    <3>1. Is(1, g)
      OBVIOUS
    <3> QED BY <2>3, <2>4, <3>1, Zenon
  <2>5. CASE m # 1
    <3>0. m - 1 \in 1 .. N
      BY <2>3, <2>5, <1>2
    <3>1. m - 1 \notin T
      <4>1. m - 1 \in T => m <= m - 1
        BY <2>2, Zenon
      <4> QED BY <4>1, <3>0
    <3>2. PICK h : Is(m - 1, h)
      BY <3>0, <3>1
    <3> DEFINE g == [d \in 1 .. m |-> IF d = 1 THEN 0 ELSE h[d - 1] + lens[d - 1]]
    <3>3. ASSUME NEW d \in 1 .. m, d # 1 PROVE g[d - 1] = h[d - 1]
      <4> DEFINE e == d - 1
      <4>1. e \in 1 .. m - 1 /\ e \in 1 .. m
        BY <3>3, <2>3, <1>2
      <4> HIDE DEF e
      <4>2. h[e] = IF e = 1 THEN 0 ELSE h[e - 1] + lens[e - 1]
        BY <3>2, <4>1
      <4> QED BY <4>1, <4>2 DEF e
    <3>4. Is(m, g)
      BY <3>3
    <3> QED BY <2>3, <3>4
  <2> QED BY <2>4, <2>5
<1>4. \E g : Is(N, g)
  <2>1. N \in 1 .. N
    BY <1>2
  <2> QED BY <1>3, <2>1
<1> HIDE DEF Is
<1>5. Is(N, Begin(lens))
  BY <1>1, <1>4, Zenon
<1> QED BY <1>5 DEF Is, N

\* What the turns of the loop leave: the definition as an equation.
LEMMA TurnsIs ==
  ASSUME NEW c, NEW buf, Len(c.lens) \in Nat
  PROVE  Turns(c, buf) =
           [k \in 0 .. Len(c.lens) |->
              IF k = 0 THEN [chain |-> c, rest |-> buf]
              ELSE IF Turns(c, buf)[k - 1].rest = <<>> THEN Turns(c, buf)[k - 1]
              ELSE Turn(Turns(c, buf)[k - 1].chain, Turns(c, buf)[k - 1].rest)]
<1> DEFINE N == Len(c.lens)
           After(t) == IF t.rest = <<>> THEN t ELSE Turn(t.chain, t.rest)
           Begun == [chain |-> c, rest |-> buf]
           Is(m, g) == g = [k \in 0 .. m |-> IF k = 0 THEN Begun ELSE After(g[k - 1])]
           T == {m \in 0 .. N : ~\E g : Is(m, g)}
<1>1. Turns(c, buf) = CHOOSE g : Is(N, g)
  BY Zenon DEF Turns
<1> HIDE DEF N, After, Begun
<1>2. N \in Nat
  BY DEF N
<1>3. T = {}
  <2>1. SUFFICES ASSUME T # {} PROVE FALSE
    OBVIOUS
  <2>2. PICK m \in T : \A k \in T : m <= k
    <3>1. T \subseteq Nat
      BY <1>2
    <3> QED BY <2>1, <3>1, Smallest
  <2>3. m \in 0 .. N /\ ~\E g : Is(m, g)
    OBVIOUS
  <2>4. CASE m = 0
    <3> DEFINE g == [k \in 0 .. 0 |-> Begun]
    <3>1. Is(0, g)
      OBVIOUS
    <3> QED BY <2>3, <2>4, <3>1, Zenon
  <2>5. CASE m # 0
    <3>0. m - 1 \in 0 .. N
      BY <2>3, <2>5, <1>2
    <3>1. m - 1 \notin T
      <4>1. m - 1 \in T => m <= m - 1
        BY <2>2, Zenon
      <4> QED BY <4>1, <3>0
    <3>2. PICK h : Is(m - 1, h)
      BY <3>0, <3>1
    <3> DEFINE g == [k \in 0 .. m |-> IF k = 0 THEN Begun ELSE After(h[k - 1])]
    <3>3. ASSUME NEW k \in 0 .. m, k # 0 PROVE g[k - 1] = h[k - 1]
      <4> DEFINE e == k - 1
      <4>1. e \in 0 .. m - 1 /\ e \in 0 .. m
        BY <3>3, <2>3, <1>2
      <4> HIDE DEF e
      <4>2. h[e] = IF e = 0 THEN Begun ELSE After(h[e - 1])
        BY <3>2, <4>1
      <4> QED BY <4>1, <4>2 DEF e
    <3>4. Is(m, g)
      BY <3>3
    <3> QED BY <2>3, <3>4
  <2> QED BY <2>4, <2>5
<1>4. \E g : Is(N, g)
  <2>1. N \in 0 .. N
    BY <1>2
  <2> QED BY <1>3, <2>1
<1> HIDE DEF Is
<1>5. Is(N, Turns(c, buf))
  BY <1>1, <1>4, Zenon
<1> QED BY <1>5, Zenon DEF Is, N, After, Begun

\* The bytes of a header of zeros and the packet after it.
PacketByte(i) == IF i <= Header THEN 0 ELSE i - Header

\* A place in a chain: a descriptor and how many bytes of it are behind.
IsPlace(lens, s, q) ==
    /\ s \in 1 .. Len(lens) + 1 /\ q \in Nat
    /\ s <= Len(lens) => q <= lens[s]
    /\ s = Len(lens) + 1 => q = 0

\* A chain that holds the first bytes, up to a place.
Filled(lens, s, q) ==
    [d \in 1 .. Len(lens) |-> [b \in 1 .. lens[d] |->
        IF d < s \/ (d = s /\ b <= q) THEN PacketByte(Begin(lens)[d] + b) ELSE Stale]]
ChainUpTo(lens, s, q, room, count) ==
    [lens |-> lens, cells |-> Filled(lens, s, q), seek_chain |-> s, seek_bytes |-> q,
     writeable_bytes |-> room, bytes_written |-> count]

\* A buffer that goes on from a place.
GoesOn(lens, s, q, buf) ==
    /\ buf \in Seq(Int)
    /\ \A j \in 1 .. Len(buf) : buf[j] = PacketByte(Begin(lens)[s] + q + j)

\* A chain that holds some more bytes than one up to a place.
FilledBy(c, lens, s, q, bytes, room, count) ==
    \E u, r : /\ IsPlace(lens, u, r)
              /\ c = ChainUpTo(lens, u, r, room, count)
              /\ Begin(lens)[u] + r = Begin(lens)[s] + q + bytes

\* The first descriptor begins at 0, and the next one where one ends.
LEMMA BeginFacts ==
  ASSUME NEW lens \in Seq(Nat)
  PROVE  /\ Begin(lens)[1] = 0
         /\ \A d \in 1 .. Len(lens) : Begin(lens)[d + 1] = Begin(lens)[d] + lens[d]
         /\ \A d \in 1 .. Len(lens) + 1 : Begin(lens)[d] \in Nat
<1> DEFINE B == Begin(lens)
           N == Len(lens)
           T == {d \in 1 .. N + 1 : B[d] \notin Nat}
<1>0. N \in Nat /\ \A d \in 1 .. N : lens[d] \in Nat
  OBVIOUS
<1>1. B = [d \in 1 .. N + 1 |-> IF d = 1 THEN 0 ELSE B[d - 1] + lens[d - 1]]
  BY BeginIs
<1> HIDE DEF B, N
<1>2. B[1] = 0
  BY <1>0, <1>1
<1>3. ASSUME NEW d \in 1 .. N PROVE B[d + 1] = B[d] + lens[d]
  <2> DEFINE e == d + 1
  <2>1. e \in 1 .. N + 1 /\ e # 1 /\ e - 1 = d
    BY <1>0
  <2> HIDE DEF e
  <2>2. B[e] = B[e - 1] + lens[e - 1]
    BY <1>1, <2>1
  <2> QED BY <2>1, <2>2 DEF e
<1>4. T = {}
  <2>1. SUFFICES ASSUME T # {} PROVE FALSE
    OBVIOUS
  <2>2. PICK m \in T : \A k \in T : m <= k
    <3>1. T \subseteq Nat
      BY <1>0
    <3> QED BY <2>1, <3>1, Smallest
  <2>3. m \in 1 .. N + 1 /\ B[m] \notin Nat
    OBVIOUS
  <2>4. m # 1
    BY <2>3, <1>2
  <2>5. m - 1 \in 1 .. N /\ m - 1 \in 1 .. N + 1 /\ (m - 1) + 1 = m
    BY <2>3, <2>4, <1>0
  <2>6. m - 1 \notin T
    <3>1. m - 1 \in T => m <= m - 1
      BY <2>2, Zenon
    <3> QED BY <3>1, <2>3
  <2>7. B[m - 1] \in Nat
    BY <2>5, <2>6
  <2>8. B[m] = B[m - 1] + lens[m - 1] /\ lens[m - 1] \in Nat
    BY <1>0, <1>3, <2>5
  <2> QED BY <2>3, <2>7, <2>8
<1> QED BY <1>2, <1>3, <1>4 DEF B, N

\* Descriptors begin in their order.
LEMMA BeginMonotone ==
  ASSUME NEW lens \in Seq(Nat), NEW d \in 1 .. Len(lens) + 1, NEW e \in 1 .. Len(lens) + 1, d <= e
  PROVE  Begin(lens)[d] <= Begin(lens)[e]
<1> DEFINE B == Begin(lens)
           N == Len(lens)
           T == {x \in d .. N + 1 : ~(B[d] <= B[x])}
<1>0. N \in Nat /\ \A x \in 1 .. N : lens[x] \in Nat
  OBVIOUS
<1>1. (\A x \in 1 .. N : B[x + 1] = B[x] + lens[x]) /\ \A x \in 1 .. N + 1 : B[x] \in Nat
  BY BeginFacts
<1> HIDE DEF B, N
<1>2. d \in 1 .. N + 1 /\ e \in d .. N + 1
  BY <1>0 DEF N
<1>3. T = {}
  <2>1. SUFFICES ASSUME T # {} PROVE FALSE
    OBVIOUS
  <2>2. PICK m \in T : \A k \in T : m <= k
    <3>1. T \subseteq Nat
      BY <1>0, <1>2
    <3> QED BY <2>1, <3>1, Smallest
  <2>3. m \in d .. N + 1 /\ ~(B[d] <= B[m])
    OBVIOUS
  <2>4. m # d
    BY <2>3, <1>1, <1>2
  <2>5. m - 1 \in d .. N + 1 /\ m - 1 \in 1 .. N /\ (m - 1) + 1 = m
    BY <2>3, <2>4, <1>0, <1>2
  <2>6. m - 1 \notin T
    <3>1. m - 1 \in T => m <= m - 1
      BY <2>2, Zenon
    <3> QED BY <3>1, <2>3, <1>2
  <2>7. B[d] <= B[m - 1]
    BY <2>5, <2>6
  <2>8. B[m] = B[m - 1] + lens[m - 1] /\ lens[m - 1] \in Nat /\ B[m - 1] \in Nat /\ B[d] \in Nat
    BY <1>0, <1>1, <1>2, <2>5
  <2> QED BY <2>3, <2>7, <2>8
<1> QED BY <1>2, <1>3 DEF B

\* One turn of the loop fills the chain further, with the next bytes of the
\* packet, and ends the descriptor or the buffer.
LEMMA TurnFills ==
  ASSUME NEW lens \in Seq(Nat), NEW s, NEW q, NEW room, NEW count, NEW buf,
         IsPlace(lens, s, q), s <= Len(lens), GoesOn(lens, s, q, buf)
  PROVE  LET t == Turn(ChainUpTo(lens, s, q, room, count), buf)
         IN  \E u, r : /\ IsPlace(lens, u, r) /\ u >= s
                       /\ t.chain = ChainUpTo(lens, u, r, room, count)
                       /\ GoesOn(lens, u, r, t.rest)
                       /\ Begin(lens)[u] + r + Len(t.rest) = Begin(lens)[s] + q + Len(buf)
                       /\ t.rest = <<>> \/ u = s + 1
<1> DEFINE c == ChainUpTo(lens, s, q, room, count)
           remain == lens[s] - q
           len == IF Len(buf) < remain THEN Len(buf) ELSE remain
           Put(cell) == [b \in DOMAIN cell |-> IF b - q \in 1 .. len THEN buf[b - q] ELSE cell[b]]
           full == ChainUpTo(lens, s, q + len, room, count)
           rest == SubSeq(buf, len + 1, Len(buf))
           B == Begin(lens)
<1>1. /\ s \in 1 .. Len(lens) /\ lens[s] \in Nat /\ q \in Nat /\ q <= lens[s] /\ Len(lens) \in Nat
      /\ buf \in Seq(Int) /\ Len(buf) \in Nat
  BY DEF IsPlace, GoesOn
<1>2. /\ len \in Nat /\ len <= Len(buf) /\ q + len <= lens[s]
      /\ len = Len(buf) \/ q + len = lens[s]
  BY <1>1
<1>3. /\ B[s] \in Nat /\ B[s + 1] = B[s] + lens[s]
      /\ \A d \in 1 .. Len(lens) : B[d] \in Nat
  BY <1>1, BeginFacts
<1>4. \A j \in 1 .. Len(buf) : buf[j] = PacketByte(B[s] + q + j)
  BY DEF GoesOn
<1> HIDE DEF remain, len, B
<1>5. Put(c.cells[s]) = [b \in 1 .. lens[s] |-> IF b <= q + len THEN PacketByte(B[s] + b) ELSE Stale]
  <2>1. c.cells[s] = [b \in 1 .. lens[s] |-> IF b <= q THEN PacketByte(B[s] + b) ELSE Stale]
    BY <1>1 DEF ChainUpTo, Filled, B
  <2>2. ASSUME NEW b \in 1 .. lens[s], b - q \in 1 .. len
        PROVE  b <= q + len /\ buf[b - q] = PacketByte(B[s] + b)
    <3> DEFINE j == b - q
    <3>1. j \in 1 .. Len(buf) /\ B[s] + q + j = B[s] + b /\ b <= q + len
      BY <1>1, <1>2, <1>3, <2>2
    <3> HIDE DEF j
    <3>2. buf[j] = PacketByte(B[s] + q + j)
      BY <3>1, <1>4
    <3> QED BY <3>1, <3>2 DEF j
  <2>3. ASSUME NEW b \in 1 .. lens[s], b - q \notin 1 .. len
        PROVE  b <= q + len <=> b <= q
    BY <1>1, <1>2, <2>3
  <2> HIDE DEF c
  <2> QED BY <2>1, <2>2, <2>3
<1>6. [c EXCEPT !.cells[s] = Put(@), !.seek_bytes = @ + len] = full
  <2>1. [c.cells EXCEPT ![s] = Put(@)] = Filled(lens, s, q + len)
    <3>1. c.cells = Filled(lens, s, q)
      BY DEF ChainUpTo
    <3> DEFINE p == Put(c.cells[s])
               f == Filled(lens, s, q)
               g == Filled(lens, s, q + len)
    <3>2. f = [d \in 1 .. Len(lens) |-> f[d]] /\ g = [d \in 1 .. Len(lens) |-> g[d]]
      BY DEF Filled
    <3>3. g[s] = p
      <4>1. g[s] = [b \in 1 .. lens[s] |-> IF s < s \/ (s = s /\ b <= q + len)
                                          THEN PacketByte(B[s] + b) ELSE Stale]
        BY <1>1, Zenon DEF Filled, B
      <4> HIDE DEF g
      <4>2. p = [b \in 1 .. lens[s] |-> IF b <= q + len THEN PacketByte(B[s] + b) ELSE Stale]
        BY <1>5, Zenon
      <4> HIDE DEF p
      <4> QED BY <1>1, <4>1, <4>2, SMT
    <3>4. ASSUME NEW d \in 1 .. Len(lens), d # s PROVE g[d] = f[d]
      BY <3>4 DEF Filled
    <3> HIDE DEF p, f, g
    <3>5. [f EXCEPT ![s] = p] = g
      BY <1>1, <3>2, <3>3, <3>4
    <3> QED BY <3>1, <3>5 DEF p, f, g
  <2>2. c = [lens |-> lens, cells |-> Filled(lens, s, q), seek_chain |-> s, seek_bytes |-> q,
             writeable_bytes |-> room, bytes_written |-> count]
    BY DEF ChainUpTo
  <2>3. [c EXCEPT !.cells[s] = Put(@), !.seek_bytes = @ + len]
          = [lens |-> lens, cells |-> [c.cells EXCEPT ![s] = Put(@)], seek_chain |-> s,
             seek_bytes |-> q + len, writeable_bytes |-> room, bytes_written |-> count]
    <3> HIDE DEF c
    <3> DEFINE new == [c.cells EXCEPT ![s] = Put(@)]
    <3>1. c.cells = Filled(lens, s, q)
      BY <2>2
    <3> DEFINE d == [c EXCEPT !.cells = new]
    <3>2. [c EXCEPT !.cells[s] = Put(@), !.seek_bytes = @ + len] = [d EXCEPT !.seek_bytes = q + len]
      <4>1. c.seek_bytes = q
        BY <2>2
      <4> QED BY <4>1, Zenon
    <3> HIDE DEF new
    <3>3. d = [lens |-> lens, cells |-> new, seek_chain |-> s, seek_bytes |-> q,
               writeable_bytes |-> room, bytes_written |-> count]
      BY <2>2
    <3> HIDE DEF d
    <3>4. [d EXCEPT !.seek_bytes = q + len]
            = [lens |-> lens, cells |-> new, seek_chain |-> s,
               seek_bytes |-> q + len, writeable_bytes |-> room, bytes_written |-> count]
      BY <3>3
    <3> QED BY <3>2, <3>4, Zenon DEF new
  <2> QED BY <2>1, <2>3, Zenon DEF ChainUpTo
<1>7. /\ rest \in Seq(Int) /\ Len(rest) = Len(buf) - len
      /\ \A j \in 1 .. Len(rest) : rest[j] = buf[len + j]
  <2>1. rest \in Seq(Int) /\ Len(rest) = Len(buf) - len
    BY <1>1, <1>2
  <2>2. ASSUME NEW j \in 1 .. Len(rest) PROVE rest[j] = buf[len + j]
    <3>1. j \in 1 .. Len(buf) - len /\ j + (len + 1) - 1 = len + j
      BY <1>2, <2>1
    <3> QED BY <1>1, <1>2, <2>1, <3>1
  <2> QED BY <2>1, <2>2
<1>8. Turn(c, buf) = [chain |-> NextDescriptor(full), rest |-> rest]
  <2>1. c.lens[c.seek_chain] - c.seek_bytes = remain /\ c.seek_bytes = q /\ c.seek_chain = s
    BY DEF ChainUpTo, remain
  <2> HIDE DEF c, full, rest
  <2> QED BY <1>6, <2>1, Zenon DEF Turn, len, rest
<1> HIDE DEF c, rest
<1>9. CASE q + len = lens[s]
  <2>1. NextDescriptor(full) = ChainUpTo(lens, s + 1, 0, room, count)
    <3>1. Filled(lens, s, q + len) = Filled(lens, s + 1, 0)
      BY <1>1, <1>2, <1>9 DEF Filled
    <3> QED BY <3>1, <1>9 DEF NextDescriptor, ChainUpTo
  <2>2. IsPlace(lens, s + 1, 0)
    BY <1>1 DEF IsPlace
  <2>3. GoesOn(lens, s + 1, 0, rest)
    <3>1. ASSUME NEW j \in 1 .. Len(rest) PROVE rest[j] = PacketByte(B[s + 1] + 0 + j)
      <4>1. len + j \in 1 .. Len(buf) /\ B[s] + q + (len + j) = B[s + 1] + 0 + j
        <5>1. B[s + 1] = B[s] + (q + len)
          BY <1>3, <1>9
        <5>2. j \in 1 .. Len(buf) - len
          BY <1>7
        <5>3. B[s] \in Nat
          BY <1>3
        <5> HIDE DEF len, B
        <5> QED BY <1>1, <1>2, <5>1, <5>2, <5>3, SMTT(40)
      <4> QED BY <1>4, <1>7, <4>1
    <3> QED BY <1>7, <3>1 DEF GoesOn, B
  <2>4. B[s + 1] + 0 + Len(rest) = B[s] + q + Len(buf)
    <3>1. B[s + 1] = B[s] + (q + len)
      BY <1>3, <1>9
    <3>2. B[s] \in Nat
      BY <1>3
    <3> HIDE DEF len, B
    <3> QED BY <1>1, <1>2, <1>7, <3>1, <3>2
  <2>5. s + 1 >= s
    BY <1>1
  <2> HIDE DEF full
  <2>6. Turn(c, buf).chain = ChainUpTo(lens, s + 1, 0, room, count) /\ Turn(c, buf).rest = rest
    BY <1>8, <2>1
  <2> QED BY <2>2, <2>3, <2>4, <2>5, <2>6 DEF B, c
<1>10. CASE q + len # lens[s]
  <2>1. NextDescriptor(full) = full
    BY <1>10 DEF NextDescriptor, ChainUpTo
  <2>2. IsPlace(lens, s, q + len)
    BY <1>1, <1>2 DEF IsPlace
  <2>3. len = Len(buf) /\ rest = <<>>
    BY <1>1, <1>2, <1>7, <1>10
  <2>4. GoesOn(lens, s, q + len, rest)
    BY <1>7, <2>3 DEF GoesOn
  <2>5. B[s] + (q + len) + Len(rest) = B[s] + q + Len(buf)
    BY <1>1, <1>2, <1>3, <1>7
  <2>6. s >= s
    BY <1>1
  <2>7. Turn(c, buf).chain = ChainUpTo(lens, s, q + len, room, count) /\ Turn(c, buf).rest = rest
    BY <1>8, <2>1
  <2> QED BY <2>2, <2>3, <2>4, <2>5, <2>6, <2>7 DEF B, c
<1> QED BY <1>9, <1>10

\* The loop comes to the end of the buffer, if the chain has room for it.
LEMMA TurnsFill ==
  ASSUME NEW lens \in Seq(Nat), NEW s, NEW q, NEW room, NEW count, NEW buf,
         IsPlace(lens, s, q), GoesOn(lens, s, q, buf),
         Begin(lens)[s] + q + Len(buf) <= Begin(lens)[Len(lens) + 1]
  PROVE  FilledBy(Turns(ChainUpTo(lens, s, q, room, count), buf)[Len(lens)].chain,
                  lens, s, q, Len(buf), room, count)
<1> DEFINE c == ChainUpTo(lens, s, q, room, count)
           N == Len(lens)
           B == Begin(lens)
           end == B[s] + q + Len(buf)
           after == Turns(c, buf)
           Holds(k) == \E u, r : /\ IsPlace(lens, u, r)
                                 /\ after[k].chain = ChainUpTo(lens, u, r, room, count)
                                 /\ GoesOn(lens, u, r, after[k].rest)
                                 /\ B[u] + r + Len(after[k].rest) = end
                                 /\ after[k].rest = <<>> \/ u >= k + 1
           T == {k \in 0 .. N : ~Holds(k)}
<1>1. N \in Nat /\ s \in 1 .. N + 1 /\ q \in Nat /\ Len(buf) \in Nat
      /\ \A d \in 1 .. N + 1 : B[d] \in Nat
  BY BeginFacts DEF IsPlace, GoesOn
<1>2. end \in Nat /\ end <= B[N + 1]
  BY <1>1
<1>3. after = [k \in 0 .. N |->
                 IF k = 0 THEN [chain |-> c, rest |-> buf]
                 ELSE IF after[k - 1].rest = <<>> THEN after[k - 1]
                 ELSE Turn(after[k - 1].chain, after[k - 1].rest)]
  <2>1. c.lens = lens
    BY DEF ChainUpTo
  <2> HIDE DEF c
  <2>2. Len(c.lens) = Len(lens) /\ Len(c.lens) \in Nat
    BY <2>1
  <2> DEFINE M == Len(c.lens)
  <2>3. after = [k \in 0 .. M |->
                   IF k = 0 THEN [chain |-> c, rest |-> buf]
                   ELSE IF after[k - 1].rest = <<>> THEN after[k - 1]
                   ELSE Turn(after[k - 1].chain, after[k - 1].rest)]
    BY <2>2, TurnsIs
  <2>4. M = N
    BY <2>1
  <2> HIDE DEF M, N, after
  <2> QED BY <2>3, <2>4, Zenon
<1> HIDE DEF c, after
<1>4. Holds(0)
  <2>1. after[0] = [chain |-> c, rest |-> buf]
    BY <1>1, <1>3
  <2>2. after[0].chain = c /\ after[0].rest = buf
    BY <2>1
  <2>3. s >= 0 + 1
    BY <1>1
  <2> QED BY <2>2, <2>3, Zenon DEF c
<1> HIDE DEF N, B, end
<1>5. ASSUME NEW k \in 1 .. N, Holds(k - 1) PROVE Holds(k)
  <2> DEFINE before == after[k - 1]
  <2>1. PICK u, r : /\ IsPlace(lens, u, r)
                    /\ before.chain = ChainUpTo(lens, u, r, room, count)
                    /\ GoesOn(lens, u, r, before.rest)
                    /\ B[u] + r + Len(before.rest) = end
                    /\ before.rest = <<>> \/ u >= (k - 1) + 1
    BY <1>5
  <2>2. after[k] = IF before.rest = <<>> THEN before ELSE Turn(before.chain, before.rest)
    BY <1>1, <1>3
  <2> HIDE DEF before
  <2>3. CASE before.rest = <<>>
    <3>1. after[k] = before
      BY <2>2, <2>3
    <3> QED BY <2>1, <2>3, <3>1, Zenon
  <2>4. CASE before.rest # <<>>
    <3>1. after[k] = Turn(ChainUpTo(lens, u, r, room, count), before.rest)
      BY <2>1, <2>2, <2>4, Zenon
    <3>2. u <= Len(lens)
      <4>1. SUFFICES ASSUME u = N + 1 PROVE FALSE
        BY <2>1, <1>1 DEF IsPlace, N
      <4>2. r = 0 /\ before.rest \in Seq(Int)
        BY <2>1, <4>1 DEF IsPlace, GoesOn, N
      <4>3. B[N + 1] + Len(before.rest) <= B[N + 1] /\ Len(before.rest) \in Nat
        <5>1. B[N + 1] \in Nat
          BY <1>1
        <5> QED BY <1>2, <2>1, <4>1, <4>2, <5>1
      <4>4. Len(before.rest) = 0
        <5>1. B[N + 1] \in Nat
          BY <1>1
        <5> QED BY <4>3, <5>1
      <4> QED BY <2>4, <4>2, <4>4
    <3>3. PICK v, w : /\ IsPlace(lens, v, w) /\ v >= u
                      /\ after[k].chain = ChainUpTo(lens, v, w, room, count)
                      /\ GoesOn(lens, v, w, after[k].rest)
                      /\ B[v] + w + Len(after[k].rest) = B[u] + r + Len(before.rest)
                      /\ after[k].rest = <<>> \/ v = u + 1
      BY <2>1, <3>1, <3>2, TurnFills DEF B
    <3>4. after[k].rest = <<>> \/ v >= k + 1
      <4>1. u >= (k - 1) + 1 /\ u \in Nat /\ v \in Nat
        BY <2>1, <2>4, <3>3, <1>1 DEF IsPlace, N
      <4> QED BY <3>3, <4>1, <1>1
    <3>5. B[v] + w + Len(after[k].rest) = end
      BY <2>1, <3>3, Zenon
    <3> QED BY <3>3, <3>4, <3>5, Zenon
  <2> QED BY <2>3, <2>4
<1>6. T = {}
  <2>1. SUFFICES ASSUME T # {} PROVE FALSE
    OBVIOUS
  <2>2. PICK m \in T : \A k \in T : m <= k
    <3>1. T \subseteq Nat
      BY <1>1
    <3> QED BY <2>1, <3>1, Smallest, Zenon
  <2>3. m \in 0 .. N /\ ~Holds(m)
    BY <2>2, Zenon
  <2> HIDE DEF Holds
  <2>4. m # 0
    BY <2>3, <1>4, Zenon
  <2>5. m \in 1 .. N /\ m - 1 \in 0 .. N
    BY <2>3, <2>4, <1>1
  <2>6. m - 1 \notin T
    <3>1. m - 1 \in T => m <= m - 1
      BY <2>2, Zenon
    <3> QED BY <3>1, <2>3, <1>1
  <2>7. Holds(m - 1)
    BY <2>5, <2>6
  <2> QED BY <1>5, <2>3, <2>5, <2>7, Zenon
<1>7. Holds(N)
  <2>1. N \in 0 .. N
    BY <1>1
  <2> HIDE DEF Holds
  <2>2. \A k \in 0 .. N : ~Holds(k) => k \in T
    OBVIOUS
  <2> HIDE DEF T
  <2> QED BY <1>6, <2>1, <2>2
<1>8. PICK u, r : /\ IsPlace(lens, u, r)
                  /\ after[N].chain = ChainUpTo(lens, u, r, room, count)
                  /\ GoesOn(lens, u, r, after[N].rest)
                  /\ B[u] + r + Len(after[N].rest) = end
                  /\ after[N].rest = <<>> \/ u >= N + 1
  BY <1>7, Zenon
<1>9. B[u] \in Nat /\ r \in Nat /\ Len(after[N].rest) \in Nat /\ u \in Nat
  BY <1>1, <1>8 DEF IsPlace, GoesOn, N
<1>10. Len(after[N].rest) = 0
  <2>1. CASE after[N].rest = <<>>
    BY <2>1
  <2>2. CASE u >= N + 1
    <3>1. u = N + 1 /\ r = 0
      <4>1. IsPlace(lens, u, r)
        BY <1>8
      <4>2. u \in 1 .. N + 1 /\ (u = N + 1 => r = 0)
        BY <4>1, Zenon DEF IsPlace, N
      <4> QED BY <1>1, <2>2, <4>2
    <3> QED BY <1>2, <1>8, <1>9, <3>1
  <2> QED BY <1>8, <2>1, <2>2
<1>11. B[u] + r = end
  BY <1>8, <1>9, <1>10
<1> QED BY <1>8, <1>11, Zenon DEF FilledBy, N, B, end, after, c

\* What the two functions write: the bytes that come next.
LEMMA WriteFills ==
  ASSUME NEW lens \in Seq(Nat), NEW s, NEW q, NEW room, NEW count, NEW buf,
         IsPlace(lens, s, q), GoesOn(lens, s, q, buf),
         Begin(lens)[s] + q + Len(buf) <= Begin(lens)[Len(lens) + 1]
  PROVE  FilledBy(ChainWriteBytes(ChainUpTo(lens, s, q, room, count), buf),
                  lens, s, q, Len(buf), room - Len(buf), count + Len(buf))
<1> DEFINE c == ChainUpTo(lens, s, q, room, count)
           counted == ChainUpTo(lens, s, q, room - Len(buf), count + Len(buf))
<1>1. c = [lens |-> lens, cells |-> Filled(lens, s, q), seek_chain |-> s, seek_bytes |-> q,
           writeable_bytes |-> room, bytes_written |-> count]
  BY DEF ChainUpTo
<1>2. counted = [lens |-> lens, cells |-> Filled(lens, s, q), seek_chain |-> s, seek_bytes |-> q,
                 writeable_bytes |-> room - Len(buf), bytes_written |-> count + Len(buf)]
  BY DEF ChainUpTo
<1> HIDE DEF c, counted
<1> DEFINE d == [c EXCEPT !.bytes_written = count + Len(buf)]
<1>3. [c EXCEPT !.bytes_written = @ + Len(buf), !.writeable_bytes = @ - Len(buf)]
        = [d EXCEPT !.writeable_bytes = room - Len(buf)]
  <2>1. c.bytes_written = count /\ c.writeable_bytes = room
    BY <1>1
  <2> QED BY <2>1, Zenon
<1>4. d = [lens |-> lens, cells |-> Filled(lens, s, q), seek_chain |-> s, seek_bytes |-> q,
           writeable_bytes |-> room, bytes_written |-> count + Len(buf)]
  BY <1>1
<1> HIDE DEF d
<1>5. [d EXCEPT !.writeable_bytes = room - Len(buf)] = counted
  BY <1>2, <1>4
<1>6. c.lens = lens
  BY <1>1
<1>7. ChainWriteBytes(c, buf) = Turns(counted, buf)[Len(lens)].chain
  BY <1>3, <1>5, <1>6, Zenon DEF ChainWriteBytes, d
<1>8. FilledBy(Turns(counted, buf)[Len(lens)].chain, lens, s, q, Len(buf),
               room - Len(buf), count + Len(buf))
  BY TurnsFill, Zenon DEF counted
<1> QED BY <1>7, <1>8, Zenon DEF c

\* A chain before anything is written into it.
LEMMA FreshChain ==
  ASSUME NEW lens \in Seq(Nat)
  PROVE  ChainOf(lens) = ChainUpTo(lens, 1, 0, Begin(lens)[Len(lens) + 1], 0)
<1> DEFINE empty == [d \in DOMAIN lens |-> [b \in 1 .. lens[d] |-> Stale]]
<1>1. empty = Filled(lens, 1, 0)
  <2>1. ASSUME NEW d \in 1 .. Len(lens), NEW b \in 1 .. lens[d]
        PROVE  ~(d < 1 \/ (d = 1 /\ b <= 0))
    OBVIOUS
  <2>2. DOMAIN lens = 1 .. Len(lens)
    OBVIOUS
  <2> QED BY <2>1, <2>2 DEF Filled
<1> QED BY <1>1, Zenon DEF ChainOf, ChainUpTo

\* What a chain holds that the header and a packet were written into.
LEMMA HeaderThenPacket ==
  ASSUME NEW lens \in Seq(Nat), NEW size \in Nat,
         Header + size <= Begin(lens)[Len(lens) + 1]
  PROVE  LET c == ChainWriteBytes(ChainZero(ChainOf(lens), Header), Packet(size))
         IN  /\ c.lens = lens
             /\ c.bytes_written = Header + size
             /\ \A d \in 1 .. Len(lens) :
                  c.cells[d] = [b \in 1 .. lens[d] |->
                                  IF Begin(lens)[d] + b <= Header + size
                                  THEN PacketByte(Begin(lens)[d] + b) ELSE Stale]
<1> DEFINE N == Len(lens)
           B == Begin(lens)
           total == B[N + 1]
           zeros == [b \in 1 .. Header |-> 0]
           packet == Packet(size)
<1>1. /\ N \in Nat /\ total \in Nat /\ B[1] = 0
      /\ \A d \in 1 .. N : B[d] \in Nat /\ B[d + 1] \in Nat /\ B[d + 1] = B[d] + lens[d] /\ lens[d] \in Nat
  BY BeginFacts
<1>2. Header \in Nat
  BY QueueAssumption
<1>3. ChainOf(lens) = ChainUpTo(lens, 1, 0, total, 0) /\ IsPlace(lens, 1, 0)
  BY FreshChain DEF IsPlace
<1>4. zeros \in Seq(Int) /\ Len(zeros) = Header
  BY <1>2
<1>5. packet \in Seq(Int) /\ Len(packet) = size /\ \A b \in 1 .. size : packet[b] = b
  BY DEF Packet
<1> HIDE DEF total, packet
<1>6. GoesOn(lens, 1, 0, zeros)
  <2>1. ASSUME NEW j \in 1 .. Header PROVE zeros[j] = PacketByte(B[1] + 0 + j)
    BY <1>1, <1>2 DEF PacketByte
  <2> HIDE DEF zeros, B
  <2> QED BY <1>4, <2>1 DEF GoesOn, B
<1>7. PICK s, q : /\ IsPlace(lens, s, q)
                  /\ ChainWriteBytes(ChainUpTo(lens, 1, 0, total, 0), zeros)
                       = ChainUpTo(lens, s, q, total - Header, 0 + Header)
                  /\ B[s] + q = B[1] + 0 + Header
  <2>1. B[1] + 0 + Len(zeros) <= B[N + 1]
    BY <1>1, <1>2, <1>4 DEF total
  <2>2. FilledBy(ChainWriteBytes(ChainUpTo(lens, 1, 0, total, 0), zeros),
                 lens, 1, 0, Len(zeros), total - Len(zeros), 0 + Len(zeros))
    BY <1>3, <1>6, <2>1, WriteFills, Zenon
  <2> HIDE DEF zeros
  <2> QED BY <1>4, <2>2, Zenon DEF FilledBy
<1>8. GoesOn(lens, s, q, packet)
  <2>1. ASSUME NEW j \in 1 .. size PROVE packet[j] = PacketByte(B[s] + q + j)
    <3>1. B[s] + q + j = Header + j /\ packet[j] = j
      BY <1>1, <1>2, <1>5, <1>7
    <3>2. PacketByte(Header + j) = j
      BY <1>2 DEF PacketByte
    <3> QED BY <3>1, <3>2
  <2> QED BY <1>5, <2>1 DEF GoesOn
<1>9. PICK u, r : /\ IsPlace(lens, u, r)
                  /\ ChainWriteBytes(ChainUpTo(lens, s, q, total - Header, 0 + Header), packet)
                       = ChainUpTo(lens, u, r, total - Header - size, 0 + Header + size)
                  /\ B[u] + r = B[s] + q + size
  <2>1. B[s] + q + Len(packet) <= B[N + 1]
    BY <1>1, <1>2, <1>5, <1>7
  <2>2. FilledBy(ChainWriteBytes(ChainUpTo(lens, s, q, total - Header, 0 + Header), packet),
                 lens, s, q, Len(packet), total - Header - Len(packet), 0 + Header + Len(packet))
    BY <1>7, <1>8, <2>1, WriteFills, Zenon
  <2> QED BY <1>5, <2>2, Zenon DEF FilledBy
<1> DEFINE c == ChainWriteBytes(ChainZero(ChainOf(lens), Header), packet)
<1>10. c = ChainUpTo(lens, u, r, total - Header - size, 0 + Header + size)
  BY <1>3, <1>7, <1>9, Zenon DEF ChainZero
<1>11. /\ c.lens = lens /\ c.bytes_written = Header + size /\ c.cells = Filled(lens, u, r)
  <2> HIDE DEF c
  <2> QED BY <1>2, <1>10 DEF ChainUpTo
<1>12. B[u] + r = Header + size
  BY <1>1, <1>2, <1>7, <1>9
<1>13. u \in 1 .. N + 1 /\ r \in Nat /\ (u <= N => r <= lens[u]) /\ (u = N + 1 => r = 0)
  BY <1>9, Zenon DEF IsPlace
<1>14. ASSUME NEW d \in 1 .. N, NEW b \in 1 .. lens[d]
       PROVE  d < u \/ (d = u /\ b <= r) <=> B[d] + b <= Header + size
  <2>1. B[u] \in Nat /\ B[d] \in Nat /\ B[d + 1] = B[d] + lens[d] /\ lens[d] \in Nat
    BY <1>1, <1>13, BeginFacts
  <2>2. CASE d < u
    <3>1. B[d + 1] <= B[u]
      <4>1. d + 1 \in 1 .. N + 1 /\ d + 1 <= u
        BY <1>1, <1>13, <2>2
      <4> QED BY <1>13, <4>1, BeginMonotone
    <3> QED BY <1>12, <1>13, <2>1, <2>2, <3>1
  <2>3. CASE d = u
    BY <1>12, <1>13, <2>1, <2>3
  <2>4. CASE d > u
    <3>1. u <= N /\ B[u + 1] <= B[d] /\ B[u + 1] = B[u] + lens[u] /\ lens[u] \in Nat
      <4>1. u \in 1 .. N /\ u + 1 \in 1 .. N + 1 /\ u + 1 <= d /\ d \in 1 .. N + 1
        BY <1>1, <1>13, <2>4
      <4>2. B[u + 1] <= B[d]
        BY <4>1, BeginMonotone
      <4> QED BY <1>1, <4>1, <4>2
    <3> HIDE DEF B
    <3> QED BY <1>12, <1>13, <2>1, <2>4, <3>1, SMTT(40)
  <2> QED BY <1>1, <1>13, <2>2, <2>3, <2>4
<1>15. ASSUME NEW d \in 1 .. N
       PROVE  c.cells[d] = [b \in 1 .. lens[d] |->
                              IF B[d] + b <= Header + size THEN PacketByte(B[d] + b) ELSE Stale]
  <2>1. c.cells[d] = [b \in 1 .. lens[d] |->
                        IF d < u \/ (d = u /\ b <= r) THEN PacketByte(B[d] + b) ELSE Stale]
    <3> HIDE DEF c
    <3> QED BY <1>11 DEF Filled
  <2> HIDE DEF c
  <2> QED BY <1>14, <2>1
<1> HIDE DEF c
<1>16. c.lens = lens /\ c.bytes_written = Header + size
  BY <1>11
<1> QED BY <1>15, <1>16, Zenon DEF c, packet

\* The chain being completed stays the one the packet was written into.
LEMMA PacketStep == PacketInHand /\ [Next]_vars => PacketInHand'
<1> SUFFICES ASSUME PacketInHand, [Next]_vars PROVE PacketInHand'
  OBVIOUS
<1>1. CASE UNCHANGED <<chain, filling, immediate>>
  BY <1>1 DEF PacketInHand
<1>2. CASE Receive
  <2>1. immediate' = immediate
    BY <1>2 DEF Receive
  <2>2. PICK lens \in Layouts, size \in PacketSizes :
          /\ Header + size <= ChainOf(lens).writeable_bytes
          /\ chain' = ChainWriteBytes(ChainZero(ChainOf(lens), Header), Packet(size))
    BY <1>2, Zenon DEF Receive
  <2> QED BY <2>2, Zenon DEF PacketInHand
<1>3. CASE Publish
  BY <1>3, Zenon DEF Publish, PacketInHand
<1>4. CASE TakeChain
  <2>1. CASE immediate
    BY <1>4, <2>1, Zenon DEF TakeChain, PacketInHand
  <2>2. CASE ~immediate
    <3>1. UNCHANGED <<chain, filling, immediate>>
      BY <1>4, <2>2, Zenon DEF TakeChain, ProcessCommand, Keep
    <3> QED BY <1>1, <3>1
  <2> QED BY <2>1, <2>2
<1>5. CASE Reset \/ (\E h \in Heads : Post(h)) \/ Reap \/ Notify \/ NotifyEnd \/ StoreElement
           \/ UNCHANGED vars
  <2>1. UNCHANGED <<chain, filling, immediate>>
    BY <1>5 DEF Reset, Post, Reap, Notify, NotifyEnd, StoreElement, vars, driver, device
  <2> QED BY <1>1, <2>1
<1> QED BY <1>2, <1>3, <1>4, <1>5, Zenon DEF Next

\* A packet comes to the guest whole, for every layout of the chain and every
\* size of the packet and of its header: zeros, its bytes in order, nothing
\* after them, and the length that is told (virtio_chain_zero and
\* virtio_chain_write).
THEOREM PacketCorrect == Spec => []PacketWhole
<1>1. Init => PacketInHand
  BY Zenon DEF Init, PacketInHand
<1>2. IInv /\ PacketInHand => PacketWhole
  <2> SUFFICES ASSUME IInv, PacketInHand, stored, ~immediate PROVE PacketWhole
    BY Zenon DEF PacketWhole
  <2>1. filling # None
    BY DEF IInv, UsedFollows
  <2>2. PICK lens \in Layouts, size \in PacketSizes :
          /\ Header + size <= ChainOf(lens).writeable_bytes
          /\ chain = ChainWriteBytes(ChainZero(ChainOf(lens), Header), Packet(size))
    BY <2>1, Zenon DEF PacketInHand
  <2>3. lens \in Seq(Nat) /\ size \in Nat /\ Header \in Nat
    BY QueueAssumption
  <2>4. ChainOf(lens).writeable_bytes = Begin(lens)[Len(lens) + 1]
    BY DEF ChainOf
  <2>5. /\ chain.lens = lens
        /\ chain.bytes_written = Header + size
        /\ \A d \in 1 .. Len(lens) :
             chain.cells[d] = [b \in 1 .. lens[d] |->
                                 IF Begin(lens)[d] + b <= Header + size
                                 THEN PacketByte(Begin(lens)[d] + b) ELSE Stale]
    <3> DEFINE c == ChainWriteBytes(ChainZero(ChainOf(lens), Header), Packet(size))
    <3>1. /\ c.lens = lens
          /\ c.bytes_written = Header + size
          /\ \A d \in 1 .. Len(lens) :
               c.cells[d] = [b \in 1 .. lens[d] |->
                               IF Begin(lens)[d] + b <= Header + size
                               THEN PacketByte(Begin(lens)[d] + b) ELSE Stale]
      <4>1. Header + size <= Begin(lens)[Len(lens) + 1]
        BY <2>2, <2>4, Zenon
      <4> QED BY <2>3, <4>1, HeaderThenPacket, Zenon
    <3>2. chain = c
      BY <2>2
    <3> HIDE DEF c
    <3> QED BY <3>1, <3>2, Zenon
  <2>6. chain.bytes_written - Header = size /\ DOMAIN chain.lens = 1 .. Len(lens)
    <3>1. chain.bytes_written = Header + size /\ chain.lens = lens
      BY <2>5, Zenon
    <3>2. (Header + size) - Header = size /\ DOMAIN lens = 1 .. Len(lens)
      BY <2>3
    <3> QED BY <3>1, <3>2, Zenon
  <2>7. ASSUME NEW d \in 1 .. Len(lens)
        PROVE  chain.cells[d] =
                 [b \in 1 .. lens[d] |-> WholeByte(Begin(lens)[d] + b, size)]
    <3>1. Begin(lens)[d] \in Nat /\ lens[d] \in Nat
      BY <2>3, BeginFacts
    <3>2. chain.cells[d] = [b \in 1 .. lens[d] |->
                              IF Begin(lens)[d] + b <= Header + size
                              THEN PacketByte(Begin(lens)[d] + b) ELSE Stale]
      BY <2>5
    <3> QED BY <2>3, <3>1, <3>2 DEF PacketByte, WholeByte
  <2> DEFINE l == chain.lens
             z == chain.bytes_written - Header
  <2>8. l = lens /\ z = size /\ DOMAIN l = 1 .. Len(lens) /\ size \in PacketSizes
    BY <2>5, <2>6
  <2> HIDE DEF l, z
  <2>9. \A d \in DOMAIN l :
          chain.cells[d] = [b \in 1 .. l[d] |-> WholeByte(Begin(l)[d] + b, z)]
    BY <2>7, <2>8, SMT
  <2>10. z \in PacketSizes
    BY <2>8
  <2> QED BY <2>9, <2>10, Zenon DEF PacketWhole, l, z
<1> QED BY <1>1, <1>2, PacketStep, SpecIInv, PTL DEF Spec

-----------------------------------------------------------------------------
(* The interrupt line of the devices: module IrqDelivery.                  *)

\* The initial state of the machine satisfies the inductive invariant.
LEMMA InitIrqInv == IrqInit => IrqInv
  BY DEF IrqInit, PlicInit, IrqInv, IrqTypeOK, PlicTypeOK, Bits, InService, Reading,
         Acking, Draining, Completing, Claiming, ClaimedIsCurrent,
         StatusHeldPending, LineHasCause, RestingLineUp, UsedTraced,
         ConfigTraced

\* A call of plic_raise_irq leaves the source pending and, if nothing is
\* claimed, the line up.
LEMMA RaiseFacts ==
  ASSUME NEW d \in Irq, PlicTypeOK, LineHasCause, RestingLineUp, PlicRaise(d)
  PROVE  /\ PlicTypeOK'
         /\ LineHasCause'
         /\ irq_claimed' = irq_claimed
         /\ irq_pending' = irq_pending \cup {d}
         /\ irq_claimed = {} => meip'
  BY DEF PlicTypeOK, PlicRaise, LineHasCause, HartRaise, Unmasked

\* A call of plic_clear_irq withdraws the source and drops the line only when
\* nothing unclaimed is left.
LEMMA ClearFacts ==
  ASSUME NEW d \in Irq, PlicTypeOK, LineHasCause, PlicClear(d)
  PROVE  /\ PlicTypeOK'
         /\ LineHasCause'
         /\ irq_claimed' = irq_claimed
         /\ irq_pending' = irq_pending \ {d}
  BY DEF PlicTypeOK, PlicClear, LineHasCause, HartClear, Unmasked

\* Every step of the devices, the main loop and the guest preserves the
\* inductive invariant.
LEMMA NextIrqInv == IrqInv /\ [IrqNext]_irqVars => IrqInv'
<1> SUFFICES ASSUME IrqInv, [IrqNext]_irqVars PROVE IrqInv'
  OBVIOUS
<1> USE DEF IrqInv, Bits, InService, Claiming, Reading, Acking, Draining,
            Completing, Used, Config, Resting
<1>1. ASSUME NEW d \in Irq, FlagCompletion(d) PROVE IrqInv'
  <2>1. /\ PlicTypeOK' /\ LineHasCause' /\ irq_claimed' = irq_claimed
        /\ irq_pending' = irq_pending \cup {d}
        /\ irq_claimed = {} => meip'
    BY <1>1, RaiseFacts DEF FlagCompletion, IrqTypeOK
  <2>2. IrqTypeOK'
    BY <1>1, <2>1 DEF FlagCompletion, IrqTypeOK, guestVars
  <2>3. ClaimedIsCurrent'
    BY <1>1, <2>1 DEF FlagCompletion, ClaimedIsCurrent, guestVars
  <2>4. StatusHeldPending'
    BY <1>1, <2>1 DEF FlagCompletion, StatusHeldPending, IrqTypeOK
  <2>5. RestingLineUp'
    BY <1>1, <2>1 DEF FlagCompletion, RestingLineUp, ClaimedIsCurrent, guestVars
  <2>6. UsedTraced' /\ ConfigTraced'
    BY <1>1 DEF FlagCompletion, UsedTraced, ConfigTraced, IrqTypeOK, guestVars
  <2> QED BY <2>1, <2>2, <2>3, <2>4, <2>5, <2>6
<1>2. ASSUME NEW d \in Irq, ConfigChanged(d) PROVE IrqInv'
  <2>1. /\ PlicTypeOK' /\ LineHasCause' /\ irq_claimed' = irq_claimed
        /\ irq_pending' = irq_pending \cup {d}
        /\ irq_claimed = {} => meip'
    BY <1>2, RaiseFacts DEF ConfigChanged, IrqTypeOK
  <2>2. IrqTypeOK'
    BY <1>2, <2>1 DEF ConfigChanged, IrqTypeOK, guestVars
  <2>3. ClaimedIsCurrent'
    BY <1>2, <2>1 DEF ConfigChanged, ClaimedIsCurrent, guestVars
  <2>4. StatusHeldPending'
    BY <1>2, <2>1 DEF ConfigChanged, StatusHeldPending, IrqTypeOK
  <2>5. RestingLineUp'
    BY <1>2, <2>1 DEF ConfigChanged, RestingLineUp, ClaimedIsCurrent, guestVars
  <2>6. UsedTraced' /\ ConfigTraced'
    BY <1>2 DEF ConfigChanged, UsedTraced, ConfigTraced, IrqTypeOK, guestVars
  <2> QED BY <2>1, <2>2, <2>3, <2>4, <2>5, <2>6
<1>3. ASSUME NEW d \in Irq, DriverResets(d) PROVE IrqInv'
  BY <1>3 DEF DriverResets, IrqTypeOK, PlicTypeOK, ClaimedIsCurrent, StatusHeldPending,
              LineHasCause, RestingLineUp, UsedTraced, ConfigTraced, plicVars,
              guestVars
<1>4. CASE StepStarts
  BY <1>4 DEF StepStarts, SleepFollows, IrqTypeOK, PlicTypeOK, ClaimedIsCurrent,
              StatusHeldPending, LineHasCause, RestingLineUp, UsedTraced,
              ConfigTraced, devVars, clockVars
<1>5. CASE StepEnd
  BY <1>5 DEF StepEnd, IrqTypeOK, PlicTypeOK, ClaimedIsCurrent,
              StatusHeldPending, LineHasCause, RestingLineUp, UsedTraced,
              ConfigTraced, devVars, plicVars, clockVars
<1>6. CASE GuestWaits
  BY <1>6 DEF GuestWaits, SleepFollows, IrqTypeOK, PlicTypeOK, ClaimedIsCurrent,
              StatusHeldPending, LineHasCause, RestingLineUp, UsedTraced,
              ConfigTraced, devVars, clockVars
<1>7. ASSUME NEW i \in Irq, ClaimLoad(i) PROVE IrqInv'
  BY <1>7 DEF ClaimLoad, PlicClaim, IrqTypeOK, PlicTypeOK, ClaimedIsCurrent,
              StatusHeldPending, LineHasCause, RestingLineUp, UsedTraced,
              ConfigTraced, devVars, clockVars
<1>8. CASE ClaimLoadZero
  BY <1>8 DEF ClaimLoadZero, PlicClaimNothing, Unmasked, IrqTypeOK, PlicTypeOK,
              ClaimedIsCurrent, StatusHeldPending, LineHasCause,
              RestingLineUp, UsedTraced, ConfigTraced, devVars, plicVars, clockVars
<1>9. CASE StatusLoad
  BY <1>9 DEF StatusLoad, IrqTypeOK, PlicTypeOK, ClaimedIsCurrent,
              StatusHeldPending, LineHasCause, RestingLineUp, UsedTraced,
              ConfigTraced, devVars, plicVars, clockVars
<1>10. CASE InterruptAck
  <2>1. current \in Irq /\ irq_claimed = {current}
    BY <1>10 DEF InterruptAck, ClaimedIsCurrent
  <2>2. /\ PlicTypeOK' /\ LineHasCause' /\ irq_claimed' = irq_claimed
        /\ \/ InterruptStatus'[current] = {} /\ irq_pending' = irq_pending \ {current}
           \/ irq_pending' = irq_pending
    BY <1>10, <2>1, ClearFacts
    DEF InterruptAck, IrqTypeOK, plicVars, PlicTypeOK, LineHasCause
  <2>3. IrqTypeOK'
    BY <1>10, <2>1, <2>2 DEF InterruptAck, IrqTypeOK, clockVars
  <2>4. ClaimedIsCurrent'
    BY <1>10, <2>1, <2>2 DEF InterruptAck
                         , ClaimedIsCurrent
  <2>5. StatusHeldPending'
    BY <1>10, <2>1, <2>2 DEF InterruptAck, StatusHeldPending, IrqTypeOK
  <2>6. RestingLineUp'
    BY <1>10 DEF InterruptAck, RestingLineUp
  <2>7. UsedTraced' /\ ConfigTraced'
    BY <1>10, <2>1 DEF InterruptAck, UsedTraced, ConfigTraced, IrqTypeOK
  <2> QED BY <2>2, <2>3, <2>4, <2>5, <2>6, <2>7
<1>11. CASE Drain
  BY <1>11 DEF Drain, IrqTypeOK, PlicTypeOK, ClaimedIsCurrent,
               StatusHeldPending, LineHasCause, RestingLineUp, UsedTraced,
               ConfigTraced, plicVars, clockVars
<1>12. CASE CompleteStore
  BY <1>12 DEF CompleteStore, PlicComplete, IrqTypeOK, PlicTypeOK,
               ClaimedIsCurrent, StatusHeldPending, LineHasCause,
               RestingLineUp, UsedTraced, ConfigTraced, devVars, clockVars
<1>13. CASE SleepTimesOut \/ SomethingReadable
  <2>1. /\ UNCHANGED <<plicVars, devVars, clockVars, current, status>>
        /\ Resting /\ at' = "between"
    BY <1>13 DEF SleepTimesOut, SomethingReadable
  <2>2. IrqTypeOK'
    BY <2>1 DEF IrqTypeOK, PlicTypeOK, plicVars, devVars, clockVars
  <2>3. ClaimedIsCurrent' /\ StatusHeldPending' /\ LineHasCause' /\ RestingLineUp'
    BY <2>1 DEF ClaimedIsCurrent, StatusHeldPending, LineHasCause,
                RestingLineUp, plicVars, devVars
  <2>4. UsedTraced' /\ ConfigTraced'
    BY <2>1 DEF UsedTraced, ConfigTraced, devVars
  <2> QED BY <2>2, <2>3, <2>4
<1>14. CASE ProgramTimer \/ TimePasses
  <2>1. /\ UNCHANGED <<plicVars, devVars, do_sleep, at, current, status>>
        /\ due' \in BOOLEAN
    BY <1>14 DEF ProgramTimer, TimePasses
  <2>2. IrqTypeOK'
    BY <2>1 DEF IrqTypeOK, PlicTypeOK, plicVars, devVars
  <2>3. ClaimedIsCurrent' /\ StatusHeldPending' /\ LineHasCause' /\ RestingLineUp'
    BY <2>1 DEF ClaimedIsCurrent, StatusHeldPending, LineHasCause,
                RestingLineUp, plicVars, devVars
  <2>4. UsedTraced' /\ ConfigTraced'
    BY <2>1 DEF UsedTraced, ConfigTraced, devVars
  <2> QED BY <2>2, <2>3, <2>4
<1>15. CASE UNCHANGED irqVars
  BY <1>15 DEF irqVars, plicVars, devVars, guestVars, IrqTypeOK, PlicTypeOK,
               ClaimedIsCurrent, StatusHeldPending, LineHasCause,
               RestingLineUp, UsedTraced, ConfigTraced
<1> QED
  BY <1>1, <1>2, <1>3, <1>4, <1>5, <1>6, <1>7, <1>8, <1>9, <1>10, <1>11,
     <1>12, <1>13, <1>14, <1>15 DEF IrqNext, Handler

LEMMA SpecIrqInv == IrqSpec => []IrqInv
  BY InitIrqInv, NextIrqInv, PTL DEF IrqSpec

\* The words of the PLIC, of the devices and of the handler keep their types.
THEOREM IrqTypeCorrect == IrqSpec => []IrqTypeOK
  BY SpecIrqInv, PTL DEF IrqInv

\* Outside the handler the hart's line is up exactly when a source is
\* pending, whatever came back between an acknowledgement and a completion.
THEOREM LineCorrect == IrqSpec => []LineFollowsPending
<1>1. IrqInv => LineFollowsPending
  BY DEF IrqInv, LineFollowsPending, LineHasCause, RestingLineUp
<1> QED BY <1>1, SpecIrqInv, PTL

\* No status bit is set on a source the PLIC does not hold pending.
THEOREM StatusCorrect == IrqSpec => []StatusHeldPending
  BY SpecIrqInv, PTL DEF IrqInv

\* No completion and no configuration change rests unseen with the line down.
THEOREM NothingLost == IrqSpec => []NothingUnseenWithoutLine
<1>1. IrqInv => NothingUnseenWithoutLine
  <2> SUFFICES ASSUME IrqInv, Resting, usedUnseen \cup configUnseen # {}
               PROVE  meip
    BY DEF NothingUnseenWithoutLine
  <2>1. PICK d \in Irq : d \in usedUnseen \cup configUnseen
    BY DEF IrqInv, IrqTypeOK
  <2>2. InterruptStatus[d] # {}
    BY <2>1 DEF IrqInv, UsedTraced, ConfigTraced, Resting, Draining
  <2>3. d \in irq_pending
    BY <2>2 DEF IrqInv, StatusHeldPending
  <2> QED BY <2>3 DEF IrqInv, RestingLineUp
<1> QED BY <1>1, SpecIrqInv, PTL
=============================================================================
