----------------------------- MODULE BootProofs -----------------------------
(* For every page size, every size of memory, images, devices and disks,   *)
(* and any number of restarts: what is handed out of guest memory does not *)
(* overlap, each device answers at its base under an interrupt of its own, *)
(* and the capacity the driver of the disk uses is whole and not stale.    *)
EXTENDS Boot, TLAPS

-----------------------------------------------------------------------------
(* Arithmetic.                                                             *)

\* Division with rest, for a positive divisor.
LEMMA DivMod ==
  ASSUME NEW a \in Int, NEW w \in Nat, w > 0
  PROVE  /\ a \div w \in Int /\ a % w \in 0 .. w - 1
         /\ a = w * (a \div w) + (a % w)
  OBVIOUS

\* A size rounded up to whole pages is not smaller.
LEMMA RoundUpFacts ==
  ASSUME NEW size \in Nat
  PROVE  RoundUp(size) \in Nat /\ size <= RoundUp(size)
<1> DEFINE q == (size + Page - 1) \div Page
<1>1. Page \in Nat /\ Page > 0
  BY BootAssumption
<1>2. /\ q \in Int
      /\ size + Page - 1 = Page * q + ((size + Page - 1) % Page)
      /\ (size + Page - 1) % Page \in 0 .. Page - 1
  BY <1>1, DivMod
<1>3. RoundUp(size) = q * Page
  BY DEF RoundUp
<1> HIDE DEF q
<1>4. q * Page = Page * q /\ q * Page \in Int
  BY <1>1, <1>2
<1>5. size <= Page * q
  BY <1>1, <1>2
<1> QED BY <1>3, <1>4, <1>5

\* An address rounded down to a page is not higher.
LEMMA RoundDownFacts ==
  ASSUME NEW addr \in Int
  PROVE  RoundDown(addr) \in Int /\ RoundDown(addr) <= addr
<1> DEFINE q == addr \div Page
<1>1. Page \in Nat /\ Page > 0
  BY BootAssumption
<1>2. q \in Int /\ addr = Page * q + (addr % Page) /\ addr % Page \in 0 .. Page - 1
  BY <1>1, DivMod
<1>3. RoundDown(addr) = q * Page
  BY DEF RoundDown
<1> HIDE DEF q
<1>4. q * Page = Page * q /\ q * Page \in Int
  BY <1>1, <1>2
<1> QED BY <1>1, <1>2, <1>3, <1>4

-----------------------------------------------------------------------------
(* The disk.                                                               *)

\* What openfile does to the generation, to the interrupt and to what it has
\* seen.
LEMMA OpenFileFacts ==
  ASSUME BlkTypes, NEW bits, OpenFile(bits)
  PROVE  /\ sector_count' = image /\ sector_count' \in ImageSizes /\ sector_count' \in seen'
         /\ seen' \subseteq ImageSizes /\ seen \subseteq seen'
         /\ \/ /\ ConfigGeneration' = ConfigGeneration + 1
               /\ Config \in InterruptStatus'
            \/ /\ sector_count' = sector_count /\ ConfigGeneration' = ConfigGeneration
               /\ InterruptStatus \subseteq InterruptStatus'
  BY DEF BlkTypes, OpenFile, ConfigChanged

\* Two words of one size are that size.
LEMMA WordsOfOneSize ==
  ASSUME NEW size \in ImageSizes
  PROVE  (size \div WordValues) * WordValues + (size % WordValues) = size
<1> DEFINE q == size \div WordValues
           r == size % WordValues
<1>1. WordValues \in Nat /\ WordValues > 0 /\ size \in Int
  BY BlkAssumption
<1>2. q \in Int /\ r \in Int /\ size = WordValues * q + r
  BY <1>1, DivMod
<1> HIDE DEF q, r
<1>3. q * WordValues = WordValues * q
  BY <1>1, <1>2
<1>4. q * WordValues + r = size
  BY <1>1, <1>2, <1>3
<1> QED BY <1>4 DEF q, r

\* The driver reads nothing but the four steps.
LEMMA StepNames ==
  /\ Reading = {"generation", "low", "high", "again"}
  /\ "down" \notin Reading /\ "idle" \notin Reading
  BY DEF Reading

\* A step of the guest that uses the disk.
LEMMA GuestStepBlk ==
  ASSUME BlkIInv, GuestStep
  PROVE  BlkIInv'
<1> USE DEF BlkTypes, WordsMatch, CapacityWholeAndFresh, Reading
<1>0. BlkTypes /\ WordsMatch /\ CapacityWholeAndFresh
  BY DEF BlkIInv
<1>1. CASE Probe
  BY <1>0, <1>1 DEF Probe, disk, BlkIInv
<1>2. CASE LoadGeneration
  BY <1>0, <1>2 DEF LoadGeneration, disk, blk, BlkIInv
<1>3. CASE LoadLow
  <2>1. /\ step = "low" /\ step' = "high" /\ low' = sector_count' % WordValues
        /\ UNCHANGED <<image, resizes, high, old, capacity, due>> /\ OpenFile({})
    BY <1>3 DEF LoadLow, disk
  <2>2. /\ sector_count' = image /\ sector_count' \in ImageSizes /\ sector_count' \in seen'
        /\ seen' \subseteq ImageSizes /\ seen \subseteq seen'
        /\ ConfigGeneration' = ConfigGeneration + 1 \/ ConfigGeneration' = ConfigGeneration
    BY <1>0, <2>1, OpenFileFacts
  <2> QED BY <1>0, <2>1, <2>2 DEF BlkIInv
<1>4. CASE LoadHigh
  <2>1. /\ step = "high" /\ step' = "again" /\ high' = sector_count' \div WordValues
        /\ UNCHANGED <<image, resizes, low, old, capacity, due>> /\ OpenFile({})
    BY <1>4 DEF LoadHigh, disk
  <2>2. /\ sector_count' = image /\ sector_count' \in ImageSizes /\ sector_count' \in seen'
        /\ seen' \subseteq ImageSizes /\ seen \subseteq seen'
        /\ \/ ConfigGeneration' = ConfigGeneration + 1
           \/ ConfigGeneration' = ConfigGeneration /\ sector_count' = sector_count
    BY <1>0, <2>1, OpenFileFacts
  <2> QED BY <1>0, <2>1, <2>2 DEF BlkIInv
<1>5. CASE LoadAgain
  <2>1. /\ step = "again" /\ old' = ConfigGeneration
        /\ UNCHANGED <<image, sector_count, ConfigGeneration, InterruptStatus, seen, low, high, due>>
    BY <1>5 DEF LoadAgain, disk, blk
  <2>2. CASE old = ConfigGeneration
    <3>1. capacity' = high * WordValues + low /\ step' = "idle"
      BY <1>5, <2>2 DEF LoadAgain
    <3>2. sector_count \in seen /\ low = sector_count % WordValues /\ high = sector_count \div WordValues
      BY <1>0, <2>1, <2>2
    <3>3. sector_count \in ImageSizes
      BY <1>0, <3>2
    <3>4. capacity' = sector_count
      BY <3>1, <3>2, <3>3, WordsOfOneSize
    <3> QED BY <1>0, <2>1, <3>1, <3>2, <3>3, <3>4 DEF BlkIInv
  <2>3. CASE old # ConfigGeneration
    <3>1. capacity' = capacity /\ step' = "low"
      BY <1>5, <2>3 DEF LoadAgain
    <3> QED BY <1>0, <2>1, <3>1 DEF BlkIInv
  <2> QED BY <2>2, <2>3
<1>6. CASE Command
  <2>1. /\ step = "idle" /\ OpenFile({Used})
        /\ UNCHANGED <<image, step, low, high, old, capacity, due>>
    BY <1>6 DEF Command, disk, driver
  <2>2. /\ sector_count' \in ImageSizes /\ seen' \subseteq ImageSizes /\ seen \subseteq seen'
        /\ \/ ConfigGeneration' = ConfigGeneration + 1 /\ Config \in InterruptStatus'
           \/ /\ ConfigGeneration' = ConfigGeneration /\ sector_count' = sector_count
              /\ InterruptStatus \subseteq InterruptStatus'
    BY <1>0, <2>1, OpenFileFacts
  <2> QED BY <1>0, <2>1, <2>2 DEF BlkIInv
<1>7. CASE Handle
  BY <1>0, <1>7 DEF Handle, disk, BlkIInv
<1>8. CASE Reread
  BY <1>0, <1>8 DEF Reread, disk, blk, BlkIInv
<1> QED BY <1>1, <1>2, <1>3, <1>4, <1>5, <1>6, <1>7, <1>8 DEF GuestStep

\* A change of the image, a new device, a restart, and the rest.
LEMMA OtherStepsBlk ==
  ASSUME BlkIInv
  PROVE  /\ Resize => BlkIInv'
         /\ BlkCreate => BlkIInv'
         /\ Restart => BlkIInv'
         /\ UNCHANGED blkVars => BlkIInv'
<1> USE DEF BlkIInv, BlkTypes, WordsMatch, CapacityWholeAndFresh, Reading
<1>1. Resize => BlkIInv'
  BY DEF Resize, blk, driver
<1>2. BlkCreate => BlkIInv'
  BY DEF BlkCreate, disk
<1>3. Restart => BlkIInv'
  BY DEF Restart, disk, blk
<1>4. UNCHANGED blkVars => BlkIInv'
  BY DEF blkVars, disk, blk, driver
<1> QED BY <1>1, <1>2, <1>3, <1>4

-----------------------------------------------------------------------------
(* Memory.                                                                 *)

\* What is assumed of the command line and of the sizes.
LEMMA Sizes ==
  /\ CoreSize \in Nat /\ BssSize \in Nat /\ DtbSize \in Nat /\ FrameSize \in Nat
  /\ opt \in Options => opt.ram \in Nat /\ opt.kernel \in Nat /\ opt.initrd \in Nat
  BY BootAssumption

\* A region put behind one of the two ends, when the end has moved over it.
LEMMA RegionAdded ==
  ASSUME EndsOfMemory, RegionsInOrder, UNCHANGED opt,
         NEW r, r.base \in Int, r.size \in Nat, regions' = regions \cup {r},
         IF AtTop(r)
         THEN /\ next_guest_alloc' = next_guest_alloc
              /\ next_guest_top_alloc' = r.base /\ EndOf(r) <= next_guest_top_alloc
         ELSE /\ next_guest_top_alloc' = next_guest_top_alloc
              /\ r.base = next_guest_alloc /\ EndOf(r) <= next_guest_alloc'
              /\ next_guest_alloc' \in Nat
  PROVE  RegionsInOrder'
<1> USE DEF EndsOfMemory, RegionsInOrder
<1>1. opt.ram \in Nat
  BY Sizes
<1>2. EndOf(r) \in Int /\ r.base <= EndOf(r)
  BY DEF EndOf
<1>3. \A s \in regions : s.base \in Int /\ EndOf(s) \in Int /\ s.base <= EndOf(s)
  BY DEF EndOf
<1>4. ASSUME NEW s \in regions, AtTop(s) = AtTop(r)
      PROVE  EndOf(r) <= s.base \/ EndOf(s) <= r.base
  BY <1>1, <1>2, <1>3, <1>4
<1>5. ASSUME NEW s \in regions'
      PROVE  /\ s.base \in Int /\ s.size \in Nat
             /\ IF AtTop(s) THEN next_guest_top_alloc' <= s.base /\ EndOf(s) <= opt.ram
                            ELSE 0 <= s.base /\ EndOf(s) <= next_guest_alloc'
  <2>1. CASE s = r
    BY <1>1, <1>2, <2>1
  <2>2. CASE s \in regions
    <3>1. next_guest_top_alloc' <= next_guest_top_alloc /\ next_guest_top_alloc' \in Int
      BY <1>2
    <3>2. next_guest_alloc <= next_guest_alloc' /\ next_guest_alloc' \in Int
      BY <1>2
    <3> QED BY <1>1, <1>3, <2>2, <3>1, <3>2
  <2> QED BY <2>1, <2>2
<1>6. ASSUME NEW s \in regions', NEW t \in regions', AtTop(s) = AtTop(t)
      PROVE  s = t \/ EndOf(s) <= t.base \/ EndOf(t) <= s.base
  BY <1>4, <1>6
<1> QED BY <1>5, <1>6 DEF AtTop, EndOf

\* guest_alloc.
LEMMA GuestAllocFacts ==
  ASSUME EndsOfMemory, RegionsInOrder, UNCHANGED opt, NEW size \in Nat, NEW name,
         name \notin {"CORE", "FB"}, GuestAlloc(size, name)
  PROVE  /\ RegionsInOrder'
         /\ next_guest_alloc' \in Nat /\ UNCHANGED next_guest_top_alloc
<1> DEFINE r == Region(name, next_guest_alloc, size)
<1>1. r.base = next_guest_alloc /\ r.size = size /\ ~AtTop(r) /\ EndOf(r) = next_guest_alloc + size
  BY DEF Region, AtTop, EndOf
<1>2. RoundUp(size) \in Nat /\ size <= RoundUp(size)
  BY RoundUpFacts
<1>3. /\ regions' = regions \cup {r} /\ UNCHANGED next_guest_top_alloc
      /\ next_guest_alloc' = next_guest_alloc + RoundUp(size)
  BY DEF GuestAlloc
<1>4. next_guest_alloc \in Nat
  BY DEF EndsOfMemory
<1> HIDE DEF r
<1>5. next_guest_alloc' \in Nat /\ EndOf(r) <= next_guest_alloc'
  BY <1>1, <1>2, <1>3, <1>4
<1>6. r.base \in Int /\ r.size \in Nat
  BY <1>1, <1>4
<1> QED BY <1>1, <1>3, <1>5, <1>6, RegionAdded

\* guest_top_alloc.
LEMMA GuestTopAllocFacts ==
  ASSUME EndsOfMemory, RegionsInOrder, UNCHANGED opt, NEW size \in Nat, NEW name,
         name \in {"CORE", "FB"}, GuestTopAlloc(size, name)
  PROVE  /\ RegionsInOrder'
         /\ UNCHANGED next_guest_alloc
         /\ next_guest_top_alloc' \in Int /\ next_guest_top_alloc' <= opt.ram
<1> DEFINE r == Region(name, next_guest_top_alloc', size)
<1>1. r.base = next_guest_top_alloc' /\ r.size = size /\ AtTop(r) /\ EndOf(r) = next_guest_top_alloc' + size
  BY DEF Region, AtTop, EndOf
<1>2. RoundUp(size) \in Nat /\ size <= RoundUp(size)
  BY RoundUpFacts
<1>3. /\ regions' = regions \cup {r} /\ UNCHANGED next_guest_alloc
      /\ next_guest_top_alloc' = RoundDown(next_guest_top_alloc - RoundUp(size))
  BY DEF GuestTopAlloc
<1>4. /\ next_guest_top_alloc \in Int /\ next_guest_top_alloc <= opt.ram /\ opt.ram \in Nat
  BY Sizes DEF EndsOfMemory
<1>5. next_guest_top_alloc - RoundUp(size) \in Int
  BY <1>2, <1>4
<1>6. next_guest_top_alloc' \in Int /\ next_guest_top_alloc' <= next_guest_top_alloc - RoundUp(size)
  BY <1>3, <1>5, RoundDownFacts
<1> HIDE DEF r
<1>7. next_guest_top_alloc' + size <= next_guest_top_alloc /\ next_guest_top_alloc' <= opt.ram
  <2>1. \A top, up, ram, new \in Int :
          top <= ram /\ new <= top - up /\ size <= up => new + size <= top /\ new <= ram
    OBVIOUS
  <2>2. {next_guest_top_alloc, RoundUp(size), opt.ram, next_guest_top_alloc'} \subseteq Int
    BY <1>2, <1>4, <1>6
  <2> QED BY <1>2, <1>4, <1>6, <2>1, <2>2
<1>8. r.base \in Int /\ r.size \in Nat
  BY <1>1, <1>6
<1> QED BY <1>1, <1>3, <1>6, <1>7, <1>8, RegionAdded

\* Every step keeps the regions in order.
LEMMA MemoryStep ==
  ASSUME EndsOfMemory, RegionsInOrder, [Next]_vars
  PROVE  EndsOfMemory' /\ RegionsInOrder'
<1>1. ASSUME UNCHANGED <<opt, memory>>, told # None => phase' \in {"run", "off"}
      PROVE  EndsOfMemory' /\ RegionsInOrder'
  BY <1>1 DEF memory, EndsOfMemory, RegionsInOrder, AtTop, EndOf
<1>2. CASE AllocCore
  <2>1. /\ phase = "core" /\ GuestTopAlloc(CoreSize, "CORE") /\ UNCHANGED <<opt, told>>
    BY <1>2 DEF AllocCore, MemoryOnly
  <2> QED BY <2>1, Sizes, GuestTopAllocFacts DEF EndsOfMemory
<1>3. CASE LoadKernel
  <2>1. CASE opt.kernel > opt.ram /\ phase' = "off"
    <3>1. UNCHANGED <<opt, memory>>
      BY <1>3, <2>1, Sizes DEF LoadKernel, MemoryOnly, memory, EndsOfMemory
    <3> QED BY <1>1, <2>1, <3>1
  <2>2. CASE GuestAlloc(opt.kernel + BssSize, "KERNEL")
    <3>1. UNCHANGED <<opt, told>> /\ phase = "kernel" /\ opt.kernel + BssSize \in Nat
      BY <1>3, Sizes DEF LoadKernel, MemoryOnly, EndsOfMemory
    <3> QED BY <2>2, <3>1, GuestAllocFacts DEF EndsOfMemory
  <2> QED BY <1>3, <2>1, <2>2 DEF LoadKernel
<1>4. CASE NoTree
  BY <1>1, <1>4 DEF NoTree, MemoryOnly, memory
<1>5. CASE LoadInitrd
  <2>1. UNCHANGED <<opt, told>> /\ phase = "images" /\ opt.initrd \in Nat
    BY <1>5, Sizes DEF LoadInitrd, MemoryOnly, EndsOfMemory
  <2>2. CASE GuestAlloc(opt.initrd, "INITRD")
    BY <2>1, <2>2, GuestAllocFacts DEF EndsOfMemory
  <2>3. CASE UNCHANGED <<next_guest_alloc, next_guest_top_alloc, regions>>
    BY <1>1, <2>1, <2>3 DEF memory, EndsOfMemory
  <2> QED BY <1>5, <2>2, <2>3 DEF LoadInitrd
<1>6. CASE LoadDtb
  <2>1. UNCHANGED <<opt, told>> /\ phase = "dtb" /\ GuestAlloc(DtbSize, "DTB")
    BY <1>6 DEF LoadDtb, MemoryOnly
  <2> QED BY <2>1, Sizes, GuestAllocFacts DEF EndsOfMemory
<1>7. CASE AddFramebuffer
  <2>1. UNCHANGED <<opt, told>> /\ phase = "gfx" /\ GuestTopAlloc(RoundUp(FrameSize), "FB")
    BY <1>7 DEF AddFramebuffer, MemoryOnly
  <2>2. RoundUp(FrameSize) \in Nat
    BY Sizes, RoundUpFacts
  <2> QED BY <2>1, <2>2, GuestTopAllocFacts DEF EndsOfMemory
<1>8. CASE AddUart \/ AddPlic \/ AddBlk \/ AddInput \/ AddNet
  <2>1. UNCHANGED <<opt, memory>> /\ phase \notin {"run", "off"}
    BY <1>8 DEF AddUart, AddPlic, AddBlk, AddInput, AddNet
  <2> QED BY <1>1, <2>1 DEF EndsOfMemory
<1>9. CASE TellMemory
  BY <1>9 DEF TellMemory, EndsOfMemory, RegionsInOrder, AtTop, EndOf
<1>10. CASE UseDisk \/ HostResizes \/ Off
  <2>1. UNCHANGED <<opt, memory>> /\ (phase' = phase \/ phase' = "off")
    BY <1>10 DEF UseDisk, HostResizes, Off
  <2> QED BY <1>1, <2>1 DEF EndsOfMemory
<1>11. CASE Restart
  <2>1. /\ regions' = {} /\ told' = None /\ UNCHANGED opt
        /\ next_guest_alloc' = 0 /\ next_guest_top_alloc' = opt.ram
    BY <1>11 DEF Restart
  <2> QED BY <2>1, Sizes DEF EndsOfMemory, RegionsInOrder
<1>12. CASE UNCHANGED vars
  BY <1>1, <1>12 DEF vars, EndsOfMemory
<1> QED BY <1>2, <1>3, <1>4, <1>5, <1>6, <1>7, <1>8, <1>9, <1>10, <1>11, <1>12 DEF Next

-----------------------------------------------------------------------------
(* The list of devices.                                                    *)

\* An element put in front of a list moves the others by one.
LEMMA Prepended ==
  ASSUME NEW S, NEW s \in Seq(S), NEW x \in S, NEW t, t = <<x>> \o s
  PROVE  /\ t \in Seq(S) /\ t # <<>> /\ Len(t) = Len(s) + 1 /\ Len(s) \in Nat
         /\ 1 \in DOMAIN t /\ t[1] = x
         /\ \A i \in DOMAIN s : i \in Nat /\ i + 1 \in DOMAIN t /\ t[i + 1] = s[i]
         /\ \A j \in DOMAIN t : j \in Nat /\ (j = 1 \/ (j > 1 /\ j - 1 \in DOMAIN s /\ t[j] = s[j - 1]))
<1>1. t \in Seq(S) /\ Len(t) = Len(s) + 1 /\ Len(s) \in Nat /\ t[1] = x
  OBVIOUS
<1>2. DOMAIN t = 1 .. Len(s) + 1 /\ DOMAIN s = 1 .. Len(s)
  BY <1>1
<1>3. ASSUME NEW j \in 1 .. Len(s) + 1, j # 1 PROVE t[j] = s[j - 1]
  BY <1>3
<1>4. ASSUME NEW i \in 1 .. Len(s) PROVE t[i + 1] = s[i]
  BY <1>4
<1> QED BY <1>1, <1>2, <1>3, <1>4

\* The last one stays the last one.
LEMMA LastKept ==
  ASSUME NEW S, NEW s \in Seq(S), NEW x \in S
  PROVE  /\ s # <<>> => (<<x>> \o s)[Len(<<x>> \o s)] = s[Len(s)]
         /\ s = <<>> => (<<x>> \o s)[Len(<<x>> \o s)] = x
  OBVIOUS

\* An element before which there is no controller.
NoPlicBefore(list, h) ==
  \E i \in DOMAIN list : list[i] = h /\ \A j \in DOMAIN list : j < i => ~IsPlic(list[j])

\* A device in front of it does not change that.
LEMMA NoPlicKept ==
  ASSUME NEW list \in Seq(Handlers), NEW x \in Handlers, ~IsPlic(x), NEW h,
         NoPlicBefore(list, h)
  PROVE  NoPlicBefore(<<x>> \o list, h)
<1> DEFINE t == <<x>> \o list
<1>1. PICK i \in DOMAIN list : list[i] = h /\ \A j \in DOMAIN list : j < i => ~IsPlic(list[j])
  BY DEF NoPlicBefore
<1>2. /\ 1 \in DOMAIN t /\ t[1] = x
      /\ i \in Nat /\ i + 1 \in DOMAIN t /\ t[i + 1] = list[i]
      /\ \A j \in DOMAIN t : j \in Nat /\ (j = 1 \/ (j > 1 /\ j - 1 \in DOMAIN list /\ t[j] = list[j - 1]))
  BY Prepended
<1> HIDE DEF t
<1>3. ASSUME NEW j \in DOMAIN t, j < i + 1 PROVE ~IsPlic(t[j])
  <2>1. CASE j = 1
    BY <1>2, <2>1
  <2>2. CASE j > 1 /\ j - 1 \in DOMAIN list /\ t[j] = list[j - 1]
    <3>1. j - 1 < i
      BY <1>2, <1>3
    <3> QED BY <1>1, <2>2, <3>1
  <2> QED BY <1>2, <2>1, <2>2
<1> QED BY <1>1, <1>2, <1>3 DEF NoPlicBefore, t

\* A device gets the base after all others: the list stays in its order.
LEMMA HandlersGrow ==
  ASSUME HandlersInOrder, UNCHANGED <<restarts>>, next_irq' \in Nat,
         NEW h \in Handlers, ~IsPlic(h), h.base = next_base,
         next_base' \in Nat, EndOf(h) <= next_base', root' = <<h>> \o root
  PROVE  HandlersInOrder'
<1> DEFINE t == <<h>> \o root
<1>1. /\ next_base \in Nat /\ root \in Seq(Handlers)
      /\ \A i \in DOMAIN root : root[i] \in Handlers
  BY DEF HandlersInOrder
<1>2. /\ t \in Seq(Handlers) /\ t[1] = h
      /\ \A j \in DOMAIN t : j \in Nat /\ (j = 1 \/ (j > 1 /\ j - 1 \in DOMAIN root /\ t[j] = root[j - 1]))
  BY <1>1, Prepended
<1>3. root' = t
  OBVIOUS
<1> HIDE DEF t
<1>4. EndOf(h) \in Int /\ next_base <= EndOf(h)
  BY <1>1 DEF EndOf, Handlers
<1>5. \A i \in DOMAIN root : EndOf(root[i]) \in Int
  BY <1>1 DEF EndOf, Handlers
<1>6. ASSUME NEW i \in DOMAIN t
      PROVE  IF IsPlic(t[i]) THEN t[i].base = PlicBase /\ t[i].size = PlicSize
                             ELSE EndOf(t[i]) <= next_base'
  <2>1. CASE i = 1
    BY <1>2, <2>1
  <2>2. CASE i > 1 /\ i - 1 \in DOMAIN root /\ t[i] = root[i - 1]
    <3>1. IF IsPlic(root[i - 1]) THEN root[i - 1].base = PlicBase /\ root[i - 1].size = PlicSize
                                 ELSE EndOf(root[i - 1]) <= next_base
      BY <2>2 DEF HandlersInOrder
    <3> QED BY <1>1, <1>4, <1>5, <2>2, <3>1
  <2> QED BY <1>2, <2>1, <2>2
<1>7. ASSUME NEW i \in DOMAIN t, NEW j \in DOMAIN t, i < j, ~IsPlic(t[i]), ~IsPlic(t[j])
      PROVE  EndOf(t[j]) <= t[i].base
  <2>1. j > 1 /\ j - 1 \in DOMAIN root /\ t[j] = root[j - 1] /\ i \in Nat /\ j \in Nat
    BY <1>2, <1>7
  <2>2. CASE i = 1
    <3>1. EndOf(root[j - 1]) <= next_base
      BY <1>7, <2>1 DEF HandlersInOrder
    <3> QED BY <1>2, <2>1, <2>2, <3>1
  <2>3. CASE i > 1 /\ i - 1 \in DOMAIN root /\ t[i] = root[i - 1]
    <3>1. i - 1 < j - 1
      BY <1>7, <2>1
    <3> QED BY <1>7, <2>1, <2>3, <3>1 DEF HandlersInOrder
  <2> QED BY <1>2, <2>2, <2>3
<1> QED BY <1>2, <1>3, <1>6, <1>7 DEF HandlersInOrder, EndOf, IsPlic

\* AddDevice, for any device but the controller.
LEMMA AddDeviceFacts ==
  ASSUME HandlersInOrder, TreeInList, UNCHANGED restarts,
         NEW name \in Names \ {"plic"}, NEW size \in Nat, AddDevice(name, size)
  PROVE  /\ HandlersInOrder' /\ TreeInList'
         /\ root' = <<[dev |-> <<name, restarts>>, base |-> next_base, size |-> size]>> \o root
         /\ NoPlicBefore(root, PlicOf(restarts)) => NoPlicBefore(root', PlicOf(restarts))
<1> DEFINE h == [dev |-> <<name, restarts>>, base |-> next_base, size |-> size]
           d == [dev |-> <<name, restarts>>, base |-> next_base, size |-> size, irq |-> next_irq]
<1>1. /\ next_base \in Nat /\ next_irq \in Nat /\ restarts \in 0 .. MaxRestarts
      /\ root \in Seq(Handlers)
  BY DEF HandlersInOrder
<1>2. /\ next_base' = next_base + RoundUp(size) /\ next_irq' = next_irq + 1
      /\ root' = <<h>> \o root /\ tree' = tree \cup {d}
  BY DEF AddDevice, GetNextBase, AddHandler
<1>3. RoundUp(size) \in Nat /\ size <= RoundUp(size)
  BY RoundUpFacts
<1>4. h \in Handlers /\ ~IsPlic(h) /\ h.base = next_base /\ EndOf(h) = next_base + size
  BY <1>1 DEF Handlers, IsPlic, EndOf
<1>5. d.irq = next_irq /\ Handler(d) = h
  BY DEF Handler
<1> HIDE DEF h, d
<1>6. /\ next_base' \in Nat /\ EndOf(h) <= next_base' /\ next_irq' \in Nat /\ next_irq < next_irq'
  BY <1>1, <1>2, <1>3, <1>4
<1>7. HandlersInOrder'
  BY <1>2, <1>4, <1>6, HandlersGrow
<1>8. /\ 1 \in DOMAIN root' /\ root'[1] = h
      /\ \A i \in DOMAIN root : i + 1 \in DOMAIN root' /\ root'[i + 1] = root[i]
  BY <1>1, <1>2, <1>4, Prepended
<1>9. ASSUME NEW e \in tree'
      PROVE  /\ e.irq \in Nat /\ e.irq < next_irq' /\ (e # d => e \in tree /\ e.irq < next_irq)
             /\ \E i \in DOMAIN root' : root'[i] = Handler(e) /\ ~IsPlic(root'[i])
  <2>1. CASE e = d
    BY <1>1, <1>4, <1>5, <1>6, <1>8, <2>1
  <2>2. CASE e \in tree
    <3>1. /\ e.irq \in Nat /\ e.irq < next_irq
          /\ \E i \in DOMAIN root : root[i] = Handler(e) /\ ~IsPlic(root[i])
      BY <2>2 DEF TreeInList
    <3>2. PICK i \in DOMAIN root : root[i] = Handler(e) /\ ~IsPlic(root[i])
      BY <3>1
    <3>3. i + 1 \in DOMAIN root' /\ root'[i + 1] = root[i]
      BY <1>8
    <3>4. \E k \in DOMAIN root' : root'[k] = Handler(e) /\ ~IsPlic(root'[k])
      BY <3>2, <3>3
    <3>5. e.irq < next_irq' /\ (e # d => e \in tree /\ e.irq < next_irq)
      BY <1>1, <1>2, <2>2, <3>1
    <3> QED BY <3>1, <3>4, <3>5
  <2> QED BY <1>2, <2>1, <2>2
<1>10. ASSUME NEW e \in tree', NEW f \in tree', e.irq = f.irq PROVE e = f
  <2>1. (e = d => f = d) /\ (f = d => e = d)
    BY <1>1, <1>5, <1>9, <1>10
  <2>2. CASE e # d /\ f # d
    <3>1. e \in tree /\ f \in tree
      BY <1>9, <2>2
    <3> QED BY <1>10, <3>1 DEF TreeInList
  <2> QED BY <2>1, <2>2
<1>11. TreeInList'
  BY <1>9, <1>10 DEF TreeInList, Handler, IsPlic
<1>12. NoPlicBefore(root, PlicOf(restarts)) => NoPlicBefore(root', PlicOf(restarts))
  BY <1>1, <1>2, <1>4, NoPlicKept
<1> QED BY <1>2, <1>7, <1>11, <1>12 DEF h

\* The controller of this boot goes to the front of the list.
LEMMA AddPlicFacts ==
  ASSUME HandlersInOrder, TreeInList, AddPlic
  PROVE  HandlersInOrder' /\ TreeInList' /\ NoPlicBefore(root', PlicOf(restarts'))
<1> DEFINE h == PlicOf(restarts)
           t == <<h>> \o root
<1>1. /\ root' = t
      /\ UNCHANGED <<next_base, next_irq, restarts, tree>>
  BY DEF AddPlic, AddHandler, PlicOf
<1>2. /\ next_base \in Nat /\ next_irq \in Nat /\ restarts \in 0 .. MaxRestarts
      /\ root \in Seq(Handlers)
  BY DEF HandlersInOrder
<1>3. h \in Handlers /\ IsPlic(h) /\ h.base = PlicBase /\ h.size = PlicSize
  BY <1>2, BootAssumption DEF Handlers, Names, IsPlic, PlicOf
<1> HIDE DEF h
<1>4. /\ t \in Seq(Handlers) /\ 1 \in DOMAIN t /\ t[1] = h
      /\ \A i \in DOMAIN root : i + 1 \in DOMAIN t /\ t[i + 1] = root[i]
      /\ \A j \in DOMAIN t : j \in Nat /\ (j = 1 \/ (j > 1 /\ j - 1 \in DOMAIN root /\ t[j] = root[j - 1]))
  BY <1>2, <1>3, Prepended
<1> HIDE DEF t
<1>5. ASSUME NEW i \in DOMAIN t
      PROVE  IF IsPlic(t[i]) THEN t[i].base = PlicBase /\ t[i].size = PlicSize
                             ELSE EndOf(t[i]) <= next_base
  BY <1>3, <1>4 DEF HandlersInOrder
<1>6. ASSUME NEW i \in DOMAIN t, NEW j \in DOMAIN t, i < j, ~IsPlic(t[i]), ~IsPlic(t[j])
      PROVE  EndOf(t[j]) <= t[i].base
  <2>1. /\ i - 1 \in DOMAIN root /\ t[i] = root[i - 1]
        /\ j - 1 \in DOMAIN root /\ t[j] = root[j - 1]
        /\ i - 1 < j - 1
    BY <1>3, <1>4, <1>6
  <2> QED BY <1>6, <2>1 DEF HandlersInOrder
<1>7. HandlersInOrder'
  BY <1>1, <1>2, <1>4, <1>5, <1>6 DEF HandlersInOrder, EndOf, IsPlic
<1>8. TreeInList'
  <2>1. ASSUME NEW d \in tree PROVE \E i \in DOMAIN t : t[i] = Handler(d) /\ ~IsPlic(t[i])
    <3>1. PICK i \in DOMAIN root : root[i] = Handler(d) /\ ~IsPlic(root[i])
      BY DEF TreeInList
    <3> QED BY <1>4, <3>1
  <2> QED BY <1>1, <2>1 DEF TreeInList, Handler, IsPlic
<1>9. NoPlicBefore(t, h)
  <2>1. \A j \in DOMAIN t : ~(j < 1)
    BY <1>4
  <2> QED BY <1>4, <2>1 DEF NoPlicBefore
<1> QED BY <1>1, <1>7, <1>8, <1>9 DEF h

\* Every step keeps the list as it should be.
LEMMA ListStep ==
  ASSUME EndsOfMemory, HandlersInOrder, TreeInList, NewestPlic, OldestUart, [Next]_vars
  PROVE  HandlersInOrder' /\ TreeInList' /\ NewestPlic' /\ OldestUart'
<1>1. NewestPlic <=> (WithPlic => NoPlicBefore(root, PlicOf(restarts)))
  BY DEF NewestPlic, NoPlicBefore
<1>2. NewestPlic' <=> (WithPlic' => NoPlicBefore(root', PlicOf(restarts')))
  BY DEF NewestPlic, NoPlicBefore, PlicOf, IsPlic
<1>3. /\ next_base \in Nat /\ next_irq \in Nat /\ restarts \in 0 .. MaxRestarts
      /\ root \in Seq(Handlers)
  BY DEF HandlersInOrder
<1>4. opt.dtb \in BOOLEAN
  BY BootAssumption DEF EndsOfMemory
<1>5. ASSUME UNCHANGED <<opt, restarts, next_base, next_irq, root, tree>>,
             WithPlic' => WithPlic, WithUart' => WithUart,
             phase' \in {"dtb", "uart"} => opt.dtb
      PROVE  HandlersInOrder' /\ TreeInList' /\ NewestPlic' /\ OldestUart'
  <2>1. HandlersInOrder' /\ TreeInList'
    BY <1>5 DEF HandlersInOrder, TreeInList, IsPlic, EndOf, Handler
  <2>2. NewestPlic'
    BY <1>1, <1>2, <1>5
  <2>3. OldestUart'
    BY <1>5 DEF OldestUart
  <2> QED BY <2>1, <2>2, <2>3
<1>6. ASSUME NEW name \in Names \ {"plic"}, NEW size \in Nat, AddDevice(name, size),
             UNCHANGED <<opt, restarts>>, opt.dtb, WithUart',
             WithPlic' => WithPlic,
             root = <<>> => name = "uart" /\ size = UartSize
      PROVE  HandlersInOrder' /\ TreeInList' /\ NewestPlic' /\ OldestUart'
  <2> DEFINE h == [dev |-> <<name, restarts>>, base |-> next_base, size |-> size]
  <2>1. /\ HandlersInOrder' /\ TreeInList' /\ root' = <<h>> \o root
        /\ NoPlicBefore(root, PlicOf(restarts)) => NoPlicBefore(root', PlicOf(restarts))
    BY <1>6, AddDeviceFacts
  <2>2. NewestPlic'
    BY <1>1, <1>2, <1>6, <2>1
  <2>3. h \in Handlers
    BY <1>3 DEF Handlers
  <2>4. root = <<>> => h = FirstUart
    BY <1>6 DEF OldestUart, FirstUart
  <2> HIDE DEF h
  <2>5. root' # <<>> /\ root'[Len(root')] = FirstUart
    BY <1>3, <2>1, <2>3, <2>4, LastKept, Prepended DEF OldestUart
  <2>6. OldestUart'
    BY <1>6, <2>5 DEF OldestUart, FirstUart
  <2> QED BY <2>1, <2>2, <2>6
<1>7. CASE AllocCore \/ LoadKernel \/ NoTree \/ LoadInitrd \/ LoadDtb \/ AddFramebuffer
  <2>1. UNCHANGED <<opt, restarts, next_base, next_irq, root, tree>>
    BY <1>7 DEF AllocCore, LoadKernel, NoTree, LoadInitrd, LoadDtb, AddFramebuffer, MemoryOnly, routing
  <2>2. (WithPlic' => WithPlic) /\ (WithUart' => WithUart) /\ (phase' \in {"dtb", "uart"} => opt.dtb)
    BY <1>7, <2>1 DEF AllocCore, LoadKernel, NoTree, LoadInitrd, LoadDtb, AddFramebuffer,
                      WithPlic, WithUart, OldestUart
  <2> QED BY <1>5, <2>1, <2>2
<1>8. CASE AddUart
  <2>1. /\ AddDevice("uart", UartSize) /\ phase = "uart" /\ phase' = "gfx"
        /\ UNCHANGED <<opt, restarts>>
    BY <1>8 DEF AddUart
  <2>2. opt.dtb /\ WithUart' /\ ~WithPlic' /\ UartSize \in Nat /\ "uart" \in Names \ {"plic"}
    BY <2>1, BootAssumption DEF OldestUart, WithUart, WithPlic, Names
  <2> QED BY <1>6, <2>1, <2>2
<1>9. CASE AddPlic
  <2>1. HandlersInOrder' /\ TreeInList' /\ NoPlicBefore(root', PlicOf(restarts'))
    BY <1>9, AddPlicFacts
  <2>2. root' = <<PlicOf(restarts)>> \o root /\ UNCHANGED opt /\ phase = "plic"
    BY <1>9 DEF AddPlic, AddHandler, PlicOf
  <2>3. PlicOf(restarts) \in Handlers
    BY <1>3, BootAssumption DEF Handlers, Names, PlicOf
  <2>4. root # <<>> /\ opt.dtb
    BY <2>2 DEF OldestUart, WithUart
  <2>5. root' # <<>> /\ root'[Len(root')] = FirstUart
    BY <1>3, <2>2, <2>3, <2>4, LastKept, Prepended DEF OldestUart
  <2>6. OldestUart'
    BY <2>2, <2>4, <2>5 DEF OldestUart, FirstUart
  <2> QED BY <1>2, <2>1, <2>6
<1>10. CASE AddBlk \/ AddInput
  <2>1. PICK name \in {"blk", "keyboard", "mouse"} :
          /\ AddDevice(name, VirtioSize) /\ phase = name
          /\ phase' \in {"keyboard", "mouse", "net"} /\ UNCHANGED <<opt, restarts>>
    BY <1>10 DEF AddBlk, AddInput
  <2>2. WithUart /\ WithPlic /\ WithUart' /\ VirtioSize \in Nat /\ name \in Names \ {"plic"}
    BY <2>1, BootAssumption DEF WithUart, WithPlic, Names
  <2>3. opt.dtb /\ root # <<>>
    BY <2>2 DEF OldestUart
  <2> QED BY <1>6, <2>1, <2>2, <2>3
<1>11. CASE AddNet
  <2>1. /\ phase = "net" /\ phase' = "memory" /\ UNCHANGED <<opt, restarts>>
        /\ \/ AddDevice("net", VirtioSize)
           \/ GetNextBase(VirtioSize) /\ UNCHANGED <<next_irq, root, tree>>
    BY <1>11 DEF AddNet
  <2>2. WithUart /\ WithPlic /\ WithUart' /\ VirtioSize \in Nat /\ "net" \in Names \ {"plic"}
    BY <2>1, BootAssumption DEF WithUart, WithPlic, Names
  <2>3. opt.dtb /\ root # <<>>
    BY <2>2 DEF OldestUart
  <2>4. CASE AddDevice("net", VirtioSize)
    BY <1>6, <2>1, <2>2, <2>3, <2>4
  <2>5. CASE GetNextBase(VirtioSize) /\ UNCHANGED <<next_irq, root, tree>>
    <3>1. next_base' \in Nat /\ next_base <= next_base'
      <4>1. RoundUp(VirtioSize) \in Nat
        BY <2>2, RoundUpFacts
      <4> QED BY <1>3, <2>5, <4>1 DEF GetNextBase
    <3>2. \A i \in DOMAIN root : EndOf(root[i]) \in Int
      <4>1. \A i \in DOMAIN root : root[i] \in Handlers
        BY <1>3
      <4> QED BY <4>1 DEF EndOf, Handlers
    <3>3. HandlersInOrder' /\ TreeInList'
      BY <1>3, <2>1, <2>5, <3>1, <3>2 DEF HandlersInOrder, TreeInList, IsPlic, EndOf, Handler
    <3>4. NewestPlic'
      BY <1>1, <1>2, <2>1, <2>2, <2>5
    <3>5. OldestUart'
      BY <2>1, <2>3, <2>5 DEF OldestUart
    <3> QED BY <3>3, <3>4, <3>5
  <2> QED BY <2>1, <2>4, <2>5
<1>12. CASE TellMemory
  <2>1. /\ phase = "memory" /\ phase' = "run"
        /\ UNCHANGED <<opt, restarts, next_base, next_irq, root, tree>>
    BY <1>12 DEF TellMemory, routing
  <2> QED BY <1>5, <2>1 DEF WithPlic, WithUart
<1>13. CASE UseDisk \/ HostResizes \/ Off
  <2>1. /\ phase' = phase \/ phase' = "off"
        /\ UNCHANGED <<opt, restarts, next_base, next_irq, root, tree>>
    BY <1>13 DEF UseDisk, HostResizes, Off, routing
  <2> QED BY <1>5, <2>1 DEF WithPlic, WithUart, OldestUart
<1>14. CASE Restart
  <2>1. /\ phase = "run" /\ phase' = "core" /\ restarts' = restarts + 1 /\ restarts < MaxRestarts
        /\ tree' = {} /\ UNCHANGED <<opt, next_base, next_irq, root>>
    BY <1>14 DEF Restart
  <2>2. ~WithPlic' /\ ~WithUart' /\ (opt.dtb => WithUart)
    BY <2>1 DEF WithPlic, WithUart
  <2>3. HandlersInOrder'
    BY <1>3, <2>1, BootAssumption DEF HandlersInOrder, IsPlic, EndOf
  <2>4. TreeInList'
    BY <2>1 DEF TreeInList
  <2>5. OldestUart'
    BY <2>1, <2>2 DEF OldestUart
  <2> QED BY <1>2, <2>2, <2>3, <2>4, <2>5
<1>15. CASE UNCHANGED vars
  <2>1. UNCHANGED <<opt, phase, restarts, next_base, next_irq, root, tree>>
    BY <1>15 DEF vars, routing
  <2> QED BY <1>5, <2>1 DEF WithPlic, WithUart, OldestUart
<1> QED BY <1>7, <1>8, <1>9, <1>10, <1>11, <1>12, <1>13, <1>14, <1>15 DEF Next

-----------------------------------------------------------------------------
(* The inductive invariant.                                                *)

\* Nothing is handed out at first, and the list is empty.
LEMMA InitIInv == Init => IInv
<1> SUFFICES ASSUME Init PROVE IInv
  OBVIOUS
<1>1. EndsOfMemory /\ RegionsInOrder
  BY Sizes DEF Init, EndsOfMemory, RegionsInOrder
<1>2. HandlersInOrder
  <2>1. 0 \in 0 .. MaxRestarts /\ <<>> \in Seq(Handlers)
    BY BootAssumption
  <2> QED BY <2>1 DEF Init, HandlersInOrder
<1>3. TreeInList /\ NewestPlic /\ OldestUart
  BY DEF Init, TreeInList, NewestPlic, OldestUart, WithPlic, WithUart
<1>4. BlkIInv
  BY DEF Init, BlkInit, BlkIInv, BlkTypes, WordsMatch, CapacityWholeAndFresh, Reading
<1> QED BY <1>1, <1>2, <1>3, <1>4 DEF IInv

\* The disk keeps its part over every step of the machine.
LEMMA BlkStep ==
  ASSUME BlkIInv, [Next]_vars
  PROVE  BlkIInv'
<1>1. CASE UseDisk
  BY <1>1, GuestStepBlk DEF UseDisk
<1>2. CASE HostResizes
  BY <1>2, OtherStepsBlk DEF HostResizes
<1>3. CASE AddBlk
  BY <1>3, OtherStepsBlk DEF AddBlk
<1>4. CASE Restart
  BY <1>4, OtherStepsBlk
<1>5. CASE ~UseDisk /\ ~HostResizes /\ ~AddBlk /\ ~Restart
  <2>1. UNCHANGED blkVars
    BY <1>5 DEF Next, vars, AllocCore, LoadKernel, NoTree, LoadInitrd, LoadDtb, AddUart,
                AddFramebuffer, AddPlic, AddInput, AddNet, TellMemory, Off, MemoryOnly
  <2> QED BY <2>1, OtherStepsBlk
<1> QED BY <1>1, <1>2, <1>3, <1>4, <1>5

\* The inductive invariant holds in every reachable state.
THEOREM SpecIInv == Spec => []IInv
<1>1. IInv /\ [Next]_vars => IInv'
  BY MemoryStep, ListStep, BlkStep DEF IInv
<1> QED BY <1>1, InitIInv, PTL DEF Spec

-----------------------------------------------------------------------------
(* What follows for the machine.                                           *)

\* For memory and images of any size, what guest_alloc and guest_top_alloc
\* hand out does not overlap, is in the memory, and is on the right side of
\* the end the device tree tells of, as long as the two ends have not met.
THEOREM RegionsCorrect == Spec => []RegionsDisjoint
<1>1. ASSUME IInv PROVE RegionsDisjoint
  <2> SUFFICES ASSUME next_guest_alloc <= next_guest_top_alloc
               PROVE  /\ \A r, s \in regions : r = s \/ Bytes(r) \cap Bytes(s) = {}
                      /\ \A r \in regions : Bytes(r) \subseteq 0 .. opt.ram - 1
                      /\ \A r \in regions : told # None =>
                            IF r.name \in {"CORE", "FB"} THEN r.base >= told ELSE r.base + r.size <= told
    BY DEF RegionsDisjoint
  <2>1. /\ next_guest_alloc \in Nat /\ next_guest_top_alloc \in Int /\ opt.ram \in Nat
        /\ next_guest_top_alloc <= opt.ram
        /\ told # None => told = next_guest_top_alloc
    BY <1>1, Sizes DEF IInv, EndsOfMemory
  <2>2. ASSUME NEW r \in regions
        PROVE  /\ r.base \in Int /\ r.size \in Nat
               /\ EndOf(r) = r.base + r.size
               /\ IF AtTop(r) THEN next_guest_top_alloc <= r.base /\ EndOf(r) <= opt.ram
                              ELSE 0 <= r.base /\ EndOf(r) <= next_guest_alloc
    BY <1>1 DEF IInv, RegionsInOrder, EndOf
  <2>3. ASSUME NEW r \in regions, NEW s \in regions
        PROVE  r = s \/ EndOf(r) <= s.base \/ EndOf(s) <= r.base
    <3>1. CASE AtTop(r) = AtTop(s)
      BY <1>1, <3>1 DEF IInv, RegionsInOrder
    <3>2. CASE AtTop(r) /\ ~AtTop(s)
      BY <2>1, <2>2, <3>2
    <3>3. CASE ~AtTop(r) /\ AtTop(s)
      BY <2>1, <2>2, <3>3
    <3> QED BY <3>1, <3>2, <3>3 DEF AtTop
  <2>4. ASSUME NEW r \in regions, NEW s \in regions PROVE r = s \/ Bytes(r) \cap Bytes(s) = {}
    BY <2>2, <2>3 DEF Bytes
  <2>5. ASSUME NEW r \in regions PROVE Bytes(r) \subseteq 0 .. opt.ram - 1
    BY <2>1, <2>2 DEF Bytes
  <2>6. ASSUME NEW r \in regions, told # None
        PROVE  IF r.name \in {"CORE", "FB"} THEN r.base >= told ELSE r.base + r.size <= told
    BY <2>1, <2>2, <2>6 DEF AtTop
  <2> QED BY <2>4, <2>5, <2>6
<1> QED BY <1>1, SpecIInv, PTL

\* An address in the range of exactly one handler, or of controllers the first
\* of which is the newest, is routed there.
LEMMA RouteFirst ==
  ASSUME root \in Seq(Handlers), NEW addr, NEW p \in DOMAIN root, addr \in Bytes(root[p]),
         \A j \in DOMAIN root : addr \in Bytes(root[j]) => p <= j
  PROVE  Route(addr) = root[p].dev
<1> DEFINE hits == {i \in DOMAIN root : addr \in Bytes(root[i])}
           first == CHOOSE i \in hits : \A j \in hits : i <= j
<1>1. p \in hits /\ \A j \in hits : p <= j
  OBVIOUS
<1>2. first \in hits /\ \A j \in hits : first <= j
  BY <1>1
<1>3. DOMAIN root \subseteq Int
  OBVIOUS
<1>4. first \in Int /\ p \in Int /\ first <= p /\ p <= first
  BY <1>1, <1>2, <1>3
<1>5. first = p
  <2> HIDE DEF first
  <2> QED BY <1>4
<1>6. Route(addr) = IF hits = {} THEN None ELSE root[first].dev
  BY DEF Route
<1> QED BY <1>1, <1>5, <1>6

\* In every boot each device of the tree answers at its base under an
\* interrupt of its own, the controller at its own, and the console at the
\* first base: mmio_routed_load and mmio_routed_store find the right handler
\* however many devices of earlier boots are in the list.
THEOREM DevicesCorrect == Spec => []DevicesAnswer
<1>1. ASSUME IInv PROVE DevicesAnswer
  <2> SUFFICES ASSUME phase = "run", opt.dtb, next_base <= PlicBase
               PROVE  /\ \A d \in tree : \A a \in Bytes(d) : Route(a) = d.dev
                      /\ \A d, e \in tree : d.irq = e.irq => d = e
                      /\ \A a \in {PlicBase, PlicBase + PlicSize - 1} : Route(a) = <<"plic", restarts>>
                      /\ Route(0) = <<"uart", 0>>
    BY DEF DevicesAnswer
  <2>1. /\ root \in Seq(Handlers) /\ next_base \in Nat
        /\ PlicBase \in Nat /\ PlicSize \in Nat /\ PlicSize > 0 /\ UartSize \in Nat /\ UartSize > 0
    BY <1>1, BootAssumption DEF IInv, HandlersInOrder
  <2>2. \A i \in DOMAIN root : i \in Nat /\ root[i].base \in Nat /\ root[i].size \in Nat
    <3>1. \A i \in DOMAIN root : i \in Nat /\ root[i] \in Handlers
      BY <2>1
    <3> QED BY <3>1 DEF Handlers
  <2>3. ASSUME NEW i \in DOMAIN root, ~IsPlic(root[i]), NEW a \in Bytes(root[i]),
               NEW j \in DOMAIN root, a \in Bytes(root[j])
        PROVE  i <= j
    <3>1. /\ EndOf(root[i]) <= next_base /\ root[i].base <= a /\ a < EndOf(root[i])
          /\ root[j].base <= a /\ a < EndOf(root[j]) /\ a \in Int
      BY <1>1, <2>2, <2>3 DEF IInv, HandlersInOrder, Bytes, EndOf
    <3>2. ~IsPlic(root[j])
      <4>1. ASSUME IsPlic(root[j]) PROVE FALSE
        <5>1. root[j].base = PlicBase
          BY <1>1, <4>1 DEF IInv, HandlersInOrder
        <5> QED BY <2>1, <2>2, <3>1, <5>1 DEF EndOf
      <4> QED BY <4>1
    <3>3. ~(j < i)
      <4>1. ASSUME j < i PROVE FALSE
        <5>1. EndOf(root[i]) <= root[j].base
          BY <1>1, <2>3, <3>2, <4>1 DEF IInv, HandlersInOrder
        <5> QED BY <2>2, <3>1, <5>1 DEF EndOf
      <4> QED BY <4>1
    <3> QED BY <2>2, <3>3
  <2>4. ASSUME NEW d \in tree, NEW a \in Bytes(d) PROVE Route(a) = d.dev
    <3>1. PICK i \in DOMAIN root : root[i] = Handler(d) /\ ~IsPlic(root[i])
      BY <1>1 DEF IInv, TreeInList
    <3>2. a \in Bytes(root[i]) /\ root[i].dev = d.dev
      BY <3>1 DEF Handler, Bytes
    <3> QED BY <2>1, <2>3, <3>1, <3>2, RouteFirst
  <2>5. \A d, e \in tree : d.irq = e.irq => d = e
    BY <1>1 DEF IInv, TreeInList
  <2>6. ASSUME NEW a \in {PlicBase, PlicBase + PlicSize - 1} PROVE Route(a) = <<"plic", restarts>>
    <3>1. PICK p \in DOMAIN root :
            root[p] = PlicOf(restarts) /\ \A j \in DOMAIN root : j < p => ~IsPlic(root[j])
      BY <1>1 DEF IInv, NewestPlic, WithPlic
    <3>2. a \in Bytes(root[p]) /\ root[p].dev = <<"plic", restarts>> /\ a \in Int /\ PlicBase <= a
      BY <2>1, <3>1 DEF PlicOf, Bytes
    <3>3. ASSUME NEW j \in DOMAIN root, a \in Bytes(root[j]) PROVE p <= j
      <4>1. IsPlic(root[j])
        <5>1. ASSUME ~IsPlic(root[j]) PROVE FALSE
          <6>1. EndOf(root[j]) <= next_base
            BY <1>1, <5>1 DEF IInv, HandlersInOrder
          <6>2. a < EndOf(root[j]) /\ EndOf(root[j]) \in Int
            BY <2>2, <3>2, <3>3 DEF Bytes, EndOf
          <6> QED BY <2>1, <3>2, <6>1, <6>2
        <5> QED BY <5>1
      <4> QED BY <2>2, <3>1, <4>1
    <3> QED BY <2>1, <3>2, <3>3, RouteFirst
  <2>7. Route(0) = <<"uart", 0>>
    <3>1. root # <<>> /\ root[Len(root)] = FirstUart
      BY <1>1 DEF IInv, OldestUart, WithUart, WithPlic
    <3>2. Len(root) \in DOMAIN root
      BY <2>1, <3>1
    <3>3. 0 \in Bytes(root[Len(root)]) /\ ~IsPlic(root[Len(root)])
          /\ root[Len(root)].dev = <<"uart", 0>>
      BY <2>1, <3>1 DEF FirstUart, Bytes, IsPlic
    <3> QED BY <2>1, <2>3, <3>2, <3>3, RouteFirst
  <2> QED BY <2>4, <2>5, <2>6, <2>7
<1> QED BY <1>1, SpecIInv, PTL

\* The capacity the driver of the disk uses is a size the image has had, never
\* half of one and half of another, and it is told of a new one
\* (virtio_config_changed, virtio_blk_config_load).
THEOREM CapacityCorrect == Spec => []CapacityWholeAndFresh
<1>1. IInv => CapacityWholeAndFresh
  BY DEF IInv, BlkIInv
<1> QED BY <1>1, SpecIInv, PTL
=============================================================================
