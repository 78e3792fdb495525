----------------------------- MODULE NetRxProofs -----------------------------
(* For every set of receive buffers, and for every interleaving of the two *)
(* threads: who holds which mutex, where each buffer is, that the list is  *)
(* a queue, and that no packet is left without its interrupt but in the    *)
(* windows the model records.                                              *)
EXTENDS NetRx, TLAPS

-----------------------------------------------------------------------------
(* The parts of the main thread, as its actions are grouped below.         *)

PlicCall == MainLoad \/ MainStore \/ MainTest \/ MainLine
Loop == StepBegin \/ StepEnd
Offer == (\E c \in Chains : Notify(c)) \/ LockQueue \/ Walk \/ UnlockQueue
Acknowledge == AckLoad \/ AckStore \/ \E value \in SUBSET {Used} : AckTest(value)
Handler == Claim \/ StatusLoad \/ Acknowledge \/ Drain \/ UartRead \/ Complete

\* Those of the reader thread.
TakeBuffer == Read \/ Take \/ Unlink \/ ReaderUnlockQueue
FillBuffer == Use \/ ReaderStatusLoad \/ ReaderStatusStore
RaiseSource == ReaderLockPlic \/ ReaderLoad \/ ReaderStore \/ ReaderTest \/ ReaderUnlockPlic
RaiseLine == ReaderLockHart \/ ReaderLine \/ ReaderUnlockHart

\* Every action is in one of them.
LEMMA Groups ==
  /\ MainThread => PlicCall \/ Loop \/ Offer \/ Handler
  /\ ReaderThread => TakeBuffer \/ FillBuffer \/ RaiseSource \/ RaiseLine
  BY DEF MainThread, PlicCall, Loop, Offer, Handler, Acknowledge,
         ReaderThread, TakeBuffer, FillBuffer, RaiseSource, RaiseLine

-----------------------------------------------------------------------------
(* The mutexes.                                                            *)

\* Each lock and each unlock moves the owner and the program counter together.
LEMMA LocksStep ==
  ASSUME TypeOK, LocksHeld, MainThread \/ ReaderThread
  PROVE  LocksHeld'
<1> USE DEF LocksHeld, InStep, Calling, Main, Reader, Nobody, locks, call, Call, reader, main, TypeOK
<1>1. CASE PlicCall
  BY <1>1 DEF PlicCall, MainLoad, MainStore, MainTest, MainLine
<1>2. CASE Loop
  BY <1>2 DEF Loop, StepBegin, StepEnd
<1>3. CASE Offer
  BY <1>3 DEF Offer, Notify, LockQueue, Walk, UnlockQueue
<1>4. CASE Handler
  BY <1>4 DEF Handler, Acknowledge, Claim, StatusLoad, AckLoad, AckStore, AckTest,
              Drain, UartRead, Complete
<1>5. CASE TakeBuffer
  BY <1>5 DEF TakeBuffer, Read, Take, Unlink, ReaderUnlockQueue
<1>6. CASE FillBuffer
  BY <1>6 DEF FillBuffer, Use, ReaderStatusLoad, ReaderStatusStore
<1>7. CASE RaiseSource
  BY <1>7 DEF RaiseSource, ReaderLockPlic, ReaderLoad, ReaderStore, ReaderTest,
              ReaderUnlockPlic
<1>8. CASE RaiseLine
  BY <1>8 DEF RaiseLine, ReaderLockHart, ReaderLine, ReaderUnlockHart
<1> QED BY <1>1, <1>2, <1>3, <1>4, <1>5, <1>6, <1>7, <1>8, Groups

\* The lowest of some interrupts is one of them.
LEMMA LowestIn ==
  ASSUME NEW s \in SUBSET Irqs, s # {}
  PROVE  Lowest(s) \in s
<1>1. \E i \in s : \A j \in s : i <= j
  <2>1. \A j \in s : j = Uart \/ j = Net
    BY DEF Irqs
  <2>2. CASE Uart \in s
    BY <2>1, <2>2 DEF Uart, Net
  <2>3. CASE Uart \notin s
    BY <2>1, <2>3 DEF Uart, Net
  <2> QED BY <2>2, <2>3
<1> QED BY <1>1 DEF Lowest

\* The handler's place tells the claim, whatever the handler does.
LEMMA HandlerStep ==
  ASSUME TypeOK, HandlerPlace, MainThread \/ ReaderThread
  PROVE  HandlerPlace'
<1> USE DEF HandlerPlace, Calling, plic, call, Call, guest, main, TypeOK
<1>1. CASE PlicCall
  BY <1>1 DEF PlicCall, MainLoad, MainStore, MainTest, MainLine
<1>2. CASE Loop
  BY <1>2 DEF Loop, StepBegin, StepEnd, Uart, Net
<1>3. CASE Offer
  BY <1>3 DEF Offer, Notify, LockQueue, Walk, UnlockQueue
<1>4. CASE Handler
  <2>1. CASE Claim
    <3>1. Unmasked # {} => Lowest(Unmasked) \in {Uart, Net}
      <4>1. Unmasked \in SUBSET Irqs
        BY DEF Unmasked
      <4>2. Unmasked # {} => Lowest(Unmasked) \in Irqs
        BY <4>1, LowestIn
      <4> QED BY <4>2 DEF Irqs
    <3>2. irq_claimed = {} /\ mpc' = "step" /\ UNCHANGED <<op, irq, ret>>
      BY <2>1 DEF Claim
    <3>3. CASE Unmasked = {}
      BY <2>1, <3>2, <3>3 DEF Claim
    <3>4. CASE Unmasked # {} /\ Lowest(Unmasked) = Net
      <4>1. irq_claimed' = {Net} /\ handler' = "status"
        BY <2>1, <3>2, <3>4 DEF Claim
      <4> QED BY <3>2, <4>1
    <3>5. CASE Unmasked # {} /\ Lowest(Unmasked) = Uart
      <4>1. irq_claimed' = {Uart} /\ handler' = "uart"
        BY <2>1, <3>2, <3>5 DEF Claim, Uart, Net
      <4> QED BY <3>2, <4>1
    <3> QED BY <3>1, <3>3, <3>4, <3>5
  <2>2. CASE StatusLoad \/ Acknowledge \/ Drain
    BY <2>2 DEF StatusLoad, Acknowledge, AckLoad, AckStore, AckTest, Drain
  <2>3. CASE UartRead \/ Complete
    BY <2>3 DEF UartRead, Complete, Uart, Net
  <2> QED BY <1>4, <2>1, <2>2, <2>3 DEF Handler
<1>5. CASE TakeBuffer
  BY <1>5 DEF TakeBuffer, Read, Take, Unlink, ReaderUnlockQueue
<1>6. CASE FillBuffer
  BY <1>6 DEF FillBuffer, Use, ReaderStatusLoad, ReaderStatusStore
<1>7. CASE RaiseSource
  BY <1>7 DEF RaiseSource, ReaderLockPlic, ReaderLoad, ReaderStore, ReaderTest,
              ReaderUnlockPlic
<1>8. CASE RaiseLine
  BY <1>8 DEF RaiseLine, ReaderLockHart, ReaderLine, ReaderUnlockHart
<1> QED BY <1>1, <1>2, <1>3, <1>4, <1>5, <1>6, <1>7, <1>8, Groups

-----------------------------------------------------------------------------
(* The types, and what the registers hold.                                 *)

\* What is walked over is a node.
LEMMA InListIsChain == TypeOK => InList \subseteq Chains
  BY DEF TypeOK, InList

\* Every step keeps the types.
LEMMA TypeStep ==
  ASSUME TypeOK, RegistersFit, MainThread \/ ReaderThread
  PROVE  TypeOK'
<1> USE DEF TypeOK, plic, locks, list, rings, call, Call, append, guest, main, reader
<1>1. CASE PlicCall
  <2>1. CASE MainStore
    BY <2>1 DEF MainStore
  <2>2. CASE MainLoad \/ MainTest \/ MainLine
    BY <2>2 DEF MainLoad, MainTest, MainLine, Unmasked
  <2> QED BY <1>1, <2>1, <2>2 DEF PlicCall
<1>2. CASE Loop
  BY <1>2 DEF Loop, StepBegin, StepEnd, Irqs
<1>3. CASE Offer
  <2>1. ASSUME NEW c \in Chains, Notify(c) PROVE TypeOK'
    BY <2>1 DEF Notify
  <2>2. CASE LockQueue
    <3>1. node \in Chains /\ Append(order, node) \in Seq(Chains)
      BY <2>2 DEF LockQueue, RegistersFit
    <3> QED BY <2>2, <3>1 DEF LockQueue
  <2>3. CASE Walk
    <3>1. node \in Chains /\ tail \in Chains /\ Append(order, node) \in Seq(Chains)
      BY <2>3, InListIsChain DEF Walk, RegistersFit
    <3> QED BY <2>3, <3>1 DEF Walk
  <2>4. CASE UnlockQueue
    BY <2>4 DEF UnlockQueue
  <2> QED BY <1>3, <2>1, <2>2, <2>3, <2>4 DEF Offer
<1>4. CASE Handler
  <2>1. CASE Claim
    <3>1. Unmasked \in SUBSET Irqs
      BY DEF Unmasked
    <3>2. irq_claimed' \subseteq Irqs
      BY <2>1, <3>1, LowestIn DEF Claim
    <3> QED BY <2>1, <3>2 DEF Claim
  <2>2. CASE StatusLoad
    BY <2>2 DEF StatusLoad
  <2>3. CASE Acknowledge
    <3>1. Used \in Irqs /\ Net \in Irqs
      BY DEF Used, Irqs, Uart
    <3>2. CASE AckLoad
      BY <3>1, <3>2 DEF AckLoad
    <3>3. CASE AckStore
      <4>1. status' \subseteq {Used} /\ mval' \subseteq Irqs
        BY <3>1, <3>3 DEF AckStore, RegistersFit
      <4> QED BY <3>3, <4>1 DEF AckStore
    <3>4. ASSUME NEW value \in SUBSET {Used}, AckTest(value) PROVE TypeOK'
      BY <3>1, <3>4 DEF AckTest
    <3> QED BY <2>3, <3>2, <3>3, <3>4 DEF Acknowledge
  <2>4. CASE Drain
    BY <2>4 DEF Drain
  <2>5. CASE UartRead
    BY <2>5 DEF UartRead, Irqs
  <2>6. CASE Complete
    BY <2>6 DEF Complete
  <2> QED BY <1>4, <2>1, <2>2, <2>3, <2>4, <2>5, <2>6 DEF Handler
<1>5. CASE TakeBuffer
  <2>1. CASE Unlink
    <3>1. rnode \in Chains /\ Tail(order) \in Seq(Chains)
      BY <2>1 DEF Unlink, RegistersFit
    <3> QED BY <2>1, <3>1 DEF Unlink
  <2>2. CASE Read \/ Take \/ ReaderUnlockQueue
    BY <2>2 DEF Read, Take, ReaderUnlockQueue
  <2> QED BY <1>5, <2>1, <2>2 DEF TakeBuffer
<1>6. CASE FillBuffer
  <2>1. Used \in Irqs
    BY DEF Used, Irqs, Uart
  <2> QED BY <1>6, <2>1 DEF FillBuffer, Use, ReaderStatusLoad, ReaderStatusStore, RegistersFit
<1>7. CASE RaiseSource
  <2>1. CASE ReaderStore
    <3>1. irq_pending' \subseteq Irqs
      BY <2>1 DEF ReaderStore, Irqs
    <3> QED BY <2>1, <3>1 DEF ReaderStore
  <2>2. CASE ReaderLockPlic \/ ReaderLoad \/ ReaderTest \/ ReaderUnlockPlic
    BY <2>2 DEF ReaderLockPlic, ReaderLoad, ReaderTest, ReaderUnlockPlic
  <2> QED BY <1>7, <2>1, <2>2 DEF RaiseSource
<1>8. CASE RaiseLine
  BY <1>8 DEF RaiseLine, ReaderLockHart, ReaderLine, ReaderUnlockHart
<1> QED BY <1>1, <1>2, <1>3, <1>4, <1>5, <1>6, <1>7, <1>8, Groups

-----------------------------------------------------------------------------
(* The list.                                                               *)

\* The owners of a buffer, two by two.
Apart(S, T) == S \cap T = {}
LEMMA Owners ==
  BufferHasOneOwner <=>
    /\ free \cup used \cup WithMain \cup WithReader \cup InList = Chains
    /\ Apart(free, used) /\ Apart(free, WithMain) /\ Apart(free, WithReader)
    /\ Apart(free, InList) /\ Apart(used, WithMain) /\ Apart(used, WithReader)
    /\ Apart(used, InList) /\ Apart(WithMain, WithReader)
    /\ Apart(WithMain, InList) /\ Apart(WithReader, InList)
  BY DEF BufferHasOneOwner, Apart

\* The head is the NULL of an empty list only; a node that is linked to nothing
\* is the last, and one that is linked is followed by the next of the queue.
LEMMA LinkedFacts ==
  ASSUME TypeOK, Linked
  PROVE  /\ queue_head = NULL <=> order = <<>>
         /\ queue_head # NULL => queue_head \in InList
         /\ \A k \in 1 .. Len(order) : next[order[k]] = NULL <=> k = Len(order)
         /\ \A c \in InList : next[c] # NULL => next[c] \in InList
<1>1. order \in Seq(Chains) /\ \A k \in 1 .. Len(order) : order[k] \in Chains /\ order[k] # NULL
  BY ChainsAssumption DEF TypeOK
<1>2. order # <<>> => Head(order) = order[1] /\ 1 \in 1 .. Len(order)
  BY <1>1
<1>3. queue_head = NULL <=> order = <<>>
  BY <1>1, <1>2 DEF Linked
<1>4. queue_head # NULL => queue_head \in InList
  BY <1>1, <1>2 DEF Linked, InList
<1>5. \A k \in 1 .. Len(order) : next[order[k]] = NULL <=> k = Len(order)
  BY <1>1 DEF Linked
<1>6. ASSUME NEW c \in InList, next[c] # NULL PROVE next[c] \in InList
  <2>1. PICK k \in 1 .. Len(order) : c = order[k]
    BY DEF InList
  <2>2. k + 1 \in 1 .. Len(order) /\ next[c] = order[k + 1]
    BY <1>1, <1>6, <2>1 DEF Linked
  <2> QED BY <2>2 DEF InList
<1> QED BY <1>3, <1>4, <1>5, <1>6

\* A node put at the end is in the list, after all the others.
LEMMA AppendFacts ==
  ASSUME TypeOK, NEW c \in Chains, order' = Append(order, c)
  PROVE  /\ Len(order') = Len(order) + 1 /\ order' \in Seq(Chains) /\ order' # <<>>
         /\ \A k \in 1 .. Len(order) : order'[k] = order[k]
         /\ order'[Len(order) + 1] = c
         /\ InList' = InList \cup {c}
<1>1. /\ Len(order') = Len(order) + 1 /\ order' \in Seq(Chains) /\ order' # <<>>
      /\ \A k \in 1 .. Len(order) : order'[k] = order[k]
      /\ order'[Len(order) + 1] = c
      /\ Len(order) \in Nat
  BY DEF TypeOK
<1>2. InList' = InList \cup {c}
  <2>1. ASSUME NEW x \in InList' PROVE x \in InList \cup {c}
    <3>1. PICK k \in 1 .. Len(order) + 1 : x = order'[k]
      BY <1>1 DEF InList
    <3> QED BY <1>1, <3>1 DEF InList
  <2>2. ASSUME NEW x \in InList PROVE x \in InList'
    <3>1. PICK k \in 1 .. Len(order) : x = order[k]
      BY DEF InList
    <3>2. k \in 1 .. Len(order') /\ order'[k] = x
      BY <1>1, <3>1
    <3> QED BY <3>2 DEF InList
  <2>3. c \in InList'
    <3>1. Len(order) + 1 \in 1 .. Len(order')
      BY <1>1
    <3> QED BY <1>1, <3>1 DEF InList
  <2> QED BY <2>1, <2>2, <2>3
<1> QED BY <1>1, <1>2

\* A node taken from the front leaves the others in the list, and only them.
LEMMA UnlinkFacts ==
  ASSUME TypeOK, Linked, order # <<>>, order' = Tail(order)
  PROVE  /\ Len(order') = Len(order) - 1 /\ order' \in Seq(Chains)
         /\ \A k \in 1 .. Len(order) - 1 : order'[k] = order[k + 1]
         /\ Head(order) \in InList
         /\ InList' = InList \ {Head(order)}
<1>1. /\ Len(order') = Len(order) - 1 /\ order' \in Seq(Chains)
      /\ \A k \in 1 .. Len(order) - 1 : order'[k] = order[k + 1]
      /\ Head(order) = order[1] /\ Len(order) \in Nat /\ Len(order) > 0
  BY DEF TypeOK
<1>2. Head(order) \in InList
  BY <1>1 DEF InList
<1>3. InList' = InList \ {Head(order)}
  <2>1. ASSUME NEW x \in InList' PROVE x \in InList /\ x # Head(order)
    <3>1. PICK k \in 1 .. Len(order) - 1 : x = order'[k]
      BY <1>1 DEF InList
    <3>2. k + 1 \in 1 .. Len(order) /\ x = order[k + 1] /\ 1 \in 1 .. Len(order) /\ k + 1 # 1
      BY <1>1, <3>1
    <3>3. x # order[1]
      BY <3>2 DEF Linked
    <3> QED BY <1>1, <3>2, <3>3 DEF InList
  <2>2. ASSUME NEW x \in InList, x # Head(order) PROVE x \in InList'
    <3>1. PICK k \in 1 .. Len(order) : x = order[k]
      BY DEF InList
    <3>2. k - 1 \in 1 .. Len(order') /\ order'[k - 1] = x
      BY <1>1, <2>2, <3>1
    <3> QED BY <3>2 DEF InList
  <2> QED BY <2>1, <2>2
<1> QED BY <1>1, <1>2, <1>3

\* Only a notify, its walk and the unlinking touch the list; each leaves it
\* linked from the head to the last node offered.
LEMMA LinkedStep ==
  ASSUME TypeOK, LocksHeld, RegistersFit, Linked, BufferHasOneOwner,
         MainThread \/ ReaderThread
  PROVE  Linked'
<1> USE DEF list
<1>1. order \in Seq(Chains) /\ \A k \in 1 .. Len(order) : order[k] \in InList /\ order[k] \in Chains
  BY DEF TypeOK, InList
<1>2. ASSUME UNCHANGED list PROVE Linked'
  BY <1>2 DEF Linked
<1>3. ASSUME NEW c \in Chains, Notify(c) PROVE Linked'
  <2>1. \A k \in 1 .. Len(order) : order[k] # c
    BY <1>1, <1>3, Owners DEF Notify, Apart
  <2>2. \A k \in 1 .. Len(order) : next'[order[k]] = next[order[k]]
    BY <1>1, <1>3, <2>1 DEF Notify, TypeOK
  <2> QED BY <1>3, <2>2 DEF Notify, Linked
<1>4. CASE LockQueue
  <2>1. CASE queue_head = NULL
    <3>1. order = <<>> /\ node \in Chains /\ next[node] = NULL
      BY <1>4, <2>1, LinkedFacts DEF LockQueue, RegistersFit
    <3>2. queue_head' = node /\ order' = <<node>> /\ next' = next
      BY <1>4, <2>1, <3>1 DEF LockQueue
    <3> QED BY <3>1, <3>2 DEF Linked
  <2>2. CASE queue_head # NULL
    BY <1>2, <1>4, <2>2 DEF LockQueue
  <2> QED BY <2>1, <2>2
<1>5. CASE Walk
  <2>1. CASE next[tail] # NULL
    BY <1>2, <1>5, <2>1 DEF Walk
  <2>2. CASE next[tail] = NULL
    <3>1. /\ next' = [next EXCEPT ![tail] = node] /\ order' = Append(order, node)
          /\ queue_head' = queue_head /\ mpc = "walk"
      BY <1>5, <2>2 DEF Walk
    <3>2. node \in Chains /\ next[node] = NULL /\ tail \in InList /\ node \notin InList
      BY <3>1, Owners DEF RegistersFit, Apart, WithMain
    <3>3. PICK last \in 1 .. Len(order) : tail = order[last]
      BY <3>2 DEF InList
    <3>4. last = Len(order) /\ order # <<>>
      BY <2>2, <3>3, <1>1, LinkedFacts
    <3>5. /\ Len(order') = Len(order) + 1 /\ order' # <<>>
          /\ \A k \in 1 .. Len(order) : order'[k] = order[k]
          /\ order'[Len(order) + 1] = node
      BY <3>1, <3>2, AppendFacts
    <3>6. /\ next'[tail] = node /\ next'[node] = NULL
          /\ \A k \in 1 .. Len(order) - 1 : next'[order[k]] = order[k + 1]
      <4>1. \A k \in 1 .. Len(order) - 1 : order[k] # tail /\ next[order[k]] = order[k + 1]
        BY <1>1, <3>3, <3>4 DEF Linked
      <4> QED BY <1>1, <3>1, <3>2, <4>1, InListIsChain DEF TypeOK
    <3>7. queue_head' = Head(order')
      <4>1. Head(order') = order'[1] /\ Head(order) = order[1] /\ 1 \in 1 .. Len(order)
        BY <1>1, <3>1, <3>2, <3>4, AppendFacts
      <4> QED BY <3>1, <3>4, <3>5, <4>1 DEF Linked
    <3>8. \A k \in 1 .. Len(order') :
            next'[order'[k]] = IF k = Len(order') THEN NULL ELSE order'[k + 1]
      <4> SUFFICES ASSUME NEW k \in 1 .. Len(order')
                   PROVE  next'[order'[k]] = IF k = Len(order') THEN NULL ELSE order'[k + 1]
        OBVIOUS
      <4>1. CASE k = Len(order) + 1
        BY <3>5, <3>6, <4>1
      <4>2. CASE k = Len(order)
        BY <1>1, <3>3, <3>4, <3>5, <3>6, <4>2
      <4>3. CASE k \in 1 .. Len(order) - 1
        <5>1. k + 1 \in 1 .. Len(order) /\ k \in 1 .. Len(order) /\ k # Len(order')
          BY <1>1, <3>5, <4>3
        <5> QED BY <3>5, <3>6, <4>3, <5>1
      <4> QED BY <1>1, <3>5, <4>1, <4>2, <4>3
    <3>9. \A j, k \in 1 .. Len(order') : order'[j] = order'[k] => j = k
      <4>1. \A k \in 1 .. Len(order) : order'[k] # node
        BY <1>1, <3>2, <3>5
      <4>2. \A j, k \in 1 .. Len(order) : order'[j] = order'[k] => j = k
        BY <3>5 DEF Linked
      <4>3. \A k \in 1 .. Len(order') : k \in 1 .. Len(order) \/ k = Len(order) + 1
        BY <1>1, <3>5
      <4> QED BY <3>5, <4>1, <4>2, <4>3
    <3> QED BY <3>5, <3>7, <3>8, <3>9 DEF Linked
  <2> QED BY <2>1, <2>2
<1>6. CASE Unlink
  <2>1. order # <<>> /\ rnode = Head(order) /\ queue_head' = next[rnode] /\ order' = Tail(order)
        /\ next' = next
    BY <1>6 DEF Unlink, RegistersFit
  <2>2. /\ Len(order') = Len(order) - 1 /\ order' \in Seq(Chains)
        /\ \A k \in 1 .. Len(order) - 1 : order'[k] = order[k + 1]
    BY <2>1, UnlinkFacts
  <2>3. rnode = order[1] /\ 1 \in 1 .. Len(order) /\ Len(order) \in Nat
    BY <1>1, <2>1
  <2>4. queue_head' = IF Len(order) = 1 THEN NULL ELSE order[2]
    <3>1. next[order[1]] = IF 1 = Len(order) THEN NULL ELSE order[1 + 1]
      BY <2>3 DEF Linked
    <3> QED BY <2>1, <2>3, <3>1
  <2>5. queue_head' = IF order' = <<>> THEN NULL ELSE Head(order')
    BY <2>2, <2>3, <2>4
  <2>6. \A k \in 1 .. Len(order') :
          next'[order'[k]] = IF k = Len(order') THEN NULL ELSE order'[k + 1]
    <3> SUFFICES ASSUME NEW k \in 1 .. Len(order')
                 PROVE  next'[order'[k]] = IF k = Len(order') THEN NULL ELSE order'[k + 1]
      OBVIOUS
    <3>1. order'[k] = order[k + 1] /\ k + 1 \in 1 .. Len(order)
      BY <2>2, <2>3
    <3>2. next[order[k + 1]] = IF k + 1 = Len(order) THEN NULL ELSE order[k + 1 + 1]
      BY <3>1 DEF Linked
    <3>3. CASE k + 1 = Len(order)
      BY <2>1, <2>2, <2>3, <3>1, <3>2, <3>3
    <3>4. CASE k + 1 # Len(order)
      <4>1. k + 1 \in 1 .. Len(order) - 1 /\ k # Len(order')
        BY <2>2, <2>3, <3>1, <3>4
      <4>2. order'[k + 1] = order[k + 1 + 1]
        BY <2>2, <4>1
      <4> QED BY <2>1, <3>1, <3>2, <3>4, <4>1, <4>2
    <3> QED BY <3>3, <3>4
  <2>7. \A j, k \in 1 .. Len(order') : order'[j] = order'[k] => j = k
    <3> SUFFICES ASSUME NEW j \in 1 .. Len(order'), NEW k \in 1 .. Len(order'),
                        order'[j] = order'[k]
                 PROVE  j = k
      OBVIOUS
    <3>1. j \in 1 .. Len(order) - 1 /\ k \in 1 .. Len(order) - 1
      BY <2>2
    <3>2. order[j + 1] = order[k + 1]
      BY <2>2, <3>1
    <3>3. j + 1 \in 1 .. Len(order) /\ k + 1 \in 1 .. Len(order)
      BY <2>3, <3>1
    <3>4. j + 1 = k + 1
      BY <3>2, <3>3 DEF Linked
    <3> QED BY <3>1, <3>4
  <2> QED BY <2>5, <2>6, <2>7 DEF Linked
<1>7. CASE PlicCall \/ Loop \/ Handler \/ UnlockQueue
  <2>1. UNCHANGED list
    BY <1>7 DEF PlicCall, MainLoad, MainStore, MainTest, MainLine, Loop, StepBegin, StepEnd,
                Handler, Acknowledge, Claim, StatusLoad, AckLoad, AckStore, AckTest,
                Drain, UartRead, Complete, UnlockQueue
  <2> QED BY <1>2, <2>1
<1>8. CASE Read \/ Take \/ ReaderUnlockQueue \/ FillBuffer \/ RaiseSource \/ RaiseLine
  <2>1. UNCHANGED list
    BY <1>8 DEF Read, Take, ReaderUnlockQueue, FillBuffer, Use, ReaderStatusLoad,
                ReaderStatusStore, RaiseSource, ReaderLockPlic, ReaderLoad, ReaderStore,
                ReaderTest, ReaderUnlockPlic, RaiseLine, ReaderLockHart, ReaderLine,
                ReaderUnlockHart
  <2> QED BY <1>2, <2>1
<1> QED BY <1>3, <1>4, <1>5, <1>6, <1>7, <1>8, Groups DEF Offer, TakeBuffer

\* The registers hold what they are used for: neither thread changes the list
\* while the other is walking or unlinking.
LEMMA RegistersStep ==
  ASSUME TypeOK, LocksHeld, RegistersFit, Linked, BufferHasOneOwner, HandlerPlace,
         MainThread \/ ReaderThread
  PROVE  RegistersFit'
<1> USE DEF RegistersFit, InList
<1> USE DEF list, call, Call, append, guest, main, reader
<1>1. CASE PlicCall
  BY <1>1 DEF PlicCall, MainLoad, MainStore, MainTest, MainLine, TypeOK
<1>2. CASE Loop
  BY <1>2 DEF Loop, StepBegin, StepEnd
<1>3. CASE Offer
  <2>1. ASSUME NEW c \in Chains, Notify(c) PROVE RegistersFit'
    <3>1. next'[c] = NULL
      BY <2>1 DEF Notify, TypeOK
    <3> QED BY <2>1, <3>1 DEF Notify
  <2>2. CASE LockQueue
    <3>1. rpc # "unlink"
      BY <2>2 DEF LockQueue, LocksHeld, Nobody, Reader
    <3>2. queue_head # NULL => queue_head \in InList
      BY LinkedFacts
    <3> QED BY <2>2, <3>1, <3>2 DEF LockQueue
  <2>3. CASE Walk
    <3>1. rpc # "unlink"
      BY <2>3 DEF Walk, LocksHeld, Main, Reader
    <3>2. next[tail] # NULL => next[tail] \in InList
      BY <2>3, LinkedFacts DEF Walk
    <3> QED BY <2>3, <3>1, <3>2 DEF Walk
  <2>4. CASE UnlockQueue
    BY <2>4 DEF UnlockQueue
  <2> QED BY <1>3, <2>1, <2>2, <2>3, <2>4 DEF Offer
<1>4. CASE Handler
  BY <1>4 DEF Handler, Acknowledge, Claim, StatusLoad, AckLoad, AckStore, AckTest,
              Drain, UartRead, Complete, TypeOK
<1>5. CASE TakeBuffer
  <2>1. CASE Unlink
    <3>1. mpc # "walk"
      BY <2>1 DEF Unlink, LocksHeld, Main, Reader
    <3> QED BY <2>1, <3>1 DEF Unlink
  <2>2. CASE Take
    BY <2>2, LinkedFacts DEF Take, Linked
  <2>3. CASE Read \/ ReaderUnlockQueue
    BY <2>3 DEF Read, ReaderUnlockQueue
  <2> QED BY <1>5, <2>1, <2>2, <2>3 DEF TakeBuffer
<1>6. CASE FillBuffer
  BY <1>6 DEF FillBuffer, Use, ReaderStatusLoad, ReaderStatusStore, TypeOK
<1>7. CASE RaiseSource
  BY <1>7 DEF RaiseSource, ReaderLockPlic, ReaderLoad, ReaderStore, ReaderTest,
              ReaderUnlockPlic
<1>8. CASE RaiseLine
  BY <1>8 DEF RaiseLine, ReaderLockHart, ReaderLine, ReaderUnlockHart
<1> QED BY <1>1, <1>2, <1>3, <1>4, <1>5, <1>6, <1>7, <1>8, Groups

\* A buffer changes hands in one step, from one owner to the next.
LEMMA OwnersStep ==
  ASSUME TypeOK, LocksHeld, RegistersFit, Linked, BufferHasOneOwner,
         MainThread \/ ReaderThread
  PROVE  BufferHasOneOwner'
<1> USE DEF list, rings, append, main, reader
<1>1. /\ free \cup used \cup WithMain \cup WithReader \cup InList = Chains
      /\ Apart(free, used) /\ Apart(free, WithMain) /\ Apart(free, WithReader)
      /\ Apart(free, InList) /\ Apart(used, WithMain) /\ Apart(used, WithReader)
      /\ Apart(used, InList) /\ Apart(WithMain, WithReader)
      /\ Apart(WithMain, InList) /\ Apart(WithReader, InList)
  BY Owners
<1> DEFINE OneOwnerNext ==
      /\ free' \cup used' \cup WithMain' \cup WithReader' \cup InList' = Chains
      /\ Apart(free', used') /\ Apart(free', WithMain') /\ Apart(free', WithReader')
      /\ Apart(free', InList') /\ Apart(used', WithMain') /\ Apart(used', WithReader')
      /\ Apart(used', InList') /\ Apart(WithMain', WithReader')
      /\ Apart(WithMain', InList') /\ Apart(WithReader', InList')
<1>2. SUFFICES OneOwnerNext
  <2>1. OneOwnerNext => BufferHasOneOwner'
    BY DEF BufferHasOneOwner, Apart
  <2> QED BY <2>1
<1>3. ASSUME UNCHANGED order PROVE InList' = InList
  BY <1>3 DEF InList
<1>4. ASSUME NEW c \in Chains, Notify(c) PROVE OneOwnerNext
  <2>1. /\ free' = free \ {c} /\ used' = used /\ c \in free
        /\ WithMain = {} /\ WithMain' = {c} /\ WithReader' = WithReader /\ InList' = InList
    BY <1>3, <1>4 DEF Notify, WithMain, WithReader
  <2> QED BY <1>1, <2>1 DEF Apart
<1>5. CASE LockQueue \/ Walk
  <2>1. UNCHANGED <<free, used, rpc, rnode, node>> /\ WithMain = {node} /\ node \in Chains
    BY <1>5 DEF LockQueue, Walk, WithMain, RegistersFit
  <2>2. WithReader' = WithReader
    BY <2>1 DEF WithReader
  <2>3. CASE mpc' = "unlockQueue"
    <3>1. order' = Append(order, node)
      BY <1>5, <2>3 DEF LockQueue, Walk
    <3>2. InList' = InList \cup {node} /\ WithMain' = {}
      BY <2>1, <2>3, <3>1, AppendFacts DEF WithMain
    <3> QED BY <1>1, <2>1, <2>2, <3>2 DEF Apart
  <2>4. CASE mpc' = "walk"
    <3>1. WithMain' = WithMain /\ order' = order
      BY <1>5, <2>1, <2>4 DEF LockQueue, Walk, WithMain
    <3> QED BY <1>1, <1>3, <2>1, <2>2, <3>1 DEF Apart
  <2> QED BY <1>5, <2>3, <2>4 DEF LockQueue, Walk
<1>6. CASE Drain
  <2>1. /\ free' \cup used' = free \cup used /\ Apart(free', used')
        /\ WithMain' = WithMain /\ WithReader' = WithReader /\ InList' = InList
    BY <1>1, <1>3, <1>6 DEF Drain, WithMain, WithReader, Apart
  <2> QED BY <1>1, <2>1 DEF Apart
<1>7. CASE Unlink
  <2>1. order # <<>> /\ rnode = Head(order) /\ rnode # NULL /\ order' = Tail(order)
    BY <1>7 DEF Unlink, RegistersFit
  <2>2. rnode \in InList /\ InList' = InList \ {rnode}
    BY <2>1, UnlinkFacts
  <2>3. /\ WithReader = {} /\ WithReader' = {rnode} /\ WithMain' = WithMain
        /\ free' = free /\ used' = used
    BY <1>7, <2>1 DEF Unlink, WithReader, WithMain
  <2> QED BY <1>1, <2>2, <2>3 DEF Apart
<1>8. CASE Use
  <2>1. /\ WithReader = {rnode} /\ WithReader' = {} /\ used' = used \cup {rnode}
        /\ free' = free /\ WithMain' = WithMain /\ InList' = InList
    BY <1>3, <1>8 DEF Use, WithReader, WithMain, RegistersFit
  <2> QED BY <1>1, <2>1 DEF Apart
<1>9. ASSUME UNCHANGED <<free, used, WithMain, WithReader, order>> PROVE OneOwnerNext
  BY <1>1, <1>3, <1>9
<1>10. CASE PlicCall \/ Loop \/ UnlockQueue \/ Claim \/ StatusLoad \/ Acknowledge
            \/ UartRead \/ Complete
  <2>1. UNCHANGED <<free, used, WithMain, WithReader, order>>
    BY <1>10
    DEF PlicCall, MainLoad, MainStore, MainTest, MainLine, Loop, StepBegin, StepEnd,
        UnlockQueue, Claim, StatusLoad, Acknowledge, AckLoad, AckStore, AckTest, UartRead,
        Complete, Call, WithMain, WithReader, TypeOK
  <2> QED BY <1>9, <2>1
<1>11. CASE Read \/ Take \/ ReaderUnlockQueue \/ ReaderStatusLoad \/ ReaderStatusStore
  <2>1. UNCHANGED <<free, used, WithMain, WithReader, order>>
    BY <1>11
    DEF Read, Take, ReaderUnlockQueue, ReaderStatusLoad, ReaderStatusStore, WithMain,
        WithReader
  <2> QED BY <1>9, <2>1
<1>12. CASE RaiseSource \/ RaiseLine
  <2>1. UNCHANGED <<free, used, WithMain, WithReader, order>>
    BY <1>12
    DEF RaiseSource, ReaderLockPlic, ReaderLoad, ReaderStore, ReaderTest, ReaderUnlockPlic,
        RaiseLine, ReaderLockHart, ReaderLine, ReaderUnlockHart, WithMain, WithReader
  <2> QED BY <1>9, <2>1
<1> QED
  BY <1>4, <1>5, <1>6, <1>7, <1>8, <1>10, <1>11, <1>12, Groups
  DEF Offer, Handler, TakeBuffer, FillBuffer

-----------------------------------------------------------------------------
(* The interrupt.                                                          *)

\* The line is taken down under a pending source only outside of a Step, after
\* a test the reader has overtaken, or while the guest's handler is running.
LEMMA LineStep ==
  ASSUME TypeOK, LocksHeld, RegistersFit, HandlerPlace, LineFollows,
         MainThread \/ ReaderThread
  PROVE  LineFollows'
<1> USE DEF LineFollows, plic, call, Call, guest, main, reader
<1>1. CASE MainStore
  <2>1. CASE op = "raise"
    BY <1>1, <2>1 DEF MainStore
  <2>2. CASE op = "clear" /\ mval = irq_pending
    <3>1. Unmasked' \subseteq Unmasked
      BY <1>1, <2>2 DEF MainStore, Unmasked
    <3> QED BY <1>1, <3>1 DEF MainStore
  <2>3. CASE mval # irq_pending
    BY <1>1, <2>3 DEF MainStore
  <2> QED BY <2>1, <2>2, <2>3 DEF TypeOK
<1>2. CASE MainLine
  <2>1. CASE op = "raise"
    BY <1>2, <2>1 DEF MainLine
  <2>2. CASE op = "clear" /\ Unmasked # {}
    <3>1. mval # Unmasked
      BY <1>2, <2>2 DEF MainLine, RegistersFit
    <3>2. hart_mutex = Main => handler # "none"
      BY <1>2 DEF MainLine, LocksHeld, InStep, Calling, HandlerPlace
    <3> QED BY <1>2, <2>2, <3>1, <3>2 DEF MainLine
  <2>3. CASE Unmasked = {}
    BY <1>2, <2>3 DEF MainLine, Unmasked
  <2> QED BY <2>1, <2>2, <2>3 DEF TypeOK
<1>3. CASE MainLoad \/ MainTest
  BY <1>3 DEF MainLoad, MainTest, Unmasked
<1>4. CASE Loop
  BY <1>4 DEF Loop, StepBegin, StepEnd, Unmasked
<1>5. CASE Offer
  BY <1>5 DEF Offer, Notify, LockQueue, Walk, UnlockQueue, Unmasked
<1>6. CASE Handler
  <2>1. CASE Claim
    BY <2>1 DEF Claim, Unmasked
  <2>2. CASE StatusLoad \/ Acknowledge \/ Drain \/ UartRead \/ Complete
    <3>1. handler' # "none"
      BY <2>2 DEF StatusLoad, Acknowledge, AckLoad, AckStore, AckTest, Drain, UartRead,
                  Complete, HandlerPlace
    <3> QED BY <3>1
  <2> QED BY <1>6, <2>1, <2>2 DEF Handler
<1>7. CASE TakeBuffer \/ FillBuffer
  BY <1>7 DEF TakeBuffer, Read, Take, Unlink, ReaderUnlockQueue,
              FillBuffer, Use, ReaderStatusLoad, ReaderStatusStore, Unmasked
<1>8. CASE RaiseSource
  BY <1>8 DEF RaiseSource, ReaderLockPlic, ReaderLoad, ReaderStore, ReaderTest,
              ReaderUnlockPlic, Unmasked
<1>9. CASE RaiseLine
  BY <1>9 DEF RaiseLine, ReaderLockHart, ReaderLine, ReaderUnlockHart, Unmasked
<1> QED BY <1>1, <1>2, <1>3, <1>4, <1>5, <1>6, <1>7, <1>8, <1>9, Groups DEF PlicCall

\* A status bit that was set for a used buffer is acknowledged only by a
\* handler that then takes the buffer.
LEMMA StatusStep ==
  ASSUME TypeOK, HandlerPlace, StatusTold, MainThread \/ ReaderThread
  PROVE  StatusTold'
<1> USE DEF StatusTold, Draining, rings, call, Call, guest, main, reader
<1>1. CASE PlicCall
  BY <1>1 DEF PlicCall, MainLoad, MainStore, MainTest, MainLine
<1>2. CASE Loop
  BY <1>2 DEF Loop, StepBegin, StepEnd
<1>3. CASE Offer
  BY <1>3 DEF Offer, Notify, LockQueue, Walk, UnlockQueue
<1>4. CASE AckStore
  <2>1. handler = "drain" /\ handler' = "drain" /\ seen' = seen /\ used' = used /\ rpc' = rpc
    BY <1>4 DEF AckStore, HandlerPlace
  <2>2. CASE seen # {}
    BY <2>1, <2>2
  <2>3. CASE seen = {} /\ mval = status
    BY <1>4, <2>1, <2>3 DEF AckStore
  <2>4. CASE mval # status
    BY <1>4, <2>4 DEF AckStore
  <2> QED BY <2>2, <2>3, <2>4
<1>5. CASE Claim \/ StatusLoad \/ AckLoad \/ Drain \/ UartRead \/ Complete
  BY <1>5 DEF Claim, StatusLoad, AckLoad, Drain, UartRead, Complete
<1>6. ASSUME NEW value \in SUBSET {Used}, AckTest(value) PROVE StatusTold'
  BY <1>6 DEF AckTest
<1>7. CASE TakeBuffer
  BY <1>7 DEF TakeBuffer, Read, Take, Unlink, ReaderUnlockQueue
<1>8. CASE FillBuffer
  BY <1>8 DEF FillBuffer, Use, ReaderStatusLoad, ReaderStatusStore
<1>9. CASE RaiseSource
  BY <1>9 DEF RaiseSource, ReaderLockPlic, ReaderLoad, ReaderStore, ReaderTest,
              ReaderUnlockPlic
<1>10. CASE RaiseLine
  BY <1>10 DEF RaiseLine, ReaderLockHart, ReaderLine, ReaderUnlockHart
<1> QED
  BY <1>1, <1>2, <1>3, <1>4, <1>5, <1>6, <1>7, <1>8, <1>9, <1>10, Groups
  DEF Handler, Acknowledge

\* The network's source is withdrawn only by a handler that then takes the
\* buffer, or when the status bit says there is none.
LEMMA SourceStep ==
  ASSUME TypeOK, HandlerPlace, StatusTold, SourceTold, MainThread \/ ReaderThread
  PROVE  SourceTold'
<1> USE DEF SourceTold, Draining, plic, rings, call, Call, guest, main, reader
<1>1. CASE MainStore
  <2>1. CASE mval = irq_pending /\ irq = Net /\ used # {}
    <3>1. op = "clear" /\ handler = "drain"
      BY <1>1, <2>1 DEF MainStore, HandlerPlace, Calling
    <3>2. CASE status # {}
      BY <1>1, <2>1, <3>1, <3>2 DEF MainStore, WithdrawsNews
    <3>3. CASE status = {}
      BY <1>1, <2>1, <3>1, <3>3 DEF MainStore, StatusTold
    <3> QED BY <3>2, <3>3
  <2>2. CASE mval = irq_pending /\ irq = Uart
    <3>1. Net \in irq_pending => Net \in irq_pending'
      BY <1>1, <2>2 DEF MainStore, Uart, Net
    <3> QED BY <1>1, <3>1 DEF MainStore
  <2>3. CASE mval # irq_pending \/ used = {}
    BY <1>1, <2>3 DEF MainStore
  <2> QED BY <2>1, <2>2, <2>3 DEF TypeOK, Irqs
<1>2. CASE MainLoad \/ MainTest \/ MainLine
  BY <1>2 DEF MainLoad, MainTest, MainLine
<1>3. CASE Loop
  BY <1>3 DEF Loop, StepBegin, StepEnd
<1>4. CASE Offer
  BY <1>4 DEF Offer, Notify, LockQueue, Walk, UnlockQueue
<1>5. CASE Handler
  BY <1>5 DEF Handler, Acknowledge, Claim, StatusLoad, AckLoad, AckStore, AckTest, Drain,
              UartRead, Complete
<1>6. CASE TakeBuffer
  BY <1>6 DEF TakeBuffer, Read, Take, Unlink, ReaderUnlockQueue
<1>7. CASE FillBuffer
  BY <1>7 DEF FillBuffer, Use, ReaderStatusLoad, ReaderStatusStore
<1>8. CASE RaiseSource
  BY <1>8 DEF RaiseSource, ReaderLockPlic, ReaderLoad, ReaderStore, ReaderTest,
              ReaderUnlockPlic
<1>9. CASE RaiseLine
  BY <1>9 DEF RaiseLine, ReaderLockHart, ReaderLine, ReaderUnlockHart
<1> QED BY <1>1, <1>2, <1>3, <1>4, <1>5, <1>6, <1>7, <1>8, <1>9, Groups DEF PlicCall

-----------------------------------------------------------------------------
(* The inductive invariant.                                                *)

\* Both threads at their beginning, and every buffer with the guest.
LEMMA InitIInv == Init => IInv
<1> SUFFICES ASSUME Init PROVE IInv
  OBVIOUS
<1>1. order = <<>> /\ Len(order) = 0 /\ InList = {} /\ WithMain = {} /\ WithReader = {}
  BY DEF Init, InList, WithMain, WithReader
<1>2. TypeOK
  <2>1. next \in [Chains -> Chains \cup {NULL}] /\ order \in Seq(Chains)
    BY DEF Init
  <2>2. {queue_mutex, plic_mutex, hart_mutex} \subseteq {Nobody, Main, Reader}
    BY DEF Init
  <2> QED BY <2>1, <2>2 DEF Init, TypeOK, Irqs
<1>3. LocksHeld /\ HandlerPlace
  BY DEF Init, LocksHeld, InStep, Calling, HandlerPlace, Main, Reader, Nobody
<1>4. RegistersFit /\ Linked
  BY <1>1 DEF Init, RegistersFit, Linked
<1>5. BufferHasOneOwner
  BY <1>1, Owners DEF Init, Apart
<1>6. LineFollows /\ StatusTold /\ SourceTold
  BY DEF Init, LineFollows, StatusTold, SourceTold, Unmasked
<1> QED BY <1>2, <1>3, <1>4, <1>5, <1>6 DEF IInv

\* Every step of either thread, and every key press, keeps it.
LEMMA NextIInv == IInv /\ [Next]_vars => IInv'
<1> SUFFICES ASSUME IInv, [Next]_vars PROVE IInv'
  OBVIOUS
<1> USE DEF IInv
<1>1. CASE MainThread \/ ReaderThread
  BY <1>1, TypeStep, LocksStep, RegistersStep, LinkedStep, OwnersStep, HandlerStep,
     LineStep, StatusStep, SourceStep
<1>2. CASE KeyPress \/ UNCHANGED vars
  <2>1. /\ UNCHANGED <<irq_pending, irq_claimed, meip, status, queue_mutex, plic_mutex,
                       hart_mutex, queue_head, next, order, free, used, mpc, mval, op, irq,
                       ret, node, tail, handler, seen, rpc, rval, rnode, lost>>
        /\ key' \in BOOLEAN
    BY <1>2 DEF KeyPress, vars, plic, locks, list, rings, call, append, guest, main, reader,
                TypeOK
  <2>2. TypeOK' /\ LocksHeld' /\ HandlerPlace'
    BY <2>1 DEF TypeOK, LocksHeld, InStep, Calling, HandlerPlace
  <2>3. InList' = InList /\ WithMain' = WithMain /\ WithReader' = WithReader
        /\ Unmasked' = Unmasked
    BY <2>1 DEF InList, WithMain, WithReader, Unmasked
  <2>4. RegistersFit' /\ Linked' /\ BufferHasOneOwner'
    BY <2>1, <2>3 DEF RegistersFit, Linked, BufferHasOneOwner
  <2>5. LineFollows' /\ StatusTold' /\ SourceTold'
    BY <2>1, <2>3 DEF LineFollows, StatusTold, SourceTold, Draining
  <2> QED BY <2>2, <2>4, <2>5
<1> QED BY <1>1, <1>2 DEF Next

\* The inductive invariant holds in every reachable state.
THEOREM SpecIInv == Spec => []IInv
  BY InitIInv, NextIInv, PTL DEF Spec

\* Both threads and all they share keep their types.
THEOREM TypeCorrect == Spec => []TypeOK
<1>1. IInv => TypeOK
  BY DEF IInv
<1> QED BY SpecIInv, <1>1, PTL

\* The two threads never wait for each other: a Step that locks the list while
\* it holds the hart's mutex, and a reader that locks the hart's mutex while it
\* holds the PLIC's, never close a cycle.
THEOREM NoDeadlock == Spec => []NoLockCycle
<1>1. IInv => NoLockCycle
  BY DEF IInv, LocksHeld, InStep, Calling, NoLockCycle, MainWantsFrom, ReaderWantsFrom,
         Main, Reader, Nobody, TypeOK
<1> QED BY SpecIInv, <1>1, PTL

\* The linked list of virtio-net.c is the queue of the offered buffers, oldest
\* first, whatever the two threads do to it.
THEOREM ListCorrect == Spec => []ListIsQueue
<1>1. IInv => ListIsQueue
  BY DEF IInv, Linked, ListIsQueue
<1> QED BY SpecIInv, <1>1, PTL

\* No receive buffer is ever lost or in two places.
THEOREM OwnersCorrect == Spec => []BufferHasOneOwner
<1>1. IInv => BufferHasOneOwner
  BY DEF IInv
<1> QED BY SpecIInv, <1>1, PTL

\* A packet the guest has not seen has the line up, but for the lost updates
\* of the words the threads share without a lock.
THEOREM PacketCorrect == Spec => []PacketHasLine
<1>1. IInv => PacketHasLine
  <2> SUFFICES ASSUME IInv, Resting, used # {}, ~lost PROVE meip
    BY DEF PacketHasLine
  <2> USE DEF IInv, Resting
  <2>1. Net \in irq_pending
    BY DEF SourceTold, Draining
  <2>2. irq_claimed = {}
    BY DEF HandlerPlace
  <2>3. Unmasked # {}
    BY <2>1, <2>2 DEF Unmasked
  <2> QED BY <2>3 DEF LineFollows
<1> QED BY SpecIInv, <1>1, PTL

\* During a Step the line is not taken down under a pending source.
THEOREM LineCorrect == Spec => []LineComesBack
<1>1. IInv => LineComesBack
  BY DEF IInv, LocksHeld, LineFollows, LineComesBack, Main, Reader
<1> QED BY SpecIInv, <1>1, PTL
=============================================================================
