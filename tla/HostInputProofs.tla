-------------------------- MODULE HostInputProofs --------------------------
(***************************************************************************)
(* What the host puts in, for every value of the constants.                *)
(*                                                                         *)
(* The console: for every size of the receive buffer, every number of      *)
(* bytes and every set of interrupt numbers it keeps its types, a UART     *)
(* that is masked has somebody to unmask it, and the bytes come once and   *)
(* in order.                                                               *)
(*                                                                         *)
(* The keyboard and the mouse: for every set of keys, every size of the    *)
(* event queues, of a read and of the game's ring, and every number of     *)
(* inputs the game comes to hold the keys the host holds, and no motion or *)
(* click is lost or told twice.                                            *)
(***************************************************************************)
EXTENDS UartConsole, InputEvents, SequenceTheorems, WellFoundedInduction, TLAPS

-----------------------------------------------------------------------------
(* The console.                                                            *)

\* What is assumed of the constants, as the facts the steps cite.
LEMMA Constants ==
  /\ Uart \in Irq
  /\ BufSize \in Nat /\ BufSize > 0
  /\ MaxBytes \in Nat
  BY ConsoleAssumption

\* A call of pl011_maybe_irq moves the line and the source, and keeps their types.
LEMMA MaybeIrqFacts ==
  ASSUME PlicTypeOK, MaybeIrq
  PROVE  PlicTypeOK'
<1>1. CASE PlicRaise(Uart)
  BY <1>1, Constants DEF PlicTypeOK, PlicRaise, HartRaise
<1>2. CASE PlicClear(Uart)
  BY <1>2, Constants DEF PlicTypeOK, PlicClear, HartClear
<1> QED BY <1>1, <1>2 DEF MaybeIrq

\* A poll keeps the types of the device and of the PLIC, whatever waits.
LEMMA PollFacts ==
  ASSUME TypeOK, NEW s, Poll(s)
  PROVE  /\ PlicTypeOK'
         /\ is_eofd' \in BOOLEAN
         /\ irq_status' \subseteq {Rx}
         /\ irq_mask' = irq_mask
<1>1. PlicTypeOK'
  BY MaybeIrqFacts DEF TypeOK, Poll
<1>2. is_eofd' \in BOOLEAN
  BY DEF TypeOK, Poll, Eof
<1>3. irq_status' \subseteq {Rx} /\ irq_mask' = irq_mask
  BY DEF TypeOK, Poll
<1> QED BY <1>1, <1>2, <1>3

\* The state pl011_uart_init leaves satisfies the inductive invariant.
LEMMA InitIInv == Init => IInv
<1> SUFFICES ASSUME Init PROVE IInv
  OBVIOUS
<1>1. PlicTypeOK
  BY DEF Init, PlicInit, PlicTypeOK
<1>2. TypeOK
  <2>1. stdin \in Seq(Bytes) /\ rxbuf \in Seq(Bytes)
    BY DEF Init
  <2>2. typed \in 0 .. MaxBytes /\ got \in 0 .. MaxBytes
    BY Constants DEF Init
  <2>3. tty \in BOOLEAN /\ is_eofd \in BOOLEAN
    BY DEF Init
  <2>4. irq_status \subseteq {Rx} /\ irq_mask \subseteq {Rx, Timeout}
    BY DEF Init
  <2> QED BY <1>1, <2>1, <2>2, <2>3, <2>4 DEF Init, TypeOK
<1>3. BufferBounded /\ MaskedWhenFull /\ MaskedHasReader /\ RoomForData /\ BufferPlain
  BY Constants DEF Init, BufferBounded, MaskedWhenFull, MaskedHasReader, RoomForData, BufferPlain
<1> QED BY <1>2, <1>3 DEF IInv

\* The handler's load of the data register: a byte goes to the buffer only if
\* there is room, and the interrupt stays as it was masked.
LEMMA DataLoadIInv ==
  ASSUME IInv, DataLoad
  PROVE  IInv'
<1> USE DEF IInv
<1>1. stdin' \in Seq(Bytes)
  BY DEF DataLoad, TypeOK
<1>2. rxbuf' \in Seq(Bytes) /\ Len(rxbuf') <= BufSize /\ (rxbuf # <<>> => rxbuf' # <<>>)
      /\ BufferPlain'
  <2>1. CASE is_eofd \/ stdin = <<>> \/ Head(stdin) \in High \/ Len(rxbuf) = BufSize
    BY <2>1 DEF DataLoad, TypeOK, BufferBounded, BufferPlain
  <2>2. CASE ~(is_eofd \/ stdin = <<>> \/ Head(stdin) \in High \/ Len(rxbuf) = BufSize)
    <3>1. rxbuf' = Append(rxbuf, Head(stdin)) /\ Head(stdin) \in Bytes /\ Head(stdin) \notin High
      BY <2>2 DEF DataLoad, TypeOK
    <3>2. Len(rxbuf) < BufSize
      BY <2>2, Constants DEF TypeOK, BufferBounded
    <3> QED BY <3>1, <3>2, Constants DEF TypeOK, BufferPlain
  <2> QED BY <2>1, <2>2
<1>3. /\ PlicTypeOK' /\ is_eofd' \in BOOLEAN
      /\ irq_status' \subseteq {Rx} /\ irq_mask' = irq_mask
  BY PollFacts DEF DataLoad
<1>4. TypeOK'
  BY <1>1, <1>2, <1>3 DEF DataLoad, TypeOK
<1>5. BufferBounded' /\ MaskedWhenFull' /\ RoomForData'
  BY <1>2 DEF DataLoad, BufferBounded, MaskedWhenFull, RoomForData
<1>6. MaskedHasReader'
  BY <1>2, <1>3 DEF DataLoad, MaskedHasReader
<1> QED BY <1>2, <1>4, <1>5, <1>6

\* Every other step of the handler keeps the inductive invariant.
LEMMA HandlerIInv ==
  ASSUME IInv, Handler
  PROVE  IInv'
<1> USE DEF IInv
<1>1. CASE Claim
  <2>1. PlicTypeOK' /\ at' \in {"status", "run"}
    BY <1>1, Constants DEF Claim, PlicClaim, PlicClaimNothing, PlicTypeOK, plicVars, TypeOK
  <2>2. TypeOK'
    BY <1>1, <2>1 DEF Claim, TypeOK, terminal, device, guest
  <2> QED
    BY <1>1, <2>1, <2>2 DEF Claim, BufferBounded, MaskedWhenFull, MaskedHasReader, RoomForData, BufferPlain, device, guest
<1>2. CASE StatusLoad
  <2>1. TypeOK'
    BY <1>2 DEF StatusLoad, TypeOK, PlicTypeOK, plicVars, terminal, device, guest
  <2> QED
    BY <1>2, <2>1
    DEF StatusLoad, BufferBounded, MaskedWhenFull, MaskedHasReader, RoomForData, BufferPlain, device, guest
<1>3. CASE ClearStore
  <2>1. TypeOK'
    BY <1>3 DEF ClearStore, TypeOK, PlicTypeOK, plicVars, terminal, guest
  <2> QED
    BY <1>3, <2>1 DEF ClearStore, BufferBounded, MaskedWhenFull, MaskedHasReader, RoomForData, BufferPlain, guest
<1>4. CASE FlagsLoad
  <2>1. at' \in {"complete", "mask", "data"} /\ is_eofd' \in BOOLEAN
    BY <1>4 DEF FlagsLoad, Eof, TypeOK
  <2>2. TypeOK'
    BY <1>4, <2>1 DEF FlagsLoad, TypeOK, PlicTypeOK, plicVars, terminal, guest
  <2>3. (at' = "mask" => rxbuf # <<>>) /\ (at' = "data" => Len(rxbuf) < BufSize)
    BY <1>4, Constants DEF FlagsLoad, TypeOK, BufferBounded
  <2> QED
    BY <1>4, <2>2, <2>3 DEF FlagsLoad, BufferBounded, MaskedWhenFull, MaskedHasReader, RoomForData, BufferPlain, guest
<1>5. CASE MaskStore
  <2>1. TypeOK'
    BY <1>5, MaybeIrqFacts DEF MaskStore, TypeOK, terminal, guest
  <2>2. rxbuf' # <<>> /\ rxbuf' = rxbuf
    BY <1>5 DEF MaskStore, MaskedWhenFull, guest
  <2> QED
    BY <1>5, <2>1, <2>2 DEF MaskStore, BufferBounded, MaskedWhenFull, MaskedHasReader, RoomForData, BufferPlain
<1>6. CASE DataLoad
  BY <1>6, DataLoadIInv
<1>7. CASE Complete
  <2>1. PlicTypeOK'
    BY <1>7 DEF Complete, PlicComplete, PlicTypeOK, TypeOK
  <2>2. TypeOK'
    BY <1>7, <2>1 DEF Complete, TypeOK, terminal, device, guest
  <2> QED
    BY <1>7, <2>2
    DEF Complete, BufferBounded, MaskedWhenFull, MaskedHasReader, RoomForData, BufferPlain, device, guest
<1> QED BY <1>1, <1>2, <1>3, <1>4, <1>5, <1>6, <1>7 DEF Handler

\* The thread takes a character and lets go of the mask only when it unmasks.
LEMMA ThreadIInv ==
  ASSUME IInv, Thread
  PROVE  IInv'
<1> USE DEF IInv
<1>1. CASE Getc
  <2>1. /\ got' \in Bytes /\ rxbuf' \in Seq(Bytes) /\ Len(rxbuf') <= BufSize
    BY <1>1, Constants DEF Getc, TypeOK, BufferBounded
  <2>2. TypeOK'
    BY <1>1, <2>1, Constants
    DEF Getc, TypeOK, PlicTypeOK, plicVars, terminal, device, Bytes
  <2>3. MaskedWhenFull' /\ MaskedHasReader' /\ RoomForData' /\ BufferPlain'
    BY <1>1 DEF Getc, Running, MaskedWhenFull, MaskedHasReader, RoomForData, BufferPlain, TypeOK
  <2> QED BY <2>1, <2>2, <2>3 DEF BufferBounded
<1>2. CASE Unmask
  <2>1. TypeOK'
    BY <1>2, MaybeIrqFacts DEF Unmask, TypeOK, terminal
  <2> QED
    BY <1>2, <2>1 DEF Unmask, Running, BufferBounded, MaskedWhenFull, MaskedHasReader, RoomForData, BufferPlain
<1> QED BY <1>1, <1>2 DEF Thread

\* Every step keeps the inductive invariant.
LEMMA NextIInv == IInv /\ [Next]_vars => IInv'
<1> SUFFICES ASSUME IInv, [Next]_vars PROVE IInv'
  OBVIOUS
<1> USE DEF IInv
<1>1. CASE Type
  <2>1. typed' \in Bytes /\ typed' \in 0 .. MaxBytes
    BY <1>1, Constants DEF Type, TypeOK, Bytes
  <2>2. TypeOK'
    BY <1>1, <2>1 DEF Type, TypeOK, PlicTypeOK, plicVars, device, guest
  <2> QED
    BY <1>1, <2>2 DEF Type, BufferBounded, MaskedWhenFull, MaskedHasReader, RoomForData, BufferPlain, device, guest
<1>2. CASE Hangup
  <2>1. TypeOK'
    BY <1>2 DEF Hangup, TypeOK, PlicTypeOK, plicVars, device, guest
  <2> QED
    BY <1>2, <2>1 DEF Hangup, BufferBounded, MaskedWhenFull, MaskedHasReader, RoomForData, BufferPlain, device, guest
<1>3. CASE Boundary
  <2>1. /\ PlicTypeOK' /\ is_eofd' \in BOOLEAN
        /\ irq_status' \subseteq {Rx} /\ irq_mask' = irq_mask
    BY <1>3, PollFacts DEF Boundary
  <2>2. at' \in {at, "claim"}
    BY <1>3 DEF Boundary
  <2>3. TypeOK'
    BY <1>3, <2>1, <2>2 DEF Boundary, TypeOK, terminal, guest
  <2> QED
    BY <1>3, <2>1, <2>2, <2>3
    DEF Boundary, BufferBounded, MaskedWhenFull, MaskedHasReader, RoomForData, BufferPlain, guest
<1>4. CASE Wake \/ Idle
  <2>1. TypeOK'
    BY <1>4 DEF Wake, Idle, TypeOK, PlicTypeOK, terminal, device, guest
  <2> QED
    BY <1>4, <2>1
    DEF Wake, Idle, BufferBounded, MaskedWhenFull, MaskedHasReader, RoomForData, BufferPlain, device, guest
<1>5. CASE Handler
  BY <1>5, HandlerIInv
<1>6. CASE Thread
  BY <1>6, ThreadIInv
<1>7. CASE UNCHANGED vars
  BY <1>7
  DEF vars, plicVars, terminal, device, guest, TypeOK, PlicTypeOK,
      BufferBounded, MaskedWhenFull, MaskedHasReader, RoomForData, BufferPlain
<1> QED BY <1>1, <1>2, <1>3, <1>4, <1>5, <1>6, <1>7 DEF Next

\* The inductive invariant holds in every reachable state.
THEOREM SpecIInv == Spec => []IInv
  BY InitIInv, NextIInv, PTL DEF Spec

\* The UART, the PLIC, the buffer and the thread keep their types, for every
\* size of the receive buffer and every number of bytes (pl011.c, uart.c).
THEOREM TypeCorrect == Spec => []TypeOK
<1>1. IInv => TypeOK
  BY DEF IInv
<1> QED BY SpecIInv, <1>1, PTL

\* The receive interrupt is masked only as long as a character is left in the
\* buffer or the thread that took one has still to unmask it: the flow control
\* of pl011_uart_irq and uart_getc does not leave the console dead.
THEOREM MaskCorrect == Spec => []MaskedHasReader
<1>1. IInv => MaskedHasReader
  BY DEF IInv
<1> QED BY SpecIInv, <1>1, PTL

-----------------------------------------------------------------------------
(* The console implements ByteFifo, step by step.                          *)

Waiting == rxbuf \o stdin

\* What the buffer and stdin hold, one behind the other.
LEMMA WaitingFacts ==
  ASSUME NEW r \in Seq(Bytes), NEW s \in Seq(Bytes)
  PROVE  /\ r \o s \in Seq(Bytes) /\ Len(r \o s) = Len(r) + Len(s)
         /\ \A i \in 1 .. Len(r) + Len(s) :
              (r \o s)[i] = IF i <= Len(r) THEN r[i] ELSE s[i - Len(r)]
  BY ConcatProperties

\* A byte that is typed goes behind all that wait.
LEMMA TypeMapped ==
  ASSUME IInv, Type
  PROVE  \E b \in Bytes : Promise!Arrive(b)
<1>1. /\ rxbuf \in Seq(Bytes) /\ stdin \in Seq(Bytes) /\ typed' \in Bytes
      /\ stdin' = Append(stdin, typed') /\ rxbuf' = rxbuf /\ got' = got
  BY Constants DEF IInv, TypeOK, Type, Bytes, guest
<1>2. Waiting' = Append(Waiting, typed')
  <2> DEFINE r == rxbuf
             s == stdin
             b == typed'
             lhs == r \o Append(s, b)
             rhs == Append(r \o s, b)
  <2>1. r \in Seq(Bytes) /\ s \in Seq(Bytes) /\ b \in Bytes
    BY <1>1
  <2>2. Waiting' = lhs /\ Append(Waiting, typed') = rhs
    BY <1>1 DEF Waiting
  <2> HIDE DEF r, s, b
  <2>3. lhs = rhs
    BY <2>1
  <2> QED BY <2>2, <2>3
<1> QED BY <1>1, <1>2 DEF Waiting, Promise!Arrive

\* The handler moves a byte from the one to the other, and drops only those it
\* takes for a break.
LEMMA DataLoadMapped ==
  ASSUME IInv, DataLoad
  PROVE  \/ UNCHANGED <<Waiting, got>>
         \/ \E i \in DOMAIN Waiting : Promise!Drop(i)
<1> DEFINE r == rxbuf
           s == stdin
           b == Head(stdin)
<1>1. r \in Seq(Bytes) /\ s \in Seq(Bytes) /\ got' = got /\ Len(r) < BufSize
  BY DEF IInv, TypeOK, DataLoad, RoomForData
<1>2. CASE is_eofd \/ stdin = <<>>
  BY <1>2 DEF DataLoad, Waiting
<1>3. CASE ~(is_eofd \/ stdin = <<>>) /\ b \notin High
  <2>1. rxbuf' = Append(r, b) /\ stdin' = Tail(s) /\ s # <<>> /\ b = Head(s)
    BY <1>1, <1>3, Constants DEF DataLoad
  <2>2. Waiting' = Append(r, b) \o Tail(s) /\ Waiting = r \o s
    BY <2>1 DEF Waiting
  <2> HIDE DEF r, s, b
  <2>3. Append(r, b) \o Tail(s) = r \o s
    BY <1>1, <2>1
  <2> QED BY <1>1, <2>2, <2>3
<1>4. CASE ~(is_eofd \/ stdin = <<>>) /\ b \in High
  <2> DEFINE i == Len(r) + 1
             w == r \o s
  <2>1. rxbuf' = r /\ stdin' = Tail(s) /\ s # <<>> /\ b = Head(s)
    BY <1>4 DEF DataLoad
  <2>2. Waiting' = r \o Tail(s) /\ Waiting = w
    BY <2>1 DEF Waiting
  <2> HIDE DEF r, s, b
  <2>3. /\ w \in Seq(Bytes) /\ Len(w) = Len(r) + Len(s) /\ Len(s) >= 1 /\ w[i] = b
        /\ DOMAIN w = 1 .. Len(w) /\ i \in DOMAIN w
    BY <1>1, <2>1
  <2>4. SubSeq(w, 1, i - 1) = r
    BY <1>1, <2>3, WaitingFacts, SeqEqual
  <2>5. SubSeq(w, i + 1, Len(w)) = Tail(s)
    BY <1>1, <2>1, <2>3, WaitingFacts, SeqEqual
  <2>6. Waiting' = SubSeq(Waiting, 1, i - 1) \o SubSeq(Waiting, i + 1, Len(Waiting))
    BY <2>2, <2>4, <2>5
  <2>7. Promise!Drop(i)
    BY <1>1, <1>4, <2>2, <2>3, <2>6 DEF Promise!Drop, Waiting
  <2> QED BY <2>2, <2>3, <2>7
<1> QED BY <1>2, <1>3, <1>4

\* The thread takes the byte that has waited longest, and none to be dropped.
LEMMA GetcMapped ==
  ASSUME IInv, Getc
  PROVE  Promise!Deliver
<1> DEFINE r == rxbuf
           s == stdin
<1>1. /\ r \in Seq(Bytes) /\ s \in Seq(Bytes) /\ r # <<>> /\ Head(r) \notin High
      /\ got' = Head(r) /\ rxbuf' = Tail(r) /\ stdin' = s
  BY DEF IInv, TypeOK, Getc, BufferPlain, terminal
<1>2. Waiting = r \o s /\ Waiting' = Tail(r) \o s
  BY <1>1 DEF Waiting
<1> HIDE DEF r, s
<1>3. r \o s # <<>> /\ Head(r \o s) = Head(r) /\ Tail(r \o s) = Tail(r) \o s
  BY <1>1
<1> QED BY <1>1, <1>2, <1>3 DEF Promise!Deliver, Waiting

\* Every step is one of ByteFifo or leaves what waits and what was read.
LEMMA NextMapped ==
  IInv /\ [Next]_vars => [Promise!ByteNext]_(Promise!byteVars)
<1> SUFFICES ASSUME IInv, [Next]_vars
             PROVE  Promise!ByteNext \/ UNCHANGED <<Waiting, got>>
  BY DEF Promise!byteVars, Waiting
<1>1. CASE Type
  BY <1>1, TypeMapped DEF Promise!ByteNext
<1>2. CASE DataLoad
  BY <1>2, DataLoadMapped DEF Promise!ByteNext, Waiting
<1>3. CASE Getc
  BY <1>3, GetcMapped DEF Promise!ByteNext
<1>4. CASE Hangup \/ Boundary \/ Wake \/ Idle \/ Unmask
  BY <1>4 DEF Hangup, Boundary, Wake, Idle, Unmask, terminal, guest, Waiting
<1>5. CASE Claim \/ StatusLoad \/ ClearStore \/ FlagsLoad \/ MaskStore \/ Complete
  BY <1>5 DEF Claim, StatusLoad, ClearStore, FlagsLoad, MaskStore, Complete, terminal, guest, Waiting
<1>6. CASE UNCHANGED vars
  BY <1>6 DEF vars, terminal, guest, Waiting
<1> QED BY <1>1, <1>2, <1>3, <1>4, <1>5, <1>6 DEF Next, Handler, Thread

\* The console implements ByteFifo: for every size of the receive buffer and
\* every input, each byte below 0x80 comes to the thread once and in order.
THEOREM ConsoleCorrect == Spec => ConsoleIsFifo
<1>1. Init => Promise!ByteInit
  BY DEF Init, Promise!ByteInit
<1>2. IInv /\ [Next]_vars => [Promise!ByteNext]_(Promise!byteVars)
  BY NextMapped
<1> QED BY <1>1, <1>2, SpecIInv, PTL DEF Spec, ConsoleIsFifo, Promise!ByteSpec

-----------------------------------------------------------------------------
(* Sequences: the last of some events.                                     *)

\* An event appended is the last of its kind, or of another kind.
LEMMA LastAppend ==
  ASSUME NEW S, NEW s \in Seq(S), NEW e \in S, NEW f, NEW o, NEW v, LastIs(s, f, o, v)
  PROVE  LastIs(Append(s, e), f, o, IF e \in DOMAIN f THEN f[e] ELSE v)
<1> DEFINE n == Len(s)
           t == Append(s, e)
<1>1. n \in Nat /\ DOMAIN s = 1 .. n /\ DOMAIN t = 1 .. n + 1 /\ Len(t) = n + 1
  BY AppendProperties, LenProperties
<1>2. t[n + 1] = e /\ \A i \in 1 .. n : t[i] = s[i]
  BY AppendProperties
<1> HIDE DEF n, t
<1>3. CASE e \in DOMAIN f
  <2>1. n + 1 \in DOMAIN t /\ n + 2 .. Len(t) = {}
    BY <1>1
  <2> QED BY <1>1, <1>2, <1>3, <2>1 DEF LastIs, t
<1>4. CASE e \notin DOMAIN f
  <2>1. CASE v = o /\ \A i \in DOMAIN s : s[i] \notin DOMAIN f
    <3>1. ASSUME NEW i \in DOMAIN t PROVE t[i] \notin DOMAIN f
      BY <1>1, <1>2, <1>4, <2>1
    <3> QED BY <1>4, <2>1, <3>1 DEF LastIs, t
  <2>2. ASSUME NEW i \in DOMAIN s, s[i] \in DOMAIN f, v = f[s[i]],
               \A j \in i + 1 .. Len(s) : s[j] \notin DOMAIN f
        PROVE  LastIs(t, f, o, v)
    <3>1. i \in DOMAIN t /\ t[i] = s[i]
      BY <1>1, <1>2, <2>2
    <3>2. ASSUME NEW j \in i + 1 .. Len(t) PROVE t[j] \notin DOMAIN f
      BY <1>1, <1>2, <1>4, <2>2 DEF n
    <3> QED BY <2>2, <3>1, <3>2 DEF LastIs
  <2> QED BY <1>4, <2>1, <2>2 DEF LastIs, t
<1> QED BY <1>3, <1>4

\* The last of two sequences is that of the second after that of the first.
LEMMA LastConcat ==
  ASSUME NEW S, NEW s \in Seq(S), NEW t \in Seq(S), NEW f, NEW o, NEW g, NEW v,
         LastIs(s, f, o, g), LastIs(t, f, g, v)
  PROVE  LastIs(s \o t, f, o, v)
<1> DEFINE n == Len(s)
           m == Len(t)
           u == s \o t
<1>1. n \in Nat /\ m \in Nat /\ DOMAIN s = 1 .. n /\ DOMAIN t = 1 .. m
      /\ u \in Seq(S) /\ DOMAIN u = 1 .. n + m /\ Len(u) = n + m
  BY ConcatProperties, LenProperties
<1>2. /\ \A i \in 1 .. n : u[i] = s[i]
      /\ \A i \in 1 .. m : u[n + i] = t[i]
  BY ConcatProperties, <1>1
<1>3. \A i \in 1 .. n + m : i \in 1 .. n \/ (i - n \in 1 .. m /\ u[i] = t[i - n])
  <2> SUFFICES ASSUME NEW i \in 1 .. n + m, i \notin 1 .. n
               PROVE  i - n \in 1 .. m /\ u[i] = t[i - n]
    OBVIOUS
  <2> DEFINE k == i - n
  <2>1. k \in 1 .. m /\ n + k = i
    BY <1>1
  <2> HIDE DEF k
  <2> QED BY <1>2, <2>1 DEF k
<1> HIDE DEF n, m, u
<1>4. CASE v = g /\ \A i \in DOMAIN t : t[i] \notin DOMAIN f
  <2>1. CASE g = o /\ \A i \in DOMAIN s : s[i] \notin DOMAIN f
    <3>1. ASSUME NEW i \in DOMAIN u PROVE u[i] \notin DOMAIN f
      BY <1>1, <1>2, <1>3, <1>4, <2>1
    <3> QED BY <1>4, <2>1, <3>1 DEF LastIs, u
  <2>2. ASSUME NEW i \in DOMAIN s, s[i] \in DOMAIN f, g = f[s[i]],
               \A j \in i + 1 .. Len(s) : s[j] \notin DOMAIN f
        PROVE  LastIs(u, f, o, v)
    <3>1. i \in DOMAIN u /\ u[i] = s[i]
      BY <1>1, <1>2, <2>2
    <3>2. ASSUME NEW j \in i + 1 .. Len(u) PROVE u[j] \notin DOMAIN f
      <4>1. j \in 1 .. n + m
        BY <1>1
      <4>2. CASE j \in 1 .. n
        <5>1. j \in i + 1 .. Len(s)
          BY <1>1, <4>2 DEF n
        <5> QED BY <1>2, <2>2, <4>2, <5>1
      <4>3. CASE j \notin 1 .. n
        BY <1>1, <1>3, <1>4, <4>1, <4>3
      <4> QED BY <4>2, <4>3
    <3> QED BY <1>4, <2>2, <3>1, <3>2 DEF LastIs
  <2> QED BY <2>1, <2>2 DEF LastIs, u
<1>5. ASSUME NEW i \in DOMAIN t, t[i] \in DOMAIN f, v = f[t[i]],
             \A j \in i + 1 .. Len(t) : t[j] \notin DOMAIN f
      PROVE  LastIs(u, f, o, v)
  <2> DEFINE k == n + i
  <2>1. k \in DOMAIN u /\ u[k] = t[i]
    BY <1>1, <1>2, <1>5
  <2>2. ASSUME NEW j \in k + 1 .. Len(u) PROVE u[j] \notin DOMAIN f
    <3>1. j \in 1 .. n + m /\ j \notin 1 .. n /\ j - n \in i + 1 .. Len(t)
      BY <1>1, <1>5 DEF m
    <3> QED BY <1>3, <1>5, <3>1
  <2> HIDE DEF k
  <2> QED BY <1>5, <2>1, <2>2 DEF LastIs
<1> QED BY <1>4, <1>5 DEF LastIs, u

\* If the second of two sequences has one, what was before the first is forgotten.
LEMMA LastConcatHit ==
  ASSUME NEW S, NEW s \in Seq(S), NEW t \in Seq(S), NEW f, NEW o, NEW g, NEW v,
         LastIs(t, f, g, v), \E i \in DOMAIN t : t[i] \in DOMAIN f
  PROVE  LastIs(s \o t, f, o, v)
<1> DEFINE n == Len(s)
           m == Len(t)
           u == s \o t
<1>1. n \in Nat /\ m \in Nat /\ DOMAIN s = 1 .. n /\ DOMAIN t = 1 .. m
      /\ u \in Seq(S) /\ DOMAIN u = 1 .. n + m /\ Len(u) = n + m
  BY ConcatProperties, LenProperties
<1>2. \A i \in 1 .. m : u[n + i] = t[i]
  BY ConcatProperties, <1>1
<1> HIDE DEF n, m, u
<1>3. PICK i \in 1 .. m : /\ t[i] \in DOMAIN f /\ v = f[t[i]]
                          /\ \A j \in i + 1 .. m : t[j] \notin DOMAIN f
  BY <1>1 DEF LastIs, m
<1> DEFINE k == n + i
<1>4. k \in DOMAIN u /\ u[k] = t[i]
  BY <1>1, <1>2
<1>5. ASSUME NEW j \in k + 1 .. Len(u) PROVE u[j] \notin DOMAIN f
  <2> DEFINE x == j - n
  <2>1. x \in i + 1 .. m /\ x \in 1 .. m /\ n + x = j
    BY <1>1
  <2> HIDE DEF x
  <2> QED BY <1>2, <1>3, <2>1
<1> HIDE DEF k
<1> QED BY <1>3, <1>4, <1>5 DEF LastIs, u

\* The first event taken away, what held before is what it said.
LEMMA LastTail ==
  ASSUME NEW S, NEW s \in Seq(S), s # <<>>, NEW f, NEW o, NEW v, LastIs(s, f, o, v)
  PROVE  LastIs(Tail(s), f, IF Head(s) \in DOMAIN f THEN f[Head(s)] ELSE o, v)
<1> DEFINE n == Len(s)
           t == Tail(s)
           p == IF Head(s) \in DOMAIN f THEN f[Head(s)] ELSE o
<1>1. n \in Nat \ {0} /\ DOMAIN s = 1 .. n /\ t \in Seq(S) /\ DOMAIN t = 1 .. n - 1 /\ Len(t) = n - 1
  BY HeadTailProperties, LenProperties, EmptySeq
<1>2. Head(s) = s[1] /\ \A i \in 1 .. n - 1 : t[i] = s[i + 1]
  BY HeadTailProperties, <1>1
<1>3. \A i \in 2 .. n : i - 1 \in 1 .. n - 1 /\ t[i - 1] = s[i]
  <2> SUFFICES ASSUME NEW i \in 2 .. n PROVE i - 1 \in 1 .. n - 1 /\ t[i - 1] = s[i]
    OBVIOUS
  <2> DEFINE k == i - 1
  <2>1. k \in 1 .. n - 1 /\ k + 1 = i
    BY <1>1
  <2> HIDE DEF k
  <2> QED BY <1>2, <2>1 DEF k
<1> HIDE DEF n, t
<1>4. CASE v = o /\ \A i \in DOMAIN s : s[i] \notin DOMAIN f
  <2>1. p = o
    BY <1>1, <1>2, <1>4
  <2>2. ASSUME NEW i \in DOMAIN t PROVE t[i] \notin DOMAIN f
    BY <1>1, <1>2, <1>4
  <2> HIDE DEF p
  <2> QED BY <1>4, <2>1, <2>2 DEF LastIs, t, p
<1>5. ASSUME NEW i \in DOMAIN s, s[i] \in DOMAIN f, v = f[s[i]],
             \A j \in i + 1 .. Len(s) : s[j] \notin DOMAIN f
      PROVE  LastIs(t, f, p, v)
  <2>1. CASE i = 1
    <3>1. p = v
      BY <1>2, <1>5, <2>1
    <3>2. ASSUME NEW j \in DOMAIN t PROVE t[j] \notin DOMAIN f
      BY <1>1, <1>2, <1>5, <2>1 DEF n
    <3> HIDE DEF p
    <3> QED BY <3>1, <3>2 DEF LastIs
  <2>2. CASE i # 1
    <3> DEFINE k == i - 1
    <3>1. k \in DOMAIN t /\ t[k] = s[i]
      BY <1>1, <1>3, <2>2
    <3>2. ASSUME NEW j \in k + 1 .. Len(t) PROVE t[j] \notin DOMAIN f
      <4>1. j \in 1 .. n - 1 /\ j + 1 \in i + 1 .. Len(s)
        BY <1>1, <2>2 DEF n
      <4> QED BY <1>2, <1>5, <4>1
    <3> HIDE DEF p, k
    <3> QED BY <1>5, <3>1, <3>2 DEF LastIs
  <2> QED BY <2>1, <2>2
<1> QED BY <1>4, <1>5 DEF LastIs, t

\* Events of another kind say nothing.
LEMMA LastNone ==
  ASSUME NEW s, NEW f, NEW v, \A i \in DOMAIN s : s[i] \notin DOMAIN f
  PROVE  LastIs(s, f, v, v)
  BY DEF LastIs

\* Without an event that counts, what held before holds.
LEMMA LastOfNone ==
  ASSUME NEW s, NEW f, NEW o, NEW v, \A i \in DOMAIN s : s[i] \notin DOMAIN f, LastIs(s, f, o, v)
  PROVE  v = o
  BY DEF LastIs

-----------------------------------------------------------------------------
(* Sequences: the sum of some events.                                      *)

\* A set of numbers has a smallest one.
LEMMA Smallest ==
  ASSUME NEW T, T \subseteq Nat, T # {}
  PROVE  \E m \in T : \A k \in T : m <= k
<1>1. PICK x \in T : \A y \in T : ~ (<<y, x>> \in OpToRel(<, Nat))
  BY NatLessThanWellFounded, WFMin, Zenon
<1>2. ASSUME NEW y \in T PROVE ~(y < x)
  <2>1. <<y, x>> \in Nat \X Nat /\ <<y, x>>[1] = y /\ <<y, x>>[2] = x
    OBVIOUS
  <2>2. y < x => <<y, x>> \in OpToRel(<, Nat)
    BY <2>1, Zenon DEF OpToRel
  <2> QED BY <1>1, <2>2, Zenon
<1> QED BY <1>2, SMT

\* What an event adds to a sum, and the sums of the first events.
Worth(e, value) == IF e \in DOMAIN value THEN value[e] ELSE 0
AreSums(g, n, seq, value) ==
    g = [i \in 0 .. n |-> IF i = 0 THEN 0 ELSE g[i - 1] + Worth(seq[i], value)]

\* A sum is what the sums of the first events lead to.
LEMMA SumIs ==
  ASSUME NEW seq, NEW value, Len(seq) \in Nat
  PROVE  \E g : AreSums(g, Len(seq), seq, value) /\ SumOf(seq, value) = g[Len(seq)]
<1> DEFINE N == Len(seq)
           T == {m \in 0 .. N : ~\E g : AreSums(g, m, seq, value)}
           Sums == CHOOSE g : g = [i \in 0 .. N |-> IF i = 0 THEN 0 ELSE g[i - 1]
                                     + (IF seq[i] \in DOMAIN value THEN value[seq[i]] ELSE 0)]
<1>1. SumOf(seq, value) = Sums[N]
  BY Zenon DEF SumOf
<1>2. Sums = CHOOSE g : AreSums(g, N, seq, value)
  BY Zenon DEF AreSums, Worth
<1> HIDE DEF Sums, N
<1>3. N \in Nat
  BY DEF N
<1>4. T = {}
  <2>1. SUFFICES ASSUME T # {} PROVE FALSE
    OBVIOUS
  <2>2. PICK m \in T : \A k \in T : m <= k
    <3>1. T \subseteq Nat
      BY <1>3
    <3> QED BY <2>1, <3>1, Smallest
  <2>3. m \in 0 .. N /\ ~\E g : AreSums(g, m, seq, value)
    OBVIOUS
  <2>4. CASE m = 0
    <3> DEFINE g == [i \in 0 .. 0 |-> 0]
    <3>1. AreSums(g, 0, seq, value)
      BY DEF AreSums
    <3> QED BY <2>3, <2>4, <3>1, Zenon
  <2>5. CASE m # 0
    <3>0. m - 1 \in 0 .. N
      BY <2>3, <2>5, <1>3
    <3>1. m - 1 \notin T
      <4>1. m - 1 \in T => m <= m - 1
        BY <2>2, Zenon
      <4> QED BY <4>1, <3>0
    <3>2. PICK h : AreSums(h, m - 1, seq, value)
      BY <3>0, <3>1
    <3> DEFINE g == [i \in 0 .. m |-> IF i = 0 THEN 0 ELSE h[i - 1] + Worth(seq[i], value)]
    <3>3. ASSUME NEW i \in 0 .. m, i # 0 PROVE g[i - 1] = h[i - 1]
      <4> DEFINE e == i - 1
      <4>1. e \in 0 .. m - 1 /\ e \in 0 .. m
        BY <3>3, <2>3, <1>3
      <4> HIDE DEF e
      <4>2. h[e] = IF e = 0 THEN 0 ELSE h[e - 1] + Worth(seq[e], value)
        BY <3>2, <4>1 DEF AreSums
      <4> QED BY <4>1, <4>2 DEF e
    <3>4. AreSums(g, m, seq, value)
      BY <3>3 DEF AreSums
    <3> QED BY <2>3, <3>4
  <2> QED BY <2>4, <2>5
<1>5. \E g : AreSums(g, N, seq, value)
  <2>1. N \in 0 .. N
    BY <1>3
  <2> QED BY <1>4, <2>1
<1>6. AreSums(Sums, N, seq, value)
  BY <1>2, <1>5, Zenon
<1> QED BY <1>1, <1>6, Zenon DEF N

\* The sums of the first events: none, and one more.
LEMMA SumStep ==
  ASSUME NEW n \in Nat, NEW seq, NEW value, NEW g, AreSums(g, n, seq, value)
  PROVE  /\ g[0] = 0
         /\ \A i \in 1 .. n : g[i] = g[i - 1] + Worth(seq[i], value)
<1>1. ASSUME NEW i \in 0 .. n PROVE g[i] = IF i = 0 THEN 0 ELSE g[i - 1] + Worth(seq[i], value)
  BY DEF AreSums
<1> QED BY <1>1

\* The sums of integers are integers.
LEMMA SumInt ==
  ASSUME NEW n \in Nat, NEW seq, NEW value, \A e \in DOMAIN value : value[e] \in Int,
         NEW g, AreSums(g, n, seq, value)
  PROVE  \A i \in 0 .. n : g[i] \in Int
<1> DEFINE T == {i \in 0 .. n : g[i] \notin Int}
<1>1. SUFFICES ASSUME T # {} PROVE FALSE
  OBVIOUS
<1>2. PICK m \in T : \A k \in T : m <= k
  <2>1. T \subseteq Nat
    OBVIOUS
  <2> QED BY <1>1, <2>1, Smallest
<1>3. m \in 0 .. n /\ g[m] \notin Int
  OBVIOUS
<1>4. m # 0
  BY <1>3, SumStep
<1>5. m - 1 \notin T
  <2>1. m - 1 \in T => m <= m - 1
    BY <1>2, Zenon
  <2> QED BY <2>1, <1>3
<1>6. m - 1 \in 0 .. n /\ m \in 1 .. n
  BY <1>3, <1>4
<1>7. g[m - 1] \in Int /\ Worth(seq[m], value) \in Int
  BY <1>5, <1>6 DEF Worth
<1> QED BY <1>3, <1>6, <1>7, SumStep

\* Nothing has the sum 0.
LEMMA SumEmpty ==
  ASSUME NEW value
  PROVE  SumOf(<<>>, value) = 0
<1>1. Len(<<>>) = 0
  OBVIOUS
<1>2. PICK g : AreSums(g, 0, <<>>, value) /\ SumOf(<<>>, value) = g[0]
  BY <1>1, SumIs
<1> QED BY <1>2, SumStep

\* The sum of two sequences, one after the other.
LEMMA SumConcat ==
  ASSUME NEW S, NEW s \in Seq(S), NEW t \in Seq(S),
         NEW value, \A e \in DOMAIN value : value[e] \in Int
  PROVE  /\ SumOf(s \o t, value) = SumOf(s, value) + SumOf(t, value)
         /\ SumOf(s, value) \in Int
<1> DEFINE n == Len(s)
           m == Len(t)
           u == s \o t
<1>1. n \in Nat /\ m \in Nat /\ Len(u) = n + m
  BY ConcatProperties, LenProperties
<1>2. /\ \A i \in 1 .. n : u[i] = s[i]
      /\ \A i \in 1 .. m : u[n + i] = t[i]
  BY ConcatProperties, <1>1
<1>3. PICK g : AreSums(g, n, s, value) /\ SumOf(s, value) = g[n]
  BY <1>1, SumIs
<1>4. PICK h : AreSums(h, m, t, value) /\ SumOf(t, value) = h[m]
  BY <1>1, SumIs
<1>5. PICK k : AreSums(k, n + m, u, value) /\ SumOf(u, value) = k[n + m]
  <2>1. Len(u) \in Nat
    BY <1>1
  <2>2. \E x : AreSums(x, Len(u), u, value) /\ SumOf(u, value) = x[Len(u)]
    BY <2>1, SumIs, Zenon
  <2> HIDE DEF u
  <2> QED BY <1>1, <2>2
<1> HIDE DEF n, m, u
<1>6. /\ \A i \in 0 .. n : g[i] \in Int
      /\ \A i \in 0 .. m : h[i] \in Int
  BY <1>1, <1>3, <1>4, SumInt
<1>7. \A i \in 0 .. n : k[i] = g[i]
  <2> DEFINE T == {i \in 0 .. n : k[i] # g[i]}
  <2>1. SUFFICES ASSUME T # {} PROVE FALSE
    OBVIOUS
  <2>2. PICK x \in T : \A y \in T : x <= y
    <3>1. T \subseteq Nat
      BY <1>1
    <3> QED BY <2>1, <3>1, Smallest
  <2>3. x \in 0 .. n /\ k[x] # g[x]
    OBVIOUS
  <2>4. k[0] = 0 /\ g[0] = 0
    BY <1>1, <1>3, <1>5, SumStep
  <2>5. x # 0
    BY <2>3, <2>4
  <2>6. x - 1 \notin T
    <3>1. x - 1 \in T => x <= x - 1
      BY <2>2, Zenon
    <3> QED BY <3>1, <2>3
  <2>7. x - 1 \in 0 .. n /\ x \in 1 .. n /\ x \in 1 .. n + m
    BY <1>1, <2>3, <2>5
  <2>8. k[x - 1] = g[x - 1]
    BY <2>6, <2>7
  <2>9. k[x] = k[x - 1] + Worth(u[x], value) /\ g[x] = g[x - 1] + Worth(s[x], value)
    BY <1>1, <1>3, <1>5, <2>7, SumStep
  <2> QED BY <1>2, <2>3, <2>7, <2>8, <2>9
<1>8. \A i \in 0 .. m : k[n + i] = g[n] + h[i]
  <2> DEFINE T == {i \in 0 .. m : k[n + i] # g[n] + h[i]}
  <2>1. SUFFICES ASSUME T # {} PROVE FALSE
    OBVIOUS
  <2>2. PICK x \in T : \A y \in T : x <= y
    <3>1. T \subseteq Nat
      BY <1>1
    <3> QED BY <2>1, <3>1, Smallest
  <2>3. x \in 0 .. m /\ k[n + x] # g[n] + h[x]
    OBVIOUS
  <2>4. x # 0
    <3>1. h[0] = 0 /\ n \in 0 .. n /\ n + 0 = n
      BY <1>1, <1>4, SumStep
    <3> QED BY <1>6, <1>7, <2>3, <3>1
  <2>6. x - 1 \notin T
    <3>1. x - 1 \in T => x <= x - 1
      BY <2>2, Zenon
    <3> QED BY <3>1, <2>3
  <2>7. x - 1 \in 0 .. m /\ x \in 1 .. m /\ n + x \in 1 .. n + m /\ n + (x - 1) = (n + x) - 1
    BY <1>1, <2>3, <2>4
  <2>8. k[(n + x) - 1] = g[n] + h[x - 1]
    BY <2>6, <2>7
  <2>9. k[n + x] = k[(n + x) - 1] + Worth(u[n + x], value) /\ h[x] = h[x - 1] + Worth(t[x], value)
    BY <1>1, <1>4, <1>5, <2>7, SumStep
  <2>10. u[n + x] = t[x] /\ Worth(t[x], value) \in Int /\ g[n] \in Int /\ h[x - 1] \in Int
    BY <1>1, <1>2, <1>6, <2>7 DEF Worth
  <2> QED BY <2>3, <2>8, <2>9, <2>10
<1>9. m \in 0 .. m /\ n \in 0 .. n
  BY <1>1
<1> QED BY <1>3, <1>4, <1>5, <1>6, <1>8, <1>9 DEF u

\* One event alone.
LEMMA SumOne ==
  ASSUME NEW e, NEW value, \A x \in DOMAIN value : value[x] \in Int
  PROVE  SumOf(<<e>>, value) = Worth(e, value)
<1>1. Len(<<e>>) = 1 /\ <<e>>[1] = e
  OBVIOUS
<1>2. PICK g : AreSums(g, 1, <<e>>, value) /\ SumOf(<<e>>, value) = g[1]
  BY <1>1, SumIs
<1>3. g[0] = 0 /\ g[1] = g[0] + Worth(e, value)
  <2>1. 1 \in 1 .. 1 /\ 1 - 1 = 0 /\ 1 \in Nat
    OBVIOUS
  <2>2. g[0] = 0 /\ \A i \in 1 .. 1 : g[i] = g[i - 1] + Worth(<<e>>[i], value)
    BY <1>2, SumStep, SMT
  <2> QED BY <1>1, <2>1, <2>2
<1>4. Worth(e, value) \in Int
  BY DEF Worth
<1> QED BY <1>2, <1>3, <1>4

\* The sum with one event more.
LEMMA SumAppend ==
  ASSUME NEW S, NEW s \in Seq(S), NEW e \in S,
         NEW value, \A x \in DOMAIN value : value[x] \in Int
  PROVE  SumOf(Append(s, e), value) = SumOf(s, value) + Worth(e, value)
<1> DEFINE t == <<e>>
<1>1. Append(s, e) = s \o t /\ t \in Seq(S)
  BY AppendIsConcat
<1>2. SumOf(t, value) = Worth(e, value)
  BY SumOne
<1> HIDE DEF t
<1>3. SumOf(s \o t, value) = SumOf(s, value) + SumOf(t, value)
  BY <1>1, SumConcat
<1> QED BY <1>1, <1>2, <1>3

\* The sum is the first event, and the sum of the rest.
LEMMA SumTail ==
  ASSUME NEW S, NEW s \in Seq(S), s # <<>>,
         NEW value, \A x \in DOMAIN value : value[x] \in Int
  PROVE  /\ SumOf(s, value) = Worth(Head(s), value) + SumOf(Tail(s), value)
         /\ Worth(Head(s), value) \in Int
<1>1. Head(s) \in S /\ Tail(s) \in Seq(S) /\ <<Head(s)>> \in Seq(S) /\ s = <<Head(s)>> \o Tail(s)
  <2>1. Head(s) \in S /\ Tail(s) \in Seq(S) /\ <<Head(s)>> \in Seq(S)
    OBVIOUS
  <2> DEFINE u == <<Head(s)>> \o Tail(s)
  <2>2. u \in Seq(S) /\ Len(u) = Len(s) /\ \A i \in 1 .. Len(s) : u[i] = s[i]
    OBVIOUS
  <2> QED BY <2>1, <2>2, SeqEqual
<1> DEFINE h == Head(s)
           t == Tail(s)
           u == <<h>>
<1>2. u \in Seq(S) /\ t \in Seq(S) /\ s = u \o t
  BY <1>1
<1>3. SumOf(u, value) = Worth(h, value)
  BY SumOne
<1> HIDE DEF h, t, u
<1>4. SumOf(u \o t, value) = SumOf(u, value) + SumOf(t, value)
  BY <1>2, SumConcat
<1>5. Worth(h, value) \in Int
  BY DEF Worth
<1> QED BY <1>2, <1>3, <1>4, <1>5 DEF h, t

-----------------------------------------------------------------------------
(* The ring of the game.                                                   *)

\* What is assumed of the constants, as the facts the steps cite.
LEMMA InputConstants ==
  /\ Buffers \in Nat \ {0} /\ MaxInputs \in Nat
  /\ Batch \in Nat /\ Batch >= 2 /\ MaxEvents = 2 * Batch /\ MaxEvents \in Nat /\ MaxEvents >= 4
  /\ Motions \subseteq Int
  /\ Keys \cap {272, 273, 274} = {} /\ Shift \notin {272, 273, 274}
  /\ DOMAIN ev_to_doom \subseteq Keys /\ Shift \notin DOMAIN ev_to_doom
  BY InputAssumption

\* Division of integers.
LEMMA DivMod ==
  ASSUME NEW a \in Int, NEW w \in Nat, w > 0
  PROVE  /\ a \div w \in Int /\ a % w \in 0 .. w - 1
         /\ a = w * (a \div w) + (a % w)
  OBVIOUS

\* The numbers of the ring's places.
LEMMA ModIs ==
  ASSUME NEW a \in Int, NEW m \in Nat \ {0}, -m <= a, a < 2 * m
  PROVE  a % m = IF a < 0 THEN a + m ELSE IF a < m THEN a ELSE a - m
<1>1. /\ a \div m \in Int /\ a % m \in 0 .. m - 1
      /\ a = m * (a \div m) + (a % m)
  BY DivMod
<1> DEFINE q == a \div m
           r == a % m
<1>2. a = m * q + r /\ r \in 0 .. m - 1 /\ q \in Int
  BY <1>1
<1> HIDE DEF q, r
<1>3. CASE a < 0
  <2>1. q = -1
    <3>1. CASE q <= -2
      <4>1. m * q <= -(2 * m)
        BY <1>2, <3>1
      <4> QED BY <1>2, <4>1
    <3>2. CASE q >= 0
      <4>1. m * q >= 0
        BY <1>2, <3>2
      <4> QED BY <1>2, <1>3, <4>1
    <3> QED BY <1>2, <3>1, <3>2
  <2> QED BY <1>2, <1>3, <2>1 DEF r
<1>4. CASE a >= 0
  <2>1. CASE q <= -1
    <3>1. m * q <= -m
      BY <1>2, <2>1
    <3> QED BY <1>2, <1>4, <3>1
  <2>2. CASE q >= 2
    <3>1. m * q >= 2 * m
      BY <1>2, <2>2
    <3> QED BY <1>2, <1>4, <3>1
  <2>3. CASE q = 0
    BY <1>2, <1>4, <2>3 DEF r
  <2>4. CASE q = 1
    BY <1>2, <1>4, <2>4 DEF r
  <2> QED BY <1>2, <2>1, <2>2, <2>3, <2>4
<1> QED BY <1>3, <1>4

\* How far one place of the ring is after another.
LEMMA Difference ==
  ASSUME NEW h \in 0 .. MaxEvents - 1, NEW t \in 0 .. MaxEvents - 1
  PROVE  (h - t) % MaxEvents = IF h < t THEN (h - t) + MaxEvents ELSE h - t
<1> DEFINE x == h - t
           M == MaxEvents
<1>1. /\ x \in Int /\ -M <= x /\ x < 2 * M /\ M \in Nat \ {0}
      /\ x < M /\ (x < 0 <=> h < t)
  BY InputConstants
<1> HIDE DEF x, M
<1>2. x % M = IF x < 0 THEN x + M ELSE IF x < M THEN x ELSE x - M
  BY <1>1, ModIs, Zenon
<1> QED BY <1>1, <1>2 DEF x, M

\* How many places of the ring are taken, and what is in it.
Occupied == (eventhead - eventtail) % MaxEvents
RingOK(S) ==
    /\ events \in [0 .. MaxEvents - 1 -> S]
    /\ eventhead \in 0 .. MaxEvents - 1 /\ eventtail \in 0 .. MaxEvents - 1

\* The place after a place, and a place so far after another.
LEMMA RingFacts ==
  ASSUME NEW S, RingOK(S)
  PROVE  /\ Occupied = IF eventhead < eventtail THEN (eventhead - eventtail) + MaxEvents
                      ELSE eventhead - eventtail
         /\ Occupied \in 0 .. MaxEvents - 1
         /\ \A i \in 1 .. MaxEvents : ((eventtail + i) - 1) % MaxEvents =
              IF (eventtail + i) - 1 < MaxEvents THEN (eventtail + i) - 1
              ELSE ((eventtail + i) - 1) - MaxEvents
         /\ \A p \in 0 .. MaxEvents - 1 : (p + 1) % MaxEvents = IF p = MaxEvents - 1 THEN 0 ELSE p + 1
<1> DEFINE M == MaxEvents
           h == eventhead
           t == eventtail
<1>1. M \in Nat \ {0} /\ h \in 0 .. M - 1 /\ t \in 0 .. M - 1 /\ M >= 4
  BY InputConstants DEF RingOK
<1> HIDE DEF M, h, t
<1>2. (h - t) % M = IF h < t THEN (h - t) + M ELSE h - t
  BY <1>1, Difference DEF M
<1>3. ASSUME NEW i \in 1 .. M
      PROVE  ((t + i) - 1) % M = IF (t + i) - 1 < M THEN (t + i) - 1 ELSE ((t + i) - 1) - M
  <2> DEFINE x == (t + i) - 1
  <2>1. x \in Int /\ -M <= x /\ x < 2 * M /\ M \in Nat \ {0} /\ x >= 0
    BY <1>1
  <2> HIDE DEF x
  <2>2. x % M = IF x < 0 THEN x + M ELSE IF x < M THEN x ELSE x - M
    BY <2>1, ModIs, Zenon
  <2> QED BY <2>1, <2>2 DEF x
<1>4. ASSUME NEW p \in 0 .. M - 1 PROVE (p + 1) % M = IF p = M - 1 THEN 0 ELSE p + 1
  <2> DEFINE x == p + 1
  <2>1. x \in Int /\ -M <= x /\ x < 2 * M /\ M \in Nat \ {0} /\ x >= 1 /\ x <= M
    BY <1>1
  <2> HIDE DEF x
  <2>2. x % M = IF x < 0 THEN x + M ELSE IF x < M THEN x ELSE x - M
    BY <2>1, ModIs, Zenon
  <2> QED BY <1>1, <2>1, <2>2 DEF x
<1>5. (h - t) % M \in 0 .. M - 1
  BY <1>1, <1>2
<1> QED BY <1>2, <1>3, <1>4, <1>5 DEF Occupied, M, h, t

\* Posted is the ring's sequence.
LEMMA PostedFacts ==
  ASSUME NEW S, RingOK(S)
  PROVE  /\ Posted \in Seq(S) /\ Len(Posted) = Occupied
         /\ \A i \in 1 .. Occupied : Posted[i] = events[((eventtail + i) - 1) % MaxEvents]
         /\ Posted = <<>> <=> eventhead = eventtail
<1> DEFINE n == Occupied
           At(i) == events[((eventtail + i) - 1) % MaxEvents]
<1>1. n \in Nat /\ n <= MaxEvents - 1
  BY RingFacts, InputConstants
<1>2. Posted = [i \in 1 .. n |-> At(i)]
  BY Zenon DEF Posted, Occupied
<1>3. ASSUME NEW i \in 1 .. n PROVE At(i) \in S
  <2>1. ((eventtail + i) - 1) % MaxEvents \in 0 .. MaxEvents - 1
    <3>1. i \in 1 .. MaxEvents
      BY <1>1, InputConstants
    <3> DEFINE x == (eventtail + i) - 1
    <3>2. x % MaxEvents = IF x < MaxEvents THEN x ELSE x - MaxEvents
      BY <3>1, RingFacts
    <3>3. x \in 0 .. 2 * MaxEvents - 1
      BY <3>1, InputConstants DEF RingOK
    <3> HIDE DEF x
    <3>4. x % MaxEvents \in 0 .. MaxEvents - 1
      BY <3>2, <3>3, InputConstants
    <3> QED BY <3>4 DEF x
  <2> QED BY <2>1 DEF RingOK
<1>4. eventhead = eventtail <=> n = 0
  <2>1. n = IF eventhead < eventtail THEN (eventhead - eventtail) + MaxEvents
            ELSE eventhead - eventtail
    BY RingFacts
  <2> QED BY <2>1, InputConstants DEF RingOK
<1> HIDE DEF n, At
<1>5. Posted \in [1 .. n -> S]
  BY <1>2, <1>3
<1>6. Posted \in Seq(S)
  BY <1>1, <1>5, SeqDef
<1>7. Len(Posted) = n
  BY <1>1, <1>5, <1>6
<1>8. Posted = <<>> <=> n = 0
  BY <1>6, <1>7
<1>9. \A i \in 1 .. n : Posted[i] = At(i)
  BY <1>2
<1> QED BY <1>4, <1>6, <1>7, <1>8, <1>9 DEF n, At

\* An event posted to a ring that is not full comes last.
LEMMA PostedAppend ==
  ASSUME NEW S, RingOK(S), NEW e \in S, Occupied < MaxEvents - 1,
         events' = [events EXCEPT ![eventhead] = e],
         eventhead' = (eventhead + 1) % MaxEvents, UNCHANGED eventtail
  PROVE  RingOK(S)' /\ Posted' = Append(Posted, e) /\ Occupied' = Occupied + 1
<1> DEFINE M == MaxEvents
           n == Occupied
<1>1. M \in Nat /\ M >= 4 /\ n \in 0 .. M - 2
  BY RingFacts, InputConstants
<1>2. eventhead' = IF eventhead = M - 1 THEN 0 ELSE eventhead + 1
  BY RingFacts DEF RingOK
<1>3. RingOK(S)'
  BY <1>1, <1>2 DEF RingOK
<1>4. Occupied' = n + 1
  <2>1. n = IF eventhead < eventtail THEN (eventhead - eventtail) + M ELSE eventhead - eventtail
    BY RingFacts
  <2>2. Occupied' = IF eventhead' < eventtail' THEN (eventhead' - eventtail') + M
                   ELSE eventhead' - eventtail'
    <3>1. eventhead' \in 0 .. M - 1 /\ eventtail' \in 0 .. M - 1
      BY <1>3 DEF RingOK
    <3> QED BY <3>1, Difference DEF Occupied
  <2> QED BY <1>1, <1>2, <2>1, <2>2 DEF RingOK
<1>5. /\ Posted' \in Seq(S) /\ Len(Posted') = n + 1
      /\ \A i \in 1 .. n + 1 : Posted'[i] = events'[((eventtail + i) - 1) % M]
  <2>1. RingOK(S)' => /\ Posted' \in Seq(S) /\ Len(Posted') = Occupied'
                      /\ \A i \in 1 .. Occupied' : Posted'[i] = events'[((eventtail' + i) - 1) % M]
    <3> DEFINE nn == Occupied'
               At(i) == events'[((eventtail' + i) - 1) % M]
    <3>1. Posted' = [i \in 1 .. nn |-> At(i)]
      BY Zenon DEF Posted, Occupied
    <3>2. nn \in Nat
      BY <1>1, <1>4
    <3>3. ASSUME NEW i \in 1 .. nn PROVE At(i) \in S
      <4>1. i \in 1 .. M
        BY <1>1, <1>4
      <4> DEFINE x == (eventtail + i) - 1
      <4>2. x % M = IF x < M THEN x ELSE x - M
        BY <4>1, RingFacts
      <4>3. x \in 0 .. 2 * M - 1
        BY <4>1, <1>1 DEF RingOK
      <4> HIDE DEF x
      <4>4. x % M \in 0 .. M - 1
        BY <4>2, <4>3, <1>1
      <4> QED BY <4>4, <1>3 DEF x, RingOK
    <3> HIDE DEF nn, At
    <3>4. Posted' \in [1 .. nn -> S]
      BY <3>1, <3>3
    <3>5. Posted' \in Seq(S)
      BY <3>2, <3>4, SeqDef
    <3>6. Len(Posted') = nn
      BY <3>2, <3>4, <3>5
    <3>7. \A i \in 1 .. nn : Posted'[i] = At(i)
      BY <3>1
    <3> QED BY <3>5, <3>6, <3>7 DEF nn, At
  <2> QED BY <1>3, <1>4, <2>1
<1>6. /\ Posted \in Seq(S) /\ Len(Posted) = n
      /\ \A i \in 1 .. n : Posted[i] = events[((eventtail + i) - 1) % M]
  BY PostedFacts
<1>7. ((eventtail + (n + 1)) - 1) % M = eventhead
  <2>1. n + 1 \in 1 .. M
    BY <1>1
  <2>2. ((eventtail + (n + 1)) - 1) % M = IF (eventtail + (n + 1)) - 1 < M THEN (eventtail + (n + 1)) - 1
              ELSE ((eventtail + (n + 1)) - 1) - M
    BY <2>1, RingFacts
  <2>3. n = IF eventhead < eventtail THEN (eventhead - eventtail) + M ELSE eventhead - eventtail
    BY RingFacts
  <2> QED BY <1>1, <2>2, <2>3 DEF RingOK
<1>8. ASSUME NEW i \in 1 .. n
      PROVE  /\ ((eventtail + i) - 1) % M # eventhead
             /\ ((eventtail + i) - 1) % M \in 0 .. M - 1
  <2>1. i \in 1 .. M
    BY <1>1
  <2>2. ((eventtail + i) - 1) % M = IF (eventtail + i) - 1 < M THEN (eventtail + i) - 1
              ELSE ((eventtail + i) - 1) - M
    BY <2>1, RingFacts
  <2>3. n = IF eventhead < eventtail THEN (eventhead - eventtail) + M ELSE eventhead - eventtail
    BY RingFacts
  <2> DEFINE x == ((eventtail + i) - 1) % M
  <2>4. x = IF (eventtail + i) - 1 < M THEN (eventtail + i) - 1 ELSE ((eventtail + i) - 1) - M
    BY <2>2
  <2> HIDE DEF x
  <2>5. x # eventhead /\ x \in 0 .. M - 1
    BY <1>1, <2>3, <2>4 DEF RingOK
  <2> QED BY <2>5 DEF x
<1> HIDE DEF M, n
<1>9. ASSUME NEW i \in 1 .. n + 1 PROVE Posted'[i] = Append(Posted, e)[i]
  <2>1. CASE i = n + 1
    <3>1. Posted'[i] = events'[eventhead]
      BY <1>5, <1>7, <2>1
    <3>2. Append(Posted, e)[i] = e
      BY <1>6, <2>1, AppendProperties
    <3> QED BY <3>1, <3>2 DEF RingOK
  <2>2. CASE i # n + 1
    <3>1. i \in 1 .. n
      BY <1>1, <2>2
    <3> DEFINE x == ((eventtail + i) - 1) % M
    <3>2. x # eventhead /\ x \in 0 .. M - 1 /\ Posted'[i] = events'[x] /\ Posted[i] = events[x]
      BY <1>5, <1>6, <1>8, <3>1
    <3> HIDE DEF x
    <3>3. events'[x] = events[x]
      BY <3>2 DEF RingOK, M
    <3>4. Append(Posted, e)[i] = Posted[i]
      BY <1>6, <3>1, AppendProperties
    <3> QED BY <3>2, <3>3, <3>4
  <2> QED BY <2>1, <2>2
<1>10. Append(Posted, e) \in Seq(S) /\ Len(Append(Posted, e)) = n + 1
  BY <1>6, AppendProperties
<1>11. Posted' = Append(Posted, e)
  BY <1>5, <1>9, <1>10, SeqEqual
<1> QED BY <1>3, <1>4, <1>11 DEF n

\* The event popped is the first.
LEMMA PostedTail ==
  ASSUME NEW S, RingOK(S), eventtail # eventhead,
         eventtail' = (eventtail + 1) % MaxEvents, UNCHANGED <<events, eventhead>>
  PROVE  /\ RingOK(S)' /\ Posted # <<>> /\ Head(Posted) = events[eventtail]
         /\ Posted' = Tail(Posted) /\ Occupied' = Occupied - 1 /\ Occupied > 0
<1> DEFINE M == MaxEvents
           n == Occupied
<1>0. Occupied # 0
  <2>1. Occupied = IF eventhead < eventtail THEN (eventhead - eventtail) + MaxEvents
                  ELSE eventhead - eventtail
    BY RingFacts
  <2> QED BY <2>1, InputConstants DEF RingOK
<1>1. M \in Nat /\ M >= 4 /\ n \in 1 .. M - 1
  <2>1. n \in 0 .. M - 1 /\ n # 0
    BY RingFacts, PostedFacts, <1>0
  <2> QED BY <2>1, InputConstants
<1>2. eventtail' = IF eventtail = M - 1 THEN 0 ELSE eventtail + 1
  BY RingFacts DEF RingOK
<1>3. RingOK(S)'
  BY <1>1, <1>2 DEF RingOK
<1>4. Occupied' = n - 1
  <2>1. n = IF eventhead < eventtail THEN (eventhead - eventtail) + M ELSE eventhead - eventtail
    BY RingFacts
  <2>2. Occupied' = IF eventhead' < eventtail' THEN (eventhead' - eventtail') + M
                   ELSE eventhead' - eventtail'
    <3>1. eventhead' \in 0 .. M - 1 /\ eventtail' \in 0 .. M - 1
      BY <1>3 DEF RingOK
    <3> QED BY <3>1, Difference DEF Occupied
  <2> QED BY <1>1, <1>2, <2>1, <2>2 DEF RingOK
<1>5. /\ Posted \in Seq(S) /\ Len(Posted) = n
      /\ \A i \in 1 .. n : Posted[i] = events[((eventtail + i) - 1) % M]
  BY PostedFacts
<1>6. ASSUME NEW i \in 1 .. n - 1
      PROVE  ((eventtail' + i) - 1) % M = ((eventtail + (i + 1)) - 1) % M
  <2>1. i + 1 \in 1 .. M /\ i \in 1 .. M
    BY <1>1
  <2>2. ((eventtail + (i + 1)) - 1) % M = IF (eventtail + (i + 1)) - 1 < M THEN (eventtail + (i + 1)) - 1
              ELSE ((eventtail + (i + 1)) - 1) - M
    BY <2>1, RingFacts
  <2> DEFINE x == (eventtail' + i) - 1
  <2>3. x \in 0 .. 2 * M - 1
    BY <1>1, <1>3, <2>1 DEF RingOK
  <2>4. x = IF eventtail = M - 1 THEN i - 1 ELSE (eventtail + (i + 1)) - 1
    BY <1>1, <1>2 DEF RingOK
  <2> HIDE DEF x
  <2>5. x % M = IF x < M THEN x ELSE x - M
    <3>1. x \in Int /\ -M <= x /\ x < 2 * M /\ M \in Nat \ {0} /\ x >= 0
      BY <1>1, <2>3
    <3>2. x % M = IF x < 0 THEN x + M ELSE IF x < M THEN x ELSE x - M
      BY <3>1, ModIs, Zenon
    <3> QED BY <3>1, <3>2
  <2>6. x % M = ((eventtail + (i + 1)) - 1) % M
    BY <1>1, <2>1, <2>2, <2>3, <2>4, <2>5 DEF RingOK
  <2> QED BY <2>6 DEF x
<1>7. Posted' = [i \in 1 .. n - 1 |-> events[((eventtail' + i) - 1) % M]]
  BY <1>4 DEF Posted, Occupied
<1>8. Posted # <<>> /\ Head(Posted) = events[eventtail]
  <2>1. 1 \in 1 .. n /\ 1 \in 1 .. M
    BY <1>1
  <2>2. ((eventtail + 1) - 1) % M = eventtail
    <3>1. ((eventtail + 1) - 1) % M = IF (eventtail + 1) - 1 < M THEN (eventtail + 1) - 1
              ELSE ((eventtail + 1) - 1) - M
      BY <2>1, RingFacts
    <3> QED BY <3>1, <1>1 DEF RingOK
  <2> HIDE DEF n, M
  <2> QED BY <1>1, <1>5, <2>1, <2>2
<1>9. Tail(Posted) = [i \in 1 .. n - 1 |-> Posted[i + 1]]
  <2>1. Tail(Posted) \in Seq(S) /\ Len(Tail(Posted)) = n - 1
        /\ \A i \in 1 .. n - 1 : Tail(Posted)[i] = Posted[i + 1]
    BY <1>5, <1>8, HeadTailProperties
  <2> QED BY <2>1, LenProperties
<1>10. ASSUME NEW i \in 1 .. n - 1 PROVE events[((eventtail' + i) - 1) % M] = Posted[i + 1]
  <2>1. i + 1 \in 1 .. n
    BY <1>1
  <2> QED BY <1>5, <1>6, <2>1
<1> HIDE DEF M, n
<1>11. Posted' = Tail(Posted)
  BY <1>7, <1>9, <1>10
<1> QED BY <1>1, <1>3, <1>4, <1>8, <1>11 DEF n

-----------------------------------------------------------------------------
(* Groups, and the SYN that ends each.                                     *)

\* Between two events of some kind there is a SYN; one comes before the first;
\* one is the last; there is no event of the kind, nor a SYN.
Separated(s, M) ==
    \A i, j \in DOMAIN s : (i < j /\ s[i] \in M /\ s[j] \in M) => \E m \in i + 1 .. j - 1 : s[m] = Syn
SynFirst(s, M) ==
    /\ \E m \in DOMAIN s : s[m] = Syn
    /\ \A j \in DOMAIN s : s[j] \in M => \E m \in 1 .. j - 1 : s[m] = Syn
EndsInSyn(s) == s # <<>> => s[Len(s)] = Syn
HasOne(s, M) == \E i \in DOMAIN s : s[i] \in M

\* The first event is taken: what was said of the groups is true of the rest, and
\* a SYN comes before the next event of the kind.
LEMMA TailFlows ==
  ASSUME NEW S, NEW s \in Seq(S), s # <<>>, NEW M, Syn \notin M
  PROVE  /\ Separated(s, M) => Separated(Tail(s), M)
         /\ EndsInSyn(s) => EndsInSyn(Tail(s))
         /\ (SynFirst(s, M) /\ Head(s) # Syn) => SynFirst(Tail(s), M)
         /\ (Separated(s, M) /\ EndsInSyn(s) /\ Head(s) \in M) => SynFirst(Tail(s), M)
         /\ SynFirst(s, M) => Head(s) \notin M
<1> DEFINE n == Len(s)
           t == Tail(s)
<1>1. n \in Nat \ {0} /\ DOMAIN s = 1 .. n /\ t \in Seq(S) /\ DOMAIN t = 1 .. n - 1 /\ Len(t) = n - 1
  BY HeadTailProperties, LenProperties, EmptySeq
<1>2. Head(s) = s[1] /\ \A i \in 1 .. n - 1 : t[i] = s[i + 1]
  BY HeadTailProperties, <1>1
<1>3. \A i \in 2 .. n : i - 1 \in 1 .. n - 1 /\ t[i - 1] = s[i]
  <2> SUFFICES ASSUME NEW i \in 2 .. n PROVE i - 1 \in 1 .. n - 1 /\ t[i - 1] = s[i]
    OBVIOUS
  <2> DEFINE k == i - 1
  <2>1. k \in 1 .. n - 1 /\ k + 1 = i
    BY <1>1
  <2> HIDE DEF k
  <2> QED BY <1>2, <2>1 DEF k
<1>4. t = <<>> <=> n = 1
  <2> HIDE DEF n, t
  <2>1. t = <<>> => n = 1
    BY <1>1, EmptySeq
  <2>2. n = 1 => t = <<>>
    BY <1>1, EmptySeq
  <2> QED BY <2>1, <2>2
<1> HIDE DEF n, t
<1>5. ASSUME Separated(s, M) PROVE Separated(t, M)
  <2> SUFFICES ASSUME NEW i \in 1 .. n - 1, NEW j \in 1 .. n - 1, i < j, t[i] \in M, t[j] \in M
               PROVE  \E m \in i + 1 .. j - 1 : t[m] = Syn
    BY <1>1 DEF Separated
  <2>1. i + 1 \in 1 .. n /\ j + 1 \in 1 .. n /\ i + 1 < j + 1 /\ s[i + 1] \in M /\ s[j + 1] \in M
    BY <1>1, <1>2
  <2>2. PICK m \in (i + 1) + 1 .. (j + 1) - 1 : s[m] = Syn
    BY <1>1, <1>5, <2>1, Zenon DEF Separated
  <2>3. m - 1 \in i + 1 .. j - 1 /\ m \in 2 .. n
    BY <1>1, <2>2
  <2> QED BY <1>3, <2>2, <2>3
<1>6. ASSUME EndsInSyn(s) PROVE EndsInSyn(t)
  BY <1>1, <1>3, <1>4, <1>6 DEF EndsInSyn, n
<1>7. ASSUME SynFirst(s, M), Head(s) # Syn PROVE SynFirst(t, M)
  <2>1. PICK m \in 1 .. n : s[m] = Syn
    BY <1>1, <1>7 DEF SynFirst
  <2>2. m \in 2 .. n /\ m - 1 \in 1 .. n - 1
    BY <1>1, <1>2, <1>7, <2>1
  <2>3. t[m - 1] = Syn
    BY <1>3, <2>1, <2>2
  <2>4. ASSUME NEW j \in 1 .. n - 1, t[j] \in M PROVE \E k \in 1 .. j - 1 : t[k] = Syn
    <3>1. j + 1 \in 1 .. n /\ s[j + 1] \in M
      BY <1>1, <1>2, <2>4
    <3>2. PICK k \in 1 .. (j + 1) - 1 : s[k] = Syn
      BY <1>1, <1>7, <3>1, Zenon DEF SynFirst
    <3>3. k \in 2 .. n /\ k - 1 \in 1 .. j - 1
      BY <1>1, <1>2, <1>7, <3>2
    <3> QED BY <1>3, <3>2, <3>3
  <2> QED BY <1>1, <2>2, <2>3, <2>4 DEF SynFirst
<1>8. ASSUME Separated(s, M), EndsInSyn(s), Head(s) \in M PROVE SynFirst(t, M)
  <2>1. s[n] = Syn /\ n # 1
    BY <1>1, <1>2, <1>8 DEF EndsInSyn, n
  <2>2. n - 1 \in 1 .. n - 1 /\ n \in 2 .. n
    BY <1>1, <2>1
  <2>3. t[n - 1] = Syn
    BY <1>3, <2>1, <2>2
  <2>4. ASSUME NEW j \in 1 .. n - 1, t[j] \in M PROVE \E k \in 1 .. j - 1 : t[k] = Syn
    <3>1. j + 1 \in 1 .. n /\ s[j + 1] \in M /\ 1 \in 1 .. n /\ 1 < j + 1
      BY <1>1, <1>2, <2>4
    <3>2. PICK k \in 1 + 1 .. (j + 1) - 1 : s[k] = Syn
      BY <1>1, <1>2, <1>8, <3>1, Zenon DEF Separated
    <3>3. k \in 2 .. n /\ k - 1 \in 1 .. j - 1
      BY <1>1, <3>2
    <3> QED BY <1>3, <3>2, <3>3
  <2> QED BY <1>1, <2>2, <2>3, <2>4 DEF SynFirst
<1>9. ASSUME SynFirst(s, M) PROVE Head(s) \notin M
  <2>1. 1 \in DOMAIN s /\ 1 .. 1 - 1 = {}
    BY <1>1
  <2> QED BY <1>2, <1>9, <2>1 DEF SynFirst
<1> QED BY <1>5, <1>6, <1>7, <1>8, <1>9 DEF t

\* What ends in a SYN may be followed by another group.
LEMMA ConcatFlows ==
  ASSUME NEW S, NEW s \in Seq(S), NEW t \in Seq(S), NEW M
  PROVE  /\ (Separated(s, M) /\ Separated(t, M) /\ EndsInSyn(s) /\ Syn \notin M) => Separated(s \o t, M)
         /\ (EndsInSyn(s) /\ EndsInSyn(t)) => EndsInSyn(s \o t)
         /\ SynFirst(s, M) => SynFirst(s \o t, M)
<1> DEFINE n == Len(s)
           m == Len(t)
           u == s \o t
<1>1. n \in Nat /\ m \in Nat /\ DOMAIN s = 1 .. n /\ DOMAIN t = 1 .. m
      /\ u \in Seq(S) /\ DOMAIN u = 1 .. n + m /\ Len(u) = n + m
  BY ConcatProperties, LenProperties
<1>2. /\ \A i \in 1 .. n : u[i] = s[i]
      /\ \A i \in 1 .. m : u[n + i] = t[i]
  BY ConcatProperties, <1>1
<1>3. \A i \in 1 .. n + m : i \in 1 .. n \/ (i - n \in 1 .. m /\ u[i] = t[i - n])
  <2> SUFFICES ASSUME NEW i \in 1 .. n + m, i \notin 1 .. n
               PROVE  i - n \in 1 .. m /\ u[i] = t[i - n]
    OBVIOUS
  <2> DEFINE k == i - n
  <2>1. k \in 1 .. m /\ n + k = i
    BY <1>1
  <2> HIDE DEF k
  <2> QED BY <1>2, <2>1 DEF k
<1>4. (s = <<>> <=> n = 0) /\ (t = <<>> <=> m = 0)
  BY <1>1
<1> HIDE DEF n, m, u
<1>5. ASSUME Separated(s, M), Separated(t, M), EndsInSyn(s), Syn \notin M PROVE Separated(u, M)
  <2> SUFFICES ASSUME NEW i \in 1 .. n + m, NEW j \in 1 .. n + m, i < j, u[i] \in M, u[j] \in M
               PROVE  \E k \in i + 1 .. j - 1 : u[k] = Syn
    BY <1>1 DEF Separated
  <2>1. CASE j \in 1 .. n
    <3>1. i \in 1 .. n /\ s[i] \in M /\ s[j] \in M
      BY <1>1, <1>2, <2>1
    <3>2. PICK k \in i + 1 .. j - 1 : s[k] = Syn
      BY <1>1, <1>5, <2>1, <3>1, Zenon DEF Separated
    <3>3. k \in 1 .. n
      BY <1>1, <2>1, <3>1, <3>2
    <3> QED BY <1>2, <3>2, <3>3
  <2>2. CASE j \notin 1 .. n /\ i \in 1 .. n
    <3>1. s[i] \in M /\ n \in 1 .. n /\ n # 0
      BY <1>1, <1>2, <2>2
    <3>2. s[n] = Syn
      BY <1>4, <1>5, <3>1 DEF EndsInSyn, n
    <3>3. n \in i + 1 .. j - 1
      BY <1>1, <1>5, <2>2, <3>1, <3>2
    <3> QED BY <1>2, <3>1, <3>2, <3>3
  <2>3. CASE j \notin 1 .. n /\ i \notin 1 .. n
    <3>1. /\ i - n \in 1 .. m /\ j - n \in 1 .. m /\ t[i - n] \in M /\ t[j - n] \in M
          /\ i - n < j - n
      BY <1>1, <1>3, <2>3
    <3>2. PICK k \in (i - n) + 1 .. (j - n) - 1 : t[k] = Syn
      BY <1>1, <1>5, <3>1, Zenon DEF Separated
    <3>3. k \in 1 .. m /\ n + k \in i + 1 .. j - 1
      BY <1>1, <3>1, <3>2
    <3> QED BY <1>2, <3>2, <3>3
  <2> QED BY <2>1, <2>2, <2>3
<1>6. ASSUME EndsInSyn(s), EndsInSyn(t) PROVE EndsInSyn(u)
  <2>1. CASE m = 0
    <3>1. n + m = n /\ (u # <<>> => n \in 1 .. n)
      BY <1>1, <2>1
    <3> QED BY <1>1, <1>2, <1>4, <1>6, <3>1 DEF EndsInSyn, n
  <2>2. CASE m # 0
    <3>1. m \in 1 .. m
      BY <1>1, <2>2
    <3> QED BY <1>1, <1>2, <1>4, <1>6, <2>2, <3>1 DEF EndsInSyn, m
  <2> QED BY <2>1, <2>2
<1>7. ASSUME SynFirst(s, M) PROVE SynFirst(u, M)
  <2>1. PICK k \in 1 .. n : s[k] = Syn
    BY <1>1, <1>7 DEF SynFirst
  <2>2. k \in 1 .. n + m /\ u[k] = Syn
    BY <1>1, <1>2, <2>1
  <2>3. ASSUME NEW j \in 1 .. n + m, u[j] \in M PROVE \E i \in 1 .. j - 1 : u[i] = Syn
    <3>1. CASE j \in 1 .. n
      <4>1. PICK i \in 1 .. j - 1 : s[i] = Syn
        BY <1>1, <1>2, <1>7, <2>3, <3>1 DEF SynFirst
      <4>2. i \in 1 .. n
        BY <1>1, <3>1, <4>1
      <4> QED BY <1>2, <4>1, <4>2
    <3>2. CASE j \notin 1 .. n
      <4>1. k \in 1 .. j - 1
        BY <1>1, <3>2
      <4> QED BY <2>2, <4>1
    <3> QED BY <3>1, <3>2
  <2> QED BY <1>1, <2>2, <2>3 DEF SynFirst
<1> QED BY <1>5, <1>6, <1>7 DEF u

\* What is in the first of two sequences, or last in the second, is in both.
LEMMA InConcat ==
  ASSUME NEW S, NEW s \in Seq(S), NEW t \in Seq(S), NEW M,
         HasOne(s, M) \/ (t # <<>> /\ t[Len(t)] \in M)
  PROVE  HasOne(s \o t, M)
<1> DEFINE n == Len(s)
           m == Len(t)
           u == s \o t
<1>1. n \in Nat /\ m \in Nat /\ DOMAIN s = 1 .. n /\ DOMAIN t = 1 .. m
      /\ u \in Seq(S) /\ DOMAIN u = 1 .. n + m /\ Len(u) = n + m
  BY ConcatProperties, LenProperties
<1>2. /\ \A i \in 1 .. n : u[i] = s[i]
      /\ \A i \in 1 .. m : u[n + i] = t[i]
  BY ConcatProperties, <1>1
<1>3. t # <<>> => m # 0
  BY <1>1, EmptySeq
<1> HIDE DEF n, m, u
<1>4. CASE HasOne(s, M)
  <2>1. PICK i \in 1 .. n : s[i] \in M
    BY <1>1, <1>4 DEF HasOne
  <2>2. i \in 1 .. n + m
    BY <1>1
  <2> QED BY <1>1, <1>2, <2>1, <2>2 DEF u, HasOne
<1>5. CASE t # <<>> /\ t[Len(t)] \in M
  <2>1. m \in 1 .. m /\ n + m \in 1 .. n + m
    BY <1>1, <1>3, <1>5
  <2>2. u[n + m] \in M
    BY <1>2, <1>5, <2>1 DEF m
  <2> QED BY <1>1, <2>1, <2>2 DEF u, HasOne
<1> QED BY <1>4, <1>5

\* A packet takes an event: one of the kind only if it has none.
LEMMA AppendFlows ==
  ASSUME NEW S, NEW s \in Seq(S), NEW e \in S, NEW M, Separated(s, M),
         e \in M => ~HasOne(s, M)
  PROVE  /\ Separated(Append(s, e), M)
         /\ HasOne(Append(s, e), M) => HasOne(s, M) \/ e \in M
         /\ EndsInSyn(Append(s, Syn))
<1> DEFINE n == Len(s)
           t == Append(s, e)
<1>1. n \in Nat /\ DOMAIN s = 1 .. n /\ DOMAIN t = 1 .. n + 1 /\ Len(t) = n + 1
  BY AppendProperties, LenProperties
<1>2. t[n + 1] = e /\ \A i \in 1 .. n : t[i] = s[i]
  BY AppendProperties
<1>3. Append(s, Syn)[Len(s) + 1] = Syn /\ Len(Append(s, Syn)) = Len(s) + 1
  OBVIOUS
<1> HIDE DEF n, t
<1>4. ASSUME NEW i \in 1 .. n + 1, NEW j \in 1 .. n + 1, i < j, t[i] \in M, t[j] \in M
      PROVE  \E m \in i + 1 .. j - 1 : t[m] = Syn
  <2>1. i \in 1 .. n /\ s[i] \in M
    BY <1>1, <1>2, <1>4
  <2>2. j \in 1 .. n /\ s[j] \in M
    BY <1>1, <1>2, <1>4, <2>1 DEF HasOne
  <2>3. PICK m \in i + 1 .. j - 1 : s[m] = Syn
    BY <1>1, <1>4, <2>1, <2>2 DEF Separated
  <2>4. m \in 1 .. n
    BY <1>1, <2>1, <2>2, <2>3
  <2> QED BY <1>2, <2>3, <2>4
<1>5. Separated(t, M)
  BY <1>1, <1>4 DEF Separated
<1>6. HasOne(t, M) => HasOne(s, M) \/ e \in M
  BY <1>1, <1>2 DEF HasOne
<1> QED BY <1>3, <1>5, <1>6 DEF t, EndsInSyn

\* One event more: is there one of the kind?
LEMMA AppendHas ==
  ASSUME NEW S, NEW s \in Seq(S), NEW e \in S, NEW M
  PROVE  HasOne(Append(s, e), M) <=> HasOne(s, M) \/ e \in M
<1> DEFINE n == Len(s)
           t == Append(s, e)
<1>1. n \in Nat /\ DOMAIN s = 1 .. n /\ DOMAIN t = 1 .. n + 1 /\ n + 1 \in 1 .. n + 1
  BY AppendProperties, LenProperties
<1>2. t[n + 1] = e /\ \A i \in 1 .. n : t[i] = s[i] /\ i \in 1 .. n + 1
  BY AppendProperties, <1>1
<1>3. \A i \in 1 .. n + 1 : i \in 1 .. n \/ i = n + 1
  BY <1>1
<1> HIDE DEF n, t
<1> QED BY <1>1, <1>2, <1>3 DEF HasOne, t

\* A group: only its first event may be of the kind.
LEMMA GroupFlows ==
  ASSUME NEW S, NEW s \in Seq(S), NEW M, s[Len(s)] = Syn,
         \A i \in DOMAIN s : s[i] \in M => i = 1
  PROVE  Separated(s, M) /\ EndsInSyn(s)
  BY DEF Separated, EndsInSyn

-----------------------------------------------------------------------------
(* The inductive invariant.                                                *)

\* The events a device sends; of which kind a group has one at most; two streams of
\* such events; the events the game posts.
Presses == [type : {"KEY"}, code : Keys, value : {0, 1}]
Clicks == [type : {"KEY"}, code : {272, 273, 274}, value : {0, 1}]
EventsOf(d) == IF d = "keyb" THEN Presses \cup {Syn}
               ELSE Clicks \cup [type : {"REL", "ABS"}, code : {X, Y}, value : Motions] \cup {Syn}
Marked(d) == IF d = "keyb" THEN Presses ELSE MotionEvents
Streams(q) == /\ q \in [Devices -> Seq(EventsOf("keyb") \cup EventsOf("mouse"))]
              /\ \A d \in Devices : q[d] \in Seq(EventsOf(d))
GameKeys == {ev_to_doom[k] : k \in DOMAIN ev_to_doom}
PostedEvents ==
    [type : {"keydown"}, code : GameKeys, value : {1}] \cup
    [type : {"keyup"}, code : GameKeys, value : {0}] \cup MouseEvents \cup {NoEvent}

\* The types.
InputTypeOK ==
    /\ relative_mode \in BOOLEAN /\ virtio_queue_size \in [Devices -> Nat]
    /\ Streams(used) /\ Streams(packet) /\ Streams(evdev)
    /\ turn \in Devices \cup {"loop"} /\ left \in 0 .. Batch
    /\ delta_x \in Motions \cup {0} /\ delta_y \in Motions \cup {0}
    /\ mouse_bits \in {0, 1} /\ old_mouse_bits \in {0, 1} /\ shiftdown \in BOOLEAN
    /\ RingOK(PostedEvents)
    /\ held \subseteq Keys /\ pressed \in {0, 1} /\ moved \in Int
    /\ gameHeld \subseteq GameKeys /\ gamePressed \in {0, 1} /\ gameMoved \in Int
    /\ whole \subseteq Keys /\ dropped \in BOOLEAN

\* What a read has returned is still there, and the ring has room for it: a key
\* event is posted untested, but the ring was empty before the keyboard was read, and
\* events of the mouse leave half of it.
ReadAhead ==
    /\ turn = "loop" => left = 0
    /\ \A d \in Devices : turn = d => left <= Len(evdev[d])
RingRoom == IF turn = "keyb" THEN Occupied + left <= Batch ELSE Occupied <= Batch + 1

\* The keys.  What the game knows of a key, the ring, and what is with the kernel lead
\* to what the kernel has of one of the keys that share it; the used ring leads from
\* there to the one pressed or released last, if nothing was dropped.
Known == Keys \cap (DOMAIN ev_to_doom \cup {Shift})
KernelTold(k, m) ==
    /\ \E g : /\ LastIs(Posted, SharedValue(k), Told(k), g)
              /\ LastIs(evdev["keyb"] \o packet["keyb"], SharedValue(k), g, m)
    /\ \E j \in Shared(k) : m = DownIn(j, down)
AskedLast(k, m) == ~dropped => LastIs(used["keyb"], SharedValue(k), m, DownIn(k, asked))
KeyTold(k) == \E m : KernelTold(k, m) /\ AskedLast(k, m)

\* The used ring leads from what the kernel has of a key to what the host has, if the
\* last group of the key was not cut, and a SYN comes to show it.
Reported(s, k) ==
    \A i \in DOMAIN s : s[i] \in KeyEvents({k}) => \E j \in i + 1 .. Len(s) : s[j] = Syn
KeyTaken(k) == LastIs(used["keyb"], KeyValue(k), DownIn(k, down), DownIn(k, held))
KeyReported(k) ==
    /\ HasOne(packet["keyb"], KeyEvents({k})) => HasOne(used["keyb"], {Syn})
    /\ Reported(used["keyb"], k)

\* If nothing was dropped each event of a key says another thing than the one before,
\* so that the kernel lets all of them through.
InTurn(s, k, o) ==
    \A i \in DOMAIN s : s[i] \in KeyEvents({k}) =>
        \/ s[i].value # o /\ \A j \in 1 .. i - 1 : s[j] \notin KeyEvents({k})
        \/ \E j \in 1 .. i - 1 :
              /\ s[j] \in KeyEvents({k}) /\ s[j].value # s[i].value
              /\ \A l \in j + 1 .. i - 1 : s[l] \notin KeyEvents({k})
KeysKept == ~dropped => whole = Keys /\ \A k \in Keys : InTurn(used["keyb"], k, DownIn(k, down))

KeysWay ==
    /\ \A k \in Known : KeyTold(k)
    /\ \A k \in whole : KeyTaken(k) /\ KeyReported(k)
    /\ KeysKept
\* The button, as far as the kernel knows it.
ButtonRead == LastIs(evdev["mouse"] \o packet["mouse"], KeyValue(Left), mouse_bits, DownIn(Left, down))

\* Nothing was dropped.  Groups are whole: between two events of a kind there is a SYN,
\* so that no motion is overwritten before it is reported.
Flows(d) ==
    /\ Separated(evdev[d], Marked(d)) /\ EndsInSyn(evdev[d])
    /\ Separated(used[d], Marked(d)) /\ EndsInSyn(used[d])
    /\ Separated(packet[d], Marked(d)) /\ ~HasOne(packet[d], {Syn})
    /\ HasOne(packet[d], Marked(d)) => SynFirst(used[d], Marked(d))
Pending == IF ToReport THEN 1 ELSE 0
\* The ring is not half full when a report is due: of the keyboard's events every other
\* one is a SYN, and of the mouse's every third or fourth.
MouseRoom ==
    /\ turn = "keyb" =>
        \/ 2 * (Occupied + Pending) + left <= Batch + 2
        \/ /\ 2 * (Occupied + Pending) + left <= Batch + 3
           /\ left > 0 => SynFirst(evdev["keyb"], Marked("keyb"))
    /\ turn = "mouse" => (2 * Occupied + Pending) + left <= 2 * Batch + 3
\* Where the motion of the host is.
MotionSum ==
    moved = (gameMoved + delta_x) + (SumOf(Posted, MouseMotion)
              + (SumOf(evdev["mouse"] \o packet["mouse"], MouseMotion) + SumOf(used["mouse"], MouseMotion)))
MouseWay ==
    ~dropped =>
        /\ \A d \in Devices : Flows(d)
        /\ delta_x # 0 => SynFirst(evdev["mouse"], Marked("mouse"))
        /\ MouseRoom
        /\ MotionSum
        /\ LastIs(used["mouse"], KeyValue(Left), DownIn(Left, down), pressed)
        /\ LastIs(Posted, MouseButton, gamePressed, old_mouse_bits)

\* The inductive invariant.
InputIInv == InputTypeOK /\ ReadAhead /\ RingRoom /\ KeysWay /\ ButtonRead /\ MouseWay

\* The two devices.
LEMMA DeviceFacts ==
  /\ "keyb" \in Devices /\ "mouse" \in Devices /\ "keyb" # "mouse"
  /\ \A d \in Devices : d = "keyb" \/ d = "mouse"
  /\ Devices \subseteq {"keyb", "mouse"} /\ "loop" \notin Devices
  BY DEF Devices

\* What is where: the kinds of events.
LEMMA EventFacts ==
  /\ \A d \in Devices : Syn \in EventsOf(d) /\ Syn \notin Marked(d) /\ Marked(d) \subseteq EventsOf(d)
  /\ Syn \notin DOMAIN KeyValue(Left) /\ Syn \notin DOMAIN MouseMotion
  /\ \A k \in Keys : Syn \notin DOMAIN KeyValue(k) /\ k # Left
  /\ \A k : Syn \notin DOMAIN SharedValue(k)
<1>1. /\ Syn \in EventsOf("keyb") /\ Syn \in EventsOf("mouse")
      /\ Syn \notin Marked("keyb") /\ Syn \notin Marked("mouse")
  BY DEF EventsOf, Marked, Presses, MotionEvents, Syn, Ev
<1>2. Marked("keyb") \subseteq EventsOf("keyb") /\ Marked("mouse") \subseteq EventsOf("mouse")
  BY DEF EventsOf, Marked, MotionEvents
<1>3. Syn \notin DOMAIN MouseMotion
  BY DEF MouseMotion, MouseEvents, MotionEvents, Syn, Ev
<1>4. \A k : Syn \notin DOMAIN KeyValue(k)
  BY DEF KeyValue, KeyEvents, Syn, Ev
<1>5. \A k \in Keys : k # Left
  BY InputConstants DEF Left, Btn
<1>6. \A k : Syn \notin DOMAIN SharedValue(k)
  BY DEF SharedValue, KeyEvents, KeyPosts, Syn, Ev
<1> QED BY <1>1, <1>2, <1>3, <1>4, <1>5, <1>6, DeviceFacts, Zenon

\* The keys that are one key to the game.
LEMMA SharedFacts ==
  /\ \A k : k \in Shared(k)
  /\ \A k, j : j \in Shared(k) <=> k \in Shared(j)
  /\ \A k \in Known : Shared(k) \subseteq Keys
  /\ Known \subseteq Keys
<1>1. \A k : k \in Shared(k)
  BY DEF Shared
<1>2. \A k, j : j \in Shared(k) <=> k \in Shared(j)
  BY DEF Shared
<1>3. \A k \in Known : Shared(k) \subseteq Keys
  BY InputConstants DEF Shared, Known
<1> QED BY <1>1, <1>2, <1>3 DEF Known

\* An event of the keyboard counts for the keys that share its key.
LEMMA SharedEvents ==
  ASSUME NEW e \in EventsOf("keyb"), NEW k
  PROVE  /\ e \in DOMAIN SharedValue(k) <=> e.type = "KEY" /\ e.code \in Shared(k)
         /\ e.type = "KEY" => e \in Presses /\ e.code \in Keys /\ e.value \in {0, 1}
         /\ e \in DOMAIN SharedValue(k) => SharedValue(k)[e] = e.value
         /\ \A j : e \in KeyEvents({j}) <=> e.type = "KEY" /\ e.code = j
<1>1. CASE e \in Presses
  <2>1. e.type = "KEY" /\ e.code \in Keys /\ e.value \in {0, 1}
    BY <1>1 DEF Presses
  <2>2. \A j : e \in KeyEvents({j}) <=> e.code = j
    BY <1>1 DEF Presses, KeyEvents
  <2>3. e \in KeyEvents(Shared(k)) <=> e.code \in Shared(k)
    BY <1>1 DEF Presses, KeyEvents
  <2>4. e \notin KeyPosts(k)
    BY <2>1 DEF KeyPosts
  <2> QED BY <1>1, <2>1, <2>2, <2>3, <2>4 DEF SharedValue
<1>2. CASE e = Syn
  <2>1. e.type = "SYN"
    BY <1>2 DEF Syn, Ev
  <2>2. \A K : e \notin KeyEvents(K)
    BY <2>1 DEF KeyEvents
  <2> QED BY <1>2, <2>1, <2>2, EventFacts
<1> QED BY <1>1, <1>2 DEF EventsOf

\* One stream of two is put anew.
LEMMA StreamsExcept ==
  ASSUME NEW q, Streams(q), NEW d \in Devices, NEW s \in Seq(EventsOf(d))
  PROVE  /\ Streams([q EXCEPT ![d] = s])
         /\ [q EXCEPT ![d] = s][d] = s
         /\ \A c \in Devices : c # d => [q EXCEPT ![d] = s][c] = q[c]
<1>1. s \in Seq(EventsOf("keyb") \cup EventsOf("mouse"))
  <2>1. EventsOf(d) \subseteq EventsOf("keyb") \cup EventsOf("mouse")
    BY DeviceFacts
  <2> HIDE DEF EventsOf
  <2> QED BY <2>1, SeqMonotonic
<1> QED BY <1>1 DEF Streams

\* A stream, its first event and the rest.
LEMMA StreamFacts ==
  ASSUME NEW q, Streams(q), NEW d \in Devices
  PROVE  /\ q[d] \in Seq(EventsOf(d)) /\ Len(q[d]) \in Nat
         /\ q[d] # <<>> => /\ Head(q[d]) \in EventsOf(d) /\ Tail(q[d]) \in Seq(EventsOf(d))
                           /\ Streams([q EXCEPT ![d] = Tail(@)])
                           /\ [q EXCEPT ![d] = Tail(@)] = [q EXCEPT ![d] = Tail(q[d])]
<1>1. q[d] \in Seq(EventsOf(d)) /\ Len(q[d]) \in Nat
  BY LenProperties DEF Streams
<1>2. ASSUME q[d] # <<>>
      PROVE  Head(q[d]) \in EventsOf(d) /\ Tail(q[d]) \in Seq(EventsOf(d))
  BY <1>1, <1>2, HeadTailProperties
<1>3. [q EXCEPT ![d] = Tail(@)] = [q EXCEPT ![d] = Tail(q[d])]
  OBVIOUS
<1> QED BY <1>1, <1>2, <1>3, StreamsExcept

-----------------------------------------------------------------------------
(* The host.                                                               *)

\* What of a group gets a buffer is its beginning.
LEMMA Sent ==
  ASSUME Streams(used), virtio_queue_size \in [Devices -> Nat], dropped \in BOOLEAN,
         NEW d \in Devices, NEW g \in Seq(EventsOf(d)), SendEvents(d, g)
  PROVE  /\ \E h \in Seq(EventsOf(d)) :
              /\ used' = [used EXCEPT ![d] = used[d] \o h]
              /\ \A i \in DOMAIN h : i \in DOMAIN g /\ h[i] = g[i]
              /\ Fits(d, g) => h = g
         /\ Streams(used') /\ \A c \in Devices : c # d => used'[c] = used[c]
         /\ virtio_queue_size' \in [Devices -> Nat] /\ dropped' = (dropped \/ ~Fits(d, g))
<1> DEFINE n == virtio_queue_size[d]
           m == Len(g)
           sent == MinOf(m, n)
           h == SubSeq(g, 1, sent)
<1>1. n \in Nat /\ m \in Nat
  BY LenProperties
<1>2. sent \in Nat /\ sent <= m /\ sent <= n /\ (m <= n => sent = m)
  BY <1>1 DEF MinOf
<1>3. /\ used' = [used EXCEPT ![d] = used[d] \o h]
      /\ virtio_queue_size' = [virtio_queue_size EXCEPT ![d] = n - sent]
      /\ dropped' = (dropped \/ ~Fits(d, g))
  BY DEF SendEvents
<1>4. m <= n <=> Fits(d, g)
  BY DEF Fits
<1>5. DOMAIN g = 1 .. m /\ \A i \in 1 .. sent : g[i] \in EventsOf(d)
  BY <1>1, <1>2, LenProperties, ElementOfSeq
<1> HIDE DEF n, m, sent
<1>6. /\ h \in Seq(EventsOf(d)) /\ Len(h) = sent
      /\ \A i \in 1 .. sent : h[i] = g[i]
  <2>1. sent \in Int /\ 1 \in Int
    BY <1>2
  <2>2. /\ h \in Seq(EventsOf(d)) /\ Len(h) = IF 1 <= sent THEN sent - 1 + 1 ELSE 0
        /\ \A i \in 1 .. sent - 1 + 1 : h[i] = g[1 + i - 1]
    BY <1>5, <2>1, SubSeqProperties
  <2> HIDE DEF h
  <2>3. Len(h) = sent
    BY <1>2, <2>2
  <2>4. ASSUME NEW i \in 1 .. sent PROVE h[i] = g[i]
    <3>1. i \in 1 .. sent - 1 + 1 /\ 1 + i - 1 = i
      BY <1>2
    <3> QED BY <2>2, <3>1
  <2> QED BY <2>2, <2>3, <2>4
<1>7. DOMAIN h = 1 .. sent
  BY <1>6, LenProperties
<1>8. Fits(d, g) => h = g
  BY <1>2, <1>4, <1>6, SeqEqual DEF m
<1>9. used[d] \o h \in Seq(EventsOf(d))
  BY <1>6, StreamFacts, ConcatProperties
<1>10. Streams(used') /\ \A c \in Devices : c # d => used'[c] = used[c]
  <2> DEFINE u == used[d] \o h
  <2>0. u \in Seq(EventsOf(d))
    BY <1>9
  <2> HIDE DEF h, u
  <2>1. /\ Streams([used EXCEPT ![d] = u])
        /\ \A c \in Devices : c # d => [used EXCEPT ![d] = u][c] = used[c]
    BY <2>0, StreamsExcept
  <2> USE DEF u
  <2> QED BY <1>3, <2>1
<1>11. virtio_queue_size' \in [Devices -> Nat]
  BY <1>1, <1>2, <1>3
<1>12. \A i \in DOMAIN h : i \in DOMAIN g /\ h[i] = g[i]
  BY <1>1, <1>2, <1>5, <1>6, <1>7
<1> QED BY <1>3, <1>6, <1>8, <1>10, <1>11, <1>12

\* A key that is followed by a SYN stays so.
LEMMA ReportedConcat ==
  ASSUME NEW S, NEW s \in Seq(S), NEW t \in Seq(S), NEW k,
         \/ Reported(s, k) /\ \A i \in DOMAIN t : t[i] \notin KeyEvents({k})
         \/ t # <<>> /\ t[Len(t)] = Syn
  PROVE  Reported(s \o t, k)
<1> DEFINE n == Len(s)
           m == Len(t)
           u == s \o t
<1>1. n \in Nat /\ m \in Nat /\ DOMAIN s = 1 .. n /\ DOMAIN t = 1 .. m
      /\ u \in Seq(S) /\ DOMAIN u = 1 .. n + m /\ Len(u) = n + m
  BY ConcatProperties, LenProperties
<1>2. /\ \A i \in 1 .. n : u[i] = s[i]
      /\ \A i \in 1 .. m : u[n + i] = t[i]
  BY ConcatProperties, <1>1
<1>3. t # <<>> => m # 0
  BY <1>1, EmptySeq
<1>4. Syn \notin KeyEvents({k})
  BY DEF Syn, Ev, KeyEvents
<1> HIDE DEF n, m, u
<1> SUFFICES ASSUME NEW i \in 1 .. n + m, u[i] \in KeyEvents({k})
             PROVE  \E j \in i + 1 .. n + m : u[j] = Syn
  BY <1>1, Zenon DEF Reported, u
<1>5. CASE Reported(s, k) /\ \A j \in DOMAIN t : t[j] \notin KeyEvents({k})
  <2>1. i \in 1 .. n
    <3> SUFFICES ASSUME i \notin 1 .. n PROVE FALSE
      OBVIOUS
    <3> DEFINE j == i - n
    <3>1. j \in 1 .. m /\ n + j = i
      BY <1>1
    <3> HIDE DEF j
    <3> QED BY <1>1, <1>2, <1>5, <3>1
  <2>2. PICK j \in i + 1 .. n : s[j] = Syn
    BY <1>1, <1>2, <1>5, <2>1 DEF Reported, n
  <2>3. j \in 1 .. n /\ j \in i + 1 .. n + m
    BY <1>1, <2>1, <2>2
  <2> QED BY <1>2, <2>2, <2>3
<1>6. CASE t # <<>> /\ t[Len(t)] = Syn
  <2>1. m \in 1 .. m /\ u[n + m] = Syn
    BY <1>1, <1>2, <1>3, <1>6 DEF m
  <2>2. i # n + m
    BY <1>4, <2>1
  <2>3. n + m \in i + 1 .. n + m
    BY <1>1, <2>2
  <2> QED BY <2>1, <2>3
<1> QED BY <1>5, <1>6

\* The first event is taken: what was followed by a SYN still is.
LEMMA ReportedTail ==
  ASSUME NEW S, NEW s \in Seq(S), s # <<>>, NEW k, Reported(s, k)
  PROVE  Reported(Tail(s), k)
<1> DEFINE n == Len(s)
           t == Tail(s)
<1>1. n \in Nat \ {0} /\ DOMAIN s = 1 .. n /\ t \in Seq(S) /\ DOMAIN t = 1 .. n - 1 /\ Len(t) = n - 1
  BY HeadTailProperties, LenProperties, EmptySeq
<1>2. \A i \in 1 .. n - 1 : t[i] = s[i + 1]
  BY HeadTailProperties, <1>1
<1> HIDE DEF n, t
<1> SUFFICES ASSUME NEW i \in 1 .. n - 1, t[i] \in KeyEvents({k})
             PROVE  \E j \in i + 1 .. n - 1 : t[j] = Syn
  BY <1>1, Zenon DEF Reported, t
<1>3. i + 1 \in 1 .. n /\ s[i + 1] \in KeyEvents({k})
  BY <1>1, <1>2
<1>4. PICK j \in (i + 1) + 1 .. n : s[j] = Syn
  BY <1>1, <1>3, Zenon DEF Reported, n
<1>5. j - 1 \in 1 .. n - 1 /\ j - 1 \in i + 1 .. n - 1 /\ (j - 1) + 1 = j
  BY <1>1, <1>4
<1> QED BY <1>2, <1>4, <1>5

\* A step of the host leaves the kernel and the game alone.
LEMMA HostRest ==
  ASSUME InputIInv, HostActs, Streams(used'), virtio_queue_size' \in [Devices -> Nat],
         dropped' \in BOOLEAN, relative_mode' \in BOOLEAN, held' \subseteq Keys,
         pressed' \in {0, 1}, moved' \in Int, whole' \subseteq Keys
  PROVE  /\ InputTypeOK' /\ ReadAhead' /\ RingRoom' /\ ButtonRead' /\ (\A k, m : KernelTold(k, m) => KernelTold(k, m)')
         /\ (MouseRoom => MouseRoom')
         /\ Posted' = Posted
         /\ UNCHANGED <<packet, down, evdev, delta_x, mouse_bits, old_mouse_bits, gamePressed, gameMoved>>
<1>1. UNCHANGED <<packet, down, evdev, turn, left, delta_x, delta_y, mouse_bits, old_mouse_bits, shiftdown,
                  events, eventhead, eventtail, gameHeld, gamePressed, gameMoved>>
  BY DEF HostActs, kernel, game, input, ring
<1>2. Posted' = Posted /\ Occupied' = Occupied /\ Pending' = Pending
  BY <1>1 DEF Posted, Occupied, Pending, ToReport
<1>3. InputTypeOK'
  BY <1>1 DEF InputIInv, InputTypeOK, RingOK
<1>4. ReadAhead' /\ RingRoom' /\ ButtonRead'
  BY <1>1, <1>2 DEF InputIInv, ReadAhead, RingRoom, ButtonRead
<1>5. ASSUME NEW k, NEW m, KernelTold(k, m) PROVE KernelTold(k, m)'
  <2>1. Told(k)' = Told(k)
    BY <1>1 DEF Told
  <2> QED BY <1>1, <1>2, <1>5, <2>1 DEF KernelTold
<1>6. MouseRoom => MouseRoom'
  BY <1>1, <1>2 DEF MouseRoom
<1> QED BY <1>1, <1>2, <1>3, <1>4, <1>5, <1>6

\* A group that is sent as a whole keeps the flow of the events.
LEMMA FlowsSent ==
  ASSUME Streams(used), NEW d \in Devices, NEW g \in Seq(EventsOf(d)),
         used' = [used EXCEPT ![d] = used[d] \o g], UNCHANGED <<packet, evdev>>,
         \A c \in Devices : Flows(c),
         g[Len(g)] = Syn, \A i \in DOMAIN g : g[i] \in Marked(d) => i = 1
  PROVE  \A c \in Devices : Flows(c)'
<1>1. Separated(g, Marked(d)) /\ EndsInSyn(g)
  BY GroupFlows
<1>2. used[d] \in Seq(EventsOf(d)) /\ Syn \notin Marked(d)
  BY StreamFacts, EventFacts
<1>3. Flows(d)
  OBVIOUS
<1> DEFINE u == used[d]
           w == used[d] \o g
<1>4. Separated(w, Marked(d)) /\ EndsInSyn(w) /\ (SynFirst(u, Marked(d)) => SynFirst(w, Marked(d)))
  <2>1. Separated(u, Marked(d)) /\ EndsInSyn(u)
    BY <1>3 DEF Flows
  <2> QED BY <1>1, <1>2, <2>1, ConcatFlows
<1>5. used'[d] = w /\ \A c \in Devices : c # d => used'[c] = used[c]
  BY DEF Streams
<1> HIDE DEF w
<1>6. Flows(d)'
  BY <1>3, <1>4, <1>5 DEF Flows
<1>7. ASSUME NEW c \in Devices, c # d PROVE Flows(c)'
  <2>1. Flows(c)
    OBVIOUS
  <2> QED BY <1>5, <1>7, <2>1 DEF Flows
<1> QED BY <1>6, <1>7

\* The last of two events that are not both of a kind.
LEMMA LastOfGroup ==
  ASSUME NEW a, NEW f, NEW o, Syn \notin DOMAIN f
  PROVE  LastIs(<<a, Syn>>, f, o, IF a \in DOMAIN f THEN f[a] ELSE o)
<1> DEFINE g == <<a, Syn>>
<1>1. DOMAIN g = {1, 2} /\ g[1] = a /\ g[2] = Syn /\ Len(g) = 2
  OBVIOUS
<1> HIDE DEF g
<1>2. CASE a \in DOMAIN f
  <2>1. \A j \in 1 + 1 .. Len(g) : g[j] \notin DOMAIN f
    BY <1>1
  <2> QED BY <1>1, <1>2, <2>1 DEF LastIs, g
<1>3. CASE a \notin DOMAIN f
  BY <1>1, <1>3 DEF LastIs, g
<1> QED BY <1>2, <1>3

\* A group after events in turn: it says another thing than the last of them.
LEMMA TurnConcat ==
  ASSUME NEW S, NEW s \in Seq(S), NEW e \in S, Syn \in S, NEW k, NEW o, NEW v,
         InTurn(s, k, o), LastIs(s, KeyValue(k), o, v), e \in KeyEvents({k}) => e.value # v
  PROVE  InTurn(s \o <<e, Syn>>, k, o)
<1> DEFINE n == Len(s)
           g == <<e, Syn>>
           u == s \o g
           K == KeyEvents({k})
<1>1. g \in Seq(S) /\ Len(g) = 2 /\ g[1] = e /\ g[2] = Syn
  OBVIOUS
<1>2. n \in Nat /\ DOMAIN s = 1 .. n /\ DOMAIN u = 1 .. n + 2
  BY <1>1, ConcatProperties, LenProperties
<1>3. (\A i \in 1 .. n : u[i] = s[i]) /\ u[n + 1] = e /\ u[n + 2] = Syn
  BY <1>1, <1>2, ConcatProperties
<1>4. Syn \notin K /\ DOMAIN KeyValue(k) = K /\ \A x \in K : KeyValue(k)[x] = x.value
  BY DEF Syn, Ev, KeyEvents, KeyValue
<1> HIDE DEF n, g, u, K
<1> SUFFICES ASSUME NEW i \in 1 .. n + 2, u[i] \in K
             PROVE  \/ u[i].value # o /\ \A j \in 1 .. i - 1 : u[j] \notin K
                    \/ \E j \in 1 .. i - 1 :
                          /\ u[j] \in K /\ u[j].value # u[i].value
                          /\ \A l \in j + 1 .. i - 1 : u[l] \notin K
  BY <1>2, Zenon DEF InTurn, u, g, K
<1>5. CASE i \in 1 .. n
  <2>1. \/ s[i].value # o /\ \A j \in 1 .. i - 1 : s[j] \notin K
        \/ \E j \in 1 .. i - 1 :
              /\ s[j] \in K /\ s[j].value # s[i].value
              /\ \A l \in j + 1 .. i - 1 : s[l] \notin K
    BY <1>2, <1>3, <1>5, Zenon DEF InTurn, K
  <2>2. \A j \in 1 .. i - 1 : u[j] = s[j]
    BY <1>2, <1>3, <1>5
  <2>3. CASE s[i].value # o /\ \A j \in 1 .. i - 1 : s[j] \notin K
    BY <1>3, <1>5, <2>2, <2>3
  <2>4. ASSUME NEW j \in 1 .. i - 1, s[j] \in K, s[j].value # s[i].value,
               \A l \in j + 1 .. i - 1 : s[l] \notin K
        PROVE  u[j] \in K /\ u[j].value # u[i].value /\ \A l \in j + 1 .. i - 1 : u[l] \notin K
    <3>1. \A l \in j + 1 .. i - 1 : u[l] = s[l]
      BY <1>2, <1>5, <2>2, <2>4
    <3> QED BY <1>3, <1>5, <2>2, <2>4, <3>1
  <2> QED BY <2>1, <2>3, <2>4
<1>6. CASE i \notin 1 .. n
  <2>1. i = n + 1 /\ u[i] = e /\ e.value # v /\ i - 1 = n
    <3>1. i = n + 1 \/ i = n + 2
      BY <1>2, <1>6
    <3> QED BY <1>2, <1>3, <1>4, <3>1 DEF K
  <2>2. CASE v = o /\ \A j \in 1 .. n : s[j] \notin K
    BY <1>3, <2>1, <2>2
  <2>3. ASSUME NEW j \in 1 .. n, s[j] \in K, v = KeyValue(k)[s[j]], \A l \in j + 1 .. n : s[l] \notin K
        PROVE  u[j] \in K /\ u[j].value # u[i].value /\ \A l \in j + 1 .. i - 1 : u[l] \notin K
    <3>1. \A l \in j + 1 .. n : u[l] = s[l]
      BY <1>2, <1>3
    <3> QED BY <1>3, <1>4, <2>1, <2>3, <3>1
  <2>4. \/ v = o /\ \A j \in 1 .. n : s[j] \notin K
        \/ \E j \in 1 .. n : /\ s[j] \in K /\ v = KeyValue(k)[s[j]]
                             /\ \A l \in j + 1 .. n : s[l] \notin K
    BY <1>2, <1>4, Zenon DEF LastIs, n
  <2> QED BY <2>1, <2>2, <2>3, <2>4
<1> QED BY <1>5, <1>6

\* Without the first of them they are still in turn.
LEMMA TurnTail ==
  ASSUME NEW S, NEW s \in Seq(S), s # <<>>, NEW k, NEW o, InTurn(s, k, o)
  PROVE  /\ InTurn(Tail(s), k, IF Head(s) \in KeyEvents({k}) THEN Head(s).value ELSE o)
         /\ Head(s) \in KeyEvents({k}) => Head(s).value # o
<1> DEFINE n == Len(s)
           t == Tail(s)
           K == KeyEvents({k})
           p == IF Head(s) \in K THEN Head(s).value ELSE o
<1>1. n \in Nat \ {0} /\ DOMAIN s = 1 .. n /\ DOMAIN t = 1 .. n - 1 /\ 1 \in 1 .. n
  BY HeadTailProperties, LenProperties, EmptySeq
<1>2. Head(s) = s[1] /\ \A i \in 1 .. n - 1 : t[i] = s[i + 1]
  BY HeadTailProperties, <1>1
<1>3. Head(s) \in K => Head(s).value # o
  <2>1. 1 .. 1 - 1 = {}
    OBVIOUS
  <2> QED BY <1>1, <1>2, <2>1 DEF InTurn
<1> HIDE DEF n, t, K
<1>4. ASSUME NEW i \in 1 .. n - 1, t[i] \in K
      PROVE  \/ t[i].value # p /\ \A j \in 1 .. i - 1 : t[j] \notin K
             \/ \E j \in 1 .. i - 1 :
                   /\ t[j] \in K /\ t[j].value # t[i].value
                   /\ \A l \in j + 1 .. i - 1 : t[l] \notin K
  <2> DEFINE h == i + 1
  <2>0. h \in 1 .. n /\ h - 1 = i /\ s[h] = t[i] /\ s[h] \in K /\ i \in Nat
    BY <1>1, <1>2, <1>4
  <2>1. \/ s[h].value # o /\ \A j \in 1 .. h - 1 : s[j] \notin K
        \/ \E j \in 1 .. h - 1 :
              /\ s[j] \in K /\ s[j].value # s[h].value
              /\ \A l \in j + 1 .. h - 1 : s[l] \notin K
    BY <1>1, <2>0, Zenon DEF InTurn, K
  <2> HIDE DEF h
  <2>2. \A j \in 1 .. i - 1 : t[j] = s[j + 1] /\ j + 1 \in 1 .. i
    BY <1>1, <1>2, <2>0
  <2>3. CASE s[h].value # o /\ \A j \in 1 .. h - 1 : s[j] \notin K
    <3>1. 1 \in 1 .. h - 1
      BY <2>0
    <3>2. p = o
      BY <1>2, <2>3, <3>1
    <3>3. \A j \in 1 .. i - 1 : t[j] \notin K
      BY <2>0, <2>2, <2>3
    <3> HIDE DEF p
    <3> QED BY <2>0, <2>3, <3>2, <3>3
  <2>4. ASSUME NEW j \in 1 .. h - 1, s[j] \in K, s[j].value # s[h].value,
               \A l \in j + 1 .. h - 1 : s[l] \notin K
        PROVE  \/ t[i].value # p /\ \A l \in 1 .. i - 1 : t[l] \notin K
               \/ \E l \in 1 .. i - 1 :
                     /\ t[l] \in K /\ t[l].value # t[i].value
                     /\ \A x \in l + 1 .. i - 1 : t[x] \notin K
    <3>1. CASE j = 1
      <4>1. p = s[j].value
        BY <1>2, <2>4, <3>1
      <4>2. \A l \in 1 .. i - 1 : l + 1 \in j + 1 .. h - 1
        BY <2>0, <3>1
      <4> HIDE DEF p
      <4> QED BY <2>0, <2>2, <2>4, <4>1, <4>2
    <3>2. CASE j # 1
      <4> DEFINE m == j - 1
      <4>1. m \in 1 .. i - 1 /\ m + 1 = j
        BY <2>0, <3>2
      <4>2. \A x \in m + 1 .. i - 1 : x \in 1 .. i - 1 /\ x + 1 \in j + 1 .. h - 1
        BY <2>0, <4>1
      <4> HIDE DEF m
      <4>3. t[m] \in K /\ t[m].value # t[i].value
        BY <2>0, <2>2, <2>4, <4>1
      <4>4. \A x \in m + 1 .. i - 1 : t[x] \notin K
        BY <2>2, <2>4, <4>2
      <4> QED BY <4>1, <4>3, <4>4
    <3> QED BY <3>1, <3>2
  <2> QED BY <2>1, <2>3, <2>4
<1>5. InTurn(t, k, p)
  BY <1>1, <1>4, Zenon DEF InTurn, K
<1> QED BY <1>3, <1>5 DEF K, t

\* A key of the host: what it says of the key is the last that is said.
LEMMA HandleKeyIInv ==
  ASSUME InputIInv, NEW k \in Keys, HandleKey(k)
  PROVE  InputIInv'
<1> DEFINE b == IF k \in held THEN 0 ELSE 1
           e == Ev("KEY", k, b)
           g == <<e, Syn>>
<1>1. InputTypeOK /\ KeysWay /\ MouseWay /\ held \subseteq Keys /\ whole \subseteq Keys /\ Streams(used)
      /\ virtio_queue_size \in [Devices -> Nat] /\ dropped \in BOOLEAN
  BY DEF InputIInv, InputTypeOK
<1>2. b \in {0, 1} /\ e \in Presses /\ e.type = "KEY" /\ e.code = k /\ e.value = b
  BY DEF Presses, Ev
<1>3. /\ HostActs /\ SendEvents("keyb", g)
      /\ held' = IF b = 1 THEN held \cup {k} ELSE held \ {k}
      /\ asked' = IF b = 1 THEN asked \cup Shared(k) ELSE asked \ Shared(k)
      /\ whole' = IF Fits("keyb", g) THEN whole \cup {k} ELSE whole \ {k}
      /\ UNCHANGED <<relative_mode, pressed, moved>>
  BY DEF HandleKey, KeyGroup
<1> HIDE DEF b, e
<1>4. g \in Seq(EventsOf("keyb")) /\ Len(g) = 2 /\ DOMAIN g = {1, 2} /\ g[1] = e /\ g[2] = Syn
  <2>1. e \in EventsOf("keyb") /\ Syn \in EventsOf("keyb")
    BY <1>2, EventFacts, DeviceFacts DEF EventsOf
  <2> QED BY <2>1
<1>5. PICK h \in Seq(EventsOf("keyb")) :
        /\ used' = [used EXCEPT !["keyb"] = used["keyb"] \o h]
        /\ \A i \in DOMAIN h : i \in DOMAIN g /\ h[i] = g[i]
        /\ Fits("keyb", g) => h = g
  BY <1>1, <1>3, <1>4, Sent, DeviceFacts
<1>6. /\ Streams(used') /\ used'["mouse"] = used["mouse"] /\ virtio_queue_size' \in [Devices -> Nat]
      /\ dropped' = (dropped \/ ~Fits("keyb", g))
  <2> HIDE DEF g
  <2>1. "keyb" \in Devices /\ "mouse" \in Devices /\ "mouse" # "keyb"
    BY DeviceFacts
  <2>2. /\ Streams(used') /\ \A c \in Devices : c # "keyb" => used'[c] = used[c]
        /\ virtio_queue_size' \in [Devices -> Nat] /\ dropped' = (dropped \/ ~Fits("keyb", g))
    BY <1>1, <1>3, <1>4, <2>1, Sent, Zenon
  <2> QED BY <2>1, <2>2
<1> DEFINE u == used["keyb"]
           w == used["keyb"] \o h
<1>7. used'["keyb"] = w /\ u \in Seq(EventsOf("keyb"))
  BY <1>1, <1>5, DeviceFacts, StreamFacts DEF Streams
<1> HIDE DEF g, u, w
<1>8. /\ InputTypeOK' /\ ReadAhead' /\ RingRoom' /\ ButtonRead' /\ (\A x, m : KernelTold(x, m) => KernelTold(x, m)')
      /\ (MouseRoom => MouseRoom')
      /\ Posted' = Posted
      /\ UNCHANGED <<packet, down, evdev, delta_x, mouse_bits, old_mouse_bits, gamePressed, gameMoved>>
  <2>1. held' \subseteq Keys /\ whole' \subseteq Keys /\ dropped' \in BOOLEAN
    BY <1>1, <1>3, <1>6
  <2>2. relative_mode' \in BOOLEAN /\ pressed' \in {0, 1} /\ moved' \in Int
    BY <1>1, <1>3 DEF InputTypeOK
  <2> QED BY <1>3, <1>6, <2>1, <2>2, HostRest
<1>9. ASSUME NEW x \in whole' PROVE KeyTaken(x)' /\ KeyReported(x)'
  <2>1. x \in Keys /\ Syn \notin DOMAIN KeyValue(x) /\ DOMAIN KeyValue(x) = KeyEvents({x})
    BY <1>1, <1>3, EventFacts DEF KeyValue
  <2>2. CASE x = k
    <3>1. Fits("keyb", g) /\ h = g
      BY <1>1, <1>3, <1>5, <1>9, <2>2
    <3>2. e \in DOMAIN KeyValue(x) /\ KeyValue(x)[e] = b /\ DownIn(x, held') = b
      BY <1>2, <1>3, <2>2 DEF KeyValue, KeyEvents, Presses, DownIn, b
    <3>3. LastIs(g, KeyValue(x), 0, b) /\ \E i \in DOMAIN g : g[i] \in DOMAIN KeyValue(x)
      <4>1. LastIs(g, KeyValue(x), 0, b)
        BY <2>1, <3>2, LastOfGroup DEF g
      <4> QED BY <1>4, <3>2, <4>1
    <3>6. LastIs(w, KeyValue(x), DownIn(x, down), b)
      BY <1>4, <1>7, <3>1, <3>3, LastConcatHit DEF w, u
    <3>7. g # <<>> /\ g[Len(g)] = Syn
      BY <1>4
    <3>8. Reported(w, x) /\ HasOne(w, {Syn})
      <4>1. w = u \o g
        BY <3>1 DEF w, u
      <4>2. Reported(u \o g, x)
        BY <1>4, <1>7, <3>7, ReportedConcat, Zenon
      <4>3. HasOne(u \o g, {Syn})
        <5>1. g # <<>> /\ g[Len(g)] \in {Syn}
          BY <3>7
        <5> QED BY <1>4, <1>7, <5>1, InConcat, Zenon
      <4> QED BY <4>1, <4>2, <4>3, Zenon
    <3> QED BY <1>7, <1>8, <3>2, <3>6, <3>8 DEF KeyTaken, KeyReported
  <2>3. CASE x # k
    <3>1. x \in whole /\ KeyTaken(x) /\ KeyReported(x)
      BY <1>1, <1>3, <1>9, <2>3 DEF KeysWay
    <3>2. DownIn(x, held') = DownIn(x, held)
      BY <1>3, <2>3 DEF DownIn
    <3>3. \A i \in DOMAIN h : h[i] \notin DOMAIN KeyValue(x)
      <4>1. e \notin DOMAIN KeyValue(x)
        BY <1>2, <2>3 DEF KeyValue, KeyEvents
      <4> QED BY <1>4, <1>5, <2>1, <4>1
    <3>4. LastIs(w, KeyValue(x), DownIn(x, down), DownIn(x, held))
      <4>1. LastIs(h, KeyValue(x), DownIn(x, held), DownIn(x, held))
        BY <3>3, LastNone
      <4> QED BY <1>7, <3>1, <4>1, LastConcat DEF KeyTaken, w, u
    <3>5. Reported(w, x)
      BY <1>7, <2>1, <3>1, <3>3, ReportedConcat DEF KeyReported, w, u
    <3>6. (HasOne(u, {Syn})) => HasOne(w, {Syn})
      <4>1. w = u \o h
        BY DEF w, u
      <4>2. (HasOne(u, {Syn})) => HasOne(u \o h, {Syn})
        BY <1>5, <1>7, InConcat, Zenon
      <4> QED BY <4>1, <4>2, Zenon
    <3> QED BY <1>7, <1>8, <3>1, <3>2, <3>4, <3>5, <3>6 DEF KeyTaken, KeyReported, u
  <2> QED BY <2>2, <2>3
<1>10. ASSUME ~dropped' PROVE MouseWay'
  <2>1. ~dropped /\ h = g
    BY <1>5, <1>6, <1>10
  <2>2. \A c \in Devices : Flows(c)'
    <3>1. \A i \in DOMAIN g : g[i] \in Marked("keyb") => i = 1
      BY <1>4, EventFacts, DeviceFacts
    <3>2. g[Len(g)] = Syn
      BY <1>4
    <3>3. \A c \in Devices : Flows(c)
      BY <1>1, <2>1 DEF MouseWay
    <3> QED BY <1>1, <1>4, <1>5, <1>8, <2>1, <3>1, <3>2, <3>3, FlowsSent, DeviceFacts
  <2> QED BY <1>1, <1>3, <1>6, <1>8, <2>1, <2>2 DEF MouseWay, MotionSum
<1>11. MouseWay'
  <2>1. dropped' => MouseWay'
    BY DEF MouseWay
  <2> QED BY <1>10, <2>1
<1>12. ASSUME NEW x \in Known PROVE KeyTold(x)'
  <2>1. PICK m : KernelTold(x, m) /\ AskedLast(x, m)
    BY <1>1, <1>12 DEF KeysWay, KeyTold
  <2>2. ASSUME ~dropped' PROVE LastIs(w, SharedValue(x), m, DownIn(x, asked'))
    <3>1. ~dropped /\ h = g /\ w = u \o g
      BY <1>5, <1>6, <2>2 DEF w, u
    <3>2. LastIs(u, SharedValue(x), m, DownIn(x, asked))
      BY <2>1, <3>1 DEF AskedLast, u
    <3>3. e \in EventsOf("keyb")
      BY <1>2 DEF EventsOf
    <3>4. LastIs(g, SharedValue(x), DownIn(x, asked),
                 IF e \in DOMAIN SharedValue(x) THEN SharedValue(x)[e] ELSE DownIn(x, asked))
      BY LastOfGroup, EventFacts DEF g
    <3>5. DownIn(x, asked') = IF e \in DOMAIN SharedValue(x) THEN SharedValue(x)[e] ELSE DownIn(x, asked)
      <4>1. /\ e \in DOMAIN SharedValue(x) <=> k \in Shared(x)
            /\ e \in DOMAIN SharedValue(x) => SharedValue(x)[e] = b
        BY <1>2, <3>3, SharedEvents
      <4>2. k \in Shared(x) <=> x \in Shared(k)
        BY SharedFacts
      <4>3. CASE x \in Shared(k)
        <5>1. DownIn(x, asked') = b
          BY <1>2, <1>3, <4>3 DEF DownIn
        <5> QED BY <4>1, <4>2, <4>3, <5>1
      <4>4. CASE x \notin Shared(k)
        <5>1. DownIn(x, asked') = DownIn(x, asked)
          BY <1>2, <1>3, <4>4 DEF DownIn
        <5> QED BY <4>1, <4>2, <4>4, <5>1
      <4> QED BY <4>3, <4>4
    <3>6. LastIs(g, SharedValue(x), DownIn(x, asked), DownIn(x, asked'))
      BY <3>4, <3>5
    <3> QED BY <1>4, <1>7, <3>1, <3>2, <3>6, LastConcat
  <2>3. AskedLast(x, m)'
    BY <1>7, <2>2 DEF AskedLast
  <2> QED BY <1>8, <2>1, <2>3 DEF KeyTold
<1>13. ASSUME ~dropped' PROVE whole' = Keys /\ \A x \in Keys : InTurn(w, x, DownIn(x, down))
  <2>1. ~dropped /\ Fits("keyb", g) /\ w = u \o <<e, Syn>>
    BY <1>5, <1>6, <1>13 DEF w, u, g
  <2>2. whole = Keys /\ \A x \in Keys : InTurn(u, x, DownIn(x, down))
    BY <1>1, <2>1 DEF KeysWay, KeysKept, u
  <2>3. ASSUME NEW x \in Keys PROVE InTurn(w, x, DownIn(x, down))
    <3>1. LastIs(u, KeyValue(x), DownIn(x, down), DownIn(x, held))
      BY <1>1, <2>2, <2>3 DEF KeysWay, KeyTaken, u
    <3>2. e \in KeyEvents({x}) => e.value # DownIn(x, held)
      <4>1. e \in KeyEvents({x}) => x = k
        BY <1>2 DEF KeyEvents
      <4>2. b # DownIn(k, held)
        BY DEF b, DownIn
      <4> QED BY <1>2, <4>1, <4>2
    <3>3. e \in EventsOf("keyb") /\ Syn \in EventsOf("keyb")
      BY <1>2, EventFacts, DeviceFacts DEF EventsOf
    <3> QED BY <1>7, <2>1, <2>2, <3>1, <3>2, <3>3, TurnConcat
  <2> QED BY <1>3, <2>1, <2>2, <2>3
<1>14. KeysKept'
  BY <1>7, <1>8, <1>13 DEF KeysKept
<1> QED BY <1>8, <1>9, <1>11, <1>12, <1>14 DEF InputIInv, KeysWay

\* A motion is an integer.
LEMMA MotionInt == \A e \in DOMAIN MouseMotion : MouseMotion[e] \in Int
<1> SUFFICES ASSUME NEW e \in MouseEvents \cup MotionEvents PROVE e.value \in Int
  BY DEF MouseMotion
<1>1. e.value \in Motions \cup {0}
  BY DEF MouseEvents, MotionEvents
<1>2. Motions \subseteq Int /\ 0 \in Int
  BY InputConstants
<1> QED BY <1>1, <1>2, Zenon

\* The sums of the groups.
LEMMA SumOfTwo ==
  ASSUME NEW a, NEW b
  PROVE  SumOf(<<a, b>>, MouseMotion) = Worth(a, MouseMotion) + Worth(b, MouseMotion)
<1>1. SumOf(<<a>>, MouseMotion) = Worth(a, MouseMotion)
  BY SumOne, MotionInt
<1> DEFINE s == <<a>>
<1>2. <<a, b>> = Append(s, b) /\ s \in Seq({a, b}) /\ b \in {a, b}
  OBVIOUS
<1> HIDE DEF s
<1>3. SumOf(Append(s, b), MouseMotion) = SumOf(s, MouseMotion) + Worth(b, MouseMotion)
  BY <1>2, SumAppend, MotionInt
<1> QED BY <1>1, <1>2, <1>3 DEF s

LEMMA SumOfThree ==
  ASSUME NEW a, NEW b, NEW c
  PROVE  SumOf(<<a, b, c>>, MouseMotion) =
           (Worth(a, MouseMotion) + Worth(b, MouseMotion)) + Worth(c, MouseMotion)
<1> DEFINE s == <<a, b>>
<1>1. <<a, b, c>> = Append(s, c) /\ s \in Seq({a, b, c}) /\ c \in {a, b, c}
  OBVIOUS
<1>2. SumOf(s, MouseMotion) = Worth(a, MouseMotion) + Worth(b, MouseMotion)
  BY SumOfTwo
<1> HIDE DEF s
<1>3. SumOf(Append(s, c), MouseMotion) = SumOf(s, MouseMotion) + Worth(c, MouseMotion)
  BY <1>1, SumAppend, MotionInt
<1> QED BY <1>1, <1>2, <1>3

\* What is in the ring.
LEMMA PostedIs ==
  ASSUME InputTypeOK
  PROVE  Posted \in Seq(PostedEvents) /\ Len(Posted) = Occupied /\ Occupied \in Nat
  BY PostedFacts, RingFacts DEF InputTypeOK

\* The sums of what is under way are integers.
LEMMA SumsInt ==
  ASSUME InputTypeOK
  PROVE  /\ SumOf(Posted, MouseMotion) \in Int
         /\ SumOf(evdev["mouse"] \o packet["mouse"], MouseMotion) \in Int /\ SumOf(used["mouse"], MouseMotion) \in Int
         /\ gameMoved \in Int /\ delta_x \in Int
<1>1. /\ Posted \in Seq(PostedEvents) /\ used["mouse"] \in Seq(EventsOf("mouse"))
      /\ evdev["mouse"] \o packet["mouse"] \in Seq(EventsOf("mouse"))
  BY PostedIs, StreamFacts, DeviceFacts, ConcatProperties DEF InputTypeOK
<1>2. gameMoved \in Int /\ delta_x \in Int
  BY InputConstants DEF InputTypeOK
<1>3. \A S : \A s \in Seq(S) : SumOf(s, MouseMotion) \in Int
  BY MotionInt, SumConcat
<1> QED BY <1>1, <1>2, <1>3

\* A group of the pointer: what is summed and what is pressed is what it says.
LEMMA PointerSent ==
  ASSUME InputIInv, HostActs, NEW g \in Seq(EventsOf("mouse")), SendEvents("mouse", g),
         g[Len(g)] = Syn, \A i \in DOMAIN g : g[i] \in MotionEvents => i = 1,
         relative_mode' \in BOOLEAN, UNCHANGED <<held, whole, asked>>,
         pressed' \in {0, 1}, moved' \in Int,
         moved' = moved + SumOf(g, MouseMotion), LastIs(g, KeyValue(Left), pressed, pressed')
  PROVE  InputIInv'
<1>1. InputTypeOK /\ KeysWay /\ MouseWay /\ held \subseteq Keys /\ whole \subseteq Keys /\ Streams(used)
      /\ virtio_queue_size \in [Devices -> Nat] /\ dropped \in BOOLEAN
  BY DEF InputIInv, InputTypeOK
<1>2. "keyb" \in Devices /\ "mouse" \in Devices /\ "mouse" # "keyb"
  BY DeviceFacts
<1>3. PICK h \in Seq(EventsOf("mouse")) :
        /\ used' = [used EXCEPT !["mouse"] = used["mouse"] \o h]
        /\ \A i \in DOMAIN h : i \in DOMAIN g /\ h[i] = g[i]
        /\ Fits("mouse", g) => h = g
  BY <1>1, <1>2, Sent
<1>4. /\ Streams(used') /\ used'["keyb"] = used["keyb"] /\ virtio_queue_size' \in [Devices -> Nat]
      /\ dropped' = (dropped \/ ~Fits("mouse", g))
  <2>1. /\ Streams(used') /\ \A c \in Devices : c # "mouse" => used'[c] = used[c]
        /\ virtio_queue_size' \in [Devices -> Nat] /\ dropped' = (dropped \/ ~Fits("mouse", g))
    BY <1>1, <1>2, Sent, Zenon
  <2> QED BY <1>2, <2>1
<1>5. /\ InputTypeOK' /\ ReadAhead' /\ RingRoom' /\ ButtonRead' /\ (\A x, m : KernelTold(x, m) => KernelTold(x, m)')
      /\ (MouseRoom => MouseRoom')
      /\ Posted' = Posted
      /\ UNCHANGED <<packet, down, evdev, delta_x, mouse_bits, old_mouse_bits, gamePressed, gameMoved>>
  <2>1. held' \subseteq Keys /\ whole' \subseteq Keys /\ dropped' \in BOOLEAN
    BY <1>1, <1>4
  <2> QED BY <1>4, <2>1, HostRest
<1>6. KeysWay'
  <2>1. ASSUME NEW x \in whole' PROVE KeyTaken(x)' /\ KeyReported(x)'
    <3>1. KeyTaken(x) /\ KeyReported(x)
      BY <1>1, <2>1 DEF KeysWay
    <3> QED BY <1>4, <1>5, <3>1 DEF KeyTaken, KeyReported
  <2>2. ASSUME NEW x \in Known PROVE KeyTold(x)'
    <3>1. PICK m : KernelTold(x, m) /\ AskedLast(x, m)
      BY <1>1, <2>2 DEF KeysWay, KeyTold
    <3>2. AskedLast(x, m)'
      BY <1>4, <3>1 DEF AskedLast
    <3> QED BY <1>5, <3>1, <3>2 DEF KeyTold
  <2>3. KeysKept'
    BY <1>1, <1>4, <1>5 DEF KeysWay, KeysKept
  <2> QED BY <2>1, <2>2, <2>3 DEF KeysWay
<1>7. ASSUME ~dropped' PROVE MouseWay'
  <2>1. ~dropped /\ h = g
    BY <1>3, <1>4, <1>7
  <2>2. \A c \in Devices : Flows(c)'
    <3>1. \A i \in DOMAIN g : g[i] \in Marked("mouse") => i = 1
      BY DEF Marked
    <3>3. \A c \in Devices : Flows(c)
      BY <1>1, <2>1 DEF MouseWay
    <3> QED BY <1>1, <1>2, <1>3, <1>5, <2>1, <3>1, <3>3, FlowsSent
  <2> DEFINE u == used["mouse"]
  <2>3. u \in Seq(EventsOf("mouse")) /\ used'["mouse"] = u \o g
    BY <1>1, <1>2, <1>3, <2>1, StreamFacts DEF Streams
  <2>4. /\ SumOf(u \o g, MouseMotion) = SumOf(u, MouseMotion) + SumOf(g, MouseMotion)
        /\ SumOf(u, MouseMotion) \in Int /\ SumOf(g, MouseMotion) \in Int
    BY <2>3, MotionInt, SumConcat
  <2>5. LastIs(u \o g, KeyValue(Left), DownIn(Left, down), pressed')
    <3>1. LastIs(u, KeyValue(Left), DownIn(Left, down), pressed)
      BY <1>1, <2>1 DEF MouseWay
    <3> QED BY <2>3, <3>1, LastConcat
  <2>6. MotionSum'
    <3>1. moved = (gameMoved + delta_x) + (SumOf(Posted, MouseMotion)
              + (SumOf(evdev["mouse"] \o packet["mouse"], MouseMotion) + SumOf(u, MouseMotion)))
      BY <1>1, <2>1 DEF MouseWay, MotionSum
    <3>2. /\ SumOf(Posted, MouseMotion) \in Int
          /\ SumOf(evdev["mouse"] \o packet["mouse"], MouseMotion) \in Int /\ gameMoved \in Int /\ delta_x \in Int
      BY <1>1, SumsInt
    <3>3. moved' = (gameMoved + delta_x) + (SumOf(Posted, MouseMotion)
              + (SumOf(evdev["mouse"] \o packet["mouse"], MouseMotion) + SumOf(u \o g, MouseMotion)))
      <4> DEFINE a == SumOf(Posted, MouseMotion)
                 c == SumOf(evdev["mouse"] \o packet["mouse"], MouseMotion)
                 m == SumOf(u, MouseMotion)
                 n == SumOf(g, MouseMotion)
                 t == SumOf(u \o g, MouseMotion)
                 f == gameMoved + delta_x
                 q == moved'
      <4>1. /\ t = m + n /\ q = moved + n /\ moved = f + (a + (c + m))
            /\ a \in Int /\ c \in Int /\ m \in Int /\ n \in Int /\ f \in Int
        BY <2>4, <3>1, <3>2
      <4> HIDE DEF a, c, m, n, t, f, q
      <4>2. q = f + (a + (c + t))
        BY <4>1
      <4> QED BY <4>2 DEF a, c, t, f, q
    <3> QED BY <1>5, <2>3, <3>3 DEF MotionSum
  <2> QED BY <1>1, <1>5, <2>1, <2>2, <2>3, <2>5, <2>6 DEF MouseWay
<1>8. MouseWay'
  <2>1. dropped' => MouseWay'
    BY DEF MouseWay
  <2> QED BY <1>7, <2>1
<1> QED BY <1>5, <1>6, <1>8 DEF InputIInv

\* The pointer moves: the coordinate it tells counts only if it is relative.
LEMMA HandleMotionIInv ==
  ASSUME InputIInv, NEW x \in Motions, NEW y \in Motions, HandleMotion(x, y)
  PROVE  InputIInv'
<1> DEFINE g == MotionGroup(x, y)
           S == EventsOf("mouse")
<1>1. InputTypeOK /\ moved \in Int /\ pressed \in {0, 1} /\ relative_mode \in BOOLEAN
  BY DEF InputIInv, InputTypeOK
<1>2. /\ HostActs /\ SendEvents("mouse", g)
      /\ moved' = IF relative_mode THEN moved + x ELSE moved
      /\ UNCHANGED <<relative_mode, held, pressed, whole, asked>>
  BY DEF HandleMotion
<1>3. /\ Ev("ABS", X, x) \in S /\ Ev("ABS", Y, y) \in S /\ Ev("REL", X, x) \in S
      /\ Ev("REL", Y, y) \in S /\ Syn \in S
  BY EventFacts, DeviceFacts DEF EventsOf, Ev
<1>4. /\ Ev("ABS", X, x) \notin DOMAIN MouseMotion /\ Ev("ABS", Y, y) \notin DOMAIN MouseMotion
      /\ Ev("REL", Y, y) \notin DOMAIN MouseMotion /\ Syn \notin DOMAIN MouseMotion
      /\ Ev("REL", X, x) \in DOMAIN MouseMotion /\ MouseMotion[Ev("REL", X, x)] = x
      /\ MotionEvents \subseteq DOMAIN MouseMotion
  BY EventFacts DEF MouseMotion, MouseEvents, MotionEvents, Ev, X, Y
<1>5. /\ Ev("ABS", X, x) \notin DOMAIN KeyValue(Left) /\ Ev("ABS", Y, y) \notin DOMAIN KeyValue(Left)
      /\ Ev("REL", Y, y) \notin DOMAIN KeyValue(Left) /\ Syn \notin DOMAIN KeyValue(Left)
      /\ Ev("REL", X, x) \notin DOMAIN KeyValue(Left)
  BY EventFacts DEF KeyValue, KeyEvents, Ev
<1>6. x \in Int
  BY InputConstants
<1>7. \/ relative_mode = FALSE /\ g = <<Ev("ABS", X, x), Ev("ABS", Y, y), Syn>>
      \/ relative_mode = TRUE /\ g = <<Ev("REL", X, x), Ev("REL", Y, y), Syn>>
      \/ relative_mode = TRUE /\ g = <<Syn>> /\ x = 0
  BY <1>1 DEF MotionGroup
<1> HIDE DEF g, S
<1>8. /\ g \in Seq(S) /\ g[Len(g)] = Syn /\ \A i \in DOMAIN g : g[i] \in MotionEvents => i = 1
      /\ \A i \in DOMAIN g : g[i] \notin DOMAIN KeyValue(Left)
      /\ moved' = moved + SumOf(g, MouseMotion)
  <2>1. CASE relative_mode = FALSE /\ g = <<Ev("ABS", X, x), Ev("ABS", Y, y), Syn>>
    <3>1. SumOf(g, MouseMotion) = 0
      <4>1. SumOf(g, MouseMotion) = (Worth(Ev("ABS", X, x), MouseMotion) + Worth(Ev("ABS", Y, y), MouseMotion))
                                     + Worth(Syn, MouseMotion)
        <5> DEFINE a == Ev("ABS", X, x)
                   b == Ev("ABS", Y, y)
        <5> HIDE DEF a, b
        <5>1. SumOf(<<a, b, Syn>>, MouseMotion) =
                (Worth(a, MouseMotion) + Worth(b, MouseMotion)) + Worth(Syn, MouseMotion)
          BY SumOfThree, ZenonT(60)
        <5> QED BY <2>1, <5>1 DEF a, b
      <4> QED BY <1>4, <4>1 DEF Worth
    <3> QED BY <1>1, <1>2, <1>3, <1>4, <1>5, <2>1, <3>1
  <2>2. CASE relative_mode = TRUE /\ g = <<Ev("REL", X, x), Ev("REL", Y, y), Syn>>
    <3>1. SumOf(g, MouseMotion) = x
      <4>1. SumOf(g, MouseMotion) = (Worth(Ev("REL", X, x), MouseMotion) + Worth(Ev("REL", Y, y), MouseMotion))
                                     + Worth(Syn, MouseMotion)
        <5> DEFINE a == Ev("REL", X, x)
                   b == Ev("REL", Y, y)
        <5> HIDE DEF a, b
        <5>1. SumOf(<<a, b, Syn>>, MouseMotion) =
                (Worth(a, MouseMotion) + Worth(b, MouseMotion)) + Worth(Syn, MouseMotion)
          BY SumOfThree, ZenonT(60)
        <5> QED BY <2>2, <5>1 DEF a, b
      <4> QED BY <1>4, <1>6, <4>1 DEF Worth
    <3> QED BY <1>1, <1>2, <1>3, <1>4, <1>5, <2>2, <3>1
  <2>3. CASE relative_mode = TRUE /\ g = <<Syn>> /\ x = 0
    <3>1. SumOf(g, MouseMotion) = 0
      <4>1. SumOf(g, MouseMotion) = Worth(Syn, MouseMotion)
        BY <2>3, SumOne, MotionInt
      <4> QED BY <1>4, <4>1 DEF Worth
    <3> QED BY <1>1, <1>2, <1>3, <1>4, <1>5, <2>3, <3>1
  <2> QED BY <1>7, <2>1, <2>2, <2>3
<1>9. LastIs(g, KeyValue(Left), pressed, pressed') /\ moved' \in Int
      /\ pressed' \in {0, 1} /\ relative_mode' \in BOOLEAN
  BY <1>1, <1>2, <1>6, <1>8, LastNone
<1> QED BY <1>2, <1>8, <1>9, PointerSent DEF S

\* A button: the first is told, and the others say nothing of it.
LEMMA HandleButtonIInv ==
  ASSUME InputIInv, NEW button \in {1, 3, 4}, HandleButton(button)
  PROVE  InputIInv'
<1> DEFINE g == ButtonGroup(button, 1 - pressed)
           b == 1 - pressed
           S == EventsOf("mouse")
<1>1. InputTypeOK /\ moved \in Int /\ pressed \in {0, 1} /\ relative_mode \in BOOLEAN /\ b \in {0, 1}
  BY DEF InputIInv, InputTypeOK
<1>2. /\ HostActs /\ SendEvents("mouse", g)
      /\ pressed' = IF button = 1 THEN b ELSE pressed
      /\ UNCHANGED <<relative_mode, held, moved, whole, asked>>
  BY DEF HandleButton
<1>3. \/ button = 1 /\ g = <<Ev("KEY", Left, b), Syn>>
      \/ button = 3 /\ g = <<Ev("KEY", 273, b), Syn>>
      \/ button = 4 /\ g = <<Syn>>
  BY DEF ButtonGroup, Btn, Left
<1> HIDE DEF g, b
<1>4. /\ Ev("KEY", Left, b) \in S /\ Ev("KEY", 273, b) \in S /\ Syn \in S
      /\ Ev("KEY", Left, b) \notin DOMAIN MouseMotion /\ Ev("KEY", 273, b) \notin DOMAIN MouseMotion
      /\ Syn \notin DOMAIN MouseMotion /\ Syn \notin DOMAIN KeyValue(Left)
      /\ Ev("KEY", 273, b) \notin DOMAIN KeyValue(Left)
      /\ Ev("KEY", Left, b) \in DOMAIN KeyValue(Left) /\ KeyValue(Left)[Ev("KEY", Left, b)] = b
      /\ MotionEvents \subseteq DOMAIN MouseMotion
  <2>1. Left = 272
    BY DEF Left, Btn
  <2> QED BY <1>1, <2>1, EventFacts, DeviceFacts
          DEF EventsOf, Clicks, Ev, MouseMotion, MouseEvents, MotionEvents, KeyValue, KeyEvents
<1> HIDE DEF S
<1>5. /\ g \in Seq(S) /\ g[Len(g)] = Syn /\ \A i \in DOMAIN g : g[i] \notin DOMAIN MouseMotion
      /\ SumOf(g, MouseMotion) = 0
      /\ LastIs(g, KeyValue(Left), pressed, pressed')
  <2>1. CASE button = 1 /\ g = <<Ev("KEY", Left, b), Syn>>
    <3>1. SumOf(g, MouseMotion) = Worth(Ev("KEY", Left, b), MouseMotion) + Worth(Syn, MouseMotion)
      BY <2>1, SumOfTwo, Zenon
    <3>2. SumOf(g, MouseMotion) = 0
      BY <1>4, <3>1 DEF Worth
    <3>3. LastIs(g, KeyValue(Left), pressed, b) /\ pressed' = b
      BY <1>2, <1>4, <2>1, LastOfGroup
    <3> QED BY <1>4, <2>1, <3>2, <3>3
  <2>2. CASE button = 3 /\ g = <<Ev("KEY", 273, b), Syn>>
    <3>1. SumOf(g, MouseMotion) = Worth(Ev("KEY", 273, b), MouseMotion) + Worth(Syn, MouseMotion)
      BY <2>2, SumOfTwo, Zenon
    <3>2. SumOf(g, MouseMotion) = 0
      BY <1>4, <3>1 DEF Worth
    <3>3. LastIs(g, KeyValue(Left), pressed, pressed) /\ pressed' = pressed
      BY <1>2, <1>4, <2>2, LastOfGroup
    <3> QED BY <1>4, <2>2, <3>2, <3>3
  <2>3. CASE button = 4 /\ g = <<Syn>>
    <3>1. SumOf(g, MouseMotion) = Worth(Syn, MouseMotion)
      BY <2>3, SumOne, MotionInt
    <3>2. SumOf(g, MouseMotion) = 0
      BY <1>4, <3>1 DEF Worth
    <3>3. \A i \in DOMAIN g : g[i] \notin DOMAIN KeyValue(Left)
      BY <1>4, <2>3
    <3>4. LastIs(g, KeyValue(Left), pressed, pressed) /\ pressed' = pressed
      BY <1>2, <2>3, <3>3, LastNone
    <3> QED BY <1>4, <2>3, <3>2, <3>4
  <2> QED BY <1>3, <2>1, <2>2, <2>3
<1>6. /\ \A i \in DOMAIN g : g[i] \in MotionEvents => i = 1
      /\ moved' = moved + SumOf(g, MouseMotion) /\ moved' \in Int
      /\ pressed' \in {0, 1} /\ relative_mode' \in BOOLEAN
  BY <1>1, <1>2, <1>4, <1>5
<1> QED BY <1>2, <1>5, <1>6, PointerSent DEF S

\* The key the host keeps for itself says nothing to the guest.
LEMMA HandleScrollLockIInv ==
  ASSUME InputIInv, HandleScrollLock
  PROVE  InputIInv'
<1>1. InputTypeOK /\ KeysWay /\ MouseWay
  BY DEF InputIInv
<1>2. HostActs /\ relative_mode' \in BOOLEAN
      /\ UNCHANGED <<virtio_queue_size, used, held, pressed, moved, whole, dropped, asked>>
  BY DEF HandleScrollLock
<1>3. /\ InputTypeOK' /\ ReadAhead' /\ RingRoom' /\ ButtonRead' /\ (\A x, m : KernelTold(x, m) => KernelTold(x, m)')
      /\ (MouseRoom => MouseRoom')
      /\ Posted' = Posted
      /\ UNCHANGED <<packet, down, evdev, delta_x, mouse_bits, old_mouse_bits, gamePressed, gameMoved>>
  <2>1. /\ Streams(used') /\ virtio_queue_size' \in [Devices -> Nat]
        /\ dropped' \in BOOLEAN /\ held' \subseteq Keys
        /\ pressed' \in {0, 1} /\ moved' \in Int /\ whole' \subseteq Keys
    BY <1>1, <1>2 DEF InputTypeOK
  <2> QED BY <1>2, <2>1, HostRest
<1>4. KeysWay'
  <2>1. ASSUME NEW x \in Known PROVE KeyTold(x)'
    <3>1. PICK m : KernelTold(x, m) /\ AskedLast(x, m)
      BY <1>1, <2>1 DEF KeysWay, KeyTold
    <3>2. AskedLast(x, m)'
      BY <1>2, <3>1 DEF AskedLast
    <3> QED BY <1>3, <3>1, <3>2 DEF KeyTold
  <2> QED BY <1>1, <1>2, <1>3, <2>1 DEF KeysWay, KeyTaken, KeyReported, KeysKept
<1>5. MouseWay'
  <2>1. ASSUME NEW c \in Devices, Flows(c) PROVE Flows(c)'
    BY <1>2, <1>3, <2>1 DEF Flows
  <2> QED BY <1>1, <1>2, <1>3, <2>1 DEF MouseWay, MotionSum
<1> QED BY <1>3, <1>4, <1>5 DEF InputIInv

-----------------------------------------------------------------------------
(* The guest's kernel.                                                     *)

\* What is with the kernel.
Way(d) == evdev[d] \o packet[d]

\* What is with the kernel, and of which events.
LEMMA WayIs ==
  ASSUME InputTypeOK, NEW d \in Devices
  PROVE  /\ evdev[d] \in Seq(EventsOf(d)) /\ packet[d] \in Seq(EventsOf(d))
         /\ used[d] \in Seq(EventsOf(d)) /\ Way(d) \in Seq(EventsOf(d))
<1>1. /\ evdev[d] \in Seq(EventsOf(d)) /\ packet[d] \in Seq(EventsOf(d))
      /\ used[d] \in Seq(EventsOf(d))
  BY StreamFacts DEF InputTypeOK
<1> QED BY <1>1, ConcatProperties DEF Way

\* One stream of two is another.
IsPut(q, d, s, r) == r = [q EXCEPT ![d] = s]

\* One stream of two is put anew.
LEMMA StreamPut ==
  ASSUME NEW q, Streams(q), NEW d \in Devices, NEW s \in Seq(EventsOf(d)),
         NEW r, IsPut(q, d, s, r)
  PROVE  Streams(r) /\ r[d] = s /\ \A c \in Devices : c # d => r[c] = q[c]
<1>1. r = [q EXCEPT ![d] = s]
  BY DEF IsPut
<1>2. Streams(r)
  BY <1>1, StreamsExcept
<1>3. r[d] = s /\ \A c \in Devices : c # d => r[c] = q[c]
  BY <1>1 DEF Streams
<1> QED BY <1>2, <1>3

\* What the driver makes of an event it takes: one of four things.
TakenAs(d, e) ==
    \/ /\ e # Syn /\ Counts(e) /\ evdev' = evdev
       /\ packet' = [packet EXCEPT ![d] = Append(packet[d], e)]
    \/ /\ e # Syn /\ ~Counts(e) /\ evdev' = evdev
       /\ packet' = packet
    \/ /\ e = Syn /\ packet[d] = <<>> /\ evdev' = evdev
       /\ packet' = packet
    \/ /\ e = Syn
       /\ packet' = [packet EXCEPT ![d] = <<>>]
       /\ evdev' = [evdev EXCEPT ![d] = evdev[d] \o Append(packet[d], Syn)]

\* TakeUsed as the four cases, and what they leave.
LEMMA Taken ==
  ASSUME InputTypeOK, NEW d \in Devices, TakeUsed(d)
  PROVE  /\ used[d] # <<>> /\ Head(used[d]) \in EventsOf(d)
         /\ TakenAs(d, Head(used[d]))
         /\ down' = IF Head(used[d]).type # "KEY" THEN down
                    ELSE IF Head(used[d]).value = 1 THEN down \cup {Head(used[d]).code}
                    ELSE down \ {Head(used[d]).code}
         /\ Streams(used') /\ used' = [used EXCEPT ![d] = Tail(used[d])]
         /\ used'[d] = Tail(used[d]) /\ \A c \in Devices : c # d => used'[c] = used[c]
         /\ virtio_queue_size' \in [Devices -> Nat]
         /\ UNCHANGED <<relative_mode, game, host>>
<1> DEFINE e == Head(used[d])
<1>1. Streams(used) /\ Streams(packet) /\ virtio_queue_size \in [Devices -> Nat]
  BY DEF InputTypeOK
<1>2. used[d] # <<>>
  BY DEF TakeUsed
<1>3. e \in EventsOf(d) /\ Tail(used[d]) \in Seq(EventsOf(d))
  BY <1>1, <1>2, StreamFacts
<1>4. /\ used' = [used EXCEPT ![d] = Tail(used[d])]
      /\ virtio_queue_size' = [virtio_queue_size EXCEPT ![d] = virtio_queue_size[d] + 1]
      /\ down' = IF e.type # "KEY" THEN down
                 ELSE IF e.value = 1 THEN down \cup {e.code} ELSE down \ {e.code}
      /\ UNCHANGED <<relative_mode, game, host>>
  BY DEF TakeUsed
<1>5. /\ Streams(used') /\ used'[d] = Tail(used[d])
      /\ \A c \in Devices : c # d => used'[c] = used[c]
  <2> DEFINE t == Tail(used[d])
  <2>1. IsPut(used, d, t, used') /\ t \in Seq(EventsOf(d))
    BY <1>3, <1>4 DEF IsPut
  <2> HIDE DEF t
  <2>2. Streams(used') /\ used'[d] = t /\ \A c \in Devices : c # d => used'[c] = used[c]
    BY <1>1, <2>1, StreamPut
  <2> QED BY <2>2 DEF t
<1>6. virtio_queue_size' \in [Devices -> Nat]
  BY <1>1, <1>4
<1> DEFINE kept == IF Counts(e) THEN Append(packet[d], e) ELSE packet[d]
<1>7. \/ e # Syn /\ packet' = [packet EXCEPT ![d] = kept] /\ evdev' = evdev
      \/ /\ e = Syn /\ packet' = [packet EXCEPT ![d] = <<>>]
         /\ evdev' = [evdev EXCEPT ![d] = IF kept = <<Syn>> THEN evdev[d] ELSE evdev[d] \o kept]
  BY DEF TakeUsed
<1>8. [packet EXCEPT ![d] = packet[d]] = packet /\ packet[d] \in Seq(EventsOf(d))
  BY <1>1, StreamFacts DEF Streams
<1>9. [evdev EXCEPT ![d] = evdev[d]] = evdev
  BY DEF InputTypeOK, Streams
<1>10. TakenAs(d, e)
  <2>1. CASE e # Syn
    BY <1>7, <1>8, <2>1 DEF TakenAs
  <2>2. CASE e = Syn
    <3>1. Counts(e)
      BY <2>2 DEF Counts, Syn, Ev
    <3>2. kept = Append(packet[d], Syn)
      BY <2>2, <3>1
    <3>3. kept = <<Syn>> => packet[d] = <<>>
      <4>1. Len(kept) = Len(packet[d]) + 1 /\ Len(<<Syn>>) = 1 /\ Len(packet[d]) \in Nat
        BY <1>8, <3>2
      <4>2. packet[d] # <<>> => Len(packet[d]) \in Nat \ {0}
        BY <1>8, EmptySeq, Zenon
      <4> HIDE DEF kept, e
      <4> QED BY <4>1, <4>2
    <3> HIDE DEF kept, e
    <3>4. CASE kept = <<Syn>>
      BY <1>7, <1>8, <1>9, <2>2, <3>3, <3>4 DEF TakenAs
    <3>5. CASE kept # <<Syn>>
      BY <1>7, <2>2, <3>2, <3>5 DEF TakenAs
    <3> QED BY <3>4, <3>5
  <2> QED BY <2>1, <2>2
<1> QED BY <1>2, <1>3, <1>4, <1>5, <1>6, <1>10

\* An event at the end of the second is at the end of both.
LEMMA ConcatAppend ==
  ASSUME NEW S, NEW s \in Seq(S), NEW t \in Seq(S), NEW e \in S
  PROVE  s \o Append(t, e) = Append(s \o t, e)
<1>1. s \o t \in Seq(S) /\ <<e>> \in Seq(S) /\ Append(t, e) = t \o <<e>>
      /\ Append(s \o t, e) = (s \o t) \o <<e>>
  BY ConcatProperties, AppendIsConcat
<1> QED BY <1>1, ConcatAssociative

\* The kernel's streams stay streams; an event that counts comes last.
LEMMA TakenStreams ==
  ASSUME InputTypeOK, NEW d \in Devices, NEW e \in EventsOf(d), TakenAs(d, e)
  PROVE  /\ Streams(packet') /\ Streams(evdev')
         /\ \A c \in Devices : c # d => packet'[c] = packet[c] /\ evdev'[c] = evdev[c] /\ Way(c)' = Way(c)
         /\ \/ Way(d)' = Append(Way(d), e)
            \/ Way(d)' = Way(d) /\ (e = Syn \/ ~Counts(e))
         /\ \/ evdev'[d] = evdev[d]
            \/ /\ evdev'[d] = evdev[d] \o Append(packet[d], Syn)
               /\ Append(packet[d], Syn) \in Seq(EventsOf(d))
<1> DEFINE S == EventsOf(d)
           p == packet[d]
           v == evdev[d]
<1>1. Streams(packet) /\ Streams(evdev) /\ p \in Seq(S) /\ v \in Seq(S) /\ Syn \in S
  BY WayIs, EventFacts DEF InputTypeOK
<1>2. Append(p, e) \in Seq(S) /\ Append(p, Syn) \in Seq(S) /\ <<>> \in Seq(S)
  BY <1>1, AppendProperties
<1>3. CASE e # Syn /\ Counts(e) /\ evdev' = evdev /\ packet' = [packet EXCEPT ![d] = Append(p, e)]
  <2>1. /\ Streams(packet') /\ packet'[d] = Append(p, e)
        /\ \A c \in Devices : c # d => packet'[c] = packet[c]
    <3> DEFINE t == Append(p, e)
    <3>1. IsPut(packet, d, t, packet') /\ t \in Seq(EventsOf(d))
      BY <1>2, <1>3 DEF IsPut
    <3> HIDE DEF t
    <3>2. Streams(packet') /\ packet'[d] = t /\ \A c \in Devices : c # d => packet'[c] = packet[c]
      BY <1>1, <3>1, StreamPut
    <3> QED BY <3>2 DEF t
  <2>2. v \o Append(p, e) = Append(v \o p, e)
    <3> HIDE DEF p, v
    <3> QED BY <1>1, ConcatAppend
  <2> QED BY <1>1, <1>3, <2>1, <2>2 DEF Way
<1>4. CASE e # Syn /\ ~Counts(e) /\ evdev' = evdev /\ packet' = packet
  BY <1>1, <1>4 DEF Way
<1>5. CASE e = Syn /\ p = <<>> /\ evdev' = evdev /\ packet' = packet
  BY <1>1, <1>5 DEF Way
<1>6. CASE /\ e = Syn /\ packet' = [packet EXCEPT ![d] = <<>>]
           /\ evdev' = [evdev EXCEPT ![d] = v \o Append(p, Syn)]
  <2> DEFINE w == v \o Append(p, Syn)
  <2>1. w \in Seq(S)
    BY <1>1, <1>2, ConcatProperties
  <2>2. /\ Streams(packet') /\ packet'[d] = <<>>
        /\ \A c \in Devices : c # d => packet'[c] = packet[c]
    <3> DEFINE t == <<>>
    <3>1. IsPut(packet, d, t, packet') /\ t \in Seq(EventsOf(d))
      BY <1>2, <1>6 DEF IsPut
    <3> HIDE DEF t
    <3>2. Streams(packet') /\ packet'[d] = t /\ \A c \in Devices : c # d => packet'[c] = packet[c]
      BY <1>1, <3>1, StreamPut
    <3> QED BY <3>2 DEF t
  <2>3. w \o <<>> = w /\ w = Append(v \o p, Syn)
    <3>1. w = Append(v \o p, Syn)
      <4> HIDE DEF p, v, S
      <4> QED BY <1>1, ConcatAppend
    <3> HIDE DEF w, S
    <3> QED BY <2>1, <3>1, ConcatEmptySeq
  <2> HIDE DEF w
  <2>4. /\ Streams(evdev') /\ evdev'[d] = w
        /\ \A c \in Devices : c # d => evdev'[c] = evdev[c]
    <3>1. IsPut(evdev, d, w, evdev')
      BY <1>6 DEF IsPut, w
    <3> QED BY <1>1, <2>1, <3>1, StreamPut
  <2>5. Way(d)' = Append(Way(d), e)
    BY <1>6, <2>2, <2>3, <2>4 DEF Way
  <2> QED BY <1>2, <2>2, <2>4, <2>5 DEF Way, w
<1> QED BY <1>3, <1>4, <1>5, <1>6 DEF TakenAs

\* An event of a key says which, and whether it is down.
LEMMA EventShape ==
  ASSUME NEW d \in Devices, NEW e \in EventsOf(d), NEW k
  PROVE  e \in KeyEvents({k}) <=> e.type = "KEY" /\ e.code = k
<1>1. e \in EventsOf("keyb") \/ e \in EventsOf("mouse")
  BY DeviceFacts
<1>2. CASE e.type = "KEY"
  BY <1>1, <1>2 DEF EventsOf, Presses, Clicks, Syn, Ev, KeyEvents
<1>3. CASE e.type # "KEY"
  BY <1>1, <1>3 DEF EventsOf, Presses, Clicks, Syn, Ev, KeyEvents
<1> QED BY <1>2, <1>3

\* What the kernel has down of a key is what the event it takes says, if one does.
LEMMA DownTaken ==
  ASSUME InputTypeOK, NEW d \in Devices, TakeUsed(d), NEW k
  PROVE  DownIn(k, down') = IF Head(used[d]) \in KeyEvents({k}) THEN Head(used[d]).value ELSE DownIn(k, down)
<1> DEFINE e == Head(used[d])
<1>1. e \in EventsOf(d)
      /\ down' = IF e.type # "KEY" THEN down
                 ELSE IF e.value = 1 THEN down \cup {e.code} ELSE down \ {e.code}
  BY Taken
<1> HIDE DEF e
<1>2. e \in KeyEvents({k}) <=> e.type = "KEY" /\ e.code = k
  BY <1>1, EventShape
<1>3. e \in KeyEvents({k}) => e.value \in {0, 1}
  BY DEF KeyEvents
<1>4. CASE e \in KeyEvents({k})
  BY <1>1, <1>2, <1>3, <1>4 DEF DownIn, e
<1>5. CASE e \notin KeyEvents({k})
  BY <1>1, <1>2, <1>5 DEF DownIn, e
<1> QED BY <1>4, <1>5

\* The button: what was let through last is what the kernel has down.
LEMMA WayLast ==
  ASSUME InputTypeOK, TakeUsed("mouse"), NEW o,
         LastIs(Way("mouse"), KeyValue(Left), o, DownIn(Left, down))
  PROVE  LastIs(Way("mouse")', KeyValue(Left), o, DownIn(Left, down'))
<1> DEFINE d == "mouse"
           e == Head(used[d])
<1>1. d \in Devices /\ e \in EventsOf(d) /\ TakenAs(d, e)
  BY DeviceFacts, Taken
<1>2. \/ Way(d)' = Append(Way(d), e)
      \/ Way(d)' = Way(d) /\ (e = Syn \/ ~Counts(e))
  BY <1>1, TakenStreams
<1>3. Way(d) \in Seq(EventsOf(d))
  BY <1>1, WayIs
<1>4. DownIn(Left, down') = IF e \in KeyEvents({Left}) THEN e.value ELSE DownIn(Left, down)
  BY <1>1, DownTaken
<1>5. DOMAIN KeyValue(Left) = KeyEvents({Left}) /\ \A x \in KeyEvents({Left}) : KeyValue(Left)[x] = x.value
  BY DEF KeyValue
<1>6. CASE Way(d)' = Append(Way(d), e)
  <2>1. LastIs(Append(Way(d), e), KeyValue(Left), o,
               IF e \in DOMAIN KeyValue(Left) THEN KeyValue(Left)[e] ELSE DownIn(Left, down))
    BY <1>1, <1>3, LastAppend
  <2> HIDE DEF e
  <2> QED BY <1>4, <1>5, <1>6, <2>1
<1>7. CASE Way(d)' = Way(d) /\ (e = Syn \/ ~Counts(e))
  <2>1. e \in KeyEvents({Left}) => e.value = DownIn(Left, down)
    <3> HIDE DEF e
    <3> QED BY <1>7 DEF Counts, KeyEvents, Syn, Ev, DownIn
  <2>2. DownIn(Left, down') = DownIn(Left, down)
    BY <1>4, <2>1
  <2> QED BY <1>7, <2>2
<1> QED BY <1>2, <1>6, <1>7

\* The keys that share one: what was let through last is what the kernel has of one of
\* them, and it is the event that is taken if that one counts.
LEMMA SharedTaken ==
  ASSUME InputTypeOK, TakeUsed("keyb"), NEW k, NEW g, NEW j \in Shared(k),
         LastIs(Way("keyb"), SharedValue(k), g, DownIn(j, down)),
         NEW e, e = Head(used["keyb"])
  PROVE  \E i \in Shared(k) :
            /\ LastIs(Way("keyb")', SharedValue(k), g, DownIn(i, down'))
            /\ (e \in DOMAIN SharedValue(k) => Counts(e)) =>
                  DownIn(i, down') = IF e \in DOMAIN SharedValue(k) THEN SharedValue(k)[e] ELSE DownIn(j, down)
<1> DEFINE d == "keyb"
           w == Way(d)
<1>1. d \in Devices /\ e \in EventsOf(d) /\ TakenAs(d, e)
  BY DeviceFacts, Taken
<1>2. \/ Way(d)' = Append(w, e)
      \/ Way(d)' = w /\ (e = Syn \/ ~Counts(e))
  BY <1>1, TakenStreams
<1>3. w \in Seq(EventsOf(d))
  BY <1>1, WayIs
<1>4. /\ e \in DOMAIN SharedValue(k) <=> e.type = "KEY" /\ e.code \in Shared(k)
      /\ e.type = "KEY" => e.value \in {0, 1}
      /\ e \in DOMAIN SharedValue(k) => SharedValue(k)[e] = e.value
      /\ \A i : e \in KeyEvents({i}) <=> e.type = "KEY" /\ e.code = i
  BY <1>1, SharedEvents
<1>5. ASSUME NEW i PROVE DownIn(i, down') = IF e \in KeyEvents({i}) THEN e.value ELSE DownIn(i, down)
  <2>1. DownIn(i, down') = IF Head(used[d]) \in KeyEvents({i}) THEN Head(used[d]).value ELSE DownIn(i, down)
    BY <1>1, DownTaken
  <2> QED BY <2>1
<1> HIDE DEF w, d
<1>6. LastIs(Append(w, e), SharedValue(k), g,
             IF e \in DOMAIN SharedValue(k) THEN SharedValue(k)[e] ELSE DownIn(j, down))
  BY <1>1, <1>3, LastAppend DEF w, d
<1>7. CASE e \notin DOMAIN SharedValue(k)
  <2>1. DownIn(j, down') = DownIn(j, down)
    BY <1>4, <1>5, <1>7
  <2>2. LastIs(Way(d)', SharedValue(k), g, DownIn(j, down'))
    <3>1. LastIs(w, SharedValue(k), g, DownIn(j, down'))
      BY <2>1 DEF w, d
    <3>2. LastIs(Append(w, e), SharedValue(k), g, DownIn(j, down'))
      BY <1>6, <1>7, <2>1
    <3> QED BY <1>2, <3>1, <3>2
  <2> QED BY <1>7, <2>1, <2>2 DEF d
<1>8. CASE e \in DOMAIN SharedValue(k) /\ Way(d)' = Append(w, e)
  <2>1. e.code \in Shared(k) /\ DownIn(e.code, down') = e.value /\ SharedValue(k)[e] = e.value
    BY <1>4, <1>5, <1>8
  <2>2. LastIs(Way(d)', SharedValue(k), g, DownIn(e.code, down'))
    BY <1>6, <1>8, <2>1
  <2> QED BY <1>8, <2>1, <2>2 DEF d
<1>9. CASE e \in DOMAIN SharedValue(k) /\ Way(d)' = w /\ (e = Syn \/ ~Counts(e))
  <2>1. ~Counts(e)
    BY <1>9, EventFacts
  <2>2. e.type = "KEY" /\ e.value = DownIn(e.code, down)
    BY <1>4, <1>9, <2>1 DEF Counts, DownIn
  <2>3. DownIn(j, down') = DownIn(j, down)
    BY <1>4, <1>5, <2>2
  <2>4. LastIs(Way(d)', SharedValue(k), g, DownIn(j, down'))
    BY <1>9, <2>3 DEF w, d
  <2> QED BY <1>9, <2>1, <2>4 DEF d
<1> QED BY <1>2, <1>7, <1>8, <1>9

\* What the driver takes keeps the flow: a packet has one event of the kind at
\* most, and a SYN that shows nothing leaves no two groups together.
LEMMA FlowsTaken ==
  ASSUME InputTypeOK, NEW d \in Devices, NEW e \in EventsOf(d), TakenAs(d, e),
         used[d] # <<>>, e = Head(used[d]), used'[d] = Tail(used[d]),
         \A c \in Devices : c # d => used'[c] = used[c],
         \A c \in Devices : Flows(c)
  PROVE  \A c \in Devices : Flows(c)'
<1> DEFINE S == EventsOf(d)
           M == Marked(d)
           p == packet[d]
           u == used[d]
           v == evdev[d]
<1>1. p \in Seq(S) /\ u \in Seq(S) /\ v \in Seq(S) /\ Syn \in S /\ Syn \notin M
  BY WayIs, EventFacts
<1>2. /\ Separated(v, M) /\ EndsInSyn(v) /\ Separated(u, M) /\ EndsInSyn(u)
      /\ Separated(p, M) /\ ~HasOne(p, {Syn}) /\ (HasOne(p, M) => SynFirst(u, M))
  BY DEF Flows
<1>3. /\ Streams(packet') /\ Streams(evdev')
      /\ \A c \in Devices : c # d => packet'[c] = packet[c] /\ evdev'[c] = evdev[c] /\ Way(c)' = Way(c)
  BY TakenStreams
<1>4. Streams(packet) /\ Streams(evdev)
  BY DEF InputTypeOK
<1>5. \/ e # Syn /\ evdev'[d] = v /\ packet'[d] = Append(p, e)
      \/ e # Syn /\ evdev'[d] = v /\ packet'[d] = p
      \/ e = Syn /\ evdev'[d] = v /\ packet'[d] = p /\ p = <<>>
      \/ e = Syn /\ evdev'[d] = v \o Append(p, Syn) /\ packet'[d] = <<>>
  BY <1>4 DEF TakenAs, Streams
<1>6. used'[d] = Tail(u) /\ u # <<>> /\ e = Head(u)
  OBVIOUS
<1> HIDE DEF S, M, p, u, v
<1>7. /\ Separated(Tail(u), M) /\ EndsInSyn(Tail(u))
      /\ (SynFirst(u, M) /\ e # Syn) => SynFirst(Tail(u), M)
      /\ e \in M => SynFirst(Tail(u), M)
      /\ SynFirst(u, M) => e \notin M
  BY <1>1, <1>2, <1>6, TailFlows
<1>8. ASSUME NEW q, NEW w,
             Separated(w, M), EndsInSyn(w), Separated(q, M), ~HasOne(q, {Syn}),
             HasOne(q, M) => SynFirst(Tail(u), M), evdev'[d] = w, packet'[d] = q
      PROVE  Flows(d)'
  BY <1>6, <1>7, <1>8 DEF Flows, M
<1>9. Flows(d)'
  <2>1. CASE e # Syn /\ evdev'[d] = v /\ packet'[d] = Append(p, e)
    <3> DEFINE q == Append(p, e)
    <3>1. e \in M => ~HasOne(p, M)
      BY <1>2, <1>7
    <3>2. Separated(q, M) /\ (HasOne(q, M) => HasOne(p, M) \/ e \in M)
      BY <1>1, <1>2, <3>1, AppendFlows DEF S
    <3>3. ~HasOne(q, {Syn})
      BY <1>1, <1>2, <2>1, AppendHas DEF S
    <3> HIDE DEF q
    <3>4. HasOne(q, M) => SynFirst(Tail(u), M)
      BY <1>2, <1>7, <2>1, <3>2
    <3>5. packet'[d] = q
      BY <2>1 DEF q
    <3> QED BY <1>2, <1>8, <2>1, <3>2, <3>3, <3>4, <3>5
  <2>2. CASE e # Syn /\ evdev'[d] = v /\ packet'[d] = p
    <3>1. HasOne(p, M) => SynFirst(Tail(u), M)
      BY <1>2, <1>7, <2>2
    <3> QED BY <1>2, <1>8, <2>2, <3>1
  <2>3. CASE e = Syn /\ evdev'[d] = v /\ packet'[d] = p /\ p = <<>>
    <3>1. ~HasOne(p, M)
      BY <2>3 DEF HasOne
    <3> QED BY <1>2, <1>8, <2>3, <3>1
  <2>4. CASE e = Syn /\ evdev'[d] = v \o Append(p, Syn) /\ packet'[d] = <<>>
    <3> DEFINE a == Append(p, Syn)
               w == v \o Append(p, Syn)
    <3>1. a \in Seq(S) /\ Separated(a, M) /\ EndsInSyn(a)
      BY <1>1, <1>2, AppendFlows
    <3>2. w = v \o a
      OBVIOUS
    <3> HIDE DEF a, w
    <3>3. Separated(w, M) /\ EndsInSyn(w)
      BY <1>1, <1>2, <3>1, <3>2, ConcatFlows
    <3> DEFINE q == <<>>
    <3>4. Separated(q, M) /\ ~HasOne(q, M) /\ ~HasOne(q, {Syn})
      BY DEF Separated, HasOne
    <3>5. evdev'[d] = w /\ packet'[d] = q
      BY <2>4 DEF w
    <3> HIDE DEF q
    <3> QED BY <1>8, <3>3, <3>4, <3>5
  <2> QED BY <1>5, <2>1, <2>2, <2>3, <2>4
<1>10. ASSUME NEW c \in Devices, c # d PROVE Flows(c)'
  <2>1. Flows(c)
    OBVIOUS
  <2>2. used'[c] = used[c] /\ packet'[c] = packet[c] /\ evdev'[c] = evdev[c]
    BY <1>3, <1>10
  <2> QED BY <2>1, <2>2 DEF Flows
<1> QED BY <1>9, <1>10

\* A step of the kernel leaves the game alone, whose files only grow.
LEMMA KernelRest ==
  ASSUME InputIInv, NEW d \in Devices, TakeUsed(d)
  PROVE  /\ InputTypeOK' /\ ReadAhead' /\ RingRoom' /\ Posted' = Posted
         /\ \A k : Told(k)' = Told(k)
         /\ Occupied' = Occupied /\ Pending' = Pending
         /\ UNCHANGED <<turn, left, delta_x, mouse_bits, old_mouse_bits, gamePressed, gameMoved,
                        held, pressed, moved, whole, dropped, asked>>
<1> DEFINE e == Head(used[d])
<1>1. UNCHANGED <<turn, left, delta_x, delta_y, mouse_bits, old_mouse_bits, shiftdown,
                  events, eventhead, eventtail, gameHeld, gamePressed, gameMoved, relative_mode,
                  held, pressed, moved, inputs, whole, dropped, asked>>
  BY DEF TakeUsed, game, input, ring, host
<1>2. Posted' = Posted /\ Occupied' = Occupied /\ Pending' = Pending
  BY <1>1 DEF Posted, Occupied, Pending, ToReport
<1>3. InputTypeOK /\ ReadAhead /\ RingRoom
  BY DEF InputIInv
<1>4. /\ e \in EventsOf(d) /\ TakenAs(d, e) /\ Streams(used') /\ virtio_queue_size' \in [Devices -> Nat]
  BY <1>3, Taken
<1>5. /\ Streams(packet') /\ Streams(evdev')
      /\ \A c \in Devices : c # d => evdev'[c] = evdev[c]
      /\ \/ evdev'[d] = evdev[d]
         \/ /\ evdev'[d] = evdev[d] \o Append(packet[d], Syn)
            /\ Append(packet[d], Syn) \in Seq(EventsOf(d))
  BY <1>3, <1>4, TakenStreams
<1>6. InputTypeOK'
  BY <1>1, <1>3, <1>4, <1>5 DEF InputTypeOK, RingOK
<1>7. ASSUME NEW c \in Devices PROVE Len(evdev[c]) <= Len(evdev'[c]) /\ Len(evdev[c]) \in Nat
                                     /\ Len(evdev'[c]) \in Nat
  <2>1. Len(evdev[c]) \in Nat /\ Len(evdev'[c]) \in Nat /\ evdev[d] \in Seq(EventsOf(d))
    BY <1>3, <1>5, StreamFacts DEF InputTypeOK
  <2>2. CASE evdev'[c] = evdev[c]
    BY <2>1, <2>2
  <2>3. CASE c = d /\ evdev'[d] = evdev[d] \o Append(packet[d], Syn)
             /\ Append(packet[d], Syn) \in Seq(EventsOf(d))
    <3> DEFINE a == Append(packet[d], Syn)
    <3>1. Len(evdev[d] \o a) = Len(evdev[d]) + Len(a) /\ Len(a) \in Nat
      BY <2>1, <2>3, ConcatProperties, LenProperties
    <3>2. evdev'[c] = evdev[d] \o a /\ evdev[c] = evdev[d]
      BY <2>3
    <3> HIDE DEF a
    <3>3. Len(evdev'[c]) = Len(evdev[c]) + Len(a)
      BY <3>1, <3>2
    <3> QED BY <2>1, <3>1, <3>3
  <2> QED BY <1>5, <2>2, <2>3
<1>8. ReadAhead'
  <2>1. left \in Nat
    BY <1>3, InputConstants DEF InputTypeOK
  <2> QED BY <1>1, <1>3, <1>7, <2>1 DEF ReadAhead
<1>9. RingRoom'
  BY <1>1, <1>2, <1>3 DEF RingRoom
<1>10. \A k : Told(k)' = Told(k)
  BY <1>1 DEF Told
<1> QED BY <1>1, <1>2, <1>6, <1>8, <1>9, <1>10

\* The other device's keys are not this one's.
LEMMA OtherDown ==
  ASSUME InputTypeOK, NEW d \in Devices, TakeUsed(d), NEW k,
         (k \in Keys /\ d = "mouse") \/ (k = Left /\ d = "keyb")
  PROVE  DownIn(k, down') = DownIn(k, down)
<1> DEFINE e == Head(used[d])
<1>1. e \in EventsOf(d) /\ down' = IF e.type # "KEY" THEN down
                 ELSE IF e.value = 1 THEN down \cup {e.code} ELSE down \ {e.code}
  BY Taken
<1> HIDE DEF e
<1>2. e.type = "KEY" => e.code # k
  <2>1. Left = 272
    BY DEF Left, Btn
  <2>2. CASE d = "keyb"
    BY <1>1, <2>1, <2>2, InputConstants DEF EventsOf, Presses, Syn, Ev
  <2>3. CASE d = "mouse"
    BY <1>1, <2>1, <2>3, InputConstants DEF EventsOf, Clicks, Syn, Ev
  <2> QED BY <2>2, <2>3, DeviceFacts
<1> QED BY <1>1, <1>2 DEF DownIn

\* In the rest of a sequence is what its first event is not, and the SYN after
\* its first event.
LEMMA TailHas ==
  ASSUME NEW S, NEW s \in Seq(S), s # <<>>, NEW e, HasOne(s, {e}), Head(s) # e
  PROVE  HasOne(Tail(s), {e})
<1> DEFINE n == Len(s)
           t == Tail(s)
<1>1. n \in Nat \ {0} /\ DOMAIN s = 1 .. n /\ DOMAIN t = 1 .. n - 1
  BY HeadTailProperties, LenProperties, EmptySeq
<1>2. Head(s) = s[1] /\ \A i \in 1 .. n - 1 : t[i] = s[i + 1]
  BY HeadTailProperties, <1>1
<1> HIDE DEF n, t
<1>3. PICK i \in 1 .. n : s[i] = e
  BY <1>1 DEF HasOne
<1>4. i - 1 \in 1 .. n - 1 /\ (i - 1) + 1 = i
  BY <1>1, <1>2, <1>3
<1>5. t[i - 1] = e
  BY <1>2, <1>3, <1>4
<1> QED BY <1>1, <1>4, <1>5 DEF HasOne, t

\* A key whose event is taken is followed by a SYN.
LEMMA HeadReported ==
  ASSUME NEW S, NEW s \in Seq(S), s # <<>>, NEW k, Reported(s, k), Head(s) \in KeyEvents({k})
  PROVE  HasOne(Tail(s), {Syn})
<1> DEFINE n == Len(s)
           t == Tail(s)
<1>1. n \in Nat \ {0} /\ DOMAIN s = 1 .. n /\ DOMAIN t = 1 .. n - 1 /\ 1 \in 1 .. n
  BY HeadTailProperties, LenProperties, EmptySeq
<1>2. Head(s) = s[1] /\ \A i \in 1 .. n - 1 : t[i] = s[i + 1]
  BY HeadTailProperties, <1>1
<1>3. PICK j \in 1 + 1 .. n : s[j] = Syn
  BY <1>1, <1>2 DEF Reported
<1> HIDE DEF n, t
<1>4. j - 1 \in 1 .. n - 1 /\ (j - 1) + 1 = j
  BY <1>1, <1>3
<1>5. t[j - 1] = Syn
  BY <1>2, <1>3, <1>4
<1> QED BY <1>1, <1>4, <1>5 DEF HasOne, t

\* What the kernel does not let through is no motion.
LEMMA IdleWorth ==
  ASSUME NEW e \in EventsOf("mouse"), e = Syn \/ ~Counts(e)
  PROVE  Worth(e, MouseMotion) = 0
<1>1. CASE e \notin DOMAIN MouseMotion
  BY <1>1 DEF Worth
<1>2. CASE e \in DOMAIN MouseMotion
  <2>1. e \in MotionEvents
    BY <1>2 DEF MouseMotion, MouseEvents, MotionEvents, EventsOf, Clicks, Syn, Ev
  <2>2. MouseMotion[e] = e.value
    BY <1>2 DEF MouseMotion
  <2>3. e.value = 0
    BY <2>1, EventFacts DEF MotionEvents, Counts, Syn, Ev
  <2> QED BY <2>2, <2>3, <1>2 DEF Worth
<1> QED BY <1>1, <1>2

\* What is said of a key stays reported when the driver takes an event.
LEMMA ReportedTaken ==
  ASSUME InputTypeOK, TakeUsed("keyb"), NEW k, k \in Keys, KeyReported(k)
  PROVE  KeyReported(k)'
<1> DEFINE d == "keyb"
           e == Head(used[d])
           p == packet[d]
           u == used[d]
           S == EventsOf(d)
<1>1. d \in Devices /\ p \in Seq(S) /\ u \in Seq(S) /\ Streams(packet)
  BY DeviceFacts, WayIs DEF InputTypeOK
<1>2. u # <<>> /\ e = Head(u) /\ e \in S /\ TakenAs(d, e) /\ used'[d] = Tail(u)
  BY <1>1, Taken
<1>3. \/ packet'[d] = <<>>
      \/ packet'[d] = p /\ e # Syn
      \/ packet'[d] = Append(p, e) /\ e # Syn
  <2>1. CASE e # Syn /\ packet' = packet
    BY <2>1
  <2>2. CASE e # Syn /\ packet' = [packet EXCEPT ![d] = Append(p, e)]
    BY <1>1, <2>2 DEF Streams
  <2>3. CASE p = <<>> /\ packet' = packet
    BY <2>3
  <2>4. CASE packet' = [packet EXCEPT ![d] = <<>>]
    BY <1>1, <2>4 DEF Streams
  <2> HIDE DEF d, e, p
  <2>5. TakenAs(d, e) /\ p = packet[d]
    BY <1>2 DEF p
  <2> QED BY <2>1, <2>2, <2>3, <2>4, <2>5 DEF TakenAs
<1>4. Reported(u, k) /\ (HasOne(p, KeyEvents({k})) => HasOne(u, {Syn}))
  BY DEF KeyReported
<1> HIDE DEF S, e, p, u
<1>5. Reported(Tail(u), k)
  BY <1>1, <1>2, <1>4, ReportedTail
<1>6. (HasOne(u, {Syn}) /\ e # Syn) => HasOne(Tail(u), {Syn})
  BY <1>1, <1>2, TailHas
<1>7. e \in KeyEvents({k}) => HasOne(Tail(u), {Syn})
  BY <1>1, <1>2, <1>4, HeadReported
<1>8. HasOne(packet'[d], KeyEvents({k})) => HasOne(Tail(u), {Syn})
  <2>1. ~HasOne(<<>>, KeyEvents({k}))
    BY DEF HasOne
  <2>2. HasOne(Append(p, e), KeyEvents({k})) <=> HasOne(p, KeyEvents({k})) \/ e \in KeyEvents({k})
    BY <1>1, <1>2, AppendHas
  <2>3. CASE packet'[d] = <<>>
    BY <2>1, <2>3
  <2>4. CASE packet'[d] = p /\ e # Syn
    BY <1>4, <1>6, <2>4
  <2>5. CASE packet'[d] = Append(p, e) /\ e # Syn
    BY <1>4, <1>6, <1>7, <2>2, <2>5
  <2> QED BY <1>3, <2>3, <2>4, <2>5
<1> QED BY <1>2, <1>5, <1>8 DEF KeyReported

\* The driver takes an event, of the keyboard or of the mouse.
LEMMA TakeUsedIInv ==
  ASSUME InputIInv, NEW d \in Devices, TakeUsed(d)
  PROVE  InputIInv'
<1> DEFINE e == Head(used[d])
           u == used[d]
<1>1. InputTypeOK /\ KeysWay /\ ButtonRead /\ MouseWay
  BY DEF InputIInv
<1>2. /\ u # <<>> /\ e \in EventsOf(d) /\ TakenAs(d, e)
      /\ used'[d] = Tail(u) /\ \A c \in Devices : c # d => used'[c] = used[c]
  BY <1>1, Taken
<1>3. /\ \A c \in Devices : c # d => packet'[c] = packet[c] /\ evdev'[c] = evdev[c] /\ Way(c)' = Way(c)
      /\ \/ Way(d)' = Append(Way(d), e)
         \/ Way(d)' = Way(d) /\ (e = Syn \/ ~Counts(e))
      /\ \/ evdev'[d] = evdev[d]
         \/ /\ evdev'[d] = evdev[d] \o Append(packet[d], Syn)
            /\ Append(packet[d], Syn) \in Seq(EventsOf(d))
  BY <1>1, <1>2, TakenStreams
<1>4. /\ InputTypeOK' /\ ReadAhead' /\ RingRoom' /\ Posted' = Posted
      /\ \A k : Told(k)' = Told(k)
      /\ Occupied' = Occupied /\ Pending' = Pending
      /\ UNCHANGED <<turn, left, delta_x, mouse_bits, old_mouse_bits, gamePressed, gameMoved,
                     held, pressed, moved, whole, dropped, asked>>
  BY KernelRest
<1>5. u \in Seq(EventsOf(d)) /\ Way(d) \in Seq(EventsOf(d)) /\ whole \subseteq Keys
  BY <1>1, WayIs DEF InputTypeOK
<1> HIDE DEF e, u
<1>6. ASSUME NEW k, NEW o, LastIs(u, KeyValue(k), DownIn(k, down), o)
      PROVE  LastIs(Tail(u), KeyValue(k), DownIn(k, down'), o)
  <2>1. DownIn(k, down') = IF Head(u) \in KeyEvents({k}) THEN Head(u).value ELSE DownIn(k, down)
    BY <1>1, DownTaken DEF u
  <2>2. DOMAIN KeyValue(k) = KeyEvents({k}) /\ \A y \in KeyEvents({k}) : KeyValue(k)[y] = y.value
    BY DEF KeyValue
  <2>3. LastIs(Tail(u), KeyValue(k), IF Head(u) \in DOMAIN KeyValue(k) THEN KeyValue(k)[Head(u)] ELSE DownIn(k, down), o)
    BY <1>2, <1>5, <1>6, LastTail
  <2> QED BY <2>1, <2>2, <2>3
<1>7. ASSUME d = "keyb" PROVE KeysWay'
  <2>1. ASSUME NEW k \in whole PROVE KeyTaken(k)' /\ KeyReported(k)'
    <3>1. KeyTaken(k) /\ KeyReported(k) /\ k \in Keys
      BY <1>1, <1>5, <2>1 DEF KeysWay
    <3>2. KeyTaken(k)'
      BY <1>2, <1>4, <1>6, <1>7, <3>1 DEF KeyTaken, u
    <3>3. KeyReported(k)'
      BY <1>1, <1>7, <3>1, ReportedTaken
    <3> QED BY <3>2, <3>3
  <2>2. ASSUME ~dropped, NEW k \in Keys
        PROVE  InTurn(Tail(u), k, DownIn(k, down')) /\ (e \in KeyEvents({k}) => Counts(e))
    <3>1. InTurn(u, k, DownIn(k, down))
      BY <1>1, <1>7, <2>2 DEF KeysWay, KeysKept, u
    <3>2. /\ InTurn(Tail(u), k, IF e \in KeyEvents({k}) THEN e.value ELSE DownIn(k, down))
          /\ e \in KeyEvents({k}) => e.value # DownIn(k, down)
      BY <1>2, <1>5, <3>1, TurnTail DEF u, e
    <3>3. DownIn(k, down') = IF e \in KeyEvents({k}) THEN e.value ELSE DownIn(k, down)
      BY <1>1, DownTaken DEF e
    <3>4. e \in KeyEvents({k}) => Counts(e)
      BY <3>2 DEF KeyEvents, Counts, DownIn
    <3> QED BY <3>2, <3>3, <3>4
  <2>3. ASSUME NEW k \in Known PROVE KeyTold(k)'
    <3>1. PICK m : KernelTold(k, m) /\ AskedLast(k, m)
      BY <1>1, <2>3 DEF KeysWay, KeyTold
    <3>0. PICK g : LastIs(Posted, SharedValue(k), Told(k), g) /\ LastIs(Way("keyb"), SharedValue(k), g, m)
      BY <3>1 DEF KernelTold, Way
    <3>2. PICK j \in Shared(k) : m = DownIn(j, down)
      BY <3>1 DEF KernelTold
    <3>3. PICK i \in Shared(k) :
            /\ LastIs(Way("keyb")', SharedValue(k), g, DownIn(i, down'))
            /\ (e \in DOMAIN SharedValue(k) => Counts(e)) =>
                  DownIn(i, down') = IF e \in DOMAIN SharedValue(k) THEN SharedValue(k)[e] ELSE m
      BY <1>1, <1>7, <3>0, <3>2, SharedTaken DEF e
    <3>9. PICK n : n = DownIn(i, down')
      OBVIOUS
    <3>4. LastIs(Posted', SharedValue(k), Told(k)', g)
      BY <1>4, <3>0
    <3>5. KernelTold(k, n)'
      BY <3>3, <3>4, <3>9 DEF KernelTold, Way
    <3>6. ASSUME ~dropped PROVE LastIs(Tail(u), SharedValue(k), n, DownIn(k, asked))
      <4>1. e \in DOMAIN SharedValue(k) => Counts(e)
        <5>1. /\ e \in DOMAIN SharedValue(k) => e.type = "KEY" /\ e.code \in Keys
              /\ e.type = "KEY" => e \in KeyEvents({e.code})
          BY <1>2, <1>7, SharedEvents
        <5> QED BY <2>2, <3>6, <5>1
      <4>2. LastIs(u, SharedValue(k), m, DownIn(k, asked))
        BY <1>7, <3>1, <3>6 DEF AskedLast, u
      <4>3. LastIs(Tail(u), SharedValue(k), IF e \in DOMAIN SharedValue(k) THEN SharedValue(k)[e] ELSE m, DownIn(k, asked))
        BY <1>2, <1>5, <4>2, LastTail DEF e, u
      <4> QED BY <3>3, <3>9, <4>1, <4>3
    <3>7. AskedLast(k, n)'
      BY <1>2, <1>4, <1>7, <3>6 DEF AskedLast
    <3> QED BY <3>5, <3>7 DEF KeyTold
  <2>4. KeysKept'
    <3>1. ~dropped => whole = Keys
      BY <1>1 DEF KeysWay, KeysKept
    <3>2. used'["keyb"] = Tail(u) /\ whole' = whole /\ dropped' = dropped
      BY <1>2, <1>4, <1>7
    <3> QED BY <2>2, <3>1, <3>2 DEF KeysKept
  <2> QED BY <1>4, <2>1, <2>3, <2>4 DEF KeysWay
<1>8. ASSUME d = "mouse" PROVE KeysWay'
  <2>1. \A k \in Keys : DownIn(k, down') = DownIn(k, down)
    BY <1>1, <1>8, OtherDown
  <2>2. packet'["keyb"] = packet["keyb"] /\ used'["keyb"] = used["keyb"] /\ Way("keyb")' = Way("keyb")
    BY <1>2, <1>3, <1>8, DeviceFacts
  <2>3. ASSUME NEW k \in whole PROVE KeyTaken(k)' /\ KeyReported(k)'
    <3>1. KeyTaken(k) /\ KeyReported(k) /\ k \in Keys
      BY <1>1, <1>5, <2>3 DEF KeysWay
    <3> QED BY <1>4, <2>1, <2>2, <3>1 DEF KeyTaken, KeyReported
  <2>4. ASSUME NEW k \in Known PROVE KeyTold(k)'
    <3>1. PICK m : KernelTold(k, m) /\ AskedLast(k, m)
      BY <1>1, <2>4 DEF KeysWay, KeyTold
    <3>0. PICK g : LastIs(Posted, SharedValue(k), Told(k), g) /\ LastIs(Way("keyb"), SharedValue(k), g, m)
      BY <3>1 DEF KernelTold, Way
    <3>2. PICK j \in Shared(k) : m = DownIn(j, down)
      BY <3>1 DEF KernelTold
    <3>3. m = DownIn(j, down')
      BY <2>1, <2>4, <3>2, SharedFacts
    <3>4. LastIs(Posted', SharedValue(k), Told(k)', g)
      BY <1>4, <3>0
    <3>5. KernelTold(k, m)'
      BY <2>2, <3>0, <3>2, <3>3, <3>4 DEF KernelTold, Way
    <3>6. AskedLast(k, m)'
      BY <1>4, <2>2, <3>1 DEF AskedLast
    <3> QED BY <3>5, <3>6 DEF KeyTold
  <2>5. KeysKept'
    <3>1. ASSUME ~dropped, NEW k \in Keys PROVE InTurn(used'["keyb"], k, DownIn(k, down'))
      <4>1. InTurn(used["keyb"], k, DownIn(k, down))
        BY <1>1, <3>1 DEF KeysWay, KeysKept
      <4> QED BY <2>1, <2>2, <4>1
    <3>2. ~dropped => whole = Keys
      BY <1>1 DEF KeysWay, KeysKept
    <3> QED BY <1>4, <3>1, <3>2 DEF KeysKept
  <2> QED BY <1>4, <2>3, <2>4, <2>5 DEF KeysWay
<1>9. KeysWay'
  BY <1>7, <1>8, DeviceFacts
<1>10. /\ ButtonRead'
       /\ \A x : LastIs(used["mouse"], KeyValue(Left), DownIn(Left, down), x) =>
                   LastIs(used'["mouse"], KeyValue(Left), DownIn(Left, down'), x)
  <2>1. LastIs(Way("mouse"), KeyValue(Left), mouse_bits, DownIn(Left, down))
    BY <1>1 DEF ButtonRead, Way
  <2>2. CASE d = "mouse"
    <3>1. LastIs(Way("mouse")', KeyValue(Left), mouse_bits, DownIn(Left, down'))
      BY <1>1, <2>1, <2>2, WayLast
    <3>2. ButtonRead'
      BY <1>4, <3>1 DEF ButtonRead, Way
    <3>3. ASSUME NEW x, LastIs(used["mouse"], KeyValue(Left), DownIn(Left, down), x)
          PROVE  LastIs(used'["mouse"], KeyValue(Left), DownIn(Left, down'), x)
      BY <1>2, <1>6, <2>2, <3>3 DEF u
    <3> QED BY <3>2, <3>3
  <2>3. CASE d = "keyb"
    <3>1. DownIn(Left, down') = DownIn(Left, down)
      BY <1>1, <2>3, OtherDown
    <3>2. Way("mouse")' = Way("mouse") /\ used'["mouse"] = used["mouse"]
      BY <1>2, <1>3, <2>3, DeviceFacts
    <3>3. ButtonRead'
      BY <1>4, <2>1, <3>1, <3>2 DEF ButtonRead, Way
    <3> QED BY <3>1, <3>2, <3>3
  <2> QED BY <2>2, <2>3, DeviceFacts
<1>11. ASSUME ~dropped' PROVE MouseWay'
  <2>1. ~dropped /\ \A c \in Devices : Flows(c)
    BY <1>1, <1>4, <1>11 DEF MouseWay
  <2>2. \A c \in Devices : Flows(c)'
    BY <1>1, <1>2, <2>1, FlowsTaken DEF u, e
  <2>3. ASSUME NEW c \in Devices, SynFirst(evdev[c], Marked(c)) PROVE SynFirst(evdev'[c], Marked(c))
    <3>1. CASE evdev'[c] = evdev[c]
      BY <2>3, <3>1
    <3>2. CASE c = d /\ evdev'[d] = evdev[d] \o Append(packet[d], Syn)
               /\ Append(packet[d], Syn) \in Seq(EventsOf(d))
      <4> DEFINE a == Append(packet[d], Syn)
      <4>1. a \in Seq(EventsOf(d)) /\ evdev[d] \in Seq(EventsOf(d)) /\ evdev'[d] = evdev[d] \o a
        BY <1>1, <3>2, WayIs
      <4> HIDE DEF a
      <4>2. SynFirst(evdev[d] \o a, Marked(d))
        BY <2>3, <3>2, <4>1, ConcatFlows
      <4> QED BY <3>2, <4>1, <4>2
    <3> QED BY <1>3, <3>1, <3>2
  <2>4. delta_x' # 0 => SynFirst(evdev'["mouse"], Marked("mouse"))
    BY <1>1, <1>4, <2>1, <2>3, DeviceFacts DEF MouseWay
  <2>5. MouseRoom'
    <3>1. MouseRoom
      BY <1>1, <2>1 DEF MouseWay
    <3>2. SynFirst(evdev["keyb"], Marked("keyb")) => SynFirst(evdev'["keyb"], Marked("keyb"))
      BY <2>3, DeviceFacts
    <3> QED BY <1>4, <3>1, <3>2 DEF MouseRoom
  <2>6. LastIs(used'["mouse"], KeyValue(Left), DownIn(Left, down'), pressed')
    BY <1>1, <1>4, <1>10, <2>1 DEF MouseWay
  <2>7. LastIs(Posted', MouseButton, gamePressed', old_mouse_bits')
    BY <1>1, <1>4, <2>1 DEF MouseWay
  <2>8. SumOf(Way("mouse")', MouseMotion) + SumOf(used'["mouse"], MouseMotion)
        = SumOf(Way("mouse"), MouseMotion) + SumOf(used["mouse"], MouseMotion)
    <3>1. CASE d = "keyb"
      <4>1. Way("mouse")' = Way("mouse") /\ used'["mouse"] = used["mouse"]
        BY <1>2, <1>3, <3>1, DeviceFacts
      <4> QED BY <4>1
    <3>2. CASE d = "mouse"
      <4>1. /\ SumOf(u, MouseMotion) = Worth(e, MouseMotion) + SumOf(Tail(u), MouseMotion)
            /\ Worth(e, MouseMotion) \in Int
        BY <1>2, <1>5, SumTail, MotionInt DEF e, u
      <4>2. SumOf(Way(d), MouseMotion) \in Int /\ SumOf(Tail(u), MouseMotion) \in Int
        <5>1. Tail(u) \in Seq(EventsOf(d))
          BY <1>2, <1>5, HeadTailProperties
        <5> QED BY <1>5, <5>1, SumConcat, MotionInt
      <4>3. SumOf(Way(d)', MouseMotion) = SumOf(Way(d), MouseMotion) + Worth(e, MouseMotion)
        <5>1. CASE Way(d)' = Append(Way(d), e)
          <6>1. SumOf(Append(Way(d), e), MouseMotion) = SumOf(Way(d), MouseMotion) + Worth(e, MouseMotion)
            BY <1>2, <1>5, SumAppend, MotionInt
          <6> QED BY <5>1, <6>1
        <5>2. CASE Way(d)' = Way(d) /\ (e = Syn \/ ~Counts(e))
          <6>1. Worth(e, MouseMotion) = 0
            <7>1. e \in EventsOf("mouse")
              BY <1>2, <3>2
            <7> QED BY <5>2, <7>1, IdleWorth
          <6> QED BY <4>2, <5>2, <6>1
        <5> QED BY <1>3, <5>1, <5>2
      <4>4. used'["mouse"] = Tail(u) /\ used["mouse"] = u
        BY <1>2, <3>2 DEF u
      <4> QED BY <3>2, <4>1, <4>2, <4>3, <4>4
    <3> QED BY <3>1, <3>2, DeviceFacts
  <2>9. MotionSum'
    <3>1. moved = (gameMoved + delta_x) + (SumOf(Posted, MouseMotion)
              + (SumOf(Way("mouse"), MouseMotion) + SumOf(used["mouse"], MouseMotion)))
      BY <1>1, <2>1 DEF MouseWay, MotionSum, Way
    <3>2. moved' = (gameMoved' + delta_x') + (SumOf(Posted', MouseMotion)
              + (SumOf(Way("mouse")', MouseMotion) + SumOf(used'["mouse"], MouseMotion)))
      BY <1>4, <2>8, <3>1
    <3> QED BY <3>2 DEF MotionSum, Way
  <2> QED BY <1>4, <2>2, <2>4, <2>5, <2>6, <2>7, <2>9 DEF MouseWay
<1>12. MouseWay'
  <2>1. dropped' => MouseWay'
    BY DEF MouseWay
  <2> QED BY <1>11, <2>1
<1> QED BY <1>4, <1>9, <1>10, <1>12 DEF InputIInv

-----------------------------------------------------------------------------
(* The game.                                                               *)

\* The beginning.
LEMMA InputInitIInv == InputInit => InputIInv
<1> SUFFICES ASSUME InputInit PROVE InputIInv
  OBVIOUS
<1>1. /\ used = [d \in Devices |-> <<>>] /\ packet = used /\ evdev = used
      /\ \A d \in Devices : used[d] = <<>> /\ packet[d] = <<>> /\ evdev[d] = <<>>
      /\ used["keyb"] = <<>> /\ used["mouse"] = <<>>
  BY DeviceFacts DEF InputInit
<1> DEFINE E == <<>>
<1>2. /\ E \o E = E /\ Len(E) = 0 /\ DOMAIN E = {}
      /\ \A S : E \in Seq(S)
  OBVIOUS
<1> HIDE DEF E
<1>3. \A d \in Devices : used[d] = E /\ packet[d] = E /\ evdev[d] = E
  BY <1>1 DEF E
<1>4. /\ eventhead = 0 /\ eventtail = 0 /\ RingOK(PostedEvents)
  BY InputConstants DEF InputInit, RingOK, PostedEvents
<1>5. Occupied = 0 /\ Posted = E
  BY <1>4, RingFacts, PostedFacts DEF E
<1>6. InputTypeOK
  <2>1. Streams(used) /\ Streams(packet) /\ Streams(evdev)
    BY <1>1, <1>2, <1>3 DEF Streams
  <2>2. virtio_queue_size \in [Devices -> Nat]
    BY InputConstants DEF InputInit
  <2>3. 0 \in Int /\ left \in 0 .. Batch
    BY InputConstants DEF InputInit
  <2> QED BY <1>4, <2>1, <2>2, <2>3 DEF InputTypeOK, InputInit
<1>7. ReadAhead /\ RingRoom
  BY <1>5, InputConstants, DeviceFacts DEF InputInit, ReadAhead, RingRoom
<1>8. \A f, v : LastIs(E, f, v, v)
  BY <1>2, LastNone, Zenon
<1>9. "keyb" \in Devices /\ "mouse" \in Devices /\ down = {} /\ held = {} /\ pressed = 0
      /\ mouse_bits = 0 /\ old_mouse_bits = 0 /\ gamePressed = 0 /\ gameMoved = 0 /\ moved = 0
      /\ delta_x = 0 /\ delta_y = 0 /\ shiftdown = FALSE /\ gameHeld = {} /\ whole = Keys /\ asked = {}
      /\ turn = "loop" /\ left = 0
  BY DeviceFacts DEF InputInit
<1>10. /\ evdev["keyb"] \o packet["keyb"] = E /\ evdev["mouse"] \o packet["mouse"] = E
       /\ used["keyb"] = E /\ used["mouse"] = E
  BY <1>2, <1>3, <1>9
<1>11. KeysWay
  <2>1. ASSUME NEW k PROVE KeyTold(k) /\ KeyTaken(k) /\ KeyReported(k) /\ InTurn(used["keyb"], k, 0)
                             /\ DownIn(k, down) = 0
    <3>1. Told(k) = 0 /\ DownIn(k, down) = 0 /\ DownIn(k, held) = 0 /\ DownIn(k, asked) = 0
      BY <1>9 DEF Told, DownIn
    <3>2. KeyTold(k)
      <4>1. KernelTold(k, 0)
        BY <1>5, <1>8, <1>10, <3>1, SharedFacts DEF KernelTold
      <4>2. AskedLast(k, 0)
        BY <1>8, <1>10, <3>1 DEF AskedLast
      <4> QED BY <4>1, <4>2 DEF KeyTold
    <3>3. KeyTaken(k)
      BY <1>8, <1>10, <3>1 DEF KeyTaken
    <3>4. packet["keyb"] = E
      BY <1>3, <1>9
    <3>5. KeyReported(k)
      BY <1>2, <1>10, <3>4 DEF KeyReported, HasOne, Reported
    <3>6. InTurn(used["keyb"], k, 0)
      BY <1>2, <1>10 DEF InTurn
    <3> QED BY <3>1, <3>2, <3>3, <3>5, <3>6
  <2>2. KeysKept
    BY <1>9, <2>1 DEF KeysKept
  <2> QED BY <1>9, <2>1, <2>2 DEF KeysWay
<1>12. DownIn(Left, down) = 0
  BY <1>9 DEF DownIn
<1>13. ButtonRead
  BY <1>8, <1>9, <1>10, <1>12 DEF ButtonRead
<1>14. MouseWay
  <2>1. ASSUME NEW d \in Devices PROVE Flows(d)
    <3>1. Separated(E, Marked(d)) /\ EndsInSyn(E) /\ ~HasOne(E, {Syn}) /\ ~HasOne(E, Marked(d))
      BY <1>2 DEF Separated, EndsInSyn, HasOne, E
    <3> QED BY <1>3, <3>1 DEF Flows
  <2>2. MouseRoom
    BY <1>9, DeviceFacts DEF MouseRoom
  <2>3. MotionSum
    <3>1. SumOf(E, MouseMotion) = 0
      BY SumEmpty DEF E
    <3> QED BY <1>5, <1>9, <1>10, <3>1 DEF MotionSum
  <2> QED BY <1>5, <1>8, <1>9, <1>10, <1>12, <2>1, <2>2, <2>3 DEF MouseWay
<1> QED BY <1>6, <1>7, <1>11, <1>13, <1>14 DEF InputIInv

\* A step of the game that moves no event.
LEMMA GameStill ==
  ASSUME InputIInv,
         UNCHANGED <<queues, used, kernel, input, ring, gameHeld, gamePressed, gameMoved,
                     held, pressed, moved, whole, dropped, asked>>,
         turn' \in Devices \cup {"loop"}, left' \in 0 .. Batch, ReadAhead', RingRoom',
         MouseRoom => MouseRoom'
  PROVE  InputIInv'
<1>1. UNCHANGED <<relative_mode, virtio_queue_size, used, packet, down, evdev, delta_x, delta_y,
                  mouse_bits, old_mouse_bits, shiftdown, events, eventhead, eventtail,
                  gameHeld, gamePressed, gameMoved, held, pressed, moved, whole, dropped, asked>>
  BY DEF queues, kernel, input, ring
<1>2. Posted' = Posted
  BY <1>1 DEF Posted
<1>3. InputTypeOK /\ KeysWay /\ ButtonRead /\ MouseWay
  BY DEF InputIInv
<1>4. InputTypeOK'
  BY <1>1, <1>3 DEF InputTypeOK, RingOK
<1>5. KeysWay'
  <2>1. ASSUME NEW k \in Known PROVE KeyTold(k)'
    <3>1. Told(k)' = Told(k)
      BY <1>1 DEF Told
    <3>2. KeyTold(k)
      BY <1>3, <2>1 DEF KeysWay
    <3> QED BY <1>1, <1>2, <3>1, <3>2 DEF KeyTold, KernelTold, AskedLast
  <2> QED BY <1>1, <1>3, <2>1 DEF KeysWay, KeyTaken, KeyReported, KeysKept
<1>6. ButtonRead'
  BY <1>1, <1>3 DEF ButtonRead
<1>7. MouseWay'
  <2>1. ASSUME NEW c \in Devices, Flows(c) PROVE Flows(c)'
    BY <1>1, <2>1 DEF Flows
  <2> QED BY <1>1, <1>2, <1>3, <2>1 DEF MouseWay, MotionSum
<1> QED BY <1>4, <1>5, <1>6, <1>7 DEF InputIInv

\* The numbers the room in the ring is counted with.
LEMMA RingNumbers ==
  ASSUME InputTypeOK
  PROVE  /\ Occupied \in Nat /\ Pending \in {0, 1} /\ left \in Nat /\ left <= Batch
         /\ Batch \in Nat /\ Batch >= 2 /\ MaxEvents = 2 * Batch /\ MaxEvents \div 2 = Batch
<1>1. Batch \in Nat /\ Batch >= 2 /\ MaxEvents = 2 * Batch
  BY InputConstants
<1>2. MaxEvents \div 2 = Batch
  <2> DEFINE q == MaxEvents \div 2
             r == MaxEvents % 2
  <2>1. q \in Int /\ r \in 0 .. 1 /\ MaxEvents = 2 * q + r
    BY <1>1, DivMod
  <2> HIDE DEF q, r
  <2>2. q = Batch
    BY <1>1, <2>1
  <2> QED BY <2>2 DEF q
<1>3. Occupied \in Nat
  BY PostedIs
<1> QED BY <1>1, <1>2, <1>3 DEF InputTypeOK, Pending

\* The keyboard is read when the ring is empty, and the mouse after that.
LEMMA ReadIInv ==
  ASSUME InputIInv, NEW d \in Devices, Read(d)
  PROVE  InputIInv'
<1>1. InputTypeOK /\ ReadAhead /\ RingRoom
  BY DEF InputIInv
<1>2. /\ left = 0 /\ turn' = d /\ left' = MinOf(Batch, Len(evdev[d]))
      /\ UNCHANGED <<queues, used, kernel, input, ring, gameHeld, gamePressed, gameMoved,
                     held, pressed, moved, whole, dropped, asked>>
      /\ \/ d = "keyb" /\ turn = "loop" /\ eventtail = eventhead
         \/ d = "mouse" /\ turn = "keyb"
  BY DEF Read, host
<1>3. UNCHANGED <<evdev, delta_x, delta_y, mouse_bits, old_mouse_bits, events, eventhead, eventtail>>
  BY <1>2 DEF kernel, input, ring
<1>4. Posted' = Posted /\ Occupied' = Occupied /\ Pending' = Pending
  BY <1>3 DEF Posted, Occupied, Pending, ToReport
<1>5. Len(evdev[d]) \in Nat
  BY <1>1, StreamFacts DEF InputTypeOK
<1>6. left' \in Nat /\ left' <= Batch /\ left' <= Len(evdev[d])
  BY <1>2, <1>5, InputConstants DEF MinOf
<1>7. ReadAhead'
  BY <1>2, <1>3, <1>6, DeviceFacts DEF ReadAhead
<1>8. Occupied \in Nat /\ Pending \in {0, 1} /\ Batch \in Nat /\ Batch >= 2
  BY <1>1, RingNumbers
<1>9. RingRoom' /\ (MouseRoom => MouseRoom')
  <2>1. CASE d = "keyb" /\ turn = "loop" /\ eventtail = eventhead
    <3>1. Occupied = 0
      <4>1. RingOK(PostedEvents)
        BY <1>1 DEF InputTypeOK
      <4> QED BY <2>1, <4>1, RingFacts DEF RingOK
    <3>2. RingRoom'
      BY <1>2, <1>4, <1>6, <1>8, <2>1, <3>1, DeviceFacts DEF RingRoom
    <3>3. MouseRoom'
      BY <1>2, <1>4, <1>6, <1>8, <2>1, <3>1, DeviceFacts DEF MouseRoom
    <3> QED BY <3>2, <3>3
  <2>2. CASE d = "mouse" /\ turn = "keyb"
    <3>1. Occupied <= Batch
      BY <1>1, <1>2, <1>8, <2>2 DEF RingRoom
    <3>2. RingRoom'
      BY <1>2, <1>4, <1>8, <2>2, <3>1, DeviceFacts DEF RingRoom
    <3>3. ASSUME MouseRoom PROVE MouseRoom'
      <4>1. 2 * (Occupied + Pending) + 0 <= Batch + 3
        BY <1>2, <1>8, <2>2, <3>3 DEF MouseRoom
      <4>2. (2 * Occupied + Pending) + left' <= 2 * Batch + 3
        <5> DEFINE w == Occupied
                   p == Pending
                   l == left'
        <5>1. /\ w \in Nat /\ p \in Nat /\ l \in Nat /\ l <= Batch
              /\ 2 * (w + p) + 0 <= Batch + 3 /\ Batch \in Nat
          BY <1>6, <1>8, <4>1
        <5> HIDE DEF w, p, l
        <5>2. (2 * w + p) + l <= 2 * Batch + 3
          BY <5>1
        <5> QED BY <5>2 DEF w, p, l
      <4> QED BY <1>2, <1>4, <2>2, <4>2, DeviceFacts DEF MouseRoom
    <3> QED BY <3>2, <3>3
  <2> QED BY <1>2, <2>1, <2>2
<1>10. turn' \in Devices \cup {"loop"} /\ left' \in 0 .. Batch
  BY <1>2, <1>6, <1>8
<1> QED BY <1>2, <1>7, <1>9, <1>10, GameStill

\* The reads are over.
LEMMA EndOfReadsIInv ==
  ASSUME InputIInv, EndOfReads
  PROVE  InputIInv'
<1>1. InputTypeOK /\ RingRoom
  BY DEF InputIInv
<1>2. /\ turn = "mouse" /\ left = 0 /\ turn' = "loop" /\ left' = left
      /\ UNCHANGED <<queues, used, kernel, input, ring, gameHeld, gamePressed, gameMoved,
                     held, pressed, moved, whole, dropped, asked>>
  BY DEF EndOfReads, host
<1>3. Occupied' = Occupied
  BY <1>2 DEF Occupied, ring
<1>4. ReadAhead'
  BY <1>2, DeviceFacts DEF ReadAhead
<1>5. RingRoom' /\ MouseRoom'
  BY <1>1, <1>2, <1>3, DeviceFacts DEF RingRoom, MouseRoom
<1>6. turn' \in Devices \cup {"loop"} /\ left' \in 0 .. Batch
  BY <1>1, <1>2 DEF InputTypeOK
<1> QED BY <1>2, <1>4, <1>5, <1>6, GameStill

\* Nothing happens.
LEMMA InputStutter ==
  ASSUME InputIInv, UNCHANGED inputVars
  PROVE  InputIInv'
<1>1. /\ UNCHANGED <<queues, used, kernel, input, ring, gameHeld, gamePressed, gameMoved,
                     held, pressed, moved, whole, dropped, asked>>
      /\ UNCHANGED <<turn, left>>
  BY DEF inputVars, game, host
<1>2. UNCHANGED <<evdev, delta_x, delta_y, mouse_bits, old_mouse_bits, events, eventhead, eventtail>>
  BY <1>1 DEF kernel, input, ring
<1>3. Occupied' = Occupied /\ Pending' = Pending
  BY <1>2 DEF Occupied, Pending, ToReport
<1>4. ReadAhead' /\ RingRoom' /\ (MouseRoom => MouseRoom')
  BY <1>1, <1>2, <1>3 DEF InputIInv, ReadAhead, RingRoom, MouseRoom
<1>5. turn' \in Devices \cup {"loop"} /\ left' \in 0 .. Batch
  BY <1>1 DEF InputIInv, InputTypeOK
<1> QED BY <1>1, <1>4, <1>5, GameStill

-----------------------------------------------------------------------------
(* What the invariant says.                                                *)

\* A key in a packet is reported by a SYN that is still to be taken.
LEMMA ReportedJoin ==
  ASSUME NEW S, NEW s \in Seq(S), NEW t \in Seq(S), NEW k, Reported(t, k),
         HasOne(s, KeyEvents({k})) => HasOne(t, {Syn})
  PROVE  Reported(s \o t, k)
<1> DEFINE n == Len(s)
           m == Len(t)
           u == s \o t
<1>1. n \in Nat /\ m \in Nat /\ DOMAIN s = 1 .. n /\ DOMAIN t = 1 .. m
      /\ u \in Seq(S) /\ DOMAIN u = 1 .. n + m /\ Len(u) = n + m
  BY ConcatProperties, LenProperties
<1>2. /\ \A i \in 1 .. n : u[i] = s[i]
      /\ \A i \in 1 .. m : u[n + i] = t[i]
  BY ConcatProperties, <1>1
<1> HIDE DEF n, m, u
<1> SUFFICES ASSUME NEW i \in 1 .. n + m, u[i] \in KeyEvents({k})
             PROVE  \E j \in i + 1 .. n + m : u[j] = Syn
  BY <1>1, Zenon DEF Reported, u
<1>3. CASE i \in 1 .. n
  <2>1. PICK j \in 1 .. m : t[j] = Syn
    BY <1>1, <1>2, <1>3 DEF HasOne
  <2>2. n + j \in i + 1 .. n + m
    BY <1>1, <1>3, <2>1
  <2> QED BY <1>2, <2>1, <2>2
<1>4. CASE i \notin 1 .. n
  <2> DEFINE x == i - n
  <2>1. x \in 1 .. m /\ n + x = i
    BY <1>1, <1>4
  <2> HIDE DEF x
  <2>2. t[x] \in KeyEvents({k})
    BY <1>2, <2>1
  <2>3. PICK j \in x + 1 .. m : t[j] = Syn
    BY <1>1, <2>1, <2>2, Zenon DEF Reported, m
  <2>4. j \in 1 .. m /\ n + j \in i + 1 .. n + m
    BY <1>1, <2>1, <2>3
  <2> QED BY <1>2, <2>3, <2>4
<1> QED BY <1>3, <1>4

\* There is a last one of the events of a kind.
LEMMA LastHas ==
  ASSUME NEW S, NEW s \in Seq(S), NEW M, HasOne(s, M)
  PROVE  \E i \in DOMAIN s : s[i] \in M /\ \A j \in i + 1 .. Len(s) : s[j] \notin M
<1> DEFINE n == Len(s)
           T == {m \in 0 .. n : n - m \in DOMAIN s /\ s[n - m] \in M}
<1>1. n \in Nat /\ DOMAIN s = 1 .. n
  BY LenProperties
<1> HIDE DEF n
<1>2. T # {} /\ T \subseteq Nat
  <2>1. PICK i \in 1 .. n : s[i] \in M
    BY <1>1 DEF HasOne
  <2>2. n - i \in 0 .. n /\ n - (n - i) = i
    BY <1>1, <2>1
  <2>3. n - i \in T
    BY <1>1, <2>1, <2>2
  <2>4. T \subseteq Nat
    OBVIOUS
  <2> HIDE DEF T
  <2> QED BY <2>3, <2>4
<1>3. PICK m \in T : \A x \in T : m <= x
  <2> HIDE DEF T
  <2> QED BY <1>2, Smallest
<1>4. PICK i : i = n - m
  OBVIOUS
<1>5. i \in 1 .. n /\ s[i] \in M
  BY <1>1, <1>3, <1>4
<1>6. ASSUME NEW j \in i + 1 .. n PROVE s[j] \notin M
  <2>1. n - j \in 0 .. n /\ n - (n - j) = j /\ j \in 1 .. n /\ ~(m <= n - j)
    BY <1>1, <1>3, <1>4, <1>5, <1>6
  <2> QED BY <1>1, <1>3, <2>1
<1> QED BY <1>1, <1>5, <1>6 DEF n

\* The used ring leads from what the kernel has of one of the keys that share a key of
\* the game to what the host has of one of them.
LEMMA LastShared ==
  ASSUME InputTypeOK, KeysWay, NEW k \in Known, Shared(k) \subseteq whole, NEW j \in Shared(k)
  PROVE  \E i \in Shared(k) : LastIs(used["keyb"], SharedValue(k), DownIn(j, down), DownIn(i, held))
<1> DEFINE u == used["keyb"]
           D == DOMAIN SharedValue(k)
<1>1. u \in Seq(EventsOf("keyb")) /\ Len(u) \in Nat /\ DOMAIN u = 1 .. Len(u)
      /\ \A i \in DOMAIN u : u[i] \in EventsOf("keyb")
  <2>1. u \in Seq(EventsOf("keyb"))
    BY WayIs, DeviceFacts
  <2> QED BY <2>1, LenProperties, ElementOfSeq
<1>2. \A i \in Shared(k) : LastIs(u, KeyValue(i), DownIn(i, down), DownIn(i, held))
  BY DEF KeysWay, KeyTaken
<1>3. \A i : DOMAIN KeyValue(i) = KeyEvents({i}) /\ \A y \in KeyEvents({i}) : KeyValue(i)[y] = y.value
  BY DEF KeyValue
<1>4. ASSUME NEW y \in EventsOf("keyb")
      PROVE  /\ y \in D => y.code \in Shared(k) /\ y \in KeyEvents({y.code}) /\ SharedValue(k)[y] = y.value
             /\ \A i \in Shared(k) : y \in KeyEvents({i}) => y \in D
  BY SharedEvents
<1> HIDE DEF u, D
<1>5. CASE HasOne(u, D)
  <2>1. PICK n \in DOMAIN u : u[n] \in D /\ \A l \in n + 1 .. Len(u) : u[l] \notin D
    BY <1>1, <1>5, LastHas
  <2>2. PICK c : c = u[n].code
    OBVIOUS
  <2>3. c \in Shared(k) /\ u[n] \in KeyEvents({c}) /\ SharedValue(k)[u[n]] = u[n].value
    BY <1>1, <1>4, <2>1, <2>2
  <2>4. \A l \in n + 1 .. Len(u) : u[l] \notin KeyEvents({c})
    <3>1. \A l \in n + 1 .. Len(u) : l \in DOMAIN u
      BY <1>1
    <3> QED BY <1>1, <1>4, <2>1, <2>3, <3>1
  <2>5. LastIs(u, KeyValue(c), DownIn(c, down), DownIn(c, held))
    BY <1>2, <2>3
  <2>6. PICK l \in DOMAIN u : /\ u[l] \in KeyEvents({c}) /\ DownIn(c, held) = u[l].value
                              /\ \A x \in l + 1 .. Len(u) : u[x] \notin KeyEvents({c})
    BY <1>3, <2>3, <2>5 DEF LastIs
  <2>7. l = n
    <3>1. l \in 1 .. Len(u) /\ n \in 1 .. Len(u) /\ Len(u) \in Nat
      BY <1>1, <2>1, <2>6, Zenon
    <3>2. l \notin n + 1 .. Len(u)
      BY <2>4, <2>6, Zenon
    <3>3. n \notin l + 1 .. Len(u)
      BY <2>3, <2>6, Zenon
    <3> QED BY <3>1, <3>2, <3>3
  <2>8. LastIs(u, SharedValue(k), DownIn(j, down), DownIn(c, held))
    <3>1. u[n] \in D /\ DownIn(c, held) = SharedValue(k)[u[n]]
      BY <2>1, <2>3, <2>6, <2>7
    <3>2. \E x \in DOMAIN u : /\ u[x] \in D /\ DownIn(c, held) = SharedValue(k)[u[x]]
                              /\ \A y \in x + 1 .. Len(u) : u[y] \notin D
      BY <2>1, <3>1, Zenon
    <3> QED BY <3>2, Zenon DEF LastIs, D
  <2> QED BY <2>3, <2>8 DEF u
<1>6. CASE ~HasOne(u, D)
  <2>1. \A i \in DOMAIN u : u[i] \notin D /\ u[i] \notin KeyEvents({j})
    BY <1>1, <1>4, <1>6 DEF HasOne
  <2>2. DownIn(j, held) = DownIn(j, down)
    BY <1>2, <1>3, <2>1, LastOfNone
  <2>3. LastIs(u, SharedValue(k), DownIn(j, down), DownIn(j, held))
    BY <2>1, <2>2, LastNone DEF D
  <2> QED BY <2>3 DEF u
<1> QED BY <1>5, <1>6

\* What was told, what is in the ring, with the kernel and with the device, in this
\* order: the last of a key is the state of a key the host has.
LEMMA InputIInvKeys == InputIInv => KeysFollow
<1> SUFFICES ASSUME InputIInv, NEW k \in Known, Shared(k) \subseteq whole
             PROVE  /\ \E j \in Shared(k) :
                          LastIs(Posted \o OnTheWay("keyb"), SharedValue(k), Told(k), DownIn(j, held))
                    /\ ~dropped => LastIs(Posted \o OnTheWay("keyb"), SharedValue(k), Told(k), DownIn(k, asked))
                    /\ \A i \in DOMAIN (packet["keyb"] \o used["keyb"]) :
                         (packet["keyb"] \o used["keyb"])[i] \in KeyEvents(Shared(k)) =>
                           \E j \in i + 1 .. Len(packet["keyb"] \o used["keyb"]) :
                             (packet["keyb"] \o used["keyb"])[j] = Syn
  BY DEF KeysFollow, Known
<1> DEFINE S == PostedEvents \cup EventsOf("keyb")
           w == Way("keyb")
           u == used["keyb"]
           p == packet["keyb"]
           o == Posted
<1>1. InputTypeOK /\ KeysWay
  BY DEF InputIInv
<1>2. /\ w \in Seq(EventsOf("keyb")) /\ u \in Seq(EventsOf("keyb")) /\ p \in Seq(EventsOf("keyb"))
      /\ o \in Seq(PostedEvents)
  BY <1>1, WayIs, PostedIs, DeviceFacts
<1>3. PICK m : KernelTold(k, m) /\ AskedLast(k, m)
  BY <1>1 DEF KeysWay, KeyTold
<1>4. PICK g : LastIs(o, SharedValue(k), Told(k), g) /\ LastIs(w, SharedValue(k), g, m)
  BY <1>3 DEF KernelTold, Way
<1>5. PICK c \in Shared(k) : m = DownIn(c, down)
  BY <1>3 DEF KernelTold
<1>6. OnTheWay("keyb") = w \o u
  BY DEF OnTheWay, Way
<1>7. PICK j \in Shared(k) : LastIs(u, SharedValue(k), m, DownIn(j, held))
  BY <1>1, <1>5, LastShared
<1>8. ~dropped => LastIs(u, SharedValue(k), m, DownIn(k, asked))
  BY <1>3 DEF AskedLast
<1> HIDE DEF w, u, p, o, S
<1>9. w \in Seq(S) /\ u \in Seq(S) /\ o \in Seq(S)
  <2>1. EventsOf("keyb") \subseteq S /\ PostedEvents \subseteq S
    BY DEF S
  <2> QED BY <1>2, <2>1, SeqMonotonic
<1>10. ASSUME NEW v, LastIs(u, SharedValue(k), m, v)
       PROVE  LastIs(Posted \o OnTheWay("keyb"), SharedValue(k), Told(k), v)
  <2>1. LastIs(w \o u, SharedValue(k), g, v)
    BY <1>4, <1>9, <1>10, LastConcat
  <2> DEFINE x == w \o u
  <2>2. x \in Seq(S) /\ LastIs(x, SharedValue(k), g, v)
    BY <1>9, <2>1, ConcatProperties
  <2> HIDE DEF x
  <2>3. LastIs(o \o x, SharedValue(k), Told(k), v)
    BY <1>4, <1>9, <2>2, LastConcat
  <2> QED BY <1>6, <2>3 DEF x, o
<1> DEFINE q == p \o u
<1>11. q \in Seq(EventsOf("keyb")) /\ \A i \in DOMAIN q : q[i] \in EventsOf("keyb")
  <2>1. q \in Seq(EventsOf("keyb"))
    BY <1>2, ConcatProperties
  <2> HIDE DEF q
  <2> QED BY <2>1, ElementOfSeq, LenProperties
<1>12. \A i \in Shared(k) : Reported(q, i)
  <2>1. ASSUME NEW i \in Shared(k) PROVE Reported(q, i)
    <3>1. (HasOne(p, KeyEvents({i})) => HasOne(u, {Syn})) /\ Reported(u, i)
      BY <1>1, <2>1 DEF KeysWay, KeyReported, p, u
    <3> QED BY <1>2, <3>1, ReportedJoin
  <2> QED BY <2>1
<1> HIDE DEF q
<1>13. ASSUME NEW i \in DOMAIN q, q[i] \in KeyEvents(Shared(k))
       PROVE  \E l \in i + 1 .. Len(q) : q[l] = Syn
  <2>1. q[i].code \in Shared(k) /\ q[i] \in KeyEvents({q[i].code})
    BY <1>13 DEF KeyEvents
  <2>2. Reported(q, q[i].code)
    BY <1>12, <2>1
  <2> QED BY <1>13, <2>1, <2>2 DEF Reported
<1> QED BY <1>7, <1>8, <1>10, <1>13 DEF q, p, u

\* The same for the button and the motion.
LEMMA InputIInvMouse == InputIInv => MouseArrives
<1> SUFFICES ASSUME InputIInv, ~dropped PROVE MouseArrives
  BY DEF MouseArrives
<1> DEFINE w == Way("mouse")
           u == used["mouse"]
           S == EventsOf("mouse")
<1>1. InputTypeOK /\ ButtonRead /\ MotionSum
      /\ LastIs(u, KeyValue(Left), DownIn(Left, down), pressed)
      /\ LastIs(Posted, MouseButton, gamePressed, old_mouse_bits)
  BY DEF InputIInv, MouseWay
<1>2. w \in Seq(S) /\ u \in Seq(S)
  BY <1>1, WayIs, DeviceFacts
<1>3. OnTheWay("mouse") = w \o u
  BY DEF OnTheWay, Way
<1>4. LastIs(w, KeyValue(Left), mouse_bits, DownIn(Left, down))
  BY <1>1 DEF ButtonRead, Way
<1>5. moved = (gameMoved + delta_x) + (SumOf(Posted, MouseMotion)
              + (SumOf(w, MouseMotion) + SumOf(u, MouseMotion)))
  BY <1>1 DEF MotionSum, Way
<1>6. gameMoved \in Int /\ delta_x \in Int /\ SumOf(Posted, MouseMotion) \in Int
  BY <1>1, SumsInt
<1> HIDE DEF w, u, S
<1>7. LastIs(w \o u, KeyValue(Left), mouse_bits, pressed)
  BY <1>1, <1>2, <1>4, LastConcat
<1>8. /\ SumOf(w \o u, MouseMotion) = SumOf(w, MouseMotion) + SumOf(u, MouseMotion)
      /\ SumOf(w, MouseMotion) \in Int /\ SumOf(u, MouseMotion) \in Int
  BY <1>2, SumConcat, MotionInt
<1>9. moved = gameMoved + delta_x + SumOf(Posted, MouseMotion) + SumOf(w \o u, MouseMotion)
  BY <1>5, <1>6, <1>8
<1> QED BY <1>1, <1>3, <1>7, <1>9 DEF MouseArrives

-----------------------------------------------------------------------------
(* The loop of check_for_events.                                           *)

\* The first of two sequences is first in both together.
LEMMA HeadConcat ==
  ASSUME NEW S, NEW s \in Seq(S), NEW t \in Seq(S), s # <<>>
  PROVE  s \o t # <<>> /\ Head(s \o t) = Head(s) /\ Tail(s \o t) = Tail(s) \o t
<1> DEFINE n == Len(s)
           m == Len(t)
           u == s \o t
           r == Tail(s)
           v == r \o t
           x == Tail(u)
<1>1. n \in Nat \ {0} /\ m \in Nat /\ r \in Seq(S) /\ Len(r) = n - 1
      /\ \A i \in 1 .. n - 1 : r[i] = s[i + 1]
  BY HeadTailProperties, LenProperties, EmptySeq
<1>2. /\ u \in Seq(S) /\ Len(u) = n + m
      /\ \A i \in 1 .. n : u[i] = s[i]
      /\ \A i \in 1 .. m : u[n + i] = t[i]
  BY ConcatProperties, <1>1
<1>3. u # <<>>
  BY <1>1, <1>2
<1>4. /\ x \in Seq(S) /\ Len(x) = (n + m) - 1
      /\ \A i \in 1 .. (n + m) - 1 : x[i] = u[i + 1]
  <2> HIDE DEF u
  <2>1. /\ Tail(u) \in Seq(S) /\ Len(Tail(u)) = Len(u) - 1
        /\ \A i \in 1 .. Len(u) - 1 : Tail(u)[i] = u[i + 1]
    BY <1>2, <1>3, HeadTailProperties
  <2> HIDE DEF n, m, x
  <2>2. Len(u) = n + m
    BY <1>2
  <2>3. x = Tail(u)
    BY DEF x
  <2> QED BY <2>1, <2>2, <2>3
<1>5. /\ v \in Seq(S) /\ Len(v) = (n - 1) + m
      /\ \A i \in 1 .. n - 1 : v[i] = r[i]
      /\ \A i \in 1 .. m : v[(n - 1) + i] = t[i]
  <2> HIDE DEF r
  <2>1. /\ r \o t \in Seq(S) /\ Len(r \o t) = Len(r) + Len(t)
        /\ \A i \in 1 .. Len(r) + Len(t) : (r \o t)[i] = IF i <= Len(r) THEN r[i] ELSE t[i - Len(r)]
    BY <1>1, ConcatProperties
  <2> HIDE DEF v, m
  <2>2. v = r \o t /\ Len(t) = m
    BY DEF v, m
  <2>3. \A i \in 1 .. (n - 1) + m : v[i] = IF i <= n - 1 THEN r[i] ELSE t[i - (n - 1)]
    BY <1>1, <2>1, <2>2
  <2>4. \A i \in 1 .. m : (n - 1) + i \in 1 .. (n - 1) + m /\ ~((n - 1) + i <= n - 1)
                          /\ ((n - 1) + i) - (n - 1) = i
    BY <1>1
  <2>5. \A i \in 1 .. n - 1 : i \in 1 .. (n - 1) + m /\ i <= n - 1
    BY <1>1
  <2> QED BY <1>1, <2>1, <2>2, <2>3, <2>4, <2>5
<1> HIDE DEF n, m, r, v, x, u
<1>6. ASSUME NEW i \in 1 .. (n + m) - 1 PROVE x[i] = v[i]
  <2>1. CASE i <= n - 1
    <3>1. i \in 1 .. n - 1 /\ i + 1 \in 1 .. n
      BY <1>1, <2>1
    <3> QED BY <1>1, <1>2, <1>4, <1>5, <3>1
  <2>2. CASE i > n - 1
    <3> DEFINE j == i - (n - 1)
    <3>1. j \in 1 .. m /\ (n - 1) + j = i /\ n + j = i + 1
      BY <1>1, <2>2
    <3> HIDE DEF j
    <3> QED BY <1>2, <1>4, <1>5, <3>1
  <2> QED BY <1>1, <2>1, <2>2
<1>7. x = v
  <2>1. Len(x) = Len(v) /\ (n + m) - 1 = Len(x)
    BY <1>1, <1>4, <1>5
  <2> QED BY <1>4, <1>5, <1>6, <2>1, SeqEqual
<1>8. Head(u) = Head(s)
  <2>1. 1 \in 1 .. n /\ Head(s) = s[1] /\ Head(u) = u[1]
    BY <1>1, <1>2, <1>3, HeadTailProperties
  <2> QED BY <1>2, <2>1
<1> QED BY <1>3, <1>7, <1>8 DEF u, x, v, r

\* The game takes an event of the one file, and leaves the rest.
LEMMA Checked ==
  ASSUME InputTypeOK, ReadAhead, NEW d \in Devices, CheckEvent(d)
  PROVE  /\ turn = d /\ turn' = d /\ left \in Nat /\ left > 0 /\ left' = left - 1 /\ left' \in 0 .. Batch
         /\ evdev[d] # <<>> /\ Head(evdev[d]) \in EventsOf(d)
         /\ Streams(evdev') /\ evdev'[d] = Tail(evdev[d])
         /\ \A c \in Devices : c # d => evdev'[c] = evdev[c] /\ Way(c)' = Way(c)
         /\ Way(d) # <<>> /\ Head(Way(d)) = Head(evdev[d]) /\ Way(d)' = Tail(Way(d))
         /\ ReadAhead'
         /\ UNCHANGED <<relative_mode, virtio_queue_size, used, packet, down, eventtail,
                        gameHeld, gamePressed, gameMoved, held, pressed, moved, whole, dropped, asked>>
<1> DEFINE v == evdev[d]
           p == packet[d]
<1>1. /\ turn = d /\ left > 0 /\ turn' = turn /\ left' = left - 1
      /\ evdev' = [evdev EXCEPT ![d] = Tail(v)]
      /\ UNCHANGED <<relative_mode, virtio_queue_size, used, packet, down, eventtail,
                     gameHeld, gamePressed, gameMoved, held, pressed, moved, whole, dropped, asked>>
  BY DEF CheckEvent, queues, host
<1>2. left \in Nat /\ left' \in 0 .. Batch
  BY <1>1, InputConstants DEF InputTypeOK
<1>3. left <= Len(v) /\ Streams(evdev)
  BY <1>1 DEF ReadAhead, InputTypeOK
<1>4. v \in Seq(EventsOf(d)) /\ p \in Seq(EventsOf(d)) /\ Len(v) \in Nat
  BY WayIs, LenProperties
<1>5. v # <<>>
  BY <1>1, <1>2, <1>3, <1>4
<1>6. Head(v) \in EventsOf(d) /\ Tail(v) \in Seq(EventsOf(d)) /\ Len(Tail(v)) = Len(v) - 1
  BY <1>4, <1>5, HeadTailProperties
<1>7. Streams(evdev') /\ evdev'[d] = Tail(v) /\ \A c \in Devices : c # d => evdev'[c] = evdev[c]
  <2> DEFINE t == Tail(v)
  <2>1. IsPut(evdev, d, t, evdev') /\ t \in Seq(EventsOf(d))
    BY <1>1, <1>6 DEF IsPut
  <2> HIDE DEF t
  <2>2. Streams(evdev') /\ evdev'[d] = t /\ \A c \in Devices : c # d => evdev'[c] = evdev[c]
    BY <1>3, <2>1, StreamPut
  <2> QED BY <2>2 DEF t
<1>8. \A c \in Devices : c # d => Way(c)' = Way(c)
  BY <1>1, <1>7 DEF Way
<1>9. Way(d) # <<>> /\ Head(Way(d)) = Head(v) /\ Way(d)' = Tail(Way(d))
  <2> HIDE DEF v, p
  <2>1. v \o p # <<>> /\ Head(v \o p) = Head(v) /\ Tail(v \o p) = Tail(v) \o p
    BY <1>4, <1>5, HeadConcat
  <2>2. Way(d) = v \o p /\ Way(d)' = Tail(v) \o p
    BY <1>1, <1>7 DEF Way, v, p
  <2> QED BY <2>1, <2>2
<1>10. ReadAhead'
  <2>1. turn' # "loop"
    BY <1>1, DeviceFacts
  <2>2. left' <= Len(evdev'[d])
    BY <1>1, <1>2, <1>3, <1>4, <1>6, <1>7
  <2> QED BY <1>1, <2>1, <2>2 DEF ReadAhead
<1> QED BY <1>1, <1>2, <1>5, <1>6, <1>7, <1>8, <1>9, <1>10

\* D_PostEvent puts an event last in the ring, which has room for it, or
\* throws it away.
LEMMA Posting ==
  ASSUME InputTypeOK, NEW e \in PostedEvents, DPostEvent(e), UNCHANGED eventtail,
         Occupied <= Batch \/ e.type = "mouse"
  PROVE  /\ RingOK(PostedEvents)'
         /\ \/ Occupied <= Batch /\ Posted' = Append(Posted, e) /\ Occupied' = Occupied + 1
            \/ Occupied > Batch /\ Posted' = Posted /\ Occupied' = Occupied
<1>1. /\ Occupied \in Nat /\ Batch \in Nat /\ Batch >= 2 /\ MaxEvents = 2 * Batch
      /\ MaxEvents \div 2 = Batch /\ RingOK(PostedEvents)
  BY RingNumbers DEF InputTypeOK
<1>2. CASE Occupied <= Batch
  <2>1. ~(Occupied > MaxEvents \div 2)
    BY <1>1, <1>2
  <2>2. /\ events' = [events EXCEPT ![eventhead] = e]
        /\ eventhead' = (eventhead + 1) % MaxEvents
    BY <2>1 DEF DPostEvent, Occupied
  <2>3. Occupied < MaxEvents - 1
    BY <1>1, <1>2
  <2>4. RingOK(PostedEvents)' /\ Posted' = Append(Posted, e) /\ Occupied' = Occupied + 1
    BY <1>1, <2>2, <2>3, PostedAppend
  <2> QED BY <1>2, <2>4
<1>3. CASE Occupied > Batch
  <2>1. Occupied > MaxEvents \div 2 /\ e.type = "mouse"
    BY <1>1, <1>3
  <2>2. UNCHANGED <<events, eventhead, eventtail>>
    BY <2>1 DEF DPostEvent, Occupied
  <2> QED BY <1>1, <1>3, <2>2 DEF RingOK, Posted, Occupied
<1> QED BY <1>1, <1>2, <1>3

\* What an event does to the sums and the bits, the ring and what is told of a
\* key, decides whether the invariant stays.
LEMMA CheckedIInv ==
  ASSUME InputIInv, NEW d \in Devices, CheckEvent(d), NEW e, e = Head(evdev[d]),
         delta_x' \in Motions \cup {0}, delta_y' \in Motions \cup {0},
         mouse_bits' \in {0, 1}, old_mouse_bits' \in {0, 1}, shiftdown' \in BOOLEAN,
         RingOK(PostedEvents)', RingRoom',
         \A k \in Known : KeyTold(k)',
         d = "keyb" => mouse_bits' = mouse_bits,
         d = "mouse" => mouse_bits' = IF e \in DOMAIN KeyValue(Left) THEN KeyValue(Left)[e] ELSE mouse_bits,
         delta_x' # 0 => \/ delta_x' = delta_x /\ (d = "mouse" => e # Syn)
                         \/ d = "mouse" /\ e \in MotionEvents,
         ~dropped => MouseRoom',
         ~dropped => delta_x' + SumOf(Posted', MouseMotion) =
                       (delta_x + SumOf(Posted, MouseMotion)) + (IF d = "mouse" THEN Worth(e, MouseMotion) ELSE 0),
         ~dropped => LastIs(Posted', MouseButton, gamePressed, old_mouse_bits')
  PROVE  InputIInv'
<1>1. InputTypeOK /\ ReadAhead /\ KeysWay /\ ButtonRead /\ MouseWay
  BY DEF InputIInv
<1>2. /\ turn = d /\ turn' = d /\ left \in Nat /\ left > 0 /\ left' = left - 1 /\ left' \in 0 .. Batch
      /\ evdev[d] # <<>> /\ e \in EventsOf(d)
      /\ Streams(evdev') /\ evdev'[d] = Tail(evdev[d])
      /\ \A c \in Devices : c # d => evdev'[c] = evdev[c] /\ Way(c)' = Way(c)
      /\ Way(d) # <<>> /\ Head(Way(d)) = e /\ Way(d)' = Tail(Way(d))
      /\ ReadAhead'
      /\ UNCHANGED <<relative_mode, virtio_queue_size, used, packet, down, eventtail,
                     gameHeld, gamePressed, gameMoved, held, pressed, moved, whole, dropped, asked>>
  BY <1>1, Checked
<1>3. InputTypeOK'
  BY <1>1, <1>2 DEF InputTypeOK
<1>4. KeysWay'
  BY <1>1, <1>2 DEF KeysWay, KeyTaken, KeyReported, KeysKept, InputTypeOK
<1>5. Way(d) \in Seq(EventsOf(d)) /\ evdev[d] \in Seq(EventsOf(d))
  BY <1>1, WayIs
<1>6. ButtonRead'
  <2>1. LastIs(Way("mouse"), KeyValue(Left), mouse_bits, DownIn(Left, down))
    BY <1>1 DEF ButtonRead, Way
  <2>2. LastIs(Way("mouse")', KeyValue(Left), mouse_bits', DownIn(Left, down))
    <3>1. CASE d = "keyb"
      BY <1>2, <2>1, <3>1, DeviceFacts
    <3>2. CASE d = "mouse"
      <4> DEFINE w == Way(d)
      <4>1. LastIs(w, KeyValue(Left), mouse_bits, DownIn(Left, down)) /\ w \in Seq(EventsOf(d)) /\ w # <<>>
            /\ Head(w) = e
        BY <1>2, <1>5, <2>1, <3>2
      <4> HIDE DEF w
      <4>2. LastIs(Tail(w), KeyValue(Left), IF Head(w) \in DOMAIN KeyValue(Left)
                                            THEN KeyValue(Left)[Head(w)] ELSE mouse_bits, DownIn(Left, down))
        BY <4>1, LastTail
      <4>3. LastIs(Tail(w), KeyValue(Left), mouse_bits', DownIn(Left, down))
        BY <3>2, <4>1, <4>2
      <4>4. Way("mouse")' = Tail(w)
        BY <1>2, <3>2 DEF w
      <4> QED BY <4>3, <4>4
    <3> QED BY <3>1, <3>2, DeviceFacts
  <2> QED BY <1>2, <2>2 DEF ButtonRead, Way
<1>7. ASSUME ~dropped PROVE MouseWay'
  <2>1. /\ \A c \in Devices : Flows(c)
        /\ delta_x # 0 => SynFirst(evdev["mouse"], Marked("mouse"))
        /\ MotionSum
        /\ LastIs(used["mouse"], KeyValue(Left), DownIn(Left, down), pressed)
    BY <1>1, <1>7 DEF MouseWay
  <2> DEFINE v == evdev[d]
             M == Marked(d)
  <2>2. Separated(v, M) /\ EndsInSyn(v) /\ Syn \notin M
    BY <2>1, EventFacts DEF Flows
  <2>3. v \in Seq(EventsOf(d)) /\ v # <<>> /\ e = Head(v)
    BY <1>2, <1>5
  <2> HIDE DEF v, M
  <2>4. /\ Separated(Tail(v), M) /\ EndsInSyn(Tail(v))
        /\ (SynFirst(v, M) /\ e # Syn) => SynFirst(Tail(v), M)
        /\ e \in M => SynFirst(Tail(v), M)
    BY <2>2, <2>3, TailFlows
  <2>5. \A c \in Devices : Flows(c)'
    <3>1. evdev'[d] = Tail(v)
      BY <1>2 DEF v
    <3>2. Flows(d)'
      BY <1>2, <2>1, <2>4, <3>1 DEF Flows, M
    <3>3. ASSUME NEW c \in Devices, c # d PROVE Flows(c)'
      <4>1. Flows(c)
        BY <2>1
      <4> QED BY <1>2, <3>3, <4>1 DEF Flows
    <3> QED BY <3>2, <3>3
  <2>6. delta_x' # 0 => SynFirst(evdev'["mouse"], Marked("mouse"))
    <3>1. CASE d = "keyb"
      <4>1. evdev'["mouse"] = evdev["mouse"]
        BY <1>2, <3>1, DeviceFacts
      <4> QED BY <2>1, <3>1, <4>1
    <3>2. CASE d = "mouse"
      <4>1. M = MotionEvents /\ evdev'["mouse"] = Tail(v) /\ v = evdev["mouse"] /\ M = Marked("mouse")
        BY <1>2, <3>2 DEF M, Marked, v
      <4> QED BY <2>1, <2>4, <3>2, <4>1
    <3> QED BY <3>1, <3>2, DeviceFacts
  <2>7. MotionSum'
    <3> DEFINE a == SumOf(Posted, MouseMotion)
               b == SumOf(Way("mouse"), MouseMotion)
               c == SumOf(used["mouse"], MouseMotion)
               y == SumOf(Posted', MouseMotion)
               z == SumOf(Way("mouse")', MouseMotion)
               m == IF d = "mouse" THEN Worth(e, MouseMotion) ELSE 0
    <3>1. moved = (gameMoved + delta_x) + (a + (b + c))
      BY <2>1 DEF MotionSum, Way
    <3>2. gameMoved \in Int /\ delta_x \in Int /\ a \in Int /\ b \in Int /\ c \in Int
      BY <1>1, SumsInt DEF Way
    <3>3. b = m + z /\ m \in Int /\ z \in Int
      <4>1. CASE d = "keyb"
        <5>1. Way("mouse")' = Way("mouse")
          BY <1>2, <4>1, DeviceFacts
        <5> QED BY <3>2, <4>1, <5>1
      <4>2. CASE d = "mouse"
        <5> DEFINE w == Way(d)
        <5>1. w \in Seq(EventsOf(d)) /\ w # <<>> /\ Head(w) = e /\ Way("mouse")' = Tail(w)
              /\ w = Way("mouse")
          BY <1>2, <1>5, <4>2
        <5> HIDE DEF w
        <5>2. /\ SumOf(w, MouseMotion) = Worth(Head(w), MouseMotion) + SumOf(Tail(w), MouseMotion)
              /\ Worth(Head(w), MouseMotion) \in Int
          BY <5>1, SumTail, MotionInt
        <5>3. SumOf(Tail(w), MouseMotion) \in Int
          <6>1. Tail(w) \in Seq(EventsOf(d))
            BY <5>1, HeadTailProperties
          <6> QED BY <6>1, SumConcat, MotionInt
        <5> QED BY <4>2, <5>1, <5>2, <5>3
      <4> QED BY <4>1, <4>2, DeviceFacts
    <3>4. delta_x' + y = (delta_x + a) + m
      BY <1>7
    <3>5. delta_x' \in Int /\ y \in Int
      <4>1. Posted' \in Seq(PostedEvents)
        <5>1. InputTypeOK' /\ (InputTypeOK => Posted \in Seq(PostedEvents))
          BY <1>3, PostedIs
        <5>2. (InputTypeOK => Posted \in Seq(PostedEvents))'
          BY PostedIs, PTL
        <5> QED BY <5>1, <5>2
      <4>2. y \in Int
        BY <4>1, SumConcat, MotionInt
      <4> QED BY <4>2, InputConstants
    <3>6. gameMoved' = gameMoved /\ moved' = moved /\ used' = used
      BY <1>2
    <3> HIDE DEF a, b, c, y, z, m
    <3>7. moved = (gameMoved + delta_x') + (y + (z + c))
      <4> DEFINE f == delta_x'
                 h == delta_x
                 g == gameMoved
      <4>1. /\ g \in Int /\ h \in Int /\ f \in Int /\ a \in Int /\ c \in Int
            /\ y \in Int /\ z \in Int /\ m \in Int
            /\ f + y = (h + a) + m
        BY <3>2, <3>3, <3>4, <3>5
      <4>2. moved = (g + h) + (a + ((m + z) + c))
        BY <3>1, <3>3
      <4> HIDE DEF f, g, h
      <4>3. moved = (g + f) + (y + (z + c))
        BY <4>1, <4>2
      <4> QED BY <4>3 DEF f, g
    <3> USE DEF a, b, c, y, z, m
    <3> QED BY <3>6, <3>7 DEF MotionSum, Way
  <2>8. MouseRoom' /\ LastIs(Posted', MouseButton, gamePressed', old_mouse_bits')
    BY <1>2, <1>7
  <2> QED BY <1>2, <2>1, <2>5, <2>6, <2>7, <2>8 DEF MouseWay
<1>8. MouseWay'
  <2>1. dropped => MouseWay'
    BY <1>2 DEF MouseWay
  <2> QED BY <1>7, <2>1
<1> QED BY <1>2, <1>3, <1>4, <1>6, <1>8 DEF InputIInv

\* What a case of the loop may get from the keyboard, and from the mouse.
LEMMA CasesOf ==
  ASSUME InputTypeOK, NEW d \in Devices, NEW e \in EventsOf(d),
         Button(e) \/ ShiftKey(e) \/ OtherKey(e) \/ Motion(e) \/ Report(e) \/ NoCase(e)
  PROVE  \/ d = "keyb" /\ ShiftKey(e) /\ e \in Presses /\ e.code = Shift
         \/ d = "keyb" /\ OtherKey(e) /\ e \in Presses /\ e.code \in DOMAIN ev_to_doom
         \/ d = "keyb" /\ NoCase(e) /\ e \in Presses /\ e.code \notin DOMAIN ev_to_doom \cup {Shift}
         \/ Report(e) /\ e = Syn
         \/ d = "mouse" /\ Button(e) /\ e \in KeyEvents({Left})
         \/ d = "mouse" /\ Motion(e) /\ e.type = "REL"
         \/ d = "mouse" /\ NoCase(e) /\ e \notin KeyEvents({Left}) /\ e.type # "REL" /\ e # Syn
<1>1. Left = 272
  BY DEF Left, Btn
<1>2. Syn.type = "SYN" /\ Syn.code = 0
  BY DEF Syn, Ev
<1>3. CASE d = "keyb"
  <2>1. (e \in Presses /\ e.type = "KEY" /\ e.code \in Keys) \/ e = Syn
    BY <1>3 DEF EventsOf, Presses
  <2>2. /\ ~Button(e) /\ ~Motion(e)
        /\ NoCase(e) => e.type = "KEY" /\ e.code \notin DOMAIN ev_to_doom \cup {Shift}
    BY <1>1, <1>2, <2>1, InputConstants DEF Button, NoCase, Motion
  <2>3. e = Syn => e.type # "KEY"
    BY <1>2
  <2> QED BY <1>2, <1>3, <2>1, <2>2, <2>3 DEF ShiftKey, OtherKey, Report
<1>4. CASE d = "mouse"
  <2>1. \/ e \in Clicks /\ e.type = "KEY" /\ e.code \in {272, 273, 274}
        \/ e.type \in {"REL", "ABS"}
        \/ e = Syn
    BY <1>4 DEF EventsOf, Clicks
  <2>2. ~ShiftKey(e) /\ ~OtherKey(e)
    BY <1>2, <2>1, InputConstants DEF ShiftKey, OtherKey
  <2>3. e \in KeyEvents({Left}) <=> e.type = "KEY" /\ e.code = Left
    BY EventShape
  <2>4. Button(e) => e \in KeyEvents({Left})
    BY <2>3 DEF Button
  <2>5. Motion(e) => e.type = "REL"
    BY DEF Motion
  <2>6. Report(e) => e = Syn
    BY <1>2, <2>1 DEF Report
  <2>7. NoCase(e) => e \notin KeyEvents({Left}) /\ e.type # "REL" /\ e # Syn
    BY <1>2, <2>3 DEF NoCase
  <2> QED BY <1>4, <2>2, <2>4, <2>5, <2>6, <2>7
<1> QED BY <1>3, <1>4, DeviceFacts

\* A key is told of as before, if the ring and what was told say so.
LEMMA KeyToldStep ==
  ASSUME InputIInv, NEW d \in Devices, CheckEvent(d), NEW e, e = Head(evdev[d]), NEW k \in Known,
         \A g : LastIs(Posted, SharedValue(k), Told(k), g) =>
                  LastIs(Posted', SharedValue(k), Told(k)',
                         IF d = "keyb" /\ e \in DOMAIN SharedValue(k) THEN SharedValue(k)[e] ELSE g)
  PROVE  KeyTold(k)'
<1>1. InputTypeOK /\ ReadAhead /\ KeyTold(k)
  BY DEF InputIInv, KeysWay
<1>2. PICK m : KernelTold(k, m) /\ AskedLast(k, m)
  BY <1>1 DEF KeyTold
<1>3. PICK g : LastIs(Posted, SharedValue(k), Told(k), g) /\ LastIs(Way("keyb"), SharedValue(k), g, m)
  BY <1>2 DEF KernelTold, Way
<1>4. /\ \A c \in Devices : c # d => Way(c)' = Way(c)
      /\ Way(d) # <<>> /\ Head(Way(d)) = e /\ Way(d)' = Tail(Way(d))
      /\ UNCHANGED <<down, used, asked, dropped>>
  BY <1>1, Checked
<1> DEFINE h == IF d = "keyb" /\ e \in DOMAIN SharedValue(k) THEN SharedValue(k)[e] ELSE g
<1>5. LastIs(Posted', SharedValue(k), Told(k)', h)
  BY <1>3
<1>6. LastIs(Way("keyb")', SharedValue(k), h, m)
  <2>1. CASE d = "keyb"
    <3> DEFINE w == Way(d)
    <3>1. w \in Seq(EventsOf(d)) /\ w # <<>> /\ Head(w) = e /\ Way("keyb")' = Tail(w)
          /\ LastIs(w, SharedValue(k), g, m)
      BY <1>1, <1>3, <1>4, <2>1, WayIs
    <3> HIDE DEF w
    <3>2. LastIs(Tail(w), SharedValue(k),
                 IF Head(w) \in DOMAIN SharedValue(k) THEN SharedValue(k)[Head(w)] ELSE g, m)
      BY <3>1, LastTail
    <3>3. h = IF Head(w) \in DOMAIN SharedValue(k) THEN SharedValue(k)[Head(w)] ELSE g
      BY <2>1, <3>1
    <3> HIDE DEF h
    <3> QED BY <3>1, <3>2, <3>3
  <2>2. CASE d = "mouse"
    <3>1. Way("keyb")' = Way("keyb") /\ h = g
      BY <1>4, <2>2, DeviceFacts
    <3> QED BY <1>3, <3>1
  <2> QED BY <2>1, <2>2, DeviceFacts
<1> HIDE DEF h
<1>7. KernelTold(k, m)'
  <2>1. \E j \in Shared(k) : m = DownIn(j, down)
    BY <1>2 DEF KernelTold
  <2> QED BY <1>4, <1>5, <1>6, <2>1 DEF KernelTold, Way
<1>8. AskedLast(k, m)'
  BY <1>2, <1>4 DEF AskedLast
<1> QED BY <1>7, <1>8 DEF KeyTold

\* Numbers of a turn of the loop: the ring gets no event, or one event for one.
LEMMA RoomStep ==
  ASSUME InputIInv, NEW d \in Devices, CheckEvent(d), Pending' \in {0, 1},
         \/ Occupied' = Occupied /\ (d = "keyb" => Pending' <= Pending)
         \/ Occupied <= Batch /\ Occupied' = Occupied + 1 /\ Pending = 1 /\ Pending' = 0
         \/ d = "keyb" /\ Occupied' = Occupied + 1 /\ Pending' = Pending /\ Head(evdev["keyb"]) \in Marked("keyb")
  PROVE  RingRoom' /\ (~dropped => MouseRoom')
<1>1. InputTypeOK /\ ReadAhead /\ RingRoom /\ MouseWay
  BY DEF InputIInv
<1>2. /\ turn = d /\ turn' = d /\ left \in Nat /\ left > 0 /\ left' = left - 1
      /\ evdev[d] # <<>> /\ evdev'[d] = Tail(evdev[d])
  BY <1>1, Checked
<1>3. Occupied \in Nat /\ Pending \in {0, 1} /\ left <= Batch /\ Batch \in Nat /\ Batch >= 2
  BY <1>1, RingNumbers
<1> DEFINE w == Occupied
           p == Pending
           l == left
           w1 == Occupied'
           p1 == Pending'
           l1 == left'
           first == SynFirst(evdev["keyb"], Marked("keyb"))
           first1 == SynFirst(evdev'["keyb"], Marked("keyb"))
           marked == Head(evdev["keyb"]) \in Marked("keyb")
<1>4. CASE d = "keyb"
  <2>1. w + l <= Batch
    BY <1>1, <1>2, <1>4 DEF RingRoom
  <2>2. ~dropped => \/ 2 * (w + p) + l <= Batch + 2
                    \/ 2 * (w + p) + l <= Batch + 3 /\ first
    BY <1>1, <1>2, <1>4 DEF MouseWay, MouseRoom
  <2>3. \/ w1 = w /\ p1 <= p
        \/ w1 = w + 1 /\ p = 1 /\ p1 = 0
        \/ w1 = w + 1 /\ p1 = p /\ marked
    BY <1>4
  <2>4. ~dropped => /\ marked => first1
                    /\ first => ~marked
    <3> SUFFICES ASSUME ~dropped PROVE (marked => first1) /\ (first => ~marked)
      OBVIOUS
    <3> DEFINE v == evdev["keyb"]
               M == Marked("keyb")
    <3>1. Separated(v, M) /\ EndsInSyn(v) /\ Syn \notin M
      BY <1>1, <1>4, EventFacts, DeviceFacts DEF MouseWay, Flows
    <3>2. v \in Seq(EventsOf("keyb")) /\ v # <<>> /\ evdev'["keyb"] = Tail(v)
      BY <1>1, <1>2, <1>4, WayIs
    <3> HIDE DEF v, M
    <3>3. /\ (Separated(v, M) /\ EndsInSyn(v) /\ Head(v) \in M) => SynFirst(Tail(v), M)
          /\ SynFirst(v, M) => Head(v) \notin M
      BY <3>1, <3>2, TailFlows
    <3> QED BY <3>1, <3>2, <3>3 DEF v, M
  <2>5. turn' = "keyb" /\ turn' # "mouse"
    BY <1>2, <1>4
  <2> HIDE DEF w, p, l, w1, p1, l1, first, first1, marked
  <2>6. w \in Nat /\ p \in {0, 1} /\ l \in Nat /\ l > 0 /\ l1 = l - 1 /\ l <= Batch /\ p1 \in {0, 1}
    BY <1>2, <1>3 DEF w, p, l, l1, p1
  <2>7. w1 + l1 <= Batch
    BY <1>3, <2>1, <2>3, <2>6
  <2>8. ~dropped => \/ 2 * (w1 + p1) + l1 <= Batch + 2
                    \/ 2 * (w1 + p1) + l1 <= Batch + 3 /\ first1
    <3>1. CASE w1 = w /\ p1 <= p
      BY <1>3, <2>2, <2>6, <3>1
    <3>2. CASE w1 = w + 1 /\ p = 1 /\ p1 = 0
      BY <1>3, <2>2, <2>6, <3>2
    <3>3. CASE w1 = w + 1 /\ p1 = p /\ marked
      BY <1>3, <2>2, <2>4, <2>6, <3>3
    <3> QED BY <2>3, <3>1, <3>2, <3>3
  <2>9. RingRoom'
    BY <2>5, <2>7 DEF RingRoom, w1, l1
  <2>10. ~dropped => MouseRoom'
    BY <2>5, <2>8 DEF MouseRoom, w1, p1, l1, first1
  <2> QED BY <2>9, <2>10
<1>5. CASE d = "mouse"
  <2>1. w <= Batch + 1 /\ (~dropped => (2 * w + p) + l <= 2 * Batch + 3)
    BY <1>1, <1>2, <1>5 DEF RingRoom, MouseWay, MouseRoom
  <2>2. \/ w1 = w
        \/ w <= Batch /\ w1 = w + 1 /\ p = 1 /\ p1 = 0
    BY <1>5
  <2>3. turn' = "mouse" /\ turn' # "keyb"
    BY <1>2, <1>5
  <2> HIDE DEF w, p, l, w1, p1, l1
  <2>4. w \in Nat /\ p \in {0, 1} /\ l \in Nat /\ l > 0 /\ l1 = l - 1 /\ p1 \in {0, 1}
    BY <1>2, <1>3 DEF w, p, l, l1, p1
  <2>5. w1 <= Batch + 1 /\ (~dropped => (2 * w1 + p1) + l1 <= 2 * Batch + 3)
    BY <1>3, <2>1, <2>2, <2>4
  <2> QED BY <2>3, <2>5 DEF RingRoom, MouseRoom, w1, p1, l1
<1> QED BY <1>4, <1>5, DeviceFacts

\* An event that changes a bit or a sum and leaves the ring alone.
LEMMA QuietRest ==
  ASSUME InputIInv, UNCHANGED <<events, eventhead>>, NEW d \in Devices, CheckEvent(d)
  PROVE  /\ RingOK(PostedEvents)' /\ Posted' = Posted /\ Occupied' = Occupied
         /\ ~dropped => LastIs(Posted, MouseButton, gamePressed, old_mouse_bits)
         /\ delta_x \in Motions \cup {0} /\ delta_y \in Motions \cup {0} /\ shiftdown \in BOOLEAN
         /\ mouse_bits \in {0, 1} /\ old_mouse_bits \in {0, 1}
         /\ gameHeld' = gameHeld /\ gameHeld \subseteq GameKeys
         /\ SumOf(Posted, MouseMotion) \in Int /\ delta_x \in Int
         /\ Head(evdev[d]) \in EventsOf(d)
<1>1. InputTypeOK /\ ReadAhead /\ MouseWay
  BY DEF InputIInv
<1>2. eventtail' = eventtail /\ gameHeld' = gameHeld /\ Head(evdev[d]) \in EventsOf(d)
  BY <1>1, Checked
<1>3. RingOK(PostedEvents)' /\ Posted' = Posted /\ Occupied' = Occupied
  BY <1>1, <1>2 DEF InputTypeOK, RingOK, Posted, Occupied
<1>4. SumOf(Posted, MouseMotion) \in Int /\ delta_x \in Int
  BY <1>1, SumsInt
<1> QED BY <1>1, <1>2, <1>3, <1>4 DEF InputTypeOK, MouseWay

\* The button of the mouse.
LEMMA ButtonIInv ==
  ASSUME InputIInv, CheckEvent("mouse"), NEW e, e = Head(evdev["mouse"]), Button(e), e \in KeyEvents({Left})
  PROVE  InputIInv'
<1> DEFINE d == "mouse"
<1>1. d \in Devices /\ d # "keyb"
  BY DeviceFacts
<1>2. /\ mouse_bits' = e.value /\ UNCHANGED <<delta_x, delta_y, old_mouse_bits, shiftdown, events, eventhead>>
  BY DEF Button
<1>3. /\ RingOK(PostedEvents)' /\ Posted' = Posted /\ Occupied' = Occupied
      /\ ~dropped => LastIs(Posted, MouseButton, gamePressed, old_mouse_bits)
      /\ delta_x \in Motions \cup {0} /\ delta_y \in Motions \cup {0} /\ shiftdown \in BOOLEAN
      /\ mouse_bits \in {0, 1} /\ old_mouse_bits \in {0, 1} /\ gameHeld' = gameHeld
      /\ SumOf(Posted, MouseMotion) \in Int /\ delta_x \in Int
  BY <1>1, <1>2, QuietRest
<1>4. e \in DOMAIN KeyValue(Left) /\ KeyValue(Left)[e] = e.value /\ e.value \in {0, 1} /\ e # Syn
      /\ e \notin DOMAIN MouseMotion
  BY DEF KeyValue, KeyEvents, Syn, Ev, MouseMotion, MouseEvents, MotionEvents
<1>5. Worth(e, MouseMotion) = 0
  BY <1>4 DEF Worth
<1>6. ASSUME NEW k \in Known PROVE KeyTold(k)'
  <2>1. Told(k)' = Told(k)
    BY <1>2, <1>3 DEF Told
  <2> QED BY <1>1, <1>3, <2>1, KeyToldStep
<1>7. RingRoom' /\ (~dropped => MouseRoom')
  <2>1. Pending' \in {0, 1}
    BY DEF Pending
  <2> QED BY <1>1, <1>3, <2>1, RoomStep
<1>8. delta_x' + SumOf(Posted', MouseMotion) = (delta_x + SumOf(Posted, MouseMotion)) + Worth(e, MouseMotion)
  BY <1>2, <1>3, <1>5
<1> QED BY <1>1, <1>2, <1>3, <1>4, <1>6, <1>7, <1>8, CheckedIInv

\* Events the game has no case for: keys it does not know, and the other buttons.
LEMMA NoCaseIInv ==
  ASSUME InputIInv, NEW d \in Devices, CheckEvent(d), NEW e, e = Head(evdev[d]), NoCase(e),
         e \notin KeyEvents({Left}), e.type # "REL", e # Syn,
         d = "keyb" => e \in Presses /\ e.code \notin DOMAIN ev_to_doom \cup {Shift}
  PROVE  InputIInv'
<1>2. UNCHANGED <<delta_x, delta_y, mouse_bits, old_mouse_bits, shiftdown, events, eventhead>>
  BY DEF NoCase, input
<1>3. /\ RingOK(PostedEvents)' /\ Posted' = Posted /\ Occupied' = Occupied
      /\ ~dropped => LastIs(Posted, MouseButton, gamePressed, old_mouse_bits)
      /\ delta_x \in Motions \cup {0} /\ delta_y \in Motions \cup {0} /\ shiftdown \in BOOLEAN
      /\ mouse_bits \in {0, 1} /\ old_mouse_bits \in {0, 1} /\ gameHeld' = gameHeld
      /\ SumOf(Posted, MouseMotion) \in Int /\ delta_x \in Int /\ e \in EventsOf(d)
  BY <1>2, QuietRest
<1>4. e \notin DOMAIN KeyValue(Left)
  BY DEF KeyValue
<1>5. Worth(e, MouseMotion) = 0
  <2>1. e.type = "KEY" \/ e.type = "ABS"
    BY DEF NoCase
  <2>2. e \notin DOMAIN MouseMotion
    BY <2>1 DEF MouseMotion, MouseEvents, MotionEvents
  <2> QED BY <2>2 DEF Worth
<1>6. ASSUME NEW k \in Known PROVE KeyTold(k)'
  <2>1. Told(k)' = Told(k)
    BY <1>2, <1>3 DEF Told
  <2>2. d = "keyb" => e \notin DOMAIN SharedValue(k)
    <3>1. Shared(k) \subseteq DOMAIN ev_to_doom \cup {Shift}
      BY DEF Shared, Known
    <3> QED BY <1>3, <3>1, SharedEvents
  <2> QED BY <1>3, <2>1, <2>2, KeyToldStep
<1>7. RingRoom' /\ (~dropped => MouseRoom')
  <2>1. Pending' \in {0, 1} /\ Pending' = Pending /\ Pending \in {0, 1}
    BY <1>2 DEF Pending, ToReport
  <2> QED BY <1>3, <2>1, RoomStep
<1>8. delta_x' + SumOf(Posted', MouseMotion) = (delta_x + SumOf(Posted, MouseMotion))
                                               + (IF d = "mouse" THEN Worth(e, MouseMotion) ELSE 0)
  BY <1>2, <1>3, <1>5
<1> QED BY <1>2, <1>3, <1>4, <1>6, <1>7, <1>8, CheckedIInv

\* A motion: what was there of the sum has been reported, because a SYN came
\* between two of them.
LEMMA MotionIInv ==
  ASSUME InputIInv, CheckEvent("mouse"), NEW e, e = Head(evdev["mouse"]), Motion(e), e.type = "REL"
  PROVE  InputIInv'
<1> DEFINE d == "mouse"
<1>1. d \in Devices /\ d # "keyb"
  BY DeviceFacts
<1>2. /\ delta_x' = IF e.code = X THEN e.value ELSE delta_x
      /\ delta_y' = IF e.code = Y THEN e.value ELSE delta_y
      /\ UNCHANGED <<mouse_bits, old_mouse_bits, shiftdown, events, eventhead>>
  BY DEF Motion
<1>3. /\ RingOK(PostedEvents)' /\ Posted' = Posted /\ Occupied' = Occupied
      /\ ~dropped => LastIs(Posted, MouseButton, gamePressed, old_mouse_bits)
      /\ delta_x \in Motions \cup {0} /\ delta_y \in Motions \cup {0} /\ shiftdown \in BOOLEAN
      /\ mouse_bits \in {0, 1} /\ old_mouse_bits \in {0, 1} /\ gameHeld' = gameHeld
      /\ SumOf(Posted, MouseMotion) \in Int /\ delta_x \in Int /\ e \in EventsOf(d)
  BY <1>1, <1>2, QuietRest
<1>4. /\ e \notin DOMAIN KeyValue(Left) /\ e # Syn /\ e.value \in Motions
      /\ e.code = X => e \in MotionEvents /\ e \in DOMAIN MouseMotion /\ MouseMotion[e] = e.value
      /\ e.code # X => e \notin DOMAIN MouseMotion
  <2>1. e \in [type : {"REL", "ABS"}, code : {X, Y}, value : Motions]
    BY <1>3 DEF EventsOf, Clicks, Syn, Ev
  <2> QED BY <2>1 DEF KeyValue, KeyEvents, Syn, Ev, MouseMotion, MouseEvents, MotionEvents
<1>5. /\ e.code = X => Worth(e, MouseMotion) = e.value
      /\ e.code # X => Worth(e, MouseMotion) = 0
  BY <1>4 DEF Worth
<1>6. ASSUME NEW k \in Known PROVE KeyTold(k)'
  <2>1. Told(k)' = Told(k)
    BY <1>2, <1>3 DEF Told
  <2> QED BY <1>1, <1>3, <2>1, KeyToldStep
<1>7. RingRoom' /\ (~dropped => MouseRoom')
  <2>1. Pending' \in {0, 1}
    BY DEF Pending
  <2> QED BY <1>1, <1>3, <2>1, RoomStep
<1>8. ASSUME ~dropped
      PROVE  delta_x' + SumOf(Posted', MouseMotion) = (delta_x + SumOf(Posted, MouseMotion)) + Worth(e, MouseMotion)
  <2>1. CASE e.code = X
    <3>1. delta_x = 0
      <4>1. delta_x # 0 => SynFirst(evdev["mouse"], Marked("mouse"))
        BY <1>8 DEF InputIInv, MouseWay
      <4>2. e \in Marked("mouse") /\ Syn \notin Marked("mouse")
        BY <1>4, <2>1, EventFacts, DeviceFacts DEF Marked
      <4> DEFINE v == evdev["mouse"]
                 M == Marked("mouse")
      <4>3. v \in Seq(EventsOf("mouse")) /\ v # <<>>
        BY <1>1, WayIs, Checked DEF InputIInv
      <4> HIDE DEF v, M
      <4>4. SynFirst(v, M) => Head(v) \notin M
        BY <4>2, <4>3, TailFlows DEF M
      <4> QED BY <4>1, <4>2, <4>4 DEF v, M
    <3>2. delta_x' = e.value /\ e.value \in Int
      BY <1>2, <1>4, <2>1, InputConstants
    <3> QED BY <1>3, <1>5, <2>1, <3>1, <3>2
  <2>2. CASE e.code # X
    BY <1>2, <1>3, <1>5, <2>2
  <2> QED BY <2>1, <2>2
<1>9. /\ delta_x' \in Motions \cup {0} /\ delta_y' \in Motions \cup {0}
      /\ delta_x' # 0 => (delta_x' = delta_x /\ e # Syn) \/ e \in MotionEvents
  BY <1>2, <1>3, <1>4
<1> QED BY <1>1, <1>2, <1>3, <1>4, <1>6, <1>7, <1>8, <1>9, CheckedIInv

\* The key the game takes for shift is told of by its own variable only.
LEMMA ShiftIInv ==
  ASSUME InputIInv, CheckEvent("keyb"), NEW e, e = Head(evdev["keyb"]), ShiftKey(e),
         e \in Presses, e.code = Shift
  PROVE  InputIInv'
<1> DEFINE d == "keyb"
<1>1. d \in Devices /\ d # "mouse"
  BY DeviceFacts
<1>2. /\ shiftdown' = (e.value > 0)
      /\ UNCHANGED <<delta_x, delta_y, mouse_bits, old_mouse_bits, events, eventhead>>
  BY DEF ShiftKey
<1>3. /\ RingOK(PostedEvents)' /\ Posted' = Posted /\ Occupied' = Occupied
      /\ ~dropped => LastIs(Posted, MouseButton, gamePressed, old_mouse_bits)
      /\ delta_x \in Motions \cup {0} /\ delta_y \in Motions \cup {0} /\ shiftdown \in BOOLEAN
      /\ mouse_bits \in {0, 1} /\ old_mouse_bits \in {0, 1} /\ gameHeld' = gameHeld
      /\ SumOf(Posted, MouseMotion) \in Int /\ delta_x \in Int
      /\ gameHeld \subseteq GameKeys /\ e \in EventsOf(d)
  BY <1>1, <1>2, QuietRest
<1>4. e.value \in {0, 1} /\ e.type = "KEY"
  BY DEF Presses
<1>5. ASSUME NEW k \in Known PROVE KeyTold(k)'
  <2>1. CASE k = Shift
    <3>0. Shift \notin DOMAIN ev_to_doom /\ Shared(k) = {Shift}
      BY <2>1, InputConstants DEF Shared
    <3>1. e \in DOMAIN SharedValue(k) /\ SharedValue(k)[e] = e.value
      BY <1>3, <1>4, <3>0, SharedEvents
    <3>2. Told(k)' = e.value
      <4>1. shiftdown' <=> e.value = 1
        <5>1. (e.value > 0) <=> (e.value = 1)
          BY <1>4
        <5>2. shiftdown' <=> (e.value > 0)
          BY <1>2, Zenon
        <5> QED BY <5>1, <5>2
      <4> QED BY <1>4, <2>1, <3>0, <4>1 DEF Told
    <3>3. \A i \in DOMAIN Posted : Posted[i] \notin DOMAIN SharedValue(k)
      <4>1. Posted \in Seq(PostedEvents)
        BY PostedIs DEF InputIInv
      <4>2. ASSUME NEW x \in PostedEvents PROVE x \notin DOMAIN SharedValue(k)
        <5>1. KeyPosts(k) = {}
          BY <2>1, <3>0 DEF KeyPosts
        <5>2. x.type # "KEY"
          BY DEF PostedEvents, MouseEvents, NoEvent, Ev
        <5> QED BY <5>1, <5>2 DEF SharedValue, KeyEvents
      <4>3. \A i \in DOMAIN Posted : Posted[i] \in PostedEvents
        BY <4>1, ElementOfSeq, LenProperties
      <4> QED BY <4>2, <4>3
    <3>4. LastIs(Posted, SharedValue(k), e.value, e.value)
      BY <3>3, LastNone
    <3> QED BY <1>1, <1>3, <3>1, <3>2, <3>4, KeyToldStep
  <2>2. CASE k # Shift
    <3>1. e \notin DOMAIN SharedValue(k)
      <4>1. Shift \notin Shared(k)
        BY <2>2, InputConstants DEF Shared
      <4> QED BY <1>3, <4>1, SharedEvents
    <3>2. Told(k)' = Told(k)
      BY <1>3, <2>2 DEF Told
    <3> QED BY <1>1, <1>3, <3>1, <3>2, KeyToldStep
  <2> QED BY <2>1, <2>2
<1>6. RingRoom' /\ (~dropped => MouseRoom')
  <2>1. Pending' \in {0, 1} /\ Pending' = Pending /\ Pending \in {0, 1}
    BY <1>2 DEF Pending, ToReport
  <2> QED BY <1>1, <1>3, <2>1, RoomStep
<1>7. delta_x' + SumOf(Posted', MouseMotion) = (delta_x + SumOf(Posted, MouseMotion)) + 0
  BY <1>2, <1>3
<1>8. shiftdown' \in BOOLEAN
  BY <1>2
<1> QED BY <1>1, <1>2, <1>3, <1>5, <1>6, <1>7, <1>8, CheckedIInv

\* What is posted for a key, and for the mouse.
KeyPost(e) == Ev(IF e.value = 0 THEN "keyup" ELSE "keydown", ev_to_doom[e.code], e.value)

\* What these events say, and of which key.
LEMMA PostsAre ==
  /\ \A e \in Presses : e.code \in DOMAIN ev_to_doom =>
       /\ KeyPost(e) \in PostedEvents
       /\ KeyPost(e) \notin DOMAIN MouseButton /\ KeyPost(e) \notin DOMAIN MouseMotion
       /\ \A k : KeyPost(e) \in DOMAIN SharedValue(k) <=> e.code \in Shared(k) /\ k \in DOMAIN ev_to_doom
       /\ \A k : KeyPost(e) \in DOMAIN SharedValue(k) => SharedValue(k)[KeyPost(e)] = e.value
  /\ \A b \in {0, 1}, x \in Motions \cup {0} :
       LET m == Ev("mouse", b, x)
       IN  /\ m \in PostedEvents /\ m.type = "mouse"
           /\ m \in DOMAIN MouseButton /\ MouseButton[m] = b
           /\ m \in DOMAIN MouseMotion /\ MouseMotion[m] = x
           /\ \A k : m \notin DOMAIN SharedValue(k)
<1>1. ASSUME NEW e \in Presses, e.code \in DOMAIN ev_to_doom
      PROVE  /\ KeyPost(e) \in PostedEvents
             /\ KeyPost(e) \notin DOMAIN MouseButton /\ KeyPost(e) \notin DOMAIN MouseMotion
             /\ \A k : KeyPost(e) \in DOMAIN SharedValue(k) <=> e.code \in Shared(k) /\ k \in DOMAIN ev_to_doom
             /\ \A k : KeyPost(e) \in DOMAIN SharedValue(k) => SharedValue(k)[KeyPost(e)] = e.value
  <2> DEFINE c == ev_to_doom[e.code]
             m == KeyPost(e)
  <2>1. c \in GameKeys /\ e.value \in {0, 1}
    BY <1>1 DEF Presses, GameKeys
  <2>2. /\ m.type \in {"keydown", "keyup"} /\ m.code = c /\ m.value = e.value
        /\ m \in PostedEvents /\ m \in [type : {"keydown", "keyup"}, code : {c}, value : {0, 1}]
    <3> HIDE DEF c
    <3>1. CASE e.value = 0
      <4>1. m = [type |-> "keyup", code |-> c, value |-> 0]
        BY <3>1 DEF KeyPost, Ev, c
      <4> HIDE DEF m
      <4> QED BY <2>1, <3>1, <4>1 DEF PostedEvents
    <3>2. CASE e.value = 1
      <4>1. m = [type |-> "keydown", code |-> c, value |-> 1]
        BY <3>2 DEF KeyPost, Ev, c
      <4> HIDE DEF m
      <4> QED BY <2>1, <3>2, <4>1 DEF PostedEvents
    <3> QED BY <2>1, <3>1, <3>2
  <2> HIDE DEF m
  <2>3. m \notin DOMAIN MouseButton /\ m \notin DOMAIN MouseMotion
    BY <2>2 DEF MouseButton, MouseMotion, MouseEvents, MotionEvents
  <2>4. ASSUME NEW k PROVE m \in DOMAIN SharedValue(k) <=> e.code \in Shared(k) /\ k \in DOMAIN ev_to_doom
    <3>1. \A K : m \notin KeyEvents(K)
      BY <2>2 DEF KeyEvents
    <3>2. m \in KeyPosts(k) <=> k \in DOMAIN ev_to_doom /\ ev_to_doom[k] = c
      <4> HIDE DEF c
      <4> QED BY <2>2 DEF KeyPosts
    <3>3. k \in DOMAIN ev_to_doom => (ev_to_doom[k] = c <=> e.code \in Shared(k))
      BY <1>1 DEF Shared
    <3> HIDE DEF c
    <3> QED BY <3>1, <3>2, <3>3 DEF SharedValue
  <2>5. \A k : m \in DOMAIN SharedValue(k) => SharedValue(k)[m] = e.value
    <3> HIDE DEF c
    <3> QED BY <2>2 DEF SharedValue
  <2> QED BY <2>2, <2>3, <2>4, <2>5 DEF m
<1>2. ASSUME NEW b \in {0, 1}, NEW x \in Motions \cup {0}, NEW m, m = Ev("mouse", b, x)
      PROVE  /\ m \in PostedEvents /\ m.type = "mouse"
             /\ m \in DOMAIN MouseButton /\ MouseButton[m] = b
             /\ m \in DOMAIN MouseMotion /\ MouseMotion[m] = x
             /\ \A k : m \notin DOMAIN SharedValue(k)
  <2>1. m \in MouseEvents /\ m.type = "mouse" /\ m.code = b /\ m.value = x
    BY <1>2 DEF Ev, MouseEvents
  <2>2. \A k : m \notin DOMAIN SharedValue(k)
    BY <2>1 DEF SharedValue, KeyEvents, KeyPosts
  <2> QED BY <2>1, <2>2 DEF PostedEvents, MouseButton, MouseMotion
<1> QED BY <1>1, <1>2

\* The other keys: each press or release goes to the ring, which has room.
LEMMA OtherKeyIInv ==
  ASSUME InputIInv, CheckEvent("keyb"), NEW e, e = Head(evdev["keyb"]), OtherKey(e),
         e \in Presses, e.code \in DOMAIN ev_to_doom
  PROVE  InputIInv'
<1> DEFINE d == "keyb"
           m == KeyPost(e)
           o == Posted
<1>1. d \in Devices /\ d # "mouse"
  BY DeviceFacts
<1>2. DPostEvent(m) /\ UNCHANGED <<delta_x, delta_y, mouse_bits, old_mouse_bits, shiftdown>>
  BY DEF OtherKey, input, KeyPost
<1>3. InputTypeOK /\ ReadAhead /\ RingRoom /\ MouseWay
  BY DEF InputIInv
<1>4. turn = d /\ left \in Nat /\ left > 0 /\ eventtail' = eventtail /\ gameHeld' = gameHeld
  BY <1>1, <1>3, Checked
<1>5. /\ m \in PostedEvents /\ m \notin DOMAIN MouseButton /\ m \notin DOMAIN MouseMotion
      /\ \A k : m \in DOMAIN SharedValue(k) <=> e.code \in Shared(k) /\ k \in DOMAIN ev_to_doom
      /\ \A k : m \in DOMAIN SharedValue(k) => SharedValue(k)[m] = e.value
  BY PostsAre
<1>6. Occupied \in Nat /\ Pending \in {0, 1} /\ Batch \in Nat
  BY <1>3, RingNumbers
<1>7. Occupied <= Batch
  BY <1>3, <1>4, <1>6 DEF RingRoom
<1>8. o \in Seq(PostedEvents) /\ SumOf(o, MouseMotion) \in Int /\ delta_x \in Int
  BY <1>3, PostedIs, SumsInt
<1> HIDE DEF m
<1>9. RingOK(PostedEvents)' /\ Posted' = Append(o, m) /\ Occupied' = Occupied + 1
  <2>1. /\ RingOK(PostedEvents)'
        /\ \/ Occupied <= Batch /\ Posted' = Append(Posted, m) /\ Occupied' = Occupied + 1
           \/ Occupied > Batch /\ Posted' = Posted /\ Occupied' = Occupied
    BY <1>2, <1>3, <1>4, <1>5, <1>7, Posting
  <2> QED BY <1>6, <1>7, <2>1
<1> HIDE DEF o
<1>10. ASSUME NEW k \in Known PROVE KeyTold(k)'
  <2>1. Told(k)' = Told(k)
    BY <1>2, <1>4 DEF Told
  <2>2. e \in DOMAIN SharedValue(k) <=> e.code \in Shared(k) /\ k \in DOMAIN ev_to_doom
    <3>1. e.type = "KEY" /\ e \in EventsOf(d)
      BY DEF Presses, EventsOf
    <3>2. e.code \in Shared(k) => k \in DOMAIN ev_to_doom
      BY DEF Shared
    <3> QED BY <3>1, <3>2, SharedEvents
  <2>3. e \in DOMAIN SharedValue(k) => SharedValue(k)[e] = e.value
    <3>1. e \in EventsOf(d)
      BY DEF EventsOf
    <3> QED BY <3>1, SharedEvents
  <2>4. ASSUME NEW g, LastIs(o, SharedValue(k), Told(k), g)
        PROVE  LastIs(Append(o, m), SharedValue(k), Told(k), IF m \in DOMAIN SharedValue(k) THEN SharedValue(k)[m] ELSE g)
    BY <1>5, <1>8, <2>4, LastAppend
  <2>5. ASSUME NEW g, LastIs(Posted, SharedValue(k), Told(k), g)
        PROVE  LastIs(Posted', SharedValue(k), Told(k)',
                      IF d = "keyb" /\ e \in DOMAIN SharedValue(k) THEN SharedValue(k)[e] ELSE g)
    <3>1. LastIs(Append(o, m), SharedValue(k), Told(k), IF m \in DOMAIN SharedValue(k) THEN SharedValue(k)[m] ELSE g)
      BY <2>4, <2>5 DEF o
    <3>2. (IF m \in DOMAIN SharedValue(k) THEN SharedValue(k)[m] ELSE g)
          = (IF d = "keyb" /\ e \in DOMAIN SharedValue(k) THEN SharedValue(k)[e] ELSE g)
      BY <1>5, <2>2, <2>3
    <3> QED BY <1>9, <2>1, <3>1, <3>2
  <2> QED BY <1>1, <2>5, KeyToldStep
<1>11. RingRoom' /\ (~dropped => MouseRoom')
  <2>1. Pending' \in {0, 1} /\ Pending' = Pending
    BY <1>2 DEF Pending, ToReport
  <2>2. Head(evdev["keyb"]) \in Marked("keyb")
    BY DEF Marked
  <2> QED BY <1>1, <1>9, <2>1, <2>2, RoomStep
<1>12. delta_x' + SumOf(Posted', MouseMotion) = (delta_x + SumOf(Posted, MouseMotion)) + 0
  <2>1. SumOf(Append(o, m), MouseMotion) = SumOf(o, MouseMotion) + Worth(m, MouseMotion)
    BY <1>5, <1>8, SumAppend, MotionInt
  <2>2. Worth(m, MouseMotion) = 0
    BY <1>5 DEF Worth
  <2> QED BY <1>2, <1>8, <1>9, <2>1, <2>2 DEF o
<1>13. ~dropped => LastIs(Posted', MouseButton, gamePressed, old_mouse_bits')
  <2>1. ASSUME ~dropped PROVE LastIs(Posted', MouseButton, gamePressed, old_mouse_bits')
    <3>1. LastIs(o, MouseButton, gamePressed, old_mouse_bits)
      BY <1>3, <2>1 DEF MouseWay, o
    <3>2. LastIs(Append(o, m), MouseButton, gamePressed, IF m \in DOMAIN MouseButton THEN MouseButton[m]
                                                         ELSE old_mouse_bits)
      BY <1>5, <1>8, <3>1, LastAppend
    <3> QED BY <1>2, <1>5, <1>9, <3>2
  <2> QED BY <2>1
<1>14. /\ delta_x' \in Motions \cup {0} /\ delta_y' \in Motions \cup {0}
       /\ mouse_bits' \in {0, 1} /\ old_mouse_bits' \in {0, 1} /\ shiftdown' \in BOOLEAN
  BY <1>2, <1>3 DEF InputTypeOK
<1> QED BY <1>1, <1>2, <1>9, <1>10, <1>11, <1>12, <1>13, <1>14, CheckedIInv

\* A SYN of either file: what there is of the mouse goes to the ring.
LEMMA ReportIInv ==
  ASSUME InputIInv, NEW d \in Devices, CheckEvent(d), NEW e, e = Head(evdev[d]), Report(e), e = Syn
  PROVE  InputIInv'
<1> DEFINE m == Ev("mouse", mouse_bits, delta_x)
           o == Posted
<1>1. InputTypeOK /\ ReadAhead /\ RingRoom /\ MouseWay
  BY DEF InputIInv
<1>2. /\ turn = d /\ left \in Nat /\ left > 0 /\ eventtail' = eventtail /\ gameHeld' = gameHeld
      /\ mouse_bits' = mouse_bits /\ shiftdown' = shiftdown
  BY <1>1, Checked DEF Report
<1>3. delta_x \in Motions \cup {0} /\ delta_y \in Motions \cup {0} /\ shiftdown \in BOOLEAN
      /\ mouse_bits \in {0, 1} /\ old_mouse_bits \in {0, 1}
  BY <1>1 DEF InputTypeOK
<1>4. /\ \A k : e \notin DOMAIN SharedValue(k)
      /\ e \notin DOMAIN KeyValue(Left) /\ e \notin DOMAIN MouseMotion
  BY EventFacts
<1>5. Worth(e, MouseMotion) = 0
  BY <1>4 DEF Worth
<1>6. \A k : Told(k)' = Told(k)
  BY <1>2 DEF Told
<1>7. o \in Seq(PostedEvents) /\ SumOf(o, MouseMotion) \in Int /\ delta_x \in Int
  BY <1>1, PostedIs, SumsInt
<1>8. Occupied \in Nat /\ Pending \in {0, 1} /\ Batch \in Nat /\ Batch >= 2
  BY <1>1, RingNumbers
<1>9. CASE ~ToReport
  <2>1. UNCHANGED <<delta_x, delta_y, old_mouse_bits, events, eventhead>> /\ delta_x = 0
    BY <1>9 DEF Report, ToReport
  <2>2. /\ RingOK(PostedEvents)' /\ Posted' = Posted /\ Occupied' = Occupied
        /\ ~dropped => LastIs(Posted, MouseButton, gamePressed, old_mouse_bits)
    BY <2>1, QuietRest
  <2>3. ASSUME NEW k \in Known PROVE KeyTold(k)'
    BY <1>4, <1>6, <2>2, KeyToldStep
  <2>4. Pending' \in {0, 1} /\ Pending' = Pending
    BY <1>2, <2>1 DEF Pending, ToReport
  <2>5. RingRoom' /\ (~dropped => MouseRoom')
    BY <1>8, <2>2, <2>4, RoomStep
  <2>6. delta_x' + SumOf(Posted', MouseMotion) = (delta_x + SumOf(Posted, MouseMotion))
                                                 + (IF d = "mouse" THEN Worth(e, MouseMotion) ELSE 0)
    BY <1>5, <1>7, <2>1, <2>2
  <2> QED BY <1>2, <1>3, <1>4, <2>1, <2>2, <2>3, <2>5, <2>6, CheckedIInv
<1>10. CASE ToReport
  <2>1. DPostEvent(m) /\ delta_x' = 0 /\ delta_y' = 0 /\ old_mouse_bits' = mouse_bits
    BY <1>10 DEF Report
  <2>2. /\ m \in PostedEvents /\ m.type = "mouse"
        /\ m \in DOMAIN MouseButton /\ MouseButton[m] = mouse_bits
        /\ m \in DOMAIN MouseMotion /\ MouseMotion[m] = delta_x
        /\ \A k : m \notin DOMAIN SharedValue(k)
    BY <1>3, PostsAre
  <2> HIDE DEF m
  <2>3. /\ RingOK(PostedEvents)'
        /\ \/ Occupied <= Batch /\ Posted' = Append(o, m) /\ Occupied' = Occupied + 1
           \/ Occupied > Batch /\ Posted' = o /\ Occupied' = Occupied
    BY <1>1, <1>2, <2>1, <2>2, Posting
  <2>4. Pending = 1 /\ Pending' = 0
    BY <1>2, <1>10, <2>1 DEF Pending, ToReport
  <2>5. ~dropped => Occupied <= Batch
    <3>1. ASSUME ~dropped PROVE Occupied <= Batch
      <4>1. MouseRoom
        BY <1>1, <3>1 DEF MouseWay
      <4> DEFINE w == Occupied
                 l == left
      <4>2. (2 * (w + 1) + l <= Batch + 3) \/ ((2 * w + 1) + l <= 2 * Batch + 3)
        <5>1. CASE d = "keyb"
          BY <1>2, <1>8, <2>4, <4>1, <5>1 DEF MouseRoom
        <5>2. CASE d = "mouse"
          BY <1>2, <1>8, <2>4, <4>1, <5>2 DEF MouseRoom
        <5> QED BY <5>1, <5>2, DeviceFacts
      <4>3. w \in Nat /\ l \in Nat /\ l > 0
        BY <1>2, <1>8
      <4> HIDE DEF w, l
      <4>4. w <= Batch
        BY <1>8, <4>2, <4>3
      <4> QED BY <4>4 DEF w
    <3> QED BY <3>1
  <2> HIDE DEF o
  <2>6. ASSUME NEW k \in Known PROVE KeyTold(k)'
    <3>1. ASSUME NEW g, LastIs(o, SharedValue(k), Told(k), g)
          PROVE  LastIs(Append(o, m), SharedValue(k), Told(k), g)
      <4>1. LastIs(Append(o, m), SharedValue(k), Told(k), IF m \in DOMAIN SharedValue(k) THEN SharedValue(k)[m] ELSE g)
        BY <1>7, <2>2, <3>1, LastAppend
      <4> QED BY <2>2, <4>1
    <3>2. ASSUME NEW g, LastIs(Posted, SharedValue(k), Told(k), g)
          PROVE  LastIs(Posted', SharedValue(k), Told(k)',
                        IF d = "keyb" /\ e \in DOMAIN SharedValue(k) THEN SharedValue(k)[e] ELSE g)
      <4>1. LastIs(o, SharedValue(k), Told(k), g)
        BY <3>2 DEF o
      <4> QED BY <1>4, <1>6, <2>3, <3>1, <4>1
    <3> QED BY <3>2, KeyToldStep
  <2>7. RingRoom' /\ (~dropped => MouseRoom')
    BY <1>8, <2>3, <2>4, RoomStep
  <2>8. ASSUME ~dropped
        PROVE  /\ delta_x' + SumOf(Posted', MouseMotion) = (delta_x + SumOf(Posted, MouseMotion))
                                                 + (IF d = "mouse" THEN Worth(e, MouseMotion) ELSE 0)
               /\ LastIs(Posted', MouseButton, gamePressed, old_mouse_bits')
    <3>1. Posted' = Append(o, m)
      BY <1>8, <2>3, <2>5, <2>8
    <3>2. SumOf(Append(o, m), MouseMotion) = SumOf(o, MouseMotion) + Worth(m, MouseMotion)
      BY <1>7, <2>2, SumAppend, MotionInt
    <3>3. Worth(m, MouseMotion) = delta_x
      BY <2>2 DEF Worth
    <3>4. LastIs(o, MouseButton, gamePressed, old_mouse_bits)
      BY <1>1, <2>8 DEF MouseWay, o
    <3>5. LastIs(Append(o, m), MouseButton, gamePressed, IF m \in DOMAIN MouseButton THEN MouseButton[m]
                                                         ELSE old_mouse_bits)
      BY <1>7, <2>2, <3>4, LastAppend
    <3>6. LastIs(Posted', MouseButton, gamePressed, old_mouse_bits')
      BY <2>1, <2>2, <3>1, <3>5
    <3>7. delta_x' + SumOf(Posted', MouseMotion) = (delta_x + SumOf(Posted, MouseMotion)) + 0
      BY <1>7, <2>1, <3>1, <3>2, <3>3 DEF o
    <3> QED BY <1>5, <3>6, <3>7
  <2>9. delta_x' \in Motions \cup {0} /\ delta_y' \in Motions \cup {0} /\ old_mouse_bits' \in {0, 1}
        /\ mouse_bits' \in {0, 1} /\ shiftdown' \in BOOLEAN
    BY <1>2, <1>3, <2>1
  <2> QED BY <1>2, <1>4, <2>1, <2>3, <2>6, <2>7, <2>8, <2>9, CheckedIInv
<1> QED BY <1>9, <1>10

-----------------------------------------------------------------------------
(* The loop of the game, and the theorems.                                 *)

\* One turn of the loop of check_for_events.
LEMMA CheckEventIInv ==
  ASSUME InputIInv, NEW d \in Devices, CheckEvent(d)
  PROVE  InputIInv'
<1> DEFINE e == Head(evdev[d])
<1>1. InputTypeOK /\ ReadAhead
  BY DEF InputIInv
<1>2. e \in EventsOf(d)
  BY <1>1, Checked
<1>3. Button(e) \/ ShiftKey(e) \/ OtherKey(e) \/ Motion(e) \/ Report(e) \/ NoCase(e)
  BY DEF CheckEvent
<1> HIDE DEF e
<1>4. e = Head(evdev[d])
  BY DEF e
<1>5. CASE d = "keyb" /\ ShiftKey(e) /\ e \in Presses /\ e.code = Shift
  BY <1>4, <1>5, ShiftIInv
<1>6. CASE d = "keyb" /\ OtherKey(e) /\ e \in Presses /\ e.code \in DOMAIN ev_to_doom
  BY <1>4, <1>6, OtherKeyIInv
<1>7. CASE Report(e) /\ e = Syn
  BY <1>4, <1>7, ReportIInv
<1>8. CASE d = "mouse" /\ Button(e) /\ e \in KeyEvents({Left})
  BY <1>4, <1>8, ButtonIInv
<1>9. CASE d = "mouse" /\ Motion(e) /\ e.type = "REL"
  BY <1>4, <1>9, MotionIInv
<1>10. CASE d = "mouse" /\ NoCase(e) /\ e \notin KeyEvents({Left}) /\ e.type # "REL" /\ e # Syn
  BY <1>4, <1>10, DeviceFacts, NoCaseIInv
<1>11. CASE d = "keyb" /\ NoCase(e) /\ e \in Presses /\ e.code \notin DOMAIN ev_to_doom \cup {Shift}
  <2>1. e.type = "KEY" /\ e.code \in Keys /\ Left \notin Keys
    BY <1>11, InputConstants DEF Presses, Left, Btn
  <2>2. e \notin KeyEvents({Left}) /\ e.type # "REL" /\ e # Syn
    BY <2>1 DEF KeyEvents, Syn, Ev
  <2> QED BY <1>4, <1>11, <2>2, NoCaseIInv
<1> QED BY <1>1, <1>2, <1>3, <1>5, <1>6, <1>7, <1>8, <1>9, <1>10, <1>11, CasesOf

\* The game's loop takes an event from the ring.
LEMMA DPopEventIInv ==
  ASSUME InputIInv, DPopEvent
  PROVE  InputIInv'
<1> DEFINE e == events[eventtail]
           o == Posted
<1>1. InputTypeOK /\ ReadAhead /\ RingRoom /\ KeysWay /\ ButtonRead /\ MouseWay
  BY DEF InputIInv
<1>2. /\ turn = "loop" /\ eventtail # eventhead /\ eventtail' = (eventtail + 1) % MaxEvents
      /\ gameHeld' = CASE e.type = "keydown" -> gameHeld \cup {e.code}
                       [] e.type = "keyup" -> gameHeld \ {e.code}
                       [] OTHER -> gameHeld
      /\ gamePressed' = (IF e.type = "mouse" THEN e.code ELSE gamePressed)
      /\ gameMoved' = (IF e.type = "mouse" THEN gameMoved + e.value ELSE gameMoved)
      /\ UNCHANGED <<relative_mode, virtio_queue_size, used, packet, down, evdev, turn, left,
                     delta_x, delta_y, mouse_bits, old_mouse_bits, shiftdown, events, eventhead,
                     held, pressed, moved, inputs, whole, dropped, asked>>
  BY DEF DPopEvent, queues, kernel, input, host
<1>3. RingOK(PostedEvents) /\ o \in Seq(PostedEvents)
  BY <1>1, PostedIs DEF InputTypeOK
<1>4. /\ RingOK(PostedEvents)' /\ o # <<>> /\ Head(o) = e /\ Posted' = Tail(o)
      /\ Occupied' = Occupied - 1 /\ Occupied > 0
  BY <1>2, <1>3, PostedTail
<1>5. e \in PostedEvents
  BY <1>3 DEF RingOK
<1>6. gameMoved \in Int /\ delta_x \in Int /\ SumOf(o, MouseMotion) \in Int
  BY <1>1, SumsInt
<1> HIDE DEF e, o
<1>7. \/ /\ e \in [type : {"keydown"}, code : GameKeys, value : {1}]
         /\ gameHeld' = gameHeld \cup {e.code} /\ gamePressed' = gamePressed /\ gameMoved' = gameMoved
      \/ /\ e \in [type : {"keyup"}, code : GameKeys, value : {0}]
         /\ gameHeld' = gameHeld \ {e.code} /\ gamePressed' = gamePressed /\ gameMoved' = gameMoved
      \/ /\ e \in MouseEvents
         /\ gameHeld' = gameHeld /\ gamePressed' = e.code /\ gameMoved' = gameMoved + e.value
      \/ /\ e = NoEvent
         /\ gameHeld' = gameHeld /\ gamePressed' = gamePressed /\ gameMoved' = gameMoved
  <2>1. CASE e \in [type : {"keydown"}, code : GameKeys, value : {1}]
    BY <1>2, <2>1
  <2>2. CASE e \in [type : {"keyup"}, code : GameKeys, value : {0}]
    BY <1>2, <2>2
  <2>3. CASE e \in MouseEvents
    BY <1>2, <2>3 DEF MouseEvents
  <2>4. CASE e = NoEvent
    BY <1>2, <2>4 DEF NoEvent, Ev
  <2> QED BY <1>5, <2>1, <2>2, <2>3, <2>4 DEF PostedEvents
<1>8. Occupied \in Nat /\ Batch \in Nat
  BY <1>1, RingNumbers
<1>9. /\ gameHeld' \subseteq GameKeys /\ gamePressed' \in {0, 1} /\ gameMoved' \in Int
      /\ gameMoved' = gameMoved + Worth(e, MouseMotion) /\ Worth(e, MouseMotion) \in Int
      /\ gamePressed' = (IF e \in DOMAIN MouseButton THEN MouseButton[e] ELSE gamePressed)
  <2>0. gameHeld \subseteq GameKeys /\ gamePressed \in {0, 1} /\ Motions \subseteq Int /\ 0 \in Int
    BY <1>1, InputConstants DEF InputTypeOK
  <2>1. CASE e \in MouseEvents
    <3>1. e \in DOMAIN MouseMotion /\ MouseMotion[e] = e.value /\ e \in DOMAIN MouseButton /\ MouseButton[e] = e.code
      BY <2>1 DEF MouseMotion, MouseButton
    <3>2. e.value \in Int /\ e.code \in {0, 1} /\ e.type = "mouse"
      BY <2>0, <2>1 DEF MouseEvents
    <3>3. gameHeld' = gameHeld /\ gamePressed' = e.code /\ gameMoved' = gameMoved + e.value
      BY <1>7, <3>2 DEF NoEvent, Ev
    <3>4. Worth(e, MouseMotion) = e.value
      BY <3>1 DEF Worth
    <3> QED BY <1>6, <2>0, <3>1, <3>2, <3>3, <3>4
  <2>2. CASE e \notin MouseEvents
    <3>1. e \notin DOMAIN MouseMotion /\ e \notin DOMAIN MouseButton
      BY <1>5, <2>2 DEF MouseMotion, MouseButton, MotionEvents, PostedEvents, NoEvent, Ev
    <3>2. Worth(e, MouseMotion) = 0
      BY <3>1 DEF Worth
    <3> QED BY <1>6, <1>7, <2>0, <2>2, <3>1, <3>2
  <2> QED BY <2>1, <2>2
<1>10. InputTypeOK'
  BY <1>1, <1>2, <1>4, <1>9 DEF InputTypeOK
<1>11. ReadAhead' /\ RingRoom' /\ MouseRoom'
  BY <1>1, <1>2, <1>4, <1>8, DeviceFacts DEF ReadAhead, RingRoom, MouseRoom
<1>12. ASSUME NEW k \in Known PROVE KeyTold(k)'
  <2> DEFINE f == SharedValue(k)
  <2>1. PICK n : KernelTold(k, n) /\ AskedLast(k, n)
    BY <1>1 DEF KeysWay, KeyTold
  <2>2. PICK g : LastIs(o, f, Told(k), g) /\ LastIs(Way("keyb"), f, g, n)
    BY <2>1 DEF KernelTold, Way, o
  <2>3. e \in DOMAIN f <=> e.type \in {"keydown", "keyup"} /\ k \in DOMAIN ev_to_doom /\ e.code = ev_to_doom[k]
    <3>1. e.type # "KEY"
      BY <1>5 DEF PostedEvents, MouseEvents, NoEvent, Ev
    <3>2. e.type \in {"keydown", "keyup"} => e \in [type : {"keydown", "keyup"}, code : GameKeys, value : {0, 1}]
      BY <1>5 DEF PostedEvents, MouseEvents, NoEvent, Ev
    <3>3. e \in KeyPosts(k) <=> e.type \in {"keydown", "keyup"} /\ k \in DOMAIN ev_to_doom /\ e.code = ev_to_doom[k]
      BY <3>2 DEF KeyPosts
    <3>4. e \notin KeyEvents(Shared(k))
      BY <3>1 DEF KeyEvents
    <3> QED BY <3>3, <3>4 DEF SharedValue
  <2>4. e \in DOMAIN f => f[e] = e.value
    BY DEF SharedValue
  <2>5. Told(k)' = IF e \in DOMAIN f THEN f[e] ELSE Told(k)
    <3>1. CASE e \in DOMAIN f
      <4>1. k # Shift /\ k \in DOMAIN ev_to_doom /\ e.code = ev_to_doom[k] /\ e.type \in {"keydown", "keyup"}
        BY <2>3, <3>1, InputConstants
      <4>2. \/ e.value = 1 /\ gameHeld' = gameHeld \cup {e.code}
            \/ e.value = 0 /\ gameHeld' = gameHeld \ {e.code}
        BY <1>7, <4>1 DEF MouseEvents, NoEvent, Ev
      <4>3. Told(k)' = e.value
        BY <4>1, <4>2 DEF Told
      <4> QED BY <2>4, <3>1, <4>3
    <3>2. CASE e \notin DOMAIN f
      <4>1. k \in DOMAIN ev_to_doom => (ev_to_doom[k] \in gameHeld' <=> ev_to_doom[k] \in gameHeld)
        BY <1>7, <2>3, <3>2 DEF MouseEvents, NoEvent, Ev
      <4>2. Told(k)' = Told(k)
        BY <1>2, <4>1 DEF Told
      <4> QED BY <3>2, <4>2
    <3> QED BY <3>1, <3>2
  <2> HIDE DEF f
  <2>6. LastIs(Tail(o), f, IF Head(o) \in DOMAIN f THEN f[Head(o)] ELSE Told(k), g)
    BY <1>3, <1>4, <2>2, LastTail
  <2>7. LastIs(Posted', f, Told(k)', g)
    BY <1>4, <2>5, <2>6
  <2>8. Way("keyb")' = Way("keyb")
    BY <1>2 DEF Way
  <2>9. KernelTold(k, n)'
    <3>1. \E j \in Shared(k) : n = DownIn(j, down)
      BY <2>1 DEF KernelTold
    <3>2. LastIs(Way("keyb")', f, g, n)
      BY <2>2, <2>8
    <3> QED BY <1>2, <2>7, <3>1, <3>2 DEF KernelTold, Way, f
  <2>10. AskedLast(k, n)'
    BY <1>2, <2>1 DEF AskedLast
  <2> QED BY <2>9, <2>10 DEF KeyTold
<1>13. KeysWay'
  BY <1>1, <1>2, <1>12 DEF KeysWay, KeyTaken, KeyReported, KeysKept, InputTypeOK
<1>14. ButtonRead'
  BY <1>1, <1>2 DEF ButtonRead
<1>15. ASSUME ~dropped PROVE MouseWay'
  <2>1. /\ \A c \in Devices : Flows(c)
        /\ MotionSum
        /\ delta_x # 0 => SynFirst(evdev["mouse"], Marked("mouse"))
        /\ LastIs(used["mouse"], KeyValue(Left), DownIn(Left, down), pressed)
        /\ LastIs(o, MouseButton, gamePressed, old_mouse_bits)
    BY <1>1, <1>15 DEF MouseWay, o
  <2>2. ASSUME NEW c \in Devices PROVE Flows(c)'
    <3>1. Flows(c)
      BY <2>1
    <3> QED BY <1>2, <3>1 DEF Flows
  <2>3. LastIs(Tail(o), MouseButton, IF Head(o) \in DOMAIN MouseButton THEN MouseButton[Head(o)] ELSE gamePressed,
               old_mouse_bits)
    BY <1>3, <1>4, <2>1, LastTail
  <2>4. LastIs(Posted', MouseButton, gamePressed', old_mouse_bits')
    BY <1>2, <1>4, <1>9, <2>3
  <2>5. /\ SumOf(o, MouseMotion) = Worth(Head(o), MouseMotion) + SumOf(Tail(o), MouseMotion)
        /\ SumOf(Tail(o), MouseMotion) \in Int
    <3>1. Tail(o) \in Seq(PostedEvents)
      BY <1>3, <1>4, HeadTailProperties
    <3>2. SumOf(Tail(o), MouseMotion) \in Int
      BY <3>1, SumConcat, MotionInt
    <3> QED BY <1>3, <1>4, <3>2, SumTail, MotionInt
  <2>6. MotionSum'
    <3> DEFINE a == SumOf(o, MouseMotion)
               b == SumOf(evdev["mouse"] \o packet["mouse"], MouseMotion) + SumOf(used["mouse"], MouseMotion)
               y == SumOf(Tail(o), MouseMotion)
               f == gameMoved'
               g == gameMoved
               h == delta_x
               z == Worth(e, MouseMotion)
    <3>1. moved = (g + h) + (a + b) /\ b \in Int
      BY <1>1, <2>1, SumsInt DEF MotionSum, o
    <3>2. /\ f = g + z /\ a = z + y
          /\ f \in Int /\ g \in Int /\ h \in Int /\ a \in Int /\ y \in Int /\ z \in Int
      BY <1>4, <1>6, <1>9, <2>5
    <3>3. Posted' = Tail(o)
      BY <1>4
    <3> HIDE DEF a, b, y, f, g, h, z
    <3>4. moved = (f + h) + (y + b)
      BY <3>1, <3>2
    <3> USE DEF b, y, f, h
    <3> QED BY <1>2, <3>3, <3>4 DEF MotionSum
  <2> QED BY <1>2, <1>11, <2>1, <2>2, <2>4, <2>6 DEF MouseWay
<1>16. MouseWay'
  <2>1. dropped => MouseWay'
    BY <1>2 DEF MouseWay
  <2> QED BY <1>15, <2>1
<1> QED BY <1>10, <1>11, <1>13, <1>14, <1>16 DEF InputIInv

\* The invariant of the way of the events holds.
THEOREM InputSpecIInv == InputSpec => []InputIInv
<1>1. InputIInv /\ [InputNext]_inputVars => InputIInv'
  <2> SUFFICES ASSUME InputIInv, [InputNext]_inputVars PROVE InputIInv'
    OBVIOUS
  <2>1. ASSUME NEW k \in Keys, HandleKey(k) PROVE InputIInv'
    BY <2>1, HandleKeyIInv
  <2>2. CASE HandleScrollLock
    BY <2>2, HandleScrollLockIInv
  <2>3. ASSUME NEW x \in Motions, NEW y \in Motions, HandleMotion(x, y) PROVE InputIInv'
    BY <2>3, HandleMotionIInv
  <2>4. ASSUME NEW b \in {1, 3, 4}, HandleButton(b) PROVE InputIInv'
    BY <2>4, HandleButtonIInv
  <2>5. ASSUME NEW d \in Devices, TakeUsed(d) PROVE InputIInv'
    BY <2>5, TakeUsedIInv
  <2>6. ASSUME NEW d \in Devices, Read(d) PROVE InputIInv'
    BY <2>6, ReadIInv
  <2>7. ASSUME NEW d \in Devices, CheckEvent(d) PROVE InputIInv'
    BY <2>7, CheckEventIInv
  <2>8. CASE EndOfReads
    BY <2>8, EndOfReadsIInv
  <2>9. CASE DPopEvent
    BY <2>9, DPopEventIInv
  <2>10. CASE UNCHANGED inputVars
    BY <2>10, InputStutter
  <2> QED BY <2>1, <2>2, <2>3, <2>4, <2>5, <2>6, <2>7, <2>8, <2>9, <2>10 DEF InputNext
<1> QED BY <1>1, InputInitIInv, PTL DEF InputSpec

\* KeysFollow: whatever was dropped, once the last press or release of each key that
\* stands for one key of the game (ev_to_doom, a table of many to one) got its buffers
\* (send_event), the game comes to the state of one of these keys, and with nothing
\* dropped to that of the one pressed or released last; the ring, which D_PostEvent
\* does not test for keys, never loses it.
THEOREM KeysFollowHolds == InputSpec => []KeysFollow
BY InputSpecIInv, InputIInvKeys, PTL

\* MouseArrives: while nothing was dropped, the motion the game has been told and the
\* motion under way are together the motion of the host, and the last click is told
\* or under way; D_PostEvent's half full ring throws none of them away.
THEOREM MouseArrivesHolds == InputSpec => []MouseArrives
BY InputSpecIInv, InputIInvMouse, PTL
=============================================================================
