----------------------------- MODULE HartProofs -----------------------------
(* For every size of RAM, every length of a Step and every set of modelled *)
(* interrupt bits: what a trap saves is what MRET restores, and a hart     *)
(* that waits can be woken.                                                *)
EXTENDS Hart, TLAPS

\* What is assumed of the constants, as the facts the steps cite.
LEMMA Constants ==
  /\ RamWords \in Nat /\ RamWords > 0
  /\ Count \in Nat /\ Count > 0
  /\ 7 \in IrqBits /\ 11 \in IrqBits
  /\ \A v \in MieWrites \cup MipWrites : v \subseteq IrqBits
  BY HartAssumption

\* The addresses and causes are the ranges the proofs compute with.
LEMMA Ranges ==
  /\ 0 \in Addr /\ Zero \in Addr /\ Misaligned \in Addr
  /\ \A a \in Addr : a < RamWords => a + 1 \in Addr
  /\ Addr \subseteq Nat
  BY Constants DEF Addr, Zero, Misaligned

\* The chain of tests picks bits that are set.
LEMMA SelectedSubset == \A ints : Selected(ints) \subseteq ints
  BY DEF Selected

\* The mark that no context is put away is a context, and says so.
LEMMA NothingTyped ==
  /\ Nothing \in [pc : Addr, priv : Priv, mie : BOOLEAN, known : BOOLEAN]
  /\ ~Nothing.known
  BY Ranges DEF Nothing, Priv

\* A zeroed state satisfies the inductive invariant.
LEMMA InitIInv == Init => IInv
<1> SUFFICES ASSUME Init PROVE IInv
  OBVIOUS
<1>1. pc \in Addr /\ priv \in Priv /\ mepc \in Addr /\ mtvec \in Addr /\ MPP \in Priv
  BY Ranges DEF Init, Priv, User, Machine
<1>2. /\ wfi \in BOOLEAN /\ MIE \in BOOLEAN /\ MPIE \in BOOLEAN
      /\ running \in BOOLEAN /\ failOnFaults \in BOOLEAN /\ asleep \in BOOLEAN
  BY DEF Init
<1>3. /\ mie \subseteq IrqBits /\ mip \subseteq IrqBits
      /\ waitCauses \subseteq IrqBits
      /\ mcause \in Causes /\ left \in 0 .. Count
  BY Constants DEF Init, Causes
<1>4. /\ saved \in [pc : Addr, priv : Priv, mie : BOOLEAN, known : BOOLEAN]
      /\ SavedContextKept
  BY NothingTyped DEF Init, SavedContextKept
<1>5. RunsAwake /\ WaitsInterruptible /\ NewCauseEndsWait
  BY DEF Init, RunsAwake, WaitsInterruptible, NewCauseEndsWait
<1> QED BY <1>1, <1>2, <1>3, <1>4, <1>5 DEF IInv, TypeOK

\* Entering a trap keeps every type and records the context it saves.
LEMMA TrapFacts ==
  ASSUME TypeOK, NEW cause \in Causes, NEW a \in Addr, TakeTrap(cause, a)
  PROVE  /\ pc' \in Addr /\ priv' \in Priv
         /\ MIE' \in BOOLEAN /\ MPIE' \in BOOLEAN /\ MPP' \in Priv
         /\ mepc' \in Addr /\ mcause' \in Causes /\ left' = 0
         /\ running' \in BOOLEAN
         /\ saved' \in [pc : Addr, priv : Priv, mie : BOOLEAN, known : BOOLEAN]
         /\ SavedContextKept'
  BY DEF TypeOK, TakeTrap, StepOver, Context, SavedContextKept, Priv, Machine

\* The end of an instruction keeps the types of what it moves.
LEMMA GoOnFacts ==
  ASSUME TypeOK, Fetched, NEW a \in Addr, GoOnAt(a)
  PROVE  pc' \in Addr /\ left' \in 0 .. Count /\ running' \in BOOLEAN
  BY Constants DEF TypeOK, Fetched, GoOnAt

\* A device moves its line: the wait may end, the bits stay bits of mip, and a
\* hart that goes on waiting has seen no bit come up.
LEMMA LineFacts ==
  ASSUME TypeOK, RaiseHartIrq \/ ClearHartIrq
  PROVE  /\ wfi' \in BOOLEAN /\ mip' \subseteq IrqBits
         /\ wfi' => wfi /\ mip' \subseteq mip
<1>1. CASE RaiseHartIrq
  BY <1>1, Constants DEF RaiseHartIrq, TypeOK
<1>2. CASE ClearHartIrq
  BY <1>2 DEF ClearHartIrq, TypeOK
<1> QED BY <1>1, <1>2

\* Every step of the hart, the devices and the main loop preserves it.
LEMMA NextIInv == IInv /\ [Next]_vars => IInv'
<1> SUFFICES ASSUME IInv, [Next]_vars PROVE IInv'
  OBVIOUS
<1> USE Constants DEF hostVars
<1>0. TypeOK /\ SavedContextKept /\ RunsAwake /\ WaitsInterruptible /\ NewCauseEndsWait
  BY DEF IInv
<1>n. Fetched => NextPc \in Addr
  BY <1>0, Ranges DEF Fetched, NextPc, TypeOK
<1>1. ASSUME NEW expired \in BOOLEAN, StepBegin(expired) PROVE IInv'
  <2>1. mip' \subseteq IrqBits /\ wfi' \in BOOLEAN /\ (wfi' => wfi /\ mip' \subseteq mip)
    BY <1>0, <1>1 DEF StepBegin, TypeOK
  <2>6. asleep' \in BOOLEAN
    BY <1>0, <1>1 DEF StepBegin, MaySleep, TypeOK
  <2>2. CASE /\ UNCHANGED trapState
             /\ left' \in {0, Count}
             /\ left' > 0 => ~wfi'
    BY <1>0, <1>1, <2>1, <2>2, <2>6
    DEF StepBegin, IInv, TypeOK, SavedContextKept, RunsAwake,
        WaitsInterruptible, NewCauseEndsWait, trapState
  <2>3. CASE ~wfi' /\ \E n \in Selected(mip' \cap mie) : TakeTrap(Interrupt(n), pc)
    <3>1. PICK n \in Selected(mip' \cap mie) : TakeTrap(Interrupt(n), pc)
      BY <2>3
    <3>2. Interrupt(n) \in Causes
      BY <2>1, SelectedSubset DEF Causes
    <3>3. pc \in Addr
      BY <1>0 DEF TypeOK
    <3>4. /\ pc' \in Addr /\ priv' \in Priv
          /\ MIE' \in BOOLEAN /\ MPIE' \in BOOLEAN /\ MPP' \in Priv
          /\ mepc' \in Addr /\ mcause' \in Causes /\ left' = 0
          /\ running' \in BOOLEAN
          /\ saved' \in [pc : Addr, priv : Priv, mie : BOOLEAN, known : BOOLEAN]
          /\ SavedContextKept'
      BY <1>0, <3>1, <3>2, <3>3, TrapFacts
    <3> QED
      BY <1>0, <1>1, <2>1, <2>3, <2>6, <3>4
      DEF StepBegin, IInv, TypeOK, RunsAwake, WaitsInterruptible, NewCauseEndsWait
  <2>4. StillWaits \/ Stalls \/ RunsGuest =>
          UNCHANGED trapState /\ left' \in {0, Count} /\ (left' > 0 => ~wfi')
    BY DEF StillWaits, Stalls, RunsGuest
  <2>5. TakesInterrupt =>
          ~wfi' /\ \E n \in Selected(mip' \cap mie) : TakeTrap(Interrupt(n), pc)
    BY DEF TakesInterrupt
  <2> QED BY <1>1, <2>2, <2>3, <2>4, <2>5 DEF StepBegin
<1>2. CASE DeviceLine
  <2>1. wfi' \in BOOLEAN /\ mip' \subseteq IrqBits /\ (wfi' => wfi /\ mip' \subseteq mip)
    BY <1>0, <1>2, LineFacts DEF DeviceLine
  <2>2. TypeOK'
    BY <1>0, <1>2, <2>1 DEF DeviceLine, TypeOK
  <2>3. SavedContextKept' /\ RunsAwake'
    BY <1>0, <1>2, <2>1 DEF DeviceLine, SavedContextKept, RunsAwake
  <2>4. WaitsInterruptible' /\ NewCauseEndsWait'
    BY <1>0, <1>2, <2>1 DEF DeviceLine, WaitsInterruptible, NewCauseEndsWait
  <2> QED BY <2>2, <2>3, <2>4 DEF IInv
<1>3. CASE FetchFault
  <2>1. (IF pc = Misaligned THEN 0 ELSE 1) \in Causes /\ pc \in Addr
    BY <1>0 DEF Causes, TypeOK
  <2>2. /\ pc' \in Addr /\ priv' \in Priv
        /\ MIE' \in BOOLEAN /\ MPIE' \in BOOLEAN /\ MPP' \in Priv
        /\ mepc' \in Addr /\ mcause' \in Causes /\ left' = 0
        /\ running' \in BOOLEAN
        /\ saved' \in [pc : Addr, priv : Priv, mie : BOOLEAN, known : BOOLEAN]
        /\ SavedContextKept'
    BY <1>0, <1>3, <2>1, TrapFacts DEF FetchFault
  <2> QED
    BY <1>0, <1>3, <2>2 DEF FetchFault, IInv, TypeOK, RunsAwake,
       WaitsInterruptible, NewCauseEndsWait
<1>4. CASE Compute
  <2>1. pc' \in Addr /\ left' \in 0 .. Count /\ running' \in BOOLEAN
    BY <1>0, <1>n, <1>4, GoOnFacts DEF Compute
  <2> QED
    BY <1>0, <1>4, <2>1 DEF Compute, Fetched, csrs, IInv, TypeOK,
       SavedContextKept, RunsAwake, WaitsInterruptible, NewCauseEndsWait
<1>5. ASSUME NEW a \in Addr, Jump(a) PROVE IInv'
  <2>1. pc' \in Addr /\ left' \in 0 .. Count /\ running' \in BOOLEAN
    BY <1>0, <1>5, GoOnFacts DEF Jump
  <2> QED
    BY <1>0, <1>5, <2>1 DEF Jump, Fetched, csrs, IInv, TypeOK,
       SavedContextKept, RunsAwake, WaitsInterruptible, NewCauseEndsWait
<1>6. ASSUME NEW a \in Addr, WriteMepc(a) PROVE IInv'
  <2>1. pc' \in Addr /\ left' \in 0 .. Count /\ running' \in BOOLEAN
    BY <1>0, <1>n, <1>6, GoOnFacts DEF WriteMepc
  <2> QED
    BY <1>0, <1>6, <2>1, NothingTyped DEF WriteMepc, Fetched, IInv, TypeOK,
       SavedContextKept, RunsAwake, WaitsInterruptible, NewCauseEndsWait
<1>7. ASSUME NEW a \in Addr, WriteMtvec(a) PROVE IInv'
  <2>1. pc' \in Addr /\ left' \in 0 .. Count /\ running' \in BOOLEAN
    BY <1>0, <1>n, <1>7, GoOnFacts DEF WriteMtvec
  <2> QED
    BY <1>0, <1>7, <2>1 DEF WriteMtvec, Fetched, IInv, TypeOK,
       SavedContextKept, RunsAwake, WaitsInterruptible, NewCauseEndsWait
<1>8. ASSUME NEW cause \in {2, 3, 5, 7, EnvironmentCall}, Fault(cause) PROVE IInv'
  <2>1. cause \in Causes /\ pc \in Addr
    BY <1>0, <1>8 DEF Causes, EnvironmentCall, TypeOK
  <2>2. CASE failOnFaults
    <3>1. left' = 0 /\ running' = FALSE /\ UNCHANGED hostVars
          /\ UNCHANGED <<pc, priv, MIE, MPIE, MPP, mepc, mcause, saved>>
          /\ UNCHANGED <<wfi, mie, mip, mtvec, waitCauses>>
      BY <1>8, <2>2 DEF Fault
    <3>2. left' \in 0 .. Count
      BY <3>1
    <3>6. running' \in BOOLEAN
      BY <3>1
    <3>3. TypeOK'
      BY <1>0, <3>1, <3>2, <3>6 DEF TypeOK
    <3>4. RunsAwake'
      BY <3>1 DEF RunsAwake
    <3>5. SavedContextKept' /\ WaitsInterruptible' /\ NewCauseEndsWait'
      BY <1>0, <3>1 DEF SavedContextKept, WaitsInterruptible, NewCauseEndsWait
    <3> QED BY <3>3, <3>4, <3>5 DEF IInv
  <2>3. CASE ~failOnFaults
    <3>1. /\ pc' \in Addr /\ priv' \in Priv
          /\ MIE' \in BOOLEAN /\ MPIE' \in BOOLEAN /\ MPP' \in Priv
          /\ mepc' \in Addr /\ mcause' \in Causes /\ left' = 0
          /\ running' \in BOOLEAN
          /\ saved' \in [pc : Addr, priv : Priv, mie : BOOLEAN, known : BOOLEAN]
          /\ SavedContextKept'
      BY <1>0, <1>8, <2>1, <2>3, TrapFacts DEF Fault
    <3> QED
      BY <1>0, <1>8, <2>3, <3>1 DEF Fault, Fetched, IInv, TypeOK, RunsAwake,
         WaitsInterruptible, NewCauseEndsWait
  <2> QED BY <2>2, <2>3
<1>9. ASSUME NEW i \in BOOLEAN, NEW p \in BOOLEAN, NEW m \in Priv,
             WriteMstatus(i, p, m)
      PROVE  IInv'
  <2>1. pc' \in Addr /\ left' \in 0 .. Count /\ running' \in BOOLEAN
    BY <1>0, <1>n, <1>9, GoOnFacts DEF WriteMstatus
  <2> QED
    BY <1>0, <1>9, <2>1, NothingTyped DEF WriteMstatus, Fetched, IInv, TypeOK,
       SavedContextKept, RunsAwake, WaitsInterruptible, NewCauseEndsWait
<1>10. ASSUME NEW v \in MieWrites, WriteMie(v) PROVE IInv'
  <2>1. pc' \in Addr /\ left' \in 0 .. Count /\ running' \in BOOLEAN
    BY <1>0, <1>n, <1>10, GoOnFacts DEF WriteMie
  <2> QED
    BY <1>0, <1>10, <2>1 DEF WriteMie, Fetched, IInv, TypeOK,
       SavedContextKept, RunsAwake, WaitsInterruptible, NewCauseEndsWait
<1>11. ASSUME NEW v \in MipWrites, WriteMip(v) PROVE IInv'
  <2>1. pc' \in Addr /\ left' \in 0 .. Count /\ running' \in BOOLEAN
    BY <1>0, <1>n, <1>11, GoOnFacts DEF WriteMip
  <2> QED
    BY <1>0, <1>11, <2>1 DEF WriteMip, Fetched, IInv, TypeOK,
       SavedContextKept, RunsAwake, WaitsInterruptible, NewCauseEndsWait
<1>12. CASE MmioAccess
  <2>1. pc' \in Addr /\ left' \in 0 .. Count /\ running' \in BOOLEAN
    BY <1>0, <1>n, <1>12, GoOnFacts DEF MmioAccess
  <2>2. wfi' \in BOOLEAN /\ mip' \subseteq IrqBits /\ (wfi' => wfi /\ mip' \subseteq mip)
    BY <1>0, <1>12, LineFacts DEF MmioAccess
  <2>3. TypeOK'
    BY <1>0, <1>12, <2>1, <2>2 DEF MmioAccess, TypeOK
  <2>4. SavedContextKept'
    BY <1>0, <1>12 DEF MmioAccess, SavedContextKept
  <2>5. ~wfi'
    BY <1>0, <1>12, <2>2 DEF MmioAccess, Fetched, RunsAwake
  <2> QED
    BY <2>3, <2>4, <2>5 DEF IInv, RunsAwake, WaitsInterruptible, NewCauseEndsWait
<1>13. CASE Mret
  <2>1. pc' \in Addr /\ left' \in 0 .. Count /\ running' \in BOOLEAN
    BY <1>0, <1>13, GoOnFacts DEF Mret, TypeOK
  <2> QED
    BY <1>0, <1>13, <2>1, NothingTyped DEF Mret, Fetched, IInv, TypeOK,
       SavedContextKept, RunsAwake, WaitsInterruptible, NewCauseEndsWait
<1>14. CASE Wfi
  BY <1>0, <1>n, <1>14 DEF Wfi, StepOver, MaySleep, Fetched, IInv, TypeOK,
     SavedContextKept, RunsAwake, WaitsInterruptible, NewCauseEndsWait
<1>15. CASE SysconStop
  <2>0. running' \in BOOLEAN
    BY <1>15 DEF SysconStop
  <2>1. pc' \in Addr /\ left' = 0 /\ left' \in 0 .. Count
    BY <1>n, <1>15 DEF SysconStop
  <2>2. UNCHANGED <<priv, wfi, csrs, hostVars, saved, waitCauses>>
    BY <1>15 DEF SysconStop
  <2>3. TypeOK'
    BY <1>0, <2>0, <2>1, <2>2 DEF TypeOK, csrs
  <2>4. SavedContextKept' /\ WaitsInterruptible' /\ NewCauseEndsWait'
    BY <1>0, <2>2 DEF csrs, SavedContextKept, WaitsInterruptible, NewCauseEndsWait
  <2> QED BY <2>1, <2>3, <2>4 DEF IInv, RunsAwake
<1>16. CASE SysconOther
  BY <1>0, <1>n, <1>16 DEF SysconOther, StepOver, MaySleep, Fetched, csrs, IInv, TypeOK,
     SavedContextKept, RunsAwake, WaitsInterruptible, NewCauseEndsWait
<1>17. CASE SysconRestart
  <2>1. /\ pc' \in Addr /\ priv' \in Priv /\ mepc' \in Addr /\ mtvec' \in Addr
        /\ MPP' \in Priv
    BY <1>17, Ranges DEF SysconRestart, Priv, User, Machine
  <2>2. /\ wfi' \in BOOLEAN /\ MIE' \in BOOLEAN /\ MPIE' \in BOOLEAN
        /\ running' \in BOOLEAN /\ failOnFaults' \in BOOLEAN /\ asleep' \in BOOLEAN
    BY <1>0, <1>17 DEF SysconRestart, TypeOK
  <2>3. /\ mie' \subseteq IrqBits /\ mip' \subseteq IrqBits
        /\ waitCauses' \subseteq IrqBits
        /\ mcause' \in Causes /\ left' \in 0 .. Count
    BY <1>17 DEF SysconRestart, Causes
  <2>4. /\ saved' \in [pc : Addr, priv : Priv, mie : BOOLEAN, known : BOOLEAN]
        /\ SavedContextKept'
    BY <1>17, NothingTyped DEF SysconRestart, SavedContextKept
  <2>5. RunsAwake' /\ WaitsInterruptible' /\ NewCauseEndsWait'
    BY <1>17 DEF SysconRestart, RunsAwake, WaitsInterruptible, NewCauseEndsWait
  <2> QED BY <2>1, <2>2, <2>3, <2>4, <2>5 DEF IInv, TypeOK
<1>18. CASE Wakes
  BY <1>0, <1>18 DEF Wakes, csrs, IInv, TypeOK, SavedContextKept, RunsAwake,
     WaitsInterruptible, NewCauseEndsWait
<1>19. CASE UNCHANGED vars
  BY <1>0, <1>19 DEF vars, csrs, IInv, TypeOK, SavedContextKept, RunsAwake,
     WaitsInterruptible, NewCauseEndsWait
<1> QED
  BY <1>1, <1>2, <1>3, <1>4, <1>5, <1>6, <1>7, <1>8, <1>9, <1>10, <1>11,
     <1>12, <1>13, <1>14, <1>15, <1>16, <1>17, <1>18, <1>19 DEF Next, Instruction

LEMMA SpecIInv == Spec => []IInv
  BY InitIInv, NextIInv, PTL DEF Spec

\* Every word of the hart keeps its type.
THEOREM TypeCorrect == Spec => []TypeOK
  BY SpecIInv, PTL DEF IInv

\* mepc and mstatus hold the interrupted context until the guest writes them.
THEOREM ContextCorrect == Spec => []SavedContextKept
  BY SpecIInv, PTL DEF IInv

\* A hart that waits has its interrupts on.
THEOREM WaitCorrect == Spec => []WaitsInterruptible
  BY SpecIInv, PTL DEF IInv

\* An interrupt raised while the hart waits ends the wait.
THEOREM WakeCorrect == Spec => []NewCauseEndsWait
  BY SpecIInv, PTL DEF IInv

\* MRET resumes what the trap interrupted.
THEOREM ResumeCorrect == Spec => MretResumes
<1>1. IInv => (Mret /\ saved.known =>
                 pc' = saved.pc /\ priv' = saved.priv /\ MIE' = saved.mie)
  BY DEF IInv, SavedContextKept, Mret, GoOnAt
<1> QED BY <1>1, SpecIInv, PTL DEF MretResumes

\* On the bits the chain of tests has a case for, it picks what the documented
\* order puts first, and it picks something.
LEMMA ChainIsOrder ==
  ASSUME NEW ints \in SUBSET {5, 7, 9, 11}, ints # {}
  PROVE  Selected(ints) # {} /\ Selected(ints) \subseteq First(ints)
<1> DEFINE S == {Dispatched[k] : k \in {h \in {g \in 1..4 : Dispatched[g] \in ints} :
                   \A g \in {f \in 1..4 : Dispatched[f] \in ints} : h <= g}}
<1>0. Selected(ints) = S
  BY DEF Selected
<1>1. CASE 11 \in ints
  <2>1. 11 \in Selected(ints) /\ \A n \in Selected(ints) : n = 11
    BY <1>0, <1>1 DEF Dispatched
  <2>2. 11 \in First(ints)
    BY <1>1 DEF First, DocumentedOrder
  <2> QED BY <2>1, <2>2
<1>2. CASE 11 \notin ints /\ 7 \in ints
  <2>1. 7 \in Selected(ints) /\ \A n \in Selected(ints) : n = 7
    BY <1>0, <1>2 DEF Dispatched
  <2>2. 7 \in First(ints)
    BY <1>2 DEF First, DocumentedOrder
  <2> QED BY <2>1, <2>2
<1>3. CASE 11 \notin ints /\ 7 \notin ints /\ 9 \in ints
  <2>1. 9 \in Selected(ints) /\ \A n \in Selected(ints) : n = 9
    BY <1>0, <1>3 DEF Dispatched
  <2>2. 9 \in First(ints)
    BY <1>3 DEF First, DocumentedOrder
  <2> QED BY <2>1, <2>2
<1>4. CASE ints = {5}
  <2>1. 5 \in Selected(ints) /\ \A n \in Selected(ints) : n = 5
    BY <1>0, <1>4 DEF Dispatched
  <2>2. 5 \in First(ints)
    BY <1>4 DEF First, DocumentedOrder
  <2> QED BY <2>1, <2>2
<1> QED BY <1>1, <1>2, <1>3, <1>4

\* Without a software interrupt among them, a Step takes the first enabled
\* interrupt in the documented order and saves where it interrupted.
THEOREM OrderCorrect ==
  ASSUME IrqBits \subseteq {1, 3, 5, 7, 9, 11}
  PROVE  Spec => InterruptsInOrder
<1>1. ASSUME IInv, NEW expired \in BOOLEAN, StepBegin(expired), ~wfi', MIE,
             mip' \cap mie # {}, mip' \cap mie \cap Software = {}
      PROVE  \E n \in First(mip' \cap mie) : mcause' = Interrupt(n) /\ mepc' = pc
  <2>1. mip' \cap mie \in SUBSET {5, 7, 9, 11}
    BY <1>1 DEF IInv, TypeOK, Software
  <2>2. Selected(mip' \cap mie) # {} /\ Selected(mip' \cap mie) \subseteq First(mip' \cap mie)
    BY <1>1, <2>1, ChainIsOrder
  <2>3. InterruptDue
    BY <1>1 DEF InterruptDue
  <2>4. TakesInterrupt
    BY <1>1, <2>2, <2>3 DEF StepBegin, StillWaits, RunsGuest, Stalls
  <2>5. PICK n \in Selected(mip' \cap mie) : TakeTrap(Interrupt(n), pc)
    BY <2>4 DEF TakesInterrupt
  <2> QED BY <2>2, <2>5 DEF TakeTrap
<1>2. IInv => \A expired \in BOOLEAN :
        /\ StepBegin(expired)
        /\ ~wfi' /\ MIE /\ mip' \cap mie # {}
        /\ mip' \cap mie \cap Software = {}
        => \E n \in First(mip' \cap mie) : mcause' = Interrupt(n) /\ mepc' = pc
  BY <1>1
<1> QED BY <1>2, SpecIInv, PTL DEF InterruptsInOrder
=============================================================================
