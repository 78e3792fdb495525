-------------------------------- MODULE Hart --------------------------------
(***************************************************************************)
(* The control of MiniRV32IMAStep in mini-rv32ima.h: when an interrupt is  *)
(* taken, what a trap saves, what MRET restores, when the hart waits, and  *)
(* how the main loop of full-rv32ima.c reacts to what a Step returns.      *)
(*                                                                         *)
(* A Step begins with StepBegin and then runs up to Count instructions,    *)
(* one action each; left is how many it may still run, and 0 says the hart *)
(* is between two Steps, where alone the device threads reach it (the main *)
(* loop holds irq_mutex during a Step, and not during the sleep after a    *)
(* Step that returned 1).  The guest is any program: every                 *)
(* instruction that touches the control state is an action, and all the    *)
(* others are Compute.  What the words hold beyond that (registers, RAM,   *)
(* mtval, mscratch) is left out; the two clocks are in module Clock, and   *)
(* LR and SC in module Atomics.                                            *)
(***************************************************************************)
EXTENDS Integers

CONSTANTS
    RamWords,       \* RAM is the addresses 0 .. RamWords - 1, in words
    Count,          \* instrs_per_flip
    IrqBits,        \* the bits of mip and mie that are modelled
    MieWrites,      \* the values the guest writes to mie
    MipWrites       \* and to mip

ASSUME HartAssumption ==
    /\ RamWords \in Nat \ {0}
    /\ Count \in Nat \ {0}
    /\ {7, 11} \subseteq IrqBits
    /\ IrqBits \subseteq 1..11
    /\ MieWrites \subseteq SUBSET IrqBits
    /\ MipWrites \subseteq SUBSET IrqBits

VARIABLES
    pc, priv, wfi,              \* extraflags packs priv and wfi
    MIE, MPIE, MPP,             \* the fields of mstatus
    mie, mip, mepc, mtvec, mcause,
    left,                       \* instructions the Step may still run
    running,                    \* the main loop has not been left
    asleep,                     \* it is in the ppoll of MiniSleep
    failOnFaults,               \* the command line option -d
    saved,                      \* history: the context the last trap put away,
                                \* while the guest has not written over it
    waitCauses                  \* history: mip when the hart began to wait

csrs == <<MIE, MPIE, MPP, mie, mip, mepc, mtvec, mcause>>
hostVars == <<failOnFaults, asleep>>
vars == <<pc, priv, wfi, csrs, left, running, hostVars, saved, waitCauses>>

End == RamWords             \* the word after RAM
Zero == RamWords + 1        \* address 0, which is not RAM either
Misaligned == RamWords + 2  \* an address in RAM with its low bits set
Addr == 0 .. Misaligned

User == 0
Machine == 3
Priv == {User, Machine}

Interrupt(n) == 16 + n      \* bit 31 of mcause
Causes == {0, 1, 2, 3, 5, 7, 8, 11} \cup {Interrupt(n) : n \in IrqBits}

Nothing == [pc |-> Zero, priv |-> User, mie |-> FALSE, known |-> FALSE]
Context(a) == [pc |-> a, priv |-> priv, mie |-> MIE, known |-> TRUE]

TypeOK ==
    /\ pc \in Addr /\ priv \in Priv /\ wfi \in BOOLEAN
    /\ MIE \in BOOLEAN /\ MPIE \in BOOLEAN /\ MPP \in Priv
    /\ mie \subseteq IrqBits /\ mip \subseteq IrqBits
    /\ mepc \in Addr /\ mtvec \in Addr /\ mcause \in Causes
    /\ left \in 0 .. Count
    /\ running \in BOOLEAN /\ failOnFaults \in BOOLEAN /\ asleep \in BOOLEAN
    /\ saved \in [pc : Addr, priv : Priv, mie : BOOLEAN, known : BOOLEAN]
    /\ waitCauses \subseteq IrqBits

\* memset of the state, then pc and the machine mode.
Init ==
    /\ pc = 0 /\ priv = Machine /\ wfi = FALSE
    /\ MIE = FALSE /\ MPIE = FALSE /\ MPP = User
    /\ mie = {} /\ mip = {} /\ mepc = Zero /\ mtvec = Zero /\ mcause = 0
    /\ left = 0
    /\ running = TRUE /\ failOnFaults \in BOOLEAN /\ asleep = FALSE
    /\ saved = Nothing
    /\ waitCauses = {}

-----------------------------------------------------------------------------
\* The loop is left when pc has become 0; otherwise another Step follows.
StepOver == left' = 0 /\ running' = (pc' # Zero)

\* After a Step that returned 1 the main loop sleeps, unless -p is given.
MaySleep == asleep' \in BOOLEAN /\ (asleep' => running')

\* Bug: the interrupted privilege is not put away.
TrapForgetsPriv(cause, epc) ==
    /\ mcause' = cause
    /\ mepc' = epc
    /\ MPIE' = MIE /\ MPP' = MPP /\ MIE' = FALSE
    /\ pc' = mtvec
    /\ priv' = Machine
    /\ saved' = Context(epc)
    /\ StepOver

TakeTrap(cause, epc) ==
    /\ mcause' = cause
    /\ mepc' = epc
    /\ MPIE' = MIE /\ MPP' = priv /\ MIE' = FALSE
    /\ pc' = mtvec
    /\ priv' = Machine
    /\ saved' = Context(epc)
    /\ StepOver

Pending == mip \cap mie

\* Bug: the timer is looked at before the external line.
TimerFirst == <<7, 11, 9, 5>>

\* The chain of tests at the start of a Step, in its order.
Dispatched == <<11, 7, 9, 5>>

\* Bug: the software interrupt is tested in its place and no trap is set.
SelectedSoftware(ints) ==
    LET chain == <<11, 3, 7, 9, 5>>
        hits == {k \in 1..5 : chain[k] \in ints}
    IN  {chain[k] : k \in {h \in hits : \A g \in hits : h <= g}} \ {3}

Selected(ints) ==
    LET hits == {k \in 1..4 : Dispatched[k] \in ints}
    IN  {Dispatched[k] : k \in {h \in hits : \A g \in hits : h <= g}}

trapState == <<pc, priv, MIE, MPIE, MPP, mepc, mcause, saved, running>>

\* What a Step does once the timer has been looked at.  A hart that still
\* waits does nothing.  An enabled interrupt keeps every instruction from
\* running, also one for which the chain of tests has no case: then the Step
\* returns with nothing done.
InterruptDue == MIE /\ mip' \cap mie # {}

StillWaits ==
    /\ wfi'
    /\ left' = 0
    /\ UNCHANGED trapState

RunsGuest ==
    /\ ~wfi' /\ ~InterruptDue
    /\ left' = Count
    /\ UNCHANGED trapState

TakesInterrupt ==
    /\ ~wfi' /\ InterruptDue
    /\ \E n \in Selected(mip' \cap mie) : TakeTrap(Interrupt(n), pc)

Stalls ==
    /\ ~wfi' /\ InterruptDue
    /\ Selected(mip' \cap mie) = {}
    /\ left' = 0
    /\ UNCHANGED trapState

\* expired is Clock's Expired: the timer bit is recomputed, and a timer that
\* is due ends the wait.
StepBegin(expired) ==
    /\ running /\ left = 0 /\ ~asleep
    /\ mip' = IF expired THEN mip \cup {7} ELSE mip \ {7}
    /\ wfi' = (wfi /\ ~expired)
    /\ \/ StillWaits /\ MaySleep
       \/ (RunsGuest \/ TakesInterrupt \/ Stalls) /\ UNCHANGED asleep
    /\ UNCHANGED <<mie, mtvec, failOnFaults, waitCauses>>

\* The sleep ends: after its timeout, or when a descriptor is readable.  Its
\* timeout is without end when it began with the timer due (see Clock).
Wakes ==
    /\ asleep
    /\ asleep' = FALSE
    /\ UNCHANGED <<pc, priv, wfi, csrs, left, running, failOnFaults, saved, waitCauses>>

-----------------------------------------------------------------------------
(* The lines of the devices, between two Steps.                            *)

\* Bug: the hart goes on waiting.
RaiseLeavesWait ==
    /\ mip' = mip \cup {11}
    /\ UNCHANGED wfi

\* Bug: the number is or-ed into mip in the place of its bit.
RaiseUnshifted ==
    /\ mip' = mip \cup {0, 1, 3}
    /\ wfi' = FALSE

RaiseHartIrq ==
    /\ mip' = mip \cup {11}
    /\ wfi' = FALSE

ClearHartIrq ==
    /\ mip' = mip \ {11}
    /\ UNCHANGED wfi

DeviceLine ==
    /\ running /\ left = 0
    /\ RaiseHartIrq \/ ClearHartIrq
    /\ UNCHANGED <<pc, priv, MIE, MPIE, MPP, mie, mepc, mtvec, mcause, left,
                   running, hostVars, saved, waitCauses>>

-----------------------------------------------------------------------------
(* The instructions.  One is executed only at an address that was fetched. *)

Fetched == running /\ left > 0 /\ pc < RamWords

NextPc == pc + 1

\* The instruction ends and the Step's loop goes on at address a, or the
\* Step is over after its last instruction.
GoOnAt(a) ==
    /\ pc' = a
    /\ left' = left - 1
    /\ running' = (left' > 0 \/ pc' # Zero)

FetchFault ==
    /\ running /\ left > 0 /\ pc >= RamWords
    /\ TakeTrap(IF pc = Misaligned THEN 0 ELSE 1, pc)
    /\ UNCHANGED <<wfi, mie, mip, mtvec, hostVars, waitCauses>>

Compute ==
    /\ Fetched
    /\ GoOnAt(NextPc)
    /\ UNCHANGED <<priv, wfi, csrs, hostVars, saved, waitCauses>>

Jump(a) ==
    /\ Fetched
    /\ GoOnAt(a)
    /\ UNCHANGED <<priv, wfi, csrs, hostVars, saved, waitCauses>>

EnvironmentCall == IF priv = User THEN 8 ELSE 11

\* Illegal opcode, EBREAK, load fault, store fault, ECALL.  With -d the Step
\* returns 3 before the trap is entered, and the main loop ends.
Fault(cause) ==
    /\ Fetched
    /\ IF failOnFaults
         THEN /\ left' = 0 /\ running' = FALSE
              /\ UNCHANGED <<pc, priv, MIE, MPIE, MPP, mepc, mcause, saved>>
         ELSE TakeTrap(cause, pc)
    /\ UNCHANGED <<wfi, mie, mip, mtvec, hostVars, waitCauses>>

WriteMstatus(i, p, m) ==
    /\ Fetched
    /\ MIE' = i /\ MPIE' = p /\ MPP' = m
    /\ GoOnAt(NextPc)
    /\ saved' = Nothing
    /\ UNCHANGED <<priv, wfi, mie, mip, mepc, mtvec, mcause, hostVars, waitCauses>>

WriteMie(v) ==
    /\ Fetched
    /\ mie' = v
    /\ GoOnAt(NextPc)
    /\ UNCHANGED <<priv, wfi, MIE, MPIE, MPP, mip, mepc, mtvec, mcause,
                   hostVars, saved, waitCauses>>

\* mip is an ordinary register to the guest: the write replaces every bit,
\* those of the devices included.
WriteMip(v) ==
    /\ Fetched
    /\ mip' = v
    /\ GoOnAt(NextPc)
    /\ UNCHANGED <<priv, wfi, MIE, MPIE, MPP, mie, mepc, mtvec, mcause,
                   hostVars, saved, waitCauses>>

WriteMepc(a) ==
    /\ Fetched
    /\ mepc' = a
    /\ GoOnAt(NextPc)
    /\ saved' = Nothing
    /\ UNCHANGED <<priv, wfi, MIE, MPIE, MPP, mie, mip, mtvec, mcause,
                   hostVars, waitCauses>>

WriteMtvec(a) ==
    /\ Fetched
    /\ mtvec' = a
    /\ GoOnAt(NextPc)
    /\ UNCHANGED <<priv, wfi, MIE, MPIE, MPP, mie, mip, mepc, mcause,
                   hostVars, saved, waitCauses>>

\* A load or store that reaches a device may move the external line.
MmioAccess ==
    /\ Fetched
    /\ RaiseHartIrq \/ ClearHartIrq
    /\ GoOnAt(NextPc)
    /\ UNCHANGED <<priv, MIE, MPIE, MPP, mie, mepc, mtvec, mcause,
                   hostVars, saved, waitCauses>>

\* Bug: MRET leaves the interrupts off.
MretKeepsMie ==
    /\ Fetched
    /\ MIE' = MIE /\ MPIE' = TRUE /\ MPP' = priv
    /\ priv' = MPP
    /\ GoOnAt(mepc)
    /\ saved' = Nothing
    /\ UNCHANGED <<wfi, mie, mip, mepc, mtvec, mcause, hostVars, waitCauses>>

Mret ==
    /\ Fetched
    /\ MIE' = MPIE /\ MPIE' = TRUE /\ MPP' = priv
    /\ priv' = MPP
    /\ GoOnAt(mepc)
    /\ saved' = Nothing
    /\ UNCHANGED <<wfi, mie, mip, mepc, mtvec, mcause, hostVars, waitCauses>>

\* WFI turns the interrupts on and sets the flag, whatever mip holds.
Wfi ==
    /\ Fetched
    /\ MIE' = TRUE
    /\ wfi' = TRUE
    /\ pc' = NextPc
    /\ StepOver /\ MaySleep
    /\ waitCauses' = mip
    /\ UNCHANGED <<priv, MPIE, MPP, mie, mip, mepc, mtvec, mcause,
                   failOnFaults, saved>>

\* A store to SYSCON ends the Step with its value: power-off and the value 3
\* leave the main loop, restart begins again with a zeroed state, and any
\* other value is reported and the loop goes on; the value 1 is taken for the
\* answer of a hart that waits.
SysconStop ==
    /\ Fetched
    /\ pc' = NextPc
    /\ left' = 0 /\ running' = FALSE
    /\ UNCHANGED <<priv, wfi, csrs, hostVars, saved, waitCauses>>

SysconOther ==
    /\ Fetched
    /\ pc' = NextPc
    /\ StepOver /\ MaySleep
    /\ UNCHANGED <<priv, wfi, csrs, failOnFaults, saved, waitCauses>>

SysconRestart ==
    /\ Fetched
    /\ pc' = 0 /\ priv' = Machine /\ wfi' = FALSE
    /\ MIE' = FALSE /\ MPIE' = FALSE /\ MPP' = User
    /\ mie' = {} /\ mip' = {} /\ mepc' = Zero /\ mtvec' = Zero /\ mcause' = 0
    /\ left' = 0
    /\ saved' = Nothing /\ waitCauses' = {}
    /\ UNCHANGED <<running, hostVars>>

-----------------------------------------------------------------------------
Instruction ==
    \/ Compute
    \/ FetchFault
    \/ \E a \in Addr : Jump(a) \/ WriteMepc(a) \/ WriteMtvec(a)
    \/ \E cause \in {2, 3, 5, 7, EnvironmentCall} : Fault(cause)
    \/ \E i, p \in BOOLEAN, m \in Priv : WriteMstatus(i, p, m)
    \/ \E v \in MieWrites : WriteMie(v)
    \/ \E v \in MipWrites : WriteMip(v)
    \/ MmioAccess
    \/ Mret
    \/ Wfi
    \/ SysconStop
    \/ SysconOther
    \/ SysconRestart

Next ==
    \/ \E expired \in BOOLEAN : StepBegin(expired)
    \/ DeviceLine
    \/ Wakes
    \/ Instruction

\* The main loop calls Step again and again while it is not in a sleep, and
\* a Step runs its guest.  Nothing is assumed of the end of a sleep, nor that
\* the timer ever comes due: a hart that waits, or stalls before a pending
\* interrupt the chain of tests has no case for, may do so for ever.
HasCase == {Dispatched[k] : k \in 1..4}
Stalled == MIE /\ Pending # {} /\ Pending \cap HasCase = {}
Spec ==
    /\ Init
    /\ [][Next]_vars
    /\ WF_vars(~wfi /\ ~Stalled /\ \E expired \in BOOLEAN : StepBegin(expired))
    /\ WF_vars(Instruction)

-----------------------------------------------------------------------------
\* While the guest has not written mstatus or mepc since the last trap, they
\* hold the context that trap interrupted, over any number of Steps, device
\* lines and further instructions of the handler (WFI included).
SavedContextKept ==
    saved.known =>
        /\ mepc = saved.pc
        /\ MPP = saved.priv
        /\ MPIE = saved.mie

\* An MRET after such a handler resumes exactly what was interrupted: the
\* instruction that had not run, its privilege and its interrupt enable.
MretResumes ==
    [][Mret /\ saved.known =>
        pc' = saved.pc /\ priv' = saved.priv /\ MIE' = saved.mie]_vars

\* A hart that waits can take the interrupt that wakes it: WFI turned the
\* interrupts on, and nothing turns them off while it waits.
WaitsInterruptible == wfi => MIE

\* Instructions run only on a hart that does not wait.
RunsAwake == left > 0 => ~wfi

\* Whatever was raised after the hart began to wait has ended the wait: the
\* bits that are up while it waits were up when it executed WFI.
NewCauseEndsWait == wfi => mip \subseteq waitCauses

\* The inductive invariant of the proofs.
IInv ==
    /\ TypeOK
    /\ SavedContextKept
    /\ RunsAwake
    /\ WaitsInterruptible
    /\ NewCauseEndsWait

\* "external, then software, then timer", "machine before supervisor": the
\* order mini-rv32ima.h:164 gives, over the bits of mip.
DocumentedOrder == <<11, 3, 7, 9, 1, 5>>
First(ints) ==
    {DocumentedOrder[k] : k \in
        {h \in 1..6 : /\ DocumentedOrder[h] \in ints
                      /\ \A g \in 1..6 : DocumentedOrder[g] \in ints => h <= g}}

\* A hart that begins a Step with an enabled interrupt pending takes the
\* first one in that order, unless a software interrupt, which the chain of
\* tests leaves out, is among them.
Software == {1, 3}
InterruptsInOrder ==
    [][\A expired \in BOOLEAN :
        /\ StepBegin(expired)
        /\ ~wfi' /\ MIE /\ mip' \cap mie # {}
        /\ mip' \cap mie \cap Software = {}
        => \E n \in First(mip' \cap mie) : mcause' = Interrupt(n) /\ mepc' = pc]_vars

\* An enabled interrupt the chain has a case for is taken or withdrawn,
\* whatever stands beside it: also out of the Steps that do nothing because a
\* software interrupt alone is pending.  Such Steps themselves go on for ever
\* if no other interrupt comes (mini-rv32ima.h:162), and a main loop that
\* does not come back from its sleep takes nothing.
Blocked == running /\ ~wfi /\ MIE /\ Pending \cap HasCase # {}
PendingIsTaken == []<>~asleep => (Blocked ~> ~Blocked)
=============================================================================
