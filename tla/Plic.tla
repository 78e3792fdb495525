------------------------------- MODULE Plic -------------------------------
(***************************************************************************)
(* The interrupt controller of plic.c and the one hart input it drives.    *)
(* Every source is a bit of two words, irq_pending and irq_claimed; here   *)
(* each word is the set of the sources whose bit is set.  irq_mask is the  *)
(* constant 0xffffffff, so a source is never masked by configuration: it   *)
(* is masked only while the guest has it claimed.                          *)
(*                                                                         *)
(* The operators below are the bodies of the four entry points, each taken *)
(* as one step.  NetRx takes the same bodies apart into the loads and      *)
(* stores two threads interleave.                                          *)
(***************************************************************************)
EXTENDS Integers

CONSTANT Irq    \* the numbers get_next_irq has handed out, one per device

ASSUME IrqAssumption == Irq \subseteq 1..31

VARIABLES
    irq_pending,    \* sources whose device asks for service
    irq_claimed,    \* sources the guest has claimed and not completed
    meip,           \* bit 11 of mip: the hart's external interrupt line
    wfi             \* bit 2 of extraflags: the hart waits for an interrupt

plicVars == <<irq_pending, irq_claimed, meip, wfi>>

PlicTypeOK ==
    /\ irq_pending \subseteq Irq
    /\ irq_claimed \subseteq Irq
    /\ meip \in BOOLEAN
    /\ wfi \in BOOLEAN

PlicInit ==
    /\ irq_pending = {}
    /\ irq_claimed = {}
    /\ meip = FALSE
    /\ wfi = FALSE

-----------------------------------------------------------------------------
Unmasked(pending, claimed) == pending \ claimed

\* hart_raise_irq(11): the line goes up and a sleeping hart wakes.
HartRaise == meip' = TRUE /\ wfi' = FALSE

\* hart_clear_irq(11): the line goes down; the WFI flag is left alone.
HartClear == meip' = FALSE /\ UNCHANGED wfi

\* Bug: the source is recorded and the hart is not told.
RaiseSilently(i) ==
    /\ irq_pending' = irq_pending \cup {i}
    /\ UNCHANGED <<irq_claimed, meip, wfi>>

\* Bug: the number is or-ed into the word in the place of its bit.
RaiseUnshifted(i) ==
    /\ irq_pending' = irq_pending \cup {b \in 0..4 : (i \div 2^b) % 2 = 1}
    /\ HartRaise
    /\ UNCHANGED irq_claimed

PlicRaise(i) ==
    /\ irq_pending' = irq_pending \cup {i}
    /\ IF Unmasked(irq_pending', irq_claimed) # {}
         THEN HartRaise
         ELSE UNCHANGED <<meip, wfi>>
    /\ UNCHANGED irq_claimed

PlicClear(i) ==
    /\ irq_pending' = irq_pending \ {i}
    /\ IF Unmasked(irq_pending', irq_claimed) = {}
         THEN HartClear
         ELSE UNCHANGED <<meip, wfi>>
    /\ UNCHANGED irq_claimed

\* A load of the claim register answers the lowest unmasked source and marks
\* it claimed, or answers 0.  The line and irq_pending are left alone.
PlicClaim(i) ==
    /\ i \in Unmasked(irq_pending, irq_claimed)
    /\ \A j \in Unmasked(irq_pending, irq_claimed) : i <= j
    /\ irq_claimed' = irq_claimed \cup {i}
    /\ UNCHANGED <<irq_pending, meip, wfi>>

PlicClaimNothing ==
    /\ Unmasked(irq_pending, irq_claimed) = {}
    /\ UNCHANGED plicVars

\* A store to the claim register forgets the claim.  It does not look at
\* irq_pending: a source that came back meanwhile does not raise the line.
PlicComplete(i) ==
    /\ irq_claimed' = irq_claimed \ {i}
    /\ UNCHANGED <<irq_pending, meip, wfi>>
=============================================================================
