---------------------------- MODULE IrqDelivery ----------------------------
(***************************************************************************)
(* From a device's completion to the guest driver that notices it: the     *)
(* InterruptStatus word of a virtio device (virtio.c), the PLIC, the hart  *)
(* line, the Step that samples it, and the guest's handler, which is       *)
(* outside the repository and is modelled as the registers it uses are     *)
(* meant to be used: claim, read InterruptStatus, acknowledge what was     *)
(* read, look at the rings, complete, and claim again until the answer     *)
(* is 0.                                                                   *)
(*                                                                         *)
(* A device is identified by its interrupt number.  Each call into plic.c  *)
(* and virtio.c is one step here, and the steps of the devices, of the     *)
(* main loop and of the guest interleave in every order.                   *)
(*                                                                         *)
(* A Step that ends in a wait is followed by MiniSleep, whose timeout is   *)
(* what the timer still has to run: with the timer already due the         *)
(* difference wraps and the sleep has no end of its own.                   *)
(***************************************************************************)
EXTENDS Plic

VARIABLES
    InterruptStatus,    \* per device, the bits that are set: Used, Config
    usedUnseen,         \* devices with used elements the driver has not read
    configUnseen,       \* devices whose configuration change it has not read
    at,                 \* where the hart is: between two Steps, in a sleep
                        \* of the main loop, or a point of the guest's code
    due,                \* the next look at the timer finds it past its match
    do_sleep,           \* the main loop sleeps while the hart waits (no -p)
    current,            \* the source the handler has claimed, 0 for none
    status              \* the InterruptStatus the handler read

guestVars == <<at, due, do_sleep, current, status>>
devVars == <<InterruptStatus, usedUnseen, configUnseen>>
irqVars == <<plicVars, devVars, guestVars>>

Used == 1       \* a buffer was used
Config == 2     \* the configuration space changed
Bits == {Used, Config}

\* The handler's points, in the order it passes them.
Claiming == "claim"
Reading == "read"
Acking == "ack"
Draining == "drain"
Completing == "complete"
InService == {Reading, Acking, Draining, Completing}

IrqTypeOK ==
    /\ PlicTypeOK
    /\ InterruptStatus \in [Irq -> SUBSET Bits]
    /\ usedUnseen \subseteq Irq
    /\ configUnseen \subseteq Irq
    /\ at \in {"between", "asleep", "stuck", "run", Claiming} \cup InService
    /\ due \in BOOLEAN
    /\ do_sleep \in BOOLEAN
    /\ current \in Irq \cup {0}
    /\ status \subseteq Bits

IrqInit ==
    /\ PlicInit
    /\ InterruptStatus = [d \in Irq |-> {}]
    /\ usedUnseen = {}
    /\ configUnseen = {}
    /\ at = "between"
    /\ due = FALSE
    /\ do_sleep \in BOOLEAN
    /\ current = 0
    /\ status = {}

-----------------------------------------------------------------------------
(* The devices: a completion comes from the reader thread or from a notify *)
(* the guest stores; a configuration change from either.                   *)

FlagCompletion(d) ==
    /\ usedUnseen' = usedUnseen \cup {d}
    /\ InterruptStatus' = [InterruptStatus EXCEPT ![d] = @ \cup {Used}]
    /\ PlicRaise(d)
    /\ UNCHANGED <<configUnseen, guestVars>>

ConfigChanged(d) ==
    /\ configUnseen' = configUnseen \cup {d}
    /\ InterruptStatus' = [InterruptStatus EXCEPT ![d] = @ \cup {Config}]
    /\ PlicRaise(d)
    /\ UNCHANGED <<usedUnseen, guestVars>>

(* The main loop: one Step begins by looking at the timer, returns at once *)
(* if the hart still waits, and otherwise traps or runs the guest.         *)

clockVars == <<due, do_sleep>>

\* A Step has returned 1.  Without -p the main loop sleeps (full-rv32ima.c:636),
\* and MiniSleep asks ppoll for timermatch - timer, which wraps if the timer is
\* due already (:781): such a sleep does not time out.
SleepFollows ==
    at' = IF ~do_sleep THEN "between" ELSE IF due THEN "stuck" ELSE "asleep"

\* Bug: a timer that is due does not end the wait.
TimerLeavesWait ==
    /\ at = "between"
    /\ UNCHANGED wfi
    /\ IF wfi THEN SleepFollows ELSE at' = IF meip THEN Claiming ELSE "run"
    /\ UNCHANGED <<irq_pending, irq_claimed, meip, devVars, clockVars, current, status>>

StepStarts ==
    /\ at = "between"
    /\ wfi' = (wfi /\ ~due)
    /\ IF wfi' THEN SleepFollows ELSE at' = IF meip THEN Claiming ELSE "run"
    /\ UNCHANGED <<irq_pending, irq_claimed, meip, devVars, clockVars, current, status>>

StepEnd ==
    /\ at = "run"
    /\ at' = "between"
    /\ UNCHANGED <<plicVars, devVars, clockVars, current, status>>

\* The guest runs WFI.  Nothing looks at mip: the flag is set even when an
\* interrupt came up since the Step began, or the timer is due.
GuestWaits ==
    /\ at = "run"
    /\ wfi' = TRUE
    /\ SleepFollows
    /\ UNCHANGED <<irq_pending, irq_claimed, meip, devVars, clockVars, current, status>>

SleepTimesOut ==
    /\ at = "asleep"
    /\ at' = "between"
    /\ UNCHANGED <<plicVars, devVars, clockVars, current, status>>

\* One of the descriptors ppoll watches has something to read.
SomethingReadable ==
    /\ at \in {"asleep", "stuck"}
    /\ at' = "between"
    /\ UNCHANGED <<plicVars, devVars, clockVars, current, status>>

\* The guest writes the timer's match register.
ProgramTimer ==
    /\ at = "run"
    /\ due' \in BOOLEAN
    /\ UNCHANGED <<plicVars, devVars, do_sleep, at, current, status>>

\* The host's clock passes the match.  The hart's timer moves only at the
\* start of a Step, so what passes during one counts for the next.
TimePasses ==
    /\ at \in {"between", "asleep"}
    /\ due' = TRUE
    /\ UNCHANGED <<plicVars, devVars, do_sleep, at, current, status>>

-----------------------------------------------------------------------------
(* The guest's handler, interrupts off.                                    *)

ClaimLoad(i) ==
    /\ at = Claiming
    /\ PlicClaim(i)
    /\ current' = i
    /\ at' = Reading
    /\ UNCHANGED <<devVars, clockVars, status>>

ClaimLoadZero ==
    /\ at = Claiming
    /\ PlicClaimNothing
    /\ at' = "run"
    /\ UNCHANGED <<devVars, clockVars, current, status>>

StatusLoad ==
    /\ at = Reading
    /\ status' = InterruptStatus[current]
    /\ at' = Acking
    /\ UNCHANGED <<plicVars, devVars, clockVars, current>>

\* Bug: whatever the driver acknowledges, every bit is cleared.
AckAll ==
    /\ at = Acking
    /\ InterruptStatus' = [InterruptStatus EXCEPT ![current] = {}]
    /\ PlicClear(current)
    /\ at' = Draining
    /\ UNCHANGED <<usedUnseen, configUnseen, clockVars, current, status>>

InterruptAck ==
    /\ at = Acking
    /\ InterruptStatus' = [InterruptStatus EXCEPT ![current] = @ \ status]
    /\ IF InterruptStatus'[current] = {}
         THEN PlicClear(current)
         ELSE UNCHANGED plicVars
    /\ at' = Draining
    /\ UNCHANGED <<usedUnseen, configUnseen, clockVars, current, status>>

Drain ==
    /\ at = Draining
    /\ usedUnseen' = IF Used \in status THEN usedUnseen \ {current} ELSE usedUnseen
    /\ configUnseen' = IF Config \in status THEN configUnseen \ {current}
                                            ELSE configUnseen
    /\ at' = Completing
    /\ UNCHANGED <<plicVars, InterruptStatus, clockVars, current, status>>

CompleteStore ==
    /\ at = Completing
    /\ PlicComplete(current)
    /\ current' = 0
    /\ at' = Claiming
    /\ UNCHANGED <<devVars, clockVars, status>>

\* The driver resets a device: a store of 0 to Status clears InterruptStatus
\* and leaves the PLIC alone.  The driver forgets what the device told it.
DriverResets(d) ==
    /\ at = "run"
    /\ InterruptStatus' = [InterruptStatus EXCEPT ![d] = {}]
    /\ usedUnseen' = usedUnseen \ {d}
    /\ configUnseen' = configUnseen \ {d}
    /\ UNCHANGED <<plicVars, guestVars>>

-----------------------------------------------------------------------------
Handler ==
    \/ \E i \in Irq : ClaimLoad(i)
    \/ ClaimLoadZero
    \/ StatusLoad
    \/ InterruptAck
    \/ Drain
    \/ CompleteStore

IrqNext ==
    \/ \E d \in Irq : FlagCompletion(d) \/ ConfigChanged(d) \/ DriverResets(d)
    \/ StepStarts
    \/ StepEnd
    \/ GuestWaits
    \/ SleepTimesOut
    \/ SomethingReadable
    \/ ProgramTimer
    \/ TimePasses
    \/ Handler

\* The main loop steps for ever, also after a sleep that began before its
\* timer was due; a sleep that began after that need not end.  The guest's
\* code and its handler go on, and the timer the guest has programmed comes
\* due while its hart waits and cannot move it.
IrqSpec ==
    /\ IrqInit
    /\ [][IrqNext]_irqVars
    /\ WF_irqVars(StepStarts)
    /\ WF_irqVars(SleepTimesOut)
    /\ WF_irqVars(StepEnd \/ GuestWaits)
    /\ WF_irqVars(Handler)
    /\ WF_irqVars(wfi /\ TimePasses)

-----------------------------------------------------------------------------
Resting == at \in {"between", "asleep", "stuck", "run"}

\* Outside the handler, the hart's line is up exactly when some device asks
\* for service: the line is neither lost when a source comes back between
\* its acknowledgement and its completion (plic.c re-raises nothing there),
\* nor left up with nothing to claim.
LineFollowsPending == Resting => (meip <=> irq_pending # {})

\* A completion or a configuration change the driver has not seen is never
\* without its interrupt: outside the handler the line is up.  It relates
\* the rings to InterruptStatus, irq_pending, irq_claimed and mip over every
\* order of completions and acknowledgements.
NothingUnseenWithoutLine ==
    Resting => (usedUnseen \cup configUnseen # {} => meip)

\* What is bound to be acknowledged next was already reported: a status bit
\* is set only on a source the PLIC holds pending.
StatusHeldPending == \A d \in Irq : InterruptStatus[d] # {} => d \in irq_pending

\* The inductive invariant the proofs use: what the handler holds claimed, why
\* the line is up, and where the trace of each unseen event is kept.
ClaimedIsCurrent ==
    IF at \in InService
      THEN current \in Irq /\ irq_claimed = {current}
      ELSE irq_claimed = {}
LineHasCause == meip => irq_pending # {}
RestingLineUp == Resting /\ irq_pending # {} => meip
UsedTraced ==
    \A d \in usedUnseen :
        \/ Used \in InterruptStatus[d]
        \/ at = Draining /\ current = d /\ Used \in status
ConfigTraced ==
    \A d \in configUnseen :
        \/ Config \in InterruptStatus[d]
        \/ at = Draining /\ current = d /\ Config \in status
IrqInv ==
    /\ IrqTypeOK
    /\ ClaimedIsCurrent
    /\ StatusHeldPending
    /\ LineHasCause
    /\ RestingLineUp
    /\ UsedTraced
    /\ ConfigTraced

\* Each used buffer is noticed by its driver, also one whose interrupt came
\* up before the WFI that set the flag over it: the timer ends that wait.
\* Two things may keep it waiting: sources of a lower number that ask again
\* and again, as the claim register always answers the lowest one, and a
\* main loop that stays in a sleep it began with the timer due.
UsedIsSeen ==
    \A d \in Irq :
        <>[](\A e \in Irq : e < d => e \notin irq_pending) /\ []<>(at # "stuck")
            => (d \in usedUnseen ~> d \notin usedUnseen)
=============================================================================
