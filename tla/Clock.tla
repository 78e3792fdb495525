------------------------------- MODULE Clock -------------------------------
(***************************************************************************)
(* The guest's timer and the sleep of a waiting hart: the host clock is    *)
(* sampled by the main loop of full-rv32ima.c before every Step, the       *)
(* Step adds the elapsed microseconds to a two-word timer and compares it  *)
(* with a two-word match register, and MiniSleep turns what is left into   *)
(* the timeout of ppoll.                                                   *)
(*                                                                         *)
(* A word has Word values instead of 2^32, and a pair of words Word^2      *)
(* instead of 2^64.  A second has Second ticks.  Host time 0 is the start  *)
(* of the program, the clock stops at Horizon, and it may be set back      *)
(* once.  The options are the default ones (no -l, time_divisor 1) except  *)
(* that do_sleep may be off.                                               *)
(***************************************************************************)
EXTENDS Integers

CONSTANTS
    Word,       \* the number of values of a machine word
    Second,     \* host clock ticks per second
    Horizon,    \* bound: the last host time of a run
    SetBacks,   \* how far the host clock may be set back
    Deadlines   \* the 64-bit values the guest programs

ASSUME ClockAssumption ==
    /\ Word \in Nat \ {0, 1}
    /\ Second \in Nat \ {0}
    /\ Horizon \in Nat /\ Horizon + Word < Word * Word
    /\ SetBacks \subseteq 1 .. Word - 1
    /\ Deadlines \subseteq 0 .. Word * Word - 1

VARIABLES
    now,                    \* GetTimeMicroseconds()
    lastTime,
    timerl, timerh,
    timermatchl, timermatchh,
    mtip, wfi, mie,         \* mip bit 7, extraflags bit 2, mstatus.MIE
    at,                     \* "between" two Steps, in one ("run"), or "asleep"
    nap,                    \* what is left of the timeout of ppoll
    doSleep,                \* do_sleep
    target, half,           \* the guest: what it programs, and whether only
                            \* the low word is stored yet
    setBack,                \* the host clock has been set back
    waitedDue               \* history: WFI ran with the timer already due

words == <<timerl, timerh, timermatchl, timermatchh>>
guest == <<target, half>>
vars == <<now, lastTime, words, mtip, wfi, mie, at, nap, doSleep, guest,
          setBack, waitedDue>>

Pair(high, low) == high * Word + low
Timer == Pair(timerh, timerl)
Match == Pair(timermatchh, timermatchl)

TypeOK ==
    /\ now \in 0 .. Horizon
    /\ lastTime \in 0 .. Horizon + Word
    /\ timerl \in 0 .. Word - 1 /\ timerh \in 0 .. Word - 1
    /\ timermatchl \in 0 .. Word - 1 /\ timermatchh \in 0 .. Word - 1
    /\ mtip \in BOOLEAN /\ wfi \in BOOLEAN /\ mie \in BOOLEAN
    /\ at \in {"between", "run", "asleep"}
    /\ nap \in 0 .. Word * Word - 1
    /\ doSleep \in BOOLEAN
    /\ target \in Deadlines \cup {0} /\ half \in BOOLEAN
    /\ setBack \in BOOLEAN /\ waitedDue \in BOOLEAN

Init ==
    /\ now = 0 /\ lastTime = 0
    /\ timerl = 0 /\ timerh = 0 /\ timermatchl = 0 /\ timermatchh = 0
    /\ mtip = FALSE /\ wfi = FALSE /\ mie = FALSE
    /\ at = "between" /\ nap = 0
    /\ doSleep \in BOOLEAN
    /\ target = 0 /\ half = FALSE
    /\ setBack = FALSE /\ waitedDue = FALSE

-----------------------------------------------------------------------------
(* The host clock.  ppoll counts on a clock of its own, which nobody sets. *)

Tick ==
    /\ now < Horizon
    /\ now' = now + 1
    /\ nap' = IF nap > 0 THEN nap - 1 ELSE 0
    /\ UNCHANGED <<lastTime, words, mtip, wfi, mie, at, doSleep, guest,
                   setBack, waitedDue>>

HostClockSet(d) ==
    /\ ~setBack /\ now >= d
    /\ now' = now - d
    /\ setBack' = TRUE
    /\ UNCHANGED <<lastTime, words, mtip, wfi, mie, at, nap, doSleep, guest,
                   waitedDue>>

-----------------------------------------------------------------------------
(* The Step.                                                               *)

\* Bug: the clocks are compared word by word.
ExpiredByWord(tl, th) ==
    th >= timermatchh /\ tl > timermatchl /\ Match # 0

Expired(tl, th) ==
    /\ th > timermatchh \/ (th = timermatchh /\ tl > timermatchl)
    /\ timermatchh # 0 \/ timermatchl # 0

\* Bug: a difference that does not fit is cut to the largest word.
ElapsedSaturates ==
    IF now - lastTime \in 0 .. Word - 1 THEN now - lastTime ELSE Word - 1

\* elapsedUs is 32 bits wide, whatever the clock has done.
Elapsed == (now - lastTime) % Word

\* Bug: the carry is lost.
AdvanceNoCarry(elapsed) ==
    /\ timerl' = (timerl + elapsed) % Word
    /\ UNCHANGED timerh

Advance(elapsed) ==
    /\ timerl' = (timerl + elapsed) % Word
    /\ timerh' = IF timerl' < timerl THEN (timerh + 1) % Word ELSE timerh

\* Bug: the timeout is rounded up to a second.
NapRoundsUp(delta) == ((delta + Second - 1) \div Second) * Second

\* MiniSleep: the rest below a second is counted in microseconds and given to
\* ppoll as nanoseconds, which is next to nothing.
Nap(delta) == (delta \div Second) * Second

Remaining(tl, th) == (Match - Pair(th, tl)) % (Word * Word)

\* A Step returned 1: the main loop sleeps, or polls again.
ReturnWaiting(tl, th) ==
    IF doSleep
      THEN at' = "asleep" /\ nap' = Nap(Remaining(tl, th))
      ELSE at' = "between" /\ UNCHANGED nap

Sample ==
    /\ lastTime' = lastTime + Elapsed
    /\ Advance(Elapsed)
    /\ UNCHANGED <<now, timermatchl, timermatchh, doSleep, guest, setBack,
                   waitedDue>>

\* Bug: a timer interrupt stays pending once it has been.
StepBeginKeepsMtip ==
    /\ at = "between"
    /\ Sample
    /\ mtip' = (mtip \/ Expired(timerl', timerh'))
    /\ wfi' = (wfi /\ ~Expired(timerl', timerh'))
    /\ IF wfi'
         THEN ReturnWaiting(timerl', timerh') /\ UNCHANGED mie
         ELSE IF mtip' /\ mie
           THEN at' = "between" /\ mie' = FALSE /\ UNCHANGED nap
           ELSE at' = "run" /\ UNCHANGED <<mie, nap>>

\* The timer trap is the only one modelled; the guest's handler is the guest
\* with its interrupts off.
StepBegin ==
    /\ at = "between"
    /\ Sample
    /\ mtip' = Expired(timerl', timerh')
    /\ wfi' = (wfi /\ ~mtip')
    /\ IF wfi'
         THEN ReturnWaiting(timerl', timerh') /\ UNCHANGED mie
         ELSE IF mtip' /\ mie
           THEN at' = "between" /\ mie' = FALSE /\ UNCHANGED nap
           ELSE at' = "run" /\ UNCHANGED <<mie, nap>>

TimerTrap == StepBegin /\ mie /\ ~mie'

StepEnd ==
    /\ at = "run"
    /\ at' = "between"
    /\ UNCHANGED <<now, lastTime, words, mtip, wfi, mie, nap, doSleep, guest,
                   setBack, waitedDue>>

-----------------------------------------------------------------------------
(* The guest.  It programs the timer low word first, with its interrupts   *)
(* off, and a Step may end between the two stores.                         *)

StoreMatchLow(t) ==
    /\ at = "run" /\ ~mie /\ ~half
    /\ timermatchl' = t % Word
    /\ target' = t /\ half' = TRUE
    /\ UNCHANGED <<now, lastTime, timerl, timerh, timermatchh, mtip, wfi, mie,
                   at, nap, doSleep, setBack, waitedDue>>

StoreMatchHigh ==
    /\ at = "run" /\ half
    /\ timermatchh' = target \div Word
    /\ half' = FALSE
    /\ UNCHANGED <<now, lastTime, timerl, timerh, timermatchl, mtip, wfi, mie,
                   at, nap, doSleep, target, setBack, waitedDue>>

SetMie(on) ==
    /\ at = "run" /\ ~half
    /\ mie' = on
    /\ UNCHANGED <<now, lastTime, words, mtip, wfi, at, nap, doSleep, guest,
                   setBack, waitedDue>>

Wfi ==
    /\ at = "run" /\ ~half
    /\ mie' = TRUE /\ wfi' = TRUE
    /\ ReturnWaiting(timerl, timerh)
    /\ waitedDue' = Expired(timerl, timerh)
    /\ UNCHANGED <<now, lastTime, words, mtip, doSleep, guest, setBack>>

-----------------------------------------------------------------------------
\* ppoll returns at its timeout, or when the keyboard, the network or the
\* display has something.
Timeout ==
    /\ at = "asleep" /\ nap = 0
    /\ at' = "between"
    /\ UNCHANGED <<now, lastTime, words, mtip, wfi, mie, nap, doSleep, guest,
                   setBack, waitedDue>>

Readable ==
    /\ at = "asleep"
    /\ at' = "between" /\ nap' = 0
    /\ UNCHANGED <<now, lastTime, words, mtip, wfi, mie, doSleep, guest,
                   setBack, waitedDue>>

\* The network thread raises the hart's line: the wait is over, the sleep is
\* not.
DeviceRaise ==
    /\ at # "run"
    /\ wfi' = FALSE
    /\ UNCHANGED <<now, lastTime, words, mtip, mie, at, nap, doSleep, guest,
                   setBack, waitedDue>>

Next ==
    \/ Tick
    \/ \E d \in SetBacks : HostClockSet(d)
    \/ StepBegin
    \/ StepEnd
    \/ \E t \in Deadlines : StoreMatchLow(t)
    \/ StoreMatchHigh
    \/ \E on \in BOOLEAN : SetMie(on)
    \/ Wfi
    \/ Timeout
    \/ Readable
    \/ DeviceRaise

\* Time passes, ppoll honours its timeout, and the main loop calls Step.
Spec ==
    /\ Init
    /\ [][Next]_vars
    /\ WF_vars(Tick)
    /\ WF_vars(Timeout)
    /\ WF_vars(StepBegin)

-----------------------------------------------------------------------------
\* The two words of the timer have counted, carries included, exactly what
\* the main loop has handed out.
TimerCountsSamples == Timer = lastTime

\* Whatever the gap between two samples, and after the host clock was set
\* back too, the low word agrees with the host clock: the timer is off by
\* whole wraps of a word only, and the next samples do not make it worse.
LowWordExact == [][StepBegin => timerl' = now % Word]_vars

\* A timer interrupt is taken only for a deadline the guest has stored whole
\* and that has passed: neither the half-stored match register nor an
\* interrupt of the deadline before is ever seen.
TrapsAreDue ==
    [][TimerTrap => ~half /\ target # 0 /\ Pair(timerh', timerl') > target]_vars

\* The program never asks ppoll to sleep past the deadline of a hart that
\* began to wait before it.
SleepsWithinDeadline ==
    at = "asleep" /\ wfi /\ ~waitedDue /\ Match # 0 => Timer + nap <= Match

-----------------------------------------------------------------------------
(* What makes the properties above inductive: the last sample is behind    *)
(* the host clock, or, once that was set back, ahead of it by a word at    *)
(* most; and the match register is what the guest programmed, or, with     *)
(* its interrupts off, the first half of it.                               *)

SampleNearClock == lastTime <= now + Word /\ (~setBack => lastTime <= now)

MatchIsTarget ==
    IF half THEN ~mie /\ timermatchl = target % Word ELSE Match = target

IInv ==
    /\ TypeOK /\ TimerCountsSamples /\ SampleNearClock
    /\ MatchIsTarget /\ SleepsWithinDeadline

-----------------------------------------------------------------------------
\* The samples come often enough for a word.
OnTime == now - lastTime < Word

\* A hart that began to wait before its deadline is woken, if the deadline
\* lies within the modelled time.
Waiting == wfi /\ Match # 0 /\ Match < Horizon
DeadlineEndsWait == []OnTime => (Waiting /\ ~waitedDue ~> ~wfi)

\* "Bit 2 = WFI (Wait for interrupt)", mini-rv32ima.h:96, and "Clear WFI",
\* mini-rv32ima.h:150: the timer interrupt ends a wait, whenever the wait
\* began.
TimerEndsWait == []OnTime => (Waiting ~> ~wfi)
=============================================================================
