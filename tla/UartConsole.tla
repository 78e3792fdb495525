---------------------------- MODULE UartConsole ----------------------------
(***************************************************************************)
(* From a key typed at the terminal to the thread of an LK guest that      *)
(* reads it: stdin (stdio.c), the UART (pl011.c), the PLIC, and LK's       *)
(* driver (lk/dev/uart/pl011/uart.c) with its receive buffer.  The driver  *)
(* stops the input by masking the receive interrupt when its buffer is     *)
(* full, and a thread that takes a character unmasks it.                   *)
(*                                                                         *)
(* The main loop polls stdin after every Step, and a Step may end between  *)
(* any two accesses of the guest: Boundary is the end of one Step with     *)
(* that poll, and the begin of the next.  The n-th byte typed is n; the    *)
(* bytes of High have bit 7 set.  LK's circular buffer, its threads and    *)
(* its PLIC driver are outside the repository.                             *)
(***************************************************************************)
EXTENDS Plic, Sequences

CONSTANTS
    Uart,       \* uart_irq
    BufSize,    \* the characters the receive buffer holds
    MaxBytes,   \* bound: how many bytes are typed
    High        \* the bytes above 0x7f

ASSUME ConsoleAssumption ==
    /\ Uart \in Irq
    /\ BufSize \in Nat \ {0}
    /\ MaxBytes \in Nat
    /\ High \subseteq 1 .. MaxBytes

VARIABLES
    stdin,          \* bytes that wait
    typed,          \* how many have been typed
    tty,            \* a write to stdin succeeds: a terminal that is still there
    is_eofd,
    irq_status,     \* the bits that are set, of which only Rx ever is
    irq_mask,       \* the bits that are set
    at,             \* the guest: "run", or a point of its interrupt handler
    rxbuf,          \* uart_rx_buf
    thread,         \* "wants" a character, or "has" one and has to unmask
    got             \* the character read last

device == <<is_eofd, irq_status, irq_mask>>
terminal == <<stdin, typed, tty>>
guest == <<rxbuf, thread, got>>
vars == <<plicVars, terminal, device, at, guest>>

Rx == 4
Timeout == 6        \* rtim, which this UART never sets
Bytes == 1 .. MaxBytes

TypeOK ==
    /\ PlicTypeOK
    /\ stdin \in Seq(Bytes) /\ typed \in 0 .. MaxBytes
    /\ tty \in BOOLEAN /\ is_eofd \in BOOLEAN
    /\ irq_status \subseteq {Rx} /\ irq_mask \subseteq {Rx, Timeout}
    /\ at \in {"run", "claim", "status", "clear", "flags", "mask", "data", "complete"}
    /\ rxbuf \in Seq(Bytes)
    /\ thread \in {"wants", "has"}
    /\ got \in 0 .. MaxBytes

\* The guest has run pl011_uart_init.
Init ==
    /\ PlicInit
    /\ stdin = <<>> /\ typed = 0 /\ tty = TRUE /\ is_eofd = FALSE
    /\ irq_status = {} /\ irq_mask = {Rx, Timeout}
    /\ at = "run"
    /\ rxbuf = <<>> /\ thread = "wants" /\ got = 0

-----------------------------------------------------------------------------
(* The terminal.                                                           *)

Type ==
    /\ typed < MaxBytes
    /\ typed' = typed + 1
    /\ stdin' = Append(stdin, typed')
    /\ UNCHANGED <<plicVars, tty, device, at, guest>>

Hangup ==
    /\ tty
    /\ tty' = FALSE
    /\ UNCHANGED <<plicVars, stdin, typed, device, at, guest>>

-----------------------------------------------------------------------------
(* IsKBHit with s waiting at stdin: it answers -1 once it has seen the end  *)
(* of file, which is not 0 and not true, or whether a byte waits.          *)

Eof(s) == is_eofd \/ (s = <<>> /\ ~tty)
KBHit(s) == Eof(s) \/ s # <<>>
KBHitIsTrue(s) == ~Eof(s) /\ s # <<>>

MaybeIrq == IF irq_status' \cap irq_mask' # {} THEN PlicRaise(Uart) ELSE PlicClear(Uart)

\* Bug: the poll records the byte and leaves the interrupt as it is.
PollOnlyRecords(s) ==
    /\ is_eofd' = Eof(s)
    /\ irq_status' = IF KBHitIsTrue(s) THEN irq_status \cup {Rx} ELSE irq_status \ {Rx}
    /\ UNCHANGED <<plicVars, irq_mask>>

Poll(s) ==
    /\ is_eofd' = Eof(s)
    /\ irq_status' = IF KBHitIsTrue(s) THEN irq_status \cup {Rx} ELSE irq_status \ {Rx}
    /\ UNCHANGED irq_mask
    /\ MaybeIrq

\* A Step ends, stdin is polled, and the next Step begins; a handler runs with
\* the interrupts off.
Boundary ==
    /\ Poll(stdin)
    /\ at' = IF at = "run" /\ meip' /\ ~wfi' THEN "claim" ELSE at
    /\ UNCHANGED <<terminal, guest>>

\* The timer ends a wait.
Wake ==
    /\ wfi
    /\ wfi' = FALSE
    /\ UNCHANGED <<irq_pending, irq_claimed, meip, terminal, device, at, guest>>

-----------------------------------------------------------------------------
(* The interrupt handler.                                                  *)

Claim ==
    /\ at = "claim"
    /\ \/ PlicClaim(Uart) /\ at' = "status"
       \/ PlicClaimNothing /\ at' = "run"
    /\ UNCHANGED <<terminal, device, guest>>

StatusLoad ==
    /\ at = "status"
    /\ at' = IF irq_status \cap irq_mask # {} THEN "clear" ELSE "complete"
    /\ UNCHANGED <<plicVars, terminal, device, guest>>

\* A store to the clear register does not look at the interrupt.
ClearStore ==
    /\ at = "clear"
    /\ irq_status' = irq_status \ {Rx}
    /\ at' = "flags"
    /\ UNCHANGED <<plicVars, terminal, is_eofd, irq_mask, guest>>

\* Bug: the driver does not look whether its buffer is full.
FlagsIgnoreSpace ==
    /\ at = "flags"
    /\ is_eofd' = Eof(stdin)
    /\ at' = IF KBHit(stdin) THEN "data" ELSE "complete"
    /\ UNCHANGED <<plicVars, terminal, irq_status, irq_mask, guest>>

FlagsLoad ==
    /\ at = "flags"
    /\ is_eofd' = Eof(stdin)
    /\ at' = IF ~KBHit(stdin) THEN "complete"
             ELSE IF Len(rxbuf) = BufSize THEN "mask" ELSE "data"
    /\ UNCHANGED <<plicVars, terminal, irq_status, irq_mask, guest>>

\* The mask register reads as 0, so that &= stores 0.
MaskStore ==
    /\ at = "mask"
    /\ irq_mask' = {}
    /\ at' = "complete"
    /\ UNCHANGED <<terminal, is_eofd, irq_status, guest>>
    /\ MaybeIrq

\* The data register gives the byte as a signed char, widened: bit 7 fills the
\* bits the driver takes for a break, as the answer at the end of file does.
\* Such a byte is not put in the buffer.
DataLoad ==
    /\ at = "data"
    /\ stdin' = IF is_eofd \/ stdin = <<>> THEN stdin ELSE Tail(stdin)
    /\ rxbuf' = IF is_eofd \/ stdin = <<>> \/ Head(stdin) \in High \/ Len(rxbuf) = BufSize
                  THEN rxbuf ELSE Append(rxbuf, Head(stdin))
    /\ Poll(stdin')
    /\ at' = "flags"
    /\ UNCHANGED <<typed, tty, thread, got>>

\* LK's handler may return, or claim again first.
Complete ==
    /\ at = "complete"
    /\ PlicComplete(Uart)
    /\ at' \in {"run", "claim"}
    /\ UNCHANGED <<terminal, device, guest>>

-----------------------------------------------------------------------------
(* The thread that reads the console, and the idle thread.                 *)

Running == at = "run" /\ ~wfi

\* Bug: the interrupt stays masked.
GetcForgets ==
    /\ Running /\ thread = "wants"
    /\ rxbuf # <<>>
    /\ got' = Head(rxbuf)
    /\ rxbuf' = Tail(rxbuf)
    /\ UNCHANGED <<plicVars, terminal, device, at, thread>>

Getc ==
    /\ Running /\ thread = "wants"
    /\ rxbuf # <<>>
    /\ got' = Head(rxbuf)
    /\ rxbuf' = Tail(rxbuf)
    /\ thread' = "has"
    /\ UNCHANGED <<plicVars, terminal, device, at>>

\* |= on a register that reads as 0 stores the one bit.
Unmask ==
    /\ Running /\ thread = "has"
    /\ irq_mask' = {Rx}
    /\ thread' = "wants"
    /\ UNCHANGED <<terminal, is_eofd, irq_status, at, rxbuf, got>>
    /\ MaybeIrq

Idle ==
    /\ Running /\ thread = "wants" /\ rxbuf = <<>>
    /\ wfi' = TRUE
    /\ UNCHANGED <<irq_pending, irq_claimed, meip, terminal, device, at, guest>>

-----------------------------------------------------------------------------
Handler ==
    \/ Claim \/ StatusLoad \/ ClearStore \/ FlagsLoad \/ MaskStore
    \/ DataLoad \/ Complete

Thread == Getc \/ Unmask

Next == Type \/ Hangup \/ Boundary \/ Wake \/ Handler \/ Thread \/ Idle

\* Steps follow each other, the handler goes on, and a thread that waits for a
\* character reads it and unmasks.
Spec ==
    /\ Init
    /\ [][Next]_vars
    /\ WF_vars(Boundary)
    /\ WF_vars(Handler)
    /\ WF_vars(Thread)

-----------------------------------------------------------------------------
Promise == INSTANCE ByteFifo WITH
    waiting <- rxbuf \o stdin, Dropped <- High

\* Whatever the interleaving of typing, polls, the handler and the thread, the
\* bytes below 0x80 come to the thread each once and in order, and no others:
\* the receive buffer never runs over, and the flow control drops nothing.
ConsoleIsFifo == Promise!ByteSpec

\* A UART that is masked has somebody to unmask it: a character is left in the
\* buffer for the thread, or the thread has one and is about to.  Handler and
\* thread both write the mask register, without a lock.
MaskedHasReader == Rx \notin irq_mask => rxbuf # <<>> \/ thread = "has"

-----------------------------------------------------------------------------
(* What makes MaskedHasReader inductive: the handler goes to mask the      *)
(* interrupt only with characters in the buffer, and takes none out.       *)

BufferBounded == Len(rxbuf) <= BufSize

MaskedWhenFull == at = "mask" => rxbuf # <<>>

\* And what makes every step one of ByteFifo: the handler loads a byte only
\* with room for it, and puts none in the buffer that is to be dropped.
RoomForData == at = "data" => Len(rxbuf) < BufSize

BufferPlain == \A i \in DOMAIN rxbuf : rxbuf[i] \notin High

IInv ==
    /\ TypeOK /\ BufferBounded /\ MaskedWhenFull /\ MaskedHasReader
    /\ RoomForData /\ BufferPlain

-----------------------------------------------------------------------------
\* As long as the terminal is there, every byte below 0x80 comes to the thread.
BytesArrive ==
    []tty => \A b \in Bytes \ High : typed >= b ~> got >= b

=============================================================================
