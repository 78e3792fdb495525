------------------------------ MODULE Atomics ------------------------------
(***************************************************************************)
(* LR.W, SC.W and the AMOs of mini-rv32ima.h, as two contexts of a guest   *)
(* use them that a kernel switches between at any instruction.  The one    *)
(* reservation of the hart is the upper bits of extraflags, an address     *)
(* with no valid bit.  Each context increments shared words with LR and    *)
(* SC; its register survives a switch and the reservation is the hart's.   *)
(*                                                                         *)
(* The kernel is outside the repository: on its way back from a trap it    *)
(* executes an SC on a word of its own stack, as kernels do that mean to   *)
(* give the reservation up.                                                *)
(***************************************************************************)
EXTENDS Integers

CONSTANTS
    Contexts,
    Words,      \* the shared words, by their offset in RAM
    Stack,      \* the kernel's word
    MaxValue    \* bound: the highest value counted

VARIABLES
    mem,
    reservation,    \* extraflags >> 3
    running,        \* the context that runs
    register,       \* what the last LR of a context read
    reserved        \* history: per context, the word whose LR is still good:
                    \* no other store to it since

vars == <<mem, reservation, running, register, reserved>>

NoWord == -1
AllWords == Words \cup {Stack}

TypeOK ==
    /\ mem \in [AllWords -> 0 .. MaxValue]
    /\ reservation \in AllWords \cup {0}
    /\ running \in Contexts
    /\ register \in [Contexts -> 0 .. MaxValue]
    /\ reserved \in [Contexts -> Words \cup {NoWord}]

Init ==
    /\ mem = [w \in AllWords |-> 0]
    /\ reservation = 0
    /\ running \in Contexts
    /\ register = [c \in Contexts |-> 0]
    /\ reserved = [c \in Contexts |-> NoWord]

\* A store to w ends every context's claim to it.
Stored(w) ==
    reserved' = [c \in Contexts |-> IF reserved[c] = w THEN NoWord ELSE reserved[c]]

LoadReserved(w) ==
    /\ register' = [register EXCEPT ![running] = mem[w]]
    /\ reservation' = w
    /\ reserved' = [reserved EXCEPT ![running] = w]
    /\ UNCHANGED <<mem, running>>

\* The address is compared, and neither outcome touches the reservation.
SlotIsValid(w) == reservation = w

StoreConditional(w) ==
    /\ register[running] < MaxValue
    /\ IF SlotIsValid(w)
         THEN /\ mem' = [mem EXCEPT ![w] = register[running] + 1]
              /\ Stored(w)
         ELSE UNCHANGED <<mem, reserved>>
    /\ UNCHANGED <<reservation, running, register>>

AmoAdd(w) ==
    /\ mem[w] < MaxValue
    /\ mem' = [mem EXCEPT ![w] = @ + 1]
    /\ Stored(w)
    /\ UNCHANGED <<reservation, running, register>>

\* The SC on the kernel's stack, then another context.
Switch(c) ==
    /\ mem' = IF SlotIsValid(Stack) THEN [mem EXCEPT ![Stack] = 0] ELSE mem
    /\ running' = c
    /\ UNCHANGED <<reservation, register, reserved>>

Next ==
    \/ \E w \in Words : LoadReserved(w) \/ StoreConditional(w) \/ AmoAdd(w)
    \/ \E c \in Contexts : Switch(c)

Spec == Init /\ [][Next]_vars

\* "Make sure we have a slot, and, it's valid", "Validate that our reservation
\* slot is OK", mini-rv32ima.h:479-480: an SC that stores has a reservation its
\* own context made, and nothing has stored to the word since.
SlotIsOurs ==
    [][\A w \in Words :
        StoreConditional(w) /\ mem' # mem => reserved[running] = w]_vars
=============================================================================
