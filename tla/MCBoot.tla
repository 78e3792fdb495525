------------------------------- MODULE MCBoot -------------------------------
(***************************************************************************)
(* Instance of Boot for TLC: pages of four units, memories that are and    *)
(* are not whole pages, images below, at and above a page, a memory the    *)
(* images do not fit in, and room below the interrupt controller for the   *)
(* devices of three boots out of four.                                     *)
(***************************************************************************)
EXTENDS Boot

Machine(ram, kernel, initrd, dtb, tun) ==
    [ram |-> ram, kernel |-> kernel, initrd |-> initrd, dtb |-> dtb, tun |-> tun]

MCOptions ==
    {Machine(ram, kernel, initrd, TRUE, TRUE) :
        ram \in {39, 40, 41}, kernel \in {1, 6, 7, 42}, initrd \in {0, 3, 4}}
    \cup {Machine(20, 7, initrd, TRUE, FALSE) : initrd \in {0, 9}}
    \cup {Machine(40, 7, initrd, FALSE, TRUE) : initrd \in {0, 3}}

MCImageSizes == {1, 2, 3}
=============================================================================
