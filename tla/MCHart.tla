------------------------------- MODULE MCHart -------------------------------
(* One word of RAM gives every kind of address (in RAM, past it, 0 and     *)
(* misaligned); two instructions per Step give a Step that is cut short    *)
(* and one that runs to its end.                                           *)
EXTENDS Hart

OneOfEach == {3, 7, 9, 11}     \* software, timer, supervisor, external
AllOrNone == {{}, IrqBits}
SoftwareOrSupervisor == {{}, {3}, {3, 9}}
=============================================================================
