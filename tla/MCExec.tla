------------------------------- MODULE MCExec -------------------------------
(***************************************************************************)
(* Instance of Exec for TLC: words of four bits, four of the bytes in      *)
(* memory.  Every Op meets every pair of words, every immediate of the     *)
(* sample every format, every load and store every address.                *)
(***************************************************************************)
EXTENDS Exec

MCByte == 2
MCRamOffset == 6
MCRamSize == 8
MCDevices == {2, 3}
MCDeviceWord == 11

\* One bit at a time, all bits but one, and the small ones.
OneHot(bits) == UNION {{2^k, -(2^k), -(2^k) - 1, 2^k + 1} : k \in bits}
Signed12 == {x \in OneHot(0 .. 11) \cup -4 .. 4 : x \in -2048 .. 2047}
Even(top) == {2 * x : x \in {y \in OneHot(0 .. top - 1) : 2 * y \in -(2^top) .. 2^top - 1}}

Instr(op, rd, rs1, rs2, x) == [op |-> op, rd |-> rd, rs1 |-> rs1, rs2 |-> rs2, imm |-> x]
\* The operands once more, by which TLC tells the starts apart faster.
Registers(a, b) == [[r \in Regs |-> 0] EXCEPT ![1] = a, ![2] = b]
Start(i, a, b, m, at) == [instr |-> i, a |-> a, b |-> b, regs |-> Registers(a, b), mem |-> m, pc |-> at]

\* Two memories that differ in every byte, with both signs in both widths.
Memories == {[k \in 0 .. 7 |-> IF k \in {0, 3, 4, 7} THEN x ELSE 1 - x] : x \in {0, 1}}
AnyMemory == [k \in 0 .. 7 |-> k % 2]
Pc == 10

Operations ==
    {Start(Instr(op, rd, 1, 2, 0), a, b, AnyMemory, Pc) :
        op \in RegisterOps, rd \in {0, 1, 3}, a \in Words, b \in Words}
ImmediateForms ==
    {Start(Instr(op, 3, 1, 0, x), a, 0, AnyMemory, Pc) :
        op \in ImmediateOps \ Shifts, a \in {0, 5, 7, 8, 15}, x \in Signed12}
ShiftForms ==
    {Start(Instr(op, 3, 1, 0, x + (IF op = "SRAI" THEN 1024 ELSE 0)), a, 0, AnyMemory, Pc) :
        op \in Shifts, a \in Words, x \in 0 .. 3}
JumpsAndBranches ==
    {Start(Instr(op, 0, 1, 2, x), a, b, AnyMemory, Pc) :
        op \in Branches, a \in {1, 7, 8, 15}, b \in {1, 7, 8, 15}, x \in Even(12)}
    \cup {Start(Instr("JAL", rd, 0, 0, x), 0, 0, AnyMemory, Pc) : rd \in {0, 1}, x \in Even(20)}
    \cup {Start(Instr("JALR", rd, 1, 0, x), a, 0, AnyMemory, Pc) :
            rd \in {0, 1}, a \in Words, x \in Signed12}
    \cup {Start(Instr(op, 1, 0, 0, 4096 * x), 0, 0, AnyMemory, Pc) :
            op \in {"LUI", "AUIPC"}, x \in OneHot(0 .. 18)}
Transfers ==
    {Start(Instr(op, IF op \in Stores THEN 0 ELSE rd, 1, 2, x), a, b, m, Pc) :
        op \in Loads \cup Stores, rd \in {0, 1}, a \in Words, b \in {6, 9}, m \in Memories,
        x \in {0, 3, -1, 1024, -2048}}
    \cup {Start(Instr("SW", 0, 1, 2, x), 8, 5, AnyMemory, Pc) : x \in Signed12}
Atomic ==
    {Start(Instr(op, rd, 1, 2, 0), a, b, m, Pc) :
        op \in AmoOps, rd \in {0, 2}, a \in Words, b \in Words, m \in Memories}
Others ==
    {Start(Instr(op, 1, 0, 0, 0), 0, 0, AnyMemory, at) : op \in {"FENCE", "NONE", "ADD"}, at \in Words}

\* Words of every opcode but SYSTEM and of every funct3, with some of the upper
\* seven bits; x1 and x2 where the operands are, LR and SC left out.
Uppers == {-64, -33, -24, -16, 0, 1, 2, 3, 4, 16, 20, 31, 32, 33, 48, 63}
WordOf(opcode, f3, upper) ==
    opcode + 2^7 * 3 + 2^12 * f3 + 2^15 * 1 + 2^20 * 2 + 2^25 * upper
ReservedToo ==
    {WordOf(opcode, f3, upper) :
        opcode \in {3, 11, 15, 19, 23, 35, 47, 51, 55, 99, 103, 111, 0, 1, 2, 7, 39, 59, 127},
        f3 \in 0 .. 7, upper \in Uppers}
LrOrSc(w) == Bits(w, 6, 0) = 47 /\ Bits(w, 31, 27) \in {2, 3}
AnyWords ==
    {Start(Instr("WORD", 0, 0, 0, w), a, 5, AnyMemory, Pc) :
        w \in {x \in ReservedToo : ~LrOrSc(x)}, a \in {0, 1, 8, 13}}

MCStarts ==
    Operations \cup ImmediateForms \cup ShiftForms \cup JumpsAndBranches \cup Transfers \cup Atomic
    \cup Others \cup AnyWords
=============================================================================
