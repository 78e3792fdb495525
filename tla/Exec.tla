-------------------------------- MODULE Exec --------------------------------
(***************************************************************************)
(* What one instruction does to the registers, the memory and the program  *)
(* counter: the switch over the opcode in MiniRV32IMAStep, but for the     *)
(* SYSTEM instructions (module Hart) and LR and SC (module Atomics).       *)
(*                                                                         *)
(* A byte has Byte values, 256 in the code, and a word is four bytes: for  *)
(* the runs a word has few enough values to try them all.  An instruction  *)
(* has its 32 bits whatever Byte is: Encode is the encoding of the ISA,    *)
(* and the actions, like the code, see the bits only.  What the mnemonic   *)
(* means is said a second time, the way the ISA says it, in the            *)
(* properties.  Other words than the mnemonics' are tried too, as they     *)
(* are: what the ISA reserves, of which the code executes a good part.     *)
(***************************************************************************)
EXTENDS Integers

CONSTANTS
    Byte,           \* the number of values of a byte
    RamOffset,      \* MINIRV32_RAM_IMAGE_OFFSET
    RamSize,        \* MINI_RV32_RAM_SIZE, in bytes
    DeviceWindow,   \* the addresses of the devices
    DeviceWord,     \* what a device answers to a load
    Starts          \* [instr, regs, mem, pc]: an instruction, or any word, and
                    \* what it meets

Word == Byte * Byte * Byte * Byte
WordBits == CASE Byte = 2 -> 4 [] Byte = 4 -> 8 [] Byte = 256 -> 32
Words == 0 .. Word - 1
Regs == 0 .. 31
Offsets == 0 .. RamSize - 1

-----------------------------------------------------------------------------
(* The instructions and their encoding.                                    *)

\* The instructions, by what they do; those with a digit and NONE are encodings
\* that mean nothing.
Branches == {"BEQ", "BNE", "B2", "BLT", "BGE", "BLTU", "BGEU"}
Loads == {"LB", "LH", "LW", "L3", "LBU", "LHU"}
Stores == {"SB", "SH", "SW", "S3"}
Shifts == {"SLLI", "SRLI", "SRAI"}
ImmediateOps == {"ADDI", "SLTI", "SLTIU", "XORI", "ORI", "ANDI"} \cup Shifts
MulDivOps == {"MUL", "MULH", "MULHSU", "MULHU", "DIV", "DIVU", "REM", "REMU"}
RegisterOps ==
    {"ADD", "SUB", "SLL", "SLT", "SLTU", "XOR", "SRL", "SRA", "OR", "AND"} \cup MulDivOps
AmoOps ==
    {"AMOADD", "AMOSWAP", "AMOXOR", "AMOOR", "AMOAND", "AMOMIN", "AMOMAX", "AMOMINU", "AMOMAXU", "AMO5"}
Mnemonics ==
    {"LUI", "AUIPC", "JAL", "JALR", "FENCE", "NONE"}
    \cup Branches \cup Loads \cup Stores \cup ImmediateOps \cup RegisterOps \cup AmoOps

Format(op) ==
    CASE op \in {"LUI", "AUIPC"} -> "U"
      [] op = "JAL" -> "J"
      [] op \in {"JALR", "FENCE"} \cup Loads \cup ImmediateOps -> "I"
      [] op \in Branches -> "B"
      [] op \in Stores -> "S"
      [] op \in {"NONE"} \cup RegisterOps \cup AmoOps -> "R"
      [] op = "WORD" -> "W"

IsaOpcode(op) ==
    CASE op = "LUI" -> 55 [] op = "AUIPC" -> 23 [] op = "JAL" -> 111 [] op = "JALR" -> 103
      [] op \in Branches -> 99 [] op \in Loads -> 3 [] op \in Stores -> 35
      [] op \in ImmediateOps -> 19 [] op \in RegisterOps -> 51
      [] op = "FENCE" -> 15 [] op \in AmoOps -> 47 [] op = "NONE" -> 11

IsaFunct3(op) ==
    CASE op \in {"BNE", "LH", "SH", "SLLI", "SLL", "MULH"} -> 1
      [] op \in {"B2", "LW", "SW", "SLTI", "SLT", "MULHSU"} \cup AmoOps -> 2
      [] op \in {"L3", "S3", "SLTIU", "SLTU", "MULHU"} -> 3
      [] op \in {"BLT", "LBU", "XORI", "XOR", "DIV"} -> 4
      [] op \in {"BGE", "LHU", "SRLI", "SRAI", "SRL", "SRA", "DIVU"} -> 5
      [] op \in {"BLTU", "ORI", "OR", "REM"} -> 6
      [] op \in {"BGEU", "ANDI", "AND", "REMU"} -> 7
      [] OTHER -> 0

\* The highest bits of an R, as a signed number.
IsaFunct7(op) ==
    CASE op \in {"SUB", "SRA", "AMOOR"} -> 32 [] op \in MulDivOps -> 1
      [] op = "AMOSWAP" -> 4 [] op = "AMOXOR" -> 16 [] op = "AMO5" -> 20 [] op = "AMOAND" -> 48
      [] op = "AMOMIN" -> -64 [] op = "AMOMAX" -> -48 [] op = "AMOMINU" -> -32
      [] op = "AMOMAXU" -> -16
      [] OTHER -> 0

\* The immediates an instruction can have: signed, and as long as its format has
\* bits for.  A shift by a constant has the distance, and bit 10 for SRAI.
HasImmediate(i) ==
    LET Multiple(size, half) == i.imm % size = 0 /\ i.imm \div size \in -half .. half - 1
    IN  CASE Format(i.op) = "R" -> i.imm = 0
          [] i.op \in Shifts \ {"SRAI"} -> i.imm \in 0 .. 31
          [] i.op = "SRAI" -> i.imm - 2^10 \in 0 .. 31
          [] Format(i.op) \in {"I", "S"} /\ i.op \notin Shifts -> Multiple(1, 2^11)
          [] Format(i.op) = "B" -> Multiple(2, 2^11)
          [] Format(i.op) = "U" -> Multiple(2^12, 2^19)
          [] Format(i.op) = "J" -> Multiple(2, 2^19)

Instructions == {i \in [op : Mnemonics, rd : Regs, rs1 : Regs, rs2 : Regs, imm : Int] : HasImmediate(i)}

\* The bits hi down to lo of x, moved down to bit 0.
Bits(x, hi, lo) == (x \div 2^lo) % 2^(hi - lo + 1)

\* The encoding of an instruction: the signed number with its 32 bits.
Encode(i) ==
    LET opcode == IsaOpcode(i.op)
        rd == 2^7 * i.rd
        middle == 2^12 * IsaFunct3(i.op) + 2^15 * i.rs1
        rs2 == 2^20 * i.rs2
        x == i.imm
    IN  CASE Format(i.op) = "R" ->
                opcode + rd + middle + rs2 + 2^25 * IsaFunct7(i.op)
          [] Format(i.op) = "I" ->
                opcode + rd + middle + 2^20 * x
          [] Format(i.op) = "S" ->
                opcode + 2^7 * Bits(x, 4, 0) + middle + rs2 + 2^25 * (x \div 2^5)
          [] Format(i.op) = "B" ->
                opcode + 2^7 * (Bits(x, 11, 11) + 2 * Bits(x, 4, 1)) + middle + rs2
                + 2^25 * (Bits(x, 10, 5) + 2^6 * (x \div 2^12))
          [] Format(i.op) = "U" ->
                opcode + rd + x
          [] Format(i.op) = "J" ->
                opcode + rd + 2^12 * Bits(x, 19, 12)
                + 2^20 * (Bits(x, 11, 11) + 2 * Bits(x, 10, 1) + 2^11 * (x \div 2^20))
          [] Format(i.op) = "W" -> x

\* Any word where an instruction is fetched: imm is its 32 bits.  Of those with
\* the opcode of SYSTEM, and of LR and SC, other modules tell.
AnyWord ==
    [op : {"WORD"}, rd : {0}, rs1 : {0}, rs2 : {0}, imm : -(2^30) - 2^30 .. 2^30 - 1 + 2^30]

ASSUME ExecAssumption ==
    /\ Byte \in {2, 4, 256} /\ RamSize \in Nat /\ RamSize > 3
    /\ RamOffset \in Words /\ RamOffset + RamSize <= Word
    /\ DeviceWindow \subseteq 0 .. RamOffset - 1
    /\ DeviceWord \in Words

ASSUME StartsAssumption ==
    \A s \in Starts :
        /\ s.instr \in Instructions \cup AnyWord
        /\ s.regs \in [Regs -> Words]
        /\ s.mem \in [Offsets -> 0 .. Byte - 1]
        /\ s.pc \in Words

VARIABLES
    instr,      \* the instruction: mnemonic, registers, immediate
    regs,
    mem,
    pc,         \* that of the instruction, then the next one's, or mepc
    trap,       \* 0, or the cause and 1
    rval,       \* what goes to rd, or to mtval
    imm,        \* the immediate the code has put together
    bus,        \* what the device has been given
    done,       \* the instruction has been executed
    was         \* history: registers, memory and pc before it

vars == <<instr, regs, mem, pc, trap, rval, imm, bus, done, was>>

Signed(x) == IF x < Word \div 2 THEN x ELSE x - Word
Cut(x) == x % Word
OfBool(b) == IF b THEN 1 ELSE 0

-----------------------------------------------------------------------------
(* The arithmetic, by funct3.                                              *)

\* Bit k of a word; the bits that are 1; the word that has these.
Bit(x, k) == (x \div 2^k) % 2 = 1
BitsOf(x) == {k \in 0 .. WordBits - 1 : Bit(x, k)}
OfBits(S) == CHOOSE x \in Words : BitsOf(x) = S

And(a, b) == OfBits(BitsOf(a) \cap BitsOf(b))
Or(a, b) == OfBits(BitsOf(a) \cup BitsOf(b))
Xor(a, b) == OfBits((BitsOf(a) \ BitsOf(b)) \cup (BitsOf(b) \ BitsOf(a)))

\* Division of C: the quotient is cut towards zero.
Quotient(a, b) ==
    LET q == (IF a < 0 THEN -a ELSE a) \div (IF b < 0 THEN -b ELSE b)
    IN  IF (a < 0) = (b < 0) THEN q ELSE -q
Remainder(a, b) == a - b * Quotient(a, b)

Overflows(a, b) == Signed(a) = -(Word \div 2) /\ Signed(b) = -1

MulDiv(f, a, b) ==
    CASE f = 0 -> Cut(a * b)
      [] f = 1 -> Cut((Signed(a) * Signed(b)) \div Word)
      [] f = 2 -> Cut((((Signed(a) % (Word * Word)) * b) % (Word * Word)) \div Word)
      [] f = 3 -> (a * b) \div Word
      [] f = 4 -> IF b = 0 THEN Word - 1
                  ELSE IF Overflows(a, b) THEN a ELSE Cut(Quotient(Signed(a), Signed(b)))
      [] f = 5 -> IF b = 0 THEN Word - 1 ELSE a \div b
      [] f = 6 -> IF b = 0 THEN a
                  ELSE IF Overflows(a, b) THEN 0 ELSE Cut(Remainder(Signed(a), Signed(b)))
      [] f = 7 -> IF b = 0 THEN a ELSE a % b

Shift(b) == 2 ^ (b % WordBits)

\* Op and Op-immediate.  sub and sra are bit 30, which is part of the
\* immediate in an Op-immediate: only a register form subtracts.
Basic(f, isReg, bit30, a, b) ==
    CASE f = 0 -> IF isReg /\ bit30 THEN Cut(a - b) ELSE Cut(a + b)
      [] f = 1 -> Cut(a * Shift(b))
      [] f = 2 -> OfBool(Signed(a) < Signed(b))
      [] f = 3 -> OfBool(a < b)
      [] f = 4 -> Xor(a, b)
      [] f = 5 -> IF bit30 THEN Cut(Signed(a) \div Shift(b)) ELSE a \div Shift(b)
      [] f = 6 -> Or(a, b)
      [] f = 7 -> And(a, b)

-----------------------------------------------------------------------------
(* What the code takes out of the bits.                                    *)

\* (ir & mask of the bits hi down to lo), moved to the right by some places.
Move(ir, hi, lo, places) == Bits(ir, hi, lo) * 2^(lo - places)

\* The same of bit 31, moved to the place "to".
MoveTop(ir, to) == IF ir < 0 THEN 2^to ELSE 0

\* A number whose sign bit is worth "sign".
SignExtend(x, sign) == IF x >= sign THEN x - 2 * sign ELSE x

Opcode(ir) == Bits(ir, 6, 0)
Rd(ir) == Bits(ir, 11, 7)
Funct3(ir) == Bits(ir, 14, 12)
Rs1(ir) == regs[Bits(ir, 19, 15)]
Rs2(ir) == regs[Bits(ir, 24, 20)]
Irmid(ir) == Bits(ir, 31, 27)
IsReg(ir) == Bits(ir, 5, 5) = 1
Bit25(ir) == Bits(ir, 25, 25) = 1
Bit30(ir) == Bits(ir, 30, 30) = 1

ImmediateU(ir) == 2^12 * SignExtend(Bits(ir, 31, 12), 2^19)
ImmediateI(ir) == SignExtend(Bits(ir, 31, 20), 2^11)
ImmediateS(ir) == SignExtend(Move(ir, 11, 7, 7) + Move(ir, 31, 25, 20), 2^11)
ImmediateJ(ir) == SignExtend(MoveTop(ir, 20) + Move(ir, 30, 21, 20)
                             + Move(ir, 20, 20, 9) + Move(ir, 19, 12, 0), 2^20)

ImmediateB(ir) == SignExtend(Move(ir, 11, 8, 7) + Move(ir, 30, 25, 20)
                             + Move(ir, 7, 7, -4) + MoveTop(ir, 12), 2^12)

\* Bug: the bits 25 and 30 of an immediate are taken for those of an Op.
AluByBits(ir, a, b) ==
    IF Bit25(ir) THEN MulDiv(Funct3(ir), a, b) ELSE Basic(Funct3(ir), TRUE, Bit30(ir), a, b)

Alu(ir, a, b) ==
    IF IsReg(ir) /\ Bit25(ir)
    THEN MulDiv(Funct3(ir), a, b)
    ELSE Basic(Funct3(ir), IsReg(ir), Bit30(ir), a, b)

Taken(f, a, b) ==
    CASE f = 0 -> a = b
      [] f = 1 -> a # b
      [] f = 4 -> Signed(a) < Signed(b)
      [] f = 5 -> Signed(a) >= Signed(b)
      [] f = 6 -> a < b
      [] f = 7 -> a >= b

-----------------------------------------------------------------------------
(* Memory, little endian.                                                  *)

\* The number in the n bytes of m from the offset o on.
LoadBytes(m, o, n) ==
    CASE n = 1 -> m[o]
      [] n = 2 -> m[o] + Byte * m[o + 1]
      [] n = 4 -> m[o] + Byte * m[o + 1] + Byte^2 * m[o + 2] + Byte^3 * m[o + 3]

\* Bug: a store reaches one byte too far.
StoreBytesOneMore(m, o, n, x) ==
    [k \in DOMAIN m |-> IF k \in o .. o + n THEN (x \div Byte^(k - o)) % Byte ELSE m[k]]

StoreBytes(m, o, n, x) ==
    [k \in DOMAIN m |-> IF k \in o .. o + n - 1 THEN (x \div Byte^(k - o)) % Byte ELSE m[k]]

\* rs1 + imm - MINIRV32_RAM_IMAGE_OFFSET, as an unsigned word.
Offset(addr) == Cut(addr - RamOffset)
OutsideRam(o) == o >= RamSize - 3

Loaded(f, o) ==
    CASE f = 0 -> Cut(SignExtend(LoadBytes(mem, o, 1), Byte \div 2))
      [] f = 1 -> Cut(SignExtend(LoadBytes(mem, o, 2), Byte^2 \div 2))
      [] f = 2 -> LoadBytes(mem, o, 4)
      [] f = 4 -> LoadBytes(mem, o, 1)
      [] f = 5 -> LoadBytes(mem, o, 2)

\* What an AMO writes, of what it read and rs2.
Combined(irmid, old, b) ==
    CASE irmid = 1 -> b
      [] irmid = 0 -> Cut(b + old)
      [] irmid = 4 -> Xor(b, old)
      [] irmid = 12 -> And(b, old)
      [] irmid = 8 -> Or(b, old)
      [] irmid = 16 -> IF Signed(b) < Signed(old) THEN b ELSE old
      [] irmid = 20 -> IF Signed(b) > Signed(old) THEN b ELSE old
      [] irmid = 24 -> IF b < old THEN b ELSE old
      [] irmid = 28 -> IF b > old THEN b ELSE old
Supported == {0, 1, 4, 8, 12, 16, 20, 24, 28}

-----------------------------------------------------------------------------
(* One turn of the loop over icount.                                       *)

Init ==
    \E s \in Starts :
        /\ instr = s.instr
        /\ regs = s.regs /\ mem = s.mem /\ pc = s.pc
        /\ trap = 0 /\ rval = 0 /\ imm = 0 /\ bus = {} /\ done = FALSE
        /\ was = [regs |-> regs, mem |-> mem, pc |-> pc]

\* Bug: the register is written whether there was a trap or not.
RetireWrites(cause, rdid, value, target) ==
    /\ trap' = cause
    /\ rval' = IF cause = 0 \/ cause \in 6 .. 8 THEN value ELSE target
    /\ regs' = IF rdid # 0 THEN [regs EXCEPT ![rdid] = value] ELSE regs
    /\ pc' = IF cause = 0 THEN Cut(target + 4) ELSE target
    /\ done' = TRUE
    /\ UNCHANGED <<instr, was>>

\* The end of the turn: no writeback and no step of the pc after a trap, and
\* mtval is rval for a fault of a load or a store and the pc for all others.
Retire(cause, rdid, value, target) ==
    /\ trap' = cause
    /\ rval' = IF cause = 0 \/ cause \in 6 .. 8 THEN value ELSE target
    /\ regs' = IF cause = 0 /\ rdid # 0 THEN [regs EXCEPT ![rdid] = value] ELSE regs
    /\ pc' = IF cause = 0 THEN Cut(target + 4) ELSE target
    /\ done' = TRUE
    /\ UNCHANGED <<instr, was>>

FetchFault ==
    /\ ~done
    /\ \/ /\ Offset(pc) >= RamSize
          /\ Retire(2, 0, 0, pc)
       \/ /\ Offset(pc) < RamSize /\ Offset(pc) % 4 # 0
          /\ Retire(1, 0, 0, pc)
    /\ UNCHANGED <<mem, imm, bus>>

Fetched == ~done /\ Offset(pc) < RamSize /\ Offset(pc) % 4 = 0

Upper ==
    LET ir == Encode(instr) IN
    /\ Fetched /\ Opcode(ir) \in {55, 23}
    /\ imm' = ImmediateU(ir)
    /\ Retire(0, Rd(ir), Cut(imm' + (IF Opcode(ir) = 23 THEN pc ELSE 0)), pc)
    /\ UNCHANGED <<mem, bus>>

Jal ==
    LET ir == Encode(instr) IN
    /\ Fetched /\ Opcode(ir) = 111
    /\ imm' = ImmediateJ(ir)
    /\ Retire(0, Rd(ir), Cut(pc + 4), Cut(pc + imm' - 4))
    /\ UNCHANGED <<mem, bus>>

Jalr ==
    LET ir == Encode(instr) IN
    /\ Fetched /\ Opcode(ir) = 103
    /\ imm' = ImmediateI(ir)
    /\ LET sum == Cut(Rs1(ir) + imm')
       IN  Retire(0, Rd(ir), Cut(pc + 4), Cut(sum - (sum % 2) - 4))
    /\ UNCHANGED <<mem, bus>>

Branch ==
    LET ir == Encode(instr)
        f == Funct3(ir)
    IN
    /\ Fetched /\ Opcode(ir) = 99
    /\ imm' = ImmediateB(ir)
    /\ \/ /\ f \in {2, 3}
          /\ Retire(3, 0, 0, pc)
       \/ /\ f \notin {2, 3}
          /\ Retire(0, 0, 0, IF Taken(f, Rs1(ir), Rs2(ir)) THEN Cut(pc + imm' - 4) ELSE pc)
    /\ UNCHANGED <<mem, bus>>

\* A device gets the address only: it answers a whole word to any width.
Load ==
    LET ir == Encode(instr)
        f == Funct3(ir)
        addr == Cut(Rs1(ir) + ImmediateI(ir))
    IN
    /\ Fetched /\ Opcode(ir) = 3
    /\ imm' = ImmediateI(ir)
    /\ \/ /\ OutsideRam(Offset(addr)) /\ addr \in DeviceWindow
          /\ Retire(0, Rd(ir), DeviceWord, pc)
       \/ /\ OutsideRam(Offset(addr)) /\ addr \notin DeviceWindow
          /\ Retire(6, Rd(ir), addr, pc)
       \/ /\ ~OutsideRam(Offset(addr)) /\ f \in {3, 6, 7}
          /\ Retire(3, Rd(ir), 0, pc)
       \/ /\ ~OutsideRam(Offset(addr)) /\ f \notin {3, 6, 7}
          /\ Retire(0, Rd(ir), Loaded(f, Offset(addr)), pc)
    /\ UNCHANGED <<mem, bus>>

Store ==
    LET ir == Encode(instr)
        f == Funct3(ir)
        addr == Cut(Rs1(ir) + ImmediateS(ir))
    IN
    /\ Fetched /\ Opcode(ir) = 35
    /\ imm' = ImmediateS(ir)
    /\ \/ /\ OutsideRam(Offset(addr)) /\ addr \in DeviceWindow
          /\ bus' = {<<addr, Rs2(ir)>>} /\ mem' = mem
          /\ Retire(0, 0, 0, pc)
       \/ /\ OutsideRam(Offset(addr)) /\ addr \notin DeviceWindow
          /\ UNCHANGED <<mem, bus>>
          /\ Retire(8, 0, addr, pc)
       \/ /\ ~OutsideRam(Offset(addr)) /\ f \notin 0 .. 2
          /\ UNCHANGED <<mem, bus>>
          /\ Retire(3, 0, 0, pc)
       \/ /\ ~OutsideRam(Offset(addr)) /\ f \in 0 .. 2
          /\ mem' = StoreBytes(mem, Offset(addr), 2^f, Rs2(ir)) /\ bus' = bus
          /\ Retire(0, 0, 0, pc)

Op ==
    LET ir == Encode(instr) IN
    /\ Fetched /\ Opcode(ir) \in {19, 51}
    /\ imm' = ImmediateI(ir)
    /\ Retire(0, Rd(ir), Alu(ir, Rs1(ir), IF IsReg(ir) THEN Rs2(ir) ELSE Cut(imm')), pc)
    /\ UNCHANGED <<mem, bus>>

\* Fences do nothing; an opcode the switch has no case for is illegal.
FenceOrInvalid ==
    LET ir == Encode(instr) IN
    /\ Fetched
    /\ \/ /\ Opcode(ir) = 15
          /\ Retire(0, 0, 0, pc)
       \/ /\ Opcode(ir) \notin {55, 23, 111, 103, 99, 3, 35, 19, 51, 15, 47, 115}
          /\ Retire(3, Rd(ir), 0, pc)
    /\ UNCHANGED <<mem, imm, bus>>

\* An AMO knows no device: outside the memory it is a fault of a store.
Amo ==
    LET ir == Encode(instr)
        o == Offset(Rs1(ir))
    IN
    /\ Fetched /\ Opcode(ir) = 47 /\ Irmid(ir) \notin {2, 3}
    /\ \/ /\ OutsideRam(o)
          /\ mem' = mem
          /\ Retire(8, Rd(ir), Rs1(ir), pc)
       \/ /\ ~OutsideRam(o) /\ Irmid(ir) \notin Supported
          /\ mem' = mem
          /\ Retire(3, Rd(ir), LoadBytes(mem, o, 4), pc)
       \/ /\ ~OutsideRam(o) /\ Irmid(ir) \in Supported
          /\ mem' = StoreBytes(mem, o, 4, Combined(Irmid(ir), LoadBytes(mem, o, 4), Rs2(ir)))
          /\ Retire(0, Rd(ir), LoadBytes(mem, o, 4), pc)
    /\ UNCHANGED <<imm, bus>>

Next == FetchFault \/ Upper \/ Jal \/ Jalr \/ Branch \/ Load \/ Store \/ Op \/ FenceOrInvalid \/ Amo

Spec == Init /\ [][Next]_vars

-----------------------------------------------------------------------------
(* What the mnemonics mean, in the words of the ISA.                       *)

\* r is the result of an Op of the words a and b.
Means(op, a, b, r) ==
    LET shamt == b % WordBits
        Sa == Signed(a)
        Sb == Signed(b)
        Sr == Signed(r)
        Places == 0 .. WordBits - 1
        Magnitude(x) == IF x < 0 THEN -x ELSE x
        TooLarge == Sa = -(Word \div 2) /\ Sb = -1
    IN
    CASE op \in {"ADD", "ADDI"} -> (r - a - b) % Word = 0
      [] op = "SUB" -> (r + b - a) % Word = 0
      [] op \in {"SLT", "SLTI"} -> r = OfBool(Sa < Sb)
      [] op \in {"SLTU", "SLTIU"} -> r = OfBool(a < b)
      [] op \in {"AND", "ANDI"} -> \A k \in Places : Bit(r, k) <=> Bit(a, k) /\ Bit(b, k)
      [] op \in {"OR", "ORI"} -> \A k \in Places : Bit(r, k) <=> Bit(a, k) \/ Bit(b, k)
      [] op \in {"XOR", "XORI"} -> \A k \in Places : Bit(r, k) <=> ~(Bit(a, k) <=> Bit(b, k))
      [] op \in {"SLL", "SLLI"} ->
            \A k \in Places : Bit(r, k) <=> k >= shamt /\ Bit(a, k - shamt)
      [] op \in {"SRL", "SRLI"} ->
            \A k \in Places : Bit(r, k) <=> k + shamt < WordBits /\ Bit(a, k + shamt)
      [] op \in {"SRA", "SRAI"} ->
            \A k \in Places : Bit(r, k) <=> Bit(a, IF k + shamt < WordBits THEN k + shamt ELSE WordBits - 1)
      [] op = "MUL" -> (a * b - r) % Word = 0
      [] op = "MULH" -> Sa * Sb - Sr * Word \in Words
      [] op = "MULHSU" -> Sa * b - Sr * Word \in Words
      [] op = "MULHU" -> a * b - r * Word \in Words
      [] op \in {"DIV", "REM"} /\ b # 0 /\ ~TooLarge ->
            LET rest == IF op = "REM" THEN Sr ELSE Sa - Sr * Sb
            IN  /\ (Sa - rest) % Magnitude(Sb) = 0
                /\ Magnitude(rest) < Magnitude(Sb)
                /\ rest # 0 => (rest < 0) = (Sa < 0)
      [] op \in {"DIVU", "REMU"} /\ b # 0 ->
            LET rest == IF op = "REMU" THEN r ELSE a - r * b
            IN  (a - rest) % b = 0 /\ rest \in 0 .. b - 1
      [] op \in {"DIV", "DIVU"} /\ b = 0 -> r = Word - 1
      [] op \in {"REM", "REMU"} /\ b = 0 -> r = a
      [] op = "DIV" /\ b # 0 /\ TooLarge -> r = a
      [] op = "REM" /\ b # 0 /\ TooLarge -> r = 0

Jumps(op, a, b) ==
    CASE op = "BEQ" -> a = b          [] op = "BNE" -> a # b
      [] op = "BLT" -> Signed(a) < Signed(b) [] op = "BGE" -> ~(Signed(a) < Signed(b))
      [] op = "BLTU" -> a < b         [] op = "BGEU" -> ~(a < b)
      [] op \in {"JAL", "JALR"} -> TRUE
      [] OTHER -> FALSE

Width(op) == CASE op \in {"LB", "LBU", "SB"} -> 1 [] op \in {"LH", "LHU", "SH"} -> 2 [] OTHER -> 4

\* What the AMO makes of the old value and the register.
AmoMeans(op, old, b, new) ==
    CASE op = "AMOSWAP" -> new = b
      [] op = "AMOMIN" -> new \in {old, b} /\ Signed(new) <= Signed(old) /\ Signed(new) <= Signed(b)
      [] op = "AMOMAX" -> new \in {old, b} /\ Signed(new) >= Signed(old) /\ Signed(new) >= Signed(b)
      [] op = "AMOMINU" -> new \in {old, b} /\ new <= old /\ new <= b
      [] op = "AMOMAXU" -> new \in {old, b} /\ new >= old /\ new >= b
      [] op = "AMOADD" -> Means("ADD", old, b, new)
      [] op = "AMOXOR" -> Means("XOR", old, b, new)
      [] op = "AMOAND" -> Means("AND", old, b, new)
      [] op = "AMOOR" -> Means("OR", old, b, new)

-----------------------------------------------------------------------------
A == was.regs[instr.rs1]
B == was.regs[instr.rs2]
Address == Cut(A + (IF instr.op \in AmoOps THEN 0 ELSE instr.imm))
At == Offset(Address)
InMemory == At + 3 < RamSize

HasResult == instr.op \notin Branches \cup Stores \cup {"FENCE"} /\ instr.rd # 0

\* Where a jump goes to; where the code goes on.
Target ==
    IF instr.op = "JALR" THEN Cut(A + instr.imm) - (Cut(A + instr.imm) % 2)
    ELSE Cut(was.pc + instr.imm)
Successor == IF Jumps(instr.op, A, B) THEN Target ELSE Cut(was.pc + 4)

\* value is what a load reads: as many bytes, and the sign or zeroes above them.
LoadMeans(op, value) ==
    /\ (value - LoadBytes(was.mem, At, Width(op))) % Byte^Width(op) = 0
    /\ op \in {"LBU", "LHU"} => value < Byte^Width(op)
    /\ op \in {"LB", "LH"} =>
            LET half == Byte^Width(op) \div 2
            IN  Signed(value) \in -half .. half - 1

\* value is what the instruction makes.
IsResult(value) ==
    LET i == instr
    IN  /\ i.op \in RegisterOps => Means(i.op, A, B, value)
        /\ i.op \in ImmediateOps => Means(i.op, A, Cut(i.imm), value)
        /\ i.op \in {"JAL", "JALR"} => value = Cut(was.pc + 4)
        /\ i.op = "LUI" => value = Cut(i.imm)
        /\ i.op = "AUIPC" => value = Cut(was.pc + i.imm)
        /\ i.op \in AmoOps => value = LoadBytes(was.mem, At, 4)
        /\ i.op \in Loads => IF InMemory THEN LoadMeans(i.op, value) ELSE value = DeviceWord

\* The trap, if there is one, that the instruction is to take: that of the
\* fetch; an access fault of a load, a store or an AMO whose address is not in
\* reach, which is the memory but its last three bytes and for a load or a store
\* the devices; and that of an encoding that means nothing, which is not looked
\* for where a load or a store goes to a device.
IsCause(cause) ==
    LET fetched == Offset(was.pc) % 4 = 0 /\ Offset(was.pc) < RamSize
        reach == InMemory \/ (Address \in DeviceWindow /\ instr.op \notin AmoOps)
    IN  /\ cause \in {1, 2} <=> ~fetched
        /\ cause = 6 <=> fetched /\ instr.op \in Loads /\ ~reach
        /\ cause = 8 <=> fetched /\ instr.op \in Stores \cup AmoOps /\ ~reach
        /\ cause = 3 <=> /\ fetched
                         /\ \/ instr.op \in {"B2", "NONE"}
                            \/ instr.op \in {"L3", "S3", "AMO5"} /\ InMemory

\* A jump or a taken branch to an address that is no multiple of 4.  In the ISA
\* the jump traps; the code makes it and traps on the fetch that follows.
JumpsAstray == Jumps(instr.op, A, B) /\ Offset(Target) % 4 # 0

\* A mnemonic takes the trap it is to take and no other, so that the kernel's
\* probing loads are answered, and without a trap it has the result it names:
\* in its destination register and no other, x0 excepted, with the pc at the
\* target of a jump that is taken and on the next instruction otherwise.  Its
\* immediate has come out of its scattered bits whole and with its sign, for
\* every format (the shifts and masks in the cases of the switch).  Of a jump
\* astray neither the trap nor the link and the pc are spoken of, and a device
\* answers its word to a load of any width.
ResultIsIsa ==
    done /\ instr.op # "WORD" =>
        /\ trap # 0 \/ ~JumpsAstray => IsCause(trap)
        /\ trap = 0 =>
            /\ Format(instr.op) # "R" /\ instr.op # "FENCE" => imm = instr.imm
            /\ \A r \in Regs : (r = instr.rd /\ HasResult) \/ regs[r] = was.regs[r]
            /\ ~JumpsAstray =>
                 /\ pc = Successor
                 /\ HasResult => IsResult(regs[instr.rd])

\* Of the mnemonics only a store or an AMO changes the memory, and it changes
\* the bytes of its width and leaves the neighbours; a device gets the register
\* as it is, once.
StoresOnlyItsBytes ==
    done /\ instr.op # "WORD" =>
        LET i == instr
            writes == trap = 0 /\ i.op \in Stores \cup AmoOps /\ InMemory
            mine == IF writes THEN At .. At + Width(i.op) - 1 ELSE {}
        IN  /\ \A k \in DOMAIN mem \ mine : mem[k] = was.mem[k]
            /\ writes /\ i.op \in Stores =>
                    (LoadBytes(mem, At, Width(i.op)) - B) % Byte^Width(i.op) = 0
            /\ writes /\ i.op \in AmoOps =>
                    AmoMeans(i.op, LoadBytes(was.mem, At, 4), B, LoadBytes(mem, At, 4))
            /\ bus = IF trap = 0 /\ i.op \in Stores /\ ~InMemory THEN {<<Address, B>>} ELSE {}

\* A trap leaves no trace, whatever the word that was fetched, be it an
\* instruction or not: registers, memory and devices are as before and mepc is
\* its pc, so that the kernel can run it again.  mtval is the address for the
\* access fault of a mnemonic and the pc for every other trap.  Which words
\* trap is not said here.
TrapLeavesNoTrace ==
    done /\ trap # 0 =>
        /\ regs = was.regs /\ mem = was.mem /\ bus = {} /\ pc = was.pc
        /\ trap \notin {6, 8} => rval = was.pc
        /\ trap \in {6, 8} /\ instr.op # "WORD" => rval = Address
=============================================================================
