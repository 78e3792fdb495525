------------------------------ MODULE ExecProofs ------------------------------
(* One instruction, for every word of registers and memory, every size of  *)
(* the memory and every instruction: what comes out of the switch over the *)
(* opcode is what the ISA says of the mnemonic.                            *)
EXTENDS Exec, WellFoundedInduction, TLAPS

-----------------------------------------------------------------------------
(* The fields and the immediates come out of the 32 bits as they went in.  *)

\* The fields of an encoding fit their places.
LEMMA IsaFields ==
  ASSUME NEW op \in Mnemonics
  PROVE  /\ IsaOpcode(op) \in 0 .. 127
         /\ IsaFunct3(op) \in 0 .. 7
         /\ IsaFunct7(op) \in -64 .. 63
         /\ Format(op) \in {"R", "I", "S", "B", "U", "J"}
<1>1. IsaOpcode(op) \in 0 .. 127
  BY SMT DEF Mnemonics, IsaOpcode
<1>2. IsaFunct3(op) \in 0 .. 7
  BY SMT DEF Mnemonics, IsaFunct3
<1>3. IsaFunct7(op) \in -64 .. 63
  BY SMT DEF Mnemonics, IsaFunct7
<1>4. op # "WORD"
  BY SMT DEF Mnemonics, Branches, Loads, Stores, ImmediateOps, Shifts, RegisterOps, MulDivOps, AmoOps
<1>5. Format(op) \in {"R", "I", "S", "B", "U", "J"}
  BY <1>4, SMT DEF Mnemonics, Format
<1> QED BY <1>1, <1>2, <1>3, <1>5

\* The two shapes of the 32 bits, by the places of the fields.
LongForm(c, d, f, s, u, g) == c + 2^7 * d + (2^12 * f + 2^15 * s) + 2^20 * u + 2^25 * g

ShortForm(c, d, h) == c + 2^7 * d + 2^12 * h

LongFields(ir, c, d, f, s, u, g) ==
  /\ ir \in Int
  /\ Bits(ir, 6, 0) = c /\ Bits(ir, 11, 7) = d /\ Bits(ir, 14, 12) = f
  /\ Bits(ir, 19, 15) = s /\ Bits(ir, 24, 20) = u
  /\ Bits(ir, 31, 20) = (u + 32 * g) % 2^12 /\ Bits(ir, 31, 25) = g % 128
  /\ Bits(ir, 31, 27) = (g \div 4) % 32
  /\ Bits(ir, 5, 5) = (c \div 32) % 2 /\ Bits(ir, 25, 25) = g % 2
  /\ Bits(ir, 30, 30) = (g \div 32) % 2
  /\ Bits(ir, 11, 8) = d \div 2 /\ Bits(ir, 7, 7) = d % 2
  /\ Bits(ir, 30, 25) = g % 64
  /\ (ir < 0) = (g < 0)

ShortFields(ir, c, d, h) ==
  /\ ir \in Int
  /\ Bits(ir, 6, 0) = c /\ Bits(ir, 11, 7) = d
  /\ Bits(ir, 5, 5) = (c \div 32) % 2
  /\ Bits(ir, 31, 12) = h % 2^20
  /\ Bits(ir, 19, 12) = h % 256 /\ Bits(ir, 20, 20) = (h \div 256) % 2
  /\ Bits(ir, 30, 21) = (h \div 2^9) % 2^10
  /\ (ir < 0) = (h < 0)

Signed20(h) == h \in Int /\ -524288 <= h /\ h <= 524287

Signed12(x) == x \in Int /\ -2048 <= x /\ x <= 2047

\* The places of a number of the long shape hold its fields.
LEMMA LongShape ==
  ASSUME NEW c \in 0 .. 127, NEW d \in 0 .. 31, NEW f \in 0 .. 7, NEW s \in 0 .. 31,
         NEW u \in 0 .. 31, NEW g \in -64 .. 63,
         NEW ir, ir = LongForm(c, d, f, s, u, g)
  PROVE  LongFields(ir, c, d, f, s, u, g)
<1>0. ir \in Int /\ ir = c + 128 * d + 4096 * f + 32768 * s + 1048576 * u + 33554432 * g
  BY SMT DEF LongForm
<1>1. (ir \div 1) % 128 = c
  BY <1>0, SMT
<1>2. ir \div 128 = d + 32 * (f + 8 * s + 256 * u + 8192 * g)
  BY <1>0, SMT
<1>3. ir \div 4096 = f + 8 * (s + 32 * u + 1024 * g)
  BY <1>0, SMT
<1>4. ir \div 32768 = s + 32 * (u + 32 * g)
  BY <1>0, SMT
<1>5. ir \div 1048576 = u + 32 * g
  BY <1>0, SMT
<1>6. ir \div 33554432 = g
  BY <1>0, SMT
<1>7. Bits(ir, 6, 0) = c
  BY <1>0, <1>1, SMT DEF Bits
<1>8. Bits(ir, 11, 7) = d
  BY <1>2, SMT DEF Bits
<1>9. Bits(ir, 14, 12) = f
  BY <1>3, SMT DEF Bits
<1>10. Bits(ir, 19, 15) = s
  BY <1>4, SMT DEF Bits
<1>11. Bits(ir, 24, 20) = u
  BY <1>5, SMT DEF Bits
<1>12. Bits(ir, 31, 20) = (u + 32 * g) % 2^12
  BY <1>5, SMT DEF Bits
<1>13. Bits(ir, 31, 25) = g % 128 /\ Bits(ir, 25, 25) = g % 2 /\ Bits(ir, 30, 25) = g % 64
  BY <1>6, SMT DEF Bits
<1>14. ir \div 134217728 = g \div 4
  BY <1>0, SMT
<1>15. Bits(ir, 31, 27) = (g \div 4) % 32
  BY <1>14, SMT DEF Bits
<1>16. ir \div 1073741824 = g \div 32
  BY <1>0, SMT
<1>17. Bits(ir, 30, 30) = (g \div 32) % 2
  BY <1>16, SMT DEF Bits
<1>18. ir \div 32 = (c \div 32) + 4 * (ir \div 128)
  BY <1>0, SMT
<1>19. Bits(ir, 5, 5) = (c \div 32) % 2
  BY <1>0, <1>18, SMT DEF Bits
<1>20. ir \div 256 = (d \div 2) + 16 * (f + 8 * s + 256 * u + 8192 * g)
  BY <1>0, SMT
<1>21. Bits(ir, 11, 8) = d \div 2
  BY <1>20, SMT DEF Bits
<1>22. Bits(ir, 7, 7) = d % 2
  BY <1>2, SMT DEF Bits
<1>23. (ir < 0) = (g < 0)
  BY <1>0, SMT
<1> QED BY <1>0, <1>7, <1>8, <1>9, <1>10, <1>11, <1>12, <1>13, <1>15, <1>17, <1>19, <1>21, <1>22, <1>23, SMT DEF LongFields

\* The places of a number of the short shape hold its fields.
LEMMA ShortShape ==
  ASSUME NEW c \in 0 .. 127, NEW d \in 0 .. 31, NEW h, Signed20(h),
         NEW ir, ir = ShortForm(c, d, h)
  PROVE  ShortFields(ir, c, d, h)
<1>0. ir \in Int /\ ir = c + 128 * d + 4096 * h /\ h \in Int /\ -524288 <= h /\ h <= 524287
  BY SMT DEF ShortForm, Signed20
<1>1. (ir \div 1) % 128 = c
  BY <1>0, SMT
<1>2. ir \div 128 = d + 32 * h
  BY <1>0, SMT
<1>3. ir \div 4096 = h
  BY <1>0, SMT
<1>4. ir \div 1048576 = h \div 256
  BY <1>0, SMT
<1>5. ir \div 2097152 = h \div 512
  BY <1>0, SMT
<1>6. Bits(ir, 6, 0) = c
  BY <1>0, <1>1, SMT DEF Bits
<1>7. Bits(ir, 11, 7) = d
  BY <1>0, <1>2, SMT DEF Bits
<1>8. Bits(ir, 31, 12) = h % 2^20 /\ Bits(ir, 19, 12) = h % 256
  BY <1>3, SMT DEF Bits
<1>9. Bits(ir, 20, 20) = (h \div 256) % 2
  BY <1>4, SMT DEF Bits
<1>10. Bits(ir, 30, 21) = (h \div 2^9) % 2^10
  BY <1>5, SMT DEF Bits
<1>11. ir \div 32 = (c \div 32) + 4 * (ir \div 128)
  BY <1>0, SMT
<1>12. Bits(ir, 5, 5) = (c \div 32) % 2
  BY <1>0, <1>11, SMT DEF Bits
<1>13. (ir < 0) = (h < 0)
  BY <1>0, SMT
<1> QED BY <1>0, <1>6, <1>7, <1>8, <1>9, <1>10, <1>12, <1>13, SMT DEF ShortFields

\* The fields the code takes out of an R are those of the instruction.
LEMMA DecodeR ==
  ASSUME NEW i \in Instructions, Format(i.op) = "R", NEW ir, ir = Encode(i)
  PROVE  /\ ir \in Int /\ Opcode(ir) = IsaOpcode(i.op) /\ Rd(ir) = i.rd
         /\ Funct3(ir) = IsaFunct3(i.op) /\ Bits(ir, 19, 15) = i.rs1 /\ Bits(ir, 24, 20) = i.rs2
         /\ Irmid(ir) = (IsaFunct7(i.op) \div 4) % 32
         /\ IsReg(ir) = ((IsaOpcode(i.op) \div 32) % 2 = 1)
         /\ Bit25(ir) = (IsaFunct7(i.op) % 2 = 1)
         /\ Bit30(ir) = ((IsaFunct7(i.op) \div 32) % 2 = 1)
<1>1. /\ i.op \in Mnemonics /\ i.rd \in 0 .. 31 /\ i.rs1 \in 0 .. 31 /\ i.rs2 \in 0 .. 31
  BY DEF Instructions, Regs
<1> DEFINE c == IsaOpcode(i.op)
           f == IsaFunct3(i.op)
           g == IsaFunct7(i.op)
<1>2. c \in 0 .. 127 /\ f \in 0 .. 7 /\ g \in -64 .. 63
  BY <1>1, IsaFields, SMT
<1>3. ir = LongForm(c, i.rd, f, i.rs1, i.rs2, g)
  BY Zenon DEF Encode, LongForm
<1> HIDE DEF c, f, g
<1>4. LongFields(ir, c, i.rd, f, i.rs1, i.rs2, g)
  BY <1>1, <1>2, <1>3, LongShape, ZenonT(60)
<1> QED BY <1>4, Zenon DEF LongFields, Opcode, Rd, Funct3, Irmid, IsReg, Bit25, Bit30, c, f, g

\* The 32 bits of an I, and what the code makes of an immediate of 12 bits.
FormOfI(c, d, f, s, x) == c + 2^7 * d + (2^12 * f + 2^15 * s) + 2^20 * x

\* The immediate of an I comes out of its 12 bits with its sign.
LEMMA FormI ==
  ASSUME NEW c \in 0 .. 127, NEW d \in 0 .. 31, NEW f \in 0 .. 7, NEW s \in 0 .. 31,
         NEW x, Signed12(x)
  PROVE  /\ LongFields(FormOfI(c, d, f, s, x), c, d, f, s, x % 32, x \div 32)
         /\ SignExtend(((x % 32) + 32 * (x \div 32)) % 2^12, 2^11) = x
         /\ (x \div 32) \div 32 = x \div 2^10
<1> DEFINE u == x % 32
           g == x \div 32
<1>0. x \in Int /\ -2048 <= x /\ x <= 2047
  BY DEF Signed12
<1>1. u \in 0 .. 31 /\ g \in -64 .. 63 /\ u + 32 * g = x
  BY <1>0, SMT
<1>2. g \div 32 = x \div 2^10
  BY <1>0, SMT
<1>3. SignExtend(x % 2^12, 2^11) = x
  BY <1>0, SMT DEF SignExtend
<1> HIDE DEF u, g
<1>4. FormOfI(c, d, f, s, x) = LongForm(c, d, f, s, u, g)
  BY <1>1, SMT DEF LongForm, FormOfI
<1>5. LongFields(FormOfI(c, d, f, s, x), c, d, f, s, u, g)
  BY <1>1, <1>4, LongShape, ZenonT(60)
<1> QED BY <1>1, <1>2, <1>3, <1>5, Zenon DEF u, g

\* The fields the code takes out of an I are those of the instruction, its
\* immediate and the bit that tells SRAI from SRLI included.
LEMMA DecodeI ==
  ASSUME NEW i \in Instructions, Format(i.op) = "I", NEW ir, ir = Encode(i)
  PROVE  /\ ir \in Int /\ Opcode(ir) = IsaOpcode(i.op) /\ Rd(ir) = i.rd
         /\ Funct3(ir) = IsaFunct3(i.op) /\ Bits(ir, 19, 15) = i.rs1
         /\ ImmediateI(ir) = i.imm
         /\ IsReg(ir) = ((IsaOpcode(i.op) \div 32) % 2 = 1)
         /\ Bit30(ir) = ((i.imm \div 2^10) % 2 = 1)
<1>1. /\ i.op \in Mnemonics /\ i.rd \in 0 .. 31 /\ i.rs1 \in 0 .. 31 /\ i.imm \in Int
      /\ HasImmediate(i)
  BY DEF Instructions, Regs
<1> DEFINE c == IsaOpcode(i.op)
           f == IsaFunct3(i.op)
           x == i.imm
<1>2. c \in 0 .. 127 /\ f \in 0 .. 7
  BY <1>1, IsaFields, SMT
<1>3. Signed12(x)
  <2>1. CASE i.op \in Shifts \ {"SRAI"}
    <3>1. x \in 0 .. 31
      BY <1>1, <2>1, Zenon DEF HasImmediate
    <3> QED BY <1>1, <3>1, SMT DEF Signed12
  <2>2. CASE i.op = "SRAI"
    <3>1. x - 2^10 \in 0 .. 31
      BY <1>1, <2>2, SMT DEF HasImmediate, Shifts
    <3> QED BY <1>1, <3>1, SMT DEF Signed12
  <2>3. CASE i.op \notin Shifts
    <3>1. x \div 1 \in -(2^11) .. 2^11 - 1
      BY <1>1, <2>3, Zenon DEF HasImmediate, Shifts
    <3> HIDE DEF x
    <3>2. x \in Int
      BY <1>1 DEF x
    <3> QED BY <3>1, <3>2, SMT DEF Signed12
  <2> QED BY <2>1, <2>2, <2>3, SMT
<1>4. ir = FormOfI(c, i.rd, f, i.rs1, x)
  BY Zenon DEF Encode, FormOfI
<1> HIDE DEF c, f, x
<1>5. LongFields(ir, c, i.rd, f, i.rs1, x % 32, x \div 32)
  BY <1>1, <1>2, <1>3, <1>4, FormI, ZenonT(60)
<1>6. /\ SignExtend(((x % 32) + 32 * (x \div 32)) % 2^12, 2^11) = x
      /\ (x \div 32) \div 32 = x \div 2^10
  BY <1>1, <1>2, <1>3, FormI, ZenonT(60)
<1>7. ImmediateI(ir) = x
  BY <1>5, <1>6, Zenon DEF LongFields, ImmediateI
<1> QED BY <1>5, <1>6, <1>7, Zenon DEF LongFields, Opcode, Rd, Funct3, IsReg, Bit30, c, f, x

\* The two parts of the immediate of an S put together are the immediate.
LEMMA PartsS ==
  ASSUME NEW x, Signed12(x)
  PROVE  /\ Bits(x, 4, 0) \in 0 .. 31 /\ x \div 2^5 \in -64 .. 63
         /\ SignExtend(Bits(x, 4, 0) + ((x \div 2^5) % 128) * 32, 2^11) = x
<1>0. x \in Int /\ -2048 <= x /\ x <= 2047
  BY SMT DEF Signed12
<1>1. Bits(x, 4, 0) = x % 32
  BY <1>0, SMT DEF Bits
<1>2. x % 32 \in 0 .. 31 /\ x \div 2^5 \in -64 .. 63
  BY <1>0, SMT
<1>3. (x % 32) + ((x \div 2^5) % 128) * 32 = IF x < 0 THEN x + 4096 ELSE x
  BY <1>0, SMT
<1> QED BY <1>0, <1>1, <1>2, <1>3, SMT DEF SignExtend

\* The fields the code takes out of an S are those of the instruction.
LEMMA DecodeS ==
  ASSUME NEW i \in Instructions, Format(i.op) = "S", NEW ir, ir = Encode(i)
  PROVE  /\ ir \in Int /\ Opcode(ir) = IsaOpcode(i.op)
         /\ Funct3(ir) = IsaFunct3(i.op) /\ Bits(ir, 19, 15) = i.rs1 /\ Bits(ir, 24, 20) = i.rs2
         /\ ImmediateS(ir) = i.imm
<1>1. /\ i.op \in Mnemonics /\ i.rs1 \in 0 .. 31 /\ i.rs2 \in 0 .. 31 /\ i.imm \in Int
      /\ HasImmediate(i) /\ i.op \notin Shifts
  <2>1. i.op \notin Shifts
    BY SMT DEF Format, Shifts, ImmediateOps, Branches, Loads, Stores
  <2> QED BY <2>1 DEF Instructions, Regs
<1> DEFINE c == IsaOpcode(i.op)
           f == IsaFunct3(i.op)
           x == i.imm
           d == Bits(x, 4, 0)
           g == x \div 2^5
<1>2. c \in 0 .. 127 /\ f \in 0 .. 7
  BY <1>1, IsaFields, SMT
<1>3. Signed12(x)
  <2>1. x \div 1 \in -(2^11) .. 2^11 - 1
    BY <1>1, Zenon DEF HasImmediate, Shifts
  <2> HIDE DEF x
  <2>2. x \in Int
    BY <1>1 DEF x
  <2> QED BY <2>1, <2>2, SMT DEF Signed12
<1>4. ir = LongForm(c, d, f, i.rs1, i.rs2, g)
  BY Zenon DEF Encode, LongForm
<1> HIDE DEF c, f, x
<1>5. /\ d \in 0 .. 31 /\ g \in -64 .. 63
      /\ SignExtend(d + (g % 128) * 32, 2^11) = x
  BY <1>3, PartsS, Zenon
<1> HIDE DEF d, g
<1>6. LongFields(ir, c, d, f, i.rs1, i.rs2, g)
  BY <1>1, <1>2, <1>4, <1>5, LongShape, ZenonT(60)
<1>7. d * 2^(7 - 7) = d /\ 2^(25 - 20) = 32
  BY <1>5, SMT
<1>8. ImmediateS(ir) = x
  BY <1>5, <1>6, <1>7, SMT DEF LongFields, ImmediateS, Move
<1> QED BY <1>6, <1>8, Zenon DEF LongFields, Opcode, Funct3, c, f, x

\* The four parts of the immediate of a branch put together are the immediate.
LEMMA PartsB ==
  ASSUME NEW x \in Int, x % 2 = 0, -4096 <= x, x <= 4095
  PROVE  LET d == Bits(x, 11, 11) + 2 * Bits(x, 4, 1)
             g == Bits(x, 10, 5) + 2^6 * (x \div 2^12)
         IN  /\ d \in 0 .. 31 /\ g \in -64 .. 63
             /\ SignExtend((d \div 2) * 2 + (g % 64) * 32 + (d % 2) * 2048
                           + (IF g < 0 THEN 4096 ELSE 0), 2^12) = x
<1> DEFINE a == (x \div 2048) % 2
           b == (x \div 2) % 16
           e == (x \div 32) % 64
           s == x \div 4096
           d == a + 2 * b
           g == e + 64 * s
<1>1. Bits(x, 11, 11) = a /\ Bits(x, 4, 1) = b /\ Bits(x, 10, 5) = e /\ x \div 2^12 = s
  BY SMT DEF Bits
<1>2. a \in 0 .. 1 /\ b \in 0 .. 15 /\ e \in 0 .. 63 /\ s \in -1 .. 0
  BY SMT
<1>3. x = 2 * b + 32 * e + 2048 * a + 4096 * s
  BY SMT
<1> HIDE DEF a, b, e, s
<1>4. d \in 0 .. 31 /\ g \in -64 .. 63 /\ d \div 2 = b /\ d % 2 = a /\ g % 64 = e /\ (g < 0) = (s = -1)
  BY <1>2, SMT
<1>5. b * 2 + e * 32 + a * 2048 + (IF g < 0 THEN 4096 ELSE 0) = x - 4096 * s + (IF s = -1 THEN 4096 ELSE 0)
  BY <1>2, <1>3, <1>4, SMT
<1> HIDE DEF d, g
<1>6. SignExtend((d \div 2) * 2 + (g % 64) * 32 + (d % 2) * 2048
                           + (IF g < 0 THEN 4096 ELSE 0), 2^12) = x
  BY <1>2, <1>3, <1>4, <1>5, SMT DEF SignExtend
<1>7. 2^6 = 64
  BY SMT
<1> QED BY <1>1, <1>4, <1>6, <1>7 DEF d, g

\* The fields the code takes out of a branch are those of the instruction.
LEMMA DecodeB ==
  ASSUME NEW i \in Instructions, Format(i.op) = "B", NEW ir, ir = Encode(i)
  PROVE  /\ ir \in Int /\ Opcode(ir) = IsaOpcode(i.op)
         /\ Funct3(ir) = IsaFunct3(i.op) /\ Bits(ir, 19, 15) = i.rs1 /\ Bits(ir, 24, 20) = i.rs2
         /\ ImmediateB(ir) = i.imm
<1>1. /\ i.op \in Mnemonics /\ i.rs1 \in 0 .. 31 /\ i.rs2 \in 0 .. 31 /\ i.imm \in Int
      /\ HasImmediate(i) /\ i.op \notin Shifts
  <2>1. i.op \notin Shifts
    BY SMT DEF Format, Shifts, ImmediateOps, Branches, Loads, Stores
  <2> QED BY <2>1 DEF Instructions, Regs
<1> DEFINE c == IsaOpcode(i.op)
           f == IsaFunct3(i.op)
           x == i.imm
           d == Bits(x, 11, 11) + 2 * Bits(x, 4, 1)
           g == Bits(x, 10, 5) + 2^6 * (x \div 2^12)
<1>2. c \in 0 .. 127 /\ f \in 0 .. 7
  BY <1>1, IsaFields, SMT
<1>3. x \in Int /\ x % 2 = 0 /\ -4096 <= x /\ x <= 4095
  <2>1. x % 2 = 0 /\ x \div 2 \in -(2^11) .. 2^11 - 1
    BY <1>1, Zenon DEF HasImmediate, Shifts
  <2> HIDE DEF x
  <2>2. x \in Int
    BY <1>1 DEF x
  <2> QED BY <2>1, <2>2, SMT
<1>4. ir = LongForm(c, d, f, i.rs1, i.rs2, g)
  BY Zenon DEF Encode, LongForm
<1> HIDE DEF c, f, x
<1>5. /\ d \in 0 .. 31 /\ g \in -64 .. 63
      /\ SignExtend((d \div 2) * 2 + (g % 64) * 32 + (d % 2) * 2048
                    + (IF g < 0 THEN 4096 ELSE 0), 2^12) = x
  BY <1>3, PartsB, SMTT(60)
<1> HIDE DEF d, g
<1>6. LongFields(ir, c, d, f, i.rs1, i.rs2, g)
  BY <1>1, <1>2, <1>4, <1>5, LongShape, ZenonT(60)
<1>7. 2^(8 - 7) = 2 /\ 2^(25 - 20) = 32 /\ 2^(7 - (-4)) = 2048 /\ 2^12 = 4096
  BY SMT
<1>8. ImmediateB(ir) = x
  BY <1>5, <1>6, <1>7, SMT DEF LongFields, ImmediateB, Move, MoveTop
<1> QED BY <1>6, <1>8, Zenon DEF LongFields, Opcode, Funct3, c, f, x

\* The fields the code takes out of a U are those of the instruction.
LEMMA DecodeU ==
  ASSUME NEW i \in Instructions, Format(i.op) = "U", NEW ir, ir = Encode(i)
  PROVE  /\ ir \in Int /\ Opcode(ir) = IsaOpcode(i.op) /\ Rd(ir) = i.rd
         /\ ImmediateU(ir) = i.imm
<1>1. /\ i.op \in Mnemonics /\ i.rd \in 0 .. 31 /\ i.imm \in Int
      /\ HasImmediate(i) /\ i.op \notin Shifts
  <2>1. i.op \notin Shifts
    BY SMT DEF Format, Shifts, ImmediateOps, Branches, Loads, Stores
  <2> QED BY <2>1 DEF Instructions, Regs
<1> DEFINE c == IsaOpcode(i.op)
           x == i.imm
           h == x \div 2^12
<1>2. c \in 0 .. 127
  BY <1>1, IsaFields, SMT
<1>3. x \in Int /\ x % 2^12 = 0 /\ Signed20(h)
  <2>1. x % 2^12 = 0 /\ h \in -(2^19) .. 2^19 - 1
    BY <1>1, Zenon DEF HasImmediate, Shifts
  <2> HIDE DEF x
  <2>2. x \in Int
    BY <1>1 DEF x
  <2> QED BY <2>1, <2>2, SMT DEF Signed20
<1>4. ir = c + 2^7 * i.rd + x
  BY Zenon DEF Encode
<1> HIDE DEF c, x
<1>5. ir = ShortForm(c, i.rd, h)
  <2>1. x = 2^12 * h
    BY <1>3, SMT
  <2> QED BY <1>4, <2>1, Zenon DEF ShortForm
<1>6. SignExtend(h % 2^20, 2^19) = h /\ x = 2^12 * h
  BY <1>3, SMT DEF SignExtend, Signed20
<1> HIDE DEF h
<1>7. ShortFields(ir, c, i.rd, h)
  BY <1>1, <1>2, <1>3, <1>5, ShortShape, ZenonT(60)
<1>8. ImmediateU(ir) = x
  BY <1>6, <1>7, Zenon DEF ShortFields, ImmediateU
<1> QED BY <1>7, <1>8, Zenon DEF ShortFields, Opcode, Rd, c, x

\* The four parts of the immediate of a jump put together are the immediate.
LEMMA PartsJ ==
  ASSUME NEW x \in Int, x % 2 = 0, -1048576 <= x, x <= 1048575
  PROVE  LET h == Bits(x, 19, 12) + 2^8 * (Bits(x, 11, 11) + 2 * Bits(x, 10, 1) + 2^11 * (x \div 2^20))
         IN  /\ Signed20(h)
             /\ SignExtend((IF h < 0 THEN 2^20 ELSE 0) + ((h \div 2^9) % 2^10) * 2
                           + ((h \div 256) % 2) * 2^11 + (h % 256) * 2^12, 2^20) = x
<1> DEFINE a == (x \div 4096) % 256
           b == (x \div 2048) % 2
           e == (x \div 2) % 1024
           s == x \div 1048576
           h == a + 256 * (b + 2 * e + 2048 * s)
<1>1. Bits(x, 19, 12) = a /\ Bits(x, 11, 11) = b /\ Bits(x, 10, 1) = e /\ x \div 2^20 = s
  BY SMT DEF Bits
<1>2. a \in 0 .. 255 /\ b \in 0 .. 1 /\ e \in 0 .. 1023 /\ s \in -1 .. 0
  BY SMT
<1>3. x = 2 * e + 2048 * b + 4096 * a + 1048576 * s
  BY SMT
<1> HIDE DEF a, b, e, s
<1>4. h \in Int /\ -524288 <= h /\ h <= 524287
  BY <1>2, SMT
<1>5. h % 256 = a /\ (h \div 256) % 2 = b /\ (h \div 512) = e + 1024 * s
  BY <1>2, SMT
<1>6. (h \div 512) % 1024 = e /\ (h < 0) = (s = -1)
  BY <1>2, <1>5, SMT
<1>7. 2^8 = 256 /\ 2^9 = 512 /\ 2^10 = 1024 /\ 2^11 = 2048 /\ 2^12 = 4096 /\ 2^20 = 1048576
  BY SMT
<1> DEFINE y == (IF h < 0 THEN 2^20 ELSE 0) + ((h \div 2^9) % 2^10) * 2
                           + ((h \div 256) % 2) * 2^11 + (h % 256) * 2^12
<1>8. y = IF s = -1 THEN x + 2 * 1048576 ELSE x
  <2> HIDE DEF h
  <2>1. ((h \div 2^9) % 2^10) * 2 = 2 * e /\ ((h \div 256) % 2) * 2^11 = 2048 * b
        /\ (h % 256) * 2^12 = 4096 * a
    BY <1>2, <1>5, <1>6, <1>7, SMT
  <2>2. (IF h < 0 THEN 2^20 ELSE 0) = IF s = -1 THEN 1048576 ELSE 0
    BY <1>6, <1>7, SMT
  <2> DEFINE p == (IF h < 0 THEN 2^20 ELSE 0)
             q == ((h \div 2^9) % 2^10) * 2
             t == ((h \div 256) % 2) * 2^11
             w == (h % 256) * 2^12
  <2>3. y = p + q + t + w
    OBVIOUS
  <2>4. p = (IF s = -1 THEN 1048576 ELSE 0) /\ q = 2 * e /\ t = 2048 * b /\ w = 4096 * a
    BY <2>1, <2>2
  <2> HIDE DEF p, q, t, w, y
  <2> QED BY <1>2, <1>3, <2>3, <2>4, SMT
<1> HIDE DEF y
<1>9. SignExtend(y, 2^20) = x
  BY <1>2, <1>3, <1>7, <1>8, SMT DEF SignExtend
<1> QED BY <1>1, <1>4, <1>7, <1>9, SMT DEF y, Signed20

\* The fields the code takes out of a JAL are those of the instruction.
LEMMA DecodeJ ==
  ASSUME NEW i \in Instructions, Format(i.op) = "J", NEW ir, ir = Encode(i)
  PROVE  /\ ir \in Int /\ Opcode(ir) = IsaOpcode(i.op) /\ Rd(ir) = i.rd
         /\ ImmediateJ(ir) = i.imm
<1>1. /\ i.op \in Mnemonics /\ i.rd \in 0 .. 31 /\ i.imm \in Int
      /\ HasImmediate(i) /\ i.op \notin Shifts
  <2>1. i.op \notin Shifts
    BY SMT DEF Format, Shifts, ImmediateOps, Branches, Loads, Stores
  <2> QED BY <2>1 DEF Instructions, Regs
<1> DEFINE c == IsaOpcode(i.op)
           x == i.imm
           a == Bits(x, 19, 12)
           b == Bits(x, 11, 11)
           e == Bits(x, 10, 1)
           s == x \div 2^20
           h == a + 2^8 * (b + 2 * e + 2^11 * s)
<1>2. c \in 0 .. 127
  BY <1>1, IsaFields, SMT
<1>3. x \in Int /\ x % 2 = 0 /\ -1048576 <= x /\ x <= 1048575
  <2>1. x % 2 = 0 /\ x \div 2 \in -(2^19) .. 2^19 - 1
    BY <1>1, Zenon DEF HasImmediate, Shifts
  <2> HIDE DEF x
  <2>2. x \in Int
    BY <1>1 DEF x
  <2> QED BY <2>1, <2>2, SMT
<1>4. ir = c + 2^7 * i.rd + 2^12 * a + 2^20 * (b + 2 * e + 2^11 * s)
  BY Zenon DEF Encode
<1> HIDE DEF c, x
<1>5. /\ Signed20(h)
      /\ SignExtend((IF h < 0 THEN 2^20 ELSE 0) + ((h \div 2^9) % 2^10) * 2
                    + ((h \div 256) % 2) * 2^11 + (h % 256) * 2^12, 2^20) = x
  BY <1>3, PartsJ, SMTT(60)
<1>6. a \in Int /\ b \in Int /\ e \in Int /\ s \in Int
  BY <1>3, SMT DEF Bits
<1> HIDE DEF a, b, e, s
<1>7. ir = ShortForm(c, i.rd, h)
  BY <1>1, <1>2, <1>4, <1>6, SMT DEF ShortForm
<1> HIDE DEF h
<1>8. ShortFields(ir, c, i.rd, h)
  BY <1>1, <1>2, <1>5, <1>7, ShortShape, ZenonT(60)
<1>9. 2^(21 - 20) = 2 /\ 2^(20 - 9) = 2^11 /\ 2^(12 - 0) = 2^12
  BY SMT
<1>10. ImmediateJ(ir) = x
  BY <1>5, <1>8, <1>9, Zenon DEF ShortFields, ImmediateJ, Move, MoveTop
<1> QED BY <1>8, <1>10, Zenon DEF ShortFields, Opcode, Rd, c, x

-----------------------------------------------------------------------------
(* Division, powers of two, and induction by the smallest counterexample.  *)

\* 2^k is a positive number and 2^m its double.
Doubles(k, m) == 2^k \in Nat \ {0} /\ 2^m = 2 * 2^k

\* A power of two is a positive number, and the next one is its double.
LEMMA Powers ==
  ASSUME NEW k \in 0 .. 31
  PROVE  Doubles(k, k + 1)
<1>1. Doubles(0, 1) /\ Doubles(1, 2) /\ Doubles(2, 3) /\ Doubles(3, 4)
  BY SMT DEF Doubles
<1>2. Doubles(4, 5) /\ Doubles(5, 6) /\ Doubles(6, 7) /\ Doubles(7, 8)
  BY SMT DEF Doubles
<1>3. Doubles(8, 9) /\ Doubles(9, 10) /\ Doubles(10, 11) /\ Doubles(11, 12)
  BY SMT DEF Doubles
<1>4. Doubles(12, 13) /\ Doubles(13, 14) /\ Doubles(14, 15) /\ Doubles(15, 16)
  BY SMT DEF Doubles
<1>5. Doubles(16, 17) /\ Doubles(17, 18) /\ Doubles(18, 19) /\ Doubles(19, 20)
  BY SMT DEF Doubles
<1>6. Doubles(20, 21) /\ Doubles(21, 22) /\ Doubles(22, 23) /\ Doubles(23, 24)
  BY SMT DEF Doubles
<1>7. Doubles(24, 25) /\ Doubles(25, 26) /\ Doubles(26, 27) /\ Doubles(27, 28)
  BY SMT DEF Doubles
<1>8. Doubles(28, 29) /\ Doubles(29, 30) /\ Doubles(30, 31) /\ Doubles(31, 32)
  BY SMT DEF Doubles
<1>9. k \in 0 .. 3 => (k = 0 /\ k + 1 = 1) \/ (k = 1 /\ k + 1 = 2) \/ (k = 2 /\ k + 1 = 3) \/ (k = 3 /\ k + 1 = 4)
  BY SMT
<1>10. k \in 4 .. 7 => (k = 4 /\ k + 1 = 5) \/ (k = 5 /\ k + 1 = 6) \/ (k = 6 /\ k + 1 = 7) \/ (k = 7 /\ k + 1 = 8)
  BY SMT
<1>11. k \in 8 .. 11 => (k = 8 /\ k + 1 = 9) \/ (k = 9 /\ k + 1 = 10) \/ (k = 10 /\ k + 1 = 11) \/ (k = 11 /\ k + 1 = 12)
  BY SMT
<1>12. k \in 12 .. 15 => (k = 12 /\ k + 1 = 13) \/ (k = 13 /\ k + 1 = 14) \/ (k = 14 /\ k + 1 = 15) \/ (k = 15 /\ k + 1 = 16)
  BY SMT
<1>13. k \in 16 .. 19 => (k = 16 /\ k + 1 = 17) \/ (k = 17 /\ k + 1 = 18) \/ (k = 18 /\ k + 1 = 19) \/ (k = 19 /\ k + 1 = 20)
  BY SMT
<1>14. k \in 20 .. 23 => (k = 20 /\ k + 1 = 21) \/ (k = 21 /\ k + 1 = 22) \/ (k = 22 /\ k + 1 = 23) \/ (k = 23 /\ k + 1 = 24)
  BY SMT
<1>15. k \in 24 .. 27 => (k = 24 /\ k + 1 = 25) \/ (k = 25 /\ k + 1 = 26) \/ (k = 26 /\ k + 1 = 27) \/ (k = 27 /\ k + 1 = 28)
  BY SMT
<1>16. k \in 28 .. 31 => (k = 28 /\ k + 1 = 29) \/ (k = 29 /\ k + 1 = 30) \/ (k = 30 /\ k + 1 = 31) \/ (k = 31 /\ k + 1 = 32)
  BY SMT
<1>17. k \in 0 .. 3 \/ k \in 4 .. 7 \/ k \in 8 .. 11 \/ k \in 12 .. 15 \/ k \in 16 .. 19 \/ k \in 20 .. 23 \/ k \in 24 .. 27 \/ k \in 28 .. 31
  BY SMT
<1>18. CASE k \in 0 .. 3
  BY <1>1, <1>9, <1>18, Zenon
<1>19. CASE k \in 4 .. 7
  BY <1>2, <1>10, <1>19, Zenon
<1>20. CASE k \in 8 .. 11
  BY <1>3, <1>11, <1>20, Zenon
<1>21. CASE k \in 12 .. 15
  BY <1>4, <1>12, <1>21, Zenon
<1>22. CASE k \in 16 .. 19
  BY <1>5, <1>13, <1>22, Zenon
<1>23. CASE k \in 20 .. 23
  BY <1>6, <1>14, <1>23, Zenon
<1>24. CASE k \in 24 .. 27
  BY <1>7, <1>15, <1>24, Zenon
<1>25. CASE k \in 28 .. 31
  BY <1>8, <1>16, <1>25, Zenon
<1> QED BY <1>17, <1>18, <1>19, <1>20, <1>21, <1>22, <1>23, <1>24, <1>25, Zenon

\* What the sizes of a byte have in common.
LEMMA WordFacts ==
  /\ Byte \in Nat /\ Byte > 1 /\ Byte % 2 = 0
  /\ Word \in Nat /\ Word > 15 /\ Word % 4 = 0 /\ Word % Byte = 0
  /\ WordBits \in 4 .. 32 /\ 2^WordBits = Word
  /\ Byte^0 = 1 /\ Byte^1 = Byte /\ Byte^2 = Byte * Byte /\ Byte^3 = Byte * Byte * Byte /\ Byte^4 = Word
<1>1. CASE Byte = 2
  BY <1>1, SMT DEF Word, WordBits
<1>2. CASE Byte = 4
  BY <1>2, SMT DEF Word, WordBits
<1>3. CASE Byte = 256
  BY <1>3, SMT DEF Word, WordBits
<1> QED BY <1>1, <1>2, <1>3, ExecAssumption

\* Every nonempty set of naturals has a smallest member.
LEMMA Smallest ==
  ASSUME NEW T, T \subseteq Nat, T # {}
  PROVE  \E m \in T : \A k \in T : m <= k
<1>1. PICK x \in T : \A y \in T : ~ (<<y, x>> \in OpToRel(<, Nat))
  BY NatLessThanWellFounded, WFMin, Zenon
<1>2. ASSUME NEW y \in T PROVE ~(y < x)
  <2>1. <<y, x>> \in Nat \X Nat /\ <<y, x>>[1] = y /\ <<y, x>>[2] = x
    OBVIOUS
  <2>2. y < x => <<y, x>> \in OpToRel(<, Nat)
    BY <2>1, Zenon DEF OpToRel
  <2> QED BY <1>1, <2>2, Zenon
<1> QED BY <1>2, SMT

\* A quotient and its remainder.
LEMMA DivMod ==
  ASSUME NEW x \in Int, NEW n \in Nat \ {0}
  PROVE  /\ x \div n \in Int /\ x % n \in Int /\ 0 <= x % n /\ x % n < n
         /\ x = n * (x \div n) + (x % n)
  BY SMT

\* Multiples of a positive number keep the order of their factors.
LEMMA MulMonotone ==
  ASSUME NEW n \in Nat \ {0}, NEW p \in Int, NEW q \in Int, p < q
  PROVE  n * p \in Int /\ n * q \in Int /\ n * p + n <= n * q
<1>1. n * (q - p - 1) \in Nat
  <2>1. \A d \in Nat : n * d \in Nat
    BY SMT
  <2>2. q - p - 1 \in Nat
    BY SMT
  <2> QED BY <2>1, <2>2
<1>2. n * (q - p - 1) = n * q - n * p - n
  BY SMT
<1> QED BY <1>1, <1>2, SMT

\* There is one quotient and one remainder.
LEMMA DivUnique ==
  ASSUME NEW n \in Nat \ {0}, NEW q \in Int, NEW r \in Int, 0 <= r, r < n,
         NEW x, x = n * q + r
  PROVE  x \div n = q /\ x % n = r
<1> DEFINE p == x \div n
           s == x % n
<1>1. x \in Int
  BY SMT
<1>2. p \in Int /\ s \in Int /\ 0 <= s /\ s < n /\ x = n * p + s
  BY <1>1, DivMod
<1> HIDE DEF p, s
<1>3. ~(p < q)
  BY <1>1, <1>2, MulMonotone, SMT
<1>4. ~(q < p)
  BY <1>1, <1>2, MulMonotone, SMT
<1>5. p = q
  BY <1>2, <1>3, <1>4, SMT
<1>6. s = r
  <2> DEFINE y == n * q
  <2>1. y \in Int
    BY SMT
  <2>2. x = y + s /\ x = y + r
    BY <1>2, <1>5
  <2> HIDE DEF y
  <2> QED BY <1>2, <2>1, <2>2, SMT
<1> QED BY <1>5, <1>6 DEF p, s

\* To divide twice is to divide by the product.
LEMMA DivDiv ==
  ASSUME NEW x \in Int, NEW n \in Nat \ {0}, NEW m \in Nat \ {0}
  PROVE  (x \div n) \div m = x \div (n * m)
<1> DEFINE y == x \div n
           q == y \div m
           r == x % n
           s == y % m
<1>1. y \in Int /\ r \in Int /\ 0 <= r /\ r < n /\ x = n * y + r
  BY DivMod
<1>2. q \in Int /\ s \in Int /\ 0 <= s /\ s < m /\ y = m * q + s
  BY <1>1, DivMod
<1> HIDE DEF y, q, r, s
<1>3. n * m \in Nat \ {0}
  BY SMT
<1>4. x = (n * m) * q + (n * s + r)
  <2>1. n * (m * q + s) = (n * m) * q + n * s
    BY <1>2, SMT
  <2> QED BY <1>1, <1>2, <2>1, SMT
<1>5. n * s + r \in Int /\ 0 <= n * s + r /\ n * s + r < n * m
  <2>1. n * s <= n * (m - 1)
    BY <1>2, SMT
  <2>2. n * s \in Nat /\ n * (m - 1) = n * m - n
    BY <1>2, SMT
  <2> QED BY <1>1, <1>3, <2>1, <2>2, SMT
<1>6. x \div (n * m) = q
  <2> DEFINE N == n * m
             R == n * s + r
  <2>1. N \in Nat \ {0} /\ R \in Int /\ 0 <= R /\ R < N /\ x = N * q + R
    BY <1>3, <1>4, <1>5
  <2> HIDE DEF N, R
  <2>2. x \div N = q /\ x % N = R
    BY <1>2, <2>1, DivUnique
  <2> QED BY <2>2 DEF N, R
<1> QED BY <1>6 DEF q, y

\* The quotient of a remainder.
LEMMA ModDiv ==
  ASSUME NEW x \in Int, NEW n \in Nat \ {0}, NEW m \in Nat \ {0}
  PROVE  (x % (n * m)) \div n = (x \div n) % m
<1> DEFINE y == x \div n
           q == y \div m
           r == x % n
           s == y % m
<1>1. y \in Int /\ r \in Int /\ 0 <= r /\ r < n /\ x = n * y + r
  BY DivMod
<1>2. q \in Int /\ s \in Int /\ 0 <= s /\ s < m /\ y = m * q + s
  BY <1>1, DivMod
<1> HIDE DEF y, q, r, s
<1>3. n * m \in Nat \ {0}
  BY SMT
<1>4. x = (n * m) * q + (n * s + r)
  <2>1. n * (m * q + s) = (n * m) * q + n * s
    BY <1>2, SMT
  <2> QED BY <1>1, <1>2, <2>1, SMT
<1>5. n * s + r \in Int /\ 0 <= n * s + r /\ n * s + r < n * m
  <2>1. n * s <= n * (m - 1)
    BY <1>2, SMT
  <2>2. n * s \in Nat /\ n * (m - 1) = n * m - n
    BY <1>2, SMT
  <2> QED BY <1>1, <1>3, <2>1, <2>2, SMT
<1>6. x % (n * m) = n * s + r
  <2> DEFINE N == n * m
             R == n * s + r
  <2>1. N \in Nat \ {0} /\ R \in Int /\ 0 <= R /\ R < N /\ x = N * q + R
    BY <1>3, <1>4, <1>5
  <2> HIDE DEF N, R
  <2>2. x \div N = q /\ x % N = R
    BY <1>2, <2>1, DivUnique
  <2> QED BY <2>2 DEF N, R
<1>7. (n * s + r) \div n = s
  BY <1>1, <1>2, DivUnique, SMT
<1> QED BY <1>6, <1>7 DEF s, y

\* A factor both sides of a division have can be left out.
LEMMA MulDivCancel ==
  ASSUME NEW x \in Int, NEW n \in Nat \ {0}, NEW m \in Nat \ {0}
  PROVE  (x * m) \div (n * m) = x \div n
<1>1. (x * m) \div m = x
  BY DivUnique, x * m \in Int, x * m = m * x + 0, SMT
<1>2. (x * m) \div (m * n) = ((x * m) \div m) \div n
  BY DivDiv, SMT
<1> QED BY <1>1, <1>2, SMT

\* A power of two is a positive number.
LEMMA PowerIsNat ==
  ASSUME NEW k \in 0 .. 32
  PROVE  2^k \in Nat \ {0}
<1>1. CASE k = 32
  <2>1. 2^32 \in Nat \ {0}
    BY SMT
  <2> QED BY <1>1, <2>1, Zenon
<1>2. CASE k # 32
  <2>1. k \in 0 .. 31
    BY <1>2, SMT
  <2> QED BY <2>1, Powers, Zenon DEF Doubles
<1> QED BY <1>1, <1>2

\* The power of a sum is the product of the powers.
LEMMA PowerSum ==
  ASSUME NEW k \in 0 .. 32, NEW j \in 0 .. 32, j + k <= 32
  PROVE  2^(j + k) = 2^j * 2^k
<1> DEFINE T == {n \in 0 .. 32 - k : 2^(n + k) # 2^n * 2^k}
<1>1. SUFFICES ASSUME T # {} PROVE FALSE
  <2>1. j \in 0 .. 32 - k
    BY SMT
  <2> QED BY <2>1, Zenon
<1>2. T \subseteq Nat
  BY SMT
<1>3. PICK m \in T : \A n \in T : m <= n
  BY <1>1, <1>2, Smallest
<1>4. m \in 0 .. 32 - k /\ 2^(m + k) # 2^m * 2^k
  BY <1>3
<1>5. 2^k \in Nat
  BY PowerIsNat
<1>6. m # 0
  <2>1. SUFFICES ASSUME m = 0 PROVE FALSE
    OBVIOUS
  <2>2. 2^0 = 1 /\ 0 + k = k
    BY SMT
  <2> DEFINE p == 2^k
  <2>4. 1 * p = p
    <3> HIDE DEF p
    <3>1. p \in Nat => 1 * p = p
      BY SMT
    <3> QED BY <1>5, <3>1 DEF p
  <2> QED BY <1>4, <2>1, <2>2, <2>4, Zenon
<1>7. m - 1 \in 0 .. 32 - k /\ m - 1 \notin T /\ m - 1 \in 0 .. 31 /\ m - 1 + k \in 0 .. 31
  BY <1>3, <1>4, <1>6, SMT
<1>8. 2^(m - 1 + k) = 2^(m - 1) * 2^k
  BY <1>7
<1>9. (m - 1) + 1 = m /\ (m - 1 + k) + 1 = m + k
  BY <1>4, SMT
<1>10. 2^m = 2 * 2^(m - 1) /\ 2^(m + k) = 2 * 2^(m - 1 + k)
  BY <1>7, <1>9, Powers, Zenon DEF Doubles
<1>11. 2^(m - 1) \in Nat
  <2>1. m - 1 \in 0 .. 32
    BY <1>7, SMT
  <2> QED BY <2>1, PowerIsNat, Zenon
<1>12. \A p, q \in Nat : 2 * (p * q) = (2 * p) * q
  BY SMT
<1> QED BY <1>4, <1>5, <1>8, <1>10, <1>11, <1>12, Zenon

-----------------------------------------------------------------------------
(* Bits and words.                                                         *)

\* A multiple of 2^n does not reach the bits below n.
LEMMA BitBelow ==
  ASSUME NEW x \in Int, NEW c \in Int, NEW n \in 0 .. 32, NEW k \in 0 .. 32, k < n
  PROVE  Bit(x + c * 2^n, k) <=> Bit(x, k)
<1> DEFINE p == 2^k
           t == 2^(n - k - 1)
<1>1. p \in Nat \ {0} /\ t \in Nat \ {0}
  <2>1. n - k - 1 \in 0 .. 32
    BY SMT
  <2> QED BY <2>1, PowerIsNat
<1>2. 2^n = p * (2 * t)
  <2>1. n - k - 1 \in 0 .. 31 /\ (n - k - 1) + 1 = n - k /\ n - k \in 0 .. 32 /\ k + (n - k) = n
    BY SMT
  <2>2. 2^(n - k) = 2 * t
    BY <2>1, Powers, Zenon DEF Doubles
  <2>3. 2^(k + (n - k)) = p * 2^(n - k)
    <3>1. k + (n - k) <= 32
      BY SMT
    <3> QED BY <2>1, <3>1, PowerSum, Zenon
  <2> QED BY <2>1, <2>2, <2>3, Zenon
<1> HIDE DEF p, t
<1> DEFINE q == x \div p
           r == x % p
           u == c * t
<1>3. q \in Int /\ r \in Int /\ 0 <= r /\ r < p /\ x = p * q + r
  BY <1>1, DivMod
<1>4. u \in Int
  BY <1>1, SMT
<1>5. c * 2^n = p * (2 * u)
  <2>1. c * (p * (2 * t)) = p * (2 * (c * t))
    BY <1>1, SMT
  <2> QED BY <1>2, <2>1, Zenon
<1> HIDE DEF q, r, u
<1>6. x + c * 2^n = p * (q + 2 * u) + r
  <2>1. p * (q + 2 * u) = p * q + p * (2 * u)
    BY <1>1, <1>3, <1>4, SMT
  <2> DEFINE y == p * q
             z == p * (2 * u)
  <2>2. y \in Int /\ z \in Int /\ x = y + r /\ x + c * 2^n = x + z /\ p * (q + 2 * u) = y + z
    BY <1>1, <1>3, <1>4, <1>5, <2>1, SMT
  <2> HIDE DEF y, z
  <2> QED BY <1>3, <2>2, SMT
<1>7. (x + c * 2^n) \div p = q + 2 * u
  <2> DEFINE y == x + c * 2^n
             v == q + 2 * u
  <2>1. v \in Int
    BY <1>3, <1>4, SMT
  <2>2. y = p * v + r
    BY <1>6
  <2> HIDE DEF y, v
  <2>3. y \div p = v
    BY <1>1, <1>3, <2>1, <2>2, DivUnique
  <2> QED BY <2>3 DEF y, v
<1>8. (q + 2 * u) % 2 = q % 2
  BY <1>3, <1>4, SMT
<1> QED BY <1>7, <1>8 DEF Bit, p, q

\* Every set of bits is that of a number.
LEMMA AnyBits ==
  ASSUME NEW n \in 0 .. 32, NEW S \in SUBSET (0 .. n - 1)
  PROVE  \E x \in Nat : x < 2^n /\ \A k \in 0 .. n - 1 : Bit(x, k) <=> k \in S
<1> DEFINE Has(m, R) == \E x \in Nat : x < 2^m /\ \A k \in 0 .. m - 1 : Bit(x, k) <=> k \in R
           T == {m \in 0 .. 32 : \E R \in SUBSET (0 .. m - 1) : ~Has(m, R)}
<1>1. SUFFICES ASSUME T # {} PROVE FALSE
  BY Zenon
<1>2. T \subseteq Nat
  BY SMT
<1>3. PICK m \in T : \A j \in T : m <= j
  BY <1>1, <1>2, Smallest
<1>4. m \in 0 .. 32
  BY <1>3
<1>5. PICK R \in SUBSET (0 .. m - 1) : ~Has(m, R)
  BY <1>3
<1>6. m # 0
  <2>1. 0 < 2^0 /\ 0 .. 0 - 1 = {}
    BY SMT
  <2>2. Has(0, R)
    BY <2>1, Zenon, 0 \in Nat
  <2> QED BY <1>5, <2>2, Zenon
<1> DEFINE j == m - 1
           Q == R \ {j}
<1>7. j \in 0 .. 31 /\ j \notin T /\ j + 1 = m /\ j \in 0 .. 32
  BY <1>3, <1>4, <1>6, SMT
<1>8. Q \in SUBSET (0 .. j - 1)
  BY <1>4, <1>7, SMT
<1>9. PICK y \in Nat : y < 2^j /\ \A k \in 0 .. j - 1 : Bit(y, k) <=> k \in Q
  BY <1>7, <1>8, Zenon
<1>10. 2^j \in Nat \ {0} /\ 2^m = 2 * 2^j
  BY <1>7, Powers, Zenon DEF Doubles
<1> DEFINE p == 2^j
           x == IF j \in R THEN y + 1 * p ELSE y + 0 * p
<1>11. x \in Nat /\ x < 2^m
  <2> HIDE DEF p
  <2>1. p \in Nat /\ y < p /\ 2^m = 2 * p
    BY <1>9, <1>10 DEF p
  <2> QED BY <2>1, SMT
<1>12. ASSUME NEW k \in 0 .. j - 1 PROVE Bit(x, k) <=> k \in R
  <2>1. k \in 0 .. 32 /\ k < j /\ k # j
    BY <1>7, SMT
  <2>2. 1 \in Int /\ 0 \in Int /\ y \in Int
    BY SMT
  <2>3. (Bit(y + 1 * p, k) <=> Bit(y, k)) /\ (Bit(y + 0 * p, k) <=> Bit(y, k))
    BY <1>7, <2>1, <2>2, BitBelow, Zenon
  <2>4. Bit(x, k) <=> Bit(y, k)
    BY <2>3, Zenon
  <2> QED BY <1>9, <2>1, <2>4, Zenon
<1>13. Bit(x, j) <=> j \in R
  <2>1. y \div p = 0 /\ (y + p) \div p = 1
    <3>1. p \in Nat \ {0} /\ y < p
      BY <1>9, <1>10
    <3> HIDE DEF p
    <3>2. y = p * 0 + y /\ y + p = p * 1 + y
      BY <3>1, SMT
    <3> QED BY <3>1, <3>2, DivUnique, SMT
  <2>2. y + 1 * p = y + p /\ y + 0 * p = y
    <3>1. p \in Nat
      BY <1>10
    <3> HIDE DEF p
    <3> QED BY <3>1, SMT
  <2>3. (x \div p) % 2 = 1 <=> j \in R
    <3> HIDE DEF p
    <3>1. 1 % 2 = 1 /\ 0 % 2 = 0
      BY SMT
    <3> QED BY <2>1, <2>2, <3>1, SMT
  <2> QED BY <2>3, Zenon DEF Bit
<1>14. \A k \in 0 .. m - 1 : Bit(x, k) <=> k \in R
  <2>1. \A k \in 0 .. m - 1 : k = j \/ k \in 0 .. j - 1
    BY <1>4, SMT
  <2> QED BY <1>12, <1>13, <2>1, Zenon
<1> QED BY <1>5, <1>11, <1>14, Zenon

\* OfBits(S) is the word whose bits are S.
LEMMA OfBitsIs ==
  ASSUME NEW S \in SUBSET (0 .. WordBits - 1)
  PROVE  OfBits(S) \in Words /\ BitsOf(OfBits(S)) = S
<1>1. WordBits \in 0 .. 32 /\ 2^WordBits = Word /\ Word \in Nat
  BY WordFacts, SMT
<1>2. PICK x \in Nat : x < 2^WordBits /\ \A k \in 0 .. WordBits - 1 : Bit(x, k) <=> k \in S
  BY <1>1, AnyBits
<1>3. x \in Words
  BY <1>1, <1>2, SMT DEF Words
<1>4. BitsOf(x) = S
  BY <1>2, Zenon DEF BitsOf
<1> QED BY <1>3, <1>4, Zenon DEF OfBits

\* And, Or and Xor do what they are named for, in each bit.
LEMMA Bitwise ==
  ASSUME NEW a \in Words, NEW b \in Words
  PROVE  /\ And(a, b) \in Words /\ Or(a, b) \in Words /\ Xor(a, b) \in Words
         /\ \A k \in 0 .. WordBits - 1 :
                /\ Bit(And(a, b), k) <=> Bit(a, k) /\ Bit(b, k)
                /\ Bit(Or(a, b), k) <=> Bit(a, k) \/ Bit(b, k)
                /\ Bit(Xor(a, b), k) <=> (Bit(a, k) <=> ~Bit(b, k))
<1> DEFINE S == BitsOf(a)
           T == BitsOf(b)
<1>1. /\ S \cap T \in SUBSET (0 .. WordBits - 1) /\ S \cup T \in SUBSET (0 .. WordBits - 1)
      /\ (S \ T) \cup (T \ S) \in SUBSET (0 .. WordBits - 1)
  BY Zenon DEF BitsOf
<1>2. /\ And(a, b) \in Words /\ BitsOf(And(a, b)) = S \cap T
      /\ Or(a, b) \in Words /\ BitsOf(Or(a, b)) = S \cup T
      /\ Xor(a, b) \in Words /\ BitsOf(Xor(a, b)) = (S \ T) \cup (T \ S)
  BY <1>1, OfBitsIs, Zenon DEF And, Or, Xor
<1>3. ASSUME NEW x, NEW k \in 0 .. WordBits - 1
      PROVE  Bit(x, k) <=> k \in BitsOf(x)
  BY Zenon DEF BitsOf
<1> QED BY <1>2, <1>3, Zenon

\* Cut takes multiples of Word away until a word is left.
LEMMA CutIs ==
  ASSUME NEW x \in Int
  PROVE  /\ Cut(x) \in Words /\ x \div Word \in Int
         /\ x = Cut(x) + (x \div Word) * Word
<1>1. Word \in Nat \ {0}
  BY WordFacts, SMT
<1>2. /\ x \div Word \in Int /\ x % Word \in Int /\ 0 <= x % Word /\ x % Word < Word
      /\ x = Word * (x \div Word) + (x % Word)
  BY <1>1, DivMod
<1> DEFINE q == x \div Word
           r == x % Word
           W == Word
<1> HIDE DEF q, r, W
<1>3. W \in Nat /\ q \in Int /\ r \in Int /\ 0 <= r /\ r < W /\ x = W * q + r
  BY <1>1, <1>2 DEF q, r, W
<1>4. r \in 0 .. W - 1 /\ x = r + q * W
  BY <1>3, SMT
<1> QED BY <1>3, <1>4 DEF q, r, W, Cut, Words

\* A word is a natural number below Word.
LEMMA WordIs ==
  ASSUME NEW a \in Words
  PROVE  a \in Int /\ a \in Nat /\ 0 <= a /\ a < Word
  BY WordFacts, SMT DEF Words

\* The bits of a number are those of its word.
LEMMA CutBits ==
  ASSUME NEW x \in Int, NEW k \in 0 .. WordBits - 1
  PROVE  Bit(Cut(x), k) <=> Bit(x, k)
<1>1. Cut(x) \in Int /\ x \div Word \in Int /\ x = Cut(x) + (x \div Word) * Word
  BY CutIs, WordIs, Zenon
<1>2. WordBits \in 0 .. 32 /\ k \in 0 .. 32 /\ k < WordBits /\ 2^WordBits = Word
  BY WordFacts, SMT
<1> DEFINE r == Cut(x)
           q == x \div Word
<1> HIDE DEF r, q
<1>3. r \in Int /\ q \in Int /\ x = r + q * 2^WordBits
  BY <1>1, <1>2 DEF r, q
<1>4. Bit(r + q * 2^WordBits, k) <=> Bit(r, k)
  BY <1>2, <1>3, BitBelow, Zenon
<1> QED BY <1>3, <1>4, Zenon DEF r

\* The signed number of a word lies in its half of the range and has the
\* same bits.
LEMMA SignedIs ==
  ASSUME NEW a \in Words
  PROVE  /\ a \in Int /\ Signed(a) \in Int
         /\ 2 * Signed(a) < Word /\ -Word <= 2 * Signed(a)
         /\ (Signed(a) < 0 <=> 2 * a >= Word)
         /\ Cut(Signed(a)) = a
         /\ (Signed(a) = a \/ Signed(a) = a - Word)
<1>1. Word \in Nat /\ Word % 4 = 0 /\ a \in 0 .. Word - 1 /\ Word > 0
  BY WordFacts, SMT DEF Words
<1>2. Signed(a) = a \/ Signed(a) = a + (-1) * Word
  BY <1>1, SMT DEF Signed
<1> DEFINE h == Word \div 2
<1>3. h \in Nat /\ Word = 2 * h
  BY <1>1, SMT
<1> HIDE DEF h
<1>4. /\ 2 * Signed(a) < Word /\ -Word <= 2 * Signed(a)
      /\ (Signed(a) < 0 <=> 2 * a >= Word)
  BY <1>1, <1>3, SMT DEF Signed, h
<1>5. Cut(a) = a /\ Cut(a - Word) = a
  BY <1>1, SMT DEF Cut
<1> QED BY <1>1, <1>2, <1>4, <1>5, SMT

\* A division by 2^s moves the bits to the right.
LEMMA ShiftedRight ==
  ASSUME NEW x \in Int, NEW s \in 0 .. 32, NEW k \in 0 .. 32, s + k <= 32
  PROVE  Bit(x \div 2^s, k) <=> Bit(x, s + k)
<1> DEFINE p == 2^s
           q == 2^k
<1>1. p \in Nat \ {0} /\ q \in Nat \ {0}
  BY PowerIsNat
<1>2. 2^(s + k) = p * q
  BY PowerSum, Zenon
<1> HIDE DEF p, q
<1>3. (x \div p) \div q = x \div (p * q)
  BY <1>1, DivDiv
<1> QED BY <1>2, <1>3, Zenon DEF p, q, Bit

\* From its sign on, a number has one bit over and over.
LEMMA SignOnly ==
  ASSUME NEW h \in 0 .. 32, NEW x \in Int, -(2^h) <= x, x < 2^h,
         NEW s \in 0 .. h, NEW k \in 0 .. 32, k >= h - s
  PROVE  Bit(x \div 2^s, k) <=> x < 0
<1> DEFINE p == 2^s
           q == 2^(h - s)
           t == 2^(k - (h - s))
           m == IF x < 0 THEN -1 ELSE 0
<1>1. s \in 0 .. 32 /\ h - s \in 0 .. 32 /\ k - (h - s) \in 0 .. 32
  BY SMT
<1>2. p \in Nat \ {0} /\ q \in Nat \ {0} /\ t \in Nat \ {0} /\ m \in Int
  <2>1. m \in Int
    BY SMT
  <2> QED BY <1>1, <2>1, PowerIsNat, Zenon
<1>3. 2^h = p * q /\ 2^k = q * t
  <2>1. s + (h - s) = h /\ (h - s) + (k - (h - s)) = k /\ s + (h - s) <= 32 /\ (h - s) + (k - (h - s)) <= 32
    BY SMT
  <2>2. 2^(s + (h - s)) = p * q /\ 2^((h - s) + (k - (h - s))) = q * t
    BY <1>1, <2>1, PowerSum, Zenon
  <2> QED BY <2>1, <2>2, Zenon
<1> HIDE DEF p, q, t
<1>4. x \div (p * q) = m
  <2> DEFINE n == p * q
  <2>1. n \in Nat \ {0} /\ -n <= x /\ x < n
    BY <1>2, <1>3, SMT
  <2> HIDE DEF n
  <2>2. 0 <= x - n * m /\ x - n * m < n /\ x = n * m + (x - n * m) /\ x - n * m \in Int
    BY <2>1, SMT
  <2>3. x \div n = m
    <3> HIDE DEF m
    <3> DEFINE r == x - n * m
    <3> HIDE DEF r
    <3>1. r \in Int /\ 0 <= r /\ r < n /\ x = n * m + r
      BY <2>2 DEF r
    <3> QED BY <1>2, <2>1, <3>1, DivUnique
  <2> QED BY <2>3 DEF n
<1>5. (x \div p) \div q = m
  BY <1>2, <1>4, DivDiv
<1> DEFINE y == x \div p
<1>6. y \in Int
  BY <1>2, DivMod
<1> HIDE DEF y
<1>7. y \div (q * t) = m \div t
  <2>1. (y \div q) \div t = y \div (q * t)
    BY <1>2, <1>6, DivDiv
  <2> QED BY <1>5, <2>1 DEF y
<1>8. m \div t = m
  <2>1. -1 = t * (-1) + (t - 1) /\ 0 <= t - 1 /\ t - 1 < t /\ t - 1 \in Int /\ -1 \in Int
    BY <1>2, SMT
  <2>2. (-1) \div t = -1
    BY <1>2, <2>1, DivUnique
  <2>3. 0 \div t = 0
    BY <1>2, SMT
  <2> QED BY <2>2, <2>3, SMT
<1>9. m % 2 = 1 <=> x < 0
  BY SMT
<1> QED BY <1>3, <1>7, <1>8, <1>9, Zenon DEF Bit, y, p

-----------------------------------------------------------------------------
(* Each operation of the arithmetic is what the ISA names.                 *)

\* The bounds of words and their bits, as the provers need them.
LEMMA WordBound ==
  /\ Word \in Nat \ {0} /\ WordBits \in 1 .. 32 /\ WordBits \in 0 .. 32 /\ 2^WordBits = Word
  /\ 0 \in Words /\ 1 \in Words
  BY WordFacts, SMT DEF Words

\* The sum the code computes is the one the ISA names.
LEMMA AddMeans ==
  ASSUME NEW a \in Words, NEW b \in Words, NEW op \in {"ADD", "ADDI"}
  PROVE  Cut(a + b) \in Words /\ Means(op, a, b, Cut(a + b))
<1> DEFINE r == Cut(a + b)
           q == (a + b) \div Word
<1>1. a \in Int /\ b \in Int
  BY WordIs
<1>2. r \in Words /\ q \in Int /\ a + b = r + q * Word
  BY <1>1, CutIs
<1> HIDE DEF r, q
<1>3. (r - a - b) % Word = 0
  <2>1. r \in Int /\ Word \in Nat \ {0}
    BY <1>2, WordIs, WordBound
  <2>2. r - a - b = Word * (-q) + 0
    BY <1>1, <1>2, <2>1, SMT
  <2>3. -q \in Int /\ 0 < Word
    BY <1>2, <2>1, SMT
  <2> QED BY <2>1, <2>2, <2>3, DivUnique
<1>4. Means(op, a, b, r)
  BY <1>3, Zenon DEF Means
<1> QED BY <1>2, <1>4 DEF r

\* The difference the code computes is the one the ISA names.
LEMMA SubMeans ==
  ASSUME NEW a \in Words, NEW b \in Words
  PROVE  Cut(a - b) \in Words /\ Means("SUB", a, b, Cut(a - b))
<1> DEFINE r == Cut(a - b)
           q == (a - b) \div Word
<1>1. a \in Int /\ b \in Int
  BY WordIs
<1>2. r \in Words /\ q \in Int /\ a - b = r + q * Word
  BY <1>1, CutIs
<1> HIDE DEF r, q
<1>3. (r + b - a) % Word = 0
  <2>1. r \in Int /\ Word \in Nat \ {0}
    BY <1>2, WordIs, WordBound
  <2>2. r + b - a = Word * (-q) + 0
    BY <1>1, <1>2, <2>1, SMT
  <2>3. -q \in Int /\ 0 < Word
    BY <1>2, <2>1, SMT
  <2> QED BY <2>1, <2>2, <2>3, DivUnique
<1>4. Means("SUB", a, b, r)
  BY <1>3, SMT DEF Means
<1> QED BY <1>2, <1>4 DEF r

\* The comparisons give the words 0 and 1 the ISA names.
LEMMA CompareMeans ==
  ASSUME NEW a \in Words, NEW b \in Words
  PROVE  /\ OfBool(Signed(a) < Signed(b)) \in Words /\ OfBool(a < b) \in Words
         /\ \A op \in {"SLT", "SLTI"} : Means(op, a, b, OfBool(Signed(a) < Signed(b)))
         /\ \A op \in {"SLTU", "SLTIU"} : Means(op, a, b, OfBool(a < b))
<1>1. OfBool(Signed(a) < Signed(b)) \in Words /\ OfBool(a < b) \in Words
  BY WordBound, Zenon DEF OfBool
<1>2. ASSUME NEW op \in {"SLT", "SLTI"} PROVE Means(op, a, b, OfBool(Signed(a) < Signed(b)))
  BY Zenon DEF Means
<1>3. ASSUME NEW op \in {"SLTU", "SLTIU"} PROVE Means(op, a, b, OfBool(a < b))
  BY Zenon DEF Means
<1> QED BY <1>1, <1>2, <1>3

\* The bitwise operations are the ones the ISA names.
LEMMA BitwiseMeans ==
  ASSUME NEW a \in Words, NEW b \in Words
  PROVE  /\ \A op \in {"AND", "ANDI"} : Means(op, a, b, And(a, b))
         /\ \A op \in {"OR", "ORI"} : Means(op, a, b, Or(a, b))
         /\ \A op \in {"XOR", "XORI"} : Means(op, a, b, Xor(a, b))
<1>1. ASSUME NEW op \in {"AND", "ANDI"} PROVE Means(op, a, b, And(a, b))
  BY Bitwise, Zenon DEF Means
<1>2. ASSUME NEW op \in {"OR", "ORI"} PROVE Means(op, a, b, Or(a, b))
  BY Bitwise, Zenon DEF Means
<1>3. ASSUME NEW op \in {"XOR", "XORI"} PROVE Means(op, a, b, Xor(a, b))
  BY Bitwise, Zenon DEF Means
<1> QED BY <1>1, <1>2, <1>3

\* The distance of a shift is less than the bits of a word.
LEMMA Shamt ==
  ASSUME NEW b \in Words
  PROVE  /\ b % WordBits \in 0 .. WordBits - 1 /\ b % WordBits \in 0 .. 32
         /\ Shift(b) = 2^(b % WordBits) /\ Shift(b) \in Nat \ {0}
<1>1. b % WordBits \in 0 .. WordBits - 1 /\ b % WordBits \in 0 .. 32
  BY WordBound, WordIs, SMT
<1>2. 2^(b % WordBits) \in Nat \ {0}
  BY <1>1, PowerIsNat, Zenon
<1> QED BY <1>1, <1>2, Zenon DEF Shift

\* A product with a power of two is the shift to the left of the ISA.
LEMMA LeftMeans ==
  ASSUME NEW a \in Words, NEW b \in Words, NEW op \in {"SLL", "SLLI"}
  PROVE  Cut(a * Shift(b)) \in Words /\ Means(op, a, b, Cut(a * Shift(b)))
<1> DEFINE s == b % WordBits
           p == 2^s
           r == Cut(a * p)
<1>1. a \in Int /\ s \in 0 .. WordBits - 1 /\ s \in 0 .. 32 /\ Shift(b) = p /\ p \in Nat \ {0} /\ a * p \in Int
  BY WordIs, Shamt, SMT
<1> HIDE DEF s
<1>2. r \in Words
  BY <1>1, CutIs
<1>3. ASSUME NEW k \in 0 .. WordBits - 1
      PROVE  Bit(r, k) <=> k >= s /\ Bit(a, k - s)
  <2>1. Bit(r, k) <=> Bit(a * p, k)
    BY <1>1, CutBits
  <2>2. k \in 0 .. 32
    BY WordBound, SMT
  <2>3. CASE k >= s
    <3>1. k - s \in 0 .. 32 /\ (k - s) + s = k /\ (k - s) + s <= 32
      BY <1>1, <2>2, <2>3, SMT
    <3> DEFINE n == 2^(k - s)
    <3>2. n \in Nat \ {0} /\ 2^k = n * p
      BY <1>1, <3>1, PowerIsNat, PowerSum, Zenon
    <3> HIDE DEF n, p
    <3>3. (a * p) \div (n * p) = a \div n
      BY <1>1, <3>2, MulDivCancel
    <3>4. Bit(a * p, k) <=> Bit(a, k - s)
      BY <3>2, <3>3, Zenon DEF Bit, n
    <3> QED BY <2>1, <2>3, <3>4
  <2>4. CASE ~(k >= s)
    <3>1. k < s /\ 0 \in Int
      BY <1>1, <2>2, <2>4, SMT
    <3>2. Bit(0 + a * p, k) <=> Bit(0, k)
      BY <1>1, <2>2, <3>1, BitBelow, Zenon
    <3>3. ~Bit(0, k)
      <4>1. 2^k \in Nat \ {0}
        BY <2>2, PowerIsNat
      <4> DEFINE n == 2^k
      <4> HIDE DEF n
      <4>2. n \in Nat \ {0}
        BY <4>1 DEF n
      <4>3. (0 \div n) % 2 # 1
        BY <4>2, SMT
      <4> QED BY <4>3 DEF Bit, n
    <3>4. 0 + a * p = a * p
      <4> HIDE DEF p
      <4> QED BY <1>1, SMT
    <3> QED BY <2>1, <2>4, <3>2, <3>3, <3>4, Zenon
  <2> QED BY <2>3, <2>4
<1> HIDE DEF r
<1>4. Means(op, a, b, r)
  BY <1>3, Zenon DEF Means, s
<1> QED BY <1>1, <1>2, <1>4 DEF r

\* A quotient by a power of two is the logical shift of the ISA.
LEMMA RightMeans ==
  ASSUME NEW a \in Words, NEW b \in Words, NEW op \in {"SRL", "SRLI"}
  PROVE  a \div Shift(b) \in Words /\ Means(op, a, b, a \div Shift(b))
<1> DEFINE s == b % WordBits
           p == 2^s
           r == a \div p
<1>1. a \in Int /\ 0 <= a /\ a < Word /\ s \in 0 .. WordBits - 1 /\ s \in 0 .. 32 /\ Shift(b) = p /\ p \in Nat \ {0}
  BY WordIs, Shamt, SMT
<1> HIDE DEF s
<1>2. r \in Words
  <2> HIDE DEF p
  <2>1. r \in Int /\ 0 <= r /\ r <= a
    BY <1>1, SMT
  <2> QED BY <1>1, <2>1, WordBound, SMT DEF Words
<1>3. ASSUME NEW k \in 0 .. WordBits - 1
      PROVE  Bit(r, k) <=> k + s < WordBits /\ Bit(a, k + s)
  <2>1. k \in 0 .. 32 /\ WordBits \in 0 .. 32 /\ s \in 0 .. WordBits /\ s + k = k + s
    BY <1>1, WordBound, SMT
  <2>2. CASE k + s < WordBits
    <3>1. s + k <= 32
      BY <1>1, <2>1, <2>2, SMT
    <3>2. Bit(r, k) <=> Bit(a, s + k)
      BY <1>1, <2>1, <3>1, ShiftedRight, Zenon
    <3> QED BY <2>1, <2>2, <3>2, Zenon
  <2>3. CASE ~(k + s < WordBits)
    <3>1. k >= WordBits - s /\ -(2^WordBits) <= a /\ a < 2^WordBits /\ ~(a < 0)
      BY <1>1, <2>1, <2>3, WordBound, SMT
    <3>2. Bit(r, k) <=> a < 0
      BY <1>1, <2>1, <3>1, SignOnly, Zenon
    <3> QED BY <2>3, <3>1, <3>2, Zenon
  <2> QED BY <2>2, <2>3
<1> HIDE DEF r
<1>4. Means(op, a, b, r)
  BY <1>3, Zenon DEF Means, s
<1> QED BY <1>1, <1>2, <1>4 DEF r

\* A quotient of the signed number is the arithmetic shift of the ISA.
LEMMA SignedRightMeans ==
  ASSUME NEW a \in Words, NEW b \in Words, NEW op \in {"SRA", "SRAI"}
  PROVE  Cut(Signed(a) \div Shift(b)) \in Words /\ Means(op, a, b, Cut(Signed(a) \div Shift(b)))
<1> DEFINE s == b % WordBits
           p == 2^s
           x == Signed(a)
           r == Cut(x \div p)
           h == WordBits - 1
<1>1. a \in Int /\ s \in 0 .. WordBits - 1 /\ s \in 0 .. 32 /\ Shift(b) = p /\ p \in Nat \ {0}
  BY WordIs, Shamt, SMT
<1>2. x \in Int /\ 2 * x < Word /\ -Word <= 2 * x /\ Cut(x) = a
  BY SignedIs
<1>3. h \in 0 .. 31 /\ h \in 0 .. 32 /\ h \in 0 .. WordBits - 1 /\ h + 1 = WordBits /\ s \in 0 .. h
  BY <1>1, WordBound, SMT
<1>4. Word = 2 * 2^h /\ 2^h \in Nat \ {0}
  BY <1>3, Powers, WordBound, Zenon DEF Doubles
<1>5. -(2^h) <= x /\ x < 2^h
  <2> DEFINE n == 2^h
  <2> HIDE DEF n, x
  <2>1. n \in Nat /\ Word = 2 * n
    BY <1>4 DEF n
  <2>2. -n <= x /\ x < n
    BY <1>2, <2>1, SMT
  <2> QED BY <2>2 DEF n
<1> HIDE DEF s, h, x
<1>6. x \div p \in Int
  BY <1>1, <1>2, DivMod
<1>7. r \in Words
  BY <1>6, CutIs
<1>8. ASSUME NEW k \in 0 .. WordBits - 1
      PROVE  Bit(r, k) <=> Bit(a, IF k + s < WordBits THEN k + s ELSE h)
  <2>0. Bit(r, k) <=> Bit(x \div p, k)
    BY <1>6, CutBits
  <2>1. k \in 0 .. 32 /\ s + k = k + s
    BY <1>1, WordBound, SMT
  <2>2. CASE k + s < WordBits
    <3>1. s + k <= 32 /\ s + k \in 0 .. WordBits - 1
      BY <1>1, <2>1, <2>2, WordBound, SMT
    <3>2. Bit(x \div p, k) <=> Bit(x, s + k)
      BY <1>1, <1>2, <2>1, <3>1, ShiftedRight, Zenon
    <3>3. Bit(Cut(x), s + k) <=> Bit(x, s + k)
      BY <1>2, <3>1, CutBits
    <3> QED BY <1>2, <2>0, <2>1, <2>2, <3>2, <3>3, Zenon
  <2>3. CASE ~(k + s < WordBits)
    <3>1. k >= h - s /\ 0 \in 0 .. h /\ h >= h - 0
      BY <1>1, <1>3, <2>1, <2>3, WordBound, SMT
    <3>2. Bit(x \div p, k) <=> x < 0
      BY <1>2, <1>3, <1>5, <2>1, <3>1, SignOnly, Zenon
    <3>3. Bit(x \div 2^0, h) <=> x < 0
      BY <1>2, <1>3, <1>5, <3>1, SignOnly, Zenon
    <3>4. x \div 2^0 = x
      BY <1>2, SMT
    <3>5. Bit(Cut(x), h) <=> Bit(x, h)
      BY <1>2, <1>3, CutBits
    <3> QED BY <1>2, <2>0, <2>3, <3>2, <3>3, <3>4, <3>5, Zenon
  <2> QED BY <2>2, <2>3
<1> HIDE DEF r
<1>9. Means(op, a, b, r)
  BY <1>8, Zenon DEF Means, s, h
<1> QED BY <1>1, <1>7, <1>9 DEF r, x

\* Bounds of a quotient.
LEMMA DivBounds ==
  ASSUME NEW x \in Int, NEW n \in Nat \ {0}, NEW lo \in Int, NEW hi \in Int,
         n * lo <= x, x < n * hi
  PROVE  x \div n \in Int /\ lo <= x \div n /\ x \div n < hi
<1> DEFINE q == x \div n
           r == x % n
<1>1. q \in Int /\ r \in Int /\ 0 <= r /\ r < n /\ x = n * q + r
  BY DivMod
<1> HIDE DEF q, r
<1>2. ~(q < lo)
  BY <1>1, MulMonotone, SMT
<1>3. ~(hi <= q)
  <2>1. SUFFICES ASSUME hi <= q PROVE FALSE
    OBVIOUS
  <2>2. CASE hi = q
    BY <1>1, <2>2, SMT
  <2>3. CASE hi < q
    BY <1>1, <2>3, MulMonotone, SMT
  <2> QED BY <1>1, <2>1, <2>2, <2>3, SMT
<1> QED BY <1>1, <1>2, <1>3, SMT DEF q

\* A product may be cut before or after its factor is.
LEMMA ModMul ==
  ASSUME NEW x \in Int, NEW b \in Int, NEW n \in Nat \ {0}
  PROVE  ((x % n) * b) % n = (x * b) % n
<1> DEFINE q == x \div n
           r == x % n
           y == (x * b) \div n
           z == (x * b) % n
<1>1. q \in Int /\ r \in Int /\ x = n * q + r
  BY DivMod
<1>2. x * b \in Int
  BY SMT
<1>3. y \in Int /\ z \in Int /\ 0 <= z /\ z < n /\ x * b = n * y + z
  BY <1>2, DivMod
<1> HIDE DEF q, r, y, z
<1> DEFINE v == y - q * b
<1>4. v \in Int /\ r * b = n * v + z
  <2>1. (n * q + r) * b = n * (q * b) + r * b
    BY <1>1, SMT
  <2>2. q * b \in Int /\ r * b \in Int
    BY <1>1, SMT
  <2> DEFINE e == q * b
             f == r * b
  <2>3. e \in Int /\ f \in Int /\ n * e + f = n * y + z
    BY <1>1, <1>3, <2>1, <2>2
  <2> HIDE DEF e, f
  <2>4. y - e \in Int /\ f = n * (y - e) + z
    <3>1. n * (y - e) = n * y - n * e
      BY <1>3, <2>3, SMT
    <3>2. n * y \in Int /\ n * e \in Int
      BY <1>3, <2>3, SMT
    <3> DEFINE g == n * y
               j == n * e
               l == n * (y - e)
    <3>3. g \in Int /\ j \in Int /\ l = g - j /\ j + f = g + z
      BY <2>3, <3>1, <3>2
    <3> HIDE DEF g, j, l
    <3>4. f = l + z
      BY <1>3, <2>3, <3>3, SMT
    <3>5. y - e \in Int
      BY <1>3, <2>3, SMT
    <3> QED BY <3>4, <3>5 DEF l
  <2> QED BY <2>4 DEF e, f
<1> HIDE DEF v
<1> DEFINE f == r * b
<1>5. f = n * v + z
  BY <1>4
<1> HIDE DEF f
<1>6. f % n = z
  BY <1>3, <1>4, <1>5, DivUnique
<1> QED BY <1>6 DEF f, r, z

\* A number within the signed range comes back from its word.
LEMMA SignedCut ==
  ASSUME NEW y \in Int, -Word <= 2 * y, 2 * y < Word
  PROVE  Cut(y) \in Words /\ Signed(Cut(y)) = y
<1>1. Cut(y) \in Words
  BY CutIs
<1>2. Word \in Nat /\ Word % 4 = 0 /\ Word > 15
  BY WordFacts
<1> DEFINE W == Word
<1>3. Word % 4 = 0 => Word = 2 * (Word \div 2)
  BY <1>2, SMT
<1>4. CASE y >= 0
  <2>1. y % Word = y
    BY <1>2, <1>4, SMT
  <2> QED BY <1>1, <1>2, <1>3, <1>4, <2>1, SMT DEF Cut, Signed
<1>5. CASE y < 0
  <2>1. y + Word \in Int /\ 0 <= y + Word /\ y + Word < Word /\ y = Word * (-1) + (y + Word) /\ Word \in Nat \ {0}
    BY <1>2, <1>5, SMT
  <2>2. y % Word = y + Word
    <3> DEFINE r == y + Word
               m == -1
    <3>1. m \in Int /\ r \in Int /\ 0 <= r /\ r < Word /\ y = Word * m + r /\ Word \in Nat \ {0}
      BY <2>1
    <3> HIDE DEF r, m
    <3>2. y % Word = r
      BY <3>1, DivUnique
    <3> QED BY <3>2 DEF r
  <2>3. y + Word >= Word \div 2
    BY <1>2, <1>3, <1>5, SMT
  <2> QED BY <1>1, <1>2, <1>5, <2>1, <2>2, <2>3, SMT DEF Cut, Signed
<1> QED BY <1>4, <1>5, SMT

\* Half of a word and a quarter.
LEMMA Halves ==
  \E g \in Nat : /\ g > 0 /\ Word = 4 * g /\ Word \div 2 = 2 * g
                 /\ \A a \in Words : -(2 * g) <= Signed(a) /\ Signed(a) < 2 * g /\ Signed(a) \in Int
<1> DEFINE g == Word \div 4
<1>1. g \in Nat /\ g > 0 /\ Word = 4 * g /\ Word \div 2 = 2 * g
  BY WordFacts, SMT
<1> HIDE DEF g
<1>2. ASSUME NEW a \in Words PROVE -(2 * g) <= Signed(a) /\ Signed(a) < 2 * g /\ Signed(a) \in Int
  BY <1>1, SignedIs, SMT
<1> QED BY <1>1, <1>2

\* Bounds of a product.
LEMMA MulBounds ==
  ASSUME NEW h \in Nat, NEW x \in Int, NEW y \in Int, -h <= x, x <= h, -h <= y, y <= h
  PROVE  x * y \in Int /\ -(h * h) <= x * y /\ x * y <= h * h
<1>1. (h - x) * (h - y) >= 0 /\ (h + x) * (h + y) >= 0 /\ (h - x) * (h + y) >= 0 /\ (h + x) * (h - y) >= 0
  <2>1. \A p, q \in Nat : p * q >= 0
    BY SMT
  <2>2. h - x \in Nat /\ h - y \in Nat /\ h + x \in Nat /\ h + y \in Nat
    BY SMT
  <2> QED BY <2>1, <2>2
<1> DEFINE X == h * x
           Y == h * y
           Z == x * y
           H == h * h
<1>2. X \in Int /\ Y \in Int /\ Z \in Int /\ H \in Int
  BY SMT
<1>3. /\ (h - x) * (h - y) = H - Y - X + Z /\ (h + x) * (h + y) = H + Y + X + Z
      /\ (h - x) * (h + y) = H + Y - X - Z /\ (h + x) * (h - y) = H - Y + X - Z
  BY SMT
<1>4. H - Y - X + Z >= 0 /\ H + Y + X + Z >= 0 /\ H + Y - X - Z >= 0 /\ H - Y + X - Z >= 0
  BY <1>1, <1>3
<1> HIDE DEF X, Y, Z, H
<1>5. -H <= Z /\ Z <= H
  BY <1>2, <1>4, SMT
<1> QED BY <1>2, <1>5 DEF Z, H

\* The low word of the product is MUL.
LEMMA MulMeans ==
  ASSUME NEW a \in Words, NEW b \in Words
  PROVE  Cut(a * b) \in Words /\ Means("MUL", a, b, Cut(a * b))
<1> DEFINE r == Cut(a * b)
           q == (a * b) \div Word
<1>1. a * b \in Int /\ Word \in Nat \ {0}
  BY WordIs, WordBound, SMT
<1>2. r \in Words /\ q \in Int /\ a * b = r + q * Word
  BY <1>1, CutIs
<1> HIDE DEF r, q
<1>3. a * b - r = Word * q + 0 /\ 0 < Word /\ r \in Int
  <2>1. r \in Int
    BY <1>2, WordIs
  <2> QED BY <1>1, <1>2, <2>1, SMT
<1>4. (a * b - r) % Word = 0
  <2> DEFINE x == a * b - r
  <2>1. x = Word * q + 0
    BY <1>3
  <2> HIDE DEF x
  <2>2. x % Word = 0
    BY <1>1, <1>2, <1>3, <2>1, DivUnique
  <2> QED BY <2>2 DEF x
<1>5. Means("MUL", a, b, r)
  BY <1>4, Zenon DEF Means
<1> QED BY <1>2, <1>5 DEF r

\* What is left of a product when the high word is taken out.
LEMMA HighWord ==
  ASSUME NEW P \in Int
  PROVE  P - (P \div Word) * Word \in Words
<1>1. P \div Word \in Int /\ P % Word \in Int /\ 0 <= P % Word /\ P % Word < Word
      /\ P = Word * (P \div Word) + (P % Word)
  BY WordBound, DivMod
<1> DEFINE W == Word
           q == P \div W
           r == P % W
<1>2. W \in Nat /\ q \in Int /\ r \in Int /\ 0 <= r /\ r < W /\ P = W * q + r
  BY <1>1, WordBound
<1> HIDE DEF W, q, r
<1>3. P - q * W \in 0 .. W - 1
  BY <1>2, SMT
<1> QED BY <1>3 DEF W, q, Words

\* The high word of the signed product is MULH.
LEMMA HighMeans ==
  ASSUME NEW a \in Words, NEW b \in Words
  PROVE  LET r == Cut((Signed(a) * Signed(b)) \div Word)
         IN  r \in Words /\ Means("MULH", a, b, r)
<1> DEFINE P == Signed(a) * Signed(b)
           y == P \div Word
           r == Cut(y)
<1>1. PICK g \in Nat : g > 0 /\ Word = 4 * g /\ \A c \in Words : -(2 * g) <= Signed(c) /\ Signed(c) < 2 * g /\ Signed(c) \in Int
  BY Halves, Zenon
<1>2. P \in Int /\ -(Word * g) <= P /\ P <= Word * g
  <2> DEFINE h == 2 * g
             X == Signed(a)
             Y == Signed(b)
  <2>1. h \in Nat /\ X \in Int /\ Y \in Int /\ -h <= X /\ X <= h /\ -h <= Y /\ Y <= h
    BY <1>1, SMT
  <2>2. h * h = Word * g
    BY <1>1, SMT
  <2> HIDE DEF h, X, Y
  <2>3. X * Y \in Int /\ -(h * h) <= X * Y /\ X * Y <= h * h
    BY <2>1, MulBounds
  <2> QED BY <2>2, <2>3 DEF X, Y
<1> HIDE DEF P
<1>3. y \in Int /\ -g <= y /\ y < g + 1
  <2>1. Word * (-g) = -(Word * g) /\ Word * (g + 1) = Word * g + Word /\ Word * g \in Int /\ Word > 0 /\ Word \in Nat \ {0}
    BY <1>1, SMT
  <2>2. Word * (-g) <= P /\ P < Word * (g + 1) /\ -g \in Int /\ g + 1 \in Int
    <3> DEFINE W == Word
               M == W * g
               N == W * (-g)
               L == W * (g + 1)
    <3>1. W \in Nat \ {0} /\ M \in Int /\ N = -M /\ L = M + W /\ -M <= P /\ P <= M
      BY <1>2, <2>1
    <3> HIDE DEF W, M, N, L
    <3>2. N <= P /\ P < L
      BY <1>2, <3>1, SMT
    <3>3. -g \in Int /\ g + 1 \in Int
      BY <1>1, SMT
    <3> QED BY <3>2, <3>3 DEF N, L, W
  <2> QED BY <1>2, <2>1, <2>2, DivBounds
<1>4. r \in Words /\ Signed(r) = y
  <2>1. -Word <= 2 * y /\ 2 * y < Word
    <3> HIDE DEF y
    <3> QED BY <1>1, <1>3, SMT
  <2> QED BY <1>3, <2>1, SignedCut
<1>5. P - Signed(r) * Word \in Words
  BY <1>2, <1>4, HighWord
<1> HIDE DEF r
<1>6. Means("MULH", a, b, r)
  BY <1>5, Zenon DEF Means, P
<1> QED BY <1>4, <1>6 DEF r, y, P

\* The high word of the product of 64 bits the code computes, the signed
\* factor taken for an unsigned one, is MULHSU.
LEMMA ThinMeans ==
  ASSUME NEW a \in Words, NEW b \in Words
  PROVE  LET r == Cut((((Signed(a) % (Word * Word)) * b) % (Word * Word)) \div Word)
         IN  r \in Words /\ Means("MULHSU", a, b, r)
<1> DEFINE N == Word * Word
           P == Signed(a) * b
           y == P \div Word
           r == Cut((((Signed(a) % N) * b) % N) \div Word)
<1>1. PICK g \in Nat : g > 0 /\ Word = 4 * g /\ \A c \in Words : -(2 * g) <= Signed(c) /\ Signed(c) < 2 * g /\ Signed(c) \in Int
  BY Halves, Zenon
<1>2. Signed(a) \in Int /\ b \in Int /\ N \in Nat \ {0} /\ Word \in Nat \ {0} /\ P \in Int
  BY SignedIs, WordBound, SMT
<1>3. ((Signed(a) % N) * b) % N = P % N
  BY <1>2, ModMul
<1>4. (P % N) \div Word = y % Word
  BY <1>2, ModDiv
<1>5. y \in Int /\ (y % Word) % Word = y % Word
  <2>1. y \in Int
    BY <1>2, DivMod
  <2> HIDE DEF y
  <2> QED BY <1>2, <2>1, SMT
<1>6. r = Cut(y)
  BY <1>3, <1>4, <1>5, Zenon DEF Cut
<1>7. -(2 * g) <= y /\ y < 2 * g
  <2> DEFINE X == Signed(a)
             h == 2 * g
             W == Word
             F == W - 1 - b
  <2>1. X \in Int /\ h \in Nat /\ -h <= X /\ X <= h - 1 /\ W = 2 * h /\ h > 0 /\ b \in Nat /\ b <= W - 1
        /\ F \in Nat /\ b = W - 1 - F
    BY <1>1, WordIs, SMT
  <2> HIDE DEF X, h, W, F
  <2>2. (h + X) * b >= 0 /\ (h - 1 - X) * b >= 0 /\ h * F >= 0 /\ (h - 1) * F >= 0
    <3>1. \A i, j \in Nat : i * j >= 0
      BY SMT
    <3>2. h + X \in Nat /\ h - 1 - X \in Nat /\ h - 1 \in Nat
      BY <2>1, SMT
    <3> QED BY <2>1, <3>1, <3>2
  <2> DEFINE HB == h * b
             XB == X * b
             HF == h * F
             HW == h * W
  <2>3. HB \in Int /\ XB \in Int /\ HF \in Int /\ HW \in Int
    BY <2>1, SMT
  <2>4. /\ (h + X) * b = HB + XB /\ (h - 1 - X) * b = HB - b - XB
        /\ (h - 1) * F = HF - F /\ HF = HW - h - HB
        /\ W * (-h) = -HW /\ W * h = HW
    BY <2>1, SMT
  <2>5. W * (-h) <= XB /\ XB < W * h
    <3>1. HB + XB >= 0 /\ HB - b - XB >= 0 /\ HF >= 0 /\ HF - F >= 0 /\ HF = HW - h - HB
      BY <2>2, <2>4
    <3> HIDE DEF HB, XB, HF, HW
    <3> QED BY <2>1, <2>3, <2>4, <3>1, SMT
  <2>6. W \in Nat \ {0} /\ -h \in Int /\ h \in Int
    BY <2>1, SMT
  <2> HIDE DEF XB
  <2>7. -h <= XB \div W /\ XB \div W < h
    BY <2>3, <2>5, <2>6, DivBounds
  <2> QED BY <2>7 DEF XB, W, h, X
<1>8. r \in Words /\ Signed(r) = y
  <2>1. -Word <= 2 * y /\ 2 * y < Word
    <3> HIDE DEF y
    <3> QED BY <1>1, <1>5, <1>7, SMT
  <2> QED BY <1>5, <1>6, <2>1, SignedCut
<1>9. P - Signed(r) * Word \in Words
  BY <1>2, <1>8, HighWord
<1> HIDE DEF r
<1>10. Means("MULHSU", a, b, r)
  BY <1>9, Zenon DEF Means
<1> QED BY <1>8, <1>10 DEF r, N

\* The high word of the unsigned product is MULHU.
LEMMA HighUnsignedMeans ==
  ASSUME NEW a \in Words, NEW b \in Words
  PROVE  LET r == (a * b) \div Word
         IN  r \in Words /\ Means("MULHU", a, b, r)
<1> DEFINE P == a * b
           r == P \div Word
           W == Word
<1>1. a \in Nat /\ b \in Nat /\ a <= W - 1 /\ b <= W - 1 /\ W \in Nat \ {0}
  BY WordIs, WordBound, SMT
<1> HIDE DEF W
<1>2. P \in Int /\ 0 <= P /\ P < W * W
  <2>1. (W - 1 - a) * b >= 0 /\ P >= 0
    <3>1. \A i, j \in Nat : i * j >= 0
      BY SMT
    <3>2. W - 1 - a \in Nat
      BY <1>1, SMT
    <3> QED BY <1>1, <3>1, <3>2
  <2> DEFINE WB == W * b
             F == W - 1 - b
             WW == W * W
             WF == W * F
  <2>2. (W - 1 - a) * b = WB - b - P /\ WF = WW - W - WB
    BY <1>1, SMT
  <2>3. WF >= 0 /\ WB \in Int /\ P \in Int /\ WW \in Int
    <3>1. F \in Nat
      BY <1>1, SMT
    <3>2. \A i, j \in Nat : i * j >= 0
      BY SMT
    <3>3. WB \in Int /\ P \in Int /\ WW \in Int
      BY <1>1, SMT
    <3> QED BY <1>1, <3>1, <3>2, <3>3
  <2>4. WB - b - P >= 0 /\ WW - W - WB >= 0
    BY <2>1, <2>2, <2>3
  <2>5. P < WW
    <3> HIDE DEF P, WW, WB
    <3> QED BY <1>1, <2>3, <2>4, SMT
  <2> QED BY <2>1, <2>3, <2>5
<1> HIDE DEF P
<1>3. W * 0 <= P /\ 0 \in Int /\ W \in Int
  BY <1>1, <1>2, SMT
<1>4. r \in Int /\ 0 <= r /\ r < W
  BY <1>1, <1>2, <1>3, DivBounds DEF W
<1>5. r \in Words
  <2> HIDE DEF r
  <2> QED BY <1>1, <1>4, SMT DEF W, Words
<1>6. P - r * Word \in Words
  BY <1>2, HighWord
<1> HIDE DEF r
<1>7. Means("MULHU", a, b, r)
  BY <1>6, Zenon DEF Means, P
<1> QED BY <1>5, <1>7 DEF r, P

\* The unsigned quotient and remainder are those of the ISA.
LEMMA UnsignedDivMeans ==
  ASSUME NEW a \in Words, NEW b \in Words, b # 0
  PROVE  /\ a \div b \in Words /\ Means("DIVU", a, b, a \div b)
         /\ a % b \in Words /\ Means("REMU", a, b, a % b)
<1> DEFINE q == a \div b
           r == a % b
<1>1. a \in Nat /\ a < Word /\ b \in Nat \ {0} /\ b < Word /\ Word \in Nat
  BY WordIs, WordBound, SMT
<1>2. q \in Int /\ r \in Int /\ 0 <= r /\ r < b /\ a = b * q + r
  BY <1>1, DivMod
<1>3. q \in Nat /\ q <= a
  BY <1>1, SMT
<1> HIDE DEF q, r
<1>4. q \in Words /\ r \in Words
  BY <1>1, <1>2, <1>3, SMT DEF Words
<1>5. a - q * b = r /\ a - r = b * q
  BY <1>1, <1>2, SMT
<1>6. (b * q) % b = 0
  <2> DEFINE x == b * q
  <2>1. x = b * q + 0 /\ 0 < b
    BY <1>1, <1>2, SMT
  <2> HIDE DEF x
  <2>2. x % b = 0
    BY <1>1, <1>2, <2>1, 0 \in Int, 0 <= 0, DivUnique, Zenon
  <2> QED BY <2>2 DEF x
<1>7. r \in 0 .. b - 1
  BY <1>1, <1>2, SMT
<1>8. Means("DIVU", a, b, q)
  <2> DEFINE rest == a - q * b
  <2>1. (a - rest) % b = 0 /\ rest \in 0 .. b - 1
    BY <1>5, <1>6, <1>7
  <2> QED BY <2>1, Zenon DEF Means
<1>9. Means("REMU", a, b, r)
  <2>1. (a - r) % b = 0 /\ r \in 0 .. b - 1
    BY <1>5, <1>6, <1>7
  <2> QED BY <2>1, Zenon DEF Means
<1> QED BY <1>4, <1>8, <1>9 DEF q, r

\* The magnitude of a number.
Size(x) == IF x < 0 THEN -x ELSE x

\* The quotient and the remainder of C.
LEMMA QuotientIs ==
  ASSUME NEW x \in Int, NEW y \in Int, y # 0
  PROVE  /\ Quotient(x, y) \in Int /\ Remainder(x, y) \in Int
         /\ x = y * Quotient(x, y) + Remainder(x, y)
         /\ Size(Remainder(x, y)) < Size(y)
         /\ (Remainder(x, y) # 0 => ((Remainder(x, y) < 0) <=> (x < 0)))
         /\ Size(Quotient(x, y)) <= Size(x)
         /\ Size(y) > 1 => 2 * Size(Quotient(x, y)) <= Size(x)
         /\ Size(y) = 1 => Quotient(x, y) = x * y
<1> DEFINE X == Size(x)
           Y == Size(y)
           q == X \div Y
           r == X % Y
<1>1. X \in Nat /\ Y \in Nat \ {0}
  BY SMT DEF Size
<1> HIDE DEF X, Y
<1>2. q \in Int /\ r \in Int /\ 0 <= r /\ r < Y /\ X = Y * q + r /\ q >= 0
  BY <1>1, DivMod, SMT
<1> HIDE DEF q, r
<1>3. Quotient(x, y) = IF (x < 0) = (y < 0) THEN q ELSE -q
  BY Zenon DEF Quotient, q, X, Y, Size
<1> DEFINE Q == Quotient(x, y)
           R == Remainder(x, y)
<1>4. R = x - y * Q
  BY Zenon DEF Remainder
<1> HIDE DEF Q, R
<1>5. Q = IF (x < 0) = (y < 0) THEN q ELSE -q
  BY <1>3 DEF Q
<1>6. Q \in Int /\ y * Q \in Int
  <2>1. Q \in Int
    BY <1>2, <1>5, SMT
  <2>2. \A i, j \in Int : i * j \in Int
    BY SMT
  <2> QED BY <2>1, <2>2
<1>7. y * Q = IF x < 0 THEN -(Y * q) ELSE Y * q
  <2>1. \A i, j \in Int : (-i) * j = -(i * j) /\ i * (-j) = -(i * j) /\ (-i) * (-j) = i * j
    BY SMT
  <2>2. CASE x < 0 /\ y < 0
    <3>1. Q = q /\ Y = -y
      BY <1>5, <2>2, SMT DEF Y, Size
    <3>2. (-y) * q = -(y * q) /\ y * q \in Int
      BY <1>2, <2>1, SMT
    <3> DEFINE p == y * q
    <3>3. Y * q = -p /\ y * Q = p
      BY <3>1, <3>2
    <3>4. p \in Int => -(-p) = p
      BY SMT
    <3> QED BY <2>2, <3>2, <3>3, <3>4, Zenon
  <2>3. CASE x < 0 /\ ~(y < 0)
    <3>1. Q = -q /\ Y = y
      BY <1>5, <2>3, SMT DEF Y, Size
    <3> QED BY <1>2, <2>1, <2>3, <3>1, Zenon
  <2>4. CASE ~(x < 0) /\ y < 0
    <3>1. Q = -q /\ Y = -y
      BY <1>5, <2>4, SMT DEF Y, Size
    <3>2. (-y) * q = -(y * q) /\ y * (-q) = -(y * q)
      BY <1>2, <2>1, SMT
    <3> QED BY <2>4, <3>1, <3>2, Zenon
  <2>5. CASE ~(x < 0) /\ ~(y < 0)
    <3>1. Q = q /\ Y = y
      BY <1>5, <2>5, SMT DEF Y, Size
    <3> QED BY <2>5, <3>1, Zenon
  <2> QED BY <2>2, <2>3, <2>4, <2>5, Zenon
<1>8. R = IF x < 0 THEN -r ELSE r
  <2> DEFINE p == Y * q
             m == y * Q
  <2>1. p \in Int /\ X = p + r /\ m \in Int /\ m = (IF x < 0 THEN -p ELSE p) /\ R = x - m
    <3>1. \A i, j \in Int : i * j \in Int
      BY SMT
    <3> QED BY <1>1, <1>2, <1>4, <1>6, <1>7, <3>1
  <2> HIDE DEF p, m
  <2> QED BY <1>2, <2>1, SMT DEF X, Size
<1>9. R \in Int /\ Size(R) < Y /\ (R # 0 => (R < 0 <=> x < 0))
  BY <1>2, <1>8, SMT DEF Size
<1>10. x = y * Q + R
  <2> DEFINE m == y * Q
  <2>1. m \in Int /\ R = x - m
    BY <1>4, <1>6
  <2> HIDE DEF m
  <2>2. x = m + R
    BY <1>9, <2>1, SMT
  <2> QED BY <2>2 DEF m
<1>11. Size(Q) = q
  BY <1>2, <1>5, SMT DEF Size
<1>12. q <= X /\ (Y > 1 => 2 * q <= X)
  <2>1. Y = 1 => Y * q = q
    BY <1>2, SMT
  <2>2. Y > 1 => Y * q >= 2 * q
    <3>1. SUFFICES ASSUME Y > 1 PROVE Y * q >= 2 * q
      OBVIOUS
    <3>2. (Y - 2) * q >= 0 /\ (Y - 2) * q = Y * q - 2 * q
      <4>1. \A i, j \in Nat : i * j >= 0
        BY SMT
      <4>2. Y - 2 \in Nat /\ q \in Nat
        BY <1>1, <1>2, <3>1, SMT
      <4> QED BY <1>1, <4>1, <4>2, SMT
    <3> DEFINE p == Y * q
    <3>3. p \in Int /\ p - 2 * q >= 0
      BY <1>1, <1>2, <3>2, SMT
    <3> HIDE DEF p
    <3>4. p >= 2 * q
      BY <1>2, <3>3, SMT
    <3> QED BY <3>4 DEF p
  <2> DEFINE p == Y * q
  <2>3. p \in Int /\ X = p + r
    BY <1>1, <1>2, SMT
  <2> HIDE DEF p
  <2>4. (Y = 1 => p = q) /\ (Y > 1 => p >= 2 * q)
    BY <2>1, <2>2 DEF p
  <2> QED BY <1>1, <1>2, <2>3, <2>4, SMT
<1>13. Y = 1 => Q = x * y
  <2>1. SUFFICES ASSUME Y = 1 PROVE Q = x * y
    OBVIOUS
  <2>2. q = X
    <3>1. r = 0 /\ 1 * q = q
      BY <1>2, <2>1, SMT
    <3>2. X = q + 0
      BY <1>2, <2>1, <3>1
    <3> QED BY <1>2, <3>2, SMT
  <2>3. y = 1 \/ y = -1
    BY <2>1, SMT DEF Y, Size
  <2>4. x * 1 = x /\ x * (-1) = -x
    BY SMT
  <2>5. CASE y = 1
    <3>1. Q = x
      BY <1>5, <2>2, <2>5, SMT DEF X, Size
    <3> QED BY <2>4, <2>5, <3>1
  <2>6. CASE y = -1
    <3>1. Q = -x
      BY <1>5, <2>2, <2>6, SMT DEF X, Size
    <3> QED BY <2>4, <2>6, <3>1
  <2> QED BY <2>3, <2>5, <2>6
<1> QED BY <1>6, <1>9, <1>10, <1>11, <1>12, <1>13 DEF Q, R, X, Y

\* The quotient and remainder of C are those of the ISA when they fit.
LEMMA SignedDivMeans ==
  ASSUME NEW a \in Words, NEW b \in Words, b # 0, ~Overflows(a, b)
  PROVE  /\ LET r == Cut(Quotient(Signed(a), Signed(b)))
            IN  r \in Words /\ Means("DIV", a, b, r)
         /\ LET r == Cut(Remainder(Signed(a), Signed(b)))
            IN  r \in Words /\ Means("REM", a, b, r)
<1> DEFINE x == Signed(a)
           y == Signed(b)
           Q == Quotient(x, y)
           R == Remainder(x, y)
<1>1. PICK g \in Nat : g > 0 /\ Word = 4 * g /\ Word \div 2 = 2 * g
                       /\ \A c \in Words : -(2 * g) <= Signed(c) /\ Signed(c) < 2 * g /\ Signed(c) \in Int
  BY Halves, Zenon
<1>2. x \in Int /\ y \in Int /\ y # 0 /\ -(2 * g) <= x /\ x < 2 * g /\ -(2 * g) <= y /\ y < 2 * g
      /\ ~(x = -(2 * g) /\ y = -1) /\ ~(x = -(Word \div 2) /\ y = -1)
  <2>1. y # 0
    BY <1>1, WordIs, SMT DEF Signed
  <2> QED BY <1>1, <2>1, SMT DEF Overflows
<1>3. /\ Q \in Int /\ R \in Int
      /\ x = y * Q + R
      /\ Size(R) < Size(y)
      /\ (R # 0 => ((R < 0) <=> (x < 0)))
      /\ Size(Q) <= Size(x)
      /\ (Size(y) > 1 => 2 * Size(Q) <= Size(x))
      /\ (Size(y) = 1 => Q = x * y)
  BY <1>2, QuotientIs
<1> HIDE DEF x, y, Q, R
<1>4. -Word <= 2 * Q /\ 2 * Q < Word
  <2>1. CASE Size(y) > 1
    BY <1>1, <1>2, <1>3, <2>1, SMT DEF Size
  <2>2. CASE y = 1
    <3>1. Size(y) = 1 /\ x * 1 = x
      BY <1>2, <2>2, SMT DEF Size
    <3>2. Q = x
      BY <1>3, <2>2, <3>1
    <3> QED BY <1>1, <1>2, <3>2, SMT
  <2>3. CASE y = -1
    <3>1. Size(y) = 1 /\ x * (-1) = -x
      <4>1. x * (-1) = -x
        BY <1>2, SMT
      <4>2. Size(y) = 1
        <5>1. y \in Int /\ y < 0 /\ y + 1 = 0
          BY <1>2, <2>3, SMT
        <5> QED BY <5>1, SMT DEF Size
      <4> QED BY <4>1, <4>2
    <3>2. Q = -x
      BY <1>3, <2>3, <3>1
    <3> QED BY <1>1, <1>2, <2>3, <3>2, SMT
  <2> QED BY <1>2, <2>1, <2>2, <2>3, SMT DEF Size
<1>5. -Word <= 2 * R /\ 2 * R < Word
  BY <1>1, <1>2, <1>3, SMT DEF Size
<1> DEFINE d == Cut(Q)
           e == Cut(R)
<1>6. d \in Words /\ Signed(d) = Q /\ e \in Words /\ Signed(e) = R
  BY <1>3, <1>4, <1>5, SignedCut
<1> HIDE DEF d, e
<1>7. x - Q * y = R
  <2> DEFINE p == y * Q
  <2>1. p \in Int /\ x = p + R /\ Q * y = p
    BY <1>2, <1>3, SMT
  <2> HIDE DEF p
  <2>2. x - p = R
    BY <1>2, <1>3, <2>1, SMT
  <2> QED BY <2>1, <2>2
<1>8. (x - R) % Size(y) = 0
  <2> DEFINE n == Size(y)
             q == IF y < 0 THEN -Q ELSE Q
             z == x - R
  <2>1. n \in Nat \ {0} /\ q \in Int
    BY <1>2, <1>3, SMT DEF Size
  <2>2. z = n * q
    <3> DEFINE p == y * Q
    <3>1. p \in Int /\ x = p + R /\ (-y) * (-Q) = p
      BY <1>2, <1>3, SMT
    <3>2. n * q = p
      BY <1>2, <3>1, SMT DEF Size
    <3> HIDE DEF p
    <3>3. z = p
      BY <1>3, <3>1, SMT
    <3> QED BY <3>2, <3>3
  <2> HIDE DEF n, q, z
  <2>3. z = n * q + 0 /\ 0 < n
    BY <2>1, <2>2, SMT
  <2>4. z % n = 0
    BY <2>1, <2>3, DivUnique
  <2> QED BY <2>4 DEF z, n
<1>9. Means("DIV", a, b, d)
  <2>1. (Signed(a) - R) % Size(Signed(b)) = 0 /\ Size(R) < Size(Signed(b)) /\ (R # 0 => (R < 0) = (Signed(a) < 0))
    BY <1>3, <1>8 DEF x, y
  <2>2. Signed(a) - Signed(d) * Signed(b) = R
    BY <1>6, <1>7 DEF x, y
  <2>3. ~(Signed(a) = -(Word \div 2) /\ Signed(b) = -1)
    BY <1>2 DEF x, y
  <2> QED BY <2>1, <2>2, <2>3, Zenon DEF Means, Size
<1>10. Means("REM", a, b, e)
  <2>1. (Signed(a) - Signed(e)) % Size(Signed(b)) = 0 /\ Size(Signed(e)) < Size(Signed(b))
        /\ (Signed(e) # 0 => (Signed(e) < 0) = (Signed(a) < 0))
    BY <1>3, <1>6, <1>8 DEF x, y
  <2>3. ~(Signed(a) = -(Word \div 2) /\ Signed(b) = -1)
    BY <1>2 DEF x, y
  <2> QED BY <2>1, <2>3, Zenon DEF Means, Size
<1> QED BY <1>6, <1>9, <1>10 DEF d, e, Q, R, x, y

\* A division by zero and the one that overflows have the results the ISA
\* says.
LEMMA EdgeDivMeans ==
  ASSUME NEW a \in Words, NEW b \in Words
  PROVE  /\ Word - 1 \in Words /\ 0 \in Words
         /\ b = 0 => /\ Means("DIV", a, b, Word - 1) /\ Means("DIVU", a, b, Word - 1)
                     /\ Means("REM", a, b, a) /\ Means("REMU", a, b, a)
         /\ b # 0 /\ Overflows(a, b) => Means("DIV", a, b, a) /\ Means("REM", a, b, 0)
<1>1. Word - 1 \in Words /\ 0 \in Words
  BY WordBound, SMT DEF Words
<1>2. ASSUME b = 0
      PROVE  /\ Means("DIV", a, b, Word - 1) /\ Means("DIVU", a, b, Word - 1)
             /\ Means("REM", a, b, a) /\ Means("REMU", a, b, a)
  BY <1>2, Zenon DEF Means
<1>3. ASSUME b # 0, Overflows(a, b)
      PROVE  Means("DIV", a, b, a) /\ Means("REM", a, b, 0)
  BY <1>3, Zenon DEF Means, Overflows
<1> QED BY <1>1, <1>2, <1>3

-----------------------------------------------------------------------------
(* The switches over funct3.                                               *)

\* The opcode, funct3 and funct7 by the groups of the mnemonics.
LEMMA Groups ==
  ASSUME NEW op \in Mnemonics
  PROVE  /\ (IsaOpcode(op) = 55 <=> op = "LUI") /\ (IsaOpcode(op) = 23 <=> op = "AUIPC")
         /\ (IsaOpcode(op) = 111 <=> op = "JAL") /\ (IsaOpcode(op) = 103 <=> op = "JALR")
         /\ (IsaOpcode(op) = 99 <=> op \in Branches) /\ (IsaOpcode(op) = 3 <=> op \in Loads)
         /\ (IsaOpcode(op) = 35 <=> op \in Stores) /\ (IsaOpcode(op) = 19 <=> op \in ImmediateOps)
         /\ (IsaOpcode(op) = 51 <=> op \in RegisterOps) /\ (IsaOpcode(op) = 15 <=> op = "FENCE")
         /\ (IsaOpcode(op) = 47 <=> op \in AmoOps) /\ (IsaOpcode(op) = 11 <=> op = "NONE")
         /\ IsaOpcode(op) # 115
         /\ (Format(op) = "R" <=> op \in {"NONE"} \cup RegisterOps \cup AmoOps)
         /\ (Format(op) = "I" <=> op \in {"JALR", "FENCE"} \cup Loads \cup ImmediateOps)
         /\ (Format(op) = "S" <=> op \in Stores) /\ (Format(op) = "B" <=> op \in Branches)
         /\ (Format(op) = "U" <=> op \in {"LUI", "AUIPC"}) /\ (Format(op) = "J" <=> op = "JAL")
<1>1. CASE op \in {"LUI", "AUIPC", "JAL", "JALR", "FENCE", "NONE"}
  BY <1>1, SMT DEF IsaOpcode, Format, Branches, Loads, Stores, ImmediateOps, Shifts, RegisterOps, MulDivOps, AmoOps
<1>2. CASE op \in Branches \cup Loads \cup Stores \cup ImmediateOps
  BY <1>2, SMT DEF IsaOpcode, Format, Branches, Loads, Stores, ImmediateOps, Shifts, RegisterOps, MulDivOps, AmoOps
<1>3. CASE op \in RegisterOps \cup AmoOps
  BY <1>3, SMT DEF IsaOpcode, Format, Branches, Loads, Stores, ImmediateOps, Shifts, RegisterOps, MulDivOps, AmoOps
<1> QED BY <1>1, <1>2, <1>3, Zenon DEF Mnemonics

\* What the switch over funct3 computes is what the mnemonic means.
LEMMA BasicMeans ==
  ASSUME NEW op \in (RegisterOps \ MulDivOps) \cup ImmediateOps, NEW a \in Words, NEW b \in Words,
         NEW isReg \in BOOLEAN, NEW bit30 \in BOOLEAN, isReg <=> op \in RegisterOps,
         op \in {"SUB", "SRA", "SRAI"} => bit30, op \in {"ADD", "SRL", "SRLI"} => ~bit30
  PROVE  LET r == Basic(IsaFunct3(op), isReg, bit30, a, b)
         IN  r \in Words /\ Means(op, a, b, r)
<1> DEFINE f == IsaFunct3(op)
           r == Basic(f, isReg, bit30, a, b)
<1>0. op \in {"ADD", "SUB", "SLL", "SLT", "SLTU", "XOR", "SRL", "SRA", "OR", "AND",
              "ADDI", "SLTI", "SLTIU", "XORI", "ORI", "ANDI", "SLLI", "SRLI", "SRAI"}
  BY SMT DEF RegisterOps, MulDivOps, ImmediateOps, Shifts
<1>1. CASE op \in {"ADD", "ADDI"}
  <2>1. f = 0 /\ ~(isReg /\ bit30)
    BY <1>1, SMT DEF IsaFunct3, AmoOps, RegisterOps, MulDivOps
  <2> HIDE DEF f
  <2>2. r = Cut(a + b)
    BY <2>1, SMT DEF Basic
  <2> QED BY <1>1, <2>2, AddMeans DEF r, f
<1>2. CASE op = "SUB"
  <2>1. f = 0 /\ isReg /\ bit30
    BY <1>2, SMT DEF IsaFunct3, AmoOps, RegisterOps, MulDivOps
  <2> HIDE DEF f
  <2>2. r = Cut(a - b)
    BY <2>1, SMT DEF Basic
  <2> QED BY <1>2, <2>2, SubMeans DEF r, f
<1>3. CASE op \in {"SLL", "SLLI"}
  <2>1. f = 1
    BY <1>3, SMT DEF IsaFunct3, AmoOps
  <2> HIDE DEF f
  <2>2. r = Cut(a * Shift(b))
    BY <2>1, SMT DEF Basic
  <2> QED BY <1>3, <2>2, LeftMeans DEF r, f
<1>4. CASE op \in {"SLT", "SLTI"}
  <2>1. f = 2
    BY <1>4, SMT DEF IsaFunct3, AmoOps
  <2> HIDE DEF f
  <2>2. r = OfBool(Signed(a) < Signed(b))
    BY <2>1, SMT DEF Basic
  <2> QED BY <1>4, <2>2, CompareMeans DEF r, f
<1>5. CASE op \in {"SLTU", "SLTIU"}
  <2>1. f = 3
    BY <1>5, SMT DEF IsaFunct3, AmoOps
  <2> HIDE DEF f
  <2>2. r = OfBool(a < b)
    BY <2>1, SMT DEF Basic
  <2> QED BY <1>5, <2>2, CompareMeans DEF r, f
<1>6. CASE op \in {"XOR", "XORI"}
  <2>1. f = 4
    BY <1>6, SMT DEF IsaFunct3, AmoOps
  <2> HIDE DEF f
  <2>2. r = Xor(a, b)
    BY <2>1, SMT DEF Basic
  <2> QED BY <1>6, <2>2, BitwiseMeans, Bitwise, Zenon DEF r, f
<1>7. CASE op \in {"SRL", "SRLI"}
  <2>1. f = 5 /\ ~bit30
    BY <1>7, SMT DEF IsaFunct3, AmoOps
  <2> HIDE DEF f
  <2>2. r = a \div Shift(b)
    BY <2>1, SMT DEF Basic
  <2> QED BY <1>7, <2>2, RightMeans DEF r, f
<1>8. CASE op \in {"SRA", "SRAI"}
  <2>1. f = 5 /\ bit30
    BY <1>8, SMT DEF IsaFunct3, AmoOps
  <2> HIDE DEF f
  <2>2. r = Cut(Signed(a) \div Shift(b))
    BY <2>1, SMT DEF Basic
  <2> QED BY <1>8, <2>2, SignedRightMeans DEF r, f
<1>9. CASE op \in {"OR", "ORI"}
  <2>1. f = 6
    BY <1>9, SMT DEF IsaFunct3, AmoOps
  <2> HIDE DEF f
  <2>2. r = Or(a, b)
    BY <2>1, SMT DEF Basic
  <2> QED BY <1>9, <2>2, BitwiseMeans, Bitwise, Zenon DEF r, f
<1>10. CASE op \in {"AND", "ANDI"}
  <2>1. f = 7
    BY <1>10, SMT DEF IsaFunct3, AmoOps
  <2> HIDE DEF f
  <2>2. r = And(a, b)
    BY <2>1, SMT DEF Basic
  <2> QED BY <1>10, <2>2, BitwiseMeans, Bitwise, Zenon DEF r, f
<1> QED BY <1>0, <1>1, <1>2, <1>3, <1>4, <1>5, <1>6, <1>7, <1>8, <1>9, <1>10, Zenon

\* What the switch over funct3 of the M extension computes is what the
\* mnemonic means.
LEMMA MulDivMeans ==
  ASSUME NEW op \in MulDivOps, NEW a \in Words, NEW b \in Words
  PROVE  LET r == MulDiv(IsaFunct3(op), a, b)
         IN  r \in Words /\ Means(op, a, b, r)
<1> DEFINE f == IsaFunct3(op)
           r == MulDiv(f, a, b)
<1>0. op \in {"MUL", "MULH", "MULHSU", "MULHU", "DIV", "DIVU", "REM", "REMU"}
  BY DEF MulDivOps
<1>1. CASE op = "MUL"
  <2>1. f = 0
    BY <1>1, SMT DEF IsaFunct3, AmoOps, MulDivOps
  <2> HIDE DEF f
  <2>2. r = Cut(a * b)
    BY <2>1, SMT DEF MulDiv
  <2> QED BY <1>1, <2>2, MulMeans DEF r, f
<1>2. CASE op = "MULH"
  <2>1. f = 1
    BY <1>2, SMT DEF IsaFunct3, AmoOps
  <2> HIDE DEF f
  <2>2. r = Cut((Signed(a) * Signed(b)) \div Word)
    BY <2>1, SMT DEF MulDiv
  <2> QED BY <1>2, <2>2, HighMeans DEF r, f
<1>3. CASE op = "MULHSU"
  <2>1. f = 2
    BY <1>3, SMT DEF IsaFunct3, AmoOps
  <2> HIDE DEF f
  <2>2. r = Cut((((Signed(a) % (Word * Word)) * b) % (Word * Word)) \div Word)
    BY <2>1, SMT DEF MulDiv
  <2> QED BY <1>3, <2>2, ThinMeans DEF r, f
<1>4. CASE op = "MULHU"
  <2>1. f = 3
    BY <1>4, SMT DEF IsaFunct3, AmoOps
  <2> HIDE DEF f
  <2>2. r = (a * b) \div Word
    BY <2>1, SMT DEF MulDiv
  <2> QED BY <1>4, <2>2, HighUnsignedMeans DEF r, f
<1>5. CASE op = "DIV"
  <2>1. f = 4
    BY <1>5, SMT DEF IsaFunct3, AmoOps
  <2> HIDE DEF f
  <2>2. r = IF b = 0 THEN Word - 1
            ELSE IF Overflows(a, b) THEN a ELSE Cut(Quotient(Signed(a), Signed(b)))
    BY <2>1, SMT DEF MulDiv
  <2> HIDE DEF r
  <2>3. CASE b = 0
    BY <1>5, <2>2, <2>3, EdgeDivMeans, Zenon DEF r, f
  <2>4. CASE b # 0 /\ Overflows(a, b)
    BY <1>5, <2>2, <2>4, EdgeDivMeans, Zenon DEF r, f
  <2>5. CASE b # 0 /\ ~Overflows(a, b)
    BY <1>5, <2>2, <2>5, SignedDivMeans, Zenon DEF r, f
  <2> QED BY <2>3, <2>4, <2>5
<1>6. CASE op = "DIVU"
  <2>1. f = 5
    BY <1>6, SMT DEF IsaFunct3, AmoOps
  <2> HIDE DEF f
  <2>2. r = IF b = 0 THEN Word - 1 ELSE a \div b
    BY <2>1, SMT DEF MulDiv
  <2> HIDE DEF r
  <2>3. CASE b = 0
    BY <1>6, <2>2, <2>3, EdgeDivMeans, Zenon DEF r, f
  <2>4. CASE b # 0
    BY <1>6, <2>2, <2>4, UnsignedDivMeans, Zenon DEF r, f
  <2> QED BY <2>3, <2>4
<1>7. CASE op = "REM"
  <2>1. f = 6
    BY <1>7, SMT DEF IsaFunct3, AmoOps
  <2> HIDE DEF f
  <2>2. r = IF b = 0 THEN a
            ELSE IF Overflows(a, b) THEN 0 ELSE Cut(Remainder(Signed(a), Signed(b)))
    BY <2>1, SMT DEF MulDiv
  <2> HIDE DEF r
  <2>3. CASE b = 0
    BY <1>7, <2>2, <2>3, EdgeDivMeans, Zenon DEF r, f
  <2>4. CASE b # 0 /\ Overflows(a, b)
    BY <1>7, <2>2, <2>4, EdgeDivMeans, Zenon DEF r, f
  <2>5. CASE b # 0 /\ ~Overflows(a, b)
    BY <1>7, <2>2, <2>5, SignedDivMeans, Zenon DEF r, f
  <2> QED BY <2>3, <2>4, <2>5
<1>8. CASE op = "REMU"
  <2>1. f = 7
    BY <1>8, SMT DEF IsaFunct3, AmoOps
  <2> HIDE DEF f
  <2>2. r = IF b = 0 THEN a ELSE a % b
    BY <2>1, SMT DEF MulDiv
  <2> HIDE DEF r
  <2>3. CASE b = 0
    BY <1>8, <2>2, <2>3, EdgeDivMeans, Zenon DEF r, f
  <2>4. CASE b # 0
    BY <1>8, <2>2, <2>4, UnsignedDivMeans, Zenon DEF r, f
  <2> QED BY <2>3, <2>4
<1> QED BY <1>0, <1>1, <1>2, <1>3, <1>4, <1>5, <1>6, <1>7, <1>8, Zenon

-----------------------------------------------------------------------------
(* Memory, little endian.                                                  *)

\* What the memory can hold.
Memories == [Offsets -> 0 .. Byte - 1]

\* Four bytes from an offset within the memory are bytes of the memory.
LEMMA BytesAt ==
  ASSUME NEW m \in Memories, NEW o \in Int, 0 <= o, o + 3 < RamSize
  PROVE  /\ o \in Offsets /\ o + 1 \in Offsets /\ o + 2 \in Offsets /\ o + 3 \in Offsets
         /\ m[o] \in 0 .. Byte - 1 /\ m[o + 1] \in 0 .. Byte - 1
         /\ m[o + 2] \in 0 .. Byte - 1 /\ m[o + 3] \in 0 .. Byte - 1
<1>1. o \in Offsets /\ o + 1 \in Offsets /\ o + 2 \in Offsets /\ o + 3 \in Offsets
  BY ExecAssumption, SMT DEF Offsets
<1> QED BY <1>1 DEF Memories

\* What is loaded from the memory is a byte, a half word or a word.
LEMMA LoadIs ==
  ASSUME NEW m \in Memories, NEW o \in Int, 0 <= o, o + 3 < RamSize
  PROVE  /\ LoadBytes(m, o, 1) = m[o] /\ LoadBytes(m, o, 2) = m[o] + Byte * m[o + 1]
         /\ LoadBytes(m, o, 4) = m[o] + Byte * m[o + 1] + Byte^2 * m[o + 2] + Byte^3 * m[o + 3]
         /\ LoadBytes(m, o, 1) \in Int /\ 0 <= LoadBytes(m, o, 1) /\ LoadBytes(m, o, 1) < Byte
         /\ LoadBytes(m, o, 2) \in Int /\ 0 <= LoadBytes(m, o, 2) /\ LoadBytes(m, o, 2) < Byte^2
         /\ LoadBytes(m, o, 1) \in Words /\ LoadBytes(m, o, 2) \in Words
         /\ LoadBytes(m, o, 4) \in Words
<1> DEFINE p == m[o]
           q == m[o + 1]
           r == m[o + 2]
           s == m[o + 3]
<1>1. p \in 0 .. Byte - 1 /\ q \in 0 .. Byte - 1 /\ r \in 0 .. Byte - 1 /\ s \in 0 .. Byte - 1
  BY BytesAt
<1>2. /\ LoadBytes(m, o, 1) = p /\ LoadBytes(m, o, 2) = p + Byte * q
      /\ LoadBytes(m, o, 4) = p + Byte * q + Byte^2 * r + Byte^3 * s
  BY SMT DEF LoadBytes
<1> HIDE DEF p, q, r, s
<1> DEFINE x == p + Byte * q
           y == p + Byte * q + Byte^2 * r + Byte^3 * s
<1>3. /\ p \in Int /\ 0 <= p /\ p < Byte /\ p < Word
      /\ x \in Int /\ 0 <= x /\ x < Byte^2 /\ x < Word
      /\ y \in Int /\ 0 <= y /\ y < Word
  <2>1. CASE Byte = 2
    BY <1>1, <2>1, SMT DEF Word
  <2>2. CASE Byte = 4
    BY <1>1, <2>2, SMT DEF Word
  <2>3. CASE Byte = 256
    BY <1>1, <2>3, SMT DEF Word
  <2> QED BY <2>1, <2>2, <2>3, ExecAssumption
<1> HIDE DEF x, y
<1>4. p \in Words /\ x \in Words /\ y \in Words
  BY <1>3, WordBound, SMT DEF Words
<1> QED BY <1>2, <1>3, <1>4, Zenon DEF x, y, p, q, r, s

\* What was stored is what is loaded: the low bytes of the word.
LEMMA StoredIs ==
  ASSUME NEW m \in Memories, NEW o \in Int, 0 <= o, o + 3 < RamSize, NEW x \in Words
  PROVE  /\ LoadBytes(StoreBytes(m, o, 1, x), o, 1) = x % Byte
         /\ LoadBytes(StoreBytes(m, o, 2, x), o, 2) = x % Byte^2
         /\ LoadBytes(StoreBytes(m, o, 4, x), o, 4) = x
<1>1. o \in Offsets /\ o + 1 \in Offsets /\ o + 2 \in Offsets /\ o + 3 \in Offsets /\ DOMAIN m = Offsets
  BY BytesAt DEF Memories
<1>2. o - o = 0 /\ (o + 1) - o = 1 /\ (o + 2) - o = 2 /\ (o + 3) - o = 3
  BY SMT
<1>3. /\ o \in o .. o + 1 - 1
      /\ o \in o .. o + 2 - 1 /\ o + 1 \in o .. o + 2 - 1
      /\ o \in o .. o + 4 - 1 /\ o + 1 \in o .. o + 4 - 1 /\ o + 2 \in o .. o + 4 - 1 /\ o + 3 \in o .. o + 4 - 1
  BY SMT
<1> DEFINE p == (x \div Byte^0) % Byte
           q == (x \div Byte^1) % Byte
           r == (x \div Byte^2) % Byte
           s == (x \div Byte^3) % Byte
<1>4. StoreBytes(m, o, 1, x)[o] = p
  BY <1>1, <1>2, <1>3, Zenon DEF StoreBytes
<1>5. StoreBytes(m, o, 2, x)[o] = p /\ StoreBytes(m, o, 2, x)[o + 1] = q
  BY <1>1, <1>2, <1>3, Zenon DEF StoreBytes
<1>6. /\ StoreBytes(m, o, 4, x)[o] = p /\ StoreBytes(m, o, 4, x)[o + 1] = q
      /\ StoreBytes(m, o, 4, x)[o + 2] = r /\ StoreBytes(m, o, 4, x)[o + 3] = s
  BY <1>1, <1>2, <1>3, Zenon DEF StoreBytes
<1>7. x \in Int /\ 0 <= x /\ x < Word
  BY WordIs
<1>8. p = x % Byte /\ p + Byte * q = x % Byte^2 /\ p + Byte * q + Byte^2 * r + Byte^3 * s = x
  <2>1. CASE Byte = 2
    BY <1>7, <2>1, SMT DEF Word
  <2>2. CASE Byte = 4
    BY <1>7, <2>2, SMT DEF Word
  <2>3. CASE Byte = 256
    BY <1>7, <2>3, SMT DEF Word
  <2> QED BY <2>1, <2>2, <2>3, ExecAssumption
<1> HIDE DEF p, q, r, s
<1> DEFINE M(n) == StoreBytes(m, o, n, x)
<1> HIDE DEF M
<1>9. /\ LoadBytes(M(1), o, 1) = M(1)[o] /\ LoadBytes(M(2), o, 2) = M(2)[o] + Byte * M(2)[o + 1]
      /\ LoadBytes(M(4), o, 4) = M(4)[o] + Byte * M(4)[o + 1] + Byte^2 * M(4)[o + 2] + Byte^3 * M(4)[o + 3]
  BY SMT DEF LoadBytes
<1> QED BY <1>4, <1>5, <1>6, <1>8, <1>9, Zenon DEF M

\* A store leaves the other bytes as they were.
LEMMA StoreRest ==
  ASSUME NEW m \in Memories, NEW o, NEW n, NEW x,
         NEW k \in DOMAIN StoreBytes(m, o, n, x) \ (o .. o + n - 1)
  PROVE  StoreBytes(m, o, n, x)[k] = m[k]
  BY Zenon DEF StoreBytes

\* A loaded byte or half word, with its sign.
LEMMA NarrowLoad ==
  ASSUME NEW half \in Nat \ {0}, 2 * half <= Word, NEW c \in Int, Word = c * (2 * half),
         NEW x \in Int, 0 <= x, x < 2 * half
  PROVE  LET v == Cut(SignExtend(x, half))
         IN  /\ v \in Words /\ (v - x) % (2 * half) = 0
             /\ Signed(v) \in -half .. half - 1
<1> DEFINE y == SignExtend(x, half)
           v == Cut(y)
           n == 2 * half
<1>1. y \in Int /\ -half <= y /\ y < half /\ (y = x \/ y = x - 2 * half)
  BY SMT DEF SignExtend
<1> HIDE DEF y
<1>2. v \in Words /\ Signed(v) = y
  <2>1. -Word <= 2 * y /\ 2 * y < Word
    BY <1>1, WordBound, SMT
  <2> QED BY <1>1, <2>1, SignedCut
<1>3. v \in Int /\ (v = y \/ v = y + Word)
  BY <1>2, SignedIs, WordBound, SMT
<1> HIDE DEF v
<1>4. PICK d \in Int : v - x = n * d
  <2>1. CASE v = y /\ y = x
    <3>1. v - x = n * 0
      BY <1>3, <2>1, SMT
    <3> QED BY <3>1
  <2>2. CASE v = y /\ y = x - 2 * half
    <3>1. v - x = n * (-1)
      BY <1>3, <2>2, SMT
    <3> QED BY <3>1, -1 \in Int
  <2>3. CASE v = y + Word /\ y = x
    <3>1. v - x = n * c
      BY <1>3, <2>3, SMT
    <3> QED BY <3>1
  <2>4. CASE v = y + Word /\ y = x - 2 * half
    <3>1. v - x = n * (c - 1) /\ c - 1 \in Int
      <4> DEFINE p == n * c
      <4>1. Word = p /\ p \in Int /\ n * (c - 1) = p - n
        BY SMT
      <4> HIDE DEF p
      <4> QED BY <1>3, <2>4, <4>1, SMT
    <3> QED BY <3>1, Zenon
  <2> QED BY <1>1, <1>3, <2>1, <2>2, <2>3, <2>4
<1>5. (v - x) % n = 0
  <2> DEFINE z == v - x
  <2>1. z = n * d + 0 /\ 0 < n /\ n \in Nat \ {0}
    <3>1. n * d \in Int /\ n \in Nat \ {0}
      BY SMT
    <3> DEFINE p == n * d
    <3>2. z = p /\ p \in Int
      BY <1>4, <3>1
    <3> HIDE DEF p, z
    <3>3. z = p + 0
      BY <3>2, SMT
    <3>4. 0 < n
      BY SMT
    <3> QED BY <3>1, <3>3, <3>4 DEF p
  <2> HIDE DEF z, n
  <2>2. z % n = 0
    <3>1. d \in Int /\ 0 \in Int /\ 0 <= 0
      BY SMT
    <3> QED BY <2>1, <3>1, DivUnique, Zenon
  <2> QED BY <2>2 DEF z
<1>6. Signed(v) \in -half .. half - 1
  BY <1>1, <1>2, SMT
<1> QED BY <1>2, <1>5, <1>6 DEF v, y, n

\* A word is itself, whatever it is counted by.
LEMMA ExactWord ==
  ASSUME NEW x \in Words
  PROVE  (x - x) % Byte^4 = 0
<1>1. x - x = 0
  BY WordIs, SMT
<1>2. 0 % Word = 0
  BY WordBound, SMT
<1> QED BY <1>1, <1>2, WordFacts, Zenon

\* What is left of a word by a division differs from it by multiples.
LEMMA ExactPart ==
  ASSUME NEW x \in Words, NEW n \in Nat \ {0}
  PROVE  ((x % n) - x) % n = 0
<1> DEFINE q == x \div n
           r == x % n
           z == r - x
<1>1. x \in Int /\ q \in Int /\ r \in Int /\ x = n * q + r
  BY WordIs, DivMod
<1> HIDE DEF q, r
<1>2. -q \in Int /\ z = n * (-q) + 0
  <2> DEFINE p == n * q
  <2>1. n * (-q) = -p /\ p \in Int /\ x = p + r
    BY <1>1, SMT
  <2> HIDE DEF p
  <2>2. z = -p + 0
    BY <1>1, <2>1, SMT
  <2>3. -q \in Int
    BY <1>1, SMT
  <2> QED BY <2>1, <2>2, <2>3
<1>3. 0 \in Int /\ 0 <= 0 /\ 0 < n
  BY SMT
<1> HIDE DEF z
<1>4. z % n = 0
  BY <1>2, <1>3, DivUnique, Zenon
<1> QED BY <1>4 DEF z, r

\* What a load from the memory reads is what the mnemonic names.
LEMMA LoadedMeans ==
  ASSUME NEW op \in Loads, op # "L3", mem \in Memories, was.mem = mem,
         At \in Int, 0 <= At, At + 3 < RamSize
  PROVE  LET v == Loaded(IsaFunct3(op), At)
         IN  v \in Words /\ LoadMeans(op, v)
<1> DEFINE f == IsaFunct3(op)
           v == Loaded(f, At)
           x == LoadBytes(mem, At, 1)
           y == LoadBytes(mem, At, 2)
           z == LoadBytes(mem, At, 4)
<1>0. op \in {"LB", "LH", "LW", "LBU", "LHU"}
  BY SMT DEF Loads
<1>1. /\ x \in Int /\ 0 <= x /\ x < Byte /\ y \in Int /\ 0 <= y /\ y < Byte^2
      /\ x \in Words /\ y \in Words /\ z \in Words
  BY LoadIs
<1>2. /\ Byte \div 2 \in Nat \ {0} /\ Byte = 2 * (Byte \div 2) /\ Byte <= Word
      /\ Byte^2 \div 2 \in Nat \ {0} /\ Byte^2 = 2 * (Byte^2 \div 2) /\ Byte^2 <= Word
      /\ Byte^2 \in Nat \ {0} /\ Word = Byte^2 * Byte^2 /\ Byte \in Nat \ {0}
      /\ Word = (Byte^2 * Byte) * Byte /\ Byte^2 * Byte \in Int /\ Byte^1 = Byte
  <2>1. CASE Byte = 2
    BY <2>1, SMT DEF Word
  <2>2. CASE Byte = 4
    BY <2>2, SMT DEF Word
  <2>3. CASE Byte = 256
    BY <2>3, SMT DEF Word
  <2> QED BY <2>1, <2>2, <2>3, ExecAssumption
<1>3. CASE op = "LB"
  <2>1. f = 0 /\ Width(op) = 1
    BY <1>3, SMT DEF IsaFunct3, AmoOps, Width
  <2> HIDE DEF f
  <2>2. v = Cut(SignExtend(x, Byte \div 2))
    BY <2>1, SMT DEF Loaded
  <2> DEFINE h == Byte \div 2
  <2>3. h \in Nat \ {0} /\ 2 * h = Byte /\ 2 * h <= Word /\ Byte^2 * Byte \in Int /\ Word = (Byte^2 * Byte) * (2 * h)
        /\ x \in Int /\ 0 <= x /\ x < 2 * h
    BY <1>1, <1>2
  <2> HIDE DEF h, x
  <2>4. /\ Cut(SignExtend(x, h)) \in Words
        /\ (Cut(SignExtend(x, h)) - x) % (2 * h) = 0
        /\ Signed(Cut(SignExtend(x, h))) \in -h .. h - 1
    BY <2>3, NarrowLoad
  <2>5. v \in Words /\ (v - x) % Byte^1 = 0 /\ Signed(v) \in -h .. h - 1
    BY <1>2, <2>2, <2>3, <2>4 DEF h
  <2>6. op \notin {"LBU", "LHU"}
    BY <1>3
  <2> QED BY <1>2, <2>1, <2>5, <2>6, Zenon DEF LoadMeans, f, x, h
<1>4. CASE op = "LH"
  <2>1. f = 1 /\ Width(op) = 2
    BY <1>4, SMT DEF IsaFunct3, AmoOps, Width
  <2> HIDE DEF f
  <2>2. v = Cut(SignExtend(y, Byte^2 \div 2))
    BY <2>1, SMT DEF Loaded
  <2> DEFINE h == Byte^2 \div 2
  <2>3. h \in Nat \ {0} /\ 2 * h = Byte^2 /\ 2 * h <= Word /\ Byte^2 \in Int /\ Word = Byte^2 * (2 * h)
        /\ y \in Int /\ 0 <= y /\ y < 2 * h
    BY <1>1, <1>2
  <2> HIDE DEF h, y
  <2>4. /\ Cut(SignExtend(y, h)) \in Words
        /\ (Cut(SignExtend(y, h)) - y) % (2 * h) = 0
        /\ Signed(Cut(SignExtend(y, h))) \in -h .. h - 1
    BY <2>3, NarrowLoad
  <2>5. v \in Words /\ (v - y) % Byte^2 = 0 /\ Signed(v) \in -h .. h - 1
    BY <2>2, <2>3, <2>4 DEF h
  <2>6. op \notin {"LBU", "LHU"}
    BY <1>4
  <2> QED BY <2>1, <2>5, <2>6, Zenon DEF LoadMeans, f, y, h
<1>5. CASE op = "LW"
  <2>1. f = 2 /\ Width(op) = 4
    BY <1>5, SMT DEF IsaFunct3, AmoOps, Width
  <2> HIDE DEF f
  <2>2. v = z
    BY <2>1, SMT DEF Loaded
  <2> HIDE DEF v, z
  <2>3. (v - z) % Byte^4 = 0
    BY <1>1, <2>2, ExactWord
  <2>4. op \notin {"LBU", "LHU", "LB", "LH"}
    BY <1>5
  <2> QED BY <1>1, <2>1, <2>2, <2>3, <2>4, Zenon DEF LoadMeans, f, v, z
<1>6. CASE op = "LBU"
  <2>1. f = 4 /\ Width(op) = 1
    BY <1>6, SMT DEF IsaFunct3, AmoOps, Width
  <2> HIDE DEF f
  <2>2. v = x
    BY <2>1, SMT DEF Loaded
  <2> HIDE DEF v, x
  <2>3. (v - x) % Byte^1 = 0 /\ v < Byte^1
    <3>1. x - x = 0 /\ 0 % Byte = 0
      BY <1>1, <1>2, SMT
    <3> QED BY <1>1, <1>2, <2>2, <3>1
  <2>4. op \notin {"LB", "LH"}
    BY <1>6
  <2> QED BY <1>1, <2>1, <2>2, <2>3, <2>4, Zenon DEF LoadMeans, f, v, x
<1>7. CASE op = "LHU"
  <2>1. f = 5 /\ Width(op) = 2
    BY <1>7, SMT DEF IsaFunct3, AmoOps, Width
  <2> HIDE DEF f
  <2>2. v = y
    BY <2>1, SMT DEF Loaded
  <2> HIDE DEF v, y
  <2>3. (v - y) % Byte^2 = 0 /\ v < Byte^2
    <3>1. y - y = 0
      BY <1>1, SMT
    <3>2. 0 % Byte^2 = 0
      <4> DEFINE n == Byte^2
      <4>1. n \in Nat \ {0}
        BY <1>2
      <4> HIDE DEF n
      <4>2. 0 % n = 0
        BY <4>1, SMT
      <4> QED BY <4>2 DEF n
    <3> QED BY <1>1, <2>2, <3>1, <3>2
  <2>4. op \notin {"LB", "LH"}
    BY <1>7
  <2> QED BY <1>1, <2>1, <2>2, <2>3, <2>4, Zenon DEF LoadMeans, f, v, y
<1> QED BY <1>0, <1>3, <1>4, <1>5, <1>6, <1>7, Zenon

\* The field the code looks at, and what the code makes of the two words.
LEMMA CombinedMeans ==
  ASSUME NEW op \in AmoOps \ {"AMO5"}, NEW old \in Words, NEW b \in Words
  PROVE  LET v == Combined((IsaFunct7(op) \div 4) % 32, old, b)
         IN  v \in Words /\ AmoMeans(op, old, b, v)
<1> DEFINE n == (IsaFunct7(op) \div 4) % 32
           v == Combined(n, old, b)
<1>0. op \in {"AMOADD", "AMOSWAP", "AMOXOR", "AMOOR", "AMOAND", "AMOMIN", "AMOMAX", "AMOMINU", "AMOMAXU"}
  BY SMT DEF AmoOps
<1>1. old \in Int /\ b \in Int /\ Signed(old) \in Int /\ Signed(b) \in Int
  BY SignedIs
<1>2. CASE op = "AMOADD"
  <2>1. n = 0
    BY <1>2, SMT DEF IsaFunct7, MulDivOps
  <2> HIDE DEF n
  <2>2. v = Cut(b + old) /\ b + old = old + b
    BY <1>1, <2>1, SMT DEF Combined
  <2>3. v = Cut(old + b)
    BY <2>2
  <2>4. v \in Words /\ Means("ADD", old, b, v)
    BY <2>3, AddMeans
  <2> QED BY <1>2, <2>4, Zenon DEF AmoMeans, n
<1>3. CASE op = "AMOSWAP"
  <2>1. n = 1
    BY <1>3, SMT DEF IsaFunct7, MulDivOps
  <2> HIDE DEF n
  <2>2. v = b
    BY <2>1, SMT DEF Combined
  <2> QED BY <1>3, <2>2, Zenon DEF AmoMeans, n
<1>4. CASE op = "AMOXOR"
  <2>1. n = 4
    BY <1>4, SMT DEF IsaFunct7, MulDivOps
  <2> HIDE DEF n
  <2>2. v = Xor(b, old)
    BY <2>1, SMT DEF Combined
  <2> HIDE DEF v
  <2>3. v \in Words /\ \A k \in 0 .. WordBits - 1 : Bit(v, k) <=> ~(Bit(old, k) <=> Bit(b, k))
    BY <2>2, Bitwise, Zenon
  <2>4. Means("XOR", old, b, v)
    BY <2>3, Zenon DEF Means
  <2> QED BY <1>4, <2>3, <2>4, Zenon DEF AmoMeans, n, v
<1>5. CASE op = "AMOOR"
  <2>1. n = 8
    BY <1>5, SMT DEF IsaFunct7, MulDivOps
  <2> HIDE DEF n
  <2>2. v = Or(b, old)
    BY <2>1, SMT DEF Combined
  <2> HIDE DEF v
  <2>3. v \in Words /\ \A k \in 0 .. WordBits - 1 : Bit(v, k) <=> Bit(old, k) \/ Bit(b, k)
    BY <2>2, Bitwise, Zenon
  <2>4. Means("OR", old, b, v)
    BY <2>3, Zenon DEF Means
  <2> QED BY <1>5, <2>3, <2>4, Zenon DEF AmoMeans, n, v
<1>6. CASE op = "AMOAND"
  <2>1. n = 12
    BY <1>6, SMT DEF IsaFunct7, MulDivOps
  <2> HIDE DEF n
  <2>2. v = And(b, old)
    BY <2>1, SMT DEF Combined
  <2> HIDE DEF v
  <2>3. v \in Words /\ \A k \in 0 .. WordBits - 1 : Bit(v, k) <=> Bit(old, k) /\ Bit(b, k)
    BY <2>2, Bitwise, Zenon
  <2>4. Means("AND", old, b, v)
    BY <2>3, Zenon DEF Means
  <2> QED BY <1>6, <2>3, <2>4, Zenon DEF AmoMeans, n, v
<1>7. CASE op = "AMOMIN"
  <2>1. n = 16
    <3> DEFINE g == IsaFunct7(op)
    <3>1. g \in Int /\ g + 64 = 0
      BY <1>7, SMT DEF IsaFunct7, MulDivOps
    <3> HIDE DEF g
    <3>2. (g \div 4) % 32 = 16
      BY <3>1, SMT
    <3> QED BY <3>2 DEF g
  <2> HIDE DEF n
  <2>2. v = IF Signed(b) < Signed(old) THEN b ELSE old
    BY <2>1, SMT DEF Combined
  <2> HIDE DEF v
  <2>3. v \in {old, b} /\ Signed(v) <= Signed(old) /\ Signed(v) <= Signed(b)
    BY <1>1, <2>2, SMT
  <2> QED BY <1>7, <2>3, Zenon DEF AmoMeans, n, v
<1>8. CASE op = "AMOMAX"
  <2>1. n = 20
    <3> DEFINE g == IsaFunct7(op)
    <3>1. g \in Int /\ g + 48 = 0
      BY <1>8, SMT DEF IsaFunct7, MulDivOps
    <3> HIDE DEF g
    <3>2. (g \div 4) % 32 = 20
      BY <3>1, SMT
    <3> QED BY <3>2 DEF g
  <2> HIDE DEF n
  <2>2. v = IF Signed(b) > Signed(old) THEN b ELSE old
    BY <2>1, SMT DEF Combined
  <2> HIDE DEF v
  <2>3. v \in {old, b} /\ Signed(v) >= Signed(old) /\ Signed(v) >= Signed(b)
    BY <1>1, <2>2, SMT
  <2> QED BY <1>8, <2>3, Zenon DEF AmoMeans, n, v
<1>9. CASE op = "AMOMINU"
  <2>1. n = 24
    <3> DEFINE g == IsaFunct7(op)
    <3>1. g \in Int /\ g + 32 = 0
      BY <1>9, SMT DEF IsaFunct7, MulDivOps
    <3> HIDE DEF g
    <3>2. (g \div 4) % 32 = 24
      BY <3>1, SMT
    <3> QED BY <3>2 DEF g
  <2> HIDE DEF n
  <2>2. v = IF b < old THEN b ELSE old
    BY <2>1, SMT DEF Combined
  <2> HIDE DEF v
  <2>3. v \in {old, b} /\ v <= old /\ v <= b
    BY <1>1, <2>2, SMT
  <2> QED BY <1>9, <2>3, Zenon DEF AmoMeans, n, v
<1>10. CASE op = "AMOMAXU"
  <2>1. n = 28
    <3> DEFINE g == IsaFunct7(op)
    <3>1. g \in Int /\ g + 16 = 0
      BY <1>10, SMT DEF IsaFunct7, MulDivOps
    <3> HIDE DEF g
    <3>2. (g \div 4) % 32 = 28
      BY <3>1, SMT
    <3> QED BY <3>2 DEF g
  <2> HIDE DEF n
  <2>2. v = IF b > old THEN b ELSE old
    BY <2>1, SMT DEF Combined
  <2> HIDE DEF v
  <2>3. v \in {old, b} /\ v >= old /\ v >= b
    BY <1>1, <2>2, SMT
  <2> QED BY <1>10, <2>3, Zenon DEF AmoMeans, n, v
<1> QED BY <1>0, <1>2, <1>3, <1>4, <1>5, <1>6, <1>7, <1>8, <1>9, <1>10, Zenon

-----------------------------------------------------------------------------
(* The steps.                                                              *)

\* The state before the instruction.
Ready ==
  /\ instr \in Instructions /\ regs \in [Regs -> Words] /\ mem \in Memories /\ pc \in Words
  /\ trap = 0 /\ bus = {}
  /\ was = [regs |-> regs, mem |-> mem, pc |-> pc]

\* The parts of an instruction have their types.
LEMMA InstrType ==
  ASSUME Ready
  PROVE  /\ instr.op \in Mnemonics /\ instr.rd \in Regs /\ instr.rs1 \in Regs /\ instr.rs2 \in Regs
         /\ instr.imm \in Int /\ HasImmediate(instr)
  BY DEF Ready, Instructions

\* Before the instruction the history is the present.
LEMMA Before ==
  ASSUME Ready
  PROVE  /\ was.regs = regs /\ was.mem = mem /\ was.pc = pc
         /\ A = regs[instr.rs1] /\ B = regs[instr.rs2] /\ A \in Words /\ B \in Words
         /\ Address \in Words /\ At \in Int /\ 0 <= At
<1>1. was.regs = regs /\ was.mem = mem /\ was.pc = pc
  BY DEF Ready
<1>2. A = regs[instr.rs1] /\ B = regs[instr.rs2] /\ A \in Words /\ B \in Words
  BY <1>1, InstrType DEF Ready, A, B
<1>3. Address \in Words
  <2> DEFINE x == IF instr.op \in AmoOps THEN 0 ELSE instr.imm
  <2>1. A + x \in Int
    BY <1>2, InstrType, WordIs, SMT
  <2> QED BY <2>1, CutIs DEF Address
<1>4. At \in Int /\ 0 <= At
  <2>1. Address - RamOffset \in Int
    BY <1>3, ExecAssumption, WordIs, SMT
  <2>2. At \in Words
    BY <2>1, CutIs DEF At, Offset
  <2> QED BY <2>2, WordIs
<1> QED BY <1>1, <1>2, <1>3, <1>4

\* The opcode the code sees is that of the instruction.
LEMMA Decoded ==
  ASSUME Ready, NEW ir, ir = Encode(instr)
  PROVE  Opcode(ir) = IsaOpcode(instr.op)
<1>1. instr \in Instructions /\ Format(instr.op) \in {"R", "I", "S", "B", "U", "J"}
  BY InstrType, IsaFields DEF Ready
<1>2. CASE Format(instr.op) = "R"
  BY <1>1, <1>2, DecodeR, ZenonT(60)
<1>3. CASE Format(instr.op) = "I"
  BY <1>1, <1>3, DecodeI, ZenonT(60)
<1>4. CASE Format(instr.op) = "S"
  BY <1>1, <1>4, DecodeS, ZenonT(60)
<1>5. CASE Format(instr.op) = "B"
  BY <1>1, <1>5, DecodeB, ZenonT(60)
<1>6. CASE Format(instr.op) = "U"
  BY <1>1, <1>6, DecodeU, ZenonT(60)
<1>7. CASE Format(instr.op) = "J"
  BY <1>1, <1>7, DecodeJ, ZenonT(60)
<1> QED BY <1>1, <1>2, <1>3, <1>4, <1>5, <1>6, <1>7, Zenon

\* What the properties say of the instruction does not change in the step.
LEMMA Kept ==
  ASSUME instr' = instr, was' = was
  PROVE  /\ A' = A /\ B' = B /\ Address' = Address /\ At' = At /\ (InMemory' <=> InMemory)
         /\ (HasResult' <=> HasResult) /\ Successor' = Successor
<1>1. A' = A /\ B' = B /\ (HasResult' <=> HasResult)
  BY DEF A, B, HasResult
<1>2. Address' = Address
  BY <1>1 DEF Address
<1>3. At' = At /\ (InMemory' <=> InMemory)
  BY <1>2 DEF At, InMemory
<1>4. Target' = Target
  BY <1>1 DEF Target
<1>5. Successor' = Successor
  BY <1>1, <1>4 DEF Successor
<1> QED BY <1>1, <1>2, <1>3, <1>5

\* What is proved of a mnemonic, jumps astray included: the result it has without
\* a trap, and the trap it takes.
ResultExact ==
  done /\ trap = 0 =>
    /\ Format(instr.op) # "R" /\ instr.op # "FENCE" => imm = instr.imm
    /\ \A r \in Regs : (r = instr.rd /\ HasResult) \/ regs[r] = was.regs[r]
    /\ pc = Successor
    /\ HasResult => IsResult(regs[instr.rd])

TrapExact ==
  done =>
    /\ trap # 0 =>
        /\ regs = was.regs /\ mem = was.mem /\ bus = {} /\ pc = was.pc
        /\ rval = IF trap \in {6, 8} THEN Address ELSE was.pc
    /\ IsCause(trap)

\* The destination, as the code knows it: 0 when there is none.
Destination == IF instr.op \in Branches \cup Stores \cup {"FENCE"} THEN 0 ELSE instr.rd

\* A step that retires with the right value and goes on at the right place
\* satisfies ResultExact.
LEMMA Finish ==
  ASSUME Ready, NEW v, NEW t, Retire(0, Destination, v, t),
         Format(instr.op) # "R" /\ instr.op # "FENCE" => imm' = instr.imm,
         Cut(t + 4) = Successor,
         HasResult => IsResult(v)
  PROVE  ResultExact'
<1>1. /\ instr' = instr /\ was' = was /\ pc' = Cut(t + 4)
      /\ regs' = IF Destination # 0 THEN [regs EXCEPT ![Destination] = v] ELSE regs
  BY DEF Retire
<1>2. HasResult => Destination = instr.rd /\ instr.rd # 0
  BY DEF HasResult, Destination
<1>3. ~HasResult => Destination = 0
  BY DEF HasResult, Destination
<1>4. /\ A' = A /\ B' = B /\ Address' = Address /\ At' = At /\ (InMemory' <=> InMemory)
      /\ (HasResult' <=> HasResult) /\ Successor' = Successor
  BY <1>1, Kept
<1>5. regs \in [Regs -> Words] /\ instr.rd \in Regs /\ was.regs = regs
  BY InstrType, Before DEF Ready
<1>6. HasResult => regs'[instr.rd] = v
  BY <1>1, <1>2, <1>5
<1>7. \A r \in Regs : (r = instr.rd /\ HasResult) \/ regs'[r] = was.regs[r]
  BY <1>1, <1>2, <1>3, <1>5
<1>8. HasResult' => IsResult(regs[instr.rd])'
  <2>1. SUFFICES ASSUME HasResult PROVE IsResult(regs[instr.rd])'
    BY <1>4
  <2>2. IsResult(v) /\ regs'[instr.rd] = v
    BY <1>6, <2>1
  <2>3. (LoadMeans(instr.op, regs[instr.rd]))' <=> LoadMeans(instr.op, v)
    BY <1>1, <1>4, <2>2 DEF LoadMeans
  <2> QED BY <1>1, <1>4, <2>2, <2>3, Zenon DEF IsResult
<1> QED BY <1>1, <1>4, <1>7, <1>8 DEF ResultExact

\* A step that stores nothing satisfies StoresOnlyItsBytes.
LEMMA NoStore ==
  ASSUME Ready, mem' = mem, bus' = bus, instr' = instr, was' = was,
         trap' # 0 \/ instr.op \notin Stores \cup AmoOps
  PROVE  StoresOnlyItsBytes'
<1>1. mem' = was.mem /\ bus' = {}
  BY Before DEF Ready
<1> QED BY <1>1 DEF StoresOnlyItsBytes

\* A step with the right cause, and nothing changed if there is one,
\* satisfies TrapExact.
LEMMA Trapped ==
  ASSUME Ready, NEW cause, NEW rd, NEW v, NEW t, Retire(cause, rd, v, t), IsCause(cause),
         cause # 0 => /\ mem' = mem /\ bus' = bus /\ t = pc
                      /\ cause \in {1, 2, 3, 6, 8} /\ (cause \in {6, 8} => v = Address)
  PROVE  TrapExact'
<1>1. /\ instr' = instr /\ was' = was /\ trap' = cause
      /\ rval' = IF cause = 0 \/ cause \in 6 .. 8 THEN v ELSE t
      /\ (cause # 0 => regs' = regs /\ pc' = t)
  BY DEF Retire
<1>2. Address' = Address /\ (InMemory' <=> InMemory)
  BY <1>1, Kept
<1>3. IsCause(trap)'
  BY <1>1, <1>2 DEF IsCause
<1>4. ASSUME cause # 0
      PROVE  /\ regs' = was.regs /\ mem' = was.mem /\ bus' = {} /\ pc' = was.pc
             /\ rval' = IF cause \in {6, 8} THEN Address ELSE was.pc
  <2>1. cause \in 6 .. 8 <=> cause \in {6, 8}
    BY <1>4, SMT
  <2> QED BY <1>1, <1>4, <2>1, Before DEF Ready
<1> QED BY <1>1, <1>2, <1>3, <1>4 DEF TrapExact

\* What is to hold after it.
Right == ResultExact /\ StoresOnlyItsBytes /\ TrapExact

\* A sum may be cut before or after it is made.
LEMMA CutFacts ==
  ASSUME NEW x \in Int, NEW y \in Int
  PROVE  Cut(Cut(x) + y) = Cut(x + y)
<1> DEFINE q == x \div Word
           r == Cut(x)
           p == (r + y) \div Word
           s == Cut(r + y)
<1>1. r \in Int /\ q \in Int /\ x = r + q * Word /\ Word \in Nat \ {0}
  BY CutIs, WordIs, WordBound
<1>2. r + y \in Int
  BY <1>1, SMT
<1>3. s \in Words /\ p \in Int /\ r + y = s + p * Word
  BY <1>2, CutIs
<1>4. s \in Int /\ 0 <= s /\ s < Word
  BY <1>3, WordIs
<1> HIDE DEF q, r, p, s
<1> DEFINE z == x + y
           c == p + q
<1>5. c \in Int /\ z = Word * c + s
  <2> DEFINE i == p * Word
             j == q * Word
  <2>1. i \in Int /\ j \in Int /\ Word * c = i + j /\ c \in Int
    BY <1>1, <1>3, SMT
  <2>2. x = r + j /\ r + y = s + i
    BY <1>1, <1>3
  <2> DEFINE k == Word * c
  <2> HIDE DEF i, j, k
  <2>3. k = i + j
    BY <2>1 DEF k
  <2>4. z = k + s
    BY <1>1, <1>4, <2>1, <2>2, <2>3, SMT
  <2> QED BY <2>1, <2>4 DEF k
<1> HIDE DEF z, c
<1>6. z % Word = s
  BY <1>1, <1>4, <1>5, DivUnique, Zenon
<1> QED BY <1>6, Zenon DEF z, s, r, Cut

\* No cause but that of the fetch is one when the fetch has failed, and so on.
LEMMA NoCause ==
  ASSUME Ready, Fetched, instr.op \notin Loads \cup Stores \cup AmoOps \cup {"B2", "NONE"}
  PROVE  IsCause(0)
<1>1. instr.op \notin {"L3", "S3", "AMO5"}
  BY SMT DEF Loads, Stores, AmoOps
<1>2. was.pc = pc
  BY Before
<1>3. 0 \notin {1, 2} /\ 0 # 6 /\ 0 # 8 /\ 0 # 3
  BY SMT
<1> QED BY <1>1, <1>2, <1>3, Zenon DEF IsCause, Fetched

\* A fetch outside the memory or off its words leaves what is to hold.
LEMMA FetchFaultStep ==
  ASSUME Ready, FetchFault
  PROVE  Right'
<1>1. PICK c \in {1, 2} : Retire(c, 0, 0, pc) /\ ~(Offset(pc) % 4 = 0 /\ Offset(pc) < RamSize)
  <2>1. Offset(pc) \in Int
    <3>1. pc - RamOffset \in Int
      BY ExecAssumption, WordIs, SMT DEF Ready
    <3> QED BY <3>1, CutIs, WordIs DEF Offset
  <2>2. \/ Offset(pc) >= RamSize /\ Retire(2, 0, 0, pc)
        \/ Offset(pc) < RamSize /\ Offset(pc) % 4 # 0 /\ Retire(1, 0, 0, pc)
    BY DEF FetchFault
  <2>3. Offset(pc) >= RamSize => ~(Offset(pc) < RamSize)
    BY <2>1, ExecAssumption, SMT
  <2> QED BY <2>2, <2>3
<1>2. mem' = mem /\ bus' = bus /\ trap' = c /\ instr' = instr /\ was' = was
  BY <1>1 DEF FetchFault, Retire
<1>3. IsCause(c)
  <2>1. was.pc = pc
    BY Before
  <2>2. c \in {1, 2} /\ c # 6 /\ c # 8 /\ c # 3
    BY SMT
  <2> QED BY <1>1, <2>1, <2>2, Zenon DEF IsCause
<1>4. c # 0 /\ c \in {1, 2, 3, 6, 8} /\ c \notin {6, 8}
  BY SMT
<1>5. TrapExact'
  BY <1>1, <1>2, <1>3, <1>4, Trapped
<1>6. StoresOnlyItsBytes'
  BY <1>2, <1>4, NoStore
<1>7. ResultExact'
  BY <1>2, <1>4 DEF ResultExact
<1> QED BY <1>5, <1>6, <1>7 DEF Right

\* LUI and AUIPC leave what is to hold.
LEMMA UpperStep ==
  ASSUME Ready, Upper
  PROVE  Right'
<1> DEFINE ir == Encode(instr)
           v == Cut(imm' + (IF Opcode(ir) = 23 THEN pc ELSE 0))
<1>1. Fetched /\ Opcode(ir) \in {55, 23} /\ imm' = ImmediateU(ir) /\ Retire(0, Rd(ir), v, pc)
      /\ mem' = mem /\ bus' = bus
  BY DEF Upper
<1>2. Opcode(ir) = IsaOpcode(instr.op)
  BY Decoded
<1>3. instr.op \in {"LUI", "AUIPC"} /\ (Opcode(ir) = 23 <=> instr.op = "AUIPC")
  BY <1>1, <1>2, InstrType, Groups
<1>4. Format(instr.op) = "U"
  <2>1. instr.op \in Mnemonics
    BY InstrType
  <2>2. Format(instr.op) = "U" <=> instr.op \in {"LUI", "AUIPC"}
    BY <2>1, Groups
  <2> QED BY <1>3, <2>2
<1>5. Rd(ir) = instr.rd /\ ImmediateU(ir) = instr.imm
  BY <1>4, DecodeU, ZenonT(60) DEF Ready
<1> HIDE DEF ir
<1>6. /\ instr.op \notin Branches \cup Stores \cup {"FENCE"} \cup Loads \cup AmoOps \cup {"B2", "NONE"}
      /\ instr.op \notin RegisterOps \cup ImmediateOps \cup {"JAL", "JALR"}
  BY <1>3, SMT DEF Branches, Stores, Loads, AmoOps, RegisterOps, MulDivOps, ImmediateOps, Shifts
<1>7. Destination = instr.rd
  BY <1>6, Zenon DEF Destination
<1>8. Cut(pc + 4) = Successor
  <2>1. ~Jumps(instr.op, A, B)
    BY <1>3, Zenon DEF Jumps
  <2> QED BY <2>1, Before, Zenon DEF Successor
<1>9. IsResult(v)
  <2>1. v = IF instr.op = "LUI" THEN Cut(instr.imm) ELSE Cut(was.pc + instr.imm)
    <3>1. pc \in Int /\ instr.imm \in Int /\ was.pc = pc
      BY InstrType, Before, WordIs DEF Ready
    <3>2. instr.imm + 0 = instr.imm /\ instr.imm + pc = pc + instr.imm
      BY <3>1, SMT
    <3> QED BY <1>1, <1>3, <1>5, <3>1, <3>2, Zenon
  <2> HIDE DEF v
  <2> QED BY <1>3, <1>6, <2>1, Zenon DEF IsResult
<1> HIDE DEF v
<1>10. Retire(0, Destination, v, pc)
  BY <1>1, <1>5, <1>7
<1>11. ResultExact'
  BY <1>1, <1>5, <1>8, <1>9, <1>10, Finish
<1>12. StoresOnlyItsBytes'
  BY <1>1, <1>6, NoStore DEF Retire
<1>13. TrapExact'
  BY <1>1, <1>6, NoCause, Trapped
<1> QED BY <1>11, <1>12, <1>13 DEF Right

\* JAL leaves what is to hold.
LEMMA JalStep ==
  ASSUME Ready, Jal
  PROVE  Right'
<1> DEFINE ir == Encode(instr)
           v == Cut(pc + 4)
           t == Cut(pc + imm' - 4)
<1>1. Fetched /\ Opcode(ir) = 111 /\ imm' = ImmediateJ(ir) /\ Retire(0, Rd(ir), v, t)
      /\ mem' = mem /\ bus' = bus
  BY DEF Jal
<1>2. Opcode(ir) = IsaOpcode(instr.op)
  BY Decoded
<1>3. instr.op = "JAL"
  BY <1>1, <1>2, InstrType, Groups
<1>4. Format(instr.op) = "J"
  <2>1. instr.op \in Mnemonics
    BY InstrType
  <2>2. Format(instr.op) = "J" <=> instr.op = "JAL"
    BY <2>1, Groups
  <2> QED BY <1>3, <2>2
<1>5. Rd(ir) = instr.rd /\ imm' = instr.imm
  BY <1>1, <1>4, DecodeJ, ZenonT(60) DEF Ready
<1> HIDE DEF ir
<1>6. /\ instr.op \notin Branches \cup Stores \cup {"FENCE"} \cup Loads \cup AmoOps \cup {"B2", "NONE"}
      /\ instr.op \notin RegisterOps \cup ImmediateOps \cup {"LUI", "AUIPC", "JALR"}
  BY <1>3, SMT DEF Branches, Stores, Loads, AmoOps, RegisterOps, MulDivOps, ImmediateOps, Shifts
<1>7. Destination = instr.rd
  BY <1>6, Zenon DEF Destination
<1>8. Cut(t + 4) = Successor
  <2>1. Jumps(instr.op, A, B)
    BY <1>3, Zenon DEF Jumps
  <2>2. pc \in Int /\ instr.imm \in Int /\ was.pc = pc
    BY InstrType, Before, WordIs DEF Ready
  <2>3. pc + instr.imm - 4 \in Int /\ (pc + instr.imm - 4) + 4 = was.pc + instr.imm /\ 4 \in Int
    BY <2>2, SMT
  <2>4. Cut(t + 4) = Cut(was.pc + instr.imm)
    BY <1>5, <2>3, CutFacts, Zenon
  <2> QED BY <1>3, <2>1, <2>4, Zenon DEF Successor, Target
<1>9. IsResult(v)
  <2>1. v = Cut(was.pc + 4)
    BY Before, Zenon
  <2> HIDE DEF v
  <2> QED BY <1>3, <1>6, <2>1, Zenon DEF IsResult
<1> HIDE DEF v, t
<1>10. Retire(0, Destination, v, t)
  BY <1>1, <1>5, <1>7
<1>11. ResultExact'
  BY <1>5, <1>8, <1>9, <1>10, Finish
<1>12. StoresOnlyItsBytes'
  BY <1>1, <1>6, NoStore DEF Retire
<1>13. TrapExact'
  BY <1>1, <1>6, NoCause, Trapped
<1> QED BY <1>11, <1>12, <1>13 DEF Right

\* JALR leaves what is to hold.
LEMMA JalrStep ==
  ASSUME Ready, Jalr
  PROVE  Right'
<1> DEFINE ir == Encode(instr)
           v == Cut(pc + 4)
           sum == Cut(Rs1(ir) + imm')
           even == sum - (sum % 2)
           t == Cut(even - 4)
<1>1. Fetched /\ Opcode(ir) = 103 /\ imm' = ImmediateI(ir) /\ Retire(0, Rd(ir), v, t)
      /\ mem' = mem /\ bus' = bus
  BY DEF Jalr
<1>2. Opcode(ir) = IsaOpcode(instr.op)
  BY Decoded
<1>3. instr.op = "JALR"
  BY <1>1, <1>2, InstrType, Groups
<1>4. Format(instr.op) = "I"
  <2>1. instr.op \in Mnemonics
    BY InstrType
  <2>2. Format(instr.op) = "I" <=> instr.op \in {"JALR", "FENCE"} \cup Loads \cup ImmediateOps
    BY <2>1, Groups
  <2> QED BY <1>3, <2>2
<1>5. Rd(ir) = instr.rd /\ imm' = instr.imm /\ Bits(ir, 19, 15) = instr.rs1
  BY <1>1, <1>4, DecodeI, ZenonT(60) DEF Ready
<1>6. /\ instr.op \notin Branches \cup Stores \cup {"FENCE"} \cup Loads \cup AmoOps \cup {"B2", "NONE"}
      /\ instr.op \notin RegisterOps \cup ImmediateOps \cup {"LUI", "AUIPC", "JAL"}
  BY <1>3, SMT DEF Branches, Stores, Loads, AmoOps, RegisterOps, MulDivOps, ImmediateOps, Shifts
<1>7. Destination = instr.rd
  BY <1>6, Zenon DEF Destination
<1>8. sum = Cut(A + instr.imm) /\ sum \in Words
  <2>1. Rs1(ir) = A
    BY <1>5, Before, Zenon DEF Rs1
  <2>2. A + instr.imm \in Int
    BY InstrType, Before, WordIs, SMT
  <2> QED BY <1>5, <2>1, <2>2, CutIs, Zenon
<1> HIDE DEF ir, sum
<1>9. Cut(t + 4) = Successor
  <2>1. Jumps(instr.op, A, B)
    BY <1>3, Zenon DEF Jumps
  <2>2. sum \in Int /\ 0 <= sum /\ sum < Word
    BY <1>8, WordIs
  <2>3. even \in Int /\ 0 <= even /\ even < Word
    <3> DEFINE bit == sum % 2
    <3>1. bit \in 0 .. 1 /\ bit <= sum
      BY <2>2, SMT
    <3> HIDE DEF bit
    <3>2. sum - bit \in Int /\ 0 <= sum - bit /\ sum - bit < Word
      BY <2>2, <3>1, WordBound, SMT
    <3> QED BY <3>2 DEF bit
  <2> HIDE DEF even
  <2>4. even - 4 \in Int /\ (even - 4) + 4 = even /\ 4 \in Int
    BY <2>3, SMT
  <2>5. Cut(t + 4) = Cut(even)
    BY <2>4, CutFacts, Zenon
  <2>6. Cut(even) = even
    BY <2>3, WordBound, SMT DEF Cut
  <2>7. even = Cut(A + instr.imm) - (Cut(A + instr.imm) % 2)
    BY <1>8, Zenon DEF even
  <2> QED BY <1>3, <2>1, <2>5, <2>6, <2>7, Zenon DEF Successor, Target
<1>10. IsResult(v)
  <2>1. v = Cut(was.pc + 4)
    BY Before, Zenon
  <2> HIDE DEF v
  <2> QED BY <1>3, <1>6, <2>1, Zenon DEF IsResult
<1> HIDE DEF v, t
<1>11. Retire(0, Destination, v, t)
  BY <1>1, <1>5, <1>7
<1>12. ResultExact'
  BY <1>5, <1>9, <1>10, <1>11, Finish
<1>13. StoresOnlyItsBytes'
  BY <1>1, <1>6, NoStore DEF Retire
<1>14. TrapExact'
  BY <1>1, <1>6, NoCause, Trapped
<1> QED BY <1>12, <1>13, <1>14 DEF Right

\* The condition of a branch, by its funct3.
LEMMA TakenJumps ==
  ASSUME NEW op \in Branches \ {"B2"}, NEW a \in Words, NEW b \in Words
  PROVE  /\ IsaFunct3(op) \notin {2, 3}
         /\ Taken(IsaFunct3(op), a, b) <=> Jumps(op, a, b)
<1> DEFINE f == IsaFunct3(op)
<1>0. op \in {"BEQ", "BNE", "BLT", "BGE", "BLTU", "BGEU"}
  BY SMT DEF Branches
<1>1. a \in Int /\ b \in Int /\ Signed(a) \in Int /\ Signed(b) \in Int
  BY SignedIs
<1>2. CASE op = "BEQ"
  <2>1. f = 0
    BY <1>2, SMT DEF IsaFunct3, AmoOps
  <2> HIDE DEF f
  <2>2. f \notin {2, 3} /\ (Taken(f, a, b) <=> a = b)
    BY <2>1, SMT DEF Taken
  <2> QED BY <1>2, <2>2, Zenon DEF Jumps, f
<1>3. CASE op = "BNE"
  <2>1. f = 1
    BY <1>3, SMT DEF IsaFunct3, AmoOps
  <2> HIDE DEF f
  <2>2. f \notin {2, 3} /\ (Taken(f, a, b) <=> a # b)
    BY <2>1, SMT DEF Taken
  <2> QED BY <1>3, <2>2, Zenon DEF Jumps, f
<1>4. CASE op = "BLT"
  <2>1. f = 4
    BY <1>4, SMT DEF IsaFunct3, AmoOps
  <2> HIDE DEF f
  <2>2. f \notin {2, 3} /\ (Taken(f, a, b) <=> Signed(a) < Signed(b))
    BY <2>1, SMT DEF Taken
  <2> QED BY <1>4, <2>2, Zenon DEF Jumps, f
<1>5. CASE op = "BGE"
  <2>1. f = 5
    BY <1>5, SMT DEF IsaFunct3, AmoOps
  <2> HIDE DEF f
  <2>2. f \notin {2, 3} /\ (Taken(f, a, b) <=> ~(Signed(a) < Signed(b)))
    BY <1>1, <2>1, SMT DEF Taken
  <2> QED BY <1>5, <2>2, Zenon DEF Jumps, f
<1>6. CASE op = "BLTU"
  <2>1. f = 6
    BY <1>6, SMT DEF IsaFunct3, AmoOps
  <2> HIDE DEF f
  <2>2. f \notin {2, 3} /\ (Taken(f, a, b) <=> a < b)
    BY <2>1, SMT DEF Taken
  <2> QED BY <1>6, <2>2, Zenon DEF Jumps, f
<1>7. CASE op = "BGEU"
  <2>1. f = 7
    BY <1>7, SMT DEF IsaFunct3, AmoOps
  <2> HIDE DEF f
  <2>2. f \notin {2, 3} /\ (Taken(f, a, b) <=> ~(a < b))
    BY <1>1, <2>1, SMT DEF Taken
  <2> QED BY <1>7, <2>2, Zenon DEF Jumps, f
<1> QED BY <1>0, <1>2, <1>3, <1>4, <1>5, <1>6, <1>7, Zenon

\* A branch, taken or not, and one with no meaning leave what is to hold.
LEMMA BranchStep ==
  ASSUME Ready, Branch
  PROVE  Right'
<1> DEFINE ir == Encode(instr)
           f == Funct3(ir)
           to == Cut(pc + imm' - 4)
           t == IF Taken(f, Rs1(ir), Rs2(ir)) THEN to ELSE pc
<1>1. /\ Fetched /\ Opcode(ir) = 99 /\ imm' = ImmediateB(ir) /\ mem' = mem /\ bus' = bus
      /\ \/ f \in {2, 3} /\ Retire(3, 0, 0, pc)
         \/ f \notin {2, 3} /\ Retire(0, 0, 0, t)
  BY DEF Branch
<1>2. Opcode(ir) = IsaOpcode(instr.op)
  BY Decoded
<1>3. instr.op \in Branches
  BY <1>1, <1>2, InstrType, Groups
<1>4. Format(instr.op) = "B"
  <2>1. instr.op \in Mnemonics
    BY InstrType
  <2>2. Format(instr.op) = "B" <=> instr.op \in Branches
    BY <2>1, Groups
  <2> QED BY <1>3, <2>2
<1>5. /\ imm' = instr.imm /\ f = IsaFunct3(instr.op)
      /\ Bits(ir, 19, 15) = instr.rs1 /\ Bits(ir, 24, 20) = instr.rs2
  BY <1>1, <1>4, DecodeB, ZenonT(60) DEF Ready
<1>6. Rs1(ir) = A /\ Rs2(ir) = B /\ A \in Words /\ B \in Words
  BY <1>5, Before, Zenon DEF Rs1, Rs2
<1> HIDE DEF ir, f
<1>7. /\ instr.op \notin Stores \cup Loads \cup AmoOps \cup {"NONE"} /\ instr.op \notin {"L3", "S3", "AMO5"}
  BY <1>3, SMT DEF Branches, Stores, Loads, AmoOps
<1>8. mem' = mem /\ bus' = bus /\ instr' = instr /\ was' = was
  BY <1>1 DEF Retire
<1>9. StoresOnlyItsBytes'
  BY <1>7, <1>8, NoStore
<1>10. CASE instr.op = "B2"
  <2>1. f = 2
    BY <1>5, <1>10, SMT DEF IsaFunct3, AmoOps
  <2>2. Retire(3, 0, 0, pc)
    BY <1>1, <2>1
  <2>3. IsCause(3)
    <3>1. 3 \notin {1, 2} /\ 3 # 6 /\ 3 # 8
      BY SMT
    <3> QED BY <1>1, <1>7, <1>10, <3>1, Before, Zenon DEF IsCause, Fetched
  <2>4. 3 # 0 /\ 3 \in {1, 2, 3, 6, 8} /\ 3 \notin {6, 8}
    BY SMT
  <2>5. TrapExact'
    BY <1>8, <2>2, <2>3, <2>4, Trapped
  <2>6. ResultExact'
    BY <2>2, <2>4 DEF ResultExact, Retire
  <2> QED BY <1>9, <2>5, <2>6 DEF Right
<1>11. CASE instr.op # "B2"
  <2>1. f \notin {2, 3} /\ (Taken(f, A, B) <=> Jumps(instr.op, A, B))
    BY <1>3, <1>5, <1>6, <1>11, TakenJumps
  <2>2. Retire(0, 0, 0, t)
    BY <1>1, <2>1
  <2>3. IsCause(0)
    BY <1>1, <1>7, <1>11, NoCause
  <2>4. TrapExact'
    BY <1>8, <2>2, <2>3, Trapped
  <2>5. Destination = 0 /\ ~HasResult
    BY <1>3, Zenon DEF Destination, HasResult
  <2>6. Cut(t + 4) = Successor
    <3>1. pc \in Int /\ instr.imm \in Int /\ was.pc = pc
      BY InstrType, Before, WordIs DEF Ready
    <3>2. pc + instr.imm - 4 \in Int /\ (pc + instr.imm - 4) + 4 = was.pc + instr.imm /\ 4 \in Int
      BY <3>1, SMT
    <3>3. Cut(to + 4) = Cut(was.pc + instr.imm)
      BY <1>5, <3>2, CutFacts, Zenon
    <3>4. instr.op # "JALR"
      BY <1>3, SMT DEF Branches
    <3> HIDE DEF to
    <3> QED BY <1>6, <2>1, <3>1, <3>3, <3>4, Zenon DEF Successor, Target
  <2> HIDE DEF t
  <2>7. ResultExact'
    BY <1>5, <2>2, <2>5, <2>6, Finish
  <2> QED BY <1>9, <2>4, <2>7 DEF Right
<1> QED BY <1>10, <1>11

\* A fence and an opcode without a case leave what is to hold.
LEMMA FenceOrInvalidStep ==
  ASSUME Ready, FenceOrInvalid
  PROVE  Right'
<1> DEFINE ir == Encode(instr)
<1>1. /\ Fetched /\ mem' = mem /\ bus' = bus
      /\ \/ Opcode(ir) = 15 /\ Retire(0, 0, 0, pc)
         \/ /\ Opcode(ir) \notin {55, 23, 111, 103, 99, 3, 35, 19, 51, 15, 47, 115}
            /\ Retire(3, Rd(ir), 0, pc)
  BY DEF FenceOrInvalid
<1>2. Opcode(ir) = IsaOpcode(instr.op)
  BY Decoded
<1> HIDE DEF ir
<1>3. CASE Opcode(ir) = 15 /\ Retire(0, 0, 0, pc)
  <2>1. instr.op = "FENCE"
    BY <1>2, <1>3, InstrType, SMT DEF IsaOpcode, Mnemonics
  <2>2. instr.op \notin Stores \cup Loads \cup AmoOps \cup {"B2", "NONE"}
    BY <2>1, SMT DEF Stores, Loads, AmoOps
  <2>3. Destination = 0 /\ ~HasResult
    BY <2>1, Zenon DEF Destination, HasResult
  <2>4. Cut(pc + 4) = Successor
    <3>1. ~Jumps(instr.op, A, B)
      BY <2>1, Zenon DEF Jumps
    <3> QED BY <3>1, Before, Zenon DEF Successor
  <2>5. ResultExact'
    BY <1>3, <2>1, <2>3, <2>4, Finish
  <2>6. StoresOnlyItsBytes'
    BY <1>1, <1>3, <2>2, NoStore DEF Retire
  <2>7. TrapExact'
    BY <1>1, <1>3, <2>2, NoCause, Trapped
  <2> QED BY <2>5, <2>6, <2>7 DEF Right
<1>4. CASE /\ Opcode(ir) \notin {55, 23, 111, 103, 99, 3, 35, 19, 51, 15, 47, 115}
           /\ Retire(3, Rd(ir), 0, pc)
  <2>1. instr.op = "NONE"
    <3>1. instr.op \in {"LUI", "AUIPC", "JAL", "JALR", "FENCE", "NONE"} \cup Branches \cup Loads \cup Stores
             \cup ImmediateOps \cup RegisterOps \cup AmoOps
      BY InstrType DEF Mnemonics
    <3> QED BY <1>2, <1>4, <3>1, InstrType, Groups, SMT
  <2>2. instr.op \notin Stores \cup Loads \cup AmoOps
    BY <2>1, SMT DEF Stores, Loads, AmoOps
  <2>3. IsCause(3)
    <3>1. 3 \notin {1, 2} /\ 3 # 6 /\ 3 # 8
      BY SMT
    <3> QED BY <1>1, <2>1, <2>2, <3>1, Before, Zenon DEF IsCause, Fetched
  <2>4. 3 # 0 /\ 3 \in {1, 2, 3, 6, 8} /\ 3 \notin {6, 8}
    BY SMT
  <2>5. TrapExact'
    BY <1>1, <1>4, <2>3, <2>4, Trapped
  <2>6. ResultExact'
    BY <1>4, <2>4 DEF ResultExact, Retire
  <2>7. StoresOnlyItsBytes'
    BY <1>1, <1>4, <2>2, NoStore DEF Retire
  <2> QED BY <2>5, <2>6, <2>7 DEF Right
<1> QED BY <1>1, <1>3, <1>4

\* The code looks for the memory where it is.
LEMMA Outside ==
  ASSUME Ready
  PROVE  OutsideRam(At) <=> ~InMemory
<1>1. At \in Int /\ RamSize \in Int
  BY Before, ExecAssumption
<1> QED BY <1>1, SMT DEF OutsideRam, InMemory

\* A load, from the memory or a device or none, leaves what is to hold.
LEMMA LoadStep ==
  ASSUME Ready, Load
  PROVE  Right'
<1> DEFINE ir == Encode(instr)
           f == Funct3(ir)
           addr == Cut(Rs1(ir) + ImmediateI(ir))
<1>1. /\ Fetched /\ Opcode(ir) = 3 /\ imm' = ImmediateI(ir) /\ mem' = mem /\ bus' = bus
      /\ \/ OutsideRam(Offset(addr)) /\ addr \in DeviceWindow /\ Retire(0, Rd(ir), DeviceWord, pc)
         \/ OutsideRam(Offset(addr)) /\ addr \notin DeviceWindow /\ Retire(6, Rd(ir), addr, pc)
         \/ ~OutsideRam(Offset(addr)) /\ f \in {3, 6, 7} /\ Retire(3, Rd(ir), 0, pc)
         \/ ~OutsideRam(Offset(addr)) /\ f \notin {3, 6, 7} /\ Retire(0, Rd(ir), Loaded(f, Offset(addr)), pc)
  BY DEF Load
<1>2. Opcode(ir) = IsaOpcode(instr.op)
  BY Decoded
<1>3. instr.op \in Loads
  BY <1>1, <1>2, InstrType, Groups
<1>4. Format(instr.op) = "I"
  <2>1. Format(instr.op) = "I" <=> instr.op \in {"JALR", "FENCE"} \cup Loads \cup ImmediateOps
    BY InstrType, Groups
  <2> QED BY <1>3, <2>1
<1>5. /\ Rd(ir) = instr.rd /\ ImmediateI(ir) = instr.imm /\ f = IsaFunct3(instr.op)
      /\ Bits(ir, 19, 15) = instr.rs1
  BY <1>4, DecodeI, ZenonT(60) DEF Ready
<1> HIDE DEF ir, f
<1>6. /\ instr.op \notin Branches \cup Stores \cup {"FENCE"} \cup AmoOps \cup {"B2", "NONE"}
      /\ instr.op \notin RegisterOps \cup ImmediateOps \cup {"LUI", "AUIPC", "JAL", "JALR"}
      /\ instr.op \notin {"S3", "AMO5"}
  BY <1>3, SMT DEF Loads, Branches, Stores, AmoOps, RegisterOps, MulDivOps, ImmediateOps, Shifts
<1>7. addr = Address /\ Offset(addr) = At
  BY <1>5, <1>6, Before, Zenon DEF Rs1, Address, At
<1> HIDE DEF addr
<1>8. (OutsideRam(Offset(addr)) <=> ~InMemory) /\ mem \in Memories /\ was.mem = mem /\ was.pc = pc
  BY <1>7, Outside, Before DEF Ready
<1>9. instr' = instr /\ was' = was
  BY <1>1 DEF Retire
<1>10. StoresOnlyItsBytes'
  BY <1>1, <1>6, <1>9, NoStore
<1>11. f \in {3, 6, 7} <=> instr.op = "L3"
  BY <1>3, <1>5, SMT DEF Loads, IsaFunct3, AmoOps
<1>12. Offset(pc) % 4 = 0 /\ Offset(pc) < RamSize
  BY <1>1 DEF Fetched
<1>13. Destination = instr.rd
  BY <1>6, Zenon DEF Destination
<1>14. Cut(pc + 4) = Successor
  <2>1. ~Jumps(instr.op, A, B)
    BY <1>3, SMT DEF Jumps, Loads
  <2> QED BY <2>1, Before, Zenon DEF Successor
<1>15. 0 \notin {1, 2} /\ 0 # 6 /\ 0 # 8 /\ 0 # 3 /\ 6 \notin {1, 2} /\ 6 # 8 /\ 6 # 3 /\ 3 \notin {1, 2} /\ 3 # 6 /\ 3 # 8
  BY SMT
<1>16. CASE ~InMemory /\ addr \in DeviceWindow
  <2>1. Retire(0, Destination, DeviceWord, pc)
    BY <1>1, <1>5, <1>8, <1>13, <1>16
  <2>2. IsCause(0)
    BY <1>6, <1>7, <1>8, <1>12, <1>15, <1>16, Zenon DEF IsCause
  <2>3. IsResult(DeviceWord)
    BY <1>6, <1>16, Zenon DEF IsResult
  <2>4. ResultExact'
    BY <1>1, <1>5, <1>14, <2>1, <2>3, Finish
  <2>5. TrapExact'
    BY <2>1, <2>2, Trapped
  <2> QED BY <1>10, <2>4, <2>5 DEF Right
<1>17. CASE ~InMemory /\ addr \notin DeviceWindow
  <2>1. Retire(6, Rd(ir), addr, pc)
    BY <1>1, <1>8, <1>17
  <2>2. IsCause(6)
    BY <1>3, <1>6, <1>7, <1>8, <1>12, <1>15, <1>17, Zenon DEF IsCause
  <2>3. 6 # 0 /\ 6 \in {1, 2, 3, 6, 8}
    BY SMT
  <2>4. ResultExact'
    BY <2>1, <2>3 DEF ResultExact, Retire
  <2>5. TrapExact'
    BY <1>1, <1>7, <2>1, <2>2, <2>3, Trapped
  <2> QED BY <1>10, <2>4, <2>5 DEF Right
<1>18. CASE InMemory /\ instr.op = "L3"
  <2>1. Retire(3, Rd(ir), 0, pc)
    BY <1>1, <1>8, <1>11, <1>18
  <2>2. IsCause(3)
    BY <1>6, <1>8, <1>12, <1>15, <1>18, Zenon DEF IsCause
  <2>3. 3 # 0 /\ 3 \in {1, 2, 3, 6, 8} /\ 3 \notin {6, 8}
    BY SMT
  <2>4. ResultExact'
    BY <2>1, <2>3 DEF ResultExact, Retire
  <2>5. TrapExact'
    BY <1>1, <2>1, <2>2, <2>3, Trapped
  <2> QED BY <1>10, <2>4, <2>5 DEF Right
<1>19. CASE InMemory /\ instr.op # "L3"
  <2> DEFINE v == Loaded(f, Offset(addr))
  <2>1. Retire(0, Destination, v, pc)
    BY <1>1, <1>5, <1>8, <1>11, <1>13, <1>19
  <2>2. IsCause(0)
    BY <1>6, <1>8, <1>12, <1>15, <1>19, Zenon DEF IsCause
  <2>3. LoadMeans(instr.op, v)
    <3>1. At \in Int /\ 0 <= At /\ At + 3 < RamSize
      BY <1>19, Before DEF InMemory
    <3> QED BY <1>3, <1>5, <1>7, <1>8, <1>19, <3>1, LoadedMeans
  <2> HIDE DEF v
  <2>4. IsResult(v)
    BY <1>6, <1>19, <2>3, Zenon DEF IsResult
  <2>5. ResultExact'
    BY <1>1, <1>5, <1>14, <2>1, <2>4, Finish
  <2>6. TrapExact'
    BY <2>1, <2>2, Trapped
  <2> QED BY <1>10, <2>5, <2>6 DEF Right
<1> QED BY <1>16, <1>17, <1>18, <1>19

\* A store, to the memory or a device or none, leaves what is to hold.
LEMMA StoreStep ==
  ASSUME Ready, Store
  PROVE  Right'
<1> DEFINE ir == Encode(instr)
           f == Funct3(ir)
           x == Rs2(ir)
           addr == Cut(Rs1(ir) + ImmediateS(ir))
           o == Offset(addr)
<1>1. /\ Fetched /\ Opcode(ir) = 35 /\ imm' = ImmediateS(ir)
      /\ \/ /\ OutsideRam(o) /\ addr \in DeviceWindow /\ bus' = {<<addr, x>>} /\ mem' = mem
            /\ Retire(0, 0, 0, pc)
         \/ OutsideRam(o) /\ addr \notin DeviceWindow /\ mem' = mem /\ bus' = bus /\ Retire(8, 0, addr, pc)
         \/ ~OutsideRam(o) /\ f \notin 0 .. 2 /\ mem' = mem /\ bus' = bus /\ Retire(3, 0, 0, pc)
         \/ /\ ~OutsideRam(o) /\ f \in 0 .. 2 /\ mem' = StoreBytes(mem, o, 2^f, x) /\ bus' = bus
            /\ Retire(0, 0, 0, pc)
  BY DEF Store
<1>2. Opcode(ir) = IsaOpcode(instr.op)
  BY Decoded
<1>3. instr.op \in Stores
  BY <1>1, <1>2, InstrType, Groups
<1>4. Format(instr.op) = "S"
  <2>1. Format(instr.op) = "S" <=> instr.op \in Stores
    BY InstrType, Groups
  <2> QED BY <1>3, <2>1
<1>5. /\ ImmediateS(ir) = instr.imm /\ f = IsaFunct3(instr.op)
      /\ Bits(ir, 19, 15) = instr.rs1 /\ Bits(ir, 24, 20) = instr.rs2
  BY <1>4, DecodeS, ZenonT(60) DEF Ready
<1> HIDE DEF ir, f
<1>6. /\ instr.op \notin Branches \cup Loads \cup {"FENCE"} \cup AmoOps \cup {"B2", "NONE"}
      /\ instr.op \notin {"L3", "AMO5"}
  BY <1>3, SMT DEF Loads, Branches, Stores, AmoOps
<1>7. addr = Address /\ o = At /\ x = B /\ B \in Words
  BY <1>5, <1>6, Before, Zenon DEF Rs1, Rs2, Address, At
<1> HIDE DEF addr, o, x
<1>8. (OutsideRam(o) <=> ~InMemory) /\ mem \in Memories /\ was.mem = mem /\ was.pc = pc /\ bus = {}
  BY <1>7, Outside, Before DEF Ready
<1>9. /\ instr' = instr /\ was' = was
      /\ A' = A /\ B' = B /\ Address' = Address /\ At' = At /\ (InMemory' <=> InMemory)
  <2>1. instr' = instr /\ was' = was
    BY <1>1 DEF Retire
  <2> QED BY <2>1, Kept
<1>10. f \notin 0 .. 2 <=> instr.op = "S3"
  BY <1>3, <1>5, SMT DEF Stores, IsaFunct3, AmoOps
<1>11. Offset(pc) % 4 = 0 /\ Offset(pc) < RamSize
  BY <1>1 DEF Fetched
<1>12. Destination = 0 /\ ~HasResult
  BY <1>3, Zenon DEF Destination, HasResult
<1>13. Cut(pc + 4) = Successor
  <2>1. ~Jumps(instr.op, A, B)
    BY <1>3, SMT DEF Jumps, Stores
  <2> QED BY <2>1, Before, Zenon DEF Successor
<1>14. 0 \notin {1, 2} /\ 0 # 6 /\ 0 # 8 /\ 0 # 3 /\ 8 \notin {1, 2} /\ 8 # 6 /\ 8 # 3 /\ 3 \notin {1, 2} /\ 3 # 6 /\ 3 # 8
  BY SMT
<1>15. ASSUME Retire(0, 0, 0, pc)
       PROVE  ResultExact'
  BY <1>1, <1>5, <1>12, <1>13, <1>15, Finish
<1>16. CASE ~InMemory /\ addr \in DeviceWindow
  <2>1. Retire(0, 0, 0, pc) /\ bus' = {<<Address, B>>} /\ mem' = mem
    BY <1>1, <1>7, <1>8, <1>16
  <2>2. IsCause(0)
    BY <1>3, <1>6, <1>7, <1>8, <1>11, <1>14, <1>16, Zenon DEF IsCause
  <2>3. TrapExact'
    BY <2>1, <2>2, Trapped
  <2>4. StoresOnlyItsBytes'
    <3>1. trap' = 0
      BY <2>1 DEF Retire
    <3> QED BY <1>3, <1>8, <1>9, <1>16, <2>1, <3>1, Zenon DEF StoresOnlyItsBytes
  <2> QED BY <1>15, <2>1, <2>3, <2>4 DEF Right
<1>17. CASE ~InMemory /\ addr \notin DeviceWindow
  <2>1. Retire(8, 0, addr, pc) /\ mem' = mem /\ bus' = bus
    BY <1>1, <1>8, <1>17
  <2>2. IsCause(8)
    BY <1>3, <1>6, <1>7, <1>8, <1>11, <1>14, <1>17, Zenon DEF IsCause
  <2>3. 8 # 0 /\ 8 \in {1, 2, 3, 6, 8}
    BY SMT
  <2>4. ResultExact' /\ trap' # 0
    BY <2>1, <2>3 DEF ResultExact, Retire
  <2>5. TrapExact'
    BY <1>7, <2>1, <2>2, <2>3, Trapped
  <2>6. StoresOnlyItsBytes'
    BY <1>9, <2>1, <2>4, NoStore
  <2> QED BY <2>4, <2>5, <2>6 DEF Right
<1>18. CASE InMemory /\ instr.op = "S3"
  <2>1. Retire(3, 0, 0, pc) /\ mem' = mem /\ bus' = bus
    BY <1>1, <1>8, <1>10, <1>18
  <2>2. IsCause(3)
    BY <1>6, <1>8, <1>11, <1>14, <1>18, Zenon DEF IsCause
  <2>3. 3 # 0 /\ 3 \in {1, 2, 3, 6, 8} /\ 3 \notin {6, 8}
    BY SMT
  <2>4. ResultExact' /\ trap' # 0
    BY <2>1, <2>3 DEF ResultExact, Retire
  <2>5. TrapExact'
    BY <2>1, <2>2, <2>3, Trapped
  <2>6. StoresOnlyItsBytes'
    BY <1>9, <2>1, <2>4, NoStore
  <2> QED BY <2>4, <2>5, <2>6 DEF Right
<1>19. CASE InMemory /\ instr.op # "S3"
  <2> DEFINE n == Width(instr.op)
             m == StoreBytes(mem, At, n, B)
  <2>1. 2^f = n /\ n \in {1, 2, 4}
    <3>1. instr.op \in {"SB", "SH", "SW"}
      BY <1>3, <1>19, SMT DEF Stores
    <3>2. CASE instr.op = "SB"
      <4>1. f = 0 /\ n = 1
        BY <1>5, <3>2, SMT DEF IsaFunct3, AmoOps, Width
      <4> HIDE DEF n
      <4> QED BY <4>1, SMT
    <3>3. CASE instr.op = "SH"
      <4>1. f = 1 /\ n = 2
        BY <1>5, <3>3, SMT DEF IsaFunct3, AmoOps, Width
      <4> HIDE DEF n
      <4> QED BY <4>1, SMT
    <3>4. CASE instr.op = "SW"
      <4>1. f = 2 /\ n = 4
        BY <1>5, <3>4, SMT DEF IsaFunct3, AmoOps, Width
      <4> HIDE DEF n
      <4> QED BY <4>1, SMT
    <3> QED BY <3>1, <3>2, <3>3, <3>4
  <2>2. Retire(0, 0, 0, pc) /\ mem' = m /\ bus' = bus
    BY <1>1, <1>7, <1>8, <1>10, <1>19, <2>1
  <2>3. IsCause(0)
    BY <1>6, <1>8, <1>11, <1>14, <1>19, Zenon DEF IsCause
  <2>4. TrapExact'
    BY <2>2, <2>3, Trapped
  <2>5. \A k \in DOMAIN mem' \ (At .. At + n - 1) : mem'[k] = was.mem[k]
    BY <1>8, <2>2, StoreRest
  <2>6. (LoadBytes(m, At, n) - B) % Byte^n = 0
    <3>1. At \in Int /\ 0 <= At /\ At + 3 < RamSize
      BY <1>19, Before DEF InMemory
    <3>2. /\ LoadBytes(StoreBytes(mem, At, 1, B), At, 1) = B % Byte
          /\ LoadBytes(StoreBytes(mem, At, 2, B), At, 2) = B % Byte^2
          /\ LoadBytes(StoreBytes(mem, At, 4, B), At, 4) = B
      BY <1>7, <1>8, <3>1, StoredIs
    <3>3. Byte \in Nat \ {0} /\ Byte^1 = Byte /\ Byte^2 \in Nat \ {0}
      <4>1. CASE Byte = 2
        BY <4>1, SMT
      <4>2. CASE Byte = 4
        BY <4>2, SMT
      <4>3. CASE Byte = 256
        BY <4>3, SMT
      <4> QED BY <4>1, <4>2, <4>3, ExecAssumption
    <3>4. CASE n = 1
      BY <1>7, <3>2, <3>3, <3>4, ExactPart
    <3>5. CASE n = 2
      BY <1>7, <3>2, <3>3, <3>5, ExactPart
    <3>6. CASE n = 4
      BY <1>7, <3>2, <3>6, ExactWord
    <3> QED BY <2>1, <3>4, <3>5, <3>6
  <2> HIDE DEF m
  <2>7. StoresOnlyItsBytes'
    <3>1. trap' = 0 /\ instr.op \notin AmoOps
      BY <1>6, <2>2 DEF Retire
    <3> QED BY <1>3, <1>8, <1>9, <1>19, <2>2, <2>5, <2>6, <3>1, Zenon DEF StoresOnlyItsBytes
  <2> QED BY <1>15, <2>2, <2>4, <2>7 DEF Right
<1> QED BY <1>16, <1>17, <1>18, <1>19

\* The bits the code selects the kind of an Op by.
LEMMA OpBits ==
  ASSUME NEW op \in RegisterOps
  PROVE  /\ (IsaFunct7(op) % 2 = 1 <=> op \in MulDivOps)
         /\ (op \in {"SUB", "SRA"} => (IsaFunct7(op) \div 32) % 2 = 1)
         /\ (op \in {"ADD", "SRL"} => ~((IsaFunct7(op) \div 32) % 2 = 1))
<1> DEFINE g == IsaFunct7(op)
<1>1. CASE op \in MulDivOps
  <2>1. g = 1 /\ op \notin {"SUB", "SRA", "ADD", "SRL"}
    BY <1>1, SMT DEF IsaFunct7, MulDivOps
  <2> HIDE DEF g
  <2>2. g % 2 = 1
    BY <2>1, SMT
  <2> QED BY <1>1, <2>1, <2>2 DEF g
<1>2. CASE op \in {"SUB", "SRA"}
  <2>1. g = 32 /\ op \notin MulDivOps /\ op \notin {"ADD", "SRL"}
    BY <1>2, SMT DEF IsaFunct7, MulDivOps
  <2> HIDE DEF g
  <2>2. g % 2 # 1 /\ (g \div 32) % 2 = 1
    BY <2>1, SMT
  <2> QED BY <2>1, <2>2 DEF g
<1>3. CASE op \in {"ADD", "SLL", "SLT", "SLTU", "XOR", "SRL", "OR", "AND"}
  <2>1. g = 0 /\ op \notin MulDivOps /\ op \notin {"SUB", "SRA"}
    BY <1>3, SMT DEF IsaFunct7, MulDivOps
  <2> HIDE DEF g
  <2>2. g % 2 # 1 /\ (g \div 32) % 2 # 1
    BY <2>1, SMT
  <2> QED BY <2>1, <2>2 DEF g
<1> QED BY <1>1, <1>2, <1>3, SMT DEF RegisterOps

\* The arithmetic, of registers or with an immediate, leaves what is to hold.
LEMMA OpStep ==
  ASSUME Ready, Op
  PROVE  Right'
<1> DEFINE ir == Encode(instr)
           b == IF IsReg(ir) THEN Rs2(ir) ELSE Cut(imm')
           v == Alu(ir, Rs1(ir), b)
<1>1. Fetched /\ Opcode(ir) \in {19, 51} /\ imm' = ImmediateI(ir) /\ Retire(0, Rd(ir), v, pc)
      /\ mem' = mem /\ bus' = bus
  BY DEF Op
<1>2. Opcode(ir) = IsaOpcode(instr.op)
  BY Decoded
<1>3. instr.op \in ImmediateOps \cup RegisterOps
  BY <1>1, <1>2, InstrType, Groups
<1>4. /\ instr.op \notin Branches \cup Stores \cup {"FENCE"} \cup Loads \cup AmoOps \cup {"B2", "NONE"}
      /\ instr.op \notin {"LUI", "AUIPC", "JAL", "JALR"}
  BY <1>3, SMT DEF Branches, Stores, Loads, AmoOps, RegisterOps, MulDivOps, ImmediateOps, Shifts
<1>5. Destination = instr.rd
  BY <1>4, Zenon DEF Destination
<1>6. Cut(pc + 4) = Successor
  <2>1. ~Jumps(instr.op, A, B)
    BY <1>3, SMT DEF Jumps, RegisterOps, MulDivOps, ImmediateOps, Shifts
  <2> QED BY <2>1, Before, Zenon DEF Successor
<1>7. ASSUME Rd(ir) = instr.rd, IsResult(v),
             Format(instr.op) # "R" /\ instr.op # "FENCE" => imm' = instr.imm
      PROVE  Right'
  <2> HIDE DEF ir, v
  <2>1. Retire(0, Destination, v, pc)
    BY <1>1, <1>5, <1>7
  <2>2. ResultExact'
    BY <1>6, <1>7, <2>1, Finish
  <2>3. StoresOnlyItsBytes'
    BY <1>1, <1>4, NoStore DEF Retire
  <2>4. TrapExact'
    BY <1>1, <1>4, NoCause, Trapped
  <2> QED BY <2>2, <2>3, <2>4 DEF Right
<1>8. CASE instr.op \in RegisterOps
  <2>1. Format(instr.op) = "R" /\ IsaOpcode(instr.op) = 51 /\ instr.op \notin ImmediateOps
    <3>1. Format(instr.op) = "R" <=> instr.op \in {"NONE"} \cup RegisterOps \cup AmoOps
      BY InstrType, Groups
    <3>2. IsaOpcode(instr.op) = 51
      BY <1>8, InstrType, Groups
    <3>3. instr.op \notin ImmediateOps
      BY <1>8, SMT DEF RegisterOps, MulDivOps, ImmediateOps, Shifts
    <3> QED BY <1>8, <3>1, <3>2, <3>3
  <2> DEFINE bit25 == Bit25(ir)
             bit30 == Bit30(ir)
             f == Funct3(ir)
  <2>2. /\ Rd(ir) = instr.rd /\ f = IsaFunct3(instr.op)
        /\ Bits(ir, 19, 15) = instr.rs1 /\ Bits(ir, 24, 20) = instr.rs2
        /\ IsReg(ir) = ((IsaOpcode(instr.op) \div 32) % 2 = 1)
        /\ bit25 = (IsaFunct7(instr.op) % 2 = 1)
        /\ bit30 = ((IsaFunct7(instr.op) \div 32) % 2 = 1)
    BY <2>1, DecodeR, ZenonT(60) DEF Ready
  <2>3. (51 \div 32) % 2 = 1
    BY SMT
  <2>4. IsReg(ir)
    BY <2>1, <2>2, <2>3, Zenon
  <2>5. /\ (bit25 <=> instr.op \in MulDivOps)
        /\ (instr.op \in {"SUB", "SRA"} => bit30) /\ (instr.op \in {"ADD", "SRL"} => ~bit30)
    BY <1>8, <2>2, OpBits, Zenon
  <2>6. Rs1(ir) = A /\ Rs2(ir) = B /\ A \in Words /\ B \in Words
    BY <2>2, Before, Zenon DEF Rs1, Rs2
  <2>7. v = IF bit25 THEN MulDiv(f, A, B) ELSE Basic(f, TRUE, bit30, A, B)
    <3>1. IsReg(ir) = TRUE
      BY <2>4 DEF IsReg
    <3> QED BY <2>4, <2>6, <3>1, Zenon DEF Alu
  <2>8. bit30 \in BOOLEAN
    BY DEF Bit30
  <2> HIDE DEF v, bit25, bit30, f
  <2>9. Means(instr.op, A, B, v)
    <3>1. CASE instr.op \in MulDivOps
      BY <2>2, <2>5, <2>6, <2>7, <3>1, MulDivMeans
    <3>2. CASE instr.op \notin MulDivOps
      <4>1. v = Basic(IsaFunct3(instr.op), TRUE, bit30, A, B)
        BY <2>2, <2>5, <2>7, <3>2
      <4>2. instr.op \in {"SUB", "SRA", "SRAI"} => bit30
        BY <1>8, <2>1, <2>5, SMT DEF ImmediateOps, Shifts
      <4>3. instr.op \in {"ADD", "SRL", "SRLI"} => ~bit30
        BY <1>8, <2>1, <2>5, SMT DEF ImmediateOps, Shifts
      <4> QED BY <1>8, <2>6, <2>8, <3>2, <4>1, <4>2, <4>3, BasicMeans
    <3> QED BY <3>1, <3>2
  <2>10. IsResult(v)
    BY <1>4, <2>1, <2>9, Zenon DEF IsResult
  <2> QED BY <1>7, <2>1, <2>2, <2>10
<1>9. CASE instr.op \in ImmediateOps
  <2>1. Format(instr.op) = "I" /\ IsaOpcode(instr.op) = 19 /\ instr.op \notin RegisterOps
    <3>1. Format(instr.op) = "I" <=> instr.op \in {"JALR", "FENCE"} \cup Loads \cup ImmediateOps
      BY InstrType, Groups
    <3>2. IsaOpcode(instr.op) = 19
      BY <1>9, InstrType, Groups
    <3>3. instr.op \notin RegisterOps
      BY <1>9, SMT DEF RegisterOps, MulDivOps, ImmediateOps, Shifts
    <3> QED BY <1>9, <3>1, <3>2, <3>3
  <2> DEFINE bit30 == Bit30(ir)
             f == Funct3(ir)
             c == Cut(instr.imm)
  <2>2. /\ Rd(ir) = instr.rd /\ f = IsaFunct3(instr.op)
        /\ Bits(ir, 19, 15) = instr.rs1 /\ ImmediateI(ir) = instr.imm
        /\ IsReg(ir) = ((IsaOpcode(instr.op) \div 32) % 2 = 1)
        /\ bit30 = ((instr.imm \div 2^10) % 2 = 1)
    BY <2>1, DecodeI, ZenonT(60) DEF Ready
  <2>3. (19 \div 32) % 2 # 1
    BY SMT
  <2>4. ~IsReg(ir)
    BY <2>1, <2>2, <2>3, Zenon
  <2>5. /\ (instr.op = "SRAI" => bit30) /\ (instr.op = "SRLI" => ~bit30)
    <3> DEFINE i == instr.imm
    <3>1. HasImmediate(instr) /\ i \in Int
      BY InstrType
    <3>2. ASSUME instr.op = "SRAI" PROVE bit30
      <4>1. i - 2^10 \in 0 .. 31
        BY <2>1, <3>1, <3>2, SMT DEF HasImmediate, Shifts
      <4> HIDE DEF i
      <4>2. (i \div 2^10) % 2 = 1
        BY <3>1, <4>1, SMT
      <4> QED BY <2>2, <4>2 DEF i
    <3>3. ASSUME instr.op = "SRLI" PROVE ~bit30
      <4>1. i \in 0 .. 31
        BY <2>1, <3>1, <3>3, SMT DEF HasImmediate, Shifts
      <4> HIDE DEF i
      <4>2. (i \div 2^10) % 2 # 1
        BY <3>1, <4>1, SMT
      <4> QED BY <2>2, <4>2 DEF i
    <3> QED BY <3>2, <3>3
  <2>6. Rs1(ir) = A /\ A \in Words /\ c \in Words
    <3>1. c \in Words
      BY InstrType, CutIs
    <3> QED BY <2>2, <3>1, Before, Zenon DEF Rs1
  <2>7. v = Basic(f, FALSE, bit30, A, c)
    <3>1. IsReg(ir) = FALSE
      BY <2>4 DEF IsReg
    <3>2. b = c
      BY <1>1, <2>2, <2>4
    <3> QED BY <2>4, <2>6, <3>1, <3>2, Zenon DEF Alu
  <2>8. bit30 \in BOOLEAN
    BY DEF Bit30
  <2> HIDE DEF v, bit30, f, c
  <2>9. Means(instr.op, A, c, v)
    <3>1. v = Basic(IsaFunct3(instr.op), FALSE, bit30, A, c)
      BY <2>2, <2>7
    <3>2. instr.op \in {"SUB", "SRA", "SRAI"} => bit30
      BY <1>9, <2>5, SMT DEF ImmediateOps, Shifts
    <3>3. instr.op \in {"ADD", "SRL", "SRLI"} => ~bit30
      BY <1>9, <2>5, SMT DEF ImmediateOps, Shifts
    <3> QED BY <1>9, <2>1, <2>6, <2>8, <3>1, <3>2, <3>3, BasicMeans
  <2>10. IsResult(v)
    BY <1>4, <2>1, <2>9, Zenon DEF IsResult, c
  <2> QED BY <1>1, <1>7, <2>2, <2>10
<1> QED BY <1>3, <1>8, <1>9

\* An AMO leaves what is to hold.
LEMMA AmoStep ==
  ASSUME Ready, Amo
  PROVE  Right'
<1> DEFINE ir == Encode(instr)
           o == Offset(Rs1(ir))
           n == Irmid(ir)
           old == LoadBytes(mem, At, 4)
           x == Combined(n, old, B)
<1>1. Fetched /\ Opcode(ir) = 47 /\ imm' = imm /\ bus' = bus
  BY DEF Amo
<1>2. Opcode(ir) = IsaOpcode(instr.op)
  BY Decoded
<1>3. instr.op \in AmoOps
  BY <1>1, <1>2, InstrType, Groups
<1>4. Format(instr.op) = "R"
  <2>1. Format(instr.op) = "R" <=> instr.op \in {"NONE"} \cup RegisterOps \cup AmoOps
    BY InstrType, Groups
  <2> QED BY <1>3, <2>1
<1>5. /\ Rd(ir) = instr.rd /\ n = (IsaFunct7(instr.op) \div 4) % 32
      /\ Bits(ir, 19, 15) = instr.rs1 /\ Bits(ir, 24, 20) = instr.rs2
  BY <1>4, DecodeR, ZenonT(60) DEF Ready
<1>6. Rs1(ir) = A /\ Rs2(ir) = B /\ A \in Words /\ B \in Words
  BY <1>5, Before, Zenon DEF Rs1, Rs2
<1>7. Address = A /\ At = Offset(A)
  <2>1. A + 0 = A /\ Cut(A) = A
    <3>1. A \in Int /\ 0 <= A /\ A < Word
      BY <1>6, WordIs
    <3> QED BY <3>1, WordBound, SMT DEF Cut
  <2>2. Address = A
    BY <1>3, <2>1, Zenon DEF Address
  <2> QED BY <2>2, Zenon DEF At
<1>8. \/ OutsideRam(At) /\ mem' = mem /\ Retire(8, Rd(ir), Address, pc)
      \/ ~OutsideRam(At) /\ n \notin Supported /\ mem' = mem /\ Retire(3, Rd(ir), old, pc)
      \/ ~OutsideRam(At) /\ n \in Supported /\ mem' = StoreBytes(mem, At, 4, x) /\ Retire(0, Rd(ir), old, pc)
  BY <1>6, <1>7, Zenon DEF Amo
<1> HIDE DEF ir, o, n
<1>9. /\ instr.op \notin Branches \cup Loads \cup {"FENCE"} \cup Stores \cup {"B2", "NONE"}
      /\ instr.op \notin {"L3", "S3", "LUI", "AUIPC", "JAL", "JALR"}
      /\ instr.op \notin RegisterOps \cup ImmediateOps
  BY <1>3, SMT DEF Loads, Branches, Stores, AmoOps, RegisterOps, MulDivOps, ImmediateOps, Shifts
<1>10. (OutsideRam(At) <=> ~InMemory) /\ mem \in Memories /\ was.mem = mem /\ was.pc = pc
  BY Outside, Before DEF Ready
<1>11. /\ instr' = instr /\ was' = was
       /\ A' = A /\ B' = B /\ Address' = Address /\ At' = At /\ (InMemory' <=> InMemory)
  <2>1. instr' = instr /\ was' = was
    BY <1>8 DEF Retire
  <2> QED BY <2>1, Kept
<1>12. n \notin Supported <=> instr.op = "AMO5"
  <2> DEFINE g == IsaFunct7(instr.op)
  <2>1. \/ instr.op = "AMO5" /\ g = 20
        \/ /\ instr.op # "AMO5" /\ g \in Int
           /\ (g = 0 \/ g = 4 \/ g = 16 \/ g = 32 \/ g = 48
                \/ g + 64 = 0 \/ g + 48 = 0 \/ g + 32 = 0 \/ g + 16 = 0)
    <3>1. CASE instr.op \in {"AMO5", "AMOADD", "AMOSWAP", "AMOXOR", "AMOOR", "AMOAND"}
      <4>1. instr.op = "AMO5" => g = 20
        BY SMT DEF IsaFunct7, MulDivOps
      <4>2. instr.op = "AMOADD" => g = 0
        BY SMT DEF IsaFunct7, MulDivOps
      <4>3. instr.op \in {"AMOSWAP", "AMOXOR", "AMOOR", "AMOAND"} => g = 4 \/ g = 16 \/ g = 32 \/ g = 48
        BY SMT DEF IsaFunct7, MulDivOps
      <4> HIDE DEF g
      <4> QED BY <3>1, <4>1, <4>2, <4>3, SMT
    <3>2. CASE instr.op = "AMOMIN"
      BY <3>2, SMT DEF IsaFunct7, MulDivOps
    <3>3. CASE instr.op = "AMOMAX"
      BY <3>3, SMT DEF IsaFunct7, MulDivOps
    <3>4. CASE instr.op = "AMOMINU"
      BY <3>4, SMT DEF IsaFunct7, MulDivOps
    <3>5. CASE instr.op = "AMOMAXU"
      BY <3>5, SMT DEF IsaFunct7, MulDivOps
    <3> QED BY <1>3, <3>1, <3>2, <3>3, <3>4, <3>5, SMT DEF AmoOps
  <2> HIDE DEF g
  <2>2. (g \div 4) % 32 \notin Supported <=> instr.op = "AMO5"
    BY <2>1, SMT DEF Supported
  <2> QED BY <1>5, <2>2 DEF g
<1>13. Offset(pc) % 4 = 0 /\ Offset(pc) < RamSize
  BY <1>1 DEF Fetched
<1>14. Destination = instr.rd
  BY <1>9, Zenon DEF Destination
<1>15. Cut(pc + 4) = Successor
  <2>1. ~Jumps(instr.op, A, B)
    BY <1>3, SMT DEF Jumps, AmoOps
  <2> QED BY <2>1, Before, Zenon DEF Successor
<1>16. 0 \notin {1, 2} /\ 0 # 6 /\ 0 # 8 /\ 0 # 3 /\ 8 \notin {1, 2} /\ 8 # 6 /\ 8 # 3 /\ 3 \notin {1, 2} /\ 3 # 6 /\ 3 # 8
  BY SMT
<1>17. CASE ~InMemory
  <2>1. Retire(8, Rd(ir), Address, pc) /\ mem' = mem
    BY <1>8, <1>10, <1>17
  <2>2. IsCause(8)
    BY <1>3, <1>9, <1>10, <1>13, <1>16, <1>17, Zenon DEF IsCause
  <2>3. 8 # 0 /\ 8 \in {1, 2, 3, 6, 8}
    BY SMT
  <2>4. ResultExact' /\ trap' # 0
    BY <2>1, <2>3 DEF ResultExact, Retire
  <2>5. TrapExact'
    BY <1>1, <2>1, <2>2, <2>3, Trapped
  <2>6. StoresOnlyItsBytes'
    BY <1>1, <1>11, <2>1, <2>4, NoStore
  <2> QED BY <2>4, <2>5, <2>6 DEF Right
<1>18. CASE InMemory /\ instr.op = "AMO5"
  <2>1. Retire(3, Rd(ir), old, pc) /\ mem' = mem
    BY <1>8, <1>10, <1>12, <1>18
  <2>2. IsCause(3)
    BY <1>9, <1>10, <1>13, <1>16, <1>18, Zenon DEF IsCause
  <2>3. 3 # 0 /\ 3 \in {1, 2, 3, 6, 8} /\ 3 \notin {6, 8}
    BY SMT
  <2>4. ResultExact' /\ trap' # 0
    BY <2>1, <2>3 DEF ResultExact, Retire
  <2>5. TrapExact'
    BY <1>1, <2>1, <2>2, <2>3, Trapped
  <2>6. StoresOnlyItsBytes'
    BY <1>1, <1>11, <2>1, <2>4, NoStore
  <2> QED BY <2>4, <2>5, <2>6 DEF Right
<1>19. CASE InMemory /\ instr.op # "AMO5"
  <2> DEFINE m == StoreBytes(mem, At, 4, x)
  <2>1. Retire(0, Destination, old, pc) /\ mem' = m /\ trap' = 0
    BY <1>5, <1>8, <1>10, <1>12, <1>14, <1>19 DEF Retire
  <2>2. At \in Int /\ 0 <= At /\ At + 3 < RamSize
    BY <1>19, Before DEF InMemory
  <2>3. old \in Words
    BY <1>10, <2>2, LoadIs
  <2>4. x \in Words /\ AmoMeans(instr.op, old, B, x)
    BY <1>3, <1>5, <1>6, <1>19, <2>3, CombinedMeans
  <2> HIDE DEF x
  <2>5. LoadBytes(m, At, 4) = x
    BY <1>10, <2>2, <2>4, StoredIs
  <2>6. \A k \in DOMAIN m \ (At .. At + 4 - 1) : m[k] = mem[k]
    BY <1>10, StoreRest
  <2> HIDE DEF m
  <2>7. IsCause(0)
    BY <1>9, <1>10, <1>13, <1>16, <1>19, Zenon DEF IsCause
  <2>8. TrapExact'
    BY <2>1, <2>7, Trapped
  <2>9. IsResult(old)
    BY <1>9, <1>10, Zenon DEF IsResult
  <2>10. ResultExact'
    BY <1>4, <1>15, <2>1, <2>9, Finish
  <2>11. StoresOnlyItsBytes'
    <3>1. Width(instr.op) = 4
      BY <1>3, SMT DEF Width, AmoOps
    <3> QED BY <1>1, <1>3, <1>9, <1>10, <1>11, <1>19, <2>1, <2>4, <2>5, <2>6, <3>1, Before, Zenon DEF StoresOnlyItsBytes, Ready
  <2> QED BY <2>8, <2>10, <2>11 DEF Right
<1> QED BY <1>17, <1>18, <1>19

-----------------------------------------------------------------------------
(* The theorems.                                                           *)

\* The state before a word that is any, and what is to hold after it.
AtRest == trap = 0 /\ bus = {} /\ was = [regs |-> regs, mem |-> mem, pc |-> pc]
ReadyWord == instr \in AnyWord /\ AtRest
RightWord == instr \in AnyWord /\ TrapLeavesNoTrace

\* The end of a turn that changes no memory and no device, or that does not trap,
\* leaves no trace of a trap.
LEMMA WordRetires ==
  ASSUME ReadyWord, NEW cause, NEW rd, NEW v, NEW t, Retire(cause, rd, v, t),
         cause # 0 => mem' = mem /\ bus' = bus /\ t = pc /\ cause \in {1, 2, 3, 6, 8}
  PROVE  RightWord'
<1>1. /\ instr' = instr /\ was' = was /\ trap' = cause
      /\ rval' = IF cause = 0 \/ cause \in 6 .. 8 THEN v ELSE t
      /\ (cause # 0 => regs' = regs /\ pc' = t)
  BY DEF Retire
<1>2. instr.op = "WORD"
  BY DEF ReadyWord, AnyWord
<1>3. ASSUME cause # 0
      PROVE  /\ regs' = was.regs /\ mem' = was.mem /\ bus' = {} /\ pc' = was.pc
             /\ cause \notin {6, 8} => rval' = was.pc
  <2>1. cause \in 6 .. 8 <=> cause \in {6, 8}
    BY <1>3, SMT
  <2> QED BY <1>1, <1>3, <2>1 DEF ReadyWord, AtRest
<1>4. TrapLeavesNoTrace'
  BY <1>1, <1>2, <1>3 DEF TrapLeavesNoTrace
<1> QED BY <1>1, <1>4 DEF ReadyWord, RightWord

\* Whatever word is fetched, and whichever case of the switch takes it, a trap
\* leaves no trace.
LEMMA WordStep ==
  ASSUME ReadyWord, Next
  PROVE  RightWord'
<1>1. CASE FetchFault
  <2>1. PICK c \in {1, 2} : Retire(c, 0, 0, pc)
    BY <1>1 DEF FetchFault
  <2> QED BY <1>1, <2>1, WordRetires DEF FetchFault
<1>2. CASE Upper
  <2>1. \E rd, v, t : Retire(0, rd, v, t)
    BY <1>2 DEF Upper
  <2> QED BY <2>1, WordRetires
<1>3. CASE Jal
  <2>1. \E rd, v, t : Retire(0, rd, v, t)
    BY <1>3 DEF Jal
  <2> QED BY <2>1, WordRetires
<1>4. CASE Jalr
  <2>1. \E rd, v, t : Retire(0, rd, v, t)
    BY <1>4 DEF Jalr
  <2> QED BY <2>1, WordRetires
<1>5. CASE Branch
  <2>1. Retire(3, 0, 0, pc) \/ \E t : Retire(0, 0, 0, t)
    BY <1>5 DEF Branch
  <2>2. mem' = mem /\ bus' = bus
    BY <1>5 DEF Branch
  <2> QED BY <2>1, <2>2, WordRetires
<1>6. CASE Load
  <2>1. \E rd, v : \E c \in {0, 3, 6} : Retire(c, rd, v, pc)
    BY <1>6 DEF Load
  <2>2. mem' = mem /\ bus' = bus
    BY <1>6 DEF Load
  <2> QED BY <2>1, <2>2, WordRetires
<1>7. CASE Store
  <2>1. \/ Retire(0, 0, 0, pc)
        \/ mem' = mem /\ bus' = bus /\ \E v : \E c \in {3, 8} : Retire(c, 0, v, pc)
    BY <1>7 DEF Store
  <2> QED BY <2>1, WordRetires
<1>8. CASE Op
  <2>1. \E rd, v, t : Retire(0, rd, v, t)
    BY <1>8 DEF Op
  <2> QED BY <2>1, WordRetires
<1>9. CASE FenceOrInvalid
  <2>1. \E rd : \E c \in {0, 3} : Retire(c, rd, 0, pc)
    BY <1>9 DEF FenceOrInvalid
  <2>2. mem' = mem /\ bus' = bus
    BY <1>9 DEF FenceOrInvalid
  <2> QED BY <2>1, <2>2, WordRetires
<1>10. CASE Amo
  <2>1. \/ \E rd, v : Retire(0, rd, v, pc)
        \/ mem' = mem /\ \E rd, v : \E c \in {3, 8} : Retire(c, rd, v, pc)
    BY <1>10 DEF Amo
  <2>2. bus' = bus
    BY <1>10 DEF Amo
  <2> QED BY <2>1, <2>2, WordRetires
<1> QED BY <1>1, <1>2, <1>3, <1>4, <1>5, <1>6, <1>7, <1>8, <1>9, <1>10 DEF Next

\* The inductive invariant: ready before the step, right after it.
IInv ==
  /\ done \in BOOLEAN
  /\ ~done => Ready \/ ReadyWord
  /\ done => Right \/ RightWord

\* What the machine starts with satisfies the inductive invariant.
LEMMA InitIInv == Init => IInv
<1> SUFFICES ASSUME Init PROVE IInv
  OBVIOUS
<1>1. PICK s \in Starts :
        /\ instr = s.instr /\ regs = s.regs /\ mem = s.mem /\ pc = s.pc
        /\ trap = 0 /\ bus = {} /\ done = FALSE
        /\ was = [regs |-> regs, mem |-> mem, pc |-> pc]
  BY DEF Init
<1>2. /\ s.instr \in Instructions \cup AnyWord /\ s.regs \in [Regs -> Words]
      /\ s.mem \in [Offsets -> 0 .. Byte - 1] /\ s.pc \in Words
  BY StartsAssumption
<1> QED BY <1>1, <1>2 DEF IInv, Ready, ReadyWord, AtRest, Memories

\* The one step of the machine preserves the inductive invariant.
LEMMA NextIInv == IInv /\ [Next]_vars => IInv'
<1> SUFFICES ASSUME IInv, [Next]_vars PROVE IInv'
  OBVIOUS
<1>1. ASSUME UNCHANGED vars PROVE IInv'
  BY <1>1 DEF vars, IInv, Ready, ReadyWord, AtRest, Right, RightWord, ResultExact, StoresOnlyItsBytes, TrapExact, TrapLeavesNoTrace,
     IsCause, IsResult, LoadMeans, HasResult, Successor, Target, InMemory, At, Address, A, B
<1>2. ASSUME Next PROVE IInv'
  <2>1. ~done /\ done' = TRUE
    BY <1>2 DEF Next, FetchFault, Fetched, Upper, Jal, Jalr, Branch, Load, Store, Op, FenceOrInvalid, Amo,
       Retire
  <2>2. Ready \/ ReadyWord
    BY <2>1 DEF IInv
  <2>3. ASSUME Ready PROVE Right'
    <3>1. CASE FetchFault
      BY <2>3, <3>1, FetchFaultStep
    <3>2. CASE Upper
      BY <2>3, <3>2, UpperStep
    <3>3. CASE Jal
      BY <2>3, <3>3, JalStep
    <3>4. CASE Jalr
      BY <2>3, <3>4, JalrStep
    <3>5. CASE Branch
      BY <2>3, <3>5, BranchStep
    <3>6. CASE Load
      BY <2>3, <3>6, LoadStep
    <3>7. CASE Store
      BY <2>3, <3>7, StoreStep
    <3>8. CASE Op
      BY <2>3, <3>8, OpStep
    <3>9. CASE FenceOrInvalid
      BY <2>3, <3>9, FenceOrInvalidStep
    <3>10. CASE Amo
      BY <2>3, <3>10, AmoStep
    <3> QED BY <1>2, <3>1, <3>2, <3>3, <3>4, <3>5, <3>6, <3>7, <3>8, <3>9, <3>10 DEF Next
  <2> QED BY <1>2, <2>1, <2>2, <2>3, WordStep DEF IInv
<1> QED BY <1>1, <1>2

\* The inductive invariant holds: before the instruction, and after it.
THEOREM SpecIInv == Spec => []IInv
  BY InitIInv, NextIInv, PTL DEF Spec

\* The inductive invariant contains the three properties.
LEMMA IInvRight == IInv => ResultIsIsa /\ StoresOnlyItsBytes /\ TrapLeavesNoTrace
<1>1. ASSUME Right PROVE ResultIsIsa /\ StoresOnlyItsBytes /\ TrapLeavesNoTrace
  <2>1. ResultExact /\ StoresOnlyItsBytes /\ TrapExact
    BY <1>1 DEF Right
  <2>2. ResultIsIsa
    BY <2>1, Zenon DEF ResultExact, TrapExact, ResultIsIsa
  <2>3. TrapLeavesNoTrace
    BY <2>1 DEF TrapExact, TrapLeavesNoTrace
  <2> QED BY <2>1, <2>2, <2>3
<1>2. ASSUME RightWord PROVE ResultIsIsa /\ StoresOnlyItsBytes /\ TrapLeavesNoTrace
  <2>1. instr.op = "WORD"
    BY <1>2 DEF RightWord, AnyWord
  <2> QED BY <1>2, <2>1, Zenon DEF RightWord, ResultIsIsa, StoresOnlyItsBytes
<1>3. ASSUME IInv, ~done PROVE ResultIsIsa /\ StoresOnlyItsBytes /\ TrapLeavesNoTrace
  BY <1>3, Zenon DEF ResultIsIsa, StoresOnlyItsBytes, TrapLeavesNoTrace
<1> QED BY <1>1, <1>2, <1>3 DEF IInv

\* Whatever the instruction, the shifts and masks of the switch give back the
\* fields and the immediate it was encoded from, those of an S, a branch or a
\* jump included, whose bits are scattered.
THEOREM DecodingUndoesEncoding ==
  \A i \in Instructions :
    LET ir == Encode(i)
    IN  /\ Opcode(ir) = IsaOpcode(i.op)
        /\ Format(i.op) \in {"R", "I", "U", "J"} => Rd(ir) = i.rd
        /\ Format(i.op) \in {"R", "I", "S", "B"} =>
              Funct3(ir) = IsaFunct3(i.op) /\ Bits(ir, 19, 15) = i.rs1
        /\ Format(i.op) \in {"R", "S", "B"} => Bits(ir, 24, 20) = i.rs2
        /\ Format(i.op) = "R" => Irmid(ir) = (IsaFunct7(i.op) \div 4) % 32
        /\ Format(i.op) = "I" => ImmediateI(ir) = i.imm
        /\ Format(i.op) = "S" => ImmediateS(ir) = i.imm
        /\ Format(i.op) = "B" => ImmediateB(ir) = i.imm
        /\ Format(i.op) = "U" => ImmediateU(ir) = i.imm
        /\ Format(i.op) = "J" => ImmediateJ(ir) = i.imm
<1> TAKE i \in Instructions
<1> DEFINE ir == Encode(i)
<1>1. CASE Format(i.op) = "R"
  BY <1>1, DecodeR
<1>2. CASE Format(i.op) = "I"
  BY <1>2, DecodeI
<1>3. CASE Format(i.op) = "S"
  BY <1>3, DecodeS
<1>4. CASE Format(i.op) = "B"
  BY <1>4, DecodeB
<1>5. CASE Format(i.op) = "U"
  BY <1>5, DecodeU
<1>6. CASE Format(i.op) = "J"
  BY <1>6, DecodeJ
<1>7. Format(i.op) \in {"R", "I", "S", "B", "U", "J"}
  BY IsaFields DEF Instructions
<1> QED BY <1>1, <1>2, <1>3, <1>4, <1>5, <1>6, <1>7

\* For a byte of 256 values and every word: a mnemonic takes the trap it is to
\* take and no other, and without one it has the result it names, with the
\* immediate out of its scattered bits, the one register written, and the pc at
\* the target or the next one; jumps to an address that is no multiple of 4 are
\* left out, which the code makes and the ISA does not.
THEOREM ResultIsIsaHolds == Spec => []ResultIsIsa
  BY SpecIInv, IInvRight, PTL

\* A store or an AMO changes the bytes of its width and no others, and a device
\* gets the register once.
THEOREM StoresOnlyItsBytesHolds == Spec => []StoresOnlyItsBytes
  BY SpecIInv, IInvRight, PTL

\* Whatever the 32 bits that were fetched, a trap leaves registers, memory and
\* devices as they were, and mepc and mtval are right.
THEOREM TrapLeavesNoTraceHolds == Spec => []TrapLeavesNoTrace
  BY SpecIInv, IInvRight, PTL
=============================================================================
