------------------------------ MODULE MCMipsSim ------------------------------
EXTENDS MipsSim

I(o, s, t, d, m) == [op |-> o, rs |-> s, rt |-> t, rd |-> d, imm |-> m]
Run(p, a, b) == [program |-> p, first |-> a, second |-> b]

Operands == {0, 1, 2, 3, 5, 16, 63, 64, 85, 127, 128, 129, 170, 192, 250, 254, 255}
Immediates == {0, 1, 7, 8, 15}

(* One instruction on every pair of operands.                               *)
TwoOperands == {"ADD", "ADDU", "SUB", "SUBU", "AND", "OR", "NOR", "XOR", "SLT", "SLTU",
                "MULT", "MULTU", "DIV", "DIVU", "MTHI", "MTLO", "BEQ", "BNE"}
VariableShifts == {"SLLV", "SRAV", "SRLV"}
Pairs == {Run(<<I(o, 1, 2, 3, 3)>>, a, b) : o \in TwoOperands \cup VariableShifts,
                                            a \in Operands, b \in Operands}

WithImmediate == {"ADDI", "ADDIU", "ANDI", "ORI", "XORI", "LUI", "SLTI", "SLTIU",
                  "BGEZ", "BGEZAL", "BLTZ", "BLTZAL", "BGTZ", "BLEZ"}
Shifts == {"SLL", "SRA", "SRL"}
Single == {Run(<<I(o, 1, 3, 0, m)>>, a, 0) : o \in WithImmediate, a \in Operands, m \in Immediates}
          \cup {Run(<<I(o, 0, 1, 3, m)>>, a, 0) : o \in Shifts, a \in Operands, m \in 0 .. 7}
          \cup {Run(<<I(o, 0, 0, 0, 0)>>, 1, 2) : o \in {"RES", "UNIMP"}}

(* A store and loads behind it, with a system call or a write of register 0 *)
(* in the delay slot, and a jump into the middle of it.                     *)
Memory ==
    {Run(<<I(st, 1, 2, 0, 0), I(ld, 1, 2, 0, off), I("SYSCALL", 0, 0, 0, 0)>>, a, b) :
        st \in {"SB", "SH", "SW", "SWL", "SWR"}, ld \in LoadOps, off \in {0, 1},
        a \in {0, 3, 4}, b \in {27, 228}}
Merged ==
    {Run(<<I("LWL", 1, 3, 0, 0), I("LWR", 1, 3, 0, 4), I("LW", 1, 0, 0, 0),
           I("ADDI", 3, 0, 0, 0), I("MFLO", 0, 0, 3, 0)>>, 0, b) : b \in {1}}
Jumps ==
    {Run(<<I(j, 1, 0, 4, 4), I("ADDIU", 0, 2, 0, 5), I("LW", 0, 3, 0, 4), I("MFHI", 0, 0, 2, 0),
           I("MULT", 2, 3, 0, 0)>>, a, 0) : j \in JumpOps, a \in {3, 4}}

AllStarts == Pairs \cup Single \cup Memory \cup Merged \cup Jumps
=============================================================================
