------------------------------- MODULE MipsIsa -------------------------------
(***************************************************************************)
(* What a user program may expect of the processor (Kane's book, which     *)
(* machine/mipssim.cc cites), on integers: an instruction takes effect as  *)
(* a whole and at once, whatever traps and interrupts there are.           *)
(* Words have W bits, half words and immediates half of that, bytes a      *)
(* quarter.  An address of code is the number of an instruction.           *)
(***************************************************************************)
EXTENDS Integers, FiniteSetsExt

CONSTANTS
    W,                \* bits in a word, a multiple of four
    Registers, R31,   \* numbers of the registers; the one of return addresses
    V0,               \* the register of system call numbers and results
    Faulty            \* instructions that may do anything in their hard cases

VARIABLES
    program,          \* the instructions, from 1
    reg, hi, lo, mem, pc, nextPc,
    seen,             \* what the kernel found in V0 on the last system call
    status            \* "run", or "halted" after an exception

isaVars == <<program, reg, hi, lo, mem, pc, nextPc, seen, status>>

Byte == 2 ^ (W \div 4)
Half == 2 ^ (W \div 2)
ToWord(n) == n % 2 ^ W
Signed(x) == IF x >= 2 ^ (W - 1) THEN x - 2 ^ W ELSE x
Immediate(i) == IF i.imm >= Half \div 2 THEN i.imm - Half ELSE i.imm
InRange(n) == n \in -(2 ^ (W - 1)) .. 2 ^ (W - 1) - 1

Bits(x) == {i \in 0 .. W - 1 : (x \div 2 ^ i) % 2 = 1}
FromBits(B) == MapThenSumSet(LAMBDA i : 2 ^ i, B)
Truth(b) == IF b THEN 1 ELSE 0

(* Instructions that set a register from a, the register rs, and b, rt.     *)
Value(i, a, b) ==
    CASE i.op \in {"ADD", "ADDU"}   -> ToWord(a + b)
      [] i.op \in {"ADDI", "ADDIU"} -> ToWord(a + Immediate(i))
      [] i.op \in {"SUB", "SUBU"}   -> ToWord(a - b)
      [] i.op = "AND"   -> FromBits(Bits(a) \cap Bits(b))
      [] i.op = "ANDI"  -> FromBits(Bits(a) \cap Bits(i.imm))
      [] i.op = "OR"    -> FromBits(Bits(a) \cup Bits(b))
      [] i.op = "ORI"   -> FromBits(Bits(a) \cup Bits(i.imm))
      [] i.op = "NOR"   -> FromBits((0 .. W - 1) \ (Bits(a) \cup Bits(b)))
      [] i.op = "XOR"   -> FromBits((Bits(a) \cup Bits(b)) \ (Bits(a) \cap Bits(b)))
      [] i.op = "XORI"  -> FromBits((Bits(a) \cup Bits(i.imm)) \ (Bits(a) \cap Bits(i.imm)))
      [] i.op = "LUI"   -> ToWord(i.imm * Half)
      [] i.op = "SLT"   -> Truth(Signed(a) < Signed(b))
      [] i.op = "SLTU"  -> Truth(a < b)
      [] i.op = "SLTI"  -> Truth(Signed(a) < Immediate(i))
      [] i.op = "SLTIU" -> Truth(a < ToWord(Immediate(i)))
      [] i.op = "SLL"   -> ToWord(b * 2 ^ i.imm)
      [] i.op = "SLLV"  -> ToWord(b * 2 ^ (a % W))
      [] i.op = "SRA"   -> ToWord(Signed(b) \div 2 ^ i.imm)
      [] i.op = "SRAV"  -> ToWord(Signed(b) \div 2 ^ (a % W))
      [] i.op = "SRL"   -> b \div 2 ^ i.imm
      [] i.op = "SRLV"  -> b \div 2 ^ (a % W)
      [] i.op = "MFHI"  -> hi
      [] i.op = "MFLO"  -> lo

ThreeReg == {"ADD", "ADDU", "SUB", "SUBU", "AND", "OR", "NOR", "XOR", "SLT", "SLTU",
             "SLL", "SLLV", "SRA", "SRAV", "SRL", "SRLV", "MFHI", "MFLO"}
TwoReg == {"ADDI", "ADDIU", "ANDI", "ORI", "XORI", "LUI", "SLTI", "SLTIU"}

Overflows(i, a, b) ==
    \/ i.op = "ADD" /\ ~InRange(Signed(a) + Signed(b))
    \/ i.op = "ADDI" /\ ~InRange(Signed(a) + Immediate(i))
    \/ i.op = "SUB" /\ ~InRange(Signed(a) - Signed(b))

(* Where those of Faulty are let off: OR with a bit that only rt has, the   *)
(* logical shift of a negative word, the quotient that no word holds.       *)
Hard(i, a, b) ==
    \/ i.op = "OR" /\ ~(Bits(b) \subseteq Bits(a))
    \/ i.op \in {"SRL", "SRLV"} /\ Signed(b) < 0
    \/ i.op = "DIV" /\ Signed(a) = -(2 ^ (W - 1)) /\ Signed(b) = -1
Free(i, a, b) == i.op \in Faulty /\ Hard(i, a, b)

(* The double word, and the quotient and remainder, of two words.           *)
Product(i, a, b) == (IF i.op = "MULT" THEN Signed(a) * Signed(b) ELSE a * b) % 2 ^ (2 * W)
Abs(n) == IF n < 0 THEN -n ELSE n
IsQuotient(q, r, a, b) == a = q * b + r /\ Abs(r) < Abs(b) /\ r * a >= 0

Taken(i, a, b) ==
    CASE i.op = "BEQ" -> a = b
      [] i.op = "BNE" -> a # b
      [] i.op \in {"BGEZ", "BGEZAL"} -> Signed(a) >= 0
      [] i.op \in {"BLTZ", "BLTZAL"} -> Signed(a) < 0
      [] i.op = "BGTZ" -> Signed(a) > 0
      [] i.op = "BLEZ" -> Signed(a) <= 0
      [] i.op \in {"J", "JAL", "JR", "JALR"} -> TRUE
Branches == {"BEQ", "BNE", "BGEZ", "BGEZAL", "BLTZ", "BLTZAL", "BGTZ", "BLEZ",
             "J", "JAL", "JR", "JALR"}
Target(i, a) == CASE i.op \in {"J", "JAL"} -> i.imm
                  [] i.op \in {"JR", "JALR"} -> a
                  [] OTHER -> nextPc + Immediate(i)
Links == {"BGEZAL", "BLTZAL", "JAL", "JALR"}

(* The bytes an access touches, lowest first; LWL, LWR, SWL and SWR are     *)
(* only implemented at the start of a word, in the big-endian meaning.      *)
Loads == {"LB", "LBU", "LH", "LHU", "LW", "LWL", "LWR"}
Stores == {"SB", "SH", "SW", "SWL", "SWR"}
Size(i) == CASE i.op \in {"LB", "LBU", "SB"} -> 1
             [] i.op \in {"LH", "LHU", "SH"} -> 2
             [] OTHER -> 4
Aligned(i, addr) == addr % Size(i) = 0
Cells(i, addr) == IF i.op \in {"LWR", "SWR"} THEN {addr + 3} ELSE addr .. addr + Size(i) - 1
Content(C) == MapThenSumSet(LAMBDA x : mem[x] * Byte ^ (x - Min(C)), C)
Extended(n, limit) == IF n >= limit \div 2 THEN ToWord(n - limit) ELSE n
Loaded(i, addr, old) ==
    LET n == Content(Cells(i, addr)) IN
    CASE i.op = "LB"  -> Extended(n, Byte)
      [] i.op = "LH"  -> Extended(n, Half)
      [] i.op = "LWR" -> old - (old % Byte) + n
      [] OTHER        -> n

Set(r, v) == reg' = [reg EXCEPT ![r] = IF r = 0 THEN 0 ELSE v]
Go(target) == pc' = nextPc /\ nextPc' = target
Halt == status' = "halted" /\ UNCHANGED <<program, reg, hi, lo, mem, pc, nextPc, seen>>

(* A result that is left open, or the end of the machine for that of DIV.   *)
OpenResult(i) ==
    IF i.op = "DIV" THEN \/ Halt
                         \/ Go(nextPc + 1) /\ UNCHANGED <<reg, mem, seen, status>>
    ELSE /\ Set(i.rd, reg'[i.rd])
         /\ Go(nextPc + 1)
         /\ UNCHANGED <<hi, lo, mem, seen, status>>

(* The instruction at pc.                                                   *)
Step ==
    LET i == program[pc]
        a == reg[i.rs]
        b == reg[i.rt]
        addr == ToWord(a + Immediate(i))
    IN
    /\ status = "run" /\ pc \in DOMAIN program
    /\ UNCHANGED program
    /\ \/ Free(i, a, b) /\ OpenResult(i)
       \/ /\ i.op \in ThreeReg \cup TwoReg /\ ~Overflows(i, a, b)
          /\ Set(IF i.op \in ThreeReg THEN i.rd ELSE i.rt, Value(i, a, b))
          /\ Go(nextPc + 1)
          /\ UNCHANGED <<hi, lo, mem, seen, status>>
       \/ Overflows(i, a, b) /\ Halt
       \/ /\ i.op \in {"MTHI", "MTLO"}
          /\ hi' = (IF i.op = "MTHI" THEN a ELSE hi)
          /\ lo' = (IF i.op = "MTLO" THEN a ELSE lo)
          /\ Go(nextPc + 1)
          /\ UNCHANGED <<reg, mem, seen, status>>
       \/ /\ i.op \in {"MULT", "MULTU"}
          /\ hi' = Product(i, a, b) \div 2 ^ W
          /\ lo' = Product(i, a, b) % 2 ^ W
          /\ Go(nextPc + 1)
          /\ UNCHANGED <<reg, mem, seen, status>>
       \/ /\ i.op \in {"DIV", "DIVU"}
          /\ b # 0 /\ ~Hard(i, a, b) => IF i.op = "DIV"
                      THEN IsQuotient(Signed(lo'), Signed(hi'), Signed(a), Signed(b))
                      ELSE IsQuotient(lo', hi', a, b)
          /\ Go(nextPc + 1)
          /\ UNCHANGED <<reg, mem, seen, status>>
       \/ /\ i.op \in Branches
          /\ IF i.op \in Links THEN Set(IF i.op = "JALR" THEN i.rd ELSE R31, ToWord(nextPc + 1))
                               ELSE UNCHANGED reg
          /\ Go(IF Taken(i, a, b) THEN Target(i, a) ELSE nextPc + 1)
          /\ UNCHANGED <<hi, lo, mem, seen, status>>
       \/ /\ i.op \in Loads /\ Aligned(i, addr)
          /\ Set(i.rt, Loaded(i, addr, b))
          /\ Go(nextPc + 1)
          /\ UNCHANGED <<hi, lo, mem, seen, status>>
       \/ /\ i.op \in Stores /\ Aligned(i, addr)
          /\ mem' = [x \in DOMAIN mem |-> IF x \in Cells(i, addr)
                                          THEN (b \div Byte ^ (x - Min(Cells(i, addr)))) % Byte
                                          ELSE mem[x]]
          /\ Go(nextPc + 1)
          /\ UNCHANGED <<reg, hi, lo, seen, status>>
       \/ i.op \in Loads \cup Stores /\ ~Aligned(i, addr) /\ Halt
       \/ i.op \in {"RES", "UNIMP"} /\ Halt
       \/ /\ i.op = "SYSCALL"
          /\ seen' = reg[V0]
          /\ reg' = [reg EXCEPT ![V0] = reg'[V0]]
          /\ Go(nextPc + 1)
          /\ UNCHANGED <<hi, lo, mem, status>>

Spec == [][Step]_isaVars
=============================================================================
