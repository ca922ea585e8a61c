------------------------------- MODULE MipsSim -------------------------------
(***************************************************************************)
(* The simulated processor (machine/mipssim.cc, with the memory accesses   *)
(* of translate.cc and the traps of machine.cc) as one user thread sees    *)
(* it.  A load takes effect one instruction late: OneInstruction leaves it *)
(* in LoadReg and LoadValueReg, and DelayedLoad carries it out at the end  *)
(* of the next instruction or, so that the kernel sees the registers       *)
(* settled, on a trap or interrupt before that.  A faulting instruction is *)
(* started again from scratch.                                             *)
(* Words have W bits (32 in the code), half words and immediates W \div 2, *)
(* bytes W \div 4.  Registers hold words; C's int is Signed of one.  An    *)
(* instruction is a record [op, rs, rt, rd, imm] and addresses of code are *)
(* numbers of instructions, not of bytes.                                  *)
(***************************************************************************)
EXTENDS Integers, Sequences, Bitwise

CONSTANTS
    W, Registers, R31, V0,
    MemorySize,       \* bytes of data memory
    ReturnValues,     \* results the kernel may give a system call
    Starts            \* programs to run: [program, first, second]

VARIABLES
    program, reg, hi, lo, mem, pc, nextPc,
    loadReg, loadValue,     \* LoadReg, LoadValueReg: the load still to be done
    seen,                   \* ghost: V0 when the kernel last looked at it
    status                  \* "run", or "halted" by the kernel

vars == <<program, reg, hi, lo, mem, pc, nextPc, loadReg, loadValue, seen, status>>

WordSize == 2 ^ W
SIGN_BIT == 2 ^ (W - 1)
HalfSize == 2 ^ (W \div 2)
ByteSize == 2 ^ (W \div 4)
ToWord(n) == n % WordSize
Signed(x) == IF x & SIGN_BIT # 0 THEN x - WordSize ELSE x
Invert(x) == WordSize - 1 - x                       \* C's ~

(* What the compilers guarantee: the instruction after a load does not use  *)
(* the register loaded, except a system call and the second half of an      *)
(* unaligned load; a load is not in the delay slot of a branch; a link      *)
(* register is not the one tested.                                          *)
LoadOps == {"LB", "LBU", "LH", "LHU", "LW", "LWL", "LWR"}
BranchOps == {"BEQ", "BNE", "BGEZ", "BGEZAL", "BLTZ", "BLTZAL", "BGTZ", "BLEZ"}
JumpOps == {"J", "JAL", "JR", "JALR"}
WellScheduled(p) ==
    /\ \A n \in 1 .. Len(p) - 1 :
          /\ p[n].op \in LoadOps /\ p[n].rt # 0 =>
                \/ p[n].rt \notin {p[n + 1].rs, p[n + 1].rt, p[n + 1].rd}
                \/ p[n + 1].op = "SYSCALL"
                \/ p[n + 1].op \in {"LWL", "LWR"} /\ p[n].rt \notin {p[n + 1].rs, p[n + 1].rd}
          /\ p[n].op \in BranchOps \cup JumpOps => p[n + 1].op \notin LoadOps
    /\ \A n \in 1 .. Len(p) :
          /\ p[n].op \in {"BGEZAL", "BLTZAL"} => p[n].rs # R31
          /\ p[n].op = "JALR" => p[n].rs # p[n].rd
ASSUME StartsAssumption == \A s \in Starts : WellScheduled(s.program)

(* Registers 1 and 2 hold the operands; memory is filled with its own       *)
(* addresses so that a wrong byte shows.                                    *)
Init ==
    /\ \E s \in Starts :
          /\ program = s.program
          /\ reg = [r \in Registers |-> CASE r = 1 -> s.first [] r = 2 -> s.second [] OTHER -> 0]
    /\ mem = [x \in 0 .. MemorySize - 1 |-> (x + 1) % ByteSize]
    /\ hi = 0 /\ lo = 0
    /\ pc = 1 /\ nextPc = 2
    /\ loadReg = 0 /\ loadValue = 0
    /\ seen = 0 /\ status = "run"

-----------------------------------------------------------------------------
(* The parts every instruction uses.                                        *)

(* Decode: the immediate of an I-format instruction is sign-extended, the   *)
(* shift amount and the target of a jump are not.                           *)
RFormat == {"ADD", "ADDU", "AND", "DIV", "DIVU", "JALR", "JR", "MFHI", "MFLO", "MTHI", "MTLO",
            "MULT", "MULTU", "NOR", "OR", "SLL", "SLLV", "SLT", "SLTU", "SRA", "SRAV", "SRL",
            "SRLV", "SUB", "SUBU", "SYSCALL", "XOR"}
Extra(i) ==
    IF i.op \notin RFormat \cup {"J", "JAL"} /\ i.imm & (HalfSize \div 2) # 0
    THEN i.imm | (WordSize - HalfSize)
    ELSE i.imm

Instr == program[pc]
Rs == reg[Instr.rs]
Rt == reg[Instr.rt]
Fetched(ops) == status = "run" /\ pc \in DOMAIN program /\ Instr.op \in ops

(* DelayedLoad: the load in progress reaches its register, after whatever   *)
(* the instruction itself wrote, and register 0 is made zero again.         *)
DelayedLoad(r, nextReg, nextValue) ==
    /\ reg' = [[r EXCEPT ![loadReg] = loadValue] EXCEPT ![0] = 0]
    /\ loadReg' = nextReg
    /\ loadValue' = nextValue

(* The end of OneInstruction.                                               *)
Advance(r, nextReg, nextValue, pcAfter) ==
    /\ DelayedLoad(r, nextReg, nextValue)
    /\ pc' = nextPc
    /\ nextPc' = pcAfter
    /\ UNCHANGED <<program, seen, status>>

Assign(r, value) ==
    /\ Advance([reg EXCEPT ![r] = value], 0, 0, nextPc + 1)
    /\ UNCHANGED <<hi, lo, mem>>

(* RaiseException, for the causes that ExceptionHandler stops Nachos on;    *)
(* an ASSERT ends it as well.                                               *)
RaiseException ==
    /\ DelayedLoad(reg, 0, 0)
    /\ status' = "halted"
    /\ UNCHANGED <<program, hi, lo, mem, pc, nextPc, seen>>

-----------------------------------------------------------------------------
(* OneInstruction, in the order of its cases.                               *)

SameSign(a, b) == (a ^^ b) & SIGN_BIT = 0

(* Deviation: the carry out of the sum is taken for its overflow.           *)
AddOverflowsUnsigned ==
    Instr.op \in {"ADD", "ADDI"} /\ Rs + (IF Instr.op = "ADD" THEN Rt ELSE Extra(Instr)) >= WordSize
(* Overflow: the operands have one sign and the sum the other.              *)
AddOverflows ==
    LET b == IF Instr.op = "ADD" THEN Rt ELSE Extra(Instr) IN
    Instr.op \in {"ADD", "ADDI"} /\ SameSign(Rs, b) /\ ~SameSign(b, ToWord(Rs + b))
ADD_to_ANDI ==
    /\ Fetched({"ADD", "ADDI", "ADDIU", "ADDU", "AND", "ANDI"})
    /\ IF AddOverflows THEN RaiseException
       ELSE CASE Instr.op \in {"ADD", "ADDU"}   -> Assign(Instr.rd, ToWord(Rs + Rt))
              [] Instr.op \in {"ADDI", "ADDIU"} -> Assign(Instr.rt, ToWord(Rs + Extra(Instr)))
              [] Instr.op = "AND"  -> Assign(Instr.rd, Rs & Rt)
              [] Instr.op = "ANDI" -> Assign(Instr.rt, Rs & (Extra(Instr) & (HalfSize - 1)))

Branch ==
    /\ Fetched(BranchOps)
    /\ LET taken == CASE Instr.op = "BEQ" -> Rs = Rt
                      [] Instr.op \in {"BGEZ", "BGEZAL"} -> Rs & SIGN_BIT = 0
                      [] Instr.op = "BGTZ" -> Signed(Rs) > 0
                      [] Instr.op = "BLEZ" -> Signed(Rs) <= 0
                      [] Instr.op \in {"BLTZ", "BLTZAL"} -> Rs & SIGN_BIT # 0
                      [] Instr.op = "BNE" -> Rs # Rt
       IN Advance(IF Instr.op \in {"BGEZAL", "BLTZAL"}
                  THEN [reg EXCEPT ![R31] = ToWord(nextPc + 1)] ELSE reg,
                  0, 0,
                  IF taken THEN nextPc + Signed(Extra(Instr)) ELSE nextPc + 1)
    /\ UNCHANGED <<hi, lo, mem>>

(* C's / and % on int cut towards zero.                                     *)
Quotient(a, b) == IF (a < 0) = (b < 0)
                  THEN (IF a < 0 THEN -a ELSE a) \div (IF b < 0 THEN -b ELSE b)
                  ELSE -((IF a < 0 THEN -a ELSE a) \div (IF b < 0 THEN -b ELSE b))

(* int has no quotient for its least value by -1: on hosts that trap on it  *)
(* Nachos is killed.                                                        *)
DivideTraps ==
    /\ Fetched({"DIV"}) /\ Signed(Rs) = -SIGN_BIT /\ Signed(Rt) = -1
    /\ status' = "halted"
    /\ UNCHANGED <<program, reg, hi, lo, mem, pc, nextPc, loadReg, loadValue, seen>>

Divide ==
    /\ Fetched({"DIV", "DIVU"})
    /\ LET a == IF Instr.op = "DIV" THEN Signed(Rs) ELSE Rs
           b == IF Instr.op = "DIV" THEN Signed(Rt) ELSE Rt
           q == Quotient(a, b)
       IN /\ lo' = IF b = 0 THEN 0 ELSE ToWord(q)
          /\ hi' = IF b = 0 THEN 0 ELSE ToWord(a - q * b)
    /\ Advance(reg, 0, 0, nextPc + 1)
    /\ UNCHANGED mem

Jump ==
    /\ Fetched(JumpOps)
    /\ Advance(CASE Instr.op = "JAL"  -> [reg EXCEPT ![R31] = ToWord(nextPc + 1)]
                 [] Instr.op = "JALR" -> [reg EXCEPT ![Instr.rd] = ToWord(nextPc + 1)]
                 [] OTHER -> reg,
               0, 0,
               IF Instr.op \in {"J", "JAL"} THEN Extra(Instr) ELSE Rs)
    /\ UNCHANGED <<hi, lo, mem>>

-----------------------------------------------------------------------------
(* Memory: Translate's test of alignment, and ReadMem and WriteMem, the     *)
(* lowest byte first.  Programs touch only memory they have.                *)

Address == ToWord(Rs + Extra(Instr))
Aligned(addr, size) == addr & (size - 1) = 0
ReadMem(addr, size) ==
    CASE size = 1 -> mem[addr]
      [] size = 2 -> mem[addr] + ByteSize * mem[addr + 1]
      [] size = 4 -> mem[addr] + ByteSize * mem[addr + 1]
                     + HalfSize * (mem[addr + 2] + ByteSize * mem[addr + 3])
WriteMem(addr, size, value) ==
    [x \in DOMAIN mem |-> IF x \in addr .. addr + size - 1
                          THEN (value \div ByteSize ^ (x - addr)) & (ByteSize - 1)
                          ELSE mem[x]]

SignExtend(value, size) == IF value & (size \div 2) # 0 THEN value | (WordSize - size) ELSE value

(* A load is recorded, to be applied later.                                 *)
LoadLater(value) ==
    /\ Advance(reg, Instr.rt, value, nextPc + 1)
    /\ UNCHANGED <<hi, lo, mem>>

LB_to_LHU ==
    /\ Fetched({"LB", "LBU", "LH", "LHU"})
    /\ IF Instr.op \in {"LB", "LBU"}
       THEN LET v == ReadMem(Address, 1)
            IN LoadLater(IF Instr.op = "LB" THEN SignExtend(v, ByteSize) ELSE v)
       ELSE IF ~Aligned(Address, 2) THEN RaiseException
       ELSE LET v == ReadMem(Address, 2)
            IN LoadLater(IF Instr.op = "LH" THEN SignExtend(v, HalfSize) ELSE v)

LUI == Fetched({"LUI"}) /\ Assign(Instr.rt, ToWord(Extra(Instr) * HalfSize))

(* LWL and LWR merge with a load of the same register that is not done yet; *)
(* at the start of a word, the only case let through, LWL takes it whole.   *)
Pending == IF loadReg = Instr.rt THEN loadValue ELSE Rt
LW_to_LWR ==
    /\ Fetched({"LW", "LWL", "LWR"})
    /\ IF ~Aligned(Address, 4) THEN RaiseException
       ELSE LET v == ReadMem(Address, 4)
            IN LoadLater(IF Instr.op = "LWR"
                         THEN (Pending & Invert(ByteSize - 1)) | (v \div ByteSize ^ 3)
                         ELSE v)

MFHI_to_MTLO ==
    /\ Fetched({"MFHI", "MFLO", "MTHI", "MTLO"})
    /\ hi' = IF Instr.op = "MTHI" THEN Rs ELSE hi
    /\ lo' = IF Instr.op = "MTLO" THEN Rs ELSE lo
    /\ Advance(IF Instr.op \in {"MFHI", "MFLO"}
               THEN [reg EXCEPT ![Instr.rd] = IF Instr.op = "MFHI" THEN hi ELSE lo] ELSE reg,
               0, 0, nextPc + 1)
    /\ UNCHANGED mem

(* Mult: schoolbook, one bit of a at a time, on a double word held in two   *)
(* words.  The shift of a is arithmetic, a being an int; the loop ends when *)
(* no bit of a is left, or after a bit for every place.                     *)
Negate(x) == ToWord(-x)
MultRound(t) ==
    LET lo2 == ToWord(t.lo + t.bLo)
        hi2 == ToWord(t.hi + t.bHi + (IF lo2 < t.bLo THEN 1 ELSE 0))
        add == t.a & 1 = 1
    IN IF t.done THEN t
       ELSE [a    |-> (t.a \div 2) | (t.a & SIGN_BIT),
             bLo  |-> ToWord(2 * t.bLo),
             bHi  |-> ToWord(2 * t.bHi) | (IF t.bLo & SIGN_BIT # 0 THEN 1 ELSE 0),
             lo   |-> IF add THEN lo2 ELSE t.lo,
             hi   |-> IF add THEN hi2 ELSE t.hi,
             done |-> add /\ t.a & Invert(1) = 0]
Mult(a, b, signedArith) ==
    LET flipA == signedArith /\ Signed(a) < 0
        flipB == signedArith /\ Signed(b) < 0
        after[n \in 0 .. W] ==
            IF n = 0 THEN [a |-> IF flipA THEN Negate(a) ELSE a,
                           bLo |-> IF flipB THEN Negate(b) ELSE b,
                           bHi |-> 0, lo |-> 0, hi |-> 0, done |-> FALSE]
            ELSE MultRound(after[n - 1])
        t == after[W]
    IN IF a = 0 \/ b = 0 THEN [hi |-> 0, lo |-> 0]
       ELSE IF flipA = flipB THEN [hi |-> t.hi, lo |-> t.lo]
       ELSE [hi |-> ToWord(Invert(t.hi) + (IF ToWord(Invert(t.lo) + 1) = 0 THEN 1 ELSE 0)),
             lo |-> ToWord(Invert(t.lo) + 1)]
Multiply ==
    /\ Fetched({"MULT", "MULTU"})
    /\ LET product == Mult(Rs, Rt, Instr.op = "MULT")
       IN hi' = product.hi /\ lo' = product.lo
    /\ Advance(reg, 0, 0, nextPc + 1)
    /\ UNCHANGED mem

(* OR combines rs with itself.                                              *)
NOR_to_ORI ==
    /\ Fetched({"NOR", "OR", "ORI"})
    /\ CASE Instr.op = "NOR" -> Assign(Instr.rd, Invert(Rs | Rt))
         [] Instr.op = "OR"  -> Assign(Instr.rd, Rs | Rs)
         [] Instr.op = "ORI" -> Assign(Instr.rt, Rs | (Extra(Instr) & (HalfSize - 1)))

Store(addr, size, value) ==
    /\ mem' = WriteMem(addr, size, value)
    /\ Advance(reg, 0, 0, nextPc + 1)
    /\ UNCHANGED <<hi, lo>>

SB_and_SH ==
    /\ Fetched({"SB", "SH"})
    /\ IF Instr.op = "SB" THEN Store(Address, 1, Rt)
       ELSE IF ~Aligned(Address, 2) THEN RaiseException
       ELSE Store(Address, 2, Rt)

(* The right shift of an int keeps the sign, in SRL and SRLV too.           *)
ShiftRight(x, n) == ToWord(Signed(x) \div 2 ^ n)
Truth(b) == IF b THEN 1 ELSE 0
SLL_to_SRLV ==
    /\ Fetched({"SLL", "SLLV", "SLT", "SLTI", "SLTIU", "SLTU", "SRA", "SRAV", "SRL", "SRLV"})
    /\ LET variable == Rs & (W - 1) IN
       CASE Instr.op = "SLL"  -> Assign(Instr.rd, ToWord(Rt * 2 ^ Extra(Instr)))
         [] Instr.op = "SLLV" -> Assign(Instr.rd, ToWord(Rt * 2 ^ variable))
         [] Instr.op = "SLT"  -> Assign(Instr.rd, Truth(Signed(Rs) < Signed(Rt)))
         [] Instr.op = "SLTI" -> Assign(Instr.rt, Truth(Signed(Rs) < Signed(Extra(Instr))))
         [] Instr.op = "SLTIU" -> Assign(Instr.rt, Truth(Rs < Extra(Instr)))
         [] Instr.op = "SLTU" -> Assign(Instr.rd, Truth(Rs < Rt))
         [] Instr.op \in {"SRA", "SRL"}   -> Assign(Instr.rd, ShiftRight(Rt, Extra(Instr)))
         [] Instr.op \in {"SRAV", "SRLV"} -> Assign(Instr.rd, ShiftRight(Rt, variable))

SUB_and_SUBU ==
    /\ Fetched({"SUB", "SUBU"})
    /\ LET diff == ToWord(Rs - Rt) IN
       IF Instr.op = "SUB" /\ ~SameSign(Rs, Rt) /\ ~SameSign(Rs, diff)
       THEN RaiseException ELSE Assign(Instr.rd, diff)

(* SWR at the start of a word replaces its highest byte.                    *)
SW_to_SWR ==
    /\ Fetched({"SW", "SWL", "SWR"})
    /\ IF ~Aligned(Address, 4) THEN RaiseException
       ELSE Store(Address, 4,
                  IF Instr.op = "SWR"
                  THEN (ReadMem(Address, 4) & (ByteSize ^ 3 - 1)) | ToWord(Rt * ByteSize ^ 3)
                  ELSE Rt)

XOR_and_XORI ==
    /\ Fetched({"XOR", "XORI"})
    /\ IF Instr.op = "XOR" THEN Assign(Instr.rd, Rs ^^ Rt)
       ELSE Assign(Instr.rt, Rs ^^ (Extra(Instr) & (HalfSize - 1)))

Reserved == Fetched({"RES", "UNIMP"}) /\ RaiseException

-----------------------------------------------------------------------------
(* Traps that come back.                                                    *)

(* SYSCALL: RaiseException completes the load in progress, then the kernel  *)
(* reads V0, leaves the result there and steps the program counters itself. *)
Syscall ==
    /\ Fetched({"SYSCALL"})
    /\ LET settled == [[reg EXCEPT ![loadReg] = loadValue] EXCEPT ![0] = 0] IN
       /\ seen' = settled[V0]
       /\ \E rv \in ReturnValues : reg' = [settled EXCEPT ![V0] = rv]
    /\ loadReg' = 0 /\ loadValue' = 0
    /\ pc' = nextPc /\ nextPc' = nextPc + 1
    /\ UNCHANGED <<program, hi, lo, mem, status>>

(* A fault on the instruction's own page or its data: HandlePageFault loads *)
(* a translation and OneInstruction is called again on the same pc.         *)
PageFault ==
    /\ status = "run" /\ pc \in DOMAIN program
    /\ DelayedLoad(reg, 0, 0)
    /\ UNCHANGED <<program, hi, lo, mem, pc, nextPc, seen, status>>

(* Deviation: the load in progress is forgotten.                            *)
DueInterruptDropsLoad ==
    /\ status = "run"
    /\ loadReg' = 0 /\ loadValue' = 0
    /\ UNCHANGED <<program, reg, hi, lo, mem, pc, nextPc, seen, status>>

(* An interrupt that falls due in the OneTick after an instruction: its     *)
(* handler runs, and perhaps other threads, before the next instruction.    *)
DueInterrupt ==
    /\ status = "run"
    /\ DelayedLoad(reg, 0, 0)
    /\ UNCHANGED <<program, hi, lo, mem, pc, nextPc, seen, status>>

OneInstruction ==
    \/ ADD_to_ANDI \/ Branch \/ Divide \/ DivideTraps \/ Jump \/ LB_to_LHU \/ LUI \/ LW_to_LWR
    \/ MFHI_to_MTLO \/ Multiply \/ NOR_to_ORI \/ SB_and_SH \/ SLL_to_SRLV \/ SUB_and_SUBU
    \/ SW_to_SWR \/ Syscall \/ XOR_and_XORI \/ Reserved

Next == OneInstruction \/ PageFault \/ DueInterrupt
Spec == Init /\ [][Next]_vars

-----------------------------------------------------------------------------
(* The registers with the load in progress carried out.                     *)
Settled == [r \in Registers |-> IF r = loadReg /\ r # 0 THEN loadValue ELSE reg[r]]

Loose == INSTANCE MipsIsa WITH reg <- Settled, Faulty <- {"OR", "SRL", "SRLV", "DIV"}

(* OneInstruction, DelayedLoad, Mult and the traps together are the "MIPS   *)
(* R2/3000 processor" of mipssim.cc:1 a program is compiled for, but for the *)
(* results of OR if rt has a bit that rs has not, of SRL and SRLV of a       *)
(* negative word, and of DIV of the least word by -1, after which Nachos may *)
(* be gone: whatever faults and interrupts fall between a load and its       *)
(* effect, each instruction takes effect once and whole, the kernel sees the *)
(* registers settled on a system call, overflow is found exactly when there  *)
(* is one, and products, quotients, the other shifts and comparisons are     *)
(* those of the integers.                                                    *)
ImplementsLooseIsa == Loose!Spec
=============================================================================
