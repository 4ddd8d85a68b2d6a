-------------------------------- MODULE Avr --------------------------------
(***************************************************************************)
(* The machine the firmware's assembler text runs on, as avrtest.c         *)
(* simulates it in the build without XMEGA: the program counter, the data  *)
(* memory with the 32 registers in front, the status register, the cycles. *)
(*                                                                         *)
(* An instruction is the decoded one of load-flash.c: id, op1 and op2; the *)
(* masks of bits and flags that op1 or op2 hold are here a bit's number    *)
(* and a flag's name, relative addresses are signed.  Logging and host     *)
(* input and output are left out.                                          *)
(***************************************************************************)
EXTENDS AvrFlags

CONSTANTS Pc3Bytes,   \* return addresses have three bytes (arch.pc_3bytes)
          HasEind,    \* arch.has_eind
          LogBuild,   \* IS_AVRTEST_LOG, 1 in avrtest_log
          FlashWords, \* MAX_FLASH_SIZE / 2
          FlashBytes, \* arch.flash_addr_mask + 1
          Flash       \* the bytes LPM reads

ASSUME ArchAssumption ==
  /\ Pc3Bytes \in BOOLEAN /\ HasEind \in BOOLEAN /\ LogBuild \in {0, 1}
  /\ FlashWords \in Nat /\ FlashWords > 65535
  /\ FlashBytes \in 1 .. 2 * FlashWords

RAMPZ == 91
EIND  == 92
SPL   == 93
SREG  == 95

REGX == 26
REGY == 28
REGZ == 30

(* The stack must not grow over the registers and the ports. *)
StackLimit == 96

Leave(m, status) == [m EXCEPT !.status = status]

Read(m, a) == IF a = SREG THEN SregByte(m.sreg) ELSE m.data[a]

Write(m, a, v) ==
  IF a = SREG THEN [m EXCEPT !.sreg = FlagsOf(v % 256)]
  ELSE [m EXCEPT !.data[a] = v % 256]

Reg(m, r)        == m.data[r]
PutReg(m, r, v)  == [m EXCEPT !.data[r] = v % 256]
WordReg(m, r)    == m.data[r] + 256 * m.data[r + 1]
PutWordReg(m, r, v) ==
  [m EXCEPT !.data[r] = v % 256, !.data[r + 1] = (v \div 256) % 256]

Sp(m)       == m.data[SPL] + 256 * m.data[SPL + 1]
SetSp(m, v) == PutWordReg(m, SPL, v)

UpdateFlags(m, mask, flags) == [m EXCEPT !.sreg = (@ \ mask) \cup flags]

CarryIn(m) == IF "C" \in m.sreg THEN 1 ELSE 0

Spend(m, cycles) == [m EXCEPT !.cycles = @ + cycles]
ExtraCycle(m)    == Spend(m, IF Pc3Bytes THEN 1 ELSE 0)

Jump(m, target) == [m EXCEPT !.pc = target % FlashWords]

JumpFar(m, target) ==
  IF target >= FlashWords THEN Leave(m, "aborted") ELSE [m EXCEPT !.pc = target]
-----------------------------------------------------------------------------
(* The stack. *)

PushByte(m, v) ==
  IF Sp(m) < StackLimit THEN Leave(m, "aborted")
  ELSE SetSp(Write(m, Sp(m), v), Sp(m) - 1)

PopByte(m, rd) ==
  LET q == SetSp(m, Sp(m) + 1)
  IN  PutReg(q, rd, Read(q, Sp(m) + 1))

PushPc(m) ==
  LET sp  == Sp(m)
      low == Write(Write(m, sp, m.pc), sp - 1, m.pc \div 256)
  IN  IF sp < StackLimit THEN Leave(m, "aborted")
      ELSE IF Pc3Bytes THEN SetSp(Write(low, sp - 2, m.pc \div 65536), sp - 3)
      ELSE SetSp(low, sp - 2)

PopPc(m) ==
  LET sp   == Sp(m)
      skip == IF Pc3Bytes THEN 1 ELSE 0
      high == IF Pc3Bytes THEN Read(m, sp + 1) * 65536 ELSE 0
      pc   == high + Read(m, sp + skip + 1) * 256 + Read(m, sp + skip + 2)
  IN  IF high >= FlashWords THEN Leave(m, "aborted")
      ELSE [SetSp(m, sp + skip + 2) EXCEPT !.pc = pc]
-----------------------------------------------------------------------------
(* Arithmetic. *)

Addition(m, rd, rr, carry) ==
  LET v1 == Reg(m, rd)
      v2 == Reg(m, rr)
  IN  UpdateFlags(PutReg(m, rd, v1 + v2 + carry), Arithmetic,
                  AddFlags(v1, v2, v1 + v2 + carry))

ShiftLeft(m, rd, carry) ==
  LET v == Reg(m, rd)
  IN  UpdateFlags(PutReg(m, rd, v + v + carry), Arithmetic,
                  AddFlags(v, v, v + v + carry))

(* Z stays clear in a subtraction that takes the borrow in. *)
DifferenceFlags(m, v1, v2, carry, useCarry) ==
  SubFlags(v1, v2, v1 - v2 - carry) \
     (IF useCarry /\ "Z" \notin m.sreg THEN {"Z"} ELSE {})

Compare(m, v1, v2, carry, useCarry) ==
  UpdateFlags(m, Arithmetic, DifferenceFlags(m, v1, v2, carry, useCarry))

Subtraction(m, rd, v1, v2, carry, useCarry) ==
  PutReg(Compare(m, v1, v2, carry, useCarry), rd, v1 - v2 - carry)

StoreLogical(m, rd, result) ==
  UpdateFlags(PutReg(m, rd, result), Logical, LogicalFlags(result))

RotateRight(m, rd, value) ==
  UpdateFlags(PutReg(m, rd, value \div 2), {"S", "V", "N", "Z", "C"}, RorFlags(value))

Signed(v) == IF v >= 128 THEN v - 256 ELSE v

(* The fractional forms shift the product left by one; the carry is the    *)
(* product's top bit before that.                                          *)
Multiply(m, v1, v2, factor) ==
  LET product == (v1 * v2) % 65536
  IN  PutWordReg(UpdateFlags(m, {"Z", "C"},
                             Only("C", product >= 32768)
                               \cup Only("Z", product * factor = 0)),
                 0, product * factor)

(* A word plus or minus a constant: the flags come from the high bytes. *)
WordResult(m, rd, result, flags) ==
  UpdateFlags(PutWordReg(m, rd, result), {"S", "V", "N", "Z", "C"},
              flags \ ({"H"} \cup Only("Z", result % 65536 # 0)))
-----------------------------------------------------------------------------
(* Memory. *)

(* Adjusted by -1 before the access or by 1 after it. *)
Indirect(m, pair, adjust) ==
  WordReg(m, pair) + (IF adjust < 0 THEN adjust ELSE 0)

Load(m, rd, pair, adjust, offset) ==
  LET loaded == PutReg(m, rd, Read(m, Indirect(m, pair, adjust) + offset))
  IN  IF adjust = 0 THEN loaded
      ELSE PutWordReg(loaded, pair, WordReg(m, pair) + adjust)

Store(m, rd, pair, adjust, offset) ==
  LET stored == Write(m, Indirect(m, pair, adjust) + offset, Reg(m, rd))
  IN  IF adjust = 0 THEN stored
      ELSE PutWordReg(stored, pair, WordReg(m, pair) + adjust)

LoadProgram(m, rd, far, increment) ==
  LET address == WordReg(m, REGZ) + (IF far THEN 65536 * Read(m, RAMPZ) ELSE 0)
      loaded  == PutReg(m, rd, Flash[address % FlashBytes])
      next    == PutWordReg(loaded, REGZ, address + 1)
  IN  IF ~increment THEN loaded
      ELSE IF far THEN Write(next, RAMPZ, (address + 1) \div 65536)
      ELSE next

SkipIf(m, condition, words) ==
  IF condition THEN Spend(Jump(m, m.pc + words), words) ELSE m

BranchIf(m, flag, value, delta) ==
  IF (flag \in m.sreg) = value THEN Spend(Jump(m, m.pc + delta), 1) ELSE m
-----------------------------------------------------------------------------
(* The instructions, in the order of avrtest.c. *)

Illegal(m) == Leave(m, "aborted")

NoOperands(i, m) ==
  CASE i.id \in {"BREAK", "NOP", "SLEEP", "WDR"} -> m
    [] i.id = "EICALL" -> IF HasEind
                          THEN JumpFar(PushPc(m), WordReg(m, REGZ) + 65536 * Read(m, EIND))
                          ELSE Illegal(m)
    [] i.id = "EIJMP"  -> IF HasEind
                          THEN JumpFar(m, WordReg(m, REGZ) + 65536 * Read(m, EIND))
                          ELSE Illegal(m)
    [] i.id = "ELPM"   -> LoadProgram(m, 0, TRUE, FALSE)
    [] i.id = "ICALL"  -> ExtraCycle(Jump(PushPc(m), WordReg(m, REGZ)))
    [] i.id = "IJMP"   -> Jump(m, WordReg(m, REGZ))
    [] i.id = "LPM"    -> LoadProgram(m, 0, FALSE, FALSE)
    [] i.id = "RET"    -> ExtraCycle(PopPc(m))
    [] i.id = "RETI"   -> UpdateFlags(ExtraCycle(PopPc(m)), {"I"}, {"I"})
    [] i.id \in {"ESPM", "SPM", "DES"} -> Illegal(m)

TwoRegisters(i, m) ==
  LET r1 == Reg(m, i.a)
      r2 == Reg(m, i.b)
  IN  CASE i.id = "ADC"   -> Addition(m, i.a, i.b, CarryIn(m))
        [] i.id = "ROL"   -> ShiftLeft(m, i.a, CarryIn(m))
        [] i.id = "ADD"   -> Addition(m, i.a, i.b, 0)
        [] i.id = "LSL"   -> ShiftLeft(m, i.a, 0)
        [] i.id = "AND"   -> StoreLogical(m, i.a, ByteOf(Bits(r1) \cap Bits(r2)))
        [] i.id = "TST"   -> UpdateFlags(m, Logical, LogicalFlags(r1))
        [] i.id = "CP"    -> Compare(m, r1, r2, 0, FALSE)
        [] i.id = "CPC"   -> Compare(m, r1, r2, CarryIn(m), TRUE)
        [] i.id = "CPSE"  -> SkipIf(m, r1 = r2, 1)
        [] i.id = "CPSE2" -> SkipIf(m, r1 = r2, 2)
        [] i.id = "EOR"   -> StoreLogical(m, i.a, ByteOf((Bits(r1) \cup Bits(r2))
                                                          \ (Bits(r1) \cap Bits(r2))))
        [] i.id = "CLR"   -> StoreLogical(m, i.a, 0)
        [] i.id = "MOV"   -> PutReg(m, i.a, r2)
        [] i.id = "MUL"   -> Multiply(m, r1, r2, 1)
        [] i.id = "OR"    -> StoreLogical(m, i.a, ByteOf(Bits(r1) \cup Bits(r2)))
        [] i.id = "SBC"   -> Subtraction(m, i.a, r1, r2, CarryIn(m), TRUE)
        [] i.id = "SUB"   -> Subtraction(m, i.a, r1, r2, 0, FALSE)

OneRegister(i, m) ==
  LET v == Reg(m, i.a)
  IN  CASE i.id = "ASR" -> RotateRight(m, i.a, Signed(v) % 512)
        [] i.id = "COM" -> UpdateFlags(PutReg(m, i.a, 255 - v), Logical \cup {"C"},
                                       LogicalFlags(255 - v) \cup {"C"})
        [] i.id = "DEC" -> UpdateFlags(PutReg(m, i.a, v - 1), Logical,
                                       DecFlags((v - 1) % 256))
        [] i.id = "INC" -> UpdateFlags(PutReg(m, i.a, v + 1), Logical,
                                       IncFlags((v + 1) % 256))
        [] i.id = "ELPM_Z"      -> LoadProgram(m, i.a, TRUE, FALSE)
        [] i.id = "ELPM_Z_incr" -> LoadProgram(m, i.a, TRUE, TRUE)
        [] i.id = "LPM_Z"       -> LoadProgram(m, i.a, FALSE, FALSE)
        [] i.id = "LPM_Z_incr"  -> LoadProgram(m, i.a, FALSE, TRUE)
        [] i.id = "LDS"         -> PutReg(m, i.a, Read(m, i.b))
        [] i.id = "LD_X"        -> Load(m, i.a, REGX, 0, 0)
        [] i.id = "LD_X_decr"   -> Load(m, i.a, REGX, -1, 0)
        [] i.id = "LD_X_incr"   -> Load(m, i.a, REGX, 1, 0)
        [] i.id = "LD_Y_decr"   -> Load(m, i.a, REGY, -1, 0)
        [] i.id = "LD_Y_incr"   -> Load(m, i.a, REGY, 1, 0)
        [] i.id = "LD_Z_decr"   -> Load(m, i.a, REGZ, -1, 0)
        [] i.id = "LD_Z_incr"   -> Load(m, i.a, REGZ, 1, 0)
        [] i.id = "LSR" -> RotateRight(m, i.a, v)
        [] i.id = "NEG" -> Subtraction(m, i.a, 0, v, 0, FALSE)
        [] i.id = "POP" -> PopByte(m, i.a)

(* The XMEGA instructions are illegal in this build. *)
Exchange(i, m) == Illegal(m)

OneRegisterToMemory(i, m) ==
  LET v == Reg(m, i.a)
  IN  CASE i.id = "PUSH" -> PushByte(m, v)
        [] i.id = "ROR"  -> RotateRight(m, i.a, v + 256 * CarryIn(m))
        [] i.id = "STS"  -> Write(m, i.b, v)
        [] i.id = "ST_X"      -> Store(m, i.a, REGX, 0, 0)
        [] i.id = "ST_X_decr" -> Store(m, i.a, REGX, -1, 0)
        [] i.id = "ST_X_incr" -> Store(m, i.a, REGX, 1, 0)
        [] i.id = "ST_Y_decr" -> Store(m, i.a, REGY, -1, 0)
        [] i.id = "ST_Y_incr" -> Store(m, i.a, REGY, 1, 0)
        [] i.id = "ST_Z_decr" -> Store(m, i.a, REGZ, -1, 0)
        [] i.id = "ST_Z_incr" -> Store(m, i.a, REGZ, 1, 0)
        [] i.id = "SWAP" -> PutReg(m, i.a, (v % 16) * 16 + v \div 16)

WithConstant(i, m) ==
  LET v == Reg(m, i.a)
  IN  CASE i.id = "ANDI" -> StoreLogical(m, i.a, ByteOf(Bits(v) \cap Bits(i.b)))
        [] i.id = "CPI"  -> Compare(m, v, i.b, 0, FALSE)
        [] i.id = "LDI"  -> PutReg(m, i.a, i.b)
        [] i.id = "ORI"  -> StoreLogical(m, i.a, ByteOf(Bits(v) \cup Bits(i.b)))
        [] i.id = "SBCI" -> Subtraction(m, i.a, v, i.b, CarryIn(m), TRUE)
        [] i.id = "SUBI" -> Subtraction(m, i.a, v, i.b, 0, FALSE)

RegisterBit(i, m) ==
  LET v == Reg(m, i.a)
  IN  CASE i.id = "BLD" -> PutReg(m, i.a, ByteOf(IF "T" \in m.sreg
                                                 THEN Bits(v) \cup {i.b}
                                                 ELSE Bits(v) \ {i.b}))
        [] i.id = "BST"   -> UpdateFlags(m, {"T"}, Only("T", Bit(v, i.b)))
        [] i.id = "SBRC"  -> SkipIf(m, ~Bit(v, i.b), 1)
        [] i.id = "SBRC2" -> SkipIf(m, ~Bit(v, i.b), 2)
        [] i.id = "SBRS"  -> SkipIf(m, Bit(v, i.b), 1)
        [] i.id = "SBRS2" -> SkipIf(m, Bit(v, i.b), 2)

Branches(i, m) ==
  CASE i.id = "BRBC" -> BranchIf(m, i.b, FALSE, i.a)
    [] i.id = "BRBS" -> BranchIf(m, i.b, TRUE, i.a)

Displaced(i, m) ==
  CASE i.id = "LDD_Y" -> Load(m, i.a, REGY, 0, i.b)
    [] i.id = "LDD_Z" -> Load(m, i.a, REGZ, 0, i.b)
    [] i.id = "STD_Y" -> Store(m, i.a, REGY, 0, i.b)
    [] i.id = "STD_Z" -> Store(m, i.a, REGZ, 0, i.b)

Absolute(i, m) ==
  LET target == i.b + 65536 * i.a
  IN  CASE i.id = "JMP"  -> [m EXCEPT !.pc = target]
        [] i.id = "CALL" -> ExtraCycle([PushPc(m) EXCEPT !.pc = target])

FlagBit(i, m) ==
  CASE i.id = "BCLR" -> UpdateFlags(m, {i.a}, {})
    [] i.id = "BSET" -> UpdateFlags(m, {i.a}, {i.a})

WordConstant(i, m) ==
  LET v    == WordReg(m, i.a)
      high == IF v >= 32768 THEN 128 ELSE 0
  IN  CASE i.id = "ADIW" -> WordResult(m, i.a, v + i.b,
                                       AddFlags(high, 0, (v + i.b) \div 256))
        [] i.id = "SBIW" -> WordResult(m, i.a, v - i.b,
                                       SubFlags(high, 0, (v - i.b) \div 256))

PortBit(i, m) ==
  LET v == Read(m, i.a)
  IN  CASE i.id = "CBI" -> Write(m, i.a, ByteOf(Bits(v) \ {i.b}))
        [] i.id = "SBI" -> Write(m, i.a, ByteOf(Bits(v) \cup {i.b}))
        [] i.id = "SBIC"  -> SkipIf(m, ~Bit(v, i.b), 1)
        [] i.id = "SBIC2" -> SkipIf(m, ~Bit(v, i.b), 2)
        [] i.id = "SBIS"  -> SkipIf(m, Bit(v, i.b), 1)
        [] i.id = "SBIS2" -> SkipIf(m, Bit(v, i.b), 2)

Ports(i, m) ==
  CASE i.id = "IN"  -> PutReg(m, i.a, Read(m, i.b))
    [] i.id = "OUT" -> Write(m, i.b, Reg(m, i.a))

(* An endless loop ends the simulation. *)
Relative(i, m) ==
  CASE i.id = "RJMP"  -> IF i.b = -1 THEN Leave(m, "exit") ELSE Jump(m, m.pc + i.b)
    [] i.id = "RCALL" -> ExtraCycle(Jump(PushPc(m), m.pc + i.b))

RegisterPairs(i, m) ==
  LET r1 == Reg(m, i.a)
      r2 == Reg(m, i.b)
  IN  CASE i.id = "MOVW"   -> PutWordReg(m, i.a, WordReg(m, i.b))
        [] i.id = "MULS"   -> Multiply(m, Signed(r1), Signed(r2), 1)
        [] i.id = "MULSU"  -> Multiply(m, Signed(r1), r2, 1)
        [] i.id = "FMUL"   -> Multiply(m, r1, r2, 2)
        [] i.id = "FMULS"  -> Multiply(m, Signed(r1), Signed(r2), 2)
        [] i.id = "FMULSU" -> Multiply(m, Signed(r1), r2, 2)
-----------------------------------------------------------------------------
(* The pseudo instruction CPSE N, N with the illegal word 0xffff behind it *)
(* calls the simulator: 27 asks for the arguments, without -args there are *)
(* none and the simulator only tells which build of it runs; 30 and 31 end *)
(* the run.  The other calls do input, output and logging.                 *)
SysArgs(m) == PutWordReg(PutWordReg(PutWordReg(m, 20, LogBuild), 22, 0), 24, 0)

Syscall(i, m) ==
  CASE i.a = 27 -> SysArgs(m)
    [] i.a = 30 -> Leave(m, "exit")
    [] i.a = 31 -> Leave(m, "aborted")
    [] OTHER    -> m

Simple    == {"BREAK", "NOP", "SLEEP", "WDR", "EICALL", "EIJMP", "ELPM", "ICALL", "IJMP",
              "LPM", "RET", "RETI", "ESPM", "SPM", "DES"}
Binary    == {"ADC", "ROL", "ADD", "LSL", "AND", "TST", "CP", "CPC", "CPSE", "CPSE2", "EOR",
              "CLR", "MOV", "MUL", "OR", "SBC", "SUB"}
Unary     == {"ASR", "COM", "DEC", "ELPM_Z", "ELPM_Z_incr", "INC", "LDS", "LD_X", "LD_X_decr",
              "LD_X_incr", "LD_Y_decr", "LD_Y_incr", "LD_Z_decr", "LD_Z_incr", "LPM_Z",
              "LPM_Z_incr", "LSR", "NEG", "POP"}
Exchanges == {"XCH", "LAS", "LAC", "LAT"}
Storing   == {"PUSH", "ROR", "STS", "ST_X", "ST_X_decr", "ST_X_incr", "ST_Y_decr",
              "ST_Y_incr", "ST_Z_decr", "ST_Z_incr", "SWAP"}
Constant  == {"ANDI", "CPI", "LDI", "ORI", "SBCI", "SUBI"}
BitOfReg  == {"BLD", "BST", "SBRC", "SBRC2", "SBRS", "SBRS2"}
BitOfPort == {"CBI", "SBI", "SBIC", "SBIC2", "SBIS", "SBIS2"}

Perform(i, m) ==
  CASE i.id \in Simple    -> NoOperands(i, m)
    [] i.id \in Binary    -> TwoRegisters(i, m)
    [] i.id \in Unary     -> OneRegister(i, m)
    [] i.id \in Exchanges -> Exchange(i, m)
    [] i.id \in Storing   -> OneRegisterToMemory(i, m)
    [] i.id \in Constant  -> WithConstant(i, m)
    [] i.id \in BitOfReg  -> RegisterBit(i, m)
    [] i.id \in BitOfPort -> PortBit(i, m)
    [] i.id \in {"BRBC", "BRBS"}   -> Branches(i, m)
    [] i.id \in {"LDD_Y", "LDD_Z", "STD_Y", "STD_Z"} -> Displaced(i, m)
    [] i.id \in {"JMP", "CALL"}    -> Absolute(i, m)
    [] i.id \in {"BCLR", "BSET"}   -> FlagBit(i, m)
    [] i.id \in {"ADIW", "SBIW"}   -> WordConstant(i, m)
    [] i.id \in {"IN", "OUT"}      -> Ports(i, m)
    [] i.id \in {"RJMP", "RCALL"}  -> Relative(i, m)
    [] i.id \in {"MOVW", "MULS", "MULSU", "FMUL", "FMULS", "FMULSU"} -> RegisterPairs(i, m)
    [] i.id = "SYSCALL" -> Syscall(i, m)
    [] OTHER            -> Illegal(m)   \* ILLEGAL, UNDEF and BAD_PC

Words(id) == CASE id \in {"SYSCALL", "CALL", "JMP", "LDS", "STS"} -> 2
               [] id \in {"BAD_PC", "ILLEGAL", "UNDEF"} -> 0
               [] OTHER -> 1

Indirects == {"LDS", "LD_X", "LD_X_decr", "LD_X_incr", "LD_Y_decr", "LD_Y_incr", "LD_Z_decr",
              "LD_Z_incr", "LDD_Y", "LDD_Z", "STD_Y", "STD_Z"} \cup (Storing \ {"ROR", "SWAP"})

(* Without the cycles that branches, skips and wide return addresses add.  *)
Cycles(id) ==
  CASE id \in {"BAD_PC", "ILLEGAL", "UNDEF", "SYSCALL"} -> 0
    [] id \in {"CALL", "EICALL", "RET", "RETI"} -> 4
    [] id \in {"ELPM", "ELPM_Z", "ELPM_Z_incr", "LPM", "LPM_Z", "LPM_Z_incr", "ICALL", "JMP",
               "RCALL"} -> 3
    [] id \in {"ADIW", "SBIW", "CBI", "SBI", "EIJMP", "IJMP", "RJMP", "FMUL", "FMULS",
               "FMULSU", "MUL", "MULS", "MULSU", "POP"} \cup Indirects -> 2
    [] OTHER -> 1

(* One instruction of the decoded program; outside of it there is BAD_PC.  *)
Step(program, m) ==
  LET i == IF m.pc \in DOMAIN program THEN program[m.pc]
           ELSE [id |-> "BAD_PC", a |-> 0, b |-> 0]
  IN  Perform(i, [m EXCEPT !.pc = @ + Words(i.id), !.cycles = @ + Cycles(i.id)])

(* At most limit instructions, as with the option -m; a piece of assembler *)
(* text is done when it falls out of its end.                              *)
Execute(program, end, m, limit) ==
  LET after[n \in 0 .. limit] ==
        IF n = 0 THEN m
        ELSE LET q == after[n - 1]
             IN  IF q.status = "running" /\ q.pc # end THEN Step(program, q) ELSE q
  IN  after[limit]
=============================================================================
