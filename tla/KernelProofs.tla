---------------------------- MODULE KernelProofs -----------------------------
(***************************************************************************)
(* The arithmetic with which the stepper's interrupt decides whether an    *)
(* axis steps, for all operands.                                           *)
(*                                                                         *)
(* 1. The assembler texts of the firmware on the simulated machine: the    *)
(*    machine's flags order numbers, its additions and subtractions chain  *)
(*    to numbers of several bytes, and the texts of asm.h, asm.c and       *)
(*    main.c compute what their C forms or comments say, whatever the      *)
(*    operands and the state of the machine.  A run is a sequence of       *)
(*    states; each text has a lemma with one conjunct per instruction.     *)
(* 2. The arc kernels: the error term is kept by increments and never      *)
(*    drifts, and the walk of an arc whose ends lie on one circle stays    *)
(*    within a step of it.                                                 *)
(* 3. The counter itself: it is exact for every width and every job that   *)
(*    starts below zero, for between interrupts the counter, read as a     *)
(*    negative number, is irqs*add - taken*total - lead and lies in        *)
(*    -total .. -1, so the sum carries exactly when the line is due for    *)
(*    its next event.                                                      *)
(***************************************************************************)
EXTENDS MCStepCounter, Arc, WellFoundedInduction, TLAPS

Byte == 0 .. 255

(* A machine with the data memory Addresses. *)
Machines(Addresses) ==
  [pc : 0 .. FlashWords - 1, cycles : Nat, status : {"running", "exit", "aborted"},
   sreg : SUBSET {"C", "Z", "N", "V", "S", "H", "T", "I"}, data : [Addresses -> Byte]]

LEMMA TopBit ==
  ASSUME NEW sum \in -256 .. 511
  PROVE  Bit(sum, 7) <=> sum \in -128 .. -1 \/ sum \in 128 .. 255 \/ sum >= 384
  BY DEF Bit, Weight

LEMMA NinthBit ==
  ASSUME NEW sum \in -256 .. 511
  PROVE  Bit(sum, 8) <=> sum < 0 \/ sum >= 256
  BY DEF Bit, Weight

LEMMA BitIsBoolean == ASSUME NEW sum, NEW k PROVE Bit(sum, k) \in BOOLEAN
  BY DEF Bit
-----------------------------------------------------------------------------
(* What a subtraction with or without borrow leaves in C, Z and S. *)
LEMMA SubFlagSet ==
  ASSUME NEW v1, NEW v2, NEW r
  PROVE  /\ "C" \in SubFlags(v1, v2, r) <=> Bit(r, 8)
         /\ "Z" \in SubFlags(v1, v2, r) <=> r % 256 = 0
         /\ "S" \in SubFlags(v1, v2, r) <=>
              (Bit(r, 7) # (Bit(r, 7) = Bit(v2, 7) /\ Bit(v1, 7) # Bit(v2, 7)))
  BY DEF SubFlags, WithZns, Only, HalfCarry

LEMMA SubFlagOrder ==
  ASSUME NEW a \in Byte, NEW b \in Byte, NEW c \in {0, 1}
  PROVE  /\ "C" \in SubFlags(a, b, a - b - c) <=> a < b + c
         /\ "Z" \in SubFlags(a, b, a - b - c) <=> (a - b - c) % 256 = 0
         /\ "S" \in SubFlags(a, b, a - b - c) <=> Signed(a) < Signed(b) + c
  <1> DEFINE r == a - b - c
  <1>0. r \in -256 .. 255
    BY DEF Byte
  <1>1. "C" \in SubFlags(a, b, r) <=> a < b + c
    BY <1>0, SubFlagSet, NinthBit DEF Byte
  <1>2. "Z" \in SubFlags(a, b, r) <=> r % 256 = 0
    BY SubFlagSet
  <1>3. "S" \in SubFlags(a, b, r) <=> Signed(a) < Signed(b) + c
    <2>1. Bit(a, 7) <=> a >= 128
      BY TopBit DEF Byte
    <2>2. Bit(b, 7) <=> b >= 128
      BY TopBit DEF Byte
    <2>3. Bit(r, 7) <=> r >= 128 \/ (-128 <= r /\ r < 0)
      BY <1>0, TopBit
    <2>4. "S" \in SubFlags(a, b, r) <=>
             (Bit(r, 7) # (Bit(r, 7) = Bit(b, 7) /\ Bit(a, 7) # Bit(b, 7)))
      BY SubFlagSet
    <2>5. Signed(a) < Signed(b) + c <=>
             \/ a >= 128 /\ b < 128
             \/ (a >= 128 <=> b >= 128) /\ a < b + c
      BY DEF Signed, Byte
    <2>6. Bit(a, 7) \in BOOLEAN /\ Bit(b, 7) \in BOOLEAN /\ Bit(r, 7) \in BOOLEAN
      BY BitIsBoolean
    <2> QED
      <3>1. CASE a >= 128 /\ b >= 128 BY <3>1, <2>1, <2>2, <2>3, <2>4, <2>5, <2>6 DEF Byte
      <3>2. CASE a >= 128 /\ b < 128  BY <3>2, <2>1, <2>2, <2>3, <2>4, <2>5, <2>6 DEF Byte
      <3>3. CASE a < 128 /\ b >= 128  BY <3>3, <2>1, <2>2, <2>3, <2>4, <2>5, <2>6 DEF Byte
      <3>4. CASE a < 128 /\ b < 128   BY <3>4, <2>1, <2>2, <2>3, <2>4, <2>5, <2>6 DEF Byte
      <3> QED BY <3>1, <3>2, <3>3, <3>4 DEF Byte
  <1> QED BY <1>1, <1>2, <1>3

(* Numbers with a high part above a low part of k values. *)
LEMMA HigherPart ==
  ASSUME NEW k \in Nat \ {0}, NEW left \in Int, NEW right \in Int, left < right,
         NEW lowX \in 0 .. k - 1, NEW lowY \in 0 .. k - 1
  PROVE  left * k + lowX < right * k + lowY
  <1> DEFINE d == right - left - 1
  <1>1. d \in Nat
    OBVIOUS
  <1>2. d * k \in Nat
    BY <1>1
  <1>3. right * k = left * k + k + d * k
    OBVIOUS
  <1>4. left * k \in Int /\ right * k \in Int
    OBVIOUS
  <1> HIDE DEF d
  <1> QED BY <1>2, <1>3, <1>4

LEMMA Lexicographic ==
  ASSUME NEW k \in Nat \ {0}, NEW left \in Int, NEW right \in Int,
         NEW lowX \in 0 .. k - 1, NEW lowY \in 0 .. k - 1
  PROVE  /\ left * k + lowX < right * k + lowY <=> left < right \/ (left = right /\ lowX < lowY)
         /\ left * k + lowX = right * k + lowY <=> left = right /\ lowX = lowY
  <1>1. left * k \in Int /\ right * k \in Int
    OBVIOUS
  <1>2. CASE left < right
    BY <1>1, <1>2, HigherPart
  <1>3. CASE right < left
    BY <1>1, <1>3, HigherPart
  <1>4. CASE left = right
    BY <1>1, <1>4
  <1> QED BY <1>2, <1>3, <1>4

LEMMA Borrowing ==
  ASSUME NEW k \in Nat \ {0}, NEW left \in Int, NEW right \in Int,
         NEW lowX \in 0 .. k - 1, NEW lowY \in 0 .. k - 1,
         NEW c \in {0, 1}, c = 1 <=> lowX < lowY
  PROVE  left < right + c <=> left * k + lowX < right * k + lowY
  <1>1. left < right + c <=> left < right \/ (left = right /\ lowX < lowY)
    OBVIOUS
  <1> QED BY <1>1, Lexicographic

LEMMA CompareSreg ==
  ASSUME NEW A, NEW m \in Machines(A), NEW v1, NEW v2, NEW c, NEW use \in BOOLEAN,
         NEW f \in {"C", "Z", "S"}
  PROVE  f \in Compare(m, v1, v2, c, use).sreg <=>
           /\ f \in SubFlags(v1, v2, v1 - v2 - c)
           /\ use /\ f = "Z" => "Z" \in m.sreg
  BY DEF Compare, UpdateFlags, DifferenceFlags, Machines, Arithmetic

(* CP and a row of CPC compare numbers of several bytes: when C and Z tell *)
(* how the lower bytes compare, then after the next CPC C, Z and S tell it *)
(* of the longer numbers, unsigned and signed.  This needs the rule of     *)
(* do_subtraction_8 that CPC never sets Z.                                 *)
THEOREM CompareExtends ==
  ASSUME NEW A, NEW m \in Machines(A), NEW k \in Nat \ {0},
         NEW lowA \in 0 .. k - 1, NEW lowB \in 0 .. k - 1,
         "C" \in m.sreg <=> lowA < lowB,
         "Z" \in m.sreg <=> lowA = lowB,
         NEW a \in Byte, NEW b \in Byte
  PROVE  LET f == Compare(m, a, b, CarryIn(m), TRUE).sreg
         IN  /\ "C" \in f <=> a * k + lowA < b * k + lowB
             /\ "Z" \in f <=> a * k + lowA = b * k + lowB
             /\ "S" \in f <=> Signed(a) * k + lowA < Signed(b) * k + lowB
  <1> DEFINE c == CarryIn(m)
             f == Compare(m, a, b, c, TRUE).sreg
             g == SubFlags(a, b, a - b - c)
  <1>1. c \in {0, 1} /\ (c = 1 <=> lowA < lowB)
    BY DEF CarryIn
  <1>2. a \in Int /\ b \in Int /\ Signed(a) \in Int /\ Signed(b) \in Int
    BY DEF Byte, Signed
  <1>3. /\ "C" \in f <=> "C" \in g
        /\ "Z" \in f <=> "Z" \in g /\ "Z" \in m.sreg
        /\ "S" \in f <=> "S" \in g
    <2>1. TRUE \in BOOLEAN /\ "C" # "Z" /\ "S" # "Z"
      OBVIOUS
    <2>2. "C" \in f <=> "C" \in g
      BY <2>1, CompareSreg
    <2>3. "Z" \in f <=> "Z" \in g /\ "Z" \in m.sreg
      BY <2>1, CompareSreg
    <2>4. "S" \in f <=> "S" \in g
      BY <2>1, CompareSreg
    <2> QED BY <2>2, <2>3, <2>4
  <1>4. /\ "C" \in g <=> a < b + c
        /\ "Z" \in g <=> (a - b - c) % 256 = 0
        /\ "S" \in g <=> Signed(a) < Signed(b) + c
    <2>1. \A left \in {0, 1} :
             /\ "C" \in SubFlags(a, b, a - b - left) <=> a < b + left
             /\ "Z" \in SubFlags(a, b, a - b - left) <=> (a - b - left) % 256 = 0
             /\ "S" \in SubFlags(a, b, a - b - left) <=> Signed(a) < Signed(b) + left
      BY SubFlagOrder
    <2> QED BY <1>1, <2>1
  <1> HIDE DEF c, f, g
  <1>5. a < b + c <=> a * k + lowA < b * k + lowB
    BY <1>1, <1>2, Borrowing
  <1>6. (a - b - c) % 256 = 0 /\ lowA = lowB <=> a * k + lowA = b * k + lowB
    <2>1. lowA = lowB => c = 0
      BY <1>1
    <2>2. a - b \in -255 .. 255
      BY DEF Byte
    <2>3. (a - b) % 256 = 0 <=> a - b = 0
      BY <2>2
    <2>4. (a - b - c) % 256 = 0 /\ lowA = lowB <=> a = b /\ lowA = lowB
      BY <2>1, <2>3, <1>2
    <2> QED BY <2>4, <1>2, Lexicographic
  <1>7. Signed(a) < Signed(b) + c <=> Signed(a) * k + lowA < Signed(b) * k + lowB
    BY <1>1, <1>2, Borrowing
  <1> QED BY <1>3, <1>4, <1>5, <1>6, <1>7 DEF c, f, g
-----------------------------------------------------------------------------
(* What an addition leaves in the carry and in its register. *)
LEMMA AdditionResult ==
  ASSUME NEW A, Registers \subseteq A, NEW m \in Machines(A),
         NEW rd \in Registers, NEW rr \in Registers, NEW c \in {0, 1}
  PROVE  LET q == Addition(m, rd, rr, c)
         IN  /\ q \in Machines(A) /\ q.pc = m.pc /\ q.status = m.status
             /\ Reg(q, rd) + 256 * CarryIn(q) = Reg(m, rd) + Reg(m, rr) + c
             /\ \A r \in A : r # rd => q.data[r] = m.data[r]
  <1> DEFINE v1 == m.data[rd]
             v2 == m.data[rr]
             s  == v1 + v2 + c
             f  == AddFlags(v1, v2, s)
             q  == Addition(m, rd, rr, c)
  <1>1. v1 \in Byte /\ v2 \in Byte
    BY DEF Machines
  <1>2. s \in 0 .. 511
    <2> HIDE DEF v1, v2
    <2> QED BY <1>1 DEF Byte
  <1>3. "C" \in f <=> s >= 256
    <2>1. "C" \in f <=> Bit(s, 8)
      BY DEF AddFlags, WithZns, Only, HalfCarry
    <2> HIDE DEF s, f
    <2>2. s \in -256 .. 511 /\ ~(s < 0)
      BY <1>2
    <2> QED BY <2>1, <2>2, NinthBit
  <1>4. f \subseteq Arithmetic
    BY DEF AddFlags, WithZns, Only, HalfCarry, Arithmetic
  <1>5. q = [pc |-> m.pc, cycles |-> m.cycles, status |-> m.status,
             sreg |-> (m.sreg \ Arithmetic) \cup f,
             data |-> [m.data EXCEPT ![rd] = s % 256]]
    <2>1. q = UpdateFlags(PutReg(m, rd, s), Arithmetic, f)
      BY DEF Addition, Reg
    <2> HIDE DEF q, s, f
    <2> QED BY <2>1 DEF UpdateFlags, PutReg, Machines
  <1>6. s % 256 \in Byte
    BY <1>2 DEF Byte
  <1>7. q \in Machines(A) /\ q.pc = m.pc /\ q.status = m.status
    BY <1>4, <1>5, <1>6 DEF Machines, Arithmetic
  <1>8. Reg(q, rd) = s % 256 /\ \A r \in A : r # rd => q.data[r] = m.data[r]
    BY <1>5 DEF Reg, Machines
  <1>9. "C" \in q.sreg <=> s >= 256
    BY <1>3, <1>5 DEF Arithmetic
  <1>10. CarryIn(q) = IF s >= 256 THEN 1 ELSE 0
    BY <1>9 DEF CarryIn
  <1>11. (s % 256) + 256 * CarryIn(q) = s
    <2> HIDE DEF s, q
    <2> QED BY <1>2, <1>10
  <1>12. Reg(m, rd) = v1 /\ Reg(m, rr) = v2
    BY DEF Reg
  <1> HIDE DEF q
  <1>13. Reg(q, rd) + 256 * CarryIn(q) = Reg(m, rd) + Reg(m, rr) + c
    BY <1>8, <1>11, <1>12
  <1> QED BY <1>7, <1>8, <1>13 DEF q

LEMMA SubtractionResult ==
  ASSUME NEW A, Registers \subseteq A, NEW m \in Machines(A),
         NEW rd \in Registers, NEW rr \in Registers, NEW c \in {0, 1}, NEW use \in BOOLEAN
  PROVE  LET q == Subtraction(m, rd, Reg(m, rd), Reg(m, rr), c, use)
         IN  /\ q \in Machines(A) /\ q.pc = m.pc /\ q.status = m.status
             /\ Reg(q, rd) - 256 * CarryIn(q) = Reg(m, rd) - Reg(m, rr) - c
             /\ \A r \in A : r # rd => q.data[r] = m.data[r]
  <1> DEFINE v1 == m.data[rd]
             v2 == m.data[rr]
             s  == v1 - v2 - c
             f  == DifferenceFlags(m, v1, v2, c, use)
             q  == Subtraction(m, rd, Reg(m, rd), Reg(m, rr), c, use)
  <1>1. v1 \in Byte /\ v2 \in Byte
    BY DEF Machines
  <1>2. s \in -256 .. 255
    <2> HIDE DEF v1, v2
    <2> QED BY <1>1 DEF Byte
  <1>3. "C" \in f <=> s < 0
    <2>1. "C" \in f <=> Bit(s, 8)
      BY DEF DifferenceFlags, SubFlags, WithZns, Only, HalfCarry
    <2> HIDE DEF s, f
    <2>2. s \in -256 .. 511 /\ ~(s >= 256)
      BY <1>2
    <2> QED BY <2>1, <2>2, NinthBit
  <1>4. f \subseteq Arithmetic
    BY DEF DifferenceFlags, SubFlags, WithZns, Only, HalfCarry, Arithmetic
  <1>5. q = [pc |-> m.pc, cycles |-> m.cycles, status |-> m.status,
             sreg |-> (m.sreg \ Arithmetic) \cup f,
             data |-> [m.data EXCEPT ![rd] = s % 256]]
    <2>1. q = PutReg(UpdateFlags(m, Arithmetic, f), rd, s)
      BY DEF Subtraction, Compare, Reg
    <2> HIDE DEF q, s, f
    <2> QED BY <2>1 DEF UpdateFlags, PutReg, Machines
  <1>6. s % 256 \in Byte
    <2> HIDE DEF s
    <2> QED BY <1>2 DEF Byte
  <1>7. q \in Machines(A) /\ q.pc = m.pc /\ q.status = m.status
    BY <1>4, <1>5, <1>6 DEF Machines, Arithmetic
  <1>8. Reg(q, rd) = s % 256 /\ \A r \in A : r # rd => q.data[r] = m.data[r]
    BY <1>5 DEF Reg, Machines
  <1>9. "C" \in q.sreg <=> s < 0
    BY <1>3, <1>5 DEF Arithmetic
  <1>10. CarryIn(q) = IF s < 0 THEN 1 ELSE 0
    BY <1>9 DEF CarryIn
  <1>11. (s % 256) - 256 * CarryIn(q) = s
    <2> HIDE DEF s, q
    <2> QED BY <1>2, <1>10
  <1>12. Reg(m, rd) = v1 /\ Reg(m, rr) = v2
    BY DEF Reg
  <1> HIDE DEF q
  <1>13. Reg(q, rd) - 256 * CarryIn(q) = Reg(m, rd) - Reg(m, rr) - c
    BY <1>8, <1>11, <1>12
  <1> QED BY <1>7, <1>8, <1>13 DEF q
-----------------------------------------------------------------------------
(* The instructions of the texts. *)

LEMMA PerformBinary ==
  ASSUME NEW m, NEW a, NEW b
  PROVE  /\ Perform(Op("CLR", a, b), m) = StoreLogical(m, a, 0)
         /\ Perform(Op("ADD", a, b), m) = Addition(m, a, b, 0)
         /\ Perform(Op("ADC", a, b), m) = Addition(m, a, b, CarryIn(m))
         /\ Perform(Op("SUB", a, b), m) = Subtraction(m, a, Reg(m, a), Reg(m, b), 0, FALSE)
         /\ Perform(Op("SBC", a, b), m) = Subtraction(m, a, Reg(m, a), Reg(m, b), CarryIn(m), TRUE)
  <1>1. ASSUME NEW i, i.id \in {"CLR", "ADD", "ADC", "SUB", "SBC"}
        PROVE  Perform(i, m) = TwoRegisters(i, m)
    BY <1>1 DEF Perform, Simple, Binary, Unary, Exchanges, Storing, Constant, BitOfReg, BitOfPort
  <1>2. \A id : Op(id, a, b).id = id /\ Op(id, a, b).a = a /\ Op(id, a, b).b = b
    BY DEF Op
  <1>3. ASSUME NEW i, i.id = "CLR"
        PROVE  Perform(i, m) = StoreLogical(m, i.a, 0)
    <2>1. TwoRegisters(i, m) = StoreLogical(m, i.a, 0)
      BY <1>3 DEF TwoRegisters
    <2> QED BY <1>1, <1>3, <2>1
  <1>4. ASSUME NEW i, i.id = "ADD"
        PROVE  Perform(i, m) = Addition(m, i.a, i.b, 0)
    <2>1. TwoRegisters(i, m) = Addition(m, i.a, i.b, 0)
      BY <1>4 DEF TwoRegisters
    <2> QED BY <1>1, <1>4, <2>1
  <1>5. ASSUME NEW i, i.id = "ADC"
        PROVE  Perform(i, m) = Addition(m, i.a, i.b, CarryIn(m))
    <2>1. TwoRegisters(i, m) = Addition(m, i.a, i.b, CarryIn(m))
      BY <1>5 DEF TwoRegisters
    <2> QED BY <1>1, <1>5, <2>1
  <1>6. ASSUME NEW i, i.id = "SUB"
        PROVE  Perform(i, m) = Subtraction(m, i.a, Reg(m, i.a), Reg(m, i.b), 0, FALSE)
    <2>1. TwoRegisters(i, m) = Subtraction(m, i.a, Reg(m, i.a), Reg(m, i.b), 0, FALSE)
      BY <1>6 DEF TwoRegisters
    <2>2. Perform(i, m) = TwoRegisters(i, m)
      BY <1>1, <1>6
    <2> QED BY <2>1, <2>2
  <1>7. ASSUME NEW i, i.id = "SBC"
        PROVE  Perform(i, m) = Subtraction(m, i.a, Reg(m, i.a), Reg(m, i.b), CarryIn(m), TRUE)
    <2>1. TwoRegisters(i, m) = Subtraction(m, i.a, Reg(m, i.a), Reg(m, i.b), CarryIn(m), TRUE)
      BY <1>7 DEF TwoRegisters
    <2>2. Perform(i, m) = TwoRegisters(i, m)
      BY <1>1, <1>7
    <2> QED BY <2>1, <2>2
  <1> QED BY <1>2, <1>3, <1>4, <1>5, <1>6, <1>7

LEMMA PerformOthers ==
  ASSUME NEW m, NEW a, NEW b
  PROVE  /\ Perform(Op("BRBC", a, b), m)
              = IF b \in m.sreg THEN m ELSE Spend(Jump(m, m.pc + a), 1)
         /\ Perform(Op("INC", a, b), m) =
              UpdateFlags(PutReg(m, a, Reg(m, a) + 1), Logical, IncFlags((Reg(m, a) + 1) % 256))
  <1>1. \A id : Op(id, a, b).id = id /\ Op(id, a, b).a = a /\ Op(id, a, b).b = b
    BY DEF Op
  <1>2. ASSUME NEW i, i.id = "BRBC" PROVE Perform(i, m) = BranchIf(m, i.b, FALSE, i.a)
    BY <1>2 DEF Perform, Branches, Simple, Binary, Unary, Exchanges, Storing, Constant,
                BitOfReg, BitOfPort
  <1>3. ASSUME NEW i, i.id = "INC"
        PROVE  Perform(i, m) = UpdateFlags(PutReg(m, i.a, Reg(m, i.a) + 1), Logical,
                                           IncFlags((Reg(m, i.a) + 1) % 256))
    <2>1. Perform(i, m) = OneRegister(i, m)
      BY <1>3 DEF Perform, Simple, Binary, Unary, Exchanges, Storing, Constant, BitOfReg,
                  BitOfPort
    <2>2. OneRegister(i, m) = UpdateFlags(PutReg(m, i.a, Reg(m, i.a) + 1), Logical,
                                          IncFlags((Reg(m, i.a) + 1) % 256))
      BY <1>3 DEF OneRegister
    <2> QED BY <2>1, <2>2
  <1>4. Perform(Op("BRBC", a, b), m)
          = IF b \in m.sreg THEN m ELSE Spend(Jump(m, m.pc + a), 1)
    <2>1. Perform(Op("BRBC", a, b), m) = BranchIf(m, b, FALSE, a)
      BY Zenon, <1>1, <1>2
    <2> QED BY <2>1 DEF BranchIf
  <1>5. Perform(Op("INC", a, b), m) =
          UpdateFlags(PutReg(m, a, Reg(m, a) + 1), Logical, IncFlags((Reg(m, a) + 1) % 256))
    BY <1>1, <1>3
  <1> QED BY <1>4, <1>5

LEMMA SetPc ==
  ASSUME NEW p, NEW n, NEW t, NEW f, NEW d, NEW left
  PROVE  [[pc |-> p, cycles |-> n, status |-> t, sreg |-> f, data |-> d] EXCEPT !.pc = left]
           = [pc |-> left, cycles |-> n, status |-> t, sreg |-> f, data |-> d]
  OBVIOUS

LEMMA SetCycles ==
  ASSUME NEW p, NEW n, NEW t, NEW f, NEW d, NEW left
  PROVE  [[pc |-> p, cycles |-> n, status |-> t, sreg |-> f, data |-> d] EXCEPT !.cycles = left]
           = [pc |-> p, cycles |-> left, status |-> t, sreg |-> f, data |-> d]
  OBVIOUS

LEMMA RegisterAndFlags ==
  ASSUME NEW A, NEW m \in Machines(A), NEW rd \in A, NEW w \in Byte, NEW mask,
         NEW f, f \subseteq {"C", "Z", "N", "V", "S", "H", "T", "I"}
  PROVE  LET q == UpdateFlags([m EXCEPT !.data[rd] = w], mask, f)
         IN  /\ q \in Machines(A) /\ q.pc = m.pc /\ q.status = m.status
             /\ q.data = [m.data EXCEPT ![rd] = w]
  <1> DEFINE q == UpdateFlags([m EXCEPT !.data[rd] = w], mask, f)
  <1>1. q = [pc |-> m.pc, cycles |-> m.cycles, status |-> m.status,
             sreg |-> (m.sreg \ mask) \cup f, data |-> [m.data EXCEPT ![rd] = w]]
    <2>1. q = UpdateFlags([m EXCEPT !.data[rd] = w], mask, f)
      OBVIOUS
    <2> HIDE DEF q
    <2> QED BY <2>1 DEF UpdateFlags, Machines
  <1> DEFINE d == [m.data EXCEPT ![rd] = w]
  <1>2. d \in [A -> Byte]
    BY DEF Machines
  <1>3. (m.sreg \ mask) \cup f \in SUBSET {"C", "Z", "N", "V", "S", "H", "T", "I"}
    BY DEF Machines
  <1>4. m.pc \in 0 .. FlashWords - 1 /\ m.cycles \in Nat /\ m.status \in {"running", "exit", "aborted"}
    BY DEF Machines
  <1>5. q = [pc |-> m.pc, cycles |-> m.cycles, status |-> m.status,
             sreg |-> (m.sreg \ mask) \cup f, data |-> d]
    BY <1>1
  <1> HIDE DEF q, d
  <1>6. q \in Machines(A) /\ q.pc = m.pc /\ q.status = m.status /\ q.data = d
    BY <1>2, <1>3, <1>4, <1>5 DEF Machines
  <1> QED BY <1>6 DEF q, d

LEMMA BytesHeld ==
  ASSUME NEW A, Registers \subseteq A, NEW m \in Machines(A)
  PROVE  \A r \in Registers : m.data[r] \in Int /\ m.data[r] >= 0 /\ m.data[r] < 256
  <1>1. \A r \in A : m.data[r] \in 0 .. 255
    BY DEF Machines, Byte
  <1> QED BY <1>1

-----------------------------------------------------------------------------
(* Execute is a recursive function: it iterates Step. *)

After(P, end, q) == IF q.status = "running" /\ q.pc # end THEN Step(P, q) ELSE q

(* A text that ends at `end', run for as many instructions. *)
Run(P, end, m, s) ==
  /\ s[0] = m
  /\ \A n \in 0 .. end - 1 : s[n + 1] = After(P, end, s[n])

LEMMA LeastElement ==
  ASSUME NEW T, T \subseteq Nat, T # {}
  PROVE  \E i \in T : \A j \in T : i <= j
  <1> DEFINE R == OpToRel(<, Nat)
  <1>1. IsWellFoundedOn(R, Nat)
    BY NatLessThanWellFounded, Zenon
  <1>2. \A i, j \in Nat : i < j => <<i, j>> \in R
    BY DEF OpToRel
  <1> HIDE DEF R
  <1>3. PICK i \in T : \A j \in T : ~(<<j, i>> \in R)
    BY <1>1, WFMin, Zenon
  <1>4. ASSUME NEW j \in T PROVE i <= j
    <2>1. ~(j < i)
      BY <1>2, <1>3
    <2> QED BY <2>1
  <1> QED BY <1>4

LEMMA Induction ==
  ASSUME NEW S, 0 \in S, \A n \in Nat : n \in S => n + 1 \in S
  PROVE  Nat \subseteq S
  <1> SUFFICES ASSUME Nat \ S # {} PROVE FALSE
    OBVIOUS
  <1>1. PICK i \in Nat \ S : \A j \in Nat \ S : i <= j
    BY LeastElement
  <1>2. i - 1 \in Nat /\ i - 1 \in S
    BY <1>1
  <1> QED BY <1>2

LEMMA ExecutionExists ==
  ASSUME NEW P, NEW end, NEW m, NEW limit \in Nat
  PROVE  \E f : f = [n \in 0 .. limit |-> IF n = 0 THEN m ELSE After(P, end, f[n - 1])]
  <1> DEFINE Term(f, k) == IF k = 0 THEN m ELSE After(P, end, f[k - 1])
             Prefix(n) == \E f : f = [k \in 0 .. n |-> Term(f, k)]
             S == {n \in Nat : Prefix(n)}
  <1>1. 0 \in S
    <2>1. [k \in 0 .. 0 |-> m] = [k \in 0 .. 0 |-> Term([j \in 0 .. 0 |-> m], k)]
      OBVIOUS
    <2> QED BY <2>1
  <1>2. ASSUME NEW n \in Nat, n \in S PROVE n + 1 \in S
    <2>1. PICK f : f = [k \in 0 .. n |-> Term(f, k)]
      BY <1>2
    <2> DEFINE g == [k \in 0 .. n + 1 |-> IF k <= n THEN f[k] ELSE After(P, end, f[n])]
    <2>2. ASSUME NEW k \in 0 .. n + 1 PROVE g[k] = Term(g, k)
      <3>1. CASE k = 0
        BY <2>1, <3>1
      <3>2. CASE k # 0 /\ k <= n
        <4>1. f[k] = After(P, end, f[k - 1])
          BY <2>1, <3>2
        <4>2. g[k] = f[k] /\ g[k - 1] = f[k - 1]
          BY <3>2
        <4> QED BY <3>2, <4>1, <4>2
      <3>3. CASE k = n + 1
        BY <3>3
      <3> QED BY <3>1, <3>2, <3>3
    <2>3. g = [k \in 0 .. n + 1 |-> g[k]]
      OBVIOUS
    <2> HIDE DEF g
    <2>4. g = [k \in 0 .. n + 1 |-> Term(g, k)]
      <3> HIDE DEF Term
      <3> QED BY <2>2, <2>3
    <2>5. Prefix(n + 1)
      BY <2>4
    <2> HIDE DEF Prefix
    <2> QED BY <2>5
  <1> HIDE DEF S
  <1>3. Nat \subseteq S
    BY <1>1, <1>2, Induction
  <1> QED BY <1>3 DEF S

LEMMA ExecuteRuns ==
  ASSUME NEW P, NEW end \in Nat, NEW m
  PROVE  \E s : Run(P, end, m, s) /\ Execute(P, end, m, end) = s[end]
  <1> DEFINE s == CHOOSE f : f = [n \in 0 .. end |->
                                    IF n = 0 THEN m ELSE After(P, end, f[n - 1])]
  <1>1. s = [n \in 0 .. end |-> IF n = 0 THEN m ELSE After(P, end, s[n - 1])]
    BY ExecutionExists
  <1>2. Execute(P, end, m, end) = s[end]
    BY DEF Execute, After
  <1> HIDE DEF s
  <1>3. s[0] = m
    BY <1>1
  <1>4. ASSUME NEW n \in 0 .. end - 1 PROVE s[n + 1] = After(P, end, s[n])
    <2>1. n + 1 \in 0 .. end /\ n + 1 # 0 /\ (n + 1) - 1 = n
      OBVIOUS
    <2> QED BY <1>1, <2>1
  <1> QED BY <1>2, <1>3, <1>4 DEF Run

(* The n-th machine of a run is about to do the instruction at k, which is i. *)
At(A, s, n, k) == s[n] \in Machines(A) /\ s[n].pc = k /\ s[n].status = "running"

Loaded(A, P, end, m, s) ==
  /\ Registers \subseteq A
  /\ end \in Nat /\ end < FlashWords /\ DOMAIN P = 0 .. end - 1
  /\ Run(P, end, m, s)

Doing(A, P, end, m, s, n, k, i) ==
  /\ Loaded(A, P, end, m, s)
  /\ n \in 0 .. end - 1 /\ At(A, s, n, k) /\ k \in 0 .. end - 1 /\ P[k] = i

(* The same machine with the program counter w words further. *)
Fetched(A, q, m, w) ==
  /\ q \in Machines(A) /\ q.pc = m.pc + w /\ q.status = m.status
  /\ q.data = m.data /\ q.sreg = m.sreg

(* What the next machine is then. *)
Does(A, s, n, k, rd, val) ==
  /\ At(A, s, n + 1, k + 1)
  /\ s[n + 1].data[rd] = val
  /\ \A r \in A : r # rd => s[n + 1].data[r] = s[n].data[r]

LEMMA MovedBy ==
  ASSUME NEW A, NEW m \in Machines(A), NEW w \in Nat, m.pc + w < FlashWords, NEW c \in Nat
  PROVE  Fetched(A, [m EXCEPT !.pc = @ + w, !.cycles = @ + c], m, w)
  <1> DEFINE q == [m EXCEPT !.pc = @ + w, !.cycles = @ + c]
  <1>1. q = [pc |-> m.pc + w, cycles |-> m.cycles + c, status |-> m.status,
             sreg |-> m.sreg, data |-> m.data]
    <2>1. PICK p, g, t, f, d :
             m = [pc |-> p, cycles |-> g, status |-> t, sreg |-> f, data |-> d]
      BY DEF Machines
    <2> DEFINE h == [m EXCEPT !.pc = m.pc + w]
    <2>2. m.pc = p /\ m.cycles = g /\ m.status = t /\ m.sreg = f /\ m.data = d
      BY <2>1
    <2>3. h = [pc |-> m.pc + w, cycles |-> g, status |-> t, sreg |-> f, data |-> d]
      BY <2>1, SetPc
    <2>4. h.cycles = g
      BY <2>3
    <2>5. q = [h EXCEPT !.cycles = m.cycles + c]
      OBVIOUS
    <2> HIDE DEF h, q
    <2>6. [h EXCEPT !.cycles = m.cycles + c]
            = [pc |-> m.pc + w, cycles |-> m.cycles + c, status |-> t, sreg |-> f, data |-> d]
      BY <2>3, SetCycles
    <2> QED BY <2>2, <2>5, <2>6
  <1> HIDE DEF q
  <1>2. FlashWords \in Int
    BY ArchAssumption
  <1>3. Fetched(A, q, m, w)
    BY <1>1, <1>2 DEF Machines, Fetched
  <1> QED BY <1>3 DEF q

OneWord == {"CLR", "ADD", "ADC", "MUL", "MOV", "ASR", "LSL", "ROL", "PUSH", "POP", "LDI", "COM",
            "CPSE", "SUB", "SBC", "INC", "BRBC"}

LEMMA Fetch ==
  ASSUME NEW A, NEW P, NEW end, NEW m, NEW s, NEW n, NEW k, NEW i,
         Doing(A, P, end, m, s, n, k, i), i.id \in OneWord
  PROVE  \E q : s[n + 1] = Perform(i, q) /\ Fetched(A, q, s[n], 1)
  <1>1. /\ k \in DOMAIN P /\ k # end /\ k + 1 <= end /\ end \in Nat /\ k \in Nat
        /\ n \in 0 .. end - 1 /\ end < FlashWords /\ P[k] = i
    BY DEF Doing, Loaded
  <1>2. FlashWords \in Nat
    BY ArchAssumption
  <1>3. k + 1 < FlashWords
    BY <1>1, <1>2
  <1>4. s[n].pc = k /\ s[n].status = "running" /\ s[n] \in Machines(A)
    BY DEF Doing, Loaded, At
  <1>5. s[n + 1] = After(P, end, s[n])
    BY <1>1 DEF Doing, Loaded, Run
  <1>6. s[n + 1] = Step(P, s[n])
    BY <1>1, <1>4, <1>5, Zenon DEF After
  <1>7. Words(i.id) = 1
    BY DEF Words, OneWord
  <1>8. Cycles(i.id) \in Nat
    BY DEF Cycles
  <1> DEFINE c == Cycles(i.id)
             q == [s[n] EXCEPT !.pc = @ + 1, !.cycles = @ + c]
  <1>9. s[n + 1] = Perform(i, q)
    BY <1>1, <1>4, <1>6, <1>7 DEF Step
  <1> HIDE DEF c
  <1>10. Fetched(A, q, s[n], 1)
    BY <1>3, <1>4, <1>8, MovedBy DEF c
  <1> QED BY <1>9, <1>10

LEMMA PerformTwo ==
  ASSUME NEW m, NEW a, NEW b
  PROVE  /\ Perform(Op("LSL", a, b), m) = Addition(m, a, a, 0)
         /\ Perform(Op("ROL", a, b), m) = Addition(m, a, a, CarryIn(m))
         /\ Perform(Op("MOV", a, b), m) = PutReg(m, a, Reg(m, b))
         /\ Perform(Op("MUL", a, b), m) = Multiply(m, Reg(m, a), Reg(m, b), 1)
  <1>1. ASSUME NEW i, i.id \in {"LSL", "ROL", "MOV", "MUL"}
        PROVE  Perform(i, m) = TwoRegisters(i, m)
    BY <1>1 DEF Perform, Simple, Binary, Unary, Exchanges, Storing, Constant, BitOfReg, BitOfPort
  <1>2. \A id : Op(id, a, b).id = id /\ Op(id, a, b).a = a /\ Op(id, a, b).b = b
    BY DEF Op
  <1>3. ASSUME NEW c PROVE ShiftLeft(m, a, c) = Addition(m, a, a, c)
    BY DEF ShiftLeft, Addition
  <1>4. ASSUME NEW i, i.id = "LSL" PROVE Perform(i, m) = ShiftLeft(m, i.a, 0)
    <2>1. TwoRegisters(i, m) = ShiftLeft(m, i.a, 0)
      BY <1>4 DEF TwoRegisters
    <2> QED BY <1>1, <1>4, <2>1
  <1>5. ASSUME NEW i, i.id = "ROL" PROVE Perform(i, m) = ShiftLeft(m, i.a, CarryIn(m))
    <2>1. TwoRegisters(i, m) = ShiftLeft(m, i.a, CarryIn(m))
      BY <1>5 DEF TwoRegisters
    <2> QED BY <1>1, <1>5, <2>1
  <1>6. ASSUME NEW i, i.id = "MOV" PROVE Perform(i, m) = PutReg(m, i.a, Reg(m, i.b))
    <2>1. TwoRegisters(i, m) = PutReg(m, i.a, Reg(m, i.b))
      BY <1>6 DEF TwoRegisters
    <2> QED BY <1>1, <1>6, <2>1
  <1>7. ASSUME NEW i, i.id = "MUL" PROVE Perform(i, m) = Multiply(m, Reg(m, i.a), Reg(m, i.b), 1)
    <2>1. TwoRegisters(i, m) = Multiply(m, Reg(m, i.a), Reg(m, i.b), 1)
      BY <1>7 DEF TwoRegisters
    <2> QED BY <1>1, <1>7, <2>1
  <1> QED BY <1>2, <1>3, <1>4, <1>5, <1>6, <1>7

LEMMA PerformOne ==
  ASSUME NEW m, NEW a, NEW b
  PROVE  /\ Perform(Op("ASR", a, b), m) = RotateRight(m, a, Signed(Reg(m, a)) % 512)
         /\ Perform(Op("POP", a, b), m) = PopByte(m, a)
         /\ Perform(Op("PUSH", a, b), m) = PushByte(m, Reg(m, a))
  <1>1. \A id : Op(id, a, b).id = id /\ Op(id, a, b).a = a
    BY DEF Op
  <1>2. ASSUME NEW i, i.id \in {"ASR", "POP"} PROVE Perform(i, m) = OneRegister(i, m)
    BY <1>2 DEF Perform, Simple, Binary, Unary, Exchanges, Storing, Constant, BitOfReg, BitOfPort
  <1>3. ASSUME NEW i, i.id = "PUSH" PROVE Perform(i, m) = OneRegisterToMemory(i, m)
    BY <1>3 DEF Perform, Simple, Binary, Unary, Exchanges, Storing, Constant, BitOfReg, BitOfPort
  <1>4. ASSUME NEW i, i.id = "ASR" PROVE Perform(i, m) = RotateRight(m, i.a, Signed(Reg(m, i.a)) % 512)
    <2>1. OneRegister(i, m) = RotateRight(m, i.a, Signed(Reg(m, i.a)) % 512)
      BY <1>4 DEF OneRegister
    <2> QED BY <1>2, <1>4, <2>1
  <1>5. ASSUME NEW i, i.id = "POP" PROVE Perform(i, m) = PopByte(m, i.a)
    <2>1. OneRegister(i, m) = PopByte(m, i.a)
      BY <1>5 DEF OneRegister
    <2> QED BY <1>2, <1>5, <2>1
  <1>6. ASSUME NEW i, i.id = "PUSH" PROVE Perform(i, m) = PushByte(m, Reg(m, i.a))
    <2>1. OneRegisterToMemory(i, m) = PushByte(m, Reg(m, i.a))
      BY <1>6 DEF OneRegisterToMemory
    <2> QED BY <1>3, <1>6, <2>1
  <1> QED BY <1>1, <1>4, <1>5, <1>6

LEMMA PutByte ==
  ASSUME NEW A, NEW m \in Machines(A), NEW rd \in A, NEW val \in Byte
  PROVE  LET q == PutReg(m, rd, val)
         IN  /\ q \in Machines(A) /\ q.pc = m.pc /\ q.status = m.status /\ q.sreg = m.sreg
             /\ q.data = [m.data EXCEPT ![rd] = val] /\ q.cycles = m.cycles
  <1> DEFINE q == PutReg(m, rd, val)
             d == [m.data EXCEPT ![rd] = val]
  <1>1. val % 256 = val
    BY DEF Byte
  <1>2. d \in [A -> Byte]
    BY DEF Machines
  <1>3. q = [pc |-> m.pc, cycles |-> m.cycles, status |-> m.status, sreg |-> m.sreg, data |-> d]
    <2>1. q = [m EXCEPT !.data[rd] = val]
      BY <1>1 DEF PutReg
    <2> HIDE DEF q
    <2> QED BY <2>1 DEF Machines
  <1>4. /\ m.pc \in 0 .. FlashWords - 1 /\ m.cycles \in Nat /\ m.status \in {"running", "exit", "aborted"}
        /\ m.sreg \in SUBSET {"C", "Z", "N", "V", "S", "H", "T", "I"}
    BY DEF Machines
  <1> HIDE DEF q, d
  <1>5. /\ q \in Machines(A) /\ q.pc = m.pc /\ q.status = m.status /\ q.sreg = m.sreg /\ q.data = d
        /\ q.cycles = m.cycles
    BY <1>2, <1>3, <1>4 DEF Machines
  <1> QED BY <1>5 DEF q, d

(* The same after an addition to rd, whose result is val with the carry. *)
Sums(A, s, n, k, rd, val) ==
  /\ At(A, s, n + 1, k + 1)
  /\ s[n + 1].data[rd] + 256 * CarryIn(s[n + 1]) = val /\ CarryIn(s[n + 1]) \in {0, 1}
  /\ \A r \in A : r # rd => s[n + 1].data[r] = s[n].data[r]

LEMMA ClearDone ==
  ASSUME NEW A, NEW P, NEW end, NEW m, NEW s, NEW n, NEW k, NEW rd \in Registers,
         Doing(A, P, end, m, s, n, k, One("CLR", rd))
  PROVE  Does(A, s, n, k, rd, 0)
  <1>1. One("CLR", rd) = Op("CLR", rd, 0) /\ Op("CLR", rd, 0).id \in OneWord
    BY DEF One, Op, OneWord
  <1>2. PICK q : s[n + 1] = Perform(Op("CLR", rd, 0), q) /\ Fetched(A, q, s[n], 1)
    BY <1>1, Fetch
  <1>3. s[n + 1] = UpdateFlags(PutReg(q, rd, 0), Logical, LogicalFlags(0))
    BY <1>2, PerformBinary DEF StoreLogical
  <1> DEFINE g == LogicalFlags(0)
             z == s[n + 1]
  <1>4. g \subseteq {"C", "Z", "N", "V", "S", "H", "T", "I"}
    BY DEF LogicalFlags, WithZns, Only
  <1>5. q \in Machines(A) /\ rd \in A /\ s[n].pc = k /\ s[n].status = "running"
    BY <1>2 DEF Fetched, Doing, Loaded, At
  <1>6. PutReg(q, rd, 0) = [q EXCEPT !.data[rd] = 0] /\ 0 \in Byte
    BY DEF PutReg, Byte
  <1>7. z = UpdateFlags([q EXCEPT !.data[rd] = 0], Logical, g)
    BY <1>3, <1>6
  <1> HIDE DEF g, z
  <1>8. z \in Machines(A) /\ z.pc = q.pc /\ z.status = q.status /\ z.data = [q.data EXCEPT ![rd] = 0]
    BY <1>4, <1>5, <1>6, <1>7, RegisterAndFlags
  <1>9. q.pc = k + 1 /\ q.status = "running" /\ q.data = s[n].data
    BY <1>2, <1>5 DEF Fetched
  <1>10. z.data[rd] = 0 /\ \A r \in A : r # rd => z.data[r] = s[n].data[r]
    BY <1>5, <1>8, <1>9 DEF Machines
  <1> QED BY <1>8, <1>9, <1>10 DEF Does, At, z

(* With these flags the instruction i adds rr and c to rd. *)
Adding(i, flags, rd, rr, c) ==
  \A q : q.sreg = flags => Perform(i, q) = Addition(q, rd, rr, c)

LEMMA SumDone ==
  ASSUME NEW A, NEW P, NEW end, NEW m, NEW s, NEW n, NEW k, NEW i,
         NEW rd \in Registers, NEW rr \in Registers,
         Doing(A, P, end, m, s, n, k, i), i.id \in OneWord, NEW c \in {0, 1},
         Adding(i, s[n].sreg, rd, rr, c),
         NEW val, val = s[n].data[rd] + s[n].data[rr] + c
  PROVE  Sums(A, s, n, k, rd, val)
  <1>1. PICK q : s[n + 1] = Perform(i, q) /\ Fetched(A, q, s[n], 1)
    BY Fetch
  <1> DEFINE z == s[n + 1]
  <1>2. z = Addition(q, rd, rr, c)
    BY <1>1 DEF Fetched, Adding
  <1>3. q \in Machines(A) /\ rd \in A /\ s[n].pc = k /\ s[n].status = "running" /\ Registers \subseteq A
    BY <1>1 DEF Fetched, Doing, Loaded, At
  <1> HIDE DEF z
  <1>4. LET w == Addition(q, rd, rr, c)
        IN  /\ w \in Machines(A) /\ w.pc = q.pc /\ w.status = q.status
            /\ Reg(w, rd) + 256 * CarryIn(w) = Reg(q, rd) + Reg(q, rr) + c
            /\ \A r \in A : r # rd => w.data[r] = q.data[r]
    BY <1>3, AdditionResult
  <1>5. q.pc = k + 1 /\ q.status = "running" /\ q.data = s[n].data
    BY <1>1, <1>3 DEF Fetched
  <1>6. z \in Machines(A) /\ z.pc = k + 1 /\ z.status = "running"
    BY <1>2, <1>4, <1>5
  <1>7. z.data[rd] + 256 * CarryIn(z) = val
    BY <1>2, <1>4, <1>5 DEF Reg
  <1>8. \A r \in A : r # rd => z.data[r] = s[n].data[r]
    BY <1>2, <1>4, <1>5
  <1>9. CarryIn(z) \in {0, 1}
    BY DEF CarryIn
  <1> QED BY <1>6, <1>7, <1>8, <1>9 DEF Sums, At, z

LEMMA AddDone ==
  ASSUME NEW A, NEW P, NEW end, NEW m, NEW s, NEW n, NEW k,
         NEW rd \in Registers, NEW rr \in Registers,
         \/ Doing(A, P, end, m, s, n, k, Op("ADD", rd, rr))
         \/ rr = rd /\ Doing(A, P, end, m, s, n, k, One("LSL", rd))
  PROVE  Sums(A, s, n, k, rd, s[n].data[rd] + s[n].data[rr])
  <1>1. PICK i : /\ Doing(A, P, end, m, s, n, k, i) /\ i.id \in OneWord
                 /\ \A q : Perform(i, q) = Addition(q, rd, rr, 0)
    <2>1. CASE Doing(A, P, end, m, s, n, k, Op("ADD", rd, rr))
      <3>1. Op("ADD", rd, rr).id \in OneWord
        BY DEF Op, OneWord
      <3> QED BY <2>1, <3>1, PerformBinary
    <2>2. CASE rr = rd /\ Doing(A, P, end, m, s, n, k, One("LSL", rd))
      <3>1. Op("LSL", rd, 0).id \in OneWord /\ One("LSL", rd) = Op("LSL", rd, 0)
        BY DEF One, Op, OneWord
      <3> QED BY <2>2, <3>1, PerformTwo
    <2> QED BY <2>1, <2>2
  <1>2. s[n].data[rd] \in Int /\ s[n].data[rr] \in Int
    BY <1>1, BytesHeld DEF Doing, Loaded, At
  <1> DEFINE c == 0
             val == s[n].data[rd] + s[n].data[rr]
  <1>3. c \in {0, 1} /\ val = s[n].data[rd] + s[n].data[rr] + c
    BY <1>2
  <1>4. Adding(i, s[n].sreg, rd, rr, c)
    BY <1>1 DEF Adding
  <1> HIDE DEF c, val
  <1>5. Sums(A, s, n, k, rd, val)
    BY <1>1, <1>3, <1>4, SumDone
  <1> QED BY <1>5 DEF val

LEMMA AddCarryDone ==
  ASSUME NEW A, NEW P, NEW end, NEW m, NEW s, NEW n, NEW k,
         NEW rd \in Registers, NEW rr \in Registers,
         \/ Doing(A, P, end, m, s, n, k, Op("ADC", rd, rr))
         \/ rr = rd /\ Doing(A, P, end, m, s, n, k, One("ROL", rd))
  PROVE  Sums(A, s, n, k, rd, s[n].data[rd] + s[n].data[rr] + CarryIn(s[n]))
  <1>1. PICK i : /\ Doing(A, P, end, m, s, n, k, i) /\ i.id \in OneWord
                 /\ \A q : Perform(i, q) = Addition(q, rd, rr, CarryIn(q))
    <2>1. CASE Doing(A, P, end, m, s, n, k, Op("ADC", rd, rr))
      <3>1. Op("ADC", rd, rr).id \in OneWord
        BY DEF Op, OneWord
      <3> QED BY <2>1, <3>1, PerformBinary
    <2>2. CASE rr = rd /\ Doing(A, P, end, m, s, n, k, One("ROL", rd))
      <3>1. Op("ROL", rd, 0).id \in OneWord /\ One("ROL", rd) = Op("ROL", rd, 0)
        BY DEF One, Op, OneWord
      <3> QED BY <2>2, <3>1, PerformTwo
    <2> QED BY <2>1, <2>2
  <1>2. PICK c \in {0, 1} : c = CarryIn(s[n])
    BY DEF CarryIn
  <1>3. Adding(i, s[n].sreg, rd, rr, c)
    BY <1>1, <1>2 DEF Adding, CarryIn
  <1>4. s[n].data[rd] \in Int /\ s[n].data[rr] \in Int
    BY <1>1, BytesHeld DEF Doing, Loaded, At
  <1> DEFINE val == s[n].data[rd] + s[n].data[rr] + c
  <1>5. val = s[n].data[rd] + s[n].data[rr] + c
    OBVIOUS
  <1> HIDE DEF val
  <1>6. Sums(A, s, n, k, rd, val)
    BY <1>1, <1>3, <1>4, <1>5, SumDone
  <1> QED BY <1>2, <1>6 DEF val

LEMMA MoveDone ==
  ASSUME NEW A, NEW P, NEW end, NEW m, NEW s, NEW n, NEW k,
         NEW rd \in Registers, NEW rr \in Registers,
         Doing(A, P, end, m, s, n, k, Op("MOV", rd, rr))
  PROVE  Does(A, s, n, k, rd, s[n].data[rr])
  <1>1. Op("MOV", rd, rr).id \in OneWord
    BY DEF Op, OneWord
  <1>2. PICK q : s[n + 1] = Perform(Op("MOV", rd, rr), q) /\ Fetched(A, q, s[n], 1)
    BY <1>1, Fetch
  <1> DEFINE z == s[n + 1]
             val == s[n].data[rr]
  <1>3. q \in Machines(A) /\ rd \in A /\ s[n] \in Machines(A) /\ rr \in A
    BY <1>2 DEF Fetched, Doing, Loaded, At
  <1>4. val \in Byte
    BY <1>3 DEF Machines
  <1>5. q.pc = k + 1 /\ q.status = "running" /\ q.data = s[n].data
    BY <1>2 DEF Fetched, Doing, Loaded, At
  <1>6. z = PutReg(q, rd, val)
    BY <1>2, <1>5, PerformTwo DEF Reg
  <1> HIDE DEF z, val
  <1>7. z \in Machines(A) /\ z.pc = q.pc /\ z.status = q.status /\ z.data = [q.data EXCEPT ![rd] = val]
    BY <1>3, <1>4, <1>6, PutByte
  <1>8. z.data[rd] = val /\ \A r \in A : r # rd => z.data[r] = s[n].data[r]
    BY <1>3, <1>5, <1>7 DEF Machines
  <1> QED BY <1>5, <1>7, <1>8 DEF Does, At, z, val

Word == {val \in Nat : val < 256 * 256}

LEMMA ByteProduct ==
  ASSUME NEW a \in Byte, NEW b \in Byte
  PROVE  a * b \in Word /\ a * b <= 255 * 255
  <1>1. a * b <= 255 * b
    <2>1. 255 - a \in Nat /\ b \in Nat
      BY DEF Byte
    <2>2. (255 - a) * b \in Nat
      BY <2>1
    <2>3. (255 - a) * b = 255 * b - a * b /\ a * b \in Int
      BY <2>1 DEF Byte
    <2> QED BY <2>1, <2>2, <2>3
  <1>2. a * b \in Nat /\ b \in Nat /\ b <= 255
    BY DEF Byte
  <1> DEFINE p == a * b
  <1> HIDE DEF p
  <1>3. p \in Nat /\ p <= 255 * b
    BY <1>1, <1>2 DEF p
  <1>4. p < 256 * 256
    BY <1>2, <1>3
  <1>5. p \in Word
    BY <1>3, <1>4 DEF Word
  <1>6. p <= 255 * 255
    BY <1>2, <1>3
  <1> QED BY <1>5, <1>6 DEF p

LEMMA SetOne ==
  ASSUME NEW p, NEW c, NEW t, NEW f, NEW d, NEW i, NEW a
  PROVE  [[pc |-> p, cycles |-> c, status |-> t, sreg |-> f, data |-> d] EXCEPT !.data[i] = a]
           = [pc |-> p, cycles |-> c, status |-> t, sreg |-> f, data |-> [d EXCEPT ![i] = a]]
  OBVIOUS

LEMMA SetTwo ==
  ASSUME NEW p, NEW c, NEW t, NEW f, NEW d, NEW i, NEW j, NEW a, NEW b
  PROVE  [[pc |-> p, cycles |-> c, status |-> t, sreg |-> f, data |-> d]
             EXCEPT !.data[i] = a, !.data[j] = b]
           = [pc |-> p, cycles |-> c, status |-> t, sreg |-> f,
              data |-> [d EXCEPT ![i] = a, ![j] = b]]
  <1> DEFINE m == [pc |-> p, cycles |-> c, status |-> t, sreg |-> f, data |-> d]
             h == [m EXCEPT !.data[i] = a]
  <1>1. h = [pc |-> p, cycles |-> c, status |-> t, sreg |-> f, data |-> [d EXCEPT ![i] = a]]
    BY SetOne
  <1>2. [m EXCEPT !.data[i] = a, !.data[j] = b] = [h EXCEPT !.data[j] = b]
    OBVIOUS
  <1> HIDE DEF h
  <1>3. [h EXCEPT !.data[j] = b] = [pc |-> p, cycles |-> c, status |-> t, sreg |-> f,
                                    data |-> [[d EXCEPT ![i] = a] EXCEPT ![j] = b]]
    BY <1>1, SetOne
  <1>4. [[d EXCEPT ![i] = a] EXCEPT ![j] = b] = [d EXCEPT ![i] = a, ![j] = b]
    OBVIOUS
  <1> QED BY <1>2, <1>3, <1>4

LEMMA PutWord ==
  ASSUME NEW A, NEW m \in Machines(A), NEW rd \in Nat, rd \in A, rd + 1 \in A,
         NEW val \in Word
  PROVE  LET q == PutWordReg(m, rd, val)
         IN  /\ q \in Machines(A) /\ q.pc = m.pc /\ q.status = m.status /\ q.sreg = m.sreg
             /\ q.data[rd] + 256 * q.data[rd + 1] = val
             /\ \A r \in A : r \notin {rd, rd + 1} => q.data[r] = m.data[r]
  <1> DEFINE q == PutWordReg(m, rd, val)
             a == val % 256
             b == (val \div 256) % 256
             d == m.data
             h == [d EXCEPT ![rd] = a, ![rd + 1] = b]
  <1>1. a \in Byte /\ b \in Byte /\ a + 256 * b = val
    BY DEF Byte, Word
  <1>2. q = [m EXCEPT !.data[rd] = a, !.data[rd + 1] = b]
    BY DEF PutWordReg
  <1>3. PICK p, c, t, f : m = [pc |-> p, cycles |-> c, status |-> t, sreg |-> f, data |-> d]
    BY DEF Machines
  <1>4. /\ p \in 0 .. FlashWords - 1 /\ c \in Nat /\ t \in {"running", "exit", "aborted"} /\ d \in [A -> Byte]
        /\ f \in SUBSET {"C", "Z", "N", "V", "S", "H", "T", "I"}
        /\ m.pc = p /\ m.status = t /\ m.sreg = f
    BY <1>3 DEF Machines
  <1> HIDE DEF q, a, b, d
  <1>5. q = [pc |-> p, cycles |-> c, status |-> t, sreg |-> f, data |-> h]
    BY <1>2, <1>3, SetTwo
  <1>6. rd # rd + 1
    OBVIOUS
  <1>7. h \in [A -> Byte] /\ h[rd] = a /\ h[rd + 1] = b
        /\ \A r \in A : r \notin {rd, rd + 1} => h[r] = d[r]
    BY <1>1, <1>4, <1>6
  <1> HIDE DEF h
  <1>8. q \in Machines(A) /\ q.pc = m.pc /\ q.status = m.status /\ q.sreg = m.sreg /\ q.data = h
    BY <1>4, <1>5, <1>7 DEF Machines
  <1> QED BY <1>1, <1>7, <1>8 DEF q, d

LEMMA Flagged ==
  ASSUME NEW A, NEW m \in Machines(A), NEW mask,
         NEW f, f \subseteq {"C", "Z", "N", "V", "S", "H", "T", "I"}
  PROVE  LET q == UpdateFlags(m, mask, f)
         IN  q \in Machines(A) /\ q.pc = m.pc /\ q.status = m.status /\ q.data = m.data
  <1> DEFINE q == UpdateFlags(m, mask, f)
             g == (m.sreg \ mask) \cup f
  <1>1. q = [m EXCEPT !.sreg = g]
    BY DEF UpdateFlags
  <1>2. g \in SUBSET {"C", "Z", "N", "V", "S", "H", "T", "I"}
    BY DEF Machines
  <1> HIDE DEF q, g
  <1>3. q \in Machines(A) /\ q.pc = m.pc /\ q.status = m.status /\ q.data = m.data
    BY <1>1, <1>2 DEF Machines
  <1> QED BY <1>3 DEF q

(* The same after a multiplication. *)
Multiplies(A, s, n, k, val) ==
  /\ At(A, s, n + 1, k + 1)
  /\ s[n + 1].data[0] + 256 * s[n + 1].data[1] = val
  /\ \A r \in A : r \notin {0, 1} => s[n + 1].data[r] = s[n].data[r]

(* The bytes of a product of two bytes are registers 0 and 1. *)
LEMMA MultiplyDone ==
  ASSUME NEW A, NEW P, NEW end, NEW m, NEW s, NEW n, NEW k,
         NEW ra \in Registers, NEW rb \in Registers,
         Doing(A, P, end, m, s, n, k, Op("MUL", ra, rb))
  PROVE  Multiplies(A, s, n, k, s[n].data[ra] * s[n].data[rb])
  <1>1. Op("MUL", ra, rb).id \in OneWord
    BY DEF Op, OneWord
  <1>2. PICK q : s[n + 1] = Perform(Op("MUL", ra, rb), q) /\ Fetched(A, q, s[n], 1)
    BY <1>1, Fetch
  <1> DEFINE z == s[n + 1]
             a == s[n].data[ra]
             b == s[n].data[rb]
             p == a * b
  <1>3. q \in Machines(A) /\ s[n] \in Machines(A) /\ Registers \subseteq A
    BY <1>2 DEF Fetched, Doing, Loaded, At
  <1>4. a \in Byte /\ b \in Byte /\ 0 \in A /\ 1 \in A
    BY <1>3 DEF Machines, Registers
  <1>5. p \in Word
    BY <1>4, ByteProduct
  <1>6. q.pc = k + 1 /\ q.status = "running" /\ q.data = s[n].data
    BY <1>2 DEF Fetched, Doing, Loaded, At
  <1>7. z = Multiply(q, a, b, 1)
    BY <1>2, <1>6, PerformTwo DEF Reg
  <1>8. PICK f \in SUBSET {"C", "Z", "N", "V", "S", "H", "T", "I"} :
           z = PutWordReg(UpdateFlags(q, {"Z", "C"}, f), 0, p)
    <2> DEFINE g == (a * b) % 65536
               f == Only("C", g >= 32768) \cup Only("Z", g * 1 = 0)
    <2>1. Multiply(q, a, b, 1) = PutWordReg(UpdateFlags(q, {"Z", "C"}, f), 0, g * 1)
      BY DEF Multiply
    <2>2. f \in SUBSET {"C", "Z", "N", "V", "S", "H", "T", "I"}
      BY DEF Only
    <2>3. g = p % 65536
      OBVIOUS
    <2> HIDE DEF p, g
    <2>4. g * 1 = p
      BY <1>5, <2>3 DEF Word
    <2> HIDE DEF z, f
    <2> QED BY <1>7, <2>1, <2>2, <2>4
  <1> HIDE DEF z, a, b, p
  <1> DEFINE w == UpdateFlags(q, {"Z", "C"}, f)
  <1>9. w \in Machines(A) /\ w.pc = q.pc /\ w.status = q.status /\ w.data = q.data
    <2>1. f \subseteq {"C", "Z", "N", "V", "S", "H", "T", "I"}
      OBVIOUS
    <2> DEFINE mask == {"Z", "C"}
    <2>2. w = UpdateFlags(q, mask, f) /\ q \in Machines(A)
      BY <1>3
    <2> HIDE DEF mask, w
    <2>3. LET h == UpdateFlags(q, mask, f)
          IN  h \in Machines(A) /\ h.pc = q.pc /\ h.status = q.status /\ h.data = q.data
      BY <2>1, <2>2, Flagged
    <2> QED BY <2>2, <2>3
  <1>10. z = PutWordReg(w, 0, p)
    BY <1>8
  <1> HIDE DEF w
  <1>11. /\ z \in Machines(A) /\ z.pc = w.pc /\ z.status = w.status
         /\ z.data[0] + 256 * z.data[1] = p
         /\ \A r \in A : r \notin {0, 1} => z.data[r] = w.data[r]
    <2> DEFINE rd == 0
    <2>1. rd \in Nat /\ rd \in A /\ rd + 1 \in A /\ rd + 1 = 1
      BY <1>4
    <2>2. z = PutWordReg(w, rd, p)
      BY <1>10
    <2>3. rd = 0
      OBVIOUS
    <2> HIDE DEF rd
    <2>4. w \in Machines(A)
      BY <1>9
    <2>5. LET h == PutWordReg(w, rd, p)
          IN  /\ h \in Machines(A) /\ h.pc = w.pc /\ h.status = w.status
              /\ h.data[rd] + 256 * h.data[rd + 1] = p
              /\ \A r \in A : r \notin {rd, rd + 1} => h.data[r] = w.data[r]
      BY <1>5, <2>4, <2>1, PutWord
    <2> QED BY <2>1, <2>2, <2>3, <2>5
  <1>12. \A r \in A : r \notin {0, 1} => z.data[r] = s[n].data[r]
    BY <1>6, <1>9, <1>11
  <1>13. z.pc = k + 1 /\ z.status = "running"
    BY <1>6, <1>9, <1>11
  <1> QED BY <1>11, <1>12, <1>13 DEF Multiplies, At, z, p, a, b
-----------------------------------------------------------------------------
(* Numbers of three bytes. *)

Three(r) == {r, r + 1, r + 2}

LEMMA ThreeBytes ==
  ASSUME W = 256 * 65536, NEW left \in Int, NEW right \in Int, NEW z \in Int,
         left >= 0, left < 256, right >= 0, right < 256, z >= 0, z < 256
  PROVE  /\ left + 256 * right + 65536 * z \in Int
         /\ left + 256 * right + 65536 * z >= 0
         /\ left + 256 * right + 65536 * z < W
  <1>1. left + 256 * right + 65536 * z <= 255 + 256 * 255 + 65536 * 255
    OBVIOUS
  <1>2. 255 + 256 * 255 + 65536 * 255 < W
    OBVIOUS
  <1> QED BY <1>1, <1>2

LEMMA NumberRange ==
  ASSUME W = 256 * 65536,
         NEW A, Registers \subseteq A, NEW m \in Machines(A), NEW r \in 0 .. 29
  PROVE  /\ Number(m, r, 3) \in Int
         /\ Number(m, r, 3) >= 0 /\ Number(m, r, 3) < W
  <1>1. r \in Registers /\ r + 1 \in Registers /\ r + 2 \in Registers
    BY DEF Registers
  <1> DEFINE left == m.data[r]
             right == m.data[r + 1]
             z == m.data[r + 2]
  <1>2. /\ left \in Int /\ left >= 0 /\ left < 256
        /\ right \in Int /\ right >= 0 /\ right < 256
        /\ z \in Int /\ z >= 0 /\ z < 256
    BY <1>1, BytesHeld
  <1>3. Number(m, r, 3) = left + 256 * right + 65536 * z
    BY DEF Number
  <1> HIDE DEF left, right, z
  <1>4. /\ left + 256 * right + 65536 * z \in Int
        /\ left + 256 * right + 65536 * z >= 0
        /\ left + 256 * right + 65536 * z < W
    BY <1>2, ThreeBytes
  <1> QED BY ONLY <1>3, <1>4

(* What a carry, or a borrow, left over says of the result. *)
LEMMA WrapsBelow ==
  ASSUME W \in Int, NEW left \in Int, NEW b \in Int, NEW n \in Int, NEW d \in {0, 1},
         left < W, b >= 0, left >= 0, n >= 0, n < W, n - W * d = left - b
  PROVE  n = Wrap(left - b)
  <1>1. CASE d = 0
    <2>1. n = left - b
      BY <1>1
    <2> QED BY <2>1 DEF Wrap
  <1>2. CASE d = 1
    <2>1. n - W = left - b
      BY <1>2
    <2> QED BY <2>1 DEF Wrap
  <1> QED BY <1>1, <1>2

-----------------------------------------------------------------------------
(* ADVANCE_STEP_COUNTER. *)

(* The same after a subtraction from rd, whose result is val with the borrow. *)
Differs(A, s, n, k, rd, val) ==
  /\ At(A, s, n + 1, k + 1)
  /\ s[n + 1].data[rd] - 256 * CarryIn(s[n + 1]) = val /\ CarryIn(s[n + 1]) \in {0, 1}
  /\ \A r \in A : r # rd => s[n + 1].data[r] = s[n].data[r]

LEMMA SubtractDone ==
  ASSUME NEW A, NEW P, NEW end, NEW m, NEW s, NEW n, NEW k, NEW i,
         NEW rd \in Registers, NEW rr \in Registers,
         Doing(A, P, end, m, s, n, k, i), NEW c,
         \/ i = Op("SUB", rd, rr) /\ c = 0
         \/ i = Op("SBC", rd, rr) /\ c = CarryIn(s[n]),
         NEW val, val = s[n].data[rd] - s[n].data[rr] - c
  PROVE  Differs(A, s, n, k, rd, val)
  <1>1. i.id \in OneWord
    BY DEF Op, OneWord
  <1>2. PICK q : s[n + 1] = Perform(i, q) /\ Fetched(A, q, s[n], 1)
    BY <1>1, Fetch
  <1> DEFINE z == s[n + 1]
  <1>3. q \in Machines(A) /\ Registers \subseteq A
    BY <1>2 DEF Fetched, Doing, Loaded, At
  <1>4. q.pc = k + 1 /\ q.status = "running" /\ q.data = s[n].data /\ q.sreg = s[n].sreg
    BY <1>2 DEF Fetched, Doing, At
  <1>5. CarryIn(q) = CarryIn(s[n]) /\ c \in {0, 1}
    BY <1>4 DEF CarryIn
  <1>6. PICK use \in BOOLEAN : z = Subtraction(q, rd, Reg(q, rd), Reg(q, rr), c, use)
    <2>1. CASE i = Op("SUB", rd, rr) /\ c = 0
      <3>1. z = Subtraction(q, rd, Reg(q, rd), Reg(q, rr), 0, FALSE)
        BY <1>2, <2>1, PerformBinary
      <3> QED BY <2>1, <3>1, Zenon
    <2>2. CASE i = Op("SBC", rd, rr) /\ c = CarryIn(s[n])
      <3>1. z = Subtraction(q, rd, Reg(q, rd), Reg(q, rr), CarryIn(q), TRUE)
        BY <1>2, <2>2, PerformBinary
      <3> QED BY <1>5, <2>2, <3>1, Zenon
    <2> QED BY <2>1, <2>2
  <1> HIDE DEF z
  <1>7. LET w == Subtraction(q, rd, Reg(q, rd), Reg(q, rr), c, use)
        IN  /\ w \in Machines(A) /\ w.pc = q.pc /\ w.status = q.status
            /\ Reg(w, rd) - 256 * CarryIn(w) = Reg(q, rd) - Reg(q, rr) - c
            /\ \A r \in A : r # rd => w.data[r] = q.data[r]
    BY <1>3, <1>5, SubtractionResult
  <1>8. z \in Machines(A) /\ z.pc = k + 1 /\ z.status = "running"
    BY <1>4, <1>6, <1>7
  <1>9. z.data[rd] - 256 * CarryIn(z) = val
    BY <1>4, <1>6, <1>7 DEF Reg
  <1>10. \A r \in A : r # rd => z.data[r] = s[n].data[r]
    BY <1>4, <1>6, <1>7
  <1>11. CarryIn(z) \in {0, 1}
    BY DEF CarryIn
  <1> QED BY <1>8, <1>9, <1>10, <1>11 DEF Differs, At, z

LEMMA IncrementDone ==
  ASSUME NEW A, NEW P, NEW end, NEW m, NEW s, NEW n, NEW k, NEW rd \in Registers,
         Doing(A, P, end, m, s, n, k, One("INC", rd)),
         NEW val \in Byte, val = (s[n].data[rd] + 1) % 256
  PROVE  Does(A, s, n, k, rd, val)
  <1>1. One("INC", rd) = Op("INC", rd, 0) /\ Op("INC", rd, 0).id \in OneWord
    BY DEF One, Op, OneWord
  <1>2. PICK q : s[n + 1] = Perform(Op("INC", rd, 0), q) /\ Fetched(A, q, s[n], 1)
    BY <1>1, Fetch
  <1> DEFINE z == s[n + 1]
             f == IncFlags((Reg(q, rd) + 1) % 256)
  <1>3. q \in Machines(A) /\ rd \in A
    BY <1>2 DEF Fetched, Doing, Loaded, At
  <1>4. q.pc = k + 1 /\ q.status = "running" /\ q.data = s[n].data
    BY <1>2 DEF Fetched, Doing, At
  <1>5. f \subseteq {"C", "Z", "N", "V", "S", "H", "T", "I"}
    BY DEF IncFlags, WithZns, Only
  <1>6. z = UpdateFlags(PutReg(q, rd, Reg(q, rd) + 1), Logical, f)
    BY <1>2, PerformOthers
  <1>7. PutReg(q, rd, Reg(q, rd) + 1) = [q EXCEPT !.data[rd] = val]
    BY <1>4 DEF PutReg, Reg
  <1> HIDE DEF z, f
  <1>8. z = UpdateFlags([q EXCEPT !.data[rd] = val], Logical, f)
    BY <1>6, <1>7
  <1>9. z \in Machines(A) /\ z.pc = q.pc /\ z.status = q.status /\ z.data = [q.data EXCEPT ![rd] = val]
    BY <1>3, <1>5, <1>8, RegisterAndFlags
  <1>10. z.data[rd] = val /\ \A r \in A : r # rd => z.data[r] = s[n].data[r]
    BY <1>3, <1>4, <1>9 DEF Machines
  <1> QED BY <1>4, <1>9, <1>10 DEF Does, At, z

(* brcc: over the next four instructions, when there is no carry. *)
LEMMA BranchDone ==
  ASSUME NEW A, NEW P, NEW end, NEW m, NEW s, NEW n, NEW k,
         Doing(A, P, end, m, s, n, k, Op("BRBC", 4, "C")), k + 5 <= end
  PROVE  /\ At(A, s, n + 1, IF CarryIn(s[n]) = 1 THEN k + 1 ELSE k + 5)
         /\ s[n + 1].data = s[n].data
  <1>1. Op("BRBC", 4, "C").id \in OneWord
    BY DEF Op, OneWord
  <1>2. PICK q : s[n + 1] = Perform(Op("BRBC", 4, "C"), q) /\ Fetched(A, q, s[n], 1)
    BY <1>1, Fetch
  <1> DEFINE z == s[n + 1]
  <1>3. q \in Machines(A) /\ q.pc = k + 1 /\ q.status = "running" /\ q.data = s[n].data
        /\ CarryIn(q) = CarryIn(s[n])
    BY <1>2 DEF Fetched, Doing, At, CarryIn
  <1>4. z = IF "C" \in q.sreg THEN q ELSE Spend(Jump(q, q.pc + 4), 1)
    BY <1>2, PerformOthers
  <1> HIDE DEF z
  <1>5. CASE "C" \in q.sreg
    <2>1. z = q /\ CarryIn(s[n]) = 1
      BY <1>3, <1>4, <1>5 DEF CarryIn
    <2> QED BY <1>3, <2>1 DEF At, z
  <1>6. CASE "C" \notin q.sreg
    <2>1. z = Spend(Jump(q, q.pc + 4), 1) /\ CarryIn(s[n]) = 0
      BY <1>3, <1>4, <1>6 DEF CarryIn
    <2>2. k \in Nat /\ k + 5 < FlashWords /\ FlashWords \in Nat
      BY ArchAssumption DEF Doing, Loaded
    <2>3. (q.pc + 4) % FlashWords = k + 5
      BY <1>3, <2>2
    <2>4. PICK p, c, t, f, d : q = [pc |-> p, cycles |-> c, status |-> t, sreg |-> f, data |-> d]
      BY <1>3 DEF Machines
    <2>5. Jump(q, q.pc + 4) = [pc |-> k + 5, cycles |-> c, status |-> t, sreg |-> f, data |-> d]
      BY <2>3, <2>4, SetPc DEF Jump
    <2>6. z = [pc |-> k + 5, cycles |-> c + 1, status |-> t, sreg |-> f, data |-> d]
      BY <2>1, <2>5, SetCycles DEF Spend
    <2>7. /\ q.cycles = c /\ q.status = t /\ q.sreg = f /\ q.data = d
          /\ c \in Nat /\ k + 5 \in 0 .. FlashWords - 1
      BY <1>3, <2>2, <2>4 DEF Machines
    <2>8. z \in Machines(A)
      BY <1>3, <2>6, <2>7 DEF Machines
    <2> QED BY <1>3, <2>1, <2>6, <2>7, <2>8 DEF At, z
  <1> QED BY <1>5, <1>6

LEMMA TextIs ==
  ASSUME NEW counter, NEW dostep, NEW adding, NEW sub,
         NEW t, t = AdvanceStepCounter(counter, dostep, adding, sub)
  PROVE  /\ Len(t) = 9
         /\ t[1] = One("CLR", dostep) /\ t[2] = Op("ADD", counter, adding)
         /\ t[3] = Op("ADC", counter + 1, adding + 1) /\ t[4] = Op("ADC", counter + 2, adding + 2)
         /\ t[5] = Op("BRBC", 4, "C") /\ t[6] = One("INC", dostep)
         /\ t[7] = Op("SUB", counter, sub) /\ t[8] = Op("SBC", counter + 1, sub + 1)
         /\ t[9] = Op("SBC", counter + 2, sub + 2)
  BY DEF AdvanceStepCounter

LEMMA ImageOfNine ==
  ASSUME NEW t, Len(t) = 9, NEW p, p = Image(t)
  PROVE  /\ DOMAIN p = 0 .. 8
         /\ p[0] = t[1] /\ p[1] = t[2] /\ p[2] = t[3] /\ p[3] = t[4] /\ p[4] = t[5]
         /\ p[5] = t[6] /\ p[6] = t[7] /\ p[7] = t[8] /\ p[8] = t[9]
  <1>1. p = [k \in 0 .. 8 |-> t[k + 1]]
    BY DEF Image
  <1> QED BY <1>1

LEMMA TextAt ==
  ASSUME NEW counter, NEW dostep, NEW adding, NEW sub,
         NEW t, t = AdvanceStepCounter(counter, dostep, adding, sub), NEW p, p = Image(t)
  PROVE  /\ DOMAIN p = 0 .. 8
         /\ p[0] = One("CLR", dostep)
         /\ p[1] = Op("ADD", counter, adding)
         /\ p[2] = Op("ADC", counter + 1, adding + 1)
         /\ p[3] = Op("ADC", counter + 2, adding + 2)
         /\ p[4] = Op("BRBC", 4, "C")
         /\ p[5] = One("INC", dostep)
         /\ p[6] = Op("SUB", counter, sub)
         /\ p[7] = Op("SBC", counter + 1, sub + 1)
         /\ p[8] = Op("SBC", counter + 2, sub + 2)
  <1>1. /\ Len(t) = 9
        /\ t[1] = One("CLR", dostep) /\ t[2] = Op("ADD", counter, adding)
        /\ t[3] = Op("ADC", counter + 1, adding + 1) /\ t[4] = Op("ADC", counter + 2, adding + 2)
        /\ t[5] = Op("BRBC", 4, "C") /\ t[6] = One("INC", dostep)
        /\ t[7] = Op("SUB", counter, sub) /\ t[8] = Op("SBC", counter + 1, sub + 1)
        /\ t[9] = Op("SBC", counter + 2, sub + 2)
    BY TextIs
  <1>2. /\ DOMAIN p = 0 .. 8
        /\ p[0] = t[1] /\ p[1] = t[2] /\ p[2] = t[3] /\ p[3] = t[4] /\ p[4] = t[5]
        /\ p[5] = t[6] /\ p[6] = t[7] /\ p[7] = t[8] /\ p[8] = t[9]
    BY <1>1, ImageOfNine
  <1> QED BY ONLY <1>1, <1>2, Zenon

AdvanceOperands(counter, dostep, adding, sub) ==
  /\ {counter, adding, sub} \subseteq 0 .. 29 /\ dostep \in Registers
  /\ Three(counter) \cap (Three(adding) \cup Three(sub)) = {}
  /\ dostep \notin Three(counter) \cup Three(adding) \cup Three(sub)

(* The counters of asm.h are three bytes wide. *)
Wide == W = 256 * 65536

(* The text step by step: the addition, and what follows on a carry. *)
LEMMA AdvanceSums ==
  ASSUME Wide, NEW A, NEW P, NEW m, NEW s, Loaded(A, P, 9, m, s), At(A, s, 0, 0),
         NEW counter, NEW dostep, NEW adding, NEW sub,
         AdvanceOperands(counter, dostep, adding, sub),
         NEW t, t = AdvanceStepCounter(counter, dostep, adding, sub), P = Image(t)
  PROVE  /\ At(A, s, 4, 4) /\ CarryIn(s[4]) \in {0, 1} /\ s[4].data[dostep] = 0
         /\ Number(s[4], counter, 3) + W * CarryIn(s[4])
              = Number(m, counter, 3) + Number(m, adding, 3)
         /\ \A r \in A : r \notin {dostep} \cup Three(counter) => s[4].data[r] = m.data[r]
  <1>a. /\ {counter, counter + 1, counter + 2, adding, adding + 1, adding + 2, dostep} \subseteq Registers
        /\ Registers \subseteq A /\ counter \in Nat /\ adding \in Nat
    BY DEF Registers, AdvanceOperands, Loaded
  <1>d. /\ counter \in Registers /\ counter + 1 \in Registers /\ counter + 2 \in Registers
        /\ adding \in Registers /\ adding + 1 \in Registers /\ adding + 2 \in Registers
    BY <1>a
  <1>b. /\ dostep # counter /\ dostep # counter + 1 /\ dostep # counter + 2
        /\ dostep # adding /\ dostep # adding + 1 /\ dostep # adding + 2
        /\ adding # counter /\ adding + 1 # counter /\ adding + 2 # counter
        /\ adding + 1 # counter + 1 /\ adding + 2 # counter + 1
    <2>1. \A r \in Three(adding) : r \notin Three(counter)
      BY DEF AdvanceOperands
    <2> QED BY <2>1 DEF AdvanceOperands, Three
  <1>c. \A n \in 0 .. 8 : At(A, s, n, n) => Doing(A, P, 9, m, s, n, n, P[n])
    BY DEF Doing
  <1>0. s[0] = m
    BY DEF Loaded, Run
  (* clr *)
  <1>1. /\ At(A, s, 1, 1) /\ s[1].data[dostep] = 0
        /\ \A r \in A : r # dostep => s[1].data[r] = m.data[r]
    <2>1. Doing(A, P, 9, m, s, 0, 0, One("CLR", dostep))
      BY <1>c, TextAt
    <2>2. Does(A, s, 0, 0, dostep, 0)
      BY <1>a, <2>1, ClearDone
    <2> QED BY <1>0, <2>2 DEF Does
  (* add *)
  <1>2. /\ At(A, s, 2, 2) /\ CarryIn(s[2]) \in {0, 1}
        /\ s[2].data[counter] + 256 * CarryIn(s[2]) = m.data[counter] + m.data[adding]
        /\ \A r \in A : r # counter => s[2].data[r] = s[1].data[r]
    <2>1. Doing(A, P, 9, m, s, 1, 1, Op("ADD", counter, adding))
      BY <1>1, <1>c, TextAt
    <2>2. Sums(A, s, 1, 1, counter, s[1].data[counter] + s[1].data[adding])
      BY <1>d, <2>1, AddDone, Zenon
    <2>3. s[1].data[counter] = m.data[counter] /\ s[1].data[adding] = m.data[adding]
      BY <1>1, <1>a, <1>b
    <2> QED BY <2>2, <2>3 DEF Sums
  (* adc *)
  <1>3. /\ At(A, s, 3, 3) /\ CarryIn(s[3]) \in {0, 1}
        /\ s[3].data[counter + 1] + 256 * CarryIn(s[3])
             = m.data[counter + 1] + m.data[adding + 1] + CarryIn(s[2])
        /\ \A r \in A : r # counter + 1 => s[3].data[r] = s[2].data[r]
    <2>1. Doing(A, P, 9, m, s, 2, 2, Op("ADC", counter + 1, adding + 1))
      BY <1>2, <1>c, TextAt
    <2>2. Sums(A, s, 2, 2, counter + 1,
               s[2].data[counter + 1] + s[2].data[adding + 1] + CarryIn(s[2]))
      BY <1>d, <2>1, AddCarryDone, Zenon
    <2>3. /\ s[2].data[counter + 1] = m.data[counter + 1]
          /\ s[2].data[adding + 1] = m.data[adding + 1]
      BY <1>1, <1>2, <1>a, <1>b
    <2> QED BY <2>2, <2>3 DEF Sums
  (* adc *)
  <1>4. /\ At(A, s, 4, 4) /\ CarryIn(s[4]) \in {0, 1}
        /\ s[4].data[counter + 2] + 256 * CarryIn(s[4])
             = m.data[counter + 2] + m.data[adding + 2] + CarryIn(s[3])
        /\ \A r \in A : r # counter + 2 => s[4].data[r] = s[3].data[r]
    <2>1. Doing(A, P, 9, m, s, 3, 3, Op("ADC", counter + 2, adding + 2))
      BY <1>3, <1>c, TextAt
    <2>2. Sums(A, s, 3, 3, counter + 2,
               s[3].data[counter + 2] + s[3].data[adding + 2] + CarryIn(s[3]))
      BY <1>d, <2>1, AddCarryDone, Zenon
    <2>3. /\ s[3].data[counter + 2] = m.data[counter + 2]
          /\ s[3].data[adding + 2] = m.data[adding + 2]
      BY <1>1, <1>2, <1>3, <1>a, <1>b
    <2> QED BY <2>2, <2>3 DEF Sums
  <1>5. /\ \A r \in A : r \notin {dostep} \cup Three(counter) => s[4].data[r] = m.data[r]
        /\ s[4].data[dostep] = 0
    BY <1>1, <1>2, <1>3, <1>4, <1>a, <1>b DEF Three
  <1>6. s[4].data[counter] = s[2].data[counter] /\ s[4].data[counter + 1] = s[3].data[counter + 1]
    BY <1>3, <1>4, <1>a
  <1>7. /\ m.data[counter] \in Int /\ m.data[counter + 1] \in Int /\ m.data[counter + 2] \in Int
        /\ m.data[adding] \in Int /\ m.data[adding + 1] \in Int /\ m.data[adding + 2] \in Int
        /\ s[4].data[counter] \in Int /\ s[4].data[counter + 1] \in Int
        /\ s[4].data[counter + 2] \in Int
    <2>1. m \in Machines(A) /\ s[4] \in Machines(A)
      BY <1>0, <1>4 DEF At
    <2>2. \A r \in Registers : m.data[r] \in Int /\ s[4].data[r] \in Int
      BY <1>a, <2>1, BytesHeld
    <2> QED BY <1>a, <2>2
  <1>8. Number(s[4], counter, 3) + W * CarryIn(s[4]) = Number(m, counter, 3) + Number(m, adding, 3)
    <2> DEFINE z0 == s[4].data[counter]   z1 == s[4].data[counter + 1]   z2 == s[4].data[counter + 2]
               x0 == m.data[counter]   x1 == m.data[counter + 1]   x2 == m.data[counter + 2]
               y0 == m.data[adding]   y1 == m.data[adding + 1]   y2 == m.data[adding + 2]
               c0 == CarryIn(s[2])   c1 == CarryIn(s[3])   c2 == CarryIn(s[4])
    <2>1. /\ Number(s[4], counter, 3) = z0 + 256 * z1 + 65536 * z2
          /\ Number(m, counter, 3) = x0 + 256 * x1 + 65536 * x2
          /\ Number(m, adding, 3) = y0 + 256 * y1 + 65536 * y2
      BY DEF Number
    <2>2. c0 \in Int /\ c1 \in Int /\ c2 \in Int
      BY <1>2, <1>3, <1>4
    <2>3. z0 + 256 * c0 = x0 + y0 /\ z1 + 256 * c1 = x1 + y1 + c0 /\ z2 + 256 * c2 = x2 + y2 + c1
      BY <1>2, <1>3, <1>4, <1>6, <1>7
    <2>4. /\ x0 \in Int /\ x1 \in Int /\ x2 \in Int /\ y0 \in Int /\ y1 \in Int /\ y2 \in Int
          /\ z0 \in Int /\ z1 \in Int /\ z2 \in Int
      BY <1>7
    <2>5. W * CarryIn(s[4]) = 256 * (65536 * c2)
      BY <2>2 DEF Wide
    <2> HIDE DEF z0, z1, z2, x0, x1, x2, y0, y1, y2, c0, c1, c2
    <2>6. z0 + 256 * z1 + 65536 * z2 + 256 * (65536 * c2)
            = x0 + 256 * x1 + 65536 * x2 + (y0 + 256 * y1 + 65536 * y2)
      BY <2>2, <2>3, <2>4
    <2> QED BY <2>1, <2>5, <2>6
  <1> QED BY <1>4, <1>5, <1>8

LEMMA AdvanceDiffers ==
  ASSUME Wide, NEW A, NEW P, NEW m, NEW s, Loaded(A, P, 9, m, s),
         NEW counter, NEW dostep, NEW adding, NEW sub,
         AdvanceOperands(counter, dostep, adding, sub),
         At(A, s, 5, 5), s[5].data[dostep] = 0,
         NEW t, t = AdvanceStepCounter(counter, dostep, adding, sub), P = Image(t)
  PROVE  /\ At(A, s, 9, 9) /\ CarryIn(s[9]) \in {0, 1} /\ s[9].data[dostep] = 1
         /\ Number(s[9], counter, 3) - W * CarryIn(s[9])
              = Number(s[5], counter, 3) - Number(s[5], sub, 3)
         /\ \A r \in A : r \notin {dostep} \cup Three(counter) => s[9].data[r] = s[5].data[r]
  <1>a. /\ {counter, counter + 1, counter + 2, sub, sub + 1, sub + 2, dostep} \subseteq Registers
        /\ Registers \subseteq A /\ counter \in Nat /\ sub \in Nat
    BY DEF Registers, AdvanceOperands, Loaded
  <1>d. /\ counter \in Registers /\ counter + 1 \in Registers /\ counter + 2 \in Registers
        /\ sub \in Registers /\ sub + 1 \in Registers /\ sub + 2 \in Registers
    BY <1>a
  <1>b. /\ dostep # counter /\ dostep # counter + 1 /\ dostep # counter + 2
        /\ dostep # sub /\ dostep # sub + 1 /\ dostep # sub + 2
        /\ sub # counter /\ sub + 1 # counter /\ sub + 2 # counter
        /\ sub + 1 # counter + 1 /\ sub + 2 # counter + 1
    <2>1. \A r \in Three(sub) : r \notin Three(counter)
      BY DEF AdvanceOperands
    <2> QED BY <2>1 DEF AdvanceOperands, Three
  <1>c. \A n \in 0 .. 8 : At(A, s, n, n) => Doing(A, P, 9, m, s, n, n, P[n])
    BY DEF Doing
  <1> DEFINE h == s[5]
  (* inc *)
  <1>1. /\ At(A, s, 6, 6) /\ s[6].data[dostep] = 1
        /\ \A r \in A : r # dostep => s[6].data[r] = h.data[r]
    <2>1. Doing(A, P, 9, m, s, 5, 5, One("INC", dostep))
      BY <1>c, TextAt
    <2> DEFINE val == 1
    <2>2. val \in Byte /\ val = (s[5].data[dostep] + 1) % 256 /\ val = 1
      BY DEF Byte
    <2> HIDE DEF val
    <2>3. Does(A, s, 5, 5, dostep, val)
      BY <1>a, <2>1, <2>2, IncrementDone
    <2> QED BY <2>2, <2>3 DEF Does
  (* sub *)
  <1>2. /\ At(A, s, 7, 7) /\ CarryIn(s[7]) \in {0, 1}
        /\ s[7].data[counter] - 256 * CarryIn(s[7]) = h.data[counter] - h.data[sub] - 0
        /\ \A r \in A : r # counter => s[7].data[r] = s[6].data[r]
    <2>1. Doing(A, P, 9, m, s, 6, 6, Op("SUB", counter, sub))
      BY <1>1, <1>c, TextAt
    <2> DEFINE c == 0   val == s[6].data[counter] - s[6].data[sub] - c   i == Op("SUB", counter, sub)
    <2>2. c = 0 /\ val = s[6].data[counter] - s[6].data[sub] - c /\ i = Op("SUB", counter, sub)
      OBVIOUS
    <2> HIDE DEF c, val, i
    <2>3. Differs(A, s, 6, 6, counter, val)
      BY <1>d, <2>1, <2>2, SubtractDone, Zenon
    <2>4. s[6].data[counter] = h.data[counter] /\ s[6].data[sub] = h.data[sub]
      BY <1>1, <1>a, <1>b
    <2> QED BY <2>2, <2>3, <2>4 DEF Differs
  (* sbc *)
  <1>3. /\ At(A, s, 8, 8) /\ CarryIn(s[8]) \in {0, 1}
        /\ s[8].data[counter + 1] - 256 * CarryIn(s[8])
             = h.data[counter + 1] - h.data[sub + 1] - CarryIn(s[7])
        /\ \A r \in A : r # counter + 1 => s[8].data[r] = s[7].data[r]
    <2> DEFINE i == Op("SBC", counter + 1, sub + 1)   c == CarryIn(s[7])
               val == s[7].data[counter + 1] - s[7].data[sub + 1] - c
    <2>1. Doing(A, P, 9, m, s, 7, 7, i)
      BY <1>2, <1>c, TextAt
    <2>2. c = CarryIn(s[7]) /\ val = s[7].data[counter + 1] - s[7].data[sub + 1] - c
          /\ i = Op("SBC", counter + 1, sub + 1)
      OBVIOUS
    <2> HIDE DEF c, val, i
    <2>3. Differs(A, s, 7, 7, counter + 1, val)
      BY <1>d, <2>1, <2>2, SubtractDone, Zenon
    <2>4. s[7].data[counter + 1] = h.data[counter + 1] /\ s[7].data[sub + 1] = h.data[sub + 1]
      BY <1>1, <1>2, <1>a, <1>b
    <2> QED BY <2>2, <2>3, <2>4 DEF Differs
  (* sbc *)
  <1>4. /\ At(A, s, 9, 9) /\ CarryIn(s[9]) \in {0, 1}
        /\ s[9].data[counter + 2] - 256 * CarryIn(s[9])
             = h.data[counter + 2] - h.data[sub + 2] - CarryIn(s[8])
        /\ \A r \in A : r # counter + 2 => s[9].data[r] = s[8].data[r]
    <2> DEFINE i == Op("SBC", counter + 2, sub + 2)   c == CarryIn(s[8])
               val == s[8].data[counter + 2] - s[8].data[sub + 2] - c
    <2>1. Doing(A, P, 9, m, s, 8, 8, i)
      BY <1>3, <1>c, TextAt
    <2>2. c = CarryIn(s[8]) /\ val = s[8].data[counter + 2] - s[8].data[sub + 2] - c
          /\ i = Op("SBC", counter + 2, sub + 2)
      OBVIOUS
    <2> HIDE DEF c, val, i
    <2>3. Differs(A, s, 8, 8, counter + 2, val)
      BY <1>d, <2>1, <2>2, SubtractDone, Zenon
    <2>4. s[8].data[counter + 2] = h.data[counter + 2] /\ s[8].data[sub + 2] = h.data[sub + 2]
      BY <1>1, <1>2, <1>3, <1>a, <1>b
    <2> QED BY <2>2, <2>3, <2>4 DEF Differs
  <1>5. /\ \A r \in A : r \notin {dostep} \cup Three(counter) => s[9].data[r] = h.data[r]
        /\ s[9].data[dostep] = 1
    BY <1>1, <1>2, <1>3, <1>4, <1>a, <1>b DEF Three
  <1>6. s[9].data[counter] = s[7].data[counter] /\ s[9].data[counter + 1] = s[8].data[counter + 1]
    BY <1>3, <1>4, <1>a
  <1>7. /\ h.data[counter] \in Int /\ h.data[counter + 1] \in Int /\ h.data[counter + 2] \in Int
        /\ h.data[sub] \in Int /\ h.data[sub + 1] \in Int /\ h.data[sub + 2] \in Int
        /\ s[9].data[counter] \in Int /\ s[9].data[counter + 1] \in Int
        /\ s[9].data[counter + 2] \in Int
    <2>1. h \in Machines(A) /\ s[9] \in Machines(A)
      BY <1>4 DEF At
    <2>2. \A r \in Registers : h.data[r] \in Int /\ s[9].data[r] \in Int
      BY <1>a, <2>1, BytesHeld
    <2> QED BY <1>a, <2>2
  <1>8. Number(s[9], counter, 3) - W * CarryIn(s[9]) = Number(h, counter, 3) - Number(h, sub, 3)
    <2> DEFINE z0 == s[9].data[counter]   z1 == s[9].data[counter + 1]   z2 == s[9].data[counter + 2]
               x0 == h.data[counter]   x1 == h.data[counter + 1]   x2 == h.data[counter + 2]
               y0 == h.data[sub]   y1 == h.data[sub + 1]   y2 == h.data[sub + 2]
               c0 == CarryIn(s[7])   c1 == CarryIn(s[8])   c2 == CarryIn(s[9])
    <2>1. /\ Number(s[9], counter, 3) = z0 + 256 * z1 + 65536 * z2
          /\ Number(h, counter, 3) = x0 + 256 * x1 + 65536 * x2
          /\ Number(h, sub, 3) = y0 + 256 * y1 + 65536 * y2
      BY DEF Number
    <2>2. c0 \in Int /\ c1 \in Int /\ c2 \in Int
      BY <1>2, <1>3, <1>4
    <2>3. z0 - 256 * c0 = x0 - y0 /\ z1 - 256 * c1 = x1 - y1 - c0 /\ z2 - 256 * c2 = x2 - y2 - c1
      BY <1>2, <1>3, <1>4, <1>6, <1>7
    <2>4. /\ x0 \in Int /\ x1 \in Int /\ x2 \in Int /\ y0 \in Int /\ y1 \in Int /\ y2 \in Int
          /\ z0 \in Int /\ z1 \in Int /\ z2 \in Int
      BY <1>7
    <2>5. W * CarryIn(s[9]) = 256 * (65536 * c2)
      BY <2>2 DEF Wide
    <2> HIDE DEF z0, z1, z2, x0, x1, x2, y0, y1, y2, c0, c1, c2
    <2>6. z0 + 256 * z1 + 65536 * z2 - 256 * (65536 * c2)
            = x0 + 256 * x1 + 65536 * x2 - (y0 + 256 * y1 + 65536 * y2)
      BY <2>2, <2>3, <2>4
    <2> DEFINE pr == W * CarryIn(s[9])   nz == Number(s[9], counter, 3)
               nx == Number(h, counter, 3)   ny == Number(h, sub, 3)
    <2>7. nz = z0 + 256 * z1 + 65536 * z2 /\ nx = x0 + 256 * x1 + 65536 * x2
          /\ ny = y0 + 256 * y1 + 65536 * y2 /\ pr = 256 * (65536 * c2)
      BY <2>1, <2>5
    <2> HIDE DEF pr, nx, ny, nz
    <2>8. nz - pr = nx - ny
      BY <2>2, <2>4, <2>6, <2>7
    <2> QED BY <2>8 DEF pr, nx, ny, nz
  <1> QED BY <1>4, <1>5, <1>8

(* asm.h:46-65 computes what StepArithmetic says of it, in every           *)
(* allocation of its operands to registers, for every counter, addend and  *)
(* subtrahend, from every state of the machine: the counter and the flag   *)
(* hold the result, and no other register, port or variable has changed.   *)
THEOREM AdvanceForAll ==
  ASSUME W = 256 * 65536, NEW A, Registers \subseteq A,
         NEW counter, NEW dostep, NEW adding, NEW sub,
         AdvanceOperands(counter, dostep, adding, sub),
         NEW m \in Machines(A), m.pc = 0, m.status = "running"
  PROVE  LET text == AdvanceStepCounter(counter, dostep, adding, sub)
             q    == Execute(Image(text), Len(text), m, Len(text))
             c    == Number(m, counter, 3)
             a    == Number(m, adding, 3)
             b    == Number(m, sub, 3)
         IN  /\ q \in Machines(A) /\ q.pc = Len(text) /\ q.status = "running"
             /\ Number(q, counter, 3) = Advance(c, a, b)
             /\ q.data[dostep] = IF Carry(c, a) THEN 1 ELSE 0
             /\ \A r \in A : r \notin {dostep} \cup Three(counter) => q.data[r] = m.data[r]
  <1> DEFINE text == AdvanceStepCounter(counter, dostep, adding, sub)
             P == Image(text)
             q == Execute(P, Len(text), m, Len(text))
             c == Number(m, counter, 3)
             a == Number(m, adding, 3)
             b == Number(m, sub, 3)
  <1>1. Len(text) = 9 /\ DOMAIN P = 0 .. 8
    BY TextIs, TextAt
  <1>2. PICK s : Run(P, 9, m, s) /\ Execute(P, 9, m, 9) = s[9]
    BY ExecuteRuns
  <1>3. q = s[9]
    BY <1>1, <1>2
  <1>4. Loaded(A, P, 9, m, s) /\ At(A, s, 0, 0)
    BY <1>1, <1>2, ArchAssumption DEF Loaded, Run, At
  <1> HIDE DEF q, P, text
  <1>5. P = Image(text) /\ text = AdvanceStepCounter(counter, dostep, adding, sub)
    BY DEF P, text
  <1>6. /\ At(A, s, 4, 4) /\ CarryIn(s[4]) \in {0, 1} /\ s[4].data[dostep] = 0
        /\ Number(s[4], counter, 3) + W * CarryIn(s[4]) = c + a
        /\ \A r \in A : r \notin {dostep} \cup Three(counter) => s[4].data[r] = m.data[r]
    BY <1>4, <1>5, AdvanceSums DEF Wide
  <1>7. counter \in 0 .. 29 /\ adding \in 0 .. 29 /\ sub \in 0 .. 29
    BY DEF AdvanceOperands
  <1> DEFINE d == CarryIn(s[4])   n == Number(s[4], counter, 3)
  <1>8. /\ c \in Int /\ c >= 0 /\ c < W /\ a \in Int /\ a >= 0 /\ a < W
        /\ b \in Int /\ b >= 0 /\ b < W /\ n \in Int /\ n >= 0 /\ n < W
    <2>1. s[4] \in Machines(A)
      BY <1>6 DEF At
    <2> QED BY <1>7, <2>1, NumberRange
  <1> HIDE DEF c, a, b, d, n
  <1>9. /\ d = IF Carry(c, a) THEN 1 ELSE 0
        /\ n = Wrap(c + a)
    <2>1. W \in Int /\ d \in {0, 1} /\ n + W * d = c + a
      BY <1>6, WidthAssumption DEF d, n, c, a
    <2>2. CASE d = 0
      <3>1. n = c + a
        BY <1>8, <2>1, <2>2
      <3> QED BY <1>8, <2>1, <2>2, <3>1 DEF Carry, Wrap
    <2>3. CASE d = 1
      <3>1. n + W = c + a
        BY <1>8, <2>1, <2>3
      <3> QED BY <1>8, <2>1, <2>3, <3>1 DEF Carry, Wrap
    <2> QED BY <2>1, <2>2, <2>3
  (* brcc *)
  <1>10. At(A, s, 5, IF d = 1 THEN 5 ELSE 9) /\ s[5].data = s[4].data
    <2> DEFINE k == 4
    <2>1. Doing(A, P, 9, m, s, k, k, Op("BRBC", 4, "C")) /\ k + 5 <= 9 /\ k = 4
      BY <1>4, <1>5, <1>6, TextAt DEF Doing
    <2> HIDE DEF k
    <2>2. /\ At(A, s, k + 1, IF CarryIn(s[k]) = 1 THEN k + 1 ELSE k + 5)
          /\ s[k + 1].data = s[k].data
      BY <2>1, BranchDone
    <2>3. k + 1 = 5 /\ k + 5 = 9
      BY <2>1
    <2> QED BY <2>1, <2>2, <2>3 DEF d
  <1>11. CASE ~Carry(c, a)
    (* The text is done. *)
    <2>1. At(A, s, 5, 9)
      BY <1>9, <1>10, <1>11
    <2>2. ASSUME NEW k \in 5 .. 8, s[k] = s[5] PROVE s[k + 1] = s[5]
      <3>1. s[k + 1] = After(P, 9, s[k])
        BY <1>2 DEF Run
      <3> QED BY <2>1, <2>2, <3>1 DEF After, At
    <2>3. s[6] = s[5] /\ s[7] = s[5] /\ s[8] = s[5] /\ s[9] = s[5]
      <3>1. s[5 + 1] = s[5]
        BY <2>2
      <3>2. s[6 + 1] = s[5]
        BY <2>2, <3>1
      <3>3. s[7 + 1] = s[5]
        BY <2>2, <3>2
      <3>4. s[8 + 1] = s[5]
        BY <2>2, <3>3
      <3> QED BY <3>1, <3>2, <3>3, <3>4
    <2>4. q \in Machines(A) /\ q.pc = 9 /\ q.status = "running" /\ q.data = s[4].data
      BY <1>3, <1>10, <2>1, <2>3 DEF At
    <2>5. Number(q, counter, 3) = Advance(c, a, b)
      <3>1. Number(q, counter, 3) = n
        BY <2>4 DEF Number, n
      <3> QED BY <1>9, <1>11, <3>1 DEF Advance
    <2> QED BY <1>1, <1>6, <1>11, <2>4, <2>5 DEF q, P, text, c, a, b
  <1>12. CASE Carry(c, a)
    <2>1. At(A, s, 5, 5) /\ s[5].data[dostep] = 0
      BY <1>6, <1>9, <1>10, <1>12
    <2>2. /\ At(A, s, 9, 9) /\ CarryIn(s[9]) \in {0, 1} /\ s[9].data[dostep] = 1
          /\ Number(s[9], counter, 3) - W * CarryIn(s[9])
               = Number(s[5], counter, 3) - Number(s[5], sub, 3)
          /\ \A r \in A : r \notin {dostep} \cup Three(counter) => s[9].data[r] = s[5].data[r]
      BY <1>4, <1>5, <2>1, AdvanceDiffers DEF Wide
    <2>3. Number(s[5], counter, 3) = n /\ Number(s[5], sub, 3) = b
      <3>1. Number(s[5], counter, 3) = n
        BY <1>10 DEF Number, n
      <3>2. \A r \in Three(sub) : r \in A /\ r \notin {dostep} \cup Three(counter)
        <4>1. \A r \in Three(sub) : r \in Registers
          BY <1>7 DEF Three, Registers
        <4> QED BY <4>1 DEF AdvanceOperands
      <3>3. /\ s[5].data[sub] = m.data[sub] /\ s[5].data[sub + 1] = m.data[sub + 1]
            /\ s[5].data[sub + 2] = m.data[sub + 2]
        BY <1>6, <1>10, <3>2 DEF Three
      <3> QED BY <3>1, <3>3 DEF Number, b
    <2> DEFINE borrow == CarryIn(s[9])   left == Number(s[9], counter, 3)
    <2>4. left \in Int /\ left >= 0 /\ left < W
      <3>1. s[9] \in Machines(A)
        BY <2>2 DEF At
      <3> QED BY <1>7, <3>1, NumberRange
    <2>5. borrow \in {0, 1} /\ left - W * borrow = n - b /\ W \in Int
      BY <2>2, <2>3, WidthAssumption
    <2> HIDE DEF borrow, left
    <2>6. left = Wrap(n - b)
      BY <1>8, <2>4, <2>5, WrapsBelow
    <2>7. left = Advance(c, a, b)
      BY <1>9, <1>12, <2>6 DEF Advance
    <2>8. \A r \in A : r \notin {dostep} \cup Three(counter) => s[9].data[r] = m.data[r]
      BY <1>6, <1>10, <2>2
    <2> QED BY <1>1, <1>3, <1>12, <2>2, <2>7, <2>8 DEF At, q, P, text, c, a, b, left
  <1> QED BY <1>11, <1>12
-----------------------------------------------------------------------------
(* MUL16_SHR16. *)

Two(r) == {r, r + 1}

MulOperands(temp, high, a, b) ==
  /\ {temp, high, a, b} \subseteq 2 .. 30
  /\ Two(temp) \cap Two(high) = {}
  /\ (Two(temp) \cup Two(high)) \cap (Two(a) \cup Two(b)) = {}

LEMMA MulText ==
  ASSUME NEW temp, NEW high, NEW a, NEW b,
         NEW t, t = Mul16Shr16(temp, high, a, b), NEW P, P = Image(t)
  PROVE  /\ Len(t) = 17 /\ DOMAIN P = 0 .. 16
         /\ P[0] = One("CLR", temp) /\ P[1] = One("CLR", high) /\ P[2] = One("CLR", high + 1)
         /\ P[3] = Op("MUL", a, b) /\ P[4] = Op("MOV", temp + 1, 1)
         /\ P[5] = Op("MUL", a, b + 1) /\ P[6] = Op("ADD", temp + 1, 0)
         /\ P[7] = Op("ADC", high, 1) /\ P[8] = Op("ADC", high + 1, temp)
         /\ P[9] = Op("MUL", a + 1, b) /\ P[10] = Op("ADD", temp + 1, 0)
         /\ P[11] = Op("ADC", high, 1) /\ P[12] = Op("ADC", high + 1, temp)
         /\ P[13] = Op("MUL", a + 1, b + 1) /\ P[14] = Op("ADD", high, 0)
         /\ P[15] = Op("ADC", high + 1, 1) /\ P[16] = One("CLR", 1)
  <1>1. /\ Len(t) = 17
        /\ t[1] = One("CLR", temp) /\ t[2] = One("CLR", high) /\ t[3] = One("CLR", high + 1)
        /\ t[4] = Op("MUL", a, b) /\ t[5] = Op("MOV", temp + 1, 1)
        /\ t[6] = Op("MUL", a, b + 1) /\ t[7] = Op("ADD", temp + 1, 0)
        /\ t[8] = Op("ADC", high, 1) /\ t[9] = Op("ADC", high + 1, temp)
        /\ t[10] = Op("MUL", a + 1, b) /\ t[11] = Op("ADD", temp + 1, 0)
        /\ t[12] = Op("ADC", high, 1) /\ t[13] = Op("ADC", high + 1, temp)
        /\ t[14] = Op("MUL", a + 1, b + 1) /\ t[15] = Op("ADD", high, 0)
        /\ t[16] = Op("ADC", high + 1, 1) /\ t[17] = One("CLR", 1)
    BY DEF Mul16Shr16
  <1>2. P = [k \in 0 .. 16 |-> t[k + 1]]
    BY <1>1 DEF Image
  <1> QED BY <1>1, <1>2

(* The text step by step. *)
LEMMA MulSteps ==
  ASSUME NEW A, NEW P, NEW m, NEW s, Loaded(A, P, 17, m, s), At(A, s, 0, 0),
         NEW temp, NEW high, NEW a, NEW b, MulOperands(temp, high, a, b),
         NEW t, t = Mul16Shr16(temp, high, a, b), P = Image(t)
  PROVE  /\ At(A, s, 17, 17)
         /\ \A r \in A : r \notin {0, 1} \cup Two(temp) \cup Two(high) => s[17].data[r] = m.data[r]
         /\ s[17].data[1] = 0
         /\ s[17].data[high] + 256 * s[17].data[high + 1]
              = ((m.data[a] + 256 * m.data[a + 1]) * (m.data[b] + 256 * m.data[b + 1])) \div 65536
  <1>a. /\ {0, 1, temp, temp + 1, high, high + 1, a, a + 1, b, b + 1} \subseteq Registers
        /\ temp \in Nat /\ high \in Nat /\ a \in Nat /\ b \in Nat
        /\ temp > 1 /\ high > 1 /\ a > 1 /\ b > 1
    BY DEF MulOperands, Registers
  <1>b. /\ temp # high /\ temp # high + 1 /\ temp + 1 # high /\ temp + 1 # high + 1
        /\ \A r \in {a, a + 1, b, b + 1} :
              r # 0 /\ r # 1 /\ r # temp /\ r # temp + 1 /\ r # high /\ r # high + 1
    <2>1. /\ temp \notin Two(high) /\ temp + 1 \notin Two(high)
          /\ \A r \in {a, a + 1, b, b + 1} : r \notin Two(temp) /\ r \notin Two(high)
      BY DEF MulOperands, Two
    <2> QED BY <1>a, <2>1 DEF Two
  <1> DEFINE Wr == {0, 1, temp, temp + 1, high, high + 1}
             Kept(n) == \A r \in A : r \notin Wr => s[n].data[r] = m.data[r]
  <1>c. \A n : At(A, s, n, n) => \A r \in Registers : s[n].data[r] \in Byte
    BY DEF At, Loaded, Machines
  <1>d. \A n \in 0 .. 16 : At(A, s, n, n) => Doing(A, P, 17, m, s, n, n, P[n])
    BY DEF Doing
  <1>e. \A n : Kept(n) => /\ s[n].data[a] = m.data[a] /\ s[n].data[a + 1] = m.data[a + 1]
                          /\ s[n].data[b] = m.data[b] /\ s[n].data[b + 1] = m.data[b + 1]
    BY <1>a, <1>b DEF Loaded
  <1>0. At(A, s, 0, 0) /\ Kept(0)
    BY DEF Loaded, Run
  (* clr *)
  <1>1. /\ At(A, s, 1, 1) /\ Kept(1)
       /\ s[1].data[temp] = 0
    <2>1. Doing(A, P, 17, m, s, 0, 0, One("CLR", temp))
      BY <1>0, <1>d, MulText
    <2>2. Does(A, s, 0, 0, temp, 0)
      BY <1>a, <2>1, ClearDone
    <2> QED BY <1>0, <1>a, <1>b, <2>2 DEF Does, Loaded
  (* clr *)
  <1>2. /\ At(A, s, 2, 2) /\ Kept(2)
       /\ s[2].data[high] = 0
       /\ s[2].data[temp] = s[1].data[temp]
    <2>1. Doing(A, P, 17, m, s, 1, 1, One("CLR", high))
      BY <1>1, <1>d, MulText
    <2>2. Does(A, s, 1, 1, high, 0)
      BY <1>a, <2>1, ClearDone
    <2> QED BY <1>1, <1>a, <1>b, <2>2 DEF Does, Loaded
  (* clr *)
  <1>3. /\ At(A, s, 3, 3) /\ Kept(3)
       /\ s[3].data[high + 1] = 0
       /\ s[3].data[temp] = s[2].data[temp] /\ s[3].data[high] = s[2].data[high]
    <2>1. Doing(A, P, 17, m, s, 2, 2, One("CLR", high + 1))
      BY <1>2, <1>d, MulText
    <2>2. Does(A, s, 2, 2, high + 1, 0)
      BY <1>a, <2>1, ClearDone
    <2> QED BY <1>2, <1>a, <1>b, <2>2 DEF Does, Loaded
  (* mul *)
  <1>4. /\ At(A, s, 4, 4) /\ Kept(4)
       /\ s[4].data[0] + 256 * s[4].data[1] = m.data[a] * m.data[b]
       /\ s[4].data[temp] = s[3].data[temp] /\ s[4].data[high] = s[3].data[high]
       /\ s[4].data[high + 1] = s[3].data[high + 1]
    <2>1. Doing(A, P, 17, m, s, 3, 3, Op("MUL", a, b))
      BY <1>3, <1>d, MulText
    <2>2. Multiplies(A, s, 3, 3, s[3].data[a] * s[3].data[b])
      BY <1>a, <2>1, MultiplyDone
    <2> QED BY <1>3, <1>a, <1>b, <1>e, <2>2 DEF Multiplies, Loaded
  (* mov *)
  <1>5. /\ At(A, s, 5, 5) /\ Kept(5)
       /\ s[5].data[temp + 1] = s[4].data[1]
       /\ s[5].data[temp] = s[4].data[temp] /\ s[5].data[high] = s[4].data[high]
       /\ s[5].data[high + 1] = s[4].data[high + 1]
    <2>1. Doing(A, P, 17, m, s, 4, 4, Op("MOV", temp + 1, 1))
      BY <1>4, <1>d, MulText
    <2>2. Does(A, s, 4, 4, temp + 1, s[4].data[1])
      BY <1>a, <2>1, MoveDone
    <2> QED BY <1>4, <1>a, <1>b, <2>2 DEF Does, Loaded
  (* mul *)
  <1>6. /\ At(A, s, 6, 6) /\ Kept(6)
       /\ s[6].data[0] + 256 * s[6].data[1] = m.data[a] * m.data[b + 1]
       /\ s[6].data[temp] = s[5].data[temp] /\ s[6].data[temp + 1] = s[5].data[temp + 1]
       /\ s[6].data[high] = s[5].data[high] /\ s[6].data[high + 1] = s[5].data[high + 1]
    <2>1. Doing(A, P, 17, m, s, 5, 5, Op("MUL", a, b + 1))
      BY <1>5, <1>d, MulText
    <2>2. Multiplies(A, s, 5, 5, s[5].data[a] * s[5].data[b + 1])
      BY <1>a, <2>1, MultiplyDone
    <2> QED BY <1>5, <1>a, <1>b, <1>e, <2>2 DEF Multiplies, Loaded
  (* add *)
  <1>7. /\ At(A, s, 7, 7) /\ Kept(7)
       /\ s[7].data[temp + 1] + 256 * CarryIn(s[7]) = s[6].data[temp + 1] + s[6].data[0]
       /\ CarryIn(s[7]) \in {0, 1}
       /\ s[7].data[1] = s[6].data[1] /\ s[7].data[temp] = s[6].data[temp]
       /\ s[7].data[high] = s[6].data[high] /\ s[7].data[high + 1] = s[6].data[high + 1]
    <2>1. Doing(A, P, 17, m, s, 6, 6, Op("ADD", temp + 1, 0))
      BY <1>6, <1>d, MulText
    <2>2. Sums(A, s, 6, 6, temp + 1, s[6].data[temp + 1] + s[6].data[0])
      BY <1>a, <2>1, AddDone
    <2> QED BY <1>6, <1>a, <1>b, <2>2 DEF Sums, Loaded
  (* adc *)
  <1>8. /\ At(A, s, 8, 8) /\ Kept(8)
       /\ s[8].data[high] + 256 * CarryIn(s[8]) = s[7].data[high] + s[7].data[1] + CarryIn(s[7])
       /\ CarryIn(s[8]) \in {0, 1}
       /\ s[8].data[temp] = s[7].data[temp] /\ s[8].data[temp + 1] = s[7].data[temp + 1]
       /\ s[8].data[high + 1] = s[7].data[high + 1]
    <2>1. Doing(A, P, 17, m, s, 7, 7, Op("ADC", high, 1))
      BY <1>7, <1>d, MulText
    <2>2. Sums(A, s, 7, 7, high, s[7].data[high] + s[7].data[1] + CarryIn(s[7]))
      BY <1>a, <2>1, AddCarryDone
    <2> QED BY <1>7, <1>a, <1>b, <2>2 DEF Sums, Loaded
  (* adc *)
  <1>9. /\ At(A, s, 9, 9) /\ Kept(9)
       /\ s[9].data[high + 1] + 256 * CarryIn(s[9]) = s[8].data[high + 1] + s[8].data[temp] + CarryIn(s[8])
       /\ CarryIn(s[9]) \in {0, 1}
       /\ s[9].data[temp] = s[8].data[temp] /\ s[9].data[temp + 1] = s[8].data[temp + 1]
       /\ s[9].data[high] = s[8].data[high]
    <2>1. Doing(A, P, 17, m, s, 8, 8, Op("ADC", high + 1, temp))
      BY <1>8, <1>d, MulText
    <2>2. Sums(A, s, 8, 8, high + 1, s[8].data[high + 1] + s[8].data[temp] + CarryIn(s[8]))
      BY <1>a, <2>1, AddCarryDone
    <2> QED BY <1>8, <1>a, <1>b, <2>2 DEF Sums, Loaded
  (* mul *)
  <1>10. /\ At(A, s, 10, 10) /\ Kept(10)
        /\ s[10].data[0] + 256 * s[10].data[1] = m.data[a + 1] * m.data[b]
        /\ s[10].data[temp] = s[9].data[temp] /\ s[10].data[temp + 1] = s[9].data[temp + 1]
        /\ s[10].data[high] = s[9].data[high] /\ s[10].data[high + 1] = s[9].data[high + 1]
    <2>1. Doing(A, P, 17, m, s, 9, 9, Op("MUL", a + 1, b))
      BY <1>9, <1>d, MulText
    <2>2. Multiplies(A, s, 9, 9, s[9].data[a + 1] * s[9].data[b])
      BY <1>a, <2>1, MultiplyDone
    <2> QED BY <1>9, <1>a, <1>b, <1>e, <2>2 DEF Multiplies, Loaded
  (* add *)
  <1>11. /\ At(A, s, 11, 11) /\ Kept(11)
        /\ s[11].data[temp + 1] + 256 * CarryIn(s[11]) = s[10].data[temp + 1] + s[10].data[0]
        /\ CarryIn(s[11]) \in {0, 1}
        /\ s[11].data[1] = s[10].data[1] /\ s[11].data[temp] = s[10].data[temp]
        /\ s[11].data[high] = s[10].data[high] /\ s[11].data[high + 1] = s[10].data[high + 1]
    <2>1. Doing(A, P, 17, m, s, 10, 10, Op("ADD", temp + 1, 0))
      BY <1>10, <1>d, MulText
    <2>2. Sums(A, s, 10, 10, temp + 1, s[10].data[temp + 1] + s[10].data[0])
      BY <1>a, <2>1, AddDone
    <2> QED BY <1>10, <1>a, <1>b, <2>2 DEF Sums, Loaded
  (* adc *)
  <1>12. /\ At(A, s, 12, 12) /\ Kept(12)
        /\ s[12].data[high] + 256 * CarryIn(s[12]) = s[11].data[high] + s[11].data[1] + CarryIn(s[11])
        /\ CarryIn(s[12]) \in {0, 1}
        /\ s[12].data[temp] = s[11].data[temp] /\ s[12].data[high + 1] = s[11].data[high + 1]
    <2>1. Doing(A, P, 17, m, s, 11, 11, Op("ADC", high, 1))
      BY <1>11, <1>d, MulText
    <2>2. Sums(A, s, 11, 11, high, s[11].data[high] + s[11].data[1] + CarryIn(s[11]))
      BY <1>a, <2>1, AddCarryDone
    <2> QED BY <1>11, <1>a, <1>b, <2>2 DEF Sums, Loaded
  (* adc *)
  <1>13. /\ At(A, s, 13, 13) /\ Kept(13)
        /\ s[13].data[high + 1] + 256 * CarryIn(s[13]) = s[12].data[high + 1] + s[12].data[temp] + CarryIn(s[12])
        /\ CarryIn(s[13]) \in {0, 1}
        /\ s[13].data[high] = s[12].data[high]
    <2>1. Doing(A, P, 17, m, s, 12, 12, Op("ADC", high + 1, temp))
      BY <1>12, <1>d, MulText
    <2>2. Sums(A, s, 12, 12, high + 1, s[12].data[high + 1] + s[12].data[temp] + CarryIn(s[12]))
      BY <1>a, <2>1, AddCarryDone
    <2> QED BY <1>12, <1>a, <1>b, <2>2 DEF Sums, Loaded
  (* mul *)
  <1>14. /\ At(A, s, 14, 14) /\ Kept(14)
        /\ s[14].data[0] + 256 * s[14].data[1] = m.data[a + 1] * m.data[b + 1]
        /\ s[14].data[high] = s[13].data[high] /\ s[14].data[high + 1] = s[13].data[high + 1]
    <2>1. Doing(A, P, 17, m, s, 13, 13, Op("MUL", a + 1, b + 1))
      BY <1>13, <1>d, MulText
    <2>2. Multiplies(A, s, 13, 13, s[13].data[a + 1] * s[13].data[b + 1])
      BY <1>a, <2>1, MultiplyDone
    <2> QED BY <1>13, <1>a, <1>b, <1>e, <2>2 DEF Multiplies, Loaded
  (* add *)
  <1>15. /\ At(A, s, 15, 15) /\ Kept(15)
        /\ s[15].data[high] + 256 * CarryIn(s[15]) = s[14].data[high] + s[14].data[0]
        /\ CarryIn(s[15]) \in {0, 1}
        /\ s[15].data[1] = s[14].data[1] /\ s[15].data[high + 1] = s[14].data[high + 1]
    <2>1. Doing(A, P, 17, m, s, 14, 14, Op("ADD", high, 0))
      BY <1>14, <1>d, MulText
    <2>2. Sums(A, s, 14, 14, high, s[14].data[high] + s[14].data[0])
      BY <1>a, <2>1, AddDone
    <2> QED BY <1>14, <1>a, <1>b, <2>2 DEF Sums, Loaded
  (* adc *)
  <1>16. /\ At(A, s, 16, 16) /\ Kept(16)
        /\ s[16].data[high + 1] + 256 * CarryIn(s[16]) = s[15].data[high + 1] + s[15].data[1] + CarryIn(s[15])
        /\ CarryIn(s[16]) \in {0, 1}
        /\ s[16].data[high] = s[15].data[high]
    <2>1. Doing(A, P, 17, m, s, 15, 15, Op("ADC", high + 1, 1))
      BY <1>15, <1>d, MulText
    <2>2. Sums(A, s, 15, 15, high + 1, s[15].data[high + 1] + s[15].data[1] + CarryIn(s[15]))
      BY <1>a, <2>1, AddCarryDone
    <2> QED BY <1>15, <1>a, <1>b, <2>2 DEF Sums, Loaded
  (* clr *)
  <1>17. /\ At(A, s, 17, 17) /\ Kept(17)
        /\ s[17].data[1] = 0
        /\ s[17].data[high] = s[16].data[high] /\ s[17].data[high + 1] = s[16].data[high + 1]
    <2>1. Doing(A, P, 17, m, s, 16, 16, One("CLR", 1))
      BY <1>16, <1>d, MulText
    <2>2. Does(A, s, 16, 16, 1, 0)
      BY <1>a, <2>1, ClearDone
    <2> QED BY <1>16, <1>a, <1>b, <2>2 DEF Does, Loaded
  <1> HIDE DEF Kept
  <1>f. /\ s[4].data[0] \in Byte /\ s[4].data[1] \in Byte
        /\ s[6].data[0] \in Byte /\ s[6].data[1] \in Byte
        /\ s[10].data[0] \in Byte /\ s[10].data[1] \in Byte
        /\ s[14].data[0] \in Byte /\ s[14].data[1] \in Byte
        /\ s[7].data[temp + 1] \in Byte /\ s[8].data[high] \in Byte /\ s[9].data[high + 1] \in Byte
        /\ s[11].data[temp + 1] \in Byte /\ s[12].data[high] \in Byte
        /\ s[13].data[high + 1] \in Byte
        /\ s[15].data[high] \in Byte /\ s[16].data[high + 1] \in Byte
    BY <1>4, <1>6, <1>7, <1>8, <1>9, <1>10, <1>11, <1>12, <1>13, <1>14, <1>15, <1>16, <1>a, <1>c
  <1>g. m.data[a] \in Byte /\ m.data[a + 1] \in Byte /\ m.data[b] \in Byte /\ m.data[b + 1] \in Byte
    BY <1>0, <1>a, <1>c, <1>e
  <1>h. /\ s[7].data[temp + 1] + 256 * CarryIn(s[7]) = s[4].data[1] + s[6].data[0]
        /\ s[8].data[high] + 256 * CarryIn(s[8]) = 0 + s[6].data[1] + CarryIn(s[7])
        /\ s[9].data[high + 1] + 256 * CarryIn(s[9]) = 0 + 0 + CarryIn(s[8])
        /\ s[11].data[temp + 1] + 256 * CarryIn(s[11]) = s[7].data[temp + 1] + s[10].data[0]
        /\ s[12].data[high] + 256 * CarryIn(s[12])
             = s[8].data[high] + s[10].data[1] + CarryIn(s[11])
        /\ s[13].data[high + 1] + 256 * CarryIn(s[13]) = s[9].data[high + 1] + 0 + CarryIn(s[12])
        /\ s[15].data[high] + 256 * CarryIn(s[15]) = s[12].data[high] + s[14].data[0]
        /\ s[16].data[high + 1] + 256 * CarryIn(s[16])
             = s[13].data[high + 1] + s[14].data[1] + CarryIn(s[15])
    BY <1>1, <1>2, <1>3, <1>4, <1>5, <1>6, <1>7, <1>8, <1>9, <1>10, <1>11, <1>12, <1>13, <1>14,
       <1>15, <1>16
  <1>i. s[15].data[high] + 256 * s[16].data[high + 1]
          = ((m.data[a] + 256 * m.data[a + 1]) * (m.data[b] + 256 * m.data[b + 1])) \div 65536
    <2> DEFINE a0 == m.data[a]   a1 == m.data[a + 1]
               b0 == m.data[b]   b1 == m.data[b + 1]
               p0 == s[4].data[0]   p1 == s[4].data[1]
               q0 == s[6].data[0]   q1 == s[6].data[1]
               r0 == s[10].data[0]   r1 == s[10].data[1]
               w0 == s[14].data[0]   w1 == s[14].data[1]
               t1 == s[7].data[temp + 1]   l1 == s[8].data[high]
               h1 == s[9].data[high + 1]   t2 == s[11].data[temp + 1]
               l2 == s[12].data[high]   h2 == s[13].data[high + 1]
               l3 == s[15].data[high]   h3 == s[16].data[high + 1]
               c1 == CarryIn(s[7])   c2 == CarryIn(s[8])
               c3 == CarryIn(s[9])   c4 == CarryIn(s[11])
               c5 == CarryIn(s[12])   c6 == CarryIn(s[13])
               c7 == CarryIn(s[15])   c8 == CarryIn(s[16])
    <2>1. /\ a0 \in Byte /\ a1 \in Byte /\ b0 \in Byte /\ b1 \in Byte
          /\ p0 \in Byte /\ p1 \in Byte /\ q0 \in Byte /\ q1 \in Byte
          /\ r0 \in Byte /\ r1 \in Byte /\ w0 \in Byte /\ w1 \in Byte
          /\ t1 \in Byte /\ l1 \in Byte /\ h1 \in Byte /\ t2 \in Byte
          /\ l2 \in Byte /\ h2 \in Byte /\ l3 \in Byte /\ h3 \in Byte
      BY <1>f, <1>g
    <2>2. /\ c1 \in {0, 1} /\ c2 \in {0, 1} /\ c3 \in {0, 1} /\ c4 \in {0, 1}
          /\ c5 \in {0, 1} /\ c6 \in {0, 1} /\ c7 \in {0, 1} /\ c8 \in {0, 1}
      BY <1>7, <1>8, <1>9, <1>11, <1>12, <1>13, <1>15, <1>16
    <2>3. /\ p0 + 256 * p1 = a0 * b0 /\ q0 + 256 * q1 = a0 * b1
          /\ r0 + 256 * r1 = a1 * b0 /\ w0 + 256 * w1 = a1 * b1
      BY <1>4, <1>6, <1>10, <1>14
    <2>4. /\ t1 + 256 * c1 = p1 + q0 /\ l1 + 256 * c2 = 0 + q1 + c1 /\ h1 + 256 * c3 = 0 + 0 + c2
          /\ t2 + 256 * c4 = t1 + r0 /\ l2 + 256 * c5 = l1 + r1 + c4 /\ h2 + 256 * c6 = h1 + 0 + c5
          /\ l3 + 256 * c7 = l2 + w0 /\ h3 + 256 * c8 = h2 + w1 + c7
      BY <1>h
    <2> HIDE DEF a0, a1, b0, b1, p0, p1, q0, q1, r0, r1, w0, w1, t1, l1, h1, t2, l2, h2, l3, h3,
                 c1, c2, c3, c4, c5, c6, c7, c8
    <2> DEFINE all == (a0 + 256 * a1) * (b0 + 256 * b1)
    <2>5. all = a0 * b0 + 256 * (a0 * b1 + a1 * b0) + 65536 * (a1 * b1)
      BY <2>1 DEF Byte
    <2>6. all = p0 + 256 * p1 + 256 * (q0 + 256 * q1 + (r0 + 256 * r1)) + 65536 * (w0 + 256 * w1)
      BY <2>3, <2>5
    <2>7. all \in Nat /\ all <= 255 * 255 * 66049
      <3> DEFINE e == a0 * b0   f == a0 * b1   g == a1 * b0   h == a1 * b1
      <3>1. /\ e \in Nat /\ e <= 255 * 255 /\ f \in Nat /\ f <= 255 * 255
            /\ g \in Nat /\ g <= 255 * 255 /\ h \in Nat /\ h <= 255 * 255
        BY <2>1, ByteProduct DEF Word
      <3>2. all = e + 256 * (f + g) + 65536 * h
        BY <2>5
      <3> HIDE DEF e, f, g, h, all
      <3> QED BY <3>1, <3>2
    <2> HIDE DEF all
    (* The sums of the middle products have no third carry. *)
    <2>8. c3 = 0 /\ h1 = c2 /\ c6 = 0 /\ h2 = c2 + c5
      BY <2>1, <2>2, <2>4 DEF Byte
    <2>9. all = p0 + 256 * t2 + 65536 * (l3 + 256 * h3) + 65536 * 65536 * c8
      BY <2>1, <2>2, <2>4, <2>6, <2>8 DEF Byte
    <2>10. c8 = 0
      BY <2>1, <2>2, <2>7, <2>9 DEF Byte
    <2> DEFINE lower == p0 + 256 * t2
               upper == l3 + 256 * h3
    <2>11. lower \in Nat /\ lower < 256 * 256 /\ upper \in Nat
      BY <2>1 DEF Byte
    <2>12. all = lower + 65536 * upper
      BY <2>9, <2>10, <2>11
    <2> HIDE DEF lower, upper
    <2>13. all \div 65536 = upper
      BY <2>11, <2>12
    <2> QED BY <2>13 DEF all, upper, a0, a1, b0, b1, l3, h3
  <1>j. s[17].data[high] = s[15].data[high] /\ s[17].data[high + 1] = s[16].data[high + 1]
    BY <1>16, <1>17
  <1> QED BY <1>17, <1>i, <1>j DEF Kept, Two

(* A product shifted right by 16 bits. *)
Shr16(p) == p \div 65536

(* asm.c:20-43 multiplies two words of 16 bits and keeps the upper half of *)
(* the product, rounded down, for all operands, in every allocation of     *)
(* them to registers, from every state of the machine; __zero_reg__ is     *)
(* cleared again and nothing besides the outputs and r0 changes.           *)
THEOREM MulForAll ==
  ASSUME NEW A, Registers \subseteq A,
         NEW temp, NEW high, NEW a, NEW b, MulOperands(temp, high, a, b),
         NEW m \in Machines(A), m.pc = 0, m.status = "running"
  PROVE  LET text == Mul16Shr16(temp, high, a, b)
             q    == Execute(Image(text), Len(text), m, Len(text))
         IN  /\ q \in Machines(A) /\ q.pc = Len(text) /\ q.status = "running"
             /\ Number(q, high, 2) = Shr16(Number(m, a, 2) * Number(m, b, 2))
             /\ q.data[1] = 0
             /\ \A r \in A : r \notin {0, 1} \cup Two(temp) \cup Two(high) => q.data[r] = m.data[r]
  <1> DEFINE text == Mul16Shr16(temp, high, a, b)
             P == Image(text)
             q == Execute(P, Len(text), m, Len(text))
  <1>1. Len(text) = 17 /\ DOMAIN P = 0 .. 16
    BY MulText
  <1>2. PICK s : Run(P, 17, m, s) /\ Execute(P, 17, m, 17) = s[17]
    BY ExecuteRuns
  <1>3. q = s[17]
    BY <1>1, <1>2
  <1>4. Loaded(A, P, 17, m, s) /\ At(A, s, 0, 0)
    BY <1>1, <1>2, ArchAssumption DEF Loaded, Run, At
  <1> HIDE DEF q, P, text
  <1>5. P = Image(text) /\ text = Mul16Shr16(temp, high, a, b)
    BY DEF P, text
  <1>6. /\ At(A, s, 17, 17)
        /\ \A r \in A : r \notin {0, 1} \cup Two(temp) \cup Two(high) => s[17].data[r] = m.data[r]
        /\ s[17].data[1] = 0
        /\ s[17].data[high] + 256 * s[17].data[high + 1]
              = ((m.data[a] + 256 * m.data[a + 1]) * (m.data[b] + 256 * m.data[b + 1])) \div 65536
    BY <1>4, <1>5, MulSteps
  <1>7. ASSUME NEW h \in Machines(A), NEW r \in 2 .. 30
        PROVE  Number(h, r, 2) = h.data[r] + 256 * h.data[r + 1]
    <2>1. r \in Registers /\ r + 1 \in Registers
      BY DEF Registers
    <2>2. h.data[r] \in Int /\ h.data[r + 1] \in Int
      BY <2>1, BytesHeld
    <2> QED BY <2>2 DEF Number
  <1>8. q \in Machines(A) /\ q.pc = 17 /\ q.status = "running"
    BY <1>3, <1>6 DEF At
  <1>9. /\ Number(q, high, 2) = q.data[high] + 256 * q.data[high + 1]
        /\ Number(m, a, 2) = m.data[a] + 256 * m.data[a + 1]
        /\ Number(m, b, 2) = m.data[b] + 256 * m.data[b + 1]
    BY <1>7, <1>8 DEF MulOperands
  <1>10. Number(q, high, 2) = Shr16(Number(m, a, 2) * Number(m, b, 2))
    BY <1>3, <1>6, <1>9 DEF Shr16
  <1> QED BY <1>1, <1>3, <1>6, <1>8, <1>10 DEF q, P, text
-----------------------------------------------------------------------------
(* ADVANCE_POSITION. *)

LEMMA ShiftDone ==
  ASSUME NEW A, NEW P, NEW end, NEW m, NEW s, NEW n, NEW k, NEW rd \in Registers,
         Doing(A, P, end, m, s, n, k, One("ASR", rd)),
         NEW val, val = s[n].data[rd]
  PROVE  Does(A, s, n, k, rd, IF val >= 128 THEN (val + 256) \div 2 ELSE val \div 2)
  <1>1. One("ASR", rd) = Op("ASR", rd, 0) /\ Op("ASR", rd, 0).id \in OneWord
    BY DEF One, Op, OneWord
  <1>2. PICK q : s[n + 1] = Perform(Op("ASR", rd, 0), q) /\ Fetched(A, q, s[n], 1)
    BY <1>1, Fetch
  <1> DEFINE z == s[n + 1]
             g == Signed(val) % 512
             h == g \div 2
             f == RorFlags(g)
             mask == {"S", "V", "N", "Z", "C"}
  <1>3. q \in Machines(A) /\ s[n] \in Machines(A) /\ rd \in A
    BY <1>2 DEF Fetched, Doing, Loaded, At
  <1>4. val \in Byte
    BY <1>3 DEF Machines
  <1>5. q.pc = k + 1 /\ q.status = "running" /\ q.data = s[n].data
    BY <1>2 DEF Fetched, Doing, At
  <1>6. h = (IF val >= 128 THEN (val + 256) \div 2 ELSE val \div 2) /\ h \in Byte
    <2>1. g = IF val >= 128 THEN val + 256 ELSE val
      <3>1. CASE val < 128
        <4>1. Signed(val) = val /\ val \in 0 .. 255
          BY <1>4, <3>1 DEF Signed, Byte
        <4> QED BY <3>1, <4>1
      <3>2. CASE ~(val < 128)
        <4>1. Signed(val) = val - 256 /\ val \in 0 .. 255
          BY <1>4, <3>2 DEF Signed, Byte
        <4>2. (val - 256) % 512 = val + 256
          BY <3>2, <4>1
        <4> QED BY <3>2, <4>1, <4>2
      <3> QED BY <3>1, <3>2
    <2> HIDE DEF g, f, z
    <2>2. CASE val >= 128
      <3>1. g \in Nat /\ g = val + 256 /\ g <= 511
        BY <1>4, <2>1, <2>2 DEF Byte
      <3> QED BY <2>2, <3>1 DEF Byte
    <2>3. CASE ~(val >= 128)
      <3>1. g \in Nat /\ g = val /\ g <= 127
        BY <1>4, <2>1, <2>3 DEF Byte
      <3> QED BY <2>3, <3>1 DEF Byte
    <2> QED BY <2>2, <2>3
  <1>7. f \subseteq {"C", "Z", "N", "V", "S", "H", "T", "I"}
    BY DEF RorFlags, WithZns, Only
  <1>8. z = UpdateFlags(PutReg(q, rd, h), mask, f)
    BY <1>2, <1>5, PerformOne DEF Reg, RotateRight
  <1> HIDE DEF z, h, f, g, mask
  <1> DEFINE w == PutReg(q, rd, h)
  <1>9. w \in Machines(A) /\ w.pc = q.pc /\ w.status = q.status /\ w.data = [q.data EXCEPT ![rd] = h]
    BY <1>3, <1>6, PutByte
  <1>10. z = UpdateFlags(w, mask, f)
    BY <1>8
  <1> HIDE DEF w
  <1>11. z \in Machines(A) /\ z.pc = w.pc /\ z.status = w.status /\ z.data = w.data
    <2>1. w \in Machines(A)
      BY <1>9
    <2>2. LET i == UpdateFlags(w, mask, f)
          IN  i \in Machines(A) /\ i.pc = w.pc /\ i.status = w.status /\ i.data = w.data
      BY <1>7, <2>1, Flagged
    <2> QED BY <1>10, <2>2
  <1>12. z.data[rd] = h /\ \A r \in A : r # rd => z.data[r] = s[n].data[r]
    BY <1>3, <1>5, <1>9, <1>11 DEF Machines
  <1>13. Does(A, s, n, k, rd, h)
    BY <1>5, <1>9, <1>11, <1>12 DEF Does, At, z
  <1> QED BY <1>6, <1>13

PositionOperands(counter, dir) == counter \in 1 .. 29 /\ dir \in 1 .. 31 \ Three(counter)

LEMMA PositionText ==
  ASSUME NEW counter, NEW dir, NEW t, t = AdvancePosition(counter, dir), NEW P, P = Image(t)
  PROVE  /\ Len(t) = 5 /\ DOMAIN P = 0 .. 4
         /\ P[0] = Op("MOV", 0, dir) /\ P[1] = One("ASR", 0) /\ P[2] = Op("ADD", counter, dir)
         /\ P[3] = Op("ADC", counter + 1, 0) /\ P[4] = Op("ADC", counter + 2, 0)
  <1>1. /\ Len(t) = 5
        /\ t[1] = Op("MOV", 0, dir) /\ t[2] = One("ASR", 0) /\ t[3] = Op("ADD", counter, dir)
        /\ t[4] = Op("ADC", counter + 1, 0) /\ t[5] = Op("ADC", counter + 2, 0)
    BY DEF AdvancePosition
  <1>2. P = [k \in 0 .. 4 |-> t[k + 1]]
    BY <1>1 DEF Image
  <1> QED BY <1>1, <1>2

LEMMA PositionSteps ==
  ASSUME NEW A, NEW P, NEW m, NEW s, Loaded(A, P, 5, m, s), At(A, s, 0, 0),
         NEW counter, NEW dir, PositionOperands(counter, dir),
         NEW t, t = AdvancePosition(counter, dir), P = Image(t),
         NEW d, d = m.data[dir], NEW ext, ext = IF d >= 128 THEN (d + 256) \div 2 ELSE d \div 2
  PROVE  /\ At(A, s, 5, 5)
         /\ \A r \in A : r \notin {0} \cup Three(counter) => s[5].data[r] = m.data[r]
         /\ CarryIn(s[3]) \in {0, 1} /\ CarryIn(s[4]) \in {0, 1} /\ CarryIn(s[5]) \in {0, 1}
         /\ s[5].data[counter] + 256 * CarryIn(s[3]) = m.data[counter] + d
         /\ s[5].data[counter + 1] + 256 * CarryIn(s[4])
              = m.data[counter + 1] + ext + CarryIn(s[3])
         /\ s[5].data[counter + 2] + 256 * CarryIn(s[5])
              = m.data[counter + 2] + ext + CarryIn(s[4])
  <1>a. {0, counter, counter + 1, counter + 2, dir} \subseteq Registers /\ counter \in Nat
    BY DEF Registers, PositionOperands
  <1>b. dir # 0 /\ dir # counter /\ dir # counter + 1 /\ dir # counter + 2 /\ counter # 0
        /\ counter + 1 # 0 /\ counter + 2 # 0
    BY DEF Three, PositionOperands
  <1>c. \A n \in 0 .. 4 : At(A, s, n, n) => Doing(A, P, 5, m, s, n, n, P[n])
    BY DEF Doing
  <1>0. s[0] = m
    BY DEF Loaded, Run
  (* mov *)
  <1>1. /\ At(A, s, 1, 1) /\ s[1].data[0] = d
        /\ \A r \in A : r # 0 => s[1].data[r] = m.data[r]
    <2>1. Doing(A, P, 5, m, s, 0, 0, Op("MOV", 0, dir))
      BY <1>c, PositionText
    <2>2. Does(A, s, 0, 0, 0, s[0].data[dir])
      BY <1>a, <2>1, MoveDone
    <2> QED BY <1>0, <2>2 DEF Does
  (* asr *)
  <1>2. /\ At(A, s, 2, 2) /\ s[2].data[0] = ext
        /\ \A r \in A : r # 0 => s[2].data[r] = m.data[r]
    <2>1. Doing(A, P, 5, m, s, 1, 1, One("ASR", 0))
      BY <1>1, <1>c, PositionText
    <2>2. d = s[1].data[0]
      BY <1>1
    <2>3. Does(A, s, 1, 1, 0, IF d >= 128 THEN (d + 256) \div 2 ELSE d \div 2)
      BY <1>a, <2>1, <2>2, ShiftDone
    <2>4. Does(A, s, 1, 1, 0, ext)
      BY <2>3
    <2> QED BY <1>1, <2>4 DEF Does
  (* add *)
  <1>3. /\ At(A, s, 3, 3) /\ CarryIn(s[3]) \in {0, 1}
        /\ s[3].data[counter] + 256 * CarryIn(s[3]) = m.data[counter] + d
        /\ \A r \in A : r # counter => s[3].data[r] = s[2].data[r]
    <2>1. Doing(A, P, 5, m, s, 2, 2, Op("ADD", counter, dir))
      BY <1>2, <1>c, PositionText
    <2>2. Sums(A, s, 2, 2, counter, s[2].data[counter] + s[2].data[dir])
      BY <1>a, <2>1, AddDone
    <2> QED BY <1>2, <1>a, <1>b, <2>2 DEF Sums, Loaded
  (* adc *)
  <1>4. /\ At(A, s, 4, 4) /\ CarryIn(s[4]) \in {0, 1}
        /\ s[4].data[counter + 1] + 256 * CarryIn(s[4])
             = m.data[counter + 1] + ext + CarryIn(s[3])
        /\ \A r \in A : r # counter + 1 => s[4].data[r] = s[3].data[r]
    <2>1. Doing(A, P, 5, m, s, 3, 3, Op("ADC", counter + 1, 0))
      BY <1>3, <1>c, PositionText
    <2>2. Sums(A, s, 3, 3, counter + 1, s[3].data[counter + 1] + s[3].data[0] + CarryIn(s[3]))
      BY <1>a, <2>1, AddCarryDone
    <2>3. s[3].data[counter + 1] = m.data[counter + 1] /\ s[3].data[0] = ext
      BY <1>2, <1>3, <1>a, <1>b DEF Loaded
    <2> QED BY <2>2, <2>3 DEF Sums
  (* adc *)
  <1>5. /\ At(A, s, 5, 5) /\ CarryIn(s[5]) \in {0, 1}
        /\ s[5].data[counter + 2] + 256 * CarryIn(s[5])
             = m.data[counter + 2] + ext + CarryIn(s[4])
        /\ \A r \in A : r # counter + 2 => s[5].data[r] = s[4].data[r]
    <2>1. Doing(A, P, 5, m, s, 4, 4, Op("ADC", counter + 2, 0))
      BY <1>4, <1>c, PositionText
    <2>2. Sums(A, s, 4, 4, counter + 2, s[4].data[counter + 2] + s[4].data[0] + CarryIn(s[4]))
      BY <1>a, <2>1, AddCarryDone
    <2>3. s[4].data[counter + 2] = m.data[counter + 2] /\ s[4].data[0] = ext
      BY <1>2, <1>3, <1>4, <1>a, <1>b DEF Loaded
    <2> QED BY <2>2, <2>3 DEF Sums
  <1>6. \A r \in A : r \notin {0} \cup Three(counter) => s[5].data[r] = m.data[r]
    BY <1>2, <1>3, <1>4, <1>5 DEF Three
  <1>7. /\ s[5].data[counter] = s[3].data[counter]
        /\ s[5].data[counter + 1] = s[4].data[counter + 1]
    BY <1>4, <1>5, <1>a DEF Loaded
  <1> QED BY <1>3, <1>4, <1>5, <1>6, <1>7

(* asm.h:33-41 adds a direction, 1 or -1, to a position of 24 bits, in     *)
(* every allocation of the two to registers, from every state of the       *)
(* machine, and changes nothing else but r0.                               *)
THEOREM PositionForAll ==
  ASSUME W = 256 * 65536, NEW A, Registers \subseteq A,
         NEW counter, NEW dir, PositionOperands(counter, dir),
         NEW m \in Machines(A), m.pc = 0, m.status = "running",
         NEW d \in {1, -1}, m.data[dir] = IF d = 1 THEN 1 ELSE 255
  PROVE  LET text == AdvancePosition(counter, dir)
             q    == Execute(Image(text), Len(text), m, Len(text))
         IN  /\ q \in Machines(A) /\ q.pc = Len(text) /\ q.status = "running"
             /\ Number(q, counter, 3) = Wrap(Number(m, counter, 3) + d)
             /\ \A r \in A : r \notin {0} \cup Three(counter) => q.data[r] = m.data[r]
  <1> DEFINE text == AdvancePosition(counter, dir)
             P == Image(text)
             q == Execute(P, Len(text), m, Len(text))
             low == m.data[dir]
             ext == IF low >= 128 THEN (low + 256) \div 2 ELSE low \div 2
  <1>1. Len(text) = 5 /\ DOMAIN P = 0 .. 4
    BY PositionText
  <1>2. PICK s : Run(P, 5, m, s) /\ Execute(P, 5, m, 5) = s[5]
    BY ExecuteRuns
  <1>3. q = s[5]
    BY <1>1, <1>2
  <1>4. Loaded(A, P, 5, m, s) /\ At(A, s, 0, 0)
    BY <1>1, <1>2, ArchAssumption DEF Loaded, Run, At
  <1>5. ext = IF d = 1 THEN 0 ELSE 255
    <2> HIDE DEF low
    <2>1. low = IF d = 1 THEN 1 ELSE 255
      BY DEF low
    <2> QED BY <2>1
  <1> HIDE DEF q, P, text, ext, low
  <1>6. /\ At(A, s, 5, 5)
        /\ \A r \in A : r \notin {0} \cup Three(counter) => s[5].data[r] = m.data[r]
        /\ CarryIn(s[3]) \in {0, 1} /\ CarryIn(s[4]) \in {0, 1} /\ CarryIn(s[5]) \in {0, 1}
        /\ s[5].data[counter] + 256 * CarryIn(s[3]) = m.data[counter] + low
        /\ s[5].data[counter + 1] + 256 * CarryIn(s[4])
             = m.data[counter + 1] + ext + CarryIn(s[3])
        /\ s[5].data[counter + 2] + 256 * CarryIn(s[5])
             = m.data[counter + 2] + ext + CarryIn(s[4])
    <2>1. P = Image(text) /\ text = AdvancePosition(counter, dir) /\ low = m.data[dir]
          /\ ext = IF low >= 128 THEN (low + 256) \div 2 ELSE low \div 2
      BY DEF P, text, low, ext
    <2> QED BY <1>4, <2>1, PositionSteps
  <1>7. q \in Machines(A) /\ q.pc = 5 /\ q.status = "running"
    BY <1>3, <1>6 DEF At
  <1> DEFINE c0 == m.data[counter]   c1 == m.data[counter + 1]   c2 == m.data[counter + 2]
             d0 == s[5].data[counter]
             d1 == s[5].data[counter + 1]
             d2 == s[5].data[counter + 2]
             k0 == CarryIn(s[3])   k1 == CarryIn(s[4])   k2 == CarryIn(s[5])
  <1>8. counter \in Registers /\ counter + 1 \in Registers /\ counter + 2 \in Registers
    BY DEF PositionOperands, Registers
  <1>9. /\ c0 \in Byte /\ c1 \in Byte /\ c2 \in Byte
        /\ d0 \in Byte /\ d1 \in Byte /\ d2 \in Byte
        /\ k0 \in {0, 1} /\ k1 \in {0, 1} /\ k2 \in {0, 1}
    BY <1>6, <1>8 DEF At, Machines
  <1>10. /\ d0 + 256 * k0 = c0 + (IF d = 1 THEN 1 ELSE 255)
         /\ d1 + 256 * k1 = c1 + ext + k0 /\ d2 + 256 * k2 = c2 + ext + k1
    BY <1>6 DEF low
  <1>11. /\ Number(m, counter, 3) = c0 + 256 * c1 + 65536 * c2
         /\ Number(q, counter, 3) = d0 + 256 * d1 + 65536 * d2
    BY <1>3 DEF Number
  <1> HIDE DEF c0, c1, c2, d0, d1, d2, k0, k1, k2
  <1>12. Number(q, counter, 3) = Wrap(Number(m, counter, 3) + d)
    <2> DEFINE before == c0 + 256 * c1 + 65536 * c2
               after  == d0 + 256 * d1 + 65536 * d2
    <2>1. /\ before \in Nat /\ before < 256 * 65536 /\ after \in Nat /\ after < 256 * 65536
      BY <1>9 DEF Byte
    <2>2. CASE d = 1
      <3>1. after + 256 * 65536 * k2 = before + 1
        BY <1>5, <1>9, <1>10, <2>2 DEF Byte
      <3> HIDE DEF before, after
      <3> QED BY <1>9, <1>11, <2>1, <2>2, <3>1 DEF Wrap, before, after
    <2>3. CASE d = -1
      <3>1. after + 256 * 65536 * k2 = before + 256 * 65536 - 1
        BY <1>5, <1>9, <1>10, <2>3 DEF Byte
      <3> HIDE DEF before, after
      <3> QED BY <1>9, <1>11, <2>1, <2>3, <3>1 DEF Wrap, before, after
    <2> QED BY <2>2, <2>3
  <1> QED BY <1>1, <1>3, <1>6, <1>7, <1>12 DEF q, P, text
-----------------------------------------------------------------------------
(* The stack. *)

LEMMA WordOfBytes ==
  ASSUME NEW A, NEW m \in Machines(A), SPL \in A, SPL + 1 \in A
  PROVE  Sp(m) \in Word
  <1>1. m.data[SPL] \in Byte /\ m.data[SPL + 1] \in Byte
    BY DEF Machines
  <1> DEFINE a == m.data[SPL]   b == m.data[SPL + 1]
  <1> HIDE DEF a, b
  <1>2. a \in Byte /\ b \in Byte
    BY <1>1 DEF a, b
  <1>3. a + 256 * b \in Word
    BY <1>2 DEF Byte, Word
  <1> QED BY <1>3 DEF a, b, Sp

LEMMA MoveStack ==
  ASSUME NEW A, NEW m \in Machines(A), SPL \in A, SPL + 1 \in A, NEW val \in Word
  PROVE  LET q == SetSp(m, val)
         IN  /\ q \in Machines(A) /\ q.pc = m.pc /\ q.status = m.status /\ q.sreg = m.sreg
             /\ Sp(q) = val
             /\ \A r \in A : r \notin {SPL, SPL + 1} => q.data[r] = m.data[r]
  <1> DEFINE rd == SPL
             q == PutWordReg(m, rd, val)
  <1>1. rd \in Nat /\ rd \in A /\ rd + 1 \in A
    BY DEF SPL
  <1>2. rd = SPL
    OBVIOUS
  <1> HIDE DEF rd, q
  <1>a. m \in Machines(A) /\ val \in Word
    OBVIOUS
  <1>3. LET h == PutWordReg(m, rd, val)
        IN  /\ h \in Machines(A) /\ h.pc = m.pc /\ h.status = m.status /\ h.sreg = m.sreg
            /\ h.data[rd] + 256 * h.data[rd + 1] = val
            /\ \A r \in A : r \notin {rd, rd + 1} => h.data[r] = m.data[r]
    BY <1>1, <1>a, PutWord
  <1>4. /\ q \in Machines(A) /\ q.pc = m.pc /\ q.status = m.status /\ q.sreg = m.sreg
        /\ q.data[rd] + 256 * q.data[rd + 1] = val
        /\ \A r \in A : r \notin {rd, rd + 1} => q.data[r] = m.data[r]
    BY <1>3 DEF q
  <1>5. q = SetSp(m, val)
    BY <1>2 DEF q, SetSp
  <1>6. Sp(q) = val
    BY <1>2, <1>4 DEF Sp
  <1> QED BY <1>2, <1>4, <1>5, <1>6

LEMMA PushDone ==
  ASSUME NEW A, NEW P, NEW end, NEW m, NEW s, NEW n, NEW k, NEW rr \in Registers,
         Doing(A, P, end, m, s, n, k, One("PUSH", rr)),
         NEW sp, sp = Sp(s[n]), sp >= StackLimit, {SPL, SPL + 1, sp} \subseteq A
  PROVE  /\ At(A, s, n + 1, k + 1) /\ Sp(s[n + 1]) = sp - 1
         /\ s[n + 1].data[sp] = s[n].data[rr]
         /\ \A r \in A : r \notin {sp, SPL, SPL + 1} => s[n + 1].data[r] = s[n].data[r]
  <1>1. One("PUSH", rr) = Op("PUSH", rr, 0) /\ Op("PUSH", rr, 0).id \in OneWord
    BY DEF One, Op, OneWord
  <1>2. PICK q : s[n + 1] = Perform(Op("PUSH", rr, 0), q) /\ Fetched(A, q, s[n], 1)
    BY <1>1, Fetch
  <1> DEFINE z == s[n + 1]
             val == s[n].data[rr]
             w == PutReg(q, sp, val)
             below == sp - 1
  <1>3. q \in Machines(A) /\ s[n] \in Machines(A) /\ rr \in A /\ sp \in A
    BY <1>2 DEF Fetched, Doing, Loaded, At
  <1>4. val \in Byte
    BY <1>3 DEF Machines
  <1>5. q.pc = k + 1 /\ q.status = "running" /\ q.data = s[n].data
    BY <1>2 DEF Fetched, Doing, At
  <1>6. sp \in Word /\ Sp(q) = sp
    <2>1. SPL \in A /\ SPL + 1 \in A
      OBVIOUS
    <2>2. Sp(q) = Sp(s[n])
      BY <1>5 DEF Sp
    <2> QED BY <1>3, <2>1, <2>2, WordOfBytes
  <1>7. /\ sp # SREG /\ sp # SPL /\ sp # SPL + 1 /\ ~(sp < StackLimit)
        /\ below \in Word
    BY <1>6 DEF Word, StackLimit, SREG, SPL
  <1>8. z = SetSp(w, below)
    <2>1. z = PushByte(q, val)
      BY <1>2, <1>5, PerformOne DEF Reg
    <2>2. Write(q, sp, val) = w
      BY <1>7 DEF Write, PutReg
    <2> HIDE DEF z, w, val
    <2> QED BY <1>6, <1>7, <2>1, <2>2 DEF PushByte
  <1> HIDE DEF z, val
  <1>9. w \in Machines(A) /\ w.pc = q.pc /\ w.status = q.status /\ w.data = [q.data EXCEPT ![sp] = val]
    BY <1>3, <1>4, PutByte
  <1> HIDE DEF w, below
  <1>10. /\ z \in Machines(A) /\ z.pc = w.pc /\ z.status = w.status /\ Sp(z) = below
         /\ \A r \in A : r \notin {SPL, SPL + 1} => z.data[r] = w.data[r]
    <2>1. w \in Machines(A) /\ SPL \in A /\ SPL + 1 \in A
      BY <1>9
    <2>2. LET h == SetSp(w, below)
          IN  /\ h \in Machines(A) /\ h.pc = w.pc /\ h.status = w.status /\ h.sreg = w.sreg
              /\ Sp(h) = below
              /\ \A r \in A : r \notin {SPL, SPL + 1} => h.data[r] = w.data[r]
      BY <1>7, <2>1, MoveStack
    <2> QED BY <1>8, <2>2
  <1>11. /\ z.data[sp] = val
         /\ \A r \in A : r \notin {sp, SPL, SPL + 1} => z.data[r] = s[n].data[r]
    BY <1>3, <1>5, <1>7, <1>9, <1>10 DEF Machines
  <1> QED BY <1>5, <1>9, <1>10, <1>11 DEF At, z, val, below

LEMMA PopDone ==
  ASSUME NEW A, NEW P, NEW end, NEW m, NEW s, NEW n, NEW k, NEW rd \in Registers,
         Doing(A, P, end, m, s, n, k, One("POP", rd)),
         NEW top, top = Sp(s[n]) + 1, top >= StackLimit, top \in Word,
         {SPL, SPL + 1, top} \subseteq A
  PROVE  /\ At(A, s, n + 1, k + 1) /\ Sp(s[n + 1]) = top
         /\ s[n + 1].data[rd] = s[n].data[top] /\ CarryIn(s[n + 1]) = CarryIn(s[n])
         /\ \A r \in A : r \notin {rd, SPL, SPL + 1} => s[n + 1].data[r] = s[n].data[r]
  <1>1. One("POP", rd) = Op("POP", rd, 0) /\ Op("POP", rd, 0).id \in OneWord
    BY DEF One, Op, OneWord
  <1>2. PICK q : s[n + 1] = Perform(Op("POP", rd, 0), q) /\ Fetched(A, q, s[n], 1)
    BY <1>1, Fetch
  <1> DEFINE z == s[n + 1]
             w == SetSp(q, top)
             val == w.data[top]
  <1>3. q \in Machines(A) /\ s[n] \in Machines(A) /\ rd \in A /\ top \in A
    BY <1>2 DEF Fetched, Doing, Loaded, At
  <1>4. q.pc = k + 1 /\ q.status = "running" /\ q.data = s[n].data /\ q.sreg = s[n].sreg
    BY <1>2 DEF Fetched, Doing, At
  <1>5. top # SREG /\ top # SPL /\ top # SPL + 1 /\ rd # SPL /\ rd # SPL + 1
    BY DEF Word, StackLimit, SREG, SPL, Registers
  <1>6. z = PutReg(w, rd, val)
    <2>1. Sp(q) + 1 = top
      BY <1>4 DEF Sp
    <2>2. z = PopByte(q, rd)
      BY <1>2, PerformOne
    <2>3. Read(w, top) = val
      BY <1>5 DEF Read
    <2> HIDE DEF z, w, val
    <2>4. w = SetSp(q, Sp(q) + 1)
      BY <2>1 DEF w
    <2> QED BY <2>1, <2>2, <2>3, <2>4 DEF PopByte
  <1>7. /\ w \in Machines(A) /\ w.pc = q.pc /\ w.status = q.status /\ w.sreg = q.sreg
        /\ Sp(w) = top
        /\ \A r \in A : r \notin {SPL, SPL + 1} => w.data[r] = q.data[r]
    <2>1. SPL \in A /\ SPL + 1 \in A
      OBVIOUS
    <2>2. LET h == SetSp(q, top)
          IN  /\ h \in Machines(A) /\ h.pc = q.pc /\ h.status = q.status /\ h.sreg = q.sreg
              /\ Sp(h) = top
              /\ \A r \in A : r \notin {SPL, SPL + 1} => h.data[r] = q.data[r]
      BY <1>3, <2>1, MoveStack
    <2> QED BY <2>2
  <1> HIDE DEF z, w
  <1>8. val \in Byte /\ val = s[n].data[top]
    BY <1>3, <1>4, <1>5, <1>7 DEF Machines
  <1> HIDE DEF val
  <1>9. /\ z \in Machines(A) /\ z.pc = w.pc /\ z.status = w.status /\ z.sreg = w.sreg
        /\ z.data = [w.data EXCEPT ![rd] = val]
    BY <1>3, <1>6, <1>7, <1>8, PutByte
  <1>10. z.data[rd] = val /\ \A r \in A : r # rd => z.data[r] = w.data[r]
    BY <1>3, <1>7, <1>9 DEF Machines
  <1>11. Sp(z) = Sp(w)
    BY <1>5, <1>10 DEF Sp
  <1>12. CarryIn(z) = CarryIn(s[n])
    BY <1>4, <1>7, <1>9 DEF CarryIn
  <1>13. \A r \in A : r \notin {rd, SPL, SPL + 1} => z.data[r] = s[n].data[r]
    BY <1>4, <1>7, <1>10
  <1> QED BY <1>4, <1>7, <1>8, <1>9, <1>10, <1>11, <1>12, <1>13 DEF At, z
-----------------------------------------------------------------------------
(* TIMES_TEN. *)

Four(r) == {r, r + 1, r + 2, r + 3}

TwoTo24 == 256 * 65536

(* A number of 32 bits in four registers. *)
Long(m, r) == m.data[r] + 256 * m.data[r + 1] + 65536 * m.data[r + 2] + TwoTo24 * m.data[r + 3]

(* The sequence c is a followed by b, all of members of S. *)
Joins(S, c, a, b) ==
  /\ c \in Seq(S) /\ Len(c) = Len(a) + Len(b)
  /\ \A i \in 1 .. Len(a) : c[i] = a[i]
  /\ \A i \in 1 .. Len(b) : c[Len(a) + i] = b[i]

LEMMA Joined ==
  ASSUME NEW S, NEW a \in Seq(S), NEW b \in Seq(S)
  PROVE  Joins(S, a \o b, a, b)
  BY DEF Joins

LEMMA TenText ==
  ASSUME NEW r, NEW t, t = TimesTen(r), NEW P, P = Image(t)
  PROVE  /\ Len(t) = 24 /\ DOMAIN P = 0 .. 23
         /\ \A n \in {0, 8, 12} :
               /\ P[n] = One("LSL", r) /\ P[n + 1] = One("ROL", r + 1)
               /\ P[n + 2] = One("ROL", r + 2) /\ P[n + 3] = One("ROL", r + 3)
         /\ P[4] = One("PUSH", r + 3) /\ P[5] = One("PUSH", r + 2)
         /\ P[6] = One("PUSH", r + 1) /\ P[7] = One("PUSH", r)
         /\ P[16] = One("POP", 0) /\ P[17] = Op("ADD", r, 0)
         /\ P[18] = One("POP", 0) /\ P[19] = Op("ADC", r + 1, 0)
         /\ P[20] = One("POP", 0) /\ P[21] = Op("ADC", r + 2, 0)
         /\ P[22] = One("POP", 0) /\ P[23] = Op("ADC", r + 3, 0)
  <1> DEFINE l0 == One("LSL", r)   l1 == One("ROL", r + 1)
             l2 == One("ROL", r + 2)   l3 == One("ROL", r + 3)
             p0 == One("PUSH", r + 3)   p1 == One("PUSH", r + 2)
             p2 == One("PUSH", r + 1)   p3 == One("PUSH", r)
             o  == One("POP", 0)
             a0 == Op("ADD", r, 0)   a1 == Op("ADC", r + 1, 0)
             a2 == Op("ADC", r + 2, 0)   a3 == Op("ADC", r + 3, 0)
             S == {l0, l1, l2, l3, p0, p1, p2, p3, o, a0, a1, a2, a3}
             d == <<l0, l1, l2, l3>>
             p == <<p0, p1, p2, p3>>
             e == <<o, a0, o, a1, o, a2, o, a3>>
  <1>1. t = d \o p \o d \o d \o e
    BY DEF TimesTen, Doubled
  <1> HIDE DEF l0, l1, l2, l3, p0, p1, p2, p3, o, a0, a1, a2, a3
  <1>2. /\ d \in Seq(S) /\ Len(d) = 4
        /\ d[1] = l0 /\ d[2] = l1 /\ d[3] = l2 /\ d[4] = l3
    OBVIOUS
  <1>3. /\ p \in Seq(S) /\ Len(p) = 4
        /\ p[1] = p0 /\ p[2] = p1 /\ p[3] = p2 /\ p[4] = p3
    OBVIOUS
  <1>4. /\ e \in Seq(S) /\ Len(e) = 8
        /\ e[1] = o /\ e[2] = a0 /\ e[3] = o /\ e[4] = a1
        /\ e[5] = o /\ e[6] = a2 /\ e[7] = o /\ e[8] = a3
    OBVIOUS
  <1> DEFINE t1 == d \o p   t2 == t1 \o d   t3 == t2 \o d
  <1> HIDE DEF d, p, e, S
  <1>5. /\ t1 \in Seq(S) /\ Len(t1) = 8
        /\ \A i \in 1 .. 4 : t1[i] = d[i] /\ t1[4 + i] = p[i]
    <2>1. Joins(S, t1, d, p)
      BY <1>2, <1>3, Joined, Zenon
    <2> HIDE DEF t1
    <2> QED BY <1>2, <1>3, <2>1 DEF Joins
  <1> HIDE DEF t1
  <1>6. /\ t2 \in Seq(S) /\ Len(t2) = 12
        /\ \A i \in 1 .. 8 : t2[i] = t1[i]
        /\ \A i \in 1 .. 4 : t2[8 + i] = d[i]
    <2>1. Joins(S, t2, t1, d)
      BY <1>2, <1>5, Joined, Zenon
    <2> HIDE DEF t2
    <2> QED BY <1>2, <1>5, <2>1 DEF Joins
  <1> HIDE DEF t2
  <1>7. /\ t3 \in Seq(S) /\ Len(t3) = 16
        /\ \A i \in 1 .. 12 : t3[i] = t2[i]
        /\ \A i \in 1 .. 4 : t3[12 + i] = d[i]
    <2>1. Joins(S, t3, t2, d)
      BY <1>2, <1>6, Joined, Zenon
    <2> HIDE DEF t3
    <2> QED BY <1>2, <1>6, <2>1 DEF Joins
  <1>8. t = t3 \o e
    BY <1>1 DEF t1, t2
  <1> HIDE DEF t3
  <1>9. /\ Len(t) = 24
        /\ \A i \in 1 .. 16 : t[i] = t3[i]
        /\ \A i \in 1 .. 8 : t[16 + i] = e[i]
    <2>1. Joins(S, t, t3, e)
      BY <1>4, <1>7, <1>8, Joined, Zenon
    <2> QED BY <1>4, <1>7, <2>1 DEF Joins
  <1>10. P = [k \in 0 .. 23 |-> t[k + 1]]
    BY <1>9 DEF Image
  <1>11. /\ \A n \in {0, 8, 12} : P[n] = l0 /\ P[n + 1] = l1 /\ P[n + 2] = l2 /\ P[n + 3] = l3
    <2>1. P[0] = l0 /\ P[1] = l1 /\ P[2] = l2 /\ P[3] = l3
      BY <1>2, <1>5, <1>6, <1>7, <1>9, <1>10
    <2>2. P[8] = l0 /\ P[9] = l1 /\ P[10] = l2 /\ P[11] = l3
      BY <1>2, <1>6, <1>7, <1>9, <1>10
    <2>3. P[12] = l0 /\ P[13] = l1 /\ P[14] = l2 /\ P[15] = l3
      BY <1>2, <1>7, <1>9, <1>10
    <2> QED BY <2>1, <2>2, <2>3
  <1>12. P[4] = p0 /\ P[5] = p1 /\ P[6] = p2 /\ P[7] = p3
    BY <1>3, <1>5, <1>6, <1>7, <1>9, <1>10
  <1>13. /\ P[16] = o /\ P[17] = a0 /\ P[18] = o /\ P[19] = a1
         /\ P[20] = o /\ P[21] = a2 /\ P[22] = o /\ P[23] = a3
    BY <1>4, <1>9, <1>10
  <1> QED BY <1>9, <1>10, <1>11, <1>12, <1>13
            DEF l0, l1, l2, l3, p0, p1, p2, p3, o, a0, a1, a2, a3

Doubles(P, n, r) ==
  /\ P[n] = One("LSL", r) /\ P[n + 1] = One("ROL", r + 1)
  /\ P[n + 2] = One("ROL", r + 2) /\ P[n + 3] = One("ROL", r + 3)

(* Four instructions double a number that is not too large for it. *)
LEMMA DoubledSteps ==
  ASSUME NEW A, NEW P, NEW end, NEW m, NEW s, Loaded(A, P, end, m, s),
         NEW n \in Nat, n + 4 <= end, At(A, s, n, n), NEW r \in 1 .. 28, Doubles(P, n, r),
         NEW val \in Nat, val = Long(s[n], r), val < 128 * TwoTo24
  PROVE  /\ At(A, s, n + 4, n + 4) /\ Long(s[n + 4], r) = 2 * val
         /\ \A a \in A : a \notin Four(r) => s[n + 4].data[a] = s[n].data[a]
  <1>a. r \in Registers /\ r + 1 \in Registers /\ r + 2 \in Registers /\ r + 3 \in Registers
    BY DEF Registers
  <1>b. Registers \subseteq A /\ end \in Nat
    BY DEF Loaded
  <1>c. \A k \in n .. n + 3 : At(A, s, k, k) => Doing(A, P, end, m, s, k, k, P[k])
    BY <1>b DEF Doing
  <1>d. \A k : At(A, s, k, k) => \A a \in Registers : s[k].data[a] \in Byte
    BY <1>b DEF At, Machines
  <1>1. /\ At(A, s, n + 1, n + 1) /\ CarryIn(s[n + 1]) \in {0, 1}
        /\ s[n + 1].data[r] + 256 * CarryIn(s[n + 1]) = s[n].data[r] + s[n].data[r]
        /\ \A a \in A : a # r => s[n + 1].data[a] = s[n].data[a]
    <2>1. Doing(A, P, end, m, s, n, n, One("LSL", r))
      BY <1>c DEF Doubles
    <2>2. Sums(A, s, n, n, r, s[n].data[r] + s[n].data[r])
      BY <1>a, <2>1, AddDone
    <2> QED BY <2>2 DEF Sums
  <1>2. ASSUME NEW k \in 1 .. 3, At(A, s, n + k, n + k)
        PROVE  /\ At(A, s, n + k + 1, n + k + 1) /\ CarryIn(s[n + k + 1]) \in {0, 1}
               /\ s[n + k + 1].data[r + k] + 256 * CarryIn(s[n + k + 1])
                    = s[n + k].data[r + k] + s[n + k].data[r + k] + CarryIn(s[n + k])
               /\ \A a \in A : a # r + k => s[n + k + 1].data[a] = s[n + k].data[a]
    <2>1. r + k \in Registers /\ n + k \in n .. n + 3
      BY <1>a
    <2>2. P[n + k] = One("ROL", r + k)
      BY DEF Doubles
    <2>3. Doing(A, P, end, m, s, n + k, n + k, One("ROL", r + k))
      BY <1>2, <1>c, <2>1, <2>2
    <2> DEFINE j == n + k   g == r + k
    <2>4. Doing(A, P, end, m, s, j, j, One("ROL", g)) /\ g \in Registers
      BY <2>1, <2>3
    <2> HIDE DEF j, g
    <2>5. Sums(A, s, j, j, g, s[j].data[g] + s[j].data[g] + CarryIn(s[j]))
      BY <2>4, AddCarryDone
    <2> QED BY <2>5 DEF Sums, j, g
  <1>3. /\ At(A, s, n + 2, n + 2) /\ CarryIn(s[n + 2]) \in {0, 1}
        /\ s[n + 2].data[r + 1] + 256 * CarryIn(s[n + 2])
             = s[n + 1].data[r + 1] + s[n + 1].data[r + 1] + CarryIn(s[n + 1])
        /\ \A a \in A : a # r + 1 => s[n + 2].data[a] = s[n + 1].data[a]
    <2>1. n + 1 + 1 = n + 2
      OBVIOUS
    <2> QED BY <1>1, <1>2, <2>1
  <1>4. /\ At(A, s, n + 3, n + 3) /\ CarryIn(s[n + 3]) \in {0, 1}
        /\ s[n + 3].data[r + 2] + 256 * CarryIn(s[n + 3])
             = s[n + 2].data[r + 2] + s[n + 2].data[r + 2] + CarryIn(s[n + 2])
        /\ \A a \in A : a # r + 2 => s[n + 3].data[a] = s[n + 2].data[a]
    <2>1. n + 2 + 1 = n + 3
      OBVIOUS
    <2> QED BY <1>3, <1>2, <2>1
  <1>5. /\ At(A, s, n + 4, n + 4) /\ CarryIn(s[n + 4]) \in {0, 1}
        /\ s[n + 4].data[r + 3] + 256 * CarryIn(s[n + 4])
             = s[n + 3].data[r + 3] + s[n + 3].data[r + 3] + CarryIn(s[n + 3])
        /\ \A a \in A : a # r + 3 => s[n + 4].data[a] = s[n + 3].data[a]
    <2>1. n + 3 + 1 = n + 4
      OBVIOUS
    <2> QED BY <1>4, <1>2, <2>1
  <1>6. \A a \in A : a \notin Four(r) => s[n + 4].data[a] = s[n].data[a]
    BY <1>1, <1>3, <1>4, <1>5 DEF Four
  <1> DEFINE b0 == s[n].data[r]   b1 == s[n].data[r + 1]
             b2 == s[n].data[r + 2]   b3 == s[n].data[r + 3]
             d0 == s[n + 4].data[r]   d1 == s[n + 4].data[r + 1]
             d2 == s[n + 4].data[r + 2]   d3 == s[n + 4].data[r + 3]
             c1 == CarryIn(s[n + 1])   c2 == CarryIn(s[n + 2])
             c3 == CarryIn(s[n + 3])   c4 == CarryIn(s[n + 4])
  <1>7. /\ b0 \in Byte /\ b1 \in Byte /\ b2 \in Byte /\ b3 \in Byte
        /\ d0 \in Byte /\ d1 \in Byte /\ d2 \in Byte /\ d3 \in Byte
    BY <1>a, <1>d, <1>5
  <1>8. c1 \in {0, 1} /\ c2 \in {0, 1} /\ c3 \in {0, 1} /\ c4 \in {0, 1}
    BY <1>1, <1>3, <1>4, <1>5
  <1>9. /\ d0 + 256 * c1 = b0 + b0 /\ d1 + 256 * c2 = b1 + b1 + c1
        /\ d2 + 256 * c3 = b2 + b2 + c2 /\ d3 + 256 * c4 = b3 + b3 + c3
    <2>1. /\ r # r + 1 /\ r # r + 2 /\ r # r + 3 /\ r + 1 # r + 2 /\ r + 1 # r + 3 /\ r + 2 # r + 3
          /\ r \in A /\ r + 1 \in A /\ r + 2 \in A /\ r + 3 \in A
      BY <1>a, <1>b
    <2>2. /\ d0 = s[n + 1].data[r] /\ d1 = s[n + 2].data[r + 1] /\ d2 = s[n + 3].data[r + 2]
      BY <1>3, <1>4, <1>5, <2>1
    <2>3. b1 = s[n + 1].data[r + 1] /\ b2 = s[n + 2].data[r + 2] /\ b3 = s[n + 3].data[r + 3]
      BY <1>1, <1>3, <1>4, <2>1
    <2> QED BY <1>1, <1>3, <1>4, <1>5, <2>2, <2>3
  <1> DEFINE twice == Long(s[n + 4], r)
  <1>10. val = b0 + 256 * b1 + 65536 * b2 + TwoTo24 * b3 /\ twice = d0 + 256 * d1 + 65536 * d2 + TwoTo24 * d3
    BY DEF Long
  <1> HIDE DEF b0, b1, b2, b3, d0, d1, d2, d3, c1, c2, c3, c4, twice
  <1>11. twice + 256 * TwoTo24 * c4 = 2 * val /\ twice \in Nat
    BY <1>7, <1>8, <1>9, <1>10 DEF Byte, TwoTo24
  <1>12. c4 = 0
    BY <1>8, <1>11 DEF TwoTo24
  <1>13. twice = 2 * val
    BY <1>11, <1>12 DEF TwoTo24
  <1> QED BY <1>5, <1>6, <1>13 DEF twice

(* The operand is in r1 to r31 and the stack has room for it. *)
TenOperands(A, m, r, sp) ==
  /\ Registers \subseteq A /\ r \in 1 .. 28
  /\ sp = Sp(m) /\ sp - 3 >= StackLimit
  /\ {SPL, SPL + 1, sp, sp - 1, sp - 2, sp - 3} \subseteq A

(* The text step by step. *)
LEMMA TenSteps ==
  ASSUME NEW A, NEW P, NEW m, NEW s, Loaded(A, P, 24, m, s), At(A, s, 0, 0),
         NEW r, NEW sp, TenOperands(A, m, r, sp),
         NEW t, t = TimesTen(r), P = Image(t),
         NEW val \in Nat, val = Long(m, r), 10 * val < 256 * TwoTo24
  PROVE  /\ At(A, s, 24, 24) /\ Long(s[24], r) = 10 * val /\ Sp(s[24]) = sp
         /\ \A a \in A : a \notin {0, SPL, SPL + 1, sp, sp - 1, sp - 2, sp - 3} \cup Four(r)
                           => s[24].data[a] = m.data[a]
  <1> DEFINE sp1 == sp - 1   sp2 == sp - 2   sp3 == sp - 3   sp4 == sp - 4
  <1>a. /\ {0, r, r + 1, r + 2, r + 3} \subseteq Registers /\ Registers \subseteq A
        /\ r \in 1 .. 28
    BY DEF TenOperands, Registers
  <1>b. /\ sp \in Word /\ {SPL, SPL + 1, sp, sp1, sp2, sp3} \subseteq A
        /\ sp \in Nat /\ sp3 >= 96 /\ SPL = 93 /\ StackLimit = 96
    <2>1. SPL \in A /\ SPL + 1 \in A /\ m \in Machines(A)
      BY DEF TenOperands, Loaded, Run, At
    <2>2. sp \in Word
      BY <2>1, WordOfBytes DEF TenOperands
    <2> QED BY <2>2 DEF TenOperands, Word, StackLimit, SPL
  <1>c. \A n \in 0 .. 23 : At(A, s, n, n) => Doing(A, P, 24, m, s, n, n, P[n])
    BY DEF Doing
  <1>d. \A n : At(A, s, n, n) => \A a \in Registers : s[n].data[a] \in Byte
    BY <1>a DEF At, Machines
  <1>e. /\ sp1 # sp /\ sp2 # sp /\ sp3 # sp /\ sp2 # sp1 /\ sp3 # sp1 /\ sp3 # sp2
        /\ \A b \in {sp, sp1, sp2, sp3} :
             /\ b \notin {0} \cup Four(r) /\ b # SPL /\ b # SPL + 1 /\ b >= StackLimit /\ b \in Word
        /\ SPL \notin {0} \cup Four(r) /\ SPL + 1 \notin {0} \cup Four(r)
    BY <1>a, <1>b DEF Four, Word
  <1>f. sp1 = sp - 1 /\ sp2 = sp1 - 1 /\ sp3 = sp2 - 1 /\ sp4 = sp3 - 1
        /\ sp4 + 1 = sp3 /\ sp3 + 1 = sp2 /\ sp2 + 1 = sp1 /\ sp1 + 1 = sp
        /\ sp4 + 1 \in Word /\ sp3 + 1 \in Word /\ sp2 + 1 \in Word /\ sp1 + 1 \in Word
    BY <1>b, <1>e
  <1>g. \A n, k : (\A a \in A : a \notin Four(r) => s[n].data[a] = s[k].data[a])
                    => Sp(s[n]) = Sp(s[k])
    BY <1>b, <1>e DEF Sp
  <1>0. s[0] = m /\ Sp(s[0]) = sp
    BY DEF Loaded, Run, TenOperands
  <1> HIDE DEF sp1, sp2, sp3, sp4
  (* Twice the operand. *)
  <1>1. /\ At(A, s, 4, 4) /\ Long(s[4], r) = 2 * val /\ Sp(s[4]) = sp
        /\ \A a \in A : a \notin Four(r) => s[4].data[a] = m.data[a]
    <2> DEFINE n == 0
    <2>1. n \in Nat /\ n + 4 <= 24 /\ At(A, s, n, n) /\ val = Long(s[n], r) /\ n + 4 = 4
      BY <1>0
    <2>2. Doubles(P, n, r)
      BY TenText DEF Doubles
    <2>3. val < 128 * TwoTo24
      BY DEF TwoTo24
    <2>4. n = 0
      OBVIOUS
    <2> HIDE DEF n
    <2>5. /\ At(A, s, n + 4, n + 4) /\ Long(s[n + 4], r) = 2 * val
          /\ \A a \in A : a \notin Four(r) => s[n + 4].data[a] = s[n].data[a]
      BY <1>a, <2>1, <2>2, <2>3, DoubledSteps
    <2> QED BY <1>0, <1>g, <2>1, <2>4, <2>5
  (* push *)
  <1>2. /\ At(A, s, 5, 5) /\ Sp(s[5]) = sp1
        /\ s[5].data[sp] = s[4].data[r + 3]
        /\ \A a \in A : a \notin {sp, SPL, SPL + 1} => s[5].data[a] = s[4].data[a]
    <2>1. Doing(A, P, 24, m, s, 4, 4, One("PUSH", r + 3))
      BY <1>1, <1>c, TenText
    <2>2. /\ r + 3 \in Registers /\ sp = Sp(s[4]) /\ sp >= StackLimit
          /\ {SPL, SPL + 1, sp} \subseteq A
      BY <1>a, <1>b, <1>e, <1>1
    <2>3. /\ At(A, s, 4 + 1, 4 + 1) /\ Sp(s[4 + 1]) = sp - 1
          /\ s[4 + 1].data[sp] = s[4].data[r + 3]
          /\ \A a \in A : a \notin {sp, SPL, SPL + 1} => s[4 + 1].data[a] = s[4].data[a]
      BY <2>1, <2>2, PushDone
    <2> QED BY <1>a, <1>b, <1>e, <1>f, <1>1, <2>3 DEF Four
  (* push *)
  <1>3. /\ At(A, s, 6, 6) /\ Sp(s[6]) = sp2
        /\ s[6].data[sp] = s[4].data[r + 3] /\ s[6].data[sp1] = s[4].data[r + 2]
        /\ \A a \in A : a \notin {sp, sp1, SPL, SPL + 1} => s[6].data[a] = s[4].data[a]
    <2>1. Doing(A, P, 24, m, s, 5, 5, One("PUSH", r + 2))
      BY <1>2, <1>c, TenText
    <2>2. /\ r + 2 \in Registers /\ sp1 = Sp(s[5]) /\ sp1 >= StackLimit
          /\ {SPL, SPL + 1, sp1} \subseteq A
      BY <1>a, <1>b, <1>e, <1>2
    <2>3. /\ At(A, s, 5 + 1, 5 + 1) /\ Sp(s[5 + 1]) = sp1 - 1
          /\ s[5 + 1].data[sp1] = s[5].data[r + 2]
          /\ \A a \in A : a \notin {sp1, SPL, SPL + 1} => s[5 + 1].data[a] = s[5].data[a]
      BY <2>1, <2>2, PushDone
    <2> QED BY <1>a, <1>b, <1>e, <1>f, <1>2, <2>3 DEF Four
  (* push *)
  <1>4. /\ At(A, s, 7, 7) /\ Sp(s[7]) = sp3
        /\ s[7].data[sp] = s[4].data[r + 3] /\ s[7].data[sp1] = s[4].data[r + 2] /\ s[7].data[sp2] = s[4].data[r + 1]
        /\ \A a \in A : a \notin {sp, sp1, sp2, SPL, SPL + 1} => s[7].data[a] = s[4].data[a]
    <2>1. Doing(A, P, 24, m, s, 6, 6, One("PUSH", r + 1))
      BY <1>3, <1>c, TenText
    <2>2. /\ r + 1 \in Registers /\ sp2 = Sp(s[6]) /\ sp2 >= StackLimit
          /\ {SPL, SPL + 1, sp2} \subseteq A
      BY <1>a, <1>b, <1>e, <1>3
    <2>3. /\ At(A, s, 6 + 1, 6 + 1) /\ Sp(s[6 + 1]) = sp2 - 1
          /\ s[6 + 1].data[sp2] = s[6].data[r + 1]
          /\ \A a \in A : a \notin {sp2, SPL, SPL + 1} => s[6 + 1].data[a] = s[6].data[a]
      BY <2>1, <2>2, PushDone
    <2> QED BY <1>a, <1>b, <1>e, <1>f, <1>3, <2>3 DEF Four
  (* push *)
  <1>5. /\ At(A, s, 8, 8) /\ Sp(s[8]) = sp4
        /\ s[8].data[sp] = s[4].data[r + 3] /\ s[8].data[sp1] = s[4].data[r + 2] /\ s[8].data[sp2] = s[4].data[r + 1] /\ s[8].data[sp3] = s[4].data[r]
        /\ \A a \in A : a \notin {sp, sp1, sp2, sp3, SPL, SPL + 1} => s[8].data[a] = s[4].data[a]
    <2>1. Doing(A, P, 24, m, s, 7, 7, One("PUSH", r))
      BY <1>4, <1>c, TenText
    <2>2. /\ r \in Registers /\ sp3 = Sp(s[7]) /\ sp3 >= StackLimit
          /\ {SPL, SPL + 1, sp3} \subseteq A
      BY <1>a, <1>b, <1>e, <1>4
    <2>3. /\ At(A, s, 7 + 1, 7 + 1) /\ Sp(s[7 + 1]) = sp3 - 1
          /\ s[7 + 1].data[sp3] = s[7].data[r]
          /\ \A a \in A : a \notin {sp3, SPL, SPL + 1} => s[7 + 1].data[a] = s[7].data[a]
      BY <2>1, <2>2, PushDone
    <2> QED BY <1>a, <1>b, <1>e, <1>f, <1>4, <2>3 DEF Four
  (* 4 times the operand. *)
  <1>6. /\ At(A, s, 12, 12) /\ Long(s[12], r) = 4 * val /\ Sp(s[12]) = sp4
        /\ \A a \in A : a \notin Four(r) => s[12].data[a] = s[8].data[a]
    <2> DEFINE n == 8   twice == 2 * val
    <2>1. n \in Nat /\ n + 4 <= 24 /\ At(A, s, n, n) /\ n + 4 = 12 /\ twice \in Nat
      BY <1>5
    <2>2. Doubles(P, n, r)
      BY TenText DEF Doubles
    <2>3. twice < 128 * TwoTo24
      BY DEF TwoTo24
    <2>4. n = 8 /\ 2 * twice = 4 * val
      OBVIOUS
    <2>5. twice = Long(s[n], r)
      <3>1. /\ s[8].data[r] = s[4].data[r] /\ s[8].data[r + 1] = s[4].data[r + 1]
            /\ s[8].data[r + 2] = s[4].data[r + 2] /\ s[8].data[r + 3] = s[4].data[r + 3]
        BY <1>a, <1>e, <1>5 DEF Four
      <3> QED BY <1>1, <3>1 DEF Long
    <2> HIDE DEF n, twice
    <2>6. /\ At(A, s, n + 4, n + 4) /\ Long(s[n + 4], r) = 2 * twice
          /\ \A a \in A : a \notin Four(r) => s[n + 4].data[a] = s[n].data[a]
      BY <1>a, <2>1, <2>2, <2>3, <2>5, DoubledSteps
    <2>7. Long(s[12], r) = 4 * val
      BY <2>1, <2>4, <2>6
    <2>8. \A a \in A : a \notin Four(r) => s[12].data[a] = s[8].data[a]
      BY <2>1, <2>4, <2>6
    <2>9. Sp(s[12]) = Sp(s[8])
      BY <1>g, <2>8
    <2>10. \A a \in A : a \notin Four(r) => s[12].data[a] = s[8].data[a]
      BY <1>5, <2>8
    <2> QED BY <1>5, <2>1, <2>6, <2>7, <2>9, <2>10
  (* 8 times the operand. *)
  <1>7. /\ At(A, s, 16, 16) /\ Long(s[16], r) = 8 * val /\ Sp(s[16]) = sp4
        /\ \A a \in A : a \notin Four(r) => s[16].data[a] = s[8].data[a]
    <2> DEFINE n == 12   twice == 4 * val
    <2>1. n \in Nat /\ n + 4 <= 24 /\ At(A, s, n, n) /\ n + 4 = 16 /\ twice \in Nat
      BY <1>6
    <2>2. Doubles(P, n, r)
      BY TenText DEF Doubles
    <2>3. twice < 128 * TwoTo24
      BY DEF TwoTo24
    <2>4. n = 12 /\ 2 * twice = 8 * val
      OBVIOUS
    <2>5. twice = Long(s[n], r)
      BY <1>6
    <2> HIDE DEF n, twice
    <2>6. /\ At(A, s, n + 4, n + 4) /\ Long(s[n + 4], r) = 2 * twice
          /\ \A a \in A : a \notin Four(r) => s[n + 4].data[a] = s[n].data[a]
      BY <1>a, <2>1, <2>2, <2>3, <2>5, DoubledSteps
    <2>7. Long(s[16], r) = 8 * val
      BY <2>1, <2>4, <2>6
    <2>8. \A a \in A : a \notin Four(r) => s[16].data[a] = s[12].data[a]
      BY <2>1, <2>4, <2>6
    <2>9. Sp(s[16]) = Sp(s[12])
      BY <1>g, <2>8
    <2>10. \A a \in A : a \notin Four(r) => s[16].data[a] = s[8].data[a]
      BY <1>6, <2>8
    <2> QED BY <1>6, <2>1, <2>6, <2>7, <2>9, <2>10
  (* pop *)
  <1>8. /\ At(A, s, 17, 17) /\ Sp(s[17]) = sp3
        /\ s[17].data[0] = s[4].data[r]
        /\ \A a \in A : a \notin {0, SPL, SPL + 1} => s[17].data[a] = s[16].data[a]
    <2>1. Doing(A, P, 24, m, s, 16, 16, One("POP", 0))
      BY <1>7, <1>c, TenText
    <2>2. /\ 0 \in Registers /\ sp3 = Sp(s[16]) + 1 /\ sp3 >= StackLimit
          /\ sp3 \in Word /\ {SPL, SPL + 1, sp3} \subseteq A
      BY <1>a, <1>b, <1>e, <1>f, <1>7
    <2>3. /\ At(A, s, 16 + 1, 16 + 1) /\ Sp(s[16 + 1]) = sp3
          /\ s[16 + 1].data[0] = s[16].data[sp3] /\ CarryIn(s[16 + 1]) = CarryIn(s[16])
          /\ \A a \in A : a \notin {0, SPL, SPL + 1} => s[16 + 1].data[a] = s[16].data[a]
      BY <2>1, <2>2, PopDone
    <2>4. s[16].data[sp3] = s[4].data[r]
      BY <1>b, <1>e, <1>f, <1>5, <1>7, <1>7 DEF Four
    <2> QED BY <2>3, <2>4
  (* add *)
  <1>9. /\ At(A, s, 18, 18) /\ Sp(s[18]) = sp3 /\ CarryIn(s[18]) \in {0, 1}
        /\ s[18].data[r] + 256 * CarryIn(s[18])
             = s[16].data[r] + s[4].data[r]
        /\ \A a \in A : a \notin {0, SPL, SPL + 1, r} => s[18].data[a] = s[16].data[a]
    <2>1. Doing(A, P, 24, m, s, 17, 17, Op("ADD", r, 0))
      BY <1>8, <1>c, TenText
    <2>2. Sums(A, s, 17, 17, r, s[17].data[r] + s[17].data[0])
      BY <1>a, <2>1, AddDone
    <2>3. Sp(s[18]) = Sp(s[17])
      BY <1>b, <1>e, <1>a, <2>2 DEF Sums, Sp, Four
    <2>4. s[17].data[r] = s[16].data[r] /\ s[17].data[0] = s[4].data[r]
      BY <1>a, <1>b, <1>e, <1>8 DEF Four
    <2> QED BY <1>a, <1>e, <1>8, <2>2, <2>3, <2>4 DEF Sums, Four
  (* pop *)
  <1>10. /\ At(A, s, 19, 19) /\ Sp(s[19]) = sp2 /\ CarryIn(s[19]) = CarryIn(s[18])
        /\ s[19].data[0] = s[4].data[r + 1]
        /\ \A a \in A : a \notin {0, SPL, SPL + 1} => s[19].data[a] = s[18].data[a]
    <2>1. Doing(A, P, 24, m, s, 18, 18, One("POP", 0))
      BY <1>9, <1>c, TenText
    <2>2. /\ 0 \in Registers /\ sp2 = Sp(s[18]) + 1 /\ sp2 >= StackLimit
          /\ sp2 \in Word /\ {SPL, SPL + 1, sp2} \subseteq A
      BY <1>a, <1>b, <1>e, <1>f, <1>9
    <2>3. /\ At(A, s, 18 + 1, 18 + 1) /\ Sp(s[18 + 1]) = sp2
          /\ s[18 + 1].data[0] = s[18].data[sp2] /\ CarryIn(s[18 + 1]) = CarryIn(s[18])
          /\ \A a \in A : a \notin {0, SPL, SPL + 1} => s[18 + 1].data[a] = s[18].data[a]
      BY <2>1, <2>2, PopDone
    <2>4. s[18].data[sp2] = s[4].data[r + 1]
      BY <1>b, <1>e, <1>f, <1>5, <1>7, <1>9 DEF Four
    <2> QED BY <2>3, <2>4
  (* adc *)
  <1>11. /\ At(A, s, 20, 20) /\ Sp(s[20]) = sp2 /\ CarryIn(s[20]) \in {0, 1}
        /\ s[20].data[r + 1] + 256 * CarryIn(s[20])
             = s[16].data[r + 1] + s[4].data[r + 1] + CarryIn(s[18])
        /\ s[20].data[r] = s[18].data[r]
        /\ \A a \in A : a \notin {0, SPL, SPL + 1, r, r + 1} => s[20].data[a] = s[16].data[a]
    <2>1. Doing(A, P, 24, m, s, 19, 19, Op("ADC", r + 1, 0))
      BY <1>10, <1>c, TenText
    <2>2. Sums(A, s, 19, 19, r + 1, s[19].data[r + 1] + s[19].data[0] + CarryIn(s[19]))
      BY <1>a, <2>1, AddCarryDone
    <2>3. Sp(s[20]) = Sp(s[19])
      BY <1>b, <1>e, <1>a, <2>2 DEF Sums, Sp, Four
    <2>4. s[19].data[r + 1] = s[16].data[r + 1] /\ s[19].data[0] = s[4].data[r + 1]
      BY <1>a, <1>b, <1>e, <1>10, <1>9 DEF Four
    <2> QED BY <1>a, <1>e, <1>10, <1>9, <2>2, <2>3, <2>4 DEF Sums, Four
  (* pop *)
  <1>12. /\ At(A, s, 21, 21) /\ Sp(s[21]) = sp1 /\ CarryIn(s[21]) = CarryIn(s[20])
        /\ s[21].data[0] = s[4].data[r + 2]
        /\ \A a \in A : a \notin {0, SPL, SPL + 1} => s[21].data[a] = s[20].data[a]
    <2>1. Doing(A, P, 24, m, s, 20, 20, One("POP", 0))
      BY <1>11, <1>c, TenText
    <2>2. /\ 0 \in Registers /\ sp1 = Sp(s[20]) + 1 /\ sp1 >= StackLimit
          /\ sp1 \in Word /\ {SPL, SPL + 1, sp1} \subseteq A
      BY <1>a, <1>b, <1>e, <1>f, <1>11
    <2>3. /\ At(A, s, 20 + 1, 20 + 1) /\ Sp(s[20 + 1]) = sp1
          /\ s[20 + 1].data[0] = s[20].data[sp1] /\ CarryIn(s[20 + 1]) = CarryIn(s[20])
          /\ \A a \in A : a \notin {0, SPL, SPL + 1} => s[20 + 1].data[a] = s[20].data[a]
      BY <2>1, <2>2, PopDone
    <2>4. s[20].data[sp1] = s[4].data[r + 2]
      BY <1>b, <1>e, <1>f, <1>5, <1>7, <1>11, <1>9, <1>10 DEF Four
    <2> QED BY <2>3, <2>4
  (* adc *)
  <1>13. /\ At(A, s, 22, 22) /\ Sp(s[22]) = sp1 /\ CarryIn(s[22]) \in {0, 1}
        /\ s[22].data[r + 2] + 256 * CarryIn(s[22])
             = s[16].data[r + 2] + s[4].data[r + 2] + CarryIn(s[20])
        /\ s[22].data[r] = s[18].data[r] /\ s[22].data[r + 1] = s[20].data[r + 1]
        /\ \A a \in A : a \notin {0, SPL, SPL + 1, r, r + 1, r + 2} => s[22].data[a] = s[16].data[a]
    <2>1. Doing(A, P, 24, m, s, 21, 21, Op("ADC", r + 2, 0))
      BY <1>12, <1>c, TenText
    <2>2. Sums(A, s, 21, 21, r + 2, s[21].data[r + 2] + s[21].data[0] + CarryIn(s[21]))
      BY <1>a, <2>1, AddCarryDone
    <2>3. Sp(s[22]) = Sp(s[21])
      BY <1>b, <1>e, <1>a, <2>2 DEF Sums, Sp, Four
    <2>4. s[21].data[r + 2] = s[16].data[r + 2] /\ s[21].data[0] = s[4].data[r + 2]
      BY <1>a, <1>b, <1>e, <1>12, <1>11 DEF Four
    <2> QED BY <1>a, <1>e, <1>12, <1>11, <2>2, <2>3, <2>4 DEF Sums, Four
  (* pop *)
  <1>14. /\ At(A, s, 23, 23) /\ Sp(s[23]) = sp /\ CarryIn(s[23]) = CarryIn(s[22])
        /\ s[23].data[0] = s[4].data[r + 3]
        /\ \A a \in A : a \notin {0, SPL, SPL + 1} => s[23].data[a] = s[22].data[a]
    <2>1. Doing(A, P, 24, m, s, 22, 22, One("POP", 0))
      BY <1>13, <1>c, TenText
    <2>2. /\ 0 \in Registers /\ sp = Sp(s[22]) + 1 /\ sp >= StackLimit
          /\ sp \in Word /\ {SPL, SPL + 1, sp} \subseteq A
      BY <1>a, <1>b, <1>e, <1>f, <1>13
    <2>3. /\ At(A, s, 22 + 1, 22 + 1) /\ Sp(s[22 + 1]) = sp
          /\ s[22 + 1].data[0] = s[22].data[sp] /\ CarryIn(s[22 + 1]) = CarryIn(s[22])
          /\ \A a \in A : a \notin {0, SPL, SPL + 1} => s[22 + 1].data[a] = s[22].data[a]
      BY <2>1, <2>2, PopDone
    <2>4. s[22].data[sp] = s[4].data[r + 3]
      BY <1>b, <1>e, <1>f, <1>5, <1>7, <1>13, <1>9, <1>10, <1>11, <1>12 DEF Four
    <2> QED BY <2>3, <2>4
  (* adc *)
  <1>15. /\ At(A, s, 24, 24) /\ Sp(s[24]) = sp /\ CarryIn(s[24]) \in {0, 1}
        /\ s[24].data[r + 3] + 256 * CarryIn(s[24])
             = s[16].data[r + 3] + s[4].data[r + 3] + CarryIn(s[22])
        /\ s[24].data[r] = s[18].data[r] /\ s[24].data[r + 1] = s[20].data[r + 1] /\ s[24].data[r + 2] = s[22].data[r + 2]
        /\ \A a \in A : a \notin {0, SPL, SPL + 1, r, r + 1, r + 2, r + 3} => s[24].data[a] = s[16].data[a]
    <2>1. Doing(A, P, 24, m, s, 23, 23, Op("ADC", r + 3, 0))
      BY <1>14, <1>c, TenText
    <2>2. Sums(A, s, 23, 23, r + 3, s[23].data[r + 3] + s[23].data[0] + CarryIn(s[23]))
      BY <1>a, <2>1, AddCarryDone
    <2>3. Sp(s[24]) = Sp(s[23])
      BY <1>b, <1>e, <1>a, <2>2 DEF Sums, Sp, Four
    <2>4. s[23].data[r + 3] = s[16].data[r + 3] /\ s[23].data[0] = s[4].data[r + 3]
      BY <1>a, <1>b, <1>e, <1>14, <1>13 DEF Four
    <2> QED BY <1>a, <1>e, <1>14, <1>13, <2>2, <2>3, <2>4 DEF Sums, Four
  <1>16. \A a \in A : a \notin {0, SPL, SPL + 1, sp, sp1, sp2, sp3} \cup Four(r)
                       => s[24].data[a] = m.data[a]
    BY <1>1, <1>5, <1>7, <1>15 DEF Four
  <1>17. Long(s[24], r) = 10 * val
    <2> DEFINE b0 == s[4].data[r]   b1 == s[4].data[r + 1]
               b2 == s[4].data[r + 2]   b3 == s[4].data[r + 3]
               e0 == s[16].data[r]   e1 == s[16].data[r + 1]
               e2 == s[16].data[r + 2]   e3 == s[16].data[r + 3]
               d0 == s[18].data[r]   d1 == s[20].data[r + 1]
               d2 == s[22].data[r + 2]   d3 == s[24].data[r + 3]
               c1 == CarryIn(s[18])   c2 == CarryIn(s[20])
               c3 == CarryIn(s[22])   c4 == CarryIn(s[24])
               sum == Long(s[24], r)
    <2>1. /\ b0 \in Byte /\ b1 \in Byte /\ b2 \in Byte /\ b3 \in Byte
          /\ e0 \in Byte /\ e1 \in Byte /\ e2 \in Byte /\ e3 \in Byte
          /\ d0 \in Byte /\ d1 \in Byte /\ d2 \in Byte /\ d3 \in Byte
      BY <1>a, <1>d, <1>1, <1>7, <1>9, <1>11, <1>13, <1>15
    <2>2. c1 \in {0, 1} /\ c2 \in {0, 1} /\ c3 \in {0, 1} /\ c4 \in {0, 1}
      BY <1>9, <1>11, <1>13, <1>15
    <2>3. /\ d0 + 256 * c1 = e0 + b0 /\ d1 + 256 * c2 = e1 + b1 + c1
          /\ d2 + 256 * c3 = e2 + b2 + c2 /\ d3 + 256 * c4 = e3 + b3 + c3
      BY <1>9, <1>11, <1>13, <1>15
    <2>4. /\ b0 + 256 * b1 + 65536 * b2 + TwoTo24 * b3 = 2 * val
          /\ e0 + 256 * e1 + 65536 * e2 + TwoTo24 * e3 = 8 * val
          /\ sum = d0 + 256 * d1 + 65536 * d2 + TwoTo24 * d3
      BY <1>1, <1>7, <1>15 DEF Long
    <2> HIDE DEF b0, b1, b2, b3, e0, e1, e2, e3, d0, d1, d2, d3, c1, c2, c3, c4, sum
    <2>5. sum + 256 * TwoTo24 * c4 = 10 * val /\ sum \in Nat
      BY <2>1, <2>2, <2>3, <2>4 DEF Byte, TwoTo24
    <2>6. c4 = 0
      BY <2>2, <2>5 DEF TwoTo24
    <2>7. sum = 10 * val
      BY <2>5, <2>6 DEF TwoTo24
    <2> QED BY <2>7 DEF sum
  <1> QED BY <1>15, <1>16, <1>17 DEF sp1, sp2, sp3

(* asm.h:76-107 multiplies the four bytes of a number by ten for all that  *)
(* leave it in 32 bits, in every allocation to registers, from every state *)
(* of the machine whose stack has room for four bytes above the ports, and *)
(* changes nothing else but r0 and those four bytes.                       *)
THEOREM TenForAll ==
  ASSUME NEW A, NEW r, NEW sp, NEW m \in Machines(A), m.pc = 0, m.status = "running",
         TenOperands(A, m, r, sp), 10 * Long(m, r) < 256 * TwoTo24
  PROVE  LET text == TimesTen(r)
             q    == Execute(Image(text), Len(text), m, Len(text))
         IN  /\ q \in Machines(A) /\ q.pc = Len(text) /\ q.status = "running"
             /\ Long(q, r) = 10 * Long(m, r) /\ Sp(q) = sp
             /\ \A a \in A : a \notin {0, SPL, SPL + 1, sp, sp - 1, sp - 2, sp - 3} \cup Four(r)
                               => q.data[a] = m.data[a]
  <1> DEFINE text == TimesTen(r)
             P == Image(text)
             q == Execute(P, Len(text), m, Len(text))
             val == Long(m, r)
  <1>1. Len(text) = 24 /\ DOMAIN P = 0 .. 23
    BY TenText
  <1>2. PICK s : Run(P, 24, m, s) /\ Execute(P, 24, m, 24) = s[24]
    BY ExecuteRuns
  <1>3. q = s[24]
    BY <1>1, <1>2
  <1>4. Loaded(A, P, 24, m, s) /\ At(A, s, 0, 0)
    BY <1>1, <1>2, ArchAssumption DEF Loaded, Run, At, TenOperands
  <1>5. val \in Nat
    <2>1. r \in Registers /\ r + 1 \in Registers /\ r + 2 \in Registers /\ r + 3 \in Registers
      BY DEF TenOperands, Registers
    <2>2. /\ m.data[r] \in Byte /\ m.data[r + 1] \in Byte /\ m.data[r + 2] \in Byte
          /\ m.data[r + 3] \in Byte
      BY <2>1 DEF TenOperands, Machines
    <2> DEFINE b0 == m.data[r]   b1 == m.data[r + 1]   b2 == m.data[r + 2]   b3 == m.data[r + 3]
    <2>3. val = b0 + 256 * b1 + 65536 * b2 + TwoTo24 * b3
      BY DEF Long
    <2> HIDE DEF b0, b1, b2, b3, val
    <2>4. b0 \in Byte /\ b1 \in Byte /\ b2 \in Byte /\ b3 \in Byte
      BY <2>2 DEF b0, b1, b2, b3
    <2> QED BY <2>3, <2>4 DEF Byte, TwoTo24
  <1> HIDE DEF q, P, text, val
  <1>6. /\ At(A, s, 24, 24) /\ Long(s[24], r) = 10 * val /\ Sp(s[24]) = sp
        /\ \A a \in A : a \notin {0, SPL, SPL + 1, sp, sp - 1, sp - 2, sp - 3} \cup Four(r)
                          => s[24].data[a] = m.data[a]
    <2>1. P = Image(text) /\ text = TimesTen(r) /\ val = Long(m, r) /\ 10 * val < 256 * TwoTo24
      BY DEF P, text, val
    <2> QED BY <1>4, <1>5, <2>1, TenSteps
  <1> QED BY <1>1, <1>3, <1>6 DEF At, q, P, text, val
-----------------------------------------------------------------------------
(* The piece of main() that asks for the simulator. *)

Complemented(m, a) ==
  UpdateFlags(PutReg(m, a, 255 - Reg(m, a)), Logical \cup {"C"},
              LogicalFlags(255 - Reg(m, a)) \cup {"C"})

LEMMA PerformConstant ==
  ASSUME NEW m, NEW a, NEW b
  PROVE  /\ Perform(Op("LDI", a, b), m) = PutReg(m, a, b)
         /\ Perform(Op("COM", a, b), m) = Complemented(m, a)
         /\ Perform(Op("CPSE", a, a), m) = SkipIf(m, TRUE, 1)
         /\ Perform(Op("SYSCALL", 27, b), m) = SysArgs(m)
  <1>1. \A id, k, l : Op(id, k, l).id = id /\ Op(id, k, l).a = k /\ Op(id, k, l).b = l
    BY DEF Op
  <1>2. ASSUME NEW i, i.id = "LDI" PROVE Perform(i, m) = PutReg(m, i.a, i.b)
    <2>1. Perform(i, m) = WithConstant(i, m)
      BY <1>2 DEF Perform, Simple, Binary, Unary, Exchanges, Storing, Constant, BitOfReg, BitOfPort
    <2> QED BY <1>2, <2>1 DEF WithConstant
  <1>3. ASSUME NEW i, i.id = "COM" PROVE Perform(i, m) = Complemented(m, i.a)
    <2>1. Perform(i, m) = OneRegister(i, m)
      BY <1>3 DEF Perform, Simple, Binary, Unary, Exchanges, Storing, Constant, BitOfReg, BitOfPort
    <2> QED BY <1>3, <2>1 DEF OneRegister, Complemented
  <1>4. ASSUME NEW i, i.id = "CPSE", i.a = i.b PROVE Perform(i, m) = SkipIf(m, TRUE, 1)
    <2>1. Perform(i, m) = TwoRegisters(i, m)
      BY <1>4 DEF Perform, Simple, Binary, Unary, Exchanges, Storing, Constant, BitOfReg, BitOfPort
    <2>2. TwoRegisters(i, m) = SkipIf(m, Reg(m, i.a) = Reg(m, i.b), 1)
      BY <1>4 DEF TwoRegisters
    <2>3. Reg(m, i.a) = Reg(m, i.b)
      BY <1>4
    <2> QED BY <2>1, <2>2, <2>3 DEF SkipIf
  <1>5. ASSUME NEW i, i.id = "SYSCALL", i.a = 27 PROVE Perform(i, m) = SysArgs(m)
    <2>1. Perform(i, m) = Syscall(i, m)
      BY <1>5 DEF Perform, Simple, Binary, Unary, Exchanges, Storing, Constant, BitOfReg, BitOfPort
    <2> QED BY <1>5, <2>1 DEF Syscall
  <1>6. Perform(Op("LDI", a, b), m) = PutReg(m, a, b)
    BY <1>1, <1>2
  <1>7. Perform(Op("COM", a, b), m) = Complemented(m, a)
    BY <1>1, <1>3
  <1>8. Perform(Op("CPSE", a, a), m) = SkipIf(m, TRUE, 1)
    <2> DEFINE i == Op("CPSE", a, a)
    <2>1. i.id = "CPSE" /\ i.a = i.b
      BY DEF Op
    <2> HIDE DEF i
    <2>2. Perform(i, m) = SkipIf(m, TRUE, 1)
      BY <1>4, <2>1
    <2> QED BY <2>2 DEF i
  <1>9. Perform(Op("SYSCALL", 27, b), m) = SysArgs(m)
    BY <1>1, <1>5
  <1> QED BY <1>6, <1>7, <1>8, <1>9

LEMMA ConstantDone ==
  ASSUME NEW A, NEW P, NEW end, NEW m, NEW s, NEW n, NEW k, NEW rd \in Registers, NEW val \in Byte,
         Doing(A, P, end, m, s, n, k, Op("LDI", rd, val))
  PROVE  Does(A, s, n, k, rd, val)
  <1>1. Op("LDI", rd, val).id \in OneWord
    BY DEF Op, OneWord
  <1>2. PICK q : s[n + 1] = Perform(Op("LDI", rd, val), q) /\ Fetched(A, q, s[n], 1)
    BY <1>1, Fetch
  <1> DEFINE z == s[n + 1]
  <1>3. q \in Machines(A) /\ rd \in A
    BY <1>2 DEF Fetched, Doing, Loaded, At
  <1>4. q.pc = k + 1 /\ q.status = "running" /\ q.data = s[n].data
    BY <1>2 DEF Fetched, Doing, Loaded, At
  <1>5. z = PutReg(q, rd, val)
    BY <1>2, PerformConstant
  <1> HIDE DEF z
  <1>6. z \in Machines(A) /\ z.pc = q.pc /\ z.status = q.status /\ z.data = [q.data EXCEPT ![rd] = val]
    BY <1>3, <1>5, PutByte
  <1>7. z.data[rd] = val /\ \A r \in A : r # rd => z.data[r] = s[n].data[r]
    BY <1>3, <1>4, <1>6 DEF Machines
  <1> QED BY <1>4, <1>6, <1>7 DEF Does, At, z

LEMMA ComplementDone ==
  ASSUME NEW A, NEW P, NEW end, NEW m, NEW s, NEW n, NEW k, NEW rd \in Registers,
         Doing(A, P, end, m, s, n, k, One("COM", rd)),
         NEW val, val = 255 - s[n].data[rd]
  PROVE  Does(A, s, n, k, rd, val)
  <1>1. One("COM", rd) = Op("COM", rd, 0) /\ Op("COM", rd, 0).id \in OneWord
    BY DEF One, Op, OneWord
  <1>2. PICK q : s[n + 1] = Perform(Op("COM", rd, 0), q) /\ Fetched(A, q, s[n], 1)
    BY <1>1, Fetch
  <1> DEFINE z == s[n + 1]
             f == LogicalFlags(val) \cup {"C"}
             mask == Logical \cup {"C"}
             w == PutReg(q, rd, val)
  <1>3. q \in Machines(A) /\ s[n] \in Machines(A) /\ rd \in A
    BY <1>2 DEF Fetched, Doing, Loaded, At
  <1>4. s[n].data[rd] \in Byte
    BY <1>3 DEF Machines
  <1>5. val \in Byte
    BY <1>4 DEF Byte
  <1>6. q.pc = k + 1 /\ q.status = "running" /\ q.data = s[n].data
    BY <1>2 DEF Fetched, Doing, At
  <1>7. f \subseteq {"C", "Z", "N", "V", "S", "H", "T", "I"}
    BY DEF LogicalFlags, WithZns, Only
  <1>8. 255 - Reg(q, rd) = val
    BY <1>6 DEF Reg
  <1>9. z = UpdateFlags(w, mask, f)
    <2>1. z = Complemented(q, rd)
      BY <1>2, PerformConstant
    <2> HIDE DEF z
    <2> QED BY <1>8, <2>1 DEF Complemented
  <1> HIDE DEF z, f, mask
  <1>10. w \in Machines(A) /\ w.pc = q.pc /\ w.status = q.status /\ w.data = [q.data EXCEPT ![rd] = val]
    BY <1>3, <1>5, PutByte
  <1> HIDE DEF w
  <1>11. z \in Machines(A) /\ z.pc = w.pc /\ z.status = w.status /\ z.data = w.data
    <2>1. w \in Machines(A)
      BY <1>10
    <2>2. LET i == UpdateFlags(w, mask, f)
          IN  i \in Machines(A) /\ i.pc = w.pc /\ i.status = w.status /\ i.data = w.data
      BY <1>7, <2>1, Flagged
    <2> QED BY <1>9, <2>2
  <1>12. z.data[rd] = val /\ \A r \in A : r # rd => z.data[r] = s[n].data[r]
    BY <1>3, <1>6, <1>10, <1>11 DEF Machines
  <1> QED BY <1>6, <1>10, <1>11, <1>12 DEF Does, At, z

(* A comparison of a register with itself skips the word behind it. *)
LEMMA SkipDone ==
  ASSUME NEW A, NEW P, NEW end, NEW m, NEW s, NEW n, NEW k, NEW rd,
         Doing(A, P, end, m, s, n, k, Op("CPSE", rd, rd)), k + 2 <= end
  PROVE  At(A, s, n + 1, k + 2) /\ s[n + 1].data = s[n].data
  <1>1. Op("CPSE", rd, rd).id \in OneWord
    BY DEF Op, OneWord
  <1>2. PICK q : s[n + 1] = Perform(Op("CPSE", rd, rd), q) /\ Fetched(A, q, s[n], 1)
    BY <1>1, Fetch
  <1> DEFINE z == s[n + 1]
  <1>3. q \in Machines(A) /\ q.pc = k + 1 /\ q.status = "running" /\ q.data = s[n].data
    BY <1>2 DEF Fetched, Doing, At
  <1>4. z = Spend(Jump(q, q.pc + 1), 1)
    BY <1>2, PerformConstant DEF SkipIf
  <1>5. /\ k \in Nat /\ k + 2 < FlashWords /\ FlashWords \in Nat
    BY ArchAssumption DEF Doing, Loaded
  <1>6. (q.pc + 1) % FlashWords = k + 2
    BY <1>3, <1>5
  <1>7. PICK p, c, t, f, d : q = [pc |-> p, cycles |-> c, status |-> t, sreg |-> f, data |-> d]
    BY <1>3 DEF Machines
  <1> HIDE DEF z
  <1>8. Jump(q, q.pc + 1) = [pc |-> k + 2, cycles |-> c, status |-> t, sreg |-> f, data |-> d]
    BY <1>6, <1>7, SetPc DEF Jump
  <1>9. z = [pc |-> k + 2, cycles |-> c + 1, status |-> t, sreg |-> f, data |-> d]
    BY <1>4, <1>8, SetCycles DEF Spend
  <1>10. q.cycles = c /\ q.status = t /\ q.sreg = f /\ q.data = d /\ c \in Nat
         /\ k + 2 \in 0 .. FlashWords - 1
    BY <1>3, <1>5, <1>7 DEF Machines
  <1>11. z \in Machines(A)
    BY <1>3, <1>9, <1>10 DEF Machines
  <1> QED BY <1>3, <1>9, <1>10, <1>11 DEF At, z

(* The simulator answers in six registers. *)
LEMMA CallDone ==
  ASSUME NEW A, NEW P, NEW end, NEW m, NEW s, NEW n, NEW k,
         Doing(A, P, end, m, s, n, k, One("SYSCALL", 27)), k + 2 <= end
  PROVE  /\ At(A, s, n + 1, k + 2) /\ s[n + 1].data[20] = LogBuild
         /\ \A r \in A : r \notin 20 .. 25 => s[n + 1].data[r] = s[n].data[r]
  <1>1. /\ k \in DOMAIN P /\ k # end /\ end \in Nat /\ k \in Nat
        /\ n \in 0 .. end - 1 /\ end < FlashWords /\ P[k] = Op("SYSCALL", 27, 0)
    BY DEF Doing, Loaded, One
  <1>2. k + 2 < FlashWords
    BY <1>1, ArchAssumption
  <1>3. s[n].pc = k /\ s[n].status = "running" /\ s[n] \in Machines(A) /\ Registers \subseteq A
    BY DEF Doing, Loaded, At
  <1>4. s[n + 1] = After(P, end, s[n])
    BY <1>1 DEF Doing, Loaded, Run
  <1>5. s[n + 1] = Step(P, s[n])
    BY <1>1, <1>3, <1>4, Zenon DEF After
  <1>6. P[k].id = "SYSCALL" /\ Words(P[k].id) = 2
    BY <1>1 DEF Words, Op
  <1>7. Cycles(P[k].id) \in Nat
    BY DEF Cycles
  <1> DEFINE c == Cycles(P[k].id)
             q == [s[n] EXCEPT !.pc = @ + 2, !.cycles = @ + c]
             z == s[n + 1]
  <1>8. z = Perform(P[k], q)
    BY <1>1, <1>3, <1>5, <1>6 DEF Step
  <1> HIDE DEF c
  <1>9. Fetched(A, q, s[n], 2)
    BY <1>2, <1>3, <1>7, MovedBy DEF c
  <1> HIDE DEF q, z
  <1>10. z = SysArgs(q)
    BY <1>1, <1>8, PerformConstant
  <1>11. q \in Machines(A) /\ q.pc = k + 2 /\ q.status = "running" /\ q.data = s[n].data
    BY <1>3, <1>9 DEF Fetched
  <1> DEFINE q1 == PutWordReg(q, 20, LogBuild)
             q2 == PutWordReg(q1, 22, 0)
             q3 == PutWordReg(q2, 24, 0)
  <1>12. {20, 21, 22, 23, 24, 25} \subseteq A
    BY <1>3 DEF Registers
  <1>13. ASSUME NEW h \in Machines(A), NEW rd \in {20, 22, 24}, NEW val \in Word
         PROVE  LET g == PutWordReg(h, rd, val)
                IN  /\ g \in Machines(A) /\ g.pc = h.pc /\ g.status = h.status /\ g.sreg = h.sreg
                    /\ g.data[rd] + 256 * g.data[rd + 1] = val
                    /\ \A r \in A : r \notin {rd, rd + 1} => g.data[r] = h.data[r]
    <2>1. rd \in Nat /\ rd \in A /\ rd + 1 \in A
      BY <1>12
    <2> QED BY <2>1, PutWord
  <1>14. LogBuild \in Word /\ 0 \in Word
    BY ArchAssumption DEF Word
  <1>15. /\ q1 \in Machines(A) /\ q1.pc = q.pc /\ q1.status = q.status
         /\ q1.data[20] + 256 * q1.data[21] = LogBuild
         /\ \A r \in A : r \notin {20, 21} => q1.data[r] = q.data[r]
    <2> DEFINE rd == 20
    <2>1. rd \in {20, 22, 24} /\ rd = 20 /\ rd + 1 = 21 /\ q1 = PutWordReg(q, rd, LogBuild)
      OBVIOUS
    <2> HIDE DEF rd, q1
    <2>2. LET g == PutWordReg(q, rd, LogBuild)
          IN  /\ g \in Machines(A) /\ g.pc = q.pc /\ g.status = q.status
              /\ g.data[rd] + 256 * g.data[rd + 1] = LogBuild
              /\ \A r \in A : r \notin {rd, rd + 1} => g.data[r] = q.data[r]
      <3>1. q \in Machines(A) /\ rd \in {20, 22, 24} /\ LogBuild \in Word
        BY <1>11, <1>14, <2>1
      <3> QED BY <1>13, <3>1
    <2> QED BY <2>1, <2>2
  <1> HIDE DEF q1
  <1>16. /\ q2 \in Machines(A) /\ q2.pc = q1.pc /\ q2.status = q1.status
         /\ \A r \in A : r \notin {22, 23} => q2.data[r] = q1.data[r]
    BY <1>13, <1>14, <1>15
  <1> HIDE DEF q2
  <1>17. /\ q3 \in Machines(A) /\ q3.pc = q2.pc /\ q3.status = q2.status
         /\ \A r \in A : r \notin {24, 25} => q3.data[r] = q2.data[r]
    BY <1>13, <1>14, <1>16
  <1>18. z = q3
    BY <1>10 DEF SysArgs, q1, q2
  <1> HIDE DEF q3
  <1>19. z.data[20] = LogBuild
    <2>1. z.data[20] = q1.data[20]
      BY <1>12, <1>16, <1>17, <1>18
    <2>2. q1.data[20] \in Byte /\ q1.data[21] \in Byte
      BY <1>12, <1>15 DEF Machines
    <2>3. q1.data[20] = LogBuild
      <3> DEFINE b0 == q1.data[20]   b1 == q1.data[21]
      <3>1. b0 \in Byte /\ b1 \in Byte /\ b0 + 256 * b1 = LogBuild
        BY <1>15, <2>2
      <3> HIDE DEF b0, b1
      <3>2. b0 = LogBuild
        BY <3>1, ArchAssumption DEF Byte
      <3> QED BY <3>2 DEF b0
    <2> QED BY <2>1, <2>3
  <1>20. \A r \in A : r \notin 20 .. 25 => z.data[r] = s[n].data[r]
    BY <1>11, <1>15, <1>16, <1>17, <1>18
  <1>21. z \in Machines(A) /\ z.pc = k + 2 /\ z.status = "running"
    BY <1>11, <1>15, <1>16, <1>17, <1>18
  <1> QED BY <1>19, <1>20, <1>21 DEF At, z

LEMMA DetectText ==
  ASSUME NEW active, NEW simulated, NEW t, t = DetectSimulator(simulated, active),
         NEW P, P = Image(t)
  PROVE  /\ Len(t) = 8 /\ DOMAIN P = 0 .. 7
         /\ P[0] = Op("LDI", 20, 255) /\ P[1] = One("CLR", 24) /\ P[2] = Op("LDI", 25, 240)
         /\ P[3] = IF simulated THEN One("SYSCALL", 27) ELSE Op("CPSE", 27, 27)
         /\ P[5] = One("COM", 20) /\ P[6] = One("ASR", 20) /\ P[7] = Op("MOV", active, 20)
  <1>1. /\ Len(t) = 8
        /\ t[1] = Op("LDI", 20, 255) /\ t[2] = One("CLR", 24) /\ t[3] = Op("LDI", 25, 240)
        /\ t[4] = IF simulated THEN One("SYSCALL", 27) ELSE Op("CPSE", 27, 27)
        /\ t[6] = One("COM", 20) /\ t[7] = One("ASR", 20) /\ t[8] = Op("MOV", active, 20)
    BY DEF DetectSimulator
  <1>2. P = [k \in 0 .. 7 |-> t[k + 1]]
    BY <1>1 DEF Image
  <1> QED BY <1>1, <1>2

LEMMA DetectSteps ==
  ASSUME NEW A, NEW P, NEW m, NEW s, Loaded(A, P, 8, m, s), At(A, s, 0, 0),
         NEW active \in Registers \ 20 .. 25, NEW simulated \in BOOLEAN,
         NEW t, t = DetectSimulator(simulated, active), P = Image(t)
  PROVE  /\ At(A, s, 8, 8)
         /\ \A r \in A : r \notin {active} \cup 20 .. 25 => s[8].data[r] = m.data[r]
         /\ (s[8].data[active] # 0) = simulated
  <1>a. {20, 24, 25, 27, active} \subseteq Registers /\ Registers \subseteq A
    BY DEF Registers, Loaded
  <1>b. \A n, k \in 0 .. 7 : At(A, s, n, k) => Doing(A, P, 8, m, s, n, k, P[k])
    BY DEF Doing
  <1>c. /\ simulated => P[3] = One("SYSCALL", 27)
        /\ ~simulated => P[3] = Op("CPSE", 27, 27)
    BY DetectText
  <1>0. s[0] = m
    BY DEF Loaded, Run
  <1>1. /\ At(A, s, 1, 1) /\ s[1].data[20] = 255
        /\ \A r \in A : r \notin 20 .. 25 => s[1].data[r] = m.data[r]
    <2>1. Doing(A, P, 8, m, s, 0, 0, Op("LDI", 20, 255))
      BY <1>b, DetectText
    <2>2. Does(A, s, 0, 0, 20, 255)
      BY <1>a, <2>1, ConstantDone DEF Byte
    <2> QED BY <1>0, <2>2 DEF Does
  <1>2. /\ At(A, s, 2, 2) /\ s[2].data[20] = 255
        /\ \A r \in A : r \notin 20 .. 25 => s[2].data[r] = m.data[r]
    <2>1. Doing(A, P, 8, m, s, 1, 1, One("CLR", 24))
      BY <1>1, <1>b, DetectText
    <2>2. Does(A, s, 1, 1, 24, 0)
      BY <1>a, <2>1, ClearDone
    <2> QED BY <1>1, <1>a, <2>2 DEF Does
  <1>3. /\ At(A, s, 3, 3) /\ s[3].data[20] = 255
        /\ \A r \in A : r \notin 20 .. 25 => s[3].data[r] = m.data[r]
    <2>1. Doing(A, P, 8, m, s, 2, 2, Op("LDI", 25, 240))
      BY <1>2, <1>b, DetectText
    <2>2. Does(A, s, 2, 2, 25, 240)
      BY <1>a, <2>1, ConstantDone DEF Byte
    <2> QED BY <1>2, <1>a, <2>2 DEF Does
  (* Either way the illegal word is not run. *)
  <1>4. /\ At(A, s, 4, 5)
        /\ IF simulated THEN s[4].data[20] \in {0, 1} ELSE s[4].data[20] = 255
        /\ \A r \in A : r \notin 20 .. 25 => s[4].data[r] = m.data[r]
    <2>1. CASE simulated
      <3>1. Doing(A, P, 8, m, s, 3, 3, One("SYSCALL", 27))
        <4>1. P[3] = One("SYSCALL", 27)
          BY <1>c, <2>1
        <4>2. Doing(A, P, 8, m, s, 3, 3, P[3])
          BY <1>3, <1>b
        <4> QED BY <4>1, <4>2
      <3> DEFINE n == 3   k == 3
      <3>2. Doing(A, P, 8, m, s, n, k, One("SYSCALL", 27)) /\ k + 2 <= 8 /\ n + 1 = 4 /\ k + 2 = 5
            /\ n = 3
        BY <3>1
      <3> HIDE DEF n, k
      <3>3. /\ At(A, s, n + 1, k + 2) /\ s[n + 1].data[20] = LogBuild
            /\ \A r \in A : r \notin 20 .. 25 => s[n + 1].data[r] = s[n].data[r]
        BY <3>2, CallDone
      <3> QED BY <1>3, <2>1, <3>2, <3>3, ArchAssumption
    <2>2. CASE ~simulated
      <3>1. Doing(A, P, 8, m, s, 3, 3, Op("CPSE", 27, 27))
        BY <1>3, <1>b, <1>c, <2>2
      <3> DEFINE n == 3   k == 3
      <3>2. Doing(A, P, 8, m, s, n, k, Op("CPSE", 27, 27)) /\ k + 2 <= 8 /\ n + 1 = 4 /\ k + 2 = 5
            /\ n = 3
        BY <3>1
      <3> HIDE DEF n, k
      <3>3. At(A, s, n + 1, k + 2) /\ s[n + 1].data = s[n].data
        BY <3>2, SkipDone
      <3> QED BY <1>3, <2>2, <3>2, <3>3
    <2> QED BY <2>1, <2>2
  <1>5. /\ At(A, s, 5, 6)
        /\ IF simulated THEN s[5].data[20] \in {254, 255} ELSE s[5].data[20] = 0
        /\ \A r \in A : r \notin 20 .. 25 => s[5].data[r] = m.data[r]
    <2>1. Doing(A, P, 8, m, s, 4, 5, One("COM", 20))
      BY <1>4, <1>b, DetectText
    <2> DEFINE val == 255 - s[4].data[20]
    <2>2. val = 255 - s[4].data[20]
      OBVIOUS
    <2> HIDE DEF val
    <2>3. Does(A, s, 4, 5, 20, val)
      BY <1>a, <2>1, <2>2, ComplementDone
    <2> QED BY <1>4, <1>a, <2>2, <2>3 DEF Does
  <1>6. /\ At(A, s, 6, 7)
        /\ s[6].data[20] = IF simulated THEN 255 ELSE 0
        /\ \A r \in A : r \notin 20 .. 25 => s[6].data[r] = m.data[r]
    <2>1. Doing(A, P, 8, m, s, 5, 6, One("ASR", 20))
      BY <1>5, <1>b, DetectText
    <2> DEFINE val == s[5].data[20]
               half == IF val >= 128 THEN (val + 256) \div 2 ELSE val \div 2
    <2>2. val = s[5].data[20]
      OBVIOUS
    <2> HIDE DEF val
    <2>3. Does(A, s, 5, 6, 20, half)
      BY <1>a, <2>1, <2>2, ShiftDone
    <2>4. half = IF simulated THEN 255 ELSE 0
      BY <1>5, <2>2
    <2> HIDE DEF half
    <2> QED BY <1>5, <1>a, <2>3, <2>4 DEF Does
  <1>7. /\ At(A, s, 7, 8)
        /\ s[7].data[active] = IF simulated THEN 255 ELSE 0
        /\ \A r \in A : r \notin {active} \cup 20 .. 25 => s[7].data[r] = m.data[r]
    <2>1. Doing(A, P, 8, m, s, 6, 7, Op("MOV", active, 20))
      BY <1>6, <1>b, DetectText
    <2>2. Does(A, s, 6, 7, active, s[6].data[20])
      BY <1>a, <2>1, MoveDone
    <2> QED BY <1>6, <1>a, <2>2 DEF Does
  (* The text is done after seven instructions. *)
  <1>8. s[8] = s[7]
    <2>1. s[7 + 1] = After(P, 8, s[7])
      BY DEF Loaded, Run
    <2> QED BY <1>7, <2>1 DEF After, At
  <1> QED BY <1>7, <1>8 DEF At

(* main.c:159-171 finds out whether the firmware runs in the simulator:    *)
(* on the simulator's decoder and on a real chip, in every register the    *)
(* compiler gives SIM_ACTIVE and from every state of the machine, neither  *)
(* runs into the illegal word, and only the declared registers change.     *)
THEOREM DetectionForAll ==
  ASSUME NEW A, Registers \subseteq A,
         NEW active \in Registers \ 20 .. 25, NEW simulated \in BOOLEAN,
         NEW m \in Machines(A), m.pc = 0, m.status = "running"
  PROVE  LET text == DetectSimulator(simulated, active)
             q    == Execute(Image(text), Len(text), m, Len(text))
         IN  /\ q \in Machines(A) /\ q.pc = Len(text) /\ q.status = "running"
             /\ (q.data[active] # 0) = simulated
             /\ \A r \in A : r \notin {active} \cup 20 .. 25 => q.data[r] = m.data[r]
  <1> DEFINE text == DetectSimulator(simulated, active)
             P == Image(text)
             q == Execute(P, Len(text), m, Len(text))
  <1>1. Len(text) = 8 /\ DOMAIN P = 0 .. 7
    BY DetectText
  <1>2. PICK s : Run(P, 8, m, s) /\ Execute(P, 8, m, 8) = s[8]
    BY ExecuteRuns
  <1>3. q = s[8]
    BY <1>1, <1>2
  <1>4. Loaded(A, P, 8, m, s) /\ At(A, s, 0, 0)
    BY <1>1, <1>2, ArchAssumption DEF Loaded, Run, At
  <1> HIDE DEF q, P, text
  <1>5. /\ At(A, s, 8, 8)
        /\ \A r \in A : r \notin {active} \cup 20 .. 25 => s[8].data[r] = m.data[r]
        /\ (s[8].data[active] # 0) = simulated
    <2>1. P = Image(text) /\ text = DetectSimulator(simulated, active)
      BY DEF P, text
    <2> QED BY <1>4, <2>1, DetectSteps
  <1> QED BY <1>1, <1>3, <1>5 DEF At, q, P, text
-----------------------------------------------------------------------------
(* The routines on the operands of a job: where Place puts a number, what  *)
(* machine Before makes of it, and what the theorems above then say.       *)

Memory == Registers \cup 91 .. 103

(* The operands of a text, in registers that keep clear of r0 and r1. *)
Given(values) == DOMAIN values \subseteq 2 .. 31 /\ \A r \in DOMAIN values : values[r] \in Byte

TwoTo16 == 256 * 256

LEMMA PlaceIs ==
  ASSUME NEW r \in 2 .. 28, NEW val \in Int, NEW bytes \in 1 .. 4
  PROVE  /\ DOMAIN Place(r, val, bytes) = r .. r + bytes - 1
         /\ Given(Place(r, val, bytes))
  <1> DEFINE f == Place(r, val, bytes)
             D == r .. r + bytes - 1
  <1>1. f = [a \in D |-> (val \div 256 ^ (a - r)) % 256]
    BY DEF Place
  <1>2. \A a \in D : a = r \/ a = r + 1 \/ a = r + 2 \/ a = r + 3
    OBVIOUS
  <1>3. r - r = 0 /\ (r + 1) - r = 1 /\ (r + 2) - r = 2 /\ (r + 3) - r = 3
    OBVIOUS
  <1>4. \A a \in D : 256 ^ (a - r) \in {1, 256, TwoTo16, TwoTo24}
    <2>1. 256 ^ 0 = 1 /\ 256 ^ 1 = 256 /\ 256 ^ 2 = TwoTo16 /\ 256 ^ 3 = TwoTo24
      BY DEF TwoTo16, TwoTo24
    <2>2. TAKE a \in D
    <2> HIDE DEF D
    <2>3. a - r = 0 \/ a - r = 1 \/ a - r = 2 \/ a - r = 3
      BY <1>2, <1>3
    <2> DEFINE k == a - r
    <2>4. k \in {0, 1, 2, 3}
      BY <2>3
    <2> HIDE DEF k
    <2>5. 256 ^ k \in {1, 256, TwoTo16, TwoTo24}
      <3>1. CASE k = 0 BY ONLY <2>1, <3>1, Zenon
      <3>2. CASE k = 1 BY ONLY <2>1, <3>2, Zenon
      <3>3. CASE k = 2 BY ONLY <2>1, <3>3, Zenon
      <3>4. CASE k = 3 BY ONLY <2>1, <3>4, Zenon
      <3> QED BY ONLY <2>4, <3>1, <3>2, <3>3, <3>4, Zenon
    <2> QED BY ONLY <2>5, Zenon DEF k
  <1>5. D \subseteq 2 .. 31
    OBVIOUS
  <1>6. \A k \in {1, 256, TwoTo16, TwoTo24} : (val \div k) % 256 \in Byte
    BY DEF Byte, TwoTo16, TwoTo24
  <1> HIDE DEF f, D
  <1>7. \A a \in D : f[a] \in Byte
    BY <1>1, <1>4, <1>6
  <1>8. DOMAIN f = D
    BY <1>1
  <1> QED BY <1>5, <1>7, <1>8 DEF Given, f, D

LEMMA OverIs ==
  ASSUME NEW f, NEW g, Given(f), Given(g)
  PROVE  /\ Given(Over(f, g))
         /\ DOMAIN Over(f, g) = DOMAIN f \cup DOMAIN g
         /\ \A r \in DOMAIN f : Over(f, g)[r] = f[r]
         /\ \A r \in DOMAIN g : r \notin DOMAIN f => Over(f, g)[r] = g[r]
  BY DEF Given, Over

LEMMA BeforeIs ==
  ASSUME NEW values, Given(values)
  PROVE  LET m == Before(values)
         IN  /\ m \in Machines(Memory) /\ m.pc = 0 /\ m.status = "running"
             /\ m.data[1] = 0 /\ Sp(m) = 103
             /\ \A r \in DOMAIN values : m.data[r] = values[r]
  <1> DEFINE usual == [a \in {1, SPL, SPL + 1} |-> IF a = SPL THEN 103 ELSE 0]
             rest == [a \in Registers \cup 91 .. 103 |-> 85]
             inner == Over(values, usual)
             d == Over(inner, rest)
             m == Before(values)
  <1>1. m = [pc |-> 0, cycles |-> 0, status |-> "running", sreg |-> {"C", "Z"}, data |-> d]
    BY DEF Before
  <1>2. /\ DOMAIN usual = {1, 93, 94} /\ usual[1] = 0 /\ usual[93] = 103 /\ usual[94] = 0
    BY DEF SPL
  <1>3. DOMAIN rest = Memory /\ \A a \in Memory : rest[a] = 85
    BY DEF Memory
  <1> HIDE DEF usual, rest
  <1>4. /\ DOMAIN inner = DOMAIN values \cup {1, 93, 94}
        /\ \A a \in DOMAIN values : inner[a] = values[a]
        /\ \A a \in {1, 93, 94} : a \notin DOMAIN values => inner[a] = usual[a]
    BY <1>2 DEF Over
  <1>5. 1 \notin DOMAIN values /\ 93 \notin DOMAIN values /\ 94 \notin DOMAIN values
    BY DEF Given
  <1>6. inner[1] = 0 /\ inner[93] = 103 /\ inner[94] = 0
    BY <1>2, <1>4, <1>5
  <1> HIDE DEF inner
  <1>7. /\ DOMAIN d = DOMAIN inner \cup Memory /\ d = [a \in DOMAIN d |-> d[a]]
        /\ \A a \in DOMAIN inner : d[a] = inner[a]
        /\ \A a \in Memory : a \notin DOMAIN inner => d[a] = 85
    BY <1>3 DEF Over
  <1> HIDE DEF d
  <1>8. DOMAIN d = Memory
    BY <1>4, <1>7 DEF Given, Memory, Registers
  <1>9. \A a \in Memory : d[a] \in Byte
    <2>1. TAKE a \in Memory
    <2>2. CASE a \in DOMAIN values
      BY <1>4, <1>7, <2>2 DEF Given
    <2>3. CASE a \in {1, 93, 94}
      BY <1>4, <1>6, <1>7, <2>3 DEF Byte
    <2>4. CASE a \notin DOMAIN inner
      BY <1>7, <2>1, <2>4 DEF Byte
    <2> QED BY <1>4, <2>2, <2>3, <2>4
  <1>10. d \in [Memory -> Byte]
    BY <1>7, <1>8, <1>9
  <1>11. 0 \in 0 .. FlashWords - 1
    BY ArchAssumption
  <1>12. m \in Machines(Memory) /\ m.pc = 0 /\ m.status = "running" /\ m.data = d
    <2>1. {"C", "Z"} \in SUBSET {"C", "Z", "N", "V", "S", "H", "T", "I"}
      OBVIOUS
    <2> HIDE DEF m
    <2>2. m.pc = 0 /\ m.cycles = 0 /\ m.status = "running" /\ m.sreg = {"C", "Z"} /\ m.data = d
      BY <1>1
    <2>3. m \in Machines(Memory)
      <3> HIDE DEF m
      <3>1. 0 \in Nat /\ "running" \in {"running", "exit", "aborted"}
        OBVIOUS
      <3> DEFINE flags == {"C", "Z"}   all == SUBSET {"C", "Z", "N", "V", "S", "H", "T", "I"}
      <3>2. flags \in all /\ m = [pc |-> 0, cycles |-> 0, status |-> "running", sreg |-> flags, data |-> d]
        BY <1>1, <2>1
      <3>3. Machines(Memory) = [pc : 0 .. FlashWords - 1, cycles : Nat, status : {"running", "exit", "aborted"},
                                sreg : all, data : [Memory -> Byte]]
        BY DEF Machines
      <3> HIDE DEF flags, all
      <3> QED BY <1>10, <1>11, <3>1, <3>2, <3>3
    <2> QED BY <2>2, <2>3
  <1>13. d[1] = 0 /\ d[93] = 103 /\ d[94] = 0
    BY <1>4, <1>6, <1>7
  <1>14. Sp(m) = 103
    BY <1>12, <1>13 DEF Sp, SPL
  <1>15. \A r \in DOMAIN values : d[r] = values[r]
    BY <1>4, <1>7
  <1> QED BY <1>12, <1>13, <1>14, <1>15

(* A number is what its bytes make of it. *)
LEMMA BytesOf ==
  ASSUME NEW val \in Nat
  PROVE  /\ val < 256 * 256 => (val % 256) + 256 * ((val \div 256) % 256) = val
         /\ val < TwoTo24
              => (val % 256) + 256 * ((val \div 256) % 256) + 65536 * ((val \div 65536) % 256) = val
         /\ val < 256 * TwoTo24
              => (val % 256) + 256 * ((val \div 256) % 256) + 65536 * ((val \div 65536) % 256)
                   + TwoTo24 * ((val \div TwoTo24) % 256) = val
  <1> DEFINE a == val \div 256   b == val \div 65536   c == val \div TwoTo24
             r0 == val % 256   r1 == a % 256   r2 == b % 256
  <1>1. /\ a \in Nat /\ b \in Nat /\ c \in Nat /\ r0 \in Nat /\ r1 \in Nat /\ r2 \in Nat
        /\ val = 256 * a + r0 /\ b = a \div 256 /\ a = 256 * b + r1
        /\ c = b \div 256 /\ b = 256 * c + r2
    BY DEF TwoTo24
  <1>2. r0 < 256 /\ r1 < 256 /\ r2 < 256
    OBVIOUS
  <1>3. a < 256 => r1 = a
    BY <1>1
  <1>4. b < 256 => r2 = b
    BY <1>1
  <1>5. c < 256 => c % 256 = c
    BY <1>1
  <1> DEFINE r3 == c % 256
  <1> HIDE DEF a, b, c, r0, r1, r2, r3
  <1>6. val < 256 * 256 => a < 256
    BY <1>1, <1>2
  <1>7. val < TwoTo24 => b < 256
    BY <1>1, <1>2 DEF TwoTo24
  <1>8. val < 256 * TwoTo24 => c < 256
    BY <1>1, <1>2 DEF TwoTo24
  <1>9. val < 256 * 256 => r0 + 256 * r1 = val
    BY <1>1, <1>3, <1>6
  <1>10. val < TwoTo24 => r0 + 256 * r1 + 65536 * r2 = val
    BY <1>1, <1>4, <1>7
  <1>11. val < 256 * TwoTo24 => r0 + 256 * r1 + 65536 * r2 + TwoTo24 * r3 = val
    <2>1. c < 256 => r3 = c
      BY <1>5 DEF r3
    <2> QED BY <1>1, <1>8, <2>1 DEF TwoTo24
  <1> QED BY <1>9, <1>10, <1>11 DEF a, b, c, r0, r1, r2, r3

(* The two and three bytes of a number in a machine that holds it. *)
Holds(m, f) == \A r \in DOMAIN f : m.data[r] = f[r]

LEMMA ThreePlaced ==
  ASSUME NEW r \in 2 .. 28, NEW val \in Nat, val < TwoTo24
  PROVE  /\ Given(Place(r, val, 3)) /\ DOMAIN Place(r, val, 3) = Three(r)
         /\ \A m : Holds(m, Place(r, val, 3)) => Number(m, r, 3) = val
  <1> DEFINE f == Place(r, val, 3)
  <1>1. /\ DOMAIN f = r .. r + 3 - 1 /\ Given(f) /\ f[r] = val % 256
        /\ f[r + 1] = (val \div 256) % 256 /\ f[r + 2] = (val \div TwoTo16) % 256
    <2> DEFINE bytes == 3   g == Place(r, val, bytes)   D == r .. r + bytes - 1
    <2>1. bytes \in 1 .. 4 /\ bytes = 3 /\ val \in Int
      OBVIOUS
    <2> HIDE DEF bytes
    <2>2. DOMAIN g = r .. r + bytes - 1 /\ Given(g)
      BY <2>1, PlaceIs
    <2>3. f = [a \in D |-> (val \div 256 ^ (a - r)) % 256]
      BY <2>1 DEF Place
    <2>4. r \in D /\ r + 1 \in D /\ r + 2 \in D
      BY <2>1
    <2>5. r - r = 0 /\ (r + 1) - r = 1 /\ (r + 2) - r = 2
      OBVIOUS
    <2>6. 256 ^ 0 = 1 /\ 256 ^ 1 = 256 /\ 256 ^ 2 = TwoTo16 /\ val \div 1 = val
      BY DEF TwoTo16
    <2>7. g = f
      BY <2>1
    <2> HIDE DEF D, f, g
    <2>8. /\ f[r] = val % 256
          /\ f[r + 1] = (val \div 256) % 256 /\ f[r + 2] = (val \div TwoTo16) % 256
      BY <2>3, <2>4, <2>5, <2>6
    <2> QED BY <2>1, <2>2, <2>7, <2>8
  <1> HIDE DEF f
  <1>2. DOMAIN f = Three(r)
    <2>1. r .. r + 3 - 1 = Three(r)
      BY DEF Three
    <2> QED BY <1>1, <2>1
  <1>3. ASSUME NEW m, Holds(m, f) PROVE Number(m, r, 3) = val
    <2>1. m.data[r] = f[r] /\ m.data[r + 1] = f[r + 1] /\ m.data[r + 2] = f[r + 2]
      BY <1>2, <1>3 DEF Holds, Three
    <2>2. Number(m, r, 3) = m.data[r] + 256 * m.data[r + 1] + 65536 * m.data[r + 2]
      BY DEF Number
    <2>3. (val % 256) + 256 * ((val \div 256) % 256) + 65536 * ((val \div 65536) % 256) = val
      BY BytesOf
    <2> QED BY <1>1, <2>1, <2>2, <2>3 DEF TwoTo16
  <1> QED BY <1>1, <1>2, <1>3 DEF f

LEMMA TwoPlaced ==
  ASSUME NEW r \in 2 .. 28, NEW val \in Nat, val < 256 * 256
  PROVE  /\ Given(Place(r, val, 2)) /\ DOMAIN Place(r, val, 2) = Two(r)
         /\ \A m : Holds(m, Place(r, val, 2)) => Number(m, r, 2) = val
  <1> DEFINE f == Place(r, val, 2)
  <1>1. /\ DOMAIN f = r .. r + 2 - 1 /\ Given(f) /\ f[r] = val % 256
        /\ f[r + 1] = (val \div 256) % 256
    <2> DEFINE bytes == 2   g == Place(r, val, bytes)   D == r .. r + bytes - 1
    <2>1. bytes \in 1 .. 4 /\ bytes = 2 /\ val \in Int
      OBVIOUS
    <2> HIDE DEF bytes
    <2>2. DOMAIN g = r .. r + bytes - 1 /\ Given(g)
      BY <2>1, PlaceIs
    <2>3. f = [a \in D |-> (val \div 256 ^ (a - r)) % 256]
      BY <2>1 DEF Place
    <2>4. r \in D /\ r + 1 \in D
      BY <2>1
    <2>5. r - r = 0 /\ (r + 1) - r = 1 /\ (r + 2) - r = 2
      OBVIOUS
    <2>6. 256 ^ 0 = 1 /\ 256 ^ 1 = 256 /\ 256 ^ 2 = TwoTo16 /\ val \div 1 = val
      BY DEF TwoTo16
    <2>7. g = f
      BY <2>1
    <2> HIDE DEF D, f, g
    <2>8. /\ f[r] = val % 256
          /\ f[r + 1] = (val \div 256) % 256
      BY <2>3, <2>4, <2>5, <2>6
    <2> QED BY <2>1, <2>2, <2>7, <2>8
  <1> HIDE DEF f
  <1>2. DOMAIN f = Two(r)
    <2>1. r .. r + 2 - 1 = Two(r)
      BY DEF Two
    <2> QED BY <1>1, <2>1
  <1>3. ASSUME NEW m, Holds(m, f) PROVE Number(m, r, 2) = val
    <2>1. m.data[r] = f[r] /\ m.data[r + 1] = f[r + 1]
      BY <1>2, <1>3 DEF Holds, Two
    <2>2. Number(m, r, 2) = m.data[r] + 256 * m.data[r + 1] + 0
      BY DEF Number
    <2>3. (val % 256) + 256 * ((val \div 256) % 256) = val
      BY BytesOf
    <2> QED BY <1>1, <2>1, <2>2, <2>3
  <1> QED BY <1>1, <1>2, <1>3 DEF f

LEMMA OnePlaced ==
  ASSUME NEW r \in 2 .. 28, NEW val \in Int
  PROVE  /\ Given(Place(r, val, 1)) /\ DOMAIN Place(r, val, 1) = {r}
         /\ \A m : Holds(m, Place(r, val, 1)) => m.data[r] = val % 256
  <1> DEFINE f == Place(r, val, 1)   bytes == 1   g == Place(r, val, bytes)   D == r .. r + bytes - 1
  <1>1. bytes \in 1 .. 4 /\ bytes = 1 /\ g = f
    OBVIOUS
  <1> HIDE DEF bytes
  <1>2. DOMAIN g = r .. r + bytes - 1 /\ Given(g)
    BY <1>1, PlaceIs
  <1>3. f = [a \in D |-> (val \div 256 ^ (a - r)) % 256]
    BY <1>1 DEF Place
  <1>4. D = {r} /\ r - r = 0 /\ 256 ^ 0 = 1 /\ val \div 1 = val
    BY <1>1
  <1> HIDE DEF D, f, g
  <1>5. f[r] = val % 256
    BY <1>3, <1>4
  <1>6. DOMAIN f = {r}
    BY <1>3, <1>4
  <1> QED BY <1>1, <1>2, <1>5, <1>6 DEF Holds, f

LEMMA FourPlaced ==
  ASSUME NEW r \in 2 .. 28, NEW val \in Nat, val < 256 * TwoTo24
  PROVE  /\ Given(Place(r, val, 4)) /\ DOMAIN Place(r, val, 4) = Four(r)
         /\ \A m : Holds(m, Place(r, val, 4)) => Long(m, r) = val
  <1> DEFINE f == Place(r, val, 4)
  <1>1. /\ DOMAIN f = r .. r + 4 - 1 /\ Given(f) /\ f[r] = val % 256
        /\ f[r + 1] = (val \div 256) % 256 /\ f[r + 2] = (val \div TwoTo16) % 256
        /\ f[r + 3] = (val \div TwoTo24) % 256
    <2> DEFINE bytes == 4   g == Place(r, val, bytes)   D == r .. r + bytes - 1
    <2>1. bytes \in 1 .. 4 /\ bytes = 4 /\ val \in Int
      OBVIOUS
    <2> HIDE DEF bytes
    <2>2. DOMAIN g = r .. r + bytes - 1 /\ Given(g)
      BY <2>1, PlaceIs
    <2>3. f = [a \in D |-> (val \div 256 ^ (a - r)) % 256]
      BY <2>1 DEF Place
    <2>4. r \in D /\ r + 1 \in D /\ r + 2 \in D /\ r + 3 \in D
      BY <2>1
    <2>5. r - r = 0 /\ (r + 1) - r = 1 /\ (r + 2) - r = 2 /\ (r + 3) - r = 3
      OBVIOUS
    <2>6. 256 ^ 0 = 1 /\ 256 ^ 1 = 256 /\ 256 ^ 2 = TwoTo16 /\ 256 ^ 3 = TwoTo24 /\ val \div 1 = val
      BY DEF TwoTo16, TwoTo24
    <2>7. g = f
      BY <2>1
    <2> HIDE DEF D, f, g
    <2>8. /\ f[r] = val % 256 /\ f[r + 1] = (val \div 256) % 256
          /\ f[r + 2] = (val \div TwoTo16) % 256 /\ f[r + 3] = (val \div TwoTo24) % 256
      BY <2>3, <2>4, <2>5, <2>6
    <2> QED BY <2>1, <2>2, <2>7, <2>8
  <1> HIDE DEF f
  <1>2. DOMAIN f = Four(r)
    <2>1. r .. r + 4 - 1 = Four(r)
      BY DEF Four
    <2> QED BY <1>1, <2>1
  <1>3. ASSUME NEW m, Holds(m, f) PROVE Long(m, r) = val
    <2>1. /\ m.data[r] = f[r] /\ m.data[r + 1] = f[r + 1] /\ m.data[r + 2] = f[r + 2]
          /\ m.data[r + 3] = f[r + 3]
      BY <1>2, <1>3 DEF Holds, Four
    <2>2. (val % 256) + 256 * ((val \div 256) % 256) + 65536 * ((val \div 65536) % 256)
            + TwoTo24 * ((val \div TwoTo24) % 256) = val
      BY BytesOf
    <2> DEFINE d0 == val % 256   d1 == (val \div 256) % 256   d2 == (val \div 65536) % 256
               d3 == (val \div TwoTo24) % 256
    <2>3. d0 + 256 * d1 + 65536 * d2 + TwoTo24 * d3 = val
      BY <2>2
    <2>4. /\ m.data[r] = d0 /\ m.data[r + 1] = d1 /\ m.data[r + 2] = d2 /\ m.data[r + 3] = d3
      BY <1>1, <2>1 DEF TwoTo16
    <2> HIDE DEF d0, d1, d2, d3
    <2> QED BY <2>3, <2>4 DEF Long
  <1> QED BY <1>1, <1>2, <1>3 DEF f

(* What two operands become in one memory. *)
LEMMA HoldsOver ==
  ASSUME NEW f, NEW g, Given(f), Given(g), DOMAIN f \cap DOMAIN g = {}
  PROVE  /\ Given(Over(f, g)) /\ DOMAIN Over(f, g) = DOMAIN f \cup DOMAIN g
         /\ \A m : Holds(m, Over(f, g)) => Holds(m, f) /\ Holds(m, g)
  <1> DEFINE o == Over(f, g)
  <1>1. /\ Given(o) /\ DOMAIN o = DOMAIN f \cup DOMAIN g
        /\ \A r \in DOMAIN f : o[r] = f[r]
        /\ \A r \in DOMAIN g : r \notin DOMAIN f => o[r] = g[r]
    BY OverIs
  <1> HIDE DEF o
  <1>2. \A r \in DOMAIN g : o[r] = g[r]
    BY <1>1
  <1>3. ASSUME NEW m, Holds(m, o) PROVE Holds(m, f) /\ Holds(m, g)
    BY <1>1, <1>2, <1>3 DEF Holds
  <1> QED BY <1>1, <1>3 DEF o

LEMMA AdvanceRight ==
  ASSUME Wide, NEW c \in Nat, c < W, NEW a \in Nat, a < W, NEW b \in Nat, b < W
  PROVE  AdvanceComputes(c, a, b)
  <1> DEFINE counter == 16   dostep == 22   adding == 19   sub == 24
             text == AdvanceStepCounter(counter, dostep, adding, sub)
             pa == Place(counter, c, 3)   pb == Place(adding, a, 3)   ps == Place(sub, b, 3)
             ab == Over(pa, pb)   values == Over(ab, ps)
             m == Before(values)
             q == Execute(Image(text), Len(text), m, Len(text))
  <1>1. /\ AdvanceOperands(counter, dostep, adding, sub)
        /\ Three(counter) \cap Three(adding) = {}
        /\ (Three(counter) \cup Three(adding)) \cap Three(sub) = {}
        /\ {dostep} \cup Three(counter) = 16 .. 18 \cup {22}
        /\ counter \in 2 .. 28 /\ adding \in 2 .. 28 /\ sub \in 2 .. 28
    BY DEF AdvanceOperands, Three, Registers
  <1>2. Registers \subseteq Memory /\ SPL \in Memory /\ SPL + 1 \in Memory
        /\ SPL \notin {dostep} \cup Three(counter) /\ SPL + 1 \notin {dostep} \cup Three(counter)
    BY DEF Memory, SPL, Three
  <1>g. AdvanceComputes(c, a, b)
          <=> Runs(text, m, 16 .. 18 \cup {22},
                   LAMBDA z : /\ Number(z, counter, 3) = Advance(c, a, b)
                              /\ Number(z, dostep, 1) = IF Carry(c, a) THEN 1 ELSE 0)
    BY DEF AdvanceComputes
  <1> HIDE DEF counter, dostep, adding, sub, text
  <1>3. c < TwoTo24 /\ a < TwoTo24 /\ b < TwoTo24
    BY DEF Wide, TwoTo24
  <1>4. /\ Given(pa) /\ DOMAIN pa = Three(counter)
        /\ \A z : Holds(z, pa) => Number(z, counter, 3) = c
    BY <1>1, <1>3, ThreePlaced
  <1>5. /\ Given(pb) /\ DOMAIN pb = Three(adding)
        /\ \A z : Holds(z, pb) => Number(z, adding, 3) = a
    BY <1>1, <1>3, ThreePlaced
  <1>6. /\ Given(ps) /\ DOMAIN ps = Three(sub)
        /\ \A z : Holds(z, ps) => Number(z, sub, 3) = b
    BY <1>1, <1>3, ThreePlaced
  <1> HIDE DEF pa, pb, ps
  <1>7. /\ Given(ab) /\ DOMAIN ab = Three(counter) \cup Three(adding)
        /\ \A z : Holds(z, ab) => Holds(z, pa) /\ Holds(z, pb)
    <2>1. DOMAIN pa \cap DOMAIN pb = {}
      BY <1>1, <1>4, <1>5
    <2>2. /\ Given(ab) /\ DOMAIN ab = DOMAIN pa \cup DOMAIN pb
          /\ \A z : Holds(z, ab) => Holds(z, pa) /\ Holds(z, pb)
      BY <1>4, <1>5, <2>1, HoldsOver
    <2> QED BY <1>4, <1>5, <2>2
  <1> HIDE DEF ab
  <1>8. Given(values) /\ \A z : Holds(z, values) => Holds(z, ab) /\ Holds(z, ps)
    <2>1. DOMAIN ab \cap DOMAIN ps = {}
      BY <1>1, <1>6, <1>7
    <2> QED BY <1>6, <1>7, <2>1, HoldsOver
  <1> HIDE DEF values
  <1>9. m \in Machines(Memory) /\ m.pc = 0 /\ m.status = "running" /\ Holds(m, values)
    BY <1>8, BeforeIs DEF Holds
  <1> HIDE DEF m
  <1>10. Number(m, counter, 3) = c /\ Number(m, adding, 3) = a /\ Number(m, sub, 3) = b
    BY <1>4, <1>5, <1>6, <1>7, <1>8, <1>9
  <1>11. /\ q.pc = Len(text) /\ q.status = "running"
         /\ Number(q, counter, 3) = Advance(c, a, b)
         /\ q.data[dostep] = IF Carry(c, a) THEN 1 ELSE 0
         /\ \A r \in Memory : r \notin {dostep} \cup Three(counter) => q.data[r] = m.data[r]
    BY <1>1, <1>2, <1>9, <1>10, AdvanceForAll DEF text, Wide
  <1> HIDE DEF q
  <1>12. Number(q, dostep, 1) = IF Carry(c, a) THEN 1 ELSE 0
    <2>1. Number(q, dostep, 1) = q.data[dostep] + 0 + 0
      BY DEF Number
    <2> QED BY <1>11, <2>1
  <1>13. Sp(q) = Sp(m)
    BY <1>2, <1>11 DEF Sp
  <1>14. \A r \in Registers \ (16 .. 18 \cup {22}) : q.data[r] = m.data[r]
    BY <1>1, <1>2, <1>11
  <1>15. q = Execute(Image(text), Len(text), m, Len(text))
    BY DEF q
  <1> QED BY <1>g, <1>11, <1>12, <1>13, <1>14, <1>15 DEF Runs

LEMMA PositionRight ==
  ASSUME Wide, NEW c \in Nat, c < W, NEW d \in {1, -1}
  PROVE  PositionComputes(c, d)
  <1> DEFINE counter == 16   dir == 22
             text == AdvancePosition(counter, dir)
             pa == Place(counter, c, 3)   pd == Place(dir, d, 1)
             values == Over(pa, pd)
             m == Before(values)
             q == Execute(Image(text), Len(text), m, Len(text))
  <1>1. /\ PositionOperands(counter, dir)
        /\ Three(counter) \cap {dir} = {}
        /\ {0} \cup Three(counter) = {0} \cup 16 .. 18
        /\ counter \in 2 .. 28 /\ dir \in 2 .. 28
    BY DEF PositionOperands, Three
  <1>2. Registers \subseteq Memory /\ SPL \in Memory /\ SPL + 1 \in Memory
        /\ SPL \notin {0} \cup Three(counter) /\ SPL + 1 \notin {0} \cup Three(counter)
    BY DEF Memory, SPL, Three
  <1>g. PositionComputes(c, d)
          <=> Runs(text, m, {0} \cup 16 .. 18, LAMBDA z : Number(z, counter, 3) = (c + d) % 16777216)
    BY DEF PositionComputes
  <1> HIDE DEF counter, dir, text
  <1>3. c < TwoTo24 /\ d \in Int
    BY DEF Wide, TwoTo24
  <1>4. /\ Given(pa) /\ DOMAIN pa = Three(counter)
        /\ \A z : Holds(z, pa) => Number(z, counter, 3) = c
    BY <1>1, <1>3, ThreePlaced
  <1>5. Given(pd) /\ DOMAIN pd = {dir} /\ \A z : Holds(z, pd) => z.data[dir] = d % 256
    BY <1>1, <1>3, OnePlaced
  <1> HIDE DEF pa, pd
  <1>6. Given(values) /\ \A z : Holds(z, values) => Holds(z, pa) /\ Holds(z, pd)
    <2>1. DOMAIN pa \cap DOMAIN pd = {}
      BY <1>1, <1>4, <1>5
    <2> QED BY <1>4, <1>5, <2>1, HoldsOver
  <1> HIDE DEF values
  <1>7. m \in Machines(Memory) /\ m.pc = 0 /\ m.status = "running" /\ Holds(m, values)
    BY <1>6, BeforeIs DEF Holds
  <1> HIDE DEF m
  <1>8. Number(m, counter, 3) = c /\ m.data[dir] = IF d = 1 THEN 1 ELSE 255
    <2>1. d % 256 = IF d = 1 THEN 1 ELSE 255
      BY SMT
    <2> QED BY <1>4, <1>5, <1>6, <1>7, <2>1
  <1>9. /\ q.pc = Len(text) /\ q.status = "running"
        /\ Number(q, counter, 3) = Wrap(c + d)
        /\ \A r \in Memory : r \notin {0} \cup Three(counter) => q.data[r] = m.data[r]
    BY <1>1, <1>2, <1>7, <1>8, PositionForAll DEF text, Wide
  <1> HIDE DEF q
  <1>10. Number(q, counter, 3) = (c + d) % 16777216
    <2>1. Wrap(c + d) = (c + d) % 16777216
      BY <1>3 DEF Wrap, Wide
    <2> QED BY <1>9, <2>1
  <1>11. Sp(q) = Sp(m)
    BY <1>2, <1>9 DEF Sp
  <1>12. \A r \in Registers \ ({0} \cup 16 .. 18) : q.data[r] = m.data[r]
    BY <1>1, <1>2, <1>9
  <1>13. q = Execute(Image(text), Len(text), m, Len(text))
    BY DEF q
  <1> QED BY <1>g, <1>9, <1>10, <1>11, <1>12, <1>13 DEF Runs

LEMMA MulRight ==
  ASSUME NEW c \in Nat, c < 256 * 256, NEW d \in Nat, d < 256 * 256
  PROVE  MulComputes(c, d)
  <1> DEFINE temp == 16   high == 18   a == 20   b == 22
             text == Mul16Shr16(temp, high, a, b)
             pa == Place(a, c, 2)   pb == Place(b, d, 2)
             values == Over(pa, pb)
             m == Before(values)
             q == Execute(Image(text), Len(text), m, Len(text))
             changed == {0, 1} \cup Two(temp) \cup Two(high)
  <1>1. /\ MulOperands(temp, high, a, b) /\ Two(a) \cap Two(b) = {}
        /\ changed = {1} \cup ({0} \cup 16 .. 19)
        /\ a \in 2 .. 28 /\ b \in 2 .. 28
    BY DEF MulOperands, Two
  <1>2. Registers \subseteq Memory /\ SPL \in Memory /\ SPL + 1 \in Memory
        /\ SPL \notin changed /\ SPL + 1 \notin changed
    BY DEF Memory, SPL, Two
  <1>g. MulComputes(c, d)
          <=> Runs(text, m, {0} \cup 16 .. 19, LAMBDA z : Number(z, high, 2) = (c * d) \div 65536)
    BY DEF MulComputes
  <1> HIDE DEF temp, high, a, b, text
  <1>4. Given(pa) /\ DOMAIN pa = Two(a) /\ \A z : Holds(z, pa) => Number(z, a, 2) = c
    BY <1>1, TwoPlaced
  <1>5. Given(pb) /\ DOMAIN pb = Two(b) /\ \A z : Holds(z, pb) => Number(z, b, 2) = d
    BY <1>1, TwoPlaced
  <1> HIDE DEF pa, pb
  <1>6. Given(values) /\ \A z : Holds(z, values) => Holds(z, pa) /\ Holds(z, pb)
    <2>1. DOMAIN pa \cap DOMAIN pb = {}
      BY <1>1, <1>4, <1>5
    <2> QED BY <1>4, <1>5, <2>1, HoldsOver
  <1> HIDE DEF values
  <1>7. /\ m \in Machines(Memory) /\ m.pc = 0 /\ m.status = "running" /\ Holds(m, values)
        /\ m.data[1] = 0
    BY <1>6, BeforeIs DEF Holds
  <1> HIDE DEF m
  <1>8. Number(m, a, 2) = c /\ Number(m, b, 2) = d
    BY <1>4, <1>5, <1>6, <1>7
  <1>9. /\ q.pc = Len(text) /\ q.status = "running"
        /\ Number(q, high, 2) = Shr16(c * d) /\ q.data[1] = 0
        /\ \A r \in Memory : r \notin changed => q.data[r] = m.data[r]
    <2>1. /\ q.pc = Len(text) /\ q.status = "running"
          /\ Number(q, high, 2) = Shr16(Number(m, a, 2) * Number(m, b, 2))
          /\ q.data[1] = 0
          /\ \A r \in Memory : r \notin changed => q.data[r] = m.data[r]
      <3>1. q = Execute(Image(text), Len(text), m, Len(text))
            /\ text = Mul16Shr16(temp, high, a, b)
        BY DEF text
      <3> HIDE DEF q
      <3> QED BY <1>1, <1>2, <1>7, <3>1, MulForAll, SMT
    <2> HIDE DEF q, changed
    <2> QED BY <1>8, <2>1
  <1> HIDE DEF q
  <1>11. Sp(q) = Sp(m)
    BY <1>2, <1>9 DEF Sp
  <1>12. \A r \in Registers \ ({0} \cup 16 .. 19) : q.data[r] = m.data[r]
    <2> HIDE DEF changed
    <2> QED BY <1>1, <1>2, <1>7, <1>9
  <1>13. q = Execute(Image(text), Len(text), m, Len(text))
    BY DEF q
  <1>14. Number(q, high, 2) = (c * d) \div 65536
    BY <1>9 DEF Shr16
  <1> QED BY <1>g, <1>9, <1>11, <1>12, <1>13, <1>14 DEF Runs

LEMMA DetectionRight ==
  ASSUME NEW simulated \in BOOLEAN
  PROVE  DetectionComputes(simulated)
  <1> DEFINE active == 18   first == 20
             text == DetectSimulator(simulated, active)
             values == Place(first, 0, 1)
             m == Before(values)
             q == Execute(Image(text), Len(text), m, Len(text))
             changed == {active} \cup 20 .. 25
  <1>1. active \in Registers \ 20 .. 25 /\ first \in 2 .. 28 /\ 0 \in Int
    BY DEF Registers
  <1>2. Registers \subseteq Memory /\ SPL \in Memory /\ SPL + 1 \in Memory
        /\ SPL \notin changed /\ SPL + 1 \notin changed
    BY DEF Memory, SPL
  <1>g. /\ DetectionComputes(simulated)
              <=> Runs(text, m, changed, LAMBDA z : (z.data[active] # 0) = simulated)
    BY DEF DetectionComputes
  <1> HIDE DEF active, first, text
  <1>3. Given(values)
    BY <1>1, OnePlaced
  <1> HIDE DEF values
  <1>4. m \in Machines(Memory) /\ m.pc = 0 /\ m.status = "running"
    BY <1>3, BeforeIs
  <1> HIDE DEF m
  <1>5. /\ q.pc = Len(text) /\ q.status = "running" /\ (q.data[active] # 0) = simulated
        /\ \A r \in Memory : r \notin changed => q.data[r] = m.data[r]
    BY <1>1, <1>2, <1>4, DetectionForAll DEF text
  <1> HIDE DEF q, changed
  <1>6. Sp(q) = Sp(m)
    BY <1>2, <1>5 DEF Sp
  <1>7. \A r \in Registers \ changed : q.data[r] = m.data[r]
    BY <1>2, <1>5
  <1>8. q = Execute(Image(text), Len(text), m, Len(text))
    BY DEF q
  <1> QED BY <1>g, <1>5, <1>6, <1>7, <1>8 DEF Runs

LEMMA TenRight ==
  ASSUME NEW c \in Nat, 10 * c < 256 * TwoTo24
  PROVE  TenComputes(c)
  <1> DEFINE dword == 16   sp == 103
             text == TimesTen(dword)
             values == Place(dword, c, 4)
             m == Before(values)
             q == Execute(Image(text), Len(text), m, Len(text))
             changed == {0, SPL, SPL + 1, sp, sp - 1, sp - 2, sp - 3} \cup Four(dword)
  <1>1. /\ dword \in 2 .. 28 /\ dword \in 1 .. 28 /\ sp - 3 >= StackLimit
        /\ {SPL, SPL + 1, sp, sp - 1, sp - 2, sp - 3} \subseteq Memory
        /\ {r \in Registers : r \notin {0} \cup 16 .. 19} = {r \in Registers : r \notin changed}
    BY DEF StackLimit, SPL, Memory, Registers, Four
  <1>2. Registers \subseteq Memory
    BY DEF Memory
  <1>g. TenComputes(c)
          <=> Runs(text, m, {0} \cup 16 .. 19,
                   LAMBDA z : Number(z, dword, 3) + 16777216 * z.data[19] = 10 * c)
    BY DEF TenComputes
  <1>n. Long(q, dword) = Number(q, dword, 3) + TwoTo24 * q.data[19]
    BY DEF Long, Number
  <1>s. sp = 103
    OBVIOUS
  <1> HIDE DEF dword, sp, text
  <1>3. Given(values) /\ \A z : Holds(z, values) => Long(z, dword) = c
    <2>1. c < 256 * TwoTo24
      BY DEF TwoTo24
    <2> QED BY <1>1, <2>1, FourPlaced
  <1> HIDE DEF values
  <1>4. /\ m \in Machines(Memory) /\ m.pc = 0 /\ m.status = "running" /\ Holds(m, values)
        /\ Sp(m) = sp
    BY <1>3, <1>s, BeforeIs DEF Holds
  <1> HIDE DEF m
  <1>5. Long(m, dword) = c
    BY <1>3, <1>4
  <1>6. TenOperands(Memory, m, dword, sp)
    BY <1>1, <1>2, <1>4 DEF TenOperands
  <1>7. /\ q.pc = Len(text) /\ q.status = "running"
        /\ Long(q, dword) = 10 * c /\ Sp(q) = sp
        /\ \A r \in Memory : r \notin changed => q.data[r] = m.data[r]
    BY <1>4, <1>5, <1>6, TenForAll DEF text
  <1> HIDE DEF q, changed
  <1>8. Number(q, dword, 3) + 16777216 * q.data[19] = 10 * c
    <2>1. TwoTo24 = 16777216
      BY DEF TwoTo24
    <2> QED BY <1>7, <1>n, <2>1
  <1>9. \A r \in Registers \ ({0} \cup 16 .. 19) : q.data[r] = m.data[r]
    BY <1>1, <1>2, <1>7
  <1>10. q = Execute(Image(text), Len(text), m, Len(text))
    BY DEF q
  <1> QED BY <1>g, <1>4, <1>7, <1>8, <1>9, <1>10 DEF Runs

(* The firmware's counters are as wide as its routines. *)
LEMMA FirmwareIsWide == W = MCW => Wide
  BY DEF MCW, Wide

(* The numbers of the jobs fit the counters. *)
Fits == Totals \subseteq 1 .. W - 1 /\ Adds \subseteq 1 .. W - 1

LEMMA RoutinesFromTypes ==
  ASSUME W = MCW, Fits, TypeOK
  PROVE  RoutinesCompute
<1>w. Wide
  BY FirmwareIsWide
<1> DEFINE c == ctr   a == add   b == total   i == irqs   k == taken
<1>1. /\ c \in Nat /\ c < W /\ a \in Nat /\ a < W /\ b \in Nat /\ b < W
      /\ i \in Nat /\ i < W /\ k \in Nat
  <2>1. /\ total \in 1 .. W - 1 /\ add \in 1 .. W - 1 /\ ctr \in 0 .. W - 1
        /\ irqs \in 0 .. total /\ taken \in Nat
    BY DEF TypeOK, Fits
  <2>2. W \in Int
    BY WidthAssumption
  <2> QED BY <2>1, <2>2
<1> HIDE DEF c, a, b, i, k
<1>2. AdvanceComputes(c, a, b) /\ \A d \in {1, -1} : PositionComputes(c, d)
  BY <1>w, <1>1, AdvanceRight, PositionRight
<1>3. TenComputes(8 * c + i)
  <2> DEFINE n == 8 * c + i
  <2>1. n \in Nat /\ 10 * n < 256 * TwoTo24
    BY <1>w, <1>1 DEF Wide, TwoTo24
  <2> HIDE DEF n
  <2>2. TenComputes(n)
    BY <2>1, TenRight
  <2> QED BY <2>2 DEF n
<1>4. MulComputes(c % 65536, (c * 13 + k) % 32768)
  <2> DEFINE l == c % 65536   n == c * 13 + k   r == n % 32768
  <2>1. n \in Nat
    BY <1>1
  <2> HIDE DEF n
  <2>2. l \in Nat /\ l < 256 * 256 /\ r \in Nat /\ r < 256 * 256
    BY <1>1, <2>1
  <2> HIDE DEF l, r
  <2>3. MulComputes(l, r)
    BY <2>2, MulRight
  <2> QED BY <2>3 DEF l, n, r
<1>5. \A simulated \in BOOLEAN : DetectionComputes(simulated)
  BY DetectionRight
<1> QED BY <1>2, <1>3, <1>4, <1>5 DEF RoutinesCompute, c, a, b, i, k
-----------------------------------------------------------------------------
Octants == 0 .. 7
Unit    == -1 .. 1

Numbers ==
  /\ arc \in Arcs
  /\ octant \in Octants
  /\ x \in Int /\ y \in Int /\ dx \in Int /\ dy \in Int /\ err \in Int

ErrInv == Numbers /\ ErrExact

(* Every point but the centre lies in one of the quarters. *)
LEMMA QuarterExists ==
  ASSUME NEW p \in Point \ {<<0, 0>>}
  PROVE  \E q \in 0 .. 3 : TurnBack(q, p)[1] > 0 /\ TurnBack(q, p)[2] >= 0
<1> DEFINE a == p[1]  b == p[2]
<1>1. a \in Int /\ b \in Int /\ (a # 0 \/ b # 0)
  BY DEF Point
<1>2. CASE a > 0 /\ b >= 0
  <2> WITNESS 0 \in 0 .. 3
  <2> QED BY <1>1, <1>2 DEF TurnBack
<1>3. CASE b > 0 /\ a <= 0
  <2> WITNESS 1 \in 0 .. 3
  <2> QED BY <1>1, <1>3 DEF TurnBack
<1>4. CASE a < 0 /\ b <= 0
  <2> WITNESS 2 \in 0 .. 3
  <2> QED BY <1>1, <1>4 DEF TurnBack
<1>5. CASE b < 0 /\ a >= 0
  <2> WITNESS 3 \in 0 .. 3
  <2> QED BY <1>1, <1>5 DEF TurnBack
<1> QED
  BY <1>1, <1>2, <1>3, <1>4, <1>5

LEMMA OctantType == ASSUME NEW p \in Point \ {<<0, 0>>} PROVE get_octant(p) \in Octants
<1> DEFINE q == CHOOSE q \in 0 .. 3 : TurnBack(q, p)[1] > 0 /\ TurnBack(q, p)[2] >= 0
<1>1. q \in 0 .. 3
  BY QuarterExists
<1>2. get_octant(p) = 2 * q \/ get_octant(p) = 2 * q + 1
  BY DEF get_octant
<1> HIDE DEF q
<1> QED
  BY <1>1, <1>2 DEF Octants

(* A start of either walk. *)
LEMMA StartExact ==
  ASSUME NEW a \in Arcs
  PROVE  /\ StartOctant(a) \in Octants
         /\ a.from[1] \in Int /\ a.from[2] \in Int
         /\ StartErr(a) \in Int
         /\ StartErr(a) = square(a.to[1]) + square(a.to[2])
                          - square(a.from[1]) - square(a.from[2])
<1>1. a.from \in Point \ {<<0, 0>>} /\ a.to \in Point
  BY ArcsAssumption
<1>2. StartOctant(a) \in Octants
  BY <1>1, OctantType DEF StartOctant
<1>3. a.from[1] \in Int /\ a.from[2] \in Int /\ a.to[1] \in Int /\ a.to[2] \in Int
  BY <1>1 DEF Point
<1>4. \A n \in Int : square(n) \in Int
  BY DEF square
<1> QED
  BY <1>2, <1>3, <1>4 DEF StartErr

(* A step moves by one at most in each coordinate. *)
LEMMA MoveType == ASSUME octant \in Octants PROVE Move[1] \in Unit /\ Move[2] \in Unit
<1>1. quarter \in {0, 1, 2, 3}
  BY DEF quarter, Octants
<1>2. Way[1] \in Unit /\ Way[2] \in Unit
  <2> DEFINE once == IF Sometimes THEN 1 ELSE 0
  <2>1. once \in {0, 1}
    OBVIOUS
  <2>2. Way \in {<<-once, 1>>, <<once, -1>>, <<-1, once>>, <<1, -once>>}
    BY Zenon DEF Way
  <2> HIDE DEF once
  <2> QED
    BY <2>1, <2>2 DEF Unit
<1> DEFINE w == Way
<1> HIDE DEF w
<1>3. w[1] \in Unit /\ w[2] \in Unit
  BY <1>2 DEF w
<1>4. TurnOn(quarter, w)[1] \in Unit /\ TurnOn(quarter, w)[2] \in Unit
  <2>1. CASE quarter = 0  BY <2>1, <1>3 DEF TurnOn, Unit
  <2>2. CASE quarter = 1  BY <2>2, <1>3 DEF TurnOn, Unit
  <2>3. CASE quarter = 2  BY <2>3, <1>3 DEF TurnOn, Unit
  <2>4. CASE quarter = 3  BY <2>4, <1>3 DEF TurnOn, Unit
  <2> QED BY <1>1, <2>1, <2>2, <2>3, <2>4
<1> QED
  BY <1>4 DEF Move, w

(* The square of a coordinate grows by Gain. *)
LEMMA SquareGains ==
  ASSUME NEW n \in Int, NEW m \in Unit
  PROVE  /\ Gain(m, 2 * n) \in Int
         /\ square(n + m) = square(n) + Gain(m, 2 * n)
<1>1. CASE m = -1  BY <1>1 DEF square, Gain
<1>2. CASE m = 0   BY <1>2 DEF square, Gain
<1>3. CASE m = 1   BY <1>3 DEF square, Gain
<1> QED
  BY <1>1, <1>2, <1>3 DEF Unit

LEMMA StepExact ==
  ASSUME ErrInv, KernelStep, arc' = arc
  PROVE  /\ x' \in Int /\ y' \in Int /\ dx' \in Int /\ dy' \in Int /\ err' \in Int
         /\ ErrExact'
<1> DEFINE m == Move[1]  n == Move[2]
<1>1. m \in Unit /\ n \in Unit
  BY MoveType DEF ErrInv, Numbers
<1>2. /\ x' = x + m /\ y' = y + n
      /\ dx' = dx + 2 * m /\ dy' = dy + 2 * n
      /\ err' = err - Gain(m, dx) - Gain(n, dy)
  BY DEF KernelStep
<1> HIDE DEF m, n
<1>3. x \in Int /\ y \in Int /\ dx = 2 * x /\ dy = 2 * y /\ err \in Int
  BY DEF ErrInv, Numbers, ErrExact
<1>4. /\ Gain(m, dx) \in Int /\ square(x + m) = square(x) + Gain(m, dx)
      /\ Gain(n, dy) \in Int /\ square(y + n) = square(y) + Gain(n, dy)
  BY <1>1, <1>3, SquareGains
<1>5. x' \in Int /\ y' \in Int /\ dx' = 2 * x' /\ dy' = 2 * y' /\ err' \in Int
  BY <1>1, <1>2, <1>3, <1>4 DEF Unit
<1>6. err = square(arc.to[1]) + square(arc.to[2]) - square(x) - square(y)
  BY DEF ErrInv, ErrExact
<1>7. arc.to[1] \in Int /\ arc.to[2] \in Int
  BY ArcsAssumption DEF ErrInv, Numbers, Point
<1>8. square(arc.to[1]) \in Int /\ square(arc.to[2]) \in Int /\ square(x) \in Int /\ square(y) \in Int
  BY <1>3, <1>7 DEF square
<1>9. err' = square(arc.to[1]) + square(arc.to[2]) - square(x') - square(y')
  BY <1>2, <1>3, <1>4, <1>6, <1>8
<1> QED
  BY <1>5, <1>9 DEF ErrExact, square

LEMMA NextOctantType == ASSUME octant \in Octants PROVE NextOctant \in Octants
  BY DEF NextOctant, Octants

LEMMA InitErr == ArcInit => ErrInv
  BY StartExact DEF ArcInit, ErrInv, Numbers, ErrExact

LEMMA NextErr == ErrInv /\ [ArcNext]_arc_vars => ErrInv'
<1> SUFFICES ASSUME ErrInv, [ArcNext]_arc_vars PROVE ErrInv'
  OBVIOUS
<1> USE NextOctantType DEF ErrInv, Numbers
<1>1. CASE PlanStep
  <2>1. KernelStep /\ arc' = arc /\ octant' \in Octants
    BY <1>1 DEF PlanStep
  <2> QED
    BY <2>1, StepExact
<1>2. CASE Queue
  BY <1>2, StartExact DEF Queue, ErrExact
<1>3. CASE DrawStep
  <2>1. KernelStep /\ arc' = arc /\ octant' \in Octants
    BY <1>3 DEF DrawStep
  <2> QED
    BY <2>1, StepExact
<1>4. CASE UNCHANGED arc_vars
  BY <1>4 DEF arc_vars, ErrExact
<1> QED
  BY <1>1, <1>2, <1>3, <1>4 DEF ArcNext

(* What a kernel compares err with is true at every step: neither walk     *)
(* accumulates an error, however long the arc.                             *)
THEOREM ErrorTermExact == ArcSpec => []ErrExact
<1>1. ErrInv => ErrExact
  BY DEF ErrInv
<1> QED
  BY <1>1, InitErr, NextErr, PTL DEF ArcSpec
-----------------------------------------------------------------------------
(* The stepper's walk stays on the circle.  Turned back to the first       *)
(* quarter, the point lies in the octant the kernel believes it in         *)
(* (Placed), and the error is no larger than the larger coordinate or than *)
(* the error the arc started with (Near); the walk that turns clockwise    *)
(* may exceed that by one in the step in which it enters an even octant.   *)
Larger(o, p, q) == IF o % 2 = 0 THEN p ELSE q

Placed(ccw, o, p, q) ==
  IF o % 2 = 0 THEN 0 <= q /\ q < p ELSE 0 <= p /\ p <= q /\ (ccw => p > 0)

Fresh(ccw, o, p, q) == ~ccw /\ o % 2 = 0 /\ p = q + 2

Near(ccw, o, p, q, e, s) ==
  /\ e <= Larger(o, p, q) \/ e <= s
  /\ \/ -e <= Larger(o, p, q) \/ -e <= 1 - s
     \/ Fresh(ccw, o, p, q) /\ (-e <= Larger(o, p, q) + 1 \/ -e <= 3 - s)
  /\ ~ccw /\ o % 2 = 0 /\ q = 0 => e = s

Norm(p) == square(p[1]) + square(p[2])

(* The ends of an arc differ in radius by about half a step at most, and   *)
(* are eight steps or more from the centre.                                *)
Circular(a) ==
  /\ Norm(a.to) >= 64
  /\ 2 * square(StartErr(a)) <= Norm(a.from) + Norm(a.to)

Walk == Placed(arc.ccw, octant, u, v) /\ Near(arc.ccw, octant, u, v, err, StartErr(arc))

CircleInv == ErrInv /\ (phase # "plan" => Walk)

(* Squares, for the solver. *)
LEMMA SquareGrows ==
  ASSUME NEW m \in Nat, NEW n \in Nat, m <= n
  PROVE  square(m) \in Nat /\ square(n) \in Nat /\ square(m) <= square(n)
<1>1. PICK k \in Nat : n = m + k
  <2> WITNESS n - m \in Nat
  <2> QED OBVIOUS
<1>2. n * n = m * m + k * m + k * m + k * k
  BY <1>1
<1>3. m * m \in Nat /\ k * m \in Nat /\ k * k \in Nat
  BY <1>1
<1> QED
  BY <1>2, <1>3 DEF square

LEMMA SquareBy ==
  ASSUME NEW m \in Int, NEW k \in Int
  PROVE  /\ square(m) \in Nat /\ square(m + k) = square(m) + 2 * (k * m) + k * k
         /\ square(-m) = square(m)
  BY DEF square

(* An error no larger than a coordinate is less than twice the radius. *)
LEMMA SmallError ==
  ASSUME NEW n \in Nat, NEW big \in Nat, NEW rest \in Nat, NEW e \in Int, NEW RR \in Nat,
         RR >= 64, square(big) + rest = RR - e,
         \/ e = n /\ n <= big
         \/ e = -n /\ n <= big + 1
  PROVE  square(n) <= 4 * RR
<1>1. square(n) \in Nat /\ square(big) \in Nat
  BY SquareBy
<1>2. CASE e = n /\ n <= big
  <2>1. square(n) <= square(big)
    BY <1>2, SquareGrows
  <2> QED
    BY <1>1, <1>2, <2>1
<1>3. CASE e = -n /\ n <= big + 1
  <2>1. square(n) <= square(big + 1)
    BY <1>3, SquareGrows
  <2>2. square(big + 1) = square(big) + 2 * big + 1
    BY DEF square
  <2>3. 2 * big <= square(big) + 1
    BY DEF square
  <2>4. square(n) <= 2 * RR + 2 * n + 2
    BY <1>1, <1>3, <2>1, <2>2, <2>3
  <2>5. CASE n <= RR - 1
    BY <1>1, <2>4, <2>5
  <2>6. CASE n >= RR
    <3>1. n >= 64
      BY <2>6
    <3>2. square(n) >= 64 * n
      BY <3>1 DEF square
    <3> QED
      BY <1>1, <2>4, <2>6, <3>1, <3>2
  <2> QED
    BY <2>5, <2>6
<1> QED
  BY <1>2, <1>3

(* Nor is one no larger than that at the start. *)
LEMMA StartSmall ==
  ASSUME NEW n \in Nat, NEW s \in Int, NEW RR \in Nat,
         RR >= 64, 2 * square(s) <= 2 * RR - s, n <= s \/ n <= 3 - s
  PROVE  square(n) <= 4 * RR
<1>1. square(s) \in Nat /\ square(-s) = square(s) /\ square(n) \in Nat
  BY SquareBy
<1>2. -s <= square(s) /\ s <= square(s)
  BY DEF square
<1>3. CASE n <= s
  <2>1. square(n) <= square(s)
    BY <1>3, SquareGrows
  <2> QED
    BY <1>1, <1>2, <1>3, <2>1
<1>4. CASE n <= 3 - s
  <2>1. CASE s >= 0
    <3>1. square(n) <= square(3)
      BY <1>4, <2>1, SquareGrows
    <3> QED
      BY <3>1 DEF square
  <2>2. CASE s < 0
    <3> DEFINE d == -s
    <3>1. d \in Nat /\ n <= d + 3
      BY <1>4, <2>2
    <3>2. square(n) <= square(d + 3)
      BY <3>1, SquareGrows
    <3>3. square(d + 3) = square(d) + 6 * d + 9
      BY <3>1 DEF square
    <3>4. 6 * d <= square(d) + 9
      <4>1. square(d - 3) \in Nat
        BY <3>1, SquareBy
      <4>2. square(d - 3) = square(d) - 6 * d + 9
        BY <3>1 DEF square
      <4> QED BY <3>1, <4>1, <4>2 DEF square
    <3>5. 2 * square(d) <= 2 * RR + d /\ square(d) \in Nat /\ d <= square(d)
      BY <1>1, <1>2
    <3> QED
      BY <1>1, <3>1, <3>2, <3>3, <3>4, <3>5
  <2> QED
    BY <2>1, <2>2
<1> QED
  BY <1>3, <1>4

(* A point on the circle is not close to the centre. *)
LEMMA FarOut ==
  ASSUME NEW big \in Nat, NEW small \in Nat, NEW e \in Int, NEW RR \in Nat,
         RR >= 64, square(e) <= 4 * RR, small <= big,
         square(big) + square(small) = RR - e
  PROVE  big >= 4
<1>1. 2 * e <= RR
  <2>1. SUFFICES ASSUME 2 * e > RR PROVE FALSE
    OBVIOUS
  <2>2. e \in Nat /\ e >= 33
    BY <2>1
  <2>3. square(e) >= 33 * e
    BY <2>2 DEF square
  <2> QED
    BY <2>1, <2>2, <2>3, SquareBy
<1>2. square(small) <= square(big) /\ square(big) \in Nat /\ square(small) \in Nat
  BY SquareGrows
<1>3. CASE big <= 3
  <2>1. square(big) <= square(3)
    BY <1>3, SquareGrows
  <2> QED
    BY <1>1, <1>2, <2>1 DEF square
<1> QED
  BY <1>3

(* So a point that is near is on the circle, and away from its centre. *)
LEMMA NearOnCircle ==
  ASSUME NEW ccw \in BOOLEAN, NEW o \in Octants, NEW p \in Int, NEW q \in Int,
         NEW e \in Int, NEW s \in Int, NEW RR \in Nat,
         RR >= 64, 2 * square(s) <= 2 * RR - s,
         Placed(ccw, o, p, q), Near(ccw, o, p, q, e, s),
         square(p) + square(q) = RR - e
  PROVE  square(e) <= 4 * RR /\ Larger(o, p, q) >= 4
<1> DEFINE big == Larger(o, p, q)
           small == IF o % 2 = 0 THEN q ELSE p
<1>1. /\ big \in Nat /\ small \in Nat /\ small <= big
      /\ square(big) \in Nat /\ square(small) \in Nat
      /\ square(big) + square(small) = RR - e
  <2>1. big \in Nat /\ small \in Nat /\ small <= big
    BY DEF Placed, Larger
  <2>2. (big = p /\ small = q) \/ (big = q /\ small = p)
    BY DEF Larger
  <2>3. square(p) \in Nat /\ square(q) \in Nat
    BY SquareBy
  <2> HIDE DEF big, small
  <2> QED BY <2>1, <2>2, <2>3
<1>2. /\ e <= big \/ e <= s
      /\ -e <= big + 1 \/ -e <= 3 - s
  BY <1>1 DEF Near
<1> HIDE DEF big, small
<1>3. square(e) <= 4 * RR
  <2>1. CASE e >= 0
    <3>1. CASE e <= big
      <4> DEFINE n == e
      <4>1. n \in Nat /\ e = n /\ n <= big
        BY <2>1, <3>1
      <4> HIDE DEF n
      <4>2. square(n) <= 4 * RR
        BY <1>1, <4>1, SmallError
      <4> QED BY <4>1, <4>2
    <3>2. CASE e <= s    BY <2>1, <3>2, StartSmall
    <3> QED BY <1>2, <3>1, <3>2
  <2>2. CASE e < 0
    <3> DEFINE n == -e
    <3>1. n \in Nat /\ e = -n /\ square(e) = square(n)
      BY <2>2, SquareBy
    <3> HIDE DEF n
    <3>2. CASE n <= big + 1
      <4>1. square(n) <= 4 * RR
        BY <1>1, <3>1, <3>2, SmallError
      <4> QED BY <3>1, <4>1
    <3>3. CASE n <= 3 - s
      <4>1. square(n) <= 4 * RR
        BY <3>1, <3>3, StartSmall
      <4> QED BY <3>1, <4>1
    <3> QED BY <1>2, <3>1, <3>2, <3>3
  <2> QED BY <2>1, <2>2
<1>4. big >= 4
  BY <1>1, <1>3, FarOut
<1> QED
  BY <1>3, <1>4 DEF big
-----------------------------------------------------------------------------
(* Turning a point keeps its distance from the centre, a step turned on    *)
(* and back is the step, and the next quarter turns by one more.           *)
LEMMA TurnKeepsNorm ==
  ASSUME NEW q \in 0 .. 3, NEW a \in Int, NEW b \in Int
  PROVE  /\ TurnBack(q, <<a, b>>)[1] \in Int /\ TurnBack(q, <<a, b>>)[2] \in Int
         /\ square(TurnBack(q, <<a, b>>)[1]) + square(TurnBack(q, <<a, b>>)[2]) = square(a) + square(b)
<1>1. square(-a) = square(a) /\ square(-b) = square(b)
      /\ square(a) \in Nat /\ square(b) \in Nat
  BY SquareBy
<1>2. \/ TurnBack(q, <<a, b>>) = <<a, b>>
      \/ TurnBack(q, <<a, b>>) = <<b, -a>>
      \/ TurnBack(q, <<a, b>>) = <<-a, -b>>
      \/ TurnBack(q, <<a, b>>) = <<-b, a>>
  BY DEF TurnBack
<1> QED
  BY <1>1, <1>2

LEMMA TurnStep ==
  ASSUME NEW q \in 0 .. 3, NEW a \in Int, NEW b \in Int, NEW m \in Unit, NEW n \in Unit
  PROVE  LET w == TurnOn(q, <<m, n>>)
             t == TurnBack(q, <<a, b>>)
         IN  /\ TurnBack(q, <<a + w[1], b + w[2]>>)[1] = t[1] + m
             /\ TurnBack(q, <<a + w[1], b + w[2]>>)[2] = t[2] + n
<1>1. CASE q = 0 BY <1>1 DEF TurnBack, TurnOn, Unit
<1>2. CASE q = 1 BY <1>2 DEF TurnBack, TurnOn, Unit
<1>3. CASE q = 2 BY <1>3 DEF TurnBack, TurnOn, Unit
<1>4. CASE q = 3 BY <1>4 DEF TurnBack, TurnOn, Unit
<1> QED
  BY <1>1, <1>2, <1>3, <1>4

LEMMA TurnMore ==
  ASSUME NEW q \in 0 .. 3, NEW r \in 0 .. 3, NEW a \in Int, NEW b \in Int,
         r = q + 1 \/ (q = 3 /\ r = 0)
  PROVE  LET t == TurnBack(q, <<a, b>>)
             w == TurnBack(r, <<a, b>>)
         IN  /\ w[1] = t[2] /\ w[2] = -t[1]
             /\ t[1] = -w[2] /\ t[2] = w[1]
<1>1. CASE q = 0 BY <1>1 DEF TurnBack
<1>2. CASE q = 1 BY <1>2 DEF TurnBack
<1>3. CASE q = 2 BY <1>3 DEF TurnBack
<1>4. CASE q = 3 BY <1>4 DEF TurnBack
<1> QED
  BY <1>1, <1>2, <1>3, <1>4

(* How the octants follow one another. *)
LEMMA OctantsFollow ==
  ASSUME NEW o \in Octants
  PROVE  /\ o % 2 \in {0, 1} /\ o \div 2 \in 0 .. 3
         /\ (o + 1) % 8 \in Octants /\ (o + 7) % 8 \in Octants
         /\ ((o + 1) % 8) % 2 = 1 - (o % 2) /\ ((o + 7) % 8) % 2 = 1 - (o % 2)
         /\ o % 2 = 0 => ((o + 1) % 8) \div 2 = o \div 2
         /\ o % 2 = 1 => ((o + 7) % 8) \div 2 = o \div 2
         /\ o % 2 = 1 => \/ ((o + 1) % 8) \div 2 = (o \div 2) + 1
                         \/ o \div 2 = 3 /\ ((o + 1) % 8) \div 2 = 0
         /\ o % 2 = 0 => \/ o \div 2 = (((o + 7) % 8) \div 2) + 1
                         \/ o \div 2 = 0 /\ ((o + 7) % 8) \div 2 = 3
  BY DEF Octants

LEMMA StartWalk ==
  ASSUME NEW a \in Arcs
  PROVE  LET q == StartOctant(a) \div 2
             t == TurnBack(q, <<a.from[1], a.from[2]>>)
         IN  /\ Placed(a.ccw, StartOctant(a), t[1], t[2])
             /\ Near(a.ccw, StartOctant(a), t[1], t[2], StartErr(a), StartErr(a))
<1> DEFINE p == a.from
           q == CHOOSE q \in 0 .. 3 : TurnBack(q, p)[1] > 0 /\ TurnBack(q, p)[2] >= 0
           t == TurnBack(q, p)
           o == StartOctant(a)
<1>1. p \in Point \ {<<0, 0>>} /\ p = <<p[1], p[2]>> /\ p[1] \in Int /\ p[2] \in Int
  BY ArcsAssumption DEF Point
<1>2. q \in 0 .. 3 /\ t[1] > 0 /\ t[2] >= 0
  BY <1>1, QuarterExists
<1>3. o = IF t[1] > t[2] THEN 2 * q ELSE 2 * q + 1
  BY DEF get_octant, StartOctant
<1>4. t[1] \in Int /\ t[2] \in Int
  BY <1>1, <1>2, TurnKeepsNorm
<1>5. StartErr(a) \in Int
  BY StartExact
<1> DEFINE t1 == t[1]  t2 == t[2]
<1> HIDE DEF q, o, t1, t2
<1>6. /\ o \div 2 = q
      /\ IF t1 > t2 THEN o % 2 = 0 ELSE o % 2 = 1
  <2>1. CASE t1 > t2
    BY <1>2, <1>3, <2>1 DEF t1, t2
  <2>2. CASE ~(t1 > t2)
    BY <1>2, <1>3, <2>2 DEF t1, t2
  <2> QED BY <2>1, <2>2
<1>7. t1 \in Int /\ t2 \in Int /\ t1 > 0 /\ t2 >= 0
  BY <1>2, <1>4 DEF t1, t2
<1>8. Placed(a.ccw, o, t1, t2) /\ Near(a.ccw, o, t1, t2, StartErr(a), StartErr(a))
  BY <1>5, <1>6, <1>7 DEF Placed, Near
<1>9. TurnBack(o \div 2, <<p[1], p[2]>>) = t
  BY <1>1, <1>6
<1> QED
  BY <1>8, <1>9 DEF o, t1, t2

(* What the invariant says of the point, turned. *)
LEMMA WalkFacts ==
  ASSUME ErrInv, Walk, Circular(arc)
  PROVE  /\ octant \in Octants /\ u \in Int /\ v \in Int /\ err \in Int
         /\ StartErr(arc) \in Int /\ arc.ccw \in BOOLEAN
         /\ Norm(arc.to) \in Nat
         /\ square(u) + square(v) = Norm(arc.to) - err
         /\ square(err) <= 4 * Norm(arc.to)
         /\ Larger(octant, u, v) >= 4
<1> DEFINE RR == Norm(arc.to)  s == StartErr(arc)
<1>1. /\ arc \in Arcs /\ octant \in Octants /\ x \in Int /\ y \in Int /\ err \in Int
      /\ err = square(arc.to[1]) + square(arc.to[2]) - square(x) - square(y)
  BY DEF ErrInv, Numbers, ErrExact
<1>2. quarter \in 0 .. 3
  BY <1>1, OctantsFollow DEF quarter
<1>3. u \in Int /\ v \in Int /\ square(u) + square(v) = square(x) + square(y)
  BY <1>1, <1>2, TurnKeepsNorm DEF u, v
<1>4. /\ arc.to[1] \in Int /\ arc.to[2] \in Int /\ arc.from[1] \in Int /\ arc.from[2] \in Int
      /\ arc.ccw \in BOOLEAN
  BY <1>1, ArcsAssumption DEF Point
<1>5. /\ square(arc.to[1]) \in Nat /\ square(arc.to[2]) \in Nat
      /\ square(arc.from[1]) \in Nat /\ square(arc.from[2]) \in Nat
      /\ square(x) \in Nat /\ square(y) \in Nat
  BY <1>1, <1>4, SquareBy
<1>6. RR \in Nat /\ RR = square(arc.to[1]) + square(arc.to[2])
  BY <1>5 DEF Norm
<1>7. s \in Int /\ s = RR - Norm(arc.from) /\ Norm(arc.from) \in Nat
  BY <1>1, <1>5, <1>6, StartExact DEF Norm
<1>8. square(s) \in Nat
  BY <1>7, SquareBy
<1>9. RR >= 64 /\ 2 * square(s) <= Norm(arc.from) + RR
  BY DEF Circular
<1>10. square(u) + square(v) = RR - err
  BY <1>1, <1>3, <1>5, <1>6
<1>11. Placed(arc.ccw, octant, u, v) /\ Near(arc.ccw, octant, u, v, err, s)
  BY DEF Walk
<1> HIDE DEF RR, s
<1>12. 2 * square(s) <= 2 * RR - s
  BY <1>6, <1>7, <1>8, <1>9
<1>13. square(err) <= 4 * RR /\ Larger(octant, u, v) >= 4
  BY <1>1, <1>3, <1>4, <1>6, <1>7, <1>9, <1>10, <1>11, <1>12, NearOnCircle
<1> QED
  BY <1>1, <1>3, <1>4, <1>6, <1>7, <1>10, <1>13 DEF RR, s

(* One interrupt of the stepper. *)
LEMMA DrawWalks ==
  ASSUME ErrInv, Walk, Circular(arc), DrawStep
  PROVE  Walk'
<1> DEFINE P == u'
           Q == v'
           a == TurnBack(quarter, <<x', y'>>)[1]
           b == TurnBack(quarter, <<x', y'>>)[2]
           f == err'
           s == StartErr(arc)
           RR == Norm(arc.to)
           w1 == Way[1]
           w2 == Way[2]
<1>1. /\ octant \in Octants /\ u \in Int /\ v \in Int /\ err \in Int
      /\ s \in Int /\ arc.ccw \in BOOLEAN /\ RR \in Nat
      /\ square(u) + square(v) = RR - err
      /\ Larger(octant, u, v) >= 4
  BY WalkFacts
<1>2. KernelStep /\ arc' = arc /\ octant' = IF Leaves(a, b) THEN NextOctant ELSE octant
  BY DEF DrawStep
<1>3. x' \in Int /\ y' \in Int /\ f \in Int /\ ErrExact'
  BY <1>2, StepExact
<1>4. quarter \in 0 .. 3 /\ quarter = octant \div 2 /\ quarter' = octant' \div 2
  BY <1>1, OctantsFollow DEF quarter
<1>5. Placed(arc.ccw, octant, u, v) /\ Near(arc.ccw, octant, u, v, err, s)
  BY DEF Walk
<1>6. /\ w1 \in Unit /\ w2 \in Unit /\ Way = <<w1, w2>>
  <2> DEFINE once == IF Sometimes THEN 1 ELSE 0
  <2>1. once \in {0, 1}
    OBVIOUS
  <2>2. Way \in {<<-once, 1>>, <<once, -1>>, <<-1, once>>, <<1, -once>>}
    BY Zenon DEF Way
  <2> HIDE DEF once
  <2> QED
    BY <2>1, <2>2 DEF Unit
<1>7. /\ x \in Int /\ y \in Int
      /\ x' = x + TurnOn(quarter, Way)[1] /\ y' = y + TurnOn(quarter, Way)[2]
  BY <1>2 DEF KernelStep, Move, ErrInv, Numbers
<1>8. u = TurnBack(quarter, <<x, y>>)[1] /\ v = TurnBack(quarter, <<x, y>>)[2]
  BY DEF u, v
<1> HIDE DEF w1, w2
<1>9. a = u + w1 /\ b = v + w2
  BY <1>4, <1>6, <1>7, <1>8, TurnStep
<1>10. /\ a \in Int /\ b \in Int
       /\ square(a) + square(b) = square(x') + square(y')
  BY <1>3, <1>4, TurnKeepsNorm
<1>11. f = RR - square(a) - square(b)
  <2>1. f = square(arc.to[1]) + square(arc.to[2]) - square(x') - square(y')
    BY <1>2, <1>3 DEF ErrExact
  <2>2. RR = square(arc.to[1]) + square(arc.to[2])
    BY DEF Norm
  <2>3. /\ square(x') \in Nat /\ square(y') \in Nat /\ square(a) \in Nat /\ square(b) \in Nat
    BY <1>3, <1>10, SquareBy
  <2>4. arc \in Arcs /\ arc.to[1] \in Int /\ arc.to[2] \in Int
    BY ArcsAssumption DEF ErrInv, Numbers, Point
  <2>5. square(arc.to[1]) \in Nat /\ square(arc.to[2]) \in Nat
    BY <2>4, SquareBy
  <2> HIDE DEF RR, f, a, b
  <2> QED BY <1>1, <1>3, <1>10, <2>1, <2>2, <2>3, <2>5
<1> DEFINE slopes == w1 * (2 * u) + w1 * w1 + (w2 * (2 * v) + w2 * w2)
<1>12. /\ square(u + w1) = square(u) + (w1 * (2 * u) + w1 * w1)
       /\ square(v + w2) = square(v) + (w2 * (2 * v) + w2 * w2)
       /\ square(u) \in Nat /\ square(v) \in Nat
       /\ square(u + w1) \in Nat /\ square(v + w2) \in Nat
  <2>1. w1 \in Int /\ w2 \in Int /\ u + w1 \in Int /\ v + w2 \in Int
    BY <1>1, <1>6 DEF Unit
  <2>2. square(u + w1) = square(u) + Gain(w1, 2 * u) /\ square(v + w2) = square(v) + Gain(w2, 2 * v)
    BY <1>1, <1>6, SquareGains
  <2>3. /\ square(u) \in Nat /\ square(v) \in Nat
        /\ square(u + w1) \in Nat /\ square(v + w2) \in Nat
    BY <1>1, <2>1, SquareBy
  <2> QED BY <2>2, <2>3 DEF Gain, square
<1>13. /\ w1 = -1 \/ w1 = 0 \/ w1 = 1
       /\ w2 = -1 \/ w2 = 0 \/ w2 = 1
  BY <1>6 DEF Unit
<1> DEFINE g1 == IF w1 = 0 THEN 0 ELSE IF w1 = 1 THEN 2 * u + 1 ELSE 1 - 2 * u
           g2 == IF w2 = 0 THEN 0 ELSE IF w2 = 1 THEN 2 * v + 1 ELSE 1 - 2 * v
<1>14. w1 * (2 * u) + w1 * w1 = g1 /\ w2 * (2 * v) + w2 * w2 = g2 /\ g1 \in Int /\ g2 \in Int
  BY <1>1, <1>13
<1> HIDE DEF a, b, f, s, RR, g1, g2
<1>15. f = err - g1 - g2
  <2>1. square(a) = square(u) + g1 /\ square(b) = square(v) + g2
    BY <1>9, <1>12, <1>14
  <2> QED BY <1>1, <1>3, <1>11, <1>12, <1>14, <2>1
<1>16. /\ NextOctant \in Octants /\ NextOctant % 2 = 1 - (octant % 2) /\ octant % 2 \in {0, 1}
  BY <1>1, OctantsFollow DEF NextOctant
<1>17. octant' \in Octants /\ quarter' \in 0 .. 3
  BY <1>1, <1>2, <1>4, <1>16, OctantsFollow
<1>18. /\ P = TurnBack(quarter', <<x', y'>>)[1] /\ Q = TurnBack(quarter', <<x', y'>>)[2]
       /\ a = TurnBack(quarter, <<x', y'>>)[1] /\ b = TurnBack(quarter, <<x', y'>>)[2]
  BY DEF u, v, a, b
<1>19. CASE arc.ccw /\ octant % 2 = 0
  <2>1. quarter' = quarter
    BY <1>1, <1>2, <1>4, <1>19, OctantsFollow DEF NextOctant
  <2>2. P = a /\ Q = b
    BY <1>18, <2>1
  <2>3. /\ Way = IF err <= 2 * v - u THEN <<-1, 1>> ELSE <<0, 1>>
    BY <1>19 DEF Way, Sometimes
  <2>4. /\ b = v + 1
        /\ \/ err <= 2 * v - u /\ a = u - 1 /\ f = err - (2 * v + 1) + (2 * u - 1)
           \/ err > 2 * v - u /\ a = u /\ f = err - (2 * v + 1)
    BY <1>1, <1>9, <1>15, <2>3 DEF w1, w2, g1, g2
  <2>5. Leaves(a, b) <=> b >= a
    BY <1>19 DEF Leaves
  <2>6. u >= 4
    BY <1>1, <1>19 DEF Larger
  <2>7. NextOctant % 2 = 1
    BY <1>16, <1>19
  <2>8. IF b >= a THEN Placed(TRUE, NextOctant, a, b) /\ Near(TRUE, NextOctant, a, b, f, s)
                  ELSE Placed(TRUE, octant, a, b) /\ Near(TRUE, octant, a, b, f, s)
    <3>1. /\ 0 <= v /\ v < u
          /\ err <= u \/ err <= s
          /\ -err <= u \/ -err <= 1 - s
      BY <1>5, <1>19 DEF Placed, Near, Larger, Fresh
    <3>2. CASE b >= a
      BY <1>1, <1>3, <1>10, <1>19, <2>4, <2>6, <2>7, <3>1, <3>2 DEF Placed, Near, Larger, Fresh
    <3>3. CASE ~(b >= a)
      BY <1>1, <1>3, <1>10, <1>19, <2>4, <2>6, <3>1, <3>3 DEF Placed, Near, Larger, Fresh
    <3> QED BY <3>2, <3>3
  <2>9. Placed(TRUE, octant', a, b) /\ Near(TRUE, octant', a, b, f, s)
    BY <1>2, <2>5, <2>8
  <2> QED BY <1>2, <1>19, <2>2, <2>9 DEF Walk, f, s
<1>20. CASE arc.ccw /\ octant % 2 = 1
  <2>1. IF a <= 0 THEN quarter' = quarter + 1 \/ (quarter = 3 /\ quarter' = 0)
                       ELSE quarter' = quarter
    <3>1. Leaves(a, b) <=> a <= 0
      BY <1>20 DEF Leaves
    <3>2. CASE a <= 0
      <4>1. octant' = (octant + 1) % 8
        BY <1>2, <1>20, <3>1, <3>2 DEF NextOctant
      <4> QED BY <1>1, <1>4, <1>20, <3>2, <4>1, OctantsFollow
    <3>3. CASE ~(a <= 0)
      BY <1>2, <1>4, <3>1, <3>3
    <3> QED BY <3>2, <3>3
  <2>2. IF a <= 0 THEN P = b /\ Q = -a ELSE P = a /\ Q = b
    <3>1. CASE a <= 0
      BY <1>3, <1>4, <1>17, <1>18, <2>1, <3>1, TurnMore DEF a, b
    <3>2. CASE ~(a <= 0)
      BY <1>18, <2>1, <3>2 DEF a, b
    <3> QED BY <3>1, <3>2
  <2>3. Way = IF err > v - 2 * u THEN <<-1, 1>> ELSE <<-1, 0>>
    BY <1>20 DEF Way, Sometimes
  <2>4. /\ a = u - 1
        /\ \/ err > v - 2 * u /\ b = v + 1 /\ f = err + (2 * u - 1) - (2 * v + 1)
           \/ err <= v - 2 * u /\ b = v /\ f = err + (2 * u - 1)
    BY <1>1, <1>9, <1>15, <2>3 DEF w1, w2, g1, g2
  <2>5. /\ Leaves(a, b) <=> a <= 0
        /\ octant' = IF a <= 0 THEN NextOctant ELSE octant
    BY <1>2, <1>20 DEF Leaves
  <2>6. v >= 4 /\ NextOctant % 2 = 0
    BY <1>1, <1>16, <1>20 DEF Larger
  <2>7. /\ 0 < u /\ u <= v
        /\ err <= v \/ err <= s
        /\ -err <= v \/ -err <= 1 - s
    BY <1>5, <1>20 DEF Placed, Near, Larger, Fresh
  <2>8. CASE a <= 0
    <3>1. P = b /\ Q = -a /\ octant' = NextOctant
      BY <2>2, <2>5, <2>8
    <3> HIDE DEF P, Q
    <3>2. Placed(TRUE, octant', P, Q) /\ Near(TRUE, octant', P, Q, f, s)
      BY <1>1, <1>3, <1>10, <1>20, <2>4, <2>6, <2>7, <2>8, <3>1 DEF Placed, Near, Larger, Fresh
    <3> QED BY <1>2, <1>20, <3>2 DEF Walk, P, Q, f, s
  <2>9. CASE ~(a <= 0)
    <3>1. P = a /\ Q = b /\ octant' = octant
      BY <2>2, <2>5, <2>9
    <3> HIDE DEF P, Q
    <3>2. Placed(TRUE, octant', P, Q) /\ Near(TRUE, octant', P, Q, f, s)
      BY <1>1, <1>3, <1>10, <1>20, <2>4, <2>6, <2>7, <2>9, <3>1 DEF Placed, Near, Larger, Fresh
    <3> QED BY <1>2, <1>20, <3>2 DEF Walk, P, Q, f, s
  <2> QED BY <2>8, <2>9
<1>21. CASE ~arc.ccw /\ octant % 2 = 0
  <2>1. IF b <= 0 THEN quarter = quarter' + 1 \/ (quarter = 0 /\ quarter' = 3)
                       ELSE quarter' = quarter
    <3>1. Leaves(a, b) <=> b <= 0
      BY <1>21 DEF Leaves
    <3>2. CASE b <= 0
      <4>1. octant' = (octant + 7) % 8
        BY <1>2, <1>21, <3>1, <3>2 DEF NextOctant
      <4> QED BY <1>1, <1>4, <1>21, <3>2, <4>1, OctantsFollow
    <3>3. CASE ~(b <= 0)
      BY <1>2, <1>4, <3>1, <3>3
    <3> QED BY <3>2, <3>3
  <2>2. IF b <= 0 THEN P = -b /\ Q = a ELSE P = a /\ Q = b
    <3>1. CASE b <= 0
      BY <1>3, <1>4, <1>17, <1>18, <2>1, <3>1, TurnMore DEF a, b
    <3>2. CASE ~(b <= 0)
      BY <1>18, <2>1, <3>2 DEF a, b
    <3> QED BY <3>1, <3>2
  <2>3. Way = IF err > u - 2 * v THEN <<1, -1>> ELSE <<0, -1>>
    BY <1>21 DEF Way, Sometimes
  <2>4. /\ b = v - 1
        /\ \/ err > u - 2 * v /\ a = u + 1 /\ f = err + (2 * v - 1) - (2 * u + 1)
           \/ err <= u - 2 * v /\ a = u /\ f = err + (2 * v - 1)
    BY <1>1, <1>9, <1>15, <2>3 DEF w1, w2, g1, g2
  <2>5. /\ Leaves(a, b) <=> b <= 0
        /\ octant' = IF b <= 0 THEN NextOctant ELSE octant
    BY <1>2, <1>21 DEF Leaves
  <2>6. u >= 4 /\ NextOctant % 2 = 1
    BY <1>1, <1>16, <1>21 DEF Larger
  <2>7. /\ 0 <= v /\ v < u
        /\ err <= u \/ err <= s
        /\ \/ -err <= u \/ -err <= 1 - s
           \/ u = v + 2 /\ (-err <= u + 1 \/ -err <= 3 - s)
        /\ v = 0 => err = s
    BY <1>5, <1>21 DEF Placed, Near, Larger, Fresh
  <2>8. CASE b <= 0
    <3>1. P = -b /\ Q = a /\ octant' = NextOctant
      BY <2>2, <2>5, <2>8
    <3> HIDE DEF P, Q
    <3>2. Placed(FALSE, octant', P, Q) /\ Near(FALSE, octant', P, Q, f, s)
      BY <1>1, <1>3, <1>10, <1>21, <2>4, <2>6, <2>7, <2>8, <3>1 DEF Placed, Near, Larger, Fresh
    <3>3. arc.ccw = FALSE
      BY <1>1, <1>21
    <3> QED BY <1>2, <3>2, <3>3 DEF Walk, P, Q, f, s
  <2>9. CASE ~(b <= 0)
    <3>1. P = a /\ Q = b /\ octant' = octant
      BY <2>2, <2>5, <2>9
    <3> HIDE DEF P, Q
    <3>2. Placed(FALSE, octant', P, Q) /\ Near(FALSE, octant', P, Q, f, s)
      BY <1>1, <1>3, <1>10, <1>21, <2>4, <2>6, <2>7, <2>9, <3>1 DEF Placed, Near, Larger, Fresh
    <3>3. arc.ccw = FALSE
      BY <1>1, <1>21
    <3> QED BY <1>2, <3>2, <3>3 DEF Walk, P, Q, f, s
  <2> QED BY <2>8, <2>9
<1>22. CASE ~arc.ccw /\ octant % 2 = 1
  <2>1. quarter' = quarter
    BY <1>1, <1>2, <1>4, <1>22, OctantsFollow DEF NextOctant
  <2>2. IF b < a THEN P = a /\ Q = b ELSE P = a /\ Q = b
    <3>1. CASE b < a
      BY <1>3, <1>4, <1>17, <1>18, <2>1, <3>1, TurnMore DEF a, b
    <3>2. CASE ~(b < a)
      BY <1>18, <2>1, <3>2 DEF a, b
    <3> QED BY <3>1, <3>2
  <2>3. Way = IF err <= 2 * u - v THEN <<1, -1>> ELSE <<1, 0>>
    BY <1>22 DEF Way, Sometimes
  <2>4. /\ a = u + 1
        /\ \/ err <= 2 * u - v /\ b = v - 1 /\ f = err - (2 * u + 1) + (2 * v - 1)
           \/ err > 2 * u - v /\ b = v /\ f = err - (2 * u + 1)
    BY <1>1, <1>9, <1>15, <2>3 DEF w1, w2, g1, g2
  <2>5. /\ Leaves(a, b) <=> b < a
        /\ octant' = IF b < a THEN NextOctant ELSE octant
    BY <1>2, <1>22 DEF Leaves
  <2>6. v >= 4 /\ NextOctant % 2 = 0
    BY <1>1, <1>16, <1>22 DEF Larger
  <2>7. /\ 0 <= u /\ u <= v
        /\ err <= v \/ err <= s
        /\ -err <= v \/ -err <= 1 - s
    BY <1>5, <1>22 DEF Placed, Near, Larger, Fresh
  <2>8. CASE b < a
    <3>1. P = a /\ Q = b /\ octant' = NextOctant
      BY <2>2, <2>5, <2>8
    <3> HIDE DEF P, Q
    <3>2. Placed(FALSE, octant', P, Q) /\ Near(FALSE, octant', P, Q, f, s)
      BY <1>1, <1>3, <1>10, <1>22, <2>4, <2>6, <2>7, <2>8, <3>1 DEF Placed, Near, Larger, Fresh
    <3>3. arc.ccw = FALSE
      BY <1>1, <1>22
    <3> QED BY <1>2, <3>2, <3>3 DEF Walk, P, Q, f, s
  <2>9. CASE ~(b < a)
    <3>1. P = a /\ Q = b /\ octant' = octant
      BY <2>2, <2>5, <2>9
    <3> HIDE DEF P, Q
    <3>2. Placed(FALSE, octant', P, Q) /\ Near(FALSE, octant', P, Q, f, s)
      BY <1>1, <1>3, <1>10, <1>22, <2>4, <2>6, <2>7, <2>9, <3>1 DEF Placed, Near, Larger, Fresh
    <3>3. arc.ccw = FALSE
      BY <1>1, <1>22
    <3> QED BY <1>2, <3>2, <3>3 DEF Walk, P, Q, f, s
  <2> QED BY <2>8, <2>9
<1> QED
  BY <1>1, <1>16, <1>19, <1>20, <1>21, <1>22

LEMMA InitCircle == ArcInit => CircleInv
  BY InitErr DEF ArcInit, CircleInv

LEMMA NextCircle ==
  ASSUME \A a \in Arcs : Circular(a)
  PROVE  CircleInv /\ [ArcNext]_arc_vars => CircleInv'
<1> SUFFICES ASSUME CircleInv, [ArcNext]_arc_vars PROVE (phase # "plan" => Walk)'
  BY NextErr DEF CircleInv
<1>1. ErrInv /\ arc \in Arcs /\ Circular(arc)
  BY DEF CircleInv, ErrInv, Numbers
<1>2. CASE PlanStep
  BY <1>2 DEF PlanStep
<1>3. CASE Queue
  <2>1. /\ arc' = arc /\ octant' = StartOctant(arc) /\ err' = StartErr(arc)
        /\ x' = arc.from[1] /\ y' = arc.from[2]
    BY <1>3 DEF Queue
  <2> DEFINE t == TurnBack(StartOctant(arc) \div 2, <<arc.from[1], arc.from[2]>>)
  <2>2. u' = t[1] /\ v' = t[2]
    BY <2>1 DEF u, v, quarter
  <2>3. /\ Placed(arc.ccw, StartOctant(arc), t[1], t[2])
        /\ Near(arc.ccw, StartOctant(arc), t[1], t[2], StartErr(arc), StartErr(arc))
    BY <1>1, StartWalk
  <2> HIDE DEF t
  <2> QED BY <2>1, <2>2, <2>3 DEF Walk
<1>4. CASE DrawStep
  <2>1. phase # "plan"
    BY <1>4 DEF DrawStep
  <2> QED BY <1>1, <1>4, <2>1, DrawWalks DEF CircleInv
<1>5. CASE UNCHANGED arc_vars
  BY <1>5 DEF arc_vars, CircleInv, Walk, u, v, quarter
<1> QED
  BY <1>2, <1>3, <1>4, <1>5 DEF ArcNext

(* The distance from the circle is the error, whichever way it is taken.   *)
LEMMA SquareOfError ==
  ASSUME NEW a \in Nat, NEW b \in Nat, NEW RR \in Nat, NEW e \in Int,
         e = RR - a - b, square(e) <= 4 * RR
  PROVE  square(a + b - RR) <= 4 * RR
<1>1. a + b - RR = -e
  OBVIOUS
<1>2. square(-e) = square(e)
  BY SquareBy
<1> QED
  BY <1>1, <1>2

(* Nothing is drawn a step or more off the circle, for every arc eight     *)
(* steps or more in radius whose ends lie on one circle (arc_kernel of     *)
(* stepper.c compares err with the two slopes in each octant).             *)
THEOREM DrawsOnCircle ==
  ASSUME \A a \in Arcs : Circular(a)
  PROVE  ArcSpec => []OnCircle
<1>1. CircleInv => OnCircle
  <2> SUFFICES ASSUME CircleInv, phase # "plan"
               PROVE  square(square(x) + square(y) - Norm(arc.to)) <= 4 * Norm(arc.to)
    BY DEF OnCircle, Norm
  <2>1. ErrInv /\ Walk /\ Circular(arc)
    BY DEF CircleInv, ErrInv, Numbers
  <2>2. square(err) <= 4 * Norm(arc.to) /\ err \in Int /\ Norm(arc.to) \in Nat
    BY <2>1, WalkFacts
  <2>3. err = Norm(arc.to) - square(x) - square(y) /\ square(x) \in Nat /\ square(y) \in Nat
    <3>1. arc.to[1] \in Int /\ arc.to[2] \in Int /\ x \in Int /\ y \in Int
      BY <2>1, ArcsAssumption DEF ErrInv, Numbers, Point
    <3>2. /\ square(x) \in Nat /\ square(y) \in Nat
          /\ square(arc.to[1]) \in Nat /\ square(arc.to[2]) \in Nat
      BY <3>1, SquareBy
    <3> QED BY <2>1, <3>2 DEF ErrInv, ErrExact, Norm
  <2> QED BY <2>2, <2>3, SquareOfError
<1>2. ArcInit => CircleInv
  BY InitCircle
<1>3. CircleInv /\ [ArcNext]_arc_vars => CircleInv'
  BY NextCircle
<1> QED
  BY <1>1, <1>2, <1>3, PTL DEF ArcSpec
-----------------------------------------------------------------------------
USE WidthAssumption, TotalsAssumption, AddsAssumption
    DEF WidthAssumption, TotalsAssumption, AddsAssumption

Counted == ctr - W

InRange == Counted >= -total /\ Counted <= -1

OnLine == Counted = irqs * add - taken * total - lead

(* The C form is at the same value, or one event behind and at zero. *)
Together ==
  \/ reference.taken = taken /\ reference.ctr = Counted
  \/ reference.taken + 1 = taken /\ reference.ctr = 0 /\ Counted = -total

IInv ==
  /\ TypeOK
  /\ lead = total \div 2 \/ lead = 1
  /\ Regular => InRange /\ OnLine /\ Together

-----------------------------------------------------------------------------
LEMMA HalfOf ==
  ASSUME NEW t \in Nat, t >= 1
  PROVE  /\ t \div 2 \in Nat /\ t \div 2 <= t - 1
         /\ 2 * (t \div 2) <= t /\ t <= 2 * (t \div 2) + 1
  OBVIOUS

LEMMA NextProduct ==
  ASSUME NEW i \in Int, NEW a \in Int
  PROVE  (i + 1) * a = i * a + a /\ i * a \in Int
  OBVIOUS

LEMMA Types ==
  ASSUME TypeOK
  PROVE  /\ total \in Nat /\ total >= 1 /\ total <= W
         /\ add \in Nat /\ add >= 1 /\ add <= W
         /\ lead \in Nat /\ ctr \in Nat /\ ctr < W
         /\ taken \in Nat /\ irqs \in Nat /\ irqs <= total
         /\ W \in Nat
  BY DEF TypeOK

LEMMA WrapType ==
  ASSUME NEW left \in Int, -W <= left, left < 2 * W
  PROVE  Wrap(left) \in 0 .. W - 1
  BY DEF Wrap

LEMMA AdvanceType ==
  ASSUME NEW c \in 0 .. W - 1, NEW a \in 1 .. W, NEW s \in 1 .. W
  PROVE  Advance(c, a, s) \in 0 .. W - 1
<1>1. c + a \in Int /\ -W <= c + a /\ c + a < 2 * W
  OBVIOUS
<1>2. Wrap(c + a) \in 0 .. W - 1
  BY <1>1, WrapType
<1>3. Wrap(c + a) - s \in Int /\ -W <= Wrap(c + a) - s /\ Wrap(c + a) - s < 2 * W
  BY <1>2
<1>4. Wrap(Wrap(c + a) - s) \in 0 .. W - 1
  BY <1>3, WrapType
<1> QED
  BY <1>2, <1>4 DEF Advance

(* On a counter in range the carry is the sign of the signed sum. *)
LEMMA AdvanceSigned ==
  ASSUME NEW c \in 0 .. W - 1, NEW a \in 1 .. W, NEW s \in 1 .. W,
         a <= s, c - W >= -s
  PROVE  /\ Carry(c, a) <=> c - W + a >= 0
         /\ Carry(c, a) => Advance(c, a, s) - W = c - W + a - s
         /\ ~Carry(c, a) => Advance(c, a, s) - W = c - W + a
  BY DEF Carry, Advance, Wrap

LEMMA InitInv == Init => IInv
<1> SUFFICES ASSUME Init PROVE IInv
  OBVIOUS
<1>1. total \in 1 .. W /\ add \in 1 .. W /\ total \in Nat /\ total >= 1
  BY DEF Init
<1>2. lead \in Nat /\ (lead = total \div 2 \/ lead = 1) /\ lead <= total
  BY <1>1, HalfOf DEF Init, Leads
<1>3. -W <= -lead /\ -lead < 2 * W /\ -lead \in Int
  BY <1>1, <1>2
<1>4. ctr \in 0 .. W - 1
  BY <1>3, WrapType DEF Init, Start
<1>5. TypeOK
  BY <1>1, <1>2, <1>3, <1>4 DEF Init, TypeOK
<1>6. ASSUME lead > 0
      PROVE  InRange /\ OnLine /\ Together
  <2>1. Counted = -lead
    BY <1>1, <1>2, <1>6 DEF Init, Start, Wrap, Counted
  <2>2. irqs * add - taken * total - lead = -lead
    BY <1>1, <1>2 DEF Init
  <2>3. reference.taken = taken /\ reference.ctr = Counted
    BY <2>1 DEF Init
  <2> QED
    BY <1>1, <1>2, <1>6, <2>1, <2>2, <2>3 DEF InRange, OnLine, Together
<1> QED
  BY <1>2, <1>5, <1>6 DEF IInv, Regular

LEMMA StepInv == IInv /\ [Next]_vars => IInv'
<1> SUFFICES ASSUME IInv, [Next]_vars PROVE IInv'
  OBVIOUS
<1>0. CASE UNCHANGED vars
  BY <1>0 DEF IInv, TypeOK, Regular, InRange, OnLine, Together, Counted, vars
<1>1. CASE Tick
  <2> USE <1>1 DEF IInv
  <2>t. /\ total \in Nat /\ total >= 1 /\ total <= W /\ total \in 1 .. W
        /\ add \in Nat /\ add >= 1 /\ add <= W /\ add \in 1 .. W
        /\ lead \in Nat /\ ctr \in 0 .. W - 1
        /\ taken \in Nat /\ irqs \in Nat /\ irqs < total
        /\ reference \in [ctr : Int, taken : Nat]
        /\ total' = total /\ add' = add /\ lead' = lead /\ irqs' = irqs + 1
    BY Types DEF TypeOK, Tick
  <2>1. ctr' \in 0 .. W - 1
    BY <2>t, AdvanceType DEF Tick
  <2>2. reference' \in [ctr : Int, taken : Nat]
    BY <2>t DEF Tick
  <2>3. TypeOK'
    BY <2>t, <2>1, <2>2 DEF TypeOK, Tick
  <2>4. ASSUME Regular
        PROVE  InRange' /\ OnLine' /\ Together'
    <3>1. InRange /\ OnLine /\ Together /\ add <= total /\ Counted \in Int
      BY <2>4, <2>t DEF Regular, Counted
    <3>2. ctr - W >= -total
      BY <3>1 DEF InRange, Counted
    <3>3. (irqs + 1) * add = irqs * add + add
      BY <2>t, NextProduct
    <3>4. (taken + 1) * total = taken * total + total
      BY <2>t, NextProduct
    <3>n. irqs * add \in Int /\ taken * total \in Int
      BY <2>t, NextProduct
    <3>5. CASE Carry(ctr, add)
      <4>1. Counted + add >= 0 /\ Counted' = Counted + add - total
        BY <2>t, <3>1, <3>2, <3>5, AdvanceSigned DEF Tick, Counted
      <4>2. taken' = taken + 1
        BY <3>5 DEF Tick
      <4>3. InRange'
        BY <2>t, <3>1, <4>1 DEF InRange
      <4>4. OnLine'
        BY <2>t, <3>1, <3>3, <3>4, <3>n, <4>1, <4>2 DEF OnLine
      <4>5. ASSUME reference.taken = taken, reference.ctr = Counted PROVE Together'
        <5>1. CASE Counted + add > 0
          BY <2>t, <4>1, <4>2, <4>5, <5>1 DEF Tick, Together
        <5>2. CASE Counted + add = 0
          BY <2>t, <4>1, <4>2, <4>5, <5>2 DEF Tick, Together
        <5> QED
          BY <2>t, <3>1, <4>1, <5>1, <5>2
      <4>6. ASSUME reference.taken + 1 = taken, reference.ctr = 0, Counted = -total
            PROVE  Together'
        <5>1. add = total
          BY <2>t, <3>1, <4>1, <4>6
        <5>2. reference' = [ctr |-> 0, taken |-> reference.taken + 1]
          BY <2>t, <4>6, <5>1 DEF Tick
        <5> QED
          BY <2>t, <4>1, <4>2, <4>6, <5>1, <5>2 DEF Together
      <4> QED
        BY <3>1, <4>3, <4>4, <4>5, <4>6 DEF Together
    <3>6. CASE ~Carry(ctr, add)
      <4>1. Counted + add < 0 /\ Counted' = Counted + add
        BY <2>t, <3>1, <3>2, <3>6, AdvanceSigned DEF Tick, Counted
      <4>2. taken' = taken
        BY <3>6 DEF Tick
      <4>3. InRange'
        BY <2>t, <3>1, <4>1 DEF InRange
      <4>4. OnLine'
        BY <2>t, <3>1, <3>3, <3>n, <4>1, <4>2 DEF OnLine
      <4>5. ASSUME reference.taken = taken, reference.ctr = Counted PROVE Together'
        <5>1. reference'.ctr = Counted + add /\ reference'.taken = reference.taken
          BY <2>t, <4>1, <4>5 DEF Tick
        <5> QED
          BY <2>t, <4>1, <4>2, <4>5, <5>1 DEF Together
      <4>6. ASSUME reference.taken + 1 = taken, reference.ctr = 0, Counted = -total
            PROVE  Together'
        <5>1. reference' = [ctr |-> add - total, taken |-> reference.taken + 1]
          BY <2>t, <4>6 DEF Tick
        <5> QED
          BY <2>t, <4>1, <4>2, <4>6, <5>1 DEF Together
      <4> QED
        BY <3>1, <4>3, <4>4, <4>5, <4>6 DEF Together
    <3> QED
      BY <3>5, <3>6
  <2>5. Regular' => Regular
    BY <2>t DEF Regular
  <2>6. (lead = total \div 2 \/ lead = 1)'
    BY <2>t
  <2> QED
    BY <2>3, <2>4, <2>5, <2>6
<1> QED
  BY <1>0, <1>1 DEF Next

LEMMA Invariance == Spec => []IInv
  BY InitInv, StepInv, PTL DEF Spec

(* Counter and registers keep their ranges; in particular the 24-bit       *)
(* counter never leaves 0 .. W-1 (asm.h:47-65).                            *)
THEOREM TypeCorrect == Spec => []TypeOK
  BY Invariance, PTL DEF IInv

LEMMA ProductBounds ==
  ASSUME NEW t \in Nat, t >= 1, NEW q \in Int
  PROVE  /\ q >= 1 => t * q >= t
         /\ q <= -1 => t * q <= -t
  OBVIOUS

LEMMA ExactAtEnd == IInv => AllTaken
<1> SUFFICES ASSUME IInv, Regular, irqs = total PROVE taken = add
  BY DEF AllTaken
<1>1. /\ total \in Nat /\ total >= 1 /\ add \in Nat /\ lead \in Nat /\ taken \in Nat
      /\ irqs \in Nat /\ ctr \in Nat /\ lead > 0
  BY Types DEF IInv, Regular
<1>2. lead <= total
  BY <1>1, HalfOf DEF IInv
<1>3. /\ Counted \in Int /\ Counted >= -total /\ Counted <= -1
      /\ Counted = total * add - taken * total - lead
  BY <1>1 DEF IInv, InRange, OnLine, Counted
<1>4. total * add - taken * total = total * (add - taken)
  BY <1>1
<1>5. add - taken \in Int /\ total * (add - taken) \in Int
  BY <1>1
<1>6. total * (add - taken) > -total /\ total * (add - taken) < total
  BY <1>1, <1>2, <1>3, <1>4, <1>5
<1>7. ~(add - taken >= 1) /\ ~(add - taken <= -1)
  BY <1>1, <1>5, <1>6, ProductBounds
<1> QED
  BY <1>1, <1>7

(* Every axis takes exactly its steps and every regular laser job fires    *)
(* exactly its pulses, for jobs of every length.                           *)
THEOREM StepsExact == Spec => []AllTaken
  BY Invariance, ExactAtEnd, PTL

LEMMA StraightFromInv == IInv => Straight
<1> SUFFICES ASSUME IInv, Regular, lead = total \div 2
             PROVE  /\ 2 * (taken * total - irqs * add) <= total + 1
                    /\ 2 * (irqs * add - taken * total) < total
  BY DEF Straight
<1>1. /\ total \in Nat /\ total >= 1 /\ add \in Nat /\ lead \in Nat /\ taken \in Nat
      /\ irqs \in Nat /\ ctr \in Nat
  BY Types DEF IInv
<1>2. 2 * lead <= total /\ total <= 2 * lead + 1
  BY <1>1, HalfOf
<1>3. /\ Counted \in Int /\ Counted >= -total /\ Counted <= -1
      /\ Counted = irqs * add - taken * total - lead
  BY <1>1 DEF IInv, InRange, OnLine, Counted
<1>4. irqs * add \in Int /\ taken * total \in Int
  BY <1>1
<1> QED
  BY <1>1, <1>2, <1>3, <1>4

(* No axis strays more than half a step from the straight line between the *)
(* end points, however long the line.                                      *)
THEOREM LineStraight == Spec => []Straight
  BY Invariance, StraightFromInv, PTL

(* Both: a job of any length draws its line, and all of it.                *)
THEOREM LineDrawn == Spec => []FollowsLine
  BY StepsExact, LineStraight, PTL DEF FollowsLine

(* The assembler text and the C form it replaces agree up to one event.    *)
THEOREM CarryLikeSign == Spec => []NearReference
<1>1. IInv => NearReference
  BY Types DEF IInv, Together, NearReference
<1> QED
  BY <1>1, Invariance, PTL

(* In every state of every job whose numbers fit the counters of the       *)
(* firmware, the assembler texts, run on the machine of the simulator,     *)
(* compute what their C forms or comments say and leave everything else as *)
(* it was.                                                                 *)
THEOREM RoutinesRight ==
  ASSUME W = MCW, Fits
  PROVE  Spec => []RoutinesCompute
<1>1. TypeOK => RoutinesCompute
  BY RoutinesFromTypes
<1> QED
  BY <1>1, TypeCorrect, PTL
==============================================================================
