----------------------------- MODULE AsmRoutines -----------------------------
(***************************************************************************)
(* The assembler text of the firmware, run on the machine of Avr: asm.h    *)
(* and asm.c in the OPTIMIZE_ASM build, and the piece of main() that finds *)
(* out whether the firmware runs in the simulator.  The registers of the   *)
(* operands, which the compiler chooses, are parameters: %A is the first   *)
(* register of an operand, %B the next.  __tmp_reg__ is r0, __zero_reg__   *)
(* is r1.                                                                  *)
(***************************************************************************)
EXTENDS Avr, StepArithmetic, Sequences

Op(id, a, b) == [id |-> id, a |-> a, b |-> b]
One(id, a)   == Op(id, a, 0)

(* Where a text is loaded. *)
Image(text) == [k \in 0 .. Len(text) - 1 |-> text[k + 1]]

AdvancePosition(counter, dir) ==
  <<Op("MOV", 0, dir), One("ASR", 0),
    Op("ADD", counter, dir), Op("ADC", counter + 1, 0), Op("ADC", counter + 2, 0)>>

(* Mutant of AdvanceStepCounter: the borrow into the second byte is lost.  *)
AdvanceUnborrowed(counter, dostep, adding, sub) ==
  <<One("CLR", dostep),
    Op("ADD", counter, adding), Op("ADC", counter + 1, adding + 1),
    Op("ADC", counter + 2, adding + 2),
    Op("BRBC", 4, "C"),
    One("INC", dostep),
    Op("SUB", counter, sub), Op("SUB", counter + 1, sub + 1),
    Op("SBC", counter + 2, sub + 2)>>

AdvanceStepCounter(counter, dostep, adding, sub) ==
  <<One("CLR", dostep),
    Op("ADD", counter, adding), Op("ADC", counter + 1, adding + 1),
    Op("ADC", counter + 2, adding + 2),
    Op("BRBC", 4, "C"),
    One("INC", dostep),
    Op("SUB", counter, sub), Op("SBC", counter + 1, sub + 1),
    Op("SBC", counter + 2, sub + 2)>>

Doubled(dword) == <<One("LSL", dword), One("ROL", dword + 1), One("ROL", dword + 2),
                    One("ROL", dword + 3)>>

TimesTen(dword) ==
  Doubled(dword)
  \o <<One("PUSH", dword + 3), One("PUSH", dword + 2), One("PUSH", dword + 1),
       One("PUSH", dword)>>
  \o Doubled(dword) \o Doubled(dword)
  \o <<One("POP", 0), Op("ADD", dword, 0), One("POP", 0), Op("ADC", dword + 1, 0),
       One("POP", 0), Op("ADC", dword + 2, 0), One("POP", 0), Op("ADC", dword + 3, 0)>>

Mul16Shr16(temp, result, a, b) ==
  <<One("CLR", temp), One("CLR", result), One("CLR", result + 1),
    Op("MUL", a, b), Op("MOV", temp + 1, 1),
    Op("MUL", a, b + 1), Op("ADD", temp + 1, 0), Op("ADC", result, 1),
    Op("ADC", result + 1, temp),
    Op("MUL", a + 1, b), Op("ADD", temp + 1, 0), Op("ADC", result, 1),
    Op("ADC", result + 1, temp),
    Op("MUL", a + 1, b + 1), Op("ADD", result, 0), Op("ADC", result + 1, 1),
    One("CLR", 1)>>

(* The simulator's decoder turns the CPSE into a call of the simulator, a  *)
(* real chip compares r27 with itself and skips the illegal word.          *)
DetectSimulator(simulated, active) ==
  <<Op("LDI", 20, 255), One("CLR", 24), Op("LDI", 25, 240),
    IF simulated THEN One("SYSCALL", 27) ELSE Op("CPSE", 27, 27),
    One("ILLEGAL", 0),
    One("COM", 20), One("ASR", 20), Op("MOV", active, 20)>>
-----------------------------------------------------------------------------
Number(m, r, bytes) ==
  m.data[r] + (IF bytes > 1 THEN 256 * m.data[r + 1] ELSE 0)
            + (IF bytes > 2 THEN 65536 * m.data[r + 2] ELSE 0)

(* The bytes of a number from register r on. *)
Place(r, value, bytes) ==
  [a \in r .. r + bytes - 1 |-> (value \div 256 ^ (a - r)) % 256]

Registers == 0 .. 31

(* f, and g where f says nothing. *)
Over(f, g) == [a \in DOMAIN f \cup DOMAIN g |-> IF a \in DOMAIN f THEN f[a] ELSE g[a]]

(* A machine between two statements of the firmware: __zero_reg__ holds    *)
(* zero, the stack has room, flags and other registers hold anything.      *)
Before(values) ==
  LET usual == [a \in {1, SPL, SPL + 1} |-> IF a = SPL THEN 103 ELSE 0]
  IN  [pc |-> 0, cycles |-> 0, status |-> "running", sreg |-> {"C", "Z"},
       data |-> Over(Over(values, usual), [a \in Registers \cup 91 .. 103 |-> 85])]

(* The text runs to its end and leaves alone what it does not declare: the *)
(* registers besides its outputs and clobbers, r1 and the stack.           *)
Runs(text, m, written, Result(_)) ==
  LET q == Execute(Image(text), Len(text), m, Len(text))
  IN  /\ q.status = "running" /\ q.pc = Len(text)
      /\ \A r \in Registers \ written : q.data[r] = m.data[r]
      /\ Sp(q) = Sp(m)
      /\ Result(q)

AdvanceComputes(c, a, s) ==
  Runs(AdvanceStepCounter(16, 22, 19, 24),
       Before(Over(Over(Place(16, c, 3), Place(19, a, 3)), Place(24, s, 3))), 16 .. 18 \cup {22},
       LAMBDA q : /\ Number(q, 16, 3) = Advance(c, a, s)
                  /\ Number(q, 22, 1) = IF Carry(c, a) THEN 1 ELSE 0)

PositionComputes(c, dir) ==
  Runs(AdvancePosition(16, 22), Before(Over(Place(16, c, 3), Place(22, dir, 1))),
       {0} \cup 16 .. 18,
       LAMBDA q : Number(q, 16, 3) = (c + dir) % 16777216)

(* The argument is three bytes long here, the result four. *)
TenComputes(x) ==
  Runs(TimesTen(16), Before(Place(16, x, 4)), {0} \cup 16 .. 19,
       LAMBDA q : Number(q, 16, 3) + 16777216 * q.data[19] = 10 * x)

MulComputes(a, b) ==
  Runs(Mul16Shr16(16, 18, 20, 22), Before(Over(Place(20, a, 2), Place(22, b, 2))),
       {0} \cup 16 .. 19,
       LAMBDA q : Number(q, 18, 2) = (a * b) \div 65536)

(* SIM_ACTIVE, asked for as a Boolean. *)
DetectionComputes(simulated) ==
  Runs(DetectSimulator(simulated, 18), Before(Place(20, 0, 1)), {18} \cup 20 .. 25,
       LAMBDA q : (q.data[18] # 0) = simulated)
=============================================================================
