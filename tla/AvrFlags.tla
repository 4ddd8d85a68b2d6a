------------------------------ MODULE AvrFlags ------------------------------
(***************************************************************************)
(* The status flags of the microcontroller as the simulator of the         *)
(* repository computes them: gen-flag-tables.c writes one table entry for  *)
(* each combination of the operands' bits 3 and 7 and the 9-bit result,    *)
(* avrtest.c looks them up.  Here an entry is a set of flag names, and the *)
(* look-up is the call with the operands themselves.                       *)
(***************************************************************************)
EXTENDS Integers

Weight == <<1, 2, 4, 8, 16, 32, 64, 128, 256>>

(* Bit k of v; a negative v is in two's complement. *)
Bit(v, k) == (v \div Weight[k + 1]) % 2 = 1

Bits(v) == {k \in 0 .. 7 : Bit(v, k)}

ByteOf(S) ==
  LET w(k) == IF k \in S THEN Weight[k + 1] ELSE 0
  IN  w(0) + w(1) + w(2) + w(3) + w(4) + w(5) + w(6) + w(7)

FlagNames == <<"C", "Z", "N", "V", "S", "H", "T", "I">>

Arithmetic == {"H", "S", "V", "N", "Z", "C"}
Logical    == {"S", "V", "N", "Z"}

SregByte(flags) == ByteOf({k \in 0 .. 7 : FlagNames[k + 1] \in flags})
FlagsOf(v)      == {FlagNames[k + 1] : k \in Bits(v)}

Only(flag, condition) == IF condition THEN {flag} ELSE {}

WithZns(result, flags) ==
  LET n == Bit(result, 7)
  IN  flags \cup Only("Z", result % 256 = 0) \cup Only("N", n)
            \cup Only("S", n # ("V" \in flags))

(* Both tables find the half carry this way, the subtraction's too. *)
HalfCarry(v1, v2, result) ==
  Only("H", \/ Bit(v1, 3) /\ Bit(v2, 3)
            \/ ~Bit(result, 3) /\ (Bit(v1, 3) \/ Bit(v2, 3)))

AddFlags(v1, v2, result) ==
  WithZns(result,
          Only("V", Bit(v1, 7) = Bit(v2, 7) /\ Bit(result, 7) # Bit(v1, 7))
            \cup Only("C", Bit(result, 8)) \cup HalfCarry(v1, v2, result))

SubFlags(v1, v2, result) ==
  WithZns(result,
          Only("V", Bit(result, 7) = Bit(v2, 7) /\ Bit(v1, 7) # Bit(v2, 7))
            \cup Only("C", Bit(result, 8)) \cup HalfCarry(v1, v2, result))

(* The 9 bits before the rotation. *)
RorFlags(value) ==
  LET c == Only("C", Bit(value, 0))
  IN  WithZns(value \div 2, c \cup Only("V", Bit(value, 8) # Bit(value, 0)))

IncFlags(result) == WithZns(result, Only("V", result = 128))
DecFlags(result) == WithZns(result, Only("V", result = 127))

LogicalFlags(result) == WithZns(result, {})
=============================================================================
