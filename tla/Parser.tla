------------------------------- MODULE Parser -------------------------------
(***************************************************************************)
(* parser.c: the automaton that turns the characters of a command line     *)
(* into letters, scaled numbers, raster bytes and a file name, and checks  *)
(* the checksum at the end of the line.                                    *)
(*                                                                         *)
(* p is the record of the parser's static variables.  Characters are their *)
(* ASCII codes.  codes_seen is the set of letters it has a bit for, and    *)
(* numbers the partial function of those numbers_got has a bit for; of the *)
(* file name only the length matters here.  integers is numbers without    *)
(* the fraction, see Integer.                                              *)
(***************************************************************************)
EXTENDS Integers, Sequences

CONSTANTS W,                       \* values of a uint32_t
          SCALE_DIGITS,            \* digits after the point that are kept
          MAX_DIGITS,              \* the 9 of parser.c:355 and :397
          LASER_MAX_RASTER_LINE,   \* size of base64_bytes
          MAX_FILENAME_LEN         \* size of filename

ASSUME WordAssumption ==
  /\ W \in Nat /\ W >= 2
  /\ SCALE_DIGITS \in Nat /\ MAX_DIGITS \in Nat
ASSUME ArrayAssumption ==
  /\ LASER_MAX_RASTER_LINE \in Nat \ {0}
  /\ MAX_FILENAME_LEN \in Nat /\ MAX_FILENAME_LEN >= 3

VARIABLE p

Newline == 10   Return == 13   Space == 32   Tab == 9
Star    == 42   Plus   == 43   Minus == 45   Dot == 46   Slash == 47
Dollar  == 36   Tick   == 39   Quote == 34   Equal == 61   Under == 95
Open    == 40   Close  == 41   Semicolon == 59
Digit   == 48 .. 57
Capital == 65 .. 90
Small   == 97 .. 122
White   == {Space, Tab}

Index == 0 .. LASER_MAX_RASTER_LINE - 1
Byte  == 0 .. 255

NameStates == {"PARSE_FILENAME", "PARSE_FILENAME_TICKS", "PARSE_FILENAME_DOUBLETICKS"}
Fresh ==
  [state |-> "EXPECT_LETTER", last_letter |-> 0, codes_seen |-> {}, numbers |-> <<>>,
   current_int |-> 0, isNegative |-> FALSE, digits |-> 0, subdigits |-> 0,
   base64_bytes |-> [i \in Index |-> 0], base64_len |-> 0, filename_len |-> 0,
   calcsum |-> 0, transum |-> 0, checksum_chars |-> 0]

(* The statics a later line cannot see: INIT_PARSER resets them first. *)
ParserInit == p = [Fresh EXCEPT !.state = "INIT_PARSER"]

Ready == IF p.state = "INIT_PARSER" THEN Fresh ELSE p
-----------------------------------------------------------------------------
(* Operations of C on bytes and words. *)
Bit(n, k) == (n \div 2^k) % 2
OfBits(b) == b[0] + 2*b[1] + 4*b[2] + 8*b[3] + 16*b[4] + 32*b[5] + 64*b[6] + 128*b[7]
Xor(a, b) ==
  OfBits([k \in 0 .. 7 |-> IF Bit(a, k) = Bit(b, k) THEN 0 ELSE 1])
Or(a, b) ==
  OfBits([k \in 0 .. 7 |-> IF Bit(a, k) + Bit(b, k) = 0 THEN 0 ELSE 1])
Signed(n) == ((n + W \div 2) % W) - W \div 2
times_ten(n) == (10 * n) % W

(* 0..63, and 255 for a character outside of both alphabets. *)
base64_value(c) ==
  CASE c \in Capital -> c - 65
    [] c \in Small   -> c - 71
    [] c \in Digit   -> c + 4
    [] c \in {Plus, Minus}  -> 62
    [] c \in {Slash, Under} -> 63
    [] OTHER -> 255

IsBase64(c) == base64_value(c) <= 63
-----------------------------------------------------------------------------
(* The end of process_char: the number so far, scaled to SCALE_DIGITS, is  *)
(* stored for the last letter.  myint is an int32_t, so the test against   *)
(* 429496729 lets numbers pass whose product with 10 has no place in it.   *)
Overflow == W
Limit    == (W - 1) \div 10

Shift[k \in Nat] ==
  [v \in Int |-> IF k = 0 THEN v
                 ELSE IF v > Limit THEN Overflow ELSE Shift[k - 1][Signed(10 * v)]]

Scaled(q) == Shift[SCALE_DIGITS - q.subdigits][Signed(q.current_int)]

ONE == 10^SCALE_DIGITS
Integer(n) == IF n < 0 THEN -((-n) \div ONE) ELSE n \div ONE

Store(q) ==
  IF Scaled(q) = Overflow THEN [q EXCEPT !.state = "ERROR_STATE"]
  ELSE [q EXCEPT !.numbers =
          [l \in DOMAIN @ \cup {q.last_letter} |->
             IF l # q.last_letter THEN @[l]
             ELSE IF q.isNegative THEN Signed(-Scaled(q)) ELSE Scaled(q)]]

Goto(q, s) == [q EXCEPT !.state = s]
Error(q)   == Goto(q, "ERROR_STATE")

(* The next digit of a number. *)
TakeDigit(q, c) == [q EXCEPT !.current_int = (times_ten(@) + c - 48) % W]

FirstDigit(q, c) ==
  Store([q EXCEPT !.current_int = c - 48, !.digits = @ + 1, !.state = "EXPECT_ANOTHERDIGIT"])

(* Mutant of Complete: the byte goes one place too far. *)
CompleteLate(q, low) ==
  LET full == [q EXCEPT !.base64_bytes[q.base64_len] = Or(@, low), !.base64_len = @ + 1]
  IN  IF full.base64_len > LASER_MAX_RASTER_LINE THEN Error(full) ELSE full

(* The low bits of a raster byte: it is complete, and the array may be full. *)
Complete(q, low) ==
  LET full == [q EXCEPT !.base64_bytes[q.base64_len] = Or(@, low), !.base64_len = @ + 1]
  IN  IF full.base64_len >= LASER_MAX_RASTER_LINE THEN Error(full) ELSE full

(* The high bits of the next one, unless there was an error. *)
Begin(q, high, s) ==
  IF q.state = "ERROR_STATE" THEN q
  ELSE [q EXCEPT !.base64_bytes[q.base64_len] = high, !.state = s]

(* A character of the file name.  The line is not refused when the name is *)
(* too long; lines whose names fill the array are left out.                *)
AddToName(q, n) == [q EXCEPT !.filename_len = @ + n, !.state = "PARSE_FILENAME"]
NameFits(q, n)  == q.filename_len + n < MAX_FILENAME_LEN
-----------------------------------------------------------------------------
(* process_char for a character that is neither an end of line nor '*'.    *)

(* Mutant of Summed: the digits of the checksum summed as well. *)
SummedAll(c) == [Ready EXCEPT !.calcsum = Xor(@, c)]

Summed(c) ==
  IF Ready.state # "PARSE_CHECKSUM" /\ Ready.checksum_chars = 0
  THEN [Ready EXCEPT !.calcsum = Xor(@, c)]
  ELSE Ready

(* What follows a word when it is not another one. *)
Follow(c) == CASE c = Semicolon -> "IGNORE_REST"
               [] c = Open   -> "COMMENT_MODE"
               [] c = Dollar -> "EXPECT_BASE64_1"
               [] c = Tick   -> "PARSE_FILENAME_TICKS"
               [] c = Quote  -> "PARSE_FILENAME_DOUBLETICKS"
Following == {Semicolon, Open, Dollar, Tick, Quote}

ExpectLetter(q, c) ==
  /\ q.state = "EXPECT_LETTER"
  /\ \/ /\ c \in Capital
        /\ p' = [q EXCEPT !.last_letter = c - 65, !.codes_seen = @ \cup {c - 65},
                          !.state = "EXPECT_NUMBER_OR_SIGN"]
     \/ c \in White /\ p' = q
     \/ c \in Following /\ p' = Goto(q, Follow(c))
     \/ /\ c \notin Capital \cup White \cup Following
        /\ p' = IF q.filename_len = 0 THEN AddToName(q, 1) ELSE Error(q)

ExpectNumberOrSign(q, c) ==
  LET number == [q EXCEPT !.state = "EXPECT_FIRST_DIGIT", !.current_int = 0, !.digits = 0,
                          !.subdigits = 0, !.isNegative = (c = Minus)]
  IN  /\ q.state = "EXPECT_NUMBER_OR_SIGN"
      /\ \/ c \in White /\ p' = Goto(q, "EXPECT_LETTER")
         \/ c \in {Plus, Minus} /\ p' = number
         \/ c \in Digit /\ p' = FirstDigit(number, c)
         \/ /\ c \notin White \cup {Plus, Minus} \cup Digit
            /\ p' = IF q.filename_len = 0 THEN AddToName(q, 2) ELSE Error(q)

ExpectFirstDigit(q, c) ==
  /\ q.state = "EXPECT_FIRST_DIGIT"
  /\ \/ c \in White /\ p' = Goto(q, "EXPECT_LETTER")
     \/ c \in Digit /\ p' = FirstDigit(q, c)
     \/ c \notin White \cup Digit /\ p' = Error(q)

TooLong(q) == q.digits > MAX_DIGITS

ExpectAnotherDigit(q, c) ==
  /\ q.state = "EXPECT_ANOTHERDIGIT"
  /\ \/ /\ c \in Digit
        /\ p' = IF TooLong(q) THEN Error(q)
                ELSE Store([TakeDigit(q, c) EXCEPT !.digits = @ + 1])
     \/ c = Dot /\ p' = Store(Goto(q, "EXPECT_SUBDIGITS"))
     \/ c \in White /\ p' = Store(Goto(q, "EXPECT_LETTER"))
     \/ c \in Following /\ p' = Store(Goto(q, Follow(c)))
     \/ c \notin Digit \cup {Dot} \cup White \cup Following /\ p' = Error(q)

Ignored(q) == q.subdigits >= SCALE_DIGITS \/ q.digits + q.subdigits > MAX_DIGITS

ExpectSubdigits(q, c) ==
  /\ q.state = "EXPECT_SUBDIGITS"
  /\ \/ /\ c \in Digit
        /\ p' = IF Ignored(q) THEN q
                ELSE Store([TakeDigit(q, c) EXCEPT !.subdigits = @ + 1])
     \/ c \in White /\ p' = Goto(q, "EXPECT_LETTER")
     \/ c \notin White \cup Digit /\ p' = Error(q)

(* Mutant of Base64_3: two bits of the third character lost. *)
Base64_3Shifted(q, c) ==
  LET b == base64_value(c)
  IN  /\ q.state = "EXPECT_BASE64_3"
      /\ p' = IF c = Equal THEN Goto(q, "EXPECT_BASE64_4")
              ELSE IF ~IsBase64(c) THEN Error(q)
              ELSE Begin(Complete(q, b \div 16), (64 * b) % 256, "EXPECT_BASE64_4")

Base64_1(q, c) ==
  /\ q.state = "EXPECT_BASE64_1"
  /\ p' = IF c \in White THEN Goto(q, "EXPECT_LETTER")
          ELSE IF ~IsBase64(c) THEN Error(q)
          ELSE Begin(q, 4 * base64_value(c), "EXPECT_BASE64_2")

Base64_2(q, c) ==
  LET b == base64_value(c)
  IN  /\ q.state = "EXPECT_BASE64_2"
      /\ p' = IF ~IsBase64(c) THEN Error(q)
              ELSE Begin(Complete(q, b \div 16), (16 * b) % 256, "EXPECT_BASE64_3")

Base64_3(q, c) ==
  LET b == base64_value(c)
  IN  /\ q.state = "EXPECT_BASE64_3"
      /\ p' = IF c = Equal THEN Goto(q, "EXPECT_BASE64_4")
              ELSE IF ~IsBase64(c) THEN Error(q)
              ELSE Begin(Complete(q, b \div 4), (64 * b) % 256, "EXPECT_BASE64_4")

Base64_4(q, c) ==
  LET b == base64_value(c)
      full == Complete(q, b)
  IN  /\ q.state = "EXPECT_BASE64_4"
      /\ p' = IF c = Equal THEN Goto(q, "EXPECT_BASE64_1")
              ELSE IF ~IsBase64(c) THEN Error(q)
              ELSE IF full.state = "ERROR_STATE" THEN full
              ELSE Goto(full, "EXPECT_BASE64_1")

Comment(q, c) ==
  /\ q.state = "COMMENT_MODE"
  /\ p' = IF c = Close THEN Goto(q, "EXPECT_LETTER") ELSE q

Rest(q, c) ==
  /\ q.state \in {"IGNORE_REST", "ERROR_STATE"}
  /\ p' = q

ChecksumDigit(q, c) ==
  IF q.transum > 25 THEN Error(q)
  ELSE [q EXCEPT !.transum = (10 * @ + c - 48) % 256, !.checksum_chars = @ + 1]

Checksum(q, c) ==
  /\ q.state = "PARSE_CHECKSUM"
  /\ p' = CASE c \in {Semicolon, Open} -> Goto(q, Follow(c))
            [] c \in Digit -> ChecksumDigit(q, c)
            [] OTHER -> Error(q)

(* The three ways a file name is written, each with its own end. *)
Filename(q, c) ==
  LET ends == CASE q.state = "PARSE_FILENAME" -> White
                [] q.state = "PARSE_FILENAME_TICKS" -> {Tick}
                [] q.state = "PARSE_FILENAME_DOUBLETICKS" -> {Quote}
  IN  /\ q.state \in NameStates
      /\ NameFits(q, 1)
      /\ p' = IF c \in ends THEN Goto(q, "EXPECT_LETTER")
              ELSE [q EXCEPT !.filename_len = @ + 1]

Interpret(q, c) ==
  \/ ExpectLetter(q, c) \/ ExpectNumberOrSign(q, c) \/ ExpectFirstDigit(q, c)
  \/ ExpectAnotherDigit(q, c) \/ ExpectSubdigits(q, c)
  \/ Base64_1(q, c) \/ Base64_2(q, c) \/ Base64_3(q, c) \/ Base64_4(q, c)
  \/ Comment(q, c) \/ Rest(q, c) \/ Checksum(q, c) \/ Filename(q, c)
-----------------------------------------------------------------------------
(* process_char: what it does with any character but the end of the line. *)
Ignore(c) == c = Return /\ p' = Ready

(* Also inside comments and names. *)
StartChecksum(c) ==
  /\ c = Star /\ Ready.state # "ERROR_STATE"
  /\ p' = Goto(Ready, "PARSE_CHECKSUM")

Other(c) ==
  /\ c \notin {Return, Newline}
  /\ c = Star => Ready.state = "ERROR_STATE"
  /\ \E q \in {Summed(c)} : Interpret(q, c)

NextChar(c) == Ignore(c) \/ StartChecksum(c) \/ Other(c)

(* At the end of the line: a checksum that differs, and raster bytes       *)
(* without one, go before an error of format.                              *)
Verdict(q) ==
  IF \/ q.checksum_chars > 0 /\ q.transum # q.calcsum
     \/ q.checksum_chars = 0 /\ q.base64_len > 0
  THEN "PARSER_CHECKSUM_ERROR"
  ELSE IF q.state = "ERROR_STATE" THEN "PARSER_FORMAT_ERROR" ELSE "PARSER_OK"

EndOfLine(c) == c = Newline /\ p' = Goto(Ready, "INIT_PARSER")

(* What process_command finds, and the bytes put in LASER_RASTERDATA before. *)
Command(q) == [numbers |-> q.numbers, codes |-> q.codes_seen,
               bytes |-> [i \in 1 .. q.base64_len |-> q.base64_bytes[i - 1]]]

(* The next raster byte has a place in base64_bytes, parser.c:413-456.  The *)
(* line that fills the array is refused, and no character of it, a '*'     *)
(* included, makes the parser go on with it.                               *)
BytesInBounds == p.state # "ERROR_STATE" /\ p.state # "INIT_PARSER" => p.base64_len \in Index

=============================================================================
