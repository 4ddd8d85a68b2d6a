---------------------------- MODULE ParserProofs ----------------------------
(***************************************************************************)
(* The parser never writes outside of base64_bytes, for every size of it   *)
(* and whatever characters arrive; and host, port and main carry out every *)
(* job whose lines the parser understands one at a time.                   *)
(***************************************************************************)
EXTENDS Sender, FiniteSetTheorems, WellFoundedInduction, TLAPS

(* The inductive invariant: the fields of the parser are there, and the    *)
(* next raster byte has a place unless the line is refused or complete.    *)
Names == DOMAIN Fresh
Fits(q) == DOMAIN q = Names /\ (q.state # "ERROR_STATE" => q.base64_len \in Index)
Inv == Fits(p) \/ (p.state = "INIT_PARSER" /\ DOMAIN p = Names)

LEMMA FreshFits == Fits(Fresh) /\ Fresh.state = "EXPECT_LETTER"
  BY ArrayAssumption DEF Fits, Names, Fresh, Index

LEMMA FieldNames == {"state", "last_letter", "codes_seen", "numbers", "current_int",
    "isNegative", "digits", "subdigits", "base64_bytes", "base64_len", "filename_len",
    "calcsum", "transum", "checksum_chars"} = Names
  BY DEF Names, Fresh

(* Changes of a field other than state and base64_len. *)
LEMMA GotoFits ==
  ASSUME NEW q, Fits(q), NEW s, q.state # "ERROR_STATE"
  PROVE  Fits(Goto(q, s)) /\ Goto(q, s).state = s /\ Goto(q, s).base64_len = q.base64_len
  BY FieldNames DEF Goto, Fits

LEMMA ErrorFits ==
  ASSUME NEW q, DOMAIN q = Names
  PROVE  Fits(Error(q)) /\ Error(q).state = "ERROR_STATE"
  BY FieldNames DEF Error, Goto, Fits

LEMMA StoreFits ==
  ASSUME NEW q, Fits(q), q.state # "ERROR_STATE"
  PROVE  Fits(Store(q))
  BY FieldNames DEF Store, Fits

LEMMA CompleteFits ==
  ASSUME NEW q, Fits(q), q.state # "ERROR_STATE", NEW low
  PROVE  Fits(Complete(q, low))
  BY FieldNames, ArrayAssumption DEF Complete, Fits, Error, Goto, Index

LEMMA BeginFits ==
  ASSUME NEW q, Fits(q), NEW high, NEW s
  PROVE  Fits(Begin(q, high, s))
  BY FieldNames DEF Begin, Fits

LEMMA ReadyFits == ASSUME Inv PROVE Fits(Ready) /\ Ready.state # "INIT_PARSER"
  BY FreshFits DEF Inv, Ready

(* process_char before it looks at the state. *)
LEMMA SummedFits ==
  ASSUME Inv, NEW c
  PROVE  Fits(Summed(c)) /\ Summed(c).state = Ready.state
  BY ReadyFits, FieldNames DEF Summed, Fits

LEMMA LetterFits ==
  ASSUME NEW q, Fits(q), NEW c, ExpectLetter(q, c)
  PROVE  Fits(p')
<1>1. CASE c \in Capital /\ p' = [q EXCEPT !.last_letter = c - 65,
               !.codes_seen = @ \cup {c - 65}, !.state = "EXPECT_NUMBER_OR_SIGN"]
  BY <1>1, FieldNames DEF ExpectLetter, Fits
<1>2. CASE p' = q
  BY <1>2
<1>3. CASE p' = Goto(q, Follow(c))
  BY <1>3, GotoFits DEF ExpectLetter
<1>4. CASE p' = IF q.filename_len = 0 THEN AddToName(q, 1) ELSE Error(q)
  <2>1. Fits(AddToName(q, 1))
    BY FieldNames DEF ExpectLetter, Fits, AddToName
  <2> QED BY <1>4, <2>1, ErrorFits DEF Fits
<1> QED BY <1>1, <1>2, <1>3, <1>4 DEF ExpectLetter

LEMMA NumberFits ==
  ASSUME NEW q, Fits(q), NEW c, ExpectNumberOrSign(q, c)
  PROVE  Fits(p')
<1> DEFINE number == [q EXCEPT !.state = "EXPECT_FIRST_DIGIT", !.current_int = 0,
                               !.digits = 0, !.subdigits = 0, !.isNegative = (c = Minus)]
<1>1. Fits(number) /\ number.state # "ERROR_STATE"
  BY FieldNames DEF ExpectNumberOrSign, Fits
<1>2. ASSUME NEW r, Fits(r), r.state # "ERROR_STATE" PROVE Fits(FirstDigit(r, c))
  <2> DEFINE d == [r EXCEPT !.current_int = c - 48, !.digits = @ + 1, !.state = "EXPECT_ANOTHERDIGIT"]
  <2>1. Fits(d) /\ d.state # "ERROR_STATE"
    BY <1>2, FieldNames DEF Fits
  <2> HIDE DEF d
  <2>2. Fits(Store(d))
    BY <2>1, StoreFits
  <2> QED BY <2>2 DEF FirstDigit, d
<1>3. Fits(AddToName(q, 2))
  BY FieldNames DEF ExpectNumberOrSign, Fits, AddToName
<1>4. Fits(Goto(q, "EXPECT_LETTER")) /\ Fits(Error(q))
  BY GotoFits, ErrorFits DEF ExpectNumberOrSign, Fits
<1>5. Fits(FirstDigit(number, c))
  BY <1>1, <1>2
<1> HIDE DEF number
<1>6. \/ p' = Goto(q, "EXPECT_LETTER") \/ p' = number \/ p' = FirstDigit(number, c)
      \/ p' = AddToName(q, 2) \/ p' = Error(q)
  BY DEF ExpectNumberOrSign, number
<1> QED BY <1>1, <1>3, <1>4, <1>5, <1>6

LEMMA DigitsFit ==
  ASSUME NEW q, Fits(q), NEW c,
         ExpectFirstDigit(q, c) \/ ExpectAnotherDigit(q, c) \/ ExpectSubdigits(q, c)
  PROVE  Fits(p')
<1> q.state # "ERROR_STATE"
  BY DEF ExpectFirstDigit, ExpectAnotherDigit, ExpectSubdigits
<1>1. ASSUME NEW s, s # "ERROR_STATE" PROVE Fits(Store(Goto(q, s)))
  BY <1>1, GotoFits, StoreFits
<1>2. Fits(FirstDigit(q, c))
  <2> DEFINE d == [q EXCEPT !.current_int = c - 48, !.digits = @ + 1, !.state = "EXPECT_ANOTHERDIGIT"]
  <2>1. Fits(d) /\ d.state # "ERROR_STATE"
    BY FieldNames DEF Fits
  <2> HIDE DEF d
  <2>2. Fits(Store(d))
    BY <2>1, StoreFits
  <2> QED BY <2>2 DEF FirstDigit, d
<1>3. Fits(Store([TakeDigit(q, c) EXCEPT !.digits = @ + 1]))
  <2> DEFINE d == [TakeDigit(q, c) EXCEPT !.digits = @ + 1]
  <2>1. Fits(d) /\ d.state # "ERROR_STATE"
    BY FieldNames DEF Fits, TakeDigit
  <2> HIDE DEF d
  <2>2. Fits(Store(d))
    BY <2>1, StoreFits
  <2> QED BY <2>2 DEF d
<1>4. Fits(Store([TakeDigit(q, c) EXCEPT !.subdigits = @ + 1]))
  <2> DEFINE d == [TakeDigit(q, c) EXCEPT !.subdigits = @ + 1]
  <2>1. Fits(d) /\ d.state # "ERROR_STATE"
    BY FieldNames DEF Fits, TakeDigit
  <2> HIDE DEF d
  <2>2. Fits(Store(d))
    BY <2>1, StoreFits
  <2> QED BY <2>2 DEF d
<1>5. Fits(Goto(q, "EXPECT_LETTER")) /\ Fits(Error(q))
  BY GotoFits, ErrorFits DEF Fits
<1>6. c \in Following => Follow(c) # "ERROR_STATE"
  BY DEF Following, Follow, Semicolon, Open, Dollar, Tick, Quote
<1>7. CASE ExpectFirstDigit(q, c)
  BY <1>2, <1>5, <1>7 DEF ExpectFirstDigit
<1>8. CASE ExpectAnotherDigit(q, c)
  BY <1>1, <1>3, <1>5, <1>6, <1>8 DEF ExpectAnotherDigit
<1>9. CASE ExpectSubdigits(q, c)
  BY <1>4, <1>5, <1>9 DEF ExpectSubdigits
<1> QED BY <1>7, <1>8, <1>9

LEMMA Base64Fits ==
  ASSUME NEW q, Fits(q), NEW c,
         Base64_1(q, c) \/ Base64_2(q, c) \/ Base64_3(q, c) \/ Base64_4(q, c)
  PROVE  Fits(p')
<1> q.state # "ERROR_STATE"
  BY DEF Base64_1, Base64_2, Base64_3, Base64_4
<1>1. Fits(Error(q)) /\ \A s : Fits(Goto(q, s))
  BY GotoFits, ErrorFits DEF Fits
<1>2. ASSUME NEW low, NEW high, NEW s PROVE Fits(Begin(Complete(q, low), high, s))
  BY CompleteFits, BeginFits
<1>3. CASE Base64_1(q, c)
  BY <1>1, <1>3, BeginFits DEF Base64_1
<1>4. CASE Base64_2(q, c)
  BY <1>1, <1>2, <1>4 DEF Base64_2
<1>5. CASE Base64_3(q, c)
  BY <1>1, <1>2, <1>5 DEF Base64_3
<1>6. CASE Base64_4(q, c)
  <2> DEFINE full == Complete(q, base64_value(c))
  <2>1. Fits(full)
    BY CompleteFits
  <2> HIDE DEF full
  <2>2. full.state # "ERROR_STATE" => Fits(Goto(full, "EXPECT_BASE64_1"))
    BY <2>1, GotoFits
  <2>3. \/ p' = Goto(q, "EXPECT_BASE64_1") \/ p' = Error(q) \/ p' = full
        \/ full.state # "ERROR_STATE" /\ p' = Goto(full, "EXPECT_BASE64_1")
    BY <1>6 DEF Base64_4, full
  <2> QED BY <1>1, <2>1, <2>2, <2>3
<1> QED BY <1>3, <1>4, <1>5, <1>6

LEMMA OthersFit ==
  ASSUME NEW q, Fits(q), NEW c,
         Comment(q, c) \/ Rest(q, c) \/ Checksum(q, c) \/ Filename(q, c)
  PROVE  Fits(p')
<1>1. Fits(Error(q)) /\ (q.state # "ERROR_STATE" => \A s : Fits(Goto(q, s)))
  BY GotoFits, ErrorFits DEF Fits
<1>2. CASE Comment(q, c)
  BY <1>1, <1>2 DEF Comment
<1>3. CASE Rest(q, c)
  BY <1>3 DEF Rest
<1>4. CASE Checksum(q, c)
  <2>1. q.state # "ERROR_STATE"
    BY <1>4 DEF Checksum
  <2>2. Fits(ChecksumDigit(q, c))
    BY <1>1, <2>1, FieldNames DEF ChecksumDigit, Fits
  <2>3. p' = Goto(q, Follow(c)) \/ p' = ChecksumDigit(q, c) \/ p' = Error(q)
    BY <1>4 DEF Checksum, Digit, Semicolon, Open
  <2> QED BY <1>1, <2>1, <2>2, <2>3
<1>5. CASE Filename(q, c)
  <2>1. q.state # "ERROR_STATE"
    BY <1>5 DEF Filename, NameStates
  <2>2. Fits([q EXCEPT !.filename_len = @ + 1])
    BY <2>1, FieldNames DEF Fits
  <2>3. p' = Goto(q, "EXPECT_LETTER") \/ p' = [q EXCEPT !.filename_len = @ + 1]
    BY <1>5 DEF Filename
  <2> QED BY <1>1, <2>1, <2>2, <2>3
<1> QED BY <1>2, <1>3, <1>4, <1>5

LEMMA CharacterFits ==
  ASSUME Inv, NEW c, NextChar(c) \/ EndOfLine(c)
  PROVE  Inv'
<1>1. CASE Ignore(c)
  BY <1>1, ReadyFits DEF Ignore, Inv, Fits, Names, Fresh, Index
<1>2. CASE StartChecksum(c)
  <2>1. Fits(Goto(Ready, "PARSE_CHECKSUM"))
    BY <1>2, ReadyFits, GotoFits DEF StartChecksum
  <2> QED BY <1>2, <2>1 DEF StartChecksum, Inv, Fits, Names, Fresh, Index
<1>3. CASE Other(c)
  <2>1. PICK q \in {Summed(c)} : Interpret(q, c)
    BY <1>3 DEF Other
  <2>2. Fits(q)
    BY <2>1, SummedFits
  <2>3. Fits(p')
    BY <2>1, <2>2, LetterFits, NumberFits, DigitsFit, Base64Fits, OthersFit DEF Interpret
  <2> QED BY <2>3 DEF Inv, Fits, Names, Fresh, Index
<1>4. CASE EndOfLine(c)
  BY <1>4, ReadyFits, FieldNames DEF EndOfLine, Goto, Inv, Fits, Names, Fresh, Index
<1> QED BY <1>1, <1>2, <1>3, <1>4 DEF NextChar

LEMMA InvInit == Init => Inv
  BY FreshFits, FieldNames DEF Init, ParserInit, Inv, Fits, Names, Fresh

LEMMA InvNext == Inv /\ [Next]_vars => Inv'
<1> SUFFICES ASSUME Inv, [Next]_vars PROVE Inv'
  OBVIOUS
<1>1. CASE UNCHANGED p
  BY <1>1 DEF Inv, Fits, Names, Fresh, Index
<1>2. ASSUME NEW c, NEW kind, Receive(c, kind) PROVE Inv'
  BY <1>2, CharacterFits DEF Receive, Within, LineEnd
<1>3. CASE Deliver
  BY <1>2, <1>3 DEF Deliver
<1>4. CASE Replace
  BY <1>2, <1>4 DEF Replace
<1>5. CASE \/ Lose \/ Probe \/ SendLine \/ CheckReply \/ CheckTornReply \/ UnpackFails
           \/ Done \/ UNCHANGED vars
  BY <1>1, <1>5 DEF Lose, Probe, SendLine, CheckReply, CheckTornReply, UnpackFails, Done, vars
<1> QED BY <1>3, <1>4, <1>5 DEF Next

(* Whatever the line sends or noise makes of it, no raster byte is written *)
(* outside of base64_bytes, parser.c:407-459, for any size of the array.   *)
THEOREM RasterBytesInBounds == Spec => []BytesInBounds
<1>1. Inv => BytesInBounds
  BY DEF Inv, Fits, BytesInBounds
<1> QED BY InvInit, InvNext, <1>1, PTL DEF Spec
-----------------------------------------------------------------------------
(* The automaton is deterministic: what process_char makes of a character, *)
(* as a function of the state q before it.                                 *)
ReadLetter(q, c) ==
  IF c \in Capital THEN [q EXCEPT !.last_letter = c - 65, !.codes_seen = @ \cup {c - 65},
                                  !.state = "EXPECT_NUMBER_OR_SIGN"]
  ELSE IF c \in White THEN q
  ELSE IF c \in Following THEN Goto(q, Follow(c))
  ELSE IF q.filename_len = 0 THEN AddToName(q, 1) ELSE Error(q)

ReadNumber(q, c) ==
  LET number == [q EXCEPT !.state = "EXPECT_FIRST_DIGIT", !.current_int = 0, !.digits = 0,
                          !.subdigits = 0, !.isNegative = (c = Minus)]
  IN  IF c \in White THEN Goto(q, "EXPECT_LETTER")
      ELSE IF c \in {Plus, Minus} THEN number
      ELSE IF c \in Digit THEN FirstDigit(number, c)
      ELSE IF q.filename_len = 0 THEN AddToName(q, 2) ELSE Error(q)

ReadFirst(q, c) ==
  IF c \in White THEN Goto(q, "EXPECT_LETTER")
  ELSE IF c \in Digit THEN FirstDigit(q, c) ELSE Error(q)

ReadAnother(q, c) ==
  IF c \in Digit THEN IF TooLong(q) THEN Error(q)
                      ELSE Store([TakeDigit(q, c) EXCEPT !.digits = @ + 1])
  ELSE IF c = Dot THEN Store(Goto(q, "EXPECT_SUBDIGITS"))
  ELSE IF c \in White THEN Store(Goto(q, "EXPECT_LETTER"))
  ELSE IF c \in Following THEN Store(Goto(q, Follow(c))) ELSE Error(q)

ReadSubdigit(q, c) ==
  IF c \in Digit THEN IF Ignored(q) THEN q
                      ELSE Store([TakeDigit(q, c) EXCEPT !.subdigits = @ + 1])
  ELSE IF c \in White THEN Goto(q, "EXPECT_LETTER") ELSE Error(q)

ReadBase64_1(q, c) ==
  IF c \in White THEN Goto(q, "EXPECT_LETTER")
  ELSE IF ~IsBase64(c) THEN Error(q)
  ELSE Begin(q, 4 * base64_value(c), "EXPECT_BASE64_2")

ReadBase64_2(q, c) ==
  LET b == base64_value(c)
  IN  IF ~IsBase64(c) THEN Error(q)
      ELSE Begin(Complete(q, b \div 16), (16 * b) % 256, "EXPECT_BASE64_3")

ReadBase64_3(q, c) ==
  LET b == base64_value(c)
  IN  IF c = Equal THEN Goto(q, "EXPECT_BASE64_4")
      ELSE IF ~IsBase64(c) THEN Error(q)
      ELSE Begin(Complete(q, b \div 4), (64 * b) % 256, "EXPECT_BASE64_4")

ReadBase64_4(q, c) ==
  LET full == Complete(q, base64_value(c))
  IN  IF c = Equal THEN Goto(q, "EXPECT_BASE64_1")
      ELSE IF ~IsBase64(c) THEN Error(q)
      ELSE IF full.state = "ERROR_STATE" THEN full
      ELSE Goto(full, "EXPECT_BASE64_1")

ReadChecksum(q, c) ==
  IF c \in {Semicolon, Open} THEN Goto(q, Follow(c))
  ELSE IF c \in Digit THEN ChecksumDigit(q, c) ELSE Error(q)

ReadName(q, c) ==
  LET ends == IF q.state = "PARSE_FILENAME" THEN White
              ELSE IF q.state = "PARSE_FILENAME_TICKS" THEN {Tick} ELSE {Quote}
  IN  IF c \in ends THEN Goto(q, "EXPECT_LETTER") ELSE [q EXCEPT !.filename_len = @ + 1]

Interpreted(q, c) ==
  IF q.state = "EXPECT_LETTER" THEN ReadLetter(q, c)
  ELSE IF q.state = "EXPECT_NUMBER_OR_SIGN" THEN ReadNumber(q, c)
  ELSE IF q.state = "EXPECT_FIRST_DIGIT" THEN ReadFirst(q, c)
  ELSE IF q.state = "EXPECT_ANOTHERDIGIT" THEN ReadAnother(q, c)
  ELSE IF q.state = "EXPECT_SUBDIGITS" THEN ReadSubdigit(q, c)
  ELSE IF q.state = "EXPECT_BASE64_1" THEN ReadBase64_1(q, c)
  ELSE IF q.state = "EXPECT_BASE64_2" THEN ReadBase64_2(q, c)
  ELSE IF q.state = "EXPECT_BASE64_3" THEN ReadBase64_3(q, c)
  ELSE IF q.state = "EXPECT_BASE64_4" THEN ReadBase64_4(q, c)
  ELSE IF q.state = "COMMENT_MODE" THEN (IF c = Close THEN Goto(q, "EXPECT_LETTER") ELSE q)
  ELSE IF q.state \in {"IGNORE_REST", "ERROR_STATE"} THEN q
  ELSE IF q.state = "PARSE_CHECKSUM" THEN ReadChecksum(q, c)
  ELSE ReadName(q, c)

Read(q, c) ==
  IF c = Return THEN q
  ELSE IF c = Star /\ q.state # "ERROR_STATE" THEN Goto(q, "PARSE_CHECKSUM")
  ELSE Interpreted(IF q.state # "PARSE_CHECKSUM" /\ q.checksum_chars = 0
                   THEN [q EXCEPT !.calcsum = Xor(@, c)] ELSE q, c)

LEMMA InterpretReads ==
  ASSUME NEW q, NEW c, Interpret(q, c)
  PROVE  p' = Interpreted(q, c)
<1> USE DEF Interpreted
<1>1. CASE ExpectLetter(q, c)
  BY <1>1 DEF ExpectLetter, ReadLetter, Capital, White, Space, Tab, Following,
              Semicolon, Open, Dollar, Tick, Quote
<1>2. CASE ExpectNumberOrSign(q, c)
  BY <1>2 DEF ExpectNumberOrSign, ReadNumber, White, Space, Tab, Plus, Minus, Digit
<1>3. CASE ExpectFirstDigit(q, c)
  BY <1>3 DEF ExpectFirstDigit, ReadFirst, White, Space, Tab, Digit
<1>4. CASE ExpectAnotherDigit(q, c)
  BY <1>4 DEF ExpectAnotherDigit, ReadAnother, White, Space, Tab, Digit, Dot, Following,
              Semicolon, Open, Dollar, Tick, Quote
<1>5. CASE ExpectSubdigits(q, c)
  BY <1>5 DEF ExpectSubdigits, ReadSubdigit, White, Space, Tab, Digit
<1>6. CASE Base64_1(q, c) \/ Base64_2(q, c) \/ Base64_3(q, c) \/ Base64_4(q, c)
  BY <1>6 DEF Base64_1, Base64_2, Base64_3, Base64_4,
              ReadBase64_1, ReadBase64_2, ReadBase64_3, ReadBase64_4
<1>7. CASE Comment(q, c) \/ Rest(q, c)
  BY <1>7 DEF Comment, Rest
<1>8. CASE Checksum(q, c)
  BY <1>8 DEF Checksum, ReadChecksum, Semicolon, Open, Digit
<1>9. CASE Filename(q, c)
  <2>1. q.state \in NameStates
    BY <1>9 DEF Filename
  <2>2. Interpreted(q, c) = ReadName(q, c)
    BY <2>1 DEF NameStates
  <2>3. p' = ReadName(q, c)
    BY <1>9, <2>1 DEF Filename, NameStates, ReadName
  <2> QED
    BY <2>2, <2>3
<1> QED
  BY <1>1, <1>2, <1>3, <1>4, <1>5, <1>6, <1>7, <1>8, <1>9 DEF Interpret

LEMMA CharacterReads ==
  ASSUME NEW c, NextChar(c)
  PROVE  p' = Read(Ready, c)
<1>1. CASE Ignore(c)
  BY <1>1 DEF Ignore, Read
<1>2. CASE StartChecksum(c)
  BY <1>2 DEF StartChecksum, Read, Star, Return
<1>3. CASE Other(c)
  <2>1. Interpret(Summed(c), c)
    BY <1>3 DEF Other
  <2>2. p' = Interpreted(Summed(c), c)
    BY <2>1, InterpretReads
  <2> QED
    BY <1>3, <2>2 DEF Other, Read, Summed
<1> QED
  BY <1>1, <1>2, <1>3 DEF NextChar

(* Only the end of a line brings the parser back to its start.             *)
On(q) == DOMAIN q = Names /\ q.state # "INIT_PARSER"

LEMMA GotoOn ==
  ASSUME NEW q, On(q), NEW s, s # "INIT_PARSER"
  PROVE  On(Goto(q, s))
  BY FieldNames DEF On, Goto

LEMMA HelpersOn ==
  ASSUME NEW q, On(q)
  PROVE  /\ On(Error(q)) /\ On(Store(q))
         /\ \A n : On(AddToName(q, n))
         /\ \A low : On(Complete(q, low))
         /\ \A high, s : s # "INIT_PARSER" => On(Begin(q, high, s))
         /\ \A c : On(FirstDigit(q, c)) /\ On(TakeDigit(q, c))
<1>1. On(Error(q))
  BY GotoOn DEF Error
<1>2. ASSUME NEW r, On(r) PROVE On(Store(r))
  BY <1>2, FieldNames DEF On, Store
<1>3. ASSUME NEW n PROVE On(AddToName(q, n))
  BY FieldNames DEF On, AddToName
<1>4. ASSUME NEW low PROVE On(Complete(q, low))
  BY FieldNames DEF On, Complete, Error, Goto
<1>5. ASSUME NEW high, NEW s, s # "INIT_PARSER" PROVE On(Begin(q, high, s))
  BY <1>5, FieldNames DEF On, Begin
<1>6. ASSUME NEW c PROVE On(FirstDigit(q, c)) /\ On(TakeDigit(q, c))
  <2>1. On([q EXCEPT !.current_int = c - 48, !.digits = @ + 1, !.state = "EXPECT_ANOTHERDIGIT"])
    BY FieldNames DEF On
  <2>2. On(TakeDigit(q, c))
    BY FieldNames DEF On, TakeDigit
  <2> QED
    BY <1>2, <2>1, <2>2 DEF FirstDigit
<1> QED
  BY <1>1, <1>2, <1>3, <1>4, <1>5, <1>6

LEMMA FollowOn == \A c \in Following : Follow(c) # "INIT_PARSER"
  BY DEF Following, Follow, Semicolon, Open, Dollar, Tick, Quote

LEMMA InterpretedOn ==
  ASSUME NEW q, On(q), NEW c
  PROVE  On(Interpreted(q, c))
<1>1. \A s : s # "INIT_PARSER" => On(Goto(q, s))
  BY GotoOn
<1>2. On(ReadLetter(q, c))
  <2>1. On([q EXCEPT !.last_letter = c - 65, !.codes_seen = @ \cup {c - 65},
                     !.state = "EXPECT_NUMBER_OR_SIGN"])
    BY FieldNames DEF On
  <2> QED
    BY <1>1, <2>1, HelpersOn, FollowOn DEF ReadLetter
<1>3. On(ReadNumber(q, c))
  <2> DEFINE number == [q EXCEPT !.state = "EXPECT_FIRST_DIGIT", !.current_int = 0,
                                 !.digits = 0, !.subdigits = 0, !.isNegative = (c = Minus)]
  <2>1. On(number)
    BY FieldNames DEF On
  <2> HIDE DEF number
  <2>2. On(FirstDigit(number, c))
    BY <2>1, HelpersOn
  <2> QED
    BY <1>1, <2>1, <2>2, HelpersOn DEF ReadNumber, number
<1>4. On(ReadFirst(q, c))
  BY <1>1, HelpersOn DEF ReadFirst
<1>5. ASSUME NEW r, On(r)
      PROVE  On(Store([r EXCEPT !.digits = @ + 1])) /\ On(Store([r EXCEPT !.subdigits = @ + 1]))
  <2>1. On([r EXCEPT !.digits = @ + 1]) /\ On([r EXCEPT !.subdigits = @ + 1])
    BY <1>5, FieldNames DEF On
  <2> QED
    BY <2>1, HelpersOn
<1>6. On(ReadAnother(q, c))
  <2>1. ASSUME NEW s, s # "INIT_PARSER" PROVE On(Store(Goto(q, s)))
    BY <1>1, <2>1, HelpersOn
  <2>2. On(Store([TakeDigit(q, c) EXCEPT !.digits = @ + 1])) /\ On(Error(q))
    BY <1>5, HelpersOn
  <2> QED
    BY <2>1, <2>2, FollowOn DEF ReadAnother
<1>7. On(ReadSubdigit(q, c))
  <2>1. On(Store([TakeDigit(q, c) EXCEPT !.subdigits = @ + 1])) /\ On(Error(q))
    BY <1>5, HelpersOn
  <2> QED
    BY <1>1, <2>1 DEF ReadSubdigit
<1>8. ASSUME NEW low, NEW high, NEW s, s # "INIT_PARSER" PROVE On(Begin(Complete(q, low), high, s))
  BY <1>8, HelpersOn
<1>9. On(ReadBase64_1(q, c)) /\ On(ReadBase64_2(q, c)) /\ On(ReadBase64_3(q, c))
  BY <1>1, <1>8, HelpersOn DEF ReadBase64_1, ReadBase64_2, ReadBase64_3
<1>a. On(ReadBase64_4(q, c))
  <2> DEFINE full == Complete(q, base64_value(c))
  <2>1. On(full)
    BY HelpersOn
  <2> HIDE DEF full
  <2>2. On(Goto(full, "EXPECT_BASE64_1"))
    BY <2>1, GotoOn
  <2> QED
    BY <1>1, <2>1, <2>2, HelpersOn DEF ReadBase64_4, full
<1>b. On(ReadChecksum(q, c))
  <2>1. On(ChecksumDigit(q, c))
    BY HelpersOn, FieldNames DEF ChecksumDigit, On
  <2> QED
    BY <1>1, <2>1, HelpersOn, FollowOn DEF ReadChecksum, Following
<1>c. On(ReadName(q, c))
  <2>1. On([q EXCEPT !.filename_len = @ + 1])
    BY FieldNames DEF On
  <2> QED
    BY <1>1, <2>1 DEF ReadName
<1> QED
  BY <1>1, <1>2, <1>3, <1>4, <1>6, <1>7, <1>9, <1>a, <1>b, <1>c DEF Interpreted

LEMMA ReadOn ==
  ASSUME NEW q, On(q), NEW c
  PROVE  On(Read(q, c))
<1>1. On([q EXCEPT !.calcsum = Xor(@, c)])
  BY FieldNames DEF On
<1> QED
  BY <1>1, GotoOn, InterpretedOn DEF Read

LEMMA LeastElement ==
  ASSUME NEW T, T \subseteq Nat, T # {}
  PROVE  \E x \in T : \A y \in T : x <= y
<1> DEFINE R == OpToRel(<, Nat)
<1>1. IsWellFoundedOn(R, Nat)
  BY NatLessThanWellFounded, Zenon
<1>2. \A x, y \in Nat : x < y => <<x, y>> \in R
  BY DEF OpToRel
<1> HIDE DEF R
<1>3. PICK x \in T : \A y \in T : ~(<<y, x>> \in R)
  BY <1>1, WFMin, Zenon
<1>4. ASSUME NEW y \in T PROVE x <= y
  <2>1. ~(y < x)
    BY <1>2, <1>3
  <2> QED BY <2>1
<1> QED
  BY <1>4

LEMMA Counting ==
  ASSUME NEW S, 0 \in S, \A n \in Nat : n \in S => n + 1 \in S
  PROVE  Nat \subseteq S
<1> SUFFICES ASSUME Nat \ S # {} PROVE FALSE
  OBVIOUS
<1>1. PICK x \in Nat \ S : \A y \in Nat \ S : x <= y
  BY LeastElement
<1>2. x - 1 \in Nat /\ x - 1 \in S
  BY <1>1
<1> QED
  BY <1>2

(* The parser after each of the characters of a text.                      *)
Reads(t) ==
  LET read[n \in 0 .. Len(t)] == IF n = 0 THEN Fresh ELSE Read(read[n - 1], t[n])
  IN  read

LEMMA ReadsExist ==
  ASSUME NEW t, NEW m \in Nat
  PROVE  \E f : f = [k \in 0 .. m |-> IF k = 0 THEN Fresh ELSE Read(f[k - 1], t[k])]
<1> DEFINE After(x, k) == Read(x, t[k])
           Stage(f, k) == IF k = 0 THEN Fresh ELSE After(f[k - 1], k)
           Prefix(n) == \E f : f = [k \in 0 .. n |-> Stage(f, k)]
           S == {n \in Nat : Prefix(n)}
<1> HIDE DEF After
<1>1. 0 \in S
  <2>1. [k \in 0 .. 0 |-> Fresh] = [k \in 0 .. 0 |-> Stage([j \in 0 .. 0 |-> Fresh], k)]
    OBVIOUS
  <2> QED
    BY <2>1
<1>2. ASSUME NEW n \in Nat, n \in S PROVE n + 1 \in S
  <2>1. PICK f : f = [k \in 0 .. n |-> Stage(f, k)]
    BY <1>2
  <2> DEFINE g == [k \in 0 .. n + 1 |-> IF k <= n THEN f[k] ELSE After(f[n], k)]
  <2>2. ASSUME NEW k \in 0 .. n + 1 PROVE g[k] = Stage(g, k)
    <3>1. CASE k = 0
      BY <2>1, <3>1
    <3>2. CASE k # 0 /\ k <= n
      <4>1. f[k] = After(f[k - 1], k)
        BY <2>1, <3>2
      <4>2. g[k] = f[k] /\ g[k - 1] = f[k - 1]
        BY <3>2
      <4> QED
        BY <3>2, <4>1, <4>2
    <3>3. CASE k = n + 1
      BY <3>3
    <3> QED
      BY <3>1, <3>2, <3>3
  <2>3. g = [k \in 0 .. n + 1 |-> g[k]]
    OBVIOUS
  <2> HIDE DEF g
  <2>4. g = [k \in 0 .. n + 1 |-> Stage(g, k)]
    <3> HIDE DEF Stage
    <3> QED
      BY <2>2, <2>3
  <2>5. Prefix(n + 1)
    BY <2>4
  <2> HIDE DEF Prefix
  <2> QED
    BY <2>5
<1> HIDE DEF S
<1>3. Nat \subseteq S
  BY <1>1, <1>2, Counting
<1> QED
  BY <1>3 DEF S, After

LEMMA ReadsOne ==
  ASSUME NEW t, Len(t) \in Nat
  PROVE  /\ Reads(t)[0] = Fresh
         /\ \A n \in 1 .. Len(t) : Reads(t)[n] = Read(Reads(t)[n - 1], t[n])
<1> DEFINE Stage(f, k) == IF k = 0 THEN Fresh ELSE Read(f[k - 1], t[k])
           f == Reads(t)
<1>1. f = [k \in 0 .. Len(t) |-> Stage(f, k)]
  BY ReadsExist DEF Reads
<1> HIDE DEF f
<1>2. \A k \in 0 .. Len(t) : f[k] = Stage(f, k)
  BY <1>1
<1> QED
  BY <1>2 DEF f

LEMMA CommandedExists ==
  ASSUME NEW j, NEW m \in Nat
  PROVE  \E f : f = [k \in 0 .. m |->
           IF k = 0 THEN <<>>
           ELSE IF Good(j[k]) THEN Append(f[k - 1], Meaning(j[k])) ELSE f[k - 1]]
<1> DEFINE After(x, k) == IF Good(j[k]) THEN Append(x, Meaning(j[k])) ELSE x
           Stage(f, k) == IF k = 0 THEN <<>> ELSE After(f[k - 1], k)
           Prefix(n) == \E f : f = [k \in 0 .. n |-> Stage(f, k)]
           S == {n \in Nat : Prefix(n)}
<1> HIDE DEF After
<1>1. 0 \in S
  <2>1. [k \in 0 .. 0 |-> <<>>] = [k \in 0 .. 0 |-> Stage([i \in 0 .. 0 |-> <<>>], k)]
    OBVIOUS
  <2> QED
    BY <2>1
<1>2. ASSUME NEW n \in Nat, n \in S PROVE n + 1 \in S
  <2>1. PICK f : f = [k \in 0 .. n |-> Stage(f, k)]
    BY <1>2
  <2> DEFINE g == [k \in 0 .. n + 1 |-> IF k <= n THEN f[k] ELSE After(f[n], k)]
  <2>2. ASSUME NEW k \in 0 .. n + 1 PROVE g[k] = Stage(g, k)
    <3>1. CASE k = 0
      BY <2>1, <3>1
    <3>2. CASE k # 0 /\ k <= n
      <4>1. f[k] = After(f[k - 1], k)
        BY <2>1, <3>2
      <4>2. g[k] = f[k] /\ g[k - 1] = f[k - 1]
        BY <3>2
      <4> QED
        BY <3>2, <4>1, <4>2
    <3>3. CASE k = n + 1
      BY <3>3
    <3> QED
      BY <3>1, <3>2, <3>3
  <2>3. g = [k \in 0 .. n + 1 |-> g[k]]
    OBVIOUS
  <2> HIDE DEF g
  <2>4. g = [k \in 0 .. n + 1 |-> Stage(g, k)]
    <3> HIDE DEF Stage
    <3> QED
      BY <2>2, <2>3
  <2>5. Prefix(n + 1)
    BY <2>4
  <2> HIDE DEF Prefix
  <2> QED
    BY <2>5
<1> HIDE DEF S
<1>3. Nat \subseteq S
  BY <1>1, <1>2, Counting
<1>4. PICK f : f = [k \in 0 .. m |-> Stage(f, k)]
  BY <1>3 DEF S
<1> QED
  BY <1>4 DEF After

LEMMA CommandedOne ==
  ASSUME NEW j, Len(j) \in Nat
  PROVE  /\ Commanded(j)[0] = <<>>
         /\ \A n \in 1 .. Len(j) :
              Commanded(j)[n] = IF Good(j[n]) THEN Append(Commanded(j)[n - 1], Meaning(j[n]))
                                ELSE Commanded(j)[n - 1]
<1> DEFINE After(x, k) == IF Good(j[k]) THEN Append(x, Meaning(j[k])) ELSE x
           Stage(f, k) == IF k = 0 THEN <<>> ELSE After(f[k - 1], k)
           f == Commanded(j)
<1>1. f = [k \in 0 .. Len(j) |-> Stage(f, k)]
  BY CommandedExists DEF Commanded
<1> HIDE DEF f
<1>2. \A k \in 0 .. Len(j) : f[k] = Stage(f, k)
  BY <1>1
<1> QED
  BY <1>2 DEF f

(* The commands of more lines begin with those of fewer.                   *)
LEMMA CommandedGrows ==
  ASSUME NEW j, Len(j) \in Nat, NEW k \in 0 .. Len(j)
  PROVE  IsPrefix(Commanded(j)[k], Commands(j))
<1> DEFINE f == Commanded(j)
           T == {Meaning(j[i]) : i \in 1 .. Len(j)}
           S == {n \in Nat : n <= Len(j) => f[n] \in Seq(T)
                               /\ (k <= n => Len(f[k]) <= Len(f[n])
                                    /\ \A i \in 1 .. Len(f[k]) : f[k][i] = f[n][i])}
<1>0. /\ f[0] = <<>>
      /\ \A n \in 1 .. Len(j) :
           f[n] = IF Good(j[n]) THEN Append(f[n - 1], Meaning(j[n])) ELSE f[n - 1]
  BY CommandedOne
<1> HIDE DEF f
<1>1. 0 \in S
  <2>1. f[0] \in Seq(T)
    BY <1>0
  <2>2. k <= 0 => k = 0
    OBVIOUS
  <2> QED
    BY <2>1, <2>2
<1>2. ASSUME NEW n \in Nat, n \in S PROVE n + 1 \in S
  <2> SUFFICES ASSUME n + 1 <= Len(j) PROVE n + 1 \in S
    OBVIOUS
  <2>1. f[n + 1] = IF Good(j[n + 1]) THEN Append(f[n], Meaning(j[n + 1])) ELSE f[n]
    <3>1. n + 1 \in 1 .. Len(j) /\ (n + 1) - 1 = n
      OBVIOUS
    <3> QED
      BY <1>0, <3>1
  <2>2. f[n] \in Seq(T)
    BY <1>2
  <2>3. Meaning(j[n + 1]) \in T
    OBVIOUS
  <2> HIDE DEF T
  <2>4. f[n + 1] \in Seq(T) /\ Len(f[n]) <= Len(f[n + 1])
        /\ \A i \in 1 .. Len(f[n]) : f[n][i] = f[n + 1][i]
    BY <2>1, <2>2, <2>3
  <2>5. CASE k = n + 1
    BY <2>4, <2>5
  <2>6. CASE k <= n
    BY <1>2, <2>2, <2>4, <2>6
  <2>7. CASE k > n + 1
    BY <2>4, <2>7
  <2> QED
    BY <2>5, <2>6, <2>7
<1>3. Nat \subseteq S
  <2> HIDE DEF S
  <2> QED
    BY <1>1, <1>2, Counting
<1>4. k \in S /\ Len(j) \in S
  <2> HIDE DEF S
  <2> QED
    BY <1>3
<1>5. f[k] \in Seq(T) /\ f[Len(j)] \in Seq(T) /\ Len(f[k]) <= Len(f[Len(j)])
      /\ \A i \in 1 .. Len(f[k]) : f[k][i] = f[Len(j)][i]
  BY <1>4
<1>6. SubSeq(f[k], 1, Len(f[k])) = SubSeq(f[Len(j)], 1, Len(f[k]))
  <2> HIDE DEF T
  <2> QED
    BY <1>5
<1> QED
  BY <1>5, <1>6 DEF IsPrefix, Commands, f

(* What a job has to be like: alone, from a fresh parser, each of its      *)
(* lines is read as what it means, or is refused.                          *)
Legible(l) ==
  /\ Text(l) \in Seq(Int) /\ \A i \in DOMAIN Text(l) : Text(l)[i] # Newline
  /\ LET t == Checked(Text(l))
         q == Reads(t)[Len(t) - 1]
     IN  /\ Verdict(q) = IF l.refused THEN "PARSER_FORMAT_ERROR" ELSE "PARSER_OK"
         /\ l.refused \/ Command(q) = Meaning(l)
JobsLegible ==
  \A j \in DOMAIN Jobs :
    Jobs[j] \in Seq(Range(Jobs[j])) /\ \A i \in DOMAIN Jobs[j] : Legible(Jobs[j][i])

LEMMA OfBitsNat == ASSUME NEW b \in [0 .. 7 -> Nat] PROVE OfBits(b) \in Nat
  BY DEF OfBits

LEMMA SumIsNat == ASSUME NEW t \in Seq(Int) PROVE Sum(t) \in Nat
<1> DEFINE Ones(k) == {i \in DOMAIN t : Bit(t[i], k) = 1}
<1>1. ASSUME NEW k \in 0 .. 7 PROVE Cardinality(Ones(k)) % 2 \in Nat
  <2>1. IsFiniteSet(DOMAIN t)
    BY FS_Interval
  <2>2. Ones(k) \subseteq DOMAIN t
    OBVIOUS
  <2> HIDE DEF Ones
  <2>3. IsFiniteSet(Ones(k))
    BY <2>1, <2>2, FS_Subset
  <2>4. Cardinality(Ones(k)) \in Nat
    BY <2>3, FS_CardinalityType
  <2> DEFINE c == Cardinality(Ones(k))
  <2> HIDE DEF c
  <2>5. c \in Nat => c % 2 \in Nat
    OBVIOUS
  <2> QED
    BY <2>4, <2>5 DEF c
<1>3. Sum(t) = OfBits([k \in 0 .. 7 |-> Cardinality(Ones(k)) % 2])
  BY DEF Sum
<1> HIDE DEF Ones
<1>4. [k \in 0 .. 7 |-> Cardinality(Ones(k)) % 2] \in [0 .. 7 -> Nat]
  BY <1>1
<1> QED
  BY <1>3, <1>4, OfBitsNat

(* A line that is sent has its only end of line at its end.                *)
Whole(t) ==
  /\ t \in Seq(Int) /\ Len(t) >= 1 /\ t[Len(t)] = Newline
  /\ \A n \in 1 .. Len(t) - 1 : t[n] # Newline

LEMMA CheckedIsWhole ==
  ASSUME NEW t \in Seq(Int), \A i \in DOMAIN t : t[i] # Newline
  PROVE  Whole(Checked(t))
<1> DEFINE Inner == {c \in Int : c # Newline}
           n == Sum(t)
           u == t \o <<Star>> \o Decimal(n)
<1>1. t \in Seq(Inner)
  <2>1. \A i \in 1 .. Len(t) : t[i] \in Inner
    OBVIOUS
  <2> HIDE DEF Inner
  <2> QED
    BY <2>1
<1>2. Decimal(n) \in Seq(Inner)
  <2>1. n \in Nat
    BY SumIsNat
  <2> HIDE DEF n
  <2>2. \A k \in Nat : Numeral(k) \in Inner
    BY DEF Numeral, Newline
  <2>3. n \div 10 \in Nat /\ n % 10 \in Nat /\ n \div 100 \in Nat /\ (n \div 10) % 10 \in Nat
    BY <2>1
  <2>4. /\ \A a \in Inner : <<a>> \in Seq(Inner)
        /\ \A a, b \in Inner : <<a, b>> \in Seq(Inner)
        /\ \A a, b, c \in Inner : <<a, b, c>> \in Seq(Inner)
    OBVIOUS
  <2> HIDE DEF Inner
  <2>5. CASE n < 10
    <3>1. n \notin 10 .. 99
      BY <2>1, <2>5
    <3>2. Decimal(n) = <<Numeral(n)>>
      BY <2>5, <3>1 DEF Decimal
    <3> QED
      BY <2>1, <2>2, <2>4, <3>2
  <2>6. CASE n \in 10 .. 99
    BY <2>2, <2>3, <2>4, <2>6 DEF Decimal
  <2>7. CASE ~(n < 10) /\ n \notin 10 .. 99
    BY <2>2, <2>3, <2>4, <2>7 DEF Decimal
  <2> QED
    BY <2>5, <2>6, <2>7
<1>3. <<Star>> \in Seq(Inner)
  BY DEF Star, Newline
<1>4. u \in Seq(Inner)
  <2> HIDE DEF Inner, n
  <2> QED
    BY <1>1, <1>2, <1>3
<1>5. Checked(t) = u \o <<Newline>>
  BY DEF Checked
<1> HIDE DEF u
<1>6. u \in Seq(Int) /\ \A k \in 1 .. Len(u) : u[k] # Newline
  BY <1>4
<1>7. Newline \in Int
  BY DEF Newline
<1> QED
  BY <1>5, <1>6, <1>7 DEF Whole

-----------------------------------------------------------------------------
(* The characters under way are cut into empty lines and lines of the job: *)
(* the i-th piece ends at e[i], and d[i] lines have been sent with it.  Of *)
(* the first piece the parser has read 0 - e[0] characters.                *)
Item(x, y) == IF x = y THEN <<Newline>> ELSE Sent[job][y]
Piece(b, e, x, y) ==
  /\ y \in {x, x + 1} /\ y <= Len(Lines)
  /\ e = b + Len(Item(x, y)) /\ e > 0
  /\ \A n \in 1 .. Len(Item(x, y)) : b + n > 0 => wire[b + n] = Item(x, y)[n]
Begun == IF host = "waiting" THEN line ELSE line - 1
Pieces(m, e, d) ==
  /\ m \in Nat /\ e \in [0 .. m -> Int] /\ d \in [0 .. m -> Nat]
  /\ e[0] <= 0 /\ e[m] = Len(wire)
  /\ \A i \in 0 .. m : e[i] <= Len(wire)
  /\ d[m] = Begun
  /\ \A i \in 1 .. m : Piece(e[i - 1], e[i], d[i - 1], d[i])

(* The lines that have ended are executed, and the parser knows as much of *)
(* the next one as it has read.                                            *)
Progress(m, e, d) ==
  /\ log = Commanded(Lines)[d[0]]
  /\ Ready = IF m = 0 THEN Fresh ELSE Reads(Item(d[0], d[1]))[0 - e[0]]

Undisturbed == trouble \subseteq {"format", "torn", "died"}

Answers == {"OK", "OK full", "FORMAT ERROR", "resend!", "torn"}
JobTypes ==
  /\ Inv /\ job \in DOMAIN Jobs /\ wire \in Seq(Int) /\ replies \in Seq(Answers)
  /\ line \in 1 .. Len(Lines) + 1 /\ host \in {"send", "probing", "waiting"}
  /\ host = "waiting" => line <= Len(Lines)
JobInv ==
  /\ JobTypes
  /\ Undisturbed => /\ \A i \in 1 .. Len(replies) : replies[i] # "resend!"
                    /\ \E m, e, d : Pieces(m, e, d) /\ Progress(m, e, d)

LEMMA LinesTyped ==
  ASSUME JobsLegible, job \in DOMAIN Jobs
  PROVE  /\ Len(Lines) \in Nat /\ DOMAIN Lines = 1 .. Len(Lines)
         /\ \A i \in 1 .. Len(Lines) :
              Legible(Lines[i]) /\ Sent[job][i] = Checked(Text(Lines[i])) /\ Whole(Sent[job][i])
<1>1. Lines \in Seq(Range(Lines)) /\ \A i \in DOMAIN Lines : Legible(Lines[i])
  BY DEF JobsLegible, Lines
<1>2. Len(Lines) \in Nat /\ DOMAIN Lines = 1 .. Len(Lines)
  BY <1>1
<1>3. \A i \in DOMAIN Lines : Sent[job][i] = Checked(Text(Lines[i]))
  BY DEF Sent, Lines
<1>4. \A i \in DOMAIN Lines : Whole(Checked(Text(Lines[i])))
  BY <1>1, CheckedIsWhole DEF Legible
<1> QED
  BY <1>1, <1>2, <1>3, <1>4

LEMMA ItemWhole ==
  ASSUME JobsLegible, job \in DOMAIN Jobs, NEW x \in Nat, NEW y \in {x, x + 1}, y <= Len(Lines)
  PROVE  Whole(Item(x, y))
<1>1. CASE y = x
  BY <1>1 DEF Item, Whole, Newline
<1>2. CASE y = x + 1
  <2>1. y \in 1 .. Len(Lines)
    BY <1>2, LinesTyped
  <2> QED
    BY <1>2, <2>1, LinesTyped DEF Item
<1> QED
  BY <1>1, <1>2

(* The host appends a piece.                                               *)
LEMMA AddPiece ==
  ASSUME JobsLegible, JobTypes, NEW m, NEW e, NEW d, Pieces(m, e, d), Progress(m, e, d),
         NEW y \in {d[m], d[m] + 1}, y <= Len(Lines),
         wire' = wire \o Item(d[m], y), Begun' = y, UNCHANGED <<p, job, log>>
  PROVE  \E k, g, h : Pieces(k, g, h)' /\ Progress(k, g, h)'
<1>0. PICK u : u = Item(d[m], y)
  OBVIOUS
<1> DEFINE g == [i \in 0 .. m + 1 |-> IF i <= m THEN e[i] ELSE e[m] + Len(u)]
           h == [i \in 0 .. m + 1 |-> IF i <= m THEN d[i] ELSE y]
<1>1. /\ m \in Nat /\ e \in [0 .. m -> Int] /\ d \in [0 .. m -> Nat] /\ e[0] <= 0
      /\ e[m] = Len(wire) /\ wire \in Seq(Int) /\ \A i \in 0 .. m : e[i] <= Len(wire)
  BY DEF Pieces, JobTypes
<1>2. y \in Nat /\ d[m] \in Nat /\ Whole(u)
  BY <1>0, <1>1, ItemWhole DEF JobTypes
<1>3. u \in Seq(Int) /\ Len(u) \in Nat /\ Len(u) >= 1
  BY <1>2 DEF Whole
<1>4. \A a, b : Item(a, b)' = Item(a, b)
  BY DEF Item
<1>5. Len(Lines') = Len(Lines)
  BY DEF Lines
<1>6. wire' = wire \o u
  BY <1>0
<1>7. /\ Len(wire') = Len(wire) + Len(u)
      /\ \A i \in 1 .. Len(wire) : wire'[i] = wire[i]
      /\ \A i \in 1 .. Len(u) : wire'[Len(wire) + i] = u[i]
  <2>1. wire \in Seq(Int) /\ u \in Seq(Int) /\ Len(wire) \in Nat
    BY <1>1, <1>3
  <2> QED
    BY <1>6, <2>1
<1>8. /\ g \in [0 .. m + 1 -> Int] /\ h \in [0 .. m + 1 -> Nat]
      /\ \A i \in 0 .. m : g[i] = e[i] /\ h[i] = d[i]
      /\ g[m + 1] = e[m] + Len(u) /\ h[m + 1] = y
  BY <1>1, <1>2, <1>3
<1> HIDE DEF g, h
<1>9. ASSUME NEW i \in 1 .. m + 1 PROVE Piece(g[i - 1], g[i], h[i - 1], h[i])'
  <2>1. CASE i \in 1 .. m
    <3>1. Piece(e[i - 1], e[i], d[i - 1], d[i])
      BY <2>1 DEF Pieces
    <3>2. e[i - 1] \in Int /\ e[i] \in Int /\ e[i] <= Len(wire) /\ d[i - 1] \in Nat /\ d[i] \in Nat
      BY <1>1, <2>1
    <3>3. Whole(Item(d[i - 1], d[i]))
      BY <3>1, <3>2, ItemWhole DEF Piece, JobTypes
    <3>4. Len(Item(d[i - 1], d[i])) \in Nat /\ e[i] = e[i - 1] + Len(Item(d[i - 1], d[i]))
      BY <3>1, <3>3 DEF Whole, Piece
    <3>a. Len(wire) \in Nat
      BY <1>1
    <3>5. ASSUME NEW n \in 1 .. Len(Item(d[i - 1], d[i])), e[i - 1] + n > 0
          PROVE  wire'[e[i - 1] + n] = Item(d[i - 1], d[i])[n]
      <4>1. e[i - 1] + n \in 1 .. Len(wire)
        BY <3>2, <3>4, <3>5, <3>a
      <4> QED
        BY <1>7, <3>1, <3>5, <4>1 DEF Piece
    <3>6. Piece(e[i - 1], e[i], d[i - 1], d[i])'
      BY <1>4, <1>5, <3>1, <3>5 DEF Piece
    <3>7. g[i - 1] = e[i - 1] /\ g[i] = e[i] /\ h[i - 1] = d[i - 1] /\ h[i] = d[i]
      BY <1>1, <1>8, <2>1
    <3> QED
      BY <3>6, <3>7
  <2>2. CASE i = m + 1
    <3>1. g[i - 1] = e[m] /\ g[i] = e[m] + Len(u) /\ h[i - 1] = d[m] /\ h[i] = y
      BY <1>1, <1>8, <2>2
    <3>2. Item(d[m], y)' = u
      BY <1>0, <1>4
    <3>3. Piece(e[m], e[m] + Len(u), d[m], y)'
      BY <1>1, <1>3, <1>5, <1>7, <3>2 DEF Piece
    <3> QED
      BY <3>1, <3>3
  <2> QED
    BY <1>1, <2>1, <2>2
<1>a. Pieces(m + 1, g, h)'
  <2>1. m + 1 \in Nat /\ g[0] <= 0 /\ g[m + 1] = Len(wire')
    BY <1>1, <1>3, <1>7, <1>8
  <2>2. ASSUME NEW i \in 0 .. m + 1 PROVE g[i] <= Len(wire')
    <3>1. Len(wire) \in Nat
      BY <1>1
    <3>2. CASE i = m + 1
      BY <2>1, <3>1, <3>2
    <3>3. CASE i \in 0 .. m
      <4>1. e[i] \in Int /\ e[i] <= Len(wire) /\ g[i] = e[i]
        BY <1>1, <1>8, <3>3
      <4> QED
        BY <1>3, <1>7, <3>1, <4>1
    <3> QED
      BY <1>1, <3>2, <3>3
  <2>3. h[m + 1] = Begun'
    BY <1>8
  <2> QED
    BY <1>8, <1>9, <2>1, <2>2, <2>3 DEF Pieces
<1>b. Progress(m + 1, g, h)'
  <2>1. log' = Commanded(Lines')[h[0]] /\ Ready' = Ready /\ m + 1 # 0 /\ g[0] = e[0]
    <3>1. m + 1 # 0 /\ g[0] = e[0] /\ h[0] = d[0]
      BY <1>1, <1>8
    <3>2. log' = Commanded(Lines')[d[0]]
      BY DEF Progress, Lines
    <3>3. Ready' = Ready
      BY DEF Ready
    <3> QED
      BY <3>1, <3>2, <3>3
  <2>2. CASE m = 0
    <3>1. e[0] = 0 /\ h[0] = d[0] /\ h[1] = y /\ d[0] = d[m]
      BY <1>1, <1>8, <2>2
    <3>2. Item(h[0], h[1])' = u
      BY <1>0, <1>4, <3>1
    <3>3. Reads(u)[0] = Fresh
      BY <1>3, ReadsOne
    <3>4. 0 - e[0] = 0
      BY <3>1
    <3> QED
      BY <2>1, <2>2, <3>2, <3>3, <3>4 DEF Progress
  <2>3. CASE m > 0
    <3>1. h[0] = d[0] /\ h[1] = d[1]
      BY <1>1, <1>8, <2>3
    <3>2. Item(h[0], h[1])' = Item(d[0], d[1])
      BY <1>4, <3>1
    <3> QED
      BY <1>1, <2>1, <2>3, <3>2 DEF Progress
  <2> QED
    BY <1>1, <2>2, <2>3
<1> QED
  BY <1>a, <1>b

(* What the first piece says of the next character.                        *)
LEMMA NextOfPiece ==
  ASSUME JobsLegible, JobTypes, NEW m, NEW e, NEW d, Pieces(m, e, d), Progress(m, e, d),
         wire # <<>>
  PROVE  LET u == Item(d[0], d[1])
         IN  /\ m >= 1 /\ 0 - e[0] \in 0 .. Len(u) - 1 /\ e[1] = Len(u) + e[0]
             /\ d[0] \in Nat /\ d[1] \in {d[0], d[0] + 1} /\ d[1] <= Len(Lines)
             /\ Whole(u) /\ Head(wire) = u[1 - e[0]] /\ Ready = Reads(u)[0 - e[0]]
<1> DEFINE u == Item(d[0], d[1])
<1>1. /\ m \in Nat /\ e \in [0 .. m -> Int] /\ d \in [0 .. m -> Nat] /\ e[0] <= 0
      /\ e[m] = Len(wire) /\ wire \in Seq(Int)
  BY DEF Pieces, JobTypes
<1>2. Len(wire) \in Nat /\ Len(wire) >= 1
  BY <1>1
<1>3. m >= 1
  BY <1>1, <1>2
<1>4. Piece(e[0], e[1], d[0], d[1])
  <2>1. 1 \in 1 .. m /\ 1 - 1 = 0
    BY <1>1, <1>3
  <2> QED
    BY <2>1 DEF Pieces
<1>5. d[0] \in Nat /\ d[1] \in {d[0], d[0] + 1} /\ d[1] <= Len(Lines) /\ e[0] \in Int /\ e[1] \in Int
  BY <1>1, <1>3, <1>4 DEF Piece
<1>6. Whole(u)
  BY <1>5, ItemWhole DEF JobTypes
<1>7. Len(u) \in Nat
  BY <1>6 DEF Whole
<1>8. e[1] = e[0] + Len(u) /\ e[1] > 0
     /\ \A n \in 1 .. Len(u) : e[0] + n > 0 => wire[e[0] + n] = u[n]
  BY <1>4 DEF Piece
<1> HIDE DEF u
<1>9. 0 - e[0] \in 0 .. Len(u) - 1 /\ 1 - e[0] \in 1 .. Len(u) /\ e[0] + (1 - e[0]) = 1
      /\ e[1] = Len(u) + e[0]
  BY <1>1, <1>5, <1>7, <1>8
<1>a. Head(wire) = u[1 - e[0]]
  <2>1. wire[1] = u[1 - e[0]]
    BY <1>8, <1>9
  <2> QED
    BY <1>1, <2>1
<1>b. Ready = Reads(u)[0 - e[0]]
  BY <1>1, <1>3 DEF Progress, u
<1> QED
  BY <1>3, <1>5, <1>6, <1>9, <1>a, <1>b DEF u

(* A character within a line is delivered.                                 *)
LEMMA PieceGoesOn ==
  ASSUME JobsLegible, JobTypes, NEW m, NEW e, NEW d, Pieces(m, e, d), Progress(m, e, d),
         wire # <<>>, wire' = Tail(wire), UNCHANGED hostVars, UNCHANGED log,
         NextChar(Head(wire))
  PROVE  \E k, g, h : Pieces(k, g, h)' /\ Progress(k, g, h)'
<1>0. PICK u : u = Item(d[0], d[1])
  OBVIOUS
<1>1. /\ m >= 1 /\ 0 - e[0] \in 0 .. Len(u) - 1 /\ e[1] = Len(u) + e[0]
      /\ Whole(u) /\ Head(wire) = u[1 - e[0]] /\ Ready = Reads(u)[0 - e[0]]
  BY <1>0, NextOfPiece
<1>2. /\ m \in Nat /\ e \in [0 .. m -> Int] /\ d \in [0 .. m -> Nat]
      /\ e[m] = Len(wire) /\ d[m] = Begun /\ \A i \in 0 .. m : e[i] <= Len(wire)
  BY DEF Pieces
<1>3. wire \in Seq(Int) /\ Len(wire) \in Nat /\ Len(wire) >= 1
  BY DEF JobTypes
<1>4. Len(wire') = Len(wire) - 1 /\ \A i \in 1 .. Len(wire) - 1 : wire'[i] = wire[i + 1]
  BY <1>3
<1>5. \A x, y : Item(x, y)' = Item(x, y)
  BY DEF Item, hostVars
<1>6. Len(Lines') = Len(Lines) /\ Begun' = Begun
  BY DEF Lines, Begun, hostVars
<1>7. Len(u) \in Nat /\ e[0] \in Int
  BY <1>1, <1>2 DEF Whole
<1>8. 1 - e[0] \in 1 .. Len(u) - 1
  <2>1. Head(wire) # Newline
    BY DEF NextChar, Ignore, StartChecksum, Other, Newline, Return, Star
  <2>2. 1 - e[0] # Len(u)
    BY <1>1, <2>1 DEF Whole
  <2> QED
    BY <1>1, <1>7, <2>2
<1> DEFINE g == [i \in 0 .. m |-> e[i] - 1]
<1>9. g \in [0 .. m -> Int] /\ \A i \in 0 .. m : g[i] = e[i] - 1
  BY <1>2
<1> HIDE DEF g
<1>a. ASSUME NEW i \in 1 .. m PROVE Piece(g[i - 1], g[i], d[i - 1], d[i])'
  <2>1. Piece(e[i - 1], e[i], d[i - 1], d[i])
    BY DEF Pieces
  <2>2. PICK v : v = Item(d[i - 1], d[i])
    OBVIOUS
  <2>3. i - 1 \in 0 .. m /\ i \in 0 .. m
    BY <1>2
  <2>4. e[i - 1] \in Int /\ e[i] \in Int /\ e[i] <= Len(wire) /\ d[i - 1] \in Nat
    BY <1>2, <2>3
  <2>5. /\ d[i] \in {d[i - 1], d[i - 1] + 1} /\ d[i] <= Len(Lines)
        /\ e[i] = e[i - 1] + Len(v) /\ e[i] > 0
        /\ \A n \in 1 .. Len(v) : e[i - 1] + n > 0 => wire[e[i - 1] + n] = v[n]
    BY <2>1, <2>2 DEF Piece
  <2>6. Len(v) \in Nat /\ Len(v) >= 1
    <3>1. Whole(Item(d[i - 1], d[i]))
      BY <2>4, <2>5, ItemWhole DEF JobTypes
    <3> QED
      BY <2>2, <3>1 DEF Whole
  <2>7. e[i] - 1 > 0
    <3>1. CASE i = 1
      <4>1. e[1] = Len(u) + e[0]
        BY <1>1
      <4> QED
        BY <1>7, <1>8, <3>1, <4>1
    <3>2. CASE i # 1
      <4>1. i - 1 \in 1 .. m
        BY <1>2, <3>2
      <4>2. e[i - 1] > 0
        BY <4>1 DEF Pieces, Piece
      <4> QED
        BY <2>4, <2>5, <2>6, <4>2
    <3> QED
      BY <3>1, <3>2
  <2>8. ASSUME NEW n \in 1 .. Len(v), (e[i - 1] - 1) + n > 0
        PROVE  wire'[(e[i - 1] - 1) + n] = v[n]
    <3>1. (e[i - 1] - 1) + n \in 1 .. Len(wire) - 1 /\ ((e[i - 1] - 1) + n) + 1 = e[i - 1] + n
      <4>1. e[i] = e[i - 1] + Len(v)
        BY <2>5
      <4>2. n \in Int /\ n <= Len(v) /\ Len(v) \in Int /\ e[i - 1] \in Int /\ e[i] <= Len(wire)
        BY <2>4, <2>6
      <4>3. (e[i - 1] - 1) + n \in Int /\ (e[i - 1] - 1) + n > 0
        BY <2>8, <4>2
      <4>4. ((e[i - 1] - 1) + n) + 1 = e[i - 1] + n
        BY <4>2
      <4>5. (e[i - 1] - 1) + n <= Len(wire) - 1
        BY <1>3, <4>1, <4>2
      <4> QED
        BY <1>3, <4>3, <4>4, <4>5
    <3>2. e[i - 1] + n > 0
      BY <2>4, <2>6, <2>8
    <3>3. wire[e[i - 1] + n] = v[n]
      BY <2>5, <3>2
    <3> QED
      BY <1>4, <3>1, <3>3
  <2>9. e[i] - 1 = (e[i - 1] - 1) + Len(v)
    BY <2>4, <2>5, <2>6
  <2>a. Item(d[i - 1], d[i])' = v
    BY <1>5, <2>2
  <2>b. Piece(e[i - 1] - 1, e[i] - 1, d[i - 1], d[i])'
    BY <1>6, <2>5, <2>7, <2>8, <2>9, <2>a DEF Piece
  <2> QED
    BY <1>9, <2>3, <2>b
<1>b. Pieces(m, g, d)'
  <2>1. 0 \in 0 .. m /\ m \in 0 .. m
    BY <1>2
  <2>2. g[0] <= 0
    BY <1>1, <1>7, <1>9, <2>1
  <2>3. g[m] = Len(wire')
    BY <1>2, <1>4, <1>9, <2>1
  <2>4. ASSUME NEW i \in 0 .. m PROVE g[i] <= Len(wire')
    <3>1. e[i] \in Int /\ e[i] <= Len(wire) /\ g[i] = e[i] - 1
      BY <1>2, <1>9
    <3> QED
      BY <1>3, <1>4, <3>1
  <2> QED
    BY <1>2, <1>6, <1>9, <1>a, <2>2, <2>3, <2>4 DEF Pieces
<1>c. Progress(m, g, d)'
  <2>1. log' = Commanded(Lines')[d[0]]
    BY DEF Progress, Lines, hostVars
  <2>2. p' = Read(Ready, u[1 - e[0]])
    BY <1>1, CharacterReads
  <2>3. On(Ready)
    BY ReadyFits DEF JobTypes, On, Fits
  <2>4. Ready' = p'
    BY <2>2, <2>3, ReadOn DEF On, Ready
  <2>5. 1 - e[0] \in 1 .. Len(u) /\ (1 - e[0]) - 1 = 0 - e[0]
    BY <1>7, <1>8
  <2>6. Reads(u)[1 - e[0]] = Read(Reads(u)[0 - e[0]], u[1 - e[0]])
    BY <1>7, <2>5, ReadsOne
  <2>7. 0 - g[0] = 1 - e[0]
    BY <1>2, <1>7, <1>9
  <2>8. Item(d[0], d[1])' = u
    BY <1>0, <1>5
  <2>9. Ready' = Reads(Item(d[0], d[1])')[0 - g[0]]
    BY <1>1, <2>2, <2>4, <2>6, <2>7, <2>8
  <2>a. m # 0
    BY <1>1, <1>2
  <2> QED
    BY <2>1, <2>9, <2>a DEF Progress
<1> QED
  BY <1>b, <1>c

LEMMA FreshIsNothing == Verdict(Fresh) = "PARSER_OK" /\ Command(Fresh) = Nothing
<1>1. Verdict(Fresh) = "PARSER_OK"
  BY DEF Verdict, Fresh
<1>2. Fresh.numbers = <<>> /\ Fresh.codes_seen = {} /\ Fresh.base64_len = 0
  BY DEF Fresh
<1>3. [i \in 1 .. 0 |-> Fresh.base64_bytes[i - 1]] = <<>>
  OBVIOUS
<1> QED
  BY <1>1, <1>2, <1>3 DEF Command, Nothing

(* What main makes of a piece that has been read to its end: the command   *)
(* of the line, if it has one, and an answer that does not ask for it      *)
(* again.                                                                  *)
LEMMA PieceIsExecuted ==
  ASSUME JobsLegible, JobTypes, NEW x \in Nat, NEW y \in {x, x + 1}, y <= Len(Lines),
         Ready = Reads(Item(x, y))[Len(Item(x, y)) - 1],
         log = Commanded(Lines)[x]
  PROVE  LET verdict == Verdict(Ready)
         IN  /\ verdict \in {"PARSER_OK", "PARSER_FORMAT_ERROR"}
             /\ Commanded(Lines)[y] = IF verdict = "PARSER_OK" /\ Command(Ready) # Nothing
                                      THEN Append(log, Command(Ready)) ELSE log
<1>1. CASE y = x
  <2>1. Item(x, y) = <<Newline>> /\ Len(<<Newline>>) = 1
    BY <1>1 DEF Item
  <2>2. Reads(<<Newline>>)[0] = Fresh
    BY ReadsOne
  <2>3. Ready = Fresh
    BY <2>1, <2>2
  <2> QED
    BY <1>1, <2>3, FreshIsNothing
<1>2. CASE y = x + 1
  <2>1. y \in 1 .. Len(Lines) /\ y - 1 = x /\ Len(Lines) \in Nat
    BY <1>2, LinesTyped DEF JobTypes
  <2>2. PICK l : l = Lines[y]
    OBVIOUS
  <2>3. Item(x, y) = Checked(Text(l)) /\ Legible(l)
    BY <1>2, <2>1, <2>2, LinesTyped DEF Item, JobTypes
  <2>4. /\ Verdict(Ready) = IF l.refused THEN "PARSER_FORMAT_ERROR" ELSE "PARSER_OK"
        /\ l.refused \/ Command(Ready) = Meaning(l)
    BY <2>3 DEF Legible
  <2>5. Commanded(Lines)[y] = IF Good(l) THEN Append(log, Meaning(l)) ELSE log
    BY <2>1, <2>2, CommandedOne
  <2>6. CASE l.refused
    BY <2>4, <2>5, <2>6 DEF Good
  <2>7. CASE ~l.refused
    BY <2>4, <2>5, <2>7 DEF Good
  <2> QED
    BY <2>6, <2>7
<1> QED
  BY <1>1, <1>2

(* The last character of a piece is delivered.                             *)
LEMMA PieceEnds ==
  ASSUME JobsLegible, JobTypes, NEW m, NEW e, NEW d, Pieces(m, e, d), Progress(m, e, d),
         wire # <<>>, wire' = Tail(wire), UNCHANGED hostVars,
         LineEnd(Head(wire), {})
  PROVE  /\ \E k, g, h : Pieces(k, g, h)' /\ Progress(k, g, h)'
         /\ \E r : replies' = Append(replies, r) /\ r \in Answers /\ r # "resend!"
<1>0. PICK u : u = Item(d[0], d[1])
  OBVIOUS
<1>1. /\ m >= 1 /\ 0 - e[0] \in 0 .. Len(u) - 1 /\ e[1] = Len(u) + e[0]
      /\ d[0] \in Nat /\ d[1] \in {d[0], d[0] + 1} /\ d[1] <= Len(Lines)
      /\ Whole(u) /\ Head(wire) = u[1 - e[0]] /\ Ready = Reads(u)[0 - e[0]]
  BY <1>0, NextOfPiece
<1>2. /\ m \in Nat /\ e \in [0 .. m -> Int] /\ d \in [0 .. m -> Nat]
      /\ e[m] = Len(wire) /\ d[m] = Begun /\ \A i \in 0 .. m : e[i] <= Len(wire)
  BY DEF Pieces
<1>3. wire \in Seq(Int) /\ Len(wire) \in Nat /\ Len(wire) >= 1
  BY DEF JobTypes
<1>4. Len(wire') = Len(wire) - 1 /\ \A i \in 1 .. Len(wire) - 1 : wire'[i] = wire[i + 1]
  BY <1>3
<1>5. \A x, y : Item(x, y)' = Item(x, y)
  BY DEF Item, hostVars
<1>6. Len(Lines') = Len(Lines) /\ Begun' = Begun /\ Lines' = Lines
  BY DEF Lines, Begun, hostVars
<1>7. Len(u) \in Nat /\ e[0] \in Int
  BY <1>1, <1>2 DEF Whole
<1>8. 1 - e[0] = Len(u) /\ e[1] = 1 /\ 0 - e[0] = Len(u) - 1
  <2>1. Head(wire) = Newline
    BY DEF LineEnd, EndOfLine
  <2>2. 1 - e[0] \notin 1 .. Len(u) - 1
    BY <1>1, <2>1 DEF Whole
  <2> QED
    BY <1>1, <1>7, <2>2
<1>9. PICK k \in Nat : m = k + 1
  <2>1. m - 1 \in Nat /\ m = (m - 1) + 1
    BY <1>1, <1>2
  <2> QED
    BY <2>1
<1> DEFINE g == [i \in 0 .. k |-> e[i + 1] - 1]
           h == [i \in 0 .. k |-> d[i + 1]]
<1>a. /\ g \in [0 .. k -> Int] /\ h \in [0 .. k -> Nat]
      /\ \A i \in 0 .. k : g[i] = e[i + 1] - 1 /\ h[i] = d[i + 1]
  <2>1. \A i \in 0 .. k : i + 1 \in 0 .. m
    BY <1>9
  <2>2. \A i \in 0 .. k : e[i + 1] \in Int /\ d[i + 1] \in Nat
    BY <1>2, <2>1
  <2> QED
    BY <2>2
<1> HIDE DEF g, h
<1>b. ASSUME NEW i \in 1 .. k PROVE Piece(g[i - 1], g[i], h[i - 1], h[i])'
  <2>0. PICK j : j = i + 1
    OBVIOUS
  <2>1. j \in 1 .. m /\ j - 1 = i /\ j - 1 \in 0 .. m /\ j \in 0 .. m /\ j - 1 \in 1 .. m
    BY <1>9, <2>0
  <2>2. PICK v : v = Item(d[j - 1], d[j])
    OBVIOUS
  <2>3. e[j - 1] \in Int /\ e[j] \in Int /\ e[j] <= Len(wire) /\ d[j - 1] \in Nat
    BY <1>2, <2>1
  <2>4. Piece(e[j - 1], e[j], d[j - 1], d[j]) /\ e[j - 1] > 0
    BY <2>1 DEF Pieces, Piece
  <2>5. /\ d[j] \in {d[j - 1], d[j - 1] + 1} /\ d[j] <= Len(Lines)
        /\ e[j] = e[j - 1] + Len(v) /\ e[j] > 0
        /\ \A n \in 1 .. Len(v) : e[j - 1] + n > 0 => wire[e[j - 1] + n] = v[n]
    BY <2>2, <2>4 DEF Piece
  <2>6. Len(v) \in Nat /\ Len(v) >= 1
    <3>1. Whole(Item(d[j - 1], d[j]))
      BY <2>3, <2>5, ItemWhole DEF JobTypes
    <3> QED
      BY <2>2, <3>1 DEF Whole
  <2>7. e[j] - 1 > 0 /\ e[j] - 1 = (e[j - 1] - 1) + Len(v)
    <3>1. e[j] = e[j - 1] + Len(v) /\ e[j - 1] > 0
      BY <2>4, <2>5
    <3> QED
      BY <2>3, <2>6, <3>1
  <2>8. ASSUME NEW n \in 1 .. Len(v), (e[j - 1] - 1) + n > 0
        PROVE  wire'[(e[j - 1] - 1) + n] = v[n]
    <3>1. n \in Int /\ n <= Len(v) /\ Len(v) \in Int /\ e[j - 1] \in Int /\ e[j] <= Len(wire)
          /\ e[j] = e[j - 1] + Len(v)
      BY <2>3, <2>5, <2>6
    <3>2. (e[j - 1] - 1) + n \in Int /\ (e[j - 1] - 1) + n > 0
      BY <2>8, <3>1
    <3>3. ((e[j - 1] - 1) + n) + 1 = e[j - 1] + n
      BY <3>1
    <3>4. (e[j - 1] - 1) + n <= Len(wire) - 1
      BY <1>3, <3>1
    <3>5. (e[j - 1] - 1) + n \in 1 .. Len(wire) - 1
      BY <1>3, <3>2, <3>4
    <3>6. e[j - 1] + n > 0
      BY <2>8, <3>1
    <3>7. wire[e[j - 1] + n] = v[n]
      BY <2>5, <3>6
    <3> QED
      BY <1>4, <3>3, <3>5, <3>7
  <2>9. Item(d[j - 1], d[j])' = v
    BY <1>5, <2>2
  <2>a. Piece(e[j - 1] - 1, e[j] - 1, d[j - 1], d[j])'
    BY <1>6, <2>5, <2>7, <2>8, <2>9 DEF Piece
  <2>b. i \in 0 .. k /\ i - 1 \in 0 .. k /\ (i - 1) + 1 = j - 1 /\ i + 1 = j
    BY <2>0
  <2>c. g[i - 1] = e[j - 1] - 1 /\ g[i] = e[j] - 1 /\ h[i - 1] = d[j - 1] /\ h[i] = d[j]
    BY <1>a, <2>b
  <2> QED
    BY <2>a, <2>c
<1>c. 0 \in 0 .. k /\ k \in 0 .. k /\ 0 + 1 = 1
  OBVIOUS
<1>d. g[0] = 0 /\ h[0] = d[1]
  <2>1. g[0] = e[1] - 1 /\ h[0] = d[1]
    BY <1>a, <1>c
  <2> QED
    BY <1>8, <2>1
<1>e. Pieces(k, g, h)'
  <2>1. g[0] <= 0
    BY <1>d
  <2>2. g[k] = Len(wire') /\ h[k] = Begun'
    BY <1>2, <1>4, <1>6, <1>9, <1>a, <1>c
  <2>3. ASSUME NEW i \in 0 .. k PROVE g[i] <= Len(wire')
    <3>1. i + 1 \in 0 .. m
      BY <1>9
    <3>2. e[i + 1] \in Int /\ e[i + 1] <= Len(wire) /\ g[i] = e[i + 1] - 1
      BY <1>2, <1>a, <3>1
    <3> QED
      BY <1>3, <1>4, <3>2
  <2> QED
    BY <1>9, <1>a, <1>b, <2>1, <2>2, <2>3 DEF Pieces
<1>f. /\ Verdict(Ready) \in {"PARSER_OK", "PARSER_FORMAT_ERROR"}
      /\ Commanded(Lines)[d[1]] = IF Verdict(Ready) = "PARSER_OK" /\ Command(Ready) # Nothing
                                  THEN Append(log, Command(Ready)) ELSE log
  <2>1. log = Commanded(Lines)[d[0]] /\ Ready = Reads(Item(d[0], d[1]))[Len(Item(d[0], d[1])) - 1]
    BY <1>0, <1>1, <1>8 DEF Progress
  <2> QED
    BY <1>1, <2>1, PieceIsExecuted
<1>g. Progress(k, g, h)'
  <2>1. log' = Commanded(Lines')[h[0]]
    BY <1>6, <1>d, <1>f DEF LineEnd
  <2>2. DOMAIN Ready = Names
    BY ReadyFits DEF JobTypes, Fits
  <2>3. p' = Goto(Ready, "INIT_PARSER")
    BY DEF LineEnd, EndOfLine
  <2>4. p'.state = "INIT_PARSER"
    BY <2>2, <2>3, FieldNames DEF Goto
  <2>5. Ready' = Fresh
    BY <2>4 DEF Ready
  <2>6. CASE k = 0
    BY <2>1, <2>5, <2>6 DEF Progress
  <2>7. CASE k # 0
    <3>1. 1 \in 1 .. k /\ 1 - 1 = 0
      BY <2>7
    <3>2. Piece(g[0], g[1], h[0], h[1])'
      BY <1>b, <3>1
    <3>3. h[0] \in Nat /\ h[1] \in {h[0], h[0] + 1} /\ h[1] <= Len(Lines)
      BY <1>6, <1>a, <1>c, <3>2 DEF Piece
    <3>4. Whole(Item(h[0], h[1]))
      BY <3>3, ItemWhole DEF JobTypes
    <3>5. PICK v : v = Item(h[0], h[1])
      OBVIOUS
    <3>6. Reads(v)[0] = Fresh
      BY <3>4, <3>5, ReadsOne DEF Whole
    <3>7. 0 - g[0] = 0 /\ Item(h[0], h[1])' = v
      BY <1>5, <1>d, <3>5
    <3>8. Reads(Item(h[0], h[1])')[0 - g[0]] = Fresh
      BY <3>6, <3>7
    <3> QED
      BY <2>1, <2>5, <2>7, <3>8 DEF Progress
  <2> QED
    BY <2>6, <2>7
<1>h. \E r : replies' = Append(replies, r) /\ r \in Answers /\ r # "resend!"
  <2>1. PICK r \in Reply(Verdict(Ready)) : replies' = Append(replies, r)
    BY DEF LineEnd
  <2>2. r \in {"OK", "OK full", "FORMAT ERROR"}
    BY <1>f, <2>1 DEF Reply
  <2>3. r \in Answers /\ r # "resend!"
    BY <2>2 DEF Answers
  <2> QED
    BY <2>1, <2>3
<1> QED
  BY <1>e, <1>g, <1>h

-----------------------------------------------------------------------------
LEMMA InitJob == ASSUME JobsLegible, Init PROVE JobInv
<1>1. Len(Lines) \in Nat
  BY LinesTyped DEF Init
<1>2. JobTypes
  BY <1>1, InvInit DEF Init, JobTypes
<1>3. wire = <<>> /\ Begun = 0
  BY DEF Init, Begun
<1> DEFINE e == [i \in 0 .. 0 |-> 0]
<1>4. Pieces(0, e, e)
  BY <1>3 DEF Pieces
<1>5. Progress(0, e, e)
  <2>1. Ready = Fresh
    <3>1. p.state = "INIT_PARSER"
      BY FieldNames DEF Init, ParserInit, Names
    <3> QED
      BY <3>1 DEF Ready
  <2>2. Commanded(Lines)[0] = <<>>
    BY <1>1, CommandedOne
  <2> QED
    BY <2>1, <2>2 DEF Progress, Init
<1>6. replies = <<>>
  BY DEF Init
<1> QED
  BY <1>2, <1>4, <1>5, <1>6 DEF JobInv

(* Of a step the types; the rest is a matter of undisturbed lines.         *)
LEMMA NextJobTypes ==
  ASSUME JobsLegible, JobTypes, [Next]_vars
  PROVE  JobTypes'
<1>1. Inv'
  BY InvNext DEF JobTypes
<1>2. job' = job
  BY DEF Next, Probe, SendLine, CheckReply, CheckTornReply, UnpackFails, Answer, Deliver,
         Replace, Lose, Done, hostVars, vars
<1>3. Len(Lines') = Len(Lines) /\ Len(Lines) \in Nat
  BY <1>2, LinesTyped DEF Lines, JobTypes
<1>4. /\ job' \in DOMAIN Jobs /\ wire' \in Seq(Int)
  <2>1. CASE Probe
    <3>1. <<Newline>> \in Seq(Int)
      BY DEF Newline
    <3> QED
      BY <1>2, <2>1, <3>1 DEF Probe, JobTypes
  <2>2. CASE SendLine
    <3>1. line \in 1 .. Len(Lines)
      BY <1>3, <2>2 DEF SendLine, JobTypes
    <3>2. Sent[job][line] \in Seq(Int)
      BY <3>1, LinesTyped DEF Whole, JobTypes
    <3> QED
      BY <1>2, <2>2, <3>2 DEF SendLine, JobTypes
  <2>3. CASE wire # <<>> /\ wire' = Tail(wire)
    BY <1>2, <2>3 DEF JobTypes
  <2>4. CASE wire' = wire
    BY <1>2, <2>4 DEF JobTypes
  <2> QED
    BY <2>1, <2>2, <2>3, <2>4
       DEF Next, CheckReply, CheckTornReply, UnpackFails, Deliver, Replace, Lose, Done, vars
<1>5. line' \in 1 .. Len(Lines') + 1 /\ host' \in {"send", "probing", "waiting"}
      /\ (host' = "waiting" => line' <= Len(Lines'))
  <2>1. line \in Nat /\ line >= 1 /\ line <= Len(Lines) + 1
    BY <1>3 DEF JobTypes
  <2>2. CASE Probe \/ SendLine
    BY <1>3, <2>1, <2>2 DEF Probe, SendLine
  <2>3. ASSUME NEW r, Answer(r) PROVE line' \in 1 .. Len(Lines) + 1 /\ host' = "send"
    <3>1. host' = "send"
      BY <2>3, Zenon DEF Answer
    <3>2. (host = "waiting" /\ line' = line + 1) \/ line' = line
      BY <2>3, Zenon DEF Answer
    <3>3. host = "waiting" => line <= Len(Lines)
      BY DEF JobTypes
    <3> QED
      BY <1>3, <2>1, <3>1, <3>2, <3>3
  <2>4. CASE CheckReply \/ CheckTornReply
    BY <1>3, <2>3, <2>4 DEF CheckReply, CheckTornReply
  <2>5. CASE line' = line /\ host' = host
    BY <1>3, <2>5 DEF JobTypes
  <2> QED
    BY <2>2, <2>4, <2>5 DEF Next, UnpackFails, Deliver, Replace, Lose, Done, hostVars, vars
<1>6. replies' \in Seq(Answers)
  <2>0. replies \in Seq(Answers) /\ Len(replies) \in Nat
    BY DEF JobTypes
  <2>1. CASE CheckReply
    <3>1. PICK n \in 1 .. Len(replies) : replies' = SubSeq(replies, n + 1, Len(replies))
      BY <2>1 DEF CheckReply
    <3> QED
      BY <2>0, <3>1
  <2>2. CASE CheckTornReply
    <3>1. PICK n \in 1 .. Len(replies) - 1 :
            replies' = <<"torn">> \o SubSeq(replies, n + 2, Len(replies))
      BY <2>2 DEF CheckTornReply
    <3>2. SubSeq(replies, n + 2, Len(replies)) \in Seq(Answers)
      BY <2>0
    <3>3. <<"torn">> \in Seq(Answers)
      BY DEF Answers
    <3> QED
      BY <3>1, <3>2, <3>3
  <2>3. ASSUME NEW c, NEW kind, Receive(c, kind) PROVE replies' \in Seq(Answers)
    <3>1. CASE Within(c, kind)
      <4>1. PICK r : r = "FORMAT ERROR"
        OBVIOUS
      <4>2. replies' = replies \/ replies' = Append(replies, r)
        BY <3>1, <4>1, Zenon DEF Within
      <4>3. r \in Answers
        BY <4>1 DEF Answers
      <4> QED
        BY <2>0, <4>2, <4>3
    <3>2. CASE LineEnd(c, kind)
      <4>1. PICK r \in Reply(Verdict(Ready)) : replies' = Append(replies, r)
        BY <3>2 DEF LineEnd
      <4>2. Verdict(Ready) \in {"PARSER_CHECKSUM_ERROR", "PARSER_FORMAT_ERROR", "PARSER_OK"}
        BY DEF Verdict
      <4>3. r \in {"resend!", "OK", "OK full", "FORMAT ERROR"}
        BY <4>1, <4>2 DEF Reply
      <4>4. r \in Answers
        BY <4>3 DEF Answers
      <4> QED
        BY <2>0, <4>1, <4>4
    <3> QED
      BY <2>3, <3>1, <3>2 DEF Receive
  <2>4. CASE Deliver \/ Replace
    BY <2>3, <2>4 DEF Deliver, Replace
  <2>5. CASE replies' = replies
    BY <2>0, <2>5
  <2> QED
    BY <2>1, <2>2, <2>4, <2>5 DEF Next, Probe, SendLine, UnpackFails, Lose, Done, vars
<1> QED
  BY <1>1, <1>4, <1>5, <1>6 DEF JobTypes

LEMMA NextJob ==
  ASSUME JobsLegible, JobInv, [Next]_vars
  PROVE  JobInv'
<1>1. JobTypes /\ JobTypes'
  BY NextJobTypes DEF JobInv
<1>2. Undisturbed' => Undisturbed /\ ~Replace /\ ~Lose
  <2>1. trouble \subseteq trouble'
    BY DEF Next, Probe, SendLine, CheckReply, CheckTornReply, UnpackFails, Deliver, Replace, Lose,
           Done, vars, Receive, Within, LineEnd
  <2>2. CASE Replace
    <3>1. PICK d : Receive(d, {Kind(Head(wire), d)})
      BY <2>2 DEF Replace
    <3>2. Kind(Head(wire), d) \in trouble'
      BY <3>1 DEF Receive, Within, LineEnd
    <3>3. Kind(Head(wire), d) \notin {"format", "torn", "died"}
      BY DEF Kind
    <3> QED
      BY <2>1, <3>2, <3>3 DEF Undisturbed
  <2>3. CASE Lose
    BY <2>1, <2>3 DEF Lose, Undisturbed
  <2> QED
    BY <2>1, <2>2, <2>3 DEF Undisturbed
<1> SUFFICES ASSUME Undisturbed'
             PROVE  /\ \A i \in 1 .. Len(replies') : replies'[i] # "resend!"
                    /\ \E m, e, d : Pieces(m, e, d)' /\ Progress(m, e, d)'
  BY <1>1 DEF JobInv
<1>3. \A i \in 1 .. Len(replies) : replies[i] # "resend!"
  BY <1>2 DEF JobInv
<1>4. PICK m, e, d : Pieces(m, e, d) /\ Progress(m, e, d)
  BY <1>2 DEF JobInv
<1>5. replies \in Seq(Answers) /\ Len(replies) \in Nat
  BY <1>1 DEF JobTypes
<1>6. d[m] = Begun /\ Len(Lines) \in Nat /\ line \in 1 .. Len(Lines) + 1
  BY <1>1, <1>4, LinesTyped DEF Pieces, JobTypes
<1>7. ASSUME UNCHANGED <<p, wire, log, job>>, Begun' = Begun
      PROVE  \E k, g, h : Pieces(k, g, h)' /\ Progress(k, g, h)'
  <2>1. Lines' = Lines /\ Ready' = Ready /\ \A x, y : Item(x, y)' = Item(x, y)
    BY <1>7 DEF Lines, Ready, Item
  <2>2. \A b, f, x, y : Piece(b, f, x, y)' = Piece(b, f, x, y)
    BY <1>7, <2>1 DEF Piece
  <2>3. Pieces(m, e, d)'
    BY <1>4, <1>7, <2>2 DEF Pieces
  <2>4. Progress(m, e, d)'
    BY <1>4, <1>7, <2>1 DEF Progress
  <2> QED
    BY <2>3, <2>4
<1>8. CASE Probe
  <2>1. Begun' = d[m] /\ d[m] <= Len(Lines)
    BY <1>6, <1>8 DEF Probe, Begun
  <2>2. wire' = wire \o Item(d[m], d[m])
    BY <1>8 DEF Probe, Item
  <2>3. UNCHANGED <<p, job, log, replies>>
    BY <1>8 DEF Probe
  <2>4. \E k, g, h : Pieces(k, g, h)' /\ Progress(k, g, h)'
    BY <1>1, <1>4, <2>1, <2>2, <2>3, AddPiece
  <2> QED
    BY <1>3, <2>3, <2>4
<1>9. CASE SendLine
  <2>1. d[m] = line - 1 /\ Begun' = d[m] + 1 /\ d[m] + 1 <= Len(Lines) /\ d[m] + 1 = line
        /\ d[m] # line
    BY <1>6, <1>9 DEF SendLine, Begun
  <2>2. wire' = wire \o Item(d[m], d[m] + 1)
    BY <1>9, <2>1 DEF SendLine, Item
  <2>3. UNCHANGED <<p, job, log, replies>>
    BY <1>9 DEF SendLine
  <2>4. \E k, g, h : Pieces(k, g, h)' /\ Progress(k, g, h)'
    BY <1>1, <1>4, <2>1, <2>2, <2>3, AddPiece
  <2> QED
    BY <1>3, <2>3, <2>4
<1>a. ASSUME NEW r, Answer(r), r # "resend!", host \in {"probing", "waiting"}
      PROVE  Begun' = Begun /\ job' = job
  <2>0. job' = job
    BY <1>a, Zenon DEF Answer
  <2>1. CASE host = "waiting"
    <3>1. line' = line + 1 /\ host' = "send"
      BY <1>a, <2>1, Zenon DEF Answer, Again
    <3> QED
      <4>1. Begun = line /\ Begun' = line' - 1
        BY <2>1, <3>1, Zenon DEF Begun
      <4>2. line \in Int
        BY <1>6
      <4> QED
        BY <2>0, <3>1, <4>1, <4>2
  <2>2. CASE host = "probing"
    <3>1. line' = line /\ host' = "send"
      <4>1. host # "waiting"
        BY <2>2
      <4> QED
        BY <1>a, <4>1, Zenon DEF Answer
    <3> QED
      <4>1. Begun = line - 1 /\ Begun' = line' - 1
        BY <2>2, <3>1, Zenon DEF Begun
      <4> QED
        BY <2>0, <3>1, <4>1
  <2> QED
    BY <1>a, <2>1, <2>2
<1>b. CASE CheckReply
  <2>1. PICK n \in 1 .. Len(replies) :
          Answer(replies[n]) /\ replies' = SubSeq(replies, n + 1, Len(replies))
    BY <1>b DEF CheckReply
  <2>2. Begun' = Begun /\ job' = job
    BY <1>3, <1>a, <1>b, <2>1 DEF CheckReply
  <2>3. \A i \in 1 .. Len(replies') : replies'[i] # "resend!"
    BY <1>3, <1>5, <2>1
  <2> QED
    BY <1>7, <1>b, <2>2, <2>3 DEF CheckReply
<1>c. CASE CheckTornReply
  <2>1. PICK n \in 1 .. Len(replies) - 1 :
          replies' = <<"torn">> \o SubSeq(replies, n + 2, Len(replies))
    BY <1>c DEF CheckTornReply
  <2>2. Begun' = Begun /\ job' = job
    <3>1. PICK k \in 1 .. Len(replies) - 1 : \E r \in Torn(replies[k + 1]) : Answer(r)
      BY <1>c DEF CheckTornReply
    <3>2. replies[k + 1] # "resend!"
      BY <1>3, <1>5, <3>1
    <3>3. PICK r \in Torn(replies[k + 1]) : Answer(r)
      BY <3>1
    <3>4. r # "resend!"
      BY <3>2, <3>3 DEF Torn
    <3> QED
      BY <1>a, <1>c, <3>3, <3>4 DEF CheckTornReply
  <2>3. \A i \in 1 .. Len(replies') : replies'[i] # "resend!"
    <3>1. PICK rest : rest = SubSeq(replies, n + 2, Len(replies))
      OBVIOUS
    <3>2. rest \in Seq(Answers) /\ \A i \in 1 .. Len(rest) : rest[i] # "resend!"
      BY <1>3, <1>5, <3>1
    <3>3. replies' = <<"torn">> \o rest
      BY <2>1, <3>1
    <3> QED
      BY <3>2, <3>3
  <2> QED
    BY <1>7, <1>c, <2>2, <2>3 DEF CheckTornReply
<1>d. CASE Deliver
  <2>1. wire # <<>> /\ wire' = Tail(wire) /\ UNCHANGED hostVars
    BY <1>d DEF Deliver
  <2>2. CASE Within(Head(wire), {})
    <3>1. NextChar(Head(wire)) /\ UNCHANGED log
      BY <2>2 DEF Within
    <3>2. \A i \in 1 .. Len(replies') : replies'[i] # "resend!"
      <4>1. PICK r : r = "FORMAT ERROR"
        OBVIOUS
      <4>2. replies' = replies \/ replies' = Append(replies, r)
        BY <2>2, <4>1, Zenon DEF Within
      <4>3. r # "resend!"
        BY <4>1
      <4>4. CASE replies' = replies
        BY <1>3, <4>4
      <4>5. CASE replies' = Append(replies, r)
        BY <1>3, <1>5, <4>3, <4>5
      <4> QED
        BY <4>2, <4>4, <4>5
    <3>3. \E k, g, h : Pieces(k, g, h)' /\ Progress(k, g, h)'
      BY <1>1, <1>4, <2>1, <3>1, PieceGoesOn
    <3> QED
      BY <3>2, <3>3
  <2>3. CASE LineEnd(Head(wire), {})
    <3>1. /\ \E k, g, h : Pieces(k, g, h)' /\ Progress(k, g, h)'
          /\ \E r : replies' = Append(replies, r) /\ r \in Answers /\ r # "resend!"
      BY <1>1, <1>4, <2>1, <2>3, PieceEnds
    <3>2. \A i \in 1 .. Len(replies') : replies'[i] # "resend!"
      BY <1>3, <1>5, <3>1
    <3> QED
      BY <3>1, <3>2
  <2> QED
    BY <1>d, <2>2, <2>3 DEF Deliver, Receive
<1>e. CASE UnpackFails \/ UNCHANGED vars
  <2>1. UNCHANGED <<p, wire, log, job, replies>> /\ Begun' = Begun
    BY <1>e DEF UnpackFails, vars, hostVars, Begun
  <2> QED
    BY <1>3, <1>7, <2>1
<1> QED
  BY <1>2, <1>8, <1>9, <1>b, <1>c, <1>d, <1>e DEF Next, Done

LEMMA JobIsExecuted == ASSUME JobsLegible, JobInv PROVE ExecutesJob
<1> SUFFICES ASSUME Undisturbed
             PROVE  IsPrefix(log, Commands(Lines)) /\ (Finished => log = Commands(Lines))
  BY DEF ExecutesJob, Undisturbed
<1>1. PICK m, e, d : Pieces(m, e, d) /\ Progress(m, e, d)
  BY DEF JobInv
<1>2. /\ m \in Nat /\ d \in [0 .. m -> Nat] /\ e[m] = Len(wire) /\ d[m] = Begun
      /\ log = Commanded(Lines)[d[0]]
  BY <1>1 DEF Pieces, Progress
<1>3. Len(Lines) \in Nat /\ line \in 1 .. Len(Lines) + 1 /\ (host = "waiting" => line <= Len(Lines))
  BY LinesTyped DEF JobInv, JobTypes
<1>4. d[0] \in 0 .. Len(Lines)
  <2>1. CASE m = 0
    BY <1>2, <1>3, <2>1 DEF Begun
  <2>2. CASE m # 0
    <3>1. 1 \in 1 .. m /\ 1 - 1 = 0 /\ d[0] \in Nat
      BY <1>2, <2>2
    <3>2. d[1] \in {d[0], d[0] + 1} /\ d[1] <= Len(Lines)
      BY <1>1, <3>1 DEF Pieces, Piece
    <3> QED
      BY <1>3, <3>1, <3>2
  <2> QED
    BY <2>1, <2>2
<1>5. IsPrefix(log, Commands(Lines))
  BY <1>2, <1>3, <1>4, CommandedGrows
<1>6. ASSUME Finished PROVE log = Commands(Lines)
  <2>1. line = Len(Lines) + 1 /\ wire = <<>> /\ host # "waiting"
    BY <1>3, <1>6 DEF Finished
  <2>2. m = 0
    <3> SUFFICES ASSUME m # 0 PROVE FALSE
      OBVIOUS
    <3>1. m \in 1 .. m
      BY <1>2
    <3>2. e[m] > 0
      BY <1>1, <3>1 DEF Pieces, Piece
    <3> QED
      BY <1>2, <2>1, <3>2
  <2>3. d[0] = Len(Lines)
    BY <1>2, <1>3, <2>1, <2>2 DEF Begun
  <2> QED
    BY <1>2, <2>3 DEF Commands
<1> QED
  BY <1>5, <1>6

(* On an undisturbed line every job whose lines, each alone, are read as   *)
(* what they mean is executed in order, each command once: whatever the    *)
(* lines before left in the parser, however many lines are under way, and  *)
(* however late, in what portions or how torn the host reads the answers   *)
(* (pysend.py:14-60, main.c:113-140, parser.c:190-258).                    *)
THEOREM JobExecuted == JobsLegible => (Spec => []ExecutesJob)
<1> SUFFICES ASSUME JobsLegible PROVE Spec => []ExecutesJob
  OBVIOUS
<1>1. Init => JobInv
  BY InitJob
<1>2. JobInv /\ [Next]_vars => JobInv'
  BY NextJob
<1>3. JobInv => ExecutesJob
  BY JobIsExecuted
<1> QED
  BY <1>1, <1>2, <1>3, PTL DEF Spec
=============================================================================
