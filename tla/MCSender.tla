------------------------------ MODULE MCSender ------------------------------
(* Jobs of up to three short lines.  A word is 16 bits and one digit after *)
(* the point is kept, so 3276.7 is the largest number that fits, as        *)
(* 2147483.647 is in the firmware.                                         *)
EXTENDS ParserProofs

(* The text of a word: its letter, sign, digits, and digits after a point. *)
Sign(neg) == IF neg THEN <<Minus>> ELSE <<>>
Numerals(ds) == [i \in DOMAIN ds |-> Numeral(ds[i])]
Fraction(ds) == IF ds = <<>> THEN <<>> ELSE <<Dot>> \o Numerals(ds)
WordText(l, neg, ds, fs) == <<65 + l>> \o Sign(neg) \o Numerals(ds) \o Fraction(fs)

(* The number it stands for, in tenths: further digits do not count. *)
Value[ds \in Seq(0 .. 9)] == IF ds = <<>> THEN 0 ELSE 10 * Value[Front(ds)] + Last(ds)
Tenths(neg, ds, fs) ==
  LET n == 10 * Value[ds] + (IF fs = <<>> THEN 0 ELSE Head(fs)) IN IF neg THEN -n ELSE n

Line(text, numbers, codes, bytes, refused) ==
  [text |-> text, numbers |-> numbers, codes |-> codes, bytes |-> bytes, refused |-> refused]

Word(l, neg, ds, fs, rest) ==
  Line(WordText(l, neg, ds, fs) \o rest, l :> Tenths(neg, ds, fs), {l}, <<>>, FALSE)

(* Two words; the second one has no number, or follows a comment. *)
Words(gap, l, ds) ==
  Line(WordText(6, FALSE, <<1>>, <<>>) \o gap \o WordText(l, FALSE, ds, <<>>),
       (6 :> 10) @@ (IF ds = <<>> THEN <<>> ELSE l :> Tenths(FALSE, ds, <<>>)),
       {6, l}, <<>>, FALSE)

(* The base64 text of bytes, the reference for the parser's decoding. *)
Alphabet(n) == IF n < 26 THEN 65 + n ELSE IF n < 52 THEN 71 + n
               ELSE IF n < 62 THEN n - 4 ELSE IF n = 62 THEN Plus ELSE Slash
Sextets(bs) ==
  LET n == 65536 * bs[1] + 256 * bs[2] + bs[3]
  IN  <<n \div 262144, (n \div 4096) % 64, (n \div 64) % 64, n % 64>>
Triple(bs) ==
  LET full == bs \o [i \in 1 .. 3 - Len(bs) |-> 0]
      four == [k \in 1 .. 4 |-> Alphabet(Sextets(full)[k])]
  IN  [k \in 1 .. 4 |-> IF k > Len(bs) + 1 THEN Equal ELSE four[k]]
Base64[bs \in Seq(Byte)] ==
  IF Len(bs) <= 3 THEN Triple(bs)
  ELSE Triple(SubSeq(bs, 1, 3)) \o Base64[SubSeq(bs, 4, Len(bs))]

Raster(bs) == Line(<<Dollar>> \o Base64[bs], <<>>, {}, bs, FALSE)
Unpadded(l) == [l EXCEPT !.text = SelectSeq(@, LAMBDA c : c # Equal)]
Bad(text)  == Line(text, <<>>, {}, <<>>, TRUE)
Blank      == Line(<<>>, <<>>, {}, <<>>, FALSE)

G1    == Word(6, FALSE, <<1>>, <<>>, <<>>)
Short == Raster(<<3, 77>>)
Full  == Raster(<<255, 129, 6, 165>>)
Bare  == Unpadded(Raster(<<250>>))

MCJobs ==
  << <<Full, Short>>,
     <<Short, G1, Bare>>,
     <<Words(<<Space>>, 23, <<7, 0>>), Words(<<Open, 65, Close>>, 24, <<>>)>>,
     <<Word(23, TRUE, <<1, 2>>, <<3, 4>>, <<Space, Semicolon>>), Blank, Short>>,
     <<Word(23, FALSE, <<3, 2, 7, 6>>, <<7, 9>>, <<>>), Word(24, TRUE, <<0, 0, 0, 5>>, <<1>>, <<>>)>>,
     <<Bad(<<71, 49, 71>>), Short, G1>> >>

(* The theorem that such jobs are executed is about the jobs of the run.   *)
ASSUME LinesAreLegible == JobsLegible

MCNoise == {Newline, Return, Space, Star, Dollar, Equal, Quote, Open, Minus, 48, 65}
=============================================================================
