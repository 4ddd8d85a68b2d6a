------------------------------- MODULE MCGcode -------------------------------
(* Commands as a job mixes them, within 45 mm: further, squares would not  *)
(* fit the model's integers.                                               *)
EXTENDS Gcode, TLC

Cmd(op, words) == [op |-> op, words |-> words]
X(n) == "X" :> n
Y(n) == "Y" :> n
Z(n) == "Z" :> n

MCMoves == {
  Cmd("G0", X(45000) @@ Z(500)),
  Cmd("G0", X(-731) @@ Y(2501) @@ "F" :> 12000000),
  Cmd("G0", Z(5)),
  Cmd("G1", X(13)),
  Cmd("G1", X(1003) @@ Y(-3001) @@ "S" :> 42500 @@ "F" :> 900000),
  Cmd("G1", Y(4000) @@ "P" :> 20000),
  Cmd("G1", X(400) @@ "Q" :> 7000 @@ "F" :> 1) }

MCArcs == {
  Cmd("G2", X(3000) @@ Y(1000) @@ "R" :> 5000),
  Cmd("G3", X(-2000) @@ Y(700) @@ "R" :> 2000),
  Cmd("G2", X(1400) @@ Y(-900) @@ "R" :> (-4000) @@ "S" :> 2000000),
  Cmd("G3", Y(2000) @@ "R" :> (-3000) @@ "L" :> 2000),
  Cmd("G3", X(8000) @@ "R" :> 100),
  Cmd("G2", "R" :> 1000),
  Cmd("G2", X(1000) @@ Z(1000) @@ "I" :> 500) }

MCModes == {
  Cmd("G20", <<>>), Cmd("G21", <<>>), Cmd("G90", <<>>), Cmd("G91", <<>>),
  Cmd("G28", <<>>), Cmd("G28", X(Bare)), Cmd("G28", Y(50)), Cmd("G28", Z(Bare)),
  Cmd("G92", X(0) @@ Y(9)), Cmd("G92", Z(100) @@ "F" :> 3000000),
  Cmd("M2", <<>>), Cmd("M3", <<>>), Cmd("M3", "P" :> 5000 @@ "C" :> 2000), Cmd("M5", <<>>),
  Cmd("M649", "S" :> 10000 @@ "L" :> (-500) @@ "P" :> 12000 @@ "Q" :> 3000),
  Cmd("M649", "B" :> 6000 @@ "C" :> 8000), Cmd("M649", "B" :> 256000),
  Cmd("M649", "C" :> 5000), Cmd("other", "F" :> (-300)) }

MCCommands == MCMoves \cup MCArcs \cup MCModes

MCUnknown == {-1, 0}
MCHomePos == [X |-> -900, Y |-> 2410]
==============================================================================
