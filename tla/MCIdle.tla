------------------------------- MODULE MCIdle --------------------------------
(* A timer of four counts, two rounds to a millisecond, a tenth of a       *)
(* second of two milliseconds and a second of four, on three seconds.      *)
EXTENDS Idle

MCLevels == <<"10MS", "100MS", "1S">>
MCRadix  == <<1, 2, 2>>

Screen(mark, queue, time, x, y, z, mode, power) ==
  [mark |-> mark, queue |-> queue, time |-> time, x |-> x, y |-> y, z |-> z,
   mode |-> mode, depth |-> 8, power |-> power]

MCTour == <<
  Screen(73, 0, 0, 0, 0, 0, 0, 100),
  Screen(76, 5, 999, -12345, 12345, -5001, 1, 0),
  Screen(68, 15, 4294967, 310000, 99999, -999, 5, 1000),
  Screen(83, 10, 60000, -1, 1000, 100, 0, 100),
  Screen(76, 1, 1, 100, 310000, -75000, 2, 5)>>

MCDurations == {1, 4095, 4096, 32767, 32768, 262143, 262144, 1048575, 1048576, 4194303, 4194304}
==============================================================================
