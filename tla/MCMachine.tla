------------------------------ MODULE MCMachine ------------------------------
(***************************************************************************)
(* Small machines.  Two axes home towards opposite ends, as X and Y of the *)
(* firmware do.  Targets are chosen so that no job is a single step long:  *)
(* such a job loses its step: its counter starts at -(1 \div 2) = 0.       *)
(***************************************************************************)
EXTENDS Machine

MCW == 16777216

XY == {"X", "Y"}
X  == {"X"}

DirXY    == [a \in XY |-> IF a = "X" THEN -1 ELSE 1]
SwitchXY == [a \in XY |-> IF a = "X" THEN -1 ELSE 4]
At(x, y) == [a \in XY |-> IF a = "X" THEN x ELSE y]
(* In the middle, or with both switches closed. *)
StartXY  == {At(0, 0), At(-2, 4)}
TargetsXY == {At(0, 0), At(3, 2), At(5, 5)}
HomeXY    == {{"X"}, XY}

DirX    == [a \in X |-> -1]
SwitchX == [a \in X |-> -2]
StartX  == {[a \in X |-> 0]}
TargetsX == {[a \in X |-> x] : x \in {0, 2, 5}}
HomeX    == {X}

Laser(mode, pulses, us) == [mode |-> mode, pulses |-> pulses, us |-> us, power |-> 1000]

NoLaserOptions == {[mode |-> OFF, pulses |-> 0, us |-> 1000, power |-> 0]}

(* Continuous, pulsed, both at once; and with home moves in between also   *)
(* dark, and too long a pulse.                                             *)
AnyMode ==
  {Laser({"CW"}, 2, 1000), Laser({"PULSE"}, 2, 1000), Laser({"CW", "PULSE"}, 1, 1000)}
AtHome  ==
  {Laser({"CW"}, 2, 1000), Laser({"PULSE"}, 1, 4194304), Laser(OFF, 0, 1000)}

(* Raster lines, one pulse per byte. *)
Rasters == {Laser({"CW", "MODULATE"}, 2, 0), Laser({"PULSE", "MODULATE"}, 1, 512)}

(* Hosts that move, that fire in every mode, that home in between, and that *)
(* send raster lines.                                                     *)
Host(commands, options) == [commands |-> commands, options |-> options]
MovingHost == Host({"move", "spindle", "options", "line", "home", "set_position", "wait"},
                   NoLaserOptions)
FiringHost == Host({"move", "line", "pulse"}, AnyMode)
HomingHost == Host({"line", "home"}, AtHome)
RasterHost == Host({"move", "line", "wait"}, Rasters)
MotionHosts == {MovingHost}
LaserHosts  == {FiringHost, HomingHost, RasterHost}
==============================================================================
