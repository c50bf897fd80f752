------------------------------ MODULE MCMotion ------------------------------
(* Values of the constants for the motion runs: the velocities and jogs a      *)
(* host may ask for, the axes it addresses and the lower end of the counted   *)
(* position.  The upper end, PositionMax, is a number in each configuration.  *)
EXTENDS MotionProperties
Velocities3 == {-3, 0, 3}
Velocities2 == {-2, 2}
TwoWay == {-1, 1}
OneWay == {-1}
Jogs == {-2, 1, 3}
OneJog == {-1}
TiltOnly == {"TILT"}
BothAxes == {"PAN", "TILT"}
Far == -100
Low == -8
Near == -3
=============================================================================
