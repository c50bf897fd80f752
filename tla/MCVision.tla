------------------------------- MODULE MCVision -------------------------------
(***************************************************************************)
(* Values for checking VisionService: four detections, and frames in which *)
(* the best one is first, last, tied, of another class or too uncertain.   *)
(***************************************************************************)
EXTENDS VisionService

Detection(class, confidence, pan) ==
    [class |-> class, confidence |-> confidence, pan |-> pan, tilt |-> 0]

Centred == Detection("mouse", 2, 0)
Aside   == Detection("mouse", 1, 2)
Faint   == Detection("mouse", 0, 0)
Other   == Detection("cat", 3, 0)

SomeDetections == {Centred, Aside, Faint, Other}
SomeFrames == {<<Centred, Aside>>, <<Other, Aside, Centred>>, <<Aside, Faint>>,
               <<Faint, Other>>}
=============================================================================
