----------------------- MODULE MCLightpackApplication -----------------------
(* Two colours for the model checker, and a bound on where they vary.      *)
EXTENDS LightpackApplication

First == CHOOSE c \in Color : TRUE

(* The colours differ where the lamp is constant.  Elsewhere the constant  *)
(* one is set and only the liquid lamp shows the other; with the grabbers  *)
(* of Windows, whose runs ask for nothing but the sources, no lamp is      *)
(* liquid.                                                                 *)
Bounded ==
  IF windows
  THEN ~liquid /\ color = First
  ELSE color = First \/ (mode = "MoodLamp" /\ ~liquid)
=============================================================================
