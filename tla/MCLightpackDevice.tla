------------------------- MODULE MCLightpackDevice -------------------------
(* Small instances of LightpackDevice for TLC                              *)
EXTENDS LightpackDevice

CONSTANTS p1, p2, a1, a2

OnePort  == <<p1>>
TwoPorts == <<p1, p2>>

OneSetting == {"slowdown"}

(* One full part, and two parts of which the second is short               *)
Pictures == {[parts |-> n, short |-> n = 2, dark |-> FALSE] : n \in 1..2}
=============================================================================
