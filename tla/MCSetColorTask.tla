--------------------------- MODULE MCSetColorTask ---------------------------
(* Small instances of SetColorTask for TLC                                 *)
EXTENDS SetColorTask

(* Well formed, too long for one LED, and broken between two colours       *)
Commands == { <<1>>, <<1, 2>>, <<2, 0, 1>> }
=============================================================================
