---------------------------- MODULE MCCallQueue -----------------------------
(* One Core, with room for a pass that starts during another.               *)
EXTENDS CallQueue, TLC

CONSTANTS p1, p2, core1

OneCore == p1 :> core1 @@ p2 :> core1
=============================================================================
