----------------------------- MODULE MCEventQueue -----------------------------
(* A small instance of EventQueue: four events, now or one unit later.       *)
EXTENDS EventQueue
=============================================================================
