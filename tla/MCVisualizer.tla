----------------------------- MODULE MCVisualizer -----------------------------
(* A small instance of Visualizer: chunks of one unit of time, or two at the *)
(* highest speed, a user who presses the play button up to three times and   *)
(* changes the speed or moves the pointer once, one pause.                   *)
EXTENDS Visualizer
=============================================================================
