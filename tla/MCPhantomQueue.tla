--------------------------- MODULE MCPhantomQueue ---------------------------
(* A small instance of PhantomQueue: packets of 2 and 4 bytes with 1 byte   *)
(* of overhead, a link of 3 bytes per tick and a virtual queue of 2.        *)
EXTENDS PhantomQueue
=============================================================================
