--------------------------- MODULE MCHeapScheduler ---------------------------
(* A small instance of HeapScheduler: a heap of four levels, two times.     *)
EXTENDS HeapScheduler
=============================================================================
