---------------------------- MODULE MCTestRunner ----------------------------
(* A small instance of TestRunner: two workers; the first two of four jobs  *)
(* are suites, one of the examples is skipped.                              *)
EXTENDS TestRunner

CONSTANTS w1, w2
=============================================================================
