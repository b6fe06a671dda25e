----------------------------- MODULE MCCalculator -----------------------------
(* The calculator with a stack of two numbers of at most four digits. *)
EXTENDS Calculator
===============================================================================
