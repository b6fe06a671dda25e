---------------------------- MODULE MCJobControl ----------------------------
(* The shell of lab 5 on small sessions.                                    *)
EXTENDS JobControl
==============================================================================
