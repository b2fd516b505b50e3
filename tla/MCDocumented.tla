---------------------------- MODULE MCDocumented ----------------------------
(* Values for the constants of Documented.                                 *)
EXTENDS MCItSavar, Documented
=============================================================================
