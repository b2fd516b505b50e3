----------------------------- MODULE MCClockSet -----------------------------
(* Values for the constants of ClockSet.                                   *)
EXTENDS MCItSavar, ClockSet
=============================================================================
