------------------------------ MODULE MCHistory ------------------------------
(* Values for the constants of History.                                    *)
EXTENDS MCItSavar, History
=============================================================================
