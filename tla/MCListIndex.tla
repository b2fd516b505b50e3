----------------------------- MODULE MCListIndex -----------------------------
(* Values for the constants of ListIndex.                                  *)
EXTENDS MCItSavar, ListIndex
=============================================================================
