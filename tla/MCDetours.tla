----------------------------- MODULE MCDetours -----------------------------
(* Values for the constants of Detours.                                    *)
EXTENDS Detours

CONSTANT page

\* The functions lie on one page, whose protection each operation saves.
OnePage == [f \in Func |-> page]
=============================================================================
