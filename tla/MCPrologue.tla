----------------------------- MODULE MCPrologue -----------------------------
(* Values for the constants of Prologue.                                   *)
EXTENDS Prologue

I(form, len, ends) == [form |-> form, len |-> len, ends |-> ends]

\* push, mov edi edi, sub esp ib, mov, mov id, ..., and the longest there is
Plain == {I("plain", n, FALSE) : n \in {1, 2, 3, 4, 5, 7, 8, 11, 15}}

Jumps == {I("jmp8", 2, TRUE), I("jcc8", 2, FALSE), I("rel32", 5, FALSE),
          I("rel32", 5, TRUE), I("rel32", 6, FALSE), I("plain", 1, TRUE)}

\* loop, loopne, which is taken for the end of a function; a jump and a
\* conditional one behind an operand-size prefix
CanBeCut == {I("loop8", 2, FALSE), I("loop8", 2, TRUE),
             I("rel16", 4, FALSE), I("rel16", 5, FALSE)}

Movable == Plain \union Jumps \union CanBeCut

\* With the trampoline at 32700, the first is out of reach of 16 bits.
Near == {-128, -5, 127}

Paddings == 1..11
=============================================================================
