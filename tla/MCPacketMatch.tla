---------------------------- MODULE MCPacketMatch ----------------------------
(* Values for the constants of PacketMatch.                                *)
EXTENDS PacketMatch

MCCharacter == {Hex[d] : d \in 1..16} \union Special \union {"+"}

Comments == [kind : {"comment"}, text : {<<>>, <<"sp", "0", "1", "+">>}]

Blanks == [kind : {"blank"}, text : {<<>>, <<"sp", "sp">>}]

\* Who writes blanks also writes bytes of one digit.
Patterns == {p \in [kind : {"pattern"}, bytes : {<<31>>, <<1, 31>>, <<31, 1, 2>>},
                    prefix : BOOLEAN, short : BOOLEAN, pad : {<<>>, <<"sp">>}] :
                p.pad = <<>> \/ p.short}

Addresses == [kind : {"address"}, text : {<<"1", "f">>, <<"1", "0", "+">>},
              pad : {<<>>, <<"sp">>}]

Sheets(items) == UNION {[1..n -> items] : n \in 0..3}

MCFiles == Sheets(Comments \union Blanks \union Patterns)
           \union Sheets(Comments \union Blanks \union Addresses)

MCOld == <<[chr |-> <<1, 1>>, startswith |-> TRUE]>>

\* No hand above writes a tab behind a blank: strtoul skips it.
ASSUME TabSkipped == ByteOf(<<"tab", "1", "f">>) = 31 /\ ByteOf(<<"tab", "+", "2", "tab">>) = 2

\* The buffer holds three bytes; -1 is the largest length.
MCPackets == [buffer : [1..3 -> {1, 2, 31}], len : {0, 1, 2, 3, 1000000}]
=============================================================================
