----------------------------- MODULE PacketMatch -----------------------------
(***************************************************************************)
(* The files of packets and of addresses: how ParseBlocks and ParseLines   *)
(* read them (main.cpp:591-690), a line at a time into the lists that      *)
(* parse_config has emptied (714-751), and what is_match makes of a list   *)
(* (packetcontroller.cpp:5-34).  RecvHook has the result only: the set of  *)
(* packets a list matches.                                                 *)
(*                                                                         *)
(* A text is a sequence of lines, a line one of characters that ends in    *)
(* "nl"; the last one may lack its end.                                    *)
(***************************************************************************)
EXTENDS Integers, SequencesExt

CONSTANTS
    Character, \* what a text is made of
    Files,     \* what may be written into a file: sequences of items
    Old,       \* the list that was read before
    BufLen,    \* what fgets takes at once, 254
    MaxChr,    \* the size of PacketList::chr, 100
    Packets    \* contents of the receive buffer, and recvfrom's result

Hex == <<"0", "1", "2", "3", "4", "5", "6", "7", "8", "9", "a", "b", "c", "d", "e", "f">>

\* IsCharSpecial: a blank, a quote, a semicolon, a tab, and what ends a line
Special == {"sp", "qt", "sc", "tab", "cr", "nl"}

ASSUME PacketMatchAssumptions ==
    /\ BufLen \in Nat \ {0} /\ MaxChr \in Nat \ {0}
    /\ {Hex[d] : d \in 1..16} \union Special \union {"+"} \subseteq Character

VARIABLES
    file,      \* what was written
    rest,      \* the text that is still to be read
    reader,    \* "none", "blocks" or "lines", which reads; "done"
    list       \* bList, or allowedIp

match_vars == <<file, rest, reader, list>>

IsHex(c) == \E d \in 1..16 : Hex[d] = c
DigitOf(c) == (CHOOSE d \in 1..16 : Hex[d] = c) - 1
-----------------------------------------------------------------------------
\* Mutant: only what leads is cut off.
TrimSpace_Leading(s) ==
    LET kept == {i \in DOMAIN s : s[i] \notin Special}
    IN  IF kept = {} THEN <<>> ELSE SubSeq(s, Min(kept), Len(s))

\* Cuts off what leads and trails of special characters.
TrimSpace(s) ==
    LET kept == {i \in DOMAIN s : s[i] \notin Special}
    IN  IF kept = {} THEN <<>> ELSE SubSeq(s, Min(kept), Max(kept))

\* strtok with blanks: the words of the first n characters
WithChar(s, n, words) ==
    IF s[n] = "sp" THEN words
    ELSE IF n = 1 \/ s[n - 1] = "sp" THEN Append(words, <<s[n]>>)
    ELSE [words EXCEPT ![Len(words)] = Append(@, s[n])]

Words(s) ==
    LET words[n \in 0..Len(s)] == IF n = 0 THEN <<>> ELSE WithChar(s, n, words[n - 1])
    IN  words

Tokens(s) == Words(s)[Len(s)]

\* strtoul to the base 16, behind white space and up to what is no digit, cut
\* to a byte: what the first n digits amount to.  Words with a minus, a "0x" or
\* more digits than a long has are left out.
WithDigit(digits, n, value) == (16 * value + DigitOf(digits[n])) % 256

Values(digits) ==
    LET value[n \in 0..Len(digits)] == IF n = 0 THEN 0 ELSE WithDigit(digits, n, value[n - 1])
    IN  value

ByteOf(token) ==
    LET sign == Min({i \in DOMAIN token : token[i] \notin {"tab", "cr", "nl"}}
                    \union {Len(token) + 1})
        first == IF sign <= Len(token) /\ token[sign] = "+" THEN sign + 1 ELSE sign
        end == Min({i \in first..Len(token) : ~IsHex(token[i])} \union {Len(token) + 1})
        digits == SubSeq(token, first, end - 1)
    IN  Values(digits)[Len(digits)]

Bytes(tokens) == [i \in 1..Min({Len(tokens), MaxChr}) |-> ByteOf(tokens[i])]

\* What a line adds to the list: at most one element.
Skipped(line) == Head(line) = "sc" \/ Len(TrimSpace(line)) <= 1

Block(line) ==
    LET s == TrimSpace(line)
        plus == Last(s) = "+"
        chr == Bytes(Tokens(IF plus THEN Front(s) ELSE s))
    IN  IF Skipped(line) \/ chr = <<>> THEN <<>>
        ELSE <<[chr |-> chr, startswith |-> plus]>>

Line(line) == IF Skipped(line) THEN <<>> ELSE <<TrimSpace(line)>>

\* fgets
Chunk == SubSeq(Head(rest), 1, Min({BufLen, Len(Head(rest))}))
Behind == SubSeq(Head(rest), Len(Chunk) + 1, Len(Head(rest)))
-----------------------------------------------------------------------------
(* What the operator writes: comments, blank lines, patterns and           *)
(* addresses, in one of several hands.                                     *)

Spelled(b, item) == IF item.short /\ b < 16 THEN <<Hex[b + 1]>>
                    ELSE <<Hex[b \div 16 + 1], Hex[(b % 16) + 1]>>

\* The first n bytes of a pattern
WithByte(item, n, text) ==
    text \o (IF n = 1 THEN <<>> ELSE <<"sp">> \o item.pad) \o Spelled(item.bytes[n], item)

Spelling(item) ==
    LET text[n \in 0..Len(item.bytes)] == IF n = 0 THEN <<>> ELSE WithByte(item, n, text[n - 1])
    IN  text

Written(item) ==
    CASE item.kind = "comment" -> <<"sc">> \o item.text
      [] item.kind = "blank"   -> item.text
      [] item.kind = "address" -> item.pad \o item.text \o item.pad
      [] item.kind = "pattern" ->
            item.pad \o Spelling(item)[Len(item.bytes)]
                     \o (IF item.prefix THEN item.pad \o <<"+">> ELSE <<>>) \o item.pad

TextFor(items) == [i \in DOMAIN items |-> Written(items[i]) \o <<"nl">>]

\* A text without the end of its last line
Unended(text) ==
    LET last == Front(Last(text))
    IN  IF last = <<>> THEN Front(text) ELSE [text EXCEPT ![Len(text)] = last]

\* Lines that fit the buffer.  A pattern of one digit is no pattern, and an
\* address of one character no address.
IsPattern(item) ==
    /\ item.bytes \in Seq(0..255) /\ item.pad \in Seq({"sp"})
    /\ item.prefix \in BOOLEAN /\ item.short \in BOOLEAN
    /\ item.bytes # <<>>
    /\ Len(item.bytes) = 1 /\ item.short /\ item.bytes[1] < 16 => item.prefix

IsAddress(item) ==
    /\ item.text \in Seq(Character) /\ item.pad \in Seq({"sp"})
    /\ Len(item.text) > 1
    /\ item.text[1] \notin Special /\ item.text[Len(item.text)] \notin Special

Fits(item) ==
    /\ Len(Written(item)) < BufLen
    /\ \/ item.kind = "comment" /\ item.text \in Seq(Character)
       \/ item.kind = "blank"   /\ item.text \in Seq({"sp"})
       \/ item.kind = "pattern" /\ IsPattern(item)
       \/ item.kind = "address" /\ IsAddress(item)

ASSUME FilesAssumption ==
    \A items \in Files :
        Len(items) \in Nat /\ DOMAIN items = 1..Len(items) /\ \A i \in DOMAIN items : Fits(items[i])

\* parse_config: the list is emptied; the file, whose last line may lack its
\* end, is opened; or it is not there, which means as much as an empty one.
Load(which) ==
    /\ reader = "none"
    /\ list' = <<>>
    /\ \/ reader' = which /\ UNCHANGED file
          /\ rest' \in {TextFor(file)}
                       \union (IF file = <<>> THEN {} ELSE {Unended(TextFor(file))})
       \/ reader' = "done" /\ file' = <<>> /\ rest' = <<>>

ReadLine ==
    /\ reader \in {"blocks", "lines"} /\ rest # <<>>
    /\ list' = list \o (IF reader = "blocks" THEN Block(Chunk) ELSE Line(Chunk))
    /\ rest' = (IF Behind = <<>> THEN <<>> ELSE <<Behind>>) \o Tail(rest)
    /\ UNCHANGED <<file, reader>>

Close ==
    /\ reader \in {"blocks", "lines"} /\ rest = <<>>
    /\ reader' = "done"
    /\ UNCHANGED <<file, rest, list>>

MatchInit == file \in Files /\ rest = <<>> /\ reader = "none" /\ list = Old

MatchNext ==
    \/ Load("blocks") /\ \A i \in DOMAIN file : file[i].kind # "address"
    \/ Load("lines") /\ \A i \in DOMAIN file : file[i].kind # "pattern"
    \/ ReadLine
    \/ Close

MatchSpec == MatchInit /\ [][MatchNext]_match_vars
-----------------------------------------------------------------------------
\* A buffer of packets has room for the longest pattern; of a failed recvfrom
\* it holds what it held before.
ASSUME PacketsAssumption ==
    \A p \in Packets :
        /\ p.len \in Nat /\ p.buffer \in Seq(0..255)
        /\ p.len <= Len(p.buffer) \/ MaxChr <= Len(p.buffer)

\* Mutant: a longer packet matches every pattern that it starts with.
is_match_Longer(messages, packetlen) ==
    \E i \in DOMAIN list :
        /\ Len(list[i].chr) <= packetlen
        /\ \A j \in DOMAIN list[i].chr : messages[j] = list[i].chr[j]

\* packetlen is a size_t: a failed recvfrom has the largest one.
is_match(messages, packetlen) ==
    /\ packetlen > 0
    /\ \E i \in DOMAIN list :
          LET plist == list[i] IN
          /\ Len(plist.chr) <= packetlen
          /\ packetlen > Len(plist.chr) => plist.startswith
          /\ \A j \in DOMAIN plist.chr : messages[j] = plist.chr[j]
-----------------------------------------------------------------------------
(* What an item of the file means for the list, and its first n items.     *)

Said(item) == SubSeq(item.bytes, 1, Min({MaxChr, Len(item.bytes)}))

Meaning(item) ==
    CASE item.kind = "pattern" -> <<[chr |-> Said(item), startswith |-> item.prefix]>>
      [] item.kind = "address" -> <<item.text>>
      [] OTHER                 -> <<>>

WithItem(items, n, meant) == meant \o Meaning(items[n])

Meanings(items) ==
    LET meant[n \in 0..Len(items)] == IF n = 0 THEN <<>> ELSE WithItem(items, n, meant[n - 1])
    IN  meant

\* A file whose lines fit the buffer is read as it was written, whatever the
\* hand, comments between the patterns, and the end of the last line: nothing
\* is left of the former list, nothing added, in the order of the lines
\* (main.cpp:591-690, 716-735).  A pattern of one digit is no pattern, and of
\* a long one the first MaxChr bytes count: none overruns its array.
ReadAsWritten == reader = "done" => list = Meanings(file)[Len(file)]

\* A packet matches exactly if a line of the file is its bytes, or with a "+"
\* bytes it starts with; what the buffer holds behind the packet decides
\* nothing, unless recvfrom failed (packetcontroller.cpp:5-34).
MatchesAsWritten ==
    reader = "done" /\ (\A i \in DOMAIN file : file[i].kind # "address") =>
        \A p \in Packets :
            is_match(p.buffer, p.len) <=>
                \E i \in DOMAIN file :
                    /\ file[i].kind = "pattern"
                    /\ p.len > 0
                    /\ IsPrefix(Said(file[i]), SubSeq(p.buffer, 1, Min({p.len, Len(p.buffer)})))
                    /\ p.len = Len(Said(file[i])) \/ file[i].prefix
=============================================================================
