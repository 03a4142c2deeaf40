--------------------------- MODULE PropertiesReader ---------------------------
(***************************************************************************)
(* PropertiesReader: a file of lines "key=value".  A line is a sequence of *)
(* symbols: the blank, "#", "=" and words, which are of one character here *)
(* (what a word is does not matter, but positions are counted in them).    *)
(***************************************************************************)
EXTENDS SequencesExt, Integers

Words(text) == { i \in DOMAIN text : text[i] # " " }

RightTrim(text) == SubSeq(text, 1, Max(Words(text) \cup {0}))
Trim(text) == SubSeq(RightTrim(text), Min(Words(text) \cup {Len(text) + 1}), Len(RightTrim(text)))

\* std::string(line, pos, count): at most count symbols from pos, counted from 0.
Substring(line, pos, count) == SubSeq(line, pos + 1, Min({pos + count, Len(line)}))

-----------------------------------------------------------------------------
(***************************************************************************)
(* parseLine(): the position i is passed where std::string wants a count.  *)
(* It is too large unless the part starts the line: a key behind a blank   *)
(* takes its '=' along, and a value its comment.                           *)
(***************************************************************************)
StartOfLine == [state |-> "START", i |-> 0, pos |-> 0, key |-> <<>>, isOver |-> FALSE]

Advance(s) == [s EXCEPT !.i = @ + 1]
EndKey(line, s) == [s EXCEPT !.state = "VALUE", !.pos = s.i + 1,
                             !.key = RightTrim(Substring(line, s.pos, s.i))]

ParseSymbol(line, s, c) ==
    CASE s.isOver -> s
      [] ~s.isOver /\ c = "#" -> [s EXCEPT !.isOver = TRUE]
      [] ~s.isOver /\ s.state = "START" /\ c \notin {" ", "#"} ->
            Advance([s EXCEPT !.state = "KEY", !.pos = s.i])
      [] ~s.isOver /\ s.state = "KEY" /\ c = "=" -> Advance(EndKey(line, s))
      [] OTHER -> Advance(s)

\* What the parser knows after each symbol of the line.
After(line) ==
    LET after[k \in 0..Len(line)] ==
          IF k = 0 THEN StartOfLine ELSE ParseSymbol(line, after[k - 1], line[k])
    IN after

\* A line without a value throws; one without a key is the pair of two empty texts.
ParseLine(line) ==
    LET end == After(line)[Len(line)] IN
    [throws |-> end.state = "KEY",
     key |-> end.key,
     value |-> IF end.state = "VALUE" THEN Trim(Substring(line, end.pos, end.i)) ELSE <<>>]

-----------------------------------------------------------------------------
\* Mutant of Emplace: properties[key] = value.
Overwrite(properties, pair) ==
    [key \in DOMAIN properties \cup {pair.key} |->
        IF key = pair.key THEN pair.value ELSE properties[key]]

\* emplace() keeps the first value of a key.
Emplace(properties, pair) ==
    [key \in DOMAIN properties \cup {pair.key} |->
        IF key \in DOMAIN properties THEN properties[key] ELSE pair.value]

\* The constructor, with skipErrors: what is known after each line.
Read(lines) ==
    LET read[n \in 0..Len(lines)] ==
          IF n = 0 THEN <<>>
          ELSE LET pair == ParseLine(lines[n]) IN
               IF pair.throws THEN read[n - 1] ELSE Emplace(read[n - 1], pair)
    IN read

Properties(lines) == Read(lines)[Len(lines)]
=============================================================================
