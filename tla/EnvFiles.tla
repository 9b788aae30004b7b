------------------------------- MODULE EnvFiles -------------------------------
(***************************************************************************)
(* How a value of the environment is written into a dotenv file and read   *)
(* back: by the server, for the cluster and for the guard, and by the      *)
(* browser, for its editor.  A text is a sequence of characters; it is     *)
(* what follows KEY= in the file.                                          *)
(***************************************************************************)
EXTENDS Naturals, Sequences, SequencesExt

Quote == "\""
Backslash == "\\"
Space == {" ", "\t", "\n", "\r", "\f"}

-------------------------------------------------------------------------------
(* The server writes *)

\* STRIP_CONTROL: the form feed stands for the control characters.
Cleaned(v) == SelectSeq(v, LAMBDA c : c # "\f")

NeedsQuotes(v) ==
    \/ \E i \in DOMAIN v : v[i] \in {"\n", "\r", "\t", Quote, "#", "="}
    \/ v # <<>> /\ (Head(v) \in Space \/ Last(v) \in Space)

Code == [c \in {Backslash, Quote, "\n", "\r", "\t"} |->
            CASE c = "\n" -> "n" [] c = "\r" -> "r" [] c = "\t" -> "t" [] OTHER -> c]

\* Mutant: a backslash is written as it is.
EscapedButBackslash(v) ==
    FlattenSeq([i \in DOMAIN v |->
        IF v[i] \in DOMAIN Code \ {Backslash} THEN <<Backslash, Code[v[i]]>> ELSE <<v[i]>>])

Escaped(v) ==
    FlattenSeq([i \in DOMAIN v |->
        IF v[i] \in DOMAIN Code THEN <<Backslash, Code[v[i]]>> ELSE <<v[i]>>])

QuoteIfNeeded(v) == IF NeedsQuotes(v) THEN <<Quote>> \o Escaped(v) \o <<Quote>> ELSE v

\* serializeRows, for one row.
SerializedRow(v) == QuoteIfNeeded(Cleaned(v))

-------------------------------------------------------------------------------
(* The server reads *)

\* The character that is written as Code[c].
Decoded(x) == CHOOSE c \in DOMAIN Code : Code[c] = x

\* The text up to the closing quote, and each escape replaced by what it stands for; a
\* backslash before another character stays.  Without a closing quote all of the file is
\* the value.
Unquoted(text) ==
    LET codes == {Code[c] : c \in DOMAIN Code}
        step(s, x) ==
            IF s.closed THEN s
            ELSE IF s.escape
                 THEN [s EXCEPT !.escape = FALSE,
                          !.out = @ \o (IF x \in codes THEN <<Decoded(x)>> ELSE <<Backslash, x>>)]
            ELSE IF x = Backslash THEN [s EXCEPT !.escape = TRUE]
            ELSE IF x = Quote THEN [s EXCEPT !.closed = TRUE]
            ELSE [s EXCEPT !.out = @ \o <<x>>]
        end == FoldLeft(step, [escape |-> FALSE, closed |-> FALSE, out |-> <<>>], text)
    IN  IF end.escape THEN end.out \o <<Backslash>> ELSE end.out

Line(text) ==
    LET ends == {i \in DOMAIN text : text[i] = "\n"}
    IN  IF ends = {} THEN text ELSE SubSeq(text, 1, (CHOOSE i \in ends : \A j \in ends : i <= j) - 1)

Trimmed(text) ==
    LET solid == {i \in DOMAIN text : text[i] \notin Space}
    IN  IF solid = {} THEN <<>>
        ELSE SubSeq(text, CHOOSE i \in solid : \A j \in solid : i <= j,
                          CHOOSE i \in solid : \A j \in solid : i >= j)

\* What is between the first and the last single quote of the line.
Literal(line) ==
    LET ends == {i \in DOMAIN line : i > 1 /\ line[i] = "'"}
    IN  IF ends = {} THEN Tail(line)
        ELSE SubSeq(line, 2, (CHOOSE i \in ends : \A j \in ends : i >= j) - 1)

\* parseRows, for one row.
ParsedRow(text) ==
    IF text # <<>> /\ Head(text) = Quote THEN Unquoted(Tail(text))
    ELSE IF text # <<>> /\ Head(text) = "'" THEN Literal(Line(text))
    ELSE Trimmed(Line(text))

-------------------------------------------------------------------------------
(* The browser reads *)

\* text.replace(/ab/g, "c")
Replaced(text, a, b, c) ==
    LET step(s, x) ==
            IF s.held THEN IF x = b THEN [held |-> FALSE, out |-> s.out \o <<c>>]
                           ELSE [held |-> x = a, out |-> s.out \o (IF x = a THEN <<a>> ELSE <<a, x>>)]
            ELSE IF x = a THEN [s EXCEPT !.held = TRUE] ELSE [s EXCEPT !.out = @ \o <<x>>]
        end == FoldLeft(step, [held |-> FALSE, out |-> <<>>], text)
    IN  IF end.held THEN end.out \o <<a>> ELSE end.out

Enclosed(line, q) == Len(line) >= 2 /\ Head(line) = q /\ Last(line) = q

\* parseDotenv, for one row: line by line, one replacement after the other, and no
\* escape of a tab or a carriage return.
BrowserRow(text) ==
    LET line == Trimmed(Line(text))
        inner == SubSeq(line, 2, Len(line) - 1)
    IN  IF Enclosed(line, Quote)
        THEN Replaced(Replaced(Replaced(inner, Backslash, "n", "\n"), Backslash, Quote, Quote),
                      Backslash, Backslash, Backslash)
        ELSE IF Enclosed(line, "'") THEN inner ELSE line

===============================================================================
