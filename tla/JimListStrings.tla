--------------------------- MODULE JimListStrings ---------------------------
(***************************************************************************)
(* How a list becomes a string and a string becomes a list: the quoting    *)
(* that JimMakeListStringRep chooses for each element and the parser that  *)
(* SetListFromAny runs.  A text is a sequence of one-character strings.    *)
(* The escapes \x, \u, \U, octal, \a, \b and \v are left out (the quoting   *)
(* writes none of them but \v), and so are the blanks that a backslash and *)
(* a newline take with them.                                               *)
(***************************************************************************)
EXTENDS Integers, Sequences

Space == {" ", "\n", "\t", "\r", "\f"}
Special == Space \cup {"$", "\"", "[", "]", ";", "\\"}
Braces == {"{", "}"}

\* What a backslash and this letter stand for, and the letter for a character.
Escapes == [n |-> "\n", t |-> "\t", r |-> "\r", f |-> "\f"]
Unescape(c) == IF c \in DOMAIN Escapes THEN Escapes[c] ELSE IF c = "\n" THEN " " ELSE c
EscapeOf(c) == IF \E e \in DOMAIN Escapes : Escapes[e] = c
               THEN CHOOSE e \in DOMAIN Escapes : Escapes[e] = c
               ELSE c

CharsOf(t) == {t[i] : i \in DOMAIN t}

\* A left fold, as a recursive function on the prefixes.
Scan(Step(_, _), base, seq) ==
    LET upTo[i \in 0..Len(seq)] ==
            IF i = 0 THEN base ELSE Step(upTo[i - 1], seq[i])
    IN upTo[Len(seq)]

\* The order of the characters of a text, and of texts.
Ascii == <<"\t", "\n", "\f", "\r", " ", "\"", "#", "$", ";", "[", "\\", "]",
           "a", "b", "f", "n", "r", "t", "{", "}">>
Code(c) == CHOOSE i \in DOMAIN Ascii : Ascii[i] = c
JimStringCompare(t, u) ==
    LET differ == {i \in DOMAIN t \cap DOMAIN u : t[i] # u[i]}
        i == CHOOSE i \in differ : \A j \in differ : i <= j
    IN IF differ = {} THEN Len(t) - Len(u) ELSE Code(t[i]) - Code(u[i])

\* [concat] of two texts.  A blank after a backslash stays.
Trim(t) ==
    LET solid == {i \in DOMAIN t : t[i] \notin Space}
        first == CHOOSE i \in solid : \A j \in solid : i <= j
        last == CHOOSE i \in solid : \A j \in solid : i >= j
    IN IF solid = {} THEN <<>>
       ELSE SubSeq(t, first, IF t[last] = "\\" /\ last < Len(t) THEN last + 1 ELSE last)
JoinTexts(t, u) == IF t = <<>> THEN u ELSE t \o <<" ">> \o u

---------------------------------------------------------------------------
(* From a list to a string *)

\* Braces and brackets match, as far as braces around the text call for it: the
\* open ones, whether a backslash hides the next character, and whether nothing
\* has ruled braces out.
Unmatched == [level |-> 0, blevel |-> 0, hidden |-> FALSE, ok |-> TRUE]
Match(st, c) ==
    CASE st.hidden -> [st EXCEPT !.hidden = FALSE, !.ok = @ /\ c # "\n"]
      [] ~st.hidden /\ c = "\\" -> [st EXCEPT !.hidden = TRUE]
      [] ~st.hidden /\ c \in Braces ->
            [st EXCEPT !.level = @ + (IF c = "{" THEN 1 ELSE -1),
                       !.ok = @ /\ (c = "{" \/ st.level > 0)]
      [] ~st.hidden /\ c \in {"[", "]"} ->
            [st EXCEPT !.blevel = @ + (IF c = "[" THEN 1 ELSE -1)]
      [] ~st.hidden /\ c \notin Braces \cup {"[", "]", "\\"} -> st
CanBrace(t) ==
    LET last == Scan(Match, Unmatched, t)
    IN t[Len(t)] # "\\" /\ last.ok /\ last.level = 0 /\ last.blevel >= 0

ListElementQuotingType(t) ==
    CASE t = <<>> -> "brace"
      [] t # <<>> /\ CharsOf(t) \cap (Special \cup Braces) = {} -> "simple"
      [] t # <<>> /\ CharsOf(t) \cap (Special \cup Braces) # {} ->
            IF ~CanBrace(t) THEN "quote"
            ELSE IF t[1] \in {"\"", "{"} \/ CharsOf(t) \cap Special # {} THEN "brace"
            ELSE "simple"

Quoted(done, c) ==
    done \o (IF c \in Special \cup Braces THEN <<"\\", EscapeOf(c)>> ELSE <<c>>)
BackslashQuoteString(t) == Scan(Quoted, <<>>, t)

ForgetsHash(t, first) == \* mutant: a first element may look like a comment
    LET kind == ListElementQuotingType(t)
    IN IF kind = "quote" THEN BackslashQuoteString(t)
       ELSE IF kind = "brace" THEN <<"{">> \o t \o <<"}">> ELSE t

\* A first element that begins with # must not look like a comment.
QuotedElement(t, first) ==
    LET hash == first /\ t # <<>> /\ t[1] = "#"
        kind == ListElementQuotingType(t)
    IN CASE kind = "simple" /\ ~hash -> t
         [] kind = "brace" \/ (kind = "simple" /\ hash) -> <<"{">> \o t \o <<"}">>
         [] kind = "quote" ->
               (IF hash THEN <<"\\">> ELSE <<>>) \o BackslashQuoteString(t)

JimMakeListStringRep[texts \in Seq(Seq(STRING))] ==
    LET upTo[i \in 0..Len(texts)] ==
            IF i = 0 THEN <<>>
            ELSE upTo[i - 1] \o (IF i = 1 THEN <<>> ELSE <<" ">>)
                             \o QuotedElement(texts[i], i = 1)
    IN upTo[Len(texts)]

---------------------------------------------------------------------------
(* From a string to a list *)

\* The parser between two characters: what kind of element it is in, the
\* element so far and those before it.  In braces a backslash stays and hides
\* the next character; elsewhere the two are replaced by what they stand for.
ListStart == [in |-> "sep", level |-> 0, escaped |-> FALSE, token |-> <<>>, found |-> <<>>]
Start(st, c) ==
    CASE c \in Space -> st
      [] c = "{" -> [st EXCEPT !.in = "brace", !.level = 1, !.token = <<>>]
      [] c = "\"" -> [st EXCEPT !.in = "quote", !.token = <<>>]
      [] c = "\\" -> [st EXCEPT !.in = "bare", !.escaped = TRUE, !.token = <<>>]
      [] OTHER -> [st EXCEPT !.in = "bare", !.token = <<c>>]
End(st) == [st EXCEPT !.in = "sep", !.found = Append(@, st.token)]
More(st, c) == [st EXCEPT !.token = Append(@, c)]
JimParseListStep(st, c) ==
    CASE st.in = "sep" -> Start(st, c)
      [] st.in = "brace" /\ st.escaped -> [More(st, c) EXCEPT !.escaped = FALSE]
      [] st.in = "brace" /\ ~st.escaped ->
            IF c = "}" /\ st.level = 1 THEN End(st)
            ELSE [More(st, c) EXCEPT
                    !.level = @ + (IF c = "{" THEN 1 ELSE IF c = "}" THEN -1 ELSE 0),
                    !.escaped = c = "\\"]
      [] st.in \in {"bare", "quote"} /\ st.escaped ->
            [More(st, Unescape(c)) EXCEPT !.escaped = FALSE]
      [] st.in \in {"bare", "quote"} /\ ~st.escaped ->
            IF c = "\\" THEN [st EXCEPT !.escaped = TRUE]
            ELSE IF c = "\"" /\ st.in = "quote" THEN End(st)
            ELSE IF c \in Space /\ st.in = "bare" THEN End(st)
            ELSE More(st, c)

JimParseList(t) ==
    LET last == Scan(JimParseListStep, ListStart, t)
    IN CASE last.in = "sep" -> last.found
         [] last.in # "sep" /\ last.escaped /\ last.in # "brace" ->
               Append(last.found, Append(last.token, "\\"))
         [] last.in # "sep" /\ ~(last.escaped /\ last.in # "brace") ->
               Append(last.found, last.token)

\* Written as a string and read back, a list is the same.
ReadsBack(texts) == JimParseList(JimMakeListStringRep[texts]) = texts
=============================================================================
