----------------------------- MODULE JimScripts -----------------------------
(***************************************************************************)
(* From the text of a script to its commands: the tokens that              *)
(* JimParseScript finds and how ScriptObjAddTokens makes words and         *)
(* commands of them.  Line numbers are left out.                           *)
(***************************************************************************)
EXTENDS JimListStrings

\* What the parser sees at place i: the text ends with a zero byte.
At(t, i) == IF i <= Len(t) THEN t[i] ELSE "nul"
NewlineHidden(t, i) == At(t, i) = "\\" /\ At(t, i + 1) = "\n"
\* The place behind a backslash and what it hides.
Hidden(t, i) == IF i < Len(t) THEN i + 2 ELSE i + 1
NameChars == {"a", "b", "f", "n", "r", "t"}

\* A token of a type with the text from start to end, and the place to go on
\* at.  missing is the character without which the script is not complete, " "
\* if there is none.
Token(type, start, end, next, missing) ==
    [type |-> type, start |-> start, end |-> end, next |-> next, missing |-> missing]
\* The end of braces, quotes or brackets.
Closed(i) == [end |-> i - 1, next |-> i + 1, missing |-> " "]
Unclosed(t, c) == [end |-> Len(t), next |-> Len(t) + 1, missing |-> c]

RECURSIVE JimParseSubBrace(_, _, _)
JimParseSubBrace(t, i, level) ==
    CASE At(t, i) = "nul" -> Unclosed(t, "{")
      [] At(t, i) = "\\" -> JimParseSubBrace(t, Hidden(t, i), level)
      [] At(t, i) = "{" -> JimParseSubBrace(t, i + 1, level + 1)
      [] At(t, i) = "}" ->
            IF level = 1 THEN Closed(i) ELSE JimParseSubBrace(t, i + 1, level - 1)
      [] OTHER -> JimParseSubBrace(t, i + 1, level)

RECURSIVE JimParseSubCmd(_, _, _, _)
RECURSIVE JimParseSubQuote(_, _)
JimParseSubQuote(t, i) ==
    CASE At(t, i) = "nul" -> Unclosed(t, "\"")
      [] At(t, i) = "\\" -> JimParseSubQuote(t, Hidden(t, i))
      [] At(t, i) = "\"" -> Closed(i)
      [] At(t, i) = "[" -> JimParseSubQuote(t, JimParseSubCmd(t, i + 1, 1, TRUE).next)
      [] OTHER -> JimParseSubQuote(t, i + 1)
\* Only a blank makes the next quote the start of a word, a bracket or a
\* semicolon does not; a brace counts anywhere.
JimParseSubCmd(t, i, level, startofword) ==
    CASE At(t, i) = "nul" -> Unclosed(t, "[")
      [] At(t, i) = "\\" -> JimParseSubCmd(t, Hidden(t, i), level, At(t, i + 1) \in Space)
      [] At(t, i) = "[" -> JimParseSubCmd(t, i + 1, level + 1, FALSE)
      [] At(t, i) = "]" ->
            IF level = 1 THEN Closed(i) ELSE JimParseSubCmd(t, i + 1, level - 1, FALSE)
      [] At(t, i) = "\"" /\ startofword ->
            JimParseSubCmd(t, JimParseSubQuote(t, i + 1).next, level, TRUE)
      [] At(t, i) = "{" -> JimParseSubCmd(t, JimParseSubBrace(t, i + 1, 1).next, level, FALSE)
      [] OTHER -> JimParseSubCmd(t, i + 1, level, At(t, i) \in Space)

\* A part that has an end of its own, behind the character at i.
Delimited(type, i, sub) == Token(type, i + 1, sub.end, sub.next, sub.missing)

---------------------------------------------------------------------------
(* Variables *)

\* The first place from i on where the text has something else.
Past(t, i, chars) ==
    CHOOSE j \in i..(Len(t) + 1) : At(t, j) \notin chars /\ \A k \in i..(j - 1) : t[k] \in chars

\* From an open parenthesis at i: the place behind the one that closes it, or
\* behind the last one that closes any, or the end.
RECURSIVE Parenthesis(_, _, _, _)
Parenthesis(t, i, count, back) ==
    CASE count = 0 -> i + 1
      [] count > 0 /\ i > Len(t) -> back
      [] count > 0 /\ i <= Len(t) /\ At(t, i + 1) = "\\" -> Parenthesis(t, i + 2, count, back)
      [] count > 0 /\ i <= Len(t) /\ At(t, i + 1) = "(" -> Parenthesis(t, i + 1, count + 1, back)
      [] count > 0 /\ i <= Len(t) /\ At(t, i + 1) = ")" -> Parenthesis(t, i + 1, count - 1, i + 2)
      [] OTHER -> Parenthesis(t, i + 1, count, back)

\* The variable behind the dollar sign at i.  A lone dollar sign is text; of a
\* dollar sign and a brace that end the text only the brace is.
JimParseVar(t, i) ==
    LET close == Past(t, i + 2, UNION {{t[j]} : j \in DOMAIN t} \ {"}"})
        name == Past(t, i + 1, NameChars)
        next == IF At(t, name) = "(" THEN Parenthesis(t, name, 1, Len(t) + 1) ELSE name
        type == IF At(t, name) # "(" THEN "var" ELSE IF name = i + 1 THEN "exprsugar" ELSE "dictsugar"
    IN IF At(t, i + 1) = "{"
       THEN IF i + 1 = Len(t) THEN Token("esc", i + 1, i + 1, i + 2, " ")
            ELSE Token("var", i + 2, close - 1, IF close <= Len(t) THEN close + 1 ELSE close, " ")
       ELSE IF next = i + 1 THEN Token("esc", i, i, i + 1, " ")
            ELSE Token(type, i + 1, next - 1, next, " ")

---------------------------------------------------------------------------
(* Tokens *)

\* The parser between two tokens: the place, the type of the last token,
\* whether it is in quotes, whether a # begins a comment here, and the tokens.
JimParserInit ==
    [next |-> 1, type |-> "none", inquote |-> FALSE, comment |-> TRUE, missing |-> " ",
     tokens |-> <<>>]
Found(pc, token, t) ==
    [pc EXCEPT !.next = token.next, !.type = token.type,
               !.missing = IF token.missing = " " THEN @ ELSE token.missing,
               !.tokens = Append(@, [type |-> token.type, text |-> SubSeq(t, token.start, token.end)])]

\* A word or a part of one from start on, now at i; after is the type of the
\* token before.  The result says whether the quotes are still open.
RECURSIVE Str(_, _, _, _, _)
Str(t, start, i, inquote, after) ==
    LET Ends(end, next, missing, open) ==
            [token |-> Token("esc", start, end, next, missing), inquote |-> open]
        more == Str(t, start, i + 1, inquote, after)
        splits == \/ At(t, i) = "(" /\ At(t, i + 1) \in {"$", "nul"}
                  \/ At(t, i) = ")" /\ after = "var"
    IN CASE At(t, i) = "nul" -> Ends(i - 1, i, IF inquote THEN "\"" ELSE " ", inquote)
         [] At(t, i) = "\\" ->
               IF ~inquote /\ NewlineHidden(t, i) THEN Ends(i - 1, i, " ", inquote)
               ELSE IF ~inquote /\ i = Len(t) THEN Ends(i, i + 1, "\\", inquote)
               ELSE Str(t, start, Hidden(t, i), inquote, after)
         [] At(t, i) \in {"(", ")"} ->
               IF ~splits THEN more
               ELSE IF i = start THEN Ends(i, i + 1, " ", inquote) ELSE Ends(i - 1, i, " ", inquote)
         [] At(t, i) \in {"$", "["} -> Ends(i - 1, i, " ", inquote)
         [] At(t, i) \in Space \cup {";"} -> IF inquote THEN more ELSE Ends(i - 1, i, " ", FALSE)
         [] At(t, i) = "\"" -> IF inquote THEN Ends(i - 1, i + 1, " ", FALSE) ELSE more
         [] OTHER -> more

JimParseStr(t, pc) ==
    LET i == pc.next
        newWord == pc.type \in {"sep", "eol", "none", "str"}
        quote == newWord /\ At(t, i) = "\""
        from == IF quote THEN i + 1 ELSE i
        str == Str(t, from, from, pc.inquote \/ quote, pc.type)
    IN IF newWord /\ At(t, i) = "{"
       THEN Found(pc, Delimited("str", i, JimParseSubBrace(t, i + 1, 1)), t)
       ELSE [Found(pc, str.token, t) EXCEPT !.inquote = str.inquote]

\* Blanks and hidden newlines from i on.
RECURSIVE PastSep(_, _)
PastSep(t, i) ==
    CASE At(t, i) \in Space \ {"\n"} -> PastSep(t, i + 1)
      [] NewlineHidden(t, i) -> PastSep(t, i + 2)
      [] OTHER -> i
JimParseSep(t, pc) ==
    LET next == PastSep(t, pc.next) IN Found(pc, Token("sep", pc.next, next - 1, next, " "), t)
JimParseEol(t, pc) ==
    LET next == Past(t, pc.next, Space \cup {";"})
    IN Found(pc, Token("eol", pc.next, next - 1, next, " "), t)

\* A hidden newline does not end a comment.
RECURSIVE JimParseComment(_, _)
JimParseComment(t, pc) ==
    LET i == pc.next
    IN CASE At(t, i) = "nul" -> pc
         [] At(t, i) = "\n" -> [pc EXCEPT !.next = i + 1]
         [] At(t, i) = "\\" ->
               IF i = Len(t) THEN [pc EXCEPT !.next = i + 1, !.missing = "\\"]
               ELSE JimParseComment(t, [pc EXCEPT !.next = i + 2])
         [] OTHER -> JimParseComment(t, [pc EXCEPT !.next = i + 1])

\* All tokens from pc on.
RECURSIVE JimParseScript(_, _)
JimParseScript(t, pc) ==
    LET c == At(t, pc.next)
        word == [pc EXCEPT !.comment = FALSE]
        eol == [pc EXCEPT !.comment = TRUE]
    IN CASE c = "nul" -> Found(pc, Token("eol", pc.next, pc.next - 1, pc.next, " "), t)
         [] c \in Space \ {"\n"} \/ NewlineHidden(t, pc.next) ->
               JimParseScript(t, IF pc.inquote THEN JimParseStr(t, word) ELSE JimParseSep(t, pc))
         [] c \in {"\n", ";"} ->
               JimParseScript(t, IF pc.inquote THEN JimParseStr(t, eol) ELSE JimParseEol(t, eol))
         [] c = "[" ->
               LET sub == JimParseSubCmd(t, pc.next + 1, 1, TRUE)
               IN JimParseScript(t, Found(word, Delimited("cmd", pc.next, sub), t))
         [] c = "$" -> JimParseScript(t, Found(word, JimParseVar(t, pc.next), t))
         [] c = "#" /\ pc.comment -> JimParseScript(t, JimParseComment(t, pc))
         [] OTHER -> JimParseScript(t, JimParseStr(t, word))

---------------------------------------------------------------------------
(* Words and commands *)

\* What the backslashes of a text stand for; a hidden newline takes the blanks
\* behind it along.
JimEscape(t) ==
    LET Step(st, c) ==
            CASE st.in = "escape" ->
                    [out |-> Append(st.out, Unescape(c)), in |-> IF c = "\n" THEN "blanks" ELSE "text"]
              [] st.in # "escape" /\ c = "\\" -> [st EXCEPT !.in = "escape"]
              [] st.in = "blanks" /\ c \in {" ", "\t"} -> st
              [] OTHER -> [out |-> Append(st.out, c), in |-> "text"]
        last == Scan(Step, [out |-> <<>>, in |-> "text"], t)
    IN IF last.in = "escape" THEN Append(last.out, "\\") ELSE last.out
JimMakeScriptObj(token) ==
    IF token.type = "esc" THEN [token EXCEPT !.text = JimEscape(@)] ELSE token

\* A word of more than a part in braces is an expansion or an error.
ExpandMarks == {<<"*">>, <<"e", "x", "p", "a", "n", "d">>}
BraceFirst(parts) == Len(parts) > 1 /\ parts[1].type = "str"
MakeWord(parts) ==
    IF BraceFirst(parts) /\ parts[1].text \in ExpandMarks
    THEN [expand |-> TRUE, parts |-> Tail(parts)]
    ELSE [expand |-> FALSE, parts |-> parts]
ExtraCharacters(parts) == BraceFirst(parts) /\ parts[1].text \notin ExpandMarks

\* The commands, each a sequence of words, and the missing character.
ScriptObjAddTokens(tokens, missing) ==
    LET EndWord(st) ==
            IF st.parts = <<>> THEN st
            ELSE [st EXCEPT !.parts = <<>>, !.words = Append(@, MakeWord(st.parts)),
                            !.missing = IF @ = " " /\ ExtraCharacters(st.parts) THEN "}" ELSE @]
        EndCommand(st) ==
            IF st.words = <<>> THEN st
            ELSE [st EXCEPT !.words = <<>>, !.commands = Append(@, st.words)]
        Step(st, token) ==
            CASE token.type = "sep" -> EndWord(st)
              [] token.type = "eol" -> EndCommand(EndWord(st))
              [] OTHER -> [st EXCEPT !.parts = Append(@, JimMakeScriptObj(token))]
        last == Scan(Step, [parts |-> <<>>, words |-> <<>>, commands |-> <<>>, missing |-> missing],
                     tokens)
    IN [commands |-> last.commands, missing |-> last.missing]

JimSetScriptFromAny(t) ==
    LET pc == JimParseScript(t, JimParserInit) IN ScriptObjAddTokens(pc.tokens, pc.missing)
JimScriptValid(script) == script.missing \in {" ", "\\"}
Jim_ScriptIsComplete(script) == script.missing \in {" ", "}"}

---------------------------------------------------------------------------
(* Properties *)

IsText(word) == ~word.expand /\ \A i \in DOMAIN word.parts : word.parts[i].type \in {"esc", "str"}
JimInterpolateTokens(word) ==
    Scan(LAMBDA text, part : text \o part.text, <<>>, word.parts)

\* The string of a list is a script of one command, whose words are its
\* elements: [eval] of a list without a string runs the elements as they are.
RunsAsCommand(texts) ==
    LET script == JimSetScriptFromAny(JimMakeListStringRep[texts])
    IN /\ JimScriptValid(script) /\ Jim_ScriptIsComplete(script)
       /\ IF texts = <<>> THEN script.commands = <<>>
          ELSE /\ Len(script.commands) = 1
               /\ \A i \in DOMAIN script.commands[1] : IsText(script.commands[1][i])
               /\ [i \in DOMAIN script.commands[1] |-> JimInterpolateTokens(script.commands[1][i])]
                     = texts

\* In brackets the same string is one command substitution, in a word of its
\* own and in quotes.
RunsInBrackets(texts) ==
    LET string == JimMakeListStringRep[texts]
        bracketed == <<"[">> \o string \o <<"]">>
        cmd == [type |-> "cmd", text |-> string]
        empty == [type |-> "esc", text |-> <<>>]
        One(parts) == [missing |-> " ", commands |-> <<<<[expand |-> FALSE, parts |-> parts]>>>>]
    IN /\ JimSetScriptFromAny(bracketed) = One(<<cmd>>)
       /\ JimSetScriptFromAny(<<"\"">> \o bracketed \o <<"\"">>) = One(<<empty, cmd, empty>>)
=============================================================================
