----------------------------- MODULE ScriptLine -----------------------------
\* How a script's line becomes the arguments of a command (TestScript.parse), and
\* what a command nobody knows is compared with (cmdSuggestions, package
\* misspell).  Characters are members of a small set; a variable is one character
\* that expand replaces by its value.  Operators only, for Texts.
EXTENDS Naturals, Sequences

CONSTANTS Value,    \* of the variable: a sequence of characters
          Commands  \* the names of the commands, sequences of characters

Space == " "
Hash == "#"
QuoteMark == "'"
Variable == "$"
Bang == "!"

\* The parser at some place: the arguments so far, the text of the next one, if
\* there is one, whether it is inside quotes, and whether it skips the second of
\* two quotes or is done, at a comment.
NewParser ==
  [args |-> <<>>, arg |-> <<>>, started |-> FALSE, quoted |-> FALSE,
   skips |-> FALSE, ended |-> FALSE]

\* expand, on the unquoted parts of an argument.
Save(p, c) ==
  [p EXCEPT !.started = TRUE,
            !.arg = @ \o IF c = Variable /\ ~p.quoted THEN Value ELSE <<c>>]

\* A defect: the text of an argument is kept for the next.
EndArgKeeping(p) ==
  IF p.started THEN [p EXCEPT !.args = Append(@, p.arg), !.started = FALSE] ELSE p
EndArg(p) ==
  IF p.started
  THEN [p EXCEPT !.args = Append(@, p.arg), !.arg = <<>>, !.started = FALSE] ELSE p

Unterminated == <<"unterminated quoted argument">>

Quoted(line, p, i) ==
  LET doubled == i < Len(line) /\ line[i + 1] = QuoteMark
  IN IF line[i] # QuoteMark THEN Save(p, line[i])
     ELSE IF doubled THEN [Save(p, QuoteMark) EXCEPT !.skips = TRUE]
     ELSE [p EXCEPT !.quoted = FALSE]
Unquoted(line, p, i) ==
  CASE line[i] = Hash -> [EndArg(p) EXCEPT !.ended = TRUE]
    [] line[i] = Space -> EndArg(p)
    [] line[i] = QuoteMark -> [p EXCEPT !.started = TRUE, !.quoted = TRUE]
    [] OTHER -> Save(p, line[i])
\* One character: skipped, or looked at as one inside or outside quotes.
Step(line, p, i) ==
  IF p.ended THEN p
  ELSE IF p.skips THEN [p EXCEPT !.skips = FALSE]
  ELSE IF p.quoted THEN Quoted(line, p, i) ELSE Unquoted(line, p, i)
Scan(line) ==
  LET upTo[i \in 0 .. Len(line)] ==
        IF i = 0 THEN NewParser ELSE Step(line, upTo[i - 1], i)
  IN upTo[Len(line)]
Parse(line) ==
  LET p == Scan(line)
  IN IF p.ended THEN p.args
     ELSE IF p.quoted THEN Unterminated ELSE EndArg(p).args

\* misspell.AlmostEqual: after what both begin with, they may differ by one
\* character that is added, removed or replaced, or by two that changed places.
AlmostEqual(a, b) ==
  LET differ == {n \in DOMAIN a \cap DOMAIN b : a[n] # b[n]}
      n == CHOOSE n \in differ : \A k \in differ : n <= k
      From(s, k) == SubSeq(s, k, Len(s))
  IN IF differ = {} THEN Len(a) <= Len(b) + 1 /\ Len(b) <= Len(a) + 1
     ELSE \/ From(a, n) = From(b, n + 1)
          \/ From(a, n + 1) = From(b, n)
          \/ From(a, n + 1) = From(b, n + 1)
          \/ /\ Len(a) > n /\ Len(b) > n
             /\ a[n] = b[n + 1] /\ a[n + 1] = b[n]
             /\ From(a, n + 2) = From(b, n + 2)

\* cmdSuggestions: first of all the space missing after "!".
Suggestions(name) ==
  IF name # <<>> /\ Head(name) = Bang /\ Tail(name) \in Commands
  THEN {<<Bang, Space>> \o Tail(name)}
  ELSE {c \in Commands : AlmostEqual(name, c)}
=============================================================================
