------------------------------- MODULE MCTexts -------------------------------
\* Texts on every small input.
EXTENDS Texts

CONSTANTS MaxText, \* lines of a text
          MaxDiff, \* lines of a side of a diff
          MaxLine  \* characters of a line

\* All sequences of at most n members of a set.
UpTo(set, n) == UNION {[1 .. k -> set] : k \in 0 .. n}

MCFileLines ==
  {Tx!Line(0, Tx!Plain), Tx!Line(1, Tx!Plain), Tx!Line(0, Tx!Marker("a")),
   Tx!Line(1, Tx!Marker("a")), Tx!Line(0, Tx!MarkerCR("b")), Tx!Line(0, Tx!Nameless),
   Tx!Line(0, Tx!Bare)}
MCBytes(n) ==
  {Tx!Text(lines, newline) : lines \in UpTo(MCFileLines, n) \ {<<>>}, newline \in BOOLEAN}
    \cup {Tx!Empty}
Entry(name, data, hidden, regular, utf8) ==
  [name |-> name, data |-> data, hidden |-> hidden, regular |-> regular, utf8 |-> utf8]
TextJob == \E t \in MCBytes(MaxText) : job = [kind |-> "text", text |-> t]
DirJob ==
  \E d \in MCBytes(2), e \in MCBytes(1), hidden, regular, utf8, quote, all \in BOOLEAN :
    /\ hidden => regular /\ utf8
    /\ job = [kind |-> "dir", quote |-> quote, all |-> all,
              entries |-> <<Entry("a", d, hidden, regular, utf8),
                            Entry("b", e, FALSE, TRUE, TRUE)>>]

\* Of two texts that differ in the names of their lines only, one is enough.
Canonical(lines) ==
  \A n \in DOMAIN lines : lines[n] <= Cardinality({lines[k] : k \in 1 .. n - 1}) + 1
DiffJob ==
  \E x, y \in UpTo(1 .. 4, MaxDiff), bare \in {"neither", "old", "both"} :
    /\ Canonical(x)
    /\ bare # "neither" => x # <<>> /\ y # <<>> /\ Len(y) <= 3
    /\ job = [kind |-> "diff", old |-> Tx!Text(x, bare = "neither"),
              new |-> Tx!Text(y, bare # "both")]

MCTerms == {[bangs |-> b, tag |-> t] :
              b \in 0 .. 2, t \in {"linux", "android", "x", "ignore", "m@l", ""}}
MCHeads ==
  LET Two(f(_, _)) == {f(a, b) : a, b \in MCTerms}
  IN Two(LAMBDA a, b : <<PlusBuild(<<<<a, b>>>>), Blank>>)
     \cup Two(LAMBDA a, b : <<PlusBuild(<<<<a>>, <<b>>>>), Blank>>)
     \cup Two(LAMBDA a, b : <<PlusBuild(<<<<a>>>>), Comment, PlusBuild(<<<<b>>>>), Blank>>)
     \cup Two(LAMBDA a, b : <<PlusBuild(<<<<a>>>>), Blank, PlusBuild(<<<<b>>>>), Code, Blank>>)
\* After further dots, a name may or may not end in "_test.go" whatever is
\* before the first.
Ends(name) == Len(name) > 1 /\ name[Len(name)] = "test"
File(name, test, head, tokens, regular) ==
  [name |-> name, test |-> test, go |-> TRUE, regular |-> regular, head |-> head,
   tokens |-> tokens]
Clause == <<"package", "name">>
Sources == {Clause, <<"package">>, <<"NUL">>, Clause \o <<"other">>,
            Clause \o <<"import", "p">>, Clause \o <<"import", "dot", "p", "other", "NUL">>,
            Clause \o <<"import", "name", "C", "import", "p">>,
            Clause \o <<"import", "(", "p", "name", "q", ")", "import", "C">>,
            Clause \o <<"import", "(", "p", "other", "q", ")">>,
            Clause \o <<"import", "p", "import", "(", "q", "NUL">>,
            Clause \o <<"import", "(", "rawC", "bad", ")">>,
            Clause \o <<"import", "p", "import", "other", "NUL">>}
Names == {<<"f">>, <<"">>, <<"linux">>, <<"", "linux">>, <<"f", "test">>, <<"f", "linux">>,
          <<"f", "linux", "test">>, <<"f", "amd64">>, <<"f", "x">>,
          <<"f", "linux", "amd64">>, <<"f", "amd64", "linux">>,
          <<"f", "android", "amd64", "test">>}
HeadJob ==
  \E head \in MCHeads, amd64 \in BOOLEAN, tags \in SUBSET {"linux", "android", "x"} :
    job = [kind |-> "scan", tags |-> tags,
           dir |-> {IF amd64 THEN File(<<"f", "amd64">>, FALSE, head, Clause \o <<"import", "C">>, TRUE)
                    ELSE File(<<"f">>, FALSE, head, Clause \o <<"import", "p">>, TRUE)}]
ScanJob ==
  \E f \in Names, g \in {<<"g">>, <<"g", "android">>}, s, t \in Sources,
     dotted, regular \in BOOLEAN, tags \in SUBSET {"linux", "android", "amd64", "cgo"} :
    /\ dotted => regular
    /\ job = [kind |-> "scan", tags |-> tags,
              dir |-> {File(f, Ends(f) # dotted, <<>>, s, regular),
                       File(g, FALSE, <<>>, t, TRUE)}]

LineCharacters == {"x", " ", "#", "'", "$"}
LineJob == \E line \in UpTo(LineCharacters, MaxLine) : job = [kind |-> "line", line |-> line]
WordsJob ==
  \E v, w \in UpTo(LineCharacters, 2), one \in BOOLEAN :
    job = [kind |-> "words", words |-> IF one THEN <<v>> ELSE <<v, w>>]
NameJob == \E name \in UpTo({"a", "b", "!"}, 5) : job = [kind |-> "name", line |-> name]

MCInit ==
  /\ \/ TextJob \/ DirJob \/ DiffJob \/ HeadJob \/ ScanJob
     \/ LineJob \/ WordsJob \/ NameJob
  /\ Init
MCSpec == MCInit /\ [][Next]_vars

\* Literals: "p" and "q", "C" and the raw `C`, and one that does not unquote.
MCLiteral ==
  [path \in {"p", "q", "C", "rawC", "bad"} |->
     IF path = "bad" THEN {} ELSE {IF path = "rawC" THEN "C" ELSE path}]
\* The value has the characters that mean something, as expand's result is
\* never looked at again.
MCValue == <<" ", "'", "#">>
MCCommands == {<<"a">>, <<"a", "b">>, <<"a", "b", "a">>, <<"b", "b", "a", "a">>}
MCCharacters == LineCharacters \cup {"a", "b", "!"}
=============================================================================
