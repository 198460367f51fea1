------------------------------- MODULE Txtar --------------------------------
\* Package txtar and the commands around it: a directory becomes an archive
\* (txtar-c), the archive a text (Format), the text an archive again (Parse) and
\* that a directory (Write, for txtar-x and every script), where a script
\* unquotes what was quoted.  Lines are the unit: a text has lines, the last of
\* which may lack its newline.  All of it is sequential and without state, so
\* that the module only has operators; Texts applies them.
EXTENDS Naturals, Sequences, FiniteSets
S == INSTANCE SequencesExt
F == INSTANCE FiniteSetsExt

CONSTANTS Outside, \* the names that lead out of the directory
          NoName,  \* no file name
          Crash    \* in the place of a name: the slice in isMarker panics

\* A line is some number of ">" before a body.  Markers of files carry a name, and
\* may end in a carriage return.  Bare is the line "-- --", whose two halves
\* share a space, and Nameless a marker with nothing but white space inside.
Line(quotes, body) == [quotes |-> quotes, body |-> body]
Plain == <<"plain">>
Bare == <<"bare">>
Nameless == <<"nameless">>
Marker(name) == <<"marker", name>>
MarkerCR(name) == <<"marker", name, "CR">>
UnquoteLine(name) == <<"unquote", name>>

\* Bytes: lines, of which the last has its newline or not.
Text(lines, newline) == [lines |-> lines, newline |-> newline]
Empty == Text(<<>>, TRUE)
DropTo(data, n) == Text(SubSeq(data.lines, n, Len(data.lines)), data.newline)

FixNL(data) == Text(data.lines, TRUE)

\* isMarker at the n-th line.  A carriage return is only dropped before a newline;
\* for Bare the slice data[3:2] panics.
IsMarker(data, n) ==
  LET line == data.lines[n]
      ended == n < Len(data.lines) \/ data.newline
  IN IF line.quotes > 0 THEN NoName
     ELSE IF line.body = Bare THEN Crash
     ELSE IF line.body[1] # "marker" \/ (Len(line.body) = 3 /\ ~ended) THEN NoName
     ELSE line.body[2]

\* The data before the first marker, its name and the data after it; ended tells
\* that after is not nil, which it is for a last line without a newline.
FindFileMarker(data) ==
  LET marks == {n \in DOMAIN data.lines : IsMarker(data, n) # NoName}
      at == F!Min(marks)
  IN IF marks = {}
     THEN [before |-> FixNL(data), name |-> NoName, after |-> Empty, ended |-> FALSE]
     ELSE [before |-> Text(SubSeq(data.lines, 1, at - 1), TRUE),
           name |-> IsMarker(data, at),
           after |-> DropTo(data, at + 1),
           ended |-> at < Len(data.lines) \/ data.newline]

\* The files of the data from the marker at its n-th line on.
FilesFrom(data, n) ==
  LET from[k \in 1 .. Len(data.lines)] ==
        LET found == FindFileMarker(DropTo(data, k + 1))
            file == <<[name |-> IsMarker(data, k), data |-> found.before]>>
        IN IF found.name \in {NoName, Crash} THEN file
           ELSE file \o from[k + Len(found.before.lines) + 1]
  IN from[n]

\* Parse looks at every line, and so panics if one is bare.
Crashes(data) == Line(0, Bare) \in S!ToSet(data.lines)
Parse(data) ==
  LET found == FindFileMarker(data)
  IN [comment |-> found.before,
      files |-> IF found.name \in {NoName, Crash} THEN <<>>
                ELSE FilesFrom(data, Len(found.before.lines) + 1)]

\* txtar.Format of golang.org/x/tools, as this package uses it.
Format(archive) ==
  Text(archive.comment.lines \o
       S!FlattenSeq([i \in DOMAIN archive.files |->
         <<Line(0, Marker(archive.files[i].name))>> \o archive.files[i].data.lines]),
       TRUE)

\* A defect: only the first line is looked at.
NeedsQuoteFirst(data) ==
  data.lines # <<>> /\ IsMarker(data, 1) # NoName
NeedsQuote(data) == FindFileMarker(data).ended

CanQuote(data) == data.newline
Quote(data) ==
  Text([n \in DOMAIN data.lines |-> Line(data.lines[n].quotes + 1, data.lines[n].body)],
       data.newline)

CanUnquote(data) == data = Empty \/ (data.lines[1].quotes > 0 /\ data.newline)
Unquote(data) ==
  LET Less(quotes) == IF quotes > 0 THEN quotes - 1 ELSE 0
  IN Text([n \in DOMAIN data.lines |-> Line(Less(data.lines[n].quotes), data.lines[n].body)],
          data.newline)

\* txtar-c: the archive of a directory, whose entries come in the order of
\* filepath.Walk.  An entry is hidden if a part of its path begins with a dot.
\* (Quote cannot fail here: the data has a final newline and is valid UTF-8.)
Taken(entry, all) == (all \/ ~entry.hidden) /\ entry.regular /\ entry.utf8
Included(entry, quote, all) ==
  Taken(entry, all) /\ (quote \/ ~NeedsQuote(FixNL(entry.data)))
Add(archive, entry, quote, all) ==
  LET data == FixNL(entry.data)
      quoted == NeedsQuote(data)
      file == [name |-> entry.name, data |-> IF quoted THEN Quote(data) ELSE data]
      note == Line(0, UnquoteLine(entry.name))
  IN IF ~Included(entry, quote, all) THEN archive
     ELSE [comment |-> IF quoted THEN Text(Append(archive.comment.lines, note), TRUE)
                       ELSE archive.comment,
           files |-> Append(archive.files, file)]
SaveDir(entries, quote, all) ==
  LET upTo[n \in 0 .. Len(entries)] ==
        IF n = 0 THEN [comment |-> Empty, files |-> <<>>]
        ELSE Add(upTo[n - 1], entries[n], quote, all)
  IN upTo[Len(entries)]

\* Write: the files in their order, up to the first that leads outside or exists.
Write(archive) ==
  LET Stops(i) == \/ archive.files[i].name \in Outside
                  \/ \E j \in 1 .. i - 1 : archive.files[j].name = archive.files[i].name
      wrong == {i \in DOMAIN archive.files : Stops(i)}
      written == IF wrong = {} THEN DOMAIN archive.files ELSE 1 .. F!Min(wrong) - 1
  IN [err |-> wrong # {},
      tree |-> {archive.files[i] : i \in written}]

\* The commands "unquote name" at the head of the script, on the files written.
UnquoteAll(archive, tree) ==
  {IF Line(0, UnquoteLine(file.name)) \in S!ToSet(archive.comment.lines)
   THEN [file EXCEPT !.data = Unquote(@)] ELSE file : file \in tree}
=============================================================================
