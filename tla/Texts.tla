-------------------------------- MODULE Texts --------------------------------
\* The packages that only compute: txtar with its commands, diff, imports, and
\* the lines of a script.  A behaviour takes one input (job) and applies the
\* program to it; what comes out is compared with what a reader would say it
\* should be, stated in another way than it is computed.
EXTENDS Naturals, Sequences, FiniteSets, Diff, Imports

Q == INSTANCE SequencesExt

CONSTANTS Outside, NoName, Crash, \* of Txtar
          Value, Commands,        \* of ScriptLine
          FileNames,              \* names of files in an archive
          Strings,                \* what the lines of a diff's sides may say
          Characters,             \* of a script's line
          TagNames,               \* well-formed tags that a build may ask for
          Parts                   \* the parts of the names of Go files

Tx == INSTANCE Txtar
Sl == INSTANCE ScriptLine

VARIABLES job,    \* the input
          done,   \* it was worked on
          result  \* and this came out
vars == <<job, done, result>>

\* What stands for no name is none; one of the names is "a".
ASSUME FilesAssumption ==
  "a" \in FileNames /\ NoName \notin FileNames /\ Crash \notin FileNames /\ NoName # Crash

\* "ignore" is for a tag that is never asked for, and what is listed as a system
\* or an architecture is one word.
ASSUME TagsAssumption ==
  /\ {"cgo", "linux", "android"} \cup KnownOS \cup KnownArch \subseteq TagNames
  /\ TagNames \cap ({AllTags, NoTag, "ignore"} \cup Malformed) = {}

\* Names of commands and what is expanded are text.
ASSUME LinesAssumption == Value \in Seq(Characters) /\ Commands \subseteq Seq(Characters)

\*---------------------------------------------------------------- the inputs
\* Bytes as lines of a set, of which the last has its newline or not.
Bytes(set) == {t \in [lines : Seq(set), newline : BOOLEAN] : t.lines = <<>> => t.newline}

FileLines ==
  [quotes : Nat,
   body : {Tx!Plain, Tx!Bare, Tx!Nameless}
            \cup {Tx!Marker(name) : name \in FileNames}
            \cup {Tx!MarkerCR(name) : name \in FileNames}]
Entries ==
  [name : FileNames \ Outside, data : Bytes(FileLines), hidden : BOOLEAN,
   regular : BOOLEAN, utf8 : BOOLEAN]
\* filepath.Walk comes to each entry once.
Walks == {w \in Seq(Entries) : \A i, k \in DOMAIN w : w[i].name = w[k].name => i = k}

Terms == [bangs : Nat, tag : TagNames \cup Malformed \cup {NoTag, "ignore"}]
Heads ==
  Seq([kind : {"build"}, options : Seq(Seq(Terms))] \cup {Blank, Comment, Code})
Tokens == Idents \cup Paths \cup {"dot", "(", ")", "other", "NUL"}
GoFiles ==
  [name : Seq(Parts) \ {<<>>}, test : BOOLEAN, go : BOOLEAN, regular : BOOLEAN, head : Heads,
   tokens : Seq(Tokens)]

Jobs ==
  [kind : {"text"}, text : Bytes(FileLines)]
    \cup [kind : {"dir"}, entries : Walks, quote : BOOLEAN, all : BOOLEAN]
    \cup [kind : {"diff"}, old : Bytes(Strings), new : Bytes(Strings)]
    \cup [kind : {"scan"}, dir : SUBSET GoFiles, tags : SUBSET TagNames]
    \cup [kind : {"line", "name"}, line : Seq(Characters)]
    \cup [kind : {"words"}, words : Seq(Seq(Characters))]

\* How one writes a line so that the words become its arguments.
InQuotes(word) ==
  <<Sl!QuoteMark>>
    \o Q!FlattenSeq([n \in DOMAIN word |->
         IF word[n] = Sl!QuoteMark THEN <<Sl!QuoteMark, Sl!QuoteMark>> ELSE <<word[n]>>])
    \o <<Sl!QuoteMark>>
AllInQuotes(words) ==
  Q!FlattenSeq([n \in DOMAIN words |-> InQuotes(words[n]) \o <<Sl!Space>>])

Init == job \in Jobs /\ done = FALSE /\ result = <<>>

\*----------------------------------------------------------------- the program
Start(kinds) == ~done /\ done' = TRUE /\ job.kind \in kinds /\ UNCHANGED job

ParseText ==
  /\ Start({"text"})
  /\ result' = Tx!Parse(job.text)
Archive ==
  /\ Start({"dir"})
  /\ result' = Tx!SaveDir(job.entries, job.quote, job.all)
Compare ==
  /\ Start({"diff"})
  /\ result' = Diff(job.old, job.new)
Scan ==
  /\ Start({"scan"})
  /\ result' = ScanDir(job.dir, job.tags)
ParseLine ==
  /\ Start({"line"})
  /\ result' = Sl!Parse(job.line)
\* A line that was written to have these arguments: each is between quotes.
ParseWords ==
  /\ Start({"words"})
  /\ result' = Sl!Parse(AllInQuotes(job.words))
Suggest ==
  /\ Start({"name"})
  /\ result' = Sl!Suggestions(job.line)

Next == ParseText \/ Archive \/ Compare \/ Scan \/ ParseLine \/ ParseWords \/ Suggest
Spec == Init /\ [][Next]_vars

Over(kind) == done /\ job.kind = kind


\*------------------------------------------------------------------- txtar
\* What is parsed has no marker left in it, and formatted and parsed again is the
\* same.  A text needs quoting exactly if it is not found again when it is put in
\* an archive, and quoted it is.  (Not if a last line without a newline becomes a
\* marker by getting one, or the line "-- --" makes Parse panic.)
TextRight(t, parsed) ==
  LET Alone(data) == [comment |-> Tx!Empty, files |-> <<[name |-> "a", data |-> data]>>]
      Found(data) == Tx!Parse(Tx!Format(Alone(data))) = Alone(data)
      whole == t.newline \/ Len(Q!Last(t.lines).body) < 3
  IN /\ whole /\ ~Tx!Crashes(t) =>
          /\ Tx!Parse(Tx!Format(parsed)) = parsed
          /\ ~Tx!NeedsQuote(parsed.comment)
          /\ \A n \in DOMAIN parsed.files : ~Tx!NeedsQuote(parsed.files[n].data)
          /\ t.newline => (Tx!NeedsQuote(t) <=> ~Found(t))
     /\ Tx!CanQuote(t) =>
          LET quoted == Tx!Quote(t)
          IN Found(quoted) /\ Tx!CanUnquote(quoted) /\ Tx!Unquote(quoted) = t

\* A directory that txtar-c saved, once extracted and unquoted as the comment
\* says, has the files that were to be saved, each with a final newline.
DirRight(entries, quote, all, archive) ==
  LET readable == \A n \in DOMAIN entries :
                    Tx!Taken(entries[n], all) => ~Tx!Crashes(entries[n].data)
      back == Tx!Parse(Tx!Format(archive))
      out == Tx!Write(back)
      QuotedFile(file) ==
        Tx!Line(0, Tx!UnquoteLine(file.name)) \in Q!ToSet(back.comment.lines)
      saved == {e \in Q!ToSet(entries) : Tx!Included(e, quote, all)}
  IN readable =>
       /\ ~out.err
       /\ \A file \in out.tree : QuotedFile(file) => Tx!CanUnquote(file.data)
       /\ Tx!UnquoteAll(back, out.tree) =
            {[name |-> e.name, data |-> Tx!FixNL(e.data)] : e \in saved}
       /\ quote => saved = {e \in Q!ToSet(entries) : Tx!Taken(e, all)}

\* Archives keep what is put into them (archive.go:69-188, savedir.go:39-106).
TxtarRight ==
  /\ Over("text") => TextRight(job.text, result)
  /\ Over("dir") => DirRight(job.entries, job.quote, job.all, result)

\*-------------------------------------------------------------------- diff
\* Of the first k lines of a chunk, how many the side with a tag has; and that
\* these are the lines of the text x after so many.
Count(text, tag, k) == Cardinality({n \in 1 .. k : text[n][1] \in {Kept, tag}})
Says(text, tag, x, from) ==
  \A k \in DOMAIN text :
    text[k][1] \in {Kept, tag} => text[k][2] = x[from + Count(text, tag, k)]
From(start, count) == IF count > 0 THEN start - 1 ELSE start
Begin(chunk) == Pair(From(chunk.start.x, chunk.count.x), From(chunk.start.y, chunk.count.y))
End(chunk) == Pair(Begin(chunk).x + chunk.count.x, Begin(chunk).y + chunk.count.y)

\* A chunk has the lines that its header says, which are there, changes something,
\* and begins and ends with C lines of context at most.
ChunkRight(x, y, chunk) ==
  LET text == chunk.text
      all == Len(text)
      Changed == {n \in DOMAIN text : text[n][1] # Kept}
  IN /\ chunk.count = Pair(Count(text, Deleted, all), Count(text, Inserted, all))
     /\ End(chunk).x <= Len(x) /\ End(chunk).y <= Len(y)
     /\ Says(text, Deleted, x, From(chunk.start.x, chunk.count.x))
     /\ Says(text, Inserted, y, From(chunk.start.y, chunk.count.y))
     /\ \E n \in Changed : n <= C + 1
     /\ \E n \in Changed : n >= all - C

\* The chunks say all that changes, in order: before, between and after them the
\* two sides are the same.
Unchanged(x, y, a, b) == a.x <= b.x /\ a.y <= b.y /\ Slice(x, a.x, b.x) = Slice(y, a.y, b.y)
Patches(x, y, out) ==
  LET from(i) == IF i > Len(out) THEN Pair(Len(x), Len(y)) ELSE Begin(out[i])
      to(i) == IF i = 0 THEN Pair(0, 0) ELSE End(out[i])
  IN /\ \A i \in DOMAIN out : ChunkRight(x, y, out[i])
     /\ \A i \in 0 .. Len(out) : Unchanged(x, y, to(i), from(i + 1))

\* Of the lines unique in both texts as many as possible are kept: no set of them
\* that is in the same order on both sides is larger than the set of those kept.
InOrder(x, y, set) ==
  \A i, k \in DOMAIN x, j, l \in DOMAIN y :
    x[i] \in set /\ x[k] \in set /\ x[i] = y[j] /\ x[k] = y[l] => (i < k => j < l)
Removes(text, s) == \E n \in DOMAIN text : text[n] = <<Deleted, s>>
OutRemoves(out, s) == \E i \in DOMAIN out : Removes(out[i].text, s)
Anchored(x, y, out) ==
  LET u == Uniques(x, y)
      kept == {s \in u : ~OutRemoves(out, s)}
  IN /\ InOrder(x, y, kept)
     /\ \A set \in SUBSET u : InOrder(x, y, set) => Cardinality(set) <= Cardinality(kept)

\* A diff is empty for equal texts only, can be applied, and is anchored at as
\* many unique lines as possible (diff.go:19-46, 163-176).
DiffRight ==
  Over("diff") =>
    LET x == Lines(job.old)
        y == Lines(job.new)
    IN /\ result = <<>> <=> job.old = job.new
       /\ Patches(x, y, result)
       /\ Anchored(x, y, result)

\*----------------------------------------------------------------- imports
\* What the head of a file asks for: no two of its terms have the same tag, and
\* what they ask for has nothing to do with what its name or cgo ask for.
Asked(head) ==
  UNION {UNION {{head[n].options[i][k].tag : k \in DOMAIN head[n].options[i]} :
                  i \in DOMAIN head[n].options} : n \in DOMAIN head}
AskedOnce(head) ==
  \A n, m \in DOMAIN head :
    \A i \in DOMAIN head[n].options, j \in DOMAIN head[m].options :
      \A k \in DOMAIN head[n].options[i], l \in DOMAIN head[m].options[j] :
        head[n].options[i][k].tag = head[m].options[j][l].tag => n = m /\ i = j /\ k = l
Others(file) == {"cgo"} \cup {Suffixes(file.name)[n] : n \in DOMAIN Suffixes(file.name)}
Independent(file) ==
  /\ AskedOnce(file.head)
  /\ Asked(file.head) \cap Others(file) = {}
  /\ ~({"linux", "android"} \subseteq Asked(file.head) \cup Others(file))

\* What is found under some tags is found under "*".
Covers(any, some) ==
  /\ some.err = "reading" => any.err = "reading"
  /\ any.err # "reading" =>
       /\ any.err = "ErrNoGo" => some.err = "ErrNoGo"
       /\ some.imports \subseteq any.imports
       /\ some.testImports \subseteq any.testImports

\* A file whose conditions are independent is found under "*" only if it is found
\* under some tags.
Sharp(dir, any) ==
  \A file \in dir :
    dir = {file} /\ any.err = "none" /\ Independent(file) =>
      \E tags \in SUBSET TagNames : ScanDir(dir, tags) = any

\* ShouldBuild and MatchFile estimate conservatively under "*" (build.go:29-34,
\* 155-157), and ScanDir with them (scan.go:16-82).
BuildRight ==
  Over("scan") =>
    LET any == ScanDir(job.dir, {AllTags})
    IN Covers(any, result) /\ Sharp(job.dir, any)

\*------------------------------------------------------------------ lines
\* A place is outside quotes if an even number of quotes is before it.
Outer(line, n) == Cardinality({k \in 1 .. n - 1 : line[k] = Sl!QuoteMark}) % 2 = 0

\* A comment is from the first "#" outside on, and blanks outside part the
\* arguments, which are the longest stretches between them.
IsComment(line, n) == line[n] = Sl!Hash /\ Outer(line, n)
IsCode(line, n) == \A k \in 1 .. n : ~IsComment(line, k)
IsBlank(line, n) == line[n] = Sl!Space /\ Outer(line, n)
IsArg(line, n, m) ==
  /\ \A k \in n .. m : IsCode(line, k) /\ ~IsBlank(line, k)
  /\ n > 1 => IsBlank(line, n - 1)
  /\ m < Len(line) => IsBlank(line, m + 1) \/ IsComment(line, m + 1)
Starts(line) ==
  {n \in DOMAIN line : /\ IsCode(line, n) /\ ~IsBlank(line, n)
                       /\ n > 1 => IsBlank(line, n - 1)}

\* Inside, a pair of quotes stands for one; other quotes stand for nothing.
Means(line, n) ==
  CASE line[n] = Sl!QuoteMark ->
         IF ~Outer(line, n) /\ n < Len(line) /\ line[n + 1] = Sl!QuoteMark
         THEN <<Sl!QuoteMark>> ELSE <<>>
    [] line[n] = Sl!Variable /\ Outer(line, n) -> Value
    [] OTHER -> <<line[n]>>
Meaning(line, n, m) == Q!FlattenSeq([k \in 1 .. m - n + 1 |-> Means(line, n + k - 1)])

\* The arguments of a line, in their order.
ArgsRight(line, args) ==
  IF IsCode(line, Len(line)) /\ ~Outer(line, Len(line) + 1)
  THEN args = Sl!Unterminated
  ELSE /\ Len(args) = Cardinality(Starts(line))
       /\ \A n \in DOMAIN line, m \in DOMAIN line :
            n <= m /\ IsArg(line, n, m) =>
              args[Cardinality({k \in Starts(line) : k <= n})] = Meaning(line, n, m)

\* At most one character more, less or other, or two neighbours exchanged.
Dropped(s, n) == SubSeq(s, 1, n - 1) \o SubSeq(s, n + 1, Len(s))
Swapped(s, n) == [s EXCEPT ![n] = s[n + 1], ![n + 1] = s[n]]
Near(a, b) ==
  \/ a = b
  \/ \E n \in DOMAIN a : Dropped(a, n) = b
  \/ \E n \in DOMAIN b : Dropped(b, n) = a
  \/ Len(a) = Len(b) /\ \E n \in DOMAIN a : Dropped(a, n) = Dropped(b, n)
  \/ \E n \in 1 .. Len(a) - 1 : Swapped(a, n) = b

\* What is suggested for an unknown command.
NameRight(name, found) ==
  IF \E c \in Commands : name = <<Sl!Bang>> \o c
  THEN \E c \in Commands : name = <<Sl!Bang>> \o c /\ found = {<<Sl!Bang, Sl!Space>> \o c}
  ELSE found = {c \in Commands : Near(name, c)}

\* A line gives the arguments its quotes say, and what is quoted comes out as it
\* was, whatever it is; an unknown command is compared with all that are within
\* one typing error (testscript.go:1259-1318, 775-802, misspell.go:8-14).
LineRight ==
  /\ Over("line") => ArgsRight(job.line, result)
  /\ Over("words") => result = job.words
  /\ Over("name") => NameRight(job.line, result)
=============================================================================
