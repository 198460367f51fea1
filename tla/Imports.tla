------------------------------ MODULE Imports -------------------------------
\* Package imports: which files of a directory are built under some tags, and
\* what those import.  A file is its name, split at "_" and without what follows
\* the first dot, whether the whole name ends in "_test.go", the lines of its
\* head, and its tokens without space and comments.  A string literal is itself,
\* as it is written.  Sequential and without state: operators only, for Texts.
EXTENDS Naturals, Sequences
Ext == INSTANCE FiniteSetsExt

CONSTANTS KnownOS, KnownArch, \* the names of systems and architectures
          Malformed,          \* tags with a character no tag has
          Paths,              \* the string literals in imports
          Literal             \* what strconv.Unquote makes of each: a set of at
                              \* most one string, empty for a literal it refuses

ASSUME PathsAssumption == DOMAIN Literal = Paths

AllTags == "*"
NoTag == ""

\* matchTag.  Under "*" a tag is both present and absent, but for "ignore".
\* A defect: under "*" it is only present.
MatchTagPresent(tag, tags, want) ==
  /\ tag \notin Malformed
  /\ IF AllTags \in tags /\ tag \notin {NoTag, "ignore"} THEN want
     ELSE (tag \in tags \/ (tag = "linux" /\ "android" \in tags)) = want
MatchTag(tag, tags, want) ==
  /\ tag \notin Malformed
  /\ \/ AllTags \in tags /\ tag \notin {NoTag, "ignore"}
     \/ (tag \in tags \/ (tag = "linux" /\ "android" \in tags)) = want

\* matchTags: an option is a comma-separated list of terms, each with a number of
\* exclamation marks.  (A single empty name never holds, one after "!" neither.)
MatchTerm(term, tags) ==
  term.bangs <= 1 /\ term.tag # NoTag /\ MatchTag(term.tag, tags, term.bangs = 0)
MatchTags(option, tags) ==
  \A n \in DOMAIN option : MatchTerm(option[n], tags)

\* ShouldBuild: the lines of the head that count are those before the last blank
\* line of the leading run of comments and blank lines.
Blank == [kind |-> "blank", options |-> <<>>]
Comment == [kind |-> "comment", options |-> <<>>]
Code == [kind |-> "code", options |-> <<>>]
PlusBuild(options) == [kind |-> "build", options |-> options]
HeadEnd(head) ==
  LET leading == {n \in DOMAIN head : \A k \in 1 .. n : head[k].kind # "code"}
  IN Ext!Max({n \in leading : head[n].kind = "blank"} \cup {0})
ShouldBuild(head, tags) ==
  \A n \in 1 .. HeadEnd(head) :
    head[n].kind = "build" =>
      \E i \in DOMAIN head[n].options : MatchTags(head[n].options[i], tags)

\* MatchFile: the system, the architecture or both at the end of the name, after
\* the first "_" and before "_test".  (Here "android" does not stand for "linux".)
Suffixes(name) ==
  LET parts == SubSeq(name, 2, Len(name))
      n == Len(parts)
  IN IF n > 0 /\ parts[n] = "test" THEN SubSeq(parts, 1, n - 1) ELSE parts
MatchFile(name, tags) ==
  LET l == Suffixes(name)
      n == Len(l)
  IN \/ AllTags \in tags
     \/ IF n >= 2 /\ l[n - 1] \in KnownOS /\ l[n] \in KnownArch
        THEN {l[n - 1], l[n]} \subseteq tags
        ELSE n >= 1 /\ l[n] \in KnownOS \cup KnownArch => l[n] \in tags

\* ReadImports: the package clause, then imports for as long as there are any.
\* At the end of the imports it stops; for a syntax error it keeps what it has
\* found and reads on to the end, so that only a NUL byte is an error.
At(tokens, i) == IF i > Len(tokens) THEN "EOF" ELSE tokens[i]
Idents == {"package", "import", "name"}
Stopped(tokens) == [list |-> {}, err |-> \E n \in DOMAIN tokens : tokens[n] = "NUL"]

\* readImport: an optional name or dot, and the path.
PathAt(tokens, i) == IF At(tokens, i) \in Idents \cup {"dot"} THEN i + 1 ELSE i

\* The imports from the i-th token on, inside parentheses or not.
ReadSpecs(tokens) ==
  LET With(path, found) == [found EXCEPT !.list = @ \cup {path}]
      from[i \in 1 .. Len(tokens) + 1, inside \in BOOLEAN] ==
        LET Path(j) ==
              LET at == PathAt(tokens, j)
              IN IF At(tokens, at) \in Paths
                 THEN With(tokens[at], from[at + 1, inside]) ELSE Stopped(tokens)
        IN CASE inside /\ At(tokens, i) = ")" -> from[i + 1, FALSE]
             [] inside /\ At(tokens, i) # ")" -> Path(i)
             [] ~inside /\ At(tokens, i) = "import" /\ At(tokens, i + 1) = "(" ->
                  from[i + 2, TRUE]
             [] ~inside /\ At(tokens, i) = "import" /\ At(tokens, i + 1) # "(" -> Path(i + 1)
             [] OTHER -> [list |-> {}, err |-> At(tokens, i) = "NUL"]
  IN from[3, FALSE]

ReadImports(tokens) ==
  IF At(tokens, 1) = "package" /\ At(tokens, 2) \in Idents
  THEN ReadSpecs(tokens) ELSE Stopped(tokens)

\* scanFiles.  A file that imports the literal "C" needs the tag cgo, named
\* explicitly or not; an import that does not unquote is passed over.
Counts(file, tags, explicitFiles) ==
  /\ "C" \in ReadImports(file.tokens).list => {"cgo", AllTags} \cap tags # {}
  /\ explicitFiles \/ ShouldBuild(file.head, tags)
Of(files, test) ==
  UNION {Literal[path] : path \in
           UNION {ReadImports(file.tokens).list : file \in {f \in files : f.test = test}}}
ScanFiles(files, tags, explicitFiles) ==
  LET counted == {file \in files : Counts(file, tags, explicitFiles)}
  IN IF \E file \in files : ReadImports(file.tokens).err
     THEN [err |-> "reading", imports |-> {}, testImports |-> {}]
     ELSE IF counted = {}
     THEN [err |-> "ErrNoGo", imports |-> {}, testImports |-> {}]
     ELSE [err |-> "none", imports |-> Of(counted, FALSE), testImports |-> Of(counted, TRUE)]

\* ScanDir: the regular files that are not hidden by "_" and whose names match.
\* (Before the dot of ".go" and of ".x.go" is one part too, an empty one.)
Listed(file, tags) ==
  /\ file.regular /\ file.go
  /\ ~(Len(file.name) > 1 /\ file.name[1] = "")
  /\ MatchFile(file.name, tags)
ScanDir(dir, tags) == ScanFiles({file \in dir : Listed(file, tags)}, tags, FALSE)
=============================================================================
