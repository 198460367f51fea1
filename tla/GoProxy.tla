------------------------------- MODULE GoProxy -------------------------------
(***************************************************************************)
(* The module proxy of goproxytest, for one module path: the handlers of   *)
(* requests that run at once, and the two par.Caches they share (see       *)
(* ParCache; here an entry is unread, being computed, or has its value).   *)
(* Versions are numbered in semver order.                                  *)
(***************************************************************************)
EXTENDS Integers, Sequences, FiniteSets

X == INSTANCE SequencesExt

CONSTANTS
  Clients,
  Versions, Releases, Pseudo,  \* the versions; those that are no pre-releases; pseudo-versions
  Short,                       \* the commit hash in the .info of each, <<>> if there is none
  Revisions                    \* the commit hashes, or parts of them, clients ask for

Unknown == 0    \* the name of no version

ASSUME GoProxyAssumption ==
  /\ Versions \subseteq Nat \ {Unknown} /\ IsFiniteSet(Versions)
  /\ Releases \subseteq Versions /\ Pseudo \subseteq Versions \ Releases
  /\ Short \in [Versions -> Seq(Nat)] /\ Revisions \subseteq Seq(Nat)

VARIABLES
  server,      \* "down", "up" or "closed"
  modList,     \* the versions found when the server was started
  disk,        \* each archive: "absent", "broken" or the number of its edition
  archives,    \* archiveCache: "unread", "busy" or what was read
  zips,        \* zipCache, for the archives of archiveCache
  handler,     \* what the handler of each client's request is doing
  answers,     \* ghost: what clients were given
  editions     \* ghost: what was on the disk while the server ran

proxyVars == <<server, modList, disk, archives, zips, handler, answers, editions>>

Kinds == {"info", "zip", "latest", "revision"}

NoRequest == [at |-> "idle", kind |-> "none", rev |-> <<>>, vers |-> Unknown, best |-> Unknown,
              rest |-> <<>>, got |-> "absent", open |-> FALSE]

\* os.ReadDir lists the files by name, which is not the order of the versions in them.
Listings(S) == {list \in [1 .. Cardinality(S) -> S] : {list[i] : i \in DOMAIN list} = S}

ProxyInit(files) ==
  /\ server = "down" /\ modList = <<>>
  /\ disk = files
  /\ archives = [v \in Versions \cup {Unknown} |-> "unread"]
  /\ zips = [v \in Versions |-> "unread"]
  /\ handler = [c \in Clients |-> NoRequest]
  /\ answers = {} /\ editions = [v \in Versions \cup {Unknown} |-> {}]

\* NewServer and readModList.
StartServer ==
  /\ server' = "up"
  /\ modList' \in Listings({v \in Versions : disk[v] # "absent"})
  /\ editions' = [v \in DOMAIN editions |-> {disk[v]}]
  /\ UNCHANGED <<disk, archives, zips, handler, answers>>

\* Close closes the connections too; handlers are not waited for.
CloseServer ==
  /\ server' = IF server = "up" THEN "closed" ELSE server
  /\ handler' = [c \in Clients |-> [handler[c] EXCEPT !.open = FALSE]]
  /\ UNCHANGED <<modList, disk, archives, zips, answers, editions>>

\* The script writes a new edition of an archive.
Rewrite(v) ==
  /\ disk' = [disk EXCEPT ![v] = IF @ = "first" THEN "second" ELSE "first"]
  /\ editions' = [editions EXCEPT ![v] = IF server = "up" THEN @ \cup {disk'[v]} ELSE @]
  /\ UNCHANGED <<server, modList, archives, zips, handler, answers>>

\* The directory of the script is removed.
DiskGone ==
  /\ disk' = [v \in DOMAIN disk |-> "absent"]
  /\ editions' = [v \in DOMAIN editions |-> IF server = "up" THEN editions[v] \cup {"absent"} ELSE editions[v]]
  /\ UNCHANGED <<server, modList, archives, zips, handler, answers>>

-----------------------------------------------------------------------------
(* The handler                                                             *)

MaxOf(S) == IF S = {} THEN Unknown ELSE X!Max(S)

Known == {modList[i] : i \in 1 .. Len(modList)}

\* latestVersion: two candidates are kept while the list is gone through.
Latest ==
  LET upTo[n \in 0 .. Len(modList)] ==
        IF n = 0 THEN [release |-> Unknown, any |-> Unknown]
        ELSE LET b == upTo[n - 1]
                 v == modList[n]
             IN  [release |-> IF v \in Releases /\ v > b.release THEN v ELSE b.release,
                  any |-> IF v > b.any THEN v ELSE b.any]
      last == upTo[Len(modList)]
  IN  IF last.release # Unknown THEN last.release ELSE last.any

Set(c, r) == handler' = [handler EXCEPT ![c] = r]

\* What the handler does first with a request.
Request(c, kind, v, rev) ==
  /\ server = "up" /\ handler[c].at = "idle"
  /\ LET r == [NoRequest EXCEPT !.kind = kind, !.open = TRUE] IN
       CASE kind = "latest" -> Set(c, [r EXCEPT !.at = IF Latest = Unknown THEN "answer" ELSE "archive", !.vers = Latest])
         [] kind = "revision" -> Set(c, [r EXCEPT !.at = "resolve", !.rev = rev, !.rest = modList])
         [] OTHER -> Set(c, [r EXCEPT !.at = "archive", !.vers = v])
  /\ UNCHANGED <<server, modList, disk, archives, zips, answers, editions>>

\* An archive without a hash is taken for any revision.
Matches(hash, rev) == X!IsPrefix(rev, hash) \/ X!IsPrefix(hash, rev)

\* The next version of the list, if it is later than the best so far; a pseudo-version
\* has its hash in its name, another in its archive.
Resolve(c) ==
  LET r == handler[c]
      v == Head(r.rest)
      next == [r EXCEPT !.rest = Tail(@)]
  IN
  /\ r.at = "resolve"
  /\ CASE r.rest = <<>> -> Set(c, [r EXCEPT !.at = "archive", !.vers = r.best])
       [] r.rest # <<>> /\ v <= r.best -> Set(c, next)
       [] r.rest # <<>> /\ v > r.best /\ v \in Pseudo ->
            Set(c, IF Matches(Short[v], r.rev) THEN [next EXCEPT !.best = v] ELSE next)
       [] OTHER -> Set(c, [r EXCEPT !.at = "archive", !.vers = v])
  /\ UNCHANGED <<server, modList, disk, archives, zips, answers, editions>>

\* findHash has the archive.
Hashed(c, a) ==
  LET r == handler[c]
      hash == IF a = "absent" THEN <<>> ELSE Short[r.vers]
  IN  [r EXCEPT !.at = "resolve", !.rest = Tail(@), !.vers = Unknown,
                !.best = IF Matches(hash, r.rev) THEN r.vers ELSE @]

\* What follows readArchive.
WithArchive(c, a) ==
  LET r == handler[c] IN
  CASE r.kind = "revision" /\ r.rest # <<>> -> Hashed(c, a)
    [] r.kind = "zip" /\ a # "absent" -> [r EXCEPT !.at = "zip"]
    [] OTHER -> [r EXCEPT !.at = "answer", !.got = a]

\* A defect: what is not there is not remembered.
LookUpPresent(c) ==
  LET a == archives[handler[c].vers] IN
  /\ handler[c].at = "archive" /\ a # "busy"
  /\ IF a \in {"unread", "absent"}
       THEN archives' = [archives EXCEPT ![handler[c].vers] = "busy"] /\ Set(c, [handler[c] EXCEPT !.at = "read"])
       ELSE Set(c, WithArchive(c, a)) /\ UNCHANGED archives
  /\ UNCHANGED <<server, modList, disk, zips, answers, editions>>

\* readArchive: Do of archiveCache, which waits while another handler reads.
LookUp(c) ==
  LET a == archives[handler[c].vers] IN
  /\ handler[c].at = "archive" /\ a # "busy"
  /\ IF a = "unread"
       THEN archives' = [archives EXCEPT ![handler[c].vers] = "busy"] /\ Set(c, [handler[c] EXCEPT !.at = "read"])
       ELSE Set(c, WithArchive(c, a)) /\ UNCHANGED archives
  /\ UNCHANGED <<server, modList, disk, zips, answers, editions>>

\* A defect: there is no archive to add the default files to when none is there.
ReadNil(c) ==
  LET r == handler[c] IN
  /\ r.at = "read"
  /\ IF disk[r.vers] \in {"absent", "broken"}
       THEN Set(c, NoRequest) /\ UNCHANGED archives
       ELSE /\ archives' = [archives EXCEPT ![r.vers] = disk[r.vers]]
            /\ Set(c, WithArchive(c, disk[r.vers]))
  /\ UNCHANGED <<server, modList, disk, zips, answers, editions>>

\* The archive is read, as a .txtar, a .txt or a directory, and in one step: a mixture that
\* a rewrite meanwhile leaves in a directory read file by file is left out.  One that is there and cannot be
\* read is a panic in addDefaultFiles, which net/http recovers: its entry stays locked.
Read(c) ==
  LET r == handler[c] IN
  /\ r.at = "read"
  /\ IF disk[r.vers] = "broken"
       THEN Set(c, NoRequest) /\ UNCHANGED archives
       ELSE /\ archives' = [archives EXCEPT ![r.vers] = disk[r.vers]]
            /\ Set(c, WithArchive(c, disk[r.vers]))
  /\ UNCHANGED <<server, modList, disk, zips, answers, editions>>

\* Do of zipCache.
Zip(c) ==
  LET r == handler[c] IN
  /\ r.at = "zip" /\ zips[r.vers] # "busy"
  /\ IF zips[r.vers] = "unread"
       THEN zips' = [zips EXCEPT ![r.vers] = "busy"] /\ Set(c, [r EXCEPT !.at = "zipping"])
       ELSE Set(c, [r EXCEPT !.at = "answer", !.got = zips[r.vers]]) /\ UNCHANGED zips
  /\ UNCHANGED <<server, modList, disk, archives, answers, editions>>

MakeZip(c) ==
  LET r == handler[c] IN
  /\ r.at = "zipping"
  /\ zips' = [zips EXCEPT ![r.vers] = archives[r.vers]]
  /\ Set(c, [r EXCEPT !.at = "answer", !.got = archives[r.vers]])
  /\ UNCHANGED <<server, modList, disk, archives, answers, editions>>

\* The file, or 404 if there is none; nobody gets it on a closed connection.
Answer(c) ==
  LET r == handler[c] IN
  /\ r.at = "answer"
  /\ answers' = IF r.open THEN answers \cup {[kind |-> r.kind, rev |-> r.rev, vers |-> r.vers, got |-> r.got]}
                          ELSE answers
  /\ Set(c, NoRequest)
  /\ UNCHANGED <<server, modList, disk, archives, zips, editions>>

Handle(c) == Resolve(c) \/ LookUp(c) \/ Read(c) \/ Zip(c) \/ MakeZip(c) \/ Answer(c)

-----------------------------------------------------------------------------
\* The version that is right for a revision: the latest whose hash goes with it.
Resolved(rev) ==
  MaxOf({v \in Known : Matches(IF v \in Pseudo \/ archives[v] # "absent" THEN Short[v] ELSE <<>>, rev)})

\* What clients are given, by handlers that run at once, beside a script that rewrites the
\* archives and at last removes them: all answers about a version are of one edition that was
\* there while the server ran, and the latest version and that of a revision are resolved
\* rightly (goproxytest/proxy.go:148-315, 350, 424-441).
ServedRight ==
  /\ \A a, b \in answers : a.vers = b.vers => a.got = b.got
  /\ \A a \in answers :
       /\ a.vers # Unknown => a.got \in editions[a.vers]
       /\ a.kind = "latest" =>
            a.vers = MaxOf(IF Known \cap Releases = {} THEN Known ELSE Known \cap Releases)
       /\ a.kind = "revision" => a.vers = Resolved(a.rev)
=============================================================================
