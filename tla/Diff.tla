-------------------------------- MODULE Diff --------------------------------
\* Package diff: the anchored diff of two texts.  tgs finds a longest common
\* subsequence of the lines that are unique in both, and Diff grows each match
\* over its equal neighbours and prints what lies between in chunks with C lines
\* of context.  Sequential and without state: operators only, for Texts.  A loop
\* is the function from the number of its iterations to what it has computed.
EXTENDS Naturals, Sequences
Sets == INSTANCE FiniteSetsExt

CONSTANT C \* lines of context: 3 in the code

ASSUME DiffAssumption == C \in Nat \ {0}

\* Positions count from 0, as in the code: Slice(x, a, b) is x[a:b].
Pair(i, j) == [x |-> i, y |-> j]
Slice(x, a, b) == SubSeq(x, a + 1, b)

\* The lines of a text.  A last one without a newline is never equal to another
\* with one, as it carries the remark about it.
Lines(t) ==
  [n \in DOMAIN t.lines |-> <<t.lines[n], n < Len(t.lines) \/ t.newline>>]

\* tgs.  The counts 0, 1, many of both sides in one number only serve to tell
\* that a line occurs once in each.
Once(x, s) == \E i \in DOMAIN x : x[i] = s /\ \A k \in DOMAIN x : x[k] = s => k = i
Uniques(x, y) == {s \in {x[i] : i \in DOMAIN x} : Once(x, s) /\ Once(y, s)}
Positions(x, u) ==
  LET upTo[n \in 0 .. Len(x)] ==
        IF n = 0 THEN <<>>
        ELSE IF x[n] \in u THEN Append(upTo[n - 1], n) ELSE upTo[n - 1]
  IN upTo[Len(x)]

\* J[i] is the rank in y of the i-th unique line of x.
Ranks(x, y, xi, yi) == [i \in DOMAIN xi |-> CHOOSE j \in DOMAIN yi : y[yi[j]] = x[xi[i]]]

\* Algorithm A of Szymanski: T[k] is the least J that ends a common subsequence of
\* length k, and L[i] the length of the longest that ends with i.
Place(st, j) ==
  LET k == Sets!Min({k \in DOMAIN st.T : st.T[k] >= j})
  IN [T |-> [st.T EXCEPT ![k] = j], L |-> Append(st.L, k)]
Lengths(J) ==
  LET n == Len(J)
      upTo[i \in 0 .. n] ==
        IF i = 0 THEN [T |-> [k \in 1 .. n |-> n + 1], L |-> <<>>]
        ELSE Place(upTo[i - 1], J[i])
  IN upTo[n].L

\* From the end, the last i of each length.  (The bound lastj is never lowered.)
Longest(L) == Sets!Max({L[i] : i \in DOMAIN L} \cup {0})
Take(st, L, i) ==
  IF L[i] # st.k THEN st ELSE [k |-> st.k - 1, seq |-> <<i>> \o st.seq]
Chosen(L) ==
  LET n == Len(L)
      after[i \in 0 .. n] ==
        IF i = 0 THEN [k |-> Longest(L), seq |-> <<>>]
        ELSE Take(after[i - 1], L, n + 1 - i)
  IN after[n].seq

Tgs(x, y) ==
  LET u == Uniques(x, y)
      xi == Positions(x, u)
      yi == Positions(y, u)
      J == Ranks(x, y, xi, yi)
      chosen == Chosen(Lengths(J))
      seq == [n \in DOMAIN chosen |-> Pair(xi[chosen[n]] - 1, yi[J[chosen[n]]] - 1)]
  IN <<Pair(0, 0)>> \o seq \o <<Pair(Len(x), Len(y))>>

\* What is said of a line.
Kept == " "
Deleted == "-"
Inserted == "+"

\* The chunk that is being put together: where it starts, its lines so far and,
\* counted as they are added, how many come from each side.
Add(chunk, tag, lines) ==
  [chunk EXCEPT
     !.text = @ \o [n \in DOMAIN lines |-> <<tag, lines[n]>>],
     !.count = Pair(@.x + IF tag # Inserted THEN Len(lines) ELSE 0,
                    @.y + IF tag # Deleted THEN Len(lines) ELSE 0)]
NewChunk(at) == [start |-> at, count |-> Pair(0, 0), text |-> <<>>]

\* A defect: the header of a chunk with an empty side counts from 1 like others.
HeaderFromOne(chunk) ==
  [chunk EXCEPT !.start = Pair(@.x + 1, @.y + 1)]
\* Line numbers from 1, but 0,0 for an empty side.
Header(chunk) ==
  [chunk EXCEPT !.start = Pair(@.x + IF chunk.count.x > 0 THEN 1 ELSE 0,
                               @.y + IF chunk.count.y > 0 THEN 1 ELSE 0)]

\* How far the match m can grow: back to what is done, and on.
Before(x, y, done, m) ==
  Sets!Max({n \in 0 .. m.x : /\ n <= m.x - done.x /\ n <= m.y - done.y
                              /\ \A d \in 0 .. n - 1 : x[m.x - d] = y[m.y - d]})
After(x, y, m) ==
  Sets!Max({n \in 0 .. Len(x) - m.x : /\ n <= Len(y) - m.y
                                       /\ \A d \in 1 .. n : x[m.x + d] = y[m.y + d]})

\* What is printed of the lines up to a match that was grown to start and end: st
\* has done (all printed up to there), the chunk, the chunks printed (out), and
\* whether the loop was left (over).
Differing(x, y, st, start) ==
  Add(Add(st.chunk, Deleted, Slice(x, st.done.x, start.x)), Inserted, Slice(y, st.done.y, start.y))
Emit(x, y, st, start, end) ==
  LET common == end.x - start.x
      eof == end.x >= Len(x) /\ end.y >= Len(y)
      differing == Differing(x, y, st, start)
      open == differing.text # <<>>
      context == IF common < C THEN common ELSE C
      printed == IF open
                 THEN Append(st.out, Header(Add(differing, Kept,
                                                Slice(x, start.x, start.x + context))))
                 ELSE st.out
  IN IF ~eof /\ (common < C \/ (open /\ common < 2 * C))
     THEN [st EXCEPT !.done = end,
                     !.chunk = Add(differing, Kept, Slice(x, start.x, end.x))]
     ELSE IF eof THEN [st EXCEPT !.out = printed, !.over = TRUE]
     ELSE [done |-> end, out |-> printed, over |-> FALSE,
           chunk |-> Add(NewChunk(Pair(end.x - C, end.y - C)), Kept,
                         Slice(x, end.x - C, end.x))]

\* One iteration: a match that was scanned already is skipped.
Match(x, y, st, m) ==
  IF st.over \/ m.x < st.done.x THEN st
  ELSE LET before == Before(x, y, st.done, m)
           after == After(x, y, m)
       IN Emit(x, y, st, Pair(m.x - before, m.y - before), Pair(m.x + after, m.y + after))
First ==
  [done |-> Pair(0, 0), chunk |-> NewChunk(Pair(0, 0)), out |-> <<>>, over |-> FALSE]
Matches(x, y, ms) ==
  LET upTo[n \in 0 .. Len(ms)] ==
        IF n = 0 THEN First ELSE Match(x, y, upTo[n - 1], ms[n])
  IN upTo[Len(ms)]

Diff(old, new) ==
  LET x == Lines(old)
      y == Lines(new)
  IN IF old = new THEN <<>> ELSE Matches(x, y, Tgs(x, y)).out
=============================================================================
